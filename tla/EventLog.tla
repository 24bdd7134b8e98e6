------------------------------- MODULE EventLog -------------------------------
(***************************************************************************)
(* What the commit path of a session promises, with the writer thread, the *)
(* actor's pipeline and the tickets left out: an append-only log, a prefix *)
(* of it that is promised to survive, and a projection of that prefix      *)
(* which readers see published (hotl-store/src/lib.rs, SessionLog and      *)
(* writer_loop; hotl-engine/src/actor.rs, Head).                           *)
(***************************************************************************)
EXTENDS Naturals, Sequences

CONSTANT Writes  \* what one write can append

VARIABLES
    log,        \* the entries in the file, oldest first
    promised,   \* how many of them an ack has been given for
    view,       \* the projection the session works from
    published   \* the projection its readers see

vars == <<log, promised, view, published>>

Init == log = <<>> /\ promised = 0 /\ view = <<>> /\ published = <<>>

\* A unit reaches the file: one entry or a causal group, in one write.
Write ==
    /\ \E w \in Writes : log' = log \o w
    /\ UNCHANGED <<promised, view, published>>

\* The file is synced: everything in it is promised.
Promise ==
    /\ promised' = Len(log)
    /\ UNCHANGED <<log, view, published>>

\* The projection moves along the promised log, and may be published at once.
Apply ==
    /\ \E n \in Len(view) + 1 .. promised : view' = SubSeq(log, 1, n)
    /\ published' \in {published, view'}
    /\ UNCHANGED <<log, promised>>

Publish ==
    /\ published' = view
    /\ UNCHANGED <<log, promised, view>>

\* A failed write or sync: the log is cut back to what was promised.
RollBack ==
    /\ log' = SubSeq(log, 1, promised)
    /\ UNCHANGED <<promised, view, published>>

\* The process is killed and resumed: the promised entries survive, some of
\* the others may, and the projection is rebuilt from all that did.
Resume ==
    \E n \in promised .. Len(log) :
        /\ log' = SubSeq(log, 1, n)
        /\ promised' = n /\ view' = log' /\ published' = log'

Next == Write \/ Promise \/ Apply \/ Publish \/ RollBack \/ Resume

Spec == Init /\ [][Next]_vars
=============================================================================
