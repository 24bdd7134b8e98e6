----------------------------- MODULE MCWorkflow -----------------------------
EXTENDS Workflow

Agent(label, votes, shared, args, reads) ==
    [label |-> label, votes |-> votes, shared |-> shared, args |-> args, reads |-> reads]
Shaped(shape, lanes) ==
    [shape |-> shape, lanes |-> lanes, rounds |-> 1, max |-> 2, next |-> {}, timeout |-> 0,
     clock |-> FALSE]

\* An item through two stages, the first voted and in the shared tree; a human who may be
\* asked again; and rounds of a finder that reads the first phase and what was found so far.
Review ==
    << Shaped("each", << <<Agent("scan", 3, TRUE, TRUE, {}), Agent("fix", 1, FALSE, FALSE, {})>> >>),
       [Shaped("human", <<>>) EXCEPT !.next = {0, 2}, !.timeout = 2, !.clock = TRUE],
       Shaped("quiet", << <<Agent("find", 1, FALSE, FALSE, {1, 3})>> >>) >>

\* Two agents of one label, "also half of the agent's id, so reused labels are fine".
Reused ==
    << Shaped("agents", << <<Agent("finder", 1, FALSE, FALSE, {})>>,
                           <<Agent("finder", 1, TRUE, TRUE, {})>> >>) >>
=============================================================================
