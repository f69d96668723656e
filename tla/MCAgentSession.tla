--------------------------- MODULE MCAgentSession ---------------------------
(* Instances of AgentSession for TLC: one run explores several of them.    *)
EXTENDS AgentSession

AtItsLimit == <<"user", "ok", "user", "big">>
TwoJobs == {1, 2}
EitherPrompt == Permutations(Prompts)

Bounds(p, q, r, l, k, c, f) ==
    [prompt |-> p, queue |-> q, reload |-> r, large |-> l, compact |-> k, cancel |-> c, fault |-> f]

\* One prompt: with a queued message and a manual compaction, and a large answer
\* or a cancel; with a queued message, an overflow that is retried and spent, and
\* a failure; with a manual compaction beside those; with a reload. Two prompts
\* that share the session with a compaction, a cancel or a failure.
SmallSessions ==
    {Bounds(1, 1, 0, 1, 1, 0, 0), Bounds(1, 1, 0, 0, 1, 1, 0),
     Bounds(1, 1, 0, 2, 0, 1, 1), Bounds(1, 0, 0, 2, 1, 1, 1),
     Bounds(1, 0, 1, 1, 1, 1, 0),
     Bounds(2, 0, 0, 1, 1, 0, 0), Bounds(2, 0, 0, 0, 1, 1, 0),
     Bounds(2, 0, 0, 1, 0, 1, 0), Bounds(2, 0, 0, 1, 0, 0, 1)}
=============================================================================
