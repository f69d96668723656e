----------------------------- MODULE MCAgentRun -----------------------------
(* AgentRun on small instances.                                             *)
EXTENDS AgentRun

Clean  == [faults |-> {}, messages |-> <<>>]
Faulty == [faults |-> FaultKinds, messages |-> <<>>]
Cut    == [faults |-> {}, messages |-> <<User("earlier")>>]  \* a message without an answer

SomeInstances == {Clean, Faulty, Cut}
=============================================================================
