---------------------------- MODULE ToolContract ----------------------------
(***************************************************************************)
(* What a batch of tool calls promises to the rest of the system, to the    *)
(* listeners of its events (the terminal, the session, the extensions) and  *)
(* to the loop that asked for it: every call is opened and closed at most   *)
(* once, its partial results come in between, nothing is dispatched once a  *)
(* listener has failed or the batch has its verdict, no success is reported *)
(* after an abort, and a batch settles only with every opened call closed   *)
(* and a result for every call of the message.                              *)
(***************************************************************************)
CONSTANT Calls

VARIABLES
  open,       \* calls whose ToolExecutionStart has been dispatched, not the End
  updating,   \* calls of which a ToolExecutionUpdate is being dispatched
  closed,     \* calls whose ToolExecutionEnd has been dispatched
  succeeded,  \* those of them that were reported as a success
  answered,   \* calls that have their result
  stopped,    \* the run's signal is raised
  broken,     \* a listener has failed
  verdict     \* "running", "settled", "cancelled" or "failed"

callVars     == <<open, updating, closed, succeeded, verdict>>
contractVars == <<callVars, answered, stopped, broken>>

ContractInit ==
  /\ open = {} /\ updating = {} /\ closed = {} /\ succeeded = {} /\ answered = {}
  /\ stopped \in BOOLEAN /\ broken = FALSE /\ verdict = "running"

Open(c) ==
  /\ verdict = "running" /\ ~broken /\ ~stopped
  /\ c \notin open \cup closed
  /\ open' = open \cup {c}
  /\ UNCHANGED <<updating, closed, succeeded, verdict>>

Update(c) ==
  /\ verdict = "running" /\ ~broken
  /\ c \in open
  /\ updating' = updating \cup {c}
  /\ UNCHANGED <<open, closed, succeeded, verdict>>

Updated(c) ==
  /\ updating' = updating \ {c}
  /\ UNCHANGED <<open, closed, succeeded, verdict>>

Close(c) ==
  /\ verdict = "running" /\ ~broken
  /\ c \in open \ updating
  /\ open' = open \ {c} /\ closed' = closed \cup {c}
  /\ succeeded' \in {succeeded} \cup (IF stopped THEN {} ELSE {succeeded \cup {c}})
  /\ UNCHANGED <<updating, verdict>>

Settle ==
  /\ verdict = "running" /\ open = {} /\ answered = Calls
  /\ verdict' = "settled"
  /\ UNCHANGED <<open, updating, closed, succeeded>>

GiveUp(how) ==
  /\ verdict = "running" /\ stopped'
  /\ verdict' = how
  /\ UNCHANGED <<open, updating, closed, succeeded>>

ContractNext ==
  /\ \/ \E c \in Calls : Open(c) \/ Update(c) \/ Updated(c) \/ Close(c)
     \/ Settle
     \/ \E how \in {"cancelled", "failed"} : GiveUp(how)
     \/ UNCHANGED callVars
  /\ answered \subseteq answered'
  /\ (stopped => stopped') /\ (broken => broken')

ContractSpec == ContractInit /\ [][ContractNext]_contractVars
=============================================================================
