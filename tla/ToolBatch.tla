----------------------------- MODULE ToolBatch -----------------------------
(***************************************************************************)
(* _process_tool_calls of oh_my_core: the execution of the tool calls of    *)
(* one assistant message.  The run task (the owner) announces the calls one *)
(* by one, then settles them one after the other or in parallel tasks.      *)
(* Every call owns a drain task that forwards the tool's partial results.   *)
(* All events pass one gate, a lock that admits one dispatch at a time.     *)
(*                                                                         *)
(* As in AgentRun a step runs from one await to the next.  A cancel() is    *)
(* delivered at the await a task is suspended at: gather() passes it on to  *)
(* every unfinished call, a listener that receives it counts as settled.    *)
(***************************************************************************)
EXTENDS Integers, Sequences, FiniteSets

CONSTANTS
  CallCount,   \* tool calls in the message
  Modes,       \* execution modes the batch may be given
  MaxUpdates,  \* bound: partial results of one call
  MaxCancels,  \* bound: cancel() calls on the owner by callers of the run
  CanFail,     \* listeners may fail
  CanLeak      \* a tool may fail to clean up after an abort

ASSUME ToolBatchAssumption ==
  /\ CallCount \in Nat \ {0} /\ MaxUpdates \in Nat /\ MaxCancels \in Nat
  /\ Modes \subseteq {"parallel", "sequential"}
  /\ CanFail \in BOOLEAN /\ CanLeak \in BOOLEAN

Calls == 1..CallCount

VARIABLES
  mode,        \* tool_execution of the run's configuration, fixed
  owner,       \* the await the owner is at, or how the batch ended
  next,        \* the next call to announce; next - 1 is started_count
  plan,        \* what the attempt of a call is: to "run" the tool or to "fail"
  task,        \* the await the settlement of a call is at, or how it ended
  fate,        \* what a call's execution came to
  hit,         \* calls with an undelivered cancel()
  drain,       \* the await the drain of a call is at, or how it ended
  drainHit,    \* drains with an undelivered cancel()
  queued,      \* partial results in the call's queue
  made,        \* partial results the tool has produced
  gateQ,       \* who waits for the gate, first come first served
  gateFailed,  \* _ToolEventGate._failed
  aborted,     \* the run's AbortSignal
  ownerHit,    \* an undelivered cancel() of the owner at a gather
  cancels,     \* cancel() calls so far
  opened,      \* calls whose Start was dispatched
  ended        \* how often the End of a call was dispatched

taskVars  == <<plan, task, fate, hit>>
drainVars == <<drain, drainHit, queued, made>>
gateVars  == <<gateQ, gateFailed>>
eventVars == <<opened, ended>>
ownerVars == <<mode, owner, next, ownerHit, cancels>>
vars == <<ownerVars, taskVars, drainVars, gateVars, eventVars, aborted>>

Ended      == {"settled", "cancelled", "failed"}
TaskEnded  == {"done", "cancelled", "failed"}
DrainEnded == {"none", "done", "cancelled", "failed"}
Parallel   == mode = "parallel"

Init ==
  /\ mode \in Modes
  /\ owner = "starting" /\ next = 1 /\ ownerHit = FALSE /\ cancels = 0
  /\ plan = [c \in Calls |-> "none"] /\ task = [c \in Calls |-> "none"]
  /\ fate = [c \in Calls |-> "none"] /\ hit = {}
  /\ drain = [c \in Calls |-> "none"] /\ drainHit = {}
  /\ queued = [c \in Calls |-> 0] /\ made = [c \in Calls |-> 0]
  /\ gateQ = <<>> /\ gateFailed = FALSE
  /\ aborted \in BOOLEAN
  /\ opened = {} /\ ended = [c \in Calls |-> 0]

-----------------------------------------------------------------------------
(* Announcing the calls.                                                    *)

EmitStart ==
  /\ owner = "starting" /\ next <= CallCount /\ ~aborted
  /\ owner' = "emitStart" /\ next' = next + 1
  /\ opened' = opened \cup {next}
  /\ UNCHANGED <<mode, ownerHit, cancels, taskVars, drainVars, gateVars, ended, aborted>>

(* Id correlation, truncation, lookup and argument validation decide the    *)
(* attempt; an abort seen after the announcement cancels it.                *)
StartSettles ==
  /\ owner = "emitStart" /\ owner' = "starting"
  /\ \E p \in (IF aborted THEN {"fail"} ELSE {"run", "fail"}) :
       plan' = [plan EXCEPT ![next - 1] = p]
  /\ UNCHANGED <<mode, next, ownerHit, cancels, task, fate, hit, drainVars, gateVars,
                 eventVars, aborted>>

StartFails ==
  /\ CanFail /\ owner = "emitStart"
  /\ owner' = "failed" /\ aborted' = TRUE /\ gateFailed' = TRUE
  /\ UNCHANGED <<mode, next, ownerHit, cancels, taskVars, drainVars, gateQ, eventVars>>

(* Calls never announced get a cancelled attempt, which emits no End.       *)
Spawn ==
  /\ owner = "starting" /\ (next > CallCount \/ aborted)
  /\ owner' = "gather"
  /\ plan' = [c \in Calls |-> IF c < next THEN plan[c] ELSE "fail"]
  /\ task' = [c \in Calls |-> "new"]
  /\ UNCHANGED <<mode, next, ownerHit, cancels, fate, hit, drainVars, gateVars,
                 eventVars, aborted>>

-----------------------------------------------------------------------------
(* The gate.                                                                *)

GateFree   == \A c \in Calls : task[c] # "emit" /\ drain[c] # "emit"
AcquireNow == GateFree /\ gateQ = <<>>
MyTurn(w)  == GateFree /\ gateQ # <<>> /\ Head(gateQ) = w

(* The queue once w has left it, from wherever it stands.                   *)
Without(w) ==
  IF \E i \in DOMAIN gateQ : gateQ[i] = w
    THEN [j \in 1..(Len(gateQ) - 1) |->
            gateQ[IF \E i \in 1..j : gateQ[i] = w THEN j + 1 ELSE j]]
    ELSE gateQ

(* Dispatching the End of c: the reduction comes first; without an active   *)
(* run the dispatch then raises.                                            *)
DispatchEnd(c) ==
  /\ ended' = [ended EXCEPT ![c] = @ + 1]
  /\ task' = [task EXCEPT ![c] = IF owner \in Ended THEN "failed" ELSE "emit"]
  /\ gateFailed' = (gateFailed \/ owner \in Ended)

(* The failure is looked at once the gate is held.  (Mutant: it is not.)    *)
PassGateUnchecked(c) == DispatchEnd(c)

PassGate(c) ==
  IF gateFailed
    THEN task' = [task EXCEPT ![c] = "done"] /\ UNCHANGED <<ended, gateFailed>>
    ELSE DispatchEnd(c)

RequestEnd(c) ==
  IF AcquireNow
    THEN PassGate(c) /\ UNCHANGED gateQ
    ELSE /\ task' = [task EXCEPT ![c] = "gate"]
         /\ gateQ' = Append(gateQ, <<"task", c>>)
         /\ UNCHANGED <<ended, gateFailed>>

-----------------------------------------------------------------------------
(* The settlement of call c, in its own task or in the owner's.             *)

Turn(c) == Parallel \/ \A b \in 1..(c - 1) : task[b] = "done"

(* The signal is looked at again before the tool starts.                    *)
MayRun(c) == plan[c] = "run" /\ ~aborted

(* Only an announced call has an End.  (Mutant: the next one has, too.)     *)
AnnouncedOrNext(c) == c <= next
Announced(c)       == c < next

Execute(c) ==
  /\ task[c] = "new" /\ Turn(c) /\ c \notin hit
  /\ MayRun(c)
  /\ task' = [task EXCEPT ![c] = "exec"]
  /\ drain' = [drain EXCEPT ![c] = "idle"]
  /\ UNCHANGED <<ownerVars, plan, fate, hit, drainHit, queued, made, gateVars,
                 eventVars, aborted>>

SkipExecution(c) ==
  /\ task[c] = "new" /\ Turn(c) /\ c \notin hit
  /\ ~MayRun(c)
  /\ fate' = [fate EXCEPT ![c] = "error"]
  /\ IF Announced(c)
       THEN RequestEnd(c)
       ELSE task' = [task EXCEPT ![c] = "done"] /\ UNCHANGED <<gateVars, ended>>
  /\ UNCHANGED <<ownerVars, plan, hit, drainVars, opened, aborted>>

(* A task cancelled before its first step runs none of its handlers.        *)
CancelledBeforeStart(c) ==
  /\ task[c] = "new" /\ c \in hit
  /\ task' = [task EXCEPT ![c] = "cancelled"] /\ hit' = hit \ {c}
  /\ UNCHANGED <<ownerVars, plan, fate, drainVars, gateVars, eventVars, aborted>>

(* on_update: ignored once the signal is raised.                            *)
Update(c) ==
  /\ task[c] = "exec" /\ ~aborted /\ made[c] < MaxUpdates
  /\ made' = [made EXCEPT ![c] = @ + 1]
  /\ queued' = [queued EXCEPT ![c] = @ + 1]
  /\ UNCHANGED <<ownerVars, taskVars, drain, drainHit, gateVars, eventVars, aborted>>

(* The tool returns, raises, or honours its cancellation; the drain is then *)
(* told to finish and awaited.                                              *)
ToolReturns(c) ==
  /\ task[c] = "exec"
  /\ \E f \in (IF c \in hit THEN {"cancelled"} ELSE {"ok", "error"})
               \cup (IF CanLeak /\ aborted THEN {"cleanup"} ELSE {}) :
       fate' = [fate EXCEPT ![c] = f]
  /\ task' = [task EXCEPT ![c] = "draining"] /\ hit' = hit \ {c}
  /\ UNCHANGED <<ownerVars, plan, drainVars, gateVars, eventVars, aborted>>

(* The drain is awaited to its end.  (Mutant: it is only told to finish.)   *)
Undrained(c) == task[c] = "draining"
Drained(c)   == task[c] = "draining" /\ drain[c] \in DrainEnded

(* (Mutant: a result that was complete before the abort is kept.)           *)
KeptResult(c) == IF drain[c] = "cancelled" THEN "cancelled" ELSE fate[c]
Result(c)     == IF aborted \/ drain[c] = "cancelled" THEN "cancelled" ELSE fate[c]

(* After the drain: its failure wins, then the tool's own cleanup failure;  *)
(* an abort turns any other result into a cancelled one.                    *)
AfterDrain(c) ==
  /\ Drained(c)
  /\ hit' = hit \ {c}
  /\ IF drain[c] = "failed" \/ fate[c] = "cleanup"
       THEN /\ task' = [task EXCEPT ![c] = "failed"]
            /\ UNCHANGED <<fate, gateVars, ended>>
       ELSE /\ fate' = [fate EXCEPT ![c] = Result(c)]
            /\ RequestEnd(c)
  /\ UNCHANGED <<ownerVars, plan, drainVars, opened, aborted>>

GateAdmits(c) ==
  /\ task[c] = "gate" /\ c \notin hit /\ MyTurn(<<"task", c>>)
  /\ PassGate(c)
  /\ gateQ' = Tail(gateQ)
  /\ UNCHANGED <<ownerVars, plan, fate, hit, drainVars, opened, aborted>>

(* The End is emitted outside every handler of the settlement: a cancel at  *)
(* the gate ends the task as cancelled.                                     *)
CancelledAtGate(c) ==
  /\ task[c] = "gate" /\ c \in hit
  /\ task' = [task EXCEPT ![c] = "cancelled"] /\ hit' = hit \ {c}
  /\ gateQ' = Without(<<"task", c>>)
  /\ UNCHANGED <<ownerVars, plan, fate, drainVars, gateFailed, eventVars, aborted>>

EndSettles(c) ==
  /\ task[c] = "emit"
  /\ task' = [task EXCEPT ![c] = "done"]
  /\ UNCHANGED <<ownerVars, plan, fate, hit, drainVars, gateVars, eventVars, aborted>>

EndFails(c) ==
  /\ CanFail /\ task[c] = "emit"
  /\ task' = [task EXCEPT ![c] = "failed"] /\ gateFailed' = TRUE
  /\ UNCHANGED <<ownerVars, plan, fate, hit, drainVars, gateQ, eventVars, aborted>>

-----------------------------------------------------------------------------
(* The drain of call c: forward partial results in order until the call has *)
(* finished executing and its queue is empty.                               *)

HasUpdate(c) == queued[c] > 0

(* (Mutant: it waits for the end of the call.)                              *)
FinishedLast(c) == queued[c] = 0 /\ task[c] \in TaskEnded
Finished(c)     == queued[c] = 0 /\ task[c] = "draining"

DrainTake(c) ==
  /\ drain[c] = "idle" /\ c \notin drainHit /\ HasUpdate(c)
  /\ queued' = [queued EXCEPT ![c] = @ - 1]
  /\ IF AcquireNow
       THEN /\ drain' = [drain EXCEPT ![c] = IF gateFailed THEN "idle" ELSE "emit"]
            /\ UNCHANGED gateQ
       ELSE /\ drain' = [drain EXCEPT ![c] = "gate"]
            /\ gateQ' = Append(gateQ, <<"drain", c>>)
  /\ UNCHANGED <<ownerVars, taskVars, drainHit, made, gateFailed, eventVars, aborted>>

DrainAdmitted(c) ==
  /\ drain[c] = "gate" /\ c \notin drainHit /\ MyTurn(<<"drain", c>>)
  /\ drain' = [drain EXCEPT ![c] = IF gateFailed THEN "idle" ELSE "emit"]
  /\ gateQ' = Tail(gateQ)
  /\ UNCHANGED <<ownerVars, taskVars, drainHit, queued, made, gateFailed,
                 eventVars, aborted>>

UpdateSettles(c) ==
  /\ drain[c] = "emit"
  /\ drain' = [drain EXCEPT ![c] = "idle"]
  /\ UNCHANGED <<ownerVars, taskVars, drainHit, queued, made, gateVars,
                 eventVars, aborted>>

(* A listener that fails on an update aborts the run and interrupts the     *)
(* tool if it still executes (interrupt_on_drain_failure).                  *)
UpdateFails(c) ==
  /\ CanFail /\ drain[c] = "emit"
  /\ drain' = [drain EXCEPT ![c] = "failed"]
  /\ gateFailed' = TRUE /\ aborted' = TRUE
  /\ hit' = IF task[c] = "exec" THEN hit \cup {c} ELSE hit
  /\ UNCHANGED <<ownerVars, plan, task, fate, drainHit, queued, made, gateQ, eventVars>>

DrainFinishes(c) ==
  /\ drain[c] = "idle" /\ c \notin drainHit /\ Finished(c)
  /\ drain' = [drain EXCEPT ![c] = "done"]
  /\ UNCHANGED <<ownerVars, taskVars, drainHit, queued, made, gateVars,
                 eventVars, aborted>>

DrainCancelled(c) ==
  /\ c \in drainHit /\ drain[c] \in {"idle", "gate"}
  /\ drain' = [drain EXCEPT ![c] = "cancelled"] /\ drainHit' = drainHit \ {c}
  /\ gateQ' = Without(<<"drain", c>>)
  /\ UNCHANGED <<ownerVars, taskVars, queued, made, gateFailed, eventVars, aborted>>

-----------------------------------------------------------------------------
(* The owner at its gathers (in sequential mode: in the current call).      *)

(* cancel() of the settlements in S: each passes it on to what it awaits.   *)
Deliver(S) ==
  /\ hit' = hit \cup {c \in S : task[c] \in {"new", "exec", "gate"}}
  /\ drainHit' = drainHit \cup
       {c \in S : task[c] = "draining" /\ drain[c] \in {"idle", "gate"}}

Current == {c \in Calls : task[c] \notin {"new"} \cup TaskEnded}
Targets == IF Parallel THEN {c \in Calls : task[c] \notin TaskEnded} ELSE Current

CancelOwner ==
  IF owner = "emitStart"
    THEN UNCHANGED <<hit, drainHit, ownerHit>>
    ELSE Deliver(Targets) /\ ownerHit' = Parallel

(* Agent.abort, or the cancellation of the caller that awaits the run.      *)
Abort ==
  /\ owner \in {"emitStart", "gather", "regather", "failing"}
  /\ cancels < MaxCancels
  /\ cancels' = cancels + 1 /\ aborted' = TRUE
  /\ CancelOwner
  /\ UNCHANGED <<mode, owner, next, plan, task, fate, drain, queued, made, gateVars, eventVars>>

(* Agent.abort by a listener running in the owner's own task.               *)
AbortInListener ==
  /\ ~aborted
  /\ owner = "emitStart" \/ (~Parallel /\ \E c \in Calls : task[c] = "emit")
  /\ aborted' = TRUE
  /\ UNCHANGED <<ownerVars, taskVars, drainVars, gateVars, eventVars>>

(* (Mutants: a gather that waits for the first call only; a failing batch   *)
(* that does not wait for the calls it has cancelled.)                      *)
FirstDone      == \E c \in Calls : task[c] = "done"
AllDone        == \A c \in Calls : task[c] = "done"
Unwaited       == TRUE
AllEnded       == \A c \in Calls : task[c] \in TaskEnded
Some(how)      == \E c \in Calls : task[c] = how

(* gather() resumes its awaiter at the first call that ends cancelled or    *)
(* failed, or when all are done; a cancel of the awaiter wins.              *)
GatherDone ==
  /\ owner = "gather" /\ AllDone
  /\ owner' = IF ownerHit THEN "regather" ELSE "settled"
  /\ ownerHit' = FALSE
  /\ UNCHANGED <<mode, next, cancels, taskVars, drainVars, gateVars, eventVars, aborted>>

GatherCancelled ==
  /\ owner = "gather"
  /\ Some("cancelled") \/ (ownerHit /\ Some("failed"))
  /\ owner' = (IF Parallel THEN "regather" ELSE "cancelled")
  /\ ownerHit' = FALSE
  /\ UNCHANGED <<mode, next, cancels, taskVars, drainVars, gateVars, eventVars, aborted>>

(* A lifecycle failure raises the signal, closes the gate and cancels the   *)
(* other calls; then all of them are awaited.                               *)
GatherFails ==
  /\ owner = "gather" /\ Some("failed")
  /\ IF Parallel
       THEN /\ owner' = "failing"
            /\ aborted' = TRUE /\ gateFailed' = TRUE
            /\ Deliver({c \in Calls : task[c] \notin TaskEnded})
       ELSE /\ owner' = "failed" /\ aborted' = TRUE
            /\ UNCHANGED <<gateFailed, hit, drainHit>>
  /\ ownerHit' = FALSE
  /\ UNCHANGED <<mode, next, cancels, plan, task, fate, drain, queued, made, gateQ, eventVars>>

Failing ==
  /\ owner = "failing" /\ AllEnded
  /\ owner' = IF ownerHit THEN "cancelled" ELSE "failed"
  /\ ownerHit' = FALSE
  /\ UNCHANGED <<mode, next, cancels, taskVars, drainVars, gateVars, eventVars, aborted>>

(* The second gather, in the handler of the first one's CancelledError, has *)
(* no handler of its own.                                                   *)
Regather ==
  /\ owner = "regather"
  /\ \/ AllDone /\ ~ownerHit /\ owner' = "settled"
     \/ (Some("cancelled") \/ (ownerHit /\ (AllDone \/ Some("failed")))) /\ owner' = "cancelled"
     \/ Some("failed") /\ owner' = "failed"
  /\ ownerHit' = FALSE
  /\ aborted' = (aborted \/ owner' = "failed")
  /\ UNCHANGED <<mode, next, cancels, taskVars, drainVars, gateVars, eventVars>>

-----------------------------------------------------------------------------
TaskStep(c) ==
  \/ Execute(c) \/ SkipExecution(c) \/ CancelledBeforeStart(c) \/ ToolReturns(c)
  \/ AfterDrain(c) \/ GateAdmits(c) \/ CancelledAtGate(c) \/ EndSettles(c) \/ EndFails(c)

DrainStep(c) ==
  \/ DrainTake(c) \/ DrainAdmitted(c) \/ UpdateSettles(c) \/ UpdateFails(c)
  \/ DrainFinishes(c) \/ DrainCancelled(c)

OwnerStep ==
  \/ EmitStart \/ StartSettles \/ StartFails \/ Spawn
  \/ GatherDone \/ GatherCancelled \/ GatherFails \/ Failing \/ Regather

Next ==
  \/ OwnerStep \/ (\E c \in Calls : TaskStep(c) \/ DrainStep(c) \/ Update(c))
  \/ Abort \/ AbortInListener

Spec == Init /\ [][Next]_vars

(* Every ready task is run, and tools and listeners settle.                 *)
FairSpec ==
  /\ Spec
  /\ WF_vars(OwnerStep)
  /\ \A c \in Calls : WF_vars(TaskStep(c)) /\ WF_vars(DrainStep(c))

-----------------------------------------------------------------------------
(* Properties.                                                              *)

(* Types of the batch; no cancel, update or call beyond its bound.          *)
TypeOK ==
  /\ mode \in Modes
  /\ owner \in {"starting", "emitStart", "gather", "regather", "failing"} \cup Ended
  /\ next \in 1..(CallCount + 1) /\ cancels \in 0..MaxCancels
  /\ {ownerHit, gateFailed, aborted} \subseteq BOOLEAN
  /\ plan \in [Calls -> {"none", "run", "fail"}]
  /\ task \in [Calls -> {"none", "new", "exec", "draining", "gate", "emit"} \cup TaskEnded]
  /\ fate \in [Calls -> {"none", "ok", "error", "cancelled", "cleanup"}]
  /\ drain \in [Calls -> {"idle", "gate", "emit"} \cup DrainEnded]
  /\ hit \subseteq Calls /\ drainHit \subseteq Calls /\ opened \subseteq Calls
  /\ queued \in [Calls -> 0..MaxUpdates] /\ made \in [Calls -> 0..MaxUpdates]
  /\ gateQ \in Seq({"task", "drain"} \X Calls)
  /\ ended \in [Calls -> Nat]

(* The batch implements its contract.  For a batch that was cancelled from  *)
(* outside the verdict does not count: the calls it may leave behind        *)
(* dispatch after it.  (The second gather has no handler.)                  *)
Contract == INSTANCE ToolContract WITH
  open      <- {c \in opened : ended[c] # 1},
  updating  <- {c \in Calls : drain[c] = "emit"},
  closed    <- {c \in Calls : ended[c] > 0},
  succeeded <- {c \in Calls : ended[c] > 0 /\ fate[c] = "ok"},
  answered  <- {c \in Calls : task[c] = "done" /\ fate[c] \in {"ok", "error", "cancelled"}},
  stopped   <- aborted,
  broken    <- gateFailed,
  verdict   <- IF owner \in Ended /\ cancels = 0 THEN owner ELSE "running"

KeepsContract == Contract!ContractSpec

(* A batch that was cancelled from outside gives up, in its second gather,   *)
(* at the first of its parallel calls that ends cancelled or failed.        *)
Deserts == Parallel /\ cancels > 0 /\ (Some("cancelled") \/ Some("failed"))

(* A batch that is over, cancelled or not, has no call of its own still     *)
(* running nor an update still to forward, unless it deserts them; what has *)
(* not begun in sequential mode never will.                                 *)
NothingOutlives ==
  owner \in Ended /\ ~Deserts =>
    \A c \in Calls :
      /\ task[c] \in TaskEnded \cup {"none"} \cup (IF Parallel THEN {} ELSE {"new"})
      /\ drain[c] \in DrainEnded

(* The batch comes to an end, whatever the gate, the drains and the cancels *)
(* do to each other.                                                        *)
BatchEnds == <>(owner \in Ended)
=============================================================================
