---------------------------- MODULE ToolBatchProofs ----------------------------
(***************************************************************************)
(* Theorems of ToolBatch, for every number of calls, of partial results and *)
(* of cancels: the batch keeps its contract, and leaves nothing behind but  *)
(* parallel calls that were cancelled from outside.                         *)
(*                                                                         *)
(* Where the settlement of a call is tells what has been dispatched for it  *)
(* and that its drain is over; a closed gate has a failed call, a failed    *)
(* drain or an owner that is gone to show for it; without a cancel of the   *)
(* owner a call is only ever cancelled by a batch that is failing.          *)
(***************************************************************************)
EXTENDS ToolBatch, SequenceTheorems, TLAPS

Results == {"ok", "error", "cancelled"}

OwnerTypeOK ==
    /\ mode \in Modes
    /\ owner \in {"starting", "emitStart", "gather", "regather", "failing"} \cup Ended
    /\ next \in 1..(CallCount + 1) /\ cancels \in 0..MaxCancels
    /\ ownerHit \in BOOLEAN /\ gateFailed \in BOOLEAN /\ aborted \in BOOLEAN
PlanTypeOK == plan \in [Calls -> {"none", "run", "fail"}]
TaskTypeOK ==
    task \in [Calls -> {"none", "new", "exec", "draining", "gate", "emit"} \cup TaskEnded]
FateTypeOK == fate \in [Calls -> {"none", "ok", "error", "cancelled", "cleanup"}]
DrainTypeOK == drain \in [Calls -> {"idle", "gate", "emit"} \cup DrainEnded]
SetTypeOK == hit \subseteq Calls /\ drainHit \subseteq Calls /\ opened \subseteq Calls
QueueTypeOK ==
    /\ queued \in [Calls -> 0..MaxUpdates] /\ made \in [Calls -> 0..MaxUpdates]
    /\ \A c \in Calls : queued[c] <= made[c]
Waiters == {"task", "drain"} \X Calls
GateTypeOK == gateQ \in Seq(Waiters)
EndedTypeOK == ended \in [Calls -> Nat]

Types ==
    /\ OwnerTypeOK /\ PlanTypeOK /\ TaskTypeOK /\ FateTypeOK /\ DrainTypeOK /\ SetTypeOK
    /\ QueueTypeOK /\ GateTypeOK /\ EndedTypeOK

(* While the calls are announced nothing else exists.                       *)
Announcing ==
    /\ opened = {c \in Calls : c < next}
    /\ owner \in {"starting", "emitStart"} =>
         (\A c \in Calls : task[c] = "none") /\ hit = {} /\ drainHit = {} /\ ~ownerHit /\ ~gateFailed
    /\ (\E c \in Calls : task[c] = "none") =>
         owner \in {"starting", "emitStart", "failed"} /\ \A c \in Calls : task[c] = "none"

(* Where the settlement of c is tells what was dispatched for it.           *)
Dispatched(c) ==
    /\ plan[c] = "run" => c < next
    /\ task[c] \in {"exec", "draining", "gate", "emit"} => c < next
    /\ task[c] = "emit" => ended[c] = 1
    /\ ended[c] # 0 => ended[c] = 1 /\ c < next /\ task[c] \in {"emit", "done", "failed"}
    /\ task[c] = "done" /\ c < next => ended[c] = 1 \/ gateFailed

(* The drain of c lives while c executes, and its failure is not forgotten. *)
Drains(c) ==
    /\ task[c] \notin {"exec", "draining"} => drain[c] \in DrainEnded
    /\ drain[c] = "failed" => gateFailed /\ task[c] \in {"exec", "draining", "failed"}

(* What the execution of c came to.                                         *)
Comes(c) ==
    /\ task[c] = "draining" => fate[c] # "none"
    /\ fate[c] = "cleanup" => aborted
    /\ task[c] \in {"gate", "emit", "done"} => fate[c] \in Results
    /\ task[c] = "gate" /\ fate[c] = "ok" /\ aborted => gateFailed \/ c \in hit

(* Why c did not get to its end, and who was told so.                       *)
Stops(c) ==
    /\ task[c] = "cancelled" => aborted
    /\ task[c] = "failed" => aborted \/ gateFailed
    /\ c \in hit => aborted /\ task[c] \in {"new", "exec", "gate"}
    /\ c \in drainHit => aborted

Why ==
    /\ ownerHit \/ owner = "failing" => aborted
    /\ owner = "settled" => AllDone
    /\ gateFailed => owner \in Ended \/ \E c \in Calls : "failed" \in {task[c], drain[c]}

(* In sequential mode one call is settled at a time, in the owner's task.   *)
OneByOne ==
    ~Parallel =>
      /\ owner \notin {"regather", "failing"} /\ ~ownerHit
      /\ \A c \in Calls : task[c] = "new" => c \notin hit
      /\ \A c \in Calls : task[c] \notin {"none", "new"} => \A b \in 1..(c - 1) : task[b] = "done"

(* Unless the owner was cancelled, calls are cancelled by a failing batch.  *)
Uncancelled ==
    cancels = 0 =>
      /\ owner # "regather" /\ ~ownerHit
      /\ owner \in {"starting", "emitStart", "gather", "settled"} =>
           \A c \in Calls : task[c] # "cancelled" /\ (c \in hit => task[c] = "exec")

(* What a batch leaves behind it leaves because of a call that has ended    *)
(* cancelled or failed.                                                     *)
Told ==
    owner \in {"cancelled", "failed"} =>
      \A c \in Calls : task[c] \notin TaskEnded \cup {"none"} =>
        \E b \in Calls : task[b] \in {"cancelled", "failed"}

(* Only parallel calls, cancelled from outside, outlive their batch.        *)
Over ==
    owner \in Ended /\ (cancels = 0 \/ ~Parallel) =>
      \A c \in Calls :
        task[c] \in TaskEnded \cup {"none"} \cup (IF Parallel THEN {} ELSE {"new"})

Known(c) == Dispatched(c) /\ Drains(c) /\ Comes(c) /\ Stops(c)

IInv ==
    /\ Types /\ Announcing /\ Why /\ OneByOne /\ Uncancelled /\ Told /\ Over
    /\ \A c \in Calls : Known(c)

-----------------------------------------------------------------------------
(* The invariant is inductive.                                              *)

LEMMA Numbered == CallCount \in Nat \ {0} /\ Calls = 1..CallCount /\ \A c \in Calls : c \in Nat
  BY ToolBatchAssumption DEF ToolBatchAssumption, Calls

LEMMA InitIInv == Init => IInv
<1> SUFFICES ASSUME Init PROVE IInv
  OBVIOUS
<1>1. GateTypeOK
  BY DEF Init, GateTypeOK
<1> USE Numbered, ToolBatchAssumption DEF ToolBatchAssumption, Init
<1>2. Types
  <2>1. OwnerTypeOK
    <3>1. 1 \in 1..(CallCount + 1) /\ 0 \in 0..MaxCancels
      OBVIOUS
    <3> QED  BY <3>1 DEF OwnerTypeOK, Ended
  <2>2. PlanTypeOK /\ TaskTypeOK /\ FateTypeOK /\ DrainTypeOK
    BY DEF PlanTypeOK, TaskTypeOK, FateTypeOK, DrainTypeOK, DrainEnded
  <2>3. SetTypeOK /\ QueueTypeOK /\ EndedTypeOK
    BY DEF SetTypeOK, QueueTypeOK, EndedTypeOK
  <2> QED  BY <1>1, <2>1, <2>2, <2>3 DEF Types
<1>3. Announcing
  BY DEF Announcing
<1>4. Why /\ Uncancelled /\ Told /\ Over
  BY DEF Why, Uncancelled, Told, Over, Ended, AllDone
<1>5. OneByOne
  BY DEF OneByOne
<1>6. \A c \in Calls : Known(c)
  BY DEF Known, Dispatched, Drains, Comes, Stops, DrainEnded
<1> QED  BY <1>2, <1>3, <1>4, <1>5, <1>6 DEF IInv

(* What may become of the queue of the gate.                                *)
LEMMA GateQueue ==
  ASSUME GateTypeOK, NEW w \in Waiters
  PROVE  /\ Append(gateQ, w) \in Seq(Waiters)
         /\ gateQ # <<>> => Tail(gateQ) \in Seq(Waiters)
         /\ Without(w) \in Seq(Waiters)
<1>1. Without(w) \in Seq(Waiters)
  BY DEF Without, GateTypeOK
<1>2. Append(gateQ, w) \in Seq(Waiters) /\ (gateQ # <<>> => Tail(gateQ) \in Seq(Waiters))
  BY DEF GateTypeOK
<1> QED  BY <1>1, <1>2

LEMMA Waiting == \A c \in Calls : <<"task", c>> \in Waiters /\ <<"drain", c>> \in Waiters
  BY DEF Waiters

LEMMA TypesTypeOK == Types => TypeOK
<1> SUFFICES ASSUME Types PROVE TypeOK
  OBVIOUS
<1> DEFINE S == {"task", "drain"} \X Calls
<1>1. gateQ \in Seq(S)
  BY DEF Types, GateTypeOK, Waiters
<1> HIDE DEF S
<1> QED
  BY <1>1 DEF Types, TypeOK, OwnerTypeOK, PlanTypeOK, TaskTypeOK, FateTypeOK, DrainTypeOK,
     SetTypeOK, QueueTypeOK, EndedTypeOK, S

(* Steps of a call or its drain are over with such a batch.                 *)
LEMMA OverIsOver ==
  ASSUME IInv, cancels = 0 \/ ~Parallel, owner \in Ended, NEW c \in Calls,
         TaskStep(c) \/ DrainStep(c) \/ Update(c)
  PROVE  FALSE
<1>1. task[c] \in TaskEnded \cup {"none"} \cup (IF Parallel THEN {} ELSE {"new"})
  BY DEF IInv, Over
<1>2. drain[c] \in DrainEnded
  BY <1>1 DEF IInv, Known, Drains, TaskEnded
<1>3. ~DrainStep(c) /\ ~Update(c)
  BY <1>1, <1>2 DEF DrainStep, DrainTake, DrainAdmitted, UpdateSettles, UpdateFails,
     DrainFinishes, DrainCancelled, Update, DrainEnded, TaskEnded
<1>4. task[c] = "new" /\ ~Parallel
  BY <1>1, <1>3 DEF TaskStep, Execute, SkipExecution, CancelledBeforeStart, ToolReturns,
     AfterDrain, Drained, GateAdmits, CancelledAtGate, EndSettles, EndFails, TaskEnded
<1>5. c \notin hit
  BY <1>4 DEF IInv, OneByOne
<1>6. Turn(c)
  BY <1>3, <1>4, <1>5 DEF TaskStep, Execute, SkipExecution, CancelledBeforeStart, ToolReturns,
     AfterDrain, Drained, GateAdmits, CancelledAtGate, EndSettles, EndFails
<1>7. PICK b \in Calls : task[b] \in {"cancelled", "failed"}
  <2>1. owner # "settled"
    BY <1>4 DEF IInv, Why, AllDone
  <2> QED  BY <1>4, <2>1 DEF IInv, Told, Ended, TaskEnded
<1>8. b \in Nat /\ c \in Nat /\ 1 <= b /\ 1 <= c
  BY Numbered
<1>9. b < c
  <2>1. \A a \in 1..(b - 1) : task[a] = "done"
    BY <1>4, <1>7 DEF IInv, OneByOne
  <2>2. b # c /\ ~(c \in 1..(b - 1))
    BY <1>4, <1>7, <2>1
  <2> QED  BY <1>8, <2>2
<1>10. task[b] = "done"
  BY <1>4, <1>6, <1>8, <1>9 DEF Turn
<1> QED  BY <1>7, <1>10

-----------------------------------------------------------------------------
(* The steps of a call and of its drain.                                    *)

(* What the gate makes of the End of c.                                     *)
EndOf(c) ==
    \/ /\ gateFailed
       /\ task' = [task EXCEPT ![c] = "done"] /\ UNCHANGED <<ended, gateFailed>>
    \/ /\ ~gateFailed /\ owner \notin Ended
       /\ task' = [task EXCEPT ![c] = "emit"] /\ ended' = [ended EXCEPT ![c] = @ + 1]
       /\ gateFailed' = FALSE
    \/ /\ ~gateFailed /\ owner \in Ended
       /\ task' = [task EXCEPT ![c] = "failed"] /\ ended' = [ended EXCEPT ![c] = @ + 1]
       /\ gateFailed' = TRUE

LEMMA PassedGate ==
  ASSUME NEW c \in Calls, OwnerTypeOK, PassGate(c)
  PROVE  EndOf(c)
  BY DEF PassGate, DispatchEnd, EndOf, OwnerTypeOK

LEMMA RequestedEnd ==
  ASSUME NEW c \in Calls, OwnerTypeOK, RequestEnd(c)
  PROVE  \/ EndOf(c) /\ UNCHANGED gateQ
         \/ /\ task' = [task EXCEPT ![c] = "gate"] /\ gateQ' = Append(gateQ, <<"task", c>>)
            /\ UNCHANGED <<ended, gateFailed>>
  BY PassedGate DEF RequestEnd

LEMMA SkippedExecution ==
  ASSUME NEW c \in Calls, OwnerTypeOK, SkipExecution(c)
  PROVE  \/ EndOf(c) /\ UNCHANGED gateQ /\ c < next
         \/ /\ task' = [task EXCEPT ![c] = "gate"] /\ gateQ' = Append(gateQ, <<"task", c>>)
            /\ UNCHANGED <<ended, gateFailed>> /\ c < next
         \/ /\ task' = [task EXCEPT ![c] = "done"] /\ UNCHANGED <<gateQ, ended, gateFailed>>
            /\ ~(c < next)
  BY RequestedEnd DEF SkipExecution, Announced, gateVars

LEMMA EndTypes ==
  ASSUME Types, NEW c \in Calls, EndOf(c)
  PROVE  TaskTypeOK' /\ EndedTypeOK' /\ gateFailed' \in BOOLEAN
<1>1. TaskTypeOK /\ EndedTypeOK /\ gateFailed \in BOOLEAN
  BY DEF Types, OwnerTypeOK
<1>2. TaskTypeOK'
  BY <1>1 DEF EndOf, TaskTypeOK, TaskEnded
<1>3. EndedTypeOK'
  BY <1>1 DEF EndOf, EndedTypeOK
<1> QED  BY <1>1, <1>2, <1>3 DEF EndOf

LEMMA TaskStepTypes ==
  ASSUME Types, NEW c \in Calls, TaskStep(c)
  PROVE  Types'
<1> USE Waiting, GateQueue DEF ownerVars, taskVars, drainVars, gateVars, eventVars
<1>0. /\ OwnerTypeOK /\ PlanTypeOK /\ TaskTypeOK /\ FateTypeOK /\ DrainTypeOK /\ SetTypeOK
      /\ QueueTypeOK /\ GateTypeOK /\ EndedTypeOK
  BY DEF Types
<1>1. CASE Execute(c)
  <2>1. TaskTypeOK' /\ DrainTypeOK'
    BY <1>0, <1>1 DEF Execute, TaskTypeOK, DrainTypeOK
  <2> QED
    BY <1>0, <1>1, <2>1 DEF Execute, Types, OwnerTypeOK, PlanTypeOK, FateTypeOK, SetTypeOK,
       QueueTypeOK, GateTypeOK, EndedTypeOK
<1>2. CASE SkipExecution(c)
  <2>1. FateTypeOK'
    BY <1>0, <1>2 DEF SkipExecution, FateTypeOK
  <2>2. TaskTypeOK' /\ EndedTypeOK' /\ gateFailed' \in BOOLEAN
    BY <1>0, <1>2, SkippedExecution, EndTypes DEF TaskTypeOK, EndedTypeOK, OwnerTypeOK, TaskEnded
  <2>3. gateQ' \in Seq(Waiters)
    BY <1>0, <1>2, SkippedExecution DEF GateTypeOK
  <2> QED
    BY <1>0, <1>2, <2>1, <2>2, <2>3 DEF SkipExecution, Types, OwnerTypeOK, PlanTypeOK, DrainTypeOK,
       SetTypeOK, QueueTypeOK, GateTypeOK
<1>3. CASE CancelledBeforeStart(c)
  <2>1. TaskTypeOK' /\ SetTypeOK'
    BY <1>0, <1>3 DEF CancelledBeforeStart, TaskTypeOK, SetTypeOK, TaskEnded
  <2> QED
    BY <1>0, <1>3, <2>1 DEF CancelledBeforeStart, Types, OwnerTypeOK, PlanTypeOK, FateTypeOK,
       DrainTypeOK, QueueTypeOK, GateTypeOK, EndedTypeOK
<1>4. CASE ToolReturns(c)
  <2>1. TaskTypeOK' /\ SetTypeOK'
    BY <1>0, <1>4 DEF ToolReturns, TaskTypeOK, SetTypeOK
  <2>2. FateTypeOK'
    BY <1>0, <1>4 DEF ToolReturns, FateTypeOK
  <2> QED
    BY <1>0, <1>4, <2>1, <2>2 DEF ToolReturns, Types, OwnerTypeOK, PlanTypeOK, DrainTypeOK,
       QueueTypeOK, GateTypeOK, EndedTypeOK
<1>5. CASE AfterDrain(c)
  <2>1. SetTypeOK'
    BY <1>0, <1>5 DEF AfterDrain, SetTypeOK
  <2>2. CASE drain[c] = "failed" \/ fate[c] = "cleanup"
    <3>1. TaskTypeOK'
      BY <1>0, <1>5, <2>2 DEF AfterDrain, TaskTypeOK, TaskEnded
    <3> QED
      BY <1>0, <1>5, <2>1, <2>2, <3>1 DEF AfterDrain, Types, OwnerTypeOK, PlanTypeOK, FateTypeOK,
         DrainTypeOK, QueueTypeOK, GateTypeOK, EndedTypeOK
  <2>3. CASE ~(drain[c] = "failed" \/ fate[c] = "cleanup")
    <3>1. RequestEnd(c)
      BY <1>5, <2>3 DEF AfterDrain
    <3>2. FateTypeOK'
      BY <1>0, <1>5, <2>3 DEF AfterDrain, Result, FateTypeOK
    <3>3. TaskTypeOK' /\ EndedTypeOK' /\ gateFailed' \in BOOLEAN
      BY <1>0, <3>1, RequestedEnd, EndTypes DEF TaskTypeOK, EndedTypeOK, OwnerTypeOK
    <3>4. gateQ' \in Seq(Waiters)
      BY <1>0, <3>1, RequestedEnd DEF GateTypeOK
    <3> QED
      BY <1>0, <1>5, <2>1, <3>2, <3>3, <3>4 DEF AfterDrain, Types, OwnerTypeOK, PlanTypeOK,
         DrainTypeOK, QueueTypeOK, GateTypeOK
  <2> QED  BY <2>2, <2>3
<1>6. CASE GateAdmits(c)
  <2>1. TaskTypeOK' /\ EndedTypeOK' /\ gateFailed' \in BOOLEAN
    BY <1>0, <1>6, PassedGate, EndTypes DEF GateAdmits
  <2>2. gateQ' \in Seq(Waiters)
    BY <1>0, <1>6 DEF GateAdmits, MyTurn
  <2> QED
    BY <1>0, <1>6, <2>1, <2>2 DEF GateAdmits, Types, OwnerTypeOK, PlanTypeOK, FateTypeOK,
       DrainTypeOK, SetTypeOK, QueueTypeOK, GateTypeOK
<1>7. CASE CancelledAtGate(c)
  <2>1. TaskTypeOK' /\ SetTypeOK'
    BY <1>0, <1>7 DEF CancelledAtGate, TaskTypeOK, SetTypeOK, TaskEnded
  <2>2. GateTypeOK'
    BY <1>0, <1>7 DEF CancelledAtGate, GateTypeOK
  <2> QED
    BY <1>0, <1>7, <2>1, <2>2 DEF CancelledAtGate, Types, OwnerTypeOK, PlanTypeOK, FateTypeOK,
       DrainTypeOK, QueueTypeOK, EndedTypeOK
<1>8. CASE EndSettles(c) \/ EndFails(c)
  <2>1. TaskTypeOK' /\ gateFailed' \in BOOLEAN
    BY <1>0, <1>8 DEF EndSettles, EndFails, TaskTypeOK, TaskEnded, OwnerTypeOK
  <2> QED
    BY <1>0, <1>8, <2>1 DEF EndSettles, EndFails, Types, OwnerTypeOK, PlanTypeOK, FateTypeOK,
       DrainTypeOK, SetTypeOK, QueueTypeOK, GateTypeOK, EndedTypeOK
<1> QED  BY <1>1, <1>2, <1>3, <1>4, <1>5, <1>6, <1>7, <1>8 DEF TaskStep

LEMMA DrainStepTypes ==
  ASSUME Types, NEW c \in Calls, DrainStep(c) \/ Update(c)
  PROVE  Types'
<1> USE Waiting, GateQueue, ToolBatchAssumption
    DEF ToolBatchAssumption, ownerVars, taskVars, drainVars, gateVars, eventVars
<1>0. /\ OwnerTypeOK /\ PlanTypeOK /\ TaskTypeOK /\ FateTypeOK /\ DrainTypeOK /\ SetTypeOK
      /\ QueueTypeOK /\ GateTypeOK /\ EndedTypeOK
  BY DEF Types
<1>1. CASE DrainTake(c)
  <2>1. queued' = [queued EXCEPT ![c] = @ - 1] /\ queued[c] > 0 /\ made' = made
    BY <1>1 DEF DrainTake, HasUpdate
  <2>2. QueueTypeOK'
    BY <1>0, <2>1 DEF QueueTypeOK
  <2>3. DrainTypeOK'
    BY <1>0, <1>1 DEF DrainTake, DrainTypeOK
  <2>4. GateTypeOK'
    BY <1>0, <1>1 DEF DrainTake, GateTypeOK
  <2> QED
    BY <1>0, <1>1, <2>2, <2>3, <2>4 DEF DrainTake, Types, OwnerTypeOK, PlanTypeOK, FateTypeOK,
       TaskTypeOK, SetTypeOK, EndedTypeOK
<1>2. CASE DrainAdmitted(c)
  <2>1. DrainTypeOK'
    BY <1>0, <1>2 DEF DrainAdmitted, DrainTypeOK
  <2>2. GateTypeOK'
    BY <1>0, <1>2 DEF DrainAdmitted, MyTurn, GateTypeOK
  <2> QED
    BY <1>0, <1>2, <2>1, <2>2 DEF DrainAdmitted, Types, OwnerTypeOK, PlanTypeOK, FateTypeOK,
       TaskTypeOK, SetTypeOK, QueueTypeOK, EndedTypeOK
<1>3. CASE UpdateSettles(c) \/ DrainFinishes(c)
  <2>1. DrainTypeOK'
    BY <1>0, <1>3 DEF UpdateSettles, DrainFinishes, DrainTypeOK, DrainEnded
  <2> QED
    BY <1>0, <1>3, <2>1 DEF UpdateSettles, DrainFinishes, Types, OwnerTypeOK, PlanTypeOK,
       FateTypeOK, TaskTypeOK, SetTypeOK, QueueTypeOK, GateTypeOK, EndedTypeOK
<1>4. CASE UpdateFails(c)
  <2>1. DrainTypeOK'
    BY <1>0, <1>4 DEF UpdateFails, DrainTypeOK, DrainEnded
  <2>2. SetTypeOK'
    BY <1>0, <1>4 DEF UpdateFails, SetTypeOK
  <2> QED
    BY <1>0, <1>4, <2>1, <2>2 DEF UpdateFails, Types, OwnerTypeOK, PlanTypeOK,
       FateTypeOK, TaskTypeOK, QueueTypeOK, GateTypeOK, EndedTypeOK
<1>5. CASE DrainCancelled(c)
  <2>1. DrainTypeOK' /\ SetTypeOK'
    BY <1>0, <1>5 DEF DrainCancelled, DrainTypeOK, SetTypeOK, DrainEnded
  <2>2. GateTypeOK'
    BY <1>0, <1>5 DEF DrainCancelled, GateTypeOK
  <2> QED
    BY <1>0, <1>5, <2>1, <2>2 DEF DrainCancelled, Types, OwnerTypeOK, PlanTypeOK,
       FateTypeOK, TaskTypeOK, QueueTypeOK, EndedTypeOK
<1>6. CASE Update(c)
  <2>1. /\ made' = [made EXCEPT ![c] = @ + 1] /\ queued' = [queued EXCEPT ![c] = @ + 1]
        /\ made[c] < MaxUpdates
    BY <1>6 DEF Update
  <2>2. QueueTypeOK'
    BY <1>0, <2>1 DEF QueueTypeOK
  <2> QED
    BY <1>0, <1>6, <2>2 DEF Update, Types, OwnerTypeOK, PlanTypeOK,
       FateTypeOK, TaskTypeOK, DrainTypeOK, SetTypeOK, GateTypeOK, EndedTypeOK
<1> QED  BY <1>1, <1>2, <1>3, <1>4, <1>5, <1>6 DEF DrainStep

(* A call whose settlement or drain moves has one that lives.               *)
LEMMA Alive ==
  ASSUME IInv, NEW c \in Calls, TaskStep(c) \/ DrainStep(c) \/ Update(c)
  PROVE  /\ task[c] \notin TaskEnded \cup {"none"}
         /\ DrainStep(c) \/ Update(c) => task[c] \in {"exec", "draining"}
<1>1. Drains(c)
  BY DEF IInv, Known
<1>2. TaskStep(c) => task[c] \in {"new", "exec", "draining", "gate", "emit"}
  BY DEF TaskStep, Execute, SkipExecution, CancelledBeforeStart, ToolReturns,
     AfterDrain, Drained, GateAdmits, CancelledAtGate, EndSettles, EndFails
<1>3. DrainStep(c) => drain[c] \in {"idle", "gate", "emit"}
  BY DEF DrainStep, DrainTake, DrainAdmitted, UpdateSettles, UpdateFails,
     DrainFinishes, DrainCancelled
<1>4. DrainStep(c) \/ Update(c) => task[c] \in {"exec", "draining"}
  BY <1>1, <1>3 DEF Drains, DrainEnded, Update
<1> QED  BY <1>2, <1>4 DEF TaskEnded

(* What a step of c does not touch.                                         *)
Elsewhere(c) ==
    /\ UNCHANGED <<mode, owner, next, ownerHit, cancels, plan, opened>>
    /\ \A d \in Calls \ {c} :
         /\ task'[d] = task[d] /\ fate'[d] = fate[d] /\ drain'[d] = drain[d] /\ ended'[d] = ended[d]
         /\ d \in hit' <=> d \in hit
         /\ d \in drainHit' <=> d \in drainHit
    /\ gateFailed => gateFailed'
    /\ aborted => aborted'
    /\ aborted' # aborted => gateFailed'

LEMMA StepElsewhere ==
  ASSUME Types, NEW c \in Calls, TaskStep(c) \/ DrainStep(c) \/ Update(c)
  PROVE  Elsewhere(c)
<1> USE DEF ownerVars, taskVars, drainVars, gateVars, eventVars
<1>0. /\ OwnerTypeOK /\ TaskTypeOK /\ FateTypeOK /\ DrainTypeOK /\ EndedTypeOK
  BY DEF Types
<1>e. EndOf(c) => \A d \in Calls \ {c} : task'[d] = task[d] /\ ended'[d] = ended[d]
  BY <1>0 DEF EndOf, TaskTypeOK, EndedTypeOK
<1>g. EndOf(c) => (gateFailed => gateFailed')
  BY DEF EndOf
<1>1. CASE Execute(c)
  BY <1>0, <1>1 DEF Execute, Elsewhere, TaskTypeOK, DrainTypeOK
<1>2. CASE SkipExecution(c)
  <2>1. /\ \A d \in Calls \ {c} : task'[d] = task[d] /\ ended'[d] = ended[d]
        /\ gateFailed => gateFailed'
    BY <1>0, <1>2, <1>e, <1>g, SkippedExecution DEF TaskTypeOK
  <2> QED  BY <1>0, <1>2, <2>1 DEF SkipExecution, Elsewhere, FateTypeOK
<1>3. CASE CancelledBeforeStart(c)
  BY <1>0, <1>3 DEF CancelledBeforeStart, Elsewhere, TaskTypeOK
<1>4. CASE ToolReturns(c)
  BY <1>0, <1>4 DEF ToolReturns, Elsewhere, TaskTypeOK, FateTypeOK
<1>5. CASE AfterDrain(c)
  <2>1. CASE drain[c] = "failed" \/ fate[c] = "cleanup"
    BY <1>0, <1>5, <2>1 DEF AfterDrain, Elsewhere, TaskTypeOK
  <2>2. CASE ~(drain[c] = "failed" \/ fate[c] = "cleanup")
    <3>1. RequestEnd(c) /\ fate' = [fate EXCEPT ![c] = Result(c)]
      BY <1>5, <2>2 DEF AfterDrain
    <3>2. /\ \A d \in Calls \ {c} : task'[d] = task[d] /\ ended'[d] = ended[d]
          /\ gateFailed => gateFailed'
      BY <1>0, <3>1, <1>e, <1>g, RequestedEnd DEF TaskTypeOK
    <3> QED  BY <1>0, <1>5, <3>1, <3>2 DEF AfterDrain, Elsewhere, FateTypeOK
  <2> QED  BY <2>1, <2>2
<1>6. CASE GateAdmits(c)
  <2>1. EndOf(c)
    BY <1>0, <1>6, PassedGate DEF GateAdmits
  <2> QED  BY <1>6, <1>e, <1>g, <2>1 DEF GateAdmits, Elsewhere
<1>7. CASE CancelledAtGate(c)
  BY <1>0, <1>7 DEF CancelledAtGate, Elsewhere, TaskTypeOK
<1>8. CASE EndSettles(c) \/ EndFails(c)
  BY <1>0, <1>8 DEF EndSettles, EndFails, Elsewhere, TaskTypeOK
<1>9. CASE DrainStep(c)
  BY <1>0, <1>9 DEF DrainStep, DrainTake, DrainAdmitted, UpdateSettles, UpdateFails,
     DrainFinishes, DrainCancelled, Elsewhere, DrainTypeOK
<1>10. CASE Update(c)
  BY <1>10 DEF Update, Elsewhere
<1> QED
  BY <1>1, <1>2, <1>3, <1>4, <1>5, <1>6, <1>7, <1>8, <1>9, <1>10 DEF TaskStep

(* What is known of another call stays true.                                *)
LEMMA StepOthers ==
  ASSUME NEW c \in Calls, Elsewhere(c), NEW d \in Calls \ {c}, Known(d)
  PROVE  Known(d)'
<1>1. Dispatched(d)'
  BY DEF Known, Elsewhere, Dispatched
<1>2. Drains(d)'
  BY DEF Known, Elsewhere, Drains
<1>3. Comes(d)'
  BY DEF Known, Elsewhere, Comes
<1>4. Stops(d)'
  BY DEF Known, Elsewhere, Stops
<1> QED  BY <1>1, <1>2, <1>3, <1>4 DEF Known

(* What is known of c stays true when the gate deals with its End.          *)
LEMMA EndKnown ==
  ASSUME IInv, NEW c \in Calls, UNCHANGED <<plan, next, drain, drainHit, aborted>>,
         task[c] \in {"new", "draining", "gate"}, c < next, EndOf(c),
         drain[c] \in DrainEnded \ {"failed"}, fate'[c] \in Results, c \notin hit'
  PROVE  Known(c)'
<1>1. TaskTypeOK /\ EndedTypeOK /\ Dispatched(c) /\ Drains(c) /\ Comes(c) /\ Stops(c)
  BY DEF IInv, Types, Known
<1>2. ended[c] = 0
  BY <1>1 DEF Dispatched
<1>3. \/ task'[c] = "done" /\ gateFailed' /\ ended'[c] = 0
      \/ task'[c] = "emit" /\ ended'[c] = 1
      \/ task'[c] = "failed" /\ ended'[c] = 1 /\ gateFailed'
  BY <1>1, <1>2 DEF EndOf, TaskTypeOK, EndedTypeOK
<1>4. Dispatched(c)'
  BY <1>1, <1>3 DEF Dispatched
<1>5. Drains(c)'
  BY <1>1, <1>3 DEF Drains
<1>6. Comes(c)'
  BY <1>1, <1>3 DEF Comes, Results
<1>7. Stops(c)'
  BY <1>1, <1>3 DEF Stops
<1> QED  BY <1>4, <1>5, <1>6, <1>7 DEF Known

(* ... and when it has to wait there.                                       *)
LEMMA GateKnown ==
  ASSUME IInv, NEW c \in Calls, UNCHANGED <<plan, next, drain, drainHit, aborted, ended, gateFailed>>,
         task[c] \in {"new", "draining"}, c < next, task' = [task EXCEPT ![c] = "gate"],
         drain[c] \in DrainEnded \ {"failed"}, fate'[c] \in Results, c \notin hit',
         fate'[c] = "ok" => ~aborted
  PROVE  Known(c)'
<1>1. TaskTypeOK /\ Dispatched(c) /\ Drains(c) /\ Comes(c) /\ Stops(c)
  BY DEF IInv, Types, Known
<1>2. task'[c] = "gate"
  BY <1>1 DEF TaskTypeOK
<1>4. Dispatched(c)'
  BY <1>1, <1>2 DEF Dispatched
<1>5. Drains(c)'
  BY <1>1, <1>2 DEF Drains
<1>6. Comes(c)'
  BY <1>1, <1>2 DEF Comes, Results
<1>7. Stops(c)'
  BY <1>1, <1>2 DEF Stops
<1> QED  BY <1>4, <1>5, <1>6, <1>7 DEF Known

LEMMA TaskStepKnown ==
  ASSUME IInv, NEW c \in Calls, TaskStep(c)
  PROVE  Known(c)'
<1> USE DEF ownerVars, taskVars, drainVars, gateVars, eventVars
<1>0. /\ OwnerTypeOK /\ TaskTypeOK /\ FateTypeOK /\ DrainTypeOK
      /\ Dispatched(c) /\ Drains(c) /\ Comes(c) /\ Stops(c)
  BY DEF IInv, Types, Known
<1>1. CASE Execute(c)
  <2>1. task'[c] = "exec" /\ drain'[c] = "idle" /\ plan[c] = "run"
    BY <1>0, <1>1 DEF Execute, TaskTypeOK, DrainTypeOK, MayRun
  <2> QED
    BY <1>0, <1>1, <2>1 DEF Execute, Known, Dispatched, Drains, Comes, Stops
<1>2. CASE SkipExecution(c)
  <2>1. /\ fate'[c] = "error" /\ drain[c] \in DrainEnded \ {"failed"} /\ task[c] = "new"
        /\ c \notin hit' /\ UNCHANGED <<plan, next, drain, drainHit, aborted>>
    BY <1>0, <1>2 DEF SkipExecution, FateTypeOK, Drains
  <2>2. CASE EndOf(c) /\ c < next
    BY <2>1, <2>2, EndKnown DEF Results
  <2>3. CASE /\ task' = [task EXCEPT ![c] = "gate"] /\ c < next
             /\ UNCHANGED <<ended, gateFailed>>
    BY <2>1, <2>3, GateKnown DEF Results
  <2>4. CASE /\ task' = [task EXCEPT ![c] = "done"] /\ ~(c < next)
             /\ UNCHANGED <<ended, gateFailed>>
    <3>1. task'[c] = "done"
      BY <1>0, <2>4 DEF TaskTypeOK
    <3> QED
      BY <1>0, <2>1, <2>4, <3>1 DEF Known, Dispatched, Drains, Comes, Stops, Results
  <2> QED  BY <1>0, <1>2, <2>2, <2>3, <2>4, SkippedExecution
<1>3. CASE CancelledBeforeStart(c)
  <2>1. task'[c] = "cancelled" /\ aborted
    BY <1>0, <1>3 DEF CancelledBeforeStart, TaskTypeOK, Stops
  <2> QED
    BY <1>0, <1>3, <2>1 DEF CancelledBeforeStart, Known, Dispatched, Drains, Comes, Stops
<1>4. CASE ToolReturns(c)
  <2>1. /\ task'[c] = "draining" /\ fate'[c] # "none" /\ (fate'[c] = "cleanup" => aborted)
    BY <1>0, <1>4 DEF ToolReturns, TaskTypeOK, FateTypeOK
  <2> QED
    BY <1>0, <1>4, <2>1 DEF ToolReturns, Known, Dispatched, Drains, Comes, Stops
<1>5. CASE AfterDrain(c)
  <2>1. /\ task[c] = "draining" /\ c < next /\ c \notin hit' /\ drain[c] \in DrainEnded
        /\ UNCHANGED <<plan, next, drain, drainHit, aborted>>
    BY <1>0, <1>5 DEF AfterDrain, Drained, Dispatched
  <2>2. CASE drain[c] = "failed" \/ fate[c] = "cleanup"
    <3>1. task'[c] = "failed" /\ UNCHANGED <<fate, gateFailed, ended>>
      BY <1>0, <1>5, <2>2 DEF AfterDrain, TaskTypeOK
    <3>2. aborted \/ gateFailed
      BY <1>0, <2>2 DEF Drains, Comes
    <3> QED
      BY <1>0, <2>1, <3>1, <3>2 DEF Known, Dispatched, Drains, Comes, Stops
  <2>3. CASE ~(drain[c] = "failed" \/ fate[c] = "cleanup")
    <3>1. RequestEnd(c) /\ fate' = [fate EXCEPT ![c] = Result(c)]
      BY <1>5, <2>3 DEF AfterDrain
    <3>2. fate'[c] = Result(c)
      BY <1>0, <3>1 DEF FateTypeOK
    <3>3. fate'[c] \in Results /\ (fate'[c] = "ok" => ~aborted)
      BY <1>0, <2>1, <2>3, <3>2 DEF Result, Results, Comes, FateTypeOK
    <3> QED
      BY <1>0, <2>1, <2>3, <3>1, <3>3, RequestedEnd, EndKnown, GateKnown
  <2> QED  BY <2>2, <2>3
<1>6. CASE GateAdmits(c)
  <2>1. EndOf(c)
    BY <1>0, <1>6, PassedGate DEF GateAdmits
  <2>2. /\ task[c] = "gate" /\ c < next /\ drain[c] \in DrainEnded \ {"failed"}
        /\ fate[c] \in Results /\ c \notin hit'
        /\ UNCHANGED <<plan, next, fate, drain, drainHit, aborted>>
    BY <1>0, <1>6 DEF GateAdmits, Dispatched, Drains, Comes
  <2> QED  BY <2>1, <2>2, EndKnown
<1>7. CASE CancelledAtGate(c)
  <2>1. task'[c] = "cancelled" /\ aborted
    BY <1>0, <1>7 DEF CancelledAtGate, TaskTypeOK, Stops
  <2> QED
    BY <1>0, <1>7, <2>1 DEF CancelledAtGate, Known, Dispatched, Drains, Comes, Stops
<1>8. CASE EndSettles(c)
  <2>1. task'[c] = "done"
    BY <1>0, <1>8 DEF EndSettles, TaskTypeOK
  <2> QED
    BY <1>0, <1>8, <2>1 DEF EndSettles, Known, Dispatched, Drains, Comes, Stops
<1>9. CASE EndFails(c)
  <2>1. task'[c] = "failed"
    BY <1>0, <1>9 DEF EndFails, TaskTypeOK
  <2> QED
    BY <1>0, <1>9, <2>1 DEF EndFails, Known, Dispatched, Drains, Comes, Stops
<1> QED  BY <1>1, <1>2, <1>3, <1>4, <1>5, <1>6, <1>7, <1>8, <1>9 DEF TaskStep

LEMMA DrainStepKnown ==
  ASSUME IInv, NEW c \in Calls, DrainStep(c) \/ Update(c)
  PROVE  Known(c)'
<1> USE DEF ownerVars, taskVars, drainVars, gateVars, eventVars
<1>0. /\ DrainTypeOK /\ Dispatched(c) /\ Drains(c) /\ Comes(c) /\ Stops(c)
  BY DEF IInv, Types, Known
<1>1. task[c] \in {"exec", "draining"}
  BY Alive
<1>2. CASE UpdateFails(c)
  <2>1. drain'[c] = "failed"
    BY <1>0, <1>2 DEF UpdateFails, DrainTypeOK
  <2> QED
    BY <1>0, <1>1, <1>2, <2>1 DEF UpdateFails, Known, Dispatched, Drains, Comes, Stops
<1>3. CASE DrainStep(c) /\ ~UpdateFails(c)
  <2>1. /\ UNCHANGED <<plan, task, fate, hit, next, ended, gateFailed, aborted>>
        /\ drainHit' \subseteq drainHit
    BY <1>3 DEF DrainStep, DrainTake, DrainAdmitted, UpdateSettles, DrainFinishes, DrainCancelled
  <2>2. drain'[c] # "failed"
    BY <1>0, <1>3 DEF DrainStep, DrainTake, DrainAdmitted, UpdateSettles, DrainFinishes,
       DrainCancelled, DrainTypeOK
  <2> QED
    BY <1>0, <1>1, <2>1, <2>2 DEF Known, Dispatched, Drains, Comes, Stops
<1>4. CASE Update(c)
  BY <1>0, <1>4 DEF Update, Known, Dispatched, Drains, Comes, Stops
<1> QED  BY <1>2, <1>3, <1>4

(* Where a step takes c, and what it takes to be cancelled or to fail.      *)
Moves(c) ==
    /\ task'[c] \notin {"none", "new"} \/ task'[c] = task[c]
    /\ task[c] = "new" => Turn(c) \/ c \in hit
    /\ task'[c] = "cancelled" => c \in hit /\ task[c] \in {"new", "gate"}
    /\ c \in hit' => task'[c] = task[c] /\ (task[c] = "exec" \/ c \in hit)
    /\ gateFailed' /\ ~gateFailed => owner \in Ended \/ "failed" \in {task'[c], drain'[c]}
    /\ drain[c] = "failed" => "failed" \in {task'[c], drain'[c]}

LEMMA EndMoves ==
  ASSUME IInv, NEW c \in Calls, UNCHANGED drain,
         c \notin hit', task[c] = "new" => Turn(c) \/ c \in hit,
         \/ EndOf(c)
         \/ task' = [task EXCEPT ![c] = "gate"] /\ UNCHANGED gateFailed
         \/ task' = [task EXCEPT ![c] = "done"] /\ UNCHANGED gateFailed
  PROVE  Moves(c)
<1>1. TaskTypeOK
  BY DEF IInv, Types
<1>2. \/ task'[c] \in {"gate", "done", "emit"} /\ (gateFailed' => gateFailed)
      \/ task'[c] = "failed" /\ owner \in Ended
  BY <1>1 DEF EndOf, TaskTypeOK
<1> QED  BY <1>2 DEF Moves

LEMMA StepMoves ==
  ASSUME IInv, NEW c \in Calls, TaskStep(c) \/ DrainStep(c) \/ Update(c)
  PROVE  Moves(c)
<1> USE DEF ownerVars, taskVars, drainVars, gateVars, eventVars
<1>0. /\ OwnerTypeOK /\ TaskTypeOK /\ DrainTypeOK /\ Dispatched(c) /\ Drains(c) /\ Stops(c)
  BY DEF IInv, Types, Known
<1>1. CASE Execute(c)
  BY <1>0, <1>1 DEF Execute, TaskTypeOK, DrainTypeOK, Drains, Moves
<1>2. CASE SkipExecution(c)
  <2>1. drain' = drain /\ c \notin hit' /\ Turn(c)
    BY <1>2 DEF SkipExecution
  <2> QED  BY <1>0, <1>2, <2>1, SkippedExecution, EndMoves
<1>3. CASE CancelledBeforeStart(c) \/ CancelledAtGate(c)
  BY <1>0, <1>3 DEF CancelledBeforeStart, CancelledAtGate, TaskTypeOK, Moves
<1>4. CASE ToolReturns(c)
  BY <1>0, <1>4 DEF ToolReturns, TaskTypeOK, Moves
<1>5. CASE AfterDrain(c)
  <2>1. CASE drain[c] = "failed" \/ fate[c] = "cleanup"
    BY <1>0, <1>5, <2>1 DEF AfterDrain, Drained, TaskTypeOK, Moves
  <2>2. CASE ~(drain[c] = "failed" \/ fate[c] = "cleanup")
    <3>1. /\ RequestEnd(c) /\ drain' = drain /\ c \notin hit' /\ task[c] # "new"
      BY <1>5, <2>2 DEF AfterDrain, Drained
    <3> QED  BY <1>0, <3>1, RequestedEnd, EndMoves
  <2> QED  BY <2>1, <2>2
<1>6. CASE GateAdmits(c)
  <2>1. EndOf(c) /\ drain' = drain /\ c \notin hit' /\ task[c] # "new"
    BY <1>0, <1>6, PassedGate DEF GateAdmits
  <2> QED  BY <2>1, EndMoves
<1>7. CASE EndSettles(c) \/ EndFails(c)
  <2>1. task'[c] \in {"done", "failed"} /\ (gateFailed' /\ ~gateFailed => task'[c] = "failed")
    BY <1>0, <1>7 DEF EndSettles, EndFails, TaskTypeOK
  <2> QED  BY <1>0, <1>7, <2>1 DEF EndSettles, EndFails, Stops, Moves
<1>8. CASE DrainStep(c) \/ Update(c)
  <2>1. task[c] \in {"exec", "draining"} /\ task' = task
    BY <1>8, Alive DEF DrainStep, DrainTake, DrainAdmitted, UpdateSettles, UpdateFails,
       DrainFinishes, DrainCancelled, Update
  <2>2. CASE UpdateFails(c)
    BY <1>0, <2>1, <2>2 DEF UpdateFails, DrainTypeOK, Moves
  <2>3. CASE ~UpdateFails(c)
    <3>1. gateFailed' = gateFailed /\ hit' = hit
      BY <1>8, <2>3 DEF DrainStep, DrainTake, DrainAdmitted, UpdateSettles, UpdateFails,
         DrainFinishes, DrainCancelled, Update
    <3>2. drain[c] = "failed" => drain' = drain
      BY <1>8, <2>3 DEF DrainStep, DrainTake, DrainAdmitted, UpdateSettles, UpdateFails,
         DrainFinishes, DrainCancelled, Update
    <3> QED  BY <2>1, <3>1, <3>2 DEF Moves
  <2> QED  BY <2>2, <2>3
<1> QED  BY <1>1, <1>2, <1>3, <1>4, <1>5, <1>6, <1>7, <1>8 DEF TaskStep

LEMMA StepIInv ==
  ASSUME IInv, NEW c \in Calls, TaskStep(c) \/ DrainStep(c) \/ Update(c)
  PROVE  IInv'
<1>0. /\ Types /\ Announcing /\ Why /\ OneByOne /\ Uncancelled /\ Told /\ Over
      /\ \A d \in Calls : Known(d)
  BY DEF IInv
<1>1. Elsewhere(c)
  BY <1>0, StepElsewhere
<1>2. task[c] \notin TaskEnded \cup {"none"}
  BY Alive
<1>3. Types'
  BY <1>0, TaskStepTypes, DrainStepTypes
<1>4. \A d \in Calls : Known(d)'
  BY <1>0, <1>1, StepOthers, TaskStepKnown, DrainStepKnown
<1>5. Announcing'
  BY <1>0, <1>1, <1>2, StepMoves DEF Moves, Announcing, Elsewhere
<1>6. Why'
  <2>1. owner # "settled"
    BY <1>0, <1>2 DEF Why, AllDone, TaskEnded
  <2>2. ASSUME gateFailed', owner \notin Ended
        PROVE  \E d \in Calls : "failed" \in {task'[d], drain'[d]}
    <3>1. CASE ~gateFailed
      BY <2>2, <3>1, StepMoves DEF Moves
    <3>2. CASE gateFailed
      <4>1. PICK d \in Calls : "failed" \in {task[d], drain[d]}
        BY <1>0, <2>2, <3>2 DEF Why
      <4> QED  BY <1>1, <1>2, <4>1, StepMoves DEF Moves, Elsewhere, TaskEnded
    <3> QED  BY <3>1, <3>2
  <2> QED  BY <1>0, <1>1, <2>1, <2>2 DEF Why, Elsewhere
<1>7. OneByOne'
  <2> SUFFICES ASSUME ~Parallel PROVE OneByOne'
    BY <1>1 DEF OneByOne, Elsewhere, Parallel
  <2>1. \A d \in Calls : task'[d] = "new" => d \notin hit'
    BY <1>0, <1>1, StepMoves DEF Moves, OneByOne, Elsewhere
  <2>2. \A b \in 1..(c - 1) : task[b] = "done"
    BY <1>0, <1>2, StepMoves DEF Moves, OneByOne, Turn
  <2>3. \A b, d \in Calls : b < d /\ task'[d] \notin {"none", "new"} => task'[b] = "done"
    <3> SUFFICES ASSUME NEW b \in Calls, NEW d \in Calls, b < d, task'[d] \notin {"none", "new"}
                 PROVE  task'[b] = "done"
      OBVIOUS
    <3>1. task[b] = "done"
      BY <1>0, <1>1, <2>2, Numbered DEF OneByOne, Elsewhere
    <3> QED  BY <1>1, <1>2, <3>1 DEF Elsewhere, TaskEnded
  <2> QED  BY <1>0, <1>1, <2>1, <2>3, Numbered DEF OneByOne, Elsewhere, Parallel
<1>8. Uncancelled'
  <2> SUFFICES ASSUME cancels = 0 PROVE Uncancelled'
    BY <1>1 DEF Uncancelled, Elsewhere
  <2>1. owner \notin Ended
    BY OverIsOver
  <2>2. owner \in {"starting", "emitStart", "gather"} =>
          \A d \in Calls : task'[d] # "cancelled" /\ (d \in hit' => task'[d] = "exec")
    BY <1>0, <1>1, StepMoves DEF Moves, Uncancelled, Elsewhere
  <2> QED  BY <1>0, <1>1, <2>1, <2>2 DEF Uncancelled, Elsewhere, Ended
<1>9. Over'
  <2> SUFFICES ASSUME owner \in Ended, cancels = 0 \/ ~Parallel PROVE FALSE
    BY <1>1 DEF Over, Elsewhere, Parallel
  <2> QED  BY OverIsOver
<1>10. Told'
  <2> SUFFICES ASSUME owner \in {"cancelled", "failed"}
               PROVE  \E b \in Calls : task'[b] \in {"cancelled", "failed"}
    BY <1>1 DEF Told, Elsewhere
  <2>1. PICK b \in Calls : task[b] \in {"cancelled", "failed"}
    BY <1>0, <1>2 DEF Told
  <2> QED  BY <1>1, <1>2, <2>1 DEF Elsewhere, TaskEnded
<1> QED  BY <1>3, <1>4, <1>5, <1>6, <1>7, <1>8, <1>9, <1>10 DEF IInv

-----------------------------------------------------------------------------
(* The steps of the owner, and its cancels.                                 *)

LEMMA AnnouncingIInv ==
  ASSUME IInv, EmitStart \/ StartSettles \/ StartFails \/ Spawn
  PROVE  IInv'
<1> USE DEF taskVars, drainVars, gateVars, eventVars
<1>0. /\ OwnerTypeOK /\ PlanTypeOK /\ TaskTypeOK /\ FateTypeOK /\ DrainTypeOK /\ SetTypeOK
      /\ QueueTypeOK /\ GateTypeOK /\ EndedTypeOK
  BY DEF IInv, Types
<1>1. /\ Announcing /\ Why /\ OneByOne /\ Uncancelled
      /\ \A c \in Calls : Dispatched(c) /\ Drains(c) /\ Comes(c) /\ Stops(c)
  BY DEF IInv, Known
<1>2. /\ owner \in {"starting", "emitStart"} /\ (\A c \in Calls : task[c] = "none")
      /\ hit = {} /\ drainHit = {} /\ ~ownerHit /\ ~gateFailed
      /\ opened = {c \in Calls : c < next}
  BY <1>1 DEF Announcing, EmitStart, StartSettles, StartFails, Spawn
<1>3. CASE EmitStart
  <2>1. next \in Calls /\ next + 1 \in 1..(CallCount + 1)
    BY <1>0, <1>3, Numbered DEF EmitStart, OwnerTypeOK
  <2>2. OwnerTypeOK' /\ SetTypeOK'
    BY <1>0, <1>3, <2>1 DEF EmitStart, OwnerTypeOK, SetTypeOK
  <2>3. opened' = {c \in Calls : c < next'}
    BY <1>2, <1>3, <2>1, Numbered DEF EmitStart
  <2>4. Types'
    BY <1>0, <1>3, <2>2 DEF EmitStart, Types, PlanTypeOK, TaskTypeOK, FateTypeOK, DrainTypeOK,
       QueueTypeOK, GateTypeOK, EndedTypeOK
  <2>5. \A c \in Calls : Known(c)'
    BY <1>0, <1>1, <1>2, <1>3, <2>1, Numbered
       DEF EmitStart, Known, Dispatched, Drains, Comes, Stops
  <2> QED
    BY <1>1, <1>2, <1>3, <2>3, <2>4, <2>5 DEF EmitStart, IInv, Announcing, Why, OneByOne, Uncancelled, Told,
       Over, Parallel, Ended
<1>4. CASE StartSettles
  <2>1. PICK p \in {"run", "fail"} : plan' = [plan EXCEPT ![next - 1] = p]
    BY <1>4 DEF StartSettles
  <2>2. PlanTypeOK'
    BY <1>0, <2>1 DEF PlanTypeOK
  <2>3. \A c \in Calls : plan'[c] = "run" => c < next
    BY <1>0, <1>1, <2>1, Numbered DEF Dispatched, PlanTypeOK, OwnerTypeOK
  <2>4. Types'
    BY <1>0, <1>4, <2>2 DEF StartSettles, Types, OwnerTypeOK, TaskTypeOK, FateTypeOK,
       DrainTypeOK, SetTypeOK, QueueTypeOK, GateTypeOK, EndedTypeOK
  <2>5. \A c \in Calls : Known(c)'
    BY <1>1, <1>2, <1>4, <2>3 DEF StartSettles, Known, Dispatched, Drains, Comes, Stops
  <2> QED
    BY <1>1, <1>2, <1>4, <2>4, <2>5 DEF StartSettles, IInv, Announcing, Why, OneByOne, Uncancelled, Told,
       Over, Parallel, Ended
<1>5. CASE StartFails
  <2>1. Types'
    BY <1>0, <1>5 DEF StartFails, Types, OwnerTypeOK, PlanTypeOK, TaskTypeOK, FateTypeOK,
       DrainTypeOK, SetTypeOK, QueueTypeOK, GateTypeOK, EndedTypeOK, Ended
  <2>2. \A c \in Calls : Known(c)'
    BY <1>0, <1>1, <1>2, <1>5 DEF StartFails, Known, Dispatched, Drains, Comes, Stops
  <2> QED
    BY <1>1, <1>2, <1>5, <2>1, <2>2 DEF StartFails, IInv, Announcing, Why, OneByOne, Uncancelled, Told,
       Over, Parallel, Ended
<1>6. CASE Spawn
  <2>1. \A c \in Calls : task'[c] = "new"
    BY <1>6 DEF Spawn
  <2>2. PlanTypeOK' /\ TaskTypeOK' /\ OwnerTypeOK'
    BY <1>0, <1>6 DEF Spawn, PlanTypeOK, TaskTypeOK, OwnerTypeOK
  <2>3. Types'
    BY <1>0, <1>6, <2>2 DEF Spawn, Types, FateTypeOK,
       DrainTypeOK, SetTypeOK, QueueTypeOK, GateTypeOK, EndedTypeOK
  <2>4. \A c \in Calls : Known(c)'
    BY <1>0, <1>1, <1>2, <1>6, <2>1 DEF Spawn, Known, Dispatched, Drains, Comes, Stops
  <2> QED
    BY <1>1, <1>2, <1>6, <2>1, <2>3, <2>4 DEF Spawn, IInv, Announcing, Why, OneByOne, Uncancelled, Told,
       Over, Parallel, Ended
<1> QED  BY <1>3, <1>4, <1>5, <1>6

(* In sequential mode what has failed or was cancelled is the last call.    *)
LEMMA LastOne ==
  ASSUME IInv, ~Parallel, NEW b \in Calls, task[b] \notin {"none", "new", "done"},
         NEW c \in Calls, c # b
  PROVE  task[c] \in {"none", "new", "done"}
<1>1. \A d \in Calls : task[d] \notin {"none", "new"} => \A a \in 1..(d - 1) : task[a] = "done"
  BY DEF IInv, OneByOne
<1>2. b < c \/ c < b
  BY Numbered
<1>3. CASE b < c
  BY <1>1, <1>3, Numbered
<1>4. CASE c < b
  BY <1>1, <1>4, Numbered
<1> QED  BY <1>2, <1>3, <1>4

(* A step of the owner at a gather that raises no new cancel.               *)
LEMMA GatherIInv ==
  ASSUME IInv, GatherDone \/ GatherCancelled \/ Failing \/ Regather
  PROVE  IInv'
<1> USE DEF taskVars, drainVars, gateVars, eventVars
<1>0. /\ OwnerTypeOK /\ PlanTypeOK /\ TaskTypeOK /\ FateTypeOK /\ DrainTypeOK /\ SetTypeOK
      /\ QueueTypeOK /\ GateTypeOK /\ EndedTypeOK
  BY DEF IInv, Types
<1>1. /\ Announcing /\ Why /\ OneByOne /\ Uncancelled
      /\ \A c \in Calls : Dispatched(c) /\ Drains(c) /\ Comes(c) /\ Stops(c)
  BY DEF IInv, Known
<1>2. /\ owner' \in {"regather"} \cup Ended /\ ~ownerHit' /\ ownerHit' \in BOOLEAN
      /\ owner \in {"gather", "failing", "regather"}
      /\ aborted' = (aborted \/ (owner = "regather" /\ owner' = "failed"))
      /\ UNCHANGED <<mode, next, cancels, plan, task, fate, hit, drain, drainHit, queued, made,
                     gateQ, gateFailed, opened, ended>>
  <2>1. CASE GatherDone
    BY <1>0, <2>1 DEF GatherDone, OwnerTypeOK, Ended
  <2>2. CASE GatherCancelled
    BY <1>0, <2>2 DEF GatherCancelled, OwnerTypeOK, Ended
  <2>3. CASE Failing
    BY <1>0, <2>3 DEF Failing, OwnerTypeOK, Ended
  <2>4. CASE Regather
    BY <1>0, <2>4 DEF Regather, OwnerTypeOK, Ended
  <2> QED  BY <2>1, <2>2, <2>3, <2>4
<1>3. aborted' # aborted => gateFailed
  BY <1>0, <1>1, <1>2 DEF Regather, GatherDone, GatherCancelled, Failing, Some, Stops, OwnerTypeOK
<1>4. Types'
  BY <1>0, <1>2 DEF Types, OwnerTypeOK, PlanTypeOK, TaskTypeOK, FateTypeOK,
     DrainTypeOK, SetTypeOK, QueueTypeOK, GateTypeOK, EndedTypeOK, Ended
<1>5. \A c \in Calls : Known(c)'
  BY <1>0, <1>1, <1>2, <1>3 DEF Known, Dispatched, Drains, Comes, Stops, OwnerTypeOK
<1>6. Announcing'
  BY <1>1, <1>2 DEF Announcing, Ended
<1>7. owner' = "settled" => AllDone
  BY DEF GatherDone, GatherCancelled, Failing, Regather
<1>8. Why'
  BY <1>1, <1>2, <1>7 DEF Why, AllDone, Ended
<1>9. owner' = "regather" => Parallel
  BY <1>1, <1>2 DEF OneByOne, GatherDone, GatherCancelled, Failing, Regather
<1>10. OneByOne'
  BY <1>1, <1>2, <1>9 DEF OneByOne, Parallel, Ended
<1>11. cancels = 0 =>
         \/ owner = "gather" /\ owner' = "settled" /\ AllDone
         \/ owner = "failing" /\ AllEnded /\ owner' = "failed"
  BY <1>1, <1>2 DEF Uncancelled, GatherDone, GatherCancelled, Failing, Regather, Some
<1>12. Uncancelled'
  BY <1>1, <1>2, <1>11 DEF Uncancelled, AllDone, AllEnded, TaskEnded
<1>13. ~Parallel =>
         \/ owner' = "settled" /\ AllDone
         \/ owner' = "cancelled" /\ Some("cancelled")
  BY <1>1, <1>2 DEF OneByOne, GatherDone, GatherCancelled, Failing, Regather
<1>14. Over'
  <2> SUFFICES ASSUME cancels = 0 \/ ~Parallel, owner' \in Ended PROVE Over'
    BY <1>2 DEF Over, Parallel
  <2>1. CASE AllDone \/ AllEnded
    BY <1>2, <2>1 DEF Over, AllDone, AllEnded, TaskEnded
  <2>2. CASE ~Parallel /\ Some("cancelled")
    <3>1. PICK b \in Calls : task[b] = "cancelled"
      BY <2>2 DEF Some
    <3>2. \A c \in Calls \ {b} : task[c] \in {"none", "new", "done"}
      BY <2>2, <3>1, LastOne
    <3> QED  BY <1>2, <2>2, <3>1, <3>2 DEF Over, Parallel, TaskEnded
  <2> QED  BY <1>11, <1>13, <2>1, <2>2
<1>15. Told'
  <2> SUFFICES ASSUME owner' \in {"cancelled", "failed"}
               PROVE  AllDone \/ AllEnded \/ Some("cancelled") \/ Some("failed")
    BY <1>2 DEF Told, AllDone, AllEnded, Some, TaskEnded
  <2> QED  BY DEF GatherDone, GatherCancelled, Failing, Regather
<1> QED  BY <1>4, <1>5, <1>6, <1>8, <1>10, <1>12, <1>14, <1>15 DEF IInv

(* A cancel of calls reaches those that have something to be told at.       *)
LEMMA Delivered ==
  ASSUME SetTypeOK, NEW S \in SUBSET Calls, Deliver(S)
  PROVE  /\ hit \subseteq hit' /\ hit' \subseteq Calls /\ drainHit' \subseteq Calls
         /\ \A c \in Calls : c \in hit' => c \in hit \/ (c \in S /\ task[c] \in {"new", "exec", "gate"})
         /\ \A c \in S : task[c] = "gate" => c \in hit'
  BY DEF Deliver, SetTypeOK

LEMMA AbortIInv ==
  ASSUME IInv, Abort
  PROVE  IInv'
<1> USE DEF taskVars, drainVars, gateVars, eventVars
<1>0. /\ OwnerTypeOK /\ PlanTypeOK /\ TaskTypeOK /\ FateTypeOK /\ DrainTypeOK /\ SetTypeOK
      /\ QueueTypeOK /\ GateTypeOK /\ EndedTypeOK
  BY DEF IInv, Types
<1>1. /\ Announcing /\ Why /\ OneByOne
      /\ \A c \in Calls : Dispatched(c) /\ Drains(c) /\ Comes(c) /\ Stops(c)
  BY DEF IInv, Known
<1>2. /\ aborted' = TRUE /\ cancels' = cancels + 1 /\ cancels < MaxCancels
      /\ owner \in {"emitStart", "gather", "regather", "failing"}
      /\ UNCHANGED <<mode, owner, next, plan, task, fate, drain, queued, made, gateQ, gateFailed,
                     opened, ended>>
  BY DEF Abort
<1>3. /\ hit' \subseteq Calls /\ drainHit' \subseteq Calls /\ ownerHit' \in BOOLEAN
      /\ ownerHit' => Parallel \/ ownerHit
      /\ owner = "emitStart" => UNCHANGED <<hit, drainHit, ownerHit>>
      /\ \A c \in Calls : c \in hit' =>
           c \in hit \/ (task[c] \in {"new", "exec", "gate"} /\ (task[c] = "new" => Parallel))
      /\ owner # "emitStart" => \A c \in Calls : task[c] = "gate" => c \in hit'
  <2>1. CASE owner = "emitStart"
    BY <1>0, <2>1 DEF Abort, CancelOwner, SetTypeOK, OwnerTypeOK
  <2>2. CASE owner # "emitStart"
    <3>1. Deliver(Targets) /\ ownerHit' = Parallel
      BY <2>2 DEF Abort, CancelOwner
    <3>2. /\ Targets \subseteq Calls /\ \A c \in Targets : task[c] = "new" => Parallel
          /\ \A c \in Calls : task[c] = "gate" => c \in Targets
      BY DEF Targets, Current, TaskEnded
    <3> QED  BY <1>0, <2>2, <3>1, <3>2, Delivered DEF Parallel
  <2> QED  BY <2>1, <2>2
<1>4. Types'
  <2>1. cancels + 1 \in 0..MaxCancels
    BY <1>0, <1>2, ToolBatchAssumption DEF ToolBatchAssumption, OwnerTypeOK
  <2>2. OwnerTypeOK'
    BY <1>0, <1>2, <1>3, <2>1 DEF OwnerTypeOK
  <2> QED
    BY <1>0, <1>2, <1>3, <2>2 DEF Types, PlanTypeOK, TaskTypeOK, FateTypeOK,
       DrainTypeOK, SetTypeOK, QueueTypeOK, GateTypeOK, EndedTypeOK
<1>5. \A c \in Calls : Known(c)'
  <2>1. owner = "emitStart" => \A c \in Calls : task[c] = "none"
    BY <1>1 DEF Announcing
  <2>2. \A c \in Calls : task[c] = "gate" => c \in hit'
    BY <1>2, <1>3, <2>1
  <2> QED  BY <1>1, <1>2, <1>3, <2>2 DEF Known, Dispatched, Drains, Comes, Stops
<1>6. Announcing'
  BY <1>1, <1>2, <1>3 DEF Announcing
<1>7. Why'
  BY <1>1, <1>2 DEF Why
<1>8. OneByOne'
  BY <1>1, <1>2, <1>3 DEF OneByOne, Parallel
<1>9. cancels' # 0
  BY <1>0, <1>2 DEF OwnerTypeOK
<1>10. owner' \notin Ended
  BY <1>2 DEF Ended
<1> QED  BY <1>4, <1>5, <1>6, <1>7, <1>8, <1>9, <1>10 DEF IInv, Uncancelled, Told, Over, Ended

LEMMA AbortInListenerIInv ==
  ASSUME IInv, AbortInListener
  PROVE  IInv'
<1> USE DEF ownerVars, taskVars, drainVars, gateVars, eventVars
<1>0. /\ OwnerTypeOK /\ PlanTypeOK /\ TaskTypeOK /\ FateTypeOK /\ DrainTypeOK /\ SetTypeOK
      /\ QueueTypeOK /\ GateTypeOK /\ EndedTypeOK
  BY DEF IInv, Types
<1>1. /\ Announcing /\ Why /\ OneByOne /\ Uncancelled /\ Told /\ Over
      /\ \A c \in Calls : Dispatched(c) /\ Drains(c) /\ Comes(c) /\ Stops(c)
  BY DEF IInv, Known
<1>2. aborted' = TRUE /\ UNCHANGED <<ownerVars, taskVars, drainVars, gateVars, eventVars>>
  BY DEF AbortInListener
<1>3. \A c \in Calls : task[c] # "gate"
  <2>1. CASE owner = "emitStart"
    BY <1>1, <2>1 DEF Announcing
  <2>2. CASE ~Parallel /\ \E d \in Calls : task[d] = "emit"
    BY <2>2, LastOne
  <2> QED  BY <2>1, <2>2 DEF AbortInListener
<1>4. Types'
  BY <1>0, <1>2 DEF Types, OwnerTypeOK, PlanTypeOK, TaskTypeOK, FateTypeOK,
     DrainTypeOK, SetTypeOK, QueueTypeOK, GateTypeOK, EndedTypeOK
<1>5. \A c \in Calls : Known(c)'
  BY <1>1, <1>2, <1>3 DEF Known, Dispatched, Drains, Comes, Stops
<1>6. Announcing' /\ Why'
  BY <1>1, <1>2 DEF Announcing, Why, AllDone
<1>7. OneByOne' /\ Uncancelled' /\ Told' /\ Over'
  BY <1>1, <1>2 DEF OneByOne, Uncancelled, Told, Over, Parallel
<1> QED  BY <1>4, <1>5, <1>6, <1>7 DEF IInv

LEMMA GatherFailsIInv ==
  ASSUME IInv, GatherFails
  PROVE  IInv'
<1> USE DEF taskVars, drainVars, gateVars, eventVars
<1>0. /\ OwnerTypeOK /\ PlanTypeOK /\ TaskTypeOK /\ FateTypeOK /\ DrainTypeOK /\ SetTypeOK
      /\ QueueTypeOK /\ GateTypeOK /\ EndedTypeOK
  BY DEF IInv, Types
<1>1. /\ Announcing /\ Why /\ OneByOne
      /\ \A c \in Calls : Dispatched(c) /\ Drains(c) /\ Comes(c) /\ Stops(c)
  BY DEF IInv, Known
<1>2. PICK b \in Calls : task[b] = "failed"
  BY DEF GatherFails, Some
<1>3. /\ owner = "gather" /\ aborted' = TRUE /\ ownerHit' = FALSE
      /\ UNCHANGED <<mode, next, cancels, plan, task, fate, drain, queued, made, gateQ, opened, ended>>
  BY DEF GatherFails
<1>4. CASE Parallel
  <2> DEFINE S == {c \in Calls : task[c] \notin TaskEnded}
  <2>1. owner' = "failing" /\ gateFailed' = TRUE /\ Deliver(S)
    BY <1>4 DEF GatherFails
  <2>2. /\ hit' \subseteq Calls /\ drainHit' \subseteq Calls
        /\ \A c \in Calls : c \in hit' => c \in hit \/ task[c] \in {"new", "exec", "gate"}
    BY <1>0, <2>1, Delivered
  <2>3. Types'
    BY <1>0, <1>3, <2>1, <2>2 DEF Types, OwnerTypeOK, PlanTypeOK, TaskTypeOK, FateTypeOK,
       DrainTypeOK, SetTypeOK, QueueTypeOK, GateTypeOK, EndedTypeOK
  <2>4. \A c \in Calls : Known(c)'
    BY <1>1, <1>3, <2>1, <2>2 DEF Known, Dispatched, Drains, Comes, Stops
  <2>5. Announcing' /\ Why'
    BY <1>1, <1>2, <1>3, <2>1 DEF Announcing, Why
  <2>6. OneByOne' /\ Uncancelled' /\ Told' /\ Over'
    BY <1>3, <1>4, <2>1 DEF OneByOne, Uncancelled, Told, Over, Parallel, Ended
  <2> QED  BY <2>3, <2>4, <2>5, <2>6 DEF IInv
<1>5. CASE ~Parallel
  <2>1. owner' = "failed" /\ UNCHANGED <<gateFailed, hit, drainHit>>
    BY <1>5 DEF GatherFails
  <2>2. \A c \in Calls \ {b} : task[c] \in {"none", "new", "done"}
    BY <1>2, <1>5, LastOne
  <2>3. Types'
    BY <1>0, <1>3, <2>1 DEF Types, OwnerTypeOK, PlanTypeOK, TaskTypeOK, FateTypeOK,
       DrainTypeOK, SetTypeOK, QueueTypeOK, GateTypeOK, EndedTypeOK, Ended
  <2>4. \A c \in Calls : Known(c)'
    BY <1>1, <1>2, <1>3, <2>1, <2>2 DEF Known, Dispatched, Drains, Comes, Stops
  <2>5. Announcing' /\ Why'
    BY <1>1, <1>2, <1>3, <2>1 DEF Announcing, Why, Ended
  <2>6. OneByOne'
    BY <1>1, <1>3, <1>5, <2>1 DEF OneByOne, Parallel
  <2>7. Uncancelled' /\ Told' /\ Over'
    BY <1>2, <1>3, <1>5, <2>1, <2>2
       DEF Uncancelled, Told, Over, Parallel, TaskEnded
  <2> QED  BY <2>3, <2>4, <2>5, <2>6, <2>7 DEF IInv
<1> QED  BY <1>4, <1>5

LEMMA NextIInv ==
  ASSUME IInv, [Next]_vars
  PROVE  IInv'
<1>1. CASE OwnerStep
  BY <1>1, AnnouncingIInv, GatherIInv, GatherFailsIInv DEF OwnerStep
<1>2. CASE Abort \/ AbortInListener
  BY <1>2, AbortIInv, AbortInListenerIInv
<1>3. CASE UNCHANGED vars
  <2> USE <1>3 DEF vars, ownerVars, taskVars, drainVars, gateVars, eventVars
  <2>1. Types'
    BY DEF IInv, Types, OwnerTypeOK, PlanTypeOK, TaskTypeOK, FateTypeOK,
       DrainTypeOK, SetTypeOK, QueueTypeOK, GateTypeOK, EndedTypeOK
  <2>2. \A c \in Calls : Known(c)'
    BY DEF IInv, Known, Dispatched, Drains, Comes, Stops
  <2> QED
    BY <2>1, <2>2 DEF IInv, Announcing, Why, AllDone, OneByOne, Uncancelled, Told, Over, Parallel
<1> QED  BY <1>1, <1>2, <1>3, StepIInv DEF Next

THEOREM Invariance == Spec => []IInv
<1>1. IInv /\ [Next]_vars => IInv'
  BY NextIInv
<1> QED  BY <1>1, InitIInv, PTL DEF Spec

(* Every variable keeps its type in every reachable state.                  *)
THEOREM TypeCorrect == Spec => []TypeOK
<1>1. IInv => TypeOK
  BY TypesTypeOK DEF IInv
<1> QED  BY <1>1, Invariance, PTL

(* A batch that is over has no call still running and no update to forward, *)
(* whatever its tools, drains, listeners and cancels did, unless parallel   *)
(* calls were cancelled from outside and one ended cancelled or failed.     *)
THEOREM NothingLeft == Spec => []NothingOutlives
<1>1. ASSUME IInv, owner \in Ended, ~Deserts, NEW c \in Calls
      PROVE  /\ task[c] \in TaskEnded \cup {"none"} \cup (IF Parallel THEN {} ELSE {"new"})
             /\ drain[c] \in DrainEnded
  <2>1. task[c] \in TaskEnded \cup {"none"} \cup (IF Parallel THEN {} ELSE {"new"})
    <3>1. CASE cancels = 0 \/ ~Parallel
      BY <1>1, <3>1 DEF IInv, Over
    <3>2. CASE cancels # 0 /\ Parallel
      <4>1. \A b \in Calls : task[b] \notin {"cancelled", "failed"}
        BY <1>1, <3>2 DEF IInv, Types, OwnerTypeOK, Deserts, Some
      <4>2. owner = "settled" => task[c] = "done"
        BY <1>1 DEF IInv, Why, AllDone
      <4> QED  BY <1>1, <4>1, <4>2 DEF IInv, Told, Ended, TaskEnded
    <3> QED  BY <3>1, <3>2
  <2> QED  BY <1>1, <2>1 DEF IInv, Known, Drains, TaskEnded
<1>2. IInv => NothingOutlives
  BY <1>1 DEF NothingOutlives
<1> QED  BY <1>2, Invariance, PTL

-----------------------------------------------------------------------------
(* The batch implements its contract.                                       *)

OpenCalls == {c \in opened : ended[c] # 1}
Updating  == {c \in Calls : drain[c] = "emit"}
Closed    == {c \in Calls : ended[c] > 0}
Succeeded == {c \in Calls : ended[c] > 0 /\ fate[c] = "ok"}
Answered  == {c \in Calls : task[c] = "done" /\ fate[c] \in {"ok", "error", "cancelled"}}
Verdict   == IF owner \in Ended /\ cancels = 0 THEN owner ELSE "running"

(* What a step of a call shows to the listeners: nothing, the End of the    *)
(* call, the beginning of an update or the end of one.                      *)
ShowsNothing(c) ==
    /\ ended'[c] = ended[c] /\ (drain'[c] = "emit" <=> drain[c] = "emit")
    /\ ended[c] > 0 => fate'[c] = fate[c]

ShowsEnd(c) ==
    /\ ended[c] = 0 /\ ended'[c] = 1 /\ c < next /\ ~gateFailed
    /\ drain'[c] = drain[c] /\ drain[c] # "emit"
    /\ fate'[c] = "ok" => ~aborted

ShowsUpdate(c) ==
    /\ task[c] \in {"exec", "draining"} /\ ended' = ended /\ fate' = fate /\ ~gateFailed
    /\ drain[c] # "emit" /\ drain'[c] = "emit"

ShowsUpdated(c) ==
    /\ task[c] \in {"exec", "draining"} /\ ended' = ended /\ fate' = fate
    /\ drain[c] = "emit" /\ drain'[c] # "emit"

LEMMA EndShows ==
  ASSUME IInv, NEW c \in Calls, UNCHANGED drain, c < next, EndOf(c),
         task[c] \in {"new", "draining", "gate"}, drain[c] \in DrainEnded,
         fate'[c] = "ok" => ~aborted \/ gateFailed
  PROVE  ShowsNothing(c) \/ ShowsEnd(c)
<1>1. EndedTypeOK /\ ended[c] = 0
  BY DEF IInv, Types, Known, Dispatched
<1>2. drain[c] # "emit"
  BY DEF DrainEnded
<1> QED  BY <1>1, <1>2 DEF EndOf, EndedTypeOK, ShowsNothing, ShowsEnd

LEMMA StepShows ==
  ASSUME IInv, NEW c \in Calls, TaskStep(c) \/ DrainStep(c) \/ Update(c)
  PROVE  ShowsNothing(c) \/ ShowsEnd(c) \/ ShowsUpdate(c) \/ ShowsUpdated(c)
<1> USE DEF ownerVars, taskVars, drainVars, gateVars, eventVars
<1>0. /\ OwnerTypeOK /\ TaskTypeOK /\ FateTypeOK /\ DrainTypeOK /\ EndedTypeOK
      /\ Dispatched(c) /\ Drains(c) /\ Comes(c)
  BY DEF IInv, Types, Known
<1>1. CASE Execute(c)
  BY <1>0, <1>1 DEF Execute, DrainTypeOK, DrainEnded, Drains, ShowsNothing
<1>2. CASE SkipExecution(c)
  <2>1. fate'[c] = "error" /\ drain' = drain /\ task[c] = "new" /\ drain[c] \in DrainEnded
    BY <1>0, <1>2 DEF SkipExecution, FateTypeOK, Drains
  <2>2. ended[c] = 0
    BY <1>0, <2>1 DEF Dispatched
  <2>3. CASE EndOf(c) /\ c < next
    BY <2>1, <2>3, EndShows
  <2>4. CASE ended' = ended
    BY <2>1, <2>2, <2>4 DEF ShowsNothing
  <2> QED  BY <1>0, <1>2, <2>3, <2>4, SkippedExecution
<1>3. CASE CancelledBeforeStart(c) \/ CancelledAtGate(c) \/ EndSettles(c) \/ EndFails(c)
  BY <1>3 DEF CancelledBeforeStart, CancelledAtGate, EndSettles, EndFails, ShowsNothing
<1>4. CASE ToolReturns(c)
  <2>1. ended[c] = 0
    BY <1>0, <1>4 DEF ToolReturns, Dispatched
  <2> QED  BY <1>4, <2>1 DEF ToolReturns, ShowsNothing
<1>5. CASE AfterDrain(c)
  <2>1. task[c] = "draining" /\ c < next /\ drain' = drain /\ drain[c] \in DrainEnded /\ ended[c] = 0
    BY <1>0, <1>5 DEF AfterDrain, Drained, Dispatched
  <2>2. CASE drain[c] = "failed" \/ fate[c] = "cleanup"
    BY <1>5, <2>1, <2>2 DEF AfterDrain, ShowsNothing
  <2>3. CASE ~(drain[c] = "failed" \/ fate[c] = "cleanup")
    <3>1. RequestEnd(c) /\ fate' = [fate EXCEPT ![c] = Result(c)]
      BY <1>5, <2>3 DEF AfterDrain
    <3>2. fate'[c] = "ok" => ~aborted
      BY <1>0, <3>1 DEF Result, FateTypeOK
    <3>3. CASE EndOf(c)
      BY <2>1, <3>2, <3>3, EndShows
    <3>4. CASE ended' = ended
      BY <2>1, <3>4 DEF ShowsNothing
    <3> QED  BY <1>0, <3>1, <3>3, <3>4, RequestedEnd
  <2> QED  BY <2>2, <2>3
<1>6. CASE GateAdmits(c)
  <2>1. EndOf(c) /\ fate' = fate /\ drain' = drain /\ c \notin hit /\ task[c] = "gate"
    BY <1>0, <1>6, PassedGate DEF GateAdmits
  <2>2. c < next /\ drain[c] \in DrainEnded /\ (fate'[c] = "ok" => ~aborted \/ gateFailed)
    BY <1>0, <2>1 DEF Dispatched, Drains, Comes
  <2> QED  BY <2>1, <2>2, EndShows
<1>7. CASE DrainStep(c) \/ Update(c)
  <2>1. task[c] \in {"exec", "draining"} /\ ended' = ended /\ fate' = fate
    BY <1>7, Alive DEF DrainStep, DrainTake, DrainAdmitted, UpdateSettles, UpdateFails,
       DrainFinishes, DrainCancelled, Update
  <2>2. drain'[c] = "emit" /\ drain[c] # "emit" => ~gateFailed
    BY <1>0, <1>7 DEF DrainStep, DrainTake, DrainAdmitted, UpdateSettles, UpdateFails,
       DrainFinishes, DrainCancelled, Update, DrainTypeOK
  <2> QED  BY <2>1, <2>2 DEF ShowsNothing, ShowsUpdate, ShowsUpdated
<1> QED  BY <1>1, <1>2, <1>3, <1>4, <1>5, <1>6, <1>7 DEF TaskStep

(* A step of a call is a step of the contract.                              *)
LEMMA StepKeepsContract ==
  ASSUME IInv, NEW c \in Calls, TaskStep(c) \/ DrainStep(c) \/ Update(c)
  PROVE  Contract!ContractNext
<1>1. Elsewhere(c) /\ EndedTypeOK
  BY StepElsewhere DEF IInv, Types
<1>2. /\ opened' = opened /\ opened = {d \in Calls : d < next} /\ Dispatched(c)
      /\ task[c] \notin TaskEnded
  BY <1>1, Alive DEF IInv, Announcing, Known, Elsewhere
<1>3. Verdict = "running" /\ Verdict' = Verdict
  BY <1>1, OverIsOver DEF Verdict, Elsewhere
<1>4. Answered \subseteq Answered' /\ (aborted => aborted') /\ (gateFailed => gateFailed')
  BY <1>1, <1>2 DEF Answered, Elsewhere, TaskEnded
<1>5. \/ UNCHANGED <<OpenCalls, Updating, Closed, Succeeded>>
      \/ /\ ~gateFailed /\ c \in OpenCalls \ Updating
         /\ OpenCalls' = OpenCalls \ {c} /\ Closed' = Closed \cup {c} /\ Updating' = Updating
         /\ \/ Succeeded' = Succeeded
            \/ ~aborted /\ Succeeded' = Succeeded \cup {c}
      \/ /\ ~gateFailed /\ c \in OpenCalls /\ Updating' = Updating \cup {c}
         /\ UNCHANGED <<OpenCalls, Closed, Succeeded>>
      \/ /\ Updating' = Updating \ {c}
         /\ UNCHANGED <<OpenCalls, Closed, Succeeded>>
  <2>1. CASE ShowsNothing(c)
    BY <1>1, <1>2, <2>1 DEF ShowsNothing, Elsewhere, OpenCalls, Updating, Closed, Succeeded
  <2>2. CASE ShowsEnd(c)
    <3>1. ~gateFailed /\ c \in OpenCalls \ Updating
      BY <1>2, <2>2 DEF ShowsEnd, OpenCalls, Updating
    <3>2. OpenCalls' = OpenCalls \ {c}
      BY <1>1, <1>2, <2>2 DEF ShowsEnd, Elsewhere, OpenCalls
    <3>3. Closed' = Closed \cup {c} /\ Updating' = Updating
      BY <1>1, <2>2 DEF ShowsEnd, Elsewhere, Closed, Updating
    <3>4. CASE fate'[c] = "ok"
      BY <1>1, <2>2, <3>1, <3>2, <3>3, <3>4 DEF ShowsEnd, Elsewhere, Succeeded
    <3>5. CASE fate'[c] # "ok"
      <4>1. Succeeded' = Succeeded
        BY <1>1, <2>2, <3>5 DEF ShowsEnd, Elsewhere, Succeeded
      <4> QED  BY <3>1, <3>2, <3>3, <4>1
    <3> QED  BY <3>4, <3>5
  <2>3. CASE ShowsUpdate(c)
    <3>1. c \in OpenCalls
      BY <1>2, <2>3 DEF ShowsUpdate, OpenCalls, Dispatched
    <3>2. Updating' = Updating \cup {c} /\ ~gateFailed
      BY <1>1, <2>3 DEF ShowsUpdate, Elsewhere, Updating
    <3>3. UNCHANGED <<OpenCalls, Closed, Succeeded>>
      BY <1>2, <2>3 DEF ShowsUpdate, OpenCalls, Closed, Succeeded
    <3> QED  BY <3>1, <3>2, <3>3
  <2>4. CASE ShowsUpdated(c)
    BY <1>1, <1>2, <2>4 DEF ShowsUpdated, Elsewhere, OpenCalls, Updating, Closed, Succeeded
  <2> QED  BY <2>1, <2>2, <2>3, <2>4, StepShows
<1> QED
  BY <1>3, <1>4, <1>5 DEF Contract!ContractNext, Contract!Close, Contract!Update, Contract!Updated,
     Contract!callVars, OpenCalls, Updating, Closed, Succeeded, Answered, Verdict

(* A step that shows nothing keeps the contract, whatever it raises.        *)
LEMMA QuietKeepsContract ==
  ASSUME UNCHANGED <<opened, ended, drain, fate>>,
         \A c \in Calls : task[c] = "done" => task'[c] = "done",
         aborted => aborted', gateFailed => gateFailed',
         \/ Verdict' = Verdict
         \/ Verdict = "running" /\ Verdict' \in {"cancelled", "failed"} /\ aborted'
         \/ Verdict = "running" /\ Verdict' = "settled" /\ OpenCalls = {} /\ Answered = Calls
  PROVE  Contract!ContractNext
<1>1. UNCHANGED <<OpenCalls, Updating, Closed, Succeeded>>
  BY DEF OpenCalls, Updating, Closed, Succeeded
<1>2. Answered \subseteq Answered'
  BY DEF Answered
<1> QED
  BY <1>1, <1>2 DEF Contract!ContractNext, Contract!Settle, Contract!GiveUp,
     Contract!callVars, OpenCalls, Updating, Closed, Succeeded, Answered, Verdict

LEMMA OwnerKeepsContract ==
  ASSUME IInv, OwnerStep
  PROVE  Contract!ContractNext
<1> USE DEF taskVars, drainVars, gateVars, eventVars
<1>1. /\ OwnerTypeOK /\ EndedTypeOK /\ Announcing /\ Why /\ Uncancelled
      /\ \A c \in Calls : Dispatched(c) /\ Drains(c) /\ Comes(c) /\ Stops(c)
  BY DEF IInv, Types, Known
<1>2. CASE EmitStart
  <2>1. next \in Calls /\ next \notin OpenCalls \cup Closed
    BY <1>1, <1>2, Numbered DEF EmitStart, OwnerTypeOK, Announcing, Dispatched, OpenCalls, Closed
  <2>2. ended[next] # 1
    BY <1>1, <1>2, <2>1, Numbered DEF Dispatched
  <2>3. OpenCalls' = OpenCalls \cup {next} /\ UNCHANGED <<Updating, Closed, Succeeded, Answered>>
    BY <1>2, <2>2 DEF EmitStart, OpenCalls, Updating, Closed, Succeeded, Answered
  <2>4. Verdict = "running" /\ Verdict' = "running" /\ ~gateFailed /\ ~aborted
    BY <1>1, <1>2 DEF EmitStart, Verdict, Announcing, Ended
  <2>5. aborted' = aborted /\ gateFailed' = gateFailed
    BY <1>2 DEF EmitStart
  <2> QED
    BY <2>1, <2>3, <2>4, <2>5 DEF Contract!ContractNext, Contract!Open,
       OpenCalls, Updating, Closed, Succeeded, Answered, Verdict
<1>3. CASE StartSettles
  BY <1>3, QuietKeepsContract DEF StartSettles, Verdict, Ended
<1>4. CASE StartFails
  BY <1>4, QuietKeepsContract DEF StartFails, Verdict, Ended
<1>5. CASE Spawn
  <2>1. \A c \in Calls : task[c] # "done"
    BY <1>1, <1>5 DEF Spawn, Announcing
  <2> QED  BY <1>5, <2>1, QuietKeepsContract DEF Spawn, Verdict, Ended
<1>6. CASE GatherFails
  <2>1. \/ Verdict' = Verdict
        \/ Verdict = "running" /\ Verdict' = "failed"
    BY <1>6 DEF GatherFails, Verdict, Ended
  <2> QED  BY <1>6, <2>1, QuietKeepsContract DEF GatherFails
<1>7. CASE GatherDone \/ GatherCancelled \/ Failing \/ Regather
  <2>1. /\ owner \notin Ended
        /\ aborted => aborted'
        /\ UNCHANGED <<task, opened, ended, drain, fate, gateFailed, cancels>>
    <3>1. owner \in {"gather", "failing", "regather"} /\ aborted' \in {aborted, aborted \/ owner' = "failed"}
      BY <1>7 DEF GatherDone, GatherCancelled, Failing, Regather
    <3>2. UNCHANGED <<task, opened, ended, drain, fate, gateFailed, cancels>>
      BY <1>7 DEF GatherDone, GatherCancelled, Failing, Regather
    <3> QED  BY <3>1, <3>2 DEF Ended
  <2>2. cancels = 0 =>
          \/ owner = "gather" /\ owner' = "settled" /\ AllDone
          \/ owner = "failing" /\ owner' = "failed"
    BY <1>1, <1>7 DEF Uncancelled, GatherDone, GatherCancelled, Failing, Regather, Some
  <2>3. CASE cancels # 0
    BY <2>1, <2>3, QuietKeepsContract DEF Verdict
  <2>4. CASE cancels = 0 /\ owner = "failing" /\ owner' = "failed"
    BY <1>1, <2>1, <2>4, QuietKeepsContract DEF Verdict, Ended, Why
  <2>5. CASE cancels = 0 /\ owner = "gather" /\ owner' = "settled" /\ AllDone
    <3>1. ~gateFailed
      BY <1>1, <2>5 DEF Why, Drains, AllDone, Ended
    <3>2. OpenCalls = {}
      BY <1>1, <2>5, <3>1 DEF OpenCalls, Announcing, Dispatched, AllDone
    <3>3. Answered = Calls
      BY <1>1, <2>5 DEF Answered, AllDone, Comes, Results
    <3> QED  BY <2>1, <2>5, <3>2, <3>3, QuietKeepsContract DEF Verdict, Ended
  <2> QED  BY <2>2, <2>3, <2>4, <2>5
<1> QED  BY <1>2, <1>3, <1>4, <1>5, <1>6, <1>7 DEF OwnerStep

LEMMA NextKeepsContract ==
  ASSUME IInv, [Next]_vars
  PROVE  Contract!ContractNext
<1>1. CASE OwnerStep
  BY <1>1, OwnerKeepsContract
<1>2. CASE \E c \in Calls : TaskStep(c) \/ DrainStep(c) \/ Update(c)
  BY <1>2, StepKeepsContract
<1>3. CASE Abort
  BY <1>3, QuietKeepsContract DEF Abort, Verdict, Ended, gateVars, eventVars
<1>4. CASE AbortInListener \/ UNCHANGED vars
  BY <1>4, QuietKeepsContract DEF AbortInListener, Verdict, vars, ownerVars, taskVars, drainVars,
     gateVars, eventVars
<1> QED  BY <1>1, <1>2, <1>3, <1>4 DEF Next

(* The batch implements ToolContract: every call is opened and closed at    *)
(* most once with its updates in between, nothing is dispatched after a     *)
(* listener has failed or the verdict, no success is reported after an      *)
(* abort, and it settles only with every call answered and closed.          *)
THEOREM Implements == Spec => KeepsContract
<1>1. Init => Contract!ContractInit
  <2> SUFFICES ASSUME Init PROVE Contract!ContractInit
    OBVIOUS
  <2>1. OpenCalls = {} /\ Updating = {} /\ Closed = {} /\ Succeeded = {} /\ Answered = {}
    BY DEF Init, OpenCalls, Updating, Closed, Succeeded, Answered
  <2> QED
    BY <2>1 DEF Init, Contract!ContractInit, Ended, OpenCalls, Updating, Closed, Succeeded, Answered
<1>2. IInv /\ [Next]_vars => [Contract!ContractNext]_(Contract!contractVars)
  BY NextKeepsContract
<1> QED  BY <1>1, <1>2, Invariance, PTL DEF Spec, KeepsContract, Contract!ContractSpec
=============================================================================
