--------------------------- MODULE MutationQueue ---------------------------
(***************************************************************************)
(* The file mutation queue of the write and edit tools: one asyncio.Lock    *)
(* per file, created and dropped by reference count, taken by               *)
(* _FileMutationQueue.hold around the tool's work on the file.              *)
(*                                                                         *)
(* hold() does not await lock.acquire() itself but a task that runs it      *)
(* (_acquire_uninterruptibly), so an acquisition has three awaits: the task *)
(* is created ("spawned"), it waits in the lock's deque ("waiting", then    *)
(* "woken" once a release has completed its future), and it has the lock    *)
(* but hold() has not resumed ("granted").  The bookkeeping lock _meta is   *)
(* never held across an await, so taking a reference is one step.           *)
(***************************************************************************)
EXTENDS Integers, Sequences, FiniteSets

CONSTANTS
  Tools,         \* tool executions, each of which mutates one file
  Keys,          \* files (_FileMutationQueue.key_for)
  Runs,          \* agent runs, each with its own abort signal
  KeyOf,         \* the file of each execution
  RunOf,         \* the run of each execution
  Edits          \* executions of edit; the others are executions of write

ASSUME MutationQueueAssumption ==
  /\ IsFiniteSet(Tools) /\ KeyOf \in [Tools -> Keys] /\ RunOf \in [Tools -> Runs]
  /\ Edits \subseteq Tools

VARIABLES
  pc,       \* where each execution is
  hit,      \* executions with an undelivered cancel()
  locked,   \* asyncio.Lock._locked of each file's lock
  waiters,  \* asyncio.Lock._waiters
  refs,     \* _FileMutationQueue._refs; a lock exists while positive
  aborted,  \* the AbortSignal of each run
  misused,  \* whether a cancel has ever reached a waiting execution (history)
  version,  \* content of each file, as the number of mutations so far
  seen      \* the content an edit has read and will rewrite

lockVars == <<locked, waiters, refs>>
fileVars == <<version, seen>>
runVars  == <<aborted, misused>>
vars     == <<pc, hit, lockVars, runVars, fileVars>>

Waiting == {"spawned", "waiting", "woken"}
Holding == {"granted", "held", "working"}
Final   == {"done", "cancelled", "crashed"}

Init ==
  /\ pc = [t \in Tools |-> "idle"] /\ hit = {}
  /\ locked = [k \in Keys |-> FALSE] /\ waiters = [k \in Keys |-> <<>>]
  /\ refs = [k \in Keys |-> 0] /\ aborted = [r \in Runs |-> FALSE]
  /\ misused = FALSE
  /\ version = [k \in Keys |-> 0] /\ seen = [t \in Tools |-> 0]

Move(t, to) == pc' = [pc EXCEPT ![t] = to]

-----------------------------------------------------------------------------
(* asyncio.Lock.                                                            *)

(* _wake_up_first: completes the future of the first waiter, unless it is   *)
(* already done or cancelled.                                               *)
Wakes(ws, t) == ws # <<>> /\ Head(ws) = t /\ pc[t] = "waiting" /\ t \notin hit

(* release() of a lock that is taken, by whomever.                          *)
Unlock(t, to) ==
  LET k == KeyOf[t] IN
  /\ locked' = [locked EXCEPT ![k] = FALSE]
  /\ pc' = [u \in Tools |->
              IF u = t THEN to
              ELSE IF Wakes(waiters[k], u) THEN "woken" ELSE pc[u]]
  /\ UNCHANGED waiters

(* The finally clause of hold(): release, then drop the reference.  A lock  *)
(* that is free, because another execution has released it by mistake,      *)
(* raises RuntimeError: the reference is not dropped, and the execution     *)
(* ends with that error.                                                    *)
DropUser(t) == refs' = [refs EXCEPT ![KeyOf[t]] = @ - 1]

Release(t, to) ==
  /\ IF locked[KeyOf[t]]
       THEN Unlock(t, to) /\ DropUser(t)
       ELSE Move(t, "crashed") /\ UNCHANGED lockVars
  /\ hit' = hit \ {t}

-----------------------------------------------------------------------------
(* hold() up to the acquisition.                                            *)

(* _lock_for: the user is counted before it waits.                          *)
CountUser(t) == refs' = [refs EXCEPT ![KeyOf[t]] = @ + 1]

(* A tool call whose run is aborted is not executed.                        *)
Enter(t) ==
  /\ pc[t] = "idle" /\ ~aborted[RunOf[t]]
  /\ CountUser(t)
  /\ Move(t, "spawned")
  /\ UNCHANGED <<hit, locked, waiters, runVars, fileVars>>

(* acquire(): at once if the lock is free and no live waiter is queued.     *)
Acquire(t) ==
  LET k == KeyOf[t]
      Live == {i \in DOMAIN waiters[k] :
                 ~(pc[waiters[k][i]] = "waiting" /\ waiters[k][i] \in hit)}
  IN
  /\ pc[t] = "spawned" /\ t \notin hit
  /\ IF ~locked[k] /\ Live = {}
       THEN /\ locked' = [locked EXCEPT ![k] = TRUE]
            /\ Move(t, "granted")
            /\ UNCHANGED waiters
       ELSE /\ waiters' = [waiters EXCEPT ![k] = Append(@, t)]
            /\ Move(t, "waiting")
            /\ UNCHANGED locked
  /\ UNCHANGED <<hit, refs, runVars, fileVars>>

(* The woken waiter leaves the deque and takes the lock.                    *)
Without(ws, t) ==
  IF \E i \in DOMAIN ws : ws[i] = t
    THEN LET i == CHOOSE i \in DOMAIN ws : ws[i] = t
         IN  [j \in 1..(Len(ws) - 1) |-> IF j < i THEN ws[j] ELSE ws[j + 1]]
    ELSE ws

Woken(t) ==
  LET k == KeyOf[t] IN
  /\ pc[t] = "woken" /\ t \notin hit
  /\ locked' = [locked EXCEPT ![k] = TRUE]
  /\ waiters' = [waiters EXCEPT ![k] = Without(@, t)]
  /\ Move(t, "granted")
  /\ UNCHANGED <<hit, refs, runVars, fileVars>>

(* The cancel of hold() is passed on to the acquiring task: it leaves the   *)
(* deque without the lock, and wakes the next waiter if the lock is free.   *)
AcquireCancelled(t) ==
  LET k    == KeyOf[t]
      rest == Without(waiters[k], t)
  IN
  /\ pc[t] \in Waiting /\ t \in hit
  /\ waiters' = [waiters EXCEPT ![k] = rest]
  /\ pc' = [u \in Tools |->
              IF u = t THEN "misled"
              ELSE IF pc[t] # "spawned" /\ ~locked[k] /\ Wakes(rest, u)
                THEN "woken" ELSE pc[u]]
  /\ hit' = hit \ {t}
  /\ UNCHANGED <<locked, refs, runVars, fileVars>>

(* hold() awaits the cancelled task once more, is thrown out a second time, *)
(* notes acquired = True and releases the lock of whoever has it.           *)
ReleaseUnowned(t) ==
  /\ pc[t] = "misled"
  /\ Release(t, "cancelled")
  /\ UNCHANGED <<runVars, fileVars>>

-----------------------------------------------------------------------------
(* The tool's work under the lock.                                          *)

Interrupted(t) == t \in hit \/ aborted[RunOf[t]]

(* hold() resumes and yields once for cancellation (after_queue_hold).      *)
Resume(t) ==
  /\ pc[t] = "granted" /\ ~Interrupted(t)
  /\ Move(t, "held")
  /\ UNCHANGED <<hit, lockVars, runVars, fileVars>>

(* write checks the path, edit reads the file; both yield before writing.   *)
(* (Mutant: the lock covers the reading only.)                              *)
ReadAndUnlock(t) ==
  /\ pc[t] = "held" /\ ~Interrupted(t)
  /\ Unlock(t, "working")
  /\ seen' = [seen EXCEPT ![t] = version[KeyOf[t]]]
  /\ UNCHANGED <<hit, refs, runVars, version>>

Read(t) ==
  /\ pc[t] = "held" /\ ~Interrupted(t)
  /\ Move(t, "working")
  /\ seen' = [seen EXCEPT ![t] = version[KeyOf[t]]]
  /\ UNCHANGED <<hit, lockVars, runVars, version>>

(* The file is written without a further await.                             *)
Write(t) ==
  /\ pc[t] = "working" /\ ~Interrupted(t)
  /\ version' = [version EXCEPT ![KeyOf[t]] = @ + 1]
  /\ Release(t, "done")
  /\ UNCHANGED <<runVars, seen>>

(* A refused path, unreadable file or unmatched edit writes nothing.        *)
Refuse(t) ==
  /\ pc[t] = "held" /\ ~Interrupted(t)
  /\ Release(t, "done")
  /\ UNCHANGED <<runVars, fileVars>>

(* (Mutant: an interrupted execution keeps the lock.)                       *)
InterruptLocked(t) ==
  /\ pc[t] \in Holding /\ Interrupted(t)
  /\ Move(t, "cancelled")
  /\ refs' = [refs EXCEPT ![KeyOf[t]] = @ - 1] /\ hit' = hit \ {t}
  /\ UNCHANGED <<locked, waiters, runVars, fileVars>>

Interrupt(t) ==
  /\ pc[t] \in Holding /\ Interrupted(t)
  /\ Release(t, "cancelled")
  /\ UNCHANGED <<runVars, fileVars>>

(* Agent.abort: the signal, and a cancel() of every execution of the run.   *)
Abort(r) ==
  /\ ~aborted[r]
  /\ aborted' = [aborted EXCEPT ![r] = TRUE]
  /\ hit' = hit \cup {t \in Tools : RunOf[t] = r /\ pc[t] \in Waiting \cup Holding}
  /\ misused' = (misused \/ \E t \in Tools : RunOf[t] = r /\ pc[t] \in Waiting)
  /\ UNCHANGED <<pc, lockVars, fileVars>>

-----------------------------------------------------------------------------
Step(t) ==
  \/ Acquire(t) \/ Woken(t) \/ AcquireCancelled(t) \/ ReleaseUnowned(t)
  \/ Resume(t) \/ Read(t) \/ Write(t) \/ Refuse(t) \/ Interrupt(t)

Next ==
  \/ \E t \in Tools : Enter(t) \/ Step(t)
  \/ \E r \in Runs : Abort(r)

Spec == Init /\ [][Next]_vars

(* The event loop runs every ready task.                                    *)
FairSpec == Spec /\ \A t \in Tools : WF_vars(Step(t))

-----------------------------------------------------------------------------
(* Properties.                                                              *)

(* Types of the queue; a reference count never goes below zero.             *)
TypeOK ==
  /\ pc \in [Tools -> {"idle", "misled"} \cup Waiting \cup Holding \cup Final]
  /\ hit \subseteq Tools
  /\ locked \in [Keys -> BOOLEAN]
  /\ waiters \in [Keys -> Seq(Tools)]
  /\ refs \in [Keys -> Nat]
  /\ aborted \in [Runs -> BOOLEAN] /\ misused \in BOOLEAN
  /\ version \in [Keys -> Nat] /\ seen \in [Tools -> Nat]

(* Two executions never work on one file at the same time.  (Violated by a  *)
(* cancel that reaches an execution while it waits.)                        *)
MutualExclusion ==
  \A t, u \in Tools :
    t # u /\ KeyOf[t] = KeyOf[u] => ~(pc[t] \in Holding /\ pc[u] \in Holding)

(* They do not as long as cancels reach only executions that have the lock. *)
ExclusiveUnlessMisused == ~misused => MutualExclusion

LockTracksHolder ==
  \A k \in Keys : locked[k] <=> \E t \in Tools : KeyOf[t] = k /\ pc[t] \in Holding

(* As long, the lock is taken exactly while some execution of its file has  *)
(* it.                                                                      *)
LockedIsHeld == ~misused => LockTracksHolder

(* As long, no edit overwrites a mutation it has not seen.                  *)
NoLostUpdate ==
  [][~misused => \A t \in Edits :
       pc[t] = "working" /\ version'[KeyOf[t]] # version[KeyOf[t]] /\ pc'[t] \in Final
         => seen[t] = version[KeyOf[t]]]_vars

(* The reference count is the number of executions that are in hold() or    *)
(* whose release has raised: those keep theirs for ever, so that the lock   *)
(* of their file is never dropped.  No lock is dropped that anybody uses.   *)
Users(k) == {t \in Tools : KeyOf[t] = k /\ pc[t] \notin {"idle", "done", "cancelled"}}

RefsCountUsers == \A k \in Keys : refs[k] = Cardinality(Users(k))

(* Every execution that entered the queue leaves it.                        *)
EveryoneLeaves == \A t \in Tools : pc[t] \in Waiting ~> pc[t] \in Final
=============================================================================
