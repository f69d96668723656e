-------------------------- MODULE SharedFileProofs --------------------------
(***************************************************************************)
(* Theorems of MutationQueue and of SessionStore, the two modules about     *)
(* files that several writers share, and of Compaction, about the branch    *)
(* that a session file keeps, for every value of their constants.           *)
(*                                                                         *)
(* MutationQueue: the reference count is that of the executions in hold()   *)
(* and of those whose release has raised, whatever is cancelled.            *)
(* Mutual exclusion lasts until a cancel reaches an execution that waits    *)
(* (misused); from then on it is false.                                     *)
(*                                                                         *)
(* SessionStore: whatever happens, the calls keep the types and a finished  *)
(* line.  Until a write is cut short every file and every manager is a      *)
(* tree of entries, and what a manager has flushed is a subsequence of its  *)
(* file (StoreInv): it holds because a new id is greater than any in use,   *)
(* so that lines two managers add to one file are told apart.               *)
(*                                                                         *)
(* Compaction: the branch stays sound (SoundBranch).  Every result has an   *)
(* answer or a result before it with notes alone in between; what a         *)
(* compaction keeps begins with a user's message or an answer, so that no   *)
(* cut comes between a call and its results; and a compaction covers the    *)
(* messages before what it keeps, as long as none has discarded what        *)
(* another one covered.                                                     *)
(***************************************************************************)
EXTENDS MutationQueue, SessionStore, Compaction, FiniteSetTheorems, FunctionTheorems, SequenceTheorems,
        NaturalsInduction, WellFoundedInduction, TLAPS

USE DEF Waiting, Holding, Final, runVars

-----------------------------------------------------------------------------
(* Types and the reference count.                                           *)

Counted == TypeOK /\ RefsCountUsers

(* Leaving the deque keeps its type.                                        *)
LEMMA WithoutType ==
  ASSUME NEW S, NEW ws \in Seq(S), NEW t
  PROVE  Without(ws, t) \in Seq(S)
  BY DEF Without

(* The users of a file are finitely many, so they can be counted.           *)
LEMMA UsersFinite ==
  ASSUME NEW k
  PROVE  IsFiniteSet(Users(k)) /\ Cardinality(Users(k)) \in Nat
<1>1. IsFiniteSet(Tools)
  BY MutationQueueAssumption DEF MutationQueueAssumption
<1>2. Users(k) \subseteq Tools
  BY DEF Users
<1>3. IsFiniteSet(Users(k))
  BY <1>1, <1>2, FS_Subset
<1> QED  BY <1>3, FS_CardinalityType

(* A step that moves nobody into or out of hold() keeps the count.          *)
LEMMA SameUsers ==
  ASSUME RefsCountUsers, UNCHANGED refs,
         \A u \in Tools : pc[u] \in {"idle", "done", "cancelled"}
                            <=> pc'[u] \in {"idle", "done", "cancelled"}
  PROVE  RefsCountUsers'
<1>1. \A k \in Keys : Users(k)' = Users(k)
  BY DEF Users
<1> QED  BY <1>1 DEF RefsCountUsers

(* Unlocking moves the releasing execution and wakes at most one waiter.    *)
LEMMA UnlockMoves ==
  ASSUME TypeOK, NEW t \in Tools, NEW to \in Final, Unlock(t, to)
  PROVE  /\ pc' \in [Tools -> {"idle", "misled"} \cup Waiting \cup Holding \cup Final]
         /\ pc'[t] = to
         /\ \A u \in Tools \ {t} :
              pc'[u] # pc[u] => pc[u] = "waiting" /\ pc'[u] = "woken"
         /\ locked' \in [Keys -> BOOLEAN] /\ waiters' = waiters
  BY MutationQueueAssumption DEF TypeOK, Unlock, Wakes, MutationQueueAssumption

(* Leaving hold() in order takes exactly the leaver from the users.         *)
LEMMA ReleaseCounted ==
  ASSUME Counted, NEW t \in Tools, NEW to \in {"done", "cancelled"},
         pc[t] \notin {"idle", "done", "cancelled"}, Release(t, to), locked[KeyOf[t]]
  PROVE  RefsCountUsers' /\ refs' \in [Keys -> Nat]
<1> DEFINE k == KeyOf[t]
<1>1. k \in Keys
  BY MutationQueueAssumption DEF MutationQueueAssumption
<1>2. Users(k)' = Users(k) \ {t} /\ t \in Users(k)
  BY UnlockMoves DEF Counted, Release, Users
<1>3. \A j \in Keys \ {k} : Users(j)' = Users(j)
  BY UnlockMoves DEF Counted, Release, Users
<1>4. Cardinality(Users(k)') = Cardinality(Users(k)) - 1
  BY <1>2, UsersFinite, FS_RemoveElement
<1>5. refs' = [refs EXCEPT ![k] = @ - 1] /\ refs \in [Keys -> Nat]
  BY DEF Release, DropUser, Counted, TypeOK
<1>6. refs'[k] = Cardinality(Users(k)') /\ Cardinality(Users(k)') \in Nat
  <2>1. refs[k] = Cardinality(Users(k))
    BY <1>1 DEF Counted, RefsCountUsers
  <2>2. IsFiniteSet(Users(k)')
    BY <1>2, UsersFinite, FS_RemoveElement
  <2>3. Cardinality(Users(k)') \in Nat
    BY <2>2, FS_CardinalityType
  <2> QED  BY <1>1, <1>4, <1>5, <2>1, <2>3
<1>7. \A j \in Keys : refs'[j] = Cardinality(Users(j)')
  BY <1>1, <1>3, <1>5, <1>6 DEF Counted, RefsCountUsers
<1>8. refs' \in [Keys -> Nat]
  BY <1>1, <1>5, <1>6
<1> QED
  BY <1>7, <1>8 DEF RefsCountUsers

(* So does any end of hold(): a release that raises leaves the execution    *)
(* among the users, with its reference.                                     *)
LEMMA ReleaseKeepsCount ==
  ASSUME Counted, NEW t \in Tools, NEW to \in {"done", "cancelled"},
         pc[t] \notin {"idle", "done", "cancelled"}, Release(t, to),
         UNCHANGED runVars, version' \in [Keys -> Nat], seen' \in [Tools -> Nat]
  PROVE  Counted'
<1>1. KeyOf[t] \in Keys /\ hit' \subseteq Tools /\ aborted' \in [Runs -> BOOLEAN]
      /\ misused' \in BOOLEAN
  BY MutationQueueAssumption DEF Release, Counted, TypeOK, MutationQueueAssumption
<1>2. CASE locked[KeyOf[t]]
  <2>1. RefsCountUsers' /\ refs' \in [Keys -> Nat]
    BY <1>2, ReleaseCounted
  <2>2. Unlock(t, to)
    BY <1>2 DEF Release
  <2> QED  BY <1>1, <2>1, <2>2, UnlockMoves DEF Counted, TypeOK
<1>3. CASE ~locked[KeyOf[t]]
  <2>1. pc' = [pc EXCEPT ![t] = "crashed"] /\ UNCHANGED lockVars
    BY <1>3 DEF Release, Move
  <2>2. TypeOK'
    BY <1>1, <2>1 DEF Counted, TypeOK, lockVars
  <2>3. RefsCountUsers'
    BY <2>1, SameUsers DEF Counted, TypeOK, lockVars
  <2> QED  BY <2>2, <2>3 DEF Counted
<1> QED  BY <1>2, <1>3

(* Entering hold() counts exactly the newcomer.                             *)
LEMMA EnterCounted ==
  ASSUME Counted, NEW t \in Tools, Enter(t)
  PROVE  Counted'
<1> DEFINE k == KeyOf[t]
<1>1. k \in Keys
  BY MutationQueueAssumption DEF MutationQueueAssumption
<1>2. Users(k)' = Users(k) \cup {t} /\ t \notin Users(k)
  BY DEF Enter, Move, Counted, TypeOK, Users
<1>3. \A j \in Keys \ {k} : Users(j)' = Users(j)
  BY DEF Enter, Move, Counted, TypeOK, Users
<1>4. Cardinality(Users(k)') = Cardinality(Users(k)) + 1
  BY <1>2, UsersFinite, FS_AddElement
<1>5. RefsCountUsers'
  BY <1>1, <1>3, <1>4 DEF Enter, CountUser, Counted, TypeOK, RefsCountUsers
<1> QED
  BY <1>1, <1>5 DEF Counted, TypeOK, Enter, CountUser, Move, fileVars

LEMMA StepCounted ==
  ASSUME Counted, NEW t \in Tools, Step(t)
  PROVE  Counted'
<1> USE MutationQueueAssumption DEF MutationQueueAssumption
<1> KeyOf[t] \in Keys /\ RunOf[t] \in Runs
  OBVIOUS
<1>1. CASE Acquire(t)
  <2> waiters[KeyOf[t]] \in Seq(Tools) /\ Append(waiters[KeyOf[t]], t) \in Seq(Tools)
    BY DEF Counted, TypeOK
  <2> locked' \in [Keys -> BOOLEAN] /\ waiters' \in [Keys -> Seq(Tools)]
    BY <1>1 DEF Acquire, Counted, TypeOK
  <2>1. TypeOK'
    BY <1>1 DEF Acquire, Move, Counted, TypeOK, fileVars
  <2>2. UNCHANGED refs /\ pc[t] = "spawned"
        /\ (pc' = [pc EXCEPT ![t] = "granted"] \/ pc' = [pc EXCEPT ![t] = "waiting"])
    BY <1>1 DEF Acquire, Move
  <2>3. RefsCountUsers'
    BY <2>2, SameUsers DEF Counted, TypeOK
  <2> QED  BY <2>1, <2>3 DEF Counted
<1>2. CASE Woken(t)
  <2>1. Without(waiters[KeyOf[t]], t) \in Seq(Tools)
    BY WithoutType DEF Counted, TypeOK
  <2>2. TypeOK'
    BY <1>2, <2>1 DEF Woken, Move, Counted, TypeOK, fileVars
  <2>3. RefsCountUsers'
    BY <1>2, SameUsers DEF Woken, Move, Counted, TypeOK
  <2> QED  BY <2>2, <2>3 DEF Counted
<1>3. CASE AcquireCancelled(t)
  <2>1. Without(waiters[KeyOf[t]], t) \in Seq(Tools)
    BY WithoutType DEF Counted, TypeOK
  <2>2. TypeOK'
    BY <1>3, <2>1 DEF AcquireCancelled, Counted, TypeOK, fileVars, Wakes
  <2>3. RefsCountUsers'
    BY <1>3, SameUsers DEF AcquireCancelled, Wakes, Counted, TypeOK
  <2> QED  BY <2>2, <2>3 DEF Counted
<1>4. CASE ReleaseUnowned(t)
  BY <1>4, ReleaseKeepsCount DEF ReleaseUnowned, Counted, TypeOK, fileVars
<1>5. CASE Resume(t)
  <2>1. TypeOK'
    BY <1>5 DEF Resume, Move, Counted, TypeOK, lockVars, fileVars
  <2>2. RefsCountUsers'
    BY <1>5, SameUsers DEF Resume, Move, Counted, TypeOK, lockVars
  <2> QED  BY <2>1, <2>2 DEF Counted
<1>6. CASE Read(t)
  <2>1. TypeOK'
    BY <1>6 DEF Read, Move, Counted, TypeOK, lockVars
  <2>2. RefsCountUsers'
    BY <1>6, SameUsers DEF Read, Move, Counted, TypeOK, lockVars
  <2> QED  BY <2>1, <2>2 DEF Counted
<1>7. CASE Write(t)
  <2>1. version' \in [Keys -> Nat] /\ seen' \in [Tools -> Nat]
    BY <1>7 DEF Write, Counted, TypeOK
  <2> QED  BY <1>7, <2>1, ReleaseKeepsCount DEF Write
<1>8. CASE Refuse(t)
  BY <1>8, ReleaseKeepsCount DEF Refuse, Counted, TypeOK, fileVars
<1>9. CASE Interrupt(t)
  BY <1>9, ReleaseKeepsCount DEF Interrupt, Counted, TypeOK, fileVars
<1> QED
  BY <1>1, <1>2, <1>3, <1>4, <1>5, <1>6, <1>7, <1>8, <1>9 DEF Step

(* Initially nobody is inside hold() and no count is taken.                 *)
LEMMA CountedAtStart == Init => Counted
<1> SUFFICES ASSUME Init PROVE Counted
  OBVIOUS
<1>1. TypeOK
  <2>1. misused \in BOOLEAN
    BY Zenon DEF Init
  <2> QED  BY <2>1 DEF Init, TypeOK
<1>2. \A k \in Keys : Users(k) = {}
  BY DEF Init, Users
<1> QED  BY <1>1, <1>2, FS_EmptySet DEF Init, Counted, RefsCountUsers

(* The count of a file's lock is the number of executions inside hold() and *)
(* of those whose release has raised, with or without cancels of waiting    *)
(* executions.                                                              *)
LEMMA CountedInductive == Spec => []Counted
<1>1. Counted /\ [Next]_vars => Counted'
  <2> SUFFICES ASSUME Counted, [Next]_vars PROVE Counted'
    OBVIOUS
  <2>1. CASE \E t \in Tools : Enter(t)
    BY <2>1, EnterCounted
  <2>2. CASE \E t \in Tools : Step(t)
    BY <2>2, StepCounted
  <2>3. ASSUME NEW r \in Runs, Abort(r) PROVE Counted'
    <3>1. TypeOK'
      BY <2>3 DEF Abort, Counted, TypeOK, lockVars, fileVars
    <3>2. RefsCountUsers'
      BY <2>3, SameUsers DEF Abort, Counted, lockVars
    <3> QED  BY <3>1, <3>2 DEF Counted
  <2>4. CASE UNCHANGED vars
    <3>1. TypeOK'
      BY <2>4 DEF vars, Counted, TypeOK, lockVars, fileVars
    <3>2. RefsCountUsers'
      BY <2>4, SameUsers DEF vars, Counted, lockVars
    <3> QED  BY <3>1, <3>2 DEF Counted
  <2> QED  BY <2>1, <2>2, <2>3, <2>4 DEF Next
<1> QED  BY <1>1, CountedAtStart, PTL DEF Spec

(* Every variable keeps its type; the reference count never goes negative.  *)
THEOREM TypeCorrect == Spec => []TypeOK
<1>1. Counted => TypeOK
  BY DEF Counted
<1> QED  BY <1>1, CountedInductive, PTL

(* _drop deletes a lock only when no execution is inside hold() for it, and *)
(* never once the release of one has raised.                                *)
THEOREM CountCorrect == Spec => []RefsCountUsers
<1>1. Counted => RefsCountUsers
  BY DEF Counted
<1> QED  BY <1>1, CountedInductive, PTL

-----------------------------------------------------------------------------
(* Mutual exclusion, until a cancel reaches an execution that waits.  It is *)
(* not inductive alone: a woken waiter takes the lock without looking, so   *)
(* it must be the first of its deque, be alone in that, and the lock free;  *)
(* and nobody may have been sent to release a lock that it does not have.   *)

HitHolds     == \A t \in hit : pc[t] \in Holding
NobodyMisled == \A t \in Tools : pc[t] # "misled"
WaitersOfKey == \A k \in Keys : \A i \in DOMAIN waiters[k] : KeyOf[waiters[k][i]] = k
WokenIsFirst ==
  \A t \in Tools : pc[t] = "woken" =>
    /\ ~locked[KeyOf[t]]
    /\ waiters[KeyOf[t]] # <<>> /\ Head(waiters[KeyOf[t]]) = t
ReadIsFresh  == \A t \in Tools : pc[t] = "working" => seen[t] = version[KeyOf[t]]

Exclusive ==
  /\ TypeOK /\ HitHolds /\ NobodyMisled /\ WaitersOfKey /\ WokenIsFirst
  /\ MutualExclusion /\ LockTracksHolder /\ ReadIsFresh

(* What leaves the deque leaves the others in it.                           *)
LEMMA WithoutMembers ==
  ASSUME NEW S, NEW ws \in Seq(S), NEW t
  PROVE  \A i \in DOMAIN Without(ws, t) : \E j \in DOMAIN ws : Without(ws, t)[i] = ws[j]
<1>1. CASE \E i \in DOMAIN ws : ws[i] = t
  <2> DEFINE c == CHOOSE i \in DOMAIN ws : ws[i] = t
             w == [j \in 1..(Len(ws) - 1) |-> IF j < c THEN ws[j] ELSE ws[j + 1]]
  <2>1. Without(ws, t) = w
    BY <1>1 DEF Without
  <2>2. DOMAIN ws = 1..Len(ws) /\ Len(ws) \in Nat /\ c \in Int
    BY <1>1
  <2> HIDE DEF c
  <2>3. \A i \in DOMAIN w : \E j \in DOMAIN ws : w[i] = ws[j]
    <3> SUFFICES ASSUME NEW i \in 1..(Len(ws) - 1) PROVE \E j \in DOMAIN ws : w[i] = ws[j]
      OBVIOUS
    <3>1. i \in DOMAIN ws /\ i + 1 \in DOMAIN ws
      BY <2>2
    <3>2. w[i] = ws[i] \/ w[i] = ws[i + 1]
      OBVIOUS
    <3> QED  BY <3>1, <3>2
  <2> QED  BY <2>1, <2>3
<1>2. CASE ~\E i \in DOMAIN ws : ws[i] = t
  BY <1>2 DEF Without
<1> QED  BY <1>1, <1>2

(* Every release: the holder leaves, the head of the deque may be woken.    *)
LEMMA ReleaseExclusive ==
  ASSUME Exclusive, TypeOK', NEW t \in Tools, NEW to \in {"done", "cancelled"},
         pc[t] \in Holding, Release(t, to), UNCHANGED seen,
         UNCHANGED version \/ (pc[t] = "working"
                                /\ version' = [version EXCEPT ![KeyOf[t]] = @ + 1])
  PROVE  Exclusive'
<1> USE MutationQueueAssumption DEF MutationQueueAssumption
<1> DEFINE k == KeyOf[t]
<1>1. locked[k] /\ \A u \in Tools : pc[u] = "woken" => KeyOf[u] # k
  BY DEF Exclusive, LockTracksHolder, WokenIsFirst
<1>2. Unlock(t, to) /\ hit' = hit \ {t}
  BY <1>1 DEF Release
<1>3. /\ pc'[t] = to /\ waiters' = waiters
      /\ \A u \in Tools \ {t} : pc'[u] # pc[u] => pc[u] = "waiting" /\ pc'[u] = "woken"
  BY <1>2, UnlockMoves DEF Exclusive
<1>4. /\ locked' = [locked EXCEPT ![k] = FALSE] /\ hit' = hit \ {t}
      /\ \A u \in Tools \ {t} : pc'[u] = IF Wakes(waiters[k], u) THEN "woken" ELSE pc[u]
  BY <1>2 DEF Unlock, Exclusive, TypeOK
<1>5. \A u \in Tools \ {t} : KeyOf[u] = k => pc[u] \notin Holding
  BY DEF Exclusive, MutualExclusion
<1>6. HitHolds'
  BY <1>3, <1>4 DEF Exclusive, HitHolds, TypeOK
<1>7. NobodyMisled' /\ WaitersOfKey'
  BY <1>3 DEF Exclusive, NobodyMisled, WaitersOfKey
<1>8. WokenIsFirst'
  <2> SUFFICES ASSUME NEW u \in Tools, pc'[u] = "woken"
               PROVE  /\ ~locked'[KeyOf[u]] /\ waiters[KeyOf[u]] # <<>>
                      /\ Head(waiters[KeyOf[u]]) = u
    BY <1>3 DEF WokenIsFirst
  <2>1. u # t
    BY <1>3
  <2>2. CASE pc[u] = "woken"
    BY <1>4, <2>1, <2>2 DEF Exclusive, WokenIsFirst, TypeOK
  <2>3. CASE pc[u] # "woken"
    <3>1. Wakes(waiters[k], u)
      BY <1>4, <2>1, <2>3
    <3>2. waiters[k] # <<>> /\ Head(waiters[k]) = u /\ k \in Keys
      BY <3>1 DEF Wakes
    <3>3. waiters[k] \in Seq(Tools)
      BY <3>2 DEF Exclusive, TypeOK
    <3>4. 1 \in DOMAIN waiters[k] /\ waiters[k][1] = u
      BY <3>2, <3>3
    <3>5. KeyOf[u] = k
      BY <3>2, <3>4 DEF Exclusive, WaitersOfKey
    <3> QED  BY <1>4, <3>2, <3>5 DEF Exclusive, TypeOK
  <2> QED  BY <2>2, <2>3
<1>9. MutualExclusion'
  BY <1>3 DEF Exclusive, MutualExclusion
<1>10. LockTracksHolder'
  <2> SUFFICES ASSUME NEW j \in Keys
               PROVE  locked'[j] <=> \E u \in Tools : KeyOf[u] = j /\ pc'[u] \in Holding
    BY DEF LockTracksHolder
  <2>1. CASE j = k
    <3>1. ~locked'[j]
      BY <1>4, <2>1 DEF Exclusive, TypeOK
    <3>2. \A u \in Tools : KeyOf[u] = j => pc'[u] \notin Holding
      BY <1>3, <1>5, <2>1
    <3> QED  BY <3>1, <3>2
  <2>2. CASE j # k
    <3>1. locked'[j] = locked[j]
      BY <1>4, <2>2 DEF Exclusive, TypeOK
    <3>2. \A u \in Tools : KeyOf[u] = j => (pc'[u] \in Holding <=> pc[u] \in Holding)
      BY <1>3, <2>2
    <3> QED  BY <3>1, <3>2 DEF Exclusive, LockTracksHolder
  <2> QED  BY <2>1, <2>2
<1>11. ReadIsFresh'
  <2> SUFFICES ASSUME NEW u \in Tools, pc'[u] = "working"
               PROVE  seen[u] = version'[KeyOf[u]]
    BY DEF ReadIsFresh
  <2>1. u # t /\ pc[u] = "working"
    BY <1>3
  <2>2. KeyOf[u] # k /\ seen[u] = version[KeyOf[u]]
    BY <1>5, <2>1 DEF Exclusive, ReadIsFresh
  <2> QED  BY <2>2 DEF Exclusive, TypeOK
<1> QED
  BY <1>6, <1>7, <1>8, <1>9, <1>10, <1>11 DEF Exclusive

LEMMA StepExclusive ==
  ASSUME Exclusive, TypeOK', NEW t \in Tools, Step(t)
  PROVE  Exclusive'
<1> USE MutationQueueAssumption DEF MutationQueueAssumption
<1> DEFINE k == KeyOf[t]
<1> k \in Keys /\ waiters[k] \in Seq(Tools) /\ locked \in [Keys -> BOOLEAN]
  BY DEF Exclusive, TypeOK
<1> pc \in [Tools -> {"idle", "misled"} \cup Waiting \cup Holding \cup Final]
  BY DEF Exclusive, TypeOK
<1>1. CASE Acquire(t)
  <2>1. CASE pc' = [pc EXCEPT ![t] = "granted"]
    <3>1. /\ ~locked[k] /\ locked' = [locked EXCEPT ![k] = TRUE]
          /\ UNCHANGED <<waiters, hit, fileVars>> /\ pc[t] = "spawned"
          /\ \A i \in DOMAIN waiters[k] : pc[waiters[k][i]] # "woken"
      BY <1>1, <2>1 DEF Acquire, Move
    <3>2. \A u \in Tools : KeyOf[u] = k => pc[u] \notin Holding /\ pc[u] # "woken"
      BY <3>1 DEF Exclusive, LockTracksHolder, WokenIsFirst
    <3>3. HitHolds' /\ NobodyMisled' /\ WaitersOfKey' /\ ReadIsFresh'
      BY <2>1, <3>1 DEF Exclusive, HitHolds, NobodyMisled, WaitersOfKey, ReadIsFresh, fileVars
    <3>4. WokenIsFirst'
      BY <2>1, <3>1, <3>2 DEF Exclusive, WokenIsFirst
    <3>5. MutualExclusion' /\ LockTracksHolder'
      BY <2>1, <3>1, <3>2 DEF Exclusive, MutualExclusion, LockTracksHolder
    <3> QED  BY <3>3, <3>4, <3>5 DEF Exclusive
  <2>2. CASE pc' = [pc EXCEPT ![t] = "waiting"]
    <3>1. /\ waiters' = [waiters EXCEPT ![k] = Append(@, t)]
          /\ UNCHANGED <<locked, hit, fileVars>> /\ pc[t] = "spawned"
      BY <1>1, <2>2 DEF Acquire, Move
    <3>2. HitHolds' /\ NobodyMisled' /\ ReadIsFresh'
      BY <2>2, <3>1 DEF Exclusive, HitHolds, NobodyMisled, ReadIsFresh, fileVars
    <3>3. /\ waiters'[k] = Append(waiters[k], t) /\ waiters'[k] # <<>>
          /\ waiters[k] # <<>> => Head(waiters'[k]) = Head(waiters[k])
          /\ \A j \in Keys \ {k} : waiters'[j] = waiters[j]
          /\ \A i \in DOMAIN waiters'[k] : waiters'[k][i] = t \/
               (i \in DOMAIN waiters[k] /\ waiters'[k][i] = waiters[k][i])
      <4>1. /\ waiters'[k] = Append(waiters[k], t)
            /\ \A j \in Keys \ {k} : waiters'[j] = waiters[j]
        BY <3>1 DEF Exclusive, TypeOK
      <4> QED  BY <4>1
    <3>4. WaitersOfKey'
      <4>1. \A i \in DOMAIN waiters'[k] : KeyOf[waiters'[k][i]] = k
        BY <3>3 DEF Exclusive, WaitersOfKey
      <4>2. \A j \in Keys \ {k} : \A i \in DOMAIN waiters'[j] : KeyOf[waiters'[j][i]] = j
        BY <3>3 DEF Exclusive, WaitersOfKey
      <4> QED  BY <4>1, <4>2 DEF WaitersOfKey
    <3>6. WokenIsFirst'
      BY <2>2, <3>1, <3>3 DEF Exclusive, WokenIsFirst
    <3>5. MutualExclusion' /\ LockTracksHolder'
      BY <2>2, <3>1 DEF Exclusive, MutualExclusion, LockTracksHolder
    <3> QED  BY <3>2, <3>4, <3>5, <3>6 DEF Exclusive
  <2> QED  BY <1>1, <2>1, <2>2 DEF Acquire, Move
<1>2. CASE Woken(t)
  <2>1. /\ ~locked[k] /\ waiters[k] # <<>> /\ Head(waiters[k]) = t
        /\ locked' = [locked EXCEPT ![k] = TRUE]
        /\ waiters' = [waiters EXCEPT ![k] = Without(@, t)]
        /\ pc' = [pc EXCEPT ![t] = "granted"] /\ UNCHANGED <<hit, fileVars>>
    BY <1>2 DEF Woken, Move, Exclusive, WokenIsFirst
  <2>2. \A u \in Tools \ {t} : KeyOf[u] = k => pc[u] \notin Holding /\ pc[u] # "woken"
    BY <2>1 DEF Exclusive, LockTracksHolder, WokenIsFirst
  <2>3. HitHolds' /\ NobodyMisled' /\ ReadIsFresh'
    BY <2>1 DEF Exclusive, HitHolds, NobodyMisled, ReadIsFresh, fileVars
  <2>4. WaitersOfKey'
    <3>1. \A i \in DOMAIN Without(waiters[k], t) : KeyOf[Without(waiters[k], t)[i]] = k
      BY WithoutMembers DEF Exclusive, WaitersOfKey
    <3> QED  BY <2>1, <3>1 DEF Exclusive, WaitersOfKey, TypeOK
  <2>5. WokenIsFirst'
    BY <2>1, <2>2 DEF Exclusive, WokenIsFirst, TypeOK
  <2>6. MutualExclusion' /\ LockTracksHolder'
    BY <2>1, <2>2 DEF Exclusive, MutualExclusion, LockTracksHolder
  <2> QED  BY <2>3, <2>4, <2>5, <2>6 DEF Exclusive
<1>3. CASE AcquireCancelled(t)
  BY <1>3 DEF AcquireCancelled, Exclusive, HitHolds
<1>4. CASE ReleaseUnowned(t)
  BY <1>4 DEF ReleaseUnowned, Exclusive, NobodyMisled
<1>5. CASE Resume(t)
  <2>1. pc' = [pc EXCEPT ![t] = "held"] /\ pc[t] = "granted" /\ UNCHANGED <<hit, lockVars, fileVars>>
    BY <1>5 DEF Resume, Move
  <2> QED
    BY <2>1 DEF Exclusive, HitHolds, NobodyMisled, WaitersOfKey, WokenIsFirst,
                MutualExclusion, LockTracksHolder, ReadIsFresh, lockVars, fileVars
<1>6. CASE Read(t)
  <2>1. /\ pc' = [pc EXCEPT ![t] = "working"] /\ pc[t] = "held"
        /\ seen' = [seen EXCEPT ![t] = version[k]] /\ UNCHANGED <<hit, lockVars, version>>
    BY <1>6 DEF Read, Move
  <2>2. ReadIsFresh'
    BY <2>1 DEF Exclusive, ReadIsFresh, TypeOK
  <2> QED
    BY <2>1, <2>2 DEF Exclusive, HitHolds, NobodyMisled, WaitersOfKey, WokenIsFirst,
                      MutualExclusion, LockTracksHolder, lockVars
<1>7. CASE Write(t)
  BY <1>7, ReleaseExclusive DEF Write
<1>8. CASE Refuse(t)
  BY <1>8, ReleaseExclusive DEF Refuse, fileVars
<1>9. CASE Interrupt(t)
  BY <1>9, ReleaseExclusive DEF Interrupt, fileVars
<1> QED
  BY <1>1, <1>2, <1>3, <1>4, <1>5, <1>6, <1>7, <1>8, <1>9 DEF Step

LEMMA NextExclusive ==
  ASSUME ~misused', Exclusive, TypeOK', [Next]_vars
  PROVE  Exclusive'
<1> USE MutationQueueAssumption DEF MutationQueueAssumption
<1>1. ASSUME NEW t \in Tools, Enter(t) PROVE Exclusive'
  <2>1. /\ pc' = [pc EXCEPT ![t] = "spawned"] /\ pc[t] = "idle"
        /\ UNCHANGED <<hit, locked, waiters, fileVars>>
    BY <1>1 DEF Enter, Move
  <2>2. \A u \in Tools \ {t} : pc'[u] = pc[u]
    BY <2>1 DEF Exclusive, TypeOK
  <2>3. pc'[t] = "spawned"
    BY <2>1 DEF Exclusive, TypeOK
  <2>4. HitHolds' /\ NobodyMisled' /\ WaitersOfKey'
    BY <2>1, <2>2, <2>3 DEF Exclusive, TypeOK, HitHolds, NobodyMisled, WaitersOfKey
  <2>5. WokenIsFirst' /\ ReadIsFresh'
    BY <2>1, <2>2, <2>3 DEF Exclusive, WokenIsFirst, ReadIsFresh, fileVars
  <2>6. MutualExclusion' /\ LockTracksHolder'
    BY <2>1, <2>2, <2>3 DEF Exclusive, MutualExclusion, LockTracksHolder
  <2> QED  BY <2>4, <2>5, <2>6 DEF Exclusive
<1>2. ASSUME NEW t \in Tools, Step(t) PROVE Exclusive'
  BY <1>2, StepExclusive
<1>3. ASSUME NEW r \in Runs, Abort(r) PROVE Exclusive'
  <2>1. HitHolds'
    <3>1. \A t \in Tools : RunOf[t] = r => pc[t] \notin Waiting
      BY <1>3 DEF Abort, Exclusive, TypeOK
    <3>2. hit' = hit \cup {t \in Tools : RunOf[t] = r /\ pc[t] \in Waiting \cup Holding}
          /\ pc' = pc
      BY <1>3 DEF Abort
    <3> QED  BY <3>1, <3>2 DEF Exclusive, HitHolds
  <2>2. UNCHANGED <<pc, lockVars, fileVars>>
    BY <1>3 DEF Abort
  <2>3. NobodyMisled' /\ WaitersOfKey' /\ WokenIsFirst' /\ ReadIsFresh'
    BY <2>2 DEF Exclusive, NobodyMisled, WaitersOfKey, WokenIsFirst, ReadIsFresh,
                lockVars, fileVars
  <2>4. MutualExclusion' /\ LockTracksHolder'
    BY <2>2 DEF Exclusive, MutualExclusion, LockTracksHolder, lockVars
  <2> QED  BY <2>1, <2>3, <2>4 DEF Exclusive
<1>4. CASE UNCHANGED vars
  BY <1>4 DEF vars, Exclusive, HitHolds, NobodyMisled, WaitersOfKey, WokenIsFirst,
              MutualExclusion, LockTracksHolder, ReadIsFresh, lockVars, fileVars
<1> QED  BY <1>1, <1>2, <1>3, <1>4 DEF Next

(* A step never takes the mark of a misuse back.                            *)
LEMMA MisuseStays ==
  ASSUME TypeOK, misused, [Next]_vars
  PROVE  misused'
<1>1. ASSUME NEW t \in Tools, Enter(t) PROVE misused'
  BY <1>1 DEF Enter
<1>2. ASSUME NEW t \in Tools, Step(t) PROVE misused'
  BY <1>2 DEF Step, Acquire, Woken, AcquireCancelled, ReleaseUnowned, Resume, Read,
              Write, Refuse, Interrupt
<1>3. ASSUME NEW r \in Runs, Abort(r) PROVE misused'
  BY <1>3 DEF Abort, TypeOK
<1>4. CASE UNCHANGED vars
  BY <1>4 DEF vars
<1> QED  BY <1>1, <1>2, <1>3, <1>4 DEF Next

Guarded == ~misused => Exclusive

LEMMA GuardedInductive == Spec => []Guarded
<1>1. Init => Guarded
  <2>1. Init => TypeOK
    BY CountedAtStart DEF Counted
  <2>2. Init => HitHolds /\ NobodyMisled /\ WaitersOfKey /\ WokenIsFirst
                /\ MutualExclusion /\ LockTracksHolder /\ ReadIsFresh
    BY MutationQueueAssumption
    DEF Init, HitHolds, NobodyMisled, WaitersOfKey, WokenIsFirst, MutualExclusion,
        LockTracksHolder, ReadIsFresh, MutationQueueAssumption
  <2> QED  BY <2>1, <2>2 DEF Guarded, Exclusive
<1>2. TypeOK /\ TypeOK' /\ Guarded /\ [Next]_vars => Guarded'
  BY NextExclusive, MisuseStays DEF Guarded
<1> QED  BY <1>1, <1>2, TypeCorrect, PTL DEF Spec

(* Two executions never hold the lock of one file at the same time, until a *)
(* cancel reaches one that waits.                                           *)
THEOREM Exclusion == Spec => []ExclusiveUnlessMisused
<1>1. Guarded => ExclusiveUnlessMisused
  BY DEF Guarded, Exclusive, ExclusiveUnlessMisused
<1> QED  BY <1>1, GuardedInductive, PTL

(* As long, asyncio's locked flag is set exactly while an execution holds   *)
(* the lock: no release is lost and none is done twice.                     *)
THEOREM LockInStep == Spec => []LockedIsHeld
<1>1. Guarded => LockedIsHeld
  BY DEF Guarded, Exclusive, LockedIsHeld
<1> QED  BY <1>1, GuardedInductive, PTL

(* As long, an edit writes back a file that nobody has changed since it     *)
(* read it.                                                                 *)
THEOREM EditsKept == Spec => NoLostUpdate
<1> DEFINE Intact == ~misused => \A t \in Edits :
             pc[t] = "working" /\ version'[KeyOf[t]] # version[KeyOf[t]] /\ pc'[t] \in Final
               => seen[t] = version[KeyOf[t]]
<1>1. Guarded => Intact
  BY MutationQueueAssumption DEF Guarded, Exclusive, ReadIsFresh, MutationQueueAssumption
<1>2. Guarded /\ [Next]_vars => [Intact]_vars
  BY <1>1
<1> QED  BY <1>2, GuardedInductive, PTL DEF Spec, NoLostUpdate

HIDE DEF Waiting, Holding, Final, runVars

----------------------------------------------------------------------------
(* Lemmas about selections: the elements of a sequence at some positions.  *)

Rank(I, i) == Cardinality({k \in I : k <= i})

(* Positions are ranked from 1 to their number, in their order.             *)
LEMMA RankIs ==
  ASSUME NEW I, I \subseteq Nat, IsFiniteSet(I)
  PROVE  /\ \A i \in I : Rank(I, i) \in 1 .. Cardinality(I)
         /\ \A i, j \in I : i < j => Rank(I, i) < Rank(I, j)
<1> DEFINE Upto(i) == {k \in I : k <= i}
<1>1. \A i \in I : IsFiniteSet(Upto(i)) /\ Cardinality(Upto(i)) \in Nat
  BY FS_Subset, FS_CardinalityType, Zenon
<1>2. ASSUME NEW i \in I PROVE Rank(I, i) \in 1 .. Cardinality(I)
  <2>1. Cardinality(Upto(i)) # 0
    BY <1>1, FS_EmptySet
  <2>2. Cardinality(Upto(i)) <= Cardinality(I)
    BY FS_Subset, Zenon
  <2>3. Cardinality(I) \in Nat
    BY FS_CardinalityType
  <2> QED  BY <1>1, <2>1, <2>2, <2>3 DEF Rank
<1>3. ASSUME NEW i \in I, NEW j \in I, i < j PROVE Rank(I, i) < Rank(I, j)
  <2>1. i \in Nat /\ j \in Nat /\ \A k \in I : k \in Nat
    OBVIOUS
  <2>2. \A k \in I : k <= i => k <= j
    BY <1>3, <2>1
  <2>3. j \in Upto(j) /\ j \notin Upto(i)
    BY <1>3, <2>1
  <2>4. Upto(i) \in SUBSET Upto(j) /\ Upto(i) # Upto(j)
    BY <2>2, <2>3
  <2>5. Cardinality(Upto(i)) <= Cardinality(Upto(j)) /\ Cardinality(Upto(i)) # Cardinality(Upto(j))
    BY <1>1, <2>4, FS_Subset, Zenon
  <2>6. Cardinality(Upto(i)) \in Nat /\ Cardinality(Upto(j)) \in Nat
    BY <1>1
  <2> HIDE DEF Upto
  <2>7. Cardinality(Upto(i)) < Cardinality(Upto(j))
    BY <2>5, <2>6
  <2> QED  BY <2>7 DEF Rank, Upto
<1> QED  BY <1>2, <1>3

(* There is one position of each rank.                                      *)
LEMMA NthIs ==
  ASSUME NEW I, I \subseteq Nat, IsFiniteSet(I)
  PROVE  /\ \A n \in 1 .. Cardinality(I) : Nth(I, n) \in I /\ Rank(I, Nth(I, n)) = n
         /\ \A i \in I : Nth(I, Rank(I, i)) = i
<1> DEFINE N == Cardinality(I)
           f == [i \in I |-> Rank(I, i)]
<1>1. N \in Nat
  BY FS_CardinalityType
<1>2. f \in [I -> 1 .. N]
  BY RankIs
<1>3. ASSUME NEW i \in I, NEW j \in I, Rank(I, i) = Rank(I, j) PROVE i = j
  <2>1. i \in Nat /\ j \in Nat /\ Rank(I, i) \in 1 .. N /\ Rank(I, j) \in 1 .. N
    BY RankIs
  <2>2. i < j => Rank(I, i) < Rank(I, j)
    BY RankIs
  <2>3. j < i => Rank(I, j) < Rank(I, i)
    BY RankIs
  <2>4. Rank(I, i) \in Nat /\ Rank(I, j) \in Nat
    BY <1>1, <2>1
  <2>5. ~(i < j) /\ ~(j < i)
    <3> HIDE DEF N
    <3> QED  BY <1>3, <2>2, <2>3, <2>4
  <2> QED  BY <2>1, <2>5
<1>4. f \in Injection(I, 1 .. N)
  BY <1>2, <1>3 DEF Injection, IsInjective
<1>5. IsFiniteSet(1 .. N) /\ Cardinality(1 .. N) = N
  BY <1>1, FS_Interval
<1>6. f \in Surjection(I, 1 .. N)
  BY <1>4, <1>5, FS_Injection
<1>7. \A n \in 1 .. N : \E i \in I : Rank(I, i) = n
  BY <1>6 DEF Surjection
<1>8. \A n \in 1 .. N : Nth(I, n) \in I /\ Rank(I, Nth(I, n)) = n
  BY <1>7 DEF Nth, Rank
<1>9. ASSUME NEW i \in I PROVE Nth(I, Rank(I, i)) = i
  BY <1>3, <1>8, RankIs
<1> QED  BY <1>8, <1>9

(* A selection is a sequence as long as the positions are many.             *)
LEMMA AtIs ==
  ASSUME NEW S, NEW s \in Seq(S), NEW I \in SUBSET DOMAIN s
  PROVE  /\ IsFiniteSet(I) /\ I \subseteq Nat /\ Cardinality(I) \in Nat
         /\ At(s, I) \in Seq(S)
         /\ Len(At(s, I)) = Cardinality(I)
         /\ \A n \in 1 .. Cardinality(I) : At(s, I)[n] = s[Nth(I, n)]
<1>1. DOMAIN s = 1 .. Len(s) /\ Len(s) \in Nat
  OBVIOUS
<1>2. IsFiniteSet(1 .. Len(s))
  BY <1>1, FS_Interval
<1>3. IsFiniteSet(I) /\ I \subseteq Nat
  BY <1>1, <1>2, FS_Subset
<1>4. Cardinality(I) \in Nat
  BY <1>3, FS_CardinalityType
<1>5. \A n \in 1 .. Cardinality(I) : s[Nth(I, n)] \in S
  BY <1>3, NthIs
<1> QED  BY <1>3, <1>4, <1>5 DEF At

(* All positions select the whole.                                          *)
LEMMA AtAll ==
  ASSUME NEW S, NEW s \in Seq(S)
  PROVE  At(s, DOMAIN s) = s
<1> DEFINE I == DOMAIN s
<1>1. I = 1 .. Len(s) /\ Len(s) \in Nat
  OBVIOUS
<1>2. Cardinality(I) = Len(s) /\ IsFiniteSet(I)
  BY <1>1, FS_Interval
<1>3. ASSUME NEW i \in I PROVE Nth(I, i) = i
  <2>1. {k \in I : k <= i} = 1 .. i
    BY <1>1
  <2>2. Rank(I, i) = i
    <3>1. i \in Nat /\ Cardinality(1 .. i) = i
      BY <1>1, FS_Interval
    <3> QED  BY <2>1, <3>1 DEF Rank
  <2>3. I \subseteq Nat
    BY <1>1
  <2> QED  BY <2>2, <2>3, <1>2, NthIs
<1>4. At(s, I) \in Seq(S) /\ Len(At(s, I)) = Len(s)
  BY <1>2, AtIs
<1>5. \A i \in 1 .. Len(s) : At(s, I)[i] = s[i]
  BY <1>1, <1>2, <1>3, AtIs
<1> QED  BY <1>1, <1>4, <1>5, SeqEqual

(* A selection has the elements at its positions, in their order.           *)
LEMMA AtTyped ==
  ASSUME NEW S, NEW s \in Seq(S), NEW I \in SUBSET DOMAIN s, NEW T, \A i \in I : s[i] \in T
  PROVE  At(s, I) \in Seq(T)
<1>1. /\ IsFiniteSet(I) /\ I \subseteq Nat /\ Cardinality(I) \in Nat
  BY AtIs
<1>2. \A n \in 1 .. Cardinality(I) : Nth(I, n) \in I
  BY <1>1, NthIs
<1> QED  BY <1>1, <1>2 DEF At

(* Where an element has got to.                                             *)
LEMMA AtPlace ==
  ASSUME NEW S, NEW s \in Seq(S), NEW I \in SUBSET DOMAIN s
  PROVE  /\ \A n \in DOMAIN At(s, I) : Nth(I, n) \in I /\ At(s, I)[n] = s[Nth(I, n)]
         /\ \A i \in I : Rank(I, i) \in DOMAIN At(s, I) /\ At(s, I)[Rank(I, i)] = s[i]
                         /\ Nth(I, Rank(I, i)) = i
         /\ \A n, k \in DOMAIN At(s, I) : n < k <=> Nth(I, n) < Nth(I, k)
<1> DEFINE N == Cardinality(I)
<1>1. /\ IsFiniteSet(I) /\ I \subseteq Nat /\ N \in Nat /\ At(s, I) \in Seq(S)
      /\ Len(At(s, I)) = N /\ \A n \in 1 .. N : At(s, I)[n] = s[Nth(I, n)]
  BY AtIs
<1>2. DOMAIN At(s, I) = 1 .. N
  BY <1>1
<1>3. /\ \A n \in 1 .. N : Nth(I, n) \in I /\ Rank(I, Nth(I, n)) = n
      /\ \A i \in I : Nth(I, Rank(I, i)) = i
  BY <1>1, NthIs
<1>4. /\ \A i \in I : Rank(I, i) \in 1 .. N
      /\ \A i, j \in I : i < j => Rank(I, i) < Rank(I, j)
  BY <1>1, RankIs
<1> HIDE DEF N
<1>5. ASSUME NEW n \in 1 .. N, NEW k \in 1 .. N
      PROVE  n < k <=> Nth(I, n) < Nth(I, k)
  <2>1. Nth(I, n) \in Nat /\ Nth(I, k) \in Nat /\ n \in Nat /\ k \in Nat
    BY <1>1, <1>3
  <2>2. Nth(I, n) < Nth(I, k) => n < k
    BY <1>3, <1>4
  <2>3. Nth(I, k) < Nth(I, n) => k < n
    BY <1>3, <1>4
  <2>4. Nth(I, k) = Nth(I, n) => k = n
    BY <1>3
  <2> QED  BY <2>1, <2>2, <2>3, <2>4
<1> QED  BY <1>1, <1>2, <1>3, <1>4, <1>5

-----------------------------------------------------------------------------
(* Types of the session store.                                              *)

EntryKinds == {"user", "assistant", "note", "label", "unlabel"}
EntryLine(b) == [kind : EntryKinds, id : 0 .. b, parent : Nat, ref : Nat]
HeaderLine(b) == [kind : {"header"}, id : 0 .. b, session : Files \cup {"none"}, version : {1, Version}]
Line(b)    == EntryLine(b) \cup HeaderLine(b) \cup {Broken}
File(b)    == [lines : Seq(Line(b)), open : BOOLEAN]
Manager(b) ==
  [on : BOOLEAN, file : Files \cup {"none"}, sid : Files \cup {"none"}, entries : Seq(EntryLine(b)),
   leaf : Nat, flushed : BOOLEAN, raised : BOOLEAN]

DiskTypeOK(b) == DOMAIN disk \subseteq Files /\ disk \in [DOMAIN disk -> File(b)]
MgrTypeOK(b)  == mgr \in [Managers -> Manager(b)]

(* What has been flushed is in a file that exists.                          *)
Placed(s, fs) == (s.on => s.file \in Files) /\ (s.flushed => s.on /\ s.file \in fs)

StoreTyped(b) ==
  /\ use \in Uses /\ DiskTypeOK(b) /\ MgrTypeOK(b) /\ tears \in Nat
  /\ \A m \in Managers : Placed(mgr[m], DOMAIN disk)

StoreTypeOK == \E b \in Nat : StoreTyped(b)

(* The lines.                                                               *)
LEMMA LineFacts ==
  ASSUME NEW b \in Nat
  PROVE
  /\ \A e \in Line(b) : /\ e \in EntryLine(b) <=> IsEntry(e)
                        /\ e \in HeaderLine(b) <=> e.kind = "header"
                        /\ e.kind = "broken" <=> e = Broken
                        /\ e.id \in Nat
  /\ Broken \in Line(b)
  /\ \A f \in Files \cup {"none"} : Header(f, Version) \in HeaderLine(b) /\ Header(f, 1) \in HeaderLine(b)
<1>1. \A e \in EntryLine(b) : e.kind \in EntryKinds /\ e.id \in Nat
  BY DEF EntryLine
<1>2. \A e \in HeaderLine(b) : e.kind = "header" /\ e.id \in Nat
  BY DEF HeaderLine
<1>3. Broken.kind = "broken" /\ Broken.id = 0
  BY DEF Broken
<1>4. \A f \in Files \cup {"none"} : Header(f, Version) \in HeaderLine(b) /\ Header(f, 1) \in HeaderLine(b)
  BY DEF Header, HeaderLine
<1>5. ASSUME NEW e \in Line(b)
      PROVE  /\ e \in EntryLine(b) <=> IsEntry(e)
             /\ e \in HeaderLine(b) <=> e.kind = "header"
             /\ e.kind = "broken" <=> e = Broken
             /\ e.id \in Nat
  <2>1. CASE e \in EntryLine(b)
    BY <1>1, <1>2, <1>3, <2>1 DEF IsEntry, EntryKinds
  <2>2. CASE e \in HeaderLine(b)
    BY <1>1, <1>2, <1>3, <2>2 DEF IsEntry, EntryKinds
  <2>3. CASE e = Broken
    BY <1>1, <1>2, <1>3, <2>3 DEF IsEntry, EntryKinds
  <2> QED  BY <2>1, <2>2, <2>3 DEF Line
<1>6. Broken \in Line(b)
  BY DEF Line
<1> QED  BY <1>4, <1>5, <1>6

(* An entry is neither a header nor broken.                                 *)
LEMMA NoHeaderIsEntry ==
  ASSUME NEW b \in Nat, NEW e \in EntryLine(b)
  PROVE  e \in Line(b) /\ e.kind \in EntryKinds /\ e.kind # "header" /\ e.kind # "broken"
  BY DEF EntryLine, EntryKinds, Line

(* What the code makes of a file's lines.                                   *)
LEMMA ValuesType ==
  ASSUME NEW b \in Nat, DiskTypeOK(b), NEW f \in DOMAIN disk
  PROVE  /\ Values(f) \in Seq(Line(b))
         /\ disk[f].lines = <<>> => Values(f) = <<>>
         /\ (\A i \in DOMAIN disk[f].lines : disk[f].lines[i].kind # "broken") => Values(f) = disk[f].lines
         /\ Valid(Values(f)) => Values(f)[1] \in HeaderLine(b)
<1> DEFINE ls == disk[f].lines
           I  == {i \in DOMAIN ls : ls[i].kind # "broken"}
<1>1. ls \in Seq(Line(b))
  BY DEF DiskTypeOK, File
<1>2. I \in SUBSET DOMAIN ls /\ Values(f) = At(ls, I)
  BY DEF Values
<1>3. At(ls, I) \in Seq(Line(b))
  BY <1>1, <1>2, AtIs
<1>4. ls = <<>> => I = DOMAIN ls
  BY <1>1
<1>5. I = DOMAIN ls => At(ls, I) = ls
  BY <1>1, AtAll
<1>6. Valid(Values(f)) => Values(f)[1] \in Line(b) /\ Values(f)[1].kind = "header"
  BY <1>2, <1>3 DEF Valid
<1>7. Valid(Values(f)) => Values(f)[1] \in HeaderLine(b)
  BY <1>6, LineFacts, Zenon
<1>8. \A i \in DOMAIN ls : ls[i] \in Line(b)
  BY <1>1
<1>9. (\A i \in DOMAIN ls : ls[i].kind # "broken") => I = DOMAIN ls
  OBVIOUS
<1> HIDE DEF I
<1> QED  BY <1>2, <1>3, <1>4, <1>5, <1>7, <1>9

(* What is loaded are entries, and the last of them has an id or is none.   *)
LEMMA LoadedType ==
  ASSUME NEW b \in Nat, NEW vs \in Seq(Line(b)), vs # <<>>
  PROVE  Loaded(vs) \in Seq(EntryLine(b)) /\ LastId(Loaded(vs)) \in Nat
<1> DEFINE es == Tail(vs)
           I  == {i \in DOMAIN es : IsEntry(es[i]) /\ es[i].id # 0}
<1>1. es \in Seq(Line(b))
  OBVIOUS
<1>2. I \in SUBSET DOMAIN es /\ Loaded(vs) = At(es, I)
  BY DEF Loaded
<1>3. \A i \in I : es[i] \in EntryLine(b)
  <2>1. \A i \in I : es[i] \in Line(b) /\ IsEntry(es[i])
    BY <1>1
  <2> QED  BY <2>1, LineFacts, Zenon
<1>4. At(es, I) \in Seq(EntryLine(b))
  BY <1>1, <1>2, <1>3, AtTyped
<1> HIDE DEF es, I
<1>5. LastId(Loaded(vs)) \in Nat
  <2>1. Loaded(vs) # <<>> => Loaded(vs)[Len(Loaded(vs))] \in EntryLine(b)
    BY <1>2, <1>4
  <2> QED  BY <2>1 DEF LastId, EntryLine
<1> QED  BY <1>2, <1>4, <1>5

(* A manager that has opened a file: it is on, placed in that file and in   *)
(* step with it.                                                            *)
LEMMA OpenedType ==
  ASSUME NEW b \in Nat, NEW f \in Files, NEW vs \in Seq(Line(b)), Valid(vs)
  PROVE  LET s == Opened(f, vs)
         IN  /\ s \in Manager(b)
             /\ s.on /\ s.file = f /\ s.flushed
             /\ s.entries = Loaded(vs) /\ s.leaf = LastId(Loaded(vs))
<1>1. vs # <<>> /\ vs[1] \in HeaderLine(b)
  <2>1. vs # <<>> /\ vs[1].kind = "header"
    BY DEF Valid
  <2>2. vs[1] \in Line(b)
    BY <2>1
  <2> QED  BY <2>1, <2>2, LineFacts, Zenon
<1>2. Loaded(vs) \in Seq(EntryLine(b)) /\ LastId(Loaded(vs)) \in Nat
  BY <1>1, LoadedType
<1>3. Off \in Manager(b) /\ vs[1].session \in Files \cup {"none"}
  BY <1>1 DEF Off, Manager, HeaderLine
<1> QED  BY <1>2, <1>3 DEF Opened, Manager

(* A manager without entries, or none.                                      *)
LEMMA BlankType ==
  ASSUME NEW b \in Nat
  PROVE
  /\ Off \in Manager(b) /\ ~Off.on /\ ~Off.flushed /\ Off.entries = <<>> /\ Off.leaf = 0
  /\ \A f \in Files :
       /\ Blank(f) \in Manager(b)
       /\ Blank(f).on /\ Blank(f).file = f /\ Blank(f).sid = f /\ ~Blank(f).flushed
       /\ Blank(f).entries = <<>> /\ Blank(f).leaf = 0
<1>1. Off \in Manager(b) /\ ~Off.on /\ ~Off.flushed /\ Off.entries = <<>> /\ Off.leaf = 0
  BY DEF Off, Manager
<1>2. ASSUME NEW f \in Files
      PROVE  /\ Blank(f) \in Manager(b)
             /\ Blank(f).on /\ Blank(f).file = f /\ Blank(f).sid = f
             /\ Blank(f).flushed = Off.flushed /\ Blank(f).entries = Off.entries /\ Blank(f).leaf = Off.leaf
  BY <1>1 DEF Blank, Manager
<1> QED  BY <1>1, <1>2

(* What a write makes of a file.                                            *)
LEMMA ExtendType ==
  ASSUME NEW b \in Nat, NEW file \in File(b), NEW ls \in Seq(Line(b)), NEW open \in BOOLEAN
  PROVE  /\ Extend(file, ls, open) \in File(b)
         /\ IsPrefix(Finished(file), Extend(file, ls, open).lines)
<1> DEFINE old == file.lines
<1>1. old \in Seq(Line(b)) /\ Len(old) \in Nat /\ Broken \in Line(b) /\ file.open \in BOOLEAN
  BY LineFacts DEF File
<1>2. /\ Front(old) \in Seq(Line(b))
      /\ Len(Front(old)) = IF Len(old) = 0 THEN 0 ELSE Len(old) - 1
      /\ \A i \in 1 .. Len(old) - 1 : Front(old)[i] = old[i]
  <2>1. \A i \in 1 .. Len(old) - 1 : old[i] \in Line(b)
    BY <1>1
  <2> QED  BY <1>1, <2>1, SubSeqProperties DEF Front
<1>3. ASSUME NEW s \in Seq(Line(b)), NEW t \in Seq(Line(b)), Len(s) <= Len(t),
             \A i \in 1 .. Len(s) : s[i] = t[i]
      PROVE  IsPrefix(s, t)
  <2>1. SubSeq(t, 1, Len(s)) = s
    <3>1. \A i \in 1 .. Len(s) : t[i] \in Line(b)
      BY <1>3
    <3>2. /\ SubSeq(t, 1, Len(s)) \in Seq(Line(b))
          /\ Len(SubSeq(t, 1, Len(s))) = Len(s)
          /\ \A i \in 1 .. Len(s) : SubSeq(t, 1, Len(s))[i] = t[i]
      BY <3>1, SubSeqProperties
    <3> QED  BY <1>3, <3>2, SeqEqual
  <2>2. SubSeq(s, 1, Len(s)) = s
    BY SubSeqFull
  <2> QED  BY <1>3, <2>1, <2>2 DEF IsPrefix
<1>4. CASE ls = <<>>
  <2>1. Extend(file, ls, open) = file
    BY <1>4 DEF Extend
  <2>2. Finished(file) = IF file.open THEN Front(old) ELSE old
    BY DEF Finished
  <2>3. IsPrefix(Front(old), old)
    <3>1. Len(Front(old)) <= Len(old) /\ \A i \in 1 .. Len(Front(old)) : Front(old)[i] = old[i]
      BY <1>1, <1>2
    <3> QED  BY <1>1, <1>2, <1>3, <3>1
  <2>4. IsPrefix(old, old)
    <3> HIDE DEF old
    <3> QED  BY <1>1, <1>3
  <2> QED  BY <2>1, <2>2, <2>3, <2>4
<1>5. CASE ls # <<>> /\ ~file.open
  <2>1. Extend(file, ls, open) = [lines |-> old \o ls, open |-> open] /\ Finished(file) = old
    BY <1>5 DEF Extend, Finished
  <2>2. old \o ls \in Seq(Line(b)) /\ IsPrefix(old, old \o ls)
    <3> HIDE DEF old
    <3>1. /\ old \o ls \in Seq(Line(b)) /\ Len(old) <= Len(old \o ls)
          /\ \A i \in 1 .. Len(old) : (old \o ls)[i] = old[i]
      BY <1>1
    <3> QED  BY <1>1, <1>3, <3>1
  <2> QED  BY <2>1, <2>2 DEF File
<1>6. CASE ls # <<>> /\ file.open
  <2> DEFINE rest == <<Broken>> \o Tail(ls)
  <2>1. /\ Extend(file, ls, open) = [lines |-> Front(old) \o <<Broken>> \o Tail(ls), open |-> open]
        /\ Finished(file) = Front(old)
    BY <1>6 DEF Extend, Finished
  <2>2. <<Broken>> \in Seq(Line(b)) /\ Tail(ls) \in Seq(Line(b))
    BY <1>1, <1>6
  <2>3. Front(old) \o <<Broken>> \in Seq(Line(b)) /\ Len(Front(old) \o <<Broken>>) = Len(Front(old)) + 1
        /\ \A i \in 1 .. Len(Front(old)) : (Front(old) \o <<Broken>>)[i] = Front(old)[i]
    <3> DEFINE s == Front(old)
               u == <<Broken>>
    <3>1. s \in Seq(Line(b)) /\ u \in Seq(Line(b)) /\ Len(u) = 1
      BY <1>2, <2>2
    <3> HIDE DEF s, u
    <3>2. s \o u \in Seq(Line(b)) /\ Len(s \o u) = Len(s) + 1 /\ \A i \in 1 .. Len(s) : (s \o u)[i] = s[i]
      <4>1. s \o u \in Seq(Line(b)) /\ Len(s \o u) = Len(s) + Len(u)
        BY <3>1, ConcatProperties
      <4>2. \A i \in 1 .. Len(s) : (s \o u)[i] = s[i]
        BY <3>1
      <4> QED  BY <3>1, <4>1, <4>2
    <3> QED  BY <3>2 DEF s, u
  <2>4. (Front(old) \o <<Broken>>) \o Tail(ls) \in Seq(Line(b)) /\ IsPrefix(Front(old), (Front(old) \o <<Broken>>) \o Tail(ls))
    <3> DEFINE s == Front(old)
               t == s \o <<Broken>>
    <3> HIDE DEF s, t
    <3>1. s \in Seq(Line(b)) /\ t \in Seq(Line(b)) /\ Len(t) = Len(s) + 1 /\ \A i \in 1 .. Len(s) : t[i] = s[i]
      BY <1>2, <2>3 DEF s, t
    <3>2. /\ t \o Tail(ls) \in Seq(Line(b)) /\ Len(t \o Tail(ls)) = Len(t) + Len(Tail(ls))
          /\ \A i \in 1 .. Len(s) : (t \o Tail(ls))[i] = t[i]
      BY <2>2, <3>1
    <3>3. Len(s) <= Len(t \o Tail(ls)) /\ \A i \in 1 .. Len(s) : (t \o Tail(ls))[i] = s[i]
      BY <2>2, <3>1, <3>2
    <3>4. IsPrefix(s, t \o Tail(ls))
      BY <1>3, <3>1, <3>2, <3>3
    <3> QED  BY <3>2, <3>4 DEF s, t
  <2> QED  BY <2>1, <2>4 DEF File
<1> QED  BY <1>1, <1>4, <1>5, <1>6

Results(b) == [file : File(b), ok : BOOLEAN, torn : BOOLEAN]

(* A write leaves a file, whose finished lines are those it had and more.   *)
LEMMA WritesType ==
  ASSUME NEW b \in Nat, NEW file \in File(b), NEW ls \in Seq(Line(b)), NEW w \in Writes(file, ls)
  PROVE  /\ w \in Results(b)
         /\ IsPrefix(Finished(file), w.file.lines)
         /\ ~w.torn => w.ok /\ w.file = Extend(file, ls, FALSE)
<1>1. \/ w = Outcome(Extend(file, ls, FALSE), TRUE, FALSE)
      \/ \E n \in 0 .. (Len(ls) - 1) :
           \/ w = Outcome(Extend(file, SubSeq(ls, 1, n), FALSE), FALSE, TRUE)
           \/ w = Outcome(Extend(file, Append(SubSeq(ls, 1, n), Broken), TRUE), FALSE, TRUE)
           \/ w = Outcome(Extend(file, SubSeq(ls, 1, n + 1), TRUE), FALSE, TRUE)
  BY DEF Writes
<1>2. CASE w = Outcome(Extend(file, ls, FALSE), TRUE, FALSE)
  BY <1>2, ExtendType DEF Outcome, Results
<1>3. ASSUME NEW part \in Seq(Line(b)), NEW open \in BOOLEAN, w = Outcome(Extend(file, part, open), FALSE, TRUE)
      PROVE  /\ w \in Results(b) /\ w.torn = TRUE
             /\ IsPrefix(Finished(file), w.file.lines)
  BY <1>3, ExtendType DEF Outcome, Results
<1>4. ASSUME NEW n \in 0 .. (Len(ls) - 1)
      PROVE  /\ SubSeq(ls, 1, n) \in Seq(Line(b)) /\ SubSeq(ls, 1, n + 1) \in Seq(Line(b))
             /\ Append(SubSeq(ls, 1, n), Broken) \in Seq(Line(b))
  <2>1. n \in Int /\ n + 1 \in Int /\ 1 \in Int
        /\ (\A i \in 1 .. n : ls[i] \in Line(b)) /\ (\A i \in 1 .. n + 1 : ls[i] \in Line(b))
    OBVIOUS
  <2>2. SubSeq(ls, 1, n) \in Seq(Line(b)) /\ SubSeq(ls, 1, n + 1) \in Seq(Line(b))
    BY <2>1, SubSeqProperties
  <2> QED  BY <2>2, LineFacts
<1> QED  BY <1>1, <1>2, <1>3, <1>4

(* A set of numbers has a least element.                                    *)
LEMMA LeastNumber ==
  ASSUME NEW S \in SUBSET Nat, S # {}
  PROVE  \E m \in S : \A n \in S : m <= n
<1> DEFINE R == OpToRel(<, Nat)
<1>1. IsWellFoundedOn(R, Nat)
  BY NatLessThanWellFounded
<1>2. \A x, y \in Nat : <<x, y>> \in R <=> x < y
  BY DEF OpToRel
<1> HIDE DEF R
<1>3. PICK m \in S : \A y \in S : ~(<<y, m>> \in R)
  BY <1>1, WFMin
<1>4. ASSUME NEW n \in S
      PROVE  m <= n
  <2>1. n \in Nat /\ m \in Nat /\ ~(n < m)
    BY <1>2, <1>3
  <2> QED  BY <2>1
<1> QED  BY <1>4

-----------------------------------------------------------------------------
(* The way up from an entry to its root.                                    *)

Climb(es, up) ==
  [n \in 0 .. Len(es) |-> [id \in Known(es) |->
     IF n = 0 \/ id \notin IdsOf(es) THEN <<>>
     ELSE Append(up[n - 1][EntryOf(es, id).parent], EntryOf(es, id))]]

Ascent(es) == CHOOSE up : up = Climb(es, up)

(* An id that occurs is that of an entry, whose parent is known.            *)
LEMMA EntryOfIs ==
  ASSUME NEW T, NEW es \in Seq(T), NEW id \in IdsOf(es)
  PROVE  /\ EntryOf(es, id) \in T /\ EntryOf(es, id).id = id
         /\ EntryOf(es, id).parent \in Known(es)
         /\ \E i \in DOMAIN es : EntryOf(es, id) = es[i]
<1> DEFINE i == CHOOSE i \in DOMAIN es : es[i].id = id
<1>1. \E k \in DOMAIN es : es[k].id = id
  BY DEF IdsOf
<1>2. i \in DOMAIN es /\ es[i].id = id
  BY <1>1
<1>3. EntryOf(es, id) = es[i]
  BY DEF EntryOf
<1> HIDE DEF i
<1> QED  BY <1>2, <1>3 DEF Known

(* A branch is the way up of its leaf.                                      *)
LEMMA BranchIs ==
  ASSUME NEW es, NEW leaf
  PROVE  Branch(es, leaf) = Ascent(es)[Len(es)][leaf]
  BY DEF Branch, Ascent, Climb

(* There is such a function: it is built up from the entries at the root.   *)
LEMMA AscentExists ==
  ASSUME NEW T, NEW es \in Seq(T)
  PROVE  Ascent(es) = Climb(es, Ascent(es))
<1> DEFINE N == Len(es)
           K == Known(es)
           Up(m, g) == \A n \in 0 .. m : \A id \in K :
                         g[n][id] = IF n = 0 \/ id \notin IdsOf(es) THEN <<>>
                                    ELSE Append(g[n - 1][EntryOf(es, id).parent], EntryOf(es, id))
           Has0(m) == \E g : Up(m, g)
           Bad == {m \in 0 .. N : ~Has0(m)}
<1>1. N \in Nat
  OBVIOUS
<1>2. Has0(0)
  <2>1. Up(0, [n \in {0} |-> [id \in K |-> <<>>]])
    OBVIOUS
  <2> QED  BY <2>1
<1>3. ASSUME NEW m \in 0 .. N, m # 0, Has0(m - 1)
      PROVE  Has0(m)
  <2>1. PICK g : Up(m - 1, g)
    BY <1>3
  <2> DEFINE h == [n \in 0 .. m |-> [id \in K |->
                    IF n = m THEN (IF id \notin IdsOf(es) THEN <<>>
                                   ELSE Append(g[m - 1][EntryOf(es, id).parent], EntryOf(es, id)))
                    ELSE g[n][id]]]
  <2>2. ASSUME NEW n \in 0 .. m, NEW id \in K
        PROVE  h[n][id] = IF n = 0 \/ id \notin IdsOf(es) THEN <<>>
                                    ELSE Append(h[n - 1][EntryOf(es, id).parent], EntryOf(es, id))
    <3>1. CASE n = m
      <4>1. CASE id \notin IdsOf(es)
        BY <1>3, <3>1, <4>1
      <4>2. CASE id \in IdsOf(es)
        <5>1. EntryOf(es, id).parent \in K
          BY <4>2, EntryOfIs
        <5>2. h[m - 1][EntryOf(es, id).parent] = g[m - 1][EntryOf(es, id).parent]
          BY <1>1, <1>3, <5>1
        <5> QED  BY <1>3, <3>1, <4>2, <5>2
      <4> QED  BY <4>1, <4>2
    <3>2. CASE n # m
      <4>1. n \in 0 .. (m - 1) /\ h[n][id] = g[n][id]
        BY <1>1, <3>2
      <4>2. CASE n = 0 \/ id \notin IdsOf(es)
        BY <2>1, <4>1, <4>2
      <4>3. CASE n # 0 /\ id \in IdsOf(es)
        <5>1. EntryOf(es, id).parent \in K
          BY <4>3, EntryOfIs
        <5>2. h[n - 1][EntryOf(es, id).parent] = g[n - 1][EntryOf(es, id).parent]
          BY <1>1, <4>1, <4>3, <5>1
        <5> QED  BY <2>1, <4>1, <4>3, <5>2
      <4> QED  BY <4>2, <4>3
    <3> QED  BY <3>1, <3>2
  <2> HIDE DEF h
  <2> QED  BY <2>2
<1> HIDE DEF Has0
<1>4. Bad = {}
  <2> SUFFICES ASSUME Bad # {} PROVE FALSE
    OBVIOUS
  <2>1. Bad \in SUBSET Nat
    OBVIOUS
  <2>2. PICK m \in Bad : \A n \in Bad : m <= n
    BY <2>1, LeastNumber, Zenon
  <2>3. m # 0
    BY <1>2
  <2>4. m - 1 \notin Bad /\ m - 1 \in 0 .. N /\ m \in 0 .. N
    BY <1>1, <2>2, <2>3
  <2>5. Has0(m - 1)
    BY <2>4
  <2>6. Has0(m)
    BY <1>3, <2>3, <2>4, <2>5
  <2> QED  BY <2>6
<1>5. Has0(N)
  BY <1>1, <1>4
<1>6. PICK g : Up(N, g)
  BY <1>5 DEF Has0
<1> DEFINE h == [n \in 0 .. N |-> [id \in K |-> g[n][id]]]
<1>7. ASSUME NEW n \in 0 .. N, NEW id \in K
      PROVE  h[n][id] = Climb(es, h)[n][id]
  <2>1. CASE n = 0 \/ id \notin IdsOf(es)
    BY <1>6, <2>1 DEF Climb
  <2>2. CASE n # 0 /\ id \in IdsOf(es)
    <3>1. EntryOf(es, id).parent \in K
      BY <2>2, EntryOfIs
    <3>2. h[n - 1][EntryOf(es, id).parent] = g[n - 1][EntryOf(es, id).parent]
      BY <1>1, <2>2, <3>1
    <3> QED  BY <1>6, <2>2, <3>2 DEF Climb
  <2> QED  BY <2>1, <2>2
<1>8. h = Climb(es, h)
  BY <1>7 DEF Climb
<1> QED  BY <1>8 DEF Ascent

(* The way up from an entry is the one from its parent and the entry.       *)
LEMMA AscentIs ==
  ASSUME NEW T, NEW es \in Seq(T)
  PROVE  \A n \in 0 .. Len(es) : \A id \in Known(es) :
           /\ Ascent(es)[n][id] \in Seq(T)
           /\ n = 0 \/ id \notin IdsOf(es) => Ascent(es)[n][id] = <<>>
           /\ n # 0 /\ id \in IdsOf(es) =>
                /\ n - 1 \in 0 .. Len(es) /\ EntryOf(es, id).parent \in Known(es)
                /\ Ascent(es)[n][id] = Append(Ascent(es)[n - 1][EntryOf(es, id).parent], EntryOf(es, id))
<1> DEFINE up == Ascent(es)
           N  == Len(es)
           Typed(n) == \A id \in Known(es) : up[n][id] \in Seq(T)
           Bad == {n \in 0 .. N : ~Typed(n)}
<1>1. N \in Nat /\ up = Climb(es, up)
  BY AscentExists
<1> HIDE DEF up
<1>2. ASSUME NEW n \in 0 .. N, NEW id \in Known(es)
      PROVE  up[n][id] = IF n = 0 \/ id \notin IdsOf(es) THEN <<>>
                         ELSE Append(up[n - 1][EntryOf(es, id).parent], EntryOf(es, id))
  <2>1. Climb(es, up)[n][id] = IF n = 0 \/ id \notin IdsOf(es) THEN <<>>
                               ELSE Append(up[n - 1][EntryOf(es, id).parent], EntryOf(es, id))
    BY DEF Climb
  <2> QED  BY <1>1, <2>1
<1>8. \A n \in 0 .. N : \A id \in Known(es) : n = 0 \/ id \notin IdsOf(es) => up[n][id] = <<>>
  BY <1>2
<1>9. \A n \in 0 .. N : \A id \in Known(es) : n # 0 /\ id \in IdsOf(es) =>
        up[n][id] = Append(up[n - 1][EntryOf(es, id).parent], EntryOf(es, id))
  BY <1>2
<1>10. <<>> \in Seq(T)
  OBVIOUS
<1>3. Typed(0)
  <2>1. \A id \in Known(es) : up[0][id] = <<>>
    BY <1>1, <1>8
  <2> QED  BY <2>1, <1>10
<1>4. ASSUME NEW n \in 0 .. N, n # 0, Typed(n - 1)
      PROVE  Typed(n)
  <2>1. ASSUME NEW id \in Known(es)
        PROVE  up[n][id] \in Seq(T)
    <3>1. CASE id \notin IdsOf(es)
      BY <1>8, <1>10, <3>1
    <3>2. CASE id \in IdsOf(es)
      <4>1. EntryOf(es, id) \in T /\ EntryOf(es, id).parent \in Known(es)
        BY <3>2, EntryOfIs
      <4>2. up[n - 1][EntryOf(es, id).parent] \in Seq(T)
        BY <1>4, <4>1
      <4>3. up[n][id] = Append(up[n - 1][EntryOf(es, id).parent], EntryOf(es, id))
        BY <1>9, <1>4, <3>2
      <4> HIDE DEF Typed
      <4> QED  BY <4>1, <4>2, <4>3
    <3> QED  BY <3>1, <3>2
  <2> QED  BY <2>1
<1> HIDE DEF Typed
<1>5. Bad = {}
  <2> SUFFICES ASSUME Bad # {} PROVE FALSE
    OBVIOUS
  <2>1. Bad \in SUBSET Nat
    OBVIOUS
  <2>2. PICK n \in Bad : \A k \in Bad : n <= k
    BY <2>1, LeastNumber, Zenon
  <2>3. n # 0
    BY <1>3
  <2>4. n - 1 \notin Bad /\ n - 1 \in 0 .. N /\ n \in 0 .. N
    BY <1>1, <2>2, <2>3
  <2>5. Typed(n)
    BY <1>4, <2>3, <2>4
  <2> QED  BY <2>5
<1>6. ASSUME NEW n \in 0 .. N, NEW id \in Known(es)
      PROVE  up[n][id] \in Seq(T)
  BY <1>5 DEF Typed
<1>7. ASSUME NEW n \in 0 .. N, NEW id \in IdsOf(es), n # 0
      PROVE  n - 1 \in 0 .. N /\ EntryOf(es, id).parent \in Known(es)
  BY <1>1, <1>7, EntryOfIs
<1> QED  BY <1>8, <1>9, <1>6, <1>7 DEF up

(* A branch is made of the entries.                                         *)
LEMMA BranchType ==
  ASSUME NEW T, NEW es \in Seq(T), NEW leaf \in IdsOf(es)
  PROVE  Branch(es, leaf) \in Seq(T)
<1>1. leaf \in Known(es) /\ Len(es) \in 0 .. Len(es)
  BY DEF Known
<1> QED  BY <1>1, AscentIs, BranchIs

-----------------------------------------------------------------------------
(* A bound on the ids.                                                      *)
LEMMA Monotone ==
  ASSUME NEW b \in Nat, NEW c \in Nat, b <= c
  PROVE  /\ EntryLine(b) \subseteq EntryLine(c) /\ Line(b) \subseteq Line(c)
         /\ Seq(EntryLine(b)) \subseteq Seq(EntryLine(c)) /\ Seq(Line(b)) \subseteq Seq(Line(c))
         /\ Seq(EntryLine(b)) \subseteq Seq(Line(c))
         /\ File(b) \subseteq File(c) /\ Manager(b) \subseteq Manager(c)
         /\ DiskTypeOK(b) => DiskTypeOK(c)
         /\ MgrTypeOK(b) => MgrTypeOK(c)
<1>1. EntryLine(b) \subseteq EntryLine(c) /\ HeaderLine(b) \subseteq HeaderLine(c)
  BY DEF EntryLine, HeaderLine
<1>2. Line(b) \subseteq Line(c) /\ EntryLine(b) \subseteq Line(c)
  BY <1>1 DEF Line
<1>3. ASSUME NEW S, NEW T, S \subseteq T
      PROVE  Seq(S) \subseteq Seq(T)
  BY <1>3
<1>4. Seq(EntryLine(b)) \subseteq Seq(EntryLine(c)) /\ Seq(Line(b)) \subseteq Seq(Line(c))
      /\ Seq(EntryLine(b)) \subseteq Seq(Line(c))
  BY <1>1, <1>2, <1>3, Zenon
<1>5. File(b) \subseteq File(c)
  BY <1>4 DEF File
<1>6. Manager(b) \subseteq Manager(c)
  BY <1>4 DEF Manager
<1>7. DiskTypeOK(b) => DiskTypeOK(c)
  BY <1>5 DEF DiskTypeOK
<1>8. MgrTypeOK(b) => MgrTypeOK(c)
  BY <1>6 DEF MgrTypeOK
<1> QED  BY <1>1, <1>2, <1>4, <1>5, <1>6, <1>7, <1>8

(* The finite sets of numbers have a greatest element.                      *)
LEMMA MaxIs ==
  ASSUME NEW I, I \subseteq Nat, IsFiniteSet(I), I # {}
  PROVE  Max(I) \in I /\ \A i \in I : i <= Max(I)
<1> DEFINE N == Cardinality(I)
<1>1. N \in Nat /\ N # 0
  BY FS_CardinalityType, FS_EmptySet
<1>2. N \in 1 .. Cardinality(I)
  BY <1>1
<1> HIDE DEF N
<1>3. Nth(I, N) \in I /\ Rank(I, Nth(I, N)) = N
  BY <1>2, NthIs
<1>4. ASSUME NEW i \in I PROVE i <= Nth(I, N)
  <2>1. Nth(I, N) < i => Rank(I, Nth(I, N)) < Rank(I, i)
    BY <1>3, RankIs
  <2>2. Rank(I, i) \in 1 .. N
    BY RankIs DEF N
  <2>3. ~(Nth(I, N) < i)
    BY <1>1, <1>3, <2>1, <2>2
  <2>4. i \in Nat /\ Nth(I, N) \in Nat
    BY <1>3
  <2> QED  BY <2>3, <2>4
<1>5. \E x \in I : \A y \in I : x >= y
  BY <1>3, <1>4
<1>6. Max(I) \in I /\ \A i \in I : Max(I) >= i
  BY <1>5 DEF Max
<1> QED  BY <1>6

(* A new id is greater than any in a file or a manager.                     *)
LEMMA FreshIs ==
  ASSUME NEW b \in Nat, StoreTyped(b)
  PROVE  /\ Fresh \in 1 .. b + 1
         /\ \A f \in DOMAIN disk : \A i \in DOMAIN disk[f].lines : disk[f].lines[i].id < Fresh
         /\ \A m \in Managers : \A i \in DOMAIN mgr[m].entries : mgr[m].entries[i].id < Fresh
<1> DEFINE U == {0} \cup Used
<1>1. ASSUME NEW f \in DOMAIN disk, NEW i \in DOMAIN disk[f].lines
      PROVE  disk[f].lines[i].id \in 0 .. b
  <2>1. disk[f].lines[i] \in Line(b)
    BY DEF StoreTyped, DiskTypeOK, File
  <2> QED  BY <2>1 DEF Line, EntryLine, HeaderLine, Broken
<1>2. ASSUME NEW m \in Managers, NEW i \in DOMAIN mgr[m].entries
      PROVE  mgr[m].entries[i].id \in 0 .. b
  <2>1. mgr[m].entries[i] \in EntryLine(b)
    BY DEF StoreTyped, MgrTypeOK, Manager
  <2> QED  BY <2>1 DEF EntryLine
<1>3. U \subseteq 0 .. b
  <2>1. \A f \in DOMAIN disk : IdsOf(disk[f].lines) \subseteq 0 .. b
    BY <1>1 DEF IdsOf
  <2>2. \A m \in Managers : IdsOf(mgr[m].entries) \subseteq 0 .. b
    <3> SUFFICES ASSUME NEW m \in Managers, NEW id \in IdsOf(mgr[m].entries)
                 PROVE  id \in 0 .. b
      OBVIOUS
    <3> QED  BY <1>2 DEF IdsOf
  <2>3. Used \subseteq 0 .. b
    <3>1. ASSUME NEW id \in Used
          PROVE  (\E f \in DOMAIN disk : id \in IdsOf(disk[f].lines)) \/
                 (\E m \in Managers : id \in IdsOf(mgr[m].entries))
      BY DEF Used
    <3> QED  BY <2>1, <2>2, <3>1
  <2> QED  BY <2>3
<1>4. IsFiniteSet(0 .. b)
  BY FS_Interval
<1>5. IsFiniteSet(U) /\ U # {} /\ U \subseteq Nat
  BY <1>3, <1>4, FS_Subset
<1>6. Max(U) \in U /\ \A i \in U : i <= Max(U)
  BY <1>5, MaxIs
<1>7. Max(U) \in 0 .. b /\ Fresh = Max(U) + 1
  BY <1>3, <1>6 DEF Fresh
<1>8. \A f \in DOMAIN disk : \A i \in DOMAIN disk[f].lines : disk[f].lines[i].id \in U
  <2>1. \A f \in DOMAIN disk : IdsOf(disk[f].lines) \subseteq U
    BY DEF Used
  <2> HIDE DEF U
  <2> QED  BY <2>1 DEF IdsOf
<1>9. \A m \in Managers : \A i \in DOMAIN mgr[m].entries : mgr[m].entries[i].id \in U
  <2>1. \A m \in Managers : IdsOf(mgr[m].entries) \subseteq U
    <3> DEFINE A == {IdsOf(mgr[k].entries) : k \in Managers}
    <3>1. \A m \in Managers : IdsOf(mgr[m].entries) \in A
      OBVIOUS
    <3>2. UNION A \subseteq U
      BY DEF Used
    <3> HIDE DEF A, U
    <3> QED  BY <3>1, <3>2
  <2> HIDE DEF U
  <2> QED  BY <2>1 DEF IdsOf
<1> HIDE DEF U
<1> QED  BY <1>1, <1>2, <1>6, <1>7, <1>8, <1>9

(* What a call does: a manager becomes s, and either the files stay, or one *)
(* of them is written; a finished line of a file of this version stays.     *)
Current(f) == Valid(Values(f)) /\ Values(f)[1].version = Version

Wrote(c, f, w) ==
  /\ f \in Files /\ w \in Results(c) /\ Store(f, w)
  /\ f \in DOMAIN disk /\ Current(f) => IsPrefix(Finished(disk[f]), w.file.lines)

Ends(c, m, s) ==
  /\ c \in Nat /\ s \in Manager(c) /\ Become(m, s)
  /\ \/ Placed(s, DOMAIN disk) /\ UNCHANGED <<disk, tears>>
     \/ \E f \in Files : \E w \in Results(c) : Wrote(c, f, w) /\ Placed(s, DOMAIN disk \cup {f})

(* A write that is stored changes its file alone.                           *)
LEMMA WriteStep ==
  ASSUME NEW c \in Nat, DiskTypeOK(c), tears \in Nat, NEW f \in Files, NEW w \in Results(c), Store(f, w)
  PROVE  /\ DiskTypeOK(c)' /\ tears' \in Nat
         /\ DOMAIN disk' = DOMAIN disk \cup {f} /\ disk'[f] = w.file
         /\ \A g \in DOMAIN disk : g # f => disk'[g] = disk[g]
         /\ tears' = 0 => tears = 0 /\ ~w.torn
<1>1. /\ disk' = [g \in DOMAIN disk \cup {f} |-> IF g = f THEN w.file ELSE disk[g]]
      /\ tears' = tears + (IF w.torn THEN 1 ELSE 0)
      /\ w.file \in File(c) /\ w.torn \in BOOLEAN
  BY DEF Store, Results
<1>2. \A g \in DOMAIN disk : disk[g] \in File(c)
  BY DEF DiskTypeOK
<1>3. /\ DOMAIN disk' = DOMAIN disk \cup {f} /\ disk'[f] = w.file
      /\ \A g \in DOMAIN disk : g # f => disk'[g] = disk[g]
  BY <1>1
<1>4. disk' \in [DOMAIN disk' -> File(c)]
  BY <1>1, <1>2
<1>5. DiskTypeOK(c)'
  BY <1>3, <1>4 DEF DiskTypeOK
<1>6. tears' \in Nat /\ (tears' = 0 => tears = 0 /\ ~w.torn)
  BY <1>1
<1> QED  BY <1>3, <1>5, <1>6

(* A manager changes alone.                                                 *)
LEMMA BecomeStep ==
  ASSUME NEW c \in Nat, MgrTypeOK(c), NEW m \in Managers, NEW s \in Manager(c), Become(m, s)
  PROVE  /\ MgrTypeOK(c)' /\ mgr'[m] = s
         /\ \A k \in Managers : k # m => mgr'[k] = mgr[k]
  BY DEF MgrTypeOK, Become

(* A call that ends like this keeps the types.                              *)
LEMMA EndsTyped ==
  ASSUME NEW b \in Nat, StoreTyped(b), NEW c \in Nat, b <= c, UNCHANGED use,
         NEW m \in Managers, NEW s \in Manager(c), Ends(c, m, s)
  PROVE  StoreTyped(c)'
<1>1. DiskTypeOK(c) /\ MgrTypeOK(c)
  BY Monotone DEF StoreTyped
<1>2. /\ MgrTypeOK(c)' /\ mgr'[m] = s
      /\ \A k \in Managers : k # m => mgr'[k] = mgr[k]
  BY <1>1, BecomeStep DEF Ends
<1>3. \A k \in Managers : Placed(mgr[k], DOMAIN disk)
  BY DEF StoreTyped
<1>4. CASE Placed(s, DOMAIN disk) /\ UNCHANGED <<disk, tears>>
  <2>1. DiskTypeOK(c)' /\ tears' \in Nat
    BY <1>1, <1>4 DEF DiskTypeOK, StoreTyped
  <2>2. \A k \in Managers : Placed(mgr'[k], DOMAIN disk')
    BY <1>2, <1>3, <1>4
  <2> QED  BY <1>2, <2>1, <2>2 DEF StoreTyped
<1>5. ASSUME NEW f \in Files, NEW w \in Results(c), Wrote(c, f, w), Placed(s, DOMAIN disk \cup {f})
      PROVE  StoreTyped(c)'
  <2>1. Store(f, w) /\ tears \in Nat
    BY <1>5 DEF Wrote, StoreTyped
  <2>2. DiskTypeOK(c)' /\ tears' \in Nat /\ DOMAIN disk' = DOMAIN disk \cup {f}
    BY <1>1, <2>1, WriteStep
  <2>3. \A k \in Managers : Placed(mgr'[k], DOMAIN disk')
    BY <1>2, <1>3, <1>5, <2>2 DEF Placed
  <2> QED  BY <1>2, <2>2, <2>3 DEF StoreTyped
<1> QED  BY <1>4, <1>5 DEF Ends

(* ... and the finished lines of every file of this version.                *)
LEMMA EndsKeep ==
  ASSUME NEW b \in Nat, StoreTyped(b), NEW c \in Nat, b <= c,
         NEW m \in Managers, NEW s \in Manager(c), Ends(c, m, s), NEW f \in DOMAIN disk, Current(f)
  PROVE  f \in DOMAIN disk' /\ IsPrefix(Finished(disk[f]), disk'[f].lines)
<1>1. DiskTypeOK(c) /\ disk[f] \in File(c)
  BY Monotone DEF StoreTyped, DiskTypeOK
<1>2. IsPrefix(Finished(disk[f]), disk[f].lines)
  <2>1. <<>> \in Seq(Line(c)) /\ Extend(disk[f], <<>>, FALSE) = disk[f]
    BY DEF Extend
  <2> QED  BY <1>1, <2>1, ExtendType
<1>3. CASE UNCHANGED <<disk, tears>>
  BY <1>2, <1>3
<1>4. ASSUME NEW g \in Files, NEW w \in Results(c), Wrote(c, g, w)
      PROVE  f \in DOMAIN disk' /\ IsPrefix(Finished(disk[f]), disk'[f].lines)
  <2>1. Store(g, w) /\ tears \in Nat
    BY <1>4 DEF Wrote, StoreTyped
  <2>2. /\ DOMAIN disk' = DOMAIN disk \cup {g} /\ disk'[g] = w.file
        /\ \A h \in DOMAIN disk : h # g => disk'[h] = disk[h]
    BY <1>1, <2>1, WriteStep
  <2>3. CASE f = g
    BY <1>4, <2>2, <2>3 DEF Wrote
  <2>4. CASE f # g
    BY <1>2, <2>2, <2>4
  <2> QED  BY <2>3, <2>4
<1> QED  BY <1>3, <1>4 DEF Ends

Does(b, m) == \E c \in Nat : b <= c /\ \E s \in Manager(c) : Ends(c, m, s)

(* A call that writes nothing.                                              *)
LEMMA QuietDoes ==
  ASSUME NEW b \in Nat, NEW m \in Managers, NEW c \in Nat, b <= c, NEW s \in Manager(c),
         Become(m, s), Placed(s, DOMAIN disk), UNCHANGED <<disk, tears>>
  PROVE  Does(b, m)
  BY DEF Does, Ends

(* A call that writes one file.                                             *)
LEMMA WriteDoes ==
  ASSUME NEW b \in Nat, NEW m \in Managers, NEW c \in Nat, b <= c, NEW s \in Manager(c),
         NEW f \in Files, NEW w \in Results(c), Wrote(c, f, w),
         Become(m, s), Placed(s, DOMAIN disk \cup {f})
  PROVE  Does(b, m)
  BY DEF Does, Ends

(* create, newSession and the end of a process write nothing.               *)
LEMMA StartNewDoes ==
  ASSUME NEW b \in Nat, StoreTyped(b), NEW m \in Managers, StartNew(m) \/ Exit(m)
  PROVE  Does(b, m)
<1>1. CASE Exit(m)
  <2>1. Off \in Manager(b) /\ Placed(Off, DOMAIN disk)
    BY BlankType DEF Placed
  <2> QED  BY <1>1, <2>1, QuietDoes DEF Exit
<1>2. CASE StartNew(m)
  <2>1. PICK f \in Files : Become(m, Blank(f))
    BY <1>2 DEF StartNew
  <2>2. Blank(f) \in Manager(b) /\ Placed(Blank(f), DOMAIN disk)
    BY BlankType DEF Placed
  <2> QED  BY <1>2, <2>1, <2>2, QuietDoes DEF StartNew
<1> QED  BY <1>1, <1>2

(* The state of a manager whose call has failed.                            *)
LEMMA FailedIs ==
  ASSUME NEW c \in Nat, NEW m \in Managers, NEW s \in Manager(c), NEW fs, Placed(s, fs), Failed(m, s)
  PROVE  \E t \in Manager(c) : /\ Become(m, t) /\ Placed(t, fs)
                               /\ t = Off \/ (t.file = s.file /\ t.entries = s.entries /\ t.leaf = s.leaf
                                              /\ t.flushed = s.flushed /\ t.on = s.on)
<1> DEFINE r == [s EXCEPT !.raised = TRUE]
<1>1. r \in Manager(c) /\ r.file = s.file /\ r.entries = s.entries /\ r.leaf = s.leaf
      /\ r.flushed = s.flushed /\ r.on = s.on
  BY DEF Manager
<1>2. Off \in Manager(c) /\ Placed(Off, fs)
  BY BlankType DEF Placed
<1>3. Placed(r, fs)
  BY <1>1 DEF Placed
<1> HIDE DEF r
<1>4. Become(m, r) \/ Become(m, Off)
  BY DEF Failed, r
<1> QED  BY <1>1, <1>2, <1>3, <1>4

(* setSessionFile gives the manager another name for its file.              *)
LEMMA RefileIs ==
  ASSUME NEW c \in Nat, NEW s \in Manager(c), NEW f \in Files, NEW fs, f \in fs, s.flushed => s.on
  PROVE  LET t == [s EXCEPT !.file = f]
         IN  t \in Manager(c) /\ Placed(t, fs) /\ t.entries = s.entries
  BY DEF Manager, Placed

(* An empty file.                                                           *)
LEMMA NoLines ==
  /\ \A c \in Nat : NewFileOf(<<>>) \in File(c)
  /\ \A ls, open : Finished(NewFileOf(<<>>)) = <<>>
  /\ \A ls, open : Extend(NewFileOf(<<>>), ls, open) = IF ls = <<>> THEN NewFileOf(<<>>)
                                                       ELSE [lines |-> <<>> \o ls, open |-> open]
  BY DEF NewFileOf, File, Extend, Finished

(* An empty file is given a header.                                         *)
LEMMA OpenEmptyDoes ==
  ASSUME NEW b \in Nat, StoreTyped(b), NEW m \in Managers, NEW f \in Files, OpenEmpty(m, f)
  PROVE  Does(b, m)
<1>1. PICK w \in Writes(NewFileOf(<<>>), <<Header(f, Version)>>) :
        /\ Store(f, w)
        /\ IF w.ok THEN Become(m, [Blank(f) EXCEPT !.flushed = TRUE])
                   ELSE Failed(m, Blank(f))
  BY DEF OpenEmpty
<1>2. <<Header(f, Version)>> \in Seq(Line(b))
  <2>1. Header(f, Version) \in Line(b)
    BY LineFacts DEF Line
  <2> QED  BY <2>1
<1>3. w \in Results(b)
  BY <1>2, NoLines, WritesType
<1>4. ~Current(f)
  <2>1. f \in DOMAIN disk /\ disk[f].lines = <<>> /\ DiskTypeOK(b)
    BY DEF OpenEmpty, StoreTyped
  <2> QED  BY <2>1, ValuesType DEF Current, Valid
<1>5. Wrote(b, f, w)
  BY <1>1, <1>3, <1>4 DEF Wrote
<1>6. CASE w.ok
  <2> DEFINE s == [Blank(f) EXCEPT !.flushed = TRUE]
  <2>1. s \in Manager(b) /\ Placed(s, DOMAIN disk \cup {f})
    <3>1. Blank(f) \in Manager(b) /\ Blank(f).on /\ Blank(f).file = f
      BY BlankType
    <3>2. s \in Manager(b) /\ s.on = Blank(f).on /\ s.file = Blank(f).file
      BY <3>1 DEF Manager
    <3> HIDE DEF s
    <3> QED  BY <3>1, <3>2 DEF Placed
  <2>2. Become(m, s)
    BY <1>1, <1>6
  <2> HIDE DEF s
  <2> QED  BY <1>3, <1>5, <2>1, <2>2, WriteDoes
<1>7. CASE ~w.ok
  <2>1. Failed(m, Blank(f))
    BY <1>1, <1>7
  <2>2. Blank(f) \in Manager(b) /\ Placed(Blank(f), DOMAIN disk \cup {f})
    BY BlankType DEF Placed
  <2>3. PICK t \in Manager(b) : Become(m, t) /\ Placed(t, DOMAIN disk \cup {f})
    BY <2>1, <2>2, FailedIs
  <2> QED  BY <1>3, <1>5, <2>3, WriteDoes
<1> QED  BY <1>6, <1>7

(* A file that is absent, of this version or refused is left alone.         *)
LEMMA OpenValidDoes ==
  ASSUME NEW b \in Nat, StoreTyped(b), NEW m \in Managers, NEW f \in Files,
         OpenAbsent(m, f) \/ OpenValid(m, f) \/ RefuseFile(m, f)
  PROVE  Does(b, m)
<1>1. CASE OpenAbsent(m, f)
  <2>1. Blank(f) \in Manager(b) /\ Placed(Blank(f), DOMAIN disk)
    BY BlankType DEF Placed
  <2> QED  BY <1>1, <2>1, QuietDoes DEF OpenAbsent
<1>2. CASE OpenValid(m, f)
  <2>1. f \in DOMAIN disk /\ Valid(Values(f)) /\ Values(f) \in Seq(Line(b))
    BY <1>2, ValuesType DEF OpenValid, StoreTyped
  <2>2. Opened(f, Values(f)) \in Manager(b) /\ Placed(Opened(f, Values(f)), DOMAIN disk)
    BY <2>1, OpenedType DEF Placed
  <2> QED  BY <1>2, <2>2, QuietDoes DEF OpenValid
<1>3. CASE RefuseFile(m, f)
  <2>1. f \in DOMAIN disk /\ mgr[m] \in Manager(b) /\ Placed(mgr[m], DOMAIN disk)
    BY <1>3 DEF RefuseFile, StoreTyped, MgrTypeOK
  <2>2. /\ [mgr[m] EXCEPT !.file = f] \in Manager(b)
        /\ Placed([mgr[m] EXCEPT !.file = f], DOMAIN disk)
    BY <2>1, RefileIs DEF Placed
  <2>3. Failed(m, [mgr[m] EXCEPT !.file = f])
    BY <1>3 DEF RefuseFile
  <2>4. PICK t \in Manager(b) : Become(m, t) /\ Placed(t, DOMAIN disk)
    BY <2>2, <2>3, FailedIs
  <2> QED  BY <1>3, <2>4, QuietDoes DEF RefuseFile
<1> QED  BY <1>1, <1>2, <1>3

(* A migrated file: every entry has a new id.                               *)
LEMMA MigratedType ==
  ASSUME NEW b \in Nat, StoreTyped(b), NEW vs \in Seq(Line(b)), vs # <<>>,
         \A i \in DOMAIN vs : vs[i].kind # "broken"
  PROVE  \E c \in Nat :
           /\ b <= c /\ Migrated(vs) \in Seq(Line(c)) /\ Len(Migrated(vs)) = Len(vs)
           /\ Migrated(vs)[1] = [vs[1] EXCEPT !.version = Version]
           /\ \A i \in 2 .. Len(vs) :
                Migrated(vs)[i] = [vs[i] EXCEPT !.id = Fresh + i - 2, !.parent = IF i = 2 THEN 0 ELSE Fresh + i - 3]
<1> DEFINE n == Len(vs) - 1
           c == b + n + 1
           new(i) == [vs[i + 1] EXCEPT !.id = Fresh + i - 1, !.parent = IF i = 1 THEN 0 ELSE Fresh + i - 2]
           rest == [i \in 1 .. n |-> new(i)]
           head == [vs[1] EXCEPT !.version = Version]
<1>1. n \in Nat /\ Len(vs) = n + 1 /\ Fresh \in 1 .. b + 1 /\ c \in Nat /\ b <= c
  BY FreshIs
<1>2. \A i \in 1 .. n + 1 : vs[i] \in EntryLine(b) \cup HeaderLine(b)
  <2>1. \A i \in DOMAIN vs : vs[i] \in Line(b) /\ vs[i].kind # "broken"
    OBVIOUS
  <2>2. \A i \in DOMAIN vs : vs[i] # Broken
    BY <2>1 DEF Broken
  <2> QED  BY <1>1, <2>1, <2>2 DEF Line
<1> HIDE DEF n, c
<1>3. ASSUME NEW e \in EntryLine(b) \cup HeaderLine(b), NEW id \in 0 .. c, NEW parent \in Nat
      PROVE  [e EXCEPT !.id = id, !.parent = parent] \in Line(c)
  <2>1. CASE e \in EntryLine(b)
    <3>1. [e EXCEPT !.id = id, !.parent = parent] \in EntryLine(c)
      BY <1>1, <2>1 DEF EntryLine
    <3> QED  BY <3>1 DEF Line
  <2>2. CASE e \in HeaderLine(b)
    <3>1. [e EXCEPT !.id = id, !.parent = parent] \in HeaderLine(c)
      BY <1>1, <2>2 DEF HeaderLine
    <3> QED  BY <3>1 DEF Line
  <2> QED  BY <2>1, <2>2
<1>4. head \in Line(c)
  <2>1. vs[1] \in EntryLine(b) \cup HeaderLine(b)
    BY <1>1, <1>2
  <2>2. CASE vs[1] \in EntryLine(b)
    <3>1. head \in EntryLine(c)
      BY <1>1, <2>2 DEF EntryLine
    <3> QED  BY <3>1 DEF Line
  <2>3. CASE vs[1] \in HeaderLine(b)
    <3>1. head \in HeaderLine(c)
      BY <1>1, <2>3 DEF HeaderLine, Version
    <3> QED  BY <3>1 DEF Line
  <2> QED  BY <2>1, <2>2, <2>3
<1>5. ASSUME NEW i \in 1 .. n
      PROVE  new(i) \in Line(c)
  <2>1. vs[i + 1] \in EntryLine(b) \cup HeaderLine(b)
    BY <1>1, <1>2
  <2>2. Fresh + i - 1 \in 0 .. c /\ (IF i = 1 THEN 0 ELSE Fresh + i - 2) \in Nat
    BY <1>1 DEF c
  <2> QED  BY <1>3, <2>1, <2>2
<1> HIDE DEF head, new
<1>6. Migrated(vs) = <<head>> \o rest
  BY DEF Migrated, head, new, n
<1>7. rest \in Seq(Line(c)) /\ Len(rest) = n
  BY <1>1, <1>5
<1>8. <<head>> \in Seq(Line(c)) /\ Len(<<head>>) = 1 /\ <<head>>[1] = head
  BY <1>4
<1>9. /\ <<head>> \o rest \in Seq(Line(c)) /\ Len(<<head>> \o rest) = n + 1
      /\ (<<head>> \o rest)[1] = head
      /\ \A i \in 2 .. n + 1 : (<<head>> \o rest)[i] = rest[i - 1]
  <2> DEFINE s == <<head>>
  <2> HIDE DEF s, rest
  <2>1. /\ s \o rest \in Seq(Line(c)) /\ Len(s \o rest) = n + 1
        /\ \A i \in 1 .. Len(s) + Len(rest) : (s \o rest)[i] = IF i <= Len(s) THEN s[i] ELSE rest[i - Len(s)]
    BY <1>1, <1>7, <1>8, ConcatProperties DEF s
  <2>2. (s \o rest)[1] = s[1] /\ \A i \in 2 .. n + 1 : (s \o rest)[i] = rest[i - 1]
    BY <1>1, <1>7, <1>8, <2>1 DEF s
  <2> QED  BY <1>8, <2>1, <2>2 DEF s
<1>10. \A i \in 2 .. n + 1 : rest[i - 1] = new(i - 1)
  BY <1>1
<1>11. \A i \in 2 .. n + 1 : new(i - 1) = [vs[i] EXCEPT !.id = Fresh + i - 2, !.parent = IF i = 2 THEN 0 ELSE Fresh + i - 3]
  <2> SUFFICES ASSUME NEW i \in 2 .. n + 1
               PROVE  new(i - 1) = [vs[i] EXCEPT !.id = Fresh + i - 2, !.parent = IF i = 2 THEN 0 ELSE Fresh + i - 3]
    OBVIOUS
  <2>1. (i - 1) + 1 = i /\ Fresh + (i - 1) - 1 = Fresh + i - 2 /\ (i - 1 = 1 <=> i = 2)
        /\ Fresh + (i - 1) - 2 = Fresh + i - 3
    BY <1>1
  <2> QED  BY <2>1 DEF new
<1>12. \A i \in 2 .. n + 1 : (<<head>> \o rest)[i] = [vs[i] EXCEPT !.id = Fresh + i - 2, !.parent = IF i = 2 THEN 0 ELSE Fresh + i - 3]
  BY <1>9, <1>10, <1>11
<1> DEFINE all == <<head>> \o rest
<1>13. all = Migrated(vs) /\ all[1] = head /\ Len(all) = n + 1 /\ all \in Seq(Line(c))
       /\ \A i \in 2 .. n + 1 : all[i] = [vs[i] EXCEPT !.id = Fresh + i - 2, !.parent = IF i = 2 THEN 0 ELSE Fresh + i - 3]
  BY <1>6, <1>9, <1>12
<1> HIDE DEF all
<1>14. head = [vs[1] EXCEPT !.version = Version]
  BY DEF head
<1> HIDE DEF rest
<1> QED  BY <1>1, <1>13, <1>14

(* The values of a file that has a header.                                  *)
LEMMA LegacyValues ==
  ASSUME NEW b \in Nat, StoreTyped(b), NEW f \in DOMAIN disk, Valid(Values(f))
  PROVE  /\ Values(f) \in Seq(Line(b)) /\ Values(f) # <<>>
         /\ \A i \in DOMAIN Values(f) : Values(f)[i].kind # "broken"
<1> DEFINE ls == disk[f].lines
           I  == {i \in DOMAIN ls : ls[i].kind # "broken"}
<1>1. ls \in Seq(Line(b)) /\ I \in SUBSET DOMAIN ls /\ Values(f) = At(ls, I)
  BY DEF StoreTyped, DiskTypeOK, File, Values
<1>2. \A n \in DOMAIN At(ls, I) : Nth(I, n) \in I /\ At(ls, I)[n] = ls[Nth(I, n)]
  BY <1>1, AtPlace
<1>3. \A n \in DOMAIN At(ls, I) : At(ls, I)[n].kind # "broken"
  BY <1>2
<1> QED  BY <1>1, <1>3, ValuesType DEF StoreTyped, Valid

(* An older file is written again, so none of its lines need stay.          *)
LEMMA OpenLegacyDoes ==
  ASSUME NEW b \in Nat, StoreTyped(b), NEW m \in Managers, NEW f \in Files, OpenLegacy(m, f)
  PROVE  Does(b, m)
<1> DEFINE vs == Values(f)
           new == Migrated(vs)
<1>1. f \in DOMAIN disk /\ Valid(vs) /\ ~Current(f)
  <2>1. f \in DOMAIN disk /\ Valid(vs) /\ vs[1].version < Version
    BY DEF OpenLegacy
  <2> QED  BY <2>1 DEF Current, Version
<1>2. vs \in Seq(Line(b)) /\ vs # <<>> /\ \A i \in DOMAIN vs : vs[i].kind # "broken"
  BY <1>1, LegacyValues
<1>3. PICK w \in Writes(NewFileOf(<<>>), new) :
        /\ Store(f, w)
        /\ IF w.ok THEN Become(m, Opened(f, new)) ELSE Failed(m, [mgr[m] EXCEPT !.file = f])
  BY DEF OpenLegacy
<1>4. vs[1].kind = "header"
  BY <1>1 DEF Valid
<1> HIDE DEF vs
<1>5. PICK c \in Nat : /\ b <= c /\ new \in Seq(Line(c)) /\ Len(new) = Len(vs)
                       /\ new[1] = [vs[1] EXCEPT !.version = Version]
  BY <1>2, MigratedType
<1>6. Valid(new)
  <2>1. vs[1] \in Line(b) /\ new # <<>>
    BY <1>2, <1>5
  <2>2. vs[1] \in HeaderLine(b)
    BY <1>4, <2>1, LineFacts, Zenon
  <2>3. [vs[1] EXCEPT !.version = Version].kind = "header"
    BY <2>2 DEF HeaderLine
  <2> QED  BY <1>5, <2>1, <2>3 DEF Valid
<1> HIDE DEF new
<1>7. w \in Results(c)
  BY <1>3, <1>5, NoLines, WritesType
<1>8. Wrote(c, f, w)
  BY <1>1, <1>3, <1>7 DEF Wrote
<1>9. CASE w.ok
  <2>1. Opened(f, new) \in Manager(c) /\ Placed(Opened(f, new), DOMAIN disk \cup {f})
    BY <1>5, <1>6, OpenedType DEF Placed
  <2>2. Become(m, Opened(f, new))
    BY <1>3, <1>9
  <2> QED  BY <1>5, <1>7, <1>8, <2>1, <2>2, WriteDoes
<1>10. CASE ~w.ok
  <2>1. Failed(m, [mgr[m] EXCEPT !.file = f])
    BY <1>3, <1>10
  <2>2. mgr[m] \in Manager(c) /\ (mgr[m].flushed => mgr[m].on)
    BY <1>5, Monotone DEF StoreTyped, MgrTypeOK, Placed
  <2>3. /\ [mgr[m] EXCEPT !.file = f] \in Manager(c)
        /\ Placed([mgr[m] EXCEPT !.file = f], DOMAIN disk \cup {f})
    BY <2>2, RefileIs
  <2>4. PICK t \in Manager(c) : Become(m, t) /\ Placed(t, DOMAIN disk \cup {f})
    BY <2>1, <2>3, FailedIs
  <2> QED  BY <1>5, <1>7, <1>8, <2>4, WriteDoes
<1> QED  BY <1>9, <1>10

(* The elements of a finite set, each once.                                 *)
LEMMA SetToSeqIs ==
  ASSUME NEW S, IsFiniteSet(S)
  PROVE  /\ SetToSeq(S) \in Seq(S) /\ Cardinality(S) \in Nat /\ Len(SetToSeq(S)) = Cardinality(S)
         /\ \A i, j \in 1 .. Cardinality(S) : SetToSeq(S)[i] = SetToSeq(S)[j] => i = j
         /\ \A x \in S : \E i \in 1 .. Cardinality(S) : SetToSeq(S)[i] = x
<1> DEFINE N == Cardinality(S)
           f == SetToSeq(S)
<1>1. N \in Nat /\ ExistsBijection(1 .. N, S)
  BY FS_CardinalityType
<1>2. \E g \in [1 .. N -> S] : IsInjective(g)
  BY <1>1 DEF ExistsBijection, Bijection, Injection
<1>3. f \in [1 .. N -> S] /\ IsInjective(f)
  BY <1>2, Zenon DEF SetToSeq
<1> HIDE DEF f
<1>4. IsFiniteSet(1 .. N) /\ Cardinality(1 .. N) = N
  BY <1>1, FS_Interval
<1>5. f \in Injection(1 .. N, S)
  BY <1>3 DEF Injection
<1>6. f \in Surjection(1 .. N, S)
  BY <1>4, <1>5, FS_Injection
<1>7. \A x \in S : \E i \in 1 .. N : f[i] = x
  BY <1>6 DEF Surjection
<1>8. f \in Seq(S) /\ Len(f) = N
  BY <1>1, <1>3
<1>9. \A i, j \in 1 .. N : f[i] = f[j] => i = j
  BY <1>3 DEF IsInjective
<1> QED  BY <1>1, <1>7, <1>8, <1>9 DEF f

(* The entries that are no labels.                                          *)
LEMMA UnlabelledIs ==
  ASSUME NEW T, NEW es \in Seq(T)
  PROVE  /\ Unlabelled(es) \in Seq(T)
         /\ \A i \in DOMAIN Unlabelled(es) : ~IsLabel(Unlabelled(es)[i])
         /\ IdsOf(Unlabelled(es)) \subseteq IdsOf(es)
<1> DEFINE I == {i \in DOMAIN es : ~IsLabel(es[i])}
<1>1. I \in SUBSET DOMAIN es /\ Unlabelled(es) = At(es, I)
  BY DEF Unlabelled
<1>2. At(es, I) \in Seq(T)
  BY <1>1, AtIs
<1>3. \A n \in DOMAIN At(es, I) : Nth(I, n) \in I /\ At(es, I)[n] = es[Nth(I, n)]
  BY <1>1, AtPlace
<1>4. \A n \in DOMAIN At(es, I) : ~IsLabel(At(es, I)[n])
  BY <1>3
<1>5. \A n \in DOMAIN At(es, I) : \E i \in DOMAIN es : At(es, I)[n] = es[i]
  BY <1>3
<1> HIDE DEF I
<1> QED  BY <1>1, <1>2, <1>4, <1>5 DEF IdsOf

(* The ids of a session are finitely many.                                  *)
LEMMA IdsFinite ==
  ASSUME NEW T, NEW es \in Seq(T)
  PROVE  IsFiniteSet(IdsOf(es))
<1>1. IsFiniteSet(DOMAIN es)
  BY FS_Interval
<1> DEFINE f == [i \in DOMAIN es |-> es[i].id]
<1>2. f \in Surjection(DOMAIN es, IdsOf(es))
  BY DEF IdsOf, Surjection
<1> QED  BY <1>1, <1>2, FS_Surjection

(* The parts of a branched session.                                         *)
Unmarked(es, leaf) == Unlabelled(Branch(es, leaf))
Targets(es, leaf)  == SetToSeq(KeptLabels(es, Branch(es, leaf), Unmarked(es, leaf)))
NewLabels(es, leaf) == [i \in DOMAIN Targets(es, leaf) |-> Label("label", Fresh + i - 1, 0, Targets(es, leaf)[i])]

(* A branched session keeps entries of its source that are no labels, and   *)
(* has a target for each label it keeps.                                    *)
LEMMA PartsIs ==
  ASSUME NEW b \in Nat, StoreTyped(b), NEW es \in Seq(EntryLine(b)), NEW leaf \in IdsOf(es)
  PROVE  LET r == Unmarked(es, leaf)
             t == Targets(es, leaf)
             K == Labelled(es) \cap IdsOf(r)
         IN  /\ r \in Seq(EntryLine(b)) /\ IdsOf(r) \subseteq IdsOf(es)
             /\ \A i \in DOMAIN r : ~IsLabel(r[i])
             /\ t \in Seq(K)
             /\ \A x \in K : \E i \in DOMAIN t : t[i] = x
             /\ \A x \in K : x \in Nat
<1> DEFINE r == Unmarked(es, leaf)
           t == Targets(es, leaf)
           K == Labelled(es) \cap IdsOf(r)
<1>1. Branch(es, leaf) \in Seq(EntryLine(b))
  BY BranchType
<1>2. /\ r \in Seq(EntryLine(b)) /\ IdsOf(r) \subseteq IdsOf(Branch(es, leaf))
      /\ \A i \in DOMAIN r : ~IsLabel(r[i])
  BY <1>1, UnlabelledIs DEF Unmarked
<1>3. IsFiniteSet(K)
  BY <1>2, IdsFinite, FS_Subset
<1>4. t = SetToSeq(K)
  BY DEF Targets, KeptLabels
<1> HIDE DEF r, K, t
<1>5. t \in Seq(K) /\ \A x \in K : \E i \in DOMAIN t : t[i] = x
  BY <1>3, <1>4, SetToSeqIs
<1>6. \A x \in K : x \in Nat /\ x \in IdsOf(es)
  <2>1. \A i \in DOMAIN es : es[i] \in EntryLine(b)
    OBVIOUS
  <2>2. \A i \in DOMAIN es : es[i].id \in Nat
    BY <2>1 DEF EntryLine
  <2> QED  BY <2>2 DEF K, Labelled, IdsOf
<1>7. IdsOf(r) \subseteq IdsOf(es)
  <2> DEFINE T == {es[i] : i \in DOMAIN es}
  <2>1. es \in Seq(T)
    OBVIOUS
  <2>2. Branch(es, leaf) \in Seq(T)
    BY <2>1, BranchType
  <2>3. \A i \in DOMAIN Branch(es, leaf) : Branch(es, leaf)[i] \in T
    BY <2>2
  <2>4. IdsOf(Branch(es, leaf)) \subseteq IdsOf(es)
    BY <2>3 DEF IdsOf
  <2> QED  BY <1>2, <2>4
<1> QED  BY <1>2, <1>5, <1>6, <1>7 DEF r, K, t

(* A branched session, entry by entry: those it keeps, then its labels,     *)
(* each the child of the one before it.                                     *)
LEMMA BranchedIs ==
  ASSUME NEW b \in Nat, StoreTyped(b), NEW es \in Seq(EntryLine(b)), NEW leaf \in IdsOf(es)
  PROVE  LET r == Unmarked(es, leaf)
             t == Targets(es, leaf)
             new == Branched(es, leaf)
         IN  /\ Len(r) \in Nat /\ Len(t) \in Nat
             /\ Len(new) = Len(r) + Len(t)
             /\ \A i \in 1 .. Len(r) : /\ new[i].kind = r[i].kind /\ new[i].id = r[i].id
                                       /\ new[i].ref = r[i].ref
             /\ \A i \in 1 .. Len(t) : LET e == new[Len(r) + i]
                                       IN  e.kind = "label" /\ e.id = Fresh + i - 1 /\ e.ref = t[i]
             /\ \A i \in 1 .. Len(r) + Len(t) : new[i].parent = IF i = 1 THEN 0 ELSE new[i - 1].id
             /\ \E c \in Nat : b <= c /\ new \in Seq(EntryLine(c))
<1> DEFINE r == Unmarked(es, leaf)
           t == Targets(es, leaf)
           l == NewLabels(es, leaf)
           c == b + Len(t) + 1
           new == Branched(es, leaf)
<1>1. /\ r \in Seq(EntryLine(b)) /\ Len(r) \in Nat /\ Len(t) \in Nat
      /\ \A i \in 1 .. Len(t) : t[i] \in Nat
      /\ DOMAIN t = 1 .. Len(t)
  <2> DEFINE K == Labelled(es) \cap IdsOf(r)
  <2>1. r \in Seq(EntryLine(b)) /\ t \in Seq(K) /\ \A x \in K : x \in Nat
    BY PartsIs
  <2> HIDE DEF r, t, K
  <2>2. \A i \in DOMAIN t : t[i] \in K
    BY <2>1
  <2> QED  BY <2>1, <2>2
<1>2. Fresh \in 1 .. b + 1
  BY FreshIs
<1>3. c \in Nat /\ b <= c
  BY <1>1
<1>4. new = Chain(r \o l)
  BY DEF Branched, Unmarked, Targets, NewLabels
<1> HIDE DEF r, t, new
<1>5. ASSUME NEW i \in 1 .. Len(t)
      PROVE  l[i] \in EntryLine(c) /\ l[i].kind = "label" /\ l[i].id = Fresh + i - 1 /\ l[i].ref = t[i]
  <2>1. l[i] = Label("label", Fresh + i - 1, 0, t[i])
    BY <1>1 DEF NewLabels, t
  <2>2. Fresh + i - 1 \in 0 .. c /\ t[i] \in Nat
    BY <1>1, <1>2
  <2> QED  BY <2>1, <2>2 DEF Label, EntryLine, EntryKinds
<1>6. l \in Seq(EntryLine(c)) /\ Len(l) = Len(t)
  <2>1. DOMAIN l = 1 .. Len(t) /\ l = [i \in 1 .. Len(t) |-> l[i]]
    BY <1>1 DEF NewLabels, t
  <2> HIDE DEF l
  <2> QED  BY <1>1, <1>5, <2>1
<1>7. r \in Seq(EntryLine(c))
  BY <1>1, <1>3, Monotone
<1> HIDE DEF c, l
<1> DEFINE all == r \o l
<1>8. /\ all \in Seq(EntryLine(c)) /\ Len(all) = Len(r) + Len(t)
      /\ \A i \in 1 .. Len(r) + Len(l) : all[i] = IF i <= Len(r) THEN r[i] ELSE l[i - Len(r)]
  <2>1. /\ r \o l \in Seq(EntryLine(c)) /\ Len(r \o l) = Len(r) + Len(l)
        /\ \A i \in 1 .. Len(r) + Len(l) : (r \o l)[i] = IF i <= Len(r) THEN r[i] ELSE l[i - Len(r)]
    BY <1>6, <1>7, ConcatProperties
  <2> QED  BY <1>6, <2>1
<1>9. \A i \in 1 .. Len(r) : all[i] = r[i]
  BY <1>1, <1>6, <1>8
<1>10. \A i \in 1 .. Len(t) : all[Len(r) + i] = l[i]
  BY <1>1, <1>6, <1>8
<1> HIDE DEF all
<1>11. new = [i \in 1 .. Len(r) + Len(t) |-> [all[i] EXCEPT !.parent = IF i = 1 THEN 0 ELSE all[i - 1].id]]
  <2>1. new = Chain(all)
    BY <1>4 DEF all
  <2>2. DOMAIN all = 1 .. Len(r) + Len(t)
    BY <1>8
  <2> QED  BY <2>1, <2>2 DEF Chain
<1>12. ASSUME NEW i \in 1 .. Len(r) + Len(t)
       PROVE  /\ new[i] \in EntryLine(c)
              /\ new[i].kind = all[i].kind /\ new[i].id = all[i].id /\ new[i].ref = all[i].ref
              /\ new[i].parent = IF i = 1 THEN 0 ELSE all[i - 1].id
  <2>1. all[i] \in EntryLine(c)
    BY <1>8
  <2>2. (IF i = 1 THEN 0 ELSE all[i - 1].id) \in Nat
    <3>1. i # 1 => all[i - 1] \in EntryLine(c)
      BY <1>1, <1>8
    <3> QED  BY <3>1 DEF EntryLine
  <2>3. new[i] = [all[i] EXCEPT !.parent = IF i = 1 THEN 0 ELSE all[i - 1].id]
    BY <1>11
  <2> QED  BY <2>1, <2>2, <2>3 DEF EntryLine
<1>13. new \in Seq(EntryLine(c)) /\ Len(new) = Len(r) + Len(t)
  BY <1>1, <1>11, <1>12
<1>14. \A i \in 1 .. Len(r) : new[i].kind = r[i].kind /\ new[i].id = r[i].id /\ new[i].ref = r[i].ref
  BY <1>1, <1>9, <1>12
<1>15. ASSUME NEW i \in 1 .. Len(t)
       PROVE  LET e == new[Len(r) + i] IN e.kind = "label" /\ e.id = Fresh + i - 1 /\ e.ref = t[i]
  <2>1. Len(r) + i \in 1 .. Len(r) + Len(t)
    BY <1>1
  <2> QED  BY <1>5, <1>10, <1>12, <2>1
<1>16. ASSUME NEW i \in 1 .. Len(r) + Len(t)
       PROVE  new[i].parent = IF i = 1 THEN 0 ELSE new[i - 1].id
  <2>1. i # 1 => i - 1 \in 1 .. Len(r) + Len(t)
    BY <1>1
  <2> QED  BY <1>12, <2>1
<1>17. \E d \in Nat : b <= d /\ new \in Seq(EntryLine(d))
  BY <1>3, <1>13
<1> QED  BY <1>1, <1>13, <1>14, <1>15, <1>16, <1>17 DEF r, t, new

(* The lines of a file that is written whole.                               *)
LEMMA HeadedIs ==
  ASSUME NEW c \in Nat, NEW f \in Files \cup {"none"}, NEW es \in Seq(Line(c))
  PROVE  LET ls == <<Header(f, Version)>> \o es
         IN  /\ ls \in Seq(Line(c)) /\ Len(ls) = Len(es) + 1
             /\ ls[1] = Header(f, Version)
             /\ \A i \in 1 .. Len(es) : ls[i + 1] = es[i]
             /\ Tail(ls) = es /\ Valid(ls) /\ ls # <<>>
<1> DEFINE h == <<Header(f, Version)>>
<1>1. Header(f, Version) \in Line(c) /\ Header(f, Version).kind = "header"
  BY LineFacts DEF Line, Header
<1>2. h \in Seq(Line(c)) /\ Len(h) = 1 /\ h[1] = Header(f, Version)
  BY <1>1
<1> HIDE DEF h
<1>3. /\ h \o es \in Seq(Line(c)) /\ Len(h \o es) = Len(es) + 1
      /\ \A i \in 1 .. Len(h) + Len(es) : (h \o es)[i] = IF i <= Len(h) THEN h[i] ELSE es[i - Len(h)]
  <2>1. /\ h \o es \in Seq(Line(c)) /\ Len(h \o es) = Len(h) + Len(es)
        /\ \A i \in 1 .. Len(h) + Len(es) : (h \o es)[i] = IF i <= Len(h) THEN h[i] ELSE es[i - Len(h)]
    BY <1>2, ConcatProperties
  <2> QED  BY <1>2, <2>1
<1>4. Len(es) \in Nat
  OBVIOUS
<1>5. (h \o es)[1] = h[1] /\ \A i \in 1 .. Len(es) : (h \o es)[i + 1] = es[i]
  BY <1>2, <1>3, <1>4
<1> DEFINE ls == h \o es
<1> HIDE DEF ls
<1>6. ls \in Seq(Line(c)) /\ Len(ls) = Len(es) + 1 /\ ls # <<>> /\ ls[1] = h[1]
      /\ \A i \in 1 .. Len(es) : ls[i + 1] = es[i]
  BY <1>3, <1>4, <1>5 DEF ls
<1>7. Tail(ls) \in Seq(Line(c)) /\ Len(Tail(ls)) = Len(es) /\ \A i \in 1 .. Len(es) : Tail(ls)[i] = ls[i + 1]
  BY <1>4, <1>6
<1>8. Tail(ls) = es
  BY <1>6, <1>7, SeqEqual
<1> QED  BY <1>1, <1>2, <1>6, <1>8 DEF ls, h, Valid

(* A fork writes a new file.                                                *)
LEMMA ForkFromDoes ==
  ASSUME NEW b \in Nat, StoreTyped(b), NEW m \in Managers, NEW src \in Files, NEW f \in Files,
         ForkFrom(m, src, f)
  PROVE  Does(b, m)
<1> DEFINE vs == Values(src)
           copy == <<Header(f, Version)>> \o ForkCopy(vs)
<1>1. vs \in Seq(Line(b)) /\ vs # <<>>
  BY LegacyValues DEF ForkFrom
<1>2. ForkCopy(vs) \in Seq(Line(b))
  BY <1>1 DEF ForkCopy
<1>3. copy \in Seq(Line(b)) /\ Valid(copy)
  BY <1>2, HeadedIs
<1>4. PICK w \in Writes(NewFileOf(<<>>), copy) :
        Store(f, w) /\ Become(m, IF w.ok THEN Opened(f, copy) ELSE Off)
  BY DEF ForkFrom
<1> HIDE DEF copy, vs
<1>5. w \in Results(b)
  BY <1>3, <1>4, NoLines, WritesType
<1>6. Wrote(b, f, w)
  BY <1>4, <1>5 DEF Wrote, ForkFrom, Unnamed
<1>7. Opened(f, copy) \in Manager(b) /\ Placed(Opened(f, copy), DOMAIN disk \cup {f})
  BY <1>3, OpenedType DEF Placed
<1>8. Off \in Manager(b) /\ Placed(Off, DOMAIN disk \cup {f})
  BY BlankType DEF Placed
<1>9. CASE w.ok
  BY <1>4, <1>5, <1>6, <1>7, <1>9, WriteDoes
<1>10. CASE ~w.ok
  BY <1>4, <1>5, <1>6, <1>8, <1>10, WriteDoes
<1> QED  BY <1>9, <1>10

(* What an append makes of a manager.                                       *)
After(s, e, flushed, raised) ==
  [s EXCEPT !.entries = Append(s.entries, e), !.leaf = e.id, !.flushed = flushed, !.raised = raised]

(* A manager after an append.                                               *)
LEMMA AfterIs ==
  ASSUME NEW b \in Nat, NEW c \in Nat, b <= c, NEW s \in Manager(b), NEW e \in EntryLine(c),
         NEW flushed \in BOOLEAN, NEW raised \in BOOLEAN
  PROVE  LET t == After(s, e, flushed, raised)
         IN  /\ t \in Manager(c)
             /\ t.on = s.on /\ t.file = s.file /\ t.sid = s.sid /\ t.flushed = flushed
             /\ t.entries = Append(s.entries, e) /\ t.leaf = e.id
<1>1. s \in Manager(c) /\ s.entries \in Seq(EntryLine(c)) /\ e.id \in Nat
  <2>1. s \in Manager(c)
    BY Monotone
  <2> QED  BY <2>1 DEF Manager, EntryLine
<1>2. Append(s.entries, e) \in Seq(EntryLine(c))
  BY <1>1
<1> DEFINE es == Append(s.entries, e)
<1> HIDE DEF es
<1>3. [s EXCEPT !.entries = es, !.leaf = e.id, !.flushed = flushed, !.raised = raised] \in Manager(c)
  BY <1>1, <1>2 DEF Manager, es
<1> QED  BY <1>1, <1>3 DEF After, Manager, es

(* An append is an append to memory alone, a line added to the file, or the *)
(* first write of it.                                                       *)
LEMMA AppendIs ==
  ASSUME NEW m \in Managers, NEW e, AppendEntry(m, e)
  PROVE  LET s == mgr[m]
             es == Append(s.entries, e)
         IN  /\ s.on
             /\ \/ Waits(s, es) /\ Become(m, After(s, e, s.flushed, FALSE)) /\ UNCHANGED <<disk, tears>>
                \/ /\ s.flushed
                   /\ \E w \in Writes(disk[s.file], <<e>>) :
                        Store(s.file, w) /\ Become(m, After(s, e, s.flushed \/ w.ok, ~w.ok))
                \/ /\ ~s.flushed /\ ~Waits(s, es)
                   /\ \E w \in Flush(s, es) :
                        Store(s.file, w) /\ Become(m, After(s, e, s.flushed \/ w.ok, ~w.ok))
<1> QED  BY DEF AppendEntry, After

(* A flush writes a new file, or nothing.                                   *)
LEMMA FlushType ==
  ASSUME NEW b \in Nat, StoreTyped(b), NEW c \in Nat, b <= c, NEW s \in Manager(b),
         NEW es \in Seq(EntryLine(c)), NEW w \in Flush(s, es)
  PROVE  /\ w \in Results(c)
         /\ s.file \in DOMAIN disk => w.file = disk[s.file] /\ ~w.ok /\ ~w.torn
         /\ s.file \notin DOMAIN disk => w \in Writes(NewFileOf(<<>>), <<Header(s.sid, Version)>> \o es)
<1>1. CASE s.file \in DOMAIN disk
  <2>1. w = Outcome(disk[s.file], FALSE, FALSE)
    BY <1>1 DEF Flush
  <2>2. disk[s.file] \in File(c)
    BY <1>1, Monotone DEF StoreTyped, DiskTypeOK
  <2> QED  BY <1>1, <2>1, <2>2 DEF Outcome, Results
<1>2. CASE s.file \notin DOMAIN disk
  <2>1. w \in Writes(NewFileOf(<<>>), <<Header(s.sid, Version)>> \o es)
    BY <1>2 DEF Flush
  <2>2. s.sid \in Files \cup {"none"} /\ es \in Seq(Line(c))
    BY Monotone DEF Manager
  <2>3. <<Header(s.sid, Version)>> \o es \in Seq(Line(c))
    BY <2>2, HeadedIs
  <2>4. w \in Results(c)
    BY <2>1, <2>3, NoLines, WritesType
  <2> QED  BY <1>2, <2>1, <2>4
<1> QED  BY <1>1, <1>2

(* An append writes the file of the manager, or nothing.                    *)
LEMMA AppendEntryDoes ==
  ASSUME NEW b \in Nat, StoreTyped(b), NEW m \in Managers, NEW e \in EntryLine(b + 1), AppendEntry(m, e)
  PROVE  Does(b, m)
<1> DEFINE s == mgr[m]
           es == Append(s.entries, e)
           c == b + 1
<1>1. s \in Manager(b) /\ Placed(s, DOMAIN disk) /\ DiskTypeOK(b)
  BY DEF StoreTyped, MgrTypeOK
<1>2. c \in Nat /\ b <= c /\ e \in EntryLine(c)
  OBVIOUS
<1>3. s.on /\ s.file \in Files /\ s.flushed \in BOOLEAN
  BY <1>1, AppendIs DEF Placed, Manager
<1>4. es \in Seq(EntryLine(c))
  <2>1. s.entries \in Seq(EntryLine(c))
    BY <1>1, <1>2, Monotone DEF Manager
  <2> QED  BY <1>2, <2>1
<1> HIDE DEF s, c
<1>5. ASSUME NEW flushed \in BOOLEAN, NEW raised \in BOOLEAN, NEW fs, flushed => s.file \in fs
      PROVE  After(s, e, flushed, raised) \in Manager(c) /\ Placed(After(s, e, flushed, raised), fs)
  BY <1>1, <1>2, <1>3, <1>5, AfterIs DEF Placed
<1>6. CASE Become(m, After(s, e, s.flushed, FALSE)) /\ UNCHANGED <<disk, tears>>
  <2>1. s.flushed => s.file \in DOMAIN disk
    BY <1>1 DEF Placed
  <2>2. After(s, e, s.flushed, FALSE) \in Manager(c) /\ Placed(After(s, e, s.flushed, FALSE), DOMAIN disk)
    BY <1>3, <1>5, <2>1
  <2> QED  BY <1>2, <1>6, <2>2, QuietDoes
<1>7. ASSUME NEW w \in Results(c), Wrote(c, s.file, w), Become(m, After(s, e, s.flushed \/ w.ok, ~w.ok))
      PROVE  Does(b, m)
  <2> DEFINE t == After(s, e, s.flushed \/ w.ok, ~w.ok)
  <2>1. w.ok \in BOOLEAN
    BY DEF Results
  <2>2. t \in Manager(c) /\ Placed(t, DOMAIN disk \cup {s.file})
    BY <1>3, <1>5, <2>1
  <2>3. Become(m, t)
    BY <1>7
  <2> HIDE DEF t
  <2> QED  BY <1>2, <1>3, <1>7, <2>2, <2>3, WriteDoes
<1>8. CASE /\ s.flushed
           /\ \E w \in Writes(disk[s.file], <<e>>) :
                Store(s.file, w) /\ Become(m, After(s, e, s.flushed \/ w.ok, ~w.ok))
  <2>1. PICK w \in Writes(disk[s.file], <<e>>) :
          Store(s.file, w) /\ Become(m, After(s, e, s.flushed \/ w.ok, ~w.ok))
    BY <1>8
  <2>2. disk[s.file] \in File(c)
    BY <1>1, <1>2, <1>8, Monotone DEF Placed, DiskTypeOK
  <2>3. <<e>> \in Seq(Line(c))
    BY <1>2 DEF Line
  <2>4. w \in Results(c) /\ IsPrefix(Finished(disk[s.file]), w.file.lines)
    BY <1>2, <2>1, <2>2, <2>3, WritesType
  <2>5. Wrote(c, s.file, w)
    BY <1>3, <2>1, <2>4 DEF Wrote
  <2> QED  BY <1>7, <2>1, <2>4, <2>5
<1>9. CASE \E w \in Flush(s, es) :
             Store(s.file, w) /\ Become(m, After(s, e, s.flushed \/ w.ok, ~w.ok))
  <2>1. PICK w \in Flush(s, es) :
          Store(s.file, w) /\ Become(m, After(s, e, s.flushed \/ w.ok, ~w.ok))
    BY <1>9
  <2>2. /\ w \in Results(c)
        /\ s.file \in DOMAIN disk => w.file = disk[s.file]
    <3> HIDE DEF es
    <3>1. s \in Manager(b) /\ c \in Nat /\ b <= c /\ es \in Seq(EntryLine(c)) /\ w \in Flush(s, es)
      BY <1>1, <1>2, <1>4, <2>1
    <3>2. w \in Results(c)
      BY <3>1, FlushType
    <3>3. s.file \in DOMAIN disk => w = Outcome(disk[s.file], FALSE, FALSE)
      BY <3>1 DEF Flush
    <3> QED  BY <3>2, <3>3 DEF Outcome
  <2>3. s.file \in DOMAIN disk => IsPrefix(Finished(disk[s.file]), disk[s.file].lines)
    <3> HAVE s.file \in DOMAIN disk
    <3>1. disk[s.file] \in File(b) /\ <<>> \in Seq(Line(b))
      BY <1>1 DEF DiskTypeOK
    <3>2. Extend(disk[s.file], <<>>, FALSE) = disk[s.file]
      BY DEF Extend
    <3> QED  BY <3>1, <3>2, ExtendType
  <2>4. Wrote(c, s.file, w)
    BY <1>3, <2>1, <2>2, <2>3 DEF Wrote
  <2> QED  BY <1>7, <2>1, <2>2, <2>4
<1> QED  BY <1>6, <1>8, <1>9, AppendIs DEF s

(* The ids are bounded.                                                     *)
LEMMA IdsNat ==
  ASSUME NEW b \in Nat, NEW es \in Seq(EntryLine(b))
  PROVE  \A id \in IdsOf(es) : id \in 0 .. b
<1>1. \A i \in DOMAIN es : es[i] \in EntryLine(b)
  OBVIOUS
<1> QED  BY <1>1 DEF IdsOf, EntryLine

(* The types of one manager.                                                *)
LEMMA ManagerIs ==
  ASSUME NEW b \in Nat, StoreTyped(b), NEW m \in Managers
  PROVE  /\ mgr[m] \in Manager(b) /\ mgr[m].entries \in Seq(EntryLine(b)) /\ mgr[m].leaf \in Nat
         /\ mgr[m].on \in BOOLEAN /\ mgr[m].flushed \in BOOLEAN
         /\ Placed(mgr[m], DOMAIN disk)
  BY DEF StoreTyped, MgrTypeOK, Manager

(* The entries that are appended.                                           *)
LEMMA AppendedIs ==
  ASSUME NEW b \in Nat, StoreTyped(b), NEW m \in Managers,
         AppendMessage(m) \/ AppendLabelChange(m) \/ BranchWithSummary(m)
  PROVE  \E e \in EntryLine(b + 1) :
           /\ AppendEntry(m, e) /\ e.id = Fresh
           /\ e.parent = mgr[m].leaf \/ e.parent \in {0} \cup IdsOf(mgr[m].entries)
<1>1. use \in Uses /\ use.kinds \subseteq EntryKinds
  BY SessionStoreAssumption DEF StoreTyped, EntryKinds
<1>2. Fresh \in 0 .. b + 1 /\ mgr[m].leaf \in Nat /\ \A id \in {0} \cup IdsOf(mgr[m].entries) : id \in Nat
  BY FreshIs, ManagerIs, IdsNat
<1>3. ASSUME NEW kind \in EntryKinds, NEW parent \in Nat
      PROVE  /\ Entry(kind, Fresh, parent) \in EntryLine(b + 1)
             /\ Entry(kind, Fresh, parent).id = Fresh /\ Entry(kind, Fresh, parent).parent = parent
  BY <1>2 DEF Entry, EntryLine
<1>4. ASSUME NEW kind \in EntryKinds, NEW parent \in Nat, NEW to \in Nat
      PROVE  /\ Label(kind, Fresh, parent, to) \in EntryLine(b + 1)
             /\ Label(kind, Fresh, parent, to).id = Fresh /\ Label(kind, Fresh, parent, to).parent = parent
  BY <1>2 DEF Label, EntryLine
<1>5. CASE AppendMessage(m)
  <2>1. PICK kind \in use.kinds \ {"label", "unlabel"} : AppendEntry(m, Entry(kind, Fresh, mgr[m].leaf))
    BY <1>5 DEF AppendMessage
  <2> DEFINE e == Entry(kind, Fresh, mgr[m].leaf)
  <2>2. e \in EntryLine(b + 1) /\ e.id = Fresh /\ e.parent = mgr[m].leaf
    BY <1>1, <1>2, <1>3
  <2>3. AppendEntry(m, e)
    BY <2>1
  <2> HIDE DEF e
  <2> QED  BY <2>2, <2>3
<1>6. CASE AppendLabelChange(m)
  <2>1. PICK kind \in use.kinds \cap {"label", "unlabel"}, to \in IdsOf(mgr[m].entries) :
          AppendEntry(m, Label(kind, Fresh, mgr[m].leaf, to))
    BY <1>6 DEF AppendLabelChange
  <2> DEFINE e == Label(kind, Fresh, mgr[m].leaf, to)
  <2>2. e \in EntryLine(b + 1) /\ e.id = Fresh /\ e.parent = mgr[m].leaf
    <3>1. kind \in EntryKinds /\ to \in Nat
      BY <1>1, <1>2
    <3> QED  BY <1>2, <1>4, <3>1
  <2>3. AppendEntry(m, e)
    BY <2>1
  <2> HIDE DEF e
  <2> QED  BY <2>2, <2>3
<1>7. CASE BranchWithSummary(m)
  <2>1. PICK to \in {0} \cup IdsOf(mgr[m].entries) : AppendEntry(m, Entry("note", Fresh, to))
    BY <1>7 DEF BranchWithSummary
  <2> DEFINE e == Entry("note", Fresh, to)
  <2>2. "note" \in EntryKinds
    BY DEF EntryKinds
  <2>3. e \in EntryLine(b + 1) /\ e.id = Fresh /\ e.parent = to
    BY <1>2, <1>3, <2>2
  <2>4. AppendEntry(m, e)
    BY <2>1
  <2> HIDE DEF e
  <2> QED  BY <2>1, <2>3, <2>4
<1> QED  BY <1>5, <1>6, <1>7

(* Moving the leaf writes nothing.                                          *)
LEMMA MoveLeafDoes ==
  ASSUME NEW b \in Nat, StoreTyped(b), NEW m \in Managers, MoveLeaf(m)
  PROVE  Does(b, m)
<1>1. PICK id \in {0} \cup IdsOf(mgr[m].entries) : Become(m, [mgr[m] EXCEPT !.leaf = id])
  BY DEF MoveLeaf
<1>2. mgr[m] \in Manager(b) /\ id \in Nat /\ Placed(mgr[m], DOMAIN disk)
  BY ManagerIs, IdsNat
<1> DEFINE s == [mgr[m] EXCEPT !.leaf = id]
<1>3. s \in Manager(b) /\ s.on = mgr[m].on /\ s.file = mgr[m].file /\ s.flushed = mgr[m].flushed
  BY <1>2 DEF Manager
<1>4. Become(m, s) /\ UNCHANGED <<disk, tears>>
  BY <1>1 DEF MoveLeaf
<1> HIDE DEF s
<1>5. Placed(s, DOMAIN disk)
  BY <1>2, <1>3 DEF Placed
<1> QED  BY <1>3, <1>4, <1>5, QuietDoes

(* The manager of a branched session.                                       *)
NewSession(f, es, flushed, raised) ==
  [Blank(f) EXCEPT !.entries = es, !.leaf = LastId(es), !.flushed = flushed, !.raised = raised]

(* The manager of a branched session has its types.                         *)
LEMMA NewSessionIs ==
  ASSUME NEW c \in Nat, NEW f \in Files, NEW es \in Seq(EntryLine(c)), NEW flushed \in BOOLEAN, NEW raised \in BOOLEAN
  PROVE  LET s == NewSession(f, es, flushed, raised)
         IN  /\ s \in Manager(c) /\ s.on /\ s.file = f /\ s.sid = f /\ s.flushed = flushed
             /\ s.entries = es /\ s.leaf = LastId(es)
<1>1. Blank(f) \in Manager(c) /\ Blank(f).on /\ Blank(f).file = f /\ Blank(f).sid = f
  BY BlankType
<1>2. LastId(es) \in Nat
  <2>1. es # <<>> => es[Len(es)] \in EntryLine(c)
    OBVIOUS
  <2> QED  BY <2>1 DEF LastId, EntryLine
<1> QED  BY <1>1, <1>2 DEF NewSession, Manager

(* createBranchedSession makes this manager, and writes its file if there   *)
(* is an answer in it.                                                      *)
LEMMA CreateIs ==
  ASSUME NEW m \in Managers, NEW leaf, NEW f \in Files, CreateBranchedSession(m, leaf, f)
  PROVE  LET es == Branched(mgr[m].entries, leaf)
         IN  /\ mgr[m].on /\ leaf \in IdsOf(mgr[m].entries) /\ Unnamed(f)
             /\ \/ Become(m, NewSession(f, es, Blank(f).flushed, Blank(f).raised)) /\ UNCHANGED <<disk, tears>>
                \/ \E w \in Writes(NewFileOf(<<>>), <<Header(f, Version)>> \o es) :
                     Store(f, w) /\ Become(m, NewSession(f, es, w.ok, ~w.ok))
<1> DEFINE es == Branched(mgr[m].entries, leaf)
           fresh == [Blank(f) EXCEPT !.entries = es, !.leaf = LastId(es)]
<1>1. /\ mgr[m].on /\ leaf \in IdsOf(mgr[m].entries) /\ Unnamed(f)
      /\ \/ Become(m, fresh) /\ UNCHANGED <<disk, tears>>
         \/ \E w \in Writes(NewFileOf(<<>>), <<Header(f, Version)>> \o es) :
              Store(f, w) /\ Become(m, [fresh EXCEPT !.flushed = w.ok, !.raised = ~w.ok])
  BY DEF CreateBranchedSession
<1> HIDE DEF es
<1>2. fresh = NewSession(f, es, Blank(f).flushed, Blank(f).raised)
  BY DEF NewSession, Blank, Off
<1>3. \A w : [fresh EXCEPT !.flushed = w.ok, !.raised = ~w.ok] = NewSession(f, es, w.ok, ~w.ok)
  BY DEF NewSession
<1> HIDE DEF fresh
<1>4. CASE Become(m, fresh) /\ UNCHANGED <<disk, tears>>
  BY <1>1, <1>2, <1>4 DEF es
<1>5. CASE \E w \in Writes(NewFileOf(<<>>), <<Header(f, Version)>> \o es) :
             Store(f, w) /\ Become(m, [fresh EXCEPT !.flushed = w.ok, !.raised = ~w.ok])
  <2>1. PICK w \in Writes(NewFileOf(<<>>), <<Header(f, Version)>> \o es) :
             Store(f, w) /\ Become(m, [fresh EXCEPT !.flushed = w.ok, !.raised = ~w.ok])
    BY <1>5
  <2>2. Become(m, NewSession(f, es, w.ok, ~w.ok))
    BY <1>3, <2>1
  <2> QED  BY <1>1, <2>1, <2>2 DEF es
<1> QED  BY <1>1, <1>4, <1>5

(* createBranchedSession writes a new file, or nothing.                     *)
LEMMA CreateDoes ==
  ASSUME NEW b \in Nat, StoreTyped(b), NEW m \in Managers, NEW f \in Files,
         NEW leaf \in IdsOf(mgr[m].entries), CreateBranchedSession(m, leaf, f)
  PROVE  Does(b, m)
<1> DEFINE es == Branched(mgr[m].entries, leaf)
           ls == <<Header(f, Version)>> \o es
<1>1. PICK c \in Nat : b <= c /\ es \in Seq(EntryLine(c))
  BY BranchedIs, ManagerIs
<1>2. ls \in Seq(Line(c))
  <2>1. es \in Seq(Line(c))
    BY <1>1, Monotone
  <2> QED  BY <2>1, HeadedIs
<1>3. f \notin DOMAIN disk
  BY DEF CreateBranchedSession, Unnamed
<1>4. \/ Become(m, NewSession(f, es, Blank(f).flushed, Blank(f).raised)) /\ UNCHANGED <<disk, tears>>
      \/ \E w \in Writes(NewFileOf(<<>>), ls) : Store(f, w) /\ Become(m, NewSession(f, es, w.ok, ~w.ok))
  BY CreateIs
<1> HIDE DEF es, ls
<1>5. CASE Become(m, NewSession(f, es, Blank(f).flushed, Blank(f).raised)) /\ UNCHANGED <<disk, tears>>
  <2>1. Blank(f).flushed = FALSE /\ Blank(f).raised = FALSE
    BY DEF Blank, Off
  <2>2. /\ NewSession(f, es, FALSE, FALSE) \in Manager(c)
        /\ Placed(NewSession(f, es, FALSE, FALSE), DOMAIN disk)
    BY <1>1, NewSessionIs DEF Placed
  <2> QED  BY <1>1, <1>5, <2>1, <2>2, QuietDoes
<1>6. ASSUME NEW w \in Writes(NewFileOf(<<>>), ls), Store(f, w), Become(m, NewSession(f, es, w.ok, ~w.ok))
      PROVE  Does(b, m)
  <2>1. w \in Results(c) /\ w.ok \in BOOLEAN /\ (~w.ok) \in BOOLEAN
    <3>1. w \in Results(c)
      BY <1>1, <1>2, NoLines, WritesType
    <3> QED  BY <3>1 DEF Results
  <2> DEFINE s == NewSession(f, es, w.ok, ~w.ok)
  <2>2. s \in Manager(c) /\ s.on /\ s.file = f
    <3>1. ASSUME NEW ok \in BOOLEAN, NEW raised \in BOOLEAN
          PROVE  LET t == NewSession(f, es, ok, raised) IN t \in Manager(c) /\ t.on /\ t.file = f
      BY <1>1, NewSessionIs
    <3> QED  BY <2>1, <3>1, Zenon
  <2>3. Wrote(c, f, w) /\ Become(m, s)
    BY <1>3, <1>6, <2>1 DEF Wrote
  <2> HIDE DEF s
  <2>4. Placed(s, DOMAIN disk \cup {f})
    BY <2>2 DEF Placed
  <2> QED  BY <1>1, <2>1, <2>2, <2>3, <2>4, WriteDoes
<1> QED  BY <1>4, <1>5, <1>6

(* Every call ends with the types it began with.                            *)
LEMMA StepDoes ==
  ASSUME NEW b \in Nat, StoreTyped(b), StoreNext
  PROVE  \E m \in Managers : Does(b, m)
<1>1. PICK m \in Managers :
        \/ StartNew(m) \/ Exit(m) \/ AppendMessage(m) \/ AppendLabelChange(m)
        \/ MoveLeaf(m) \/ BranchWithSummary(m)
        \/ \E f \in Files :
             \/ Open(m, f)
             \/ \E src \in Files : ForkFrom(m, src, f)
             \/ \E leaf \in IdsOf(mgr[m].entries) : CreateBranchedSession(m, leaf, f)
  BY DEF StoreNext
<1>2. CASE StartNew(m) \/ Exit(m)
  BY <1>2, StartNewDoes
<1>3. CASE AppendMessage(m) \/ AppendLabelChange(m) \/ BranchWithSummary(m)
  BY <1>3, AppendedIs, AppendEntryDoes
<1>4. CASE MoveLeaf(m)
  BY <1>4, MoveLeafDoes
<1>5. ASSUME NEW f \in Files, Open(m, f)
      PROVE  Does(b, m)
  BY <1>5, OpenEmptyDoes, OpenValidDoes, OpenLegacyDoes DEF Open
<1>6. ASSUME NEW f \in Files, NEW src \in Files, ForkFrom(m, src, f)
      PROVE  Does(b, m)
  BY <1>6, ForkFromDoes
<1>7. ASSUME NEW f \in Files, NEW leaf \in IdsOf(mgr[m].entries), CreateBranchedSession(m, leaf, f)
      PROVE  Does(b, m)
  BY <1>7, CreateDoes
<1> QED  BY <1>1, <1>2, <1>3, <1>4, <1>5, <1>6, <1>7

(* The types at the start.                                                  *)
LEMMA StoreInitTyped ==
  ASSUME StoreInit
  PROVE  StoreTypeOK
<1>1. use \in Uses /\ use.legacy \subseteq Files
  BY SessionStoreAssumption DEF StoreInit
<1>2. \A f \in Files : NewFileOf(LegacyLines(f)) \in File(0)
  <2> TAKE f \in Files
  <2>1. Entry("user", 0, 0) \in EntryLine(0) /\ Entry("assistant", 0, 0) \in EntryLine(0)
    BY DEF Entry, EntryLine, EntryKinds
  <2>2. Header(f, 1) \in HeaderLine(0)
    BY DEF Header, HeaderLine
  <2>3. LegacyLines(f) \in Seq(Line(0))
    BY <2>1, <2>2 DEF LegacyLines, Line
  <2> QED  BY <2>3 DEF NewFileOf, File
<1>3. disk = [f \in use.legacy |-> NewFileOf(LegacyLines(f))] /\ tears = 0 /\ mgr = [m \in Managers |-> Off]
  BY DEF StoreInit
<1>4. DiskTypeOK(0)
  BY <1>1, <1>2, <1>3 DEF DiskTypeOK
<1>5. MgrTypeOK(0)
  BY <1>3, BlankType DEF MgrTypeOK
<1>6. \A m \in Managers : Placed(mgr[m], DOMAIN disk)
  BY <1>3, BlankType DEF Placed
<1> QED  BY <1>1, <1>3, <1>4, <1>5, <1>6 DEF StoreTypeOK, StoreTyped

(* The types after a step.                                                  *)
LEMMA StoreStepTyped ==
  ASSUME StoreTypeOK, [StoreNext]_storeVars
  PROVE  StoreTypeOK'
<1>1. PICK b \in Nat : StoreTyped(b)
  BY DEF StoreTypeOK
<1>2. CASE UNCHANGED storeVars
  <2>1. StoreTyped(b)'
    BY <1>1, <1>2 DEF StoreTyped, DiskTypeOK, MgrTypeOK, storeVars
  <2> QED  BY <2>1 DEF StoreTypeOK
<1>3. CASE StoreNext
  <2>1. PICK m \in Managers : Does(b, m)
    BY <1>1, <1>3, StepDoes
  <2>2. PICK c \in Nat : b <= c /\ \E s \in Manager(c) : Ends(c, m, s)
    BY <2>1 DEF Does
  <2>3. UNCHANGED use
    BY <1>3 DEF StoreNext
  <2>4. StoreTyped(c)'
    BY <1>1, <2>2, <2>3, EndsTyped
  <2> QED  BY <2>4 DEF StoreTypeOK
<1> QED  BY <1>2, <1>3

(* The types, for every call and every write that fails: a manager that has  *)
(* flushed is alive and its file exists.                                    *)
THEOREM StoreTypeCorrect == StoreSpec => []StoreTypeOK
<1>1. StoreInit => StoreTypeOK
  BY StoreInitTyped
<1>2. StoreTypeOK /\ [StoreNext]_storeVars => StoreTypeOK'
  BY StoreStepTyped
<1> QED  BY <1>1, <1>2, PTL DEF StoreSpec

(* Each step keeps the finished lines.                                      *)
LEMMA StepKeeps ==
  ASSUME StoreTypeOK, [StoreNext]_storeVars, NEW f \in DOMAIN disk, Current(f)
  PROVE  f \in DOMAIN disk' /\ IsPrefix(Finished(disk[f]), disk'[f].lines)
<1>1. PICK b \in Nat : StoreTyped(b)
  BY DEF StoreTypeOK
<1>2. CASE StoreNext
  <2>1. PICK m \in Managers : Does(b, m)
    BY <1>1, <1>2, StepDoes
  <2>2. PICK c \in Nat : b <= c /\ \E s \in Manager(c) : Ends(c, m, s)
    BY <2>1 DEF Does
  <2> QED  BY <1>1, <2>2, EndsKeep
<1>3. CASE UNCHANGED storeVars
  <2>1. disk[f] \in File(b) /\ <<>> \in Seq(Line(b)) /\ disk' = disk
    BY <1>1, <1>3 DEF StoreTyped, DiskTypeOK, storeVars
  <2>2. Extend(disk[f], <<>>, FALSE) = disk[f]
    BY DEF Extend
  <2> QED  BY <2>1, <2>2, ExtendType
<1> QED  BY <1>2, <1>3

(* LinesStay, whatever fails: no call, not even one whose write is cut      *)
(* short, removes or changes a finished line of a file of this version      *)
(* (_append_entry, _write_bytes, createBranchedSession).                    *)
THEOREM LinesStaying == StoreSpec => LinesStay
<1>1. StoreTypeOK /\ [StoreNext]_storeVars =>
        [\A f \in DOMAIN disk : Valid(Values(f)) /\ Values(f)[1].version = Version =>
           f \in DOMAIN disk' /\ IsPrefix(Finished(disk[f]), disk'[f].lines)]_storeVars
  BY StepKeeps DEF Current
<1> QED  BY <1>1, StoreTypeCorrect, PTL DEF StoreSpec, LinesStay

(* The soundness of the store, until a write is cut short.                  *)
Tree(es) ==
  \A i \in DOMAIN es : es[i].id # 0 =>
    /\ \A j \in DOMAIN es : es[j].id = es[i].id => j = i
    /\ es[i].parent = 0 \/ \E j \in 1 .. i - 1 : es[j].id = es[i].parent

SoundFile(file) ==
  /\ ~file.open /\ file.lines # <<>> /\ file.lines[1].kind = "header"
  /\ \A i \in 2 .. Len(file.lines) : IsEntry(file.lines[i])
  /\ Tree(Tail(file.lines))

GoodManager(s, d) ==
  /\ Tree(s.entries) /\ 0 \notin IdsOf(s.entries)
  /\ s.leaf \in {0} \cup IdsOf(s.entries)
  /\ s.flushed => /\ d[s.file].lines[1].version = Version
                  /\ IsSubsequence(s.entries, Tail(d[s.file].lines))

SoundState(d, ms) ==
  /\ \A f \in DOMAIN d : SoundFile(d[f])
  /\ \A m \in Managers : GoodManager(ms[m], d)

StoreInv == StoreTypeOK /\ (tears = 0 => SoundState(disk, mgr))

(* All positions but the first select the tail.                             *)
LEMMA AtTail ==
  ASSUME NEW S, NEW s \in Seq(S), s # <<>>
  PROVE  At(s, 2 .. Len(s)) = Tail(s)
<1> DEFINE N == Len(s)
           I == 2 .. N
<1>1. N \in Nat /\ N >= 1 /\ DOMAIN s = 1 .. N
  OBVIOUS
<1> HIDE DEF N
<1>2. I \in SUBSET DOMAIN s /\ I \subseteq Nat
  BY <1>1
<1>3. IsFiniteSet(I) /\ Cardinality(I) = N - 1
  <2>1. 2 \in Int /\ N \in Int
    BY <1>1
  <2> QED  BY <1>1, <2>1, FS_Interval
<1>4. ASSUME NEW n \in 1 .. N - 1
      PROVE  Nth(I, n) = n + 1
  <2>1. {k \in I : k <= n + 1} = 2 .. n + 1
    BY <1>1
  <2>2. Cardinality(2 .. n + 1) = n
    <3>1. 2 \in Int /\ n + 1 \in Int
      BY <1>1
    <3> QED  BY <1>1, <3>1, FS_Interval
  <2>3. Rank(I, n + 1) = n
    BY <2>1, <2>2 DEF Rank
  <2>4. n + 1 \in I
    BY <1>1
  <2> HIDE DEF I
  <2>5. Nth(I, Rank(I, n + 1)) = n + 1
    BY <1>2, <1>3, <2>4, NthIs
  <2> QED  BY <2>3, <2>5
<1>5. At(s, I) \in Seq(S) /\ Len(At(s, I)) = N - 1 /\ \A n \in 1 .. N - 1 : At(s, I)[n] = s[Nth(I, n)]
  BY <1>2, <1>3, AtIs
<1>6. Tail(s) \in Seq(S) /\ Len(Tail(s)) = N - 1 /\ \A n \in 1 .. N - 1 : Tail(s)[n] = s[n + 1]
  BY DEF N
<1>7. \A n \in 1 .. N - 1 : At(s, I)[n] = Tail(s)[n]
  BY <1>4, <1>5, <1>6
<1>8. At(s, I) = Tail(s)
  <2> DEFINE a == At(s, I)
             t == Tail(s)
  <2>1. a \in Seq(S) /\ t \in Seq(S) /\ Len(a) = Len(t) /\ \A n \in 1 .. Len(a) : a[n] = t[n]
    BY <1>5, <1>6, <1>7
  <2> HIDE DEF a, t
  <2>2. a = t
    BY <2>1, SeqEqual
  <2> QED  BY <2>2 DEF a, t
<1> QED  BY <1>8 DEF N

-----------------------------------------------------------------------------
(* Subsequences.                                                            *)
LEMMA SubAt ==
  ASSUME NEW T, NEW t \in Seq(T), NEW I \in SUBSET DOMAIN t,
         \A i \in I : \A j \in DOMAIN t : t[i] = t[j] => i = j
  PROVE  IsSubsequence(At(t, I), t)
<1> DEFINE s == At(t, I)
           at == [n \in DOMAIN s |-> Nth(I, n)]
<1>1. /\ \A n \in DOMAIN s : Nth(I, n) \in I /\ s[n] = t[Nth(I, n)]
      /\ \A n, k \in DOMAIN s : n < k <=> Nth(I, n) < Nth(I, k)
  BY AtPlace
<1> HIDE DEF s
<1>2. at \in [DOMAIN s -> DOMAIN t]
  BY <1>1
<1>3. \A i, j \in DOMAIN s : i < j => at[i] < at[j]
  BY <1>1
<1>4. ASSUME NEW i \in DOMAIN s, NEW j \in DOMAIN t
      PROVE  s[i] = t[j] <=> j = at[i]
  BY <1>1
<1> QED  BY <1>2, <1>3, <1>4 DEF IsSubsequence, s

(* A sequence of distinct elements is a subsequence of itself.              *)
LEMMA SubSelf ==
  ASSUME NEW T, NEW t \in Seq(T), \A i, j \in DOMAIN t : t[i] = t[j] => i = j
  PROVE  IsSubsequence(t, t)
<1>1. At(t, DOMAIN t) = t
  BY AtAll
<1>2. IsSubsequence(At(t, DOMAIN t), t)
  BY SubAt
<1> QED  BY <1>1, <1>2

(* A subsequence grows with the whole, or stays behind.                     *)
LEMMA SubAppend ==
  ASSUME NEW T, NEW s \in Seq(T), NEW t \in Seq(T), NEW e \in T, IsSubsequence(s, t),
         \A j \in DOMAIN t : t[j] # e
  PROVE  /\ IsSubsequence(s, Append(t, e))
         /\ IsSubsequence(Append(s, e), Append(t, e))
         /\ \A i \in DOMAIN s : \E j \in DOMAIN t : s[i] = t[j]
<1> DEFINE S == Append(s, e)
           U == Append(t, e)
           n == Len(s)
           k == Len(t)
<1>1. PICK at \in [DOMAIN s -> DOMAIN t] :
        /\ \A i, j \in DOMAIN s : i < j => at[i] < at[j]
        /\ \A i \in DOMAIN s, j \in DOMAIN t : s[i] = t[j] <=> j = at[i]
  BY DEF IsSubsequence
<1>2. /\ n \in Nat /\ k \in Nat /\ DOMAIN s = 1 .. n /\ DOMAIN t = 1 .. k
      /\ DOMAIN S = 1 .. n + 1 /\ DOMAIN U = 1 .. k + 1
      /\ S[n + 1] = e /\ U[k + 1] = e
      /\ (\A i \in 1 .. n : S[i] = s[i]) /\ (\A j \in 1 .. k : U[j] = t[j])
  OBVIOUS
<1> HIDE DEF S, U, n, k
<1>3. \A i \in 1 .. n : at[i] \in 1 .. k /\ s[i] = t[at[i]] /\ s[i] # e
  <2> TAKE i \in 1 .. n
  <2>1. i \in DOMAIN s /\ at[i] \in DOMAIN t
    BY <1>1, <1>2
  <2>2. s[i] = t[at[i]]
    BY <1>1, <2>1
  <2> QED  BY <1>2, <2>1, <2>2
<1>4. IsSubsequence(s, U)
  <2>1. at \in [DOMAIN s -> DOMAIN U]
    BY <1>2, <1>3
  <2>2. ASSUME NEW i \in DOMAIN s, NEW j \in DOMAIN U
        PROVE  s[i] = U[j] <=> j = at[i]
    <3>1. CASE j \in 1 .. k
      BY <1>1, <1>2, <3>1
    <3>2. CASE j = k + 1
      BY <1>2, <1>3, <3>2
    <3> QED  BY <1>2, <3>1, <3>2
  <2> QED  BY <1>1, <2>1, <2>2 DEF IsSubsequence
<1>5. IsSubsequence(S, U)
  <2> DEFINE to == [i \in DOMAIN S |-> IF i = n + 1 THEN k + 1 ELSE at[i]]
  <2>1. to \in [DOMAIN S -> DOMAIN U]
    BY <1>2, <1>3
  <2>2. ASSUME NEW i \in DOMAIN S, NEW j \in DOMAIN S, i < j
        PROVE  to[i] < to[j]
    <3>1. i \in 1 .. n /\ to[i] = at[i] /\ at[i] \in 1 .. k
      BY <1>2, <1>3, <2>2
    <3>2. CASE j = n + 1
      BY <1>2, <3>1, <3>2
    <3>3. CASE j \in 1 .. n
      <4>1. to[j] = at[j] /\ at[i] < at[j]
        BY <1>1, <1>2, <2>2, <3>1, <3>3
      <4> QED  BY <3>1, <4>1
    <3> QED  BY <1>2, <3>2, <3>3
  <2>3. ASSUME NEW i \in DOMAIN S, NEW j \in DOMAIN U
        PROVE  S[i] = U[j] <=> j = to[i]
    <3>1. CASE i \in 1 .. n
      <4>1. to[i] = at[i] /\ S[i] = s[i] /\ at[i] \in 1 .. k
        BY <1>2, <1>3, <3>1
      <4>2. CASE j \in 1 .. k
        BY <1>1, <1>2, <3>1, <4>1, <4>2
      <4>3. CASE j = k + 1
        BY <1>2, <1>3, <3>1, <4>1, <4>3
      <4> QED  BY <1>2, <4>2, <4>3
    <3>2. CASE i = n + 1
      <4>1. to[i] = k + 1 /\ S[i] = e
        BY <1>2, <3>2
      <4>2. CASE j \in 1 .. k
        BY <1>2, <4>1, <4>2
      <4>3. CASE j = k + 1
        BY <1>2, <4>1, <4>3
      <4> QED  BY <1>2, <4>2, <4>3
    <3> QED  BY <1>2, <3>1, <3>2
  <2> HIDE DEF to
  <2> QED  BY <2>1, <2>2, <2>3 DEF IsSubsequence
<1>6. \A i \in DOMAIN s : \E j \in DOMAIN t : s[i] = t[j]
  BY <1>2, <1>3
<1> QED  BY <1>4, <1>5, <1>6 DEF S, U

-----------------------------------------------------------------------------
(* Trees.                                                                   *)
LEMMA TreeAppend ==
  ASSUME NEW T, NEW es \in Seq(T), NEW e \in T, Tree(es), e.id \notin IdsOf(es),
         e.parent \in {0} \cup IdsOf(es)
  PROVE  Tree(Append(es, e))
<1> DEFINE S == Append(es, e)
           n == Len(es)
<1>1. /\ n \in Nat /\ DOMAIN es = 1 .. n /\ DOMAIN S = 1 .. n + 1 /\ S[n + 1] = e
      /\ \A i \in 1 .. n : S[i] = es[i]
  OBVIOUS
<1> HIDE DEF S, n
<1>2. \A i \in 1 .. n : es[i].id # e.id
  BY <1>1 DEF IdsOf
<1>3. ASSUME NEW i \in DOMAIN S, S[i].id # 0
      PROVE  /\ \A j \in DOMAIN S : S[j].id = S[i].id => j = i
             /\ S[i].parent = 0 \/ \E j \in 1 .. i - 1 : S[j].id = S[i].parent
  <2>1. CASE i \in 1 .. n
    <3>1. \A j \in DOMAIN S : S[j].id = S[i].id => j = i
      BY <1>1, <1>2, <1>3, <2>1 DEF Tree
    <3>2. S[i].parent = 0 \/ \E j \in 1 .. i - 1 : es[j].id = S[i].parent
      BY <1>1, <1>3, <2>1 DEF Tree
    <3>3. \A j \in 1 .. i - 1 : S[j] = es[j]
      BY <1>1, <2>1
    <3> QED  BY <3>1, <3>2, <3>3
  <2>2. CASE i = n + 1
    <3>1. \A j \in DOMAIN S : S[j].id = S[i].id => j = i
      BY <1>1, <1>2, <2>2
    <3>2. S[i].parent = 0 \/ \E j \in 1 .. n : es[j].id = S[i].parent
      BY <1>1, <2>2 DEF IdsOf
    <3>3. i - 1 = n /\ \A j \in 1 .. n : S[j] = es[j]
      BY <1>1, <2>2
    <3> QED  BY <3>1, <3>2, <3>3
  <2> QED  BY <1>1, <2>1, <2>2
<1> QED  BY <1>3 DEF Tree, S

(* The entries that have an id, taken out of a file.                        *)
LEMMA TreeAt ==
  ASSUME NEW T, NEW t \in Seq(T), Tree(t), NEW I \in SUBSET DOMAIN t,
         \A i \in DOMAIN t : i \in I <=> t[i].id # 0
  PROVE  Tree(At(t, I)) /\ 0 \notin IdsOf(At(t, I)) /\ IsSubsequence(At(t, I), t)
<1> DEFINE s == At(t, I)
<1>1. /\ \A n \in DOMAIN s : Nth(I, n) \in I /\ s[n] = t[Nth(I, n)]
      /\ \A i \in I : Rank(I, i) \in DOMAIN s /\ s[Rank(I, i)] = t[i] /\ Nth(I, Rank(I, i)) = i
      /\ \A n, k \in DOMAIN s : n < k <=> Nth(I, n) < Nth(I, k)
  BY AtPlace
<1>2. s \in Seq(T) /\ DOMAIN s = 1 .. Len(s) /\ Len(s) \in Nat
  BY AtIs
<1>3. I \subseteq Nat /\ DOMAIN t = 1 .. Len(t) /\ Len(t) \in Nat
  OBVIOUS
<1> HIDE DEF s
<1>4. 0 \notin IdsOf(s)
  BY <1>1 DEF IdsOf
<1>5. ASSUME NEW n \in DOMAIN s
      PROVE  /\ \A k \in DOMAIN s : s[k].id = s[n].id => k = n
             /\ s[n].parent = 0 \/ \E k \in 1 .. n - 1 : s[k].id = s[n].parent
  <2> DEFINE i == Nth(I, n)
  <2>1. i \in I /\ s[n] = t[i] /\ t[i].id # 0
    BY <1>1
  <2>2. ASSUME NEW k \in DOMAIN s, s[k].id = s[n].id
        PROVE  k = n
    <3>1. Nth(I, k) \in I /\ t[Nth(I, k)].id = t[i].id
      BY <1>1, <2>1, <2>2
    <3>2. Nth(I, k) = Nth(I, n)
      BY <2>1, <3>1 DEF Tree
    <3>3. ~(k < n) /\ ~(n < k)
      BY <1>1, <1>3, <3>1, <3>2
    <3> QED  BY <1>2, <3>3
  <2>3. ASSUME s[n].parent # 0
        PROVE  \E k \in 1 .. n - 1 : s[k].id = s[n].parent
    <3> HIDE DEF i
    <3>1. PICK j \in 1 .. i - 1 : t[j].id = t[i].parent
      BY <2>1, <2>3 DEF Tree
    <3>2. j \in DOMAIN t /\ j < i
      BY <1>3, <2>1
    <3>3. j \in I
      BY <2>1, <2>3, <3>1, <3>2
    <3> DEFINE k == Rank(I, j)
    <3>4. k \in DOMAIN s /\ s[k] = t[j] /\ Nth(I, k) = j
      BY <1>1, <3>3
    <3>5. k < n
      BY <1>1, <3>2, <3>4 DEF i
    <3>6. k \in 1 .. n - 1
      BY <1>2, <3>4, <3>5
    <3> QED  BY <2>1, <3>1, <3>4, <3>6
  <2> QED  BY <2>2, <2>3
<1>6. Tree(s)
  BY <1>5 DEF Tree
<1>7. IsSubsequence(At(t, I), t)
  <2>1. \A i \in I : \A j \in DOMAIN t : t[i] = t[j] => i = j
    BY DEF Tree
  <2> QED  BY <2>1, SubAt
<1> QED  BY <1>4, <1>6, <1>7 DEF s

(* A chain is a tree: each entry the child of the one before it.            *)
LEMMA TreeChain ==
  ASSUME NEW T, NEW es \in Seq(T),
         \A i, j \in DOMAIN es : es[i].id = es[j].id => i = j,
         \A i \in DOMAIN es : es[i].parent = IF i = 1 THEN 0 ELSE es[i - 1].id
  PROVE  Tree(es)
<1>1. DOMAIN es = 1 .. Len(es) /\ Len(es) \in Nat
  OBVIOUS
<1>2. ASSUME NEW i \in DOMAIN es
      PROVE  es[i].parent = 0 \/ \E j \in 1 .. i - 1 : es[j].id = es[i].parent
  <2>1. CASE i = 1
    BY <2>1
  <2>2. CASE i # 1
    <3>1. i - 1 \in 1 .. i - 1 /\ es[i].parent = es[i - 1].id
      BY <1>1, <2>2
    <3> QED  BY <3>1
  <2> QED  BY <2>1, <2>2
<1> QED  BY <1>2 DEF Tree

(* Of a sound file nothing is skipped: its values are its lines, and what   *)
(* is saved is all but the header.                                          *)
LEMMA SoundValues ==
  ASSUME NEW b \in Nat, DiskTypeOK(b), NEW f \in DOMAIN disk, SoundFile(disk[f])
  PROVE  LET ls == disk[f].lines
         IN  /\ ls \in Seq(Line(b)) /\ ls # <<>> /\ Values(f) = ls /\ Valid(ls)
             /\ Tail(ls) \in Seq(EntryLine(b)) /\ Saved(f) = Tail(ls)
<1> DEFINE ls == disk[f].lines
<1>1. ls \in Seq(Line(b)) /\ ls # <<>> /\ ls[1].kind = "header" /\ \A i \in 2 .. Len(ls) : IsEntry(ls[i])
  BY DEF DiskTypeOK, File, SoundFile
<1>2. \A i \in DOMAIN ls : ls[i].kind # "broken"
  <2>1. \A i \in DOMAIN ls : i = 1 \/ i \in 2 .. Len(ls)
    BY <1>1
  <2> QED  BY <1>1, <2>1 DEF IsEntry
<1>3. Values(f) = ls
  BY <1>2, ValuesType
<1> HIDE DEF ls
<1>4. Valid(ls)
  BY <1>1 DEF Valid
<1>5. Tail(ls) \in Seq(EntryLine(b))
  <2>1. \A i \in 2 .. Len(ls) : ls[i] \in Line(b)
    BY <1>1
  <2>2. \A i \in 2 .. Len(ls) : ls[i] \in EntryLine(b)
    BY <1>1, <2>1, LineFacts, Zenon
  <2>3. Len(Tail(ls)) = Len(ls) - 1 /\ Len(ls) \in Nat /\ Len(ls) >= 1 /\ Tail(ls) \in Seq(Line(b))
        /\ \A i \in 1 .. Len(ls) - 1 : Tail(ls)[i] = ls[i + 1]
    BY <1>1
  <2>4. \A i \in 1 .. Len(ls) - 1 : Tail(ls)[i] \in EntryLine(b)
    BY <2>2, <2>3
  <2> DEFINE t == Tail(ls)
  <2> HIDE DEF t
  <2>5. t \in Seq(Line(b)) /\ \A i \in 1 .. Len(t) : t[i] \in EntryLine(b)
    BY <2>3, <2>4 DEF t
  <2>6. t \in Seq(EntryLine(b))
    BY <2>5
  <2> QED  BY <2>6 DEF t
<1>6. Saved(f) = Tail(ls)
  <2>1. {i \in DOMAIN ls : IsEntry(ls[i])} = 2 .. Len(ls)
    <3>1. ~IsEntry(ls[1]) /\ Len(ls) \in Nat /\ DOMAIN ls = 1 .. Len(ls)
      BY <1>1 DEF IsEntry
    <3>2. \A i \in DOMAIN ls : IsEntry(ls[i]) <=> i \in 2 .. Len(ls)
      BY <1>1, <3>1
    <3> QED  BY <3>1, <3>2
  <2>2. At(ls, 2 .. Len(ls)) = Tail(ls)
    BY <1>1, AtTail
  <2> QED  BY <1>3, <2>1, <2>2 DEF Saved
<1> QED  BY <1>1, <1>3, <1>4, <1>5, <1>6 DEF ls

(* The last id is an id.                                                    *)
LEMMA LastIdIs ==
  ASSUME NEW T, NEW es \in Seq(T)
  PROVE  LastId(es) \in {0} \cup IdsOf(es)
<1>1. es # <<>> => Len(es) \in DOMAIN es
  OBVIOUS
<1> QED  BY <1>1 DEF LastId, IdsOf

(* The lines after the header.                                              *)
LEMMA TailEntries ==
  ASSUME NEW b \in Nat, NEW vs \in Seq(Line(b)), vs # <<>>, \A i \in 2 .. Len(vs) : IsEntry(vs[i])
  PROVE  Tail(vs) \in Seq(EntryLine(b)) /\ \A i \in DOMAIN Tail(vs) : IsEntry(Tail(vs)[i])
<1>1. Len(Tail(vs)) = Len(vs) - 1 /\ Len(vs) \in Nat /\ Len(vs) >= 1 /\ Tail(vs) \in Seq(Line(b))
      /\ \A i \in 1 .. Len(vs) - 1 : Tail(vs)[i] = vs[i + 1]
  OBVIOUS
<1> DEFINE t == Tail(vs)
<1> HIDE DEF t
<1>2. t \in Seq(Line(b)) /\ \A i \in 1 .. Len(t) : IsEntry(t[i])
  BY <1>1 DEF t
<1>3. \A i \in 1 .. Len(t) : t[i] \in Line(b)
  BY <1>2
<1>4. \A i \in 1 .. Len(t) : t[i] \in EntryLine(b)
  BY <1>2, <1>3, LineFacts, Zenon
<1>5. t \in Seq(EntryLine(b)) /\ \A i \in DOMAIN t : IsEntry(t[i])
  BY <1>2, <1>4
<1> QED  BY <1>5 DEF t

(* What is loaded from a tree is one, with ids, and in step with the file.  *)
LEMMA LoadedSound ==
  ASSUME NEW b \in Nat, NEW vs \in Seq(Line(b)), vs # <<>>, \A i \in 2 .. Len(vs) : IsEntry(vs[i]),
         Tree(Tail(vs))
  PROVE  LET es == Loaded(vs)
         IN  /\ Tree(es) /\ 0 \notin IdsOf(es) /\ IsSubsequence(es, Tail(vs))
             /\ LastId(es) \in {0} \cup IdsOf(es)
<1> DEFINE t == Tail(vs)
           I == {i \in DOMAIN t : IsEntry(t[i]) /\ t[i].id # 0}
<1>1. t \in Seq(EntryLine(b)) /\ \A i \in DOMAIN t : IsEntry(t[i])
  BY TailEntries
<1>2. Loaded(vs) = At(t, I)
  BY DEF Loaded
<1> HIDE DEF t
<1>3. I \in SUBSET DOMAIN t /\ \A i \in DOMAIN t : i \in I <=> t[i].id # 0
  BY <1>1
<1>4. Tree(t)
  BY DEF t
<1> HIDE DEF I
<1>5. Tree(At(t, I)) /\ 0 \notin IdsOf(At(t, I)) /\ IsSubsequence(At(t, I), t)
  BY <1>1, <1>3, <1>4, TreeAt
<1>6. At(t, I) \in Seq(EntryLine(b))
  BY <1>1, <1>3, AtIs
<1>7. LastId(At(t, I)) \in {0} \cup IdsOf(At(t, I))
  BY <1>6, LastIdIs
<1> QED  BY <1>2, <1>5, <1>7 DEF t

(* A complete write of a new file.                                          *)
LEMMA NewFile ==
  ASSUME NEW c \in Nat, NEW ls \in Seq(Line(c)), ls # <<>>, ls[1].kind = "header",
         \A i \in 2 .. Len(ls) : IsEntry(ls[i]), Tree(Tail(ls)),
         NEW w \in Writes(NewFileOf(<<>>), ls), ~w.torn
  PROVE  w.ok /\ w.file.lines = ls /\ SoundFile(w.file)
<1>1. NewFileOf(<<>>) \in File(c)
  BY NoLines
<1>2. w.ok /\ w.file = Extend(NewFileOf(<<>>), ls, FALSE)
  BY <1>1, WritesType
<1>3. w.file = [lines |-> <<>> \o ls, open |-> FALSE]
  BY <1>2, NoLines
<1>4. <<>> \o ls = ls
  OBVIOUS
<1>5. w.file.lines = ls /\ w.file.open = FALSE
  BY <1>3, <1>4
<1> QED  BY <1>2, <1>5 DEF SoundFile

(* A complete write of one more line.                                       *)
LEMMA AppendFile ==
  ASSUME NEW c \in Nat, NEW file \in File(c), SoundFile(file), NEW e \in EntryLine(c),
         e.id \notin IdsOf(Tail(file.lines)), e.parent \in {0} \cup IdsOf(Tail(file.lines)),
         NEW w \in Writes(file, <<e>>), ~w.torn
  PROVE  /\ w.ok /\ SoundFile(w.file) /\ w.file.lines[1] = file.lines[1]
         /\ Tail(w.file.lines) = Append(Tail(file.lines), e)
<1> DEFINE old == file.lines
           new == Append(old, e)
<1>1. /\ old \in Seq(Line(c)) /\ old # <<>> /\ old[1].kind = "header" /\ ~file.open
      /\ \A i \in 2 .. Len(old) : IsEntry(old[i])
      /\ Tree(Tail(old))
  BY DEF File, SoundFile
<1>2. e \in Line(c) /\ IsEntry(e)
  <2>1. e \in Line(c)
    BY DEF Line
  <2> QED  BY <2>1, LineFacts
<1>3. <<e>> \in Seq(Line(c)) /\ <<e>> # <<>>
  BY <1>2
<1>4. w.ok /\ w.file = Extend(file, <<e>>, FALSE)
  BY <1>3, WritesType
<1>5. Extend(file, <<e>>, FALSE) = [lines |-> old \o <<e>>, open |-> FALSE]
  BY <1>1, <1>3 DEF Extend
<1>6. w.file.lines = old \o <<e>> /\ w.file.open = FALSE
  <2> DEFINE ls == old \o <<e>>
  <2>1. w.file = [lines |-> ls, open |-> FALSE]
    BY <1>4, <1>5
  <2> HIDE DEF ls
  <2>2. w.file.lines = ls /\ w.file.open = FALSE
    BY <2>1
  <2> QED  BY <2>2 DEF ls
<1> HIDE DEF old
<1>7. old \o <<e>> = new
  BY <1>1, <1>2, AppendIsConcat
<1>8. /\ new \in Seq(Line(c)) /\ new # <<>> /\ new[1] = old[1] /\ Len(old) \in Nat /\ Len(old) >= 1
      /\ Len(new) = Len(old) + 1 /\ new[Len(old) + 1] = e
      /\ \A i \in 1 .. Len(old) : new[i] = old[i]
  BY <1>1, <1>2
<1> HIDE DEF new
<1>9. \A i \in 2 .. Len(new) : IsEntry(new[i])
  BY <1>1, <1>2, <1>8
<1>10. Tail(new) = Append(Tail(old), e)
  <2> DEFINE t == Tail(new)
             u == Append(Tail(old), e)
  <2>1. /\ t \in Seq(Line(c)) /\ Len(t) = Len(old) /\ \A i \in 1 .. Len(old) : t[i] = new[i + 1]
    BY <1>8
  <2>2. /\ Tail(old) \in Seq(Line(c)) /\ Len(Tail(old)) = Len(old) - 1
        /\ \A i \in 1 .. Len(old) - 1 : Tail(old)[i] = old[i + 1]
    BY <1>1
  <2>3. /\ u \in Seq(Line(c)) /\ Len(u) = Len(old) /\ u[Len(old)] = e
        /\ \A i \in 1 .. Len(old) - 1 : u[i] = old[i + 1]
    <3> DEFINE a == Tail(old)
    <3> HIDE DEF a
    <3>1. a \in Seq(Line(c)) /\ Len(a) = Len(old) - 1 /\ \A i \in 1 .. Len(old) - 1 : a[i] = old[i + 1]
      BY <2>2 DEF a
    <3>2. /\ Append(a, e) \in Seq(Line(c)) /\ Len(Append(a, e)) = Len(old) /\ Append(a, e)[Len(old)] = e
          /\ \A i \in 1 .. Len(old) - 1 : Append(a, e)[i] = a[i]
      BY <1>2, <1>8, <3>1
    <3> QED  BY <3>1, <3>2 DEF a
  <2> HIDE DEF t, u
  <2>4. \A i \in 1 .. Len(old) : t[i] = u[i]
    <3> TAKE i \in 1 .. Len(old)
    <3>1. CASE i = Len(old)
      BY <1>8, <2>1, <2>3, <3>1
    <3>2. CASE i # Len(old)
      <4>1. i \in 1 .. Len(old) - 1 /\ i + 1 \in 1 .. Len(old)
        BY <1>8, <3>2
      <4> QED  BY <1>8, <2>1, <2>3, <4>1
    <3> QED  BY <3>1, <3>2
  <2>5. t = u
    BY <2>1, <2>3, <2>4, SeqEqual
  <2> QED  BY <2>5 DEF t, u
<1>11. Tree(Tail(new))
  <2>1. Tail(old) \in Seq(EntryLine(c))
    BY <1>1, TailEntries
  <2>2. Tree(Append(Tail(old), e))
    BY <1>1, <2>1, TreeAppend DEF old
  <2> QED  BY <1>10, <2>2
<1>12. SoundFile(w.file)
  <2>1. w.file.lines = new /\ w.file.open = FALSE
    BY <1>6, <1>7
  <2> QED  BY <1>1, <1>8, <1>9, <1>11, <2>1 DEF SoundFile
<1> QED  BY <1>4, <1>6, <1>7, <1>8, <1>10, <1>12 DEF old

(* A step that leaves the files alone.                                      *)
LEMMA QuietSound ==
  ASSUME NEW c \in Nat, MgrTypeOK(c), SoundState(disk, mgr), NEW m \in Managers, NEW s \in Manager(c),
         Become(m, s), UNCHANGED <<disk, tears>>, GoodManager(s, disk)
  PROVE  SoundState(disk', mgr')
<1>1. mgr'[m] = s /\ \A k \in Managers : k # m => mgr'[k] = mgr[k]
  BY BecomeStep
<1>2. disk' = disk
  OBVIOUS
<1> QED  BY <1>1, <1>2 DEF SoundState

(* A step that makes a file, or makes one of this version of an older one.  *)
LEMMA FileSound ==
  ASSUME NEW b \in Nat, StoreTyped(b), NEW c \in Nat, b <= c, SoundState(disk, mgr),
         NEW m \in Managers, NEW s \in Manager(c), Become(m, s),
         NEW f \in Files, NEW w \in Results(c), Store(f, w), SoundFile(w.file),
         f \notin DOMAIN disk \/ disk[f].lines[1].version # Version,
         GoodManager(s, [g \in {f} |-> w.file]), s.flushed => s.file = f
  PROVE  SoundState(disk', mgr')
<1>1. DiskTypeOK(c) /\ MgrTypeOK(c) /\ tears \in Nat
  BY Monotone DEF StoreTyped
<1>2. mgr'[m] = s /\ \A k \in Managers : k # m => mgr'[k] = mgr[k]
  BY <1>1, BecomeStep
<1>3. /\ DOMAIN disk' = DOMAIN disk \cup {f} /\ disk'[f] = w.file
      /\ \A g \in DOMAIN disk : g # f => disk'[g] = disk[g]
  BY <1>1, WriteStep
<1>4. \A g \in DOMAIN disk' : SoundFile(disk'[g])
  BY <1>3 DEF SoundState
<1>5. GoodManager(s, disk')
  BY <1>3 DEF GoodManager
<1>6. ASSUME NEW k \in Managers, k # m
      PROVE  GoodManager(mgr[k], disk')
  <2>1. GoodManager(mgr[k], disk) /\ Placed(mgr[k], DOMAIN disk)
    BY DEF SoundState, StoreTyped
  <2>2. mgr[k].flushed => disk'[mgr[k].file] = disk[mgr[k].file]
    BY <1>3, <2>1 DEF GoodManager, Placed
  <2> QED  BY <2>1, <2>2 DEF GoodManager
<1> QED  BY <1>2, <1>4, <1>5, <1>6 DEF SoundState

(* A step that adds a line.                                                 *)
LEMMA LineSound ==
  ASSUME NEW b \in Nat, StoreTyped(b), NEW c \in Nat, b <= c, SoundState(disk, mgr),
         NEW m \in Managers, NEW s \in Manager(c), Become(m, s), NEW e \in EntryLine(c),
         mgr[m].flushed, s.entries = Append(mgr[m].entries, e), s.leaf = e.id, s.file = mgr[m].file,
         e.id \notin IdsOf(disk[s.file].lines), e.id # 0,
         e.parent \in {0} \cup IdsOf(mgr[m].entries),
         NEW w \in Writes(disk[s.file], <<e>>), ~w.torn, Store(s.file, w)
  PROVE  SoundState(disk', mgr')
<1> DEFINE f == mgr[m].file
           old == Tail(disk[f].lines)
           es == mgr[m].entries
<1>1. DiskTypeOK(c) /\ MgrTypeOK(c) /\ tears \in Nat
  BY Monotone DEF StoreTyped
<1>2. f \in DOMAIN disk /\ f \in Files /\ s.file = f
  BY DEF StoreTyped, Placed
<1>3. disk[f] \in File(c) /\ SoundFile(disk[f]) /\ GoodManager(mgr[m], disk)
  BY <1>1, <1>2 DEF DiskTypeOK, SoundState
<1>4. disk[f].lines \in Seq(Line(c)) /\ disk[f].lines # <<>> /\ old \in Seq(EntryLine(c))
  BY <1>1, <1>2, <1>3, SoundValues
<1>5. es \in Seq(EntryLine(c)) /\ Tree(es) /\ 0 \notin IdsOf(es) /\ IsSubsequence(es, old)
      /\ disk[f].lines[1].version = Version
  BY <1>1, <1>3 DEF MgrTypeOK, Manager, GoodManager
<1> DEFINE ls == disk[f].lines
<1>6. IdsOf(old) \subseteq IdsOf(disk[f].lines)
  <2> HIDE DEF ls
  <2>1. \A i \in DOMAIN Tail(ls) : i + 1 \in DOMAIN ls /\ Tail(ls)[i] = ls[i + 1]
    BY <1>4 DEF ls
  <2>2. IdsOf(Tail(ls)) \subseteq IdsOf(ls)
    BY <2>1 DEF IdsOf
  <2> QED  BY <2>2 DEF ls
<1>7. e.id \notin IdsOf(old)
  BY <1>2, <1>6
<1> HIDE DEF old, es, ls, f
<1>8. \A j \in DOMAIN old : old[j] # e
  BY <1>7 DEF IdsOf
<1>9. /\ IsSubsequence(Append(es, e), Append(old, e)) /\ \A i \in DOMAIN es : \E j \in DOMAIN old : es[i] = old[j]
  BY <1>4, <1>5, <1>8, SubAppend
<1>10. IdsOf(es) \subseteq IdsOf(old)
  BY <1>9 DEF IdsOf
<1>11. e.parent \in {0} \cup IdsOf(old)
  BY <1>10 DEF es
<1>12. /\ w.ok /\ SoundFile(w.file) /\ w.file.lines[1] = disk[f].lines[1]
       /\ Tail(w.file.lines) = Append(old, e)
  <2>1. w \in Writes(disk[f], <<e>>)
    BY <1>2
  <2> QED  BY <1>3, <1>7, <1>11, <2>1, AppendFile DEF old
<1>13. w \in Results(c)
  <2>1. <<e>> \in Seq(Line(c))
    BY DEF Line
  <2> QED  BY <1>2, <1>3, <2>1, WritesType
<1>14. /\ DOMAIN disk' = DOMAIN disk \cup {f} /\ disk'[f] = w.file
       /\ \A g \in DOMAIN disk : g # f => disk'[g] = disk[g]
  BY <1>1, <1>2, <1>13, WriteStep
<1>15. \A g \in DOMAIN disk' : SoundFile(disk'[g])
  BY <1>12, <1>14 DEF SoundState
<1>16. GoodManager(s, disk')
  <2>1. Tree(Append(es, e))
    BY <1>5, <1>7, <1>10, TreeAppend DEF es
  <2>2. 0 \notin IdsOf(Append(es, e)) /\ e.id \in IdsOf(Append(es, e))
    <3>1. \A i \in DOMAIN Append(es, e) : Append(es, e)[i] = e \/ \E j \in DOMAIN es : Append(es, e)[i] = es[j]
      BY <1>5
    <3>2. \E i \in DOMAIN Append(es, e) : Append(es, e)[i] = e
      <4>1. Len(es) + 1 \in DOMAIN Append(es, e) /\ Append(es, e)[Len(es) + 1] = e
        BY <1>5
      <4> QED  BY <4>1
    <3> HIDE DEF es
    <3> QED  BY <1>5, <3>1, <3>2 DEF IdsOf
  <2>3. s.entries = Append(es, e) /\ s.leaf = e.id /\ s.file = f
    BY <1>2 DEF es
  <2> QED  BY <1>5, <1>9, <1>12, <1>14, <2>1, <2>2, <2>3 DEF GoodManager
<1>17. ASSUME NEW k \in Managers, k # m
       PROVE  GoodManager(mgr[k], disk')
  <2>1. GoodManager(mgr[k], disk) /\ Placed(mgr[k], DOMAIN disk)
    BY DEF SoundState, StoreTyped
  <2>2. CASE mgr[k].file # f
    <3>1. mgr[k].flushed => disk'[mgr[k].file] = disk[mgr[k].file]
      BY <1>14, <2>1, <2>2 DEF Placed
    <3> QED  BY <2>1, <3>1 DEF GoodManager
  <2>3. CASE mgr[k].flushed /\ mgr[k].file = f
    <3> DEFINE ks == mgr[k].entries
    <3>1. ks \in Seq(EntryLine(c)) /\ IsSubsequence(ks, old)
      BY <1>1, <2>1, <2>3 DEF MgrTypeOK, Manager, GoodManager, old
    <3> HIDE DEF ks
    <3>2. IsSubsequence(ks, Append(old, e))
      BY <1>4, <1>8, <3>1, SubAppend
    <3> QED  BY <1>5, <1>12, <1>14, <2>1, <2>3, <3>2 DEF GoodManager, ks
  <2>4. CASE ~mgr[k].flushed
    BY <2>1, <2>4 DEF GoodManager
  <2> QED  BY <2>2, <2>3, <2>4
<1>18. mgr'[m] = s /\ \A k \in Managers : k # m => mgr'[k] = mgr[k]
  BY <1>1, BecomeStep
<1> QED  BY <1>15, <1>16, <1>17, <1>18 DEF SoundState

(* The branch of the i-th entry of a tree: entries at rising places, from a *)
(* root to this one.                                                        *)
Path(p, es, i) ==
  /\ p # <<>> /\ p[1].parent = 0
  /\ \E at \in [DOMAIN p -> 1 .. i] :
       /\ \A j, k \in DOMAIN p : j < k => at[j] < at[k]
       /\ \A k \in DOMAIN p : p[k] = es[at[k]]

(* The branch of an entry is the one of its parent and the entry.           *)
LEMMA PathExtends ==
  ASSUME NEW T, NEW es \in Seq(T), NEW i \in DOMAIN es, NEW j \in 1 .. i - 1,
         NEW p \in Seq(T), Path(p, es, j)
  PROVE  Path(Append(p, es[i]), es, i)
<1> DEFINE q == Append(p, es[i])
           n == Len(p)
<1>1. /\ n \in Nat /\ DOMAIN p = 1 .. n /\ DOMAIN q = 1 .. n + 1 /\ q[n + 1] = es[i]
      /\ (\A k \in 1 .. n : q[k] = p[k]) /\ i \in Nat /\ j \in Nat /\ j < i /\ 1 <= i
  OBVIOUS
<1>2. PICK at \in [DOMAIN p -> 1 .. j] :
        /\ \A l, k \in DOMAIN p : l < k => at[l] < at[k]
        /\ \A k \in DOMAIN p : p[k] = es[at[k]]
  BY DEF Path
<1>3. p # <<>> /\ p[1].parent = 0
  BY DEF Path
<1>4. 1 \in 1 .. n
  BY <1>1, <1>3
<1> HIDE DEF q, n
<1> DEFINE to == [k \in DOMAIN q |-> IF k = n + 1 THEN i ELSE at[k]]
<1>5. \A k \in 1 .. n : at[k] \in 1 .. j
  BY <1>1, <1>2
<1>6. to \in [DOMAIN q -> 1 .. i]
  BY <1>1, <1>5
<1>7. ASSUME NEW l \in DOMAIN q, NEW k \in DOMAIN q, l < k
      PROVE  to[l] < to[k]
  <2>1. l \in 1 .. n /\ to[l] = at[l]
    BY <1>1, <1>7
  <2>2. CASE k = n + 1
    BY <1>1, <1>5, <2>1, <2>2
  <2>3. CASE k # n + 1
    BY <1>1, <1>2, <1>7, <2>1, <2>3
  <2> QED  BY <2>2, <2>3
<1>8. ASSUME NEW k \in DOMAIN q
      PROVE  q[k] = es[to[k]]
  BY <1>1, <1>2
<1>9. q # <<>> /\ q[1].parent = 0
  BY <1>1, <1>3, <1>4
<1> HIDE DEF to
<1> QED  BY <1>6, <1>7, <1>8, <1>9 DEF Path, q

(* The branch of a root is the root.                                        *)
LEMMA PathStarts ==
  ASSUME NEW T, NEW es \in Seq(T), NEW i \in DOMAIN es, es[i].parent = 0
  PROVE  Path(Append(<<>>, es[i]), es, i)
<1> DEFINE q == <<es[i]>>
<1>1. Append(<<>>, es[i]) = q
  OBVIOUS
<1>2. DOMAIN q = {1} /\ q[1] = es[i] /\ q # <<>> /\ i \in Nat /\ 1 <= i
  OBVIOUS
<1> HIDE DEF q
<1> DEFINE to == [k \in {1} |-> i]
<1>3. to \in [DOMAIN q -> 1 .. i] /\ \A k \in DOMAIN q : q[k] = es[to[k]]
  BY <1>2
<1>4. \A j, k \in DOMAIN q : j < k => to[j] < to[k]
  BY <1>2
<1> QED  BY <1>1, <1>2, <1>3, <1>4 DEF Path

(* In a tree the way up from its i-th entry is found in i steps.            *)
LEMMA AscentPath ==
  ASSUME NEW T, NEW es \in Seq(T), Tree(es), 0 \notin IdsOf(es)
  PROVE  \A n \in 0 .. Len(es) : \A i \in 1 .. n : Path(Ascent(es)[n][es[i].id], es, i)
<1> DEFINE up == Ascent(es)
           N == Len(es)
           Rooted(n) == \A i \in 1 .. n : Path(up[n][es[i].id], es, i)
           Bad == {n \in 0 .. N : ~Rooted(n)}
<1>1. N \in Nat /\ DOMAIN es = 1 .. N
  OBVIOUS
<1>2. \A n \in 0 .. N : \A id \in Known(es) :
           /\ up[n][id] \in Seq(T)
           /\ n = 0 \/ id \notin IdsOf(es) => up[n][id] = <<>>
           /\ n # 0 /\ id \in IdsOf(es) =>
                up[n][id] = Append(up[n - 1][EntryOf(es, id).parent], EntryOf(es, id))
  BY AscentIs
<1> HIDE DEF up
<1>3. Rooted(0)
  OBVIOUS
<1>4. ASSUME NEW n \in 0 .. N, n # 0, Rooted(n - 1)
      PROVE  Rooted(n)
  <2>1. ASSUME NEW i \in 1 .. n
        PROVE  Path(up[n][es[i].id], es, i)
    <3> DEFINE id == es[i].id
    <3>1. i \in DOMAIN es /\ id \in IdsOf(es) /\ id \in Known(es) /\ id # 0
      BY <1>1, <1>4 DEF IdsOf, Known
    <3>2. EntryOf(es, id) = es[i]
      <4>1. PICK k \in DOMAIN es : EntryOf(es, id) = es[k]
        BY <3>1, EntryOfIs
      <4>2. es[k].id = id
        BY <3>1, <4>1, EntryOfIs
      <4> QED  BY <3>1, <4>1, <4>2 DEF Tree
    <3>3. up[n][id] = Append(up[n - 1][es[i].parent], es[i])
      BY <1>2, <1>4, <3>1, <3>2
    <3>4. es[i].parent \in Known(es) /\ n - 1 \in 0 .. N
      BY <1>1, <1>4, <3>1 DEF Known
    <3>5. CASE es[i].parent = 0
      <4>1. up[n - 1][es[i].parent] = <<>>
        BY <1>2, <3>4, <3>5
      <4> QED  BY <3>1, <3>3, <3>5, <4>1, PathStarts
    <3>6. CASE es[i].parent # 0
      <4>1. PICK j \in 1 .. i - 1 : es[j].id = es[i].parent
        BY <3>1, <3>6 DEF Tree
      <4>2. j \in 1 .. n - 1
        BY <1>4, <4>1
      <4>3. Path(up[n - 1][es[i].parent], es, j)
        BY <1>4, <4>1, <4>2
      <4>4. up[n - 1][es[i].parent] \in Seq(T)
        BY <1>2, <3>4
      <4> QED  BY <3>1, <3>3, <4>3, <4>4, PathExtends
    <3> QED  BY <3>5, <3>6
  <2> QED  BY <2>1
<1> HIDE DEF Rooted
<1>5. Bad = {}
  <2> SUFFICES ASSUME Bad # {} PROVE FALSE
    OBVIOUS
  <2>1. Bad \in SUBSET Nat
    OBVIOUS
  <2>2. PICK n \in Bad : \A k \in Bad : n <= k
    BY <2>1, LeastNumber, Zenon
  <2>3. n # 0
    BY <1>3
  <2>4. n - 1 \notin Bad /\ n - 1 \in 0 .. N /\ n \in 0 .. N
    BY <1>1, <2>2, <2>3
  <2>5. Rooted(n)
    BY <1>4, <2>3, <2>4
  <2> QED  BY <2>5
<1> QED  BY <1>5 DEF Rooted, up

(* So the branch of every entry leads to a root.                            *)
LEMMA BranchPath ==
  ASSUME NEW T, NEW es \in Seq(T), Tree(es), 0 \notin IdsOf(es), NEW leaf \in IdsOf(es)
  PROVE  \E i \in DOMAIN es : Path(Branch(es, leaf), es, i)
<1>1. PICK i \in DOMAIN es : es[i].id = leaf
  BY DEF IdsOf
<1>2. Len(es) \in 0 .. Len(es) /\ i \in 1 .. Len(es)
  OBVIOUS
<1>3. Path(Ascent(es)[Len(es)][es[i].id], es, i)
  BY <1>2, AscentPath
<1> QED  BY <1>1, <1>3, BranchIs

(* No entry is on a branch twice.                                           *)
LEMMA BranchDistinct ==
  ASSUME NEW T, NEW es \in Seq(T), Tree(es), 0 \notin IdsOf(es), NEW leaf \in IdsOf(es)
  PROVE  LET r == Unmarked(es, leaf)
         IN  \A j, k \in DOMAIN r : r[j].id = r[k].id => j = k
<1> DEFINE p == Branch(es, leaf)
           I == {i \in DOMAIN p : ~IsLabel(p[i])}
           r == At(p, I)
<1>1. p \in Seq(T)
  BY BranchType
<1>2. PICK i \in DOMAIN es : Path(p, es, i)
  BY BranchPath
<1>3. PICK at \in [DOMAIN p -> 1 .. i] :
       /\ \A j, k \in DOMAIN p : j < k => at[j] < at[k]
       /\ \A k \in DOMAIN p : p[k] = es[at[k]]
  BY <1>2 DEF Path
<1> HIDE DEF p
<1>4. ASSUME NEW j \in DOMAIN p, NEW k \in DOMAIN p, p[j].id = p[k].id
      PROVE  j = k
  <2>1. at[j] \in DOMAIN es /\ at[k] \in DOMAIN es /\ es[at[j]].id = es[at[k]].id /\ at[j] \in Nat
    BY <1>2, <1>3, <1>4
  <2>2. es[at[j]].id # 0
    BY <2>1 DEF IdsOf
  <2>3. at[j] = at[k]
    BY <2>1, <2>2 DEF Tree
  <2>4. ~(j < k) /\ ~(k < j) /\ j \in Nat /\ k \in Nat
    BY <1>1, <1>3, <2>1, <2>3
  <2> QED  BY <2>4
<1>5. I \in SUBSET DOMAIN p
  OBVIOUS
<1> HIDE DEF I
<1>6. /\ \A n \in DOMAIN r : Nth(I, n) \in I /\ r[n] = p[Nth(I, n)]
      /\ \A n, k \in DOMAIN r : n < k <=> Nth(I, n) < Nth(I, k)
  BY <1>1, <1>5, AtPlace
<1>7. r \in Seq(T)
  BY <1>1, <1>5, AtIs
<1> HIDE DEF r
<1>8. ASSUME NEW j \in DOMAIN r, NEW k \in DOMAIN r, r[j].id = r[k].id
      PROVE  j = k
  <2>1. Nth(I, j) = Nth(I, k) /\ Nth(I, j) \in Nat
    BY <1>1, <1>4, <1>5, <1>6, <1>8
  <2>2. ~(j < k) /\ ~(k < j) /\ j \in Nat /\ k \in Nat
    BY <1>6, <1>7, <2>1
  <2> QED  BY <2>2
<1>9. Unmarked(es, leaf) = r
  BY DEF Unmarked, Unlabelled, r, I, p
<1> QED  BY <1>8, <1>9

(* A manager without entries is sound.                                      *)
LEMMA BlankGood ==
  ASSUME NEW s, s.entries = <<>>, s.leaf = 0, ~s.flushed, NEW d
  PROVE  GoodManager(s, d)
  BY DEF GoodManager, Tree, IdsOf

(* While no write has been cut short each one is complete.                  *)
LEMMA WholeWrite ==
  ASSUME NEW b \in Nat, StoreTyped(b), NEW c \in Nat, b <= c, NEW f \in Files, NEW w \in Results(c), Store(f, w),
         tears' = 0
  PROVE  ~w.torn
<1>1. DiskTypeOK(c) /\ tears \in Nat
  BY Monotone DEF StoreTyped
<1> QED  BY <1>1, WriteStep

(* Calls that load a file or none.                                          *)
LEMMA OpenQuietSound ==
  ASSUME NEW b \in Nat, StoreTyped(b), SoundState(disk, mgr), NEW m \in Managers,
         \/ StartNew(m) \/ Exit(m)
         \/ \E f \in Files : OpenAbsent(m, f) \/ OpenEmpty(m, f) \/ OpenValid(m, f) \/ RefuseFile(m, f)
  PROVE  SoundState(disk', mgr')
<1>1. MgrTypeOK(b) /\ DiskTypeOK(b)
  BY DEF StoreTyped
<1>2. ASSUME NEW f \in Files, Become(m, Blank(f)), UNCHANGED <<disk, tears>>
      PROVE  SoundState(disk', mgr')
  <2>1. Blank(f) \in Manager(b) /\ GoodManager(Blank(f), disk)
    BY BlankType, BlankGood
  <2> QED  BY <1>1, <1>2, <2>1, QuietSound
<1>3. CASE StartNew(m)
  BY <1>2, <1>3 DEF StartNew
<1>4. CASE Exit(m)
  <2>1. Off \in Manager(b) /\ GoodManager(Off, disk)
    BY BlankType, BlankGood
  <2> QED  BY <1>1, <1>4, <2>1, QuietSound DEF Exit
<1>5. ASSUME NEW f \in Files, OpenAbsent(m, f)
      PROVE  SoundState(disk', mgr')
  BY <1>2, <1>5 DEF OpenAbsent
<1>6. ASSUME NEW f \in DOMAIN disk
      PROVE  LET ls == disk[f].lines
             IN  /\ ls \in Seq(Line(b)) /\ ls # <<>> /\ Values(f) = ls /\ Valid(ls)
                 /\ \A i \in 2 .. Len(ls) : IsEntry(ls[i])
                 /\ Tree(Tail(ls))
  <2>1. SoundFile(disk[f])
    BY DEF SoundState
  <2> QED  BY <1>1, <2>1, SoundValues DEF SoundFile
<1>7. ASSUME NEW f \in Files, OpenEmpty(m, f)
      PROVE  FALSE
  BY <1>6, <1>7 DEF OpenEmpty
<1>8. ASSUME NEW f \in Files, RefuseFile(m, f)
      PROVE  FALSE
  BY <1>6, <1>8 DEF RefuseFile
<1>9. ASSUME NEW f \in Files, OpenValid(m, f)
      PROVE  SoundState(disk', mgr')
  <2> DEFINE ls == disk[f].lines
             s  == Opened(f, ls)
  <2>1. f \in DOMAIN disk /\ Values(f) = ls /\ ls \in Seq(Line(b)) /\ ls # <<>> /\ Valid(ls)
        /\ (\A i \in 2 .. Len(ls) : IsEntry(ls[i])) /\ Tree(Tail(ls))
    BY <1>6, <1>9 DEF OpenValid
  <2>2. Become(m, s) /\ UNCHANGED <<disk, tears>> /\ ls[1].version = Version
    BY <1>9, <2>1 DEF OpenValid
  <2> HIDE DEF ls
  <2>3. s \in Manager(b) /\ s.file = f /\ s.entries = Loaded(ls) /\ s.leaf = LastId(Loaded(ls))
    BY <2>1, OpenedType
  <2>4. /\ Tree(Loaded(ls)) /\ 0 \notin IdsOf(Loaded(ls)) /\ IsSubsequence(Loaded(ls), Tail(ls))
        /\ LastId(Loaded(ls)) \in {0} \cup IdsOf(Loaded(ls))
    BY <2>1, LoadedSound
  <2> HIDE DEF s
  <2>5. GoodManager(s, disk)
    BY <2>2, <2>3, <2>4 DEF GoodManager, ls
  <2> QED  BY <1>1, <2>2, <2>3, <2>5, QuietSound
<1> QED  BY <1>3, <1>4, <1>5, <1>7, <1>8, <1>9

(* A new file that is written and opened.                                   *)
LEMMA OpenedSound ==
  ASSUME NEW b \in Nat, StoreTyped(b), NEW c \in Nat, b <= c, SoundState(disk, mgr), tears' = 0,
         NEW m \in Managers, NEW f \in Files, f \notin DOMAIN disk \/ disk[f].lines[1].version # Version,
         NEW ls \in Seq(Line(c)), ls # <<>>, ls[1].kind = "header", ls[1].version = Version,
         \A i \in 2 .. Len(ls) : IsEntry(ls[i]), Tree(Tail(ls)),
         NEW w \in Writes(NewFileOf(<<>>), ls), Store(f, w), w.ok => Become(m, Opened(f, ls))
  PROVE  SoundState(disk', mgr')
<1>1. w \in Results(c)
  BY NoLines, WritesType
<1>2. ~w.torn
  BY <1>1, WholeWrite
<1>3. w.ok /\ w.file.lines = ls /\ SoundFile(w.file)
  BY <1>2, NewFile
<1> DEFINE s == Opened(f, ls)
<1>4. s \in Manager(c) /\ s.file = f /\ s.entries = Loaded(ls) /\ s.leaf = LastId(Loaded(ls))
  BY OpenedType DEF Valid
<1>5. /\ Tree(Loaded(ls)) /\ 0 \notin IdsOf(Loaded(ls)) /\ IsSubsequence(Loaded(ls), Tail(ls))
      /\ LastId(Loaded(ls)) \in {0} \cup IdsOf(Loaded(ls))
  BY LoadedSound
<1>6. Become(m, s)
  BY <1>3
<1> HIDE DEF s
<1>7. GoodManager(s, [g \in {f} |-> w.file])
  BY <1>3, <1>4, <1>5 DEF GoodManager
<1> QED  BY <1>1, <1>3, <1>4, <1>6, <1>7, FileSound

(* A fork is a sound file.                                                  *)
LEMMA ForkSound ==
  ASSUME NEW b \in Nat, StoreTyped(b), SoundState(disk, mgr), tears' = 0,
         NEW m \in Managers, NEW src \in Files, NEW f \in Files, ForkFrom(m, src, f)
  PROVE  SoundState(disk', mgr')
<1> DEFINE vs == Values(src)
           ls == <<Header(f, Version)>> \o ForkCopy(vs)
<1>1. f \notin DOMAIN disk /\ src \in DOMAIN disk
  BY DEF ForkFrom, Unnamed
<1>2. SoundFile(disk[src]) /\ DiskTypeOK(b)
  BY <1>1 DEF SoundState, StoreTyped
<1>3. vs = disk[src].lines /\ Tail(vs) \in Seq(EntryLine(b)) /\ Tree(Tail(vs))
  BY <1>1, <1>2, SoundValues DEF SoundFile
<1>4. PICK w \in Writes(NewFileOf(<<>>), ls) : Store(f, w) /\ Become(m, IF w.ok THEN Opened(f, ls) ELSE Off)
  BY DEF ForkFrom
<1> DEFINE es == ForkCopy(vs)
<1>5. es \in Seq(EntryLine(b)) /\ Tree(es)
  BY <1>3 DEF ForkCopy
<1> HIDE DEF es
<1>6. es \in Seq(Line(b))
  BY <1>5, Monotone
<1>7. /\ ls \in Seq(Line(b)) /\ Len(ls) = Len(es) + 1 /\ ls[1] = Header(f, Version)
      /\ \A i \in 1 .. Len(es) : ls[i + 1] = es[i]
      /\ Tail(ls) = es /\ ls # <<>>
  BY <1>6, HeadedIs DEF es
<1> HIDE DEF ls
<1>8. \A i \in 2 .. Len(ls) : IsEntry(ls[i])
  <2> TAKE i \in 2 .. Len(ls)
  <2>1. i - 1 \in 1 .. Len(es) /\ ls[i] = es[i - 1]
    BY <1>7
  <2>2. es[i - 1] \in EntryLine(b)
    BY <1>5, <2>1
  <2>3. es[i - 1].kind # "header" /\ es[i - 1].kind # "broken"
    BY <2>2, NoHeaderIsEntry
  <2> QED  BY <2>1, <2>3 DEF IsEntry
<1>9. ls[1].kind = "header" /\ ls[1].version = Version
  BY <1>7 DEF Header
<1>10. w.ok => Become(m, Opened(f, ls))
  BY <1>4
<1>11. Tree(Tail(ls))
  BY <1>5, <1>7
<1>12. w \in Writes(NewFileOf(<<>>), ls) /\ Store(f, w)
  BY <1>4
<1>13. ls \in Seq(Line(b)) /\ ls # <<>>
  BY <1>7
<1> QED  BY <1>1, <1>8, <1>9, <1>10, <1>11, <1>12, <1>13, OpenedSound

(* A migrated file is a sound one.                                          *)
LEMMA LegacySound ==
  ASSUME NEW b \in Nat, StoreTyped(b), SoundState(disk, mgr), tears' = 0,
         NEW m \in Managers, NEW f \in Files, OpenLegacy(m, f)
  PROVE  SoundState(disk', mgr')
<1> DEFINE vs == Values(f)
           ls == Migrated(vs)
<1>1. f \in DOMAIN disk /\ vs[1].version < Version
  BY DEF OpenLegacy
<1>2. SoundFile(disk[f]) /\ DiskTypeOK(b)
  BY <1>1 DEF SoundState, StoreTyped
<1>3. /\ vs = disk[f].lines /\ vs \in Seq(Line(b)) /\ vs # <<>> /\ vs[1].kind = "header"
      /\ \A i \in 2 .. Len(vs) : IsEntry(vs[i])
  BY <1>1, <1>2, SoundValues DEF SoundFile
<1>4. disk[f].lines[1].version # Version
  BY <1>1, <1>3 DEF Version
<1>5. \A i \in DOMAIN vs : vs[i].kind # "broken"
  <2>1. \A i \in DOMAIN vs : i = 1 \/ i \in 2 .. Len(vs)
    BY <1>3
  <2> QED  BY <1>3, <2>1 DEF IsEntry
<1>6. PICK w \in Writes(NewFileOf(<<>>), ls) :
        Store(f, w) /\ (w.ok => Become(m, Opened(f, ls)))
  BY DEF OpenLegacy
<1> HIDE DEF vs, ls
<1>7. PICK c \in Nat :
           /\ b <= c /\ ls \in Seq(Line(c)) /\ Len(ls) = Len(vs)
           /\ ls[1] = [vs[1] EXCEPT !.version = Version]
           /\ \A i \in 2 .. Len(vs) :
                ls[i] = [vs[i] EXCEPT !.id = Fresh + i - 2, !.parent = IF i = 2 THEN 0 ELSE Fresh + i - 3]
  BY <1>3, <1>5, MigratedType DEF ls
<1>8. ls # <<>> /\ ls[1].kind = "header" /\ ls[1].version = Version
  <2>1. vs[1] \in Line(b)
    BY <1>3
  <2>2. vs[1] \in HeaderLine(b)
    BY <1>3, <2>1, LineFacts, Zenon
  <2>3. /\ [vs[1] EXCEPT !.version = Version].kind = "header"
        /\ [vs[1] EXCEPT !.version = Version].version = Version
    BY <2>2 DEF HeaderLine
  <2>4. ls[1].kind = "header" /\ ls[1].version = Version
    BY <1>7, <2>3
  <2>5. ls # <<>>
    <3>1. Len(vs) # 0
      <4>1. vs \in Seq(Line(b)) /\ vs # <<>>
        BY <1>3
      <4> QED  BY <4>1
    <3>2. Len(ls) = Len(vs)
      BY <1>7
    <3> QED  BY <3>1, <3>2
  <2> QED  BY <2>4, <2>5
<1>9. ASSUME NEW i \in 2 .. Len(vs)
      PROVE  /\ IsEntry(ls[i]) /\ ls[i].id = Fresh + i - 2
             /\ ls[i].parent = IF i = 2 THEN 0 ELSE Fresh + i - 3
  <2>1. vs[i] \in Line(b) /\ IsEntry(vs[i])
    BY <1>3
  <2>2. vs[i] \in EntryLine(b)
    BY <2>1, LineFacts, Zenon
  <2>3. ls[i] = [vs[i] EXCEPT !.id = Fresh + i - 2, !.parent = IF i = 2 THEN 0 ELSE Fresh + i - 3]
    BY <1>7
  <2>4. ls[i].kind = vs[i].kind /\ ls[i].id = Fresh + i - 2
        /\ ls[i].parent = IF i = 2 THEN 0 ELSE Fresh + i - 3
    BY <2>2, <2>3 DEF EntryLine
  <2> QED  BY <2>1, <2>4 DEF IsEntry
<1>10. Tree(Tail(ls))
  <2> DEFINE t == Tail(ls)
  <2>1. /\ t \in Seq(Line(c)) /\ Len(ls) \in Nat /\ Len(t) = Len(ls) - 1
        /\ \A i \in 1 .. Len(ls) - 1 : t[i] = ls[i + 1]
    <3>1. ls \in Seq(Line(c)) /\ ls # <<>>
      BY <1>7, <1>8
    <3> QED  BY <3>1
  <2> HIDE DEF t
  <2>2. Fresh \in Nat
    BY FreshIs
  <2>3. ASSUME NEW i \in DOMAIN t
        PROVE  /\ i \in Nat /\ t[i].id = Fresh + i - 1
               /\ t[i].parent = IF i = 1 THEN 0 ELSE Fresh + i - 2
    <3>1. i \in 1 .. Len(ls) - 1
      BY <2>1
    <3>2. i + 1 \in 2 .. Len(vs) /\ t[i] = ls[i + 1]
      <4>1. Len(vs) = Len(ls)
        BY <1>7
      <4> QED  BY <2>1, <3>1, <4>1
    <3> QED  BY <1>9, <2>2, <3>1, <3>2
  <2>4. \A i, j \in DOMAIN t : t[i].id = t[j].id => i = j
    BY <2>2, <2>3
  <2>5. \A i \in DOMAIN t : t[i].parent = IF i = 1 THEN 0 ELSE t[i - 1].id
    <3> TAKE i \in DOMAIN t
    <3>1. i # 1 => i - 1 \in DOMAIN t
      BY <2>1
    <3> QED  BY <2>2, <2>3, <3>1
  <2>6. Tree(t)
    BY <2>1, <2>4, <2>5, TreeChain
  <2> QED  BY <2>6 DEF t
<1>11. \A i \in 2 .. Len(ls) : IsEntry(ls[i])
  BY <1>7, <1>9
<1> QED  BY <1>4, <1>6, <1>7, <1>8, <1>10, <1>11, OpenedSound

(* The ids after an append.                                                 *)
LEMMA IdsAppend ==
  ASSUME NEW T, NEW es \in Seq(T), NEW e \in T
  PROVE  IdsOf(Append(es, e)) = IdsOf(es) \cup {e.id}
<1> DEFINE S == Append(es, e)
           n == Len(es)
<1>1. /\ n \in Nat /\ DOMAIN es = 1 .. n /\ DOMAIN S = 1 .. n + 1 /\ S[n + 1] = e
      /\ \A i \in 1 .. n : S[i] = es[i]
  OBVIOUS
<1> HIDE DEF S, n
<1>2. ASSUME NEW i \in DOMAIN S
      PROVE  S[i].id \in IdsOf(es) \cup {e.id}
  BY <1>1 DEF IdsOf
<1>3. \A i \in DOMAIN es : S[i].id = es[i].id /\ i \in DOMAIN S
  BY <1>1
<1>4. n + 1 \in DOMAIN S /\ S[n + 1].id = e.id
  BY <1>1
<1>5. IdsOf(S) \subseteq IdsOf(es) \cup {e.id}
  BY <1>2 DEF IdsOf
<1>6. IdsOf(es) \subseteq IdsOf(S) /\ e.id \in IdsOf(S)
  BY <1>3, <1>4 DEF IdsOf
<1> QED  BY <1>5, <1>6 DEF S

(* An append to memory, a first write and a line that is added keep the     *)
(* store sound.                                                             *)
LEMMA AppendSound ==
  ASSUME NEW b \in Nat, StoreTyped(b), SoundState(disk, mgr), tears' = 0,
         NEW m \in Managers, NEW e \in EntryLine(b + 1), AppendEntry(m, e), e.id = Fresh,
         e.parent = mgr[m].leaf \/ e.parent \in {0} \cup IdsOf(mgr[m].entries)
  PROVE  SoundState(disk', mgr')
<1> DEFINE s == mgr[m]
           es == Append(s.entries, e)
           c == b + 1
<1>1. c \in Nat /\ b <= c /\ e \in EntryLine(c) /\ s \in Manager(b) /\ DiskTypeOK(b) /\ MgrTypeOK(b)
  BY ManagerIs DEF StoreTyped
<1>2. /\ s.on /\ s.file \in Files /\ s.flushed \in BOOLEAN /\ s.entries \in Seq(EntryLine(b))
      /\ (s.flushed => s.file \in DOMAIN disk) /\ s.sid \in Files \cup {"none"}
  BY <1>1, AppendIs, ManagerIs DEF Placed, Manager
<1>3. GoodManager(s, disk)
  BY DEF SoundState
<1>4. e.parent \in {0} \cup IdsOf(s.entries)
  BY <1>3 DEF GoodManager
<1>5. Fresh \in Nat /\ Fresh # 0 /\ e.id # 0
  BY FreshIs
<1>6. e.id \notin IdsOf(s.entries)
  <2>1. \A i \in DOMAIN mgr[m].entries : mgr[m].entries[i].id < Fresh /\ mgr[m].entries[i].id \in Nat
    <3>1. \A i \in DOMAIN mgr[m].entries : mgr[m].entries[i] \in EntryLine(b)
      BY <1>2
    <3> QED  BY <3>1, FreshIs DEF EntryLine
  <2> QED  BY <1>5, <2>1 DEF IdsOf
<1>7. \A f \in DOMAIN disk : e.id \notin IdsOf(disk[f].lines)
  <2>1. \A f \in DOMAIN disk : \A i \in DOMAIN disk[f].lines : disk[f].lines[i].id < Fresh
    BY FreshIs
  <2> QED  BY <1>5, <2>1 DEF IdsOf
<1>8. /\ Tree(s.entries) /\ 0 \notin IdsOf(s.entries)
      /\ s.flushed => IsSubsequence(s.entries, Tail(disk[s.file].lines))
  BY <1>3 DEF GoodManager
<1> HIDE DEF c, s
<1>9. s.entries \in Seq(EntryLine(c)) /\ s \in Manager(c) /\ MgrTypeOK(c) /\ DiskTypeOK(c)
  BY <1>1, <1>2, Monotone
<1>10. /\ es \in Seq(EntryLine(c)) /\ Tree(es) /\ 0 \notin IdsOf(es) /\ e.id \in IdsOf(es)
  <2>1. Tree(es)
    BY <1>1, <1>4, <1>6, <1>8, <1>9, TreeAppend
  <2>2. IdsOf(es) = IdsOf(s.entries) \cup {e.id}
    BY <1>1, <1>9, IdsAppend
  <2>3. es \in Seq(EntryLine(c))
    BY <1>1, <1>9
  <2> QED  BY <1>5, <1>8, <2>1, <2>2, <2>3
<1> HIDE DEF es
<1>11. ASSUME NEW flushed \in BOOLEAN, NEW raised \in BOOLEAN
       PROVE  LET t == After(s, e, flushed, raised)
              IN  t \in Manager(c) /\ t.entries = es /\ t.leaf = e.id /\ t.file = s.file /\ t.flushed = flushed
  BY <1>1, AfterIs DEF es
<1>12. ASSUME NEW flushed \in BOOLEAN, NEW raised \in BOOLEAN, NEW d, ~flushed
       PROVE  GoodManager(After(s, e, flushed, raised), d)
  BY <1>10, <1>11, <1>12 DEF GoodManager
<1>13. CASE Waits(s, es) /\ Become(m, After(s, e, s.flushed, FALSE)) /\ UNCHANGED <<disk, tears>>
  <2>1. ~s.flushed
    BY <1>13 DEF Waits
  <2> DEFINE t == After(s, e, s.flushed, FALSE)
  <2>2. t \in Manager(c) /\ GoodManager(t, disk) /\ Become(m, t)
    BY <1>2, <1>11, <1>12, <1>13, <2>1
  <2> HIDE DEF t
  <2> QED  BY <1>1, <1>9, <1>13, <2>2, QuietSound
<1>14. ASSUME s.flushed, NEW w \in Writes(disk[s.file], <<e>>), Store(s.file, w),
              Become(m, After(s, e, s.flushed \/ w.ok, ~w.ok))
       PROVE  SoundState(disk', mgr')
  <2>1. disk[s.file] \in File(c) /\ <<e>> \in Seq(Line(c))
    BY <1>1, <1>2, <1>9, <1>14 DEF DiskTypeOK, Line
  <2>2. w \in Results(c)
    BY <1>1, <2>1, WritesType
  <2>3. ~w.torn
    BY <1>1, <1>2, <1>14, <2>2, WholeWrite
  <2>4. w.ok \in BOOLEAN
    BY <2>2 DEF Results
  <2> DEFINE t == After(s, e, s.flushed \/ w.ok, ~w.ok)
  <2>5. t \in Manager(c) /\ t.entries = es /\ t.leaf = e.id /\ t.file = s.file
    BY <1>2, <1>11, <2>4
  <2>6. Become(m, t)
    BY <1>14
  <2> HIDE DEF t
  <2>7. t.entries = Append(mgr[m].entries, e) /\ t.file = mgr[m].file /\ mgr[m].flushed
        /\ e.parent \in {0} \cup IdsOf(mgr[m].entries)
    BY <1>4, <1>14, <2>5 DEF es, s
  <2>8. w \in Writes(disk[t.file], <<e>>) /\ Store(t.file, w) /\ e.id \notin IdsOf(disk[t.file].lines)
    BY <1>2, <1>7, <1>14, <2>5
  <2> QED  BY <1>1, <1>5, <2>3, <2>5, <2>6, <2>7, <2>8, LineSound
<1>15. ASSUME ~s.flushed, NEW w \in Flush(s, es), Store(s.file, w),
              Become(m, After(s, e, s.flushed \/ w.ok, ~w.ok))
       PROVE  SoundState(disk', mgr')
  <2>1. w \in Results(c)
    BY <1>1, <1>10, <1>15, FlushType
  <2>2. w.ok \in BOOLEAN /\ ~w.torn
    BY <1>1, <1>2, <1>15, <2>1, WholeWrite DEF Results
  <2> DEFINE t == After(s, e, s.flushed \/ w.ok, ~w.ok)
  <2>3. t \in Manager(c) /\ t.entries = es /\ t.leaf = e.id /\ t.file = s.file
        /\ t.flushed = w.ok
    BY <1>2, <1>11, <1>15, <2>2
  <2>4. Become(m, t)
    BY <1>15
  <2> HIDE DEF t
  <2>5. CASE s.file \in DOMAIN disk
    <3>1. w = Outcome(disk[s.file], FALSE, FALSE)
      BY <1>15, <2>5 DEF Flush
    <3>2. w.file = disk[s.file] /\ ~w.ok
      BY <3>1 DEF Outcome
    <3>3. disk' = [g \in DOMAIN disk \cup {s.file} |-> IF g = s.file THEN w.file ELSE disk[g]] /\ tears' = tears
      BY <1>15, <2>2 DEF Store, StoreTyped
    <3>4. disk' = disk
      BY <1>1, <2>5, <3>2, <3>3 DEF DiskTypeOK
    <3>5. GoodManager(t, disk)
      BY <1>10, <2>3, <3>2 DEF GoodManager
    <3> QED  BY <1>1, <1>9, <2>3, <2>4, <3>3, <3>4, <3>5, QuietSound
  <2>6. CASE s.file \notin DOMAIN disk
    <3> DEFINE ls == <<Header(s.sid, Version)>> \o es
    <3>1. w \in Writes(NewFileOf(<<>>), ls)
      BY <1>15, <2>6 DEF Flush
    <3>2. es \in Seq(Line(c))
      BY <1>1, <1>10, Monotone
    <3>3. /\ ls \in Seq(Line(c)) /\ Len(ls) = Len(es) + 1 /\ ls[1] = Header(s.sid, Version)
          /\ \A i \in 1 .. Len(es) : ls[i + 1] = es[i]
          /\ Tail(ls) = es /\ ls # <<>>
      BY <1>1, <1>2, <3>2, HeadedIs
    <3> HIDE DEF ls
    <3>4. \A i \in 2 .. Len(ls) : IsEntry(ls[i])
      <4> TAKE i \in 2 .. Len(ls)
      <4>1. i - 1 \in 1 .. Len(es) /\ ls[i] = es[i - 1]
        BY <3>3
      <4>2. es[i - 1] \in EntryLine(c)
        BY <1>10, <4>1
      <4>3. es[i - 1].kind # "header" /\ es[i - 1].kind # "broken"
        BY <1>1, <4>2, NoHeaderIsEntry
      <4> QED  BY <4>1, <4>3 DEF IsEntry
    <3>5. ls[1].kind = "header" /\ ls[1].version = Version
      BY <3>3 DEF Header
    <3>6. w.ok /\ w.file.lines = ls /\ SoundFile(w.file)
      <4>1. Tree(Tail(ls)) /\ ls \in Seq(Line(c)) /\ ls # <<>>
        BY <1>10, <3>3
      <4> QED  BY <1>1, <2>2, <3>1, <3>4, <3>5, <4>1, NewFile
    <3>7. IsSubsequence(es, es)
      <4>1. \A i, j \in DOMAIN es : es[i] = es[j] => i = j
        BY <1>10 DEF Tree, IdsOf
      <4> QED  BY <1>10, <4>1, SubSelf
    <3>8. GoodManager(t, [g \in {s.file} |-> w.file])
      BY <1>10, <2>3, <3>3, <3>5, <3>6, <3>7 DEF GoodManager
    <3> QED  BY <1>1, <1>2, <1>15, <2>1, <2>3, <2>4, <2>6, <3>6, <3>8, FileSound
  <2> QED  BY <2>5, <2>6
<1>16. \/ Waits(s, es) /\ Become(m, After(s, e, s.flushed, FALSE)) /\ UNCHANGED <<disk, tears>>
       \/ /\ s.flushed
          /\ \E w \in Writes(disk[s.file], <<e>>) :
               Store(s.file, w) /\ Become(m, After(s, e, s.flushed \/ w.ok, ~w.ok))
       \/ /\ ~s.flushed /\ ~Waits(s, es)
          /\ \E w \in Flush(s, es) :
               Store(s.file, w) /\ Become(m, After(s, e, s.flushed \/ w.ok, ~w.ok))
  BY AppendIs DEF s, es
<1> QED  BY <1>13, <1>14, <1>15, <1>16

(* The leaf stays on the tree.                                              *)
LEMMA MoveLeafSound ==
  ASSUME NEW b \in Nat, StoreTyped(b), SoundState(disk, mgr), NEW m \in Managers, MoveLeaf(m)
  PROVE  SoundState(disk', mgr')
<1>1. PICK id \in {0} \cup IdsOf(mgr[m].entries) : Become(m, [mgr[m] EXCEPT !.leaf = id])
  BY DEF MoveLeaf
<1>2. mgr[m] \in Manager(b) /\ id \in Nat /\ MgrTypeOK(b) /\ GoodManager(mgr[m], disk)
  BY ManagerIs, IdsNat DEF StoreTyped, SoundState
<1> DEFINE s == [mgr[m] EXCEPT !.leaf = id]
<1>3. s \in Manager(b) /\ s.file = mgr[m].file /\ s.flushed = mgr[m].flushed
      /\ s.entries = mgr[m].entries /\ s.leaf = id
  BY <1>2 DEF Manager
<1>4. Become(m, s) /\ UNCHANGED <<disk, tears>>
  BY <1>1 DEF MoveLeaf
<1> HIDE DEF s
<1>5. GoodManager(s, disk)
  BY <1>1, <1>2, <1>3 DEF GoodManager
<1> QED  BY <1>2, <1>3, <1>4, <1>5, QuietSound

(* A branched session is a chain of entries that differ.                    *)
LEMMA BranchedSound ==
  ASSUME NEW b \in Nat, StoreTyped(b), NEW m \in Managers, GoodManager(mgr[m], disk),
         NEW leaf \in IdsOf(mgr[m].entries)
  PROVE  LET new == Branched(mgr[m].entries, leaf)
         IN  /\ Tree(new) /\ 0 \notin IdsOf(new)
             /\ \A i, j \in DOMAIN new : new[i] = new[j] => i = j
<1> DEFINE es == mgr[m].entries
           r == Unmarked(es, leaf)
           t == Targets(es, leaf)
           new == Branched(es, leaf)
           N == Len(r) + Len(t)
<1>1. es \in Seq(EntryLine(b)) /\ Tree(es) /\ 0 \notin IdsOf(es)
  BY ManagerIs DEF GoodManager
<1>2. r \in Seq(EntryLine(b)) /\ IdsOf(r) \subseteq IdsOf(es)
  BY <1>1, PartsIs
<1>3. \A j, k \in DOMAIN r : r[j].id = r[k].id => j = k
  BY <1>1, BranchDistinct
<1>4. /\ Len(r) \in Nat /\ Len(t) \in Nat /\ Len(new) = Len(r) + Len(t)
      /\ \A i \in 1 .. Len(r) : new[i].id = r[i].id
      /\ \A i \in 1 .. Len(t) : new[Len(r) + i].id = Fresh + i - 1
      /\ \A i \in 1 .. Len(r) + Len(t) : new[i].parent = IF i = 1 THEN 0 ELSE new[i - 1].id
      /\ \E c \in Nat : b <= c /\ new \in Seq(EntryLine(c))
  BY <1>1, BranchedIs
<1>5. \A id \in IdsOf(es) : id \in Nat /\ id < Fresh
  <2>1. \A i \in DOMAIN mgr[m].entries : mgr[m].entries[i].id < Fresh
    BY FreshIs
  <2> QED  BY <1>1, <2>1, IdsNat DEF IdsOf
<1>6. Fresh \in Nat /\ Fresh # 0
  BY FreshIs
<1> HIDE DEF r, t, new, es
<1>7. \A i \in 1 .. Len(r) : r[i].id \in IdsOf(es)
  <2>1. DOMAIN r = 1 .. Len(r)
    BY <1>2
  <2>2. \A i \in DOMAIN r : r[i].id \in IdsOf(r)
    BY DEF IdsOf
  <2> QED  BY <1>2, <2>1, <2>2
<1>8. PICK c \in Nat : new \in Seq(EntryLine(c))
  BY <1>4
<1>9. DOMAIN new = 1 .. N /\ N \in Nat
  BY <1>4, <1>8
<1>10. ASSUME NEW i \in 1 .. N
       PROVE  IF i <= Len(r) THEN new[i].id = r[i].id /\ new[i].id < Fresh /\ new[i].id # 0 /\ new[i].id \in Nat
                             ELSE new[i].id = Fresh + (i - Len(r)) - 1
  <2>1. CASE i <= Len(r)
    <3>1. i \in 1 .. Len(r)
      BY <1>4, <2>1
    <3>2. new[i].id = r[i].id /\ r[i].id \in IdsOf(es)
      BY <1>4, <1>7, <3>1
    <3> QED  BY <1>1, <1>5, <2>1, <3>2
  <2>2. CASE ~(i <= Len(r))
    <3>1. i - Len(r) \in 1 .. Len(t) /\ Len(r) + (i - Len(r)) = i
      BY <1>4, <2>2
    <3>2. new[Len(r) + (i - Len(r))].id = Fresh + (i - Len(r)) - 1
      BY <1>4, <3>1
    <3> QED  BY <2>2, <3>1, <3>2
  <2> QED  BY <2>1, <2>2
<1>11. ASSUME NEW i \in 1 .. N, NEW j \in 1 .. N, new[i].id = new[j].id
       PROVE  i = j
  <2>1. CASE i <= Len(r) /\ j <= Len(r)
    <3>1. i \in DOMAIN r /\ j \in DOMAIN r /\ r[i].id = r[j].id
      BY <1>2, <1>4, <1>10, <1>11, <2>1
    <3> QED  BY <1>3, <3>1
  <2>2. CASE i <= Len(r) /\ ~(j <= Len(r))
    BY <1>4, <1>6, <1>10, <1>11, <2>2
  <2>3. CASE ~(i <= Len(r)) /\ j <= Len(r)
    BY <1>4, <1>6, <1>10, <1>11, <2>3
  <2>4. CASE ~(i <= Len(r)) /\ ~(j <= Len(r))
    BY <1>4, <1>6, <1>10, <1>11, <2>4
  <2> QED  BY <2>1, <2>2, <2>3, <2>4
<1>12. Tree(new)
  BY <1>4, <1>8, <1>9, <1>11, TreeChain
<1>13. 0 \notin IdsOf(new)
  <2>1. \A i \in 1 .. N : new[i].id # 0
    <3> TAKE i \in 1 .. N
    <3>1. CASE i <= Len(r)
      BY <1>10, <3>1
    <3>2. CASE ~(i <= Len(r))
      BY <1>4, <1>6, <1>10, <3>2
    <3> QED  BY <3>1, <3>2
  <2> QED  BY <1>9, <2>1 DEF IdsOf
<1>14. \A i, j \in DOMAIN new : new[i] = new[j] => i = j
  BY <1>9, <1>11
<1> QED  BY <1>12, <1>13, <1>14 DEF new, es

(* createBranchedSession keeps the store sound.                             *)
LEMMA CreateSound ==
  ASSUME NEW b \in Nat, StoreTyped(b), SoundState(disk, mgr), tears' = 0,
         NEW m \in Managers, NEW f \in Files, NEW leaf \in IdsOf(mgr[m].entries),
         CreateBranchedSession(m, leaf, f)
  PROVE  SoundState(disk', mgr')
<1> DEFINE es == Branched(mgr[m].entries, leaf)
           ls == <<Header(f, Version)>> \o es
<1>1. PICK c \in Nat : b <= c /\ es \in Seq(EntryLine(c))
  BY BranchedIs, ManagerIs
<1>2. /\ Tree(es) /\ 0 \notin IdsOf(es) /\ \A i, j \in DOMAIN es : es[i] = es[j] => i = j
  BY BranchedSound DEF SoundState
<1>3. f \notin DOMAIN disk
  BY DEF CreateBranchedSession, Unnamed
<1>4. \/ Become(m, NewSession(f, es, Blank(f).flushed, Blank(f).raised)) /\ UNCHANGED <<disk, tears>>
      \/ \E w \in Writes(NewFileOf(<<>>), ls) : Store(f, w) /\ Become(m, NewSession(f, es, w.ok, ~w.ok))
  BY CreateIs
<1> HIDE DEF es
<1>5. LastId(es) \in {0} \cup IdsOf(es)
  BY <1>1, LastIdIs
<1>6. ASSUME NEW ok \in BOOLEAN, NEW raised \in BOOLEAN
      PROVE  LET s == NewSession(f, es, ok, raised)
             IN  s \in Manager(c) /\ s.flushed = ok /\ s.file = f /\ s.entries = es /\ s.leaf = LastId(es)
  BY <1>1, NewSessionIs
<1>7. es \in Seq(Line(c))
  BY <1>1, Monotone
<1>8. /\ ls \in Seq(Line(c)) /\ Len(ls) = Len(es) + 1 /\ ls[1] = Header(f, Version)
      /\ \A i \in 1 .. Len(es) : ls[i + 1] = es[i]
      /\ Tail(ls) = es /\ ls # <<>>
  BY <1>7, HeadedIs
<1> HIDE DEF ls
<1>9. CASE Become(m, NewSession(f, es, Blank(f).flushed, Blank(f).raised)) /\ UNCHANGED <<disk, tears>>
  <2> DEFINE s == NewSession(f, es, FALSE, FALSE)
  <2>1. Blank(f).flushed = FALSE /\ Blank(f).raised = FALSE
    BY DEF Blank, Off
  <2>2. s \in Manager(c) /\ s.flushed = FALSE /\ s.entries = es /\ s.leaf = LastId(es) /\ Become(m, s)
    BY <1>6, <1>9, <2>1
  <2> HIDE DEF s
  <2>3. GoodManager(s, disk)
    BY <1>2, <1>5, <2>2 DEF GoodManager
  <2>4. MgrTypeOK(c)
    BY <1>1, Monotone DEF StoreTyped
  <2> QED  BY <1>9, <2>2, <2>3, <2>4, QuietSound
<1>10. ASSUME NEW w \in Writes(NewFileOf(<<>>), ls), Store(f, w), Become(m, NewSession(f, es, w.ok, ~w.ok))
      PROVE  SoundState(disk', mgr')
  <2>1. w \in Results(c)
    BY <1>8, NoLines, WritesType
  <2>2. ~w.torn /\ w.ok \in BOOLEAN
    BY <1>1, <1>10, <2>1, WholeWrite DEF Results
  <2>3. ls[1].kind = "header" /\ ls[1].version = Version
    BY <1>8 DEF Header
  <2>4. \A i \in 2 .. Len(ls) : IsEntry(ls[i])
    <3> TAKE i \in 2 .. Len(ls)
    <3>1. i - 1 \in 1 .. Len(es) /\ ls[i] = es[i - 1]
      BY <1>1, <1>8
    <3>2. es[i - 1] \in EntryLine(c)
      BY <1>1, <3>1
    <3>3. es[i - 1].kind # "header" /\ es[i - 1].kind # "broken"
      BY <3>2, NoHeaderIsEntry
    <3> QED  BY <3>1, <3>3 DEF IsEntry
  <2>5. w.ok /\ w.file.lines = ls /\ SoundFile(w.file)
    <3>1. Tree(Tail(ls)) /\ ls \in Seq(Line(c)) /\ ls # <<>>
      BY <1>2, <1>8
    <3> QED  BY <2>2, <2>3, <2>4, <3>1, NewFile
  <2>6. IsSubsequence(es, es)
    BY <1>1, <1>2, SubSelf
  <2> DEFINE s == NewSession(f, es, w.ok, ~w.ok)
  <2>7. s \in Manager(c) /\ s.file = f /\ s.entries = es /\ s.leaf = LastId(es)
    BY <1>6, <2>2, Zenon
  <2>8. Become(m, s)
    BY <1>10
  <2> HIDE DEF s
  <2>9. GoodManager(s, [g \in {f} |-> w.file])
    BY <1>2, <1>5, <1>8, <2>3, <2>5, <2>6, <2>7 DEF GoodManager
  <2> QED  BY <1>1, <1>3, <1>10, <2>1, <2>5, <2>7, <2>8, <2>9, FileSound
<1> QED  BY <1>4, <1>9, <1>10

(* Until a write is cut short, every file is sound, and every manager's     *)
(* entries are a tree that its file has in its order.                       *)
LEMMA StepSound ==
  ASSUME StoreInv, [StoreNext]_storeVars
  PROVE  StoreInv'
<1>1. StoreTypeOK'
  BY StoreStepTyped DEF StoreInv
<1>2. PICK b \in Nat : StoreTyped(b)
  BY DEF StoreInv, StoreTypeOK
<1>3. ASSUME tears' = 0
      PROVE  SoundState(disk', mgr')
  <2>1. CASE UNCHANGED storeVars
    BY <1>3, <2>1 DEF storeVars, StoreInv
  <2>2. CASE StoreNext
    <3>1. PICK m \in Managers :
            \/ StartNew(m) \/ Exit(m) \/ AppendMessage(m) \/ AppendLabelChange(m)
            \/ MoveLeaf(m) \/ BranchWithSummary(m)
            \/ \E f \in Files :
                 \/ Open(m, f)
                 \/ \E src \in Files : ForkFrom(m, src, f)
                 \/ \E leaf \in IdsOf(mgr[m].entries) : CreateBranchedSession(m, leaf, f)
      BY <2>2 DEF StoreNext
    <3>2. tears = 0
      <4>1. PICK k \in Managers : Does(b, k)
        BY <1>2, <2>2, StepDoes
      <4>2. PICK c \in Nat : b <= c /\ \E s \in Manager(c) : Ends(c, k, s)
        BY <4>1 DEF Does
      <4>3. DiskTypeOK(c) /\ tears \in Nat
        BY <1>2, <4>2, Monotone DEF StoreTyped
      <4>4. ASSUME NEW f \in Files, NEW w \in Results(c), Wrote(c, f, w)
            PROVE  tears = 0
        BY <1>3, <4>3, <4>4, WriteStep DEF Wrote
      <4> QED  BY <1>3, <4>2, <4>4 DEF Ends
    <3>3. SoundState(disk, mgr)
      BY <3>2 DEF StoreInv
    <3>4. CASE StartNew(m) \/ Exit(m)
      BY <1>2, <3>3, <3>4, OpenQuietSound
    <3>5. CASE AppendMessage(m) \/ AppendLabelChange(m) \/ BranchWithSummary(m)
      <4>1. PICK e \in EntryLine(b + 1) :
              /\ AppendEntry(m, e) /\ e.id = Fresh
              /\ e.parent = mgr[m].leaf \/ e.parent \in {0} \cup IdsOf(mgr[m].entries)
        BY <1>2, <3>5, AppendedIs
      <4> QED  BY <1>2, <1>3, <3>3, <4>1, AppendSound
    <3>6. CASE MoveLeaf(m)
      BY <1>2, <3>3, <3>6, MoveLeafSound
    <3>7. ASSUME NEW f \in Files, Open(m, f)
          PROVE  SoundState(disk', mgr')
      <4>1. CASE OpenLegacy(m, f)
        BY <1>2, <1>3, <3>3, <4>1, LegacySound
      <4>2. CASE OpenAbsent(m, f) \/ OpenEmpty(m, f) \/ OpenValid(m, f) \/ RefuseFile(m, f)
        BY <1>2, <3>3, <4>2, OpenQuietSound
      <4> QED  BY <3>7, <4>1, <4>2 DEF Open
    <3>8. ASSUME NEW f \in Files, NEW src \in Files, ForkFrom(m, src, f)
          PROVE  SoundState(disk', mgr')
      BY <1>2, <1>3, <3>3, <3>8, ForkSound
    <3>9. ASSUME NEW f \in Files, NEW leaf \in IdsOf(mgr[m].entries), CreateBranchedSession(m, leaf, f)
          PROVE  SoundState(disk', mgr')
      BY <1>2, <1>3, <3>3, <3>9, CreateSound
    <3> QED  BY <3>1, <3>4, <3>5, <3>6, <3>7, <3>8, <3>9
  <2> QED  BY <2>1, <2>2
<1> QED  BY <1>1, <1>3 DEF StoreInv

(* The store is sound at the start.                                         *)
LEMMA InitSound ==
  ASSUME StoreInit
  PROVE  StoreInv
<1>1. StoreTypeOK
  BY StoreInitTyped
<1>2. disk = [f \in use.legacy |-> NewFileOf(LegacyLines(f))] /\ mgr = [m \in Managers |-> Off]
  BY DEF StoreInit
<1>3. ASSUME NEW f \in DOMAIN disk
      PROVE  SoundFile(disk[f])
  <2>1. disk[f] = NewFileOf(LegacyLines(f))
    BY <1>2
  <2> DEFINE ls == LegacyLines(f)
             t == Tail(ls)
  <2>2. t = <<Entry("user", 0, 0), Entry("assistant", 0, 0)>>
    BY DEF LegacyLines
  <2>3. Tree(t)
    <3> HIDE DEF t
    <3>1. DOMAIN t = 1 .. 2 /\ t[1] = Entry("user", 0, 0) /\ t[2] = Entry("assistant", 0, 0)
      BY <2>2
    <3>2. \A i \in DOMAIN t : t[i].id = 0
      BY <3>1 DEF Entry
    <3> QED  BY <3>2 DEF Tree
  <2>4. ls # <<>> /\ ls[1].kind = "header" /\ Len(ls) = 3 /\ IsEntry(ls[2]) /\ IsEntry(ls[3])
    BY DEF LegacyLines, Header, Entry, IsEntry
  <2>5. \A i \in 2 .. Len(ls) : IsEntry(ls[i])
    BY <2>4
  <2>6. NewFileOf(ls).lines = ls /\ NewFileOf(ls).open = FALSE
    BY DEF NewFileOf
  <2> HIDE DEF ls
  <2> QED  BY <2>1, <2>3, <2>4, <2>5, <2>6 DEF SoundFile, ls
<1>4. \A m \in Managers : GoodManager(mgr[m], disk)
  BY <1>2, BlankType, BlankGood
<1> QED  BY <1>1, <1>3, <1>4 DEF StoreInv, SoundState

(* The invariant, for every number of managers, files, entries and cut      *)
(* writes.                                                                  *)
THEOREM StoreInvariance == StoreSpec => []StoreInv
<1>1. StoreInit => StoreInv
  BY InitSound
<1>2. StoreInv /\ [StoreNext]_storeVars => StoreInv'
  BY StepSound
<1> QED  BY <1>1, <1>2, PTL DEF StoreSpec

(* OwnEntriesSaved: until a write is cut short, what a manager has flushed  *)
(* is in its file, in its order, whoever else appends to that file          *)
(* (_append_entry, open, createBranchedSession).                            *)
THEOREM EntriesSaved == StoreSpec => []OwnEntriesSaved
<1>1. StoreInv => OwnEntriesSaved
  <2> SUFFICES ASSUME StoreInv, NEW m \in Managers, tears = 0, mgr[m].on, mgr[m].flushed
               PROVE  IsSubsequence(mgr[m].entries, Saved(mgr[m].file))
    BY DEF OwnEntriesSaved
  <2>1. PICK b \in Nat : StoreTyped(b)
    BY DEF StoreInv, StoreTypeOK
  <2>2. SoundState(disk, mgr)
    BY DEF StoreInv
  <2>3. mgr[m].file \in DOMAIN disk /\ DiskTypeOK(b)
    BY <2>1 DEF StoreTyped, Placed
  <2>4. SoundFile(disk[mgr[m].file]) /\ IsSubsequence(mgr[m].entries, Tail(disk[mgr[m].file].lines))
    BY <2>2, <2>3 DEF SoundState, GoodManager
  <2>5. Saved(mgr[m].file) = Tail(disk[mgr[m].file].lines)
    BY <2>3, <2>4, SoundValues
  <2> QED  BY <2>4, <2>5
<1> QED  BY <1>1, StoreInvariance, PTL

(* BranchReachesRoot: until a write is cut short, getBranch leads from any  *)
(* entry to a root, also after a migration, a fork or a branched session    *)
(* (getBranch, _migrate_values, createBranchedSession).                     *)
THEOREM BranchesReach == StoreSpec => []BranchReachesRoot
<1>1. StoreInv => BranchReachesRoot
  <2> SUFFICES ASSUME StoreInv, tears = 0, NEW m \in Managers, NEW id \in IdsOf(mgr[m].entries)
               PROVE  Branch(mgr[m].entries, id)[1].parent = 0
    BY DEF BranchReachesRoot
  <2>1. PICK b \in Nat : StoreTyped(b)
    BY DEF StoreInv, StoreTypeOK
  <2>2. mgr[m].entries \in Seq(EntryLine(b)) /\ Tree(mgr[m].entries) /\ 0 \notin IdsOf(mgr[m].entries)
    BY <2>1, ManagerIs DEF StoreInv, SoundState, GoodManager
  <2>3. PICK i \in DOMAIN mgr[m].entries : Path(Branch(mgr[m].entries, id), mgr[m].entries, i)
    BY <2>2, BranchPath
  <2> QED  BY <2>3 DEF Path
<1> QED  BY <1>1, StoreInvariance, PTL

(* The first positions of a sequence select its prefix.                     *)
LEMMA AtPrefix ==
  ASSUME NEW S, NEW s \in Seq(S), NEW k \in 0 .. Len(s)
  PROVE  /\ At(s, 1 .. k) \in Seq(S) /\ Len(At(s, 1 .. k)) = k
         /\ \A i \in 1 .. k : At(s, 1 .. k)[i] = s[i]
<1> DEFINE I == 1 .. k
<1>1. k \in Nat /\ I \in SUBSET DOMAIN s /\ I \subseteq Nat
  OBVIOUS
<1>2. IsFiniteSet(I) /\ Cardinality(I) = k
  BY <1>1, FS_Interval
<1>3. ASSUME NEW i \in I PROVE Nth(I, i) = i
  <2>1. {j \in I : j <= i} = 1 .. i
    BY <1>1
  <2>2. i \in Nat /\ Cardinality(1 .. i) = i
    BY <1>1, FS_Interval
  <2>3. Rank(I, i) = i
    BY <2>1, <2>2 DEF Rank
  <2> QED  BY <1>1, <1>2, <2>3, NthIs
<1> HIDE DEF I
<1>4. At(s, I) \in Seq(S) /\ Len(At(s, I)) = k /\ \A i \in 1 .. k : At(s, I)[i] = s[Nth(I, i)]
  BY <1>1, <1>2, AtIs
<1>5. \A i \in 1 .. k : At(s, I)[i] = s[i]
  BY <1>3, <1>4 DEF I
<1> QED  BY <1>4, <1>5 DEF I

(* What a branched session keeps: the entries of the path, and the labels   *)
(* of those.                                                                *)
LEMMA BranchedKeeps ==
  ASSUME NEW b \in Nat, StoreTyped(b), NEW es \in Seq(EntryLine(b)), NEW leaf \in IdsOf(es)
  PROVE  LET r == Unmarked(es, leaf)
             new == Branched(es, leaf)
         IN  /\ Len(Unlabelled(new)) = Len(r) /\ DOMAIN Unlabelled(new) = DOMAIN r
             /\ \A i \in DOMAIN r : Unlabelled(new)[i].id = r[i].id
             /\ Labelled(new) = Labelled(es) \cap IdsOf(r)
<1> DEFINE r == Unmarked(es, leaf)
           t == Targets(es, leaf)
           K == Labelled(es) \cap IdsOf(r)
           new == Branched(es, leaf)
           N == Len(r) + Len(t)
<1>1. /\ r \in Seq(EntryLine(b)) /\ \A i \in DOMAIN r : ~IsLabel(r[i])
      /\ t \in Seq(K)
      /\ \A x \in K : \E i \in DOMAIN t : t[i] = x
  BY PartsIs
<1>2. /\ Len(r) \in Nat /\ Len(t) \in Nat /\ Len(new) = Len(r) + Len(t)
      /\ \A i \in 1 .. Len(r) : new[i].kind = r[i].kind /\ new[i].id = r[i].id
      /\ \A i \in 1 .. Len(t) : new[Len(r) + i].kind = "label" /\ new[Len(r) + i].ref = t[i]
      /\ \E c \in Nat : b <= c /\ new \in Seq(EntryLine(c))
  BY BranchedIs
<1> HIDE DEF r, t, new, K
<1>3. PICK c \in Nat : new \in Seq(EntryLine(c))
  BY <1>2
<1>4. DOMAIN r = 1 .. Len(r) /\ DOMAIN t = 1 .. Len(t) /\ DOMAIN new = 1 .. N /\ N \in Nat
  BY <1>1, <1>2, <1>3
<1>5. ASSUME NEW i \in 1 .. N
      PROVE  /\ IsLabel(new[i]) <=> ~(i <= Len(r))
             /\ ~(i <= Len(r)) => /\ i - Len(r) \in DOMAIN t
                                  /\ new[i].kind = "label" /\ new[i].ref = t[i - Len(r)]
  <2>1. CASE i <= Len(r)
    <3>1. i \in 1 .. Len(r)
      BY <1>2, <2>1
    <3>2. new[i].kind = r[i].kind /\ ~IsLabel(r[i])
      BY <1>1, <1>2, <1>4, <3>1
    <3> QED  BY <2>1, <3>2 DEF IsLabel
  <2>2. CASE ~(i <= Len(r))
    <3>1. i - Len(r) \in 1 .. Len(t) /\ Len(r) + (i - Len(r)) = i
      BY <1>2, <2>2
    <3>2. new[Len(r) + (i - Len(r))].kind = "label" /\ new[Len(r) + (i - Len(r))].ref = t[i - Len(r)]
      BY <1>2, <3>1
    <3> QED  BY <1>4, <2>2, <3>1, <3>2 DEF IsLabel
  <2> QED  BY <2>1, <2>2
<1>6. {i \in DOMAIN new : ~IsLabel(new[i])} = 1 .. Len(r)
  BY <1>2, <1>4, <1>5
<1>7. Unlabelled(new) = At(new, 1 .. Len(r))
  BY <1>6 DEF Unlabelled
<1>8. /\ Len(Unlabelled(new)) = Len(r) /\ Unlabelled(new) \in Seq(EntryLine(c))
      /\ \A i \in 1 .. Len(r) : Unlabelled(new)[i] = new[i]
  <2>1. Len(r) \in 0 .. Len(new)
    BY <1>2
  <2> QED  BY <1>3, <1>7, <2>1, AtPrefix
<1>9. DOMAIN Unlabelled(new) = DOMAIN r
  BY <1>4, <1>8
<1>10. \A i \in DOMAIN r : Unlabelled(new)[i].id = r[i].id
  BY <1>2, <1>4, <1>8
<1>11. ASSUME NEW id \in Labelled(new)
       PROVE  id \in K
  <2>1. PICK i \in DOMAIN new : IsLabel(new[i]) /\ new[i].ref = id
    BY DEF Labelled
  <2>2. i - Len(r) \in DOMAIN t /\ id = t[i - Len(r)]
    BY <1>4, <1>5, <2>1
  <2> QED  BY <1>1, <2>2
<1>12. ASSUME NEW id \in K
       PROVE  id \in Labelled(new)
  <2> DEFINE changes == {i \in DOMAIN new : IsLabel(new[i]) /\ new[i].ref = id}
  <2>1. PICK k \in DOMAIN t : t[k] = id
    BY <1>1
  <2>2. Len(r) + k \in 1 .. N /\ new[Len(r) + k].kind = "label" /\ new[Len(r) + k].ref = id
    BY <1>2, <1>4, <2>1
  <2>3. Len(r) + k \in changes
    BY <1>4, <2>2 DEF IsLabel
  <2>4. changes \subseteq 1 .. N /\ IsFiniteSet(1 .. N)
    BY <1>4, FS_Interval
  <2>5. IsFiniteSet(changes) /\ changes \subseteq Nat /\ changes # {}
    BY <2>3, <2>4, FS_Subset
  <2> HIDE DEF changes
  <2>6. Max(changes) \in changes
    BY <2>5, MaxIs
  <2>7. new[Max(changes)].kind = "label"
    <3>1. Max(changes) \in 1 .. N /\ IsLabel(new[Max(changes)])
      BY <1>4, <2>6 DEF changes
    <3> QED  BY <1>5, <3>1
  <2>8. id \in IdsOf(new)
    <3>1. PICK i \in DOMAIN r : r[i].id = id
      BY DEF K, IdsOf
    <3>2. i \in DOMAIN new /\ new[i].id = id
      BY <1>2, <1>4, <3>1
    <3> QED  BY <3>2 DEF IdsOf
  <2> QED  BY <2>5, <2>7, <2>8 DEF Labelled, changes
<1>13. Labelled(new) = K
  BY <1>11, <1>12
<1> QED  BY <1>8, <1>9, <1>10, <1>13 DEF r, new, K

(* A write says whether it succeeded.                                       *)
LEMMA WritesSay ==
  ASSUME NEW file, NEW ls, NEW w \in Writes(file, ls)
  PROVE  w.ok \in BOOLEAN /\ (~w.ok) \in BOOLEAN
<1>1. \/ w = Outcome(Extend(file, ls, FALSE), TRUE, FALSE)
      \/ \E n \in 0 .. (Len(ls) - 1) :
           \/ w = Outcome(Extend(file, SubSeq(ls, 1, n), FALSE), FALSE, TRUE)
           \/ w = Outcome(Extend(file, Append(SubSeq(ls, 1, n), Broken), TRUE), FALSE, TRUE)
           \/ w = Outcome(Extend(file, SubSeq(ls, 1, n + 1), TRUE), FALSE, TRUE)
  BY DEF Writes
<1>2. \A x : Outcome(x, TRUE, FALSE).ok = TRUE /\ Outcome(x, FALSE, TRUE).ok = FALSE
  BY DEF Outcome
<1> QED  BY <1>1, <1>2

(* createBranchedSession hands that session to the manager.                 *)
LEMMA CreateKeeps ==
  ASSUME StoreTypeOK, NEW m \in Managers, NEW leaf \in IdsOf(mgr[m].entries), NEW f \in Files,
         CreateBranchedSession(m, leaf, f)
  PROVE  LET old == mgr[m].entries
             new == mgr'[m].entries
         IN  /\ Field(Unlabelled(new), "id") = Field(Unlabelled(Branch(old, leaf)), "id")
             /\ Labelled(new) = Labelled(old) \cap IdsOf(Unlabelled(new))
<1> DEFINE old == mgr[m].entries
           es == Branched(old, leaf)
           r == Unmarked(old, leaf)
<1>1. PICK b \in Nat : StoreTyped(b)
  BY DEF StoreTypeOK
<1>2. old \in Seq(EntryLine(b))
  BY <1>1, ManagerIs
<1>3. PICK c \in Nat : es \in Seq(EntryLine(c))
  BY <1>1, <1>2, BranchedIs
<1>4. mgr'[m].entries = es
  <2>1. ASSUME NEW flushed \in BOOLEAN, NEW raised \in BOOLEAN, Become(m, NewSession(f, es, flushed, raised))
        PROVE  mgr'[m].entries = es
    <3> DEFINE s == NewSession(f, es, flushed, raised)
    <3>1. s.entries = es
      BY <1>3, NewSessionIs
    <3>2. m \in DOMAIN mgr
      BY <1>1 DEF StoreTyped, MgrTypeOK
    <3>3. mgr' = [mgr EXCEPT ![m] = s]
      BY <2>1 DEF Become
    <3> HIDE DEF s, es
    <3> QED  BY <3>1, <3>2, <3>3
  <2>2. \/ Become(m, NewSession(f, es, Blank(f).flushed, Blank(f).raised))
        \/ \E w \in Writes(NewFileOf(<<>>), <<Header(f, Version)>> \o es) : Become(m, NewSession(f, es, w.ok, ~w.ok))
    BY CreateIs
  <2>3. Blank(f).flushed \in BOOLEAN /\ Blank(f).raised \in BOOLEAN
    BY DEF Blank, Off
  <2>4. \A w \in Writes(NewFileOf(<<>>), <<Header(f, Version)>> \o es) : w.ok \in BOOLEAN /\ (~w.ok) \in BOOLEAN
    BY WritesSay
  <2> HIDE DEF es
  <2> QED  BY <2>1, <2>2, <2>3, <2>4
<1>5. /\ DOMAIN Unlabelled(es) = DOMAIN r
      /\ \A i \in DOMAIN r : Unlabelled(es)[i].id = r[i].id
      /\ Labelled(es) = Labelled(old) \cap IdsOf(r)
  BY <1>1, <1>2, BranchedKeeps
<1>6. r = Unlabelled(Branch(old, leaf))
  BY DEF Unmarked
<1> HIDE DEF es, r, old
<1>7. Field(Unlabelled(es), "id") = Field(r, "id")
  BY <1>5 DEF Field
<1>8. IdsOf(Unlabelled(es)) = IdsOf(r)
  BY <1>5 DEF IdsOf
<1> QED  BY <1>4, <1>5, <1>6, <1>7, <1>8 DEF old

(* BranchedKeepsLabels: a branched session has the entries of its path in   *)
(* their order and every label one of them has, whatever else was written   *)
(* or lost (createBranchedSession).                                         *)
THEOREM BranchedSessions == StoreSpec => BranchedKeepsLabels
<1> DEFINE Keeps ==
      \A m \in Managers : \A leaf \in IdsOf(mgr[m].entries) : \A f \in Files :
        mgr'[m].file = f /\ f # mgr[m].file /\ CreateBranchedSession(m, leaf, f) =>
          LET old == mgr[m].entries
              new == mgr'[m].entries
          IN  /\ Field(Unlabelled(new), "id") = Field(Unlabelled(Branch(old, leaf)), "id")
              /\ Labelled(new) = Labelled(old) \cap IdsOf(Unlabelled(new))
<1>1. StoreTypeOK /\ [StoreNext]_storeVars => [Keeps]_storeVars
  <2> SUFFICES ASSUME StoreTypeOK PROVE Keeps
    OBVIOUS
  <2> QED  BY CreateKeeps
<1>2. StoreSpec => []StoreTypeOK
  BY StoreTypeCorrect
<1>3. StoreSpec => [][StoreNext]_storeVars
  BY DEF StoreSpec
<1> QED  BY <1>1, <1>2, <1>3, PTL DEF BranchedKeepsLabels

-----------------------------------------------------------------------------
(* Branches and their compactions.                                          *)

(* The least of a set of numbers.                                           *)
LEMMA MinIs ==
  ASSUME NEW I, I \subseteq Nat, I # {}
  PROVE  Min(I) \in I /\ \A i \in I : Min(I) <= i
<1>1. \E x \in I : \A y \in I : x <= y
  BY LeastNumber
<1> QED  BY <1>1 DEF Min

(* An increasing function takes the n-th element to the n-th.               *)
LEMMA NthThrough ==
  ASSUME NEW J, J \subseteq Nat, IsFiniteSet(J), NEW g \in [J -> Nat],
         \A i, j \in J : i < j => g[i] < g[j]
  PROVE  LET K == {g[i] : i \in J}
         IN  /\ K \subseteq Nat /\ IsFiniteSet(K) /\ Cardinality(K) = Cardinality(J)
             /\ \A n \in 1 .. Cardinality(J) : Nth(K, n) = g[Nth(J, n)]
<1> DEFINE Im(S) == {g[i] : i \in S}
           K == Im(J)
<1>1. \A i, j \in J : /\ g[i] = g[j] => i = j
                      /\ g[j] <= g[i] => j <= i
                      /\ j <= i => g[j] <= g[i]
  <2> SUFFICES ASSUME NEW i \in J, NEW j \in J
               PROVE  /\ g[i] = g[j] => i = j
                      /\ g[j] <= g[i] => j <= i
                      /\ j <= i => g[j] <= g[i]
    OBVIOUS
  <2>1. i \in Nat /\ j \in Nat /\ g[i] \in Nat /\ g[j] \in Nat
    OBVIOUS
  <2>2. (i < j => g[i] < g[j]) /\ (j < i => g[j] < g[i])
    OBVIOUS
  <2> QED  BY <2>1, <2>2
<1>2. ASSUME NEW S \in SUBSET J
      PROVE  IsFiniteSet(Im(S)) /\ Cardinality(Im(S)) = Cardinality(S)
  <2> DEFINE h == [i \in S |-> g[i]]
  <2>1. IsFiniteSet(S)
    BY FS_Subset
  <2>2. h \in Surjection(S, Im(S))
    BY DEF Surjection
  <2>3. h \in Injection(S, Im(S))
    BY <1>1, <2>2 DEF Surjection, Injection, IsInjective
  <2> QED  BY <2>1, <2>2, <2>3, FS_Surjection
<1>3. K \subseteq Nat
  OBVIOUS
<1>4. IsFiniteSet(K) /\ Cardinality(K) = Cardinality(J)
  BY <1>2
<1>5. ASSUME NEW i \in J PROVE g[i] \in K /\ Rank(K, g[i]) = Rank(J, i)
  <2> DEFINE Upto == {k \in J : k <= i}
  <2>1. {k \in K : k <= g[i]} = Im(Upto)
    BY <1>1
  <2>2. Upto \in SUBSET J
    OBVIOUS
  <2>3. Cardinality(Im(Upto)) = Cardinality(Upto)
    BY <1>2, <2>2
  <2> QED  BY <2>1, <2>3 DEF Rank
<1>6. ASSUME NEW n \in 1 .. Cardinality(J) PROVE Nth(K, n) = g[Nth(J, n)]
  <2>1. Nth(J, n) \in J /\ Rank(J, Nth(J, n)) = n
    BY NthIs
  <2>2. g[Nth(J, n)] \in K /\ Rank(K, g[Nth(J, n)]) = n
    BY <1>5, <2>1
  <2>3. \A k \in K : Nth(K, Rank(K, k)) = k
    BY <1>3, <1>4, NthIs
  <2> QED  BY <2>2, <2>3
<1> QED  BY <1>3, <1>4, <1>6

(* g takes the places J of s in their order to the places K of t that have  *)
(* the same elements.                                                       *)
Carries(g, s, J, t, K) ==
  /\ J \subseteq Nat /\ IsFiniteSet(J) /\ g \in [J -> Nat]
  /\ \A i, j \in J : i < j => g[i] < g[j]
  /\ \A i \in J : t[g[i]] = s[i]
  /\ K = {g[i] : i \in J}

(* Then the two select the same sequence.                                   *)
LEMMA AtThrough ==
  ASSUME NEW g, NEW s, NEW J, NEW t, NEW K, Carries(g, s, J, t, K)
  PROVE  At(t, K) = At(s, J)
<1>1. Cardinality(K) = Cardinality(J) /\ \A n \in 1 .. Cardinality(J) : Nth(K, n) = g[Nth(J, n)]
  BY NthThrough DEF Carries
<1>2. \A n \in 1 .. Cardinality(J) : Nth(J, n) \in J
  BY NthIs DEF Carries
<1>3. \A n \in 1 .. Cardinality(J) : t[Nth(K, n)] = s[Nth(J, n)]
  BY <1>1, <1>2 DEF Carries
<1> QED  BY <1>1, <1>3 DEF At

(* The element before another one is selected before it.                    *)
LEMMA AtBefore ==
  ASSUME NEW S, NEW s \in Seq(S), NEW M \in SUBSET DOMAIN s, NEW k \in DOMAIN At(s, M), NEW q \in M,
         q < Nth(M, k), \A i \in M : ~(q < i /\ i < Nth(M, k))
  PROVE  k > 1 /\ At(s, M)[k - 1] = s[q]
<1> DEFINE n == Rank(M, q)
<1>1. At(s, M) \in Seq(S) /\ DOMAIN At(s, M) = 1 .. Len(At(s, M)) /\ Len(At(s, M)) \in Nat
  BY AtIs
<1>2. /\ n \in DOMAIN At(s, M) /\ At(s, M)[n] = s[q] /\ Nth(M, n) = q
      /\ \A i \in DOMAIN At(s, M) : Nth(M, i) \in M
      /\ \A i, j \in DOMAIN At(s, M) : i < j <=> Nth(M, i) < Nth(M, j)
  BY AtPlace
<1> HIDE DEF n
<1>3. n < k
  BY <1>2
<1>4. n + 1 < k => n + 1 \in DOMAIN At(s, M)
  BY <1>1, <1>2
<1>5. ~(n + 1 < k)
  <2> SUFFICES ASSUME n + 1 < k PROVE FALSE
    OBVIOUS
  <2>1. n + 1 \in DOMAIN At(s, M) /\ n < n + 1
    BY <1>1, <1>2, <1>4
  <2>2. q < Nth(M, n + 1) /\ Nth(M, n + 1) < Nth(M, k)
    BY <1>2, <2>1
  <2> QED  BY <1>2, <2>1, <2>2
<1>6. n = k - 1 /\ n \in Nat /\ n >= 1
  BY <1>1, <1>2, <1>3, <1>5
<1> QED  BY <1>1, <1>2, <1>6

BranchKinds == {"user", "assistant", "result", "label", "note", "compaction"}
BranchEntry ==
  [id : Nat, kind : BranchKinds, weight : Nat, first : Nat, covers : {c \in SUBSET Nat : IsFiniteSet(c)}]

BranchTypeOK == branch \in Seq(BranchEntry) /\ owed \in Nat /\ copies \in Nat

(* The ids that a branch has or names are finitely many.                    *)
LEMMA NamedIs ==
  ASSUME NEW b \in Seq(BranchEntry)
  PROVE  /\ IsFiniteSet(Named(b)) /\ Named(b) \subseteq Nat
         /\ \A i \in DOMAIN b : b[i].id \in Named(b) /\ b[i].first \in Named(b)
<1> DEFINE N(i) == {b[i].id, b[i].first} \cup b[i].covers
           S == {N(i) : i \in DOMAIN b}
           f == [i \in DOMAIN b |-> N(i)]
<1>1. \A i \in DOMAIN b : b[i] \in BranchEntry
  OBVIOUS
<1>2. \A i \in DOMAIN b : b[i].id \in Nat /\ b[i].first \in Nat /\ b[i].covers \in SUBSET Nat
                          /\ IsFiniteSet(b[i].covers)
  BY <1>1 DEF BranchEntry
<1>3. ASSUME NEW i \in DOMAIN b
      PROVE  IsFiniteSet(N(i)) /\ N(i) \subseteq Nat
  <2>1. IsFiniteSet({b[i].id, b[i].first})
    <3>1. IsFiniteSet({b[i].id}) /\ IsFiniteSet({b[i].first})
      BY FS_Singleton
    <3>2. IsFiniteSet({b[i].id} \cup {b[i].first})
      BY <3>1, FS_Union
    <3>3. {b[i].id, b[i].first} = {b[i].id} \cup {b[i].first}
      OBVIOUS
    <3> QED  BY <3>2, <3>3
  <2>2. IsFiniteSet({b[i].id, b[i].first} \cup b[i].covers)
    BY <1>2, <2>1, FS_Union
  <2> QED  BY <1>2, <2>2
<1>4. IsFiniteSet(S)
  <2>1. IsFiniteSet(DOMAIN b)
    BY FS_Interval
  <2>2. f \in Surjection(DOMAIN b, S)
    BY DEF Surjection
  <2> QED  BY <2>1, <2>2, FS_Surjection
<1>5. \A T \in S : IsFiniteSet(T) /\ T \subseteq Nat
  BY <1>3
<1>6. IsFiniteSet(UNION S)
  BY <1>4, <1>5, FS_UNION
<1>7. Named(b) = UNION S
  BY DEF Named
<1>8. \A i \in DOMAIN b : N(i) \subseteq Named(b)
  <2> HIDE DEF N
  <2> QED  BY <1>7
<1>9. Named(b) \subseteq Nat
  <2> HIDE DEF S
  <2> QED  BY <1>5, <1>7
<1> QED  BY <1>6, <1>7, <1>8, <1>9

(* A new id is one that no entry has or names, and new ids differ.          *)
LEMMA FreshIdIs ==
  ASSUME NEW b \in Seq(BranchEntry)
  PROVE  /\ \A n \in Nat \ {0} : FreshId(b, n) \in Nat \ {0} /\ FreshId(b, n) \notin Named(b)
         /\ \A m, n \in Nat \ {0} : FreshId(b, m) = FreshId(b, n) => m = n
<1> DEFINE U == Named(b)
           c == Cardinality(U)
           Free(n) == (1 .. (c + n)) \ U
<1>1. IsFiniteSet(U) /\ c \in Nat
  BY NamedIs, FS_CardinalityType
<1>2. ASSUME NEW n \in Nat \ {0}
      PROVE  /\ IsFiniteSet(Free(n)) /\ Free(n) \subseteq Nat \ {0}
             /\ n \in 1 .. Cardinality(Free(n))
  <2> DEFINE I == 1 .. (c + n)
  <2>1. c + n \in Nat /\ IsFiniteSet(I) /\ Cardinality(I) = c + n
    <3>1. c + n \in Nat
      BY <1>1
    <3> HIDE DEF c
    <3> QED  BY <3>1, FS_Interval
  <2>2. IsFiniteSet(I \ U) /\ Cardinality(I \ U) = Cardinality(I) - Cardinality(I \cap U)
    BY <2>1, FS_Difference
  <2>3. IsFiniteSet(I \cap U) /\ Cardinality(I \cap U) <= c
    BY <1>1, FS_Intersection
  <2>4. Cardinality(I \cap U) \in Nat
    BY <2>3, FS_CardinalityType
  <2>5. Free(n) \subseteq Nat \ {0}
    BY <1>1
  <2>6. Free(n) = I \ U
    OBVIOUS
  <2> HIDE DEF I, c, Free
  <2> QED  BY <1>1, <2>1, <2>2, <2>3, <2>4, <2>5, <2>6
<1>3. \A n \in Nat \ {0} : FreshId(b, n) = Nth(Free(n), n)
  BY DEF FreshId
<1>4. ASSUME NEW n \in Nat \ {0}
      PROVE  FreshId(b, n) \in Free(n) /\ Rank(Free(n), FreshId(b, n)) = n
  <2> HIDE DEF Free
  <2> QED  BY <1>2, <1>3, NthIs
<1>5. ASSUME NEW m \in Nat \ {0}, NEW n \in Nat \ {0}, m <= n, FreshId(b, m) = FreshId(b, n)
      PROVE  m = n
  <2> DEFINE x == FreshId(b, m)
  <2>1. x \in Free(m) /\ Rank(Free(m), x) = m /\ Rank(Free(n), x) = n
    BY <1>4, <1>5
  <2>2. x \in Nat /\ x <= c + m
    BY <1>1, <2>1
  <2> HIDE DEF x
  <2>3. {k \in Free(m) : k <= x} = {k \in Free(n) : k <= x}
    BY <1>1, <1>5, <2>2
  <2> HIDE DEF Free
  <2> QED  BY <2>1, <2>3 DEF Rank
<1>6. \A m, n \in Nat \ {0} : FreshId(b, m) = FreshId(b, n) => m = n
  <2> SUFFICES ASSUME NEW m \in Nat \ {0}, NEW n \in Nat \ {0}, FreshId(b, m) = FreshId(b, n)
               PROVE  m = n
    OBVIOUS
  <2>1. m <= n \/ n <= m
    OBVIOUS
  <2> QED  BY <1>5, <2>1
<1>7. \A n \in Nat \ {0} : FreshId(b, n) \in Nat \ {0} /\ FreshId(b, n) \notin U
  <2>1. \A n \in Nat \ {0} : \A k \in Free(n) : k \in Nat \ {0} /\ k \notin U
    BY <1>2
  <2> HIDE DEF Free, U
  <2> QED  BY <1>4, <2>1
<1> QED  BY <1>6, <1>7

-----------------------------------------------------------------------------
(* What prepare_compaction and the context look at.                         *)

(* The entries of a branch and their places.                                *)
LEMMA PlacesIs ==
  ASSUME NEW b \in Seq(BranchEntry)
  PROVE  /\ Len(b) \in Nat /\ DOMAIN b = 1 .. Len(b)
         /\ \A i \in DOMAIN b : b[i] \in BranchEntry /\ b[i].kind \in BranchKinds /\ b[i].id \in Nat
<1>1. \A i \in DOMAIN b : b[i] \in BranchEntry
  OBVIOUS
<1> QED  BY <1>1 DEF BranchEntry

(* The latest compaction.                                                   *)
LEMMA PreviousIs ==
  ASSUME NEW b \in Seq(BranchEntry)
  PROVE  /\ Previous(b) \in Nat
         /\ Previous(b) # 0 => Previous(b) \in DOMAIN b /\ b[Previous(b)].kind = "compaction"
         /\ \A i \in DOMAIN b : b[i].kind = "compaction" => i <= Previous(b) /\ Previous(b) # 0
<1> DEFINE P == {0} \cup {i \in DOMAIN b : b[i].kind = "compaction"}
<1>1. DOMAIN b = 1 .. Len(b) /\ Len(b) \in Nat
  OBVIOUS
<1>2. IsFiniteSet(P)
  <2>1. P \subseteq 0 .. Len(b) /\ IsFiniteSet(0 .. Len(b))
    BY <1>1, FS_Interval
  <2> QED  BY <2>1, FS_Subset
<1>3. P \subseteq Nat /\ P # {}
  BY <1>1
<1>4. Previous(b) = Max(P)
  BY DEF Previous
<1>5. Max(P) \in P /\ \A i \in P : i <= Max(P)
  BY <1>2, <1>3, MaxIs
<1>6. \A i \in DOMAIN b : b[i].kind = "compaction" => i \in P /\ i >= 1
  BY <1>1
<1>7. Previous(b) \in Nat /\ Previous(b) \in P /\ \A i \in P : i <= Previous(b)
  BY <1>3, <1>4, <1>5
<1> QED  BY <1>1, <1>6, <1>7

(* From where its kept entries are shown.                                   *)
From(b) == Min({Previous(b)} \cup FirstKept(b))

(* ... the least of their places.                                           *)
LEMMA FromIs ==
  ASSUME NEW b \in Seq(BranchEntry), Previous(b) # 0
  PROVE  /\ From(b) \in {Previous(b)} \cup FirstKept(b) /\ From(b) \in Nat
         /\ From(b) <= Previous(b) /\ \A k \in FirstKept(b) : From(b) <= k
         /\ Kept(b) = (From(b) .. Len(b)) \ {Previous(b)}
<1> DEFINE F == {Previous(b)} \cup FirstKept(b)
<1>1. F \subseteq Nat /\ F # {}
  BY PreviousIs DEF FirstKept
<1>2. Min(F) \in F /\ \A i \in F : Min(F) <= i
  BY <1>1, MinIs
<1>3. From(b) = Min(F)
  BY DEF From
<1> QED  BY <1>1, <1>2, <1>3 DEF Kept, From

(* What is kept are places of the branch.                                   *)
LEMMA KeptIs ==
  ASSUME NEW b \in Seq(BranchEntry)
  PROVE  Kept(b) \subseteq DOMAIN b
<1>1. CASE Previous(b) = 0
  BY <1>1 DEF Kept
<1>2. CASE Previous(b) # 0
  <2>1. From(b) \in DOMAIN b
    BY <1>2, FromIs, PreviousIs DEF FirstKept
  <2> QED  BY <1>2, <2>1, FromIs
<1> QED  BY <1>1, <1>2

-----------------------------------------------------------------------------
(* What holds of a branch.                                                  *)

Quiet(e) == e.kind \in {"label", "note"}

(* Before place i comes an assistant message or a result, and notes alone   *)
(* in between.                                                              *)
Called(b, i) ==
  \E q \in 1 .. i - 1 : /\ b[q].kind \in {"assistant", "result"}
                        /\ \A k \in q + 1 .. i - 1 : Quiet(b[k])

(* From place k on, before j, comes a user or an assistant message, and     *)
(* notes alone before it.                                                   *)
Begins(b, k, j) ==
  \E q \in k .. j - 1 : /\ b[q].kind \in {"user", "assistant"}
                        /\ \A i \in k .. q - 1 : Quiet(b[i])

Distinct(b)      == \A i, j \in DOMAIN b : b[i].id = b[j].id => i = j
ResultsCalled(b) == \A i \in DOMAIN b : b[i].kind = "result" => Called(b, i)

(* What a compaction has kept is before it, and begins a turn or an answer. *)
FirstsBegin(b) ==
  \A j \in Compactions(b), k \in DOMAIN b : b[k].id = b[j].first => k < j /\ Begins(b, k, j)

(* No compaction up to j is one of the two kinds that HistoryCovered        *)
(* excepts; then the j-th covers what is before its first kept entry.       *)
Orderly(b, j) ==
  /\ \A i, k \in Compactions(b) : i < k /\ k <= j => b[i].covers \subseteq b[k].covers
  /\ \A i \in Compactions(b) : i <= j => \E k \in DOMAIN b : b[k].id = b[i].first
Covering(b) ==
  \A j \in Compactions(b) : Orderly(b, j) =>
    \A i \in 1 .. j - 1, k \in DOMAIN b :
      IsMessage(b[i]) /\ b[k].id = b[j].first => k <= i \/ b[i].id \in b[j].covers

SoundBranch(b) == Distinct(b) /\ ResultsCalled(b) /\ FirstsBegin(b) /\ Covering(b)

BranchInv ==
  BranchTypeOK /\ SoundBranch(branch) /\ (owed > 0 => Called(branch, Len(branch) + 1))

(* What a new compaction e finds: the place of its cut.                     *)
Compacted(b, e, cut) ==
  /\ cut \in DOMAIN b /\ e.first = b[cut].id /\ Begins(b, cut, Len(b) + 1)
  /\ \A i \in Start(b) .. cut - 1 : IsMessage(b[i]) => b[i].id \in e.covers

(* Where prepare_compaction begins to look.                                 *)
LEMMA StartIs ==
  ASSUME NEW b \in Seq(BranchEntry)
  PROVE  /\ Start(b) \in Nat \ {0}
         /\ Previous(b) = 0 => Start(b) = 1
         /\ Previous(b) # 0 /\ FirstKept(b) # {} =>
              Start(b) \in FirstKept(b) /\ \A k \in FirstKept(b) : Start(b) <= k
<1>1. FirstKept(b) \subseteq Nat \ {0}
  BY DEF FirstKept
<1>2. FirstKept(b) # {} => Min(FirstKept(b)) \in FirstKept(b) /\ \A k \in FirstKept(b) : Min(FirstKept(b)) <= k
  BY <1>1, MinIs
<1> QED  BY <1>1, <1>2, PreviousIs DEF Start

(* The cut is at a message that may begin what is kept, or at notes before  *)
(* one, and all messages between it and the start are summarised.           *)
LEMMA PrepareIs ==
  ASSUME NEW b \in Seq(BranchEntry), Prepare(b).cut > 0
  PROVE  LET p == Prepare(b)
         IN  /\ p.cut \in DOMAIN b /\ Start(b) <= p.cut /\ Begins(b, p.cut, Len(b) + 1)
             /\ p.history \cup p.prefix = {i \in Start(b) .. p.cut - 1 : IsMessage(b[i])}
             /\ p.history \cup p.prefix \subseteq DOMAIN b
<1> DEFINE start  == Start(b)
           points == CutPoints(b, start)
           full   == Full(b, start)
           point  == CutPoint(points, full)
           cut    == Cut(b, start, point)
           end    == HistoryEnd(b, start, cut)
           older  == MessagesFrom(b, start) \cap start .. (cut - 1)
           cuts   == {i \in start .. point :
                        \A j \in i .. (point - 1) : ~IsMessage(b[j]) /\ b[j].kind # "compaction"}
<1>1. /\ points # {}
      /\ Prepare(b) = [cut |-> cut, history |-> {i \in older : i < end}, prefix |-> {i \in older : i >= end}]
  BY DEF Prepare, Nothing
<1>2. Len(b) \in Nat /\ DOMAIN b = 1 .. Len(b) /\ start \in Nat \ {0}
  BY PlacesIs, StartIs
<1>3. points \subseteq start .. Len(b) /\ \A i \in points : b[i].kind \in {"user", "assistant"}
  BY DEF CutPoints
<1>4. point \in points
  <2> DEFINE later == {i \in points : \A j \in full : i >= j}
  <2>1. points \subseteq Nat /\ later \subseteq Nat
    BY <1>2, <1>3
  <2>2. Min(points) \in points
    BY <1>1, <2>1, MinIs
  <2>3. later # {} => Min(later) \in later
    BY <2>1, MinIs
  <2>4. point = IF full = {} \/ later = {} THEN Min(points) ELSE Min(later)
    BY DEF CutPoint
  <2> HIDE DEF points, point, full
  <2> QED  BY <2>2, <2>3, <2>4
<1> HIDE DEF points, full, point
<1>5. point \in start .. Len(b) /\ b[point].kind \in {"user", "assistant"}
  BY <1>3, <1>4
<1>6. cut \in cuts
  <2>1. point \in cuts /\ cuts \subseteq Nat
    BY <1>2, <1>5
  <2>2. cut = Min(cuts)
    BY DEF Cut
  <2> HIDE DEF cuts, cut
  <2> QED  BY <2>1, <2>2, MinIs
<1> HIDE DEF cut
<1>7. cut \in start .. point /\ \A j \in cut .. (point - 1) : ~IsMessage(b[j]) /\ b[j].kind # "compaction"
  BY <1>6
<1>8. cut \in DOMAIN b /\ start <= cut /\ cut \in Nat /\ start \in Nat
  BY <1>2, <1>5, <1>7
<1>9. Begins(b, cut, Len(b) + 1)
  <2>1. \A j \in cut .. (point - 1) : Quiet(b[j])
    <3> SUFFICES ASSUME NEW j \in cut .. (point - 1) PROVE Quiet(b[j])
      OBVIOUS
    <3>1. j \in DOMAIN b
      BY <1>2, <1>5, <1>7
    <3>2. b[j].kind \in BranchKinds
      BY <3>1, PlacesIs
    <3> QED  BY <1>7, <3>2 DEF Quiet, BranchKinds, IsMessage, Spoken
  <2>2. point \in cut .. (Len(b) + 1) - 1
    BY <1>2, <1>5, <1>7
  <2> QED  BY <1>5, <2>1, <2>2 DEF Begins
<1>10. older = {i \in start .. cut - 1 : IsMessage(b[i])}
  BY <1>2, <1>8 DEF MessagesFrom
<1>11. {i \in older : i < end} \cup {i \in older : i >= end} = older
  <2>1. end \in Int
    <3> DEFINE users == {i \in start .. cut : b[i].kind = "user"}
    <3>1. users \subseteq Nat
      BY <1>8
    <3>2. IsFiniteSet(users)
      <4>1. IsFiniteSet(start .. cut)
        <5> HIDE DEF start
        <5> QED  BY <1>8, FS_Interval
      <4> QED  BY <4>1, FS_Subset
    <3>3. users # {} => Max(users) \in users
      BY <3>1, <3>2, MaxIs
    <3>4. end = IF b[cut].kind = "assistant" /\ users # {} THEN Max(users) ELSE cut
      BY DEF HistoryEnd
    <3> HIDE DEF end, users
    <3>5. users # {} => Max(users) \in Nat
      BY <3>1, <3>3
    <3>6. CASE b[cut].kind = "assistant" /\ users # {}
      BY <3>4, <3>5, <3>6
    <3>7. CASE ~(b[cut].kind = "assistant" /\ users # {})
      BY <1>8, <3>4, <3>7
    <3> QED  BY <3>6, <3>7
  <2>2. older \subseteq Int
    BY <1>8
  <2> HIDE DEF older, end
  <2>3. \A i \in older : i < end \/ i >= end
    BY <2>1, <2>2
  <2> QED  BY <2>3
<1>12. older \subseteq DOMAIN b
  BY <1>2, <1>8
<1>13. Prepare(b).cut = cut /\ Prepare(b).history \cup Prepare(b).prefix = older
  <2> HIDE DEF older, end
  <2> QED  BY <1>1, <1>11
<1> QED  BY <1>8, <1>9, <1>10, <1>12, <1>13

(* An entry that is appended, as prepare_compaction or a caller made it,    *)
(* keeps a branch sound.                                                    *)
LEMMA GrowSound ==
  ASSUME NEW b \in Seq(BranchEntry), SoundBranch(b), NEW e \in BranchEntry, e.id \notin Named(b),
         e.kind = "result" => Called(b, Len(b) + 1),
         e.kind = "compaction" => \E cut : Compacted(b, e, cut)
  PROVE  Append(b, e) \in Seq(BranchEntry) /\ SoundBranch(Append(b, e))
<1> DEFINE c == Append(b, e)
           n == Len(b)
<1>1. /\ c \in Seq(BranchEntry) /\ n \in Nat /\ DOMAIN b = 1 .. n /\ DOMAIN c = 1 .. n + 1
      /\ \A i \in 1 .. n : c[i] = b[i]
      /\ c[n + 1] = e
  OBVIOUS
<1>2. \A i \in 1 .. n : b[i].id # e.id /\ b[i].first # e.id
  BY <1>1, NamedIs
<1> HIDE DEF c, n
<1>3. ASSUME NEW i \in 1 .. n + 1, Called(b, i)
      PROVE  Called(c, i)
  <2>1. PICK q \in 1 .. i - 1 : /\ b[q].kind \in {"assistant", "result"}
                                /\ \A k \in q + 1 .. i - 1 : Quiet(b[k])
    BY <1>3 DEF Called
  <2>2. q \in 1 .. n /\ \A k \in q + 1 .. i - 1 : k \in 1 .. n
    BY <1>1
  <2> QED  BY <1>1, <2>1, <2>2 DEF Called
<1>4. ASSUME NEW k \in 1 .. n, NEW j \in 1 .. n + 1, Begins(b, k, j)
      PROVE  Begins(c, k, j)
  <2>1. PICK q \in k .. j - 1 : /\ b[q].kind \in {"user", "assistant"}
                                /\ \A i \in k .. q - 1 : Quiet(b[i])
    BY <1>4 DEF Begins
  <2>2. q \in 1 .. n /\ \A i \in k .. q - 1 : i \in 1 .. n
    BY <1>1
  <2> QED  BY <1>1, <2>1, <2>2 DEF Begins
<1>5. Distinct(c)
  <2> SUFFICES ASSUME NEW i \in 1 .. n + 1, NEW j \in 1 .. n + 1, c[i].id = c[j].id
               PROVE  i = j
    BY <1>1 DEF Distinct
  <2>1. CASE i \in 1 .. n /\ j \in 1 .. n
    BY <1>1, <2>1 DEF SoundBranch, Distinct
  <2>2. CASE i \notin 1 .. n \/ j \notin 1 .. n
    <3>1. i = n + 1 \/ j = n + 1
      BY <1>1, <2>2
    <3>2. \A k \in 1 .. n + 1 : k = n + 1 \/ k \in 1 .. n
      BY <1>1
    <3> QED  BY <1>1, <1>2, <3>1, <3>2
  <2> QED  BY <2>1, <2>2
<1>6. ResultsCalled(c)
  <2> SUFFICES ASSUME NEW i \in 1 .. n + 1, c[i].kind = "result"
               PROVE  Called(c, i)
    BY <1>1 DEF ResultsCalled
  <2>1. Called(b, i)
    <3>1. CASE i \in 1 .. n
      BY <1>1, <3>1 DEF SoundBranch, ResultsCalled
    <3>2. CASE i = n + 1
      BY <1>1, <3>2 DEF n
    <3> QED  BY <1>1, <3>1, <3>2
  <2> QED  BY <1>3, <2>1
<1>7. Compactions(c) \cap 1 .. n = Compactions(b) /\ Compactions(c) \subseteq 1 .. n + 1
  BY <1>1 DEF Compactions
<1>8. ASSUME NEW j \in Compactions(c), NEW k \in 1 .. n + 1, c[k].id = c[j].first, j # n + 1
      PROVE  j \in Compactions(b) /\ k \in 1 .. n /\ b[k].id = b[j].first
  <2>1. j \in 1 .. n
    BY <1>1, <1>7, <1>8
  <2>2. k # n + 1
    BY <1>1, <1>2, <1>8, <2>1
  <2>3. k \in 1 .. n
    BY <1>1, <2>2
  <2> QED  BY <1>1, <1>7, <1>8, <2>1, <2>3
<1>9. ASSUME n + 1 \in Compactions(c)
      PROVE  \E cut \in 1 .. n : /\ e.first = b[cut].id /\ Begins(b, cut, n + 1)
                                 /\ \A i \in Start(b) .. cut - 1 : IsMessage(b[i]) => b[i].id \in e.covers
                                 /\ \A k \in 1 .. n + 1 : c[k].id = e.first => k = cut
  <2>1. e.kind = "compaction"
    BY <1>1, <1>9 DEF Compactions
  <2>2. PICK cut : Compacted(b, e, cut)
    BY <2>1
  <2>3. cut \in 1 .. n /\ e.first = b[cut].id /\ c[cut] = b[cut]
    BY <1>1, <2>2 DEF Compacted
  <2>4. \A k \in 1 .. n + 1 : c[k].id = e.first => k = cut
    <3>1. cut \in 1 .. n + 1
      BY <1>1, <2>3
    <3> QED  BY <1>1, <1>5, <2>3, <3>1 DEF Distinct
  <2> QED  BY <2>2, <2>3, <2>4 DEF Compacted, n
<1>10. FirstsBegin(c)
  <2> SUFFICES ASSUME NEW j \in Compactions(c), NEW k \in 1 .. n + 1, c[k].id = c[j].first
               PROVE  k < j /\ Begins(c, k, j)
    BY <1>1 DEF FirstsBegin
  <2>1. CASE j = n + 1
    <3>1. PICK cut \in 1 .. n : e.first = b[cut].id /\ Begins(b, cut, n + 1)
                                /\ \A l \in 1 .. n + 1 : c[l].id = e.first => l = cut
      BY <1>9, <2>1
    <3>2. k = cut
      BY <1>1, <2>1, <3>1
    <3>3. n + 1 \in 1 .. n + 1 /\ k < j
      BY <1>1, <2>1, <3>2
    <3> QED  BY <1>4, <2>1, <3>1, <3>2, <3>3
  <2>2. CASE j # n + 1
    <3>1. j \in Compactions(b) /\ k \in DOMAIN b /\ b[k].id = b[j].first
      BY <1>1, <1>8, <2>2
    <3>2. k < j /\ Begins(b, k, j)
      BY <3>1 DEF SoundBranch, FirstsBegin
    <3>3. j \in 1 .. n + 1
      BY <1>7
    <3> QED  BY <1>1, <1>4, <3>1, <3>2, <3>3
  <2> QED  BY <2>1, <2>2
<1>11. ASSUME NEW j \in Compactions(c), NEW l \in Compactions(b), l <= j, Orderly(c, j)
       PROVE  Orderly(b, l)
  <2>1. ASSUME NEW i \in Compactions(b), i <= l
        PROVE  i \in Compactions(c) /\ i <= j /\ i # n + 1 /\ c[i] = b[i]
    BY <1>1, <1>7, <1>11, <2>1
  <2>2. \A i, k \in Compactions(b) : i < k /\ k <= l => b[i].covers \subseteq b[k].covers
    <3> SUFFICES ASSUME NEW i \in Compactions(b), NEW k \in Compactions(b), i < k, k <= l
                 PROVE  b[i].covers \subseteq b[k].covers
      OBVIOUS
    <3>1. i <= l
      BY <1>1, <1>7
    <3> QED  BY <1>11, <2>1, <3>1 DEF Orderly
  <2>3. \A i \in Compactions(b) : i <= l => \E k \in DOMAIN b : b[k].id = b[i].first
    <3> SUFFICES ASSUME NEW i \in Compactions(b), i <= l
                 PROVE  \E k \in DOMAIN b : b[k].id = b[i].first
      OBVIOUS
    <3>1. PICK k \in 1 .. n + 1 : c[k].id = c[i].first
      BY <1>1, <1>11, <2>1 DEF Orderly
    <3> QED  BY <1>1, <1>8, <2>1, <3>1
  <2> QED  BY <2>2, <2>3 DEF Orderly
<1>12. Covering(c)
  <2> SUFFICES ASSUME NEW j \in Compactions(c), Orderly(c, j), NEW i \in 1 .. j - 1, NEW k \in 1 .. n + 1,
                      IsMessage(c[i]), c[k].id = c[j].first
               PROVE  k <= i \/ c[i].id \in c[j].covers
    BY <1>1 DEF Covering
  <2>1. i \in 1 .. n /\ c[i] = b[i]
    BY <1>1, <1>7
  <2>2. CASE j # n + 1
    <3>1. j \in Compactions(b) /\ k \in DOMAIN b /\ b[k].id = b[j].first
      BY <1>1, <1>8, <2>2
    <3>2. Orderly(b, j) /\ c[j] = b[j]
      BY <1>1, <1>7, <1>11, <3>1
    <3> QED  BY <2>1, <3>1, <3>2 DEF SoundBranch, Covering
  <2>3. CASE j = n + 1
    <3>1. PICK cut \in 1 .. n : /\ e.first = b[cut].id
                                /\ \A l \in Start(b) .. cut - 1 : IsMessage(b[l]) => b[l].id \in e.covers
                                /\ \A l \in 1 .. n + 1 : c[l].id = e.first => l = cut
      BY <1>9, <2>3
    <3>2. k = cut /\ c[j] = e
      BY <1>1, <2>3, <3>1
    <3>3. CASE i < cut /\ i < Start(b)
      <4> DEFINE P == Previous(b)
                 k0 == Start(b)
      <4>1. P \in Nat /\ (P # 0 => P \in Compactions(b) /\ P \in 1 .. n)
        BY <1>1, PreviousIs DEF Compactions
      <4>2. P # 0
        BY <1>1, <3>3, StartIs
      <4>3. P \in Compactions(c) /\ P <= j /\ P < j /\ c[P] = b[P]
        BY <1>1, <1>7, <2>3, <4>1, <4>2
      <4>4. Orderly(b, P)
        BY <1>11, <4>1, <4>2, <4>3
      <4>5. FirstKept(b) # {}
        <5>1. \E l \in DOMAIN b : b[l].id = b[P].first
          BY <1>1, <4>1, <4>2, <4>4 DEF Orderly
        <5> QED  BY <5>1 DEF FirstKept
      <4>6. k0 \in DOMAIN b /\ b[k0].id = b[P].first
        BY <4>2, <4>5, StartIs DEF FirstKept
      <4>7. k0 < P
        BY <4>1, <4>2, <4>6 DEF SoundBranch, FirstsBegin
      <4>8. i \in 1 .. P - 1
        BY <1>1, <3>3, <4>1, <4>6, <4>7
      <4>9. k0 <= i \/ b[i].id \in b[P].covers
        BY <2>1, <4>1, <4>2, <4>4, <4>6, <4>8 DEF SoundBranch, Covering
      <4>10. ~(k0 <= i)
        BY <1>1, <3>3, <4>6
      <4>11. c[P].covers \subseteq c[j].covers
        <5>1. \A l, m \in Compactions(c) : l < m /\ m <= j => c[l].covers \subseteq c[m].covers
          BY DEF Orderly
        <5>2. j <= j
          BY <1>1, <2>3
        <5> QED  BY <4>3, <5>1, <5>2
      <4> HIDE DEF P, k0
      <4> QED  BY <2>1, <4>3, <4>9, <4>10, <4>11
    <3>4. CASE i < cut /\ ~(i < Start(b))
      <4>1. i \in Start(b) .. cut - 1
        BY <1>1, <3>4, StartIs
      <4> QED  BY <2>1, <3>1, <3>2, <4>1
    <3>5. CASE ~(i < cut)
      BY <1>1, <3>2, <3>5
    <3> QED  BY <3>3, <3>4, <3>5
  <2> QED  BY <2>2, <2>3
<1> QED  BY <1>1, <1>5, <1>6, <1>10, <1>12 DEF SoundBranch, c

-----------------------------------------------------------------------------
(* The branch of a copy.                                                    *)

Copied(b)    == Retained(b) \o Relabelled(b)
Unlabeled(b) == {i \in DOMAIN b : b[i].kind # "label"}

(* It has the entries that are no labels in their order, then labels with   *)
(* new ids.                                                                 *)
LEMMA CopiedIs ==
  ASSUME NEW b \in Seq(BranchEntry)
  PROVE  LET I == Unlabeled(b)
             r == Cardinality(Unlabeled(b))
             c == Copied(b)
         IN  /\ r \in Nat /\ I \subseteq Nat /\ IsFiniteSet(I)
             /\ c \in Seq(BranchEntry) /\ r <= Len(c)
             /\ \A n \in 1 .. r : Nth(I, n) \in I /\ c[n] = b[Nth(I, n)]
             /\ \A i \in I : Rank(I, i) \in 1 .. r /\ c[Rank(I, i)] = b[i] /\ Nth(I, Rank(I, i)) = i
             /\ \A m, n \in 1 .. r : m < n <=> Nth(I, m) < Nth(I, n)
             /\ \A n \in r + 1 .. Len(c) :
                  /\ c[n].kind = "label"
                  /\ \A k \in 1 .. r : c[n].id # c[k].id /\ c[n].id # c[k].first
                  /\ \A k \in r + 1 .. Len(c) : c[n].id = c[k].id => n = k
<1> DEFINE I == Unlabeled(b)
           r == Cardinality(Unlabeled(b))
           old == Retained(b)
           L == {i \in DOMAIN b : b[i].kind = "label"}
           labels == At(b, L)
           new == Relabelled(b)
<1>1. I \in SUBSET DOMAIN b /\ L \in SUBSET DOMAIN b
  BY DEF Unlabeled
<1>2. old = At(b, I)
  BY DEF Retained, Unlabeled
<1>3. /\ IsFiniteSet(I) /\ I \subseteq Nat /\ r \in Nat /\ old \in Seq(BranchEntry) /\ Len(old) = r
      /\ \A n \in 1 .. r : old[n] = b[Nth(I, n)]
  BY <1>1, <1>2, AtIs
<1>4. DOMAIN old = 1 .. r
  BY <1>3
<1>5. /\ \A n \in 1 .. r : Nth(I, n) \in I
      /\ \A i \in I : Rank(I, i) \in 1 .. r /\ old[Rank(I, i)] = b[i] /\ Nth(I, Rank(I, i)) = i
      /\ \A m, n \in 1 .. r : m < n <=> Nth(I, m) < Nth(I, n)
  BY <1>1, <1>2, <1>4, AtPlace
<1>6. labels \in Seq({b[i] : i \in L})
  BY <1>1, AtTyped
<1>7. \A n \in DOMAIN labels : labels[n].kind = "label" /\ labels[n] \in BranchEntry
  <2>1. \A n \in DOMAIN labels : Nth(L, n) \in L /\ labels[n] = b[Nth(L, n)]
    BY <1>1, AtPlace
  <2>2. \A i \in L : b[i].kind = "label" /\ b[i] \in BranchEntry
    OBVIOUS
  <2> HIDE DEF L, labels
  <2> QED  BY <2>1, <2>2
<1>8. DOMAIN labels = 1 .. Len(labels) /\ Len(labels) \in Nat
  BY <1>6
<1>9. new = [i \in DOMAIN labels |-> [labels[i] EXCEPT !.id = FreshId(old, i)]]
  BY DEF Relabelled
<1> HIDE DEF I, r, old, L, labels, new
<1>10. \A i \in DOMAIN labels : FreshId(old, i) \in Nat /\ FreshId(old, i) \notin Named(old)
  <2>1. \A i \in DOMAIN labels : i \in Nat \ {0}
    BY <1>8
  <2> QED  BY <1>3, <2>1, FreshIdIs
<1>11. \A i, j \in DOMAIN labels : FreshId(old, i) = FreshId(old, j) => i = j
  <2>1. \A i \in DOMAIN labels : i \in Nat \ {0}
    BY <1>8
  <2> QED  BY <1>3, <2>1, FreshIdIs
<1>12. ASSUME NEW i \in DOMAIN labels
       PROVE  new[i] \in BranchEntry /\ new[i].kind = "label" /\ new[i].id = FreshId(old, i)
  <2>1. labels[i] \in BranchEntry /\ labels[i].kind = "label" /\ FreshId(old, i) \in Nat
    BY <1>7, <1>10
  <2>2. new[i] = [labels[i] EXCEPT !.id = FreshId(old, i)]
    BY <1>9
  <2> QED  BY <2>1, <2>2 DEF BranchEntry
<1>13. new \in Seq(BranchEntry) /\ Len(new) = Len(labels) /\ DOMAIN new = DOMAIN labels
  <2>1. DOMAIN new = 1 .. Len(labels) /\ new = [i \in 1 .. Len(labels) |-> new[i]]
    BY <1>8, <1>9
  <2> QED  BY <1>8, <1>12, <2>1
<1> DEFINE c == old \o new
<1>14. /\ c \in Seq(BranchEntry) /\ Len(c) = r + Len(new)
       /\ \A n \in 1 .. r + Len(new) : c[n] = IF n <= r THEN old[n] ELSE new[n - r]
  <2>1. /\ old \o new \in Seq(BranchEntry) /\ Len(old \o new) = Len(old) + Len(new)
        /\ \A n \in 1 .. Len(old) + Len(new) : (old \o new)[n] = IF n <= Len(old) THEN old[n] ELSE new[n - Len(old)]
    BY <1>3, <1>13, ConcatProperties
  <2> QED  BY <1>3, <2>1
<1> HIDE DEF c
<1>15. r <= Len(c) /\ \A n \in 1 .. r : c[n] = old[n]
  BY <1>3, <1>8, <1>13, <1>14
<1>16. ASSUME NEW n \in r + 1 .. Len(c)
       PROVE  n - r \in DOMAIN labels /\ c[n] = new[n - r]
  <2>1. n \in 1 .. r + Len(new) /\ ~(n <= r) /\ n - r \in 1 .. Len(labels)
    BY <1>3, <1>8, <1>13, <1>14
  <2> QED  BY <1>8, <1>14, <2>1
<1>17. ASSUME NEW n \in r + 1 .. Len(c)
       PROVE  /\ c[n].kind = "label"
              /\ \A k \in 1 .. r : c[n].id # c[k].id /\ c[n].id # c[k].first
              /\ \A k \in r + 1 .. Len(c) : c[n].id = c[k].id => n = k
  <2>1. c[n].kind = "label" /\ c[n].id = FreshId(old, n - r)
    BY <1>12, <1>16
  <2>2. \A k \in 1 .. r : c[k].id \in Named(old) /\ c[k].first \in Named(old)
    BY <1>3, <1>4, <1>15, NamedIs
  <2>3. c[n].id \notin Named(old)
    BY <1>10, <1>16, <2>1
  <2>4. ASSUME NEW k \in r + 1 .. Len(c), c[n].id = c[k].id
        PROVE  n = k
    <3>1. FreshId(old, n - r) = FreshId(old, k - r) /\ n - r \in DOMAIN labels /\ k - r \in DOMAIN labels
      BY <1>12, <1>16, <2>1, <2>4
    <3>2. n - r = k - r
      BY <1>11, <3>1
    <3> QED  BY <1>3, <1>14, <3>2
  <2> QED  BY <2>1, <2>2, <2>3, <2>4
<1>18. c = Copied(b)
  BY DEF Copied, c, old, new
<1>19. \A n \in 1 .. r : c[n] = b[Nth(I, n)]
  BY <1>3, <1>15
<1>20. \A i \in I : c[Rank(I, i)] = b[i]
  BY <1>5, <1>15
<1> QED  BY <1>3, <1>5, <1>14, <1>15, <1>17, <1>18, <1>19, <1>20 DEF I, r

(* A prefix of a sound branch is sound.                                     *)
LEMMA PrefixSound ==
  ASSUME NEW b \in Seq(BranchEntry), SoundBranch(b), NEW leaf \in DOMAIN b
  PROVE  SubSeq(b, 1, leaf) \in Seq(BranchEntry) /\ SoundBranch(SubSeq(b, 1, leaf))
<1> DEFINE c == SubSeq(b, 1, leaf)
<1>1. /\ c \in Seq(BranchEntry) /\ DOMAIN c = 1 .. leaf /\ leaf \in Nat /\ leaf <= Len(b) /\ Len(b) \in Nat
      /\ DOMAIN b = 1 .. Len(b) /\ \A i \in 1 .. leaf : c[i] = b[i]
  OBVIOUS
<1> HIDE DEF c
<1>2. \A i \in 1 .. leaf : i \in DOMAIN b
  BY <1>1
<1>3. Distinct(c)
  BY <1>1, <1>2 DEF SoundBranch, Distinct
<1>4. ResultsCalled(c)
  <2> SUFFICES ASSUME NEW i \in 1 .. leaf, c[i].kind = "result"
               PROVE  Called(c, i)
    BY <1>1 DEF ResultsCalled
  <2>1. Called(b, i)
    BY <1>1, <1>2 DEF SoundBranch, ResultsCalled
  <2>2. \A k \in 1 .. i - 1 : k \in 1 .. leaf
    BY <1>1
  <2>3. PICK q \in 1 .. i - 1 : b[q].kind \in {"assistant", "result"} /\ \A k \in q + 1 .. i - 1 : Quiet(b[k])
    BY <2>1 DEF Called
  <2>4. \A k \in q + 1 .. i - 1 : k \in 1 .. i - 1
    OBVIOUS
  <2> QED  BY <1>1, <2>2, <2>3, <2>4 DEF Called
<1>5. Compactions(c) = Compactions(b) \cap 1 .. leaf
  BY <1>1 DEF Compactions
<1>6. FirstsBegin(c)
  <2> SUFFICES ASSUME NEW j \in Compactions(c), NEW k \in 1 .. leaf, c[k].id = c[j].first
               PROVE  k < j /\ Begins(c, k, j)
    BY <1>1 DEF FirstsBegin
  <2>1. j \in Compactions(b) /\ j \in 1 .. leaf /\ b[k].id = b[j].first
    BY <1>1, <1>5
  <2>2. k < j /\ Begins(b, k, j)
    BY <1>2, <2>1 DEF SoundBranch, FirstsBegin
  <2>3. PICK q \in k .. j - 1 : b[q].kind \in {"user", "assistant"} /\ \A i \in k .. q - 1 : Quiet(b[i])
    BY <2>2 DEF Begins
  <2>4. q \in 1 .. leaf /\ \A i \in k .. q - 1 : i \in 1 .. leaf
    BY <1>1, <2>1
  <2> QED  BY <1>1, <2>2, <2>3, <2>4 DEF Begins
<1>7. ASSUME NEW j \in Compactions(c), Orderly(c, j)
      PROVE  Orderly(b, j)
  <2>1. \A i \in Compactions(b) : i <= j => i \in Compactions(c) /\ c[i] = b[i]
    <3> SUFFICES ASSUME NEW i \in Compactions(b), i <= j
                 PROVE  i \in Compactions(c) /\ c[i] = b[i]
      OBVIOUS
    <3>1. i \in 1 .. Len(b) /\ j \in 1 .. leaf
      BY <1>1, <1>5 DEF Compactions
    <3>2. i \in 1 .. leaf
      BY <1>1, <3>1
    <3> QED  BY <1>1, <1>5, <3>2
  <2>2. \A i, k \in Compactions(b) : i < k /\ k <= j => b[i].covers \subseteq b[k].covers
    <3> SUFFICES ASSUME NEW i \in Compactions(b), NEW k \in Compactions(b), i < k, k <= j
                 PROVE  b[i].covers \subseteq b[k].covers
      OBVIOUS
    <3>1. i <= j
      BY <1>1, <1>5 DEF Compactions
    <3> QED  BY <1>7, <2>1, <3>1 DEF Orderly
  <2>3. \A i \in Compactions(b) : i <= j => \E k \in DOMAIN b : b[k].id = b[i].first
    BY <1>1, <1>2, <1>7, <2>1 DEF Orderly
  <2> QED  BY <2>2, <2>3 DEF Orderly
<1>8. Covering(c)
  <2> SUFFICES ASSUME NEW j \in Compactions(c), Orderly(c, j), NEW i \in 1 .. j - 1, NEW k \in 1 .. leaf,
                      IsMessage(c[i]), c[k].id = c[j].first
               PROVE  k <= i \/ c[i].id \in c[j].covers
    BY <1>1 DEF Covering
  <2>1. j \in Compactions(b) /\ j \in 1 .. leaf /\ i \in 1 .. leaf
    BY <1>1, <1>5
  <2>2. Orderly(b, j)
    BY <1>7
  <2> QED  BY <1>1, <1>2, <2>1, <2>2 DEF SoundBranch, Covering
<1> QED  BY <1>1, <1>3, <1>4, <1>6, <1>8 DEF SoundBranch, c

(* A copy of a sound branch is sound.                                       *)
LEMMA CopySound ==
  ASSUME NEW b \in Seq(BranchEntry), SoundBranch(b)
  PROVE  Copied(b) \in Seq(BranchEntry) /\ SoundBranch(Copied(b))
<1> DEFINE I == Unlabeled(b)
           r == Cardinality(Unlabeled(b))
           c == Copied(b)
           N(n) == Nth(I, n)
           R(i) == Rank(I, i)
<1>1. /\ r \in Nat /\ c \in Seq(BranchEntry) /\ r <= Len(c) /\ Len(c) \in Nat /\ DOMAIN c = 1 .. Len(c)
      /\ Len(b) \in Nat /\ DOMAIN b = 1 .. Len(b)
      /\ \A n \in 1 .. r : N(n) \in I /\ c[n] = b[N(n)]
      /\ \A i \in I : R(i) \in 1 .. r /\ c[R(i)] = b[i] /\ N(R(i)) = i
      /\ \A m, n \in 1 .. r : m < n <=> N(m) < N(n)
  <2>1. r \in Nat /\ c \in Seq(BranchEntry) /\ r <= Len(c)
    BY CopiedIs
  <2>2. /\ \A n \in 1 .. r : N(n) \in I /\ c[n] = b[N(n)]
        /\ \A i \in I : R(i) \in 1 .. r /\ c[R(i)] = b[i] /\ N(R(i)) = i
        /\ \A m, n \in 1 .. r : m < n <=> N(m) < N(n)
    BY CopiedIs
  <2>3. Len(b) \in Nat /\ DOMAIN b = 1 .. Len(b)
    OBVIOUS
  <2> HIDE DEF I, r, c, N, R
  <2>4. Len(c) \in Nat /\ DOMAIN c = 1 .. Len(c)
    BY <2>1
  <2> QED  BY <2>1, <2>2, <2>3, <2>4
<1>2. \A n \in r + 1 .. Len(c) :
        /\ c[n].kind = "label"
        /\ \A k \in 1 .. r : c[n].id # c[k].id /\ c[n].id # c[k].first
        /\ \A k \in r + 1 .. Len(c) : c[n].id = c[k].id => n = k
  BY CopiedIs
<1>3. \A i \in DOMAIN b : b[i].kind # "label" <=> i \in I
  BY DEF Unlabeled
<1>4. I \subseteq DOMAIN b
  BY DEF Unlabeled
<1> HIDE DEF I, r, c, N, R
<1>5. \A n \in 1 .. r : N(n) \in DOMAIN b /\ N(n) \in Nat
  BY <1>1, <1>4
<1>6. \A n \in 1 .. Len(c) : n \in 1 .. r \/ n \in r + 1 .. Len(c)
  BY <1>1
<1>7. \A n \in 1 .. Len(c) : c[n].kind # "label" => n \in 1 .. r
  BY <1>2, <1>6
<1>8. ASSUME NEW m \in 1 .. r, NEW n \in 1 .. r
      PROVE  (m <= n <=> N(m) <= N(n)) /\ (N(m) = N(n) => m = n)
  <2>1. (m < n <=> N(m) < N(n)) /\ (n < m <=> N(n) < N(m)) /\ N(m) \in Nat /\ N(n) \in Nat
    BY <1>1, <1>5
  <2> QED  BY <2>1
<1>9. Distinct(c)
  <2> SUFFICES ASSUME NEW i \in 1 .. Len(c), NEW j \in 1 .. Len(c), c[i].id = c[j].id
               PROVE  i = j
    BY <1>1 DEF Distinct
  <2>1. CASE i \in 1 .. r /\ j \in 1 .. r
    <3>1. b[N(i)].id = b[N(j)].id
      BY <1>1, <2>1
    <3>2. N(i) = N(j)
      BY <1>5, <2>1, <3>1 DEF SoundBranch, Distinct
    <3> QED  BY <1>8, <2>1, <3>2
  <2>2. CASE i \in r + 1 .. Len(c)
    BY <1>2, <1>6, <2>2
  <2>3. CASE j \in r + 1 .. Len(c)
    BY <1>2, <1>6, <2>3
  <2> QED  BY <1>6, <2>1, <2>2, <2>3
<1>10. ResultsCalled(c)
  <2> SUFFICES ASSUME NEW i \in 1 .. Len(c), c[i].kind = "result"
               PROVE  Called(c, i)
    BY <1>1 DEF ResultsCalled
  <2>1. i \in 1 .. r /\ N(i) \in DOMAIN b /\ c[i] = b[N(i)]
    BY <1>1, <1>5, <1>7
  <2>2. Called(b, N(i))
    BY <2>1 DEF SoundBranch, ResultsCalled
  <2>3. PICK q \in 1 .. N(i) - 1 : b[q].kind \in {"assistant", "result"} /\ \A k \in q + 1 .. N(i) - 1 : Quiet(b[k])
    BY <2>2 DEF Called
  <2>4. q \in DOMAIN b /\ q \in I /\ q < N(i)
    BY <1>1, <1>3, <2>1, <2>3
  <2>5. R(q) \in 1 .. r /\ c[R(q)] = b[q] /\ N(R(q)) = q
    BY <1>1, <2>4
  <2>6. R(q) < i
    BY <1>1, <2>1, <2>4, <2>5
  <2>7. R(q) \in 1 .. i - 1
    BY <1>1, <2>1, <2>5, <2>6
  <2>8. ASSUME NEW k \in R(q) + 1 .. i - 1
        PROVE  Quiet(c[k])
    <3>1. k \in 1 .. r /\ R(q) < k /\ k < i
      BY <1>1, <2>1, <2>5
    <3>2. q < N(k) /\ N(k) < N(i) /\ N(k) \in Nat /\ N(i) \in Nat /\ q \in Nat
      BY <1>1, <1>5, <2>1, <2>4, <2>5, <3>1
    <3>3. N(k) \in q + 1 .. N(i) - 1
      BY <3>2
    <3> QED  BY <1>1, <2>3, <3>1, <3>3
  <2> QED  BY <2>3, <2>5, <2>7, <2>8 DEF Called
<1>11. ASSUME NEW j \in Compactions(c)
       PROVE  j \in 1 .. r /\ N(j) \in Compactions(b) /\ c[j] = b[N(j)]
  <2>1. j \in 1 .. Len(c) /\ c[j].kind = "compaction"
    BY <1>1 DEF Compactions
  <2>2. j \in 1 .. r
    BY <1>7, <2>1
  <2> QED  BY <1>1, <1>5, <2>1, <2>2 DEF Compactions
<1>12. ASSUME NEW i \in Compactions(b)
       PROVE  R(i) \in Compactions(c) /\ R(i) \in 1 .. r /\ c[R(i)] = b[i] /\ N(R(i)) = i
  <2>1. i \in I
    BY <1>3 DEF Compactions
  <2>2. R(i) \in 1 .. r /\ c[R(i)] = b[i] /\ N(R(i)) = i
    BY <1>1, <2>1
  <2> QED  BY <1>1, <2>2 DEF Compactions
<1>13. ASSUME NEW j \in 1 .. r, NEW k \in 1 .. Len(c), c[k].id = c[j].first
       PROVE  k \in 1 .. r /\ c[k] = b[N(k)] /\ N(k) \in DOMAIN b /\ b[N(k)].id = c[j].first
  <2>1. k \in 1 .. r
    BY <1>2, <1>6, <1>13
  <2> QED  BY <1>1, <1>5, <1>13, <2>1
<1>14. FirstsBegin(c)
  <2> SUFFICES ASSUME NEW j \in Compactions(c), NEW k \in 1 .. Len(c), c[k].id = c[j].first
               PROVE  k < j /\ Begins(c, k, j)
    BY <1>1 DEF FirstsBegin
  <2>1. j \in 1 .. r /\ N(j) \in Compactions(b) /\ c[j] = b[N(j)]
    BY <1>11
  <2>2. k \in 1 .. r /\ N(k) \in DOMAIN b /\ b[N(k)].id = b[N(j)].first
    BY <1>13, <2>1
  <2>3. N(k) < N(j) /\ Begins(b, N(k), N(j))
    BY <2>1, <2>2 DEF SoundBranch, FirstsBegin
  <2>4. PICK q \in N(k) .. N(j) - 1 : b[q].kind \in {"user", "assistant"} /\ \A i \in N(k) .. q - 1 : Quiet(b[i])
    BY <2>3 DEF Begins
  <2>5. N(k) \in 1 .. Len(b) /\ N(j) \in 1 .. Len(b)
    BY <1>1, <1>5, <2>1, <2>2
  <2>6. q \in DOMAIN b /\ N(k) <= q /\ q < N(j) /\ q \in I
    BY <1>1, <1>3, <2>4, <2>5
  <2>7. R(q) \in 1 .. r /\ c[R(q)] = b[q] /\ N(R(q)) = q
    BY <1>1, <2>6
  <2>8. R(q) < j /\ k <= R(q)
    BY <1>1, <1>8, <2>1, <2>2, <2>6, <2>7
  <2>9. R(q) \in k .. j - 1
    BY <1>1, <2>1, <2>2, <2>7, <2>8
  <2>10. ASSUME NEW i \in k .. R(q) - 1
         PROVE  Quiet(c[i])
    <3>1. i \in 1 .. r /\ i < R(q) /\ k <= i
      BY <1>1, <2>2, <2>7
    <3>2. N(i) < q /\ N(k) <= N(i) /\ N(i) \in Nat /\ N(k) \in Nat
      BY <1>1, <1>5, <1>8, <2>2, <2>7, <3>1
    <3>3. N(i) \in N(k) .. q - 1
      BY <1>1, <2>6, <3>2
    <3> QED  BY <1>1, <2>4, <3>1, <3>3
  <2>11. k < j
    BY <1>1, <2>1, <2>2, <2>3
  <2> QED  BY <2>4, <2>7, <2>9, <2>10, <2>11 DEF Begins
<1>15. ASSUME NEW j \in Compactions(c), Orderly(c, j)
       PROVE  Orderly(b, N(j))
  <2>1. j \in 1 .. r
    BY <1>11
  <2>2. ASSUME NEW i \in Compactions(b), NEW k \in Compactions(b), i < k, k <= N(j)
        PROVE  b[i].covers \subseteq b[k].covers
    <3>1. R(i) < R(k) /\ R(k) <= j
      BY <1>1, <1>8, <1>12, <2>1, <2>2
    <3> QED  BY <1>12, <1>15, <3>1 DEF Orderly
  <2>3. ASSUME NEW i \in Compactions(b), i <= N(j)
        PROVE  \E k \in DOMAIN b : b[k].id = b[i].first
    <3>1. R(i) <= j /\ R(i) \in Compactions(c) /\ R(i) \in 1 .. r /\ c[R(i)] = b[i]
      BY <1>8, <1>12, <2>1, <2>3
    <3>2. PICK k \in 1 .. Len(c) : c[k].id = c[R(i)].first
      BY <1>1, <1>15, <3>1 DEF Orderly
    <3> QED  BY <1>13, <3>1, <3>2
  <2> QED  BY <2>2, <2>3 DEF Orderly
<1>16. Covering(c)
  <2> SUFFICES ASSUME NEW j \in Compactions(c), Orderly(c, j), NEW i \in 1 .. j - 1, NEW k \in 1 .. Len(c),
                      IsMessage(c[i]), c[k].id = c[j].first
               PROVE  k <= i \/ c[i].id \in c[j].covers
    BY <1>1 DEF Covering
  <2>1. j \in 1 .. r /\ N(j) \in Compactions(b) /\ c[j] = b[N(j)]
    BY <1>11
  <2>2. k \in 1 .. r /\ N(k) \in DOMAIN b /\ b[N(k)].id = b[N(j)].first
    BY <1>13, <2>1
  <2>3. i \in 1 .. r /\ i < j
    BY <1>1, <2>1
  <2>4. c[i] = b[N(i)] /\ N(i) < N(j) /\ N(i) \in DOMAIN b
    BY <1>1, <1>5, <2>1, <2>3
  <2>5. N(i) \in 1 .. N(j) - 1
    BY <1>1, <1>5, <2>1, <2>4
  <2>6. Orderly(b, N(j))
    BY <1>15
  <2>7. N(k) <= N(i) \/ b[N(i)].id \in b[N(j)].covers
    BY <2>1, <2>2, <2>4, <2>5, <2>6 DEF SoundBranch, Covering
  <2> QED  BY <1>8, <2>1, <2>2, <2>3, <2>4, <2>7
<1> QED  BY <1>1, <1>9, <1>10, <1>14, <1>16 DEF SoundBranch, c

-----------------------------------------------------------------------------
(* The steps.                                                               *)

(* An entry as a caller makes it.                                           *)
LEMMA NewEntryIs ==
  ASSUME BranchTypeOK, NEW kind \in BranchKinds, NEW weight \in Nat
  PROVE  LET e == NewEntry(kind, weight)
         IN  /\ e \in BranchEntry /\ e.kind = kind /\ e.id = FreshId(branch, 1) /\ e.covers = {}
             /\ e.id \notin Named(branch)
<1>1. FreshId(branch, 1) \in Nat /\ FreshId(branch, 1) \notin Named(branch)
  BY FreshIdIs DEF BranchTypeOK
<1>2. IsFiniteSet({})
  BY FS_EmptySet
<1> QED  BY <1>1, <1>2 DEF NewEntry, BranchEntry

(* What keeps the invariant when a branch grows by an entry.                *)
LEMMA GrowKeeps ==
  ASSUME BranchInv, NEW e \in BranchEntry, e.id \notin Named(branch), Grow(e),
         e.kind = "result" => owed > 0,
         e.kind = "compaction" => \E cut : Compacted(branch, e, cut),
         owed' \in Nat, copies' \in Nat,
         owed' > 0 => e.kind \in {"assistant", "result"} \/ (Quiet(e) /\ owed > 0)
  PROVE  BranchInv'
<1>1. branch \in Seq(BranchEntry) /\ SoundBranch(branch) /\ branch' = Append(branch, e) /\ owed \in Nat
  BY DEF BranchInv, BranchTypeOK, Grow
<1>2. owed > 0 => Called(branch, Len(branch) + 1)
  BY DEF BranchInv
<1>3. Append(branch, e) \in Seq(BranchEntry) /\ SoundBranch(Append(branch, e))
  BY <1>1, <1>2, GrowSound
<1>4. branch' \in Seq(BranchEntry) /\ SoundBranch(branch')
  BY <1>1, <1>3
<1>5. ASSUME owed' > 0
      PROVE  Called(branch', Len(branch') + 1)
  <2> DEFINE c == Append(branch, e)
             n == Len(branch)
  <2>1. /\ n \in Nat /\ Len(c) = n + 1 /\ c[n + 1] = e
        /\ \A i \in 1 .. n : c[i] = branch[i]
    BY <1>1
  <2> HIDE DEF c, n
  <2>2. Called(c, n + 2)
    <3>1. CASE e.kind \in {"assistant", "result"}
      <4>1. n + 1 \in 1 .. (n + 2) - 1 /\ \A k \in (n + 1) + 1 .. (n + 2) - 1 : FALSE
        BY <2>1
      <4> QED  BY <2>1, <3>1, <4>1 DEF Called
    <3>2. CASE Quiet(e) /\ owed > 0
      <4>1. PICK q \in 1 .. (n + 1) - 1 : branch[q].kind \in {"assistant", "result"}
                                         /\ \A k \in q + 1 .. (n + 1) - 1 : Quiet(branch[k])
        BY <1>2, <3>2 DEF Called, n
      <4>2. q \in 1 .. n /\ q \in 1 .. (n + 2) - 1
        BY <2>1
      <4>3. ASSUME NEW k \in q + 1 .. (n + 2) - 1
            PROVE  Quiet(c[k])
        <5>1. CASE k = n + 1
          BY <2>1, <3>2, <5>1
        <5>2. CASE k # n + 1
          <6>1. k \in q + 1 .. (n + 1) - 1 /\ k \in 1 .. n
            BY <2>1, <4>2, <5>2
          <6> QED  BY <2>1, <4>1, <6>1
        <5> QED  BY <5>1, <5>2
      <4> QED  BY <2>1, <4>1, <4>2, <4>3 DEF Called
    <3> QED  BY <1>5, <3>1, <3>2
  <2>3. branch' = c /\ Len(branch') + 1 = n + 2
    BY <1>1, <2>1 DEF c
  <2> QED  BY <2>2, <2>3
<1> QED  BY <1>4, <1>5 DEF BranchInv, BranchTypeOK

(* What lies before the cut of a compaction is finitely much.               *)
LEMMA CoversIs ==
  ASSUME NEW b \in Seq(BranchEntry), NEW p, p.history \cup p.prefix \subseteq DOMAIN b
  PROVE  LET covers == Carried(b, p) \cup IdsAt(b, p.history \cup p.prefix)
         IN  covers \in SUBSET Nat /\ IsFiniteSet(covers)
<1> DEFINE M == p.history \cup p.prefix
           f == [i \in M |-> b[i].id]
<1>1. IsFiniteSet(DOMAIN b) /\ \A i \in DOMAIN b : b[i].id \in Nat
  <2>1. DOMAIN b = 1 .. Len(b) /\ Len(b) \in Nat
    BY PlacesIs
  <2> QED  BY <2>1, FS_Interval, PlacesIs
<1>2. IsFiniteSet(M)
  BY <1>1, FS_Subset
<1> HIDE DEF M
<1>3. IsFiniteSet(IdsAt(b, M)) /\ IdsAt(b, M) \subseteq Nat
  <2>1. f \in Surjection(M, IdsAt(b, M))
    BY DEF Surjection, IdsAt
  <2>2. M \subseteq DOMAIN b
    BY DEF M
  <2> QED  BY <1>1, <1>2, <2>1, <2>2, FS_Surjection DEF IdsAt
<1>4. IsFiniteSet(Carried(b, p)) /\ Carried(b, p) \subseteq Nat
  <2>1. CASE Carried(b, p) = {}
    BY <2>1, FS_EmptySet
  <2>2. CASE Carried(b, p) # {}
    <3>1. Carried(b, p) = b[Previous(b)].covers /\ Previous(b) # 0
      BY <2>2 DEF Carried
    <3>2. b[Previous(b)] \in BranchEntry
      BY <3>1, PreviousIs, PlacesIs
    <3> QED  BY <3>1, <3>2 DEF BranchEntry
  <2> QED  BY <2>1, <2>2
<1>5. IsFiniteSet(Carried(b, p) \cup IdsAt(b, M))
  BY <1>3, <1>4, FS_Union
<1> QED  BY <1>3, <1>4, <1>5 DEF M

(* A compaction keeps the invariant.                                        *)
LEMMA CompactKeeps ==
  ASSUME BranchInv, Compact, copies' \in Nat
  PROVE  BranchInv'
<1> DEFINE p == Prepare(branch)
           covers == Carried(branch, p) \cup IdsAt(branch, p.history \cup p.prefix)
           old == NewEntry("compaction", 0)
           e == [old EXCEPT !.first = branch[p.cut].id, !.covers = covers]
<1>1. p.cut > 0 /\ Grow(e) /\ owed' = 0
  BY DEF Compact
<1>2. branch \in Seq(BranchEntry)
  BY DEF BranchInv, BranchTypeOK
<1>3. /\ p.cut \in DOMAIN branch /\ Begins(branch, p.cut, Len(branch) + 1)
      /\ p.history \cup p.prefix = {i \in Start(branch) .. p.cut - 1 : IsMessage(branch[i])}
      /\ p.history \cup p.prefix \subseteq DOMAIN branch
  BY <1>1, <1>2, PrepareIs
<1> HIDE DEF p
<1>4. covers \in {c \in SUBSET Nat : IsFiniteSet(c)}
  BY <1>2, <1>3, CoversIs
<1>5. /\ old \in BranchEntry /\ old.kind = "compaction" /\ old.id \notin Named(branch)
  BY NewEntryIs DEF BranchInv, BranchKinds
<1>6. \A i \in Start(branch) .. p.cut - 1 : IsMessage(branch[i]) => branch[i].id \in covers
  BY <1>3 DEF IdsAt
<1>7. branch[p.cut].id \in Nat
  BY <1>2, <1>3, PlacesIs
<1> HIDE DEF covers, old
<1>8. e \in BranchEntry /\ e.kind = "compaction" /\ e.id \notin Named(branch)
      /\ e.first = branch[p.cut].id /\ e.covers = covers
  BY <1>4, <1>5, <1>7 DEF BranchEntry
<1> HIDE DEF e
<1>9. Compacted(branch, e, p.cut)
  BY <1>3, <1>6, <1>8 DEF Compacted
<1>10. e.kind # "result" /\ owed' \in Nat /\ ~(owed' > 0)
  BY <1>1, <1>8
<1> QED  BY <1>1, <1>8, <1>9, <1>10, GrowKeeps

(* ... and so does a copy.                                                  *)
LEMMA CopyKeeps ==
  ASSUME BranchInv, NEW leaf \in DOMAIN branch, CopyBranch(leaf)
  PROVE  BranchInv'
<1>1. branch \in Seq(BranchEntry) /\ SoundBranch(branch) /\ copies \in Nat
  BY DEF BranchInv, BranchTypeOK
<1> DEFINE path == SubSeq(branch, 1, leaf)
<1>2. path \in Seq(BranchEntry) /\ SoundBranch(path)
  BY <1>1, PrefixSound
<1>3. branch' = Copied(path) /\ copies' = copies + 1 /\ owed' = 0
  BY DEF CopyBranch, Copied
<1> HIDE DEF path
<1>4. Copied(path) \in Seq(BranchEntry) /\ SoundBranch(Copied(path))
  BY <1>2, CopySound
<1> QED  BY <1>1, <1>3, <1>4 DEF BranchInv, BranchTypeOK

(* The invariant holds of an empty branch.                                  *)
LEMMA BranchStarts ==
  ASSUME BranchInit
  PROVE  BranchInv
<1>1. branch = <<>> /\ owed = 0 /\ copies = 0
  BY DEF BranchInit
<1>2. DOMAIN branch = {} /\ Compactions(branch) = {}
  BY <1>1 DEF Compactions
<1> QED  BY <1>1, <1>2 DEF BranchInv, BranchTypeOK, SoundBranch, Distinct, ResultsCalled, FirstsBegin, Covering

(* Every step keeps it.                                                     *)
LEMMA BranchKeeps ==
  ASSUME BranchInv, [BranchNext]_branchVars
  PROVE  BranchInv'
<1>1. BranchTypeOK /\ owed \in Nat /\ copies \in Nat
  BY DEF BranchInv, BranchTypeOK
<1>2. Weights \subseteq Nat /\ Notes \subseteq {"label", "note"}
  BY CompactionAssumption
<1>3. CASE UNCHANGED branchVars
  BY <1>3 DEF BranchInv, BranchTypeOK, branchVars
<1>4. CASE AddUser /\ UNCHANGED copies
  <2>1. PICK w \in Weights : Grow(NewEntry("user", w))
    BY <1>4 DEF AddUser
  <2>2. owed' = 0 /\ copies' = copies
    BY <1>4 DEF AddUser
  <2>3. NewEntry("user", w) \in BranchEntry /\ NewEntry("user", w).kind = "user"
        /\ NewEntry("user", w).id \notin Named(branch)
    BY <1>1, <1>2, NewEntryIs DEF BranchKinds
  <2> QED  BY <1>1, <2>1, <2>2, <2>3, GrowKeeps
<1>5. CASE AddAssistant /\ UNCHANGED copies
  <2>1. PICK w \in Weights : Grow(NewEntry("assistant", w))
    BY <1>5 DEF AddAssistant
  <2>2. owed' \in Nat /\ copies' = copies
    BY <1>5 DEF AddAssistant
  <2>3. NewEntry("assistant", w) \in BranchEntry /\ NewEntry("assistant", w).kind = "assistant"
        /\ NewEntry("assistant", w).id \notin Named(branch)
    BY <1>1, <1>2, NewEntryIs DEF BranchKinds
  <2> QED  BY <1>1, <2>1, <2>2, <2>3, GrowKeeps
<1>6. CASE AddResult /\ UNCHANGED copies
  <2>1. PICK w \in Weights : Grow(NewEntry("result", w))
    BY <1>6 DEF AddResult
  <2>2. owed > 0 /\ owed' = owed - 1 /\ owed' \in Nat /\ copies' = copies
    BY <1>1, <1>6 DEF AddResult
  <2>3. NewEntry("result", w) \in BranchEntry /\ NewEntry("result", w).kind = "result"
        /\ NewEntry("result", w).id \notin Named(branch)
    BY <1>1, <1>2, NewEntryIs DEF BranchKinds
  <2> QED  BY <1>1, <2>1, <2>2, <2>3, GrowKeeps
<1>7. CASE AddNote /\ UNCHANGED copies
  <2>1. PICK n \in Notes : Grow(NewEntry(n, 0))
    BY <1>7 DEF AddNote
  <2>2. owed' = owed /\ copies' = copies
    BY <1>7 DEF AddNote
  <2>3. NewEntry(n, 0) \in BranchEntry /\ NewEntry(n, 0).kind = n /\ NewEntry(n, 0).id \notin Named(branch)
    BY <1>1, <1>2, NewEntryIs DEF BranchKinds
  <2>4. Quiet(NewEntry(n, 0)) /\ NewEntry(n, 0).kind # "result" /\ NewEntry(n, 0).kind # "compaction"
    BY <1>2, <2>3 DEF Quiet
  <2> QED  BY <1>1, <2>1, <2>2, <2>3, <2>4, GrowKeeps
<1>8. CASE Compact /\ UNCHANGED copies
  BY <1>1, <1>8, CompactKeeps
<1>9. CASE \E leaf \in DOMAIN branch : CopyBranch(leaf)
  BY <1>9, CopyKeeps
<1> QED  BY <1>3, <1>4, <1>5, <1>6, <1>7, <1>8, <1>9 DEF BranchNext

(* Every entry of a branch has its type, and every branch is sound.         *)
THEOREM BranchInvariance == BranchSpec => []BranchInv
<1>1. BranchInit => BranchInv
  BY BranchStarts
<1>2. BranchInv /\ [BranchNext]_branchVars => BranchInv'
  BY BranchKeeps
<1> QED  BY <1>1, <1>2, PTL DEF BranchSpec

-----------------------------------------------------------------------------
(* What the model is shown.                                                 *)

(* A result that is kept is kept with the message before it that it answers.*)
LEMMA CallKept ==
  ASSUME NEW b \in Seq(BranchEntry), SoundBranch(b), NEW i \in Kept(b), b[i].kind = "result",
         NEW q \in 1 .. i - 1, b[q].kind \in {"assistant", "result"},
         \A k \in q + 1 .. i - 1 : Quiet(b[k])
  PROVE  q \in Kept(b)
<1>1. Len(b) \in Nat /\ DOMAIN b = 1 .. Len(b) /\ i \in DOMAIN b
  BY PlacesIs, KeptIs
<1>2. q \in DOMAIN b /\ q < i
  BY <1>1
<1>3. CASE Previous(b) = 0
  BY <1>2, <1>3 DEF Kept
<1>4. CASE Previous(b) # 0
  <2> DEFINE P == Previous(b)
             k == From(b)
  <2>1. P \in DOMAIN b /\ b[P].kind = "compaction"
    BY <1>4, PreviousIs
  <2>2. k \in {P} \cup FirstKept(b) /\ k \in Nat /\ k <= P /\ Kept(b) = (k .. Len(b)) \ {P}
    BY <1>4, FromIs
  <2>3. q # P /\ i # P /\ k <= i
    BY <1>1, <2>1, <2>2
  <2> HIDE DEF P, k
  <2>4. k <= q
    <3> SUFFICES ASSUME q < k PROVE FALSE
      BY <1>1, <1>2, <2>2
    <3>1. CASE k = P
      <4>1. P \in q + 1 .. i - 1
        BY <1>1, <1>2, <2>1, <2>3, <3>1
      <4> QED  BY <2>1, <4>1 DEF Quiet
    <3>2. CASE k \in FirstKept(b)
      <4>1. P \in Compactions(b) /\ k \in DOMAIN b /\ b[k].id = b[P].first
        BY <2>1, <3>2 DEF Compactions, FirstKept, P
      <4>2. Begins(b, k, P)
        BY <4>1 DEF SoundBranch, FirstsBegin
      <4>3. PICK r \in k .. P - 1 : b[r].kind \in {"user", "assistant"} /\ \A j \in k .. r - 1 : Quiet(b[j])
        BY <4>2 DEF Begins
      <4>4. CASE i > r
        <5>1. r \in q + 1 .. i - 1
          BY <1>1, <1>2, <2>1, <2>2, <4>4
        <5> QED  BY <4>3, <5>1 DEF Quiet
      <4>5. CASE i = r
        BY <4>3, <4>5
      <4>6. CASE i < r
        <5>1. i \in k .. r - 1
          BY <1>1, <2>1, <2>2, <2>3, <4>6
        <5> QED  BY <4>3, <5>1 DEF Quiet
      <4> QED  BY <1>1, <2>1, <2>2, <4>4, <4>5, <4>6
    <3> QED  BY <2>2, <3>1, <3>2
  <2> QED  BY <1>1, <1>2, <2>2, <2>3, <2>4
<1> QED  BY <1>3, <1>4

(* In a sound branch a kept result follows its call.                        *)
LEMMA InvKeepsCall ==
  ASSUME BranchInv
  PROVE  ResultsKeepTheirCall
<1> DEFINE b == branch
           M == {i \in Kept(b) : IsMessage(b[i])}
           said == At(b, M)
<1>1. b \in Seq(BranchEntry) /\ SoundBranch(b) /\ Said(branch) = said
  BY DEF BranchInv, BranchTypeOK, Said
<1>2. M \in SUBSET DOMAIN b
  BY <1>1, KeptIs
<1> SUFFICES ASSUME NEW k \in DOMAIN said, said[k].kind = "result"
             PROVE  k > 1 /\ said[k - 1].kind \in {"assistant", "result"}
  BY <1>1 DEF ResultsKeepTheirCall
<1>3. Nth(M, k) \in M /\ said[k] = b[Nth(M, k)]
  BY <1>1, <1>2, AtPlace
<1> DEFINE i == Nth(M, k)
<1>4. i \in Kept(b) /\ i \in DOMAIN b /\ b[i].kind = "result"
  BY <1>2, <1>3
<1>5. Called(b, i)
  BY <1>1, <1>4 DEF SoundBranch, ResultsCalled
<1>6. PICK q \in 1 .. i - 1 : b[q].kind \in {"assistant", "result"} /\ \A j \in q + 1 .. i - 1 : Quiet(b[j])
  BY <1>5 DEF Called
<1>7. q \in Kept(b)
  <2> HIDE DEF b, i
  <2> QED  BY <1>1, <1>4, <1>6, CallKept
<1>8. q \in M
  BY <1>6, <1>7 DEF IsMessage, Spoken
<1>9. Len(b) \in Nat /\ i \in 1 .. Len(b)
  BY <1>1, <1>4, PlacesIs
<1>10. q < i
  BY <1>6, <1>9
<1>11. \A j \in M : ~(q < j /\ j < i)
  <2> SUFFICES ASSUME NEW j \in M, q < j, j < i PROVE FALSE
    OBVIOUS
  <2>1. j \in DOMAIN b /\ DOMAIN b = 1 .. Len(b)
    BY <1>1, <1>2, PlacesIs
  <2>2. j \in q + 1 .. i - 1
    BY <1>9, <1>10, <2>1
  <2>3. Quiet(b[j]) /\ IsMessage(b[j])
    BY <1>6, <2>2
  <2> QED  BY <2>3 DEF Quiet, IsMessage, Spoken
<1>12. k > 1 /\ said[k - 1] = b[q]
  <2> HIDE DEF b, M
  <2> QED  BY <1>1, <1>2, <1>8, <1>10, <1>11, AtBefore
<1> QED  BY <1>6, <1>12

(* The context: the latest compaction if there is one, then what was kept.  *)
Held(b) == {i \in Kept(b) : IsMessage(b[i]) \/ b[i].kind = "compaction"}

(* What a context holds, and that it holds what is kept.                    *)
LEMMA ContextIs ==
  ASSUME NEW b \in Seq(BranchEntry)
  PROVE  /\ Held(b) \in SUBSET DOMAIN b
         /\ Previous(b) = 0 => Context(b) = At(b, Held(b))
         /\ Previous(b) # 0 => Context(b) = <<b[Previous(b)]>> \o At(b, Held(b))
         /\ \A i \in Held(b) : \E k \in DOMAIN Context(b) : Context(b)[k] = b[i]
         /\ Previous(b) # 0 => \E k \in DOMAIN Context(b) : Context(b)[k] = b[Previous(b)]
<1> DEFINE a == At(b, Held(b))
<1>1. Held(b) \in SUBSET DOMAIN b
  BY KeptIs DEF Held
<1>2. a \in Seq(BranchEntry) /\ DOMAIN a = 1 .. Len(a) /\ Len(a) \in Nat
  <2>1. a \in Seq(BranchEntry)
    BY <1>1, AtIs
  <2> HIDE DEF a
  <2> QED  BY <2>1
<1>3. \A i \in Held(b) : Rank(Held(b), i) \in DOMAIN a /\ a[Rank(Held(b), i)] = b[i]
  BY <1>1, AtPlace
<1>4. Context(b) = (IF Previous(b) = 0 THEN <<>> ELSE <<b[Previous(b)]>>) \o a
  BY DEF Context, Held
<1> HIDE DEF a
<1>5. CASE Previous(b) = 0
  <2>1. Context(b) = a
    <3>1. Context(b) = <<>> \o a
      BY <1>4, <1>5
    <3> QED  BY <1>2, <3>1
  <2> QED  BY <1>1, <1>3, <1>5, <2>1 DEF a
<1>6. CASE Previous(b) # 0
  <2> DEFINE e == b[Previous(b)]
             h == <<e>>
  <2>1. e \in BranchEntry
    BY <1>6, PreviousIs, PlacesIs
  <2>2. Context(b) = h \o a
    BY <1>4, <1>6
  <2>3. h \in Seq(BranchEntry) /\ Len(h) = 1 /\ h[1] = e
    <3> HIDE DEF e
    <3> QED  BY <2>1
  <2> HIDE DEF h, e
  <2>4. /\ Len(h \o a) = Len(h) + Len(a) /\ h \o a \in Seq(BranchEntry)
        /\ \A n \in 1 .. Len(h) + Len(a) : (h \o a)[n] = IF n <= Len(h) THEN h[n] ELSE a[n - Len(h)]
    BY <1>2, <2>3, ConcatProperties
  <2>5. DOMAIN (h \o a) = 1 .. 1 + Len(a)
    BY <2>3, <2>4
  <2>6. 1 \in DOMAIN (h \o a) /\ (h \o a)[1] = e
    BY <1>2, <2>3, <2>4, <2>5
  <2>7. ASSUME NEW n \in DOMAIN a
        PROVE  n + 1 \in DOMAIN (h \o a) /\ (h \o a)[n + 1] = a[n]
    <3>1. n + 1 \in 1 .. 1 + Len(a) /\ ~(n + 1 <= 1) /\ (n + 1) - 1 = n
      BY <1>2
    <3> QED  BY <2>3, <2>4, <2>5, <3>1
  <2>8. \A i \in Held(b) : \E k \in DOMAIN Context(b) : Context(b)[k] = b[i]
    BY <1>3, <2>2, <2>7
  <2>9. Context(b) = <<b[Previous(b)]>> \o At(b, Held(b))
    BY <2>2 DEF h, e, a
  <2>10. \E k \in DOMAIN Context(b) : Context(b)[k] = b[Previous(b)]
    BY <2>2, <2>6 DEF e
  <2> QED  BY <1>1, <1>6, <2>8, <2>9, <2>10
<1> QED  BY <1>5, <1>6

(* In a sound branch what is not kept is covered.                           *)
LEMMA InvCovers ==
  ASSUME BranchInv
  PROVE  HistoryCovered
<1> DEFINE b == branch
           P == Previous(b)
<1>1. b \in Seq(BranchEntry) /\ SoundBranch(b) /\ Len(b) \in Nat /\ DOMAIN b = 1 .. Len(b)
  BY PlacesIs DEF BranchInv, BranchTypeOK
<1> SUFFICES ASSUME ~Discards(b), ~Dangles(b), NEW i \in DOMAIN b, IsMessage(b[i])
             PROVE  \E k \in DOMAIN Context(b) : b[i].id \in {Context(b)[k].id} \cup Context(b)[k].covers
  BY DEF HistoryCovered
<1> HIDE DEF b
<1>2. CASE i \in Kept(b)
  <2>1. i \in Held(b)
    BY <1>2 DEF Held
  <2>2. PICK k \in DOMAIN Context(b) : Context(b)[k] = b[i]
    BY <1>1, <2>1, ContextIs
  <2> QED  BY <2>2
<1>3. CASE i \notin Kept(b)
  <2>1. P # 0
    BY <1>3 DEF Kept
  <2>2. P \in DOMAIN b /\ P \in Compactions(b) /\ b[P].kind = "compaction"
    BY <1>1, <2>1, PreviousIs DEF Compactions
  <2>3. From(b) \in {P} \cup FirstKept(b) /\ From(b) \in Nat /\ (\A k \in FirstKept(b) : From(b) <= k)
        /\ Kept(b) = (From(b) .. Len(b)) \ {P}
    BY <1>1, <2>1, FromIs
  <2>4. Orderly(b, P)
    <3>1. \A j, k \in Compactions(b) : j < k => b[j].covers \subseteq b[k].covers
      BY DEF Discards
    <3>2. \A j \in Compactions(b) : \E k \in DOMAIN b : b[k].id = b[j].first
      BY DEF Dangles
    <3> QED  BY <3>1, <3>2 DEF Orderly
  <2>5. PICK k0 \in DOMAIN b : b[k0].id = b[P].first
    BY <2>2 DEF Dangles
  <2>6. k0 \in FirstKept(b) /\ From(b) <= k0
    BY <2>3, <2>5 DEF FirstKept
  <2>7. k0 < P
    BY <1>1, <2>2, <2>5 DEF SoundBranch, FirstsBegin
  <2>8. i # P
    BY <2>2 DEF IsMessage, Spoken
  <2>9. i < From(b) /\ i \in 1 .. P - 1 /\ i < k0
    BY <1>1, <1>3, <2>2, <2>3, <2>5, <2>6, <2>7, <2>8
  <2>10. b[i].id \in b[P].covers
    <3>1. k0 <= i \/ b[i].id \in b[P].covers
      BY <1>1, <2>2, <2>4, <2>5, <2>9 DEF SoundBranch, Covering
    <3> QED  BY <1>1, <2>5, <2>9, <3>1
  <2>11. PICK k \in DOMAIN Context(b) : Context(b)[k] = b[P]
    BY <1>1, <2>1, ContextIs
  <2> QED  BY <2>10, <2>11
<1> QED  BY <1>2, <1>3

(* The context of a model never holds a tool result whose call was cut away. *)
THEOREM CallsStay == BranchSpec => []ResultsKeepTheirCall
<1>1. BranchInv => ResultsKeepTheirCall
  BY InvKeepsCall
<1> QED  BY <1>1, BranchInvariance, PTL

(* Every message of a branch is shown to the model or was read for a summary *)
(* it is shown, unless a compaction discards or dangles.                    *)
THEOREM HistoryCovering == BranchSpec => []HistoryCovered
<1>1. BranchInv => HistoryCovered
  BY InvCovers
<1> QED  BY <1>1, BranchInvariance, PTL

(* A copy shows the model what the branch showed.                           *)
LEMMA CopyShows ==
  ASSUME NEW b \in Seq(BranchEntry), SoundBranch(b), Previous(b) > 0 => ~KeepsLabel(b)
  PROVE  Context(Copied(b)) = Context(b)
<1> DEFINE I == Unlabeled(b)
           r == Cardinality(Unlabeled(b))
           c == Copied(b)
           N(n) == Nth(I, n)
           R(i) == Rank(I, i)
<1>1. /\ r \in Nat /\ c \in Seq(BranchEntry) /\ r <= Len(c) /\ Len(c) \in Nat /\ DOMAIN c = 1 .. Len(c)
      /\ Len(b) \in Nat /\ DOMAIN b = 1 .. Len(b)
      /\ \A n \in 1 .. r : N(n) \in I /\ c[n] = b[N(n)]
      /\ \A i \in I : R(i) \in 1 .. r /\ c[R(i)] = b[i] /\ N(R(i)) = i
      /\ \A m, n \in 1 .. r : m < n <=> N(m) < N(n)
  <2>1. r \in Nat /\ c \in Seq(BranchEntry) /\ r <= Len(c)
    BY CopiedIs
  <2>2. /\ \A n \in 1 .. r : N(n) \in I /\ c[n] = b[N(n)]
        /\ \A i \in I : R(i) \in 1 .. r /\ c[R(i)] = b[i] /\ N(R(i)) = i
        /\ \A m, n \in 1 .. r : m < n <=> N(m) < N(n)
    BY CopiedIs
  <2>3. Len(b) \in Nat /\ DOMAIN b = 1 .. Len(b)
    OBVIOUS
  <2> HIDE DEF I, r, c, N, R
  <2>4. Len(c) \in Nat /\ DOMAIN c = 1 .. Len(c)
    BY <2>1
  <2> QED  BY <2>1, <2>2, <2>3, <2>4
<1>2. \A n \in r + 1 .. Len(c) : c[n].kind = "label" /\ \A k \in 1 .. r : c[n].id # c[k].first
  BY CopiedIs
<1>3. \A i \in DOMAIN b : b[i].kind # "label" <=> i \in I
  BY DEF Unlabeled
<1>4. I \subseteq DOMAIN b
  BY DEF Unlabeled
<1> HIDE DEF I, r, c, N, R
<1>5. \A n \in 1 .. Len(c) : n \in 1 .. r \/ n \in r + 1 .. Len(c)
  BY <1>1
<1>6. ASSUME NEW n \in DOMAIN c, c[n].kind # "label"
      PROVE  n \in 1 .. r /\ N(n) \in I /\ c[n] = b[N(n)] /\ n = R(N(n))
  <2>1. n \in 1 .. r /\ N(n) \in I /\ c[n] = b[N(n)]
    BY <1>1, <1>2, <1>5, <1>6
  <2>2. R(N(n)) \in 1 .. r /\ N(R(N(n))) = N(n)
    BY <1>1, <2>1
  <2>3. ~(n < R(N(n))) /\ ~(R(N(n)) < n)
    BY <1>1, <1>4, <2>1, <2>2
  <2>4. n = R(N(n))
    <3> DEFINE m == R(N(n))
    <3>1. m \in Nat /\ n \in Nat /\ ~(n < m) /\ ~(m < n)
      BY <1>1, <2>1, <2>2, <2>3
    <3> HIDE DEF m
    <3>2. n = m
      BY <3>1
    <3> QED  BY <3>2 DEF m
  <2> QED  BY <2>1, <2>4
<1>7. ASSUME NEW i \in I, NEW j \in I
      PROVE  (i < j <=> R(i) < R(j)) /\ (i <= j <=> R(i) <= R(j))
  <2>1. (R(i) < R(j) <=> i < j) /\ (R(j) < R(i) <=> j < i) /\ R(i) \in Nat /\ R(j) \in Nat
    BY <1>1
  <2>2. i \in Nat /\ j \in Nat
    BY <1>1, <1>4
  <2> QED  BY <2>1, <2>2
<1> DEFINE P == Previous(b)
           Q == Previous(c)
<1>8. P \in Nat /\ Q \in Nat
  BY <1>1, PreviousIs
<1>9. /\ P # 0 => P \in DOMAIN b /\ P \in I /\ b[P].kind = "compaction"
      /\ \A i \in DOMAIN b : b[i].kind = "compaction" => i <= P /\ P # 0
  BY <1>3, PreviousIs
<1>10. /\ Q # 0 => Q \in DOMAIN c /\ c[Q].kind = "compaction"
       /\ \A i \in DOMAIN c : c[i].kind = "compaction" => i <= Q /\ Q # 0
  BY <1>1, PreviousIs
<1> HIDE DEF P, Q
<1>11. \A i \in I : R(i) \in DOMAIN c /\ c[R(i)] = b[i]
  BY <1>1
<1>12. (P = 0 <=> Q = 0) /\ (P # 0 => Q = R(P))
  <2>1. ASSUME Q # 0
        PROVE  N(Q) \in I /\ c[Q] = b[N(Q)] /\ Q = R(N(Q)) /\ N(Q) <= P /\ P # 0
    <3>1. N(Q) \in I /\ c[Q] = b[N(Q)] /\ Q = R(N(Q))
      BY <1>6, <1>10, <2>1
    <3> QED  BY <1>4, <1>9, <1>10, <2>1, <3>1
  <2>2. ASSUME P # 0
        PROVE  R(P) \in DOMAIN c /\ c[R(P)].kind = "compaction" /\ R(P) <= Q /\ Q # 0 /\ R(P) \in Nat
    BY <1>1, <1>9, <1>10, <1>11, <2>2
  <2>3. ASSUME P # 0
        PROVE  Q = R(P)
    <3>1. Q # 0 /\ R(P) <= Q /\ R(P) \in Nat
      BY <2>2, <2>3
    <3>2. N(Q) \in I /\ Q = R(N(Q)) /\ N(Q) <= P
      BY <2>1, <3>1
    <3>3. R(N(Q)) <= R(P)
      BY <1>7, <1>9, <2>3, <3>2
    <3> QED  BY <1>8, <3>1, <3>2, <3>3
  <2> QED  BY <2>1, <2>2, <2>3
<1>13. ASSUME P # 0
       PROVE  /\ \A k \in FirstKept(b) : k \in I /\ R(k) \in FirstKept(c)
              /\ \A k \in FirstKept(c) : k \in 1 .. r /\ N(k) \in FirstKept(b) /\ k = R(N(k))
  <2>1. c[Q] = b[P] /\ Q \in 1 .. r
    BY <1>1, <1>9, <1>12, <1>13
  <2>2. ~KeepsLabel(b)
    BY <1>8, <1>13 DEF P
  <2>3. ASSUME NEW k \in FirstKept(b)
        PROVE  k \in I /\ R(k) \in FirstKept(c)
    <3>1. k \in DOMAIN b /\ b[k].id = b[P].first /\ b[k].kind # "label"
      BY <2>2 DEF FirstKept, KeepsLabel, P
    <3>2. k \in I
      BY <1>3, <3>1
    <3>3. R(k) \in DOMAIN c /\ c[R(k)].id = c[Q].first
      BY <1>11, <2>1, <3>1, <3>2
    <3> QED  BY <3>2, <3>3 DEF FirstKept, Q
  <2>4. ASSUME NEW k \in FirstKept(c)
        PROVE  k \in 1 .. r /\ N(k) \in FirstKept(b) /\ k = R(N(k))
    <3>1. k \in DOMAIN c /\ c[k].id = c[Q].first
      BY DEF FirstKept, Q
    <3>2. k \in 1 .. r
      BY <1>1, <1>2, <1>5, <2>1, <3>1
    <3>3. N(k) \in I /\ c[k] = b[N(k)]
      BY <1>1, <3>2
    <3>4. N(k) \in DOMAIN b /\ b[N(k)].id = b[P].first
      BY <1>4, <2>1, <3>1, <3>3
    <3>5. c[k].kind # "label"
      BY <1>3, <1>4, <3>3
    <3>6. k = R(N(k))
      BY <1>6, <3>1, <3>5
    <3> QED  BY <3>2, <3>4, <3>6 DEF FirstKept, P
  <2> QED  BY <2>3, <2>4
<1>14. ASSUME P # 0
       PROVE  From(b) \in I /\ From(c) = R(From(b))
  <2> DEFINE k == From(b)
             m == From(c)
  <2>1. k \in {P} \cup FirstKept(b) /\ k <= P /\ \A i \in FirstKept(b) : k <= i
    BY <1>14, FromIs DEF P
  <2>2. m \in {Q} \cup FirstKept(c) /\ m <= Q /\ m \in Nat /\ \A i \in FirstKept(c) : m <= i
    BY <1>1, <1>12, <1>14, FromIs DEF Q
  <2> HIDE DEF k, m
  <2>3. k \in I
    BY <1>9, <1>13, <1>14, <2>1
  <2>4. R(k) \in {Q} \cup FirstKept(c)
    BY <1>12, <1>13, <1>14, <2>1
  <2>5. m <= R(k)
    BY <2>2, <2>4
  <2>6. R(k) <= m
    <3>1. CASE m = Q
      BY <1>7, <1>9, <1>12, <1>14, <2>1, <2>3, <3>1
    <3>2. CASE m \in FirstKept(c)
      <4>1. N(m) \in FirstKept(b) /\ m = R(N(m)) /\ N(m) \in I
        BY <1>13, <1>14, <3>2
      <4>2. k <= N(m)
        BY <2>1, <4>1
      <4> QED  BY <1>7, <2>3, <4>1, <4>2
    <3> QED  BY <2>2, <3>1, <3>2
  <2>7. R(k) \in Nat
    BY <1>1, <2>3
  <2>8. m = R(k)
    BY <2>2, <2>5, <2>6, <2>7
  <2> QED  BY <2>3, <2>8 DEF k, m
<1> DEFINE J == Held(b)
           K == Held(c)
           Counts(e) == IsMessage(e) \/ e.kind = "compaction"
<1>15. J \in SUBSET DOMAIN b /\ K \in SUBSET DOMAIN c
  BY <1>1, ContextIs
<1>16. \A i : (i \in J <=> i \in Kept(b) /\ Counts(b[i])) /\ (i \in K <=> i \in Kept(c) /\ Counts(c[i]))
  BY DEF Held
<1>17. \A e : Counts(e) => e.kind # "label"
  BY DEF IsMessage, Spoken
<1> HIDE DEF J, K, Counts
<1>18. \A i \in I : i \in Kept(b) <=> R(i) \in Kept(c)
  <2>1. CASE P = 0
    BY <1>1, <1>4, <1>11, <1>12, <2>1 DEF Kept, P, Q
  <2>2. CASE P # 0
    <3> DEFINE k == From(b)
               m == From(c)
    <3>1. Kept(b) = (k .. Len(b)) \ {P} /\ k \in Nat
      BY <2>2, FromIs DEF P
    <3>2. Kept(c) = (m .. Len(c)) \ {Q} /\ m \in Nat
      BY <1>1, <1>12, <2>2, FromIs DEF Q
    <3>3. k \in I /\ m = R(k) /\ P \in I /\ Q = R(P)
      BY <1>9, <1>12, <1>14, <2>2
    <3> HIDE DEF k, m
    <3> SUFFICES ASSUME NEW i \in I PROVE i \in Kept(b) <=> R(i) \in Kept(c)
      OBVIOUS
    <3>4. i \in 1 .. Len(b) /\ R(i) \in 1 .. Len(c)
      BY <1>1, <1>4, <1>11
    <3>5. k <= i <=> m <= R(i)
      BY <1>7, <3>3
    <3>6. i = P <=> R(i) = Q
      BY <1>1, <3>3
    <3>7. i \in Kept(b) <=> k <= i /\ i # P
      BY <1>1, <3>1, <3>4
    <3>8. R(i) \in Kept(c) <=> m <= R(i) /\ R(i) # Q
      BY <1>1, <3>2, <3>4
    <3> QED  BY <3>5, <3>6, <3>7, <3>8
  <2> QED  BY <2>1, <2>2
<1> DEFINE g == [i \in J |-> R(i)]
<1>19. J \subseteq I
  BY <1>3, <1>15, <1>16, <1>17
<1>20. K = {g[i] : i \in J}
  <2>1. ASSUME NEW i \in J PROVE R(i) \in K
    <3>1. i \in I /\ i \in Kept(b) /\ Counts(b[i])
      BY <1>16, <1>19
    <3>2. R(i) \in Kept(c) /\ c[R(i)] = b[i]
      BY <1>11, <1>18, <3>1
    <3> QED  BY <1>16, <3>1, <3>2
  <2>2. ASSUME NEW k \in K PROVE k \in {R(i) : i \in J}
    <3>1. k \in DOMAIN c /\ k \in Kept(c) /\ Counts(c[k]) /\ c[k].kind # "label"
      BY <1>15, <1>16, <1>17
    <3>2. N(k) \in I /\ c[k] = b[N(k)] /\ k = R(N(k))
      BY <1>6, <3>1
    <3>3. N(k) \in Kept(b)
      BY <1>18, <3>1, <3>2
    <3>4. N(k) \in J
      BY <1>16, <3>1, <3>2, <3>3
    <3> QED  BY <3>2, <3>4
  <2> QED  BY <2>1, <2>2
<1>21. At(c, K) = At(b, J)
  <2>1. J \subseteq Nat /\ IsFiniteSet(J)
    BY <1>15, AtIs
  <2>2. g \in [J -> Nat]
    BY <1>1, <1>19
  <2>3. \A i, j \in J : i < j => g[i] < g[j]
    BY <1>7, <1>19
  <2>4. \A i \in J : c[g[i]] = b[i]
    BY <1>11, <1>19
  <2> HIDE DEF g
  <2>5. Carries(g, b, J, c, K)
    BY <1>20, <2>1, <2>2, <2>3, <2>4 DEF Carries
  <2> QED  BY <2>5, AtThrough
<1>22. CASE P = 0
  <2>1. Context(b) = At(b, J) /\ Context(c) = At(c, K)
    BY <1>1, <1>12, <1>22, ContextIs DEF P, Q, J, K
  <2> QED  BY <1>21, <2>1 DEF c
<1>23. CASE P # 0
  <2>1. Context(b) = <<b[P]>> \o At(b, J) /\ Context(c) = <<c[Q]>> \o At(c, K)
    <3>1. Context(b) = <<b[P]>> \o At(b, J)
      BY <1>23, ContextIs DEF P, J
    <3>2. Context(c) = <<c[Q]>> \o At(c, K)
      BY <1>1, <1>12, <1>23, ContextIs DEF Q, K
    <3> QED  BY <3>1, <3>2
  <2>2. c[Q] = b[P]
    BY <1>9, <1>11, <1>12, <1>23
  <2> QED  BY <1>21, <2>1, <2>2 DEF c
<1> QED  BY <1>22, <1>23

(* createBranchedSession keeps what the model is shown.                     *)
THEOREM ContextStaying == BranchSpec => BranchKeepsContext
<1>1. BranchInv =>
        [\A leaf \in DOMAIN branch :
           LET b == SubSeq(branch, 1, leaf) IN
           CopyBranch(leaf) /\ (Previous(b) > 0 => ~KeepsLabel(b)) =>
             Context(branch') = Context(b)]_branchVars
  <2> SUFFICES ASSUME BranchInv, NEW leaf \in DOMAIN branch, CopyBranch(leaf),
                      LET b == SubSeq(branch, 1, leaf) IN Previous(b) > 0 => ~KeepsLabel(b)
               PROVE  Context(branch') = Context(SubSeq(branch, 1, leaf))
    OBVIOUS
  <2> DEFINE b == SubSeq(branch, 1, leaf)
  <2>1. branch \in Seq(BranchEntry) /\ SoundBranch(branch)
    BY DEF BranchInv, BranchTypeOK
  <2>2. b \in Seq(BranchEntry) /\ SoundBranch(b)
    BY <2>1, PrefixSound
  <2>3. branch' = Copied(b)
    BY DEF CopyBranch, Copied
  <2>4. Previous(b) > 0 => ~KeepsLabel(b)
    OBVIOUS
  <2> HIDE DEF b
  <2>5. Context(Copied(b)) = Context(b)
    BY <2>2, <2>4, CopyShows
  <2> QED  BY <2>3, <2>5 DEF b
<1> QED  BY <1>1, BranchInvariance, PTL DEF BranchKeepsContext
=============================================================================
