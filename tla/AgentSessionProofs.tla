------------------------ MODULE AgentSessionProofs ------------------------
(***************************************************************************)
(* Proofs about module AgentSession, for any calls of prompt(), any queued *)
(* messages, any file the session is opened with and any faults.           *)
(*                                                                         *)
(* The inductive invariant IInv rests on one exclusion, Apart: while no    *)
(* two calls have met and no run was lost there is one prompt, one task of *)
(* compaction, and a run only under that prompt. What each kind of step    *)
(* does to the prompts, the Agent and the tasks is said once (PromptActs,  *)
(* CallActs, JobActs, Quiet), and each conjunct is proved from that.       *)
(***************************************************************************)
EXTENDS AgentSession, FiniteSetTheorems, FunctionTheorems, SequenceTheorems, TLAPS

----------------------------------------------------------------------------
(* Types.                                                                  *)

Kinds == Assistants \cup {"user", "compaction"}
Entries == [kind : Kinds, id : Nat, kept : Nat, m : Queued \cup {None}]
Agents == [run : {None, "launched", "running", "lost"}, aborted : BOOLEAN, msgs : Seq(Entries),
           queue : Seq(Queued), prompt : Seq(Entries), taken : Seq(Queued),
           fresh : BOOLEAN, begun : BOOLEAN, unread : SUBSET Nat]
Waits == [displayed : SUBSET Queued,
          state : [Queued -> {"new", "shown", "queued", "failed", "cut", "cleared", "late", "dropped"}]]
Frames == [pc : {"new", "pre", "run", "ran", "failed", "unclean", "auto", "exhausted", "end",
                 "settled", "done", "raised"},
           leg : {"first", "retry", "queued"}, job : Jobs \cup {0}, hit : BOOLEAN,
           retry : BOOLEAN, next : {None, "raise", "raiseFirst", "stop", "retry", "loop"}]
FlagSets == [active : BOOLEAN, settlement : Prompts \cup {None}, cancel : BOOLEAN,
             truncated : BOOLEAN, pendingEnd : BOOLEAN, tried : BOOLEAN]
Tasks == [pc : Over \cup {"free", "created", "waiting", "starting", "summarizing", "aborting",
                          "failing", "ending"},
          manual : BOOLEAN, hit : BOOLEAN, waits : Prompts \cup {None}, kept : Nat, at : Nat]
Comps == [current : Jobs \cup {0}, cancel : BOOLEAN, result : BOOLEAN, terminal : BOOLEAN]

StoreType == store \in Seq(Entries)
AgentType == agent \in Agents
WaitType == waiting \in Waits
CallType == call \in [Prompts -> Frames]
FlagType == flags \in FlagSets
JobType == job \in [Jobs -> Tasks]
CompType == comp \in Comps
LifeType == life \in [reloading : BOOLEAN, closing : BOOLEAN, disposed : BOOLEAN]
DisposalType ==
    disposal \in [pc : {None, "begun", "queues", "compaction", "reload", "prompt", "extensions"},
                  job : Jobs \cup {0}, waits : Prompts \cup {None}, cleared : BOOLEAN]
BoundType ==
    /\ left \in [{"prompt", "queue", "reload", "large", "compact", "cancel", "fault"} -> Nat]
    /\ odd \subseteq {"crowded", "lost", "unshown"}

TypeOK ==
    /\ StoreType /\ AgentType /\ WaitType /\ CallType /\ FlagType
    /\ JobType /\ CompType /\ LifeType /\ DisposalType /\ BoundType

----------------------------------------------------------------------------
(* The inductive invariant.                                                *)

\* A prompt that awaits a compaction task, its own.
Compacts(c) == call[c].pc \in {"pre", "auto"}

\* Each automatic task has the prompt that awaits it, and each such prompt its task.
Owned ==
    /\ \A c \in Prompts : Compacts(c) =>
          call[c].job # 0 /\ job[call[c].job].pc # "free" /\ ~job[call[c].job].manual
    /\ \A c, d \in Prompts : Compacts(c) /\ Compacts(d) /\ call[c].job = call[d].job => c = d
    /\ \A j \in Jobs : job[j].pc # "free" /\ ~job[j].manual =>
          \E c \in Prompts : Compacts(c) /\ call[c].job = j

\* Prompts, tasks and runs exclude each other: the guards of the calls read
\* attributes (active, settlement, current), and these conjuncts say what the
\* attributes mean for the calls and the tasks themselves.
OnePrompt ==
    /\ \A c, d \in Prompts : Prompting(c) /\ Prompting(d) => c = d
    /\ \A c \in Prompts : Prompting(c) <=> flags.settlement = c
OneJob == \A j \in Jobs : Alive(j) => comp.current = j
RunOwned == agent.run # None => agent.run # "lost" /\ \E c \in Prompts : call[c].pc = "run"
ManualApart ==
    \A j \in Jobs : job[j].manual =>
        /\ job[j].pc \in {"starting", "summarizing"} => \A c \in Prompts : ~Prompting(c)
        /\ job[j].pc = "waiting" => \A c \in Prompts : Prompting(c) => c = job[j].waits
\* The cut a task has prepared is that of the branch as it still is.
Prepared(j) == job[j].pc \in {"starting", "summarizing"} \/ (job[j].pc = "created" /\ ~job[j].manual)
CutStands == \A j \in Jobs : Prepared(j) => job[j].at = Len(store)
Apart == OnePrompt /\ OneJob /\ RunOwned /\ ManualApart /\ CutStands

\* An AgentEnd that is held back is in the hands of a prompt.
Pending == odd = {} /\ flags.pendingEnd => \E c \in Prompts : call[c].pc \in {"ran", "auto", "exhausted"}

\* A message is in one place: shown, queued, taken by a run, or in the store.
Distinct(s) == \A i, k \in DOMAIN s : s[i] = s[k] => i = k
InOrder ==
    /\ \A m \in ToSet(agent.queue) : waiting.state[m] = "queued"
    /\ \A m \in ToSet(agent.taken) : waiting.state[m] \in {"queued", "late"}
    /\ Distinct(agent.queue)
    /\ ToSet(agent.queue) \cap ToSet(agent.taken) = {}
    /\ \A i \in DOMAIN store : store[i].m # None =>
          /\ waiting.state[store[i].m] \in {"queued", "late"}
          /\ store[i].m \notin ToSet(agent.queue) \cup ToSet(agent.taken)
    /\ \A m \in Queued : waiting.state[m] = "shown" => m \in waiting.displayed

\* What the disposal has cleared and awaited does not come back.
Disposal ==
    /\ disposal.pc # None \/ disposal.cleared \/ life.disposed => life.closing
    /\ disposal.cleared \/ disposal.pc \in {"queues"} => \A m \in Queued : waiting.state[m] # "shown"
    /\ disposal.pc \in {"compaction", "reload", "prompt", "extensions"} \/ life.disposed => disposal.cleared
    /\ disposal.pc \in {"prompt", "extensions"} \/ life.disposed => ~life.reloading
    /\ life.disposed => disposal.pc = None
\* What it awaits next is all that is left of the kind it awaits.
ManualOver ==
    /\ disposal.pc = "compaction" => \A j \in Jobs : Alive(j) /\ job[j].manual => j = disposal.job
    /\ disposal.pc \in {"reload", "prompt", "extensions"} \/ life.disposed =>
          \A j \in Jobs : Alive(j) => ~job[j].manual
PromptsOver ==
    /\ disposal.pc = "prompt" => \A c \in Prompts : Prompting(c) => c = disposal.waits
    /\ disposal.pc = "extensions" \/ life.disposed => \A c \in Prompts : ~Prompting(c)

\* Entries are numbered as they come, and a kept entry is one of the branch.
Numbered ==
    /\ \A i \in DOMAIN store : store[i].id = i /\ store[i].kept <= Len(store)
    /\ \A j \in Jobs : job[j].kept <= Len(store)
\* A run holds its prompt, or then a message it has polled, and nothing when it is over.
Held ==
    /\ agent.prompt = <<>> \/ \E e \in Entries : agent.prompt = <<e>>
    /\ agent.prompt # <<>> => agent.run # None /\ agent.taken = <<>>
    /\ agent.taken # <<>> => agent.run # None
    /\ agent.begun => agent.taken # <<>>

IInv ==
    /\ TypeOK
    /\ Owned
    /\ Unsurprised => Apart
    /\ Pending
    /\ InOrder /\ QueueShown
    /\ Disposal
    /\ Unsurprised => ManualOver /\ PromptsOver
    /\ Numbered /\ Held
    /\ StoreAgrees

----------------------------------------------------------------------------
(* Lemmas about selections: the elements of a sequence at some positions.  *)

Rank(I, i) == Cardinality({k \in I : k <= i})

LEMMA RankIs ==
  ASSUME NEW I, I \subseteq Nat, IsFiniteSet(I)
  PROVE  /\ \A i \in I : Rank(I, i) \in 1 .. Cardinality(I)
         /\ \A i, j \in I : i < j => Rank(I, i) < Rank(I, j)
<1> DEFINE Upto(i) == {k \in I : k <= i}
<1>1. \A i \in I : IsFiniteSet(Upto(i)) /\ Cardinality(Upto(i)) \in Nat
  BY FS_Subset, FS_CardinalityType, Zenon
<1>2. ASSUME NEW i \in I PROVE Rank(I, i) \in 1 .. Cardinality(I)
  <2>1. Cardinality(Upto(i)) # 0
    BY <1>1, FS_EmptySet
  <2>2. Cardinality(Upto(i)) <= Cardinality(I)
    BY FS_Subset, Zenon
  <2>3. Cardinality(I) \in Nat
    BY FS_CardinalityType
  <2> QED  BY <1>1, <2>1, <2>2, <2>3 DEF Rank
<1>3. ASSUME NEW i \in I, NEW j \in I, i < j PROVE Rank(I, i) < Rank(I, j)
  <2>1. i \in Nat /\ j \in Nat /\ \A k \in I : k \in Nat
    OBVIOUS
  <2>2. \A k \in I : k <= i => k <= j
    BY <1>3, <2>1
  <2>3. j \in Upto(j) /\ j \notin Upto(i)
    BY <1>3, <2>1
  <2>4. Upto(i) \in SUBSET Upto(j) /\ Upto(i) # Upto(j)
    BY <2>2, <2>3
  <2>5. Cardinality(Upto(i)) <= Cardinality(Upto(j)) /\ Cardinality(Upto(i)) # Cardinality(Upto(j))
    BY <1>1, <2>4, FS_Subset, Zenon
  <2>6. Cardinality(Upto(i)) \in Nat /\ Cardinality(Upto(j)) \in Nat
    BY <1>1
  <2> HIDE DEF Upto
  <2>7. Cardinality(Upto(i)) < Cardinality(Upto(j))
    BY <2>5, <2>6
  <2> QED  BY <2>7 DEF Rank, Upto
<1> QED  BY <1>2, <1>3

LEMMA NthIs ==
  ASSUME NEW I, I \subseteq Nat, IsFiniteSet(I)
  PROVE  /\ \A n \in 1 .. Cardinality(I) : Nth(I, n) \in I /\ Rank(I, Nth(I, n)) = n
         /\ \A i \in I : Nth(I, Rank(I, i)) = i
<1> DEFINE N == Cardinality(I)
           f == [i \in I |-> Rank(I, i)]
<1>1. N \in Nat
  BY FS_CardinalityType
<1>2. f \in [I -> 1 .. N]
  BY RankIs
<1>3. ASSUME NEW i \in I, NEW j \in I, Rank(I, i) = Rank(I, j) PROVE i = j
  <2>1. i \in Nat /\ j \in Nat /\ Rank(I, i) \in 1 .. N /\ Rank(I, j) \in 1 .. N
    BY RankIs
  <2>2. i < j => Rank(I, i) < Rank(I, j)
    BY RankIs
  <2>3. j < i => Rank(I, j) < Rank(I, i)
    BY RankIs
  <2>4. Rank(I, i) \in Nat /\ Rank(I, j) \in Nat
    BY <1>1, <2>1
  <2>5. ~(i < j) /\ ~(j < i)
    <3> HIDE DEF N
    <3> QED  BY <1>3, <2>2, <2>3, <2>4
  <2> QED  BY <2>1, <2>5
<1>4. f \in Injection(I, 1 .. N)
  BY <1>2, <1>3 DEF Injection, IsInjective
<1>5. IsFiniteSet(1 .. N) /\ Cardinality(1 .. N) = N
  BY <1>1, FS_Interval
<1>6. f \in Surjection(I, 1 .. N)
  BY <1>4, <1>5, FS_Injection
<1>7. \A n \in 1 .. N : \E i \in I : Rank(I, i) = n
  BY <1>6 DEF Surjection
<1>8. \A n \in 1 .. N : Nth(I, n) \in I /\ Rank(I, Nth(I, n)) = n
  BY <1>7 DEF Nth, Rank
<1>9. ASSUME NEW i \in I PROVE Nth(I, Rank(I, i)) = i
  BY <1>3, <1>8, RankIs
<1> QED  BY <1>8, <1>9

LEMMA AtIs ==
  ASSUME NEW S, NEW s \in Seq(S), NEW I \in SUBSET DOMAIN s
  PROVE  /\ IsFiniteSet(I) /\ I \subseteq Nat /\ Cardinality(I) \in Nat
         /\ At(s, I) \in Seq(S)
         /\ Len(At(s, I)) = Cardinality(I)
         /\ \A n \in 1 .. Cardinality(I) : At(s, I)[n] = s[Nth(I, n)]
<1>1. DOMAIN s = 1 .. Len(s) /\ Len(s) \in Nat
  OBVIOUS
<1>2. IsFiniteSet(1 .. Len(s))
  BY <1>1, FS_Interval
<1>3. IsFiniteSet(I) /\ I \subseteq Nat
  BY <1>1, <1>2, FS_Subset
<1>4. Cardinality(I) \in Nat
  BY <1>3, FS_CardinalityType
<1>5. \A n \in 1 .. Cardinality(I) : s[Nth(I, n)] \in S
  BY <1>3, NthIs
<1> QED  BY <1>3, <1>4, <1>5 DEF At

LEMMA AtAll ==
  ASSUME NEW S, NEW s \in Seq(S)
  PROVE  At(s, DOMAIN s) = s
<1> DEFINE I == DOMAIN s
<1>1. I = 1 .. Len(s) /\ Len(s) \in Nat
  OBVIOUS
<1>2. Cardinality(I) = Len(s) /\ IsFiniteSet(I)
  BY <1>1, FS_Interval
<1>3. ASSUME NEW i \in I PROVE Nth(I, i) = i
  <2>1. {k \in I : k <= i} = 1 .. i
    BY <1>1
  <2>2. Rank(I, i) = i
    <3>1. i \in Nat /\ Cardinality(1 .. i) = i
      BY <1>1, FS_Interval
    <3> QED  BY <2>1, <3>1 DEF Rank
  <2>3. I \subseteq Nat
    BY <1>1
  <2> QED  BY <2>2, <2>3, <1>2, NthIs
<1>4. At(s, I) \in Seq(S) /\ Len(At(s, I)) = Len(s)
  BY <1>2, AtIs
<1>5. \A i \in 1 .. Len(s) : At(s, I)[i] = s[i]
  BY <1>1, <1>2, <1>3, AtIs
<1> QED  BY <1>1, <1>4, <1>5, SeqEqual

LEMMA AtSame ==
  ASSUME NEW S, NEW s \in Seq(S), NEW t \in Seq(S), NEW I \in SUBSET DOMAIN s,
         I \subseteq DOMAIN t, \A i \in I : s[i] = t[i]
  PROVE  At(s, I) = At(t, I)
<1>1. IsFiniteSet(I) /\ I \subseteq Nat
  BY AtIs
<1>2. \A n \in 1 .. Cardinality(I) : s[Nth(I, n)] = t[Nth(I, n)]
  BY <1>1, NthIs
<1> QED  BY <1>2 DEF At

LEMMA AtMore ==
  ASSUME NEW S, NEW s \in Seq(S), NEW I \in SUBSET DOMAIN s, NEW l \in DOMAIN s,
         \A i \in I : i < l
  PROVE  At(s, I \cup {l}) = Append(At(s, I), s[l])
<1> DEFINE J == I \cup {l}
           N == Cardinality(I)
<1>1. l \in Nat /\ l \notin I
  OBVIOUS
<1>2. I \subseteq Nat /\ IsFiniteSet(I) /\ N \in Nat
  BY AtIs
<1>3. J \subseteq Nat /\ IsFiniteSet(J) /\ Cardinality(J) = N + 1
  BY <1>1, <1>2, FS_AddElement
<1>4. ASSUME NEW n \in 1 .. N PROVE Nth(J, n) = Nth(I, n)
  <2>1. Nth(I, n) \in I /\ Rank(I, Nth(I, n)) = n
    BY <1>2, NthIs
  <2>2. {k \in J : k <= Nth(I, n)} = {k \in I : k <= Nth(I, n)}
    BY <1>1, <1>2, <2>1
  <2>3. Rank(J, Nth(I, n)) = n
    BY <2>1, <2>2 DEF Rank
  <2> QED  BY <1>3, <2>1, <2>3, NthIs
<1>5. Nth(J, N + 1) = l
  <2>1. {k \in J : k <= l} = J
    BY <1>1, <1>2
  <2>2. Rank(J, l) = N + 1
    BY <1>3, <2>1 DEF Rank
  <2> QED  BY <1>3, <2>2, NthIs
<1>6. J \in SUBSET DOMAIN s
  OBVIOUS
<1> HIDE DEF J
<1>7. /\ At(s, J) \in Seq(S) /\ Len(At(s, J)) = N + 1
      /\ \A n \in 1 .. N + 1 : At(s, J)[n] = s[Nth(J, n)]
  BY <1>3, <1>6, AtIs
<1>8. /\ At(s, I) \in Seq(S) /\ Len(At(s, I)) = N
      /\ \A n \in 1 .. N : At(s, I)[n] = s[Nth(I, n)]
  BY AtIs
<1>9. s[l] \in S
  OBVIOUS
<1> HIDE DEF N
<1>10. \A n \in 1 .. N + 1 : At(s, J)[n] = Append(At(s, I), s[l])[n]
  BY <1>2, <1>4, <1>5, <1>7, <1>8, <1>9
<1>11. Append(At(s, I), s[l]) \in Seq(S) /\ Len(Append(At(s, I), s[l])) = N + 1
  BY <1>8, <1>9
<1>12. At(s, J) = Append(At(s, I), s[l])
  BY <1>7, <1>10, <1>11, SeqEqual
<1> QED  BY <1>12 DEF J

\* A selection of a selection.
LEMMA AtAt ==
  ASSUME NEW S, NEW s \in Seq(S), NEW I \in SUBSET DOMAIN s, NEW J \in SUBSET I
  PROVE  At(At(s, I), {k \in 1 .. Cardinality(I) : Nth(I, k) \in J}) = At(s, J)
<1> DEFINE t == At(s, I)
           N == Cardinality(I)
           K == {k \in 1 .. N : Nth(I, k) \in J}
<1>1. /\ IsFiniteSet(I) /\ I \subseteq Nat /\ N \in Nat /\ t \in Seq(S) /\ Len(t) = N
      /\ \A n \in 1 .. N : t[n] = s[Nth(I, n)]
  BY AtIs
<1>2. J \in SUBSET DOMAIN s
  OBVIOUS
<1>3. IsFiniteSet(J) /\ J \subseteq Nat
  BY <1>2, AtIs
<1>4. DOMAIN t = 1 .. N
  BY <1>1
<1>5. K \in SUBSET DOMAIN t
  BY <1>4
<1>6. IsFiniteSet(K) /\ K \subseteq Nat
  BY <1>1, <1>5, AtIs
<1>7. \A k \in K : k \in 1 .. N /\ Nth(I, k) \in J /\ Nth(I, k) \in I /\ Rank(I, Nth(I, k)) = k
  BY <1>1, NthIs
<1>8. \A j \in J : Rank(I, j) \in K /\ Nth(I, Rank(I, j)) = j
  <2>1. \A j \in J : Rank(I, j) \in 1 .. N /\ Nth(I, Rank(I, j)) = j
    BY <1>1, RankIs, NthIs
  <2> QED  BY <2>1
<1> HIDE DEF K, N, t
<1>9. \A k, l \in K : k <= l <=> Nth(I, k) <= Nth(I, l)
  <2> SUFFICES ASSUME NEW k \in K, NEW l \in K PROVE k <= l <=> Nth(I, k) <= Nth(I, l)
    OBVIOUS
  <2> DEFINE a == Nth(I, k)
             b == Nth(I, l)
  <2>1. a \in I /\ b \in I /\ a \in Nat /\ b \in Nat /\ Rank(I, a) = k /\ Rank(I, b) = l
    BY <1>1, <1>7
  <2>2. k \in Nat /\ l \in Nat
    BY <1>6
  <2>3. /\ a < b => Rank(I, a) < Rank(I, b)
        /\ b < a => Rank(I, b) < Rank(I, a)
    BY <1>1, <2>1, RankIs
  <2> HIDE DEF a, b
  <2>4. (a < b => k < l) /\ (b < a => l < k)
    BY <2>1, <2>3
  <2>5. k <= l <=> a <= b
    BY <2>1, <2>2, <2>4
  <2> QED  BY <2>5 DEF a, b
<1>10. ASSUME NEW k \in K PROVE Rank(K, k) = Rank(J, Nth(I, k))
  <2> DEFINE A == {l \in K : l <= k}
             B == {j \in J : j <= Nth(I, k)}
             f == [l \in A |-> Nth(I, l)]
  <2>1. IsFiniteSet(A)
    BY <1>6, FS_Subset
  <2>2. IsFiniteSet(B)
    BY <1>3, FS_Subset
  <2>3. \A l \in A : f[l] = Nth(I, l) /\ f[l] \in B
    BY <1>7, <1>9, <1>10
  <2>4. \A l, n \in A : f[l] = f[n] => l = n
    BY <1>7, <2>3
  <2>5. ASSUME NEW j \in B PROVE \E l \in A : f[l] = j
    <3>1. Rank(I, j) \in K /\ Nth(I, Rank(I, j)) = j /\ j <= Nth(I, k)
      BY <1>8
    <3>2. Rank(I, j) \in A
      BY <1>9, <1>10, <3>1
    <3> QED  BY <2>3, <3>1, <3>2
  <2>6. f \in [A -> B]
    BY <2>3
  <2> HIDE DEF A, B, f
  <2>7. f \in Bijection(A, B)
    BY <2>4, <2>5, <2>6 DEF Bijection, Injection, Surjection, IsInjective
  <2>8. Cardinality(A) = Cardinality(B)
    BY <2>1, <2>7, FS_Bijection DEF ExistsBijection
  <2> QED  BY <2>8 DEF A, B, Rank
<1>11. Cardinality(K) = Cardinality(J)
  <2> DEFINE f == [l \in K |-> Nth(I, l)]
  <2>1. \A l \in K : f[l] = Nth(I, l) /\ f[l] \in J
    BY <1>7
  <2>2. \A l, n \in K : f[l] = f[n] => l = n
    BY <1>7, <2>1
  <2>3. \A j \in J : \E l \in K : f[l] = j
    BY <1>8, <2>1
  <2>4. f \in [K -> J]
    BY <2>1
  <2> HIDE DEF f
  <2>5. f \in Bijection(K, J)
    BY <2>2, <2>3, <2>4 DEF Bijection, Injection, Surjection, IsInjective
  <2> QED  BY <1>6, <2>5, FS_Bijection DEF ExistsBijection
<1>12. ASSUME NEW n \in 1 .. Cardinality(K) PROVE At(t, K)[n] = At(s, J)[n]
  <2>1. Nth(K, n) \in K /\ Rank(K, Nth(K, n)) = n
    BY <1>6, NthIs
  <2>2. At(t, K)[n] = t[Nth(K, n)]
    BY <1>1, <1>5, AtIs
  <2>3. t[Nth(K, n)] = s[Nth(I, Nth(K, n))] /\ Nth(I, Nth(K, n)) \in J
    BY <1>1, <1>7, <2>1
  <2>4. Nth(J, n) = Nth(I, Nth(K, n))
    <3>1. Rank(K, Nth(K, n)) = Rank(J, Nth(I, Nth(K, n)))
      BY <1>10, <2>1
    <3>2. Nth(J, Rank(J, Nth(I, Nth(K, n)))) = Nth(I, Nth(K, n))
      BY <1>3, <2>3, NthIs
    <3> QED  BY <2>1, <3>1, <3>2
  <2>5. At(s, J)[n] = s[Nth(J, n)]
    BY <1>2, <1>11, AtIs
  <2> QED  BY <2>2, <2>3, <2>4, <2>5
<1>13. /\ At(t, K) \in Seq(S) /\ Len(At(t, K)) = Cardinality(K)
       /\ At(s, J) \in Seq(S) /\ Len(At(s, J)) = Cardinality(J)
  BY <1>1, <1>2, <1>5, AtIs
<1>14. At(t, K) = At(s, J)
  BY <1>11, <1>12, <1>13, SeqEqual
<1> QED  BY <1>14 DEF t, K, N

LEMMA MaxIs ==
  ASSUME NEW I, I \subseteq Nat, IsFiniteSet(I), I # {}
  PROVE  Max(I) \in I /\ \A i \in I : i <= Max(I)
<1> DEFINE N == Cardinality(I)
<1>1. N \in Nat /\ N # 0
  BY FS_CardinalityType, FS_EmptySet
<1>2. N \in 1 .. Cardinality(I)
  BY <1>1
<1> HIDE DEF N
<1>3. Nth(I, N) \in I /\ Rank(I, Nth(I, N)) = N
  BY <1>2, NthIs
<1>4. ASSUME NEW i \in I PROVE i <= Nth(I, N)
  <2>1. Nth(I, N) < i => Rank(I, Nth(I, N)) < Rank(I, i)
    BY <1>3, RankIs
  <2>2. Rank(I, i) \in 1 .. N
    BY RankIs DEF N
  <2>3. ~(Nth(I, N) < i)
    BY <1>1, <1>3, <2>1, <2>2
  <2>4. i \in Nat /\ Nth(I, N) \in Nat
    BY <1>3
  <2> QED  BY <2>3, <2>4
<1>5. \E x \in I : \A y \in I : x >= y
  BY <1>3, <1>4
<1>6. Max(I) \in I /\ \A i \in I : Max(I) >= i
  BY <1>5 DEF Max
<1> QED  BY <1>6

LEMMA LastIs ==
  ASSUME NEW s \in Seq(Entries), NEW I \in SUBSET (1 .. Len(s))
  PROVE  (IF I # {} THEN Max(I) ELSE 0) \in 0 .. Len(s)
<1>1. IsFiniteSet(1 .. Len(s)) /\ Len(s) \in Nat
  BY FS_Interval
<1>2. IsFiniteSet(I)
  BY <1>1, FS_Subset
<1>3. I \subseteq Nat
  OBVIOUS
<1>4. I # {} => Max(I) \in I
  BY <1>2, <1>3, MaxIs
<1>5. CASE I = {}
  BY <1>1, <1>5
<1>6. CASE I # {}
  <2>1. Max(I) \in 1 .. Len(s)
    BY <1>4, <1>6
  <2> QED  BY <1>1, <1>6, <2>1
<1> QED  BY <1>5, <1>6

LEMMA FirstToKeepIs ==
  ASSUME store \in Seq(Entries)
  PROVE  FirstToKeep \in 0 .. Len(store)
<1> DEFINE I == {i \in 1 .. Len(store) : store[i].kind = "user"}
           turn == IF I # {} THEN Max(I) ELSE 0
<1>1. turn \in 0 .. Len(store)
  BY LastIs
<1>2. SelectLastInSeq(store, LAMBDA e : e.kind = "user") = turn
  BY DEF SelectLastInSeq
<1> HIDE DEF turn
<1> QED  BY <1>1, <1>2 DEF FirstToKeep

\* The parts of Context.
Compactions(s) == {i \in 1 .. Len(s) : s[i].kind = "compaction"}
LastOf(s) == IF Compactions(s) # {} THEN Max(Compactions(s)) ELSE 0
From(s) == IF LastOf(s) = 0 THEN 1 ELSE s[LastOf(s)].kept
Summary(s) == IF LastOf(s) = 0 THEN <<>> ELSE <<s[LastOf(s)]>>
Spoken(s) == {i \in DOMAIN s : s[i].kind # "compaction" /\ s[i].id >= From(s)}

LEMMA ContextIs ==
  ASSUME NEW s \in Seq(Entries)
  PROVE  /\ Context(s) = Summary(s) \o At(s, Spoken(s))
         /\ Summary(s) \in Seq(Entries)
         /\ At(s, Spoken(s)) \in Seq(Entries)
         /\ LastOf(s) \in 0 .. Len(s)
<1>1. LastOf(s) \in 0 .. Len(s)
  BY LastIs DEF LastOf, Compactions
<1>2. SelectLastInSeq(s, LAMBDA e : e.kind = "compaction") = LastOf(s)
  BY DEF SelectLastInSeq, LastOf, Compactions
<1>3. Summary(s) \in Seq(Entries)
  BY <1>1 DEF Summary
<1>4. At(s, Spoken(s)) \in Seq(Entries)
  BY AtIs DEF Spoken
<1>5. Context(s) = Summary(s) \o At(s, Spoken(s))
  BY <1>2 DEF Context, Summary, Spoken, From
<1> QED  BY <1>1, <1>3, <1>4, <1>5

LEMMA ContextType ==
  ASSUME NEW s \in Seq(Entries)
  PROVE  Context(s) \in Seq(Entries)
<1>1. ASSUME NEW a \in Seq(Entries), NEW b \in Seq(Entries) PROVE a \o b \in Seq(Entries)
  OBVIOUS
<1> QED  BY <1>1, ContextIs

----------------------------------------------------------------------------
(* Types.                                                                  *)

LEMMA EntryType ==
  ASSUME StoreType, NEW kind \in Kinds, NEW kept \in Nat, NEW m \in Queued \cup {None}
  PROVE  /\ Entry(kind, kept, m) \in Entries
         /\ Append(store, Entry(kind, kept, m)) \in Seq(Entries)
BY DEF StoreType, Entry, Entries

LEMMA SlotTypes ==
  ASSUME JobType, CompType, NEW j \in Jobs
  PROVE  Forget(j) \in Comps /\ FreeSlot(j) \in [Jobs -> Tasks]
<1>1. Forget(j) \in Comps
  BY DEF CompType, Forget, Comps
<1>2. FreeSlot(j) \in [Jobs -> Tasks]
  BY DEF JobType, FreeSlot, Tasks, None
<1> QED  BY <1>1, <1>2

LEMMA CancelTypes ==
  ASSUME JobType, CompType
  PROVE  CancelledComp \in Comps /\ CancelledJob \in [Jobs -> Tasks]
<1>1. CancelledComp \in Comps
  BY DEF CompType, CancelledComp, Comps
<1>2. CASE JobHit
  <2>1. comp.current \in Jobs
    BY <1>2 DEF CompType, Comps, JobHit, IsCompacting
  <2>2. [job[comp.current] EXCEPT !.hit = TRUE] \in Tasks
    BY <2>1 DEF JobType, Tasks
  <2>3. CancelledJob = [job EXCEPT ![comp.current] = [job[comp.current] EXCEPT !.hit = TRUE]]
    BY <1>2, <2>1 DEF JobType, CancelledJob
  <2> QED  BY <1>1, <2>1, <2>2, <2>3 DEF JobType
<1>3. CASE ~JobHit
  BY <1>1, <1>3 DEF JobType, CancelledJob
<1> QED  BY <1>2, <1>3

LEMMA AbortType ==
  ASSUME NEW a \in Agents
  PROVE  Aborted(a) \in Agents
BY DEF Aborted, Agents

LEMMA NewJobType ==
  ASSUME StoreType, JobType, NEW j \in Jobs, NEW manual \in BOOLEAN, NewJob(j, manual)
  PROVE  job' \in [Jobs -> Tasks] /\ comp' \in Comps
<1>1. FirstToKeep \in Nat /\ Len(store) \in Nat
  BY FirstToKeepIs DEF StoreType
<1>2. job' \in [Jobs -> Tasks]
  BY <1>1 DEF JobType, NewJob, Tasks, None
<1>3. comp' \in Comps
  BY DEF NewJob, Comps
<1> QED  BY <1>2, <1>3

Places == {"new", "pre", "run", "ran", "failed", "unclean", "auto", "exhausted", "end", "settled",
           "done", "raised"}
LEMMA FrameTypes ==
  ASSUME CallType, NEW c \in Prompts, NEW pc \in Places
  PROVE  /\ [call EXCEPT ![c].pc = pc] \in [Prompts -> Frames]
         /\ \A next \in {None, "raise", "raiseFirst", "stop", "retry", "loop"} :
                [call EXCEPT ![c].pc = pc, ![c].next = next] \in [Prompts -> Frames]
         /\ \A leg \in {"first", "retry", "queued"} :
                [call EXCEPT ![c].pc = pc, ![c].leg = leg] \in [Prompts -> Frames]
         /\ \A j \in Jobs : [call EXCEPT ![c].pc = pc, ![c].job = j] \in [Prompts -> Frames]
         /\ \A j \in Jobs, retry \in BOOLEAN :
                [call EXCEPT ![c].pc = pc, ![c].job = j, ![c].retry = retry] \in [Prompts -> Frames]
         /\ [call EXCEPT ![c].hit = TRUE] \in [Prompts -> Frames]
<1>1. [call EXCEPT ![c].pc = pc] \in [Prompts -> Frames]
  BY DEF CallType, Frames, Places
<1>2. ASSUME NEW next \in {None, "raise", "raiseFirst", "stop", "retry", "loop"}
      PROVE  [call EXCEPT ![c].pc = pc, ![c].next = next] \in [Prompts -> Frames]
  <2>1. [call EXCEPT ![c].pc = pc, ![c].next = next] =
            [call EXCEPT ![c] = [call[c] EXCEPT !.pc = pc, !.next = next]]
    BY DEF CallType, Frames
  <2>2. [call[c] EXCEPT !.pc = pc, !.next = next] \in Frames
    BY DEF CallType, Frames, Places
  <2> QED  BY <2>1, <2>2 DEF CallType
<1>3. ASSUME NEW leg \in {"first", "retry", "queued"}
      PROVE  [call EXCEPT ![c].pc = pc, ![c].leg = leg] \in [Prompts -> Frames]
  <2>1. [call EXCEPT ![c].pc = pc, ![c].leg = leg] =
            [call EXCEPT ![c] = [call[c] EXCEPT !.pc = pc, !.leg = leg]]
    BY DEF CallType, Frames
  <2>2. [call[c] EXCEPT !.pc = pc, !.leg = leg] \in Frames
    BY DEF CallType, Frames, Places
  <2> QED  BY <2>1, <2>2 DEF CallType
<1>4. ASSUME NEW j \in Jobs
      PROVE  [call EXCEPT ![c].pc = pc, ![c].job = j] \in [Prompts -> Frames]
  <2>1. [call EXCEPT ![c].pc = pc, ![c].job = j] =
            [call EXCEPT ![c] = [call[c] EXCEPT !.pc = pc, !.job = j]]
    BY DEF CallType, Frames
  <2>2. [call[c] EXCEPT !.pc = pc, !.job = j] \in Frames
    BY DEF CallType, Frames, Places
  <2> QED  BY <2>1, <2>2 DEF CallType
<1>5. ASSUME NEW j \in Jobs, NEW retry \in BOOLEAN
      PROVE  [call EXCEPT ![c].pc = pc, ![c].job = j, ![c].retry = retry] \in [Prompts -> Frames]
  <2>1. [call EXCEPT ![c].pc = pc, ![c].job = j, ![c].retry = retry] =
            [call EXCEPT ![c] = [call[c] EXCEPT !.pc = pc, !.job = j, !.retry = retry]]
    BY DEF CallType, Frames
  <2>2. [call[c] EXCEPT !.pc = pc, !.job = j, !.retry = retry] \in Frames
    BY DEF CallType, Frames, Places
  <2> QED  BY <2>1, <2>2 DEF CallType
<1>6. [call EXCEPT ![c].hit = TRUE] \in [Prompts -> Frames]
  <2>1. [call EXCEPT ![c].hit = TRUE] = [call EXCEPT ![c] = [call[c] EXCEPT !.hit = TRUE]]
    BY DEF CallType
  <2>2. [call[c] EXCEPT !.hit = TRUE] \in Frames
    BY DEF CallType, Frames
  <2> QED  BY <2>1, <2>2 DEF CallType
<1> QED  BY <1>1, <1>2, <1>3, <1>4, <1>5, <1>6

LEMMA GotoType ==
  ASSUME CallType, NEW c \in Prompts, NEW pc \in Places,
         NEW next \in {None, "raise", "raiseFirst", "stop", "retry", "loop"}, Goto(c, pc, next)
  PROVE  call' \in [Prompts -> Frames]
<1>1. [call EXCEPT ![c].pc = pc, ![c].next = next] \in [Prompts -> Frames]
  BY FrameTypes
<1> QED  BY <1>1 DEF Goto

LEMMA ReturnsType ==
  ASSUME CallType, NEW c \in Prompts, NEW how \in {"done", "raised"}, NEW f \in FlagSets,
         NEW k \in Comps, Returns(c, how, f, k)
  PROVE  call' \in [Prompts -> Frames] /\ flags' \in FlagSets /\ comp' \in Comps
<1>1. call' \in [Prompts -> Frames]
  BY FrameTypes DEF Returns, Places
<1>2. flags' \in FlagSets
  BY DEF Returns, FlagSets
<1>3. comp' \in Comps
  BY DEF Returns, Comps
<1> QED  BY <1>1, <1>2, <1>3

LEMMA WithoutType ==
  ASSUME NEW ms \in Seq(Entries)
  PROVE  WithoutOverflow(ms) \in Seq(Entries)
BY DEF WithoutOverflow, Front

LEMMA StartType ==
  ASSUME StoreType, AgentType, CallType, NEW c \in Prompts, NEW ms \in Seq(Entries),
         NEW f \in FlagSets, NEW k \in Comps, Start(c, ms, f, k)
  PROVE  /\ store' \in Seq(Entries) /\ agent' \in Agents /\ call' \in [Prompts -> Frames]
         /\ flags' \in FlagSets /\ comp' \in Comps
<1> DEFINE user == Entry("user", 0, None)
<1>1. user \in Entries /\ Append(store, user) \in Seq(Entries)
  BY EntryType DEF Kinds
<1> HIDE DEF user
<1>2. CASE Idle
  <2>1. <<user>> \in Seq(Entries)
    BY <1>1
  <2>2. /\ store' = Append(store, user)
        /\ agent' = [agent EXCEPT !.run = "launched", !.aborted = FALSE, !.msgs = ms,
                                  !.prompt = <<user>>]
        /\ call' = [call EXCEPT ![c].pc = "run", ![c].leg = "first"]
        /\ flags' = f /\ comp' = k
    BY <1>2 DEF Start, user
  <2>3. call' \in [Prompts -> Frames]
    BY <2>2, FrameTypes DEF Places
  <2>4. agent' \in Agents
    BY <2>1, <2>2 DEF AgentType, Agents
  <2> QED  BY <1>1, <2>2, <2>3, <2>4
<1>3. CASE ~Idle
  <2>1. /\ Returns(c, "raised", f, k) /\ agent' = [agent EXCEPT !.msgs = ms]
        /\ store' = Append(store, user)
    BY <1>3 DEF Start, Raised, user
  <2>2. agent' \in Agents
    BY <2>1 DEF AgentType, Agents
  <2> QED  BY <1>1, <2>1, <2>2, ReturnsType
<1> QED  BY <1>2, <1>3

LEMMA ContinueType ==
  ASSUME AgentType, CallType, NEW c \in Prompts, NEW leg \in {"retry", "queued"},
         NEW ms \in Seq(Entries), NEW f \in FlagSets, NEW k \in Comps, Continue(c, leg, ms, f, k)
  PROVE  /\ agent' \in Agents /\ call' \in [Prompts -> Frames]
         /\ flags' \in FlagSets /\ comp' \in Comps
<1> DEFINE answered == ms # <<>> /\ Last(ms).kind \in Assistants
           polls == answered /\ agent.queue # <<>>
           goes == Idle /\ (polls \/ (~answered /\ ms # <<>>))
<1>1. CASE goes
  <2>1. /\ agent' = [[agent EXCEPT !.msgs = ms] EXCEPT !.run = "launched", !.aborted = FALSE,
                            !.taken = IF polls THEN <<Head(agent.queue)>> ELSE <<>>,
                            !.queue = IF polls THEN Tail(agent.queue) ELSE agent.queue]
        /\ call' = [call EXCEPT ![c].pc = "run", ![c].leg = leg]
        /\ flags' = f /\ comp' = k
    BY <1>1 DEF Continue, AgentType, Agents
  <2>2. polls => Head(agent.queue) \in Queued /\ Tail(agent.queue) \in Seq(Queued)
    BY DEF AgentType, Agents
  <2>3. agent.queue \in Seq(Queued)
    BY DEF AgentType, Agents
  <2> HIDE DEF polls
  <2>4. (IF polls THEN <<Head(agent.queue)>> ELSE <<>>) \in Seq(Queued)
    BY <2>2
  <2>5. (IF polls THEN Tail(agent.queue) ELSE agent.queue) \in Seq(Queued)
    BY <2>2, <2>3
  <2>6. agent' \in Agents
    BY <2>1, <2>4, <2>5 DEF AgentType, Agents
  <2>7. call' \in [Prompts -> Frames]
    BY <2>1, FrameTypes DEF Places
  <2> QED  BY <2>1, <2>6, <2>7
<1>2. CASE ~goes
  <2>1. Returns(c, "raised", f, k) /\ agent' = [agent EXCEPT !.msgs = ms]
    BY <1>2 DEF Continue, Raised
  <2>2. agent' \in Agents
    BY <2>1 DEF AgentType, Agents
  <2> QED  BY <2>1, <2>2, ReturnsType
<1> QED  BY <1>1, <1>2

LEMMA ProceedType ==
  ASSUME AgentType, CallType, NEW c \in Prompts, NEW next \in {None, "retry", "loop", "stop"},
         NEW f \in FlagSets, NEW k \in Comps, Proceed(c, next, f, k)
  PROVE  /\ agent' \in Agents /\ call' \in [Prompts -> Frames]
         /\ flags' \in FlagSets /\ comp' \in Comps
<1> DEFINE settled == [k EXCEPT !.result = FALSE]
<1>1. settled \in Comps
  BY DEF Comps
<1>2. agent.msgs \in Seq(Entries) /\ WithoutOverflow(agent.msgs) \in Seq(Entries)
  BY WithoutType DEF AgentType, Agents
<1>3. CASE f.truncated
  BY <1>3, ReturnsType DEF Proceed, Returned, AgentType
<1>4. CASE ~f.truncated /\ next = "retry"
  BY <1>1, <1>4, <1>2, ContinueType DEF Proceed
<1>5. CASE ~f.truncated /\ next = "loop" /\ agent.queue # <<>> /\ ~life.closing
  BY <1>1, <1>5, <1>2, ContinueType DEF Proceed
<1>6. CASE ~f.truncated /\ next # "retry" /\ ~(next = "loop" /\ agent.queue # <<>> /\ ~life.closing)
  <2>1. /\ Goto(c, "settled", None) /\ flags' = [f EXCEPT !.active = FALSE]
        /\ comp' = settled /\ UNCHANGED agent
    BY <1>6 DEF Proceed
  <2>2. call' \in [Prompts -> Frames]
    BY <2>1, GotoType DEF Places
  <2>3. flags' \in FlagSets
    BY <2>1 DEF FlagSets
  <2> QED  BY <1>1, <2>1, <2>2, <2>3 DEF AgentType
<1> QED  BY <1>3, <1>4, <1>5, <1>6

LEMMA ShowEndType ==
  ASSUME AgentType, CallType, FlagType, NEW c \in Prompts, NEW next \in {None, "retry", "loop", "stop"},
         NEW k \in Comps, ShowEnd(c, next, k)
  PROVE  /\ agent' \in Agents /\ call' \in [Prompts -> Frames]
         /\ flags' \in FlagSets /\ comp' \in Comps
<1>1. CASE flags.pendingEnd
  <2>1. call' \in [Prompts -> Frames]
    <3>1. Goto(c, "end", next)
      BY <1>1 DEF ShowEnd
    <3> QED  BY <3>1, GotoType DEF Places
  <2>2. flags' \in FlagSets /\ agent' = agent /\ comp' = k
    BY <1>1 DEF ShowEnd, FlagType, FlagSets
  <2> QED  BY <2>1, <2>2 DEF AgentType
<1>2. CASE ~flags.pendingEnd
  BY <1>2, ProceedType DEF ShowEnd, FlagType
<1> QED  BY <1>1, <1>2

----------------------------------------------------------------------------
(* What a step of prompt() does: to the prompts, to the Agent and the store, *)
(* and to the compaction tasks.                                            *)

Others(c) == \A d \in Prompts \ {c} : call'[d] = call[d]
Settlement(c, s) == IF call'[c].pc \in {"done", "raised"} /\ s = c THEN None ELSE s
PromptMoves(c) ==
    /\ Prompting(c) /\ Others(c)
    /\ call'[c].pc \in {"run", "auto", "exhausted", "end", "settled", "done", "raised"}
    /\ flags'.settlement = Settlement(c, flags.settlement)
Holding == {"ran", "auto", "exhausted"}
EndKept(c) ==
    odd' = {} /\ flags'.pendingEnd =>
        flags.pendingEnd /\ (call[c].pc \in Holding => call'[c].pc \in Holding)

Rewritten(ms) == ms \in {agent.msgs, WithoutOverflow(agent.msgs)}
AgentStays(c) ==
    /\ call'[c].pc # "run" /\ store' = store
    /\ \/ \E ms \in Seq(Entries) : Rewritten(ms) /\ agent' = [agent EXCEPT !.msgs = ms]
       \/ Idle /\ agent' = [agent EXCEPT !.msgs = Context(store), !.unread = {}]
AgentRefuses(c) ==
    /\ ~Idle /\ call'[c].pc = "raised" /\ store' = Append(store, Entry("user", 0, None))
    /\ \E ms \in Seq(Entries) : Rewritten(ms) /\ agent' = [agent EXCEPT !.msgs = ms]
AgentPrompted(c) ==
    /\ Idle /\ call'[c].pc = "run" /\ store' = Append(store, Entry("user", 0, None))
    /\ \E ms \in {agent.msgs, WithoutOverflow(agent.msgs)} :
          agent' = [agent EXCEPT !.run = "launched", !.aborted = FALSE, !.msgs = ms,
                                 !.prompt = <<Entry("user", 0, None)>>]
AgentContinued(c) ==
    /\ Idle /\ call'[c].pc = "run" /\ store' = store
    /\ \E ms \in {agent.msgs, WithoutOverflow(agent.msgs)} :
          \/ agent' = [agent EXCEPT !.run = "launched", !.aborted = FALSE, !.msgs = ms,
                                    !.taken = <<>>, !.queue = agent.queue]
          \/ /\ agent.queue # <<>>
             /\ agent' = [agent EXCEPT !.run = "launched", !.aborted = FALSE, !.msgs = ms,
                                       !.taken = <<Head(agent.queue)>>, !.queue = Tail(agent.queue)]
AgentMoves(c) == AgentStays(c) \/ AgentRefuses(c) \/ AgentPrompted(c) \/ AgentContinued(c)

JobsStay(c) ==
    /\ ~Compacts(c) /\ call'[c].pc \notin {"pre", "auto"}
    /\ job' = job /\ comp'.current = comp.current
JobOver(c) ==
    /\ Compacts(c) /\ ~Alive(call[c].job) /\ call'[c].pc \notin {"pre", "auto"}
    /\ job' = FreeSlot(call[c].job) /\ comp'.current = Forget(call[c].job).current
JobMade(c) ==
    /\ ~Compacts(c) /\ call'[c].pc \in {"pre", "auto"} /\ call'[c].job \in Jobs
    /\ NewJob(call'[c].job, FALSE)
    /\ ~IsCompacting \/ "crowded" \in odd'

LEMMA GotoIs ==
  ASSUME CallType, NEW c \in Prompts, NEW pc, NEW next, Goto(c, pc, next)
  PROVE  Others(c) /\ call'[c].pc = pc
BY DEF CallType, Frames, Goto, Others

LEMMA ReturnsIs ==
  ASSUME CallType, NEW c \in Prompts, NEW how \in {"done", "raised"}, NEW f \in FlagSets,
         NEW k \in Comps, Returns(c, how, f, k)
  PROVE  /\ Others(c) /\ call'[c].pc = how
         /\ flags'.settlement = Settlement(c, f.settlement)
         /\ flags'.pendingEnd = f.pendingEnd
         /\ comp'.current = k.current
<1>1. Others(c) /\ call'[c].pc = how
  BY DEF CallType, Frames, Returns, Others
<1>2. flags'.pendingEnd = f.pendingEnd
  BY DEF Returns, FlagSets
<1>3. flags'.settlement = Settlement(c, f.settlement)
  BY <1>1 DEF Returns, FlagSets, Settlement
<1>4. comp'.current = k.current
  BY DEF Returns, Comps
<1> QED  BY <1>1, <1>2, <1>3, <1>4

LEMMA StartIs ==
  ASSUME AgentType, CallType, NEW c \in Prompts,
         NEW ms \in {agent.msgs, WithoutOverflow(agent.msgs)},
         NEW f \in FlagSets, NEW k \in Comps, Start(c, ms, f, k)
  PROVE  /\ Others(c) /\ call'[c].pc \in {"run", "raised"}
         /\ flags'.settlement = Settlement(c, f.settlement)
         /\ flags'.pendingEnd = f.pendingEnd
         /\ comp'.current = k.current
         /\ AgentPrompted(c) \/ AgentRefuses(c)
<1>1. ms \in Seq(Entries)
  BY WithoutType DEF AgentType, Agents
<1>2. CASE Idle
  <2>1. /\ store' = Append(store, Entry("user", 0, None))
        /\ agent' = [agent EXCEPT !.run = "launched", !.aborted = FALSE, !.msgs = ms,
                                  !.prompt = <<Entry("user", 0, None)>>]
        /\ call' = [call EXCEPT ![c].pc = "run", ![c].leg = "first"]
        /\ flags' = f /\ comp' = k
    BY <1>2 DEF Start
  <2>2. Others(c) /\ call'[c].pc = "run"
    BY <2>1 DEF CallType, Frames, Others
  <2>3. AgentPrompted(c)
    BY <1>2, <2>1, <2>2 DEF AgentPrompted
  <2> QED  BY <2>1, <2>2, <2>3 DEF Settlement
<1>3. CASE ~Idle
  <2>1. /\ Returns(c, "raised", f, k) /\ agent' = [agent EXCEPT !.msgs = ms]
        /\ store' = Append(store, Entry("user", 0, None))
    BY <1>3 DEF Start, Raised
  <2>2. /\ Others(c) /\ call'[c].pc = "raised"
        /\ flags'.settlement = Settlement(c, f.settlement)
        /\ flags'.pendingEnd = f.pendingEnd
        /\ comp'.current = k.current
    BY <2>1, ReturnsIs
  <2>3. AgentRefuses(c)
    BY <1>1, <1>3, <2>1, <2>2 DEF AgentRefuses, Rewritten
  <2> QED  BY <2>2, <2>3
<1> QED  BY <1>2, <1>3

LEMMA ContinueIs ==
  ASSUME AgentType, CallType, NEW c \in Prompts, NEW leg, UNCHANGED store,
         NEW ms \in {agent.msgs, WithoutOverflow(agent.msgs)},
         NEW f \in FlagSets, NEW k \in Comps, Continue(c, leg, ms, f, k)
  PROVE  /\ Others(c) /\ call'[c].pc \in {"run", "raised"}
         /\ flags'.settlement = Settlement(c, f.settlement)
         /\ flags'.pendingEnd = f.pendingEnd
         /\ comp'.current = k.current
         /\ AgentContinued(c) \/ AgentStays(c)
<1> DEFINE answered == ms # <<>> /\ Last(ms).kind \in Assistants
           polls == answered /\ agent.queue # <<>>
           goes == Idle /\ (polls \/ (~answered /\ ms # <<>>))
<1>1. ms \in Seq(Entries)
  BY WithoutType DEF AgentType, Agents
<1>2. CASE goes
  <2>1. /\ agent' = [[agent EXCEPT !.msgs = ms] EXCEPT !.run = "launched", !.aborted = FALSE,
                            !.taken = IF polls THEN <<Head(agent.queue)>> ELSE <<>>,
                            !.queue = IF polls THEN Tail(agent.queue) ELSE agent.queue]
        /\ call' = [call EXCEPT ![c].pc = "run", ![c].leg = leg]
        /\ flags' = f /\ comp' = k
    BY <1>2 DEF Continue, AgentType, Agents
  <2>2. Others(c) /\ call'[c].pc = "run"
    BY <2>1 DEF CallType, Frames, Others
  <2>3. Idle /\ (polls => agent.queue # <<>>)
    BY <1>2
  <2> HIDE DEF polls, goes
  <2>4. CASE polls
    <3>1. agent' = [agent EXCEPT !.run = "launched", !.aborted = FALSE, !.msgs = ms,
                                 !.taken = <<Head(agent.queue)>>, !.queue = Tail(agent.queue)]
      BY <2>1, <2>4 DEF AgentType, Agents
    <3> QED  BY <2>1, <2>2, <2>3, <2>4, <3>1 DEF AgentContinued, Settlement
  <2>5. CASE ~polls
    <3>1. agent' = [agent EXCEPT !.run = "launched", !.aborted = FALSE, !.msgs = ms,
                                 !.taken = <<>>, !.queue = agent.queue]
      BY <2>1, <2>5 DEF AgentType, Agents
    <3> QED  BY <2>1, <2>2, <2>3, <3>1 DEF AgentContinued, Settlement
  <2> QED  BY <2>4, <2>5
<1>3. CASE ~goes
  <2>1. Returns(c, "raised", f, k) /\ agent' = [agent EXCEPT !.msgs = ms]
    BY <1>3 DEF Continue, Raised
  <2>2. /\ Others(c) /\ call'[c].pc = "raised"
        /\ flags'.settlement = Settlement(c, f.settlement)
        /\ flags'.pendingEnd = f.pendingEnd
        /\ comp'.current = k.current
    BY <2>1, ReturnsIs
  <2>3. AgentStays(c)
    BY <1>1, <2>1, <2>2 DEF AgentStays, Rewritten
  <2> QED  BY <2>2, <2>3
<1> QED  BY <1>2, <1>3

LEMMA ProceedIs ==
  ASSUME AgentType, CallType, NEW c \in Prompts, UNCHANGED store,
         NEW next \in {None, "retry", "loop", "stop"},
         NEW f \in FlagSets, NEW k \in Comps, Proceed(c, next, f, k)
  PROVE  /\ Others(c) /\ call'[c].pc \in {"run", "settled", "done", "raised"}
         /\ flags'.settlement = Settlement(c, f.settlement)
         /\ flags'.pendingEnd = f.pendingEnd
         /\ comp'.current = k.current
         /\ AgentContinued(c) \/ AgentStays(c)
<1> DEFINE settled == [k EXCEPT !.result = FALSE]
<1>1. settled \in Comps /\ settled.current = k.current
  BY DEF Comps
<1>2. agent.msgs \in Seq(Entries) /\ agent = [agent EXCEPT !.msgs = agent.msgs]
  BY DEF AgentType, Agents
<1>3. CASE f.truncated
  <2>1. Returns(c, "done", f, k) /\ UNCHANGED agent
    BY <1>3 DEF Proceed, Returned
  <2>2. /\ Others(c) /\ call'[c].pc = "done"
        /\ flags'.settlement = Settlement(c, f.settlement)
        /\ flags'.pendingEnd = f.pendingEnd
        /\ comp'.current = k.current
    BY <2>1, ReturnsIs
  <2>3. AgentStays(c)
    BY <1>2, <2>1, <2>2 DEF AgentStays, Rewritten
  <2> QED  BY <2>2, <2>3
<1>4. CASE ~f.truncated /\ next = "retry"
  <2>1. Continue(c, "retry", WithoutOverflow(agent.msgs), f, settled)
    BY <1>4 DEF Proceed
  <2> HIDE DEF settled
  <2> QED  BY <1>1, <2>1, ContinueIs
<1>5. CASE ~f.truncated /\ next = "loop" /\ agent.queue # <<>> /\ ~life.closing
  <2>1. Continue(c, "queued", agent.msgs, f, settled)
    BY <1>5 DEF Proceed
  <2> HIDE DEF settled
  <2> QED  BY <1>1, <2>1, ContinueIs
<1>6. CASE ~f.truncated /\ next # "retry" /\ ~(next = "loop" /\ agent.queue # <<>> /\ ~life.closing)
  <2>1. /\ Goto(c, "settled", None) /\ flags' = [f EXCEPT !.active = FALSE]
        /\ comp' = settled /\ UNCHANGED agent
    BY <1>6 DEF Proceed
  <2>2. Others(c) /\ call'[c].pc = "settled"
    BY <2>1, GotoIs
  <2>3. flags'.pendingEnd = f.pendingEnd /\ flags'.settlement = f.settlement
    BY <2>1 DEF FlagSets
  <2>4. AgentStays(c)
    BY <1>2, <2>1, <2>2 DEF AgentStays, Rewritten
  <2> QED  BY <1>1, <2>1, <2>2, <2>3, <2>4 DEF Settlement
<1> QED  BY <1>3, <1>4, <1>5, <1>6

LEMMA ShowEndIs ==
  ASSUME AgentType, CallType, FlagType, NEW c \in Prompts, UNCHANGED store,
         NEW next \in {None, "retry", "loop", "stop"}, NEW k \in Comps, ShowEnd(c, next, k)
  PROVE  /\ Others(c) /\ call'[c].pc \in {"run", "end", "settled", "done", "raised"}
         /\ flags'.settlement = Settlement(c, flags.settlement)
         /\ ~flags'.pendingEnd
         /\ comp'.current = k.current
         /\ AgentContinued(c) \/ AgentStays(c)
<1>1. CASE flags.pendingEnd
  <2>1. /\ Goto(c, "end", next) /\ flags' = [flags EXCEPT !.pendingEnd = FALSE]
        /\ comp' = k /\ UNCHANGED agent
    BY <1>1 DEF ShowEnd
  <2>2. Others(c) /\ call'[c].pc = "end"
    BY <2>1, GotoIs
  <2>3. flags'.pendingEnd = FALSE /\ flags'.settlement = flags.settlement
    BY <2>1 DEF FlagSets, FlagType
  <2>4. AgentStays(c)
    <3>1. agent.msgs \in Seq(Entries) /\ agent = [agent EXCEPT !.msgs = agent.msgs]
      BY DEF AgentType, Agents
    <3> QED  BY <2>1, <2>2, <3>1 DEF AgentStays, Rewritten
  <2> QED  BY <2>1, <2>2, <2>3, <2>4 DEF Settlement
<1>2. CASE ~flags.pendingEnd
  BY <1>2, ProceedIs DEF ShowEnd, FlagType
<1> QED  BY <1>1, <1>2

Beside ==
    /\ UNCHANGED <<waiting, disposal>> /\ odd \subseteq odd'
    /\ life'.reloading = life.reloading /\ life'.disposed = life.disposed
    /\ life.closing => life'.closing
PromptActs(c) ==
    /\ PromptMoves(c) /\ EndKept(c) /\ AgentMoves(c)
    /\ JobsStay(c) \/ JobOver(c) \/ JobMade(c)
    /\ Beside
LeavesLost(c) == call[c].pc = "run" => agent.run = "lost"

LEMMA SameMessages ==
  ASSUME AgentType, NEW c \in Prompts, UNCHANGED <<store, agent>>, call'[c].pc # "run"
  PROVE  AgentStays(c)
<1>1. agent.msgs \in Seq(Entries) /\ agent = [agent EXCEPT !.msgs = agent.msgs]
  BY DEF AgentType, Agents
<1> QED  BY <1>1 DEF AgentStays, Rewritten

LEMMA OutcomeIs ==
  ASSUME TypeOK, Owned, NEW c \in Prompts, Compacts(c), ~Alive(call[c].job)
  PROVE  /\ call[c].job \in Jobs
         /\ Outcome(c) \in {"cancelled", "succeeded", "unsuccessful", "listener"}
         /\ Prompting(c)
<1>1. call[c].job \in Jobs /\ job[call[c].job].pc # "free"
  BY DEF TypeOK, CallType, Frames, Owned
<1>2. job[call[c].job].pc \in Over
  BY <1>1 DEF Alive
<1>3. Outcome(c) \in {"cancelled", "succeeded", "unsuccessful", "listener"}
  BY <1>2 DEF Outcome, Over
<1>4. Prompting(c)
  BY DEF Compacts, Prompting, Finished
<1> QED  BY <1>1, <1>3, <1>4

LEMMA JobCancelledPromptIs ==
  ASSUME TypeOK, Owned, NEW c \in Prompts, Compacts(c), ~Alive(call[c].job), JobCancelledPrompt(c)
  PROVE  /\ StoreType' /\ AgentType' /\ CallType' /\ FlagType' /\ CompType'
         /\ PromptMoves(c) /\ call'[c].pc # "auto"
         /\ flags'.pendingEnd => flags.pendingEnd /\ call[c].pc \notin Holding
         /\ AgentStays(c)
         /\ comp'.current = Forget(call[c].job).current
<1> DEFINE k == Forget(call[c].job)
           ended == [flags EXCEPT !.pendingEnd = FALSE]
           f == IF comp.result THEN ended ELSE flags
<1>1. call[c].job \in Jobs /\ Prompting(c)
  BY OutcomeIs
<1>2. k \in Comps
  BY <1>1, SlotTypes DEF TypeOK
<1>3. ended \in FlagSets /\ ended.pendingEnd = FALSE /\ ended.settlement = flags.settlement
  BY DEF TypeOK, FlagType, FlagSets
<1>4. f \in FlagSets /\ f.settlement = flags.settlement
  BY <1>3 DEF TypeOK, FlagType
<1>5. CASE flags.pendingEnd /\ ~comp.result
  <2>1. Goto(c, "end", "raise") /\ flags' = ended /\ comp' = k /\ UNCHANGED <<store, agent>>
    BY <1>5 DEF JobCancelledPrompt
  <2>2. Others(c) /\ call'[c].pc = "end"
    BY <2>1, GotoIs DEF TypeOK
  <2>3. CallType'
    BY <2>1, GotoType DEF TypeOK, CallType, Places
  <2>4. AgentStays(c)
    BY <2>1, <2>2, SameMessages DEF TypeOK
  <2> QED
    BY <1>1, <1>2, <1>3, <2>1, <2>2, <2>3, <2>4
    DEF TypeOK, StoreType, AgentType, FlagType, CompType, PromptMoves, Settlement
<1>6. CASE ~(flags.pendingEnd /\ ~comp.result)
  <2>1. Returns(c, "done", f, k) /\ UNCHANGED <<store, agent>>
    BY <1>6 DEF JobCancelledPrompt, Returned
  <2>2. ~f.pendingEnd
    BY <1>3, <1>6
  <2> HIDE DEF k, f
  <2>3. /\ Others(c) /\ call'[c].pc = "done" /\ flags'.settlement = Settlement(c, f.settlement)
        /\ flags'.pendingEnd = f.pendingEnd /\ comp'.current = k.current
    BY <1>2, <1>4, <2>1, ReturnsIs DEF TypeOK
  <2>4. CallType' /\ FlagType' /\ CompType'
    BY <1>2, <1>4, <2>1, ReturnsType DEF TypeOK, CallType, FlagType, CompType
  <2>5. AgentStays(c)
    BY <2>1, <2>3, SameMessages DEF TypeOK
  <2> QED
    BY <1>1, <1>4, <2>1, <2>3, <2>4, <2>5, <2>2
    DEF TypeOK, StoreType, AgentType, PromptMoves, k
<1> QED  BY <1>5, <1>6

LEMMA JobBrokePromptIs ==
  ASSUME TypeOK, Owned, NEW c \in Prompts, Compacts(c), ~Alive(call[c].job), JobBrokePrompt(c)
  PROVE  /\ StoreType' /\ AgentType' /\ CallType' /\ FlagType' /\ CompType'
         /\ PromptMoves(c) /\ call'[c].pc # "auto"
         /\ ~flags'.pendingEnd
         /\ AgentStays(c)
         /\ comp'.current = Forget(call[c].job).current
<1> DEFINE k == Forget(call[c].job)
           f == [flags EXCEPT !.pendingEnd = FALSE]
<1>1. call[c].job \in Jobs /\ Prompting(c)
  BY OutcomeIs
<1>2. k \in Comps
  BY <1>1, SlotTypes DEF TypeOK
<1>3. f \in FlagSets /\ f.pendingEnd = FALSE /\ f.settlement = flags.settlement
  BY DEF TypeOK, FlagType, FlagSets
<1>4. Context(store) \in Seq(Entries)
  BY ContextType DEF TypeOK, StoreType
<1>5. /\ UNCHANGED store
      /\ \/ Idle /\ agent' = [agent EXCEPT !.msgs = Context(store), !.unread = {}]
         \/ UNCHANGED agent
  BY DEF JobBrokePrompt, Rebuilt
<1>6. Returns(c, "raised", f, k)
  BY DEF JobBrokePrompt, Raised
<1> HIDE DEF k, f
<1>7. /\ Others(c) /\ call'[c].pc = "raised" /\ flags'.settlement = Settlement(c, f.settlement)
      /\ flags'.pendingEnd = f.pendingEnd /\ comp'.current = k.current
  BY <1>2, <1>3, <1>6, ReturnsIs DEF TypeOK
<1>8. CallType' /\ FlagType' /\ CompType'
  BY <1>2, <1>3, <1>6, ReturnsType DEF TypeOK, CallType, FlagType, CompType
<1>9. AgentType'
  BY <1>4, <1>5 DEF TypeOK, AgentType, Agents
<1>10. AgentStays(c)
  BY <1>5, <1>7, SameMessages DEF AgentStays, TypeOK
<1> QED
  BY <1>1, <1>3, <1>5, <1>7, <1>8, <1>9, <1>10 DEF TypeOK, StoreType, PromptMoves, k

LEMMA PreDoneActs ==
  ASSUME TypeOK, Owned, NEW c \in Prompts, PreDone(c)
  PROVE  TypeOK' /\ PromptActs(c)
<1> DEFINE k == Forget(call[c].job)
           ms == IF Outcome(c) = "succeeded" THEN WithoutOverflow(agent.msgs) ELSE agent.msgs
<1>1. /\ Compacts(c) /\ ~Alive(call[c].job) /\ call[c].pc = "pre"
      /\ job' = FreeSlot(call[c].job) /\ UNCHANGED <<waiting, life, disposal, left, odd>>
  BY DEF PreDone, Compacts
<1>2. call[c].job \in Jobs /\ Prompting(c)
  BY <1>1, OutcomeIs
<1>3. k \in Comps /\ JobType'
  BY <1>1, <1>2, SlotTypes DEF TypeOK, JobType
<1>4. ms \in {agent.msgs, WithoutOverflow(agent.msgs)} /\ ms \in Seq(Entries)
  BY WithoutType DEF TypeOK, AgentType, Agents
<1>5. WaitType' /\ LifeType' /\ DisposalType' /\ BoundType'
  BY <1>1 DEF TypeOK, WaitType, LifeType, DisposalType, BoundType
<1>6. Beside
  BY <1>1 DEF Beside
<1> DEFINE goal ==
      /\ StoreType' /\ AgentType' /\ CallType' /\ FlagType' /\ CompType'
      /\ PromptMoves(c) /\ EndKept(c) /\ AgentMoves(c) /\ call'[c].pc # "auto"
      /\ comp'.current = Forget(call[c].job).current
<1>7. goal
  <2>1. CASE JobCancelledPrompt(c)
    BY <1>1, <2>1, JobCancelledPromptIs DEF AgentMoves, EndKept, Holding
  <2>2. CASE JobBrokePrompt(c)
    BY <1>1, <2>2, JobBrokePromptIs DEF AgentMoves, EndKept, Holding
  <2>3. CASE Start(c, ms, flags, k)
    <3> HIDE DEF ms, k
    <3>1. /\ store' \in Seq(Entries) /\ agent' \in Agents /\ call' \in [Prompts -> Frames]
          /\ flags' \in FlagSets /\ comp' \in Comps
      BY <1>3, <1>4, <2>3, StartType DEF TypeOK, FlagType
    <3>2. /\ Others(c) /\ call'[c].pc \in {"run", "raised"}
          /\ flags'.settlement = Settlement(c, flags.settlement)
          /\ flags'.pendingEnd = flags.pendingEnd /\ comp'.current = k.current
          /\ AgentPrompted(c) \/ AgentRefuses(c)
      BY <1>3, <1>4, <2>3, StartIs DEF TypeOK, FlagType
    <3> QED
      BY <1>1, <1>2, <3>1, <3>2
      DEF StoreType, AgentType, CallType, FlagType, CompType, PromptMoves, EndKept, Holding, AgentMoves, k
  <2>4. CASE /\ Returned(c, flags, k) /\ agent' = [agent EXCEPT !.msgs = ms]
             /\ UNCHANGED store
    <3> HIDE DEF ms, k
    <3>1. Returns(c, "done", flags, k)
      BY <2>4 DEF Returned
    <3>2. /\ call' \in [Prompts -> Frames] /\ flags' \in FlagSets /\ comp' \in Comps
      BY <1>3, <3>1, ReturnsType DEF TypeOK, FlagType
    <3>3. /\ Others(c) /\ call'[c].pc = "done"
          /\ flags'.settlement = Settlement(c, flags.settlement)
          /\ flags'.pendingEnd = flags.pendingEnd /\ comp'.current = k.current
      BY <1>3, <3>1, ReturnsIs DEF TypeOK, FlagType
    <3>4. agent' \in Agents
      BY <1>4, <2>4 DEF TypeOK, AgentType, Agents
    <3>5. AgentStays(c)
      BY <1>4, <2>4, <3>3 DEF AgentStays, Rewritten
    <3> QED
      BY <1>1, <1>2, <2>4, <3>2, <3>3, <3>4, <3>5
      DEF TypeOK, StoreType, AgentType, CallType, FlagType, CompType, PromptMoves, EndKept, Holding, AgentMoves, k
  <2> QED  BY <2>1, <2>2, <2>3, <2>4 DEF PreDone
<1>8. JobOver(c)
  BY <1>1, <1>7 DEF JobOver, PromptMoves
<1> QED  BY <1>3, <1>5, <1>6, <1>7, <1>8 DEF TypeOK, PromptActs

\* A prompt that awaits no compaction returns, or goes on to its next await.
LEMMA ReturningActs ==
  ASSUME TypeOK, NEW c \in Prompts, Prompting(c), ~Compacts(c), NEW how \in {"done", "raised"},
         Returns(c, how, flags, comp), UNCHANGED <<store, agent, job>>
  PROVE  /\ StoreType' /\ AgentType' /\ CallType' /\ FlagType' /\ CompType' /\ JobType'
         /\ PromptMoves(c) /\ AgentMoves(c) /\ JobsStay(c)
         /\ flags'.pendingEnd = flags.pendingEnd
<1>1. /\ Others(c) /\ call'[c].pc = how
      /\ flags'.settlement = Settlement(c, flags.settlement)
      /\ flags'.pendingEnd = flags.pendingEnd /\ comp'.current = comp.current
  BY ReturnsIs DEF TypeOK, FlagType, CompType
<1>2. CallType' /\ FlagType' /\ CompType'
  BY ReturnsType DEF TypeOK, CallType, FlagType, CompType
<1>3. AgentStays(c)
  BY <1>1, SameMessages DEF TypeOK
<1> QED
  BY <1>1, <1>2, <1>3
  DEF TypeOK, StoreType, AgentType, JobType, PromptMoves, AgentMoves, JobsStay

LEMMA GoingActs ==
  ASSUME TypeOK, NEW c \in Prompts, Prompting(c), ~Compacts(c),
         NEW pc \in {"exhausted", "end", "settled"},
         NEW next \in {None, "raise", "raiseFirst", "stop", "retry", "loop"}, Goto(c, pc, next),
         FlagType', flags'.settlement = flags.settlement, UNCHANGED <<store, agent, job, comp>>
  PROVE  /\ StoreType' /\ AgentType' /\ CallType' /\ FlagType' /\ CompType' /\ JobType'
         /\ PromptMoves(c) /\ AgentMoves(c) /\ JobsStay(c) /\ call'[c].pc = pc
<1>1. Others(c) /\ call'[c].pc = pc
  BY GotoIs DEF TypeOK
<1>2. CallType'
  BY GotoType DEF TypeOK, CallType, Places
<1>3. AgentStays(c)
  BY <1>1, SameMessages DEF TypeOK
<1> QED
  BY <1>1, <1>2, <1>3
  DEF TypeOK, StoreType, AgentType, JobType, CompType, PromptMoves, AgentMoves, JobsStay, Settlement

LEMMA ProceedingActs ==
  ASSUME TypeOK, NEW c \in Prompts, Prompting(c), ~Compacts(c),
         NEW next \in {None, "retry", "loop", "stop"}, Proceed(c, next, flags, comp),
         UNCHANGED <<store, job>>
  PROVE  /\ StoreType' /\ AgentType' /\ CallType' /\ FlagType' /\ CompType' /\ JobType'
         /\ PromptMoves(c) /\ AgentMoves(c) /\ JobsStay(c)
         /\ flags'.pendingEnd = flags.pendingEnd
<1>1. /\ Others(c) /\ call'[c].pc \in {"run", "settled", "done", "raised"}
      /\ flags'.settlement = Settlement(c, flags.settlement)
      /\ flags'.pendingEnd = flags.pendingEnd /\ comp'.current = comp.current
      /\ AgentContinued(c) \/ AgentStays(c)
  BY ProceedIs DEF TypeOK, FlagType, CompType
<1>2. /\ agent' \in Agents /\ call' \in [Prompts -> Frames]
      /\ flags' \in FlagSets /\ comp' \in Comps
  BY ProceedType DEF TypeOK, FlagType, CompType
<1> QED
  BY <1>1, <1>2
  DEF TypeOK, StoreType, AgentType, JobType, CallType, FlagType, CompType, PromptMoves, AgentMoves, JobsStay

LEMMA RunFailedActs ==
  ASSUME TypeOK, NEW c \in Prompts, RunFailed(c)
  PROVE  TypeOK' /\ PromptActs(c)
<1>1. /\ Prompting(c) /\ ~Compacts(c) /\ call[c].pc \notin Holding
      /\ Returns(c, "raised", flags, comp)
      /\ UNCHANGED <<store, agent, waiting, job, disposal, left, odd>>
  BY DEF RunFailed, Prompting, Finished, Compacts, Holding, Raised
<1>2. life' = [life EXCEPT !.closing = @ \/ call[c].pc = "unclean"]
  BY DEF RunFailed
<1>3. LifeType' /\ life'.reloading = life.reloading /\ life'.disposed = life.disposed
      /\ (life.closing => life'.closing)
  BY <1>2 DEF TypeOK, LifeType
<1> QED
  BY <1>1, <1>3, ReturningActs
  DEF TypeOK, WaitType, DisposalType, BoundType, PromptActs, EndKept, Beside

LEMMA RunLostActs ==
  ASSUME TypeOK, NEW c \in Prompts, RunLost(c)
  PROVE  TypeOK' /\ PromptActs(c)
<1>1. /\ Prompting(c) /\ ~Compacts(c) /\ call[c].pc \notin Holding
      /\ UNCHANGED <<store, agent, waiting, job, life, disposal, left, odd>>
  BY DEF RunLost, Prompting, Finished, Compacts, Holding
<1>2. CASE Goto(c, "settled", None) /\ UNCHANGED <<flags, comp>>
  <2>1. FlagType' /\ flags'.settlement = flags.settlement
    BY <1>2 DEF TypeOK, FlagType
  <2> QED
    BY <1>1, <1>2, <2>1, GoingActs
    DEF TypeOK, WaitType, LifeType, DisposalType, BoundType, PromptActs, EndKept, Beside
<1>3. CASE Returns(c, "done", flags, comp)
  BY <1>1, <1>3, ReturningActs
  DEF TypeOK, WaitType, LifeType, DisposalType, BoundType, PromptActs, EndKept, Beside
<1> QED  BY <1>2, <1>3 DEF RunLost, Returned

LEMMA RunOverActs ==
  ASSUME TypeOK, NEW c \in Prompts, RunOver(c)
  PROVE  TypeOK' /\ PromptActs(c)
<1>1. /\ Prompting(c) /\ ~Compacts(c) /\ call[c].pc = "ran"
      /\ UNCHANGED <<store, waiting, life, disposal, left>>
  BY DEF RunOver, Prompting, Finished, Compacts
<1>2. CASE Goto(c, "exhausted", None) /\ UNCHANGED <<agent, flags, job, comp, odd>>
  <2>1. FlagType' /\ flags'.settlement = flags.settlement
    BY <1>2 DEF TypeOK, FlagType
  <2> QED
    BY <1>1, <1>2, <2>1, GoingActs
    DEF TypeOK, WaitType, LifeType, DisposalType, BoundType, PromptActs, EndKept, Holding, Beside
<1>3. CASE ShowEnd(c, "loop", comp) /\ UNCHANGED <<job, odd>>
  <2>1. /\ Others(c) /\ call'[c].pc \in {"run", "end", "settled", "done", "raised"}
        /\ flags'.settlement = Settlement(c, flags.settlement)
        /\ ~flags'.pendingEnd /\ comp'.current = comp.current
        /\ AgentContinued(c) \/ AgentStays(c)
    BY <1>1, <1>3, ShowEndIs DEF TypeOK, CompType
  <2>2. /\ agent' \in Agents /\ call' \in [Prompts -> Frames]
        /\ flags' \in FlagSets /\ comp' \in Comps
    BY <1>3, ShowEndType DEF TypeOK, CompType
  <2> QED
    BY <1>1, <1>3, <2>1, <2>2
    DEF TypeOK, StoreType, AgentType, WaitType, CallType, FlagType, JobType, CompType, LifeType,
        DisposalType, BoundType, PromptActs, PromptMoves, EndKept, AgentMoves, JobsStay, Beside
<1>4. ASSUME NEW retry \in BOOLEAN, NEW j \in Jobs, NewJob(j, FALSE),
             flags' = [flags EXCEPT !.tried = @ \/ retry],
             call' = [call EXCEPT ![c].pc = "auto", ![c].job = j, ![c].retry = retry],
             odd' = odd \cup Displaced, UNCHANGED agent
      PROVE  TypeOK' /\ PromptActs(c)
  <2>1. Others(c) /\ call'[c].pc = "auto" /\ call'[c].job = j
    BY <1>4 DEF TypeOK, CallType, Frames, Others
  <2>2. CallType' /\ JobType' /\ CompType'
    <3>1. call' \in [Prompts -> Frames]
      BY <1>4, FrameTypes DEF TypeOK, Places
    <3>2. job' \in [Jobs -> Tasks] /\ comp' \in Comps
      BY <1>4, NewJobType DEF TypeOK
    <3> QED  BY <3>1, <3>2 DEF CallType, JobType, CompType
  <2>3. FlagType' /\ flags'.settlement = flags.settlement /\ flags'.pendingEnd = flags.pendingEnd
    BY <1>4 DEF TypeOK, FlagType, FlagSets
  <2>4. AgentStays(c)
    BY <1>1, <1>4, <2>1, SameMessages DEF TypeOK
  <2>5. JobMade(c)
    BY <1>1, <1>4, <2>1 DEF JobMade, Displaced
  <2>6. BoundType' /\ odd \subseteq odd'
    BY <1>1, <1>4 DEF TypeOK, BoundType, Displaced
  <2> QED
    BY <1>1, <1>4, <2>1, <2>2, <2>3, <2>4, <2>5, <2>6
    DEF TypeOK, StoreType, AgentType, WaitType, LifeType, DisposalType, PromptActs, PromptMoves,
        Settlement, EndKept, Holding, AgentMoves, Beside
<1>5. \/ Goto(c, "exhausted", None) /\ UNCHANGED <<agent, flags, job, comp, odd>>
      \/ ShowEnd(c, "loop", comp) /\ UNCHANGED <<job, odd>>
      \/ \E retry \in BOOLEAN, j \in Jobs :
            /\ NewJob(j, FALSE)
            /\ flags' = [flags EXCEPT !.tried = @ \/ retry]
            /\ call' = [call EXCEPT ![c].pc = "auto", ![c].job = j, ![c].retry = retry]
            /\ odd' = odd \cup Displaced /\ UNCHANGED agent
  BY DEF RunOver
<1> QED  BY <1>2, <1>3, <1>4, <1>5

LEMMA RunCancelledActs ==
  ASSUME TypeOK, NEW c \in Prompts, RunCancelled(c)
  PROVE  TypeOK' /\ PromptActs(c)
<1>1. /\ Prompting(c) /\ ~Compacts(c)
      /\ UNCHANGED <<store, agent, waiting, job, life, disposal, left, odd>>
  BY DEF RunCancelled, Prompting, Finished, Compacts
<1>2. ASSUME flags.pendingEnd, NEW next \in {"raise", "raiseFirst"}, Goto(c, "end", next),
             flags' = [flags EXCEPT !.pendingEnd = FALSE], UNCHANGED comp
      PROVE  TypeOK' /\ PromptActs(c)
  <2>1. FlagType' /\ flags'.settlement = flags.settlement /\ ~flags'.pendingEnd
    BY <1>2 DEF TypeOK, FlagType, FlagSets
  <2> QED
    BY <1>1, <1>2, <2>1, GoingActs
    DEF TypeOK, WaitType, LifeType, DisposalType, BoundType, PromptActs, EndKept, Beside
<1>3. CASE ~flags.pendingEnd /\ Goto(c, "settled", None) /\ UNCHANGED <<flags, comp>>
  <2>1. FlagType' /\ flags'.settlement = flags.settlement
    BY <1>3 DEF TypeOK, FlagType
  <2> QED
    BY <1>1, <1>3, <2>1, GoingActs
    DEF TypeOK, WaitType, LifeType, DisposalType, BoundType, PromptActs, EndKept, Beside
<1>4. CASE ~flags.pendingEnd /\ Returns(c, "done", flags, comp)
  BY <1>1, <1>4, ReturningActs
  DEF TypeOK, WaitType, LifeType, DisposalType, BoundType, PromptActs, EndKept, Beside
<1> QED  BY <1>2, <1>3, <1>4 DEF RunCancelled, Returned

LEMMA AutoDoneActs ==
  ASSUME TypeOK, Owned, NEW c \in Prompts, AutoDone(c)
  PROVE  TypeOK' /\ PromptActs(c)
<1> DEFINE k == Forget(call[c].job)
<1>1. /\ Compacts(c) /\ ~Alive(call[c].job) /\ call[c].pc = "auto"
      /\ job' = FreeSlot(call[c].job) /\ UNCHANGED <<waiting, life, disposal, left>>
  BY DEF AutoDone, Compacts
<1>2. call[c].job \in Jobs /\ Prompting(c)
  BY <1>1, OutcomeIs
<1>3. k \in Comps /\ JobType'
  BY <1>1, <1>2, SlotTypes DEF TypeOK, JobType
<1>4. odd' = odd \cup IF flags.truncated /\ flags'.pendingEnd THEN {"unshown"} ELSE {}
  BY DEF AutoDone
<1>5. WaitType' /\ LifeType' /\ DisposalType' /\ BoundType'
  BY <1>1, <1>4 DEF TypeOK, WaitType, LifeType, DisposalType, BoundType
<1>6. Beside
  BY <1>1, <1>4 DEF Beside
<1> DEFINE goal ==
      /\ StoreType' /\ AgentType' /\ CallType' /\ FlagType' /\ CompType'
      /\ PromptMoves(c) /\ EndKept(c) /\ AgentMoves(c) /\ call'[c].pc # "auto"
      /\ comp'.current = Forget(call[c].job).current
<1>7. goal
  <2>1. CASE JobCancelledPrompt(c)
    BY <1>1, <2>1, JobCancelledPromptIs DEF AgentMoves, EndKept, Holding
  <2>2. CASE JobBrokePrompt(c)
    BY <1>1, <2>2, JobBrokePromptIs DEF AgentMoves, EndKept, Holding
  <2>3. ASSUME NEW next \in {"stop", "retry", "loop"}, ShowEnd(c, next, k), UNCHANGED store
        PROVE  goal
    <3> HIDE DEF k
    <3>1. /\ agent' \in Agents /\ call' \in [Prompts -> Frames]
          /\ flags' \in FlagSets /\ comp' \in Comps
      BY <1>3, <2>3, ShowEndType DEF TypeOK
    <3>2. /\ Others(c) /\ call'[c].pc \in {"run", "end", "settled", "done", "raised"}
          /\ flags'.settlement = Settlement(c, flags.settlement)
          /\ ~flags'.pendingEnd /\ comp'.current = k.current
          /\ AgentContinued(c) \/ AgentStays(c)
      BY <1>3, <2>3, ShowEndIs DEF TypeOK
    <3> QED
      BY <1>1, <1>2, <2>3, <3>1, <3>2
      DEF TypeOK, StoreType, AgentType, CallType, FlagType, CompType, PromptMoves, EndKept, AgentMoves, k
  <2>4. CASE flags.truncated /\ Returned(c, flags, k) /\ UNCHANGED <<store, agent>>
    <3> HIDE DEF k
    <3>1. Returns(c, "done", flags, k)
      BY <2>4 DEF Returned
    <3>2. /\ call' \in [Prompts -> Frames] /\ flags' \in FlagSets /\ comp' \in Comps
      BY <1>3, <3>1, ReturnsType DEF TypeOK, FlagType
    <3>3. /\ Others(c) /\ call'[c].pc = "done"
          /\ flags'.settlement = Settlement(c, flags.settlement)
          /\ flags'.pendingEnd = flags.pendingEnd /\ comp'.current = k.current
      BY <1>3, <3>1, ReturnsIs DEF TypeOK, FlagType
    <3>4. AgentStays(c)
      BY <2>4, <3>3, SameMessages DEF TypeOK
    <3>5. EndKept(c)
      BY <1>4, <2>4, <3>3 DEF EndKept
    <3> QED
      BY <1>1, <1>2, <2>4, <3>2, <3>3, <3>4, <3>5
      DEF TypeOK, StoreType, AgentType, CallType, FlagType, CompType, PromptMoves, AgentMoves, k
  <2> QED  BY <2>1, <2>2, <2>3, <2>4 DEF AutoDone
<1>8. JobOver(c)
  BY <1>1, <1>7 DEF JobOver, PromptMoves
<1> QED  BY <1>3, <1>5, <1>6, <1>7, <1>8 DEF TypeOK, PromptActs

LEMMA EndShownActs ==
  ASSUME TypeOK, NEW c \in Prompts, EndShown(c)
  PROVE  TypeOK' /\ PromptActs(c)
<1>1. /\ Prompting(c) /\ ~Compacts(c) /\ call[c].pc \notin Holding
      /\ UNCHANGED <<store, waiting, job, life, disposal, left, odd>>
  BY DEF EndShown, Prompting, Finished, Compacts, Holding
<1>2. CASE call[c].next \in {"raise", "raiseFirst"}
  <2>1. /\ Goto(c, "settled", None) /\ UNCHANGED <<agent, comp>>
        /\ flags' = [flags EXCEPT !.active = flags.active /\ call[c].next = "raiseFirst"]
    BY <1>2 DEF EndShown
  <2>2. FlagType' /\ flags'.settlement = flags.settlement /\ flags'.pendingEnd = flags.pendingEnd
    BY <2>1 DEF TypeOK, FlagType, FlagSets
  <2> QED
    BY <1>1, <2>1, <2>2, GoingActs
    DEF TypeOK, WaitType, LifeType, DisposalType, BoundType, PromptActs, EndKept, Beside
<1>3. CASE call[c].next \notin {"raise", "raiseFirst"}
  <2>1. call[c].next \in {None, "retry", "loop", "stop"}
    BY <1>3 DEF TypeOK, CallType, Frames
  <2>2. Proceed(c, call[c].next, flags, comp)
    BY <1>3 DEF EndShown
  <2> QED
    BY <1>1, <2>1, <2>2, ProceedingActs
    DEF TypeOK, WaitType, LifeType, DisposalType, BoundType, PromptActs, EndKept, Beside
<1> QED  BY <1>2, <1>3

LEMMA SettlesActs ==
  ASSUME TypeOK, NEW c \in Prompts, Settles(c)
  PROVE  TypeOK' /\ PromptActs(c)
<1>1. /\ Prompting(c) /\ ~Compacts(c) /\ call[c].pc \notin Holding
      /\ Returns(c, "done", flags, comp)
      /\ UNCHANGED <<store, agent, waiting, job, life, disposal, left, odd>>
  BY DEF Settles, Prompting, Finished, Compacts, Holding, Returned
<1> QED
  BY <1>1, ReturningActs
  DEF TypeOK, WaitType, LifeType, DisposalType, BoundType, PromptActs, EndKept, Beside

LEMMA ExhaustedShownActs ==
  ASSUME TypeOK, NEW c \in Prompts, ExhaustedShown(c)
  PROVE  TypeOK' /\ PromptActs(c)
<1>1. /\ Prompting(c) /\ ~Compacts(c)
      /\ UNCHANGED <<store, waiting, job, life, disposal, left, odd>>
  BY DEF ExhaustedShown, Prompting, Finished, Compacts
<1>2. CASE flags.pendingEnd
  <2>1. PICK next \in {"raise", "stop"} :
          /\ Goto(c, "end", next) /\ UNCHANGED <<agent, comp>>
          /\ flags' = [flags EXCEPT !.pendingEnd = FALSE]
    BY <1>2 DEF ExhaustedShown
  <2>2. FlagType' /\ flags'.settlement = flags.settlement /\ ~flags'.pendingEnd
    BY <2>1 DEF TypeOK, FlagType, FlagSets
  <2> QED
    BY <1>1, <2>1, <2>2, GoingActs
    DEF TypeOK, WaitType, LifeType, DisposalType, BoundType, PromptActs, EndKept, Beside
<1>3. CASE ~flags.pendingEnd /\ Returns(c, "done", flags, comp) /\ UNCHANGED agent
  BY <1>1, <1>3, ReturningActs
  DEF TypeOK, WaitType, LifeType, DisposalType, BoundType, PromptActs, EndKept, Beside
<1>4. CASE ~flags.pendingEnd /\ Proceed(c, "stop", flags, comp)
  BY <1>1, <1>4, ProceedingActs
  DEF TypeOK, WaitType, LifeType, DisposalType, BoundType, PromptActs, EndKept, Beside
<1> QED  BY <1>2, <1>3, <1>4 DEF ExhaustedShown, Returned

LEMMA ListenerFailsActs ==
  ASSUME TypeOK, NEW c \in Prompts, ListenerFails(c)
  PROVE  TypeOK' /\ PromptActs(c)
<1>1. /\ Prompting(c) /\ ~Compacts(c) /\ call[c].pc \in {"end", "exhausted"}
      /\ Returns(c, "raised", flags, comp)
      /\ odd' = odd \cup IF call[c].pc = "exhausted" THEN {"unshown"} ELSE {}
      /\ left' = [left EXCEPT !["fault"] = left["fault"] - 1] /\ left["fault"] > 0
      /\ UNCHANGED <<store, agent, waiting, job, life, disposal>>
  BY DEF ListenerFails, Prompting, Finished, Compacts, Raised, Spend
<1>2. BoundType' /\ Beside
  BY <1>1 DEF TypeOK, BoundType, Beside
<1>3. flags'.pendingEnd = flags.pendingEnd
  BY <1>1, ReturningActs
<1>4. EndKept(c)
  BY <1>1, <1>3 DEF EndKept, Holding
<1> QED
  BY <1>1, <1>2, <1>4, ReturningActs DEF TypeOK, WaitType, LifeType, DisposalType, PromptActs

LEMMA PromptStepActs ==
  ASSUME TypeOK, Owned, NEW c \in Prompts, PromptStep(c)
  PROVE  TypeOK' /\ PromptActs(c) /\ LeavesLost(c)
<1>1. TypeOK' /\ PromptActs(c)
  BY PreDoneActs, RunFailedActs, RunLostActs, RunOverActs, RunCancelledActs, AutoDoneActs,
     EndShownActs, SettlesActs, ExhaustedShownActs, ListenerFailsActs DEF PromptStep
<1>2. LeavesLost(c)
  BY DEF PromptStep, LeavesLost, PreDone, RunFailed, RunLost, RunOver, RunCancelled, AutoDone,
     EndShown, Settles, ExhaustedShown, ListenerFails
<1> QED  BY <1>1, <1>2

\* What a call of prompt() does.
CallActs(c) ==
    /\ call[c].pc = "new" /\ Open /\ ~IsCompacting
    /\ Others(c) /\ call'[c].pc \in {"pre", "run", "raised"}
    /\ flags'.settlement = Settlement(c, c) /\ flags'.pendingEnd = flags.pendingEnd
    /\ AgentMoves(c)
    /\ JobsStay(c) \/ JobMade(c)
    /\ odd' = odd \cup Crowded(c) /\ UNCHANGED <<waiting, life, disposal>>

LEMMA SpendType ==
  ASSUME TypeOK, NEW k \in {"prompt", "queue", "reload", "large", "compact", "cancel", "fault"}, Spend(k)
  PROVE  left' \in [{"prompt", "queue", "reload", "large", "compact", "cancel", "fault"} -> Nat]
<1>1. left[k] \in Nat /\ left[k] > 0
  BY DEF TypeOK, BoundType, Spend
<1>2. left[k] - 1 \in Nat
  BY <1>1
<1> QED  BY <1>2 DEF TypeOK, BoundType, Spend

LEMMA CallPromptActs ==
  ASSUME TypeOK, NEW c \in Prompts, CallPrompt(c)
  PROVE  TypeOK' /\ CallActs(c)
<1> DEFINE f == [flags EXCEPT !.active = TRUE, !.settlement = c, !.cancel = FALSE,
                              !.truncated = FALSE, !.tried = FALSE]
<1>1. /\ call[c].pc = "new" /\ Open /\ ~IsCompacting /\ ~Compacts(c)
      /\ odd' = odd \cup Crowded(c) /\ UNCHANGED <<waiting, life, disposal>>
  BY DEF CallPrompt, Compacts
<1>2. f \in FlagSets /\ f.settlement = c /\ f.pendingEnd = flags.pendingEnd
  BY DEF TypeOK, FlagType, FlagSets
<1>3. BoundType'
  BY <1>1, SpendType DEF TypeOK, BoundType, CallPrompt, Crowded
<1>4. WaitType' /\ LifeType' /\ DisposalType'
  BY <1>1 DEF TypeOK, WaitType, LifeType, DisposalType
<1>5. CASE Start(c, agent.msgs, f, comp) /\ UNCHANGED job
  <2> HIDE DEF f
  <2>1. agent.msgs \in Seq(Entries)
    BY DEF TypeOK, AgentType, Agents
  <2>2. /\ store' \in Seq(Entries) /\ agent' \in Agents /\ call' \in [Prompts -> Frames]
        /\ flags' \in FlagSets /\ comp' \in Comps
    BY <1>2, <1>5, <2>1, StartType DEF TypeOK, CompType
  <2>3. /\ Others(c) /\ call'[c].pc \in {"run", "raised"}
        /\ flags'.settlement = Settlement(c, f.settlement)
        /\ flags'.pendingEnd = f.pendingEnd
        /\ comp'.current = comp.current
        /\ AgentPrompted(c) \/ AgentRefuses(c)
    BY <1>2, <1>5, StartIs DEF TypeOK, CompType
  <2>4. JobsStay(c)
    BY <1>1, <1>5, <2>3 DEF JobsStay
  <2> QED
    BY <1>1, <1>2, <1>3, <1>4, <1>5, <2>2, <2>3, <2>4
    DEF TypeOK, StoreType, AgentType, CallType, FlagType, JobType, CompType, CallActs, AgentMoves
<1>6. ASSUME NEW j \in Jobs, NewJob(j, FALSE),
             call' = [call EXCEPT ![c].pc = "pre", ![c].job = j],
             flags' = f, UNCHANGED <<store, agent>>
      PROVE  TypeOK' /\ CallActs(c)
  <2>1. Others(c) /\ call'[c].pc = "pre" /\ call'[c].job = j
    BY <1>6 DEF TypeOK, CallType, Frames, Others
  <2>2. CallType' /\ JobType' /\ CompType'
    BY <1>6, FrameTypes, NewJobType DEF TypeOK, CallType, JobType, CompType, Places
  <2>3. AgentStays(c)
    BY <1>6, <2>1, SameMessages DEF TypeOK
  <2>4. JobMade(c)
    BY <1>1, <1>6, <2>1 DEF JobMade
  <2> QED
    BY <1>1, <1>2, <1>3, <1>4, <1>6, <2>1, <2>2, <2>3, <2>4
    DEF TypeOK, StoreType, AgentType, FlagType, CallActs, AgentMoves, Settlement
<1> QED  BY <1>5, <1>6 DEF CallPrompt

\* The steps of a run.
LEMMA RunBeginsType ==
  ASSUME TypeOK, RunStarts \/ PromptJoins \/ RunPolls
  PROVE  TypeOK'
<1>1. UNCHANGED <<store, waiting, call, flags, job, comp, life, disposal, left, odd>>
  BY DEF RunStarts, PromptJoins, RunPolls
<1>2. /\ agent.queue \in Seq(Queued) /\ agent.msgs \in Seq(Entries) /\ agent.prompt \in Seq(Entries)
      /\ <<>> \in Seq(Entries)
  BY DEF TypeOK, AgentType, Agents
<1>3. agent' \in Agents
  <2>1. CASE RunStarts
    BY <2>1 DEF RunStarts, TypeOK, AgentType, Agents
  <2>2. CASE PromptJoins
    <3>1. agent.msgs \o agent.prompt \in Seq(Entries)
      BY <1>2
    <3>2. agent' = [agent EXCEPT !.msgs = agent.msgs \o agent.prompt, !.prompt = <<>>]
      BY <2>2 DEF PromptJoins
    <3> QED  BY <1>2, <3>1, <3>2 DEF TypeOK, AgentType, Agents
  <2>3. CASE RunPolls /\ agent.queue # <<>> /\ agent' = Takes
    <3>1. <<Head(agent.queue)>> \in Seq(Queued) /\ Tail(agent.queue) \in Seq(Queued)
      BY <1>2, <2>3
    <3>2. agent' = [agent EXCEPT !.fresh = FALSE, !.taken = <<Head(agent.queue)>>, !.queue = Tail(agent.queue)]
      BY <2>3 DEF Takes
    <3> QED  BY <3>1, <3>2 DEF TypeOK, AgentType, Agents
  <2>4. CASE agent' = [agent EXCEPT !.fresh = FALSE]
    BY <2>4 DEF TypeOK, AgentType, Agents
  <2> QED  BY <2>1, <2>2, <2>3, <2>4 DEF RunPolls
<1> QED
  BY <1>1, <1>3
  DEF TypeOK, StoreType, AgentType, WaitType, CallType, FlagType, JobType, CompType, LifeType,
      DisposalType, BoundType

LEMMA TakenBeginsType ==
  ASSUME TypeOK, TakenBegins
  PROVE  TypeOK'
<1>1. /\ agent' = [agent EXCEPT !.begun = TRUE]
      /\ waiting' = [waiting EXCEPT !.displayed = waiting.displayed \ ToSet(agent.taken)]
      /\ UNCHANGED <<store, call, flags, job, comp, life, disposal, left, odd>>
  BY DEF TakenBegins
<1>2. agent' \in Agents
  BY <1>1 DEF TypeOK, AgentType, Agents
<1>3. waiting' \in Waits
  BY <1>1 DEF TypeOK, WaitType, Waits
<1> QED
  BY <1>1, <1>2, <1>3
  DEF TypeOK, StoreType, AgentType, WaitType, CallType, FlagType, JobType, CompType, LifeType,
      DisposalType, BoundType

LEMMA TakenJoinsType ==
  ASSUME TypeOK, TakenJoins
  PROVE  TypeOK'
<1> DEFINE message == Entry("user", 0, Head(agent.taken))
<1>1. agent.taken \in Seq(Queued) /\ agent.taken # <<>> /\ agent.msgs \in Seq(Entries)
  BY DEF TypeOK, AgentType, Agents, TakenJoins
<1>2. Head(agent.taken) \in Queued /\ <<>> \in Seq(Queued)
  BY <1>1
<1>3. message \in Entries /\ Append(store, message) \in Seq(Entries)
  BY <1>2, EntryType DEF TypeOK, Kinds
<1>4. /\ store' = Append(store, message)
      /\ agent' = [agent EXCEPT !.msgs = Append(agent.msgs, message), !.taken = <<>>, !.begun = FALSE]
      /\ UNCHANGED <<waiting, call, flags, job, comp, life, disposal, left, odd>>
  BY DEF TakenJoins
<1> HIDE DEF message
<1>5. Append(agent.msgs, message) \in Seq(Entries)
  BY <1>1, <1>3
<1>6. agent' \in Agents
  BY <1>2, <1>4, <1>5 DEF TypeOK, AgentType, Agents
<1> QED
  BY <1>3, <1>4, <1>6
  DEF TypeOK, StoreType, AgentType, WaitType, CallType, FlagType, JobType, CompType, LifeType,
      DisposalType, BoundType

LEMMA RunEndsType ==
  ASSUME TypeOK, RunEnds
  PROVE  TypeOK'
<1>1. PICK kind \in Assistants :
          /\ IF kind \in {"big", "overflow"} THEN Spend("large") ELSE UNCHANGED left
          /\ store' = Append(store, Entry(kind, 0, None))
          /\ agent' = [agent EXCEPT !.run = None, !.msgs = Append(agent.msgs, Entry(kind, 0, None))]
  BY DEF RunEnds
<1>2. Entry(kind, 0, None) \in Entries /\ Append(store, Entry(kind, 0, None)) \in Seq(Entries)
  BY EntryType DEF TypeOK, Kinds
<1>3. Append(agent.msgs, Entry(kind, 0, None)) \in Seq(Entries)
  BY <1>2 DEF TypeOK, AgentType, Agents
<1>4. agent' \in Agents
  BY <1>1, <1>3 DEF TypeOK, AgentType, Agents
<1>5. /\ flags' = [flags EXCEPT !.pendingEnd = TRUE]
      /\ call' = [c \in Prompts |-> IF c \in Awaiting
                  THEN [call[c] EXCEPT !.pc = IF flags.pendingEnd THEN "failed" ELSE "ran"]
                  ELSE call[c]]
      /\ UNCHANGED <<waiting, job, comp, life, disposal, odd>>
  BY DEF RunEnds
<1>6. flags' \in FlagSets
  BY <1>5 DEF TypeOK, FlagType, FlagSets
<1>7. call' \in [Prompts -> Frames]
  BY <1>5 DEF TypeOK, CallType, Frames
<1>8. BoundType'
  BY <1>1, <1>5, SpendType DEF TypeOK, BoundType
<1> QED
  BY <1>1, <1>2, <1>4, <1>5, <1>6, <1>7, <1>8
  DEF TypeOK, StoreType, AgentType, WaitType, CallType, FlagType, JobType, CompType, LifeType,
      DisposalType

\* A run that fails drops the message it has taken.
LEMMA DropsIs ==
  ASSUME TypeOK, RunFails
  PROVE  /\ waiting' \in Waits /\ waiting'.displayed = waiting.displayed
         /\ \A m \in Queued :
               waiting'.state[m] = IF m \in ToSet(agent.taken) THEN "dropped" ELSE waiting.state[m]
<1>1. waiting' = [waiting EXCEPT !.state = [m \in Queued |->
                     IF m \in ToSet(agent.taken) THEN "dropped" ELSE waiting.state[m]]]
  BY DEF RunFails
<1> QED  BY <1>1 DEF TypeOK, WaitType, Waits

LEMMA RunFailsType ==
  ASSUME TypeOK, RunFails
  PROVE  TypeOK'
<1>1. PICK how \in {"failed", "unclean"} :
          call' = [c \in Prompts |-> IF c \in Awaiting THEN [call[c] EXCEPT !.pc = how] ELSE call[c]]
  BY DEF RunFails
<1>2. call' \in [Prompts -> Frames]
  BY <1>1 DEF TypeOK, CallType, Frames
<1> DEFINE u == agent.unread \cup {e.id : e \in ToSet(agent.prompt)}
<1>3. /\ agent' = [agent EXCEPT !.run = None, !.prompt = <<>>, !.taken = <<>>, !.begun = FALSE, !.unread = u]
      /\ Spend("fault")
      /\ UNCHANGED <<store, flags, job, comp, life, disposal, odd>>
  BY DEF RunFails
<1>4. agent' \in Agents
  <2>1. \A e \in ToSet(agent.prompt) : e.id \in Nat
    <3>1. agent.prompt \in Seq(Entries)
      BY DEF TypeOK, AgentType, Agents
    <3>2. \A e \in ToSet(agent.prompt) : e \in Entries
      BY <3>1 DEF ToSet
    <3> QED  BY <3>2 DEF Entries
  <2>2. u \subseteq Nat /\ <<>> \in Seq(Entries) /\ <<>> \in Seq(Queued)
    BY <2>1 DEF TypeOK, AgentType, Agents
  <2> HIDE DEF u
  <2> QED  BY <1>3, <2>2 DEF TypeOK, AgentType, Agents
<1>5. BoundType'
  BY <1>3, SpendType DEF TypeOK, BoundType
<1>6. waiting' \in Waits
  BY DropsIs
<1> QED
  BY <1>2, <1>3, <1>4, <1>5, <1>6
  DEF TypeOK, StoreType, AgentType, WaitType, CallType, FlagType, JobType, CompType, LifeType,
      DisposalType

\* What a step of a compaction task does.
Committed(j) == Append(store, Entry("compaction", job[j].kept, None))
JobMoves(j) ==
    /\ Alive(j) /\ \A i \in Jobs \ {j} : job'[i] = job[i]
    /\ job'[j].pc # "free" /\ job'[j].manual = job[j].manual
    /\ job'[j].pc = "waiting" => job'[j].waits = flags.settlement
    /\ comp'.current = comp.current
    /\ UNCHANGED <<waiting, call, flags, life, disposal>> /\ odd \subseteq odd'
CutKept(j) ==
    /\ job'[j].kept \in {job[j].kept, FirstToKeep}
    /\ job'[j].pc # "created"
    /\ job'[j].pc \in {"starting", "summarizing"} =>
          /\ UNCHANGED store
          /\ \/ /\ Prepared(j) /\ job'[j].at = job[j].at
                /\ job[j].manual => job[j].pc \in {"starting", "summarizing"}
             \/ /\ job[j].pc = "waiting" /\ job'[j].at = Len(store)
                /\ Settled(job[j].waits) /\ (job[j].waits = None => agent.run # "lost")
JobRewrites(j) ==
    \/ UNCHANGED <<store, agent>>
    \/ UNCHANGED store /\ agent' = Aborted(agent) /\ odd' = odd \cup Loses
    \/ UNCHANGED store /\ Idle /\ agent' = [agent EXCEPT !.msgs = Context(store), !.unread = {}]
    \/ /\ job[j].pc = "summarizing" /\ store' = Committed(j)
       /\ IF Idle THEN agent' = [agent EXCEPT !.msgs = Context(Committed(j)), !.unread = {}]
                  ELSE UNCHANGED agent
JobActs(j) == JobMoves(j) /\ CutKept(j) /\ JobRewrites(j)

LEMMA ToIs ==
  ASSUME TypeOK, NEW j \in Jobs,
         NEW pc \in Over \cup {"starting", "summarizing", "aborting", "failing", "ending"}, To(j, pc)
  PROVE  /\ job' \in [Jobs -> Tasks]
         /\ \A i \in Jobs \ {j} : job'[i] = job[i]
         /\ job'[j].pc = pc /\ job'[j].manual = job[j].manual
         /\ job'[j].kept = job[j].kept /\ job'[j].at = job[j].at
BY DEF TypeOK, JobType, Tasks, To, Over

LEMMA TerminalIs ==
  ASSUME TypeOK, Terminal
  PROVE  comp' \in Comps /\ comp'.current = comp.current
BY DEF TypeOK, CompType, Comps, Terminal

LEMMA LosesIs ==
  ASSUME TypeOK
  PROVE  /\ Loses \subseteq {"lost"} /\ odd \cup Loses \subseteq {"crowded", "lost", "unshown"}
         /\ Aborted(agent) \in Agents
BY AbortType DEF TypeOK, AgentType, BoundType, Loses

LEMMA JobBeginsActs ==
  ASSUME TypeOK, NEW j \in Jobs, JobBegins(j)
  PROVE  TypeOK' /\ JobActs(j)
<1>1. /\ job[j].pc = "created" /\ Alive(j)
      /\ UNCHANGED <<store, waiting, call, flags, comp, life, disposal, left>>
  BY DEF JobBegins, Alive, Over
<1>2. CASE To(j, "cancelled") /\ UNCHANGED <<agent, odd>>
  <2>1. /\ job' \in [Jobs -> Tasks]
        /\ \A i \in Jobs \ {j} : job'[i] = job[i]
        /\ job'[j].pc = "cancelled" /\ job'[j].manual = job[j].manual /\ job'[j].kept = job[j].kept
    BY <1>2, ToIs DEF Over
  <2> QED
    BY <1>1, <1>2, <2>1
    DEF TypeOK, StoreType, AgentType, WaitType, CallType, FlagType, JobType, CompType, LifeType,
        DisposalType, BoundType, JobActs, JobMoves, CutKept, JobRewrites
<1>3. CASE ~job[j].manual /\ To(j, "starting") /\ UNCHANGED <<agent, odd>>
  <2>1. /\ job' \in [Jobs -> Tasks]
        /\ \A i \in Jobs \ {j} : job'[i] = job[i]
        /\ job'[j].pc = "starting" /\ job'[j].manual = job[j].manual
        /\ job'[j].kept = job[j].kept /\ job'[j].at = job[j].at
    BY <1>3, ToIs
  <2> QED
    BY <1>1, <1>3, <2>1
    DEF TypeOK, StoreType, AgentType, WaitType, CallType, FlagType, JobType, CompType, LifeType,
        DisposalType, BoundType, JobActs, JobMoves, CutKept, JobRewrites, Prepared
<1>4. CASE /\ job' = [job EXCEPT ![j].pc = "waiting", ![j].waits = flags.settlement]
           /\ agent' = Aborted(agent) /\ odd' = odd \cup Loses
  <2>1. job' = [job EXCEPT ![j] = [job[j] EXCEPT !.pc = "waiting", !.waits = flags.settlement]]
    BY <1>4 DEF TypeOK, JobType, Tasks
  <2>2. flags.settlement \in Prompts \cup {None} /\ job[j] \in Tasks
    BY DEF TypeOK, FlagType, FlagSets, JobType
  <2>3. [job[j] EXCEPT !.pc = "waiting", !.waits = flags.settlement] \in Tasks
    BY <2>2 DEF Tasks
  <2>4. /\ job' \in [Jobs -> Tasks]
        /\ \A i \in Jobs \ {j} : job'[i] = job[i]
        /\ job'[j].pc = "waiting" /\ job'[j].manual = job[j].manual
        /\ job'[j].kept = job[j].kept /\ job'[j].waits = flags.settlement
    BY <2>1, <2>2, <2>3 DEF TypeOK, JobType, Tasks
  <2> QED
    BY <1>1, <1>4, <2>4, LosesIs
    DEF TypeOK, StoreType, AgentType, WaitType, CallType, FlagType, JobType, CompType, LifeType,
        DisposalType, BoundType, JobActs, JobMoves, CutKept, JobRewrites
<1> QED  BY <1>1, <1>2, <1>3, <1>4 DEF JobBegins

LEMMA ManualProceedsActs ==
  ASSUME TypeOK, NEW j \in Jobs, ManualProceeds(j)
  PROVE  TypeOK' /\ JobActs(j)
<1>1. /\ job[j].pc = "waiting" /\ Alive(j)
      /\ UNCHANGED <<store, agent, waiting, call, flags, comp, life, disposal, left, odd>>
  BY DEF ManualProceeds, Alive, Over
<1>2. ASSUME NEW pc \in {"cancelled", "failed"}, To(j, pc)
      PROVE  TypeOK' /\ JobActs(j)
  <2>1. /\ job' \in [Jobs -> Tasks]
        /\ \A i \in Jobs \ {j} : job'[i] = job[i]
        /\ job'[j].pc = pc /\ job'[j].manual = job[j].manual /\ job'[j].kept = job[j].kept
    BY <1>2, ToIs DEF Over
  <2> QED
    BY <1>1, <1>2, <2>1
    DEF TypeOK, StoreType, AgentType, WaitType, CallType, FlagType, JobType, CompType, LifeType,
        DisposalType, BoundType, JobActs, JobMoves, CutKept, JobRewrites
<1>3. CASE /\ job' = [job EXCEPT ![j].pc = "starting", ![j].kept = FirstToKeep, ![j].at = Len(store)]
           /\ ~job[j].hit /\ (job[j].waits = None => agent.run # "lost")
  <2>1. job' = [job EXCEPT ![j] = [job[j] EXCEPT !.pc = "starting", !.kept = FirstToKeep,
                                                 !.at = Len(store)]]
    BY <1>3 DEF TypeOK, JobType, Tasks
  <2>2. FirstToKeep \in Nat /\ Len(store) \in Nat /\ job[j] \in Tasks
    BY FirstToKeepIs DEF TypeOK, StoreType, JobType
  <2>3. [job[j] EXCEPT !.pc = "starting", !.kept = FirstToKeep, !.at = Len(store)] \in Tasks
    BY <2>2 DEF Tasks
  <2>4. /\ job' \in [Jobs -> Tasks]
        /\ \A i \in Jobs \ {j} : job'[i] = job[i]
        /\ job'[j].pc = "starting" /\ job'[j].manual = job[j].manual
        /\ job'[j].kept = FirstToKeep /\ job'[j].at = Len(store)
    BY <2>1, <2>2, <2>3 DEF TypeOK, JobType, Tasks
  <2>5. Settled(job[j].waits)
    BY <1>3 DEF ManualProceeds
  <2> QED
    BY <1>1, <1>3, <2>4, <2>5
    DEF TypeOK, StoreType, AgentType, WaitType, CallType, FlagType, JobType, CompType, LifeType,
        DisposalType, BoundType, JobActs, JobMoves, CutKept, JobRewrites
<1> QED  BY <1>2, <1>3 DEF ManualProceeds

LEMMA StartShownActs ==
  ASSUME TypeOK, NEW j \in Jobs, StartShown(j)
  PROVE  TypeOK' /\ JobActs(j)
<1>1. /\ job[j].pc = "starting" /\ Alive(j)
      /\ UNCHANGED <<store, agent, waiting, call, flags, life, disposal, odd>>
  BY DEF StartShown, Alive, Over
<1>2. comp' \in Comps /\ comp'.current = comp.current
  BY TerminalIs DEF StartShown, TypeOK, CompType
<1>3. PICK pc \in {"aborting", "summarizing", "broken"} : To(j, pc)
  BY DEF StartShown
<1>4. /\ job' \in [Jobs -> Tasks]
      /\ \A i \in Jobs \ {j} : job'[i] = job[i]
      /\ job'[j].pc = pc /\ job'[j].manual = job[j].manual
      /\ job'[j].kept = job[j].kept /\ job'[j].at = job[j].at
  BY <1>3, ToIs DEF Over
<1>5. BoundType'
  BY <1>1, SpendType DEF TypeOK, BoundType, StartShown
<1> QED
  BY <1>1, <1>2, <1>3, <1>4, <1>5
  DEF TypeOK, StoreType, AgentType, WaitType, CallType, FlagType, JobType, CompType, LifeType,
      DisposalType, JobActs, JobMoves, CutKept, JobRewrites, Prepared

LEMMA SummarizedActs ==
  ASSUME TypeOK, NEW j \in Jobs, Summarized(j)
  PROVE  TypeOK' /\ JobActs(j)
<1>1. /\ job[j].pc = "summarizing" /\ Alive(j)
      /\ UNCHANGED <<waiting, call, flags, life, disposal, odd>>
  BY DEF Summarized, Alive, Over
<1>2. job[j].kept \in Nat /\ Committed(j) \in Seq(Entries)
  <2>1. job[j].kept \in Nat
    BY DEF TypeOK, JobType, Tasks
  <2> QED  BY <2>1, EntryType DEF TypeOK, Committed, Kinds
<1>3. ASSUME NEW pc \in {"aborting", "ending", "failed", "failing"}, To(j, pc)
      PROVE  JobType' /\ (comp'.current = comp.current => JobMoves(j)) /\ CutKept(j)
  <2>1. /\ job' \in [Jobs -> Tasks]
        /\ \A i \in Jobs \ {j} : job'[i] = job[i]
        /\ job'[j].pc = pc /\ job'[j].manual = job[j].manual /\ job'[j].kept = job[j].kept
    BY <1>3, ToIs DEF Over
  <2> QED  BY <1>1, <1>3, <2>1 DEF JobType, JobMoves, CutKept
<1>4. CASE To(j, "aborting") /\ Terminal /\ UNCHANGED <<store, agent, left>>
  BY <1>1, <1>3, <1>4, TerminalIs
  DEF TypeOK, StoreType, AgentType, WaitType, CallType, FlagType, CompType, LifeType,
      DisposalType, BoundType, JobActs, JobRewrites
<1>5. CASE Commit(j) /\ UNCHANGED left
  <2>1. CASE Idle
    <3>1. /\ store' = Committed(j)
          /\ agent' = [agent EXCEPT !.msgs = Context(Committed(j)), !.unread = {}]
          /\ To(j, "ending") /\ comp' = [comp EXCEPT !.terminal = TRUE, !.result = TRUE]
      BY <1>5, <2>1 DEF Commit, Committed, Rebuilt
    <3>2. Context(Committed(j)) \in Seq(Entries)
      BY <1>2, ContextType
    <3>3. agent' \in Agents
      BY <3>1, <3>2 DEF TypeOK, AgentType, Agents
    <3>4. comp' \in Comps /\ comp'.current = comp.current
      BY <3>1 DEF TypeOK, CompType, Comps
    <3>5. JobRewrites(j)
      BY <1>1, <2>1, <3>1 DEF JobRewrites
    <3> QED
      BY <1>1, <1>2, <1>3, <1>5, <3>1, <3>3, <3>4, <3>5
      DEF TypeOK, StoreType, AgentType, WaitType, CallType, FlagType, CompType, LifeType,
          DisposalType, BoundType, JobActs
  <2>2. CASE ~Idle
    <3>1. store' = Committed(j) /\ To(j, "failed") /\ UNCHANGED <<agent, comp>>
      BY <1>5, <2>2 DEF Commit, Committed
    <3> QED
      BY <1>1, <1>2, <1>3, <1>5, <2>2, <3>1
      DEF TypeOK, StoreType, AgentType, WaitType, CallType, FlagType, CompType, LifeType,
          DisposalType, BoundType, JobActs, JobRewrites
  <2> QED  BY <2>1, <2>2
<1>6. CASE Unsummarized(j) /\ Spend("fault")
  <2>1. Context(store) \in Seq(Entries)
    BY ContextType DEF TypeOK, StoreType
  <2>2. agent' \in Agents
    BY <1>6, <2>1 DEF TypeOK, AgentType, Agents, Unsummarized, Rebuilt
  <2>3. JobRewrites(j)
    BY <1>6 DEF JobRewrites, Unsummarized, Rebuilt
  <2>4. BoundType'
    BY <1>1, <1>6, SpendType DEF TypeOK, BoundType
  <2> QED
    BY <1>1, <1>3, <1>6, <2>2, <2>3, <2>4, TerminalIs
    DEF TypeOK, StoreType, AgentType, WaitType, CallType, FlagType, CompType, LifeType,
        DisposalType, JobActs, Unsummarized
<1> QED  BY <1>4, <1>5, <1>6 DEF Summarized

LEMMA JobEndsActs ==
  ASSUME TypeOK, NEW j \in Jobs, JobEnds(j)
  PROVE  TypeOK' /\ JobActs(j)
<1>1. /\ job[j].pc \in {"aborting", "failing", "ending"} /\ Alive(j)
      /\ UNCHANGED <<store, agent, waiting, call, flags, comp, life, disposal, odd>>
  BY DEF JobEnds, Alive, Over
<1>2. PICK pc \in Over : To(j, pc)
  BY <1>1 DEF JobEnds, Over
<1>3. /\ job' \in [Jobs -> Tasks]
      /\ \A i \in Jobs \ {j} : job'[i] = job[i]
      /\ job'[j].pc = pc /\ job'[j].manual = job[j].manual /\ job'[j].kept = job[j].kept
  BY <1>2, ToIs
<1>4. BoundType'
  BY <1>1, SpendType DEF TypeOK, BoundType, JobEnds
<1> QED
  BY <1>1, <1>2, <1>3, <1>4
  DEF TypeOK, StoreType, AgentType, WaitType, CallType, FlagType, JobType, CompType, LifeType,
      DisposalType, JobActs, JobMoves, CutKept, JobRewrites, Over

LEMMA CompactReturnsType ==
  ASSUME TypeOK, NEW j \in Jobs, CompactReturns(j)
  PROVE  /\ TypeOK' /\ job[j].manual /\ ~Alive(j) /\ job' = FreeSlot(j)
         /\ comp'.current = Forget(j).current
         /\ UNCHANGED <<store, agent, waiting, call, flags, life, disposal, odd>>
<1>1. /\ job[j].manual /\ job[j].pc \in Over /\ job' = FreeSlot(j)
      /\ comp' = IF comp.current = j THEN [Forget(j) EXCEPT !.result = FALSE] ELSE comp
      /\ UNCHANGED <<store, agent, waiting, call, flags, life, disposal, left, odd>>
  BY DEF CompactReturns
<1>2. Forget(j) \in Comps /\ job' \in [Jobs -> Tasks]
  BY <1>1, SlotTypes DEF TypeOK
<1>3. comp.current # j => Forget(j) = comp
  BY DEF Forget
<1>4. comp' \in Comps /\ comp'.current = Forget(j).current
  BY <1>1, <1>2, <1>3 DEF TypeOK, CompType, Comps
<1> QED
  BY <1>1, <1>2, <1>4
  DEF TypeOK, StoreType, AgentType, WaitType, CallType, FlagType, JobType, CompType, LifeType,
      DisposalType, BoundType, Alive

LEMMA JobStepActs ==
  ASSUME TypeOK, NEW j \in Jobs, JobStep(j)
  PROVE  TypeOK' /\ (JobActs(j) \/ CompactReturns(j))
BY JobBeginsActs, ManualProceedsActs, StartShownActs, SummarizedActs, JobEndsActs,
   CompactReturnsType DEF JobStep

----------------------------------------------------------------------------
(* What the other calls and the disposal do.                               *)

CallsSame == \A c \in Prompts : call'[c].pc = call[c].pc /\ call'[c].job = call[c].job
JobSame(j) == job'[j] = [job[j] EXCEPT !.hit = job'[j].hit]
JobsSame == comp'.current = comp.current /\ \A j \in Jobs : JobSame(j)
AgentAborts == agent' = Aborted(agent) /\ odd' = odd \cup Loses

LEMMA CancelledSame ==
  ASSUME TypeOK, comp' = CancelledComp, job' = CancelledJob
  PROVE  JobType' /\ CompType' /\ JobsSame
<1>1. JobType' /\ CompType'
  BY CancelTypes DEF TypeOK, JobType, CompType
<1>2. comp'.current = comp.current
  BY DEF TypeOK, CompType, Comps, CancelledComp
<1>3. ASSUME NEW j \in Jobs PROVE JobSame(j)
  BY DEF TypeOK, JobType, Tasks, CancelledJob, JobSame
<1> QED  BY <1>1, <1>2, <1>3 DEF JobsSame

LEMMA UncancelledSame ==
  ASSUME TypeOK, UNCHANGED <<comp, job>>
  PROVE  JobType' /\ CompType' /\ JobsSame
BY DEF TypeOK, JobType, CompType, Tasks, JobSame, JobsSame

LEMMA AbortsType ==
  ASSUME TypeOK, AgentAborts, UNCHANGED left
  PROVE  AgentType' /\ BoundType'
BY LosesIs DEF TypeOK, AgentType, BoundType, AgentAborts

LEMMA CancelPromptActs ==
  ASSUME TypeOK, NEW c \in Prompts, CancelPrompt(c)
  PROVE  /\ TypeOK' /\ CallsSame /\ JobsSame /\ UNCHANGED <<store, waiting, flags, life, disposal, odd>>
         /\ agent' = [agent EXCEPT !.aborted = agent'.aborted]
<1>1. /\ call' = [call EXCEPT ![c].hit = TRUE]
      /\ UNCHANGED <<store, waiting, flags, life, disposal, odd>>
  BY DEF CancelPrompt
<1>2. CallType' /\ CallsSame
  <2>1. CallType'
    BY <1>1, FrameTypes DEF TypeOK, CallType, Places
  <2> QED  BY <1>1, <2>1 DEF TypeOK, CallType, Frames, CallsSame
<1>3. AgentType' /\ agent' = [agent EXCEPT !.aborted = agent'.aborted]
  BY DEF CancelPrompt, TypeOK, AgentType, Agents
<1>4. JobType' /\ CompType' /\ JobsSame
  BY CancelledSame, UncancelledSame DEF CancelPrompt
<1>5. BoundType'
  BY <1>1, SpendType DEF TypeOK, BoundType, CancelPrompt
<1> QED
  BY <1>1, <1>2, <1>3, <1>4, <1>5
  DEF TypeOK, StoreType, WaitType, FlagType, LifeType, DisposalType

LEMMA CompactType ==
  ASSUME TypeOK, Compact
  PROVE  /\ TypeOK' /\ Open /\ ~IsCompacting /\ \E j \in Jobs : NewJob(j, TRUE)
         /\ UNCHANGED <<store, agent, waiting, call, flags, life, disposal, odd>>
<1>1. /\ Open /\ ~IsCompacting /\ Spend("compact")
      /\ UNCHANGED <<store, agent, waiting, call, flags, life, disposal, odd>>
  BY DEF Compact
<1>2. PICK j \in Jobs : NewJob(j, TRUE)
  BY DEF Compact
<1>3. JobType' /\ CompType'
  BY <1>2, NewJobType DEF TypeOK, JobType, CompType
<1>4. BoundType'
  BY <1>1, SpendType DEF TypeOK, BoundType
<1> QED
  BY <1>1, <1>2, <1>3, <1>4
  DEF TypeOK, StoreType, AgentType, WaitType, CallType, FlagType, LifeType, DisposalType

LEMMA AbortCompactionActs ==
  ASSUME TypeOK, AbortCompaction
  PROVE  /\ TypeOK' /\ JobsSame
         /\ UNCHANGED <<store, agent, waiting, call, flags, life, disposal, odd>>
<1>1. /\ comp' = CancelledComp /\ job' = CancelledJob /\ Spend("cancel")
      /\ UNCHANGED <<store, agent, waiting, call, flags, life, disposal, odd>>
  BY DEF AbortCompaction
<1>2. BoundType'
  BY <1>1, SpendType DEF TypeOK, BoundType
<1> QED
  BY <1>1, <1>2, CancelledSame
  DEF TypeOK, StoreType, AgentType, WaitType, CallType, FlagType, LifeType, DisposalType

LEMMA AbortActs ==
  ASSUME TypeOK, Abort
  PROVE  /\ TypeOK' /\ JobsSame /\ AgentAborts /\ UNCHANGED <<store, waiting, call, life, disposal>>
         /\ ~life.disposed
         /\ flags'.settlement = flags.settlement /\ (flags'.pendingEnd => flags.pendingEnd)
<1>1. /\ comp' = CancelledComp /\ job' = CancelledJob /\ Spend("cancel") /\ AgentAborts
      /\ UNCHANGED <<store, waiting, call, life, disposal>> /\ ~life.disposed
  BY DEF Abort, AgentAborts
<1>2. FlagType' /\ flags'.settlement = flags.settlement /\ (flags'.pendingEnd => flags.pendingEnd)
  <2>1. PICK b, d, e \in BOOLEAN :
           flags' = [flags EXCEPT !.cancel = b, !.pendingEnd = d, !.truncated = e] /\ (d => flags.pendingEnd)
    <3>1. flags' = [flags EXCEPT !.cancel = @ \/ flags.settlement # None,
                                 !.pendingEnd = @ /\ ~comp.result,
                                 !.truncated = @ \/ comp.result]
      BY DEF Abort
    <3>2. /\ (flags.cancel \/ flags.settlement # None) \in BOOLEAN
          /\ (flags.pendingEnd /\ ~comp.result) \in BOOLEAN
          /\ (flags.truncated \/ comp.result) \in BOOLEAN
      OBVIOUS
    <3> QED  BY <3>1, <3>2, Zenon
  <2> QED  BY <2>1 DEF TypeOK, FlagType, FlagSets
<1>3. AgentType' /\ BoundType'
  BY <1>1, LosesIs, SpendType DEF TypeOK, AgentType, BoundType, AgentAborts
<1> QED
  BY <1>1, <1>2, <1>3, CancelledSame
  DEF TypeOK, StoreType, WaitType, CallType, LifeType, DisposalType

LEMMA ReloadType ==
  ASSUME TypeOK, Reload \/ ReloadEnds
  PROVE  /\ TypeOK' /\ UNCHANGED <<store, agent, waiting, call, flags, job, comp, disposal, odd>>
         /\ life' = [life EXCEPT !.reloading = life'.reloading]
         /\ life'.reloading => Open
<1>1. UNCHANGED <<store, agent, waiting, call, flags, job, comp, disposal, odd>>
  BY DEF Reload, ReloadEnds
<1>2. BoundType'
  BY <1>1, SpendType DEF TypeOK, BoundType, Reload, ReloadEnds
<1>3. /\ LifeType' /\ life' = [life EXCEPT !.reloading = life'.reloading]
      /\ life'.reloading => Open
  BY DEF TypeOK, LifeType, Reload, ReloadEnds
<1> QED
  BY <1>1, <1>2, <1>3
  DEF TypeOK, StoreType, AgentType, WaitType, CallType, FlagType, JobType, CompType, DisposalType

LEMMA EnqueueType ==
  ASSUME TypeOK, NEW m \in Queued, Enqueue(m)
  PROVE  TypeOK'
<1>1. /\ waiting' = [waiting EXCEPT !.displayed = @ \cup {m}, !.state[m] = "shown"]
      /\ UNCHANGED <<store, agent, call, flags, job, comp, life, disposal, odd>>
      /\ Spend("queue")
  BY DEF Enqueue
<1>2. waiting' \in Waits
  BY <1>1 DEF TypeOK, WaitType, Waits
<1>3. BoundType'
  BY <1>1, SpendType DEF TypeOK, BoundType
<1> QED
  BY <1>1, <1>2, <1>3
  DEF TypeOK, StoreType, AgentType, WaitType, CallType, FlagType, JobType, CompType, LifeType, DisposalType

LEMMA EnqueueShownType ==
  ASSUME TypeOK, NEW m \in Queued, EnqueueShown(m)
  PROVE  TypeOK'
<1>1. UNCHANGED <<store, call, flags, job, comp, life, disposal, odd>>
  BY DEF EnqueueShown
<1>2. PICK s \in {"queued", "failed", "cleared"} : waiting' = [waiting EXCEPT !.state[m] = s]
  BY DEF EnqueueShown
<1>3. waiting' \in Waits
  BY <1>2 DEF TypeOK, WaitType, Waits
<1>4. agent' \in Agents
  <2>1. Append(agent.queue, m) \in Seq(Queued)
    BY DEF TypeOK, AgentType, Agents
  <2>2. agent' = agent \/ agent' = [agent EXCEPT !.queue = Append(agent.queue, m)]
    BY DEF EnqueueShown
  <2> QED  BY <2>1, <2>2 DEF TypeOK, AgentType, Agents
<1>5. BoundType'
  BY <1>1, SpendType DEF TypeOK, BoundType, EnqueueShown
<1> QED
  BY <1>1, <1>3, <1>4, <1>5
  DEF TypeOK, StoreType, AgentType, WaitType, CallType, FlagType, JobType, CompType, LifeType, DisposalType

\* How _clear_queued_messages leaves a message.
ClearedState(m) ==
    CASE waiting.state[m] = "shown" -> "cut"
      [] waiting.state[m] = "failed" \/ m \in ToSet(agent.queue) -> "cleared"
      [] m \in ToSet(agent.taken) \cap waiting.displayed -> "late"
      [] OTHER -> waiting.state[m]

LEMMA ClearMessagesIs ==
  ASSUME TypeOK, ClearMessages
  PROVE  /\ WaitType' /\ waiting'.displayed = {}
         /\ \A m \in Queued : waiting'.state[m] = ClearedState(m)
<1>1. waiting' = [displayed |-> {}, state |-> [m \in Queued |-> ClearedState(m)]]
  BY DEF ClearMessages, ClearedState
<1>2. \A m \in Queued :
         ClearedState(m) \in {"new", "shown", "queued", "failed", "cut", "cleared", "late", "dropped"}
  BY DEF ClearedState, TypeOK, WaitType, Waits
<1> QED  BY <1>1, <1>2 DEF WaitType, Waits

LEMMA UnqueuedType ==
  ASSUME TypeOK, agent' = [agent EXCEPT !.queue = <<>>]
  PROVE  AgentType'
<1>1. <<>> \in Seq(Queued)
  OBVIOUS
<1> QED  BY <1>1 DEF TypeOK, AgentType, Agents

LEMMA ClearQueueType ==
  ASSUME TypeOK, ClearQueue
  PROVE  TypeOK'
<1>1. /\ ClearMessages /\ agent' = [agent EXCEPT !.queue = <<>>]
      /\ UNCHANGED <<store, call, flags, job, comp, life, disposal, left, odd>>
  BY DEF ClearQueue
<1> QED
  BY <1>1, ClearMessagesIs, UnqueuedType
  DEF TypeOK, StoreType, CallType, FlagType, JobType, CompType, LifeType, DisposalType, BoundType

LEMMA DisposeType ==
  ASSUME TypeOK, Dispose
  PROVE  TypeOK'
<1>1. /\ life' = [life EXCEPT !.closing = TRUE]
      /\ disposal' = [disposal EXCEPT !.pc = "begun"]
      /\ UNCHANGED <<store, agent, waiting, call, flags, job, comp, left, odd>>
  BY DEF Dispose
<1> QED
  BY <1>1
  DEF TypeOK, StoreType, AgentType, WaitType, CallType, FlagType, JobType, CompType, LifeType,
      DisposalType, BoundType

\* What the disposal awaits next.
ToCompaction == IsCompacting /\ disposal'.pc = "compaction" /\ disposal'.job = comp.current
ToReload == life.reloading /\ disposal'.pc = "reload"
ToPrompt == ~life.reloading /\ disposal'.pc = "prompt" /\ disposal'.waits = flags.settlement
Awaits ==
    /\ AgentType' /\ DisposalType' /\ disposal'.cleared
    /\ ToCompaction \/ (~IsCompacting /\ (ToReload \/ ToPrompt))
    /\ UNCHANGED <<agent, odd>> \/ AgentAborts

LEMMA AwaitReloadIs ==
  ASSUME TypeOK, AwaitReload(agent)
  PROVE  /\ AgentType' /\ DisposalType' /\ disposal'.cleared
         /\ ToReload \/ ToPrompt
         /\ UNCHANGED <<agent, odd>> \/ AgentAborts
<1>1. CASE life.reloading
  BY <1>1 DEF AwaitReload, TypeOK, AgentType, DisposalType, ToReload
<1>2. CASE ~life.reloading
  <2>1. /\ disposal' = [disposal EXCEPT !.pc = "prompt", !.job = 0, !.cleared = TRUE,
                                        !.waits = flags.settlement]
        /\ AgentAborts
    BY <1>2 DEF AwaitReload, AwaitPrompt, AgentAborts
  <2>2. DisposalType' /\ disposal'.cleared /\ ToPrompt
    BY <1>2, <2>1 DEF TypeOK, DisposalType, FlagType, FlagSets, ToPrompt
  <2>3. AgentType'
    BY <2>1, LosesIs DEF AgentType, AgentAborts
  <2> QED  BY <2>1, <2>2, <2>3
<1> QED  BY <1>1, <1>2

LEMMA AwaitCompactionIs ==
  ASSUME TypeOK, AwaitCompaction(agent)
  PROVE  Awaits /\ JobType' /\ CompType' /\ JobsSame
<1>1. CASE IsCompacting
  <2>1. /\ disposal' = [disposal EXCEPT !.pc = "compaction", !.job = comp.current, !.cleared = TRUE]
        /\ comp' = CancelledComp /\ job' = CancelledJob /\ UNCHANGED <<agent, odd>>
    BY <1>1 DEF AwaitCompaction
  <2>2. DisposalType' /\ disposal'.cleared /\ ToCompaction
    BY <1>1, <2>1 DEF TypeOK, DisposalType, CompType, Comps, ToCompaction
  <2> QED  BY <2>1, <2>2, CancelledSame DEF TypeOK, AgentType, Awaits
<1>2. CASE ~IsCompacting
  BY <1>2, AwaitReloadIs, UncancelledSame DEF AwaitCompaction, Awaits
<1> QED  BY <1>1, <1>2

LEMMA OddType ==
  ASSUME TypeOK, UNCHANGED <<agent, odd>> \/ AgentAborts, UNCHANGED left
  PROVE  BoundType' /\ odd \subseteq odd'
BY LosesIs DEF TypeOK, BoundType, AgentAborts

LEMMA DisposalBeginsType ==
  ASSUME TypeOK, DisposalBegins
  PROVE  /\ TypeOK' /\ JobsSame /\ UNCHANGED <<store, call, flags, life>>
         /\ \/ Awaits /\ disposal.cleared /\ UNCHANGED waiting
            \/ /\ disposal' = [disposal EXCEPT !.pc = "queues"]
               /\ ClearMessages /\ agent' = [agent EXCEPT !.queue = <<>>] /\ UNCHANGED odd
<1>1. UNCHANGED <<store, call, flags, life, left>>
  BY DEF DisposalBegins
<1>2. CASE disposal.cleared
  <2>1. AwaitCompaction(agent) /\ UNCHANGED waiting
    BY <1>2 DEF DisposalBegins
  <2>2. Awaits /\ JobType' /\ CompType' /\ JobsSame
    BY <2>1, AwaitCompactionIs
  <2>3. BoundType'
    BY <1>1, <2>2, OddType DEF Awaits
  <2> QED
    BY <1>1, <1>2, <2>1, <2>2, <2>3
    DEF TypeOK, StoreType, WaitType, CallType, FlagType, LifeType, Awaits
<1>3. CASE ~disposal.cleared
  <2>1. /\ ClearMessages /\ agent' = [agent EXCEPT !.queue = <<>>]
        /\ disposal' = [disposal EXCEPT !.pc = "queues"]
        /\ UNCHANGED <<comp, job, odd>>
    BY <1>3 DEF DisposalBegins
  <2>2. DisposalType'
    BY <2>1 DEF TypeOK, DisposalType
  <2>3. BoundType'
    BY <1>1, <2>1 DEF TypeOK, BoundType
  <2> QED
    BY <1>1, <2>1, <2>2, <2>3, ClearMessagesIs, UnqueuedType, UncancelledSame
    DEF TypeOK, StoreType, CallType, FlagType, LifeType
<1> QED  BY <1>2, <1>3

LEMMA DisposalQueuesShownType ==
  ASSUME TypeOK, DisposalQueuesShown
  PROVE  /\ TypeOK' /\ JobsSame /\ UNCHANGED <<store, waiting, call, flags, life>>
         /\ Awaits /\ disposal.pc = "queues"
<1>1. /\ UNCHANGED <<store, waiting, call, flags, life, left>>
      /\ AwaitCompaction(agent) /\ disposal.pc = "queues"
  BY DEF DisposalQueuesShown
<1>2. Awaits /\ JobType' /\ CompType' /\ JobsSame
  BY <1>1, AwaitCompactionIs
<1>3. BoundType'
  BY <1>1, <1>2, OddType DEF Awaits
<1> QED
  BY <1>1, <1>2, <1>3 DEF TypeOK, StoreType, WaitType, CallType, FlagType, LifeType, Awaits

LEMMA DisposalAwaitedType ==
  ASSUME TypeOK, DisposalAwaited
  PROVE  /\ TypeOK' /\ UNCHANGED <<store, waiting, call, flags, job, comp, life>>
         /\ UNCHANGED <<agent, odd>> \/ AgentAborts
         /\ \/ /\ disposal.pc = "compaction" /\ ~Alive(disposal.job) /\ (ToReload \/ ToPrompt)
               /\ disposal'.cleared
            \/ disposal.pc = "reload" /\ ToPrompt /\ disposal'.cleared
            \/ /\ disposal.pc = "prompt" /\ Settled(disposal.waits)
               /\ disposal' = [disposal EXCEPT !.pc = "extensions", !.waits = None]
               /\ UNCHANGED <<agent, odd>>
<1>1. UNCHANGED <<store, waiting, call, flags, job, comp, life, left>>
  BY DEF DisposalAwaited
<1>2. CASE disposal.pc = "compaction" /\ ~Alive(disposal.job) /\ AwaitReload(agent)
  <2>1. /\ AgentType' /\ DisposalType' /\ disposal'.cleared
        /\ ToReload \/ ToPrompt
        /\ UNCHANGED <<agent, odd>> \/ AgentAborts
    BY <1>2, AwaitReloadIs
  <2>2. BoundType'
    BY <1>1, <2>1, OddType
  <2> QED
    BY <1>1, <1>2, <2>1, <2>2
    DEF TypeOK, StoreType, WaitType, CallType, FlagType, JobType, CompType, LifeType
<1>3. CASE disposal.pc = "reload" /\ ~life.reloading /\ AwaitPrompt(agent)
  <2>1. AwaitReload(agent)
    BY <1>3 DEF AwaitReload
  <2>2. /\ AgentType' /\ DisposalType' /\ disposal'.cleared
        /\ ToReload \/ ToPrompt
        /\ UNCHANGED <<agent, odd>> \/ AgentAborts
    BY <2>1, AwaitReloadIs
  <2>3. ToPrompt
    BY <1>3, <2>2 DEF ToReload
  <2>4. BoundType'
    BY <1>1, <2>2, OddType
  <2> QED
    BY <1>1, <1>3, <2>2, <2>4, <2>3
    DEF TypeOK, StoreType, WaitType, CallType, FlagType, JobType, CompType, LifeType
<1>4. CASE /\ disposal.pc = "prompt" /\ Settled(disposal.waits)
           /\ disposal' = [disposal EXCEPT !.pc = "extensions", !.waits = None]
           /\ UNCHANGED <<agent, odd>>
  BY <1>1, <1>4
  DEF TypeOK, StoreType, AgentType, WaitType, CallType, FlagType, JobType, CompType, LifeType,
      DisposalType, BoundType
<1> QED  BY <1>2, <1>3, <1>4 DEF DisposalAwaited

LEMMA DisposalEndsType ==
  ASSUME TypeOK, DisposalEnds
  PROVE  /\ TypeOK' /\ UNCHANGED <<store, agent, waiting, call, job, comp, odd>>
         /\ disposal.pc = "extensions" /\ disposal' = [disposal EXCEPT !.pc = None]
         /\ flags'.settlement = flags.settlement /\ (flags'.pendingEnd => flags.pendingEnd)
         /\ life' = [life EXCEPT !.disposed = life'.disposed]
<1>1. /\ disposal.pc = "extensions" /\ disposal' = [disposal EXCEPT !.pc = None]
      /\ UNCHANGED <<store, agent, waiting, call, job, comp, odd>>
  BY DEF DisposalEnds
<1>2. /\ LifeType' /\ FlagType' /\ life' = [life EXCEPT !.disposed = life'.disposed]
      /\ flags'.settlement = flags.settlement /\ (flags'.pendingEnd => flags.pendingEnd)
  BY DEF DisposalEnds, TypeOK, LifeType, FlagType, FlagSets
<1>3. BoundType'
  BY <1>1, SpendType DEF TypeOK, BoundType, DisposalEnds
<1>4. DisposalType'
  BY <1>1 DEF TypeOK, DisposalType
<1> QED
  BY <1>1, <1>2, <1>3, <1>4
  DEF TypeOK, StoreType, AgentType, WaitType, CallType, JobType, CompType

----------------------------------------------------------------------------
(* The kinds of steps. A quiet step moves no prompt, no compaction task, no *)
(* run and no message of the transcript or the store.                      *)

Quiet ==
    /\ CallsSame /\ JobsSame /\ UNCHANGED store /\ odd \subseteq odd'
    /\ flags'.settlement = flags.settlement /\ (flags'.pendingEnd => flags.pendingEnd)
    /\ agent'.msgs = agent.msgs /\ agent'.prompt = agent.prompt /\ agent'.taken = agent.taken
    /\ agent'.begun = agent.begun /\ agent'.unread = agent.unread
    /\ agent'.run = agent.run \/ (agent.run = "launched" /\ agent'.run = "lost" /\ "lost" \in odd')

LEMMA QuietAgent ==
  ASSUME TypeOK, UNCHANGED <<agent, odd>> \/ AgentAborts
         \/ (agent' = [agent EXCEPT !.queue = agent'.queue] /\ UNCHANGED odd)
         \/ (agent' = [agent EXCEPT !.aborted = agent'.aborted] /\ UNCHANGED odd)
  PROVE  /\ agent'.msgs = agent.msgs /\ agent'.prompt = agent.prompt /\ agent'.taken = agent.taken
         /\ agent'.begun = agent.begun /\ agent'.unread = agent.unread
         /\ agent'.run = agent.run \/ (agent.run = "launched" /\ agent'.run = "lost" /\ "lost" \in odd')
         /\ odd \subseteq odd'
BY DEF TypeOK, AgentType, Agents, AgentAborts, Aborted, Loses

LEMMA QuietCalls ==
  ASSUME TypeOK, UNCHANGED call
  PROVE  CallsSame
BY DEF CallsSame

LEMMA QuietDisposal ==
  ASSUME TypeOK, DisposalStep
  PROVE  TypeOK' /\ Quiet
<1>1. CASE DisposalBegins
  <2>1. /\ TypeOK' /\ JobsSame /\ UNCHANGED <<store, call, flags, life>>
        /\ \/ Awaits
           \/ agent' = [agent EXCEPT !.queue = <<>>] /\ UNCHANGED odd
    BY <1>1, DisposalBeginsType
  <2>2. UNCHANGED <<agent, odd>> \/ AgentAborts
         \/ (agent' = [agent EXCEPT !.queue = agent'.queue] /\ UNCHANGED odd)
    BY <2>1 DEF Awaits, TypeOK, AgentType, Agents
  <2> QED  BY <2>1, <2>2, QuietAgent, QuietCalls DEF Quiet
<1>2. CASE DisposalQueuesShown
  <2>1. /\ TypeOK' /\ JobsSame /\ UNCHANGED <<store, call, flags, life>>
        /\ UNCHANGED <<agent, odd>> \/ AgentAborts
    BY <1>2, DisposalQueuesShownType DEF Awaits
  <2> QED  BY <2>1, QuietAgent, QuietCalls DEF Quiet
<1>3. CASE DisposalAwaited
  <2>1. /\ TypeOK' /\ UNCHANGED <<store, call, flags, job, comp>>
        /\ UNCHANGED <<agent, odd>> \/ AgentAborts
    BY <1>3, DisposalAwaitedType
  <2> QED  BY <2>1, QuietAgent, QuietCalls, UncancelledSame DEF Quiet
<1>4. CASE DisposalEnds
  <2>1. /\ TypeOK' /\ UNCHANGED <<store, agent, call, job, comp, odd>>
        /\ flags'.settlement = flags.settlement /\ (flags'.pendingEnd => flags.pendingEnd)
    BY <1>4, DisposalEndsType
  <2> QED  BY <2>1, QuietAgent, QuietCalls, UncancelledSame DEF Quiet
<1> QED  BY <1>1, <1>2, <1>3, <1>4 DEF DisposalStep

LEMMA QuietOthers ==
  ASSUME TypeOK,
         \/ \E c \in Prompts : CancelPrompt(c)
         \/ \E m \in Queued : Enqueue(m) \/ EnqueueShown(m)
         \/ AbortCompaction \/ Abort \/ ClearQueue \/ Reload \/ ReloadEnds \/ Dispose
         \/ UNCHANGED vars
  PROVE  TypeOK' /\ Quiet
<1>1. CASE \E c \in Prompts : CancelPrompt(c)
  <2>1. PICK c \in Prompts : CancelPrompt(c)
    BY <1>1
  <2>2. /\ TypeOK' /\ CallsSame /\ JobsSame /\ UNCHANGED <<store, flags, odd>>
        /\ agent' = [agent EXCEPT !.aborted = agent'.aborted]
    BY <2>1, CancelPromptActs
  <2> QED  BY <2>2, QuietAgent DEF Quiet
<1>2. ASSUME NEW m \in Queued, Enqueue(m) PROVE TypeOK' /\ Quiet
  <2>1. UNCHANGED <<store, agent, call, flags, job, comp, life, disposal, odd>>
    BY <1>2 DEF Enqueue
  <2> QED  BY <1>2, <2>1, EnqueueType, QuietAgent, QuietCalls, UncancelledSame DEF Quiet
<1>3. ASSUME NEW m \in Queued, EnqueueShown(m) PROVE TypeOK' /\ Quiet
  <2>1. UNCHANGED <<store, call, flags, job, comp, life, disposal, odd>>
    BY <1>3 DEF EnqueueShown
  <2>2. agent' = [agent EXCEPT !.queue = agent'.queue]
    BY <1>3 DEF EnqueueShown, TypeOK, AgentType, Agents
  <2> QED  BY <1>3, <2>1, <2>2, EnqueueShownType, QuietAgent, QuietCalls, UncancelledSame DEF Quiet
<1>4. CASE AbortCompaction
  BY <1>4, AbortCompactionActs, QuietAgent, QuietCalls DEF Quiet
<1>5. CASE Abort
  BY <1>5, AbortActs, QuietAgent, QuietCalls DEF Quiet
<1>6. CASE ClearQueue
  <2>1. /\ UNCHANGED <<store, call, flags, job, comp, life, disposal, odd>>
        /\ agent' = [agent EXCEPT !.queue = <<>>]
    BY <1>6 DEF ClearQueue
  <2>2. agent' = [agent EXCEPT !.queue = agent'.queue]
    BY <2>1 DEF TypeOK, AgentType, Agents
  <2> QED  BY <1>6, <2>1, <2>2, ClearQueueType, QuietAgent, QuietCalls, UncancelledSame DEF Quiet
<1>7. CASE Reload \/ ReloadEnds
  BY <1>7, ReloadType, QuietAgent, QuietCalls, UncancelledSame DEF Quiet
<1>8. CASE Dispose
  <2>1. UNCHANGED <<store, agent, call, flags, job, comp, odd>>
    BY <1>8 DEF Dispose
  <2> QED  BY <1>8, <2>1, DisposeType, QuietAgent, QuietCalls, UncancelledSame DEF Quiet
<1>9. CASE UNCHANGED vars
  <2>1. UNCHANGED <<store, agent, waiting, call, flags, job, comp, life, disposal, left, odd>>
    BY <1>9 DEF vars
  <2>2. TypeOK'
    BY <2>1
    DEF TypeOK, StoreType, AgentType, WaitType, CallType, FlagType, JobType, CompType, LifeType,
        DisposalType, BoundType
  <2> QED  BY <2>1, <2>2, QuietAgent, QuietCalls, UncancelledSame DEF Quiet
<1> QED  BY <1>1, <1>2, <1>3, <1>4, <1>5, <1>6, <1>7, <1>8, <1>9

LEMMA StepKinds ==
  ASSUME TypeOK, Owned, [Next]_vars
  PROVE  /\ TypeOK'
         /\ \/ \E c \in Prompts : (PromptActs(c) /\ LeavesLost(c)) \/ CallActs(c)
            \/ \E j \in Jobs : JobActs(j) \/ CompactReturns(j)
            \/ RunStep \/ Compact \/ Quiet
<1>1. ASSUME NEW c \in Prompts, PromptStep(c) PROVE TypeOK' /\ PromptActs(c) /\ LeavesLost(c)
  BY <1>1, PromptStepActs
<1>2. ASSUME NEW c \in Prompts, CallPrompt(c) PROVE TypeOK' /\ CallActs(c)
  BY <1>2, CallPromptActs
<1>3. ASSUME NEW j \in Jobs, JobStep(j) PROVE TypeOK' /\ (JobActs(j) \/ CompactReturns(j))
  BY <1>3, JobStepActs
<1>4. CASE RunStep
  BY <1>4, RunBeginsType, TakenBeginsType, TakenJoinsType, RunEndsType, RunFailsType DEF RunStep
<1>5. CASE Compact
  BY <1>5, CompactType
<1>6. CASE DisposalStep
  BY <1>6, QuietDisposal
<1> QED
  BY <1>1, <1>2, <1>3, <1>4, <1>5, <1>6, QuietOthers DEF Next, Progress, Calls

----------------------------------------------------------------------------
(* Prompts, runs and compactions exclude each other.                       *)

LEMMA NewJobIs ==
  ASSUME TypeOK, NEW j \in Jobs, NEW manual \in BOOLEAN, NewJob(j, manual)
  PROVE  /\ job[j].pc = "free" /\ \A i \in Jobs \ {j} : job'[i] = job[i]
         /\ job'[j].pc = "created" /\ job'[j].manual = manual /\ job'[j].at = Len(store)
         /\ job'[j].kept \in {0, FirstToKeep}
         /\ comp'.current = j /\ disposal.job # j
BY DEF TypeOK, JobType, Tasks, NewJob

LEMMA FreeSlotIs ==
  ASSUME TypeOK, NEW j \in Jobs, job' = FreeSlot(j)
  PROVE  /\ \A i \in Jobs \ {j} : job'[i] = job[i]
         /\ job'[j].pc = "free" /\ ~job'[j].manual /\ job'[j].kept = 0
BY DEF TypeOK, JobType, Tasks, FreeSlot

LEMMA ForgetIs ==
  ASSUME TypeOK, NEW j \in Jobs
  PROVE  Forget(j).current = IF comp.current = j THEN 0 ELSE comp.current
BY DEF TypeOK, CompType, Comps, Forget

LEMMA JobsSameIs ==
  ASSUME TypeOK, JobsSame, NEW j \in Jobs
  PROVE  /\ job'[j].pc = job[j].pc /\ job'[j].manual = job[j].manual
         /\ job'[j].waits = job[j].waits /\ job'[j].kept = job[j].kept /\ job'[j].at = job[j].at
<1>1. job[j] \in Tasks
  BY DEF TypeOK, JobType
<1>2. job'[j] = [job[j] EXCEPT !.hit = job'[j].hit]
  BY DEF JobsSame, JobSame
<1> QED  BY <1>1, <1>2 DEF Tasks

\* What a step of the run does to the prompts and the tasks.
LEMMA RunStepIs ==
  ASSUME TypeOK, RunStep
  PROVE  /\ agent.run \in {"launched", "running"} /\ agent'.run \in {None, "running"}
         /\ UNCHANGED <<job, comp, life, disposal, odd>> /\ flags'.settlement = flags.settlement
         /\ \A c \in Prompts : /\ call'[c].job = call[c].job
                               /\ call[c].pc # "run" => call'[c].pc = call[c].pc
                               /\ call[c].pc = "run" => call'[c].pc \in {"run", "ran", "failed", "unclean"}
                               /\ agent'.run # None => call'[c].pc = call[c].pc
<1>1. CASE RunStarts \/ PromptJoins \/ RunPolls
  <2>1. /\ agent.run \in {"launched", "running"} /\ agent'.run = "running"
        /\ UNCHANGED <<call, flags, job, comp, life, disposal, odd>>
    BY <1>1 DEF RunStarts, PromptJoins, RunPolls, Takes, TypeOK, AgentType, Agents
  <2> QED  BY <2>1
<1>2. CASE TakenBegins \/ TakenJoins
  <2>1. /\ agent.run = "running" /\ agent'.run = "running"
        /\ UNCHANGED <<call, flags, job, comp, life, disposal, odd>>
    BY <1>2 DEF TakenBegins, TakenJoins, TypeOK, AgentType, Agents
  <2> QED  BY <2>1
<1>3. CASE RunEnds
  <2>1. PICK kind \in Assistants :
          agent' = [agent EXCEPT !.run = None, !.msgs = Append(@, Entry(kind, 0, None))]
    BY <1>3 DEF RunEnds
  <2>2. agent'.run = None /\ agent.run = "running"
    BY <1>3, <2>1 DEF RunEnds, TypeOK, AgentType, Agents
  <2>3. UNCHANGED <<job, comp, life, disposal, odd>> /\ flags'.settlement = flags.settlement
    BY <1>3 DEF RunEnds, TypeOK, FlagType, FlagSets
  <2>4. PICK pc \in {"failed", "ran"} :
           call' = [c \in Prompts |-> IF c \in Awaiting THEN [call[c] EXCEPT !.pc = pc] ELSE call[c]]
    BY <1>3 DEF RunEnds
  <2> QED  BY <2>2, <2>3, <2>4 DEF Awaiting, TypeOK, CallType, Frames
<1>4. CASE RunFails
  <2>1. /\ agent'.run = None /\ agent.run = "running"
        /\ UNCHANGED <<flags, job, comp, life, disposal, odd>>
    BY <1>4 DEF RunFails, TypeOK, AgentType, Agents
  <2>2. PICK how \in {"failed", "unclean"} :
           call' = [c \in Prompts |-> IF c \in Awaiting THEN [call[c] EXCEPT !.pc = how] ELSE call[c]]
    BY <1>4 DEF RunFails
  <2> QED  BY <2>1, <2>2 DEF Awaiting, TypeOK, CallType, Frames
<1> QED  BY <1>1, <1>2, <1>3, <1>4 DEF RunStep

\* The tasks as the kinds of steps leave them.
PromptJobs(c) == Others(c) /\ (JobsStay(c) \/ JobOver(c) \/ JobMade(c))

LEMMA OwnedSame ==
  ASSUME Owned, \A c \in Prompts : (Compacts(c)' <=> Compacts(c)) /\ (Compacts(c) => call'[c].job = call[c].job),
         \A j \in Jobs : (job'[j].pc = "free" <=> job[j].pc = "free") /\ (job'[j].manual <=> job[j].manual),
         TypeOK
  PROVE  Owned'
<1>1. \A c \in Prompts : Compacts(c) => call[c].job \in Jobs
  BY DEF Owned, TypeOK, CallType, Frames
<1> QED  BY <1>1 DEF Owned

LEMMA OwnedByPrompts ==
  ASSUME TypeOK, TypeOK', Owned, NEW c \in Prompts, PromptJobs(c)
  PROVE  Owned'
<1>1. \A d \in Prompts : Compacts(d) => call[d].job \in Jobs /\ job[call[d].job].pc # "free"
  BY DEF Owned, TypeOK, CallType, Frames
<1>2. \A d \in Prompts \ {c} : (Compacts(d)' <=> Compacts(d)) /\ call'[d] = call[d]
  BY DEF PromptJobs, Others, Compacts
<1>3. CASE JobsStay(c)
  <2>1. ~Compacts(c) /\ ~Compacts(c)' /\ UNCHANGED job
    BY <1>3 DEF JobsStay, Compacts
  <2> QED  BY <1>2, <2>1, OwnedSame
<1>4. CASE JobOver(c)
  <2> DEFINE j == call[c].job
  <2>1. Compacts(c) /\ ~Compacts(c)' /\ j \in Jobs /\ job' = FreeSlot(j)
    BY <1>1, <1>4 DEF JobOver, Compacts
  <2>2. /\ \A i \in Jobs \ {j} : job'[i] = job[i]
        /\ job'[j].pc = "free"
    BY <2>1, FreeSlotIs
  <2>3. \A d \in Prompts : Compacts(d)' => d # c /\ Compacts(d) /\ call'[d].job = call[d].job
    BY <1>2, <2>1
  <2>4. \A d \in Prompts : Compacts(d) /\ d # c => call[d].job # j
    BY <2>1 DEF Owned
  <2>5. \A i \in Jobs : job'[i].pc # "free" /\ ~job'[i].manual =>
           \E d \in Prompts : Compacts(d)' /\ call'[d].job = i
    <3> SUFFICES ASSUME NEW i \in Jobs, job'[i].pc # "free", ~job'[i].manual
                 PROVE  \E d \in Prompts : Compacts(d)' /\ call'[d].job = i
      OBVIOUS
    <3>1. i # j /\ job[i].pc # "free" /\ ~job[i].manual
      BY <2>2
    <3>2. PICK d \in Prompts : Compacts(d) /\ call[d].job = i
      BY <3>1 DEF Owned
    <3> QED  BY <1>2, <3>1, <3>2
  <2> HIDE DEF j
  <2>6. \A d \in Prompts : Compacts(d)' =>
           call'[d].job # 0 /\ job'[call'[d].job].pc # "free" /\ ~job'[call'[d].job].manual
    BY <1>1, <2>2, <2>3, <2>4 DEF Owned
  <2>7. \A d, e \in Prompts : Compacts(d)' /\ Compacts(e)' /\ call'[d].job = call'[e].job => d = e
    BY <2>3 DEF Owned
  <2> QED  BY <2>5, <2>6, <2>7 DEF Owned
<1>5. CASE JobMade(c)
  <2> DEFINE j == call'[c].job
  <2>1. ~Compacts(c) /\ Compacts(c)' /\ j \in Jobs /\ NewJob(j, FALSE)
    BY <1>5 DEF JobMade, Compacts
  <2>2. /\ job[j].pc = "free" /\ \A i \in Jobs \ {j} : job'[i] = job[i]
        /\ job'[j].pc = "created" /\ job'[j].manual = FALSE
    BY <2>1, NewJobIs
  <2> HIDE DEF j
  <2>3. \A d \in Prompts : Compacts(d)' /\ d # c =>
           Compacts(d) /\ call'[d].job = call[d].job /\ call'[d].job # j
    BY <1>1, <1>2, <2>2
  <2>4. \A d \in Prompts : Compacts(d)' =>
           call'[d].job # 0 /\ job'[call'[d].job].pc # "free" /\ ~job'[call'[d].job].manual
    <3> SUFFICES ASSUME NEW d \in Prompts, Compacts(d)'
                 PROVE  call'[d].job # 0 /\ job'[call'[d].job].pc # "free" /\ ~job'[call'[d].job].manual
      OBVIOUS
    <3>1. CASE d = c
      BY <3>1, <2>1, <2>2, AgentSessionAssumption DEF j
    <3>2. CASE d # c
      BY <1>1, <2>2, <2>3, <3>2 DEF Owned
    <3> QED  BY <3>1, <3>2
  <2>5. \A d, e \in Prompts : Compacts(d)' /\ Compacts(e)' /\ call'[d].job = call'[e].job => d = e
    BY <2>3 DEF Owned, j
  <2>6. \A i \in Jobs : job'[i].pc # "free" /\ ~job'[i].manual =>
           \E d \in Prompts : Compacts(d)' /\ call'[d].job = i
    <3> SUFFICES ASSUME NEW i \in Jobs, job'[i].pc # "free", ~job'[i].manual
                 PROVE  \E d \in Prompts : Compacts(d)' /\ call'[d].job = i
      OBVIOUS
    <3>1. CASE i = j
      BY <2>1, <3>1 DEF j
    <3>2. CASE i # j
      <4>1. job[i].pc # "free" /\ ~job[i].manual
        BY <2>2, <3>2
      <4>2. PICK d \in Prompts : Compacts(d) /\ call[d].job = i
        BY <4>1 DEF Owned
      <4> QED  BY <1>2, <2>1, <4>2
    <3> QED  BY <3>1, <3>2
  <2> QED  BY <2>4, <2>5, <2>6 DEF Owned
<1> QED  BY <1>3, <1>4, <1>5 DEF PromptJobs

LEMMA OwnedByCompact ==
  ASSUME TypeOK, TypeOK', Owned, UNCHANGED call, NEW j \in Jobs,
         job[j].pc = "free" \/ job[j].manual,
         job'[j].pc = "free" \/ job'[j].manual, \A i \in Jobs \ {j} : job'[i] = job[i]
  PROVE  Owned'
<1>1. \A d \in Prompts : Compacts(d) => call[d].job \in Jobs /\ call[d].job # j
  BY DEF Owned, TypeOK, CallType, Frames
<1>2. \A d \in Prompts : (Compacts(d)' <=> Compacts(d))
  BY DEF Compacts
<1>3. \A i \in Jobs : job'[i].pc # "free" /\ ~job'[i].manual => i # j
  OBVIOUS
<1> QED  BY <1>1, <1>2, <1>3 DEF Owned

LEMMA OwnedStep ==
  ASSUME TypeOK, Owned, [Next]_vars
  PROVE  Owned'
<1>1. TypeOK'
  BY StepKinds
<1>2. ASSUME NEW c \in Prompts, PromptActs(c) \/ CallActs(c) PROVE Owned'
  BY <1>1, <1>2, OwnedByPrompts DEF PromptActs, PromptMoves, CallActs, PromptJobs
<1>3. ASSUME NEW j \in Jobs, JobActs(j) PROVE Owned'
  <2>1. UNCHANGED call /\ \A i \in Jobs \ {j} : job'[i] = job[i]
    BY <1>3 DEF JobActs, JobMoves
  <2>2. job[j].pc # "free" /\ job'[j].pc # "free" /\ job'[j].manual = job[j].manual
    BY <1>3 DEF JobActs, JobMoves, Alive
  <2> QED  BY <2>1, <2>2, OwnedSame DEF Compacts
<1>4. ASSUME NEW j \in Jobs, CompactReturns(j) PROVE Owned'
  <2>1. job[j].manual /\ job' = FreeSlot(j) /\ UNCHANGED call
    BY <1>4, CompactReturnsType
  <2> QED  BY <1>1, <2>1, FreeSlotIs, OwnedByCompact
<1>5. CASE RunStep
  <2>1. \A c \in Prompts : (Compacts(c)' <=> Compacts(c)) /\ call'[c].job = call[c].job
    BY <1>5, RunStepIs DEF Compacts
  <2> QED  BY <1>5, <2>1, RunStepIs, OwnedSame
<1>6. CASE Compact
  <2>1. PICK j \in Jobs : NewJob(j, TRUE)
    BY <1>6, CompactType
  <2>2. UNCHANGED call
    BY <1>6, CompactType
  <2> QED  BY <1>1, <2>1, <2>2, NewJobIs, OwnedByCompact
<1>7. CASE Quiet
  <2>1. \A c \in Prompts : (Compacts(c)' <=> Compacts(c)) /\ call'[c].job = call[c].job
    BY <1>7 DEF Quiet, CallsSame, Compacts
  <2>2. \A j \in Jobs : job'[j].pc = job[j].pc /\ job'[j].manual = job[j].manual
    BY <1>7, JobsSameIs DEF Quiet
  <2> QED  BY <2>1, <2>2, OwnedSame
<1> QED  BY <1>2, <1>3, <1>4, <1>5, <1>6, <1>7, StepKinds

LEMMA OddStep ==
  ASSUME TypeOK, Owned, [Next]_vars
  PROVE  odd \subseteq odd' /\ (Unsurprised' => Unsurprised) /\ (odd' = {} => odd = {})
<1>1. odd \subseteq odd'
  <2>1. ASSUME NEW c \in Prompts, PromptActs(c) \/ CallActs(c) PROVE odd \subseteq odd'
    BY <2>1 DEF PromptActs, Beside, CallActs
  <2>2. ASSUME NEW j \in Jobs, JobActs(j) \/ CompactReturns(j) PROVE odd \subseteq odd'
    BY <2>2, CompactReturnsType DEF JobActs, JobMoves
  <2>3. CASE RunStep \/ Compact \/ Quiet
    BY <2>3, RunStepIs, CompactType DEF Quiet
  <2> QED  BY <2>1, <2>2, <2>3, StepKinds
<1> QED  BY <1>1 DEF Unsurprised

LEMMA PreparedAlone ==
  ASSUME TypeOK, Owned, Apart, NEW j \in Jobs, Prepared(j)
  PROVE  /\ Alive(j) /\ comp.current = j
         /\ \A c \in Prompts : Prompting(c) => Compacts(c) /\ call[c].job = j
         /\ Idle
<1>1. Alive(j) /\ comp.current = j
  BY DEF Prepared, Alive, Over, Apart, OneJob
<1>2. \A c \in Prompts : Prompting(c) => Compacts(c) /\ call[c].job = j
  <2>1. CASE job[j].manual
    BY <2>1 DEF Apart, ManualApart, Prepared
  <2>2. CASE ~job[j].manual
    <3>1. PICK d \in Prompts : Compacts(d) /\ call[d].job = j
      BY <1>1, <2>2 DEF Owned, Alive
    <3>2. Prompting(d)
      BY <3>1 DEF Compacts, Prompting, Finished
    <3> QED  BY <3>1, <3>2 DEF Apart, OnePrompt
  <2> QED  BY <2>1, <2>2
<1>3. ASSUME NEW c \in Prompts, call[c].pc = "run" PROVE FALSE
  BY <1>2, <1>3 DEF Compacts, Prompting, Finished
<1>4. Idle
  BY <1>3 DEF Apart, RunOwned, Idle
<1> QED  BY <1>1, <1>2, <1>4

LEMMA NobodyAlive ==
  ASSUME TypeOK, Apart, ~IsCompacting
  PROVE  \A j \in Jobs : ~Alive(j)
<1> SUFFICES ASSUME NEW j \in Jobs, Alive(j) PROVE FALSE
  OBVIOUS
<1>1. comp.current = j /\ j # 0
  BY AgentSessionAssumption DEF Apart, OneJob
<1> QED  BY <1>1 DEF IsCompacting

LEMMA OnePromptStep ==
  ASSUME TypeOK, Owned, Apart, [Next]_vars, Unsurprised'
  PROVE  OnePrompt'
<1>1. OnePrompt
  BY DEF Apart
<1>2. ASSUME NEW c \in Prompts, PromptActs(c) PROVE OnePrompt'
  <2>1. /\ Prompting(c) /\ \A d \in Prompts \ {c} : call'[d] = call[d]
        /\ flags'.settlement = Settlement(c, flags.settlement)
    BY <1>2 DEF PromptActs, PromptMoves, Others
  <2>2. flags.settlement = c /\ \A d \in Prompts \ {c} : ~Prompting(d)'
    BY <1>1, <2>1 DEF OnePrompt, Prompting, Finished
  <2>3. Prompting(c)' <=> call'[c].pc \notin {"done", "raised"}
    BY <1>2 DEF PromptActs, PromptMoves, Prompting, Finished
  <2>4. \A d \in Prompts : d # None
    BY AgentSessionAssumption DEF None
  <2> QED  BY <2>1, <2>2, <2>3, <2>4 DEF OnePrompt, Settlement
<1>3. ASSUME NEW c \in Prompts, CallActs(c) PROVE OnePrompt'
  <2>1. /\ \A d \in Prompts \ {c} : call'[d] = call[d]
        /\ flags'.settlement = Settlement(c, c) /\ odd' = odd \cup Crowded(c)
    BY <1>3 DEF CallActs, Others
  <2>2. \A d \in Prompts \ {c} : ~Prompting(d)
    BY <2>1 DEF Unsurprised, Crowded
  <2>3. \A d \in Prompts \ {c} : ~Prompting(d)'
    BY <2>1, <2>2 DEF Prompting, Finished
  <2>4. Prompting(c)' <=> call'[c].pc \notin {"done", "raised"}
    BY <1>3 DEF CallActs, Prompting, Finished
  <2>5. \A d \in Prompts : d # None
    BY AgentSessionAssumption DEF None
  <2> QED  BY <2>1, <2>3, <2>4, <2>5 DEF OnePrompt, Settlement
<1>4. ASSUME \A c \in Prompts : Prompting(c)' <=> Prompting(c), flags'.settlement = flags.settlement
      PROVE  OnePrompt'
  BY <1>1, <1>4 DEF OnePrompt
<1>5. ASSUME NEW j \in Jobs, JobActs(j) \/ CompactReturns(j) PROVE OnePrompt'
  <2>1. UNCHANGED <<call, flags>>
    BY <1>5, CompactReturnsType DEF JobActs, JobMoves
  <2> QED  BY <1>4, <2>1 DEF Prompting, Finished
<1>6. CASE RunStep
  BY <1>4, <1>6, RunStepIs DEF Prompting, Finished
<1>7. CASE Compact
  BY <1>4, <1>7, CompactType DEF Prompting, Finished
<1>8. CASE Quiet
  BY <1>4, <1>8 DEF Quiet, CallsSame, Prompting, Finished
<1> QED  BY <1>2, <1>3, <1>5, <1>6, <1>7, <1>8, StepKinds

\* A task that is alive after a step of a prompt was alive before, or is its own.
LEMMA PromptJobsAlive ==
  ASSUME TypeOK, Owned, NEW c \in Prompts, PromptJobs(c), NEW j \in Jobs
  PROVE  \/ job'[j] = job[j] /\ ~(JobOver(c) /\ j = call[c].job)
         \/ job'[j].pc = "free" /\ ~job'[j].manual /\ job'[j].kept = 0
         \/ JobMade(c) /\ j = call'[c].job /\ job'[j].pc = "created" /\ ~job'[j].manual
            /\ job'[j].at = Len(store) /\ job'[j].kept \in {0, FirstToKeep}
<1>1. CASE JobsStay(c)
  BY <1>1 DEF JobsStay, JobOver
<1>2. CASE JobOver(c)
  <2>1. call[c].job \in Jobs
    BY <1>2, OutcomeIs DEF JobOver
  <2> QED  BY <1>2, <2>1, FreeSlotIs DEF JobOver
<1>3. CASE JobMade(c)
  <2>1. NewJob(call'[c].job, FALSE) /\ call'[c].job \in Jobs /\ ~Compacts(c)
    BY <1>3 DEF JobMade
  <2> QED  BY <1>3, <2>1, NewJobIs DEF JobOver
<1> QED  BY <1>1, <1>2, <1>3 DEF PromptJobs

LEMMA OneJobStep ==
  ASSUME TypeOK, Owned, Apart, [Next]_vars, Unsurprised'
  PROVE  OneJob'
<1>1. OneJob
  BY DEF Apart
<1>2. ASSUME NEW c \in Prompts, PromptJobs(c) PROVE OneJob'
  <2> SUFFICES ASSUME NEW j \in Jobs, Alive(j)' PROVE comp'.current = j
    BY DEF OneJob
  <2>1. CASE JobsStay(c)
    BY <1>1, <2>1 DEF JobsStay, OneJob, Alive
  <2>2. CASE JobOver(c)
    <3>1. call[c].job \in Jobs
      BY <2>2, OutcomeIs DEF JobOver
    <3>2. j # call[c].job /\ job'[j] = job[j]
      BY <2>2, <3>1, FreeSlotIs DEF JobOver, Alive, Over
    <3>3. comp.current = j
      BY <1>1, <3>2 DEF OneJob, Alive
    <3> QED  BY <2>2, <3>1, <3>2, <3>3, ForgetIs DEF JobOver
  <2>3. CASE JobMade(c)
    <3>1. NewJob(call'[c].job, FALSE) /\ call'[c].job \in Jobs /\ ~IsCompacting
      BY <2>3 DEF JobMade, Unsurprised
    <3>2. ~Alive(j)
      BY <3>1, NobodyAlive
    <3>3. j = call'[c].job
      BY <3>1, <3>2, NewJobIs DEF Alive
    <3> QED  BY <3>1, <3>3, NewJobIs
  <2> QED  BY <1>2, <2>1, <2>2, <2>3 DEF PromptJobs
<1>3. ASSUME NEW j \in Jobs, JobActs(j) PROVE OneJob'
  BY <1>1, <1>3 DEF JobActs, JobMoves, OneJob, Alive
<1>4. ASSUME NEW j \in Jobs, CompactReturns(j) PROVE OneJob'
  <2> SUFFICES ASSUME NEW i \in Jobs, Alive(i)' PROVE comp'.current = i
    BY DEF OneJob
  <2>1. job' = FreeSlot(j) /\ comp'.current = Forget(j).current
    BY <1>4, CompactReturnsType
  <2>2. i # j /\ job'[i] = job[i]
    BY <2>1, FreeSlotIs DEF Alive, Over
  <2> QED  BY <1>1, <2>1, <2>2, ForgetIs DEF OneJob, Alive
<1>5. CASE RunStep
  BY <1>1, <1>5, RunStepIs DEF OneJob, Alive
<1>6. CASE Compact
  <2>1. PICK j \in Jobs : NewJob(j, TRUE)
    BY <1>6, CompactType
  <2>2. \A i \in Jobs : ~Alive(i)
    BY <1>6, CompactType, NobodyAlive
  <2> QED  BY <2>1, <2>2, NewJobIs DEF OneJob, Alive
<1>7. CASE Quiet
  BY <1>1, <1>7, JobsSameIs DEF Quiet, JobsSame, OneJob, Alive
<1> QED
  BY <1>2, <1>3, <1>4, <1>5, <1>6, <1>7, StepKinds
  DEF PromptActs, PromptMoves, CallActs, PromptJobs

LEMMA RunOwnedStep ==
  ASSUME TypeOK, Owned, Apart, [Next]_vars, Unsurprised'
  PROVE  RunOwned'
<1>1. RunOwned /\ "lost" \notin odd'
  BY DEF Apart, Unsurprised
<1>2. ASSUME NEW c \in Prompts, AgentMoves(c), Others(c), call[c].pc = "run" => agent.run = "lost"
      PROVE  RunOwned'
  <2>1. CASE call'[c].pc = "run"
    <3>1. agent'.run = "launched"
      BY <1>2, <2>1
      DEF AgentMoves, AgentStays, AgentRefuses, AgentPrompted, AgentContinued, TypeOK, AgentType, Agents
    <3> QED  BY <2>1, <3>1 DEF RunOwned
  <2>2. CASE call'[c].pc # "run"
    <3>1. agent'.run = agent.run
      BY <1>2, <2>2
      DEF AgentMoves, AgentStays, AgentRefuses, AgentPrompted, AgentContinued, TypeOK, AgentType, Agents
    <3> QED  BY <1>1, <1>2, <3>1 DEF RunOwned, Others
  <2> QED  BY <2>1, <2>2
<1>3. ASSUME NEW c \in Prompts, PromptActs(c) /\ LeavesLost(c) PROVE RunOwned'
  BY <1>2, <1>3 DEF PromptActs, PromptMoves, LeavesLost
<1>4. ASSUME NEW c \in Prompts, CallActs(c) PROVE RunOwned'
  BY <1>2, <1>4 DEF CallActs
<1>5. ASSUME agent'.run = agent.run, \A c \in Prompts : call'[c].pc = call[c].pc PROVE RunOwned'
  BY <1>1, <1>5 DEF RunOwned
<1>6. ASSUME NEW j \in Jobs, JobActs(j) PROVE RunOwned'
  <2>1. UNCHANGED call /\ JobRewrites(j)
    BY <1>6 DEF JobActs, JobMoves
  <2>2. agent'.run = agent.run
    BY <1>1, <2>1 DEF JobRewrites, Aborted, Loses, TypeOK, AgentType, Agents
  <2> QED  BY <1>5, <2>1, <2>2
<1>7. ASSUME NEW j \in Jobs, CompactReturns(j) PROVE RunOwned'
  BY <1>5, <1>7, CompactReturnsType
<1>8. CASE RunStep
  <2>1. CASE agent'.run = None
    BY <2>1 DEF RunOwned
  <2>2. CASE agent'.run # None
    <3>1. agent'.run = "running" /\ agent.run # None
      BY <1>8, <2>2, RunStepIs DEF None
    <3>2. \A c \in Prompts : call'[c].pc = call[c].pc
      BY <1>8, <2>2, RunStepIs
    <3> QED  BY <1>1, <3>1, <3>2 DEF RunOwned
  <2> QED  BY <2>1, <2>2
<1>9. CASE Compact
  BY <1>5, <1>9, CompactType
<1>10. CASE Quiet
  BY <1>1, <1>5, <1>10 DEF Quiet, CallsSame
<1> QED  BY <1>3, <1>4, <1>6, <1>7, <1>8, <1>9, <1>10, StepKinds

LEMMA ManualApartStep ==
  ASSUME TypeOK, Owned, Apart, [Next]_vars, Unsurprised'
  PROVE  ManualApart'
<1>1. ManualApart
  BY DEF Apart
<1>2. ASSUME NEW c \in Prompts, PromptActs(c) PROVE ManualApart'
  <2>1. \A d \in Prompts : Prompting(d)' => Prompting(d)
    BY <1>2 DEF PromptActs, PromptMoves, Others, Prompting, Finished
  <2>2. PromptJobs(c)
    BY <1>2 DEF PromptActs, PromptMoves, PromptJobs
  <2>3. \A j \in Jobs : job'[j].manual => job'[j] = job[j]
    BY <2>2, PromptJobsAlive
  <2> QED  BY <1>1, <2>1, <2>3 DEF ManualApart
<1>3. ASSUME NEW c \in Prompts, CallActs(c) PROVE ManualApart'
  <2>1. \A j \in Jobs : ~Alive(j)
    BY <1>3, NobodyAlive DEF CallActs
  <2>2. PromptJobs(c)
    BY <1>3 DEF CallActs, PromptJobs
  <2>3. \A j \in Jobs : job'[j].manual => job'[j] = job[j]
    BY <2>2, PromptJobsAlive
  <2> QED  BY <2>1, <2>3 DEF ManualApart, Alive, Over
<1>4. ASSUME \A c \in Prompts : Prompting(c)' <=> Prompting(c), NEW j \in Jobs,
             \A i \in Jobs \ {j} : job'[i] = job[i],
             job'[j].manual => job'[j].pc \notin {"starting", "summarizing", "waiting"}
      PROVE  ManualApart'
  BY <1>1, <1>4 DEF ManualApart
<1>5. ASSUME NEW j \in Jobs, JobActs(j) PROVE ManualApart'
  <2>1. /\ UNCHANGED <<call, flags>> /\ \A i \in Jobs \ {j} : job'[i] = job[i]
        /\ job'[j].manual = job[j].manual
        /\ job'[j].pc = "waiting" => job'[j].waits = flags.settlement
    BY <1>5 DEF JobActs, JobMoves
  <2>2. \A c \in Prompts : Prompting(c)' <=> Prompting(c)
    BY <2>1 DEF Prompting, Finished
  <2>3. job'[j].manual /\ job'[j].pc = "waiting" => \A c \in Prompts : Prompting(c) => c = job'[j].waits
    BY <2>1 DEF Apart, OnePrompt
  <2>4. ASSUME job'[j].manual, job'[j].pc \in {"starting", "summarizing"}
        PROVE  \A c \in Prompts : ~Prompting(c)
    <3>1. CASE job[j].pc \in {"starting", "summarizing"}
      BY <1>1, <2>1, <2>4, <3>1 DEF ManualApart
    <3>2. CASE job[j].pc = "waiting" /\ Settled(job[j].waits)
      <4>1. \A c \in Prompts : Prompting(c) => c = job[j].waits
        BY <1>1, <2>1, <2>4, <3>2 DEF ManualApart
      <4>2. job[j].waits = None => job[j].waits \notin Prompts
        BY AgentSessionAssumption DEF None
      <4>3. job[j].waits # None => ~Prompting(job[j].waits)
        BY <3>2 DEF Settled, Prompting
      <4> QED  BY <4>1, <4>2, <4>3
    <3> QED  BY <1>5, <2>1, <2>4, <3>1, <3>2 DEF JobActs, CutKept
  <2> QED  BY <1>1, <2>1, <2>2, <2>3, <2>4 DEF ManualApart
<1>6. ASSUME NEW j \in Jobs, CompactReturns(j) PROVE ManualApart'
  <2>1. job' = FreeSlot(j) /\ UNCHANGED call
    BY <1>6, CompactReturnsType
  <2> QED  BY <1>4, <2>1, FreeSlotIs DEF Prompting, Finished
<1>7. ASSUME \A c \in Prompts : Prompting(c)' <=> Prompting(c),
             \A j \in Jobs : /\ job'[j].pc = job[j].pc /\ job'[j].manual = job[j].manual
                             /\ job'[j].waits = job[j].waits
      PROVE  ManualApart'
  BY <1>1, <1>7 DEF ManualApart
<1>8. CASE RunStep
  BY <1>7, <1>8, RunStepIs DEF Prompting, Finished
<1>9. CASE Compact
  <2>1. PICK j \in Jobs : NewJob(j, TRUE)
    BY <1>9, CompactType
  <2> QED  BY <1>4, <1>9, <2>1, CompactType, NewJobIs DEF Prompting, Finished
<1>10. CASE Quiet
  BY <1>7, <1>10, JobsSameIs DEF Quiet, CallsSame, Prompting, Finished
<1> QED  BY <1>2, <1>3, <1>5, <1>6, <1>8, <1>9, <1>10, StepKinds

LEMMA CutStandsStep ==
  ASSUME TypeOK, Owned, Apart, [Next]_vars, Unsurprised'
  PROVE  CutStands'
<1>1. CutStands
  BY DEF Apart
<1>2. ASSUME NEW c \in Prompts, PromptActs(c) \/ CallActs(c) PROVE CutStands'
  <2> SUFFICES ASSUME NEW j \in Jobs, Prepared(j)' PROVE job'[j].at = Len(store')
    BY DEF CutStands
  <2>1. PromptJobs(c) /\ AgentMoves(c)
    BY <1>2 DEF PromptActs, PromptMoves, CallActs, PromptJobs
  <2>2. CASE job'[j] = job[j] /\ ~(JobOver(c) /\ j = call[c].job)
    <3>1. Prepared(j)
      BY <2>2 DEF Prepared
    <3>2. \A d \in Prompts : Prompting(d) => Compacts(d) /\ call[d].job = j
      BY <3>1, PreparedAlone
    <3>3. IsCompacting
      BY <3>1, PreparedAlone, AgentSessionAssumption DEF IsCompacting
    <3>4. PromptActs(c) /\ Prompting(c)
      BY <1>2, <3>3 DEF CallActs, PromptActs, PromptMoves
    <3>5. Compacts(c) /\ call[c].job = j
      BY <3>2, <3>4
    <3> QED  BY <2>2, <3>4, <3>5 DEF PromptActs, JobsStay, JobMade
  <2>3. CASE job'[j].pc = "free"
    BY <2>3 DEF Prepared
  <2>4. CASE JobMade(c) /\ j = call'[c].job /\ job'[j].at = Len(store)
    <3>1. store' = store
      BY <2>1, <2>4 DEF JobMade, AgentMoves, AgentStays, AgentRefuses, AgentPrompted, AgentContinued
    <3> QED  BY <2>4, <3>1
  <2> QED  BY <2>1, <2>2, <2>3, <2>4, PromptJobsAlive
<1>3. ASSUME NEW j \in Jobs, JobActs(j) PROVE CutStands'
  <2>1. \A i \in Jobs \ {j} : job'[i] = job[i]
    BY <1>3 DEF JobActs, JobMoves
  <2>2. \A i \in Jobs \ {j} : ~Prepared(i)
    <3>1. comp.current = j
      BY <1>3 DEF JobActs, JobMoves, Apart, OneJob
    <3> QED  BY <3>1, PreparedAlone
  <2>3. Prepared(j)' => job'[j].at = Len(store')
    BY <1>1, <1>3 DEF JobActs, CutKept, CutStands, Prepared
  <2> QED  BY <2>1, <2>2, <2>3 DEF CutStands, Prepared
<1>4. ASSUME NEW j \in Jobs, \A i \in Jobs \ {j} : job'[i] = job[i], ~Prepared(j)', UNCHANGED store
      PROVE  CutStands'
  BY <1>1, <1>4 DEF CutStands, Prepared
<1>5. ASSUME NEW j \in Jobs, CompactReturns(j) PROVE CutStands'
  <2>1. job' = FreeSlot(j) /\ UNCHANGED store
    BY <1>5, CompactReturnsType
  <2> QED  BY <1>4, <2>1, FreeSlotIs DEF Prepared
<1>6. CASE RunStep
  <2>1. \A j \in Jobs : ~Prepared(j)
    BY <1>6, PreparedAlone, RunStepIs DEF Idle, None
  <2> QED  BY <1>6, <2>1, RunStepIs DEF CutStands, Prepared
<1>7. CASE Compact
  <2>1. PICK j \in Jobs : NewJob(j, TRUE)
    BY <1>7, CompactType
  <2> QED  BY <1>4, <1>7, <2>1, CompactType, NewJobIs DEF Prepared
<1>8. CASE Quiet
  BY <1>1, <1>8, JobsSameIs DEF Quiet, CutStands, Prepared
<1> QED  BY <1>2, <1>3, <1>5, <1>6, <1>7, <1>8, StepKinds

LEMMA ApartStep ==
  ASSUME TypeOK, Owned, Unsurprised => Apart, [Next]_vars
  PROVE  (Unsurprised => Apart)'
<1> SUFFICES ASSUME Unsurprised' PROVE Apart'
  OBVIOUS
<1>1. Apart
  BY OddStep
<1> QED
  BY <1>1, OnePromptStep, OneJobStep, RunOwnedStep, ManualApartStep, CutStandsStep DEF Apart

LEMMA PendingStep ==
  ASSUME TypeOK, Owned, Unsurprised => Apart, Pending, [Next]_vars
  PROVE  Pending'
<1> SUFFICES ASSUME odd' = {}, flags'.pendingEnd PROVE \E c \in Prompts : call'[c].pc \in Holding
  BY DEF Pending, Holding
<1>1. odd = {} /\ Apart
  BY OddStep DEF Unsurprised
<1>2. flags.pendingEnd => \E c \in Prompts : call[c].pc \in Holding
  BY <1>1 DEF Pending, Holding
<1>3. ASSUME NEW c \in Prompts, PromptActs(c) PROVE \E d \in Prompts : call'[d].pc \in Holding
  <2>1. flags.pendingEnd /\ (call[c].pc \in Holding => call'[c].pc \in Holding)
    BY <1>3 DEF PromptActs, EndKept
  <2>2. \A d \in Prompts \ {c} : call'[d] = call[d]
    BY <1>3 DEF PromptActs, PromptMoves, Others
  <2> QED  BY <1>2, <2>1, <2>2
<1>4. ASSUME NEW c \in Prompts, CallActs(c) PROVE \E d \in Prompts : call'[d].pc \in Holding
  <2>1. flags.pendingEnd /\ call[c].pc \notin Holding /\ \A d \in Prompts \ {c} : call'[d] = call[d]
    BY <1>4 DEF CallActs, Others, Holding
  <2> QED  BY <1>2, <2>1
<1>5. ASSUME \A c \in Prompts : call'[c].pc = call[c].pc, flags'.pendingEnd => flags.pendingEnd
      PROVE  \E d \in Prompts : call'[d].pc \in Holding
  BY <1>2, <1>5
<1>6. ASSUME NEW j \in Jobs, JobActs(j) \/ CompactReturns(j)
      PROVE  \E d \in Prompts : call'[d].pc \in Holding
  BY <1>5, <1>6, CompactReturnsType DEF JobActs, JobMoves
<1>7. CASE RunStarts \/ PromptJoins \/ RunPolls \/ TakenBegins \/ TakenJoins
  <2>1. UNCHANGED <<call, flags>>
    BY <1>7 DEF RunStarts, PromptJoins, RunPolls, TakenBegins, TakenJoins
  <2> QED  BY <1>5, <2>1
<1>8. CASE RunEnds
  <2>1. agent.run = "running"
    BY <1>8 DEF RunEnds
  <2>2. PICK c \in Prompts : call[c].pc = "run"
    BY <1>1, <2>1 DEF Apart, RunOwned, None
  <2>3. Prompting(c)
    BY <2>2 DEF Prompting, Finished
  <2>4. ~flags.pendingEnd
    <3> SUFFICES ASSUME flags.pendingEnd PROVE FALSE
      OBVIOUS
    <3>1. PICK d \in Prompts : call[d].pc \in Holding
      BY <1>2
    <3>2. Prompting(d)
      BY <3>1 DEF Prompting, Finished, Holding
    <3>3. d = c
      BY <1>1, <2>3, <3>2 DEF Apart, OnePrompt
    <3> QED  BY <2>2, <3>1, <3>3 DEF Holding
  <2>5. call' = [d \in Prompts |-> IF d \in Awaiting THEN [call[d] EXCEPT !.pc = "ran"] ELSE call[d]]
    BY <1>8, <2>4 DEF RunEnds
  <2>6. call'[c].pc = "ran"
    BY <2>2, <2>5 DEF Awaiting, TypeOK, CallType, Frames
  <2> QED  BY <2>6 DEF Holding
<1>9. CASE RunFails
  <2>1. UNCHANGED flags
    BY <1>9 DEF RunFails
  <2>2. PICK c \in Prompts : call[c].pc \in Holding
    BY <1>2, <2>1
  <2>3. call'[c].pc = call[c].pc
    BY <1>9, <2>2, RunStepIs DEF RunStep, Holding
  <2> QED  BY <2>2, <2>3
<1>10. CASE Compact
  BY <1>5, <1>10, CompactType
<1>11. CASE Quiet
  BY <1>5, <1>11 DEF Quiet, CallsSame
<1> QED  BY <1>3, <1>4, <1>6, <1>7, <1>8, <1>9, <1>10, <1>11, StepKinds DEF RunStep

----------------------------------------------------------------------------
(* What the exclusion is for.                                              *)

LEMMA AloneByExclusion ==
  ASSUME TypeOK, Owned, Unsurprised => Apart
  PROVE  CompactionAlone
<1> SUFFICES ASSUME Unsurprised, NEW j \in Jobs, Prepared(j) PROVE Idle /\ job[j].at = Len(store)
  BY DEF CompactionAlone, Prepared
<1> QED  BY PreparedAlone DEF Apart, CutStands

LEMMA ProjectedByExclusion ==
  ASSUME TypeOK, Unsurprised => Apart, Pending
  PROVE  EndsProjected
<1> SUFFICES ASSUME odd = {}, agent.run \in {"launched", "running"}, flags.pendingEnd PROVE FALSE
  BY DEF EndsProjected
<1>1. Apart
  BY DEF Unsurprised
<1>2. PICK c \in Prompts : call[c].pc = "run"
  BY <1>1 DEF Apart, RunOwned, None
<1>3. PICK d \in Prompts : call[d].pc \in Holding
  BY DEF Pending, Holding
<1>4. Prompting(c) /\ Prompting(d)
  BY <1>2, <1>3 DEF Prompting, Finished, Holding
<1>5. c = d
  BY <1>1, <1>4 DEF Apart, OnePrompt
<1> QED  BY <1>2, <1>3, <1>5 DEF Holding

----------------------------------------------------------------------------
(* The queue and the texts that are shown.                                 *)

LEMMA AppendIs ==
  ASSUME NEW S, NEW s \in Seq(S), NEW x \in S
  PROVE  /\ ToSet(Append(s, x)) = ToSet(s) \cup {x}
         /\ Distinct(s) /\ x \notin ToSet(s) => Distinct(Append(s, x))
<1> DEFINE t == Append(s, x)
<1>1. /\ DOMAIN t = 1 .. Len(s) + 1 /\ Len(s) \in Nat /\ DOMAIN s = 1 .. Len(s)
      /\ \A i \in 1 .. Len(s) : t[i] = s[i]
      /\ t[Len(s) + 1] = x
  OBVIOUS
<1> HIDE DEF t
<1>2. ToSet(t) = ToSet(s) \cup {x}
  BY <1>1 DEF ToSet
<1>3. ASSUME Distinct(s), x \notin ToSet(s), NEW i \in DOMAIN t, NEW k \in DOMAIN t, t[i] = t[k]
      PROVE  i = k
  <2>1. \A n \in 1 .. Len(s) : s[n] # x
    BY <1>1, <1>3 DEF ToSet
  <2> QED  BY <1>1, <1>3, <2>1 DEF Distinct
<1> QED  BY <1>2, <1>3 DEF Distinct, t

LEMMA ToSetIs ==
  ASSUME NEW S, NEW s \in Seq(S)
  PROVE  /\ ToSet(<<>>) = {}
         /\ \A x \in S : ToSet(<<x>>) = {x}
         /\ s # <<>> => /\ Head(s) \in S /\ Tail(s) \in Seq(S)
                        /\ ToSet(s) = {Head(s)} \cup ToSet(Tail(s))
                        /\ Distinct(s) => Head(s) \notin ToSet(Tail(s)) /\ Distinct(Tail(s))
<1>1. ToSet(<<>>) = {} /\ \A x \in S : ToSet(<<x>>) = {x}
  BY DEF ToSet
<1>2. ASSUME s # <<>>
      PROVE  /\ Head(s) \in S /\ Tail(s) \in Seq(S)
             /\ ToSet(s) = {Head(s)} \cup ToSet(Tail(s))
             /\ Distinct(s) => Head(s) \notin ToSet(Tail(s)) /\ Distinct(Tail(s))
  <2> DEFINE t == Tail(s)
             h == Head(s)
  <2>1. /\ t \in Seq(S) /\ h \in S /\ h = s[1] /\ Len(s) \in Nat \ {0} /\ DOMAIN s = 1 .. Len(s)
        /\ DOMAIN t = 1 .. Len(s) - 1
        /\ \A i \in 1 .. Len(s) - 1 : t[i] = s[i + 1]
    BY <1>2
  <2> HIDE DEF t, h
  <2>2. \A i \in 2 .. Len(s) : s[i] = t[i - 1] /\ i - 1 \in DOMAIN t
    BY <2>1
  <2>3. ToSet(s) = {h} \cup ToSet(t)
    <3>1. ASSUME NEW i \in DOMAIN s PROVE s[i] \in {h} \cup ToSet(t)
      <4>1. i = 1 \/ i \in 2 .. Len(s)
        BY <2>1
      <4> QED  BY <2>1, <2>2, <4>1 DEF ToSet
    <3>2. ASSUME NEW i \in DOMAIN t PROVE t[i] \in ToSet(s)
      <4>1. i + 1 \in DOMAIN s /\ t[i] = s[i + 1]
        BY <2>1
      <4> QED  BY <4>1 DEF ToSet
    <3>3. h \in ToSet(s)
      BY <2>1 DEF ToSet
    <3> QED  BY <3>1, <3>2, <3>3 DEF ToSet
  <2>4. ASSUME Distinct(s) PROVE h \notin ToSet(t) /\ Distinct(t)
    <3>1. ASSUME NEW i \in DOMAIN t PROVE t[i] # h
      <4>1. i + 1 \in DOMAIN s /\ 1 \in DOMAIN s /\ i + 1 # 1 /\ t[i] = s[i + 1]
        BY <2>1
      <4> QED  BY <2>1, <2>4, <4>1 DEF Distinct
    <3>2. ASSUME NEW i \in DOMAIN t, NEW k \in DOMAIN t, t[i] = t[k] PROVE i = k
      <4>1. i + 1 \in DOMAIN s /\ k + 1 \in DOMAIN s /\ s[i + 1] = s[k + 1] /\ i \in Nat /\ k \in Nat
        BY <2>1, <3>2
      <4>2. i + 1 = k + 1
        BY <2>4, <4>1 DEF Distinct
      <4> QED  BY <4>1, <4>2
    <3> QED  BY <3>1, <3>2 DEF ToSet, Distinct
  <2> QED  BY <2>1, <2>3, <2>4 DEF t, h
<1> QED  BY <1>1, <1>2

\* QueueShown without what follows from InOrder.
Shown ==
    /\ ToSet(agent.queue) \subseteq waiting.displayed
    /\ \A m \in waiting.displayed :
          \/ waiting.state[m] \in {"shown", "failed", "dropped"}
          \/ m \in ToSet(agent.queue)
          \/ m \in ToSet(agent.taken) /\ ~agent.begun
Queues == InOrder /\ Shown

LEMMA ShownByOrder ==
  ASSUME TypeOK, Queues
  PROVE  QueueShown
<1>1. ASSUME NEW m \in Queued, m \in Delivered PROVE waiting.state[m] \in {"queued", "late"}
  <2>1. PICK i \in DOMAIN store : store[i].m = m /\ m # None
    BY <1>1 DEF Delivered, TypeOK, StoreType
  <2> QED  BY <2>1 DEF Queues, InOrder
<1> QED  BY <1>1 DEF Queues, Shown, QueueShown

\* The steps that leave the queue and the texts alone.
Plain(s) == s = store \/ \E e \in Entries : e.m = None /\ s = Append(store, e)
LEMMA QueuesSame ==
  ASSUME TypeOK, Queues, UNCHANGED waiting, agent'.queue = agent.queue, agent'.taken = agent.taken,
         agent'.begun = agent.begun, Plain(store')
  PROVE  Queues'
<1>1. ASSUME NEW i \in DOMAIN store', store'[i].m # None
      PROVE  i \in DOMAIN store /\ store'[i] = store[i]
  <2>1. CASE store' = store
    BY <1>1, <2>1
  <2>2. ASSUME NEW e \in Entries, e.m = None, store' = Append(store, e)
        PROVE  i \in DOMAIN store /\ store'[i] = store[i]
    <3>1. /\ DOMAIN store' = 1 .. Len(store) + 1 /\ Len(store) \in Nat /\ DOMAIN store = 1 .. Len(store)
          /\ \A k \in 1 .. Len(store) : store'[k] = store[k]
          /\ store'[Len(store) + 1] = e
      BY <2>2 DEF TypeOK, StoreType
    <3> QED  BY <1>1, <2>2, <3>1
  <2> QED  BY <2>1, <2>2 DEF Plain
<1>2. Shown'
  BY DEF Queues, Shown
<1>3. InOrder'
  BY <1>1 DEF Queues, InOrder
<1> QED  BY <1>2, <1>3 DEF Queues

\* A message goes from the head of the queue into the hands of a run.
LEMMA QueuesByPolling ==
  ASSUME TypeOK, Queues, UNCHANGED <<store, waiting>>, agent.taken = <<>>, agent.queue # <<>>,
         agent'.taken = <<Head(agent.queue)>>, agent'.queue = Tail(agent.queue), ~agent'.begun
  PROVE  Queues'
<1>1. agent.queue \in Seq(Queued)
  BY DEF TypeOK, AgentType, Agents
<1>2. /\ Head(agent.queue) \in Queued
      /\ ToSet(agent.queue) = {Head(agent.queue)} \cup ToSet(agent.queue')
      /\ Head(agent.queue) \notin ToSet(agent.queue') /\ Distinct(agent.queue')
  BY <1>1, ToSetIs DEF Queues, InOrder
<1>3. ToSet(agent.taken') = {Head(agent.queue)} /\ ToSet(agent.taken) = {}
  BY <1>1, <1>2, ToSetIs
<1>4. Shown'
  BY <1>2, <1>3 DEF Queues, Shown
<1>5. InOrder'
  BY <1>2, <1>3 DEF Queues, InOrder
<1> QED  BY <1>4, <1>5 DEF Queues

LEMMA EntryIs ==
  ASSUME TypeOK, NEW kind \in Kinds, NEW kept \in Nat
  PROVE  Entry(kind, kept, None) \in Entries /\ Entry(kind, kept, None).m = None
<1>1. Entry(kind, kept, None) \in Entries
  BY EntryType DEF TypeOK
<1> QED  BY <1>1 DEF Entry

LEMMA QueuesByPrompts ==
  ASSUME TypeOK, Held, Queues, NEW c \in Prompts, AgentMoves(c), UNCHANGED waiting
  PROVE  Queues'
<1> DEFINE user == Entry("user", 0, None)
<1>1. user \in Entries /\ user.m = None
  BY EntryIs DEF Kinds
<1> HIDE DEF user
<1>2. Idle => agent.taken = <<>> /\ ~agent.begun
  BY DEF Held, Idle
<1>3. CASE AgentStays(c) \/ AgentRefuses(c) \/ AgentPrompted(c)
  <2>1. /\ agent'.queue = agent.queue /\ agent'.taken = agent.taken /\ agent'.begun = agent.begun
    BY <1>3 DEF AgentStays, AgentRefuses, AgentPrompted, TypeOK, AgentType, Agents
  <2>2. Plain(store')
    BY <1>1, <1>3 DEF AgentStays, AgentRefuses, AgentPrompted, Plain, user
  <2> QED  BY <2>1, <2>2, QueuesSame
<1>4. CASE AgentContinued(c)
  <2>1. Idle /\ store' = store /\ agent.taken = <<>> /\ ~agent.begun
    BY <1>2, <1>4 DEF AgentContinued
  <2>2. CASE agent'.queue = agent.queue /\ agent'.taken = <<>> /\ agent'.begun = agent.begun
    BY <2>1, <2>2, QueuesSame DEF Plain
  <2>3. CASE /\ agent.queue # <<>> /\ agent'.taken = <<Head(agent.queue)>>
             /\ agent'.queue = Tail(agent.queue) /\ agent'.begun = agent.begun
    BY <2>1, <2>3, QueuesByPolling
  <2> QED  BY <1>4, <2>2, <2>3 DEF AgentContinued, TypeOK, AgentType, Agents
<1> QED  BY <1>3, <1>4 DEF AgentMoves

LEMMA StoredIs ==
  ASSUME TypeOK
  PROVE  \A i \in DOMAIN store : store[i] \in Entries /\ (store[i].m # None => store[i].m \in Queued)
<1>1. \A i \in DOMAIN store : store[i] \in Entries
  BY DEF TypeOK, StoreType
<1> QED  BY <1>1 DEF Entries

LEMMA QueuesByJobs ==
  ASSUME TypeOK, Queues, NEW j \in Jobs, JobActs(j)
  PROVE  Queues'
<1>1. UNCHANGED waiting /\ JobRewrites(j)
  BY DEF JobActs, JobMoves
<1>2. job[j].kept \in Nat
  BY DEF TypeOK, JobType, Tasks
<1>3. Plain(store')
  <2>1. Entry("compaction", job[j].kept, None) \in Entries /\ Entry("compaction", job[j].kept, None).m = None
    BY <1>2, EntryIs DEF Kinds
  <2> QED  BY <1>1, <2>1 DEF JobRewrites, Committed, Plain
<1>4. agent'.queue = agent.queue /\ agent'.taken = agent.taken /\ agent'.begun = agent.begun
  BY <1>1 DEF JobRewrites, Aborted, TypeOK, AgentType, Agents
<1> QED  BY <1>1, <1>3, <1>4, QueuesSame

\* The steps of a run that neither take a message nor let one go.
LEMMA QueuesByRuns ==
  ASSUME TypeOK, Queues, RunStarts \/ PromptJoins \/ RunEnds
  PROVE  Queues'
<1>1. UNCHANGED waiting
  BY DEF RunStarts, PromptJoins, RunEnds
<1>2. agent'.queue = agent.queue /\ agent'.taken = agent.taken /\ agent'.begun = agent.begun
  BY DEF RunStarts, PromptJoins, RunEnds, TypeOK, AgentType, Agents
<1>3. Plain(store')
  <2>1. CASE RunEnds
    <3>1. PICK kind \in Assistants : store' = Append(store, Entry(kind, 0, None))
      BY <2>1 DEF RunEnds
    <3>2. Entry(kind, 0, None) \in Entries /\ Entry(kind, 0, None).m = None
      BY EntryIs DEF Kinds
    <3> QED  BY <3>1, <3>2 DEF Plain
  <2>2. CASE RunStarts \/ PromptJoins
    BY <2>2 DEF RunStarts, PromptJoins, Plain
  <2> QED  BY <2>1, <2>2
<1> QED  BY <1>1, <1>2, <1>3, QueuesSame

LEMMA QueuesByRunPolls ==
  ASSUME TypeOK, Held, Queues, RunPolls
  PROVE  Queues'
<1>1. UNCHANGED <<store, waiting>> /\ agent.taken = <<>> /\ ~agent.begun
  BY DEF RunPolls, Holds, Held
<1>2. CASE agent.queue # <<>> /\ agent' = Takes
  <2>1. agent' = [agent EXCEPT !.fresh = FALSE, !.taken = <<Head(agent.queue)>>, !.queue = Tail(agent.queue)]
    BY <1>2 DEF Takes
  <2>2. /\ agent'.taken = <<Head(agent.queue)>> /\ agent'.queue = Tail(agent.queue)
        /\ agent'.begun = agent.begun
    BY <2>1 DEF TypeOK, AgentType, Agents
  <2> QED  BY <1>1, <1>2, <2>2, QueuesByPolling
<1>3. CASE agent' = [agent EXCEPT !.fresh = FALSE]
  <2>1. agent'.queue = agent.queue /\ agent'.taken = agent.taken /\ agent'.begun = agent.begun
    BY <1>3 DEF TypeOK, AgentType, Agents
  <2> QED  BY <1>1, <2>1, QueuesSame DEF Plain
<1> QED  BY <1>2, <1>3 DEF RunPolls

LEMMA QueuesByTakenBegins ==
  ASSUME TypeOK, Queues, TakenBegins
  PROVE  Queues'
<1>1. /\ agent' = [agent EXCEPT !.begun = TRUE] /\ UNCHANGED store
      /\ waiting' = [waiting EXCEPT !.displayed = waiting.displayed \ ToSet(agent.taken)]
  BY DEF TakenBegins
<1>2. /\ agent'.queue = agent.queue /\ agent'.taken = agent.taken
      /\ waiting'.state = waiting.state
      /\ waiting'.displayed = waiting.displayed \ ToSet(agent.taken)
  BY <1>1 DEF TypeOK, AgentType, Agents, WaitType, Waits
<1>3. InOrder'
  <2>1. \A m \in Queued : waiting'.state[m] = "shown" => m \in waiting'.displayed
    BY <1>2 DEF Queues, InOrder
  <2> QED  BY <1>1, <1>2, <2>1 DEF Queues, InOrder
<1>4. Shown'
  BY <1>2 DEF Queues, InOrder, Shown
<1> QED  BY <1>3, <1>4 DEF Queues

LEMMA QueuesByTakenJoins ==
  ASSUME TypeOK, Queues, TakenJoins
  PROVE  Queues'
<1> DEFINE h == Head(agent.taken)
           e == Entry("user", 0, h)
<1>1. /\ agent' = [agent EXCEPT !.msgs = Append(agent.msgs, e), !.taken = <<>>, !.begun = FALSE]
      /\ UNCHANGED waiting /\ store' = Append(store, e) /\ agent.taken # <<>> /\ agent.begun
  BY DEF TakenJoins
<1>2. agent.taken \in Seq(Queued) /\ store \in Seq(Entries)
  BY DEF TypeOK, StoreType, AgentType, Agents
<1>3. h \in Queued /\ h \in ToSet(agent.taken)
  BY <1>1, <1>2, ToSetIs
<1>4. e \in Entries /\ e.m = h
  <2>1. e \in Entries
    BY <1>3, EntryType DEF TypeOK, Kinds
  <2> QED  BY <2>1 DEF Entry
<1> HIDE DEF h, e
<1>5. /\ DOMAIN store' = 1 .. Len(store) + 1 /\ Len(store) \in Nat /\ DOMAIN store = 1 .. Len(store)
      /\ \A k \in 1 .. Len(store) : store'[k] = store[k]
      /\ store'[Len(store) + 1] = e
  BY <1>1, <1>2, <1>4
<1>6. agent'.queue = agent.queue /\ agent'.taken = <<>>
  BY <1>1 DEF TypeOK, AgentType, Agents
<1>7. \A i \in DOMAIN store' : (i \in DOMAIN store /\ store'[i] = store[i]) \/ store'[i] = e
  BY <1>5
<1>8. waiting.state[h] \in {"queued", "late"} /\ h \notin ToSet(agent.queue) /\ ToSet(agent'.taken) = {}
  <2>1. waiting.state[h] \in {"queued", "late"} /\ h \notin ToSet(agent.queue)
    BY <1>3 DEF Queues, InOrder
  <2>2. ToSet(<<>>) = {}
    BY DEF ToSet
  <2> QED  BY <1>6, <2>1, <2>2
<1>9. InOrder'
  <2>1. \A i \in DOMAIN store' : store'[i].m # None =>
          /\ waiting'.state[store'[i].m] \in {"queued", "late"}
          /\ store'[i].m \notin ToSet(agent'.queue) \cup ToSet(agent'.taken)
    BY <1>1, <1>4, <1>6, <1>7, <1>8 DEF Queues, InOrder
  <2> QED  BY <1>1, <1>6, <1>8, <2>1 DEF Queues, InOrder
<1>10. Shown'
  BY <1>1, <1>6 DEF Queues, Shown
<1> QED  BY <1>9, <1>10 DEF Queues

LEMMA QueuesByRunFails ==
  ASSUME TypeOK, Queues, RunFails
  PROVE  Queues'
<1>1. /\ UNCHANGED store /\ waiting'.displayed = waiting.displayed
      /\ \A m \in Queued :
            waiting'.state[m] = IF m \in ToSet(agent.taken) THEN "dropped" ELSE waiting.state[m]
  BY DropsIs DEF RunFails
<1>2. agent'.queue = agent.queue /\ agent'.taken = <<>>
  BY DEF RunFails, TypeOK, AgentType, Agents
<1>3. ToSet(agent'.taken) = {}
  BY <1>2, ToSetIs DEF TypeOK, AgentType, Agents
<1>4. /\ \A m \in ToSet(agent.queue) : m \in Queued
      /\ \A i \in DOMAIN store : store[i].m # None => store[i].m \in Queued
      /\ waiting.displayed \subseteq Queued
  <2>1. \A m \in ToSet(agent.queue) : m \in Queued
    BY DEF TypeOK, AgentType, Agents, ToSet
  <2> QED  BY <2>1, StoredIs DEF TypeOK, WaitType, Waits
<1>5. InOrder'
  <2>1. \A i \in DOMAIN store' : store'[i].m # None =>
          /\ waiting'.state[store'[i].m] \in {"queued", "late"}
          /\ store'[i].m \notin ToSet(agent'.queue) \cup ToSet(agent'.taken)
    BY <1>1, <1>2, <1>3, <1>4 DEF Queues, InOrder
  <2>2. \A m \in ToSet(agent'.queue) : waiting'.state[m] = "queued"
    BY <1>1, <1>2, <1>4 DEF Queues, InOrder
  <2>3. \A m \in Queued : waiting'.state[m] = "shown" => m \in waiting'.displayed
    BY <1>1 DEF Queues, InOrder
  <2> QED  BY <1>2, <1>3, <2>1, <2>2, <2>3 DEF Queues, InOrder
<1>6. Shown'
  BY <1>1, <1>2, <1>4 DEF Queues, Shown
<1> QED  BY <1>5, <1>6 DEF Queues

LEMMA QueuesByEnqueue ==
  ASSUME TypeOK, Queues, NEW m \in Queued, Enqueue(m)
  PROVE  Queues'
<1>1. /\ waiting.state[m] = "new" /\ UNCHANGED <<store, agent>>
      /\ waiting' = [waiting EXCEPT !.displayed = waiting.displayed \cup {m}, !.state[m] = "shown"]
  BY DEF Enqueue
<1>2. /\ waiting'.displayed = waiting.displayed \cup {m} /\ waiting'.state[m] = "shown"
      /\ \A n \in Queued \ {m} : waiting'.state[n] = waiting.state[n]
  BY <1>1 DEF TypeOK, WaitType, Waits
<1>3. /\ \A n \in ToSet(agent.queue) \cup ToSet(agent.taken) : n \in Queued /\ n # m
      /\ \A i \in DOMAIN store : store[i].m # None => store[i].m \in Queued /\ store[i].m # m
  <2>1. \A n \in ToSet(agent.queue) \cup ToSet(agent.taken) : n \in Queued
    BY DEF TypeOK, AgentType, Agents, ToSet
  <2>2. \A i \in DOMAIN store : store[i].m # None => store[i].m \in Queued
    BY StoredIs
  <2> QED  BY <1>1, <2>1, <2>2 DEF Queues, InOrder
<1>4. waiting.displayed \subseteq Queued
  BY DEF TypeOK, WaitType, Waits
<1>5. InOrder'
  BY <1>1, <1>2, <1>3 DEF Queues, InOrder
<1>6. Shown'
  BY <1>1, <1>2, <1>4 DEF Queues, Shown
<1> QED  BY <1>5, <1>6 DEF Queues

LEMMA QueuesByEnqueueShown ==
  ASSUME TypeOK, Queues, NEW m \in Queued, EnqueueShown(m)
  PROVE  Queues'
<1>1. waiting.state[m] \in {"shown", "cut"} /\ UNCHANGED store
  BY DEF EnqueueShown
<1>2. /\ \A n \in ToSet(agent.queue) \cup ToSet(agent.taken) : n \in Queued /\ n # m
      /\ \A i \in DOMAIN store : store[i].m # None => store[i].m \in Queued /\ store[i].m # m
  <2>1. \A n \in ToSet(agent.queue) \cup ToSet(agent.taken) : n \in Queued
    BY DEF TypeOK, AgentType, Agents, ToSet
  <2>2. \A i \in DOMAIN store : store[i].m # None => store[i].m \in Queued
    BY StoredIs
  <2> QED  BY <1>1, <2>1, <2>2 DEF Queues, InOrder
<1>3. waiting.displayed \subseteq Queued
  BY DEF TypeOK, WaitType, Waits
<1>4. ASSUME NEW s \in {"queued", "failed", "cleared"}, waiting' = [waiting EXCEPT !.state[m] = s]
      PROVE  /\ waiting'.displayed = waiting.displayed /\ waiting'.state[m] = s
             /\ \A n \in Queued \ {m} : waiting'.state[n] = waiting.state[n]
  BY <1>4 DEF TypeOK, WaitType, Waits
<1>5. CASE /\ waiting.state[m] = "shown" /\ waiting' = [waiting EXCEPT !.state[m] = "queued"]
           /\ agent' = [agent EXCEPT !.queue = Append(agent.queue, m)]
  <2>1. /\ agent'.queue = Append(agent.queue, m) /\ agent'.taken = agent.taken
        /\ agent'.begun = agent.begun /\ agent.queue \in Seq(Queued)
    BY <1>5 DEF TypeOK, AgentType, Agents
  <2>2. /\ ToSet(agent'.queue) = ToSet(agent.queue) \cup {m} /\ Distinct(agent'.queue)
    <3>1. Distinct(agent.queue) /\ m \notin ToSet(agent.queue)
      BY <1>2 DEF Queues, InOrder
    <3>2. /\ ToSet(Append(agent.queue, m)) = ToSet(agent.queue) \cup {m}
          /\ Distinct(Append(agent.queue, m))
      BY <2>1, <3>1, AppendIs
    <3> QED  BY <2>1, <3>2
  <2>3. /\ waiting'.displayed = waiting.displayed /\ waiting'.state[m] = "queued"
        /\ \A n \in Queued \ {m} : waiting'.state[n] = waiting.state[n]
    BY <1>4, <1>5
  <2>4. m \in waiting.displayed
    BY <1>5 DEF Queues, InOrder
  <2>5. InOrder'
    BY <1>1, <1>2, <2>1, <2>2, <2>3 DEF Queues, InOrder
  <2>6. Shown'
    BY <1>2, <1>3, <2>1, <2>2, <2>3, <2>4 DEF Queues, Shown
  <2> QED  BY <2>5, <2>6 DEF Queues
<1>6. ASSUME NEW s \in {"failed", "cleared"}, waiting' = [waiting EXCEPT !.state[m] = s], UNCHANGED agent,
             s = "failed" \/ waiting.state[m] = "cut"
      PROVE  Queues'
  <2>1. /\ waiting'.displayed = waiting.displayed /\ waiting'.state[m] = s
        /\ \A n \in Queued \ {m} : waiting'.state[n] = waiting.state[n]
    BY <1>4, <1>6
  <2>2. InOrder'
    BY <1>1, <1>2, <1>6, <2>1 DEF Queues, InOrder
  <2>3. s = "cleared" => m \notin waiting.displayed
    BY <1>2, <1>6 DEF Queues, Shown
  <2>4. Shown'
    BY <1>2, <1>3, <1>6, <2>1, <2>3 DEF Queues, Shown
  <2> QED  BY <2>2, <2>4 DEF Queues
<1> QED  BY <1>5, <1>6 DEF EnqueueShown

LEMMA QueuesByClear ==
  ASSUME TypeOK, Queues, ClearMessages, agent' = [agent EXCEPT !.queue = <<>>], UNCHANGED store
  PROVE  Queues'
<1>1. waiting'.displayed = {} /\ \A m \in Queued : waiting'.state[m] = ClearedState(m)
  BY ClearMessagesIs
<1>2. agent'.queue = <<>> /\ agent'.taken = agent.taken
  BY DEF TypeOK, AgentType, Agents
<1>3. ToSet(agent'.queue) = {} /\ Distinct(agent'.queue)
  BY <1>2 DEF ToSet, Distinct
<1>4. \A m \in Queued : waiting.state[m] \in {"queued", "late"} /\ m \notin ToSet(agent.queue) =>
         waiting'.state[m] \in {"queued", "late"}
  BY <1>1 DEF ClearedState
<1>5. \A m \in ToSet(agent.taken) :
         m \in Queued /\ waiting.state[m] \in {"queued", "late"} /\ m \notin ToSet(agent.queue)
  <2>1. \A m \in ToSet(agent.taken) : m \in Queued
    BY DEF TypeOK, AgentType, Agents, ToSet
  <2> QED  BY <2>1 DEF Queues, InOrder
<1>6. \A i \in DOMAIN store : store[i].m # None =>
         /\ store[i].m \in Queued /\ waiting.state[store[i].m] \in {"queued", "late"}
         /\ store[i].m \notin ToSet(agent.queue) \cup ToSet(agent.taken)
  <2>1. \A i \in DOMAIN store : store[i].m # None => store[i].m \in Queued
    BY StoredIs
  <2> QED  BY <2>1 DEF Queues, InOrder
<1>7. \A m \in Queued : waiting'.state[m] # "shown"
  BY <1>1 DEF ClearedState
<1>8. InOrder'
  BY <1>2, <1>3, <1>4, <1>5, <1>6, <1>7 DEF Queues, InOrder
<1>9. Shown'
  BY <1>1, <1>3 DEF Shown
<1> QED  BY <1>8, <1>9 DEF Queues

LEMMA QueuesStep ==
  ASSUME TypeOK, Owned, Held, Queues, [Next]_vars
  PROVE  Queues'
<1>1. ASSUME NEW c \in Prompts, PromptStep(c) PROVE Queues'
  BY <1>1, PromptStepActs, QueuesByPrompts DEF PromptActs, Beside
<1>2. ASSUME NEW c \in Prompts, CallPrompt(c) PROVE Queues'
  BY <1>2, CallPromptActs, QueuesByPrompts DEF CallActs
<1>4. ASSUME UNCHANGED <<store, waiting>>,
             agent' = agent \/ agent' = Aborted(agent) \/ agent' = [agent EXCEPT !.aborted = agent'.aborted]
      PROVE  Queues'
  <2>1. agent'.queue = agent.queue /\ agent'.taken = agent.taken /\ agent'.begun = agent.begun
    BY <1>4 DEF Aborted, TypeOK, AgentType, Agents
  <2> QED  BY <1>4, <2>1, QueuesSame DEF Plain
<1>5. ASSUME NEW j \in Jobs, JobStep(j) PROVE Queues'
  BY <1>4, <1>5, JobStepActs, QueuesByJobs, CompactReturnsType
<1>6. CASE RunStep
  BY <1>6, QueuesByRuns, QueuesByRunPolls, QueuesByTakenBegins, QueuesByTakenJoins, QueuesByRunFails
  DEF RunStep
<1>7. ASSUME NEW m \in Queued, Enqueue(m) \/ EnqueueShown(m) PROVE Queues'
  BY <1>7, QueuesByEnqueue, QueuesByEnqueueShown
<1>8. CASE ClearQueue
  BY <1>8, QueuesByClear DEF ClearQueue
<1>9. CASE DisposalStep
  <2>1. CASE DisposalBegins
    BY <1>4, <2>1, DisposalBeginsType, QueuesByClear DEF Awaits, AgentAborts
  <2>2. CASE DisposalQueuesShown
    BY <1>4, <2>2, DisposalQueuesShownType DEF Awaits, AgentAborts
  <2>3. CASE DisposalAwaited
    BY <1>4, <2>3, DisposalAwaitedType DEF AgentAborts
  <2>4. CASE DisposalEnds
    BY <1>4, <2>4, DisposalEndsType
  <2> QED  BY <1>9, <2>1, <2>2, <2>3, <2>4 DEF DisposalStep
<1>10. ASSUME NEW c \in Prompts, CancelPrompt(c) PROVE Queues'
  BY <1>4, <1>10, CancelPromptActs
<1>11. CASE Compact \/ AbortCompaction \/ Abort \/ Reload \/ ReloadEnds
  BY <1>4, <1>11, CompactType, AbortCompactionActs, AbortActs, ReloadType DEF AgentAborts
<1>12. CASE Dispose \/ UNCHANGED vars
  BY <1>4, <1>12 DEF Dispose, vars
<1> QED
  BY <1>1, <1>2, <1>5, <1>6, <1>7, <1>8, <1>9, <1>10, <1>11, <1>12 DEF Next, Progress, Calls

----------------------------------------------------------------------------
(* The disposal: what it has cleared and awaited does not come back.       *)

\* The steps of others: they neither move the disposal nor reopen the session.
Standing ==
    /\ UNCHANGED disposal /\ life'.disposed = life.disposed
    /\ life.closing => life'.closing
    /\ life'.reloading => life.reloading \/ Open
    /\ \A m \in Queued : waiting'.state[m] = "shown" => waiting.state[m] = "shown" \/ Open

LEMMA StandingIs ==
  ASSUME TypeOK, Owned, [Next]_vars
  PROVE  Standing \/ Dispose \/ DisposalStep
<1>1. ASSUME UNCHANGED <<waiting, life, disposal>> PROVE Standing
  BY <1>1 DEF Standing
<1>2. ASSUME NEW c \in Prompts, PromptStep(c) PROVE Standing
  BY <1>2, PromptStepActs DEF PromptActs, Beside, Standing
<1>3. ASSUME NEW c \in Prompts, CallPrompt(c) \/ CancelPrompt(c) PROVE Standing
  BY <1>1, <1>3, CallPromptActs, CancelPromptActs DEF CallActs
<1>4. ASSUME NEW j \in Jobs, JobStep(j) PROVE Standing
  BY <1>1, <1>4, JobStepActs, CompactReturnsType DEF JobActs, JobMoves
<1>5. CASE RunStep
  <2>1. UNCHANGED <<life, disposal>>
    BY <1>5, RunStepIs
  <2>2. CASE RunFails
    BY <2>1, <2>2, DropsIs DEF Standing
  <2>3. CASE ~RunFails
    <3>1. waiting'.state = waiting.state
      BY <1>5, <2>3
      DEF RunStep, RunStarts, PromptJoins, RunPolls, TakenBegins, TakenJoins, RunEnds,
          TypeOK, WaitType, Waits
    <3> QED  BY <2>1, <3>1 DEF Standing
  <2> QED  BY <2>2, <2>3
<1>6. ASSUME NEW m \in Queued, Enqueue(m) PROVE Standing
  <2>1. Open /\ UNCHANGED <<life, disposal>>
    BY <1>6 DEF Enqueue
  <2> QED  BY <2>1 DEF Standing
<1>7. ASSUME NEW m \in Queued, EnqueueShown(m) PROVE Standing
  <2>1. UNCHANGED <<life, disposal>>
    BY <1>7 DEF EnqueueShown
  <2>2. PICK s \in {"queued", "failed", "cleared"} : waiting' = [waiting EXCEPT !.state[m] = s]
    BY <1>7 DEF EnqueueShown
  <2>3. \A n \in Queued : waiting'.state[n] = "shown" => waiting.state[n] = "shown"
    BY <2>2 DEF TypeOK, WaitType, Waits
  <2> QED  BY <2>1, <2>3 DEF Standing
<1>8. CASE Reload \/ ReloadEnds
  <2>1. /\ UNCHANGED <<waiting, disposal>> /\ life' = [life EXCEPT !.reloading = life'.reloading]
        /\ life'.reloading => Open
    BY <1>8, ReloadType
  <2> QED  BY <2>1 DEF TypeOK, LifeType, Standing
<1>9. CASE ClearQueue
  <2>1. Open /\ UNCHANGED <<life, disposal>>
    BY <1>9 DEF ClearQueue
  <2> QED  BY <2>1 DEF Standing
<1>10. CASE Compact \/ AbortCompaction \/ Abort \/ UNCHANGED vars
  BY <1>1, <1>10, CompactType, AbortCompactionActs, AbortActs DEF vars
<1> QED
  BY <1>2, <1>3, <1>4, <1>5, <1>6, <1>7, <1>8, <1>9, <1>10 DEF Next, Progress, Calls

LEMMA DisposeIs ==
  ASSUME TypeOK, Dispose
  PROVE  /\ disposal.pc = None /\ disposal'.pc = "begun" /\ disposal'.cleared = disposal.cleared
         /\ ~life.disposed /\ ~life'.disposed /\ life'.closing
         /\ UNCHANGED <<waiting, call, job, flags>>
BY DEF Dispose, TypeOK, LifeType, DisposalType

LEMMA DisposalHolds ==
  ASSUME TypeOK, Owned, Disposal, [Next]_vars
  PROVE  Disposal'
<1>1. CASE Standing
  <2>1. CASE Open
    <3>1. disposal.pc = None /\ disposal.cleared = FALSE /\ life.disposed = FALSE
      BY <2>1 DEF Disposal, Open, TypeOK, LifeType, DisposalType
    <3>2. disposal'.pc = None /\ disposal'.cleared = FALSE /\ life'.disposed = FALSE
      BY <1>1, <3>1 DEF Standing
    <3> QED  BY <3>2 DEF Disposal, None
  <2>2. CASE ~Open
    <3>1. /\ UNCHANGED disposal /\ life'.disposed = life.disposed
          /\ life.closing => life'.closing
          /\ life'.reloading => life.reloading
          /\ \A m \in Queued : waiting'.state[m] = "shown" => waiting.state[m] = "shown"
      BY <1>1, <2>2 DEF Standing
    <3>2. disposal'.pc = disposal.pc /\ disposal'.cleared = disposal.cleared
      BY <3>1
    <3> QED  BY <3>1, <3>2 DEF Disposal
  <2> QED  BY <2>1, <2>2
<1>2. CASE Dispose
  BY <1>2, DisposeIs DEF Disposal, None
<1>3. ASSUME Awaits, UNCHANGED <<life, waiting>>, disposal.pc # None,
             disposal.cleared \/ disposal.pc = "queues"
      PROVE  Disposal'
  BY <1>3 DEF Awaits, ToCompaction, ToReload, ToPrompt, Disposal, None
<1>4. CASE DisposalBegins
  <2>1. disposal.pc = "begun" /\ UNCHANGED life
    BY <1>4 DEF DisposalBegins
  <2>2. CASE Awaits /\ disposal.cleared /\ UNCHANGED waiting
    BY <1>3, <2>1, <2>2 DEF None
  <2>3. CASE disposal' = [disposal EXCEPT !.pc = "queues"] /\ ClearMessages
    <3>1. disposal'.pc = "queues" /\ disposal'.cleared = disposal.cleared
      BY <2>3 DEF TypeOK, DisposalType
    <3>2. \A m \in Queued : waiting'.state[m] # "shown"
      BY <2>3, ClearMessagesIs DEF ClearedState
    <3> QED  BY <2>1, <3>1, <3>2 DEF Disposal, None
  <2> QED  BY <1>4, <2>2, <2>3, DisposalBeginsType
<1>5. CASE DisposalQueuesShown
  BY <1>3, <1>5, DisposalQueuesShownType DEF None
<1>6. CASE DisposalAwaited
  <2>1. UNCHANGED <<life, waiting>>
    BY <1>6, DisposalAwaitedType
  <2>2. CASE disposal.pc \in {"compaction", "reload"} /\ (ToReload \/ ToPrompt) /\ disposal'.cleared
    BY <2>1, <2>2 DEF ToReload, ToPrompt, Disposal, None
  <2>3. CASE disposal.pc = "prompt" /\ disposal' = [disposal EXCEPT !.pc = "extensions", !.waits = None]
    <3>1. disposal'.pc = "extensions" /\ disposal'.cleared = disposal.cleared
      BY <2>3 DEF TypeOK, DisposalType
    <3> QED  BY <2>1, <2>3, <3>1 DEF Disposal, None
  <2> QED  BY <1>6, <2>2, <2>3, DisposalAwaitedType
<1>7. CASE DisposalEnds
  <2>1. /\ disposal.pc = "extensions" /\ disposal'.pc = None /\ disposal'.cleared = disposal.cleared
        /\ life'.closing = life.closing /\ life'.reloading = life.reloading
        /\ UNCHANGED waiting
    BY <1>7, DisposalEndsType DEF TypeOK, DisposalType, LifeType
  <2> QED  BY <2>1 DEF Disposal, None
<1> QED  BY <1>1, <1>2, <1>4, <1>5, <1>6, <1>7, StandingIs DEF DisposalStep

\* Only an open session gets a new prompt or a new compaction that is not a prompt's.
LEMMA NothingNew ==
  ASSUME TypeOK, Owned, [Next]_vars, ~Open
  PROVE  /\ \A c \in Prompts : Prompting(c)' => Prompting(c)
         /\ \A j \in Jobs : Alive(j)' /\ job'[j].manual => Alive(j) /\ job[j].manual
<1>1. ASSUME NEW c \in Prompts, PromptActs(c)
      PROVE  /\ \A d \in Prompts : Prompting(d)' => Prompting(d)
             /\ \A j \in Jobs : Alive(j)' /\ job'[j].manual => Alive(j) /\ job[j].manual
  <2>1. \A d \in Prompts : Prompting(d)' => Prompting(d)
    BY <1>1 DEF PromptActs, PromptMoves, Others, Prompting, Finished
  <2>2. PromptJobs(c)
    BY <1>1 DEF PromptActs, PromptMoves, PromptJobs
  <2>3. \A j \in Jobs : job'[j].manual => job'[j] = job[j]
    BY <2>2, PromptJobsAlive
  <2> QED  BY <2>1, <2>3 DEF Alive
<1>2. ASSUME NEW c \in Prompts, CallActs(c) PROVE FALSE
  BY <1>2 DEF CallActs
<1>3. ASSUME NEW j \in Jobs, JobActs(j) \/ CompactReturns(j)
      PROVE  /\ \A c \in Prompts : Prompting(c)' => Prompting(c)
             /\ \A i \in Jobs : Alive(i)' /\ job'[i].manual => Alive(i) /\ job[i].manual
  <2>1. UNCHANGED call
    BY <1>3, CompactReturnsType DEF JobActs, JobMoves
  <2>2. CASE JobActs(j)
    BY <2>1, <2>2 DEF JobActs, JobMoves, Prompting, Finished, Alive
  <2>3. CASE CompactReturns(j)
    <3>1. job' = FreeSlot(j)
      BY <2>3, CompactReturnsType
    <3> QED  BY <2>1, <3>1, FreeSlotIs DEF Prompting, Finished, Alive
  <2> QED  BY <1>3, <2>2, <2>3
<1>4. CASE RunStep
  BY <1>4, RunStepIs DEF Prompting, Finished, Alive
<1>5. CASE Compact
  BY <1>5, CompactType
<1>6. CASE Quiet
  BY <1>6, JobsSameIs DEF Quiet, CallsSame, Prompting, Finished, Alive
<1> QED  BY <1>1, <1>2, <1>3, <1>4, <1>5, <1>6, StepKinds

LEMMA ManualOverStep ==
  ASSUME TypeOK, Owned, Apart, Disposal, ManualOver, [Next]_vars
  PROVE  ManualOver'
<1>1. CASE Standing
  <2>1. CASE Open
    BY <1>1, <2>1 DEF Standing, Disposal, Open, ManualOver, None
  <2>2. CASE ~Open
    BY <1>1, <2>2, NothingNew DEF Standing, ManualOver
  <2> QED  BY <2>1, <2>2
<1>2. CASE Dispose
  BY <1>2, DisposeIs DEF ManualOver
<1>3. ASSUME DisposalStep PROVE \A j \in Jobs : Alive(j)' /\ job'[j].manual => Alive(j) /\ job[j].manual
  <2>1. JobsSame
    BY <1>3, QuietDisposal DEF Quiet
  <2> QED  BY <2>1, JobsSameIs DEF Alive
<1>4. ASSUME DisposalStep, Awaits, UNCHANGED life, ~life.disposed PROVE ManualOver'
  <2>1. CASE ToCompaction
    <3>1. \A j \in Jobs : Alive(j) => j = comp.current
      BY DEF Apart, OneJob
    <3> QED  BY <1>3, <1>4, <2>1, <3>1 DEF ToCompaction, ManualOver
  <2>2. CASE ~IsCompacting
    <3>1. \A j \in Jobs : ~Alive(j)
      BY <2>2, NobodyAlive
    <3> QED  BY <1>3, <1>4, <3>1 DEF ManualOver
  <2> QED  BY <1>4, <2>1, <2>2 DEF Awaits
<1>5. CASE DisposalBegins
  <2>1. disposal.pc = "begun" /\ UNCHANGED life /\ ~life.disposed
    BY <1>5 DEF DisposalBegins, Disposal, None
  <2>2. CASE disposal' = [disposal EXCEPT !.pc = "queues"]
    <3>1. disposal'.pc = "queues"
      BY <2>2 DEF TypeOK, DisposalType
    <3> QED  BY <2>1, <3>1 DEF ManualOver
  <2> QED  BY <1>4, <1>5, <2>1, <2>2, DisposalBeginsType DEF DisposalStep
<1>6. CASE DisposalQueuesShown
  <2>1. ~life.disposed
    BY <1>6, DisposalQueuesShownType DEF Disposal, None
  <2> QED  BY <1>4, <1>6, <2>1, DisposalQueuesShownType DEF DisposalStep
<1>7. CASE DisposalAwaited
  <2>1. UNCHANGED life /\ ~life.disposed
    BY <1>7, DisposalAwaitedType DEF Disposal, None
  <2>2. \A j \in Jobs : Alive(j) => ~job[j].manual
    BY <1>7, DisposalAwaitedType DEF ManualOver
  <2>3. disposal'.pc # "compaction"
    BY <1>7, DisposalAwaitedType DEF ToReload, ToPrompt, TypeOK, DisposalType
  <2> QED  BY <1>3, <1>7, <2>2, <2>3 DEF ManualOver, DisposalStep
<1>8. CASE DisposalEnds
  <2>1. \A j \in Jobs : Alive(j) => ~job[j].manual
    BY <1>8, DisposalEndsType DEF ManualOver
  <2>2. disposal'.pc = None
    BY <1>8, DisposalEndsType DEF TypeOK, DisposalType
  <2> QED  BY <1>3, <1>8, <2>1, <2>2 DEF ManualOver, DisposalStep, None
<1> QED  BY <1>1, <1>2, <1>5, <1>6, <1>7, <1>8, StandingIs DEF DisposalStep

LEMMA PromptsOverStep ==
  ASSUME TypeOK, Owned, Apart, Disposal, PromptsOver, [Next]_vars
  PROVE  PromptsOver'
<1>1. CASE Standing
  <2>1. CASE Open
    BY <1>1, <2>1 DEF Standing, Disposal, Open, PromptsOver, None
  <2>2. CASE ~Open
    BY <1>1, <2>2, NothingNew DEF Standing, PromptsOver
  <2> QED  BY <2>1, <2>2
<1>2. CASE Dispose
  BY <1>2, DisposeIs DEF PromptsOver
<1>3. ASSUME DisposalStep PROVE \A c \in Prompts : Prompting(c)' => Prompting(c)
  <2>1. CallsSame
    BY <1>3, QuietDisposal DEF Quiet
  <2> QED  BY <2>1 DEF CallsSame, Prompting, Finished
<1>4. ASSUME DisposalStep, ToCompaction \/ ToReload \/ ToPrompt, UNCHANGED life, ~life.disposed
      PROVE  PromptsOver'
  <2>1. \A c \in Prompts : Prompting(c) => c = flags.settlement
    BY DEF Apart, OnePrompt
  <2> QED  BY <1>3, <1>4, <2>1 DEF ToCompaction, ToReload, ToPrompt, PromptsOver
<1>5. CASE DisposalBegins
  <2>1. disposal.pc = "begun" /\ UNCHANGED life /\ ~life.disposed
    BY <1>5 DEF DisposalBegins, Disposal, None
  <2>2. CASE disposal' = [disposal EXCEPT !.pc = "queues"]
    <3>1. disposal'.pc = "queues"
      BY <2>2 DEF TypeOK, DisposalType
    <3> QED  BY <2>1, <3>1 DEF PromptsOver
  <2> QED  BY <1>4, <1>5, <2>1, <2>2, DisposalBeginsType DEF DisposalStep, Awaits
<1>6. CASE DisposalQueuesShown
  <2>1. ~life.disposed
    BY <1>6, DisposalQueuesShownType DEF Disposal, None
  <2> QED  BY <1>4, <1>6, <2>1, DisposalQueuesShownType DEF DisposalStep, Awaits
<1>7. CASE DisposalAwaited
  <2>1. UNCHANGED life /\ ~life.disposed
    BY <1>7, DisposalAwaitedType DEF Disposal, None
  <2>2. CASE /\ disposal.pc = "prompt" /\ Settled(disposal.waits)
             /\ disposal' = [disposal EXCEPT !.pc = "extensions", !.waits = None]
    <3>1. \A c \in Prompts : Prompting(c) => c = disposal.waits
      BY <2>2 DEF PromptsOver
    <3>2. \A c \in Prompts : ~Prompting(c)
      BY <2>2, <3>1, AgentSessionAssumption DEF Settled, Prompting, None
    <3>3. disposal'.pc = "extensions"
      BY <2>2 DEF TypeOK, DisposalType
    <3> QED  BY <1>3, <1>7, <3>2, <3>3 DEF PromptsOver, DisposalStep
  <2> QED  BY <1>4, <1>7, <2>1, <2>2, DisposalAwaitedType DEF DisposalStep
<1>8. CASE DisposalEnds
  <2>1. \A c \in Prompts : ~Prompting(c)
    BY <1>8, DisposalEndsType DEF PromptsOver
  <2>2. disposal'.pc = None
    BY <1>8, DisposalEndsType DEF TypeOK, DisposalType
  <2> QED  BY <1>3, <1>8, <2>1, <2>2 DEF PromptsOver, DisposalStep, None
<1> QED  BY <1>1, <1>2, <1>5, <1>6, <1>7, <1>8, StandingIs DEF DisposalStep

----------------------------------------------------------------------------
(* The transcript and the context of the branch.                           *)

NumberedAs(s) == \A i \in DOMAIN s : s[i].id = i /\ s[i].kept <= Len(s)

LEMMA LonerIs ==
  ASSUME NEW S, NEW s \in Seq(S), NEW x \in S
  PROVE  /\ Append(s, x) \in Seq(S) /\ Append(s, x) = s \o <<x>>
         /\ DOMAIN Append(s, x) = 1 .. Len(s) + 1 /\ Len(s) \in Nat /\ DOMAIN s = 1 .. Len(s)
         /\ Len(Append(s, x)) = Len(s) + 1
         /\ \A i \in 1 .. Len(s) : Append(s, x)[i] = s[i]
         /\ Append(s, x)[Len(s) + 1] = x
<1>1. /\ Append(s, x) \in Seq(S) /\ Len(Append(s, x)) = Len(s) + 1
      /\ DOMAIN Append(s, x) = 1 .. Len(s) + 1 /\ Len(s) \in Nat /\ DOMAIN s = 1 .. Len(s)
      /\ \A i \in 1 .. Len(s) : Append(s, x)[i] = s[i]
      /\ Append(s, x)[Len(s) + 1] = x
  OBVIOUS
<1>2. Append(s, x) = s \o <<x>>
  OBVIOUS
<1> QED  BY <1>1, <1>2

\* What is said, but for the entries of u; Said is SaidBut of what is unread.
SaidBut(ms, u) == At(ms, {i \in DOMAIN ms : ms[i].kind # "overflow" /\ ms[i].id \notin u})

LEMMA SaidMore ==
  ASSUME NEW s \in Seq(Entries), NEW e \in Entries, NEW u
  PROVE  /\ SaidBut(s, u) \in Seq(Entries)
         /\ SaidBut(Append(s, e), u) =
               IF e.kind = "overflow" \/ e.id \in u THEN SaidBut(s, u) ELSE Append(SaidBut(s, u), e)
<1> DEFINE t == Append(s, e)
           l == Len(s) + 1
           I == {i \in DOMAIN s : s[i].kind # "overflow" /\ s[i].id \notin u}
           J == {i \in DOMAIN t : t[i].kind # "overflow" /\ t[i].id \notin u}
<1>1. /\ t \in Seq(Entries) /\ DOMAIN t = 1 .. l /\ Len(s) \in Nat /\ DOMAIN s = 1 .. Len(s)
      /\ \A i \in 1 .. Len(s) : t[i] = s[i]
      /\ t[l] = e
  BY LonerIs
<1>2. SaidBut(s, u) = At(s, I) /\ SaidBut(t, u) = At(t, J) /\ I \in SUBSET DOMAIN s
  BY DEF SaidBut
<1> HIDE DEF t
<1>3. At(s, I) = At(t, I)
  <2>1. I \subseteq DOMAIN t /\ \A i \in I : s[i] = t[i]
    BY <1>1
  <2> HIDE DEF I
  <2> QED  BY <1>1, <1>2, <2>1, AtSame
<1>4. At(s, I) \in Seq(Entries)
  BY <1>2, AtIs
<1>5. CASE e.kind = "overflow" \/ e.id \in u
  <2>1. J = I
    BY <1>1, <1>5
  <2> QED  BY <1>2, <1>3, <1>4, <1>5, <2>1 DEF t
<1>6. CASE ~(e.kind = "overflow" \/ e.id \in u)
  <2>1. J = I \cup {l}
    BY <1>1, <1>6
  <2>2. I \in SUBSET DOMAIN t /\ l \in DOMAIN t /\ \A i \in I : i < l
    BY <1>1
  <2> HIDE DEF I, J, l
  <2>3. At(t, I \cup {l}) = Append(At(t, I), t[l])
    BY <1>1, <2>2, AtMore
  <2> QED  BY <1>1, <1>2, <1>3, <1>4, <1>6, <2>1, <2>3 DEF t
<1> QED  BY <1>5, <1>6

\* More is left out of what is said: the entries of v, of what is said but for u.
Rest(s, v) == At(s, {k \in DOMAIN s : s[k].id \notin v})

LEMMA SaidLess ==
  ASSUME NEW s \in Seq(Entries), NEW u, NEW v, u \subseteq v
  PROVE  SaidBut(s, v) = Rest(SaidBut(s, u), v)
<1> DEFINE I == {i \in DOMAIN s : s[i].kind # "overflow" /\ s[i].id \notin u}
           J == {i \in DOMAIN s : s[i].kind # "overflow" /\ s[i].id \notin v}
           a == At(s, I)
<1>1. I \in SUBSET DOMAIN s /\ J \in SUBSET I /\ SaidBut(s, u) = a /\ SaidBut(s, v) = At(s, J)
  BY DEF SaidBut
<1>2. \A i \in I : i \in J <=> s[i].id \notin v
  OBVIOUS
<1> HIDE DEF I, J
<1>3. /\ IsFiniteSet(I) /\ I \subseteq Nat /\ Cardinality(I) \in Nat /\ a \in Seq(Entries)
      /\ Len(a) = Cardinality(I) /\ \A n \in 1 .. Cardinality(I) : a[n] = s[Nth(I, n)]
  BY <1>1, AtIs
<1>4. \A n \in 1 .. Cardinality(I) : Nth(I, n) \in I
  BY <1>3, NthIs
<1>5. At(a, {k \in 1 .. Cardinality(I) : Nth(I, k) \in J}) = At(s, J)
  BY <1>1, AtAt
<1> HIDE DEF a
<1>6. DOMAIN a = 1 .. Cardinality(I)
  BY <1>3
<1>7. {k \in 1 .. Cardinality(I) : Nth(I, k) \in J} = {k \in DOMAIN a : a[k].id \notin v}
  BY <1>2, <1>3, <1>4, <1>6
<1> QED  BY <1>1, <1>5, <1>7 DEF Rest

LEMMA ContextMore ==
  ASSUME NEW s \in Seq(Entries), NumberedAs(s),
         NEW e \in Entries, e.kind # "compaction", e.id = Len(s) + 1
  PROVE  Context(Append(s, e)) = Append(Context(s), e)
<1> DEFINE t == Append(s, e)
           l == Len(s) + 1
<1>1. /\ t \in Seq(Entries) /\ DOMAIN t = 1 .. l /\ Len(s) \in Nat /\ DOMAIN s = 1 .. Len(s)
      /\ Len(t) = l
      /\ \A i \in 1 .. Len(s) : t[i] = s[i]
      /\ t[l] = e
  BY LonerIs
<1> HIDE DEF t
<1>2. Compactions(t) = Compactions(s)
  BY <1>1 DEF Compactions
<1>3. LastOf(t) = LastOf(s) /\ LastOf(s) \in 0 .. Len(s)
  BY <1>2, ContextIs DEF LastOf
<1>4. From(t) = From(s) /\ Summary(t) = Summary(s)
  <2>1. LastOf(s) # 0 => t[LastOf(s)] = s[LastOf(s)]
    BY <1>1, <1>3
  <2> QED  BY <1>3, <2>1 DEF From, Summary
<1>5. From(s) \in Nat /\ From(s) <= l
  <2>1. CASE LastOf(s) = 0
    BY <1>1, <2>1 DEF From
  <2>2. CASE LastOf(s) # 0
    <3>1. LastOf(s) \in DOMAIN s
      BY <1>1, <1>3, <2>2
    <3>2. s[LastOf(s)] \in Entries /\ s[LastOf(s)].kept <= Len(s)
      BY <3>1 DEF NumberedAs
    <3>3. s[LastOf(s)].kept \in Nat
      BY <3>2 DEF Entries
    <3> QED  BY <1>1, <2>2, <3>2, <3>3 DEF From
  <2> QED  BY <2>1, <2>2
<1>6. Spoken(t) = Spoken(s) \cup {l}
  <2>1. \A i \in 1 .. Len(s) : i \in Spoken(t) <=> i \in Spoken(s)
    BY <1>1, <1>4 DEF Spoken
  <2>2. l \in Spoken(t)
    BY <1>1, <1>4, <1>5 DEF Spoken
  <2>3. Spoken(t) \subseteq 1 .. l /\ Spoken(s) \subseteq 1 .. Len(s)
    BY <1>1 DEF Spoken
  <2> QED  BY <1>1, <2>1, <2>2, <2>3
<1>7. /\ Spoken(s) \in SUBSET DOMAIN s /\ Spoken(s) \in SUBSET DOMAIN t /\ l \in DOMAIN t
      /\ \A i \in Spoken(s) : i < l /\ s[i] = t[i]
  BY <1>1 DEF Spoken
<1> HIDE DEF l
<1>8. At(t, Spoken(t)) = Append(At(s, Spoken(s)), e)
  <2>1. At(s, Spoken(s)) = At(t, Spoken(s))
    BY <1>1, <1>7, AtSame
  <2>2. At(t, Spoken(s) \cup {l}) = Append(At(t, Spoken(s)), t[l])
    BY <1>1, <1>7, AtMore
  <2> QED  BY <1>1, <1>6, <2>1, <2>2
<1>9. /\ Context(t) = Summary(t) \o At(t, Spoken(t))
      /\ Context(s) = Summary(s) \o At(s, Spoken(s))
      /\ Summary(s) \in Seq(Entries) /\ At(s, Spoken(s)) \in Seq(Entries)
  BY <1>1, ContextIs
<1>10. ASSUME NEW a \in Seq(Entries), NEW b \in Seq(Entries) PROVE a \o Append(b, e) = Append(a \o b, e)
  OBVIOUS
<1> QED  BY <1>4, <1>8, <1>9, <1>10 DEF t

LEMMA SaidWithout ==
  ASSUME NEW s \in Seq(Entries)
  PROVE  \A u : SaidBut(WithoutOverflow(s), u) = SaidBut(s, u)
<1>1. CASE s # <<>> /\ Last(s).kind = "overflow"
  <2>1. Front(s) \in Seq(Entries) /\ Last(s) \in Entries /\ s = Append(Front(s), Last(s))
    <3>1. Len(s) \in Nat \ {0} /\ DOMAIN s = 1 .. Len(s)
      BY <1>1
    <3>2. Last(s) = s[Len(s)] /\ Front(s) = SubSeq(s, 1, Len(s) - 1)
      BY DEF Last, Front
    <3>3. SubSeq(s, 1, Len(s) - 1) \in Seq(Entries) /\ s[Len(s)] \in Entries
      BY <3>1
    <3>4. s = Append(SubSeq(s, 1, Len(s) - 1), s[Len(s)])
      BY <3>1
    <3> QED  BY <3>2, <3>3, <3>4
  <2>2. WithoutOverflow(s) = Front(s)
    BY <1>1 DEF WithoutOverflow
  <2> DEFINE f == Front(s)
             l == Last(s)
  <2>3. l.kind = "overflow"
    BY <1>1
  <2> HIDE DEF f, l
  <2>4. \A u : SaidBut(Append(f, l), u) = SaidBut(f, u)
    BY <2>1, <2>3, SaidMore DEF f, l
  <2> QED  BY <2>1, <2>2, <2>4 DEF f, l
<1>2. CASE ~(s # <<>> /\ Last(s).kind = "overflow")
  BY <1>2 DEF WithoutOverflow
<1> QED  BY <1>1, <1>2

Agrees(ms, s, u) == SaidBut(ms, u) = SaidBut(Context(s), u)

LEMMA AgreesMore ==
  ASSUME NEW s \in Seq(Entries), NumberedAs(s), NEW ms \in Seq(Entries), NEW u, Agrees(ms, s, u),
         NEW e \in Entries, e.kind # "compaction", e.id = Len(s) + 1
  PROVE  Agrees(Append(ms, e), Append(s, e), u)
<1>1. Context(Append(s, e)) = Append(Context(s), e) /\ Context(s) \in Seq(Entries)
  BY ContextMore, ContextType
<1>2. SaidBut(Append(ms, e), u) =
         IF e.kind = "overflow" \/ e.id \in u THEN SaidBut(ms, u) ELSE Append(SaidBut(ms, u), e)
  BY SaidMore
<1>3. SaidBut(Append(Context(s), e), u) =
         IF e.kind = "overflow" \/ e.id \in u
         THEN SaidBut(Context(s), u) ELSE Append(SaidBut(Context(s), u), e)
  BY <1>1, SaidMore
<1> QED  BY <1>1, <1>2, <1>3 DEF Agrees

\* What a failed run held back is left out on both sides.
LEMMA AgreesUnread ==
  ASSUME NEW s \in Seq(Entries), NEW ms \in Seq(Entries), NEW u,
         NEW e \in Entries, Agrees(Append(ms, e), s, u)
  PROVE  Agrees(ms, s, u \cup {e.id})
<1>1. Context(s) \in Seq(Entries) /\ Append(ms, e) \in Seq(Entries)
  BY ContextType
<1> DEFINE v == u \cup {e.id}
<1>2. SaidBut(Append(ms, e), v) = SaidBut(Context(s), v)
  <2>1. u \subseteq v
    OBVIOUS
  <2> HIDE DEF v
  <2>2. SaidBut(Append(ms, e), u) = SaidBut(Context(s), u)
    BY DEF Agrees
  <2>3. SaidBut(Append(ms, e), v) = Rest(SaidBut(Append(ms, e), u), v)
    <3> DEFINE a == Append(ms, e)
    <3>1. a \in Seq(Entries)
      BY <1>1
    <3> HIDE DEF a
    <3>2. SaidBut(a, v) = Rest(SaidBut(a, u), v)
      BY <2>1, <3>1, SaidLess
    <3> QED  BY <3>2 DEF a
  <2>4. SaidBut(Context(s), v) = Rest(SaidBut(Context(s), u), v)
    BY <1>1, <2>1, SaidLess
  <2> QED  BY <2>2, <2>3, <2>4
<1>3. SaidBut(Append(ms, e), v) = SaidBut(ms, v)
  BY SaidMore
<1> QED  BY <1>2, <1>3 DEF Agrees

----------------------------------------------------------------------------
(* What a step makes of the store, of the cuts and of the transcript.      *)

Grows(s) ==
    \/ s = store
    \/ \E e \in Entries : e.id = Len(store) + 1 /\ e.kept <= Len(store) /\ s = Append(store, e)
Cuts == \A j \in Jobs : job'[j].kept <= Len(store)

LEMMA NumberedByGrowth ==
  ASSUME TypeOK, TypeOK', Numbered, Grows(store'), Cuts
  PROVE  Numbered'
<1>1. store \in Seq(Entries) /\ \A j \in Jobs : job'[j].kept \in Nat
  BY DEF TypeOK, StoreType, JobType, Tasks
<1>2. Len(store) \in Nat
  BY <1>1
<1>3. CASE store' = store
  BY <1>3 DEF Numbered, Cuts
<1>4. ASSUME NEW e \in Entries, e.id = Len(store) + 1, e.kept <= Len(store), store' = Append(store, e)
      PROVE  Numbered'
  <2>1. /\ DOMAIN store' = 1 .. Len(store) + 1 /\ DOMAIN store = 1 .. Len(store)
        /\ Len(store') = Len(store) + 1
        /\ \A i \in 1 .. Len(store) : store'[i] = store[i]
        /\ store'[Len(store) + 1] = e
    BY <1>1, <1>4, LonerIs
  <2>2. \A i \in 1 .. Len(store) : store[i].kept \in Nat
    <3>1. \A i \in 1 .. Len(store) : store[i] \in Entries
      BY <1>1
    <3> QED  BY <3>1 DEF Entries
  <2>3. e.kept \in Nat
    BY DEF Entries
  <2>4. \A i \in DOMAIN store' : store'[i].id = i /\ store'[i].kept <= Len(store')
    BY <1>2, <1>4, <2>1, <2>2, <2>3 DEF Numbered
  <2>5. \A j \in Jobs : job'[j].kept <= Len(store')
    BY <1>1, <1>2, <2>1 DEF Cuts
  <2> QED  BY <2>4, <2>5 DEF Numbered
<1> QED  BY <1>3, <1>4 DEF Grows

LEMMA NewEntry ==
  ASSUME TypeOK, NEW kind \in Kinds, NEW kept \in Nat, kept <= Len(store), NEW m \in Queued \cup {None}
  PROVE  /\ Entry(kind, kept, m) \in Entries /\ Entry(kind, kept, m).id = Len(store) + 1
         /\ Entry(kind, kept, m).kind = kind
         /\ Grows(Append(store, Entry(kind, kept, m)))
<1>1. Entry(kind, kept, m) \in Entries
  BY EntryType DEF TypeOK
<1>2. /\ Entry(kind, kept, m).id = Len(store) + 1 /\ Entry(kind, kept, m).kept = kept
      /\ Entry(kind, kept, m).kind = kind
  BY DEF Entry
<1> QED  BY <1>1, <1>2 DEF Grows

LEMMA NewUser ==
  ASSUME TypeOK
  PROVE  /\ Entry("user", 0, None) \in Entries /\ Entry("user", 0, None).id = Len(store) + 1
         /\ Entry("user", 0, None).kind = "user" /\ Grows(Append(store, Entry("user", 0, None)))
<1>1. 0 <= Len(store) /\ "user" \in Kinds
  BY DEF TypeOK, StoreType, Kinds
<1> QED  BY <1>1, NewEntry

LEMMA GrowsByPrompts ==
  ASSUME TypeOK, NEW c \in Prompts, AgentMoves(c)
  PROVE  Grows(store')
<1>1. Grows(store)
  BY DEF Grows
<1> QED
  BY <1>1, NewUser DEF AgentMoves, AgentStays, AgentRefuses, AgentPrompted, AgentContinued

\* TakenJoins and RunEnds: the same entry is appended to both.
Spoke(e) ==
    /\ e \in Entries /\ e.id = Len(store) + 1 /\ e.kind # "compaction"
    /\ Grows(Append(store, e)) /\ store' = Append(store, e)
    /\ agent'.msgs = Append(agent.msgs, e) /\ agent'.prompt = agent.prompt
    /\ agent'.unread = agent.unread

LEMMA TakenJoinsIs ==
  ASSUME TypeOK, TakenJoins
  PROVE  \E e : Spoke(e)
<1> DEFINE e == Entry("user", 0, Head(agent.taken))
<1>1. /\ agent' = [agent EXCEPT !.msgs = Append(agent.msgs, e), !.taken = <<>>, !.begun = FALSE]
      /\ store' = Append(store, e) /\ agent.taken # <<>>
  BY DEF TakenJoins
<1>2. Head(agent.taken) \in Queued
  BY <1>1 DEF TypeOK, AgentType, Agents
<1>3. 0 <= Len(store) /\ "user" \in Kinds
  BY DEF TypeOK, StoreType, Kinds
<1>4. e \in Entries /\ e.id = Len(store) + 1 /\ e.kind = "user" /\ Grows(Append(store, e))
  BY <1>2, <1>3, NewEntry
<1> HIDE DEF e
<1>5. /\ agent'.msgs = Append(agent.msgs, e) /\ agent'.prompt = agent.prompt
      /\ agent'.unread = agent.unread
  BY <1>1 DEF TypeOK, AgentType, Agents
<1> QED  BY <1>1, <1>4, <1>5 DEF Spoke

LEMMA RunEndsIs ==
  ASSUME TypeOK, RunEnds
  PROVE  \E e : Spoke(e)
<1>1. PICK kind \in Assistants :
        /\ agent' = [agent EXCEPT !.run = None, !.msgs = Append(agent.msgs, Entry(kind, 0, None))]
        /\ store' = Append(store, Entry(kind, 0, None))
  BY DEF RunEnds
<1> DEFINE e == Entry(kind, 0, None)
<1>2. 0 <= Len(store) /\ kind \in Kinds /\ kind # "compaction"
  BY DEF TypeOK, StoreType, Kinds, Assistants
<1>3. e \in Entries /\ e.id = Len(store) + 1 /\ e.kind = kind /\ Grows(Append(store, e))
  BY <1>2, NewEntry
<1>4. agent' = [agent EXCEPT !.run = None, !.msgs = Append(agent.msgs, e)] /\ store' = Append(store, e)
  BY <1>1
<1> HIDE DEF e
<1>5. /\ agent'.msgs = Append(agent.msgs, e) /\ agent'.prompt = agent.prompt
      /\ agent'.unread = agent.unread
  BY <1>4 DEF TypeOK, AgentType, Agents
<1> QED  BY <1>2, <1>3, <1>4, <1>5 DEF Spoke

LEMMA RunGrows ==
  ASSUME TypeOK, RunStep
  PROVE  Grows(store')
<1>1. CASE TakenJoins \/ RunEnds
  BY <1>1, TakenJoinsIs, RunEndsIs DEF Spoke
<1>2. CASE RunStarts \/ PromptJoins \/ RunPolls \/ TakenBegins \/ RunFails
  BY <1>2 DEF RunStarts, PromptJoins, RunPolls, TakenBegins, RunFails, Grows
<1> QED  BY <1>1, <1>2 DEF RunStep

LEMMA NumberedStep ==
  ASSUME TypeOK, Owned, Numbered, [Next]_vars
  PROVE  Numbered'
<1>1. TypeOK' /\ \A j \in Jobs : job[j].kept <= Len(store)
  BY StepKinds DEF Numbered
<1>2. FirstToKeep <= Len(store) /\ 0 <= Len(store)
  BY FirstToKeepIs DEF TypeOK, StoreType
<1>3. Grows(store)
  BY DEF Grows
<1>4. ASSUME NEW c \in Prompts, PromptActs(c) \/ CallActs(c) PROVE Numbered'
  <2>1. PromptJobs(c) /\ AgentMoves(c)
    BY <1>4 DEF PromptActs, PromptMoves, CallActs, PromptJobs
  <2>2. \A j \in Jobs : job'[j].kept \in {0, FirstToKeep, job[j].kept}
    BY <2>1, PromptJobsAlive
  <2> QED  BY <1>1, <1>2, <2>1, <2>2, GrowsByPrompts, NumberedByGrowth DEF Cuts
<1>5. ASSUME NEW j \in Jobs, JobActs(j) PROVE Numbered'
  <2>1. \A i \in Jobs : job'[i].kept \in {FirstToKeep, job[i].kept}
    BY <1>5 DEF JobActs, JobMoves, CutKept
  <2>2. Grows(Committed(j))
    <3>1. job[j].kept \in Nat /\ "compaction" \in Kinds /\ None \in Queued \cup {None}
      BY DEF TypeOK, JobType, Tasks, Kinds
    <3> QED  BY <1>1, <3>1, NewEntry DEF Committed
  <2>3. Grows(store')
    BY <1>3, <1>5, <2>2 DEF JobActs, JobRewrites
  <2> QED  BY <1>1, <1>2, <2>1, <2>3, NumberedByGrowth DEF Cuts
<1>6. ASSUME NEW j \in Jobs, CompactReturns(j) PROVE Numbered'
  <2>1. job' = FreeSlot(j) /\ UNCHANGED store
    BY <1>6, CompactReturnsType
  <2>2. \A i \in Jobs : job'[i].kept \in {0, job[i].kept}
    BY <2>1, FreeSlotIs
  <2> QED  BY <1>1, <1>2, <1>3, <2>1, <2>2, NumberedByGrowth DEF Cuts
<1>7. CASE RunStep
  BY <1>1, <1>7, RunGrows, RunStepIs, NumberedByGrowth DEF Cuts
<1>8. CASE Compact
  <2>1. PICK j \in Jobs : NewJob(j, TRUE)
    BY <1>8, CompactType
  <2>2. \A i \in Jobs : job'[i].kept \in {0, FirstToKeep, job[i].kept}
    BY <2>1, NewJobIs
  <2> QED  BY <1>1, <1>2, <1>3, <1>8, <2>2, CompactType, NumberedByGrowth DEF Cuts
<1>9. CASE Quiet
  BY <1>1, <1>3, <1>9, JobsSameIs, NumberedByGrowth DEF Quiet, Cuts
<1> QED  BY <1>4, <1>5, <1>6, <1>7, <1>8, <1>9, StepKinds

LEMMA HeldStep ==
  ASSUME TypeOK, Owned, Held, [Next]_vars
  PROVE  Held'
<1>1. ASSUME agent'.prompt = agent.prompt, agent'.taken = agent.taken, agent'.begun = agent.begun,
             agent'.run = agent.run \/ agent'.run = "lost" \/ agent'.run = "running"
      PROVE  Held'
  BY <1>1 DEF Held, None
<1>2. Idle => agent.prompt = <<>> /\ agent.taken = <<>> /\ ~agent.begun
  BY DEF Held, Idle
<1>3. ASSUME NEW c \in Prompts, PromptActs(c) \/ CallActs(c) PROVE Held'
  <2>1. AgentMoves(c)
    BY <1>3 DEF PromptActs, CallActs
  <2>2. CASE AgentStays(c) \/ AgentRefuses(c)
    <3>1. /\ agent'.prompt = agent.prompt /\ agent'.taken = agent.taken
          /\ agent'.begun = agent.begun /\ agent'.run = agent.run
      BY <2>2 DEF AgentStays, AgentRefuses, TypeOK, AgentType, Agents
    <3> QED  BY <1>1, <3>1
  <2>3. CASE AgentPrompted(c)
    <3> DEFINE user == Entry("user", 0, None)
    <3>1. user \in Entries
      BY NewUser
    <3> HIDE DEF user
    <3>2. /\ agent'.prompt = <<user>> /\ agent'.taken = agent.taken
          /\ agent'.begun = agent.begun /\ agent'.run = "launched" /\ Idle
      BY <2>3 DEF AgentPrompted, TypeOK, AgentType, Agents, user
    <3> QED  BY <1>2, <3>1, <3>2 DEF Held, None
  <2>4. CASE AgentContinued(c)
    <3>1. /\ agent'.prompt = agent.prompt /\ agent'.begun = agent.begun
          /\ agent'.run = "launched" /\ Idle
      BY <2>4 DEF AgentContinued, TypeOK, AgentType, Agents
    <3> QED  BY <1>2, <3>1 DEF Held, None
  <2> QED  BY <2>1, <2>2, <2>3, <2>4 DEF AgentMoves
<1>4. ASSUME NEW j \in Jobs, JobActs(j) PROVE Held'
  <2>1. /\ agent'.prompt = agent.prompt /\ agent'.taken = agent.taken /\ agent'.begun = agent.begun
        /\ agent'.run = agent.run \/ agent'.run = "lost"
    BY <1>4 DEF JobActs, JobRewrites, Aborted, TypeOK, AgentType, Agents
  <2> QED  BY <1>1, <2>1
<1>5. ASSUME NEW j \in Jobs, CompactReturns(j) PROVE Held'
  BY <1>1, <1>5, CompactReturnsType
<1>6. CASE RunStep
  <2>1. CASE RunStarts
    BY <1>1, <2>1 DEF RunStarts, TypeOK, AgentType, Agents
  <2>2. CASE PromptJoins
    <3>1. agent'.prompt = <<>> /\ agent'.taken = <<>> /\ agent'.begun = agent.begun /\ ~agent.begun
      BY <2>2 DEF PromptJoins, Held, TypeOK, AgentType, Agents
    <3> QED  BY <3>1 DEF Held
  <2>3. CASE RunPolls
    <3>1. /\ agent'.prompt = <<>> /\ agent'.begun = agent.begun /\ ~agent.begun
          /\ agent'.run = "running"
      BY <2>3 DEF RunPolls, Takes, Holds, Held, TypeOK, AgentType, Agents
    <3> QED  BY <3>1 DEF Held, None
  <2>4. CASE TakenBegins
    <3>1. /\ agent'.prompt = agent.prompt /\ agent'.taken = agent.taken
          /\ agent'.run = "running" /\ agent.taken # <<>>
      BY <2>4 DEF TakenBegins, TypeOK, AgentType, Agents
    <3> QED  BY <3>1 DEF Held, None
  <2>5. CASE TakenJoins
    <3>1. agent'.prompt = agent.prompt /\ agent.prompt = <<>> /\ ~agent'.begun /\ agent'.taken = <<>>
      BY <2>5 DEF TakenJoins, Held, TypeOK, AgentType, Agents
    <3> QED  BY <3>1 DEF Held
  <2>6. CASE RunEnds
    <3>1. PICK kind \in Assistants :
            agent' = [agent EXCEPT !.run = None, !.msgs = Append(agent.msgs, Entry(kind, 0, None))]
      BY <2>6 DEF RunEnds
    <3>2. /\ agent'.prompt = agent.prompt /\ agent'.taken = agent.taken /\ agent'.begun = agent.begun
          /\ agent.prompt = <<>> /\ agent.taken = <<>> /\ ~agent.begun
      BY <2>6, <3>1 DEF RunEnds, Holds, Held, TypeOK, AgentType, Agents
    <3> QED  BY <3>2 DEF Held
  <2>7. CASE RunFails
    <3>1. agent'.prompt = <<>> /\ agent'.taken = <<>> /\ ~agent'.begun
      BY <2>7 DEF RunFails, TypeOK, AgentType, Agents
    <3> QED  BY <3>1 DEF Held
  <2> QED  BY <1>6, <2>1, <2>2, <2>3, <2>4, <2>5, <2>6, <2>7 DEF RunStep
<1>7. CASE Compact \/ Quiet
  BY <1>1, <1>7, CompactType DEF Quiet
<1> QED  BY <1>3, <1>4, <1>5, <1>6, <1>7, StepKinds

\* A prompt that moves by itself, or is called, finds the Agent at rest.
LEMMA PromptsAtRest ==
  ASSUME TypeOK, Apart, Unsurprised', NEW c \in Prompts,
         (PromptActs(c) /\ LeavesLost(c)) \/ CallActs(c)
  PROVE  Idle
<1> SUFFICES ASSUME ~Idle PROVE FALSE
  OBVIOUS
<1>1. agent.run # "lost" /\ \E d \in Prompts : call[d].pc = "run"
  BY DEF Idle, Apart, RunOwned
<1>2. PICK d \in Prompts : call[d].pc = "run"
  BY <1>1
<1>3. Prompting(d)
  BY <1>2 DEF Prompting, Finished
<1>4. CASE PromptActs(c) /\ LeavesLost(c)
  <2>1. d = c
    BY <1>3, <1>4 DEF PromptActs, PromptMoves, Apart, OnePrompt
  <2> QED  BY <1>1, <1>2, <1>4, <2>1 DEF LeavesLost
<1>5. CASE CallActs(c)
  <2>1. d # c
    BY <1>2, <1>5 DEF CallActs
  <2> QED  BY <1>3, <1>5, <2>1 DEF CallActs, Unsurprised, Crowded
<1> QED  BY <1>4, <1>5

LEMMA StoreAgreesStep ==
  ASSUME TypeOK, Owned, Unsurprised => Apart, Numbered, Held, StoreAgrees, [Next]_vars
  PROVE  StoreAgrees'
<1> DEFINE Goal == Agrees(agent'.msgs \o agent'.prompt, store', agent'.unread)
<1> SUFFICES ASSUME Unsurprised' PROVE Goal
  BY DEF StoreAgrees, Agrees, Said, SaidBut
<1>1. Unsurprised /\ Apart
  BY OddStep
<1>2. Agrees(agent.msgs \o agent.prompt, store, agent.unread)
  BY <1>1 DEF StoreAgrees, Agrees, Said, SaidBut
<1>3. /\ store \in Seq(Entries) /\ NumberedAs(store)
      /\ agent.msgs \in Seq(Entries) /\ agent.prompt \in Seq(Entries)
  BY DEF TypeOK, StoreType, AgentType, Agents, Numbered, NumberedAs
<1>4. \A ms \in Seq(Entries) : ms \o <<>> = ms
  OBVIOUS
<1>5. agent.prompt = <<>> => Agrees(agent.msgs, store, agent.unread)
  BY <1>2, <1>3, <1>4
<1>6. TypeOK' /\ agent'.msgs \in Seq(Entries)
  BY StepKinds DEF TypeOK, AgentType, Agents
<1>7. ASSUME agent'.prompt = <<>>, Agrees(agent'.msgs, store', agent'.unread) PROVE Goal
  BY <1>4, <1>6, <1>7
<1>8. ASSUME agent'.msgs = agent.msgs, agent'.prompt = agent.prompt, agent'.unread = agent.unread,
             UNCHANGED store
      PROVE  Goal
  BY <1>2, <1>8
<1>9. ASSUME Idle, agent' = [agent EXCEPT !.msgs = Context(store'), !.unread = {}] PROVE Goal
  <2>1. agent.prompt = <<>>
    BY <1>9 DEF Idle, Held
  <2>2. agent'.msgs = Context(store') /\ agent'.prompt = <<>>
    BY <1>9, <2>1 DEF TypeOK, AgentType, Agents
  <2> QED  BY <1>7, <2>2 DEF Agrees
<1> HIDE DEF Goal
<1>10. ASSUME NEW c \in Prompts, (PromptActs(c) /\ LeavesLost(c)) \/ CallActs(c)
       PROVE  Goal
  <2>1. Idle /\ AgentMoves(c)
    BY <1>1, <1>10, PromptsAtRest DEF PromptActs, CallActs
  <2>2. agent.prompt = <<>> /\ Agrees(agent.msgs, store, agent.unread)
    BY <1>5, <2>1 DEF Idle, Held
  <2>3. \A ms \in {agent.msgs, WithoutOverflow(agent.msgs)} :
           ms \in Seq(Entries) /\ Agrees(ms, store, agent.unread)
    BY <1>3, <2>2, SaidWithout, WithoutType DEF Agrees
  <2>4. CASE /\ call'[c].pc # "run" /\ store' = store
             /\ \E ms \in Seq(Entries) : Rewritten(ms) /\ agent' = [agent EXCEPT !.msgs = ms]
    <3>1. PICK ms \in Seq(Entries) : Rewritten(ms) /\ agent' = [agent EXCEPT !.msgs = ms]
      BY <2>4
    <3>2. Agrees(ms, store, agent.unread)
      BY <2>3, <3>1 DEF Rewritten
    <3>3. agent'.msgs = ms /\ agent'.prompt = <<>> /\ agent'.unread = agent.unread /\ store' = store
      BY <2>2, <2>4, <3>1 DEF TypeOK, AgentType, Agents
    <3> QED  BY <1>7, <3>2, <3>3
  <2>5. CASE store' = store /\ agent' = [agent EXCEPT !.msgs = Context(store), !.unread = {}]
    BY <1>9, <2>1, <2>5
  <2>6. CASE AgentPrompted(c)
    <3> DEFINE e == Entry("user", 0, None)
    <3>1. e \in Entries /\ e.id = Len(store) + 1 /\ e.kind = "user"
      BY NewUser
    <3>2. PICK ms \in {agent.msgs, WithoutOverflow(agent.msgs)} :
             agent' = [agent EXCEPT !.run = "launched", !.aborted = FALSE, !.msgs = ms, !.prompt = <<e>>]
      BY <2>6 DEF AgentPrompted
    <3>3. store' = Append(store, e)
      BY <2>6 DEF AgentPrompted
    <3> HIDE DEF e
    <3>4. agent'.msgs = ms /\ agent'.prompt = <<e>> /\ agent'.unread = agent.unread
      BY <3>2 DEF TypeOK, AgentType, Agents
    <3>5. Agrees(Append(ms, e), Append(store, e), agent.unread)
      BY <1>3, <2>3, <3>1, AgreesMore
    <3>6. ms \o <<e>> = Append(ms, e)
      BY <2>3, <3>1, LonerIs
    <3> QED  BY <3>3, <3>4, <3>5, <3>6 DEF Goal
  <2>7. CASE AgentContinued(c)
    <3>1. PICK ms \in {agent.msgs, WithoutOverflow(agent.msgs)} :
             agent'.msgs = ms /\ agent'.prompt = agent.prompt /\ agent'.unread = agent.unread
      BY <2>7 DEF AgentContinued, TypeOK, AgentType, Agents
    <3> QED  BY <1>7, <2>2, <2>3, <2>7, <3>1 DEF AgentContinued
  <2> QED  BY <2>1, <2>4, <2>5, <2>6, <2>7 DEF AgentMoves, AgentStays, AgentRefuses
<1>11. ASSUME NEW j \in Jobs, JobActs(j) PROVE Goal
  <2>1. JobRewrites(j)
    BY <1>11 DEF JobActs
  <2>2. CASE UNCHANGED store /\ (UNCHANGED agent \/ agent' = Aborted(agent))
    <3>1. agent'.msgs = agent.msgs /\ agent'.prompt = agent.prompt /\ agent'.unread = agent.unread
      BY <2>2 DEF Aborted, TypeOK, AgentType, Agents
    <3> QED  BY <1>8, <2>2, <3>1
  <2>3. CASE UNCHANGED store /\ Idle /\ agent' = [agent EXCEPT !.msgs = Context(store), !.unread = {}]
    BY <1>9, <2>3
  <2>4. CASE /\ job[j].pc = "summarizing" /\ store' = Committed(j)
             /\ IF Idle THEN agent' = [agent EXCEPT !.msgs = Context(Committed(j)), !.unread = {}]
                        ELSE UNCHANGED agent
    <3>1. Idle
      BY <1>1, <2>4, PreparedAlone DEF Prepared
    <3> QED  BY <1>9, <2>4, <3>1
  <2> QED  BY <2>1, <2>2, <2>3, <2>4 DEF JobRewrites
<1>12. ASSUME NEW j \in Jobs, CompactReturns(j) PROVE Goal
  BY <1>8, <1>12, CompactReturnsType
<1>13. CASE RunStarts \/ RunPolls \/ TakenBegins
  <2>1. /\ agent'.msgs = agent.msgs /\ agent'.prompt = agent.prompt
        /\ agent'.unread = agent.unread /\ UNCHANGED store
    BY <1>13 DEF RunStarts, RunPolls, Takes, TakenBegins, TypeOK, AgentType, Agents
  <2> QED  BY <1>8, <2>1
<1>14. CASE PromptJoins
  <2>1. /\ agent'.msgs = agent.msgs \o agent.prompt /\ agent'.prompt = <<>>
        /\ agent'.unread = agent.unread /\ UNCHANGED store
    BY <1>14 DEF PromptJoins, TypeOK, AgentType, Agents
  <2> QED  BY <1>2, <1>7, <2>1
<1>15. CASE TakenJoins \/ RunEnds
  <2>1. PICK e : Spoke(e)
    BY <1>15, TakenJoinsIs, RunEndsIs
  <2>2. agent.prompt = <<>> /\ Agrees(agent.msgs, store, agent.unread)
    BY <1>5, <1>15 DEF TakenJoins, RunEnds, Holds, Held
  <2>3. Agrees(Append(agent.msgs, e), Append(store, e), agent.unread)
    BY <1>3, <2>1, <2>2, AgreesMore DEF Spoke
  <2> QED  BY <1>7, <2>1, <2>2, <2>3 DEF Spoke
<1>16. CASE RunFails
  <2>1. /\ agent'.msgs = agent.msgs /\ agent'.prompt = <<>> /\ UNCHANGED store
        /\ agent'.unread = agent.unread \cup {e.id : e \in ToSet(agent.prompt)}
    BY <1>16 DEF RunFails, TypeOK, AgentType, Agents
  <2>2. CASE agent.prompt = <<>>
    <3>1. ToSet(agent.prompt) = {}
      BY <2>2 DEF ToSet
    <3>2. agent'.unread = agent.unread
      BY <2>1, <3>1
    <3> QED  BY <1>5, <1>7, <2>1, <2>2, <3>2
  <2>3. ASSUME NEW e \in Entries, agent.prompt = <<e>> PROVE Goal
    <3>1. ToSet(agent.prompt) = {e}
      BY <2>3 DEF ToSet
    <3>2. agent'.unread = agent.unread \cup {e.id}
      BY <2>1, <3>1
    <3>3. agent.msgs \o agent.prompt = Append(agent.msgs, e)
      BY <1>3, <2>3, LonerIs
    <3>4. Agrees(agent.msgs, store, agent.unread \cup {e.id})
      BY <1>2, <1>3, <3>3, AgreesUnread
    <3> QED  BY <1>7, <2>1, <3>2, <3>4
  <2> QED  BY <2>2, <2>3 DEF Held
<1>17. CASE Compact \/ Quiet
  BY <1>8, <1>17, CompactType DEF Quiet
<1> QED
  BY <1>10, <1>11, <1>12, <1>13, <1>14, <1>15, <1>16, <1>17, StepKinds DEF RunStep

----------------------------------------------------------------------------
(* The invariant holds, and what it says.                                  *)

LEMMA ResumedIs ==
  /\ Resumed \in Seq(Entries) /\ NumberedAs(Resumed)
  /\ \A i \in DOMAIN Resumed : Resumed[i].m = None
  /\ Context(Resumed) = Resumed
<1>1. Len(Opened) \in Nat /\ \A i \in 1 .. Len(Opened) : Opened[i] \in {"user", "ok", "big", "overflow", "aborted"}
  BY AgentSessionAssumption
<1>2. \A i \in 1 .. Len(Opened) :
         [kind |-> Opened[i], id |-> i, kept |-> 0, m |-> None] \in Entries
  BY <1>1 DEF Entries, Kinds, Assistants
<1>3. Resumed \in Seq(Entries) /\ DOMAIN Resumed = 1 .. Len(Opened) /\ Len(Resumed) = Len(Opened)
  BY <1>1, <1>2 DEF Resumed
<1>4. \A i \in 1 .. Len(Opened) : /\ Resumed[i].id = i /\ Resumed[i].kept = 0 /\ Resumed[i].m = None
                                  /\ Resumed[i].kind # "compaction"
  BY <1>1 DEF Resumed
<1>5. NumberedAs(Resumed)
  BY <1>1, <1>3, <1>4 DEF NumberedAs
<1>6. LastOf(Resumed) = 0 /\ From(Resumed) = 1
  BY <1>3, <1>4 DEF Compactions, LastOf, From
<1>7. Spoken(Resumed) = DOMAIN Resumed
  BY <1>1, <1>3, <1>4, <1>6 DEF Spoken
<1>8. Context(Resumed) = <<>> \o At(Resumed, DOMAIN Resumed)
  BY <1>3, <1>6, <1>7, ContextIs DEF Summary
<1>9. At(Resumed, DOMAIN Resumed) = Resumed
  BY <1>3, AtAll
<1>10. \A s \in Seq(Entries) : <<>> \o s = s
  OBVIOUS
<1> QED  BY <1>3, <1>4, <1>5, <1>8, <1>9, <1>10

LEMMA InitType ==
  ASSUME Init
  PROVE  TypeOK
<1>1. StoreType /\ AgentType
  BY ResumedIs DEF Init, StoreType, AgentType, Agents
<1>2. WaitType /\ CallType /\ FlagType
  BY DEF Init, WaitType, Waits, CallType, Frames, FlagType, FlagSets
<1>3. JobType /\ CompType /\ LifeType /\ DisposalType
  BY DEF Init, JobType, Tasks, CompType, Comps, LifeType, DisposalType
<1>4. BoundType
  BY AgentSessionAssumption DEF Init, BoundType
<1> QED  BY <1>1, <1>2, <1>3, <1>4 DEF TypeOK

LEMMA InitHolds ==
  ASSUME Init
  PROVE  IInv
<1>1. /\ store = Resumed /\ agent.msgs = Resumed /\ agent.run = None /\ agent.queue = <<>>
      /\ agent.prompt = <<>> /\ agent.taken = <<>> /\ agent.begun = FALSE
      /\ waiting.displayed = {} /\ \A m \in Queued : waiting.state[m] = "new"
      /\ flags.pendingEnd = FALSE /\ flags.settlement = None
      /\ disposal.pc = None /\ disposal.cleared = FALSE /\ life.disposed = FALSE
  BY DEF Init
<1>2. \A c \in Prompts : call[c].pc = "new" /\ c # None
  BY AgentSessionAssumption DEF Init, None
<1>3. \A j \in Jobs : job[j].pc = "free" /\ job[j].manual = FALSE /\ job[j].kept = 0
  BY DEF Init
<1>4. \A c \in Prompts : ~Prompting(c) /\ ~Compacts(c)
  BY <1>2 DEF Prompting, Compacts
<1>5. \A j \in Jobs : ~Alive(j)
  BY <1>3 DEF Alive
<1>6. TypeOK
  BY InitType
<1>7. Owned
  BY <1>3, <1>4 DEF Owned
<1>8. Apart
  BY <1>1, <1>2, <1>3, <1>4, <1>5 DEF Apart, OnePrompt, OneJob, RunOwned, ManualApart, CutStands, Prepared
<1>9. Pending
  BY <1>1 DEF Pending
<1>10. ToSet(agent.queue) = {} /\ ToSet(agent.taken) = {} /\ Distinct(agent.queue)
  BY <1>1 DEF ToSet, Distinct
<1>11. InOrder
  BY <1>1, <1>10, ResumedIs DEF InOrder
<1>12. QueueShown
  BY <1>1, <1>6, <1>10, <1>11, ShownByOrder DEF Queues, Shown
<1>13. Disposal
  BY <1>1 DEF Disposal, None
<1>14. ManualOver /\ PromptsOver
  BY <1>1 DEF ManualOver, PromptsOver, None
<1>15. Numbered /\ Held
  <2>1. 0 <= Len(store)
    BY <1>6 DEF TypeOK, StoreType
  <2> QED  BY <1>1, <1>3, <2>1, ResumedIs DEF Numbered, NumberedAs, Held
<1>16. StoreAgrees
  <2>1. Resumed \o <<>> = Resumed
    BY ResumedIs
  <2> QED  BY <1>1, <2>1, ResumedIs DEF StoreAgrees
<1> QED
  BY <1>6, <1>7, <1>8, <1>9, <1>11, <1>12, <1>13, <1>14, <1>15, <1>16 DEF IInv

LEMMA IInvStep ==
  ASSUME IInv, [Next]_vars
  PROVE  IInv'
<1>1. /\ TypeOK /\ Owned /\ Pending /\ InOrder /\ QueueShown /\ Disposal /\ Numbered /\ Held
      /\ StoreAgrees
      /\ (Unsurprised => Apart) /\ (Unsurprised => ManualOver /\ PromptsOver)
  BY DEF IInv
<1>2. TypeOK' /\ Owned'
  BY <1>1, StepKinds, OwnedStep
<1>3. (Unsurprised => Apart)'
  BY <1>1, ApartStep
<1>4. Pending'
  BY <1>1, PendingStep
<1>5. (InOrder /\ QueueShown)'
  <2>1. Queues
    BY <1>1 DEF Queues, Shown, QueueShown
  <2>2. Queues'
    BY <1>1, <2>1, QueuesStep
  <2>3. TypeOK /\ Queues => QueueShown
    BY ShownByOrder
  <2>4. (TypeOK /\ Queues => QueueShown)'
    BY ShownByOrder, PTL
  <2> QED  BY <1>2, <2>2, <2>4 DEF Queues
<1>6. Disposal'
  BY <1>1, DisposalHolds
<1>7. (Unsurprised => ManualOver /\ PromptsOver)'
  <2> SUFFICES ASSUME Unsurprised' PROVE ManualOver' /\ PromptsOver'
    OBVIOUS
  <2>1. Apart /\ ManualOver /\ PromptsOver
    BY <1>1, OddStep
  <2> QED  BY <1>1, <2>1, ManualOverStep, PromptsOverStep
<1>8. Numbered' /\ Held'
  BY <1>1, NumberedStep, HeldStep
<1>9. StoreAgrees'
  BY <1>1, StoreAgreesStep
<1> QED  BY <1>2, <1>3, <1>4, <1>5, <1>6, <1>7, <1>8, <1>9 DEF IInv

\* In a session disposed of without surprise no prompt and no task is left.
LEMMA DisposedAtRest ==
  ASSUME IInv, life.disposed, Unsurprised
  PROVE  /\ \A c \in Prompts : ~Prompting(c)
         /\ \A j \in Jobs : ~Alive(j)
         /\ Idle /\ disposal.pc = None /\ ~life.reloading /\ life.closing
         /\ \A m \in Queued : waiting.state[m] # "shown"
<1>1. /\ TypeOK /\ Owned /\ Disposal /\ Apart /\ ManualOver /\ PromptsOver
  BY DEF IInv
<1>2. \A c \in Prompts : ~Prompting(c)
  BY <1>1 DEF PromptsOver
<1>3. ASSUME NEW j \in Jobs, Alive(j) PROVE FALSE
  <2>1. ~job[j].manual /\ job[j].pc # "free"
    BY <1>1, <1>3 DEF ManualOver, Alive
  <2>2. PICK c \in Prompts : Compacts(c)
    BY <1>1, <2>1 DEF Owned
  <2> QED  BY <1>2, <2>2 DEF Compacts, Prompting, Finished
<1>4. Idle
  <2>1. \A c \in Prompts : call[c].pc # "run"
    BY <1>2 DEF Prompting, Finished
  <2> QED  BY <1>1, <2>1 DEF Apart, RunOwned, Idle
<1> QED  BY <1>1, <1>2, <1>3, <1>4 DEF Disposal

LEMMA DisposedStep ==
  ASSUME IInv, [Next]_vars, life.disposed, Unsurprised
  PROVE  UNCHANGED <<store, agent, call, life>> /\ \A j \in Jobs : ~Alive(j)
<1>1. /\ \A c \in Prompts : ~Prompting(c)
      /\ \A j \in Jobs : ~Alive(j)
      /\ Idle /\ disposal.pc = None /\ ~life.reloading /\ ~Open
      /\ \A m \in Queued : waiting.state[m] # "shown"
  BY DisposedAtRest DEF Open
<1>2. TypeOK /\ Owned
  BY DEF IInv
<1>3. ASSUME NEW c \in Prompts, PromptStep(c) \/ CallPrompt(c) \/ CancelPrompt(c) PROVE FALSE
  <2>1. ~PromptStep(c)
    BY <1>1, <1>2, PromptStepActs DEF PromptActs, PromptMoves
  <2>2. ~CallPrompt(c)
    BY <1>1 DEF CallPrompt
  <2>3. ~CancelPrompt(c)
    BY <1>1 DEF CancelPrompt, Prompting, Finished
  <2> QED  BY <1>3, <2>1, <2>2, <2>3
<1>4. ASSUME NEW j \in Jobs, JobStep(j) PROVE UNCHANGED <<store, agent, call, life>>
  <2>1. ~JobActs(j)
    BY <1>1 DEF JobActs, JobMoves
  <2> QED  BY <1>2, <1>4, <2>1, JobStepActs, CompactReturnsType
<1>5. ~RunStep
  BY <1>1, <1>2, RunStepIs DEF Idle, None
<1>6. ASSUME NEW m \in Queued, Enqueue(m) \/ EnqueueShown(m) PROVE UNCHANGED <<store, agent, call, life>>
  BY <1>1, <1>6 DEF Enqueue, EnqueueShown
<1>7. ~Compact /\ ~Reload /\ ~ReloadEnds /\ ~ClearQueue
  BY <1>1 DEF Compact, Reload, ReloadEnds, ClearQueue
<1>8. ~Abort /\ ~Dispose
  BY DEF Abort, Dispose
<1>9. AbortCompaction \/ UNCHANGED vars => UNCHANGED <<store, agent, call, life>>
  BY DEF AbortCompaction, vars
<1>10. ~DisposalStep
  BY <1>1 DEF DisposalStep, DisposalBegins, DisposalQueuesShown, DisposalAwaited, DisposalEnds, None
<1> QED
  BY <1>1, <1>3, <1>4, <1>5, <1>6, <1>7, <1>8, <1>9, <1>10 DEF Next, Progress, Calls

----------------------------------------------------------------------------

\* The strengthening holds in every reachable state.
THEOREM Invariance == Spec => []IInv
<1>1. Init => IInv
  BY InitHolds
<1>2. IInv /\ [Next]_vars => IInv'
  BY IInvStep
<1> QED  BY <1>1, <1>2, PTL DEF Spec

\* Every attribute keeps its type: a settlement is a prompt's, the current
\* compaction a task's, and the transcript a sequence of entries.
THEOREM TypeCorrect == Spec => []TypeOK
<1>1. IInv => TypeOK
  BY DEF IInv
<1> QED  BY <1>1, Invariance, PTL

\* From the moment a compaction has prepared its cut until its summary is
\* there no run goes on and the branch does not grow (_perform_compaction).
THEOREM CompactsAlone == Spec => []CompactionAlone
<1>1. IInv => CompactionAlone
  BY AloneByExclusion DEF IInv
<1> QED  BY <1>1, Invariance, PTL

\* A run never ends on an AgentEnd that is still held back
\* (_handle_agent_event), the exceptions that are named apart.
THEOREM EndsAreProjected == Spec => []EndsProjected
<1>1. IInv => EndsProjected
  BY ProjectedByExclusion DEF IInv
<1> QED  BY <1>1, Invariance, PTL

\* Every queued message is shown, and what is shown is queued, on its way into
\* the queue, polled by a run that has not begun it, or was dropped when a
\* listener failed. What clearQueue() has returned is not delivered, but for a
\* message that a run had polled by then (_queue_message, _clear_queued_messages).
THEOREM ShowsItsQueue == Spec => []QueueShown
<1>1. IInv => QueueShown
  BY DEF IInv
<1> QED  BY <1>1, Invariance, PTL

\* The Agent's messages, with the prompt its run has not shown yet, are the
\* context of the branch; overflow errors are apart, and a prompt whose run a
\* listener failed before its MessageEnd, until the transcript is rebuilt. It
\* holds through runs, retries and compactions while no two prompts have met, no
\* task has displaced another and no run was lost.
THEOREM TranscriptIsStored == Spec => []StoreAgrees
<1>1. IInv => StoreAgrees
  BY DEF IInv
<1> QED  BY <1>1, Invariance, PTL

\* Once dispose() has returned, nothing of the session moves, unless two prompts
\* had met, a compaction had been displaced by that of a prompt, or a run had
\* been lost: those the disposal does not await.
THEOREM DisposalIsFinal == Spec => DisposedIsFinal
<1>1. IInv /\ [Next]_vars =>
        [life.disposed /\ Unsurprised =>
            /\ UNCHANGED <<store, agent, call, life>>
            /\ \A j \in Jobs : ~Alive(j)]_vars
  BY DisposedStep
<1> QED  BY <1>1, Invariance, PTL DEF Spec, DisposedIsFinal

=============================================================================
