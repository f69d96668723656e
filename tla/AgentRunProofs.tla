--------------------------- MODULE AgentRunProofs ---------------------------
(***************************************************************************)
(* Proofs about module AgentRun, for any user messages, any number of       *)
(* prompts and tool turns, any number of calls in a batch and any faults.   *)
(***************************************************************************)
EXTENDS AgentRun, SequenceTheorems, FunctionTheorems,
        FiniteSetTheorems, TLAPS

-----------------------------------------------------------------------------
(* Types.                                                                   *)

Places   == {"idle", "created", "orphan", "Stream", "Tools"} \cup EmitPoints
Outcomes == {"none", "returned", "cancelled", "lifecycle", "exception"}
Stops    == {"none", "stop", "toolUse", "error", "aborted"}
Tags     == Stops \cup {"cut"}

(* Everything that may come to stand in a transcript.                       *)
Sayings ==
  {User(m) : m \in UserMessages} \cup {Assistant(s) : s \in Tags} \cup {ToolResult}
    \cup UNION {Said(i.messages) : i \in Instances}

RunTypeOK ==
  /\ pc \in Places /\ outcome \in Outcomes
  /\ run \in BOOLEAN /\ aborted \in BOOLEAN /\ committed \in BOOLEAN
  /\ cancelling \in BOOLEAN /\ caller \in BOOLEAN
  /\ streaming \in {"none", "text", "calls"}

QueueTypeOK ==
  /\ steering \in Seq(UserMessages) /\ followUp \in Seq(UserMessages)
  /\ fresh \subseteq UserMessages

LoopTypeOK ==
  /\ prompts \in Seq(UserMessages) /\ pending \in UserMessages \cup {None}
  /\ polled \in BOOLEAN /\ terminate \in BOOLEAN
  /\ response \in Stops /\ results \in 0..CallCount

TextTypeOK ==
  messages \in Seq(Sayings) /\ working \in Seq(Sayings) /\ produced \in Seq(Sayings)

TypeOK ==
  faults \subseteq FaultKinds /\ RunTypeOK /\ QueueTypeOK /\ LoopTypeOK /\ TextTypeOK

-----------------------------------------------------------------------------
(* The inductive invariant.                                                 *)

(* Where the task is while prompts are left, and while an injected message  *)
(* is on its way.                                                           *)
Prompting == {"created", "AgentStart", "TurnStart", "PromptStart", "PromptEnd"}
Injecting == {"TurnStart", "InjectStart", "InjectEnd"}

(* What the task holds, and why it is where it is.                          *)
Frame ==
  /\ run <=> pc # "idle"
  /\ prompts # <<>> => pc \in Prompting
  /\ pc = "PromptStart" => prompts # <<>>
  /\ ~polled => pc \in Prompting \cup {"idle", "orphan"}
  /\ pending # None => pc \in Injecting /\ polled /\ prompts = <<>>
  /\ pc \in {"InjectStart", "InjectEnd"} => pending # None
  /\ pc \in {"Tools", "ResultStart", "ResultEnd"} => response = "toolUse"
  /\ pc = "ResultStart" => results > 0
  /\ pc = "ResultEnd" => results < CallCount

(* An aborted response is that of an aborted run.                           *)
Raised == (response = "aborted" \/ pc \in {"TailStart", "TailEnd"}) => aborted

(* Tool results that have been reduced and that working_messages lacks.     *)
Done    == CallCount - results
Reduced == [i \in 1..Done |-> ToolResult]

(* What working_messages is, beside the transcript, at each await.          *)
WorkingAgrees ==
  /\ pc \in Prompting => working = messages \o Users(prompts)
  /\ pc = "InjectEnd" => messages = Append(working, User(pending))
  /\ pc \in {"ResultStart", "ResultEnd"} => messages = working \o Reduced
  /\ pc \in {"InjectStart", "Stream", "StreamEmit", "ResponseStart", "ResponseEnd",
             "Tools", "TurnEnd", "TailStart"} => working = messages

(* A sequence ends with another.                                            *)
Ends(seq, with) ==
  /\ Len(with) <= Len(seq)
  /\ \A i \in 1..Len(with) : with[i] = seq[Len(seq) - Len(with) + i]

(* What `produced' is, beside the transcript, at each await.                *)
ProducedAgrees ==
  /\ pc \in Prompting \cup {"InjectStart", "InjectEnd"} => Ends(working, produced)
  /\ pc \in {"Stream", "StreamEmit", "ResponseStart", "ResponseEnd", "Tools", "ResultStart",
             "TurnEnd", "TailStart", "AgentEnd"} => Ends(messages, produced)
  /\ pc = "ResultEnd" => Ends(messages, Append(produced, ToolResult))
  /\ pc = "TailEnd" => Ends(messages, Append(produced, Assistant("aborted")))

(* All but the last message of a transcript have the results of their calls.*)
AnsweredBefore(seq) == seq # <<>> /\ Answered(SubSeq(seq, 1, Len(seq) - 1))

(* Where the calls of the transcript are answered, and where it is the last *)
(* response whose calls are still to be.                                    *)
CallsAnswered ==
  faults = {} =>
    /\ pc \in {"ResultStart", "ResultEnd"} =>
         AnsweredBefore(working) /\ Final(working) = Assistant("toolUse")
    /\ pc \in {"ResponseEnd", "Tools"} =>
         /\ AnsweredBefore(messages) /\ Final(messages) # ToolResult
         /\ Final(messages) = Assistant("toolUse") <=> response = "toolUse"
    /\ pc \notin {"ResponseEnd", "Tools", "ResultStart", "ResultEnd", "orphan"} =>
         Answered(messages)

(* A message that a caller has yet to use is nowhere, any other in one      *)
(* place at most.                                                           *)
InOnePlace == \A m \in UserMessages : Held(m) = 0 \/ (Held(m) = 1 /\ m \notin fresh)

IInv ==
  /\ TypeOK /\ Frame /\ Raised
  /\ WorkingAgrees /\ ProducedAgrees /\ CallsAnswered /\ InOnePlace

-----------------------------------------------------------------------------
(* Lemmas about the messages.                                               *)

(* Everything that the loop may append is one of the Sayings, and so is     *)
(* every message of an instance.                                            *)
LEMMA Sayable ==
  /\ \A m \in UserMessages : User(m) \in Sayings
  /\ \A s \in Tags : Assistant(s) \in Sayings
  /\ ToolResult \in Sayings
  /\ \A i \in Instances : i.messages \in Seq(Sayings)
<1>1. ASSUME NEW i \in Instances
      PROVE  i.messages \in Seq(Sayings)
  <2>1. i.messages \in Seq(Said(i.messages)) /\ Said(i.messages) \subseteq Sayings
    BY AgentRunAssumption DEF Sayings
  <2>2. i.messages \in [1..Len(i.messages) -> Sayings] /\ Len(i.messages) \in Nat
    BY <2>1
  <2> QED  BY <2>2
<1> QED  BY <1>1 DEF Sayings

(* The three kinds of message differ, and so do two of a kind with another  *)
(* content.                                                                 *)
LEMMA Distinct ==
  /\ \A m, s : User(m) # Assistant(s) /\ User(m) # ToolResult /\ Assistant(s) # ToolResult
  /\ \A m, n : User(m) = User(n) => m = n
  /\ \A m, n : Assistant(m) = Assistant(n) => m = n
  BY DEF User, Assistant, ToolResult

(* A settled response is one of the Sayings, with the calls of its stop     *)
(* reason.                                                                  *)
LEMMA Settling ==
  ASSUME NEW stop \in Stops
  PROVE  /\ Settled(stop) \in Sayings /\ Settled(stop) # ToolResult
         /\ Settled(stop) = Assistant("toolUse") <=> stop = "toolUse"
         /\ \A m : Settled(stop) # User(m)
<1>1. PICK tag \in Tags : Settled(stop) = Assistant(tag) /\ (tag = "toolUse" <=> stop = "toolUse")
  BY DEF Settled, Tags, Stops
<1> QED  BY <1>1, Sayable, Distinct

(* The messages of a caller as the transcript has them.                     *)
LEMMA UsersOf ==
  ASSUME NEW ms \in Seq(UserMessages)
  PROVE  Users(ms) \in Seq(Sayings) /\ Len(Users(ms)) = Len(ms)
  BY Sayable DEF Users

(* Nothing is appended when there is no message to append.                  *)
LEMMA NoUsers ==
  ASSUME NEW s \in Seq(Sayings)
  PROVE  s \o Users(<<>>) = s
  BY DEF Users

(* The first prompt moves to the transcript.                                *)
LEMMA FirstUser ==
  ASSUME NEW ms \in Seq(UserMessages), ms # <<>>, NEW s \in Seq(Sayings)
  PROVE  s \o Users(ms) = Append(s, User(Head(ms))) \o Users(Tail(ms))
<1> DEFINE x == User(Head(ms))
           u == Users(ms)
           v == Users(Tail(ms))
<1>1. /\ Head(ms) = ms[1] /\ ms[1] \in UserMessages /\ Tail(ms) \in Seq(UserMessages)
      /\ Len(ms) \in Nat \ {0} /\ Len(Tail(ms)) = Len(ms) - 1
      /\ \A i \in 1..Len(ms) - 1 : Tail(ms)[i] = ms[i + 1]
  BY HeadTailProperties
<1>2. x \in Sayings /\ u \in Seq(Sayings) /\ v \in Seq(Sayings)
  BY <1>1, UsersOf, Sayable
<1>3. Len(u) = Len(ms) /\ Len(v) = Len(ms) - 1
  BY <1>1, UsersOf
<1>4. u[1] = x /\ \A i \in 1..Len(v) : v[i] = u[i + 1]
  <2>1. u[1] = x
    BY <1>1 DEF Users
  <2>2. ASSUME NEW i \in 1..Len(v)
        PROVE  v[i] = u[i + 1]
    <3>1. i \in 1..Len(Tail(ms)) /\ i + 1 \in 1..Len(ms)
      BY <1>1, <1>3, <2>2
    <3>2. v[i] = User(Tail(ms)[i]) /\ u[i + 1] = User(ms[i + 1])
      BY <3>1 DEF Users
    <3> QED  BY <1>1, <3>1, <3>2
  <2> QED  BY <2>1, <2>2
<1> HIDE DEF x, u, v
<1>5. Len(u) = Len(v) + 1
  BY <1>1, <1>3
<1>6. u = <<x>> \o v
  <2>1. /\ <<x>> \in Seq(Sayings) /\ Len(<<x>>) = 1 /\ <<x>>[1] = x
        /\ Len(u) \in Nat /\ Len(v) \in Nat
    BY <1>2
  <2>2. /\ <<x>> \o v \in Seq(Sayings) /\ Len(<<x>> \o v) = Len(v) + 1
        /\ \A i \in 1..Len(v) + 1 : (<<x>> \o v)[i] = IF i <= 1 THEN x ELSE v[i - 1]
    BY <1>2, <2>1, ConcatProperties
  <2>3. ASSUME NEW i \in 1..Len(u)
        PROVE  u[i] = (<<x>> \o v)[i]
    <3>1. CASE i = 1
      BY <1>4, <1>5, <2>1, <2>2, <3>1
    <3>2. CASE i # 1
      <4>1. i - 1 \in 1..Len(v) /\ (i - 1) + 1 = i
        BY <1>5, <2>1, <3>2
      <4>2. u[i] = v[i - 1]
        BY <1>4, <4>1
      <4> QED  BY <1>5, <2>1, <2>2, <3>2, <4>2
    <3> QED  BY <3>1, <3>2
  <2> QED  BY <1>2, <1>5, <2>2, <2>3, SeqEqual
<1>7. s \o u = (s \o <<x>>) \o v
  <2>1. <<x>> \in Seq(Sayings)
    BY <1>2
  <2> QED  BY <1>2, <1>6, <2>1, ConcatAssociative
<1>8. s \o <<x>> = Append(s, x)
  BY <1>2, AppendIsConcat
<1> QED  BY <1>7, <1>8 DEF x, u, v

(* One more result is reduced.                                              *)
LEMMA OneMoreResult ==
  ASSUME NEW s \in Seq(Sayings), NEW n \in Nat
  PROVE  Append(s \o [i \in 1..n |-> ToolResult], ToolResult)
           = s \o [i \in 1..n + 1 |-> ToolResult]
<1>1. ToolResult \in Sayings
  BY Sayable
<1> DEFINE a == [i \in 1..n |-> ToolResult]
           b == [i \in 1..n + 1 |-> ToolResult]
<1>2. a \in Seq(Sayings) /\ b \in Seq(Sayings) /\ Len(a) = n /\ Len(b) = n + 1
  BY <1>1
<1>3. b = Append(a, ToolResult)
  BY <1>1, <1>2
<1>4. \A x \in Seq(Sayings) : Append(s \o x, ToolResult) = s \o Append(x, ToolResult)
  BY <1>1
<1> QED  BY <1>2, <1>3, <1>4

-----------------------------------------------------------------------------
(* Lemmas about ends.                                                       *)

(* Appending one message to a transcript and to `produced' leaves the one   *)
(* ending with the other.                                                   *)
LEMMA EndsAlike ==
  ASSUME NEW s \in Seq(Sayings), NEW t \in Seq(Sayings), NEW x \in Sayings, Ends(s, t)
  PROVE  Ends(Append(s, x), Append(t, x))
<1> DEFINE a == Append(s, x)
           b == Append(t, x)
<1>1. /\ Len(a) = Len(s) + 1 /\ a[Len(s) + 1] = x /\ Len(s) \in Nat
      /\ \A i \in 1..Len(s) : a[i] = s[i]
  BY AppendProperties
<1>2. /\ Len(b) = Len(t) + 1 /\ b[Len(t) + 1] = x /\ Len(t) \in Nat
      /\ \A i \in 1..Len(t) : b[i] = t[i]
  BY AppendProperties
<1>3. Len(t) <= Len(s) /\ \A i \in 1..Len(t) : t[i] = s[Len(s) - Len(t) + i]
  BY DEF Ends
<1> HIDE DEF a, b
<1>4. ASSUME NEW i \in 1..Len(b)
      PROVE  b[i] = a[Len(a) - Len(b) + i]
  <2>1. CASE i = Len(t) + 1
    BY <1>1, <1>2, <1>3, <2>1
  <2>2. CASE i <= Len(t)
    <3>1. Len(s) - Len(t) + i \in 1..Len(s) /\ Len(a) - Len(b) + i = Len(s) - Len(t) + i
      BY <1>1, <1>2, <1>3, <2>2
    <3> QED  BY <1>1, <1>2, <1>3, <2>2, <3>1
  <2> QED  BY <1>2, <2>1, <2>2
<1> QED  BY <1>1, <1>2, <1>3, <1>4 DEF Ends, a, b

(* A concatenation ends with its second part.                               *)
LEMMA EndsWithSecond ==
  ASSUME NEW s \in Seq(Sayings), NEW t \in Seq(Sayings)
  PROVE  Ends(s \o t, t)
  BY DEF Ends

-----------------------------------------------------------------------------
(* Lemmas about answers.                                                    *)

(* A call of a response that was finished has its result.                   *)
LEMMA AnsweredCall ==
  ASSUME NEW s, Answered(s), NEW i \in DOMAIN s, s[i] = Assistant("toolUse"),
         NEW k \in 1..CallCount
  PROVE  i + k \in DOMAIN s /\ s[i + k] = ToolResult
  BY Zenon DEF Answered

(* A message that makes no tool calls leaves all calls answered.            *)
LEMMA AnsweredNext ==
  ASSUME NEW s \in Seq(Sayings), NEW x \in Sayings, Answered(s),
         x # Assistant("toolUse"), x # ToolResult
  PROVE  Answered(Append(s, x))
<1> DEFINE a == Append(s, x)
<1>1. /\ a \in Seq(Sayings) /\ Len(a) = Len(s) + 1 /\ a[Len(s) + 1] = x /\ Len(s) \in Nat
      /\ \A i \in 1..Len(s) : a[i] = s[i]
  BY AppendProperties
<1> HIDE DEF a
<1>2. DOMAIN a = 1..Len(s) + 1 /\ DOMAIN s = 1..Len(s)
  BY <1>1
<1>3. ASSUME NEW i \in DOMAIN a, a[i] = Assistant("toolUse"), NEW k \in 1..CallCount
      PROVE  i + k \in DOMAIN a /\ a[i + k] = ToolResult
  <2>1. i \in DOMAIN s /\ s[i] = Assistant("toolUse")
    BY <1>1, <1>2, <1>3
  <2>2. i + k \in DOMAIN s /\ s[i + k] = ToolResult
    BY <1>3, <2>1 DEF Answered
  <2> QED  BY <1>1, <1>2, <2>2
<1>4. ASSUME NEW i \in DOMAIN a, a[i] = Assistant("cut"), i + 1 \in DOMAIN a
      PROVE  a[i + 1] # ToolResult
  <2>1. i \in DOMAIN s /\ s[i] = Assistant("cut")
    BY <1>1, <1>2, <1>4
  <2>2. CASE i + 1 \in DOMAIN s
    BY <1>1, <1>2, <2>1, <2>2 DEF Answered
  <2>3. CASE i + 1 \notin DOMAIN s
    BY <1>1, <1>2, <1>4, <2>1, <2>3
  <2> QED  BY <2>2, <2>3
<1> QED  BY <1>3, <1>4 DEF Answered, a

(* Any message at all leaves all calls before it answered.                  *)
LEMMA AnsweredSoFar ==
  ASSUME NEW s \in Seq(Sayings), NEW x \in Sayings, Answered(s)
  PROVE  AnsweredBefore(Append(s, x)) /\ Final(Append(s, x)) = x
<1> DEFINE a == Append(s, x)
<1>1. /\ a \in Seq(Sayings) /\ Len(a) = Len(s) + 1 /\ a[Len(s) + 1] = x /\ Len(s) \in Nat
      /\ \A i \in 1..Len(s) : a[i] = s[i]
  BY AppendProperties
<1> HIDE DEF a
<1>2. /\ SubSeq(a, 1, Len(s)) \in Seq(Sayings) /\ Len(SubSeq(a, 1, Len(s))) = Len(s)
      /\ \A i \in 1..Len(s) : SubSeq(a, 1, Len(s))[i] = s[i]
  BY <1>1
<1>3. SubSeq(a, 1, Len(s)) = s
  BY <1>1, <1>2, SeqEqual
<1>4. Len(a) - 1 = Len(s) /\ a # <<>>
  BY <1>1
<1>5. AnsweredBefore(a) /\ Final(a) = x
  BY <1>1, <1>3, <1>4 DEF AnsweredBefore, Final
<1> QED  BY <1>5 DEF a

(* A transcript that follows its first message has the answers to its       *)
(* calls.                                                                   *)
LEMMA AnsweredTail ==
  ASSUME NEW s \in Seq(Sayings), s # <<>>, Answered(s)
  PROVE  Answered(Tail(s))
<1> DEFINE t == Tail(s)
<1>1. /\ t \in Seq(Sayings) /\ Len(t) = Len(s) - 1 /\ Len(s) \in Nat \ {0}
      /\ \A i \in 1..Len(t) : t[i] = s[i + 1]
  BY HeadTailProperties
<1> HIDE DEF t
<1>2. ASSUME NEW i \in 1..Len(t), t[i] = Assistant("toolUse"), NEW k \in 1..CallCount
      PROVE  i + k \in 1..Len(t) /\ t[i + k] = ToolResult
  <2>1. i + 1 \in 1..Len(s) /\ s[i + 1] = Assistant("toolUse") /\ i \in Nat /\ k \in Nat \ {0}
    BY <1>1, <1>2, AgentRunAssumption
  <2>2. (i + 1) + k \in 1..Len(s) /\ s[(i + 1) + k] = ToolResult
    <3>1. DOMAIN s = 1..Len(s) /\ i + 1 \in DOMAIN s
      BY <2>1
    <3>2. (i + 1) + k \in DOMAIN s /\ s[(i + 1) + k] = ToolResult
      BY <2>1, <3>1, AnsweredCall
    <3> QED  BY <3>1, <3>2
  <2>3. i + k \in 1..Len(t) /\ (i + 1) + k = (i + k) + 1
    BY <1>1, <2>1, <2>2
  <2> QED  BY <1>1, <2>2, <2>3
<1>3. DOMAIN t = 1..Len(t)
  BY <1>1
<1>4. ASSUME NEW i \in 1..Len(t), t[i] = Assistant("cut"), i + 1 \in 1..Len(t)
      PROVE  t[i + 1] # ToolResult
  <2>1. i + 1 \in DOMAIN s /\ (i + 1) + 1 \in DOMAIN s /\ s[i + 1] = Assistant("cut")
    BY <1>1, <1>4
  <2> QED  BY <1>1, <1>4, <2>1 DEF Answered
<1> QED  BY <1>2, <1>3, <1>4 DEF Answered, t

(* All but the last message.                                                *)
LEMMA Shortened ==
  ASSUME NEW s \in Seq(Sayings), s # <<>>
  PROVE  /\ Len(s) \in Nat \ {0} /\ DOMAIN s = 1..Len(s)
         /\ SubSeq(s, 1, Len(s) - 1) \in Seq(Sayings)
         /\ Len(SubSeq(s, 1, Len(s) - 1)) = Len(s) - 1
         /\ \A i \in 1..Len(s) - 1 : SubSeq(s, 1, Len(s) - 1)[i] = s[i]
<1>1. Len(s) \in Nat \ {0}
  OBVIOUS
<1>2. /\ DOMAIN s = 1..Len(s) /\ 1 \in Int /\ Len(s) - 1 \in Int
      /\ \A i \in 1..Len(s) - 1 : s[i] \in Sayings
  BY <1>1
<1> DEFINE n == Len(s) - 1
<1> HIDE DEF n
<1>3. /\ SubSeq(s, 1, n) \in Seq(Sayings)
      /\ Len(SubSeq(s, 1, n)) = IF 1 <= n THEN n - 1 + 1 ELSE 0
      /\ \A i \in 1..n - 1 + 1 : SubSeq(s, 1, n)[i] = s[1 + i - 1]
  BY <1>2, SubSeqProperties DEF n
<1>4. n \in Nat
  BY <1>1 DEF n
<1>5. /\ Len(SubSeq(s, 1, n)) = n
      /\ \A i \in 1..n : SubSeq(s, 1, n)[i] = s[i]
  BY <1>3, <1>4
<1> QED  BY <1>1, <1>2, <1>3, <1>5 DEF n

(* A transcript whose last message makes no calls has all of its calls      *)
(* answered.                                                                *)
LEMMA AnsweredWithoutCalls ==
  ASSUME NEW s \in Seq(Sayings), AnsweredBefore(s), Final(s) # Assistant("toolUse"),
         Final(s) # ToolResult
  PROVE  Answered(s)
<1> DEFINE f == SubSeq(s, 1, Len(s) - 1)
<1>1. Len(s) \in Nat \ {0} /\ DOMAIN s = 1..Len(s)
  BY Shortened DEF AnsweredBefore
<1>2. /\ f \in Seq(Sayings) /\ Len(f) = Len(s) - 1
      /\ \A i \in 1..Len(s) - 1 : f[i] = s[i]
  BY Shortened DEF AnsweredBefore
<1>3. Answered(f)
  BY DEF AnsweredBefore
<1> HIDE DEF f
<1>4. ASSUME NEW i \in 1..Len(s), s[i] = Assistant("toolUse"), NEW k \in 1..CallCount
      PROVE  i + k \in 1..Len(s) /\ s[i + k] = ToolResult
  <2>1. i \in 1..Len(s) - 1
    BY <1>1, <1>4 DEF Final
  <2>2. i + k \in DOMAIN f /\ f[i + k] = ToolResult
    <3>1. i \in DOMAIN f /\ f[i] = Assistant("toolUse")
      BY <1>2, <1>4, <2>1
    <3> QED  BY <1>3, <1>4, <3>1, AnsweredCall
  <2> QED  BY <1>1, <1>2, <2>2
<1>5. ASSUME NEW i \in 1..Len(s), s[i] = Assistant("cut"), i + 1 \in 1..Len(s)
      PROVE  s[i + 1] # ToolResult
  <2>1. i \in 1..Len(s) - 1
    BY <1>1, <1>5
  <2>2. CASE i + 1 = Len(s)
    BY <2>2 DEF Final
  <2>3. CASE i + 1 # Len(s)
    <3>1. i + 1 \in 1..Len(s) - 1 /\ i \in DOMAIN f /\ i + 1 \in DOMAIN f
      BY <1>1, <1>2, <1>5, <2>1, <2>3
    <3>2. f[i] = s[i] /\ f[i + 1] = s[i + 1]
      BY <1>2, <2>1, <3>1
    <3> QED  BY <1>3, <1>5, <3>1, <3>2 DEF Answered
  <2> QED  BY <2>2, <2>3
<1> QED  BY <1>1, <1>4, <1>5 DEF Answered

(* The results of a whole batch answer the calls of the last response.      *)
LEMMA AnsweredByBatch ==
  ASSUME NEW s \in Seq(Sayings), AnsweredBefore(s), Final(s) = Assistant("toolUse")
  PROVE  Answered(s \o BatchResults)
<1> DEFINE f == SubSeq(s, 1, Len(s) - 1)
           a == s \o BatchResults
<1>1. Len(s) \in Nat \ {0}
  BY Shortened DEF AnsweredBefore
<1>2. /\ f \in Seq(Sayings) /\ Len(f) = Len(s) - 1
      /\ \A i \in 1..Len(s) - 1 : f[i] = s[i]
  BY Shortened DEF AnsweredBefore
<1>3. Answered(f)
  BY DEF AnsweredBefore
<1>4. /\ BatchResults \in Seq(Sayings) /\ Len(BatchResults) = CallCount
      /\ \A i \in 1..CallCount : BatchResults[i] = ToolResult
  BY AgentRunAssumption, Sayable DEF BatchResults
<1>5. /\ a \in Seq(Sayings) /\ Len(a) = Len(s) + CallCount
      /\ \A i \in 1..Len(a) : a[i] = IF i <= Len(s) THEN s[i] ELSE BatchResults[i - Len(s)]
  BY <1>4, ConcatProperties
<1> HIDE DEF f, a
<1>6. CallCount \in Nat /\ DOMAIN a = 1..Len(a)
  BY <1>5, AgentRunAssumption
<1>7. ASSUME NEW j \in Nat, j > Len(s), j <= Len(s) + CallCount
      PROVE  a[j] = ToolResult
  <2>1. j - Len(s) \in 1..CallCount /\ j \in 1..Len(a)
    BY <1>1, <1>5, <1>6, <1>7
  <2> QED  BY <1>1, <1>4, <1>5, <1>7, <2>1
<1>8. ASSUME NEW i \in 1..Len(a), a[i] = Assistant("toolUse"), NEW k \in 1..CallCount
      PROVE  i + k \in 1..Len(a) /\ a[i + k] = ToolResult
  <2>1. i <= Len(s)
    <3>1. a[i] # ToolResult
      BY <1>8 DEF Assistant, ToolResult
    <3> QED  BY <1>1, <1>5, <1>6, <1>7, <3>1
  <2>2. CASE i = Len(s)
    BY <1>1, <1>5, <1>6, <1>7, <2>2
  <2>3. CASE i < Len(s)
    <3>1. i \in 1..Len(s) - 1 /\ f[i] = Assistant("toolUse")
      BY <1>1, <1>2, <1>5, <1>8, <2>3
    <3>2. i + k \in 1..Len(s) - 1 /\ f[i + k] = ToolResult
      <4>1. DOMAIN f = 1..Len(s) - 1
        BY <1>2
      <4>2. i + k \in DOMAIN f /\ f[i + k] = ToolResult
        BY <1>3, <3>1, <4>1, AnsweredCall
      <4> QED  BY <4>1, <4>2
    <3> QED  BY <1>1, <1>2, <1>5, <1>6, <3>2
  <2> QED  BY <1>1, <2>1, <2>2, <2>3
<1>9. ASSUME NEW i \in 1..Len(a), a[i] = Assistant("cut"), i + 1 \in 1..Len(a)
      PROVE  a[i + 1] # ToolResult
  <2>1. i < Len(s)
    <3>1. a[i] # ToolResult /\ a[i] # Assistant("toolUse")
      BY <1>9, Distinct
    <3>2. i <= Len(s)
      BY <1>1, <1>5, <1>6, <1>7, <3>1
    <3>3. a[Len(s)] = Assistant("toolUse")
      BY <1>1, <1>5, <1>6 DEF Final
    <3> QED  BY <1>1, <3>1, <3>2, <3>3
  <2>2. i \in 1..Len(s) - 1 /\ a[i] = s[i] /\ a[i + 1] = s[i + 1] /\ f[i] = s[i]
    BY <1>1, <1>2, <1>5, <1>6, <2>1
  <2>3. CASE i + 1 = Len(s)
    BY <2>2, <2>3, Distinct DEF Final
  <2>4. CASE i + 1 # Len(s)
    <3>1. i + 1 \in 1..Len(s) - 1 /\ i \in DOMAIN f /\ i + 1 \in DOMAIN f
      BY <1>1, <1>2, <2>2, <2>4
    <3>2. f[i + 1] = s[i + 1]
      BY <1>2, <3>1
    <3> QED  BY <1>3, <1>9, <2>2, <3>1, <3>2 DEF Answered
  <2> QED  BY <2>3, <2>4
<1> QED  BY <1>6, <1>8, <1>9 DEF Answered, a

-----------------------------------------------------------------------------
(* Lemmas about counts.                                                     *)

(* A count is a number: the places counted are finitely many.               *)
LEMMA CountIsNat ==
  ASSUME NEW S, NEW s \in Seq(S), NEW e
  PROVE  IsFiniteSet({i \in DOMAIN s : s[i] = e}) /\ Count(s, e) \in Nat
<1>1. IsFiniteSet(DOMAIN s)
  BY FS_Interval
<1> QED  BY <1>1, FS_Subset, FS_CardinalityType DEF Count

(* What is nowhere in a sequence counts for nothing.                        *)
LEMMA CountNone ==
  ASSUME NEW S, NEW s \in Seq(S), NEW e, \A i \in DOMAIN s : s[i] # e
  PROVE  Count(s, e) = 0
<1>1. {i \in DOMAIN s : s[i] = e} = {}
  OBVIOUS
<1> QED  BY <1>1, FS_EmptySet DEF Count

(* Appending adds one to the count of what is appended and to no other.     *)
LEMMA CountAppend ==
  ASSUME NEW S, NEW s \in Seq(S), NEW x \in S, NEW e
  PROVE  Count(Append(s, x), e) = Count(s, e) + (IF x = e THEN 1 ELSE 0)
<1> DEFINE A == {i \in DOMAIN s : s[i] = e}
           B == {i \in DOMAIN Append(s, x) : Append(s, x)[i] = e}
<1>1. IsFiniteSet(A) /\ Cardinality(A) \in Nat
  BY CountIsNat DEF Count
<1>2. CASE x = e
  <2>1. B = A \cup {Len(s) + 1} /\ Len(s) + 1 \notin A
    BY <1>2
  <2>2. Cardinality(B) = Cardinality(A) + 1
    BY <1>1, <2>1, FS_AddElement
  <2> QED  BY <1>2, <2>2 DEF Count
<1>3. CASE x # e
  <2>1. B = A
    BY <1>3
  <2>2. Count(Append(s, x), e) = Count(s, e)
    BY <2>1 DEF Count
  <2>3. Count(s, e) \in Nat
    BY CountIsNat
  <2> QED  BY <1>3, <2>2, <2>3
<1> QED  BY <1>2, <1>3

(* Taking the head takes one from the count of the head and from no other.  *)
LEMMA CountTail ==
  ASSUME NEW S, NEW s \in Seq(S), s # <<>>, NEW e
  PROVE  Count(s, e) = Count(Tail(s), e) + (IF Head(s) = e THEN 1 ELSE 0)
<1> DEFINE A == {i \in DOMAIN Tail(s) : Tail(s)[i] = e}
           B == {i \in DOMAIN s : s[i] = e}
           C == {i \in B : i # 1}
           f == [i \in A |-> i + 1]
<1>0. Tail(s) \in Seq(S) /\ Len(s) \in Nat \ {0} /\ Head(s) = s[1]
  OBVIOUS
<1>1. IsFiniteSet(A) /\ Cardinality(A) \in Nat
  BY <1>0, CountIsNat DEF Count
<1>2. f \in Bijection(A, C)
  <2>1. f \in [A -> C]
    BY <1>0
  <2>2. \A a, b \in A : f[a] = f[b] => a = b
    BY <1>0
  <2>3. \A c \in C : c - 1 \in A /\ f[c - 1] = c
    BY <1>0
  <2> QED  BY <2>1, <2>2, <2>3, Fun_IsBij
<1>3. IsFiniteSet(C) /\ Cardinality(C) = Cardinality(A)
  BY ZenonT(30), <1>1, <1>2, FS_Bijection DEF ExistsBijection
<1>4. CASE Head(s) = e
  <2>1. B = C \cup {1} /\ 1 \notin C
    BY <1>0, <1>4
  <2>2. Cardinality(B) = Cardinality(C) + 1
    BY <1>3, <2>1, FS_AddElement
  <2> QED  BY <1>3, <1>4, <2>2 DEF Count
<1>5. CASE Head(s) # e
  <2>1. B = C
    BY <1>0, <1>5
  <2>2. Count(s, e) = Count(Tail(s), e)
    BY <1>3, <2>1 DEF Count
  <2>3. Count(Tail(s), e) \in Nat
    BY <1>1 DEF Count
  <2> QED  BY <1>5, <2>2, <2>3
<1> QED  BY <1>4, <1>5

(* A sequence without repetition has each of its members once.              *)
LEMMA CountOnce ==
  ASSUME NEW S, NEW s \in Seq(S), \A i, j \in DOMAIN s : s[i] = s[j] => i = j,
         NEW k \in DOMAIN s
  PROVE  Count(s, s[k]) = 1
<1>1. {i \in DOMAIN s : s[i] = s[k]} = {k}
  OBVIOUS
<1> QED  BY <1>1, FS_Singleton DEF Count

-----------------------------------------------------------------------------
(* The types and the frame, step by step.                                   *)

(* The messages given to Agent.prompt() are new and differ from each other. *)
LEMMA PromptsListed ==
  ASSUME NEW ms \in PromptLists, MaxPrompts \in Nat, fresh \subseteq UserMessages
  PROVE  /\ ms \in Seq(UserMessages) /\ \A i \in DOMAIN ms : ms[i] \in fresh
         /\ \A i, j \in DOMAIN ms : ms[i] = ms[j] => i = j
<1>1. PICK n \in 1..MaxPrompts :
        ms \in [1..n -> fresh] /\ \A i, j \in 1..n : ms[i] = ms[j] => i = j
  BY DEF PromptLists
<1> QED  BY <1>1

(* The four calls that launch a run.                                        *)
Launches ==
  \/ \E ms \in PromptLists : Prompt(ms)
  \/ ContinueSteering \/ ContinueFollowUp \/ ContinueTranscript

(* The steps of the specification, one by one; none of them changes the     *)
(* faults.                                                                  *)
LEMMA Steps ==
  ASSUME Next
  PROVE  /\ UNCHANGED faults
         /\ \/ Launches
            \/ (\E m \in fresh : Steer(m))
            \/ (\E m \in fresh : FollowUp(m))
            \/ ClearSteeringQueue
            \/ ClearFollowUpQueue
            \/ ClearAllQueues
            \/ Reset
            \/ SetMessages
            \/ Abort
            \/ AbortInListener
            \/ CancelCaller
            \/ StartTask
            \/ CancelledBeforeStart
            \/ AfterAgentStart
            \/ AfterTurnStart
            \/ AfterPromptStart
            \/ AfterPromptEnd
            \/ AfterInjectStart
            \/ AfterInjectEnd
            \/ StreamEvent
            \/ AfterStreamEmit
            \/ (\E s \in {"stop", "toolUse", "error"} : StreamDone(s))
            \/ StreamErrorFirst
            \/ StreamAborted
            \/ AfterResponseStart
            \/ AfterResponseEnd
            \/ (\E t \in BOOLEAN : ToolsSettle(t))
            \/ AfterResultStart
            \/ AfterResultEnd
            \/ AfterTurnEnd
            \/ AfterTailStart
            \/ AfterTailEnd
            \/ AfterAgentEnd
            \/ ListenerFails
            \/ CleanupFails
            \/ StreamBroken
            \/ ToolsCancelled
  BY DEF Next, CallerStep, RunStep, Discard, Fallible, Launches

(* What is taken from a queue, or from the prompts.                         *)
LEMMA Taken ==
  ASSUME NEW q \in Seq(UserMessages), q # <<>>
  PROVE  Head(q) \in UserMessages /\ Tail(q) \in Seq(UserMessages) /\ Head(q) # None
         /\ <<Head(q)>> \in Seq(UserMessages) /\ User(Head(q)) \in Sayings
<1>1. Head(q) \in UserMessages /\ Tail(q) \in Seq(UserMessages)
  OBVIOUS
<1> QED  BY <1>1, AgentRunAssumption, Sayable

(* What may be said.                                                        *)
LEMMA Saying ==
  ASSUME NEW s \in Seq(Sayings), NEW x \in Sayings
  PROVE  Append(s, x) \in Seq(Sayings)
  OBVIOUS

LEMMA SayingUsers ==
  ASSUME NEW s \in Seq(Sayings), NEW ms \in Seq(UserMessages)
  PROVE  s \o Users(ms) \in Seq(Sayings)
<1>1. Users(ms) \in Seq(Sayings)
  BY UsersOf
<1> QED  BY <1>1

LEMMA SayingResults ==
  ASSUME NEW s \in Seq(Sayings)
  PROVE  s \o BatchResults \in Seq(Sayings)
<1>1. BatchResults \in Seq(Sayings)
  BY Sayable, AgentRunAssumption DEF BatchResults
<1> QED  BY <1>1

(* Each of the four launches starts a run that there was not, with some     *)
(* prompts.                                                                 *)
LEMMA Launched ==
  ASSUME TypeOK, Launches
  PROVE  \E ms \in Seq(UserMessages), skip \in BOOLEAN : Launch(ms, skip) /\ ~run
<1>1. CASE \E ms \in PromptLists : Prompt(ms)
  BY <1>1, PromptsListed, AgentRunAssumption DEF Prompt, TypeOK, QueueTypeOK
<1>2. CASE ContinueSteering
  BY <1>2, Taken DEF ContinueSteering, TypeOK, QueueTypeOK
<1>3. CASE ContinueFollowUp
  BY <1>3, Taken DEF ContinueFollowUp, TypeOK, QueueTypeOK
<1>4. CASE ContinueTranscript
  <2>1. <<>> \in Seq(UserMessages)
    OBVIOUS
  <2> QED  BY <1>4, <2>1 DEF ContinueTranscript
<1> QED  BY <1>1, <1>2, <1>3, <1>4 DEF Launches

(* The task, its place and its outcome keep their types.                    *)
LEMMA RunTypesKept ==
  ASSUME IInv, Next
  PROVE  RunTypeOK'
<1> USE DEF RunTypeOK, Places, Outcomes, EmitPoints, RunKeeps, Emit, runVars, queueVars,
            loopVars, textVars
<1>1. CASE Launches
  <2>1. PICK ms \in Seq(UserMessages), skip \in BOOLEAN : Launch(ms, skip) /\ ~run
    BY <1>1, Launched DEF IInv
  <2> QED  BY <2>1 DEF IInv, TypeOK, Launch
<1>2. CASE \E m \in fresh : Steer(m)
  BY <1>2 DEF IInv, TypeOK, Steer
<1>3. CASE \E m \in fresh : FollowUp(m)
  BY <1>3 DEF IInv, TypeOK, FollowUp
<1>4. CASE ClearSteeringQueue
  BY <1>4 DEF IInv, TypeOK, ClearSteeringQueue
<1>5. CASE ClearFollowUpQueue
  BY <1>5 DEF IInv, TypeOK, ClearFollowUpQueue
<1>6. CASE ClearAllQueues
  BY <1>6 DEF IInv, TypeOK, ClearAllQueues
<1>7. CASE Reset
  BY <1>7 DEF IInv, TypeOK, Reset
<1>8. CASE SetMessages
  BY <1>8 DEF IInv, TypeOK, SetMessages
<1>9. CASE Abort
  BY <1>9 DEF IInv, TypeOK, Abort, Cancellable, Suspended
<1>10. CASE AbortInListener
  BY <1>10 DEF IInv, TypeOK, AbortInListener
<1>11. CASE CancelCaller
  BY <1>11 DEF IInv, TypeOK, CancelCaller, Cancellable, Suspended
<1>12. CASE StartTask
  BY <1>12 DEF IInv, TypeOK, StartTask
<1>13. CASE CancelledBeforeStart
  BY <1>13 DEF IInv, TypeOK, CancelledBeforeStart
<1>14. CASE AfterAgentStart
  BY <1>14 DEF IInv, TypeOK, AfterAgentStart
<1>15. CASE AfterTurnStart
  BY <1>15 DEF IInv, TypeOK, AfterTurnStart, OpenTurn, RequestModel
<1>16. CASE AfterPromptStart
  BY <1>16 DEF IInv, TypeOK, AfterPromptStart
<1>17. CASE AfterPromptEnd
  BY <1>17 DEF IInv, TypeOK, AfterPromptEnd, OpenTurn, RequestModel
<1>18. CASE AfterInjectStart
  BY <1>18 DEF IInv, TypeOK, AfterInjectStart
<1>19. CASE AfterInjectEnd
  BY <1>19 DEF IInv, TypeOK, AfterInjectEnd, RequestModel
<1>20. CASE StreamEvent
  BY <1>20 DEF IInv, TypeOK, StreamEvent, StreamOpen
<1>21. CASE AfterStreamEmit
  BY <1>21 DEF IInv, TypeOK, AfterStreamEmit
<1>22. CASE \E s \in {"stop", "toolUse", "error"} : StreamDone(s)
  BY <1>22 DEF IInv, TypeOK, StreamDone, StreamOpen, StartAndEnd, EndResponse
<1>23. CASE StreamErrorFirst
  BY <1>23 DEF IInv, TypeOK, StreamErrorFirst, StreamOpen, EndResponse
<1>24. CASE StreamAborted
  BY <1>24 DEF IInv, TypeOK, StreamAborted, StartAndEnd, EndResponse
<1>25. CASE AfterResponseStart
  BY <1>25 DEF IInv, TypeOK, AfterResponseStart, EndResponse
<1>26. CASE AfterResponseEnd
  BY <1>26 DEF IInv, TypeOK, AfterResponseEnd
<1>27. CASE \E t \in BOOLEAN : ToolsSettle(t)
  BY <1>27 DEF IInv, TypeOK, ToolsSettle
<1>28. CASE AfterResultStart
  BY <1>28 DEF IInv, TypeOK, AfterResultStart
<1>29. CASE AfterResultEnd
  BY <1>29 DEF IInv, TypeOK, AfterResultEnd, MoreResults
<1>30. CASE AfterTurnEnd
  BY <1>30 DEF IInv, TypeOK, AfterTurnEnd, Finish, Poll, Stopping, NeedsTail
<1>31. CASE AfterTailStart
  BY <1>31 DEF IInv, TypeOK, AfterTailStart
<1>32. CASE AfterTailEnd
  BY <1>32 DEF IInv, TypeOK, AfterTailEnd, Finish
<1>33. CASE AfterAgentEnd
  BY <1>33 DEF IInv, TypeOK, AfterAgentEnd, EndTask, Free
<1>34. CASE ListenerFails
  BY <1>34 DEF IInv, TypeOK, ListenerFails, EndTask, Free
<1>35. CASE CleanupFails
  BY <1>35 DEF IInv, TypeOK, CleanupFails, EndTask, Free
<1>36. CASE StreamBroken
  BY <1>36 DEF IInv, TypeOK, StreamBroken, EndTask, Free, StreamOpen
<1>37. CASE ToolsCancelled
  BY <1>37 DEF IInv, TypeOK, ToolsCancelled, EndTask, Free
<1> QED  BY Steps, <1>1, <1>2, <1>3, <1>4, <1>5, <1>6, <1>7, <1>8, <1>9, <1>10, <1>11,
            <1>12, <1>13, <1>14, <1>15, <1>16, <1>17, <1>18, <1>19, <1>20, <1>21, <1>22,
            <1>23, <1>24, <1>25, <1>26, <1>27, <1>28, <1>29, <1>30, <1>31, <1>32, <1>33,
            <1>34, <1>35, <1>36, <1>37

(* Every step keeps what the task holds in agreement with where it is.      *)
LEMMA FrameKept ==
  ASSUME IInv, Next
  PROVE  Frame'
<1> USE DEF Prompting, Injecting, LoopTypeOK, RunKeeps, Emit, runVars, queueVars, loopVars,
            textVars
<1>1. CASE Launches
  <2>1. PICK ms \in Seq(UserMessages), skip \in BOOLEAN : Launch(ms, skip) /\ ~run
    BY <1>1, Launched DEF IInv
  <2> QED  BY <2>1 DEF IInv, TypeOK, Frame, Launch
<1>2. CASE \E m \in fresh : Steer(m)
  BY <1>2, AgentRunAssumption DEF IInv, TypeOK, Frame, Steer
<1>3. CASE \E m \in fresh : FollowUp(m)
  BY <1>3, AgentRunAssumption DEF IInv, TypeOK, Frame, FollowUp
<1>4. CASE ClearSteeringQueue
  BY <1>4, AgentRunAssumption DEF IInv, TypeOK, Frame, ClearSteeringQueue
<1>5. CASE ClearFollowUpQueue
  BY <1>5, AgentRunAssumption DEF IInv, TypeOK, Frame, ClearFollowUpQueue
<1>6. CASE ClearAllQueues
  BY <1>6, AgentRunAssumption DEF IInv, TypeOK, Frame, ClearAllQueues
<1>7. CASE Reset
  BY <1>7, AgentRunAssumption DEF IInv, TypeOK, Frame, Reset
<1>8. CASE SetMessages
  BY <1>8, AgentRunAssumption DEF IInv, TypeOK, Frame, SetMessages
<1>9. CASE Abort
  BY <1>9, AgentRunAssumption DEF IInv, TypeOK, Frame, Abort, Cancellable, Suspended
<1>10. CASE AbortInListener
  BY <1>10, AgentRunAssumption DEF IInv, TypeOK, Frame, AbortInListener
<1>11. CASE CancelCaller
  BY <1>11, AgentRunAssumption DEF IInv, TypeOK, Frame, CancelCaller, Cancellable, Suspended
<1>12. CASE StartTask
  BY <1>12, AgentRunAssumption DEF IInv, TypeOK, Frame, StartTask
<1>13. CASE CancelledBeforeStart
  BY <1>13, AgentRunAssumption DEF IInv, TypeOK, Frame, CancelledBeforeStart
<1>14. CASE AfterAgentStart
  BY <1>14, AgentRunAssumption DEF IInv, TypeOK, Frame, AfterAgentStart
<1>15. CASE AfterTurnStart
  BY <1>15, AgentRunAssumption DEF IInv, TypeOK, Frame, AfterTurnStart, OpenTurn, RequestModel
<1>16. CASE AfterPromptStart
  BY <1>16, AgentRunAssumption DEF IInv, TypeOK, Frame, AfterPromptStart
<1>17. CASE AfterPromptEnd
  BY <1>17, AgentRunAssumption DEF IInv, TypeOK, Frame, AfterPromptEnd, OpenTurn, RequestModel
<1>18. CASE AfterInjectStart
  BY <1>18, AgentRunAssumption DEF IInv, TypeOK, Frame, AfterInjectStart
<1>19. CASE AfterInjectEnd
  BY <1>19, AgentRunAssumption DEF IInv, TypeOK, Frame, AfterInjectEnd, RequestModel
<1>20. CASE StreamEvent
  BY <1>20, AgentRunAssumption DEF IInv, TypeOK, Frame, StreamEvent, StreamOpen
<1>21. CASE AfterStreamEmit
  BY <1>21, AgentRunAssumption DEF IInv, TypeOK, Frame, AfterStreamEmit
<1>22. CASE \E s \in {"stop", "toolUse", "error"} : StreamDone(s)
  BY <1>22, AgentRunAssumption DEF IInv, TypeOK, Frame, StreamDone, StreamOpen, StartAndEnd,
     EndResponse
<1>23. CASE StreamErrorFirst
  BY <1>23, AgentRunAssumption DEF IInv, TypeOK, Frame, StreamErrorFirst, StreamOpen,
     EndResponse
<1>24. CASE StreamAborted
  BY <1>24, AgentRunAssumption DEF IInv, TypeOK, Frame, StreamAborted, StartAndEnd, EndResponse
<1>25. CASE AfterResponseStart
  BY <1>25, AgentRunAssumption DEF IInv, TypeOK, Frame, AfterResponseStart, EndResponse
<1>26. CASE AfterResponseEnd
  BY <1>26, AgentRunAssumption DEF IInv, TypeOK, Frame, AfterResponseEnd
<1>27. CASE \E t \in BOOLEAN : ToolsSettle(t)
  BY <1>27, AgentRunAssumption DEF IInv, TypeOK, Frame, ToolsSettle
<1>28. CASE AfterResultStart
  BY <1>28, AgentRunAssumption DEF IInv, TypeOK, Frame, AfterResultStart
<1>29. CASE AfterResultEnd
  BY <1>29, AgentRunAssumption DEF IInv, TypeOK, Frame, AfterResultEnd, MoreResults
<1>30. CASE AfterTurnEnd
  BY <1>30, AgentRunAssumption DEF IInv, TypeOK, Frame, AfterTurnEnd, Finish, Poll,
     Stopping, NeedsTail
<1>31. CASE AfterTailStart
  BY <1>31, AgentRunAssumption DEF IInv, TypeOK, Frame, AfterTailStart
<1>32. CASE AfterTailEnd
  BY <1>32, AgentRunAssumption DEF IInv, TypeOK, Frame, AfterTailEnd, Finish
<1>33. CASE AfterAgentEnd
  BY <1>33, AgentRunAssumption DEF IInv, TypeOK, Frame, AfterAgentEnd, EndTask, Free
<1>34. CASE ListenerFails
  BY <1>34, AgentRunAssumption DEF IInv, TypeOK, Frame, ListenerFails, EndTask, Free
<1>35. CASE CleanupFails
  BY <1>35, AgentRunAssumption DEF IInv, TypeOK, Frame, CleanupFails, EndTask, Free
<1>36. CASE StreamBroken
  BY <1>36, AgentRunAssumption DEF IInv, TypeOK, Frame, StreamBroken, EndTask, Free, StreamOpen
<1>37. CASE ToolsCancelled
  BY <1>37, AgentRunAssumption DEF IInv, TypeOK, Frame, ToolsCancelled, EndTask, Free
<1> QED  BY Steps, <1>1, <1>2, <1>3, <1>4, <1>5, <1>6, <1>7, <1>8, <1>9, <1>10, <1>11,
            <1>12, <1>13, <1>14, <1>15, <1>16, <1>17, <1>18, <1>19, <1>20, <1>21, <1>22,
            <1>23, <1>24, <1>25, <1>26, <1>27, <1>28, <1>29, <1>30, <1>31, <1>32, <1>33,
            <1>34, <1>35, <1>36, <1>37

(* The response is recorded as aborted only once the run has been.          *)
LEMMA RaisedKept ==
  ASSUME IInv, Next
  PROVE  Raised'
<1> USE DEF Raised, RunKeeps, Emit, runVars, queueVars, loopVars, textVars
<1>1. CASE Launches
  <2>1. PICK ms \in Seq(UserMessages), skip \in BOOLEAN : Launch(ms, skip) /\ ~run
    BY <1>1, Launched DEF IInv
  <2> QED  BY <2>1 DEF IInv, TypeOK, RunTypeOK, Launch
<1>2. CASE \E m \in fresh : Steer(m)
  BY <1>2 DEF IInv, TypeOK, RunTypeOK, Steer
<1>3. CASE \E m \in fresh : FollowUp(m)
  BY <1>3 DEF IInv, TypeOK, RunTypeOK, FollowUp
<1>4. CASE ClearSteeringQueue
  BY <1>4 DEF IInv, TypeOK, RunTypeOK, ClearSteeringQueue
<1>5. CASE ClearFollowUpQueue
  BY <1>5 DEF IInv, TypeOK, RunTypeOK, ClearFollowUpQueue
<1>6. CASE ClearAllQueues
  BY <1>6 DEF IInv, TypeOK, RunTypeOK, ClearAllQueues
<1>7. CASE Reset
  BY <1>7 DEF IInv, TypeOK, RunTypeOK, Reset
<1>8. CASE SetMessages
  BY <1>8 DEF IInv, TypeOK, RunTypeOK, SetMessages
<1>9. CASE Abort
  BY <1>9 DEF IInv, TypeOK, RunTypeOK, Abort, Cancellable, Suspended
<1>10. CASE AbortInListener
  BY <1>10 DEF IInv, TypeOK, RunTypeOK, AbortInListener
<1>11. CASE CancelCaller
  BY <1>11 DEF IInv, TypeOK, RunTypeOK, CancelCaller, Cancellable, Suspended
<1>12. CASE StartTask
  BY <1>12 DEF IInv, TypeOK, RunTypeOK, StartTask
<1>13. CASE CancelledBeforeStart
  BY <1>13 DEF IInv, TypeOK, RunTypeOK, CancelledBeforeStart
<1>14. CASE AfterAgentStart
  BY <1>14 DEF IInv, TypeOK, RunTypeOK, AfterAgentStart
<1>15. CASE AfterTurnStart
  BY <1>15 DEF IInv, TypeOK, RunTypeOK, AfterTurnStart, OpenTurn, RequestModel
<1>16. CASE AfterPromptStart
  BY <1>16 DEF IInv, TypeOK, RunTypeOK, AfterPromptStart
<1>17. CASE AfterPromptEnd
  BY <1>17 DEF IInv, TypeOK, RunTypeOK, AfterPromptEnd, OpenTurn, RequestModel
<1>18. CASE AfterInjectStart
  BY <1>18 DEF IInv, TypeOK, RunTypeOK, AfterInjectStart
<1>19. CASE AfterInjectEnd
  BY <1>19 DEF IInv, TypeOK, RunTypeOK, AfterInjectEnd, RequestModel
<1>20. CASE StreamEvent
  BY <1>20 DEF IInv, TypeOK, RunTypeOK, StreamEvent, StreamOpen
<1>21. CASE AfterStreamEmit
  BY <1>21 DEF IInv, TypeOK, RunTypeOK, AfterStreamEmit
<1>22. CASE \E s \in {"stop", "toolUse", "error"} : StreamDone(s)
  BY <1>22 DEF IInv, TypeOK, RunTypeOK, StreamDone, StreamOpen, StartAndEnd, EndResponse
<1>23. CASE StreamErrorFirst
  BY <1>23 DEF IInv, TypeOK, RunTypeOK, StreamErrorFirst, StreamOpen, EndResponse
<1>24. CASE StreamAborted
  BY <1>24 DEF IInv, TypeOK, RunTypeOK, StreamAborted, StartAndEnd, EndResponse
<1>25. CASE AfterResponseStart
  BY <1>25 DEF IInv, TypeOK, RunTypeOK, AfterResponseStart, EndResponse
<1>26. CASE AfterResponseEnd
  BY <1>26 DEF IInv, TypeOK, RunTypeOK, AfterResponseEnd
<1>27. CASE \E t \in BOOLEAN : ToolsSettle(t)
  BY <1>27 DEF IInv, TypeOK, RunTypeOK, ToolsSettle
<1>28. CASE AfterResultStart
  BY <1>28 DEF IInv, TypeOK, RunTypeOK, AfterResultStart
<1>29. CASE AfterResultEnd
  BY <1>29 DEF IInv, TypeOK, RunTypeOK, AfterResultEnd, MoreResults
<1>30. CASE AfterTurnEnd
  BY <1>30 DEF IInv, TypeOK, RunTypeOK, AfterTurnEnd, Finish, Poll, Stopping, NeedsTail
<1>31. CASE AfterTailStart
  BY <1>31 DEF IInv, TypeOK, RunTypeOK, AfterTailStart
<1>32. CASE AfterTailEnd
  BY <1>32 DEF IInv, TypeOK, RunTypeOK, AfterTailEnd, Finish
<1>33. CASE AfterAgentEnd
  BY <1>33 DEF IInv, TypeOK, RunTypeOK, AfterAgentEnd, EndTask, Free
<1>34. CASE ListenerFails
  BY <1>34 DEF IInv, TypeOK, RunTypeOK, ListenerFails, EndTask, Free
<1>35. CASE CleanupFails
  BY <1>35 DEF IInv, TypeOK, RunTypeOK, CleanupFails, EndTask, Free
<1>36. CASE StreamBroken
  BY <1>36 DEF IInv, TypeOK, RunTypeOK, StreamBroken, EndTask, Free, StreamOpen
<1>37. CASE ToolsCancelled
  BY <1>37 DEF IInv, TypeOK, RunTypeOK, ToolsCancelled, EndTask, Free
<1> QED  BY Steps, <1>1, <1>2, <1>3, <1>4, <1>5, <1>6, <1>7, <1>8, <1>9, <1>10, <1>11,
            <1>12, <1>13, <1>14, <1>15, <1>16, <1>17, <1>18, <1>19, <1>20, <1>21, <1>22,
            <1>23, <1>24, <1>25, <1>26, <1>27, <1>28, <1>29, <1>30, <1>31, <1>32, <1>33,
            <1>34, <1>35, <1>36, <1>37

(* The queues of the Agent keep their types.                                *)
LEMMA QueueTypesKept ==
  ASSUME IInv, Next
  PROVE  QueueTypeOK'
<1> USE DEF QueueTypeOK, RunKeeps, Emit, runVars, queueVars, loopVars, textVars
<1>1. CASE Launches
  BY <1>1, Taken DEF IInv, TypeOK, Launches, Prompt, ContinueSteering, ContinueFollowUp,
              ContinueTranscript
<1>2. CASE \E m \in fresh : Steer(m)
  BY <1>2 DEF IInv, TypeOK, Steer
<1>3. CASE \E m \in fresh : FollowUp(m)
  BY <1>3 DEF IInv, TypeOK, FollowUp
<1>4. CASE ClearSteeringQueue
  BY <1>4 DEF IInv, TypeOK, ClearSteeringQueue
<1>5. CASE ClearFollowUpQueue
  BY <1>5 DEF IInv, TypeOK, ClearFollowUpQueue
<1>6. CASE ClearAllQueues
  BY <1>6 DEF IInv, TypeOK, ClearAllQueues
<1>7. CASE Reset
  BY <1>7 DEF IInv, TypeOK, Reset
<1>8. CASE SetMessages
  BY <1>8 DEF IInv, TypeOK, SetMessages
<1>9. CASE Abort
  BY <1>9 DEF IInv, TypeOK, Abort, Cancellable, Suspended
<1>10. CASE AbortInListener
  BY <1>10 DEF IInv, TypeOK, AbortInListener
<1>11. CASE CancelCaller
  BY <1>11 DEF IInv, TypeOK, CancelCaller, Cancellable, Suspended
<1>12. CASE StartTask
  BY <1>12 DEF IInv, TypeOK, StartTask
<1>13. CASE CancelledBeforeStart
  BY <1>13 DEF IInv, TypeOK, CancelledBeforeStart
<1>14. CASE AfterAgentStart
  BY <1>14 DEF IInv, TypeOK, AfterAgentStart
<1>15. CASE AfterTurnStart
  BY <1>15 DEF IInv, TypeOK, AfterTurnStart, OpenTurn, RequestModel
<1>16. CASE AfterPromptStart
  BY <1>16 DEF IInv, TypeOK, AfterPromptStart
<1>17. CASE AfterPromptEnd
  BY SMTT(30), <1>17 DEF IInv, TypeOK, AfterPromptEnd, OpenTurn, RequestModel
<1>18. CASE AfterInjectStart
  BY <1>18 DEF IInv, TypeOK, AfterInjectStart
<1>19. CASE AfterInjectEnd
  BY <1>19 DEF IInv, TypeOK, AfterInjectEnd, RequestModel
<1>20. CASE StreamEvent
  BY <1>20 DEF IInv, TypeOK, StreamEvent, StreamOpen
<1>21. CASE AfterStreamEmit
  BY <1>21 DEF IInv, TypeOK, AfterStreamEmit
<1>22. CASE \E s \in {"stop", "toolUse", "error"} : StreamDone(s)
  BY <1>22 DEF IInv, TypeOK, StreamDone, StreamOpen, StartAndEnd, EndResponse
<1>23. CASE StreamErrorFirst
  BY <1>23 DEF IInv, TypeOK, StreamErrorFirst, StreamOpen, EndResponse
<1>24. CASE StreamAborted
  BY <1>24 DEF IInv, TypeOK, StreamAborted, StartAndEnd, EndResponse
<1>25. CASE AfterResponseStart
  BY <1>25 DEF IInv, TypeOK, AfterResponseStart, EndResponse
<1>26. CASE AfterResponseEnd
  BY <1>26 DEF IInv, TypeOK, AfterResponseEnd
<1>27. CASE \E t \in BOOLEAN : ToolsSettle(t)
  BY <1>27 DEF IInv, TypeOK, ToolsSettle
<1>28. CASE AfterResultStart
  BY <1>28 DEF IInv, TypeOK, AfterResultStart
<1>29. CASE AfterResultEnd
  BY <1>29 DEF IInv, TypeOK, AfterResultEnd, MoreResults
<1>30. CASE AfterTurnEnd
  <2>1. /\ steering # <<>> => Tail(steering) \in Seq(UserMessages)
        /\ followUp # <<>> => Tail(followUp) \in Seq(UserMessages)
    BY Taken DEF IInv, TypeOK
  <2>2. steering' \in {steering, Tail(steering)} /\ (steering = <<>> => steering' = steering)
    BY <1>30 DEF AfterTurnEnd, Poll
  <2>3. followUp' \in {followUp, Tail(followUp)} /\ (followUp = <<>> => followUp' = followUp)
    BY <1>30 DEF AfterTurnEnd, Poll
  <2> QED  BY <1>30, <2>1, <2>2, <2>3 DEF IInv, TypeOK, AfterTurnEnd
<1>31. CASE AfterTailStart
  BY <1>31 DEF IInv, TypeOK, AfterTailStart
<1>32. CASE AfterTailEnd
  BY <1>32 DEF IInv, TypeOK, AfterTailEnd, Finish
<1>33. CASE AfterAgentEnd
  BY <1>33 DEF IInv, TypeOK, AfterAgentEnd, EndTask, Free
<1>34. CASE ListenerFails
  BY <1>34 DEF IInv, TypeOK, ListenerFails, EndTask, Free
<1>35. CASE CleanupFails
  BY <1>35 DEF IInv, TypeOK, CleanupFails, EndTask, Free
<1>36. CASE StreamBroken
  BY <1>36 DEF IInv, TypeOK, StreamBroken, EndTask, Free, StreamOpen
<1>37. CASE ToolsCancelled
  BY <1>37 DEF IInv, TypeOK, ToolsCancelled, EndTask, Free
<1> QED  BY Steps, <1>1, <1>2, <1>3, <1>4, <1>5, <1>6, <1>7, <1>8, <1>9, <1>10, <1>11,
            <1>12, <1>13, <1>14, <1>15, <1>16, <1>17, <1>18, <1>19, <1>20, <1>21, <1>22,
            <1>23, <1>24, <1>25, <1>26, <1>27, <1>28, <1>29, <1>30, <1>31, <1>32, <1>33,
            <1>34, <1>35, <1>36, <1>37

(* The counters and the response of the loop keep their types.              *)
LEMMA LoopTypesKept ==
  ASSUME IInv, Next
  PROVE  LoopTypeOK'
<1> USE DEF LoopTypeOK, Stops, RunKeeps, Emit, runVars, queueVars, loopVars, textVars
<1>1. CASE Launches
  <2>1. PICK ms \in Seq(UserMessages), skip \in BOOLEAN : Launch(ms, skip) /\ ~run
    BY <1>1, Launched DEF IInv
  <2>2. 0 \in 0..CallCount
    BY AgentRunAssumption
  <2> QED  BY <2>1, <2>2 DEF IInv, TypeOK, Launch
<1>2. CASE \E m \in fresh : Steer(m)
  BY <1>2, AgentRunAssumption DEF IInv, TypeOK, Steer
<1>3. CASE \E m \in fresh : FollowUp(m)
  BY <1>3, AgentRunAssumption DEF IInv, TypeOK, FollowUp
<1>4. CASE ClearSteeringQueue
  BY <1>4, AgentRunAssumption DEF IInv, TypeOK, ClearSteeringQueue
<1>5. CASE ClearFollowUpQueue
  BY <1>5, AgentRunAssumption DEF IInv, TypeOK, ClearFollowUpQueue
<1>6. CASE ClearAllQueues
  BY <1>6, AgentRunAssumption DEF IInv, TypeOK, ClearAllQueues
<1>7. CASE Reset
  BY <1>7, AgentRunAssumption DEF IInv, TypeOK, Reset
<1>8. CASE SetMessages
  BY <1>8, AgentRunAssumption DEF IInv, TypeOK, SetMessages
<1>9. CASE Abort
  BY <1>9, AgentRunAssumption DEF IInv, TypeOK, Abort, Cancellable, Suspended
<1>10. CASE AbortInListener
  BY <1>10, AgentRunAssumption DEF IInv, TypeOK, AbortInListener
<1>11. CASE CancelCaller
  BY <1>11, AgentRunAssumption DEF IInv, TypeOK, CancelCaller, Cancellable, Suspended
<1>12. CASE StartTask
  BY <1>12, AgentRunAssumption DEF IInv, TypeOK, StartTask
<1>13. CASE CancelledBeforeStart
  BY <1>13, AgentRunAssumption DEF IInv, TypeOK, CancelledBeforeStart
<1>14. CASE AfterAgentStart
  BY <1>14, AgentRunAssumption DEF IInv, TypeOK, AfterAgentStart
<1>15. CASE AfterTurnStart
  <2>1. UNCHANGED pending \/ (pending' = Head(steering) /\ steering # <<>>)
    BY <1>15 DEF AfterTurnStart, OpenTurn, RequestModel
  <2>2. pending' \in UserMessages \cup {None}
    BY <2>1, Taken DEF IInv, TypeOK, QueueTypeOK
  <2>3. polled' \in BOOLEAN /\ response' \in Stops
    BY <1>15 DEF IInv, TypeOK, AfterTurnStart, OpenTurn, RequestModel
  <2> QED  BY <1>15, <2>2, <2>3 DEF IInv, TypeOK, AfterTurnStart
<1>16. CASE AfterPromptStart
  BY <1>16, Taken DEF IInv, TypeOK, Frame, AfterPromptStart
<1>17. CASE AfterPromptEnd
  <2>1. UNCHANGED pending \/ (pending' = Head(steering) /\ steering # <<>>)
    BY <1>17 DEF AfterPromptEnd, OpenTurn, RequestModel
  <2>2. pending' \in UserMessages \cup {None}
    BY <2>1, Taken DEF IInv, TypeOK, QueueTypeOK
  <2>3. polled' \in BOOLEAN /\ response' \in Stops
    BY <1>17 DEF IInv, TypeOK, AfterPromptEnd, OpenTurn, RequestModel
  <2> QED  BY <1>17, <2>2, <2>3 DEF IInv, TypeOK, AfterPromptEnd
<1>18. CASE AfterInjectStart
  BY <1>18, AgentRunAssumption DEF IInv, TypeOK, AfterInjectStart
<1>19. CASE AfterInjectEnd
  BY <1>19, AgentRunAssumption DEF IInv, TypeOK, AfterInjectEnd, RequestModel
<1>20. CASE StreamEvent
  BY <1>20, AgentRunAssumption DEF IInv, TypeOK, StreamEvent, StreamOpen
<1>21. CASE AfterStreamEmit
  BY <1>21, AgentRunAssumption DEF IInv, TypeOK, AfterStreamEmit
<1>22. CASE \E s \in {"stop", "toolUse", "error"} : StreamDone(s)
  BY <1>22, AgentRunAssumption DEF IInv, TypeOK, StreamDone, StreamOpen, StartAndEnd,
     EndResponse
<1>23. CASE StreamErrorFirst
  BY <1>23, AgentRunAssumption DEF IInv, TypeOK, StreamErrorFirst, StreamOpen, EndResponse
<1>24. CASE StreamAborted
  BY <1>24, AgentRunAssumption DEF IInv, TypeOK, StreamAborted, StartAndEnd, EndResponse
<1>25. CASE AfterResponseStart
  BY <1>25, AgentRunAssumption DEF IInv, TypeOK, AfterResponseStart, EndResponse
<1>26. CASE AfterResponseEnd
  BY <1>26, AgentRunAssumption DEF IInv, TypeOK, AfterResponseEnd
<1>27. CASE \E t \in BOOLEAN : ToolsSettle(t)
  BY <1>27, AgentRunAssumption DEF IInv, TypeOK, ToolsSettle
<1>28. CASE AfterResultStart
  <2>1. results - 1 \in 0..CallCount
    BY <1>28, AgentRunAssumption DEF IInv, TypeOK, Frame, AfterResultStart
  <2> QED  BY <1>28, <2>1 DEF IInv, TypeOK, AfterResultStart
<1>29. CASE AfterResultEnd
  BY <1>29, AgentRunAssumption DEF IInv, TypeOK, AfterResultEnd, MoreResults
<1>30. CASE AfterTurnEnd
  <2>1. \/ UNCHANGED pending
        \/ pending' = Head(steering) /\ steering # <<>>
        \/ pending' = Head(followUp) /\ followUp # <<>>
    BY <1>30 DEF AfterTurnEnd, Poll
  <2>2. pending' \in UserMessages \cup {None}
    BY <2>1, Taken DEF IInv, TypeOK, QueueTypeOK
  <2> QED  BY <1>30, <2>2 DEF IInv, TypeOK, AfterTurnEnd
<1>31. CASE AfterTailStart
  BY <1>31, AgentRunAssumption DEF IInv, TypeOK, AfterTailStart
<1>32. CASE AfterTailEnd
  BY <1>32, AgentRunAssumption DEF IInv, TypeOK, AfterTailEnd, Finish
<1>33. CASE AfterAgentEnd
  BY <1>33, AgentRunAssumption DEF IInv, TypeOK, AfterAgentEnd, EndTask, Free
<1>34. CASE ListenerFails
  BY <1>34, AgentRunAssumption DEF IInv, TypeOK, ListenerFails, EndTask, Free
<1>35. CASE CleanupFails
  BY <1>35, AgentRunAssumption DEF IInv, TypeOK, CleanupFails, EndTask, Free
<1>36. CASE StreamBroken
  BY <1>36, AgentRunAssumption DEF IInv, TypeOK, StreamBroken, EndTask, Free, StreamOpen
<1>37. CASE ToolsCancelled
  BY <1>37, AgentRunAssumption DEF IInv, TypeOK, ToolsCancelled, EndTask, Free
<1> QED  BY Steps, <1>1, <1>2, <1>3, <1>4, <1>5, <1>6, <1>7, <1>8, <1>9, <1>10, <1>11,
            <1>12, <1>13, <1>14, <1>15, <1>16, <1>17, <1>18, <1>19, <1>20, <1>21, <1>22,
            <1>23, <1>24, <1>25, <1>26, <1>27, <1>28, <1>29, <1>30, <1>31, <1>32, <1>33,
            <1>34, <1>35, <1>36, <1>37

(* The transcript, working_messages and `produced' keep their types.        *)
LEMMA TextTypesKept ==
  ASSUME IInv, Next
  PROVE  TextTypeOK'
<1> USE DEF TextTypeOK, RunKeeps, Emit, runVars, queueVars, loopVars, textVars
<1>1. CASE Launches
  <2>1. PICK ms \in Seq(UserMessages), skip \in BOOLEAN : Launch(ms, skip) /\ ~run
    BY <1>1, Launched DEF IInv
  <2>2. messages \o Users(ms) \in Seq(Sayings) /\ Users(ms) \in Seq(Sayings)
    BY <2>1, SayingUsers, UsersOf DEF IInv, TypeOK
  <2> QED  BY <2>1, <2>2 DEF IInv, TypeOK, Launch
<1>2. CASE \E m \in fresh : Steer(m)
  BY <1>2 DEF IInv, TypeOK, Steer
<1>3. CASE \E m \in fresh : FollowUp(m)
  BY <1>3 DEF IInv, TypeOK, FollowUp
<1>4. CASE ClearSteeringQueue
  BY <1>4 DEF IInv, TypeOK, ClearSteeringQueue
<1>5. CASE ClearFollowUpQueue
  BY <1>5 DEF IInv, TypeOK, ClearFollowUpQueue
<1>6. CASE ClearAllQueues
  BY <1>6 DEF IInv, TypeOK, ClearAllQueues
<1>7. CASE Reset
  BY <1>7 DEF IInv, TypeOK, Reset
<1>8. CASE SetMessages
  BY <1>8 DEF IInv, TypeOK, SetMessages
<1>9. CASE Abort
  BY <1>9 DEF IInv, TypeOK, Abort, Cancellable, Suspended
<1>10. CASE AbortInListener
  BY <1>10 DEF IInv, TypeOK, AbortInListener
<1>11. CASE CancelCaller
  BY <1>11 DEF IInv, TypeOK, CancelCaller, Cancellable, Suspended
<1>12. CASE StartTask
  BY <1>12 DEF IInv, TypeOK, StartTask
<1>13. CASE CancelledBeforeStart
  BY <1>13 DEF IInv, TypeOK, CancelledBeforeStart
<1>14. CASE AfterAgentStart
  BY <1>14 DEF IInv, TypeOK, AfterAgentStart
<1>15. CASE AfterTurnStart
  BY <1>15 DEF IInv, TypeOK, AfterTurnStart, OpenTurn, RequestModel
<1>16. CASE AfterPromptStart
  <2>1. User(Head(prompts)) \in Sayings
    BY <1>16, Taken DEF IInv, TypeOK, Frame, AfterPromptStart, LoopTypeOK
  <2> QED  BY <1>16, <2>1, Saying DEF IInv, TypeOK, AfterPromptStart
<1>17. CASE AfterPromptEnd
  BY <1>17 DEF IInv, TypeOK, AfterPromptEnd, OpenTurn, RequestModel
<1>18. CASE AfterInjectStart
  <2>1. User(pending) \in Sayings
    BY <1>18, Sayable DEF IInv, TypeOK, Frame, AfterInjectStart, LoopTypeOK
  <2> QED  BY <1>18, <2>1, Saying DEF IInv, TypeOK, AfterInjectStart
<1>19. CASE AfterInjectEnd
  <2>1. User(pending) \in Sayings
    BY <1>19, Sayable DEF IInv, TypeOK, Frame, AfterInjectEnd, LoopTypeOK
  <2> QED  BY <1>19, <2>1, Saying DEF IInv, TypeOK, AfterInjectEnd, RequestModel
<1>20. CASE StreamEvent
  BY <1>20 DEF IInv, TypeOK, StreamEvent, StreamOpen
<1>21. CASE AfterStreamEmit
  BY <1>21 DEF IInv, TypeOK, AfterStreamEmit
<1>22. CASE \E s \in {"stop", "toolUse", "error"} : StreamDone(s)
  <2>1. \A s \in {"stop", "toolUse", "error"} : Settled(s) \in Sayings
    BY <1>22, Settling DEF Stops
  <2> QED  BY <1>22, <2>1, Saying DEF IInv, TypeOK, StreamDone, StreamOpen, StartAndEnd,
              EndResponse
<1>23. CASE StreamErrorFirst
  <2>1. Settled("error") \in Sayings
    BY <1>23, Settling DEF Stops
  <2> QED  BY <1>23, <2>1, Saying DEF IInv, TypeOK, StreamErrorFirst, StreamOpen, EndResponse
<1>24. CASE StreamAborted
  <2>1. Settled("aborted") \in Sayings
    BY <1>24, Settling DEF Stops
  <2> QED  BY <1>24, <2>1, Saying DEF IInv, TypeOK, StreamAborted, StartAndEnd, EndResponse
<1>25. CASE AfterResponseStart
  <2>1. Settled(response) \in Sayings
    BY <1>25, Settling DEF IInv, TypeOK, LoopTypeOK
  <2> QED  BY <1>25, <2>1, Saying DEF IInv, TypeOK, AfterResponseStart, EndResponse
<1>26. CASE AfterResponseEnd
  BY <1>26 DEF IInv, TypeOK, AfterResponseEnd
<1>27. CASE \E t \in BOOLEAN : ToolsSettle(t)
  BY <1>27 DEF IInv, TypeOK, ToolsSettle
<1>28. CASE AfterResultStart
  <2>1. ToolResult \in Sayings
    BY <1>28, Sayable
  <2> QED  BY <1>28, <2>1, Saying DEF IInv, TypeOK, AfterResultStart
<1>29. CASE AfterResultEnd
  <2>1. ToolResult \in Sayings
    BY <1>29, Sayable
  <2> QED  BY <1>29, <2>1, Saying, SayingResults DEF IInv, TypeOK, AfterResultEnd, MoreResults
<1>30. CASE AfterTurnEnd
  BY <1>30 DEF IInv, TypeOK, AfterTurnEnd, Finish, Poll, Stopping, NeedsTail
<1>31. CASE AfterTailStart
  <2>1. Assistant("aborted") \in Sayings
    BY <1>31, Sayable DEF Stops, Tags
  <2> QED  BY <1>31, <2>1, Saying DEF IInv, TypeOK, AfterTailStart
<1>32. CASE AfterTailEnd
  <2>1. Assistant("aborted") \in Sayings
    BY <1>32, Sayable DEF Stops, Tags
  <2> QED  BY <1>32, <2>1, Saying DEF IInv, TypeOK, AfterTailEnd, Finish
<1>33. CASE AfterAgentEnd
  BY <1>33 DEF IInv, TypeOK, AfterAgentEnd, EndTask, Free
<1>34. CASE ListenerFails
  BY <1>34 DEF IInv, TypeOK, ListenerFails, EndTask, Free
<1>35. CASE CleanupFails
  BY <1>35 DEF IInv, TypeOK, CleanupFails, EndTask, Free
<1>36. CASE StreamBroken
  BY <1>36 DEF IInv, TypeOK, StreamBroken, EndTask, Free, StreamOpen
<1>37. CASE ToolsCancelled
  BY <1>37 DEF IInv, TypeOK, ToolsCancelled, EndTask, Free
<1> QED  BY Steps, <1>1, <1>2, <1>3, <1>4, <1>5, <1>6, <1>7, <1>8, <1>9, <1>10, <1>11,
            <1>12, <1>13, <1>14, <1>15, <1>16, <1>17, <1>18, <1>19, <1>20, <1>21, <1>22,
            <1>23, <1>24, <1>25, <1>26, <1>27, <1>28, <1>29, <1>30, <1>31, <1>32, <1>33,
            <1>34, <1>35, <1>36, <1>37

-----------------------------------------------------------------------------
(* The transcript, working_messages and produced.                           *)

(* Without prompts left, working_messages is the transcript.                *)
LEMMA NoPrompts ==
  ASSUME IInv, pc \in Prompting, prompts = <<>>
  PROVE  working = messages
  BY NoUsers DEF IInv, TypeOK, TextTypeOK, WorkingAgrees

(* When all results are still to be reduced, none is lacking.               *)
LEMMA NothingReduced ==
  ASSUME NEW s \in Seq(Sayings)
  PROVE  s \o [i \in 1..CallCount - CallCount |-> ToolResult] = s
<1>1. [i \in 1..CallCount - CallCount |-> ToolResult] = <<>>
  BY AgentRunAssumption
<1> QED  BY <1>1, ConcatEmptySeq

(* Every step keeps working_messages in agreement with the transcript.      *)
LEMMA WorkingKept ==
  ASSUME IInv, Next
  PROVE  WorkingAgrees'
<1> USE DEF WorkingAgrees, Prompting, RunKeeps, Emit, runVars, queueVars, loopVars, textVars
<1>1. CASE Launches
  <2>1. PICK ms \in Seq(UserMessages), skip \in BOOLEAN : Launch(ms, skip) /\ ~run
    BY <1>1, Launched DEF IInv
  <2> QED  BY <2>1 DEF Launch
<1>2. CASE \E m \in fresh : Steer(m)
  BY <1>2 DEF IInv, Frame, Steer, Reduced, Done
<1>3. CASE \E m \in fresh : FollowUp(m)
  BY <1>3 DEF IInv, Frame, FollowUp, Reduced, Done
<1>4. CASE ClearSteeringQueue
  BY <1>4 DEF IInv, Frame, ClearSteeringQueue, Reduced, Done
<1>5. CASE ClearFollowUpQueue
  BY <1>5 DEF IInv, Frame, ClearFollowUpQueue, Reduced, Done
<1>6. CASE ClearAllQueues
  BY <1>6 DEF IInv, Frame, ClearAllQueues, Reduced, Done
<1>7. CASE Reset
  BY <1>7 DEF IInv, Frame, Reset
<1>8. CASE SetMessages
  BY <1>8 DEF IInv, Frame, SetMessages
<1>9. CASE Abort
  BY <1>9 DEF IInv, Frame, Abort, Cancellable, Suspended, Reduced, Done
<1>10. CASE AbortInListener
  BY <1>10 DEF IInv, Frame, AbortInListener, Reduced, Done
<1>11. CASE CancelCaller
  BY <1>11 DEF IInv, Frame, CancelCaller, Cancellable, Suspended, Reduced, Done
<1>12. CASE StartTask
  BY <1>12 DEF IInv, Frame, StartTask
<1>13. CASE CancelledBeforeStart
  BY <1>13 DEF IInv, Frame, CancelledBeforeStart
<1>14. CASE AfterAgentStart
  BY <1>14 DEF IInv, Frame, AfterAgentStart
<1>15. CASE AfterTurnStart
  BY <1>15, NoPrompts DEF IInv, Frame, AfterTurnStart, OpenTurn, RequestModel
<1>16. CASE AfterPromptStart
  <2>1. working = Append(messages, User(Head(prompts))) \o Users(Tail(prompts))
    BY <1>16, FirstUser DEF IInv, TypeOK, LoopTypeOK, TextTypeOK, Frame, AfterPromptStart
  <2> QED  BY <1>16, <2>1 DEF AfterPromptStart
<1>17. CASE AfterPromptEnd
  BY <1>17, NoPrompts DEF IInv, Frame, AfterPromptEnd, OpenTurn, RequestModel
<1>18. CASE AfterInjectStart
  BY <1>18 DEF IInv, Frame, AfterInjectStart
<1>19. CASE AfterInjectEnd
  BY <1>19 DEF IInv, Frame, AfterInjectEnd, RequestModel
<1>20. CASE StreamEvent
  BY <1>20 DEF IInv, Frame, StreamEvent, StreamOpen
<1>21. CASE AfterStreamEmit
  BY <1>21 DEF IInv, Frame, AfterStreamEmit
<1>22. CASE \E s \in {"stop", "toolUse", "error"} : StreamDone(s)
  BY <1>22 DEF IInv, Frame, StreamDone, StreamOpen, StartAndEnd, EndResponse
<1>23. CASE StreamErrorFirst
  BY <1>23 DEF IInv, Frame, StreamErrorFirst, StreamOpen, EndResponse
<1>24. CASE StreamAborted
  BY <1>24 DEF IInv, Frame, StreamAborted, StartAndEnd, EndResponse
<1>25. CASE AfterResponseStart
  BY <1>25 DEF IInv, Frame, AfterResponseStart, EndResponse
<1>26. CASE AfterResponseEnd
  BY <1>26 DEF IInv, Frame, AfterResponseEnd
<1>27. CASE \E t \in BOOLEAN : ToolsSettle(t)
  <2>1. messages \o [i \in 1..CallCount - CallCount |-> ToolResult] = messages
    BY NothingReduced DEF IInv, TypeOK, TextTypeOK
  <2> QED  BY <1>27, <2>1 DEF IInv, ToolsSettle, Reduced, Done
<1>28. CASE AfterResultStart
  <2>1. Done \in Nat /\ CallCount - (results - 1) = Done + 1
    BY <1>28, AgentRunAssumption DEF IInv, TypeOK, LoopTypeOK, Done
  <2>2. Append(working \o [i \in 1..Done |-> ToolResult], ToolResult)
          = working \o [i \in 1..Done + 1 |-> ToolResult]
    BY <2>1, OneMoreResult DEF IInv, TypeOK, TextTypeOK
  <2>3. messages' = working \o [i \in 1..Done + 1 |-> ToolResult]
    BY <1>28, <2>2 DEF IInv, AfterResultStart, Reduced
  <2>4. Reduced' = [i \in 1..Done + 1 |-> ToolResult]
    BY <1>28, <2>1 DEF AfterResultStart, Reduced, Done
  <2> QED  BY <1>28, <2>3, <2>4 DEF AfterResultStart
<1>29. CASE AfterResultEnd
  <2>1. ~MoreResults => Reduced = BatchResults
    <3>1. ~MoreResults => results = 0
      BY DEF IInv, TypeOK, LoopTypeOK, MoreResults
    <3> QED  BY <3>1, AgentRunAssumption DEF Reduced, Done, BatchResults
  <2>2. UNCHANGED Reduced
    BY <1>29 DEF AfterResultEnd, Reduced, Done
  <2> QED  BY <1>29, <2>1, <2>2 DEF IInv, AfterResultEnd
<1>30. CASE AfterTurnEnd
  <2>1. messages = messages \o Users(<<>>)
    BY NoUsers DEF IInv, TypeOK, TextTypeOK
  <2>2. prompts' = <<>>
    BY <1>30 DEF IInv, Frame, AfterTurnEnd
  <2> QED  BY <1>30, <2>1, <2>2 DEF IInv, AfterTurnEnd, Finish
<1>31. CASE AfterTailStart
  BY <1>31 DEF IInv, Frame, AfterTailStart
<1>32. CASE AfterTailEnd
  BY <1>32 DEF IInv, Frame, AfterTailEnd, Finish
<1>33. CASE AfterAgentEnd
  BY <1>33 DEF IInv, Frame, AfterAgentEnd, EndTask, Free
<1>34. CASE ListenerFails
  BY <1>34 DEF IInv, Frame, ListenerFails, EndTask, Free
<1>35. CASE CleanupFails
  BY <1>35 DEF IInv, Frame, CleanupFails, EndTask, Free
<1>36. CASE StreamBroken
  BY <1>36 DEF IInv, Frame, StreamBroken, EndTask, Free, StreamOpen
<1>37. CASE ToolsCancelled
  BY <1>37 DEF IInv, Frame, ToolsCancelled, EndTask, Free
<1> QED  BY Steps, <1>1, <1>2, <1>3, <1>4, <1>5, <1>6, <1>7, <1>8, <1>9, <1>10, <1>11,
            <1>12, <1>13, <1>14, <1>15, <1>16, <1>17, <1>18, <1>19, <1>20, <1>21, <1>22,
            <1>23, <1>24, <1>25, <1>26, <1>27, <1>28, <1>29, <1>30, <1>31, <1>32, <1>33,
            <1>34, <1>35, <1>36, <1>37

(* Every step keeps `produced' in agreement with the transcript.            *)
LEMMA ProducedKept ==
  ASSUME IInv, Next
  PROVE  ProducedAgrees'
<1> USE DEF ProducedAgrees, Prompting, RunKeeps, Emit, runVars, queueVars, loopVars, textVars
<1>1. CASE Launches
  <2>1. PICK ms \in Seq(UserMessages), skip \in BOOLEAN : Launch(ms, skip) /\ ~run
    BY <1>1, Launched DEF IInv
  <2>2. Ends(messages \o Users(ms), Users(ms))
    BY EndsWithSecond, UsersOf DEF IInv, TypeOK, TextTypeOK
  <2> QED  BY <2>1, <2>2 DEF Launch
<1>2. CASE \E m \in fresh : Steer(m)
  BY <1>2 DEF IInv, Frame, Steer
<1>3. CASE \E m \in fresh : FollowUp(m)
  BY <1>3 DEF IInv, Frame, FollowUp
<1>4. CASE ClearSteeringQueue
  BY <1>4 DEF IInv, Frame, ClearSteeringQueue
<1>5. CASE ClearFollowUpQueue
  BY <1>5 DEF IInv, Frame, ClearFollowUpQueue
<1>6. CASE ClearAllQueues
  BY <1>6 DEF IInv, Frame, ClearAllQueues
<1>7. CASE Reset
  BY <1>7 DEF IInv, Frame, Reset
<1>8. CASE SetMessages
  BY <1>8 DEF IInv, Frame, SetMessages
<1>9. CASE Abort
  BY <1>9 DEF IInv, Frame, Abort, Cancellable, Suspended
<1>10. CASE AbortInListener
  BY <1>10 DEF IInv, Frame, AbortInListener
<1>11. CASE CancelCaller
  BY <1>11 DEF IInv, Frame, CancelCaller, Cancellable, Suspended
<1>12. CASE StartTask
  BY <1>12 DEF IInv, Frame, StartTask
<1>13. CASE CancelledBeforeStart
  BY <1>13 DEF IInv, Frame, CancelledBeforeStart
<1>14. CASE AfterAgentStart
  BY <1>14 DEF IInv, Frame, AfterAgentStart
<1>15. CASE AfterTurnStart
  BY <1>15, NoPrompts DEF IInv, Frame, AfterTurnStart, OpenTurn, RequestModel
<1>16. CASE AfterPromptStart
  BY <1>16 DEF IInv, Frame, AfterPromptStart
<1>17. CASE AfterPromptEnd
  BY <1>17, NoPrompts DEF IInv, Frame, AfterPromptEnd, OpenTurn, RequestModel
<1>18. CASE AfterInjectStart
  BY <1>18 DEF IInv, Frame, AfterInjectStart
<1>19. CASE AfterInjectEnd
  <2>1. Ends(Append(working, User(pending)), Append(produced, User(pending)))
    <3>1. User(pending) \in Sayings
      BY <1>19, Sayable DEF IInv, TypeOK, LoopTypeOK, Frame, AfterInjectEnd
    <3> QED  BY <1>19, <3>1, EndsAlike DEF IInv, TypeOK, TextTypeOK, AfterInjectEnd
  <2>2. messages = Append(working, User(pending))
    BY <1>19 DEF IInv, WorkingAgrees, AfterInjectEnd
  <2> QED  BY <1>19, <2>1, <2>2 DEF IInv, Frame, AfterInjectEnd, RequestModel
<1>20. CASE StreamEvent
  BY <1>20 DEF IInv, Frame, StreamEvent, StreamOpen
<1>21. CASE AfterStreamEmit
  BY <1>21 DEF IInv, Frame, AfterStreamEmit
<1>22. CASE \E s \in {"stop", "toolUse", "error"} : StreamDone(s)
  <2>1. ASSUME NEW s \in {"stop", "toolUse", "error"}, Ends(messages, produced)
        PROVE  Ends(Append(messages, Settled(s)), Append(produced, Settled(s)))
    BY <2>1, EndsAlike, Settling DEF IInv, TypeOK, TextTypeOK, Stops
  <2> QED  BY <1>22, <2>1 DEF IInv, Frame, StreamDone, StreamOpen, StartAndEnd, EndResponse
<1>23. CASE StreamErrorFirst
  <2>1. Ends(messages, produced)
          => Ends(Append(messages, Settled("error")), Append(produced, Settled("error")))
    BY EndsAlike, Settling DEF IInv, TypeOK, TextTypeOK, Stops
  <2> QED  BY <1>23, <2>1 DEF IInv, Frame, StreamErrorFirst, StreamOpen, EndResponse
<1>24. CASE StreamAborted
  <2>1. Ends(messages, produced)
          => Ends(Append(messages, Settled("aborted")), Append(produced, Settled("aborted")))
    BY EndsAlike, Settling DEF IInv, TypeOK, TextTypeOK, Stops
  <2> QED  BY <1>24, <2>1 DEF IInv, Frame, StreamAborted, StartAndEnd, EndResponse
<1>25. CASE AfterResponseStart
  <2>1. Ends(messages, produced)
          => Ends(Append(messages, Settled(response)), Append(produced, Settled(response)))
    BY EndsAlike, Settling DEF IInv, TypeOK, TextTypeOK, LoopTypeOK
  <2> QED  BY <1>25, <2>1 DEF IInv, Frame, AfterResponseStart, EndResponse
<1>26. CASE AfterResponseEnd
  BY <1>26 DEF IInv, Frame, AfterResponseEnd
<1>27. CASE \E t \in BOOLEAN : ToolsSettle(t)
  BY <1>27 DEF IInv, Frame, ToolsSettle
<1>28. CASE AfterResultStart
  <2>1. Ends(messages, produced)
          => Ends(Append(messages, ToolResult), Append(produced, ToolResult))
    BY EndsAlike, Sayable DEF IInv, TypeOK, TextTypeOK
  <2> QED  BY <1>28, <2>1 DEF IInv, Frame, AfterResultStart
<1>29. CASE AfterResultEnd
  BY <1>29 DEF IInv, Frame, AfterResultEnd, MoreResults
<1>30. CASE AfterTurnEnd
  <2>1. working = messages
    BY <1>30 DEF IInv, WorkingAgrees, AfterTurnEnd
  <2> QED  BY <1>30, <2>1 DEF IInv, AfterTurnEnd, Finish
<1>31. CASE AfterTailStart
  <2>1. Ends(messages, produced)
          => Ends(Append(messages, Assistant("aborted")), Append(produced, Assistant("aborted")))
    BY EndsAlike, Sayable DEF IInv, TypeOK, TextTypeOK, Stops, Tags
  <2> QED  BY <1>31, <2>1 DEF IInv, Frame, AfterTailStart
<1>32. CASE AfterTailEnd
  BY <1>32 DEF IInv, Frame, AfterTailEnd, Finish
<1>33. CASE AfterAgentEnd
  BY <1>33 DEF IInv, Frame, AfterAgentEnd, EndTask, Free
<1>34. CASE ListenerFails
  BY <1>34 DEF IInv, Frame, ListenerFails, EndTask, Free
<1>35. CASE CleanupFails
  BY <1>35 DEF IInv, Frame, CleanupFails, EndTask, Free
<1>36. CASE StreamBroken
  BY <1>36 DEF IInv, Frame, StreamBroken, EndTask, Free, StreamOpen
<1>37. CASE ToolsCancelled
  BY <1>37 DEF IInv, Frame, ToolsCancelled, EndTask, Free
<1> QED  BY Steps, <1>1, <1>2, <1>3, <1>4, <1>5, <1>6, <1>7, <1>8, <1>9, <1>10, <1>11,
            <1>12, <1>13, <1>14, <1>15, <1>16, <1>17, <1>18, <1>19, <1>20, <1>21, <1>22,
            <1>23, <1>24, <1>25, <1>26, <1>27, <1>28, <1>29, <1>30, <1>31, <1>32, <1>33,
            <1>34, <1>35, <1>36, <1>37

(* Every step keeps the calls answered up to where the task is.             *)
LEMMA AnswersKept ==
  ASSUME IInv, Next
  PROVE  CallsAnswered'
<1> USE DEF CallsAnswered, RunKeeps, Emit, runVars, queueVars, loopVars, textVars
<1>1. CASE Launches
  <2>1. PICK ms \in Seq(UserMessages), skip \in BOOLEAN : Launch(ms, skip) /\ ~run
    BY <1>1, Launched DEF IInv
  <2>2. UNCHANGED faults
    BY Steps
  <2> QED  BY <2>1, <2>2 DEF IInv, Frame, Launch
<1>2. CASE \E m \in fresh : Steer(m)
  BY <1>2, Steps DEF IInv, Frame, Steer
<1>3. CASE \E m \in fresh : FollowUp(m)
  BY <1>3, Steps DEF IInv, Frame, FollowUp
<1>4. CASE ClearSteeringQueue
  BY <1>4, Steps DEF IInv, Frame, ClearSteeringQueue
<1>5. CASE ClearFollowUpQueue
  BY <1>5, Steps DEF IInv, Frame, ClearFollowUpQueue
<1>6. CASE ClearAllQueues
  BY <1>6, Steps DEF IInv, Frame, ClearAllQueues
<1>7. CASE Reset
  <2>1. Answered(<<>>)
    BY DEF Answered
  <2> QED  BY <1>7, <2>1, Steps DEF IInv, Frame, Reset
<1>8. CASE SetMessages
  <2>1. Answered(messages) => Answered(Tail(messages))
    BY <1>8, AnsweredTail DEF IInv, TypeOK, TextTypeOK, SetMessages
  <2> QED  BY <1>8, <2>1, Steps DEF IInv, Frame, SetMessages
<1>9. CASE Abort
  BY <1>9, Steps DEF IInv, Frame, Abort, Cancellable, Suspended
<1>10. CASE AbortInListener
  BY <1>10, Steps DEF IInv, Frame, AbortInListener
<1>11. CASE CancelCaller
  BY <1>11, Steps DEF IInv, Frame, CancelCaller, Cancellable, Suspended
<1>12. CASE StartTask
  BY <1>12, Steps DEF IInv, Frame, StartTask
<1>13. CASE CancelledBeforeStart
  BY <1>13, Steps DEF IInv, Frame, CancelledBeforeStart
<1>14. CASE AfterAgentStart
  BY <1>14, Steps DEF IInv, Frame, AfterAgentStart
<1>15. CASE AfterTurnStart
  BY <1>15, Steps DEF IInv, Frame, AfterTurnStart, OpenTurn, RequestModel
<1>16. CASE AfterPromptStart
  <2>1. Answered(messages) => Answered(Append(messages, User(Head(prompts))))
    <3>1. User(Head(prompts)) \in Sayings
      BY <1>16, Taken DEF IInv, TypeOK, Frame, AfterPromptStart, LoopTypeOK
    <3> QED  BY <3>1, AnsweredNext, Distinct DEF IInv, TypeOK, TextTypeOK
  <2> QED  BY <1>16, <2>1, Steps DEF IInv, Frame, AfterPromptStart
<1>17. CASE AfterPromptEnd
  BY <1>17, Steps DEF IInv, Frame, AfterPromptEnd, OpenTurn, RequestModel
<1>18. CASE AfterInjectStart
  <2>1. Answered(messages) => Answered(Append(messages, User(pending)))
    BY <1>18, AnsweredNext, Sayable, Distinct DEF IInv, TypeOK, TextTypeOK, LoopTypeOK,
       Frame, AfterInjectStart
  <2> QED  BY <1>18, <2>1, Steps DEF IInv, Frame, AfterInjectStart
<1>19. CASE AfterInjectEnd
  BY <1>19, Steps DEF IInv, Frame, AfterInjectEnd, RequestModel
<1>20. CASE StreamEvent
  BY <1>20, Steps DEF IInv, Frame, StreamEvent, StreamOpen
<1>21. CASE AfterStreamEmit
  BY <1>21, Steps DEF IInv, Frame, AfterStreamEmit
<1>22. CASE \E s \in {"stop", "toolUse", "error"} : StreamDone(s)
  <2>1. ASSUME Answered(messages), NEW s \in Stops
        PROVE  /\ AnsweredBefore(Append(messages, Settled(s)))
               /\ Final(Append(messages, Settled(s))) # ToolResult
               /\ Final(Append(messages, Settled(s))) = Assistant("toolUse") <=> s = "toolUse"
    BY <2>1, AnsweredSoFar, Settling DEF IInv, TypeOK, TextTypeOK
  <2>2. {"stop", "toolUse", "error"} \subseteq Stops
    BY DEF Stops
  <2> QED  BY <1>22, <2>1, <2>2, Steps DEF IInv, Frame, StreamDone, StreamOpen, StartAndEnd,
              EndResponse
<1>23. CASE StreamErrorFirst
  <2>1. ASSUME Answered(messages)
        PROVE  /\ AnsweredBefore(Append(messages, Settled("error")))
               /\ Final(Append(messages, Settled("error"))) # ToolResult
               /\ Final(Append(messages, Settled("error"))) = Assistant("toolUse") <=> "error" = "toolUse"
    BY <2>1, AnsweredSoFar, Settling DEF IInv, TypeOK, TextTypeOK, Stops
  <2> QED  BY <1>23, <2>1, Steps DEF IInv, Frame, StreamErrorFirst, StreamOpen, EndResponse
<1>24. CASE StreamAborted
  <2>1. ASSUME Answered(messages)
        PROVE  /\ AnsweredBefore(Append(messages, Settled("aborted")))
               /\ Final(Append(messages, Settled("aborted"))) # ToolResult
               /\ Final(Append(messages, Settled("aborted"))) = Assistant("toolUse") <=> "aborted" = "toolUse"
    BY <2>1, AnsweredSoFar, Settling DEF IInv, TypeOK, TextTypeOK, Stops
  <2> QED  BY <1>24, <2>1, Steps DEF IInv, Frame, StreamAborted, StartAndEnd, EndResponse
<1>25. CASE AfterResponseStart
  <2>1. ASSUME Answered(messages)
        PROVE  /\ AnsweredBefore(Append(messages, Settled(response)))
               /\ Final(Append(messages, Settled(response))) # ToolResult
               /\ Final(Append(messages, Settled(response))) = Assistant("toolUse") <=> response = "toolUse"
    BY <2>1, AnsweredSoFar, Settling DEF IInv, TypeOK, TextTypeOK, LoopTypeOK
  <2> QED  BY <1>25, <2>1, Steps DEF IInv, Frame, AfterResponseStart, EndResponse
<1>26. CASE AfterResponseEnd
  <2>1. CASE response = "toolUse"
    BY <1>26, <2>1, Steps DEF IInv, Frame, AfterResponseEnd
  <2>2. CASE response # "toolUse"
    <3>1. AnsweredBefore(messages) /\ Final(messages) # Assistant("toolUse")
              /\ Final(messages) # ToolResult
            => Answered(messages)
      BY AnsweredWithoutCalls DEF IInv, TypeOK, TextTypeOK
    <3> QED  BY <1>26, <2>2, <3>1, Steps DEF IInv, Frame, AfterResponseEnd
  <2> QED  BY <2>1, <2>2
<1>27. CASE \E t \in BOOLEAN : ToolsSettle(t)
  <2>1. working = messages /\ response = "toolUse"
    BY <1>27 DEF IInv, Frame, WorkingAgrees, ToolsSettle
  <2> QED  BY <1>27, <2>1, Steps DEF IInv, Frame, ToolsSettle
<1>28. CASE AfterResultStart
  BY <1>28, Steps DEF IInv, Frame, AfterResultStart
<1>29. CASE AfterResultEnd
  <2>1. AnsweredBefore(working) /\ Final(working) = Assistant("toolUse")
          => Answered(working \o BatchResults)
    BY AnsweredByBatch DEF IInv, TypeOK, TextTypeOK
  <2>2. ~MoreResults => messages = working \o BatchResults
    <3>1. WorkingAgrees'
      BY WorkingKept
    <3> QED  BY <1>29, <3>1 DEF WorkingAgrees, AfterResultEnd, Emit
  <2> QED  BY <1>29, <2>1, <2>2, Steps DEF IInv, AfterResultEnd
<1>30. CASE AfterTurnEnd
  BY <1>30, Steps DEF IInv, Frame, AfterTurnEnd, Finish, Poll, Stopping, NeedsTail
<1>31. CASE AfterTailStart
  <2>1. Answered(messages) => Answered(Append(messages, Assistant("aborted")))
    BY <1>31, AnsweredNext, Sayable, Distinct DEF IInv, TypeOK, TextTypeOK, Stops, Tags
  <2> QED  BY <1>31, <2>1, Steps DEF IInv, Frame, AfterTailStart
<1>32. CASE AfterTailEnd
  BY <1>32, Steps DEF IInv, Frame, AfterTailEnd, Finish
<1>33. CASE AfterAgentEnd
  BY <1>33, Steps DEF IInv, Frame, AfterAgentEnd, EndTask, Free
<1>34. CASE ListenerFails
  BY <1>34, Steps DEF IInv, Frame, ListenerFails, EndTask, Free
<1>35. CASE CleanupFails
  BY <1>35, Steps DEF IInv, Frame, CleanupFails, EndTask, Free
<1>36. CASE StreamBroken
  BY <1>36, Steps DEF IInv, Frame, StreamBroken, EndTask, Free, StreamOpen
<1>37. CASE ToolsCancelled
  BY <1>37, Steps DEF IInv, Frame, ToolsCancelled, EndTask, Free
<1> QED  BY Steps, <1>1, <1>2, <1>3, <1>4, <1>5, <1>6, <1>7, <1>8, <1>9, <1>10, <1>11,
            <1>12, <1>13, <1>14, <1>15, <1>16, <1>17, <1>18, <1>19, <1>20, <1>21, <1>22,
            <1>23, <1>24, <1>25, <1>26, <1>27, <1>28, <1>29, <1>30, <1>31, <1>32, <1>33,
            <1>34, <1>35, <1>36, <1>37

-----------------------------------------------------------------------------
(* Every message in one place.                                              *)

(* The types together.                                                      *)
LEMMA TypesKept ==
  ASSUME IInv, Next
  PROVE  TypeOK'
  BY RunTypesKept, QueueTypesKept, LoopTypesKept, TextTypesKept, Steps DEF IInv, TypeOK

(* Nothing is in the empty sequence.                                        *)
LEMMA CountEmpty ==
  ASSUME NEW e
  PROVE  Count(<<>>, e) = 0
<1>1. <<>> \in Seq({}) /\ \A i \in DOMAIN <<>> : <<>>[i] # e
  OBVIOUS
<1> QED  BY <1>1, CountNone

(* What is in a sequence of one message.                                    *)
LEMMA CountSingle ==
  ASSUME NEW S, NEW x \in S, NEW e
  PROVE  Count(<<x>>, e) = IF x = e THEN 1 ELSE 0
<1>1. <<x>> \in Seq(S) /\ Len(<<x>>) = 1 /\ <<x>>[1] = x /\ DOMAIN <<x>> = {1}
  OBVIOUS
<1>2. CASE x = e
  BY <1>1, <1>2, CountOnce
<1>3. CASE x # e
  BY <1>1, <1>3, CountNone
<1> QED  BY <1>2, <1>3

(* A response or a tool result is no user message.                          *)
LEMMA CountSayings ==
  ASSUME TypeOK, NEW m \in UserMessages
  PROVE  /\ \A s \in Stops :
              Count(Append(messages, Settled(s)), User(m)) = Count(messages, User(m))
         /\ Count(Append(messages, Assistant("aborted")), User(m)) = Count(messages, User(m))
         /\ Count(Append(messages, ToolResult), User(m)) = Count(messages, User(m))
         /\ \A n \in UserMessages :
              Count(Append(messages, User(n)), User(m))
                = Count(messages, User(m)) + (IF n = m THEN 1 ELSE 0)
<1>1. messages \in Seq(Sayings) /\ Count(messages, User(m)) \in Nat
  BY CountIsNat DEF TypeOK, TextTypeOK
<1>2. ASSUME NEW s \in Stops
      PROVE  Count(Append(messages, Settled(s)), User(m)) = Count(messages, User(m))
  <2>1. Settled(s) # User(m) /\ Settled(s) \in Sayings
    BY Settling
  <2> QED  BY <1>1, <2>1, CountAppend
<1>3. Count(Append(messages, ToolResult), User(m)) = Count(messages, User(m))
  <2>1. ToolResult # User(m) /\ ToolResult \in Sayings
    BY Distinct, Sayable
  <2> QED  BY <1>1, <2>1, CountAppend
<1>4. ASSUME NEW n \in UserMessages
      PROVE  Count(Append(messages, User(n)), User(m))
               = Count(messages, User(m)) + (IF n = m THEN 1 ELSE 0)
  <2>1. User(n) \in Sayings /\ (User(n) = User(m) <=> n = m)
    BY Distinct, Sayable
  <2> QED  BY <1>1, <2>1, CountAppend
<1>5. Count(Append(messages, Assistant("aborted")), User(m)) = Count(messages, User(m))
  <2>1. Assistant("aborted") # User(m) /\ Assistant("aborted") \in Sayings
    BY Distinct, Sayable DEF Tags, Stops
  <2> QED  BY <1>1, <2>1, CountAppend
<1> QED  BY <1>2, <1>3, <1>4, <1>5

(* What KeptOnce says of one step and one message.                          *)
Kept(m) ==
  \/ Held(m)' = IF m \in fresh' THEN 0 ELSE 1
  \/ Held(m)' = 0
       /\ \/ Held(m) = 0 \/ Discard
          \/ InFlight(m) = 1 /\ outcome' \notin {"none", "returned"}

(* Every step treats every message as KeptOnce says.                        *)
LEMMA EachKept ==
  ASSUME IInv, Next, NEW m \in UserMessages
  PROVE  Kept(m)
<1> DEFINE s == Count(steering, m)            s1 == Count(steering', m)
           f == Count(followUp, m)            f1 == Count(followUp', m)
           p == Count(prompts, m)             p1 == Count(prompts', m)
           w == IF pending = m /\ pc # "InjectEnd" THEN 1 ELSE 0
           w1 == IF pending' = m /\ pc' # "InjectEnd" THEN 1 ELSE 0
           t == Count(messages, User(m))      t1 == Count(messages', User(m))
<1>1. /\ s \in Nat /\ f \in Nat /\ p \in Nat /\ w \in Nat /\ t \in Nat
      /\ s1 \in Nat /\ f1 \in Nat /\ p1 \in Nat /\ w1 \in Nat /\ t1 \in Nat
  <2>1. TypeOK' /\ TypeOK
    BY TypesKept DEF IInv
  <2>2. /\ Count(steering, m) \in Nat /\ Count(followUp, m) \in Nat
        /\ Count(prompts, m) \in Nat /\ Count(messages, User(m)) \in Nat
    BY <2>1, CountIsNat DEF TypeOK, QueueTypeOK, LoopTypeOK, TextTypeOK
  <2>3. /\ Count(steering', m) \in Nat /\ Count(followUp', m) \in Nat
        /\ Count(prompts', m) \in Nat /\ Count(messages', User(m)) \in Nat
    BY <2>1, CountIsNat DEF TypeOK, QueueTypeOK, LoopTypeOK, TextTypeOK
  <2> QED  BY <2>2, <2>3
<1>2. /\ \A x \in Stops : Count(Append(messages, Settled(x)), User(m)) = t
      /\ Count(Append(messages, Assistant("aborted")), User(m)) = t
      /\ Count(Append(messages, ToolResult), User(m)) = t
      /\ \A n \in UserMessages :
           Count(Append(messages, User(n)), User(m)) = t + (IF n = m THEN 1 ELSE 0)
  BY CountSayings DEF IInv
<1>3. /\ steering # <<>> => s = Count(Tail(steering), m) + (IF Head(steering) = m THEN 1 ELSE 0)
      /\ followUp # <<>> => f = Count(Tail(followUp), m) + (IF Head(followUp) = m THEN 1 ELSE 0)
      /\ prompts # <<>> => p = Count(Tail(prompts), m) + (IF Head(prompts) = m THEN 1 ELSE 0)
  BY CountTail DEF IInv, TypeOK, QueueTypeOK, LoopTypeOK
<1>4. Held(m) = s + f + (p + w) + t /\ InFlight(m) = p + w /\ None # m
  BY AgentRunAssumption DEF Held, InFlight
<1>5. Held(m)' = s1 + f1 + (p1 + w1) + t1
  BY DEF Held, InFlight
<1>6. Held(m) = 0 \/ (Held(m) = 1 /\ m \notin fresh)
  BY DEF IInv, InOnePlace
<1> HIDE DEF s, s1, f, f1, p, p1, w, w1, t, t1
(* It stays where it is, or moves from one place to another.                *)
<1>7. ASSUME s1 + f1 + (p1 + w1) + t1 = s + f + (p + w) + t, m \in fresh' => m \in fresh
      PROVE  Kept(m)
  BY <1>4, <1>5, <1>6, <1>7 DEF Kept
(* It is used.                                                              *)
<1>8. ASSUME s1 + f1 + (p1 + w1) + t1 = s + f + (p + w) + t + 1, m \in fresh, m \notin fresh'
      PROVE  Kept(m)
  BY <1>4, <1>5, <1>6, <1>8 DEF Kept
(* It may be discarded.                                                     *)
<1>9. ASSUME s1 <= s, f1 <= f, p1 = p, w1 = w, t1 <= t, Discard, UNCHANGED fresh
      PROVE  Kept(m)
  <2>1. s1 + f1 + (p1 + w1) + t1 <= s + f + (p + w) + t /\ s1 + f1 + (p1 + w1) + t1 \in Nat
    BY <1>1, <1>9
  <2> QED  BY <1>4, <1>5, <1>6, <1>9, <2>1 DEF Kept
(* It is lost if the task has it.                                           *)
<1>10. ASSUME s1 = s, f1 = f, p1 = 0, w1 = 0, t1 = t, UNCHANGED fresh,
              outcome' \notin {"none", "returned"}
       PROVE  Kept(m)
  <2>1. s + f + (p + w) + t \in {0, 1} /\ s1 + f1 + (p1 + w1) + t1 = s + f + t
    BY <1>1, <1>4, <1>6, <1>10
  <2>2. CASE p + w = 0
    BY <1>1, <1>7, <1>10, <2>1, <2>2
  <2>3. CASE p + w # 0
    <3>1. p + w = 1 /\ s + f + t = 0
      BY <1>1, <2>1, <2>3
    <3> QED  BY <1>4, <1>5, <1>10, <2>1, <3>1 DEF Kept
  <2> QED  BY <2>2, <2>3
<1>11. CASE Launches
  <2>1. prompts = <<>> /\ pending = None
    BY <1>11 DEF IInv, Frame, Prompting, Injecting, Launches, Prompt, ContinueSteering,
                ContinueFollowUp, ContinueTranscript
  <2>2. p = 0 /\ w = 0
    BY <1>4, <2>1, CountEmpty DEF p, w
  <2>3. ASSUME NEW ms, NEW skip, Launch(ms, skip)
        PROVE  p1 = Count(ms, m) /\ w1 = 0 /\ t1 = t
    BY <1>4, <2>3 DEF Launch, p1, w1, t, t1
  <2>4. CASE \E ms \in PromptLists : Prompt(ms)
    <3>1. PICK ms \in PromptLists : Prompt(ms)
      BY <2>4
    <3>2. /\ ms \in Seq(UserMessages) /\ \A i \in DOMAIN ms : ms[i] \in fresh
          /\ \A i, j \in DOMAIN ms : ms[i] = ms[j] => i = j
      BY PromptsListed, AgentRunAssumption DEF IInv, TypeOK, QueueTypeOK
    <3>3. s1 = s /\ f1 = f /\ p1 = Count(ms, m) /\ w1 = 0 /\ t1 = t
      BY <2>3, <3>1 DEF Prompt, s, s1, f, f1
    <3>4. CASE \E i \in DOMAIN ms : ms[i] = m
      <4>1. m \in fresh /\ m \notin fresh'
        BY <3>1, <3>2, <3>4 DEF Prompt
      <4>2. Count(ms, m) = 1
        BY <3>2, <3>4, CountOnce
      <4> QED  BY <1>1, <1>8, <2>2, <3>3, <4>1, <4>2
    <3>5. CASE \A i \in DOMAIN ms : ms[i] # m
      <4>1. Count(ms, m) = 0
        BY <3>2, <3>5, CountNone
      <4>2. fresh' \subseteq fresh
        BY <3>1 DEF Prompt
      <4> QED  BY <1>7, <2>2, <3>3, <4>1, <4>2
    <3> QED  BY <3>4, <3>5
  <2>5. CASE ContinueSteering
    <3>1. Head(steering) \in UserMessages
      BY <2>5, Taken DEF IInv, TypeOK, QueueTypeOK, ContinueSteering
    <3>2. p1 = (IF Head(steering) = m THEN 1 ELSE 0) /\ w1 = 0 /\ t1 = t
      <4>1. p1 = Count(<<Head(steering)>>, m) /\ w1 = 0 /\ t1 = t
        BY <2>3, <2>5 DEF ContinueSteering
      <4> QED  BY <3>1, <4>1, CountSingle
    <3>3. s = s1 + (IF Head(steering) = m THEN 1 ELSE 0) /\ f1 = f /\ UNCHANGED fresh
      BY <1>3, <2>5 DEF ContinueSteering, s1, f, f1
    <3> QED  BY <1>1, <1>7, <2>2, <3>2, <3>3
  <2>6. CASE ContinueFollowUp
    <3>1. Head(followUp) \in UserMessages
      BY <2>6, Taken DEF IInv, TypeOK, QueueTypeOK, ContinueFollowUp
    <3>2. p1 = (IF Head(followUp) = m THEN 1 ELSE 0) /\ w1 = 0 /\ t1 = t
      <4>1. p1 = Count(<<Head(followUp)>>, m) /\ w1 = 0 /\ t1 = t
        BY <2>3, <2>6 DEF ContinueFollowUp
      <4> QED  BY <3>1, <4>1, CountSingle
    <3>3. f = f1 + (IF Head(followUp) = m THEN 1 ELSE 0) /\ s1 = s /\ UNCHANGED fresh
      BY <1>3, <2>6 DEF ContinueFollowUp, s, s1, f1
    <3> QED  BY <1>1, <1>7, <2>2, <3>2, <3>3
  <2>7. CASE ContinueTranscript
    <3>1. s1 = s /\ f1 = f /\ UNCHANGED fresh /\ p1 = 0 /\ w1 = 0 /\ t1 = t
      BY <2>3, <2>7, CountEmpty DEF ContinueTranscript, queueVars, s, s1, f, f1
    <3> QED  BY <1>7, <2>2, <3>1
  <2> QED  BY <1>11, <2>4, <2>5, <2>6, <2>7 DEF Launches
<1>12. CASE \E n \in fresh : Steer(n)
  <2>1. PICK x \in fresh : Steer(x)
    BY <1>12
  <2>2. s1 = s + (IF x = m THEN 1 ELSE 0)
    <3>1. x \in UserMessages /\ steering \in Seq(UserMessages)
      BY DEF IInv, TypeOK, QueueTypeOK
    <3> QED  BY <2>1, <3>1, CountAppend DEF Steer, s, s1
  <2>3. f1 = f /\ p1 = p /\ w1 = w /\ t1 = t /\ fresh' = fresh \ {x}
    BY <2>1 DEF Steer, runVars, loopVars, textVars, f, f1, p, p1, w, w1, t, t1
  <2>4. CASE x = m
    BY <1>1, <1>8, <2>2, <2>3, <2>4
  <2>5. CASE x # m
    BY <1>1, <1>7, <2>2, <2>3, <2>5
  <2> QED  BY <2>4, <2>5
<1>13. CASE \E n \in fresh : FollowUp(n)
  <2>1. PICK x \in fresh : FollowUp(x)
    BY <1>13
  <2>2. f1 = f + (IF x = m THEN 1 ELSE 0)
    <3>1. x \in UserMessages /\ followUp \in Seq(UserMessages)
      BY DEF IInv, TypeOK, QueueTypeOK
    <3> QED  BY <2>1, <3>1, CountAppend DEF FollowUp, f, f1
  <2>3. s1 = s /\ p1 = p /\ w1 = w /\ t1 = t /\ fresh' = fresh \ {x}
    BY <2>1 DEF FollowUp, runVars, loopVars, textVars, s, s1, p, p1, w, w1, t, t1
  <2>4. CASE x = m
    BY <1>1, <1>8, <2>2, <2>3, <2>4
  <2>5. CASE x # m
    BY <1>1, <1>7, <2>2, <2>3, <2>5
  <2> QED  BY <2>4, <2>5
<1>14. CASE ClearSteeringQueue
  <2>1. Discard /\ UNCHANGED fresh /\ p1 = p /\ w1 = w
    BY <1>14 DEF Discard, ClearSteeringQueue, p, p1, w, w1, runVars, loopVars, queueVars
  <2>2. s1 \in {s, 0} /\ f1 \in {f, 0} /\ t1 \in {t, 0}
    BY <1>14, CountEmpty DEF ClearSteeringQueue, s, s1, f, f1, t, t1, textVars
  <2> QED  BY <1>1, <1>9, <2>1, <2>2
<1>15. CASE ClearFollowUpQueue
  <2>1. Discard /\ UNCHANGED fresh /\ p1 = p /\ w1 = w
    BY <1>15 DEF Discard, ClearFollowUpQueue, p, p1, w, w1, runVars, loopVars, queueVars
  <2>2. s1 \in {s, 0} /\ f1 \in {f, 0} /\ t1 \in {t, 0}
    BY <1>15, CountEmpty DEF ClearFollowUpQueue, s, s1, f, f1, t, t1, textVars
  <2> QED  BY <1>1, <1>9, <2>1, <2>2
<1>16. CASE ClearAllQueues
  <2>1. Discard /\ UNCHANGED fresh /\ p1 = p /\ w1 = w
    BY <1>16 DEF Discard, ClearAllQueues, p, p1, w, w1, runVars, loopVars, queueVars
  <2>2. s1 \in {s, 0} /\ f1 \in {f, 0} /\ t1 \in {t, 0}
    BY <1>16, CountEmpty DEF ClearAllQueues, s, s1, f, f1, t, t1, textVars
  <2> QED  BY <1>1, <1>9, <2>1, <2>2
<1>17. CASE Reset
  <2>1. Discard /\ UNCHANGED fresh /\ p1 = p /\ w1 = w
    BY <1>17 DEF Discard, Reset, p, p1, w, w1, runVars, loopVars, queueVars
  <2>2. s1 \in {s, 0} /\ f1 \in {f, 0} /\ t1 \in {t, 0}
    BY <1>17, CountEmpty DEF Reset, s, s1, f, f1, t, t1, textVars
  <2> QED  BY <1>1, <1>9, <2>1, <2>2
<1>18. CASE SetMessages
  <2>1. /\ Discard /\ UNCHANGED fresh /\ s1 = s /\ f1 = f /\ p1 = p /\ w1 = w
    BY <1>18 DEF Discard, SetMessages, s, s1, f, f1, p, p1, w, w1, runVars, loopVars, queueVars
  <2>2. t = t1 + (IF Head(messages) = User(m) THEN 1 ELSE 0)
    BY <1>18, CountTail DEF IInv, TypeOK, TextTypeOK, SetMessages, t, t1
  <2> QED  BY <1>1, <1>9, <2>1, <2>2
<1>19. CASE Abort
  <2>1. s1 = s /\ f1 = f /\ p1 = p /\ w1 = w /\ t1 = t /\ UNCHANGED fresh
    BY <1>19 DEF IInv, Frame, Abort, Cancellable, Suspended, s, s1, f, f1, p, p1, w, w1, t, t1,
       RunKeeps, Emit, runVars, queueVars, loopVars, textVars
  <2> QED  BY <1>7, <2>1
<1>20. CASE AbortInListener
  <2>1. s1 = s /\ f1 = f /\ p1 = p /\ w1 = w /\ t1 = t /\ UNCHANGED fresh
    BY <1>20 DEF IInv, Frame, AbortInListener, s, s1, f, f1, p, p1, w, w1, t, t1,
       RunKeeps, Emit, runVars, queueVars, loopVars, textVars
  <2> QED  BY <1>7, <2>1
<1>21. CASE CancelCaller
  <2>1. s1 = s /\ f1 = f /\ p1 = p /\ w1 = w /\ t1 = t /\ UNCHANGED fresh
    BY <1>21 DEF IInv, Frame, CancelCaller, Cancellable, Suspended, s, s1, f, f1, p, p1, w,
       w1, t, t1,
       RunKeeps, Emit, runVars, queueVars, loopVars, textVars
  <2> QED  BY <1>7, <2>1
<1>22. CASE StartTask
  <2>1. s1 = s /\ f1 = f /\ p1 = p /\ w1 = w /\ t1 = t /\ UNCHANGED fresh
    BY <1>22 DEF IInv, Frame, StartTask, s, s1, f, f1, p, p1, w, w1, t, t1,
       RunKeeps, Emit, runVars, queueVars, loopVars, textVars
  <2> QED  BY <1>7, <2>1
<1>23. CASE CancelledBeforeStart
  <2>1. UNCHANGED fresh /\ outcome' \notin {"none", "returned"}
    BY <1>23 DEF CancelledBeforeStart, queueVars
  <2>2. s1 = s /\ f1 = f /\ p1 = 0 /\ w1 = 0 /\ t1 = t
    BY <1>23, <1>4, CountEmpty DEF IInv, Frame, Injecting, CancelledBeforeStart, queueVars,
       textVars,
       s, s1, f, f1, p, p1, w, w1, t, t1
  <2> QED  BY <1>10, <2>1, <2>2
<1>24. CASE AfterAgentStart
  <2>1. s1 = s /\ f1 = f /\ p1 = p /\ w1 = w /\ t1 = t /\ UNCHANGED fresh
    BY <1>24 DEF IInv, Frame, AfterAgentStart, s, s1, f, f1, p, p1, w, w1, t, t1,
       RunKeeps, Emit, runVars, queueVars, loopVars, textVars
  <2> QED  BY <1>7, <2>1
<1>25. CASE AfterTurnStart
  <2>1. f1 = f /\ p1 = p /\ t1 = t /\ UNCHANGED fresh
    BY <1>25 DEF AfterTurnStart, OpenTurn, RunKeeps, f, f1, p, p1, t, t1
  <2>2. \/ UNCHANGED <<steering, pending>>
        \/ /\ pending = None /\ steering # <<>>
           /\ pending' = Head(steering) /\ steering' = Tail(steering)
    BY <1>25 DEF IInv, Frame, AfterTurnStart, OpenTurn, RequestModel
  <2>3. pc # "InjectEnd" /\ pc' # "InjectEnd"
    BY <1>25 DEF AfterTurnStart, OpenTurn, RequestModel, Emit
  <2>4. CASE UNCHANGED <<steering, pending>>
    BY <1>7, <2>1, <2>3, <2>4 DEF s, s1, w, w1
  <2>5. CASE /\ pending = None /\ steering # <<>>
             /\ pending' = Head(steering) /\ steering' = Tail(steering)
    <3>1. s = s1 + w1 /\ w = 0
      BY <1>3, <1>4, <2>3, <2>5 DEF s, s1, w, w1
    <3> QED  BY <1>1, <1>7, <2>1, <3>1
  <2> QED  BY <2>2, <2>4, <2>5
<1>26. CASE AfterPromptStart
  <2>1. s1 = s /\ f1 = f /\ w1 = w /\ UNCHANGED fresh
    BY <1>26 DEF AfterPromptStart, RunKeeps, Emit, s, s1, f, f1, w, w1
  <2>2. prompts # <<>> /\ Head(prompts) \in UserMessages
    BY <1>26, Taken DEF IInv, TypeOK, LoopTypeOK, Frame, AfterPromptStart
  <2>3. p = p1 + (IF Head(prompts) = m THEN 1 ELSE 0)
    BY <1>26, <1>3, <2>2 DEF AfterPromptStart, p, p1
  <2>4. t1 = t + (IF Head(prompts) = m THEN 1 ELSE 0)
    BY <1>26, <1>2, <2>2 DEF AfterPromptStart, t1
  <2> QED  BY <1>1, <1>7, <2>1, <2>3, <2>4
<1>27. CASE AfterPromptEnd
  <2>1. f1 = f /\ p1 = p /\ t1 = t /\ UNCHANGED fresh
    BY <1>27 DEF AfterPromptEnd, OpenTurn, RunKeeps, f, f1, p, p1, t, t1
  <2>2. \/ UNCHANGED <<steering, pending>>
        \/ /\ pending = None /\ steering # <<>>
           /\ pending' = Head(steering) /\ steering' = Tail(steering)
    BY <1>27 DEF IInv, Frame, AfterPromptEnd, OpenTurn, RequestModel
  <2>3. pc # "InjectEnd" /\ pc' # "InjectEnd"
    BY <1>27 DEF AfterPromptEnd, OpenTurn, RequestModel, Emit
  <2>4. CASE UNCHANGED <<steering, pending>>
    BY <1>7, <2>1, <2>3, <2>4 DEF s, s1, w, w1
  <2>5. CASE /\ pending = None /\ steering # <<>>
             /\ pending' = Head(steering) /\ steering' = Tail(steering)
    <3>1. s = s1 + w1 /\ w = 0
      BY <1>3, <1>4, <2>3, <2>5 DEF s, s1, w, w1
    <3> QED  BY <1>1, <1>7, <2>1, <3>1
  <2> QED  BY <2>2, <2>4, <2>5
<1>28. CASE AfterInjectStart
  <2>1. s1 = s /\ f1 = f /\ p1 = p /\ w1 = 0 /\ UNCHANGED fresh
    BY <1>28 DEF AfterInjectStart, RunKeeps, Emit, loopVars, s, s1, f, f1, p, p1, w1
  <2>2. pending \in UserMessages /\ pc # "InjectEnd"
    BY <1>28 DEF IInv, TypeOK, LoopTypeOK, Frame, AfterInjectStart
  <2>3. t1 = t + w
    BY <1>28, <1>2, <2>2 DEF AfterInjectStart, t1, w
  <2> QED  BY <1>1, <1>7, <2>1, <2>3
<1>29. CASE AfterInjectEnd
  <2>1. s1 = s /\ f1 = f /\ p1 = p /\ t1 = t /\ UNCHANGED fresh
    BY <1>29 DEF AfterInjectEnd, RunKeeps, s, s1, f, f1, p, p1, w, w1, t, t1
  <2>2. w1 = 0 /\ w = 0
    BY <1>29, <1>4 DEF AfterInjectEnd, w, w1
  <2> QED  BY <1>7, <2>1, <2>2
<1>30. CASE StreamEvent
  <2>1. s1 = s /\ f1 = f /\ p1 = p /\ w1 = w /\ t1 = t /\ UNCHANGED fresh
    BY <1>30 DEF IInv, Frame, StreamEvent, StreamOpen, s, s1, f, f1, p, p1, w, w1, t, t1,
       RunKeeps, Emit, runVars, queueVars, loopVars, textVars
  <2> QED  BY <1>7, <2>1
<1>31. CASE AfterStreamEmit
  <2>1. s1 = s /\ f1 = f /\ p1 = p /\ w1 = w /\ t1 = t /\ UNCHANGED fresh
    BY <1>31 DEF IInv, Frame, AfterStreamEmit, s, s1, f, f1, p, p1, w, w1, t, t1,
       RunKeeps, Emit, runVars, queueVars, loopVars, textVars
  <2> QED  BY <1>7, <2>1
<1>32. CASE \E stop \in {"stop", "toolUse", "error"} : StreamDone(stop)
  <2>1. s1 = s /\ f1 = f /\ p1 = p /\ w1 = w /\ t1 = t /\ UNCHANGED fresh
    BY <1>32, <1>2 DEF IInv, Frame, StreamDone, StreamOpen, StartAndEnd, EndResponse,
       TypeOK, LoopTypeOK, Stops, s, s1, f, f1, p, p1, w, w1, t, t1,
       RunKeeps, Emit, runVars, queueVars, loopVars, textVars
  <2> QED  BY <1>7, <2>1
<1>33. CASE StreamErrorFirst
  <2>1. s1 = s /\ f1 = f /\ p1 = p /\ w1 = w /\ t1 = t /\ UNCHANGED fresh
    BY <1>33, <1>2 DEF IInv, Frame, StreamErrorFirst, StreamOpen, EndResponse, TypeOK,
       LoopTypeOK, Stops, s, s1, f, f1, p, p1, w, w1, t, t1,
       RunKeeps, Emit, runVars, queueVars, loopVars, textVars
  <2> QED  BY <1>7, <2>1
<1>34. CASE StreamAborted
  <2>1. s1 = s /\ f1 = f /\ p1 = p /\ w1 = w /\ t1 = t /\ UNCHANGED fresh
    BY <1>34, <1>2 DEF IInv, Frame, StreamAborted, StartAndEnd, EndResponse, TypeOK,
       LoopTypeOK, Stops, s, s1, f, f1, p, p1, w, w1, t, t1,
       RunKeeps, Emit, runVars, queueVars, loopVars, textVars
  <2> QED  BY <1>7, <2>1
<1>35. CASE AfterResponseStart
  <2>1. s1 = s /\ f1 = f /\ p1 = p /\ w1 = w /\ t1 = t /\ UNCHANGED fresh
    BY <1>35, <1>2 DEF IInv, Frame, AfterResponseStart, EndResponse, TypeOK, LoopTypeOK,
       Stops, s, s1, f, f1, p, p1, w, w1, t, t1,
       RunKeeps, Emit, runVars, queueVars, loopVars, textVars
  <2> QED  BY <1>7, <2>1
<1>36. CASE AfterResponseEnd
  <2>1. s1 = s /\ f1 = f /\ p1 = p /\ w1 = w /\ t1 = t /\ UNCHANGED fresh
    BY <1>36 DEF IInv, Frame, AfterResponseEnd, s, s1, f, f1, p, p1, w, w1, t, t1,
       RunKeeps, Emit, runVars, queueVars, loopVars, textVars
  <2> QED  BY <1>7, <2>1
<1>37. CASE \E ends \in BOOLEAN : ToolsSettle(ends)
  <2>1. s1 = s /\ f1 = f /\ p1 = p /\ w1 = w /\ t1 = t /\ UNCHANGED fresh
    BY <1>37 DEF IInv, Frame, ToolsSettle, s, s1, f, f1, p, p1, w, w1, t, t1,
       RunKeeps, Emit, runVars, queueVars, loopVars, textVars
  <2> QED  BY <1>7, <2>1
<1>38. CASE AfterResultStart
  <2>1. s1 = s /\ f1 = f /\ p1 = p /\ w1 = w /\ t1 = t /\ UNCHANGED fresh
    BY <1>38, <1>2 DEF IInv, Frame, AfterResultStart, TypeOK, LoopTypeOK, Stops, s, s1, f,
       f1, p, p1, w, w1, t, t1,
       RunKeeps, Emit, runVars, queueVars, loopVars, textVars
  <2> QED  BY <1>7, <2>1
<1>39. CASE AfterResultEnd
  <2>1. s1 = s /\ f1 = f /\ p1 = p /\ w1 = w /\ t1 = t /\ UNCHANGED fresh
    BY <1>39 DEF IInv, Frame, AfterResultEnd, MoreResults, s, s1, f, f1, p, p1, w, w1, t, t1,
       RunKeeps, Emit, runVars, queueVars, loopVars, textVars
  <2> QED  BY <1>7, <2>1
<1>40. CASE AfterTurnEnd
  <2>1. p1 = p /\ t1 = t /\ UNCHANGED fresh /\ pc' # "InjectEnd" /\ pending = None
    BY <1>40 DEF IInv, Frame, Injecting, AfterTurnEnd, Finish, Emit, RunKeeps, p, p1, t, t1
  <2>2. w = 0
    BY <1>4, <2>1 DEF w
  <2>3. \/ UNCHANGED <<steering, followUp, pending>>
        \/ /\ steering # <<>> /\ UNCHANGED followUp
           /\ pending' = Head(steering) /\ steering' = Tail(steering)
        \/ /\ followUp # <<>> /\ UNCHANGED steering
           /\ pending' = Head(followUp) /\ followUp' = Tail(followUp)
    BY <1>40 DEF AfterTurnEnd, Poll
  <2>4. CASE UNCHANGED <<steering, followUp, pending>>
    <3>1. s1 = s /\ f1 = f /\ w1 = 0
      BY <1>4, <2>1, <2>4 DEF s, s1, f, f1, w1
    <3> QED  BY <1>7, <2>1, <2>2, <3>1
  <2>5. CASE /\ steering # <<>> /\ UNCHANGED followUp
             /\ pending' = Head(steering) /\ steering' = Tail(steering)
    <3>1. s = s1 + w1 /\ f1 = f
      BY <1>3, <2>1, <2>5 DEF s, s1, f, f1, w1
    <3> QED  BY <1>1, <1>7, <2>1, <2>2, <3>1
  <2>6. CASE /\ followUp # <<>> /\ UNCHANGED steering
             /\ pending' = Head(followUp) /\ followUp' = Tail(followUp)
    <3>1. f = f1 + w1 /\ s1 = s
      BY <1>3, <2>1, <2>6 DEF s, s1, f, f1, w1
    <3> QED  BY <1>1, <1>7, <2>1, <2>2, <3>1
  <2> QED  BY <2>3, <2>4, <2>5, <2>6
<1>41. CASE AfterTailStart
  <2>1. s1 = s /\ f1 = f /\ p1 = p /\ w1 = w /\ t1 = t /\ UNCHANGED fresh
    BY <1>41, <1>2 DEF IInv, Frame, AfterTailStart, TypeOK, LoopTypeOK, Stops, s, s1, f, f1,
       p, p1, w, w1, t, t1,
       RunKeeps, Emit, runVars, queueVars, loopVars, textVars
  <2> QED  BY <1>7, <2>1
<1>42. CASE AfterTailEnd
  <2>1. s1 = s /\ f1 = f /\ p1 = p /\ w1 = w /\ t1 = t /\ UNCHANGED fresh
    BY <1>42 DEF IInv, Frame, AfterTailEnd, Finish, s, s1, f, f1, p, p1, w, w1, t, t1,
       RunKeeps, Emit, runVars, queueVars, loopVars, textVars
  <2> QED  BY <1>7, <2>1
<1>43. CASE AfterAgentEnd
  <2>1. prompts = <<>> /\ pending = None
    BY <1>43 DEF IInv, Frame, Prompting, Injecting, AfterAgentEnd
  <2>2. s1 = s /\ f1 = f /\ p1 = p /\ w1 = w /\ t1 = t /\ UNCHANGED fresh
    BY <1>43, <1>4, <2>1 DEF AfterAgentEnd, EndTask, queueVars,
       s, s1, f, f1, p, p1, w, w1, t, t1
  <2> QED  BY <1>7, <2>2
<1>44. CASE ListenerFails
  <2>1. UNCHANGED fresh /\ outcome' \notin {"none", "returned"}
    BY <1>44 DEF ListenerFails, EndTask, queueVars
  <2>2. s1 = s /\ f1 = f /\ p1 = 0 /\ w1 = 0 /\ t1 = t
    BY <1>44, <1>4, CountEmpty DEF ListenerFails, EndTask, queueVars, s, s1, f, f1, p, p1,
       w, w1, t, t1
  <2> QED  BY <1>10, <2>1, <2>2
<1>45. CASE CleanupFails
  <2>1. UNCHANGED fresh /\ outcome' \notin {"none", "returned"}
    BY <1>45 DEF CleanupFails, EndTask, queueVars
  <2>2. s1 = s /\ f1 = f /\ p1 = 0 /\ w1 = 0 /\ t1 = t
    BY <1>45, <1>4, CountEmpty DEF CleanupFails, EndTask, queueVars, s, s1, f, f1, p, p1, w,
       w1, t, t1
  <2> QED  BY <1>10, <2>1, <2>2
<1>46. CASE StreamBroken
  <2>1. UNCHANGED fresh /\ outcome' \notin {"none", "returned"}
    BY <1>46 DEF StreamBroken, EndTask, queueVars
  <2>2. s1 = s /\ f1 = f /\ p1 = 0 /\ w1 = 0 /\ t1 = t
    BY <1>46, <1>4, CountEmpty DEF StreamBroken, EndTask, queueVars, s, s1, f, f1, p, p1, w,
       w1, t, t1
  <2> QED  BY <1>10, <2>1, <2>2
<1>47. CASE ToolsCancelled
  <2>1. UNCHANGED fresh /\ outcome' \notin {"none", "returned"}
    BY <1>47 DEF ToolsCancelled, EndTask, queueVars
  <2>2. s1 = s /\ f1 = f /\ p1 = 0 /\ w1 = 0 /\ t1 = t
    BY <1>47, <1>4, CountEmpty DEF ToolsCancelled, EndTask, queueVars, s, s1, f, f1, p, p1,
       w, w1, t, t1
  <2> QED  BY <1>10, <2>1, <2>2
<1> QED  BY Steps, <1>11, <1>12, <1>13, <1>14, <1>15, <1>16, <1>17, <1>18, <1>19, <1>20,
            <1>21, <1>22, <1>23, <1>24, <1>25, <1>26, <1>27, <1>28, <1>29, <1>30, <1>31,
            <1>32, <1>33, <1>34, <1>35, <1>36, <1>37, <1>38, <1>39, <1>40, <1>41, <1>42,
            <1>43, <1>44, <1>45, <1>46, <1>47

-----------------------------------------------------------------------------
(* The theorems.                                                            *)

(* The invariant holds of a new Agent.                                      *)
LEMMA InitIInv == Init => IInv
<1> SUFFICES ASSUME Init PROVE IInv
  OBVIOUS
<1>1. PICK i \in Instances : faults = i.faults /\ messages = i.messages
  BY DEF Init
<1>2. /\ i.faults \subseteq FaultKinds /\ i.messages \in Seq(Said(i.messages))
      /\ \A m \in UserMessages : User(m) \notin Said(i.messages)
      /\ i.faults = {} => Answered(i.messages)
  BY AgentRunAssumption
<1>3. TypeOK
  <2>1. messages \in Seq(Sayings)
    BY <1>1, Sayable
  <2>2. <<>> \in Seq(Sayings) /\ <<>> \in Seq(UserMessages) /\ 0 \in 0..CallCount
    BY AgentRunAssumption
  <2> QED  BY <1>1, <1>2, <2>1, <2>2 DEF Init, TypeOK, RunTypeOK, QueueTypeOK, LoopTypeOK,
              TextTypeOK, Places, Outcomes, Stops
<1>4. Frame /\ Raised /\ WorkingAgrees /\ ProducedAgrees
  BY DEF Init, Frame, Raised, WorkingAgrees, ProducedAgrees, Prompting
<1>5. CallsAnswered
  BY <1>1, <1>2 DEF Init, CallsAnswered
<1>6. ASSUME NEW m \in UserMessages
      PROVE  Held(m) = 0
  <2>1. \A k \in DOMAIN messages : messages[k] # User(m)
    BY <1>1, <1>2 DEF Said
  <2>2. Count(messages, User(m)) = 0
    BY <1>3, <2>1, CountNone DEF TypeOK, TextTypeOK
  <2>3. Count(steering, m) = 0 /\ Count(followUp, m) = 0 /\ Count(prompts, m) = 0
    BY CountEmpty DEF Init
  <2>4. pending # m
    BY AgentRunAssumption DEF Init
  <2> QED  BY <2>2, <2>3, <2>4 DEF Held, InFlight
<1> QED  BY <1>3, <1>4, <1>5, <1>6 DEF IInv, InOnePlace

(* Every step preserves the invariant.                                      *)
LEMMA NextIInv == IInv /\ [Next]_vars => IInv'
<1> SUFFICES ASSUME IInv, [Next]_vars PROVE IInv'
  OBVIOUS
<1>1. CASE Next
  <2>1. InOnePlace'
    BY <1>1, EachKept DEF InOnePlace, Kept
  <2> QED  BY <1>1, <2>1, TypesKept, FrameKept, RaisedKept, WorkingKept, ProducedKept,
              AnswersKept
              DEF IInv
<1>2. CASE UNCHANGED vars
  <2>1. UNCHANGED vars /\ UNCHANGED <<runVars, queueVars, loopVars, textVars, faults>>
    BY <1>2 DEF vars
  <2>2. TypeOK'
    BY <2>1 DEF IInv, TypeOK, RunTypeOK, QueueTypeOK, LoopTypeOK, TextTypeOK,
       runVars, queueVars, loopVars, textVars
  <2>3. Frame' /\ Raised' /\ ProducedAgrees' /\ CallsAnswered'
    BY <2>1 DEF IInv, Frame, Raised, ProducedAgrees, CallsAnswered,
       runVars, queueVars, loopVars, textVars
  <2>4. WorkingAgrees'
    BY <2>1 DEF IInv, WorkingAgrees, Reduced, Done, runVars, loopVars, textVars
  <2>5. ASSUME NEW m \in UserMessages
        PROVE  Held(m)' = Held(m)
    BY <2>1 DEF Held, InFlight, runVars, queueVars, loopVars, textVars
  <2>6. InOnePlace'
    BY <2>1, <2>5 DEF IInv, InOnePlace, queueVars
  <2> QED  BY <2>2, <2>3, <2>4, <2>6 DEF IInv
<1> QED  BY <1>1, <1>2

(* The invariant of AgentRun: it holds in every reachable state.            *)
THEOREM Invariance == Spec => []IInv
  BY InitIInv, NextIInv, PTL DEF Spec

(* The types of the Agent and its loop.                                     *)
THEOREM TypeCorrect == Spec => []TypeOK
<1>1. IInv => TypeOK
  BY DEF IInv
<1> QED  BY <1>1, Invariance, PTL

(* What the model is asked about is the transcript, and what AgentEnd       *)
(* reports is what the run has added to it.                                 *)
THEOREM Transcripts == Spec => []TranscriptsAgree
<1>1. IInv => TranscriptsAgree
  <2> SUFFICES ASSUME IInv PROVE TranscriptsAgree
    OBVIOUS
  <2>1. pc = "Stream" => working = messages
    BY DEF IInv, WorkingAgrees
  <2>2. ASSUME pc = "AgentEnd"
        PROVE  /\ Len(produced) <= Len(messages)
               /\ produced = SubSeq(messages, Len(messages) - Len(produced) + 1, Len(messages))
    <3> DEFINE d == Len(messages) - Len(produced)
               n == Len(messages)
               u == SubSeq(messages, d + 1, n)
    <3>1. /\ Ends(messages, produced) /\ messages \in Seq(Sayings) /\ produced \in Seq(Sayings)
          /\ Len(messages) \in Nat /\ Len(produced) \in Nat
      BY <2>2 DEF IInv, TypeOK, TextTypeOK, ProducedAgrees
    <3>2. /\ Len(produced) <= n /\ d \in Nat /\ n = d + Len(produced) /\ n \in Int
          /\ \A i \in 1..Len(produced) : produced[i] = messages[d + i]
      BY <3>1 DEF Ends
    <3>3. \A i \in d + 1..n : messages[i] \in Sayings
      BY <3>1, <3>2
    <3> HIDE DEF d, n
    <3>4. /\ u \in Seq(Sayings) /\ Len(u) = IF d + 1 <= n THEN n - (d + 1) + 1 ELSE 0
          /\ \A i \in 1..n - (d + 1) + 1 : u[i] = messages[d + 1 + i - 1]
      BY <3>2, <3>3, SubSeqProperties
    <3>5. Len(u) = Len(produced) /\ n - (d + 1) + 1 = Len(produced)
      BY <3>1, <3>2, <3>4
    <3> HIDE DEF u
    <3>6. \A i \in 1..Len(produced) : d + 1 + i - 1 = d + i
      BY <3>1, <3>2
    <3>7. produced = u
      BY <3>1, <3>2, <3>4, <3>5, <3>6, SeqEqual
    <3> QED  BY <3>2, <3>7 DEF u, d, n
  <2> QED  BY <2>1, <2>2 DEF TranscriptsAgree
<1> QED  BY <1>1, Invariance, PTL

(* Every tool call that the model is shown has its results.                 *)
THEOREM Answers == Spec => []ToolCallsAnswered
<1>1. IInv => ToolCallsAnswered
  BY DEF IInv, WorkingAgrees, CallsAnswered, ToolCallsAnswered
<1> QED  BY <1>1, Invariance, PTL

(* A message is kept, once, until it is discarded or lost with a failed run.*)
THEOREM Keeping == Spec => KeptOnce
<1>1. ASSUME IInv, [Next]_vars
      PROVE  [\A m \in UserMessages :
                \/ Held(m)' = IF m \in fresh' THEN 0 ELSE 1
                \/ Held(m)' = 0
                     /\ \/ Held(m) = 0 \/ Discard
                        \/ InFlight(m) = 1 /\ outcome' \notin {"none", "returned"}]_vars
  BY <1>1, EachKept DEF Kept
<1> QED  BY <1>1, Invariance, PTL DEF Spec, KeptOnce

(* A run that commits its end unaborted and without an error has left no    *)
(* message in a queue.                                                      *)
THEOREM Draining == Spec => QueuesDrained
<1>1. ASSUME IInv, [Next]_vars
      PROVE  [committed' /\ ~committed /\ ~aborted /\ response # "error" =>
                steering = <<>> /\ followUp = <<>>]_vars
  <2> SUFFICES ASSUME Next, committed', ~committed, ~aborted, response # "error"
               PROVE  steering = <<>> /\ followUp = <<>>
    BY <1>1
  <2>1. AfterTurnEnd \/ AfterTailEnd
    <3>1. CASE Launches
      BY <3>1 DEF Launches, Prompt, ContinueSteering, ContinueFollowUp, ContinueTranscript,
         Launch
    <3>2. CASE CallerStep /\ ~Launches
      BY <3>2 DEF CallerStep, Launches, Discard, Steer, FollowUp, ClearSteeringQueue,
         ClearFollowUpQueue, ClearAllQueues, Reset, SetMessages, Abort, AbortInListener,
         CancelCaller, runVars
    <3>3. CASE RunStep
      BY <3>3 DEF RunStep, Fallible, StartTask, CancelledBeforeStart, AfterAgentStart,
         AfterTurnStart,
         AfterPromptStart, AfterPromptEnd, AfterInjectStart, AfterInjectEnd, StreamEvent,
         AfterStreamEmit, StreamDone, StreamErrorFirst, StreamAborted, AfterResponseStart,
         AfterResponseEnd, ToolsSettle, AfterResultStart, AfterResultEnd, AfterTailStart,
         AfterAgentEnd, ListenerFails, CleanupFails, StreamBroken, ToolsCancelled, EndTask
    <3> QED  BY <3>1, <3>2, <3>3 DEF Next
  <2>2. CASE AfterTailEnd
    BY <1>1, <2>2 DEF IInv, Raised, AfterTailEnd
  <2>3. CASE AfterTurnEnd
    <3>1. response # "aborted" /\ pending = None
      BY <1>1, <2>3 DEF IInv, Raised, Frame, Injecting, AfterTurnEnd
    <3>2. Stopping /\ Poll(TRUE) /\ pending' = None
      BY <2>3, <3>1 DEF AfterTurnEnd, NeedsTail, Stopping
    <3>3. /\ steering # <<>> => Head(steering) # None
          /\ followUp # <<>> => Head(followUp) # None
      BY <1>1, Taken DEF IInv, TypeOK, QueueTypeOK
    <3> QED  BY <3>2, <3>3 DEF Poll
  <2> QED  BY <2>1, <2>2, <2>3
<1> QED  BY <1>1, Invariance, PTL DEF Spec, QueuesDrained

=============================================================================
