--------------------------- MODULE ModelStreamProofs ---------------------------
(***************************************************************************)
(* Theorems of ModelStream, for every set of clients, any number of calls   *)
(* and cancels, and any payloads and responses: what the consumer is given  *)
(* is what the provider emitted, and nothing of a request outlives it.      *)
(*                                                                         *)
(* As long as no events are discarded, those consumed and those queued are  *)
(* together those sent, with _END behind them once the producer has ended.  *)
(*                                                                         *)
(* A message that is done is complete: DeepSeek's frame is sound as long as *)
(* its response runs, that is, its blocks hold the fragments that were sent *)
(* of them and its calls are its tool call blocks.                          *)
(***************************************************************************)
EXTENDS ModelStream, WellFoundedInduction, TLAPS

(* A sequence, and one of events: _END is none.                             *)
Listed(s) == s \in Seq(ToSet(s))
Proper(s) == Listed(s) /\ End \notin ToSet(s)

(* A sequence that goes on where another ends.                              *)
Extends(s, t) == Len(s) \in Nat /\ Len(s) <= Len(t) /\ \A i \in 1..Len(s) : t[i] = s[i]

(* What the provider has in its frame are blocks and events; it is the      *)
(* frame of one operation, that `base' was before.                          *)
FrameFields ==
    {"provider", "phase", "fed", "content", "latest", "textAt", "tools", "finish", "usage",
     "broken", "refused", "v", "out"}
Frame(base, o) ==
    /\ FrameFields \subseteq DOMAIN o
    /\ Listed(o.content) /\ Proper(o.out)
    /\ o.provider = base.provider /\ o.phase \in {base.phase, "streaming"}
    /\ Extends(base.out, o.out)

FlagTypeOK ==
    /\ closed \in BOOLEAN /\ discard \in BOOLEAN /\ signalled \in BOOLEAN
    /\ prodHit \in BOOLEAN /\ woken \in BOOLEAN /\ exhausted \in BOOLEAN
TaskTypeOK ==
    /\ consumer \in Clients \cup {Nobody}
    /\ producer \in {"absent", "created", "working", "ended"}
    /\ result \in {"none", "pending", "value", "error"}
CallTypeOK ==
    /\ pc \in [Clients -> {"idle", "waiting", "resulting", "settling"}]
    /\ why \in [Clients -> {"next", "result", "close"}]
    /\ hit \in [Clients -> BOOLEAN]
    /\ calls \in [Clients -> Nat] /\ hits \in Nat
EventTypeOK ==
    /\ Proper(sent)
    /\ got \in Seq(ToSet(sent)) /\ queue \in Seq(ToSet(sent) \cup {End})

TypeOK == FlagTypeOK /\ TaskTypeOK /\ CallTypeOK /\ EventTypeOK /\ Frame(op, op)

(* Nobody waits for a stream that was never activated, and one that is      *)
(* closed before that stays so.                                             *)
Absent ==
    producer = "absent" => /\ \A c \in Clients : pc[c] = "idle"
                           /\ discard => closed

(* What was consumed and what is queued, beside what was sent.              *)
Delivery ==
    /\ Len(got) <= Len(sent) /\ \A i \in 1..Len(got) : got[i] = sent[i]
    /\ exhausted => Len(got) = Len(sent)
    /\ discard => queue = <<>>
    /\ ~discard =>
         /\ \/ Len(got) + Len(queue) = Len(sent)
            \/ Len(got) + Len(queue) = Len(sent) + 1 /\ producer = "ended"
         /\ \A i \in 1..Len(queue) :
              queue[i] = IF Len(got) + i <= Len(sent) THEN sent[Len(got) + i] ELSE End
    /\ exhausted => producer = "ended"

IInv == TypeOK /\ Absent /\ NothingOutlives /\ Delivery

-----------------------------------------------------------------------------
(* Lemmas about sequences of events.                                        *)

LEMMA EmptyProper == Proper(<<>>)
  BY DEF Proper, Listed, ToSet

LEMMA NoEvent ==
  ASSUME NEW type, NEW at, NEW delta, NEW content
  PROVE  Event(type, at, delta, content) # End
<1>1. DOMAIN Event(type, at, delta, content) = {"type", "at", "delta", "content"}
  BY DEF Event
<1>2. DOMAIN End = {"end"}
  BY DEF End
<1> QED  BY <1>1, <1>2

(* One more block, or event.                                                *)
LEMMA AppendListed ==
  ASSUME NEW s, Listed(s), NEW e
  PROVE  Listed(Append(s, e)) /\ ToSet(Append(s, e)) \subseteq ToSet(s) \cup {e}
<1> DEFINE U == ToSet(s) \cup {e}
           t == Append(s, e)
<1>1. s \in Seq(U)
  BY DEF Proper, Listed
<1>2. Len(t) = Len(s) + 1 /\ DOMAIN t = 1..Len(s) + 1 /\ Len(s) \in Nat
  BY <1>1
<1>3. \A i \in 1..Len(s) + 1 : t[i] = IF i = Len(s) + 1 THEN e ELSE s[i]
  BY <1>1
<1>4. \A i \in 1..Len(s) : s[i] \in ToSet(s)
  BY <1>1 DEF ToSet
<1>5. ToSet(t) \subseteq U
  BY <1>2, <1>3, <1>4 DEF ToSet
<1>6. t \in Seq(U)
  BY <1>1
<1> HIDE DEF t
<1>7. t \in Seq(ToSet(t))
  <2>1. \A i \in 1..Len(t) : t[i] \in ToSet(t)
    BY <1>6 DEF ToSet
  <2> QED  BY <1>6, <2>1
<1> QED  BY <1>5, <1>7 DEF Listed, t

LEMMA AppendProper ==
  ASSUME NEW s, Proper(s), NEW e, e # End
  PROVE  Proper(Append(s, e))
  BY AppendListed DEF Proper

LEMMA AppendExtends ==
  ASSUME NEW s, NEW t, Proper(t), Extends(s, t), NEW e
  PROVE  Extends(s, Append(t, e))
<1> DEFINE u == Append(t, e)
<1>1. /\ Len(t) \in Nat /\ Len(u) = Len(t) + 1 /\ \A i \in 1..Len(t) : u[i] = t[i]
  BY DEF Proper, Listed
<1> HIDE DEF u
<1>2. Extends(s, u)
  BY <1>1 DEF Extends
<1> QED  BY <1>2 DEF u

LEMMA SameExtends ==
  ASSUME NEW s, Listed(s)
  PROVE  Extends(s, s)
  BY DEF Extends, Listed

(* Other blocks in the same places.                                         *)
LEMMA ChangedListed ==
  ASSUME NEW s, Listed(s), NEW t, t = [i \in DOMAIN s |-> t[i]]
  PROVE  Listed(t)
<1>1. DOMAIN s = 1..Len(s) /\ Len(s) \in Nat
  BY DEF Listed
<1>2. \A i \in 1..Len(s) : t[i] \in ToSet(t)
  BY <1>1 DEF ToSet
<1> QED  BY <1>1, <1>2 DEF Listed

(* The events of one sequence after those of another.                       *)
LEMMA ConcatProper ==
  ASSUME NEW s, Proper(s), NEW t, Proper(t)
  PROVE  Proper(s \o t) /\ ToSet(s) \subseteq ToSet(s \o t) /\ ToSet(t) \subseteq ToSet(s \o t)
<1> DEFINE U == ToSet(s) \cup ToSet(t)
           u == s \o t
<1>1. s \in Seq(U) /\ t \in Seq(U)
  BY DEF Proper, Listed
<1>2. /\ u \in Seq(U) /\ Len(u) = Len(s) + Len(t) /\ Len(s) \in Nat /\ Len(t) \in Nat
      /\ \A i \in 1..Len(s) : u[i] = s[i]
      /\ \A i \in 1..Len(t) : u[Len(s) + i] = t[i]
  BY <1>1
<1>3. End \notin U
  BY DEF Proper, Listed
<1>4. DOMAIN s = 1..Len(s) /\ DOMAIN t = 1..Len(t) /\ DOMAIN u = 1..Len(u)
  BY <1>1, <1>2
<1> HIDE DEF u
<1>5. ToSet(u) \subseteq U
  BY <1>2, <1>4 DEF ToSet
<1>6. ToSet(s) \subseteq ToSet(u)
  BY <1>2, <1>4 DEF ToSet
<1>7. ToSet(t) \subseteq ToSet(u)
  <2>1. \A i \in 1..Len(t) : Len(s) + i \in DOMAIN u
    BY <1>2, <1>4
  <2> QED  BY <1>2, <1>4, <2>1 DEF ToSet
<1>8. u \in Seq(ToSet(u))
  <2>1. \A i \in 1..Len(u) : u[i] \in ToSet(u)
    BY <1>4 DEF ToSet
  <2> QED  BY <1>2, <2>1
<1> QED  BY <1>3, <1>5, <1>6, <1>7, <1>8 DEF Proper, Listed, u

(* The last events of a sequence.                                           *)
LEMMA RestProper ==
  ASSUME NEW s, Proper(s), NEW n \in Nat
  PROVE  Proper(SubSeq(s, n + 1, Len(s)))
<1> DEFINE t == SubSeq(s, n + 1, Len(s))
<1>1. s \in Seq(ToSet(s)) /\ Len(s) \in Nat
  BY DEF Proper, Listed
<1>2. t \in Seq(ToSet(s)) /\ DOMAIN t = 1..Len(t)
  BY <1>1
<1> HIDE DEF t
<1>3. ToSet(t) \subseteq ToSet(s)
  BY <1>2 DEF ToSet
<1>4. \A i \in 1..Len(t) : t[i] \in ToSet(t)
  BY <1>2 DEF ToSet
<1>5. t \in Seq(ToSet(t))
  BY <1>2, <1>4
<1> QED  BY <1>3, <1>5 DEF Proper, Listed, t

-----------------------------------------------------------------------------
(* What the provider does to its frame.                                     *)

LEMMA YieldFrame ==
  ASSUME NEW base, NEW o, Frame(base, o), NEW e, e # End
  PROVE  Frame(base, Yield(o, e))
<1>1. Frame(base, [o EXCEPT !.refused = TRUE])
  BY DEF Frame
<1> DEFINE p == [o EXCEPT !.v = Accept(@, e), !.latest = e.content, !.out = Append(@, e)]
<1>2. /\ p.out = Append(o.out, e) /\ p.content = o.content /\ DOMAIN p = DOMAIN o
      /\ p.provider = o.provider /\ p.phase = o.phase
  BY DEF Frame, FrameFields
<1>3. Proper(Append(o.out, e)) /\ Extends(base.out, Append(o.out, e))
  BY AppendProper, AppendExtends DEF Frame
<1> HIDE DEF p
<1>4. Frame(base, p)
  BY <1>2, <1>3 DEF Frame
<1> QED  BY <1>1, <1>4 DEF Yield, p

LEMMA SetContentFrame ==
  ASSUME NEW base, NEW o, Frame(base, o), NEW content, Listed(content)
  PROVE  Frame(base, SetContent(o, content))
  BY DEF Frame, SetContent

LEMMA TextPartFrame ==
  ASSUME NEW base, NEW o, Frame(base, o), NEW p
  PROVE  Frame(base, TextPart(o, p))
<1> DEFINE at == IF o.textAt = 0 THEN Len(o.content) + 1 ELSE o.textAt
           c == Append(o.content, TextBlock(<<>>))
           start == Yield(o, Event("text_start", at, <<>>, c))
           opened == IF o.textAt # 0 THEN o
                     ELSE [start EXCEPT !.textAt = at, !.content = c, !.latest = c]
           grown == [opened.content EXCEPT ![at].text = @ \o p.text]
<1>1. Frame(base, start) /\ Listed(c)
  BY NoEvent, YieldFrame, AppendListed DEF Frame
<1> HIDE DEF start, at, c
<1>2. Frame(base, opened)
  BY <1>1 DEF Frame
<1> HIDE DEF opened
<1>3. Listed(grown)
  BY <1>2, ChangedListed DEF Frame
<1> HIDE DEF grown
<1>4. Frame(base, [opened EXCEPT !.broken = TRUE])
  BY <1>2 DEF Frame
<1>5. Frame(base, Yield(SetContent(opened, grown), Event("text_delta", at, p.text, grown)))
  BY <1>2, <1>3, NoEvent, SetContentFrame, YieldFrame
<1>6. TextPart(o, p) = IF p.text = <<>> THEN o
                       ELSE IF Garbled(p.text) THEN [opened EXCEPT !.broken = TRUE]
                       ELSE Yield(SetContent(opened, grown), Event("text_delta", at, p.text, grown))
  BY DEF TextPart, grown, opened, start, at, c
<1> QED  BY <1>4, <1>5, <1>6

LEMMA ToolPartFrame ==
  ASSUME NEW base, NEW o, Frame(base, o), NEW p
  PROVE  Frame(base, ToolPart(o, p))
<1> DEFINE new == p.tool \notin DOMAIN o.tools
           tools == Tools(o, p)
           at == tools[p.tool].at
           c == Append(o.content, ToolBlock(p.names, <<>>))
           start == Yield(SetContent(o, c), Event("toolcall_start", at, <<>>, c))
           named == [o EXCEPT !.content[at].names = @ + p.names]
           opened == IF new THEN start ELSE named
           grown == [opened.content EXCEPT ![at].args = ArgumentsAfter(tools[p.tool].frags, @)]
           told == [opened EXCEPT !.tools = tools]
           ready == SetContent(told, grown)
<1>1. Frame(base, start)
  <2>1. Listed(c)
    BY AppendListed DEF Frame
  <2> HIDE DEF c
  <2> QED  BY <2>1, NoEvent, SetContentFrame, YieldFrame
<1> HIDE DEF tools, at, c, start
<1>2. Frame(base, named)
  <2>1. named.content = [i \in DOMAIN o.content |-> named.content[i]]
    BY DEF Frame
  <2>2. Listed(named.content)
    BY <2>1, ChangedListed DEF Frame
  <2>3. DOMAIN named = DOMAIN o /\ named.out = o.out
    BY DEF Frame
  <2> QED  BY <2>2, <2>3 DEF Frame
<1> HIDE DEF named
<1>3. Frame(base, opened)
  BY <1>1, <1>2
<1> HIDE DEF opened
<1>4. Listed(grown)
  BY <1>3, ChangedListed DEF Frame
<1> HIDE DEF grown
<1>5. Frame(base, told)
  BY <1>3 DEF Frame
<1> HIDE DEF told
<1>6. Frame(base, ready)
  BY <1>5, <1>4, SetContentFrame
<1> HIDE DEF ready
<1>7. Frame(base, [ready EXCEPT !.broken = TRUE])
  BY <1>6 DEF Frame
<1>8. Frame(base, Yield(ready, Event("toolcall_delta", at, p.frag, grown)))
  BY <1>6, NoEvent, YieldFrame
<1>9. ToolPart(o, p) = IF p.tool = 0 \/ o.broken THEN o
                       ELSE IF Garbled(p.frag) THEN [ready EXCEPT !.broken = TRUE]
                       ELSE Yield(ready, Event("toolcall_delta", at, p.frag, grown))
  BY DEF ToolPart, ready, told, grown, opened, named, start, c, at, tools
<1> QED  BY <1>7, <1>8, <1>9

LEMMA AfterPayloadFrame ==
  ASSUME NEW base, NEW o, Frame(base, o), NEW p
  PROVE  Frame(base, AfterPayload(o, p))
<1> DEFINE seen == [o EXCEPT !.fed = @ + 1, !.usage = @ \/ p.usage]
           tooled == ToolPart(TextPart(seen, p), p)
           done == FinishPart(tooled, p)
<1>1. Frame(base, seen)
  BY DEF Frame
<1> HIDE DEF seen
<1>2. Frame(base, tooled)
  BY <1>1, TextPartFrame, ToolPartFrame
<1> HIDE DEF tooled
<1>3. Frame(base, done)
  BY <1>2 DEF FinishPart, Frame
<1> HIDE DEF done
<1>4. Frame(base, [seen EXCEPT !.broken = TRUE]) /\ Frame(base, [done EXCEPT !.broken = TRUE])
  BY <1>1, <1>3 DEF Frame
<1>5. AfterPayload(o, p) \in {[seen EXCEPT !.broken = TRUE], [done EXCEPT !.broken = TRUE], done}
  BY DEF AfterPayload, done, tooled, seen
<1> QED  BY <1>3, <1>4, <1>5

LEMMA EndBlockFrame ==
  ASSUME NEW base, NEW o, Frame(base, o), NEW i
  PROVE  Frame(base, EndBlock(o, i))
<1> DEFINE t == CHOOSE t \in ToSet(o.tools) : t.at = i
           c == [o.content EXCEPT ![i].args = t.frags]
<1> HIDE DEF t
<1>1. Listed(c)
  BY ChangedListed DEF Frame
<1> HIDE DEF c
<1>2. Frame(base, [o EXCEPT !.broken = TRUE])
  BY DEF Frame
<1>3. Frame(base, Yield(SetContent(o, c), Event("toolcall_end", i, <<>>, c)))
  BY <1>1, NoEvent, SetContentFrame, YieldFrame
<1>4. Frame(base, Yield(o, Event("text_end", i, o.content[i].text, o.content)))
  BY NoEvent, YieldFrame
<1>5. EndBlock(o, i) = IF o.content[i].kind = "text"
                       THEN Yield(o, Event("text_end", i, o.content[i].text, o.content))
                       ELSE IF IsObject(t.frags)
                       THEN Yield(SetContent(o, c), Event("toolcall_end", i, <<>>, c))
                       ELSE [o EXCEPT !.broken = TRUE]
  BY DEF EndBlock, t, c
<1> QED  BY <1>2, <1>3, <1>4, <1>5

LEMMA FauxBlockFrame ==
  ASSUME NEW base, NEW o, Frame(base, o), NEW i, NEW block
  PROVE  Frame(base, FauxBlock(o, i, block))
<1> DEFINE empty == Append(o.content, TextBlock(<<>>))
           full == Append(o.content, block)
           text == Yield(Yield(Yield(o, Event("text_start", i, <<>>, empty)),
                               Event("text_delta", i, block.text, full)),
                         Event("text_end", i, block.text, full))
           tool == Yield(Yield(o, Event("toolcall_start", i, <<>>, full)),
                         Event("toolcall_end", i, <<>>, full))
<1> HIDE DEF empty
<1>1. Listed(full)
  BY AppendListed DEF Frame
<1> HIDE DEF full
<1>2. Frame(base, text)
  BY NoEvent, YieldFrame
<1>3. Frame(base, tool)
  BY NoEvent, YieldFrame
<1> HIDE DEF text, tool
<1>4. Frame(base, [text EXCEPT !.content = full]) /\ Frame(base, [tool EXCEPT !.content = full])
  BY <1>2, <1>3, <1>1 DEF Frame
<1>5. FauxBlock(o, i, block) \in {[text EXCEPT !.content = full], [tool EXCEPT !.content = full]}
  BY DEF FauxBlock, text, tool, full, empty
<1> QED  BY <1>4, <1>5

LEMMA FailedFrame ==
  ASSUME NEW base, NEW o, Frame(base, o), NEW reason
  PROVE  Frame(base, Failed(o, reason))
<1> DEFINE clear == [o EXCEPT !.broken = FALSE, !.refused = FALSE]
           f == Yield(clear, Event(reason, 0, <<>>, o.latest))
<1>1. Frame(base, clear)
  BY DEF Frame
<1> HIDE DEF clear
<1>2. Frame(base, f)
  BY <1>1, NoEvent, YieldFrame
<1> HIDE DEF f
<1>3. Failed(o, reason) = [f EXCEPT !.refused = @ \/ o.refused]
  BY DEF Failed, f, clear
<1> QED  BY <1>2, <1>3 DEF Frame

-----------------------------------------------------------------------------
(* The two loops over the blocks of a message, which the model folds.       *)

LEMMA LeastNumber ==
  ASSUME NEW S \in SUBSET Nat, S # {}
  PROVE  \E m \in S : \A n \in S : m <= n
<1> DEFINE R == OpToRel(<, Nat)
<1>1. IsWellFoundedOn(R, Nat)
  BY NatLessThanWellFounded
<1>2. \A x, y \in Nat : <<x, y>> \in R <=> x < y
  BY DEF OpToRel
<1> HIDE DEF R
<1>3. PICK m \in S : \A y \in S : ~(<<y, m>> \in R)
  BY <1>1, WFMin
<1>4. ASSUME NEW n \in S
      PROVE  m <= n
  <2>1. n \in Nat /\ m \in Nat /\ ~(n < m)
    BY <1>2, <1>3
  <2> QED  BY <2>1
<1> QED  BY <1>4

(* A pass of the loop of a faux response, or of the one that ends blocks.   *)
Pass(w, a, i) ==
    IF w.faux THEN FauxBlock(a, i, w.content[i])
    ELSE IF a.broken THEN a ELSE EndBlock(a, i)

(* The passes over each set of blocks among the first n, the last one last. *)
Passes(f, n, w, o, q) ==
    f = [s \in SUBSET (1..n) |->
           IF s = {} THEN o ELSE Pass(w, f[s \ {Max(s)}], q[Max(s)])]

LEMMA PassFrame ==
  ASSUME NEW base, NEW w, NEW a, Frame(base, a), NEW i
  PROVE  Frame(base, Pass(w, a, i))
  BY EndBlockFrame, FauxBlockFrame DEF Pass

LEMMA LastOf ==
  ASSUME NEW n \in Nat, NEW s \in SUBSET (1..n), n \in s
  PROVE  Max(s) = n
<1>1. \A x \in s : x \in Nat /\ x <= n
  OBVIOUS
<1>2. Max(s) \in s /\ \A y \in s : Max(s) >= y
  BY <1>1 DEF Max
<1>3. Max(s) \in Nat /\ Max(s) <= n /\ Max(s) >= n
  BY <1>1, <1>2
<1> QED  BY <1>3

(* There are such passes, block by block.                                   *)
LEMMA PassesExist ==
  ASSUME NEW w, NEW o, NEW q, NEW n \in Nat
  PROVE  \E f : Passes(f, n, w, o, q)
<1> DEFINE T == {k \in Nat : ~ \E f : Passes(f, k, w, o, q)}
<1> SUFFICES ASSUME T # {} PROVE FALSE
  OBVIOUS
<1>1. PICK m \in T : \A k \in T : m <= k
  BY LeastNumber
<1>2. m # 0
  <2>1. CASE m = 0
    <3> DEFINE f == [s \in SUBSET (1..0) |-> o]
    <3>1. \A s \in SUBSET (1..0) : s = {}
      OBVIOUS
    <3>2. f = [s \in SUBSET (1..0) |->
                 IF s = {} THEN o ELSE Pass(w, f[s \ {Max(s)}], q[Max(s)])]
      BY <3>1
    <3>3. Passes(f, 0, w, o, q)
      BY <3>2 DEF Passes
    <3> QED  BY <1>1, <2>1, <3>3
  <2> QED  BY <2>1
<1>3. m - 1 \in Nat /\ m - 1 \notin T
  BY <1>1, <1>2
<1>4. PICK f : Passes(f, m - 1, w, o, q)
  BY <1>3
<1> DEFINE g == [s \in SUBSET (1..m) |-> IF m \in s THEN Pass(w, f[s \ {m}], q[m]) ELSE f[s]]
<1>5. ASSUME NEW s \in SUBSET (1..m)
      PROVE  g[s] = IF s = {} THEN o ELSE Pass(w, g[s \ {Max(s)}], q[Max(s)])
  <2>1. CASE m \in s
    <3>1. Max(s) = m
      BY <1>1, <2>1, LastOf
    <3>2. g[s \ {m}] = f[s \ {m}]
      OBVIOUS
    <3>3. g[s] = Pass(w, f[s \ {m}], q[m])
      BY <2>1
    <3> QED  BY <2>1, <3>1, <3>2, <3>3
  <2>2. CASE m \notin s
    <3>1. s \in SUBSET (1..(m - 1))
      BY <1>1, <2>2
    <3>2. f[s] = IF s = {} THEN o ELSE Pass(w, f[s \ {Max(s)}], q[Max(s)])
      BY <1>4, <3>1 DEF Passes
    <3>3. g[s \ {Max(s)}] = f[s \ {Max(s)}] /\ g[s] = f[s]
      BY <2>2
    <3> QED  BY <3>2, <3>3
  <2> QED  BY <2>1, <2>2
<1>6. g = [s \in SUBSET (1..m) |-> g[s]]
  OBVIOUS
<1> HIDE DEF g
<1>7. Passes(g, m, w, o, q)
  BY <1>5, <1>6 DEF Passes
<1> QED  BY <1>1, <1>7

LEMMA PassesGoOn ==
  ASSUME NEW w, NEW o, NEW q, NEW n \in Nat, NEW f, Passes(f, n, w, o, q)
  PROVE  /\ f[1..0] = o
         /\ \A m \in 1..n : f[1..m] = Pass(w, f[1..(m - 1)], q[m])
<1>1. f[1..0] = o
  <2>1. 1..0 = {} /\ {} \in SUBSET (1..n)
    OBVIOUS
  <2> QED  BY <2>1 DEF Passes
<1>2. ASSUME NEW m \in 1..n
      PROVE  f[1..m] = Pass(w, f[1..(m - 1)], q[m])
  <2>1. m \in Nat /\ m >= 1 /\ m \in 1..m /\ 1..m \in SUBSET (1..n) /\ 1..m # {}
    OBVIOUS
  <2>2. \A i \in Int : i \in (1..m) \ {m} <=> i \in 1..(m - 1)
    BY <2>1
  <2>3. (1..m) \ {m} = 1..(m - 1)
    BY <2>1, <2>2
  <2>4. Max(1..m) = m
    BY <2>1, LastOf
  <2> QED  BY <2>1, <2>3, <2>4 DEF Passes
<1> QED  BY <1>1, <1>2

(* Whatever they begin with, the passes keep it a frame.                    *)
LEMMA PassesFrame ==
  ASSUME NEW base, NEW w, NEW o, Frame(base, o), NEW q, NEW n \in Nat, NEW f, Passes(f, n, w, o, q)
  PROVE  Frame(base, f[1..n])
<1> DEFINE T == {k \in 0..n : ~Frame(base, f[1..k])}
<1> SUFFICES ASSUME T # {} PROVE FALSE
  OBVIOUS
<1>1. T \in SUBSET Nat
  OBVIOUS
<1>2. PICK m \in T : \A k \in T : m <= k
  BY <1>1, LeastNumber
<1>3. m # 0
  <2>1. f[1..0] = o
    <3>1. f[{}] = o
      BY DEF Passes
    <3> QED  BY <3>1
  <2> QED  BY <1>2, <2>1
<1>4. m \in 1..n /\ m - 1 \in 0..n /\ m - 1 \notin T
  BY <1>2, <1>3
<1>5. Frame(base, f[1..(m - 1)])
  BY <1>4
<1>6. f[1..m] = Pass(w, f[1..(m - 1)], q[m])
  BY <1>4, PassesGoOn
<1> QED  BY <1>2, <1>5, <1>6, PassFrame

(* The end of a response, and a faux response.                              *)
Numbers(n) == [i \in 1..n |-> i]

LEMMA ConcludedPasses ==
  ASSUME NEW o, Listed(o.content)
  PROVE  \E f : /\ Passes(f, Len(o.content), [faux |-> FALSE], o, Numbers(Len(o.content)))
                /\ Concluded(o) = LET ended == f[1..Len(o.content)]
                                  IN  IF ended.broken \/ ended.finish = "none" \/ ~ended.usage
                                      THEN [ended EXCEPT !.broken = TRUE]
                                      ELSE Yield(ended, Event("done", 0, <<>>, ended.content))
<1> DEFINE q == [i \in DOMAIN o.content |-> i]
           n == Len(o.content)
           w == [faux |-> FALSE]
           ended == FoldLeft(LAMBDA a, i : IF a.broken THEN a ELSE EndBlock(a, i), o, q)
           f == CHOOSE f : f = [s \in SUBSET DOMAIN q |->
                  IF s = {} THEN o
                  ELSE IF f[s \ {Max(s)}].broken THEN f[s \ {Max(s)}]
                  ELSE EndBlock(f[s \ {Max(s)}], q[Max(s)])]
<1>1. ended = f[DOMAIN q]
  BY DEF FoldLeft, MapThenFoldSet
<1>2. n \in Nat /\ DOMAIN q = 1..n
  BY DEF Listed
<1>3. q = Numbers(n)
  BY DEF Listed, Numbers
<1>4. \A a, i : Pass(w, a, i) = IF a.broken THEN a ELSE EndBlock(a, i)
  BY DEF Pass
<1>5. Concluded(o) = IF ended.broken \/ ended.finish = "none" \/ ~ended.usage
                     THEN [ended EXCEPT !.broken = TRUE]
                     ELSE Yield(ended, Event("done", 0, <<>>, ended.content))
  BY DEF Concluded, q
<1> HIDE DEF w, q, n
<1>6. PICK g : Passes(g, n, w, o, q)
  BY <1>2, PassesExist
<1>7. g = [s \in SUBSET DOMAIN q |->
             IF s = {} THEN o
             ELSE IF g[s \ {Max(s)}].broken THEN g[s \ {Max(s)}]
             ELSE EndBlock(g[s \ {Max(s)}], q[Max(s)])]
  BY <1>2, <1>4, <1>6 DEF Passes
<1>8. f = [s \in SUBSET DOMAIN q |->
             IF s = {} THEN o
             ELSE IF f[s \ {Max(s)}].broken THEN f[s \ {Max(s)}]
             ELSE EndBlock(f[s \ {Max(s)}], q[Max(s)])]
  BY <1>7
<1> HIDE DEF f
<1>9. Passes(f, n, w, o, q)
  BY <1>2, <1>4, <1>8 DEF Passes
<1> HIDE DEF ended
<1>10. Passes(f, n, w, o, Numbers(n)) /\ ended = f[1..n]
  BY <1>1, <1>2, <1>9, <1>3
<1>11. Concluded(o) = LET last == f[1..n]
                      IN  IF last.broken \/ last.finish = "none" \/ ~last.usage
                          THEN [last EXCEPT !.broken = TRUE]
                          ELSE Yield(last, Event("done", 0, <<>>, last.content))
  BY <1>5, <1>10
<1> QED  BY <1>10, <1>11 DEF n, w

LEMMA ConcludedFrame ==
  ASSUME NEW base, NEW o, Frame(base, o)
  PROVE  Frame(base, Concluded(o))
<1> DEFINE n == Len(o.content)
           w == [faux |-> FALSE]
<1>1. Listed(o.content) /\ n \in Nat
  BY DEF Frame, Listed
<1>2. PICK f : /\ Passes(f, n, w, o, Numbers(n))
               /\ Concluded(o) = LET ended == f[1..n]
                                 IN  IF ended.broken \/ ended.finish = "none" \/ ~ended.usage
                                     THEN [ended EXCEPT !.broken = TRUE]
                                     ELSE Yield(ended, Event("done", 0, <<>>, ended.content))
  BY <1>1, ConcludedPasses
<1> DEFINE ended == f[1..n]
<1> HIDE DEF w, n
<1>3. Frame(base, ended)
  BY <1>1, <1>2, PassesFrame
<1>4. Concluded(o) \in {[ended EXCEPT !.broken = TRUE],
                        Yield(ended, Event("done", 0, <<>>, ended.content))}
  BY <1>2
<1> HIDE DEF ended
<1>5. Frame(base, [ended EXCEPT !.broken = TRUE])
  BY <1>3 DEF Frame
<1>6. Frame(base, Yield(ended, Event("done", 0, <<>>, ended.content)))
  BY <1>3, NoEvent, YieldFrame
<1> QED  BY <1>4, <1>5, <1>6

LEMMA FauxResponseFrame ==
  ASSUME NEW base, NEW o, Frame(base, o), NEW content, Listed(content), NEW reason
  PROVE  Frame(base, FauxResponse(o, content, reason))
<1> DEFINE q == [i \in DOMAIN content |-> i]
           n == Len(content)
           w == [faux |-> TRUE, content |-> content]
           started == Yield(o, Event("start", 0, <<>>, <<>>))
           blocks == FoldLeft(LAMBDA a, i : FauxBlock(a, i, content[i]), started, q)
           f == CHOOSE f : f = [s \in SUBSET DOMAIN q |->
                  IF s = {} THEN started
                  ELSE FauxBlock(f[s \ {Max(s)}], q[Max(s)], content[q[Max(s)]])]
<1>1. blocks = f[DOMAIN q]
  BY DEF FoldLeft, MapThenFoldSet
<1>2. n \in Nat /\ DOMAIN q = 1..n
  BY DEF Listed
<1>3. \A a, i : Pass(w, a, i) = FauxBlock(a, i, content[i])
  BY DEF Pass
<1>4. Frame(base, started)
  BY NoEvent, YieldFrame
<1>5. FauxResponse(o, content, reason) = Yield(blocks, Event(reason, 0, <<>>, content))
  BY DEF FauxResponse
<1> HIDE DEF w, q, n, started
<1>6. PICK g : Passes(g, n, w, started, q)
  BY <1>2, PassesExist
<1>7. g = [s \in SUBSET DOMAIN q |->
             IF s = {} THEN started
             ELSE FauxBlock(g[s \ {Max(s)}], q[Max(s)], content[q[Max(s)]])]
  <2>1. ASSUME NEW s \in SUBSET (1..n)
        PROVE  Pass(w, g[s \ {Max(s)}], q[Max(s)])
                 = FauxBlock(g[s \ {Max(s)}], q[Max(s)], content[q[Max(s)]])
    BY <1>3
  <2> QED  BY Zenon, <1>2, <1>6, <2>1 DEF Passes
<1>8. f = [s \in SUBSET DOMAIN q |->
             IF s = {} THEN started
             ELSE FauxBlock(f[s \ {Max(s)}], q[Max(s)], content[q[Max(s)]])]
  BY <1>7
<1> HIDE DEF f
<1>9. Passes(f, n, w, started, q)
  <2>1. ASSUME NEW s \in SUBSET (1..n)
        PROVE  Pass(w, f[s \ {Max(s)}], q[Max(s)])
                 = FauxBlock(f[s \ {Max(s)}], q[Max(s)], content[q[Max(s)]])
    BY <1>3
  <2> QED  BY Zenon, <1>2, <1>8, <2>1 DEF Passes
<1>10. Frame(base, blocks)
  BY <1>1, <1>2, <1>4, <1>9, PassesFrame
<1> HIDE DEF blocks
<1> QED  BY <1>5, <1>10, NoEvent, YieldFrame

(* A step of the provider delivers a frame, with some outcome.              *)
Outcomes == {"none", "value", "error"}

LEMMA Provided ==
  ASSUME Frame(op, op), Provide
  PROVE  \E o, outcome : Frame(op, o) /\ outcome \in Outcomes /\ Deliver(o, outcome)
<1>1. ASSUME NEW o, Frame(op, o), NEW reason, DeliverFailure(o, reason)
      PROVE  \E p, outcome : Frame(op, p) /\ outcome \in Outcomes /\ Deliver(p, outcome)
  BY <1>1, FailedFrame DEF DeliverFailure, Outcomes
<1>2. ASSUME NEW o, Frame(op, o), DeliverOrFail(o)
      PROVE  \E p, outcome : Frame(op, p) /\ outcome \in Outcomes /\ Deliver(p, outcome)
  BY <1>1, <1>2 DEF DeliverOrFail, Outcomes
<1>3. CASE RequestInvalid \/ CleanupFails
  <2>1. Deliver(op, "error") /\ "error" \in Outcomes
    BY <1>3 DEF RequestInvalid, CleanupFails, Outcomes
  <2> QED  BY <2>1
<1>4. CASE RequestFails \/ ResponseBreaks
  BY <1>1, <1>4 DEF RequestFails, ResponseBreaks
<1>5. CASE ResponseStarts
  <2> DEFINE o == Yield(op, Event("start", 0, <<>>, <<>>))
             p == [o EXCEPT !.phase = "streaming"]
  <2>1. Frame(op, o)
    BY NoEvent, YieldFrame
  <2>2. Deliver(p, "none")
    BY <1>5 DEF ResponseStarts
  <2> HIDE DEF o
  <2>3. Frame(op, p)
    BY <2>1 DEF Frame
  <2>4. "none" \in Outcomes
    BY DEF Outcomes
  <2> HIDE DEF p
  <2> QED  BY <2>2, <2>3, <2>4
<1>6. CASE FauxResponds
  BY <1>2, <1>6, FauxResponseFrame, ModelStreamAssumption DEF FauxResponds, Listed
<1>7. CASE Payload
  BY <1>2, <1>7, AfterPayloadFrame DEF Payload
<1>8. CASE ResponseEnds
  BY <1>2, <1>8, ConcludedFrame DEF ResponseEnds
<1>9. CASE ProviderCancelled
  BY <1>1, <1>9 DEF ProviderCancelled, Outcomes
<1> QED  BY <1>3, <1>4, <1>5, <1>6, <1>7, <1>8, <1>9 DEF Provide

-----------------------------------------------------------------------------
(* What becomes of the events.                                              *)

EventsOK == EventTypeOK /\ Delivery

(* They stay, or are dropped for good.                                      *)
LEMMA EventsStay ==
  ASSUME EventsOK, UNCHANGED <<sent, got, queue, discard, exhausted>>,
         producer = "ended" => producer' = "ended"
  PROVE  EventsOK'
  BY DEF EventsOK, EventTypeOK, Delivery

LEMMA EventsDropped ==
  ASSUME EventsOK, UNCHANGED <<sent, got, exhausted>>, queue' = <<>>, discard' = TRUE,
         producer = "ended" => producer' = "ended"
  PROVE  EventsOK'
  BY DEF EventsOK, EventTypeOK, Delivery

(* The consumer takes the next one: behind the last that was sent is _END.  *)
LEMMA EventTaken ==
  ASSUME EventsOK, NEW c, TakeItem(c), queue # <<>>, UNCHANGED sent,
         producer = "ended" => producer' = "ended"
  PROVE  EventsOK' /\ (producer = "ended" \/ UNCHANGED <<closed, discard, exhausted>>)
<1> DEFINE S == ToSet(sent)
<1>1. /\ sent \in Seq(S) /\ got \in Seq(S) /\ queue \in Seq(S \cup {End})
      /\ DOMAIN sent = 1..Len(sent) /\ Proper(sent)
      /\ \A i \in 1..Len(sent) : sent[i] \in S
  BY DEF EventsOK, EventTypeOK, Proper, Listed, ToSet
<1>2. End \notin S
  BY DEF EventsOK, EventTypeOK, Proper
<1> HIDE DEF S
<1>3. /\ Len(queue) \in Nat \ {0} /\ Len(got) \in Nat /\ Len(sent) \in Nat
      /\ Head(queue) = queue[1]
      /\ Tail(queue) \in Seq(S \cup {End}) /\ Len(Tail(queue)) = Len(queue) - 1
      /\ \A i \in 1..Len(queue) - 1 : Tail(queue)[i] = queue[i + 1]
  BY <1>1
<1>4. /\ Len(got) <= Len(sent) /\ \A i \in 1..Len(got) : got[i] = sent[i]
      /\ ~discard
      /\ \/ Len(got) + Len(queue) = Len(sent)
         \/ Len(got) + Len(queue) = Len(sent) + 1 /\ producer = "ended"
      /\ \A i \in 1..Len(queue) :
           queue[i] = IF Len(got) + i <= Len(sent) THEN sent[Len(got) + i] ELSE End
  BY DEF EventsOK, Delivery
<1>5. queue[1] = IF Len(got) + 1 <= Len(sent) THEN sent[Len(got) + 1] ELSE End
  BY <1>3, <1>4
<1>6. CASE Head(queue) = End
  <2>1. ~(Len(got) + 1 <= Len(sent))
    <3>1. ASSUME Len(got) + 1 <= Len(sent)
          PROVE  FALSE
      <4>1. Len(got) + 1 \in 1..Len(sent)
        BY <1>3, <3>1
      <4> QED  BY <1>1, <1>2, <1>3, <1>5, <1>6, <3>1, <4>1
    <3> QED  BY <3>1
  <2>2. Len(got) = Len(sent) /\ producer = "ended"
    BY <1>3, <1>4, <2>1
  <2>3. UNCHANGED <<sent, got>> /\ queue' = <<>> /\ discard' = TRUE /\ exhausted' = TRUE
    BY <1>6 DEF TakeItem
  <2>4. Delivery'
    BY <1>4, <2>2, <2>3 DEF Delivery
  <2>5. EventTypeOK'
    BY <2>3 DEF EventsOK, EventTypeOK
  <2> QED  BY <2>2, <2>4, <2>5 DEF EventsOK
<1>7. CASE Head(queue) # End
  <2>1. /\ got' = Append(got, Head(queue)) /\ queue' = Tail(queue)
        /\ UNCHANGED <<discard, closed, exhausted>>
    BY <1>7 DEF TakeItem
  <2>2. Len(got) + 1 <= Len(sent) /\ Head(queue) = sent[Len(got) + 1]
    BY <1>3, <1>5, <1>7
  <2>3. Head(queue) \in S
    BY <1>1, <1>3, <2>2
  <2>4. /\ got' \in Seq(S) /\ Len(got') = Len(got) + 1
        /\ got'[Len(got) + 1] = Head(queue) /\ \A i \in 1..Len(got) : got'[i] = got[i]
    BY <1>1, <2>1, <2>3
  <2>5. EventTypeOK'
    BY <1>1, <1>3, <2>1, <2>4 DEF EventTypeOK, S
  <2>6. \A i \in 1..Len(got') : got'[i] = sent[i]
    BY <1>3, <1>4, <2>2, <2>4
  <2>7. ASSUME NEW i \in 1..Len(queue')
        PROVE  queue'[i] = IF Len(got') + i <= Len(sent) THEN sent[Len(got') + i] ELSE End
    <3>1. i \in 1..Len(queue) - 1 /\ i + 1 \in 1..Len(queue) /\ i \in Nat
      BY <1>3, <2>1, <2>7
    <3>2. queue'[i] = queue[i + 1]
      BY <1>3, <2>1, <3>1
    <3>3. Len(got) + (i + 1) = Len(got') + i
      BY <1>3, <2>4, <3>1
    <3> QED  BY <1>4, <3>1, <3>2, <3>3
  <2>8. exhausted => Len(got) = Len(sent)
    BY DEF EventsOK, Delivery
  <2>9. Len(got') + Len(queue') = Len(got) + Len(queue)
    BY <1>3, <2>1, <2>4
  <2>10. ~exhausted
    BY <1>3, <2>2, <2>8
  <2>11. Len(got') <= Len(sent)
    BY <1>3, <2>2, <2>4
  <2>12. Delivery'
    BY <1>4, <2>1, <2>6, <2>7, <2>9, <2>10, <2>11 DEF Delivery
  <2> QED  BY <2>1, <2>5, <2>12 DEF EventsOK
<1> QED  BY <1>6, <1>7

(* Where a place in the queue is among the events sent.                     *)
LEMMA Places ==
  ASSUME NEW a \in Nat, NEW b \in Nat, NEW n \in Nat, NEW m \in Nat, NEW j \in Nat,
         a + b = n, NEW i \in 1..b + j
  PROVE  /\ i <= b => i \in 1..b /\ a + i \in 1..n /\ a + i <= n + m
         /\ i > b => /\ i - b \in 1..j /\ i - b \in Nat /\ i = b + (i - b)
                     /\ a + i = n + (i - b) /\ (a + i <= n + m <=> i - b <= m)
  OBVIOUS

(* The producer sends some, and perhaps _END behind them.                   *)
LEMMA EventsProduced ==
  ASSUME EventsOK, NEW events, Proper(events), NEW outcome \in Outcomes, Produce(events, outcome)
  PROVE  EventsOK'
<1> DEFINE S == ToSet(sent')
           items == IF outcome = "none" THEN events ELSE Append(events, End)
<1>1. Proper(sent') /\ ToSet(sent) \subseteq S /\ ToSet(events) \subseteq S
  BY ConcatProper DEF EventsOK, EventTypeOK, Produce
<1>2. /\ sent \in Seq(S) /\ got \in Seq(S) /\ queue \in Seq(S \cup {End})
      /\ events \in Seq(S) /\ End \notin S
  BY <1>1 DEF EventsOK, EventTypeOK, Proper, Listed
<1> HIDE DEF S
<1>3. /\ producer = "working" /\ sent' = sent \o events /\ got' = got
      /\ queue' = IF discard THEN queue ELSE queue \o items
      /\ discard' = discard /\ exhausted' = exhausted
      /\ producer' = IF outcome = "none" THEN "working" ELSE "ended"
  BY DEF Produce, ProducerUnchanged
<1>4. /\ Len(sent) \in Nat /\ Len(got) \in Nat /\ Len(queue) \in Nat /\ Len(events) \in Nat
      /\ Len(sent') = Len(sent) + Len(events)
      /\ \A i \in 1..Len(sent) : sent'[i] = sent[i]
      /\ \A i \in 1..Len(events) : sent'[Len(sent) + i] = events[i]
  BY <1>2, <1>3
<1>5. /\ items \in Seq(S \cup {End})
      /\ Len(items) = IF outcome = "none" THEN Len(events) ELSE Len(events) + 1
      /\ \A i \in 1..Len(items) : items[i] = IF i <= Len(events) THEN events[i] ELSE End
  <2>1. events \in Seq(S \cup {End})
    BY <1>2
  <2>2. CASE outcome = "none"
    BY <1>4, <2>1, <2>2
  <2>3. CASE outcome # "none"
    <3> DEFINE more == Append(events, End)
    <3>1. /\ more \in Seq(S \cup {End}) /\ Len(more) = Len(events) + 1
          /\ \A i \in 1..Len(events) : more[i] = events[i]
          /\ more[Len(events) + 1] = End
      BY <2>1
    <3>2. items = more
      BY <2>3
    <3> HIDE DEF more, items
    <3>3. \A i \in 1..Len(more) : more[i] = IF i <= Len(events) THEN events[i] ELSE End
      BY <1>4, <3>1
    <3> QED  BY <2>3, <3>1, <3>2, <3>3
  <2> QED  BY <2>2, <2>3
<1>6. EventTypeOK'
  <2>1. queue' \in Seq(S \cup {End})
    BY <1>2, <1>3, <1>5
  <2> QED  BY <1>1, <1>2, <1>3, <2>1 DEF EventTypeOK, S
<1> HIDE DEF items
<1>7. /\ Len(got) <= Len(sent) /\ \A i \in 1..Len(got) : got[i] = sent[i]
      /\ ~exhausted /\ (discard => queue = <<>>)
      /\ ~discard =>
           /\ Len(got) + Len(queue) = Len(sent)
           /\ \A i \in 1..Len(queue) :
                queue[i] = IF Len(got) + i <= Len(sent) THEN sent[Len(got) + i] ELSE End
  BY <1>3 DEF EventsOK, Delivery
<1>8. Len(got') <= Len(sent') /\ \A i \in 1..Len(got') : got'[i] = sent'[i]
  BY <1>3, <1>4, <1>7
<1>9. CASE discard
  BY <1>3, <1>6, <1>7, <1>8, <1>9 DEF EventsOK, Delivery
<1>10. CASE ~discard
  <2>1. queue' = queue \o items /\ queue \in Seq(S \cup {End}) /\ items \in Seq(S \cup {End})
    BY <1>2, <1>3, <1>5, <1>10
  <2>2. /\ Len(got) + Len(queue) = Len(sent)
        /\ \A i \in 1..Len(queue) : queue[i] = sent[Len(got) + i]
    <3>1. /\ Len(got) + Len(queue) = Len(sent)
          /\ \A i \in 1..Len(queue) :
               queue[i] = IF Len(got) + i <= Len(sent) THEN sent[Len(got) + i] ELSE End
      BY <1>7, <1>10
    <3> QED  BY <1>4, <3>1
  <2>3. Len(got') = Len(got)
    BY <1>3
  <2>4. /\ queue' = queue \o items /\ Len(queue') = Len(queue) + Len(items)
        /\ \A i \in 1..Len(queue) : queue'[i] = queue[i]
        /\ \A i \in 1..Len(items) : queue'[Len(queue) + i] = items[i]
    BY <2>1
  <2>5. Len(items) \in Nat
    BY <1>5
  <2>6. ASSUME NEW i \in 1..Len(queue')
        PROVE  queue'[i] = IF Len(got') + i <= Len(sent') THEN sent'[Len(got') + i] ELSE End
    <3> DEFINE k == i - Len(queue)
    <3>1. /\ i <= Len(queue) => /\ i \in 1..Len(queue) /\ Len(got) + i \in 1..Len(sent)
                                /\ Len(got) + i <= Len(sent) + Len(events)
          /\ i > Len(queue) =>
               /\ k \in 1..Len(items) /\ k \in Nat /\ i = Len(queue) + k
               /\ Len(got) + i = Len(sent) + k
               /\ Len(got) + i <= Len(sent) + Len(events) <=> k <= Len(events)
      <4>1. Len(queue') = Len(queue) + Len(items)
        BY <2>4
      <4>2. i \in 1..Len(queue) + Len(items)
        BY <2>6, <4>1
      <4>3. Len(got) + Len(queue) = Len(sent)
        BY <2>2
      <4>4. /\ Len(sent) \in Nat /\ Len(got) \in Nat /\ Len(queue) \in Nat
            /\ Len(events) \in Nat
        BY <1>4
      <4> QED  BY <2>5, <4>2, <4>3, <4>4, Places
    <3>2. Len(got') = Len(got) /\ Len(sent') = Len(sent) + Len(events)
      BY <1>4, <2>3
    <3>3. CASE i <= Len(queue)
      <4>1. queue'[i] = sent'[Len(got) + i]
        BY <1>4, <2>4, <2>2, <3>1, <3>3
      <4> QED  BY <3>1, <3>2, <3>3, <4>1
    <3>4. CASE i > Len(queue)
      <4> HIDE DEF k
      <4>1. queue'[i] = IF k <= Len(events) THEN events[k] ELSE End
        BY <1>5, <2>4, <3>1, <3>4
      <4>2. CASE k <= Len(events)
        <5>1. k \in 1..Len(events)
          BY <1>4, <3>1, <3>4, <4>2
        <5>2. sent'[Len(got) + i] = events[k]
          BY <1>4, <3>1, <3>4, <5>1
        <5> QED  BY <3>1, <3>2, <3>4, <4>1, <4>2, <5>2
      <4>3. CASE ~(k <= Len(events))
        BY <3>1, <3>2, <3>4, <4>1, <4>3
      <4> QED  BY <4>2, <4>3
    <3>5. i <= Len(queue) \/ i > Len(queue)
      <4>1. Len(queue) \in Nat /\ i \in Nat
        BY <1>4, <2>6
      <4> QED  BY <4>1
    <3> QED  BY <3>3, <3>4, <3>5
  <2>7. \/ Len(got') + Len(queue') = Len(sent')
        \/ Len(got') + Len(queue') = Len(sent') + 1 /\ producer' = "ended"
    <3>1. /\ Len(queue') = Len(queue) + Len(items) /\ Len(got') = Len(got)
          /\ Len(sent') = Len(sent) + Len(events) /\ Len(got) + Len(queue) = Len(sent)
          /\ Len(got) \in Nat /\ Len(queue) \in Nat /\ Len(events) \in Nat
      BY <1>4, <2>4, <2>2, <2>3
    <3>2. CASE outcome = "none"
      <4>1. Len(items) = Len(events)
        BY <1>5, <3>2
      <4> QED  BY <3>1, <4>1
    <3>3. CASE outcome # "none"
      <4>1. Len(items) = Len(events) + 1 /\ producer' = "ended"
        BY <1>3, <1>5, <3>3
      <4> QED  BY <3>1, <4>1
    <3> QED  BY <3>2, <3>3
  <2>8. Delivery'
    BY <1>3, <1>7, <1>8, <1>10, <2>6, <2>7 DEF Delivery
  <2> QED  BY <1>6, <2>8 DEF EventsOK
<1> QED  BY <1>9, <1>10

-----------------------------------------------------------------------------
(* The steps of the clients, and of the stream's task.                      *)

CoreOK == FlagTypeOK /\ TaskTypeOK /\ CallTypeOK

(* An activation leaves behind a task, and an ended one as it was.          *)
LEMMA Activation ==
  ASSUME TaskTypeOK, Activate
  PROVE  /\ producer' \in {"created", "working", "ended"}
         /\ result' \in {"none", "pending", "value", "error"}
         /\ producer = "absent" \/ producer' = producer
  BY DEF TaskTypeOK, Activate, Activated

(* A client waits for a task that runs, and for no other.                   *)
LEMMA Settling ==
  ASSUME FlagTypeOK, TaskTypeOK, CallTypeOK, NEW c \in Clients,
         NEW call \in {"next", "result", "close"}, SettleFor(c, call)
  PROVE  /\ signalled' \in BOOLEAN /\ prodHit' \in BOOLEAN
         /\ pc' \in [Clients -> {"idle", "waiting", "resulting", "settling"}]
         /\ why' \in [Clients -> {"next", "result", "close"}]
         /\ producer \in {"absent", "ended"} \/ pc'[c] = "settling"
<1>1. CASE producer \in {"created", "working"}
  BY <1>1 DEF SettleFor, FlagTypeOK, CallTypeOK
<1>2. CASE producer \notin {"created", "working"}
  BY <1>2 DEF SettleFor, FlagTypeOK, TaskTypeOK, CallTypeOK
<1> QED  BY <1>1, <1>2

LEMMA CallNextKeeps ==
  ASSUME IInv, NEW c \in Clients, CallNext(c)
  PROVE  CoreOK' /\ EventsOK' /\ Absent' /\ NothingOutlives'
<1>1. FlagTypeOK /\ TaskTypeOK /\ CallTypeOK /\ EventsOK
  BY DEF IInv, TypeOK, EventsOK
<1>2. /\ pc[c] = "idle" /\ consumer' = c /\ calls' \in [Clients -> Nat]
      /\ UNCHANGED <<signalled, prodHit, why, hit, hits, sent>>
  BY <1>1 DEF CallNext, Called, CallTypeOK
<1>3. CASE closed
  <2>1. UNCHANGED <<closed, discard, queue, got, exhausted, producer, result, pc, woken>>
    BY <1>3 DEF CallNext
  <2>2. CoreOK'
    BY <1>1, <1>2, <2>1 DEF CoreOK, FlagTypeOK, TaskTypeOK, CallTypeOK
  <2>3. EventsOK'
    BY <1>1, <1>2, <2>1, EventsStay
  <2>4. Absent' /\ NothingOutlives'
    BY <2>1 DEF IInv, Absent, NothingOutlives
  <2> QED  BY <2>2, <2>3, <2>4
<1>4. CASE ~closed
  <2>1. /\ producer' \in {"created", "working", "ended"}
        /\ result' \in {"none", "pending", "value", "error"}
        /\ producer = "absent" \/ producer' = producer
    BY <1>1, <1>4, Activation DEF CallNext
  <2>2. TaskTypeOK' /\ Absent'
    BY <1>2, <2>1 DEF TaskTypeOK, Absent
  <2>3. discard => producer # "absent"
    BY <1>4 DEF IInv, Absent
  <2>4. CASE queue # <<>>
    <3>1. TakeItem(c) /\ UNCHANGED <<pc, woken>>
      BY <1>4, <2>4 DEF CallNext
    <3>2. EventsOK' /\ (producer = "ended" \/ UNCHANGED <<closed, discard, exhausted>>)
      BY <1>1, <1>2, <2>1, <2>4, <3>1, EventTaken
    <3>3. closed' \in BOOLEAN /\ discard' \in BOOLEAN /\ exhausted' \in BOOLEAN
      BY <1>1, <3>1 DEF TakeItem, FlagTypeOK
    <3>4. CoreOK'
      BY <1>1, <1>2, <2>2, <3>1, <3>3 DEF CoreOK, FlagTypeOK, CallTypeOK
    <3>5. NothingOutlives'
      BY <1>4, <2>1, <2>3, <3>1, <3>2 DEF IInv, NothingOutlives
    <3> QED  BY <2>2, <3>2, <3>4, <3>5
  <2>5. CASE queue = <<>>
    <3>1. /\ pc' = [pc EXCEPT ![c] = "waiting"] /\ woken' = FALSE
          /\ UNCHANGED <<closed, discard, queue, got, exhausted>>
      BY <1>4, <2>5 DEF CallNext
    <3>2. EventsOK'
      BY <1>1, <1>2, <2>1, <3>1, EventsStay
    <3>3. CoreOK'
      BY <1>1, <1>2, <2>2, <3>1 DEF CoreOK, FlagTypeOK, CallTypeOK
    <3>4. \A d \in Clients : pc'[d] = "settling" <=> pc[d] = "settling"
      BY <1>1, <1>2, <3>1 DEF CallTypeOK
    <3>5. NothingOutlives'
      BY <1>4, <2>1, <2>3, <3>1, <3>4 DEF IInv, NothingOutlives
    <3> QED  BY <2>2, <3>2, <3>3, <3>5
  <2> QED  BY <2>4, <2>5
<1> QED  BY <1>3, <1>4

LEMMA CallResultKeeps ==
  ASSUME IInv, NEW c \in Clients, CallResult(c)
  PROVE  CoreOK' /\ EventsOK' /\ Absent' /\ NothingOutlives'
<1>1. FlagTypeOK /\ TaskTypeOK /\ CallTypeOK /\ EventsOK
  BY DEF IInv, TypeOK, EventsOK
<1>2. /\ pc[c] = "idle" /\ calls' \in [Clients -> Nat]
      /\ UNCHANGED <<closed, discard, consumer, queue, signalled, prodHit, why, woken,
                     hit, hits, sent, got, exhausted>>
  BY <1>1 DEF CallResult, Called, CallTypeOK
<1>3. /\ producer' \in {"created", "working", "ended"}
      /\ result' \in {"none", "pending", "value", "error"}
      /\ producer = "absent" \/ producer' = producer
  BY <1>1, Activation DEF CallResult
<1>4. /\ pc' \in [Clients -> {"idle", "waiting", "resulting", "settling"}]
      /\ \A d \in Clients : pc'[d] = "settling" <=> pc[d] = "settling"
  BY <1>1, <1>2 DEF CallResult, CallTypeOK
<1>5. CoreOK'
  BY <1>1, <1>2, <1>3, <1>4 DEF CoreOK, FlagTypeOK, TaskTypeOK, CallTypeOK
<1>6. EventsOK'
  BY <1>1, <1>2, <1>3, EventsStay
<1>7. closed \/ discard => producer # "absent"
  BY DEF CallResult, Activated, IInv, Absent
<1>8. Absent' /\ NothingOutlives'
  BY <1>2, <1>3, <1>4, <1>7 DEF IInv, Absent, NothingOutlives
<1> QED  BY <1>5, <1>6, <1>8

LEMMA CallCloseKeeps ==
  ASSUME IInv, NEW c \in Clients, CallClose(c)
  PROVE  CoreOK' /\ EventsOK' /\ Absent' /\ NothingOutlives'
<1>1. FlagTypeOK /\ TaskTypeOK /\ CallTypeOK /\ EventsOK
  BY DEF IInv, TypeOK, EventsOK
<1>2. /\ calls' \in [Clients -> Nat]
      /\ UNCHANGED <<consumer, producer, result, hit, hits, sent, got, exhausted>>
  BY <1>1 DEF CallClose, Called, CallTypeOK
<1>3. TaskTypeOK'
  BY <1>1, <1>2 DEF TaskTypeOK
<1>4. CASE closed
  <2>1. UNCHANGED <<closed, discard, queue, woken, signalled, prodHit, pc, why>>
    BY <1>4 DEF CallClose
  <2>2. CoreOK'
    BY <1>1, <1>2, <1>3, <2>1 DEF CoreOK, FlagTypeOK, CallTypeOK
  <2>3. EventsOK'
    BY <1>1, <1>2, <2>1, EventsStay
  <2>4. Absent' /\ NothingOutlives'
    BY <1>2, <2>1 DEF IInv, Absent, NothingOutlives
  <2> QED  BY <2>2, <2>3, <2>4
<1>5. CASE ~closed
  <2>1. discard' = TRUE /\ queue' = <<>> /\ woken' = TRUE
    BY <1>5 DEF CallClose
  <2>2. EventsOK'
    BY <1>1, <1>2, <2>1, EventsDropped
  <2>3. CASE producer = "absent"
    <3>1. closed' = TRUE /\ UNCHANGED <<signalled, prodHit, pc, why>>
      BY <1>5, <2>3 DEF CallClose, Activated
    <3>2. CoreOK'
      BY <1>1, <1>2, <1>3, <2>1, <3>1 DEF CoreOK, FlagTypeOK, CallTypeOK
    <3>3. Absent' /\ NothingOutlives'
      BY <1>2, <2>3, <3>1 DEF IInv, Absent, NothingOutlives
    <3> QED  BY <2>2, <3>2, <3>3
  <2>4. CASE producer # "absent"
    <3>1. SettleFor(c, "close") /\ closed' = (producer = "ended")
      BY <1>5, <2>4 DEF CallClose, Activated
    <3>2. /\ signalled' \in BOOLEAN /\ prodHit' \in BOOLEAN
          /\ pc' \in [Clients -> {"idle", "waiting", "resulting", "settling"}]
          /\ why' \in [Clients -> {"next", "result", "close"}]
          /\ producer \in {"absent", "ended"} \/ pc'[c] = "settling"
      BY <1>1, <3>1, Settling
    <3>3. CoreOK'
      BY <1>1, <1>2, <1>3, <2>1, <3>1, <3>2 DEF CoreOK, FlagTypeOK, CallTypeOK
    <3>4. Absent' /\ NothingOutlives'
      BY <1>2, <2>4, <3>1, <3>2 DEF Absent, NothingOutlives
    <3> QED  BY <2>2, <3>3, <3>4
  <2> QED  BY <2>3, <2>4
<1> QED  BY <1>4, <1>5

LEMMA NextResumesKeeps ==
  ASSUME IInv, NEW c \in Clients, NextResumes(c)
  PROVE  CoreOK' /\ EventsOK' /\ Absent' /\ NothingOutlives'
<1>1. FlagTypeOK /\ TaskTypeOK /\ CallTypeOK /\ EventsOK
  BY DEF IInv, TypeOK, EventsOK
<1>2. /\ pc[c] = "waiting" /\ woken' = FALSE
      /\ UNCHANGED <<consumer, signalled, producer, prodHit, result, why, hit, calls, hits, sent>>
  BY DEF NextResumes
<1>3. TaskTypeOK' /\ Absent'
  BY <1>1, <1>2 DEF IInv, TaskTypeOK, Absent
<1>4. CASE queue # <<>>
  <2>1. TakeItem(c) /\ pc' = [pc EXCEPT ![c] = "idle"]
    BY <1>4 DEF NextResumes
  <2>2. EventsOK' /\ (producer = "ended" \/ UNCHANGED <<closed, discard, exhausted>>)
    BY <1>1, <1>2, <1>4, <2>1, EventTaken
  <2>3. closed' \in BOOLEAN /\ discard' \in BOOLEAN /\ exhausted' \in BOOLEAN
    BY <1>1, <2>1 DEF TakeItem, FlagTypeOK
  <2>4. CoreOK'
    BY <1>1, <1>2, <1>3, <2>1, <2>3 DEF CoreOK, FlagTypeOK, CallTypeOK
  <2>5. \A d \in Clients : pc'[d] = "settling" <=> pc[d] = "settling"
    BY <1>1, <1>2, <2>1 DEF CallTypeOK
  <2>6. NothingOutlives'
    BY <1>2, <2>2, <2>5 DEF IInv, NothingOutlives
  <2> QED  BY <1>3, <2>2, <2>4, <2>6
<1>5. CASE queue = <<>>
  <2>1. UNCHANGED <<closed, discard, queue, got, exhausted, pc>>
    BY <1>5 DEF NextResumes
  <2>2. CoreOK'
    BY <1>1, <1>2, <1>3, <2>1 DEF CoreOK, FlagTypeOK, CallTypeOK
  <2>3. EventsOK'
    BY <1>1, <1>2, <2>1, EventsStay
  <2>4. NothingOutlives'
    BY <1>2, <2>1 DEF IInv, NothingOutlives
  <2> QED  BY <1>3, <2>2, <2>3, <2>4
<1> QED  BY <1>4, <1>5

LEMMA CancelledNextKeeps ==
  ASSUME IInv, NEW c \in Clients, NextCancelled(c)
  PROVE  CoreOK' /\ EventsOK' /\ Absent' /\ NothingOutlives'
<1>1. FlagTypeOK /\ TaskTypeOK /\ CallTypeOK /\ EventsOK
  BY DEF IInv, TypeOK, EventsOK
<1>2. /\ pc[c] = "waiting" /\ SettleFor(c, "next")
      /\ discard' = TRUE /\ queue' = <<>> /\ woken' = FALSE
      /\ hit' \in [Clients -> BOOLEAN]
      /\ UNCHANGED <<closed, consumer, producer, result, calls, hits, sent, got, exhausted>>
  BY <1>1 DEF NextCancelled, CallTypeOK
<1>3. /\ signalled' \in BOOLEAN /\ prodHit' \in BOOLEAN
      /\ pc' \in [Clients -> {"idle", "waiting", "resulting", "settling"}]
      /\ why' \in [Clients -> {"next", "result", "close"}]
      /\ producer \in {"absent", "ended"} \/ pc'[c] = "settling"
  BY <1>1, <1>2, Settling
<1>4. CoreOK'
  BY <1>1, <1>2, <1>3 DEF CoreOK, FlagTypeOK, TaskTypeOK, CallTypeOK
<1>5. EventsOK'
  BY <1>1, <1>2, EventsDropped
<1>6. Absent' /\ NothingOutlives'
  BY <1>2, <1>3 DEF IInv, Absent, NothingOutlives
<1> QED  BY <1>4, <1>5, <1>6

LEMMA ResultCancelledKeeps ==
  ASSUME IInv, NEW c \in Clients, ResultCancelled(c)
  PROVE  CoreOK' /\ EventsOK' /\ Absent' /\ NothingOutlives'
<1>1. FlagTypeOK /\ TaskTypeOK /\ CallTypeOK /\ EventsOK
  BY DEF IInv, TypeOK, EventsOK
<1>2. /\ pc[c] = "resulting" /\ SettleFor(c, "result")
      /\ hit' \in [Clients -> BOOLEAN]
      /\ UNCHANGED <<closed, discard, consumer, queue, producer, result, woken, calls, hits,
                     sent, got, exhausted>>
  BY <1>1 DEF ResultCancelled, CallTypeOK
<1>3. /\ signalled' \in BOOLEAN /\ prodHit' \in BOOLEAN
      /\ pc' \in [Clients -> {"idle", "waiting", "resulting", "settling"}]
      /\ why' \in [Clients -> {"next", "result", "close"}]
      /\ producer \in {"absent", "ended"} \/ pc'[c] = "settling"
  BY <1>1, <1>2, Settling
<1>4. CoreOK'
  BY <1>1, <1>2, <1>3 DEF CoreOK, FlagTypeOK, TaskTypeOK, CallTypeOK
<1>5. EventsOK'
  BY <1>1, <1>2, EventsStay
<1>6. Absent' /\ NothingOutlives'
  BY <1>2, <1>3 DEF IInv, Absent, NothingOutlives
<1> QED  BY <1>4, <1>5, <1>6

(* The steps that move neither events nor flags.                            *)
LEMMA ReturnKeeps ==
  ASSUME IInv, NEW c \in Clients,
         \/ ResultReturns(c)
         \/ Settled(c)
         \/ SettlingHit(c)
         \/ CancelClient(c)
  PROVE  CoreOK' /\ EventsOK' /\ Absent' /\ NothingOutlives'
<1>1. FlagTypeOK /\ TaskTypeOK /\ CallTypeOK /\ EventsOK
  BY DEF IInv, TypeOK, EventsOK
<1>2. /\ pc[c] # "idle"
      /\ UNCHANGED <<discard, consumer, queue, signalled, producer, prodHit, result, why,
                     woken, calls, sent, got, exhausted>>
  BY DEF ResultReturns, Settled, SettlingHit, CancelClient
<1>3. hit' \in [Clients -> BOOLEAN] /\ hits' \in Nat
  <2>1. CASE ResultReturns(c) \/ Settled(c) \/ SettlingHit(c)
    BY <1>1, <2>1 DEF ResultReturns, Settled, SettlingHit, CallTypeOK
  <2>2. CASE CancelClient(c)
    BY <1>1, <2>2 DEF CancelClient, CallTypeOK
  <2> QED  BY <2>1, <2>2
<1>4. pc' = pc \/ pc' = [pc EXCEPT ![c] = "idle"]
  BY DEF ResultReturns, Settled, SettlingHit, CancelClient
<1>5. closed' = closed \/ (producer = "ended" /\ closed' \in BOOLEAN)
  BY <1>1 DEF ResultReturns, Settled, SettlingHit, CancelClient, FlagTypeOK
<1>6. /\ closed' \in BOOLEAN
      /\ \/ producer = "ended"
         \/ closed' = closed /\ \A d \in Clients : pc'[d] = "settling" <=> pc[d] = "settling"
  <2>1. ASSUME producer # "ended"
        PROVE  \A d \in Clients : pc'[d] = "settling" <=> pc[d] = "settling"
    <3>1. pc[c] # "settling" \/ pc' = pc
      BY <2>1 DEF ResultReturns, Settled, SettlingHit, CancelClient
    <3> QED  BY <1>1, <1>4, <3>1 DEF CallTypeOK
  <2> QED  BY <1>1, <1>5, <2>1 DEF FlagTypeOK
<1>7. CoreOK'
  <2>1. pc' \in [Clients -> {"idle", "waiting", "resulting", "settling"}]
    BY <1>1, <1>4 DEF CallTypeOK
  <2> QED  BY <1>1, <1>2, <1>6, <1>3, <2>1 DEF CoreOK, FlagTypeOK, TaskTypeOK, CallTypeOK
<1>8. EventsOK'
  BY <1>1, <1>2, EventsStay
<1>9. Absent' /\ NothingOutlives'
  BY <1>2, <1>6 DEF IInv, Absent, NothingOutlives
<1> QED  BY <1>7, <1>8, <1>9

LEMMA TaskKeeps ==
  ASSUME IInv, RunsTask
  PROVE  CoreOK' /\ EventsOK' /\ Absent' /\ NothingOutlives'
<1>1. FlagTypeOK /\ TaskTypeOK /\ CallTypeOK /\ EventsOK
  BY DEF IInv, TypeOK, EventsOK
<1>2. /\ producer = "created" /\ producer' \in {"working", "ended"} /\ prodHit' \in BOOLEAN
      /\ UNCHANGED <<closed, consumer, signalled, pc, why, hit, calls, hits, got, exhausted,
                     discard, queue, result, woken, sent>>
  BY <1>1 DEF RunsTask, ProducerStarts, CancelledBeforeStart, ProducerUnchanged, FlagTypeOK
<1>3. CoreOK'
  BY <1>1, <1>2 DEF CoreOK, FlagTypeOK, TaskTypeOK, CallTypeOK
<1>4. EventsOK'
  BY <1>1, <1>2, EventsStay
<1>5. Absent' /\ NothingOutlives'
  BY <1>2 DEF IInv, Absent, NothingOutlives
<1> QED  BY <1>3, <1>4, <1>5

LEMMA ProvideKeeps ==
  ASSUME IInv, Provide
  PROVE  CoreOK' /\ EventsOK' /\ Absent' /\ NothingOutlives' /\ Frame(op, op)'
<1>1. FlagTypeOK /\ TaskTypeOK /\ CallTypeOK /\ EventsOK /\ Frame(op, op)
  BY DEF IInv, TypeOK, EventsOK
<1>2. PICK o, outcome : Frame(op, o) /\ outcome \in Outcomes /\ Deliver(o, outcome)
  BY <1>1, Provided
<1> DEFINE events == SubSeq(o.out, Len(op.out) + 1, Len(o.out))
<1>3. Proper(events)
  <2>1. Len(op.out) \in Nat
    BY <1>1 DEF Frame, Proper, Listed
  <2> QED  BY <1>2, <2>1, RestProper DEF Frame
<1>4. Produce(events, outcome)
  BY <1>2 DEF Deliver, New
<1> HIDE DEF events
<1>5. EventsOK'
  BY <1>1, <1>2, <1>3, <1>4, EventsProduced
<1>6. /\ producer = "working" /\ producer' \in {"working", "ended"}
      /\ result' \in {result, "value", "error"} /\ prodHit' = FALSE
      /\ woken' = (woken \/ (~discard /\ (IF outcome = "none" THEN events
                                          ELSE Append(events, End)) # <<>>))
      /\ UNCHANGED <<closed, consumer, signalled, pc, why, hit, calls, hits,
                     got, exhausted, discard>>
  BY <1>2, <1>4 DEF Produce, ProducerUnchanged, Outcomes
<1>7. woken' \in BOOLEAN
  BY <1>1, <1>6 DEF FlagTypeOK
<1>8. CoreOK'
  BY <1>1, <1>6, <1>7 DEF CoreOK, FlagTypeOK, TaskTypeOK, CallTypeOK
<1>9. Absent' /\ NothingOutlives'
  BY <1>6 DEF IInv, Absent, NothingOutlives
<1>10. Frame(op, op)'
  <2>1. op' = [o EXCEPT !.phase = IF outcome = "none" THEN @ ELSE "over"]
    BY <1>2 DEF Deliver
  <2>2. DOMAIN op' = DOMAIN o /\ op'.content = o.content /\ op'.out = o.out
    BY <1>2, <2>1 DEF Frame, FrameFields
  <2>3. Listed(op.content)' /\ Proper(op.out)' /\ Extends(op.out, op.out)'
    BY <1>2, <2>2, SameExtends DEF Frame, Proper
  <2>4. (FrameFields \subseteq DOMAIN op)'
    BY <1>2, <2>2 DEF Frame
  <2> QED  BY <2>3, <2>4 DEF Frame
<1> QED  BY <1>5, <1>8, <1>9, <1>10

-----------------------------------------------------------------------------

LEMMA InitIInv == ModelInit => IInv
<1> SUFFICES ASSUME ModelInit PROVE IInv
  OBVIOUS
<1>1. Init
  BY DEF ModelInit
<1>2. FlagTypeOK /\ CallTypeOK /\ Absent /\ NothingOutlives
  BY <1>1 DEF Init, FlagTypeOK, CallTypeOK, Absent, NothingOutlives
<1>3. TaskTypeOK
  BY <1>1 DEF Init, TaskTypeOK
<1>4. EventTypeOK /\ Delivery
  BY <1>1, EmptyProper DEF Init, EventTypeOK, Delivery
<1>5. Frame(op, op)
  <2>1. PICK p : op = NewOperation(p)
    BY DEF ModelInit
  <2>2. FrameFields \subseteq DOMAIN op /\ op.content = <<>> /\ op.out = <<>>
    BY <2>1 DEF NewOperation, FrameFields
  <2> QED  BY <2>2, EmptyProper, SameExtends DEF Frame, Proper
<1> QED  BY <1>2, <1>3, <1>4, <1>5 DEF IInv, TypeOK

LEMMA NextIInv == IInv /\ [Next]_vars => IInv'
<1> SUFFICES ASSUME IInv, [Next]_vars PROVE IInv'
  OBVIOUS
<1>1. Frame(op, op)
  BY DEF IInv, TypeOK
<1>2. ASSUME CoreOK', EventsOK', Absent', NothingOutlives', Frame(op, op)'
      PROVE  IInv'
  BY <1>2 DEF IInv, TypeOK, CoreOK, EventsOK
<1>3. ASSUME NEW c \in Clients, Call(c) \/ CancelClient(c) \/ Resume(c), UNCHANGED op
      PROVE  IInv'
  <2>1. CoreOK' /\ EventsOK' /\ Absent' /\ NothingOutlives'
    <3>1. CASE CallNext(c)
      BY <3>1, CallNextKeeps
    <3>2. CASE CallResult(c)
      BY <3>2, CallResultKeeps
    <3>3. CASE CallClose(c)
      BY <3>3, CallCloseKeeps
    <3>4. CASE NextResumes(c)
      BY <3>4, NextResumesKeeps
    <3>5. CASE NextCancelled(c)
      BY <3>5, CancelledNextKeeps
    <3>6. CASE ResultCancelled(c)
      BY <3>6, ResultCancelledKeeps
    <3>7. CASE ResultReturns(c) \/ Settled(c) \/ SettlingHit(c) \/ CancelClient(c)
      BY <3>7, ReturnKeeps
    <3> QED  BY <1>3, <3>1, <3>2, <3>3, <3>4, <3>5, <3>6, <3>7 DEF Call, Resume
  <2>2. Frame(op, op)'
    BY <1>1, <1>3
  <2> QED  BY <1>2, <2>1, <2>2
<1>4. CASE RunsTask /\ UNCHANGED op
  <2>1. Frame(op, op)'
    BY <1>1, <1>4
  <2> QED  BY <1>2, <1>4, <2>1, TaskKeeps
<1>5. CASE Provide
  BY <1>2, <1>5, ProvideKeeps
<1>6. CASE UNCHANGED vars
  BY <1>6 DEF vars, streamVars, IInv, TypeOK, FlagTypeOK, TaskTypeOK, CallTypeOK, EventTypeOK,
              Absent, NothingOutlives, Delivery
<1> QED  BY <1>3, <1>4, <1>5, <1>6 DEF Next

(* The invariant that the others follow from holds of every execution.      *)
THEOREM Invariance == Spec => []IInv
<1>1. Spec => ModelInit /\ [][Next]_vars
  BY DEF Spec
<1> QED  BY <1>1, InitIInv, NextIInv, PTL

(* A stream's flags, its tasks and what it carries have their types; what   *)
(* is queued or consumed has been sent, and what is sent is an event        *)
(* (_streams.py, _models.py).                                               *)
THEOREM TypeCorrect == Spec => []TypeOK
<1>1. IInv => TypeOK
  BY DEF IInv
<1> QED  BY <1>1, Invariance, PTL

(* The consumer gets what the provider emitted, in its order and without a  *)
(* gap, and all of it before it is told that the stream is exhausted        *)
(* (_streams.py __anext__, _run, aclose).                                   *)
THEOREM InOrder == Spec => []EventsInOrder
<1>1. IInv => EventsInOrder
  <2> SUFFICES ASSUME IInv PROVE EventsInOrder
    OBVIOUS
  <2>1. /\ sent \in Seq(ToSet(sent)) /\ got \in Seq(ToSet(sent))
        /\ Len(got) <= Len(sent) /\ \A i \in 1..Len(got) : got[i] = sent[i]
        /\ exhausted => Len(got) = Len(sent)
    BY DEF IInv, TypeOK, EventTypeOK, Proper, Listed, Delivery
  <2>2. IsPrefix(got, sent)
    BY <2>1 DEF IsPrefix
  <2>3. exhausted => got = sent
    BY <2>1
  <2> QED  BY <2>2, <2>3 DEF EventsInOrder
<1> QED  BY <1>1, Invariance, PTL

(* Nothing of a request outlives the calls that ended it                    *)
(* (_streams.py _cancel_and_settle, aclose, result).                        *)
THEOREM NothingLeft == Spec => []NothingOutlives
<1>1. IInv => NothingOutlives
  BY DEF IInv
<1> QED  BY <1>1, Invariance, PTL

-----------------------------------------------------------------------------
(* What fragments are made of, what a block of a message is, and a call of  *)
(* the provider's frame.                                                    *)
Letters == STRING
TextBlocks == [kind : {"text"}, text : Seq(Letters)]
ToolBlocks == [kind : {"toolCall"}, names : Nat, args : Seq(Letters)]
Blocks == TextBlocks \cup ToolBlocks
ToolCalls == [at : Nat, frags : Seq(Letters)]

(* The fragments of block i in events s: `Fragments' of those sent.         *)
Carried(s, i, type) ==
    [k \in DOMAIN s |-> IF s[k].type = type /\ s[k].at = i THEN s[k].delta ELSE <<>>]
FragmentsOf(s, i, type) == FlattenSeq(Carried(s, i, type))

(* Events with fragments in them, and without the end of a whole message.   *)
Told(s) == s \in Seq(ToSet(s)) /\ \A k \in DOMAIN s : s[k].delta \in Seq(Letters)
Unfinished(s) == \A k \in DOMAIN s : s[k].type # "done"

(* The content of a frame: its text block is one of the blocks, and its     *)
(* calls are the other blocks, each of them once.                           *)
CallsKept(content, tools) ==
    /\ \A k \in DOMAIN tools :
          tools[k].at \in DOMAIN content /\ content[tools[k].at].kind = "toolCall"
    /\ \A k, l \in DOMAIN tools : tools[k].at = tools[l].at => k = l
    /\ \A i \in DOMAIN content :
          content[i].kind = "toolCall" => \E k \in DOMAIN tools : tools[k].at = i
Contents(content, textAt, tools) ==
    /\ content \in Seq(Blocks) /\ textAt \in Nat /\ tools \in Seq(ToolCalls)
    /\ textAt # 0 => textAt \in DOMAIN content /\ content[textAt].kind = "text"
    /\ CallsKept(content, tools)

(* The content beside what was sent of it, where the blocks `ended' are as  *)
(* they will stay.                                                          *)
TextsSent(content, out) ==
    \A i \in DOMAIN content :
        content[i].kind = "text" => content[i].text = FragmentsOf(out, i, "text_delta")
CallsSent(tools, out) ==
    \A k \in DOMAIN tools : tools[k].frags = FragmentsOf(out, tools[k].at, "toolcall_delta")
EndedSent(content, ended, out) ==
    \A i \in ended :
        content[i].kind = "toolCall" =>
            /\ content[i].args = FragmentsOf(out, i, "toolcall_delta")
            /\ IsObject(content[i].args)
NothingBeyond(content, out) ==
    \A i \in Nat : i > Len(content) => /\ FragmentsOf(out, i, "text_delta") = <<>>
                                       /\ FragmentsOf(out, i, "toolcall_delta") = <<>>
Sent(content, tools, ended, out) ==
    /\ ended \subseteq DOMAIN content
    /\ TextsSent(content, out) /\ CallsSent(tools, out)
    /\ EndedSent(content, ended, out) /\ NothingBeyond(content, out)

(* A frame, and what it has sent as long as nothing has gone wrong.         *)
Consistent(o) ==
    /\ FrameFields \subseteq DOMAIN o
    /\ Contents(o.content, o.textAt, o.tools)
    /\ Told(o.out) /\ Unfinished(o.out)
    /\ o.broken \in BOOLEAN /\ o.refused \in BOOLEAN
Intact(o) == ~o.broken /\ ~o.refused
Faithful(o) ==
    Intact(o) => o.v.content = o.content /\ Sent(o.content, o.tools, o.v.ended, o.out)
Sound(o) == Consistent(o) /\ Faithful(o)

(* A message that is done, and a frame that has sent one.                   *)
Whole(o) ==
    /\ o.finish # "none" /\ o.usage
    /\ \A i \in DOMAIN Last(o.out).content :
          LET b == Last(o.out).content[i]
          IN  IF b.kind = "text" THEN b.text = FragmentsOf(o.out, i, "text_delta")
              ELSE b.args = FragmentsOf(o.out, i, "toolcall_delta") /\ IsObject(b.args)

(* What DeepSeek's frame is: sound as long as the response runs, and then   *)
(* of a message that is done only if the message is whole.                  *)
Message ==
    /\ op.phase = "over" => producer = "ended"
    /\ op.provider = "deepseek" =>
         /\ sent = op.out /\ Told(op.out)
         /\ Unfinished(op.out) \/ Whole(op)
         /\ op.phase # "over" => Sound(op) /\ Intact(op)
         /\ op.phase = "request" => op.v = NewValidator

-----------------------------------------------------------------------------
(* Fragments put together, as FlattenSeq does it.                           *)
Flattens(f, s, n) == f = [i \in 1..n |-> IF i = 1 THEN s[i] ELSE f[i - 1] \o s[i]]

Fragmented(s, n) == \A i \in 1..n : s[i] \in Seq(Letters)
Alike(s, t, n) == \A i \in 1..n : t[i] = s[i]

(* There is one way to do it,                                               *)
LEMMA FlatteningExists ==
  ASSUME NEW s, NEW n \in Nat
  PROVE  \E f : Flattens(f, s, n)
<1> DEFINE T == {k \in Nat : ~ \E f : Flattens(f, s, k)}
<1> SUFFICES ASSUME T # {} PROVE FALSE
  OBVIOUS
<1>1. PICK m \in T : \A k \in T : m <= k
  BY LeastNumber
<1>2. m # 0
  <2> DEFINE f == [i \in 1..0 |-> <<>>]
  <2>1. Flattens(f, s, 0)
    BY DEF Flattens
  <2> QED  BY <1>1, <2>1
<1>3. m - 1 \in Nat /\ m - 1 \notin T /\ m \in Nat
  BY <1>1, <1>2
<1>4. PICK f : Flattens(f, s, m - 1)
  BY <1>3
<1> DEFINE g == [i \in 1..m |-> IF i < m THEN f[i] ELSE IF i = 1 THEN s[i] ELSE f[i - 1] \o s[i]]
<1>5. ASSUME NEW i \in 1..m
      PROVE  g[i] = IF i = 1 THEN s[i] ELSE g[i - 1] \o s[i]
  <2>1. i # 1 => i - 1 \in 1..m /\ i - 1 < m /\ g[i - 1] = f[i - 1]
    BY <1>3
  <2>2. CASE i < m
    <3>1. i \in 1..m - 1 /\ g[i] = f[i]
      BY <1>3, <2>2
    <3>2. f[i] = IF i = 1 THEN s[i] ELSE f[i - 1] \o s[i]
      BY <1>4, <3>1 DEF Flattens
    <3> HIDE DEF g
    <3> QED  BY <2>1, <3>1, <3>2
  <2>3. CASE ~(i < m)
    <3>1. g[i] = IF i = 1 THEN s[i] ELSE f[i - 1] \o s[i]
      BY <2>3
    <3> HIDE DEF g
    <3> QED  BY <2>1, <3>1
  <2> QED  BY <2>2, <2>3
<1>6. g = [i \in 1..m |-> g[i]]
  OBVIOUS
<1> HIDE DEF g
<1>7. Flattens(g, s, m)
  BY <1>5, <1>6 DEF Flattens
<1> QED  BY <1>1, <1>7

(* of sequences of fragments, and of more of them alike;                    *)
LEMMA FlatteningLast ==
  ASSUME NEW s, NEW n \in Nat, Fragmented(s, n), NEW f, Flattens(f, s, n),
         NEW t, NEW m \in Nat, NEW g, Flattens(g, t, m), n <= m, Alike(s, t, n)
  PROVE  \A i \in 1..n : f[i] \in Seq(Letters) /\ g[i] = f[i]
<1> DEFINE T == {k \in 1..n : ~(f[k] \in Seq(Letters) /\ g[k] = f[k])}
<1> SUFFICES ASSUME T # {} PROVE FALSE
  OBVIOUS
<1>1. T \in SUBSET Nat
  OBVIOUS
<1>2. PICK k \in T : \A j \in T : k <= j
  BY <1>1, LeastNumber
<1>3. k \in 1..n /\ k \in 1..m /\ t[k] = s[k] /\ s[k] \in Seq(Letters)
  BY <1>2 DEF Fragmented, Alike
<1>4. /\ f[k] = IF k = 1 THEN s[k] ELSE f[k - 1] \o s[k]
      /\ g[k] = IF k = 1 THEN t[k] ELSE g[k - 1] \o t[k]
  BY <1>3 DEF Flattens
<1>5. k # 1 => f[k - 1] \in Seq(Letters) /\ g[k - 1] = f[k - 1]
  BY <1>2, <1>3
<1>6. f[k] \in Seq(Letters) /\ g[k] = f[k]
  BY <1>3, <1>4, <1>5
<1> QED  BY <1>2, <1>6

LEMMA FlatteningStep ==
  ASSUME NEW s, NEW n \in Nat, n # 0, NEW f, Flattens(f, s, n)
  PROVE  f[n] = IF n = 1 THEN s[n] ELSE f[n - 1] \o s[n]
<1>1. n \in 1..n
  OBVIOUS
<1> QED  BY <1>1 DEF Flattens

(* FlattenSeq is that one.                                                  *)
LEMMA Flattening ==
  ASSUME NEW s \in Seq(Seq(Letters)), Len(s) # 0
  PROVE  \E f : Flattens(f, s, Len(s)) /\ FlattenSeq(s) = f[Len(s)]
<1> DEFINE f == CHOOSE f : f = [i \in 1..Len(s) |-> IF i = 1 THEN s[i] ELSE f[i - 1] \o s[i]]
<1>1. FlattenSeq(s) = f[Len(s)]
  BY DEF FlattenSeq
<1>2. Len(s) \in Nat
  OBVIOUS
<1>3. \E g : g = [i \in 1..Len(s) |-> IF i = 1 THEN s[i] ELSE g[i - 1] \o s[i]]
  BY <1>2, FlatteningExists DEF Flattens
<1>4. f = [i \in 1..Len(s) |-> IF i = 1 THEN s[i] ELSE f[i - 1] \o s[i]]
  BY <1>3
<1> HIDE DEF f
<1>5. Flattens(f, s, Len(s))
  BY <1>4 DEF Flattens
<1> QED  BY <1>1, <1>5

LEMMA FlattenEmpty == FlattenSeq(<<>>) = <<>>
  BY DEF FlattenSeq

LEMMA FlattenType ==
  ASSUME NEW s \in Seq(Seq(Letters))
  PROVE  FlattenSeq(s) \in Seq(Letters)
<1>1. CASE Len(s) = 0
  <2>1. s = <<>> /\ <<>> \in Seq(Letters)
    BY <1>1
  <2>2. FlattenSeq(s) = <<>>
    BY <2>1, FlattenEmpty
  <2> QED  BY <2>1, <2>2
<1>2. CASE Len(s) # 0
  <2>1. PICK f : Flattens(f, s, Len(s)) /\ FlattenSeq(s) = f[Len(s)]
    BY <1>2, Flattening
  <2>2. Len(s) \in Nat /\ Len(s) \in 1..Len(s) /\ Fragmented(s, Len(s)) /\ Alike(s, s, Len(s))
    BY <1>2 DEF Fragmented, Alike
  <2>3. \A i \in 1..Len(s) : f[i] \in Seq(Letters)
    BY <2>1, <2>2, FlatteningLast
  <2> QED  BY <2>1, <2>2, <2>3
<1> QED  BY <1>1, <1>2

LEMMA FlattenAppend ==
  ASSUME NEW s \in Seq(Seq(Letters)), NEW x \in Seq(Letters)
  PROVE  FlattenSeq(Append(s, x)) = FlattenSeq(s) \o x
<1> DEFINE t == Append(s, x)
           n == Len(s)
<1>1. /\ t \in Seq(Seq(Letters)) /\ n \in Nat /\ Len(t) = n + 1 /\ t[n + 1] = x
      /\ \A i \in 1..n : t[i] = s[i] /\ s[i] \in Seq(Letters)
  OBVIOUS
<1> HIDE DEF t, n
<1>2. PICK g : Flattens(g, t, n + 1) /\ FlattenSeq(t) = g[n + 1]
  <2>1. Len(t) # 0
    BY <1>1
  <2>2. \E g : Flattens(g, t, Len(t)) /\ FlattenSeq(t) = g[Len(t)]
    BY <1>1, <2>1, Flattening
  <2> QED  BY <1>1, <2>2
<1>3. g[n + 1] = IF n + 1 = 1 THEN t[n + 1] ELSE g[(n + 1) - 1] \o t[n + 1]
  <2>1. n + 1 \in Nat /\ n + 1 # 0
    BY <1>1
  <2> QED  BY <1>2, <2>1, FlatteningStep
<1>4. CASE n = 0
  <2>1. s = <<>>
    BY <1>4 DEF n
  <2>2. FlattenSeq(s) \o x = x
    BY <2>1, FlattenEmpty
  <2>3. g[n + 1] = x
    BY <1>1, <1>3, <1>4
  <2> QED  BY <1>2, <2>2, <2>3 DEF t
<1>5. CASE n # 0
  <2>1. PICK f : Flattens(f, s, n) /\ FlattenSeq(s) = f[n]
    BY <1>5, Flattening DEF n
  <2>2. n + 1 \in Nat /\ n <= n + 1
    BY <1>1
  <2> Fragmented(s, n) /\ Alike(s, t, n)
    BY <1>1 DEF Fragmented, Alike
  <2>3. \A i \in 1..n : g[i] = f[i]
    BY <1>1, <1>2, <2>1, <2>2, FlatteningLast
  <2>4. g[n] = f[n] /\ (n + 1) - 1 = n /\ n + 1 # 1
    BY <1>1, <1>5, <2>3
  <2> QED  BY <1>1, <1>2, <1>3, <2>1, <2>4 DEF t
<1> QED  BY <1>4, <1>5

LEMMA NothingMore ==
  ASSUME NEW x \in Seq(Letters)
  PROVE  x \o <<>> = x
<1> DEFINE y == x \o <<>>
<1>1. <<>> \in Seq(Letters) /\ Len(<<>>) = 0 /\ Len(x) \in Nat
  OBVIOUS
<1>2. y \in Seq(Letters) /\ Len(y) = Len(x) /\ \A i \in 1..Len(x) : y[i] = x[i]
  BY <1>1
<1> HIDE DEF y
<1>3. y = x
  BY <1>2
<1> QED  BY <1>3 DEF y

(* One more event, and the fragments of a block.                            *)
LEMMA CarriedType ==
  ASSUME NEW s, Told(s), NEW i, NEW type
  PROVE  Carried(s, i, type) \in Seq(Seq(Letters)) /\ Len(Carried(s, i, type)) = Len(s)
<1>1. DOMAIN s = 1..Len(s) /\ Len(s) \in Nat
  BY DEF Told
<1>2. \A k \in 1..Len(s) :
        (IF s[k].type = type /\ s[k].at = i THEN s[k].delta ELSE <<>>) \in Seq(Letters)
  BY <1>1 DEF Told
<1>3. Carried(s, i, type) =
        [k \in 1..Len(s) |-> IF s[k].type = type /\ s[k].at = i THEN s[k].delta ELSE <<>>]
  BY <1>1 DEF Carried
<1> QED  BY <1>1, <1>2, <1>3

LEMMA FragmentsAfter ==
  ASSUME NEW s, Told(s), NEW e, e.delta \in Seq(Letters), NEW i, NEW type
  PROVE  /\ FragmentsOf(s, i, type) \in Seq(Letters)
         /\ (e.type = type /\ e.at = i)
              => FragmentsOf(Append(s, e), i, type) = FragmentsOf(s, i, type) \o e.delta
         /\ (e.type # type \/ e.at # i)
              => FragmentsOf(Append(s, e), i, type) = FragmentsOf(s, i, type)
<1> DEFINE c == Carried(s, i, type)
           d == IF e.type = type /\ e.at = i THEN e.delta ELSE <<>>
           u == Append(s, e)
<1>1. c \in Seq(Seq(Letters)) /\ Len(c) = Len(s) /\ d \in Seq(Letters) /\ Len(s) \in Nat
  BY CarriedType DEF Told
<1>2. /\ DOMAIN u = 1..Len(s) + 1 /\ DOMAIN s = 1..Len(s) /\ u[Len(s) + 1] = e
      /\ \A k \in 1..Len(s) : u[k] = s[k]
  BY DEF Told
<1> HIDE DEF u
<1>3. Carried(u, i, type) = Append(c, d)
  <2> DEFINE a == Carried(u, i, type)
             b == Append(c, d)
  <2>1. a = [k \in 1..Len(s) + 1 |-> IF u[k].type = type /\ u[k].at = i THEN u[k].delta ELSE <<>>]
    BY <1>2 DEF Carried
  <2>2. /\ b \in Seq(Seq(Letters)) /\ Len(b) = Len(s) + 1 /\ b[Len(s) + 1] = d
        /\ \A k \in 1..Len(s) : b[k] = c[k]
    BY <1>1
  <2>3. b = [k \in 1..Len(s) + 1 |-> b[k]]
    BY <2>2, <1>1
  <2> HIDE DEF b
  <2>4. \A k \in 1..Len(s) : c[k] = IF s[k].type = type /\ s[k].at = i THEN s[k].delta ELSE <<>>
    BY <1>2 DEF Carried
  <2> HIDE DEF c
  <2>5. \A k \in 1..Len(s) + 1 :
           b[k] = IF u[k].type = type /\ u[k].at = i THEN u[k].delta ELSE <<>>
    <3> TAKE k \in 1..Len(s) + 1
    <3>1. CASE k \in 1..Len(s)
      BY <3>1, <1>2, <2>2, <2>4
    <3>2. CASE k = Len(s) + 1
      BY <3>2, <1>2, <2>2
    <3> QED  BY <1>1, <3>1, <3>2
  <2>6. a = b
    BY <2>1, <2>3, <2>5
  <2> QED  BY <2>6 DEF b
<1> HIDE DEF c, d
<1>4. FlattenSeq(Append(c, d)) = FlattenSeq(c) \o d /\ FlattenSeq(c) \in Seq(Letters)
  BY <1>1, FlattenAppend, FlattenType
<1>5. FragmentsOf(u, i, type) = FragmentsOf(s, i, type) \o d /\ FragmentsOf(s, i, type) \in Seq(Letters)
  BY <1>3, <1>4 DEF FragmentsOf, c
<1>7. e.type = type /\ e.at = i => d = e.delta
  BY DEF d
<1>6. (e.type # type \/ e.at # i) => FragmentsOf(s, i, type) \o d = FragmentsOf(s, i, type)
  BY <1>5, NothingMore DEF d
<1> QED  BY <1>5, <1>6, <1>7 DEF u

LEMMA FragmentsGrown ==
  ASSUME NEW s, Told(s), NEW x \in Seq(Letters), NEW e, e.delta = x
  PROVE  FragmentsOf(Append(s, e), e.at, e.type) = FragmentsOf(s, e.at, e.type) \o x
<1>1. e.delta \in Seq(Letters)
  OBVIOUS
<1>2. FragmentsOf(Append(s, e), e.at, e.type) = FragmentsOf(s, e.at, e.type) \o e.delta
  BY <1>1, FragmentsAfter
<1> QED  BY <1>2

LEMMA ToldAppend ==
  ASSUME NEW s, Told(s), NEW e, e.delta \in Seq(Letters)
  PROVE  /\ Told(Append(s, e))
         /\ Unfinished(s) /\ e.type # "done" => Unfinished(Append(s, e))
<1> DEFINE u == Append(s, e)
<1>1. /\ DOMAIN u = 1..Len(s) + 1 /\ DOMAIN s = 1..Len(s) /\ u[Len(s) + 1] = e
      /\ Len(s) \in Nat /\ \A k \in 1..Len(s) : u[k] = s[k]
  BY DEF Told
<1>2. u \in Seq(ToSet(u))
  BY AppendListed DEF Told, Listed
<1> HIDE DEF u
<1>3. \A k \in DOMAIN u : u[k] = e \/ (k \in DOMAIN s /\ u[k] = s[k])
  BY <1>1
<1>4. Told(u)
  BY <1>2, <1>3 DEF Told
<1>5. Unfinished(s) /\ e.type # "done" => Unfinished(u)
  BY <1>3 DEF Unfinished
<1> QED  BY <1>4, <1>5 DEF u

-----------------------------------------------------------------------------
(* Blocks.                                                                  *)
LEMMA BlockKinds ==
  ASSUME NEW b \in Blocks
  PROVE  /\ b.kind = "text" => b \in TextBlocks /\ b.text \in Seq(Letters)
         /\ b.kind = "toolCall" => b \in ToolBlocks /\ b.args \in Seq(Letters) /\ b.names \in Nat
         /\ b.kind = "text" \/ b.kind = "toolCall"
  BY DEF Blocks, TextBlocks, ToolBlocks

LEMMA NoFragments == <<>> \in Seq(Letters)
  OBVIOUS

LEMMA NewBlocks ==
  ASSUME NEW n \in Nat, NEW x \in Seq(Letters)
  PROVE  /\ TextBlock(x) \in Blocks /\ TextBlock(x).kind = "text" /\ TextBlock(x).text = x
         /\ ToolBlock(n, x) \in Blocks /\ ToolBlock(n, x).kind = "toolCall"
  BY DEF Blocks, TextBlocks, ToolBlocks, TextBlock, ToolBlock

LEMMA NothingBefore ==
  ASSUME NEW x \in Seq(Letters)
  PROVE  <<>> \o x = x
<1> DEFINE y == <<>> \o x
<1>1. <<>> \in Seq(Letters) /\ Len(<<>>) = 0 /\ Len(x) \in Nat
  OBVIOUS
<1>2. y \in Seq(Letters) /\ Len(y) = Len(x) /\ \A i \in 1..Len(x) : y[i] = x[i]
  <2>1. y \in Seq(Letters) /\ Len(y) = Len(<<>>) + Len(x)
    BY <1>1
  <2>2. \A i \in 1..Len(x) : y[Len(<<>>) + i] = x[i] /\ Len(<<>>) + i = i
    BY <1>1
  <2> HIDE DEF y
  <2>3. \A i \in 1..Len(x) : y[i] = x[i]
    BY <2>2
  <2> QED  BY <1>1, <2>1, <2>3
<1> HIDE DEF y
<1>3. y = x
  BY <1>2
<1> QED  BY <1>3 DEF y

LEMMA Concatenated ==
  ASSUME NEW x \in Seq(Letters), NEW y \in Seq(Letters)
  PROVE  x \o y \in Seq(Letters)
  OBVIOUS

(* One more block.                                                          *)
LEMMA AppendBlock ==
  ASSUME NEW c \in Seq(Blocks), NEW b \in Blocks
  PROVE  /\ Append(c, b) \in Seq(Blocks)
         /\ DOMAIN c = 1..Len(c) /\ Len(c) \in Nat /\ Len(Append(c, b)) = Len(c) + 1
         /\ DOMAIN Append(c, b) = 1..Len(c) + 1
         /\ \A i \in 1..Len(c) : Append(c, b)[i] = c[i]
         /\ Append(c, b)[Len(c) + 1] = b
  OBVIOUS

(* Another block in the place of one.                                       *)
Alters(c, d, at) ==
    /\ at \in DOMAIN c /\ d \in Seq(Blocks) /\ DOMAIN d = DOMAIN c /\ Len(d) = Len(c)
    /\ d[at].kind = c[at].kind
    /\ \A i \in DOMAIN c \ {at} : d[i] = c[i]

LEMMA Altered ==
  ASSUME NEW c \in Seq(Blocks), NEW at \in DOMAIN c, NEW b \in Blocks, b.kind = c[at].kind
  PROVE  Alters(c, [c EXCEPT ![at] = b], at)
<1> DEFINE d == [c EXCEPT ![at] = b]
<1>1. DOMAIN c = 1..Len(c) /\ Len(c) \in Nat
  OBVIOUS
<1>2. d = [i \in 1..Len(c) |-> IF i = at THEN b ELSE c[i]]
  BY <1>1
<1>3. \A i \in 1..Len(c) : c[i] \in Blocks
  OBVIOUS
<1>4. d \in Seq(Blocks) /\ DOMAIN d = DOMAIN c /\ Len(d) = Len(c)
  <2>1. \A i \in 1..Len(c) : (IF i = at THEN b ELSE c[i]) \in Blocks
    BY <1>3
  <2> QED  BY <1>1, <1>2, <2>1
<1>5. d[at] = b /\ \A i \in DOMAIN c \ {at} : d[i] = c[i]
  OBVIOUS
<1> QED  BY <1>4, <1>5 DEF Alters

(* A block with another text, other names or other arguments.               *)
LEMMA TextAltered ==
  ASSUME NEW c \in Seq(Blocks), NEW at \in DOMAIN c, c[at].kind = "text", NEW x \in Seq(Letters)
  PROVE  /\ Alters(c, [c EXCEPT ![at].text = @ \o x], at)
         /\ [c EXCEPT ![at].text = @ \o x][at].text = c[at].text \o x
<1>1. c[at] \in Blocks
  OBVIOUS
<1>2. c[at] \in TextBlocks /\ c[at].text \in Seq(Letters)
  BY <1>1, BlockKinds
<1> DEFINE y == c[at].text \o x
           b == [c[at] EXCEPT !.text = y]
<1>3. y \in Seq(Letters)
  BY <1>2, Concatenated
<1>4. [c EXCEPT ![at].text = @ \o x] = [c EXCEPT ![at] = b]
  OBVIOUS
<1> HIDE DEF y
<1>5. b \in Blocks /\ b.kind = "text" /\ b.text = y
  BY <1>2, <1>3 DEF TextBlocks, Blocks
<1> HIDE DEF b
<1>6. Alters(c, [c EXCEPT ![at] = b], at) /\ [c EXCEPT ![at] = b][at] = b
  BY <1>5, Altered
<1> QED  BY <1>4, <1>5, <1>6 DEF y

LEMMA NamesAltered ==
  ASSUME NEW c \in Seq(Blocks), NEW at \in DOMAIN c, c[at].kind = "toolCall", NEW n \in Nat
  PROVE  Alters(c, [c EXCEPT ![at].names = @ + n], at)
<1>1. c[at] \in Blocks
  OBVIOUS
<1>2. c[at] \in ToolBlocks /\ c[at].names \in Nat
  BY <1>1, BlockKinds
<1> DEFINE y == c[at].names + n
           b == [c[at] EXCEPT !.names = y]
<1>3. y \in Nat
  BY <1>2
<1>4. [c EXCEPT ![at].names = @ + n] = [c EXCEPT ![at] = b]
  OBVIOUS
<1> HIDE DEF y
<1>5. b \in Blocks /\ b.kind = "toolCall"
  BY <1>2, <1>3 DEF ToolBlocks, Blocks
<1> HIDE DEF b
<1> QED  BY <1>4, <1>5, Altered

LEMMA ArgsAltered ==
  ASSUME NEW c \in Seq(Blocks), NEW at \in DOMAIN c, c[at].kind = "toolCall", NEW x \in Seq(Letters)
  PROVE  /\ Alters(c, [c EXCEPT ![at].args = x], at)
         /\ [c EXCEPT ![at].args = x][at].args = x
<1>1. c[at] \in Blocks
  OBVIOUS
<1>2. c[at] \in ToolBlocks
  BY <1>1, BlockKinds
<1> DEFINE b == [c[at] EXCEPT !.args = x]
<1>4. [c EXCEPT ![at].args = x] = [c EXCEPT ![at] = b]
  OBVIOUS
<1>5. b \in Blocks /\ b.kind = "toolCall" /\ b.args = x
  BY <1>2 DEF ToolBlocks, Blocks
<1> HIDE DEF b
<1>6. Alters(c, [c EXCEPT ![at] = b], at) /\ [c EXCEPT ![at] = b][at] = b
  BY <1>5, Altered
<1> QED  BY <1>4, <1>5, <1>6

LEMMA ArgsRead ==
  ASSUME NEW c \in Seq(Blocks), NEW at \in DOMAIN c, c[at].kind = "toolCall", NEW x \in Seq(Letters)
  PROVE  Alters(c, [c EXCEPT ![at].args = ArgumentsAfter(x, @)], at)
<1>1. c[at] \in Blocks
  OBVIOUS
<1> DEFINE y == ArgumentsAfter(x, c[at].args)
<1>2. y \in Seq(Letters)
  BY <1>1, BlockKinds DEF ArgumentsAfter
<1>3. [c EXCEPT ![at].args = ArgumentsAfter(x, @)] = [c EXCEPT ![at].args = y]
  OBVIOUS
<1> HIDE DEF y
<1> QED  BY <1>2, <1>3, ArgsAltered

-----------------------------------------------------------------------------
(* The content of a frame stays as it should be.                            *)
LEMMA AlteredContents ==
  ASSUME NEW c, NEW textAt, NEW tools, Contents(c, textAt, tools), NEW d, NEW at, Alters(c, d, at)
  PROVE  Contents(d, textAt, tools)
<1>1. \A i \in DOMAIN c : d[i].kind = c[i].kind
  BY DEF Alters
<1>2. CallsKept(d, tools)
  BY <1>1 DEF Contents, CallsKept, Alters
<1> QED  BY <1>1, <1>2 DEF Contents, Alters

(* A new block of text.                                                     *)
LEMMA TextOpened ==
  ASSUME NEW c, NEW textAt, NEW tools, Contents(c, textAt, tools)
  PROVE  Contents(Append(c, TextBlock(<<>>)), Len(c) + 1, tools)
<1> DEFINE b == TextBlock(<<>>)
           d == Append(c, b)
           n == Len(c)
<1>1. b \in Blocks /\ b.kind = "text"
  BY NoFragments, NewBlocks
<1> HIDE DEF b
<1>2. /\ d \in Seq(Blocks) /\ DOMAIN c = 1..n /\ n \in Nat /\ DOMAIN d = 1..n + 1
      /\ d[n + 1] = b /\ \A i \in 1..n : d[i] = c[i]
  BY <1>1, AppendBlock DEF Contents
<1> HIDE DEF d, n
<1>3. n + 1 \in Nat /\ n + 1 \in DOMAIN d /\ DOMAIN c \subseteq DOMAIN d
  BY <1>2
<1>4. CallsKept(d, tools)
  <2>1. CallsKept(c, tools)
    BY DEF Contents
  <2>2. \A k \in DOMAIN tools : tools[k].at \in DOMAIN d /\ d[tools[k].at].kind = "toolCall"
    BY <1>2, <1>3, <2>1 DEF CallsKept
  <2>3. ASSUME NEW i \in DOMAIN d, d[i].kind = "toolCall"
        PROVE  \E k \in DOMAIN tools : tools[k].at = i
    <3>1. i # n + 1
      BY <1>1, <1>2, <2>3
    <3>2. i \in DOMAIN c /\ d[i] = c[i]
      BY <1>2, <3>1
    <3> QED  BY <2>1, <2>3, <3>2 DEF CallsKept
  <2> QED  BY <2>1, <2>2, <2>3 DEF CallsKept
<1>5. Contents(d, n + 1, tools)
  BY <1>1, <1>2, <1>3, <1>4 DEF Contents
<1> QED  BY <1>5 DEF d, n, b

(* A new call.                                                              *)
LEMMA CallOpened ==
  ASSUME NEW c, NEW textAt, NEW tools, Contents(c, textAt, tools), NEW names \in Nat,
         NEW x \in Seq(Letters)
  PROVE  Contents(Append(c, ToolBlock(names, <<>>)), textAt,
                  Append(tools, [at |-> Len(c) + 1, frags |-> x]))
<1> DEFINE b == ToolBlock(names, <<>>)
           d == Append(c, b)
           n == Len(c)
           t == [at |-> n + 1, frags |-> x]
           more == Append(tools, t)
           m == Len(tools)
<1>1. b \in Blocks /\ b.kind = "toolCall"
  BY NoFragments, NewBlocks
<1> HIDE DEF b
<1>2. /\ d \in Seq(Blocks) /\ DOMAIN c = 1..n /\ n \in Nat /\ DOMAIN d = 1..n + 1
      /\ d[n + 1] = b /\ \A i \in 1..n : d[i] = c[i]
  BY <1>1, AppendBlock DEF Contents
<1> HIDE DEF d, n
<1>3. n + 1 \in Nat /\ n + 1 \in DOMAIN d /\ DOMAIN c \subseteq DOMAIN d /\ n + 1 \notin DOMAIN c
  BY <1>2
<1>4. t \in ToolCalls /\ t.at = n + 1
  BY <1>3 DEF ToolCalls
<1> HIDE DEF t
<1>5. /\ more \in Seq(ToolCalls) /\ DOMAIN more = 1..m + 1 /\ m \in Nat
      /\ more[m + 1] = t /\ \A k \in 1..m : more[k] = tools[k]
      /\ DOMAIN tools = 1..m
  BY <1>4 DEF Contents
<1> HIDE DEF more, m
<1>6. CallsKept(c, tools)
  BY DEF Contents
<1>7. \A k \in DOMAIN tools : tools[k].at \in DOMAIN c /\ more[k] = tools[k] /\ k \in DOMAIN more
  BY <1>5, <1>6 DEF CallsKept
<1>8. \A k \in DOMAIN more : k \in DOMAIN tools \/ k = m + 1
  BY <1>5
<1>9. m + 1 \in DOMAIN more
  BY <1>5
<1>10. CallsKept(d, more)
  <2>1. \A k \in DOMAIN more : more[k].at \in DOMAIN d /\ d[more[k].at].kind = "toolCall"
    <3> TAKE k \in DOMAIN more
    <3>1. CASE k \in DOMAIN tools
      BY <3>1, <1>2, <1>3, <1>6, <1>7 DEF CallsKept
    <3>2. CASE k = m + 1
      BY <3>2, <1>1, <1>2, <1>3, <1>4, <1>5
    <3> QED  BY <1>8, <3>1, <3>2
  <2>2. \A k, l \in DOMAIN more : more[k].at = more[l].at => k = l
    BY <1>3, <1>4, <1>5, <1>6, <1>7, <1>8 DEF CallsKept
  <2>3. ASSUME NEW i \in DOMAIN d, d[i].kind = "toolCall"
        PROVE  \E k \in DOMAIN more : more[k].at = i
    <3>1. CASE i = n + 1
      BY <3>1, <1>4, <1>5, <1>9
    <3>2. CASE i # n + 1
      <4>1. i \in DOMAIN c /\ d[i] = c[i]
        BY <1>2, <3>2
      <4>2. PICK k \in DOMAIN tools : tools[k].at = i
        BY <1>6, <2>3, <4>1 DEF CallsKept
      <4> QED  BY <1>7, <4>2
    <3> QED  BY <3>1, <3>2
  <2> QED  BY <2>1, <2>2, <2>3 DEF CallsKept
<1>11. textAt # 0 => textAt \in DOMAIN d /\ d[textAt].kind = "text"
  BY <1>2, <1>3 DEF Contents
<1>12. Contents(d, textAt, more)
  BY <1>2, <1>5, <1>10, <1>11 DEF Contents
<1> QED  BY <1>12 DEF d, n, b, more, t

(* A call with one more fragment.                                           *)
LEMMA CallGrown ==
  ASSUME NEW c, NEW textAt, NEW tools, Contents(c, textAt, tools), NEW k \in DOMAIN tools,
         NEW x \in Seq(Letters)
  PROVE  /\ Contents(c, textAt, [tools EXCEPT ![k].frags = @ \o x])
         /\ DOMAIN [tools EXCEPT ![k].frags = @ \o x] = DOMAIN tools
         /\ \A l \in DOMAIN tools :
              LET more == [tools EXCEPT ![k].frags = @ \o x]
              IN  /\ more[l].at = tools[l].at
                  /\ more[l].frags = IF l = k THEN tools[k].frags \o x ELSE tools[l].frags
<1> DEFINE y == tools[k].frags \o x
           t == [tools[k] EXCEPT !.frags = y]
           more == [tools EXCEPT ![k].frags = @ \o x]
<1>1. tools \in Seq(ToolCalls) /\ tools[k] \in ToolCalls
  BY DEF Contents
<1>2. y \in Seq(Letters) /\ tools[k].at \in Nat
  BY <1>1, Concatenated DEF ToolCalls
<1>4. more = [tools EXCEPT ![k] = t]
  OBVIOUS
<1> HIDE DEF y
<1>3. t \in ToolCalls /\ t.at = tools[k].at /\ t.frags = y
  BY <1>1, <1>2 DEF ToolCalls
<1> HIDE DEF t, more
<1>5. /\ more \in Seq(ToolCalls) /\ DOMAIN more = DOMAIN tools
      /\ \A l \in DOMAIN tools : more[l] = IF l = k THEN t ELSE tools[l]
  <2>1. /\ DOMAIN tools = 1..Len(tools) /\ Len(tools) \in Nat
        /\ \A l \in 1..Len(tools) : tools[l] \in ToolCalls
    BY <1>1
  <2>2. more = [l \in 1..Len(tools) |-> IF l = k THEN t ELSE tools[l]]
    BY <1>4, <2>1
  <2>3. \A l \in 1..Len(tools) : (IF l = k THEN t ELSE tools[l]) \in ToolCalls
    BY <1>3, <2>1
  <2> QED  BY <2>1, <2>2, <2>3
<1>6. \A l \in DOMAIN tools :
        /\ more[l].at = tools[l].at
        /\ more[l].frags = IF l = k THEN tools[k].frags \o x ELSE tools[l].frags
  BY <1>3, <1>5 DEF y
<1>7. CallsKept(c, more)
  <2>1. /\ CallsKept(c, tools) /\ DOMAIN more = DOMAIN tools
        /\ \A l \in DOMAIN tools : more[l].at = tools[l].at
    BY <1>5, <1>6 DEF Contents
  <2> QED  BY <2>1 DEF CallsKept
<1>8. Contents(c, textAt, more)
  BY <1>5, <1>7 DEF Contents
<1> QED  BY <1>5, <1>6, <1>8 DEF more

-----------------------------------------------------------------------------
(* The content stays what was sent of it.                                   *)
Deltas == {"text_delta", "toolcall_delta"}

(* An event without fragments.                                              *)
LEMMA SilentSent ==
  ASSUME NEW c, NEW tools, NEW ended, NEW out, Told(out), Sent(c, tools, ended, out),
         NEW e, e.delta \in Seq(Letters), e.type \notin Deltas
  PROVE  Sent(c, tools, ended, Append(out, e))
<1>1. \A i : /\ FragmentsOf(Append(out, e), i, "text_delta") = FragmentsOf(out, i, "text_delta")
             /\ FragmentsOf(Append(out, e), i, "toolcall_delta") = FragmentsOf(out, i, "toolcall_delta")
  BY FragmentsAfter DEF Deltas
<1> QED  BY <1>1 DEF Sent, TextsSent, CallsSent, EndedSent, NothingBeyond

(* A new block of text.                                                     *)
LEMMA TextOpenedSent ==
  ASSUME NEW c \in Seq(Blocks), NEW tools, NEW ended, NEW out, Sent(c, tools, ended, out)
  PROVE  Sent(Append(c, TextBlock(<<>>)), tools, ended, out)
<1> DEFINE b == TextBlock(<<>>)
           d == Append(c, b)
           n == Len(c)
<1>1. b \in Blocks /\ b.kind = "text" /\ b.text = <<>>
  BY NoFragments, NewBlocks
<1> HIDE DEF b
<1>2. /\ Len(d) = n + 1 /\ DOMAIN c = 1..n /\ n \in Nat /\ DOMAIN d = 1..n + 1
      /\ d[n + 1] = b /\ \A i \in 1..n : d[i] = c[i]
  BY <1>1, AppendBlock
<1> HIDE DEF d
<1>3. ended \subseteq DOMAIN d
  BY <1>2 DEF Sent
<1>4. FragmentsOf(out, n + 1, "text_delta") = <<>>
  <2>1. n + 1 \in Nat /\ n + 1 > Len(c)
    BY <1>2
  <2> QED  BY <2>1 DEF Sent, NothingBeyond
<1>5. TextsSent(d, out)
  <2> SUFFICES ASSUME NEW i \in DOMAIN d, d[i].kind = "text"
               PROVE  d[i].text = FragmentsOf(out, i, "text_delta")
    BY DEF TextsSent
  <2>1. CASE i = n + 1
    BY <2>1, <1>1, <1>2, <1>4
  <2>2. CASE i # n + 1
    <3>1. i \in DOMAIN c /\ d[i] = c[i]
      BY <1>2, <2>2
    <3> QED  BY <3>1 DEF Sent, TextsSent
  <2> QED  BY <2>1, <2>2
<1>6. EndedSent(d, ended, out)
  <2>1. \A i \in ended : d[i] = c[i]
    BY <1>2 DEF Sent
  <2> QED  BY <2>1 DEF Sent, EndedSent
<1>7. NothingBeyond(d, out)
  <2>1. \A i \in Nat : i > Len(d) => i > Len(c)
    BY <1>2
  <2> QED  BY <2>1 DEF Sent, NothingBeyond
<1>8. Sent(d, tools, ended, out)
  BY <1>3, <1>5, <1>6, <1>7 DEF Sent
<1> QED  BY <1>8 DEF d, b

(* A fragment of text, in the block it belongs to.                          *)
LEMMA TextGrownSent ==
  ASSUME NEW c, NEW textAt, NEW tools, Contents(c, textAt, tools), textAt # 0,
         NEW ended, NEW out, Told(out), Sent(c, tools, ended, out),
         NEW x \in Seq(Letters), NEW e, e.delta = x, e.type = "text_delta", e.at = textAt
  PROVE  Sent([c EXCEPT ![textAt].text = @ \o x], tools, ended, Append(out, e))
<1> DEFINE d == [c EXCEPT ![textAt].text = @ \o x]
           u == Append(out, e)
<1>1. c \in Seq(Blocks) /\ textAt \in DOMAIN c /\ c[textAt].kind = "text"
  BY DEF Contents
<1>2. Alters(c, d, textAt) /\ d[textAt].text = c[textAt].text \o x
  BY <1>1, TextAltered
<1>3. \A i : /\ FragmentsOf(u, i, "toolcall_delta") = FragmentsOf(out, i, "toolcall_delta")
             /\ i # textAt => FragmentsOf(u, i, "text_delta") = FragmentsOf(out, i, "text_delta")
  BY FragmentsAfter
<1>4. FragmentsOf(u, textAt, "text_delta") = FragmentsOf(out, textAt, "text_delta") \o x
  <2>1. FragmentsOf(Append(out, e), e.at, e.type) = FragmentsOf(out, e.at, e.type) \o x
    BY FragmentsGrown
  <2> QED  BY <2>1
<1> HIDE DEF d, u
<1>5. TextsSent(d, u)
  <2> SUFFICES ASSUME NEW i \in DOMAIN d, d[i].kind = "text"
               PROVE  d[i].text = FragmentsOf(u, i, "text_delta")
    BY DEF TextsSent
  <2>1. CASE i = textAt
    <3>1. c[textAt].text = FragmentsOf(out, textAt, "text_delta")
      BY <1>1 DEF Sent, TextsSent
    <3> QED  BY <2>1, <3>1, <1>2, <1>4
  <2>2. CASE i # textAt
    <3>1. i \in DOMAIN c /\ d[i] = c[i]
      BY <1>2, <2>2 DEF Alters
    <3> QED  BY <2>2, <3>1, <1>3 DEF Sent, TextsSent
  <2> QED  BY <2>1, <2>2
<1>6. CallsSent(tools, u)
  BY <1>3 DEF Sent, CallsSent
<1>7. EndedSent(d, ended, u)
  <2> SUFFICES ASSUME NEW i \in ended, d[i].kind = "toolCall"
               PROVE  d[i].args = FragmentsOf(u, i, "toolcall_delta") /\ IsObject(d[i].args)
    BY DEF EndedSent
  <2>1. i # textAt /\ i \in DOMAIN c
    BY <1>1, <1>2 DEF Alters, Sent
  <2>2. d[i] = c[i]
    BY <1>2, <2>1 DEF Alters
  <2> QED  BY <2>2, <1>3 DEF Sent, EndedSent
<1>8. NothingBeyond(d, u)
  <2>1. DOMAIN c = 1..Len(c) /\ Len(d) = Len(c) /\ Len(c) \in Nat
    BY <1>1, <1>2 DEF Alters
  <2>2. \A i \in Nat : i > Len(d) => i > Len(c) /\ i # textAt
    BY <1>1, <2>1
  <2> QED  BY <2>2, <1>3 DEF Sent, NothingBeyond
<1>9. ended \subseteq DOMAIN d
  BY <1>2 DEF Alters, Sent
<1>10. Sent(d, tools, ended, u)
  BY <1>5, <1>6, <1>7, <1>8, <1>9 DEF Sent
<1> QED  BY <1>10 DEF d, u

(* A call's block that has not ended may become another.                    *)
LEMMA AlteredSent ==
  ASSUME NEW c, NEW tools, NEW ended, NEW out, Sent(c, tools, ended, out),
         NEW d, NEW at, Alters(c, d, at), c[at].kind = "toolCall", at \notin ended
  PROVE  Sent(d, tools, ended, out)
<1>1. \A i \in DOMAIN c : d[i].kind = c[i].kind
  BY DEF Alters
<1>2. TextsSent(d, out)
  BY <1>1 DEF Sent, TextsSent, Alters
<1>3. EndedSent(d, ended, out)
  <2>1. \A i \in ended : i \in DOMAIN c \ {at}
    BY DEF Sent
  <2>2. \A i \in ended : d[i] = c[i]
    BY <2>1 DEF Alters
  <2> QED  BY <2>2 DEF Sent, EndedSent
<1> QED  BY <1>2, <1>3 DEF Sent, Alters, NothingBeyond

(* A new call with the first fragment of its arguments.                     *)
LEMMA CallOpenedSent ==
  ASSUME NEW c \in Seq(Blocks), NEW tools \in Seq(ToolCalls), CallsKept(c, tools),
         NEW ended, NEW out, Told(out), Sent(c, tools, ended, out),
         NEW names \in Nat, NEW x \in Seq(Letters),
         NEW e, e.delta = x, e.type = "toolcall_delta", e.at = Len(c) + 1
  PROVE  Sent(Append(c, ToolBlock(names, <<>>)), Append(tools, [at |-> Len(c) + 1, frags |-> x]),
              ended, Append(out, e))
<1> DEFINE b == ToolBlock(names, <<>>)
           d == Append(c, b)
           n == Len(c)
           t == [at |-> n + 1, frags |-> x]
           more == Append(tools, t)
           m == Len(tools)
           u == Append(out, e)
<1>1. b \in Blocks /\ b.kind = "toolCall"
  BY NoFragments, NewBlocks
<1> HIDE DEF b
<1>2. /\ Len(d) = n + 1 /\ DOMAIN c = 1..n /\ n \in Nat /\ DOMAIN d = 1..n + 1
      /\ d[n + 1] = b /\ \A i \in 1..n : d[i] = c[i]
  BY <1>1, AppendBlock
<1> HIDE DEF d
<1>3. \A i : /\ FragmentsOf(u, i, "text_delta") = FragmentsOf(out, i, "text_delta")
             /\ i # n + 1 => FragmentsOf(u, i, "toolcall_delta") = FragmentsOf(out, i, "toolcall_delta")
  BY FragmentsAfter
<1>4. FragmentsOf(u, n + 1, "toolcall_delta") = x
  <2>1. FragmentsOf(u, n + 1, "toolcall_delta") = FragmentsOf(out, n + 1, "toolcall_delta") \o x
    <3>1. FragmentsOf(Append(out, e), e.at, e.type) = FragmentsOf(out, e.at, e.type) \o x
      BY FragmentsGrown
    <3> QED  BY <3>1
  <2>2. FragmentsOf(out, n + 1, "toolcall_delta") = <<>>
    <3>1. n + 1 \in Nat /\ n + 1 > Len(c)
      BY <1>2
    <3> QED  BY <3>1 DEF Sent, NothingBeyond
  <2> QED  BY <2>1, <2>2, NothingBefore
<1> HIDE DEF u
<1>5. t.at = n + 1 /\ t.frags = x /\ t \in ToolCalls
  <2>1. n + 1 \in Nat
    BY <1>2
  <2> QED  BY <2>1 DEF ToolCalls
<1> HIDE DEF t
<1>6. /\ DOMAIN more = 1..m + 1 /\ m \in Nat /\ DOMAIN tools = 1..m
      /\ more[m + 1] = t /\ \A k \in 1..m : more[k] = tools[k]
  BY <1>5
<1> HIDE DEF more, m, n
<1>7. TextsSent(d, u)
  <2> SUFFICES ASSUME NEW i \in DOMAIN d, d[i].kind = "text"
               PROVE  d[i].text = FragmentsOf(u, i, "text_delta")
    BY DEF TextsSent
  <2>1. i # n + 1
    BY <1>1, <1>2
  <2>2. i \in DOMAIN c /\ d[i] = c[i]
    BY <1>2, <2>1
  <2> QED  BY <2>2, <1>3 DEF Sent, TextsSent
<1>8. CallsSent(more, u)
  <2> SUFFICES ASSUME NEW k \in DOMAIN more
               PROVE  more[k].frags = FragmentsOf(u, more[k].at, "toolcall_delta")
    BY DEF CallsSent
  <2>1. CASE k = m + 1
    BY <2>1, <1>4, <1>5, <1>6
  <2>2. CASE k # m + 1
    <3>1. k \in DOMAIN tools /\ more[k] = tools[k]
      BY <1>6, <2>2
    <3>2. tools[k].at \in DOMAIN c
      BY <3>1 DEF CallsKept
    <3>3. tools[k].at # n + 1
      BY <1>2, <3>2
    <3> QED  BY <3>1, <3>3, <1>3 DEF Sent, CallsSent
  <2> QED  BY <2>1, <2>2
<1>9. EndedSent(d, ended, u)
  <2>1. \A i \in ended : i # n + 1 /\ d[i] = c[i]
    BY <1>2 DEF Sent
  <2> QED  BY <2>1, <1>3 DEF Sent, EndedSent
<1>10. NothingBeyond(d, u)
  <2>1. \A i \in Nat : i > Len(d) => i > Len(c) /\ i # n + 1
    BY <1>2 DEF n
  <2> QED  BY <2>1, <1>3 DEF Sent, NothingBeyond
<1>11. ended \subseteq DOMAIN d
  BY <1>2 DEF Sent
<1>12. Sent(d, more, ended, u)
  BY <1>7, <1>8, <1>9, <1>10, <1>11 DEF Sent
<1> QED  BY <1>12 DEF d, b, more, t, u, n

(* One more fragment of the arguments of a call whose block has not ended.  *)
LEMMA CallGrownSent ==
  ASSUME NEW c, NEW textAt, NEW tools, Contents(c, textAt, tools), NEW k \in DOMAIN tools,
         NEW ended, NEW out, Told(out), Sent(c, tools, ended, out), tools[k].at \notin ended,
         NEW x \in Seq(Letters), NEW e, e.delta = x, e.type = "toolcall_delta", e.at = tools[k].at
  PROVE  Sent(c, [tools EXCEPT ![k].frags = @ \o x], ended, Append(out, e))
<1> DEFINE more == [tools EXCEPT ![k].frags = @ \o x]
           at == tools[k].at
           u == Append(out, e)
<1>1. /\ DOMAIN more = DOMAIN tools
      /\ \A l \in DOMAIN tools :
            /\ more[l].at = tools[l].at
            /\ more[l].frags = IF l = k THEN tools[k].frags \o x ELSE tools[l].frags
  BY CallGrown
<1>2. CallsKept(c, tools)
  BY DEF Contents
<1>3. \A i : /\ FragmentsOf(u, i, "text_delta") = FragmentsOf(out, i, "text_delta")
             /\ i # at => FragmentsOf(u, i, "toolcall_delta") = FragmentsOf(out, i, "toolcall_delta")
  BY FragmentsAfter
<1>4. FragmentsOf(u, at, "toolcall_delta") = FragmentsOf(out, at, "toolcall_delta") \o x
  <2>1. FragmentsOf(Append(out, e), e.at, e.type) = FragmentsOf(out, e.at, e.type) \o x
    BY FragmentsGrown
  <2> QED  BY <2>1
<1> HIDE DEF more, u
<1>5. CallsSent(more, u)
  <2> SUFFICES ASSUME NEW l \in DOMAIN more
               PROVE  more[l].frags = FragmentsOf(u, more[l].at, "toolcall_delta")
    BY DEF CallsSent
  <2>1. tools[l].frags = FragmentsOf(out, tools[l].at, "toolcall_delta") /\ l \in DOMAIN tools
    BY <1>1 DEF Sent, CallsSent
  <2>2. CASE l = k
    BY <2>1, <2>2, <1>1, <1>4
  <2>3. CASE l # k
    <3>1. tools[l].at # at
      BY <1>2, <2>1, <2>3 DEF CallsKept
    <3> QED  BY <2>1, <2>3, <3>1, <1>1, <1>3
  <2> QED  BY <2>2, <2>3
<1>6. NothingBeyond(c, u)
  <2>1. c \in Seq(Blocks) /\ at \in DOMAIN c
    BY <1>2 DEF Contents, CallsKept
  <2>2. \A i \in Nat : i > Len(c) => i # at
    BY <2>1
  <2> QED  BY <2>2, <1>3 DEF Sent, NothingBeyond
<1>7. TextsSent(c, u) /\ EndedSent(c, ended, u)
  BY <1>3 DEF Sent, TextsSent, EndedSent
<1>8. Sent(c, more, ended, u)
  BY <1>5, <1>6, <1>7 DEF Sent
<1> QED  BY <1>8 DEF more, u

(* The end of a block.                                                      *)
LEMMA TextEndedSent ==
  ASSUME NEW c, NEW tools, NEW ended, NEW out, Sent(c, tools, ended, out),
         NEW i \in DOMAIN c, c[i].kind = "text"
  PROVE  Sent(c, tools, ended \union {i}, out)
  BY DEF Sent, EndedSent

LEMMA CallEndedSent ==
  ASSUME NEW c \in Seq(Blocks), NEW tools, NEW ended, NEW out, Sent(c, tools, ended, out),
         NEW i \in DOMAIN c, c[i].kind = "toolCall", NEW x \in Seq(Letters),
         x = FragmentsOf(out, i, "toolcall_delta"), IsObject(x)
  PROVE  Sent([c EXCEPT ![i].args = x], tools, ended \union {i}, out)
<1> DEFINE d == [c EXCEPT ![i].args = x]
<1>1. Alters(c, d, i) /\ d[i].args = x
  BY ArgsAltered
<1> HIDE DEF d
<1>2. \A j \in DOMAIN c : d[j].kind = c[j].kind /\ (j # i => d[j] = c[j])
  BY <1>1 DEF Alters
<1>3. TextsSent(d, out) /\ NothingBeyond(d, out) /\ ended \union {i} \subseteq DOMAIN d
  BY <1>1, <1>2 DEF Sent, TextsSent, Alters, NothingBeyond
<1>4. EndedSent(d, ended \union {i}, out)
  <2> SUFFICES ASSUME NEW j \in ended \union {i}, d[j].kind = "toolCall"
               PROVE  d[j].args = FragmentsOf(out, j, "toolcall_delta") /\ IsObject(d[j].args)
    BY DEF EndedSent
  <2>1. CASE j = i
    BY <2>1, <1>1
  <2>2. CASE j # i
    <3>1. j \in ended /\ d[j] = c[j]
      BY <2>2, <1>2 DEF Sent
    <3> QED  BY <3>1 DEF Sent, EndedSent
  <2> QED  BY <2>1, <2>2
<1>5. Sent(d, tools, ended \union {i}, out)
  BY <1>3, <1>4 DEF Sent
<1> QED  BY <1>5 DEF d

-----------------------------------------------------------------------------
(* An event is yielded, or the frame stays as it is and is not intact.      *)
Unmoved(o, y) ==
    /\ FrameFields \subseteq DOMAIN y
    /\ y.content = o.content /\ y.textAt = o.textAt /\ y.tools = o.tools
    /\ y.finish = o.finish /\ y.usage = o.usage /\ y.broken = o.broken

LEMMA YieldCases ==
  ASSUME NEW o, FrameFields \subseteq DOMAIN o, NEW e
  PROVE  /\ Unmoved(o, Yield(o, e))
         /\ \/ /\ Intact(o) /\ Accepts(o.v, e)
               /\ Yield(o, e).refused = o.refused
               /\ Yield(o, e).out = Append(o.out, e) /\ Yield(o, e).v = Accept(o.v, e)
            \/ /\ ~Intact(Yield(o, e)) /\ Yield(o, e).out = o.out
               /\ Yield(o, e).refused = o.refused \/ Yield(o, e).refused = TRUE
<1> DEFINE p == [o EXCEPT !.v = Accept(@, e), !.latest = e.content, !.out = Append(@, e)]
           r == [o EXCEPT !.refused = TRUE]
<1>1. Unmoved(o, p) /\ p.refused = o.refused /\ p.out = Append(o.out, e) /\ p.v = Accept(o.v, e)
  BY DEF Unmoved, FrameFields
<1>2. Unmoved(o, r) /\ r.refused = TRUE /\ r.out = o.out
  BY DEF Unmoved, FrameFields
<1>3. Unmoved(o, o)
  BY DEF Unmoved
<1>4. Yield(o, e) = IF o.broken \/ o.refused THEN o ELSE IF Accepts(o.v, e) THEN p ELSE r
  BY DEF Yield
<1> HIDE DEF p, r
<1> QED  BY <1>1, <1>2, <1>3, <1>4 DEF Intact

(* What is yielded keeps the frame consistent.                              *)
LEMMA YieldConsistent ==
  ASSUME NEW o, Consistent(o), NEW e, e.delta \in Seq(Letters), e.type # "done"
  PROVE  Consistent(Yield(o, e))
<1> DEFINE y == Yield(o, e)
<1>1. Unmoved(o, y)
  BY YieldCases DEF Consistent
<1>2. Told(y.out) /\ Unfinished(y.out) /\ y.refused \in BOOLEAN
  <2>1. CASE y.out = o.out /\ (y.refused = o.refused \/ y.refused = TRUE)
    BY <2>1 DEF Consistent
  <2>2. CASE y.out = Append(o.out, e) /\ y.refused = o.refused
    <3>1. Told(Append(o.out, e)) /\ Unfinished(Append(o.out, e))
      BY ToldAppend DEF Consistent
    <3> QED  BY <2>2, <3>1 DEF Consistent
  <2> QED  BY <2>1, <2>2, YieldCases DEF Consistent
<1> HIDE DEF y
<1>3. Consistent(y)
  BY <1>1, <1>2 DEF Consistent, Unmoved
<1> QED  BY <1>3 DEF y

(* What the validator remembers of an event.                                *)
LEMMA AcceptFields ==
  ASSUME NEW v, NEW e
  PROVE  /\ Accept(v, e).content = e.content
         /\ e.type \in Terminal => Accept(v, e).over
         /\ e.type \in Closing => Accept(v, e).ended = v.ended \union {e.at}
         /\ e.type \notin Closing => Accept(v, e).ended = v.ended
  BY DEF Accept

(* The fields of an event.                                                  *)
LEMMA EventFields ==
  ASSUME NEW type, NEW at, NEW delta, NEW content
  PROVE  /\ Event(type, at, delta, content).type = type
         /\ Event(type, at, delta, content).at = at
         /\ Event(type, at, delta, content).delta = delta
         /\ Event(type, at, delta, content).content = content
  BY DEF Event

(* A frame that has broken is as sound as before.                           *)
LEMMA BrokenSound ==
  ASSUME NEW o, Consistent(o)
  PROVE  Sound([o EXCEPT !.broken = TRUE])
<1> DEFINE b == [o EXCEPT !.broken = TRUE]
<1>1. /\ DOMAIN b = DOMAIN o /\ b.broken = TRUE /\ b.content = o.content /\ b.textAt = o.textAt
      /\ b.tools = o.tools /\ b.out = o.out /\ b.refused = o.refused
  BY DEF Consistent, FrameFields
<1> HIDE DEF b
<1>2. Sound(b)
  BY <1>1 DEF Sound, Consistent, Faithful, Intact
<1> QED  BY <1>2 DEF b

(* A frame whose content has changed.                                       *)
LEMMA SetContentFields ==
  ASSUME NEW o, FrameFields \subseteq DOMAIN o, NEW content
  PROVE  LET y == SetContent(o, content)
         IN  /\ FrameFields \subseteq DOMAIN y
             /\ y.content = content /\ y.textAt = o.textAt /\ y.tools = o.tools
             /\ y.finish = o.finish /\ y.usage = o.usage /\ y.broken = o.broken
             /\ y.refused = o.refused /\ y.out = o.out /\ y.v = o.v
  BY DEF SetContent, FrameFields

-----------------------------------------------------------------------------
(* Text of a payload: its block is opened, and it grows.                    *)
TextOpening(o) ==
    LET at == Len(o.content) + 1
        c == Append(o.content, TextBlock(<<>>))
    IN  [Yield(o, Event("text_start", at, <<>>, c)) EXCEPT !.textAt = at, !.content = c,
                                                           !.latest = c]

(* The first text of a block, and more of it.                               *)
LEMMA TextOpeningSound ==
  ASSUME NEW o, Sound(o)
  PROVE  Sound(TextOpening(o)) /\ TextOpening(o).textAt = Len(o.content) + 1
<1> DEFINE at == Len(o.content) + 1
           c == Append(o.content, TextBlock(<<>>))
           e == Event("text_start", at, <<>>, c)
           y == Yield(o, e)
           z == [y EXCEPT !.textAt = at, !.content = c, !.latest = c]
<1>1. e.type = "text_start" /\ e.delta = <<>> /\ e.content = c
  <2> HIDE DEF at, c
  <2> QED  BY EventFields
<1>2. e.delta \in Seq(Letters) /\ e.type # "done" /\ e.type \notin Deltas /\ e.type \notin Closing
  BY <1>1, NoFragments DEF Deltas, Closing
<1>3. Contents(c, at, o.tools) /\ o.content \in Seq(Blocks) /\ Told(o.out)
  BY TextOpened DEF Sound, Consistent, Contents
<1>4. Sent(o.content, o.tools, o.v.ended, o.out) => Sent(c, o.tools, o.v.ended, Append(o.out, e))
  <2>1. ASSUME Sent(o.content, o.tools, o.v.ended, o.out)
        PROVE  Sent(o.content, o.tools, o.v.ended, Append(o.out, e))
    BY <1>2, <1>3, <2>1, SilentSent
  <2> QED  BY <1>3, <2>1, TextOpenedSent
<1> HIDE DEF at, c, e
<1>5. Consistent(y)
  BY <1>2, YieldConsistent DEF Sound
<1>6. /\ Unmoved(o, y)
      /\ \/ Intact(o) /\ y.out = Append(o.out, e) /\ y.v = Accept(o.v, e)
         \/ ~Intact(y)
  BY YieldCases DEF Sound, Consistent
<1> HIDE DEF y
<1>7. /\ FrameFields \subseteq DOMAIN z /\ z.content = c /\ z.textAt = at /\ z.tools = y.tools
      /\ z.broken = y.broken /\ z.refused = y.refused /\ z.out = y.out /\ z.v = y.v
  BY <1>5 DEF Consistent, FrameFields
<1> HIDE DEF z
<1>8. Consistent(z)
  BY <1>3, <1>5, <1>6, <1>7 DEF Consistent, Unmoved
<1>9. Faithful(z)
  <2> SUFFICES ASSUME Intact(z)
               PROVE z.v.content = z.content /\ Sent(z.content, z.tools, z.v.ended, z.out)
    BY DEF Faithful
  <2>1. Intact(o) /\ y.out = Append(o.out, e) /\ y.v = Accept(o.v, e)
    BY <1>6, <1>7 DEF Intact
  <2>2. Sent(o.content, o.tools, o.v.ended, o.out)
    BY <2>1 DEF Sound, Faithful
  <2>3. y.v.content = c /\ y.v.ended = o.v.ended
    BY <1>1, <1>2, <2>1, AcceptFields
  <2> QED  BY <1>4, <1>6, <1>7, <2>1, <2>2, <2>3 DEF Unmoved
<1>10. TextOpening(o) = z
  BY DEF TextOpening, z, y, e, c, at
<1> QED  BY <1>7, <1>8, <1>9, <1>10 DEF Sound, at

TextGrowing(o, x) ==
    LET grown == [o.content EXCEPT ![o.textAt].text = @ \o x]
    IN  Yield(SetContent(o, grown), Event("text_delta", o.textAt, x, grown))

LEMMA TextGrowingSound ==
  ASSUME NEW o, Sound(o), o.textAt # 0, NEW x \in Seq(Letters)
  PROVE  Sound(TextGrowing(o, x))
<1> DEFINE at == o.textAt
           c == [o.content EXCEPT ![at].text = @ \o x]
           e == Event("text_delta", at, x, c)
           s == SetContent(o, c)
           y == Yield(s, e)
<1>1. e.type = "text_delta" /\ e.at = at /\ e.delta = x /\ e.content = c
  BY EventFields
<1>2. e.type # "done" /\ e.type \notin Closing
  BY <1>1 DEF Closing
<1>3. Contents(o.content, at, o.tools) /\ o.content \in Seq(Blocks) /\ Told(o.out)
  BY DEF Sound, Consistent, Contents
<1>4. Contents(c, at, o.tools)
  <2>1. at \in DOMAIN o.content /\ o.content[at].kind = "text"
    BY <1>3 DEF Contents
  <2>2. Alters(o.content, c, at)
    BY <1>3, <2>1, TextAltered
  <2> HIDE DEF c
  <2> QED  BY <1>3, <2>2, AlteredContents
<1>5. Sent(o.content, o.tools, o.v.ended, o.out) => Sent(c, o.tools, o.v.ended, Append(o.out, e))
  <2> HIDE DEF e
  <2> QED  BY <1>1, <1>3, TextGrownSent
<1> HIDE DEF c, e
<1>6. /\ FrameFields \subseteq DOMAIN s /\ s.content = c /\ s.textAt = at /\ s.tools = o.tools
      /\ s.broken = o.broken /\ s.refused = o.refused /\ s.out = o.out /\ s.v = o.v
  BY SetContentFields DEF Sound, Consistent
<1> HIDE DEF s
<1>7. Consistent(s)
  BY <1>4, <1>6 DEF Sound, Consistent
<1>8. Consistent(y)
  BY <1>1, <1>2, <1>7, YieldConsistent
<1>9. /\ Unmoved(s, y)
      /\ \/ Intact(s) /\ y.out = Append(s.out, e) /\ y.v = Accept(s.v, e)
         \/ ~Intact(y)
  BY <1>6, YieldCases
<1> HIDE DEF y
<1>10. Faithful(y)
  <2> SUFFICES ASSUME Intact(y)
               PROVE y.v.content = y.content /\ Sent(y.content, y.tools, y.v.ended, y.out)
    BY DEF Faithful
  <2>1. Intact(o) /\ y.out = Append(o.out, e) /\ y.v = Accept(o.v, e)
    BY <1>6, <1>9 DEF Intact
  <2>2. Sent(o.content, o.tools, o.v.ended, o.out)
    BY <2>1 DEF Sound, Faithful
  <2>3. y.v.content = c /\ y.v.ended = o.v.ended
    BY <1>1, <1>2, <2>1, AcceptFields
  <2> QED  BY <1>5, <1>6, <1>9, <2>1, <2>2, <2>3 DEF Unmoved
<1> QED  BY <1>8, <1>10 DEF Sound, TextGrowing, y, s, e, c

(* The text of a payload.                                                   *)
LEMMA TextPartSound ==
  ASSUME NEW o, Sound(o), NEW p, p.text \in Seq(Letters)
  PROVE  Sound(TextPart(o, p))
<1> DEFINE opened == IF o.textAt # 0 THEN o ELSE TextOpening(o)
<1>1. Sound(opened) /\ opened.textAt # 0 /\ o.textAt \in Nat
  <2>1. Len(o.content) \in Nat /\ o.textAt \in Nat
    BY DEF Sound, Consistent, Contents
  <2>2. Len(o.content) + 1 # 0
    BY <2>1
  <2> QED  BY <2>1, <2>2, TextOpeningSound
<1>2. opened.textAt = IF o.textAt = 0 THEN Len(o.content) + 1 ELSE o.textAt
  BY TextOpeningSound
<1>3. TextPart(o, p) = IF p.text = <<>> THEN o
                       ELSE IF Garbled(p.text) THEN [opened EXCEPT !.broken = TRUE]
                       ELSE TextGrowing(opened, p.text)
  <2>1. CASE o.textAt = 0
    BY <1>2, <2>1 DEF TextPart, TextGrowing, TextOpening
  <2>2. CASE o.textAt # 0
    BY <2>2 DEF TextPart, TextGrowing
  <2> QED  BY <2>1, <2>2
<1> HIDE DEF opened
<1>4. Sound([opened EXCEPT !.broken = TRUE])
  BY <1>1, BrokenSound DEF Sound
<1>5. Sound(TextGrowing(opened, p.text))
  BY <1>1, TextGrowingSound
<1> QED  BY <1>3, <1>4, <1>5

-----------------------------------------------------------------------------
(* A fragment of a call's arguments, for a frame whose calls it made        *)
(* `tools' and whose block of that call it may have opened or named.        *)
CallGrowing(y, tools, at, k, x) ==
    LET grown == [y.content EXCEPT ![at].args = ArgumentsAfter(tools[k].frags, @)]
        ready == SetContent([y EXCEPT !.tools = tools], grown)
    IN  IF Garbled(x) THEN [ready EXCEPT !.broken = TRUE]
        ELSE Yield(ready, Event("toolcall_delta", at, x, grown))

Delta(at, x, content) == Event("toolcall_delta", at, x, content)

(* What such a frame is, and what it has sent with that fragment.           *)
Growing(y, tools, at, x) ==
    /\ FrameFields \subseteq DOMAIN y
    /\ Contents(y.content, y.textAt, tools)
    /\ at \in DOMAIN y.content /\ y.content[at].kind = "toolCall"
    /\ Told(y.out) /\ Unfinished(y.out)
    /\ y.broken \in BOOLEAN /\ y.refused \in BOOLEAN
    /\ Intact(y) /\ at \notin y.v.ended =>
          \A content : Sent(y.content, tools, y.v.ended, Append(y.out, Delta(at, x, content)))

LEMMA CallGrowingSound ==
  ASSUME NEW y, NEW tools, NEW at, NEW x \in Seq(Letters), Growing(y, tools, at, x),
         NEW k \in DOMAIN tools
  PROVE  Sound(CallGrowing(y, tools, at, k, x))
<1> DEFINE frags == tools[k].frags
           grown == [y.content EXCEPT ![at].args = ArgumentsAfter(frags, @)]
           told == [y EXCEPT !.tools = tools]
           ready == SetContent(told, grown)
           e == Delta(at, x, grown)
           z == Yield(ready, e)
<1>1. y.content \in Seq(Blocks) /\ tools \in Seq(ToolCalls)
  BY DEF Growing, Contents
<1>2. frags \in Seq(Letters)
  <2>1. tools[k] \in ToolCalls
    BY <1>1
  <2> QED  BY <2>1 DEF ToolCalls
<1> HIDE DEF frags
<1>3. Alters(y.content, grown, at)
  BY <1>1, <1>2, ArgsRead DEF Growing
<1>4. e.type = "toolcall_delta" /\ e.at = at /\ e.delta = x /\ e.content = grown
  <2> HIDE DEF grown
  <2> QED  BY EventFields DEF Delta
<1>5. ASSUME Intact(y), at \notin y.v.ended
      PROVE  Sent(grown, tools, y.v.ended, Append(y.out, e))
  <2>1. Sent(y.content, tools, y.v.ended, Append(y.out, e))
    BY <1>5 DEF Growing
  <2> HIDE DEF grown, e
  <2> QED  BY <1>3, <1>5, <2>1, AlteredSent DEF Growing
<1> HIDE DEF grown, e
<1>6. Contents(grown, y.textAt, tools)
  BY <1>3, AlteredContents DEF Growing
<1>7. /\ FrameFields \subseteq DOMAIN told /\ told.textAt = y.textAt /\ told.tools = tools
      /\ told.broken = y.broken /\ told.refused = y.refused /\ told.out = y.out /\ told.v = y.v
  BY DEF Growing, FrameFields
<1> HIDE DEF told
<1>8. /\ FrameFields \subseteq DOMAIN ready /\ ready.content = grown /\ ready.textAt = y.textAt
      /\ ready.tools = tools /\ ready.broken = y.broken /\ ready.refused = y.refused
      /\ ready.out = y.out /\ ready.v = y.v
  BY <1>7, SetContentFields
<1> HIDE DEF ready
<1>9. Consistent(ready)
  BY <1>6, <1>8 DEF Consistent, Growing
<1>10. Consistent(z)
  <2>1. e.type # "done"
    BY <1>4
  <2> QED  BY <1>4, <1>9, <2>1, YieldConsistent
<1>11. /\ Unmoved(ready, z)
       /\ \/ /\ Intact(ready) /\ Accepts(ready.v, e)
             /\ z.out = Append(ready.out, e) /\ z.v = Accept(ready.v, e)
          \/ ~Intact(z)
  BY <1>8, YieldCases
<1> HIDE DEF z
<1>12. Faithful(z)
  <2> SUFFICES ASSUME Intact(z)
               PROVE z.v.content = z.content /\ Sent(z.content, z.tools, z.v.ended, z.out)
    BY DEF Faithful
  <2>1. Intact(y) /\ Accepts(y.v, e) /\ z.out = Append(y.out, e) /\ z.v = Accept(y.v, e)
    BY <1>8, <1>11 DEF Intact
  <2>2. AcceptsWithin(y.v, e)
    BY <1>4, <2>1 DEF Accepts, Terminal, Opening
  <2>3. at \notin y.v.ended
    BY <1>4, <2>2 DEF AcceptsWithin
  <2>4. e.type \notin Closing
    BY <1>4 DEF Closing
  <2>5. z.v.content = grown /\ z.v.ended = y.v.ended
    BY <1>4, <2>1, <2>4, AcceptFields
  <2> QED  BY <1>5, <1>8, <1>11, <2>1, <2>3, <2>5 DEF Unmoved
<1>13. Sound([ready EXCEPT !.broken = TRUE])
  BY <1>9, BrokenSound
<1>14. CallGrowing(y, tools, at, k, x) = IF Garbled(x) THEN [ready EXCEPT !.broken = TRUE] ELSE z
  BY DEF CallGrowing, z, e, Delta, ready, told, grown, frags
<1> QED  BY <1>10, <1>12, <1>13, <1>14 DEF Sound

(* A call whose first fragment this is.                                     *)
CallOpening(o, names) ==
    LET c == Append(o.content, ToolBlock(names, <<>>))
    IN  Yield(SetContent(o, c), Event("toolcall_start", Len(o.content) + 1, <<>>, c))

(* A new call.                                                              *)
LEMMA CallOpeningGrows ==
  ASSUME NEW o, Sound(o), NEW names \in Nat, NEW x \in Seq(Letters)
  PROVE  Growing(CallOpening(o, names),
                 Append(o.tools, [at |-> Len(o.content) + 1, frags |-> x]), Len(o.content) + 1, x)
<1> DEFINE at == Len(o.content) + 1
           c == Append(o.content, ToolBlock(names, <<>>))
           tools == Append(o.tools, [at |-> Len(o.content) + 1, frags |-> x])
           e == Event("toolcall_start", at, <<>>, c)
           s == SetContent(o, c)
           y == Yield(s, e)
<1>1. e.type = "toolcall_start" /\ e.delta = <<>> /\ e.content = c
  <2> HIDE DEF at, c
  <2> QED  BY EventFields
<1>2. e.delta \in Seq(Letters) /\ e.type # "done" /\ e.type \notin Deltas /\ e.type \notin Closing
  BY <1>1, NoFragments DEF Deltas, Closing
<1>3. /\ Contents(o.content, o.textAt, o.tools) /\ o.content \in Seq(Blocks)
      /\ o.tools \in Seq(ToolCalls) /\ CallsKept(o.content, o.tools) /\ Told(o.out)
  BY DEF Sound, Consistent, Contents
<1>4. Contents(c, o.textAt, tools)
  BY <1>3, CallOpened
<1>5. at \in DOMAIN c /\ c[at].kind = "toolCall"
  <2>1. ToolBlock(names, <<>>) \in Blocks /\ ToolBlock(names, <<>>).kind = "toolCall"
    BY NoFragments, NewBlocks
  <2>2. /\ DOMAIN c = 1..Len(o.content) + 1 /\ Len(o.content) \in Nat
        /\ c[Len(o.content) + 1] = ToolBlock(names, <<>>)
    BY <1>3, <2>1, AppendBlock
  <2> HIDE DEF c
  <2> QED  BY <2>1, <2>2
<1>6. ASSUME Sent(o.content, o.tools, o.v.ended, o.out), NEW content
      PROVE  Sent(c, tools, o.v.ended, Append(Append(o.out, e), Delta(at, x, content)))
  <2> DEFINE d == Delta(at, x, content)
  <2>1. d.delta = x /\ d.type = "toolcall_delta" /\ d.at = at
    BY EventFields DEF Delta
  <2> HIDE DEF e, d
  <2>2. Sent(o.content, o.tools, o.v.ended, Append(o.out, e)) /\ Told(Append(o.out, e))
    BY <1>2, <1>3, <1>6, SilentSent, ToldAppend
  <2>3. Sent(c, tools, o.v.ended, Append(Append(o.out, e), d))
    BY <1>3, <2>1, <2>2, CallOpenedSent
  <2> QED  BY <2>3 DEF d
<1> HIDE DEF c, e, tools, at
<1>7. /\ FrameFields \subseteq DOMAIN s /\ s.content = c /\ s.textAt = o.textAt /\ s.tools = o.tools
      /\ s.broken = o.broken /\ s.refused = o.refused /\ s.out = o.out /\ s.v = o.v
  BY SetContentFields DEF Sound, Consistent
<1> HIDE DEF s
<1>8. /\ Unmoved(s, y)
      /\ \/ /\ Intact(s) /\ y.out = Append(s.out, e) /\ y.v = Accept(s.v, e)
            /\ y.refused = s.refused
         \/ /\ ~Intact(y) /\ y.out = s.out
            /\ y.refused = s.refused \/ y.refused = TRUE
  BY <1>7, YieldCases
<1> HIDE DEF y
<1>9. Told(y.out) /\ Unfinished(y.out)
  BY <1>2, <1>7, <1>8, ToldAppend DEF Sound, Consistent
<1>10. y.broken \in BOOLEAN /\ y.refused \in BOOLEAN
  BY <1>7, <1>8 DEF Unmoved, Sound, Consistent
<1>11. ASSUME Intact(y), NEW content
       PROVE  Sent(y.content, tools, y.v.ended, Append(y.out, Delta(at, x, content)))
  <2>1. Intact(o) /\ y.out = Append(o.out, e) /\ y.v = Accept(o.v, e)
    BY <1>7, <1>8, <1>11 DEF Intact
  <2>2. Sent(o.content, o.tools, o.v.ended, o.out)
    BY <2>1 DEF Sound, Faithful
  <2>3. y.v.ended = o.v.ended
    BY <1>2, <2>1, AcceptFields
  <2>4. y.content = c
    BY <1>7, <1>8 DEF Unmoved
  <2> QED  BY <1>6, <2>1, <2>2, <2>3, <2>4
<1>12. Growing(y, tools, at, x)
  BY <1>4, <1>5, <1>7, <1>8, <1>9, <1>10, <1>11 DEF Growing, Unmoved
<1> QED  BY <1>12 DEF CallOpening, y, s, e, c, at, tools

(* A call that came before.                                                 *)
LEMMA CallNamedGrows ==
  ASSUME NEW o, Sound(o), NEW names \in Nat, NEW x \in Seq(Letters), NEW k \in DOMAIN o.tools
  PROVE  Growing([o EXCEPT !.content[o.tools[k].at].names = @ + names],
                 [o.tools EXCEPT ![k].frags = @ \o x], o.tools[k].at, x)
<1> DEFINE at == o.tools[k].at
           c == [o.content EXCEPT ![at].names = @ + names]
           tools == [o.tools EXCEPT ![k].frags = @ \o x]
           y == [o EXCEPT !.content[at].names = @ + names]
<1>1. /\ FrameFields \subseteq DOMAIN y /\ y.content = c /\ y.textAt = o.textAt
      /\ y.broken = o.broken /\ y.refused = o.refused /\ y.out = o.out /\ y.v = o.v
  BY DEF Sound, Consistent, FrameFields
<1> HIDE DEF y
<1>2. Contents(o.content, o.textAt, o.tools) /\ o.content \in Seq(Blocks) /\ Told(o.out)
  BY DEF Sound, Consistent, Contents
<1>3. at \in DOMAIN o.content /\ o.content[at].kind = "toolCall"
  BY <1>2 DEF Contents, CallsKept
<1>4. Alters(o.content, c, at)
  BY <1>2, <1>3, NamesAltered
<1> HIDE DEF c
<1>5. Contents(c, o.textAt, o.tools)
  BY <1>2, <1>4, AlteredContents
<1>6. Contents(c, o.textAt, tools)
  BY <1>5, CallGrown
<1>7. ASSUME Sent(o.content, o.tools, o.v.ended, o.out), at \notin o.v.ended, NEW content
      PROVE  Sent(c, tools, o.v.ended, Append(o.out, Delta(at, x, content)))
  <2> DEFINE d == Delta(at, x, content)
  <2>1. d.delta = x /\ d.type = "toolcall_delta" /\ d.at = at
    BY EventFields DEF Delta
  <2> HIDE DEF d
  <2>2. Sent(c, o.tools, o.v.ended, o.out)
    BY <1>3, <1>4, <1>7, AlteredSent
  <2>3. Sent(c, tools, o.v.ended, Append(o.out, d))
    BY <1>2, <1>5, <1>7, <2>1, <2>2, CallGrownSent
  <2> QED  BY <2>3 DEF d
<1>8. at \in DOMAIN c /\ c[at].kind = "toolCall"
  BY <1>3, <1>4 DEF Alters
<1> HIDE DEF tools, at
<1>9. Growing(y, tools, at, x)
  BY <1>1, <1>6, <1>7, <1>8 DEF Growing, Sound, Consistent, Faithful, Intact
<1> QED  BY <1>9 DEF y, tools, at

(* The tool call of a payload.                                              *)
LEMMA ToolPartSound ==
  ASSUME NEW o, Sound(o), NEW p, p.tool \in Nat, p.names \in Nat, p.frag \in Seq(Letters),
         p.tool <= Len(o.tools) + 1
  PROVE  Sound(ToolPart(o, p))
<1> DEFINE t == [at |-> Len(o.content) + 1, frags |-> p.frag]
           more == Append(o.tools, t)
           k == p.tool
<1>1. o.tools \in Seq(ToolCalls) /\ o.content \in Seq(Blocks)
  BY DEF Sound, Consistent, Contents
<1>2. CASE k = 0 \/ o.broken
  BY <1>2 DEF ToolPart
<1>3. CASE k \in DOMAIN o.tools /\ ~(k = 0 \/ o.broken)
  <2> DEFINE tools == [o.tools EXCEPT ![k].frags = @ \o p.frag]
             at == o.tools[k].at
             y == [o EXCEPT !.content[at].names = @ + p.names]
  <2>1. Contents(o.content, o.textAt, o.tools)
    BY DEF Sound, Consistent
  <2>2. tools[k].at = at /\ DOMAIN tools = DOMAIN o.tools
    <3>1. o.tools[k] \in ToolCalls
      BY <1>1, <1>3
    <3> QED  BY <1>3, <3>1 DEF ToolCalls
  <2>3. Growing(y, tools, at, p.frag)
    BY <1>3, CallNamedGrows
  <2>4. ToolPart(o, p) = CallGrowing(y, tools, at, k, p.frag)
    <3>1. Tools(o, p) = tools
      BY <1>3 DEF Tools
    <3> HIDE DEF tools, at
    <3>2. ToolPart(o, p) =
            LET opened == [o EXCEPT !.content[tools[k].at].names = @ + p.names]
            IN  CallGrowing(opened, tools, tools[k].at, k, p.frag)
      BY <1>3, <3>1 DEF ToolPart, CallGrowing
    <3> QED  BY Zenon, <2>2, <3>2
  <2> HIDE DEF y, tools, at
  <2> QED  BY <1>3, <2>2, <2>3, <2>4, CallGrowingSound
<1>4. CASE k \notin DOMAIN o.tools /\ ~(k = 0 \/ o.broken)
  <2> DEFINE y == CallOpening(o, p.names)
             at == Len(o.content) + 1
  <2>1. k = Len(o.tools) + 1 /\ Len(o.tools) \in Nat /\ Len(o.content) \in Nat
    BY <1>1, <1>4
  <2>2. t \in ToolCalls /\ t.at = at /\ at \in Nat
    BY <2>1 DEF ToolCalls
  <2>3. more[k] = t /\ k \in DOMAIN more
    <3> HIDE DEF t
    <3> QED  BY <1>1, <2>1, <2>2
  <2>4. Growing(y, more, at, p.frag)
    BY CallOpeningGrows
  <2>5. ToolPart(o, p) = CallGrowing(y, more, at, k, p.frag)
    <3>1. Tools(o, p) = more
      BY <1>4 DEF Tools
    <3>2. more[k].at = at
      BY <2>2, <2>3
    <3> HIDE DEF more, at
    <3> QED  BY <1>4, <3>1, <3>2 DEF ToolPart, CallGrowing, CallOpening, at
  <2> HIDE DEF y, more, at
  <2> QED  BY <2>3, <2>4, <2>5, CallGrowingSound
<1> QED  BY <1>2, <1>3, <1>4

-----------------------------------------------------------------------------
(* A payload.                                                               *)
LEMMA TextPartTools ==
  ASSUME NEW o, FrameFields \subseteq DOMAIN o, NEW p
  PROVE  TextPart(o, p).tools = o.tools
<1> DEFINE at == IF o.textAt = 0 THEN Len(o.content) + 1 ELSE o.textAt
           c == Append(o.content, TextBlock(<<>>))
           start == Yield(o, Event("text_start", at, <<>>, c))
           opened == IF o.textAt # 0 THEN o
                     ELSE [start EXCEPT !.textAt = at, !.content = c, !.latest = c]
           grown == [opened.content EXCEPT ![at].text = @ \o p.text]
           mid == SetContent(opened, grown)
           last == Yield(mid, Event("text_delta", at, p.text, grown))
           dead == [opened EXCEPT !.broken = TRUE]
<1>1. FrameFields \subseteq DOMAIN start /\ start.tools = o.tools
  BY YieldCases DEF Unmoved
<1>2. TextPart(o, p) = IF p.text = <<>> THEN o ELSE IF Garbled(p.text) THEN dead ELSE last
  BY DEF TextPart
<1> HIDE DEF start, at, c
<1>3. FrameFields \subseteq DOMAIN opened /\ opened.tools = o.tools
  BY <1>1 DEF FrameFields
<1> HIDE DEF opened
<1>4. dead.tools = o.tools
  BY <1>3 DEF FrameFields
<1> HIDE DEF grown
<1>5. FrameFields \subseteq DOMAIN mid /\ mid.tools = o.tools
  BY <1>3, SetContentFields
<1> HIDE DEF mid, dead
<1>6. last.tools = o.tools
  BY <1>5, YieldCases DEF Unmoved
<1> HIDE DEF last
<1> QED  BY <1>2, <1>4, <1>6

(* Fields that nothing above depends on.                                    *)
LEMMA OthersSound ==
  ASSUME NEW o, Sound(o), NEW y, FrameFields \subseteq DOMAIN y,
         y.content = o.content, y.textAt = o.textAt, y.tools = o.tools, y.out = o.out,
         y.broken = o.broken, y.refused = o.refused, y.v = o.v
  PROVE  Sound(y)
  BY DEF Sound, Consistent, Faithful, Intact

(* A payload.                                                               *)
LEMMA AfterPayloadSound ==
  ASSUME NEW o, Sound(o), NEW p \in Payloads, p.tool <= Len(o.tools) + 1
  PROVE  Sound(AfterPayload(o, p))
<1> DEFINE seen == [o EXCEPT !.fed = @ + 1, !.usage = @ \/ p.usage]
           text == TextPart(seen, p)
           tool == ToolPart(text, p)
           done == FinishPart(tool, p)
<1>1. /\ p.text \in Seq(Letters) /\ p.tool \in Nat /\ p.names \in Nat /\ p.frag \in Seq(Letters)
  BY ModelStreamAssumption DEF Letters
<1>2. /\ FrameFields \subseteq DOMAIN seen /\ seen.content = o.content /\ seen.textAt = o.textAt
      /\ seen.tools = o.tools /\ seen.out = o.out /\ seen.broken = o.broken
      /\ seen.refused = o.refused /\ seen.v = o.v
  BY DEF Sound, Consistent, FrameFields
<1>3. AfterPayload(o, p) \in {[seen EXCEPT !.broken = TRUE], [done EXCEPT !.broken = TRUE], done}
  BY DEF AfterPayload
<1> HIDE DEF seen
<1>4. Sound(seen)
  BY <1>2, OthersSound
<1>5. Sound(text) /\ text.tools = o.tools
  BY <1>1, <1>2, <1>4, TextPartSound, TextPartTools
<1> HIDE DEF text
<1>6. Sound(tool)
  BY <1>1, <1>5, ToolPartSound
<1> HIDE DEF tool
<1>7. Sound(done)
  <2> DEFINE f == [tool EXCEPT !.finish = p.finish]
  <2>1. /\ FrameFields \subseteq DOMAIN f /\ f.content = tool.content /\ f.textAt = tool.textAt
        /\ f.tools = tool.tools /\ f.out = tool.out /\ f.broken = tool.broken
        /\ f.refused = tool.refused /\ f.v = tool.v
    BY <1>6 DEF Sound, Consistent, FrameFields
  <2>2. done = tool \/ done = f
    BY DEF FinishPart
  <2> HIDE DEF f, done
  <2>3. Sound(f)
    BY <1>6, <2>1, OthersSound
  <2> QED  BY <1>6, <2>2, <2>3
<1> HIDE DEF done
<1>8. Sound([seen EXCEPT !.broken = TRUE]) /\ Sound([done EXCEPT !.broken = TRUE])
  BY <1>4, <1>7, BrokenSound DEF Sound
<1> QED  BY <1>3, <1>7, <1>8

-----------------------------------------------------------------------------
(* The end of a response.                                                   *)
LEMMA EndBlockSound ==
  ASSUME NEW o, Sound(o), NEW i \in DOMAIN o.content
  PROVE  Sound(EndBlock(o, i)) /\ DOMAIN EndBlock(o, i).content = DOMAIN o.content
<1>1. /\ Contents(o.content, o.textAt, o.tools) /\ o.content \in Seq(Blocks)
      /\ o.tools \in Seq(ToolCalls) /\ CallsKept(o.content, o.tools) /\ Told(o.out)
  BY DEF Sound, Consistent, Contents
<1>2. o.content[i] \in Blocks
  BY <1>1
<1>3. CASE o.content[i].kind = "text"
  <2> DEFINE e == Event("text_end", i, o.content[i].text, o.content)
             y == Yield(o, e)
  <2>1. e.type = "text_end" /\ e.at = i /\ e.delta \in Seq(Letters) /\ e.content = o.content
    BY <1>2, <1>3, BlockKinds, EventFields
  <2>2. EndBlock(o, i) = y
    BY <1>3 DEF EndBlock
  <2> HIDE DEF e
  <2>3. e.type # "done" /\ e.type \notin Deltas /\ e.type \in Closing
    BY <2>1 DEF Deltas, Closing
  <2>4. Consistent(y)
    BY <2>1, <2>3, YieldConsistent DEF Sound
  <2>5. /\ Unmoved(o, y)
        /\ \/ Intact(o) /\ y.out = Append(o.out, e) /\ y.v = Accept(o.v, e)
           \/ ~Intact(y)
    BY YieldCases DEF Sound, Consistent
  <2> HIDE DEF y
  <2>6. Faithful(y)
    <3> SUFFICES ASSUME Intact(y)
                 PROVE y.v.content = y.content /\ Sent(y.content, y.tools, y.v.ended, y.out)
      BY DEF Faithful
    <3>1. Intact(o) /\ y.out = Append(o.out, e) /\ y.v = Accept(o.v, e)
      BY <2>5
    <3>2. Sent(o.content, o.tools, o.v.ended, o.out)
      BY <3>1 DEF Sound, Faithful
    <3>3. Sent(o.content, o.tools, o.v.ended, Append(o.out, e))
      BY <1>1, <2>1, <2>3, <3>2, SilentSent
    <3>4. Sent(o.content, o.tools, o.v.ended \union {i}, Append(o.out, e))
      BY <1>3, <3>3, TextEndedSent
    <3>5. y.v.content = o.content /\ y.v.ended = o.v.ended \union {i}
      BY <2>1, <2>3, <3>1, AcceptFields
    <3> QED  BY <2>5, <3>1, <3>4, <3>5 DEF Unmoved
  <2> QED  BY <2>2, <2>4, <2>5, <2>6 DEF Sound, Unmoved
<1>4. CASE o.content[i].kind = "toolCall"
  <2> DEFINE t == CHOOSE t \in ToSet(o.tools) : t.at = i
             c == [o.content EXCEPT ![i].args = t.frags]
             e == Event("toolcall_end", i, <<>>, c)
             s == SetContent(o, c)
             y == Yield(s, e)
             dead == [o EXCEPT !.broken = TRUE]
  <2>1. EndBlock(o, i) = IF IsObject(t.frags) THEN y ELSE dead
    BY <1>4 DEF EndBlock
  <2>2. t \in ToSet(o.tools) /\ t.at = i
    <3>1. PICK k \in DOMAIN o.tools : o.tools[k].at = i
      BY <1>1, <1>4 DEF CallsKept
    <3>2. o.tools[k] \in ToSet(o.tools)
      BY <3>1 DEF ToSet
    <3> QED  BY <3>1, <3>2
  <2> HIDE DEF t
  <2>3. PICK k \in DOMAIN o.tools : o.tools[k] = t
    BY <2>2 DEF ToSet
  <2>4. t.frags \in Seq(Letters)
    <3>1. t \in ToolCalls
      BY <1>1, <2>3
    <3> QED  BY <3>1 DEF ToolCalls
  <2>5. Alters(o.content, c, i)
    BY <1>1, <1>4, <2>4, ArgsAltered
  <2>6. e.type = "toolcall_end" /\ e.at = i /\ e.delta = <<>> /\ e.content = c
    <3> HIDE DEF c
    <3> QED  BY EventFields
  <2>7. ASSUME Sent(o.content, o.tools, o.v.ended, o.out), IsObject(t.frags)
        PROVE  Sent(c, o.tools, o.v.ended \union {i}, o.out)
    <3>1. t.frags = FragmentsOf(o.out, i, "toolcall_delta")
      BY <2>2, <2>3, <2>7 DEF Sent, CallsSent
    <3> QED  BY <1>1, <1>4, <2>4, <2>7, <3>1, CallEndedSent
  <2> HIDE DEF c, e
  <2>8. e.delta \in Seq(Letters) /\ e.type # "done" /\ e.type \notin Deltas /\ e.type \in Closing
    BY <2>6, NoFragments DEF Deltas, Closing
  <2>9. Contents(c, o.textAt, o.tools) /\ DOMAIN c = DOMAIN o.content
    BY <1>1, <2>5, AlteredContents DEF Alters
  <2>10. /\ FrameFields \subseteq DOMAIN s /\ s.content = c /\ s.textAt = o.textAt /\ s.tools = o.tools
         /\ s.broken = o.broken /\ s.refused = o.refused /\ s.out = o.out /\ s.v = o.v
    BY SetContentFields DEF Sound, Consistent
  <2> HIDE DEF s
  <2>11. Consistent(s)
    BY <2>9, <2>10 DEF Sound, Consistent
  <2>12. Consistent(y)
    BY <2>8, <2>11, YieldConsistent
  <2>13. /\ Unmoved(s, y)
         /\ \/ Intact(s) /\ y.out = Append(s.out, e) /\ y.v = Accept(s.v, e)
            \/ ~Intact(y)
    BY <2>10, YieldCases
  <2> HIDE DEF y
  <2>14. ASSUME IsObject(t.frags) PROVE Faithful(y)
    <3> SUFFICES ASSUME Intact(y)
                 PROVE y.v.content = y.content /\ Sent(y.content, y.tools, y.v.ended, y.out)
      BY DEF Faithful
    <3>1. Intact(o) /\ y.out = Append(o.out, e) /\ y.v = Accept(o.v, e)
      BY <2>10, <2>13 DEF Intact
    <3>2. Sent(o.content, o.tools, o.v.ended, o.out)
      BY <3>1 DEF Sound, Faithful
    <3>3. Sent(c, o.tools, o.v.ended \union {i}, o.out)
      BY <2>7, <2>14, <3>2
    <3>4. Sent(c, o.tools, o.v.ended \union {i}, Append(o.out, e))
      BY <1>1, <2>8, <3>3, SilentSent
    <3>5. y.v.content = c /\ y.v.ended = o.v.ended \union {i}
      BY <2>6, <2>8, <3>1, AcceptFields
    <3> QED  BY <2>10, <2>13, <3>1, <3>4, <3>5 DEF Unmoved
  <2>15. Sound(dead) /\ dead.content = o.content
    BY BrokenSound DEF Sound, Consistent, FrameFields
  <2> HIDE DEF dead
  <2> QED  BY <2>1, <2>9, <2>10, <2>12, <2>13, <2>14, <2>15 DEF Sound, Unmoved
<1> QED  BY <1>2, <1>3, <1>4, BlockKinds

-----------------------------------------------------------------------------
(* The passes that end the blocks of a sound frame.                         *)
LEMMA PassesSound ==
  ASSUME NEW o, Sound(o), NEW n \in Nat, DOMAIN o.content = 1..n,
         NEW f, Passes(f, n, [faux |-> FALSE], o, Numbers(n))
  PROVE  Sound(f[1..n])
<1> DEFINE T == {k \in 0..n : ~(Sound(f[1..k]) /\ DOMAIN f[1..k].content = 1..n)}
           w == [faux |-> FALSE]
<1> SUFFICES ASSUME T # {} PROVE FALSE
  OBVIOUS
<1>1. T \in SUBSET Nat
  OBVIOUS
<1>2. PICK m \in T : \A k \in T : m <= k
  BY <1>1, LeastNumber
<1>3. m # 0
  <2>1. f[1..0] = o
    <3>1. f[{}] = o
      BY DEF Passes
    <3> QED  BY <3>1
  <2> QED  BY <1>2, <2>1
<1>4. m \in 1..n /\ m - 1 \in 0..n /\ m - 1 \notin T
  BY <1>2, <1>3
<1> DEFINE a == f[1..(m - 1)]
<1>5. Sound(a) /\ DOMAIN a.content = 1..n
  BY <1>4
<1>6. f[1..m] = Pass(w, a, m)
  <2>1. f[1..m] = Pass(w, f[1..(m - 1)], Numbers(n)[m])
    BY <1>4, PassesGoOn
  <2> QED  BY <1>4, <2>1 DEF Numbers
<1>7. Pass(w, a, m) = IF a.broken THEN a ELSE EndBlock(a, m)
  BY DEF Pass
<1> HIDE DEF a
<1>8. Sound(EndBlock(a, m)) /\ DOMAIN EndBlock(a, m).content = 1..n
  BY <1>4, <1>5, EndBlockSound
<1>9. Sound(f[1..m]) /\ DOMAIN f[1..m].content = 1..n
  BY <1>5, <1>6, <1>7, <1>8
<1> QED  BY <1>2, <1>9

(* A response that has ended is whole, or its frame is not intact.          *)
LEMMA DoneWhole ==
  ASSUME NEW o, Sound(o), o.finish # "none", o.usage, NEW z, NEW e,
         e.type = "done", e.at = 0, e.delta = <<>>, e.content = o.content,
         Unmoved(o, z), z.refused = o.refused, Intact(o), Accepts(o.v, e),
         z.out = Append(o.out, e), z.v = Accept(o.v, e)
  PROVE  Told(z.out) /\ Whole(z) /\ Over(z) /\ Intact(z)
<1>1. e.delta \in Seq(Letters) /\ e.type \notin Deltas
  BY NoFragments DEF Deltas
<1>2. Told(o.out) /\ o.out \in Seq(ToSet(o.out)) /\ o.content \in Seq(Blocks)
  BY DEF Sound, Consistent, Told, Contents
<1>3. Told(z.out)
  BY <1>1, <1>2, ToldAppend
<1>4. o.v.content = o.content /\ Sent(o.content, o.tools, o.v.ended, o.out)
  BY DEF Sound, Faithful
<1>5. Sent(o.content, o.tools, o.v.ended, z.out)
  BY <1>1, <1>2, <1>4, SilentSent
<1>6. o.v.ended = DOMAIN o.content
  BY <1>4 DEF Accepts, AcceptsTerminal, Terminal, Opening
<1>7. Last(z.out) = e
  <2>1. Len(Append(o.out, e)) = Len(o.out) + 1 /\ Append(o.out, e)[Len(o.out) + 1] = e
    BY <1>2
  <2> QED  BY <2>1 DEF Last
<1>8. ASSUME NEW i \in DOMAIN o.content
      PROVE  LET b == o.content[i]
             IN  IF b.kind = "text" THEN b.text = FragmentsOf(z.out, i, "text_delta")
                 ELSE b.args = FragmentsOf(z.out, i, "toolcall_delta") /\ IsObject(b.args)
  <2>1. o.content[i] \in Blocks
    BY <1>2, <1>8
  <2>2. o.content[i].kind = "text" \/ o.content[i].kind = "toolCall"
    BY <2>1, BlockKinds
  <2>3. CASE o.content[i].kind = "text"
    BY <2>3, <1>5 DEF Sent, TextsSent
  <2>4. CASE o.content[i].kind # "text"
    BY <2>2, <2>4, <1>5, <1>6 DEF Sent, EndedSent
  <2> QED  BY <2>3, <2>4
<1>9. Whole(z)
  BY <1>7, <1>8 DEF Whole, Unmoved
<1>10. Over(z)
  BY AcceptFields DEF Over, Terminal
<1>11. Intact(z)
  BY DEF Intact, Unmoved
<1> QED  BY <1>3, <1>9, <1>10, <1>11

(* What a response that has ended gives: a whole message, or a failure.     *)
LEMMA ConcludedWhole ==
  ASSUME NEW o, Sound(o)
  PROVE  LET z == Concluded(o)
         IN  \/ Sound(z) /\ ~Intact(z)
             \/ Told(z.out) /\ Unfinished(z.out) /\ ~Intact(z)
             \/ Told(z.out) /\ Whole(z) /\ Over(z) /\ Intact(z)
<1> DEFINE n == Len(o.content)
           w == [faux |-> FALSE]
<1>1. Listed(o.content) /\ n \in Nat /\ DOMAIN o.content = 1..n
  <2>1. o.content \in Seq(Blocks)
    BY DEF Sound, Consistent, Contents
  <2>2. \A i \in 1..Len(o.content) : o.content[i] \in ToSet(o.content)
    BY <2>1 DEF ToSet
  <2> QED  BY <2>1, <2>2 DEF Listed
<1>2. PICK f : /\ Passes(f, n, w, o, Numbers(n))
               /\ Concluded(o) = LET ended == f[1..n]
                                 IN  IF ended.broken \/ ended.finish = "none" \/ ~ended.usage
                                     THEN [ended EXCEPT !.broken = TRUE]
                                     ELSE Yield(ended, Event("done", 0, <<>>, ended.content))
  BY <1>1, ConcludedPasses
<1> DEFINE ended == f[1..n]
           dead == [ended EXCEPT !.broken = TRUE]
           e == Event("done", 0, <<>>, ended.content)
           z == Yield(ended, e)
<1> HIDE DEF n
<1>3. Sound(ended)
  BY <1>1, <1>2, PassesSound
<1>4. Concluded(o) = IF ended.broken \/ ended.finish = "none" \/ ~ended.usage THEN dead ELSE z
  BY <1>2
<1> HIDE DEF ended
<1>5. Sound(dead) /\ ~Intact(dead)
  BY <1>3, BrokenSound DEF Sound, Consistent, Intact, FrameFields
<1>6. e.type = "done" /\ e.at = 0 /\ e.delta = <<>> /\ e.content = ended.content
  BY EventFields
<1> HIDE DEF dead, e
<1>7. /\ Unmoved(ended, z)
      /\ \/ /\ Intact(ended) /\ Accepts(ended.v, e)
            /\ z.out = Append(ended.out, e) /\ z.v = Accept(ended.v, e)
            /\ z.refused = ended.refused
         \/ ~Intact(z) /\ z.out = ended.out
  BY <1>3, YieldCases DEF Sound, Consistent
<1> HIDE DEF z
<1>8. ASSUME ended.finish # "none", ended.usage
      PROVE  \/ Told(z.out) /\ Unfinished(z.out) /\ ~Intact(z)
             \/ Told(z.out) /\ Whole(z) /\ Over(z) /\ Intact(z)
  <2>1. CASE ~Intact(z) /\ z.out = ended.out
    BY <1>3, <2>1 DEF Sound, Consistent
  <2>2. CASE /\ Intact(ended) /\ Accepts(ended.v, e)
             /\ z.out = Append(ended.out, e) /\ z.v = Accept(ended.v, e)
             /\ z.refused = ended.refused
    BY <1>3, <1>6, <1>7, <1>8, <2>2, DoneWhole
  <2> QED  BY <1>7, <2>1, <2>2
<1> QED  BY <1>4, <1>5, <1>8

(* A failure does not make a message done.                                  *)
LEMMA FailedUnfinished ==
  ASSUME NEW o, FrameFields \subseteq DOMAIN o, Told(o.out), Unfinished(o.out),
         NEW reason \in {"error", "aborted"}
  PROVE  Told(Failed(o, reason).out) /\ Unfinished(Failed(o, reason).out)
<1> DEFINE clear == [o EXCEPT !.broken = FALSE, !.refused = FALSE]
           e == Event(reason, 0, <<>>, o.latest)
           f == Yield(clear, e)
           z == [f EXCEPT !.refused = @ \/ o.refused]
<1>1. FrameFields \subseteq DOMAIN clear /\ clear.out = o.out
  BY DEF FrameFields
<1>2. e.type # "done" /\ e.delta = <<>>
  BY EventFields
<1>3. Failed(o, reason) = z
  BY DEF Failed
<1> HIDE DEF clear, e
<1>4. FrameFields \subseteq DOMAIN f /\ (f.out = clear.out \/ f.out = Append(clear.out, e))
  BY <1>1, YieldCases DEF Unmoved
<1> HIDE DEF f
<1>5. z.out = f.out
  BY <1>4 DEF FrameFields
<1> HIDE DEF z
<1>6. e.delta \in Seq(Letters)
  BY <1>2, NoFragments
<1>7. Told(f.out) /\ Unfinished(f.out)
  BY <1>1, <1>2, <1>4, <1>6, ToldAppend
<1> QED  BY <1>3, <1>5, <1>7

-----------------------------------------------------------------------------
(* What DeepSeek's provider delivers.                                       *)
Answer(o, outcome) ==
    /\ Told(o.out)
    /\ Unfinished(o.out) \/ Whole(o)
    /\ outcome = "none" => Sound(o) /\ Intact(o) /\ o.phase = "streaming"

Delivered ==
    \E o, outcome :
        Frame(op, o) /\ outcome \in Outcomes /\ Answer(o, outcome) /\ Deliver(o, outcome)

(* A failure is delivered as an answer.                                     *)
LEMMA FailureDelivered ==
  ASSUME NEW o, Frame(op, o), Told(o.out), Unfinished(o.out),
         NEW reason \in {"error", "aborted"}, DeliverFailure(o, reason)
  PROVE  Delivered
<1> DEFINE f == Failed(o, reason)
           outcome == IF Over(f) THEN "value" ELSE "error"
<1>1. Frame(op, f) /\ Told(f.out) /\ Unfinished(f.out)
  BY FailedFrame, FailedUnfinished DEF Frame
<1>2. Deliver(f, outcome)
  BY DEF DeliverFailure
<1>3. outcome \in Outcomes /\ outcome # "none"
  BY DEF Outcomes
<1> HIDE DEF f, outcome
<1>4. Answer(f, outcome)
  BY <1>1, <1>3 DEF Answer
<1> QED  BY <1>1, <1>2, <1>3, <1>4 DEF Delivered

(* What a step of the response gives is delivered as an answer.             *)
LEMMA AttemptDelivered ==
  ASSUME NEW o, Frame(op, o), Told(o.out), ~Intact(o) => Unfinished(o.out),
         Intact(o) => \/ Sound(o) /\ o.phase = "streaming"
                      \/ Whole(o) /\ Over(o),
         DeliverOrFail(o)
  PROVE  Delivered
<1>1. CASE ~Intact(o)
  BY <1>1, FailureDelivered DEF DeliverOrFail, Intact
<1>2. CASE Intact(o)
  <2> DEFINE outcome == IF Over(o) THEN "value" ELSE "none"
  <2>1. Deliver(o, outcome)
    BY <1>2 DEF DeliverOrFail, Intact
  <2>2. outcome \in Outcomes /\ (outcome = "none" => ~Over(o))
    BY DEF Outcomes
  <2> HIDE DEF outcome
  <2>3. Answer(o, outcome)
    BY <1>2, <2>2 DEF Answer, Sound, Consistent
  <2> QED  BY <2>1, <2>2, <2>3 DEF Delivered
<1> QED  BY <1>1, <1>2

(* The first event.                                                         *)
LEMMA StartSound ==
  ASSUME NEW o, Sound(o), Intact(o), o.v = NewValidator
  PROVE  LET y == Yield(o, Event("start", 0, <<>>, <<>>)) IN Sound(y) /\ Intact(y)
<1> DEFINE e == Event("start", 0, <<>>, <<>>)
           y == Yield(o, e)
<1>1. e.type = "start" /\ e.delta = <<>> /\ e.content = <<>>
  BY EventFields
<1> HIDE DEF e
<1>2. e.delta \in Seq(Letters) /\ e.type # "done" /\ e.type \notin Deltas /\ e.type \notin Closing
  BY <1>1, NoFragments DEF Deltas, Closing
<1>3. Accepts(o.v, e)
  BY <1>1 DEF Accepts, NewValidator
<1>4. Consistent(y)
  BY <1>2, YieldConsistent DEF Sound
<1>5. /\ Unmoved(o, y) /\ y.refused = o.refused
      /\ y.out = Append(o.out, e) /\ y.v = Accept(o.v, e)
  <2>1. Yield(o, e) = [o EXCEPT !.v = Accept(@, e), !.latest = e.content, !.out = Append(@, e)]
    BY <1>3 DEF Yield, Intact
  <2> HIDE DEF y
  <2>2. y = [o EXCEPT !.v = Accept(@, e), !.latest = e.content, !.out = Append(@, e)]
    BY <2>1 DEF y
  <2> QED  BY <2>2 DEF Unmoved, FrameFields, Sound, Consistent
<1> HIDE DEF y
<1>6. o.content = <<>>
  BY DEF Sound, Faithful, NewValidator
<1>7. Sent(o.content, o.tools, o.v.ended, o.out) /\ Told(o.out)
  BY DEF Sound, Faithful, Consistent
<1>8. Sent(o.content, o.tools, o.v.ended, y.out)
  BY <1>2, <1>5, <1>7, SilentSent
<1>9. y.v.content = <<>> /\ y.v.ended = o.v.ended
  BY <1>1, <1>2, <1>5, AcceptFields
<1>10. Faithful(y)
  BY <1>5, <1>6, <1>8, <1>9 DEF Faithful, Unmoved
<1>11. Intact(y)
  BY <1>5 DEF Intact, Unmoved
<1> QED  BY <1>4, <1>10, <1>11 DEF Sound, y, e

(* Each of the provider's steps.                                            *)
LEMMA ProvidedAnswer ==
  ASSUME Frame(op, op), Message, op.provider = "deepseek", Provide
  PROVE  Delivered
<1>1. producer = "working"
  BY DEF Provide, RequestInvalid, RequestFails, ResponseStarts, FauxResponds, Payload,
         ResponseEnds, ResponseBreaks, CleanupFails, ProviderCancelled, Working, Streaming
<1>2. Sound(op) /\ Intact(op) /\ Told(op.out) /\ Unfinished(op.out)
  BY <1>1 DEF Message, Sound, Consistent
<1>3. ASSUME Deliver(op, "error")
      PROVE  Delivered
  BY <1>2, <1>3 DEF Delivered, Answer, Outcomes
<1>4. CASE RequestInvalid \/ CleanupFails
  BY <1>3, <1>4 DEF RequestInvalid, CleanupFails
<1>5. CASE RequestFails \/ ResponseBreaks
  BY <1>2, <1>5, FailureDelivered DEF RequestFails, ResponseBreaks
<1>6. CASE ResponseStarts
  <2> DEFINE o == Yield(op, Event("start", 0, <<>>, <<>>))
             p == [o EXCEPT !.phase = "streaming"]
  <2>1. Frame(op, o)
    BY NoEvent, YieldFrame
  <2>2. Sound(o) /\ Intact(o)
    BY <1>2, <1>6, StartSound DEF ResponseStarts, Message
  <2>3. Deliver(p, "none")
    BY <1>6 DEF ResponseStarts
  <2> HIDE DEF o
  <2>4. /\ FrameFields \subseteq DOMAIN p /\ p.content = o.content /\ p.textAt = o.textAt
        /\ p.tools = o.tools /\ p.out = o.out /\ p.broken = o.broken
        /\ p.refused = o.refused /\ p.v = o.v /\ p.phase = "streaming"
    BY <2>2 DEF Sound, Consistent, FrameFields
  <2>5. Frame(op, p)
    BY <2>1 DEF Frame
  <2> HIDE DEF p
  <2>6. Sound(p) /\ Intact(p)
    BY <2>2, <2>4, OthersSound DEF Intact
  <2>7. Answer(p, "none") /\ "none" \in Outcomes
    BY <2>4, <2>6 DEF Answer, Outcomes, Sound, Consistent
  <2> QED  BY <2>3, <2>5, <2>7 DEF Delivered
<1>7. CASE Payload
  <2>1. PICK p \in Payloads : p.tool <= Len(op.tools) + 1 /\ DeliverOrFail(AfterPayload(op, p))
    BY <1>7 DEF Payload
  <2> DEFINE o == AfterPayload(op, p)
  <2>2. Frame(op, o) /\ Sound(o)
    BY <1>2, <2>1, AfterPayloadFrame, AfterPayloadSound
  <2>3. DeliverOrFail(o)
    BY <2>1
  <2> HIDE DEF o
  <2>4. o.phase = "streaming"
    BY <1>7, <2>2 DEF Payload, Streaming, Frame
  <2> QED  BY <2>2, <2>3, <2>4, AttemptDelivered DEF Sound, Consistent
<1>8. CASE ResponseEnds
  <2> DEFINE o == Concluded(op)
  <2>1. Frame(op, o) /\ DeliverOrFail(o)
    BY <1>8, ConcludedFrame DEF ResponseEnds
  <2>2. \/ Sound(o) /\ ~Intact(o)
        \/ Told(o.out) /\ Unfinished(o.out) /\ ~Intact(o)
        \/ Told(o.out) /\ Whole(o) /\ Over(o) /\ Intact(o)
    BY <1>2, ConcludedWhole
  <2> HIDE DEF o
  <2> QED  BY <2>1, <2>2, AttemptDelivered DEF Sound, Consistent
<1>9. CASE ProviderCancelled
  BY <1>2, <1>3, <1>9, FailureDelivered DEF ProviderCancelled
<1>10. ~FauxResponds
  BY DEF FauxResponds
<1> QED  BY <1>4, <1>5, <1>6, <1>7, <1>8, <1>9, <1>10 DEF Provide

(* What is sent on is what the frame holds.                                 *)
LEMMA SentOn ==
  ASSUME NEW s, Listed(s), NEW t, Listed(t), Extends(s, t)
  PROVE  s \o SubSeq(t, Len(s) + 1, Len(t)) = t
<1> DEFINE U == ToSet(s) \cup ToSet(t)
           r == SubSeq(t, Len(s) + 1, Len(t))
           n == Len(s)
           m == Len(t)
           u == s \o r
<1>1. s \in Seq(U) /\ t \in Seq(U) /\ n \in Nat /\ m \in Nat /\ n <= m
  BY DEF Listed, Extends
<1> HIDE DEF U
<1>2. r \in Seq(U) /\ Len(r) = m - n /\ \A i \in 1..m - n : r[i] = t[n + i]
  BY <1>1
<1> HIDE DEF r
<1>3. /\ u \in Seq(U) /\ Len(u) = n + (m - n)
      /\ \A i \in 1..n : u[i] = s[i]
      /\ \A j \in 1..m - n : u[n + j] = r[j]
  BY <1>1, <1>2
<1> HIDE DEF u
<1>4. Len(u) = m
  BY <1>1, <1>3
<1>5. ASSUME NEW i \in 1..m PROVE u[i] = t[i]
  <2>1. CASE i <= n
    <3>1. i \in 1..n
      BY <1>1, <2>1
    <3> QED  BY <1>3, <3>1 DEF Extends
  <2>2. CASE i > n
    <3>1. i - n \in 1..m - n /\ n + (i - n) = i
      BY <1>1, <2>2
    <3> DEFINE j == i - n
    <3>2. j \in 1..m - n /\ n + j = i
      BY <3>1
    <3> HIDE DEF j
    <3>3. u[n + j] = r[j]
      BY <1>3, <3>2
    <3>4. r[j] = t[n + j]
      BY <1>2, <3>2
    <3> QED  BY <3>2, <3>3, <3>4
  <2> QED  BY <1>1, <2>1, <2>2
<1>6. u = t
  BY <1>1, <1>3, <1>4, <1>5
<1> QED  BY <1>6 DEF u, r

(* The message, from the first request on.                                  *)
LEMMA InitMessage == ModelInit => Message
<1> SUFFICES ASSUME ModelInit PROVE Message
  OBVIOUS
<1>1. PICK p : op = NewOperation(p)
  BY DEF ModelInit
<1>2. /\ FrameFields \subseteq DOMAIN op /\ op.content = <<>> /\ op.textAt = 0 /\ op.tools = <<>>
      /\ op.out = <<>> /\ op.broken = FALSE /\ op.refused = FALSE /\ op.v = NewValidator
      /\ op.phase = "request"
  BY <1>1 DEF NewOperation, FrameFields
<1>3. op.v.content = <<>> /\ op.v.ended = {}
  BY <1>2 DEF NewValidator
<1>4. sent = <<>>
  BY DEF ModelInit, Init
<1>5. Contents(<<>>, 0, <<>>) /\ Told(<<>>) /\ Unfinished(<<>>)
  BY DEF Contents, CallsKept, Told, Unfinished
<1>6. \A i, type : FragmentsOf(<<>>, i, type) = <<>>
  <2>1. \A i, type : Carried(<<>>, i, type) = <<>>
    BY DEF Carried
  <2> QED  BY <2>1, FlattenEmpty DEF FragmentsOf
<1>7. Sent(<<>>, <<>>, {}, <<>>)
  BY <1>6 DEF Sent, TextsSent, CallsSent, EndedSent, NothingBeyond
<1>8. Sound(op) /\ Intact(op)
  BY <1>2, <1>3, <1>5, <1>7 DEF Sound, Consistent, Faithful, Intact
<1> QED  BY <1>2, <1>4, <1>5, <1>8 DEF Message

(* A step of the provider.                                                  *)
LEMMA ProvideMessage ==
  ASSUME IInv, Message, Provide
  PROVE  Message'
<1>1. Frame(op, op)
  BY DEF IInv, TypeOK
<1>2. CASE op.provider # "deepseek"
  <2>1. PICK o, outcome : Frame(op, o) /\ outcome \in Outcomes /\ Deliver(o, outcome)
    BY <1>1, Provided
  <2>2. op' = [o EXCEPT !.phase = IF outcome = "none" THEN @ ELSE "over"]
    BY <2>1 DEF Deliver
  <2>3. /\ op'.provider = op.provider
        /\ op'.phase = IF outcome = "none" THEN o.phase ELSE "over"
    BY <2>1, <2>2 DEF Frame, FrameFields
  <2>4. producer = "working" /\ producer' = IF outcome = "none" THEN "working" ELSE "ended"
    BY <2>1 DEF Deliver, Produce
  <2>5. o.phase # "over"
    BY <2>1, <2>4 DEF Frame, Message
  <2> QED  BY <1>2, <2>3, <2>4, <2>5 DEF Message
<1>3. CASE op.provider = "deepseek"
  <2>1. PICK o, outcome : /\ Frame(op, o) /\ outcome \in Outcomes
                          /\ Answer(o, outcome) /\ Deliver(o, outcome)
    BY <1>1, <1>3, ProvidedAnswer DEF Delivered
  <2>2. op' = [o EXCEPT !.phase = IF outcome = "none" THEN @ ELSE "over"]
    BY <2>1 DEF Deliver
  <2>3. /\ FrameFields \subseteq DOMAIN op' /\ op'.content = o.content /\ op'.textAt = o.textAt
        /\ op'.tools = o.tools /\ op'.out = o.out /\ op'.broken = o.broken
        /\ op'.refused = o.refused /\ op'.v = o.v /\ op'.finish = o.finish /\ op'.usage = o.usage
        /\ op'.phase = IF outcome = "none" THEN o.phase ELSE "over"
    BY <2>1, <2>2 DEF Frame, FrameFields
  <2>4. /\ producer' = IF outcome = "none" THEN "working" ELSE "ended"
        /\ sent' = sent \o SubSeq(o.out, Len(op.out) + 1, Len(o.out))
    BY <2>1 DEF Deliver, Produce, New
  <2>5. sent' = o.out
    <3>1. sent = op.out /\ Listed(op.out) /\ Listed(o.out) /\ Extends(op.out, o.out)
      BY <1>1, <1>3, <2>1 DEF Message, Frame, Proper
    <3> QED  BY <2>4, <3>1, SentOn
  <2>6. Told(op'.out) /\ (Unfinished(op'.out) \/ Whole(op'))
    BY <2>1, <2>3 DEF Answer, Whole
  <2>7. op'.phase # "over" => outcome = "none" /\ op'.phase = "streaming"
    BY <2>1, <2>3 DEF Answer
  <2>8. op'.phase # "over" => Sound(op') /\ Intact(op')
    <3>1. Sound(o) => Sound(op')
      BY <2>3, OthersSound
    <3>2. Intact(o) => Intact(op')
      BY <2>3 DEF Intact
    <3> QED  BY <2>1, <2>7, <3>1, <3>2 DEF Answer
  <2>9. op'.phase = "over" => producer' = "ended"
    BY <2>1, <2>3, <2>4 DEF Answer
  <2> QED  BY <2>3, <2>5, <2>6, <2>7, <2>8, <2>9 DEF Message
<1> QED  BY <1>2, <1>3

(* The other steps.                                                         *)
LEMMA OthersMessage ==
  ASSUME Message, UNCHANGED <<op, sent>>, producer = "ended" => producer' = "ended"
  PROVE  Message'
  BY DEF Message

LEMMA NextMessage == IInv /\ Message /\ [Next]_vars => Message'
<1> SUFFICES ASSUME IInv, Message, [Next]_vars PROVE Message'
  OBVIOUS
<1>1. ASSUME NEW c \in Clients, Call(c) \/ CancelClient(c) \/ Resume(c), UNCHANGED op
      PROVE  Message'
  <2>1. sent' = sent /\ (producer = "ended" => producer' = "ended")
    BY <1>1 DEF Call, CallNext, CallResult, CallClose, CancelClient, Resume, NextResumes,
                NextCancelled, ResultReturns, ResultCancelled, Settled, SettlingHit, Activate,
                Activated
  <2> QED  BY <1>1, <2>1, OthersMessage
<1>2. CASE RunsTask /\ UNCHANGED op
  <2>1. sent' = sent /\ producer = "created"
    BY <1>2 DEF RunsTask, ProducerStarts, CancelledBeforeStart
  <2> QED  BY <1>2, <2>1, OthersMessage
<1>3. CASE Provide
  BY <1>3, ProvideMessage
<1>4. CASE UNCHANGED vars
  BY <1>4, OthersMessage DEF vars, streamVars
<1> QED  BY <1>1, <1>2, <1>3, <1>4 DEF Next

(* A message that is done is complete: every text is the fragments that     *)
(* came, every tool call has the arguments whose fragments came, which are  *)
(* an object, and a finish reason and the usage have been seen              *)
(* (deepseek.py _stream_simple_operation).                                  *)
THEOREM DoneComplete == Spec => []DoneIsComplete
<1>1. Spec => []Message
  <2>1. Spec => ModelInit /\ [][Next]_vars
    BY DEF Spec
  <2> QED  BY <2>1, Invariance, InitMessage, NextMessage, PTL
<1>2. Message => DoneIsComplete
  <2> SUFFICES ASSUME Message, op.provider = "deepseek", sent # <<>>, Last(sent).type = "done"
               PROVE  /\ op.finish # "none" /\ op.usage
                      /\ \A i \in DOMAIN Last(sent).content :
                            LET b == Last(sent).content[i]
                            IN  IF b.kind = "text" THEN b.text = Fragments(i, "text_delta")
                                ELSE b.args = Fragments(i, "toolcall_delta") /\ IsObject(b.args)
    BY DEF DoneIsComplete
  <2>1. sent = op.out /\ Told(op.out) /\ (Unfinished(op.out) \/ Whole(op))
    BY DEF Message
  <2>2. Len(op.out) \in DOMAIN op.out /\ Last(op.out) = op.out[Len(op.out)]
    BY <2>1 DEF Told, Last
  <2>3. Whole(op)
    BY <2>1, <2>2 DEF Unfinished
  <2>4. \A i, type : Fragments(i, type) = FragmentsOf(op.out, i, type)
    BY <2>1 DEF Fragments, FragmentsOf, Carried
  <2> QED  BY <2>1, <2>3, <2>4 DEF Whole
<1> QED  BY <1>1, <1>2, PTL
=============================================================================
