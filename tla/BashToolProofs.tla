---------------------------- MODULE BashToolProofs ----------------------------
(***************************************************************************)
(* Proofs about one call of the bash tool: its result holds what the        *)
(* command wrote, the spill file is kept exactly when somebody knows of it, *)
(* and nothing is left running.                                            *)
(*                                                                         *)
(* Why it holds: the task goes on from _collect_bash_result only when both  *)
(* pipes have ended and the shell has. The queue of events hands over what  *)
(* was fed in its order, an eof last: once both have been consumed nothing  *)
(* that was written is on its way any more.                                *)
(***************************************************************************)
EXTENDS BashTool, FiniteSets, FiniteSetTheorems, FunctionTheorems, SequenceTheorems, TLAPS

----------------------------------------------------------------------------
(* Types.                                                                  *)

Tasks == Streams \cup {"exit", "abort", "timeout"}
Kinds == {"data", "pipe_error", "eof", "exit", "abort", "timeout"}

Collectors == [eofs : Nat, exited : BOOLEAN, timedOut : BOOLEAN,
            faults : SUBSET {"known", "odd"}, interrupted : BOOLEAN]
Outputs == [chunks : Nat, extra : Nat, saved : Nat, path : BOOLEAN, handle : BOOLEAN,
            file : BOOLEAN, bad : {"none", "known", "odd"}]
Throttles == [open : BOOLEAN, dirty : BOOLEAN, timer : BOOLEAN, due : BOOLEAN,
              exposed : BOOLEAN]

Records == [col : Collectors, acc : Outputs, th : Throttles, kill : BOOLEAN]

Pairs == [acc : Outputs, th : Throttles]

MainType ==
    main \in [pc : {"called", "checking", "spawning", "spawned", "collect", "drain",
                    "handler", "ended"},
              hit : BOOLEAN,
              result : {"none", "cancelled", "refused", "unspawned", "error", "infra",
                        "completed", "timed_out"},
              late : BOOLEAN]
ProcType == proc \in [shell : {"none", "running", "exited"}, kids : BOOLEAN, killed : BOOLEAN]
PipeType == pipe \in [Streams -> Nat]
PumpType == pump \in [Tasks -> {"none", "on", "done", "failed"}]
EventsType == events \in Seq(Kinds)
ColType == col \in Collectors
AccType == acc \in Outputs
ThType == th \in Throttles
RestType ==
    /\ aborted \in BOOLEAN
    /\ disk \in {"ok", "full", "denied", "broken"}
    /\ wrote \in Nat

TypeOK ==
    /\ MainType /\ ProcType /\ PipeType /\ PumpType /\ EventsType
    /\ ColType /\ AccType /\ ThType /\ RestType

----------------------------------------------------------------------------
(* The inductive invariant: before the output is collected, meanwhile, and  *)
(* once the call has ended.                                                *)

Before ==
    \/ main.pc \in {"called", "checking", "spawning", "spawned"}
    \/ main.pc = "handler" /\ ~main.late
Live == main.pc \in {"collect", "drain"}

Fresh ==
    /\ events = <<>>
    /\ \A t \in Tasks : pump[t] = "none"
    /\ acc = [chunks |-> 0, extra |-> 0, saved |-> 0, path |-> FALSE, handle |-> FALSE,
              file |-> FALSE, bad |-> "none"]
    /\ th = [open |-> TRUE, dirty |-> FALSE, timer |-> FALSE, due |-> TRUE, exposed |-> FALSE]
    /\ col = [eofs |-> 2, exited |-> FALSE, timedOut |-> FALSE, faults |-> {},
              interrupted |-> FALSE]
    /\ wrote = pipe["out"] + pipe["err"]

Has(ev, kind) == \E i \in DOMAIN ev : ev[i] = kind
Count(ev, kind) == Cardinality({i \in DOMAIN ev : ev[i] = kind})

Gone(s) == IF pump[s] \in {"done", "failed"} THEN 1 ELSE 0

Counted == col.eofs + Gone("out") + Gone("err") = 2 + Count(events, "eof")

Followed ==
    Gone("out") + Gone("err") = 2 =>
        \A i \in DOMAIN events : events[i] \in {"data", "pipe_error"} =>
            \E j \in DOMAIN events : i < j /\ events[j] = "eof"

Exits ==
    /\ col.exited \/ Has(events, "exit") => pump["exit"] = "done"
    /\ pump["exit"] = "done" => proc.shell = "exited"

Pumped ==
    \A s \in Streams :
        /\ pump[s] # "none"
        /\ pump[s] = "done" => pipe[s] = 0 /\ Closed
        /\ pump[s] = "failed" => col.faults # {} \/ Has(events, "pipe_error")

Balance ==
    col.faults = {} => wrote = pipe["out"] + pipe["err"] + Count(events, "data") + acc.chunks

\* What the accumulator and the throttle are, on records [col, acc, th, kill].
Whole(a) == (a.path <=> a.chunks > Limit) /\ (a.path => a.saved = a.chunks)
Held(s) ==
    /\ s.acc.handle = s.acc.path /\ s.acc.file = s.acc.path
    /\ s.acc.bad = "none" /\ s.acc.extra = 0
    /\ s.col.faults = {} => Whole(s.acc)
    /\ s.th.open => s.col.faults = {}
    /\ s.th.timer => s.th.open
    /\ s.th.exposed => s.acc.path

WatchersGone == main.pc = "drain" => pump["abort"] = "none" /\ pump["timeout"] = "none"

Shell ==
    /\ main.pc \in {"called", "checking"} => proc.shell = "none"
    /\ main.pc \in {"spawned", "collect", "drain", "handler"} => proc.shell # "none"

Late ==
    /\ main.late => main.pc \in {"handler", "ended"}
    /\ main.pc = "handler" \/ main.late => main.result \in {"cancelled", "error"}
    /\ main.pc = "handler" \/ main.late => proc.killed

\* The end of a call that no cancel has come to late.
Rests ==
    /\ \A t \in Tasks : pump[t] # "on"
    /\ th.timer => Unwritten
    /\ proc.shell # "none" => proc.shell = "exited"
    /\ main.result \in {"cancelled", "error"} /\ proc.shell # "none" => proc.killed
    /\ Answered => acc.bad = "none" /\ acc.chunks = wrote /\ (acc.file => acc.saved = acc.chunks)
    /\ ~Unwritten => /\ acc.file <=> (Answered /\ Over(acc)) \/ (Stopped /\ th.exposed)
                     /\ ~acc.handle

Flow == Counted /\ Followed /\ Exits /\ Pumped /\ Balance /\ Held(Locals) /\ WatchersGone

IInv ==
    /\ TypeOK
    /\ Before => Fresh
    /\ Live => Flow
    /\ Shell
    /\ Late
    /\ main.pc = "ended" /\ ~main.late => Rests
----------------------------------------------------------------------------
(* Lemmas about the queue of events.                                       *)

(* A count is a number, and zero only if nothing is counted.               *)
LEMMA CountIsNat ==
  ASSUME NEW ev \in Seq(Kinds), NEW kind
  PROVE  /\ IsFiniteSet({i \in DOMAIN ev : ev[i] = kind})
         /\ Count(ev, kind) \in Nat
         /\ Count(ev, kind) = 0 <=> ~Has(ev, kind)
<1> DEFINE A == {i \in DOMAIN ev : ev[i] = kind}
<1>1. IsFiniteSet(DOMAIN ev)
  BY FS_Interval
<1>2. IsFiniteSet(A) /\ Cardinality(A) \in Nat
  BY <1>1, FS_Subset, FS_CardinalityType
<1>3. Cardinality(A) = 0 <=> A = {}
  BY <1>2, FS_EmptySet
<1>4. A = {} <=> ~Has(ev, kind)
  BY DEF Has
<1> QED  BY <1>2, <1>3, <1>4 DEF Count

(* Nothing is counted in the empty queue.                                  *)
LEMMA CountEmpty ==
  ASSUME NEW kind
  PROVE  Count(<<>>, kind) = 0 /\ ~Has(<<>>, kind)
<1>1. ~Has(<<>>, kind)
  BY DEF Has
<1>2. <<>> \in Seq(Kinds)
  OBVIOUS
<1> QED  BY <1>1, <1>2, CountIsNat

(* An event that is fed adds one to the count of its kind.                 *)
LEMMA CountFed ==
  ASSUME NEW ev \in Seq(Kinds), NEW k \in Kinds, NEW kind
  PROVE  Count(ev \o <<k>>, kind) = Count(ev, kind) + (IF k = kind THEN 1 ELSE 0)
<1> DEFINE A == {i \in DOMAIN ev : ev[i] = kind}
           B == {i \in DOMAIN (ev \o <<k>>) : (ev \o <<k>>)[i] = kind}
<1>1. IsFiniteSet(A) /\ Cardinality(A) \in Nat
  BY CountIsNat DEF Count
<1>2. CASE k = kind
  <2>1. B = A \cup {Len(ev) + 1} /\ Len(ev) + 1 \notin A
    BY <1>2
  <2>2. Cardinality(B) = Cardinality(A) + 1
    BY <1>1, <2>1, FS_AddElement
  <2> QED  BY <1>2, <2>2 DEF Count
<1>3. CASE k # kind
  <2>1. B = A
    BY <1>3
  <2>2. Count(ev \o <<k>>, kind) = Count(ev, kind)
    BY <2>1 DEF Count
  <2>3. Count(ev, kind) \in Nat
    BY CountIsNat
  <2> QED  BY <1>3, <2>2, <2>3
<1> QED  BY <1>2, <1>3

(* An event that is taken takes one from the count of its kind.            *)
LEMMA CountTaken ==
  ASSUME NEW ev \in Seq(Kinds), ev # <<>>, NEW kind
  PROVE  Count(ev, kind) = Count(Tail(ev), kind) + (IF Head(ev) = kind THEN 1 ELSE 0)
<1> DEFINE A == {i \in DOMAIN Tail(ev) : Tail(ev)[i] = kind}
           B == {i \in DOMAIN ev : ev[i] = kind}
           C == {i \in B : i # 1}
           f == [i \in A |-> i + 1]
<1>1. Tail(ev) \in Seq(Kinds) /\ Len(ev) \in Nat \ {0} /\ Head(ev) = ev[1]
  OBVIOUS
<1>2. IsFiniteSet(A) /\ Cardinality(A) \in Nat
  BY <1>1, CountIsNat DEF Count
<1>3. f \in Bijection(A, C)
  <2>1. f \in [A -> C]
    BY <1>1
  <2>2. \A a, b \in A : f[a] = f[b] => a = b
    BY <1>1
  <2>3. \A c \in C : c - 1 \in A /\ f[c - 1] = c
    BY <1>1
  <2> QED  BY <2>1, <2>2, <2>3, Fun_IsBij
<1>4. IsFiniteSet(C) /\ Cardinality(C) = Cardinality(A)
  BY ZenonT(30), <1>2, <1>3, FS_Bijection DEF ExistsBijection
<1>5. CASE Head(ev) = kind
  <2>1. B = C \cup {1} /\ 1 \notin C
    BY <1>1, <1>5
  <2>2. Cardinality(B) = Cardinality(C) + 1
    BY <1>4, <2>1, FS_AddElement
  <2> QED  BY <1>4, <1>5, <2>2 DEF Count
<1>6. CASE Head(ev) # kind
  <2>1. B = C
    BY <1>1, <1>6
  <2>2. Count(ev, kind) = Count(Tail(ev), kind)
    BY <1>4, <2>1 DEF Count
  <2>3. Count(Tail(ev), kind) \in Nat
    BY <1>2 DEF Count
  <2> QED  BY <1>6, <2>2, <2>3
<1> QED  BY <1>5, <1>6

(* Two events fed together are two fed one after the other.                *)
LEMMA FedTogether ==
  ASSUME NEW ev \in Seq(Kinds), NEW k \in Kinds, NEW l \in Kinds
  PROVE  ev \o <<k, l>> = (ev \o <<k>>) \o <<l>> /\ ev \o <<k>> \in Seq(Kinds)
<1> DEFINE fed == (ev \o <<k>>) \o <<l>>
<1>1. ev \o <<k>> \in Seq(Kinds) /\ <<l>> \in Seq(Kinds) /\ <<k, l>> \in Seq(Kinds)
  OBVIOUS
<1>2. fed \in Seq(Kinds) /\ ev \o <<k, l>> \in Seq(Kinds)
  BY <1>1
<1>3. Len(fed) = Len(ev) + 2 /\ Len(ev \o <<k, l>>) = Len(ev) + 2
  OBVIOUS
<1>4. \A i \in 1 .. Len(ev) + 2 : fed[i] = (ev \o <<k, l>>)[i]
  OBVIOUS
<1> QED  BY <1>1, <1>2, <1>3, <1>4, SeqEqual

----------------------------------------------------------------------------
(* Lemmas about the accumulator, the throttle and consume.                 *)

(* _ensure_temp_file and _write_current read no more and forget nothing;   *)
(* without a fault everything that was read is in an open file.            *)
LEMMA SpillIs ==
  ASSUME NEW a \in Outputs, RestType
  PROVE  /\ Spill(a) \in Outputs
         /\ Spill(a).chunks = a.chunks /\ Spill(a).extra = a.extra
         /\ a.path => Spill(a).path
         /\ Spill(a).handle = Spill(a).path \/ Spill(a).handle = a.handle
         /\ Spill(a).file = Spill(a).path \/ Spill(a).file = a.file
         /\ a.bad # "none" => Spill(a).bad # "none"
         /\ a.handle = a.path /\ a.file = a.path =>
              Spill(a).handle = Spill(a).path /\ Spill(a).file = Spill(a).path
         /\ Spill(a).bad = "none" =>
              Spill(a).path /\ Spill(a).saved = a.chunks
BY DEF Outputs, RestType, Spill, Kind

(* append: the same of one chunk more.                                     *)
LEMMA AddIs ==
  ASSUME NEW a \in Outputs, RestType, a.handle = a.path, a.file = a.path,
         a.bad = "none", a.extra = 0, Whole(a)
  PROVE  /\ Add(a) \in Outputs
         /\ Add(a).chunks = a.chunks + 1 /\ Add(a).extra = 0
         /\ Add(a).handle = Add(a).path /\ Add(a).file = Add(a).path
         /\ a.path => Add(a).path
         /\ Add(a).bad = "none" => Whole(Add(a))
<1> DEFINE b == [a EXCEPT !.chunks = @ + 1]
<1>1. /\ b \in Outputs /\ b.chunks = a.chunks + 1 /\ b.extra = 0
      /\ b.handle = b.path /\ b.file = b.path /\ b.path = a.path
      /\ b.bad = "none" /\ b.saved = a.saved
  BY DEF Outputs
<1>2. Add(a) = IF b.path \/ Over(b) THEN Spill(b) ELSE b
  BY DEF Add
<1>3. a.chunks \in Nat /\ Limit \in Nat
  BY BashToolAssumption DEF Outputs
<1> HIDE DEF b
<1>4. CASE b.path \/ Over(b)
  <2>1. b.chunks > Limit
    BY <1>1, <1>3, <1>4 DEF Over, Whole
  <2> QED  BY <1>1, <1>2, <1>4, <2>1, SpillIs DEF Whole
<1>5. CASE ~(b.path \/ Over(b))
  BY <1>1, <1>2, <1>3, <1>5 DEF Over, Whole
<1> QED  BY <1>4, <1>5

(* _emit has no file to create while what is too long has one: it ends the *)
(* timer, and names no file that is not there.                             *)
LEMMA EmitIs ==
  ASSUME NEW s \in Records, RestType, s.th.open => s.acc.path \/ ~Over(s.acc)
  PROVE  /\ Emit(s) \in Records
         /\ Emit(s).col = s.col /\ Emit(s).acc = s.acc /\ Emit(s).kill = s.kill
         /\ ~Emit(s).th.timer /\ Emit(s).th.open = s.th.open
         /\ Emit(s).th.exposed => s.th.exposed \/ s.acc.path
<1>1. CASE ~s.th.open \/ aborted \/ ~s.th.dirty
  BY <1>1 DEF Emit, Records, Throttles
<1>2. CASE ~(~s.th.open \/ aborted \/ ~s.th.dirty)
  <2> DEFINE u == [s.th EXCEPT !.timer = FALSE, !.dirty = FALSE, !.due = FALSE,
                               !.exposed = @ \/ Over(s.acc)]
  <2>1. ~(Over(s.acc) /\ ~s.acc.path) /\ s.th \in Throttles
    BY <1>2 DEF Records
  <2>2. Emit(s) = [s EXCEPT !.th = u]
    <3>1. [s EXCEPT !.acc = s.acc] = s
      BY DEF Records
    <3>2. [[s.th EXCEPT !.timer = FALSE, !.dirty = FALSE, !.due = FALSE]
             EXCEPT !.exposed = @ \/ Over(s.acc)] = u
      BY <2>1 DEF Throttles
    <3> QED  BY <1>2, <2>1, <3>1, <3>2 DEF Emit, Records
  <2>3. /\ u \in Throttles /\ ~u.timer /\ u.open = s.th.open
        /\ u.exposed => s.th.exposed \/ s.acc.path
    BY <2>1 DEF Throttles, Over
  <2> HIDE DEF u
  <2> QED  BY <2>2, <2>3 DEF Records
<1> QED  BY <1>1, <1>2

(* mark() leaves the output as it is; of what is closed it sets no timer.  *)
LEMMA MarkIs ==
  ASSUME NEW s \in Records, RestType, Held(s)
  PROVE  /\ Mark(s) \in Records /\ Held(Mark(s))
         /\ Mark(s).col = s.col /\ Mark(s).acc = s.acc /\ Mark(s).kill = s.kill
<1> DEFINE d == [s EXCEPT !.th.dirty = TRUE]
<1>1. s.th.open => s.acc.path \/ ~Over(s.acc)
  BY BashToolAssumption DEF Held, Whole, Over, Records, Outputs
<1>2. /\ d \in Records /\ d.col = s.col /\ d.acc = s.acc /\ d.kill = s.kill
      /\ d.th.open = s.th.open /\ d.th.timer = s.th.timer /\ d.th.exposed = s.th.exposed
  BY DEF Records, Throttles
<1>3. CASE ~s.th.open \/ aborted
  BY <1>3 DEF Mark
<1>4. CASE ~(~s.th.open \/ aborted) /\ s.th.due
  <2>1. Mark(s) = Emit(d)
    BY <1>4 DEF Mark
  <2> HIDE DEF d
  <2>2. /\ Emit(d) \in Records
        /\ Emit(d).col = d.col /\ Emit(d).acc = d.acc /\ Emit(d).kill = d.kill
        /\ ~Emit(d).th.timer /\ Emit(d).th.open = d.th.open
        /\ Emit(d).th.exposed => d.th.exposed \/ d.acc.path
    BY <1>1, <1>2, EmitIs
  <2> QED  BY <1>2, <2>1, <2>2 DEF Held
<1>5. CASE ~(~s.th.open \/ aborted) /\ ~s.th.due
  BY <1>5 DEF Mark, Held, Records, Throttles
<1> QED  BY <1>3, <1>4, <1>5

(* note_fault closes the throttle and has the group killed.                *)
LEMMA NoteFaultIs ==
  ASSUME NEW s \in Records, NEW kind \in {"known", "odd"},
         s.acc.handle = s.acc.path, s.acc.file = s.acc.path,
         s.acc.bad = "none", s.acc.extra = 0, s.th.exposed => s.acc.path
  PROVE  /\ NoteFault(s, kind) \in Records /\ Held(NoteFault(s, kind))
         /\ NoteFault(s, kind).acc = s.acc
         /\ kind \in NoteFault(s, kind).col.faults
         /\ NoteFault(s, kind).col.eofs = s.col.eofs
         /\ NoteFault(s, kind).col.exited = s.col.exited
BY DEF Records, Collectors, Throttles, NoteFault, CloseAdmission, Held

(* A chunk of data is added, unless there has been a fault or this is one. *)
LEMMA DataIs ==
  ASSUME NEW s \in Records, RestType, Held(s)
  PROVE  /\ Data(s) \in Records /\ Held(Data(s))
         /\ Data(s).col.eofs = s.col.eofs /\ Data(s).col.exited = s.col.exited
         /\ s.col.faults # {} => Data(s).col.faults # {}
         /\ Data(s).col.faults = {} => Data(s).acc.chunks = s.acc.chunks + 1
<1> DEFINE a == Add(s.acc)
           b == [a EXCEPT !.bad = "none"]
<1>1. CASE ~Accepting(s)
  BY <1>1 DEF Data, Accepting
<1> SUFFICES ASSUME Accepting(s)
             PROVE  /\ Data(s) \in Records /\ Held(Data(s))
                    /\ Data(s).col.eofs = s.col.eofs /\ Data(s).col.exited = s.col.exited
                    /\ s.col.faults # {} => Data(s).col.faults # {}
                    /\ Data(s).col.faults = {} => Data(s).acc.chunks = s.acc.chunks + 1
  BY <1>1
<1>2. s.acc \in Outputs /\ s.th \in Throttles /\ s.col \in Collectors
  BY DEF Records
<1>3. /\ a \in Outputs
      /\ a.chunks = s.acc.chunks + 1 /\ a.extra = 0
      /\ a.handle = a.path /\ a.file = a.path
      /\ s.acc.path => a.path
      /\ a.bad = "none" => Whole(a)
  BY <1>2, AddIs DEF Held, Accepting
<1> HIDE DEF a
<1>4. CASE a.bad # "none"
  <2> DEFINE r == [s EXCEPT !.acc = b]
  <2>1. /\ b \in Outputs /\ b.extra = 0 /\ b.handle = b.path /\ b.file = b.path
        /\ b.bad = "none" /\ b.path = a.path
    BY <1>3 DEF Outputs
  <2>2. a.bad \in {"known", "odd"}
    BY <1>3, <1>4 DEF Outputs
  <2> HIDE DEF b
  <2>3. r \in Records /\ r.acc = b /\ r.col = s.col /\ r.th = s.th
    BY <2>1 DEF Records
  <2>4. Data(s) = NoteFault(r, a.bad)
    BY <1>4 DEF Data, a, b
  <2>5. s.th.exposed => b.path
    BY <1>3, <2>1 DEF Held
  <2> HIDE DEF r
  <2>6. /\ NoteFault(r, a.bad) \in Records /\ Held(NoteFault(r, a.bad))
        /\ a.bad \in NoteFault(r, a.bad).col.faults
        /\ NoteFault(r, a.bad).col.eofs = r.col.eofs
        /\ NoteFault(r, a.bad).col.exited = r.col.exited
    BY <2>1, <2>2, <2>3, <2>5, NoteFaultIs
  <2> QED  BY <2>3, <2>4, <2>6
<1>5. CASE a.bad = "none"
  <2> DEFINE r == [s EXCEPT !.acc = a]
  <2>1. r \in Records /\ r.acc = a /\ r.col = s.col /\ r.th = s.th
    BY <1>3 DEF Records
  <2>2. Data(s) = Mark(r)
    BY <1>5 DEF Data, a
  <2> HIDE DEF r
  <2>3. Held(r)
    BY <1>3, <1>5, <2>1 DEF Held
  <2>4. Mark(r) \in Records /\ Held(Mark(r)) /\ Mark(r).col = r.col /\ Mark(r).acc = r.acc
    BY <2>1, <2>3, MarkIs
  <2> QED  BY <1>3, <2>1, <2>2, <2>4 DEF Accepting
<1> QED  BY <1>4, <1>5

(* What consuming an event does to what the task keeps.                    *)
LEMMA ConsumeIs ==
  ASSUME NEW s \in Records, RestType, Held(s), NEW e \in Kinds,
         e = "eof" => s.col.eofs # 0
  PROVE  /\ Consume(s, e) \in Records /\ Held(Consume(s, e))
         /\ Consume(s, e).col.eofs = s.col.eofs - (IF e = "eof" THEN 1 ELSE 0)
         /\ Consume(s, e).col.exited => s.col.exited \/ e = "exit"
         /\ s.col.faults # {} \/ e = "pipe_error" => Consume(s, e).col.faults # {}
         /\ Consume(s, e).col.faults = {} =>
              Consume(s, e).acc.chunks = s.acc.chunks + (IF e = "data" THEN 1 ELSE 0)
<1>1. s.acc \in Outputs /\ s.th \in Throttles /\ s.col \in Collectors
  BY DEF Records
<1>2. s.acc.chunks \in Nat /\ s.col.eofs \in Nat
  BY <1>1 DEF Outputs, Collectors
<1>3. CASE e = "data"
  BY <1>2, <1>3, DataIs DEF Consume
<1>4. CASE e = "pipe_error"
  <2>1. Consume(s, e) = NoteFault(s, "odd")
    BY <1>4 DEF Consume
  <2>2. /\ NoteFault(s, "odd") \in Records /\ Held(NoteFault(s, "odd"))
        /\ "odd" \in NoteFault(s, "odd").col.faults
        /\ NoteFault(s, "odd").col.eofs = s.col.eofs
        /\ NoteFault(s, "odd").col.exited = s.col.exited
    BY NoteFaultIs DEF Held
  <2> QED  BY <1>2, <1>4, <2>1, <2>2
<1>5. CASE e = "eof"
  <2> DEFINE c == [s EXCEPT !.col.eofs = @ - 1]
  <2>1. Consume(s, e) = c
    BY <1>5 DEF Consume
  <2>2. c \in Records /\ c.acc = s.acc /\ c.th = s.th
    BY <1>1, <1>2, <1>5 DEF Records, Collectors
  <2>3. c.col.faults = s.col.faults
    BY <1>1 DEF Records, Collectors
  <2>4. Held(c)
    BY <2>2, <2>3 DEF Held
  <2>5. /\ c.col.eofs = s.col.eofs - 1
        /\ c.col.exited => s.col.exited
    BY <1>1, <1>5 DEF Records, Collectors
  <2> HIDE DEF c
  <2> QED  BY <1>2, <1>5, <2>1, <2>2, <2>3, <2>4, <2>5
<1>6. CASE e = "exit"
  <2> DEFINE c == [s EXCEPT !.col.exited = TRUE]
  <2>1. Consume(s, e) = c
    BY <1>6 DEF Consume
  <2>2. c \in Records /\ c.acc = s.acc /\ c.th = s.th
    BY <1>1, <1>2 DEF Records, Collectors
  <2>3. c.col.faults = s.col.faults
    BY <1>1 DEF Records, Collectors
  <2>4. Held(c)
    BY <2>2, <2>3 DEF Held
  <2>5. /\ c.col.eofs = s.col.eofs
        /\ c.col.exited => s.col.exited \/ e = "exit"
    BY <1>1, <1>6 DEF Records, Collectors
  <2> HIDE DEF c
  <2> QED  BY <1>2, <1>6, <2>1, <2>2, <2>3, <2>4, <2>5
<1>7. CASE e = "timeout"
  <2> DEFINE c == IF s.col.exited THEN s
                  ELSE [s EXCEPT !.col.timedOut = TRUE, !.kill = TRUE]
  <2>1. Consume(s, e) = c
    BY <1>7 DEF Consume
  <2>2. c \in Records /\ c.acc = s.acc /\ c.th = s.th
    BY <1>1, <1>2 DEF Records, Collectors
  <2>3. c.col.faults = s.col.faults
    BY <1>1 DEF Records, Collectors
  <2>4. Held(c)
    BY <2>2, <2>3 DEF Held
  <2>5. /\ c.col.eofs = s.col.eofs
        /\ c.col.exited => s.col.exited
    BY <1>1, <1>7 DEF Records, Collectors
  <2> HIDE DEF c
  <2> QED  BY <1>2, <1>7, <2>1, <2>2, <2>3, <2>4, <2>5
<1>8. CASE e = "abort"
  <2> DEFINE c == [s EXCEPT !.kill = TRUE]
  <2>1. Consume(s, e) = c
    BY <1>8 DEF Consume
  <2>2. c \in Records /\ c.acc = s.acc /\ c.th = s.th
    BY <1>1, <1>2 DEF Records, Collectors
  <2>3. c.col.faults = s.col.faults
    BY <1>1 DEF Records, Collectors
  <2>4. Held(c)
    BY <2>2, <2>3 DEF Held
  <2>5. /\ c.col.eofs = s.col.eofs
        /\ c.col.exited => s.col.exited
    BY <1>1, <1>8 DEF Records, Collectors
  <2> HIDE DEF c
  <2> QED  BY <1>2, <1>8, <2>1, <2>2, <2>3, <2>4, <2>5
<1> QED  BY <1>3, <1>4, <1>5, <1>6, <1>7, <1>8 DEF Kinds

----------------------------------------------------------------------------
(* What the queue, the pipes and the task know of each other.              *)

(* An event that is fed is the last one.                                   *)
LEMMA FedIs ==
  ASSUME NEW ev \in Seq(Kinds), NEW k \in Kinds, NEW fed, fed = ev \o <<k>>
  PROVE  /\ fed \in Seq(Kinds)
         /\ \A i \in DOMAIN ev : i \in DOMAIN fed /\ fed[i] = ev[i]
         /\ \A i \in DOMAIN fed : (i \in DOMAIN ev /\ i < Len(ev) + 1) \/ i = Len(ev) + 1
         /\ Len(ev) + 1 \in DOMAIN fed /\ fed[Len(ev) + 1] = k
<1>1. /\ fed \in Seq(Kinds)
      /\ \A i \in DOMAIN ev : i \in DOMAIN fed /\ fed[i] = ev[i]
  OBVIOUS
<1>2. \A i \in DOMAIN fed : (i \in DOMAIN ev /\ i < Len(ev) + 1) \/ i = Len(ev) + 1
  OBVIOUS
<1>3. Len(ev) + 1 \in DOMAIN fed /\ fed[Len(ev) + 1] = k
  OBVIOUS
<1> QED  BY <1>1, <1>2, <1>3

(* One that has been fed is there, beside those there were.                *)
LEMMA HasFed ==
  ASSUME NEW ev \in Seq(Kinds), NEW k \in Kinds, NEW kind
  PROVE  Has(ev \o <<k>>, kind) <=> Has(ev, kind) \/ k = kind
<1> DEFINE fed == ev \o <<k>>
<1>1. /\ \A i \in DOMAIN ev : i \in DOMAIN fed /\ fed[i] = ev[i]
      /\ \A i \in DOMAIN fed : (i \in DOMAIN ev /\ i < Len(ev) + 1) \/ i = Len(ev) + 1
      /\ Len(ev) + 1 \in DOMAIN fed /\ fed[Len(ev) + 1] = k
  BY FedIs
<1> HIDE DEF fed
<1>2. Has(fed, kind) <=> Has(ev, kind) \/ k = kind
  BY <1>1 DEF Has
<1> QED  BY <1>2 DEF fed

(* The event that is taken is the first one.                               *)
LEMMA TakenIs ==
  ASSUME NEW ev \in Seq(Kinds), ev # <<>>
  PROVE  /\ Tail(ev) \in Seq(Kinds) /\ Head(ev) \in Kinds
         /\ \A i \in DOMAIN Tail(ev) : i + 1 \in DOMAIN ev /\ Tail(ev)[i] = ev[i + 1]
         /\ \A j \in DOMAIN ev : j > 1 => j - 1 \in DOMAIN Tail(ev) /\ Tail(ev)[j - 1] = ev[j]
         /\ \A kind : Has(Tail(ev), kind) => Has(ev, kind)
         /\ \A kind : Has(ev, kind) <=> Has(Tail(ev), kind) \/ Head(ev) = kind
<1>1. /\ Tail(ev) \in Seq(Kinds) /\ Head(ev) \in Kinds
      /\ Head(ev) = ev[1] /\ 1 \in DOMAIN ev
      /\ \A i \in DOMAIN Tail(ev) : i + 1 \in DOMAIN ev /\ Tail(ev)[i] = ev[i + 1]
  OBVIOUS
<1>2. \A j \in DOMAIN ev : j = 1 \/ (j - 1 \in DOMAIN Tail(ev) /\ Tail(ev)[j - 1] = ev[j])
  OBVIOUS
<1>3. \A j \in DOMAIN ev : j > 1 => j - 1 \in DOMAIN Tail(ev) /\ Tail(ev)[j - 1] = ev[j]
  BY <1>2
<1>4. ASSUME NEW kind
      PROVE  Has(ev, kind) <=> Has(Tail(ev), kind) \/ Head(ev) = kind
  <2> DEFINE rest == Tail(ev)
  <2>1. /\ ev[1] = Head(ev) /\ 1 \in DOMAIN ev
        /\ \A i \in DOMAIN rest : i + 1 \in DOMAIN ev /\ rest[i] = ev[i + 1]
        /\ \A j \in DOMAIN ev : j = 1 \/ (j - 1 \in DOMAIN rest /\ rest[j - 1] = ev[j])
    BY <1>1, <1>2
  <2> HIDE DEF rest
  <2>2. Has(ev, kind) => Has(rest, kind) \/ Head(ev) = kind
    BY <2>1 DEF Has
  <2>3. Has(rest, kind) \/ Head(ev) = kind => Has(ev, kind)
    BY <2>1 DEF Has
  <2> QED  BY <2>2, <2>3 DEF rest
<1> QED  BY <1>1, <1>3, <1>4

(* The step that takes an event keeps Flow, whatever is made of the event, *)
(* if an eof, an exit and data are counted and a pipe error is noted.      *)
LEMMA TakingKeepsFlow ==
  ASSUME TypeOK, Flow, events # <<>>, events' = Tail(events),
         UNCHANGED <<main, pump, pipe, wrote>>,
         proc'.shell = proc.shell, proc'.kids = proc.kids, Held(Locals)', AccType', ColType',
         col'.eofs = col.eofs - (IF Head(events) = "eof" THEN 1 ELSE 0),
         col'.exited => col.exited \/ Head(events) = "exit",
         col.faults # {} \/ Head(events) = "pipe_error" => col'.faults # {},
         col'.faults = {} =>
             acc'.chunks = acc.chunks + (IF Head(events) = "data" THEN 1 ELSE 0)
  PROVE  Flow'
<1>1. events \in Seq(Kinds)
  BY DEF TypeOK, EventsType
<1> DEFINE e == Head(events)
<1>2. /\ events' \in Seq(Kinds) /\ e \in Kinds
      /\ \A i \in DOMAIN events' : i + 1 \in DOMAIN events /\ events'[i] = events[i + 1]
      /\ \A j \in DOMAIN events : j > 1 => j - 1 \in DOMAIN events' /\ events'[j - 1] = events[j]
      /\ \A kind : Has(events', kind) => Has(events, kind)
      /\ \A kind : Has(events, kind) <=> Has(events', kind) \/ e = kind
  BY <1>1, TakenIs
<1>3. ASSUME NEW kind
      PROVE  Count(events, kind) = Count(events', kind) + (IF e = kind THEN 1 ELSE 0)
  BY <1>1, CountTaken
<1>4. \A kind : Count(events, kind) \in Nat /\ Count(events', kind) \in Nat
  BY <1>1, <1>2, CountIsNat
<1>5. /\ col.eofs \in Nat /\ col'.eofs \in Nat /\ acc.chunks \in Nat /\ acc'.chunks \in Nat
      /\ pipe["out"] \in Nat /\ pipe["err"] \in Nat /\ wrote \in Nat
  BY DEF TypeOK, ColType, AccType, PipeType, RestType, Collectors, Outputs, Streams
<1>6. Gone("out")' = Gone("out") /\ Gone("err")' = Gone("err")
  BY DEF Gone
<1>7. Gone("out") \in {0, 1} /\ Gone("err") \in {0, 1}
  BY DEF Gone
<1>8. Counted'
  <2>1. Count(events, "eof") = Count(events', "eof") + (IF e = "eof" THEN 1 ELSE 0)
    BY <1>3
  <2> DEFINE c == Count(events, "eof")
             d == Count(events', "eof")
             n == col.eofs
             m == col'.eofs
             g == Gone("out")
             h == Gone("err")
  <2>2. c \in Nat /\ d \in Nat /\ n \in Nat /\ m \in Nat /\ g \in {0, 1} /\ h \in {0, 1}
    BY <1>4, <1>5, <1>7
  <2>3. n + g + h = 2 + c
    BY DEF Flow, Counted
  <2>4. \/ c = d + 1 /\ m = n - 1
        \/ c = d /\ m = n
    BY <2>1, <2>2
  <2> HIDE DEF c, d, n, m, g, h
  <2>5. m + g + h = 2 + d
    BY <2>2, <2>3, <2>4
  <2> QED  BY <1>6, <2>5 DEF Counted, d, m, g, h
<1>9. Followed'
  <2> SUFFICES ASSUME Gone("out") + Gone("err") = 2,
                      NEW i \in DOMAIN events', events'[i] \in {"data", "pipe_error"}
               PROVE  \E j \in DOMAIN events' : i < j /\ events'[j] = "eof"
    BY <1>6 DEF Followed
  <2>1. i + 1 \in DOMAIN events /\ events[i + 1] \in {"data", "pipe_error"}
    BY <1>2
  <2>2. PICK j \in DOMAIN events : i + 1 < j /\ events[j] = "eof"
    BY <2>1 DEF Flow, Followed
  <2>3. i \in Nat /\ j \in Nat /\ i \geq 1
    BY <1>1, <1>2
  <2>4. j > 1 /\ i < j - 1
    BY <2>2, <2>3
  <2>5. j - 1 \in DOMAIN events' /\ events'[j - 1] = "eof"
    BY <1>2, <2>2, <2>4
  <2> QED  BY <2>4, <2>5
<1>10. Exits'
  BY <1>2 DEF Flow, Exits
<1>11. Pumped'
  BY <1>2 DEF Flow, Pumped, Closed
<1>12. Balance'
  <2> SUFFICES ASSUME col'.faults = {}
               PROVE  wrote = pipe["out"] + pipe["err"] + Count(events', "data") + acc'.chunks
    BY DEF Balance
  <2>1. Count(events, "data") = Count(events', "data") + (IF e = "data" THEN 1 ELSE 0)
    BY <1>3
  <2>2. wrote = pipe["out"] + pipe["err"] + Count(events, "data") + acc.chunks
    BY DEF Flow, Balance
  <2>3. acc'.chunks = acc.chunks + (IF e = "data" THEN 1 ELSE 0)
    OBVIOUS
  <2>4. Count(events, "data") \in Nat /\ Count(events', "data") \in Nat
    BY <1>4
  <2>5. CASE e = "data"
    <3>1. Count(events, "data") = Count(events', "data") + 1
      BY <2>1, <2>5
    <3>2. acc'.chunks = acc.chunks + 1
      BY <2>3, <2>5
    <3> DEFINE c == Count(events, "data")
               d == Count(events', "data")
               a == acc.chunks
               b == acc'.chunks
               p == pipe["out"]
               q == pipe["err"]
    <3>3. /\ c \in Nat /\ d \in Nat /\ a \in Nat /\ b \in Nat /\ p \in Nat /\ q \in Nat
          /\ c = d + 1 /\ b = a + 1
      BY <1>5, <2>4, <3>1, <3>2
    <3> HIDE DEF a, b, c, d, p, q
    <3>4. p + q + c + a = p + q + d + b
      BY <3>3
    <3>5. pipe["out"] + pipe["err"] + Count(events, "data") + acc.chunks
            = pipe["out"] + pipe["err"] + Count(events', "data") + acc'.chunks
      BY <3>4 DEF a, b, c, d, p, q
    <3> QED  BY <2>2, <3>5
  <2>6. CASE e # "data"
    BY <1>5, <2>1, <2>2, <2>3, <2>4, <2>6
  <2> QED  BY <2>5, <2>6
<1>13. WatchersGone'
  BY DEF Flow, WatchersGone
<1> QED  BY <1>8, <1>9, <1>10, <1>11, <1>12, <1>13 DEF Flow

----------------------------------------------------------------------------
(* The tasks that feed the queue run only while the output is collected.   *)
LEMMA FeedingKeepsIInv ==
  ASSUME IInv, NEW t \in Tasks, pump[t] = "on", PipeType', PumpType', EventsType',
         UNCHANGED <<main, aborted, proc, col, acc, th, disk, wrote>>,
         Live => Flow'
  PROVE  IInv'
<1>1. TypeOK'
  BY DEF IInv, TypeOK, MainType, ProcType, ColType, AccType, ThType, RestType
<1>2. ~Before
  BY DEF IInv, Fresh
<1>3. (Before => Fresh)'
  BY <1>2 DEF Before
<1>4. (Live => Flow)'
  BY DEF Live
<1>5. Shell' /\ Late'
  BY DEF IInv, Shell, Late
<1>6. (main.pc = "ended" /\ ~main.late => Rests)'
  BY DEF IInv, Rests
<1> QED  BY <1>1, <1>3, <1>4, <1>5, <1>6 DEF IInv

(* A pump moves a chunk from its pipe to the queue.                        *)
LEMMA PumpReadsKeepsIInv ==
  ASSUME IInv, NEW s \in Streams, PumpReads(s)
  PROVE  IInv'
<1> USE DEF PumpReads, Feeds
<1>1. /\ pump[s] = "on" /\ pipe[s] \in Nat /\ pipe[s] > 0
      /\ pipe' = [pipe EXCEPT ![s] = pipe[s] - 1] /\ pump' = [pump EXCEPT ![s] = "on"]
      /\ events' = events \o <<"data">>
      /\ UNCHANGED <<command, main, aborted, proc, col, acc, th, disk, left, wrote>>
  BY DEF IInv, TypeOK, PipeType
<1>2. s \in Tasks /\ "data" \in Kinds /\ events \in Seq(Kinds)
  BY DEF Tasks, Kinds, IInv, TypeOK, EventsType
<1>3. pump' = pump
  BY <1>1 DEF IInv, TypeOK, PumpType
<1>4. /\ events' \in Seq(Kinds)
      /\ Has(events', "exit") <=> Has(events, "exit")
      /\ Has(events', "pipe_error") <=> Has(events, "pipe_error")
  BY <1>1, <1>2, FedIs, HasFed
<1>5. PipeType' /\ PumpType' /\ EventsType'
  <2>1. PipeType'
    BY <1>1 DEF IInv, TypeOK, PipeType
  <2>2. PumpType'
    BY <1>3 DEF IInv, TypeOK, PumpType
  <2> QED  BY <1>4, <2>1, <2>2 DEF EventsType
<1>6. ASSUME Live
      PROVE  Flow'
  <2>1. Flow
    BY <1>6 DEF IInv
  <2>2. Count(events', "eof") = Count(events, "eof")
    <3>1. Count(events', "eof") = Count(events, "eof") + (IF "data" = "eof" THEN 1 ELSE 0)
      BY <1>1, <1>2, CountFed
    <3>2. Count(events, "eof") \in Nat
      BY <1>2, CountIsNat
    <3> QED  BY <3>1, <3>2
  <2>3. Gone("out")' = Gone("out") /\ Gone("err")' = Gone("err")
    BY <1>3 DEF Gone
  <2>4. Counted'
    BY <1>1, <2>1, <2>2, <2>3 DEF Flow, Counted
  <2>5. Followed'
    <3>1. Gone("out") + Gone("err") # 2
      BY <1>1 DEF Gone, Streams
    <3> QED  BY <2>3, <3>1 DEF Followed
  <2>6. Exits'
    BY <1>1, <1>3, <1>4, <2>1 DEF Flow, Exits
  <2>7. Pumped'
    BY <1>1, <1>3, <1>4, <2>1 DEF Flow, Pumped, Closed, IInv, TypeOK, PipeType
  <2>8. Balance'
    <3> DEFINE c == Count(events, "data")
               d == Count(events', "data")
               p == pipe["out"]
               q == pipe["err"]
               a == acc.chunks
    <3>1. d = c + 1
      BY <1>1, <1>2, CountFed
    <3>2. c \in Nat /\ p \in Nat /\ q \in Nat /\ a \in Nat
      BY <1>2, CountIsNat DEF IInv, TypeOK, PipeType, AccType, Outputs, Streams
    <3>3. \/ pipe'["out"] = p - 1 /\ pipe'["err"] = q
          \/ pipe'["out"] = p /\ pipe'["err"] = q - 1
      BY <1>1 DEF IInv, TypeOK, PipeType, Streams
    <3>4. col.faults = {} => wrote = p + q + c + a
      BY <2>1 DEF Flow, Balance
    <3> HIDE DEF a, c, d, p, q
    <3> DEFINE p2 == pipe'["out"]
               q2 == pipe'["err"]
    <3>5. \/ p2 = p - 1 /\ q2 = q
          \/ p2 = p /\ q2 = q - 1
      BY <3>3
    <3> HIDE DEF p2, q2
    <3>6. col.faults = {} => wrote = p2 + q2 + d + a
      BY <3>1, <3>2, <3>4, <3>5
    <3> QED  BY <1>1, <3>6 DEF Balance, a, d, p2, q2
  <2>9. Held(Locals)' /\ WatchersGone'
    BY <1>1, <1>3, <2>1 DEF Flow, Held, Locals, WatchersGone
  <2> QED  BY <2>4, <2>5, <2>6, <2>7, <2>8, <2>9 DEF Flow
<1> QED  BY <1>1, <1>2, <1>5, <1>6, FeedingKeepsIInv

(* The end of a pipe is the last that its pump feeds.                      *)
LEMMA EofKeepsFlow ==
  ASSUME TypeOK, Flow, NEW s \in Streams, pump[s] = "on",
         NEW st \in {"done", "failed"}, pump' = [pump EXCEPT ![s] = st],
         NEW ev \in Seq(Kinds), events' = ev \o <<"eof">>,
         Count(ev, "eof") = Count(events, "eof"), Count(ev, "data") = Count(events, "data"),
         Has(ev, "exit") => Has(events, "exit"),
         Has(events, "pipe_error") => Has(ev, "pipe_error"),
         st = "done" => pipe[s] = 0 /\ Closed, st = "failed" => Has(ev, "pipe_error"),
         UNCHANGED <<main, proc, pipe, col, acc, th, wrote>>
  PROVE  Flow'
<1>1. "eof" \in Kinds /\ events \in Seq(Kinds)
  BY DEF Kinds, TypeOK, EventsType
<1>2. /\ events' \in Seq(Kinds)
      /\ \A i \in DOMAIN events' : (i \in DOMAIN ev /\ i < Len(ev) + 1) \/ i = Len(ev) + 1
      /\ Len(ev) + 1 \in DOMAIN events' /\ events'[Len(ev) + 1] = "eof"
  BY <1>1, FedIs
<1>3. /\ Has(events', "exit") => Has(ev, "exit")
      /\ Has(ev, "pipe_error") => Has(events', "pipe_error")
  BY <1>1, HasFed
<1>4. Len(ev) \in Nat
  OBVIOUS
<1>5. Counted'
  <2> DEFINE c == Count(events, "eof")
             d == Count(events', "eof")
             n == col.eofs
             g == Gone("out")
             h == Gone("err")
             i == Gone("out")'
             j == Gone("err")'
  <2>1. d = c + 1
    BY <1>1, CountFed
  <2>2. c \in Nat /\ n \in Nat /\ g \in {0, 1} /\ h \in {0, 1}
    BY <1>1, CountIsNat DEF TypeOK, ColType, Collectors, Gone
  <2>3. \/ i = g + 1 /\ j = h
        \/ i = g /\ j = h + 1
    BY DEF Gone, Streams, TypeOK, PumpType, Tasks
  <2>4. n + g + h = 2 + c
    BY DEF Flow, Counted
  <2> HIDE DEF c, d, n, g, h, i, j
  <2>5. n + i + j = 2 + d
    BY <2>1, <2>2, <2>3, <2>4
  <2> QED  BY <2>5 DEF Counted, d, n, i, j
<1>6. Followed'
  <2> SUFFICES ASSUME NEW i \in DOMAIN events', events'[i] \in {"data", "pipe_error"}
               PROVE  \E j \in DOMAIN events' : i < j /\ events'[j] = "eof"
    BY DEF Followed
  <2>1. i < Len(ev) + 1
    BY <1>2
  <2> QED  BY <1>2, <1>4, <2>1
<1>7. Exits'
  BY <1>3 DEF Flow, Exits, TypeOK, PumpType, Tasks, Streams
<1>8. Pumped'
  BY <1>3 DEF Flow, Pumped, Closed, TypeOK, PumpType, Tasks
<1>9. Balance'
  <2>1. Count(events', "data") = Count(ev, "data") + (IF "eof" = "data" THEN 1 ELSE 0)
    BY <1>1, CountFed
  <2>2. Count(ev, "data") \in Nat
    BY CountIsNat
  <2>3. Count(events', "data") = Count(events, "data")
    BY <2>1, <2>2
  <2> QED  BY <2>3 DEF Flow, Balance
<1>10. Held(Locals)' /\ WatchersGone'
  BY DEF Flow, Held, Locals, WatchersGone, TypeOK, PumpType, Tasks, Streams
<1> QED  BY <1>5, <1>6, <1>7, <1>8, <1>9, <1>10 DEF Flow

(* A pump ends, at the end of its pipe or with its error.                  *)
LEMMA PumpEndsKeepsIInv ==
  ASSUME IInv, NEW s \in Streams, PumpEnds(s)
  PROVE  IInv'
<1> USE DEF PumpEnds, Feeds
<1>1. /\ pump[s] = "on"
      /\ UNCHANGED <<command, main, aborted, proc, pipe, col, acc, th, disk, wrote>>
  OBVIOUS
<1>2. s \in Tasks /\ {"pipe_error", "eof"} \subseteq Kinds /\ events \in Seq(Kinds)
  BY DEF Tasks, Kinds, IInv, TypeOK, EventsType
<1>3. PipeType'
  BY <1>1 DEF IInv, TypeOK, PipeType
<1>4. TypeOK
  BY DEF IInv
<1>5. CASE pipe[s] = 0 /\ Closed /\ Feeds(s, <<"eof">>, "done") /\ UNCHANGED left
  <2>1. events' = events \o <<"eof">> /\ pump' = [pump EXCEPT ![s] = "done"]
    BY <1>5
  <2>2. EventsType' /\ PumpType'
    BY <1>2, <1>4, <2>1 DEF TypeOK, EventsType, PumpType
  <2>3. Live => Flow'
    BY <1>1, <1>2, <1>4, <1>5, <2>1, EofKeepsFlow DEF IInv
  <2> QED  BY <1>1, <1>2, <1>3, <2>2, <2>3, FeedingKeepsIInv
<1>6. CASE Spend("faults") /\ Feeds(s, <<"pipe_error", "eof">>, "failed")
  <2> DEFINE ev == events \o <<"pipe_error">>
  <2>1. events' = ev \o <<"eof">> /\ ev \in Seq(Kinds)
    BY <1>2, <1>6, FedTogether
  <2>2. pump' = [pump EXCEPT ![s] = "failed"]
    BY <1>6
  <2>3. Has(ev, "pipe_error") /\ (Has(ev, "exit") => Has(events, "exit"))
    BY <1>2, HasFed
  <2>4. Count(ev, "eof") = Count(events, "eof") /\ Count(ev, "data") = Count(events, "data")
    <3>1. /\ Count(ev, "eof") = Count(events, "eof") + (IF "pipe_error" = "eof" THEN 1 ELSE 0)
          /\ Count(ev, "data") = Count(events, "data") + (IF "pipe_error" = "data" THEN 1 ELSE 0)
      BY <1>2, CountFed
    <3>2. Count(events, "eof") \in Nat /\ Count(events, "data") \in Nat
      BY <1>2, CountIsNat
    <3> QED  BY <3>1, <3>2
  <2> HIDE DEF ev
  <2>5. EventsType' /\ PumpType'
    BY <1>2, <1>4, <2>1, <2>2 DEF TypeOK, EventsType, PumpType
  <2>6. Live => Flow'
    BY <1>1, <1>2, <1>4, <2>1, <2>2, <2>3, <2>4, EofKeepsFlow DEF IInv
  <2> QED  BY <1>1, <1>2, <1>3, <2>5, <2>6, FeedingKeepsIInv
<1> QED  BY <1>5, <1>6

(* A watcher tells what has occurred: an exit is fed after it.             *)
LEMMA WatchesKeepsIInv ==
  ASSUME IInv, NEW t \in {"exit", "abort", "timeout"}, Watches(t)
  PROVE  IInv'
<1>1. /\ pump[t] = "on" /\ Occurred(t)
      /\ events' = events \o <<t>> /\ pump' = [pump EXCEPT ![t] = "done"]
      /\ UNCHANGED <<command, main, aborted, proc, pipe, col, acc, th, disk, left, wrote>>
  BY DEF Watches, Feeds
<1>2. t \in Tasks /\ t \in Kinds /\ t \notin Streams /\ events \in Seq(Kinds)
  BY DEF Tasks, Kinds, Streams, IInv, TypeOK, EventsType
<1>3. /\ events' \in Seq(Kinds)
      /\ \A i \in DOMAIN events : i \in DOMAIN events' /\ events'[i] = events[i]
      /\ \A i \in DOMAIN events' : i \in DOMAIN events \/ events'[i] = t
  BY <1>1, <1>2, FedIs
<1>4. /\ Has(events', "exit") => Has(events, "exit") \/ t = "exit"
      /\ Has(events, "pipe_error") => Has(events', "pipe_error")
  BY <1>1, <1>2, HasFed
<1>5. PipeType' /\ PumpType' /\ EventsType'
  BY <1>1, <1>2, <1>3 DEF IInv, TypeOK, PipeType, PumpType, EventsType
<1>6. ASSUME Live
      PROVE  Flow'
  <2>1. Flow /\ TypeOK
    BY <1>6 DEF IInv
  <2>2. \A s \in Streams : pump'[s] = pump[s]
    BY <1>1, <1>2, <2>1 DEF TypeOK, PumpType, Tasks
  <2>3. Gone("out")' = Gone("out") /\ Gone("err")' = Gone("err")
    BY <2>2 DEF Gone, Streams
  <2>4. Count(events', "eof") = Count(events, "eof") /\ Count(events', "data") = Count(events, "data")
    <3>1. /\ Count(events', "eof") = Count(events, "eof") + (IF t = "eof" THEN 1 ELSE 0)
          /\ Count(events', "data") = Count(events, "data") + (IF t = "data" THEN 1 ELSE 0)
      BY <1>1, <1>2, CountFed
    <3>2. Count(events, "eof") \in Nat /\ Count(events, "data") \in Nat
      BY <1>2, CountIsNat
    <3> QED  BY <3>1, <3>2
  <2>5. Counted'
    BY <1>1, <2>1, <2>3, <2>4 DEF Flow, Counted
  <2>6. Followed'
    <3> SUFFICES ASSUME Gone("out") + Gone("err") = 2,
                        NEW i \in DOMAIN events', events'[i] \in {"data", "pipe_error"}
                 PROVE  \E j \in DOMAIN events' : i < j /\ events'[j] = "eof"
      BY <2>3 DEF Followed
    <3>1. i \in DOMAIN events /\ events[i] \in {"data", "pipe_error"}
      BY <1>3
    <3>2. PICK j \in DOMAIN events : i < j /\ events[j] = "eof"
      BY <2>1, <3>1 DEF Flow, Followed
    <3> QED  BY <1>3, <3>2
  <2>7. Exits'
    BY <1>1, <1>4, <2>1 DEF Flow, Exits, Occurred, TypeOK, PumpType, Tasks
  <2>8. Pumped'
    BY <1>1, <1>4, <2>1, <2>2 DEF Flow, Pumped, Closed
  <2>9. Balance'
    BY <1>1, <2>1, <2>4 DEF Flow, Balance
  <2>10. Held(Locals)'
    BY <1>1, <2>1 DEF Flow, Held, Locals
  <2>11. WatchersGone'
    BY <1>1, <2>1 DEF Flow, WatchersGone, TypeOK, PumpType, Tasks
  <2> QED  BY <2>5, <2>6, <2>7, <2>8, <2>9, <2>10, <2>11 DEF Flow
<1> QED  BY <1>1, <1>2, <1>5, <1>6, FeedingKeepsIInv

----------------------------------------------------------------------------
(* What happens around the call, and the update that waits.                *)

(* What does not touch the output, and lets no process start.              *)
LEMMA OutsideKeepsIInv ==
  ASSUME IInv, main.pc # "ended",
         UNCHANGED <<pipe, pump, events, col, acc, th, wrote>>,
         MainType', main'.pc = main.pc, main'.late = main.late, main'.result = main.result,
         ProcType', proc'.killed = proc.killed,
         proc.shell = "none" <=> proc'.shell = "none",
         proc.shell = "exited" => proc'.shell = "exited", Closed => Closed',
         RestType'
  PROVE  IInv'
<1>1. TypeOK'
  BY DEF IInv, TypeOK, PipeType, PumpType, EventsType, ColType, AccType, ThType
<1>2. (Before => Fresh)'
  BY DEF IInv, Before, Fresh
<1>3. ASSUME Live
      PROVE  Flow'
  <2>1. Flow
    BY <1>3 DEF IInv
  <2>2. Counted' /\ Followed' /\ Balance'
    BY <2>1 DEF Flow, Counted, Followed, Balance, Gone
  <2>3. Exits' /\ Pumped'
    BY <2>1 DEF Flow, Exits, Pumped
  <2>4. Held(Locals)' /\ WatchersGone'
    BY <2>1 DEF Flow, Held, Locals, WatchersGone
  <2> QED  BY <2>2, <2>3, <2>4 DEF Flow
<1>4. (Live => Flow)'
  BY <1>3 DEF Live
<1>5. Shell' /\ Late'
  BY DEF IInv, Shell, Late
<1> QED  BY <1>1, <1>2, <1>4, <1>5 DEF IInv

(* The processes exit: nothing can be written any more.                    *)
LEMMA ProcessesKeepIInv ==
  ASSUME IInv, ShellExits \/ KidsExit
  PROVE  IInv'
<1>1. MainType /\ ProcType /\ RestType
  BY DEF IInv, TypeOK
<1>2. /\ main.pc # "ended"
      /\ UNCHANGED <<main, aborted, pipe, pump, events, col, acc, th, disk, wrote>>
  BY DEF ShellExits, KidsExit
<1>3. MainType' /\ RestType'
  BY <1>1, <1>2 DEF MainType, RestType
<1>4. CASE ShellExits
  <2>1. /\ ProcType' /\ proc.shell = "running" /\ proc'.shell = "exited"
        /\ proc'.killed = proc.killed /\ proc'.kids = proc.kids
    BY <1>1, <1>4 DEF ShellExits, ProcType
  <2> QED  BY <1>2, <1>3, <2>1, OutsideKeepsIInv DEF Closed
<1>5. CASE KidsExit
  <2>1. /\ ProcType' /\ proc'.shell = proc.shell /\ proc'.killed = proc.killed
        /\ ~proc'.kids
    BY <1>1, <1>5 DEF KidsExit, ProcType
  <2> QED  BY <1>2, <1>3, <2>1, OutsideKeepsIInv DEF Closed
<1> QED  BY <1>4, <1>5

(* The disk fails, the signal is set, the task is cancelled.               *)
LEMMA SignalsKeepIInv ==
  ASSUME IInv, DiskFails \/ Abort \/ Cancel
  PROVE  IInv'
<1>1. MainType /\ ProcType /\ RestType
  BY DEF IInv, TypeOK
<1>2. /\ main.pc # "ended"
      /\ UNCHANGED <<proc, pipe, pump, events, col, acc, th, wrote>>
  BY DEF DiskFails, Abort, Cancel
<1>3. /\ MainType' /\ main'.pc = main.pc /\ main'.late = main.late
      /\ main'.result = main.result
  BY <1>1 DEF DiskFails, Abort, Cancel, MainType
<1>4. RestType'
  BY <1>1 DEF DiskFails, Abort, Cancel, RestType
<1>5. ProcType' /\ (Closed => Closed')
  BY <1>1, <1>2 DEF ProcType, Closed
<1> QED  BY <1>2, <1>3, <1>4, <1>5, OutsideKeepsIInv

(* What is written into a pipe is in it, as long as anything can write.    *)
LEMMA WritesKeepsIInv ==
  ASSUME IInv, NEW s \in Streams, Writes(s)
  PROVE  IInv'
<1>1. /\ Writing /\ main.pc # "ended"
      /\ pipe' = [pipe EXCEPT ![s] = pipe[s] + 1] /\ wrote' = wrote + 1
      /\ UNCHANGED <<command, main, aborted, proc, pump, events, col, acc, th, disk>>
  BY DEF Writes
<1> DEFINE p == pipe["out"]
           q == pipe["err"]
           p2 == pipe'["out"]
           q2 == pipe'["err"]
<1>2. /\ p \in Nat /\ q \in Nat /\ wrote \in Nat
      /\ \/ p2 = p + 1 /\ q2 = q
         \/ p2 = p /\ q2 = q + 1
  BY <1>1 DEF IInv, TypeOK, PipeType, RestType, Streams
<1>3. TypeOK'
  <2>1. PipeType' /\ RestType'
    BY <1>1 DEF IInv, TypeOK, PipeType, RestType
  <2> QED  BY <1>1, <2>1 DEF IInv, TypeOK, MainType, ProcType, PumpType, EventsType, ColType,
                            AccType, ThType
<1>4. (Before => Fresh)'
  <2> SUFFICES ASSUME Before
               PROVE  Fresh'
    BY <1>1 DEF Before
  <2>1. Fresh
    BY DEF IInv
  <2>2. wrote = p + q
    BY <2>1 DEF Fresh
  <2> HIDE DEF p, q, p2, q2
  <2>3. wrote' = p2 + q2
    BY <1>1, <1>2, <2>2
  <2> QED  BY <1>1, <2>1, <2>3 DEF Fresh, p2, q2
<1>5. ASSUME Live
      PROVE  Flow'
  <2>1. Flow
    BY <1>5 DEF IInv
  <2>2. Counted' /\ Followed' /\ Exits'
    BY <1>1, <2>1 DEF Flow, Counted, Followed, Exits, Gone
  <2>3. Pumped'
    BY <1>1, <2>1 DEF Flow, Pumped, Writing, Closed
  <2>4. Balance'
    <3> DEFINE c == Count(events, "data")
               a == acc.chunks
    <3>1. c \in Nat /\ a \in Nat
      BY CountIsNat DEF IInv, TypeOK, EventsType, AccType, Outputs
    <3>2. col.faults = {} => wrote = p + q + c + a
      BY <2>1 DEF Flow, Balance
    <3> HIDE DEF p, q, p2, q2, c, a
    <3>3. col.faults = {} => wrote' = p2 + q2 + c + a
      BY <1>1, <1>2, <3>1, <3>2
    <3> QED  BY <1>1, <3>3 DEF Balance, p2, q2, c, a
  <2>5. Held(Locals)' /\ WatchersGone'
    BY <1>1, <2>1 DEF Flow, Held, Locals, WatchersGone
  <2> QED  BY <2>2, <2>3, <2>4, <2>5 DEF Flow
<1>6. (Live => Flow)'
  BY <1>1, <1>5 DEF Live
<1>7. Shell' /\ Late'
  BY <1>1 DEF IInv, Shell, Late
<1> QED  BY <1>1, <1>3, <1>4, <1>6, <1>7 DEF IInv

(* What the throttle does on its own, once nothing is appended any more.   *)
LEMMA EmitAloneIs ==
  ASSUME NEW s \in Pairs, RestType
  PROVE  /\ Emit(s) \in Pairs
         /\ Emit(s).acc.chunks = s.acc.chunks /\ ~Emit(s).th.timer
         /\ s.acc.bad # "none" => Emit(s).acc.bad # "none"
         /\ s.acc.path \/ ~Over(s.acc) \/ ~s.th.open =>
              /\ Emit(s).acc = s.acc /\ Emit(s).th.open = s.th.open
              /\ Emit(s).th.exposed => s.th.exposed \/ s.acc.path
<1> DEFINE a == IF Over(s.acc) /\ ~s.acc.path THEN Spill(s.acc) ELSE s.acc
<1>1. s.acc \in Outputs /\ s.th \in Throttles
  BY DEF Pairs
<1>2. /\ a \in Outputs /\ a.chunks = s.acc.chunks
      /\ s.acc.bad # "none" => a.bad # "none"
  BY <1>1, SpillIs
<1>3. CASE ~s.th.open \/ aborted \/ ~s.th.dirty
  BY <1>3 DEF Emit, Pairs, Throttles
<1>4. CASE ~(~s.th.open \/ aborted \/ ~s.th.dirty)
  <2> DEFINE t == [s.th EXCEPT !.timer = FALSE, !.dirty = FALSE, !.due = FALSE]
             u == IF Over(s.acc) /\ ~s.acc.path /\ disk # "ok" THEN CloseAdmission(t)
                  ELSE [t EXCEPT !.exposed = @ \/ Over(s.acc)]
  <2>1. Emit(s) = [s EXCEPT !.acc = a, !.th = u]
    BY <1>4 DEF Emit
  <2>2. /\ u \in Throttles /\ ~u.timer
        /\ s.acc.path \/ ~Over(s.acc) =>
             u.open = s.th.open /\ (u.exposed => s.th.exposed \/ s.acc.path)
    BY <1>1 DEF Throttles, CloseAdmission, Over
  <2>3. s.acc.path \/ ~Over(s.acc) => a = s.acc
    OBVIOUS
  <2> HIDE DEF a, u
  <2>4. [s EXCEPT !.acc = a, !.th = u].acc = a /\ [s EXCEPT !.acc = a, !.th = u].th = u
    BY DEF Pairs
  <2>5. [s EXCEPT !.acc = a, !.th = u] \in Pairs
    BY <1>2, <2>2 DEF Pairs
  <2> QED  BY <1>2, <1>4, <2>1, <2>2, <2>3, <2>4, <2>5
<1> QED  BY <1>3, <1>4

(* The timer of the update, while the call lives and after.                *)
LEMMA ThrottleFiresKeepsIInv ==
  ASSUME IInv, ThrottleFires
  PROVE  IInv'
<1> DEFINE s == [acc |-> acc, th |-> th]
<1>1. /\ th.timer /\ acc' = Emit(s).acc /\ th' = Emit(s).th
      /\ UNCHANGED <<command, main, aborted, proc, pipe, pump, events, col, disk, left, wrote>>
  BY DEF ThrottleFires
<1>2. s \in Pairs /\ s.acc = acc /\ s.th = th /\ RestType
  BY DEF IInv, TypeOK, AccType, ThType, Pairs
<1> HIDE DEF s
<1>3. /\ Emit(s) \in Pairs
      /\ Emit(s).acc.chunks = acc.chunks /\ ~Emit(s).th.timer
      /\ acc.bad # "none" => Emit(s).acc.bad # "none"
      /\ acc.path \/ ~Over(acc) \/ ~th.open =>
           /\ Emit(s).acc = acc /\ Emit(s).th.open = th.open
           /\ Emit(s).th.exposed => th.exposed \/ acc.path
  BY <1>2, EmitAloneIs
<1>4. TypeOK'
  <2>1. AccType' /\ ThType'
    BY <1>1, <1>3 DEF Pairs, AccType, ThType
  <2> QED  BY <1>1, <2>1 DEF IInv, TypeOK, MainType, ProcType, PipeType, PumpType, EventsType,
                            ColType, RestType
<1>5. (Before => Fresh)'
  <2>1. ~Before
    BY <1>1 DEF IInv, Fresh
  <2> QED  BY <1>1, <2>1 DEF Before
<1>6. ASSUME Live
      PROVE  Flow'
  <2>1. Flow
    BY <1>6 DEF IInv
  <2>2. Held(Locals)
    BY <2>1 DEF Flow
  <2>3. acc.path \/ ~Over(acc) \/ ~th.open
    BY <2>2, BashToolAssumption DEF Held, Locals, Whole, Over, IInv, TypeOK, AccType, Outputs
  <2>4. acc' = acc /\ th'.open = th.open /\ ~th'.timer /\ (th'.exposed => th.exposed \/ acc.path)
    BY <1>1, <1>3, <2>3
  <2>5. Held(Locals)'
    BY <1>1, <2>2, <2>4 DEF Held, Locals
  <2>6. Counted' /\ Followed' /\ Balance' /\ Exits'
    BY <1>1, <2>1, <2>4 DEF Flow, Counted, Followed, Balance, Exits, Gone
  <2>7. Pumped' /\ WatchersGone'
    BY <1>1, <2>1 DEF Flow, Pumped, Closed, WatchersGone
  <2> QED  BY <2>5, <2>6, <2>7 DEF Flow
<1>7. (Live => Flow)'
  BY <1>1, <1>6 DEF Live
<1>8. Shell' /\ Late'
  BY <1>1 DEF IInv, Shell, Late
<1>9. ASSUME main.pc = "ended", ~main.late
      PROVE  Rests'
  <2>1. Rests /\ Unwritten
    BY <1>1, <1>9 DEF IInv, Rests
  <2>2. Unwritten'
    BY <1>1, <1>3, <2>1 DEF Unwritten
  <2>3. ~Answered'
    BY <1>1, <2>1 DEF Rests, Unwritten, Answered
  <2> QED  BY <1>1, <1>3, <2>1, <2>2, <2>3 DEF Rests
<1>10. (main.pc = "ended" /\ ~main.late => Rests)'
  BY <1>1, <1>9
<1> QED  BY <1>4, <1>5, <1>7, <1>8, <1>10 DEF IInv

(* The time between two updates passes.                                    *)
LEMMA IntervalPassesKeepsIInv ==
  ASSUME IInv, IntervalPasses
  PROVE  IInv'
<1>1. /\ main.pc = "collect" /\ th' = [th EXCEPT !.due = TRUE]
      /\ UNCHANGED <<command, main, aborted, proc, pipe, pump, events, col, acc, disk, left, wrote>>
  BY DEF IntervalPasses
<1>2. /\ ThType' /\ th'.open = th.open /\ th'.timer = th.timer /\ th'.exposed = th.exposed
  BY <1>1 DEF IInv, TypeOK, ThType, Throttles
<1>3. TypeOK'
  BY <1>1, <1>2 DEF IInv, TypeOK, MainType, ProcType, PipeType, PumpType, EventsType, ColType,
                    AccType, RestType
<1>4. Flow
  BY <1>1 DEF IInv, Live
<1>5. Flow'
  <2>1. Held(Locals)'
    BY <1>1, <1>2, <1>4 DEF Flow, Held, Locals
  <2>2. Counted' /\ Followed' /\ Balance' /\ Exits'
    BY <1>1, <1>4 DEF Flow, Counted, Followed, Balance, Exits, Gone
  <2>3. Pumped' /\ WatchersGone'
    BY <1>1, <1>4 DEF Flow, Pumped, Closed, WatchersGone
  <2> QED  BY <2>1, <2>2, <2>3 DEF Flow
<1>6. ~Before' /\ main'.pc # "ended"
  BY <1>1 DEF Before
<1>7. Shell' /\ Late'
  BY <1>1 DEF IInv, Shell, Late
<1> QED  BY <1>3, <1>5, <1>6, <1>7 DEF IInv

----------------------------------------------------------------------------
(* The task until it collects the output: it has nothing yet, and ends in  *)
(* order only when the shell is gone.                                      *)
LEMMA EarlyKeepsIInv ==
  ASSUME IInv, Before,
         UNCHANGED <<aborted, pipe, pump, events, col, acc, th, disk, wrote>>,
         MainType', ProcType', main'.pc \notin {"collect", "drain"}, ~main'.late,
         Shell', main'.pc = "handler" => main'.result \in {"cancelled", "error"} /\ proc'.killed,
         main'.pc = "ended" =>
            /\ main'.result \notin {"completed", "timed_out"}
            /\ proc'.shell # "running"
            /\ main'.result \in {"cancelled", "error"} /\ proc'.shell # "none" => proc'.killed
  PROVE  IInv'
<1>1. Fresh
  BY DEF IInv
<1>2. TypeOK'
  BY DEF IInv, TypeOK, PipeType, PumpType, EventsType, ColType, AccType, ThType, RestType
<1>3. Fresh'
  BY <1>1 DEF Fresh
<1>4. Late'
  BY DEF Late
<1>5. ASSUME main'.pc = "ended"
      PROVE  Rests'
  BY <1>3, <1>5 DEF Rests, Fresh, Unwritten, Answered, ProcType
<1> QED  BY <1>2, <1>3, <1>4, <1>5 DEF IInv, Live

(* The steps up to the start of the shell.                                 *)
LEMMA CalledKeepsIInv ==
  ASSUME IInv, Called \/ Checks \/ Spawns
  PROVE  IInv'
<1> USE DEF Goes, Ends
<1>1. MainType /\ ProcType /\ Shell /\ Late
  BY DEF IInv, TypeOK
<1>2. Before /\ proc.shell = "none" /\ ~main.late
  BY <1>1 DEF Called, Checks, Spawns, Before, Shell, Late
<1>3. UNCHANGED <<aborted, pipe, pump, events, col, acc, th, disk, wrote>>
  BY DEF Called, Checks, Spawns
<1>4. CASE Called
  <2>1. /\ MainType' /\ main'.pc \in {"checking", "ended"} /\ ~main'.late
        /\ UNCHANGED proc
        /\ main'.pc = "ended" => main'.result = "cancelled"
    BY <1>1, <1>2, <1>4 DEF Called, MainType
  <2> QED  BY <1>1, <1>2, <1>3, <2>1, EarlyKeepsIInv DEF ProcType, Shell
<1>5. CASE Checks
  <2>1. /\ MainType' /\ main'.pc \in {"checking", "spawning", "ended"} /\ ~main'.late
        /\ UNCHANGED proc
        /\ main'.pc = "ended" => main'.result \in {"cancelled", "refused"}
    BY <1>1, <1>2, <1>5 DEF Checks, MainType
  <2> QED  BY <1>1, <1>2, <1>3, <2>1, EarlyKeepsIInv DEF ProcType, Shell
<1>6. CASE Spawns
  <2>1. /\ MainType' /\ ~main'.late /\ ProcType'
        /\ \/ main'.pc = "spawning"
           \/ /\ main'.pc = "ended" /\ UNCHANGED proc
              /\ main'.result \in {"cancelled", "refused"}
    BY <1>1, <1>2, <1>6 DEF Spawns, MainType, ProcType
  <2> QED  BY <1>1, <1>2, <1>3, <2>1, EarlyKeepsIInv DEF Shell
<1> QED  BY <1>4, <1>5, <1>6

(* A cancel while the shell starts.                                        *)
LEMMA SpawnCancelledKeepsIInv ==
  ASSUME IInv, SpawnCancelled
  PROVE  IInv'
<1>1. MainType /\ ProcType /\ Late
  BY DEF IInv, TypeOK
<1>2. /\ Before /\ ~main.late
      /\ UNCHANGED <<aborted, pipe, pump, events, col, acc, th, disk, wrote>>
  BY <1>1 DEF SpawnCancelled, Before, Late
<1> QED  BY <1>1, <1>2, EarlyKeepsIInv DEF SpawnCancelled, Ends, MainType, ProcType, Shell

(* The except clause, entered with nothing collected.                      *)
LEMMA EarlyRaisesKeepsIInv ==
  ASSUME IInv, main.pc \in {"spawning", "spawned"}, proc.shell # "none", Raises("cancelled"),
         UNCHANGED <<command, aborted, pipe, pump, events, col, acc, th, disk, left, wrote>>
  PROVE  IInv'
<1>1. MainType /\ ProcType /\ Before /\ Fresh
  BY DEF IInv, TypeOK, Before
<1>2. \A s \in Streams : pump[s] = "none"
  BY <1>1 DEF Fresh, Tasks
<1>3. /\ main' = [main EXCEPT !.hit = FALSE, !.late = FALSE,
                             !.pc = IF Handled THEN "ended" ELSE "handler",
                             !.result = "cancelled"]
      /\ proc' = [proc EXCEPT !.killed = TRUE]
  BY <1>1, <1>2 DEF Raises, MainType
<1>4. Handled => proc.shell = "exited"
  BY DEF Handled
<1> QED  BY <1>1, <1>3, <1>4, EarlyKeepsIInv DEF MainType, ProcType, Shell

(* The shell has started, and the signal is looked at.                     *)
LEMMA SpawnedKeepsIInv ==
  ASSUME IInv, Spawned
  PROVE  IInv'
<1>1. CASE aborted
  BY <1>1, EarlyRaisesKeepsIInv DEF Spawned
<1>2. CASE ~aborted
  <2>1. MainType /\ ProcType /\ Late
    BY DEF IInv, TypeOK
  <2>2. /\ Before /\ ~main.late
        /\ UNCHANGED <<aborted, pipe, pump, events, col, acc, th, disk, wrote>>
    BY <2>1 DEF Spawned, Before, Late
  <2> QED  BY <1>2, <2>1, <2>2, EarlyKeepsIInv DEF Spawned, Goes, MainType, ProcType, Shell
<1> QED  BY <1>1, <1>2

(* The pumps and watchers start with nothing collected.                    *)
LEMMA CollectsKeepsIInv ==
  ASSUME IInv, Collects
  PROVE  IInv'
<1>1. MainType /\ ProcType /\ Shell /\ Late /\ Before /\ Fresh /\ TypeOK
  BY DEF Collects, IInv, TypeOK, Before
<1>2. main.pc = "spawned" /\ proc.shell # "none" /\ ~main.late
  BY <1>1 DEF Collects, Shell, Late
<1>3. CASE main.hit \/ aborted
  BY <1>2, <1>3, EarlyRaisesKeepsIInv DEF Collects
<1>4. CASE ~(main.hit \/ aborted)
  <2>1. /\ main' = [main EXCEPT !.pc = "collect"] /\ UNCHANGED proc
        /\ pump' = [t \in Tasks |-> IF t = "timeout" /\ ~command.timeout THEN "none" ELSE "on"]
        /\ UNCHANGED <<command, aborted, pipe, events, col, acc, th, disk, left, wrote>>
    BY <1>1, <1>4 DEF Collects, Goes, TypeOK, PumpType
  <2>2. TypeOK'
    <3>1. MainType' /\ PumpType'
      BY <1>1, <2>1 DEF MainType, PumpType
    <3> QED  BY <1>1, <2>1, <3>1 DEF TypeOK, ProcType, PipeType, EventsType, ColType, AccType,
                                    ThType, RestType
  <2>3. /\ main'.pc = "collect" /\ ~main'.late
    BY <1>1, <1>2, <2>1 DEF MainType
  <2>4. Shell' /\ Late' /\ ~Before'
    BY <1>2, <2>1, <2>3 DEF Shell, Late, Before
  <2>5. \A t \in {"out", "err", "exit"} : pump'[t] = "on"
    BY <2>1 DEF Tasks, Streams
  <2>6. Counted' /\ Followed'
    <3>1. Gone("out")' = 0 /\ Gone("err")' = 0
      BY <2>5 DEF Gone
    <3>2. Count(events', "eof") = 0 /\ col'.eofs = 2
      BY <1>1, <2>1, CountEmpty DEF Fresh
    <3> QED  BY <3>1, <3>2 DEF Counted, Followed
  <2>7. Exits'
    <3>1. ~col'.exited /\ ~Has(events', "exit")
      BY <1>1, <2>1, CountEmpty DEF Fresh
    <3> QED  BY <2>5, <3>1 DEF Exits
  <2>8. Pumped' /\ WatchersGone'
    BY <2>3, <2>5 DEF Pumped, WatchersGone, Streams
  <2>9. Balance'
    <3> DEFINE p == pipe["out"]
               q == pipe["err"]
               c == Count(events', "data")
    <3>1. c = 0
      BY <1>1, <2>1, CountEmpty DEF Fresh
    <3>2. acc.chunks = 0 /\ wrote = p + q
      BY <1>1 DEF Fresh
    <3>3. p \in Nat /\ q \in Nat
      BY <1>1 DEF TypeOK, PipeType, Streams
    <3> HIDE DEF p, q, c
    <3>4. wrote = p + q + c + acc.chunks
      BY <3>1, <3>2, <3>3
    <3> QED  BY <2>1, <3>4 DEF Balance, p, q, c
  <2>10. Held(Locals)'
    <3>1. /\ acc'.path = FALSE /\ acc'.handle = FALSE /\ acc'.file = FALSE /\ acc'.bad = "none"
          /\ acc'.extra = 0 /\ acc'.chunks = 0
          /\ col'.faults = {} /\ ~th'.timer /\ ~th'.exposed
      BY <1>1, <2>1 DEF Fresh
    <3>2. ~(0 > Limit)
      BY BashToolAssumption
    <3> QED  BY <3>1, <3>2 DEF Held, Locals, Whole
  <2>11. Flow'
    BY <2>6, <2>7, <2>8, <2>9, <2>10 DEF Flow
  <2> QED  BY <2>2, <2>3, <2>4, <2>11 DEF IInv
<1> QED  BY <1>3, <1>4

(* The except clause ends, or a cancel ends it.                            *)
LEMMA HandlerEndsKeepsIInv ==
  ASSUME IInv, HandlerEnds
  PROVE  IInv'
<1>1. MainType /\ ProcType /\ Shell /\ Late /\ TypeOK
  BY DEF IInv, TypeOK
<1>2. /\ main.pc = "handler"
      /\ UNCHANGED <<command, aborted, proc, pipe, pump, events, col, acc, th, disk, left, wrote>>
      /\ main.result \in {"cancelled", "error"} /\ proc.killed
  BY <1>1 DEF HandlerEnds, Late
<1>3. CASE ~main.hit /\ ~main.late
  <2>1. main' = [main EXCEPT !.pc = "ended"] /\ proc.shell = "exited"
    BY <1>3 DEF HandlerEnds, Goes, Handled
  <2> QED  BY <1>1, <1>2, <1>3, <2>1, EarlyKeepsIInv DEF Before, MainType, ProcType, Shell
<1>4. CASE main.hit \/ main.late
  <2>1. MainType' /\ main'.pc = "ended" /\ main'.late /\ main'.result = main.result
    BY <1>1, <1>2, <1>4 DEF HandlerEnds, Goes, MainType
  <2>2. TypeOK'
    BY <1>1, <1>2, <2>1 DEF TypeOK, ProcType, PipeType, PumpType, EventsType, ColType, AccType,
                            ThType, RestType
  <2> QED  BY <1>2, <2>1, <2>2 DEF IInv, Before, Live, Shell, Late
<1> QED  BY <1>3, <1>4

----------------------------------------------------------------------------
(* _collect_bash_result.                                                   *)

(* An eof in the queue is one of those that the task still waits for.      *)
LEMMA EofsLeft ==
  ASSUME TypeOK, Flow, Has(events, "eof")
  PROVE  col.eofs # 0
<1> DEFINE c == Count(events, "eof")
           g == Gone("out")
           h == Gone("err")
<1>1. c \in Nat /\ c # 0
  BY CountIsNat DEF TypeOK, EventsType
<1>2. g \in {0, 1} /\ h \in {0, 1} /\ col.eofs \in Nat
  BY DEF Gone, TypeOK, ColType, Collectors
<1>3. col.eofs + g + h = 2 + c
  BY DEF Flow, Counted
<1> HIDE DEF c, g, h
<1> QED  BY <1>1, <1>2, <1>3

(* The two loops that take the events.                                     *)
LEMMA ConsumingKeepsIInv ==
  ASSUME IInv, Collecting \/ Drains
  PROVE  IInv'
<1> DEFINE e == Head(events)
           s == Consume(Locals, e)
<1>1. /\ Live /\ TypeOK /\ Flow /\ events # <<>> /\ events' = Tail(events)
      /\ UNCHANGED <<command, main, aborted, pipe, pump, disk, left, wrote>>
  BY DEF Collecting, Drains, Takes, IInv, Live
<1>2. e \in Kinds /\ events' \in Seq(Kinds)
  BY <1>1, TakenIs DEF TypeOK, EventsType
<1>3. /\ ProcType' /\ proc'.shell = proc.shell /\ proc'.kids = proc.kids
      /\ AccType' /\ ColType' /\ ThType' /\ Held(Locals)'
      /\ col'.eofs = col.eofs - (IF e = "eof" THEN 1 ELSE 0)
      /\ col'.exited => col.exited \/ e = "exit"
      /\ col.faults # {} \/ e = "pipe_error" => col'.faults # {}
      /\ col'.faults = {} => acc'.chunks = acc.chunks + (IF e = "data" THEN 1 ELSE 0)
  <2>1. CASE Takes(s)
    <3>1. Locals \in Records /\ RestType /\ Held(Locals)
      BY <1>1 DEF TypeOK, ColType, AccType, ThType, ProcType, Records, Locals, Flow
    <3>2. Locals.col = col /\ Locals.acc = acc
      BY DEF Locals
    <3>3. e = "eof" => col.eofs # 0
      <4>1. e = "eof" => Has(events, "eof")
        BY <1>1 DEF Has, TypeOK, EventsType
      <4> QED  BY <1>1, <4>1, EofsLeft
    <3> HIDE DEF e
    <3>4. /\ s \in Records /\ Held(s)
          /\ s.col.eofs = col.eofs - (IF e = "eof" THEN 1 ELSE 0)
          /\ s.col.exited => col.exited \/ e = "exit"
          /\ col.faults # {} \/ e = "pipe_error" => s.col.faults # {}
          /\ s.col.faults = {} => s.acc.chunks = acc.chunks + (IF e = "data" THEN 1 ELSE 0)
      BY <1>2, <3>1, <3>2, <3>3, ConsumeIs
    <3>5. /\ col' = s.col /\ acc' = s.acc /\ th' = s.th
          /\ proc' = [proc EXCEPT !.killed = s.kill]
      BY <2>1 DEF Takes
    <3> HIDE DEF s
    <3>6. /\ s.col \in Collectors /\ s.acc \in Outputs /\ s.th \in Throttles
          /\ s.kill \in BOOLEAN
      BY <3>4 DEF Records
    <3>7. ProcType' /\ proc'.shell = proc.shell /\ proc'.kids = proc.kids
      BY <1>1, <3>5, <3>6 DEF TypeOK, ProcType
    <3>8. Held(Locals)'
      BY <3>4, <3>5 DEF Held, Locals
    <3> QED  BY <3>4, <3>5, <3>6, <3>7, <3>8 DEF AccType, ColType, ThType
  <2>2. CASE e \in {"timeout", "abort"} /\ UNCHANGED <<proc, col, acc, th>>
    <3>1. AccType' /\ ColType' /\ ThType' /\ ProcType'
      BY <1>1, <2>2 DEF TypeOK, AccType, ColType, ThType, ProcType
    <3>2. Held(Locals)'
      BY <1>1, <2>2 DEF Flow, Held, Locals
    <3>3. col.eofs \in Nat /\ acc.chunks \in Nat
      BY <1>1 DEF TypeOK, AccType, ColType, Collectors, Outputs
    <3> QED  BY <2>2, <3>1, <3>2, <3>3
  <2> QED  BY <2>1, <2>2 DEF Collecting, Drains
<1>4. Flow'
  BY <1>1, <1>3, TakingKeepsFlow
<1>5. TypeOK'
  BY <1>1, <1>2, <1>3 DEF TypeOK, MainType, PipeType, PumpType, EventsType, RestType
<1>6. Shell' /\ Late' /\ ~Before' /\ main'.pc # "ended"
  BY <1>1, <1>3 DEF IInv, Shell, Late, Before, Live
<1> QED  BY <1>4, <1>5, <1>6 DEF IInv

(* The watchers of the signal and of the timeout are of no use any more.   *)
LEMMA DrainingKeepsIInv ==
  ASSUME IInv, Collected \/ CollectCancelled
  PROVE  IInv'
<1>1. /\ main.pc = "collect" /\ ~main.late /\ TypeOK /\ Flow
      /\ UNCHANGED <<command, aborted, pipe, events, acc, th, disk, left, wrote>>
  BY DEF Collected, CollectCancelled, IInv, Live, Late
<1>2. /\ MainType' /\ main'.pc = "drain" /\ ~main'.late
      /\ ProcType' /\ proc'.shell = proc.shell /\ proc'.kids = proc.kids
  BY <1>1 DEF Collected, CollectCancelled, Goes, TypeOK, MainType, ProcType
<1>3. /\ ColType' /\ col'.eofs = col.eofs /\ col'.exited = col.exited
      /\ col'.faults = col.faults
  BY <1>1 DEF Collected, CollectCancelled, TypeOK, ColType, Collectors
<1>4. /\ PumpType' /\ pump'["abort"] = "none" /\ pump'["timeout"] = "none"
      /\ \A t \in {"out", "err", "exit"} : pump'[t] = pump[t]
  BY <1>1 DEF Collected, CollectCancelled, WatchersOff, TypeOK, PumpType, Tasks, Streams
<1>5. TypeOK'
  BY <1>1, <1>2, <1>3, <1>4 DEF TypeOK, PipeType, EventsType, AccType, ThType, RestType
<1>6. Flow'
  <2>1. Gone("out")' = Gone("out") /\ Gone("err")' = Gone("err")
    BY <1>4 DEF Gone
  <2>2. Counted' /\ Followed' /\ Balance'
    BY <1>1, <1>3, <2>1 DEF Flow, Counted, Followed, Balance
  <2>3. Exits'
    BY <1>1, <1>2, <1>3, <1>4 DEF Flow, Exits
  <2>4. Pumped'
    BY <1>1, <1>2, <1>3, <1>4 DEF Flow, Pumped, Closed, Streams
  <2>5. Held(Locals)' /\ WatchersGone'
    BY <1>1, <1>3, <1>4 DEF Flow, Held, Locals, WatchersGone
  <2> QED  BY <2>2, <2>3, <2>4, <2>5 DEF Flow
<1>7. Shell' /\ Late' /\ ~Before'
  BY <1>1, <1>2 DEF IInv, Shell, Late, Before
<1> QED  BY <1>2, <1>5, <1>6, <1>7 DEF IInv

(* A cancel once the events are no longer waited for.                      *)
LEMMA DrainCancelledKeepsIInv ==
  ASSUME IInv, DrainCancelled
  PROVE  IInv'
<1>1. /\ main.pc = "drain" /\ main.hit /\ TypeOK /\ Shell /\ Raises("cancelled")
      /\ UNCHANGED <<command, aborted, pipe, pump, events, col, acc, th, disk, left, wrote>>
  BY DEF DrainCancelled, IInv
<1>2. /\ MainType' /\ main'.pc \in {"handler", "ended"} /\ main'.late
      /\ main'.result \in {"cancelled", "error"}
      /\ ProcType' /\ proc'.shell = proc.shell /\ proc'.killed
  BY <1>1 DEF Raises, TypeOK, MainType, ProcType
<1>3. TypeOK'
  BY <1>1, <1>2 DEF TypeOK, PipeType, PumpType, EventsType, ColType, AccType, ThType, RestType
<1>4. Shell' /\ Late' /\ ~Before' /\ ~Live'
  BY <1>1, <1>2 DEF Shell, Late, Before, Live
<1> QED  BY <1>2, <1>3, <1>4 DEF IInv

(* When both pipes have ended and the shell has, everything has been read. *)
LEMMA AllRead ==
  ASSUME TypeOK, Flow, Complete(Locals)
  PROVE  /\ \A t \in Streams \cup {"exit"} : pump[t] \in {"done", "failed"}
         /\ proc.shell = "exited"
         /\ col.faults = {} => wrote = acc.chunks /\ Whole(acc)
<1> DEFINE c == Count(events, "eof")
           d == Count(events, "data")
           g == Gone("out")
           h == Gone("err")
           p == pipe["out"]
           q == pipe["err"]
           a == acc.chunks
<1>1. col.eofs = 0 /\ col.exited
  BY DEF Complete, Locals
<1>2. events \in Seq(Kinds) /\ c \in Nat /\ d \in Nat
  BY CountIsNat DEF TypeOK, EventsType
<1>3. g = 1 /\ h = 1 /\ c = 0
  <2>1. g \in {0, 1} /\ h \in {0, 1}
    BY DEF Gone
  <2>2. 0 + g + h = 2 + c
    BY <1>1 DEF Flow, Counted
  <2> HIDE DEF c, g, h
  <2> QED  BY <1>2, <2>1, <2>2
<1>4. pump["out"] \in {"done", "failed"} /\ pump["err"] \in {"done", "failed"}
  BY <1>3 DEF Gone
<1>5. pump["exit"] = "done" /\ proc.shell = "exited"
  BY <1>1 DEF Flow, Exits
<1>6. ~Has(events, "eof")
  BY <1>2, <1>3, CountIsNat
<1>7. \A i \in DOMAIN events : events[i] \notin {"data", "pipe_error"}
  BY <1>3, <1>6 DEF Flow, Followed, Has
<1>8. ~Has(events, "data") /\ ~Has(events, "pipe_error")
  BY <1>7 DEF Has
<1>9. d = 0
  BY <1>2, <1>8, CountIsNat
<1>10. ASSUME col.faults = {}
       PROVE  wrote = acc.chunks /\ Whole(acc)
  <2>1. pump["out"] = "done" /\ pump["err"] = "done"
    BY <1>4, <1>8, <1>10 DEF Flow, Pumped, Streams
  <2>2. p = 0 /\ q = 0
    BY <2>1 DEF Flow, Pumped, Streams
  <2>3. wrote = p + q + d + a
    BY <1>10 DEF Flow, Balance
  <2>4. a \in Nat
    BY DEF TypeOK, AccType, Outputs
  <2>5. wrote = a
    <3> HIDE DEF p, q, d, a
    <3> QED  BY <1>9, <2>2, <2>3, <2>4
  <2> QED  BY <1>10, <2>5 DEF Flow, Held, Locals
<1> QED  BY <1>4, <1>5, <1>10 DEF Streams

(* The spill file at the end of the call.                                  *)
LEMMA SpillEnds ==
  ASSUME NEW a \in Outputs
  PROVE  /\ CloseSpill(a) \in Outputs /\ AbandonSpill(a) \in Outputs
         /\ CloseSpill(a).handle = FALSE /\ AbandonSpill(a).handle = FALSE
         /\ AbandonSpill(a).file = FALSE /\ CloseSpill(a).file = a.file
         /\ CloseSpill(a).saved = a.saved
         /\ CloseSpill(a).chunks = a.chunks /\ AbandonSpill(a).chunks = a.chunks
         /\ CloseSpill(a).extra = a.extra /\ AbandonSpill(a).bad = a.bad
         /\ CloseSpill(a).bad \in {a.bad, "odd"}
BY DEF Outputs, CloseSpill, AbandonSpill

(* finish() with persist: afterwards output that is too long is in a file, *)
(* whole, or there is a fault of a file that was not needed before.        *)
LEMMA FinishIs ==
  ASSUME NEW a \in Outputs, RestType, NEW extra \in {0, 1},
         a.file = a.path, a.handle = a.path, a.bad = "none", Whole(a)
  PROVE  LET b == FinishOutput(a, extra, TRUE)
         IN  /\ b \in Outputs /\ b.chunks = a.chunks
             /\ b.bad # "none" => a.chunks <= Limit
             /\ b.bad = "none" => /\ b.file = b.path /\ (b.path <=> Over(b))
                                  /\ b.path => b.saved = a.chunks
<1> DEFINE b == [a EXCEPT !.extra = extra]
<1>1. /\ b \in Outputs /\ b.chunks = a.chunks /\ b.extra = extra /\ b.bad = "none"
      /\ b.file = b.path /\ b.handle = b.path /\ b.path = a.path /\ b.saved = a.saved
  BY DEF Outputs
<1>2. FinishOutput(a, extra, TRUE) = IF Over(b) /\ ~b.path THEN Spill(b) ELSE b
  BY DEF FinishOutput
<1>3. a.chunks \in Nat /\ Limit \in Nat
  BY BashToolAssumption DEF Outputs
<1> HIDE DEF b
<1>4. CASE Over(b) /\ ~b.path
  <2> DEFINE c == Spill(b)
  <2>1. /\ c \in Outputs /\ c.chunks = b.chunks /\ c.extra = b.extra
        /\ c.file = c.path
        /\ c.bad = "none" => c.path /\ c.saved = b.chunks
    BY <1>1, SpillIs
  <2>2. c.path \in BOOLEAN
    BY <2>1 DEF Outputs
  <2>3. a.chunks <= Limit
    BY <1>1, <1>3, <1>4 DEF Whole
  <2>4. Over(c)
    BY <1>4, <2>1 DEF Over
  <2> HIDE DEF c
  <2>5. FinishOutput(a, extra, TRUE) = c
    BY <1>2, <1>4 DEF c
  <2> QED  BY <1>1, <2>1, <2>2, <2>3, <2>4, <2>5
<1>5. CASE ~(Over(b) /\ ~b.path)
  <2>1. b.path => Over(b)
    BY <1>1, <1>3 DEF Over, Whole
  <2>2. FinishOutput(a, extra, TRUE) = b
    BY <1>2, <1>5
  <2>3. b.path \in BOOLEAN
    BY <1>1 DEF Outputs
  <2> QED  BY <1>1, <1>5, <2>1, <2>2, <2>3 DEF Whole
<1> QED  BY <1>4, <1>5

(* The last update leaves such output as it is, and no timer.              *)
LEMMA FlushIs ==
  ASSUME NEW s \in Pairs, RestType, s.acc.path \/ ~Over(s.acc), NEW marked \in BOOLEAN
  PROVE  LET t == Flush(IF marked THEN Mark(s) ELSE s)
         IN  t \in Pairs /\ t.acc = s.acc /\ ~t.th.timer
<1> DEFINE m == IF marked THEN Mark(s) ELSE s
<1>1. m \in Pairs /\ m.acc = s.acc
  <2>1. CASE ~marked \/ ~s.th.open \/ aborted
    BY <2>1 DEF Mark
  <2>2. CASE ~(~marked \/ ~s.th.open \/ aborted) /\ s.th.due
    <3> DEFINE d == [s EXCEPT !.th.dirty = TRUE]
    <3>1. d \in Pairs /\ d.acc = s.acc
      BY DEF Pairs, Throttles
    <3>2. m = Emit(d)
      BY <2>2 DEF Mark
    <3> HIDE DEF d
    <3>3. Emit(d) \in Pairs /\ Emit(d).acc = d.acc
      BY <3>1, EmitAloneIs
    <3> QED  BY <3>1, <3>2, <3>3
  <2>3. CASE ~(~marked \/ ~s.th.open \/ aborted) /\ ~s.th.due
    BY <2>3 DEF Mark, Pairs, Throttles
  <2> QED  BY <2>1, <2>2, <2>3
<1> HIDE DEF m
<1>2. CASE m.th.dirty
  <2>1. Emit(m) \in Pairs /\ Emit(m).acc = m.acc /\ ~Emit(m).th.timer
    BY <1>1, EmitAloneIs
  <2> QED  BY <1>1, <1>2, <2>1 DEF Flush, m
<1>3. CASE ~m.th.dirty
  <2>1. Flush(m) = [m EXCEPT !.th.timer = FALSE]
    BY <1>3 DEF Flush
  <2>2. Flush(m) \in Pairs /\ Flush(m).acc = m.acc /\ ~Flush(m).th.timer
    BY <1>1, <2>1 DEF Pairs, Throttles
  <2> QED  BY <1>1, <2>2 DEF m
<1> QED  BY <1>2, <1>3

(* The except clause of execute_bash, all having been read: it has nothing *)
(* to wait for, and the group has been killed.                             *)
LEMMA RaisingEnds ==
  ASSUME TypeOK, Flow, main.pc = "drain", ~main.hit, Complete(Locals),
         NEW result \in {"cancelled", "error"}, Raises(result)
  PROVE  /\ MainType' /\ main'.pc = "ended" /\ ~main'.late
         /\ main'.result \in {"cancelled", "error"}
         /\ ProcType' /\ proc'.shell = "exited" /\ proc'.killed
<1>1. /\ MainType /\ ProcType /\ proc.shell = "exited"
      /\ pump["out"] # "none"
  BY AllRead DEF TypeOK, Streams
<1>2. Handled
  BY <1>1 DEF Handled
<1> QED  BY <1>1, <1>2 DEF Raises, MainType, ProcType

(* The other ends, with a result.                                          *)
LEMMA EndingEnds ==
  ASSUME TypeOK, Flow, main.pc = "drain", ~main.late, Complete(Locals),
         NEW result \in {"infra", "completed", "timed_out"}, Ends(result), UNCHANGED proc
  PROVE  /\ MainType' /\ main'.pc = "ended" /\ ~main'.late /\ main'.result = result
         /\ ProcType' /\ proc'.shell = "exited"
BY AllRead DEF Ends, TypeOK, MainType, ProcType

(* A call that was stopped, or met a fault.                                *)
LEMMA FailedRests ==
  ASSUME IInv, main.pc = "drain", ~main.hit, Complete(Locals), NEW extra \in {0, 1},
         Failed(extra), UNCHANGED <<aborted, pump, col, wrote>>
  PROVE  /\ MainType' /\ main'.pc = "ended" /\ ~main'.late /\ ProcType'
         /\ AccType' /\ ThType' /\ Rests'
<1> DEFINE a == [acc EXCEPT !.extra = extra]
           b == IF Retain THEN CloseSpill(a) ELSE AbandonSpill(a)
<1>1. TypeOK /\ Flow /\ ~main.late
  BY DEF IInv, Live, Late
<1>2. a \in Outputs /\ a.file = acc.file /\ a.bad = "none"
  BY <1>1 DEF TypeOK, AccType, Outputs, Flow, Held, Locals
<1>3. /\ th' = CloseAdmission(th) /\ acc' = [b EXCEPT !.bad = "none"]
      /\ \/ Raises("error")
         \/ Raises("cancelled")
         \/ Ends("infra") /\ UNCHANGED proc
  BY DEF Failed, FinishOutput
<1> HIDE DEF a
<1>4. /\ b \in Outputs /\ b.handle = FALSE
      /\ b.file = IF Retain THEN acc.file ELSE FALSE
  BY <1>2, SpillEnds
<1> HIDE DEF b
<1>5. AccType' /\ acc'.bad = "none" /\ acc'.handle = FALSE /\ acc'.file = b.file
  BY <1>3, <1>4 DEF AccType, Outputs
<1>6. ThType' /\ ~th'.timer /\ th'.exposed = th.exposed
  BY <1>1, <1>3 DEF TypeOK, ThType, Throttles, CloseAdmission
<1>7. /\ MainType' /\ main'.pc = "ended" /\ ~main'.late /\ ProcType' /\ proc'.shell = "exited"
      /\ main'.result \in {"cancelled", "error", "infra"}
      /\ main'.result \in {"cancelled", "error"} => proc'.killed
  BY <1>1, <1>3, RaisingEnds, EndingEnds
<1>8. \A t \in Tasks : pump'[t] # "on"
  <2>1. \A t \in Streams \cup {"exit"} : pump[t] \in {"done", "failed"}
    BY <1>1, AllRead
  <2>2. pump["abort"] = "none" /\ pump["timeout"] = "none"
    BY <1>1 DEF Flow, WatchersGone
  <2> QED  BY <2>1, <2>2 DEF Tasks
<1>9. ~Answered'
  BY <1>7 DEF Answered
<1>10. acc'.file <=> (Stopped /\ th.exposed)'
  <2>1. th.exposed => acc.file
    BY <1>1 DEF Flow, Held, Locals, TypeOK, AccType, Outputs
  <2>2. acc.file \in BOOLEAN
    BY <1>1 DEF TypeOK, AccType, Outputs
  <2>3. Stopped' <=> Stopped
    BY DEF Stopped
  <2>4. th'.exposed <=> th.exposed
    BY <1>6
  <2> QED  BY <1>4, <1>5, <2>1, <2>2, <2>3, <2>4 DEF Retain
<1>11. Rests'
  BY <1>5, <1>6, <1>7, <1>8, <1>9, <1>10 DEF Rests, Unwritten
<1> QED  BY <1>5, <1>6, <1>7, <1>11

(* A call that has its result, unless the spill file meets a fault.        *)
LEMMA SucceededRests ==
  ASSUME IInv, main.pc = "drain", ~main.hit, Complete(Locals), NEW extra \in {0, 1},
         Succeeded(extra), ~Stopped, col.faults = {}, UNCHANGED <<aborted, pump, col, wrote>>
  PROVE  /\ MainType' /\ main'.pc = "ended" /\ ~main'.late /\ ProcType'
         /\ AccType' /\ ThType' /\ Rests'
<1> DEFINE a == FinishOutput(acc, extra, TRUE)
           s == [acc |-> a, th |-> th]
           t == Flush(IF extra > 0 THEN Mark(s) ELSE s)
           b == IF a.bad # "none" THEN a ELSE CloseSpill(t.acc)
<1>1. TypeOK /\ Flow /\ ~main.late
  BY DEF IInv, Live, Late
<1>2. acc \in Outputs /\ th \in Throttles /\ RestType
  BY <1>1 DEF TypeOK, AccType, ThType
<1>3. wrote = acc.chunks /\ Whole(acc)
  BY <1>1, AllRead
<1>4. /\ a \in Outputs /\ a.chunks = acc.chunks
      /\ a.bad # "none" => acc.chunks <= Limit
      /\ a.bad = "none" => /\ a.file = a.path /\ (a.path <=> Over(a))
                           /\ a.path => a.saved = acc.chunks
  BY <1>1, <1>2, <1>3, FinishIs DEF Flow, Held, Locals
<1>5. /\ th' = IF a.bad # "none" THEN th ELSE t.th
      /\ acc' = IF b.bad # "none" THEN AbandonSpill(b) ELSE b
      /\ \/ b.bad = "odd" /\ Raises("error")
         \/ b.bad = "known" /\ Ends("infra") /\ UNCHANGED proc
         \/ /\ b.bad \notin {"odd", "known"} /\ UNCHANGED proc
            /\ Ends(IF col.timedOut THEN "timed_out" ELSE "completed")
  BY DEF Succeeded
<1> HIDE DEF a
<1>6. a.bad = "none" => t \in Pairs /\ t.acc = a /\ ~t.th.timer
  <2>1. s \in Pairs /\ s.acc = a
    BY <1>2, <1>4 DEF Pairs
  <2>2. (extra > 0) \in BOOLEAN
    OBVIOUS
  <2> HIDE DEF s
  <2>3. a.bad = "none" => s.acc.path \/ ~Over(s.acc)
    BY <1>4, <2>1
  <2> QED  BY <1>2, <2>1, <2>2, <2>3, FlushIs
<1> HIDE DEF t
<1>7. /\ b \in Outputs /\ b.chunks = acc.chunks
      /\ a.bad # "none" => b = a
      /\ a.bad = "none" => /\ b.handle = FALSE /\ b.file = a.file /\ b.saved = a.saved
                           /\ b.extra = a.extra /\ b.bad \in {"none", "odd"}
  <2>1. CASE a.bad # "none"
    BY <1>4, <2>1
  <2>2. CASE a.bad = "none"
    <3>1. b = CloseSpill(a)
      BY <1>6, <2>2
    <3>2. /\ CloseSpill(a) \in Outputs /\ CloseSpill(a).chunks = a.chunks
          /\ CloseSpill(a).handle = FALSE /\ CloseSpill(a).file = a.file
          /\ CloseSpill(a).saved = a.saved /\ CloseSpill(a).extra = a.extra
          /\ CloseSpill(a).bad \in {a.bad, "odd"}
      BY <1>4, SpillEnds
    <3> QED  BY <1>4, <2>2, <3>1, <3>2
  <2> QED  BY <2>1, <2>2
<1> HIDE DEF b
<1>8. ThType' /\ (a.bad = "none" => ~th'.timer)
  BY <1>2, <1>5, <1>6 DEF ThType, Pairs
<1>9. /\ AccType' /\ acc'.chunks = acc.chunks /\ acc'.bad = b.bad
      /\ b.bad # "none" => acc'.file = FALSE /\ acc'.handle = FALSE
      /\ b.bad = "none" => acc' = b
  BY <1>5, <1>7, SpillEnds DEF AccType
<1>10. /\ MainType' /\ main'.pc = "ended" /\ ~main'.late /\ ProcType' /\ proc'.shell = "exited"
       /\ main'.result \in {"completed", "timed_out"} => b.bad = "none"
       /\ b.bad = "none" => main'.result \in {"completed", "timed_out"}
       /\ main'.result \in {"cancelled", "error"} => proc'.killed
  <2>1. CASE b.bad = "odd" /\ Raises("error")
    BY <1>1, <2>1, RaisingEnds
  <2>2. CASE b.bad = "known" /\ Ends("infra") /\ UNCHANGED proc
    BY <1>1, <2>2, EndingEnds
  <2>3. CASE /\ b.bad \notin {"odd", "known"} /\ UNCHANGED proc
             /\ Ends(IF col.timedOut THEN "timed_out" ELSE "completed")
    <3>1. b.bad = "none"
      BY <1>7, <2>3 DEF Outputs
    <3> DEFINE r == IF col.timedOut THEN "timed_out" ELSE "completed"
    <3>2. r \in {"completed", "timed_out"} /\ Ends(r)
      BY <2>3
    <3> HIDE DEF r
    <3>3. /\ MainType' /\ main'.pc = "ended" /\ ~main'.late /\ main'.result = r
          /\ ProcType' /\ proc'.shell = "exited"
      BY <1>1, <2>3, <3>2, EndingEnds
    <3> QED  BY <3>1, <3>2, <3>3
  <2> QED  BY <1>5, <2>1, <2>2, <2>3
<1>11. \A u \in Tasks : pump'[u] # "on"
  <2>1. \A u \in Streams \cup {"exit"} : pump[u] \in {"done", "failed"}
    BY <1>1, AllRead
  <2>2. pump["abort"] = "none" /\ pump["timeout"] = "none"
    BY <1>1 DEF Flow, WatchersGone
  <2> QED  BY <2>1, <2>2 DEF Tasks
<1>12. th'.timer => Unwritten'
  BY <1>4, <1>7, <1>8, <1>9 DEF Unwritten
<1>13. ~Stopped'
  BY DEF Stopped
<1>14. Answered' <=> b.bad = "none"
  BY <1>10 DEF Answered
<1>15. CASE b.bad = "none"
  <2>1. a.bad = "none" /\ acc' = b
    BY <1>7, <1>9, <1>15
  <2>2. a.path <=> Over(acc)'
    <3>1. b.chunks = a.chunks /\ b.extra = a.extra
      BY <1>4, <1>7, <2>1
    <3>2. Over(acc)' <=> Over(a)
      BY <2>1, <3>1 DEF Over
    <3> QED  BY <1>4, <2>1, <3>2
  <2>3. a.path \in BOOLEAN /\ a.file \in BOOLEAN
    BY <1>4 DEF Outputs
  <2>4. /\ acc'.handle = FALSE /\ acc'.file = a.path
        /\ acc'.file => acc'.saved = acc'.chunks
    <3>1. /\ b.handle = FALSE /\ b.file = a.file /\ b.saved = a.saved /\ b.chunks = acc.chunks
          /\ a.file = a.path
      BY <1>4, <1>7, <2>1
    <3>2. a.path => a.saved = acc.chunks
      BY <1>4, <2>1
    <3> QED  BY <2>1, <3>1, <3>2
  <2>5. acc'.file <=> Over(acc)'
    BY <2>2, <2>3, <2>4
  <2>6. wrote' = acc'.chunks
    BY <1>3, <1>9
  <2> QED  BY <1>8, <1>9, <1>10, <1>11, <1>12, <1>13, <1>14, <1>15, <2>4, <2>5, <2>6 DEF Rests
<1>16. CASE b.bad # "none"
  BY <1>8, <1>9, <1>10, <1>11, <1>12, <1>13, <1>14, <1>16 DEF Rests
<1> QED  BY <1>8, <1>9, <1>10, <1>15, <1>16

(* The end of the call, stopped or not.                                    *)
LEMMA FinishesKeepsIInv ==
  ASSUME IInv, Finishes
  PROVE  IInv'
<1>1. /\ main.pc = "drain" /\ ~main.hit /\ Complete(Locals)
      /\ UNCHANGED <<command, aborted, pipe, pump, events, col, disk, left, wrote>>
  BY DEF Finishes
<1>2. PICK extra \in {0, 1} :
         IF Stopped \/ col.faults # {} THEN Failed(extra) ELSE Succeeded(extra)
  BY DEF Finishes
<1>3. /\ MainType' /\ main'.pc = "ended" /\ ~main'.late /\ ProcType'
      /\ AccType' /\ ThType' /\ Rests'
  BY <1>1, <1>2, FailedRests, SucceededRests
<1>4. TypeOK'
  BY <1>1, <1>3 DEF IInv, TypeOK, PipeType, PumpType, EventsType, ColType, RestType
<1>5. Shell' /\ Late' /\ ~Before' /\ ~Live'
  BY <1>3 DEF Shell, Late, Before, Live
<1> QED  BY <1>3, <1>4, <1>5 DEF IInv

----------------------------------------------------------------------------
(* The theorems.                                                           *)

(* A call starts so, and every step keeps it.                              *)
LEMMA InitIInv == Init => IInv
<1> SUFFICES ASSUME Init PROVE IInv
  OBVIOUS
<1>1. TypeOK
  <2>1. MainType /\ ProcType /\ PipeType /\ PumpType /\ RestType
    BY DEF Init, MainType, ProcType, PipeType, PumpType, RestType, Tasks
  <2>2. EventsType /\ ColType /\ AccType /\ ThType
    BY DEF Init, EventsType, ColType, AccType, ThType, Collectors, Outputs, Throttles
  <2> QED  BY <2>1, <2>2 DEF TypeOK
<1>2. Fresh
  BY DEF Init, Fresh, Tasks, Streams
<1> QED  BY <1>1, <1>2 DEF Init, IInv, Live, Shell, Late

LEMMA NextIInv == IInv /\ [Next]_vars => IInv'
<1> SUFFICES ASSUME IInv, [Next]_vars PROVE IInv'
  OBVIOUS
<1>1. CASE Task
  BY <1>1, CalledKeepsIInv, SpawnCancelledKeepsIInv, SpawnedKeepsIInv, CollectsKeepsIInv,
     HandlerEndsKeepsIInv, ConsumingKeepsIInv, DrainingKeepsIInv, DrainCancelledKeepsIInv,
     FinishesKeepsIInv DEF Task
<1>2. CASE Pumps
  BY <1>2, PumpReadsKeepsIInv, PumpEndsKeepsIInv, WatchesKeepsIInv DEF Pumps
<1>3. CASE Outside
  BY <1>3, WritesKeepsIInv, ProcessesKeepIInv, SignalsKeepIInv, ThrottleFiresKeepsIInv,
     IntervalPassesKeepsIInv DEF Outside
<1>4. CASE UNCHANGED vars
  <2>1. TypeOK'
    BY <1>4 DEF vars, IInv, TypeOK, MainType, ProcType, PipeType, PumpType, EventsType, ColType,
                AccType, ThType, RestType
  <2>2. (Before => Fresh)'
    BY <1>4 DEF vars, IInv, Before, Fresh
  <2>3. (Live => Flow)'
    <3>1. Live => Counted' /\ Followed' /\ Exits' /\ Pumped'
      BY <1>4 DEF vars, IInv, Live, Flow, Counted, Followed, Exits, Pumped, Gone, Closed
    <3>2. Live => Balance' /\ Held(Locals)' /\ WatchersGone'
      BY <1>4 DEF vars, IInv, Live, Flow, Balance, Held, Locals, WatchersGone
    <3> QED  BY <1>4, <3>1, <3>2 DEF vars, Flow, Live
  <2>4. Shell' /\ Late'
    BY <1>4 DEF vars, IInv, Shell, Late
  <2>5. (main.pc = "ended" /\ ~main.late => Rests)'
    BY <1>4 DEF vars, IInv, Rests, Unwritten, Answered, Stopped
  <2> QED  BY <2>1, <2>2, <2>3, <2>4, <2>5 DEF IInv
<1> QED  BY <1>1, <1>2, <1>3, <1>4 DEF Next

(* The inductive invariant holds.                                          *)
THEOREM Invariance == Spec => []IInv
BY InitIInv, NextIInv, PTL DEF Spec

(* Every variable stays in its type.                                       *)
THEOREM TypeCorrect == Spec => []TypeOK
<1>1. IInv => TypeOK
  BY DEF IInv
<1> QED  BY <1>1, Invariance, PTL

(* For every limit and every command: a result holds all that the command  *)
(* has written, or names a file that does, and the file stays exactly when *)
(* somebody knows of it.                                                   *)
THEOREM AllKept == Spec => []OutputKept
<1>1. IInv => OutputKept
  <2> SUFFICES ASSUME IInv PROVE OutputKept
    OBVIOUS
  <2>1. Answered => main.pc = "ended" /\ ~main.late
    BY DEF IInv, Late, Answered
  <2>2. main.pc = "ended" /\ ~main.late => Rests
    BY DEF IInv
  <2>3. Answered => acc.chunks = wrote /\ (acc.file => acc.saved = acc.chunks)
    BY <2>1, <2>2 DEF Rests
  <2>4. main.pc = "ended" /\ ~main.late /\ ~Unwritten =>
          /\ acc.file <=> (Answered /\ Over(acc)) \/ (Stopped /\ th.exposed)
          /\ ~acc.handle
    BY <2>2 DEF Rests
  <2> QED  BY <2>3, <2>4 DEF OutputKept
<1> QED  BY <1>1, Invariance, PTL

(* And a call that raises has killed the group of its shell; it leaves no   *)
(* shell, task of its own or timer behind, unless a cancel came late.       *)
THEOREM NobodyLeft == Spec => []NothingLeft
<1>1. IInv => NothingLeft
  <2> SUFFICES ASSUME IInv, main.pc = "ended", proc.shell # "none"
               PROVE  /\ main.result \in {"cancelled", "error"} => proc.killed
                      /\ ~main.late => /\ proc.shell = "exited"
                                       /\ \A t \in DOMAIN pump : pump[t] # "on"
                                       /\ ~th.timer \/ Unwritten
    BY DEF NothingLeft
  <2>1. DOMAIN pump = Tasks
    BY DEF IInv, TypeOK, PumpType
  <2>2. CASE main.late
    BY <2>2 DEF IInv, Late
  <2>3. CASE ~main.late
    <3>1. Rests
      BY <2>3 DEF IInv
    <3> QED  BY <2>1, <3>1 DEF Rests
  <2> QED  BY <2>2, <2>3
<1> QED  BY <1>1, Invariance, PTL
=============================================================================
