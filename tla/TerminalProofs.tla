----------------------------- MODULE TerminalProofs -----------------------------
(***************************************************************************)
(* Theorems of ProjectTrust, for every set of processes and directories and  *)
(* for every number of faults: the documents are those of PolicyBook. And   *)
(* of InteractiveTerminal, for whatever is typed: it is busy for a reason.  *)
(*                                                                         *)
(* A process is between the acquisition and the release of a document's     *)
(* lock exactly when it owns it, so that what it is about to replace is      *)
(* still what it has read. And what a process resolves from two documents,  *)
(* read one after the other, has been right at some moment since it began.  *)
(*                                                                         *)
(* The work that makes the terminal busy is in one place: in the queue, in  *)
(* a dialogue, or with the loop; what is queued behind a command is none.   *)
(***************************************************************************)
EXTENDS ProjectTrust, InteractiveTerminal, WellFoundedInduction, TLAPS

Places == {"start", "look", "lock", "read", "write", "replace", "release", "asking", "ended"}
Holding(p) == proc[p].pc \in {"read", "write", "replace", "release"}
Updating(p) == proc[p].pc \in {"write", "replace"}

Reasons == {"none", "resolve", "pending", "save"}
Failures == {"none", "document", "read", "write"}
Ends == {"none", "trusted", "untrusted", "saved", "error", "refused", "cancelled", "killed"}

Process ==
    [pc : Places, why : Reasons, on : Documents, tries : Nat, read : Documented, fail : Failures,
     committed : BOOLEAN, choice : Book!TrustChoices \cup Book!Defaults \cup {"none"}, end : Ends]

ProcTypeOK == proc \in [Processes -> Process]
TypedTypeOK ==
    typed \in [Processes -> [lines : Seq(Answers \cup {"eof"}), left : Nat,
                             resized : BOOLEAN, signal : BOOLEAN]]
DocsTypeOK == docs \in Documented
OwnerTypeOK == owner \in [Documents -> Processes \cup {Nobody}]
TempsTypeOK == temps \subseteq Processes \X Documents
SinceTypeOK == since \in [Processes -> [right : SUBSET BOOLEAN, changed : SUBSET Documents]]
OtherTypeOK == world \in Worlds /\ faults \in Nat

TypeOK ==
    /\ ProcTypeOK /\ TypedTypeOK /\ DocsTypeOK /\ OwnerTypeOK /\ TempsTypeOK
    /\ SinceTypeOK /\ OtherTypeOK

(* What a process is for and where it is: only one that saves updates a     *)
(* document, it saves what the document is for, and it commits once.        *)
Course(p) ==
    LET r == proc[p]
    IN  /\ r.pc = "start" => r.why = "none" /\ r.on = "trust"
        /\ r.pc = "look" => r.why \in {"resolve", "pending"}
        /\ r.pc = "asking" => r.why = "pending"
        /\ Updating(p) => r.why = "save"
        /\ r.why = "save" => r.choice \in IF r.on = "trust" THEN Book!TrustChoices ELSE Book!Defaults
        /\ r.why # "save" => r.choice = "none"
        /\ r.pc = "release" /\ r.why = "save" => r.committed \/ r.fail # "none"
        /\ r.committed => r.pc \in {"release", "ended"} /\ r.why = "save" /\ r.fail = "none"
        /\ r.fail # "none" => r.pc \in {"release", "ended"}
        /\ r.end # "none" => r.pc = "ended"

(* How it may have ended.                                                   *)
Outcome(p) ==
    LET r == proc[p]
    IN  /\ r.end = "saved" => r.committed
        /\ r.end \in {"error", "refused", "cancelled"} => ~r.committed
        /\ r.end \in {"trusted", "untrusted"} => (r.committed <=> r.why = "save")

LockHeld(p) == \A d \in Documents : owner[d] = p <=> Holding(p) /\ proc[p].on = d

FreshRead(p) == Updating(p) => proc[p].read[proc[p].on] = docs[proc[p].on]

Leftovers(p) ==
    \A d \in Documents : <<p, d>> \in temps =>
        \/ proc[p].pc = "replace" /\ proc[p].on = d
        \/ proc[p].fail = "write"
        \/ proc[p].end = "killed"

IInv ==
    /\ TypeOK
    /\ \A p \in Processes : Course(p) /\ Outcome(p) /\ LockHeld(p) /\ FreshRead(p) /\ Leftovers(p)

-----------------------------------------------------------------------------
(* What Set makes of the record of a process.                               *)

Fields == {"pc", "why", "on", "tries", "read", "fail", "committed", "choice", "end"}

Becomes(p, r) == proc' = [proc EXCEPT ![p] = r] /\ r \in Process

LEMMA SetTo ==
  ASSUME ProcTypeOK, NEW p \in Processes, NEW fields, Set(p, fields)
  PROVE  /\ proc' = [proc EXCEPT ![p] = proc'[p]]
         /\ proc'[p] = [f \in Fields |-> IF f \in DOMAIN fields THEN fields[f] ELSE proc[p][f]]
<1>1. DOMAIN proc[p] = Fields
  BY DEF ProcTypeOK, Process, Fields
<1>2. proc' = [proc EXCEPT ![p] = [f \in Fields |-> IF f \in DOMAIN fields THEN fields[f]
                                                                        ELSE proc[p][f]]]
  BY <1>1 DEF Set
<1> QED  BY <1>2 DEF ProcTypeOK

(* It ends.                                                                 *)
LEMMA EndsSet ==
  ASSUME ProcTypeOK, NEW p \in Processes, NEW end \in Ends, Set(p, Ended(end))
  PROVE  Becomes(p, [proc[p] EXCEPT !.pc = "ended", !.end = end])
<1>1. proc[p] \in Process
  BY DEF ProcTypeOK
<1>2. proc'[p] = [f \in Fields |-> IF f \in {"pc", "end"} THEN Ended(end)[f] ELSE proc[p][f]]
  BY SetTo DEF Ended
<1>3. proc'[p] = [proc[p] EXCEPT !.pc = "ended", !.end = end]
  BY <1>1, <1>2 DEF Fields, Process, Ended
<1>4. proc'[p] \in Process
  BY <1>1, <1>3 DEF Process, Places
<1> QED  BY <1>3, <1>4, SetTo DEF Becomes

(* It goes for a lock.                                                      *)
LEMMA LocksSet ==
  ASSUME ProcTypeOK, NEW p \in Processes, NEW d \in Documents, Set(p, LocksOn(d))
  PROVE  Becomes(p, [proc[p] EXCEPT !.pc = "lock", !.on = d, !.tries = 0])
<1>1. proc[p] \in Process
  BY DEF ProcTypeOK
<1>2. proc'[p] = [f \in Fields |->
          IF f \in {"pc", "on", "tries"}
          THEN LocksOn(d)[f]
          ELSE proc[p][f]]
  BY SetTo DEF LocksOn
<1>3. proc'[p] = [proc[p] EXCEPT !.pc = "lock", !.on = d, !.tries = 0]
  BY <1>1, <1>2 DEF Fields, Process, LocksOn
<1>4. proc'[p] \in Process
  <2>1. \A n \in Nat : [proc[p] EXCEPT !.pc = "lock", !.on = d, !.tries = n] \in Process
    BY <1>1 DEF Process, Places
  <2>2. 0 \in Nat
    OBVIOUS
  <2> QED  BY <1>3, <2>1, <2>2, Zenon
<1> QED  BY <1>3, <1>4, SetTo DEF Becomes

(* It goes on.                                                              *)
LEMMA MovesSet ==
  ASSUME ProcTypeOK, NEW p \in Processes, NEW pc \in Places, Set(p, [pc |-> pc])
  PROVE  Becomes(p, [proc[p] EXCEPT !.pc = pc])
<1>1. proc[p] \in Process
  BY DEF ProcTypeOK
<1>2. proc'[p] = [f \in Fields |-> IF f \in {"pc"} THEN [pc |-> pc][f] ELSE proc[p][f]]
  BY SetTo
<1>3. proc'[p] = [proc[p] EXCEPT !.pc = pc]
  BY <1>1, <1>2 DEF Fields, Process
<1>4. proc'[p] \in Process
  BY <1>1, <1>3 DEF Process, Places
<1> QED  BY <1>3, <1>4, SetTo DEF Becomes

(* It has tried once more.                                                  *)
LEMMA TriesSet ==
  ASSUME ProcTypeOK, NEW p \in Processes, NEW n \in Nat, Set(p, [tries |-> n])
  PROVE  Becomes(p, [proc[p] EXCEPT !.tries = n])
<1>1. proc[p] \in Process
  BY DEF ProcTypeOK
<1>2. proc'[p] = [f \in Fields |-> IF f \in {"tries"} THEN [tries |-> n][f] ELSE proc[p][f]]
  BY SetTo
<1>3. proc'[p] = [proc[p] EXCEPT !.tries = n]
  BY <1>1, <1>2 DEF Fields, Process
<1>4. proc'[p] \in Process
  BY <1>1, <1>3 DEF Process
<1> QED  BY <1>3, <1>4, SetTo DEF Becomes

(* It looks at the project, for a reason.                                   *)
LEMMA LooksSet ==
  ASSUME ProcTypeOK, NEW p \in Processes, NEW why \in Reasons, Set(p, [pc |-> "look", why |-> why])
  PROVE  Becomes(p, [proc[p] EXCEPT !.pc = "look", !.why = why])
<1>1. proc[p] \in Process
  BY DEF ProcTypeOK
<1>2. proc'[p] = [f \in Fields |->
          IF f \in {"pc", "why"}
          THEN [pc |-> "look", why |-> why][f]
          ELSE proc[p][f]]
  BY SetTo
<1>3. proc'[p] = [proc[p] EXCEPT !.pc = "look", !.why = why]
  BY <1>1, <1>2 DEF Fields, Process
<1>4. proc'[p] \in Process
  BY <1>1, <1>3 DEF Process, Places, Reasons
<1> QED  BY <1>3, <1>4, SetTo DEF Becomes

(* It gives up an update.                                                   *)
LEMMA FailsSet ==
  ASSUME ProcTypeOK, NEW p \in Processes, NEW why \in Failures,
         Set(p, [pc |-> "release", fail |-> why])
  PROVE  Becomes(p, [proc[p] EXCEPT !.pc = "release", !.fail = why])
<1>1. proc[p] \in Process
  BY DEF ProcTypeOK
<1>2. proc'[p] = [f \in Fields |->
          IF f \in {"pc", "fail"}
          THEN [pc |-> "release", fail |-> why][f]
          ELSE proc[p][f]]
  BY SetTo
<1>3. proc'[p] = [proc[p] EXCEPT !.pc = "release", !.fail = why]
  BY <1>1, <1>2 DEF Fields, Process
<1>4. proc'[p] \in Process
  BY <1>1, <1>3 DEF Process, Places, Failures
<1> QED  BY <1>3, <1>4, SetTo DEF Becomes

(* It has committed one.                                                    *)
LEMMA CommitsSet ==
  ASSUME ProcTypeOK, NEW p \in Processes, Set(p, [pc |-> "release", committed |-> TRUE])
  PROVE  Becomes(p, [proc[p] EXCEPT !.pc = "release", !.committed = TRUE])
<1>1. proc[p] \in Process
  BY DEF ProcTypeOK
<1>2. proc'[p] = [f \in Fields |->
          IF f \in {"pc", "committed"}
          THEN [pc |-> "release", committed |-> TRUE][f]
          ELSE proc[p][f]]
  BY SetTo
<1>3. proc'[p] = [proc[p] EXCEPT !.pc = "release", !.committed = TRUE]
  BY <1>1, <1>2 DEF Fields, Process
<1>4. proc'[p] \in Process
  BY <1>1, <1>3 DEF Process, Places
<1> QED  BY <1>3, <1>4, SetTo DEF Becomes

(* It has read a document.                                                  *)
LEMMA ReadsSet ==
  ASSUME ProcTypeOK, NEW p \in Processes, NEW pc \in Places, NEW why \in Failures,
         NEW doc \in Documented,
         Set(p, [pc |-> pc, fail |-> why, read |-> doc])
  PROVE  Becomes(p, [proc[p] EXCEPT !.pc = pc, !.fail = why, !.read = doc])
<1>1. proc[p] \in Process
  BY DEF ProcTypeOK
<1>2. proc'[p] = [f \in Fields |->
          IF f \in {"pc", "fail", "read"}
          THEN [pc |-> pc, fail |-> why, read |-> doc][f]
          ELSE proc[p][f]]
  BY SetTo
<1>3. proc'[p] = [proc[p] EXCEPT !.pc = pc, !.fail = why, !.read = doc]
  BY <1>1, <1>2 DEF Fields, Process
<1>4. proc'[p] \in Process
  BY <1>1, <1>3 DEF Process, Places, Failures
<1> QED  BY <1>3, <1>4, SetTo DEF Becomes

(* It starts to save a decision.                                            *)
LEMMA TrustSet ==
  ASSUME ProcTypeOK, NEW p \in Processes, NEW choice \in Book!TrustChoices,
         Set(p, [pc |-> "lock", why |-> "save", choice |-> choice])
  PROVE  Becomes(p, [proc[p] EXCEPT !.pc = "lock", !.why = "save", !.choice = choice])
<1>1. proc[p] \in Process
  BY DEF ProcTypeOK
<1>2. proc'[p] = [f \in Fields |->
          IF f \in {"pc", "why", "choice"}
          THEN [pc |-> "lock", why |-> "save", choice |-> choice][f]
          ELSE proc[p][f]]
  BY SetTo
<1>3. proc'[p] = [proc[p] EXCEPT !.pc = "lock", !.why = "save", !.choice = choice]
  BY <1>1, <1>2 DEF Fields, Process
<1>4. proc'[p] \in Process
  BY <1>1, <1>3 DEF Process, Places, Reasons
<1> QED  BY <1>3, <1>4, SetTo DEF Becomes

(* It starts to save a default.                                             *)
LEMMA DefaultSet ==
  ASSUME ProcTypeOK, NEW p \in Processes, NEW choice \in Book!Defaults,
         Set(p, [pc |-> "lock", on |-> "settings", why |-> "save", choice |-> choice])
  PROVE  Becomes(p,
         [proc[p] EXCEPT !.pc = "lock", !.on = "settings", !.why = "save", !.choice = choice])
<1>1. proc[p] \in Process
  BY DEF ProcTypeOK
<1>2. proc'[p] = [f \in Fields |->
          IF f \in {"pc", "on", "why", "choice"}
          THEN [pc |-> "lock", on |-> "settings", why |-> "save", choice |-> choice][f]
          ELSE proc[p][f]]
  BY SetTo
<1>3. proc'[p] =
       [proc[p] EXCEPT !.pc = "lock", !.on = "settings", !.why = "save", !.choice = choice]
  BY ZenonT(30), <1>1, <1>2 DEF Fields, Process
<1>4. proc'[p] \in Process
  <2>1. "settings" \in Documents
    BY DEF Documents
  <2> QED  BY <1>1, <1>3, <2>1 DEF Process, Places, Reasons
<1> QED  BY <1>3, <1>4, SetTo DEF Becomes

(* It has been given a choice to save.                                      *)
LEMMA ChoiceSet ==
  ASSUME ProcTypeOK, NEW p \in Processes, NEW choice \in Book!TrustChoices,
         Set(p, [pc |-> "lock", why |-> "save", choice |-> choice, on |-> "trust", tries |-> 0])
  PROVE  Becomes(p,
         [proc[p] EXCEPT !.pc = "lock", !.why = "save", !.choice = choice, !.on = "trust", !.tries = 0])
<1>1. proc[p] \in Process
  BY DEF ProcTypeOK
<1>2. proc'[p] = [f \in Fields |->
          IF f \in {"pc", "why", "choice", "on", "tries"}
          THEN [pc |-> "lock", why |-> "save", choice |-> choice, on |-> "trust", tries |-> 0][f]
          ELSE proc[p][f]]
  BY SetTo
<1>3. proc'[p] =
       [proc[p] EXCEPT !.pc = "lock", !.why = "save", !.choice = choice, !.on = "trust", !.tries = 0]
  BY ZenonT(30), <1>1, <1>2 DEF Fields, Process
<1>4. proc'[p] \in Process
  <2>0. "trust" \in Documents
    BY DEF Documents
  <2>1. \A n \in Nat :
           [proc[p] EXCEPT !.pc = "lock", !.why = "save", !.choice = choice,
                           !.on = "trust", !.tries = n] \in Process
    BY <1>1, <2>0 DEF Process, Places, Reasons
  <2>2. 0 \in Nat
    OBVIOUS
  <2> QED  BY <1>3, <2>1, <2>2, Zenon
<1> QED  BY <1>3, <1>4, SetTo DEF Becomes

-----------------------------------------------------------------------------
(* The invariant is inductive.                                              *)

Facts(p) == Course(p) /\ Outcome(p) /\ LockHeld(p) /\ FreshRead(p) /\ Leftovers(p)

(* A step of one process that keeps what is known of it, takes no lock from *)
(* another and changes no document that another has locked.                 *)
LEMMA OneProcess ==
  ASSUME IInv, TypeOK', NEW p \in Processes, NEW r, Becomes(p, r), Facts(p)',
         \A q \in Processes \ {p}, d \in Documents :
             /\ owner'[d] = q <=> owner[d] = q
             /\ <<q, d>> \in temps' => <<q, d>> \in temps
             /\ owner[d] = q => docs'[d] = docs[d]
  PROVE  IInv'
<1>1. ASSUME NEW q \in Processes \ {p}
      PROVE  Facts(q)'
  <2>1. proc'[q] = proc[q] /\ Facts(q) /\ proc[q].on \in Documents
    BY DEF Becomes, IInv, Facts, TypeOK, ProcTypeOK, Process
  <2>0. \A d \in Documents : /\ owner'[d] = q <=> owner[d] = q
                             /\ owner[d] = q => docs'[d] = docs[d]
    OBVIOUS
  <2>2. Course(q)' /\ Outcome(q)'
    BY <2>1 DEF Facts, Course, Outcome, Updating
  <2>3. LockHeld(q)'
    <3>1. Holding(q)' <=> Holding(q)
      BY <2>1 DEF Holding
    <3> QED  BY <2>0, <2>1, <3>1 DEF Facts, LockHeld
  <2>4. Updating(q) => owner[proc[q].on] = q
    BY <2>1 DEF Facts, LockHeld, Holding, Updating
  <2>5. FreshRead(q)'
    <3>1. Updating(q)' <=> Updating(q)
      BY <2>1 DEF Updating
    <3> QED  BY <2>0, <2>1, <2>4, <3>1 DEF Facts, FreshRead
  <2>6. Leftovers(q)'
    BY <2>1 DEF Facts, Leftovers
  <2> QED  BY <2>2, <2>3, <2>5, <2>6 DEF Facts
<1> QED  BY <1>1 DEF IInv, Facts

LEMMA InitIInv == Init => IInv
<1> SUFFICES ASSUME Init PROVE IInv
  OBVIOUS
<1>1. world.docs \in Documented
  BY WorldsAssumption DEF WorldsAssumption, Init
<1>2. ProcTypeOK
  BY <1>1 DEF Init, ProcTypeOK, Process, Places, Reasons, Failures, Documents, Ends
<1>3. TypedTypeOK
  BY ProjectTrustAssumption DEF ProjectTrustAssumption, Init, TypedTypeOK
<1>4. TypeOK
  BY <1>1, <1>2, <1>3, ProjectTrustAssumption
  DEF ProjectTrustAssumption, Init, TypeOK, DocsTypeOK, OwnerTypeOK, TempsTypeOK, SinceTypeOK, OtherTypeOK
<1>5. ASSUME NEW p \in Processes
      PROVE  Facts(p)
  BY ProjectTrustAssumption
  DEF ProjectTrustAssumption, Init, Facts, Course, Outcome, LockHeld, FreshRead, Leftovers, Holding, Updating
<1> QED  BY <1>4, <1>5 DEF IInv, Facts

(* A step that touches no document, lock or temporary file, and that        *)
(* neither starts nor ends an update.                                       *)
Quiet(p) ==
    /\ UNCHANGED <<world, docs, owner, temps>> /\ TypedTypeOK' /\ SinceTypeOK' /\ faults' \in Nat
    /\ proc[p].pc # "ended" /\ proc[p].fail # "write" /\ ~Updating(p) /\ ~Updating(p)'
    /\ Holding(p)' <=> Holding(p)
    /\ Holding(p) => proc'[p].on = proc[p].on

LEMMA QuietStep ==
  ASSUME IInv, NEW p \in Processes, NEW r, Becomes(p, r), Quiet(p), Course(p)', Outcome(p)'
  PROVE  IInv'
<1>1. ProcTypeOK' /\ proc'[p] = r
  BY DEF Becomes, IInv, TypeOK, ProcTypeOK
<1>2. TypeOK'
  BY <1>1 DEF Quiet, IInv, TypeOK, DocsTypeOK, OwnerTypeOK, TempsTypeOK, OtherTypeOK
<1>3. LockHeld(p)'
  BY DEF Quiet, IInv, LockHeld
<1>4. FreshRead(p)'
  BY DEF Quiet, FreshRead
<1>5. Leftovers(p)'
  BY DEF Quiet, IInv, Leftovers, Updating, Course
<1>6. UNCHANGED <<docs, owner, temps>>
  BY DEF Quiet
<1> QED
  BY <1>2, <1>3, <1>4, <1>5, <1>6, OneProcess DEF Facts

USE DEF Book!TrustChoices, Book!Defaults

LEMMA StartsIInv ==
  ASSUME IInv, NEW p \in Processes, Starts(p)
  PROVE  IInv'
<1>1. /\ ProcTypeOK /\ proc[p] \in Process /\ proc[p].pc = "start"
      /\ Course(p) /\ Outcome(p) /\ Job(p).kind \in Kinds
  BY WorldsAssumption
  DEF WorldsAssumption, Starts, IInv, TypeOK, ProcTypeOK, OtherTypeOK, Job
<1>2. UNCHANGED <<world, docs, owner, temps>> /\ TypedTypeOK' /\ SinceTypeOK' /\ faults' \in Nat
  BY DEF Starts, IInv, TypeOK, TypedTypeOK, SinceTypeOK, OtherTypeOK
<1> DEFINE ends(end) == [proc[p] EXCEPT !.pc = "ended", !.end = end]
           looks(why) == [proc[p] EXCEPT !.pc = "look", !.why = why]
           trusts(choice) == [proc[p] EXCEPT !.pc = "lock", !.why = "save", !.choice = choice]
           defaults(choice) == [proc[p] EXCEPT !.pc = "lock", !.on = "settings", !.why = "save",
                                              !.choice = choice]
<1>3. \/ Becomes(p, ends("trusted")) \/ Becomes(p, ends("untrusted"))
      \/ Becomes(p, looks("resolve")) \/ Becomes(p, looks("pending"))
      \/ \E choice \in Book!TrustChoices : Becomes(p, trusts(choice))
      \/ \E choice \in Book!Defaults : Becomes(p, defaults(choice))
  <2>1. CASE Job(p).kind = "approve"
    <3>1. Set(p, Answer(TRUE))
      BY <2>1 DEF Starts
    <3> QED  BY <1>1, <3>1, EndsSet DEF Answer, Ends
  <2>2. CASE Job(p).kind = "no_approve"
    <3>1. Set(p, Answer(FALSE))
      BY <2>2 DEF Starts
    <3> QED  BY <1>1, <3>1, EndsSet DEF Answer, Ends
  <2>3. CASE Job(p).kind = "print"
    <3>1. Set(p, Resolves)
      BY <2>3 DEF Starts
    <3> QED  BY <1>1, <3>1, LooksSet DEF Resolves, Reasons
  <2>4. CASE Job(p).kind = "interactive"
    <3>1. Set(p, [pc |-> "look", why |-> "pending"])
      BY <2>4 DEF Starts
    <3> QED  BY <1>1, <3>1, LooksSet DEF Reasons
  <2>5. CASE Job(p).kind \in Book!TrustChoices
    <3>1. Set(p, [pc |-> "lock", why |-> "save", choice |-> Job(p).kind])
      BY <2>5 DEF Starts
    <3> QED  BY <1>1, <2>5, <3>1, TrustSet
  <2>6. CASE Job(p).kind \in Book!Defaults
    <3>1. Set(p, [pc |-> "lock", on |-> "settings", why |-> "save", choice |-> Job(p).kind])
      BY <2>6 DEF Starts
    <3> QED  BY <1>1, <2>6, <3>1, DefaultSet
  <2> QED  BY <1>1, <2>1, <2>2, <2>3, <2>4, <2>5, <2>6 DEF Kinds
<1>4. ASSUME NEW r, Becomes(p, r), r.pc \in {"ended", "look", "lock"}, Course(p)', Outcome(p)'
      PROVE  IInv'
  <2>1. proc'[p] = r
    BY <1>1, <1>4 DEF Becomes, ProcTypeOK
  <2>2. Quiet(p)
    BY <1>1, <1>2, <1>4, <2>1 DEF Quiet, Holding, Updating, Course
  <2> QED  BY <1>4, <2>2, QuietStep
<1>5. ASSUME NEW end \in {"trusted", "untrusted"}, Becomes(p, ends(end))
      PROVE  IInv'
  <2>1. proc'[p] = ends(end)
    BY <1>1, <1>5 DEF Becomes, ProcTypeOK
  <2>2. Course(p)' /\ Outcome(p)'
    BY <1>1, <2>1 DEF Course, Outcome, Updating, Process
  <2> QED  BY <1>1, <1>4, <1>5, <2>2 DEF Process
<1>6. ASSUME NEW why \in {"resolve", "pending"}, Becomes(p, looks(why))
      PROVE  IInv'
  <2>1. proc'[p] = looks(why)
    BY <1>1, <1>6 DEF Becomes, ProcTypeOK
  <2>2. Course(p)' /\ Outcome(p)'
    BY <1>1, <2>1 DEF Course, Outcome, Updating, Process
  <2> QED  BY <1>1, <1>4, <1>6, <2>2 DEF Process
<1>7. ASSUME NEW choice \in Book!TrustChoices, Becomes(p, trusts(choice))
      PROVE  IInv'
  <2>1. proc'[p] = trusts(choice)
    BY <1>1, <1>7 DEF Becomes, ProcTypeOK
  <2>2. Course(p)' /\ Outcome(p)'
    BY <1>1, <2>1 DEF Course, Outcome, Updating, Process
  <2> QED  BY <1>1, <1>4, <1>7, <2>2 DEF Process
<1>8. ASSUME NEW choice \in Book!Defaults, Becomes(p, defaults(choice))
      PROVE  IInv'
  <2>1. proc'[p] = defaults(choice)
    BY <1>1, <1>8 DEF Becomes, ProcTypeOK
  <2>2. Course(p)' /\ Outcome(p)'
    BY <1>1, <2>1 DEF Course, Outcome, Updating, Process
  <2> QED  BY <1>1, <1>4, <1>8, <2>2 DEF Process
<1> QED  BY <1>3, <1>5, <1>6, <1>7, <1>8

(* A process that updates nothing ends.                                     *)
LEMMA QuietEnd ==
  ASSUME IInv, NEW p \in Processes, NEW end \in Ends, Set(p, Ended(end)),
         proc[p].pc \in {"look", "lock", "asking"},
         \/ end \in {"error", "refused", "cancelled"}
         \/ end \in {"trusted", "untrusted"} /\ proc[p].why # "save",
         UNCHANGED <<world, docs, owner, temps>>, TypedTypeOK', SinceTypeOK', faults' \in Nat
  PROVE  IInv'
<1> DEFINE r == [proc[p] EXCEPT !.pc = "ended", !.end = end]
<1>1. ProcTypeOK /\ proc[p] \in Process /\ Course(p) /\ Outcome(p)
  BY DEF IInv, TypeOK, ProcTypeOK
<1>2. Becomes(p, r)
  BY <1>1, EndsSet
<1>3. proc'[p] = r
  BY <1>1, <1>2 DEF Becomes, ProcTypeOK
<1>4. Course(p)' /\ Outcome(p)'
  BY <1>1, <1>3 DEF Course, Outcome, Updating, Process
<1>5. Quiet(p)
  BY <1>1, <1>3 DEF Quiet, Holding, Updating, Course, Process
<1> QED  BY <1>2, <1>4, <1>5, QuietStep

LEMMA LooksIInv ==
  ASSUME IInv, NEW p \in Processes, Looks(p)
  PROVE  IInv'
<1>1. ProcTypeOK /\ proc[p] \in Process /\ proc[p].pc = "look" /\ Course(p) /\ Outcome(p)
  BY DEF Looks, IInv, TypeOK, ProcTypeOK
<1>2. SinceTypeOK'
  <2>1. Standing(docs, Job(p).cwd) \in BOOLEAN
    BY DEF Standing
  <2> QED  BY <2>1 DEF Looks, IInv, TypeOK, SinceTypeOK
<1>3. UNCHANGED <<world, docs, owner, temps>> /\ TypedTypeOK' /\ faults' \in Nat
  BY DEF Looks, IInv, TypeOK, TypedTypeOK, OtherTypeOK
<1>4. \/ Set(p, Ended("refused")) \/ Set(p, LocksOn("trust"))
      \/ Set(p, Resolves)
      \/ Set(p, Ended("trusted")) /\ proc[p].why # "pending"
  <2> DEFINE cwd == Job(p).cwd
  <2>1. CASE Unfit(cwd)
    BY <2>1 DEF Looks
  <2>2. CASE ~Unfit(cwd) /\ Protected(cwd)
    BY <2>2 DEF Looks
  <2>3. CASE ~Unfit(cwd) /\ ~Protected(cwd) /\ proc[p].why = "pending"
    BY <2>3 DEF Looks
  <2>4. CASE ~Unfit(cwd) /\ ~Protected(cwd) /\ proc[p].why # "pending"
    BY <2>4 DEF Looks, Answer
  <2> QED  BY <2>1, <2>2, <2>3, <2>4
<1>5. ASSUME NEW r, Becomes(p, r), r.pc \in {"look", "lock"}, Course(p)', Outcome(p)'
      PROVE  IInv'
  <2>1. proc'[p] = r
    BY <1>1, <1>5 DEF Becomes, ProcTypeOK
  <2>2. Quiet(p)
    BY <1>1, <1>2, <1>3, <1>5, <2>1 DEF Quiet, Holding, Updating, Course
  <2> QED  BY <1>5, <2>2, QuietStep
<1>6. CASE Set(p, Ended("refused"))
  BY <1>1, <1>2, <1>3, <1>6, QuietEnd DEF Ends
<1>7. CASE Set(p, LocksOn("trust"))
  <2> DEFINE r == [proc[p] EXCEPT !.pc = "lock", !.on = "trust", !.tries = 0]
  <2>1. Becomes(p, r)
    BY <1>1, <1>7, LocksSet DEF Documents
  <2>2. proc'[p] = r
    BY <1>1, <2>1 DEF Becomes, ProcTypeOK
  <2>3. Course(p)' /\ Outcome(p)'
    BY <1>1, <2>2 DEF Course, Outcome, Updating, Process
  <2> QED  BY <1>1, <1>5, <2>1, <2>3 DEF Process
<1>8. CASE Set(p, Resolves)
  <2> DEFINE r == [proc[p] EXCEPT !.pc = "look", !.why = "resolve"]
  <2>1. Becomes(p, r)
    BY <1>1, <1>8, LooksSet DEF Resolves, Reasons
  <2>2. proc'[p] = r
    BY <1>1, <2>1 DEF Becomes, ProcTypeOK
  <2>3. Course(p)' /\ Outcome(p)'
    BY <1>1, <2>2 DEF Course, Outcome, Updating, Process
  <2> QED  BY <1>1, <1>5, <2>1, <2>3 DEF Process
<1>9. CASE Set(p, Ended("trusted")) /\ proc[p].why # "pending"
  BY <1>1, <1>2, <1>3, <1>9, QuietEnd DEF Ends, Course
<1> QED  BY <1>4, <1>6, <1>7, <1>8, <1>9

LEMMA FaultType ==
  ASSUME OtherTypeOK
  PROVE  Fault => faults' \in Nat
  BY DEF Fault, OtherTypeOK

LEMMA LocksIInv ==
  ASSUME IInv, NEW p \in Processes, Locks(p)
  PROVE  IInv'
<1> DEFINE on == proc[p].on
<1>1. /\ ProcTypeOK /\ proc[p] \in Process /\ proc[p].pc = "lock" /\ on \in Documents
      /\ Course(p) /\ Outcome(p)
  BY DEF Locks, IInv, TypeOK, ProcTypeOK, Process
<1>2. /\ UNCHANGED <<world, docs, temps>> /\ TypedTypeOK' /\ SinceTypeOK' /\ DocsTypeOK'
      /\ TempsTypeOK' /\ world' \in Worlds
  BY DEF Locks, IInv, TypeOK, TypedTypeOK, SinceTypeOK, DocsTypeOK, TempsTypeOK, OtherTypeOK
<1>3. faults' \in Nat
  BY FaultType DEF Locks, IInv, TypeOK, OtherTypeOK
<1>4. CASE Free(on) /\ owner' = [owner EXCEPT ![on] = p] /\ Set(p, [pc |-> "read"])
  <2> DEFINE r == [proc[p] EXCEPT !.pc = "read"]
  <2>1. Becomes(p, r)
    BY <1>1, <1>4, MovesSet DEF Places
  <2>2. proc'[p] = r /\ ProcTypeOK'
    BY <1>1, <2>1 DEF Becomes, ProcTypeOK
  <2>3. Course(p)' /\ Outcome(p)'
    BY <1>1, <2>2 DEF Course, Outcome, Updating, Process
  <2>4. OwnerTypeOK' /\ owner[on] = Nobody
    BY <1>1, <1>4 DEF IInv, TypeOK, OwnerTypeOK, Free
  <2>5. TypeOK'
    BY <1>2, <1>3, <2>2, <2>4 DEF TypeOK, OtherTypeOK
  <2>6. \A q \in Processes \ {p}, d \in Documents : owner'[d] = q <=> owner[d] = q
    BY <1>1, <1>4, <2>4, ProjectTrustAssumption DEF ProjectTrustAssumption, IInv, TypeOK, OwnerTypeOK
  <2>7. LockHeld(p)'
    <3>1. \A d \in Documents : owner[d] # p
      BY <1>1 DEF IInv, LockHeld, Holding
    <3>2. proc'[p].pc = "read" /\ proc'[p].on = on
      BY <1>1, <2>2 DEF Process
    <3> QED  BY <1>1, <1>4, <3>1, <3>2 DEF IInv, TypeOK, OwnerTypeOK, LockHeld, Holding
  <2>8. FreshRead(p)' /\ Leftovers(p)'
    BY <1>1, <1>2, <2>2 DEF IInv, FreshRead, Leftovers, Updating, Course, Process
  <2> QED  BY <1>2, <2>1, <2>3, <2>5, <2>6, <2>7, <2>8, OneProcess DEF Facts
<1>5. CASE UNCHANGED owner /\ Set(p, Ended("error"))
  BY <1>1, <1>2, <1>3, <1>5, QuietEnd DEF Ends
<1>6. CASE UNCHANGED owner /\ Set(p, [tries |-> proc[p].tries + 1])
  <2> DEFINE r == [proc[p] EXCEPT !.tries = proc[p].tries + 1]
  <2>1. proc[p].tries + 1 \in Nat
    BY <1>1 DEF Process
  <2>2. Becomes(p, r)
    BY <1>1, <1>6, <2>1, TriesSet
  <2>3. proc'[p] = r
    BY <1>1, <2>2 DEF Becomes, ProcTypeOK
  <2>4. Course(p)' /\ Outcome(p)'
    BY <1>1, <2>3 DEF Course, Outcome, Updating, Process
  <2>5. Quiet(p)
    BY <1>1, <1>2, <1>3, <1>6, <2>3 DEF Quiet, Holding, Updating, Course, Process
  <2> QED  BY <2>2, <2>4, <2>5, QuietStep
<1> QED  BY <1>4, <1>5, <1>6 DEF Locks

(* A step of a process that keeps the lock it has.                          *)
LEMMA HolderStep ==
  ASSUME IInv, NEW p \in Processes, NEW r, Becomes(p, r), Holding(p),
         r.pc \in {"write", "replace", "release"}, r.on = proc[p].on,
         UNCHANGED <<world, owner, typed>>,
         SinceTypeOK', DocsTypeOK', TempsTypeOK', faults' \in Nat,
         Course(p)', Outcome(p)', FreshRead(p)', Leftovers(p)',
         \A q \in Processes \ {p}, d \in Documents : <<q, d>> \in temps' => <<q, d>> \in temps,
         \A d \in Documents \ {proc[p].on} : docs'[d] = docs[d]
  PROVE  IInv'
<1>1. proc'[p] = r /\ ProcTypeOK'
  BY DEF Becomes, IInv, TypeOK, ProcTypeOK
<1>2. TypeOK'
  BY <1>1 DEF IInv, TypeOK, TypedTypeOK, OwnerTypeOK, OtherTypeOK
<1>3. LockHeld(p)'
  BY <1>1 DEF IInv, LockHeld, Holding
<1>4. owner[proc[p].on] = p
  BY DEF IInv, LockHeld, TypeOK, ProcTypeOK, Process
<1>5. \A q \in Processes \ {p}, d \in Documents : owner[d] = q => docs'[d] = docs[d]
  BY <1>4
<1> QED  BY <1>2, <1>3, <1>5, OneProcess DEF Facts

LEMMA ReadsIInv ==
  ASSUME IInv, NEW p \in Processes, Reads(p)
  PROVE  IInv'
<1> DEFINE on == proc[p].on
           doc == [proc[p].read EXCEPT ![on] = docs[on]]
<1>1. /\ ProcTypeOK /\ proc[p] \in Process /\ proc[p].pc = "read" /\ on \in Documents
      /\ Course(p) /\ Outcome(p) /\ Leftovers(p) /\ Holding(p)
  BY DEF Reads, IInv, TypeOK, ProcTypeOK, Process, Holding
<1>2. /\ UNCHANGED <<world, owner, typed, docs, temps>>
      /\ SinceTypeOK' /\ DocsTypeOK' /\ TempsTypeOK' /\ OtherTypeOK
  BY DEF Reads, IInv, TypeOK, SinceTypeOK, DocsTypeOK, TempsTypeOK
<1>3. faults' \in Nat
  BY <1>2, FaultType DEF Reads, OtherTypeOK
<1>4. CASE Set(p, [pc |-> "release", fail |-> "read"])
  <2> DEFINE r == [proc[p] EXCEPT !.pc = "release", !.fail = "read"]
  <2>1. Becomes(p, r)
    BY <1>1, <1>4, FailsSet DEF Failures
  <2>2. proc'[p] = r
    BY <1>1, <2>1 DEF Becomes, ProcTypeOK
  <2>3. Course(p)' /\ Outcome(p)' /\ FreshRead(p)' /\ Leftovers(p)'
    BY <1>1, <1>2, <2>2 DEF Course, Outcome, Updating, FreshRead, Leftovers, Process
  <2>4. r.pc = "release" /\ r.on = on
    BY <1>1 DEF Process
  <2> QED  BY <1>1, <1>2, <1>3, <2>1, <2>3, <2>4, HolderStep
<1>5. CASE Set(p, [pc |-> IF proc[p].why = "save" /\ on \notin world.bad THEN "write" ELSE "release",
                   fail |-> IF on \in world.bad THEN "document" ELSE "none", read |-> doc])
  <2>1. doc \in Documented /\ doc[on] = docs[on]
    <3>1. docs \in Documented /\ proc[p].read \in Documented
      BY <1>1 DEF IInv, TypeOK, DocsTypeOK, Process
    <3>2. CASE on = "trust"
      BY <3>1, <3>2 DEF Documented
    <3>3. CASE on = "settings"
      BY <3>1, <3>3 DEF Documented
    <3> QED  BY <1>1, <3>2, <3>3 DEF Documents
  <2> HIDE DEF doc
  <2>2. ASSUME NEW pc \in {"write", "release"}, NEW why \in {"document", "none"},
               Set(p, [pc |-> pc, fail |-> why, read |-> doc]),
               pc = "write" => proc[p].why = "save" /\ why = "none",
               pc = "release" /\ proc[p].why = "save" => why # "none"
        PROVE  IInv'
    <3> DEFINE r == [proc[p] EXCEPT !.pc = pc, !.fail = why, !.read = doc]
    <3>1. pc \in Places /\ why \in Failures
      BY DEF Places, Failures
    <3>2. Becomes(p, r)
      BY <1>1, <2>1, <2>2, <3>1, ReadsSet
    <3>3. proc'[p] = r
      BY <1>1, <3>2 DEF Becomes, ProcTypeOK
    <3>4. /\ proc'[p].pc = pc /\ proc'[p].fail = why /\ proc'[p].read = doc /\ proc'[p].on = on
          /\ proc'[p].why = proc[p].why /\ proc'[p].committed = proc[p].committed
          /\ proc'[p].choice = proc[p].choice /\ proc'[p].end = proc[p].end
      BY <1>1, <3>3 DEF Process
    <3>5. Course(p)'
      BY <1>1, <2>2, <3>4 DEF Course, Updating
    <3>6. Outcome(p)' /\ FreshRead(p)'
      BY <1>1, <1>2, <2>1, <3>4 DEF Outcome, FreshRead
    <3>7. Leftovers(p)'
      BY <1>1, <1>2, <3>4 DEF Leftovers, Course
    <3>8. r.pc = pc /\ r.on = on
      BY <3>3, <3>4
    <3> QED  BY <1>1, <1>2, <1>3, <3>2, <3>5, <3>6, <3>7, <3>8, HolderStep
  <2> QED  BY <1>5, <2>2
<1> QED  BY <1>4, <1>5 DEF Reads

LEMMA CommitFailsIInv ==
  ASSUME IInv, NEW p \in Processes, Updating(p), CommitFails(p), UNCHANGED <<world, owner, typed>>
  PROVE  IInv'
<1> DEFINE r == [proc[p] EXCEPT !.pc = "release", !.fail = "write"]
<1>1. /\ ProcTypeOK /\ proc[p] \in Process /\ proc[p].on \in Documents /\ Holding(p)
      /\ Course(p) /\ Outcome(p)
  BY DEF IInv, TypeOK, ProcTypeOK, Process, Updating, Holding
<1>2. Becomes(p, r)
  BY <1>1, FailsSet DEF CommitFails, Failures
<1>3. proc'[p] = r
  BY <1>1, <1>2 DEF Becomes, ProcTypeOK
<1>4. Course(p)' /\ Outcome(p)' /\ FreshRead(p)' /\ Leftovers(p)'
  BY <1>1, <1>3 DEF Course, Outcome, Updating, FreshRead, Leftovers, Process
<1>5. SinceTypeOK' /\ DocsTypeOK' /\ faults' \in Nat /\ docs' = docs
  BY FaultType DEF CommitFails, IInv, TypeOK, SinceTypeOK, DocsTypeOK
<1>6. /\ temps' \in {temps \ {<<p, proc[p].on>>}, temps \cup {<<p, proc[p].on>>}}
      /\ temps \subseteq Processes \X Documents
  BY DEF CommitFails, IInv, TypeOK, TempsTypeOK
<1>7. TempsTypeOK'
  BY <1>1, <1>6 DEF TempsTypeOK
<1>8. \A q \in Processes \ {p}, d \in Documents : <<q, d>> \in temps' => <<q, d>> \in temps
  BY <1>6
<1>9. r.pc = "release" /\ r.on = proc[p].on
  BY <1>1 DEF Process
<1> QED  BY <1>1, <1>2, <1>4, <1>5, <1>7, <1>8, <1>9, HolderStep

LEMMA WritesIInv ==
  ASSUME IInv, NEW p \in Processes, Writes(p)
  PROVE  IInv'
<1> DEFINE r == [proc[p] EXCEPT !.pc = "replace"]
<1>1. /\ ProcTypeOK /\ proc[p] \in Process /\ proc[p].on \in Documents /\ proc[p].pc = "write"
      /\ Course(p) /\ Outcome(p) /\ FreshRead(p) /\ Leftovers(p) /\ Updating(p) /\ Holding(p)
  BY DEF Writes, IInv, TypeOK, ProcTypeOK, Process, Updating, Holding
<1>2. CASE /\ temps' = temps \cup {<<p, proc[p].on>>} /\ Set(p, [pc |-> "replace"])
           /\ UNCHANGED <<docs, since, faults>>
  <2>1. Becomes(p, r)
    BY <1>1, <1>2, MovesSet DEF Places
  <2>2. proc'[p] = r
    BY <1>1, <2>1 DEF Becomes, ProcTypeOK
  <2>3. Course(p)' /\ Outcome(p)' /\ FreshRead(p)' /\ Leftovers(p)'
    BY <1>1, <1>2, <2>2 DEF Course, Outcome, Updating, FreshRead, Leftovers, Process
  <2>4. UNCHANGED <<world, owner, typed>> /\ SinceTypeOK' /\ DocsTypeOK' /\ faults' \in Nat
    BY <1>2 DEF Writes, IInv, TypeOK, SinceTypeOK, DocsTypeOK, OtherTypeOK
  <2>5. TempsTypeOK'
    BY <1>1, <1>2 DEF IInv, TypeOK, TempsTypeOK
  <2>6. r.pc = "replace" /\ r.on = proc[p].on
    BY <1>1 DEF Process
  <2> QED  BY <1>1, <1>2, <2>1, <2>3, <2>4, <2>5, <2>6, HolderStep
<1>3. CASE CommitFails(p)
  BY <1>1, <1>3, CommitFailsIInv DEF Writes
<1> QED  BY <1>2, <1>3 DEF Writes

(* What a process saves is a document again.                                *)
LEMMA ChosenType ==
  ASSUME IInv, NEW p \in Processes, proc[p].pc = "replace"
  PROVE  [docs EXCEPT ![proc[p].on] = Chosen(p)] \in Documented
<1>1. /\ proc[p] \in Process /\ proc[p].on \in Documents /\ docs \in Documented
      /\ proc[p].why = "save" /\ Course(p)
  BY DEF IInv, TypeOK, ProcTypeOK, DocsTypeOK, Process, Course, Updating
<1>2. CASE proc[p].on = "settings"
  <2>1. Chosen(p) \in Book!Defaults
    BY <1>1, <1>2 DEF Chosen, Course
  <2> QED  BY <1>1, <1>2, <2>1 DEF Documented
<1>3. CASE proc[p].on = "trust"
  <2>1. Job(p).cwd \in Dirs /\ ParentOf \in [Dirs -> Dirs]
    BY WorldsAssumption, ProjectTrustAssumption
    DEF WorldsAssumption, ProjectTrustAssumption, Job, IInv, TypeOK, OtherTypeOK
  <2>2. /\ proc[p].choice \in {"trust", "distrust", "trust_parent"}
        /\ proc[p].read.trust \in [Dirs -> Book!Decisions \cup {"null", "nothing"}]
    BY <1>1, <1>3 DEF Course, Process, Documented
  <2>3. Chosen(p) \in [Dirs -> Book!Decisions \cup {"null", "nothing"}]
    BY <1>3, <2>1, <2>2 DEF Chosen, Book!Trusting, Book!Decisions
  <2> QED  BY <1>1, <1>3, <2>3 DEF Documented
<1> QED  BY <1>1, <1>2, <1>3 DEF Documents

LEMMA ReplacesIInv ==
  ASSUME IInv, NEW p \in Processes, Replaces(p)
  PROVE  IInv'
<1> DEFINE on == proc[p].on
           r == [proc[p] EXCEPT !.pc = "release", !.committed = TRUE]
<1>1. /\ ProcTypeOK /\ proc[p] \in Process /\ on \in Documents /\ proc[p].pc = "replace"
      /\ Course(p) /\ Outcome(p) /\ Leftovers(p) /\ Updating(p) /\ Holding(p)
  BY DEF Replaces, IInv, TypeOK, ProcTypeOK, Process, Updating, Holding
<1>2. CASE /\ docs' = [docs EXCEPT ![on] = Chosen(p)] /\ temps' = temps \ {<<p, on>>}
           /\ Set(p, [pc |-> "release", committed |-> TRUE])
           /\ since' = [q \in Processes |->
                   IF proc[q].why # "resolve" \/ proc[q].pc = "ended" THEN since[q]
                   ELSE [right |-> since[q].right \cup {Standing(docs', Job(q).cwd)},
                         changed |-> since[q].changed \cup {on}]]
           /\ UNCHANGED faults
  <2>1. Becomes(p, r)
    BY <1>1, <1>2, CommitsSet
  <2>2. proc'[p] = r
    BY <1>1, <2>1 DEF Becomes, ProcTypeOK
  <2>3. Course(p)' /\ Outcome(p)' /\ FreshRead(p)' /\ Leftovers(p)'
    BY <1>1, <1>2, <2>2 DEF Course, Outcome, Updating, FreshRead, Leftovers, Process
  <2>4. DocsTypeOK' /\ \A d \in Documents \ {on} : docs'[d] = docs[d]
    BY <1>1, <1>2, ChosenType DEF IInv, TypeOK, DocsTypeOK, Documented, Documents
  <2>5. SinceTypeOK'
    <3>1. \A q \in Processes : Standing(docs', Job(q).cwd) \in BOOLEAN
      BY DEF Standing
    <3>2. since \in [Processes -> [right : SUBSET BOOLEAN, changed : SUBSET Documents]]
      BY DEF IInv, TypeOK, SinceTypeOK
    <3> QED  BY <1>1, <1>2, <3>1, <3>2 DEF SinceTypeOK
  <2>6. TempsTypeOK' /\ UNCHANGED <<world, owner, typed>> /\ faults' \in Nat
    BY <1>2 DEF Replaces, IInv, TypeOK, TempsTypeOK, OtherTypeOK
  <2>7. r.pc = "release" /\ r.on = on
    BY <1>1 DEF Process
  <2> QED  BY <1>1, <1>2, <2>1, <2>3, <2>4, <2>5, <2>6, <2>7, HolderStep
<1>3. CASE CommitFails(p)
  BY <1>1, <1>3, CommitFailsIInv DEF Replaces
<1> QED  BY <1>2, <1>3 DEF Replaces

(* A process without a lock, whatever becomes of it.                        *)
LEMMA LeaverStep ==
  ASSUME IInv, NEW p \in Processes, NEW r, Becomes(p, r), ~Holding(p)',
         UNCHANGED <<world, docs, temps, typed, since>>, faults' \in Nat,
         \A d \in Documents : owner'[d] = IF owner[d] = p THEN Nobody ELSE owner[d],
         owner' \in [Documents -> Processes \cup {Nobody}],
         Course(p)', Outcome(p)', Leftovers(p)'
  PROVE  IInv'
<1>1. ProcTypeOK'
  BY DEF Becomes, IInv, TypeOK, ProcTypeOK
<1>2. TypeOK'
  BY <1>1 DEF IInv, TypeOK, TypedTypeOK, DocsTypeOK, OwnerTypeOK, TempsTypeOK, SinceTypeOK, OtherTypeOK
<1>3. LockHeld(p)'
  BY ProjectTrustAssumption DEF ProjectTrustAssumption, LockHeld
<1>4. FreshRead(p)'
  BY DEF FreshRead, Updating, Holding
<1>5. \A q \in Processes \ {p}, d \in Documents : owner'[d] = q <=> owner[d] = q
  BY ProjectTrustAssumption DEF ProjectTrustAssumption
<1> QED  BY <1>2, <1>3, <1>4, <1>5, OneProcess DEF Facts

(* What follows the release of a lock.                                      *)
LEMMA AfterIInv ==
  ASSUME IInv, NEW p \in Processes, proc[p].pc = "release", NEW failed \in BOOLEAN,
         Set(p, After(p, failed)), UNCHANGED <<world, docs, temps, typed, since>>, faults' \in Nat,
         owner' = [owner EXCEPT ![proc[p].on] = Nobody]
  PROVE  IInv'
<1>1. /\ ProcTypeOK /\ proc[p] \in Process /\ proc[p].on \in Documents
      /\ Course(p) /\ Outcome(p) /\ Leftovers(p) /\ LockHeld(p) /\ Holding(p)
  BY DEF IInv, TypeOK, ProcTypeOK, Process, Holding
<1>2. /\ \A d \in Documents : owner'[d] = IF owner[d] = p THEN Nobody ELSE owner[d]
      /\ owner' \in [Documents -> Processes \cup {Nobody}]
  BY <1>1 DEF LockHeld, IInv, TypeOK, OwnerTypeOK
<1>3. ASSUME NEW r, Becomes(p, r), r.pc \in {"look", "lock", "asking", "ended"}, r.fail = proc[p].fail,
             Course(p)', Outcome(p)'
      PROVE  IInv'
  <2>1. proc'[p] = r
    BY <1>1, <1>3 DEF Becomes, ProcTypeOK
  <2>2. ~Holding(p)' /\ Leftovers(p)'
    BY <1>1, <1>3, <2>1 DEF Holding, Leftovers, Course
  <2> QED  BY <1>2, <1>3, <2>2, LeaverStep
<1>4. ASSUME NEW end \in Ends, Set(p, Ended(end)),
             \/ proc[p].committed /\ end \in {"trusted", "untrusted", "saved"}
             \/ ~proc[p].committed /\ end = "error"
             \/ ~proc[p].committed /\ proc[p].why # "save" /\ end \in {"trusted", "untrusted"}
      PROVE  IInv'
  <2> DEFINE r == [proc[p] EXCEPT !.pc = "ended", !.end = end]
  <2>1. Becomes(p, r)
    BY <1>1, <1>4, EndsSet
  <2>2. proc'[p] = r
    BY <1>1, <2>1 DEF Becomes, ProcTypeOK
  <2>3. Course(p)' /\ Outcome(p)'
    BY <1>1, <1>4, <2>2 DEF Course, Outcome, Updating, Process
  <2>4. r.pc = "ended" /\ r.fail = proc[p].fail
    BY <1>1 DEF Process
  <2> QED  BY <1>3, <2>1, <2>3, <2>4
<1>5. CASE proc[p].committed
  <2>1. Set(p, SavedChoice(p))
    BY <1>5 DEF After
  <2>2. \E end \in {"trusted", "untrusted", "saved"} : SavedChoice(p) = Ended(end)
    BY DEF SavedChoice, Answer
  <2> QED  BY <1>4, <1>5, <2>1, <2>2 DEF Ends
<1>6. CASE ~proc[p].committed /\ (proc[p].fail # "none" \/ failed)
  <2>1. Set(p, Ended("error"))
    BY <1>6 DEF After
  <2> QED  BY <1>4, <1>6, <2>1 DEF Ends
<1>7. CASE ~proc[p].committed /\ proc[p].fail = "none" /\ ~failed
  <2>1. Set(p, Decides(p)) /\ proc[p].why # "save"
    BY <1>1, <1>7 DEF After, Course
  <2>2. \/ Decides(p) = LocksOn("settings") \/ Decides(p) = Resolves
        \/ Decides(p) = [pc |-> "asking"] /\ proc[p].why = "pending"
        \/ \E end \in {"trusted", "untrusted"} : Decides(p) = Ended(end)
    <3> DEFINE saved == Nearest(proc[p].read.trust, Job(p).cwd)
    <3> HIDE DEF saved
    <3>1. CASE proc[p].on = "trust" /\ saved = "nothing"
      BY <3>1 DEF Decides, saved
    <3>2. CASE proc[p].on = "trust" /\ saved # "nothing"
      BY <3>2 DEF Decides, Answer, saved
    <3>3. CASE proc[p].on = "settings"
      BY <3>3 DEF Decides, Answer
    <3> QED  BY <1>1, <3>1, <3>2, <3>3 DEF Documents
  <2>3. CASE Decides(p) = LocksOn("settings")
    <3> DEFINE r == [proc[p] EXCEPT !.pc = "lock", !.on = "settings", !.tries = 0]
    <3>1. Becomes(p, r)
      BY <1>1, <2>1, <2>3, LocksSet DEF Documents
    <3>2. proc'[p] = r
      BY <1>1, <3>1 DEF Becomes, ProcTypeOK
    <3>3. Course(p)' /\ Outcome(p)'
      BY <1>1, <1>7, <2>1, <3>2 DEF Course, Outcome, Updating, Process
    <3>4. r.pc = "lock" /\ r.fail = proc[p].fail
      BY <1>1 DEF Process
    <3> QED  BY <1>3, <3>1, <3>3, <3>4
  <2>4. CASE Decides(p) = Resolves
    <3> DEFINE r == [proc[p] EXCEPT !.pc = "look", !.why = "resolve"]
    <3>1. Becomes(p, r)
      BY <1>1, <2>1, <2>4, LooksSet DEF Resolves, Reasons
    <3>2. proc'[p] = r
      BY <1>1, <3>1 DEF Becomes, ProcTypeOK
    <3>3. Course(p)' /\ Outcome(p)'
      BY <1>1, <1>7, <2>1, <3>2 DEF Course, Outcome, Updating, Process
    <3>4. r.pc = "look" /\ r.fail = proc[p].fail
      BY <1>1 DEF Process
    <3> QED  BY <1>3, <3>1, <3>3, <3>4
  <2>5. CASE Decides(p) = [pc |-> "asking"] /\ proc[p].why = "pending"
    <3> DEFINE r == [proc[p] EXCEPT !.pc = "asking"]
    <3>1. Becomes(p, r)
      BY <1>1, <2>1, <2>5, MovesSet DEF Places
    <3>2. proc'[p] = r
      BY <1>1, <3>1 DEF Becomes, ProcTypeOK
    <3>3. Course(p)' /\ Outcome(p)'
      BY <1>1, <1>7, <2>1, <2>5, <3>2 DEF Course, Outcome, Updating, Process
    <3>4. r.pc = "asking" /\ r.fail = proc[p].fail
      BY <1>1 DEF Process
    <3> QED  BY <1>3, <3>1, <3>3, <3>4
  <2>6. CASE \E end \in {"trusted", "untrusted"} : Decides(p) = Ended(end)
    BY <1>4, <1>7, <2>1, <2>6 DEF Ends
  <2> QED  BY <2>2, <2>3, <2>4, <2>5, <2>6
<1> QED  BY <1>1, <1>5, <1>6, <1>7 DEF Process

LEMMA ReleasesIInv ==
  ASSUME IInv, NEW p \in Processes, Releases(p)
  PROVE  IInv'
<1>1. faults' \in Nat
  BY FaultType DEF Releases, IInv, TypeOK, OtherTypeOK
<1>2. /\ proc[p].pc = "release" /\ owner' = [owner EXCEPT ![proc[p].on] = Nobody]
      /\ UNCHANGED <<world, docs, temps, typed, since>>
  BY DEF Releases
<1>3. CASE Set(p, After(p, FALSE))
  BY <1>1, <1>2, <1>3, AfterIInv
<1>4. CASE Set(p, After(p, TRUE))
  BY <1>1, <1>2, <1>4, AfterIInv
<1> QED  BY <1>3, <1>4 DEF Releases

LEMMA KilledIInv ==
  ASSUME IInv, NEW p \in Processes, Killed(p)
  PROVE  IInv'
<1> DEFINE r == [proc[p] EXCEPT !.pc = "ended", !.end = "killed"]
<1>1. ProcTypeOK /\ proc[p] \in Process /\ Course(p) /\ Outcome(p)
  BY DEF IInv, TypeOK, ProcTypeOK
<1>2. Becomes(p, r)
  BY <1>1, EndsSet DEF Killed, Ends
<1>3. proc'[p] = r
  BY <1>1, <1>2 DEF Becomes, ProcTypeOK
<1>4. Course(p)' /\ Outcome(p)' /\ Leftovers(p)' /\ ~Holding(p)'
  BY <1>1, <1>3 DEF Course, Outcome, Updating, Leftovers, Holding, Process
<1>5. UNCHANGED <<world, docs, temps, typed, since>> /\ faults' \in Nat
  BY FaultType DEF Killed, IInv, TypeOK
<1>6. /\ \A d \in Documents : owner'[d] = IF owner[d] = p THEN Nobody ELSE owner[d]
      /\ owner' \in [Documents -> Processes \cup {Nobody}]
  BY DEF Killed, IInv, TypeOK, OwnerTypeOK
<1> QED  BY <1>2, <1>4, <1>5, <1>6, LeaverStep

(* What is typed changes nothing else.                                      *)
LEMMA TypingIInv ==
  ASSUME IInv, NEW p \in Processes, Types(p) \/ Resizes(p) \/ Signals(p)
  PROVE  IInv'
<1> DEFINE line == [lines : Seq(Answers \cup {"eof"}), left : Nat, resized : BOOLEAN, signal : BOOLEAN]
<1>1. UNCHANGED <<world, docs, owner, temps, proc, faults, since>>
  BY DEF Types, Resizes, Signals
<1>2. typed \in [Processes -> line] /\ typed[p] \in line
  BY DEF IInv, TypeOK, TypedTypeOK
<1>3. TypedTypeOK'
  <2>1. CASE Types(p)
    <3>1. PICK a \in Answers \cup {"eof"} :
            typed' = [typed EXCEPT ![p].lines = Append(@, a), ![p].left = IF a = "eof" THEN 0 ELSE @ - 1]
      BY <2>1 DEF Types
    <3> DEFINE remaining == IF a = "eof" THEN 0 ELSE typed[p].left - 1
               typing == Append(typed[p].lines, a)
    <3>2. remaining \in Nat
      <4>1. typed[p].left \in Nat /\ typed[p].left > 0
        BY <1>2, <2>1 DEF Types
      <4> QED  BY <4>1
    <3>3. typing \in Seq(Answers \cup {"eof"})
      BY <1>2
    <3>4. typed' = [typed EXCEPT ![p] = [@ EXCEPT !.lines = typing, !.left = remaining]]
      BY <1>2, <3>1
    <3> HIDE DEF remaining, typing
    <3>5. [typed[p] EXCEPT !.lines = typing, !.left = remaining] \in line
      BY <1>2, <3>2, <3>3
    <3> QED  BY <1>2, <3>4, <3>5 DEF TypedTypeOK
  <2>2. CASE Resizes(p)
    <3> DEFINE remaining == typed[p].left - 1
    <3>1. remaining \in Nat
      BY <1>2, <2>2 DEF Resizes
    <3>2. typed' = [typed EXCEPT ![p] = [@ EXCEPT !.resized = TRUE, !.left = remaining]]
      BY <1>2, <2>2 DEF Resizes
    <3> HIDE DEF remaining
    <3>3. [typed[p] EXCEPT !.resized = TRUE, !.left = remaining] \in line
      BY <1>2, <3>1
    <3> QED  BY <1>2, <3>2, <3>3 DEF TypedTypeOK
  <2>3. CASE Signals(p)
    BY <1>2, <2>3 DEF Signals, TypedTypeOK
  <2> QED  BY <2>1, <2>2, <2>3
<1>4. TypeOK'
  BY <1>1, <1>3
  DEF IInv, TypeOK, ProcTypeOK, DocsTypeOK, OwnerTypeOK, TempsTypeOK, SinceTypeOK, OtherTypeOK
<1> QED
  BY <1>1, <1>4
  DEF IInv, Course, Outcome, LockHeld, FreshRead, Leftovers, Holding, Updating

LEMMA AsksIInv ==
  ASSUME IInv, NEW p \in Processes, Asks(p)
  PROVE  IInv'
<1> DEFINE line == [lines : Seq(Answers \cup {"eof"}), left : Nat, resized : BOOLEAN, signal : BOOLEAN]
<1>1. /\ ProcTypeOK /\ proc[p] \in Process /\ proc[p].pc = "asking" /\ proc[p].why = "pending"
      /\ Course(p) /\ Outcome(p)
  BY DEF Asks, IInv, TypeOK, ProcTypeOK, Course
<1>2. UNCHANGED <<world, docs, owner, temps>> /\ SinceTypeOK' /\ faults' \in Nat
  BY DEF Asks, IInv, TypeOK, SinceTypeOK, OtherTypeOK
<1>3. typed \in [Processes -> line] /\ typed[p] \in line
  BY DEF IInv, TypeOK, TypedTypeOK
<1>4. typed[p].lines # <<>> => /\ Tail(typed[p].lines) \in Seq(Answers \cup {"eof"})
                               /\ Head(typed[p].lines) \in Answers \cup {"eof"}
  BY <1>3
<1>5. ASSUME Set(p, Ended("cancelled")) \/ Set(p, Ended("trusted")) \/ Set(p, Ended("untrusted")),
             TypedTypeOK'
      PROVE  IInv'
  BY <1>1, <1>2, <1>5, QuietEnd DEF Ends
<1>6. ASSUME NEW r, Becomes(p, r), r.pc \in {"asking", "lock"}, TypedTypeOK', Course(p)', Outcome(p)'
      PROVE  IInv'
  <2>1. proc'[p] = r
    BY <1>1, <1>6 DEF Becomes, ProcTypeOK
  <2>2. Quiet(p)
    BY <1>1, <1>2, <1>6, <2>1 DEF Quiet, Holding, Updating, Course
  <2> QED  BY <1>6, <2>2, QuietStep
<1>7. CASE Redraws(p)
  <2>1. PICK typing \in Seq(Answers \cup {"eof"}) :
          typed' = [typed EXCEPT ![p].resized = FALSE, ![p].lines = typing]
    BY <1>3, <1>4, <1>7 DEF Redraws
  <2>2. typed' = [typed EXCEPT ![p] = [@ EXCEPT !.resized = FALSE, !.lines = typing]]
    BY <1>3, <2>1
  <2>3. [typed[p] EXCEPT !.resized = FALSE, !.lines = typing] \in line
    BY <1>3
  <2>4. TypedTypeOK'
    BY <1>3, <2>2, <2>3 DEF TypedTypeOK
  <2>5. proc' = proc
    BY <1>7 DEF Redraws
  <2>6. TypeOK'
    BY <1>2, <2>4, <2>5
    DEF Asks, IInv, TypeOK, ProcTypeOK, DocsTypeOK, OwnerTypeOK, TempsTypeOK, OtherTypeOK
  <2> QED
    BY <1>2, <2>5, <2>6
    DEF IInv, Course, Outcome, LockHeld, FreshRead, Leftovers, Holding, Updating
<1>8. CASE Takes(p)
  <2> DEFINE a == Head(typed[p].lines)
             typing == Tail(typed[p].lines)
  <2>1. typing \in Seq(Answers \cup {"eof"}) /\ a \in Answers \cup {"eof"}
    BY <1>4, <1>8 DEF Takes
  <2>2. TypedTypeOK'
    <3>1. typed' = [typed EXCEPT ![p] = [@ EXCEPT !.lines = typing]]
      BY <1>3, <1>8 DEF Takes
    <3> HIDE DEF typing
    <3>2. [typed[p] EXCEPT !.lines = typing] \in line
      BY <1>3, <2>1
    <3> QED  BY <1>3, <3>1, <3>2 DEF TypedTypeOK
  <2>3. \/ Set(p, Ended("cancelled")) \/ Set(p, Ended("trusted")) \/ Set(p, Ended("untrusted"))
        \/ Set(p, [pc |-> "asking"])
        \/ /\ a \in Book!TrustChoices
           /\ Set(p, [pc |-> "lock", why |-> "save", choice |-> a, on |-> "trust", tries |-> 0])
    <3>1. CASE a \in {"eof", "cancel"}
      BY <1>8, <3>1 DEF Takes
    <3>2. CASE a = "session"
      BY <1>8, <3>2 DEF Takes, Answer
    <3>3. CASE a = "untrusted"
      BY <1>8, <3>3 DEF Takes, Answer
    <3>4. CASE a = "other" \/ (a = "trust_parent" /\ ~HasParent(p))
      BY <1>8, <3>4 DEF Takes
    <3>5. CASE /\ a \in Book!TrustChoices /\ ~(a = "trust_parent" /\ ~HasParent(p))
      BY <1>8, <3>5 DEF Takes
    <3> QED  BY <2>1, <3>1, <3>2, <3>3, <3>4, <3>5 DEF Answers
  <2>4. CASE Set(p, [pc |-> "asking"])
    <3> DEFINE r == [proc[p] EXCEPT !.pc = "asking"]
    <3>1. Becomes(p, r)
      BY <1>1, <2>4, MovesSet DEF Places
    <3>2. proc'[p] = r
      BY <1>1, <3>1 DEF Becomes, ProcTypeOK
    <3>3. Course(p)' /\ Outcome(p)'
      BY <1>1, <3>2 DEF Course, Outcome, Updating, Process
    <3>4. r.pc = "asking"
      BY <1>1 DEF Process
    <3> QED  BY <1>6, <2>2, <3>1, <3>3, <3>4
  <2>5. CASE /\ a \in Book!TrustChoices
             /\ Set(p, [pc |-> "lock", why |-> "save", choice |-> a, on |-> "trust", tries |-> 0])
    <3> HIDE DEF a
    <3> DEFINE r == [proc[p] EXCEPT !.pc = "lock", !.why = "save", !.choice = a, !.on = "trust", !.tries = 0]
    <3>1. Becomes(p, r)
      BY <1>1, <2>5, ChoiceSet
    <3>2. proc'[p] = r
      BY <1>1, <3>1 DEF Becomes, ProcTypeOK
    <3>3. /\ proc'[p].pc = "lock" /\ proc'[p].why = "save" /\ proc'[p].choice = a
          /\ proc'[p].on = "trust" /\ proc'[p].fail = proc[p].fail
          /\ proc'[p].committed = proc[p].committed /\ proc'[p].end = proc[p].end
      BY <1>1, <3>2 DEF Process
    <3>4. Course(p)' /\ Outcome(p)'
      BY <1>1, <2>5, <3>3 DEF Course, Outcome, Updating
    <3> QED  BY <1>6, <2>2, <3>1, <3>2, <3>3, <3>4
  <2> QED  BY <1>5, <2>2, <2>3, <2>4, <2>5
<1>9. CASE Quits(p)
  BY <1>5, <1>9 DEF Quits, IInv, TypeOK, TypedTypeOK
<1> QED  BY <1>7, <1>8, <1>9 DEF Asks

LEMMA NextIInv ==
  ASSUME IInv, [Next]_vars
  PROVE  IInv'
<1>1. CASE UNCHANGED vars
  BY <1>1
  DEF vars, IInv, TypeOK, ProcTypeOK, TypedTypeOK, DocsTypeOK, OwnerTypeOK, TempsTypeOK, SinceTypeOK,
      OtherTypeOK, Course, Outcome, LockHeld, FreshRead, Leftovers, Holding, Updating
<1>2. ASSUME NEW p \in Processes, Step(p)
      PROVE  IInv'
  BY <1>2, StartsIInv, LooksIInv, LocksIInv, ReadsIInv, WritesIInv, ReplacesIInv, ReleasesIInv, AsksIInv
  DEF Step
<1>3. ASSUME NEW p \in Processes, Outside(p)
      PROVE  IInv'
  BY <1>3, KilledIInv, TypingIInv DEF Outside
<1> QED  BY <1>1, <1>2, <1>3 DEF Next

LEMMA Invariance == Spec => []IInv
  BY InitIInv, NextIInv, PTL DEF Spec

-----------------------------------------------------------------------------
(* Results.                                                                 *)

(* Types of every variable, whatever the processes are started for.         *)
THEOREM TypeCorrect == Spec => []TypeOK
<1>1. IInv => TypeOK
  BY DEF IInv
<1> QED  BY <1>1, Invariance, PTL

(* The flock of a document is with exactly the process that is between its  *)
(* acquisition and its release (_acquire_policy_lock).                      *)
THEOREM LockCorrect == Spec => [](\A p \in Processes : LockHeld(p))
<1>1. IInv => \A p \in Processes : LockHeld(p)
  BY DEF IInv
<1> QED  BY <1>1, Invariance, PTL

(* What a process is about to replace is what it has read: nobody has saved *)
(* anything since (_update_policy_target).                                  *)
THEOREM NothingLost == Spec => [](\A p \in Processes : FreshRead(p))
<1>1. IInv => \A p \in Processes : FreshRead(p)
  BY DEF IInv
<1> QED  BY <1>1, Invariance, PTL

(* Who says that a choice is saved has saved it, who reports an error has   *)
(* not, and a temporary file is left only by one that was killed or whose   *)
(* commit failed (_commit_policy_target).                                   *)
THEOREM Truthful == Spec => []TellsTruth
<1>1. ASSUME IInv
      PROVE  TellsTruth
  <2>1. ASSUME NEW p \in Processes
        PROVE  /\ proc[p].end = "saved" => proc[p].committed
               /\ proc[p].end \in {"error", "refused", "cancelled"} => ~proc[p].committed
               /\ proc[p].end \in {"trusted", "untrusted"} =>
                    (proc[p].committed <=> proc[p].choice # "none")
               /\ \A d \in Documents : <<p, d>> \in temps =>
                    proc[p].pc = "replace" \/ proc[p].fail = "write" \/ proc[p].end = "killed"
    BY <1>1 DEF IInv, Course, Outcome, Leftovers
  <2> QED  BY <2>1 DEF TellsTruth
<1> QED  BY <1>1, Invariance, PTL

(* A step that commits nothing.                                             *)
Uncommitting(p) ==
    docs' = docs /\ \E fields : Set(p, fields) /\ "committed" \notin DOMAIN fields

LEMMA UncommittingKeeps ==
  ASSUME IInv, NEW p \in Processes, Uncommitting(p)
  PROVE  docs' = docs /\ \A q \in Processes : proc'[q].committed = proc[q].committed
<1>1. PICK fields : Set(p, fields) /\ "committed" \notin DOMAIN fields
  BY DEF Uncommitting
<1>2. ProcTypeOK
  BY DEF IInv, TypeOK
<1>3. /\ proc' = [proc EXCEPT ![p] = proc'[p]]
      /\ proc'[p] = [f \in Fields |-> IF f \in DOMAIN fields THEN fields[f] ELSE proc[p][f]]
  BY <1>1, <1>2, SetTo
<1>4. proc'[p].committed = proc[p].committed
  BY <1>1, <1>3 DEF Fields
<1>5. \A q \in Processes \ {p} : proc'[q] = proc[q]
  BY <1>2, <1>3 DEF ProcTypeOK
<1> QED  BY <1>4, <1>5 DEF Uncommitting

LEMMA Uncommitted ==
  /\ \A end : "committed" \notin DOMAIN Ended(end)
  /\ \A yes : "committed" \notin DOMAIN Answer(yes)
  /\ \A d : "committed" \notin DOMAIN LocksOn(d)
  /\ "committed" \notin DOMAIN Resolves
  BY DEF Ended, Answer, LocksOn, Resolves

LEMMA StartsSaveNothing ==
  ASSUME IInv, NEW p \in Processes, Starts(p)
  PROVE  Uncommitting(p)
<1>1. Job(p).kind \in Kinds
  BY WorldsAssumption DEF WorldsAssumption, IInv, TypeOK, OtherTypeOK, Job
<1>2. docs' = docs
  BY DEF Starts
<1>3. CASE Job(p).kind = "approve"
  BY <1>2, <1>3, Uncommitted DEF Starts, Uncommitting
<1>4. CASE Job(p).kind = "no_approve"
  BY <1>2, <1>4, Uncommitted DEF Starts, Uncommitting
<1>5. CASE Job(p).kind = "print"
  BY <1>2, <1>5, Uncommitted DEF Starts, Uncommitting
<1>6. CASE Job(p).kind = "interactive"
  BY <1>2, <1>6 DEF Starts, Uncommitting
<1>7. CASE Job(p).kind \in Book!TrustChoices
  BY <1>2, <1>7 DEF Starts, Uncommitting
<1>8. CASE Job(p).kind \in Book!Defaults
  BY <1>2, <1>8 DEF Starts, Uncommitting
<1> QED  BY <1>1, <1>3, <1>4, <1>5, <1>6, <1>7, <1>8 DEF Kinds

LEMMA OthersSaveNothing ==
  ASSUME IInv, NEW p \in Processes, Step(p) \/ Outside(p), ~Starts(p),
         ~(Replaces(p) /\ ~CommitFails(p))
  PROVE  UNCHANGED <<docs, proc>> \/ Uncommitting(p)
<1>1. CASE Looks(p)
  <2> DEFINE cwd == Job(p).cwd
  <2>1. CASE Unfit(cwd)
    BY <1>1, <2>1, Uncommitted DEF Looks, Uncommitting
  <2>2. CASE ~Unfit(cwd) /\ Protected(cwd)
    BY <1>1, <2>2, Uncommitted DEF Looks, Uncommitting
  <2>3. CASE ~Unfit(cwd) /\ ~Protected(cwd) /\ proc[p].why = "pending"
    BY <1>1, <2>3, Uncommitted DEF Looks, Uncommitting
  <2>4. CASE ~Unfit(cwd) /\ ~Protected(cwd) /\ proc[p].why # "pending"
    BY <1>1, <2>4, Uncommitted DEF Looks, Uncommitting
  <2> QED  BY <2>1, <2>2, <2>3, <2>4
<1>2. CASE Locks(p)
  <2>1. \/ Set(p, [pc |-> "read"]) \/ Set(p, [tries |-> proc[p].tries + 1]) \/ Set(p, Ended("error"))
    BY <1>2 DEF Locks
  <2>2. docs' = docs
    BY <1>2 DEF Locks
  <2> QED  BY <2>1, <2>2, Uncommitted DEF Uncommitting
<1>3. CASE Reads(p)
  BY <1>3 DEF Reads, Uncommitting
<1>4. CASE CommitFails(p)
  BY <1>4 DEF CommitFails, Uncommitting
<1>5. CASE Writes(p)
  BY <1>4, <1>5 DEF Writes, Uncommitting
<1>6. CASE Releases(p)
  <2>1. docs' = docs /\ (Set(p, After(p, FALSE)) \/ Set(p, After(p, TRUE)))
    BY <1>6 DEF Releases
  <2>2. "committed" \notin DOMAIN SavedChoice(p)
    BY Uncommitted DEF SavedChoice
  <2>3. "committed" \notin DOMAIN Decides(p)
    <3> DEFINE saved == Nearest(proc[p].read.trust, Job(p).cwd)
    <3> HIDE DEF saved
    <3>1. proc[p].on \in Documents
      BY DEF IInv, TypeOK, ProcTypeOK, Process
    <3>2. CASE proc[p].on = "trust" /\ saved = "nothing"
      BY <3>2, Uncommitted DEF Decides, saved
    <3>3. CASE proc[p].on = "trust" /\ saved # "nothing"
      BY <3>3, Uncommitted DEF Decides, saved
    <3>4. CASE proc[p].on = "settings"
      BY <3>4, Uncommitted DEF Decides
    <3> QED  BY <3>1, <3>2, <3>3, <3>4 DEF Documents
  <2>4. \A failed \in BOOLEAN : "committed" \notin DOMAIN After(p, failed)
    BY <2>2, <2>3, Uncommitted DEF After
  <2> QED  BY <2>1, <2>4 DEF Uncommitting
<1>7. CASE Asks(p)
  <2>1. docs' = docs
    BY <1>7 DEF Asks
  <2>2. CASE Takes(p)
    <3> DEFINE a == Head(typed[p].lines)
    <3>1. CASE a \in {"eof", "cancel"}
      BY <2>1, <2>2, <3>1, Uncommitted DEF Takes, Uncommitting
    <3>2. CASE a = "session"
      BY <2>1, <2>2, <3>2, Uncommitted DEF Takes, Uncommitting
    <3>3. CASE a = "untrusted"
      BY <2>1, <2>2, <3>3, Uncommitted DEF Takes, Uncommitting
    <3>4. CASE a = "other" \/ (a = "trust_parent" /\ ~HasParent(p))
      BY <2>1, <2>2, <3>4 DEF Takes, Uncommitting
    <3>5. CASE /\ a \notin {"eof", "cancel", "session", "untrusted", "other"}
               /\ ~(a = "trust_parent" /\ ~HasParent(p))
      <4>1. Set(p, [pc |-> "lock", why |-> "save", choice |-> a, on |-> "trust", tries |-> 0])
        BY <2>2, <3>5 DEF Takes
      <4> QED  BY <2>1, <4>1 DEF Uncommitting
    <3> QED  BY <3>1, <3>2, <3>3, <3>4, <3>5
  <2> QED
    BY <1>7, <2>1, <2>2, Uncommitted DEF Asks, Redraws, Quits, Uncommitting
<1>8. CASE Outside(p)
  BY <1>8, Uncommitted DEF Outside, Killed, Types, Resizes, Signals, Uncommitting
<1> QED  BY <1>1, <1>2, <1>3, <1>4, <1>5, <1>6, <1>7, <1>8 DEF Step

(* The processes implement PolicyBook: each choice is saved in one step, on *)
(* the documents that are there at that moment, and at most once.           *)
THEOREM Implements == Spec => KeepsBook
<1> DEFINE saved == {p \in Processes : proc[p].committed}
<1>1. Init => Book!Init
  <2> SUFFICES ASSUME Init PROVE Book!Init
    OBVIOUS
  <2>1. docs \in Documented
    BY WorldsAssumption DEF WorldsAssumption, Init
  <2>2. saved = {}
    BY DEF Init
  <2> QED  BY <2>1, <2>2 DEF Book!Init, Documented
<1>2. ASSUME IInv, [Next]_vars
      PROVE  [Book!Next]_<<docs, saved>>
  <2> USE <1>2
  <2>1. ASSUME NEW p \in Processes, Replaces(p), ~CommitFails(p)
        PROVE  Book!Next
    <3>1. /\ docs' = [docs EXCEPT ![proc[p].on] = Chosen(p)] /\ proc[p].pc = "replace"
          /\ Set(p, [pc |-> "release", committed |-> TRUE])
      BY <2>1 DEF Replaces
    <3>2. /\ ProcTypeOK /\ proc[p] \in Process /\ docs \in Documented /\ proc[p].on \in Documents
          /\ Course(p) /\ FreshRead(p)
      BY DEF IInv, TypeOK, ProcTypeOK, DocsTypeOK, Process
    <3>3. Becomes(p, [proc[p] EXCEPT !.pc = "release", !.committed = TRUE])
      BY <3>1, <3>2, CommitsSet
    <3>4. p \notin saved /\ saved' = saved \cup {p}
      BY <3>1, <3>2, <3>3 DEF Becomes, ProcTypeOK, Process, Course
    <3>5. CASE proc[p].on = "settings"
      <4>1. proc[p].choice \in Book!Defaults /\ docs' = [docs EXCEPT !.settings = proc[p].choice]
        BY <3>1, <3>2, <3>5 DEF Course, Updating, Chosen
      <4> QED  BY <3>4, <4>1 DEF Book!Next, Book!Saves
    <3>6. CASE proc[p].on = "trust"
      <4>1. proc[p].choice \in Book!TrustChoices /\ proc[p].read.trust = docs.trust
        BY <3>1, <3>2, <3>6 DEF Course, Updating, FreshRead
      <4>2. docs' = [docs EXCEPT !.trust = Book!Trusting(docs.trust, Job(p).cwd, proc[p].choice)]
        BY <3>1, <3>6, <4>1 DEF Chosen
      <4>3. Job(p).cwd \in Dirs
        BY WorldsAssumption DEF WorldsAssumption, Job, IInv, TypeOK, OtherTypeOK
      <4> QED  BY <3>4, <4>1, <4>2, <4>3 DEF Book!Next, Book!Saves
    <3> QED  BY <3>2, <3>5, <3>6 DEF Documents
  <2>2. ASSUME docs' = docs, \A p \in Processes : proc'[p].committed = proc[p].committed
        PROVE  UNCHANGED <<docs, saved>>
    BY <2>2
  <2>3. CASE UNCHANGED vars
    BY <2>2, <2>3 DEF vars
  <2>4. ASSUME NEW p \in Processes, UNCHANGED <<docs, proc>> \/ Uncommitting(p)
        PROVE  UNCHANGED <<docs, saved>>
    BY <2>2, <2>4, UncommittingKeeps
  <2>5. ASSUME NEW p \in Processes, Step(p) \/ Outside(p), ~(Replaces(p) /\ ~CommitFails(p))
        PROVE  UNCHANGED <<docs, proc>> \/ Uncommitting(p)
    BY <2>5, StartsSaveNothing, OthersSaveNothing DEF Step
  <2> QED  BY <2>1, <2>3, <2>4, <2>5 DEF Next
<1> QED  BY <1>1, <1>2, Invariance, PTL DEF Spec, KeepsBook, Book!Spec

-----------------------------------------------------------------------------
(* The directories above one are itself and those above its parent.         *)
LEMMA AboveStep ==
  ASSUME NEW d \in Dirs
  PROVE  /\ ParentOf[d] \in Dirs /\ Above(d) \subseteq Dirs
         /\ Above(d) = {d} \cup Above(ParentOf[d])
<1> DEFINE Closed(S) == \A x \in S : ParentOf[x] \in S
           p == ParentOf[d]
<1>1. p \in Dirs /\ \A x \in Dirs : ParentOf[x] \in Dirs
  BY ProjectTrustAssumption DEF ProjectTrustAssumption
<1>2. \A b \in Dirs : \A a \in Dirs : a \in Above(b) <=> \A S \in SUBSET Dirs : b \in S /\ Closed(S) => a \in S
  BY DEF Above
<1>3. d \in Above(d) /\ Above(p) \subseteq Above(d)
  BY <1>1, <1>2 DEF Above
<1>4. ASSUME NEW a \in Above(d), a # d
      PROVE  a \in Above(p)
  <2>1. a \in Dirs
    BY DEF Above
  <2>2. ASSUME NEW S \in SUBSET Dirs, p \in S, Closed(S)
        PROVE  a \in S
    <3>1. S \cup {d} \in SUBSET Dirs /\ d \in S \cup {d} /\ Closed(S \cup {d})
      BY <2>2
    <3>2. a \in S \cup {d}
      BY <1>2, <2>1, <3>1
    <3> QED  BY <1>4, <3>2
  <2> QED  BY <1>1, <1>2, <2>1, <2>2
<1> QED  BY <1>1, <1>3, <1>4 DEF Above

(* Of two directories only one is above the other.                          *)
LEMMA AboveOrder ==
  ASSUME NEW a \in Dirs, NEW b \in Dirs, a \in Above(b), b \in Above(a)
  PROVE  a = b
<1> DEFINE Cycle == {x \in Dirs : x \in Above(b) /\ b \in Above(x)}
<1>1. b \in Cycle
  BY AboveStep
<1>2. PICK d \in Cycle : ParentOf[d] = d \/ ParentOf[d] \notin Cycle
  BY <1>1, ProjectTrustAssumption DEF ProjectTrustAssumption
<1>3. \A x, y, z \in Dirs : x \in Above(y) /\ y \in Above(z) => x \in Above(z)
  <2> SUFFICES ASSUME NEW x \in Dirs, NEW y \in Dirs, NEW z \in Dirs, x \in Above(y), y \in Above(z)
               PROVE  x \in Above(z)
    OBVIOUS
  <2>1. ASSUME NEW S \in SUBSET Dirs, z \in S, \A v \in S : ParentOf[v] \in S
        PROVE  x \in S
    <3>1. y \in S
      BY <2>1 DEF Above
    <3> QED  BY <2>1, <3>1 DEF Above
  <2> QED  BY <2>1 DEF Above
<1>4. d = b
  <2>1. CASE ParentOf[d] = d
    <3>1. {d} \in SUBSET Dirs /\ \A x \in {d} : ParentOf[x] \in {d}
      BY <2>1
    <3>2. Above(d) \subseteq {d}
      BY <3>1 DEF Above
    <3> QED  BY <3>2
  <2>2. CASE ParentOf[d] \notin Cycle /\ d # b
    <3>1. ParentOf[d] \in Above(d) /\ ParentOf[d] \in Dirs
      BY AboveStep
    <3>2. ParentOf[d] \in Above(b)
      BY <1>3, <3>1
    <3>3. b \in Above(ParentOf[d])
      BY <2>2, AboveStep
    <3> QED  BY <2>2, <3>1, <3>2, <3>3
  <2> QED  BY <1>2, <2>1, <2>2
<1>5. CASE ParentOf[b] = b /\ a # b
  <2>1. a \in Above(b) /\ Above(b) \subseteq {b}
    <3>1. {b} \in SUBSET Dirs /\ \A x \in {b} : ParentOf[x] \in {b}
      BY <1>5
    <3> QED  BY <3>1 DEF Above
  <2> QED  BY <1>5, <2>1
<1>6. CASE ParentOf[b] \notin Cycle /\ a # b
  <2>1. a \in Above(ParentOf[b]) /\ ParentOf[b] \in Above(b) /\ ParentOf[b] \in Dirs
    BY <1>6, AboveStep
  <2>2. b \in Above(ParentOf[b])
    BY <1>3, <2>1
  <2> QED  BY <1>6, <2>1, <2>2
<1> QED  BY <1>2, <1>4, <1>5, <1>6

Decided(doc, d) == {a \in Above(d) : doc[a] \in Book!Decisions}
Found(doc, d) ==
    IF Decided(doc, d) = {} THEN "nothing"
    ELSE doc[CHOOSE a \in Decided(doc, d) : Decided(doc, d) \subseteq Above(a)]

LEMMA FoundStep ==
  ASSUME NEW doc, NEW d \in Dirs
  PROVE  Found(doc, d) = IF doc[d] \in Book!Decisions THEN doc[d]
                         ELSE IF ParentOf[d] = d THEN "nothing"
                         ELSE Found(doc, ParentOf[d])
<1> DEFINE p == ParentOf[d]
<1>1. p \in Dirs /\ Above(d) = {d} \cup Above(p) /\ Above(d) \subseteq Dirs /\ Above(p) \subseteq Dirs
  BY AboveStep
<1>2. CASE doc[d] \in Book!Decisions
  <2>1. d \in Decided(doc, d) /\ Decided(doc, d) \subseteq Above(d)
    BY <1>1, <1>2 DEF Decided
  <2>2. ASSUME NEW a \in Decided(doc, d), Decided(doc, d) \subseteq Above(a)
        PROVE  a = d
    BY <1>1, <2>1, <2>2, AboveOrder DEF Decided
  <2>3. (CHOOSE a \in Decided(doc, d) : Decided(doc, d) \subseteq Above(a)) = d
    BY <2>1, <2>2
  <2> QED  BY <1>2, <2>1, <2>3 DEF Found
<1>3. CASE doc[d] \notin Book!Decisions /\ p = d
  <2>1. {d} \in SUBSET Dirs /\ \A x \in {d} : ParentOf[x] \in {d}
    BY <1>3
  <2>2. Above(d) \subseteq {d}
    BY <2>1 DEF Above
  <2>3. Decided(doc, d) = {}
    BY <1>3, <2>2 DEF Decided
  <2> QED  BY <1>3, <2>3 DEF Found
<1>4. CASE doc[d] \notin Book!Decisions /\ p # d
  <2>1. Decided(doc, d) = Decided(doc, p)
    BY <1>1, <1>4 DEF Decided
  <2> QED  BY <1>4, <2>1 DEF Found
<1> QED  BY <1>2, <1>3, <1>4

(* _nearest_saved_policy finds the decision of the nearest directory.       *)
LEMMA NearestIs ==
  ASSUME NEW doc, NEW cwd \in Dirs
  PROVE  Nearest(doc, cwd) = Found(doc, cwd)
<1> DEFINE body(f) == [d \in Dirs |-> IF doc[d] \in Book!Decisions THEN doc[d]
                                      ELSE IF ParentOf[d] = d THEN "nothing"
                                      ELSE f[ParentOf[d]]]
           climb == CHOOSE f : f = body(f)
           found == [d \in Dirs |-> Found(doc, d)]
<1>1. Nearest(doc, cwd) = climb[cwd]
  BY DEF Nearest
<1>2. found = body(found)
  BY FoundStep, AboveStep
<1>3. climb = body(climb)
  <2> HIDE DEF body, found
  <2> QED  BY <1>2
<1>4. \A d \in Dirs : climb[d] = IF doc[d] \in Book!Decisions THEN doc[d]
                                 ELSE IF ParentOf[d] = d THEN "nothing"
                                 ELSE climb[ParentOf[d]]
  <2> HIDE DEF climb
  <2> QED  BY <1>3
<1> HIDE DEF climb
<1> DEFINE Differ == {d \in Dirs : climb[d] # Found(doc, d)}
<1>5. Differ = {}
  <2> SUFFICES ASSUME Differ # {} PROVE FALSE
    OBVIOUS
  <2>1. PICK d \in Differ : ParentOf[d] = d \/ ParentOf[d] \notin Differ
    BY ProjectTrustAssumption DEF ProjectTrustAssumption
  <2>2. ParentOf[d] \in Dirs
    BY AboveStep
  <2> QED  BY <1>4, <2>1, <2>2, FoundStep
<1> QED  BY <1>1, <1>5

(* What the code decides is what stands: by the nearest decision, else by   *)
(* the default.                                                             *)
LEMMA StandingIs ==
  ASSUME NEW on, NEW cwd \in Dirs
  PROVE  /\ Nearest(on.trust, cwd) \in {"nothing", "trusted", "untrusted"}
         /\ Standing(on, cwd) = IF Nearest(on.trust, cwd) = "nothing" THEN on.settings = "always"
                                ELSE Nearest(on.trust, cwd) = "trusted"
<1> DEFINE decided == Decided(on.trust, cwd)
           nearest == CHOOSE d \in decided : decided \subseteq Above(d)
<1>1. Nearest(on.trust, cwd) = IF decided = {} THEN "nothing" ELSE on.trust[nearest]
  BY NearestIs DEF Found
<1>2. Standing(on, cwd) = IF decided = {} THEN on.settings = "always" ELSE on.trust[nearest] = "trusted"
  BY DEF Standing, Decided
<1>3. ASSUME decided # {}
      PROVE  on.trust[nearest] \in Book!Decisions
  <2> DEFINE Wrong == {d \in Dirs : Decided(on.trust, d) # {} /\ Found(on.trust, d) \notin Book!Decisions}
  <2>1. Wrong = {}
    <3> SUFFICES ASSUME Wrong # {} PROVE FALSE
      OBVIOUS
    <3>1. PICK d \in Wrong : ParentOf[d] = d \/ ParentOf[d] \notin Wrong
      BY ProjectTrustAssumption DEF ProjectTrustAssumption
    <3>2. on.trust[d] \notin Book!Decisions
      BY <3>1, FoundStep
    <3>3. CASE ParentOf[d] = d
      <4>1. {d} \in SUBSET Dirs /\ \A x \in {d} : ParentOf[x] \in {d}
        BY <3>3
      <4>2. Above(d) \subseteq {d}
        BY <4>1 DEF Above
      <4> QED  BY <3>1, <3>2, <4>2 DEF Decided
    <3>4. CASE ParentOf[d] # d
      <4>1. Decided(on.trust, d) = Decided(on.trust, ParentOf[d])
        BY <3>2, AboveStep DEF Decided
      <4> QED  BY <3>1, <3>2, <3>4, <4>1, FoundStep, AboveStep
    <3> QED  BY <3>3, <3>4
  <2> QED  BY <1>3, <2>1 DEF Found
<1> QED  BY <1>1, <1>2, <1>3 DEF Book!Decisions

-----------------------------------------------------------------------------
(* Resolution.                                                              *)

Read(r) == r.pc = "release" /\ r.fail = "none"

(* What a process that resolves knows, by its record r and its history h,   *)
(* when the documents are now.                                              *)
Sound(r, h, now, cwd) ==
    LET said == Nearest(r.read.trust, cwd)
    IN  /\ Standing(now, cwd) \in h.right
        /\ r.on = "settings" \/ Read(r) =>
             /\ said # "nothing" => (said = "trusted") \in h.right
             /\ "trust" \notin h.changed => r.read.trust = now.trust
             /\ said = "nothing" /\ "settings" \notin h.changed => (now.settings = "always") \in h.right
        /\ r.on = "settings" => said = "nothing"
        /\ r.on = "settings" /\ Read(r) =>
             h.changed = Documents \/ (r.read.settings = "always") \in h.right

Verdict(r, h, guarded) ==
    r.end \in {"trusted", "untrusted"} /\ r.why = "resolve" =>
        \/ ~guarded
        \/ h.changed = Documents
        \/ (r.end = "trusted") \in h.right

Resolution(p) ==
    /\ proc[p].why = "resolve" /\ proc[p].pc \notin {"look", "ended"} =>
         Sound(proc[p], since[p], docs, Job(p).cwd)
    /\ Verdict(proc[p], since[p], Protected(Job(p).cwd))

RInv == IInv /\ \A p \in Processes : Resolution(p)

(* What is sound stays sound when a document is replaced.                   *)
LEMMA SoundReplaced ==
  ASSUME NEW r, NEW h, NEW old \in Documented, NEW new \in Documented, NEW cwd \in Dirs,
         NEW on \in Documents, \A d \in Documents \ {on} : new[d] = old[d],
         h.changed \subseteq Documents,
         Sound(r, h, old, cwd)
  PROVE  Sound(r, [right |-> h.right \cup {Standing(new, cwd)}, changed |-> h.changed \cup {on}], new, cwd)
<1> DEFINE g == [right |-> h.right \cup {Standing(new, cwd)}, changed |-> h.changed \cup {on}]
<1>1. /\ g.right = h.right \cup {Standing(new, cwd)} /\ g.changed = h.changed \cup {on}
      /\ h.changed = Documents => g.changed = Documents
  OBVIOUS
<1>2. on # "trust" => new.trust = old.trust
  BY DEF Documents
<1>3. on # "settings" => new.settings = old.settings
  BY DEF Documents
<1> HIDE DEF g
<1> QED  BY <1>1, <1>2, <1>3 DEF Sound

(* So does what is known of a process that takes no step.                   *)
LEMMA ResolutionElsewhere ==
  ASSUME RInv, NEW p \in Processes, Step(p) \/ Outside(p), NEW q \in Processes \ {p},
         proc'[q] = proc[q], docs' \in Documented
  PROVE  Resolution(q)'
<1>1. /\ world' = world /\ Job(q)' = Job(q) /\ Job(q).cwd \in Dirs
      /\ Protected(Job(q).cwd)' = Protected(Job(q).cwd)
  BY WorldsAssumption
  DEF WorldsAssumption, Job, Protected, RInv, IInv, TypeOK, OtherTypeOK, Step, Outside, Starts, Looks, Locks,
      Reads, Writes, Replaces, Releases, Asks, Killed, Types, Resizes, Signals
<1>2. Resolution(q) /\ since[q].changed \subseteq Documents /\ docs \in Documented
  BY DEF RInv, IInv, TypeOK, SinceTypeOK, DocsTypeOK
<1>3. CASE docs' = docs /\ since'[q] = since[q]
  BY <1>1, <1>2, <1>3 DEF Resolution, Verdict
<1>4. CASE Replaces(p) /\ ~CommitFails(p)
  <2> DEFINE on == proc[p].on
             h == [right |-> since[q].right \cup {Standing(docs', Job(q).cwd)},
                   changed |-> since[q].changed \cup {on}]
  <2>1. /\ docs' = [docs EXCEPT ![on] = Chosen(p)] /\ on \in Documents
        /\ since'[q] = IF proc[q].why # "resolve" \/ proc[q].pc = "ended" THEN since[q] ELSE h
    BY <1>4 DEF Replaces, RInv, IInv, TypeOK, ProcTypeOK, Process
  <2>2. \A d \in Documents \ {on} : docs'[d] = docs[d]
    BY <1>2, <2>1 DEF Documented, Documents
  <2>3. Verdict(proc[q], since'[q], Protected(Job(q).cwd))
    <3>1. proc[q].end # "none" => proc[q].pc = "ended"
      BY DEF RInv, IInv, Course
    <3> QED  BY <1>1, <1>2, <2>1, <3>1 DEF Resolution, Verdict
  <2>4. ASSUME proc[q].why = "resolve", proc[q].pc \notin {"look", "ended"}
        PROVE  Sound(proc[q], h, docs', Job(q).cwd)
    BY <1>1, <1>2, <2>1, <2>2, <2>4, SoundReplaced DEF Resolution
  <2> QED  BY <1>1, <2>1, <2>3, <2>4 DEF Resolution
<1>5. (docs' = docs /\ since'[q] = since[q]) \/ (Replaces(p) /\ ~CommitFails(p))
  BY DEF RInv, IInv, TypeOK, SinceTypeOK, Step, Outside, Starts, Looks, Locks,
      Reads, Writes, Replaces, Releases, Asks, Killed, Types, Resizes, Signals, CommitFails
<1> QED  BY <1>3, <1>4, <1>5

LEMMA WhySet ==
  ASSUME ProcTypeOK, NEW p \in Processes, NEW fields, Set(p, fields)
  PROVE  /\ "why" \notin DOMAIN fields => proc'[p].why = proc[p].why
         /\ "why" \in DOMAIN fields => proc'[p].why = fields["why"]
<1>1. proc'[p] = [f \in Fields |-> IF f \in DOMAIN fields THEN fields[f] ELSE proc[p][f]]
  BY SetTo
<1> QED  BY <1>1, Zenon DEF Fields

(* The steps of the process itself. One that resolves nothing now promises  *)
(* nothing yet.                                                             *)
LEMMA OtherCourse ==
  ASSUME RInv, NEW p \in Processes, IInv',
         \/ proc[p].pc = "start" /\ Starts(p)
         \/ Writes(p) \/ Replaces(p) \/ Asks(p) \/ Killed(p)
  PROVE  Resolution(p)'
<1>1. /\ ProcTypeOK /\ proc[p] \in Process /\ Course(p) /\ Course(p)'
  BY DEF RInv, IInv, TypeOK, ProcTypeOK
<1>2. ASSUME proc'[p].why # "resolve"
      PROVE  Resolution(p)'
  BY <1>2 DEF Resolution, Verdict
<1>3. CASE Starts(p)
  <2>1. Job(p).kind \in Kinds /\ proc[p].why = "none" /\ proc[p].end = "none"
    BY <1>1, <1>3, WorldsAssumption
    DEF WorldsAssumption, Starts, RInv, IInv, TypeOK, OtherTypeOK, Job, Course
  <2>2. CASE Job(p).kind = "print"
    <3>1. Set(p, [pc |-> "look", why |-> "resolve"])
      BY <1>3, <2>2 DEF Starts, Resolves
    <3>2. Becomes(p, [proc[p] EXCEPT !.pc = "look", !.why = "resolve"])
      BY <1>1, <3>1, LooksSet DEF Reasons
    <3>3. proc'[p].pc = "look" /\ proc'[p].end = "none"
      BY <1>1, <2>1, <3>2 DEF Becomes, ProcTypeOK, Process
    <3> QED  BY <3>3 DEF Resolution, Verdict
  <2>3. CASE Job(p).kind # "print"
    <3>1. \E fields : Set(p, fields) /\ ("why" \in DOMAIN fields => fields.why # "resolve")
      <4>1. CASE Job(p).kind = "approve"
        BY <1>3, <4>1 DEF Starts, Answer, Ended
      <4>2. CASE Job(p).kind = "no_approve"
        BY <1>3, <4>2 DEF Starts, Answer, Ended
      <4>3. CASE Job(p).kind = "interactive"
        BY <1>3, <4>3 DEF Starts
      <4>4. CASE Job(p).kind \in Book!TrustChoices
        <5>1. Set(p, [pc |-> "lock", why |-> "save", choice |-> Job(p).kind])
          BY <1>3, <4>4 DEF Starts
        <5> QED  BY <5>1
      <4>5. CASE Job(p).kind \in Book!Defaults
        <5>1. Set(p, [pc |-> "lock", on |-> "settings", why |-> "save", choice |-> Job(p).kind])
          BY <1>3, <4>5 DEF Starts
        <5> QED  BY <5>1
      <4> QED  BY <2>1, <2>3, <4>1, <4>2, <4>3, <4>4, <4>5 DEF Kinds
    <3>2. PICK fields : Set(p, fields) /\ ("why" \in DOMAIN fields => fields.why # "resolve")
      BY <3>1
    <3>3. proc'[p].why = IF "why" \in DOMAIN fields THEN fields.why ELSE proc[p].why
      BY <1>1, <3>2, WhySet
    <3> QED  BY <1>2, <2>1, <3>2, <3>3
  <2> QED  BY <2>2, <2>3
<1>4. CASE Writes(p) \/ Replaces(p)
  <2>1. proc[p].why = "save"
    BY <1>1, <1>4 DEF Writes, Replaces, Course, Updating
  <2>2. \/ Set(p, [pc |-> "replace"]) \/ Set(p, [pc |-> "release", committed |-> TRUE])
        \/ Set(p, [pc |-> "release", fail |-> "write"])
    BY <1>4 DEF Writes, Replaces, CommitFails
  <2>3. \E fields : Set(p, fields) /\ "why" \notin DOMAIN fields
    BY <2>2
  <2>4. proc'[p].why = proc[p].why
    BY <1>1, <2>3, WhySet
  <2> QED  BY <1>2, <2>1, <2>4
<1>5. CASE Asks(p)
  <2>1. proc[p].why = "pending"
    BY <1>1, <1>5 DEF Asks, Course
  <2>2. CASE UNCHANGED proc
    BY <1>2, <2>1, <2>2
  <2>3. CASE ~UNCHANGED proc
    <3>1. \E fields : Set(p, fields) /\ ("why" \in DOMAIN fields => fields.why # "resolve")
      <4>1. CASE Quits(p)
        BY <4>1 DEF Quits, Ended
      <4>2. CASE Takes(p)
        <5> DEFINE a == Head(typed[p].lines)
        <5>1. CASE a \in {"eof", "cancel"}
          <6>1. Set(p, Ended("cancelled"))
            BY <4>2, <5>1 DEF Takes
          <6> QED  BY <6>1 DEF Ended
        <5>2. CASE a = "session"
          BY <4>2, <5>2 DEF Takes, Answer, Ended
        <5>3. CASE a = "untrusted"
          BY <4>2, <5>3 DEF Takes, Answer, Ended
        <5>4. CASE a = "other" \/ (a = "trust_parent" /\ ~HasParent(p))
          BY <4>2, <5>4 DEF Takes
        <5>5. CASE /\ a \notin {"eof", "cancel", "session", "untrusted", "other"}
                   /\ ~(a = "trust_parent" /\ ~HasParent(p))
          <6>1. Set(p, [pc |-> "lock", why |-> "save", choice |-> a, on |-> "trust", tries |-> 0])
            BY <4>2, <5>5 DEF Takes
          <6> QED  BY <6>1
        <5> QED  BY <5>1, <5>2, <5>3, <5>4, <5>5
      <4> QED  BY <1>5, <2>3, <4>1, <4>2 DEF Asks, Redraws
    <3>2. PICK fields : Set(p, fields) /\ ("why" \in DOMAIN fields => fields.why # "resolve")
      BY <3>1
    <3>3. proc'[p].why = IF "why" \in DOMAIN fields THEN fields.why ELSE proc[p].why
      BY <1>1, <3>2, WhySet
    <3> QED  BY <1>2, <2>1, <3>2, <3>3
  <2> QED  BY <2>2, <2>3
<1>6. CASE Killed(p)
  <2>1. Becomes(p, [proc[p] EXCEPT !.pc = "ended", !.end = "killed"])
    BY <1>1, <1>6, EndsSet DEF Killed, Ends
  <2>2. proc'[p].pc = "ended" /\ proc'[p].end = "killed"
    BY <1>1, <2>1 DEF Becomes, ProcTypeOK, Process
  <2> QED  BY <2>2 DEF Resolution, Verdict
<1> QED  BY <1>3, <1>4, <1>5, <1>6

(* It looks at the project: what is right now is the first that has been.   *)
LEMMA LooksResolution ==
  ASSUME RInv, NEW p \in Processes, Looks(p)
  PROVE  Resolution(p)'
<1> DEFINE cwd == Job(p).cwd
<1>1. /\ ProcTypeOK /\ proc[p] \in Process /\ Course(p) /\ proc[p].end = "none"
      /\ proc[p].pc = "look" /\ proc[p].fail = "none"
      /\ Job(p)' = Job(p) /\ Protected(cwd)' = Protected(cwd) /\ docs' = docs
      /\ p \in DOMAIN since
  BY DEF Looks, RInv, IInv, TypeOK, ProcTypeOK, SinceTypeOK, Course, Process, Job, Protected
<1>2. CASE Unfit(cwd)
  <2>1. Becomes(p, [proc[p] EXCEPT !.pc = "ended", !.end = "refused"])
    BY <1>1, <1>2, EndsSet DEF Looks, Ends
  <2>2. proc'[p].pc = "ended" /\ proc'[p].end = "refused"
    BY <1>1, <2>1 DEF Becomes, ProcTypeOK, Process
  <2> QED  BY <2>2 DEF Resolution, Verdict
<1>3. CASE ~Unfit(cwd) /\ Protected(cwd)
  <2>1. Set(p, LocksOn("trust"))
    BY <1>3 DEF Looks
  <2>2. Becomes(p, [proc[p] EXCEPT !.pc = "lock", !.on = "trust", !.tries = 0])
    BY <1>1, <2>1, LocksSet DEF Documents
  <2>3. /\ proc'[p].pc = "lock" /\ proc'[p].on = "trust" /\ proc'[p].end = "none"
        /\ proc'[p].why = proc[p].why
    BY <1>1, <2>2 DEF Becomes, ProcTypeOK, Process
  <2>4. proc[p].why = "resolve" => since'[p].right = {Standing(docs, cwd)}
    BY <1>1, <1>3 DEF Looks
  <2> QED  BY <1>1, <2>3, <2>4 DEF Resolution, Verdict, Sound, Read
<1>4. CASE ~Unfit(cwd) /\ ~Protected(cwd) /\ proc[p].why = "pending"
  <2>1. Set(p, [pc |-> "look", why |-> "resolve"])
    BY <1>4 DEF Looks, Resolves
  <2>2. Becomes(p, [proc[p] EXCEPT !.pc = "look", !.why = "resolve"])
    BY <1>1, <2>1, LooksSet DEF Reasons
  <2>3. proc'[p].pc = "look" /\ proc'[p].end = "none"
    BY <1>1, <2>2 DEF Becomes, ProcTypeOK, Process
  <2> QED  BY <2>3 DEF Resolution, Verdict
<1>5. CASE ~Unfit(cwd) /\ ~Protected(cwd) /\ proc[p].why # "pending"
  <2>1. Becomes(p, [proc[p] EXCEPT !.pc = "ended", !.end = "trusted"])
    BY <1>1, <1>5, EndsSet DEF Looks, Answer, Ends
  <2>2. proc'[p].pc = "ended"
    BY <1>1, <2>1 DEF Becomes, ProcTypeOK, Process
  <2> QED  BY <1>1, <1>5, <2>2 DEF Resolution, Verdict
<1> QED  BY <1>2, <1>3, <1>4, <1>5

LEMMA LocksResolution ==
  ASSUME RInv, NEW p \in Processes, Locks(p)
  PROVE  Resolution(p)'
<1>1. /\ ProcTypeOK /\ proc[p] \in Process /\ Course(p) /\ proc[p].end = "none"
      /\ proc[p].pc = "lock" /\ Resolution(p)
      /\ Job(p)' = Job(p) /\ docs' = docs /\ since' = since
  BY DEF Locks, RInv, IInv, TypeOK, ProcTypeOK, Course, Process, Job
<1>2. CASE Set(p, Ended("error"))
  <2>1. Becomes(p, [proc[p] EXCEPT !.pc = "ended", !.end = "error"])
    BY <1>1, <1>2, EndsSet DEF Ends
  <2>2. proc'[p].pc = "ended" /\ proc'[p].end = "error"
    BY <1>1, <2>1 DEF Becomes, ProcTypeOK, Process
  <2> QED  BY <2>2 DEF Resolution, Verdict
<1>3. CASE Set(p, [pc |-> "read"]) \/ Set(p, [tries |-> proc[p].tries + 1])
  <2>1. /\ proc'[p].pc \in {"read", "lock"}
        /\ proc'[p].on = proc[p].on /\ proc'[p].end = "none" /\ proc'[p].why = proc[p].why
        /\ proc'[p].read = proc[p].read
    <3>1. proc[p].tries + 1 \in Nat
      BY <1>1 DEF Process
    <3>2. \/ Becomes(p, [proc[p] EXCEPT !.pc = "read"])
          \/ Becomes(p, [proc[p] EXCEPT !.tries = proc[p].tries + 1])
      BY <1>1, <1>3, <3>1, MovesSet, TriesSet DEF Places
    <3> QED  BY <1>1, <3>2 DEF Becomes, ProcTypeOK, Process
  <2> QED  BY <1>1, <2>1 DEF Resolution, Verdict, Sound, Read
<1> QED  BY <1>2, <1>3 DEF Locks

(* It reads a document.                                                     *)
LEMMA ReadsResolution ==
  ASSUME RInv, NEW p \in Processes, Reads(p)
  PROVE  Resolution(p)'
<1> DEFINE on == proc[p].on
           doc == [proc[p].read EXCEPT ![on] = docs[on]]
           cwd == Job(p).cwd
<1>1. /\ ProcTypeOK /\ proc[p] \in Process /\ Course(p) /\ proc[p].end = "none"
      /\ proc[p].pc = "read" /\ Resolution(p) /\ on \in Documents
      /\ Job(p)' = Job(p) /\ docs' = docs /\ since' = since
      /\ docs \in Documented /\ proc[p].read \in Documented
      /\ since[p].changed \subseteq Documents
  BY DEF Reads, RInv, IInv, TypeOK, ProcTypeOK, DocsTypeOK, SinceTypeOK, Course, Process, Job
<1>2. CASE proc[p].why # "resolve"
  <2>1. \E fields : Set(p, fields) /\ "why" \notin DOMAIN fields
    BY DEF Reads
  <2>2. proc'[p].why = proc[p].why
    BY <1>1, <2>1, WhySet
  <2> QED  BY <1>2, <2>2 DEF Resolution, Verdict
<1>3. CASE proc[p].why = "resolve" /\ Set(p, [pc |-> "release", fail |-> "read"])
  <2>1. Becomes(p, [proc[p] EXCEPT !.pc = "release", !.fail = "read"])
    BY <1>1, <1>3, FailsSet DEF Failures
  <2>2. /\ proc'[p].pc = "release" /\ proc'[p].fail = "read" /\ proc'[p].end = "none"
        /\ proc'[p].on = on /\ proc'[p].read = proc[p].read
    BY <1>1, <2>1 DEF Becomes, ProcTypeOK, Process
  <2> QED  BY <1>1, <1>3, <2>2 DEF Resolution, Verdict, Sound, Read
<1>4. CASE /\ proc[p].why = "resolve"
           /\ Set(p, [pc |-> IF proc[p].why = "save" /\ on \notin world.bad THEN "write" ELSE "release",
                      fail |-> IF on \in world.bad THEN "document" ELSE "none", read |-> doc])
  <2> DEFINE fail == IF on \in world.bad THEN "document" ELSE "none"
             said == Nearest(proc[p].read.trust, cwd)
  <2>1. proc'[p] = [f \in Fields |-> IF f = "pc" THEN "release" ELSE IF f = "fail" THEN fail
                                     ELSE IF f = "read" THEN doc ELSE proc[p][f]]
    BY <1>1, <1>4, SetTo DEF Fields
  <2>2. /\ proc'[p].pc = "release" /\ proc'[p].fail = fail /\ proc'[p].end = "none"
        /\ proc'[p].on = on /\ proc'[p].read = doc
    BY <1>1, <2>1 DEF Fields
  <2>3. /\ Standing(docs, cwd) \in since[p].right
        /\ on = "settings" =>
             /\ said = "nothing"
             /\ "trust" \notin since[p].changed => proc[p].read.trust = docs.trust
             /\ "settings" \notin since[p].changed => (docs.settings = "always") \in since[p].right
    BY <1>1, <1>4 DEF Resolution, Sound
  <2>4. Standing(docs, cwd) = IF Nearest(docs.trust, cwd) = "nothing" THEN docs.settings = "always"
                              ELSE Nearest(docs.trust, cwd) = "trusted"
    <3>1. cwd \in Dirs
      BY WorldsAssumption DEF WorldsAssumption, Job, RInv, IInv, TypeOK, OtherTypeOK
    <3> QED  BY <3>1, StandingIs
  <2>5. CASE on = "trust"
    <3>1. doc.trust = docs.trust
      BY <1>1, <2>5 DEF Documented
    <3> HIDE DEF doc
    <3> QED  BY <1>1, <2>2, <2>3, <2>4, <2>5, <3>1 DEF Resolution, Verdict, Sound
  <2>6. CASE on = "settings"
    <3>1. doc.trust = proc[p].read.trust /\ doc.settings = docs.settings
      BY <1>1, <2>6 DEF Documented
    <3>2. since[p].changed = Documents \/ (docs.settings = "always") \in since[p].right
      BY <1>1, <2>3, <2>4, <2>6 DEF Documents
    <3> HIDE DEF doc
    <3> QED  BY <1>1, <2>2, <2>3, <2>6, <3>1, <3>2 DEF Resolution, Verdict, Sound
  <2> QED  BY <1>1, <2>5, <2>6 DEF Documents
<1> QED  BY <1>2, <1>3, <1>4 DEF Reads

(* It releases the lock, and goes by what it has read.                      *)
LEMMA ReleasesResolution ==
  ASSUME RInv, NEW p \in Processes, Releases(p)
  PROVE  Resolution(p)'
<1> DEFINE saved == Nearest(proc[p].read.trust, Job(p).cwd)
<1>1. /\ ProcTypeOK /\ proc[p] \in Process /\ Course(p) /\ proc[p].end = "none"
      /\ proc[p].pc = "release" /\ Resolution(p) /\ proc[p].on \in Documents
      /\ Job(p)' = Job(p) /\ docs' = docs /\ since' = since
      /\ Protected(Job(p).cwd)' = Protected(Job(p).cwd)
  BY DEF Releases, RInv, IInv, TypeOK, ProcTypeOK, Course, Process, Job, Protected
<1>2. CASE proc[p].why # "resolve"
  <2>1. \E fields : Set(p, fields) /\ (fields = Resolves \/ "why" \notin DOMAIN fields)
    <3>1. \/ Set(p, SavedChoice(p)) \/ Set(p, Ended("error")) \/ Set(p, Decides(p))
      BY DEF Releases, After
    <3>2. /\ "why" \notin DOMAIN SavedChoice(p)
          /\ "why" \notin DOMAIN Ended("error")
      BY DEF SavedChoice, Answer, Ended
    <3>3. Decides(p) = Resolves \/ "why" \notin DOMAIN Decides(p)
      <4> HIDE DEF saved
      <4>1. CASE proc[p].on = "trust" /\ saved = "nothing"
        BY <4>1 DEF Decides, LocksOn, saved
      <4>2. CASE proc[p].on = "trust" /\ saved # "nothing"
        BY <4>2 DEF Decides, Answer, Ended, saved
      <4>3. CASE proc[p].on = "settings"
        BY <4>3 DEF Decides, Answer, Ended
      <4> QED  BY <1>1, <4>1, <4>2, <4>3 DEF Documents
    <3> QED  BY <3>1, <3>2, <3>3
  <2>2. PICK fields : Set(p, fields) /\ (fields = Resolves \/ "why" \notin DOMAIN fields)
    BY <2>1
  <2>3. CASE "why" \notin DOMAIN fields
    <3>1. proc'[p].why = proc[p].why
      BY <1>1, <2>2, <2>3, WhySet
    <3> QED  BY <1>2, <3>1 DEF Resolution, Verdict
  <2>4. CASE fields = Resolves
    <3>1. Becomes(p, [proc[p] EXCEPT !.pc = "look", !.why = "resolve"])
      BY <1>1, <2>2, <2>4, LooksSet DEF Resolves, Reasons
    <3>2. proc'[p].pc = "look" /\ proc'[p].end = "none"
      BY <1>1, <3>1 DEF Becomes, ProcTypeOK, Process
    <3> QED  BY <3>2 DEF Resolution, Verdict
  <2> QED  BY <2>2, <2>3, <2>4
<1>3. ASSUME NEW end \in Ends, Set(p, Ended(end)), proc[p].why = "resolve",
             \/ end = "error"
             \/ since[p].changed = Documents
             \/ (end = "trusted") \in since[p].right
      PROVE  Resolution(p)'
  <2>1. Becomes(p, [proc[p] EXCEPT !.pc = "ended", !.end = end])
    BY <1>1, <1>3, EndsSet
  <2>2. proc'[p].pc = "ended" /\ proc'[p].end = end
    BY <1>1, <2>1 DEF Becomes, ProcTypeOK, Process
  <2> QED  BY <1>1, <1>3, <2>2 DEF Resolution, Verdict
<1>4. CASE proc[p].why = "resolve"
  <2>1. ~proc[p].committed /\ Sound(proc[p], since[p], docs, Job(p).cwd)
    BY <1>1, <1>4 DEF Course, Resolution
  <2>2. CASE Set(p, Ended("error"))
    BY <1>3, <1>4, <2>2 DEF Ends
  <2>3. CASE proc[p].fail = "none" /\ Set(p, Decides(p))
    <3> HIDE DEF saved
    <3>1. CASE proc[p].on = "trust" /\ saved = "nothing"
      <4>1. Set(p, LocksOn("settings"))
        BY <2>3, <3>1 DEF Decides, saved
      <4>2. Becomes(p, [proc[p] EXCEPT !.pc = "lock", !.on = "settings", !.tries = 0])
        BY <1>1, <4>1, LocksSet DEF Documents
      <4>3. /\ proc'[p].pc = "lock" /\ proc'[p].on = "settings" /\ proc'[p].end = "none"
            /\ proc'[p].read = proc[p].read
        BY <1>1, <4>2 DEF Becomes, ProcTypeOK, Process
      <4> QED
        BY <1>1, <2>1, <2>3, <3>1, <4>3 DEF Resolution, Verdict, Sound, Read, saved
    <3>2. CASE proc[p].on = "trust" /\ saved # "nothing"
      <4>1. Set(p, Ended(IF saved = "trusted" THEN "trusted" ELSE "untrusted"))
        BY <1>4, <2>3, <3>2 DEF Decides, Answer, saved
      <4>2. (saved = "trusted") \in since[p].right
        BY <1>1, <2>1, <2>3, <3>2 DEF Sound, Read, saved
      <4> QED  BY <1>3, <1>4, <4>1, <4>2 DEF Ends
    <3>3. CASE proc[p].on = "settings"
      <4> DEFINE always == proc[p].read.settings = "always"
      <4>1. Set(p, Ended(IF always THEN "trusted" ELSE "untrusted"))
        BY <1>4, <2>3, <3>3 DEF Decides, Answer
      <4>2. since[p].changed = Documents \/ always \in since[p].right
        BY <1>1, <2>1, <2>3, <3>3 DEF Sound, Read
      <4> QED  BY <1>3, <1>4, <4>1, <4>2 DEF Ends
    <3> QED  BY <1>1, <3>1, <3>2, <3>3 DEF Documents
  <2> QED  BY <2>1, <2>2, <2>3 DEF Releases, After
<1> QED  BY <1>2, <1>4

(* What a process resolves has been right since it began, unless both       *)
(* documents have changed meanwhile (ResolvesRight).                        *)
THEOREM Resolving == Spec => []ResolvesRight
<1>1. Init => \A p \in Processes : Resolution(p)
  BY DEF Init, Resolution, Verdict
<1>2. ASSUME RInv, [Next]_vars, IInv'
      PROVE  RInv'
  <2> USE <1>2
  <2>1. CASE UNCHANGED vars
    BY <2>1 DEF vars, RInv, Resolution, Verdict, Job, Protected
  <2>2. ASSUME NEW p \in Processes, Step(p) \/ Outside(p)
        PROVE  RInv'
    <3>1. \A q \in Processes \ {p} : proc'[q] = proc[q]
      <4>1. UNCHANGED proc \/ \E fields : Set(p, fields)
        BY <2>2 DEF Step, Outside, Starts, Looks, Locks, Reads, Writes, CommitFails, Replaces, Releases,
                    Asks, Redraws, Takes, Quits, Killed, Types, Resizes, Signals
      <4> QED  BY <4>1 DEF Set, RInv, IInv, TypeOK, ProcTypeOK
    <3>2. docs' \in Documented
      BY DEF IInv, TypeOK, DocsTypeOK
    <3>3. \A q \in Processes \ {p} : Resolution(q)'
      BY <2>2, <3>1, <3>2, ResolutionElsewhere
    <3>4. Resolution(p)'
      <4>1. CASE Types(p) \/ Resizes(p) \/ Signals(p)
        BY <4>1 DEF Types, Resizes, Signals, RInv, Resolution, Verdict, Job, Protected
      <4> QED
        BY <2>2, <4>1, OtherCourse, LooksResolution, LocksResolution, ReadsResolution, ReleasesResolution
        DEF Step, Outside, Starts
    <3> QED  BY <3>3, <3>4 DEF RInv
  <2> QED  BY <2>1, <2>2 DEF Next
<1>3. RInv => ResolvesRight
  BY DEF RInv, ResolvesRight, Resolution, Verdict
<1> QED  BY <1>1, <1>2, <1>3, Invariance, InitIInv, PTL DEF Spec, RInv

-----------------------------------------------------------------------------
(* The terminal. What there is to do for the loop that changes what it      *)
(* listens to, and what does not.                                           *)
CommandWork == {"reload", "compact", "clear"}
PromptWork == {"prompt"}
QueueWork == {"steering", "followUp"}
ShowWork == {"resources"}
Controls == {"interrupt", "end", "choice", "cancel", "failure", "quit"}

Holds(ls, K) == \E i \in DOMAIN ls : ls[i].is \in K
Once(ls, K) == \A i, j \in DOMAIN ls : ls[i].is \in K /\ ls[j].is \in K => i = j
AllControls(ls) == \A i \in DOMAIN ls : ls[i].is \in Controls
CommandLast(ls) ==
    \A i, j \in DOMAIN ls : ls[i].is \in CommandWork /\ i < j => ls[j].is \in Controls
Worklist(ls) == ls \in Seq(ToSet(ls))

(* A command is in one place: in a dialogue, in the queue, or with the      *)
(* loop. Behind it, and while its task runs, only control work is queued.   *)
Commanding(u, ls) ==
    /\ u.command <=> \/ u.modal # None \/ Holds(ls, CommandWork)
                     \/ loop.pc \in {"extra", "clear"} \/ op.is # None
    /\ u.modal # None \/ Holds(ls, CommandWork) =>
         loop.pc \notin {"extra", "clear"} /\ op.is = None
    /\ u.modal # None => ~Holds(ls, CommandWork)
    /\ Once(ls, CommandWork) /\ CommandLast(ls)
    /\ op.is # None => AllControls(ls)

(* So is a text for the session.                                            *)
Submitting(u, ls) ==
    /\ u.pending <=> Holds(ls, PromptWork) \/ loop.pc = "admit"
    /\ u.enqueue <=> Holds(ls, QueueWork) \/ loop.pc = "enqueue"
    /\ Once(ls, PromptWork) /\ (loop.pc = "admit" => ~Holds(ls, PromptWork))
    /\ Once(ls, QueueWork) /\ (loop.pc = "enqueue" => ~Holds(ls, QueueWork))

(* The editor takes no text only while a line of it is dealt with.          *)
Thawing(e, u, ls) == e.frozen => u.pending \/ u.enqueue \/ Holds(ls, ShowWork)

Running ==
    /\ loop.pc = "extra" => op.is # None
    /\ loop.pc = "clear" => op.is = None
    /\ loop.pc # "join"

Listens == ~ui.closed /\ loop.pc # "exited"

EditorFields == {"text", "draft", "draftId", "entered", "frozen"}
Editor(e) == EditorFields \subseteq DOMAIN e /\ e.frozen \in BOOLEAN
AdapterFields ==
    {"closed", "pending", "enqueue", "command", "failed", "reader", "modal", "typed", "prompt"}
Adapter(u) ==
    /\ AdapterFields \subseteq DOMAIN u
    /\ u.closed \in BOOLEAN /\ u.pending \in BOOLEAN /\ u.enqueue \in BOOLEAN
    /\ u.command \in BOOLEAN

TerminalTypes ==
    /\ Editor(ed) /\ Adapter(ui) /\ Worklist(lines)
    /\ "is" \in DOMAIN op /\ "keys" \in DOMAIN left
    /\ \A keys \in left.keys : Worklist(keys)
Listening ==
    Commanding(ui, lines) /\ Submitting(ui, lines) /\ Thawing(ed, ui, lines) /\ Running
TerminalInv == TerminalTypes /\ (Listens => Listening)

-----------------------------------------------------------------------------
(* One more piece of work.                                                  *)
LEMMA AppendedWork ==
  ASSUME NEW ls, Worklist(ls), NEW w
  PROVE  /\ Worklist(Append(ls, w)) /\ DOMAIN ls = 1..Len(ls) /\ Len(ls) \in Nat
         /\ DOMAIN Append(ls, w) = 1..(Len(ls) + 1)
         /\ \A i \in DOMAIN ls : Append(ls, w)[i] = ls[i]
         /\ Append(ls, w)[Len(ls) + 1] = w
<1> DEFINE S == ToSet(ls) \cup {w}
           t == Append(ls, w)
<1>1. ls \in Seq(S) /\ w \in S /\ Len(ls) \in Nat
  BY DEF Worklist
<1> HIDE DEF S
<1>2. /\ t \in Seq(S) /\ Len(t) = Len(ls) + 1 /\ DOMAIN ls = 1..Len(ls)
      /\ DOMAIN t = 1..(Len(ls) + 1)
      /\ \A i \in 1..Len(ls) : t[i] = ls[i]
      /\ t[Len(ls) + 1] = w
  BY <1>1
<1> HIDE DEF t
<1>3. \A i \in 1..Len(t) : t[i] \in ToSet(t)
  BY <1>1, <1>2 DEF ToSet
<1>4. t \in Seq(ToSet(t))
  BY <1>1, <1>2, <1>3
<1> QED  BY <1>1, <1>2, <1>4 DEF Worklist, t

LEMMA HoldsAppend ==
  ASSUME NEW ls, Worklist(ls), NEW w, NEW K
  PROVE  Holds(Append(ls, w), K) <=> Holds(ls, K) \/ w.is \in K
<1> DEFINE t == Append(ls, w)
           n == Len(ls)
<1>1. /\ DOMAIN ls = 1..n /\ n \in Nat /\ DOMAIN t = 1..(n + 1)
      /\ (\A i \in 1..n : t[i] = ls[i]) /\ t[n + 1] = w
  BY AppendedWork
<1> HIDE DEF t, n
<1>2. Holds(t, K) => Holds(ls, K) \/ w.is \in K
  <2> SUFFICES ASSUME NEW i \in 1..(n + 1), t[i].is \in K PROVE Holds(ls, K) \/ w.is \in K
    BY <1>1 DEF Holds
  <2>1. i = n + 1 \/ i \in 1..n
    BY <1>1
  <2> QED  BY <1>1, <2>1 DEF Holds
<1>3. Holds(ls, K) => Holds(t, K)
  <2> SUFFICES ASSUME NEW i \in 1..n, ls[i].is \in K PROVE Holds(t, K)
    BY <1>1 DEF Holds
  <2>1. i \in 1..(n + 1) /\ t[i].is \in K
    BY <1>1
  <2> QED  BY <1>1, <2>1 DEF Holds
<1>4. w.is \in K => Holds(t, K)
  <2>1. n + 1 \in 1..(n + 1)
    BY <1>1
  <2> QED  BY <1>1, <2>1 DEF Holds
<1> QED  BY <1>2, <1>3, <1>4 DEF t

LEMMA OnceAppend ==
  ASSUME NEW ls, Worklist(ls), NEW w, NEW K, Once(ls, K), w.is \in K => ~Holds(ls, K)
  PROVE  Once(Append(ls, w), K)
<1> DEFINE t == Append(ls, w)
           n == Len(ls)
<1>1. /\ DOMAIN ls = 1..n /\ n \in Nat /\ DOMAIN t = 1..(n + 1)
      /\ (\A i \in 1..n : t[i] = ls[i]) /\ t[n + 1] = w
  BY AppendedWork
<1> HIDE DEF t, n
<1> SUFFICES ASSUME NEW i \in 1..(n + 1), NEW j \in 1..(n + 1), t[i].is \in K, t[j].is \in K
             PROVE  i = j
  BY <1>1 DEF Once, t
<1>2. (i = n + 1 \/ i \in 1..n) /\ (j = n + 1 \/ j \in 1..n)
  BY <1>1
<1>3. CASE i \in 1..n /\ j \in 1..n
  <2>1. ls[i].is \in K /\ ls[j].is \in K
    BY <1>1, <1>3
  <2> QED  BY <1>1, <1>3, <2>1 DEF Once
<1>4. CASE i \in 1..n /\ j = n + 1
  BY <1>1, <1>4 DEF Holds
<1>5. CASE i = n + 1 /\ j \in 1..n
  BY <1>1, <1>5 DEF Holds
<1> QED  BY <1>2, <1>3, <1>4, <1>5

LEMMA LastAppend ==
  ASSUME NEW ls, Worklist(ls), NEW w, CommandLast(ls),
         Holds(ls, CommandWork) => w.is \in Controls
  PROVE  CommandLast(Append(ls, w))
<1> DEFINE t == Append(ls, w)
           n == Len(ls)
<1>1. /\ DOMAIN ls = 1..n /\ n \in Nat /\ DOMAIN t = 1..(n + 1)
      /\ (\A i \in 1..n : t[i] = ls[i]) /\ t[n + 1] = w
  BY AppendedWork
<1> HIDE DEF t, n
<1> SUFFICES ASSUME NEW i \in 1..(n + 1), NEW j \in 1..(n + 1), t[i].is \in CommandWork, i < j
             PROVE  t[j].is \in Controls
  BY <1>1 DEF CommandLast, t
<1>2. i \in 1..n /\ (j = n + 1 \/ j \in 1..n)
  BY <1>1
<1>3. ls[i].is \in CommandWork
  BY <1>1, <1>2
<1>4. CASE j \in 1..n
  BY <1>1, <1>2, <1>3, <1>4 DEF CommandLast
<1>5. CASE j = n + 1
  BY <1>1, <1>2, <1>3, <1>5 DEF Holds
<1> QED  BY <1>2, <1>4, <1>5

LEMMA ControlsAppend ==
  ASSUME NEW ls, Worklist(ls), NEW w, AllControls(ls), w.is \in Controls
  PROVE  AllControls(Append(ls, w))
<1> DEFINE t == Append(ls, w)
           n == Len(ls)
<1>1. /\ DOMAIN ls = 1..n /\ n \in Nat /\ DOMAIN t = 1..(n + 1)
      /\ (\A i \in 1..n : t[i] = ls[i]) /\ t[n + 1] = w
  BY AppendedWork
<1> HIDE DEF t, n
<1> SUFFICES ASSUME NEW i \in 1..(n + 1) PROVE t[i].is \in Controls
  BY <1>1 DEF AllControls, t
<1>2. i = n + 1 \/ i \in 1..n
  BY <1>1
<1> QED  BY <1>1, <1>2 DEF AllControls

(* The first piece of work is taken.                                        *)
LEMMA TailWork ==
  ASSUME NEW ls, Worklist(ls), ls # <<>>
  PROVE  /\ Worklist(Tail(ls)) /\ Len(ls) \in Nat \ {0} /\ DOMAIN ls = 1..Len(ls)
         /\ DOMAIN Tail(ls) = 1..(Len(ls) - 1)
         /\ \A i \in 1..(Len(ls) - 1) : Tail(ls)[i] = ls[i + 1]
         /\ Head(ls) = ls[1]
<1> DEFINE S == ToSet(ls)
           t == Tail(ls)
<1>1. ls \in Seq(S) /\ Len(ls) \in Nat /\ Len(ls) # 0
  BY DEF Worklist
<1> HIDE DEF S
<1>2. /\ t \in Seq(S) /\ Len(t) = Len(ls) - 1 /\ DOMAIN ls = 1..Len(ls)
      /\ DOMAIN t = 1..(Len(ls) - 1)
      /\ \A i \in 1..(Len(ls) - 1) : t[i] = ls[i + 1]
      /\ Head(ls) = ls[1]
  BY <1>1
<1> HIDE DEF t
<1>3. \A i \in 1..Len(t) : t[i] \in ToSet(t)
  BY <1>1, <1>2 DEF ToSet
<1>4. t \in Seq(ToSet(t))
  BY <1>1, <1>2, <1>3
<1> QED  BY <1>1, <1>2, <1>4 DEF Worklist, t

LEMMA HoldsTail ==
  ASSUME NEW ls, Worklist(ls), ls # <<>>, NEW K
  PROVE  Holds(ls, K) <=> Head(ls).is \in K \/ Holds(Tail(ls), K)
<1> DEFINE t == Tail(ls)
           n == Len(ls)
<1>1. /\ n \in Nat \ {0} /\ DOMAIN ls = 1..n /\ DOMAIN t = 1..(n - 1)
      /\ (\A i \in 1..(n - 1) : t[i] = ls[i + 1]) /\ Head(ls) = ls[1]
  BY TailWork
<1> HIDE DEF t, n
<1>2. Holds(ls, K) => Head(ls).is \in K \/ Holds(t, K)
  <2> SUFFICES ASSUME NEW i \in 1..n, ls[i].is \in K, i # 1 PROVE Holds(t, K)
    BY <1>1 DEF Holds
  <2>1. i - 1 \in 1..(n - 1) /\ (i - 1) + 1 = i
    BY <1>1
  <2>2. t[i - 1] = ls[i]
    BY <1>1, <2>1
  <2> QED  BY <1>1, <2>1, <2>2 DEF Holds
<1>3. Holds(t, K) => Holds(ls, K)
  <2> SUFFICES ASSUME NEW i \in 1..(n - 1), t[i].is \in K PROVE Holds(ls, K)
    BY <1>1 DEF Holds
  <2>1. i + 1 \in 1..n /\ ls[i + 1].is \in K
    BY <1>1
  <2> QED  BY <1>1, <2>1 DEF Holds
<1>4. Head(ls).is \in K => Holds(ls, K)
  <2>1. 1 \in 1..n
    BY <1>1
  <2> QED  BY <1>1, <2>1 DEF Holds
<1> QED  BY <1>2, <1>3, <1>4 DEF t

LEMMA OnceTail ==
  ASSUME NEW ls, Worklist(ls), ls # <<>>, NEW K, Once(ls, K)
  PROVE  Once(Tail(ls), K) /\ (Head(ls).is \in K => ~Holds(Tail(ls), K))
<1> DEFINE t == Tail(ls)
           n == Len(ls)
<1>1. /\ n \in Nat \ {0} /\ DOMAIN ls = 1..n /\ DOMAIN t = 1..(n - 1)
      /\ (\A i \in 1..(n - 1) : t[i] = ls[i + 1]) /\ Head(ls) = ls[1]
  BY TailWork
<1> HIDE DEF t, n
<1>2. \A i \in 1..(n - 1) : i + 1 \in 1..n /\ 1 \in 1..n /\ i + 1 # 1
  BY <1>1
<1>3. ASSUME NEW i \in 1..(n - 1), NEW j \in 1..(n - 1), t[i].is \in K, t[j].is \in K
      PROVE  i = j
  <2>1. i + 1 = j + 1
    BY <1>1, <1>2, <1>3 DEF Once
  <2> QED  BY <2>1
<1>4. ASSUME Head(ls).is \in K, NEW i \in 1..(n - 1), t[i].is \in K PROVE FALSE
  BY <1>1, <1>2, <1>4 DEF Once
<1> QED  BY <1>1, <1>3, <1>4 DEF Once, Holds, t

LEMMA LastTail ==
  ASSUME NEW ls, Worklist(ls), ls # <<>>, CommandLast(ls)
  PROVE  CommandLast(Tail(ls)) /\ (Head(ls).is \in CommandWork => AllControls(Tail(ls)))
<1> DEFINE t == Tail(ls)
           n == Len(ls)
<1>1. /\ n \in Nat \ {0} /\ DOMAIN ls = 1..n /\ DOMAIN t = 1..(n - 1)
      /\ (\A i \in 1..(n - 1) : t[i] = ls[i + 1]) /\ Head(ls) = ls[1]
  BY TailWork
<1> HIDE DEF t, n
<1>2. \A i \in 1..(n - 1) : i + 1 \in 1..n /\ 1 \in 1..n /\ 1 < i + 1
  BY <1>1
<1>3. ASSUME NEW i \in 1..(n - 1), NEW j \in 1..(n - 1), t[i].is \in CommandWork, i < j
      PROVE  t[j].is \in Controls
  <2>1. i + 1 < j + 1
    BY <1>3
  <2> QED  BY <1>1, <1>2, <1>3, <2>1 DEF CommandLast
<1>4. ASSUME Head(ls).is \in CommandWork, NEW i \in 1..(n - 1) PROVE t[i].is \in Controls
  BY <1>1, <1>2, <1>4 DEF CommandLast
<1> QED  BY <1>1, <1>3, <1>4 DEF CommandLast, AllControls, t

LEMMA ControlsTail ==
  ASSUME NEW ls, Worklist(ls), ls # <<>>, AllControls(ls)
  PROVE  AllControls(Tail(ls))
<1>1. \A i \in 1..(Len(ls) - 1) : i + 1 \in 1..Len(ls)
  BY TailWork
<1> QED  BY <1>1, TailWork DEF AllControls

(* Work is put into the queue, for whoever sets the attribute it needs.     *)
LEMMA PutWork ==
  ASSUME NEW ls, Worklist(ls), NEW u, NEW v, NEW w, Commanding(u, ls), Submitting(u, ls),
         w.is \notin Controls => ~u.command,
         w.is \in PromptWork => ~u.pending, w.is \in QueueWork => ~u.enqueue,
         v.modal = u.modal,
         v.command <=> u.command \/ w.is \in CommandWork,
         v.pending <=> u.pending \/ w.is \in PromptWork,
         v.enqueue <=> u.enqueue \/ w.is \in QueueWork
  PROVE  Commanding(v, Append(ls, w)) /\ Submitting(v, Append(ls, w))
<1> DEFINE t == Append(ls, w)
<1>1. \A K : Holds(t, K) <=> Holds(ls, K) \/ w.is \in K
  BY HoldsAppend
<1>2. w.is \in CommandWork \cup PromptWork \cup QueueWork => w.is \notin Controls
  BY DEF CommandWork, PromptWork, QueueWork, Controls
<1>3. w.is \notin Controls => ~Holds(ls, CommandWork) /\ op.is = None /\ u.modal = None
                              /\ loop.pc \notin {"extra", "clear"}
  BY DEF Commanding
<1>4. Once(t, CommandWork) /\ CommandLast(t) /\ (op.is # None => AllControls(t))
  <2>1. Once(t, CommandWork)
    BY <1>2, <1>3, OnceAppend DEF Commanding
  <2>2. CommandLast(t)
    BY <1>3, LastAppend DEF Commanding
  <2>3. op.is # None => AllControls(t)
    BY <1>3, ControlsAppend DEF Commanding
  <2> QED  BY <2>1, <2>2, <2>3
<1>5. (w.is \in PromptWork => ~Holds(ls, PromptWork) /\ loop.pc # "admit")
      /\ (w.is \in QueueWork => ~Holds(ls, QueueWork) /\ loop.pc # "enqueue")
  BY DEF Submitting
<1>6. Once(t, PromptWork) /\ Once(t, QueueWork)
  BY <1>5, OnceAppend DEF Submitting
<1> HIDE DEF t
<1>7. Commanding(v, t)
  BY <1>1, <1>2, <1>3, <1>4 DEF Commanding
<1>8. Submitting(v, t)
  BY <1>1, <1>5, <1>6 DEF Submitting
<1> QED  BY <1>7, <1>8 DEF t

(* An admitted dialogue.                                                    *)
LEMMA ModalEntered ==
  ASSUME NEW ls, NEW u, NEW v, Commanding(u, ls), Submitting(u, ls), ~u.command,
         v.modal # None, v.command, v.pending = u.pending, v.enqueue = u.enqueue
  PROVE  Commanding(v, ls) /\ Submitting(v, ls)
  BY DEF Commanding, Submitting

LEMMA EditorKeeps ==
  ASSUME NEW e, Editor(e)
  PROVE  /\ Editor(RestoreDraft(e)) /\ RestoreDraft(e).frozen = FALSE
         /\ Editor(ClearAfterSuccess(e)) /\ ClearAfterSuccess(e).frozen = FALSE
         /\ \A id : Editor(AcceptCommand(e, id)) /\ AcceptCommand(e, id).frozen = FALSE
         /\ Editor([e EXCEPT !.frozen = TRUE]) /\ [e EXCEPT !.frozen = TRUE].frozen = TRUE
         /\ Editor([e EXCEPT !.text = <<>>]) /\ [e EXCEPT !.text = <<>>].frozen = e.frozen
<1>1. Editor(RestoreDraft(e)) /\ RestoreDraft(e).frozen = FALSE
  BY DEF Editor, EditorFields, RestoreDraft
<1>2. Editor(ClearAfterSuccess(e)) /\ ClearAfterSuccess(e).frozen = FALSE
  BY DEF Editor, EditorFields, ClearAfterSuccess
<1>3. ASSUME NEW id
      PROVE  Editor(AcceptCommand(e, id)) /\ AcceptCommand(e, id).frozen = FALSE
  <2> DEFINE z == [e EXCEPT !.draft = <<>>, !.draftId = 0, !.frozen = FALSE]
  <2>1. Editor(z) /\ z.frozen = FALSE
    BY DEF Editor, EditorFields
  <2>2. AcceptCommand(e, id) = z \/ AcceptCommand(e, id) = RestoreDraft(e)
    BY DEF AcceptCommand
  <2> QED  BY <1>1, <2>1, <2>2
<1>4. Editor([e EXCEPT !.frozen = TRUE]) /\ [e EXCEPT !.frozen = TRUE].frozen = TRUE
  BY DEF Editor, EditorFields
<1>5. Editor([e EXCEPT !.text = <<>>]) /\ [e EXCEPT !.text = <<>>].frozen = e.frozen
  BY DEF Editor, EditorFields
<1> QED  BY <1>1, <1>2, <1>3, <1>4, <1>5

-----------------------------------------------------------------------------
(* What has been typed is delivered.                                        *)
Holder(s) ==
    /\ {"ed", "ui", "lines", "abort"} \subseteq DOMAIN s
    /\ Editor(s.ed) /\ Adapter(s.ui) /\ Worklist(s.lines)
Agreed(s) == ~s.ui.closed => Commanding(s.ui, s.lines) /\ Submitting(s.ui, s.lines)
Thawed(s) == ~s.ui.closed => Thawing(s.ed, s.ui, s.lines)

(* A state in which some work has been put.                                 *)
LEMMA PutHolds ==
  ASSUME NEW s, Holder(s), NEW is, NEW text
  PROVE  LET z == Put(s, is, text)
         IN  /\ Holder(z) /\ z.ed = s.ed /\ z.ui = s.ui
             /\ z.lines = Append(s.lines, Work(is, text)) /\ Work(is, text).is = is
<1> DEFINE z == Put(s, is, text)
           w == Work(is, text)
<1>1. w.is = is
  BY DEF Work
<1>2. z = [s EXCEPT !.lines = Append(s.lines, w)]
  BY DEF Put
<1> HIDE DEF w
<1>3. Worklist(Append(s.lines, w))
  BY AppendedWork DEF Holder
<1>4. /\ z.lines = Append(s.lines, w) /\ z.ed = s.ed /\ z.ui = s.ui
      /\ {"ed", "ui", "lines", "abort"} \subseteq DOMAIN z
  BY <1>2 DEF Holder
<1> HIDE DEF z
<1>5. Holder(z)
  BY <1>3, <1>4 DEF Holder
<1> QED  BY <1>1, <1>4, <1>5 DEF z, w

(* The state before the work is put: its attributes are set already.        *)
LEMMA PutAgrees ==
  ASSUME NEW s, Holder(s), NEW r, Holder(r), NEW is, NEW text, NEW z, z = Put(r, is, text),
         ~s.ui.closed, Agreed(s), r.lines = s.lines,
         is \notin Controls => ~s.ui.command,
         is \in PromptWork => ~s.ui.pending, is \in QueueWork => ~s.ui.enqueue,
         r.ui.modal = s.ui.modal,
         r.ui.command <=> s.ui.command \/ is \in CommandWork,
         r.ui.pending <=> s.ui.pending \/ is \in PromptWork,
         r.ui.enqueue <=> s.ui.enqueue \/ is \in QueueWork
  PROVE  Holder(z) /\ Agreed(z) /\ z.ed = r.ed /\ z.ui = r.ui
         /\ (Holds(s.lines, ShowWork) \/ is \in ShowWork => Holds(z.lines, ShowWork))
<1>1. /\ Holder(z) /\ z.ed = r.ed /\ z.ui = r.ui
      /\ z.lines = Append(r.lines, Work(is, text)) /\ Work(is, text).is = is
  BY PutHolds
<1>2. Worklist(s.lines) /\ Commanding(s.ui, s.lines) /\ Submitting(s.ui, s.lines)
  BY DEF Holder, Agreed
<1>3. Commanding(r.ui, z.lines) /\ Submitting(r.ui, z.lines)
  BY <1>1, <1>2, PutWork
<1>4. Holds(s.lines, ShowWork) \/ is \in ShowWork => Holds(z.lines, ShowWork)
  BY <1>1, <1>2, HoldsAppend
<1> QED  BY <1>1, <1>3, <1>4 DEF Agreed

(* A command, a dialogue, a text.                                           *)
LEMMA CommandDelivered ==
  ASSUME NEW s, Holder(s), ~s.ui.closed, Agreed(s), ~s.ui.command, NEW c, NEW is \in CommandWork
  PROVE  LET z == BeginCommand(s, c, is) IN Holder(z) /\ Agreed(z) /\ Thawed(z)
<1> DEFINE e == AcceptCommand(s.ed, c.id)
           v == [s.ui EXCEPT !.command = TRUE]
           r == [s EXCEPT !.ed = e, !.ui = v]
           z == BeginCommand(s, c, is)
<1>1. Editor(e) /\ e.frozen = FALSE
  BY EditorKeeps DEF Holder
<1>2. Adapter(v) /\ v.modal = s.ui.modal /\ v.command = TRUE
      /\ v.pending = s.ui.pending /\ v.enqueue = s.ui.enqueue
  BY DEF Holder, Adapter, AdapterFields
<1>3. z = Put(r, is, <<>>)
  BY DEF BeginCommand, Holder
<1> HIDE DEF e, v
<1>4. Holder(r) /\ r.lines = s.lines /\ r.ui = v /\ r.ed = e
  BY <1>1, <1>2 DEF Holder
<1> HIDE DEF r, z
<1>5. is \notin PromptWork /\ is \notin QueueWork
  BY DEF CommandWork, PromptWork, QueueWork
<1>6. Holder(z) /\ Agreed(z) /\ z.ed = r.ed
  BY <1>2, <1>3, <1>4, <1>5, PutAgrees
<1>7. Thawed(z)
  BY <1>1, <1>4, <1>6 DEF Thawed, Thawing
<1> QED  BY <1>6, <1>7 DEF z

LEMMA PolicyDelivered ==
  ASSUME NEW s, Holder(s), ~s.ui.closed, Agreed(s), ~s.ui.command, NEW c, NEW kind, kind # None
  PROVE  LET z == AdmitPolicyCommand(s, c, kind) IN Holder(z) /\ Agreed(z) /\ Thawed(z)
<1> DEFINE e == AcceptCommand(s.ed, c.id)
           v == [s.ui EXCEPT !.command = TRUE, !.modal = kind, !.typed = <<>>]
           t == [s EXCEPT !.ed = e]
           r == [t EXCEPT !.ui = v]
           z == AdmitPolicyCommand(s, c, kind)
<1>1. Editor(e) /\ e.frozen = FALSE
  BY EditorKeeps DEF Holder
<1>2. Adapter(v) /\ v.modal = kind /\ v.command = TRUE
      /\ v.pending = s.ui.pending /\ v.enqueue = s.ui.enqueue /\ v.closed = s.ui.closed
  BY DEF Holder, Adapter, AdapterFields
<1>3. z = t \/ z = r
  BY DEF AdmitPolicyCommand, Holder
<1> HIDE DEF e, v, z
<1>4. Holder(t) /\ t.lines = s.lines /\ t.ui = s.ui /\ t.ed = e
  BY <1>1 DEF Holder
<1> HIDE DEF t
<1>5. Holder(r) /\ r.lines = s.lines /\ r.ui = v /\ r.ed = e
  BY <1>1, <1>2, <1>4 DEF Holder
<1> HIDE DEF r
<1>6. Agreed(t) /\ Agreed(r)
  BY <1>2, <1>4, <1>5, ModalEntered DEF Agreed
<1>7. Thawed(t) /\ Thawed(r)
  BY <1>1, <1>4, <1>5 DEF Thawed, Thawing
<1> QED  BY <1>3, <1>4, <1>5, <1>6, <1>7 DEF z

LEMMA TextDelivered ==
  ASSUME NEW s, Holder(s), ~s.ui.closed, Agreed(s), ~s.ui.command, NEW c
  PROVE  LET z == Submission(s, c) IN Holder(z) /\ Agreed(z) /\ Thawed(z)
<1> DEFINE intent == Intent(s, c.alt)
           v == [s.ui EXCEPT !.pending = TRUE]
           r == [s EXCEPT !.ui = v]
           x == [s.ui EXCEPT !.enqueue = TRUE]
           e == [s.ed EXCEPT !.frozen = TRUE]
           q == [s EXCEPT !.ui = x, !.ed = e]
           z == Submission(s, c)
<1>1. intent = "prompt" \/ intent = "followUp" \/ intent = "steering"
  BY DEF Intent
<1>2. intent = "prompt" => ~s.ui.pending
  BY DEF Intent, Active
<1>3. z = IF intent = "prompt" THEN Put(r, intent, c.text)
          ELSE IF s.ui.enqueue THEN s ELSE Put(q, intent, c.text)
  BY DEF Submission, Holder
<1>4. Adapter(v) /\ v.pending = TRUE /\ v.command = s.ui.command /\ v.modal = s.ui.modal
      /\ v.enqueue = s.ui.enqueue
  BY DEF Holder, Adapter, AdapterFields
<1>5. Adapter(x) /\ x.enqueue = TRUE /\ x.command = s.ui.command /\ x.modal = s.ui.modal
      /\ x.pending = s.ui.pending
  BY DEF Holder, Adapter, AdapterFields
<1>6. Editor(e)
  BY EditorKeeps DEF Holder
<1> HIDE DEF e, v, x, z, intent
<1>7. Holder(r) /\ r.lines = s.lines /\ r.ui = v
  BY <1>4 DEF Holder
<1>8. Holder(q) /\ q.lines = s.lines /\ q.ui = x
  BY <1>5, <1>6 DEF Holder
<1> HIDE DEF r, q
<1>9. CASE intent = "prompt"
  <2>1. intent \in PromptWork /\ intent \notin QueueWork /\ intent \notin CommandWork
    BY <1>9 DEF PromptWork, QueueWork, CommandWork
  <2>2. z = Put(r, intent, c.text)
    BY <1>3, <1>9
  <2>3. Holder(z) /\ Agreed(z) /\ z.ui = r.ui
    BY <1>2, <1>4, <1>7, <1>9, <2>1, <2>2, PutAgrees
  <2>4. Thawed(z)
    BY <1>4, <1>7, <2>3 DEF Thawed, Thawing
  <2> QED  BY <2>3, <2>4 DEF z
<1>10. CASE intent # "prompt" /\ s.ui.enqueue
  <2>1. z = s
    BY <1>3, <1>10
  <2>2. Thawed(z)
    BY <1>10, <2>1 DEF Thawed, Thawing
  <2> QED  BY <2>1, <2>2 DEF z
<1>11. CASE intent # "prompt" /\ ~s.ui.enqueue
  <2>1. intent \in QueueWork /\ intent \notin PromptWork /\ intent \notin CommandWork
    BY <1>1, <1>11 DEF PromptWork, QueueWork, CommandWork
  <2>2. z = Put(q, intent, c.text)
    BY <1>3, <1>11
  <2>3. Holder(z) /\ Agreed(z) /\ z.ui = q.ui
    BY <1>5, <1>8, <1>11, <2>1, <2>2, PutAgrees
  <2>4. Thawed(z)
    BY <1>5, <1>8, <2>3 DEF Thawed, Thawing
  <2> QED  BY <2>3, <2>4 DEF z
<1> QED  BY <1>9, <1>10, <1>11

(* A line.                                                                  *)
LEMMA LineDelivered ==
  ASSUME NEW s, Holder(s), ~s.ui.closed, Agreed(s), NEW c
  PROVE  LET z == DeliverLine(s, c) IN Holder(z) /\ Agreed(z) /\ Thawed(z)
<1> DEFINE z == DeliverLine(s, c)
<1>1. CASE s.ui.command
  <2> DEFINE e == RestoreDraft(s.ed)
             t == [s EXCEPT !.ed = e]
  <2>1. z = t
    BY <1>1 DEF DeliverLine, Holder
  <2>2. Editor(e) /\ e.frozen = FALSE
    BY EditorKeeps DEF Holder
  <2> HIDE DEF e, z
  <2>3. Holder(t) /\ t.lines = s.lines /\ t.ui = s.ui /\ t.ed = e
    BY <2>2 DEF Holder
  <2> HIDE DEF t
  <2>4. Agreed(t) /\ Thawed(t)
    BY <2>2, <2>3 DEF Agreed, Thawed, Thawing
  <2> QED  BY <2>1, <2>3, <2>4 DEF z
<1>2. CASE ~s.ui.command
  <2> DEFINE resources == Put(s, "resources", <<>>)
             quit == Quit(s, c)
             e == AcceptCommand(s.ed, c.id)
             v == [s.ui EXCEPT !.closed = TRUE]
             r == [s EXCEPT !.ed = e, !.ui = v]
  <2>1. \/ z = resources \/ z = quit \/ z = Submission(s, c)
        \/ \E is \in CommandWork : z = BeginCommand(s, c, is)
        \/ \E kind \in {"trust", "settings"} : z = AdmitPolicyCommand(s, c, kind)
    <3>1. z = CASE c.text = <<"/resources">>   -> resources
                [] c.text = <<"/reload">>      -> BeginCommand(s, c, "reload")
                [] c.text = <<"/compact">>     -> BeginCommand(s, c, "compact")
                [] c.text = <<"/clear-queue">> -> BeginCommand(s, c, "clear")
                [] c.text = <<"/trust">>       -> AdmitPolicyCommand(s, c, "trust")
                [] c.text = <<"/settings">>    -> AdmitPolicyCommand(s, c, "settings")
                [] c.text = <<"/quit">>        -> quit
                [] OTHER                       -> Submission(s, c)
      BY <1>2 DEF DeliverLine
    <3> HIDE DEF resources, quit, z
    <3> QED  BY <3>1 DEF CommandWork
  <2>2. Holder(resources) /\ Agreed(resources) /\ Thawed(resources)
    <3>1. "resources" \in ShowWork /\ "resources" \notin CommandWork
          /\ "resources" \notin PromptWork /\ "resources" \notin QueueWork
      BY DEF ShowWork, CommandWork, PromptWork, QueueWork
    <3>2. Holder(resources) /\ Agreed(resources) /\ Holds(resources.lines, ShowWork)
      BY <1>2, <3>1, PutAgrees
    <3> QED  BY <3>2 DEF Thawed, Thawing
  <2>3. Holder(quit) /\ Agreed(quit) /\ Thawed(quit)
    <3>1. quit = Put(r, "quit", <<>>)
      BY DEF Quit, Holder
    <3>2. Editor(e)
      BY EditorKeeps DEF Holder
    <3>3. Adapter(v) /\ v.closed = TRUE
      BY DEF Holder, Adapter, AdapterFields
    <3> HIDE DEF e, v
    <3>4. Holder(r) /\ r.ui = v
      BY <3>2, <3>3 DEF Holder
    <3> HIDE DEF r, quit
    <3>5. Holder(quit) /\ quit.ui = v
      BY <3>1, <3>4, PutHolds
    <3> QED  BY <3>3, <3>5 DEF Agreed, Thawed
  <2>4. None \notin {"trust", "settings"}
    BY DEF None
  <2> HIDE DEF resources, quit, z
  <2>5. CASE z = Submission(s, c)
    BY <1>2, <2>5, TextDelivered DEF z
  <2>6. CASE \E is \in CommandWork : z = BeginCommand(s, c, is)
    BY <1>2, <2>6, CommandDelivered DEF z
  <2>7. CASE \E kind \in {"trust", "settings"} : z = AdmitPolicyCommand(s, c, kind)
    BY <1>2, <2>4, <2>7, PolicyDelivered DEF z
  <2> QED  BY <2>1, <2>2, <2>3, <2>5, <2>6, <2>7 DEF z
<1> QED  BY <1>1, <1>2

(* Control work changes nothing that the loop listens to.                   *)
LEMMA ControlDelivered ==
  ASSUME NEW s, Holder(s), ~s.ui.closed, Agreed(s), NEW r, Holder(r), r.lines = s.lines,
         r.ed = s.ed, r.ui.modal = s.ui.modal, r.ui.command = s.ui.command,
         r.ui.pending = s.ui.pending, r.ui.enqueue = s.ui.enqueue, r.ui.closed = s.ui.closed,
         NEW is \in Controls, NEW text
  PROVE  LET z == Put(r, is, text) IN Holder(z) /\ Agreed(z) /\ (Thawed(s) => Thawed(z))
<1> DEFINE z == Put(r, is, text)
<1>1. is \notin PromptWork /\ is \notin QueueWork /\ is \notin CommandWork
  BY DEF Controls, CommandWork, PromptWork, QueueWork
<1> HIDE DEF z
<1>2. Holder(z) /\ Agreed(z) /\ z.ed = r.ed /\ z.ui = r.ui
      /\ (Holds(s.lines, ShowWork) => Holds(z.lines, ShowWork))
  BY <1>1, PutAgrees DEF z
<1>3. Thawed(s) => Thawed(z)
  BY <1>2 DEF Thawed, Thawing
<1> QED  BY <1>2, <1>3 DEF z

Completions == {"line", "interrupt", "end"}

LEMMA DeliverKeeps ==
  ASSUME NEW s, Holder(s), Agreed(s), NEW c, c.is \in Completions
  PROVE  LET z == Deliver(s, c)
         IN  Holder(z) /\ Agreed(z) /\ (Thawed(s) \/ c.is = "line" => Thawed(z))
<1> DEFINE z == Deliver(s, c)
<1>1. CASE s.ui.closed
  <2>1. z = s
    BY <1>1 DEF Deliver
  <2> QED  BY <1>1, <2>1 DEF Thawed
<1>2. CASE ~s.ui.closed /\ c.is = "line"
  <2>1. z = DeliverLine(s, c)
    BY <1>2 DEF Deliver
  <2> QED  BY <1>2, <2>1, LineDelivered
<1>3. CASE ~s.ui.closed /\ c.is = "interrupt"
  <2> DEFINE t == [s EXCEPT !.abort = TRUE]
             p == Put(s, "interrupt", <<>>)
  <2>1. z = t \/ z = p
    <3>1. z = DeliverInterrupt(s)
      BY <1>3 DEF Deliver
    <3> QED  BY <3>1 DEF DeliverInterrupt
  <2> HIDE DEF z
  <2>2. Holder(t) /\ t.ui = s.ui /\ t.lines = s.lines /\ t.ed = s.ed
    BY DEF Holder
  <2> HIDE DEF t
  <2>3. Agreed(t) /\ (Thawed(s) => Thawed(t))
    BY <2>2 DEF Agreed, Thawed
  <2>4. Holder(p) /\ Agreed(p) /\ (Thawed(s) => Thawed(p))
    BY <1>3, ControlDelivered DEF Controls
  <2> QED  BY <1>3, <2>1, <2>2, <2>3, <2>4 DEF z
<1>4. CASE ~s.ui.closed /\ c.is = "end"
  <2> DEFINE v == [s.ui EXCEPT !.reader = FALSE]
             r == [s EXCEPT !.ui = v]
             p == Put(r, "end", <<>>)
  <2>1. z = p
    <3>1. z = DeliverEnd(s)
      BY <1>4 DEF Deliver
    <3> QED  BY <3>1 DEF DeliverEnd, Holder
  <2>2. Adapter(v) /\ v.modal = s.ui.modal /\ v.command = s.ui.command
        /\ v.pending = s.ui.pending /\ v.enqueue = s.ui.enqueue /\ v.closed = s.ui.closed
    BY DEF Holder, Adapter, AdapterFields
  <2> HIDE DEF v, z
  <2>3. Holder(r) /\ r.ui = v /\ r.lines = s.lines /\ r.ed = s.ed
    BY <2>2 DEF Holder
  <2> HIDE DEF r
  <2>4. Holder(p) /\ Agreed(p) /\ (Thawed(s) => Thawed(p))
    BY <1>4, <2>2, <2>3, ControlDelivered DEF Controls
  <2> QED  BY <1>4, <2>1, <2>4 DEF z
<1> QED  BY <1>1, <1>2, <1>3, <1>4 DEF Completions

-----------------------------------------------------------------------------
(* One key for the editor, and one for a dialogue.                          *)
Feeding(s) ==
    /\ {"ed", "completed", "ended"} \subseteq DOMAIN s
    /\ Editor(s.ed) /\ Worklist(s.completed)
    /\ \A i \in DOMAIN s.completed : s.completed[i].is \in Completions
    /\ s.ed.frozen => ed.frozen \/ Holds(s.completed, {"line"})

LEMMA Completed ==
  ASSUME NEW s, Feeding(s), NEW c, c.is \in Completions, NEW z,
         {"ed", "completed", "ended"} \subseteq DOMAIN z,
         Editor(z.ed), z.completed = Append(s.completed, c), z.ed = s.ed \/ c.is = "line"
  PROVE  Feeding(z)
<1>1. Worklist(s.completed)
  BY DEF Feeding
<1>2. Worklist(z.completed)
  BY <1>1, AppendedWork
<1>3. \A K : Holds(z.completed, K) <=> Holds(s.completed, K) \/ c.is \in K
  BY <1>1, HoldsAppend
<1>4. ASSUME NEW i \in DOMAIN z.completed PROVE z.completed[i].is \in Completions
  <2>1. i \in DOMAIN s.completed \/ i = Len(s.completed) + 1
    BY <1>1, <1>4, AppendedWork
  <2>2. CASE i \in DOMAIN s.completed
    <3>1. z.completed[i] = s.completed[i]
      BY <1>1, <2>2, AppendedWork
    <3> QED  BY <2>2, <3>1 DEF Feeding
  <2>3. CASE i = Len(s.completed) + 1
    BY <1>1, <2>3, AppendedWork
  <2> QED  BY <2>1, <2>2, <2>3
<1>5. z.ed.frozen => ed.frozen \/ Holds(z.completed, {"line"})
  BY <1>3 DEF Feeding
<1> QED  BY <1>2, <1>4, <1>5 DEF Feeding

LEMMA KeyFed ==
  ASSUME NEW s, Feeding(s), NEW key, NEW freeze \in BOOLEAN
  PROVE  Feeding(Key(s, key, freeze))
<1>1. ASSUME NEW alt PROVE Feeding(Enter(s, alt, freeze))
  <2> DEFINE id == s.ed.entered + 1
             e == [text |-> <<>>, draft |-> s.ed.text, draftId |-> id, entered |-> id,
                   frozen |-> freeze]
             c == Line(id, s.ed.text, alt)
             z == [s EXCEPT !.ed = e, !.completed = Append(s.completed, c)]
  <2>1. Enter(s, alt, freeze) = s \/ Enter(s, alt, freeze) = z
    BY DEF Enter
  <2>2. Editor(e)
    BY DEF Editor, EditorFields
  <2>3. c.is = "line"
    BY DEF Line
  <2> HIDE DEF e, c
  <2>4. {"ed", "completed", "ended"} \subseteq DOMAIN z /\ z.ed = e
        /\ z.completed = Append(s.completed, c)
    BY DEF Feeding
  <2> HIDE DEF z
  <2>5. Feeding(z)
    BY <2>2, <2>3, <2>4, Completed DEF Completions
  <2> QED  BY <2>1, <2>5
<1>2. ASSUME NEW c, c.is \in Completions
      PROVE  Feeding([s EXCEPT !.completed = Append(@, c)])
  <2> DEFINE z == [s EXCEPT !.completed = Append(@, c)]
  <2>1. {"ed", "completed", "ended"} \subseteq DOMAIN z /\ z.ed = s.ed
        /\ z.completed = Append(s.completed, c)
    BY DEF Feeding
  <2> HIDE DEF z
  <2>2. Feeding(z)
    BY <1>2, <2>1, Completed DEF Feeding
  <2> QED  BY <2>2 DEF z
<1>3. Feeding([s EXCEPT !.completed = Append(@, EndOfInput), !.ended = TRUE])
  <2> DEFINE z == [s EXCEPT !.completed = Append(@, EndOfInput), !.ended = TRUE]
  <2>1. {"ed", "completed", "ended"} \subseteq DOMAIN z /\ z.ed = s.ed
        /\ z.completed = Append(s.completed, EndOfInput)
    BY DEF Feeding
  <2>2. EndOfInput.is \in Completions
    BY DEF EndOfInput, Completions
  <2> HIDE DEF z
  <2>3. Feeding(z)
    BY <2>1, <2>2, Completed DEF Feeding
  <2> QED  BY <2>3 DEF z
<1>4. Feeding([s EXCEPT !.ed.text = Append(@, key)])
  <2> DEFINE e == [s.ed EXCEPT !.text = Append(@, key)]
             z == [s EXCEPT !.ed = e]
  <2>1. Editor(e) /\ e.frozen = s.ed.frozen
    BY DEF Feeding, Editor, EditorFields
  <2>2. [s EXCEPT !.ed.text = Append(@, key)] = z
    BY DEF Feeding
  <2> HIDE DEF e
  <2>3. Feeding(z)
    BY <2>1 DEF Feeding
  <2> QED  BY <2>2, <2>3
<1>5. Interrupted.is \in Completions
  BY DEF Interrupted, Completions
<1> DEFINE z1 == [s EXCEPT !.completed = Append(@, Interrupted)]
           z2 == [s EXCEPT !.completed = Append(@, EndOfInput), !.ended = TRUE]
           z3 == [s EXCEPT !.ed.text = Append(@, key)]
<1>6. \/ Key(s, key, freeze) \in {Enter(s, FALSE, freeze), Enter(s, TRUE, freeze)}
      \/ Key(s, key, freeze) \in {s, z1, z2, z3}
  <2>1. Key(s, key, freeze) = CASE key = "enter" -> Enter(s, FALSE, freeze)
                                [] key = "alt"   -> Enter(s, TRUE, freeze)
                                [] key = "^C"    -> z1
                                [] key = "^D"    -> IF s.ed.text # <<>> THEN s ELSE z2
                                [] key = "esc"   -> s
                                [] OTHER         -> IF s.ed.frozen THEN s ELSE z3
    BY DEF Key
  <2> HIDE DEF z1, z2, z3
  <2> QED  BY <2>1
<1>7. Feeding(z1) /\ Feeding(z2) /\ Feeding(z3)
  BY <1>2, <1>3, <1>4, <1>5
<1> HIDE DEF z1, z2, z3
<1> QED  BY <1>1, <1>6, <1>7

Choosing(s) ==
    /\ {"typed", "lines", "stop"} \subseteq DOMAIN s
    /\ Worklist(s.lines)
    /\ Listens => /\ Commanding(ui, s.lines) /\ Submitting(ui, s.lines)
                  /\ Thawing(ed, ui, s.lines)

LEMMA KeyChosen ==
  ASSUME NEW s, Choosing(s), NEW key
  PROVE  Choosing(ModalKey(s, key))
<1>1. ASSUME NEW z, {"typed", "lines", "stop"} \subseteq DOMAIN z,
             NEW is \in Controls, NEW text, z.lines = Append(s.lines, Work(is, text))
      PROVE  Choosing(z)
  <2>1. Work(is, text).is = is /\ Worklist(s.lines)
    BY DEF Work, Choosing
  <2>2. is \notin PromptWork /\ is \notin QueueWork /\ is \notin CommandWork
    BY DEF Controls, CommandWork, PromptWork, QueueWork
  <2>3. Worklist(z.lines)
    BY <1>1, <2>1, AppendedWork
  <2>4. Listens => Commanding(ui, z.lines) /\ Submitting(ui, z.lines)
    BY <1>1, <2>1, <2>2, PutWork DEF Choosing
  <2>5. Holds(s.lines, ShowWork) => Holds(z.lines, ShowWork)
    BY <1>1, <2>1, HoldsAppend
  <2> QED  BY <1>1, <2>3, <2>4, <2>5 DEF Choosing, Thawing
<1> DEFINE z1 == [s EXCEPT !.typed = <<>>, !.lines = Append(@, Work("choice", s.typed))]
           z2 == [s EXCEPT !.lines = Append(@, Work("cancel", <<>>)), !.stop = TRUE]
           z3 == [s EXCEPT !.lines = Append(@, Work("end", <<>>)), !.stop = TRUE]
           z4 == [s EXCEPT !.typed = Append(@, key)]
<1>2. Choosing(z1)
  <2>1. {"typed", "lines", "stop"} \subseteq DOMAIN z1
        /\ z1.lines = Append(s.lines, Work("choice", s.typed))
    BY DEF Choosing
  <2> HIDE DEF z1
  <2> QED  BY <1>1, <2>1 DEF Controls
<1>3. Choosing(z2)
  <2>1. {"typed", "lines", "stop"} \subseteq DOMAIN z2
        /\ z2.lines = Append(s.lines, Work("cancel", <<>>))
    BY DEF Choosing
  <2> HIDE DEF z2
  <2> QED  BY <1>1, <2>1 DEF Controls
<1>4. Choosing(z3)
  <2>1. {"typed", "lines", "stop"} \subseteq DOMAIN z3
        /\ z3.lines = Append(s.lines, Work("end", <<>>))
    BY DEF Choosing
  <2> HIDE DEF z3
  <2> QED  BY <1>1, <2>1 DEF Controls
<1>5. Choosing(z4)
  BY DEF Choosing
<1>6. ModalKey(s, key) \in {s, z1, z2, z3, z4}
  <2>1. ModalKey(s, key) = CASE s.stop \/ key = "alt" -> s
                             [] ~s.stop /\ key = "enter" -> z1
                             [] ~s.stop /\ key \in {"^C", "esc"} -> z2
                             [] ~s.stop /\ key = "^D" -> z3
                             [] OTHER -> z4
    BY DEF ModalKey
  <2> HIDE DEF z1, z2, z3, z4
  <2> QED  BY <2>1
<1> HIDE DEF z1, z2, z3, z4
<1> QED  BY <1>2, <1>3, <1>4, <1>5, <1>6

-----------------------------------------------------------------------------
(* What a read, a dialogue and a delivery do one after the other: FoldLeft  *)
(* as a function on sets of positions.                                      *)
Treated(w, s, x) ==
    IF w = "modal" THEN ModalKey(s, x)
    ELSE IF w = "deliver" THEN Deliver(s, x)
    ELSE IF s.ended THEN s ELSE Key(s, x, w = "busy")
Treats(f, n, w, o, q) ==
    f = [s \in SUBSET (1..n) |->
           IF s = {} THEN o ELSE Treated(w, f[s \ {Max(s)}], q[Max(s)])]

LEMMA LeastNumber ==
  ASSUME NEW S \in SUBSET Nat, S # {}
  PROVE  \E m \in S : \A n \in S : m <= n
<1> DEFINE R == OpToRel(<, Nat)
<1>1. IsWellFoundedOn(R, Nat)
  BY NatLessThanWellFounded
<1>2. \A x, y \in Nat : <<x, y>> \in R <=> x < y
  BY DEF OpToRel
<1> HIDE DEF R
<1>3. PICK m \in S : \A y \in S : ~(<<y, m>> \in R)
  BY <1>1, WFMin
<1>4. ASSUME NEW n \in S
      PROVE  m <= n
  <2>1. n \in Nat /\ m \in Nat /\ ~(n < m)
    BY <1>2, <1>3
  <2> QED  BY <2>1
<1> QED  BY <1>4

LEMMA LastOf ==
  ASSUME NEW n \in Nat, NEW s \in SUBSET (1..n), n \in s
  PROVE  Max(s) = n
<1>1. \A x \in s : x \in Nat /\ x <= n
  OBVIOUS
<1>2. Max(s) \in s /\ \A y \in s : Max(s) >= y
  BY <1>1 DEF Max
<1>3. Max(s) \in Nat /\ Max(s) <= n /\ Max(s) >= n
  BY <1>1, <1>2
<1> QED  BY <1>3

(* There is such a function.                                                *)
LEMMA TreatsExist ==
  ASSUME NEW w, NEW o, NEW q, NEW n \in Nat
  PROVE  \E f : Treats(f, n, w, o, q)
<1> DEFINE T == {k \in Nat : ~\E f : Treats(f, k, w, o, q)}
<1> SUFFICES ASSUME T # {} PROVE FALSE
  OBVIOUS
<1>1. PICK m \in T : \A k \in T : m <= k
  BY LeastNumber
<1>2. m # 0
  <2>1. CASE m = 0
    <3> DEFINE f == [s \in SUBSET (1..0) |-> o]
    <3>1. \A s \in SUBSET (1..0) : s = {}
      OBVIOUS
    <3>2. f = [s \in SUBSET (1..0) |->
                 IF s = {} THEN o ELSE Treated(w, f[s \ {Max(s)}], q[Max(s)])]
      BY <3>1
    <3>3. Treats(f, 0, w, o, q)
      BY <3>2 DEF Treats
    <3> QED  BY <1>1, <2>1, <3>3
  <2> QED  BY <2>1
<1>3. m - 1 \in Nat /\ m - 1 \notin T
  BY <1>1, <1>2
<1>4. PICK f : Treats(f, m - 1, w, o, q)
  BY <1>3
<1> DEFINE g == [s \in SUBSET (1..m) |->
                   IF m \in s THEN Treated(w, f[s \ {m}], q[m]) ELSE f[s]]
<1>5. ASSUME NEW s \in SUBSET (1..m)
      PROVE  g[s] = IF s = {} THEN o ELSE Treated(w, g[s \ {Max(s)}], q[Max(s)])
  <2>1. CASE m \in s
    <3>1. Max(s) = m
      BY <1>1, <2>1, LastOf
    <3>2. g[s \ {m}] = f[s \ {m}]
      OBVIOUS
    <3>3. g[s] = Treated(w, f[s \ {m}], q[m])
      BY <2>1
    <3> QED  BY <2>1, <3>1, <3>2, <3>3
  <2>2. CASE m \notin s
    <3>1. s \in SUBSET (1..(m - 1))
      BY <1>1, <2>2
    <3>2. f[s] = IF s = {} THEN o ELSE Treated(w, f[s \ {Max(s)}], q[Max(s)])
      BY <1>4, <3>1 DEF Treats
    <3>3. g[s \ {Max(s)}] = f[s \ {Max(s)}] /\ g[s] = f[s]
      BY <2>2
    <3> QED  BY <3>2, <3>3
  <2> QED  BY <2>1, <2>2
<1>6. g = [s \in SUBSET (1..m) |-> g[s]]
  OBVIOUS
<1> HIDE DEF g
<1>7. Treats(g, m, w, o, q)
  BY <1>5, <1>6 DEF Treats
<1> QED  BY <1>1, <1>7

LEMMA TreatsGoOn ==
  ASSUME NEW w, NEW o, NEW q, NEW n \in Nat, NEW f, Treats(f, n, w, o, q)
  PROVE  /\ f[1..0] = o
         /\ \A m \in 1..n : f[1..m] = Treated(w, f[1..(m - 1)], q[m])
<1>1. f[1..0] = o
  <2>1. 1..0 = {} /\ {} \in SUBSET (1..n)
    OBVIOUS
  <2> QED  BY <2>1 DEF Treats
<1>2. ASSUME NEW m \in 1..n
      PROVE  f[1..m] = Treated(w, f[1..(m - 1)], q[m])
  <2>1. m \in Nat /\ m >= 1 /\ m \in 1..m /\ 1..m \in SUBSET (1..n) /\ 1..m # {}
    OBVIOUS
  <2>2. \A i \in Int : i \in (1..m) \ {m} <=> i \in 1..(m - 1)
    BY <2>1
  <2>3. (1..m) \ {m} = 1..(m - 1)
    BY <2>1, <2>2
  <2>4. Max(1..m) = m
    BY <2>1, LastOf
  <2> QED  BY <2>1, <2>3, <2>4 DEF Treats
<1> QED  BY <1>1, <1>2

(* What each of them keeps, after k items of q.                             *)
Delivering(s, q, k) ==
    /\ Holder(s) /\ Agreed(s) /\ (ui.closed => s.ui.closed)
    /\ Thawed(s) \/ \E i \in (k + 1)..Len(q) : q[i].is = "line"
Kept(w, s, q, k) ==
    IF w = "modal" THEN Choosing(s)
    ELSE IF w = "deliver" THEN Delivering(s, q, k) ELSE Feeding(s)
Treatable(w, q) == w = "deliver" => \A i \in DOMAIN q : q[i].is \in Completions

LEMMA TreatedKeeps ==
  ASSUME NEW w, NEW q, Worklist(q), Treatable(w, q), NEW k \in 1..Len(q),
         NEW s, Kept(w, s, q, k - 1)
  PROVE  Kept(w, Treated(w, s, q[k]), q, k)
<1>1. CASE w = "modal"
  <2>1. Choosing(s) /\ Treated(w, s, q[k]) = ModalKey(s, q[k])
    BY <1>1 DEF Kept, Treated
  <2>2. Choosing(ModalKey(s, q[k]))
    BY <2>1, KeyChosen
  <2> QED  BY <1>1, <2>1, <2>2 DEF Kept
<1>2. CASE w = "deliver"
  <2> DEFINE z == Deliver(s, q[k])
  <2>1. Treated(w, s, q[k]) = z
    BY <1>2 DEF Treated
  <2>2. /\ Holder(s) /\ Agreed(s) /\ (ui.closed => s.ui.closed)
        /\ Thawed(s) \/ \E i \in k..Len(q) : q[i].is = "line"
    BY <1>2 DEF Kept, Delivering
  <2>3. q[k].is \in Completions
    BY <1>2 DEF Treatable, Worklist
  <2>4. Holder(z) /\ Agreed(z) /\ (Thawed(s) \/ q[k].is = "line" => Thawed(z))
    BY <2>2, <2>3, DeliverKeeps
  <2>6. s.ui.closed => z = s
    BY DEF Deliver
  <2> HIDE DEF z
  <2>5. Thawed(z) \/ \E i \in (k + 1)..Len(q) : q[i].is = "line"
    <3>1. ASSUME NEW i \in k..Len(q), q[i].is = "line", q[k].is # "line"
          PROVE  i \in (k + 1)..Len(q)
      <4>1. Len(q) \in Nat /\ i # k
        BY <3>1 DEF Worklist
      <4> QED  BY <4>1
    <3> QED  BY <2>2, <2>4, <3>1
  <2> QED  BY <1>2, <2>1, <2>2, <2>4, <2>5, <2>6 DEF Kept, Delivering
<1>3. CASE w # "modal" /\ w # "deliver"
  <2>1. Feeding(s)
    BY <1>3 DEF Kept
  <2>2. (w = "busy") \in BOOLEAN
    OBVIOUS
  <2>3. Feeding(Key(s, q[k], w = "busy"))
    BY <2>1, <2>2, KeyFed
  <2>4. Treated(w, s, q[k]) = s \/ Treated(w, s, q[k]) = Key(s, q[k], w = "busy")
    BY <1>3 DEF Treated
  <2> QED  BY <1>3, <2>1, <2>3, <2>4 DEF Kept
<1> QED  BY <1>1, <1>2, <1>3

LEMMA TreatsKeep ==
  ASSUME NEW w, NEW q, Worklist(q), Treatable(w, q), NEW o, Kept(w, o, q, 0),
         NEW f, Treats(f, Len(q), w, o, q)
  PROVE  Kept(w, f[1..Len(q)], q, Len(q))
<1> DEFINE n == Len(q)
           T == {k \in 0..n : ~Kept(w, f[1..k], q, k)}
<1>1. n \in Nat
  BY DEF Worklist
<1>0. Treats(f, n, w, o, q)
  OBVIOUS
<1> HIDE DEF n
<1>2. f[1..0] = o /\ \A m \in 1..n : f[1..m] = Treated(w, f[1..(m - 1)], q[m])
  <2> HIDE DEF T
  <2>1. f[1..0] = o
    BY <1>0, <1>1, TreatsGoOn
  <2>2. \A m \in 1..n : f[1..m] = Treated(w, f[1..(m - 1)], q[m])
    BY <1>0, <1>1, TreatsGoOn
  <2> QED  BY <2>1, <2>2
<1> SUFFICES ASSUME T # {} PROVE FALSE
  BY <1>1 DEF n
<1>3. T \in SUBSET Nat
  BY <1>1
<1>4. PICK m \in T : \A k \in T : m <= k
  BY <1>3, LeastNumber
<1>5. m # 0
  BY <1>2, <1>4
<1>6. m \in 1..n /\ m - 1 \in 0..n /\ m - 1 \notin T
  BY <1>1, <1>4, <1>5
<1>7. Kept(w, f[1..(m - 1)], q, m - 1)
  BY <1>6
<1>8. Kept(w, Treated(w, f[1..(m - 1)], q[m]), q, m)
  BY <1>6, <1>7, TreatedKeeps DEF n
<1> QED  BY <1>2, <1>4, <1>6, <1>8

(* The folds of the model are such functions.                               *)
LEMMA ModalFold ==
  ASSUME NEW o, NEW q, Worklist(q)
  PROVE  \E f : Treats(f, Len(q), "modal", o, q) /\ FoldLeft(ModalKey, o, q) = f[1..Len(q)]
<1> DEFINE n == Len(q)
           f == CHOOSE f : f = [s \in SUBSET DOMAIN q |->
                  IF s = {} THEN o ELSE ModalKey(f[s \ {Max(s)}], q[Max(s)])]
<1>1. FoldLeft(ModalKey, o, q) = f[DOMAIN q]
  BY DEF FoldLeft, MapThenFoldSet
<1>2. n \in Nat /\ DOMAIN q = 1..n
  BY DEF Worklist
<1>3. \A s, x : Treated("modal", s, x) = ModalKey(s, x)
  BY DEF Treated
<1> HIDE DEF n
<1>4. PICK g : Treats(g, n, "modal", o, q)
  BY <1>2, TreatsExist
<1>5. g = [s \in SUBSET DOMAIN q |->
             IF s = {} THEN o ELSE ModalKey(g[s \ {Max(s)}], q[Max(s)])]
  BY <1>2, <1>3, <1>4 DEF Treats
<1>6. f = [s \in SUBSET DOMAIN q |->
             IF s = {} THEN o ELSE ModalKey(f[s \ {Max(s)}], q[Max(s)])]
  BY <1>5
<1> HIDE DEF f
<1>7. Treats(f, n, "modal", o, q)
  BY <1>2, <1>3, <1>6 DEF Treats
<1> QED  BY <1>1, <1>2, <1>7 DEF n

LEMMA DeliverFold ==
  ASSUME NEW o, NEW q, Worklist(q)
  PROVE  \E f : Treats(f, Len(q), "deliver", o, q) /\ FoldLeft(Deliver, o, q) = f[1..Len(q)]
<1> DEFINE n == Len(q)
           f == CHOOSE f : f = [s \in SUBSET DOMAIN q |->
                  IF s = {} THEN o ELSE Deliver(f[s \ {Max(s)}], q[Max(s)])]
<1>1. FoldLeft(Deliver, o, q) = f[DOMAIN q]
  BY DEF FoldLeft, MapThenFoldSet
<1>2. n \in Nat /\ DOMAIN q = 1..n
  BY DEF Worklist
<1>3. \A s, x : Treated("deliver", s, x) = Deliver(s, x)
  BY DEF Treated
<1> HIDE DEF n
<1>4. PICK g : Treats(g, n, "deliver", o, q)
  BY <1>2, TreatsExist
<1>5. g = [s \in SUBSET DOMAIN q |->
             IF s = {} THEN o ELSE Deliver(g[s \ {Max(s)}], q[Max(s)])]
  BY <1>2, <1>3, <1>4 DEF Treats
<1>6. f = [s \in SUBSET DOMAIN q |->
             IF s = {} THEN o ELSE Deliver(f[s \ {Max(s)}], q[Max(s)])]
  BY <1>5
<1> HIDE DEF f
<1>7. Treats(f, n, "deliver", o, q)
  BY <1>2, <1>3, <1>6 DEF Treats
<1> QED  BY <1>1, <1>2, <1>7 DEF n

LEMMA FeedFold ==
  ASSUME NEW e, NEW q, Worklist(q), NEW freeze \in BOOLEAN
  PROVE  \E f, w : /\ w \in {"busy", "idle"}
                   /\ Treats(f, Len(q), w, [ed |-> e, completed |-> <<>>, ended |-> FALSE], q)
                   /\ Feed(e, q, freeze) = f[1..Len(q)]
<1> DEFINE n == Len(q)
           w == IF freeze THEN "busy" ELSE "idle"
           o == [ed |-> e, completed |-> <<>>, ended |-> FALSE]
           f == CHOOSE f : f = [s \in SUBSET DOMAIN q |->
                  IF s = {} THEN o
                  ELSE IF f[s \ {Max(s)}].ended THEN f[s \ {Max(s)}]
                  ELSE Key(f[s \ {Max(s)}], q[Max(s)], freeze)]
<1>1. Feed(e, q, freeze) = f[DOMAIN q]
  BY DEF Feed, FoldLeft, MapThenFoldSet
<1>2. n \in Nat /\ DOMAIN q = 1..n
  BY DEF Worklist
<1>3. (w = "busy") = freeze /\ w \in {"busy", "idle"}
  OBVIOUS
<1> HIDE DEF w, n, o
<1>4. \A s, x : Treated(w, s, x) = IF s.ended THEN s ELSE Key(s, x, freeze)
  BY <1>3 DEF Treated
<1>5. PICK g : Treats(g, n, w, o, q)
  BY <1>2, TreatsExist
<1>6. g = [s \in SUBSET DOMAIN q |->
             IF s = {} THEN o
             ELSE IF g[s \ {Max(s)}].ended THEN g[s \ {Max(s)}]
             ELSE Key(g[s \ {Max(s)}], q[Max(s)], freeze)]
  BY <1>2, <1>4, <1>5 DEF Treats
<1>7. f = [s \in SUBSET DOMAIN q |->
             IF s = {} THEN o
             ELSE IF f[s \ {Max(s)}].ended THEN f[s \ {Max(s)}]
             ELSE Key(f[s \ {Max(s)}], q[Max(s)], freeze)]
  BY <1>6
<1> HIDE DEF f
<1>8. Treats(f, n, w, o, q)
  BY <1>2, <1>4, <1>7 DEF Treats
<1> QED  BY <1>1, <1>2, <1>3, <1>8 DEF n, o

-----------------------------------------------------------------------------
(* What is left of the bounds; an adapter with the same attributes.         *)
LEMMA SpentKeys ==
  ASSUME TerminalTypes,
         UNCHANGED left \/ \E what \in {"reads", "signals", "faults"} : Spend(what)
  PROVE  "keys" \in DOMAIN left' /\ \A keys \in left'.keys : Worklist(keys)
<1>1. CASE UNCHANGED left
  BY <1>1 DEF TerminalTypes
<1>2. CASE \E what \in {"reads", "signals", "faults"} : Spend(what)
  <2>1. PICK what \in {"reads", "signals", "faults"} : left' = [left EXCEPT ![what] = @ - 1]
    BY <1>2 DEF Spend
  <2>2. "keys" \in DOMAIN left' /\ left'.keys = left.keys
    BY <2>1 DEF TerminalTypes
  <2> QED  BY <2>2 DEF TerminalTypes
<1> QED  BY <1>1, <1>2

Same(u, v) ==
    /\ Adapter(v)
    /\ v.modal = u.modal /\ v.command = u.command /\ v.pending = u.pending
    /\ v.enqueue = u.enqueue /\ v.closed = u.closed

LEMMA SameWithout ==
  ASSUME NEW u, Adapter(u)
  PROVE  /\ Same(u, u)
         /\ Same(u, [u EXCEPT !.prompt = NoPrompt])
         /\ \A text : Same(u, [u EXCEPT !.typed = text])
         /\ \A p : Same(u, [u EXCEPT !.prompt = p])
  BY DEF Same, Adapter, AdapterFields

(* Whatever else a step does.                                               *)
LEMMA Carrying ==
  ASSUME TerminalTypes, Editor(ed'), Adapter(ui'), Worklist(lines'), "is" \in DOMAIN op',
         UNCHANGED left \/ (\E what \in {"reads", "signals", "faults"} : Spend(what)),
         Listens' => Listening'
  PROVE  TerminalInv'
<1>1. "keys" \in DOMAIN left' /\ \A keys \in left'.keys : Worklist(keys)
  BY SpentKeys
<1> QED  BY <1>1 DEF TerminalInv, TerminalTypes

LEMMA Aside ==
  ASSUME TerminalInv, Same(ui, ui'), UNCHANGED <<ed, lines, loop>>,
         op'.is = op.is, "is" \in DOMAIN op',
         UNCHANGED left \/ (\E what \in {"reads", "signals", "faults"} : Spend(what))
  PROVE  TerminalInv'
<1>1. Listens' => Listens
  BY DEF Listens, Same
<1>2. Listens => Listening'
  <2> SUFFICES ASSUME Listening PROVE Listening'
    BY DEF TerminalInv
  <2>1. Commanding(ui, lines)'
    BY DEF Listening, Commanding, Same
  <2>2. Submitting(ui, lines)'
    BY DEF Listening, Submitting, Same
  <2>3. Thawing(ed, ui, lines)' /\ Running'
    BY DEF Listening, Thawing, Running, Same
  <2> QED  BY <2>1, <2>2, <2>3 DEF Listening
<1> QED  BY <1>1, <1>2, Carrying DEF TerminalInv, TerminalTypes, Same

-----------------------------------------------------------------------------
(* A read.                                                                  *)
LEMMA ModalRead ==
  ASSUME TerminalInv, NEW keys, Worklist(keys), FeedModal(keys), Spend("reads"),
         UNCHANGED <<loop, op>>
  PROVE  TerminalInv'
<1> DEFINE o == [typed |-> ui.typed, lines |-> lines, stop |-> FALSE]
           s == FoldLeft(ModalKey, o, keys)
<1>1. PICK f : Treats(f, Len(keys), "modal", o, keys) /\ s = f[1..Len(keys)]
  BY ModalFold
<1>2. Choosing(o)
  BY DEF Choosing, TerminalInv, TerminalTypes, Listening
<1>3. ui' = [ui EXCEPT !.typed = s.typed] /\ lines' = s.lines /\ ed' = ed
  BY DEF FeedModal
<1> HIDE DEF o, s
<1>4. Kept("modal", o, keys, 0) /\ Treatable("modal", keys)
  BY <1>2 DEF Kept, Treatable
<1>5. Kept("modal", f[1..Len(keys)], keys, Len(keys))
  BY <1>1, <1>4, TreatsKeep
<1>6. Choosing(s)
  BY <1>1, <1>5 DEF Kept
<1>7. Same(ui, ui')
  BY <1>3, SameWithout DEF TerminalInv, TerminalTypes
<1>8. Listens' => Listening'
  <2> SUFFICES ASSUME Listens' PROVE Listening'
    OBVIOUS
  <2>1. Listens
    BY <1>7 DEF Listens, Same
  <2>2. Commanding(ui, s.lines) /\ Submitting(ui, s.lines) /\ Thawing(ed, ui, s.lines)
    BY <1>6, <2>1 DEF Choosing
  <2>3. Commanding(ui, lines)'
    BY <1>3, <1>7, <2>2 DEF Commanding, Same
  <2>4. Submitting(ui, lines)'
    BY <1>3, <1>7, <2>2 DEF Submitting, Same
  <2>5. Thawing(ed, ui, lines)' /\ Running'
    BY <1>3, <1>7, <2>1, <2>2 DEF Thawing, Running, Same, TerminalInv, Listening
  <2> QED  BY <2>3, <2>4, <2>5 DEF Listening
<1>9. Worklist(lines')
  BY <1>3, <1>6 DEF Choosing
<1> QED  BY <1>3, <1>7, <1>8, <1>9, Carrying DEF TerminalInv, TerminalTypes, Same

LEMMA EditorRead ==
  ASSUME TerminalInv, loop.pc # "exited", NEW keys, Worklist(keys), FeedEditor(keys),
         Spend("reads"), UNCHANGED <<loop, op>>
  PROVE  TerminalInv'
<1> DEFINE fed == Feed(ed, keys, Active(ui))
           e == [ed |-> ed, completed |-> <<>>, ended |-> FALSE]
           q == fed.completed
           o == [ed |-> fed.ed, ui |-> ui, lines |-> lines, abort |-> FALSE]
           s == FoldLeft(Deliver, o, q)
<1>1. Active(ui) \in BOOLEAN
  BY DEF Active
<1>2. PICK f, w : /\ w \in {"busy", "idle"} /\ Treats(f, Len(keys), w, e, keys)
                  /\ fed = f[1..Len(keys)]
  BY <1>1, FeedFold
<1>3. Feeding(e)
  BY DEF Feeding, TerminalInv, TerminalTypes, Worklist
<1>4. ed' = s.ed /\ ui' = s.ui /\ lines' = s.lines
  BY DEF FeedEditor
<1> HIDE DEF fed, e
<1>5. Feeding(fed)
  <2>1. Kept(w, e, keys, 0) /\ Treatable(w, keys)
    BY <1>2, <1>3 DEF Kept, Treatable
  <2>2. Kept(w, f[1..Len(keys)], keys, Len(keys))
    BY <1>2, <2>1, TreatsKeep
  <2> QED  BY <1>2, <2>2 DEF Kept
<1>6. Worklist(q) /\ Treatable("deliver", q)
  BY <1>5 DEF Feeding, Treatable
<1>7. PICK g : Treats(g, Len(q), "deliver", o, q) /\ s = g[1..Len(q)]
  BY <1>6, DeliverFold
<1>8. Holder(o) /\ Agreed(o) /\ (ui.closed => o.ui.closed)
  BY <1>5 DEF Holder, Agreed, Feeding, TerminalInv, TerminalTypes, Listens, Listening
<1>9. Thawed(o) \/ \E i \in (0 + 1)..Len(q) : q[i].is = "line"
  <2>1. fed.ed.frozen => ed.frozen \/ \E i \in DOMAIN q : q[i].is = "line"
    BY <1>5 DEF Feeding, Holds
  <2>2. DOMAIN q = (0 + 1)..Len(q)
    BY <1>6 DEF Worklist
  <2>3. ~ui.closed => Thawing(ed, ui, lines)
    BY DEF TerminalInv, Listens, Listening
  <2> QED  BY <2>1, <2>2, <2>3 DEF Thawed, Thawing
<1> HIDE DEF o, s, q
<1>10. Kept("deliver", o, q, 0)
  BY <1>8, <1>9 DEF Kept, Delivering
<1>11. Kept("deliver", g[1..Len(q)], q, Len(q))
  BY <1>6, <1>7, <1>10, TreatsKeep
<1>12. Delivering(s, q, Len(q))
  BY <1>7, <1>11 DEF Kept
<1>13. Holder(s) /\ Agreed(s) /\ Thawed(s)
  <2>1. Len(q) \in Nat
    BY <1>6 DEF Worklist
  <2>2. ~\E i \in (Len(q) + 1)..Len(q) : q[i].is = "line"
    BY <2>1
  <2> QED  BY <1>12, <2>2 DEF Delivering
<1>14. Listens' => Listening'
  <2> SUFFICES ASSUME Listens' PROVE Listening'
    OBVIOUS
  <2>1. ~s.ui.closed /\ ~ui'.closed
    BY <1>4 DEF Listens
  <2>2. Commanding(s.ui, s.lines) /\ Submitting(s.ui, s.lines) /\ Thawing(s.ed, s.ui, s.lines)
    BY <1>13, <2>1 DEF Agreed, Thawed
  <2>3. Commanding(ui, lines)'
    BY <1>4, <2>2 DEF Commanding
  <2>4. Submitting(ui, lines)'
    BY <1>4, <2>2 DEF Submitting
  <2>5. Thawing(ed, ui, lines)'
    BY <1>4, <2>2 DEF Thawing
  <2>6. ~ui.closed
    BY <1>12, <2>1 DEF Delivering
  <2>7. Running'
    BY <2>6 DEF Running, TerminalInv, Listens, Listening
  <2> QED  BY <2>3, <2>4, <2>5, <2>7 DEF Listening
<1> QED  BY <1>4, <1>13, <1>14, Carrying DEF TerminalInv, TerminalTypes, Holder

-----------------------------------------------------------------------------
(* The input has failed: from then on the terminal does not listen.         *)
LEMMA FailedInput ==
  ASSUME TerminalInv, NEW hangup, FailInput(hangup), Spend("faults"), UNCHANGED <<ed, loop, op>>
  PROVE  TerminalInv'
<1>1. Adapter(ui') /\ ui'.closed
  BY DEF FailInput, TerminalInv, TerminalTypes, Adapter, AdapterFields
<1>2. Worklist(lines')
  BY AppendedWork DEF FailInput, TerminalInv, TerminalTypes
<1>3. ~Listens'
  BY <1>1 DEF Listens
<1> QED  BY <1>1, <1>2, <1>3, Carrying DEF TerminalInv, TerminalTypes

(* The loop takes a piece of work: what is left of the queue.               *)
LEMMA Taken ==
  ASSUME TerminalInv, NEW is, TakesWork(is)
  PROVE  /\ Worklist(lines') /\ lines # <<>>
         /\ \A K : Holds(lines, K) <=> is \in K \/ Holds(lines', K)
         /\ Listens => /\ Once(lines', CommandWork) /\ CommandLast(lines')
                       /\ Once(lines', PromptWork) /\ Once(lines', QueueWork)
                       /\ is \in CommandWork => ~Holds(lines', CommandWork) /\ AllControls(lines')
                       /\ is \in PromptWork => ~Holds(lines', PromptWork)
                       /\ is \in QueueWork => ~Holds(lines', QueueWork)
                       /\ op.is # None => AllControls(lines') /\ is \in Controls
<1>1. Worklist(lines) /\ lines # <<>> /\ Head(lines).is = is /\ lines' = Tail(lines)
  BY DEF TerminalInv, TerminalTypes, TakesWork, LineSeen
<1>2. Worklist(lines') /\ \A K : Holds(lines, K) <=> is \in K \/ Holds(lines', K)
  BY <1>1, TailWork, HoldsTail
<1>3. ASSUME Listens
      PROVE  /\ Once(lines', CommandWork) /\ CommandLast(lines')
             /\ Once(lines', PromptWork) /\ Once(lines', QueueWork)
             /\ is \in CommandWork => ~Holds(lines', CommandWork) /\ AllControls(lines')
             /\ is \in PromptWork => ~Holds(lines', PromptWork)
             /\ is \in QueueWork => ~Holds(lines', QueueWork)
             /\ op.is # None => AllControls(lines') /\ is \in Controls
  <2>1. Commanding(ui, lines) /\ Submitting(ui, lines)
    BY <1>3 DEF TerminalInv, Listening
  <2>2. Once(lines', CommandWork) /\ (is \in CommandWork => ~Holds(lines', CommandWork))
    BY <1>1, <2>1, OnceTail DEF Commanding
  <2>3. CommandLast(lines') /\ (is \in CommandWork => AllControls(lines'))
    BY <1>1, <2>1, LastTail DEF Commanding
  <2>4. Once(lines', PromptWork) /\ (is \in PromptWork => ~Holds(lines', PromptWork))
    BY <1>1, <2>1, OnceTail DEF Submitting
  <2>5. Once(lines', QueueWork) /\ (is \in QueueWork => ~Holds(lines', QueueWork))
    BY <1>1, <2>1, OnceTail DEF Submitting
  <2>6. op.is # None => AllControls(lines') /\ is \in Controls
    <3> SUFFICES ASSUME op.is # None PROVE AllControls(lines') /\ is \in Controls
      OBVIOUS
    <3>1. AllControls(lines)
      BY <2>1 DEF Commanding
    <3>2. AllControls(lines')
      BY <1>1, <3>1, ControlsTail
    <3>3. 1 \in DOMAIN lines /\ Head(lines) = lines[1]
      BY <1>1, TailWork
    <3> QED  BY <1>1, <3>1, <3>2, <3>3 DEF AllControls
  <2> QED  BY <2>2, <2>3, <2>4, <2>5, <2>6
<1> QED  BY <1>1, <1>2, <1>3

(* A queue of control work holds no other.                                  *)
LEMMA OnlyControls ==
  ASSUME NEW ls, AllControls(ls)
  PROVE  ~Holds(ls, CommandWork) /\ ~Holds(ls, PromptWork) /\ ~Holds(ls, QueueWork)
         /\ ~Holds(ls, ShowWork)
  BY DEF AllControls, Holds, Controls, CommandWork, PromptWork, QueueWork, ShowWork

(* The loop waits again, for what it waited before or for a prompt.         *)
LEMMA LoopMoves ==
  ASSUME TerminalInv, Same(ui, ui'), UNCHANGED <<ed, lines, op, left>>,
         loop.pc \in {"wait", "extra", "drain"},
         loop'.pc \in {"wait", "drain", "exited"} \/ (loop'.pc = "extra" /\ op.is # None)
  PROVE  TerminalInv'
<1>1. Listens' => Listening'
  <2> SUFFICES ASSUME Listens' PROVE Listening'
    OBVIOUS
  <2>1. Listening /\ loop'.pc # "exited"
    BY DEF Listens, Same, TerminalInv
  <2>2. Commanding(ui, lines)'
    BY <2>1 DEF Listening, Running, Commanding, Same
  <2>3. Submitting(ui, lines)'
    BY <2>1 DEF Listening, Submitting, Same
  <2>4. Thawing(ed, ui, lines)' /\ Running'
    BY <2>1 DEF Listening, Thawing, Running, Same
  <2> QED  BY <2>2, <2>3, <2>4 DEF Listening
<1> QED  BY <1>1, Carrying DEF TerminalInv, TerminalTypes, Same

LEMMA Finished ==
  ASSUME NEW status, NEW u, Adapter(u), Finish(status, u)
  PROVE  Same(u, ui') /\ loop'.pc \in {"wait", "drain", "exited"}
         /\ (status # None /\ u.prompt = NoPrompt => loop'.pc = "exited")
<1> DEFINE v == [u EXCEPT !.prompt = NoPrompt]
<1>1. Same(u, u) /\ Same(u, v)
  BY SameWithout
<1>2. ui' = u \/ ui' = v
  BY DEF Finish
<1>3. loop'.pc \in {"wait", "drain", "exited"}
      /\ (status # None /\ u.prompt = NoPrompt => loop'.pc = "exited")
  BY DEF Finish, Go, Again, Exit
<1> HIDE DEF v
<1> QED  BY <1>1, <1>2, <1>3

LEMMA OnPromptDoneKeeps == TerminalInv /\ OnPromptDone => TerminalInv'
<1> SUFFICES ASSUME TerminalInv, OnPromptDone PROVE TerminalInv'
  OBVIOUS
<1>1. Same(ui, ui') /\ loop'.pc \in {"wait", "drain", "exited"}
  BY Finished DEF OnPromptDone, TerminalInv, TerminalTypes
<1> QED  BY <1>1, LoopMoves DEF OnPromptDone, PromptSeen, Waiting

LEMMA DrainedKeeps == TerminalInv /\ Drained => TerminalInv'
<1> SUFFICES ASSUME TerminalInv, Drained PROVE TerminalInv'
  OBVIOUS
<1>1. Same(ui, ui')
  BY SameWithout DEF Drained, TerminalInv, TerminalTypes
<1>2. loop'.pc \in {"wait", "exited"} \/ (loop'.pc = "extra" /\ op.is # None)
  BY DEF Drained, Go, Again, Exit
<1> QED  BY <1>1, <1>2, LoopMoves DEF Drained

(* Control work has been taken, and the loop waits as before.               *)
LEMMA ControlTaken ==
  ASSUME TerminalInv, NEW is \in Controls, TakesWork(is), UNCHANGED <<loop, op, left>>,
         Editor(ed'), ed'.frozen = ed.frozen,
         Same(ui, ui') \/ (loop.pc = "wait" /\ ui.modal # None /\ ui' = LeaveModal(ui))
  PROVE  TerminalInv'
<1>1. is \notin PromptWork /\ is \notin QueueWork /\ is \notin CommandWork /\ is \notin ShowWork
  BY DEF Controls, CommandWork, PromptWork, QueueWork, ShowWork
<1>2. /\ Worklist(lines')
      /\ Holds(lines, CommandWork) <=> Holds(lines', CommandWork)
      /\ Holds(lines, PromptWork) <=> Holds(lines', PromptWork)
      /\ Holds(lines, QueueWork) <=> Holds(lines', QueueWork)
      /\ Holds(lines, ShowWork) <=> Holds(lines', ShowWork)
  BY <1>1, Taken
<1>3. Adapter(ui) /\ Editor(ed)
  BY DEF TerminalInv, TerminalTypes
<1>4. /\ Adapter(ui') /\ ui'.pending = ui.pending /\ ui'.enqueue = ui.enqueue
      /\ ui'.closed = ui.closed
      /\ \/ ui'.modal = ui.modal /\ ui'.command = ui.command
         \/ ui.modal # None /\ ui'.modal = None /\ ui'.command = FALSE
  <2>1. CASE Same(ui, ui')
    BY <2>1 DEF Same
  <2>2. CASE ui.modal # None /\ ui' = LeaveModal(ui)
    BY <1>3, <2>2 DEF LeaveModal, Adapter, AdapterFields
  <2> QED  BY <2>1, <2>2
<1>5. Listens' => Listening'
  <2> SUFFICES ASSUME Listens' PROVE Listening'
    OBVIOUS
  <2>1. Listens /\ Listening
    BY <1>4 DEF Listens, TerminalInv
  <2>2. /\ Once(lines', CommandWork) /\ CommandLast(lines')
        /\ Once(lines', PromptWork) /\ Once(lines', QueueWork)
        /\ op.is # None => AllControls(lines')
    BY <2>1, Taken
  <2>3. Commanding(ui, lines)'
    BY <1>2, <1>4, <2>1, <2>2 DEF Listening, Commanding
  <2>4. Submitting(ui, lines)'
    BY <1>2, <1>4, <2>1, <2>2 DEF Listening, Submitting
  <2>5. Thawing(ed, ui, lines)' /\ Running'
    BY <1>2, <1>4, <2>1 DEF Listening, Thawing, Running
  <2> QED  BY <2>3, <2>4, <2>5 DEF Listening
<1> QED  BY <1>2, <1>4, <1>5, Carrying DEF TerminalInv, TerminalTypes

(* A dialogue is left without a line taken.                                 *)
LEMMA DialogueLeft ==
  ASSUME TerminalInv, UNCHANGED <<lines, loop, op, left>>, loop.pc = "wait",
         Editor(ed'), ed'.frozen = ed.frozen, ui' = LeaveModal(ui)
  PROVE  TerminalInv'
<1>1. Adapter(ui)
  BY DEF TerminalInv, TerminalTypes
<1>2. /\ Adapter(ui') /\ ui'.pending = ui.pending /\ ui'.enqueue = ui.enqueue
      /\ ui'.closed = ui.closed
      /\ \/ ui'.modal = ui.modal /\ ui'.command = ui.command
         \/ ui.modal # None /\ ui'.modal = None /\ ui'.command = FALSE
  BY <1>1 DEF LeaveModal, Adapter, AdapterFields
<1>3. Listens' => Listening'
  <2> SUFFICES ASSUME Listens' PROVE Listening'
    OBVIOUS
  <2>1. Listening
    BY <1>2 DEF Listens, TerminalInv
  <2>2. Commanding(ui, lines)'
    BY <1>2, <2>1 DEF Listening, Commanding
  <2>3. Submitting(ui, lines)'
    BY <1>2, <2>1 DEF Listening, Submitting
  <2>4. Thawing(ed, ui, lines)' /\ Running'
    BY <1>2, <2>1 DEF Listening, Thawing, Running
  <2> QED  BY <2>2, <2>3, <2>4 DEF Listening
<1> QED  BY <1>2, <1>3, Carrying DEF TerminalInv, TerminalTypes

LEMMA OnInterruptKeeps == TerminalInv /\ OnInterrupt => TerminalInv'
<1> SUFFICES ASSUME TerminalInv, OnInterrupt PROVE TerminalInv'
  OBVIOUS
<1>1. Editor(ed) /\ Adapter(ui)
  BY DEF TerminalInv, TerminalTypes
<1>2. Editor(ed') /\ ed'.frozen = ed.frozen
  <2>1. ed' = ed \/ ed' = [ed EXCEPT !.text = <<>>]
    BY DEF OnInterrupt, Interrupt
  <2> DEFINE e == [ed EXCEPT !.text = <<>>]
  <2>2. Editor(e) /\ e.frozen = ed.frozen
    BY <1>1, EditorKeeps
  <2> HIDE DEF e
  <2>3. ed' = ed \/ ed' = e
    BY <2>1 DEF e
  <2> QED  BY <1>1, <2>2, <2>3
<1>3. ui' = IF loop.pc = "wait" THEN LeaveModal(ui) ELSE ui
  BY DEF OnInterrupt, Interrupt
<1>4. Same(ui, ui') \/ (loop.pc = "wait" /\ ui.modal # None /\ ui' = LeaveModal(ui))
  BY <1>1, <1>3, SameWithout DEF LeaveModal
<1>5. CASE TakesWork("interrupt") \/ TakesWork("cancel")
  <2>1. "interrupt" \in Controls /\ "cancel" \in Controls
    BY DEF Controls
  <2> QED  BY <1>2, <1>4, <1>5, <2>1, ControlTaken DEF OnInterrupt
<1>6. CASE UNCHANGED lines /\ loop.pc = "wait"
  BY <1>2, <1>3, <1>6, DialogueLeft DEF OnInterrupt
<1>7. CASE UNCHANGED lines /\ loop.pc # "wait"
  <2>1. UNCHANGED <<ed, ui>>
    BY <1>7 DEF OnInterrupt
  <2>2. Same(ui, ui') /\ "is" \in DOMAIN op
    BY <1>1, <2>1, SameWithout DEF TerminalInv, TerminalTypes
  <2> QED  BY <1>7, <2>1, <2>2, Aside DEF OnInterrupt
<1> QED  BY <1>5, <1>6, <1>7 DEF OnInterrupt

LEMMA OnChoiceKeeps == TerminalInv /\ OnChoice => TerminalInv'
<1> SUFFICES ASSUME TerminalInv, OnChoice PROVE TerminalInv'
  OBVIOUS
<1>1. Editor(ed) /\ Adapter(ui)
  BY DEF TerminalInv, TerminalTypes
<1>2. "choice" \in Controls
  BY DEF Controls
<1>3. Same(ui, ui') \/ (loop.pc = "wait" /\ ui.modal # None /\ ui' = LeaveModal(ui))
  BY <1>1, SameWithout DEF OnChoice
<1> QED  BY <1>1, <1>2, <1>3, ControlTaken DEF OnChoice

(* Steps after which the terminal does not listen any more.                 *)
LEMMA NotListening ==
  ASSUME TerminalInv, ~Listens', Editor(ed'), Adapter(ui'), "is" \in DOMAIN op',
         UNCHANGED lines \/ (\E is : TakesWork(is)), UNCHANGED left
  PROVE  TerminalInv'
<1>1. Worklist(lines')
  BY Taken DEF TerminalInv, TerminalTypes
<1> QED  BY <1>1, Carrying DEF TerminalInv, TerminalTypes

LEMMA Closing ==
  ASSUME NEW u, Adapter(u)
  PROVE  /\ Adapter([u EXCEPT !.closed = TRUE]) /\ [u EXCEPT !.closed = TRUE].closed = TRUE
         /\ Adapter(LeaveModal(u)) /\ Adapter([u EXCEPT !.command = FALSE])
<1>1. Adapter([u EXCEPT !.closed = TRUE]) /\ [u EXCEPT !.closed = TRUE].closed = TRUE
  BY DEF Adapter, AdapterFields
<1>2. Adapter(LeaveModal(u))
  BY DEF LeaveModal, Adapter, AdapterFields
<1>3. Adapter([u EXCEPT !.command = FALSE])
  BY DEF Adapter, AdapterFields
<1> QED  BY <1>1, <1>2, <1>3

LEMMA OnEndKeeps == TerminalInv /\ OnEnd => TerminalInv'
<1> SUFFICES ASSUME TerminalInv, OnEnd PROVE TerminalInv'
  OBVIOUS
<1> DEFINE u == [LeaveModal(ui) EXCEPT !.closed = TRUE]
<1>1. Adapter(ui)
  BY DEF TerminalInv, TerminalTypes
<1>2. Adapter(u) /\ u.closed = TRUE
  BY <1>1, Closing
<1>3. \E status : Finish(status, u)
  BY DEF OnEnd
<1> HIDE DEF u
<1>4. Same(u, ui')
  BY <1>2, <1>3, Finished
<1>5. Adapter(ui') /\ ~Listens'
  BY <1>2, <1>4 DEF Same, Listens
<1> QED  BY <1>5, NotListening DEF OnEnd, TerminalInv, TerminalTypes

LEMMA OnEndOfCommandKeeps == TerminalInv /\ OnEndOfCommand => TerminalInv'
<1> SUFFICES ASSUME TerminalInv, OnEndOfCommand PROVE TerminalInv'
  OBVIOUS
<1>1. Adapter(ui) /\ "is" \in DOMAIN op
  BY DEF TerminalInv, TerminalTypes
<1>2. Adapter(ui') /\ ui'.closed = TRUE
  BY <1>1, Closing DEF OnEndOfCommand
<1>3. "is" \in DOMAIN op'
  BY <1>1 DEF OnEndOfCommand
<1>4. UNCHANGED lines \/ (\E is : TakesWork(is))
  BY DEF OnEndOfCommand
<1> QED  BY <1>2, <1>3, <1>4, NotListening DEF OnEndOfCommand, TerminalInv, TerminalTypes, Listens

LEMMA OnFailureKeeps == TerminalInv /\ OnFailure => TerminalInv'
<1> SUFFICES ASSUME TerminalInv, OnFailure PROVE TerminalInv'
  OBVIOUS
<1>1. Adapter(ui') /\ ui'.closed = TRUE
  BY Closing DEF OnFailure, TerminalInv, TerminalTypes
<1> QED  BY <1>1, NotListening DEF OnFailure, TerminalInv, TerminalTypes, Listens

LEMMA OnQuitKeeps == TerminalInv /\ OnQuit => TerminalInv'
<1> SUFFICES ASSUME TerminalInv, OnQuit PROVE TerminalInv'
  OBVIOUS
<1>1. loop'.pc = "exited"
  BY DEF OnQuit, Exit, Go
<1> QED  BY <1>1, NotListening DEF OnQuit, TerminalInv, TerminalTypes, Listens

-----------------------------------------------------------------------------
(* A piece of work is shown, or goes on with the loop.                      *)
LEMMA OnResourcesKeeps == TerminalInv /\ OnResources => TerminalInv'
<1> SUFFICES ASSUME TerminalInv, OnResources PROVE TerminalInv'
  OBVIOUS
<1>1. Editor(ed) /\ Adapter(ui) /\ "is" \in DOMAIN op
  BY DEF TerminalInv, TerminalTypes
<1>2. Editor(ed') /\ ed'.frozen = FALSE
  BY <1>1, EditorKeeps DEF OnResources
<1>3. "resources" \notin CommandWork \cup PromptWork \cup QueueWork
  BY DEF CommandWork, PromptWork, QueueWork
<1>4. /\ Worklist(lines')
      /\ Holds(lines, CommandWork) <=> Holds(lines', CommandWork)
      /\ Holds(lines, PromptWork) <=> Holds(lines', PromptWork)
      /\ Holds(lines, QueueWork) <=> Holds(lines', QueueWork)
  BY <1>3, Taken DEF OnResources
<1>5. Listens' => Listening'
  <2> SUFFICES ASSUME Listens' PROVE Listening'
    OBVIOUS
  <2>1. Listens /\ Listening
    BY DEF Listens, TerminalInv, OnResources
  <2>2. /\ Once(lines', CommandWork) /\ CommandLast(lines')
        /\ Once(lines', PromptWork) /\ Once(lines', QueueWork)
        /\ op.is # None => AllControls(lines')
    BY <2>1, Taken DEF OnResources
  <2>3. Commanding(ui, lines)'
    BY <1>4, <2>1, <2>2 DEF Listening, Commanding, OnResources
  <2>4. Submitting(ui, lines)'
    BY <1>4, <2>1, <2>2 DEF Listening, Submitting, OnResources
  <2>5. Thawing(ed, ui, lines)' /\ Running'
    BY <1>2, <2>1 DEF Listening, Thawing, Running, OnResources
  <2> QED  BY <2>3, <2>4, <2>5 DEF Listening
<1> QED  BY <1>1, <1>2, <1>4, <1>5, Carrying DEF OnResources, TerminalInv

LEMMA OnClearKeeps == TerminalInv /\ OnClear => TerminalInv'
<1> SUFFICES ASSUME TerminalInv, OnClear PROVE TerminalInv'
  OBVIOUS
<1>1. Editor(ed) /\ Adapter(ui) /\ "is" \in DOMAIN op
  BY DEF TerminalInv, TerminalTypes
<1>2. "clear" \in CommandWork /\ "clear" \notin PromptWork \cup QueueWork \cup ShowWork
  BY DEF CommandWork, PromptWork, QueueWork, ShowWork
<1>3. loop.pc = "wait" /\ loop'.pc = "clear"
  BY DEF OnClear, Go
<1>4. /\ Worklist(lines') /\ Holds(lines, CommandWork)
      /\ Holds(lines, PromptWork) <=> Holds(lines', PromptWork)
      /\ Holds(lines, QueueWork) <=> Holds(lines', QueueWork)
      /\ Holds(lines, ShowWork) <=> Holds(lines', ShowWork)
  BY <1>2, Taken DEF OnClear
<1>5. Listens' => Listening'
  <2> SUFFICES ASSUME Listens' PROVE Listening'
    OBVIOUS
  <2>1. Listens /\ Listening
    BY <1>3 DEF Listens, TerminalInv, OnClear
  <2>2. /\ Once(lines', CommandWork) /\ CommandLast(lines') /\ ~Holds(lines', CommandWork)
        /\ Once(lines', PromptWork) /\ Once(lines', QueueWork)
    BY <1>2, <2>1, Taken DEF OnClear
  <2>3. Commanding(ui, lines)'
    BY <1>3, <1>4, <2>1, <2>2 DEF Listening, Commanding, OnClear
  <2>4. Submitting(ui, lines)'
    BY <1>3, <1>4, <2>1, <2>2 DEF Listening, Submitting, OnClear
  <2>5. Thawing(ed, ui, lines)' /\ Running'
    BY <1>3, <1>4, <2>1 DEF Listening, Thawing, Running, Commanding, OnClear
  <2> QED  BY <2>3, <2>4, <2>5 DEF Listening
<1> QED  BY <1>1, <1>4, <1>5, Carrying DEF OnClear, TerminalInv

LEMMA OnCommandKeeps == TerminalInv /\ OnCommand => TerminalInv'
<1> SUFFICES ASSUME TerminalInv, OnCommand PROVE TerminalInv'
  OBVIOUS
<1>1. Editor(ed) /\ Adapter(ui)
  BY DEF TerminalInv, TerminalTypes
<1>2. PICK is \in {"reload", "compact"} :
         /\ TakesWork(is)
         /\ op' = [is |-> is, st |-> "called", result |-> None, aborted |-> FALSE]
  BY DEF OnCommand
<1>3. is \in CommandWork /\ is \notin PromptWork \cup QueueWork \cup ShowWork /\ is # None
  BY DEF CommandWork, PromptWork, QueueWork, ShowWork, None
<1>4. loop.pc = "wait" /\ loop'.pc = "extra" /\ op'.is = is /\ "is" \in DOMAIN op'
  BY <1>2 DEF OnCommand, Go
<1>5. /\ Worklist(lines') /\ Holds(lines, CommandWork)
      /\ Holds(lines, PromptWork) <=> Holds(lines', PromptWork)
      /\ Holds(lines, QueueWork) <=> Holds(lines', QueueWork)
      /\ Holds(lines, ShowWork) <=> Holds(lines', ShowWork)
  BY <1>2, <1>3, Taken
<1>6. Listens' => Listening'
  <2> SUFFICES ASSUME Listens' PROVE Listening'
    OBVIOUS
  <2>1. Listens /\ Listening
    BY <1>4 DEF Listens, TerminalInv, OnCommand
  <2>2. /\ Once(lines', CommandWork) /\ CommandLast(lines') /\ ~Holds(lines', CommandWork)
        /\ Once(lines', PromptWork) /\ Once(lines', QueueWork) /\ AllControls(lines')
    BY <1>2, <1>3, <2>1, Taken
  <2>3. Commanding(ui, lines)'
    BY <1>3, <1>4, <1>5, <2>1, <2>2 DEF Listening, Commanding, OnCommand
  <2>4. Submitting(ui, lines)'
    BY <1>4, <1>5, <2>1, <2>2 DEF Listening, Submitting, OnCommand
  <2>5. Thawing(ed, ui, lines)' /\ Running'
    BY <1>3, <1>4, <1>5, <2>1 DEF Listening, Thawing, Running, OnCommand
  <2> QED  BY <2>3, <2>4, <2>5 DEF Listening
<1> QED  BY <1>1, <1>4, <1>5, <1>6, Carrying DEF OnCommand, TerminalInv

LEMMA OnPromptKeeps == TerminalInv /\ OnPrompt => TerminalInv'
<1> SUFFICES ASSUME TerminalInv, OnPrompt PROVE TerminalInv'
  OBVIOUS
<1>1. Editor(ed) /\ Adapter(ui) /\ "is" \in DOMAIN op
  BY DEF TerminalInv, TerminalTypes
<1>2. "prompt" \in PromptWork /\ "prompt" \notin CommandWork \cup QueueWork \cup Controls
  BY DEF CommandWork, PromptWork, QueueWork, Controls
<1>3. loop.pc = "wait" /\ loop'.pc = "admit"
  BY DEF OnPrompt, Go
<1>4. Same(ui, ui')
  BY <1>1, SameWithout DEF OnPrompt
<1>5. Editor(ed')
  BY <1>1, EditorKeeps DEF OnPrompt
<1>6. /\ Worklist(lines') /\ Holds(lines, PromptWork)
      /\ Holds(lines, CommandWork) <=> Holds(lines', CommandWork)
      /\ Holds(lines, QueueWork) <=> Holds(lines', QueueWork)
  BY <1>2, Taken DEF OnPrompt
<1>7. Listens' => Listening'
  <2> SUFFICES ASSUME Listens' PROVE Listening'
    OBVIOUS
  <2>1. Listens /\ Listening
    BY <1>3, <1>4 DEF Listens, TerminalInv, Same
  <2>2. /\ Once(lines', CommandWork) /\ CommandLast(lines') /\ ~Holds(lines', PromptWork)
        /\ Once(lines', PromptWork) /\ Once(lines', QueueWork) /\ op.is = None
    BY <1>2, <2>1, Taken DEF OnPrompt
  <2>3. Commanding(ui, lines)'
    BY <1>3, <1>4, <1>6, <2>1, <2>2 DEF Listening, Commanding, OnPrompt, Same
  <2>4. Submitting(ui, lines)'
    BY <1>3, <1>4, <1>6, <2>1, <2>2 DEF Listening, Submitting, OnPrompt, Same
  <2>5. ui'.pending
    BY <1>4, <1>6, <2>1 DEF Listening, Submitting, Same
  <2>6. Thawing(ed, ui, lines)' /\ Running'
    BY <1>3, <2>5 DEF Thawing, Running
  <2> QED  BY <2>3, <2>4, <2>6 DEF Listening
<1> QED  BY <1>1, <1>4, <1>5, <1>6, <1>7, Carrying DEF OnPrompt, TerminalInv, Same

LEMMA OnQueuedKeeps == TerminalInv /\ OnQueued => TerminalInv'
<1> SUFFICES ASSUME TerminalInv, OnQueued PROVE TerminalInv'
  OBVIOUS
<1>1. Editor(ed) /\ Adapter(ui) /\ "is" \in DOMAIN op
  BY DEF TerminalInv, TerminalTypes
<1>2. PICK is \in {"steering", "followUp"} : TakesWork(is)
  BY DEF OnQueued
<1>3. is \in QueueWork /\ is \notin CommandWork \cup PromptWork \cup Controls
  BY DEF CommandWork, PromptWork, QueueWork, Controls
<1>4. /\ Worklist(lines') /\ Holds(lines, QueueWork)
      /\ Holds(lines, CommandWork) <=> Holds(lines', CommandWork)
      /\ Holds(lines, PromptWork) <=> Holds(lines', PromptWork)
  BY <1>2, <1>3, Taken
<1>5. Listens =>
        /\ Once(lines', CommandWork) /\ CommandLast(lines') /\ ~Holds(lines', QueueWork)
        /\ Once(lines', PromptWork) /\ Once(lines', QueueWork) /\ op.is = None
  BY <1>2, <1>3, Taken
<1>6. CASE /\ ed' = [ed EXCEPT !.frozen = TRUE]
           /\ Go("enqueue", NoPrompt, None) /\ UNCHANGED <<ui, left>>
  <2>1. Editor(ed') /\ loop'.pc = "enqueue" /\ loop.pc = "wait"
    BY <1>1, <1>6, EditorKeeps DEF Go, OnQueued
  <2>2. ASSUME Listens' PROVE Listening'
    <3>1. Listens /\ Listening
      BY <1>6, <2>1, <2>2 DEF Listens, TerminalInv
    <3>2. Commanding(ui, lines)'
      BY <1>4, <1>5, <1>6, <2>1, <3>1 DEF Listening, Commanding, OnQueued
    <3>3. Submitting(ui, lines)'
      BY <1>4, <1>5, <1>6, <2>1, <3>1 DEF Listening, Submitting, OnQueued
    <3>4. Thawing(ed, ui, lines)' /\ Running'
      BY <1>4, <1>6, <2>1, <3>1 DEF Listening, Submitting, Thawing, Running
    <3> QED  BY <3>2, <3>3, <3>4 DEF Listening
  <2> QED  BY <1>1, <1>4, <1>6, <2>1, <2>2, Carrying DEF OnQueued, TerminalInv
<1>7. CASE /\ ed' = RestoreDraft(ed) /\ ui' = [ui EXCEPT !.enqueue = FALSE]
           /\ Spend("faults") /\ UNCHANGED loop
  <2>1. Editor(ed') /\ ed'.frozen = FALSE /\ loop.pc = "wait"
    BY <1>1, <1>7, EditorKeeps DEF OnQueued
  <2>2. /\ Adapter(ui') /\ ui'.enqueue = FALSE /\ ui'.closed = ui.closed
        /\ ui'.command = ui.command /\ ui'.modal = ui.modal /\ ui'.pending = ui.pending
    BY <1>1, <1>7 DEF Adapter, AdapterFields
  <2>3. ASSUME Listens' PROVE Listening'
    <3>1. Listens /\ Listening
      BY <1>7, <2>2, <2>3 DEF Listens, TerminalInv
    <3>2. Commanding(ui, lines)'
      BY <1>4, <1>5, <1>7, <2>2, <3>1 DEF Listening, Commanding, OnQueued
    <3>3. Submitting(ui, lines)'
      BY <1>4, <1>5, <1>7, <2>1, <2>2, <3>1 DEF Listening, Submitting, OnQueued
    <3>4. Thawing(ed, ui, lines)' /\ Running'
      BY <1>7, <2>1, <3>1 DEF Listening, Thawing, Running, OnQueued
    <3> QED  BY <3>2, <3>3, <3>4 DEF Listening
  <2> QED  BY <1>1, <1>4, <1>7, <2>1, <2>2, <2>3, Carrying DEF OnQueued, TerminalInv
<1> QED  BY <1>6, <1>7 DEF OnQueued

-----------------------------------------------------------------------------
(* The loop comes back from what it awaited.                                *)
LEMMA QueuedKeeps == TerminalInv /\ Queued => TerminalInv'
<1> SUFFICES ASSUME TerminalInv, Queued PROVE TerminalInv'
  OBVIOUS
<1>1. Editor(ed) /\ Adapter(ui) /\ "is" \in DOMAIN op /\ Worklist(lines)
  BY DEF TerminalInv, TerminalTypes
<1>2. /\ Adapter(ui') /\ ui'.enqueue = FALSE /\ ui'.closed = ui.closed
      /\ ui'.command = ui.command /\ ui'.modal = ui.modal /\ ui'.pending = ui.pending
  BY <1>1 DEF Adapter, AdapterFields, Queued
<1>3. loop.pc = "enqueue" /\ UNCHANGED <<lines, op>>
  BY DEF Queued
<1>4. CASE ed' = ClearAfterSuccess(ed) /\ Again /\ UNCHANGED left
  <2>1. Editor(ed') /\ ed'.frozen = FALSE /\ loop'.pc = "wait"
    BY <1>1, <1>4, EditorKeeps DEF Again, Go
  <2>2. ASSUME Listens' PROVE Listening'
    <3>1. Listening
      BY <1>2, <1>3, <2>2 DEF Listens, TerminalInv
    <3>2. Commanding(ui, lines)'
      BY <1>2, <1>3, <2>1, <3>1 DEF Listening, Commanding
    <3>3. Submitting(ui, lines)'
      BY <1>2, <1>3, <2>1, <3>1 DEF Listening, Submitting
    <3>4. Thawing(ed, ui, lines)' /\ Running'
      BY <2>1 DEF Thawing, Running
    <3> QED  BY <3>2, <3>3, <3>4 DEF Listening
  <2> QED  BY <1>1, <1>2, <1>3, <1>4, <2>1, <2>2, Carrying DEF TerminalInv
<1>5. CASE UNCHANGED ed /\ Exit("failure") /\ Spend("faults")
  <2>1. ~Listens'
    BY <1>5 DEF Exit, Go, Listens
  <2> QED  BY <1>1, <1>2, <1>3, <1>5, <2>1, Carrying DEF TerminalInv
<1> QED  BY <1>4, <1>5 DEF Queued

LEMMA ClearedKeeps == TerminalInv /\ Cleared => TerminalInv'
<1> SUFFICES ASSUME TerminalInv, Cleared PROVE TerminalInv'
  OBVIOUS
<1>1. Editor(ed) /\ Adapter(ui) /\ "is" \in DOMAIN op /\ Worklist(lines)
  BY DEF TerminalInv, TerminalTypes
<1>2. /\ Adapter(ui') /\ ui'.command = FALSE /\ ui'.closed = ui.closed
      /\ ui'.enqueue = ui.enqueue /\ ui'.modal = ui.modal /\ ui'.pending = ui.pending
  BY <1>1 DEF Adapter, AdapterFields, Cleared
<1>3. loop.pc = "clear" /\ UNCHANGED <<ed, lines, op>>
  BY DEF Cleared
<1>4. CASE Again /\ UNCHANGED left
  <2>1. loop'.pc = "wait"
    BY <1>4 DEF Again, Go
  <2>2. ASSUME Listens' PROVE Listening'
    <3>1. Listening
      BY <1>2, <1>3, <2>2 DEF Listens, TerminalInv
    <3>2. Commanding(ui, lines)'
      BY <1>2, <1>3, <2>1, <3>1 DEF Listening, Commanding, Running
    <3>3. Submitting(ui, lines)'
      BY <1>2, <1>3, <2>1, <3>1 DEF Listening, Submitting
    <3>4. Thawing(ed, ui, lines)' /\ Running'
      BY <1>2, <1>3, <2>1, <3>1 DEF Listening, Thawing, Running
    <3> QED  BY <3>2, <3>3, <3>4 DEF Listening
  <2> QED  BY <1>1, <1>2, <1>3, <1>4, <2>2, Carrying DEF TerminalInv
<1>5. CASE Exit("failure") /\ Spend("faults")
  <2>1. ~Listens'
    BY <1>5 DEF Exit, Go, Listens
  <2> QED  BY <1>1, <1>2, <1>3, <1>5, <2>1, Carrying DEF TerminalInv
<1> QED  BY <1>4, <1>5 DEF Cleared

LEMMA AdmittedKeeps == TerminalInv /\ Admitted => TerminalInv'
<1> SUFFICES ASSUME TerminalInv, Admitted PROVE TerminalInv'
  OBVIOUS
<1>1. Editor(ed) /\ Adapter(ui) /\ "is" \in DOMAIN op /\ Worklist(lines)
  BY DEF TerminalInv, TerminalTypes
<1> DEFINE u == [ui EXCEPT !.pending = FALSE]
<1>2. Adapter(u) /\ u.pending = FALSE /\ u.closed = ui.closed
      /\ u.command = ui.command /\ u.modal = ui.modal /\ u.enqueue = ui.enqueue
  BY <1>1 DEF Adapter, AdapterFields
<1>3. ui' = u \/ ui' = [u EXCEPT !.prompt = NoPrompt]
  BY DEF Admitted
<1>4. loop.pc = "admit" /\ UNCHANGED <<lines, op, left>> /\ loop'.pc \in {"wait", "exited"}
  BY DEF Admitted, Again, Exit, Go
<1>5. ed' = RestoreDraft(ed) \/ ed' = ClearAfterSuccess(ed)
  BY DEF Admitted
<1> HIDE DEF u
<1>6. Same(u, ui')
  BY <1>2, <1>3, SameWithout
<1>7. Editor(ed') /\ ed'.frozen = FALSE
  <2>1. CASE ed' = RestoreDraft(ed)
    BY <1>1, <2>1, EditorKeeps
  <2>2. CASE ed' = ClearAfterSuccess(ed)
    BY <1>1, <2>2, EditorKeeps
  <2> QED  BY <1>5, <2>1, <2>2
<1>8. ASSUME Listens' PROVE Listening'
  <2>1. Listening /\ loop'.pc = "wait"
    BY <1>2, <1>4, <1>6, <1>8 DEF Listens, TerminalInv, Same
  <2>2. Commanding(ui, lines)'
    BY <1>2, <1>4, <1>6, <2>1 DEF Listening, Commanding, Same
  <2>3. Submitting(ui, lines)'
    BY <1>2, <1>4, <1>6, <2>1 DEF Listening, Submitting, Same
  <2>4. Thawing(ed, ui, lines)' /\ Running'
    BY <1>7, <2>1 DEF Thawing, Running
  <2> QED  BY <2>2, <2>3, <2>4 DEF Listening
<1>9. Adapter(ui')
  BY <1>6 DEF Same
<1> QED  BY <1>1, <1>4, <1>7, <1>8, <1>9, Carrying DEF TerminalInv

(* A line that the end of a command drops is control work: it came behind   *)
(* the command.                                                             *)
LEMMA CommandEndsKeeps == TerminalInv /\ CommandEnds => TerminalInv'
<1> SUFFICES ASSUME TerminalInv, CommandEnds PROVE TerminalInv'
  OBVIOUS
<1>1. Editor(ed) /\ Adapter(ui) /\ Worklist(lines)
  BY DEF TerminalInv, TerminalTypes
<1> DEFINE u == [ui EXCEPT !.command = FALSE]
<1>2. Adapter(u) /\ u.command = FALSE /\ u.closed = ui.closed
      /\ u.pending = ui.pending /\ u.modal = ui.modal /\ u.enqueue = ui.enqueue
  BY <1>1 DEF Adapter, AdapterFields
<1>3. (\E status : Finish(status, u)) \/ (loop'.pc = "exited" /\ ui' = u)
  BY DEF CommandEnds, Exit, Go
<1>4. /\ loop.pc \in {"extra", "join"} /\ UNCHANGED <<ed, left>>
      /\ op'.is = None /\ "is" \in DOMAIN op'
      /\ lines' = lines \/ (lines # <<>> /\ lines' = Tail(lines))
  BY DEF CommandEnds, Ignored
<1> HIDE DEF u
<1>5. Same(u, ui') /\ loop'.pc \in {"wait", "drain", "exited"}
  <2>1. Same(u, u)
    BY <1>2, SameWithout
  <2> QED  BY <1>2, <1>3, <2>1, Finished
<1>6. Worklist(lines')
  BY <1>1, <1>4, TailWork
<1>7. ASSUME Listens' PROVE Listening'
  <2>1. Listening /\ loop'.pc \in {"wait", "drain"}
    BY <1>2, <1>4, <1>5, <1>7 DEF Listens, TerminalInv, Same
  <2>2. loop.pc = "extra" /\ op.is # None /\ AllControls(lines) /\ ui.modal = None
    BY <1>4, <2>1 DEF Listening, Running, Commanding
  <2>3. AllControls(lines')
    BY <1>1, <1>4, <2>2, ControlsTail
  <2>4. ~Holds(lines, PromptWork) /\ ~Holds(lines, QueueWork) /\ ~Holds(lines, ShowWork)
    BY <2>2, OnlyControls
  <2>5. ~Holds(lines', CommandWork) /\ ~Holds(lines', PromptWork) /\ ~Holds(lines', QueueWork)
    BY <2>3, OnlyControls
  <2>6. /\ Once(lines', CommandWork) /\ CommandLast(lines')
        /\ Once(lines', PromptWork) /\ Once(lines', QueueWork)
    BY <2>5 DEF Once, CommandLast, Holds
  <2>7. Commanding(ui, lines)'
    BY <1>2, <1>4, <1>5, <2>1, <2>2, <2>5, <2>6 DEF Commanding, Same
  <2>8. Submitting(ui, lines)'
    BY <1>2, <1>5, <2>1, <2>2, <2>4, <2>5, <2>6 DEF Listening, Submitting, Same
  <2>9. Thawing(ed, ui, lines)' /\ Running'
    BY <1>2, <1>4, <1>5, <2>1, <2>4 DEF Listening, Thawing, Running, Same
  <2> QED  BY <2>7, <2>8, <2>9 DEF Listening
<1>8. Adapter(ui')
  BY <1>5 DEF Same
<1> QED  BY <1>1, <1>4, <1>6, <1>7, <1>8, Carrying DEF TerminalInv

LEMMA InitTerminal == TerminalInit => TerminalInv
<1> SUFFICES ASSUME TerminalInit PROVE TerminalInv
  OBVIOUS
<1>1. Editor(ed) /\ ed.frozen = FALSE
  BY DEF TerminalInit, EmptyEditor, Editor, EditorFields
<1>2. /\ Adapter(ui) /\ ui.command = FALSE /\ ui.pending = FALSE /\ ui.enqueue = FALSE
      /\ ui.modal = None
  BY DEF TerminalInit, Adapter, AdapterFields
<1>3. lines = <<>> /\ Worklist(<<>>) /\ DOMAIN <<>> = {}
  BY DEF TerminalInit, Worklist
<1>4. loop.pc = "wait" /\ "is" \in DOMAIN op /\ op.is = None
  BY DEF TerminalInit
<1>5. "keys" \in DOMAIN left /\ \A keys \in left.keys : Worklist(keys)
  <2> DEFINE Texts == Seq(STRING)
  <2>1. \A keys \in Texts : Worklist(keys)
    <3> SUFFICES ASSUME NEW keys \in Seq(STRING) PROVE keys \in Seq(ToSet(keys))
      BY DEF Worklist
    <3>1. \A i \in 1..Len(keys) : keys[i] \in ToSet(keys)
      BY DEF ToSet
    <3> QED  BY <3>1
  <2>2. left \in [keys : SUBSET Texts, reads : Nat, signals : Nat, faults : Nat, check : BOOLEAN]
    BY InteractiveTerminalAssumption DEF TerminalInit
  <2> HIDE DEF Texts
  <2>3. "keys" \in DOMAIN left /\ left.keys \in SUBSET Texts
    BY <2>2
  <2> QED  BY <2>1, <2>3
<1>6. \A K : ~Holds(lines, K) /\ Once(lines, K)
  BY <1>3 DEF Holds, Once
<1>7. CommandLast(lines)
  BY <1>3 DEF CommandLast
<1>8. Listening
  BY <1>1, <1>2, <1>4, <1>6, <1>7 DEF Listening, Commanding, Submitting, Thawing, Running
<1> QED  BY <1>1, <1>2, <1>3, <1>4, <1>5, <1>8 DEF TerminalInv, TerminalTypes

LEMMA NextTerminal == TerminalInv /\ [TerminalNext]_terminalVars => TerminalInv'
<1> SUFFICES ASSUME TerminalInv, [TerminalNext]_terminalVars PROVE TerminalInv'
  OBVIOUS
<1>1. Same(ui, ui) /\ "is" \in DOMAIN op
  BY SameWithout DEF TerminalInv, TerminalTypes
<1>2. CASE Loop
  BY <1>2, OnPromptDoneKeeps, OnInterruptKeeps, OnEndKeeps, OnEndOfCommandKeeps,
     OnFailureKeeps, OnQuitKeeps, OnChoiceKeeps, OnResourcesKeeps, OnClearKeeps,
     ClearedKeeps, OnCommandKeeps, CommandEndsKeeps, OnPromptKeeps, AdmittedKeeps,
     OnQueuedKeeps, QueuedKeeps, DrainedKeeps DEF Loop
<1>3. CASE OpStarts \/ OpProceeds \/ OpEnds
  <2>1. op'.is = op.is /\ "is" \in DOMAIN op'
    <3>1. CASE OpStarts
      BY <1>1, <3>1 DEF OpStarts
    <3>2. CASE OpProceeds
      BY <1>1, <3>2 DEF OpProceeds
    <3>3. CASE OpEnds
      BY <1>1, <3>3 DEF OpEnds
    <3> QED  BY <1>3, <3>1, <3>2, <3>3
  <2>2. UNCHANGED left \/ Spend("faults")
    BY <1>3 DEF OpStarts, OpProceeds, OpEnds
  <2>3. UNCHANGED <<ed, ui, lines, loop>>
    BY <1>3 DEF OpStarts, OpProceeds, OpEnds
  <2> QED  BY <1>1, <2>1, <2>2, <2>3, Aside
<1>4. ASSUME NEW p \in DOMAIN prompts,
             PromptStarts(p) \/ PromptContinues(p) \/ PromptEnds(p) \/ PromptSettles(p)
      PROVE  TerminalInv'
  <2>1. UNCHANGED <<ed, ui, lines, loop, op>> /\ (UNCHANGED left \/ Spend("faults"))
    BY <1>4 DEF PromptStarts, PromptContinues, PromptEnds, PromptSettles
  <2> QED  BY <1>1, <2>1, Aside
<1>5. CASE InputReady
  <2>1. PICK keys \in left.keys : IF ui.modal # None THEN FeedModal(keys) ELSE FeedEditor(keys)
    BY <1>5 DEF InputReady
  <2>2. Worklist(keys)
    BY DEF TerminalInv, TerminalTypes
  <2> QED  BY <1>5, <2>1, <2>2, ModalRead, EditorRead DEF InputReady
<1>6. CASE Hangup \/ OutputFails
  BY <1>6, FailedInput DEF Hangup, OutputFails
<1>7. CASE NoticeReady
  BY <1>1, <1>7, Aside DEF NoticeReady
<1>8. ASSUME NEW end \in BOOLEAN, Signal(end) PROVE TerminalInv'
  BY <1>1, <1>8, Aside DEF Signal
<1>9. CASE UNCHANGED terminalVars
  BY <1>1, <1>9, Aside DEF terminalVars
<1> QED
  BY <1>2, <1>3, <1>4, <1>5, <1>6, <1>7, <1>8, <1>9 DEF TerminalNext, Tasks, Callbacks

(* The editor, the adapter and the queue keep their types, and as long as   *)
(* the terminal listens, what it is busy with is in one place: in the       *)
(* queue, in a dialogue, or with the loop (_deliver, _run_editor).          *)
THEOREM TerminalInvariance == TerminalSpec => []TerminalInv
<1> QED  BY InitTerminal, NextTerminal, PTL DEF TerminalSpec

(* Whenever the terminal refuses, queues or drops what is typed, something  *)
(* that will make it listen again is under way (_terminal.py                *)
(* _command_active, _pending_prompt, _enqueue_waiting).                     *)
THEOREM Busy == TerminalSpec => []BusyForReason
<1>1. TerminalInv => BusyForReason
  <2> SUFFICES ASSUME TerminalInv, ~ui.closed, loop.pc # "exited"
               PROVE  /\ ui.command <=> \/ ui.modal # None
                                        \/ Queueing({"reload", "compact", "clear"})
                                        \/ loop.pc \in {"extra", "clear"} \/ op.is # None
                      /\ ui.pending <=> Queueing({"prompt"}) \/ loop.pc = "admit"
                      /\ ui.enqueue <=> Queueing({"steering", "followUp"}) \/ loop.pc = "enqueue"
                      /\ ed.frozen => ui.pending \/ ui.enqueue \/ Queueing({"resources"})
    BY DEF BusyForReason
  <2>1. Listening
    BY DEF TerminalInv, Listens
  <2>2. \A K : Queueing(K) <=> Holds(lines, K)
    BY DEF Queueing, Holds
  <2> QED  BY <2>1, <2>2 DEF Listening, Commanding, Submitting, Thawing, CommandWork, PromptWork,
                             QueueWork, ShowWork
<1> QED  BY <1>1, TerminalInvariance, PTL
=============================================================================
