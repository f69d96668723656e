--------------------------- MODULE SelfUpdateProofs ---------------------------
(***************************************************************************)
(* Theorems of SelfUpdate, for every set of calls, signals and releases.    *)
(*                                                                         *)
(* Who is between the acquisition and the release of update.lock has it,    *)
(* and where a call is tells what it has made of its directory and of uv.   *)
(***************************************************************************)
EXTENDS SelfUpdate, WellFoundedInduction, TLAPS

Before == {"start", "owner", "lock"}
Within == {"locked", "made", "download", "install", "blocked", "wait", "proof", "clean", "unlock"}
Places == Before \cup Within \cup {"restore", "ended"}

Ways == Signals \cup {None, "done", "error", "killed"}

CallType ==
    [pc : Places, release : Versions, from : Versions, raised : Ways, handled : Ways, end : Ways]

UvType ==
    [state : {None, "running", "installed", "succeeded", "failed"}, told : BOOLEAN]

CallTypeOK == call \in [Calls -> CallType]
UvTypeOK == uv \in [Calls -> UvType]
TempTypeOK == temp \in [Calls -> {None, "made", "wheel"}]
SeenTypeOK == seen \in [Calls -> [hurt : BOOLEAN, fresh : BOOLEAN]]
PendTypeOK == pend \in [Calls -> SUBSET Signals]
ReleaseTypeOK == latest \in Versions /\ installed \in Versions /\ lock \in Calls \cup {None}
LeftTypeOK ==
    left \in [latest : Versions, installed : Versions, publish : SUBSET Versions,
              signals : Nat, kills : Nat]

TypeOK ==
    /\ CallTypeOK /\ UvTypeOK /\ TempTypeOK /\ SeenTypeOK /\ PendTypeOK
    /\ ReleaseTypeOK /\ LeftTypeOK

(* The lock is with the call that is between its acquisition and release.   *)
LockWithin == \A c \in Calls : call[c].pc \in Within <=> lock = c

(* What there is of a call's directory.                                     *)
Directory(c) ==
    LET pc == call[c].pc
    IN  /\ pc \in Before \cup {"locked"} => temp[c] = None
        /\ pc \in {"install", "blocked", "wait", "proof"} => temp[c] = "wheel"
        /\ pc \in {"unlock", "restore", "ended"} =>
             temp[c] = None \/ seen[c].hurt \/ call[c].end = "killed"

(* What there is of its child. Only a call that was killed has left it.     *)
Child(c) ==
    LET pc == call[c].pc
    IN  /\ pc \in Before \cup {"locked", "made", "download", "install", "blocked"} => uv[c].state = None
        /\ pc = "wait" => uv[c].state # None
        /\ pc = "proof" => uv[c].state = "succeeded"
        /\ Running(c) => pc = "wait" \/ call[c].end = "killed"
        /\ call[c].end = "killed" => pc = "ended"

(* What it is to install is newer than what it found.                       *)
Wanted(c) ==
    call[c].pc \notin {"start", "ended"} \/ Running(c) => NewerVersion(call[c].release, call[c].from)

IInv ==
    /\ TypeOK /\ LockWithin
    /\ \A c \in Calls : Directory(c) /\ Child(c) /\ Wanted(c)

Facts(c) == Directory(c) /\ Child(c) /\ Wanted(c)

-----------------------------------------------------------------------------
(* The invariant is inductive.                                              *)

LEMMA InitIInv == Init => IInv
<1> SUFFICES ASSUME Init PROVE IInv
  OBVIOUS
<1> USE SelfUpdateAssumption DEF SelfUpdateAssumption, Init
<1>1. left.latest \in Versions /\ left.installed \in Versions
  OBVIOUS
<1>2. TypeOK
  BY <1>1 DEF TypeOK, CallTypeOK, UvTypeOK, TempTypeOK, SeenTypeOK, PendTypeOK, ReleaseTypeOK,
     LeftTypeOK, CallType, UvType, Places, Before, Ways
<1>3. LockWithin
  BY DEF LockWithin, Within
<1>4. \A c \in Calls : Directory(c) /\ Child(c) /\ Wanted(c)
  BY DEF Directory, Child, Wanted, Running, Before, None
<1> QED  BY <1>2, <1>3, <1>4 DEF IInv

(* What is known of a call that a step does not touch stays true.           *)
LEMMA Bystander ==
  ASSUME NEW d \in Calls, Facts(d), call'[d] = call[d], temp'[d] = temp[d],
         uv'[d] = uv[d], seen'[d].hurt = seen[d].hurt
  PROVE  Facts(d)'
  BY DEF Facts, Directory, Child, Wanted, Running

(* A step of one call that keeps what is known of it and its hold on the    *)
(* lock keeps the invariant.                                                *)
LEMMA OneCall ==
  ASSUME IInv, TypeOK', NEW c \in Calls, Facts(c)',
         \A d \in Calls \ {c} : /\ call'[d] = call[d] /\ temp'[d] = temp[d]
                                /\ uv'[d] = uv[d] /\ seen'[d].hurt = seen[d].hurt,
         \/ lock' = lock /\ (call'[c].pc \in Within <=> call[c].pc \in Within)
         \/ lock = None /\ lock' = c /\ call'[c].pc \in Within
         \/ (lock = c \/ call[c].pc \notin Within) /\ call'[c].pc \notin Within
            /\ lock' = IF lock = c THEN None ELSE lock
  PROVE  IInv'
<1>1. \A d \in Calls \ {c} : Facts(d)'
  BY Bystander DEF IInv, Facts
<1>2. ASSUME NEW d \in Calls
      PROVE  call'[d].pc \in Within <=> lock' = d
  <2>1. None \notin Calls /\ \A e \in Calls : call[e].pc \in Within <=> lock = e
    BY SelfUpdateAssumption DEF SelfUpdateAssumption, IInv, LockWithin
  <2>2. CASE d = c
    BY <2>1, <2>2
  <2>3. CASE d # c
    <3>1. call'[d].pc \in Within <=> lock = d
      BY <2>1, <2>3
    <3> QED  BY <2>1, <2>3, <3>1
  <2> QED  BY <2>2, <2>3
<1> QED  BY <1>1, <1>2 DEF IInv, Facts, LockWithin

USE DEF Goes, Raises, Ends, At

LEMMA DiscoversIInv ==
  ASSUME IInv, NEW c \in Calls, Discovers(c)
  PROVE  IInv'
<1> USE DEF Discovers
<1>1. CallTypeOK'
  BY DEF IInv, TypeOK, CallTypeOK, ReleaseTypeOK, CallType, Places, Before, Ways
<1>2. SeenTypeOK'
  BY DEF IInv, TypeOK, SeenTypeOK
<1>3. TypeOK'
  BY <1>1, <1>2 DEF IInv, TypeOK, UvTypeOK, TempTypeOK, PendTypeOK, ReleaseTypeOK, LeftTypeOK
<1>4. Facts(c)'
  BY DEF IInv, TypeOK, CallTypeOK, CallType, Facts, Directory, Child, Wanted, Running, Before
<1> QED
  BY SMTT(30), <1>3, <1>4, OneCall DEF IInv, TypeOK, CallTypeOK, CallType, SeenTypeOK, Within

LEMMA OwnsIInv ==
  ASSUME IInv, NEW c \in Calls, Owns(c)
  PROVE  IInv'
<1> USE DEF Owns
<1>1. CallTypeOK'
  BY DEF IInv, TypeOK, CallTypeOK, CallType, Places, Before, Ways
<1>2. TypeOK'
  BY <1>1 DEF IInv, TypeOK, UvTypeOK, TempTypeOK, SeenTypeOK, PendTypeOK, ReleaseTypeOK, LeftTypeOK
<1>3. Facts(c)'
  BY DEF IInv, TypeOK, CallTypeOK, CallType, Facts, Directory, Child, Wanted, Running, Before
<1> QED
  BY <1>2, <1>3, OneCall DEF IInv, TypeOK, CallTypeOK, CallType, Within

LEMMA LocksIInv ==
  ASSUME IInv, NEW c \in Calls, Locks(c)
  PROVE  IInv'
<1> USE DEF Locks
<1>1. CallTypeOK'
  BY DEF IInv, TypeOK, CallTypeOK, CallType, Places, Before, Within, Ways
<1>2. ReleaseTypeOK'
  BY DEF IInv, TypeOK, ReleaseTypeOK
<1>3. TypeOK'
  BY <1>1, <1>2 DEF IInv, TypeOK, UvTypeOK, TempTypeOK, SeenTypeOK, PendTypeOK, LeftTypeOK
<1>4. Facts(c)'
  BY DEF IInv, TypeOK, CallTypeOK, CallType, ReleaseTypeOK, Facts, Directory, Child, Wanted,
         Running, Before
<1> QED
  BY <1>3, <1>4, OneCall DEF IInv, TypeOK, CallTypeOK, CallType, ReleaseTypeOK, Within

LEMMA MakesIInv ==
  ASSUME IInv, NEW c \in Calls, Makes(c)
  PROVE  IInv'
<1> USE DEF Makes
<1>1. CallTypeOK'
  BY DEF IInv, TypeOK, CallTypeOK, CallType, Places, Before, Within, Ways
<1>2. TempTypeOK'
  BY DEF IInv, TypeOK, TempTypeOK
<1>3. TypeOK'
  BY <1>1, <1>2 DEF IInv, TypeOK, UvTypeOK, SeenTypeOK, PendTypeOK, ReleaseTypeOK, LeftTypeOK
<1>4. Facts(c)'
  BY DEF IInv, TypeOK, CallTypeOK, CallType, TempTypeOK, Facts, Directory, Child, Wanted, Running,
         Before
<1> QED
  BY <1>3, <1>4, OneCall DEF IInv, TypeOK, CallTypeOK, CallType, TempTypeOK, Within

LEMMA EntersIInv ==
  ASSUME IInv, NEW c \in Calls, Enters(c)
  PROVE  IInv'
<1> USE DEF Enters
<1>1. CallTypeOK'
  BY DEF IInv, TypeOK, CallTypeOK, CallType, Places, Before, Within, Ways
<1>2. TypeOK'
  BY <1>1
  DEF IInv, TypeOK, UvTypeOK, TempTypeOK, SeenTypeOK, PendTypeOK, ReleaseTypeOK, LeftTypeOK
<1>3. Facts(c)'
  BY DEF IInv, TypeOK, CallTypeOK, CallType, Facts, Directory, Child, Wanted, Running, Before
<1> QED
  BY <1>2, <1>3, OneCall DEF IInv, TypeOK, CallTypeOK, CallType, Within

LEMMA DownloadsIInv ==
  ASSUME IInv, NEW c \in Calls, Downloads(c)
  PROVE  IInv'
<1> USE DEF Downloads
<1>1. CallTypeOK'
  BY DEF IInv, TypeOK, CallTypeOK, CallType, Places, Before, Within, Ways
<1>2. TempTypeOK'
  BY DEF IInv, TypeOK, TempTypeOK
<1>3. TypeOK'
  BY <1>1, <1>2 DEF IInv, TypeOK, UvTypeOK, SeenTypeOK, PendTypeOK, ReleaseTypeOK, LeftTypeOK
<1>4. Facts(c)'
  BY SMTT(30) DEF IInv, TypeOK, CallTypeOK, CallType, TempTypeOK, Facts, Directory, Child, Wanted, Running,
         Before
<1> QED
  BY <1>3, <1>4, OneCall DEF IInv, TypeOK, CallTypeOK, CallType, TempTypeOK, Within

LEMMA BlocksIInv ==
  ASSUME IInv, NEW c \in Calls, Blocks(c)
  PROVE  IInv'
<1> USE DEF Blocks
<1>1. CallTypeOK'
  BY DEF IInv, TypeOK, CallTypeOK, CallType, Places, Before, Within, Ways
<1>2. TypeOK'
  BY <1>1
  DEF IInv, TypeOK, UvTypeOK, TempTypeOK, SeenTypeOK, PendTypeOK, ReleaseTypeOK, LeftTypeOK
<1>3. Facts(c)'
  BY DEF IInv, TypeOK, CallTypeOK, CallType, Facts, Directory, Child, Wanted, Running, Before
<1> QED
  BY <1>2, <1>3, OneCall DEF IInv, TypeOK, CallTypeOK, CallType, Within

LEMMA PopensIInv ==
  ASSUME IInv, NEW c \in Calls, Popens(c)
  PROVE  IInv'
<1> USE DEF Popens
<1>1. CallTypeOK'
  BY DEF IInv, TypeOK, CallTypeOK, CallType, Places, Before, Within, Ways
<1>2. UvTypeOK'
  BY DEF IInv, TypeOK, UvTypeOK, UvType
<1>3. TypeOK'
  BY <1>1, <1>2 DEF IInv, TypeOK, TempTypeOK, SeenTypeOK, PendTypeOK, ReleaseTypeOK, LeftTypeOK
<1>4. /\ call[c].pc = "blocked" /\ uv[c].state = None /\ temp'[c] = "wheel"
      /\ call[c].end # "killed" /\ NewerVersion(call[c].release, call[c].from)
  BY DEF IInv, TypeOK, CallTypeOK, CallType, Directory, Child, Wanted
<1>5. Facts(c)'
  <2>1. CASE uv'[c].state = "running" /\ call' = [call EXCEPT ![c].pc = "wait"]
    BY <1>4, <2>1
    DEF IInv, TypeOK, CallTypeOK, CallType, Facts, Directory, Child, Wanted, Running, Before, None
  <2>2. CASE UNCHANGED uv /\ Raises(c, "error", "clean")
    BY <1>4, <2>2
    DEF IInv, TypeOK, CallTypeOK, CallType, Facts, Directory, Child, Wanted, Running, Before, None
  <2> QED  BY <2>1, <2>2 DEF IInv, TypeOK, UvTypeOK, UvType
<1> QED
  BY <1>3, <1>5, OneCall DEF IInv, TypeOK, CallTypeOK, CallType, UvTypeOK, UvType, Within

LEMMA WaitsIInv ==
  ASSUME IInv, NEW c \in Calls, Waits(c)
  PROVE  IInv'
<1> USE DEF Waits
<1>1. CallTypeOK'
  BY DEF IInv, TypeOK, CallTypeOK, CallType, Places, Before, Within, Ways
<1>2. TypeOK'
  BY <1>1
  DEF IInv, TypeOK, UvTypeOK, TempTypeOK, SeenTypeOK, PendTypeOK, ReleaseTypeOK, LeftTypeOK
<1>3. Facts(c)'
  BY DEF IInv, TypeOK, CallTypeOK, CallType, Facts, Directory, Child, Wanted, Running, Before
<1> QED
  BY <1>2, <1>3, OneCall DEF IInv, TypeOK, CallTypeOK, CallType, Within

LEMMA ProvesIInv ==
  ASSUME IInv, NEW c \in Calls, Proves(c)
  PROVE  IInv'
<1> USE DEF Proves
<1>1. CallTypeOK'
  BY DEF IInv, TypeOK, CallTypeOK, CallType, Places, Before, Within, Ways
<1>2. TypeOK'
  BY <1>1
  DEF IInv, TypeOK, UvTypeOK, TempTypeOK, SeenTypeOK, PendTypeOK, ReleaseTypeOK, LeftTypeOK
<1>3. Facts(c)'
  BY DEF IInv, TypeOK, CallTypeOK, CallType, Facts, Directory, Child, Wanted, Running, Before
<1> QED
  BY <1>2, <1>3, OneCall DEF IInv, TypeOK, CallTypeOK, CallType, Within

LEMMA UnwindsIInv ==
  ASSUME IInv, NEW c \in Calls, Unwinds(c)
  PROVE  IInv'
<1> USE DEF Unwinds, Cleans, Reports
<1>1. CallTypeOK'
  BY DEF IInv, TypeOK, CallTypeOK, CallType, Places, Before, Within, Ways
<1>2. TempTypeOK'
  BY DEF IInv, TypeOK, TempTypeOK
<1>3. ReleaseTypeOK'
  BY DEF IInv, TypeOK, ReleaseTypeOK
<1>4. TypeOK'
  BY <1>1, <1>2, <1>3 DEF IInv, TypeOK, UvTypeOK, SeenTypeOK, PendTypeOK, LeftTypeOK
<1>5. Facts(c)'
  BY DEF IInv, TypeOK, CallTypeOK, CallType, TempTypeOK, Facts, Directory, Child, Wanted, Running,
         Before
<1>6. \A d \in Calls \ {c} : call'[d] = call[d] /\ temp'[d] = temp[d]
  BY DEF IInv, TypeOK, CallTypeOK, TempTypeOK
<1>7. \/ lock' = lock /\ (call'[c].pc \in Within <=> call[c].pc \in Within)
      \/ lock = c /\ lock' = None /\ call'[c].pc \notin Within
  BY DEF IInv, LockWithin, TypeOK, CallTypeOK, CallType, Within
<1> QED
  BY <1>4, <1>5, <1>6, <1>7, OneCall

LEMMA SignalIInv ==
  ASSUME IInv, NEW c \in Calls, Signal(c)
  PROVE  IInv'
<1> USE DEF Signal
<1>1. PendTypeOK'
  BY DEF IInv, TypeOK, PendTypeOK
<1>2. LeftTypeOK'
  BY DEF IInv, TypeOK, LeftTypeOK
<1>3. TypeOK'
  BY <1>1, <1>2 DEF IInv, TypeOK, CallTypeOK, UvTypeOK, TempTypeOK, SeenTypeOK, ReleaseTypeOK
<1> QED
  BY <1>3 DEF IInv, LockWithin, Directory, Child, Wanted, Running

LEMMA InterruptedTyped ==
  ASSUME NEW r \in CallType, NEW s \in Ways, NEW to \in Places, NEW e \in Ways
  PROVE  [r EXCEPT !.raised = s, !.pc = to, !.end = e] \in CallType
  BY DEF CallType

(* A signal that is noticed before there is a child interrupts the call; if *)
(* that happens where the directory is made or removed, it is noted.        *)
LEMMA NoticesIInv ==
  ASSUME IInv, NEW c \in Calls, Notices(c)
  PROVE  IInv'
<1> USE DEF Notices
<1> PICK s \in pend[c] : /\ Cancel(c, s) /\ pend' = [pend EXCEPT ![c] = @ \ {s}]
                         /\ seen' = [seen EXCEPT ![c].hurt = @ \/ (uv[c].state = None
                                                      /\ call[c].pc \in {"made", "clean"})]
  OBVIOUS
<1>1. s \in Signals
  BY DEF IInv, TypeOK, PendTypeOK
<1>2. PendTypeOK'
  BY DEF IInv, TypeOK, PendTypeOK
<1>3. SeenTypeOK'
  BY DEF IInv, TypeOK, SeenTypeOK
<1>4. CASE uv[c].state = None
  <2>1. Interrupts(c, s) /\ UNCHANGED uv
    BY <1>4 DEF Cancel
  <2>2. call[c].pc \in {"lock", "locked", "made", "download", "install", "clean", "unlock", "restore"}
    BY <1>4 DEF Handling, IInv, Child, Interrupted, None
  <2> DEFINE to == Interrupted[call[c].pc]
  <2>3. \/ call[c].pc = "lock" /\ to = "restore"
        \/ call[c].pc \in {"locked", "made", "clean", "unlock"} /\ to = "unlock"
        \/ call[c].pc \in {"download", "install"} /\ to = "clean"
        \/ call[c].pc = "restore" /\ to = "ended"
    <3>1. /\ Interrupted["lock"] = "restore" /\ Interrupted["locked"] = "unlock"
          /\ Interrupted["made"] = "unlock" /\ Interrupted["download"] = "clean"
          /\ Interrupted["install"] = "clean" /\ Interrupted["clean"] = "unlock"
          /\ Interrupted["unlock"] = "unlock" /\ Interrupted["restore"] = "ended"
      BY DEF Interrupted
    <3> QED  BY <2>2, <3>1
  <2> HIDE DEF to
  <2>4. call' = [call EXCEPT ![c].raised = s, ![c].pc = to, ![c].end = IF to = "ended" THEN s ELSE @]
    BY <2>1 DEF Interrupts, to
  <2>5. CallTypeOK'
    <3>1. to \in Places /\ s \in Ways
      BY <1>1, <2>3 DEF Places, Within, Ways
    <3> DEFINE e == IF to = "ended" THEN s ELSE call[c].end
               r == [call[c] EXCEPT !.raised = s, !.pc = to, !.end = e]
    <3>2. call \in [Calls -> CallType]
      BY DEF IInv, TypeOK, CallTypeOK
    <3>3. e \in Ways
      BY <3>1, <3>2 DEF CallType
    <3>4. call' = [call EXCEPT ![c] = r]
      BY <2>4
    <3> HIDE DEF e
    <3>5. r \in CallType
      BY <3>1, <3>2, <3>3, InterruptedTyped
    <3> HIDE DEF r
    <3> QED  BY <3>2, <3>4, <3>5 DEF CallTypeOK
  <2>6. TypeOK'
    BY <1>2, <1>3, <2>1, <2>5 DEF IInv, TypeOK, UvTypeOK, TempTypeOK, ReleaseTypeOK, LeftTypeOK
  <2>7. Facts(c)'
    <3>1. /\ call'[c].pc = to /\ call'[c].release = call[c].release /\ call'[c].from = call[c].from
          /\ call'[c].end = IF to = "ended" THEN s ELSE call[c].end
      BY <2>4 DEF IInv, TypeOK, CallTypeOK, CallType
    <3>2. /\ seen[c].hurt => seen'[c].hurt
          /\ call[c].pc \in {"made", "clean"} => seen'[c].hurt
      BY <1>4 DEF IInv, TypeOK, SeenTypeOK
    <3>3. Facts(c) /\ ~Running(c) /\ ~Running(c)'
      BY <1>4, <2>1 DEF IInv, Facts, Running, None
    <3>4. Directory(c)'
      BY <2>3, <3>1, <3>2, <3>3 DEF Facts, Directory, Child, Before
    <3>5. Child(c)' /\ Wanted(c)'
      BY <1>4, <2>1, <2>3, <3>1, <3>3 DEF Facts, Child, Wanted, Before
    <3> QED  BY <3>4, <3>5 DEF Facts
  <2> QED
    BY <2>1, <2>3, <2>4, <2>6, <2>7, OneCall DEF IInv, TypeOK, CallTypeOK, CallType, SeenTypeOK, Within
<1>5. CASE uv[c].state # None
  <2>1. /\ call' = [call EXCEPT ![c].handled = IF @ = None THEN s ELSE @]
        /\ uv' = [uv EXCEPT ![c].told = TRUE]
    BY <1>5 DEF Cancel, SendsOn
  <2>2. CallTypeOK'
    BY <1>1, <2>1 DEF IInv, TypeOK, CallTypeOK, CallType, Ways
  <2>3. UvTypeOK'
    BY <2>1 DEF IInv, TypeOK, UvTypeOK, UvType
  <2>4. TypeOK'
    BY <1>2, <1>3, <2>2, <2>3 DEF IInv, TypeOK, TempTypeOK, ReleaseTypeOK, LeftTypeOK
  <2>5. Facts(c)'
    BY <1>5, <2>1
    DEF IInv, TypeOK, CallTypeOK, CallType, UvTypeOK, UvType, SeenTypeOK, Facts, Directory, Child,
        Wanted, Running, Before
  <2> QED
    BY <2>1, <2>4, <2>5, OneCall
    DEF IInv, TypeOK, CallTypeOK, CallType, UvTypeOK, SeenTypeOK, Within
<1> QED  BY <1>4, <1>5

LEMMA KilledIInv ==
  ASSUME IInv, NEW c \in Calls, Killed(c)
  PROVE  IInv'
<1> USE DEF Killed
<1>1. CallTypeOK'
  <2>1. call \in [Calls -> CallType]
    BY DEF IInv, TypeOK, CallTypeOK
  <2>2. [call[c] EXCEPT !.pc = "ended", !.end = "killed"] \in CallType
    BY <2>1 DEF CallType, Places, Ways
  <2>3. call' = [call EXCEPT ![c] = [call[c] EXCEPT !.pc = "ended", !.end = "killed"]]
    BY <2>1 DEF CallType
  <2> QED  BY <2>1, <2>2, <2>3 DEF CallTypeOK
<1>2. PendTypeOK' /\ ReleaseTypeOK'
  BY DEF IInv, TypeOK, PendTypeOK, ReleaseTypeOK
<1>3. LeftTypeOK'
  BY DEF IInv, TypeOK, LeftTypeOK
<1>4. TypeOK'
  BY <1>1, <1>2, <1>3 DEF IInv, TypeOK, UvTypeOK, TempTypeOK, SeenTypeOK
<1>5. Facts(c)'
  BY DEF IInv, TypeOK, CallTypeOK, CallType, Facts, Directory, Child, Wanted, Running, Before
<1>6. lock = c \/ call[c].pc \notin Within
  BY DEF IInv, LockWithin
<1> QED
  BY <1>4, <1>5, <1>6, OneCall DEF IInv, TypeOK, CallTypeOK, CallType, Within

LEMMA InstallsIInv ==
  ASSUME IInv, NEW c \in Calls, Installs(c)
  PROVE  IInv'
<1> USE DEF Installs
<1>1. UvTypeOK'
  BY DEF IInv, TypeOK, UvTypeOK, UvType
<1>2. ReleaseTypeOK'
  BY DEF IInv, TypeOK, CallTypeOK, CallType, ReleaseTypeOK
<1>3. TypeOK'
  BY <1>1, <1>2 DEF IInv, TypeOK, CallTypeOK, TempTypeOK, SeenTypeOK, PendTypeOK, LeftTypeOK
<1>4. Facts(c)'
  BY DEF IInv, TypeOK, UvTypeOK, UvType, Facts, Directory, Child, Wanted, Running, Before, None
<1> QED
  BY <1>3, <1>4, OneCall DEF IInv, TypeOK, UvTypeOK

LEMMA UvExitsIInv ==
  ASSUME IInv, NEW c \in Calls, UvExits(c)
  PROVE  IInv'
<1> USE DEF UvExits
<1>1. UvTypeOK'
  BY DEF IInv, TypeOK, UvTypeOK, UvType
<1>2. TypeOK'
  BY <1>1
  DEF IInv, TypeOK, CallTypeOK, TempTypeOK, SeenTypeOK, PendTypeOK, ReleaseTypeOK, LeftTypeOK
<1>3. Facts(c)'
  BY DEF IInv, TypeOK, UvTypeOK, UvType, Facts, Directory, Child, Wanted, Running, Before, None
<1> QED
  BY <1>2, <1>3, OneCall DEF IInv, TypeOK, UvTypeOK

LEMMA PublishesIInv ==
  ASSUME IInv, Publishes
  PROVE  IInv'
<1> USE DEF Publishes
<1>1. LeftTypeOK' /\ ReleaseTypeOK'
  BY DEF IInv, TypeOK, LeftTypeOK, ReleaseTypeOK
<1>2. SeenTypeOK' /\ \A c \in Calls : seen'[c].hurt = seen[c].hurt
  BY DEF IInv, TypeOK, SeenTypeOK
<1>3. TypeOK'
  BY <1>1, <1>2 DEF IInv, TypeOK, CallTypeOK, UvTypeOK, TempTypeOK, PendTypeOK
<1>4. \A c \in Calls : Facts(c)'
  BY <1>2, Bystander DEF IInv, Facts
<1> QED
  BY <1>3, <1>4 DEF IInv, LockWithin, Facts

-----------------------------------------------------------------------------

LEMMA NextIInv ==
  ASSUME IInv, [Next]_vars
  PROVE  IInv'
<1>1. CASE UNCHANGED vars
  BY <1>1
  DEF vars, IInv, TypeOK, CallTypeOK, UvTypeOK, TempTypeOK, SeenTypeOK, PendTypeOK, ReleaseTypeOK,
      LeftTypeOK, LockWithin, Directory, Child, Wanted, Running
<1>2. ASSUME NEW c \in Calls, Step(c)
      PROVE  IInv'
  BY <1>2, DiscoversIInv, OwnsIInv, LocksIInv, MakesIInv, EntersIInv, DownloadsIInv, BlocksIInv,
     PopensIInv, WaitsIInv, ProvesIInv, UnwindsIInv, NoticesIInv DEF Step
<1> QED
  BY <1>1, <1>2, SignalIInv, KilledIInv, InstallsIInv, UvExitsIInv, PublishesIInv DEF Next

LEMMA Invariance == Spec => []IInv
  BY InitIInv, NextIInv, PTL DEF Spec

(* Types of every variable, whatever is called, published or signalled.     *)
THEOREM TypeCorrect == Spec => []TypeOK
<1>1. IInv => TypeOK
  BY DEF IInv
<1> QED  BY <1>1, Invariance, PTL

(* update.lock is with exactly the call that is between its acquisition     *)
(* and its release (_acquire_update_lock).                                  *)
THEOREM LockCorrect == Spec => []LockWithin
<1>1. IInv => LockWithin
  BY DEF IInv
<1> QED  BY <1>1, Invariance, PTL

(* A uv that installs has the lock and the wheel behind it, unless its call *)
(* was killed (run_self_update).                                            *)
THEOREM Installing == Spec => []OneInstaller
<1>1. IInv => OneInstaller
  BY DEF IInv, OneInstaller, LockWithin, Directory, Child, Within
<1> QED  BY <1>1, Invariance, PTL

(* Only a call that was killed, or interrupted where _verified_update_wheel *)
(* makes or removes its directory, leaves it behind; none leaves the lock.  *)
THEOREM CleanedUp == Spec => []DirectoryRemoved
<1>1. IInv => DirectoryRemoved
  BY DEF IInv, DirectoryRemoved, LockWithin, Directory, Within
<1> QED  BY <1>1, Invariance, PTL

-----------------------------------------------------------------------------
(* The order of versions.                                                   *)

LEMMA LeastNumber ==
  ASSUME NEW S \in SUBSET Nat, S # {}
  PROVE  \E m \in S : \A n \in S : m <= n
<1> DEFINE R == OpToRel(<, Nat)
<1>1. IsWellFoundedOn(R, Nat)
  BY NatLessThanWellFounded
<1>2. \A x, y \in Nat : <<x, y>> \in R <=> x < y
  BY DEF OpToRel
<1> HIDE DEF R
<1>3. PICK m \in S : \A y \in S : ~(<<y, m>> \in R)
  BY <1>1, WFMin
<1>4. ASSUME NEW n \in S
      PROVE  m <= n
  <2>1. n \in Nat /\ m \in Nat /\ ~(n < m)
    BY <1>2, <1>3
  <2> QED  BY <2>1
<1> QED  BY <1>4

Id == [num : BOOLEAN, val : Nat]

(* What _is_newer_version finds newer is above in the order of SemVer,      *)
(* which compares keys from left to right.                                  *)
LEMMA NewerIsAbove ==
  ASSUME NEW v \in Versions, NEW w \in Versions, ~v.odd, ~w.odd, NewerVersion(v, w)
  PROVE  Above(v, w)
<1> DEFINE a == v.pre
           b == w.pre
<1>1. v.core \in Nat /\ w.core \in Nat /\ a \in Seq(Id) /\ b \in Seq(Id)
  BY SelfUpdateAssumption DEF SelfUpdateAssumption, Id
<1>2. Key(v, 0) = <<v.core, 0>> /\ Key(w, 0) = <<w.core, 0>>
  BY DEF Key
<1>3. Len(a) \in Nat /\ Len(b) \in Nat
  BY <1>1
<1>4. CASE v.core # w.core
  <2>1. v.core > w.core
    BY <1>4 DEF NewerVersion
  <2>2. KeyAbove(Key(v, 0), Key(w, 0))
    BY <1>2, <2>1 DEF KeyAbove
  <2> QED  BY <1>3, <2>2 DEF Above
<1>5. CASE v.core = w.core
  <2>1. ComparePre(a, b) > 0
    BY <1>5 DEF NewerVersion
  <2>2. Key(v, 0) = Key(w, 0)
    BY <1>2, <1>5
  <2>3. CASE a = <<>> \/ b = <<>>
    <3>1. Len(b) > Len(a)
      BY <1>3, <2>1, <2>3 DEF ComparePre, Sign
    <3>2. a = <<>> /\ b # <<>> /\ Len(b) >= 1
      BY <1>1, <1>3, <2>3, <3>1
    <3>3. Key(v, 1) = <<3, 0>>
      BY <3>2 DEF Key
    <3>4. b[1] \in Id
      BY <1>1, <3>2
    <3>5. Key(w, 1) = IF b[1].num THEN <<1, b[1].val>> ELSE <<2, b[1].val>>
      BY <1>3, <3>2 DEF Key
    <3>6. KeyAbove(Key(v, 1), Key(w, 1))
      BY <3>3, <3>4, <3>5 DEF KeyAbove, Id
    <3>7. 1 \in 0..(Len(a) + 1) /\ 0..(1 - 1) = {0}
      BY <1>3
    <3> QED  BY <2>2, <3>6, <3>7 DEF Above
  <2>4. CASE a # <<>> /\ b # <<>>
    <3> DEFINE both == 1..(IF Len(a) < Len(b) THEN Len(a) ELSE Len(b))
               differ == {i \in both : a[i] # b[i]}
               first == CHOOSE i \in differ : \A j \in differ : i <= j
    <3>1. \A i \in both : /\ i \in 1..Len(a) /\ i \in 1..Len(b) /\ i \in Nat
                          /\ a[i] \in Id /\ b[i] \in Id
      BY <1>1, <1>3
    <3>2. \A i \in both :
             /\ Key(v, i) = IF a[i].num THEN <<1, a[i].val>> ELSE <<2, a[i].val>>
             /\ Key(w, i) = IF b[i].num THEN <<1, b[i].val>> ELSE <<2, b[i].val>>
      BY <1>3, <2>4, <3>1 DEF Key
    <3>3. \A i \in both \ differ : Key(v, i) = Key(w, i)
      BY <3>2
    <3>4. CASE differ # {}
      <4>1. \E i \in differ : \A j \in differ : i <= j
        BY <3>1, <3>4, LeastNumber
      <4>2. first \in differ /\ \A j \in differ : first <= j
        BY <4>1
      <4>3. CompareIds(a[first], b[first]) > 0
        BY <2>1, <2>4, <3>4 DEF ComparePre
      <4> HIDE DEF first
      <4>4. KeyAbove(Key(v, first), Key(w, first))
        BY <3>1, <3>2, <4>2, <4>3 DEF KeyAbove, CompareIds, Sign, Id
      <4>5. \A j \in 1..(first - 1) : j \in both \ differ
        BY <1>3, <4>2
      <4>6. \A j \in 0..(first - 1) : Key(v, j) = Key(w, j)
        BY <2>2, <3>1, <3>3, <4>2, <4>5
      <4>7. first \in 0..(Len(a) + 1)
        BY <1>3, <3>1, <4>2
      <4> QED  BY <4>4, <4>6, <4>7 DEF Above
    <3>5. CASE differ = {}
      <4>1. Len(a) > Len(b)
        BY <1>3, <2>1, <2>4, <3>5 DEF ComparePre, Sign
      <4> DEFINE n == Len(b) + 1
      <4>2. n \in Nat /\ n \in 1..Len(a) /\ both = 1..Len(b) /\ a[n] \in Id
        BY <1>1, <1>3, <4>1
      <4>3. Key(w, n) = <<0, 0>>
        BY <1>3, <2>4 DEF Key
      <4>4. Key(v, n) = IF a[n].num THEN <<1, a[n].val>> ELSE <<2, a[n].val>>
        BY <1>3, <2>4, <4>2 DEF Key
      <4>5. KeyAbove(Key(v, n), Key(w, n))
        BY <4>2, <4>3, <4>4 DEF KeyAbove, Id
      <4>6. \A j \in 0..(n - 1) : Key(v, j) = Key(w, j)
        BY <1>3, <2>2, <3>3, <3>5, <4>2
      <4>7. n \in 0..(Len(a) + 1)
        BY <1>3, <4>2
      <4> QED  BY <4>5, <4>6, <4>7 DEF Above
    <3> QED  BY <3>4, <3>5
  <2> QED  BY <2>3, <2>4
<1> QED  BY <1>4, <1>5

(* The installed version never gets older, unless another version was       *)
(* installed, or another release published, since the call looked: each     *)
(* call installs what it has found to be newer (_pending_update_release).   *)
THEOREM Forward == Spec => UpdatesForward
<1> DEFINE A == installed' # installed =>
                  \/ Above(installed', installed)
                  \/ installed'.odd \/ installed.odd
                  \/ \E c \in Calls : /\ uv'[c].state # uv[c].state
                                      /\ ~seen[c].fresh \/ installed # call[c].from
<1>1. ASSUME IInv, [Next]_vars
      PROVE  [A]_vars
  <2> SUFFICES ASSUME installed' # installed
               PROVE  A
    BY DEF vars
  <2>1. PICK c \in Calls : Installs(c)
    <3>1. ASSUME NEW c \in Calls, Step(c)
          PROVE  UNCHANGED installed
      BY <3>1 DEF Step, Discovers, Owns, Locks, Makes, Enters, Downloads, Blocks, Popens, Waits,
         Proves, Unwinds, Notices
    <3>2. ASSUME NEW c \in Calls, Signal(c) \/ Killed(c) \/ UvExits(c)
          PROVE  UNCHANGED installed
      BY <3>2 DEF Signal, Killed, UvExits
    <3>3. Publishes => UNCHANGED installed
      BY DEF Publishes
    <3> QED  BY <1>1, <3>1, <3>2, <3>3 DEF Next, vars
  <2>2. uv[c].state = "running" /\ uv'[c].state = "installed" /\ installed' = call[c].release
    BY <1>1, <2>1 DEF Installs, IInv, TypeOK, UvTypeOK, UvType
  <2>3. NewerVersion(call[c].release, call[c].from)
    BY <1>1, <2>2 DEF IInv, Wanted, Running
  <2>4. call[c].release \in Versions /\ installed \in Versions
    BY <1>1 DEF IInv, TypeOK, CallTypeOK, CallType, ReleaseTypeOK
  <2>5. \A v \in Versions : v.odd \in BOOLEAN
    BY SelfUpdateAssumption DEF SelfUpdateAssumption
  <2>6. CASE installed = call[c].from /\ ~installed'.odd /\ ~installed.odd
    BY <2>2, <2>3, <2>4, <2>6, NewerIsAbove
  <2>7. CASE installed # call[c].from
    BY <2>2, <2>7
  <2> QED  BY <2>6, <2>7
<1>2. [][A]_vars <=> UpdatesForward
  BY DEF UpdatesForward
<1> HIDE DEF A
<1>3. IInv /\ [Next]_vars => [A]_vars
  BY <1>1
<1> QED  BY <1>2, <1>3, Invariance, PTL DEF Spec
=============================================================================
