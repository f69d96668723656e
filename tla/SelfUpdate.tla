------------------------------ MODULE SelfUpdate ------------------------------
(***************************************************************************)
(* omh update (oh_my_coding_agent/_update.py): several calls at once, the   *)
(* lock between them, the temporary directory with the wheel, the uv that   *)
(* installs it, and the signals that arrive meanwhile.                      *)
(*                                                                         *)
(* Python notices a signal between two bytecodes, so that it may arrive     *)
(* between any two steps; what a step stands for either happens or, with an *)
(* exception, does not.                                                    *)
(***************************************************************************)
EXTENDS Integers, Sequences

CONSTANTS
    Calls,       \* calls of omh update
    Signals,     \* of SIGINT, SIGHUP and SIGTERM
    Worlds       \* [latest, installed, publish, signals, kills]: the versions that are there
                 \* and those to come ([odd, core, pre], where pre is a sequence of
                 \* identifiers [num, val]), signals sent and calls killed

None == "none"

Versions == UNION {w.publish \cup {w.latest, w.installed} : w \in Worlds}

ASSUME SelfUpdateAssumption ==
    /\ None \notin Calls
    /\ Versions \subseteq [odd : BOOLEAN, core : Nat, pre : Seq([num : BOOLEAN, val : Nat])]
    /\ Worlds \subseteq [latest : Versions, installed : Versions, publish : SUBSET Versions,
                          signals : Nat, kills : Nat]

VARIABLES
    latest,    \* the Latest Release
    installed, \* the version that uv has installed
    lock,      \* who holds update.lock
    call,      \* per call: where it is, its locals, and how it ends: "done" is status 0,
               \* "error" is 1, and a signal 128 more than its number
    temp,      \* per call: its temporary directory: none, made, or with the wheel
    uv,        \* per call: [state, told]: its child, and whether a signal was sent on
    pend,      \* per call: signals that are not noticed yet
    left,      \* what is left of the bounds
    seen       \* history, per call: whether a signal was noticed while the directory was
               \* made or removed, and whether the release found is still the latest

vars == <<latest, installed, lock, call, temp, uv, pend, left, seen>>

----------------------------------------------------------------------------
(* Versions. _parse_semver fails on one that is odd.                        *)

Sign(a, b) == IF a = b THEN 0 ELSE IF a > b THEN 1 ELSE -1

CompareIds(a, b) ==
    IF a.num = b.num THEN Sign(a.val, b.val) ELSE IF a.num THEN -1 ELSE 1

\* _compare_semver: without a pre-release comes after all with one.
ComparePre(a, b) ==
    LET both == 1..(IF Len(a) < Len(b) THEN Len(a) ELSE Len(b))
        differ == {i \in both : a[i] # b[i]}
        first == CHOOSE i \in differ : \A j \in differ : i <= j
    IN  IF a = <<>> \/ b = <<>> THEN Sign(Len(b), Len(a))
        ELSE IF differ # {} THEN CompareIds(a[first], b[first])
        ELSE Sign(Len(a), Len(b))

\* _is_newer_version (Mutant: any other version is.)
OtherVersion(candidate, current) == candidate # current

NewerVersion(candidate, current) ==
    IF candidate.odd \/ current.odd THEN candidate # current
    ELSE IF candidate.core # current.core THEN candidate.core > current.core
    ELSE ComparePre(candidate.pre, current.pre) > 0

----------------------------------------------------------------------------

Init ==
    /\ left \in Worlds
    /\ latest = left.latest /\ installed = left.installed
    /\ lock = None
    /\ call = [c \in Calls |-> [pc |-> "start", release |-> latest, from |-> installed,
                                raised |-> None, handled |-> None, end |-> None]]
    /\ temp = [c \in Calls |-> None]
    /\ uv = [c \in Calls |-> [state |-> None, told |-> FALSE]]
    /\ pend = [c \in Calls |-> {}]
    /\ seen = [c \in Calls |-> [hurt |-> FALSE, fresh |-> TRUE]]

Goes(c, pc) == call' = [call EXCEPT ![c].pc = pc]
Raises(c, what, pc) == call' = [call EXCEPT ![c].raised = what, ![c].pc = pc]
Ends(c, end) == call' = [call EXCEPT ![c].pc = "ended", ![c].end = end]

At(c, pc) == call[c].pc = pc /\ pend[c] = {}

\* _pending_update_release
Discovers(c) ==
    /\ At(c, "start")
    /\ \/ Ends(c, "error") /\ UNCHANGED seen
       \/ /\ call' = [call EXCEPT ![c].release = latest, ![c].from = installed,
                        ![c].pc = IF NewerVersion(latest, installed) THEN "owner" ELSE "ended",
                        ![c].end = IF NewerVersion(latest, installed) THEN None ELSE "done"]
          /\ seen' = [seen EXCEPT ![c].fresh = TRUE]
    /\ UNCHANGED <<latest, installed, lock, temp, uv, pend, left>>

\* _prove_uv_ownership, and the handlers of _handle_update_signals.
Owns(c) ==
    /\ At(c, "owner")
    /\ Ends(c, "error") \/ (installed = call[c].from /\ Goes(c, "lock"))
    /\ UNCHANGED <<latest, installed, lock, temp, uv, pend, left, seen>>

\* _acquire_update_lock does not wait.
Locks(c) ==
    /\ At(c, "lock")
    /\ \/ lock = None /\ lock' = c /\ Goes(c, "locked")
       \/ Raises(c, "error", "restore") /\ UNCHANGED lock
    /\ UNCHANGED <<latest, installed, temp, uv, pend, left, seen>>

\* _verified_update_wheel: the directory is made, entered, and gets the wheel.
Makes(c) ==
    /\ At(c, "locked")
    /\ \/ temp' = [temp EXCEPT ![c] = "made"] /\ Goes(c, "made")
       \/ Raises(c, "error", "unlock") /\ UNCHANGED temp
    /\ UNCHANGED <<latest, installed, lock, uv, pend, left, seen>>

Enters(c) ==
    /\ At(c, "made") /\ Goes(c, "download")
    /\ UNCHANGED <<latest, installed, lock, temp, uv, pend, left, seen>>

Downloads(c) ==
    /\ At(c, "download")
    /\ \/ temp' = [temp EXCEPT ![c] = "wheel"] /\ Goes(c, "install")
       \/ Raises(c, "error", "clean") /\ UNCHANGED temp
    /\ UNCHANGED <<latest, installed, lock, uv, pend, left, seen>>

\* run: signals are blocked until the child is known.
Blocks(c) ==
    /\ At(c, "install") /\ Goes(c, "blocked")
    /\ UNCHANGED <<latest, installed, lock, temp, uv, pend, left, seen>>

Popens(c) ==
    /\ call[c].pc = "blocked"
    /\ \/ uv' = [uv EXCEPT ![c].state = "running"] /\ Goes(c, "wait")
       \/ Raises(c, "error", "clean") /\ UNCHANGED uv
    /\ UNCHANGED <<latest, installed, lock, temp, pend, left, seen>>

\* _install_update_wheel, and the proof that follows.
Waits(c) ==
    /\ At(c, "wait") /\ uv[c].state \in {"succeeded", "failed"}
    /\ IF uv[c].state = "succeeded" THEN Goes(c, "proof") ELSE Raises(c, "error", "clean")
    /\ UNCHANGED <<latest, installed, lock, temp, uv, pend, left, seen>>

Proves(c) ==
    /\ At(c, "proof")
    /\ (installed = call[c].release /\ Goes(c, "clean")) \/ Raises(c, "error", "clean")
    /\ UNCHANGED <<latest, installed, lock, temp, uv, pend, left, seen>>

\* The with statements end. (Mutant: not the directory's, after an error.)
CleansAfterSuccess(c) ==
    /\ temp' = [temp EXCEPT ![c] = IF call[c].raised = "error" THEN @ ELSE None]
    /\ Goes(c, "unlock")

Cleans(c) ==
    /\ temp' = [temp EXCEPT ![c] = None]
    /\ Goes(c, "unlock")

\* What uv was sent has to be reported, whatever came of it.
Reports(c) == IF call[c].handled # None THEN call[c].handled ELSE call[c].raised

Unwinds(c) ==
    /\ \/ At(c, "clean") /\ Cleans(c) /\ UNCHANGED lock
       \/ At(c, "unlock") /\ lock' = None /\ Raises(c, Reports(c), "restore") /\ UNCHANGED temp
       \/ /\ At(c, "restore")
          /\ Ends(c, IF call[c].raised = None THEN "done" ELSE call[c].raised)
          /\ UNCHANGED <<lock, temp>>
    /\ UNCHANGED <<latest, installed, uv, pend, left, seen>>

----------------------------------------------------------------------------
(* Signals.                                                                *)

\* Where a call goes on that is interrupted here. The directory is removed by
\* its with statement only from within.
Interrupted == [lock |-> "restore", locked |-> "unlock", made |-> "unlock", download |-> "clean",
                install |-> "clean", clean |-> "unlock", unlock |-> "unlock", restore |-> "ended"]

Handling(c) == call[c].pc \in DOMAIN Interrupted \cup {"blocked", "wait", "proof"}

Signal(c) ==
    /\ Handling(c) /\ left.signals > 0
    /\ \E s \in Signals : pend' = [pend EXCEPT ![c] = @ \cup {s}]
    /\ left' = [left EXCEPT !.signals = @ - 1]
    /\ UNCHANGED <<latest, installed, lock, call, temp, uv, seen>>

\* cancel: with a child the signal is sent on, else it is raised.
Interrupts(c, s) ==
    LET to == Interrupted[call[c].pc]
    IN  call' = [call EXCEPT ![c].raised = s, ![c].pc = to, ![c].end = IF to = "ended" THEN s ELSE @]

\* (Mutant: it is only remembered.)
KeepsQuiet(c, s) ==
    call' = [call EXCEPT ![c].handled = IF @ = None THEN s ELSE @] /\ UNCHANGED uv

SendsOn(c, s) ==
    /\ call' = [call EXCEPT ![c].handled = IF @ = None THEN s ELSE @]
    /\ uv' = [uv EXCEPT ![c].told = TRUE]

\* (Mutant: it is raised while the child runs.)
CancelRaises(c, s) ==
    IF call[c].pc \in DOMAIN Interrupted THEN Interrupts(c, s) /\ UNCHANGED uv
    ELSE Raises(c, s, "clean") /\ UNCHANGED uv

Cancel(c, s) ==
    IF uv[c].state = None THEN Interrupts(c, s) /\ UNCHANGED uv ELSE SendsOn(c, s)

Notices(c) ==
    /\ Handling(c) /\ call[c].pc # "blocked"
    /\ \E s \in pend[c] :
         /\ pend' = [pend EXCEPT ![c] = @ \ {s}]
         /\ Cancel(c, s)
         /\ seen' = [seen EXCEPT ![c].hurt = @ \/ (uv[c].state = None /\ call[c].pc \in {"made", "clean"})]
    /\ UNCHANGED <<latest, installed, lock, temp, left>>

\* A call that is killed loses its lock, which its child has not inherited; so
\* does one that a signal reaches before the handlers are there.
Killed(c) ==
    /\ call[c].pc \notin {"start", "ended"} /\ left.kills > 0
    /\ left' = [left EXCEPT !.kills = @ - 1]
    /\ Ends(c, "killed")
    /\ lock' = IF lock = c THEN None ELSE lock
    /\ pend' = [pend EXCEPT ![c] = {}]
    /\ UNCHANGED <<latest, installed, temp, uv, seen>>

----------------------------------------------------------------------------
(* uv, and the releases.                                                   *)

Installs(c) ==
    /\ uv[c].state = "running" /\ temp[c] = "wheel"
    /\ installed' = call[c].release
    /\ uv' = [uv EXCEPT ![c].state = "installed"]
    /\ UNCHANGED <<latest, lock, call, temp, pend, left, seen>>

UvExits(c) ==
    /\ \/ uv[c].state = "running" /\ uv' = [uv EXCEPT ![c].state = "failed"]
       \/ uv[c].state = "installed" /\ \E end \in {"succeeded", "failed"} : uv' = [uv EXCEPT ![c].state = end]
    /\ UNCHANGED <<latest, installed, lock, call, temp, pend, left, seen>>

Publishes ==
    /\ \E v \in left.publish :
         latest' = v /\ left' = [left EXCEPT !.publish = @ \ {v}]
    /\ seen' = [c \in Calls |-> [seen[c] EXCEPT !.fresh = FALSE]]
    /\ UNCHANGED <<installed, lock, call, temp, uv, pend>>

----------------------------------------------------------------------------

Step(c) ==
    \/ Discovers(c) \/ Owns(c) \/ Locks(c) \/ Makes(c) \/ Enters(c) \/ Downloads(c)
    \/ Blocks(c) \/ Popens(c) \/ Waits(c) \/ Proves(c) \/ Unwinds(c) \/ Notices(c)

Next ==
    \/ Publishes
    \/ \E c \in Calls : Step(c) \/ Signal(c) \/ Killed(c) \/ Installs(c) \/ UvExits(c)

Spec == Init /\ [][Next]_vars

\* uv is sure to end only when it has been told to.
FairSpec ==
    Spec /\ \A c \in Calls : WF_vars(Step(c)) /\ WF_vars(UvExits(c) /\ uv[c].told)

----------------------------------------------------------------------------
(* Properties.                                                             *)

Running(c) == uv[c].state \in {"running", "installed"}

\* A uv that runs has the lock and its wheel behind it, unless its call was
\* killed; so two can run at once only then.
OneInstaller ==
    \A c \in Calls :
        Running(c) /\ call[c].end # "killed" => lock = c /\ temp[c] = "wheel" /\ call[c].pc = "wait"

\* Only a call that was killed, or interrupted while it made or removed its
\* directory, leaves it behind; none leaves the lock.
DirectoryRemoved ==
    \A c \in Calls :
        call[c].pc = "ended" =>
            /\ lock # c
            /\ temp[c] = None \/ seen[c].hurt \/ call[c].end = "killed"

\* The order of SemVer, by a key that is compared from left to right.
Key(v, i) ==
    IF i = 0 THEN <<v.core, 0>>
    ELSE IF v.pre = <<>> THEN <<3, 0>>
    ELSE IF i > Len(v.pre) THEN <<0, 0>>
    ELSE IF v.pre[i].num THEN <<1, v.pre[i].val>> ELSE <<2, v.pre[i].val>>

KeyAbove(k, l) == k[1] > l[1] \/ (k[1] = l[1] /\ k[2] > l[2])

Above(v, w) ==
    \E i \in 0..(Len(v.pre) + 1) :
        KeyAbove(Key(v, i), Key(w, i)) /\ \A j \in 0..(i - 1) : Key(v, j) = Key(w, j)

\* What is installed never gets older, unless since the call looked another
\* release has become the latest or another version was installed, or a version
\* cannot be compared: the lock does not cover the look.
UpdatesForward ==
    [][installed' # installed =>
          \/ Above(installed', installed)
          \/ installed'.odd \/ installed.odd
          \/ \E c \in Calls : /\ uv'[c].state # uv[c].state
                              /\ ~seen[c].fresh \/ installed # call[c].from]_vars

\* A signal ends the call, wherever it is.
SignalEnds == \A c \in Calls : pend[c] # {} ~> call[c].pc = "ended"
=============================================================================
