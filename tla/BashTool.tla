------------------------------- MODULE BashTool -------------------------------
(***************************************************************************)
(* One call of the bash tool (oh_my_coding_agent/_tools/bash.py and         *)
(* output.py): the command's process group, the tasks that turn its pipes,  *)
(* its exit, the abort signal and the timeout into events, the task that    *)
(* consumes them, the throttled updates and the spill file that takes the   *)
(* output that a result is too small for.                                  *)
(*                                                                         *)
(* A step runs from one await to the next. (That the queue gives several    *)
(* events without a pause is not used.) Output is counted in chunks; the    *)
(* way of killing is that of POSIX.                                        *)
(***************************************************************************)
EXTENDS Naturals, Sequences

CONSTANTS
    Limit,   \* chunks that a result has room for (2000 lines, 50 KB)
    Commands \* how the command behaves, and how often each outside event happens

ASSUME BashToolAssumption ==
    /\ Limit \in Nat
    /\ \A c \in Commands :
         /\ c.timeout \in BOOLEAN /\ c.kids \in {"none", "group", "daemon"}
         /\ c.chunks \in Nat /\ c.faults \in Nat /\ c.cancels \in Nat

VARIABLES
    command, \* the command
    main,    \* the tool's task: where it waits, its undelivered cancel(), and whether
             \* one has come "late", when nothing expects one (history)
    aborted, \* the AbortSignal
    proc,    \* the process group: the shell, and what it left in the background
    pipe,    \* per stream: chunks not read yet
    pump,    \* the tasks that feed the queue of events
    events,  \* that queue
    col,     \* the locals of _collect_bash_result
    acc,     \* the OutputAccumulator, and its spill file
    th,      \* the _UpdateThrottle
    disk,    \* the file system of the spill file
    left,    \* what is left of the bounds
    wrote    \* history: chunks written

vars == <<command, main, aborted, proc, pipe, pump, events, col, acc, th, disk, left, wrote>>

Streams == {"out", "err"}

\* kids: a process in the background that holds the pipes. A "daemon" has left
\* the process group.
Init ==
    /\ command \in Commands
    /\ main = [pc |-> "called", hit |-> FALSE, result |-> "none", late |-> FALSE]
    /\ aborted = FALSE
    /\ proc = [shell |-> "none", kids |-> FALSE, killed |-> FALSE]
    /\ pipe = [s \in Streams |-> 0]
    /\ pump = [t \in Streams \cup {"exit", "abort", "timeout"} |-> "none"]
    /\ events = <<>>
    /\ col = [eofs |-> 2, exited |-> FALSE, timedOut |-> FALSE, faults |-> {},
              interrupted |-> FALSE]
    /\ acc = [chunks |-> 0, extra |-> 0, saved |-> 0, path |-> FALSE, handle |-> FALSE,
              file |-> FALSE, bad |-> "none"]
    /\ th = [open |-> TRUE, dirty |-> FALSE, timer |-> FALSE, due |-> TRUE, exposed |-> FALSE]
    /\ disk = "ok"
    /\ left = [chunks |-> command.chunks, faults |-> command.faults, cancels |-> command.cancels]
    /\ wrote = 0

Spend(what) == left[what] > 0 /\ left' = [left EXCEPT ![what] = @ - 1]

----------------------------------------------------------------------------
(* The process group, the pipes and the disk.                              *)

Writing == proc.shell = "running" \/ proc.kids
Closed == proc.shell = "exited" /\ ~proc.kids

Writes(s) ==
    /\ Writing /\ main.pc # "ended" /\ Spend("chunks")
    /\ pipe' = [pipe EXCEPT ![s] = @ + 1]
    /\ wrote' = wrote + 1
    /\ UNCHANGED <<command, main, aborted, proc, pump, events, col, acc, th, disk>>

ShellExits ==
    /\ proc.shell = "running" /\ main.pc # "ended"
    /\ proc' = [proc EXCEPT !.shell = "exited"]
    /\ UNCHANGED <<command, main, aborted, pipe, pump, events, col, acc, th, disk, left, wrote>>

KidsExit ==
    /\ proc.kids /\ main.pc # "ended"
    /\ proc' = [proc EXCEPT !.kids = FALSE]
    /\ UNCHANGED <<command, main, aborted, pipe, pump, events, col, acc, th, disk, left, wrote>>

\* No space, no permission to create, or an error that is not recognized.
DiskFails ==
    /\ disk = "ok" /\ main.pc # "ended" /\ Spend("faults")
    /\ disk' \in {"full", "denied", "broken"}
    /\ UNCHANGED <<command, main, aborted, proc, pipe, pump, events, col, acc, th, wrote>>

----------------------------------------------------------------------------
(* OutputAccumulator. bad is the _OutputFault that an operation raises.    *)

Over(a) == a.chunks + a.extra > Limit

Kind(d) == IF d = "broken" THEN "odd" ELSE "known"

\* _ensure_temp_file and _write_current: all that has been read is in the file.
Spill(a) ==
    IF ~a.path /\ disk = "denied" THEN [a EXCEPT !.bad = "known"]
    ELSE LET b == [a EXCEPT !.path = TRUE, !.handle = TRUE, !.file = TRUE]
         IN  IF disk \in {"full", "broken"} THEN [b EXCEPT !.bad = Kind(disk)]
             ELSE [b EXCEPT !.saved = a.chunks]

\* append (Mutant: the chunks read before the file was opened stay behind.)
AddUnsaved(a) ==
    LET b == [a EXCEPT !.chunks = @ + 1]
    IN  IF b.path \/ Over(b) THEN [Spill(b) EXCEPT !.saved = a.saved + 1] ELSE b

Add(a) ==
    LET b == [a EXCEPT !.chunks = @ + 1]
    IN  IF b.path \/ Over(b) THEN Spill(b) ELSE b

\* finish: output that ends within a character gets longer by its replacement.
FinishOutput(a, extra, persist) ==
    LET b == [a EXCEPT !.extra = extra]
    IN  IF persist /\ Over(b) /\ ~b.path THEN Spill(b) ELSE b

\* close_temp_file and abandon_temp_file
CloseSpill(a) ==
    IF a.handle /\ disk = "broken" THEN [a EXCEPT !.handle = FALSE, !.bad = "odd"]
    ELSE [a EXCEPT !.handle = FALSE]

AbandonSpill(a) == [a EXCEPT !.path = FALSE, !.handle = FALSE, !.file = FALSE]

----------------------------------------------------------------------------
(* _UpdateThrottle, on records [acc, th]. As long as output is appended an  *)
(* update need not create the spill file: what is too long has one already. *)
(* After finish() it may have to; nobody reads its fault by then.          *)

CloseAdmission(t) == [t EXCEPT !.open = FALSE, !.timer = FALSE]

Emit(s) ==
    LET spills == Over(s.acc) /\ ~s.acc.path
        t == [s.th EXCEPT !.timer = FALSE, !.dirty = FALSE, !.due = FALSE]
    IN  IF ~s.th.open \/ aborted \/ ~s.th.dirty THEN [s EXCEPT !.th.timer = FALSE]
        ELSE [s EXCEPT !.acc = IF spills THEN Spill(@) ELSE @,
                       !.th = IF spills /\ disk # "ok" THEN CloseAdmission(t)
                              ELSE [t EXCEPT !.exposed = @ \/ Over(s.acc)]]

Mark(s) ==
    IF ~s.th.open \/ aborted THEN s
    ELSE IF s.th.due THEN Emit([s EXCEPT !.th.dirty = TRUE])
    ELSE [s EXCEPT !.th.dirty = TRUE, !.th.timer = TRUE]

Flush(s) == IF s.th.dirty THEN Emit(s) ELSE [s EXCEPT !.th.timer = FALSE]

ThrottleFires ==
    /\ th.timer
    /\ LET t == Emit([acc |-> acc, th |-> th]) IN acc' = t.acc /\ th' = t.th
    /\ UNCHANGED <<command, main, aborted, proc, pipe, pump, events, col, disk, left, wrote>>

\* 0.1 s after the last update the next one need not wait.
IntervalPasses ==
    /\ ~th.due /\ ~th.timer /\ th.open /\ main.pc = "collect"
    /\ th' = [th EXCEPT !.due = TRUE]
    /\ UNCHANGED <<command, main, aborted, proc, pipe, pump, events, col, acc, disk, left, wrote>>

----------------------------------------------------------------------------
(* The tasks that feed the queue.                                          *)

Feeds(t, kinds, st) ==
    /\ events' = events \o kinds
    /\ pump' = [pump EXCEPT ![t] = st]

\* _pump_stream
PumpReads(s) ==
    /\ pump[s] = "on" /\ pipe[s] > 0
    /\ pipe' = [pipe EXCEPT ![s] = @ - 1]
    /\ Feeds(s, <<"data">>, "on")
    /\ UNCHANGED <<command, main, aborted, proc, col, acc, th, disk, left, wrote>>

PumpEnds(s) ==
    /\ pump[s] = "on"
    /\ \/ pipe[s] = 0 /\ Closed /\ Feeds(s, <<"eof">>, "done") /\ UNCHANGED left
       \/ Spend("faults") /\ Feeds(s, <<"pipe_error", "eof">>, "failed")
    /\ UNCHANGED <<command, main, aborted, proc, pipe, col, acc, th, disk, wrote>>

\* _watch_exit, _watch_abort and _watch_timeout
Occurred(t) ==
    CASE t = "exit" -> proc.shell = "exited"
      [] t = "abort" -> aborted
      [] t = "timeout" -> TRUE

Watches(t) ==
    /\ pump[t] = "on" /\ Occurred(t)
    /\ Feeds(t, <<t>>, "done")
    /\ UNCHANGED <<command, main, aborted, proc, pipe, col, acc, th, disk, left, wrote>>

----------------------------------------------------------------------------
(* From outside: the abort signal, and the cancel() of the task.           *)

Abort ==
    /\ ~aborted /\ main.pc # "ended"
    /\ aborted' = TRUE
    /\ UNCHANGED <<command, main, proc, pipe, pump, events, col, acc, th, disk, left, wrote>>

Cancel ==
    /\ main.pc \notin {"called", "ended"} /\ Spend("cancels")
    /\ main' = [main EXCEPT !.hit = TRUE]
    /\ UNCHANGED <<command, aborted, proc, pipe, pump, events, col, acc, th, disk, wrote>>

----------------------------------------------------------------------------
(* execute_bash.                                                           *)

Goes(pc) == main' = [main EXCEPT !.pc = pc]
Ends(result) == main' = [main EXCEPT !.pc = "ended", !.hit = FALSE, !.result = result]

Called ==
    /\ main.pc = "called"
    /\ IF aborted
         THEN Ends("cancelled")
         ELSE Goes("checking")
    /\ UNCHANGED <<command, aborted, proc, pipe, pump, events, col, acc, th, disk, left, wrote>>

\* The three yields; between them the command, the Workspace and the shell are
\* looked at, and each may refuse the call.
Checks ==
    /\ main.pc = "checking"
    /\ IF main.hit \/ aborted
         THEN Ends("cancelled")
         ELSE Goes("checking") \/ Ends("refused") \/ Goes("spawning")
    /\ UNCHANGED <<command, aborted, proc, pipe, pump, events, col, acc, th, disk, left, wrote>>

\* _spawn_process: create_subprocess_exec starts the shell and then connects
\* its pipes.
Spawns ==
    /\ main.pc = "spawning" /\ proc.shell = "none" /\ ~main.hit
    /\ \/ /\ proc' = [proc EXCEPT !.shell = "running", !.kids = command.kids # "none"]
          /\ UNCHANGED main
       \/ /\ Ends(IF aborted THEN "cancelled" ELSE "refused")
          /\ UNCHANGED proc
    /\ UNCHANGED <<command, aborted, pipe, pump, events, col, acc, th, disk, left, wrote>>

\* A cancel meanwhile makes asyncio kill the shell, but not its group.
SpawnCancelled ==
    /\ main.pc = "spawning" /\ main.hit
    /\ proc' = [proc EXCEPT !.shell = IF @ = "running" THEN "exited" ELSE @]
    /\ Ends("unspawned")
    /\ UNCHANGED <<command, aborted, pipe, pump, events, col, acc, th, disk, left, wrote>>

\* The except clause: the group is killed, the pipes are read to their ends and
\* the process is awaited. A pipe that a pump still reads, or has failed to
\* read, cannot be read: that is raised instead.
Handled == proc.shell = "exited" /\ (pump["out"] = "none" => Closed)

Raises(result) ==
    LET unreadable == \E s \in Streams : pump[s] \in {"on", "failed"}
    IN  /\ proc' = [proc EXCEPT !.killed = TRUE]
        /\ main' = [main EXCEPT
             !.hit = FALSE,
             !.late = main.pc = "drain" /\ main.hit,
             !.pc = IF unreadable \/ Handled THEN "ended" ELSE "handler",
             !.result = IF unreadable THEN "error" ELSE result]

Spawned ==
    /\ main.pc = "spawning" /\ proc.shell # "none" /\ ~main.hit
    /\ IF aborted THEN Raises("cancelled") ELSE Goes("spawned") /\ UNCHANGED proc
    /\ UNCHANGED <<command, aborted, pipe, pump, events, col, acc, th, disk, left, wrote>>

HandlerEnds ==
    /\ main.pc = "handler"
    /\ \/ main.hit /\ main' = [main EXCEPT !.pc = "ended", !.hit = FALSE, !.late = TRUE]
       \/ ~main.hit /\ Handled /\ Goes("ended")
    /\ UNCHANGED <<command, aborted, proc, pipe, pump, events, col, acc, th, disk, left, wrote>>

\* _after_spawn, and the start of _collect_bash_result.
Collects ==
    /\ main.pc = "spawned"
    /\ IF main.hit \/ aborted
         THEN Raises("cancelled") /\ UNCHANGED pump
         ELSE /\ Goes("collect") /\ UNCHANGED proc
              /\ pump' = [t \in DOMAIN pump |->
                            IF t = "timeout" /\ ~command.timeout THEN "none" ELSE "on"]
    /\ UNCHANGED <<command, aborted, pipe, events, col, acc, th, disk, left, wrote>>

----------------------------------------------------------------------------
(* _collect_bash_result: events, on records [col, acc, th, kill].          *)

NoteFault(s, kind) ==
    [s EXCEPT !.col.faults = @ \cup {kind}, !.th = CloseAdmission(@), !.kill = TRUE]

Accepting(s) == s.col.faults = {}

Data(s) ==
    LET a == Add(s.acc)
    IN  IF ~Accepting(s) THEN s
        ELSE IF a.bad # "none" THEN NoteFault([s EXCEPT !.acc = [a EXCEPT !.bad = "none"]], a.bad)
        ELSE Mark([s EXCEPT !.acc = a])

Complete(s) == s.col.eofs = 0 /\ s.col.exited

\* consume. (Mutant: an abort is left to whoever looks at the signal.)
ConsumeNoAbort(s, e) ==
    CASE e = "data" -> Data(s)
      [] e = "pipe_error" -> NoteFault(s, "odd")
      [] e = "eof" -> [s EXCEPT !.col.eofs = @ - 1]
      [] e = "exit" -> [s EXCEPT !.col.exited = TRUE]
      [] e = "timeout" -> IF s.col.exited THEN s ELSE [s EXCEPT !.col.timedOut = TRUE, !.kill = TRUE]
      [] e = "abort" -> s

Consume(s, e) ==
    CASE e = "data" -> Data(s)
      [] e = "pipe_error" -> NoteFault(s, "odd")
      [] e = "eof" -> [s EXCEPT !.col.eofs = @ - 1]
      [] e = "exit" -> [s EXCEPT !.col.exited = TRUE]
      [] e = "timeout" -> IF s.col.exited THEN s ELSE [s EXCEPT !.col.timedOut = TRUE, !.kill = TRUE]
      [] e = "abort" -> [s EXCEPT !.kill = TRUE]

\* The two loops take one event after the other, until both pipes have ended
\* and the shell has.
Takes(s) ==
    /\ events' = Tail(events)
    /\ col' = s.col /\ acc' = s.acc /\ th' = s.th
    /\ proc' = [proc EXCEPT !.killed = s.kill]

Locals == [col |-> col, acc |-> acc, th |-> th, kill |-> proc.killed]

\* (Mutant: the watchers are left running.)
WatchersKept == UNCHANGED pump

WatchersOff == pump' = [pump EXCEPT !["abort"] = "none", !["timeout"] = "none"]

Collecting ==
    /\ main.pc = "collect" /\ ~main.hit /\ ~Complete(Locals) /\ events # <<>>
    /\ Takes(Consume(Locals, Head(events)))
    /\ UNCHANGED <<command, main, aborted, pipe, pump, disk, left, wrote>>

Collected ==
    /\ main.pc = "collect" /\ ~main.hit /\ Complete(Locals)
    /\ Goes("drain") /\ WatchersOff
    /\ UNCHANGED <<command, aborted, proc, pipe, events, col, acc, th, disk, left, wrote>>

\* A cancel kills the group; what is left of the output is still awaited.
CollectCancelled ==
    /\ main.pc = "collect" /\ main.hit
    /\ main' = [main EXCEPT !.pc = "drain", !.hit = FALSE]
    /\ col' = [col EXCEPT !.interrupted = TRUE]
    /\ proc' = [proc EXCEPT !.killed = TRUE]
    /\ WatchersOff
    /\ UNCHANGED <<command, aborted, pipe, events, acc, th, disk, left, wrote>>

Drains ==
    /\ main.pc = "drain" /\ ~main.hit /\ ~Complete(Locals) /\ events # <<>>
    /\ IF Head(events) \in {"timeout", "abort"}
         THEN events' = Tail(events) /\ UNCHANGED <<proc, col, acc, th>>
         ELSE Takes(Consume(Locals, Head(events)))
    /\ UNCHANGED <<command, main, aborted, pipe, pump, disk, left, wrote>>

\* Nothing expects a cancel here, be it the first (which then hits one of the two
\* gathers) or another: the except clause of execute_bash runs, and neither the
\* spill file nor the timer nor the pumps are seen to.
DrainCancelled ==
    /\ main.pc = "drain" /\ main.hit
    /\ Raises("cancelled")
    /\ UNCHANGED <<command, aborted, pipe, pump, events, col, acc, th, disk, left, wrote>>

Stopped == col.interrupted \/ aborted

\* Of output that a cancel or a fault has cut short the file is kept only if an
\* update has named it, and the call was stopped. (Mutant: always then.)
RetainAll == th.exposed

Retain == Stopped /\ th.exposed

Failed(extra) ==
    LET a == FinishOutput(acc, extra, FALSE)
        b == IF Retain THEN CloseSpill(a) ELSE AbandonSpill(a)
    IN  /\ th' = CloseAdmission(th)
        /\ acc' = [b EXCEPT !.bad = "none"]
        /\ IF b.bad # "none" THEN Raises("error")
           ELSE IF Stopped THEN Raises("cancelled")
           ELSE IF "odd" \in col.faults THEN Raises("error")
           ELSE Ends("infra") /\ UNCHANGED proc

\* The result is made. The signal need not be looked at again: nothing is
\* awaited from here on. A fault of finish() leaves the throttle as it is.
Succeeded(extra) ==
    LET a == FinishOutput(acc, extra, TRUE)
        s == [acc |-> a, th |-> th]
        t == Flush(IF extra > 0 THEN Mark(s) ELSE s)
        b == IF a.bad # "none" THEN a ELSE CloseSpill(t.acc)
    IN  /\ th' = IF a.bad # "none" THEN th ELSE t.th
        /\ acc' = IF b.bad # "none" THEN AbandonSpill(b) ELSE b
        /\ CASE b.bad = "odd" -> Raises("error")
             [] b.bad = "known" -> Ends("infra") /\ UNCHANGED proc
             [] OTHER -> /\ Ends(IF col.timedOut THEN "timed_out" ELSE "completed")
                         /\ UNCHANGED proc

Finishes ==
    /\ main.pc = "drain" /\ ~main.hit /\ Complete(Locals)
    /\ \E extra \in (IF acc.chunks > 0 THEN {0, 1} ELSE {0}) :
         IF Stopped \/ col.faults # {} THEN Failed(extra) ELSE Succeeded(extra)
    /\ UNCHANGED <<command, aborted, pipe, pump, events, col, disk, left, wrote>>

----------------------------------------------------------------------------

Task ==
    \/ Called \/ Checks \/ Spawns \/ SpawnCancelled \/ Spawned \/ Collects \/ HandlerEnds
    \/ Collecting \/ Collected \/ CollectCancelled \/ Drains \/ DrainCancelled \/ Finishes

Pumps == \/ \E s \in Streams : PumpReads(s) \/ PumpEnds(s)
         \/ \E t \in {"exit", "abort", "timeout"} : Watches(t)

Outside == \/ \E s \in Streams : Writes(s)
           \/ ShellExits \/ KidsExit \/ DiskFails \/ Abort \/ Cancel \/ ThrottleFires \/ IntervalPasses

Next == Task \/ Pumps \/ Outside

Spec == Init /\ [][Next]_vars

\* The event loop runs what can run; of processes only what has been killed,
\* and is still in the group, is sure to end.
FairSpec ==
    /\ Spec
    /\ WF_vars(Task)
    /\ \A s \in Streams : WF_vars(PumpReads(s)) /\ WF_vars(PumpEnds(s))
    /\ \A t \in {"exit", "abort"} : WF_vars(Watches(t))
    /\ WF_vars(ShellExits /\ proc.killed)
    /\ WF_vars(KidsExit /\ proc.killed /\ command.kids = "group")

----------------------------------------------------------------------------
(* Properties.                                                             *)

\* A result holds, or names a file that holds, everything the command has
\* written: what its background processes wrote after the shell's exit, what was
\* read before the file was opened, what a killed command wrote last. The file
\* is there exactly if the result names it, or if an update had named it before
\* the call was stopped; and it is closed. Two exceptions. A late cancel leaves
\* the file, open: one that comes once the loop for events is over, first or not,
\* while watchers, pumps and the rest of the output are awaited (bash.py:511 to
\* 517), or one that comes while the except clause deals with a failure
\* (bash.py:398). And if finish() is the first to need the file and cannot write
\* it, the update still to come creates one.
Unwritten == acc.bad # "none" /\ acc.chunks <= Limit
Answered == main.pc = "ended" /\ main.result \in {"completed", "timed_out"}
OutputKept ==
    /\ Answered => acc.chunks = wrote /\ (acc.file => acc.saved = acc.chunks)
    /\ main.pc = "ended" /\ ~main.late /\ ~Unwritten =>
         /\ acc.file <=> (Answered /\ Over(acc)) \/ (Stopped /\ th.exposed)
         /\ ~acc.handle

\* A call that raises after its shell has been started has killed the group, and
\* no call leaves its shell, a task or a timer behind. The second part has the
\* exceptions of OutputKept, for a late cancel and for the timer. The first is
\* not about a call that is cancelled while asyncio starts the shell
\* ("unspawned"): asyncio kills the shell alone, and what that has put into the
\* background goes on.
NothingLeft ==
    main.pc = "ended" /\ proc.shell # "none" =>
        /\ main.result \in {"cancelled", "error"} => proc.killed
        /\ ~main.late =>
             /\ proc.shell = "exited"
             /\ \A t \in DOMAIN pump : pump[t] # "on"
             /\ ~th.timer \/ Unwritten

\* A call that is aborted, cancelled or timed out ends, wherever it is, unless
\* a process that has left the group holds its pipes.
StopEnds ==
    (aborted \/ main.hit \/ col.timedOut) /\ command.kids # "daemon" ~> main.pc = "ended"
=============================================================================
