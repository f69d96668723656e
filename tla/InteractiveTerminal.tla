-------------------------- MODULE InteractiveTerminal --------------------------
(***************************************************************************)
(* _InteractiveTerminalAdapter of oh_my_coding_agent/_terminal.py: the      *)
(* reader callback that turns keys into lines, the loop that acts on them,  *)
(* the modal dialogues, the prompt, command and update-check tasks beside   *)
(* it, and the signals. The AgentSession is what the adapter sees of it     *)
(* (module AgentSession has its inside): calls that start, are refused, run *)
(* and end, and isIdle.                                                     *)
(*                                                                         *)
(* A step of the loop runs from one await to the next; callbacks and other  *)
(* tasks run in between. Painting is left out.                              *)
(***************************************************************************)
EXTENDS CommandInput, FiniteSets

CONSTANTS
    MaxPrompts,  \* bound: calls of AgentSession.prompt
    Instances    \* bounds: what is typed, and how often each outside event happens

ASSUME InteractiveTerminalAssumption ==
    /\ MaxPrompts \in Nat
    /\ Instances \subseteq [keys : SUBSET Seq(STRING), reads : Nat, signals : Nat, faults : Nat,
                            check : BOOLEAN]

VARIABLES
    ed,       \* the line editor
    ui,       \* the adapter's attributes
    lines,    \* the queue of what the loop has to act on
    loop,     \* where _run_editor is
    prompts,  \* the tasks of AgentSession.prompt
    op,       \* the task of the reload or compaction command
    shut,     \* _Shutdown: the signal to end on, and the interrupt event
    notice,   \* the update check: its text, and whether AgentSettled was rendered
    left      \* what is left of the bounds

terminalVars == <<ed, ui, lines, loop, prompts, op, shut, notice, left>>

NoPrompt == 0
None == "none"

\* In the loop, task is the prompt awaited, status the one to exit with.
TerminalInit ==
    /\ left \in Instances
    /\ ed = EmptyEditor
    /\ ui = [closed |-> FALSE, pending |-> FALSE, enqueue |-> FALSE, command |-> FALSE,
             failed |-> FALSE, reader |-> TRUE, modal |-> None, typed |-> <<>>,
             prompt |-> NoPrompt]
    /\ lines = <<>>
    /\ loop = [pc |-> "wait", task |-> NoPrompt, status |-> None]
    /\ prompts = [p \in 1 .. MaxPrompts |-> [st |-> "new", result |-> None, aborted |-> FALSE]]
    /\ op = [is |-> None, st |-> None, result |-> None, aborted |-> FALSE]
    /\ shut = [signal |-> FALSE, interrupt |-> FALSE]
    /\ notice = [st |-> "checking", settled |-> FALSE]

Spend(what) == left[what] > 0 /\ left' = [left EXCEPT ![what] = @ - 1]

----------------------------------------------------------------------------
(* What the adapter sees of the session.                                   *)

Prompting == \E p \in DOMAIN prompts : prompts[p].st = "running"
Operating == op.st \in {"waiting", "running"}
SessionIdle == ~Prompting /\ ~Operating

Active(u) == u.command \/ u.pending \/ u.enqueue \/ ~SessionIdle
IdleEditor(u) == ~Active(u) /\ u.prompt = NoPrompt

\* A task that calls session.abort(), or the abort that a command makes.
Abort(ps) == [p \in DOMAIN ps |-> [ps[p] EXCEPT !.aborted = @ \/ ps[p].st \in {"called", "running"}]]

----------------------------------------------------------------------------
(* _deliver: what has been typed becomes work for the loop. The state that  *)
(* it changes is a record [ed, ui, lines, abort].                          *)

Work(is, text) == [is |-> is, text |-> text]

Put(s, is, text) == [s EXCEPT !.lines = Append(@, Work(is, text))]

\* _begin_command
BeginCommand(s, c, is) ==
    Put([s EXCEPT !.ed = AcceptCommand(@, c.id), !.ui.command = TRUE], is, <<>>)

\* _admit_policy_command and _enter_modal
AdmitPolicyCommand(s, c, kind) ==
    LET t == [s EXCEPT !.ed = AcceptCommand(@, c.id)]
    IN  IF Active(s.ui) THEN t
        ELSE [t EXCEPT !.ui = [@ EXCEPT !.command = TRUE, !.modal = kind, !.typed = <<>>]]

Quit(s, c) ==
    Put([s EXCEPT !.ed = AcceptCommand(@, c.id), !.ui.closed = TRUE], "quit", <<>>)

Intent(s, alt) == IF ~Active(s.ui) THEN "prompt" ELSE IF alt THEN "followUp" ELSE "steering"

Submission(s, c) ==
    LET intent == Intent(s, c.alt)
    IN  IF intent = "prompt" THEN Put([s EXCEPT !.ui.pending = TRUE], intent, c.text)
        ELSE IF s.ui.enqueue THEN s
        ELSE Put([s EXCEPT !.ui.enqueue = TRUE, !.ed.frozen = TRUE], intent, c.text)

DeliverLine(s, c) ==
    IF s.ui.command THEN [s EXCEPT !.ed = RestoreDraft(@)]
    ELSE CASE c.text = <<"/resources">>   -> Put(s, "resources", <<>>)
           [] c.text = <<"/reload">>      -> BeginCommand(s, c, "reload")
           [] c.text = <<"/compact">>     -> BeginCommand(s, c, "compact")
           [] c.text = <<"/clear-queue">> -> BeginCommand(s, c, "clear")
           [] c.text = <<"/trust">>       -> AdmitPolicyCommand(s, c, "trust")
           [] c.text = <<"/settings">>    -> AdmitPolicyCommand(s, c, "settings")
           [] c.text = <<"/quit">>        -> Quit(s, c)
           [] OTHER                       -> Submission(s, c)

\* sigint_aborts_session: not while a compaction command runs.
SigintAborts == ~(op.is = "compact" /\ loop.pc \in {"extra", "join"})

DeliverInterrupt(s) ==
    IF SigintAborts /\ ~IdleEditor(s.ui) THEN [s EXCEPT !.abort = TRUE]
    ELSE Put(s, "interrupt", <<>>)

DeliverEnd(s) == Put([s EXCEPT !.ui.reader = FALSE], "end", <<>>)

Deliver(s, c) ==
    IF s.ui.closed THEN s
    ELSE CASE c.is = "line" -> DeliverLine(s, c)
           [] c.is = "interrupt" -> DeliverInterrupt(s)
           [] c.is = "end" -> DeliverEnd(s)

----------------------------------------------------------------------------
(* The callbacks of the event loop.                                        *)

\* _feed_modal: keys go to the dialogue while there is one. Alt-return is one
\* of the escape sequences, which it drops.
ModalKey(s, key) ==
    CASE s.stop \/ key = "alt" -> s
      [] ~s.stop /\ key = "enter" ->
           [s EXCEPT !.typed = <<>>, !.lines = Append(@, Work("choice", s.typed))]
      [] ~s.stop /\ key \in {"^C", "esc"} ->
           [s EXCEPT !.lines = Append(@, Work("cancel", <<>>)), !.stop = TRUE]
      [] ~s.stop /\ key = "^D" ->
           [s EXCEPT !.lines = Append(@, Work("end", <<>>)), !.stop = TRUE]
      [] OTHER -> [s EXCEPT !.typed = Append(@, key)]

FeedModal(keys) ==
    LET s == FoldLeft(ModalKey, [typed |-> ui.typed, lines |-> lines, stop |-> FALSE], keys)
    IN  /\ ui' = [ui EXCEPT !.typed = s.typed]
        /\ lines' = s.lines
        /\ UNCHANGED <<ed, prompts>>

FeedEditor(keys) ==
    LET fed == Feed(ed, keys, Active(ui))
        s == FoldLeft(Deliver, [ed |-> fed.ed, ui |-> ui, lines |-> lines, abort |-> FALSE],
                      fed.completed)
    IN  /\ ed' = s.ed /\ ui' = s.ui /\ lines' = s.lines
        /\ prompts' = IF s.abort THEN Abort(prompts) ELSE prompts

\* _input_ready
InputReady ==
    /\ ui.reader /\ loop.pc # "exited" /\ Spend("reads")
    /\ \E keys \in left.keys :
         IF ui.modal # None THEN FeedModal(keys) ELSE FeedEditor(keys)
    /\ UNCHANGED <<loop, op, shut, notice>>

\* _fail_input: nothing is read or shown from now on. A lost terminal that
\* was idle ends like an end of input.
FailInput(hangup) ==
    /\ ~ui.failed
    /\ ui' = [ui EXCEPT !.closed = TRUE, !.reader = FALSE, !.failed = TRUE]
    /\ lines' = Append(lines, Work(IF hangup /\ IdleEditor(ui) /\ ui.modal = None
                                   THEN "end" ELSE "failure", <<>>))
    /\ prompts' = IF ~IdleEditor(ui) /\ ui.modal = None THEN Abort(prompts) ELSE prompts

Hangup ==
    /\ ui.reader /\ loop.pc # "exited" /\ Spend("faults")
    /\ FailInput(TRUE)
    /\ UNCHANGED <<ed, loop, op, shut, notice>>

\* _render: the output cannot be written, as a prompt announces an event.
OutputFails ==
    /\ Prompting /\ loop.pc # "exited" /\ Spend("faults")
    /\ FailInput(FALSE)
    /\ UNCHANGED <<ed, loop, op, shut, notice>>

\* _Shutdown.request
Signal(end) ==
    /\ loop.pc # "exited" /\ Spend("signals")
    /\ IF end \/ shut.signal
         THEN shut' = [shut EXCEPT !.signal = TRUE] /\ prompts' = Abort(prompts)
         ELSE /\ shut' = [shut EXCEPT !.interrupt = TRUE]
              /\ prompts' = IF ~SessionIdle /\ SigintAborts THEN Abort(prompts) ELSE prompts
    /\ UNCHANGED <<ed, ui, lines, loop, op, notice>>

Showing == ~ui.closed /\ ~ui.failed

\* _on_update_notice_ready: the text of the update check is there.
NoticeFate ==
    IF ~Showing THEN "none"
    ELSE IF IdleEditor(ui) \/ (SessionIdle /\ ui.prompt # NoPrompt /\ notice.settled) THEN "shown"
    ELSE IF ui.prompt # NoPrompt THEN "pending"
    ELSE "lost"

NoticeReady ==
    /\ notice.st = "checking" /\ left.check /\ loop.pc # "exited"
    /\ notice' = [notice EXCEPT !.st = NoticeFate]
    /\ UNCHANGED <<ed, ui, lines, loop, prompts, op, shut, left>>

----------------------------------------------------------------------------
(* The tasks beside the loop.                                              *)

PromptBecomes(p, st, result) == prompts' = [prompts EXCEPT ![p].st = st, ![p].result = result]

\* AgentSession.prompt, until its first await.
PromptStarts(p) ==
    /\ prompts[p].st = "called"
    /\ \/ ~SessionIdle /\ PromptBecomes(p, "done", "failed") /\ UNCHANGED left
       \/ SessionIdle /\ PromptBecomes(p, "running", None) /\ UNCHANGED left
       \/ SessionIdle /\ PromptBecomes(p, "done", "value") /\ Spend("faults")
    /\ UNCHANGED <<ed, ui, lines, loop, op, shut, notice>>

\* Its run has been aborted, and the session goes on with a message that was
\* queued: a new run, which has been told nothing.
PromptContinues(p) ==
    /\ prompts[p].st = "running" /\ prompts[p].aborted
    /\ prompts' = [prompts EXCEPT ![p].aborted = FALSE]
    /\ UNCHANGED <<ed, ui, lines, loop, op, shut, notice, left>>

\* Its run is over: AgentSettled is dispatched, unless the call ends before.
PromptEnds(p) ==
    /\ prompts[p].st = "running"
    /\ \/ PromptBecomes(p, "settling", None) /\ UNCHANGED left
       \/ Spend("faults") /\ \E r \in {"ok", "failed"} : PromptBecomes(p, "done", r)
    /\ UNCHANGED <<ed, ui, lines, loop, op, shut, notice>>

\* _render of AgentSettled, with _release_pending_update_notice; a listener
\* or an extension may fail.
PromptSettles(p) ==
    /\ prompts[p].st = "settling"
    /\ \/ PromptBecomes(p, "done", "ok") /\ UNCHANGED left
       \/ Spend("faults") /\ PromptBecomes(p, "done", "failed")
    /\ notice' = IF ui.failed THEN notice
                 ELSE [st |-> IF notice.st # "pending" THEN notice.st
                              ELSE IF Showing THEN "shown" ELSE "none",
                       settled |-> TRUE]
    /\ UNCHANGED <<ed, ui, lines, loop, op, shut>>

\* reloadProjectResources or compact, until the first await. A compaction
\* stops the Agent and waits for the prompt; it is refused while the prompt
\* compacts.
OpStarts ==
    /\ op.st = "called"
    /\ \/ /\ Prompting
          /\ op' = [op EXCEPT !.st = "done", !.result = "busy"]
          /\ UNCHANGED prompts
       \/ /\ Prompting => op.is = "compact"
          /\ op' = [op EXCEPT !.st = IF op.is = "compact" THEN "waiting" ELSE "running"]
          /\ prompts' = IF op.is = "compact" THEN Abort(prompts) ELSE prompts
    /\ UNCHANGED <<ed, ui, lines, loop, shut, notice, left>>

OpProceeds ==
    /\ op.st = "waiting" /\ ~\E p \in DOMAIN prompts : prompts[p].st \in {"running", "settling"}
    /\ op' = [op EXCEPT !.st = "running"]
    /\ UNCHANGED <<ed, ui, lines, loop, prompts, shut, notice, left>>

\* "refused" stands for every end that the command reports and survives.
OpEnds ==
    /\ op.st = "running"
    /\ \/ op' = [op EXCEPT !.st = "done", !.result = IF op.aborted THEN "refused" ELSE "ok"]
          /\ UNCHANGED left
       \/ Spend("faults")
          /\ \E r \in {"refused", "failed"} : op' = [op EXCEPT !.st = "done", !.result = r]
    /\ UNCHANGED <<ed, ui, lines, loop, prompts, shut, notice>>

----------------------------------------------------------------------------
(* _run_editor.                                                            *)

Go(pc, task, status) == loop' = [pc |-> pc, task |-> task, status |-> status]
Exit(status) == Go("exited", NoPrompt, status)
Again == Go("wait", NoPrompt, None)

\* _finish_prompt, and then an exit with this status, or on with the loop.
Finish(status, u) ==
    IF u.prompt # NoPrompt
    THEN Go("drain", u.prompt, status) /\ ui' = [u EXCEPT !.prompt = NoPrompt]
    ELSE (IF status = None THEN Again ELSE Exit(status)) /\ ui' = u

\* _finish_prompt_task: the failure of the input or of the prompt ends it all.
Drained ==
    /\ loop.pc = "drain" /\ prompts[loop.task].st = "done"
    /\ IF ui.failed \/ prompts[loop.task].result # "ok" THEN Exit("failure")
       ELSE IF loop.status # None THEN Exit(loop.status)
       ELSE IF op.is # None THEN Go("extra", NoPrompt, None)
       ELSE Again
    /\ UNCHANGED <<ed, ui, lines, prompts, op, shut, notice, left>>

\* _leave_modal. (Mutant: the command is not over.)
LeaveModalBusy(u) ==
    IF u.modal = None THEN u ELSE [u EXCEPT !.modal = None, !.typed = <<>>]

LeaveModal(u) ==
    IF u.modal = None THEN u ELSE [u EXCEPT !.modal = None, !.typed = <<>>, !.command = FALSE]

Waiting == loop.pc \in {"wait", "extra"} /\ op.st # "called"
PromptDone == ui.prompt # NoPrompt /\ prompts[ui.prompt].st = "done"
OpDone == loop.pc = "extra" /\ op.st = "done"

\* _wait_line_or_control: which of several events it returns. What has just
\* been put into the queue may still be there when another event is returned.
\* (Mutant: a command is not stopped by a signal.)
TerminatedIdle == Waiting /\ loop.pc = "wait" /\ shut.signal

Terminated == Waiting /\ ~OpDone /\ shut.signal
LineSeen == Waiting /\ ~OpDone /\ ~shut.signal /\ lines # <<>>
PromptSeen == Waiting /\ ~OpDone /\ ~shut.signal /\ PromptDone
InterruptSeen == Waiting /\ ~OpDone /\ ~shut.signal /\ ~PromptDone /\ shut.interrupt

\* The next piece of work is of this kind; the loop takes it.
TakesWork(is) == LineSeen /\ Head(lines).is = is /\ lines' = Tail(lines)

OnPromptDone ==
    /\ PromptSeen
    /\ Finish(None, ui)
    /\ UNCHANGED <<ed, lines, prompts, op, shut, notice, left>>

\* An interrupt leaves the dialogue, clears the line, or stops the prompt.
Interrupt ==
    /\ ui' = LeaveModal(ui)
    /\ ed' = IF ui.modal = None /\ IdleEditor(ui) THEN [ed EXCEPT !.text = <<>>] ELSE ed
    /\ prompts' = IF ui.modal = None /\ ~IdleEditor(ui) THEN Abort(prompts) ELSE prompts

OnInterrupt ==
    /\ \/ InterruptSeen /\ shut' = [shut EXCEPT !.interrupt = FALSE] /\ UNCHANGED lines
       \/ (TakesWork("interrupt") \/ TakesWork("cancel")) /\ UNCHANGED shut
    /\ IF loop.pc = "wait" THEN Interrupt ELSE UNCHANGED <<ed, ui, prompts>>
    /\ UNCHANGED <<loop, op, notice, left>>

\* The end of input, and a signal that ends the program: the prompt is awaited.
OnEnd ==
    /\ loop.pc = "wait"
    /\ \/ TakesWork("end") /\ Finish("ok", [LeaveModal(ui) EXCEPT !.closed = TRUE])
       \/ /\ Terminated /\ UNCHANGED lines
          /\ Finish("signal", [LeaveModal(ui) EXCEPT !.closed = TRUE])
    /\ UNCHANGED <<ed, prompts, op, shut, notice, left>>

\* The same, and a failure, during a command: it is awaited first. A
\* compaction is told to stop.
OnEndOfCommand ==
    /\ loop.pc = "extra"
    /\ \/ Terminated /\ Go("join", NoPrompt, "signal") /\ UNCHANGED lines
       \/ (TakesWork("end") \/ TakesWork("quit")) /\ Go("join", NoPrompt, "ok")
       \/ TakesWork("failure") /\ Go("join", NoPrompt, "failure")
    /\ ui' = [ui EXCEPT !.closed = TRUE]
    /\ op' = [op EXCEPT !.aborted = (op.is = "compact" /\ op.st # "done")]
    /\ UNCHANGED <<ed, prompts, shut, notice, left>>

OnFailure ==
    /\ loop.pc = "wait" /\ TakesWork("failure")
    /\ Exit("failure") /\ ui' = [ui EXCEPT !.closed = TRUE]
    /\ UNCHANGED <<ed, prompts, op, shut, notice, left>>

OnQuit ==
    /\ loop.pc = "wait" /\ TakesWork("quit")
    /\ prompts' = IF ui.prompt # NoPrompt THEN Abort(prompts) ELSE prompts
    /\ Exit("ok")
    /\ UNCHANGED <<ed, ui, op, shut, notice, left>>

\* _settle_modal: saving may fail, which is shown; then the dialogue is left.
OnChoice ==
    /\ loop.pc = "wait" /\ TakesWork("choice")
    /\ ui' = IF ui.modal = None THEN ui
             ELSE IF Head(lines).text \in {<<"c">>, <<"n">>} THEN LeaveModal(ui)
             ELSE [ui EXCEPT !.typed = <<>>]
    /\ UNCHANGED <<ed, loop, prompts, op, shut, notice, left>>

\* _show_resources
OnResources ==
    /\ loop.pc = "wait" /\ TakesWork("resources")
    /\ ed' = ClearAfterSuccess(ed)
    /\ UNCHANGED <<ui, loop, prompts, op, shut, notice, left>>

\* _clear_queue awaits the listeners of its QueueUpdate.
OnClear ==
    /\ loop.pc = "wait" /\ TakesWork("clear")
    /\ Go("clear", NoPrompt, None)
    /\ UNCHANGED <<ed, ui, prompts, op, shut, notice, left>>

Cleared ==
    /\ loop.pc = "clear"
    /\ ui' = [ui EXCEPT !.command = FALSE]
    /\ \/ Again /\ UNCHANGED left
       \/ Exit("failure") /\ Spend("faults")
    /\ UNCHANGED <<ed, lines, prompts, op, shut, notice>>

\* _reload_resources and _compact
OnCommand ==
    /\ loop.pc = "wait"
    /\ \E is \in {"reload", "compact"} :
         TakesWork(is) /\ op' = [is |-> is, st |-> "called", result |-> None, aborted |-> FALSE]
    /\ Go("extra", NoPrompt, None)
    /\ UNCHANGED <<ed, ui, prompts, shut, notice, left>>

\* What the command has come to. A line that the wait took in the same moment
\* is dropped with it.
Ignored == {lines} \cup (IF lines # <<>> THEN {Tail(lines)} ELSE {})

CommandEnds ==
    /\ loop.pc \in {"extra", "join"} /\ op.st = "done"
    /\ lines' \in IF loop.pc = "extra" THEN Ignored ELSE {lines}
    /\ op' = [is |-> None, st |-> None, result |-> None, aborted |-> FALSE]
    /\ LET u == [ui EXCEPT !.command = FALSE]
       IN  IF op.result = "failed" \/ loop.status = "failure"
           THEN Exit("failure") /\ ui' = u
           ELSE Finish(loop.status, u)
    /\ UNCHANGED <<ed, prompts, shut, notice, left>>

Unused == {p \in DOMAIN prompts : prompts[p].st = "new"}
NextPrompt == CHOOSE p \in Unused : \A q \in Unused : p <= q

\* _admit_prompt, until its first await.
OnPrompt ==
    /\ loop.pc = "wait" /\ TakesWork("prompt") /\ Unused # {}
    /\ ed' = [ed EXCEPT !.frozen = TRUE]
    /\ notice' = [notice EXCEPT !.settled = FALSE]
    /\ prompts' = [prompts EXCEPT ![NextPrompt].st = "called"]
    /\ ui' = [ui EXCEPT !.prompt = NextPrompt]
    /\ Go("admit", NextPrompt, None)
    /\ UNCHANGED <<op, shut, left>>

\* The rest of it. A text that is refused at once goes back into the editor.
Admitted ==
    /\ loop.pc = "admit" /\ prompts[loop.task].st # "called"
    /\ LET p == prompts[loop.task]
           u == [ui EXCEPT !.pending = FALSE]
       IN  /\ ed' = IF p.result = "value" THEN RestoreDraft(ed) ELSE ClearAfterSuccess(ed)
           /\ notice' = IF p.result = "value" /\ notice.st = "pending"
                        THEN [notice EXCEPT !.st = "lost"] ELSE notice
           /\ IF p.st # "done" THEN ui' = u /\ Again
              ELSE /\ ui' = [u EXCEPT !.prompt = NoPrompt]
                   /\ IF \/ p.result = "failed"
                         \/ p.result = "value" /\ ~SessionIdle
                         \/ p.result = "ok" /\ ui.failed
                      THEN Exit("failure") ELSE Again
    /\ UNCHANGED <<lines, prompts, op, shut, left>>

\* _enqueue_queued: the session refuses a text at once, or awaits the listeners
\* of its QueueUpdate.
OnQueued ==
    /\ loop.pc = "wait" /\ (TakesWork("steering") \/ TakesWork("followUp"))
    /\ \/ /\ ed' = [ed EXCEPT !.frozen = TRUE]
          /\ Go("enqueue", NoPrompt, None) /\ UNCHANGED <<ui, left>>
       \/ /\ ed' = RestoreDraft(ed)
          /\ ui' = [ui EXCEPT !.enqueue = FALSE]
          /\ Spend("faults") /\ UNCHANGED <<loop>>
    /\ UNCHANGED <<prompts, op, shut, notice>>

Queued ==
    /\ loop.pc = "enqueue"
    /\ ui' = [ui EXCEPT !.enqueue = FALSE]
    /\ \/ ed' = ClearAfterSuccess(ed) /\ Again /\ UNCHANGED left
       \/ UNCHANGED ed /\ Exit("failure") /\ Spend("faults")
    /\ UNCHANGED <<lines, prompts, op, shut, notice>>

----------------------------------------------------------------------------

Loop ==
    \/ OnPromptDone \/ OnInterrupt \/ OnEnd \/ OnEndOfCommand \/ OnFailure \/ OnQuit
    \/ OnChoice \/ OnResources \/ OnClear \/ Cleared \/ OnCommand \/ CommandEnds
    \/ OnPrompt \/ Admitted \/ OnQueued \/ Queued \/ Drained

Tasks ==
    \/ OpStarts \/ OpProceeds \/ OpEnds
    \/ \E p \in DOMAIN prompts :
          PromptStarts(p) \/ PromptContinues(p) \/ PromptEnds(p) \/ PromptSettles(p)

Callbacks == InputReady \/ Hangup \/ OutputFails \/ NoticeReady \/ \E end \in BOOLEAN : Signal(end)

TerminalNext == Loop \/ Tasks \/ Callbacks

TerminalSpec == TerminalInit /\ [][TerminalNext]_terminalVars

\* The event loop runs what can run: the loop, the steps of the tasks that wait
\* for nobody else, a reload, and a compaction once it has been told to stop.
\* Nothing is said of when a prompt's run ends.
Fairness ==
    /\ WF_terminalVars(Loop)
    /\ WF_terminalVars(OpStarts) /\ WF_terminalVars(OpProceeds)
    /\ WF_terminalVars(OpEnds /\ (op.is = "reload" \/ op.aborted))
    /\ \A p \in 1 .. MaxPrompts :
         WF_terminalVars(PromptStarts(p)) /\ WF_terminalVars(PromptSettles(p))

FairSpec == TerminalSpec /\ Fairness

----------------------------------------------------------------------------
(* Properties.                                                             *)

Queueing(is) == \E i \in DOMAIN lines : lines[i].is \in is

\* The terminal takes itself for busy with good reason: whenever it refuses,
\* queues or drops what is typed, something that will make it listen again is
\* under way. (_command_active, _pending_prompt, _enqueue_waiting and the frozen
\* editor are set by callbacks and reset by the loop, on every path.)
BusyForReason ==
    ~ui.closed /\ loop.pc # "exited" =>
      /\ ui.command <=> \/ ui.modal # None
                        \/ Queueing({"reload", "compact", "clear"})
                        \/ loop.pc \in {"extra", "clear"} \/ op.is # None
      /\ ui.pending <=> Queueing({"prompt"}) \/ loop.pc = "admit"
      /\ ui.enqueue <=> Queueing({"steering", "followUp"}) \/ loop.pc = "enqueue"
      /\ ed.frozen => ui.pending \/ ui.enqueue \/ Queueing({"resources"})

\* A signal that ends the program ends it, at whatever await of whatever command
\* it arrives, when the prompts that have been told to stop end. The terminal
\* awaits its prompt, and does not answer for it: the session goes on with what
\* is queued in a run that nobody tells to stop, and a tool may outlast its
\* abort. What the terminal owes is that it has told the prompt it awaits, and
\* waits for nothing else (_Shutdown.request, _finish_prompt_task).
Stopping == \E p \in DOMAIN prompts : prompts[p].st = "running" /\ prompts[p].aborted
SignalEnds == (Stopping ~> ~Prompting) => (shut.signal ~> loop.pc = "exited")

=============================================================================
