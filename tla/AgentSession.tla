---------------------------- MODULE AgentSession ----------------------------
(***************************************************************************)
(* AgentSession of oh_my_coding_agent/_session.py: prompts, queued         *)
(* messages, automatic and manual compaction, reload, abort and disposal.  *)
(* The Agent's run is taken as a whole (AgentRun has its inside), the      *)
(* session store is one branch (SessionStore has the tree), and the cut of *)
(* a compaction is the last turn (Compaction has the choice).              *)
(*                                                                         *)
(* A step runs from one await to the next. An await of `_dispatch', where  *)
(* listeners and extensions run, is a pc of its own; so is the await of a  *)
(* task, of a run and of another call's settlement.                        *)
(***************************************************************************)
EXTENDS Naturals, Sequences, SequencesExt, FiniteSets, Selections

CONSTANTS
    Prompts,            \* the calls of prompt()
    Jobs,               \* slots for compaction tasks
    Queued,             \* the messages given to steer() and followUp()
    Opened,             \* the kinds of messages in the file a session is opened with
    Limits              \* bounds: how often each thing the code does not decide happens

ASSUME AgentSessionAssumption ==
    /\ Jobs \subseteq Nat \ {0} /\ IsFiniteSet(Jobs)
    /\ "none" \notin Prompts \cup Queued
    /\ Opened \in Seq({"user", "ok", "big", "overflow", "aborted"})
    /\ Limits \subseteq [{"prompt", "queue", "reload", "large", "compact", "cancel", "fault"} -> Nat]

VARIABLES
    store,      \* the branch of the session manager
    agent,      \* the Agent: its run, abort signal, messages, queue, and what a run still holds
    waiting,    \* the pending texts shown to the user, and each queued message
    call,       \* the frame of each prompt()
    flags,      \* the session's attributes about prompts
    job,        \* each compaction task
    comp,       \* the session's attributes about compaction
    life,       \* reloading, closing, disposed
    disposal,   \* the disposal task
    left,       \* what is left of one of Limits
    odd         \* history: what has happened that no other call expects

vars == <<store, agent, waiting, call, flags, job, comp, life, disposal, left, odd>>

None == "none"

\* createAgentSession: an empty branch, or that of a session file.
Resumed == [i \in 1 .. Len(Opened) |-> [kind |-> Opened[i], id |-> i, kept |-> 0, m |-> None]]

Init ==
    /\ store = Resumed
    /\ agent = [run |-> None, aborted |-> FALSE, msgs |-> Resumed, queue |-> <<>>,
                prompt |-> <<>>, taken |-> <<>>, fresh |-> FALSE, begun |-> FALSE, unread |-> {}]
    /\ waiting = [displayed |-> {}, state |-> [m \in Queued |-> "new"]]
    /\ call = [c \in Prompts |-> [pc |-> "new", leg |-> "first", job |-> 0, hit |-> FALSE,
                                  retry |-> FALSE, next |-> None]]
    /\ flags = [active |-> FALSE, settlement |-> None, cancel |-> FALSE,
                truncated |-> FALSE, pendingEnd |-> FALSE, tried |-> FALSE]
    /\ job = [j \in Jobs |-> [pc |-> "free", manual |-> FALSE, hit |-> FALSE,
                              waits |-> None, kept |-> 0, at |-> 0]]
    /\ comp = [current |-> 0, cancel |-> FALSE, result |-> FALSE, terminal |-> FALSE]
    /\ life = [reloading |-> FALSE, closing |-> FALSE, disposed |-> FALSE]
    /\ disposal = [pc |-> None, job |-> 0, waits |-> None, cleared |-> FALSE]
    /\ left \in Limits
    /\ odd = {}

\* One more call, large answer, cancellation or failure.
Spend(k) ==
    /\ left[k] > 0
    /\ left' = [left EXCEPT ![k] = @ - 1]

----------------------------------------------------------------------------
(* The branch, the transcript, and what a compaction makes of them.        *)

Entry(kind, kept, m) == [kind |-> kind, id |-> Len(store) + 1, kept |-> kept, m |-> m]
Assistants == {"ok", "big", "overflow", "aborted"}
LastCompaction == SelectLastInSeq(store, LAMBDA e : e.kind = "compaction")

\* buildSessionContext: the last summary, and the messages from its first kept entry.
Context(s) ==
    LET last == SelectLastInSeq(s, LAMBDA e : e.kind = "compaction")
        from == IF last = 0 THEN 1 ELSE s[last].kept
    IN  (IF last = 0 THEN <<>> ELSE <<s[last]>>)
            \o At(s, {i \in DOMAIN s : s[i].kind # "compaction" /\ s[i].id >= from})

\* The transcript rebuilt from the branch, with what a failed run left unread.
Rebuilt(s) == [agent EXCEPT !.msgs = Context(s), !.unread = {}]

\* prepare_compaction: the first entry it keeps, 0 when there is nothing to summarise.
FirstToKeep ==
    LET turn == SelectLastInSeq(store, LAMBDA e : e.kind = "user")
    IN  IF turn < 2 \/ Last(store).kind = "compaction"
           \/ (LastCompaction # 0 /\ store[LastCompaction].kept = turn)
        THEN 0 ELSE turn

\* _automatic_compaction_candidate: the reason to compact, or None.
Candidate(includeAborted) ==
    LET last == Last(agent.msgs)
    IN  IF agent.msgs = <<>> THEN None
        ELSE IF last.kind \notin Assistants \/ last.id < LastCompaction \/ FirstToKeep = 0 THEN None
        ELSE IF last.kind = "overflow" THEN "overflow"
        ELSE IF \/ last.kind = "big"
                \/ last.kind = "aborted" /\ includeAborted /\ \E e \in ToSet(agent.msgs) : e.kind = "big"
             THEN "threshold" ELSE None

\* _remove_trailing_overflow_error
WithoutOverflow(ms) ==
    IF ms # <<>> /\ Last(ms).kind = "overflow" THEN Front(ms) ELSE ms

----------------------------------------------------------------------------
(* Who is alive, and what a call leaves in the session's attributes.       *)

Over == {"done", "failed", "broken", "cancelled"}
Alive(j) == job[j].pc \notin Over \cup {"free"}
IsCompacting == comp.current # 0 /\ Alive(comp.current)
Finished(c) == call[c].pc \in {"done", "raised"}
Prompting(c) == call[c].pc # "new" /\ ~Finished(c)
Open == ~life.closing /\ ~life.disposed
Idle == agent.run = None

Goto(c, pc, next) == call' = [call EXCEPT ![c].pc = pc, ![c].next = next]

\* The `finally' of prompt(), over the attributes as its body left them; how
\* is the outcome it gives its settlement, "done" or "raised".
Returns(c, how, f, k) ==
    /\ call' = [call EXCEPT ![c].pc = how]
    /\ flags' = [f EXCEPT !.active = FALSE, !.truncated = FALSE,
                          !.settlement = IF @ = c THEN None ELSE @]
    /\ comp' = [k EXCEPT !.result = FALSE]
Returned(c, f, k) == Returns(c, "done", f, k)
Raised(c, f, k) == Returns(c, "raised", f, k)

\* The `finally' around the await of a compaction task.
Forget(j) ==
    IF comp.current = j
    THEN [comp EXCEPT !.current = 0, !.cancel = FALSE, !.terminal = FALSE]
    ELSE comp
FreeSlot(j) == [job EXCEPT ![j] = [@ EXCEPT !.pc = "free", !.hit = FALSE, !.waits = None,
                                            !.manual = FALSE, !.kept = 0, !.at = 0]]

\* Two calls that the attributes do not tell apart: a prompt beside another
\* that announces AgentSettled, and a compaction that takes the place of one
\* still alive.
Crowded(c) == IF \E d \in Prompts \ {c} : Prompting(d) THEN {"crowded"} ELSE {}

NewJob(j, manual) ==
    /\ job[j].pc = "free" /\ disposal.job # j
    /\ \A i \in Jobs : i < j => job[i].pc # "free" \/ disposal.job = i
    /\ job' = [job EXCEPT ![j] = [pc |-> "created", manual |-> manual, hit |-> FALSE, waits |-> None,
                                  kept |-> IF manual THEN 0 ELSE FirstToKeep, at |-> Len(store)]]
    /\ comp' = [current |-> j, cancel |-> FALSE, result |-> FALSE, terminal |-> FALSE]

Displaced == IF IsCompacting THEN {"crowded"} ELSE {}

\* _request_compaction_cancel
JobHit == IsCompacting /\ ~comp.terminal
CancelledComp == IF JobHit THEN [comp EXCEPT !.cancel = TRUE] ELSE comp
CancelledJob == IF JobHit THEN [job EXCEPT ![comp.current].hit = TRUE] ELSE job

\* Agent.abort. A run task cancelled before its first step leaves the Agent
\* with a run that no task drives.
Aborted(a) ==
    CASE a.run = "launched" -> [a EXCEPT !.run = "lost", !.aborted = TRUE]
      [] a.run = "running"  -> [a EXCEPT !.aborted = TRUE]
      [] OTHER -> a
Loses == IF agent.run = "launched" THEN {"lost"} ELSE {}

----------------------------------------------------------------------------
(* prompt(): from the call to the Agent's run.                             *)

\* Agent.prompt(user) once the user message is stored; a busy Agent refuses.
Start(c, msgs, f, k) ==
    /\ store' = Append(store, Entry("user", 0, None))
    /\ IF Idle
       THEN /\ agent' = [agent EXCEPT !.run = "launched", !.aborted = FALSE, !.msgs = msgs,
                                      !.prompt = <<Entry("user", 0, None)>>]
            /\ call' = [call EXCEPT ![c].pc = "run", ![c].leg = "first"]
            /\ flags' = f /\ comp' = k
       ELSE agent' = [agent EXCEPT !.msgs = msgs] /\ Raised(c, f, k)

CallPrompt(c) ==
    /\ Spend("prompt")
    /\ call[c].pc = "new"
    /\ Open /\ ~flags.active /\ ~IsCompacting /\ ~life.reloading
    /\ LET f == [flags EXCEPT !.active = TRUE, !.settlement = c, !.cancel = FALSE,
                              !.truncated = FALSE, !.tried = FALSE]
       IN  IF Candidate(TRUE) = None
           THEN Start(c, agent.msgs, f, comp) /\ UNCHANGED job
           ELSE /\ \E j \in Jobs :
                      /\ NewJob(j, FALSE)
                      /\ call' = [call EXCEPT ![c].pc = "pre", ![c].job = j]
                /\ flags' = f
                /\ UNCHANGED <<store, agent>>
    /\ odd' = odd \cup Crowded(c)
    /\ UNCHANGED <<waiting, life, disposal>>

\* How the await of a compaction task ends for the prompt that made it.
Outcome(c) ==
    LET j == job[call[c].job]
    IN  IF call[c].hit THEN "cancelled"
        ELSE CASE j.pc = "done" -> "succeeded"
               [] j.pc = "failed" -> "unsuccessful"
               [] j.pc = "broken" -> "listener"
               [] j.pc = "cancelled" ->
                    IF comp.cancel /\ ~comp.result THEN "unsuccessful" ELSE "cancelled"

\* (Mutant: the cancelled prompt() keeps its AgentEnd and never shows it.)
JobCancelledUnshown(c) ==
    /\ Outcome(c) = "cancelled"
    /\ Returned(c, flags, Forget(call[c].job))
    /\ UNCHANGED <<store, agent>>

\* A cancellation that reaches prompt() itself shows the AgentEnd it still
\* holds, unless the result of a compaction was already committed.
JobCancelledPrompt(c) ==
    LET ended == [flags EXCEPT !.pendingEnd = FALSE]
    IN  /\ Outcome(c) = "cancelled"
        /\ IF flags.pendingEnd /\ ~comp.result
           THEN Goto(c, "end", "raise") /\ flags' = ended /\ comp' = Forget(call[c].job)
           ELSE Returned(c, IF comp.result THEN ended ELSE flags, Forget(call[c].job))
        /\ UNCHANGED <<store, agent>>

\* A listener of the compaction failed: the transcript is rebuilt, prompt() raises.
JobBrokePrompt(c) ==
    /\ Outcome(c) = "listener"
    /\ agent' = IF Idle THEN Rebuilt(store) ELSE agent
    /\ Raised(c, [flags EXCEPT !.pendingEnd = FALSE], Forget(call[c].job))
    /\ UNCHANGED store

\* _run_pre_prompt_compaction, then the run unless the session closes.
PreDone(c) ==
    /\ call[c].pc = "pre" /\ ~Alive(call[c].job)
    /\ \/ JobCancelledPrompt(c)
       \/ JobBrokePrompt(c)
       \/ /\ Outcome(c) \in {"succeeded", "unsuccessful"}
          /\ LET msgs == IF Outcome(c) = "succeeded" THEN WithoutOverflow(agent.msgs) ELSE agent.msgs
             IN  IF life.closing \/ flags.cancel
                 THEN /\ Returned(c, flags, Forget(call[c].job))
                      /\ agent' = [agent EXCEPT !.msgs = msgs]
                      /\ UNCHANGED store
                 ELSE Start(c, msgs, flags, Forget(call[c].job))
    /\ job' = FreeSlot(call[c].job)
    /\ UNCHANGED <<waiting, life, disposal, left, odd>>

----------------------------------------------------------------------------
(* The Agent's run.                                                        *)

\* The first step of the run task. AgentStart and TurnStart are shown next.
RunStarts ==
    /\ agent.run = "launched"
    /\ agent' = [agent EXCEPT !.run = "running", !.fresh = TRUE]
    /\ UNCHANGED <<store, waiting, call, flags, job, comp, life, disposal, left, odd>>

\* MessageEnd of the prompt, which prompt() has stored: it joins the transcript.
PromptJoins ==
    /\ agent.run = "running" /\ agent.prompt # <<>>
    /\ agent' = [agent EXCEPT !.msgs = @ \o agent.prompt, !.prompt = <<>>]
    /\ UNCHANGED <<store, waiting, call, flags, job, comp, life, disposal, left, odd>>

\* The run polls the queues: once when its prompt has joined, whatever was
\* aborted (a steering message, if there is one), then between turns and before
\* it would end, unless it is aborted. TurnStart is shown before the message is.
\* (A run that continue_ began with a steering message skips the first poll.)
Holds == agent.prompt # <<>> \/ agent.taken # <<>>
Takes == [agent EXCEPT !.fresh = FALSE, !.taken = <<Head(agent.queue)>>, !.queue = Tail(@)]
RunPolls ==
    /\ agent.run = "running" /\ ~Holds
    /\ \/ agent.queue # <<>> /\ (agent.fresh \/ ~agent.aborted) /\ agent' = Takes
       \/ agent.fresh /\ agent' = [agent EXCEPT !.fresh = FALSE]
    /\ UNCHANGED <<store, waiting, call, flags, job, comp, life, disposal, left, odd>>

\* MessageStart of the message a run has taken: it is no longer shown as pending.
TakenBegins ==
    /\ agent.run = "running" /\ agent.taken # <<>> /\ ~agent.begun
    /\ agent' = [agent EXCEPT !.begun = TRUE]
    /\ waiting' = [waiting EXCEPT !.displayed = @ \ ToSet(agent.taken)]
    /\ UNCHANGED <<store, call, flags, job, comp, life, disposal, left, odd>>

\* MessageEnd of it: it joins the transcript and is stored.
TakenJoins ==
    /\ agent.run = "running" /\ agent.taken # <<>> /\ agent.begun
    /\ LET message == Entry("user", 0, Head(agent.taken))
       IN  /\ store' = Append(store, message)
           /\ agent' = [agent EXCEPT !.msgs = Append(@, message), !.taken = <<>>, !.begun = FALSE]
    /\ UNCHANGED <<waiting, call, flags, job, comp, life, disposal, left, odd>>

\* The prompts that await the run.
Awaiting == {c \in Prompts : call[c].pc = "run"}

\* The answer is stored, then the session's own listener holds AgentEnd back;
\* it refuses a second one, which fails the run. An answer that is an error
\* ends a run that has been aborted meanwhile, and one with messages queued.
RunEnds ==
    /\ agent.run = "running" /\ ~Holds /\ ~agent.fresh
    /\ \E kind \in Assistants :
          /\ kind = "aborted" => agent.aborted
          /\ IF kind \in {"big", "overflow"} THEN Spend("large") ELSE UNCHANGED left
          /\ store' = Append(store, Entry(kind, 0, None))
          /\ agent' = [agent EXCEPT !.run = None, !.msgs = Append(@, Entry(kind, 0, None))]
    /\ flags' = [flags EXCEPT !.pendingEnd = TRUE]
    /\ call' = [c \in Prompts |-> IF c \in Awaiting
                THEN [call[c] EXCEPT !.pc = IF flags.pendingEnd THEN "failed" ELSE "ran"]
                ELSE call[c]]
    /\ UNCHANGED <<waiting, job, comp, life, disposal, odd>>

\* A listener fails, or a tool cannot be cleaned up: no AgentEnd. What the run
\* still holds is gone: the prompt stays in the store and out of the transcript,
\* a queued message was in neither.
RunFails ==
    /\ Spend("fault")
    /\ agent.run = "running"
    /\ agent' = [agent EXCEPT !.run = None, !.prompt = <<>>, !.taken = <<>>, !.begun = FALSE,
                              !.unread = @ \cup {e.id : e \in ToSet(agent.prompt)}]
    /\ waiting' = [waiting EXCEPT !.state = [m \in Queued |->
                       IF m \in ToSet(agent.taken) THEN "dropped" ELSE @[m]]]
    /\ \E how \in {"failed", "unclean"} :
          call' = [c \in Prompts |-> IF c \in Awaiting THEN [call[c] EXCEPT !.pc = how] ELSE call[c]]
    /\ UNCHANGED <<store, flags, job, comp, life, disposal, odd>>

RunFailed(c) ==
    /\ call[c].pc \in {"failed", "unclean"}
    /\ Raised(c, flags, comp)
    /\ life' = [life EXCEPT !.closing = @ \/ call[c].pc = "unclean"]
    /\ UNCHANGED <<store, agent, waiting, job, disposal, left, odd>>

\* A run task cancelled before its first step: prompt() is cancelled by
\* nobody, and the Agent stays busy.
RunLost(c) ==
    /\ agent.run = "lost" /\ call[c].pc = "run"
    /\ IF call[c].leg = "first"
       THEN Goto(c, "settled", None) /\ UNCHANGED <<flags, comp>>
       ELSE Returned(c, flags, comp)
    /\ UNCHANGED <<store, agent, waiting, job, life, disposal, left, odd>>

\* The caller cancels prompt(): its run is aborted, or the compaction it awaits.
\* During a dispatch of AgentEnd or AgentSettled the cancellation is swallowed.
CancelPrompt(c) ==
    /\ Spend("cancel")
    /\ call[c].pc \in {"pre", "run", "ran", "auto", "exhausted"} /\ ~call[c].hit
    /\ call' = [call EXCEPT ![c].hit = TRUE]
    /\ agent' = IF call[c].pc = "run" THEN [agent EXCEPT !.aborted = TRUE] ELSE agent
    /\ comp' = IF call[c].pc \in {"pre", "auto"} THEN CancelledComp ELSE comp
    /\ job' = IF call[c].pc \in {"pre", "auto"} THEN CancelledJob ELSE job
    /\ UNCHANGED <<store, waiting, flags, life, disposal, odd>>

----------------------------------------------------------------------------
(* prompt(): what follows a run.                                           *)

\* Agent.continue_: with the head of the queue after an answer, else from the
\* transcript as it is, which may not be empty or end in an answer.
Continue(c, leg, msgs, f, k) ==
    LET answered == msgs # <<>> /\ Last(msgs).kind \in Assistants
        polls == answered /\ agent.queue # <<>>
        a == [agent EXCEPT !.msgs = msgs]
    IN  IF Idle /\ (polls \/ (~answered /\ msgs # <<>>))
        THEN /\ agent' = [a EXCEPT !.run = "launched", !.aborted = FALSE,
                                   !.taken = IF polls THEN <<Head(agent.queue)>> ELSE <<>>,
                                   !.queue = IF polls THEN Tail(@) ELSE @]
             /\ call' = [call EXCEPT ![c].pc = "run", ![c].leg = leg]
             /\ flags' = f /\ comp' = k
        ELSE agent' = a /\ Raised(c, f, k)

\* The body of prompt() after an AgentEnd: a retry of the overflow, a run for
\* messages still queued, or AgentSettled; a truncated projection shows nothing.
Proceed(c, next, f, k) ==
    LET settled == [k EXCEPT !.result = FALSE]
    IN  CASE f.truncated -> Returned(c, f, k) /\ UNCHANGED agent
          [] ~f.truncated /\ next = "retry" ->
                Continue(c, "retry", WithoutOverflow(agent.msgs), f, settled)
          [] ~f.truncated /\ next = "loop" /\ agent.queue # <<>> /\ ~life.closing ->
                Continue(c, "queued", agent.msgs, f, settled)
          [] OTHER -> /\ Goto(c, "settled", None)
                      /\ flags' = [f EXCEPT !.active = FALSE]
                      /\ comp' = settled
                      /\ UNCHANGED agent

\* _dispatch_pending_agent_end: nothing to show, or listeners run.
ShowEnd(c, next, k) ==
    IF flags.pendingEnd
    THEN Goto(c, "end", next) /\ flags' = [flags EXCEPT !.pendingEnd = FALSE]
         /\ comp' = k /\ UNCHANGED agent
    ELSE Proceed(c, next, flags, k)

\* _run_automatic_compaction: report a spent recovery, compact, or show AgentEnd.
RunOver(c) ==
    /\ call[c].pc = "ran" /\ ~call[c].hit
    /\ LET reason == Candidate(FALSE)
           spent == call[c].leg = "retry" /\ flags.tried /\ Last(agent.msgs).kind = "overflow"
       IN  \/ /\ spent
              /\ Goto(c, "exhausted", None)
              /\ UNCHANGED <<agent, flags, job, comp, odd>>
           \/ /\ ~spent /\ reason = None
              /\ ShowEnd(c, "loop", comp)
              /\ UNCHANGED <<job, odd>>
           \/ /\ ~spent /\ reason # None
              /\ LET retry == reason = "overflow" /\ call[c].leg # "retry"
                 IN  /\ flags' = [flags EXCEPT !.tried = @ \/ retry]
                     /\ \E j \in Jobs :
                           /\ NewJob(j, FALSE)
                           /\ call' = [call EXCEPT ![c].pc = "auto", ![c].job = j, ![c].retry = retry]
              /\ odd' = odd \cup Displaced
              /\ UNCHANGED agent
    /\ UNCHANGED <<store, waiting, life, disposal, left>>

\* The caller's cancellation of the run: AgentEnd is shown, then AgentSettled.
RunCancelled(c) ==
    /\ call[c].pc = "ran" /\ call[c].hit
    /\ LET first == call[c].leg = "first"
       IN  CASE flags.pendingEnd -> /\ Goto(c, "end", IF first THEN "raiseFirst" ELSE "raise")
                                    /\ flags' = [flags EXCEPT !.pendingEnd = FALSE]
                                    /\ UNCHANGED comp
             [] ~flags.pendingEnd /\ first -> Goto(c, "settled", None) /\ UNCHANGED <<flags, comp>>
             [] OTHER -> Returned(c, flags, comp)
    /\ UNCHANGED <<store, agent, waiting, job, life, disposal, left, odd>>

\* The compaction after a run is over; an abort that found its result
\* committed has truncated what prompt() still shows. The result of the
\* compaction before the run counts as well: an abort of the run truncates it,
\* and the AgentEnd that the run leaves stays pending for ever.
AutoDone(c) ==
    /\ call[c].pc = "auto" /\ ~Alive(call[c].job)
    /\ \/ JobCancelledPrompt(c)
       \/ JobBrokePrompt(c)
       \/ /\ Outcome(c) \in {"succeeded", "unsuccessful"}
          /\ LET next == CASE Outcome(c) = "unsuccessful" -> "stop"
                           [] Outcome(c) = "succeeded" /\ call[c].retry -> "retry"
                           [] OTHER -> "loop"
             IN  IF flags.truncated
                 THEN Returned(c, flags, Forget(call[c].job)) /\ UNCHANGED agent
                 ELSE ShowEnd(c, next, Forget(call[c].job))
          /\ UNCHANGED store
    /\ odd' = odd \cup IF flags.truncated /\ flags'.pendingEnd THEN {"unshown"} ELSE {}
    /\ job' = FreeSlot(call[c].job)
    /\ UNCHANGED <<waiting, life, disposal, left>>

\* AgentEnd has been shown.
EndShown(c) ==
    /\ call[c].pc = "end"
    /\ IF call[c].next \in {"raise", "raiseFirst"}
       THEN /\ Goto(c, "settled", None)
            /\ flags' = [flags EXCEPT !.active = @ /\ call[c].next = "raiseFirst"]
            /\ UNCHANGED <<agent, comp>>
       ELSE Proceed(c, call[c].next, flags, comp)
    /\ UNCHANGED <<store, waiting, job, life, disposal, left, odd>>

\* The last event of prompt(), which is no longer active while it is shown.
Settles(c) ==
    /\ call[c].pc = "settled"
    /\ Returned(c, flags, comp)
    /\ UNCHANGED <<store, agent, waiting, job, life, disposal, left, odd>>

\* The recovery is reported as spent; a cancellation waits for the report.
ExhaustedShown(c) ==
    /\ call[c].pc = "exhausted"
    /\ IF flags.pendingEnd
       THEN /\ Goto(c, "end", IF call[c].hit THEN "raise" ELSE "stop")
            /\ flags' = [flags EXCEPT !.pendingEnd = FALSE]
            /\ UNCHANGED <<agent, comp>>
       ELSE IF call[c].hit THEN Returned(c, flags, comp) /\ UNCHANGED agent
       ELSE Proceed(c, "stop", flags, comp)
    /\ UNCHANGED <<store, waiting, job, life, disposal, left, odd>>

\* A listener of AgentEnd or of the report raises, and so does prompt(). The
\* AgentEnd behind a failed report stays pending for ever.
ListenerFails(c) ==
    /\ Spend("fault")
    /\ call[c].pc \in {"end", "exhausted"}
    /\ Raised(c, flags, comp)
    /\ odd' = odd \cup IF call[c].pc = "exhausted" THEN {"unshown"} ELSE {}
    /\ UNCHANGED <<store, agent, waiting, job, life, disposal>>

----------------------------------------------------------------------------
(* A compaction task.                                                      *)

\* compact()
Compact ==
    /\ Spend("compact")
    /\ Open /\ ~IsCompacting /\ ~life.reloading
    /\ \E j \in Jobs : NewJob(j, TRUE)
    /\ UNCHANGED <<store, agent, waiting, call, flags, life, disposal, odd>>

\* abortCompaction(), and a caller that cancels compact().
AbortCompaction ==
    /\ Spend("cancel")
    /\ JobHit /\ ~job[comp.current].hit
    /\ comp' = CancelledComp /\ job' = CancelledJob
    /\ UNCHANGED <<store, agent, waiting, call, flags, life, disposal, odd>>

To(j, pc) == job' = [job EXCEPT ![j].pc = pc]
Terminal == comp' = [comp EXCEPT !.terminal = TRUE]

\* (Mutant: every task, an automatic one too, awaits the prompt it found.)
JobBeginsWaiting(j) ==
    /\ job[j].pc = "created"
    /\ IF job[j].hit THEN To(j, "cancelled")
       ELSE job' = [job EXCEPT ![j].pc = "waiting", ![j].waits = flags.settlement]
    /\ UNCHANGED <<store, agent, waiting, call, flags, comp, life, disposal, left, odd>>

\* The first step of the task: a manual one aborts the Agent and awaits the
\* prompt it found, an automatic one announces itself.
JobBegins(j) ==
    /\ job[j].pc = "created"
    /\ CASE job[j].hit -> To(j, "cancelled") /\ UNCHANGED <<agent, odd>>
         [] ~job[j].hit /\ ~job[j].manual -> To(j, "starting") /\ UNCHANGED <<agent, odd>>
         [] OTHER -> /\ job' = [job EXCEPT ![j].pc = "waiting", ![j].waits = flags.settlement]
                     /\ agent' = Aborted(agent) /\ odd' = odd \cup Loses
    /\ UNCHANGED <<store, waiting, call, flags, comp, life, disposal, left>>

\* What an awaited settlement, or Agent.waitForIdle without one, waits for.
Settled(waits) ==
    IF waits = None THEN agent.run \notin {"launched", "running"} ELSE Finished(waits)

\* (Mutant: the task goes on without awaiting the prompt whose run it aborted.)
ManualHurries(j) ==
    /\ job[j].pc = "waiting"
    /\ IF job[j].hit THEN To(j, "cancelled")
       ELSE IF FirstToKeep = 0 THEN To(j, "failed")
       ELSE job' = [job EXCEPT ![j].pc = "starting", ![j].kept = FirstToKeep, ![j].at = Len(store)]
    /\ UNCHANGED <<store, agent, waiting, call, flags, comp, life, disposal, left, odd>>

\* Cancelled, it still awaits the settlement. Awaiting a lost run cancels it.
ManualProceeds(j) ==
    LET waits == job[j].waits
    IN  /\ job[j].pc = "waiting"
        /\ Settled(waits) \/ (waits = None /\ job[j].hit)
        /\ CASE job[j].hit \/ (waits = None /\ agent.run = "lost") -> To(j, "cancelled")
             [] ~job[j].hit /\ (FirstToKeep = 0 \/ (waits # None /\ call[waits].pc = "raised")) ->
                    To(j, "failed")
             [] OTHER -> job' = [job EXCEPT ![j].pc = "starting", ![j].kept = FirstToKeep,
                                            ![j].at = Len(store)]
        /\ UNCHANGED <<store, agent, waiting, call, flags, comp, life, disposal, left, odd>>

\* CompactionStart has been shown. After a failed listener there is no end.
StartShown(j) ==
    /\ job[j].pc = "starting"
    /\ IF job[j].hit
       THEN Terminal ELSE UNCHANGED comp
    /\ \/ /\ To(j, IF job[j].hit THEN "aborting" ELSE "summarizing")
          /\ UNCHANGED left
       \/ /\ ~job[j].hit /\ To(j, "broken") /\ Spend("fault")
    /\ UNCHANGED <<store, agent, waiting, call, flags, life, disposal, odd>>

\* (Mutant: the entry is stored and the Agent goes on with its transcript.)
CommitUnread(j) ==
    /\ store' = Append(store, Entry("compaction", job[j].kept, None))
    /\ To(j, "ending")
    /\ comp' = [comp EXCEPT !.terminal = TRUE, !.result = TRUE]
    /\ UNCHANGED agent

\* The model has answered with a summary: the entry is stored and the
\* transcript rebuilt, which a busy Agent refuses.
Commit(j) ==
    LET s == Append(store, Entry("compaction", job[j].kept, None))
    IN  /\ store' = s
        /\ IF Idle
           THEN /\ agent' = Rebuilt(s)
                /\ To(j, "ending")
                /\ comp' = [comp EXCEPT !.terminal = TRUE, !.result = TRUE]
           ELSE To(j, "failed") /\ UNCHANGED <<agent, comp>>

\* The model has failed: the transcript is rebuilt from the store all the same.
Unsummarized(j) ==
    /\ agent' = IF Idle THEN Rebuilt(store) ELSE agent
    /\ To(j, "failing") /\ Terminal
    /\ UNCHANGED store

Summarized(j) ==
    /\ job[j].pc = "summarizing"
    /\ IF job[j].hit
       THEN To(j, "aborting") /\ Terminal /\ UNCHANGED <<store, agent, left>>
       ELSE \/ Commit(j) /\ UNCHANGED left
            \/ Unsummarized(j) /\ Spend("fault")
    /\ UNCHANGED <<waiting, call, flags, life, disposal, odd>>

\* CompactionEnd has been shown, or a listener of it has failed.
JobEnds(j) ==
    /\ job[j].pc \in {"aborting", "failing", "ending"}
    /\ \/ /\ To(j, [aborting |-> "cancelled", failing |-> "failed", ending |-> "done"][job[j].pc])
          /\ UNCHANGED left
       \/ To(j, "broken") /\ Spend("fault")
    /\ UNCHANGED <<store, agent, waiting, call, flags, comp, life, disposal, odd>>

\* The caller of compact() resumes.
CompactReturns(j) ==
    /\ job[j].manual /\ job[j].pc \in Over
    /\ job' = FreeSlot(j)
    /\ comp' = IF comp.current = j THEN [Forget(j) EXCEPT !.result = FALSE] ELSE comp
    /\ UNCHANGED <<store, agent, waiting, call, flags, life, disposal, left, odd>>

----------------------------------------------------------------------------
(* abort(), reload, and the queue.                                         *)

\* _request_active_prompt_cancel
Abort ==
    /\ Spend("cancel")
    /\ ~life.disposed /\ disposal.pc = None
    /\ flags' = [flags EXCEPT !.cancel = @ \/ flags.settlement # None,
                              !.pendingEnd = @ /\ ~comp.result,
                              !.truncated = @ \/ comp.result]
    /\ agent' = Aborted(agent) /\ odd' = odd \cup Loses
    /\ comp' = CancelledComp /\ job' = CancelledJob
    /\ UNCHANGED <<store, waiting, call, life, disposal>>

Reload ==
    /\ Spend("reload")
    /\ Open /\ ~flags.active /\ ~IsCompacting /\ ~life.reloading
    /\ life' = [life EXCEPT !.reloading = TRUE]
    /\ UNCHANGED <<store, agent, waiting, call, flags, job, comp, disposal, odd>>

ReloadEnds ==
    /\ life.reloading
    /\ life' = [life EXCEPT !.reloading = FALSE]
    /\ UNCHANGED <<store, agent, waiting, call, flags, job, comp, disposal, left, odd>>

\* steer() and followUp(): the text is shown before the message is queued.
Enqueue(m) ==
    /\ Spend("queue")
    /\ Open /\ waiting.state[m] = "new"
    /\ waiting' = [waiting EXCEPT !.displayed = @ \cup {m}, !.state[m] = "shown"]
    /\ UNCHANGED <<store, agent, call, flags, job, comp, life, disposal, odd>>

\* (Mutant: the message is queued although the queue was cleared meanwhile.)
EnqueueLate(m) ==
    /\ waiting.state[m] \in {"shown", "cut"}
    /\ waiting' = [waiting EXCEPT !.state[m] = "queued"]
    /\ agent' = [agent EXCEPT !.queue = Append(@, m)]
    /\ UNCHANGED <<store, call, flags, job, comp, life, disposal, left, odd>>

\* The listeners have run: a queue cleared meanwhile drops the message, and a
\* failed listener leaves its text shown though it was never queued.
EnqueueShown(m) ==
    /\ \/ /\ waiting.state[m] = "shown"
          /\ \/ /\ waiting' = [waiting EXCEPT !.state[m] = "queued"]
                /\ agent' = [agent EXCEPT !.queue = Append(@, m)]
                /\ UNCHANGED left
             \/ /\ waiting' = [waiting EXCEPT !.state[m] = "failed"]
                /\ Spend("fault")
                /\ UNCHANGED agent
       \/ /\ waiting.state[m] = "cut"
          /\ waiting' = [waiting EXCEPT !.state[m] = "cleared"]
          /\ UNCHANGED <<agent, left>>
    /\ UNCHANGED <<store, call, flags, job, comp, life, disposal, odd>>

\* _clear_queued_messages returns every text that is shown. The message that a
\* run has polled is out of reach: its text is returned, and it is delivered.
ClearMessages ==
    LET cleared(m) == CASE waiting.state[m] = "shown" -> "cut"
                        [] waiting.state[m] = "failed" \/ m \in ToSet(agent.queue) -> "cleared"
                        [] m \in ToSet(agent.taken) \cap waiting.displayed -> "late"
                        [] OTHER -> waiting.state[m]
    IN  waiting' = [displayed |-> {}, state |-> [m \in Queued |-> cleared(m)]]

ClearQueue ==
    /\ Open
    /\ ClearMessages
    /\ agent' = [agent EXCEPT !.queue = <<>>]
    /\ UNCHANGED <<store, call, flags, job, comp, life, disposal, left, odd>>

----------------------------------------------------------------------------
(* dispose()                                                               *)

Dispose ==
    /\ ~life.disposed /\ disposal.pc = None
    /\ life' = [life EXCEPT !.closing = TRUE]
    /\ disposal' = [disposal EXCEPT !.pc = "begun"]
    /\ UNCHANGED <<store, agent, waiting, call, flags, job, comp, left, odd>>

\* What it awaits, in turn: the compaction it cancels, the reload, the prompt
\* whose run it aborts. What is not there is not awaited.
AwaitPrompt(a) ==
    /\ disposal' = [disposal EXCEPT !.pc = "prompt", !.job = 0, !.cleared = TRUE,
                                    !.waits = flags.settlement]
    /\ agent' = Aborted(a) /\ odd' = odd \cup Loses
AwaitReload(a) ==
    IF life.reloading
    THEN disposal' = [disposal EXCEPT !.pc = "reload", !.job = 0, !.cleared = TRUE]
         /\ agent' = a /\ UNCHANGED odd
    ELSE AwaitPrompt(a)
\* (Mutant: the compaction is cancelled and not awaited.)
AwaitNoCompaction(a) ==
    /\ AwaitReload(a)
    /\ comp' = CancelledComp /\ job' = CancelledJob
AwaitCompaction(a) ==
    IF IsCompacting
    THEN /\ disposal' = [disposal EXCEPT !.pc = "compaction", !.job = comp.current, !.cleared = TRUE]
         /\ comp' = CancelledComp /\ job' = CancelledJob
         /\ agent' = a /\ UNCHANGED odd
    ELSE AwaitReload(a) /\ UNCHANGED <<comp, job>>

\* The first attempt clears the queues, a retry does not.
DisposalBegins ==
    /\ disposal.pc = "begun"
    /\ IF disposal.cleared
       THEN AwaitCompaction(agent) /\ UNCHANGED waiting
       ELSE /\ ClearMessages
            /\ agent' = [agent EXCEPT !.queue = <<>>]
            /\ disposal' = [disposal EXCEPT !.pc = "queues"]
            /\ UNCHANGED <<comp, job, odd>>
    /\ UNCHANGED <<store, call, flags, life, left>>

DisposalQueuesShown ==
    /\ disposal.pc = "queues"
    /\ AwaitCompaction(agent)
    /\ UNCHANGED <<store, waiting, call, flags, life, left>>

DisposalAwaited ==
    /\ \/ disposal.pc = "compaction" /\ ~Alive(disposal.job) /\ AwaitReload(agent)
       \/ disposal.pc = "reload" /\ ~life.reloading /\ AwaitPrompt(agent)
       \/ /\ disposal.pc = "prompt" /\ Settled(disposal.waits)
          /\ disposal' = [disposal EXCEPT !.pc = "extensions", !.waits = None]
          /\ UNCHANGED <<agent, odd>>
    /\ UNCHANGED <<store, waiting, call, flags, job, comp, life, left>>

\* Extensions have shut down. A failure leaves the session closing, to be
\* disposed again.
DisposalEnds ==
    /\ disposal.pc = "extensions"
    /\ disposal' = [disposal EXCEPT !.pc = None]
    /\ \/ /\ life' = [life EXCEPT !.disposed = TRUE]
          /\ flags' = [flags EXCEPT !.pendingEnd = FALSE]
          /\ UNCHANGED left
       \/ UNCHANGED <<life, flags>> /\ Spend("fault")
    /\ UNCHANGED <<store, agent, waiting, call, job, comp, odd>>

----------------------------------------------------------------------------

PromptStep(c) ==
    \/ PreDone(c) \/ RunFailed(c) \/ RunLost(c) \/ RunOver(c) \/ RunCancelled(c)
    \/ AutoDone(c) \/ EndShown(c) \/ Settles(c) \/ ExhaustedShown(c) \/ ListenerFails(c)
JobStep(j) ==
    \/ JobBegins(j) \/ ManualProceeds(j) \/ StartShown(j) \/ Summarized(j) \/ JobEnds(j)
    \/ CompactReturns(j)
RunStep ==
    \/ RunStarts \/ PromptJoins \/ RunPolls \/ TakenBegins \/ TakenJoins
    \/ RunEnds \/ RunFails
DisposalStep == DisposalBegins \/ DisposalQueuesShown \/ DisposalAwaited \/ DisposalEnds

\* The steps of the session's own tasks: models answer, listeners return.
Progress ==
    \/ \E c \in Prompts : PromptStep(c)
    \/ \E j \in Jobs : JobStep(j)
    \/ \E m \in Queued : EnqueueShown(m)
    \/ RunStep \/ ReloadEnds \/ DisposalStep

\* What callers do.
Calls ==
    \/ \E c \in Prompts : CallPrompt(c) \/ CancelPrompt(c)
    \/ \E m \in Queued : Enqueue(m)
    \/ Compact \/ AbortCompaction \/ Abort \/ ClearQueue \/ Reload \/ Dispose

Next == Progress \/ Calls

Spec == Init /\ [][Next]_vars

----------------------------------------------------------------------------
(* Properties.                                                             *)

Said(ms) == At(ms, {i \in DOMAIN ms : ms[i].kind # "overflow" /\ ms[i].id \notin agent.unread})
Unsurprised == odd \cap {"crowded", "lost"} = {}

\* The transcript the model sees is the one the session file would give back:
\* through runs, failed and cancelled compactions and retries, the Agent's
\* messages, with the prompt a run has not shown yet, are the context of the
\* branch. Overflow errors are apart, which a retry takes away from the one and
\* never from the other, and so is the prompt of a run that a listener failed
\* before its MessageEnd: it was stored first and stays out of the transcript,
\* until that is rebuilt. Nothing else is lost on either side. Two prompts at
\* once, and a run that was lost, are exceptions (prompt, _run_agent_loop_body,
\* _perform_compaction, _remove_trailing_overflow_error).
StoreAgrees ==
    Unsurprised => Said(agent.msgs \o agent.prompt) = Said(Context(store))

\* A compaction prepares its cut before it awaits the summary: until it is
\* over no run is going on and nothing has been appended, so that the cut and
\* the summary are those of the branch it commits to.
CompactionAlone ==
    Unsurprised =>
        \A j \in Jobs :
            (job[j].pc \in {"starting", "summarizing"} \/ (job[j].pc = "created" /\ ~job[j].manual))
                => Idle /\ job[j].at = Len(store)

\* A run never ends while an earlier AgentEnd is still held back: the
\* `unprojected AgentEnd' that _handle_agent_event guards against, which would
\* fail this run and every later one, arises only after a listener has failed
\* in the report of a spent overflow recovery, and after the abort of a run
\* that a compaction came before, when that run is to be compacted again.
EndsProjected ==
    odd = {} /\ agent.run \in {"launched", "running"} => ~flags.pendingEnd

\* What is shown as pending is what will be delivered: every queued message is
\* shown, and what is shown is queued, about to be, polled by a run that has not
\* begun it, or a listener failed before it was queued or begun. A message that
\* clearQueue() returned is delivered as well only if a run had polled it
\* ("late"), and a message whose listener failed never is.
Delivered == {e.m : e \in {store[i] : i \in 1 .. Len(store)}} \ {None}
QueueShown ==
    /\ ToSet(agent.queue) \subseteq waiting.displayed
    /\ \A m \in waiting.displayed :
          \/ waiting.state[m] \in {"shown", "failed", "dropped"}
          \/ m \in ToSet(agent.queue)
          \/ m \in ToSet(agent.taken) /\ ~agent.begun
    /\ \A m \in Queued :
          waiting.state[m] \in {"cut", "cleared", "failed", "dropped"} => m \notin Delivered

\* Once dispose() has returned nothing of the session moves: no message, no
\* run, no compaction, no prompt; each of them has been awaited. It awaits one
\* prompt, one compaction and one run, those of the attributes: of two prompts
\* at once the first is not awaited, nor is a manual compaction whose place the
\* automatic one of a prompt took (_compaction_task), which may still append
\* when dispose() has returned, nor a run that no task drives (_drive_disposal).
\* Where nothing of that has happened, the session is still.
DisposedIsFinal ==
    [][life.disposed /\ Unsurprised =>
            /\ UNCHANGED <<store, agent, call, life>>
            /\ \A j \in Jobs : ~Alive(j)]_vars

\* Prompts, compactions, reload and disposal await each other, and each may be
\* cancelled, aborted or fail, yet they never all wait: as long as a call has
\* not returned some task can move. Every call makes finitely many steps, so
\* that all of them return.
NobodyStuck ==
    \/ \E c \in Prompts : Prompting(c)
    \/ \E j \in Jobs : Alive(j)
    \/ disposal.pc # None \/ life.reloading
    => ENABLED Progress

=============================================================================
