------------------------------ MODULE AgentRun ------------------------------
(***************************************************************************)
(* One Agent of oh_my_core and the Agent Loop it drives: the two message    *)
(* queues, the owned run task, the transcript and the abort signal.         *)
(*                                                                         *)
(* The program is single threaded: control changes hands only at an await.  *)
(* pc names the await at which the run task is suspended.  Almost all of    *)
(* them are an _emit, whose event is reduced into the Agent state before    *)
(* the listeners are awaited, so a step of the run task is: the listeners   *)
(* of the previous event settle, the code up to the next _emit runs, and    *)
(* the next event is reduced.  The callers (prompt, continue_, steer,       *)
(* followUp, abort, ...) step in between.                                   *)
(*                                                                         *)
(* The execution of one message's tool calls is a single wait here, with    *)
(* the outcomes that module ToolBatch gives it.                             *)
(***************************************************************************)
EXTENDS Integers, Sequences, FiniteSets

CONSTANTS
  UserMessages,  \* the user messages that callers may hand to the Agent
  MaxPrompts,    \* bound: messages of one prompt() call
  MaxToolTurns,  \* bound: tool-calling responses kept in the transcript
  CallCount,     \* tool calls of a tool-calling response
  Instances,     \* [faults, messages]: the faults the environment may have, and the
                 \* transcript the Agent is made with (initialState)
  None           \* "no injected message"

FaultKinds == {"listener", "cleanup", "batch", "early", "unstarted"}

(* Messages.  A payload is abstracted to what the loop branches on.         *)

User(m)         == [kind |-> "user", tag |-> m]
Assistant(stop) == [kind |-> "assistant", tag |-> stop]
ToolResult      == [kind |-> "toolResult", tag |-> "result"]

(* A response that an abort or an error cuts off after it has begun tool    *)
(* calls keeps them (_terminal_assistant replaces the stop reason of the    *)
(* partial message and no more): it is said as "cut".                       *)

(* The calls of every response that was finished are followed by their      *)
(* results; those of a cut one are never carried out.                       *)
Answered(seq) ==
  \A i \in DOMAIN seq :
    /\ seq[i] = Assistant("toolUse") =>
         \A k \in 1..CallCount : i + k \in DOMAIN seq /\ seq[i + k] = ToolResult
    /\ seq[i] = Assistant("cut") /\ i + 1 \in DOMAIN seq => seq[i + 1] # ToolResult

Said(seq) == {seq[k] : k \in DOMAIN seq}

(* The transcript that an Agent is made with has none of the messages that  *)
(* callers are going to give it; without faults its tool calls have their   *)
(* results.                                                                 *)
ASSUME AgentRunAssumption ==
  /\ MaxPrompts \in Nat \ {0}
  /\ MaxToolTurns \in Nat
  /\ CallCount \in Nat \ {0}
  /\ None \notin UserMessages
  /\ \A i \in Instances :
       /\ i.faults \subseteq FaultKinds
       /\ i.messages \in Seq(Said(i.messages))
       /\ \A m \in UserMessages : User(m) \notin Said(i.messages)
       /\ i.faults = {} => Answered(i.messages)

VARIABLES
  faults,     \* constant: the faults of this instance
  pc,         \* where the run task is suspended
  run,        \* Agent._run is not None
  aborted,    \* the run's AbortSignal
  committed,  \* _RunControl.terminalCommitted
  cancelling, \* a cancel() of the run task not yet delivered to it
  caller,     \* the prompt()/continue_() caller still awaits the run
  steering,   \* Agent._steering_queue
  followUp,   \* Agent._follow_up_queue
  messages,   \* AgentState.messages
  streaming,  \* AgentState.streamingMessage: none, one without calls or one with calls
  prompts,    \* prompt messages of the run still to be emitted
  polled,     \* the initial steering poll is done, or is to be skipped
  pending,    \* pending_injected
  response,   \* stopReason of the current response
  terminate,  \* what the tool batch asked for
  results,    \* tool results of the batch still to be emitted
  working,    \* working_messages: what the next model request contains
  produced,   \* produced: what AgentEnd will report
  outcome,    \* how the last run task ended
  fresh       \* user messages no caller has used yet

runVars   == <<pc, run, aborted, committed, cancelling, caller, outcome>>
queueVars == <<steering, followUp, fresh>>
loopVars  == <<prompts, polled, pending, response, terminate, results>>
textVars  == <<messages, streaming, working, produced>>
vars      == <<faults, runVars, queueVars, loopVars, textVars>>

-----------------------------------------------------------------------------
Final(seq)      == seq[Len(seq)]
Users(ms)       == [i \in 1..Len(ms) |-> User(ms[i])]
ToolTurns(seq)  == Cardinality({i \in DOMAIN seq : seq[i] = Assistant("toolUse")})

(* _validate_run: the tail must be something a model can answer.            *)
Answerable(seq) == seq # <<>> /\ Final(seq).kind \in {"user", "toolResult"}

EmitPoints ==
  {"AgentStart", "TurnStart", "PromptStart", "PromptEnd", "InjectStart",
   "InjectEnd", "StreamEmit", "ResponseStart", "ResponseEnd", "ResultStart",
   "ResultEnd", "TurnEnd", "TailStart", "TailEnd", "AgentEnd"}

Suspended == pc \in EmitPoints \cup {"Stream", "Tools"}

Init ==
  /\ \E i \in Instances : faults = i.faults /\ messages = i.messages
  /\ pc = "idle" /\ run = FALSE /\ aborted = FALSE /\ committed = FALSE
  /\ cancelling = FALSE /\ caller = FALSE /\ outcome = "none"
  /\ steering = <<>> /\ followUp = <<>> /\ fresh = UserMessages
  /\ prompts = <<>> /\ polled = FALSE /\ pending = None
  /\ response = "none" /\ terminate = FALSE /\ results = 0
  /\ streaming = "none" /\ working = <<>> /\ produced = <<>>

-----------------------------------------------------------------------------
(* The callers.                                                             *)

(* Agent._launch up to its shielded await: the run task is created but has  *)
(* not taken its first step.                                                *)
Launch(ms, skip) ==
  /\ run' = TRUE /\ pc' = "created" /\ caller' = TRUE
  /\ aborted' = FALSE /\ committed' = FALSE /\ cancelling' = FALSE
  /\ outcome' = "none"
  /\ prompts' = ms /\ polled' = skip /\ pending' = None
  /\ response' = "none" /\ terminate' = FALSE /\ results' = 0
  /\ working' = messages \o Users(ms)
  /\ produced' = Users(ms)
  /\ streaming' = "none"
  /\ UNCHANGED messages

(* Agent.prompt; a busy Agent refuses without a state change.               *)
Prompt(ms) ==
  /\ ~run
  /\ Launch(ms, FALSE)
  /\ fresh' = fresh \ {ms[i] : i \in DOMAIN ms}
  /\ UNCHANGED <<steering, followUp>>

(* Agent.continue_: after an assistant message the queues give the prompt,  *)
(* steering first; otherwise the transcript itself must be answerable.      *)
ContinueSteering ==
  /\ ~run /\ messages # <<>> /\ Final(messages).kind = "assistant"
  /\ steering # <<>>
  /\ Launch(<<Head(steering)>>, TRUE)
  /\ steering' = Tail(steering)
  /\ UNCHANGED <<followUp, fresh>>

ContinueFollowUp ==
  /\ ~run /\ messages # <<>> /\ Final(messages).kind = "assistant"
  /\ steering = <<>> /\ followUp # <<>>
  /\ Launch(<<Head(followUp)>>, FALSE)
  /\ followUp' = Tail(followUp)
  /\ UNCHANGED <<steering, fresh>>

ContinueTranscript ==
  /\ ~run /\ Answerable(messages)
  /\ Launch(<<>>, FALSE)
  /\ UNCHANGED queueVars

(* Agent.steer and Agent.followUp: at any time, busy or idle.               *)
Steer(m) ==
  /\ steering' = Append(steering, m)
  /\ fresh' = fresh \ {m}
  /\ UNCHANGED <<followUp, runVars, loopVars, textVars>>

FollowUp(m) ==
  /\ followUp' = Append(followUp, m)
  /\ fresh' = fresh \ {m}
  /\ UNCHANGED <<steering, runVars, loopVars, textVars>>

ClearSteeringQueue ==
  /\ steering # <<>> /\ steering' = <<>>
  /\ UNCHANGED <<followUp, fresh, runVars, loopVars, textVars>>

ClearFollowUpQueue ==
  /\ followUp # <<>> /\ followUp' = <<>>
  /\ UNCHANGED <<steering, fresh, runVars, loopVars, textVars>>

ClearAllQueues ==
  /\ steering' = <<>> /\ followUp' = <<>>
  /\ UNCHANGED <<fresh, runVars, loopVars, textVars>>

(* Agent.reset and the AgentState.messages setter (which compaction uses to *)
(* shorten the transcript) both refuse while a run is active.               *)
Reset ==
  /\ ~run
  /\ messages' = <<>> /\ steering' = <<>> /\ followUp' = <<>>
  /\ UNCHANGED <<fresh, streaming, working, produced, runVars, loopVars>>

SetMessages ==
  /\ ~run /\ messages # <<>>
  /\ messages' = Tail(messages)
  /\ UNCHANGED <<streaming, working, produced, runVars, loopVars, queueVars>>

(* A cancel() may come while the task waits, or before its first step.      *)
Cancellable == Suspended \/ (pc = "created" /\ "early" \in faults)

(* Agent.abort from another task: requestCancellation() then task.cancel(). *)
Abort ==
  /\ run /\ ~committed /\ ~aborted /\ Cancellable
  /\ aborted' = TRUE /\ cancelling' = TRUE
  /\ UNCHANGED <<pc, run, committed, caller, outcome, queueVars, loopVars, textVars>>

(* Agent.abort called by a listener inside the run task: the current task   *)
(* is not cancelled, only the signal is raised.                             *)
AbortInListener ==
  /\ run /\ ~committed /\ ~aborted
  /\ pc \in EmitPoints \cup {"Tools"}
  /\ aborted' = TRUE
  /\ UNCHANGED <<pc, run, committed, cancelling, caller, outcome,
                 queueVars, loopVars, textVars>>

(* _launch's except branch: the task awaiting prompt() is cancelled; the    *)
(* run task is cancelled even when it was aborted before.                   *)
CancelCaller ==
  /\ caller /\ Cancellable
  /\ caller' = FALSE
  /\ aborted' = (aborted \/ ~committed)
  /\ cancelling' = TRUE
  /\ UNCHANGED <<pc, run, committed, outcome, queueVars, loopVars, textVars>>

-----------------------------------------------------------------------------
(* The run task.  Every step delivers a pending cancel: a listener that is  *)
(* cancelled is treated as settled (_dispatch uncancels and goes on).       *)

RunKeeps == cancelling' = FALSE /\ UNCHANGED <<run, aborted, caller, outcome, fresh>>

Emit(point) == pc' = point

StartTask ==
  /\ pc = "created" /\ ~cancelling
  /\ Emit("AgentStart")
  /\ RunKeeps
  /\ UNCHANGED <<committed, steering, followUp, loopVars, textVars>>

(* The coroutine of _drive_run is closed before its try: its finally clause *)
(* never runs, and Agent._run keeps naming a task that is over.             *)
CancelledBeforeStart ==
  /\ pc = "created" /\ cancelling
  /\ pc' = "orphan" /\ outcome' = "cancelled"
  /\ cancelling' = FALSE /\ caller' = FALSE /\ prompts' = <<>>
  /\ UNCHANGED <<run, aborted, committed, queueVars, polled, pending, response,
                 terminate, results, textVars>>

AfterAgentStart ==
  /\ pc = "AgentStart"
  /\ Emit("TurnStart")
  /\ RunKeeps
  /\ UNCHANGED <<committed, steering, followUp, loopVars, textVars>>

(* An aborted run does not call the model: it commits an aborted response.  *)
RequestModel ==
  IF aborted
    THEN Emit("ResponseStart") /\ response' = "aborted" /\ streaming' = "text"
    ELSE pc' = "Stream" /\ response' = "none" /\ UNCHANGED streaming

(* The head of a turn once the prompts are emitted: the one initial poll of *)
(* the steering queue, then the injected message or the model request.      *)
(* (Mutant: the poll of every turn, over what the stop poll has taken.)     *)
OpenTurnPolling ==
  /\ IF steering # <<>>
       THEN pending' = Head(steering) /\ steering' = Tail(steering)
       ELSE UNCHANGED <<pending, steering>>
  /\ polled' = TRUE
  /\ IF pending' # None
       THEN Emit("InjectStart") /\ UNCHANGED <<response, streaming>>
       ELSE RequestModel

OpenTurn ==
  /\ IF ~polled /\ steering # <<>>
       THEN pending' = Head(steering) /\ steering' = Tail(steering)
       ELSE UNCHANGED <<pending, steering>>
  /\ polled' = TRUE
  /\ IF pending' # None
       THEN Emit("InjectStart") /\ UNCHANGED <<response, streaming>>
       ELSE RequestModel

AfterTurnStart ==
  /\ pc = "TurnStart"
  /\ IF prompts # <<>>
       THEN /\ Emit("PromptStart")
            /\ UNCHANGED <<polled, pending, response, streaming, steering>>
       ELSE OpenTurn
  /\ RunKeeps
  /\ UNCHANGED <<committed, followUp, prompts, terminate, results, messages,
                 working, produced>>

AfterPromptStart ==
  /\ pc = "PromptStart"
  /\ Emit("PromptEnd")
  /\ messages' = Append(messages, User(Head(prompts)))
  /\ streaming' = "none"
  /\ prompts' = Tail(prompts)
  /\ RunKeeps
  /\ UNCHANGED <<committed, steering, followUp, polled, pending, response,
                 terminate, results, working, produced>>

AfterPromptEnd ==
  /\ pc = "PromptEnd"
  /\ IF prompts # <<>>
       THEN /\ Emit("PromptStart")
            /\ UNCHANGED <<polled, pending, response, streaming, steering>>
       ELSE OpenTurn
  /\ RunKeeps
  /\ UNCHANGED <<committed, followUp, prompts, terminate, results, messages,
                 working, produced>>

AfterInjectStart ==
  /\ pc = "InjectStart"
  /\ Emit("InjectEnd")
  /\ messages' = Append(messages, User(pending))
  /\ streaming' = "none"
  /\ RunKeeps
  /\ UNCHANGED <<committed, steering, followUp, loopVars, working, produced>>

AfterInjectEnd ==
  /\ pc = "InjectEnd"
  /\ produced' = Append(produced, User(pending))
  /\ working' = Append(working, User(pending))
  /\ pending' = None
  /\ RequestModel
  /\ RunKeeps
  /\ UNCHANGED <<committed, steering, followUp, prompts, polled, terminate,
                 results, messages>>

(* The loop looks at the signal before it takes the next provider event.    *)
(* (Mutant: it reads on after an abort.)                                    *)
StreamUnchecked == pc = "Stream"

StreamOpen == pc = "Stream" /\ ~aborted

(* _consume_response_events: a start or an update of the response, which    *)
(* may begin a tool call; what has been begun stays in the partial message. *)
StreamEvent ==
  /\ StreamOpen
  /\ Emit("StreamEmit")
  /\ streaming' \in {"text", "calls"}
  /\ streaming = "none" => streaming' = "text"
  /\ streaming = "calls" => streaming' = "calls"
  /\ RunKeeps
  /\ UNCHANGED <<committed, steering, followUp, loopVars, messages, working, produced>>

AfterStreamEmit ==
  /\ pc = "StreamEmit"
  /\ pc' = "Stream"
  /\ RunKeeps
  /\ UNCHANGED <<committed, steering, followUp, loopVars, textVars>>

(* A response that fails or is aborted is the partial message under another *)
(* stop reason.                                                             *)
Settled(stop) ==
  Assistant(IF stop \in {"error", "aborted"} /\ streaming = "calls" THEN "cut" ELSE stop)

(* A settled response joins produced and working_messages, then MessageEnd  *)
(* is emitted, whose reduction joins it to the transcript.                  *)
(* (Mutant: the response is left out of working_messages.)                  *)
EndResponseUnsent(stop) ==
  /\ response' = stop /\ UNCHANGED working
  /\ produced' = Append(produced, Settled(stop))
  /\ messages' = Append(messages, Settled(stop))
  /\ streaming' = "none" /\ Emit("ResponseEnd")

EndResponse(stop) ==
  /\ response' = stop
  /\ produced' = Append(produced, Settled(stop))
  /\ working' = Append(working, Settled(stop))
  /\ messages' = Append(messages, Settled(stop))
  /\ streaming' = "none"
  /\ Emit("ResponseEnd")

(* A response that fails or is cancelled before its start event is given    *)
(* its MessageStart first.                                                  *)
StartAndEnd(stop) ==
  IF streaming # "none"
    THEN EndResponse(stop)
    ELSE /\ Emit("ResponseStart") /\ response' = stop /\ streaming' = "text"
         /\ UNCHANGED <<messages, working, produced>>

StreamDone(stop) ==
  /\ StreamOpen
  \* a provider starts before it ends, and ends with the calls it has shown
  /\ stop = "stop" => streaming = "text"
  /\ stop = "toolUse" => streaming = "calls"
  /\ stop = "toolUse" => ToolTurns(messages) < MaxToolTurns
  /\ StartAndEnd(stop)
  /\ RunKeeps
  /\ UNCHANGED <<committed, steering, followUp, prompts, polled, pending,
                 terminate, results>>

(* The stream's very first event may be a terminal error (a request that    *)
(* fails before any content does so): the response then has no start event, *)
(* and the loop commits it all the same.                                    *)
StreamErrorFirst ==
  /\ StreamOpen /\ streaming = "none"
  /\ "unstarted" \in faults
  /\ EndResponse("error")
  /\ RunKeeps
  /\ UNCHANGED <<committed, steering, followUp, prompts, polled, pending,
                 terminate, results>>

StreamAborted ==
  /\ pc = "Stream" /\ aborted
  /\ StartAndEnd("aborted")
  /\ RunKeeps
  /\ UNCHANGED <<committed, steering, followUp, prompts, polled, pending,
                 terminate, results>>

AfterResponseStart ==
  /\ pc = "ResponseStart"
  /\ EndResponse(response)
  /\ RunKeeps
  /\ UNCHANGED <<committed, steering, followUp, prompts, polled, pending,
                 terminate, results>>

AfterResponseEnd ==
  /\ pc = "ResponseEnd"
  /\ IF response = "toolUse" THEN pc' = "Tools" ELSE Emit("TurnEnd")
  /\ RunKeeps
  /\ UNCHANGED <<committed, steering, followUp, loopVars, textVars>>

(* _process_tool_calls as the loop sees it: one result per call ...         *)
ToolsSettle(t) ==
  /\ pc = "Tools"
  /\ terminate' = t /\ results' = CallCount
  /\ Emit("ResultStart")
  /\ RunKeeps
  /\ UNCHANGED <<committed, steering, followUp, prompts, polled, pending,
                 response, textVars>>

AfterResultStart ==
  /\ pc = "ResultStart"
  /\ Emit("ResultEnd")
  /\ messages' = Append(messages, ToolResult)
  /\ streaming' = "none"
  /\ results' = results - 1
  /\ RunKeeps
  /\ UNCHANGED <<committed, steering, followUp, prompts, polled, pending,
                 response, terminate, working, produced>>

MoreResults == results > 0

(* (Mutant: one result too few is sent on.)                                 *)
AllButLastResult == [i \in 1..(CallCount - 1) |-> ToolResult]
BatchResults     == [i \in 1..CallCount |-> ToolResult]

(* working_messages takes the whole batch at once, after its last result.   *)
AfterResultEnd ==
  /\ pc = "ResultEnd"
  /\ produced' = Append(produced, ToolResult)
  /\ IF MoreResults
       THEN Emit("ResultStart") /\ UNCHANGED working
       ELSE Emit("TurnEnd") /\ working' = working \o BatchResults
  /\ RunKeeps
  /\ UNCHANGED <<committed, steering, followUp, loopVars, messages, streaming>>

(* terminalCommitted is set before AgentEnd is emitted: no abort after it.  *)
Finish == committed' = TRUE /\ Emit("AgentEnd")

(* The stopping poll looks at both queues, the turn poll at steering only.  *)
(* (Mutants: a polled message stays queued; follow-ups are never polled.)   *)
PollPeeking(both) ==
  /\ pending' = IF steering # <<>> THEN Head(steering)
                ELSE IF both /\ followUp # <<>> THEN Head(followUp) ELSE pending
  /\ UNCHANGED <<steering, followUp>>

PollSteering(both) ==
  IF steering # <<>>
    THEN pending' = Head(steering) /\ steering' = Tail(steering) /\ UNCHANGED followUp
    ELSE UNCHANGED <<pending, steering, followUp>>

Poll(both) ==
  IF steering # <<>>
    THEN pending' = Head(steering) /\ steering' = Tail(steering) /\ UNCHANGED followUp
    ELSE IF both /\ followUp # <<>>
      THEN pending' = Head(followUp) /\ followUp' = Tail(followUp) /\ UNCHANGED steering
      ELSE UNCHANGED <<pending, steering, followUp>>

Stopping == response = "stop" \/ terminate

(* A settled response of an aborted run is followed by an aborted one.      *)
NeedsTail == aborted

AfterTurnEnd ==
  /\ pc = "TurnEnd"
  /\ \/ /\ response \in {"error", "aborted"}
        /\ Finish
        /\ UNCHANGED <<pending, steering, followUp, streaming>>
     \/ /\ response \in {"stop", "toolUse"} /\ NeedsTail
        /\ Emit("TailStart") /\ streaming' = "text"
        /\ UNCHANGED <<committed, pending, steering, followUp>>
     \/ /\ response \in {"stop", "toolUse"} /\ ~NeedsTail
        /\ Poll(Stopping)
        /\ IF Stopping /\ pending' = None
             THEN Finish
             ELSE Emit("TurnStart") /\ UNCHANGED committed
        /\ UNCHANGED streaming
  /\ RunKeeps
  /\ UNCHANGED <<prompts, polled, response, terminate, results, messages,
                 working, produced>>

(* _append_aborted_tail: an abort that found a settled response is reported *)
(* by an aborted assistant message of its own.                              *)
AfterTailStart ==
  /\ pc = "TailStart"
  /\ Emit("TailEnd")
  /\ messages' = Append(messages, Assistant("aborted"))
  /\ streaming' = "none"
  /\ RunKeeps
  /\ UNCHANGED <<committed, steering, followUp, loopVars, working, produced>>

AfterTailEnd ==
  /\ pc = "TailEnd"
  /\ produced' = Append(produced, Assistant("aborted"))
  /\ Finish
  /\ RunKeeps
  /\ UNCHANGED <<steering, followUp, loopVars, messages, streaming, working>>

(* The end of the task: _drive_run's finally clause frees the Agent, and    *)
(* what the task held in its frame is gone.                                 *)
Free == run' = FALSE /\ caller' = FALSE

EndTask(how) ==
  /\ pc' = "idle" /\ outcome' = how /\ Free
  /\ cancelling' = FALSE /\ streaming' = "none"
  /\ prompts' = <<>> /\ pending' = None
  /\ UNCHANGED <<committed, queueVars, polled, response, terminate, results,
                 messages, working, produced>>

AfterAgentEnd ==
  /\ pc = "AgentEnd"
  /\ EndTask("returned")
  /\ UNCHANGED aborted

(* A failing listener ends the run with a LifecycleError, as does a stream  *)
(* whose cleanup fails after an abort; both raise the signal first.         *)
ListenerFails ==
  /\ "listener" \in faults
  /\ pc \in EmitPoints \cup {"Tools"}
  /\ EndTask("lifecycle")
  /\ aborted' = (aborted \/ ~committed)

CleanupFails ==
  /\ "cleanup" \in faults
  /\ pc \in {"Stream", "Tools"} /\ aborted
  /\ EndTask("lifecycle")
  /\ UNCHANGED aborted

(* ... a stream that ends without a response, or whose closing fails after  *)
(* a stream error, ends it with that exception.                             *)
StreamBroken ==
  /\ "cleanup" \in faults
  /\ StreamOpen
  /\ EndTask("exception")
  /\ UNCHANGED aborted

(* ... and a batch whose tasks are cancelled outside their own handlers     *)
(* ends it as cancelled: no result, no TurnEnd, no AgentEnd.                *)
ToolsCancelled ==
  /\ "batch" \in faults
  /\ pc = "Tools" /\ cancelling
  /\ EndTask("cancelled")
  /\ UNCHANGED aborted

-----------------------------------------------------------------------------
Fallible == ListenerFails \/ CleanupFails \/ StreamBroken \/ ToolsCancelled

RunStep ==
  /\ UNCHANGED faults
  /\ \/ StartTask \/ CancelledBeforeStart \/ AfterAgentStart \/ AfterTurnStart
     \/ AfterPromptStart \/ AfterPromptEnd \/ AfterInjectStart \/ AfterInjectEnd
     \/ StreamEvent \/ AfterStreamEmit \/ (\E s \in {"stop", "toolUse", "error"} : StreamDone(s))
     \/ StreamErrorFirst \/ StreamAborted \/ AfterResponseStart \/ AfterResponseEnd
     \/ (\E t \in BOOLEAN : ToolsSettle(t)) \/ AfterResultStart \/ AfterResultEnd
     \/ AfterTurnEnd \/ AfterTailStart \/ AfterTailEnd \/ AfterAgentEnd
     \/ Fallible

PromptLists ==
  UNION {{ms \in [1..n -> fresh] : \A i, j \in 1..n : ms[i] = ms[j] => i = j} :
           n \in 1..MaxPrompts}

Discard ==
  ClearSteeringQueue \/ ClearFollowUpQueue \/ ClearAllQueues \/ Reset \/ SetMessages

CallerStep ==
  /\ UNCHANGED faults
  /\ \/ \E ms \in PromptLists : Prompt(ms)
     \/ ContinueSteering \/ ContinueFollowUp \/ ContinueTranscript
     \/ \E m \in fresh : Steer(m) \/ FollowUp(m)
     \/ Discard
     \/ Abort \/ AbortInListener \/ CancelCaller

Next == CallerStep \/ RunStep

Spec == Init /\ [][Next]_vars

(* The event loop runs a ready task, and listeners, streams and tools       *)
(* settle: the run task always takes its next step.  Callers owe nothing.   *)
FairSpec == Spec /\ WF_vars(RunStep)

-----------------------------------------------------------------------------
(* Properties.                                                              *)

Count(seq, e) == Cardinality({i \in DOMAIN seq : seq[i] = e})

(* What the run task holds in its frame: popped from a queue or handed to   *)
(* prompt(), and not yet in the transcript.                                 *)
InFlight(m) ==
  Count(prompts, m) + (IF pending = m /\ pc # "InjectEnd" THEN 1 ELSE 0)

Held(m) ==
  Count(steering, m) + Count(followUp, m) + InFlight(m) + Count(messages, User(m))

(* A message a caller has given is in one place, in a queue, in the frame   *)
(* of the run or in the transcript, and never in two, whatever the polls of *)
(* turns, stops and continue_ do; it leaves only when a caller discards it, *)
(* or in the frame of a run that ends in failure between taking it from its *)
(* queue and the reduction of its MessageEnd.                               *)
KeptOnce ==
  [][\A m \in UserMessages :
       \/ Held(m)' = IF m \in fresh' THEN 0 ELSE 1
       \/ Held(m)' = 0
            /\ \/ Held(m) = 0 \/ Discard
               \/ InFlight(m) = 1 /\ outcome' \notin {"none", "returned"}]_vars

(* A run that was neither aborted nor failed commits its end only with both *)
(* queues empty: nothing accepted before the last poll waits for a new run. *)
QueuesDrained ==
  [][committed' /\ ~committed /\ ~aborted /\ response # "error" =>
       steering = <<>> /\ followUp = <<>>]_vars

(* The three copies of the transcript agree wherever one is used: the model *)
(* is asked about exactly what listeners, the session file and the next run *)
(* see, and AgentEnd reports exactly what the run has added to it.          *)
TranscriptsAgree ==
  /\ pc = "Stream" => working = messages
  /\ pc = "AgentEnd" =>
       /\ Len(produced) <= Len(messages)
       /\ produced = SubSeq(messages, Len(messages) - Len(produced) + 1, Len(messages))

(* In what the model is shown, every tool call of a response that was       *)
(* finished has its results, whatever callers, polls and aborts did since   *)
(* (no listener failure, no cancelled batch).  Calls that an aborted or a   *)
(* failed response had begun are shown too, and have none: the loop ends    *)
(* the turn without them and nothing takes them out.                        *)
ToolCallsAnswered == pc = "Stream" /\ faults = {} => Answered(working)

(* An abort ends the run: under fairness of the run task alone, whatever    *)
(* callers do meanwhile, an aborted run that has started frees the Agent.   *)
AbortEndsRun == (aborted /\ Suspended) ~> ~run
=============================================================================
