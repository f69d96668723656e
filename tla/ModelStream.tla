---------------------------- MODULE ModelStream -----------------------------
(***************************************************************************)
(* Models.stream: an EventStream whose producer consumes a provider, that  *)
(* is DeepSeek (providers/deepseek.py) or the faux provider (_faux.py).    *)
(* The provider runs between two awaits without a break, so one step of it *)
(* emits all the events of one payload.  `op' is the frame of the          *)
(* provider's generator.                                                   *)
(***************************************************************************)
EXTENDS EventStream, StreamEvents

CONSTANTS
    Payloads,      \* server-sent payloads of DeepSeek, see NoPayload
    MaxPayloads,
    Responses      \* contents of faux responses

ASSUME ModelStreamAssumption ==
    /\ MaxPayloads \in Nat
    /\ \A content \in Responses : content \in Seq(ToSet(content))
    /\ Payloads \subseteq [text : Seq(STRING), tool : Nat, names : Nat, frag : Seq(STRING),
                            usage : BOOLEAN, finish : STRING, invalid : STRING]

VARIABLES op

vars == <<streamVars, op>>

(***************************************************************************)
(* The frame.  content is `partial.content', latest what the operation     *)
(* remembers of it for a terminal error, textAt the index of the text      *)
(* block, tools the calls by their index on the wire, v the validator.     *)
(* refused: the validator has refused an event.                            *)
(***************************************************************************)
NewOperation(provider) ==
    [provider |-> provider, phase |-> "request", fed |-> 0,
     content |-> <<>>, latest |-> <<>>, textAt |-> 0, tools |-> <<>>,
     finish |-> "none", usage |-> FALSE, broken |-> FALSE, refused |-> FALSE,
     v |-> NewValidator, out |-> <<>>]

\* A payload with nothing in it.  A tool delta has the call's index on the
\* wire (1 and so on), whether it extends the identity, and the arguments' fragment;
\* an invalid payload is refused before or after its text and tool delta.
NoPayload == [text |-> <<>>, tool |-> 0, names |-> 0, frag |-> <<>>,
              usage |-> FALSE, finish |-> "none", invalid |-> "no"]

\* validator.accept, yield, and remember of what the consumer's loop was given.
Yield(o, e) ==
    IF o.broken \/ o.refused THEN o
    ELSE IF Accepts(o.v, e)
    THEN [o EXCEPT !.v = Accept(@, e), !.latest = e.content, !.out = Append(@, e)]
    ELSE [o EXCEPT !.refused = TRUE]

SetContent(o, content) == [o EXCEPT !.content = content, !.latest = content]

\* "?" is a fragment that no event can carry: a lone surrogate.
Garbled(frag) == frag = <<"?">>

TextPart(o, p) ==
    IF p.text = <<>> THEN o
    ELSE LET at == IF o.textAt = 0 THEN Len(o.content) + 1 ELSE o.textAt
             opened == IF o.textAt # 0 THEN o
                       ELSE LET c == Append(o.content, TextBlock(<<>>))
                            IN  [Yield(o, Event("text_start", at, <<>>, c))
                                    EXCEPT !.textAt = at, !.content = c, !.latest = c]
             grown == [opened.content EXCEPT ![at].text = @ \o p.text]
         IN  IF Garbled(p.text) THEN [opened EXCEPT !.broken = TRUE]
             ELSE Yield(SetContent(opened, grown), Event("text_delta", at, p.text, grown))

\* _StreamingToolCall: the calls after a delta.
Tools(o, p) ==
    IF p.tool \in DOMAIN o.tools
    THEN [o.tools EXCEPT ![p.tool].frags = @ \o p.frag]
    ELSE Append(o.tools, [at |-> Len(o.content) + 1, frags |-> p.frag])

ToolPart(o, p) ==
    IF p.tool = 0 \/ o.broken THEN o
    ELSE LET new == p.tool \notin DOMAIN o.tools
             tools == Tools(o, p)
             at == tools[p.tool].at
             c == Append(o.content, ToolBlock(p.names, <<>>))
             opened == IF new THEN Yield(SetContent(o, c), Event("toolcall_start", at, <<>>, c))
                              ELSE [o EXCEPT !.content[at].names = @ + p.names]
             grown == [opened.content EXCEPT ![at].args = ArgumentsAfter(tools[p.tool].frags, @)]
             ready == SetContent([opened EXCEPT !.tools = tools], grown)
         IN  IF Garbled(p.frag) THEN [ready EXCEPT !.broken = TRUE]
             ELSE Yield(ready, Event("toolcall_delta", at, p.frag, grown))

FinishPart(o, p) == IF p.finish = "none" THEN o ELSE [o EXCEPT !.finish = p.finish]

\* One pass of the loop over payloads.
AfterPayload(o, p) ==
    LET seen == [o EXCEPT !.fed = @ + 1, !.usage = @ \/ p.usage]
        done == FinishPart(ToolPart(TextPart(seen, p), p), p)
    IN  CASE o.usage \/ p.invalid = "early" -> [seen EXCEPT !.broken = TRUE]
          [] p.invalid = "late" -> [done EXCEPT !.broken = TRUE]
          [] OTHER -> done

\* The End of block i; a tool call's arguments are read once more.
EndBlock(o, i) ==
    IF o.content[i].kind = "text"
    THEN Yield(o, Event("text_end", i, o.content[i].text, o.content))
    ELSE LET t == CHOOSE t \in ToSet(o.tools) : t.at = i
             c == [o.content EXCEPT ![i].args = t.frags]
         IN  IF IsObject(t.frags)
             THEN Yield(SetContent(o, c), Event("toolcall_end", i, <<>>, c))
             ELSE [o EXCEPT !.broken = TRUE]

\* From the end of the payloads to the done event.  (Mutant: a response that
\* ends without its usage is taken for done.)
ConcludedUnmetered(o) ==
    LET ended == FoldLeft(LAMBDA a, i : IF a.broken THEN a ELSE EndBlock(a, i),
                          o, [i \in DOMAIN o.content |-> i])
    IN  IF ended.broken \/ ended.finish = "none" THEN [ended EXCEPT !.broken = TRUE]
        ELSE Yield(ended, Event("done", 0, <<>>, ended.content))

Concluded(o) ==
    LET ended == FoldLeft(LAMBDA a, i : IF a.broken THEN a ELSE EndBlock(a, i),
                          o, [i \in DOMAIN o.content |-> i])
    IN  IF ended.broken \/ ended.finish = "none" \/ ~ended.usage
        THEN [ended EXCEPT !.broken = TRUE]
        ELSE Yield(ended, Event("done", 0, <<>>, ended.content))

\* _terminal_error: what _stream_simple makes of a failure it classifies.
Failed(o, reason) ==
    LET f == Yield([o EXCEPT !.broken = FALSE, !.refused = FALSE],
                   Event(reason, 0, <<>>, o.latest))
    IN  [f EXCEPT !.refused = @ \/ o.refused]

\* The faux provider: every event of a response it has as a whole.
FauxBlock(o, i, block) ==
    LET empty == Append(o.content, TextBlock(<<>>))
        full == Append(o.content, block)
        done == IF block.kind = "text"
                THEN Yield(Yield(Yield(o, Event("text_start", i, <<>>, empty)),
                                 Event("text_delta", i, block.text, full)),
                           Event("text_end", i, block.text, full))
                ELSE Yield(Yield(o, Event("toolcall_start", i, <<>>, full)),
                           Event("toolcall_end", i, <<>>, full))
    IN  [done EXCEPT !.content = full]

FauxResponse(o, content, reason) ==
    LET started == Yield(o, Event("start", 0, <<>>, <<>>))
        blocks == FoldLeft(LAMBDA a, i : FauxBlock(a, i, content[i]),
                           started, [i \in DOMAIN content |-> i])
    IN  Yield(blocks, Event(reason, 0, <<>>, content))

----------------------------------------------------------------------------

Over(o) == o.v.over
New(o) == SubSeq(o.out, Len(op.out) + 1, Len(o.out))

\* _consume_simple: the events so far go to emit; the last one is the result.
Deliver(o, outcome) ==
    /\ op' = [o EXCEPT !.phase = IF outcome = "none" THEN @ ELSE "over"]
    /\ Produce(New(o), outcome)

\* A failure becomes a terminal error, unless the validator refuses that too.
DeliverFailure(o, reason) ==
    LET f == Failed(o, reason)
    IN  Deliver(f, IF Over(f) THEN "value" ELSE "error")

\* A payload or the end of the response, with whatever it comes to.
DeliverOrFail(o) ==
    IF o.broken \/ o.refused THEN DeliverFailure(o, "error")
    ELSE Deliver(o, IF Over(o) THEN "value" ELSE "none")

Working == producer = "working" /\ ~prodHit
Streaming == Working /\ op.phase = "streaming"

\* The provider refuses the request, or the faux one has no response: no event.
RequestInvalid ==
    /\ Working /\ op.phase = "request"
    /\ Deliver(op, "error")

\* No key, no connection, or a status other than 200.
RequestFails ==
    /\ Working /\ op.phase = "request" /\ op.provider = "deepseek"
    /\ DeliverFailure(op, "error")

ResponseStarts ==
    /\ Working /\ op.phase = "request" /\ op.provider = "deepseek"
    /\ Deliver([Yield(op, Event("start", 0, <<>>, <<>>)) EXCEPT !.phase = "streaming"], "none")

FauxResponds ==
    /\ Working /\ op.phase = "request" /\ op.provider = "faux"
    /\ \E content \in Responses, reason \in {"done", "error"} :
          DeliverOrFail(FauxResponse(op, content, reason))

Payload ==
    /\ Streaming /\ op.fed < MaxPayloads
    /\ \E p \in Payloads :
          /\ p.tool <= Len(op.tools) + 1
          /\ DeliverOrFail(AfterPayload(op, p))

\* [DONE], and nothing after it.
ResponseEnds == Streaming /\ DeliverOrFail(Concluded(op))

\* The transport breaks, or ends without [DONE].
ResponseBreaks == Streaming /\ DeliverFailure(op, "error")

\* The client or the response cannot be closed: a lifecycle error, not an event.
CleanupFails == Streaming /\ Deliver(op, "error")

\* The cancel that a settling client sent: the signal is raised, so DeepSeek
\* answers with an aborted message, unless its cleanup fails; faux just ends.
ProviderCancelled ==
    /\ producer = "working" /\ prodHit
    /\ \/ op.provider = "deepseek" /\ DeliverFailure(op, "aborted")
       \/ Deliver(op, "error")

ModelInit ==
    /\ Init
    /\ \E p \in {"deepseek", "faux"} : op = NewOperation(p)

Provide ==
    \/ RequestInvalid \/ RequestFails \/ ResponseStarts \/ FauxResponds
    \/ Payload \/ ResponseEnds \/ ResponseBreaks \/ CleanupFails \/ ProviderCancelled

RunsTask == ProducerStarts \/ CancelledBeforeStart

Next ==
    \/ \E c \in Clients : (Call(c) \/ CancelClient(c) \/ Resume(c)) /\ UNCHANGED op
    \/ RunsTask /\ UNCHANGED op
    \/ Provide

\* Every ready task runs, and every response ends: a working provider does not
\* go on for ever (weak fairness of Provide, whose guard is `working').
Fairness ==
    /\ \A c \in Clients : WF_streamVars(Resume(c) /\ UNCHANGED op)
    /\ WF_streamVars(RunsTask /\ UNCHANGED op)
    /\ []<>(producer # "working")

Spec == ModelInit /\ [][Next]_vars /\ Fairness

----------------------------------------------------------------------------

\* The consumer is given what the provider emitted, in its order and without a
\* gap, and is told that the stream is exhausted only when it has had all of it
\* (_streams.py __anext__, _run, aclose).
EventsInOrder ==
    /\ IsPrefix(got, sent)
    /\ exhausted => got = sent

\* Once a stream is closed, or a call that discarded its events is over, the
\* producer's task is over (_streams.py _cancel_and_settle): nothing of a
\* request outlives the calls that ended it.
NothingOutlives ==
    (closed \/ (discard /\ \A c \in Clients : pc[c] # "settling"))
        => producer \in {"absent", "ended"}

\* The fragments of block i that the events sent carry.
Fragments(i, type) ==
    FlattenSeq([k \in DOMAIN sent |->
        IF sent[k].type = type /\ sent[k].at = i THEN sent[k].delta ELSE <<>>])

\* A message that is done is complete: every text is the fragments that came,
\* every tool call has the arguments whose fragments came, and a finish reason
\* and the usage have been seen; without those the stream ends with an error
\* (deepseek.py _stream_simple_operation).
DoneIsComplete ==
    (op.provider = "deepseek" /\ sent # <<>> /\ Last(sent).type = "done") =>
        /\ op.finish # "none" /\ op.usage
        /\ \A i \in DOMAIN Last(sent).content :
              LET b == Last(sent).content[i]
              IN  IF b.kind = "text" THEN b.text = Fragments(i, "text_delta")
                  ELSE b.args = Fragments(i, "toolcall_delta") /\ IsObject(b.args)

\* Calls that nothing will wake: of a consumer whose events are discarded, by a
\* close in another task or by its own cancel that it swallowed, and any call on
\* a stream whose task was cancelled before it began.
Stillborn == producer = "ended" /\ result = "pending"
Deserted(c) ==
    \/ pc[c] = "waiting" /\ (discard \/ Stillborn)
    \/ pc[c] = "resulting" /\ Stillborn

\* Every other call returns, whatever the tasks do to each other (_streams.py).
CallsReturn == \A c \in Clients : pc[c] # "idle" ~> (pc[c] = "idle" \/ Deserted(c))

=============================================================================
