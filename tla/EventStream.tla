---------------------------- MODULE EventStream -----------------------------
(***************************************************************************)
(* EventStream of oh_my_llm/_streams.py: tasks (`Clients') iterate over a  *)
(* stream, await its result and close it, while the stream's own task runs *)
(* the producer.  A step runs from one await to the next; `hit' and        *)
(* `prodHit' are cancels that asyncio has yet to deliver.  What the        *)
(* producer emits is up to the module that composes this one with it.      *)
(***************************************************************************)
EXTENDS Naturals, Sequences, SequencesExt, FiniteSets

CONSTANTS Clients, MaxCalls, MaxHits, Nobody

ASSUME EventStreamAssumption ==
    /\ Nobody \notin Clients
    /\ {MaxCalls, MaxHits} \subseteq Nat

VARIABLES
    closed, discard,     \* _closed, _discardEvents
    consumer,            \* _consumerTask
    queue,               \* _queue: events, and End
    signalled,           \* the abort signal
    producer,            \* the task of _run: absent, created, working, ended
    prodHit,
    result,              \* _result: none, pending, value, error
    pc,                  \* each client: idle, waiting, resulting, settling
    why,                 \* for which call a client settles the producer
    woken,               \* _available was set since the consumer waits
    hit,
    calls, hits,         \* bounded by MaxCalls and MaxHits
    sent, got,           \* history: all events emitted, all events consumed
    exhausted            \* history: the consumer has come to End

\* _END: no event, what _run puts behind the last one.
End == [end |-> TRUE]

streamVars == <<closed, discard, consumer, queue, signalled, producer, prodHit,
                result, pc, why, woken, hit, calls, hits, sent, got, exhausted>>

Init ==
    /\ closed = FALSE /\ discard = FALSE /\ signalled = FALSE
    /\ consumer = Nobody
    /\ queue = <<>> /\ sent = <<>> /\ got = <<>> /\ exhausted = FALSE
    /\ producer = "absent" /\ prodHit = FALSE /\ result = "none"
    /\ pc = [c \in Clients |-> "idle"]
    /\ why = [c \in Clients |-> "next"]
    /\ woken = FALSE
    /\ hit = [c \in Clients |-> FALSE]
    /\ calls = [c \in Clients |-> 0]
    /\ hits = 0

Activated == producer # "absent"

\* _activate, where it does not refuse.
Activate ==
    IF Activated THEN UNCHANGED <<producer, result>>
                 ELSE producer' = "created" /\ result' = "pending"

Called(c) == pc[c] = "idle" /\ calls[c] < MaxCalls /\ calls' = [calls EXCEPT ![c] = @ + 1]

\* __anext__ after its wait: the next item of a queue that has one.
TakeItem(c) ==
    IF Head(queue) = End
    THEN /\ discard' = TRUE /\ closed' = TRUE /\ exhausted' = TRUE
         /\ queue' = <<>>
         /\ UNCHANGED got
    ELSE /\ got' = Append(got, Head(queue))
         /\ queue' = Tail(queue)
         /\ UNCHANGED <<discard, closed, exhausted>>

\* __anext__ up to its first await, or to its end if it needs none.
CallNext(c) ==
    /\ Called(c)
    /\ consumer \in {Nobody, c}
    /\ consumer' = c
    /\ IF closed THEN UNCHANGED <<closed, discard, queue, got, exhausted, producer, result, pc, woken>>
       ELSE /\ Activate
            /\ IF queue # <<>>
               THEN TakeItem(c) /\ UNCHANGED <<pc, woken>>
               ELSE /\ pc' = [pc EXCEPT ![c] = "waiting"]
                    /\ woken' = FALSE
                    /\ UNCHANGED <<closed, discard, queue, got, exhausted>>
    /\ UNCHANGED <<signalled, prodHit, why, hit, hits, sent>>

\* __anext__ resumed by _available.
NextResumes(c) ==
    /\ pc[c] = "waiting" /\ woken /\ ~hit[c]
    /\ woken' = FALSE
    /\ IF queue # <<>>
       THEN TakeItem(c) /\ pc' = [pc EXCEPT ![c] = "idle"]
       ELSE UNCHANGED <<closed, discard, queue, got, exhausted, pc>>
    /\ UNCHANGED <<consumer, signalled, producer, prodHit, result, why, hit, calls, hits, sent>>

\* _cancel_and_settle up to its await.  (Mutant: it does not wait for the task.)
CancelOnly(c, call) ==
    /\ signalled' = TRUE
    /\ prodHit' = (producer \in {"created", "working"})
    /\ pc' = [pc EXCEPT ![c] = "idle"]
    /\ UNCHANGED why

SettleFor(c, call) ==
    /\ signalled' = TRUE
    /\ IF producer \in {"created", "working"}
       THEN /\ prodHit' = TRUE
            /\ pc' = [pc EXCEPT ![c] = "settling"]
            /\ why' = [why EXCEPT ![c] = call]
       ELSE /\ pc' = [pc EXCEPT ![c] = "idle"]
            /\ UNCHANGED <<prodHit, why>>

\* __anext__ cancelled in its wait.  (Mutant: later events are kept.)
NextCancelledKeeps(c) ==
    /\ pc[c] = "waiting" /\ hit[c]
    /\ hit' = [hit EXCEPT ![c] = FALSE]
    /\ queue' = <<>> /\ woken' = FALSE
    /\ SettleFor(c, "next")
    /\ UNCHANGED <<closed, discard, consumer, producer, result, calls, hits, sent, got, exhausted>>

NextCancelled(c) ==
    /\ pc[c] = "waiting" /\ hit[c]
    /\ hit' = [hit EXCEPT ![c] = FALSE]
    /\ discard' = TRUE /\ queue' = <<>> /\ woken' = FALSE
    /\ SettleFor(c, "next")
    /\ UNCHANGED <<closed, consumer, producer, result, calls, hits, sent, got, exhausted>>

CallResult(c) ==
    /\ Called(c)
    /\ closed => Activated
    /\ Activate
    /\ pc' = [pc EXCEPT ![c] = IF result \in {"value", "error"} THEN "idle" ELSE "resulting"]
    /\ UNCHANGED <<closed, discard, consumer, queue, signalled, prodHit, why, woken,
                   hit, hits, sent, got, exhausted>>

\* result() goes on when the future is done, also if it was cancelled meanwhile.
ResultReturns(c) ==
    /\ pc[c] = "resulting" /\ result \in {"value", "error"}
    /\ pc' = [pc EXCEPT ![c] = "idle"]
    /\ hit' = [hit EXCEPT ![c] = FALSE]
    /\ UNCHANGED <<closed, discard, consumer, queue, signalled, producer, prodHit, result,
                   why, woken, calls, hits, sent, got, exhausted>>

ResultCancelled(c) ==
    /\ pc[c] = "resulting" /\ hit[c] /\ result = "pending"
    /\ hit' = [hit EXCEPT ![c] = FALSE]
    /\ SettleFor(c, "result")
    /\ UNCHANGED <<closed, discard, consumer, queue, producer, result, woken, calls, hits,
                   sent, got, exhausted>>

\* aclose up to its await; __aexit__ is aclose.
CallClose(c) ==
    /\ Called(c)
    /\ IF closed
       THEN UNCHANGED <<closed, discard, queue, woken, signalled, prodHit, pc, why>>
       ELSE /\ discard' = TRUE /\ queue' = <<>>
            /\ woken' = TRUE
            /\ IF ~Activated
               THEN closed' = TRUE /\ UNCHANGED <<signalled, prodHit, pc, why>>
               ELSE /\ SettleFor(c, "close")
                    /\ closed' = (producer = "ended")
    /\ UNCHANGED <<consumer, producer, result, hit, hits, sent, got, exhausted>>

\* The rest of _cancel_and_settle, and of its caller, once the task is done.
Settled(c) ==
    /\ pc[c] = "settling" /\ producer = "ended"
    /\ pc' = [pc EXCEPT ![c] = "idle"]
    /\ hit' = [hit EXCEPT ![c] = FALSE]
    /\ closed' = (closed \/ why[c] = "close")
    /\ UNCHANGED <<discard, consumer, queue, signalled, producer, prodHit, result, why, woken,
                   calls, hits, sent, got, exhausted>>

\* A cancel while the task is not done: noted, and awaited again.
SettlingHit(c) ==
    /\ pc[c] = "settling" /\ hit[c] /\ producer # "ended"
    /\ hit' = [hit EXCEPT ![c] = FALSE]
    /\ UNCHANGED <<closed, discard, consumer, queue, signalled, producer, prodHit, result, pc,
                   why, woken, calls, hits, sent, got, exhausted>>

\* The owner of a client's task cancels it at an await of the stream.
CancelClient(c) ==
    /\ pc[c] # "idle" /\ ~hit[c] /\ hits < MaxHits
    /\ hit' = [hit EXCEPT ![c] = TRUE]
    /\ hits' = hits + 1
    /\ UNCHANGED <<closed, discard, consumer, queue, signalled, producer, prodHit, result, pc,
                   why, woken, calls, sent, got, exhausted>>

Resume(c) ==
    \/ NextResumes(c) \/ NextCancelled(c)
    \/ ResultReturns(c) \/ ResultCancelled(c)
    \/ Settled(c) \/ SettlingHit(c)

Call(c) == CallNext(c) \/ CallResult(c) \/ CallClose(c)

ProducerUnchanged == UNCHANGED <<closed, consumer, signalled, pc, why, hit, calls, hits,
                                 got, exhausted, discard>>

ProducerStarts ==
    /\ producer = "created" /\ ~prodHit
    /\ producer' = "working"
    /\ ProducerUnchanged
    /\ UNCHANGED <<queue, prodHit, result, woken, sent>>

\* A cancel before the first step of _run: none of its handlers runs.
CancelledBeforeStart ==
    /\ producer = "created" /\ prodHit
    /\ producer' = "ended" /\ prodHit' = FALSE
    /\ ProducerUnchanged
    /\ UNCHANGED <<queue, result, woken, sent>>

\* emit() for each of `events', and the end of _run if `outcome' is not "none".
\* (Mutant: a failure ends the task without waking the consumer.)
ProduceSilentFailure(events, outcome) ==
    LET items == IF outcome = "value" THEN Append(events, End) ELSE events
    IN  /\ producer = "working"
        /\ producer' = IF outcome = "none" THEN "working" ELSE "ended"
        /\ result' = IF outcome = "none" THEN result ELSE outcome
        /\ sent' = sent \o events
        /\ queue' = IF discard THEN queue ELSE queue \o items
        /\ woken' = (woken \/ (~discard /\ items # <<>>))
        /\ prodHit' = FALSE
        /\ ProducerUnchanged

Produce(events, outcome) ==
    LET items == IF outcome = "none" THEN events ELSE Append(events, End)
    IN  /\ producer = "working"
        /\ producer' = IF outcome = "none" THEN "working" ELSE "ended"
        /\ result' = IF outcome = "none" THEN result ELSE outcome
        /\ sent' = sent \o events
        /\ queue' = IF discard THEN queue ELSE queue \o items
        /\ woken' = (woken \/ (~discard /\ items # <<>>))
        /\ prodHit' = FALSE
        /\ ProducerUnchanged

=============================================================================
