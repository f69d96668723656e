---------------------------- MODULE StreamEvents ----------------------------
(***************************************************************************)
(* The protocol of the events of one assistant message, as the validator   *)
(* of oh_my_llm/_values.py keeps it.  A block of content is text (the      *)
(* sequence of its fragments) or a tool call (how often its identity was   *)
(* extended, and its arguments); `content' is the content of the partial   *)
(* or terminal message that an event carries.                              *)
(***************************************************************************)
EXTENDS Naturals, Sequences, SequencesExt, FiniteSets

TextBlock(text) == [kind |-> "text", text |-> text]
ToolBlock(names, args) == [kind |-> "toolCall", names |-> names, args |-> args]

Event(type, at, delta, content) ==
    [type |-> type, at |-> at, delta |-> delta, content |-> content]

Opening == {"text_start", "toolcall_start"}
Closing == {"text_end", "toolcall_end"}
Terminal == {"done", "error", "aborted"}   \* the last two: an error event, by its reason
KindOf(type) ==
    IF type \in {"text_start", "text_delta", "text_end"} THEN "text" ELSE "toolCall"

\* Fragments of arguments that are together one JSON object.
IsObject(frags) == frags = <<"{", "}">>

\* The arguments after `frags' if they were `before': those of the last
\* prefix that was a complete object.
ArgumentsAfter(frags, before) == IF IsObject(frags) THEN frags ELSE before

NewValidator ==
    [started |-> FALSE, over |-> FALSE, content |-> <<>>, ended |-> {}, frags |-> <<>>]

AcceptsTerminal(v, e) ==
    /\ (e.type = "done") => /\ v.started
                            /\ v.ended = DOMAIN v.content
    /\ v.started => e.content = v.content

AcceptsOpening(v, e) ==
    /\ e.at = Len(v.content) + 1
    /\ Len(e.content) = e.at
    /\ Front(e.content) = v.content

AcceptsWithin(v, e) ==
    /\ e.at \in DOMAIN v.content \ v.ended
    /\ v.content[e.at].kind = KindOf(e.type)
    /\ DOMAIN e.content = DOMAIN v.content
    /\ \A i \in DOMAIN v.content \ {e.at} : e.content[i] = v.content[i]
    /\ e.type = "text_delta" => e.content[e.at].text = v.content[e.at].text \o e.delta
    /\ e.type = "toolcall_delta" =>
          e.content[e.at].args = ArgumentsAfter(v.frags[e.at] \o e.delta, v.content[e.at].args)
    /\ (e.type = "toolcall_end" /\ v.frags[e.at] # <<>>) =>
          IsObject(v.frags[e.at]) /\ e.content[e.at].args = v.frags[e.at]

Accepts(v, e) ==
    /\ ~v.over
    /\ \/ e.type \in Terminal /\ AcceptsTerminal(v, e)
       \/ e.type = "start" /\ ~v.started /\ e.content = <<>>
       \/ e.type \in Opening /\ v.started /\ AcceptsOpening(v, e)
       \/ e.type \notin Terminal \union Opening \union {"start"}
             /\ v.started /\ AcceptsWithin(v, e)

\* The validator after an event that it accepts.
Accept(v, e) ==
    [started |-> v.started \/ e.type = "start",
     over    |-> e.type \in Terminal,
     content |-> e.content,
     ended   |-> IF e.type \in Closing THEN v.ended \union {e.at} ELSE v.ended,
     frags   |-> IF e.type \in Opening THEN Append(v.frags, <<>>)
                 ELSE IF e.type = "toolcall_delta" THEN [v.frags EXCEPT ![e.at] = @ \o e.delta]
                 ELSE v.frags]

=============================================================================
