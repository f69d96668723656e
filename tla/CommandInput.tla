----------------------------- MODULE CommandInput -----------------------------
(***************************************************************************)
(* The line editor of oh_my_coding_agent/_terminal.py (_CommandInput), as a *)
(* record and operators on it. A text is a sequence of words; a word stands *)
(* for what is typed in one go. Moving inside the line, history, completion *)
(* and painting are left out.                                              *)
(***************************************************************************)
EXTENDS Naturals, Sequences, SequencesExt

\* The keys that are not text: return, Alt-return, Ctrl-C, Ctrl-D and escape.
ControlKeys == {"enter", "alt", "^C", "^D", "esc"}

\* What a key sequence completes: a line, an interrupt, or the end of input.
Line(id, text, alt) == [is |-> "line", id |-> id, text |-> text, alt |-> alt]
Interrupted == [is |-> "interrupt", id |-> 0, text |-> <<>>, alt |-> FALSE]
EndOfInput == [is |-> "end", id |-> 0, text |-> <<>>, alt |-> FALSE]

\* draft is the last line entered, and draftId its number.
EmptyEditor == [text |-> <<>>, draft |-> <<>>, draftId |-> 0, entered |-> 0, frozen |-> FALSE]

RestoreDraft(ed) == [ed EXCEPT !.text = ed.draft, !.frozen = FALSE]

ClearAfterSuccess(ed) ==
    [ed EXCEPT !.text = <<>>, !.draft = <<>>, !.draftId = 0, !.frozen = FALSE]

\* A command has been taken from line id. When another line was entered since,
\* that one goes back into the editor.
AcceptCommand(ed, id) ==
    IF ed.draftId = id THEN [ed EXCEPT !.draft = <<>>, !.draftId = 0, !.frozen = FALSE]
    ELSE RestoreDraft(ed)

\* One key: the editor and what has been completed so far. An editor that
\* freezes on submit takes no more text until its line has been dealt with.
Enter(s, alt, freeze) ==
    LET ed == s.ed
        id == ed.entered + 1
    IN  IF ed.frozen \/ ed.text = <<>> THEN s
        ELSE [s EXCEPT !.ed = [text |-> <<>>, draft |-> ed.text, draftId |-> id,
                               entered |-> id, frozen |-> freeze],
                       !.completed = Append(@, Line(id, ed.text, alt))]

Key(s, key, freeze) ==
    CASE key = "enter" -> Enter(s, FALSE, freeze)
      [] key = "alt"   -> Enter(s, TRUE, freeze)
      [] key = "^C"    -> [s EXCEPT !.completed = Append(@, Interrupted)]
      [] key = "^D"    -> IF s.ed.text # <<>> THEN s
                          ELSE [s EXCEPT !.completed = Append(@, EndOfInput), !.ended = TRUE]
      [] key = "esc"   -> s
      [] OTHER         -> IF s.ed.frozen THEN s ELSE [s EXCEPT !.ed.text = Append(@, key)]

\* feed: the bytes of one read; nothing after the end of input is looked at.
Feed(ed, keys, freeze) ==
    FoldLeft(LAMBDA s, key : IF s.ended THEN s ELSE Key(s, key, freeze),
             [ed |-> ed, completed |-> <<>>, ended |-> FALSE], keys)

=============================================================================
