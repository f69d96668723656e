------------------------ MODULE MCInteractiveTerminal ------------------------
(* Instances of InteractiveTerminal for TLC: what a user types in one go.   *)
EXTENDS InteractiveTerminal

Bounds(keys, reads, signals, faults, check) ==
    [keys |-> keys, reads |-> reads, signals |-> signals, faults |-> faults, check |-> check]

Prompt == <<"p", "enter">>
Talking == {Prompt, <<"q", "alt">>, <<"p", "enter", "q", "enter">>, <<"p">>, <<"^C">>}
Commands ==
    {<<"/reload", "enter", "p", "enter">>, <<"/compact", "enter">>, <<"/clear-queue", "enter">>,
     <<"/resources", "enter">>, <<"/quit", "enter">>, <<"^D">>}
Dialogues == {<<"/trust", "enter">>, <<"/settings", "enter">>, <<"c", "enter">>, <<"x", "alt", "enter">>,
              <<"esc">>, <<"^D">>}

Small ==
    {Bounds(Talking, 3, 1, 1, FALSE), Bounds(Commands \cup {Prompt}, 3, 1, 0, FALSE),
     Bounds(Commands \cup {Prompt}, 3, 0, 1, FALSE), Bounds(Commands \cup {Prompt}, 2, 1, 1, FALSE),
     Bounds(Dialogues \cup {Prompt, <<"^C">>}, 3, 1, 1, FALSE),
     Bounds({Prompt, <<"/compact", "enter">>}, 2, 1, 1, TRUE)}
=============================================================================
