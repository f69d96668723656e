--------------------------- MODULE MCSessionStore ---------------------------
(* SessionStore on small instances.                                         *)
EXTENDS SessionStore, TLC

(* No file or entry says which manager wrote it.                            *)
ManagerSymmetry == Permutations(Managers)

Alone  == [managers |-> 1, kinds |-> {"user", "assistant"}, maxId |-> 4, maxTears |-> 1,
           legacy |-> {"g"}]
\* A note, like a user's message, waits for the first answer to be written.
Shared == [managers |-> 2, kinds |-> {"assistant", "label", "unlabel", "note"},
           maxId |-> 3, maxTears |-> 0, legacy |-> {}]
MCUses == {Alone, Shared}
=============================================================================
