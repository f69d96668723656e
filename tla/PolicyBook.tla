------------------------------ MODULE PolicyBook ------------------------------
(***************************************************************************)
(* What the policy documents promise to the omh processes of one user: each *)
(* choice that is saved is made in one step, on the documents that are      *)
(* there, and at most once. (The documents are trust.json and settings.json *)
(* of oh_my_coding_agent/_project_trust.py.)                               *)
(***************************************************************************)
EXTENDS Naturals

CONSTANTS
    Processes,
    Dirs,    \* directories
    ParentOf \* of each; the root's is the root

VARIABLES
    docs, \* [trust: a decision, null or nothing for each directory, settings: the default]
    saved \* the processes whose choice is saved

Decisions == {"trusted", "untrusted"}
Defaults == {"ask", "always", "never"}
TrustChoices == {"trust", "distrust", "trust_parent"}

\* The mutate functions. To trust the parent removes the directory's own entry.
Trusting(doc, cwd, choice) ==
    CASE choice = "trust" -> [doc EXCEPT ![cwd] = "trusted"]
      [] choice = "distrust" -> [doc EXCEPT ![cwd] = "untrusted"]
      [] choice = "trust_parent" -> [doc EXCEPT ![ParentOf[cwd]] = "trusted", ![cwd] = "nothing"]

Init ==
    /\ docs \in [trust : [Dirs -> Decisions \cup {"null", "nothing"}], settings : Defaults \cup {"nothing"}]
    /\ saved = {}

Saves(p) ==
    /\ p \notin saved
    /\ \/ \E cwd \in Dirs, choice \in TrustChoices :
            docs' = [docs EXCEPT !.trust = Trusting(@, cwd, choice)]
       \/ \E value \in Defaults : docs' = [docs EXCEPT !.settings = value]
    /\ saved' = saved \cup {p}

Next == \E p \in Processes : Saves(p)

Spec == Init /\ [][Next]_<<docs, saved>>
=============================================================================
