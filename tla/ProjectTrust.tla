----------------------------- MODULE ProjectTrust -----------------------------
(***************************************************************************)
(* Whether a project's resources are trusted: several omh processes that    *)
(* share the policy documents of one user (_project_trust.py), the question *)
(* that an interactive start may ask (_cli.py) and the commands /trust and  *)
(* /settings (_terminal.py).                                               *)
(*                                                                         *)
(* A step of a process is one system call that others can observe, and what *)
(* it computes up to the next. Documents are read and written under the     *)
(* flock of a file of their own, which is never removed.                   *)
(***************************************************************************)
EXTENDS Naturals, Sequences, FiniteSets

CONSTANTS
    Processes,
    Dirs, ParentOf, \* from each directory the parents lead to a root, its own parent
    ChainOf,  \* per directory: those from its project's root down to it
    Attempts, \* at a lock that is busy (10)
    Worlds,   \* documents, resources and what each process is started for
    MaxInputs, \* lines typed, and changes of the terminal's size, during each question
    MaxFaults \* failed system calls, and processes killed

Nobody == "nobody"

ASSUME ProjectTrustAssumption ==
    /\ ParentOf \in [Dirs -> Dirs] /\ ChainOf \in [Dirs -> SUBSET Dirs]
    /\ \A S \in (SUBSET Dirs) \ {{}} : \E d \in S : ParentOf[d] = d \/ ParentOf[d] \notin S
    /\ Attempts \in Nat \ {0} /\ MaxInputs \in Nat /\ MaxFaults \in Nat
    /\ Nobody \notin Processes

VARIABLES
    world, \* constant: [docs, bad, res, job]
    docs,  \* the documents
    owner, \* who holds the lock of each document
    temps, \* temporary files: <<process, document>>
    proc,  \* per process: where it is, and its locals
    typed, \* per process: [lines, resized, signal]: what has come to the terminal
    faults,
    since  \* history, per process that resolves: the answers that have been right
           \* since it began, and the documents that have changed since

vars == <<world, docs, owner, temps, proc, typed, faults, since>>

Documents == {"trust", "settings"}

Book == INSTANCE PolicyBook WITH saved <- {p \in Processes : proc[p].committed}

Documented == [trust : [Dirs -> Book!Decisions \cup {"null", "nothing"}],
               settings : Book!Defaults \cup {"nothing"}]
Kinds == {"approve", "no_approve", "print", "interactive"} \cup Book!TrustChoices \cup Book!Defaults

ASSUME WorldsAssumption ==
    \A w \in Worlds :
        /\ w.docs \in Documented /\ w.bad \subseteq Documents
        /\ w.job \in [Processes -> [kind : Kinds, cwd : Dirs]]

Job(p) == world.job[p]

Init ==
    /\ world \in Worlds
    /\ docs = world.docs
    /\ owner = [d \in Documents |-> Nobody]
    /\ temps = {}
    /\ proc = [p \in Processes |->
         [pc |-> "start", why |-> "none", on |-> "trust", tries |-> 0, read |-> world.docs,
          fail |-> "none", committed |-> FALSE, choice |-> "none", end |-> "none"]]
    /\ typed = [p \in Processes |-> [lines |-> <<>>, left |-> MaxInputs, resized |-> FALSE, signal |-> FALSE]]
    /\ faults = MaxFaults
    /\ since = [p \in Processes |-> [right |-> {}, changed |-> {}]]

Fault == faults > 0 /\ faults' = faults - 1

----------------------------------------------------------------------------
(* What the documents say.                                                 *)

\* _nearest_saved_policy: an entry that is null decides nothing.
\* (Mutant: it ends the search.)
NearestNull(doc, cwd) ==
    LET climb[d \in Dirs] ==
          IF doc[d] \in Book!Decisions THEN doc[d]
          ELSE IF ParentOf[d] = d \/ doc[d] = "null" THEN "nothing"
          ELSE climb[ParentOf[d]]
    IN  climb[cwd]

Nearest(doc, cwd) ==
    LET climb[d \in Dirs] ==
          IF doc[d] \in Book!Decisions THEN doc[d]
          ELSE IF ParentOf[d] = d THEN "nothing"
          ELSE climb[ParentOf[d]]
    IN  climb[cwd]

\* _has_protected_resources: extensions count in the working directory only.
Protected(cwd) ==
    \E d \in ChainOf[cwd] : "rules" \in world.res[d] \/ (d = cwd /\ "extensions" \in world.res[d])

Unfit(cwd) == \E d \in ChainOf[cwd] : "unfit" \in world.res[d]

----------------------------------------------------------------------------
(* A process.                                                              *)

Set(p, fields) ==
    proc' = [proc EXCEPT ![p] = [f \in DOMAIN @ |-> IF f \in DOMAIN fields THEN fields[f] ELSE @[f]]]

Ended(end) == [pc |-> "ended", end |-> end]
Answer(yes) == Ended(IF yes THEN "trusted" ELSE "untrusted")
LocksOn(d) == [pc |-> "lock", on |-> d, tries |-> 0]

Resolves == [pc |-> "look", why |-> "resolve"]

\* --approve and --no-approve decide. One-shot never asks; a command has
\* a session already.
Starts(p) ==
    /\ proc[p].pc = "start"
    /\ Set(p, CASE Job(p).kind = "approve" -> Answer(TRUE)
                [] Job(p).kind = "no_approve" -> Answer(FALSE)
                [] Job(p).kind = "print" -> Resolves
                [] Job(p).kind = "interactive" -> [pc |-> "look", why |-> "pending"]
                [] Job(p).kind \in Book!TrustChoices ->
                     [pc |-> "lock", why |-> "save", choice |-> Job(p).kind]
                [] Job(p).kind \in Book!Defaults ->
                     [pc |-> "lock", on |-> "settings", why |-> "save", choice |-> Job(p).kind])
    /\ UNCHANGED <<world, docs, owner, temps, typed, faults, since>>

\* What is right at this moment, by a definition of its own.
Above(d) ==
    {a \in Dirs : \A S \in SUBSET Dirs : d \in S /\ (\A x \in S : ParentOf[x] \in S) => a \in S}

Standing(on, cwd) ==
    LET decided == {d \in Above(cwd) : on.trust[d] \in Book!Decisions}
    IN  IF decided = {} THEN on.settings = "always"
        ELSE on.trust[CHOOSE d \in decided : decided \subseteq Above(d)] = "trusted"

\* resolve_project_trust and interactive_trust_is_pending
Looks(p) ==
    LET cwd == Job(p).cwd
        why == proc[p].why
    IN  /\ proc[p].pc = "look"
        /\ Set(p, IF Unfit(cwd) THEN Ended("refused")
                  ELSE IF Protected(cwd) THEN LocksOn("trust")
                  ELSE IF why = "pending" THEN Resolves
                  ELSE Answer(TRUE))
        /\ since' = IF Protected(cwd) /\ why = "resolve"
                    THEN [since EXCEPT ![p] = [right |-> {Standing(docs, cwd)}, changed |-> {}]]
                    ELSE since
        /\ UNCHANGED <<world, docs, owner, temps, typed, faults>>

\* _acquire_policy_lock (Mutant: whoever asks gets it.)
AnyoneTakes(d) == TRUE

Free(d) == owner[d] = Nobody

Locks(p) ==
    LET on == proc[p].on
    IN  /\ proc[p].pc = "lock"
        /\ \/ Free(on) /\ owner' = [owner EXCEPT ![on] = p] /\ Set(p, [pc |-> "read"]) /\ UNCHANGED faults
           \/ /\ ~Free(on)
              /\ Set(p, IF proc[p].tries + 1 < Attempts THEN [tries |-> proc[p].tries + 1] ELSE Ended("error"))
              /\ UNCHANGED <<owner, faults>>
           \/ Fault /\ Set(p, Ended("error")) /\ UNCHANGED owner
        /\ UNCHANGED <<world, docs, temps, typed, since>>

\* _read_policy_target; what is not a document is found out when it is parsed.
Reads(p) ==
    LET on == proc[p].on
        save == proc[p].why = "save"
    IN  /\ proc[p].pc = "read"
        /\ \/ /\ Set(p, [pc |-> IF save /\ on \notin world.bad THEN "write" ELSE "release",
                         fail |-> IF on \in world.bad THEN "document" ELSE "none",
                         read |-> [proc[p].read EXCEPT ![on] = docs[on]]])
              /\ UNCHANGED faults
           \/ Fault /\ Set(p, [pc |-> "release", fail |-> "read"])
        /\ UNCHANGED <<world, docs, owner, temps, typed, since>>

\* A commit that fails removes its temporary file, if it can.
CommitFails(p) ==
    /\ Fault
    /\ Set(p, [pc |-> "release", fail |-> "write"])
    /\ temps' \in {temps \ {<<p, proc[p].on>>}, temps \cup {<<p, proc[p].on>>}}
    /\ UNCHANGED <<docs, since>>

\* _commit_policy_target: up to the replace.
Writes(p) ==
    /\ proc[p].pc = "write"
    /\ \/ /\ temps' = temps \cup {<<p, proc[p].on>>} /\ Set(p, [pc |-> "replace"])
          /\ UNCHANGED <<docs, since, faults>>
       \/ CommitFails(p)
    /\ UNCHANGED <<world, owner, typed>>

Chosen(p) ==
    IF proc[p].on = "settings" THEN proc[p].choice
    ELSE Book!Trusting(proc[p].read.trust, Job(p).cwd, proc[p].choice)

Replaces(p) ==
    LET on == proc[p].on
    IN  /\ proc[p].pc = "replace"
        /\ \/ /\ docs' = [docs EXCEPT ![on] = Chosen(p)]
              /\ temps' = temps \ {<<p, on>>}
              /\ Set(p, [pc |-> "release", committed |-> TRUE])
              /\ since' = [q \in Processes |->
                   IF proc[q].why # "resolve" \/ proc[q].pc = "ended" THEN since[q]
                   ELSE [right |-> since[q].right \cup {Standing(docs', Job(q).cwd)},
                         changed |-> since[q].changed \cup {on}]]
              /\ UNCHANGED faults
           \/ CommitFails(p)
        /\ UNCHANGED <<world, owner, typed>>

\* What follows from a document that has been read.
Decides(p) ==
    LET saved == Nearest(proc[p].read.trust, Job(p).cwd)
        default == proc[p].read.settings
        pending == proc[p].why = "pending"
    IN  CASE proc[p].on = "trust" /\ saved = "nothing" -> LocksOn("settings")
          [] proc[p].on = "trust" /\ saved # "nothing" ->
               IF pending THEN Resolves ELSE Answer(saved = "trusted")
          [] proc[p].on = "settings" ->
               IF ~pending THEN Answer(default = "always")
               ELSE IF default \in {"ask", "nothing"} THEN [pc |-> "asking"]
               ELSE Resolves

\* After a choice the session is made with it.
SavedChoice(p) ==
    IF Job(p).kind = "interactive" THEN Answer(proc[p].choice # "distrust") ELSE Ended("saved")

\* An update that has been committed is not made an error by a lock that cannot
\* be released; it is released by the close, or by the end. (Mutant: it is.)
AfterStrict(p, failed) ==
    IF proc[p].fail # "none" \/ failed THEN Ended("error")
    ELSE IF proc[p].committed THEN SavedChoice(p)
    ELSE Decides(p)

After(p, failed) ==
    IF proc[p].committed THEN SavedChoice(p)
    ELSE IF proc[p].fail # "none" \/ failed THEN Ended("error")
    ELSE Decides(p)

Releases(p) ==
    /\ proc[p].pc = "release"
    /\ owner' = [owner EXCEPT ![proc[p].on] = Nobody]
    /\ \/ Set(p, After(p, FALSE)) /\ UNCHANGED faults
       \/ Fault /\ Set(p, After(p, TRUE))
    /\ UNCHANGED <<world, docs, temps, typed, since>>

\* The kernel releases the locks of a process that is killed.
Killed(p) ==
    /\ proc[p].pc \notin {"start", "ended"} /\ Fault
    /\ Set(p, Ended("killed"))
    /\ owner' = [d \in Documents |-> IF owner[d] = p THEN Nobody ELSE owner[d]]
    /\ UNCHANGED <<world, docs, temps, typed, since>>

----------------------------------------------------------------------------
(* The question (_interactive_trust).                                      *)

Answers == Book!TrustChoices \cup {"session", "untrusted", "cancel", "other"}

Types(p) ==
    /\ proc[p].pc = "asking" /\ typed[p].left > 0
    /\ \E a \in Answers \cup {"eof"} :
         typed' = [typed EXCEPT ![p].lines = Append(@, a),
                                ![p].left = IF a = "eof" THEN 0 ELSE @ - 1]
    /\ UNCHANGED <<world, docs, owner, temps, proc, faults, since>>

Resizes(p) ==
    /\ proc[p].pc = "asking" /\ ~typed[p].resized /\ typed[p].left > 0
    /\ typed' = [typed EXCEPT ![p].resized = TRUE, ![p].left = @ - 1]
    /\ UNCHANGED <<world, docs, owner, temps, proc, faults, since>>

Signals(p) ==
    /\ proc[p].pc = "asking" /\ ~typed[p].signal
    /\ typed' = [typed EXCEPT ![p].signal = TRUE]
    /\ UNCHANGED <<world, docs, owner, temps, proc, faults, since>>

\* A resize draws the question again. A line that has been taken from the queue
\* by then is dropped with the task that took it.
Redraws(p) ==
    /\ typed[p].resized
    /\ \E lines \in {typed[p].lines} \cup (IF typed[p].lines = <<>> THEN {} ELSE {Tail(typed[p].lines)}) :
         typed' = [typed EXCEPT ![p].resized = FALSE, ![p].lines = lines]
    /\ UNCHANGED proc

HasParent(p) == ParentOf[Job(p).cwd] # Job(p).cwd

Takes(p) ==
    /\ ~typed[p].resized /\ ~typed[p].signal /\ typed[p].lines # <<>>
    /\ typed' = [typed EXCEPT ![p].lines = Tail(@)]
    /\ LET a == Head(typed[p].lines)
       IN  Set(p, CASE a \in {"eof", "cancel"} -> Ended("cancelled")
                    [] a = "session" -> Answer(TRUE)
                    [] a = "untrusted" -> Answer(FALSE)
                    [] a = "other" \/ (a = "trust_parent" /\ ~HasParent(p)) -> [pc |-> "asking"]
                    [] OTHER -> [pc |-> "lock", why |-> "save", choice |-> a, on |-> "trust", tries |-> 0])

Quits(p) ==
    /\ ~typed[p].resized /\ typed[p].signal
    /\ Set(p, Ended("cancelled"))
    /\ UNCHANGED typed

Asks(p) ==
    /\ proc[p].pc = "asking"
    /\ Redraws(p) \/ Takes(p) \/ Quits(p)
    /\ UNCHANGED <<world, docs, owner, temps, faults, since>>

----------------------------------------------------------------------------

Step(p) ==
    \/ Starts(p) \/ Looks(p) \/ Locks(p) \/ Reads(p) \/ Writes(p) \/ Replaces(p)
    \/ Releases(p) \/ Asks(p)

Outside(p) == Killed(p) \/ Types(p) \/ Resizes(p) \/ Signals(p)

Next == \E p \in Processes : Step(p) \/ Outside(p)

Spec == Init /\ [][Next]_vars

----------------------------------------------------------------------------
(* Properties.                                                             *)

\* The documents are those of PolicyBook: no process overwrites what another
\* has saved since it read, none writes a document that it could not read.
KeepsBook == Book!Spec

\* A process that says "saved", or goes on with a saved choice, has saved it;
\* one that reports an error has not, and leaves no temporary file unless that
\* could not be removed.
TellsTruth ==
    \A p \in Processes :
        /\ proc[p].end = "saved" => proc[p].committed
        /\ proc[p].end \in {"error", "refused", "cancelled"} => ~proc[p].committed
        /\ proc[p].end \in {"trusted", "untrusted"} =>
             (proc[p].committed <=> proc[p].choice # "none")
        /\ \A d \in Documents :
             <<p, d>> \in temps => proc[p].pc = "replace" \/ proc[p].fail = "write" \/ proc[p].end = "killed"

\* What a process resolves has been right at some moment since it began, unless
\* both documents have been changed since: they are read one after the other.
ResolvesRight ==
    \A p \in Processes :
        proc[p].end \in {"trusted", "untrusted"} /\ proc[p].why = "resolve" =>
            \/ ~Protected(Job(p).cwd)
            \/ since[p].changed = Documents
            \/ (proc[p].end = "trusted") \in since[p].right

=============================================================================
