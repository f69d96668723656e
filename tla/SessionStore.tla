---------------------------- MODULE SessionStore ----------------------------
(***************************************************************************)
(* SessionManager of oh_my_coding_agent: the tree of session entries in     *)
(* memory and the append-only file of lines behind it.  Several managers    *)
(* (processes) may have the same file open; nothing locks it.               *)
(*                                                                         *)
(* A call runs without an await, so it is one step; what can cut it short   *)
(* is a write that fails.  A crash is such a failure, or none, followed by  *)
(* Exit.  Compactions are entries like any other here (module Compaction    *)
(* is about their contents).                                                *)
(***************************************************************************)
EXTENDS Integers, Sequences, SequencesExt, FiniteSetsExt, Selections

CONSTANTS
  Managers,    \* the managers that may be alive at once
  Files,       \* session file names
  MaxEntries,  \* bound: entries of a session
  MaxLines,    \* bound: lines of a file
  Uses         \* [managers, kinds, maxId, maxTears, legacy]: bounds on the managers alive
               \* at once, the entry ids and the writes that are cut short, the kinds of
               \* entry that are appended, and the files of version 1 (entries without
               \* ids) that exist already

ASSUME SessionStoreAssumption ==
  /\ MaxEntries \in Nat /\ MaxLines \in Nat
  /\ \A u \in Uses :
       /\ u.managers \in Nat /\ u.maxId \in Nat /\ u.maxTears \in Nat
       /\ u.kinds \subseteq {"user", "assistant", "note", "label", "unlabel"}
       /\ u.legacy \subseteq Files

VARIABLES
  use,     \* what the store is used for, fixed
  disk,    \* the existing files: their lines, and whether the last one is open
  mgr,     \* the managers
  tears    \* the writes that have been cut short so far

storeVars == <<use, disk, mgr, tears>>

-----------------------------------------------------------------------------
(* Lines and entries.                                                       *)

Version == 3  \* CURRENT_SESSION_VERSION

Header(f, version)      == [kind |-> "header", id |-> 0, session |-> f, version |-> version]
Entry(kind, id, parent) == [kind |-> kind, id |-> id, parent |-> parent, ref |-> 0]
Label(kind, id, parent, to) == [kind |-> kind, id |-> id, parent |-> parent, ref |-> to]
Broken                  == [kind |-> "broken", id |-> 0, parent |-> 0, ref |-> 0]

IsEntry(e) == e.kind \notin {"header", "broken"}
IsLabel(e) == e.kind \in {"label", "unlabel"}
Has(es, kind) == \E i \in DOMAIN es : es[i].kind = kind
IdsOf(es)     == {es[i].id : i \in DOMAIN es}

NewFileOf(ls) == [lines |-> ls, open |-> FALSE]

(* Bytes added to a file whose last line has no newline join that line.     *)
Extend(file, ls, open) ==
  IF ls = <<>> THEN file
  ELSE [lines |-> IF file.open THEN Front(file.lines) \o <<Broken>> \o Tail(ls)
                               ELSE file.lines \o ls,
        open  |-> open]

Outcome(file, ok, torn) == [file |-> file, ok |-> ok, torn |-> torn]

(* _write_bytes, line by line: all of it, or a failure that leaves whole    *)
(* lines and perhaps a fragment, or a line that only lacks its newline.     *)
Writes(file, ls) ==
  {Outcome(Extend(file, ls, FALSE), TRUE, FALSE)} \cup
  (IF tears = use.maxTears THEN {} ELSE
     UNION {{Outcome(Extend(file, SubSeq(ls, 1, n), FALSE), FALSE, TRUE),
             Outcome(Extend(file, Append(SubSeq(ls, 1, n), Broken), TRUE), FALSE, TRUE),
             Outcome(Extend(file, SubSeq(ls, 1, n + 1), TRUE), FALSE, TRUE)} :
              n \in 0..(Len(ls) - 1)})

Store(f, w) ==
  /\ Len(w.file.lines) <= MaxLines
  /\ disk' = [g \in DOMAIN disk \cup {f} |-> IF g = f THEN w.file ELSE disk[g]]
  /\ tears' = tears + (IF w.torn THEN 1 ELSE 0)

(* _parsed_values: lines that are no JSON are skipped.                      *)
Values(f) ==
  LET ls == disk[f].lines IN At(ls, {i \in DOMAIN ls : ls[i].kind # "broken"})
Valid(vs) == vs # <<>> /\ vs[1].kind = "header"

(* What open() makes of the values: invalid entries are skipped, an entry   *)
(* without an id among them.                                                *)
Loaded(vs) ==
  LET es == Tail(vs) IN At(es, {i \in DOMAIN es : IsEntry(es[i]) /\ es[i].id # 0})

LastId(es) == IF es = <<>> THEN 0 ELSE es[Len(es)].id

-----------------------------------------------------------------------------
(* Managers.                                                                *)

Off == [on |-> FALSE, file |-> "none", sid |-> "none", entries |-> <<>>, leaf |-> 0,
        flushed |-> FALSE, raised |-> FALSE]

Blank(f) == [Off EXCEPT !.on = TRUE, !.file = f, !.sid = f]

Opened(f, vs) ==
  [Off EXCEPT !.on = TRUE, !.file = f, !.sid = vs[1].session, !.entries = Loaded(vs),
              !.leaf = LastId(Loaded(vs)), !.flushed = TRUE]

Become(m, state) == mgr' = [mgr EXCEPT ![m] = state]

(* A call that raises leaves no manager behind if it was to make one.       *)
Failed(m, state) == Become(m, IF mgr[m].on THEN [state EXCEPT !.raised = TRUE] ELSE Off)

Used  == (UNION {IdsOf(disk[f].lines) : f \in DOMAIN disk}) \cup
         (UNION {IdsOf(mgr[m].entries) : m \in Managers})
Fresh == Max({0} \cup Used) + 1

LegacyLines(f) == <<Header(f, 1), Entry("user", 0, 0), Entry("assistant", 0, 0)>>

StoreInit ==
  /\ use \in Uses
  /\ disk = [f \in use.legacy |-> NewFileOf(LegacyLines(f))]
  /\ tears = 0
  /\ mgr = [m \in Managers |-> Off]

(* A file name is made of the time and a random id.                         *)
Unnamed(f) == f \notin DOMAIN disk /\ \A m \in Managers : mgr[m].file # f

(* create and newSession: nothing is written yet.                           *)
StartNew(m) ==
  /\ \E f \in Files : Unnamed(f) /\ Become(m, Blank(f))
  /\ UNCHANGED <<disk, tears>>

Exit(m) == mgr[m].on /\ Become(m, Off) /\ UNCHANGED <<disk, tears>>

-----------------------------------------------------------------------------
(* open (by a manager to be) and setSessionFile (by one that is).           *)

OpenAbsent(m, f) ==
  /\ f \notin DOMAIN disk
  /\ Become(m, Blank(f))
  /\ UNCHANGED <<disk, tears>>

OpenEmpty(m, f) ==
  /\ f \in DOMAIN disk /\ disk[f].lines = <<>>
  /\ \E w \in Writes(NewFileOf(<<>>), <<Header(f, Version)>>) :
       /\ Store(f, w)
       /\ IF w.ok THEN Become(m, [Blank(f) EXCEPT !.flushed = TRUE])
                  ELSE Failed(m, Blank(f))

OpenValid(m, f) ==
  /\ f \in DOMAIN disk /\ Valid(Values(f)) /\ Values(f)[1].version = Version
  /\ Become(m, Opened(f, Values(f)))
  /\ UNCHANGED <<disk, tears>>

(* _migrate_values: ids in a row, each entry the child of the one before.   *)
(* (Mutant: each is a root.)                                                *)
MigratedFlat(vs) ==
  <<[vs[1] EXCEPT !.version = Version]>> \o
    [i \in 1..(Len(vs) - 1) |-> [vs[i + 1] EXCEPT !.id = Fresh + i - 1, !.parent = Fresh + Len(vs)]]

Migrated(vs) ==
  <<[vs[1] EXCEPT !.version = Version]>> \o
    [i \in 1..(Len(vs) - 1) |->
       [vs[i + 1] EXCEPT !.id     = Fresh + i - 1,
                         !.parent = IF i = 1 THEN 0 ELSE Fresh + i - 2]]

(* The file is truncated and written again.                                 *)
OpenLegacy(m, f) ==
  /\ f \in DOMAIN disk /\ Valid(Values(f)) /\ Values(f)[1].version < Version
  /\ \E w \in Writes(NewFileOf(<<>>), Migrated(Values(f))) :
       /\ Store(f, w)
       /\ IF w.ok THEN Become(m, Opened(f, Migrated(Values(f))))
                  ELSE Failed(m, [mgr[m] EXCEPT !.file = f])

(* setSessionFile has taken the name by the time it refuses the file.       *)
RefuseFile(m, f) ==
  /\ mgr[m].on
  /\ f \in DOMAIN disk /\ disk[f].lines # <<>> /\ ~Valid(Values(f))
  /\ Failed(m, [mgr[m] EXCEPT !.file = f])
  /\ UNCHANGED <<disk, tears>>

Open(m, f) ==
  OpenAbsent(m, f) \/ OpenEmpty(m, f) \/ OpenValid(m, f) \/ OpenLegacy(m, f) \/ RefuseFile(m, f)

(* forkFrom: the values of the source are copied as they are under a new    *)
(* header, then opened.                                                     *)
ForkCopy(vs) == Tail(vs)

ForkFrom(m, src, f) ==
  /\ ~mgr[m].on /\ Unnamed(f)
  /\ src \in DOMAIN disk /\ Valid(Values(src))
  /\ LET copy == <<Header(f, Version)>> \o ForkCopy(Values(src)) IN
     \E w \in Writes(NewFileOf(<<>>), copy) :
       /\ Store(f, w)
       /\ Become(m, IF w.ok THEN Opened(f, copy) ELSE Off)

-----------------------------------------------------------------------------
(* Appending.                                                               *)

(* The first flush creates the file; it fails if there is one.  (Mutant: it *)
(* replaces one.)                                                           *)
FlushOver(s, es) == Writes(NewFileOf(<<>>), <<Header(s.sid, Version)>> \o es)

Flush(s, es) ==
  IF s.file \in DOMAIN disk THEN {Outcome(disk[s.file], FALSE, FALSE)}
  ELSE Writes(NewFileOf(<<>>), <<Header(s.sid, Version)>> \o es)

Waits(s, es) == ~s.flushed /\ ~Has(es, "assistant")

(* _append_entry: memory first.  Nothing is written before the first        *)
(* answer of the model, everything with it, then one line per entry.        *)
AppendEntry(m, e) ==
  LET s  == mgr[m]
      es == Append(s.entries, e)
      to(flushed, ok) == [s EXCEPT !.entries = es, !.leaf = e.id, !.flushed = flushed,
                                   !.raised = ~ok]
  IN
  /\ s.on /\ Len(s.entries) < MaxEntries /\ e.id <= use.maxId
  /\ IF Waits(s, es)
       THEN Become(m, to(s.flushed, TRUE)) /\ UNCHANGED <<disk, tears>>
       ELSE \E w \in (IF s.flushed THEN Writes(disk[s.file], <<e>>) ELSE Flush(s, es)) :
              /\ Store(s.file, w)
              /\ Become(m, to(s.flushed \/ w.ok, w.ok))

AppendMessage(m) ==
  \E kind \in use.kinds \ {"label", "unlabel"} :
    AppendEntry(m, Entry(kind, Fresh, mgr[m].leaf))

(* A label is set or cleared.                                               *)
AppendLabelChange(m) ==
  \E kind \in use.kinds \cap {"label", "unlabel"}, to \in IdsOf(mgr[m].entries) :
    AppendEntry(m, Label(kind, Fresh, mgr[m].leaf, to))

-----------------------------------------------------------------------------
(* The tree.                                                                *)

(* branch and resetLeaf move the leaf in memory only.                       *)
MoveLeaf(m) ==
  /\ mgr[m].on
  /\ \E id \in {0} \cup IdsOf(mgr[m].entries) :
       id # mgr[m].leaf /\ Become(m, [mgr[m] EXCEPT !.leaf = id])
  /\ UNCHANGED <<disk, tears>>

BranchWithSummary(m) ==
  /\ "note" \in use.kinds
  /\ \E to \in {0} \cup IdsOf(mgr[m].entries) : AppendEntry(m, Entry("note", Fresh, to))

(* getBranch: from the leaf up, until the root or an unknown parent.        *)
EntryOf(es, id) == es[CHOOSE i \in DOMAIN es : es[i].id = id]
Known(es)       == {0} \cup IdsOf(es) \cup {es[i].parent : i \in DOMAIN es}

Branch(es, leaf) ==
  LET up[n \in 0..Len(es)] ==
        [id \in Known(es) |->
           IF n = 0 \/ id \notin IdsOf(es) THEN <<>>
           ELSE Append(up[n - 1][EntryOf(es, id).parent], EntryOf(es, id))]
  IN  up[Len(es)][leaf]

Unlabelled(es) == At(es, {i \in DOMAIN es : ~IsLabel(es[i])})

(* _labels: the last change of an entry's label counts.                     *)
Labelled(es) ==
  {id \in IdsOf(es) :
     LET changes == {i \in DOMAIN es : IsLabel(es[i]) /\ es[i].ref = id}
     IN  changes # {} /\ es[Max(changes)].kind = "label"}

Chain(es) == [i \in DOMAIN es |-> [es[i] EXCEPT !.parent = IF i = 1 THEN 0 ELSE es[i - 1].id]]

(* (Mutant: the labels are those found on the path.)                        *)
KeptLabelsOfPath(es, path, retained) == Labelled(path) \cap IdsOf(retained)
KeptLabels(es, path, retained)       == Labelled(es) \cap IdsOf(retained)

(* createBranchedSession: the path without its labels becomes a chain, and  *)
(* every label of an entry on it is appended again.                         *)
Branched(es, leaf) ==
  LET path     == Branch(es, leaf)
      retained == Unlabelled(path)
      targets  == SetToSeq(KeptLabels(es, path, retained))
  IN  Chain(retained \o [i \in DOMAIN targets |-> Label("label", Fresh + i - 1, 0, targets[i])])

CreateBranchedSession(m, leaf, f) ==
  LET es    == Branched(mgr[m].entries, leaf)
      fresh == [Blank(f) EXCEPT !.entries = es, !.leaf = LastId(es)]
  IN
  /\ mgr[m].on /\ leaf \in IdsOf(mgr[m].entries) /\ Unnamed(f)
  /\ \A i \in DOMAIN es : es[i].id <= use.maxId
  /\ IF ~Has(es, "assistant")
       THEN Become(m, fresh) /\ UNCHANGED <<disk, tears>>
       ELSE \E w \in Writes(NewFileOf(<<>>), <<Header(f, Version)>> \o es) :
              /\ Store(f, w)
              /\ Become(m, [fresh EXCEPT !.flushed = w.ok, !.raised = ~w.ok])

Alive == {m \in Managers : mgr[m].on}

StoreNext ==
  /\ \E m \in Managers :
       /\ mgr[m].on \/ Cardinality(Alive) < use.managers
       /\ \/ StartNew(m) \/ Exit(m) \/ AppendMessage(m) \/ AppendLabelChange(m)
          \/ MoveLeaf(m) \/ BranchWithSummary(m)
          \/ \E f \in Files :
               \/ Open(m, f)
               \/ \E src \in Files : ForkFrom(m, src, f)
               \/ \E leaf \in IdsOf(mgr[m].entries) : CreateBranchedSession(m, leaf, f)
  /\ UNCHANGED use

StoreSpec == StoreInit /\ [][StoreNext]_storeVars

-----------------------------------------------------------------------------
(* Properties.                                                              *)

Saved(f) == LET vs == Values(f) IN At(vs, {i \in DOMAIN vs : IsEntry(vs[i])})

(* A branch is complete: from any entry the parents lead to a root, also    *)
(* after a migration, a fork or a branched session, until a write is cut    *)
(* short.                                                                   *)
BranchReachesRoot ==
  tears = 0 => \A m \in Managers : \A id \in IdsOf(mgr[m].entries) :
    Branch(mgr[m].entries, id)[1].parent = 0

Field(es, f)   == [i \in DOMAIN es |-> es[i][f]]

(* A branched session has the entries of its path in their order, and every *)
(* label that one of them has anywhere in the source.                       *)
BranchedKeepsLabels ==
  [][\A m \in Managers : \A leaf \in IdsOf(mgr[m].entries) : \A f \in Files :
       mgr'[m].file = f /\ f # mgr[m].file /\ CreateBranchedSession(m, leaf, f) =>
         LET old == mgr[m].entries
             new == mgr'[m].entries
         IN  /\ Field(Unlabelled(new), "id") = Field(Unlabelled(Branch(old, leaf)), "id")
             /\ Labelled(new) = Labelled(old) \cap IdsOf(Unlabelled(new))]_storeVars

(* Each element of one occurs in the other once, and in the same order.     *)
IsSubsequence(short, long) ==
  \E at \in [DOMAIN short -> DOMAIN long] :
    /\ \A i, j \in DOMAIN short : i < j => at[i] < at[j]
    /\ \A i \in DOMAIN short, j \in DOMAIN long : short[i] = long[j] <=> j = at[i]

(* Managers that share a file lose nothing to each other: what one has      *)
(* appended is in the file, in its order, among what others have, until a   *)
(* write is cut short.                                                      *)
OwnEntriesSaved ==
  \A m \in Managers : tears = 0 /\ mgr[m].on /\ mgr[m].flushed =>
    IsSubsequence(mgr[m].entries, Saved(mgr[m].file))

Finished(file) == IF file.open THEN Front(file.lines) ELSE file.lines

(* A line that was written to its end stays for ever, whoever appends,      *)
(* fails or crashes, until the file of an older version is migrated.        *)
LinesStay ==
  [][\A f \in DOMAIN disk :
       Valid(Values(f)) /\ Values(f)[1].version = Version =>
         f \in DOMAIN disk' /\ IsPrefix(Finished(disk[f]), disk'[f].lines)]_storeVars
=============================================================================
