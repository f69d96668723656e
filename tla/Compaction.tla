----------------------------- MODULE Compaction -----------------------------
(***************************************************************************)
(* The choice of a compaction's cut (prepare_compaction), the summary made  *)
(* of what lies before it, and the context the model is shown afterwards    *)
(* (SessionManager.buildContextEntries), over every branch a session can    *)
(* grow: turns with tool calls, entries that are not messages, earlier      *)
(* compactions, and the copy of a branch into a session of its own.         *)
(***************************************************************************)
EXTENDS Integers, Sequences, FiniteSetsExt, Selections

CONSTANTS
  KeepRecent,  \* KEEP_RECENT_TOKENS
  Weights,     \* token estimates of a message
  MaxLength,   \* bound: entries of a branch
  Notes,       \* which entries that are not messages occur
  MaxCopies    \* bound: calls of createBranchedSession

ASSUME CompactionAssumption ==
  /\ KeepRecent \in Nat \ {0} /\ Weights \subseteq Nat \ {0} /\ MaxLength \in Nat
  /\ Notes \subseteq {"label", "note"} /\ MaxCopies \in Nat

VARIABLES
  branch,  \* getBranch(): the entries from the root to the leaf
  owed,    \* tool results the last assistant message still waits for
  copies   \* calls of createBranchedSession so far

branchVars == <<branch, owed, copies>>

Spoken     == {"user", "assistant", "result"}
Kinds      == Spoken \cup Notes \cup {"compaction"}
IsMessage(e) == e.kind \in Spoken

(* The n-th of the ids that no entry has or names.                          *)
Named(b)      == UNION {{b[i].id, b[i].first} \cup b[i].covers : i \in DOMAIN b}
FreshId(b, n) == Nth((1..(Cardinality(Named(b)) + n)) \ Named(b), n)

(* first is a compaction's firstKeptEntryId; covers are the messages its    *)
(* summary was made from, directly or through the summary before it.        *)
NewEntry(kind, weight) ==
  [id |-> FreshId(branch, 1), kind |-> kind, weight |-> weight, first |-> 0, covers |-> {}]

BranchInit == branch = <<>> /\ owed = 0 /\ copies = 0

-----------------------------------------------------------------------------
(* What the model is shown.                                                 *)

Previous(b) == Max({0} \cup {i \in DOMAIN b : b[i].kind = "compaction"})

FirstKept(b) == {i \in DOMAIN b : b[i].id = b[Previous(b)].first}

(* buildContextEntries: the latest compaction, the entries it kept, and     *)
(* what came after it; without its first kept entry it has kept nothing.    *)
Kept(b) ==
  LET p == Previous(b)
  IN  IF p = 0 THEN DOMAIN b ELSE (Min({p} \cup FirstKept(b))..Len(b)) \ {p}

(* buildSessionContext: the latest compaction's summary, then of those      *)
(* entries the messages, and every other compaction as its summary.         *)
Context(b) ==
  (IF Previous(b) = 0 THEN <<>> ELSE <<b[Previous(b)]>>)
    \o At(b, {i \in Kept(b) : IsMessage(b[i]) \/ b[i].kind = "compaction"})

-----------------------------------------------------------------------------
(* prepare_compaction.                                                      *)

(* Where the last compaction's kept entries begin, so that they can be      *)
(* summarised in their turn.  (Mutant: right after that compaction.)        *)
StartAfter(b) == Previous(b) + 1

Start(b) ==
  IF Previous(b) = 0 THEN 1
  ELSE IF FirstKept(b) = {} THEN Previous(b) + 1
  ELSE Min(FirstKept(b))

MessagesFrom(b, start) == {i \in start..Len(b) : IsMessage(b[i])}

(* A kept tail may begin with a user or an assistant message.  (Mutant: or  *)
(* with a tool result.)                                                     *)
CutPointsAny(b, start) == MessagesFrom(b, start)
CutPoints(b, start)    == {i \in start..Len(b) : b[i].kind \in {"user", "assistant"}}

TokensFrom(b, i) == MapThenSumSet(LAMBDA j : b[j].weight, i..Len(b))

(* The messages from which on the budget is used up.                        *)
Full(b, start) == {i \in MessagesFrom(b, start) : TokensFrom(b, i) >= KeepRecent}

CutPoint(points, full) ==
  LET later == {p \in points : \A i \in full : p >= i}
  IN  IF full = {} \/ later = {} THEN Min(points) ELSE Min(later)

(* The cut moves back over entries that are not messages.                   *)
Cut(b, start, point) ==
  Min({i \in start..point :
         \A j \in i..(point - 1) : ~IsMessage(b[j]) /\ b[j].kind # "compaction"})

(* A cut inside a turn: the turn's own beginning is summarised apart.       *)
HistoryEnd(b, start, cut) ==
  LET users == {i \in start..cut : b[i].kind = "user"}
  IN  IF b[cut].kind = "assistant" /\ users # {} THEN Max(users) ELSE cut

(* cut = 0: there is nothing to compact.                                    *)
Nothing == [cut |-> 0, history |-> {}, prefix |-> {}]

Prepare(b) ==
  LET start  == Start(b)
      points == CutPoints(b, start)
      cut    == Cut(b, start, CutPoint(points, Full(b, start)))
      end    == HistoryEnd(b, start, cut)
      older  == MessagesFrom(b, start) \cap start..(cut - 1)
  IN  IF b = <<>> THEN Nothing
      ELSE IF b[Len(b)].kind = "compaction" \/ points = {} THEN Nothing
      ELSE IF older = {} THEN Nothing
      ELSE [cut |-> cut, history |-> {i \in older : i < end},
            prefix |-> {i \in older : i >= end}]

-----------------------------------------------------------------------------
(* How a branch grows.                                                      *)

Grow(e) == Len(branch) < MaxLength /\ branch' = Append(branch, e)

AddUser == (\E w \in Weights : Grow(NewEntry("user", w))) /\ owed' = 0

AddAssistant ==
  /\ branch # <<>>
  /\ \E w \in Weights : Grow(NewEntry("assistant", w))
  /\ owed' \in 0..1

AddResult ==
  /\ owed > 0 /\ owed' = owed - 1
  /\ \E w \in Weights : Grow(NewEntry("result", w))

(* A label, or a name, model or custom entry: at any time, also in a turn.  *)
AddNote == (\E n \in Notes : Grow(NewEntry(n, 0))) /\ UNCHANGED owed

(* The summary that a new one is made from: the history prompt includes the *)
(* previous summary, but it is not asked when only a turn's prefix is cut.  *)
Carried(b, p) ==
  IF Previous(b) = 0 \/ (p.history = {} /\ p.prefix # {})
    THEN {} ELSE b[Previous(b)].covers

IdsAt(b, places) == {b[i].id : i \in places}

Compact ==
  LET p == Prepare(branch) IN
  /\ p.cut > 0
  /\ Grow([NewEntry("compaction", 0) EXCEPT
             !.first  = branch[p.cut].id,
             !.covers = Carried(branch, p) \cup IdsAt(branch, p.history \cup p.prefix)])
  /\ owed' = 0

(* createBranchedSession: the path without its label entries; the labels    *)
(* are appended again with new ids.  (Mutant: it drops what is no message.) *)
RetainMessages(path) == At(path, {i \in DOMAIN path : IsMessage(path[i])})
Retained(path)       == At(path, {i \in DOMAIN path : path[i].kind # "label"})

Relabelled(path) ==
  LET labels == At(path, {i \in DOMAIN path : path[i].kind = "label"})
  IN  [i \in DOMAIN labels |-> [labels[i] EXCEPT !.id = FreshId(Retained(path), i)]]

CopyBranch(leaf) ==
  LET path == SubSeq(branch, 1, leaf) IN
  /\ copies < MaxCopies /\ copies' = copies + 1
  /\ branch' = Retained(path) \o Relabelled(path)
  /\ owed' = 0

BranchNext ==
  \/ (AddUser \/ AddAssistant \/ AddResult \/ AddNote \/ Compact) /\ UNCHANGED copies
  \/ \E leaf \in DOMAIN branch : CopyBranch(leaf)

BranchSpec == BranchInit /\ [][BranchNext]_branchVars

-----------------------------------------------------------------------------
(* Properties.                                                              *)

Said(b) == At(b, {i \in Kept(b) : IsMessage(b[i])})

(* No tool result is shown to the model without the message that called.    *)
ResultsKeepTheirCall ==
  LET said == Said(branch)
  IN  \A k \in DOMAIN said : said[k].kind = "result" =>
        k > 1 /\ said[k - 1].kind \in {"assistant", "result"}

KeepsLabel(b) == \E i \in FirstKept(b) : b[i].kind = "label"

(* A branch copied into a session of its own shows the model what it showed *)
(* before, unless a compaction named a label as its first kept entry, which *)
(* the copy drops.                                                          *)
BranchKeepsContext ==
  [][\A leaf \in DOMAIN branch :
       LET b == SubSeq(branch, 1, leaf) IN
       CopyBranch(leaf) /\ (Previous(b) > 0 => ~KeepsLabel(b)) =>
         Context(branch') = Context(b)]_branchVars

Compactions(b) == {i \in DOMAIN b : b[i].kind = "compaction"}

(* A compaction that cuts only the prefix of a turn drops what the summary  *)
(* before it covered; one whose first kept entry was a label that a copy    *)
(* has dropped keeps nothing.                                               *)
Discards(b) ==
  \E i, j \in Compactions(b) : i < j /\ ~(b[i].covers \subseteq b[j].covers)
Dangles(b) ==
  \E i \in Compactions(b) : \A k \in DOMAIN b : b[k].id # b[i].first

(* Every message of the branch is shown to the model or was read for a      *)
(* summary that is, directly or through the summaries before it, also what  *)
(* an earlier compaction had kept; those two compactions excepted.          *)
HistoryCovered ==
  ~Discards(branch) /\ ~Dangles(branch) =>
    LET c == Context(branch)
    IN  \A i \in DOMAIN branch : IsMessage(branch[i]) =>
          \E k \in DOMAIN c : branch[i].id \in {c[k].id} \cup c[k].covers
=============================================================================
