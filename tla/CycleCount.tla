------------------------------ MODULE CycleCount ------------------------------
(***************************************************************************)
(* Counting the shelves (cycle-counts.ts).  A sheet takes down what the    *)
(* system holds of a part in each bin, somebody counts for days, and the   *)
(* completed sheet posts each difference to the rows of the bin, line by   *)
(* line, while other work moves the same stock.                            *)
(*                                                                         *)
(* The rows are those of one part.  Requests about one sheet come one      *)
(* after the other; a completion runs on while stock moves and other       *)
(* sheets are worked on, and the rows of one line change at once.          *)
(***************************************************************************)
EXTENDS StockRows

CONSTANTS
  Sheets,  \* cycle counts
  Bins,    \* locations
  Rows,    \* InventoryItem rows of the part
  BinOf,   \* [Rows -> Bins]
  MaxQty,  \* bound: units of a row that is received into
  MaxCount \* bound: units counted

ASSUME CycleCountAssumption ==
  IsFiniteSet(Rows) /\ BinOf \in [Rows -> Bins] /\ MaxQty \in Nat /\ MaxCount \in Nat

VARIABLES
  row,    \* [Rows -> Quantities]
  sheet,  \* [Sheets -> status and lines of the count]
  todo,   \* [Sheets -> lines that a running completion still has to post]
  moved   \* history: [Sheets -> net change of each bin since the sheet was made]

vars == <<row, sheet, todo, moved>>

Uncounted == -1
\* The lines of a sheet are the bins in its system quantities.
SheetType == [status : {"NONE", "OPEN", "COUNTING", "POSTING", "COMPLETE", "CANCELLED"},
              lines : SUBSET Bins, system : [Bins -> Nat], counted : [Bins -> Nat \cup {Uncounted}]]

TypeOK ==
  /\ row \in [Rows -> Quantities]
  /\ sheet \in [Sheets -> SheetType]
  /\ todo \in [Sheets -> SUBSET Bins]
  /\ moved \in [Sheets -> [Bins -> Int]]

NoSheet == [status |-> "NONE", lines |-> {}, system |-> [b \in Bins |-> 0],
            counted |-> [b \in Bins |-> Uncounted]]

Init ==
  /\ row \in [Rows -> {[onHand |-> n, avail |-> n, commit |-> 0] : n \in 0 .. MaxQty}]
  /\ sheet = [s \in Sheets |-> NoSheet]
  /\ todo = [s \in Sheets |-> {}]
  /\ moved = [s \in Sheets |-> [b \in Bins |-> 0]]

RowsAt(b) == {x \in Rows : BinOf[x] = b}
OnHand(b) == Total([x \in RowsAt(b) |-> row[x].onHand])

\* Every sheet sees what bin b gains or loses.
Moves(b, n) == moved' = [s \in Sheets |-> [moved[s] EXCEPT ![b] = @ + n]]

-----------------------------------------------------------------------------
(* The sheet                                                               *)

\* createCycleCount: a line for every bin that holds some.
Create(s) ==
  LET held == {b \in Bins : OnHand(b) > 0} IN
  /\ sheet[s].status = "NONE" /\ held # {}
  /\ sheet' = [sheet EXCEPT ![s] =
       [status |-> "OPEN", lines |-> held, system |-> [b \in Bins |-> OnHand(b)],
        counted |-> [b \in Bins |-> Uncounted]]]
  /\ moved' = [moved EXCEPT ![s] = [b \in Bins |-> 0]]
  /\ UNCHANGED <<row, todo>>

Editable(s) == sheet[s].status \in {"OPEN", "COUNTING"}

\* recordCycleCountLine.
RecordLine(s, b, n) ==
  /\ Editable(s) /\ b \in sheet[s].lines
  /\ sheet' = [sheet EXCEPT ![s] =
       [status |-> "COUNTING", lines |-> @.lines, system |-> @.system,
        counted |-> [@.counted EXCEPT ![b] = n]]]
  /\ UNCHANGED <<row, todo, moved>>

\* completeCycleCount starts when every line is counted.
AllCounted(s) == \A b \in sheet[s].lines : sheet[s].counted[b] # Uncounted

StartCompletion(s) ==
  /\ Editable(s) /\ AllCounted(s)
  /\ sheet' = [sheet EXCEPT ![s].status = "POSTING"]
  /\ todo' = [todo EXCEPT ![s] = sheet[s].lines]
  /\ UNCHANGED <<row, moved>>

\* A row that is changed has its free quantity computed anew.  (Mutant: without a floor.)
AdjustedPlain(q, n) == [onHand |-> n, avail |-> n - q.commit, commit |-> q.commit]
Adjusted(q, n) == [onHand |-> n, avail |-> Monus(n, q.commit), commit |-> q.commit]

Largest(S) == {x \in S : \A y \in S : row[y].onHand <= row[x].onHand}

\* Surplus goes to the largest row; a shortage is drained from the largest row on, as far
\* as there is stock.  (Mutant: from the largest row only.)
DrainLargest(b, n) ==
  {[y \in RowsAt(b) |-> IF y = x THEN -Lesser(row[x].onHand, n) ELSE 0] : x \in Largest(RowsAt(b))}
Drain(b, n) ==
  {[y \in RowsAt(b) |-> -t[y]] : t \in LargestFirst([y \in RowsAt(b) |-> row[y].onHand], n)}
Add(b, n) ==
  {[y \in RowsAt(b) |-> IF y = x THEN n ELSE 0] : x \in Largest(RowsAt(b))}
Changes(b, v) == IF v > 0 THEN Add(b, v) ELSE Drain(b, -v)

PostLine(s, b) ==
  /\ b \in todo[s]
  /\ \E d \in Changes(b, sheet[s].counted[b] - sheet[s].system[b]) :
       /\ row' = [x \in Rows |-> IF BinOf[x] = b /\ d[x] # 0
                                   THEN Adjusted(row[x], row[x].onHand + d[x]) ELSE row[x]]
       /\ Moves(b, Total(d))
  /\ todo' = [todo EXCEPT ![s] = @ \ {b}]
  /\ UNCHANGED sheet

Complete(s) ==
  /\ sheet[s].status = "POSTING" /\ todo[s] = {}
  /\ sheet' = [sheet EXCEPT ![s].status = "COMPLETE"]
  /\ UNCHANGED <<row, todo, moved>>

Cancel(s) ==
  /\ Editable(s) /\ sheet' = [sheet EXCEPT ![s].status = "CANCELLED"]
  /\ UNCHANGED <<row, todo, moved>>

-----------------------------------------------------------------------------
(* Other work: receipts, sales, commitments                                *)

Receive(x, n) ==
  /\ row[x].onHand + n <= MaxQty
  /\ row' = [row EXCEPT ![x] = [onHand |-> @.onHand + n, avail |-> @.avail + n, commit |-> @.commit]]
  /\ Moves(BinOf[x], n)
  /\ UNCHANGED <<sheet, todo>>

Issue(x, n) ==
  /\ n <= row[x].onHand
  /\ row' = [row EXCEPT ![x] = IssueAvailable(@, n)]
  /\ Moves(BinOf[x], -n)
  /\ UNCHANGED <<sheet, todo>>

Commit(x, n) ==
  /\ n <= row[x].avail
  /\ row' = [row EXCEPT ![x] = Reserve(@, n)]
  /\ UNCHANGED <<sheet, todo, moved>>

Next ==
  \/ \E s \in Sheets :
       \/ Create(s) \/ StartCompletion(s) \/ Complete(s) \/ Cancel(s)
       \/ \E b \in Bins : PostLine(s, b) \/ \E n \in 0 .. MaxCount : RecordLine(s, b, n)
  \/ \E x \in Rows, n \in 1 .. MaxQty : Receive(x, n) \/ Issue(x, n) \/ Commit(x, n)

Spec == Init /\ [][Next]_vars

-----------------------------------------------------------------------------
(* Properties                                                              *)

\* Posting a line keeps what moved since the sheet was made: the bin then holds what was
\* counted plus everything that came and went since the snapshot, other sheets' postings
\* included, and never less than nothing.
CountKeepsMoves == [][\A s \in Sheets, b \in Bins : b \in todo[s] \ todo'[s] =>
                        OnHand(b)' = Monus(sheet[s].counted[b] + moved[s][b], 0)]_vars
=============================================================================
