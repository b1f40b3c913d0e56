--------------------------- MODULE CycleCount_proofs ---------------------------
(* What holds of CycleCount for any number of sheets, bins and rows. *)
EXTENDS CycleCount, StockRows_proofs

-----------------------------------------------------------------------------
(* The units of a bin                                                      *)

BinSum(rows, b) == SumFunctionOnSet([x \in RowsAt(b) |-> rows[x].onHand], RowsAt(b))

\* What a bin holds is a sum over its rows, before a step and after it.
LEMMA OnHandIsSum ==
  ASSUME NEW b PROVE OnHand(b) = BinSum(row, b) /\ OnHand(b)' = BinSum(row', b)
<1>1. ASSUME NEW rows PROVE Total([x \in RowsAt(b) |-> rows[x].onHand]) = BinSum(rows, b)
  BY TotalOver DEF BinSum
<1>2. OnHand(b)' = Total([x \in RowsAt(b) |-> row'[x].onHand])
  BY DEF OnHand, RowsAt
<1> QED BY <1>1, <1>2 DEF OnHand

\* A bin has finitely many rows.
LEMMA BinIsFinite == ASSUME NEW b PROVE IsFiniteSet(RowsAt(b)) /\ RowsAt(b) \subseteq Rows
BY CycleCountAssumption, FS_Subset DEF RowsAt

\* A bin holds a whole number of units.
LEMMA BinSumType ==
  ASSUME NEW b, NEW rows \in [Rows -> Quantities] PROVE BinSum(rows, b) \in Nat
<1> DEFINE f == [x \in RowsAt(b) |-> rows[x].onHand]
<1>1. IsFiniteSet(RowsAt(b)) /\ \A x \in RowsAt(b) : f[x] \in Nat
  BY BinIsFinite DEF Quantities
<1> HIDE DEF f
<1>2. SumFunctionOnSet(f, RowsAt(b)) \in Nat
  BY <1>1, SumOfNat
<1> QED BY <1>2 DEF BinSum, f

\* A bin whose rows change by d changes by the sum of d.
LEMMA BinShifted ==
  ASSUME NEW b, NEW rows \in [Rows -> Quantities], NEW after, NEW d,
         \A x \in RowsAt(b) : d[x] \in Int /\ after[x].onHand = rows[x].onHand + d[x]
  PROVE  BinSum(after, b) = BinSum(rows, b) + SumFunctionOnSet(d, RowsAt(b))
<1> DEFINE f == [x \in RowsAt(b) |-> rows[x].onHand]
           h == [x \in RowsAt(b) |-> after[x].onHand]
<1>1. IsFiniteSet(RowsAt(b)) /\ \A x \in RowsAt(b) : f[x] \in Int /\ d[x] \in Int /\ h[x] = f[x] + d[x]
  BY BinIsFinite DEF Quantities
<1> HIDE DEF f, h
<1>2. SumFunctionOnSet(h, RowsAt(b)) = SumFunctionOnSet(f, RowsAt(b)) + SumFunctionOnSet(d, RowsAt(b))
  BY <1>1, SumAdds
<1> QED BY <1>2 DEF BinSum, f, h

\* A bin whose rows keep what they hold keeps it.
LEMMA BinStays ==
  ASSUME NEW b, NEW rows \in [Rows -> Quantities], NEW after,
         \A x \in RowsAt(b) : after[x].onHand = rows[x].onHand
  PROVE  BinSum(after, b) = BinSum(rows, b)
<1> DEFINE f == [x \in RowsAt(b) |-> rows[x].onHand]
           h == [x \in RowsAt(b) |-> after[x].onHand]
<1>1. f = h
  OBVIOUS
<1> QED BY <1>1 DEF BinSum

\* A change of one row alone sums to that change.
LEMMA SumOfOne ==
  ASSUME NEW b, NEW d, NEW x \in RowsAt(b), NEW n \in Int, d[x] = n,
         \A y \in RowsAt(b) : y # x => d[y] = 0
  PROVE  SumFunctionOnSet(d, RowsAt(b)) = n
<1> DEFINE R == RowsAt(b) \ {x}
<1>1. IsFiniteSet(RowsAt(b)) /\ IsFiniteSet(R)
  BY BinIsFinite, FS_Subset
<1>2. \A y \in R : d[y] = 0
  OBVIOUS
<1>3. \A y \in RowsAt(b) : d[y] \in Int
  OBVIOUS
<1>4. SumFunctionOnSet(d, RowsAt(b)) = d[x] + SumFunctionOnSet(d, R)
  BY <1>1, <1>3, SumPick
<1> HIDE DEF R
<1>5. SumFunctionOnSet(d, R) = 0
  BY <1>1, <1>2, SumOfZeros
<1> QED BY <1>4, <1>5

\* What is drained is what was taken, with its sign.
LEMMA SumOfNegative ==
  ASSUME NEW S, IsFiniteSet(S), NEW t, \A x \in S : t[x] \in Int, NEW d, \A x \in S : d[x] = -t[x]
  PROVE  SumFunctionOnSet(d, S) = -SumFunctionOnSet(t, S)
<1> DEFINE z == [x \in S |-> 0]
<1>1. \A x \in S : t[x] \in Int /\ d[x] \in Int /\ z[x] = t[x] + d[x] /\ z[x] = 0
  OBVIOUS
<1> HIDE DEF z
<1>2. SumFunctionOnSet(z, S) = SumFunctionOnSet(t, S) + SumFunctionOnSet(d, S)
  BY <1>1, SumAdds
<1>3. SumFunctionOnSet(z, S) = 0
  BY <1>1, SumOfZeros
<1>4. SumFunctionOnSet(t, S) \in Int /\ SumFunctionOnSet(d, S) \in Int
  BY <1>1, SumPick
<1> QED BY <1>2, <1>3, <1>4

-----------------------------------------------------------------------------
(* The posting of a line                                                   *)

\* The difference of a line changes its rows within what they hold, and the bin by the
\* difference, or by all it holds when that is less than what is missing.
LEMMA ChangesFacts ==
  ASSUME row \in [Rows -> Quantities], NEW b, NEW v \in Int, NEW d \in Changes(b, v)
  PROVE  /\ DOMAIN d = RowsAt(b)
         /\ \A x \in RowsAt(b) : d[x] \in Int /\ row[x].onHand + d[x] \in Nat
         /\ Total(d) \in Int /\ Total(d) = SumFunctionOnSet(d, RowsAt(b))
         /\ OnHand(b) + Total(d) = Monus(OnHand(b) + v, 0)
<1> DEFINE R == RowsAt(b)
<1>1. IsFiniteSet(R) /\ R \subseteq Rows
  BY BinIsFinite
<1>2. \A x \in R : row[x].onHand \in Nat
  BY <1>1 DEF Quantities
<1>3. OnHand(b) \in Nat /\ OnHand(b) = BinSum(row, b)
  BY BinSumType, OnHandIsSum
<1>4. CASE v > 0
  <2>1. PICK x \in Largest(R) : d = [y \in R |-> IF y = x THEN v ELSE 0]
    BY <1>4 DEF Changes, Add
  <2>2. x \in R /\ d[x] = v /\ DOMAIN d = R /\ \A y \in R : d[y] \in Int /\ d[y] >= 0 /\ (y # x => d[y] = 0)
    BY <1>4, <2>1 DEF Largest
  <2>3. SumFunctionOnSet(d, R) = v
    BY <2>2, SumOfOne
  <2>4. Total(d) = SumFunctionOnSet(d, R)
    BY <2>2, TotalOver
  <2>5. \A y \in R : row[y].onHand + d[y] \in Nat
    BY <1>2, <2>2
  <2> QED BY <1>3, <1>4, <2>2, <2>3, <2>4, <2>5 DEF Monus
<1>5. CASE ~(v > 0)
  <2> DEFINE cap == [y \in R |-> row[y].onHand]
  <2>1. -v \in Nat
    BY <1>5
  <2>2. PICK t \in LargestFirst(cap, -v) : d = [y \in R |-> -t[y]]
    BY <1>5 DEF Changes, Drain
  <2>3. t \in Fills(cap, -v) /\ DOMAIN cap = R /\ \A x \in R : cap[x] \in Nat /\ cap[x] = row[x].onHand
    BY <1>2, <2>2 DEF LargestFirst
  <2>4. BinSum(row, b) = SumFunctionOnSet(cap, R)
    BY DEF BinSum
  <2> HIDE DEF cap
  <2>5. /\ \A x \in R : t[x] \in Nat /\ t[x] <= cap[x]
        /\ Total(t) = SumFunctionOnSet(t, R) /\ Total(t) \in Nat
    BY <1>1, <2>1, <2>3, FillsBounds
  <2>6. Total(t) = Lesser(-v, Total(cap)) /\ Total(cap) = OnHand(b)
    BY <1>3, <2>3, <2>4, TotalOver DEF Fills
  <2>7. DOMAIN d = R /\ \A x \in R : t[x] \in Int /\ d[x] = -t[x]
    BY <2>2, <2>5
  <2>8. Total(d) = SumFunctionOnSet(d, R) /\ SumFunctionOnSet(d, R) = -SumFunctionOnSet(t, R)
    BY <1>1, <2>7, TotalOver, SumOfNegative
  <2>9. \A x \in R : d[x] \in Int /\ row[x].onHand + d[x] \in Nat
    BY <1>2, <2>3, <2>5, <2>7
  <2>10. Total(d) = -Total(t)
    BY <2>5, <2>8
  <2>11. OnHand(b) + Total(d) = Monus(OnHand(b) + v, 0)
    BY <1>3, <1>5, <2>1, <2>5, <2>6, <2>10 DEF Lesser, Monus
  <2> QED BY <2>5, <2>7, <2>8, <2>9, <2>10, <2>11
<1> QED BY <1>4, <1>5

-----------------------------------------------------------------------------
(* The invariant                                                           *)

\* What a sheet still has to post was counted.
PostsCounted ==
  \A s \in Sheets : todo[s] # {} =>
    sheet[s].status = "POSTING" /\ \A b \in todo[s] : sheet[s].counted[b] # Uncounted

\* Each bin holds what the sheet took down of it and what moved since.
SnapshotAndMoves ==
  \A s \in Sheets : sheet[s].status # "NONE" =>
    \A b \in Bins : BinSum(row, b) = sheet[s].system[b] + moved[s][b]

CountInv == TypeOK /\ PostsCounted /\ SnapshotAndMoves

\* A step on the stock of bin b that every sheet sees.
BinStep(b, n) ==
  /\ row' \in [Rows -> Quantities]
  /\ BinSum(row', b) = BinSum(row, b) + n
  /\ \A c \in Bins \ {b} : BinSum(row', c) = BinSum(row, c)
  /\ Moves(b, n)

\* Such a step keeps what each sheet knows of each bin.
LEMMA BinStepKeeps ==
  ASSUME CountInv, NEW b \in Bins, NEW n \in Int, BinStep(b, n), UNCHANGED sheet
  PROVE  moved' \in [Sheets -> [Bins -> Int]] /\ SnapshotAndMoves'
<1>1. \A s \in Sheets : moved[s] \in [Bins -> Int]
  BY DEF CountInv, TypeOK
<1>2. /\ moved' = [s \in Sheets |-> [moved[s] EXCEPT ![b] = @ + n]]
      /\ BinSum(row', b) = BinSum(row, b) + n
      /\ \A c \in Bins \ {b} : BinSum(row', c) = BinSum(row, c)
  BY DEF BinStep, Moves
<1>3. \A s \in Sheets : moved'[s] \in [Bins -> Int] /\ moved'[s][b] = moved[s][b] + n
                        /\ \A c \in Bins \ {b} : moved'[s][c] = moved[s][c]
  BY <1>1, <1>2
<1>4. ASSUME NEW s \in Sheets, sheet[s].status # "NONE", NEW c \in Bins
      PROVE  BinSum(row', c) = sheet[s].system[c] + moved'[s][c]
  <2>1. BinSum(row, c) = sheet[s].system[c] + moved[s][c] /\ moved[s][c] \in Int
    BY <1>1, <1>4 DEF CountInv, SnapshotAndMoves
  <2>2. sheet[s].system[c] \in Int
    BY DEF CountInv, TypeOK, SheetType
  <2>3. CASE c = b
    BY <1>2, <1>3, <2>1, <2>2, <2>3
  <2>4. CASE c # b
    BY <1>2, <1>3, <2>1, <2>4
  <2> QED BY <2>3, <2>4
<1>5. SnapshotAndMoves'
  BY <1>4 DEF SnapshotAndMoves, BinSum, RowsAt
<1> QED BY <1>2, <1>3, <1>5

\* A line that is posted.
LEMMA PostLineFacts ==
  ASSUME CountInv, NEW s \in Sheets, NEW b \in Bins, PostLine(s, b)
  PROVE  /\ \E n \in Int : /\ BinStep(b, n)
                           /\ OnHand(b) + n = Monus(OnHand(b) + (sheet[s].counted[b] - sheet[s].system[b]), 0)
         /\ b \in todo[s] /\ sheet' = sheet /\ todo' = [todo EXCEPT ![s] = @ \ {b}]
         /\ sheet[s].counted[b] \in Nat /\ sheet[s].system[b] \in Nat /\ sheet[s].status = "POSTING"
<1>1. b \in todo[s] /\ sheet' = sheet /\ todo' = [todo EXCEPT ![s] = @ \ {b}]
  BY DEF PostLine
<1>2. sheet[s].counted[b] \in Nat /\ sheet[s].system[b] \in Nat /\ sheet[s].status = "POSTING"
  BY <1>1 DEF CountInv, TypeOK, SheetType, PostsCounted
<1> DEFINE v == sheet[s].counted[b] - sheet[s].system[b]
<1>3. v \in Int
  BY <1>2
<1>4. PICK d \in Changes(b, v) :
        /\ row' = [x \in Rows |-> IF BinOf[x] = b /\ d[x] # 0
                                    THEN Adjusted(row[x], row[x].onHand + d[x]) ELSE row[x]]
        /\ Moves(b, Total(d))
  BY DEF PostLine
<1>5. row \in [Rows -> Quantities]
  BY DEF CountInv, TypeOK
<1>6. /\ \A x \in RowsAt(b) : d[x] \in Int /\ row[x].onHand + d[x] \in Nat
      /\ Total(d) \in Int /\ Total(d) = SumFunctionOnSet(d, RowsAt(b))
      /\ OnHand(b) + Total(d) = Monus(OnHand(b) + v, 0)
  BY <1>3, <1>5, ChangesFacts
<1>7. \A x \in Rows : /\ row'[x] \in Quantities
                      /\ x \in RowsAt(b) => row'[x].onHand = row[x].onHand + d[x]
                      /\ x \notin RowsAt(b) => row'[x] = row[x]
  <2> SUFFICES ASSUME NEW x \in Rows
               PROVE  /\ row'[x] \in Quantities
                      /\ x \in RowsAt(b) => row'[x].onHand = row[x].onHand + d[x]
                      /\ x \notin RowsAt(b) => row'[x] = row[x]
    OBVIOUS
  <2>1. row[x] \in Quantities
    BY <1>5
  <2>2. CASE x \notin RowsAt(b)
    BY <1>4, <2>1, <2>2 DEF RowsAt
  <2>3. CASE x \in RowsAt(b)
    <3>1. d[x] \in Int /\ row[x].onHand + d[x] \in Nat
      BY <1>6, <2>3
    <3>2. row'[x] = IF d[x] # 0 THEN Adjusted(row[x], row[x].onHand + d[x]) ELSE row[x]
      BY <1>4, <2>3 DEF RowsAt
    <3> QED BY <2>1, <2>3, <3>1, <3>2 DEF Adjusted, Monus, Quantities
  <2> QED BY <2>2, <2>3
<1>8. row' \in [Rows -> Quantities]
  BY <1>4, <1>7
<1>9. BinSum(row', b) = BinSum(row, b) + Total(d)
  <2>1. \A x \in RowsAt(b) : d[x] \in Int /\ row'[x].onHand = row[x].onHand + d[x]
    BY <1>6, <1>7 DEF RowsAt
  <2>2. BinSum(row', b) = BinSum(row, b) + SumFunctionOnSet(d, RowsAt(b))
    BY <1>5, <2>1, BinShifted
  <2> QED BY <1>6, <2>2
<1>10. \A c \in Bins \ {b} : BinSum(row', c) = BinSum(row, c)
  <2> SUFFICES ASSUME NEW c \in Bins \ {b} PROVE BinSum(row', c) = BinSum(row, c)
    OBVIOUS
  <2>1. \A x \in RowsAt(c) : row'[x].onHand = row[x].onHand
    BY <1>7 DEF RowsAt
  <2> QED BY <1>5, <2>1, BinStays
<1>11. BinStep(b, Total(d))
  BY <1>4, <1>8, <1>9, <1>10 DEF BinStep
<1> QED BY <1>1, <1>2, <1>6, <1>11

\* A row that is received into or issued from.
LEMMA OtherWork ==
  ASSUME CountInv, NEW x \in Rows, NEW n \in 1 .. MaxQty,
         Receive(x, n) \/ Issue(x, n) \/ Commit(x, n)
  PROVE  /\ UNCHANGED <<sheet, todo>> /\ row' \in [Rows -> Quantities]
         /\ moved' \in [Sheets -> [Bins -> Int]] /\ SnapshotAndMoves'
<1>1. row \in [Rows -> Quantities] /\ row[x] \in Quantities /\ BinOf[x] \in Bins /\ n \in Nat
  BY CycleCountAssumption DEF CountInv, TypeOK
<1>2. UNCHANGED <<sheet, todo>>
  BY DEF Receive, Issue, Commit
<1>3. ASSUME NEW q \in Quantities, row' = [row EXCEPT ![x] = q]
      PROVE  /\ row' \in [Rows -> Quantities]
             /\ BinSum(row', BinOf[x]) = BinSum(row, BinOf[x]) + (q.onHand - row[x].onHand)
             /\ \A c \in Bins \ {BinOf[x]} : BinSum(row', c) = BinSum(row, c)
  <2> DEFINE m == q.onHand - row[x].onHand
  <2>0. m \in Int /\ q.onHand = row[x].onHand + m
    BY <1>1 DEF Quantities
  <2>1. row' \in [Rows -> Quantities]
    BY <1>1, <1>3
  <2> HIDE DEF m
  <2>2. BinSum(row', BinOf[x]) = BinSum(row, BinOf[x]) + m
    <3> DEFINE R == RowsAt(BinOf[x])
               d == [y \in R |-> IF y = x THEN m ELSE 0]
    <3>1. x \in R /\ d[x] = m /\ \A y \in R : y # x => d[y] = 0
      BY DEF RowsAt
    <3>2. \A y \in R : d[y] \in Int /\ row'[y].onHand = row[y].onHand + d[y]
      BY <1>1, <1>3, <2>0 DEF RowsAt, Quantities
    <3> HIDE DEF d
    <3>3. SumFunctionOnSet(d, R) = m
      <4>1. m \in Int /\ x \in RowsAt(BinOf[x])
        BY <2>0, <3>1
      <4> QED BY <3>1, <4>1, SumOfOne
    <3> QED BY <1>1, <3>2, <3>3, BinShifted
  <2>3. ASSUME NEW c \in Bins \ {BinOf[x]} PROVE BinSum(row', c) = BinSum(row, c)
    <3>1. \A y \in RowsAt(c) : row'[y].onHand = row[y].onHand
      BY <1>1, <1>3 DEF RowsAt
    <3> QED BY <1>1, <3>1, BinStays
  <2> QED BY <2>1, <2>2, <2>3 DEF m
<1>4. CASE Receive(x, n)
  <2> DEFINE q == [onHand |-> row[x].onHand + n, avail |-> row[x].avail + n, commit |-> row[x].commit]
  <2>1. q \in Quantities /\ q.onHand - row[x].onHand = n
    BY <1>1 DEF Quantities
  <2>2. row' = [row EXCEPT ![x] = q] /\ Moves(BinOf[x], n)
    BY <1>4 DEF Receive
  <2> HIDE DEF q
  <2>3. BinStep(BinOf[x], n)
    BY <1>1, <1>3, <2>1, <2>2 DEF BinStep
  <2> QED BY <1>1, <1>2, <2>3, BinStepKeeps DEF BinStep
<1>5. CASE Issue(x, n)
  <2> DEFINE q == IssueAvailable(row[x], n)
  <2>1. n <= row[x].onHand /\ row' = [row EXCEPT ![x] = q] /\ Moves(BinOf[x], -n)
    BY <1>5 DEF Issue
  <2>2. q \in Quantities /\ q.onHand - row[x].onHand = -n
    BY <1>1, <2>1 DEF IssueAvailable, Quantities, Lesser, Monus
  <2> HIDE DEF q
  <2>3. BinStep(BinOf[x], -n)
    BY <1>1, <1>3, <2>1, <2>2 DEF BinStep
  <2> QED BY <1>1, <1>2, <2>3, BinStepKeeps DEF BinStep
<1>6. CASE Commit(x, n)
  <2> DEFINE q == Reserve(row[x], n)
  <2>1. n <= row[x].avail /\ row' = [row EXCEPT ![x] = q] /\ moved' = moved
    BY <1>6 DEF Commit
  <2>2. q \in Quantities /\ q.onHand = row[x].onHand
    BY <1>1, <2>1 DEF Reserve, Quantities
  <2> HIDE DEF q
  <2>3. row' \in [Rows -> Quantities]
    BY <1>3, <2>1, <2>2
  <2>4. \A b \in Bins : BinSum(row', b) = BinSum(row, b)
    <3>1. \A y \in Rows : row'[y].onHand = row[y].onHand
      BY <1>1, <2>1, <2>2 DEF Quantities
    <3> QED BY <1>1, <3>1, BinStays, BinIsFinite
  <2>5. SnapshotAndMoves'
    <3>1. SnapshotAndMoves
      BY DEF CountInv
    <3> QED BY <1>2, <2>1, <2>4, <3>1 DEF SnapshotAndMoves, BinSum, RowsAt
  <2> QED BY <1>2, <2>1, <2>3, <2>5 DEF CountInv, TypeOK
<1> QED BY <1>4, <1>5, <1>6

\* A sheet that is edited keeps its snapshot.
LEMMA SheetSteps ==
  ASSUME CountInv, NEW s \in Sheets,
         StartCompletion(s) \/ Complete(s) \/ Cancel(s)
           \/ (\E b \in Bins : \E n \in 0 .. MaxCount : RecordLine(s, b, n))
  PROVE  CountInv'
<1>1. sheet \in [Sheets -> SheetType] /\ todo \in [Sheets -> SUBSET Bins]
  BY DEF CountInv, TypeOK
<1>2. UNCHANGED <<row, moved>> /\ sheet[s].status # "NONE"
  BY DEF StartCompletion, Complete, Cancel, RecordLine, Editable
<1>3. ASSUME NEW e \in SheetType, sheet' = [sheet EXCEPT ![s] = e], e.system = sheet[s].system,
             todo' \in [Sheets -> SUBSET Bins],
             \A x \in Sheets : x # s => todo'[x] = todo[x],
             todo'[s] # {} => e.status = "POSTING" /\ \A b \in todo'[s] : e.counted[b] # Uncounted
      PROVE  CountInv'
  <2>1. sheet' \in [Sheets -> SheetType] /\ sheet'[s] = e /\ \A x \in Sheets : x # s => sheet'[x] = sheet[x]
    BY <1>1, <1>3
  <2>2. TypeOK'
    BY <1>2, <1>3, <2>1 DEF CountInv, TypeOK, SheetType
  <2>3. PostsCounted'
    BY <1>3, <2>1 DEF CountInv, PostsCounted, Uncounted
  <2>4. SnapshotAndMoves'
    <3>1. \A x \in Sheets : /\ sheet'[x].system = sheet[x].system
                            /\ sheet'[x].status # "NONE" => sheet[x].status # "NONE"
      BY <1>2, <1>3, <2>1
    <3> QED BY <1>2, <3>1 DEF CountInv, SnapshotAndMoves, BinSum, RowsAt
  <2> QED BY <2>2, <2>3, <2>4 DEF CountInv
<1>4. CASE StartCompletion(s)
  <2> DEFINE e == [sheet[s] EXCEPT !.status = "POSTING"]
  <2>1. /\ sheet' = [sheet EXCEPT ![s] = e] /\ todo' = [todo EXCEPT ![s] = sheet[s].lines]
        /\ AllCounted(s)
    BY <1>4 DEF StartCompletion
  <2>2. e \in SheetType /\ e.system = sheet[s].system /\ e.status = "POSTING" /\ e.counted = sheet[s].counted
    BY <1>1 DEF SheetType
  <2>3. /\ todo' \in [Sheets -> SUBSET Bins] /\ todo'[s] = sheet[s].lines
        /\ \A x \in Sheets : x # s => todo'[x] = todo[x]
    BY <1>1, <2>1 DEF SheetType
  <2>4. \A b \in todo'[s] : e.counted[b] # Uncounted
    BY <2>1, <2>2, <2>3 DEF AllCounted
  <2> HIDE DEF e
  <2> QED BY <1>3, <2>1, <2>2, <2>3, <2>4
<1>5. CASE Complete(s)
  <2> DEFINE e == [sheet[s] EXCEPT !.status = "COMPLETE"]
  <2>1. sheet' = [sheet EXCEPT ![s] = e] /\ todo' = todo /\ todo[s] = {}
    BY <1>5 DEF Complete
  <2>2. e \in SheetType /\ e.system = sheet[s].system
    BY <1>1 DEF SheetType
  <2> HIDE DEF e
  <2> QED BY <1>1, <1>3, <2>1, <2>2
<1>6. ASSUME Editable(s) PROVE todo[s] = {}
  BY <1>6 DEF Editable, CountInv, PostsCounted
<1>7. CASE Cancel(s)
  <2> DEFINE e == [sheet[s] EXCEPT !.status = "CANCELLED"]
  <2>1. sheet' = [sheet EXCEPT ![s] = e] /\ todo' = todo /\ todo[s] = {}
    BY <1>6, <1>7 DEF Cancel
  <2>2. e \in SheetType /\ e.system = sheet[s].system
    BY <1>1 DEF SheetType
  <2> HIDE DEF e
  <2> QED BY <1>1, <1>3, <2>1, <2>2
<1>8. ASSUME NEW b \in Bins, NEW n \in 0 .. MaxCount, RecordLine(s, b, n) PROVE CountInv'
  <2> DEFINE e == [status |-> "COUNTING", lines |-> sheet[s].lines, system |-> sheet[s].system,
                   counted |-> [sheet[s].counted EXCEPT ![b] = n]]
  <2>1. sheet' = [sheet EXCEPT ![s] = e] /\ todo' = todo /\ todo[s] = {}
    BY <1>6, <1>8 DEF RecordLine
  <2>2. n \in Nat
    BY CycleCountAssumption
  <2>3. e \in SheetType /\ e.system = sheet[s].system
    BY <1>1, <2>2 DEF SheetType
  <2> HIDE DEF e
  <2> QED BY <1>1, <1>3, <2>1, <2>3
<1> QED BY <1>4, <1>5, <1>7, <1>8

\* A new sheet takes down what each bin holds.
LEMMA CreateKeeps ==
  ASSUME CountInv, NEW s \in Sheets, Create(s)
  PROVE  CountInv'
<1> DEFINE held == {b \in Bins : OnHand(b) > 0}
           e == [status |-> "OPEN", lines |-> held, system |-> [b \in Bins |-> OnHand(b)],
                 counted |-> [b \in Bins |-> Uncounted]]
           none == [b \in Bins |-> 0]
<1>1. /\ sheet[s].status = "NONE" /\ sheet' = [sheet EXCEPT ![s] = e]
      /\ moved' = [moved EXCEPT ![s] = none] /\ UNCHANGED <<row, todo>>
  BY DEF Create
<1>2. row \in [Rows -> Quantities] /\ sheet \in [Sheets -> SheetType] /\ moved \in [Sheets -> [Bins -> Int]]
  BY DEF CountInv, TypeOK
<1>3. \A b \in Bins : OnHand(b) \in Nat /\ OnHand(b) = BinSum(row, b)
  BY <1>2, BinSumType, OnHandIsSum
<1>4. e \in SheetType /\ e.status = "OPEN" /\ \A b \in Bins : e.system[b] = BinSum(row, b)
  BY <1>3 DEF SheetType, Uncounted
<1>5. none \in [Bins -> Int] /\ \A b \in Bins : none[b] = 0
  OBVIOUS
<1>6. todo[s] = {}
  BY <1>1 DEF CountInv, PostsCounted
<1> HIDE DEF e, none
<1>7. /\ sheet'[s] = e /\ \A x \in Sheets : x # s => sheet'[x] = sheet[x] /\ moved'[x] = moved[x]
      /\ moved'[s] = none
  BY <1>1, <1>2
<1>8. TypeOK'
  BY <1>1, <1>2, <1>4, <1>5 DEF CountInv, TypeOK, SheetType
<1>9. PostsCounted'
  BY <1>1, <1>6, <1>7 DEF CountInv, PostsCounted, Uncounted
<1>10. SnapshotAndMoves'
  <2>1. ASSUME NEW x \in Sheets, sheet'[x].status # "NONE", NEW b \in Bins
        PROVE  BinSum(row, b) = sheet'[x].system[b] + moved'[x][b]
    <3>1. CASE x = s
      BY <1>3, <1>4, <1>5, <1>7, <3>1
    <3>2. CASE x # s
      BY <1>7, <2>1, <3>2 DEF CountInv, SnapshotAndMoves
    <3> QED BY <3>1, <3>2
  <2> QED BY <1>1, <2>1 DEF SnapshotAndMoves, BinSum, RowsAt
<1> QED BY <1>8, <1>9, <1>10 DEF CountInv

\* CountInv holds from the start.
LEMMA CountInvInitial == Init => CountInv
<1> SUFFICES ASSUME Init PROVE CountInv
  OBVIOUS
<1>1. row \in [Rows -> Quantities]
  BY CycleCountAssumption DEF Init, Quantities
<1>2. NoSheet \in SheetType
  BY DEF NoSheet, SheetType, Uncounted
<1>3. TypeOK
  BY <1>1, <1>2 DEF Init, TypeOK
<1>4. PostsCounted /\ SnapshotAndMoves
  BY DEF Init, PostsCounted, SnapshotAndMoves, NoSheet
<1> QED BY <1>3, <1>4 DEF CountInv

\* CountInv holds through every step.
LEMMA CountInvKept == CountInv /\ [Next]_vars => CountInv'
<1>1. ASSUME CountInv, Next PROVE CountInv'
  <2>1. ASSUME NEW s \in Sheets, NEW b \in Bins, PostLine(s, b) PROVE CountInv'
    <3>1. PICK n \in Int : BinStep(b, n)
      BY <1>1, <2>1, PostLineFacts
    <3>2. sheet' = sheet /\ todo' = [todo EXCEPT ![s] = @ \ {b}]
      BY <2>1 DEF PostLine
    <3>3. moved' \in [Sheets -> [Bins -> Int]] /\ SnapshotAndMoves' /\ row' \in [Rows -> Quantities]
      BY <1>1, <3>1, <3>2, BinStepKeeps DEF BinStep
    <3>4. todo' \in [Sheets -> SUBSET Bins] /\ \A x \in Sheets : todo'[x] \subseteq todo[x]
      BY <1>1, <3>2 DEF CountInv, TypeOK
    <3>5. TypeOK'
      BY <1>1, <3>2, <3>3, <3>4 DEF CountInv, TypeOK, SheetType
    <3>6. PostsCounted'
      <4>1. PostsCounted
        BY <1>1 DEF CountInv
      <4> SUFFICES ASSUME NEW x \in Sheets, todo'[x] # {}
                   PROVE  sheet[x].status = "POSTING" /\ \A c \in todo'[x] : sheet[x].counted[c] # Uncounted
        BY <3>2 DEF PostsCounted, Uncounted
      <4>2. todo[x] # {}
        BY <3>4
      <4> QED BY <3>4, <4>1, <4>2 DEF PostsCounted
    <3> QED BY <3>3, <3>5, <3>6 DEF CountInv
  <2>2. ASSUME NEW s \in Sheets, Create(s) PROVE CountInv'
    BY <1>1, <2>2, CreateKeeps
  <2>3. ASSUME NEW s \in Sheets,
               StartCompletion(s) \/ Complete(s) \/ Cancel(s)
                 \/ (\E b \in Bins : \E n \in 0 .. MaxCount : RecordLine(s, b, n))
        PROVE  CountInv'
    BY <1>1, <2>3, SheetSteps
  <2>4. ASSUME NEW x \in Rows, NEW n \in 1 .. MaxQty, Receive(x, n) \/ Issue(x, n) \/ Commit(x, n)
        PROVE  CountInv'
    <3>1. /\ UNCHANGED <<sheet, todo>> /\ row' \in [Rows -> Quantities]
          /\ moved' \in [Sheets -> [Bins -> Int]] /\ SnapshotAndMoves'
      BY <1>1, <2>4, OtherWork
    <3>2. TypeOK' /\ PostsCounted'
      BY <1>1, <3>1 DEF CountInv, TypeOK, PostsCounted, SheetType, Uncounted
    <3> QED BY <3>1, <3>2 DEF CountInv
  <2> QED BY <1>1, <2>1, <2>2, <2>3, <2>4 DEF Next
<1>2. CountInv /\ UNCHANGED vars => CountInv'
  BY DEF vars, CountInv, TypeOK, PostsCounted, SnapshotAndMoves, BinSum, RowsAt, SheetType, Uncounted
<1> QED BY <1>1, <1>2

\* No count, receipt or sale leaves a quantity negative.
THEOREM TypeCorrect == Spec => []TypeOK
<1>1. CountInv => TypeOK
  BY DEF CountInv
<1> QED BY <1>1, CountInvInitial, CountInvKept, PTL DEF Spec

\* Whatever moves while a sheet is counted and posted, and whatever other sheets post,
\* each posted line leaves its bin with what was counted and everything that came and
\* went since, never less than nothing.
THEOREM CountsKeepMoves == Spec => CountKeepsMoves
<1> DEFINE A == \A s \in Sheets, b \in Bins : b \in todo[s] \ todo'[s] =>
                  OnHand(b)' = Monus(sheet[s].counted[b] + moved[s][b], 0)
<1>1. CountInv /\ [Next]_vars => [A]_vars
  <2> SUFFICES ASSUME CountInv, Next, NEW s \in Sheets, NEW b \in Bins, b \in todo[s] \ todo'[s]
               PROVE  OnHand(b)' = Monus(sheet[s].counted[b] + moved[s][b], 0)
    OBVIOUS
  <2>1. PostLine(s, b)
    <3>1. ~\E x \in Rows, n \in 1 .. MaxQty : Receive(x, n) \/ Issue(x, n) \/ Commit(x, n)
      BY DEF Receive, Issue, Commit
    <3>2. PICK x \in Sheets : \/ Create(x) \/ StartCompletion(x) \/ Complete(x) \/ Cancel(x)
                              \/ \E c \in Bins : PostLine(x, c) \/ \E n \in 0 .. MaxCount : RecordLine(x, c, n)
      BY <3>1 DEF Next
    <3>3. ~(Create(x) \/ Complete(x) \/ Cancel(x)) /\ ~\E c \in Bins, n \in 0 .. MaxCount : RecordLine(x, c, n)
      BY DEF Create, Complete, Cancel, RecordLine
    <3>4. ~StartCompletion(x)
      <4> SUFFICES ASSUME StartCompletion(x) PROVE FALSE
        OBVIOUS
      <4>1. todo' = [todo EXCEPT ![x] = sheet[x].lines] /\ Editable(x)
        BY DEF StartCompletion
      <4>2. todo[x] = {}
        BY <4>1 DEF Editable, CountInv, PostsCounted
      <4> QED BY <4>1, <4>2 DEF CountInv, TypeOK
    <3>5. PICK c \in Bins : PostLine(x, c)
      BY <3>2, <3>3, <3>4
    <3>6. todo' = [todo EXCEPT ![x] = @ \ {c}]
      BY <3>5 DEF PostLine
    <3>7. x = s /\ c = b
      BY <3>6 DEF CountInv, TypeOK
    <3> QED BY <3>5, <3>7
  <2>2. PICK n \in Int :
          /\ BinStep(b, n)
          /\ OnHand(b) + n = Monus(OnHand(b) + (sheet[s].counted[b] - sheet[s].system[b]), 0)
    BY <2>1, PostLineFacts
  <2>3. sheet[s].counted[b] \in Nat /\ sheet[s].system[b] \in Nat /\ sheet[s].status = "POSTING"
    BY <2>1, PostLineFacts
  <2>4. OnHand(b) = sheet[s].system[b] + moved[s][b] /\ moved[s][b] \in Int
    BY <2>3, OnHandIsSum DEF CountInv, SnapshotAndMoves, TypeOK
  <2>5. OnHand(b)' = OnHand(b) + n
    BY <2>2, OnHandIsSum DEF BinStep
  <2>6. OnHand(b) + (sheet[s].counted[b] - sheet[s].system[b]) = sheet[s].counted[b] + moved[s][b]
    BY <2>3, <2>4
  <2> QED BY <2>2, <2>5, <2>6
<1>2. Spec => []CountInv
  BY CountInvInitial, CountInvKept, PTL DEF Spec
<1> HIDE DEF A
<1>3. Spec => [][A]_vars
  BY <1>1, <1>2, PTL DEF Spec
<1> QED BY <1>3 DEF CountKeepsMoves, A
=============================================================================
