------------------------------ MODULE StockRows ------------------------------
(***************************************************************************)
(* The quantities of one InventoryItem row and the arithmetic every       *)
(* fulfillment handler does on them.  A row carries three counters that   *)
(* no database constraint ties together: what is on hand, what may still  *)
(* be promised, and what is promised to a sales order.  The handlers of   *)
(* src/lib/services write all three as absolute values computed from a    *)
(* row they read earlier; each operator below is one such computation.    *)
(***************************************************************************)
EXTENDS Integers, FiniteSets, Functions

Lesser(a, b) == IF a < b THEN a ELSE b

\* Math.max(0, a - b)
Monus(a, b) == IF a > b THEN a - b ELSE 0

Quantities == [onHand : Nat, avail : Nat, commit : Nat]

EmptyRow == [onHand |-> 0, avail |-> 0, commit |-> 0]

\* No counter promises units that are not there.
Covered(q) == q.avail + q.commit <= q.onHand

\* Every unit on hand is either free or promised: none is stranded.
Balanced(q) == q.avail + q.commit = q.onHand

-----------------------------------------------------------------------------
(* What the handlers do to one row                                         *)

\* allocateFinishedGoods: free units become committed ones.
Reserve(q, n) ==
  [onHand |-> q.onHand, avail |-> q.avail - n, commit |-> q.commit + n]

\* releaseCommitment: the reverse.  (Mutant: the promise is not taken back.)
UnreserveFreesOnly(q, n) == [onHand |-> q.onHand, avail |-> q.avail + n, commit |-> q.commit]
Unreserve(q, n) ==
  [onHand |-> q.onHand, avail |-> q.avail + n, commit |-> q.commit - n]

\* The units a shipment may take from a row.  (Mutant: only promised ones.)
PoolCommittedOnly(q) == Lesser(q.onHand, q.commit)
Pool(q) == Lesser(q.onHand, q.avail + q.commit)

\* shipSalesOrder: committed units leave first, then free ones.  (Mutant: all are
\* deducted from the free ones.)
IssueAllFree(q, n) ==
  [onHand |-> Monus(q.onHand, n), avail |-> q.avail - n, commit |-> q.commit]
IssueCommitted(q, n) ==
  LET c == Lesser(q.commit, n)
  IN  [onHand |-> Monus(q.onHand, n),
       avail  |-> Monus(q.avail, n - c),
       commit |-> Monus(q.commit, c)]

\* issueManualShipmentInventory: free units leave first, then committed ones.
IssueAvailable(q, n) ==
  LET a == Lesser(q.avail, n)
  IN  [onHand |-> Monus(q.onHand, n),
       avail  |-> Monus(q.avail, a),
       commit |-> Monus(q.commit, n - a)]

\* completeKitOrder: free units leave for the staging location.  (Mutant: they leave
\* from the promised ones as well.)
PickPromised(q, n) ==
  [onHand |-> q.onHand - n, avail |-> q.avail - n, commit |-> q.commit - n]
PickFree(q, n) ==
  [onHand |-> q.onHand - n, avail |-> q.avail - n, commit |-> q.commit]

\* completeWorkOrderToStock: a new row, committed when the order is for a sale.
Built(n, forSale) ==
  [onHand |-> n,
   avail  |-> IF forSale THEN 0 ELSE n,
   commit |-> IF forSale THEN n ELSE 0]

\* putAwayInventory: whatever is not committed becomes free.
Shelved(q) == [q EXCEPT !.avail = q.onHand - q.commit]

-----------------------------------------------------------------------------
(* The loop "take Math.min(cap, remaining) from each in turn"              *)

Total(f) == SumFunction(f)

\* What may be taken of each without asking for more than its cap.
Takes(cap) ==
  {f \in [DOMAIN cap -> UNION {0 .. cap[x] : x \in DOMAIN cap}] :
     \A x \in DOMAIN cap : f[x] <= cap[x]}

\* Every outcome of the loop over DOMAIN cap, whatever order the rows are
\* visited in: all it can of total is taken and at most one cap is cut short.
Fills(cap, total) ==
  {f \in Takes(cap) :
     /\ Total(f) = Lesser(total, Total(cap))
     /\ Cardinality({x \in DOMAIN cap : 0 < f[x] /\ f[x] < cap[x]}) <= 1}

\* The loop when the rows are visited largest first (orderBy desc).
LargestFirst(cap, total) ==
  {f \in Fills(cap, total) :
     \A x, y \in DOMAIN cap : 0 < f[x] /\ f[y] < cap[y] => cap[y] <= cap[x]}
=============================================================================
