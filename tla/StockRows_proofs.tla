--------------------------- MODULE StockRows_proofs ---------------------------
(***************************************************************************)
(* What the row arithmetic of StockRows preserves, for every quantity, and *)
(* what is true of sums over a finite table, whatever its rows.            *)
(***************************************************************************)
EXTENDS StockRows, FiniteSetTheorems, TLAPS

\* allocateFinishedGoods takes at most what is free: the row stays a row and no
\* unit is promised twice or lost sight of.
LEMMA ReserveKeeps ==
  ASSUME NEW q \in Quantities, NEW n \in Nat, n <= q.avail
  PROVE  /\ Reserve(q, n) \in Quantities
         /\ Covered(q) => Covered(Reserve(q, n))
         /\ Balanced(q) => Balanced(Reserve(q, n))
         /\ Reserve(q, n).onHand = q.onHand
         /\ n = 0 => Reserve(q, n).avail = q.avail /\ Reserve(q, n).commit = q.commit
  BY DEF Quantities, Reserve, Covered, Balanced

\* releaseCommitment gives back at most what is committed.
LEMMA UnreserveKeeps ==
  ASSUME NEW q \in Quantities, NEW n \in Nat, n <= q.commit
  PROVE  /\ Unreserve(q, n) \in Quantities
         /\ Covered(q) => Covered(Unreserve(q, n))
         /\ Balanced(q) => Balanced(Unreserve(q, n))
         /\ n = 0 => Unreserve(q, n).avail = q.avail /\ Unreserve(q, n).commit = q.commit
  BY DEF Quantities, Unreserve, Covered, Balanced

\* The pool of a row is a number of units that are both there and not stranded.
LEMMA PoolBounds ==
  ASSUME NEW q \in Quantities
  PROVE  /\ Pool(q) \in Nat /\ Pool(q) <= q.onHand
         /\ Pool(q) <= q.avail + q.commit
  BY DEF Quantities, Pool, Lesser

\* shipSalesOrder writes Math.max(0, ...) three times; within the pool of the
\* row it read none of the three is ever cut off.
LEMMA IssueKeeps ==
  ASSUME NEW q \in Quantities, NEW n \in Nat, n <= Pool(q)
  PROVE  /\ IssueCommitted(q, n) \in Quantities
         /\ Covered(q) => Covered(IssueCommitted(q, n))
         /\ Balanced(q) => Balanced(IssueCommitted(q, n))
         /\ IssueCommitted(q, n).onHand = q.onHand - n
         /\ q.avail = 0 /\ q.commit = 0 =>
              IssueCommitted(q, n).avail = 0 /\ IssueCommitted(q, n).commit = 0
  BY DEF Quantities, IssueCommitted, Pool, Covered, Balanced, Lesser, Monus

\* The same of issueManualShipmentInventory, which takes free units first.
LEMMA IssueFreeKeeps ==
  ASSUME NEW q \in Quantities, NEW n \in Nat, n <= Pool(q)
  PROVE  /\ IssueAvailable(q, n) \in Quantities
         /\ Covered(q) => Covered(IssueAvailable(q, n))
         /\ Balanced(q) => Balanced(IssueAvailable(q, n))
         /\ IssueAvailable(q, n).onHand = q.onHand - n
  BY DEF Quantities, IssueAvailable, Pool, Covered, Balanced, Lesser, Monus

\* completeWorkOrderToStock makes a row whose units are all free or all committed.
LEMMA BuiltIsBalanced ==
  ASSUME NEW n \in Nat, NEW b \in BOOLEAN
  PROVE  /\ Built(n, b) \in Quantities
         /\ Covered(Built(n, b)) /\ Balanced(Built(n, b))
         /\ n = 0 => Built(n, b).avail = 0 /\ Built(n, b).commit = 0
  BY DEF Quantities, Built, Covered, Balanced

\* putAwayInventory frees every unit that is not committed.
LEMMA ShelvedIsBalanced ==
  ASSUME NEW q \in Quantities, Covered(q)
  PROVE  Shelved(q) \in Quantities /\ Covered(Shelved(q)) /\ Balanced(Shelved(q))
  BY DEF Quantities, Shelved, Covered, Balanced

\* Whatever a loop takes of an index is a whole number within its cap.
LEMMA TakesBounds ==
  ASSUME NEW cap, \A x \in DOMAIN cap : cap[x] \in Nat,
         NEW f \in Takes(cap), NEW x \in DOMAIN cap
  PROVE  DOMAIN f = DOMAIN cap /\ f[x] \in Nat /\ f[x] <= cap[x]
<1>1. f \in [DOMAIN cap -> UNION {0 .. cap[y] : y \in DOMAIN cap}] /\ f[x] <= cap[x]
  BY DEF Takes
<1>2. PICK y \in DOMAIN cap : f[x] \in 0 .. cap[y]
  BY <1>1
<1>3. f[x] \in Nat
  BY <1>2
<1> QED BY <1>1, <1>3

\* What the loop takes is within the caps.
LEMMA FillsAreTakes ==
  ASSUME NEW cap, NEW total, NEW f \in Fills(cap, total)
  PROVE  f \in Takes(cap)
  BY DEF Fills

-----------------------------------------------------------------------------
(* Sums over finite sets                                                   *)

\* A family of subsets of a finite set has a smallest member: strict inclusion is
\* well founded there.
LEMMA Smallest ==
  ASSUME NEW S, IsFiniteSet(S), NEW T \in SUBSET (SUBSET S), T # {}
  PROVE  \E U \in T : \A V \in T : V \subseteq U => V = U
<1>1. IsWellFoundedOn(StrictSubsetOrdering(S), SUBSET S)
  BY FS_StrictSubsetOrderingWellFounded, FS_FiniteSubsetsOfFinite
<1>2. PICK U \in T : \A V \in T : ~(<<V, U>> \in StrictSubsetOrdering(S))
  BY <1>1, WFMin
<1> QED BY <1>2 DEF StrictSubsetOrdering

\* Induction over a finite set, with the property given as the set T of the subsets
\* that have it.
LEMMA FiniteInduction ==
  ASSUME NEW S, IsFiniteSet(S), NEW T, {} \in T,
         \A U \in SUBSET S : \A x \in S \ U : U \in T => U \cup {x} \in T
  PROVE  S \in T
<1> DEFINE bad == {U \in SUBSET S : U \notin T}
<1> SUFFICES ASSUME bad # {} PROVE FALSE
  OBVIOUS
<1>0. bad \in SUBSET (SUBSET S)
  OBVIOUS
<1>1. PICK U \in bad : \A V \in bad : V \subseteq U => V = U
  <2> HIDE DEF bad
  <2> QED BY <1>0, Smallest
<1>2. PICK x : x \in U
  OBVIOUS
<1>3. U \ {x} \in T
  BY <1>1, <1>2
<1>4. U = (U \ {x}) \cup {x}
  BY <1>2
<1> QED BY <1>2, <1>3, <1>4

\* SumFunctionOnSet is defined by a recursive function on the subsets of the set:
\* what it takes of a set and what it says of one, given what it says of the rest.
ChosenFrom(s) == CHOOSE x \in s : TRUE
PartialSum(f, it, s) == IF s = {} THEN 0 ELSE f[ChosenFrom(s)] + it[s \ {ChosenFrom(s)}]
ArePartialSums(f, S, it) == it = [s \in SUBSET S |-> PartialSum(f, it, s)]
PartialSums(f, S) == CHOOSE it : ArePartialSums(f, S, it)

\* The definition of the library, in these terms.
LEMMA SumIsPartialSum ==
  ASSUME NEW f, NEW S
  PROVE  SumFunctionOnSet(f, S) = PartialSums(f, S)[S]
BY Zenon DEF SumFunctionOnSet, FoldFunctionOnSet, MapThenFoldSet, PartialSums, ArePartialSums, PartialSum, ChosenFrom

\* What is chosen from a set is one of its members.
LEMMA ChosenFromIsIn == ASSUME NEW s, s # {} PROVE ChosenFrom(s) \in s
BY DEF ChosenFrom

\* Two functions that satisfy the recursion agree where they meet.
LEMMA PartialSumsAreUnique ==
  ASSUME NEW f, NEW S, IsFiniteSet(S), NEW R \in SUBSET S,
         NEW g, ArePartialSums(f, S, g), NEW h, ArePartialSums(f, R, h)
  PROVE  g[R] = h[R]
<1> DEFINE bad == {s \in SUBSET R : g[s] # h[s]}
<1> SUFFICES ASSUME bad # {} PROVE FALSE
  OBVIOUS
<1>0. bad \in SUBSET (SUBSET S)
  OBVIOUS
<1>1. PICK U \in bad : \A V \in bad : V \subseteq U => V = U
  <2> HIDE DEF bad
  <2> QED BY <1>0, Smallest
<1>2. g[U] = PartialSum(f, g, U) /\ h[U] = PartialSum(f, h, U)
  BY DEF ArePartialSums
<1>3. U # {}
  BY <1>1, <1>2 DEF PartialSum
<1>4. g[U \ {ChosenFrom(U)}] = h[U \ {ChosenFrom(U)}]
  BY <1>1, <1>3, ChosenFromIsIn
<1> QED BY <1>1, <1>2, <1>3, <1>4 DEF PartialSum

\* Some function satisfies the recursion, over every finite set.
LEMMA PartialSumsExist ==
  ASSUME NEW f, NEW S, IsFiniteSet(S)
  PROVE  ArePartialSums(f, S, PartialSums(f, S))
<1> DEFINE Good(U) == \E it : ArePartialSums(f, U, it)
           bad == {U \in SUBSET S : ~Good(U)}
<1>0. \A U : Good(U) => ArePartialSums(f, U, PartialSums(f, U))
  BY DEF PartialSums
<1> SUFFICES ASSUME bad # {} PROVE FALSE
  BY <1>0
<1>a. bad \in SUBSET (SUBSET S)
  OBVIOUS
<1>1. PICK U \in bad : \A V \in bad : V \subseteq U => V = U
  <2> HIDE DEF bad
  <2> QED BY <1>a, Smallest
<1> DEFINE h == [s \in SUBSET U |->
                   IF s = {} THEN 0
                   ELSE f[ChosenFrom(s)] + PartialSums(f, s \ {ChosenFrom(s)})[s \ {ChosenFrom(s)}]]
<1>2. ASSUME NEW V \in SUBSET U, V # U
      PROVE  ArePartialSums(f, V, PartialSums(f, V))
  BY <1>0, <1>1, <1>2
<1>3. ASSUME NEW V \in SUBSET U, V # U PROVE h[V] = PartialSums(f, V)[V]
  <2>1. CASE V = {}
    BY <1>2, <1>3, <2>1 DEF PartialSum, ArePartialSums
  <2>2. CASE V # {}
    <3> DEFINE W == V \ {ChosenFrom(V)}
    <3>1. W \in SUBSET V /\ W # U /\ W \in SUBSET U
      BY <1>3
    <3>2. PartialSums(f, V)[V] = f[ChosenFrom(V)] + PartialSums(f, V)[W]
      BY <1>2, <1>3, <2>2 DEF PartialSum, ArePartialSums
    <3>3. PartialSums(f, V)[W] = PartialSums(f, W)[W]
      <4>1. IsFiniteSet(V)
        BY FS_Subset
      <4>2. ArePartialSums(f, V, PartialSums(f, V)) /\ ArePartialSums(f, W, PartialSums(f, W))
        BY <1>2, <1>3, <3>1
      <4> HIDE DEF W
      <4> QED BY <3>1, <4>1, <4>2, PartialSumsAreUnique
    <3> QED BY <2>2, <3>2, <3>3
  <2> QED BY <2>1, <2>2
<1>4. ASSUME NEW s \in SUBSET U PROVE h[s] = PartialSum(f, h, s)
  <2>1. CASE s = {}
    BY <2>1 DEF PartialSum
  <2>2. CASE s # {}
    <3>1. s \ {ChosenFrom(s)} \in SUBSET U /\ s \ {ChosenFrom(s)} # U
      BY <2>2, ChosenFromIsIn
    <3> HIDE DEF h
    <3>2. h[s \ {ChosenFrom(s)}] = PartialSums(f, s \ {ChosenFrom(s)})[s \ {ChosenFrom(s)}]
      BY <1>3, <3>1
    <3> QED BY <2>2, <3>2 DEF PartialSum, h
  <2> QED BY <2>1, <2>2
<1>5. ArePartialSums(f, U, h)
  <2>1. DOMAIN h = SUBSET U /\ h = [s \in SUBSET U |-> h[s]]
    OBVIOUS
  <2> HIDE DEF h
  <2> QED BY <1>4, <2>1 DEF ArePartialSums
<1> QED BY <1>1, <1>5

\* A sum is one term, the chosen one, and the sum of the rest.
LEMMA SumTaken ==
  ASSUME NEW f, NEW S, IsFiniteSet(S), S # {}
  PROVE  SumFunctionOnSet(f, S) = f[ChosenFrom(S)] + SumFunctionOnSet(f, S \ {ChosenFrom(S)})
<1> DEFINE R == S \ {ChosenFrom(S)}
<1>1. IsFiniteSet(R) /\ R \in SUBSET S
  BY FS_Subset
<1>2. ArePartialSums(f, S, PartialSums(f, S)) /\ ArePartialSums(f, R, PartialSums(f, R))
  BY <1>1, PartialSumsExist
<1>3. PartialSums(f, S)[S] = f[ChosenFrom(S)] + PartialSums(f, S)[R]
  BY <1>2 DEF PartialSum, ArePartialSums
<1>4. PartialSums(f, S)[R] = PartialSums(f, R)[R]
  <2> HIDE DEF R
  <2> QED BY <1>1, <1>2, PartialSumsAreUnique
<1> QED BY <1>3, <1>4, SumIsPartialSum

\* The sum over no row is zero.
LEMMA SumOfNone == \A f : SumFunctionOnSet(f, {}) = 0
<1> TAKE f
<1>1. ArePartialSums(f, {}, PartialSums(f, {}))
  BY FS_EmptySet, PartialSumsExist
<1>2. PartialSums(f, {})[{}] = PartialSum(f, PartialSums(f, {}), {})
  BY <1>1 DEF ArePartialSums
<1> QED BY <1>2, SumIsPartialSum DEF PartialSum

\* A sum of integers is an integer, and any term may be taken out of it: the order
\* in which rows are added up does not matter.
LEMMA SumPick ==
  ASSUME NEW S, IsFiniteSet(S), NEW f, \A x \in S : f[x] \in Int
  PROVE  /\ SumFunctionOnSet(f, S) \in Int
         /\ \A x \in S : SumFunctionOnSet(f, S) = f[x] + SumFunctionOnSet(f, S \ {x})
<1> DEFINE Good(U) == /\ SumFunctionOnSet(f, U) \in Int
                      /\ \A x \in U : SumFunctionOnSet(f, U) = f[x] + SumFunctionOnSet(f, U \ {x})
           bad == {U \in SUBSET S : ~Good(U)}
<1> SUFFICES ASSUME bad # {} PROVE FALSE
  OBVIOUS
<1>0. bad \in SUBSET (SUBSET S)
  OBVIOUS
<1>1. PICK U \in bad : \A V \in bad : V \subseteq U => V = U
  <2> HIDE DEF bad
  <2> QED BY <1>0, Smallest
<1>2. \A V \in SUBSET U : V # U => Good(V)
  BY <1>1
<1> HIDE DEF Good
<1>3. U # {}
  <2>1. SumFunctionOnSet(f, {}) \in Int
    BY SumOfNone
  <2>2. Good({})
    BY <2>1 DEF Good
  <2> QED BY <1>1, <2>2
<1> DEFINE c == ChosenFrom(U)
<1>4. c \in U
  BY <1>3, ChosenFromIsIn
<1>5. SumFunctionOnSet(f, U) = f[c] + SumFunctionOnSet(f, U \ {c})
  BY <1>3, SumTaken, FS_Subset
<1>6. SumFunctionOnSet(f, U \ {c}) \in Int
  BY <1>2, <1>4 DEF Good
<1>7. SumFunctionOnSet(f, U) \in Int
  BY <1>4, <1>5, <1>6
<1>8. ASSUME NEW x \in U PROVE SumFunctionOnSet(f, U) = f[x] + SumFunctionOnSet(f, U \ {x})
  <2>1. CASE x = c
    BY <1>5, <2>1
  <2>2. CASE x # c
    <3>1. SumFunctionOnSet(f, U \ {c}) = f[x] + SumFunctionOnSet(f, (U \ {c}) \ {x})
      BY <1>2, <1>4, <2>2 DEF Good
    <3>2. SumFunctionOnSet(f, U \ {x}) = f[c] + SumFunctionOnSet(f, (U \ {x}) \ {c})
      BY <1>2, <1>4, <2>2 DEF Good
    <3>3. (U \ {c}) \ {x} = (U \ {x}) \ {c}
      OBVIOUS
    <3>4. SumFunctionOnSet(f, (U \ {c}) \ {x}) \in Int
      BY <1>2, <1>4 DEF Good
    <3>5. f[c] \in Int /\ f[x] \in Int
      BY <1>4
    <3> DEFINE a == SumFunctionOnSet(f, U)
               b == SumFunctionOnSet(f, U \ {c})
               d == SumFunctionOnSet(f, U \ {x})
               e == SumFunctionOnSet(f, (U \ {c}) \ {x})
    <3>6. a = f[c] + b /\ b = f[x] + e /\ d = f[c] + e /\ e \in Int
      BY <1>5, <3>1, <3>2, <3>3, <3>4
    <3> HIDE DEF a, b, c, d, e
    <3>7. a = f[x] + d
      BY <3>5, <3>6
    <3> QED BY <3>7 DEF a, d
  <2> QED BY <2>1, <2>2
<1> QED BY <1>1, <1>7, <1>8 DEF Good

\* The same, read the other way: a term is added to a partial sum.
LEMMA SumGrows ==
  ASSUME NEW S, IsFiniteSet(S), NEW f, \A x \in S : f[x] \in Int
  PROVE  \A U \in SUBSET S :
           /\ SumFunctionOnSet(f, U) \in Int
           /\ \A x \in S \ U : SumFunctionOnSet(f, U \cup {x}) = f[x] + SumFunctionOnSet(f, U)
<1> SUFFICES ASSUME NEW U \in SUBSET S
             PROVE  /\ SumFunctionOnSet(f, U) \in Int
                    /\ \A x \in S \ U : SumFunctionOnSet(f, U \cup {x}) = f[x] + SumFunctionOnSet(f, U)
  OBVIOUS
<1>1. IsFiniteSet(U)
  BY FS_Subset
<1>2. SumFunctionOnSet(f, U) \in Int
  BY <1>1, SumPick
<1>3. ASSUME NEW x \in S \ U
      PROVE  SumFunctionOnSet(f, U \cup {x}) = f[x] + SumFunctionOnSet(f, U)
  <2> DEFINE W == U \cup {x}
  <2>1. IsFiniteSet(W)
    <3>1. W \in SUBSET S
      OBVIOUS
    <3> HIDE DEF W
    <3> QED BY <3>1, FS_Subset
  <2>2. W \ {x} = U /\ x \in W /\ \A y \in W : f[y] \in Int
    OBVIOUS
  <2> HIDE DEF W
  <2>3. SumFunctionOnSet(f, W) = f[x] + SumFunctionOnSet(f, W \ {x})
    BY <2>1, <2>2, SumPick
  <2> QED BY <2>2, <2>3 DEF W
<1> QED BY <1>2, <1>3

\* The sum of sums is the sum of both.
LEMMA SumAdds ==
  ASSUME NEW S, IsFiniteSet(S), NEW f, NEW g, NEW h,
         \A x \in S : f[x] \in Int /\ g[x] \in Int /\ h[x] = f[x] + g[x]
  PROVE  SumFunctionOnSet(h, S) = SumFunctionOnSet(f, S) + SumFunctionOnSet(g, S)
<1> DEFINE a(U) == SumFunctionOnSet(f, U)
           b(U) == SumFunctionOnSet(g, U)
           c(U) == SumFunctionOnSet(h, U)
           T == {U \in SUBSET S : c(U) = a(U) + b(U)}
<1>1. a({}) = 0 /\ b({}) = 0 /\ c({}) = 0
  BY SumOfNone
<1>0. \A x \in S : f[x] \in Int /\ g[x] \in Int /\ h[x] \in Int
  OBVIOUS
<1>2. \A U \in SUBSET S : a(U) \in Int /\ \A x \in S \ U : a(U \cup {x}) = f[x] + a(U)
  BY <1>0, SumGrows
<1>3. \A U \in SUBSET S : b(U) \in Int /\ \A x \in S \ U : b(U \cup {x}) = g[x] + b(U)
  BY <1>0, SumGrows
<1>4. \A U \in SUBSET S : c(U) \in Int /\ \A x \in S \ U : c(U \cup {x}) = h[x] + c(U)
  BY <1>0, SumGrows
<1> HIDE DEF a, b, c
<1>5. {} \in T
  BY <1>1
<1>6. ASSUME NEW U \in SUBSET S, NEW x \in S \ U, U \in T PROVE U \cup {x} \in T
  <2>1. c(U \cup {x}) = a(U \cup {x}) + b(U \cup {x})
    BY <1>0, <1>2, <1>3, <1>4, <1>6
  <2> QED BY <2>1
<1>7. S \in T
  <2> HIDE DEF T
  <2> QED BY <1>5, <1>6, FiniteInduction
<1> QED BY <1>7 DEF a, b, c

\* Rows without anything add up to nothing.
LEMMA SumOfZeros ==
  ASSUME NEW S, IsFiniteSet(S), NEW f, \A x \in S : f[x] = 0
  PROVE  SumFunctionOnSet(f, S) = 0
<1> DEFINE T == {U \in SUBSET S : SumFunctionOnSet(f, U) = 0}
<1>1. {} \in T
  BY SumOfNone
<1>2. ASSUME NEW U \in SUBSET S, NEW x \in S \ U, U \in T PROVE U \cup {x} \in T
  <2>1. SumFunctionOnSet(f, U \cup {x}) = f[x] + SumFunctionOnSet(f, U)
    BY SumGrows
  <2> QED BY <1>2, <2>1
<1>3. S \in T
  <2> HIDE DEF T
  <2> QED BY <1>1, <1>2, FiniteInduction
<1> QED BY <1>3

\* A sum depends only on its terms.
LEMMA SumOfSame ==
  ASSUME NEW S, IsFiniteSet(S), NEW f, NEW g, \A x \in S : f[x] \in Int /\ g[x] = f[x]
  PROVE  SumFunctionOnSet(g, S) = SumFunctionOnSet(f, S)
<1> DEFINE z == [x \in S |-> 0]
<1>1. \A x \in S : z[x] = 0 /\ z[x] \in Int /\ g[x] = f[x] + z[x]
  OBVIOUS
<1> HIDE DEF z
<1>2. SumFunctionOnSet(z, S) = 0
  BY <1>1, SumOfZeros
<1>3. SumFunctionOnSet(g, S) = SumFunctionOnSet(f, S) + SumFunctionOnSet(z, S)
  BY <1>1, SumAdds
<1>4. SumFunctionOnSet(f, S) \in Int
  BY SumGrows
<1> QED BY <1>2, <1>3, <1>4

\* A sum of quantities is a quantity, and no term exceeds it.
LEMMA SumOfNat ==
  ASSUME NEW S, IsFiniteSet(S), NEW f, \A x \in S : f[x] \in Nat
  PROVE  /\ SumFunctionOnSet(f, S) \in Nat
         /\ \A x \in S : f[x] <= SumFunctionOnSet(f, S)
<1> DEFINE T == {U \in SUBSET S : SumFunctionOnSet(f, U) \in Nat}
<1>0. \A x \in S : f[x] \in Int
  OBVIOUS
<1>1. {} \in T
  BY SumOfNone
<1>2. ASSUME NEW U \in SUBSET S, NEW x \in S \ U, U \in T PROVE U \cup {x} \in T
  <2>1. SumFunctionOnSet(f, U \cup {x}) = f[x] + SumFunctionOnSet(f, U)
    BY <1>0, SumGrows
  <2>2. f[x] \in Nat /\ SumFunctionOnSet(f, U) \in Nat
    BY <1>2
  <2>3. SumFunctionOnSet(f, U \cup {x}) \in Nat
    BY <2>1, <2>2
  <2> QED BY <2>3
<1>3. \A V : (IsFiniteSet(V) /\ V \in SUBSET S) => SumFunctionOnSet(f, V) \in Nat
  <2> SUFFICES ASSUME NEW V \in SUBSET S PROVE V \in T
    OBVIOUS
  <2>1. IsFiniteSet(V)
    BY FS_Subset
  <2>2. \A U \in SUBSET V : \A x \in V \ U : U \in T => U \cup {x} \in T
    <3> SUFFICES ASSUME NEW U \in SUBSET V, NEW x \in V \ U, U \in T PROVE U \cup {x} \in T
      OBVIOUS
    <3>1. U \in SUBSET S /\ x \in S \ U
      OBVIOUS
    <3> HIDE DEF T
    <3> QED BY <1>2, <3>1
  <2> HIDE DEF T
  <2> QED BY <1>1, <2>1, <2>2, FiniteInduction
<1>4. ASSUME NEW x \in S PROVE f[x] <= SumFunctionOnSet(f, S)
  <2>1. SumFunctionOnSet(f, S) = f[x] + SumFunctionOnSet(f, S \ {x})
    BY <1>0, SumPick
  <2>2. SumFunctionOnSet(f, S \ {x}) \in Nat
    BY <1>3, FS_Subset
  <2> QED BY <2>1, <2>2
<1> QED BY <1>3, <1>4

\* Writing one row changes the sum by what that row changed.
LEMMA SumChanged ==
  ASSUME NEW S, IsFiniteSet(S), NEW x \in S, NEW f, NEW g, g[x] \in Int,
         \A y \in S : f[y] \in Int /\ (y # x => g[y] = f[y])
  PROVE  SumFunctionOnSet(g, S) = SumFunctionOnSet(f, S) + g[x] - f[x]
<1> DEFINE R == S \ {x}
<1>1. IsFiniteSet(R) /\ \A y \in R : f[y] \in Int /\ g[y] = f[y]
  BY FS_Subset
<1>2. \A y \in S : g[y] \in Int
  OBVIOUS
<1>3. SumFunctionOnSet(f, S) = f[x] + SumFunctionOnSet(f, R)
  BY SumPick
<1>4. SumFunctionOnSet(g, S) = g[x] + SumFunctionOnSet(g, R)
  BY <1>2, SumPick
<1> HIDE DEF R
<1>5. SumFunctionOnSet(g, R) = SumFunctionOnSet(f, R) /\ SumFunctionOnSet(f, R) \in Int
  BY <1>1, SumOfSame, SumPick
<1> QED BY <1>3, <1>4, <1>5

\* A sum grows with its terms.
LEMMA SumOfLess ==
  ASSUME NEW S, IsFiniteSet(S), NEW f, NEW g, \A x \in S : f[x] \in Int /\ g[x] \in Int /\ f[x] <= g[x]
  PROVE  SumFunctionOnSet(f, S) <= SumFunctionOnSet(g, S)
<1> DEFINE d == [x \in S |-> g[x] - f[x]]
<1>1. \A x \in S : d[x] \in Nat /\ d[x] \in Int /\ f[x] \in Int /\ g[x] = f[x] + d[x]
  OBVIOUS
<1> HIDE DEF d
<1>2. SumFunctionOnSet(g, S) = SumFunctionOnSet(f, S) + SumFunctionOnSet(d, S)
  BY <1>1, SumAdds
<1>3. SumFunctionOnSet(d, S) \in Nat
  BY <1>1, SumOfNat
<1>4. SumFunctionOnSet(f, S) \in Int
  BY SumPick
<1> QED BY <1>2, <1>3, <1>4

\* The rows of a part and the rows outside it add up to all of them.
LEMMA SumOfParts ==
  ASSUME NEW S, IsFiniteSet(S), NEW A \in SUBSET S, NEW f, \A x \in S : f[x] \in Int
  PROVE  SumFunctionOnSet(f, S) = SumFunctionOnSet(f, A) + SumFunctionOnSet(f, S \ A)
<1> DEFINE B == S \ A
           T == {U \in SUBSET B : SumFunctionOnSet(f, A \cup U) = SumFunctionOnSet(f, A) + SumFunctionOnSet(f, U)}
<1>0. SumFunctionOnSet(f, A) \in Int
  BY SumGrows
<1>1. {} \in T
  <2>1. A \cup {} = A
    OBVIOUS
  <2>2. SumFunctionOnSet(f, A \cup {}) = SumFunctionOnSet(f, A) + SumFunctionOnSet(f, {})
    BY <1>0, <2>1, SumOfNone
  <2> QED BY <2>2
<1>2. ASSUME NEW U \in SUBSET B, NEW x \in B \ U, U \in T PROVE U \cup {x} \in T
  <2>1. /\ U \in SUBSET S /\ x \in S \ U /\ A \cup U \in SUBSET S /\ x \in S \ (A \cup U)
        /\ U \cup {x} \in SUBSET B
        /\ (A \cup U) \cup {x} = A \cup (U \cup {x})
    OBVIOUS
  <2>2. SumFunctionOnSet(f, U \cup {x}) = f[x] + SumFunctionOnSet(f, U) /\ SumFunctionOnSet(f, U) \in Int
    BY <2>1, SumGrows
  <2>3. SumFunctionOnSet(f, (A \cup U) \cup {x}) = f[x] + SumFunctionOnSet(f, A \cup U)
    <3> DEFINE W == A \cup U
    <3>1. W \in SUBSET S /\ x \in S \ W
      BY <2>1
    <3> HIDE DEF W
    <3>2. SumFunctionOnSet(f, W \cup {x}) = f[x] + SumFunctionOnSet(f, W)
      BY <3>1, SumGrows
    <3> QED BY <3>2 DEF W
  <2>4. SumFunctionOnSet(f, A \cup U) = SumFunctionOnSet(f, A) + SumFunctionOnSet(f, U)
    BY <1>2
  <2>5. f[x] \in Int
    BY <2>1
  <2> DEFINE a == SumFunctionOnSet(f, A)
             u == SumFunctionOnSet(f, U)
             ux == SumFunctionOnSet(f, U \cup {x})
             aux == SumFunctionOnSet(f, A \cup (U \cup {x}))
  <2>6. aux = f[x] + (a + u) /\ ux = f[x] + u /\ u \in Int /\ a \in Int
    BY <1>0, <2>1, <2>2, <2>3, <2>4
  <2>7. aux = a + ux
    <3> HIDE DEF a, u, ux, aux
    <3> QED BY <2>5, <2>6
  <2> QED BY <2>1, <2>7
<1>3. B \in T
  <2>1. IsFiniteSet(B)
    BY FS_Subset
  <2> HIDE DEF T, B
  <2> QED BY <1>1, <1>2, <2>1, FiniteInduction
<1>4. A \cup B = S
  OBVIOUS
<1> QED BY <1>3, <1>4

\* Terms that are moved to other places, no two to the same, add up to the same.
LEMMA SumMoved ==
  ASSUME NEW S, IsFiniteSet(S), NEW R, IsFiniteSet(R), NEW f, NEW h, NEW m,
         \A x \in S : f[x] \in Int /\ m[x] \in R,
         \A y \in R : h[y] \in Int,
         \A x, y \in S : m[x] = m[y] => x = y,
         \A x \in S : h[m[x]] = f[x],
         \A y \in R : (\A x \in S : m[x] # y) => h[y] = 0
  PROVE  SumFunctionOnSet(h, R) = SumFunctionOnSet(f, S)
<1> DEFINE img(U) == {m[x] : x \in U}
           a(U) == SumFunctionOnSet(f, U)
           b(V) == SumFunctionOnSet(h, V)
           T == {U \in SUBSET S : b(img(U)) = a(U)}
<1>1. img({}) = {} /\ \A U \in SUBSET S : img(U) \in SUBSET R
  OBVIOUS
<1>2. \A U \in SUBSET S : \A x \in S \ U :
        img(U \cup {x}) = img(U) \cup {m[x]} /\ m[x] \in R \ img(U)
  OBVIOUS
<1>3. \A U \in SUBSET S : a(U) \in Int /\ \A x \in S \ U : a(U \cup {x}) = f[x] + a(U)
  BY SumGrows
<1>4. \A V \in SUBSET R : b(V) \in Int /\ \A y \in R \ V : b(V \cup {y}) = h[y] + b(V)
  BY SumGrows
<1>5. a({}) = 0 /\ b({}) = 0
  BY SumOfNone
<1>6. b(R) = b(img(S)) + b(R \ img(S))
  <2>1. img(S) \in SUBSET R
    BY <1>1
  <2> HIDE DEF img
  <2> QED BY <2>1, SumOfParts
<1>7. b(R \ img(S)) = 0
  <2> DEFINE V == R \ img(S)
  <2>1. IsFiniteSet(V) /\ \A y \in V : h[y] = 0
    BY FS_Subset
  <2> HIDE DEF V
  <2>2. SumFunctionOnSet(h, V) = 0
    BY <2>1, SumOfZeros
  <2> QED BY <2>2 DEF V
<1> HIDE DEF a, b, img
<1>8. {} \in T
  BY <1>1, <1>5
<1>9. ASSUME NEW U \in SUBSET S, NEW x \in S \ U, U \in T PROVE U \cup {x} \in T
  <2>1. b(img(U)) = a(U) /\ img(U) \in SUBSET R
    BY <1>1, <1>9
  <2>2. b(img(U) \cup {m[x]}) = h[m[x]] + b(img(U)) /\ img(U \cup {x}) = img(U) \cup {m[x]}
    BY <1>2, <1>4, <2>1
  <2>3. a(U \cup {x}) = f[x] + a(U) /\ h[m[x]] = f[x]
    BY <1>3
  <2> QED BY <2>1, <2>2, <2>3
<1>10. S \in T
  <2> HIDE DEF T
  <2> QED BY <1>8, <1>9, FiniteInduction
<1>11. b(R) = a(S)
  <2>1. b(img(S)) = a(S) /\ a(S) \in Int
    BY <1>3, <1>10
  <2> QED BY <1>6, <1>7, <2>1
<1> QED BY <1>11 DEF a, b

\* Rows outside a part that count as nothing may be added to it.
LEMMA SumPadded ==
  ASSUME NEW S, IsFiniteSet(S), NEW A \in SUBSET S, NEW f, NEW g,
         \A x \in A : f[x] \in Int /\ g[x] = f[x], \A x \in S \ A : g[x] = 0
  PROVE  SumFunctionOnSet(g, S) = SumFunctionOnSet(f, A)
<1> DEFINE B == S \ A
<1>1. IsFiniteSet(A) /\ IsFiniteSet(B)
  BY FS_Subset
<1>2. \A x \in S : g[x] \in Int
  OBVIOUS
<1>3. SumFunctionOnSet(g, S) = SumFunctionOnSet(g, A) + SumFunctionOnSet(g, B)
  BY <1>2, SumOfParts
<1>4. \A x \in B : g[x] = 0
  OBVIOUS
<1> HIDE DEF B
<1>5. SumFunctionOnSet(g, B) = 0
  BY <1>1, <1>4, SumOfZeros
<1>6. SumFunctionOnSet(g, A) = SumFunctionOnSet(f, A) /\ SumFunctionOnSet(f, A) \in Int
  BY <1>1, SumOfSame, SumPick
<1> QED BY <1>3, <1>5, <1>6

\* Terms that are within others and add up to the same are the same.
LEMMA SumReached ==
  ASSUME NEW S, IsFiniteSet(S), NEW f, NEW g,
         \A x \in S : f[x] \in Int /\ g[x] \in Int /\ f[x] <= g[x],
         SumFunctionOnSet(f, S) = SumFunctionOnSet(g, S)
  PROVE  \A x \in S : f[x] = g[x]
<1> SUFFICES ASSUME NEW x \in S PROVE f[x] = g[x]
  OBVIOUS
<1> DEFINE R == S \ {x}
<1>1. IsFiniteSet(R) /\ \A y \in R : f[y] \in Int /\ g[y] \in Int /\ f[y] <= g[y]
  BY FS_Subset
<1>2. SumFunctionOnSet(f, S) = f[x] + SumFunctionOnSet(f, R)
      /\ SumFunctionOnSet(g, S) = g[x] + SumFunctionOnSet(g, R)
  BY SumPick
<1> HIDE DEF R
<1>3. SumFunctionOnSet(f, R) <= SumFunctionOnSet(g, R)
      /\ SumFunctionOnSet(f, R) \in Int /\ SumFunctionOnSet(g, R) \in Int
  BY <1>1, SumOfLess, SumPick
<1>4. f[x] \in Int /\ g[x] \in Int /\ f[x] <= g[x]
  OBVIOUS
<1> DEFINE a == SumFunctionOnSet(f, R)
           b == SumFunctionOnSet(g, R)
<1>5. a \in Int /\ b \in Int /\ a <= b /\ f[x] + a = g[x] + b
  BY <1>2, <1>3
<1>6. \A i, j, m, n \in Int : i <= j /\ m <= n /\ i + m = j + n => i = j
  OBVIOUS
<1> HIDE DEF a, b
<1> QED BY <1>4, <1>5, <1>6

\* Total, over the domain.
LEMMA TotalOver ==
  ASSUME NEW S, NEW f, DOMAIN f = S
  PROVE  Total(f) = SumFunctionOnSet(f, S)
BY DEF Total, SumFunction

\* The loop takes what is asked for, or else everything there is.
LEMMA FillsBounds ==
  ASSUME NEW S, IsFiniteSet(S), NEW cap, DOMAIN cap = S, \A x \in S : cap[x] \in Nat,
         NEW total \in Nat, NEW f \in Fills(cap, total)
  PROVE  /\ DOMAIN f = S /\ \A x \in S : f[x] \in Nat /\ f[x] <= cap[x]
         /\ Total(f) = SumFunctionOnSet(f, S) /\ Total(f) \in Nat /\ Total(f) <= total
         /\ Total(f) < total => \A x \in S : f[x] = cap[x]
<1>1. f \in Takes(cap) /\ Total(f) = Lesser(total, Total(cap))
  BY DEF Fills
<1>2. DOMAIN f = S
  BY <1>1 DEF Takes
<1>3. \A x \in S : f[x] \in Nat /\ f[x] <= cap[x]
  BY <1>1, TakesBounds
<1>4. Total(f) = SumFunctionOnSet(f, S) /\ Total(cap) = SumFunctionOnSet(cap, S)
  BY <1>2, TotalOver
<1>5. Total(f) \in Nat /\ Total(cap) \in Nat
  BY <1>3, <1>4, SumOfNat
<1>6. Total(f) <= total
  BY <1>1, <1>5 DEF Lesser
<1>7. ASSUME Total(f) < total PROVE \A x \in S : f[x] = cap[x]
  <2>1. SumFunctionOnSet(f, S) = SumFunctionOnSet(cap, S)
    BY <1>1, <1>4, <1>5, <1>7 DEF Lesser
  <2>2. \A x \in S : f[x] \in Int /\ cap[x] \in Int /\ f[x] <= cap[x]
    BY <1>3
  <2> QED BY <2>1, <2>2, SumReached
<1> QED BY <1>2, <1>3, <1>4, <1>5, <1>6, <1>7
=============================================================================
