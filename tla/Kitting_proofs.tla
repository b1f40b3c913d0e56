---------------------------- MODULE Kitting_proofs ----------------------------
(* What holds of Kitting for every BOM, every stock and any number of requests. *)
EXTENDS Kitting, StockRows_proofs

-----------------------------------------------------------------------------
(* TypeOK                                                                  *)

WoType == [status : WorkOrderStatus, kit : KitStatus, bypassed : BOOLEAN]
KitType == [wo : WorkOrders \cup {NoWorkOrder}, status : KitOrderStatus, picked : Amounts]
PickType == [kit : Kits \cup {NoKit}, todo : SUBSET BomLines, read : Amounts]

\* A row never promises more than it has.
RowsCovered == \A r \in Rows : Covered(row[r])

\* A kit that was opened belongs to a work order; one that was not has nothing picked.
KitsBelong ==
  \A k \in Kits : IF kit[k].status = "NONE" THEN kit[k].picked = Nothing /\ kit[k].wo = NoWorkOrder
                  ELSE kit[k].wo \in WorkOrders

\* A request works on lines of the kit it has in hand.
LinesInHand ==
  \A p \in Pickers :
    IF pick[p].kit = NoKit THEN pick[p].todo = {}
    ELSE kit[pick[p].kit].status # "NONE" /\ pick[p].todo \subseteq Bom[kit[pick[p].kit].wo]

KitInv == TypeOK /\ RowsCovered /\ KitsBelong /\ LinesInHand

\* A request with a line to do has a kit of a work order in hand.
LEMMA InHand ==
  ASSUME KitInv, NEW p \in Pickers, pick[p].todo # {} \/ pick[p].kit # NoKit
  PROVE  /\ pick[p].kit \in Kits /\ kit[pick[p].kit].wo \in WorkOrders
         /\ kit[pick[p].kit].status # "NONE"
         /\ pick[p].todo \subseteq Bom[kit[pick[p].kit].wo] /\ pick[p].todo \subseteq BomLines
         /\ pick[p].read \in Amounts
<1>1. pick[p] \in PickType
  BY DEF KitInv, TypeOK, PickType
<1>2. pick[p].kit # NoKit /\ pick[p].kit \in Kits
  BY <1>1 DEF KitInv, LinesInHand, PickType
<1> QED BY <1>1, <1>2 DEF KitInv, LinesInHand, KitsBelong, PickType

\* What a line needs is at least one unit, and what is left of it no more.
LEMMA RequiredFacts ==
  ASSUME NEW w \in WorkOrders, NEW b \in BomLines, NEW read \in Amounts
  PROVE  /\ Required(w, b) \in Nat /\ Required(w, b) > 0
         /\ Remaining(w, b, read) \in Nat
         /\ read[b] <= Required(w, b) => Remaining(w, b, read) = Required(w, b) - read[b]
<1>1. PerUnit[b] \in Nat \ {0} /\ WoQty[w] \in Nat \ {0} /\ read[b] \in Nat
  BY BomAssumption DEF Amounts
<1>2. \A x, y \in Nat \ {0} : x * y \in Nat /\ x * y > 0
  OBVIOUS
<1>3. Required(w, b) \in Nat /\ Required(w, b) > 0
  BY <1>1, <1>2 DEF Required
<1> QED BY <1>1, <1>3 DEF Remaining, Monus

\* What a kit, a work order and a row become.
LEMMA OpenKitsFacts ==
  ASSUME TypeOK, NEW D \in SUBSET WorkOrders, NEW new \in [D -> UnusedKits], OpenKits(new)
  PROVE  /\ kit' \in [Kits -> KitType] /\ wo' \in [WorkOrders -> WoType]
         /\ \A k \in Kits : \/ kit'[k] = kit[k]
                            \/ /\ kit[k].status = "NONE" /\ kit'[k].status = "OPEN"
                               /\ kit'[k].wo \in D /\ kit'[k].picked = Nothing
         /\ \A w \in WorkOrders : wo'[w] = wo[w] \/ (wo'[w].status = "KITTING" /\ wo'[w].kit = "KITTING")
<1>1. \A k \in Kits : \/ kit'[k] = kit[k]
                      \/ /\ k \in UnusedKits
                         /\ \E w \in D : kit'[k] = [wo |-> w, status |-> "OPEN", picked |-> Nothing]
  <2> SUFFICES ASSUME NEW k \in Kits, \E w \in D : new[w] = k
               PROVE  /\ k \in UnusedKits
                      /\ \E w \in D : kit'[k] = [wo |-> w, status |-> "OPEN", picked |-> Nothing]
    BY DEF OpenKits
  <2> DEFINE c == CHOOSE w \in DOMAIN new : new[w] = k
  <2>1. c \in D /\ new[c] = k
    OBVIOUS
  <2>2. kit'[k] = [wo |-> c, status |-> "OPEN", picked |-> Nothing]
    BY DEF OpenKits
  <2> HIDE DEF c
  <2> QED BY <2>1, <2>2
<1>2. Nothing \in Amounts
  BY DEF Nothing, Amounts
<1>3. \A k \in Kits : kit[k] \in KitType
  BY DEF TypeOK, KitType
<1>4. \A w \in WorkOrders : [wo |-> w, status |-> "OPEN", picked |-> Nothing] \in KitType
  BY <1>2 DEF KitType, KitOrderStatus
<1>5. \A k \in Kits : kit'[k] \in KitType
  BY <1>1, <1>3, <1>4
<1>6. kit' \in [Kits -> KitType]
  BY <1>5 DEF OpenKits
<1>7. \A w \in WorkOrders : wo[w] \in WoType
  BY DEF TypeOK, WoType
<1>8. \A w \in WorkOrders :
        wo'[w] = wo[w] \/ wo'[w] = [wo[w] EXCEPT !.status = "KITTING", !.kit = "KITTING"]
  BY DEF OpenKits
<1>9. wo' \in [WorkOrders -> WoType]
  <2>1. \A w \in WorkOrders : [wo[w] EXCEPT !.status = "KITTING", !.kit = "KITTING"] \in WoType
    BY <1>7 DEF WoType, WorkOrderStatus, KitStatus
  <2>2. \A w \in WorkOrders : wo'[w] \in WoType
    BY <1>7, <1>8, <2>1
  <2> QED BY <2>2 DEF OpenKits
<1>10. \A w \in WorkOrders : wo'[w] = wo[w] \/ (wo'[w].status = "KITTING" /\ wo'[w].kit = "KITTING")
  BY <1>7, <1>8 DEF WoType
<1> QED BY <1>1, <1>6, <1>9, <1>10 DEF UnusedKits

\* The refresh of a work order changes its status and nothing else.
LEMMA RefreshedType ==
  ASSUME TypeOK, NEW w \in WorkOrders, NEW rows, NEW place
  PROVE  Refreshed(w, rows, place) \in WoType
<1>1. wo[w] \in WoType
  BY DEF TypeOK, WoType
<1>2. \A s \in {"READY_TO_KIT", "WAITING_MATERIAL"} :
        [wo[w] EXCEPT !.status = s, !.kit = s] \in WoType
  BY <1>1 DEF WoType, WorkOrderStatus, KitStatus
<1> QED BY <1>1, <1>2 DEF Refreshed

\* The same over all that wait.
LEMMA RefreshAllType ==
  ASSUME TypeOK, NEW rows, NEW place
  PROVE  RefreshAllWaiting(rows, place) \in [WorkOrders -> WoType]
<1>1. \A w \in WorkOrders : wo[w] \in WoType
  BY DEF TypeOK, WoType
<1> QED BY <1>1, RefreshedType DEF RefreshAllWaiting

\* A handler that writes work orders only.
LEMMA WorkOrderSteps ==
  ASSUME KitInv, NEW w \in WorkOrders,
         CreateWorkOrder(w) \/ PlanForSale(w) \/ CheckMaterials(w) \/ UpdateStatus(w)
           \/ StartProduction(w) \/ ScanToStation(w) \/ SignOffLastStep(w)
  PROVE  UNCHANGED <<kit, row, where, pick, staged, consumed>> /\ KitInv'
<1>1. TypeOK /\ wo \in [WorkOrders -> WoType]
  BY DEF KitInv, TypeOK, WoType
<1>2. wo' \in [WorkOrders -> WoType]
  <2>1. CASE CreateWorkOrder(w)
    BY <1>1, <2>1 DEF CreateWorkOrder, WoType, WorkOrderStatus
  <2>2. CASE PlanForSale(w)
    <3>1. PICK bypass \in BOOLEAN : \E s \in {"READY_TO_KIT", "WAITING_MATERIAL"} :
            wo' = [wo EXCEPT ![w] = [status |-> s, kit |-> s, bypassed |-> bypass]]
      BY <2>2 DEF PlanForSale
    <3> QED BY <1>1, <3>1 DEF WoType, WorkOrderStatus, KitStatus
  <2>3. CASE CheckMaterials(w)
    BY <1>1, <2>3, RefreshedType DEF CheckMaterials
  <2>4. CASE UpdateStatus(w)
    <3>1. PICK b \in StatusButtons : wo' = [wo EXCEPT ![w].status = b[2]]
      BY <2>4 DEF UpdateStatus
    <3>2. b[2] \in WorkOrderStatus
      BY DEF StatusButtons, WorkOrderStatus
    <3> QED BY <1>1, <3>1, <3>2 DEF WoType
  <2>5. CASE StartProduction(w)
    BY <1>1, <2>5 DEF StartProduction, WoType, WorkOrderStatus
  <2>6. CASE ScanToStation(w)
    BY <1>1, <2>6 DEF ScanToStation, WoType, WorkOrderStatus
  <2>7. CASE SignOffLastStep(w)
    BY <1>1, <2>7 DEF SignOffLastStep, WoType, WorkOrderStatus
  <2> QED BY Zenon, <2>1, <2>2, <2>3, <2>4, <2>5, <2>6, <2>7
<1>3. UNCHANGED <<kit, row, where, pick, staged, consumed>>
  BY DEF CreateWorkOrder, PlanForSale, CheckMaterials, UpdateStatus, StartProduction,
         ScanToStation, SignOffLastStep
<1>4. TypeOK'
  BY <1>1, <1>2, <1>3 DEF TypeOK, WoType
<1> QED BY <1>3, <1>4 DEF KitInv, RowsCovered, KitsBelong, LinesInHand

\* Every kit of a step that writes kits keeps what KitInv says of it, when each kit
\* that was open keeps its work order and none is unopened.
LEMMA KitsWritten ==
  ASSUME KitInv, NEW ks \in [Kits -> KitType], kit' = ks,
         \A k \in Kits : \/ kit[k].status # "NONE" /\ ks[k].status # "NONE" /\ ks[k].wo = kit[k].wo
                         \/ ks[k] = kit[k]
                         \/ kit[k].status = "NONE" /\ ks[k].status # "NONE" /\ ks[k].wo \in WorkOrders
  PROVE  KitsBelong' /\ (UNCHANGED pick => LinesInHand')
<1>1. \A k \in Kits : IF ks[k].status = "NONE" THEN ks[k].picked = Nothing /\ ks[k].wo = NoWorkOrder
                      ELSE ks[k].wo \in WorkOrders
  BY DEF KitInv, KitsBelong
<1>2. KitsBelong'
  BY <1>1 DEF KitsBelong, Nothing
<1>3. ASSUME UNCHANGED pick PROVE LinesInHand'
  <2> SUFFICES ASSUME NEW p \in Pickers
               PROVE  IF pick[p].kit = NoKit THEN pick[p].todo = {}
                      ELSE ks[pick[p].kit].status # "NONE" /\ pick[p].todo \subseteq Bom[ks[pick[p].kit].wo]
    BY <1>3 DEF LinesInHand
  <2>1. CASE pick[p].kit = NoKit
    BY <2>1 DEF KitInv, LinesInHand
  <2>2. CASE pick[p].kit # NoKit
    BY <2>2, InHand
  <2> QED BY <2>1, <2>2
<1> QED BY <1>2, <1>3

\* A handler that opens kits.
LEMMA OpeningSteps ==
  ASSUME KitInv, (\E w \in WorkOrders, k \in Kits : CreateKit(w, k)) \/ SweepKits
  PROVE  /\ \E D \in SUBSET WorkOrders : \E new \in [D -> UnusedKits] : OpenKits(new)
         /\ UNCHANGED <<row, where, pick, staged, consumed>> /\ KitInv'
<1>1. \E D \in SUBSET WorkOrders : \E new \in [D -> UnusedKits] : OpenKits(new)
  <2>1. ASSUME NEW w \in WorkOrders, NEW k \in Kits, CreateKit(w, k) 
        PROVE  \E D \in SUBSET WorkOrders : \E new \in [D -> UnusedKits] : OpenKits(new)
    <3> DEFINE new == [x \in {w} |-> k]
    <3>1. new \in [{w} -> UnusedKits] /\ OpenKits(new)
      BY <2>1 DEF CreateKit
    <3> HIDE DEF new
    <3> QED BY <3>1
  <2>2. ASSUME SweepKits
        PROVE  \E D \in SUBSET WorkOrders : \E new \in [D -> UnusedKits] : OpenKits(new)
    <3>1. PICK D \in SUBSET {w \in Upcoming : AllAvailable(w, row, where)} :
            \E new \in Injection(D, UnusedKits) : OpenKits(new)
      BY <2>2 DEF SweepKits
    <3>2. D \in SUBSET WorkOrders
      BY DEF Upcoming
    <3> QED BY <3>1, <3>2 DEF Injection
  <2> QED BY <2>1, <2>2
<1>2. PICK D \in SUBSET WorkOrders : \E new \in [D -> UnusedKits] : OpenKits(new)
  BY <1>1
<1>3. PICK new \in [D -> UnusedKits] : OpenKits(new)
  BY <1>2
<1>4. UNCHANGED <<row, where, pick, staged, consumed>>
  BY <1>3 DEF OpenKits
<1>5. /\ kit' \in [Kits -> KitType] /\ wo' \in [WorkOrders -> WoType]
      /\ \A k \in Kits : \/ kit'[k] = kit[k]
                         \/ /\ kit[k].status = "NONE" /\ kit'[k].status = "OPEN"
                            /\ kit'[k].wo \in D /\ kit'[k].picked = Nothing
  BY <1>3, OpenKitsFacts DEF KitInv
<1>6. TypeOK'
  BY <1>4, <1>5 DEF KitInv, TypeOK, KitType, WoType
<1>7. KitsBelong' /\ LinesInHand'
  BY <1>4, <1>5, KitsWritten
<1> QED BY <1>1, <1>4, <1>6, <1>7 DEF KitInv, RowsCovered

\* What the loop over the rows of a line takes, t of each row.
DrawnFor(p, b, t) ==
  LET w == kit[pick[p].kit].wo
      need == Remaining(w, b, pick[p].read)
  IN  /\ DOMAIN t = PickRows(w, b)
      /\ \A r \in PickRows(w, b) : t[r] \in Nat /\ t[r] <= row[r].avail
      /\ Total(t) = SumFunctionOnSet(t, PickRows(w, b))
      /\ Total(t) \in Nat /\ Total(t) <= need
      /\ Total(t) < need => \A r \in PickRows(w, b) : t[r] = row[r].avail
      /\ row' = [r \in Rows |-> IF r \in PickRows(w, b) THEN PickFree(row[r], t[r]) ELSE row[r]]
      /\ UNCHANGED <<where, consumed>>

\* The two ways a turn of the loop over the lines ends, n units taken.
PickedShort(p, b, n) ==
  LET k == pick[p].kit
      w == kit[k].wo
  IN  /\ n < Remaining(w, b, pick[p].read)
      /\ kit' = [kit EXCEPT ![k].status = "SHORT", ![k].picked[b] = pick[p].read[b] + n]
      /\ wo' = [wo EXCEPT ![w].status = "WAITING_MATERIAL", ![w].kit = "WAITING_MATERIAL"]
      /\ pick' = [pick EXCEPT ![p] = Idle]
      /\ UNCHANGED staged
PickedWhole(p, b, n) ==
  LET k == pick[p].kit
      w == kit[k].wo
  IN  /\ n = Remaining(w, b, pick[p].read)
      /\ kit' = [kit EXCEPT ![k].picked[b] = Required(w, b)]
      /\ staged' = [staged EXCEPT ![w][b] = @ + Required(w, b)]
      /\ pick' = [pick EXCEPT ![p].todo = @ \ {b}]
      /\ UNCHANGED wo

\* A turn of the loop over the lines is one of these.
LEMMA PickLineFacts ==
  ASSUME KitInv, NEW p \in Pickers, NEW b \in BomLines, PickLine(p, b)
  PROVE  /\ b \in pick[p].todo
         /\ \E t : DrawnFor(p, b, t) /\ (PickedShort(p, b, Total(t)) \/ PickedWhole(p, b, Total(t)))
<1> DEFINE k == pick[p].kit
           w == kit[k].wo
           need == Remaining(w, b, pick[p].read)
           S == PickRows(w, b)
           cap == [r \in S |-> row[r].avail]
<1>1. b \in pick[p].todo /\ UNCHANGED <<where, consumed>>
  BY DEF PickLine
<1>2. k \in Kits /\ w \in WorkOrders /\ pick[p].read \in Amounts
  BY <1>1, InHand
<1>3. need \in Nat
  BY <1>2, RequiredFacts
<1>4. S \subseteq Rows /\ IsFiniteSet(S)
  <2>1. S \subseteq Rows
    BY DEF PickRows, CompanyRows, GfpRows, RowsOf
  <2> QED BY <2>1, StockAssumption, FS_Subset
<1>5. DOMAIN cap = S /\ \A r \in S : cap[r] \in Nat /\ cap[r] = row[r].avail
  BY <1>4 DEF KitInv, TypeOK, Quantities
<1>6. PICK t \in Fills(cap, need) :
        /\ row' = [r \in Rows |-> IF r \in DOMAIN t THEN PickFree(row[r], t[r]) ELSE row[r]]
        /\ IF Total(t) < need
             THEN /\ kit' = [kit EXCEPT ![k].status = "SHORT",
                                        ![k].picked[b] = pick[p].read[b] + Total(t)]
                  /\ wo' = [wo EXCEPT ![w].status = "WAITING_MATERIAL",
                                      ![w].kit = "WAITING_MATERIAL"]
                  /\ pick' = [pick EXCEPT ![p] = Idle]
                  /\ UNCHANGED staged
             ELSE /\ kit' = [kit EXCEPT ![k].picked[b] = Required(w, b)]
                  /\ staged' = [staged EXCEPT ![w][b] = @ + StagedQty(w, b, Total(t))]
                  /\ pick' = [pick EXCEPT ![p].todo = @ \ {b}]
                  /\ UNCHANGED wo
  BY DEF PickLine
<1> HIDE DEF cap, S
<1>7. /\ DOMAIN t = S /\ \A r \in S : t[r] \in Nat /\ t[r] <= cap[r]
      /\ Total(t) = SumFunctionOnSet(t, S) /\ Total(t) \in Nat /\ Total(t) <= need
      /\ Total(t) < need => \A r \in S : t[r] = cap[r]
  BY <1>3, <1>4, <1>5, FillsBounds
<1>8. DrawnFor(p, b, t)
  BY <1>1, <1>5, <1>6, <1>7 DEF DrawnFor, S
<1>9. CASE Total(t) < need
  BY <1>6, <1>8, <1>9, <1>1 DEF PickedShort
<1>10. CASE Total(t) = need
  <2>1. ~(Total(t) < need)
    BY <1>3, <1>7, <1>10
  <2>2. /\ kit' = [kit EXCEPT ![k].picked[b] = Required(w, b)]
        /\ staged' = [staged EXCEPT ![w][b] = @ + Required(w, b)]
        /\ pick' = [pick EXCEPT ![p].todo = @ \ {b}] /\ UNCHANGED wo
    BY <1>6, <2>1 DEF StagedQty
  <2>3. PickedWhole(p, b, Total(t))
    BY <1>10, <2>2 DEF PickedWhole
  <2> QED BY <1>1, <1>8, <2>3
<1> QED BY <1>3, <1>7, <1>9, <1>10

\* What a pick leaves of a row.
LEMMA PickFreeKeeps ==
  ASSUME NEW q \in Quantities, NEW n \in Nat, n <= q.avail, Covered(q)
  PROVE  /\ PickFree(q, n) \in Quantities /\ Covered(PickFree(q, n))
         /\ PickFree(q, n).onHand = q.onHand - n /\ PickFree(q, n).avail = q.avail - n
BY DEF Quantities, PickFree, Covered

\* A turn of the loop keeps the types, and no row it draws on goes below what it promised.
LEMMA PickLineKeeps ==
  ASSUME KitInv, NEW p \in Pickers, NEW b \in BomLines, PickLine(p, b)
  PROVE  KitInv'
<1> DEFINE k == pick[p].kit
           w == kit[k].wo
<1>1. PICK t : DrawnFor(p, b, t) /\ (PickedShort(p, b, Total(t)) \/ PickedWhole(p, b, Total(t)))
  BY PickLineFacts
<1>2. /\ k \in Kits /\ w \in WorkOrders /\ pick[p].read \in Amounts /\ b \in pick[p].todo
      /\ kit[k].status # "NONE" /\ pick[p].todo \subseteq Bom[w]
  BY InHand, PickLineFacts
<1>3. Total(t) \in Nat /\ Required(w, b) \in Nat /\ pick[p].read[b] \in Nat
  BY <1>1, <1>2, RequiredFacts DEF DrawnFor, Amounts
<1>4. \A x \in Kits : kit[x] \in KitType
  BY DEF KitInv, TypeOK, KitType
<1>5. /\ \A v \in WorkOrders : wo[v] \in WoType /\ staged[v] \in Amounts
      /\ \A q \in Pickers : pick[q] \in PickType
      /\ DOMAIN wo = WorkOrders /\ DOMAIN staged = WorkOrders /\ DOMAIN kit = Kits /\ DOMAIN pick = Pickers
  BY DEF KitInv, TypeOK, WoType, PickType
<1>6. row' \in [Rows -> Quantities] /\ RowsCovered'
  <2>1. \A r \in Rows : row'[r] \in Quantities /\ Covered(row'[r])
    <3> SUFFICES ASSUME NEW r \in Rows PROVE row'[r] \in Quantities /\ Covered(row'[r])
      OBVIOUS
    <3>1. row[r] \in Quantities /\ Covered(row[r])
      BY DEF KitInv, TypeOK, RowsCovered
    <3>2. CASE r \in PickRows(w, b)
      <4>1. t[r] \in Nat /\ t[r] <= row[r].avail /\ row'[r] = PickFree(row[r], t[r])
        BY <1>1, <3>2 DEF DrawnFor
      <4> QED BY <3>1, <4>1, PickFreeKeeps
    <3>3. CASE r \notin PickRows(w, b)
      BY <1>1, <3>1, <3>3 DEF DrawnFor
    <3> QED BY <3>2, <3>3
  <2> QED BY <1>1, <2>1 DEF DrawnFor, RowsCovered
<1>7. UNCHANGED <<where, consumed>>
  BY <1>1 DEF DrawnFor
<1>8. Idle \in PickType
  BY DEF Idle, Nothing, PickType, Amounts
<1>9. CASE PickedShort(p, b, Total(t))
  <2>1. /\ kit' = [kit EXCEPT ![k].status = "SHORT", ![k].picked[b] = pick[p].read[b] + Total(t)]
        /\ wo' = [wo EXCEPT ![w].status = "WAITING_MATERIAL", ![w].kit = "WAITING_MATERIAL"]
        /\ pick' = [pick EXCEPT ![p] = Idle] /\ UNCHANGED staged
    BY <1>9 DEF PickedShort
  <2>2. kit' \in [Kits -> KitType]
    <3>1. [kit[k].picked EXCEPT ![b] = pick[p].read[b] + Total(t)] \in Amounts
      BY <1>2, <1>3, <1>4 DEF KitType, Amounts
    <3> DEFINE new == [kit[k].picked EXCEPT ![b] = pick[p].read[b] + Total(t)]
    <3>2. kit' = [kit EXCEPT ![k] = [kit[k] EXCEPT !.status = "SHORT", !.picked = new]]
      BY <1>2, <1>4, <1>5, <2>1 DEF KitType
    <3> HIDE DEF new
    <3> QED BY <1>2, <1>4, <1>5, <3>1, <3>2 DEF new, KitType, KitOrderStatus
  <2>3. wo' \in [WorkOrders -> WoType]
    BY <1>2, <1>5, <2>1 DEF WoType, WorkOrderStatus, KitStatus
  <2>4. pick' \in [Pickers -> PickType]
    BY <1>5, <1>8, <2>1
  <2>5. TypeOK'
    BY <1>6, <1>7, <2>1, <2>2, <2>3, <2>4 DEF KitInv, TypeOK, KitType, WoType, PickType
  <2>6. \A x \in Kits : kit'[x].wo = kit[x].wo
                        /\ (kit'[x] = kit[x] \/ (kit[x].status # "NONE" /\ kit'[x].status # "NONE"))
    BY <1>2, <1>4, <1>5, <2>1 DEF KitType
  <2>7. KitsBelong'
    BY <2>2, <2>6, KitsWritten
  <2>8. LinesInHand'
    <3>1. \A q \in Pickers : q # p => pick'[q] = pick[q]
      BY <2>1
    <3>2. pick'[p] = Idle
      BY <1>5, <2>1
    <3> SUFFICES ASSUME NEW q \in Pickers, q # p
                 PROVE  (IF pick[q].kit = NoKit THEN pick[q].todo = {}
                         ELSE kit[pick[q].kit].status # "NONE" /\ pick[q].todo \subseteq Bom[kit[pick[q].kit].wo])'
      BY <3>2 DEF LinesInHand, Idle
    <3> QED BY <3>1, <2>6, InHand DEF KitInv, LinesInHand
  <2> QED BY <1>6, <2>5, <2>7, <2>8 DEF KitInv
<1>10. CASE PickedWhole(p, b, Total(t))
  <2>1. /\ kit' = [kit EXCEPT ![k].picked[b] = Required(w, b)]
        /\ staged' = [staged EXCEPT ![w][b] = @ + Required(w, b)]
        /\ pick' = [pick EXCEPT ![p].todo = @ \ {b}] /\ UNCHANGED wo
    BY <1>10 DEF PickedWhole
  <2>2. kit' \in [Kits -> KitType]
    BY <1>2, <1>3, <1>4, <1>5, <2>1 DEF KitType, Amounts
  <2>3. staged' \in [WorkOrders -> Amounts]
    <3> DEFINE new == [staged[w] EXCEPT ![b] = @ + Required(w, b)]
    <3>1. new \in Amounts
      BY <1>2, <1>3, <1>5 DEF Amounts
    <3>2. staged' = [staged EXCEPT ![w] = new]
      BY <2>1
    <3> HIDE DEF new
    <3> QED BY <1>2, <1>5, <3>1, <3>2
  <2>4. pick' \in [Pickers -> PickType]
    BY <1>5, <2>1 DEF PickType
  <2>5. TypeOK'
    BY <1>6, <1>7, <2>1, <2>2, <2>3, <2>4 DEF KitInv, TypeOK, KitType, PickType
  <2>6. \A x \in Kits : kit'[x].wo = kit[x].wo /\ kit'[x].status = kit[x].status
                        /\ (kit'[x] = kit[x] \/ kit[x].status # "NONE")
    BY <1>2, <1>4, <1>5, <2>1 DEF KitType
  <2>7. KitsBelong'
    BY <2>2, <2>6, KitsWritten
  <2>8. LinesInHand'
    <3>1. \A q \in Pickers : pick'[q].kit = pick[q].kit /\ pick'[q].todo \subseteq pick[q].todo
      BY <1>5, <2>1 DEF PickType
    <3> SUFFICES ASSUME NEW q \in Pickers
                 PROVE  (IF pick[q].kit = NoKit THEN pick[q].todo = {}
                         ELSE kit[pick[q].kit].status # "NONE" /\ pick[q].todo \subseteq Bom[kit[pick[q].kit].wo])'
      BY DEF LinesInHand
    <3> QED BY <3>1, <2>6, InHand DEF KitInv, LinesInHand
  <2> QED BY <1>6, <2>5, <2>7, <2>8 DEF KitInv
<1> QED BY <1>1, <1>9, <1>10

\* The rest of the request: it takes a kit in hand, and lets go of it.
LEMMA StartPickingKeeps ==
  ASSUME KitInv, NEW p \in Pickers, NEW k \in Kits, StartPicking(p, k)
  PROVE  KitInv' /\ kit[k].wo \in WorkOrders
<1> DEFINE held == [kit |-> k, todo |-> LinesToPick(k), read |-> kit[k].picked]
<1>1. /\ kit' = [kit EXCEPT ![k].status = "PICKING"] /\ pick' = [pick EXCEPT ![p] = held]
      /\ kit[k].status # "NONE" /\ UNCHANGED <<wo, row, where, staged, consumed>>
  BY DEF StartPicking
<1>2. \A x \in Kits : kit[x] \in KitType
  BY DEF KitInv, TypeOK, KitType
<1>3. kit[k].wo \in WorkOrders
  BY <1>1 DEF KitInv, KitsBelong
<1>4. LinesToPick(k) \subseteq BomLines /\ LinesToPick(k) = Bom[kit[k].wo]
  BY <1>3, BomAssumption DEF LinesToPick
<1>5. held \in PickType
  BY <1>2, <1>4 DEF PickType, KitType
<1> HIDE DEF held
<1>6. kit' \in [Kits -> KitType]
  BY <1>1, <1>2 DEF KitInv, TypeOK, KitType, KitOrderStatus
<1>7. pick' \in [Pickers -> PickType]
  BY <1>1, <1>5 DEF KitInv, TypeOK, PickType
<1>8. TypeOK'
  BY <1>1, <1>6, <1>7 DEF KitInv, TypeOK, KitType, PickType
<1>9. \A x \in Kits : kit'[x].wo = kit[x].wo /\ (kit'[x] = kit[x] \/ (kit[x].status # "NONE" /\ kit'[x].status # "NONE"))
  BY <1>1, <1>2 DEF KitInv, TypeOK, KitType
<1>10. KitsBelong'
  BY <1>6, <1>9, KitsWritten
<1>11. LinesInHand'
  <2> SUFFICES ASSUME NEW q \in Pickers
               PROVE  (IF pick[q].kit = NoKit THEN pick[q].todo = {}
                       ELSE kit[pick[q].kit].status # "NONE" /\ pick[q].todo \subseteq Bom[kit[pick[q].kit].wo])'
    BY DEF LinesInHand
  <2>1. CASE q = p
    <3>1. pick'[q] = held
      BY <1>1, <2>1 DEF KitInv, TypeOK
    <3> QED BY <1>1, <1>4, <1>9, <3>1, NullsAssumption DEF held
  <2>2. CASE q # p
    <3>1. pick'[q] = pick[q]
      BY <1>1, <2>2
    <3> QED BY <3>1, <1>9, InHand DEF KitInv, LinesInHand
  <2> QED BY <2>1, <2>2
<1> QED BY <1>1, <1>3, <1>8, <1>10, <1>11 DEF KitInv, RowsCovered

\* A request that ends, one way or another.
LEMMA EndingSteps ==
  ASSUME KitInv, NEW p \in Pickers,
         FinishPicking(p) \/ Crash(p) \/ (\E b \in BomLines : ThrowGfp(p, b))
  PROVE  /\ pick' = [pick EXCEPT ![p] = Idle] /\ UNCHANGED <<row, where, staged, consumed>>
         /\ pick[p].kit \in Kits /\ kit[pick[p].kit].wo \in WorkOrders
         /\ UNCHANGED <<kit, wo>> \/ FinishPicking(p)
         /\ KitInv'
<1> DEFINE k == pick[p].kit
           w == kit[k].wo
<1>1. /\ pick' = [pick EXCEPT ![p] = Idle] /\ UNCHANGED <<row, where, staged, consumed>>
      /\ UNCHANGED <<kit, wo>> \/ FinishPicking(p)
      /\ pick[p].kit # NoKit \/ pick[p].todo # {}
  BY DEF FinishPicking, Crash, ThrowGfp
<1>2. k \in Kits /\ w \in WorkOrders /\ kit[k].status # "NONE"
  BY <1>1, InHand
<1>3. \A x \in Kits : kit[x] \in KitType
  BY DEF KitInv, TypeOK, KitType
<1>4. Idle \in PickType
  BY DEF Idle, Nothing, PickType, Amounts
<1>5. pick' \in [Pickers -> PickType]
  BY <1>1, <1>4 DEF KitInv, TypeOK, PickType
<1>6. kit' \in [Kits -> KitType] /\ wo' \in [WorkOrders -> WoType]
      /\ \A x \in Kits : kit'[x].wo = kit[x].wo /\ (kit'[x] = kit[x] \/ (kit[x].status # "NONE" /\ kit'[x].status # "NONE"))
  <2>1. CASE FinishPicking(p)
    <3>1. /\ kit' = [kit EXCEPT ![k].status = "COMPLETE"]
          /\ wo' = [wo EXCEPT ![w].status = "KITTED", ![w].kit = "KITTED"]
      BY <2>1 DEF FinishPicking
    <3>2. kit' \in [Kits -> KitType]
      BY <1>2, <1>3, <3>1 DEF KitInv, TypeOK, KitType, KitOrderStatus
    <3>3. wo' \in [WorkOrders -> WoType]
      BY <1>2, <3>1 DEF KitInv, TypeOK, WoType, WorkOrderStatus, KitStatus
    <3> QED BY <1>2, <1>3, <3>1, <3>2, <3>3 DEF KitInv, TypeOK, KitType
  <2>2. CASE UNCHANGED <<kit, wo>>
    BY <2>2 DEF KitInv, TypeOK, KitType, WoType
  <2> QED BY <1>1, <2>1, <2>2
<1>7. TypeOK'
  BY <1>1, <1>5, <1>6 DEF KitInv, TypeOK, KitType, PickType, WoType
<1>8. KitsBelong'
  BY <1>6, KitsWritten
<1>9. LinesInHand'
  <2>1. pick'[p] = Idle
    BY <1>1 DEF KitInv, TypeOK
  <2>2. \A q \in Pickers : q # p => pick'[q] = pick[q]
    BY <1>1
  <2> SUFFICES ASSUME NEW q \in Pickers, q # p
               PROVE  (IF pick[q].kit = NoKit THEN pick[q].todo = {}
                       ELSE kit[pick[q].kit].status # "NONE" /\ pick[q].todo \subseteq Bom[kit[pick[q].kit].wo])'
    BY <2>1 DEF LinesInHand, Idle
  <2> QED BY <2>2, <1>6, InHand DEF KitInv, LinesInHand
<1> QED BY <1>1, <1>2, <1>7, <1>8, <1>9 DEF KitInv, RowsCovered

\* Completion consumes what is staged and may shelve what was built.
LEMMA CompleteKeeps ==
  ASSUME KitInv, NEW w \in WorkOrders, CompleteToStock(w)
  PROVE  /\ KitInv'
         /\ \A v \in WorkOrders, b \in BomLines :
              staged'[v][b] + consumed'[v][b] = staged[v][b] + consumed[v][b]
<1> DEFINE used == [b \in BomLines |-> consumed[w][b] + staged[w][b]]
<1>1. /\ wo' = [wo EXCEPT ![w].status = "COMPLETED"] /\ UNCHANGED <<kit, pick>>
      /\ consumed' = [consumed EXCEPT ![w] = used] /\ staged' = [staged EXCEPT ![w] = Nothing]
  BY DEF CompleteToStock
<1>2. \A v \in WorkOrders : staged[v] \in Amounts /\ consumed[v] \in Amounts
  BY DEF KitInv, TypeOK
<1>3. used \in Amounts /\ Nothing \in Amounts
  BY <1>2 DEF Amounts, Nothing
<1>4. /\ DOMAIN staged = WorkOrders /\ DOMAIN consumed = WorkOrders
      /\ \A b \in BomLines : used[b] = consumed[w][b] + staged[w][b] /\ Nothing[b] = 0
  BY DEF KitInv, TypeOK, Nothing
<1> HIDE DEF used
<1>5. staged' \in [WorkOrders -> Amounts] /\ consumed' \in [WorkOrders -> Amounts]
  BY <1>1, <1>2, <1>3, <1>4
<1>6. wo' \in [WorkOrders -> WoType]
  BY <1>1 DEF KitInv, TypeOK, WoType, WorkOrderStatus
<1>7. row' \in [Rows -> Quantities] /\ where' \in [Rows -> LocationType] /\ RowsCovered'
  <2>1. CASE Builds[w] = NoPart
    BY <2>1 DEF CompleteToStock, KitInv, TypeOK, RowsCovered
  <2>2. CASE Builds[w] # NoPart
    <3>1. PICK r \in RowsOf(Builds[w]) : /\ row' = [row EXCEPT ![r] = Built(WoQty[w], FALSE)]
                                         /\ where' = [where EXCEPT ![r] = "STORAGE"]
      BY <2>2 DEF CompleteToStock
    <3>2. r \in Rows
      BY DEF RowsOf
    <3>3. Built(WoQty[w], FALSE) \in Quantities /\ Covered(Built(WoQty[w], FALSE))
      BY BomAssumption, BuiltIsBalanced
    <3> QED BY <3>1, <3>2, <3>3 DEF KitInv, TypeOK, RowsCovered, LocationType
  <2> QED BY <2>1, <2>2
<1>8. TypeOK'
  BY <1>1, <1>5, <1>6, <1>7 DEF KitInv, TypeOK, WoType
<1>9. \A v \in WorkOrders, b \in BomLines :
        staged'[v][b] + consumed'[v][b] = staged[v][b] + consumed[v][b]
  BY <1>1, <1>2, <1>4 DEF Amounts
<1> QED BY <1>1, <1>7, <1>8, <1>9 DEF KitInv, KitsBelong, LinesInHand

\* What moves on the shelves keeps every row covered.
LEMMA ShelfSteps ==
  ASSUME KitInv, NEW r \in Rows,
         ReceiveStock(r) \/ PutAway(r) \/ ReserveForSale(r) \/ ReleaseCommitment(r)
  PROVE  /\ KitInv' /\ UNCHANGED <<kit, pick, staged, consumed>>
         /\ wo' = wo \/ wo' = RefreshAllWaiting(row', where')
<1>1. /\ UNCHANGED <<kit, pick, staged, consumed>>
      /\ wo' = wo \/ wo' = RefreshAllWaiting(row', where')
  <2>1. ReleaseCommitment(r) => wo' = RefreshAllWaiting(row', where) /\ where' = where
    BY DEF ReleaseCommitment
  <2> QED BY <2>1 DEF ReceiveStock, PutAway, ReserveForSale, ReleaseCommitment
<1>2. wo' \in [WorkOrders -> WoType]
  <2>1. wo \in [WorkOrders -> WoType]
    BY DEF KitInv, TypeOK, WoType
  <2>2. TypeOK
    BY DEF KitInv
  <2> QED BY <1>1, <2>1, <2>2, RefreshAllType
<1>3. row[r] \in Quantities /\ Covered(row[r]) /\ row \in [Rows -> Quantities] /\ where \in [Rows -> LocationType]
  BY DEF KitInv, TypeOK, RowsCovered
<1>4. /\ where' \in [Rows -> LocationType]
      /\ \E q \in Quantities : Covered(q) /\ row' = [row EXCEPT ![r] = q]
  <2>1. CASE ReceiveStock(r)
    <3> DEFINE q == [row[r] EXCEPT !.onHand = @ + 1]
    <3>1. q \in Quantities /\ Covered(q)
      BY <1>3 DEF Quantities, Covered
    <3>2. row' = [row EXCEPT ![r] = q] /\ where' = [where EXCEPT ![r] = "RECEIVING"]
      BY <2>1, <1>3 DEF ReceiveStock, Quantities
    <3> HIDE DEF q
    <3> QED BY <1>3, <3>1, <3>2 DEF LocationType
  <2>2. CASE PutAway(r)
    <3>1. Shelved(row[r]) \in Quantities /\ Covered(Shelved(row[r]))
      BY <1>3, ShelvedIsBalanced
    <3>2. row' = [row EXCEPT ![r] = Shelved(row[r])]
      BY <2>2 DEF PutAway
    <3>3. where' \in [Rows -> LocationType]
      BY <1>3, <2>2, StockAssumption DEF PutAway
    <3> QED BY <3>1, <3>2, <3>3
  <2>3. CASE ReserveForSale(r)
    <3>1. row' = [row EXCEPT ![r] = Reserve(row[r], 1)] /\ where' = where /\ row[r].avail > 0
      BY <2>3 DEF ReserveForSale
    <3>2. row[r].avail \in Nat
      BY <1>3 DEF Quantities
    <3>3. Reserve(row[r], 1) \in Quantities /\ Covered(Reserve(row[r], 1))
      BY <1>3, <3>1, <3>2, ReserveKeeps
    <3> QED BY <1>3, <3>1, <3>3
  <2>4. CASE ReleaseCommitment(r)
    <3>1. row' = [row EXCEPT ![r] = Unreserve(row[r], 1)] /\ where' = where /\ row[r].commit > 0
      BY <2>4 DEF ReleaseCommitment
    <3>2. row[r].commit \in Nat
      BY <1>3 DEF Quantities
    <3>3. Unreserve(row[r], 1) \in Quantities /\ Covered(Unreserve(row[r], 1))
      BY <1>3, <3>1, <3>2, UnreserveKeeps
    <3> QED BY <1>3, <3>1, <3>3
  <2> QED BY <2>1, <2>2, <2>3, <2>4
<1>5. row' \in [Rows -> Quantities] /\ RowsCovered'
  BY <1>3, <1>4 DEF RowsCovered, KitInv
<1>6. TypeOK'
  BY <1>1, <1>2, <1>4, <1>5 DEF KitInv, TypeOK, WoType
<1> QED BY <1>1, <1>5, <1>6 DEF KitInv, KitsBelong, LinesInHand

\* The kinds of step there are.
WritesWorkOrders(w) ==
  CreateWorkOrder(w) \/ PlanForSale(w) \/ CheckMaterials(w) \/ UpdateStatus(w)
    \/ StartProduction(w) \/ ScanToStation(w) \/ SignOffLastStep(w)
OpensKits == (\E w \in WorkOrders, k \in Kits : CreateKit(w, k)) \/ SweepKits
EndsRequest(p) == FinishPicking(p) \/ Crash(p) \/ (\E b \in BomLines : ThrowGfp(p, b))
MovesShelf(r) == ReceiveStock(r) \/ PutAway(r) \/ ReserveForSale(r) \/ ReleaseCommitment(r)

\* Every step is of one of them.
LEMMA KitSteps ==
  ASSUME Next
  PROVE  \/ \E w \in WorkOrders : WritesWorkOrders(w) \/ CompleteToStock(w)
         \/ OpensKits
         \/ \E p \in Pickers : \/ \E k \in Kits : StartPicking(p, k)
                               \/ \E b \in BomLines : PickLine(p, b)
                               \/ EndsRequest(p)
         \/ \E r \in Rows : MovesShelf(r)
BY Zenon DEF Next, WritesWorkOrders, OpensKits, EndsRequest, MovesShelf

\* KitInv holds from the start and through every step.
LEMMA KitInvInitial == Init => KitInv
<1> SUFFICES ASSUME Init PROVE KitInv
  OBVIOUS
<1>1. Nothing \in Amounts
  BY DEF Nothing, Amounts
<1>2. \A r \in Rows : row[r] \in Quantities /\ Covered(row[r])
  BY StockAssumption, BuiltIsBalanced DEF Init
<1>3. where \in [Rows -> LocationType]
  BY StockAssumption DEF Init, LocationType
<1>4. TypeOK
  BY <1>1, <1>2, <1>3 DEF Init, TypeOK, WorkOrderStatus, KitStatus, KitOrderStatus, Idle
<1> QED BY <1>2, <1>4 DEF Init, KitInv, RowsCovered, KitsBelong, LinesInHand, Idle

\* The step.
LEMMA KitInvKept == KitInv /\ [Next]_vars => KitInv'
<1>1. ASSUME KitInv, Next PROVE KitInv'
  <2>1. ASSUME NEW w \in WorkOrders, WritesWorkOrders(w) PROVE KitInv'
    BY <1>1, <2>1, WorkOrderSteps DEF WritesWorkOrders
  <2>2. ASSUME NEW w \in WorkOrders, CompleteToStock(w) PROVE KitInv'
    BY <1>1, <2>2, CompleteKeeps
  <2>3. ASSUME OpensKits PROVE KitInv'
    BY <1>1, <2>3, OpeningSteps DEF OpensKits
  <2>4. ASSUME NEW p \in Pickers, NEW k \in Kits, StartPicking(p, k) PROVE KitInv'
    BY <1>1, <2>4, StartPickingKeeps
  <2>5. ASSUME NEW p \in Pickers, NEW b \in BomLines, PickLine(p, b) PROVE KitInv'
    BY <1>1, <2>5, PickLineKeeps
  <2>6. ASSUME NEW p \in Pickers, EndsRequest(p) PROVE KitInv'
    BY <1>1, <2>6, EndingSteps DEF EndsRequest
  <2>7. ASSUME NEW r \in Rows, MovesShelf(r) PROVE KitInv'
    BY <1>1, <2>7, ShelfSteps DEF MovesShelf
  <2> QED BY <1>1, KitSteps, <2>1, <2>2, <2>3, <2>4, <2>5, <2>6, <2>7
<1>2. KitInv /\ UNCHANGED vars => KitInv'
  BY DEF vars, KitInv, TypeOK, RowsCovered, KitsBelong, LinesInHand
<1> QED BY <1>1, <1>2

\* For every BOM, stock and number of requests, no pick, sale, release or
\* completion leaves a quantity negative.
THEOREM TypeCorrect == Spec => []TypeOK
<1>1. KitInv => TypeOK
  BY DEF KitInv
<1> QED BY <1>1, KitInvInitial, KitInvKept, PTL DEF Spec

-----------------------------------------------------------------------------
(* StagedCoversPicks                                                       *)

StagedCovers(w, b) ==
  staged[w][b] + consumed[w][b] >= Cardinality(PickedInFull(w, b)) * Required(w, b)

\* More of the same is no less.
LEMMA TimesGrows ==
  ASSUME NEW m \in Nat, NEW n \in Nat, NEW r \in Nat
  PROVE  /\ m * r \in Nat /\ (n + 1) * r = n * r + r
         /\ m <= n => m * r <= n * r
<1>1. m * r \in Nat /\ (n + 1) * r = n * r + r
  OBVIOUS
<1>2. ASSUME m <= n PROVE m * r <= n * r
  <2>1. PICK d \in Nat : n = m + d
    <3>1. n - m \in Nat /\ n = m + (n - m)
      BY <1>2
    <3> QED BY <3>1
  <2>2. (m + d) * r = m * r + d * r /\ d * r \in Nat /\ m * r \in Nat
    OBVIOUS
  <2> QED BY <2>1, <2>2
<1> QED BY <1>1, <1>2

\* The kits that count for a line are finitely many.
LEMMA PickedInFullFinite ==
  ASSUME NEW w, NEW b
  PROVE  IsFiniteSet(PickedInFull(w, b)) /\ Cardinality(PickedInFull(w, b)) \in Nat
<1>1. PickedInFull(w, b) \in SUBSET Kits
  BY DEF PickedInFull
<1> QED BY <1>1, BomAssumption, FS_Subset, FS_CardinalityType

\* A step that adds no kit to those picked in full, or one kit and what it needs.
LEMMA CoverKept ==
  ASSUME KitInv, KitInv', NEW w \in WorkOrders, NEW b \in Bom[w], StagedCovers(w, b), NEW k,
         \/ /\ PickedInFull(w, b)' \subseteq PickedInFull(w, b)
            /\ staged'[w][b] + consumed'[w][b] = staged[w][b] + consumed[w][b]
         \/ /\ PickedInFull(w, b)' \subseteq PickedInFull(w, b) \cup {k}
            /\ staged'[w][b] + consumed'[w][b] = staged[w][b] + consumed[w][b] + Required(w, b)
  PROVE  StagedCovers(w, b)'
<1> DEFINE X == PickedInFull(w, b)
           Y == PickedInFull(w, b)'
           r == Required(w, b)
<1>1. b \in BomLines /\ r \in Nat
  <2>1. b \in BomLines
    BY BomAssumption
  <2>2. Nothing \in Amounts
    BY DEF Nothing, Amounts
  <2> QED BY <2>1, <2>2, RequiredFacts
<1>2. IsFiniteSet(X) /\ IsFiniteSet(Y) /\ Cardinality(X) \in Nat /\ Cardinality(Y) \in Nat
  <2>1. Y \in SUBSET Kits
    BY DEF PickedInFull
  <2> QED BY <2>1, PickedInFullFinite, BomAssumption, FS_Subset, FS_CardinalityType
<1>3. /\ staged[w][b] \in Nat /\ consumed[w][b] \in Nat /\ staged'[w][b] \in Nat /\ consumed'[w][b] \in Nat
  BY <1>1 DEF KitInv, TypeOK, Amounts
<1>4. staged[w][b] + consumed[w][b] >= Cardinality(X) * r
  BY DEF StagedCovers
<1>5. StagedCovers(w, b)' <=> staged'[w][b] + consumed'[w][b] >= Cardinality(Y) * r
  BY DEF StagedCovers, Required
<1>6. CASE Y \subseteq X /\ staged'[w][b] + consumed'[w][b] = staged[w][b] + consumed[w][b]
  <2>1. Cardinality(Y) <= Cardinality(X)
    BY <1>2, <1>6, FS_Subset
  <2> HIDE DEF X, Y, r
  <2>2. Cardinality(Y) * r <= Cardinality(X) * r /\ Cardinality(Y) * r \in Nat /\ Cardinality(X) * r \in Nat
    BY <1>1, <1>2, <2>1, TimesGrows
  <2> QED BY <1>3, <1>4, <1>5, <1>6, <2>2
<1>7. CASE /\ Y \subseteq X \cup {k}
           /\ staged'[w][b] + consumed'[w][b] = staged[w][b] + consumed[w][b] + r
  <2> HIDE DEF X, Y, r
  <2>1. IsFiniteSet(X \cup {k}) /\ Cardinality(X \cup {k}) <= Cardinality(X) + 1
    <3>1. /\ IsFiniteSet(X \cup {k})
          /\ Cardinality(X \cup {k}) = IF k \in X THEN Cardinality(X) ELSE Cardinality(X) + 1
      BY Zenon, <1>2, FS_AddElement
    <3>2. Cardinality(X) <= Cardinality(X) + 1
      BY <1>2
    <3> QED BY <3>1, <3>2, <1>2
  <2>2. Cardinality(Y) <= Cardinality(X \cup {k}) /\ Cardinality(X \cup {k}) \in Nat
    BY <1>7, <2>1, FS_Subset, FS_CardinalityType
  <2>3. Cardinality(Y) <= Cardinality(X) + 1
    BY <1>2, <2>1, <2>2
  <2>4. /\ Cardinality(Y) * r <= (Cardinality(X) + 1) * r
        /\ (Cardinality(X) + 1) * r = Cardinality(X) * r + r
        /\ Cardinality(Y) * r \in Nat /\ Cardinality(X) * r \in Nat
    BY <1>1, <1>2, <2>3, TimesGrows
  <2> QED BY <1>1, <1>3, <1>4, <1>5, <1>7, <2>4
<1> QED BY <1>6, <1>7

\* Every step is one of these two, for every line of every work order.
LEMMA CoverStep ==
  ASSUME KitInv, KitInv', Next, NEW w \in WorkOrders, NEW b \in Bom[w], StagedCovers(w, b)
  PROVE  StagedCovers(w, b)'
<1>1. /\ b \in BomLines /\ staged[w][b] \in Nat /\ consumed[w][b] \in Nat
      /\ Required(w, b) > 0 /\ Required(w, b) \in Nat
  <2>1. b \in BomLines
    BY BomAssumption
  <2>2. Nothing \in Amounts
    BY DEF Nothing, Amounts
  <2> QED BY <2>1, <2>2, RequiredFacts DEF KitInv, TypeOK, Amounts
<1>2. \A k \in Kits : kit[k] \in KitType
  BY DEF KitInv, TypeOK, KitType
<1>3. ASSUME UNCHANGED <<staged, consumed>>,
             \A k \in Kits : \/ kit'[k].wo = kit[k].wo /\ kit'[k].picked = kit[k].picked
                             \/ kit'[k].picked = Nothing
      PROVE  StagedCovers(w, b)'
  <2>1. PickedInFull(w, b)' \subseteq PickedInFull(w, b)
    BY <1>1, <1>3 DEF PickedInFull, Required, Nothing
  <2> QED BY <1>1, <1>3, <2>1, CoverKept
<1>4. ASSUME NEW v \in WorkOrders, WritesWorkOrders(v) PROVE StagedCovers(w, b)'
  BY <1>3, <1>4, WorkOrderSteps DEF WritesWorkOrders
<1>5. ASSUME NEW v \in WorkOrders, CompleteToStock(v) PROVE StagedCovers(w, b)'
  <2>1. PickedInFull(w, b)' = PickedInFull(w, b)
    BY <1>5 DEF CompleteToStock, PickedInFull, Required
  <2>2. staged'[w][b] + consumed'[w][b] = staged[w][b] + consumed[w][b]
    BY <1>1, <1>5, CompleteKeeps
  <2> QED BY <2>1, <2>2, CoverKept
<1>6. ASSUME OpensKits PROVE StagedCovers(w, b)'
  <2>1. PICK D \in SUBSET WorkOrders : \E new \in [D -> UnusedKits] : OpenKits(new)
    BY <1>6, OpeningSteps DEF OpensKits
  <2>2. \A k \in Kits : kit'[k] = kit[k] \/ kit'[k].picked = Nothing
    BY <2>1, OpenKitsFacts DEF KitInv
  <2>3. UNCHANGED <<staged, consumed>>
    BY <1>6, OpeningSteps DEF OpensKits
  <2> QED BY <1>3, <2>2, <2>3
<1>7. ASSUME NEW p \in Pickers, NEW k \in Kits, StartPicking(p, k) PROVE StagedCovers(w, b)'
  <2>1. kit' = [kit EXCEPT ![k].status = "PICKING"] /\ UNCHANGED <<staged, consumed>>
    BY <1>7 DEF StartPicking
  <2>2. \A x \in Kits : kit'[x].wo = kit[x].wo /\ kit'[x].picked = kit[x].picked
    BY <1>2, <2>1 DEF KitType, KitInv, TypeOK
  <2> QED BY <1>3, <2>1, <2>2
<1>8. ASSUME NEW p \in Pickers, NEW c \in BomLines, PickLine(p, c) PROVE StagedCovers(w, b)'
  <2> DEFINE k == pick[p].kit
             v == kit[k].wo
  <2>1. PICK t : DrawnFor(p, c, t) /\ (PickedShort(p, c, Total(t)) \/ PickedWhole(p, c, Total(t)))
    BY <1>8, PickLineFacts
  <2>2. k \in Kits /\ v \in WorkOrders /\ pick[p].read \in Amounts
    BY <1>8, InHand, PickLineFacts
  <2>3. UNCHANGED consumed /\ Total(t) \in Nat
    BY <2>1 DEF DrawnFor
  <2>4. CASE PickedShort(p, c, Total(t))
    <3> DEFINE n == pick[p].read[c] + Total(t)
    <3>1. /\ kit' = [kit EXCEPT ![k].status = "SHORT", ![k].picked[c] = n] /\ UNCHANGED staged
          /\ Total(t) < Remaining(v, c, pick[p].read)
      BY <2>4 DEF PickedShort
    <3>2. n # Required(v, c)
      <4>1. Required(v, c) \in Nat /\ pick[p].read[c] \in Nat
        BY <2>2, RequiredFacts DEF Amounts
      <4> QED BY <2>3, <3>1, <4>1 DEF Remaining, Monus
    <3> HIDE DEF n
    <3>3. /\ \A x \in Kits : kit'[x].wo = kit[x].wo /\ (x # k => kit'[x].picked = kit[x].picked)
          /\ kit'[k].picked[c] = n /\ \A d \in BomLines : d # c => kit'[k].picked[d] = kit[k].picked[d]
      BY <1>2, <2>2, <3>1 DEF KitInv, TypeOK, KitType, Amounts
    <3>4. PickedInFull(w, b)' \subseteq PickedInFull(w, b)
      <4> SUFFICES ASSUME NEW x \in Kits, kit'[x].wo = w, kit'[x].picked[b] = Required(w, b)
                   PROVE  kit[x].wo = w /\ kit[x].picked[b] = Required(w, b)
        BY DEF PickedInFull, Required
      <4>1. CASE x # k
        BY <3>3, <4>1
      <4>2. CASE x = k
        BY <1>1, <3>2, <3>3, <4>2
      <4> QED BY <4>1, <4>2
    <3> QED BY <2>3, <3>1, <3>4, CoverKept
  <2>5. CASE PickedWhole(p, c, Total(t))
    <3>1. /\ kit' = [kit EXCEPT ![k].picked[c] = Required(v, c)]
          /\ staged' = [staged EXCEPT ![v][c] = @ + Required(v, c)]
      BY <2>5 DEF PickedWhole
    <3>2. /\ \A x \in Kits : kit'[x].wo = kit[x].wo /\ (x # k => kit'[x].picked = kit[x].picked)
          /\ \A d \in BomLines : d # c => kit'[k].picked[d] = kit[k].picked[d]
      BY <1>2, <2>2, <3>1 DEF KitInv, TypeOK, KitType, Amounts
    <3>3. CASE v = w /\ c = b
      <4>1. staged'[w][b] = staged[w][b] + Required(w, b)
        BY <1>1, <3>1, <3>3 DEF KitInv, TypeOK, Amounts
      <4>2. PickedInFull(w, b)' \subseteq PickedInFull(w, b) \cup {k}
        BY <3>2 DEF PickedInFull, Required
      <4>3. staged'[w][b] + consumed'[w][b] = staged[w][b] + consumed[w][b] + Required(w, b)
        BY <1>1, <2>3, <4>1
      <4> QED BY <4>2, <4>3, CoverKept
    <3>4. CASE ~(v = w /\ c = b)
      <4>1. staged'[w][b] = staged[w][b]
        BY <1>1, <2>2, <3>1, <3>4 DEF KitInv, TypeOK, Amounts
      <4>2. PickedInFull(w, b)' \subseteq PickedInFull(w, b)
        BY <1>1, <3>2, <3>4 DEF PickedInFull, Required
      <4> QED BY <2>3, <4>1, <4>2, CoverKept
    <3> QED BY <3>3, <3>4
  <2> QED BY <2>1, <2>4, <2>5
<1>9. ASSUME NEW p \in Pickers, EndsRequest(p) PROVE StagedCovers(w, b)'
  <2>1. UNCHANGED <<staged, consumed>> /\ pick[p].kit \in Kits /\ (UNCHANGED kit \/ FinishPicking(p))
    BY <1>9, EndingSteps DEF EndsRequest
  <2>2. \A x \in Kits : kit'[x].wo = kit[x].wo /\ kit'[x].picked = kit[x].picked
    BY <1>2, <2>1 DEF FinishPicking, KitType, KitInv, TypeOK
  <2> QED BY <1>3, <2>1, <2>2
<1>10. ASSUME NEW r \in Rows, MovesShelf(r) PROVE StagedCovers(w, b)'
  BY <1>3, <1>10, ShelfSteps DEF MovesShelf
<1> QED BY KitSteps, <1>4, <1>5, <1>6, <1>7, <1>8, <1>9, <1>10

\* Whatever the BOMs and however many requests pick, retry and die at once: what was
\* picked for a work order in full stands on the floor or went into it.
THEOREM StagedIsKept == Spec => []StagedCoversPicks
<1> DEFINE Inv == KitInv /\ StagedCoversPicks
<1>1. StagedCoversPicks <=> \A w \in WorkOrders : \A b \in Bom[w] : StagedCovers(w, b)
  BY DEF StagedCoversPicks, StagedCovers
<1>2. Init => Inv
  <2> SUFFICES ASSUME Init PROVE Inv
    OBVIOUS
  <2>1. KitInv
    BY KitInvInitial
  <2>2. ASSUME NEW w \in WorkOrders, NEW b \in Bom[w] PROVE StagedCovers(w, b)
    <3>1. b \in BomLines /\ Nothing \in Amounts
      BY BomAssumption DEF Nothing, Amounts
    <3>2. PickedInFull(w, b) = {}
      BY <3>1, NullsAssumption DEF Init, PickedInFull
    <3>3. Cardinality(PickedInFull(w, b)) = 0 /\ Required(w, b) \in Nat
      BY <3>1, <3>2, FS_EmptySet, RequiredFacts
    <3>4. staged[w][b] = 0 /\ consumed[w][b] = 0
      BY <3>1 DEF Init, Nothing
    <3> QED BY <3>3, <3>4 DEF StagedCovers
  <2> QED BY <1>1, <2>1, <2>2
<1>3. Inv /\ [Next]_vars => Inv'
  <2> SUFFICES ASSUME Inv, [Next]_vars PROVE Inv'
    OBVIOUS
  <2>1. KitInv'
    BY KitInvKept
  <2>2. CASE Next
    <3>1. \A w \in WorkOrders : \A b \in Bom[w] : StagedCovers(w, b)'
      BY <1>1, <2>1, <2>2, CoverStep
    <3> QED BY <2>1, <3>1 DEF StagedCoversPicks, StagedCovers
  <2>3. CASE UNCHANGED vars
    BY <2>1, <2>3 DEF vars, StagedCoversPicks, PickedInFull, Required
  <2> QED BY <2>2, <2>3
<1>4. Inv => StagedCoversPicks
  OBVIOUS
<1> HIDE DEF Inv
<1> QED BY <1>2, <1>3, <1>4, PTL DEF Spec

-----------------------------------------------------------------------------
(* NoNeedlessWait                                                          *)

\* What a row has free in STORAGE.
FreeIn(rows, place, r) == IF place[r] = "STORAGE" THEN rows[r].avail ELSE 0

\* The free stock of a part, as a sum over all its rows.
LEMMA FreeStock ==
  ASSUME NEW p, NEW rows \in [Rows -> Quantities], NEW place
  PROVE  /\ AvailableQty(p, rows, place) =
              SumFunctionOnSet([r \in RowsOf(p) |-> FreeIn(rows, place, r)], RowsOf(p))
         /\ AvailableQty(p, rows, place) \in Nat
<1> DEFINE S == RowsOf(p)
           A == {x \in S : place[x] = "STORAGE"}
           f == [r \in A |-> rows[r].avail]
           g == [r \in S |-> FreeIn(rows, place, r)]
<1>1. IsFiniteSet(S) /\ A \in SUBSET S /\ S \subseteq Rows
  BY StockAssumption, FS_Subset DEF RowsOf
<1>2. \A r \in S : rows[r].avail \in Nat
  BY <1>1 DEF Quantities
<1>3. /\ \A x \in A : f[x] \in Int /\ g[x] = f[x]
      /\ \A x \in S \ A : g[x] = 0
      /\ \A x \in S : g[x] \in Nat
      /\ DOMAIN f = A
  BY <1>2 DEF FreeIn
<1>4. AvailableQty(p, rows, place) = Total(f)
  BY DEF AvailableQty
<1> HIDE DEF f, g, A, S
<1>5. Total(f) = SumFunctionOnSet(f, A)
  BY <1>3, TotalOver
<1>6. SumFunctionOnSet(g, S) = SumFunctionOnSet(f, A)
  BY <1>1, <1>3, SumPadded
<1>7. SumFunctionOnSet(g, S) \in Nat
  BY <1>1, <1>3, SumOfNat
<1> QED BY <1>4, <1>5, <1>6, <1>7 DEF g, S

\* Rows that lose free stock take it from the free stock of the part.
LEMMA FreeStockShrinks ==
  ASSUME NEW p, NEW rows \in [Rows -> Quantities], NEW place,
         NEW after \in [Rows -> Quantities], NEW there,
         \A r \in RowsOf(p) : FreeIn(after, there, r) <= FreeIn(rows, place, r)
  PROVE  AvailableQty(p, after, there) <= AvailableQty(p, rows, place)
<1> DEFINE S == RowsOf(p)
           f == [r \in S |-> FreeIn(after, there, r)]
           g == [r \in S |-> FreeIn(rows, place, r)]
<1>1. IsFiniteSet(S) /\ S \subseteq Rows
  BY StockAssumption, FS_Subset DEF RowsOf
<1>2. \A x \in S : f[x] \in Int /\ g[x] \in Int /\ f[x] <= g[x]
  BY <1>1 DEF FreeIn, Quantities
<1>3. /\ AvailableQty(p, rows, place) = SumFunctionOnSet(g, S)
      /\ AvailableQty(p, after, there) = SumFunctionOnSet(f, S)
  BY FreeStock
<1> HIDE DEF f, g, S
<1> QED BY <1>1, <1>2, <1>3, SumOfLess

\* A part whose rows have nothing free is not available.
LEMMA NoFreeStock ==
  ASSUME NEW p, NEW rows \in [Rows -> Quantities], NEW place,
         \A r \in RowsOf(p) : FreeIn(rows, place, r) = 0
  PROVE  AvailableQty(p, rows, place) = 0
<1> DEFINE f == [r \in RowsOf(p) |-> FreeIn(rows, place, r)]
<1>1. IsFiniteSet(RowsOf(p))
  BY StockAssumption, FS_Subset DEF RowsOf
<1>2. \A r \in RowsOf(p) : f[r] = 0
  OBVIOUS
<1> HIDE DEF f
<1>3. SumFunctionOnSet(f, RowsOf(p)) = 0
  BY <1>1, <1>2, SumOfZeros
<1> QED BY <1>3, FreeStock DEF f

\* What was missing stays missing while no row of the parts gains free stock.
LEMMA StillShort ==
  ASSUME KitInv, KitInv', NEW w \in WorkOrders, ~AllAvailable(w, row, where),
         \A b \in BomLines : \A r \in RowsOf(LinePart[b]) :
           FreeIn(row', where', r) <= FreeIn(row, where, r)
  PROVE  ~AllAvailable(w, row', where')
<1>1. PICK b \in Bom[w] : ~(Required(w, b) <= AvailableQty(LinePart[b], row, where))
  BY DEF AllAvailable
<1>2. b \in BomLines
  BY BomAssumption
<1>3. row \in [Rows -> Quantities] /\ row' \in [Rows -> Quantities]
  BY DEF KitInv, TypeOK
<1>4. AvailableQty(LinePart[b], row', where') <= AvailableQty(LinePart[b], row, where)
  BY <1>2, <1>3, FreeStockShrinks
<1>5. AvailableQty(LinePart[b], row', where') \in Nat /\ AvailableQty(LinePart[b], row, where) \in Nat
  BY <1>3, FreeStock
<1>6. Required(w, b) \in Nat
  <2>1. Nothing \in Amounts
    BY DEF Nothing, Amounts
  <2> QED BY <1>2, <2>1, RequiredFacts
<1>7. ~(Required(w, b) <= AvailableQty(LinePart[b], row', where'))
  BY <1>1, <1>4, <1>5, <1>6
<1> QED BY <1>7 DEF AllAvailable

\* A refresh leaves no one waiting whose material is there.
LEMMA RefreshedWaits ==
  ASSUME TypeOK, NEW w \in WorkOrders, NEW rows, NEW place,
         Refreshed(w, rows, place).status = "WAITING_MATERIAL"
  PROVE  ~AllAvailable(w, rows, place) /\ Refreshed(w, rows, place).bypassed = wo[w].bypassed
<1>1. wo[w] \in WoType
  BY DEF TypeOK, WoType
<1> QED BY <1>1 DEF Refreshed, Promotable, WoType

WaitsRightly(w) ==
  wo[w].status = "WAITING_MATERIAL" /\ ~wo[w].bypassed => ~AllAvailable(w, row, where)

\* A handler that writes one work order looked at its material if it left it waiting.
LEMMA WorkOrderWaits ==
  ASSUME KitInv, NEW v \in WorkOrders, WritesWorkOrders(v), NEW w \in WorkOrders, WaitsRightly(w)
  PROVE  WaitsRightly(w)'
<1>1. UNCHANGED <<row, where>>
  BY WorkOrderSteps DEF WritesWorkOrders
<1>2. AllAvailable(w, row, where)' <=> AllAvailable(w, row, where)
  BY <1>1 DEF AllAvailable, AvailableQty, RowsOf, Required
<1>3. wo[w] \in WoType /\ DOMAIN wo = WorkOrders /\ TypeOK
  BY DEF KitInv, TypeOK, WoType
<1>4. CASE wo'[w] = wo[w]
  BY <1>2, <1>4 DEF WaitsRightly
<1>5. CASE wo'[w] # wo[w]
  <2>1. v = w
    <3>1. \E s : wo' = [wo EXCEPT ![v] = s]
      BY Zenon DEF WritesWorkOrders, CreateWorkOrder, PlanForSale, CheckMaterials, UpdateStatus,
         StartProduction, ScanToStation, SignOffLastStep
    <3> QED BY <1>3, <1>5, <3>1
  <2>2. CASE PlanForSale(w)
    <3>1. PICK bypass \in BOOLEAN :
            LET ready == Bom[w] = {} \/ (~bypass /\ AllAvailable(w, row, where))
                s == IF ready THEN "READY_TO_KIT" ELSE "WAITING_MATERIAL"
            IN  wo' = [wo EXCEPT ![w] = [status |-> s, kit |-> s, bypassed |-> bypass]]
      BY <2>2 DEF PlanForSale
    <3> QED BY <1>2, <1>3, <3>1 DEF WaitsRightly
  <2>3. CASE CheckMaterials(w)
    <3>1. wo'[w] = Refreshed(w, row, where)
      BY <1>3, <2>3 DEF CheckMaterials
    <3> QED BY <1>2, <1>3, <3>1, RefreshedWaits DEF WaitsRightly
  <2>4. CASE ~PlanForSale(w) /\ ~CheckMaterials(w)
    <3>1. wo'[w].status # "WAITING_MATERIAL"
      BY <1>3, <2>1, <2>4 DEF WritesWorkOrders, CreateWorkOrder, UpdateStatus, StatusButtons,
           StartProduction, ScanToStation, SignOffLastStep, WoType
    <3> QED BY <3>1 DEF WaitsRightly
  <2> QED BY <2>2, <2>3, <2>4
<1> QED BY <1>4, <1>5

\* A refresh of all that wait leaves no one waiting whose material is there.
LEMMA RefreshAllWaits ==
  ASSUME KitInv, NEW w \in WorkOrders, wo' = RefreshAllWaiting(row', where')
  PROVE  WaitsRightly(w)'
<1>1. TypeOK
  BY DEF KitInv
<1>2. CASE wo[w].status = "WAITING_MATERIAL"
  <2>1. wo'[w] = Refreshed(w, row', where')
    BY <1>2 DEF RefreshAllWaiting
  <2>2. AllAvailable(w, row, where)' <=> AllAvailable(w, row', where')
    BY DEF AllAvailable, AvailableQty, RowsOf, Required
  <2> QED BY <1>1, <2>1, <2>2, RefreshedWaits DEF WaitsRightly
<1>3. CASE wo[w].status # "WAITING_MATERIAL"
  BY <1>3 DEF RefreshAllWaiting, WaitsRightly
<1> QED BY <1>2, <1>3

\* A line that is picked short finds none of its part left in STORAGE.
LEMMA ShortPickEmpties ==
  ASSUME KitInv, KitInv', NEW p \in Pickers, NEW b \in BomLines, NEW t,
         b \in pick[p].todo, DrawnFor(p, b, t), PickedShort(p, b, Total(t))
  PROVE  ~AllAvailable(kit[pick[p].kit].wo, row', where')
<1> DEFINE w == kit[pick[p].kit].wo
           R == RowsOf(LinePart[b])
<1>1. w \in WorkOrders /\ b \in Bom[w] /\ pick[p].read \in Amounts
  BY InHand
<1>2. \A r \in PickRows(w, b) : t[r] = row[r].avail
  BY DEF DrawnFor, PickedShort
<1>3. where' = where
      /\ row' = [r \in Rows |-> IF r \in PickRows(w, b) THEN PickFree(row[r], t[r]) ELSE row[r]]
  BY DEF DrawnFor
<1>4. ASSUME NEW r \in R PROVE FreeIn(row', where', r) = 0
  <2>1. r \in Rows /\ row[r] \in Quantities /\ Covered(row[r])
    BY DEF RowsOf, KitInv, TypeOK, RowsCovered
  <2>2. CASE r \in PickRows(w, b)
    <3>1. row'[r] = PickFree(row[r], row[r].avail)
      BY <1>2, <1>3, <2>1, <2>2
    <3>2. row'[r].avail = 0
      BY <2>1, <3>1 DEF PickFree, Quantities
    <3> QED BY <3>2 DEF FreeIn
  <2>3. CASE r \notin PickRows(w, b)
    <3>1. row'[r] = row[r] /\ where'[r] = where[r]
      BY <1>3, <2>1, <2>3
    <3>2. where[r] # "STORAGE" \/ ~(row[r].avail > 0)
      BY <2>3 DEF PickRows, CompanyRows
    <3> QED BY <2>1, <3>1, <3>2 DEF FreeIn, Quantities
  <2> QED BY <2>2, <2>3
<1>5. AvailableQty(LinePart[b], row', where') = 0
  <2>1. row' \in [Rows -> Quantities]
    BY DEF KitInv, TypeOK
  <2> QED BY <1>4, <2>1, NoFreeStock
<1>6. Required(w, b) > 0 /\ Required(w, b) \in Nat
  BY <1>1, RequiredFacts
<1>7. ~(Required(w, b) <= AvailableQty(LinePart[b], row', where'))
  BY <1>5, <1>6
<1> QED BY <1>1, <1>7 DEF AllAvailable

\* No work order makes a component of these BOMs.
NothingBuiltIsPicked == \A w \in WorkOrders, b \in BomLines : Builds[w] # LinePart[b]

\* Every step leaves every work order waiting rightly.
LEMMA WaitsStep ==
  ASSUME KitInv, KitInv', Next, NothingBuiltIsPicked, NEW w \in WorkOrders, WaitsRightly(w)
  PROVE  WaitsRightly(w)'
<1>1. /\ wo \in [WorkOrders -> WoType] /\ row \in [Rows -> Quantities]
      /\ row' \in [Rows -> Quantities] /\ where \in [Rows -> LocationType]
  BY DEF KitInv, TypeOK, WoType
<1>2. AllAvailable(w, row, where)' <=> AllAvailable(w, row', where')
  BY DEF AllAvailable, AvailableQty, RowsOf, Required
<1>3. ASSUME wo'[w] = wo[w] \/ wo'[w].status # "WAITING_MATERIAL",
             \A b \in BomLines : \A r \in RowsOf(LinePart[b]) :
               FreeIn(row', where', r) <= FreeIn(row, where, r)
      PROVE  WaitsRightly(w)'
  BY <1>2, <1>3, StillShort DEF WaitsRightly
<1>4. UNCHANGED <<row, where>> =>
        \A b \in BomLines : \A r \in RowsOf(LinePart[b]) :
          FreeIn(row', where', r) <= FreeIn(row, where, r)
  BY <1>1 DEF RowsOf, FreeIn, Quantities
<1>5. ASSUME NEW v \in WorkOrders, WritesWorkOrders(v) PROVE WaitsRightly(w)'
  BY <1>5, WorkOrderWaits
<1>6. ASSUME NEW v \in WorkOrders, CompleteToStock(v) PROVE WaitsRightly(w)'
  <2>1. wo'[w] = wo[w] \/ wo'[w].status # "WAITING_MATERIAL"
    BY <1>1, <1>6 DEF CompleteToStock, WoType
  <2>2. CASE Builds[v] = NoPart
    BY <1>3, <1>4, <1>6, <2>1, <2>2 DEF CompleteToStock
  <2>3. CASE Builds[v] # NoPart
    <3>1. PICK x \in RowsOf(Builds[v]) : /\ row' = [row EXCEPT ![x] = Built(WoQty[v], FALSE)]
                                         /\ where' = [where EXCEPT ![x] = "STORAGE"]
      BY <1>6, <2>3 DEF CompleteToStock
    <3>2. ASSUME NEW b \in BomLines, NEW r \in RowsOf(LinePart[b])
          PROVE  FreeIn(row', where', r) <= FreeIn(row, where, r)
      <4>1. r # x /\ r \in Rows
        BY DEF RowsOf, NothingBuiltIsPicked
      <4>2. row'[r] = row[r] /\ where'[r] = where[r]
        BY <1>1, <3>1, <4>1
      <4> QED BY <1>1, <4>1, <4>2 DEF FreeIn, Quantities
    <3> QED BY <1>3, <2>1, <3>2
  <2> QED BY <2>2, <2>3
<1>7. ASSUME OpensKits PROVE WaitsRightly(w)'
  <2>1. PICK D \in SUBSET WorkOrders : \E new \in [D -> UnusedKits] : OpenKits(new)
    BY <1>7, OpeningSteps DEF OpensKits
  <2>2. wo'[w] = wo[w] \/ wo'[w].status = "KITTING"
    BY <2>1, OpenKitsFacts DEF KitInv
  <2>3. UNCHANGED <<row, where>>
    BY <1>7, OpeningSteps DEF OpensKits
  <2> QED BY <1>3, <1>4, <2>2, <2>3
<1>8. ASSUME NEW p \in Pickers, NEW k \in Kits, StartPicking(p, k) PROVE WaitsRightly(w)'
  BY <1>3, <1>4, <1>8 DEF StartPicking
<1>9. ASSUME NEW p \in Pickers, NEW b \in BomLines, PickLine(p, b) PROVE WaitsRightly(w)'
  <2> DEFINE v == kit[pick[p].kit].wo
  <2>1. PICK t : DrawnFor(p, b, t) /\ (PickedShort(p, b, Total(t)) \/ PickedWhole(p, b, Total(t)))
    BY <1>9, PickLineFacts
  <2>2. b \in pick[p].todo /\ v \in WorkOrders
    BY <1>9, InHand, PickLineFacts
  <2>3. ASSUME NEW c \in BomLines, NEW r \in RowsOf(LinePart[c])
        PROVE  FreeIn(row', where', r) <= FreeIn(row, where, r)
    <3>1. r \in Rows /\ row[r] \in Quantities /\ where' = where
      BY <1>1, <2>1 DEF RowsOf, DrawnFor
    <3>2. row'[r] = row[r] \/ (t[r] \in Nat /\ t[r] <= row[r].avail /\ row'[r] = PickFree(row[r], t[r]))
      BY <2>1, <3>1 DEF DrawnFor
    <3>3. row'[r].avail <= row[r].avail
      BY <3>1, <3>2 DEF PickFree, Quantities
    <3> QED BY <3>1, <3>3 DEF FreeIn
  <2>4. CASE PickedWhole(p, b, Total(t))
    BY <1>3, <2>3, <2>4 DEF PickedWhole
  <2>5. CASE PickedShort(p, b, Total(t)) /\ w # v
    <3>1. wo'[w] = wo[w]
      <4>1. wo' = [wo EXCEPT ![v].status = "WAITING_MATERIAL", ![v].kit = "WAITING_MATERIAL"]
        BY <2>5 DEF PickedShort
      <4> HIDE DEF v
      <4> QED BY <1>1, <2>5, <4>1
    <3> QED BY <1>3, <2>3, <3>1
  <2>6. CASE PickedShort(p, b, Total(t)) /\ w = v
    <3>1. ~AllAvailable(w, row', where')
      BY <2>1, <2>2, <2>6, ShortPickEmpties
    <3> QED BY <1>2, <3>1 DEF WaitsRightly
  <2> QED BY <2>1, <2>4, <2>5, <2>6
<1>10. ASSUME NEW p \in Pickers, EndsRequest(p) PROVE WaitsRightly(w)'
  <2>1. /\ UNCHANGED <<row, where>> /\ kit[pick[p].kit].wo \in WorkOrders
        /\ UNCHANGED wo \/ FinishPicking(p)
    BY <1>10, EndingSteps DEF EndsRequest
  <2>2. wo'[w] = wo[w] \/ wo'[w].status # "WAITING_MATERIAL"
    BY <1>1, <2>1 DEF FinishPicking, WoType
  <2> QED BY <1>3, <1>4, <2>1, <2>2
<1>11. ASSUME NEW x \in Rows, MovesShelf(x) PROVE WaitsRightly(w)'
  <2>1. CASE wo' = RefreshAllWaiting(row', where')
    BY <2>1, RefreshAllWaits
  <2>2. CASE ReceiveStock(x) \/ ReserveForSale(x)
    <3>1. wo' = wo
      BY <2>2 DEF ReceiveStock, ReserveForSale
    <3>2. ASSUME NEW c \in BomLines, NEW r \in RowsOf(LinePart[c])
          PROVE  FreeIn(row', where', r) <= FreeIn(row, where, r)
      <4>1. r \in Rows /\ row[r] \in Quantities
        BY <1>1 DEF RowsOf
      <4>2. CASE r # x
        <5>1. row'[r] = row[r] /\ where'[r] = where[r]
          BY <1>1, <2>2, <4>1, <4>2 DEF ReceiveStock, ReserveForSale
        <5> QED BY <4>1, <5>1 DEF FreeIn, Quantities
      <4>3. CASE r = x /\ ReceiveStock(x)
        <5>1. where'[r] = "RECEIVING"
          BY <1>1, <4>1, <4>3 DEF ReceiveStock
        <5> QED BY <4>1, <5>1 DEF FreeIn, Quantities
      <4>4. CASE r = x /\ ReserveForSale(x)
        <5>1. row'[r].avail <= row[r].avail /\ where' = where
          BY <1>1, <4>1, <4>4 DEF ReserveForSale, Reserve, Quantities
        <5> QED BY <4>1, <5>1 DEF FreeIn
      <4> QED BY <2>2, <4>2, <4>3, <4>4
    <3> QED BY <1>3, <3>1, <3>2
  <2>3. PutAway(x) \/ ReleaseCommitment(x) => wo' = RefreshAllWaiting(row', where')
    <3>1. ReleaseCommitment(x) => wo' = RefreshAllWaiting(row', where) /\ where' = where
      BY DEF ReleaseCommitment
    <3> QED BY <3>1 DEF PutAway
  <2> QED BY <1>11, <2>1, <2>2, <2>3 DEF MovesShelf
<1> QED BY KitSteps, <1>5, <1>6, <1>7, <1>8, <1>9, <1>10, <1>11

\* A work order that was not planned past the stock check waits for material only
\* while some is missing, when nothing that is built is picked for another: putting
\* away and releasing, which make stock free, look at all that wait.
THEOREM WaitsWithReason ==
  ASSUME NothingBuiltIsPicked PROVE Spec => []NoNeedlessWait
<1> DEFINE Inv == KitInv /\ NoNeedlessWait
<1>1. NoNeedlessWait <=> \A w \in WorkOrders : WaitsRightly(w)
  BY DEF NoNeedlessWait, WaitsRightly
<1>2. Init => Inv
  <2>1. Init => \A w \in WorkOrders : WaitsRightly(w)
    BY DEF Init, WaitsRightly
  <2> QED BY <1>1, <2>1, KitInvInitial
<1>3. Inv /\ [Next]_vars => Inv'
  <2> SUFFICES ASSUME Inv, [Next]_vars PROVE Inv'
    OBVIOUS
  <2>1. KitInv'
    BY KitInvKept
  <2>2. CASE Next
    <3>1. \A w \in WorkOrders : WaitsRightly(w)'
      BY <1>1, <2>1, <2>2, WaitsStep
    <3> QED BY <2>1, <3>1 DEF NoNeedlessWait, WaitsRightly
  <2>3. CASE UNCHANGED vars
    BY <2>1, <2>3 DEF vars, NoNeedlessWait, AllAvailable, AvailableQty, RowsOf, Required
  <2> QED BY <2>2, <2>3
<1>4. Inv => NoNeedlessWait
  OBVIOUS
<1> HIDE DEF Inv
<1> QED BY <1>2, <1>3, <1>4, PTL DEF Spec

-----------------------------------------------------------------------------
(* KittedInFull, one request at a time                                     *)

OneAtATime == \A p, q \in Pickers : p = q

\* The kit in hand records what the request did to it: what it read of the lines to
\* do, and in full the lines it has done.
HandRecords ==
  \A p \in Pickers : pick[p].kit # NoKit =>
    LET k == pick[p].kit
    IN  /\ kit[k].status = "PICKING"
        /\ \A b \in pick[p].todo : kit[k].picked[b] = pick[p].read[b]
        /\ \A b \in Bom[kit[k].wo] \ pick[p].todo : kit[k].picked[b] = Required(kit[k].wo, b)

\* No line of a kit has more than the work order needs.
PickedWithin ==
  \A k \in Kits : kit[k].status # "NONE" =>
    \A b \in Bom[kit[k].wo] : kit[k].picked[b] <= Required(kit[k].wo, b)

AloneInv == KitInv /\ HandRecords /\ PickedWithin

\* What a turn of the loop does to the kit in hand: it adds what was taken.
LEMMA TurnRecords ==
  ASSUME AloneInv, NEW p \in Pickers, NEW b \in BomLines, NEW t, b \in pick[p].todo,
         DrawnFor(p, b, t), PickedShort(p, b, Total(t)) \/ PickedWhole(p, b, Total(t)),
         NEW k, k = pick[p].kit, NEW w, w = kit[k].wo
  PROVE  /\ \A x \in Kits : x # k => kit'[x] = kit[x]
         /\ kit'[k].wo = w /\ kit'[k].picked[b] = kit[k].picked[b] + Total(t)
         /\ \A c \in BomLines : c # b => kit'[k].picked[c] = kit[k].picked[c]
         /\ kit'[k].picked[b] <= Required(w, b)
         /\ PickedWhole(p, b, Total(t)) => /\ kit'[k].status = kit[k].status
                                           /\ kit'[k].picked[b] = Required(w, b)
<1>1. /\ k \in Kits /\ w \in WorkOrders /\ pick[p].read \in Amounts
      /\ kit[k].status # "NONE" /\ pick[p].todo \subseteq Bom[w]
  BY InHand DEF AloneInv
<1>2. k # NoKit
  BY <1>1, NullsAssumption
<1>3. kit[k].picked[b] = pick[p].read[b] /\ kit[k].picked[b] <= Required(w, b)
  BY <1>1, <1>2 DEF AloneInv, HandRecords, PickedWithin
<1>4. /\ \A x \in Kits : kit[x] \in KitType
      /\ DOMAIN kit = Kits
  BY DEF AloneInv, KitInv, TypeOK, KitType
<1>5. /\ pick[p].read[b] \in Nat /\ Required(w, b) \in Nat /\ Total(t) \in Nat
      /\ Remaining(w, b, pick[p].read) = Required(w, b) - pick[p].read[b]
  BY <1>1, <1>3, RequiredFacts DEF Amounts, DrawnFor
<1>6. CASE PickedShort(p, b, Total(t))
  <2> DEFINE n == pick[p].read[b] + Total(t)
  <2>1. /\ kit' = [kit EXCEPT ![k].status = "SHORT", ![k].picked[b] = n]
        /\ Total(t) < Remaining(w, b, pick[p].read)
    BY <1>6 DEF PickedShort
  <2>2. n = kit[k].picked[b] + Total(t) /\ n <= Required(w, b)
    BY <1>3, <1>5, <2>1
  <2>3. ~PickedWhole(p, b, Total(t))
    BY <1>5, <2>1 DEF PickedWhole
  <2> HIDE DEF n
  <2> QED BY <1>1, <1>4, <2>1, <2>2, <2>3 DEF KitType, Amounts
<1>7. CASE PickedWhole(p, b, Total(t))
  <2>1. /\ kit' = [kit EXCEPT ![k].picked[b] = Required(w, b)]
        /\ Total(t) = Remaining(w, b, pick[p].read)
    BY <1>7 DEF PickedWhole
  <2>2. Required(w, b) = kit[k].picked[b] + Total(t)
    BY <1>3, <1>5, <2>1
  <2> QED BY <1>1, <1>4, <1>5, <2>1, <2>2 DEF KitType, Amounts
<1> QED BY <1>6, <1>7

\* A step that leaves alone what the kits record and what the requests hold.
LEMMA RecordsStay ==
  ASSUME AloneInv, KitInv', UNCHANGED pick,
         \A k \in Kits : \/ kit'[k] = kit[k]
                         \/ kit[k].status = "NONE" /\ kit'[k].status = "OPEN"
                            /\ kit'[k].wo \in WorkOrders /\ kit'[k].picked = Nothing
  PROVE  AloneInv'
<1>1. HandRecords'
  <2> SUFFICES ASSUME NEW p \in Pickers, pick[p].kit # NoKit
               PROVE  /\ kit'[pick[p].kit].status = "PICKING"
                      /\ \A b \in pick[p].todo : kit'[pick[p].kit].picked[b] = pick[p].read[b]
                      /\ \A b \in Bom[kit'[pick[p].kit].wo] \ pick[p].todo :
                           kit'[pick[p].kit].picked[b] = Required(kit'[pick[p].kit].wo, b)
    BY DEF HandRecords, Required
  <2>1. pick[p].kit \in Kits /\ kit[pick[p].kit].status = "PICKING"
    BY InHand DEF AloneInv, HandRecords
  <2>2. kit'[pick[p].kit] = kit[pick[p].kit]
    BY <2>1
  <2> QED BY <2>2 DEF AloneInv, HandRecords
<1>2. PickedWithin'
  <2> SUFFICES ASSUME NEW k \in Kits, kit'[k].status # "NONE", NEW b \in Bom[kit'[k].wo]
               PROVE  kit'[k].picked[b] <= Required(kit'[k].wo, b)
    BY DEF PickedWithin, Required
  <2>1. CASE kit'[k] = kit[k]
    BY <2>1 DEF AloneInv, PickedWithin
  <2>2. CASE kit'[k].wo \in WorkOrders /\ kit'[k].picked = Nothing
    <3>1. b \in BomLines /\ Nothing \in Amounts
      BY <2>2, BomAssumption DEF Nothing, Amounts
    <3>2. Required(kit'[k].wo, b) \in Nat
      BY <2>2, <3>1, RequiredFacts
    <3> QED BY <2>2, <3>1, <3>2 DEF Nothing
  <2> QED BY <2>1, <2>2
<1> QED BY <1>1, <1>2 DEF AloneInv

\* AloneInv holds through every step of a single request and of everyone else.
LEMMA AloneKept ==
  ASSUME OneAtATime, AloneInv, Next, KitInv'
  PROVE  AloneInv'
<1>1. KitInv
  BY DEF AloneInv
<1>2. /\ \A k \in Kits : kit[k] \in KitType
      /\ \A p \in Pickers : pick[p] \in PickType
      /\ DOMAIN kit = Kits /\ DOMAIN pick = Pickers
  BY <1>1 DEF KitInv, TypeOK, KitType, PickType
<1>3. ASSUME NEW v \in WorkOrders, WritesWorkOrders(v) PROVE AloneInv'
  BY <1>1, <1>3, WorkOrderSteps, RecordsStay DEF WritesWorkOrders
<1>4. ASSUME NEW v \in WorkOrders, CompleteToStock(v) PROVE AloneInv'
  BY <1>4, RecordsStay DEF CompleteToStock
<1>5. ASSUME OpensKits PROVE AloneInv'
  <2>1. PICK D \in SUBSET WorkOrders : \E new \in [D -> UnusedKits] : OpenKits(new)
    BY <1>1, <1>5, OpeningSteps DEF OpensKits
  <2>2. \A k \in Kits : \/ kit'[k] = kit[k]
                        \/ /\ kit[k].status = "NONE" /\ kit'[k].status = "OPEN"
                           /\ kit'[k].wo \in D /\ kit'[k].picked = Nothing
    BY <1>1, <2>1, OpenKitsFacts DEF KitInv
  <2>3. UNCHANGED pick
    BY <1>1, <1>5, OpeningSteps DEF OpensKits
  <2> QED BY <2>2, <2>3, RecordsStay
<1>6. ASSUME NEW r \in Rows, MovesShelf(r) PROVE AloneInv'
  BY <1>1, <1>6, ShelfSteps, RecordsStay DEF MovesShelf
<1>7. ASSUME NEW p \in Pickers, NEW k \in Kits, StartPicking(p, k) PROVE AloneInv'
  <2> DEFINE held == [kit |-> k, todo |-> LinesToPick(k), read |-> kit[k].picked]
  <2>1. /\ kit' = [kit EXCEPT ![k].status = "PICKING"] /\ pick' = [pick EXCEPT ![p] = held]
        /\ kit[k].status # "NONE"
    BY <1>7 DEF StartPicking
  <2>2. /\ \A x \in Kits : kit'[x].wo = kit[x].wo /\ kit'[x].picked = kit[x].picked
        /\ kit'[k].status = "PICKING" /\ \A x \in Kits : x # k => kit'[x] = kit[x]
    BY <1>2, <2>1 DEF KitType
  <2>3. pick'[p] = held
    BY <1>2, <2>1
  <2>4. HandRecords'
    <3> SUFFICES ASSUME NEW q \in Pickers
                 PROVE  LET x == pick'[q].kit
                        IN  /\ kit'[x].status = "PICKING"
                            /\ \A b \in pick'[q].todo : kit'[x].picked[b] = pick'[q].read[b]
                            /\ \A b \in Bom[kit'[x].wo] \ pick'[q].todo : kit'[x].picked[b] = Required(kit'[x].wo, b)
      BY DEF HandRecords, Required
    <3>1. pick'[q] = held
      BY <2>3 DEF OneAtATime
    <3> QED BY <2>2, <3>1 DEF LinesToPick
  <2>5. PickedWithin'
    <3>1. \A x \in Kits : kit'[x].status # "NONE" => kit[x].status # "NONE"
      BY <2>1, <2>2
    <3> QED BY <2>2, <3>1 DEF AloneInv, PickedWithin, Required
  <2> QED BY <2>4, <2>5 DEF AloneInv
<1>8. ASSUME NEW p \in Pickers, EndsRequest(p) PROVE AloneInv'
  <2>1. /\ pick' = [pick EXCEPT ![p] = Idle] /\ pick[p].kit \in Kits
        /\ UNCHANGED kit \/ FinishPicking(p)
    BY <1>1, <1>8, EndingSteps DEF EndsRequest
  <2>2. \A x \in Kits : kit'[x].wo = kit[x].wo /\ kit'[x].picked = kit[x].picked
                        /\ (kit'[x].status # "NONE" => kit[x].status # "NONE")
    <3>1. kit[pick[p].kit].status # "NONE"
      BY <1>1, <2>1, NullsAssumption, InHand
    <3> QED BY <1>2, <2>1, <3>1 DEF FinishPicking, KitType
  <2>3. HandRecords'
    <3>1. \A q \in Pickers : pick'[q] = Idle
      BY <1>2, <2>1 DEF OneAtATime
    <3> QED BY <3>1 DEF HandRecords, Idle
  <2>4. PickedWithin'
    BY <2>2 DEF AloneInv, PickedWithin, Required
  <2> QED BY <2>3, <2>4 DEF AloneInv
<1>9. ASSUME NEW p \in Pickers, NEW b \in BomLines, PickLine(p, b) PROVE AloneInv'
  <2>1. PICK t : DrawnFor(p, b, t) /\ (PickedShort(p, b, Total(t)) \/ PickedWhole(p, b, Total(t)))
    BY <1>1, <1>9, PickLineFacts
  <2>2. PICK k : k = pick[p].kit
    OBVIOUS
  <2>3. PICK w : w = kit[k].wo
    OBVIOUS
  <2>4. /\ k \in Kits /\ w \in WorkOrders /\ b \in pick[p].todo /\ kit[k].status # "NONE"
        /\ pick[p].todo \subseteq Bom[w] /\ k # NoKit
    BY <1>1, <1>9, <2>2, <2>3, InHand, PickLineFacts, NullsAssumption
  <2>5. /\ \A x \in Kits : x # k => kit'[x] = kit[x]
        /\ kit'[k].wo = w
        /\ \A c \in BomLines : c # b => kit'[k].picked[c] = kit[k].picked[c]
        /\ kit'[k].picked[b] <= Required(w, b)
        /\ PickedWhole(p, b, Total(t)) => /\ kit'[k].status = kit[k].status
                                          /\ kit'[k].picked[b] = Required(w, b)
    BY <2>1, <2>2, <2>3, <2>4, TurnRecords
  <2>6. Bom[w] \subseteq BomLines
    BY <2>4, BomAssumption
  <2>7. PickedWithin'
    <3> SUFFICES ASSUME NEW x \in Kits, kit'[x].status # "NONE", NEW c \in Bom[kit'[x].wo]
                 PROVE  kit'[x].picked[c] <= Required(kit'[x].wo, c)
      BY DEF PickedWithin, Required
    <3>1. CASE x # k
      BY <2>5, <3>1 DEF AloneInv, PickedWithin
    <3>2. CASE x = k
      BY <2>3, <2>4, <2>5, <2>6, <3>2 DEF AloneInv, PickedWithin
    <3> QED BY <3>1, <3>2
  <2>8. HandRecords'
    <3>1. CASE PickedShort(p, b, Total(t))
      <4>1. pick' = [pick EXCEPT ![p] = Idle]
        BY <3>1 DEF PickedShort
      <4>2. \A q \in Pickers : pick'[q] = Idle
        BY <1>2, <4>1 DEF OneAtATime
      <4> QED BY <4>2 DEF HandRecords, Idle
    <3>2. CASE PickedWhole(p, b, Total(t))
      <4>1. pick' = [pick EXCEPT ![p].todo = @ \ {b}]
        BY <3>2 DEF PickedWhole
      <4>2. pick'[p].kit = k /\ pick'[p].todo = pick[p].todo \ {b} /\ pick'[p].read = pick[p].read
        BY <1>2, <2>2, <4>1 DEF PickType
      <4>3. /\ kit[k].status = "PICKING"
            /\ \A c \in pick[p].todo : kit[k].picked[c] = pick[p].read[c]
            /\ \A c \in Bom[w] \ pick[p].todo : kit[k].picked[c] = Required(w, c)
        BY <2>2, <2>3, <2>4 DEF AloneInv, HandRecords
      <4>4. /\ kit'[k].status = "PICKING"
            /\ \A c \in pick'[p].todo : kit'[k].picked[c] = pick'[p].read[c]
            /\ \A c \in Bom[w] \ pick'[p].todo : kit'[k].picked[c] = Required(w, c)
        BY <2>4, <2>5, <2>6, <3>2, <4>2, <4>3
      <4> SUFFICES ASSUME NEW q \in Pickers
                   PROVE  LET x == pick'[q].kit
                          IN  /\ kit'[x].status = "PICKING"
                              /\ \A c \in pick'[q].todo : kit'[x].picked[c] = pick'[q].read[c]
                              /\ \A c \in Bom[kit'[x].wo] \ pick'[q].todo : kit'[x].picked[c] = Required(kit'[x].wo, c)
        BY DEF HandRecords, Required
      <4>5. q = p
        BY DEF OneAtATime
      <4> QED BY <2>5, <4>2, <4>4, <4>5
    <3> QED BY <2>1, <3>1, <3>2
  <2> QED BY <2>7, <2>8 DEF AloneInv
<1> QED BY KitSteps, <1>3, <1>4, <1>5, <1>6, <1>7, <1>8, <1>9

\* The invariant of a single request, from the start.
LEMMA AloneAlways == ASSUME OneAtATime PROVE Spec => []AloneInv
<1>1. Init => AloneInv
  <2> SUFFICES ASSUME Init PROVE AloneInv
    OBVIOUS
  <2>1. HandRecords /\ PickedWithin
    BY DEF Init, HandRecords, PickedWithin, Idle
  <2> QED BY <2>1, KitInvInitial DEF AloneInv
<1>2. AloneInv /\ [Next]_vars => AloneInv'
  <2> SUFFICES ASSUME AloneInv, [Next]_vars PROVE AloneInv'
    OBVIOUS
  <2>1. KitInv'
    BY KitInvKept DEF AloneInv
  <2>2. CASE Next
    BY <2>1, <2>2, AloneKept
  <2>3. CASE UNCHANGED vars
    BY <2>1, <2>3, RecordsStay DEF vars
  <2> QED BY <2>2, <2>3
<1> QED BY <1>1, <1>2, PTL DEF Spec

\* A kit that is complete and in full stays so: no request takes it up again.
LEMMA FullStays ==
  ASSUME AloneInv, Next, NEW w \in WorkOrders, NEW k \in Kits, FullyPicked(k, w)
  PROVE  FullyPicked(k, w)'
<1>1. KitInv
  BY DEF AloneInv
<1>2. \A x \in Kits : kit[x] \in KitType
  BY <1>1 DEF KitInv, TypeOK, KitType
<1>3. kit[k].status = "COMPLETE"
  BY DEF FullyPicked
<1>4. ASSUME kit'[k].wo = kit[k].wo /\ kit'[k].picked = kit[k].picked /\ kit'[k].status = "COMPLETE"
      PROVE  FullyPicked(k, w)'
  BY <1>4 DEF FullyPicked, Required
<1>5. ASSUME NEW v \in WorkOrders, WritesWorkOrders(v) PROVE FullyPicked(k, w)'
  BY <1>1, <1>3, <1>4, <1>5, WorkOrderSteps DEF WritesWorkOrders
<1>6. ASSUME NEW v \in WorkOrders, CompleteToStock(v) PROVE FullyPicked(k, w)'
  BY <1>3, <1>4, <1>6 DEF CompleteToStock
<1>7. ASSUME OpensKits PROVE FullyPicked(k, w)'
  <2>1. PICK D \in SUBSET WorkOrders : \E new \in [D -> UnusedKits] : OpenKits(new)
    BY <1>1, <1>7, OpeningSteps DEF OpensKits
  <2>2. kit'[k] = kit[k]
    BY <1>1, <1>3, <2>1, OpenKitsFacts DEF KitInv
  <2> QED BY <1>3, <1>4, <2>2
<1>8. ASSUME NEW p \in Pickers, NEW x \in Kits, StartPicking(p, x) PROVE FullyPicked(k, w)'
  <2>1. kit'[k] = kit[k]
    BY <1>3, <1>8 DEF StartPicking
  <2> QED BY <1>3, <1>4, <2>1
<1>9. ASSUME NEW p \in Pickers, pick[p].kit # NoKit, \A x \in Kits : x # pick[p].kit => kit'[x] = kit[x]
      PROVE  FullyPicked(k, w)'
  <2>1. k # pick[p].kit
    BY <1>3, <1>9 DEF AloneInv, HandRecords
  <2>2. kit'[k] = kit[k]
    BY <1>9, <2>1
  <2> QED BY <1>3, <1>4, <2>2
<1>10. ASSUME NEW p \in Pickers, NEW b \in BomLines, PickLine(p, b) PROVE FullyPicked(k, w)'
  <2>1. PICK t : DrawnFor(p, b, t) /\ (PickedShort(p, b, Total(t)) \/ PickedWhole(p, b, Total(t)))
    BY <1>1, <1>10, PickLineFacts
  <2>2. PICK h : h = pick[p].kit
    OBVIOUS
  <2>3. PICK v : v = kit[h].wo
    OBVIOUS
  <2>4. \A x \in Kits : x # h => kit'[x] = kit[x]
    BY <1>1, <1>10, <2>1, <2>2, <2>3, TurnRecords, PickLineFacts
  <2>5. pick[p].kit # NoKit
    BY <1>1, <1>10, InHand, PickLineFacts, NullsAssumption
  <2> QED BY <1>9, <2>2, <2>4, <2>5
<1>11. ASSUME NEW p \in Pickers, EndsRequest(p) PROVE FullyPicked(k, w)'
  <2>1. pick[p].kit \in Kits /\ (UNCHANGED kit \/ FinishPicking(p))
    BY <1>1, <1>11, EndingSteps DEF EndsRequest
  <2>2. \A x \in Kits : x # pick[p].kit => kit'[x] = kit[x]
    BY <1>1, <2>1 DEF FinishPicking, KitInv, TypeOK
  <2> QED BY <1>9, <2>1, <2>2, NullsAssumption
<1>12. ASSUME NEW r \in Rows, MovesShelf(r) PROVE FullyPicked(k, w)'
  BY <1>1, <1>3, <1>4, <1>12, ShelfSteps DEF MovesShelf
<1> QED BY KitSteps, <1>5, <1>6, <1>7, <1>8, <1>10, <1>11, <1>12

\* A work order becomes KITTED only when a request finishes with every line in full.
LEMMA KittedByFinish ==
  ASSUME AloneInv, Next, NEW w \in WorkOrders, wo'[w].kit = "KITTED", wo[w].kit # "KITTED"
  PROVE  \E k \in Kits : FullyPicked(k, w)'
<1>1. KitInv /\ TypeOK
  BY DEF AloneInv, KitInv
<1>2. wo \in [WorkOrders -> WoType] /\ \A x \in Kits : kit[x] \in KitType
  BY <1>1 DEF TypeOK, WoType, KitType
<1>3. ASSUME NEW v \in WorkOrders, NEW rows, NEW place
      PROVE  Refreshed(v, rows, place) = wo[v] \/ Refreshed(v, rows, place).kit # "KITTED"
  BY <1>2 DEF Refreshed, WoType
<1>4. ~\E v \in WorkOrders : WritesWorkOrders(v) \/ CompleteToStock(v)
  <2> SUFFICES ASSUME NEW v \in WorkOrders, WritesWorkOrders(v) \/ CompleteToStock(v) PROVE FALSE
    OBVIOUS
  <2>1. CASE PlanForSale(v)
    <3>1. \E bypass \in BOOLEAN : \E s \in {"READY_TO_KIT", "WAITING_MATERIAL"} :
            wo' = [wo EXCEPT ![v] = [status |-> s, kit |-> s, bypassed |-> bypass]]
      BY <2>1 DEF PlanForSale
    <3> QED BY <1>2, <3>1
  <2>2. CASE CheckMaterials(v)
    <3>1. wo' = [wo EXCEPT ![v] = Refreshed(v, row, where)]
      BY <2>2 DEF CheckMaterials
    <3> QED BY <1>2, <1>3, <3>1
  <2>3. CASE ~PlanForSale(v) /\ ~CheckMaterials(v)
    <3>1. \E s : wo' = [wo EXCEPT ![v].status = s]
      BY Zenon, <2>3 DEF WritesWorkOrders, CreateWorkOrder, UpdateStatus, StartProduction,
         ScanToStation, SignOffLastStep, CompleteToStock
    <3> QED BY <1>2, <3>1 DEF WoType
  <2> QED BY <2>1, <2>2, <2>3
<1>5. ~OpensKits
  <2> SUFFICES ASSUME OpensKits PROVE FALSE
    OBVIOUS
  <2>1. PICK D \in SUBSET WorkOrders : \E new \in [D -> UnusedKits] : OpenKits(new)
    BY <1>1, OpeningSteps DEF OpensKits
  <2>2. wo'[w] = wo[w] \/ wo'[w].kit = "KITTING"
    BY <1>1, <2>1, OpenKitsFacts
  <2> QED BY <2>2
<1>6. ~\E r \in Rows : MovesShelf(r)
  <2> SUFFICES ASSUME NEW r \in Rows, MovesShelf(r) PROVE FALSE
    OBVIOUS
  <2>1. wo' = RefreshAllWaiting(row', where')
    BY <1>1, ShelfSteps DEF MovesShelf
  <2>2. wo'[w] = wo[w] \/ wo'[w] = Refreshed(w, row', where')
    BY <2>1 DEF RefreshAllWaiting
  <2> QED BY <1>3, <2>2
<1>7. ~\E p \in Pickers : \E k \in Kits : StartPicking(p, k)
  BY DEF StartPicking
<1>8. ~\E p \in Pickers : \E b \in BomLines : PickLine(p, b)
  <2> SUFFICES ASSUME NEW p \in Pickers, NEW b \in BomLines, PickLine(p, b) PROVE FALSE
    OBVIOUS
  <2>1. PICK t : DrawnFor(p, b, t) /\ (PickedShort(p, b, Total(t)) \/ PickedWhole(p, b, Total(t)))
    BY <1>1, PickLineFacts
  <2>2. PICK v : v = kit[pick[p].kit].wo
    OBVIOUS
  <2>3. wo' = wo \/ wo' = [wo EXCEPT ![v].status = "WAITING_MATERIAL", ![v].kit = "WAITING_MATERIAL"]
    BY <2>1, <2>2 DEF PickedShort, PickedWhole
  <2> QED BY <1>2, <2>3 DEF WoType
<1>9. PICK p \in Pickers : EndsRequest(p)
  BY KitSteps, <1>4, <1>5, <1>6, <1>7, <1>8
<1>10. FinishPicking(p) /\ pick[p].kit \in Kits /\ pick[p].kit # NoKit
  BY <1>1, <1>9, EndingSteps, NullsAssumption DEF EndsRequest
<1>11. PICK k \in Kits : k = pick[p].kit
  BY <1>10
<1>12. PICK v : v = kit[k].wo
  OBVIOUS
<1>13. /\ kit' = [kit EXCEPT ![k].status = "COMPLETE"] /\ pick[p].todo = {}
       /\ wo' = [wo EXCEPT ![v].status = "KITTED", ![v].kit = "KITTED"]
  BY <1>10, <1>11, <1>12 DEF FinishPicking
<1>14. v = w
  BY <1>2, <1>13 DEF WoType
<1>15. \A b \in Bom[w] : kit[k].picked[b] = Required(w, b)
  BY <1>10, <1>11, <1>12, <1>13, <1>14 DEF AloneInv, HandRecords
<1>16. kit'[k].wo = w /\ kit'[k].status = "COMPLETE" /\ kit'[k].picked = kit[k].picked
  BY <1>1, <1>2, <1>12, <1>13, <1>14 DEF TypeOK, KitType
<1>17. FullyPicked(k, w)'
  BY <1>15, <1>16 DEF FullyPicked, Required
<1> QED BY <1>17

\* One request at a time, KITTED means a kit with every line of the BOM in full,
\* however many attempts the pick took.
THEOREM OneAtATimeKitsInFull == ASSUME OneAtATime PROVE Spec => []KittedInFull
<1>1. Init => KittedInFull
  BY DEF Init, KittedInFull
<1>2. AloneInv /\ KittedInFull /\ [Next]_vars => KittedInFull'
  <2> SUFFICES ASSUME AloneInv, KittedInFull, [Next]_vars PROVE KittedInFull'
    OBVIOUS
  <2>1. CASE Next
    <3> SUFFICES ASSUME NEW w \in WorkOrders, wo'[w].kit = "KITTED"
                 PROVE  \E k \in Kits : FullyPicked(k, w)'
      BY DEF KittedInFull
    <3>1. CASE wo[w].kit = "KITTED"
      BY <2>1, <3>1, FullStays DEF KittedInFull
    <3>2. CASE wo[w].kit # "KITTED"
      BY <2>1, <3>2, KittedByFinish
    <3> QED BY <3>1, <3>2
  <2>2. CASE UNCHANGED vars
    BY <2>2 DEF vars, KittedInFull, FullyPicked, Required
  <2> QED BY <2>1, <2>2
<1>3. Spec => []AloneInv
  BY AloneAlways
<1> QED BY <1>1, <1>2, <1>3, PTL DEF Spec

-----------------------------------------------------------------------------
(* PicksConserved, one request at a time                                   *)

LinesOf(p) == {x \in BomLines : LinePart[x] = p}
OnHandSum(rows, p) == SumFunctionOnSet([r \in RowsOf(p) |-> rows[r].onHand], RowsOf(p))
PickedOn(kits, k, p) == SumFunctionOnSet([b \in LinesOf(p) |-> kits[k].picked[b]], LinesOf(p))
PickedSum(kits, p) == SumFunctionOnSet([k \in Kits |-> PickedOn(kits, k, p)], Kits)

\* The units of a part are those on its rows and those on the lines of the kits.
LEMMA UnitsAreSums ==
  ASSUME NEW p
  PROVE  /\ Units(p) = OnHandSum(row, p) + PickedSum(kit, p)
         /\ Units(p)' = OnHandSum(row', p) + PickedSum(kit', p)
<1>1. ASSUME NEW rows PROVE Total([r \in RowsOf(p) |-> rows[r].onHand]) = OnHandSum(rows, p)
  BY TotalOver DEF OnHandSum
<1>2. ASSUME NEW kits PROVE Total([k \in Kits |-> Total([b \in LinesOf(p) |-> kits[k].picked[b]])]) = PickedSum(kits, p)
  <2>1. \A k \in Kits : Total([b \in LinesOf(p) |-> kits[k].picked[b]]) = PickedOn(kits, k, p)
    BY TotalOver DEF PickedOn
  <2>2. [k \in Kits |-> Total([b \in LinesOf(p) |-> kits[k].picked[b]])] = [k \in Kits |-> PickedOn(kits, k, p)]
    BY <2>1
  <2> QED BY <2>2, TotalOver DEF PickedSum
<1>3. Units(p) = Total([r \in RowsOf(p) |-> row[r].onHand])
                   + Total([k \in Kits |-> Total([b \in LinesOf(p) |-> kit[k].picked[b]])])
  BY DEF Units, LinesOf
<1>4. Units(p)' = Total([r \in RowsOf(p) |-> row'[r].onHand])
                    + Total([k \in Kits |-> Total([b \in LinesOf(p) |-> kit'[k].picked[b]])])
  BY DEF Units, LinesOf, RowsOf
<1> QED BY <1>1, <1>2, <1>3, <1>4

\* Rows that keep what they have on hand.
LEMMA OnHandStays ==
  ASSUME NEW p, NEW rows \in [Rows -> Quantities], NEW after,
         \A r \in RowsOf(p) : after[r].onHand = rows[r].onHand
  PROVE  OnHandSum(after, p) = OnHandSum(rows, p)
<1> DEFINE f == [r \in RowsOf(p) |-> rows[r].onHand]
           g == [r \in RowsOf(p) |-> after[r].onHand]
<1>1. IsFiniteSet(RowsOf(p)) /\ RowsOf(p) \subseteq Rows
  BY StockAssumption, FS_Subset DEF RowsOf
<1>2. \A r \in RowsOf(p) : f[r] \in Int /\ g[r] = f[r]
  BY <1>1 DEF Quantities
<1> HIDE DEF f, g
<1>3. SumFunctionOnSet(g, RowsOf(p)) = SumFunctionOnSet(f, RowsOf(p))
  BY <1>1, <1>2, SumOfSame
<1> QED BY <1>3 DEF OnHandSum, f, g

\* Rows that lose what is taken of some of them.
LEMMA OnHandTaken ==
  ASSUME NEW p, NEW rows \in [Rows -> Quantities], NEW after \in [Rows -> Quantities],
         NEW A \in SUBSET RowsOf(p), NEW t, \A r \in A : t[r] \in Nat,
         \A r \in RowsOf(p) : after[r].onHand = IF r \in A THEN rows[r].onHand - t[r] ELSE rows[r].onHand
  PROVE  OnHandSum(rows, p) = OnHandSum(after, p) + SumFunctionOnSet(t, A)
<1> DEFINE S == RowsOf(p)
           f == [r \in S |-> rows[r].onHand]
           g == [r \in S |-> after[r].onHand]
           u == [r \in S |-> IF r \in A THEN t[r] ELSE 0]
<1>1. IsFiniteSet(S) /\ S \subseteq Rows
  BY StockAssumption, FS_Subset DEF RowsOf
<1>2. \A r \in S : rows[r].onHand \in Nat /\ after[r].onHand \in Nat
  BY <1>1 DEF Quantities
<1>3. \A r \in S : g[r] \in Int /\ u[r] \in Int /\ f[r] = g[r] + u[r]
  BY <1>2
<1>4. /\ \A r \in A : t[r] \in Int /\ u[r] = t[r]
      /\ \A r \in S \ A : u[r] = 0
  OBVIOUS
<1> HIDE DEF f, g, u, S
<1>5. SumFunctionOnSet(f, S) = SumFunctionOnSet(g, S) + SumFunctionOnSet(u, S)
  BY <1>1, <1>3, SumAdds
<1>6. SumFunctionOnSet(u, S) = SumFunctionOnSet(t, A)
  BY <1>1, <1>4, SumPadded DEF S
<1> QED BY <1>5, <1>6 DEF OnHandSum, f, g, S

\* The lines of a kit and what they sum to.
LEMMA PickedSums ==
  ASSUME NEW p, NEW kits, \A k \in Kits : kits[k].picked \in Amounts
  PROVE  /\ IsFiniteSet(LinesOf(p)) /\ LinesOf(p) \subseteq BomLines
         /\ \A k \in Kits : PickedOn(kits, k, p) \in Int
         /\ PickedSum(kits, p) \in Int
<1>1. IsFiniteSet(LinesOf(p)) /\ LinesOf(p) \subseteq BomLines
  BY BomAssumption, FS_Subset DEF LinesOf
<1>2. ASSUME NEW k \in Kits PROVE PickedOn(kits, k, p) \in Int
  <2> DEFINE f == [b \in LinesOf(p) |-> kits[k].picked[b]]
  <2>1. \A b \in LinesOf(p) : f[b] \in Int
    BY <1>1 DEF Amounts
  <2> HIDE DEF f
  <2>2. SumFunctionOnSet(f, LinesOf(p)) \in Int
    BY <1>1, <2>1, SumPick
  <2> QED BY <2>2 DEF PickedOn, f
<1>3. PickedSum(kits, p) \in Int
  <2> DEFINE f == [k \in Kits |-> PickedOn(kits, k, p)]
  <2>1. \A k \in Kits : f[k] \in Int
    BY <1>2
  <2> HIDE DEF f
  <2>2. SumFunctionOnSet(f, Kits) \in Int
    BY BomAssumption, <2>1, SumPick
  <2> QED BY <2>2 DEF PickedSum, f
<1> QED BY <1>1, <1>2, <1>3

\* Kits whose lines of a part keep what they record.
LEMMA PickedStays ==
  ASSUME NEW p, NEW kits, \A k \in Kits : kits[k].picked \in Amounts, NEW after,
         \A k \in Kits : \A b \in LinesOf(p) : after[k].picked[b] = kits[k].picked[b]
  PROVE  PickedSum(after, p) = PickedSum(kits, p)
<1>1. \A k \in Kits : PickedOn(after, k, p) = PickedOn(kits, k, p)
  <2> SUFFICES ASSUME NEW k \in Kits PROVE PickedOn(after, k, p) = PickedOn(kits, k, p)
    OBVIOUS
  <2>1. [b \in LinesOf(p) |-> after[k].picked[b]] = [b \in LinesOf(p) |-> kits[k].picked[b]]
    OBVIOUS
  <2> QED BY <2>1 DEF PickedOn
<1>2. [k \in Kits |-> PickedOn(after, k, p)] = [k \in Kits |-> PickedOn(kits, k, p)]
  BY <1>1
<1> QED BY <1>2 DEF PickedSum

\* One line of one kit that records more.
LEMMA PickedGrows ==
  ASSUME NEW p, NEW kits, \A k \in Kits : kits[k].picked \in Amounts,
         NEW after, \A k \in Kits : after[k].picked \in Amounts,
         NEW h \in Kits, NEW c \in LinesOf(p),
         \A k \in Kits : k # h => after[k] = kits[k],
         \A b \in BomLines : b # c => after[h].picked[b] = kits[h].picked[b]
  PROVE  PickedSum(after, p) = PickedSum(kits, p) + after[h].picked[c] - kits[h].picked[c]
<1> DEFINE f == [b \in LinesOf(p) |-> kits[h].picked[b]]
           g == [b \in LinesOf(p) |-> after[h].picked[b]]
           ff == [k \in Kits |-> PickedOn(kits, k, p)]
           gg == [k \in Kits |-> PickedOn(after, k, p)]
<1>1. /\ IsFiniteSet(LinesOf(p)) /\ LinesOf(p) \subseteq BomLines /\ IsFiniteSet(Kits)
      /\ \A k \in Kits : PickedOn(kits, k, p) \in Int /\ PickedOn(after, k, p) \in Int
      /\ PickedSum(kits, p) \in Int
  BY PickedSums, BomAssumption
<1>2. /\ \A b \in LinesOf(p) : f[b] \in Int /\ (b # c => g[b] = f[b])
      /\ g[c] \in Int /\ g[c] = after[h].picked[c] /\ f[c] = kits[h].picked[c]
  BY <1>1 DEF Amounts
<1>3. \A k \in Kits : k # h => gg[k] = ff[k]
  BY DEF PickedOn
<1>4. \A k \in Kits : ff[k] \in Int /\ gg[k] \in Int
  BY <1>1
<1>5. ff[h] = SumFunctionOnSet(f, LinesOf(p)) /\ gg[h] = SumFunctionOnSet(g, LinesOf(p))
  BY DEF PickedOn
<1>6. PickedSum(kits, p) = SumFunctionOnSet(ff, Kits) /\ PickedSum(after, p) = SumFunctionOnSet(gg, Kits)
  BY DEF PickedSum
<1> HIDE DEF f, g, ff, gg
<1>7. gg[h] = ff[h] + g[c] - f[c]
  BY <1>1, <1>2, <1>5, SumChanged
<1>8. SumFunctionOnSet(gg, Kits) = SumFunctionOnSet(ff, Kits) + gg[h] - ff[h]
  BY <1>1, <1>3, <1>4, SumChanged
<1>9. g[c] \in Int /\ f[c] \in Int /\ ff[h] \in Int
  BY <1>2, <1>4
<1> QED BY <1>1, <1>2, <1>6, <1>7, <1>8, <1>9

\* A step that moves nothing off a shelf and changes no record.
LEMMA UnitsStay ==
  ASSUME KitInv, NEW p,
         \A r \in RowsOf(p) : row'[r].onHand = row[r].onHand,
         \A k \in Kits : kit'[k].picked = kit[k].picked
  PROVE  Units(p)' = Units(p)
<1>1. row \in [Rows -> Quantities] /\ \A k \in Kits : kit[k].picked \in Amounts
  BY DEF KitInv, TypeOK
<1>2. OnHandSum(row', p) = OnHandSum(row, p)
  BY <1>1, OnHandStays
<1>3. PickedSum(kit', p) = PickedSum(kit, p)
  BY <1>1, PickedStays
<1> QED BY <1>2, <1>3, UnitsAreSums

\* A turn of the loop puts on the kit's line what it takes off the rows.
LEMMA UnitsPicked ==
  ASSUME AloneInv, KitInv', NEW q \in Pickers, NEW b \in BomLines, PickLine(q, b), NEW p
  PROVE  Units(p)' = Units(p)
<1>1. KitInv
  BY DEF AloneInv
<1>2. PICK t : DrawnFor(q, b, t) /\ (PickedShort(q, b, Total(t)) \/ PickedWhole(q, b, Total(t)))
  BY <1>1, PickLineFacts
<1>3. PICK k : k = pick[q].kit
  OBVIOUS
<1>4. PICK w : w = kit[k].wo
  OBVIOUS
<1>5. /\ b \in pick[q].todo /\ k \in Kits
      /\ row \in [Rows -> Quantities] /\ row' \in [Rows -> Quantities]
      /\ \A x \in Kits : kit[x].picked \in Amounts /\ kit'[x].picked \in Amounts
  BY <1>1, <1>3, InHand, PickLineFacts DEF KitInv, TypeOK
<1>6. /\ \A x \in Kits : x # k => kit'[x] = kit[x]
      /\ kit'[k].picked[b] = kit[k].picked[b] + Total(t)
      /\ \A c \in BomLines : c # b => kit'[k].picked[c] = kit[k].picked[c]
  BY <1>2, <1>3, <1>4, <1>5, TurnRecords
<1> DEFINE A == PickRows(w, b)
<1>7. /\ \A r \in A : t[r] \in Nat /\ t[r] <= row[r].avail
      /\ Total(t) = SumFunctionOnSet(t, A) /\ Total(t) \in Nat
      /\ row' = [r \in Rows |-> IF r \in A THEN PickFree(row[r], t[r]) ELSE row[r]]
  BY <1>2, <1>3, <1>4 DEF DrawnFor
<1>8. A \subseteq RowsOf(LinePart[b]) /\ RowsOf(p) \subseteq Rows
  BY DEF PickRows, CompanyRows, GfpRows, RowsOf
<1>9. \A r \in Rows : row'[r].onHand = IF r \in A THEN row[r].onHand - t[r] ELSE row[r].onHand
  BY <1>5, <1>7 DEF PickFree
<1> HIDE DEF A
<1>10. CASE LinePart[b] = p
  <2>1. b \in LinesOf(p) /\ A \in SUBSET RowsOf(p)
    BY <1>8, <1>10 DEF LinesOf
  <2>2. OnHandSum(row, p) = OnHandSum(row', p) + SumFunctionOnSet(t, A)
    <3>1. \A r \in RowsOf(p) : row'[r].onHand = IF r \in A THEN row[r].onHand - t[r] ELSE row[r].onHand
      BY <1>8, <1>9
    <3>2. \A r \in A : t[r] \in Nat
      BY <1>7
    <3> QED BY <1>5, <2>1, <3>1, <3>2, OnHandTaken
  <2>3. PickedSum(kit', p) = PickedSum(kit, p) + kit'[k].picked[b] - kit[k].picked[b]
    BY <1>5, <1>6, <2>1, PickedGrows
  <2>4. kit[k].picked[b] \in Int /\ PickedSum(kit, p) \in Int
    BY <1>5, PickedSums DEF Amounts
  <2>5. OnHandSum(row', p) \in Int
    <3> DEFINE f == [r \in RowsOf(p) |-> row'[r].onHand]
    <3>1. IsFiniteSet(RowsOf(p)) /\ \A r \in RowsOf(p) : f[r] \in Int
      BY <1>5, <1>8, StockAssumption, FS_Subset DEF Quantities
    <3> HIDE DEF f
    <3>2. SumFunctionOnSet(f, RowsOf(p)) \in Int
      BY <3>1, SumPick
    <3> QED BY <3>2 DEF OnHandSum, f
  <2>6. \A i, j, m, n \in Int : i + (j + n - j) = i + n
    OBVIOUS
  <2>7. OnHandSum(row', p) + PickedSum(kit', p) = OnHandSum(row, p) + PickedSum(kit, p)
    BY <1>6, <1>7, <2>2, <2>3, <2>4, <2>5
  <2> QED BY <2>7, UnitsAreSums
<1>11. CASE LinePart[b] # p
  <2>1. \A r \in RowsOf(p) : row'[r].onHand = row[r].onHand
    BY <1>8, <1>9, <1>11 DEF RowsOf
  <2>2. \A x \in Kits : \A c \in LinesOf(p) : kit'[x].picked[c] = kit[x].picked[c]
    BY <1>6, <1>11 DEF LinesOf
  <2>3. OnHandSum(row', p) = OnHandSum(row, p)
    BY <1>5, <2>1, OnHandStays
  <2>4. PickedSum(kit', p) = PickedSum(kit, p)
    BY <1>5, <2>2, PickedStays
  <2> QED BY <2>3, <2>4, UnitsAreSums
<1> QED BY <1>10, <1>11

\* Every step that does not bring a part in keeps its units.
LEMMA UnitsStep ==
  ASSUME AloneInv, KitInv', Next, NEW p \in Parts
  PROVE  Units(p)' = Units(p) \/ BringsIn(p)
<1>1. KitInv
  BY DEF AloneInv
<1>2. /\ \A k \in Kits : kit[k] \in KitType /\ DOMAIN kit = Kits
      /\ row \in [Rows -> Quantities]
  BY <1>1 DEF KitInv, TypeOK, KitType
<1>3. ASSUME NEW w \in WorkOrders, WritesWorkOrders(w) PROVE Units(p)' = Units(p)
  BY <1>1, <1>3, WorkOrderSteps, UnitsStay DEF WritesWorkOrders
<1>4. ASSUME NEW w \in WorkOrders, CompleteToStock(w) PROVE Units(p)' = Units(p) \/ BringsIn(p)
  <2>1. CASE Builds[w] = p
    BY <1>4, <2>1 DEF BringsIn
  <2>2. CASE Builds[w] # p
    <3>1. row' = row \/ \E r \in RowsOf(Builds[w]) : row' = [row EXCEPT ![r] = Built(WoQty[w], FALSE)]
      BY <1>4 DEF CompleteToStock
    <3>2. \A r \in RowsOf(p) : row'[r] = row[r]
      BY <1>2, <2>2, <3>1 DEF RowsOf
    <3>3. kit' = kit
      BY <1>4 DEF CompleteToStock
    <3> QED BY <1>1, <3>2, <3>3, UnitsStay
  <2> QED BY <2>1, <2>2
<1>5. ASSUME OpensKits PROVE Units(p)' = Units(p)
  <2>1. PICK D \in SUBSET WorkOrders : \E new \in [D -> UnusedKits] : OpenKits(new)
    BY <1>1, <1>5, OpeningSteps DEF OpensKits
  <2>2. \A k \in Kits : kit'[k] = kit[k] \/ (kit[k].status = "NONE" /\ kit'[k].picked = Nothing)
    BY <1>1, <2>1, OpenKitsFacts DEF KitInv
  <2>3. \A k \in Kits : kit'[k].picked = kit[k].picked
    BY <1>1, <2>2 DEF KitInv, KitsBelong
  <2>4. UNCHANGED row
    BY <1>1, <1>5, OpeningSteps DEF OpensKits
  <2> QED BY <1>1, <2>3, <2>4, UnitsStay
<1>6. ASSUME NEW q \in Pickers, NEW k \in Kits, StartPicking(q, k) PROVE Units(p)' = Units(p)
  <2>1. kit' = [kit EXCEPT ![k].status = "PICKING"] /\ row' = row
    BY <1>6 DEF StartPicking
  <2>2. \A x \in Kits : kit'[x].picked = kit[x].picked
    BY <1>2, <2>1 DEF KitType
  <2> QED BY <1>1, <2>1, <2>2, UnitsStay
<1>7. ASSUME NEW q \in Pickers, NEW b \in BomLines, PickLine(q, b) PROVE Units(p)' = Units(p)
  BY <1>7, UnitsPicked
<1>8. ASSUME NEW q \in Pickers, EndsRequest(q) PROVE Units(p)' = Units(p)
  <2>1. UNCHANGED row /\ (UNCHANGED kit \/ FinishPicking(q))
    BY <1>1, <1>8, EndingSteps DEF EndsRequest
  <2>2. \A x \in Kits : kit'[x].picked = kit[x].picked
    BY <1>2, <2>1 DEF FinishPicking, KitType
  <2> QED BY <1>1, <2>1, <2>2, UnitsStay
<1>9. ASSUME NEW r \in Rows, MovesShelf(r) PROVE Units(p)' = Units(p) \/ BringsIn(p)
  <2>1. UNCHANGED kit
    BY <1>1, <1>9, ShelfSteps DEF MovesShelf
  <2>2. CASE ReceiveStock(r) /\ RowPart[r] = p
    BY <2>2 DEF BringsIn, RowsOf
  <2>3. CASE ReceiveStock(r) /\ RowPart[r] # p
    <3>1. \A x \in RowsOf(p) : row'[x] = row[x]
      BY <1>2, <2>3 DEF ReceiveStock, RowsOf
    <3> QED BY <1>1, <2>1, <3>1, UnitsStay
  <2>4. CASE PutAway(r) \/ ReserveForSale(r) \/ ReleaseCommitment(r)
    <3>1. \E q \in {Shelved(row[r]), Reserve(row[r], 1), Unreserve(row[r], 1)} : row' = [row EXCEPT ![r] = q]
      BY <2>4 DEF PutAway, ReserveForSale, ReleaseCommitment
    <3>2. /\ Shelved(row[r]).onHand = row[r].onHand
          /\ Reserve(row[r], 1).onHand = row[r].onHand
          /\ Unreserve(row[r], 1).onHand = row[r].onHand
      BY <1>2 DEF Shelved, Reserve, Unreserve, Quantities
    <3>3. \A x \in RowsOf(p) : row'[x].onHand = row[x].onHand
      BY <1>2, <3>1, <3>2 DEF RowsOf
    <3> QED BY <1>1, <2>1, <3>3, UnitsStay
  <2> QED BY <1>9, <2>2, <2>3, <2>4 DEF MovesShelf
<1> QED BY KitSteps, <1>3, <1>4, <1>5, <1>6, <1>7, <1>8, <1>9

\* One request at a time, a component leaves a shelf only onto a kit line that records
\* it, through short picks, retries and requests that die between two lines.
THEOREM OneAtATimePicksConserve == ASSUME OneAtATime PROVE Spec => PicksConserved
<1> DEFINE A == \A p \in Parts : Units(p)' = Units(p) \/ BringsIn(p)
<1>1. AloneInv /\ [Next]_vars => [A]_vars
  <2> SUFFICES ASSUME AloneInv, Next PROVE A
    OBVIOUS
  <2>1. KitInv'
    BY KitInvKept DEF AloneInv
  <2> QED BY <2>1, UnitsStep
<1>2. Spec => []AloneInv
  BY AloneAlways
<1> HIDE DEF A
<1>3. Spec => [][A]_vars
  BY <1>1, <1>2, PTL DEF Spec
<1> QED BY <1>3 DEF PicksConserved, A
=============================================================================
