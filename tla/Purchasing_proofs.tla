-------------------------- MODULE Purchasing_proofs --------------------------
(***************************************************************************)
(* Theorems about Purchasing, for every pipeline, every number of requests *)
(* that overlap and every set of people.                                   *)
(***************************************************************************)
EXTENDS Purchasing, TLAPS

-----------------------------------------------------------------------------
(* Types                                                                    *)

LEMMA CallTypes ==
  /\ Idle \in Calls
  /\ \A k \in Calls : /\ k.op \in {"idle", "row", "decided", "confirm", "confirmed", "create",
                                   "mark", "amended", "receipt"}
                      /\ k.step \in Steps /\ k.what \in Decisions
                      /\ k.who \in People \cup {NoOne} /\ k.next \in 0 .. N
                      /\ k.amount \in Amounts \cup {0}
BY PurchasingAssumption DEF Idle, Calls, Steps, Decisions

\* A single field of a call may be written with a value of its type.
LEMMA CallWrites ==
  ASSUME NEW k \in Calls,
         NEW op \in {"idle", "row", "decided", "confirm", "confirmed", "create", "mark",
                     "amended", "receipt"}
  PROVE  /\ [k EXCEPT !.op = op] \in Calls
         /\ [k EXCEPT !.op = op].op = op
         /\ [k EXCEPT !.op = op].step = k.step /\ [k EXCEPT !.op = op].what = k.what
         /\ [k EXCEPT !.op = op].next = k.next /\ [k EXCEPT !.op = op].amount = k.amount
BY DEF Calls

LEMMA IdleWrites ==
  /\ Idle.op = "idle"
  /\ [Idle EXCEPT !.op = "amended"].op = "amended"
  /\ [Idle EXCEPT !.op = "receipt"].op = "receipt"
BY DEF Idle

LEMMA AmountWrites ==
  ASSUME NEW a \in Amounts
  PROVE  /\ [Idle EXCEPT !.op = "create", !.amount = a] \in Calls
         /\ [Idle EXCEPT !.op = "create", !.amount = a].op = "create"
BY CallTypes DEF Calls, Idle

-----------------------------------------------------------------------------
(* No step is skipped                                                      *)

\* What a request that is between two statements relies on: nothing before its step is
\* open; nothing between its step and the one it takes for the next is; and a
\* conversion, once it read that the request is approved, that nothing is open at all.
Behind(k, r) ==
  /\ k.op \in {"row", "decided", "confirm", "confirmed"} =>
       r[k.step] # "NONE" /\ \A t \in Steps : t < k.step => r[t] # "PENDING"
  /\ k.op \in {"decided", "confirmed"} => r[k.step] # "PENDING"
  /\ k.op \in {"confirm", "confirmed"} =>
       /\ k.next # 0 => k.step < k.next
       /\ \A t \in Steps : k.step < t /\ (k.next = 0 \/ t < k.next) => r[t] # "PENDING"
  /\ k.op \in {"create", "mark"} => r[1] # "NONE" /\ \A t \in Steps : r[t] # "PENDING"

\* The step that the request points to, if it is open, is the first one that is.
CurrentIsFirst == rows[cur] = "PENDING" => \A t \in Steps : t < cur => rows[t] # "PENDING"

\* The first step always applies, so a chain that was started has a first row.
Started ==
  /\ rows[1] = "NONE" => \A s \in Steps : rows[s] = "NONE"
  /\ pr = "DRAFT" => rows[1] = "NONE"
  /\ pr \in {"APPROVED", "CONVERTED"} => rows[1] # "NONE"

ChainInv ==
  /\ TypeOK
  /\ NoStepSkipped
  /\ CurrentIsFirst
  /\ Started
  /\ \A c \in Requests : Behind(call[c], rows)

\* Rows are only ever decided.
OnlyDecided(r, r2) ==
  \A s \in Steps : /\ r2[s] = "PENDING" => r[s] = "PENDING"
                   /\ r2[s] = "NONE" <=> r[s] = "NONE"

LEMMA BehindKept ==
  ASSUME NEW k \in Calls, NEW r, NEW r2, Behind(k, r), OnlyDecided(r, r2)
  PROVE  Behind(k, r2)
<1>1. k.step \in Steps /\ 1 \in Steps
  BY CallTypes, PurchasingAssumption DEF Steps
<1> QED BY <1>1 DEF Behind, OnlyDecided

LEMMA BehindIdle ==
  ASSUME NEW k, NEW r, k.op \in {"idle", "amended", "receipt"}
  PROVE  Behind(k, r)
BY DEF Behind

LEMMA ChainInit == Init => ChainInv
<1> SUFFICES ASSUME Init PROVE ChainInv
  OBVIOUS
<1>1. 1 \in Steps
  BY PurchasingAssumption DEF Steps
<1>2. TypeOK
  BY <1>1, CallTypes DEF Init, TypeOK, Marks
<1>3. NoStepSkipped /\ CurrentIsFirst /\ Started
  BY <1>1 DEF Init, NoStepSkipped, CurrentIsFirst, Started, Pending
<1>4. ASSUME NEW c \in Requests PROVE Behind(call[c], rows)
  BY BehindIdle DEF Init, Idle
<1> QED BY <1>2, <1>3, <1>4 DEF ChainInv

LEMMA TypesStep == TypeOK /\ [Next]_vars => TypeOK'
<1> SUFFICES ASSUME TypeOK, [Next]_vars PROVE TypeOK'
  OBVIOUS
<1> USE DEF TypeOK
<1>0. 1 \in Steps /\ Cleared \in Steps
  BY PurchasingAssumption DEF Steps, Cleared
<1>1. CASE Submit \/ StartLate
  BY <1>0, <1>1 DEF Submit, StartLate, StartWorkflow, chain, order, Marks
<1>2. CASE SavePackage \/ Acknowledge \/ CloseOrder
  BY <1>2 DEF SavePackage, Acknowledge, CloseOrder, chain, order
<1>3. ASSUME NEW c \in Requests, NEW u \in People, NEW s \in Steps, NEW d \in Decisions,
             ReadDecision(c, u, s, d)
      PROVE  TypeOK'
  <2>1. [op |-> "row", step |-> s, what |-> d, who |-> u, next |-> 0, amount |-> 0] \in Calls
    BY PurchasingAssumption DEF Calls, Decisions
  <2> QED BY <1>3, <2>1 DEF ReadDecision, chain, order
<1>4. ASSUME NEW c \in Requests, NEW u \in People, NEW s \in Steps, ReadConfirm(c, u, s)
      PROVE  TypeOK'
  <2>1. \A n \in 0 .. N : [op |-> "confirm", step |-> s, what |-> "APPROVED", who |-> u,
                            next |-> n, amount |-> 0] \in Calls
    BY DEF Calls, Decisions
  <2>2. call' \in [Requests -> Calls]
    BY <1>4, <2>1 DEF ReadConfirm
  <2>3. cur' \in Steps
    BY <1>4 DEF ReadConfirm, IsFirst, After, Pending
  <2> QED BY <1>4, <2>2, <2>3 DEF ReadConfirm, order
<1>5. ASSUME NEW c \in Requests, NEW u \in People, NEW s \in Steps, ApproveAmendment(c, u, s)
      PROVE  TypeOK'
  <2>1. [Idle EXCEPT !.op = "amended"] \in Calls
    BY CallTypes, CallWrites
  <2> QED BY <1>5, <2>1 DEF ApproveAmendment, chain, Marks
<1>6. ASSUME NEW u \in People, NEW s \in Steps, RejectAmendment(u, s) PROVE TypeOK'
  BY <1>6 DEF RejectAmendment, chain, Marks
<1>7. ASSUME NEW a \in Amounts, AmendOrder(a) PROVE TypeOK'
  BY <1>7 DEF AmendOrder, AmendmentRows, chain, Marks
<1>8. ASSUME NEW c \in Requests, WriteRow(c) PROVE TypeOK'
  <2>1. /\ [call[c] EXCEPT !.op = "decided"] \in Calls
        /\ [call[c] EXCEPT !.op = "confirmed"] \in Calls
    BY CallWrites
  <2>2. call[c].what \in Marks /\ call[c].step \in Steps /\ call[c].who \in People \cup {NoOne}
    BY CallTypes DEF Decisions, Marks
  <2> QED BY <1>8, <2>1, <2>2 DEF WriteRow, order
<1>9. ASSUME NEW c \in Requests, WriteDecision(c) PROVE TypeOK'
  BY <1>0, <1>9, CallTypes DEF WriteDecision, Later, IsFirst, After, Pending, order
<1>10. ASSUME NEW c \in Requests, WriteConfirm(c) PROVE TypeOK'
  <2>1. call[c].next \in 0 .. N
    BY CallTypes
  <2> QED BY <1>0, <1>10, <2>1, CallTypes, PurchasingAssumption DEF WriteConfirm, order, Steps
<1>11. ASSUME NEW c \in Requests, ReadConvert(c) PROVE TypeOK'
  BY <1>11, AmountWrites DEF ReadConvert, chain, order
<1>12. ASSUME NEW c \in Requests, CreateOrder(c) PROVE TypeOK'
  <2>1. [call[c] EXCEPT !.op = "mark"] \in Calls
    BY CallWrites
  <2>2. call[c].amount \in Amounts \cup {0}
    BY CallTypes
  <2> QED BY <1>12, <2>1, <2>2 DEF CreateOrder, chain, Marks
<1>13. ASSUME NEW c \in Requests, MarkConverted(c) \/ Crash(c) \/ Reissue(c) \/ FinishReceipt(c)
       PROVE  TypeOK'
  BY <1>13, CallTypes DEF MarkConverted, Crash, Reissue, FinishReceipt, chain, order
<1>14. ASSUME NEW c \in Requests, StartReceipt(c) PROVE TypeOK'
  <2>1. [Idle EXCEPT !.op = "receipt"] \in Calls
    BY CallTypes, CallWrites
  <2> QED BY <1>14, <2>1 DEF StartReceipt, chain, order
<1>15. CASE UNCHANGED vars
  BY <1>15 DEF vars
<1> QED BY <1>1, <1>2, <1>3, <1>4, <1>5, <1>6, <1>7, <1>8, <1>9, <1>10, <1>11, <1>12, <1>13,
           <1>14, <1>15 DEF Next

\* Every variable keeps its type, the step a request points to included.
THEOREM TypeCorrect == Spec => []TypeOK
<1>1. Init => TypeOK
  BY ChainInit DEF ChainInv
<1> QED BY <1>1, TypesStep, PTL DEF Spec

\* A step that starts no chain and leaves the status alone.
LEMMA ChainKept ==
  ASSUME ChainInv, TypeOK', OnlyDecided(rows, rows'), pr' = pr, NoStepSkipped',
         cur' = cur \/ (rows'[cur'] = "PENDING" => \A t \in Steps : t < cur' => rows'[t] # "PENDING"),
         \A c \in Requests : call'[c] = call[c] \/ Behind(call'[c], rows')
  PROVE  ChainInv'
<1>1. 1 \in Steps
  BY PurchasingAssumption DEF Steps
<1>2. Started'
  BY <1>1 DEF ChainInv, Started, OnlyDecided
<1>3. CurrentIsFirst'
  BY DEF ChainInv, CurrentIsFirst, OnlyDecided, TypeOK
<1>4. ASSUME NEW c \in Requests PROVE Behind(call[c], rows)'
  BY BehindKept DEF ChainInv, TypeOK
<1> QED BY <1>2, <1>3, <1>4 DEF ChainInv

LEMMA ChainStep == ChainInv /\ [Next]_vars => ChainInv'
<1> SUFFICES ASSUME ChainInv, [Next]_vars PROVE ChainInv'
  OBVIOUS
<1> USE DEF ChainInv
<1>a. TypeOK'
  BY TypesStep
<1>b. 1 \in Steps
  BY PurchasingAssumption DEF Steps
<1>c. OnlyDecided(rows, rows)
  BY DEF OnlyDecided
<1>1. CASE Submit \/ StartLate
  <2>1. \A s \in Steps : rows[s] = "NONE"
    BY <1>1 DEF Submit, StartLate, Started
  <2>2. \A c \in Requests : call[c].op \notin {"row", "decided", "confirm", "confirmed", "create", "mark"}
    <3>1. \A c \in Requests : call[c].step \in Steps
      BY CallTypes DEF TypeOK
    <3> QED BY <2>1, <3>1, <1>b DEF Behind
  <2>3. \A c \in Requests : Behind(call[c], rows)'
    BY <1>1, <2>2 DEF Submit, StartLate, Behind
  <2>4. CASE UNCHANGED chain
    BY <1>a, <1>1, <2>1, <2>3, <2>4, <1>b DEF chain, Submit, StartLate, NoStepSkipped, Pending, CurrentIsFirst, Started
  <2>5. CASE StartWorkflow
    <3>1. rows'[1] = "PENDING"
      BY <1>b, <2>5, PurchasingAssumption DEF StartWorkflow, Applies, Core
    <3>2. pr' = "SUBMITTED"
      BY <1>1 DEF Submit, StartLate
    <3>3. NoStepSkipped'
      BY <2>5, <3>2 DEF StartWorkflow, NoStepSkipped
    <3>4. CurrentIsFirst'
      BY <2>5 DEF StartWorkflow, CurrentIsFirst, Steps
    <3> QED BY <1>a, <2>3, <3>1, <3>2, <3>3, <3>4 DEF Started
  <2> QED BY <1>1, <2>4, <2>5 DEF Submit, StartLate
<1>2. CASE UNCHANGED <<pr, rows, cur, call>>
  BY <1>2, <1>a, <1>c, ChainKept DEF NoStepSkipped, Pending
<1>3. ASSUME NEW c \in Requests, NEW u \in People, NEW s \in Steps, NEW d \in Decisions,
             ReadDecision(c, u, s, d)
      PROVE  ChainInv'
  <2>1. rows[s] = "PENDING" /\ \A t \in Steps : t < s => rows[t] # "PENDING"
    BY <1>3 DEF ReadDecision, Current, IsFirst, Pending, CurrentIsFirst, TypeOK, Steps
  <2>2. Behind([op |-> "row", step |-> s, what |-> d, who |-> u, next |-> 0, amount |-> 0], rows)
    BY <2>1 DEF Behind
  <2> QED BY <1>3, <1>a, <1>c, <2>2, ChainKept DEF ReadDecision, chain, TypeOK, NoStepSkipped, Pending
<1>4. ASSUME NEW c \in Requests, NEW u \in People, NEW s \in Steps, ReadConfirm(c, u, s)
      PROVE  ChainInv'
  <2>1. s = 2 /\ rows[1] # "PENDING"
    BY <1>4, <1>b, PurchasingAssumption DEF ReadConfirm
  <2>2. \A t \in Steps : t < s => t = 1
    BY <2>1 DEF Steps
  <2>3. CASE rows[s] = "PENDING"
    <3>1. PICK n \in 0 .. N :
            /\ IF After(s, Pending(rows)) = {} THEN n = 0 ELSE IsFirst(n, After(s, Pending(rows)))
            /\ call' = [call EXCEPT ![c] = [op |-> "confirm", step |-> s, what |-> "APPROVED",
                                            who |-> u, next |-> n, amount |-> 0]]
      BY <1>4, <2>3 DEF ReadConfirm
    <3>2. Behind([op |-> "confirm", step |-> s, what |-> "APPROVED", who |-> u,
                  next |-> n, amount |-> 0], rows)
      BY <2>1, <2>2, <2>3, <3>1 DEF Behind, IsFirst, After, Pending, Steps
    <3> QED BY <1>4, <1>a, <1>c, <2>3, <3>1, <3>2, ChainKept
            DEF ReadConfirm, order, TypeOK, NoStepSkipped, Pending
  <2>4. CASE rows[s] = "APPROVED"
    <3>1. cur' = cur \/ IsFirst(cur', After(s, Pending(rows)))
      BY <1>4, <2>4 DEF ReadConfirm
    <3>2. IsFirst(cur', After(s, Pending(rows))) => \A t \in Steps : t < cur' => rows[t] # "PENDING"
      BY <2>1, <2>2, <2>4 DEF IsFirst, After, Pending, Steps
    <3> QED BY <1>4, <1>a, <1>c, <2>4, <3>1, <3>2, ChainKept
            DEF ReadConfirm, order, NoStepSkipped, Pending
  <2> QED BY <1>4, <2>3, <2>4 DEF ReadConfirm
<1>5. ASSUME NEW c \in Requests, WriteRow(c) PROVE ChainInv'
  <2> DEFINE k == call[c]
  <2>1. k \in Calls /\ k.step \in Steps /\ k.what \in {"APPROVED", "REJECTED"} /\ k.next \in 0 .. N
    BY CallTypes DEF TypeOK, Decisions
  <2>2. rows[k.step] # "NONE" /\ \A t \in Steps : t < k.step => rows[t] # "PENDING"
    BY <1>5 DEF WriteRow, Behind
  <2>3. OnlyDecided(rows, rows')
    BY <1>5, <2>1, <2>2 DEF WriteRow, OnlyDecided, TypeOK
  <2>4. NoStepSkipped'
    BY <1>5, <2>1, <2>2 DEF WriteRow, NoStepSkipped, Pending, TypeOK, Steps
  <2>5. /\ call'[c].op \in {"decided", "confirmed"}
        /\ k.op = "row" => call'[c].op = "decided"
        /\ call'[c].step = k.step /\ call'[c].next = k.next
    BY <1>5, <2>1, CallWrites DEF WriteRow, TypeOK
  <2>6. rows'[k.step] = k.what
    BY <1>5, <2>1 DEF WriteRow, TypeOK
  <2>7. Behind(call[c], rows')
    BY <2>1, <2>3, BehindKept
  <2>8. Behind(call'[c], rows')
    BY <1>5, <2>1, <2>5, <2>6, <2>7 DEF Behind, WriteRow
  <2>9. \A d \in Requests : d # c => call'[d] = call[d]
    BY <1>5 DEF WriteRow, TypeOK
  <2> QED BY <1>5, <1>a, <2>3, <2>4, <2>8, <2>9, ChainKept DEF WriteRow
<1>6. ASSUME NEW c \in Requests, WriteDecision(c) PROVE ChainInv'
  <2> DEFINE k == call[c]
  <2>1. k \in Calls /\ k.step \in Steps
    BY CallTypes DEF TypeOK
  <2>2. /\ rows[k.step] \notin {"NONE", "PENDING"}
        /\ \A t \in Steps : t < k.step => rows[t] # "PENDING"
    BY <1>6 DEF WriteDecision, Behind
  <2>3. \A d \in Requests : Behind(call[d], rows)'
    BY <1>6, BehindIdle DEF WriteDecision, TypeOK, Idle
  <2>4. rows[1] # "NONE"
    BY <2>1, <2>2 DEF Started
  <2>5. CASE k.what # "REJECTED" /\ Later(k.step) # {}
    <3>1. IsFirst(cur', After(k.step, Pending(rows)))
      BY <1>6, <2>5 DEF WriteDecision, Later
    <3>2. \A t \in Steps : t < cur' => rows[t] # "PENDING"
      BY <2>1, <2>2, <3>1 DEF IsFirst, After, Pending, Steps
    <3> QED BY <1>6, <1>a, <2>3, <2>4, <2>5, <3>2
            DEF WriteDecision, NoStepSkipped, Pending, CurrentIsFirst, Started
  <2>6. CASE k.what = "REJECTED"
    BY <1>6, <1>a, <2>3, <2>4, <2>6
       DEF WriteDecision, NoStepSkipped, Pending, CurrentIsFirst, Started, Cleared, Steps
  <2>7. CASE k.what # "REJECTED" /\ Later(k.step) = {}
    <3>1. Pending(rows) = {}
      BY <2>1, <2>2, <2>7 DEF Later, After, Pending, Steps
    <3> QED BY <1>6, <1>a, <2>3, <2>4, <2>7, <3>1
            DEF WriteDecision, NoStepSkipped, Pending, CurrentIsFirst, Started
  <2> QED BY <2>5, <2>6, <2>7
<1>7. ASSUME NEW c \in Requests, WriteConfirm(c) PROVE ChainInv'
  <2> DEFINE k == call[c]
  <2>1. k \in Calls /\ k.step \in Steps /\ k.next \in 0 .. N
    BY CallTypes DEF TypeOK
  <2>2. /\ rows[k.step] \notin {"NONE", "PENDING"}
        /\ \A t \in Steps : t < k.step => rows[t] # "PENDING"
        /\ k.next # 0 => k.step < k.next
        /\ \A t \in Steps : k.step < t /\ (k.next = 0 \/ t < k.next) => rows[t] # "PENDING"
    BY <1>7 DEF WriteConfirm, Behind
  <2>3. \A d \in Requests : Behind(call[d], rows)'
    BY <1>7, BehindIdle DEF WriteConfirm, TypeOK, Idle
  <2>4. rows[1] # "NONE"
    BY <2>1, <2>2 DEF Started
  <2>5. CASE k.next = 0
    <3>1. Pending(rows) = {}
      BY <2>1, <2>2, <2>5 DEF Pending, Steps
    <3> QED BY <1>7, <1>a, <2>3, <2>4, <2>5, <3>1
            DEF WriteConfirm, NoStepSkipped, Pending, CurrentIsFirst, Started
  <2>6. CASE k.next # 0
    <3>1. \A t \in Steps : t < cur' => rows[t] # "PENDING"
      BY <1>7, <2>1, <2>2, <2>6 DEF WriteConfirm, Steps
    <3> QED BY <1>7, <1>a, <2>3, <2>4, <2>6, <3>1
            DEF WriteConfirm, NoStepSkipped, Pending, CurrentIsFirst, Started
  <2> QED BY <2>5, <2>6
<1>8. ASSUME NEW c \in Requests, ReadConvert(c) PROVE ChainInv'
  <2>1. rows[1] # "NONE" /\ \A t \in Steps : rows[t] # "PENDING"
    BY <1>8 DEF ReadConvert, Started, NoStepSkipped, Pending
  <2>2. CASE NoOrder
    <3>1. Behind([Idle EXCEPT !.op = "create", !.amount = estimate], rows)
      BY <2>1, AmountWrites DEF Behind, TypeOK
    <3> QED BY <1>8, <1>a, <1>c, <2>2, <3>1, ChainKept
            DEF ReadConvert, chain, TypeOK, NoStepSkipped, Pending
  <2>3. CASE ~NoOrder
    BY <1>8, <1>a, <2>1, <2>3 DEF ReadConvert, chain, NoStepSkipped, Pending, CurrentIsFirst, Started
  <2> QED BY <2>2, <2>3
<1>9. ASSUME NEW c \in Requests, CreateOrder(c) PROVE ChainInv'
  <2>1. [call[c] EXCEPT !.op = "mark"].op = "mark"
    BY CallWrites DEF TypeOK
  <2>2. Behind([call[c] EXCEPT !.op = "mark"], rows)
    BY <1>9, <2>1 DEF CreateOrder, Behind
  <2> QED BY <1>9, <1>a, <1>c, <2>2, ChainKept DEF CreateOrder, chain, TypeOK, NoStepSkipped, Pending
<1>10. ASSUME NEW c \in Requests, MarkConverted(c) PROVE ChainInv'
  <2>1. rows[1] # "NONE" /\ \A t \in Steps : rows[t] # "PENDING"
    BY <1>10 DEF MarkConverted, Behind
  <2>2. \A d \in Requests : Behind(call[d], rows)'
    BY <1>10, BehindIdle DEF MarkConverted, chain, TypeOK, Idle
  <2> QED BY <1>10, <1>a, <2>1, <2>2 DEF MarkConverted, chain, NoStepSkipped, Pending, CurrentIsFirst, Started
<1>11. ASSUME NEW c \in Requests,
              \/ \E u \in People, s \in Steps : ApproveAmendment(c, u, s)
              \/ Reissue(c) \/ StartReceipt(c) \/ FinishReceipt(c) \/ Crash(c)
       PROVE  ChainInv'
  <2>1. UNCHANGED <<pr, rows, cur>> /\ \A d \in Requests : d # c => call'[d] = call[d]
    BY <1>11 DEF ApproveAmendment, Reissue, StartReceipt, FinishReceipt, Crash, chain, TypeOK
  <2>2. call'[c].op \in {"idle", "amended", "receipt"}
    <3>1. call'[c] \in {Idle, [Idle EXCEPT !.op = "amended"], [Idle EXCEPT !.op = "receipt"]}
      BY <1>11 DEF ApproveAmendment, Reissue, StartReceipt, FinishReceipt, Crash, TypeOK
    <3> QED BY <3>1, IdleWrites
  <2>3. Behind(call'[c], rows')
    BY <2>2, BehindIdle
  <2> QED BY <1>a, <1>c, <2>1, <2>3, ChainKept DEF NoStepSkipped, Pending
<1>12. CASE \/ SavePackage \/ Acknowledge \/ CloseOrder \/ UNCHANGED vars
            \/ \E u \in People, s \in Steps : RejectAmendment(u, s)
            \/ \E a \in Amounts : AmendOrder(a)
  BY <1>2, <1>12 DEF SavePackage, Acknowledge, CloseOrder, RejectAmendment, AmendOrder, chain, vars
<1> QED BY <1>1, <1>3, <1>4, <1>5, <1>6, <1>7, <1>8, <1>9, <1>10, <1>11, <1>12 DEF Next

\* Whatever overlaps or stops, steps are decided in the order of the pipeline and a request
\* is approved or converted only when none is open: for every pipeline in the default order,
\* every number of requests at once and whoever may decide what.
THEOREM NobodySkipped == Spec => []NoStepSkipped
<1>1. Spec => []ChainInv
  BY ChainInit, ChainStep, PTL DEF Spec
<1>2. ChainInv => NoStepSkipped
  BY DEF ChainInv
<1> QED BY <1>1, <1>2, PTL

-----------------------------------------------------------------------------
(* One order                                                               *)

\* Conversions do not overlap.
OneConverter == \A c, d \in Converters : c = d

\* A conversion that is about to create an order read that there was none, and one that is
\* about to mark the request has created the only one.
OrderInv ==
  /\ TypeOK
  /\ OneOrder
  /\ \A c \in Requests :
       /\ call[c].op \in {"create", "mark"} => c \in Converters
       /\ call[c].op = "create" => orders = 0
       /\ call[c].op = "mark" => orders = 1

LEMMA OrderInit == Init => OrderInv
<1>1. Init => TypeOK
  BY ChainInit DEF ChainInv
<1> QED BY <1>1 DEF Init, OrderInv, OneOrder, Idle

\* A step that makes no order, and starts no conversion.
LEMMA OrderKept ==
  ASSUME OrderInv, TypeOK', orders' = orders, pr' = "CONVERTED" => orders = 1,
         \A c \in Requests : call'[c] = call[c] \/ call'[c].op \notin {"create", "mark"}
  PROVE  OrderInv'
BY DEF OrderInv, OneOrder

LEMMA OrderStep == OneConverter /\ OrderInv /\ [Next]_vars => OrderInv'
<1> SUFFICES ASSUME OneConverter, OrderInv, [Next]_vars PROVE OrderInv'
  OBVIOUS
<1> USE DEF OrderInv
<1>a. TypeOK'
  BY TypesStep
<1>1. CASE Submit \/ StartLate \/ SavePackage \/ Acknowledge \/ CloseOrder \/ UNCHANGED vars
  BY <1>1, <1>a, OrderKept DEF Submit, StartLate, SavePackage, Acknowledge, CloseOrder, vars, order, chain, OneOrder
<1>2. ASSUME NEW c \in Requests, NEW u \in People, NEW s \in Steps,
              \/ \E d \in Decisions : ReadDecision(c, u, s, d)
              \/ ReadConfirm(c, u, s)
              \/ ApproveAmendment(c, u, s)
      PROVE  OrderInv'
  <2>1. orders' = orders /\ pr' = pr /\ \A d \in Requests : d # c => call'[d] = call[d]
    BY <1>2 DEF ReadDecision, ReadConfirm, ApproveAmendment, order, TypeOK
  <2>2. call'[c] = call[c] \/ call'[c].op \in {"row", "confirm", "amended"}
    <3>1. CASE \E d \in Decisions : ReadDecision(c, u, s, d)
      BY <3>1 DEF ReadDecision, TypeOK
    <3>2. CASE ReadConfirm(c, u, s)
      BY <3>2 DEF ReadConfirm, TypeOK
    <3>3. CASE ApproveAmendment(c, u, s)
      BY <3>3, IdleWrites DEF ApproveAmendment, TypeOK
    <3> QED BY <1>2, <3>1, <3>2, <3>3
  <2> QED BY <1>a, <2>1, <2>2, OrderKept DEF OneOrder
<1>3. ASSUME NEW u \in People, NEW s \in Steps, RejectAmendment(u, s) PROVE OrderInv'
  BY <1>3, <1>a, OrderKept DEF RejectAmendment, OneOrder
<1>4. ASSUME NEW a \in Amounts, AmendOrder(a) PROVE OrderInv'
  BY <1>4, <1>a, OrderKept DEF AmendOrder, OneOrder
<1>5. ASSUME NEW c \in Requests, WriteRow(c) PROVE OrderInv'
  <2>1. call'[c].op \in {"decided", "confirmed"} /\ \A d \in Requests : d # c => call'[d] = call[d]
    BY <1>5, CallWrites DEF WriteRow, TypeOK
  <2> QED BY <1>5, <1>a, <2>1, OrderKept DEF WriteRow, order, OneOrder
<1>6. ASSUME NEW c \in Requests, WriteDecision(c) \/ WriteConfirm(c) \/ Reissue(c) \/ FinishReceipt(c) \/ Crash(c)
      PROVE  OrderInv'
  <2>1. orders' = orders /\ (pr' = pr \/ pr' # "CONVERTED")
    BY <1>6 DEF WriteDecision, WriteConfirm, Reissue, FinishReceipt, Crash, order
  <2>2. call'[c] = Idle /\ \A d \in Requests : d # c => call'[d] = call[d]
    BY <1>6 DEF WriteDecision, WriteConfirm, Reissue, FinishReceipt, Crash, TypeOK
  <2> QED BY <1>a, <2>1, <2>2, IdleWrites, OrderKept DEF OneOrder
<1>7. ASSUME NEW c \in Requests, StartReceipt(c) PROVE OrderInv'
  BY <1>7, <1>a, IdleWrites, OrderKept DEF StartReceipt, order, OneOrder, TypeOK
<1>8. ASSUME NEW c \in Requests, ReadConvert(c) PROVE OrderInv'
  <2>1. CASE NoOrder
    <3>1. call'[c].op = "create" /\ \A d \in Requests : d # c => call'[d] = call[d]
      BY <1>8, <2>1, AmountWrites DEF ReadConvert, TypeOK
    <3> QED BY <1>8, <1>a, <2>1, <3>1 DEF ReadConvert, NoOrder, order, OneOrder
  <2>2. CASE ~NoOrder
    BY <1>8, <1>a, <2>2, OrderKept DEF ReadConvert, NoOrder, order, OneOrder, TypeOK
  <2> QED BY <2>1, <2>2
<1>9. ASSUME NEW c \in Requests, CreateOrder(c) PROVE OrderInv'
  <2>1. call'[c].op = "mark" /\ \A d \in Requests : d # c => call'[d] = call[d]
    BY <1>9, CallWrites DEF CreateOrder, TypeOK
  <2>2. c \in Converters /\ orders = 0
    BY <1>9 DEF CreateOrder
  <2>3. \A d \in Requests : d # c => call[d].op \notin {"create", "mark"}
    BY <2>2 DEF OneConverter
  <2> QED BY <1>9, <1>a, <2>1, <2>2, <2>3 DEF CreateOrder, OneOrder
<1>10. ASSUME NEW c \in Requests, MarkConverted(c) PROVE OrderInv'
  BY <1>10, <1>a, IdleWrites, OrderKept DEF MarkConverted, order, TypeOK
<1> QED BY <1>1, <1>2, <1>3, <1>4, <1>5, <1>6, <1>7, <1>8, <1>9, <1>10 DEF Next

\* A request becomes at most one order, and a converted one has its order, although a
\* conversion may stop between creating and marking and a late decision may set a converted
\* request back to approved; provided that conversions do not overlap one another.
THEOREM ConvertedOnce == ASSUME OneConverter PROVE Spec => []OneOrder
<1>1. OneConverter
  OBVIOUS
<1>2. OrderInv /\ [Next]_vars => OrderInv'
  BY <1>1, OrderStep
<1>3. Spec => []OrderInv
  BY OrderInit, <1>2, PTL DEF Spec
<1>4. OrderInv => OneOrder
  BY DEF OrderInv
<1> QED BY <1>3, <1>4, PTL

-----------------------------------------------------------------------------
(* What can be received was approved                                       *)

\* An open row of an amendment blocks the order, and no row was rejected while one is
\* open; a request that approved one, or that receives, is alone with the order.
AmendInv ==
  /\ TypeOK
  /\ ReceivableIsApproved
  /\ \A s, t \in Steps : amend[s] = "PENDING" => amend[t] # "REJECTED"
  /\ \A c \in Requests :
       /\ call[c].op \in {"amended", "receipt"} => \A s \in Steps : amend[s] # "REJECTED"
       /\ call[c].op = "receipt" => \A s \in Steps : amend[s] # "PENDING"

LEMMA AmendInit == Init => AmendInv
<1>1. Init => TypeOK
  BY ChainInit DEF ChainInv
<1> QED BY <1>1 DEF Init, AmendInv, ReceivableIsApproved, Receivable, Idle

LEMMA AmendStep == ~AmendOverlaps /\ AmendInv /\ [Next]_vars => AmendInv'
<1> SUFFICES ASSUME ~AmendOverlaps, AmendInv, [Next]_vars PROVE AmendInv'
  OBVIOUS
<1> USE DEF AmendInv
<1>a. TypeOK'
  BY TypesStep
<1>1. CASE Submit \/ StartLate \/ SavePackage \/ UNCHANGED vars
  BY <1>1, <1>a DEF Submit, StartLate, SavePackage, vars, order, ReceivableIsApproved, Receivable
<1>2. CASE Acknowledge \/ CloseOrder
  BY <1>2, <1>a DEF Acknowledge, CloseOrder, ReceivableIsApproved, Receivable
<1>3. ASSUME NEW c \in Requests, UNCHANGED order,
             call'[c] = call[c] \/ call'[c].op \notin {"amended", "receipt"},
             \A d \in Requests : d # c => call'[d] = call[d]
      PROVE  AmendInv'
  BY <1>3, <1>a DEF order, ReceivableIsApproved, Receivable
<1>4. ASSUME NEW c \in Requests, NEW u \in People, NEW s \in Steps,
              \/ \E d \in Decisions : ReadDecision(c, u, s, d)
              \/ ReadConfirm(c, u, s)
      PROVE  AmendInv'
  <2>1. UNCHANGED order /\ \A d \in Requests : d # c => call'[d] = call[d]
    BY <1>4 DEF ReadDecision, ReadConfirm, TypeOK
  <2>2. call'[c] = call[c] \/ call'[c].op \in {"row", "confirm"}
    BY <1>4 DEF ReadDecision, ReadConfirm, TypeOK
  <2> QED BY <2>1, <2>2, <1>3
<1>5. ASSUME NEW c \in Requests, WriteRow(c) PROVE AmendInv'
  <2>1. call'[c].op \in {"decided", "confirmed"} /\ \A d \in Requests : d # c => call'[d] = call[d]
    BY <1>5, CallWrites DEF WriteRow, TypeOK
  <2> QED BY <1>5, <2>1, <1>3 DEF WriteRow
<1>6. ASSUME NEW c \in Requests, WriteDecision(c) \/ WriteConfirm(c) \/ MarkConverted(c) \/ Crash(c)
      PROVE  AmendInv'
  <2>1. UNCHANGED order /\ call'[c] = Idle /\ \A d \in Requests : d # c => call'[d] = call[d]
    BY <1>6 DEF WriteDecision, WriteConfirm, MarkConverted, Crash, TypeOK
  <2> QED BY <2>1, <1>3, IdleWrites
<1>7. ASSUME NEW c \in Requests, ReadConvert(c) PROVE AmendInv'
  <2>1. UNCHANGED order /\ \A d \in Requests : d # c => call'[d] = call[d]
    BY <1>7 DEF ReadConvert, TypeOK
  <2>2. call'[c] = call[c] \/ call'[c].op = "create"
    BY <1>7, AmountWrites DEF ReadConvert, TypeOK
  <2> QED BY <2>1, <2>2, <1>3
<1>8. ASSUME NEW c \in Requests, CreateOrder(c) PROVE AmendInv'
  <2>1. call'[c].op = "mark" /\ \A d \in Requests : d # c => call'[d] = call[d]
    BY <1>8, CallWrites DEF CreateOrder, TypeOK
  <2> QED BY <1>8, <1>a, <2>1 DEF CreateOrder, ReceivableIsApproved
<1>9. ASSUME NEW c \in Requests, NEW u \in People, NEW s \in Steps, ApproveAmendment(c, u, s)
      PROVE  AmendInv'
  <2>1. \A d \in Requests : call[d].op \notin {"amended", "receipt"}
    BY <1>9 DEF ApproveAmendment, Quiet
  <2>2. call'[c].op = "amended" /\ \A d \in Requests : d # c => call'[d] = call[d]
    BY <1>9, IdleWrites DEF ApproveAmendment, TypeOK
  <2>3. amend[s] = "PENDING"
    BY <1>9 DEF ApproveAmendment, IsFirst, Pending
  <2>4. \A t \in Steps : amend'[t] = IF t = s THEN "APPROVED" ELSE amend[t]
    BY <1>9 DEF ApproveAmendment, TypeOK
  <2> QED BY <1>9, <1>a, <2>1, <2>2, <2>3, <2>4 DEF ApproveAmendment, ReceivableIsApproved
<1>10. ASSUME NEW u \in People, NEW s \in Steps, RejectAmendment(u, s) PROVE AmendInv'
  <2>1. \A d \in Requests : call[d].op \notin {"amended", "receipt"}
    BY <1>10 DEF RejectAmendment, Quiet
  <2>2. amend[s] = "PENDING"
    BY <1>10 DEF RejectAmendment, IsFirst, Pending
  <2> QED BY <1>10, <1>a, <2>1, <2>2 DEF RejectAmendment, ReceivableIsApproved
<1>11. ASSUME NEW a \in Amounts, AmendOrder(a) PROVE AmendInv'
  <2>1. \A d \in Requests : call[d].op \notin {"amended", "receipt"}
    BY <1>11 DEF AmendOrder, Quiet
  <2> QED BY <1>11, <1>a, <2>1 DEF AmendOrder, AmendmentRows, ReceivableIsApproved, Receivable
<1>12. ASSUME NEW c \in Requests, Reissue(c) PROVE AmendInv'
  <2>1. \A s \in Steps : amend[s] # "REJECTED"
    BY <1>12 DEF Reissue
  <2>2. po' \in Receivable => \A s \in Steps : amend[s] \in {"NONE", "APPROVED"}
    BY <1>12, <2>1 DEF Reissue, NothingLeft, Pending, ReceivableIsApproved, TypeOK, Marks
  <2>3. call'[c].op = "idle" /\ \A d \in Requests : d # c => call'[d] = call[d]
    BY <1>12, IdleWrites DEF Reissue, TypeOK
  <2> QED BY <1>12, <1>a, <2>2, <2>3 DEF Reissue, ReceivableIsApproved, Receivable
<1>13. ASSUME NEW c \in Requests, StartReceipt(c) PROVE AmendInv'
  <2>1. call'[c].op = "receipt" /\ \A d \in Requests : d # c => call'[d] = call[d]
    BY <1>13, IdleWrites DEF StartReceipt, TypeOK
  <2> QED BY <1>13, <1>a, <2>1 DEF StartReceipt, order, ReceivableIsApproved, Receivable
<1>14. ASSUME NEW c \in Requests, FinishReceipt(c) PROVE AmendInv'
  <2>1. call'[c].op = "idle" /\ \A d \in Requests : d # c => call'[d] = call[d]
    BY <1>14, IdleWrites DEF FinishReceipt, TypeOK
  <2>2. \A s \in Steps : amend[s] \in {"NONE", "APPROVED"}
    BY <1>14 DEF FinishReceipt, TypeOK, Marks
  <2> QED BY <1>14, <1>a, <2>1, <2>2 DEF FinishReceipt, ReceivableIsApproved, Receivable
<1> QED BY <1>1, <1>2, <1>4, <1>5, <1>6, <1>7, <1>8, <1>9, <1>10, <1>11, <1>12, <1>13, <1>14 DEF Next

\* An order that can be received has every row of its last amendment approved, for every
\* chain and any number of amendments, rejections, receipts and other requests at once, as
\* long as no decision on an amendment or receipt overlaps another.
THEOREM ReceivedOnlyIfApproved == ASSUME ~AmendOverlaps PROVE Spec => []ReceivableIsApproved
<1>1. ~AmendOverlaps
  OBVIOUS
<1>2. AmendInv /\ [Next]_vars => AmendInv'
  BY <1>1, AmendStep
<1>3. Spec => []AmendInv
  BY AmendInit, <1>2, PTL DEF Spec
<1>4. AmendInv => ReceivableIsApproved
  BY DEF AmendInv
<1> QED BY <1>3, <1>4, PTL
=============================================================================
