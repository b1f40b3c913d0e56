--------------------------------- MODULE Books ---------------------------------
(***************************************************************************)
(* The general ledger (gaap.ts, recurring-journals.ts): journals that are  *)
(* entered, approved, voided and reversed, a memorized template and the    *)
(* accruals that every load of the accounting page posts when they are     *)
(* due, the month-end close, and the receipts of one customer invoice.     *)
(*                                                                         *)
(* One account stands for both sides of a journal, and a month is one      *)
(* moment.  No handler runs in a transaction: each step is one statement,  *)
(* between which other requests run or the request stops for good.         *)
(***************************************************************************)
EXTENDS Integers, Sequences, FiniteSets

CONSTANTS
  Requests,     \* requests that may run at the same time
  Tasks,        \* [Requests -> SUBSET AllTasks], what each is for, may it stop?
  Entries,      \* kinds of entry that are made by hand
  Separate,     \* does each work on another journal, template or invoice?
  AutoReverse,  \* RecurringJournal.autoReverse
  Amounts,      \* amounts of entries and receipts
  CloseDates,   \* months the books may be closed through
  Total,        \* ArInvoice.total
  Horizon,      \* bound: the last month
  MaxJournals,  \* bound: entries of the journal
  MaxStops      \* bound: requests that stop

AllTasks == {"enter", "approve", "void", "reverse", "load", "arm", "pay", "close",
             "stop"}
EntryKinds == [status : {"PENDING_APPROVAL", "POSTED"}, settles : BOOLEAN, accrual : BOOLEAN]

ASSUME BooksAssumption ==
  /\ Tasks \in [Requests -> SUBSET AllTasks]
  /\ Entries \subseteq EntryKinds
  /\ Separate \in BOOLEAN /\ AutoReverse \in BOOLEAN
  /\ CloseDates \subseteq 0 .. Horizon
  /\ Amounts \subseteq Nat \ {0} /\ Total \in Nat \ {0}
  /\ Horizon \in Nat \ {0} /\ MaxJournals \in Nat /\ MaxStops \in Nat

VARIABLES
  today,    \* the month
  closed,   \* AccountingSettings.closedThroughDate, 0 when the books are open
  je,       \* the journals, by number
  balance,  \* Account.balance
  template, \* RecurringJournal: is it active, when does it run next?
  invoice,  \* ArInvoice: amountPaid, status
  receipts, \* ArPayment: their sum, and the journals that made some
  stops,    \* requests that stopped so far
  call      \* [Requests -> what a running request has read]

vars == <<today, closed, je, balance, template, invoice, receipts, stops, call>>
ledger == <<je, balance>>
receivable == <<invoice, receipts>>

Months == 1 .. Horizon
Sources == {"MANUAL", "RECURRING", "REVERSAL", "AR", "AR_SETTLE"}
\* reverses is 0 for none, reverseOn is 0 for never.
Journals == [status : {"PENDING_APPROVAL", "POSTED", "VOID"}, date : Months, amt : Int,
             source : Sources, reverses : Nat, reverseOn : 0 .. Horizon + 1]

Draft(status, date, amt, source) ==
  [status |-> status, date |-> date, amt |-> amt, source |-> source,
   reverses |-> 0, reverseOn |-> 0]
NoDraft == Draft("POSTED", 1, 0, "MANUAL")

Ops == {"idle", "number", "create", "apply", "approve", "unapply", "void",
        "settle", "receipt", "invoice", "due", "reverse", "rearm"}
Idle == [op |-> "idle", draft |-> NoDraft, on |-> 0, at |-> 1, todo |-> {}, paid |-> 0]

Calls == [op : Ops, draft : Journals, on : Nat, at : 1 .. Horizon + 1, todo : SUBSET Nat,
          paid : 0 .. Total]

TypeOK ==
  /\ today \in Months
  /\ closed \in 0 .. Horizon
  /\ je \in Seq(Journals)
  /\ balance \in Int
  /\ template \in [active : BOOLEAN, next : 1 .. Horizon + 1]
  /\ invoice \in [paid : 0 .. Total, status : {"OPEN", "PARTIAL", "PAID"}]
  /\ receipts \in [sum : Nat, from : SUBSET Nat]
  /\ stops \in 0 .. MaxStops
  /\ call \in [Requests -> Calls]

Init ==
  /\ today = 1 /\ closed = 0
  /\ je = <<>> /\ balance = 0
  /\ template = [active |-> TRUE, next |-> 1]
  /\ invoice = [paid |-> 0, status |-> "OPEN"]
  /\ receipts = [sum |-> 0, from |-> {}]
  /\ stops = 0
  /\ call = [r \in Requests |-> Idle]

\* What a request works on, from the statement that reads it to the one that writes it.
Holds(k) ==
  {x \in {<<"journal", k.on>>, <<"journal", k.draft.reverses>>, <<"template", 0>>,
          <<"invoice", 0>>, <<"close", 0>>} :
     \/ x = <<"journal", k.on>> /\ k.op \in {"apply", "approve", "unapply", "void"}
     \/ x = <<"journal", k.draft.reverses>> /\ k.op \in {"number", "create"}
     \/ x[1] = "template" /\ (k.op \in {"due", "rearm"} \/ k.draft.source = "RECURRING")
     \/ x[1] = "invoice" /\ k.op \in {"receipt", "invoice"}
     \/ x[1] = "close" /\ k.op \in {"create", "approve", "unapply", "void"}}
Free(r, x) == Separate => \A q \in Requests \ {r} : x \notin Holds(call[q])

Ready(r, task) == call[r].op = "idle" /\ task \in Tasks[r]
Room == Len(je) < MaxJournals
Go(r, k) == call' = [call EXCEPT ![r] = k]

-----------------------------------------------------------------------------
(* Posting                                                                 *)

\* assertPeriodOpen.  (Mutant: the comparison is strict.)
OpenAfterStart(date) == ~(date < closed)
Open(date) == ~(date <= closed)

\* When the template runs again after month at.  (Mutant: in that month.)
NextRunSame(at) == at
NextRun(at) == at + 1

\* What a request does after a journal is posted or refused: a page load goes on.
After(k) ==
  CASE k.draft.source = "RECURRING" -> [Idle EXCEPT !.op = "due", !.at = NextRun(k.at)]
    [] k.draft.source = "REVERSAL" /\ k.todo # {} -> [Idle EXCEPT !.op = "reverse", !.todo = k.todo]
    [] OTHER -> Idle

\* postJournal counts the journals for the next number and looks at the close date.
Number(r) ==
  LET k == call[r] IN
  /\ k.op = "number" /\ Room
  /\ IF k.draft.status = "POSTED" /\ ~Open(k.draft.date)
       THEN Go(r, After(k))
       ELSE Go(r, [k EXCEPT !.op = "create", !.on = Len(je)])
  /\ UNCHANGED <<today, closed, ledger, template, receivable, stops>>

\* Numbers are unique: a second journal of the same number is refused.
Create(r) ==
  LET k == call[r] IN
  /\ k.op = "create"
  /\ IF k.on # Len(je) THEN je' = je /\ Go(r, After(k))
     ELSE /\ je' = Append(je, k.draft)
          /\ IF k.draft.status = "POSTED"
               THEN Go(r, [k EXCEPT !.op = "apply", !.on = Len(je) + 1])
               ELSE Go(r, After(k))
  /\ UNCHANGED <<today, closed, balance, template, receivable, stops>>

\* applyJournalBalances.
Apply(r) ==
  LET k == call[r] IN
  /\ k.op = "apply"
  /\ balance' = balance + je[k.on].amt
  /\ Go(r, IF je[k.on].source = "AR_SETTLE" THEN [k EXCEPT !.op = "settle"] ELSE After(k))
  /\ UNCHANGED <<today, closed, je, template, receivable, stops>>

\* actionPostJournal and createExpenseEntry.  An entry may settle the invoice.
Enter(r, a, e) ==
  LET d == Draft(e.status, today, IF e.settles THEN -a ELSE a,
                 IF e.settles THEN "AR_SETTLE" ELSE "MANUAL") IN
  /\ Ready(r, "enter") /\ Room
  /\ Go(r, [Idle EXCEPT !.op = "number",
              !.draft = [d EXCEPT !.reverseOn = IF e.accrual THEN today + 1 ELSE 0]])
  /\ UNCHANGED <<today, closed, ledger, template, receivable, stops>>

\* approveJournal reads the entry, writes it and applies it.
ReadApprove(r, j) ==
  /\ Ready(r, "approve")
  /\ Free(r, <<"journal", j>>)
  /\ je[j].status = "PENDING_APPROVAL" /\ Open(je[j].date)
  /\ Go(r, [Idle EXCEPT !.op = "approve", !.on = j])
  /\ UNCHANGED <<today, closed, ledger, template, receivable, stops>>

WriteApprove(r) ==
  LET k == call[r] IN
  /\ k.op = "approve"
  /\ je' = [je EXCEPT ![k.on].status = "POSTED"]
  /\ Go(r, [k EXCEPT !.op = "apply"])
  /\ UNCHANGED <<today, closed, balance, template, receivable, stops>>

\* voidJournal takes a posted entry out of the balance first.  (Mutant: any entry.)
VoidAlways(j) == "unapply"
VoidFrom(j) == IF je[j].status = "POSTED" THEN "unapply" ELSE "void"
ReadVoid(r, j) ==
  /\ Ready(r, "void")
  /\ Free(r, <<"journal", j>>)
  /\ je[j].status # "VOID" /\ Open(je[j].date)
  /\ Go(r, [Idle EXCEPT !.op = VoidFrom(j), !.on = j])
  /\ UNCHANGED <<today, closed, ledger, template, receivable, stops>>

Unapply(r) ==
  LET k == call[r] IN
  /\ k.op = "unapply"
  /\ balance' = balance - je[k.on].amt
  /\ Go(r, [k EXCEPT !.op = "void"])
  /\ UNCHANGED <<today, closed, je, template, receivable, stops>>

WriteVoid(r) ==
  /\ call[r].op = "void"
  /\ je' = [je EXCEPT ![call[r].on].status = "VOID"]
  /\ Go(r, Idle)
  /\ UNCHANGED <<today, closed, balance, template, receivable, stops>>

\* setAccountingCloseDate: the books are closed through any month, or reopened.
SetClose(r, m) ==
  /\ Ready(r, "close") /\ Free(r, <<"close", 0>>)
  /\ closed' = m
  /\ UNCHANGED <<today, ledger, template, receivable, stops, call>>

-----------------------------------------------------------------------------
(* What every load of the accounting page posts                            *)

Mirror(j, date) ==
  [Draft("POSTED", date, -je[j].amt, "REVERSAL") EXCEPT !.reverses = j]

\* Reversals of j that count.  (Mutant: only those of the same date do.)
LiveSameDay(j, date) ==
  {i \in DOMAIN je : je[i].reverses = j /\ je[i].status # "VOID" /\ je[i].date = date}
Live(j, date) == {i \in DOMAIN je : je[i].reverses = j /\ je[i].status # "VOID"}
Reversible(j, date) == je[j].status = "POSTED" /\ Live(j, date) = {}

\* reverseJournalEntry, by hand.
ReverseEntry(r, j) ==
  /\ Ready(r, "reverse") /\ Room
  /\ Free(r, <<"journal", j>>)
  /\ Reversible(j, today)
  /\ Go(r, [Idle EXCEPT !.op = "number", !.draft = Mirror(j, today)])
  /\ UNCHANGED <<today, closed, ledger, template, receivable, stops>>

\* runDueAutoReversals lists the accruals that are due.  (Mutant: an entry without a date
\* is taken for due.)
DueOrUndated(j) == je[j].reverseOn <= today
Due(j) == je[j].reverseOn \in 1 .. today
Listed ==
  LET due == {j \in DOMAIN je : je[j].status = "POSTED" /\ Due(j)}
  IN  IF due = {} THEN Idle ELSE [Idle EXCEPT !.op = "reverse", !.todo = due]

LoadPage(r) ==
  /\ Ready(r, "load")
  /\ Free(r, <<"template", 0>>)
  /\ Go(r, IF template.active /\ template.next <= today
             THEN [Idle EXCEPT !.op = "due", !.at = template.next] ELSE Listed)
  /\ UNCHANGED <<today, closed, ledger, template, receivable, stops>>

\* runDueRecurringJournals posts one entry for each month due, then moves the template on.
PostDue(r) ==
  LET k == call[r]
      d == Draft("POSTED", k.at, 1, "RECURRING") IN
  /\ k.op = "due" /\ k.at <= today
  /\ Go(r, [k EXCEPT !.op = "number",
              !.draft = [d EXCEPT !.reverseOn = IF AutoReverse THEN k.at + 1 ELSE 0]])
  /\ UNCHANGED <<today, closed, ledger, template, receivable, stops>>

Advance(r) ==
  LET k == call[r] IN
  /\ k.op = "due" /\ k.at > today
  /\ template' = [template EXCEPT !.next = k.at]
  /\ Go(r, Listed)
  /\ UNCHANGED <<today, closed, ledger, receivable, stops>>

\* It reverses them one after the other.
ReverseDue(r, j) ==
  LET left == call[r].todo \ {j} IN
  /\ call[r].op = "reverse" /\ j \in call[r].todo
  /\ Free(r, <<"journal", j>>)
  /\ Go(r, IF Reversible(j, je[j].reverseOn)
             THEN [Idle EXCEPT !.op = "number", !.todo = left,
                               !.draft = Mirror(j, je[j].reverseOn)]
           ELSE IF left = {} THEN Idle
           ELSE [Idle EXCEPT !.op = "reverse", !.todo = left])
  /\ UNCHANGED <<today, closed, ledger, template, receivable, stops>>

\* setRecurringJournalActive: arming takes two writes.
Disarm(r) ==
  /\ Ready(r, "arm") /\ Free(r, <<"template", 0>>)
  /\ template' = [template EXCEPT !.active = FALSE]
  /\ UNCHANGED <<today, closed, ledger, receivable, stops, call>>

Arm(r) ==
  /\ Ready(r, "arm")
  /\ Free(r, <<"template", 0>>)
  /\ template' = [template EXCEPT !.active = TRUE]
  /\ Go(r, [Idle EXCEPT !.op = "rearm"])
  /\ UNCHANGED <<today, closed, ledger, receivable, stops>>

Rearm(r) ==
  /\ call[r].op = "rearm"
  /\ template' = [template EXCEPT !.next = NextRun(today)]
  /\ Go(r, Idle)
  /\ UNCHANGED <<today, closed, ledger, receivable, stops>>

-----------------------------------------------------------------------------
(* Receipts of the invoice                                                 *)

Lesser(a, b) == IF a < b THEN a ELSE b

\* The new amountPaid.  (Mutant: the first receipt is taken for the whole.)
NewPaidWhole(a) == Total
NewPaid(a) == Lesser(Total, invoice.paid + a)

\* recordArPayment: the receipt, the invoice, then a journal.
ReadPayment(r, a) ==
  /\ Ready(r, "pay") /\ Room
  /\ Free(r, <<"invoice", 0>>)
  /\ invoice.status # "PAID"
  /\ Go(r, [Idle EXCEPT !.op = "receipt", !.paid = NewPaid(a), !.at = 1,
                           !.draft = Draft("POSTED", today, -a, "AR")])
  /\ UNCHANGED <<today, closed, ledger, template, receivable, stops>>

\* applyArSettlementFromJournal, once per journal number.
ReadSettlement(r) ==
  LET k == call[r]
      a == -je[k.on].amt IN
  /\ k.op = "settle" /\ Free(r, <<"invoice", 0>>)
  /\ Go(r, IF invoice.status = "PAID" \/ k.on \in receipts.from THEN After(k)
           ELSE [k EXCEPT !.op = "receipt", !.paid = NewPaid(a),
                   !.draft = Draft("POSTED", 1, -Lesser(a, Total - invoice.paid), "AR_SETTLE")])
  /\ UNCHANGED <<today, closed, ledger, template, receivable, stops>>

WriteReceipt(r) ==
  LET k == call[r] IN
  /\ k.op = "receipt"
  /\ receipts' = [sum |-> receipts.sum - k.draft.amt,
                  from |-> receipts.from \cup (IF k.draft.source = "AR" THEN {} ELSE {k.on})]
  /\ Go(r, [k EXCEPT !.op = "invoice"])
  /\ UNCHANGED <<today, closed, ledger, template, invoice, stops>>

WriteInvoice(r) ==
  LET k == call[r] IN
  /\ k.op = "invoice"
  /\ invoice' = [paid |-> k.paid, status |-> IF k.paid = Total THEN "PAID" ELSE "PARTIAL"]
  /\ Go(r, IF k.draft.source = "AR" THEN [k EXCEPT !.op = "number"] ELSE After(k))
  /\ UNCHANGED <<today, closed, ledger, template, receipts, stops>>

-----------------------------------------------------------------------------

Stop(r) ==
  /\ "stop" \in Tasks[r] /\ call[r].op # "idle" /\ stops < MaxStops
  /\ stops' = stops + 1
  /\ Go(r, Idle)
  /\ UNCHANGED <<today, closed, ledger, template, receivable>>

NextMonth ==
  /\ today < Horizon /\ today' = today + 1
  /\ UNCHANGED <<closed, ledger, template, receivable, stops, call>>

Next ==
  \/ NextMonth
  \/ \E r \in Requests :
       \/ Number(r) \/ Create(r) \/ Apply(r) \/ WriteApprove(r) \/ Unapply(r) \/ WriteVoid(r)
       \/ LoadPage(r) \/ PostDue(r) \/ Advance(r)
       \/ Disarm(r) \/ Arm(r) \/ Rearm(r)
       \/ ReadSettlement(r) \/ WriteReceipt(r) \/ WriteInvoice(r) \/ Stop(r)
       \/ \E m \in CloseDates : SetClose(r, m)
       \/ \E a \in Amounts : ReadPayment(r, a)
       \/ \E a \in Amounts, e \in Entries : Enter(r, a, e)
       \/ \E j \in DOMAIN je :
            ReadApprove(r, j) \/ ReadVoid(r, j) \/ ReverseEntry(r, j) \/ ReverseDue(r, j)

Spec == Init /\ [][Next]_vars

-----------------------------------------------------------------------------
(* Properties                                                              *)

\* The sum of the posted entries among the first n.
Posted[n \in Nat] ==
  IF n = 0 THEN 0
  ELSE Posted[n - 1] + (IF je[n].status = "POSTED" THEN je[n].amt ELSE 0)

\* The stored balance of an account, which the reports show, is the sum of its posted
\* entries whenever no request is under way and none ever stopped half-way, though
\* requests on different entries increment it at the same time.
BalanceFollowsJournals ==
  stops = 0 /\ (\A r \in Requests : call[r].op = "idle") => balance = Posted[Len(je)]

\* "Journals dated on or before this date are locked until the period is reopened": while
\* the close date stays, no step makes a closed month gain or lose a posted entry.
Locked == {j \in DOMAIN je : je[j].date <= closed /\ je[j].status = "POSTED"}
ClosedBooksStay == [][closed' = closed => Locked' = Locked]_vars

\* "Refuses to reverse twice": an entry has at most one live reversal, made by hand or by
\* a page load, whichever order they come in and wherever a request stops.
ReversedOnce == \A i, j \in DOMAIN je :
  je[i].reverses # 0 /\ je[i].reverses = je[j].reverses
    /\ je[i].status # "VOID" /\ je[j].status # "VOID" => i = j

\* "Safe to call on every accounting page load": the template posts each month once, and
\* once more at most for each page load that stopped before it moved the template on.
DuePostedOnce == \A m \in Months :
  Cardinality({j \in DOMAIN je : je[j].source = "RECURRING" /\ je[j].date = m}) <= 1 + stops

\* An invoice shown as paid has been paid in full, whatever overlaps or stops.
PaidInFull == invoice.status = "PAID" => receipts.sum >= Total
================================================================================
