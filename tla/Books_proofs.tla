----------------------------- MODULE Books_proofs -----------------------------
(***************************************************************************)
(* Theorems about Books, for every number of requests, of journals and of  *)
(* months: types, invoices that are paid in full, and, when requests work  *)
(* on different things, entries reversed once and closed months that stay. *)
(***************************************************************************)
EXTENDS Books, FiniteSetTheorems, TLAPS

-----------------------------------------------------------------------------
(* Journals and calls                                                      *)

Statuses == {"PENDING_APPROVAL", "POSTED", "VOID"}

\* All that is never rewritten of an entry.
SameEntry(d, e) ==
  /\ d.date = e.date /\ d.amt = e.amt /\ d.source = e.source
  /\ d.reverses = e.reverses /\ d.reverseOn = e.reverseOn

LEMMA StatusWrite ==
  ASSUME NEW s \in Seq(Journals), NEW i \in 1 .. Len(s), NEW v \in Statuses
  PROVE  /\ [s EXCEPT ![i].status = v] \in Seq(Journals)
         /\ Len([s EXCEPT ![i].status = v]) = Len(s)
         /\ \A j \in 1 .. Len(s) : /\ SameEntry([s EXCEPT ![i].status = v][j], s[j])
                                   /\ [s EXCEPT ![i].status = v][j].status = IF j = i THEN v ELSE s[j].status
<1>1. s[i] \in Journals
  OBVIOUS
<1>2. [s[i] EXCEPT !.status = v] \in Journals
  BY <1>1 DEF Journals, Statuses
<1>3. /\ SameEntry([s[i] EXCEPT !.status = v], s[i])
      /\ [s[i] EXCEPT !.status = v].status = v
  BY <1>1 DEF Journals, SameEntry
<1>4. [s EXCEPT ![i].status = v] = [s EXCEPT ![i] = [s[i] EXCEPT !.status = v]]
  OBVIOUS
<1>5. [s EXCEPT ![i] = [s[i] EXCEPT !.status = v]] \in Seq(Journals)
  BY <1>2
<1>6. \A j \in 1 .. Len(s) : [s EXCEPT ![i] = [s[i] EXCEPT !.status = v]][j]
                               = IF j = i THEN [s[i] EXCEPT !.status = v] ELSE s[j]
  OBVIOUS
<1> QED BY <1>3, <1>4, <1>5, <1>6 DEF SameEntry

LEMMA Appended ==
  ASSUME NEW s \in Seq(Journals), NEW d \in Journals
  PROVE  /\ Append(s, d) \in Seq(Journals)
         /\ Len(Append(s, d)) = Len(s) + 1
         /\ Append(s, d)[Len(s) + 1] = d
         /\ \A j \in 1 .. Len(s) : Append(s, d)[j] = s[j]
OBVIOUS

LEMMA DraftTypes ==
  ASSUME NEW v \in Statuses, NEW m \in Months, NEW a \in Int, NEW s \in Sources, NEW n \in Nat,
         NEW o \in 0 .. Horizon + 1
  PROVE  /\ Draft(v, m, a, s) \in Journals
         /\ [Draft(v, m, a, s) EXCEPT !.reverses = n] \in Journals
         /\ [Draft(v, m, a, s) EXCEPT !.reverseOn = o] \in Journals
         /\ Draft(v, m, a, s).source = s /\ Draft(v, m, a, s).amt = a
         /\ Draft(v, m, a, s).date = m /\ Draft(v, m, a, s).status = v
         /\ Draft(v, m, a, s).reverses = 0
BY BooksAssumption DEF Draft, Journals, Statuses

LEMMA IdleTypes ==
  /\ NoDraft \in Journals /\ Idle \in Calls
  /\ NoDraft.source = "MANUAL" /\ NoDraft.reverses = 0
  /\ Idle.op = "idle" /\ Idle.draft = NoDraft /\ Idle.on = 0 /\ Idle.at = 1
  /\ Idle.todo = {} /\ Idle.paid = 0
<1>1. NoDraft \in Journals /\ NoDraft.source = "MANUAL" /\ NoDraft.reverses = 0
  BY BooksAssumption DEF NoDraft, Draft, Journals, Months, Sources
<1> QED BY <1>1, BooksAssumption DEF Idle, Calls, Ops

LEMMA CallTypes ==
  ASSUME NEW k \in Calls
  PROVE  /\ k.op \in Ops /\ k.draft \in Journals /\ k.on \in Nat /\ k.at \in 1 .. Horizon + 1
         /\ k.todo \in SUBSET Nat /\ k.paid \in 0 .. Total
         /\ k.draft.status \in Statuses /\ k.draft.date \in Months /\ k.draft.amt \in Int
         /\ k.draft.source \in Sources /\ k.draft.reverses \in Nat
         /\ k.draft.reverseOn \in 0 .. Horizon + 1
BY DEF Calls, Journals, Statuses

LEMMA AfterTypes ==
  ASSUME NEW k \in Calls, k.draft.source = "RECURRING" => k.at <= Horizon
  PROVE  /\ After(k) \in Calls
         /\ After(k).op \in {"idle", "due", "reverse"}
         /\ After(k).draft = NoDraft /\ After(k).on = 0
         /\ After(k).todo = {} \/ After(k).todo = k.todo
<1>1. CASE k.draft.source = "RECURRING"
  <2>1. After(k) = [Idle EXCEPT !.op = "due", !.at = k.at + 1]
    BY <1>1 DEF After, NextRun
  <2>2. k.at + 1 \in 1 .. Horizon + 1
    BY <1>1, CallTypes, BooksAssumption
  <2> QED BY <2>1, <2>2, IdleTypes DEF Calls, Ops
<1>2. CASE k.draft.source # "RECURRING" /\ k.draft.source = "REVERSAL" /\ k.todo # {}
  <2>1. After(k) = [Idle EXCEPT !.op = "reverse", !.todo = k.todo]
    BY <1>2 DEF After
  <2> QED BY <2>1, IdleTypes, CallTypes DEF Calls, Ops
<1>3. CASE k.draft.source # "RECURRING" /\ ~(k.draft.source = "REVERSAL" /\ k.todo # {})
  <2>1. After(k) = Idle
    BY <1>3 DEF After
  <2> QED BY <2>1, IdleTypes
<1> QED BY <1>1, <1>2, <1>3

-----------------------------------------------------------------------------
(* Types, and invoices paid in full                                        *)

Grows(s, t) == Len(s) <= Len(t) /\ \A j \in 1 .. Len(s) : SameEntry(t[j], s[j])

\* What a request carries fits the journals s and the sum n of the receipts: the entries
\* it names exist, a settlement never takes money back, and the amount it is about to
\* write on the invoice has been received.
Sane(k, s, n) ==
  /\ k.op \in {"apply", "approve", "unapply", "void", "settle"} => k.on \in 1 .. Len(s)
  /\ k.op = "settle" => s[k.on].source = "AR_SETTLE"
  /\ k.op \in {"number", "create"} /\ k.draft.source = "AR_SETTLE" => k.draft.amt <= 0
  /\ k.draft.reverses \in {0} \cup 1 .. Len(s)
  /\ k.op = "receipt" => k.draft.amt <= 0 /\ k.paid + k.draft.amt <= n
  /\ k.op = "invoice" => k.paid <= n
  /\ k.draft.source = "RECURRING" => k.at <= Horizon
  /\ \A j \in k.todo : j \in 1 .. Len(s) /\ s[j].reverseOn \in Months

SettlesPay(s) == \A j \in 1 .. Len(s) : s[j].source = "AR_SETTLE" => s[j].amt <= 0
Backed(i, n) == i.paid <= n /\ (i.status = "PAID" => i.paid = Total)

WorldTypes ==
  /\ today \in Months
  /\ closed \in 0 .. Horizon
  /\ je \in Seq(Journals)
  /\ balance \in Int
  /\ template \in [active : BOOLEAN, next : 1 .. Horizon + 1]
  /\ invoice \in [paid : 0 .. Total, status : {"OPEN", "PARTIAL", "PAID"}]
  /\ receipts \in [sum : Nat, from : SUBSET Nat]
  /\ stops \in 0 .. MaxStops
World == WorldTypes /\ SettlesPay(je) /\ Backed(invoice, receipts.sum)

IInv ==
  /\ World
  /\ call \in [Requests -> Calls]
  /\ \A r \in Requests : Sane(call[r], je, receipts.sum)

LEMMA SaneKept ==
  ASSUME NEW s \in Seq(Journals), NEW t \in Seq(Journals), NEW n \in Nat, NEW m \in Nat,
         Grows(s, t), n <= m, NEW k \in Calls, Sane(k, s, n)
  PROVE  Sane(k, t, m)
<1>1. \A j \in 1 .. Len(s) : /\ j \in 1 .. Len(t) /\ t[j].source = s[j].source
                             /\ t[j].reverseOn = s[j].reverseOn
  BY DEF Grows, SameEntry
<1>2. /\ k.op \in {"apply", "approve", "unapply", "void", "settle"} => k.on \in 1 .. Len(t)
      /\ k.op = "settle" => t[k.on].source = "AR_SETTLE"
  BY <1>1 DEF Sane
<1>3. k.draft.reverses \in {0} \cup 1 .. Len(t)
  BY <1>1 DEF Sane
<1>4. \A j \in k.todo : j \in 1 .. Len(t) /\ t[j].reverseOn \in Months
  BY <1>1 DEF Sane
<1>5. /\ k.op = "receipt" => k.draft.amt <= 0 /\ k.paid + k.draft.amt <= m
      /\ k.op = "invoice" => k.paid <= m
  BY CallTypes DEF Sane
<1> QED BY <1>2, <1>3, <1>4, <1>5 DEF Sane

LEMMA SaneAfter ==
  ASSUME NEW k \in Calls, NEW s, NEW n \in Nat, Sane(k, s, n)
  PROVE  After(k) \in Calls /\ Sane(After(k), s, n)
<1>1. k.draft.source = "RECURRING" => k.at <= Horizon
  BY DEF Sane
<1> QED BY <1>1, AfterTypes, IdleTypes DEF Sane

LEMMA SaneIdle ==
  ASSUME NEW s
  PROVE  \A n : Sane(Idle, s, n)
BY IdleTypes DEF Sane

\* A step of r that leaves it with k, and the journals and receipts only larger.
LEMMA Stepped ==
  ASSUME IInv, NEW r \in Requests, NEW k, World', Grows(je, je'), receipts.sum <= receipts'.sum,
         Go(r, k), k \in Calls, Sane(k, je', receipts'.sum)
  PROVE  IInv'
<1>1. /\ je \in Seq(Journals) /\ je' \in Seq(Journals)
      /\ receipts.sum \in Nat /\ receipts'.sum \in Nat
  BY DEF IInv, World, WorldTypes
<1>2. \A q \in Requests : call[q] \in Calls /\ Sane(call[q], je, receipts.sum)
  BY DEF IInv
<1>3. \A q \in Requests : Sane(call[q], je', receipts'.sum)
  BY <1>1, <1>2, SaneKept
<1>4. call' \in [Requests -> Calls] /\ \A q \in Requests : call'[q] = IF q = r THEN k ELSE call[q]
  BY DEF Go, IInv
<1> QED BY <1>3, <1>4 DEF IInv

LEMMA GrowsRefl ==
  ASSUME NEW s \in Seq(Journals)
  PROVE  Grows(s, s)
BY DEF Grows, SameEntry

\* A step of r that writes neither journals, nor receipts, nor the invoice.
LEMMA Asked ==
  ASSUME IInv, NEW r \in Requests, NEW k, Go(r, k), k \in Calls, Sane(k, je, receipts.sum),
         UNCHANGED <<je, receipts, invoice>>, WorldTypes'
  PROVE  IInv'
<1>1. World' /\ Grows(je, je') /\ receipts.sum <= receipts'.sum
  BY GrowsRefl DEF IInv, World, WorldTypes
<1> QED BY <1>1, Stepped

LEMMA Facts ==
  ASSUME IInv, NEW r \in Requests
  PROVE  /\ call[r] \in Calls /\ Sane(call[r], je, receipts.sum) /\ WorldTypes
         /\ DOMAIN je = 1 .. Len(je) /\ Len(je) \in Nat /\ receipts.sum \in Nat
         /\ \A j \in DOMAIN je : /\ je[j] \in Journals /\ je[j].amt \in Int
                                 /\ je[j].status \in Statuses /\ je[j].date \in Months
                                 /\ je[j].reverseOn \in 0 .. Horizon + 1 /\ je[j].reverses \in Nat
         /\ today \in Months /\ today \in 1 .. Horizon
<1>1. /\ call[r] \in Calls /\ Sane(call[r], je, receipts.sum) /\ WorldTypes
      /\ receipts.sum \in Nat /\ je \in Seq(Journals) /\ today \in Months
  BY DEF IInv, World, WorldTypes
<1>2. \A d \in Journals : /\ d.amt \in Int /\ d.status \in Statuses /\ d.date \in Months
                          /\ d.reverseOn \in 0 .. Horizon + 1 /\ d.reverses \in Nat
  BY DEF Journals, Statuses
<1>3. DOMAIN je = 1 .. Len(je) /\ Len(je) \in Nat /\ \A j \in DOMAIN je : je[j] \in Journals
  BY <1>1
<1> QED BY <1>1, <1>2, <1>3 DEF Months

LEMMA NumberStep ==
  ASSUME IInv, NEW r \in Requests, Number(r)
  PROVE  IInv'
<1> DEFINE k == call[r]
<1>1. /\ k \in Calls /\ Sane(k, je, receipts.sum) /\ k.op = "number"
      /\ UNCHANGED <<je, receipts, invoice>> /\ WorldTypes' /\ Len(je) \in Nat
  BY Facts DEF Number, ledger, receivable, WorldTypes
<1>2. CASE Go(r, After(k))
  <2>1. After(k) \in Calls /\ Sane(After(k), je, receipts.sum)
    BY <1>1, Facts, SaneAfter
  <2> QED BY <1>1, <1>2, <2>1, Asked
<1>3. CASE Go(r, [k EXCEPT !.op = "create", !.on = Len(je)])
  <2>1. PICK c : c = [k EXCEPT !.op = "create", !.on = Len(je)]
    OBVIOUS
  <2>2. /\ c \in Calls /\ c.op = "create" /\ c.draft = k.draft /\ c.at = k.at
        /\ c.todo = k.todo
    BY <1>1, <2>1 DEF Calls, Ops
  <2>3. Sane(c, je, receipts.sum)
    BY <1>1, <2>2 DEF Sane
  <2> QED BY <1>1, <1>3, <2>1, <2>2, <2>3, Asked
<1> QED BY <1>2, <1>3 DEF Number

LEMMA CreateStep ==
  ASSUME IInv, NEW r \in Requests, Create(r)
  PROVE  IInv'
<1> DEFINE k == call[r]
           n == Len(je) + 1
<1>1. /\ k \in Calls /\ Sane(k, je, receipts.sum) /\ k.op = "create" /\ Len(je) \in Nat
      /\ receipts.sum \in Nat /\ je \in Seq(Journals)
      /\ UNCHANGED <<today, closed, balance, template, receipts, invoice, stops>>
  BY Facts DEF Create, receivable, WorldTypes
<1>2. After(k) \in Calls /\ Sane(After(k), je, receipts.sum)
  BY <1>1, SaneAfter
<1>3. CASE je' = je /\ Go(r, After(k))
  <2>1. WorldTypes'
    BY <1>1, <1>3, Facts DEF WorldTypes
  <2> QED BY <1>1, <1>2, <1>3, <2>1, Asked
<1>4. CASE je' = Append(je, k.draft)
  <2>1. k.draft \in Journals /\ (k.draft.source = "AR_SETTLE" => k.draft.amt <= 0)
    BY <1>1, CallTypes DEF Sane
  <2>2. /\ je' \in Seq(Journals) /\ Len(je') = n /\ je'[n] = k.draft
        /\ \A j \in 1 .. Len(je) : je'[j] = je[j]
    BY <1>1, <1>4, <2>1, Appended
  <2>3. Grows(je, je') /\ receipts.sum <= receipts'.sum
    BY <1>1, <2>2 DEF Grows, SameEntry
  <2>4. World'
    <3>1. \A j \in 1 .. Len(je') : j = n \/ j \in 1 .. Len(je)
      BY <1>1, <2>2
    <3>2. SettlesPay(je')
      BY <2>1, <2>2, <3>1 DEF SettlesPay, IInv, World
    <3> QED BY <1>1, <2>2, <3>2, Facts DEF World, WorldTypes, IInv
  <2>5. CASE Go(r, After(k))
    <3>1. Sane(After(k), je', receipts'.sum)
      BY <1>1, <1>2, <2>2, <2>3, SaneKept
    <3> QED BY <1>2, <2>3, <2>4, <2>5, <3>1, Stepped
  <2>6. CASE Go(r, [k EXCEPT !.op = "apply", !.on = n])
    <3>1. n \in Nat /\ n \in 1 .. Len(je')
      BY <1>1, <2>2
    <3>2. PICK c : c = [k EXCEPT !.op = "apply", !.on = n]
      OBVIOUS
    <3>3. /\ c \in Calls /\ c.op = "apply" /\ c.on = n /\ c.draft = k.draft
          /\ c.at = k.at /\ c.todo = k.todo
      BY <1>1, <3>1, <3>2 DEF Calls, Ops
    <3>4. Sane(k, je', receipts'.sum)
      BY <1>1, <2>2, <2>3, SaneKept
    <3>5. Sane(c, je', receipts'.sum)
      BY <1>1, <3>1, <3>3, <3>4 DEF Sane
    <3> QED BY <2>3, <2>4, <2>6, <3>2, <3>3, <3>5, Stepped
  <2> QED BY <1>1, <1>4, <2>5, <2>6 DEF Create
<1> QED BY <1>3, <1>4 DEF Create

LEMMA ApplyStep ==
  ASSUME IInv, NEW r \in Requests, Apply(r)
  PROVE  IInv'
<1> DEFINE k == call[r]
<1>1. /\ k \in Calls /\ Sane(k, je, receipts.sum) /\ k.op = "apply" /\ receipts.sum \in Nat
      /\ UNCHANGED <<today, closed, je, template, receipts, invoice, stops>>
  BY Facts DEF Apply, receivable
<1>2. k.on \in 1 .. Len(je) /\ je[k.on].amt \in Int
  BY <1>1, Facts DEF Sane
<1>3. WorldTypes'
  BY <1>1, <1>2, Facts DEF Apply, WorldTypes
<1>4. CASE je[k.on].source = "AR_SETTLE"
  <2>1. Go(r, [k EXCEPT !.op = "settle"])
    BY <1>4 DEF Apply
  <2>2. PICK c : c = [k EXCEPT !.op = "settle"]
    OBVIOUS
  <2>3. /\ c \in Calls /\ c.op = "settle" /\ c.on = k.on /\ c.draft = k.draft
        /\ c.at = k.at /\ c.todo = k.todo
    BY <1>1, <2>2 DEF Calls, Ops
  <2>4. Sane(c, je, receipts.sum)
    BY <1>1, <1>4, <2>3 DEF Sane
  <2> QED BY <1>1, <1>3, <2>1, <2>2, <2>3, <2>4, Asked
<1>5. CASE je[k.on].source # "AR_SETTLE"
  <2>1. Go(r, After(k))
    BY <1>5 DEF Apply
  <2>2. After(k) \in Calls /\ Sane(After(k), je, receipts.sum)
    BY <1>1, SaneAfter
  <2> QED BY <1>1, <1>3, <2>1, <2>2, Asked
<1> QED BY <1>4, <1>5

\* The status of an entry is written.
LEMMA StatusStep ==
  ASSUME IInv, NEW i \in 1 .. Len(je), NEW v \in Statuses, je' = [je EXCEPT ![i].status = v],
         UNCHANGED <<today, closed, balance, template, receivable, stops>>
  PROVE  /\ World' /\ Grows(je, je') /\ receipts.sum <= receipts'.sum
         /\ Len(je') = Len(je)
<1>1. je \in Seq(Journals) /\ receipts.sum \in Nat /\ receipts' = receipts /\ invoice' = invoice
  BY DEF IInv, World, WorldTypes, receivable
<1>2. /\ je' \in Seq(Journals) /\ Len(je') = Len(je) /\ Len(je) \in Nat
      /\ \A j \in 1 .. Len(je) : SameEntry(je'[j], je[j])
  BY <1>1, StatusWrite
<1>3. SettlesPay(je')
  BY <1>2 DEF SettlesPay, SameEntry, IInv, World
<1>4. WorldTypes'
  BY <1>1, <1>2 DEF IInv, World, WorldTypes
<1>5. Backed(invoice', receipts'.sum)
  BY <1>1 DEF IInv, World
<1>6. Grows(je, je') /\ receipts.sum <= receipts'.sum
  BY <1>1, <1>2 DEF Grows
<1> QED BY <1>2, <1>3, <1>4, <1>5, <1>6 DEF World

LEMMA WriteApproveStep ==
  ASSUME IInv, NEW r \in Requests, WriteApprove(r)
  PROVE  IInv'
<1> DEFINE k == call[r]
<1>1. /\ k \in Calls /\ Sane(k, je, receipts.sum) /\ k.op = "approve"
      /\ k.on \in 1 .. Len(je) /\ je \in Seq(Journals) /\ receipts.sum \in Nat
  BY Facts DEF WriteApprove, Sane, WorldTypes
<1>2. /\ World' /\ Grows(je, je') /\ receipts.sum <= receipts'.sum
      /\ Len(je') = Len(je) /\ je' \in Seq(Journals) /\ receipts' = receipts
  BY <1>1, StatusStep DEF WriteApprove, Statuses, World, WorldTypes, receivable
<1>3. PICK c : c = [k EXCEPT !.op = "apply"]
  OBVIOUS
<1>4. /\ c \in Calls /\ c.op = "apply" /\ c.on = k.on /\ c.draft = k.draft
      /\ c.at = k.at /\ c.todo = k.todo
  BY <1>1, <1>3 DEF Calls, Ops
<1>5. Sane(k, je', receipts'.sum)
  BY <1>1, <1>2, SaneKept
<1>6. Sane(c, je', receipts'.sum)
  BY <1>1, <1>2, <1>4, <1>5 DEF Sane
<1>7. Go(r, c)
  BY <1>3 DEF WriteApprove
<1> QED BY <1>2, <1>4, <1>6, <1>7, Stepped

LEMMA WriteVoidStep ==
  ASSUME IInv, NEW r \in Requests, WriteVoid(r)
  PROVE  IInv'
<1>1. call[r].on \in 1 .. Len(je)
  BY Facts DEF WriteVoid, Sane
<1>2. World' /\ Grows(je, je') /\ receipts.sum <= receipts'.sum
  BY <1>1, StatusStep DEF WriteVoid, Statuses
<1>3. Go(r, Idle)
  BY DEF WriteVoid
<1> QED BY <1>2, <1>3, SaneIdle, IdleTypes, Stepped

LEMMA UnapplyStep ==
  ASSUME IInv, NEW r \in Requests, Unapply(r)
  PROVE  IInv'
<1> DEFINE k == call[r]
<1>1. /\ k \in Calls /\ Sane(k, je, receipts.sum) /\ k.op = "unapply" /\ Go(r, [k EXCEPT !.op = "void"])
      /\ UNCHANGED <<today, closed, je, template, receipts, invoice, stops>>
  BY Facts DEF Unapply, receivable
<1>2. WorldTypes'
  <2>1. je[k.on].amt \in Int
    BY <1>1, Facts DEF Sane
  <2> QED BY <1>1, <2>1, Facts DEF Unapply, WorldTypes
<1>3. PICK c : c = [k EXCEPT !.op = "void"]
  OBVIOUS
<1>4. /\ c \in Calls /\ c.op = "void" /\ c.on = k.on /\ c.draft = k.draft
      /\ c.at = k.at /\ c.todo = k.todo
  BY <1>1, <1>3 DEF Calls, Ops
<1>5. Sane(c, je, receipts.sum)
  BY <1>1, <1>4 DEF Sane
<1> QED BY <1>1, <1>2, <1>3, <1>4, <1>5, Asked

\* A request that begins with c on the entry it names.
LEMMA EntryRead ==
  ASSUME IInv, NEW r \in Requests, NEW op \in {"approve", "unapply", "void"}, NEW j \in DOMAIN je,
         Go(r, [Idle EXCEPT !.op = op, !.on = j]),
         UNCHANGED <<today, closed, ledger, template, receivable, stops>>
  PROVE  IInv'
<1>1. /\ UNCHANGED <<je, receipts, invoice>> /\ WorldTypes' /\ j \in 1 .. Len(je) /\ j \in Nat
  BY Facts DEF ledger, receivable, WorldTypes
<1>2. PICK c : c = [Idle EXCEPT !.op = op, !.on = j]
  OBVIOUS
<1>3. /\ c \in Calls /\ c.op = op /\ c.on = j /\ c.draft = NoDraft /\ c.todo = {}
  BY <1>1, <1>2, IdleTypes DEF Calls, Ops
<1>4. Sane(c, je, receipts.sum)
  BY <1>1, <1>3, IdleTypes DEF Sane
<1> QED BY <1>1, <1>2, <1>3, <1>4, Asked

\* A request that is about to number the entry d.
LEMMA Drafted ==
  ASSUME IInv, NEW r \in Requests, NEW d \in Journals, NEW c \in Calls,
         c.op = "number", c.draft = d, Go(r, c),
         d.source = "AR_SETTLE" => d.amt <= 0, d.source = "RECURRING" => c.at <= Horizon,
         d.reverses \in {0} \cup DOMAIN je,
         \A i \in c.todo : i \in DOMAIN je /\ je[i].reverseOn \in Months,
         UNCHANGED <<today, closed, ledger, template, receivable, stops>>
  PROVE  IInv'
<1>1. /\ UNCHANGED <<je, receipts, invoice>> /\ WorldTypes' /\ DOMAIN je = 1 .. Len(je)
  BY Facts DEF ledger, receivable, WorldTypes
<1>2. Sane(c, je, receipts.sum)
  BY <1>1 DEF Sane
<1> QED BY <1>1, <1>2, Asked

\* A step of no request, or one that leaves it where it is.
LEMMA Kept ==
  ASSUME IInv, UNCHANGED <<je, receipts, invoice, call>>, WorldTypes'
  PROVE  IInv'
BY DEF IInv, World

-----------------------------------------------------------------------------
(* The steps that begin a request or carry it on                           *)

LEMMA EnterStep ==
  ASSUME IInv, NEW r \in Requests, NEW a \in Amounts, NEW e \in Entries, Enter(r, a, e)
  PROVE  IInv'
<1> DEFINE m == IF e.settles THEN -a ELSE a
           s == IF e.settles THEN "AR_SETTLE" ELSE "MANUAL"
           o == IF e.accrual THEN today + 1 ELSE 0
<1>0. PICK d : d = [Draft(e.status, today, m, s) EXCEPT !.reverseOn = o]
  OBVIOUS
<1>1. /\ e.status \in Statuses /\ m \in Int /\ s \in Sources /\ (s = "AR_SETTLE" => m <= 0)
      /\ s # "RECURRING"
  BY BooksAssumption DEF EntryKinds, Statuses, Sources
<1>2. today \in Months /\ o \in 0 .. Horizon + 1
  BY Facts, BooksAssumption
<1>3. d \in Journals /\ d.source = s /\ d.amt = m /\ d.reverses = 0
  BY <1>0, <1>1, <1>2, BooksAssumption DEF Draft, Journals, Statuses
<1>4. PICK c : c = [Idle EXCEPT !.op = "number", !.draft = d]
  OBVIOUS
<1>5. c \in Calls /\ c.op = "number" /\ c.draft = d /\ c.todo = {}
  BY <1>3, <1>4, IdleTypes DEF Calls, Ops
<1>6. Go(r, c) /\ UNCHANGED <<today, closed, ledger, template, receivable, stops>>
  BY <1>0, <1>4 DEF Enter
<1>7. (d.source = "AR_SETTLE" => d.amt <= 0) /\ d.source # "RECURRING"
  BY <1>1, <1>3
<1> HIDE DEF m, s, o
<1> QED BY <1>3, <1>5, <1>6, <1>7, Drafted

LEMMA MirrorTypes ==
  ASSUME IInv, NEW j \in DOMAIN je, NEW m \in Months
  PROVE  /\ Mirror(j, m) \in Journals /\ Mirror(j, m).source = "REVERSAL"
         /\ Mirror(j, m).reverses = j /\ Mirror(j, m).status = "POSTED"
         /\ Mirror(j, m).date = m
<1>1. je \in Seq(Journals)
  BY DEF IInv, World, WorldTypes
<1>2. je[j] \in Journals /\ j \in Nat
  BY <1>1
<1>3. je[j].amt \in Int
  BY <1>2 DEF Journals
<1> QED BY <1>2, <1>3, BooksAssumption DEF Mirror, Draft, Journals, Sources

LEMMA ReverseEntryStep ==
  ASSUME IInv, NEW r \in Requests, NEW j \in DOMAIN je, ReverseEntry(r, j)
  PROVE  IInv'
<1>1. today \in Months
  BY Facts
<1>2. PICK c : c = [Idle EXCEPT !.op = "number", !.draft = Mirror(j, today)]
  OBVIOUS
<1>3. c \in Calls /\ c.op = "number" /\ c.draft = Mirror(j, today) /\ c.todo = {}
  BY <1>1, <1>2, MirrorTypes, IdleTypes DEF Calls, Ops
<1>4. Go(r, c) /\ UNCHANGED <<today, closed, ledger, template, receivable, stops>>
  BY <1>2 DEF ReverseEntry
<1> QED BY <1>1, <1>3, <1>4, MirrorTypes, Drafted

LEMMA ListedSane ==
  ASSUME IInv, NEW r \in Requests
  PROVE  Listed \in Calls /\ Sane(Listed, je, receipts.sum) /\ Listed.op \in {"idle", "reverse"}
         /\ Listed.draft = NoDraft
<1> DEFINE due == {j \in DOMAIN je : je[j].status = "POSTED" /\ Due(j)}
<1>1. /\ DOMAIN je = 1 .. Len(je) /\ Len(je) \in Nat /\ today \in 1 .. Horizon
      /\ Horizon \in Nat
  BY Facts, BooksAssumption
<1>2. due \in SUBSET Nat /\ \A j \in due : j \in 1 .. Len(je) /\ je[j].reverseOn \in Months
  BY <1>1 DEF Due, Months
<1>3. CASE due = {}
  BY <1>3, SaneIdle, IdleTypes DEF Listed
<1>4. CASE due # {}
  <2>1. PICK c : c = [Idle EXCEPT !.op = "reverse", !.todo = due]
    OBVIOUS
  <2>2. c \in Calls /\ c.op = "reverse" /\ c.draft = NoDraft /\ c.todo = due
    BY <1>2, <2>1, IdleTypes DEF Calls, Ops
  <2>3. Sane(c, je, receipts.sum)
    BY <1>2, <2>2, IdleTypes DEF Sane
  <2> QED BY <1>4, <2>1, <2>2, <2>3 DEF Listed
<1> QED BY <1>3, <1>4

LEMMA LoadPageStep ==
  ASSUME IInv, NEW r \in Requests, LoadPage(r)
  PROVE  IInv'
<1>1. UNCHANGED <<je, receipts, invoice>> /\ WorldTypes'
  BY Facts DEF LoadPage, ledger, receivable, WorldTypes
<1>2. CASE Go(r, Listed)
  BY <1>1, <1>2, ListedSane, Asked
<1>3. CASE Go(r, [Idle EXCEPT !.op = "due", !.at = template.next])
  <2>1. PICK c : c = [Idle EXCEPT !.op = "due", !.at = template.next]
    OBVIOUS
  <2>2. template.next \in 1 .. Horizon + 1
    BY DEF IInv, World, WorldTypes
  <2>3. c \in Calls /\ c.op = "due" /\ c.draft = NoDraft /\ c.todo = {}
    BY <2>1, <2>2, IdleTypes DEF Calls, Ops
  <2>4. Sane(c, je, receipts.sum)
    BY <2>3, IdleTypes DEF Sane
  <2> QED BY <1>1, <1>3, <2>1, <2>3, <2>4, Asked
<1> QED BY <1>2, <1>3 DEF LoadPage

LEMMA PostDueStep ==
  ASSUME IInv, NEW r \in Requests, PostDue(r)
  PROVE  IInv'
<1> DEFINE k == call[r]
           o == IF AutoReverse THEN k.at + 1 ELSE 0
           d == [Draft("POSTED", k.at, 1, "RECURRING") EXCEPT !.reverseOn = o]
<1>1. /\ k \in Calls /\ Sane(k, je, receipts.sum) /\ k.at \in Months /\ DOMAIN je = 1 .. Len(je)
      /\ o \in 0 .. Horizon + 1 /\ Horizon \in Nat
  BY Facts, CallTypes, BooksAssumption DEF PostDue, Months
<1>2. d \in Journals /\ d.source = "RECURRING" /\ d.amt = 1 /\ d.reverses = 0
  BY <1>1, BooksAssumption DEF Draft, Journals, Sources
<1>3. PICK c : c = [k EXCEPT !.op = "number", !.draft = d]
  OBVIOUS
<1>4. c \in Calls /\ c.op = "number" /\ c.draft = d /\ c.todo = k.todo /\ c.at = k.at
  BY <1>1, <1>2, <1>3 DEF Calls, Ops
<1>5. Go(r, c) /\ UNCHANGED <<today, closed, ledger, template, receivable, stops>>
  BY <1>3 DEF PostDue
<1>6. c.at <= Horizon /\ \A i \in c.todo : i \in DOMAIN je /\ je[i].reverseOn \in Months
  BY <1>1, <1>4 DEF Sane, Months
<1> QED BY <1>2, <1>4, <1>5, <1>6, Drafted

LEMMA ReverseDueStep ==
  ASSUME IInv, NEW r \in Requests, NEW j \in DOMAIN je, ReverseDue(r, j)
  PROVE  IInv'
<1> DEFINE left == call[r].todo \ {j}
           m == je[j].reverseOn
<1>1. /\ call[r] \in Calls /\ left \in SUBSET Nat /\ m \in Months /\ DOMAIN je = 1 .. Len(je)
      /\ \A i \in left : i \in DOMAIN je /\ je[i].reverseOn \in Months
  BY Facts, CallTypes DEF ReverseDue, Sane
<1>2. UNCHANGED <<today, closed, ledger, template, receivable, stops>>
  BY DEF ReverseDue
<1>3. UNCHANGED <<je, receipts, invoice>> /\ WorldTypes'
  BY <1>2, Facts DEF ledger, receivable, WorldTypes
<1>4. CASE Go(r, [Idle EXCEPT !.op = "number", !.todo = left, !.draft = Mirror(j, m)])
  <2>1. PICK d : d = Mirror(j, m)
    OBVIOUS
  <2>2. d \in Journals /\ d.source = "REVERSAL" /\ d.reverses = j
    BY <1>1, <2>1, MirrorTypes
  <2>3. PICK c : c = [Idle EXCEPT !.op = "number", !.todo = left, !.draft = d]
    OBVIOUS
  <2>4. c \in Calls /\ c.op = "number" /\ c.draft = d /\ c.todo = left
    BY <1>1, <2>2, <2>3, IdleTypes DEF Calls, Ops
  <2>5. Go(r, c) /\ \A i \in c.todo : i \in DOMAIN je /\ je[i].reverseOn \in Months
    BY <1>1, <1>4, <2>1, <2>3, <2>4
  <2> QED BY <1>2, <2>2, <2>4, <2>5, Drafted
<1>5. CASE Go(r, Idle)
  BY <1>3, <1>5, SaneIdle, IdleTypes, Asked
<1>6. CASE Go(r, [Idle EXCEPT !.op = "reverse", !.todo = left])
  <2>1. PICK c : c = [Idle EXCEPT !.op = "reverse", !.todo = left]
    OBVIOUS
  <2>2. c \in Calls /\ c.op = "reverse" /\ c.draft = NoDraft /\ c.todo = left
    BY <1>1, <2>1, IdleTypes DEF Calls, Ops
  <2>3. Sane(c, je, receipts.sum)
    BY <1>1, <2>2, IdleTypes DEF Sane
  <2> QED BY <1>3, <1>6, <2>1, <2>2, <2>3, Asked
<1> QED BY <1>4, <1>5, <1>6 DEF ReverseDue

LEMMA TemplateStep ==
  ASSUME IInv, NEW r \in Requests, Advance(r) \/ Disarm(r) \/ Arm(r) \/ Rearm(r)
  PROVE  IInv'
<1>1. /\ call[r] \in Calls /\ call[r].at \in 1 .. Horizon + 1 /\ WorldTypes /\ Horizon \in Nat
      /\ today \in 1 .. Horizon /\ template \in [active : BOOLEAN, next : 1 .. Horizon + 1]
  BY Facts, CallTypes, BooksAssumption DEF WorldTypes
<1>2. CASE Advance(r)
  <2>1. /\ UNCHANGED <<je, receipts, invoice>> /\ WorldTypes' /\ Go(r, Listed)
    BY <1>1, <1>2 DEF Advance, ledger, receivable, WorldTypes
  <2> QED BY <2>1, ListedSane, Asked
<1>3. CASE Disarm(r)
  <2>1. UNCHANGED <<je, receipts, invoice, call>> /\ WorldTypes'
    BY <1>1, <1>3 DEF Disarm, ledger, receivable, WorldTypes
  <2> QED BY <2>1, Kept
<1>4. CASE Arm(r)
  <2>1. UNCHANGED <<je, receipts, invoice>> /\ WorldTypes'
    BY <1>1, <1>4 DEF Arm, ledger, receivable, WorldTypes
  <2>2. PICK c : c = [Idle EXCEPT !.op = "rearm"]
    OBVIOUS
  <2>3. c \in Calls /\ c.op = "rearm" /\ c.draft = NoDraft /\ c.todo = {}
    BY <2>2, IdleTypes DEF Calls, Ops
  <2>4. Sane(c, je, receipts.sum)
    BY <2>3, IdleTypes DEF Sane
  <2> QED BY <1>4, <2>1, <2>2, <2>3, <2>4, Asked DEF Arm
<1>5. CASE Rearm(r)
  <2>1. UNCHANGED <<je, receipts, invoice>> /\ WorldTypes' /\ Go(r, Idle)
    BY <1>1, <1>5 DEF Rearm, NextRun, ledger, receivable, WorldTypes
  <2> QED BY <2>1, SaneIdle, IdleTypes, Asked
<1> QED BY <1>2, <1>3, <1>4, <1>5

\* The amount a receipt brings the invoice to has been received once the receipt is written.
LEMMA PaidAfter ==
  ASSUME IInv, NEW a \in Nat
  PROVE  /\ NewPaid(a) \in 0 .. Total
         /\ NewPaid(a) - a <= invoice.paid
         /\ NewPaid(a) - Lesser(a, Total - invoice.paid) <= invoice.paid
         /\ Lesser(a, Total - invoice.paid) \in Nat
         /\ invoice.paid <= receipts.sum /\ receipts.sum \in Nat /\ invoice.paid \in Nat
<1>1. invoice.paid \in 0 .. Total /\ invoice.paid <= receipts.sum /\ receipts.sum \in Nat
  BY DEF IInv, World, WorldTypes, Backed
<1> QED BY <1>1, BooksAssumption DEF NewPaid, Lesser

LEMMA ReadPaymentStep ==
  ASSUME IInv, NEW r \in Requests, NEW a \in Amounts, ReadPayment(r, a)
  PROVE  IInv'
<1> DEFINE d == Draft("POSTED", today, -a, "AR")
<1>1. a \in Nat /\ today \in Months /\ 1 \in 1 .. Horizon + 1
  BY Facts, BooksAssumption
<1>2. d \in Journals /\ d.source = "AR" /\ d.amt = -a /\ d.reverses = 0
  BY <1>1, BooksAssumption DEF Draft, Journals, Sources
<1>3. PICK p : p = NewPaid(a)
  OBVIOUS
<1>4. p \in 0 .. Total /\ p + (-a) <= receipts.sum
  BY <1>1, <1>3, PaidAfter
<1>5. PICK c : c = [Idle EXCEPT !.op = "receipt", !.paid = p, !.at = 1, !.draft = d]
  OBVIOUS
<1>6. /\ c \in Calls /\ c.op = "receipt" /\ c.paid = p /\ c.draft = d /\ c.todo = {}
  BY <1>1, <1>2, <1>4, <1>5, IdleTypes DEF Calls, Ops
<1>7. Sane(c, je, receipts.sum)
  BY <1>1, <1>2, <1>4, <1>6 DEF Sane
<1>8. UNCHANGED <<je, receipts, invoice>> /\ WorldTypes' /\ Go(r, c)
  BY <1>3, <1>5, Facts DEF ReadPayment, ledger, receivable, WorldTypes
<1> QED BY <1>6, <1>7, <1>8, Asked

LEMMA ReadSettlementStep ==
  ASSUME IInv, NEW r \in Requests, ReadSettlement(r)
  PROVE  IInv'
<1> DEFINE k == call[r]
<1>1. PICK a : a = -je[k.on].amt
  OBVIOUS
<1>2. /\ k \in Calls /\ Sane(k, je, receipts.sum) /\ k.op = "settle" /\ receipts.sum \in Nat
      /\ UNCHANGED <<je, receipts, invoice>> /\ WorldTypes'
  BY Facts DEF ReadSettlement, ledger, receivable, WorldTypes
<1>3. a \in Nat
  <2>1. k.on \in 1 .. Len(je) /\ je[k.on].source = "AR_SETTLE" /\ je[k.on].amt \in Int
    BY <1>2, Facts DEF Sane
  <2>2. je[k.on].amt <= 0
    BY <2>1 DEF IInv, World, SettlesPay
  <2> QED BY <1>1, <2>1, <2>2
<1>4. CASE Go(r, After(k))
  BY <1>2, <1>4, SaneAfter, Asked
<1>5. CASE Go(r, [k EXCEPT !.op = "receipt", !.paid = NewPaid(a),
                    !.draft = Draft("POSTED", 1, -Lesser(a, Total - invoice.paid), "AR_SETTLE")])
  <2>1. PICK p, l : p = NewPaid(a) /\ l = Lesser(a, Total - invoice.paid)
    OBVIOUS
  <2>2. p \in 0 .. Total /\ l \in Nat /\ p + (-l) <= receipts.sum
    BY <1>3, <2>1, PaidAfter
  <2>3. PICK d : d = Draft("POSTED", 1, -l, "AR_SETTLE")
    OBVIOUS
  <2>4. d \in Journals /\ d.source = "AR_SETTLE" /\ d.amt = -l /\ d.reverses = 0
    BY <2>2, <2>3, BooksAssumption DEF Draft, Journals, Sources, Months
  <2>5. PICK c : c = [k EXCEPT !.op = "receipt", !.paid = p, !.draft = d]
    OBVIOUS
  <2>6. /\ c \in Calls /\ c.op = "receipt" /\ c.paid = p /\ c.draft = d /\ c.todo = k.todo
    BY <1>2, <2>2, <2>4, <2>5 DEF Calls, Ops
  <2>7. Sane(c, je, receipts.sum)
    BY <1>2, <2>2, <2>4, <2>6 DEF Sane
  <2> QED BY <1>2, <1>5, <2>1, <2>3, <2>5, <2>6, <2>7, Asked
<1> QED BY <1>1, <1>4, <1>5 DEF ReadSettlement

LEMMA WriteReceiptStep ==
  ASSUME IInv, NEW r \in Requests, WriteReceipt(r)
  PROVE  IInv'
<1> DEFINE k == call[r]
<1>1. /\ k \in Calls /\ Sane(k, je, receipts.sum) /\ k.op = "receipt" /\ receipts.sum \in Nat
      /\ je \in Seq(Journals) /\ UNCHANGED <<today, closed, je, balance, template, invoice, stops>>
  BY Facts DEF WriteReceipt, WorldTypes, ledger
<1>2. k.draft.amt \in Int /\ k.draft.amt <= 0 /\ k.on \in Nat /\ k.paid \in 0 .. Total
  BY <1>1, CallTypes DEF Sane
<1>3. PICK n, f : /\ n = receipts.sum - k.draft.amt
                  /\ f = receipts.from \cup (IF k.draft.source = "AR" THEN {} ELSE {k.on})
  OBVIOUS
<1>4. n \in Nat /\ receipts.sum <= n /\ k.paid <= n
  BY <1>1, <1>2, <1>3 DEF Sane
<1>5. receipts' = [sum |-> n, from |-> f] /\ f \in SUBSET Nat
  <2>1. receipts.from \in SUBSET Nat
    BY DEF IInv, World, WorldTypes
  <2> QED BY <1>2, <1>3, <2>1 DEF WriteReceipt
<1>6. invoice.paid \in 0 .. Total /\ Backed(invoice, receipts.sum)
  BY DEF IInv, World, WorldTypes
<1>7. World' /\ Grows(je, je') /\ receipts.sum <= receipts'.sum /\ receipts'.sum = n
  <2>1. receipts'.sum = n /\ receipts' \in [sum : Nat, from : SUBSET Nat]
    BY <1>4, <1>5
  <2>2. WorldTypes' /\ SettlesPay(je')
    BY <1>1, <2>1 DEF IInv, World, WorldTypes
  <2>3. Backed(invoice', receipts'.sum)
    BY <1>1, <1>4, <1>6, <2>1 DEF Backed
  <2>4. Grows(je, je')
    BY <1>1, GrowsRefl
  <2> QED BY <1>4, <2>1, <2>2, <2>3, <2>4 DEF World
<1>8. PICK c : c = [k EXCEPT !.op = "invoice"]
  OBVIOUS
<1>9. /\ c \in Calls /\ c.op = "invoice" /\ c.draft = k.draft /\ c.paid = k.paid
      /\ c.at = k.at /\ c.todo = k.todo
  BY <1>1, <1>8 DEF Calls, Ops
<1>10. Sane(c, je', receipts'.sum)
  BY <1>1, <1>4, <1>7, <1>9 DEF Sane
<1>11. Go(r, c)
  BY <1>8 DEF WriteReceipt
<1> QED BY <1>7, <1>9, <1>10, <1>11, Stepped

LEMMA WriteInvoiceStep ==
  ASSUME IInv, NEW r \in Requests, WriteInvoice(r)
  PROVE  IInv'
<1> DEFINE k == call[r]
<1>1. /\ k \in Calls /\ Sane(k, je, receipts.sum) /\ k.op = "invoice" /\ receipts.sum \in Nat
      /\ je \in Seq(Journals) /\ UNCHANGED <<today, closed, je, balance, template, receipts, stops>>
  BY Facts DEF WriteInvoice, WorldTypes, ledger
<1>2. k.paid \in 0 .. Total /\ k.paid <= receipts.sum
  BY <1>1, CallTypes DEF Sane
<1>3. /\ invoice' \in [paid : 0 .. Total, status : {"OPEN", "PARTIAL", "PAID"}]
      /\ invoice'.paid = k.paid /\ (invoice'.status = "PAID" => k.paid = Total)
  BY <1>2 DEF WriteInvoice
<1>4. World' /\ Grows(je, je') /\ receipts.sum <= receipts'.sum
  <2>1. WorldTypes' /\ SettlesPay(je')
    BY <1>1, <1>3 DEF IInv, World, WorldTypes
  <2>2. Backed(invoice', receipts'.sum)
    BY <1>1, <1>2, <1>3 DEF Backed
  <2>3. Grows(je, je')
    BY <1>1, GrowsRefl
  <2> QED BY <1>1, <2>1, <2>2, <2>3 DEF World
<1>5. CASE k.draft.source = "AR"
  <2>1. PICK c : c = [k EXCEPT !.op = "number"]
    OBVIOUS
  <2>2. c \in Calls /\ c.op = "number" /\ c.draft = k.draft /\ c.at = k.at /\ c.todo = k.todo
    BY <1>1, <2>1 DEF Calls, Ops
  <2>3. Sane(c, je', receipts'.sum)
    BY <1>1, <1>5, <2>2 DEF Sane
  <2>4. Go(r, c)
    BY <1>5, <2>1 DEF WriteInvoice
  <2> QED BY <1>4, <2>2, <2>3, <2>4, Stepped
<1>6. CASE k.draft.source # "AR"
  <2>1. Go(r, After(k))
    BY <1>6 DEF WriteInvoice
  <2>2. After(k) \in Calls /\ Sane(After(k), je', receipts'.sum)
    BY <1>1, SaneAfter
  <2> QED BY <1>4, <2>1, <2>2, Stepped
<1> QED BY <1>5, <1>6

LEMMA StopStep ==
  ASSUME IInv, NEW r \in Requests, Stop(r)
  PROVE  IInv'
<1>1. stops \in 0 .. MaxStops /\ MaxStops \in Nat
  BY BooksAssumption DEF IInv, World, WorldTypes
<1>2. UNCHANGED <<je, receipts, invoice>> /\ WorldTypes' /\ Go(r, Idle)
  BY <1>1, Facts DEF Stop, ledger, receivable, WorldTypes
<1> QED BY <1>2, SaneIdle, IdleTypes, Asked

LEMMA ClockStep ==
  ASSUME IInv, NextMonth \/ (\E r \in Requests, m \in CloseDates : SetClose(r, m))
  PROVE  IInv'
<1>1. /\ today \in 1 .. Horizon /\ Horizon \in Nat /\ CloseDates \subseteq 0 .. Horizon
      /\ WorldTypes
  BY BooksAssumption DEF IInv, World, WorldTypes, Months
<1>2. UNCHANGED <<je, receipts, invoice, call>> /\ WorldTypes'
  <2>1. CASE NextMonth
    BY <1>1, <2>1 DEF NextMonth, ledger, receivable, WorldTypes, Months
  <2>2. ASSUME NEW r \in Requests, NEW m \in CloseDates, SetClose(r, m)
        PROVE  UNCHANGED <<je, receipts, invoice, call>> /\ WorldTypes'
    BY <1>1, <2>2 DEF SetClose, ledger, receivable, WorldTypes
  <2> QED BY <2>1, <2>2
<1> QED BY <1>2, Kept

LEMMA ReadEntryStep ==
  ASSUME IInv, NEW r \in Requests, NEW j \in DOMAIN je, ReadApprove(r, j) \/ ReadVoid(r, j)
  PROVE  IInv'
<1>1. CASE ReadApprove(r, j)
  BY <1>1, EntryRead DEF ReadApprove
<1>2. CASE ReadVoid(r, j)
  <2>1. VoidFrom(j) \in {"approve", "unapply", "void"}
    BY DEF VoidFrom
  <2> QED BY <1>2, <2>1, EntryRead DEF ReadVoid
<1> QED BY <1>1, <1>2

LEMMA Started == Init => IInv
<1> SUFFICES ASSUME Init PROVE IInv
  OBVIOUS
<1>1. je \in Seq(Journals) /\ Len(je) = 0
  BY DEF Init
<1>2. WorldTypes
  BY <1>1, BooksAssumption DEF Init, WorldTypes, Months
<1>3. SettlesPay(je) /\ Backed(invoice, receipts.sum)
  BY <1>1, BooksAssumption DEF Init, SettlesPay, Backed
<1>4. \A r \in Requests : call[r] = Idle
  BY DEF Init
<1>5. call \in [Requests -> Calls]
  BY <1>4, IdleTypes DEF Init
<1> QED BY <1>2, <1>3, <1>4, <1>5, SaneIdle DEF IInv, World

LEMMA Carried == IInv /\ [Next]_vars => IInv'
<1> SUFFICES ASSUME IInv, [Next]_vars PROVE IInv'
  OBVIOUS
<1>1. CASE UNCHANGED vars
  BY <1>1 DEF vars, ledger, receivable, IInv, World, WorldTypes
<1>2. ASSUME NEW r \in Requests,
             \/ Number(r) \/ Create(r) \/ Apply(r) \/ WriteApprove(r) \/ Unapply(r) \/ WriteVoid(r)
             \/ LoadPage(r) \/ PostDue(r) \/ Advance(r) \/ Disarm(r) \/ Arm(r) \/ Rearm(r)
             \/ ReadSettlement(r) \/ WriteReceipt(r) \/ WriteInvoice(r) \/ Stop(r)
      PROVE  IInv'
  BY <1>2, NumberStep, CreateStep, ApplyStep, WriteApproveStep, UnapplyStep, WriteVoidStep,
     LoadPageStep, PostDueStep, TemplateStep, ReadSettlementStep, WriteReceiptStep,
     WriteInvoiceStep, StopStep
<1>3. ASSUME NEW r \in Requests, NEW j \in DOMAIN je,
             ReadApprove(r, j) \/ ReadVoid(r, j) \/ ReverseEntry(r, j) \/ ReverseDue(r, j)
      PROVE  IInv'
  BY <1>3, ReadEntryStep, ReverseEntryStep, ReverseDueStep
<1>4. ASSUME NEW r \in Requests, NEW a \in Amounts,
             ReadPayment(r, a) \/ (\E e \in Entries : Enter(r, a, e))
      PROVE  IInv'
  BY <1>4, ReadPaymentStep, EnterStep
<1> QED BY <1>1, <1>2, <1>3, <1>4, ClockStep DEF Next

\* Types: no request carries more than it read, whatever the entries, the months and the
\* requests that stop.
THEOREM TypeCorrect == Spec => []TypeOK
<1>1. IInv => TypeOK
  BY DEF IInv, World, WorldTypes, TypeOK
<1> QED BY Started, Carried, <1>1, PTL DEF Spec

\* An invoice shown as paid has been paid in full, however many payments and settlements
\* overlap: they lose an amount, they never invent one.
THEOREM PaidMeansReceived == Spec => []PaidInFull
<1>1. IInv => PaidInFull
  BY BooksAssumption DEF IInv, World, WorldTypes, Backed, PaidInFull
<1> QED BY Started, Carried, <1>1, PTL DEF Spec

-----------------------------------------------------------------------------
(* Requests that work on different things                                  *)

\* The entries a request works on.
WorksOn(k) ==
  {j \in Nat \ {0} : \/ k.op \in {"apply", "approve", "unapply", "void"} /\ j = k.on
                     \/ k.op \in {"number", "create"} /\ j = k.draft.reverses}
Apart == \A q, r \in Requests : q # r => WorksOn(call[q]) \cap WorksOn(call[r]) = {}

Unreversed(s, j) == \A i \in 1 .. Len(s) : ~(s[i].reverses = j /\ s[i].status # "VOID")

\* What a request saw is still so: the entry it reverses has no live reversal, the one it
\* approves awaits approval, and neither is in a month closed through m.
Guarded(k, s, m) ==
  /\ k.op \in {"number", "create"} /\ k.draft.reverses # 0 => Unreversed(s, k.draft.reverses)
  /\ k.op \in {"receipt", "invoice"} => k.draft.reverses = 0
  /\ k.op = "approve" => s[k.on].status = "PENDING_APPROVAL"
  /\ k.op \in {"approve", "unapply", "void"} => ~(s[k.on].date <= m)
  /\ k.op = "create" /\ k.draft.status = "POSTED" => ~(k.draft.date <= m)

OnceIn(s) == \A i, j \in 1 .. Len(s) :
  s[i].reverses # 0 /\ s[i].reverses = s[j].reverses
    /\ s[i].status # "VOID" /\ s[j].status # "VOID" => i = j

LInv ==
  /\ IInv /\ Apart /\ OnceIn(je)
  /\ \A r \in Requests : Guarded(call[r], je, closed)

LEMMA FreeMeans ==
  ASSUME Separate = TRUE, NEW r \in Requests, NEW q \in Requests \ {r}, NEW j \in Nat,
         Free(r, <<"journal", j>>)
  PROVE  j \notin WorksOn(call[q])
<1>1. <<"journal", j>> \notin Holds(call[q])
  BY DEF Free
<1> QED BY <1>1 DEF Holds, WorksOn

LEMMA CloseMeans ==
  ASSUME Separate = TRUE, NEW r \in Requests, NEW q \in Requests \ {r}, Free(r, <<"close", 0>>)
  PROVE  call[q].op \notin {"create", "approve", "unapply", "void"}
<1>1. <<"close", 0>> \notin Holds(call[q])
  BY DEF Free
<1> QED BY <1>1 DEF Holds

\* A request that works on nothing guards nothing.
LEMMA Quiet ==
  ASSUME NEW k, k.op \in {"idle", "due", "reverse", "rearm", "settle"}, NEW s, NEW m
  PROVE  WorksOn(k) = {} /\ Guarded(k, s, m)
BY DEF WorksOn, Guarded

\* A step of r that leaves it with k, while all the others saw is still so.
LEMMA SteppedApart ==
  ASSUME LInv, IInv', NEW r \in Requests, NEW k, Go(r, k), OnceIn(je'),
         Guarded(k, je', closed'),
         \A q \in Requests \ {r} : /\ WorksOn(k) \cap WorksOn(call[q]) = {}
                                   /\ Guarded(call[q], je', closed')
  PROVE  LInv'
<1>1. \A q \in Requests : call'[q] = IF q = r THEN k ELSE call[q]
  BY DEF Go, LInv, IInv
<1>2. Apart'
  BY <1>1 DEF Apart, LInv
<1>3. \A q \in Requests : Guarded(call'[q], je', closed')
  BY <1>1
<1> QED BY <1>2, <1>3 DEF LInv

\* A step that writes no entry and leaves the close date.
LEMMA AskedApart ==
  ASSUME LInv, IInv', NEW r \in Requests, NEW k, Go(r, k), je' = je, closed' = closed,
         Guarded(k, je, closed),
         \A q \in Requests \ {r} : WorksOn(k) \cap WorksOn(call[q]) = {}
  PROVE  LInv'
<1>1. \A q \in Requests : Guarded(call[q], je', closed')
  BY DEF LInv
<1> QED BY <1>1, SteppedApart DEF LInv

\* One that leaves the request working on nothing.
LEMMA QuietApart ==
  ASSUME LInv, IInv', NEW r \in Requests, NEW k, Go(r, k), je' = je, closed' = closed,
         k.op \in {"idle", "due", "reverse", "rearm", "settle"}
  PROVE  LInv'
BY Quiet, AskedApart

LEMMA AfterQuiet ==
  ASSUME NEW k
  PROVE  After(k).op \in {"idle", "due", "reverse"}
BY DEF After, Idle

\* The steps that leave it working on nothing.
LEMMA QuietSteps ==
  ASSUME LInv, IInv', NEW r \in Requests,
         Apply(r) \/ LoadPage(r) \/ Advance(r) \/ Arm(r) \/ Rearm(r) \/ Stop(r)
  PROVE  LInv'
<1>1. je' = je /\ closed' = closed
  BY DEF Apply, Advance, Arm, Rearm, LoadPage, Stop, ledger
<1>2. ASSUME NEW k, Go(r, k), k.op \in {"idle", "due", "reverse", "rearm", "settle"}
      PROVE  LInv'
  BY <1>1, <1>2, QuietApart
<1>3. /\ Idle.op = "idle" /\ [Idle EXCEPT !.op = "rearm"].op = "rearm"
      /\ [Idle EXCEPT !.op = "due", !.at = template.next].op = "due"
      /\ Listed.op \in {"idle", "reverse"} /\ After(call[r]).op \in {"idle", "due", "reverse"}
  BY IdleTypes, ListedSane, AfterQuiet DEF Idle, LInv
<1>4. CASE Apply(r)
  <2>1. call[r] \in Calls
    BY Facts DEF LInv
  <2>2. [call[r] EXCEPT !.op = "settle"].op = "settle"
    BY <2>1 DEF Calls
  <2> QED BY <1>2, <1>3, <1>4, <2>2 DEF Apply
<1>5. CASE LoadPage(r) \/ Advance(r) \/ Arm(r) \/ Rearm(r) \/ Stop(r)
  BY <1>2, <1>3, <1>5 DEF LoadPage, Advance, Arm, Rearm, Stop
<1> QED BY <1>4, <1>5

\* The steps that read an entry to approve or void it, or go on to void it.
LEMMA EntryStepsApart ==
  ASSUME Separate = TRUE, LInv, IInv', NEW r \in Requests,
         Unapply(r) \/ \E j \in DOMAIN je : ReadApprove(r, j) \/ ReadVoid(r, j)
  PROVE  LInv'
<1>1. CASE Unapply(r)
  <2> DEFINE k == call[r]
  <2>1. /\ k \in Calls /\ k.op = "unapply" /\ Guarded(k, je, closed) /\ je' = je
        /\ closed' = closed /\ Go(r, [k EXCEPT !.op = "void"])
    BY <1>1, Facts DEF Unapply, LInv
  <2>2. PICK c : c = [k EXCEPT !.op = "void"]
    OBVIOUS
  <2>3. c.op = "void" /\ c.on = k.on
    BY <2>1, <2>2 DEF Calls
  <2>4. WorksOn(c) = WorksOn(k) /\ Guarded(c, je, closed)
    BY <2>1, <2>3 DEF WorksOn, Guarded
  <2> QED BY <2>1, <2>2, <2>4, AskedApart DEF LInv, Apart
<1>2. ASSUME NEW j \in DOMAIN je, NEW op \in {"approve", "unapply", "void"},
             Go(r, [Idle EXCEPT !.op = op, !.on = j]), Free(r, <<"journal", j>>), Open(je[j].date),
             op = "approve" => je[j].status = "PENDING_APPROVAL", je' = je, closed' = closed
      PROVE  LInv'
  <2>1. PICK c : c = [Idle EXCEPT !.op = op, !.on = j]
    OBVIOUS
  <2>2. c.op = op /\ c.on = j
    BY <2>1, IdleTypes DEF Calls
  <2>3. j \in Nat
    BY Facts DEF LInv
  <2>4. WorksOn(c) \subseteq {j} /\ Guarded(c, je, closed)
    BY <1>2, <2>2 DEF WorksOn, Guarded, Open
  <2>5. \A q \in Requests \ {r} : j \notin WorksOn(call[q])
    BY <1>2, <2>3, FreeMeans
  <2> QED BY <1>2, <2>1, <2>4, <2>5, AskedApart
<1>3. ASSUME NEW j \in DOMAIN je, ReadApprove(r, j)
      PROVE  LInv'
  BY <1>2, <1>3 DEF ReadApprove, ledger
<1>4. ASSUME NEW j \in DOMAIN je, ReadVoid(r, j)
      PROVE  LInv'
  BY <1>2, <1>4 DEF ReadVoid, VoidFrom, ledger
<1> QED BY <1>1, <1>3, <1>4

\* The steps that are about to number an entry d.
LEMMA DraftedApart ==
  ASSUME Separate = TRUE, LInv, IInv', NEW r \in Requests, NEW d \in Journals, NEW c,
         c.op = "number", c.draft = d, Go(r, c), je' = je, closed' = closed,
         d.reverses # 0 => /\ Unreversed(je, d.reverses)
                           /\ Free(r, <<"journal", d.reverses>>)
  PROVE  LInv'
<1>1. WorksOn(c) = {d.reverses} \ {0} /\ Guarded(c, je, closed)
  BY DEF WorksOn, Guarded, Journals
<1>2. \A q \in Requests \ {r} : WorksOn(c) \cap WorksOn(call[q]) = {}
  <2>1. d.reverses \in Nat
    BY DEF Journals
  <2> QED BY <1>1, <2>1, FreeMeans
<1> QED BY <1>1, <1>2, AskedApart

LEMMA ReverseStepsApart ==
  ASSUME Separate = TRUE, LInv, IInv', NEW r \in Requests, NEW j \in DOMAIN je,
         ReverseEntry(r, j) \/ ReverseDue(r, j)
  PROVE  LInv'
<1>1. je' = je /\ closed' = closed /\ IInv /\ j \in Nat
  BY Facts DEF ReverseEntry, ReverseDue, ledger, LInv
<1>2. ASSUME NEW m \in Months, NEW c, Reversible(j, m), Free(r, <<"journal", j>>),
             c.op = "number", c.draft = Mirror(j, m), Go(r, c)
      PROVE  LInv'
  <2>1. Mirror(j, m) \in Journals /\ Mirror(j, m).reverses = j
    BY <1>1, MirrorTypes
  <2>2. Unreversed(je, j)
    <3>1. DOMAIN je = 1 .. Len(je)
      BY <1>1, Facts
    <3> QED BY <1>2, <3>1 DEF Reversible, Live, Unreversed
  <2> QED BY <1>1, <1>2, <2>1, <2>2, DraftedApart
<1>3. CASE ReverseEntry(r, j)
  <2>1. PICK c : c = [Idle EXCEPT !.op = "number", !.draft = Mirror(j, today)]
    OBVIOUS
  <2>2. c.op = "number" /\ c.draft = Mirror(j, today) /\ today \in Months
    BY <1>1, <2>1, Facts DEF Idle
  <2> QED BY <1>2, <1>3, <2>1, <2>2 DEF ReverseEntry
<1>4. CASE ReverseDue(r, j)
  <2> DEFINE left == call[r].todo \ {j}
             m == je[j].reverseOn
  <2>1. m \in Months
    BY <1>1, <1>4, Facts DEF ReverseDue, Sane
  <2>2. PICK c : c = [Idle EXCEPT !.op = "number", !.todo = left, !.draft = Mirror(j, m)]
    OBVIOUS
  <2>3. c.op = "number" /\ c.draft = Mirror(j, m)
    BY <2>2 DEF Idle
  <2>4. CASE Reversible(j, m)
    BY <1>2, <1>4, <2>1, <2>2, <2>3, <2>4 DEF ReverseDue
  <2>5. CASE ~Reversible(j, m)
    <3>1. Idle.op = "idle" /\ [Idle EXCEPT !.op = "reverse", !.todo = left].op = "reverse"
      BY DEF Idle
    <3>2. Go(r, Idle) \/ Go(r, [Idle EXCEPT !.op = "reverse", !.todo = left])
      BY <1>4, <2>5 DEF ReverseDue
    <3> QED BY <1>1, <3>1, <3>2, QuietApart
  <2> QED BY <2>4, <2>5
<1> QED BY <1>3, <1>4

LEMMA PlainDraft ==
  ASSUME NEW v, NEW m, NEW a, NEW s, NEW o
  PROVE  /\ Draft(v, m, a, s).reverses = 0
         /\ [Draft(v, m, a, s) EXCEPT !.reverseOn = o].reverses = 0
BY DEF Draft

\* The steps about entries that reverse nothing, and about receipts.
LEMMA PlainSteps ==
  ASSUME LInv, IInv', NEW r \in Requests,
         \/ PostDue(r) \/ ReadSettlement(r) \/ WriteReceipt(r) \/ WriteInvoice(r)
         \/ \E a \in Amounts : ReadPayment(r, a) \/ \E e \in Entries : Enter(r, a, e)
  PROVE  LInv'
<1> DEFINE k == call[r]
<1>1. /\ je' = je /\ closed' = closed /\ k \in Calls /\ Guarded(k, je, closed)
  BY Facts DEF PostDue, ReadSettlement, WriteReceipt, WriteInvoice, ReadPayment, Enter, ledger, LInv
<1>2. ASSUME NEW c, Go(r, c), c.op \in {"number", "receipt", "invoice"}, c.draft.reverses = 0
      PROVE  LInv'
  <2>1. WorksOn(c) = {} /\ Guarded(c, je, closed)
    BY <1>2 DEF WorksOn, Guarded
  <2> QED BY <1>1, <1>2, <2>1, AskedApart
<1>3. ASSUME NEW c, Go(r, c), c = After(k)
      PROVE  LInv'
  BY <1>1, <1>3, AfterQuiet, QuietApart
<1>4. CASE PostDue(r)
  <2>1. PICK d : d = [Draft("POSTED", k.at, 1, "RECURRING")
                        EXCEPT !.reverseOn = IF AutoReverse THEN k.at + 1 ELSE 0]
    OBVIOUS
  <2>2. PICK c : c = [k EXCEPT !.op = "number", !.draft = d]
    OBVIOUS
  <2>3. c.op = "number" /\ c.draft = d /\ d.reverses = 0
    BY <1>1, <2>1, <2>2 DEF Calls, Draft
  <2> QED BY <1>2, <1>4, <2>1, <2>2, <2>3 DEF PostDue
<1>5. CASE ReadSettlement(r)
  <2>1. ASSUME NEW p, NEW d, d.reverses = 0,
               Go(r, [k EXCEPT !.op = "receipt", !.paid = p, !.draft = d])
        PROVE  LInv'
    <3>1. PICK c : c = [k EXCEPT !.op = "receipt", !.paid = p, !.draft = d]
      OBVIOUS
    <3>2. c.op = "receipt" /\ c.draft = d
      BY <1>1, <3>1 DEF Calls
    <3> QED BY <1>2, <2>1, <3>1, <3>2
  <2>2. PICK a, d : /\ a = -je[k.on].amt
                    /\ d = Draft("POSTED", 1, -Lesser(a, Total - invoice.paid), "AR_SETTLE")
    OBVIOUS
  <2>3. d.reverses = 0
    BY <2>2, PlainDraft
  <2>4. \/ Go(r, After(k))
        \/ Go(r, [k EXCEPT !.op = "receipt", !.paid = NewPaid(a), !.draft = d])
    BY <1>5, <2>2 DEF ReadSettlement
  <2> QED BY <1>3, <2>1, <2>3, <2>4
<1>6. CASE WriteReceipt(r)
  <2>1. PICK c : c = [k EXCEPT !.op = "invoice"]
    OBVIOUS
  <2>2. c.op = "invoice" /\ c.draft = k.draft /\ k.draft.reverses = 0
    BY <1>1, <1>6, <2>1 DEF Calls, Guarded, WriteReceipt
  <2> QED BY <1>2, <1>6, <2>1, <2>2 DEF WriteReceipt
<1>7. CASE WriteInvoice(r)
  <2>1. PICK c : c = [k EXCEPT !.op = "number"]
    OBVIOUS
  <2>2. c.op = "number" /\ c.draft = k.draft /\ k.draft.reverses = 0
    BY <1>1, <1>7, <2>1 DEF Calls, Guarded, WriteInvoice
  <2>3. Go(r, c) \/ Go(r, After(k))
    BY <1>7, <2>1 DEF WriteInvoice
  <2> QED BY <1>2, <1>3, <2>2, <2>3
<1>8. ASSUME NEW a \in Amounts, ReadPayment(r, a)
      PROVE  LInv'
  <2>1. PICK c : c = [Idle EXCEPT !.op = "receipt", !.paid = NewPaid(a), !.at = 1,
                        !.draft = Draft("POSTED", today, -a, "AR")]
    OBVIOUS
  <2>2. c.op = "receipt" /\ c.draft.reverses = 0
    BY <2>1, PlainDraft DEF Idle
  <2> QED BY <1>2, <1>8, <2>1, <2>2 DEF ReadPayment
<1>9. ASSUME NEW a \in Amounts, NEW e \in Entries, Enter(r, a, e)
      PROVE  LInv'
  <2>1. PICK d : d = [Draft(e.status, today, IF e.settles THEN -a ELSE a,
                            IF e.settles THEN "AR_SETTLE" ELSE "MANUAL")
                        EXCEPT !.reverseOn = IF e.accrual THEN today + 1 ELSE 0]
    OBVIOUS
  <2>2. PICK c : c = [Idle EXCEPT !.op = "number", !.draft = d]
    OBVIOUS
  <2>3. c.op = "number" /\ c.draft = d /\ d.reverses = 0
    BY <2>1, <2>2 DEF Idle, Draft
  <2>4. Go(r, c)
    BY <1>9, <2>1, <2>2 DEF Enter
  <2> QED BY <1>2, <2>3, <2>4
<1> QED BY <1>4, <1>5, <1>6, <1>7, <1>8, <1>9

\* The number is taken and the close date looked at: the entry may now be created.
LEMMA NumberApart ==
  ASSUME LInv, IInv', NEW r \in Requests, Number(r)
  PROVE  LInv'
<1> DEFINE k == call[r]
<1>1. /\ je' = je /\ closed' = closed /\ k \in Calls /\ Guarded(k, je, closed) /\ k.op = "number"
  BY Facts DEF Number, ledger, LInv
<1>2. CASE k.draft.status = "POSTED" /\ ~Open(k.draft.date)
  <2>1. Go(r, After(k))
    BY <1>2 DEF Number
  <2> QED BY <1>1, <2>1, AfterQuiet, QuietApart
<1>3. CASE ~(k.draft.status = "POSTED" /\ ~Open(k.draft.date))
  <2>1. PICK c : c = [k EXCEPT !.op = "create", !.on = Len(je)]
    OBVIOUS
  <2>2. c.op = "create" /\ c.draft = k.draft
    BY <1>1, <2>1 DEF Calls
  <2>3. WorksOn(c) = WorksOn(k) /\ Guarded(c, je, closed)
    BY <1>1, <1>3, <2>2 DEF WorksOn, Guarded, Open
  <2>4. Go(r, c)
    BY <1>3, <2>1 DEF Number
  <2> QED BY <1>1, <2>3, <2>4, AskedApart DEF LInv, Apart
<1> QED BY <1>2, <1>3

\* The status of entry i is written by the one request that works on it.
LEMMA StatusApart ==
  ASSUME LInv, IInv', NEW r \in Requests, NEW i \in WorksOn(call[r]), i \in 1 .. Len(je),
         NEW v \in Statuses, je' = [je EXCEPT ![i].status = v], closed' = closed,
         v = "VOID" \/ je[i].status # "VOID",
         NEW c, Go(r, c), WorksOn(c) \subseteq WorksOn(call[r]), Guarded(c, je', closed')
  PROVE  LInv'
<1>1. je \in Seq(Journals) /\ Len(je) \in Nat
  BY DEF LInv, IInv, World, WorldTypes
<1>2. /\ Len(je') = Len(je)
      /\ \A j \in 1 .. Len(je) : /\ je'[j].reverses = je[j].reverses /\ je'[j].date = je[j].date
                                 /\ je'[j].status = IF j = i THEN v ELSE je[j].status
  BY <1>1, StatusWrite DEF SameEntry
<1>3. \A j \in 1 .. Len(je) : je'[j].status # "VOID" => je[j].status # "VOID"
  BY <1>2
<1>4. OnceIn(je')
  BY <1>2, <1>3 DEF OnceIn, LInv
<1>5. \A j : Unreversed(je, j) => Unreversed(je', j)
  BY <1>2, <1>3 DEF Unreversed
<1>6. ASSUME NEW q \in Requests \ {r}
      PROVE  /\ WorksOn(c) \cap WorksOn(call[q]) = {}
             /\ Guarded(call[q], je', closed')
  <2>1. /\ call[q] \in Calls /\ Sane(call[q], je, receipts.sum) /\ Guarded(call[q], je, closed)
        /\ WorksOn(call[r]) \cap WorksOn(call[q]) = {}
    BY Facts DEF LInv, Apart
  <2>2. call[q].op \in {"approve", "unapply", "void"} =>
          call[q].on \in 1 .. Len(je) /\ call[q].on # i
    BY <1>1, <2>1 DEF Sane, WorksOn
  <2>3. Guarded(call[q], je', closed')
    BY <1>2, <1>5, <2>1, <2>2 DEF Guarded
  <2> QED BY <2>1, <2>3
<1> QED BY <1>4, <1>6, SteppedApart

LEMMA StatusStepsApart ==
  ASSUME LInv, IInv', NEW r \in Requests, WriteApprove(r) \/ WriteVoid(r)
  PROVE  LInv'
<1> DEFINE k == call[r]
<1>1. /\ k \in Calls /\ Sane(k, je, receipts.sum) /\ Guarded(k, je, closed)
      /\ k.op \in {"approve", "void"} /\ closed' = closed
  BY Facts DEF WriteApprove, WriteVoid, LInv
<1>2. k.on \in 1 .. Len(je) /\ k.on \in WorksOn(k)
  BY <1>1 DEF Sane, WorksOn
<1>3. CASE WriteApprove(r)
  <2>1. PICK c : c = [k EXCEPT !.op = "apply"]
    OBVIOUS
  <2>2. c.op = "apply" /\ c.on = k.on
    BY <1>1, <2>1 DEF Calls
  <2>3. WorksOn(c) \subseteq WorksOn(k) /\ Guarded(c, je', closed')
    BY <1>3, <2>2 DEF WorksOn, Guarded, WriteApprove
  <2>4. je[k.on].status # "VOID" /\ je' = [je EXCEPT ![k.on].status = "POSTED"] /\ Go(r, c)
    BY <1>1, <1>3, <2>1 DEF WriteApprove, Guarded
  <2> QED BY <1>1, <1>2, <2>3, <2>4, StatusApart DEF Statuses
<1>4. CASE WriteVoid(r)
  <2>1. WorksOn(Idle) = {} /\ Guarded(Idle, je', closed')
    BY Quiet, IdleTypes
  <2>2. je' = [je EXCEPT ![k.on].status = "VOID"] /\ Go(r, Idle)
    BY <1>4 DEF WriteVoid
  <2> QED BY <1>1, <1>2, <2>1, <2>2, StatusApart DEF Statuses
<1> QED BY <1>3, <1>4 DEF WriteApprove, WriteVoid

LEMMA CreateApart ==
  ASSUME LInv, IInv', NEW r \in Requests, Create(r)
  PROVE  LInv'
<1> DEFINE k == call[r]
           n == Len(je) + 1
<1>1. /\ k \in Calls /\ Sane(k, je, receipts.sum) /\ Guarded(k, je, closed) /\ k.op = "create"
      /\ closed' = closed /\ k.draft \in Journals /\ je \in Seq(Journals) /\ Len(je) \in Nat
      /\ k.draft.reverses \in Nat
  BY Facts, CallTypes DEF Create, LInv, WorldTypes
<1>2. CASE je' = je /\ Go(r, After(k))
  BY <1>1, <1>2, AfterQuiet, QuietApart
<1>3. CASE je' = Append(je, k.draft)
  <2>1. /\ Len(je') = n /\ je'[n] = k.draft /\ \A j \in 1 .. Len(je) : je'[j] = je[j]
        /\ \A j \in 1 .. n : j = n \/ j \in 1 .. Len(je)
    BY <1>1, <1>3, Appended
  <2>2. k.draft.reverses # 0 => Unreversed(je, k.draft.reverses)
    BY <1>1 DEF Guarded
  <2>3. OnceIn(je')
    BY <1>1, <2>1, <2>2 DEF OnceIn, Unreversed, LInv
  <2>4. ASSUME NEW q \in Requests \ {r}
        PROVE  n \notin WorksOn(call[q]) /\ Guarded(call[q], je', closed')
    <3>1. /\ call[q] \in Calls /\ Sane(call[q], je, receipts.sum) /\ Guarded(call[q], je, closed)
          /\ WorksOn(k) \cap WorksOn(call[q]) = {} /\ call[q].draft.reverses \in Nat
      BY Facts, CallTypes DEF LInv, Apart
    <3>2. n \notin WorksOn(call[q])
      BY <1>1, <3>1 DEF Sane, WorksOn
    <3>3. /\ call[q].op \in {"approve", "unapply", "void"} => je'[call[q].on] = je[call[q].on]
      BY <2>1, <3>1 DEF Sane
    <3>4. call[q].op \in {"number", "create"} /\ call[q].draft.reverses # 0 =>
            Unreversed(je', call[q].draft.reverses)
      <4>1. SUFFICES ASSUME call[q].op \in {"number", "create"}, call[q].draft.reverses # 0
                     PROVE  Unreversed(je', call[q].draft.reverses)
        OBVIOUS
      <4>2. k.draft.reverses # call[q].draft.reverses
        BY <1>1, <3>1, <4>1 DEF WorksOn
      <4>3. Unreversed(je, call[q].draft.reverses)
        BY <3>1, <4>1 DEF Guarded
      <4> QED BY <2>1, <4>2, <4>3 DEF Unreversed
    <3> QED BY <1>1, <3>1, <3>2, <3>3, <3>4 DEF Guarded
  <2>5. CASE Go(r, After(k))
    <3>1. WorksOn(After(k)) = {} /\ Guarded(After(k), je', closed')
      BY AfterQuiet, Quiet
    <3> QED BY <2>3, <2>4, <2>5, <3>1, SteppedApart
  <2>6. CASE Go(r, [k EXCEPT !.op = "apply", !.on = n])
    <3>1. PICK c : c = [k EXCEPT !.op = "apply", !.on = n]
      OBVIOUS
    <3>2. c.op = "apply" /\ c.on = n
      BY <1>1, <3>1 DEF Calls
    <3>3. WorksOn(c) \subseteq {n} /\ Guarded(c, je', closed')
      BY <3>2 DEF WorksOn, Guarded
    <3> QED BY <2>3, <2>4, <2>6, <3>1, <3>3, SteppedApart
  <2> QED BY <1>1, <1>3, <2>5, <2>6 DEF Create
<1> QED BY <1>2, <1>3 DEF Create

LEMMA CloseApart ==
  ASSUME Separate = TRUE, LInv, IInv', NEW r \in Requests, NEW m \in CloseDates, SetClose(r, m)
  PROVE  LInv'
<1>1. je' = je /\ call' = call /\ closed' = m /\ call[r].op = "idle"
  BY DEF SetClose, ledger, Ready
<1>2. \A q \in Requests : call[q].op \notin {"create", "approve", "unapply", "void"}
  BY <1>1, CloseMeans DEF SetClose
<1>3. \A q \in Requests : Guarded(call[q], je, m)
  BY <1>2 DEF LInv, Guarded
<1> QED BY <1>1, <1>3 DEF LInv, Apart

LEMMA StartedApart == Init => LInv
<1> SUFFICES ASSUME Init PROVE LInv
  OBVIOUS
<1>1. IInv /\ Len(je) = 0
  BY Started DEF Init
<1>2. \A r \in Requests : call[r] = Idle
  BY DEF Init
<1>3. \A r \in Requests : WorksOn(call[r]) = {} /\ Guarded(call[r], je, closed)
  BY <1>2, Quiet, IdleTypes
<1> QED BY <1>1, <1>3 DEF LInv, Apart, OnceIn

LEMMA CarriedApart ==
  ASSUME Separate = TRUE
  PROVE  LInv /\ [Next]_vars => LInv'
<1> SUFFICES ASSUME LInv, [Next]_vars PROVE LInv'
  OBVIOUS
<1>1. IInv'
  BY Carried DEF LInv
<1>2. ASSUME UNCHANGED <<je, closed, call>> PROVE LInv'
  BY <1>1, <1>2 DEF LInv, Apart
<1>3. CASE UNCHANGED vars
  BY <1>2, <1>3 DEF vars, ledger
<1>4. CASE NextMonth
  BY <1>2, <1>4 DEF NextMonth, ledger
<1>5. ASSUME NEW r \in Requests,
             \/ Number(r) \/ Create(r) \/ Apply(r) \/ WriteApprove(r) \/ Unapply(r) \/ WriteVoid(r)
             \/ LoadPage(r) \/ PostDue(r) \/ Advance(r) \/ Disarm(r) \/ Arm(r) \/ Rearm(r)
             \/ ReadSettlement(r) \/ WriteReceipt(r) \/ WriteInvoice(r) \/ Stop(r)
      PROVE  LInv'
  <2>1. CASE Disarm(r)
    BY <1>2, <2>1 DEF Disarm, ledger
  <2> QED BY <1>1, <1>5, <2>1, NumberApart, CreateApart, QuietSteps, StatusStepsApart,
             EntryStepsApart, PlainSteps
<1>6. ASSUME NEW r \in Requests, NEW j \in DOMAIN je,
             ReadApprove(r, j) \/ ReadVoid(r, j) \/ ReverseEntry(r, j) \/ ReverseDue(r, j)
      PROVE  LInv'
  BY <1>1, <1>6, EntryStepsApart, ReverseStepsApart
<1>7. ASSUME NEW r \in Requests, NEW a \in Amounts,
             ReadPayment(r, a) \/ (\E e \in Entries : Enter(r, a, e))
      PROVE  LInv'
  BY <1>1, <1>7, PlainSteps
<1>8. ASSUME NEW r \in Requests, NEW m \in CloseDates, SetClose(r, m)
      PROVE  LInv'
  BY <1>1, <1>8, CloseApart
<1> QED BY <1>3, <1>4, <1>5, <1>6, <1>7, <1>8 DEF Next

\* While no two requests work on one entry, an entry is reversed once: by hand or by a
\* page load, in whichever order, however many stop.
THEOREM EntriesReversedOnce ==
  ASSUME Separate = TRUE
  PROVE  Spec => []ReversedOnce
<1>1. LInv => ReversedOnce
  BY DEF LInv, IInv, World, WorldTypes, OnceIn, ReversedOnce
<1>2. Init => LInv
  BY StartedApart
<1>3. LInv /\ [Next]_vars => LInv'
  BY CarriedApart
<1> QED BY <1>1, <1>2, <1>3, PTL DEF Spec

\* A posted entry comes and goes only in an open month.
LEMMA LockedStays ==
  ASSUME LInv, NEW i \in 1 .. Len(je), NEW v \in Statuses, ~(je[i].date <= closed),
         je' = [je EXCEPT ![i].status = v], closed' = closed
  PROVE  Locked' = Locked
<1>1. je \in Seq(Journals) /\ Len(je) \in Nat
  BY DEF LInv, IInv, World, WorldTypes
<1>2. /\ DOMAIN je' = DOMAIN je /\ DOMAIN je = 1 .. Len(je)
      /\ \A j \in 1 .. Len(je) : /\ je'[j].date = je[j].date
                                 /\ je'[j].status = IF j = i THEN v ELSE je[j].status
  BY <1>1, StatusWrite DEF SameEntry
<1> QED BY <1>2 DEF Locked

LEMMA StepKeepsClosed ==
  ASSUME LInv, [Next]_vars, closed' = closed
  PROVE  Locked' = Locked
<1>1. CASE je' = je
  BY <1>1 DEF Locked
<1>2. ASSUME NEW r \in Requests, Create(r) PROVE Locked' = Locked
  <2> DEFINE k == call[r]
             n == Len(je) + 1
  <2>1. /\ Guarded(k, je, closed) /\ k.op = "create" /\ k.draft \in Journals
        /\ je \in Seq(Journals) /\ Len(je) \in Nat
    BY <1>2, Facts, CallTypes DEF Create, LInv, WorldTypes
  <2>2. CASE je' = Append(je, k.draft)
    <3>1. /\ DOMAIN je' = 1 .. n /\ DOMAIN je = 1 .. Len(je) /\ je'[n] = k.draft
          /\ \A j \in 1 .. Len(je) : je'[j] = je[j]
      BY <2>1, <2>2, Appended
    <3>2. ~(je'[n].date <= closed /\ je'[n].status = "POSTED")
      BY <2>1, <3>1 DEF Guarded
    <3>3. \A j : j \in 1 .. n <=> j \in 1 .. Len(je) \/ j = n
      BY <2>1
    <3> QED BY <2>1, <3>1, <3>2, <3>3 DEF Locked
  <2> QED BY <1>1, <1>2, <2>2 DEF Create
<1>3. ASSUME NEW r \in Requests, WriteApprove(r) \/ WriteVoid(r) PROVE Locked' = Locked
  <2>1. PICK i : i = call[r].on
    OBVIOUS
  <2>2. i \in 1 .. Len(je) /\ ~(je[i].date <= closed)
    BY <1>3, <2>1, Facts DEF WriteApprove, WriteVoid, LInv, Sane, Guarded
  <2>3. \E v \in Statuses : je' = [je EXCEPT ![i].status = v]
    BY <1>3, <2>1 DEF WriteApprove, WriteVoid, Statuses
  <2> QED BY <2>2, <2>3, LockedStays
<1>4. \/ je' = je
      \/ \E r \in Requests : Create(r) \/ WriteApprove(r) \/ WriteVoid(r)
  BY DEF Next, vars, ledger, NextMonth, Number, Apply, Unapply, LoadPage, PostDue, Advance,
         Disarm, Arm, Rearm, ReadSettlement, WriteReceipt, WriteInvoice, Stop, SetClose,
         ReadPayment, Enter, ReadApprove, ReadVoid, ReverseEntry, ReverseDue
<1> QED BY <1>1, <1>2, <1>3, <1>4

\* Closed books stay as they are until the period is reopened, as long as the close date
\* is not set between a request's look at it and its write.
THEOREM ClosedMonthsStay ==
  ASSUME Separate = TRUE
  PROVE  Spec => ClosedBooksStay
<1>1. Init => LInv
  BY StartedApart
<1>2. LInv /\ [Next]_vars => LInv'
  BY CarriedApart
<1>3. LInv /\ [Next]_vars => [closed' = closed => Locked' = Locked]_vars
  BY StepKeepsClosed
<1> QED BY <1>1, <1>2, <1>3, PTL DEF Spec, ClosedBooksStay

-----------------------------------------------------------------------------
(* The template                                                            *)

\* From the load that reads the template to the write that moves it on, or from arming it
\* to its second write; InLoop leaves the arming out.
InLoop(k) == k.op = "due" \/ k.draft.source = "RECURRING"
OnTemplate(k) == InLoop(k) \/ k.op = "rearm"

\* The first month the loop of a request has not posted yet.
Position(k) == IF k.op \in {"due", "number", "create"} THEN k.at ELSE k.at + 1

Recurring(s, m) == {j \in DOMAIN s : s[j].source = "RECURRING" /\ s[j].date = m}

\* A loop posts the months up to t, each on its own date, and no further.
LoopFits(k, s, t) ==
  /\ k.op = "due" => k.at <= t + 1
  /\ k.draft.source = "RECURRING" =>
       /\ k.op \in {"number", "create", "apply"} /\ k.draft.date = k.at /\ k.at <= t
       /\ k.op = "apply" => s[k.on].source = "RECURRING"

\* From month n on, the journals s hold a month as often as one of the b loops that stopped
\* posted it.
FreshFrom(s, b, n) == \A m \in Months : m >= n => Cardinality(Recurring(s, m)) <= b

DInv ==
  /\ IInv
  /\ template.next <= today + 1
  /\ \A q, r \in Requests : q # r /\ OnTemplate(call[q]) => ~OnTemplate(call[r])
  /\ \A r \in Requests : LoopFits(call[r], je, today)
  /\ \A m \in Months : Cardinality(Recurring(je, m)) <= 1 + stops
  /\ (\A r \in Requests : ~InLoop(call[r])) => FreshFrom(je, stops, template.next)
  /\ \A r \in Requests : InLoop(call[r]) => FreshFrom(je, stops, Position(call[r]))


LEMMA TemplateMeans ==
  ASSUME Separate = TRUE, NEW r \in Requests, NEW q \in Requests \ {r}, Free(r, <<"template", 0>>)
  PROVE  ~OnTemplate(call[q])
<1>1. <<"template", 0>> \notin Holds(call[q])
  BY DEF Free
<1> QED BY <1>1 DEF Holds, OnTemplate, InLoop

\* Entries stay on their date and of their source: only a new one counts.
LEMMA RecurringGrows ==
  ASSUME NEW s \in Seq(Journals), NEW t \in Seq(Journals), Grows(s, t), NEW m
  PROVE  /\ IsFiniteSet(Recurring(s, m)) /\ IsFiniteSet(Recurring(t, m))
         /\ Cardinality(Recurring(s, m)) \in Nat /\ Cardinality(Recurring(t, m)) \in Nat
         /\ (Len(t) = Len(s) => Recurring(t, m) = Recurring(s, m))
         /\ Len(t) = Len(s) + 1 =>
              Recurring(t, m) = IF t[Len(t)].source = "RECURRING" /\ t[Len(t)].date = m
                                  THEN Recurring(s, m) \cup {Len(t)} ELSE Recurring(s, m)
<1>1. /\ DOMAIN s = 1 .. Len(s) /\ DOMAIN t = 1 .. Len(t) /\ Len(s) \in Nat /\ Len(t) \in Nat
      /\ \A j \in 1 .. Len(s) : t[j].source = s[j].source /\ t[j].date = s[j].date
  BY DEF Grows, SameEntry
<1>2. \A n \in Nat : IsFiniteSet(1 .. n)
  BY FS_Interval
<1>3. IsFiniteSet(Recurring(s, m)) /\ IsFiniteSet(Recurring(t, m))
  BY <1>1, <1>2, FS_Subset DEF Recurring
<1>4. Len(t) = Len(s) => Recurring(t, m) = Recurring(s, m)
  BY <1>1 DEF Recurring
<1>5. ASSUME Len(t) = Len(s) + 1
      PROVE  Recurring(t, m) = IF t[Len(t)].source = "RECURRING" /\ t[Len(t)].date = m
                                 THEN Recurring(s, m) \cup {Len(t)} ELSE Recurring(s, m)
  <2>1. \A j : j \in 1 .. Len(t) <=> j \in 1 .. Len(s) \/ j = Len(t)
    BY <1>1, <1>5
  <2>2. Len(t) \notin 1 .. Len(s)
    BY <1>1, <1>5
  <2> QED BY <1>1, <2>1, <2>2 DEF Recurring
<1> QED BY <1>3, <1>4, <1>5, FS_CardinalityType

LEMMA TemplateFacts ==
  ASSUME DInv, NEW r \in Requests
  PROVE  /\ call[r] \in Calls /\ Sane(call[r], je, receipts.sum) /\ LoopFits(call[r], je, today)
         /\ je \in Seq(Journals) /\ Len(je) \in Nat /\ today \in 1 .. Horizon /\ Horizon \in Nat
         /\ template.next \in 1 .. Horizon + 1 /\ template.next <= today + 1
         /\ template \in [active : BOOLEAN, next : 1 .. Horizon + 1]
         /\ stops \in Nat /\ call[r].at \in 1 .. Horizon + 1
         /\ Position(call[r]) \in Nat
         /\ \A q \in Requests : q # r /\ OnTemplate(call[r]) => ~OnTemplate(call[q])
<1>1. IInv
  BY DEF DInv
<1>2. call[r] \in Calls /\ Sane(call[r], je, receipts.sum) /\ WorldTypes /\ today \in 1 .. Horizon
  BY <1>1, Facts
<1>3. call[r].at \in 1 .. Horizon + 1
  BY <1>2, CallTypes
<1> QED BY <1>2, <1>3, BooksAssumption DEF DInv, WorldTypes, Position

\* A step of r that leaves it with k, and the journals larger.
LEMMA DueStepped ==
  ASSUME DInv, IInv', NEW r \in Requests, NEW k, Go(r, k), Grows(je, je'), today' = today,
         template'.next <= today + 1, LoopFits(k, je', today),
         OnTemplate(k) => \A q \in Requests \ {r} : ~OnTemplate(call[q]),
         \A m \in Months : Cardinality(Recurring(je', m)) <= 1 + stops',
         InLoop(k) => FreshFrom(je', stops', Position(k)),
         \A q \in Requests \ {r} : InLoop(call[q]) => FreshFrom(je', stops', Position(call[q])),
         ~InLoop(k) /\ (\A q \in Requests \ {r} : ~InLoop(call[q])) =>
           FreshFrom(je', stops', template'.next)
  PROVE  DInv'
<1>1. call' \in [Requests -> Calls] /\ \A q \in Requests : call'[q] = IF q = r THEN k ELSE call[q]
  BY DEF Go, IInv, DInv
<1>2. \A q \in Requests : LoopFits(call[q], je', today)
  <2>1. SUFFICES ASSUME NEW q \in Requests PROVE LoopFits(call[q], je', today)
    OBVIOUS
  <2>2. LoopFits(call[q], je, today) /\ Sane(call[q], je, receipts.sum)
    BY TemplateFacts
  <2>3. call[q].op = "apply" => je'[call[q].on].source = je[call[q].on].source
    BY <2>2 DEF Sane, Grows, SameEntry
  <2> QED BY <2>2, <2>3 DEF LoopFits
<1>3. \A q \in Requests : InLoop(call'[q]) => FreshFrom(je', stops', Position(call'[q]))
  BY <1>1
<1>4. (\A q \in Requests : ~InLoop(call'[q])) => FreshFrom(je', stops', template'.next)
  BY <1>1
<1>5. \A p, q \in Requests : p # q /\ OnTemplate(call'[p]) => ~OnTemplate(call'[q])
  BY <1>1 DEF DInv
<1>6. (\A q \in Requests : LoopFits(call'[q], je', today')) /\ template'.next <= today' + 1
  BY <1>1, <1>2
<1> QED BY <1>3, <1>4, <1>5, <1>6 DEF DInv

\* One that posts nothing recurring, and leaves the stops as they are.
LEMMA DueKept ==
  ASSUME DInv, IInv', NEW r \in Requests, NEW k, Go(r, k), Grows(je, je'),
         \A m \in Months : Recurring(je', m) = Recurring(je, m),
         today' = today, stops' = stops, template'.next <= today + 1,
         LoopFits(k, je', today),
         OnTemplate(k) => \A q \in Requests \ {r} : ~OnTemplate(call[q]),
         InLoop(k) => FreshFrom(je, stops, Position(k)),
         ~InLoop(k) /\ (\A q \in Requests \ {r} : ~InLoop(call[q])) =>
           FreshFrom(je, stops, template'.next)
  PROVE  DInv'
<1>1. \A n : FreshFrom(je, stops, n) => FreshFrom(je', stops', n)
  BY DEF FreshFrom
<1>2. \A q \in Requests : InLoop(call[q]) => FreshFrom(je', stops', Position(call[q]))
  BY <1>1 DEF DInv
<1>3. \A m \in Months : Cardinality(Recurring(je', m)) <= 1 + stops'
  BY DEF DInv
<1> QED BY <1>1, <1>2, <1>3, DueStepped

\* One of a request that has nothing to do with the template, before or after.
LEMMA QuietDue ==
  ASSUME DInv, IInv', NEW r \in Requests, NEW k, Go(r, k), Grows(je, je'),
         \A m \in Months : Recurring(je', m) = Recurring(je, m),
         UNCHANGED <<today, template, stops>>, ~InLoop(call[r]), ~OnTemplate(k)
  PROVE  DInv'
<1>1. template'.next <= today + 1
  BY TemplateFacts
<1>2. LoopFits(k, je', today) /\ ~InLoop(k)
  BY DEF LoopFits, OnTemplate, InLoop
<1>3. (\A q \in Requests \ {r} : ~InLoop(call[q])) => FreshFrom(je, stops, template'.next)
  BY DEF DInv
<1> QED BY <1>1, <1>2, <1>3, DueKept

LEMMA SameJournals ==
  ASSUME DInv, je' = je
  PROVE  Grows(je, je') /\ \A m \in Months : Recurring(je', m) = Recurring(je, m)
BY GrowsRefl DEF DInv, IInv, World, WorldTypes

\* One that goes on in the loop, and posts nothing.
LEMMA LoopDue ==
  ASSUME DInv, IInv', NEW r \in Requests, NEW k, Go(r, k), UNCHANGED <<je, today, template, stops>>,
         InLoop(call[r]), InLoop(k), Position(k) \in Nat, Position(k) >= Position(call[r]),
         LoopFits(k, je, today)
  PROVE  DInv'
<1>1. Grows(je, je') /\ \A m \in Months : Recurring(je', m) = Recurring(je, m)
  BY SameJournals
<1>2. template'.next <= today + 1 /\ \A q \in Requests \ {r} : ~OnTemplate(call[q])
  BY TemplateFacts DEF OnTemplate
<1>3. FreshFrom(je, stops, Position(k))
  <2>1. FreshFrom(je, stops, Position(call[r])) /\ Position(call[r]) \in Nat
    BY TemplateFacts DEF DInv
  <2>2. \A m \in Months : m \in Int
    BY DEF Months
  <2> QED BY <2>1, <2>2 DEF FreshFrom
<1> QED BY <1>1, <1>2, <1>3, DueKept

\* A request that posts or reads anything but what is due is not on the template.
LEMMA OffLoop ==
  ASSUME DInv, NEW r \in Requests, call[r].op \notin {"due", "number", "create", "apply"}
  PROVE  ~InLoop(call[r]) /\ call[r].draft.source # "RECURRING"
BY TemplateFacts DEF LoopFits, InLoop

LEMMA AfterDue ==
  ASSUME NEW k \in Calls
  PROVE  /\ k.draft.source # "RECURRING" => ~OnTemplate(After(k))
         /\ k.draft.source = "RECURRING" =>
              /\ After(k).op = "due" /\ After(k).at = k.at + 1 /\ After(k).draft = NoDraft
              /\ InLoop(After(k)) /\ Position(After(k)) = k.at + 1
<1>1. CASE k.draft.source = "RECURRING"
  <2>1. After(k) = [Idle EXCEPT !.op = "due", !.at = k.at + 1]
    BY <1>1 DEF After, NextRun
  <2>2. /\ After(k).op = "due" /\ After(k).at = k.at + 1 /\ After(k).draft = NoDraft
    BY <2>1 DEF Idle
  <2> QED BY <1>1, <2>2 DEF InLoop, Position
<1>2. CASE k.draft.source # "RECURRING"
  <2>1. /\ After(k).op \in {"idle", "reverse"} /\ After(k).draft = NoDraft
    BY <1>2 DEF After, Idle
  <2> QED BY <1>2, <2>1, IdleTypes DEF InLoop, OnTemplate
<1> QED BY <1>1, <1>2

\* The loop goes on to the next month.
LEMMA AfterLoopDue ==
  ASSUME DInv, IInv', NEW r \in Requests, Go(r, After(call[r])),
         UNCHANGED <<je, today, template, stops>>, call[r].op \in {"number", "create", "apply"}
  PROVE  DInv'
<1> DEFINE k == call[r]
<1>1. k \in Calls /\ LoopFits(k, je, today) /\ k.at \in Nat /\ today \in Nat
  BY TemplateFacts
<1>2. CASE k.draft.source = "RECURRING"
  <2>1. /\ InLoop(k) /\ InLoop(After(k)) /\ Position(After(k)) = k.at + 1
        /\ After(k).op = "due" /\ After(k).at = k.at + 1 /\ After(k).draft = NoDraft
        /\ Position(k) \in {k.at, k.at + 1}
    BY <1>1, <1>2, AfterDue DEF InLoop, Position
  <2>2. LoopFits(After(k), je, today)
    BY <1>1, <1>2, <2>1, IdleTypes DEF LoopFits
  <2>3. Position(After(k)) \in Nat /\ Position(After(k)) >= Position(k)
    BY <1>1, <2>1
  <2> QED BY <2>1, <2>2, <2>3, LoopDue
<1>3. CASE k.draft.source # "RECURRING"
  <2>1. ~InLoop(k) /\ ~OnTemplate(After(k))
    BY <1>1, <1>3, AfterDue DEF InLoop
  <2> QED BY <2>1, QuietDue, SameJournals
<1> QED BY <1>2, <1>3

LEMMA NumberDue ==
  ASSUME DInv, IInv', NEW r \in Requests, Number(r)
  PROVE  DInv'
<1> DEFINE k == call[r]
<1>1. /\ k \in Calls /\ LoopFits(k, je, today) /\ k.op = "number" /\ Position(k) \in Nat
      /\ UNCHANGED <<je, today, template, stops>>
  BY TemplateFacts DEF Number, ledger
<1>2. CASE Go(r, After(k))
  BY <1>1, <1>2, AfterLoopDue
<1>3. CASE Go(r, [k EXCEPT !.op = "create", !.on = Len(je)])
  <2>1. PICK c : c = [k EXCEPT !.op = "create", !.on = Len(je)]
    OBVIOUS
  <2>2. c.op = "create" /\ c.draft = k.draft /\ c.at = k.at
    BY <1>1, <2>1 DEF Calls
  <2>3. /\ LoopFits(c, je, today) /\ Position(c) = Position(k)
        /\ (InLoop(c) <=> InLoop(k)) /\ (OnTemplate(c) <=> InLoop(c))
    BY <1>1, <2>2 DEF LoopFits, Position, InLoop, OnTemplate
  <2>4. CASE InLoop(k)
    BY <1>1, <1>3, <2>1, <2>3, <2>4, LoopDue
  <2>5. CASE ~InLoop(k)
    BY <1>1, <1>3, <2>1, <2>3, <2>5, QuietDue, SameJournals
  <2> QED BY <2>4, <2>5
<1> QED BY <1>2, <1>3 DEF Number

\* The entry of a month that is due is posted for the first time, unless a loop stopped.
LEMMA CreateDue ==
  ASSUME DInv, IInv', NEW r \in Requests, Create(r)
  PROVE  DInv'
<1> DEFINE k == call[r]
           n == Len(je) + 1
<1>1. /\ k \in Calls /\ LoopFits(k, je, today) /\ k.op = "create" /\ k.at \in Nat /\ stops \in Nat
      /\ UNCHANGED <<today, template, stops>> /\ je \in Seq(Journals) /\ Len(je) \in Nat
      /\ k.draft \in Journals /\ today \in Nat
  BY TemplateFacts, CallTypes DEF Create
<1>2. CASE je' = je /\ Go(r, After(k))
  BY <1>1, <1>2, AfterLoopDue
<1>3. CASE je' = Append(je, k.draft) /\ (Go(r, After(k)) \/ Go(r, [k EXCEPT !.op = "apply", !.on = n]))
  <2>1. /\ je' \in Seq(Journals) /\ Len(je') = n /\ je'[n] = k.draft /\ Grows(je, je')
        /\ n \notin 1 .. Len(je)
    BY <1>1, <1>3, Appended DEF Grows, SameEntry
  <2>2. \A m \in Months :
          /\ IsFiniteSet(Recurring(je, m)) /\ Cardinality(Recurring(je, m)) \in Nat
          /\ Recurring(je', m) = IF k.draft.source = "RECURRING" /\ k.draft.date = m
                                   THEN Recurring(je, m) \cup {n} ELSE Recurring(je, m)
    BY <1>1, <2>1, RecurringGrows
  <2>3. \E c : /\ Go(r, c) /\ (InLoop(c) <=> InLoop(k)) /\ (OnTemplate(c) <=> InLoop(k))
               /\ (InLoop(k) => Position(c) = k.at + 1)
               /\ LoopFits(c, je', today)
    <3>1. CASE Go(r, After(k))
      <4>1. /\ ~InLoop(k) => ~OnTemplate(After(k))
            /\ InLoop(k) => /\ After(k).op = "due" /\ After(k).at = k.at + 1
                            /\ After(k).draft = NoDraft /\ InLoop(After(k))
                            /\ Position(After(k)) = k.at + 1 /\ k.at <= today
        BY <1>1, AfterDue DEF InLoop, LoopFits
      <4>2. LoopFits(After(k), je', today)
        BY <1>1, <4>1, IdleTypes DEF LoopFits, OnTemplate, InLoop
      <4> QED BY <3>1, <4>1, <4>2 DEF OnTemplate
    <3>2. CASE Go(r, [k EXCEPT !.op = "apply", !.on = n])
      <4>1. PICK c : c = [k EXCEPT !.op = "apply", !.on = n]
        OBVIOUS
      <4>2. c.op = "apply" /\ c.on = n /\ c.draft = k.draft /\ c.at = k.at
        BY <1>1, <4>1 DEF Calls
      <4>3. /\ (InLoop(c) <=> InLoop(k)) /\ (OnTemplate(c) <=> InLoop(k))
            /\ Position(c) = k.at + 1
        BY <1>1, <4>2 DEF InLoop, OnTemplate, Position
      <4>4. LoopFits(c, je', today)
        BY <1>1, <2>1, <4>2 DEF LoopFits
      <4> QED BY <3>2, <4>1, <4>3, <4>4
    <3> QED BY <1>3, <3>1, <3>2
  <2>4. PICK c : /\ Go(r, c) /\ (InLoop(c) <=> InLoop(k)) /\ (OnTemplate(c) <=> InLoop(k))
                 /\ (InLoop(k) => Position(c) = k.at + 1)
                 /\ LoopFits(c, je', today)
    BY <2>3
  <2>5. CASE ~InLoop(k)
    <3>1. \A m \in Months : Recurring(je', m) = Recurring(je, m)
      BY <2>2, <2>5 DEF InLoop
    <3> QED BY <1>1, <2>1, <2>4, <2>5, <3>1, QuietDue
  <2>6. CASE InLoop(k)
    <3>1. k.draft.source = "RECURRING" /\ k.draft.date = k.at /\ k.at \in Months
      BY <1>1, <2>6, CallTypes DEF InLoop, LoopFits
    <3>2. FreshFrom(je, stops, k.at) /\ \A q \in Requests \ {r} : ~OnTemplate(call[q])
      BY <1>1, <2>6, TemplateFacts DEF DInv, Position, OnTemplate
    <3>3. \A m \in Months :
            Cardinality(Recurring(je', m)) = IF m = k.at THEN Cardinality(Recurring(je, m)) + 1
                                             ELSE Cardinality(Recurring(je, m))
      <4>1. \A m \in Months : n \notin Recurring(je, m)
        BY <1>1, <2>1 DEF Recurring
      <4> QED BY <2>2, <3>1, <4>1, FS_AddElement
    <3>4. \A m \in Months : Cardinality(Recurring(je', m)) <= 1 + stops'
      BY <1>1, <2>2, <3>1, <3>2, <3>3 DEF DInv, FreshFrom, Months
    <3>5. FreshFrom(je', stops', k.at + 1)
      BY <1>1, <3>1, <3>2, <3>3 DEF FreshFrom, Months
    <3>6. template'.next <= today + 1 /\ \A q \in Requests \ {r} : ~InLoop(call[q])
      BY <1>1, <3>2, TemplateFacts DEF OnTemplate
    <3> QED BY <1>1, <2>1, <2>4, <2>6, <3>2, <3>4, <3>5, <3>6, DueStepped
  <2> QED BY <2>5, <2>6
<1> QED BY <1>1, <1>2, <1>3 DEF Create

LEMMA ApplyDue ==
  ASSUME DInv, IInv', NEW r \in Requests, Apply(r)
  PROVE  DInv'
<1> DEFINE k == call[r]
<1>1. /\ k \in Calls /\ LoopFits(k, je, today) /\ k.op = "apply"
      /\ UNCHANGED <<je, today, template, stops>>
  BY TemplateFacts DEF Apply
<1>2. CASE Go(r, After(k))
  BY <1>1, <1>2, AfterLoopDue
<1>3. CASE je[k.on].source = "AR_SETTLE" /\ Go(r, [k EXCEPT !.op = "settle"])
  <2>1. k.draft.source # "RECURRING"
    BY <1>1, <1>3 DEF LoopFits
  <2>2. PICK c : c = [k EXCEPT !.op = "settle"]
    OBVIOUS
  <2>3. c.op = "settle" /\ c.draft = k.draft
    BY <1>1, <2>2 DEF Calls
  <2>4. ~InLoop(k) /\ ~OnTemplate(c)
    BY <1>1, <2>1, <2>3 DEF InLoop, OnTemplate
  <2> QED BY <1>1, <1>3, <2>2, <2>4, QuietDue, SameJournals
<1> QED BY <1>2, <1>3 DEF Apply

LEMMA ListedOff ==
  /\ ~OnTemplate(Listed)
  /\ ~OnTemplate(Idle)
<1>1. Listed.op \in {"idle", "reverse"} /\ Listed.draft = NoDraft
  BY DEF Listed, Idle
<1> QED BY <1>1, IdleTypes DEF OnTemplate, InLoop

\* A page load reads when the template runs next, while nobody is on it.
LEMMA LoadPageDue ==
  ASSUME Separate = TRUE, DInv, IInv', NEW r \in Requests, LoadPage(r)
  PROVE  DInv'
<1>1. /\ UNCHANGED <<je, today, template, stops>> /\ call[r].op = "idle"
      /\ \A q \in Requests \ {r} : ~OnTemplate(call[q])
  BY TemplateMeans DEF LoadPage, ledger, Ready
<1>2. ~InLoop(call[r])
  BY <1>1, OffLoop
<1>3. CASE Go(r, Listed)
  BY <1>1, <1>2, <1>3, ListedOff, QuietDue, SameJournals
<1>4. CASE template.next <= today /\ Go(r, [Idle EXCEPT !.op = "due", !.at = template.next])
  <2>1. PICK c : c = [Idle EXCEPT !.op = "due", !.at = template.next]
    OBVIOUS
  <2>2. c.op = "due" /\ c.at = template.next /\ c.draft.source # "RECURRING"
    BY <2>1, IdleTypes DEF Idle
  <2>3. template.next <= today + 1
    BY TemplateFacts
  <2>4. LoopFits(c, je, today) /\ InLoop(c) /\ Position(c) = template.next
    BY <2>2, <2>3 DEF LoopFits, InLoop, Position
  <2>5. FreshFrom(je, stops, template.next)
    BY <1>1, <1>2 DEF DInv, OnTemplate
  <2>6. template'.next <= today + 1 /\ FreshFrom(je, stops, Position(c)) /\ Go(r, c)
    BY <1>1, <1>4, <2>1, <2>3, <2>4, <2>5
  <2> QED BY <1>1, <2>4, <2>6, SameJournals, DueKept
<1> QED BY <1>3, <1>4 DEF LoadPage

LEMMA PostDueDue ==
  ASSUME DInv, IInv', NEW r \in Requests, PostDue(r)
  PROVE  DInv'
<1> DEFINE k == call[r]
<1>1. /\ UNCHANGED <<je, today, template, stops>> /\ k.op = "due" /\ k.at <= today
      /\ k \in Calls /\ Position(k) \in Nat /\ k.at \in Nat
  BY TemplateFacts DEF PostDue, ledger
<1>2. PICK d : d = [Draft("POSTED", k.at, 1, "RECURRING")
                      EXCEPT !.reverseOn = IF AutoReverse THEN k.at + 1 ELSE 0]
  OBVIOUS
<1>3. d.source = "RECURRING" /\ d.date = k.at
  BY <1>2 DEF Draft
<1>4. PICK c : c = [k EXCEPT !.op = "number", !.draft = d]
  OBVIOUS
<1>5. c.op = "number" /\ c.draft = d /\ c.at = k.at /\ Go(r, c)
  BY <1>1, <1>2, <1>4 DEF Calls, PostDue
<1>6. /\ LoopFits(c, je, today) /\ InLoop(c) /\ InLoop(k) /\ Position(c) = Position(k)
  BY <1>1, <1>3, <1>5 DEF LoopFits, InLoop, Position
<1> QED BY <1>1, <1>5, <1>6, LoopDue

\* The loop is done with all the months up to today, and the template moves on.
LEMMA AdvanceDue ==
  ASSUME DInv, IInv', NEW r \in Requests, Advance(r)
  PROVE  DInv'
<1> DEFINE k == call[r]
<1>1. /\ UNCHANGED <<je, today, stops>> /\ k.op = "due" /\ k.at \in Nat /\ k.at <= today + 1
      /\ template' = [template EXCEPT !.next = k.at] /\ Go(r, Listed)
      /\ template \in [active : BOOLEAN, next : 1 .. Horizon + 1]
  BY TemplateFacts DEF Advance, ledger, LoopFits
<1>2. template'.next = k.at
  BY <1>1
<1>3. FreshFrom(je, stops, k.at)
  BY <1>1 DEF DInv, InLoop, Position
<1>4. ~OnTemplate(Listed) /\ ~InLoop(Listed) /\ LoopFits(Listed, je', today)
  BY ListedOff DEF LoopFits, OnTemplate, InLoop
<1> QED BY <1>1, <1>2, <1>3, <1>4, SameJournals, DueKept

\* The template is disarmed or armed, or armed for the next month, while nobody posts.
LEMMA ArmDue ==
  ASSUME Separate = TRUE, DInv, IInv', NEW r \in Requests, Arm(r) \/ Rearm(r) \/ Disarm(r)
  PROVE  DInv'
<1>1. /\ UNCHANGED <<je, today, stops>> /\ call[r].op \in {"idle", "rearm"}
      /\ \A q \in Requests \ {r} : ~OnTemplate(call[q])
  BY TemplateMeans, TemplateFacts DEF Arm, Rearm, Disarm, ledger, Ready, OnTemplate
<1>2. ~InLoop(call[r])
  BY <1>1, OffLoop
<1>3. /\ template \in [active : BOOLEAN, next : 1 .. Horizon + 1]
      /\ template.next \in Nat /\ template.next <= today + 1 /\ today \in Nat
  BY TemplateFacts
<1>4. FreshFrom(je, stops, template.next)
  BY <1>1, <1>2 DEF DInv, OnTemplate
<1>5. CASE Disarm(r)
  <2>1. call' = call /\ template'.next = template.next
    BY <1>3, <1>5 DEF Disarm
  <2> QED BY <1>1, <2>1 DEF DInv
<1>6. CASE Arm(r)
  <2>1. PICK c : c = [Idle EXCEPT !.op = "rearm"]
    OBVIOUS
  <2>2. c.op = "rearm" /\ c.draft = NoDraft
    BY <2>1 DEF Idle
  <2>3. ~InLoop(c) /\ LoopFits(c, je', today)
    BY <2>2, IdleTypes DEF InLoop, LoopFits
  <2>4. template'.next = template.next /\ Go(r, c)
    BY <1>3, <1>6, <2>1 DEF Arm
  <2> QED BY <1>1, <1>3, <1>4, <2>3, <2>4, SameJournals, DueKept
<1>7. CASE Rearm(r)
  <2>1. template'.next = today + 1 /\ Go(r, Idle)
    BY <1>3, <1>7 DEF Rearm, NextRun
  <2>2. FreshFrom(je, stops, today + 1)
    BY <1>3, <1>4 DEF FreshFrom, Months
  <2>3. ~OnTemplate(Idle) /\ ~InLoop(Idle) /\ LoopFits(Idle, je', today)
    BY ListedOff DEF LoopFits, OnTemplate, InLoop
  <2> QED BY <1>1, <1>3, <2>1, <2>2, <2>3, SameJournals, DueKept
<1> QED BY <1>5, <1>6, <1>7

\* A loop that stops may leave a month posted that the template has yet to run for.
LEMMA StopDue ==
  ASSUME DInv, IInv', NEW r \in Requests, Stop(r)
  PROVE  DInv'
<1>1. /\ UNCHANGED <<je, today, template>> /\ stops' = stops + 1 /\ Go(r, Idle)
      /\ template'.next <= today + 1 /\ stops \in Nat
  BY TemplateFacts DEF Stop, ledger
<1>2. ~OnTemplate(Idle) /\ ~InLoop(Idle) /\ LoopFits(Idle, je', today)
  BY ListedOff DEF LoopFits, OnTemplate, InLoop
<1>3. \A m \in Months : Cardinality(Recurring(je, m)) \in Nat /\ Cardinality(Recurring(je, m)) <= 1 + stops
  BY RecurringGrows, GrowsRefl, TemplateFacts DEF DInv
<1>4. \A m \in Months : Cardinality(Recurring(je', m)) <= stops'
  BY <1>1, <1>3
<1>5. \A n : FreshFrom(je', stops', n)
  BY <1>4 DEF FreshFrom
<1>6. \A m \in Months : Cardinality(Recurring(je', m)) <= 1 + stops'
  BY <1>1, <1>3
<1> QED BY <1>1, <1>2, <1>5, <1>6, SameJournals, DueStepped

\* The status of an entry is written: the months posted stay as they are.
LEMMA StatusDue ==
  ASSUME DInv, IInv', NEW r \in Requests, WriteApprove(r) \/ WriteVoid(r)
  PROVE  DInv'
<1> DEFINE k == call[r]
<1>1. /\ k \in Calls /\ UNCHANGED <<today, closed, balance, template, receivable, stops>> /\ IInv
      /\ k.op \in {"approve", "void"} /\ k.on \in 1 .. Len(je)
  BY TemplateFacts DEF WriteApprove, WriteVoid, DInv, Sane
<1>2. Grows(je, je') /\ Len(je') = Len(je)
  <2>1. PICK i : i = k.on
    OBVIOUS
  <2>2. \E v \in Statuses : je' = [je EXCEPT ![i].status = v]
    BY <2>1 DEF WriteApprove, WriteVoid, Statuses
  <2> QED BY <1>1, <2>1, <2>2, StatusStep
<1>3. \A m \in Months : Recurring(je', m) = Recurring(je, m)
  BY <1>1, <1>2, RecurringGrows DEF IInv, World, WorldTypes
<1>4. ~InLoop(k) /\ k.draft.source # "RECURRING"
  BY <1>1, OffLoop
<1>5. \E c : Go(r, c) /\ ~OnTemplate(c)
  <2>1. CASE WriteApprove(r)
    <3>1. PICK c : c = [k EXCEPT !.op = "apply"]
      OBVIOUS
    <3>2. c.op = "apply" /\ c.draft = k.draft
      BY <1>1, <3>1 DEF Calls
    <3> QED BY <1>4, <2>1, <3>1, <3>2 DEF WriteApprove, OnTemplate, InLoop
  <2>2. CASE WriteVoid(r)
    BY <2>2, ListedOff DEF WriteVoid
  <2> QED BY <2>1, <2>2
<1> QED BY <1>1, <1>2, <1>3, <1>4, <1>5, QuietDue

\* Requests that have nothing to do with the template.
LEMMA PlainDue ==
  ASSUME DInv, IInv', NEW r \in Requests,
         \/ Unapply(r) \/ ReadSettlement(r) \/ WriteReceipt(r) \/ WriteInvoice(r)
         \/ \E a \in Amounts : ReadPayment(r, a)
         \/ \E a \in Amounts, e \in Entries : Enter(r, a, e)
         \/ \E j \in DOMAIN je :
              ReadApprove(r, j) \/ ReadVoid(r, j) \/ ReverseEntry(r, j) \/ ReverseDue(r, j)
  PROVE  DInv'
<1> DEFINE k == call[r]
<1>1. /\ k \in Calls /\ UNCHANGED <<je, today, template, stops>>
      /\ k.op \notin {"due", "number", "create", "apply"}
  BY TemplateFacts DEF Unapply, ReadSettlement, WriteReceipt, WriteInvoice, ReadPayment, Enter,
     ReadApprove, ReadVoid, ReverseEntry, ReverseDue, ledger, Ready
<1>2. ~InLoop(k) /\ k.draft.source # "RECURRING"
  BY <1>1, OffLoop
<1>3. ASSUME NEW c, Go(r, c), ~OnTemplate(c) PROVE DInv'
  BY <1>1, <1>2, <1>3, QuietDue, SameJournals
<1>4. ~OnTemplate(After(k))
  BY <1>1, <1>2, AfterDue
<1>5. ASSUME NEW o, o \notin {"due", "rearm"}, Go(r, [k EXCEPT !.op = o]) PROVE DInv'
  <2>1. PICK c : c = [k EXCEPT !.op = o]
    OBVIOUS
  <2>2. c.op = o /\ c.draft = k.draft
    BY <1>1, <2>1 DEF Calls
  <2> QED BY <1>2, <1>3, <1>5, <2>1, <2>2 DEF OnTemplate, InLoop
<1>6. CASE Unapply(r)
  BY <1>5, <1>6 DEF Unapply
<1>7. CASE WriteReceipt(r)
  BY <1>5, <1>7 DEF WriteReceipt
<1>8. CASE WriteInvoice(r)
  BY <1>3, <1>4, <1>5, <1>8 DEF WriteInvoice
<1>9. CASE ReadSettlement(r)
  <2>1. PICK p, d : /\ p = NewPaid(-je[k.on].amt)
                    /\ d = Draft("POSTED", 1, -Lesser(-je[k.on].amt, Total - invoice.paid), "AR_SETTLE")
    OBVIOUS
  <2>2. PICK c : c = [k EXCEPT !.op = "receipt", !.paid = p, !.draft = d]
    OBVIOUS
  <2>3. c.op = "receipt" /\ c.draft.source = "AR_SETTLE"
    BY <1>1, <2>1, <2>2 DEF Calls, Draft
  <2>4. Go(r, After(k)) \/ Go(r, c)
    BY <1>9, <2>1, <2>2 DEF ReadSettlement
  <2> QED BY <1>3, <1>4, <2>3, <2>4 DEF OnTemplate, InLoop
<1>10. ASSUME NEW a \in Amounts, ReadPayment(r, a) PROVE DInv'
  <2>1. PICK c : c = [Idle EXCEPT !.op = "receipt", !.paid = NewPaid(a), !.at = 1,
                         !.draft = Draft("POSTED", today, -a, "AR")]
    OBVIOUS
  <2>2. c.op = "receipt" /\ c.draft.source = "AR"
    BY <2>1 DEF Idle, Draft
  <2>3. Go(r, c)
    BY <1>10, <2>1 DEF ReadPayment
  <2> QED BY <1>3, <2>2, <2>3 DEF OnTemplate, InLoop
<1>11. ASSUME NEW a \in Amounts, NEW e \in Entries, Enter(r, a, e) PROVE DInv'
  <2>1. PICK d : d = [Draft(e.status, today, IF e.settles THEN -a ELSE a,
                            IF e.settles THEN "AR_SETTLE" ELSE "MANUAL")
                        EXCEPT !.reverseOn = IF e.accrual THEN today + 1 ELSE 0]
    OBVIOUS
  <2>2. PICK c : c = [Idle EXCEPT !.op = "number", !.draft = d]
    OBVIOUS
  <2>3. c.op = "number" /\ c.draft.source \in {"AR_SETTLE", "MANUAL"}
    BY <2>1, <2>2 DEF Idle, Draft
  <2>4. Go(r, c)
    BY <1>11, <2>1, <2>2 DEF Enter
  <2> QED BY <1>3, <2>3, <2>4 DEF OnTemplate, InLoop
<1>12. ASSUME NEW j \in DOMAIN je, ReadApprove(r, j) \/ ReadVoid(r, j) PROVE DInv'
  <2>1. PICK o, c : /\ o \in {"approve", "unapply", "void"} /\ c = [Idle EXCEPT !.op = o, !.on = j]
                    /\ Go(r, c)
    BY <1>12 DEF ReadApprove, ReadVoid, VoidFrom
  <2>2. c.op = o /\ c.draft = NoDraft
    BY <2>1 DEF Idle
  <2> QED BY <1>3, <2>1, <2>2, IdleTypes DEF OnTemplate, InLoop
<1>13. ASSUME NEW j \in DOMAIN je, ReverseEntry(r, j) \/ ReverseDue(r, j) PROVE DInv'
  <2>1. \A t, m : LET c == [Idle EXCEPT !.op = "number", !.todo = t, !.draft = Mirror(j, m)] IN
                  c.op = "number" /\ c.draft.source = "REVERSAL"
    BY DEF Idle, Mirror, Draft
  <2>2. \A m : LET c == [Idle EXCEPT !.op = "number", !.draft = Mirror(j, m)] IN
               c.op = "number" /\ c.draft.source = "REVERSAL"
    BY DEF Idle, Mirror, Draft
  <2>3. \A t : LET c == [Idle EXCEPT !.op = "reverse", !.todo = t] IN
               c.op = "reverse" /\ c.draft.source = "MANUAL"
    BY IdleTypes DEF Idle
  <2>4. ASSUME NEW c, Go(r, c), c.op \in {"number", "reverse"}, c.draft.source \in {"REVERSAL", "MANUAL"}
        PROVE  DInv'
    BY <1>3, <2>4 DEF OnTemplate, InLoop
  <2>5. CASE ReverseEntry(r, j)
    BY <2>2, <2>4, <2>5 DEF ReverseEntry
  <2>6. CASE ReverseDue(r, j)
    <3>1. PICK t, m : t = call[r].todo \ {j} /\ m = je[j].reverseOn
      OBVIOUS
    <3>2. \/ Go(r, [Idle EXCEPT !.op = "number", !.todo = t, !.draft = Mirror(j, m)])
          \/ Go(r, Idle)
          \/ Go(r, [Idle EXCEPT !.op = "reverse", !.todo = t])
      BY <2>6, <3>1 DEF ReverseDue
    <3>3. CASE Go(r, [Idle EXCEPT !.op = "number", !.todo = t, !.draft = Mirror(j, m)])
      BY <2>1, <2>4, <3>3
    <3>4. CASE Go(r, [Idle EXCEPT !.op = "reverse", !.todo = t])
      BY <2>3, <2>4, <3>4
    <3> QED BY <1>3, <3>2, <3>3, <3>4, ListedOff
  <2> QED BY <1>13, <2>5, <2>6
<1> QED BY <1>6, <1>7, <1>8, <1>9, <1>10, <1>11, <1>12, <1>13

\* The months pass, and the books are closed and reopened.
LEMMA ClockDue ==
  ASSUME DInv, IInv', NextMonth \/ (\E r \in Requests, m \in CloseDates : SetClose(r, m))
  PROVE  DInv'
<1>1. UNCHANGED <<je, template, stops, call>> /\ today' \in {today, today + 1} /\ today \in Nat
      /\ template.next \in Nat
  BY BooksAssumption DEF NextMonth, SetClose, ledger, DInv, IInv, World, WorldTypes, Months
<1>2. \A r \in Requests : call[r].at \in Nat /\ LoopFits(call[r], je, today)
  BY TemplateFacts
<1>3. \A r \in Requests : LoopFits(call[r], je, today')
  BY <1>1, <1>2 DEF LoopFits
<1> QED BY <1>1, <1>3 DEF DInv

LEMMA StartedDue == Init => DInv
<1> SUFFICES ASSUME Init PROVE DInv
  OBVIOUS
<1>1. IInv /\ je = <<>> /\ stops = 0 /\ template.next = 1 /\ today = 1
  BY Started DEF Init
<1>2. \A r \in Requests : call[r] = Idle /\ ~OnTemplate(call[r]) /\ ~InLoop(call[r])
  BY ListedOff DEF Init, OnTemplate
<1>3. \A r \in Requests : LoopFits(call[r], je, today)
  BY <1>2 DEF LoopFits, InLoop
<1>4. \A m \in Months : Cardinality(Recurring(je, m)) = 0
  <2>1. \A m : Recurring(je, m) = {}
    BY <1>1 DEF Recurring
  <2> QED BY <2>1, FS_EmptySet
<1> QED BY <1>1, <1>2, <1>3, <1>4 DEF DInv, FreshFrom

LEMMA CarriedDue ==
  ASSUME Separate = TRUE
  PROVE  DInv /\ [Next]_vars => DInv'
<1> SUFFICES ASSUME DInv, [Next]_vars PROVE DInv'
  OBVIOUS
<1>1. IInv'
  BY Carried DEF DInv
<1>2. CASE UNCHANGED vars
  BY <1>1, <1>2 DEF vars, ledger, DInv
<1>3. ASSUME NEW r \in Requests,
             \/ Number(r) \/ Create(r) \/ Apply(r) \/ WriteApprove(r) \/ Unapply(r) \/ WriteVoid(r)
             \/ LoadPage(r) \/ PostDue(r) \/ Advance(r) \/ Disarm(r) \/ Arm(r) \/ Rearm(r)
             \/ ReadSettlement(r) \/ WriteReceipt(r) \/ WriteInvoice(r) \/ Stop(r)
      PROVE  DInv'
  BY <1>1, <1>3, NumberDue, CreateDue, ApplyDue, StatusDue, PlainDue, LoadPageDue, PostDueDue,
     AdvanceDue, ArmDue, StopDue
<1>4. ASSUME NEW r \in Requests,
             \/ \E m \in CloseDates : SetClose(r, m)
             \/ \E a \in Amounts : ReadPayment(r, a)
             \/ \E a \in Amounts, e \in Entries : Enter(r, a, e)
             \/ \E j \in DOMAIN je :
                  ReadApprove(r, j) \/ ReadVoid(r, j) \/ ReverseEntry(r, j) \/ ReverseDue(r, j)
      PROVE  DInv'
  BY <1>1, <1>4, PlainDue, ClockDue
<1> QED BY <1>1, <1>2, <1>3, <1>4, ClockDue DEF Next

\* While one request at a time is on the template, each month is posted once, and once more
\* at most for each load that stopped before it moved the template on: a month is posted
\* again only when the template was left behind.
THEOREM DueMonthsPostedOnce ==
  ASSUME Separate = TRUE
  PROVE  Spec => []DuePostedOnce
<1>1. DInv => DuePostedOnce
  BY DEF DInv, DuePostedOnce, Recurring
<1>2. Init => DInv
  BY StartedDue
<1>3. DInv /\ [Next]_vars => DInv'
  BY CarriedDue
<1> QED BY <1>1, <1>2, <1>3, PTL DEF Spec

-----------------------------------------------------------------------------
(* Sums over the journals                                                  *)

\* A set of naturals has a least member.
LEMMA Least ==
  ASSUME NEW T \in SUBSET Nat, T # {}
  PROVE  \E n \in T : \A m \in T : n <= m
<1>1. PICK t \in T : TRUE
  OBVIOUS
<1>2. PICK n \in T : \A m \in T : ~(<<m, n>> \in OpToRel(<, Nat))
  BY NatLessThanWellFounded, WFMin
<1>3. \A m \in T : ~(m < n)
  BY <1>2 DEF OpToRel
<1> QED BY <1>3

\* Induction, with the property given as the set S of the numbers that have it.
LEMMA SetInduction ==
  ASSUME NEW S, 0 \in S, \A n \in Nat : n \in S => n + 1 \in S
  PROVE  Nat \subseteq S
<1> DEFINE bad == Nat \ S
<1> SUFFICES ASSUME bad # {} PROVE FALSE
  OBVIOUS
<1>1. PICK n \in bad : \A m \in bad : n <= m
  <2> HIDE DEF bad
  <2>1. bad \in SUBSET Nat
    BY DEF bad
  <2> QED BY <2>1, Least
<1>2. n - 1 \in Nat /\ n - 1 \notin bad
  BY <1>1
<1> QED BY <1>1, <1>2

\* The sums of the first members of w, as a function.
AreTallies(w, f) == f = [n \in Nat |-> IF n = 0 THEN 0 ELSE f[n - 1] + w[n]]
Tallies(w) == CHOOSE f : AreTallies(w, f)

\* The same up to the n-th.
AreTalliesTo(w, g, n) == g = [k \in 0 .. n |-> IF k = 0 THEN 0 ELSE g[k - 1] + w[k]]

\* The first tallies exist, and they are the same however far they go.
LEMMA TalliesAgree ==
  ASSUME NEW w, NEW m \in Nat, NEW n \in Nat, NEW g, NEW h, AreTalliesTo(w, g, m), AreTalliesTo(w, h, n)
  PROVE  \A k \in Nat : k <= m /\ k <= n => g[k] = h[k]
<1> DEFINE S == {k \in Nat : k <= m /\ k <= n => g[k] = h[k]}
<1>0. /\ \A k \in 0 .. m : g[k] = IF k = 0 THEN 0 ELSE g[k - 1] + w[k]
      /\ \A k \in 0 .. n : h[k] = IF k = 0 THEN 0 ELSE h[k - 1] + w[k]
  BY DEF AreTalliesTo
<1>1. 0 \in S
  BY <1>0
<1>2. ASSUME NEW k \in Nat, k \in S PROVE k + 1 \in S
  <2>1. SUFFICES ASSUME k + 1 <= m, k + 1 <= n PROVE g[k + 1] = h[k + 1]
    OBVIOUS
  <2>2. k + 1 # 0 /\ (k + 1) - 1 = k /\ k + 1 \in 0 .. m /\ k + 1 \in 0 .. n
    BY <2>1
  <2>3. g[k + 1] = g[k] + w[k + 1] /\ h[k + 1] = h[k] + w[k + 1]
    BY <1>0, <2>2
  <2>4. g[k] = h[k]
    BY <1>2, <2>1
  <2> QED BY <2>3, <2>4
<1>3. Nat \subseteq S
  <2> HIDE DEF S
  <2> QED BY <1>1, <1>2, SetInduction
<1> QED BY <1>3

LEMMA TalliesTo ==
  ASSUME NEW w
  PROVE  \A n \in Nat : \E g : AreTalliesTo(w, g, n)
<1> DEFINE S == {n \in Nat : \E g : AreTalliesTo(w, g, n)}
<1>1. 0 \in S
  <2>1. AreTalliesTo(w, [k \in 0 .. 0 |-> 0], 0)
    BY DEF AreTalliesTo
  <2> QED BY <2>1
<1>2. ASSUME NEW n \in Nat, n \in S PROVE n + 1 \in S
  <2>1. PICK g : AreTalliesTo(w, g, n)
    BY <1>2
  <2>2. \A k \in 0 .. n : g[k] = IF k = 0 THEN 0 ELSE g[k - 1] + w[k]
    BY <2>1 DEF AreTalliesTo
  <2>3. PICK h : h = [k \in 0 .. n + 1 |-> IF k = n + 1 THEN g[n] + w[n + 1] ELSE g[k]]
    OBVIOUS
  <2>4. \A k \in 0 .. n + 1 : h[k] = IF k = 0 THEN 0 ELSE h[k - 1] + w[k]
    <3>1. ASSUME NEW k \in 0 .. n + 1 PROVE h[k] = IF k = 0 THEN 0 ELSE h[k - 1] + w[k]
      <4>1. CASE k = n + 1
        <5>1. k - 1 = n /\ k # 0 /\ n \in 0 .. n + 1 /\ n # n + 1
          BY <4>1
        <5> QED BY <2>3, <4>1, <5>1
      <4>2. CASE k # n + 1
        <5>1. k \in 0 .. n /\ (k # 0 => k - 1 \in 0 .. n + 1 /\ k - 1 # n + 1)
          BY <4>2
        <5> QED BY <2>2, <2>3, <4>2, <5>1
      <4> QED BY <4>1, <4>2
    <3> QED BY <3>1
  <2>5. AreTalliesTo(w, h, n + 1)
    BY <2>3, <2>4 DEF AreTalliesTo
  <2> QED BY <2>5
<1>3. Nat \subseteq S
  <2> HIDE DEF S
  <2> QED BY <1>1, <1>2, SetInduction
<1> QED BY <1>3

\* So all the tallies do: the recursive definition has a value.
LEMMA TalliesExist ==
  ASSUME NEW w
  PROVE  \E f : AreTallies(w, f)
<1> DEFINE G(n) == CHOOSE g : AreTalliesTo(w, g, n)
           f == [n \in Nat |-> G(n)[n]]
<1>1. \A n \in Nat : AreTalliesTo(w, G(n), n)
  BY TalliesTo
<1>2. ASSUME NEW n \in Nat PROVE f[n] = IF n = 0 THEN 0 ELSE f[n - 1] + w[n]
  <2>1. f[n] = G(n)[n] /\ (n # 0 => n - 1 \in Nat /\ f[n - 1] = G(n - 1)[n - 1])
    OBVIOUS
  <2> HIDE DEF f, G
  <2>2. G(n)[n] = IF n = 0 THEN 0 ELSE G(n)[n - 1] + w[n]
    <3>1. AreTalliesTo(w, G(n), n)
      BY <1>1
    <3> QED BY <3>1 DEF AreTalliesTo
  <2>3. n # 0 => G(n - 1)[n - 1] = G(n)[n - 1]
    <3>1. SUFFICES ASSUME n # 0 PROVE G(n - 1)[n - 1] = G(n)[n - 1]
      OBVIOUS
    <3>2. n - 1 \in Nat /\ n - 1 <= n
      BY <3>1
    <3>3. AreTalliesTo(w, G(n), n) /\ AreTalliesTo(w, G(n - 1), n - 1)
      BY <1>1, <3>2
    <3> QED BY <3>2, <3>3, TalliesAgree
  <2> QED BY <2>1, <2>2, <2>3
<1>3. f = [n \in Nat |-> f[n]]
  OBVIOUS
<1>4. AreTallies(w, f)
  <2> HIDE DEF f
  <2> QED BY <1>2, <1>3 DEF AreTallies
<1> QED BY <1>4

\* Two tallies of numbers that are the same but for the i-th.
LEMMA TallyMoves ==
  ASSUME NEW v, NEW w, NEW f, NEW g, AreTallies(v, f), AreTallies(w, g), NEW n \in Nat,
         \A k \in 1 .. n : v[k] \in Int /\ w[k] \in Int,
         NEW i, \A k \in 1 .. n : k # i => w[k] = v[k]
  PROVE  /\ f[n] \in Int
         /\ g[n] = IF i \in 1 .. n THEN f[n] + (w[i] - v[i]) ELSE f[n]
<1> DEFINE S == {m \in Nat : m <= n =>
                   /\ f[m] \in Int
                   /\ g[m] = IF i \in 1 .. m THEN f[m] + (w[i] - v[i]) ELSE f[m]}
<1>0. \A m \in Nat : /\ f[m] = IF m = 0 THEN 0 ELSE f[m - 1] + v[m]
                     /\ g[m] = IF m = 0 THEN 0 ELSE g[m - 1] + w[m]
  BY DEF AreTallies
<1>1. 0 \in S
  BY <1>0
<1>2. ASSUME NEW m \in Nat, m \in S PROVE m + 1 \in S
  <2>1. SUFFICES ASSUME m + 1 <= n
                 PROVE  /\ f[m + 1] \in Int
                        /\ g[m + 1] = IF i \in 1 .. m + 1 THEN f[m + 1] + (w[i] - v[i]) ELSE f[m + 1]
    OBVIOUS
  <2>2. m + 1 # 0 /\ (m + 1) - 1 = m /\ m + 1 \in Nat /\ m + 1 \in 1 .. n /\ m <= n
    BY <2>1
  <2>3. f[m + 1] = f[m] + v[m + 1] /\ g[m + 1] = g[m] + w[m + 1]
    BY <1>0, <2>2
  <2>4. f[m] \in Int /\ g[m] = IF i \in 1 .. m THEN f[m] + (w[i] - v[i]) ELSE f[m]
    BY <1>2, <2>2
  <2>5. v[m + 1] \in Int /\ w[m + 1] \in Int
    BY <2>2
  <2>6. CASE i = m + 1
    <3>1. i \notin 1 .. m /\ i \in 1 .. m + 1
      BY <2>6
    <3> QED BY <2>3, <2>4, <2>5, <2>6, <3>1
  <2>7. CASE i # m + 1
    <3>1. i \in 1 .. m + 1 <=> i \in 1 .. m
      BY <2>7
    <3>2. w[m + 1] = v[m + 1]
      BY <2>2, <2>7
    <3>3. i \in 1 .. m => v[i] \in Int /\ w[i] \in Int
      BY <2>2
    <3> QED BY <2>3, <2>4, <2>5, <3>1, <3>2, <3>3
  <2> QED BY <2>6, <2>7
<1>3. Nat \subseteq S
  <2> HIDE DEF S
  <2> QED BY <1>1, <1>2, SetInduction
<1> QED BY <1>3

-----------------------------------------------------------------------------
(* The balance                                                             *)

\* The entry whose posting is not in the balance yet, or whose voiding is there already.
Pending(k) == IF k.op \in {"apply", "void"} THEN {k.on} ELSE {}
AllPending(c) == UNION {Pending(c[r]) : r \in Requests}

\* What an entry adds to the balance, those of T left out.
Worth(s, T) == [n \in Nat |-> IF s[n].status = "POSTED" /\ n \notin T THEN s[n].amt ELSE 0]

\* What is applied or taken out again is posted.
Posts(k, s) == k.op \in {"apply", "unapply"} => s[k.on].status = "POSTED"

Balanced(s, c, b) == b = Tallies(Worth(s, AllPending(c)))[Len(s)]

BInv ==
  /\ LInv
  /\ \A r \in Requests : Posts(call[r], je)
  /\ stops = 0 => Balanced(je, call, balance)

LEMMA WorthIsWhole ==
  ASSUME NEW s \in Seq(Journals), NEW T
  PROVE  /\ AreTallies(Worth(s, T), Tallies(Worth(s, T)))
         /\ \A n \in 1 .. Len(s) :
              /\ Worth(s, T)[n] \in Int /\ s[n].amt \in Int
              /\ Worth(s, T)[n] = IF s[n].status = "POSTED" /\ n \notin T THEN s[n].amt ELSE 0
<1>1. AreTallies(Worth(s, T), Tallies(Worth(s, T)))
  BY TalliesExist DEF Tallies
<1>2. \A n \in 1 .. Len(s) : s[n] \in Journals /\ n \in Nat
  OBVIOUS
<1>3. \A n \in 1 .. Len(s) : s[n].amt \in Int
  BY <1>2 DEF Journals
<1> QED BY <1>1, <1>2, <1>3 DEF Worth

\* A request works on what is pending for it, so that nobody else does.
LEMMA PendingAlone ==
  ASSUME BInv, NEW r \in Requests, call[r].op \in {"apply", "approve", "unapply", "void"}
  PROVE  /\ call[r].on \in 1 .. Len(je) /\ call[r].on \in Nat
         /\ \A q \in Requests \ {r} :
              /\ call[r].on \notin Pending(call[q])
              /\ call[q].op \in {"apply", "approve", "unapply", "void"} => call[q].on # call[r].on
<1>1. LInv /\ IInv
  BY DEF BInv, LInv
<1>2. \A q \in Requests : Sane(call[q], je, receipts.sum) /\ Len(je) \in Nat
  BY <1>1, Facts
<1>3. call[r].on \in 1 .. Len(je) /\ call[r].on \in WorksOn(call[r])
  BY <1>2 DEF Sane, WorksOn
<1>4. \A q \in Requests \ {r} : call[r].on \notin WorksOn(call[q])
  BY <1>1, <1>3 DEF LInv, Apart
<1> QED BY <1>2, <1>3, <1>4 DEF Pending, WorksOn

\* A step of r that leaves it with k and changes at most the status of entry i, and what
\* i adds to the balance.
LEMMA Booked ==
  ASSUME BInv, LInv', NEW r \in Requests, NEW k, Go(r, k), NEW i,
         je \in Seq(Journals), je' \in Seq(Journals), Len(je') = Len(je),
         \A j \in 1 .. Len(je) : je'[j].amt = je[j].amt /\ (j # i => je'[j].status = je[j].status),
         Pending(k) \subseteq {i}, Pending(call[r]) \subseteq {i},
         \A q \in Requests \ {r} :
           i \notin Pending(call[q]) /\ (call[q].op \in {"apply", "unapply"} => call[q].on # i),
         Posts(k, je'), stops' = stops,
         balance' = IF i \in 1 .. Len(je)
                      THEN balance + ((IF je'[i].status = "POSTED" /\ i \notin Pending(k) THEN je[i].amt ELSE 0)
                                      - (IF je[i].status = "POSTED" /\ i \notin Pending(call[r]) THEN je[i].amt ELSE 0))
                      ELSE balance
  PROVE  BInv'
<1>1. call' \in [Requests -> Calls] /\ \A q \in Requests : call'[q] = IF q = r THEN k ELSE call[q]
  BY DEF Go, LInv, IInv
<1>2. \A q \in Requests : Posts(call'[q], je')
  <2>1. \A q \in Requests \ {r} : call[q].op \in {"apply", "unapply"} => call[q].on \in 1 .. Len(je)
    BY PendingAlone
  <2> QED BY <1>1, <2>1 DEF Posts, BInv
<1>3. SUFFICES ASSUME stops = 0 PROVE Balanced(je', call', balance')
  BY <1>2 DEF BInv
<1> DEFINE v == Worth(je, AllPending(call))
           w == Worth(je', AllPending(call'))
           f == Tallies(v)
           g == Tallies(w)
<1>4. /\ AreTallies(v, f) /\ AreTallies(w, g) /\ Len(je) \in Nat
      /\ \A n \in 1 .. Len(je) :
           /\ v[n] \in Int /\ w[n] \in Int
           /\ v[n] = IF je[n].status = "POSTED" /\ n \notin AllPending(call) THEN je[n].amt ELSE 0
           /\ w[n] = IF je'[n].status = "POSTED" /\ n \notin AllPending(call') THEN je[n].amt ELSE 0
  BY WorthIsWhole
<1>5. /\ \A n : n # i => (n \in AllPending(call') <=> n \in AllPending(call))
      /\ i \in AllPending(call) <=> i \in Pending(call[r])
      /\ i \in AllPending(call') <=> i \in Pending(k)
  BY <1>1 DEF AllPending
<1>6. \A n \in 1 .. Len(je) : n # i => w[n] = v[n]
  BY <1>4, <1>5
<1>7. balance = f[Len(je)]
  BY <1>3 DEF BInv, Balanced
<1>8. g[Len(je)] = IF i \in 1 .. Len(je) THEN f[Len(je)] + (w[i] - v[i]) ELSE f[Len(je)]
  <2> HIDE DEF v, w, f, g
  <2> QED BY <1>4, <1>6, TallyMoves
<1>9. i \in 1 .. Len(je) =>
        /\ v[i] = IF je[i].status = "POSTED" /\ i \notin Pending(call[r]) THEN je[i].amt ELSE 0
        /\ w[i] = IF je'[i].status = "POSTED" /\ i \notin Pending(k) THEN je[i].amt ELSE 0
  BY <1>4, <1>5
<1>10. balance' = g[Len(je)]
  <2> HIDE DEF v, w, f, g
  <2> QED BY <1>7, <1>8, <1>9
<1> QED BY <1>10 DEF Balanced

\* One that has nothing to do with the balance, before or after.
LEMMA BookedNothing ==
  ASSUME BInv, LInv', NEW r \in Requests, NEW k, Go(r, k), UNCHANGED <<je, balance, stops>>,
         call[r].op \notin {"apply", "void"}, k.op \notin {"apply", "unapply", "void"}
  PROVE  BInv'
<1>1. Pending(k) = {} /\ Pending(call[r]) = {} /\ Posts(k, je')
  BY DEF Pending, Posts
<1>2. je \in Seq(Journals) /\ Len(je) \in Nat
  BY DEF BInv, LInv, IInv, World, WorldTypes
<1>3. \A q \in Requests : /\ 0 \notin Pending(call[q])
                          /\ (call[q].op \in {"apply", "unapply"} => call[q].on # 0)
  BY PendingAlone DEF Pending
<1>4. 0 \notin 1 .. Len(je)
  OBVIOUS
<1> QED BY <1>1, <1>2, <1>3, <1>4, Booked

LEMMA BookedFacts ==
  ASSUME BInv, NEW r \in Requests
  PROVE  /\ call[r] \in Calls /\ je \in Seq(Journals) /\ Len(je) \in Nat /\ balance \in Int
         /\ Posts(call[r], je) /\ Guarded(call[r], je, closed)
         /\ Sane(call[r], je, receipts.sum) /\ stops \in Nat /\ IInv
         /\ \A j \in 1 .. Len(je) : je[j].amt \in Int
BY Facts DEF BInv, LInv, IInv, World, WorldTypes

\* The balance takes in an entry, or gives it up.
LEMMA ApplyBooked ==
  ASSUME BInv, LInv', NEW r \in Requests, Apply(r)
  PROVE  BInv'
<1> DEFINE k == call[r]
<1>1. PICK i : i = k.on
  OBVIOUS
<1>2. /\ k \in Calls /\ je \in Seq(Journals) /\ je' = je /\ stops' = stops /\ k.op = "apply"
      /\ balance' = balance + je[i].amt /\ Posts(k, je) /\ balance \in Int
  BY <1>1, BookedFacts DEF Apply
<1>3. /\ i \in 1 .. Len(je) /\ je[i].status = "POSTED" /\ je[i].amt \in Int
      /\ Pending(k) = {i}
  BY <1>1, <1>2, PendingAlone, BookedFacts DEF Posts, Pending
<1>4. \A q \in Requests \ {r} :
        i \notin Pending(call[q]) /\ (call[q].op \in {"apply", "unapply"} => call[q].on # i)
  BY <1>1, <1>2, PendingAlone
<1>5. ASSUME NEW c, Go(r, c), c.op \notin {"apply", "unapply", "void"} PROVE BInv'
  <2>1. Pending(c) = {} /\ Posts(c, je')
    BY <1>5 DEF Pending, Posts
  <2>2. balance' = IF i \in 1 .. Len(je)
                       THEN balance + ((IF je'[i].status = "POSTED" /\ i \notin Pending(c) THEN je[i].amt ELSE 0)
                                       - (IF je[i].status = "POSTED" /\ i \notin Pending(call[r]) THEN je[i].amt ELSE 0))
                       ELSE balance
    BY <1>2, <1>3, <2>1
  <2>3. \A j \in 1 .. Len(je) : je'[j].amt = je[j].amt /\ (j # i => je'[j].status = je[j].status)
    BY <1>2
  <2> QED BY <1>2, <1>3, <1>4, <1>5, <2>1, <2>2, <2>3, Booked
<1>6. After(k).op \notin {"apply", "unapply", "void"}
  BY AfterQuiet
<1>7. [k EXCEPT !.op = "settle"].op = "settle"
  BY <1>2 DEF Calls
<1> QED BY <1>5, <1>6, <1>7 DEF Apply

LEMMA UnapplyBooked ==
  ASSUME BInv, LInv', NEW r \in Requests, Unapply(r)
  PROVE  BInv'
<1> DEFINE k == call[r]
<1>1. PICK i : i = k.on
  OBVIOUS
<1>2. /\ k \in Calls /\ je \in Seq(Journals) /\ je' = je /\ stops' = stops /\ k.op = "unapply"
      /\ balance' = balance - je[i].amt /\ Posts(k, je) /\ balance \in Int
  BY <1>1, BookedFacts DEF Unapply
<1>3. /\ i \in 1 .. Len(je) /\ je[i].status = "POSTED" /\ je[i].amt \in Int
      /\ Pending(k) = {}
  BY <1>1, <1>2, PendingAlone, BookedFacts DEF Posts, Pending
<1>4. \A q \in Requests \ {r} :
        i \notin Pending(call[q]) /\ (call[q].op \in {"apply", "unapply"} => call[q].on # i)
  BY <1>1, <1>2, PendingAlone
<1>5. PICK c : c = [k EXCEPT !.op = "void"]
  OBVIOUS
<1>6. c.op = "void" /\ c.on = i /\ Go(r, c)
  BY <1>1, <1>2, <1>5 DEF Calls, Unapply
<1>7. Pending(c) = {i} /\ Posts(c, je')
  BY <1>6 DEF Pending, Posts
<1> QED BY <1>2, <1>3, <1>4, <1>6, <1>7, Booked

\* An entry is approved before it is in the balance, and void when it is out of it.
LEMMA StatusBooked ==
  ASSUME BInv, LInv', NEW r \in Requests, WriteApprove(r) \/ WriteVoid(r)
  PROVE  BInv'
<1> DEFINE k == call[r]
<1>1. PICK i : i = k.on
  OBVIOUS
<1>2. /\ k \in Calls /\ je \in Seq(Journals) /\ k.op \in {"approve", "void"} /\ balance \in Int
      /\ UNCHANGED <<balance, stops>>
  BY BookedFacts DEF WriteApprove, WriteVoid
<1>3. i \in 1 .. Len(je) /\ je[i].amt \in Int
  BY <1>1, <1>2, PendingAlone, BookedFacts
<1>4. \A q \in Requests \ {r} :
        i \notin Pending(call[q]) /\ (call[q].op \in {"apply", "unapply"} => call[q].on # i)
  BY <1>1, <1>2, PendingAlone
<1>5. ASSUME NEW v \in Statuses, je' = [je EXCEPT ![i].status = v]
      PROVE  /\ je' \in Seq(Journals) /\ Len(je') = Len(je) /\ je'[i].status = v
             /\ \A j \in 1 .. Len(je) : je'[j].amt = je[j].amt /\ (j # i => je'[j].status = je[j].status)
  BY <1>2, <1>3, <1>5, StatusWrite DEF SameEntry
<1>6. CASE WriteApprove(r)
  <2>1. je' = [je EXCEPT ![i].status = "POSTED"] /\ k.op = "approve"
    BY <1>1, <1>6 DEF WriteApprove
  <2>2. PICK c : c = [k EXCEPT !.op = "apply"]
    OBVIOUS
  <2>3. c.op = "apply" /\ c.on = i /\ Go(r, c)
    BY <1>1, <1>2, <1>6, <2>2 DEF Calls, WriteApprove
  <2>4. je[i].status = "PENDING_APPROVAL"
    BY <1>1, <2>1, BookedFacts DEF Guarded
  <2>5. /\ je' \in Seq(Journals) /\ Len(je') = Len(je) /\ je'[i].status = "POSTED"
        /\ \A j \in 1 .. Len(je) : je'[j].amt = je[j].amt /\ (j # i => je'[j].status = je[j].status)
    BY <1>5, <2>1 DEF Statuses
  <2>6. Pending(c) = {i} /\ Pending(k) = {} /\ Posts(c, je')
    BY <2>1, <2>3, <2>5 DEF Pending, Posts
  <2> QED BY <1>2, <1>3, <1>4, <2>3, <2>4, <2>5, <2>6, Booked
<1>7. CASE WriteVoid(r)
  <2>1. je' = [je EXCEPT ![i].status = "VOID"] /\ k.op = "void" /\ Go(r, Idle)
    BY <1>1, <1>7 DEF WriteVoid
  <2>2. /\ je' \in Seq(Journals) /\ Len(je') = Len(je) /\ je'[i].status = "VOID"
        /\ \A j \in 1 .. Len(je) : je'[j].amt = je[j].amt /\ (j # i => je'[j].status = je[j].status)
    BY <1>5, <2>1 DEF Statuses
  <2>3. PICK c : c = Idle
    OBVIOUS
  <2>4. Pending(c) = {} /\ Pending(call[r]) = {i} /\ Posts(c, je') /\ Go(r, c)
    BY <1>1, <2>1, <2>3, IdleTypes DEF Pending, Posts
  <2>5. balance' = IF i \in 1 .. Len(je)
                       THEN balance + ((IF je'[i].status = "POSTED" /\ i \notin Pending(c) THEN je[i].amt ELSE 0)
                                       - (IF je[i].status = "POSTED" /\ i \notin Pending(call[r]) THEN je[i].amt ELSE 0))
                       ELSE balance
    BY <1>2, <1>3, <2>2, <2>4
  <2> QED BY <1>2, <1>3, <1>4, <2>2, <2>4, <2>5, Booked
<1> QED BY <1>6, <1>7

\* Only a posted entry is taken out of the balance before it is voided.
LEMMA ReadEntryBooked ==
  ASSUME Separate = TRUE, BInv, LInv', NEW r \in Requests, NEW j \in DOMAIN je,
         ReadApprove(r, j) \/ ReadVoid(r, j)
  PROVE  BInv'
<1>1. /\ je \in Seq(Journals) /\ j \in 1 .. Len(je) /\ j \in Nat /\ call[r].op = "idle"
      /\ UNCHANGED <<je, balance, stops>> /\ Free(r, <<"journal", j>>) /\ balance \in Int
      /\ Pending(call[r]) = {}
  BY BookedFacts DEF ReadApprove, ReadVoid, ledger, Ready, Pending
<1>2. CASE ReadApprove(r, j)
  <2>1. PICK c : c = [Idle EXCEPT !.op = "approve", !.on = j]
    OBVIOUS
  <2>2. c.op = "approve"
    BY <2>1 DEF Idle
  <2> QED BY <1>1, <1>2, <2>1, <2>2, BookedNothing DEF ReadApprove
<1>3. CASE ReadVoid(r, j)
  <2>1. PICK c : c = [Idle EXCEPT !.op = VoidFrom(j), !.on = j]
    OBVIOUS
  <2>2. c.op = VoidFrom(j) /\ c.on = j
    BY <2>1 DEF Idle
  <2>3. Go(r, c)
    BY <1>3, <2>1 DEF ReadVoid
  <2>4. \A q \in Requests \ {r} :
          j \notin Pending(call[q]) /\ (call[q].op \in {"apply", "unapply"} => call[q].on # j)
    <3>1. \A q \in Requests \ {r} : j \notin WorksOn(call[q])
      BY <1>1, FreeMeans
    <3> QED BY <1>1, <3>1 DEF Pending, WorksOn
  <2>5. Posts(c, je')
    BY <1>1, <2>2 DEF VoidFrom, Posts
  <2>6. \/ Pending(c) = {}
        \/ Pending(c) = {j} /\ je[j].status # "POSTED"
    BY <2>2 DEF VoidFrom, Pending
  <2>7. je[j].amt \in Int
    BY <1>1, BookedFacts
  <2> QED BY <1>1, <2>3, <2>4, <2>5, <2>6, <2>7, Booked
<1> QED BY <1>2, <1>3

\* A new entry is in the balance once it is applied.
LEMMA CreateBooked ==
  ASSUME BInv, LInv', NEW r \in Requests, Create(r)
  PROVE  BInv'
<1> DEFINE k == call[r]
           n == Len(je) + 1
<1>1. /\ k \in Calls /\ je \in Seq(Journals) /\ Len(je) \in Nat /\ k.op = "create"
      /\ UNCHANGED <<balance, stops>> /\ k.draft \in Journals
  BY BookedFacts, CallTypes DEF Create
<1>2. CASE je' = je /\ Go(r, After(k))
  BY <1>1, <1>2, AfterQuiet, BookedNothing
<1>3. CASE je' = Append(je, k.draft)
  <2>1. /\ je' \in Seq(Journals) /\ Len(je') = n /\ je'[n] = k.draft
        /\ \A j \in 1 .. Len(je) : je'[j] = je[j]
    BY <1>1, <1>3, Appended
  <2>2. PICK c : /\ Go(r, c) /\ Posts(c, je') /\ Pending(c) \subseteq {n}
                 /\ je'[n].status = "POSTED" => n \in Pending(c)
    <3>1. CASE k.draft.status = "POSTED"
      <4>1. PICK c : c = [k EXCEPT !.op = "apply", !.on = n]
        OBVIOUS
      <4>2. c.op = "apply" /\ c.on = n
        BY <1>1, <4>1 DEF Calls
      <4>3. Go(r, c)
        BY <1>1, <1>3, <2>1, <3>1, <4>1 DEF Create
      <4> QED BY <2>1, <3>1, <4>2, <4>3 DEF Posts, Pending
    <3>2. CASE k.draft.status # "POSTED"
      <4>1. Go(r, After(k))
        BY <1>1, <1>3, <2>1, <3>2 DEF Create
      <4>2. Pending(After(k)) = {} /\ Posts(After(k), je')
        BY AfterQuiet DEF Pending, Posts
      <4> QED BY <2>1, <3>2, <4>1, <4>2
    <3> QED BY <3>1, <3>2
  <2>3. call' \in [Requests -> Calls] /\ \A q \in Requests : call'[q] = IF q = r THEN c ELSE call[q]
    BY <2>2 DEF Go, LInv, IInv
  <2>4. \A q \in Requests : Posts(call'[q], je')
    <3>1. \A q \in Requests : call[q].op \in {"apply", "unapply"} => call[q].on \in 1 .. Len(je)
      BY PendingAlone
    <3> QED BY <2>1, <2>2, <2>3, <3>1 DEF Posts, BInv
  <2>5. SUFFICES ASSUME stops = 0 PROVE Balanced(je', call', balance')
    BY <1>1, <2>4 DEF BInv
  <2> DEFINE v == Worth(je, AllPending(call))
             w == Worth(je', AllPending(call'))
             f == Tallies(v)
             g == Tallies(w)
  <2>6. /\ AreTallies(v, f) /\ AreTallies(w, g)
        /\ \A j \in 1 .. Len(je) :
             v[j] \in Int /\ v[j] = IF je[j].status = "POSTED" /\ j \notin AllPending(call) THEN je[j].amt ELSE 0
        /\ \A j \in 1 .. n :
             w[j] \in Int /\ w[j] = IF je'[j].status = "POSTED" /\ j \notin AllPending(call') THEN je'[j].amt ELSE 0
    BY <1>1, <2>1, WorthIsWhole
  <2>7. /\ \A j : j # n => (j \in AllPending(call') <=> j \in AllPending(call))
        /\ n \in Pending(c) => n \in AllPending(call')
    <3>1. Pending(call[r]) = {}
      BY <1>1 DEF Pending
    <3> QED BY <2>2, <2>3, <3>1 DEF AllPending
  <2>8. /\ \A j \in 1 .. Len(je) : j \in 1 .. n /\ j # n
        /\ n \in 1 .. n /\ n \notin 1 .. Len(je) /\ n \in Nat /\ n # 0 /\ n - 1 = Len(je)
    BY <1>1
  <2>9. \A j \in 1 .. Len(je) : w[j] = v[j] /\ w[j] \in Int
    BY <2>1, <2>6, <2>7, <2>8
  <2>10. w[n] = 0
    BY <2>2, <2>6, <2>7, <2>8
  <2>11. balance = f[Len(je)]
    BY <2>5 DEF BInv, Balanced
  <2>12. g[Len(je)] = f[Len(je)] /\ f[Len(je)] \in Int
    <3> HIDE DEF v, w, f, g
    <3> QED BY <1>1, <2>6, <2>8, <2>9, TallyMoves
  <2>13. g[n] = g[Len(je)] + w[n]
    <3> HIDE DEF v, w, f, g
    <3> QED BY <2>6, <2>8 DEF AreTallies
  <2>14. balance' = g[Len(je')]
    <3> HIDE DEF v, w, f, g
    <3> QED BY <1>1, <2>1, <2>10, <2>11, <2>12, <2>13
  <2> QED BY <2>14 DEF Balanced
<1> QED BY <1>2, <1>3 DEF Create

\* A request that stops may leave an entry half-way: nothing is promised from then on.
LEMMA StopBooked ==
  ASSUME BInv, LInv', NEW r \in Requests, Stop(r)
  PROVE  BInv'
<1>1. /\ je' = je /\ stops' = stops + 1 /\ stops \in Nat /\ Go(r, Idle)
  BY BookedFacts DEF Stop, ledger
<1>2. \A q \in Requests : call'[q] = IF q = r THEN Idle ELSE call[q]
  BY <1>1 DEF Go, BInv, LInv, IInv
<1>3. \A q \in Requests : Posts(call'[q], je')
  BY <1>1, <1>2, IdleTypes DEF Posts, BInv
<1> QED BY <1>1, <1>3 DEF BInv

\* Steps that touch no balance.
LEMMA PlainBooked ==
  ASSUME BInv, LInv', NEW r \in Requests,
         \/ Number(r) \/ LoadPage(r) \/ PostDue(r) \/ Advance(r) \/ Arm(r) \/ Rearm(r)
         \/ ReadSettlement(r) \/ WriteReceipt(r) \/ WriteInvoice(r)
         \/ \E a \in Amounts : ReadPayment(r, a)
         \/ \E a \in Amounts, e \in Entries : Enter(r, a, e)
         \/ \E j \in DOMAIN je : ReverseEntry(r, j) \/ ReverseDue(r, j)
  PROVE  BInv'
<1> DEFINE k == call[r]
           other == Ops \ {"apply", "unapply", "void"}
<1>1. /\ k \in Calls /\ UNCHANGED <<je, balance, stops>> /\ k.op \in other
  BY BookedFacts DEF Number, LoadPage, PostDue, Advance, Arm, Rearm, ReadSettlement, WriteReceipt,
     WriteInvoice, ReadPayment, Enter, ReverseEntry, ReverseDue, ledger, Ready, Ops
<1>2. ASSUME NEW c, Go(r, c), c.op \in other PROVE BInv'
  BY <1>1, <1>2, BookedNothing
<1>3. /\ After(k).op \in other /\ Idle.op \in other /\ Listed.op \in other
  BY AfterQuiet, IdleTypes DEF Ops, Listed, Idle
<1>4. ASSUME Number(r) PROVE BInv'
  <2>1. [k EXCEPT !.op = "create", !.on = Len(je)].op = "create"
    BY <1>1 DEF Calls
  <2> QED BY <1>2, <1>3, <1>4, <2>1 DEF Number, Ops
<1>5. ASSUME LoadPage(r) PROVE BInv'
  <2>1. [Idle EXCEPT !.op = "due", !.at = template.next].op = "due"
    BY DEF Idle
  <2> QED BY <1>2, <1>3, <1>5, <2>1 DEF LoadPage, Ops
<1>6. ASSUME PostDue(r) PROVE BInv'
  <2>1. \A d : [k EXCEPT !.op = "number", !.draft = d].op = "number"
    BY <1>1 DEF Calls
  <2> QED BY <1>2, <1>6, <2>1 DEF PostDue, Ops
<1>7. ASSUME Advance(r) \/ Arm(r) \/ Rearm(r) PROVE BInv'
  <2>1. [Idle EXCEPT !.op = "rearm"].op = "rearm"
    BY DEF Idle
  <2> QED BY <1>2, <1>3, <1>7, <2>1 DEF Advance, Arm, Rearm, Ops
<1>8. ASSUME ReadSettlement(r) PROVE BInv'
  <2>1. \A p, d : [k EXCEPT !.op = "receipt", !.paid = p, !.draft = d].op = "receipt"
    BY <1>1 DEF Calls
  <2> QED BY <1>2, <1>3, <1>8, <2>1 DEF ReadSettlement, Ops
<1>9. ASSUME WriteReceipt(r) \/ WriteInvoice(r) PROVE BInv'
  <2>1. [k EXCEPT !.op = "invoice"].op = "invoice" /\ [k EXCEPT !.op = "number"].op = "number"
    BY <1>1 DEF Calls
  <2> QED BY <1>2, <1>3, <1>9, <2>1 DEF WriteReceipt, WriteInvoice, Ops
<1>10. ASSUME NEW a \in Amounts, ReadPayment(r, a) PROVE BInv'
  <2>1. PICK c : c = [Idle EXCEPT !.op = "receipt", !.paid = NewPaid(a), !.at = 1,
                         !.draft = Draft("POSTED", today, -a, "AR")]
    OBVIOUS
  <2>2. c.op = "receipt" /\ Go(r, c)
    BY <1>10, <2>1 DEF Idle, ReadPayment
  <2> QED BY <1>2, <2>2 DEF Ops
<1>11. ASSUME NEW a \in Amounts, NEW e \in Entries, Enter(r, a, e) PROVE BInv'
  <2>1. PICK d : d = [Draft(e.status, today, IF e.settles THEN -a ELSE a,
                            IF e.settles THEN "AR_SETTLE" ELSE "MANUAL")
                        EXCEPT !.reverseOn = IF e.accrual THEN today + 1 ELSE 0]
    OBVIOUS
  <2>2. PICK c : c = [Idle EXCEPT !.op = "number", !.draft = d]
    OBVIOUS
  <2>3. c.op = "number"
    BY <2>2 DEF Idle
  <2>4. Go(r, c)
    BY <1>11, <2>1, <2>2 DEF Enter
  <2> QED BY <1>2, <2>3, <2>4 DEF Ops
<1>12. ASSUME NEW j \in DOMAIN je, ReverseEntry(r, j) PROVE BInv'
  <2>1. PICK c : c = [Idle EXCEPT !.op = "number", !.draft = Mirror(j, today)]
    OBVIOUS
  <2>2. c.op = "number" /\ Go(r, c)
    BY <1>12, <2>1 DEF Idle, ReverseEntry
  <2> QED BY <1>2, <2>2 DEF Ops
<1>13. ASSUME NEW j \in DOMAIN je, ReverseDue(r, j) PROVE BInv'
  <2>1. PICK t, m : t = call[r].todo \ {j} /\ m = Mirror(j, je[j].reverseOn)
    OBVIOUS
  <2>2. \/ Go(r, [Idle EXCEPT !.op = "number", !.todo = t, !.draft = m])
        \/ Go(r, Idle)
        \/ Go(r, [Idle EXCEPT !.op = "reverse", !.todo = t])
    BY <1>13, <2>1 DEF ReverseDue
  <2>3. /\ [Idle EXCEPT !.op = "number", !.todo = t, !.draft = m].op = "number"
        /\ [Idle EXCEPT !.op = "reverse", !.todo = t].op = "reverse"
    BY DEF Idle
  <2> QED BY <1>2, <1>3, <2>2, <2>3 DEF Ops
<1> QED BY <1>4, <1>5, <1>6, <1>7, <1>8, <1>9, <1>10, <1>11, <1>12, <1>13

LEMMA StartedBooked == Init => BInv
<1> SUFFICES ASSUME Init PROVE BInv
  OBVIOUS
<1>1. LInv /\ je = <<>> /\ Len(je) = 0 /\ balance = 0
  BY StartedApart DEF Init
<1>2. \A r \in Requests : Posts(call[r], je)
  BY IdleTypes DEF Init, Posts
<1>3. \A w : Tallies(w)[0] = 0
  <2>1. \A w : AreTallies(w, Tallies(w))
    BY TalliesExist DEF Tallies
  <2> QED BY <2>1 DEF AreTallies
<1> QED BY <1>1, <1>2, <1>3 DEF BInv, Balanced

LEMMA CarriedBooked ==
  ASSUME Separate = TRUE
  PROVE  BInv /\ [Next]_vars => BInv'
<1> SUFFICES ASSUME BInv, [Next]_vars PROVE BInv'
  OBVIOUS
<1>1. LInv'
  BY CarriedApart DEF BInv
<1>2. CASE UNCHANGED <<je, balance, stops, call>>
  BY <1>1, <1>2 DEF BInv
<1>3. ASSUME NEW r \in Requests,
             \/ Number(r) \/ Create(r) \/ Apply(r) \/ WriteApprove(r) \/ Unapply(r) \/ WriteVoid(r)
             \/ LoadPage(r) \/ PostDue(r) \/ Advance(r) \/ Arm(r) \/ Rearm(r)
             \/ ReadSettlement(r) \/ WriteReceipt(r) \/ WriteInvoice(r) \/ Stop(r)
      PROVE  BInv'
  BY <1>1, <1>3, CreateBooked, ApplyBooked, UnapplyBooked, StatusBooked, StopBooked, PlainBooked
<1>4. ASSUME NEW r \in Requests,
             \/ \E a \in Amounts : ReadPayment(r, a)
             \/ \E a \in Amounts, e \in Entries : Enter(r, a, e)
             \/ \E j \in DOMAIN je :
                  ReadApprove(r, j) \/ ReadVoid(r, j) \/ ReverseEntry(r, j) \/ ReverseDue(r, j)
      PROVE  BInv'
  BY <1>1, <1>4, PlainBooked, ReadEntryBooked
<1>5. \/ NextMonth \/ UNCHANGED vars
      \/ (\E r \in Requests : Disarm(r))
      \/ (\E r \in Requests, m \in CloseDates : SetClose(r, m))
      => UNCHANGED <<je, balance, stops, call>>
  BY DEF NextMonth, vars, Disarm, SetClose, ledger
<1> QED BY <1>2, <1>3, <1>4, <1>5 DEF Next

SumPosted(f) == f = [n \in Nat |->
  IF n = 0 THEN 0 ELSE f[n - 1] + (IF je[n].status = "POSTED" THEN je[n].amt ELSE 0)]

\* The recursive definition of the sum of the posted entries has a value, which adds up
\* what each of them is worth.
LEMMA PostedIsTally == AreTallies(Worth(je, {}), Posted)
<1>1. PICK w : w = Worth(je, {})
  OBVIOUS
<1>2. \A n \in Nat : w[n] = IF je[n].status = "POSTED" THEN je[n].amt ELSE 0
  BY <1>1 DEF Worth
<1>3. \A f : AreTallies(w, f) <=> SumPosted(f)
  BY <1>2 DEF AreTallies, SumPosted
<1>4. \E f : SumPosted(f)
  BY <1>3, TalliesExist
<1>5. Posted = CHOOSE f : SumPosted(f)
  BY Zenon DEF Posted, SumPosted
<1>6. SumPosted(Posted)
  BY <1>4, <1>5
<1> QED BY <1>1, <1>3, <1>6

\* The balance is the sum of the posted entries when nobody is half-way, and nobody ever
\* stopped there, as long as no two requests work on one entry.
THEOREM BalanceIsTheSum ==
  ASSUME Separate = TRUE
  PROVE  Spec => []BalanceFollowsJournals
<1>1. BInv => BalanceFollowsJournals
  <2> SUFFICES ASSUME BInv, stops = 0, \A r \in Requests : call[r].op = "idle"
               PROVE  balance = Posted[Len(je)]
    BY DEF BalanceFollowsJournals
  <2>1. AllPending(call) = {}
    BY DEF AllPending, Pending
  <2>2. je \in Seq(Journals) /\ Len(je) \in Nat
    BY DEF BInv, LInv, IInv, World, WorldTypes
  <2>3. PICK w : w = Worth(je, {})
    OBVIOUS
  <2>4. /\ AreTallies(w, Posted) /\ AreTallies(w, Tallies(w)) /\ balance = Tallies(w)[Len(je)]
        /\ \A n \in 1 .. Len(je) : w[n] \in Int
    BY <2>1, <2>2, <2>3, PostedIsTally, WorthIsWhole DEF BInv, Balanced
  <2>5. 0 \notin 1 .. Len(je)
    BY <2>2
  <2>6. PICK p : p = Posted
    OBVIOUS
  <2>7. AreTallies(w, p)
    BY <2>4, <2>6
  <2>8. Tallies(w)[Len(je)] = p[Len(je)]
    BY <2>2, <2>4, <2>5, <2>7, TallyMoves
  <2> QED BY <2>4, <2>6, <2>8
<1>2. Init => BInv
  BY StartedBooked
<1>3. BInv /\ [Next]_vars => BInv'
  BY CarriedBooked
<1> QED BY <1>1, <1>2, <1>3, PTL DEF Spec
=============================================================================
