------------------------ MODULE NanoSettlementProofs ------------------------
(***************************************************************************)
(* Proofs about payment by Nano block, for any jobs, blocks, handlers,     *)
(* amounts and faults.  The journal is the authority: an entry is never    *)
(* changed, so it gives each block one job; a handler that is about to     *)
(* book has the entry, or writes it in the same step.                      *)
(***************************************************************************)
EXTENDS NanoSettlement, TLAPS

USE NanoAssumption

\* What a handler may hold: nothing, or an invoice and perhaps a block for it.
WorkOK ==
    /\ work \in [Handler -> Invoices \cup {None}]
    /\ proof \in [Handler -> Block \cup {None}]

\* A job that has been billed has an invoice.
LEMMA InvoiceTyped ==
  ASSUME TypeOK, NEW j \in Job, row[j] # NoRow PROVE Invoice(j) \in Invoices
  BY DEF TypeOK, Invoice, Invoices, Rows

\* Marking an invoice paid changes no other row, nor the invoice itself.
LEMMA MarkPaidGives ==
  ASSUME TypeOK, NEW j \in Job, NEW b \in Block, MarkPaid(j, b)
  PROVE  /\ row' \in [Job -> Rows \cup {NoRow}]
         /\ \A i \in Job \ {j} : row'[i] = row[i]
         /\ row'[j] = row[j] \/ row'[j].block = b
         /\ row[j] = NoRow => row'[j] = NoRow
<1>1. row \in [Job -> Rows \cup {NoRow}]
  BY DEF TypeOK
<1>2. CASE row[j] = NoRow
  BY <1>1, <1>2 DEF MarkPaid
<1>3. CASE row[j] # NoRow
  <2>1. row[j] \in Rows
    BY <1>1, <1>3
  <2>2. row' = [row EXCEPT ![j] = [[@ EXCEPT !.state = "paid"] EXCEPT !.block = b]]
    BY <1>1, <1>3 DEF MarkPaid
  <2>3. row'[j] = [[row[j] EXCEPT !.state = "paid"] EXCEPT !.block = b]
    BY <1>1, <2>2
  <2>4. row'[j] \in Rows /\ row'[j].block = b
    BY <2>1, <2>3 DEF Rows
  <2> QED
    BY <1>1, <1>3, <2>2, <2>4
<1> QED
  BY <1>2, <1>3

\* What a handler holds stays typed when it goes on to book or stops ...
LEMMA HandlerMoves ==
  ASSUME TypeOK, NEW h \in Handler,
         (Goto(h, "book") /\ step[h] = "verify") \/ Drop(h)
  PROVE  /\ step' \in [Handler -> {"idle", "list", "verify", "book", "earn"}]
         /\ WorkOK'
         /\ \A g \in Handler : step'[g] # "idle" => work'[g] \in Invoices
         /\ \A g \in Handler : step'[g] \in {"verify", "book", "earn"} => proof'[g] \in Block
         /\ \A g \in Handler \ {h} :
              step'[g] = step[g] /\ work'[g] = work[g] /\ proof'[g] = proof[g]
         /\ step'[h] \in {"idle", "book"}
         /\ step'[h] = "book" => work'[h] = work[h] /\ proof'[h] = proof[h]
<1>1. CASE Goto(h, "book") /\ step[h] = "verify"
  BY <1>1 DEF TypeOK, WorkOK, Goto
<1>2. CASE Drop(h)
  BY <1>2 DEF TypeOK, WorkOK, Drop
<1> QED
  BY <1>1, <1>2

\* ... and when it takes something up.
LEMMA HandlerTakes ==
  ASSUME TypeOK, NEW h \in Handler, NEW s \in {"list", "verify", "earn"},
         NEW invoice \in Invoices, NEW b \in Block \cup {None},
         s # "list" => b \in Block, Take(h, s, invoice, b)
  PROVE  /\ step' \in [Handler -> {"idle", "list", "verify", "book", "earn"}]
         /\ WorkOK'
         /\ \A g \in Handler : step'[g] # "idle" => work'[g] \in Invoices
         /\ \A g \in Handler : step'[g] \in {"verify", "book", "earn"} => proof'[g] \in Block
         /\ \A g \in Handler \ {h} :
              step'[g] = step[g] /\ work'[g] = work[g] /\ proof'[g] = proof[g]
         /\ step'[h] = s /\ work'[h] = invoice /\ proof'[h] = b
  BY DEF TypeOK, WorkOK, Take

\* The inductive invariant.
Inv == TypeOK /\ ProofInv /\ PaidInvoiceIsBooked

\* It holds of an empty store.
LEMMA InvInit == Init => Inv
  BY DEF Init, Inv, TypeOK, ProofInv, PaidInvoiceIsBooked, NoRow, Statuses

\* Steps that leave journal, ledger and invoices alone and move no handler to
\* where it books.
LEMMA QuietStep ==
  ASSUME Inv, TypeOK', UNCHANGED <<row, journal, sales>>,
         \A h \in Handler : step'[h] \in {"book", "earn"} =>
             step'[h] = step[h] /\ work'[h] = work[h] /\ proof'[h] = proof[h]
  PROVE  Inv'
  BY DEF Inv, ProofInv, PaidInvoiceIsBooked

\* The part of the invariant about the journal and the ledger.
LedgerInv ==
    /\ \A s \in sales : journal[s.block] # None /\ journal[s.block].job = s.job
    /\ \A s, t \in sales : s.job = t.job => s = t

\* Marking an invoice with a block that has paid for the job.
LEMMA PaidStep ==
  ASSUME Inv, NEW j \in Job, NEW b \in Block, MarkPaid(j, b),
         sales \subseteq sales', [job |-> j, block |-> b] \in sales'
  PROVE  PaidInvoiceIsBooked' /\ row' \in [Job -> Rows \cup {NoRow}]
<1>1. /\ row' \in [Job -> Rows \cup {NoRow}]
      /\ \A i \in Job \ {j} : row'[i] = row[i]
      /\ row'[j] = row[j] \/ row'[j].block = b
  BY MarkPaidGives DEF Inv
<1>2. ASSUME NEW i \in Job, row'[i].state = "paid"
      PROVE  [job |-> i, block |-> row'[i].block] \in sales'
  <2>1. CASE row'[i] = row[i]
    BY <1>2, <2>1 DEF Inv, PaidInvoiceIsBooked
  <2>2. CASE i = j /\ row'[j].block = b
    BY <2>2
  <2> QED
    BY <1>1, <2>1, <2>2
<1> QED
  BY <1>1, <1>2 DEF PaidInvoiceIsBooked

\* MarkSold marks it with the block of the job's sale.
LEMMA SoldStep ==
  ASSUME Inv, NEW j \in Job, MarkSold(j), UNCHANGED sales
  PROVE  PaidInvoiceIsBooked' /\ row' \in [Job -> Rows \cup {NoRow}]
<1>1. PICK s \in sales : s.job = j /\ MarkPaid(j, s.block)
  BY DEF MarkSold
<1>2. s.block \in Block /\ [job |-> j, block |-> s.block] = s
  BY <1>1 DEF Inv, TypeOK
<1> QED
  BY <1>1, <1>2, PaidStep

\* A sale of an unsold job, whose block the journal holds in the job's name.
LEMMA SaleStep ==
  ASSUME Inv, NEW h \in Handler, work[h] \in Invoices, proof[h] \in Block,
         ~Sold(work[h].job), sales' = sales \cup {Sale(h)},
         journal'[proof[h]] = work[h],
         \A b \in Block : journal[b] # None => journal'[b] = journal[b]
  PROVE  LedgerInv' /\ sales' \subseteq [job : Job, block : Block]
<1>1. Sale(h).job = work[h].job /\ Sale(h).block = proof[h]
  BY DEF Sale
<1>2. Sale(h) \in [job : Job, block : Block] /\ work[h] # None
  BY DEF Sale, Invoices
<1>3. \A s \in sales : s.job # work[h].job
  BY DEF Sold
<1>4. \A s \in sales : journal[s.block] # None /\ journal[s.block].job = s.job /\ s.block \in Block
  BY DEF Inv, ProofInv, TypeOK
<1>5. \A s, t \in sales : s.job = t.job => s = t
  BY DEF Inv, ProofInv
<1>6. \A s \in sales' : journal'[s.block] # None /\ journal'[s.block].job = s.job
  BY <1>1, <1>2, <1>4
<1>7. \A s, t \in sales' : s.job = t.job => s = t
  BY <1>1, <1>3, <1>5
<1> QED
  BY <1>2, <1>6, <1>7 DEF LedgerInv, Inv, TypeOK

\* _stage_paid, case by case: the job is sold already, the invoice or the journal
\* refuses, or the block is journalled and as much is booked as the handler lives
\* to book.
LEMMA BookStep ==
  ASSUME Inv, NEW h \in Handler, Book(h)
  PROVE  Inv' /\ \A b \in Block : journal[b] # None => journal'[b] = journal[b]
<1> DEFINE w == work[h]
           b == proof[h]
<1>1. w \in Invoices /\ b \in Block /\ w.job \in Job /\ Worth[b] >= w.amount /\ w # None
  BY DEF Inv, TypeOK, ProofInv, Book, At, Invoices
<1>2. UNCHANGED <<status, price, invoiced, made>> /\ Drop(h)
  BY DEF Book, Die, job
<1>3. /\ step' \in [Handler -> {"idle", "list", "verify", "book", "earn"}]
      /\ WorkOK'
      /\ \A g \in Handler : step'[g] # "idle" => work'[g] \in Invoices
      /\ \A g \in Handler : step'[g] \in {"verify", "book", "earn"} => proof'[g] \in Block
      /\ \A g \in Handler \ {h} :
           step'[g] = step[g] /\ work'[g] = work[g] /\ proof'[g] = proof[g]
      /\ step'[h] = "idle"
  BY <1>2, HandlerMoves DEF Inv, Drop, TypeOK
<1>4. faults' \in 0..MaxFaults
  BY DEF Book, Die, Inv, TypeOK
<1>5. CASE status[w.job] # "closed" /\ Sold(w.job)
  <2>1. MarkSold(w.job) /\ UNCHANGED <<journal, sales, faults>>
    BY <1>5 DEF Book
  <2>2. PaidInvoiceIsBooked' /\ row' \in [Job -> Rows \cup {NoRow}]
    BY <1>1, <2>1, SoldStep
  <2>3. TypeOK'
    BY <1>2, <1>3, <1>4, <2>1, <2>2 DEF Inv, TypeOK, WorkOK
  <2> QED
    BY <1>3, <2>1, <2>2, <2>3 DEF Inv, ProofInv
<1>6. CASE ~(status[w.job] # "closed" /\ Sold(w.job)) /\ ~(Matches(w) /\ MayUse(b, w))
  <2>1. UNCHANGED <<row, journal, sales, faults>>
    BY <1>6 DEF Book
  <2>2. TypeOK'
    BY <1>2, <1>3, <2>1 DEF Inv, TypeOK, WorkOK
  <2> QED
    BY <1>3, <2>1, <2>2, QuietStep
<1>7. CASE ~(status[w.job] # "closed" /\ Sold(w.job)) /\ Matches(w) /\ MayUse(b, w)
  <2>1. ~Sold(w.job)
    BY <1>7 DEF Matches
  <2>2. journal' = [journal EXCEPT ![b] = IF @ = None THEN w ELSE @]
    BY <1>7 DEF Book
  <2>3. /\ journal' \in [Block -> Invoices \cup {None}] /\ journal'[b] = w
        /\ \A c \in Block : journal[c] # None => journal'[c] = journal[c]
        /\ \A c \in Block \ {b} : journal'[c] = journal[c]
    BY <1>1, <1>7, <2>2 DEF MayUse, Inv, TypeOK
  <2>4. \A c \in Block : journal'[c] # None => Worth[c] >= journal'[c].amount
    BY <1>1, <2>3 DEF Inv, ProofInv
  <2>5. \A g \in Handler : step'[g] = "book" => Worth[proof'[g]] >= work'[g].amount
    BY <1>3 DEF Inv, ProofInv
  <2>6. ASSUME NEW g \in Handler, step'[g] = "earn" PROVE journal'[proof'[g]] = work'[g]
    <3>1. /\ step[g] = "earn" /\ work'[g] = work[g] /\ proof'[g] = proof[g]
          /\ work[g] \in Invoices /\ proof[g] \in Block
      BY <1>3, <2>6 DEF Inv, TypeOK
    <3>2. journal[proof[g]] = work[g] /\ work[g] # None
      BY <3>1 DEF Inv, ProofInv, Invoices
    <3> QED
      BY <2>3, <3>1, <3>2
  <2>7. CASE UNCHANGED <<row, sales>>
    <3>1. LedgerInv'
      BY <2>3, <2>7 DEF LedgerInv, Inv, ProofInv, TypeOK
    <3>2. TypeOK'
      BY <1>2, <1>3, <1>4, <2>3, <2>7 DEF Inv, TypeOK, WorkOK
    <3>3. PaidInvoiceIsBooked'
      BY <2>7 DEF Inv, PaidInvoiceIsBooked
    <3> QED
      BY <2>3, <2>4, <2>5, <2>6, <3>1, <3>2, <3>3 DEF Inv, ProofInv, LedgerInv
  <2>8. CASE sales' = sales \cup {Sale(h)} /\ (UNCHANGED row \/ MarkPaid(w.job, b))
    <3>1. LedgerInv' /\ sales' \subseteq [job : Job, block : Block]
      BY <1>1, <2>1, <2>3, <2>8, SaleStep
    <3>2. PaidInvoiceIsBooked' /\ row' \in [Job -> Rows \cup {NoRow}]
      <4>1. CASE UNCHANGED row
        BY <2>8, <4>1 DEF Inv, TypeOK, PaidInvoiceIsBooked
      <4>2. CASE MarkPaid(w.job, b)
        BY <1>1, <2>8, <4>2, PaidStep DEF Sale
      <4> QED
        BY <2>8, <4>1, <4>2
    <3>3. TypeOK'
      BY <1>2, <1>3, <1>4, <2>3, <3>1, <3>2 DEF Inv, TypeOK, WorkOK
    <3> QED
      BY <2>3, <2>4, <2>5, <2>6, <3>1, <3>2, <3>3 DEF Inv, ProofInv, LedgerInv
  <2> QED
    BY <1>7, <2>7, <2>8 DEF Book
<1> QED
  BY <1>5, <1>6, <1>7

\* A minted block is fresh: its entry is new and nobody else holds it.
LEMMA MintStep ==
  ASSUME Inv, NEW h \in Handler, NEW j \in Job, NEW b \in Block, Mint(h, j, b)
  PROVE  Inv' /\ \A c \in Block : journal[c] # None => journal'[c] = journal[c]
<1>1. /\ Invoice(j) \in Invoices /\ Invoice(j) # None
      /\ Worth[b] >= Invoice(j).amount
  <2>1. Invoice(j) \in Invoices
    BY InvoiceTyped DEF Inv, Mint
  <2> QED
    BY <2>1 DEF Mint, Invoice, Invoices
<1>2. Take(h, "earn", Invoice(j), b) /\ UNCHANGED <<job, bill, sales, faults>>
  BY DEF Mint
<1>3. /\ step' \in [Handler -> {"idle", "list", "verify", "book", "earn"}]
      /\ WorkOK'
      /\ \A g \in Handler : step'[g] # "idle" => work'[g] \in Invoices
      /\ \A g \in Handler : step'[g] \in {"verify", "book", "earn"} => proof'[g] \in Block
      /\ \A g \in Handler \ {h} :
           step'[g] = step[g] /\ work'[g] = work[g] /\ proof'[g] = proof[g]
      /\ step'[h] = "earn" /\ work'[h] = Invoice(j) /\ proof'[h] = b
  BY <1>1, <1>2, HandlerTakes DEF Inv
<1>4. /\ journal[b] = None /\ journal' \in [Block -> Invoices \cup {None}]
      /\ journal'[b] = Invoice(j) /\ \A c \in Block \ {b} : journal'[c] = journal[c]
  BY <1>1 DEF Mint, Inv, TypeOK
<1>5. TypeOK'
  BY <1>2, <1>3, <1>4 DEF Inv, TypeOK, WorkOK, job, bill
<1>6. \A c \in Block : journal'[c] # None => Worth[c] >= journal'[c].amount
  BY <1>1, <1>4 DEF Inv, ProofInv
<1>7. \A g \in Handler : step'[g] = "book" => Worth[proof'[g]] >= work'[g].amount
  BY <1>3 DEF Inv, ProofInv
<1>8. ASSUME NEW g \in Handler, step'[g] = "earn" PROVE journal'[proof'[g]] = work'[g]
  <2>1. CASE g = h
    BY <1>3, <1>4, <2>1
  <2>2. CASE g # h
    <3>1. /\ step[g] = "earn" /\ work'[g] = work[g] /\ proof'[g] = proof[g]
          /\ work[g] \in Invoices /\ proof[g] \in Block
      BY <1>3, <1>8, <2>2 DEF Inv, TypeOK
    <3>2. journal[proof[g]] = work[g] /\ work[g] # None
      BY <3>1 DEF Inv, ProofInv, Invoices
    <3> QED
      BY <1>4, <3>1, <3>2
  <2> QED
    BY <2>1, <2>2
<1>9. LedgerInv'
  BY <1>2, <1>4 DEF LedgerInv, Inv, ProofInv, TypeOK
<1>10. PaidInvoiceIsBooked'
  BY <1>2 DEF Inv, PaidInvoiceIsBooked, bill
<1> QED
  BY <1>4, <1>5, <1>6, <1>7, <1>8, <1>9, <1>10 DEF Inv, ProofInv, LedgerInv

\* The runner books the block it has journalled.
LEMMA EarnStep ==
  ASSUME Inv, NEW h \in Handler, EarnMinted(h)
  PROVE  Inv' /\ UNCHANGED journal
<1> DEFINE w == work[h]
           b == proof[h]
<1>1. w \in Invoices /\ b \in Block /\ w.job \in Job /\ journal[b] = w
  BY DEF Inv, TypeOK, ProofInv, EarnMinted, At, Invoices
<1>2. UNCHANGED <<status, price, invoiced, made, journal>> /\ Drop(h)
  BY DEF EarnMinted, Die, job
<1>3. /\ step' \in [Handler -> {"idle", "list", "verify", "book", "earn"}]
      /\ WorkOK'
      /\ \A g \in Handler : step'[g] # "idle" => work'[g] \in Invoices
      /\ \A g \in Handler : step'[g] \in {"verify", "book", "earn"} => proof'[g] \in Block
      /\ \A g \in Handler \ {h} :
           step'[g] = step[g] /\ work'[g] = work[g] /\ proof'[g] = proof[g]
      /\ step'[h] = "idle"
  BY <1>2, HandlerMoves DEF Inv, Drop, TypeOK
<1>4. faults' \in 0..MaxFaults
  BY DEF EarnMinted, Die, Inv, TypeOK
<1>5. CASE UNCHANGED <<row, sales>>
  <2>1. TypeOK'
    BY <1>2, <1>3, <1>4, <1>5 DEF Inv, TypeOK, WorkOK
  <2> QED
    BY <1>2, <1>3, <1>5, <2>1, QuietStep
<1>6. CASE MarkSold(w.job) /\ UNCHANGED sales
  <2>1. PaidInvoiceIsBooked' /\ row' \in [Job -> Rows \cup {NoRow}]
    BY <1>1, <1>6, SoldStep
  <2>2. TypeOK'
    BY <1>2, <1>3, <1>4, <1>6, <2>1 DEF Inv, TypeOK, WorkOK
  <2> QED
    BY <1>2, <1>3, <1>6, <2>1, <2>2 DEF Inv, ProofInv
<1>7. CASE ~Sold(w.job) /\ sales' = sales \cup {Sale(h)} /\ (UNCHANGED row \/ MarkPaid(w.job, b))
  <2>1. LedgerInv' /\ sales' \subseteq [job : Job, block : Block]
    BY <1>1, <1>2, <1>7, SaleStep
  <2>2. PaidInvoiceIsBooked' /\ row' \in [Job -> Rows \cup {NoRow}]
    <3>1. CASE UNCHANGED row
      BY <1>7, <3>1 DEF Inv, TypeOK, PaidInvoiceIsBooked
    <3>2. CASE MarkPaid(w.job, b)
      BY <1>1, <1>7, <3>2, PaidStep DEF Sale
    <3> QED
      BY <1>7, <3>1, <3>2
  <2>3. TypeOK'
    BY <1>2, <1>3, <1>4, <2>1, <2>2 DEF Inv, TypeOK, WorkOK
  <2> QED
    BY <1>2, <1>3, <2>1, <2>2, <2>3 DEF Inv, ProofInv, LedgerInv
<1> QED
  BY <1>2, <1>5, <1>6, <1>7 DEF EarnMinted

\* A job's invoice is replaced by an open one.
LEMMA ListStep ==
  ASSUME Inv, NEW h \in Handler, ListInvoice(h)
  PROVE  Inv' /\ UNCHANGED journal
<1> DEFINE w == work[h]
<1>1. w \in Invoices /\ w.job \in Job /\ w.id \in Nat /\ w.amount \in Amounts
  BY DEF Inv, TypeOK, ListInvoice, At, Invoices
<1>2. /\ UNCHANGED <<status, price, made, journal, sales>> /\ Drop(h)
      /\ invoiced' = invoiced \cup {w.job}
  BY DEF ListInvoice, Die, job
<1>3. /\ step' \in [Handler -> {"idle", "list", "verify", "book", "earn"}]
      /\ WorkOK'
      /\ \A g \in Handler : step'[g] # "idle" => work'[g] \in Invoices
      /\ \A g \in Handler : step'[g] \in {"verify", "book", "earn"} => proof'[g] \in Block
      /\ \A g \in Handler \ {h} :
           step'[g] = step[g] /\ work'[g] = work[g] /\ proof'[g] = proof[g]
      /\ step'[h] = "idle"
  BY <1>2, HandlerMoves DEF Inv, Drop, TypeOK
<1>4. faults' \in 0..MaxFaults
  BY DEF ListInvoice, Die, Inv, TypeOK
<1>5. row' \in [Job -> Rows \cup {NoRow}] /\ PaidInvoiceIsBooked'
  <2>1. row[w.job].block \in Block \cup {None}
    BY <1>1 DEF Inv, TypeOK, Rows, NoRow
  <2> DEFINE new == [id |-> w.id, amount |-> w.amount, state |-> "open",
                     block |-> row[w.job].block]
  <2>2. new \in Rows /\ new.state # "paid"
    BY <1>1, <2>1 DEF Rows
  <2>3. UNCHANGED row \/ row' = [row EXCEPT ![w.job] = new]
    BY DEF ListInvoice
  <2> HIDE DEF new
  <2>4. row' \in [Job -> Rows \cup {NoRow}]
    BY <1>1, <2>2, <2>3 DEF Inv, TypeOK
  <2>5. \A i \in Job : row'[i] = row[i] \/ row'[i] = new
    BY <1>1, <2>3 DEF Inv, TypeOK
  <2> QED
    BY <1>2, <2>2, <2>4, <2>5 DEF Inv, PaidInvoiceIsBooked
<1>6. TypeOK'
  BY <1>1, <1>2, <1>3, <1>4, <1>5 DEF Inv, TypeOK, WorkOK
<1> QED
  BY <1>2, <1>3, <1>5, <1>6 DEF Inv, ProofInv

\* Taking up an invoice, to list it or to verify a block for it, books nothing.
LEMMA TakeStep ==
  ASSUME Inv, NEW h \in Handler, NEW s \in {"list", "verify"},
         NEW invoice \in Invoices, NEW b \in Block \cup {None},
         s = "verify" => b \in Block,
         Take(h, s, invoice, b), UNCHANGED <<row, journal, sales, invoiced, price, faults>>,
         status' \in [Job -> Statuses], made' \in 0..MaxInvoices
  PROVE  Inv'
<1>1. /\ step' \in [Handler -> {"idle", "list", "verify", "book", "earn"}]
      /\ WorkOK'
      /\ \A g \in Handler : step'[g] # "idle" => work'[g] \in Invoices
      /\ \A g \in Handler : step'[g] \in {"verify", "book", "earn"} => proof'[g] \in Block
      /\ \A g \in Handler \ {h} :
           step'[g] = step[g] /\ work'[g] = work[g] /\ proof'[g] = proof[g]
      /\ step'[h] = s
  <2>1. s \in {"list", "verify", "earn"} /\ (s # "list" => b \in Block)
    OBVIOUS
  <2> QED
    BY <2>1, HandlerTakes DEF Inv
<1>2. TypeOK'
  BY <1>1 DEF Inv, TypeOK, WorkOK
<1> QED
  BY <1>1, <1>2, QuietStep

\* A verified block goes on to be booked only if it carries the amount.
LEMMA VerifyStep ==
  ASSUME Inv, NEW h \in Handler, Verify(h) PROVE Inv'
<1>1. (Goto(h, "book") /\ step[h] = "verify") \/ Drop(h)
  BY DEF Verify, At
<1>2. /\ step' \in [Handler -> {"idle", "list", "verify", "book", "earn"}]
      /\ WorkOK'
      /\ \A g \in Handler : step'[g] # "idle" => work'[g] \in Invoices
      /\ \A g \in Handler : step'[g] \in {"verify", "book", "earn"} => proof'[g] \in Block
      /\ \A g \in Handler \ {h} :
           step'[g] = step[g] /\ work'[g] = work[g] /\ proof'[g] = proof[g]
      /\ step'[h] \in {"idle", "book"}
      /\ step'[h] = "book" => work'[h] = work[h] /\ proof'[h] = proof[h]
  BY <1>1, HandlerMoves DEF Inv
<1>3. UNCHANGED <<status, price, invoiced, row, made, journal, sales, faults>>
  BY DEF Verify, job, bill
<1>4. TypeOK'
  BY <1>2, <1>3 DEF Inv, TypeOK, WorkOK
<1>5. step'[h] = "book" => Worth[proof[h]] >= work[h].amount
  <2>1. step'[h] = "book" => ~Drop(h)
    BY DEF Drop, Inv, TypeOK
  <2> QED
    BY <2>1 DEF Verify
<1>6. \A g \in Handler : step'[g] = "book" => Worth[proof'[g]] >= work'[g].amount
  BY <1>2, <1>5 DEF Inv, ProofInv
<1>7. \A g \in Handler : step'[g] = "earn" => journal'[proof'[g]] = work'[g]
  BY <1>2, <1>3 DEF Inv, ProofInv
<1> QED
  BY <1>3, <1>4, <1>6, <1>7 DEF Inv, ProofInv, PaidInvoiceIsBooked

\* A row that lapses or expires is not a paid one, and keeps its block.
LEMMA ExpireStep ==
  ASSUME Inv, NEW j \in Job, NEW s \in {"lapsed", "expired"},
         row[j] # NoRow, row' = [row EXCEPT ![j].state = s],
         status' \in [Job -> Statuses], faults' \in 0..MaxFaults,
         UNCHANGED <<price, invoiced, made, journal, sales, step, work, proof>>
  PROVE  Inv'
<1>1. row[j] \in Rows
  BY DEF Inv, TypeOK
<1> DEFINE new == [row[j] EXCEPT !.state = s]
<1>2. new \in Rows /\ new.state = s
  BY <1>1 DEF Rows
<1>3. row' = [row EXCEPT ![j] = new]
  OBVIOUS
<1> HIDE DEF new
<1>4. row' \in [Job -> Rows \cup {NoRow}]
  BY <1>2, <1>3 DEF Inv, TypeOK
<1>5. \A i \in Job : row'[i] = row[i] \/ row'[i].state = s
  BY <1>2, <1>3 DEF Inv, TypeOK
<1>6. TypeOK'
  BY <1>4 DEF Inv, TypeOK
<1>7. PaidInvoiceIsBooked'
  BY <1>5 DEF Inv, PaidInvoiceIsBooked
<1> QED
  BY <1>6, <1>7 DEF Inv, ProofInv

\* Handlers that give up.
LEMMA FailStep ==
  ASSUME Inv, NEW h \in Handler, Fail(h) PROVE Inv'
<1>1. Drop(h) /\ UNCHANGED <<status, price, invoiced, row, made, journal, sales>>
  BY DEF Fail, Die, job, bill
<1>2. faults' \in 0..MaxFaults
  BY DEF Fail, Die, Inv, TypeOK
<1>3. /\ step' \in [Handler -> {"idle", "list", "verify", "book", "earn"}]
      /\ WorkOK'
      /\ \A g \in Handler : step'[g] # "idle" => work'[g] \in Invoices
      /\ \A g \in Handler : step'[g] \in {"verify", "book", "earn"} => proof'[g] \in Block
      /\ \A g \in Handler \ {h} :
           step'[g] = step[g] /\ work'[g] = work[g] /\ proof'[g] = proof[g]
      /\ step'[h] = "idle"
  BY <1>1, HandlerMoves DEF Inv, Drop, TypeOK
<1>4. TypeOK'
  BY <1>1, <1>2, <1>3 DEF Inv, TypeOK, WorkOK
<1> QED
  BY <1>1, <1>3, <1>4, QuietStep

JournalKept == \A b \in Block : journal[b] # None => journal'[b] = journal[b]

\* Every step keeps the invariant and what the journal says.
LEMMA InvStep ==
  ASSUME Inv, [Next]_vars PROVE Inv' /\ JournalKept
<1>1. ASSUME NEW h \in Handler, ListInvoice(h) PROVE Inv' /\ JournalKept
  BY <1>1, ListStep DEF JournalKept
<1>2. ASSUME NEW h \in Handler, Verify(h) PROVE Inv' /\ JournalKept
  BY <1>2, VerifyStep DEF JournalKept, Verify
<1>3. ASSUME NEW h \in Handler, Book(h) PROVE Inv' /\ JournalKept
  BY <1>3, BookStep DEF JournalKept
<1>4. ASSUME NEW h \in Handler, EarnMinted(h) PROVE Inv' /\ JournalKept
  BY <1>4, EarnStep DEF JournalKept
<1>5. ASSUME NEW h \in Handler, Fail(h) PROVE Inv' /\ JournalKept
  BY <1>5, FailStep DEF JournalKept, Fail
<1>6. ASSUME NEW h \in Handler, NEW j \in Job, Checkout(h, j) PROVE Inv' /\ JournalKept
  <2>1. PICK n \in Amounts : Take(h, "list", [job |-> j, id |-> made', amount |-> n], None)
    BY <1>6 DEF Checkout
  <2>2. made' \in 0..MaxInvoices /\ status' \in [Job -> Statuses]
    BY <1>6 DEF Checkout, Inv, TypeOK, Statuses
  <2>3. [job |-> j, id |-> made', amount |-> n] \in Invoices
    BY <2>2 DEF Invoices
  <2>4. UNCHANGED <<row, journal, sales, invoiced, price, faults>>
    BY <1>6 DEF Checkout
  <2> QED
    BY <2>1, <2>2, <2>3, <2>4, TakeStep DEF JournalKept
<1>7. ASSUME NEW h \in Handler, NEW j \in Job, NEW b \in Block, Submit(h, j, b)
      PROVE  Inv' /\ JournalKept
  <2>1. UNCHANGED <<status, made, row, journal, sales, invoiced, price, faults>>
    BY <1>7 DEF Submit, job, bill
  <2>2. Invoice(j) \in Invoices /\ Take(h, "verify", Invoice(j), b)
    BY <1>7, InvoiceTyped DEF Submit, Inv
  <2>3. status' \in [Job -> Statuses] /\ made' \in 0..MaxInvoices
    BY <2>1 DEF Inv, TypeOK
  <2> QED
    BY <2>1, <2>2, <2>3, TakeStep DEF JournalKept
<1>8. ASSUME NEW h \in Handler, NEW j \in Job, NEW b \in Block, Mint(h, j, b)
      PROVE  Inv' /\ JournalKept
  BY <1>8, MintStep DEF JournalKept
<1>9. ASSUME NEW j \in Job, Lapse(j) PROVE Inv' /\ JournalKept
  <2>1. row[j] # NoRow /\ row' = [row EXCEPT ![j].state = "lapsed"]
    BY <1>9 DEF Lapse, NoRow
  <2>2. UNCHANGED <<status, price, invoiced, made, journal, sales, step, work, proof, faults>>
    BY <1>9 DEF Lapse, job, handler
  <2>3. status' \in [Job -> Statuses] /\ faults' \in 0..MaxFaults
    BY <2>2 DEF Inv, TypeOK
  <2> QED
    BY <2>1, <2>2, <2>3, ExpireStep DEF JournalKept
<1>10. ASSUME NEW j \in Job, Expire(j) PROVE Inv' /\ JournalKept
  <2>1. row[j] # NoRow /\ row' = [row EXCEPT ![j].state = "expired"]
    BY <1>10 DEF Expire
  <2>2. UNCHANGED <<price, invoiced, made, journal, sales, step, work, proof>>
    BY <1>10 DEF Expire, handler
  <2>3. status' \in [Job -> Statuses] /\ faults' \in 0..MaxFaults
    BY <1>10 DEF Expire, Inv, TypeOK, Statuses
  <2> QED
    BY <2>1, <2>2, <2>3, ExpireStep DEF JournalKept
<1>11. ASSUME NEW j \in Job, MoveJob(j) PROVE Inv' /\ JournalKept
  <2>1. UNCHANGED <<price, invoiced, row, made, journal, sales, step, work, proof, faults>>
    BY <1>11 DEF MoveJob, bill, handler
  <2>2. status' \in [Job -> Statuses]
    BY <1>11 DEF MoveJob, Inv, TypeOK
  <2>3. TypeOK'
    BY <2>1, <2>2 DEF Inv, TypeOK
  <2> QED
    BY <2>1, <2>3, QuietStep DEF JournalKept
<1>12. ASSUME UNCHANGED vars PROVE Inv' /\ JournalKept
  <2>1. UNCHANGED <<status, price, invoiced, row, made, journal, sales, step, work, proof, faults>>
    BY <1>12 DEF vars, job, bill, handler
  <2>2. TypeOK'
    BY <2>1 DEF Inv, TypeOK
  <2> QED
    BY <2>1, <2>2, QuietStep DEF JournalKept
<1> QED
  BY <1>1, <1>2, <1>3, <1>4, <1>5, <1>6, <1>7, <1>8, <1>9, <1>10, <1>11, <1>12
  DEF Next, Continue

\* The inductive invariant holds throughout.
LEMMA Invariance == Spec => []Inv
<1>1. Inv /\ [Next]_vars => Inv'
  BY InvStep
<1> QED
  BY InvInit, <1>1, PTL DEF Spec

\* Statuses, invoice rows, journal, ledger and what a handler holds keep their
\* types, whatever is submitted and whoever dies.
THEOREM NanoTyped == Spec => []TypeOK
<1>1. Inv => TypeOK
  BY DEF Inv
<1> QED
  BY Invariance, <1>1, PTL

\* No block pays for two jobs and no job is paid twice: two sales with one block
\* find one entry in the journal, which names one job, which has one sale.
THEOREM OneBlockPaysOnce == Spec => []OneBlockOneSale
<1>1. Inv => OneBlockOneSale
  <2> SUFFICES ASSUME Inv, NEW s \in sales, NEW t \in sales,
                      s.job = t.job \/ s.block = t.block
               PROVE  s = t
    BY DEF OneBlockOneSale
  <2>1. s.job = t.job
    BY DEF Inv, ProofInv
  <2> QED
    BY <2>1 DEF Inv, ProofInv
<1> QED
  BY Invariance, <1>1, PTL

\* Revenue is backed by an entry of the journal in the job's name, for a block
\* that carries the amount of the invoice it was accepted for.
THEOREM SalesHaveProof == Spec => []SalesAreProven
<1>1. Inv => SalesAreProven
  <2> SUFFICES ASSUME Inv, NEW s \in sales
               PROVE  /\ journal[s.block] # None /\ journal[s.block].job = s.job
                      /\ Worth[s.block] >= journal[s.block].amount
    BY DEF SalesAreProven
  <2>1. s.block \in Block
    BY DEF Inv, TypeOK
  <2> QED
    BY <2>1 DEF Inv, ProofInv
<1> QED
  BY Invariance, <1>1, PTL

\* An invoice row says paid only after the ledger has booked its block for the job.
THEOREM PaidRowsAreBooked == Spec => []PaidInvoiceIsBooked
<1>1. Inv => PaidInvoiceIsBooked
  BY DEF Inv
<1> QED
  BY Invariance, <1>1, PTL

\* What the journal says of a block it says for good.
THEOREM JournalEntriesStay == Spec => JournalIsFinal
<1>1. Inv /\ [Next]_vars => [JournalKept]_vars
  BY InvStep
<1> QED
  BY Invariance, <1>1, PTL DEF Spec, JournalIsFinal, JournalKept
=============================================================================
