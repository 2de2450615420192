--------------------------- MODULE NanoSettlement ---------------------------
(***************************************************************************)
(* Payment by Nano block: the invoices of solvent/nano_client.py, the      *)
(* verification endpoint of solvent/server.py, the booking in              *)
(* solvent/stages.py, and the journal nano_payments.json of the blocks     *)
(* that have paid for something.                                           *)
(*                                                                         *)
(* The journal and the ledger are two files, so one payment is two         *)
(* commits: the block is journalled first, under the journal's own lock,   *)
(* and the revenue is booked second, in SQLite.  A handler may die between *)
(* them; the same invoice may then resume, no other may.                   *)
(*                                                                         *)
(* A live block is any confirmed send to the receive address, worth what   *)
(* it is worth: nothing in it names a job.  An amount stands for cents and *)
(* for the raw Nano they come to.  What the rest of the pipeline does to   *)
(* a job's status (JobPipeline) is left open here (MoveJob).               *)
(***************************************************************************)
EXTENDS Naturals

CONSTANTS Job, Block, Handler,
          None,
          Amounts,      \* prices of quotes
          Worth,        \* the amount a block carries
          MaxInvoices,  \* bound on the invoices made
          MaxFaults     \* bound on handlers that die or fail

ASSUME NanoAssumption ==
    /\ Amounts \subseteq Nat
    /\ Worth \in [Block -> Nat]
    /\ MaxInvoices \in Nat /\ MaxFaults \in Nat
    /\ None \notin [job : Job, id : Nat, amount : Amounts]
    /\ None \notin Block

VARIABLES
    status,    \* jobs.status
    price,     \* price_cents in jobs.quote_json: of two handlers that quote
               \* the job at once, one bills and either may write this last
    invoiced,  \* jobs whose checkout stage is recorded
    row,       \* nano_invoices
    made,      \* invoices made so far; their ids are 1..made
    journal,   \* nano_payments.json: the invoice each block has paid for
    sales,     \* revenue in the ledger: the job and the block it names
    step,      \* what each handler does next
    work,      \* the invoice a handler makes or has read ...
    proof,     \* ... and the block it was given for it
    faults

job  == <<status, price>>
bill == <<invoiced, row, made>>
handler == <<step, work, proof>>
vars == <<job, bill, journal, sales, handler, faults>>

Invoices == [job : Job, id : Nat, amount : Amounts]
\* An open row is "lapsed" once its expires_at has passed.
Rows == [id : Nat, amount : Amounts, state : {"open", "lapsed", "paid", "expired"},
         block : Block \cup {None}]
NoRow == [id |-> 0, amount |-> 0, state |-> "none", block |-> None]

\* "closed" stands for expired, failed and completed, "other" for the rest but
\* awaiting_payment: what is booked and when knows no finer distinction.
Statuses == {"awaiting", "other", "closed"}

TypeOK ==
    /\ status \in [Job -> Statuses] /\ price \in [Job -> Amounts]
    /\ invoiced \subseteq Job
    /\ row \in [Job -> Rows \cup {NoRow}]
    /\ made \in 0..MaxInvoices
    /\ journal \in [Block -> Invoices \cup {None}]
    /\ sales \subseteq [job : Job, block : Block]
    /\ step \in [Handler -> {"idle", "list", "verify", "book", "earn"}]
    /\ work \in [Handler -> Invoices \cup {None}]
    /\ proof \in [Handler -> Block \cup {None}]
    /\ \A h \in Handler :
         /\ step[h] # "idle" => work[h] \in Invoices
         /\ step[h] \in {"verify", "book", "earn"} => proof[h] \in Block
    /\ faults \in 0..MaxFaults

Init ==
    /\ status = [j \in Job |-> "other"] /\ price \in [Job -> Amounts]
    /\ invoiced = {} /\ row = [j \in Job |-> NoRow]
    /\ made = 0
    /\ journal = [b \in Block |-> None] /\ sales = {}
    /\ step = [h \in Handler |-> "idle"]
    /\ work = [h \in Handler |-> None] /\ proof = [h \in Handler |-> None]
    /\ faults = 0

-----------------------------------------------------------------------------
At(h, s)   == step[h] = s
Goto(h, s) == step' = [step EXCEPT ![h] = s] /\ UNCHANGED <<work, proof>>

\* A handler takes up an invoice, and a block for it.
Take(h, s, invoice, b) ==
    /\ At(h, "idle")
    /\ step' = [step EXCEPT ![h] = s]
    /\ work' = [work EXCEPT ![h] = invoice]
    /\ proof' = [proof EXCEPT ![h] = b]

\* A handler is done with its invoice, or dies.
Drop(h) ==
    /\ step' = [step EXCEPT ![h] = "idle"]
    /\ work' = [work EXCEPT ![h] = None]
    /\ proof' = [proof EXCEPT ![h] = None]
Die(h) == faults < MaxFaults /\ faults' = faults + 1 /\ Drop(h)

Sold(j) == \E s \in sales : s.job = j
Sale(h) == [job |-> work[h].job, block |-> proof[h]]
Payable(j) == row[j].state \in {"open", "paid"}
Invoice(j) == [job |-> j, id |-> row[j].id, amount |-> row[j].amount]

\* _persist_paid_state marks the invoice with the block of the revenue.
MarkPaid(j, b) ==
    row' = IF row[j] = NoRow THEN row
           ELSE [row EXCEPT ![j].state = "paid", ![j].block = b]
MarkSold(j) == \E s \in sales : s.job = j /\ MarkPaid(j, s.block)

-----------------------------------------------------------------------------
(* Making an invoice: _stage_checkout, by as many handlers as get there.   *)

\* Each handler bills what it has quoted itself.
Checkout(h, j) ==
    /\ j \notin invoiced /\ made < MaxInvoices
    /\ made' = made + 1
    /\ status' = [status EXCEPT ![j] = "awaiting"]
    /\ \E n \in Amounts : Take(h, "list", [job |-> j, id |-> made', amount |-> n], None)
    /\ UNCHANGED <<price, invoiced, row, journal, sales, faults>>

\* The stage is recorded, then upsert_nano_invoice replaces the row but for a
\* block already noted in it; the handler may die between.
ListInvoice(h) ==
    LET w == work[h] IN
    /\ At(h, "list")
    /\ invoiced' = invoiced \cup {w.job}
    /\ \/ Die(h) /\ UNCHANGED row
       \/ /\ row' = [row EXCEPT ![w.job] =
                       [id |-> w.id, amount |-> w.amount, state |-> "open", block |-> @.block]]
          /\ Drop(h) /\ UNCHANGED faults
    /\ UNCHANGED <<job, made, journal, sales>>

-----------------------------------------------------------------------------
(* POST /payments/nano/verify.                                             *)

\* The endpoint reads the invoice it is given a block for.
Submit(h, j, b) ==
    /\ row[j] # NoRow
    /\ Take(h, "verify", Invoice(j), b)
    /\ UNCHANGED <<job, bill, journal, sales, faults>>

\* Mutant: the amount is not compared.
VerifyAnyAmount(h) ==
    LET w == work[h] IN
    /\ At(h, "verify")
    /\ IF status[w.job] = "awaiting" /\ Payable(w.job)
       THEN Goto(h, "book") ELSE Drop(h)
    /\ UNCHANGED <<job, bill, journal, sales, faults>>

\* The status check, verify_nano_block(book=False), and the reads of advance_job
\* and _stage_paid that Book makes again under the lock.
Verify(h) ==
    LET w == work[h] IN
    /\ At(h, "verify")
    /\ IF status[w.job] = "awaiting" /\ Payable(w.job) /\ Worth[proof[h]] >= w.amount
       THEN Goto(h, "book") ELSE Drop(h)
    /\ UNCHANGED <<job, bill, journal, sales, faults>>

\* Under the treasury lock: is the invoice that was verified still to be paid?
Matches(w) ==
    /\ status[w.job] = "awaiting" /\ Payable(w.job)
    /\ w.id = row[w.job].id /\ w.amount = row[w.job].amount
    /\ w.amount = price[w.job]

\* Mutant: whatever the journal says.
MayUseAny(b, w) == b \in Block

\* Mutant: a block in the journal is spent.
MayUseOnce(b, w) == journal[b] = None

\* _try_book_block(resume_invoice=True).
MayUse(b, w) == journal[b] \in {None, w}

\* Mutant: the invoice is marked before the revenue is booked.
BookMarked(h) ==
    LET w == work[h]  b == proof[h] IN
    /\ At(h, "book") /\ ~Sold(w.job) /\ Matches(w) /\ MayUse(b, w)
    /\ journal' = [journal EXCEPT ![b] = w]
    /\ MarkPaid(w.job, b)
    /\ \/ Drop(h) /\ sales' = sales \cup {Sale(h)} /\ UNCHANGED faults
       \/ Die(h) /\ UNCHANGED sales
    /\ UNCHANGED <<job, invoiced, made>>

\* Mutant: a resumed invoice takes the journal's entry over.
BookOver(h) ==
    LET w == work[h]  b == proof[h] IN
    /\ At(h, "book") /\ ~Sold(w.job) /\ Matches(w)
    /\ journal' = [journal EXCEPT ![b] = w]
    /\ sales' = sales \cup {Sale(h)}
    /\ MarkPaid(w.job, b)
    /\ Drop(h)
    /\ UNCHANGED <<job, invoiced, made, faults>>

\* _stage_paid: journal, revenue, invoice, three commits under one lock; the
\* handler may die before each of them.
Book(h) ==
    LET w == work[h]  b == proof[h] IN
    /\ At(h, "book")
    /\ UNCHANGED <<job, invoiced, made>>
    /\ IF status[w.job] # "closed" /\ Sold(w.job)
       THEN MarkSold(w.job) /\ Drop(h) /\ UNCHANGED <<journal, sales, faults>>
       ELSE IF ~(Matches(w) /\ MayUse(b, w))
       THEN Drop(h) /\ UNCHANGED <<row, journal, sales, faults>>
       ELSE /\ journal' = [journal EXCEPT ![b] = IF @ = None THEN w ELSE @]
            /\ \/ Die(h) /\ UNCHANGED <<row, sales>>
               \/ /\ sales' = sales \cup {Sale(h)}
                  /\ \/ Die(h) /\ UNCHANGED row
                     \/ Drop(h) /\ MarkPaid(w.job, b) /\ UNCHANGED faults

-----------------------------------------------------------------------------
(* The sync demo: the runner mints a block for the invoice and journals it *)
(* while it verifies it, before it takes the treasury lock.                *)

Mint(h, j, b) ==
    /\ row[j] # NoRow /\ Payable(j) /\ ~Sold(j)
    /\ journal[b] = None /\ \A g \in Handler : proof[g] # b
    /\ Worth[b] >= row[j].amount
    /\ journal' = [journal EXCEPT ![b] = Invoice(j)]
    /\ Take(h, "earn", Invoice(j), b)
    /\ UNCHANGED <<job, bill, sales, faults>>

EarnMinted(h) ==
    LET j == work[h].job IN
    /\ At(h, "earn")
    /\ UNCHANGED <<job, invoiced, made, journal>>
    /\ IF status[j] = "closed"
       THEN Drop(h) /\ UNCHANGED <<row, sales, faults>>
       ELSE IF Sold(j)
       THEN MarkSold(j) /\ Drop(h) /\ UNCHANGED <<sales, faults>>
       ELSE /\ sales' = sales \cup {Sale(h)}
            /\ \/ Die(h) /\ UNCHANGED row
               \/ Drop(h) /\ MarkPaid(j, proof[h]) /\ UNCHANGED faults

-----------------------------------------------------------------------------
(* Time, the sweep, the rest of the pipeline, and faults.                  *)

Lapse(j) ==
    /\ row[j].state = "open"
    /\ row' = [row EXCEPT ![j].state = "lapsed"]
    /\ UNCHANGED <<job, invoiced, made, journal, sales, handler, faults>>

\* Mutant: another word for it.
ExpireVoid(j) ==
    /\ status[j] = "awaiting" /\ ~Sold(j) /\ row[j] # NoRow
    /\ row' = [row EXCEPT ![j].state = "void"]
    /\ status' = [status EXCEPT ![j] = "closed"]
    /\ UNCHANGED <<price, invoiced, made, journal, sales, handler, faults>>

\* checkout.sweep: the invoice first, then the job; the sweep may die between.
Expire(j) ==
    /\ status[j] = "awaiting" /\ ~Sold(j) /\ row[j] # NoRow
    /\ row' = [row EXCEPT ![j].state = "expired"]
    /\ \/ status' = [status EXCEPT ![j] = "closed"] /\ UNCHANGED faults
       \/ UNCHANGED status /\ faults < MaxFaults /\ faults' = faults + 1
    /\ UNCHANGED <<price, invoiced, made, journal, sales, handler>>

MoveJob(j) ==
    /\ \E s \in Statuses : status' = [status EXCEPT ![j] = s]
    /\ UNCHANGED <<price, bill, journal, sales, handler, faults>>

Fail(h) == ~At(h, "idle") /\ Die(h) /\ UNCHANGED <<job, bill, journal, sales>>

Continue(h) == ListInvoice(h) \/ Verify(h) \/ Book(h) \/ EarnMinted(h)

Next ==
    \/ \E h \in Handler : Continue(h) \/ Fail(h)
    \/ \E h \in Handler, j \in Job : Checkout(h, j)
    \/ \E h \in Handler, j \in Job, b \in Block : Submit(h, j, b) \/ Mint(h, j, b)
    \/ \E j \in Job : Lapse(j) \/ Expire(j) \/ MoveJob(j)

Spec == Init /\ [][Next]_vars

\* A handler runs on, and a customer who has paid keeps submitting the block.
FairSpec ==
    /\ Spec
    /\ \A h \in Handler : WF_vars(Continue(h))
    /\ \A j \in Job, b \in Block : SF_vars(\E h \in Handler : Submit(h, j, b))
-----------------------------------------------------------------------------
\* No block pays for two jobs and no job is paid twice, however submissions,
\* the sync runner, lost answers and deaths between the two files interleave
\* (docs/NANO_SETTLE.md: replay "never fulfils").
OneBlockOneSale ==
    \A s, t \in sales : s.job = t.job \/ s.block = t.block => s = t

\* Revenue has proof: the journal holds its block in the job's own name, and the
\* block is worth the invoice it was accepted for.
SalesAreProven ==
    \A s \in sales :
        LET entry == journal[s.block]
        IN  entry # None /\ entry.job = s.job /\ Worth[s.block] >= entry.amount

\* The worker books an unpaid job on the word of an invoice row that says paid
\* (_stage_paid, "a previously verified block may already be on the invoice
\* row"): so a row may say that only once the ledger does.
PaidInvoiceIsBooked ==
    \A j \in Job : row[j].state = "paid" => [job |-> j, block |-> row[j].block] \in sales

\* Why: what a handler holds when it books, and what the journal holds for it.
ProofInv ==
    /\ \A b \in Block : journal[b] # None => Worth[b] >= journal[b].amount
    /\ \A h \in Handler :
         /\ step[h] = "book" => Worth[proof[h]] >= work[h].amount
         /\ step[h] = "earn" => journal[proof[h]] = work[h]
    /\ \A s \in sales : journal[s.block] # None /\ journal[s.block].job = s.job
    /\ \A s, t \in sales : s.job = t.job => s = t

\* "Never transfer proof ownership to another invoice" (_try_book_block).
JournalIsFinal == [][\A b \in Block : journal[b] # None => journal'[b] = journal[b]]_vars

\* A payment interrupted between the two files is not lost: submitted again it
\* is booked, as long as its invoice stands.
InterruptedIsBooked ==
    \A b \in Block, j \in Job :
        LET stands == Invoice(j) = journal[b] /\ Matches(Invoice(j))
        IN  stands ~> (Sold(j) \/ ~stands)
=============================================================================
