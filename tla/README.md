# A formal model of the jewellery ERP

TLA+ modules, TLC runs and TLAPS proofs for the API of this repository
(`src/apps/api`) and its pricing engine (`src/packages/pricing-engine`).  The
ERP keeps single pieces of jewellery, not quantities: a piece is a row that is
reserved, sold, repaired, hallmarked, melted, and documents, money and stock
have to agree about it while web requests, payment webhooks and timers run at
once over one MongoDB.  That is what is modelled here, from the stock ledger
upwards.

Paths below are under `src/apps/api/src/modules/` unless they start with `src/`.

## 1. The system

Every service is a set of `async` functions in Node processes over MongoDB.
Two mechanisms make it correct, and the models follow them:

* a **MongoDB transaction** (`withInventoryTransaction`).  It reads a snapshot,
  aborts on a write conflict and is run again.  Where everything it decides on is
  also something it writes, a committed transaction is one atomic step.  Variables
  outside the callback survive a rolled-back attempt;
* a **compare-and-set** on a status or on `ledgerSeq`
  (`findOneAndUpdate({_id, status: ...})`).

Everything between two such operations can be interleaved with anybody else,
and whatever was read before one of them may be stale when it is used.  Most of
the modules below are about handlers that read, check, and write later.

### Inventory of components

| component | state | operations | hard behaviour | what makes it correct |
|---|---|---|---|---|
| **inventory ledger** (`inventory/`) | item record (status, location, weights, `ledgerSeq`, reservation); append-only ledger | `postInSession` for each movement; `receiveNewInventoryItem` | two writers on one item, transactions of many lines, long histories | record = replay of the ledger; every change ledgered; holds honoured; status graph |
| **holds** (`inventory/`, `server.ts`) | `reservation`, `expiresAt` | expiry sweep, release endpoint | list first, release later; owner checked outside the transaction | only the hold that is named ends; a lapsed hold ends |
| **transfers, adjustments** (`inventory/stock-operations.ts`) | transfer with lines; adjustment request | dispatch, receive (in part), cancel; request, approve, reject | partial receipt, an item moved since the request | document and ledger tell one story |
| **orders** (`orders/`) | order: status, allocations, `paymentId`, `holdExpiresAt` | place, cancel, expire | pieces chosen outside the transaction, sweep against payment, crash between awaits | a confirmed order owns its pieces; an unpaid one ends |
| **payments** (`orders/payment.service.ts`) | attempts, refunds; webhook events | initiate, return, close, webhook, reconcile, capture, refund | late, repeated, reordered reports; asynchronous refunds | no money kept or refunded twice; back to an earlier status only by a stale total |
| **enquiries** (`b2b/procurement.service.ts`) | customer's purchase order, quotations | draft, submit, review, quote, counter, accept, approve, lapse | rivals closed outside the transaction; a draft edited while it is read | one live negotiation; agreed terms are those asked for |
| **sales orders** (`b2b/procurement.service.ts`, `fulfilment.service.ts`) | sales order with allocations; invoices | convert, approve credit, allocate, release, invoice, dispatch, cancel | credit under concurrent commits, lists read before the transaction | credit limit; lists, invoices and stock agree |
| **customer money** (`b2b/payments.service.ts`, `accounting/`) | payments, their allocations, credit notes, postings | record, verify, reject, allocate, reverse, note | a document's journals reversed one by one | nothing applied twice; account = sum of documents |
| **purchasing** (`procurement/`) | requisition, purchase order, goods receipt | draft, approve, convert, receive, cancel | draft saved over a newer status; receipts from stale copies | a receipt's pieces are in stock; status follows receipts |
| **supplier money** (`procurement/`, `accounting/`) | supplier invoices, payments, debit notes, postings | create, allocate, reverse, cancel | cancel against allocation | nothing paid twice; account = sum of documents |
| **workshop** (`manufacturing/`, `hallmarking/`) | production and job work orders, batches | issue, quality check, complete, return in part, dispatch, receive, judge | stale issue lists, lists filled outside the retried transaction, pieces moved by hand | a piece is away for one document; made pieces are listed |
| **after sales** (`returns/`, `repair/`, `exchange/`) | return, repair order, exchange | request ... settle; intake ... hand back; assess, complete | stock in one transaction, document in another; check then create; pieces moved by hand | a piece is kept for one document; an old piece comes in once |
| **pricing** (`pricing/`, `metals/`, `compliance/`, `storefront/`, the engine) | rules, price lists, rates, tax rules | save a rule, new version, enter a rate, show, ask, order | check then save; everything loaded anew at each request; rounding part by part | no ties; one version in force; ordered at a total that was told |
| accounting, the rest (`accounting/`) | chart of accounts, manual journals | post, reverse | - | balanced journals |
| authentication (`auth/`) | sessions, refresh tokens | login, refresh, reset | two uses of one token | rotation and reuse detection |
| catalog, customers, suppliers, organization, media | master data | create, read, update | category cycles, SKU namespace checked before insert | unique keys |
| dashboard, reports, storefront reads, audit, frontends, seeds | read models, user interface | read | none | - |

How they meet: everything that moves stock calls `postInSession`, inside the
transaction of its own document where there is one.  The order service calls
payments (`reconcileOpenPayments`, `voidOpenPayments`, `refund`), which call back
into the order (`moveOrder`) and into stock (`sellPieces`, `releaseHeldPieces`).
Converting a purchase order writes enquiry, sales order and customer at once;
invoices, payments, receipts and notes post journals inside their own
transaction.  Returns look into the allocations of both kinds of order.  The
provider calls in through webhooks, and `server.ts` starts the timers: order
expiry, hold expiry, reconciliation, quotation expiry.

`PROJECT.json` lists the hazards found in this code, each at its line, with
the properties that look at it.

## 2. The modules

    StockRules            the two static tables
      |- PieceCustody          abstract: what inventory promises about one piece
      |- StockLedger           the write path and the stock operations
           |- StockHolds           who ends a hold, and how late
           |- StockDocuments       transfers, adjustments
    Orders                checkout, payment, refund, cancel, expiry
                          (its pieces checked against PieceCustody)
    Enquiries             the customer's purchase order and its quotations
      |- SalesOrders           conversion, credit, allocation, invoices
           |- Receivables          payments, credit notes, the account
    Purchasing            requisition, purchase order, goods receipt
      |- Payables              supplier invoices, payments, debit notes
    Workshop              production, job work, hallmarking over one stock
    AfterSales            returns, repairs, exchanges over one stock
    Pricing               the engine's arithmetic and rule resolution
      |- PriceBook             rules, price lists, rates, the shop
    Summation             sums, for SalesOrders ff. and Purchasing ff.
    *Proofs               theorems;  MC*  instances for TLC

**StockRules** is `LEGAL_TRANSITIONS` (status-transitions.ts) and
`MOVEMENT_RULES` (movement-rules.ts) as functions.

**StockLedger.**  `item[i]` is the cached record: status, location, balance,
`ledgerSeq`, hold; `ledger[i]` the entries of that item.  `Post(m, S, line)` is
`postInSession` with a movement, the items of its lines and what the lines
carry: `CanPost` is its checks in their order (status, destination, edit, hold),
`Posted` the update, `Entry` the ledger entry; every line commits or none.
`Receive` is `receiveNewInventoryItem`, which takes any status, as the receiving
endpoint does.  Each function of stock-operations.ts is an action; `HoldLapses`
is time passing `expiresAt`.  Quantity and the three weights are one number
`bal`; an edit is absolute for a UNIT and a delta for a BATCH as in the code; a
hold's expiry is an age (open, running, lapsed); audit and HUID are left out.

**PieceCustody** says in a page what others may rely on: a piece moves along the
status graph; a hold is taken only from the shelf, is exclusive, is never handed
over and ends when the piece moves on.  StockLedger implements it, with the
documents too, and the pieces of Orders follow it (all checked and proved), so
what Orders assumes of the inventory is what the inventory delivers.

**StockHolds** adds the two places that look before they write:
`SweepRead`/`SweepRelease` (releaseExpiredReservations) and `Vet`/`ReleaseVetted`
(inventory.service `release`), with `stale` and `vetted` holding what was read.
**StockDocuments** adds `transfer` and `adjustment`, each handler one step with
its ledger write because it is one transaction.

**Orders.**  A handler is a worker with a program counter (`work[w].pc`): one
action is one database operation, one transaction or one provider call, in the
order of the source, and any other worker may run in between.  `gateway` is
what the provider believes, `sent` the events it has emitted (delivered late,
repeatedly, in any order), `processed` those recorded as applied, `expired`
the orders past `holdExpiresAt`.  `Crash(w)` drops a handler between two awaits.
`Return` is where `apply` goes back to, `Throw` what an exception does there.
Amounts are small numbers; `moveOrder`'s read and compare-and-set are one step
(losing it and reading a status not allowed both answer null); `fetchStatus` and
the use of its answer are one step up to the choice of the branch; PAID exists
only inside the capture transaction; the sweep frees one piece atomically (its
stale listing is StockHolds' subject); an answer to `initiate` that is lost is
not modelled.

**Enquiries, SalesOrders, Receivables** are `b2b/` and its postings, each module
extending the one before; `Next` of Receivables is the whole.  Where a handler
reads a document, checks it and writes later, it is two actions of a worker, and
`work`, `desk`, `till` hold what was read (`ReadPurchaseOrder` and
`ApprovePurchaseOrder`, `StartInvoice` and `SellPieces`, ...); where its write is
guarded by everything it decided on, it is one.  A transaction that writes the
customer (`creditSeq`) or the payment (`allocationSeq`) conflicts with another
that does: `Conflicts` and `Supersedes`.  Lines are a number of pieces of one
design, the credit limit a number of pieces.  A request to invoice is the number of
pieces it bills: naming the line several times it may bill more than are held, up
to `MaxNamed` times as many, and `PiecesSold` is what is then sold.  `pickUpTo` sorts by `createdAt`, so
`PickPieces` takes a list of the oldest pieces on the shelf (`IsOldest`; the
numbers of the pieces are their ages).  `Invoiced`, `Received` and the credit notes
are sums over documents, counted unit by unit (Summation).

**Purchasing, Payables** treat the supplier's side the same way.  A Mongoose
`save()` of a document read earlier writes the fields it changed, whatever the
status has become (`Saved`); a goods receipt checks its copy (`PrepareReceipt`)
and then increments (`PostReceipt`).  A line of a product type that is not
ledger-tracked (`consumable`) counts what it received and brings nothing into
stock (`IntoStock`).  `ap` is the balance of Accounts Payable, which
the invariant compares with the sums of the documents.

**Workshop** holds single pieces, a status and a kind of place each: STORE is any
stock location, the unit, the job worker and the assaying centre are the others.
Each piece weighs 1, `MaxWaste` is what a return may write off, and a transaction
is rolled back and tried again at most once (`Attempts`).  Staff can also move any
piece themselves (`MovePartner`: `POST /inventory/movements`, which asks for no
document) and correct its status through an adjustment (`Correct`); a start bounds
this by `free`, the pieces and the statuses they may be put into by hand, and
`byHand` remembers the pieces.  There are two job work orders: what
a return checks is its copy of one order, what it moves is the stock, and the
piece may meanwhile be out for the other.

**AfterSales** has the orders of both kinds as far as a return can see them
(stage, allocations), the pieces with their buyer, and every handler of
returns, repairs and exchanges.  Here too staff move a piece into and out of repair,
or correct it, without a document (`MoveByHand`, bounded by `free`).  Repair intake and the completion of an exchange
are two steps, as they are two transactions.

**Pricing** is the engine: fixed-point division, weights, metal, wastage, making,
discount, tax, and the resolution and comparison of rules, as operators over
small units (`MgPerGram`, `Unit`, `Hundred` are its scale factors).  **PriceBook**
is the API around it: rules saved after a check (`StartCreate`, `CreateRule`),
price list versions (the first may be given an end), rates and tax rules, the shop
that shows a price (`Show`), the checkout that asks it (`Verify`) and the one that
turns the bag into an order at the agreed total (`Accept`, `Refuse`, `Replay`,
`CreateOrder`).  Each of these prices from what is on record at its own moment
(`Worlds`), and rates, tax rules, pricing rules and days come between them.  The five
reads of `loadPricingWorld` are one step; a bag is one line, and its refusals for
stock and delivery are left to Orders or out.

### Instances and bounds

`MaxSeq` (ledger entries per item), `MaxBal`, `MaxRefunds`, `MaxCrashes`,
`MaxQuotes`, `MaxPieces`, `MaxAmount`, `MaxSum`, `MaxPosts`, `MaxEntries`,
`MaxWeight`, `MaxRules`, `MaxDate`, `MaxVersions`, `MaxDay`, `MaxNamed` and the sets of documents and
workers are bounds of the models; `MaxPicks` is the code's `MAX_PICK_ATTEMPTS`.
Each sits in a guard or a type and is named in its module.
`Room` in StockHolds keeps `MaxSeq` from being what stops a release, which the
liveness property would otherwise notice.

A composed system has more in it than one instance can hold.  `Scopes` (Orders),
`Shifts` (Receivables, Payables, AfterSales, PriceBook) and `Starts` (Workshop)
are sets of starting points: each says which documents exist, in states the code
brings them to, and, as `acts`, `jobs` or `about`, which handlers run from there.
In Receivables `orders` bounds which orders clerks begin to fulfil (`TakesUp`):
all of them, but in `Promising` only the earlier order, because once the later
one is confirmed no credit check is left in that shift for it to affect.
One run explores all starting points; the MC modules list them with a comment each.
What a starting point has to be is an assumption of the module (`StartOK`, in
Receivables `StartEnquiriesOK`, `StartOrdersOK`, `StartMoneyOK`): documents that
agree with each other and with the stock, as the handlers leave them.  The empty
database is one, TLC evaluates the assumption on those of the runs, and the
theorems hold for every choice that meets it.

Deadlock is not checked: bounded inputs run out, and the system may rest.

## 3. What the runs check

| run | instance | shows |
|---|---|---|
| StockHistory | 1 piece, 5 entries, a shop, a repair centre, a closed place, 2 references, 2 users and a manager | `Reconciles`, `HoldMatchesLedger`, `SaleHonoursHold`, `EveryChangeIsLedgered`, the refinement `ImplementsCustody`; a release frees only what it names (`UnforcedReleaseMatchesHolder`); a lapsed hold ends (`LapsedHoldEnds`).  Five entries reach sale, return, inspection and sale again. |
| DocsMixed | a piece and a batch, 4 entries, 2 transfers, 1 adjustment, 2 users | each transfer line was sent once and taken in once, at the right end (`TransferMatchesLedger`); an adjustment was applied once, on the item as requested (`AdjustmentMatchesLedger`) |
| OrdersRace | 1,375,758 states: 1 order and 1 payment with every handler, right and wrong amounts, two refunds, late answers; the same payment with refunds that fail; 2 orders with 2 payments for 1 piece | `ConfirmedOwnsPieces`, `RefundWithinCapture`, `ProviderRefundsWithinCapture`, `PiecesFollowCustody`; a payment goes back only by a total that was overtaken since it was read (`BackOnlyByStaleTotal`) |
| OrdersMoney | 1 order, 2 handlers, no crash, refunds that succeed | captured money pays the order or goes back (`NoMoneyIsLost`); a cancelled paid order gives back money and pieces (`CancelledMoneyReturns`) |
| OrdersEnd | 1 order, 2 attempts, 1 handler at a time, 1 crash | an order is confirmed or cancelled in the end and holds nothing for ever (`UnpaidOrderEnds`) |
| Wholesale | 318,710 states: 2 customer orders, 2 quotations, 3 pieces, 2 payments, a credit note, two workers of each kind; invoices of up to twice the pieces held; seven shifts | `OneNegotiation`, `AgreedAsAsked`, `QuotationsSettle`; `CreditHonoured`; `OrderMatchesStock`, `SoldOnOneInvoice`; `NothingOverApplied`, `JournalMatchesDocuments` |
| Purchase | 516,061 states: a requisition, 2 purchase orders of 2 lines, one of them a consumable or not, 2 bills, 2 payments, a debit note, two workers of each kind; five shifts | `ReceivedIsInStock`, `StatusFollowsReceipts`; `NothingOverpaid`, `PayablesMatchDocuments` |
| Workshop | 184,083 states: 4 pieces, 2 production orders, 2 job work orders, 2 batches, 2 workers; seven starts, in three of which staff move and correct a piece by hand | `AwayForOneDocument`, `MadePiecesAreListed`, `JobWorkWithinIssued` |
| AfterSales | 767,062 states: 3 pieces, 2 web orders and a trade order, 3 returns, 2 repairs, 2 exchanges; seven shifts, in one of which an old piece is taken in, sold and repaired, in three of which staff move or correct a piece by hand | `KeptForOneDocument`, `TakenInOnce`, `ReturnTakesBackItsSale` |
| PriceBook | 256,516 states: 2 editors, 3 dates, 2 rules of 3 candidates, 3 versions; a shop under each kind of making, wastage and discount; one that takes orders, with 2 requests, 2 days, a second rate and tax rule coming, and the making charge being edited | `TiesAreRefused`, `OneVersionInForce`, `HeavierNeverCheaper`; whatever changed since the shop showed a price, the order stands at a total the customer was told (`OrderedAsTold`) |
| AfterSalesMisattributed | as AfterSales | violated: `RequestedOfItsSale` |
| PriceSplit | as PriceBook | violated: `SameTotalWhicheverApplies` |

Two workers are enough for each race described in the source (a webhook against
the customer's return, a sweep, or another webhook; two clerks with one copy):
each property relates one document to one other, or to the stock, and each
handler reads once before it writes.  Two orders and one piece (or two pieces)
are the smallest stock that can be contended for; three pieces in AfterSales let
a piece be returned and sold again beside two customers' own.

Every property of a passing run has a variant of one definition in the module
(an operator with the name of the mistake: `HoldIgnored`, `ReserveUnguarded`,
`RecheckUnpaid`, `AcceptBlind`, ...) under which TLC finds it violated.

The type invariants (`TypeOK` and its namesakes) are in no cfg: they are parts of
the inductive invariants of section 4 where there is a proof, and elsewhere
documentation, checked while the module was written.

### Where the code does not do what it says

Two runs show a disagreement with the repository's own words:

* **AfterSalesMisattributed.**  An order's allocations outlive the sale: a web
  order keeps them after it lapses or is cancelled (returns/order-context.ts:28),
  and its pieces are sold to others.  A return can then be requested on the
  first order for the second buyer's piece, against return.service.ts:14 and
  business-rules.md:311.  The other way round, a trade order loses what it
  invoices from its allocations (fulfilment.service.ts:201), so a return of an
  invoiced piece is refused; and cancelling a confirmed web order whose piece was
  returned and resold takes it back from the new buyer (order-inventory.ts:90).
* **PriceSplit.**  CGST and SGST are rounded one by one, so the intra-state total
  can differ by a paisa from the inter-state one, against storefront-pricing.ts:101.

Thirteen more properties are defined in the modules with the words *said of the code,
and not kept by it*.  Add the line to the cfg to see the counterexample:

| property | add to | what happens | against |
|---|---|---|---|
| `StockLedger!SoldComesBackByReturn` | PROPERTY, StockHistory.cfg | SALE, REPAIR_OUT, REPAIR_IN: a customer's sold piece is AVAILABLE | movement-rules.ts:44, business-rules 2.5 |
| `StockDocuments!PendingIsInTransit` | INVARIANT, DocsMixed.cfg | an adjustment approved on a piece in transit; its transfer can neither be received nor cancelled | stock-operations.ts:268, :335 |
| `Orders!ConfirmedKeepsItsMoney` | PROPERTY, OrdersRace.cfg, with `Scopes <- ConfirmScopes` | two handlers of one capture, a piece coming free between them: the order is confirmed and refunded | payment.service.ts:150 |
| `Orders!PaymentNeverGoesBack` | PROPERTY, OrdersRace.cfg, with `Scopes <- RefusedScopes` | a refund fails and its total is read; another succeeds and the payment is REFUNDED; the first then writes its total, and the payment is CAPTURED again (payment.service.ts:62) | business-rules 11.5 (:213) |
| `SalesOrders!HeldPiecesAreListed` | INVARIANT, Wholesale.cfg | two allocations of one order, from one copy: the later list replaces the earlier and its pieces stay held | b2b-store.ts:41-45, b2b.models.ts:175 |
| `SalesOrders!NeverMoreThanHeld` | INVARIANT, Wholesale.cfg | a request names one line twice, each entry is compared with the held pieces by itself (b2b/fulfilment.service.ts:140-148): more is billed and counted as invoiced than is sold | fulfilment.service.ts:129-130 |
| `Purchasing!NothingOverReceived` | INVARIANT, Purchase.cfg | a receipt names a line twice, or two receipts check one copy: more is received than ordered | goods-receipt.service.ts:66-67, :91-92, :198-199 |
| `Payables!CancelledIsUnpaid` | INVARIANT, Purchase.cfg | an invoice is cancelled on the paid amount read before its transaction, while a payment is allocated to it (supplier-invoice.service.ts:79) | supplier-invoice.service.ts:90 |
| `Workshop!PathBackToStock` | INVARIANT, Workshop.cfg | finished pieces are created AVAILABLE at the unit or the job worker, where no movement to stock takes them from | business-rules.md:62, :277, :285; stock-operations.ts:181 |
| `Workshop!OnlyReceiptEndsHallmarking` | INVARIANT, Workshop.cfg | staff post HALLMARKING_IN for a piece of a batch that is out, and the batch can no longer be received (stock-operations.ts:151) | business-rules 16.3 (:293) |
| `AfterSales!IntakeIsAtomic` | INVARIANT, AfterSales.cfg | the process dies between taking a customer's piece in and creating its repair order: it is UNDER_REPAIR for no order (repair-order.service.ts:25) | business-rules 19.2 (:341), repair-status.ts:10 |
| `AfterSales!CustomersPieceNeverForSale` | INVARIANT, AfterSales.cfg | staff post REPAIR_IN for a customer's piece under repair: it is AVAILABLE, for sale | business-rules 19.5 (:347), movement-rules.ts:44 |
| `PriceBook!AnsweredAtAgreedTotal` | PROPERTY, PriceBook.cfg | a request that agrees to a new total carries the key of one that has made an order, and is answered with the order at the old total (checkout.service.ts:206-210) | business-rules 11.2 (:207) |

Met while reading and modelling, without a property of their own:

* **Orders.**  A crash
  after CANCELLED leaves pieces and money where they are and nothing resumes it
  (order.service.ts:62; business-rules.md:217).  A refund whose answer is lost
  is recorded FAILED and its amount may go out again (:99; put `"LOST"` into a
  scope's answers); a refused one is never tried again (order.service.ts:69).
  Two interleaved `initiate` calls leave two live attempts, of which one can
  pay.  An order already cancelled becomes REFUNDED when a duplicate payment on it
  is refunded (:48).
* **Stock.**  The sweep can free a hold that the same reference took anew
  (stock-operations.ts:74); the release endpoint rechecks the reference but not
  the person (inventory.service.ts:85); receiving accepts a piece as RESERVED with
  no holder.
* **Trade.**  A stale invoice handler lets an order of 2 be invoiced for 3, and so
  does a request that names a line twice.
  Reversing a payment or cancelling a credit note raises what the customer owes
  without writing the customer, so it does not conflict with a credit check; nor
  does invoicing, which usually owes no more than it stops promising, but does when it
  bills an order beyond what it sells.  `CreditHonoured` excepts the checks in progress at
  such a step (`old`).  The second case was found while its inductive invariant
  was being prepared, and the shift `Promising` reaches it.  `submitPurchaseOrder` writes back
  lines read earlier.  Rivals of an accepted quotation are closed after, and
  outside, its transaction (`QuotationsSettle` is why that is enough).
* **Purchasing.**  `updateDraftRequisition` and `updateDraftPurchaseOrder` can
  put an approved document back to what they read; `createPurchaseOrder` inserts
  the order before it converts the requisition.
* **Workshop.**  `finishedRefs` is filled outside the retried transaction, so a
  document can name pieces of a rolled-back attempt; cancelling production with a
  copy read at DRAFT strands the material (15.6); two returns of job work
  overwrite each other's reconciliation; so do two verdicts (16.5).  A return of
  job work waiting between its check and its transaction can bring back a piece
  that another return brought back meanwhile and a second order sent out again:
  the stock says it is home, the second order that it is away
  (job-work-order.service.ts; `AwayForOneDocument` excepts it as `Astray`).  This was
  found when the invariant turned out not to be inductive with two orders.
  Movements posted by hand and approved adjustments look at no document, so a piece
  can be away for none, or home while its order lists it as out.
* **After sales.**  The inspection queue (stock-operations.ts:135) can inspect a
  piece that is on a RECEIVED return; REPAIR_OUT posted by hand puts a piece under
  repair without a repair order; a SETTLED return blocks a new one after a
  resale to the same order; nothing compares a credit note with its invoice.
* **Pricing.**  The storefront's choice of the newest rate has no tie-break
  although metal-rate.repository.ts:13 says the last entered wins
  (storefront-pricing.ts:36); two overlapping saves can pass the ambiguity check
  together (`raced` excepts them); `createNewVersion`'s `current.save()` does
  nothing when its transaction is run again, and the old version stays open
  (`retried` excepts it).  A price list created with an end of its own
  (validation/src/price-list.ts:12) has no version in force past it until a next one is
  made (`Expired`).  A tax rule, a rate or an edited rule changes the price between
  showing and asking, and the customer learns of it from the bag.
* **Catalog**, read and not modelled: two moves of categories can make a cycle
  (taxonomy.service.ts:37-49); the SKU namespace of products and variants is
  checked before the insert.

### Fairness

* `HoldsFairness`: weak fairness of the sweep's query and of each iteration:
  `setInterval` runs it each minute and its loop does every row (server.ts:27).
* `HandlersRun`: weak fairness of a handler that has begun: Node resumes an
  `async` function whose await is over.  A crash ends the handler, so nothing is
  assumed of it afterwards.
* `EventsAreResent`: strong fairness of delivering some event not yet
  acknowledged; strong because a worker has to be free at the time.
* `SweepsRun`: time passes, and the two sweeps come round (strong for the order
  sweep, again because of the worker).
* `EnquiryFairness`: time passes and the quotation sweep of server.ts comes
  round; `Fairness` of Receivables is the same in the composition.

`MoneySpec` has the first pair of Orders, `StockSpec` the sweeps instead of the
resends.  Nothing is assumed of customers and staff.  `Withdrawn`, the scope of
OrdersMoney, has only refunds that SUCCEED: one the provider refuses is left to a
person, and then `CancelledMoneyReturns` would not hold.

## 4. What is proved

Eight modules hold the proofs.  Each theorem is for every set of items, orders,
documents, workers, for every bound and every choice of starting points, under
the named assumptions of its module, which TLC evaluates on each run (`None` is no
document, pieces, invoices, payments and the other sets that are counted are
finite, bounds are naturals, dates are numbers, terms are what the schemas accept, and each starting point is one
the handlers could have left).

| module | theorems | inductive invariant |
|---|---|---|
| StockProofs | `TypesHold`, `LedgerReconciles`, `HoldsMatchLedger`, `SalesHonourHolds`, `ChangesAreLedgered`, `LedgerImplementsCustody` | `HistoryOK` |
| | `HoldsKeepHistory`, `ReleasesMatchHolders` | `HoldsOK` |
| | `TransfersMatchLedger`, `AdjustmentsMatchLedger`, `DocumentsImplementCustody` | `DocsOK` |
| OrdersProofs | `ConfirmedOwn`, `RefundsWithinCapture`, `OrdersFollowCustody`, `ProviderWithinCapture`, `OnlyStaleTotalsGoBack` | `OrdersOK`; `AnswersOK`; `TotalsOK` |
| ReceivablesProofs | `EnquiriesAgree` (of Enquiries alone) | `EnquiryOK` |
| | `WholesaleTypes`, `WholesaleAgrees`, `SoldOnce`, `OrdersMatchStock`, `NeverOverApplied`, `ReceivablesAreTheDocuments` | `IInv` = `EnquiryOK`, `SalesOK`, `MoneyOK` |
| | `CreditIsHonoured` | `CreditInv` = `IInv`, `PromiseOK`, `TermsOK`, `CreditOK` |
| PayablesProofs | `PayablesTypes`, `GoodsReceived`, `StatusIsOfReceipts`, `NeverOverpaid`, `PayablesAreTheDocuments` | `IInv` = `BuyingOK`, `OwingOK` |
| WorkshopProofs | `WorkshopTypes`, `AlwaysAwayForOne`, `AlwaysListed`, `AlwaysWithinIssued` | `IInv` |
| AfterSalesProofs | `AfterSalesTypes`, `AlwaysKeptForOne`, `AlwaysTakenInOnce`, `AlwaysTakesBack` | `IInv` |
| PriceBookProofs | `NoTies`, `OneVersion` | `BooksOK` |
| | `WeightNeverPays`, `OrdersAsTold`; of the engine alone `OneRuleGoverns`, `HeavierCostsMore` | `ShopOK` |
| SummationProofs | lemmas on sums, cited by the proofs about money and pieces | - |

Every inductive invariant was checked as an invariant of the component's run
before it was proved.

**The ledger.**  `HistoryOK` is the conjunction of `TypeOK`, `Reconciles`,
`HoldMatchesLedger` and `SaleHonoursHold`.  None but `TypeOK` is inductive alone:
the chain of the ledger can only be extended if the record agrees with the last
entry; that a sale after a reservation names its reference follows from the hold
on the record, which is the one of the last entry; and the last entry is the one
with number `ledgerSeq`.  Each operation but receiving is a `Post` of some line,
so `StepCases` reduces `Next` to three cases: post, receive, a hold lapsing.  What
`Post` appends is stated once (`PostFrame`, `Newest`), and each conjunct has its
lemma (`PostReconciles`, `PostHolds`, `PostSales`).  The refinement needs
`HoldMatchesLedger` too: an AVAILABLE piece has no hold, so taking one is a `Held`
step of PieceCustody.

**Holds and documents.**  `HoldsOK` and `DocsOK` contain `HistoryOK`, which the
ledger's lemmas keep, since every handler still moves stock by `Post`.
`ReleasesMatchHolders` goes by the ways a hold can end (`StepFrees`): whatever was
listed or vetted before, the posting itself checks that the line claims the
hold's reference.  `DocsOK` adds which entries of an item carry the reference of a
transfer (`TransfersTrue`) and of an adjustment (`AppliedOnce`: one, with the
number after the one its requester saw).  That needs `Reconciles`: the next number is
the only one a posting can take.

**Orders.**  `OrdersOK` has three parts: `DataOK`, what orders, payments, pieces
and the provider's records say about each other; `TaskOK`, for each worker and
program counter what still holds of what the worker has read; `Apart`, that no two
workers start one payment or take one order's pieces back.  `Kept` is what no
step takes back (a closed order keeps its pieces, captured money stays captured,
what is sold stays sold), and from it follows that a step of one worker leaves the
tasks of the others true.
`RefundsWithinCapture` then rests on the guarded push of `refund`, which reserves
an amount before the provider is asked.

**The provider's side.**  `RefundsWithinCapture` is about the record;
`ProviderWithinCapture` about the money.  `AnswersOK` relates the two: whatever
the provider refunds is a refund of the record, one recorded FAILED did fail, a
report of a failure is true, each refund is asked for once (by the worker that
wrote it down), and no more is recorded as captured than the provider captured.
A refund may then be FAILED at the provider and still PENDING in the record, never the other way
round, so what the provider sends back is part of what the record counts.  A lost
answer breaks just this (the code records FAILED what may have succeeded), hence
the hypothesis that no answer is lost.

**What moves a payment back.**  The second write of `settleRefund` takes the status from a
total read at the first, so with two refunds settling at once it can go back
(section 3).  `OnlyStaleTotalsGoBack` says that nothing else does, whether refunds
succeed, fail or lose their answers: a payment that goes back does so by the write of a
worker whose total is less than what was returned by then.  `TotalsOK` is the reason: a
status never runs ahead of what the refunds have returned, and no worker carries
a total greater than that, which only grows; so a total that was not overtaken is
all that was returned, and more returned is a later status (`MoreIsLater`).

**Sums.**  What the code adds up with `reduce` is counted here: an amount of 2 is
two units, and a sum is the number of units there are (`SumOf`).  No recursion is
needed, and what a proof needs of a sum (changing one term, adding functions,
swapping the order of a double sum) becomes a fact about the cardinality of
finite sets, proved once in SummationProofs.

**Enquiries.**  `EnquiryOK` says that a quotation copies the lines of its order,
which is past its draft; that a live quotation of an order not ended is the order's
own and has its status; that the approved terms are the order's lines; and that
what a worker has read still holds unless the order was a draft.
`WholesaleAgrees` carries this to the composition: of its other actions only
converting an enquiry writes one (`WholesaleSteps`).

**Sales orders.**  `OrderMatchesStock` relates three numbers of an order (its list,
its count of invoiced pieces, its lines) to the stock, and the stock is in two more
hands: a handler that frees pieces has taken them off the list and puts them on
the shelf one by one, later.  So `NumbersOK` says that the pieces held for an order are
those it lists and those on their way back (`Freeing`), each once, and disjoint
between handlers.  `TaskOK` is about copies: until somebody writes the order a
clerk's copy agrees with it, and a clerk who chose pieces chose no more than the
copy called for; a later write marks the copy `old`, and committing on an old copy
puts the order among the `muddled`, for which only `PieceOK` is claimed.  A request
that bills more than is held sells what is held (`PiecesSold`): such an order has
counted no fewer than it sold, and exactly those if all its invoices billed as they sold
(`BilledAsSold`).
`SoldOnce` does not need the copies at all: a sale requires the piece to be held
for that very order and ends the hold in the same transaction (`Sellable`), so
every SOLD piece is on one invoice however old the list was; `SoldOnOneInvoice` and
`PieceOK` are inductive together.

**Customers' money.**  A transaction that allocates checks the balances, then
writes, and commits only if nobody touched the payment or the invoices meanwhile.
The invariant for that is in `TillOK`: what a cashier about to commit has seen to be
covered is covered still, because every action that spends more of the same
payment or invoice aborts it (`Supersedes`), and no other action spends any.
`PaymentOK` has the journal in it: until a payment is reversed its entries add
up to what it pays, so reversing every entry takes back exactly that.
`ReceivablesAreTheDocuments` follows, as a change of one term in one of three sums.

**The credit limit.**  `CreditIsHonoured` is about a check made in one step and
used in a later one, with the exposure (two sums, over the invoices and over the live
orders) moving in between.  `CreditOK` carries the check over: a transaction that saw
room still has it, unless its clerk is marked `old`.  That needs each other step
either not to raise the exposure, or to end or mark every check (`CheckFine`).  A
commit sends the other checks back (`Conflicts`); a reversal marks them; an
allocation or a credit note lowers what is owed (`PaidOffExposure`); the one step that
moves money between the two sums is an invoice, which owes as many pieces more as it
promises less if its copy is true (`SellExposure`).  `PromiseOK` keeps a promise
from being negative: an order billed beyond its lines is FULFILLED and counts no longer.
`TermsOK` and `TermsStay` say that the lines checked are the lines committed: no
handler of the enquiries changes the terms of an approved order.

**Purchasing.**  `UnapprovedOK` and `CopyOK` are what a goods receipt relies on: an
order that was never approved has received nothing, and the receipt and the new
status in a clerk's hands fit the copy they were made from.  A receipt committed on
a copy no longer true puts its order among the `overlapped`, a draft saved over a newer
status among the `rewritten`; `GoodsReceived` holds of overlapped orders too,
because `$inc` adds to whatever is there, while `StatusIsOfReceipts`
needs both.  What is in stock is what was received of the lines that are
ledger-tracked; a consumable line counts in the order's status and brings nothing.  Supplier money is as customers' money, except that cancelling
an invoice reads before it writes: two cancellations of one invoice both post
(`voidedTwice`).

**Workshop.**  `OneHolds` makes `AwayForOneDocument` an equivalence for each place and
piece: the stock shows it there exactly if some document has it out, and no two
do.  `DocsOK` says that documents before their step list nothing, `CancelOK` and
`ReturnOK` what still holds of a copy: a copy of a production order lists its
material or, read at DRAFT, none (`blind` if that was then written); a return
names nothing that came back unless another return moved the order's total
since.  The total is thus the version number the code lacks, and the proof needs that
each return increases it or closes the order (`t.final \/ t.before < t.settled`).
With a second job work order the invariant as first stated failed: a stale
return of one order moves a piece that is out for the other.  `Astray` names those
pieces; everything else about the place is proved of all pieces but those staff have
moved or corrected by hand (`byHand`, which only grows: `HandGrows`).  For these no
document need agree with the stock, and for the others it is proved that no
movement by hand of another piece disturbs them.  The lists, the totals and the copies
(`AlwaysListed`, `AlwaysWithinIssued`) hold of every piece.

**After sales.**  A piece is kept for a document, or in a worker's hand between two
transactions (`Unwritten`, `HandsOK`), or `adrift` after a crash there, and never
two of these; `KeptOK` is the same for returns, with cancelled orders as a second
way back.  The first version counted a piece adrift by its name alone and was
not inductive: a piece lost by an exchange can later be sold and lost again by a repair
intake, so `adrift` holds pairs of a task and a piece (and the shift `Resold`
is there to reach it).  For `AlwaysTakesBack`,
`RequestsOK` keeps what a request was checked for true until the piece comes
in: what a sold order lists it was the last to sell (`SalesOK`), unless two
requests crossed.  Pieces staff moved or corrected by hand are excepted as in the
workshop: what a sold order lists may be `Loose`, and an intake under way over such a piece
is not followed further (`Followed`), while `AlwaysTakenInOnce` holds of every piece.

**Prices.**  In `BooksOK` no two rules of the book clash, unless `raced`; an editor
that has checked a rule against this very book may write it without a clash, and
one whose book is older is marked `old`, so that its write sets `raced`.  Two rules that tie
on a sale overlap in scope and in period, so they clash.  The versions form a
chain, each ending where the next begins, unless `retried`.  The first may have an end of
its own until a second takes it off: `Expired` is the days past it, on which none is in
force.

`ShopOK` says that the price shown, the bag asked, each request accepted and the order
placed are what the engine computes from some world, of rules and a tax rule and a
quote that fit their schemas, whatever the book, the rates and the tax rules have become;
and that the total of the last three is among those the customer was told.  It
needs nothing to stand still: a request is accepted only at the total of the bag it was
sent with, and what was told is never untold (`StillTold`).  `OrdersAsTold` adds that two
worlds that are `Alike` give prices a paisa apart at most, and `WeightNeverPays` compares
with the world the price was shown from.

The rest is about the engine, for any weights, rates, percentages and scales within
`TermsAssumption` (what the schemas of rules, tax rules and rates let in: no
negative amounts, CGST + SGST = IGST).  `Rounded` bounds `DivRound` by half its divisor
on each side, and every comparison goes by multiplying out and cancelling
(`ProductGrows`, `ProductStrict`), the only nonlinear facts the SMT solver is
asked for.  The hard part is a percentage taken off: `PercentLeaves` says that it grows
no faster than its base, if it does not exceed it, and the refusal of a
discount that does exceed it is why that is enough.  `RoundSplit` is the paisa
between CGST + SGST and IGST.  That the terms which govern a sale are terms of a rule at all
rests on `OneRuleGoverns`: `Precedes` is a strict total order of the rules
that apply, and a finite set so ordered has a first element (`FirstOfOrder`).

Names such as `muddled`, `overlapped`, `rewritten`, `voidedTwice`, `crossed`, `requeued`,
`blind`, `lost`, `raced`, `retried` are history variables: each records that
one race of section 3 has happened to one document, and a property excepts
that document only.  In the code every one of these races can happen; the
theorems say that nothing else goes wrong.  `byHand` is one too: what staff did
to a piece without its document.

Only model-checked: all liveness (fairness and ENABLED are outside this prover's
reach).  Every safety property of the passing runs is stated by a theorem, some under a
hypothesis their paragraph names.

## 5. Not modelled

* **Access control**: login, sessions, refresh tokens, password reset, users,
  roles, permissions, order access tokens.  A handler is modelled for a caller who
  may call it; where two persons are required (adjustments, payments), the
  persons are in the model.
* **What a record carries beside its state**: HUID and barcodes, purities,
  valuation and cost, addresses, numbering, attachments, tax splits of a document,
  price snapshots of an order.  A weight or an amount is kept where a property
  compares it.
* **Statuses no code reaches or leaves**: the web order's fulfilment statuses
  after CONFIRMED (PACKED, SHIPPED, DELIVERED, RETURNED).
* **Accounting beside the postings of payments, invoices and notes**: chart of accounts,
  manual journals, periods.  The journals of a document are in Receivables and
  Payables.
* **Master data**: catalog, stones, customers, suppliers, organization,
  compliance, media.  Create, read and update of single documents under a unique
  index; the two races found are named in section 3.
* **Read models and the rest of the implementation's lines**: storefront reads,
  dashboard, reports, inventory queries, order and B2B views, the audit log,
  the HTTP layer, the two frontends, seeds, the generated test oracle of the
  engine (`oracle-cases.ts`).  They keep no state of their own.  They are most of the
  repository, which is why the map covers about a ninth of its lines while every
  service of the API that moves stock, money or a document's status is modelled.

What would add most from here: serial verdicts on a batch; and rotation and reuse detection of refresh tokens as a
module of its own.
