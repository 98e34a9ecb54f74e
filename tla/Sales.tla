-------------------------------- MODULE Sales -------------------------------
(***************************************************************************)
(* The books of one business on the server: the stock of its items, its    *)
(* sales, and the idempotency rows that make POST /api/v1/sales safe to    *)
(* repeat.  Requests run concurrently in READ COMMITTED transactions: what *)
(* a transaction reads may change before it writes, a relative update      *)
(* (increment) applies to the value of its own time, and a unique          *)
(* violation rolls the whole transaction back.                             *)
(*                                                                         *)
(* The lines of a sale are abstracted to the quantity of each item; lines  *)
(* without an item of the inventory take no stock and are left out, and so *)
(* are prices, receipts, audit rows and customers.                         *)
(***************************************************************************)
EXTENDS Integers, FiniteSetsExt

CONSTANTS
  Items,        \* items of the inventory
  SaleIds,      \* ids of the sales that may be recorded
  Keys,         \* idempotency keys
  NoKey,        \* a request without the header (WhatsApp, web, drafts)
  NoSale,       \* "no sale"
  Handlers,     \* concurrent requests
  Carts,        \* what a sale may take: non-empty functions from Items to Nat
  Opening,      \* quantity of every item when the inventory is set up
  Deltas,       \* adjustments and purchases of one item (integers)
  MaxNet,       \* bound on what purchases and adjustments bring, per item
  MaxPurges     \* bound on the keys that reach the retention limit

NoLines == [i \in Items |-> 0]

ASSUME KeyAssumption == NoKey \notin Keys
ASSUME SaleAssumption == NoSale \notin SaleIds
ASSUME CartAssumption == Carts \subseteq [Items -> Nat] \ {NoLines}
ASSUME DeltaAssumption == Deltas \subseteq Int
ASSUME BoundAssumption == Opening \in Nat /\ MaxNet \in Nat /\ MaxPurges \in Nat
ASSUME FiniteAssumption ==
  /\ IsFiniteSet(SaleIds) /\ IsFiniteSet(Handlers) /\ Handlers # {}
  /\ IsFiniteSet(Items) /\ IsFiniteSet(Carts) /\ Carts # {} /\ IsFiniteSet(Deltas)

VARIABLES
  qty,       \* item -> qty_in_stock
  sale,      \* sale id -> the sale
  stored,    \* key -> the sale of the stored 201 response, or NoSale
  purged,    \* keys whose row was deleted by the daily purge
  net,       \* item -> opening stock, plus purchases and adjustments so far
  handler    \* request -> where it is

bookVars  == <<qty, sale, stored, purged, net>>
salesVars == <<bookVars, handler>>

Unsold  == [key |-> NoKey, cart |-> NoLines, live |-> FALSE]
Request(pc, k, c, u, s, r) ==
  [pc |-> pc, key |-> k, cart |-> c, unread |-> u, sale |-> s, reply |-> r]
Resting == Request("idle", NoKey, NoLines, {}, NoSale, "none")
Replies == {"none", "created", "replayed", "nostock", "error"}

SalesTypeOK ==
  /\ qty \in [Items -> Int]
  /\ sale \in [SaleIds -> [key : Keys \cup {NoKey}, cart : Carts \cup {NoLines}, live : BOOLEAN]]
  /\ stored \in [Keys -> SaleIds \cup {NoSale}]
  /\ purged \subseteq Keys
  /\ net \in [Items -> Int]
  /\ handler \in [Handlers ->
       [pc : {"idle", "lookup", "check", "insert", "reread", "cancel", "adjust", "done"},
        key : Keys \cup {NoKey},
        cart : [Items -> Int],
        unread : SUBSET Items,
        sale : SaleIds \cup {NoSale},
        reply : Replies]]

SalesInit ==
  /\ qty = [i \in Items |-> Opening]
  /\ sale = [s \in SaleIds |-> Unsold]
  /\ stored = [k \in Keys |-> NoSale]
  /\ purged = {}
  /\ net = [i \in Items |-> Opening]
  /\ handler = [h \in Handlers |-> Resting]

Recorded(s) == sale[s].cart # NoLines

\* Stock moves by relative updates, never by writing back what was read.
Take(q, c) == [i \in Items |-> q[i] - c[i]]
Give(q, c) == [i \in Items |-> q[i] + c[i]]

Wanted(c) == {i \in Items : c[i] > 0}

Become(h, request) == handler' = [handler EXCEPT ![h] = request]
Goto(h, pc, u) == Become(h, Request(pc, handler[h].key, handler[h].cart, u, NoSale, "none"))
Answer(h, r, s) == Become(h, Request("done", handler[h].key, NoLines, {}, s, r))

-----------------------------------------------------------------------------
(* Recording a sale                                                        *)

\* handleCreateSale: with a key the stored responses are looked up first.
PostSale(h, k, c) ==
  /\ handler[h] = Resting
  /\ Become(h, Request(IF k = NoKey THEN "check" ELSE "lookup", k, c, Wanted(c), NoSale, "none"))
  /\ UNCHANGED bookVars

\* findStoredIdempotency: a recorded key is replayed, without a write.
Lookup(h) ==
  /\ handler[h].pc = "lookup"
  /\ LET s == stored[handler[h].key] IN
       IF s # NoSale THEN Answer(h, "replayed", s) ELSE Goto(h, "check", handler[h].unread)
  /\ UNCHANGED bookVars

\* Mutant: an item is never refused.
EnoughIsAssumed(h, i) == TRUE

Enough(h, i) == qty[i] >= handler[h].cart[i]

\* resolveSaleLines reads the items one by one; the first one that has too
\* little in stock refuses the whole sale with 422, before anything is written.
CheckLine(h, i) ==
  /\ handler[h].pc = "check"
  /\ i \in handler[h].unread
  /\ IF Enough(h, i)
     THEN Goto(h, IF handler[h].unread = {i} THEN "insert" ELSE "check", handler[h].unread \ {i})
     ELSE Answer(h, "nostock", NoSale)
  /\ UNCHANGED bookVars

\* Mutant: the key row is written without the unique constraint.
KeyAlwaysFree(k) == TRUE

KeyFree(k) == k # NoKey => stored[k] = NoSale

\* insertIdempotencyRecord.
KeyRows(k, s) == [x \in Keys |-> IF x = k THEN s ELSE stored[x]]

\* The sale, its stock and its key row are committed together.
CommitSale(h, s) ==
  /\ handler[h].pc = "insert"
  /\ ~Recorded(s)
  /\ KeyFree(handler[h].key)
  /\ sale' = [sale EXCEPT ![s] = [key |-> handler[h].key, cart |-> handler[h].cart, live |-> TRUE]]
  /\ stored' = KeyRows(handler[h].key, s)
  /\ qty' = Take(qty, handler[h].cart)
  /\ Answer(h, "created", s)
  /\ UNCHANGED <<purged, net>>

\* A concurrent duplicate committed first: the unique index rolls this one back.
DuplicateKey(h) ==
  /\ handler[h].pc = "insert"
  /\ ~KeyFree(handler[h].key)
  /\ Goto(h, "reread", {})
  /\ UNCHANGED bookVars

\* Mutant: what is read again is replayed, row or no row.
ReplayAnything(h) ==
  /\ handler[h].pc = "reread"
  /\ Answer(h, "replayed", stored[handler[h].key])
  /\ UNCHANGED bookVars

\* The violation is reported as P2002: the winner is read again and replayed,
\* unless it has been purged.
ReplayWinner(h) ==
  /\ handler[h].pc = "reread"
  /\ LET s == stored[handler[h].key] IN
       IF s # NoSale THEN Answer(h, "replayed", s) ELSE Answer(h, "error", NoSale)
  /\ UNCHANGED bookVars

\* The transaction is rolled back for another reason: a lost connection, a
\* deadlock with a sale of the same items in another order, or a violation that
\* is not reported as P2002 (the insert is raw SQL).  The answer is a 500.
SaleFails(h) ==
  /\ handler[h].pc \in {"lookup", "check", "insert", "reread"}
  /\ Answer(h, "error", NoSale)
  /\ UNCHANGED bookVars

\* The client has the answer, or it was lost.
Finish(h) ==
  /\ handler[h].pc = "done"
  /\ Become(h, Resting)
  /\ UNCHANGED bookVars

-----------------------------------------------------------------------------
(* Cancelling, purchasing, adjusting                                       *)

\* cancelSaleInTransaction reads the sale, which must not be deleted.
CancelSale(h, s) ==
  /\ handler[h] = Resting
  /\ sale[s].live
  /\ Become(h, Request("cancel", NoKey, sale[s].cart, {}, s, "none"))
  /\ UNCHANGED bookVars

\* Mutant: softDeleteSale does not test deletedAt again.
StillLiveIgnored(h) == TRUE

\* softDeleteSale updates WHERE deletedAt IS NULL.
StillLive(h) == sale[handler[h].sale].live

\* The sale is deleted and its lines go back in stock, or, if another request
\* deleted it meanwhile, nothing happens (404).
CommitCancel(h) ==
  /\ handler[h].pc = "cancel"
  /\ IF StillLive(h)
     THEN /\ sale' = [sale EXCEPT ![handler[h].sale] =
                         [key |-> @.key, cart |-> @.cart, live |-> FALSE]]
          /\ qty' = Give(qty, handler[h].cart)
     ELSE UNCHANGED <<sale, qty>>
  /\ Become(h, Resting)
  /\ UNCHANGED <<stored, purged, net>>

Only(i, d) == [j \in Items |-> IF j = i THEN d ELSE 0]

InBound(i, d) == net[i] + d \in -MaxNet .. Opening + MaxNet

\* createPurchaseRecord: the item's stock grows, whatever it is.
Purchase(i, d) ==
  /\ d > 0 /\ InBound(i, d)
  /\ qty' = Give(qty, Only(i, d))
  /\ net' = Give(net, Only(i, d))
  /\ UNCHANGED <<sale, stored, purged, handler>>

\* adjustStock: refused (422) if the item would have less than nothing.
AdjustRead(h, i, d) ==
  /\ handler[h] = Resting
  /\ qty[i] + d >= 0
  /\ Become(h, Request("adjust", NoKey, Only(i, d), {}, NoSale, "none"))
  /\ UNCHANGED bookVars

AdjustCommit(h) ==
  /\ handler[h].pc = "adjust"
  /\ \A i \in Items : InBound(i, handler[h].cart[i])
  /\ qty' = Give(qty, handler[h].cart)
  /\ net' = Give(net, handler[h].cart)
  /\ Become(h, Resting)
  /\ UNCHANGED <<sale, stored, purged>>

\* A cancellation or an adjustment is rolled back.
EditFails(h) ==
  /\ handler[h].pc \in {"cancel", "adjust"}
  /\ Become(h, Resting)
  /\ UNCHANGED bookVars

-----------------------------------------------------------------------------
(* Retention and restarts                                                  *)

\* runIdempotencyKeyPurge: the row of a key is older than 24 hours.
PurgeKey(k) ==
  /\ Cardinality(purged) < MaxPurges
  /\ stored[k] # NoSale
  /\ stored' = [stored EXCEPT ![k] = NoSale]
  /\ purged' = purged \cup {k}
  /\ UNCHANGED <<qty, sale, net, handler>>

\* The process restarts: open transactions are rolled back, nobody is answered.
ServerCrash ==
  /\ \E h \in Handlers : handler[h] # Resting
  /\ handler' = [h \in Handlers |-> Resting]
  /\ UNCHANGED bookVars

RecordStep(h) ==
  \/ Lookup(h)
  \/ \E i \in Items : CheckLine(h, i)
  \/ \E s \in SaleIds : CommitSale(h, s)
  \/ DuplicateKey(h)
  \/ ReplayWinner(h)
  \/ SaleFails(h)

EditStep(h) ==
  \/ \E s \in SaleIds : CancelSale(h, s)
  \/ CommitCancel(h)
  \/ \E i \in Items, d \in Deltas : AdjustRead(h, i, d)
  \/ AdjustCommit(h)
  \/ EditFails(h)

SalesNext ==
  \/ \E h \in Handlers :
       \/ \E k \in Keys \cup {NoKey}, c \in Carts : PostSale(h, k, c)
       \/ RecordStep(h)
       \/ Finish(h)
       \/ EditStep(h)
  \/ \E i \in Items, d \in Deltas : Purchase(i, d)
  \/ \E k \in Keys : PurgeKey(k)
  \/ ServerCrash

SalesSpec == SalesInit /\ [][SalesNext]_salesVars

-----------------------------------------------------------------------------
(* Properties                                                              *)

\* The stock is what came in minus what the sales that were not cancelled took:
\* no interleaving of sales, cancellations, purchases, adjustments and rollbacks
\* loses or invents goods (relative updates, softDeleteSale's test of deletedAt).
SoldOf(i) == SumFunction([s \in SaleIds |-> IF sale[s].live THEN sale[s].cart[i] ELSE 0])

StockLedger == \A i \in Items : qty[i] = net[i] - SoldOf(i)

\* One key is one sale, whatever is repeated, runs concurrently or fails, as long
\* as its row is kept (salesController.ts: "replays ... perform NO write").
OneSalePerKey ==
  \A s, t \in SaleIds :
    /\ Recorded(s) /\ Recorded(t)
    /\ sale[s].key = sale[t].key
    /\ sale[s].key \notin purged \cup {NoKey}
    => s = t

\* An answer of success names a sale that is recorded under the request's key:
\* the POS deletes its own copy on the strength of it.
SuccessIsRecorded ==
  \A h \in Handlers : handler[h].reply \in {"created", "replayed"} =>
    /\ handler[h].sale \in SaleIds
    /\ Recorded(handler[h].sale)
    /\ sale[handler[h].sale].key = handler[h].key

\* Only simultaneous requests oversell: stock never falls under zero by more than
\* the other requests that passed their check at the same time can take.  With
\* one request at a time it never falls under zero (salesService.ts:150).
LargestTake == Max({c[i] : c \in Carts, i \in Items} \cup {-d : d \in Deltas})

OversellIsBounded ==
  \A i \in Items : qty[i] >= -((Cardinality(Handlers) - 1) * LargestTake)

\* The requests implement the promise of module Ledger: seen from outside, each step
\* records a sale with its goods and its key, cancels one, moves the stock of an item,
\* forgets a key or changes nothing, and every answer of success is true.
Promise == INSTANCE Ledger WITH
  goods      <- qty,
  sold       <- sale,
  remembered <- stored,
  told       <- {<<handler[h].key, handler[h].sale>> :
                   h \in {x \in Handlers : handler[x].reply \in {"created", "replayed"}}}

ImplementsLedger == Promise!Spec

-----------------------------------------------------------------------------
(* The inductive invariant behind OneSalePerKey and SuccessIsRecorded      *)

\* A stored response is that of a sale recorded under its key.
StoredIsSale ==
  \A k \in Keys : stored[k] # NoSale => Recorded(stored[k]) /\ sale[stored[k]].key = k

\* The row of a recorded sale is there until it is purged.
RowIsKept ==
  \A s \in SaleIds : Recorded(s) /\ sale[s].key \in Keys \ purged => stored[sale[s].key] = s

\* A request that records carries a cart of a sale; only an answered one has a reply.
RequestsCarry ==
  \A h \in Handlers :
    /\ handler[h].pc \in {"lookup", "check", "insert", "reread"} => handler[h].cart \in Carts
    /\ handler[h].pc \in {"lookup", "reread"} => handler[h].key \in Keys
    /\ handler[h].pc = "cancel" => handler[h].sale \in SaleIds
    /\ handler[h].pc = "adjust" => handler[h].cart \in [Items -> Int]

SalesIInv ==
  SalesTypeOK /\ StoredIsSale /\ RowIsKept /\ RequestsCarry /\ SuccessIsRecorded

-----------------------------------------------------------------------------
(* The inductive invariant behind StockLedger and OversellIsBounded        *)

\* Only a recorded sale counts, and it is cancelled for what it took.
LiveIsRecorded == \A s \in SaleIds : sale[s].live => Recorded(s)

CancelsWhatWasSold ==
  \A h \in Handlers : handler[h].pc = "cancel" =>
    Recorded(handler[h].sale) /\ handler[h].cart = sale[handler[h].sale].cart

\* No line of a sale is checked before the lookup, and an adjustment is one of Deltas.
LinesAreChecked ==
  \A h \in Handlers :
    /\ handler[h].pc = "lookup" => handler[h].unread = Wanted(handler[h].cart)
    /\ handler[h].pc = "adjust" =>
         \E i \in Items, d \in Deltas : handler[h].cart = Only(i, d)

\* What a request has checked that it may take, and has not yet taken.
Claim(h, i) ==
  IF \/ handler[h].pc = "insert"
     \/ handler[h].pc = "check" /\ i \notin handler[h].unread
  THEN handler[h].cart[i]
  ELSE IF handler[h].pc = "adjust" /\ handler[h].cart[i] < 0 THEN -handler[h].cart[i] ELSE 0

Claims(i) == [h \in Handlers |-> Claim(h, i)]

\* Even if every claim is taken, the stock of an item stays above the bound.
ClaimsAreBounded ==
  \A i \in Items :
    qty[i] - SumFunction(Claims(i)) >= -((Cardinality(Handlers) - 1) * LargestTake)

StockIInv ==
  /\ SalesIInv /\ LiveIsRecorded /\ CancelsWhatWasSold /\ LinesAreChecked
  /\ StockLedger /\ ClaimsAreBounded
=============================================================================
