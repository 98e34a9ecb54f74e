------------------------------- MODULE Orders -------------------------------
(***************************************************************************)
(* Purchase orders between two businesses on the platform.  An order is a  *)
(* row of a table both see; accepting it books a purchase with the buyer   *)
(* and a sale with the supplier, in two transactions of two tenants, after *)
(* the row was already set to accepted.  The requests of the supplier's    *)
(* users run concurrently, any step may fail, and the process may restart  *)
(* between two steps; nothing resumes an acceptance.                       *)
(*                                                                         *)
(* The orders are those of one supplier, whose reliability score moves     *)
(* with every answer.  Items, quantities and amounts are abstracted to     *)
(* whether the order names a price.                                        *)
(***************************************************************************)
EXTENDS Integers

CONSTANTS
  Orders,       \* ids of orders
  NoOrder,      \* "no order"
  Answers,      \* concurrent requests to accept or decline
  MaxCrashes    \* bound on restarts

ASSUME OrderAssumption == NoOrder \notin Orders
ASSUME CrashAssumption == MaxCrashes \in Nat

VARIABLES
  status,     \* order -> status of its row, "none" before it is placed
  priced,     \* orders with a requestedUnitPrice
  bought,     \* order -> number of purchases booked with the buyer
  sold,       \* order -> number of sales booked with the supplier
  stocked,    \* order -> number of times the buyer's stock grew by it
  told,       \* messages sent to buyers: <<order, what it says>>
  counted,    \* order -> number of answers the score has counted
  score,      \* reliability_score in hundredths
  answer,     \* request -> where it is
  crashes

tableVars  == <<status, priced>>
bookVars   == <<bought, sold, stocked>>
scoreVars  == <<counted, score>>
orderVars  == <<tableVars, bookVars, told, scoreVars, answer, crashes>>

OrdersTypeOK ==
  /\ status \in [Orders -> {"none", "pending", "accepted", "declined"}]
  /\ priced \subseteq Orders
  /\ bought \in [Orders -> Nat]
  /\ sold \in [Orders -> Nat]
  /\ stocked \in [Orders -> Nat]
  /\ told \subseteq Orders \X {"accepted", "declined"}
  /\ counted \in [Orders -> Nat]
  /\ score \in 0..100
  /\ answer \in [Answers -> [pc : {"idle", "accept", "decline", "purchase", "sale", "rate", "tell"},
                             order : Orders \cup {NoOrder},
                             verdict : {"none", "accepted", "declined"}]]
  /\ crashes \in 0..MaxCrashes

Step(pc, o, v) == [pc |-> pc, order |-> o, verdict |-> v]
Free == Step("idle", NoOrder, "none")

OrdersInit ==
  /\ status = [o \in Orders |-> "none"]
  /\ priced = {}
  /\ bought = [o \in Orders |-> 0]
  /\ sold = [o \in Orders |-> 0]
  /\ stocked = [o \in Orders |-> 0]
  /\ told = {}
  /\ counted = [o \in Orders |-> 0]
  /\ score = 80
  /\ answer = [a \in Answers |-> Free]
  /\ crashes = 0

At(a, pc) == answer[a].pc = pc
Go(a, pc) == answer' = [answer EXCEPT ![a] = Step(pc, answer[a].order, answer[a].verdict)]
Done(a) == answer' = [answer EXCEPT ![a] = Free]

-----------------------------------------------------------------------------
\* placeOrder: the row is inserted as pending, with a price or to be negotiated.
Place(o, hasPrice) ==
  /\ status[o] = "none"
  /\ status' = [status EXCEPT ![o] = "pending"]
  /\ priced' = IF hasPrice THEN priced \cup {o} ELSE priced
  /\ UNCHANGED <<bookVars, told, scoreVars, answer, crashes>>

\* acceptOrderById, declineOrderById: an order that is not pending is refused (409).
ReadOrder(a, o, verdict) ==
  /\ answer[a] = Free
  /\ status[o] = "pending"
  /\ answer' = [answer EXCEPT ![a] =
       Step(IF verdict = "accepted" THEN "accept" ELSE "decline", o, verdict)]
  /\ UNCHANGED <<tableVars, bookVars, told, scoreVars, crashes>>

\* Mutant: the update does not test the status again.
StillPendingIgnored(o) == TRUE

\* acceptOrder, declineOrder update WHERE status = 'pending'.
StillPending(o) == status[o] = "pending"

\* The row takes the verdict, or the request fails because another one answered.
SetStatus(a) ==
  /\ At(a, "accept") \/ At(a, "decline")
  /\ IF StillPending(answer[a].order)
     THEN /\ status' = [status EXCEPT ![answer[a].order] = answer[a].verdict]
          /\ Go(a, IF At(a, "accept") THEN "purchase" ELSE "rate")
     ELSE /\ Done(a)
          /\ UNCHANGED status
  /\ UNCHANGED <<priced, bookVars, told, scoreVars, crashes>>

\* Mutant: no order books a sale.
AfterPurchaseNoSale(o) == "rate"

\* An order without a price books no sale.
AfterPurchase(o) == IF o \in priced THEN "sale" ELSE "rate"

\* The buyer's transaction: the purchase, and the stock if the buyer has the item
\* and the order a price.
BookPurchase(a, known) ==
  /\ At(a, "purchase")
  /\ LET o == answer[a].order IN
       /\ bought' = [bought EXCEPT ![o] = @ + 1]
       /\ stocked' = IF known /\ o \in priced THEN [stocked EXCEPT ![o] = @ + 1] ELSE stocked
       /\ Go(a, AfterPurchase(o))
  /\ UNCHANGED <<tableVars, sold, told, scoreVars, crashes>>

\* The supplier's transaction: the sale.  The supplier's stock is not touched.
BookSale(a) ==
  /\ At(a, "sale")
  /\ sold' = [sold EXCEPT ![answer[a].order] = @ + 1]
  /\ Go(a, "rate")
  /\ UNCHANGED <<tableVars, bought, stocked, told, scoreVars, crashes>>

\* Mutant: the weights of the moving average are swapped.
AverageSwapped(s, outcome) == (s + 9 * outcome + 5) \div 10

\* ROUND(0.9 * old + 0.1 * outcome, 2), in hundredths.
Average(s, outcome) == (9 * s + outcome + 5) \div 10

\* updateSupplierReliability: one statement.
Rate(a) ==
  /\ At(a, "rate")
  /\ score' = Average(score, IF answer[a].verdict = "accepted" THEN 100 ELSE 0)
  /\ counted' = [counted EXCEPT ![answer[a].order] = @ + 1]
  /\ Go(a, "tell")
  /\ UNCHANGED <<tableVars, bookVars, told, crashes>>

\* setImmediate: the buyer is told ("Stock has been updated" or the refusal).
Tell(a) ==
  /\ At(a, "tell")
  /\ told' = told \cup {<<answer[a].order, answer[a].verdict>>}
  /\ Done(a)
  /\ UNCHANGED <<tableVars, bookVars, scoreVars, crashes>>

\* A step throws: the request ends with a 500, what was committed stays.
AnswerFails(a) ==
  /\ ~At(a, "idle")
  /\ Done(a)
  /\ UNCHANGED <<tableVars, bookVars, told, scoreVars, crashes>>

\* The process restarts.
OrdersCrash ==
  /\ crashes < MaxCrashes
  /\ crashes' = crashes + 1
  /\ answer' = [a \in Answers |-> Free]
  /\ UNCHANGED <<tableVars, bookVars, told, scoreVars>>

AnswerStep(a) ==
  \/ SetStatus(a)
  \/ \E known \in BOOLEAN : BookPurchase(a, known)
  \/ BookSale(a)
  \/ Rate(a)
  \/ Tell(a)

OrdersNext ==
  \/ \E o \in Orders, hasPrice \in BOOLEAN : Place(o, hasPrice)
  \/ \E a \in Answers :
       \/ \E o \in Orders, v \in {"accepted", "declined"} : ReadOrder(a, o, v)
       \/ AnswerStep(a)
       \/ AnswerFails(a)
  \/ OrdersCrash

OrdersSpec == OrdersInit /\ [][OrdersNext]_orderVars

\* A request that is running goes on until it ends or fails.
FairOrdersSpec == OrdersSpec /\ \A a \in Answers : WF_orderVars(AnswerStep(a))

-----------------------------------------------------------------------------
(* Properties                                                              *)

\* Only accepted orders are booked, and each once on either side, however many
\* requests answer it (the conditional update of acceptOrder).
BookedOnce ==
  \A o \in Orders :
    /\ bought[o] <= 1 /\ sold[o] <= 1 /\ stocked[o] <= bought[o]
    /\ bought[o] + sold[o] > 0 => status[o] = "accepted"

\* A supplier has no sale of an order that the buyer has no purchase of, and the
\* buyer is told of an acceptance only when all its books are written, whatever
\* fails in between (acceptOrderById: buyer, supplier, message).
BooksBeforeNews ==
  \A o \in Orders :
    /\ sold[o] <= bought[o]
    /\ <<o, "accepted">> \in told => bought[o] = 1 /\ (o \in priced => sold[o] = 1)

\* An answer is final, and what the buyer is told of it is true: two requests
\* that race never accept and decline one order.
AnswerIsFinal ==
  [][\A o \in Orders :
       /\ status[o] \in {"accepted", "declined"} => status'[o] = status[o]
       /\ \A v \in {"accepted", "declined"} : <<o, v>> \in told' => status'[o] = v]_orderVars

\* The score counts each answered order at most once, and stays within what
\* rounding lets a supplier reach: 0.96 by accepting everything, 0.05 by
\* declining everything.
ScoreIsFair ==
  /\ score \in 5..96
  /\ \A o \in Orders : counted[o] <= 1 /\ (counted[o] = 1 => status[o] \in {"accepted", "declined"})

\* The requests implement what module Trade promises, score and messages included:
\* however they race, fail or are cut short by a restart, each step answers an order,
\* writes one of its books once and in turn, counts it, tells of it or shows nothing.
Promise == INSTANCE Trade

ImplementsTrade == Promise!Spec

-----------------------------------------------------------------------------
(* The inductive invariant behind the safety properties                    *)

Untouched(o) ==
  /\ bought[o] = 0 /\ sold[o] = 0 /\ stocked[o] = 0 /\ counted[o] = 0
  /\ <<o, "accepted">> \notin told /\ <<o, "declined">> \notin told

FullyBooked(o) == bought[o] = 1 /\ (o \in priced => sold[o] = 1)

\* Requests past the conditional update, which alone go on with their order.
Working(a) == answer[a].pc \in {"purchase", "sale", "rate", "tell"}

\* A request knows an order that was placed; past the update the row has its verdict.
KnowsItsOrder ==
  \A a \in Answers :
    /\ ~At(a, "idle") => /\ answer[a].order \in Orders
                         /\ answer[a].verdict \in {"accepted", "declined"}
                         /\ status[answer[a].order] # "none"
    /\ Working(a) => status[answer[a].order] = answer[a].verdict
    /\ At(a, "accept") \/ At(a, "purchase") \/ At(a, "sale") => answer[a].verdict = "accepted"
    /\ At(a, "decline") => answer[a].verdict = "declined"

OneWorks ==
  \A a, b \in Answers :
    Working(a) /\ Working(b) /\ answer[a].order = answer[b].order => a = b

\* How far the order of a working request is.
Progress ==
  \A a \in Answers :
    /\ At(a, "purchase") => Untouched(answer[a].order)
    /\ At(a, "sale") => /\ bought[answer[a].order] = 1
                        /\ sold[answer[a].order] = 0
                        /\ counted[answer[a].order] = 0
                        /\ answer[a].order \in priced
    /\ At(a, "rate") => counted[answer[a].order] = 0
    /\ At(a, "tell") => counted[answer[a].order] = 1
    /\ At(a, "rate") \/ At(a, "tell") =>
         (answer[a].verdict = "accepted" => FullyBooked(answer[a].order))

PendingUntouched == \A o \in Orders : status[o] \in {"none", "pending"} => Untouched(o)

NewsIsTrue == \A o \in Orders, v \in {"accepted", "declined"} : <<o, v>> \in told => status[o] = v

OrdersIInv ==
  /\ OrdersTypeOK /\ KnowsItsOrder /\ OneWorks /\ Progress /\ PendingUntouched
  /\ BookedOnce /\ BooksBeforeNews /\ NewsIsTrue /\ ScoreIsFair

-----------------------------------------------------------------------------
(* What the repository says and the code does not do                       *)

\* "Both sides get inventory/order updates automatically"
\* (docs/architecture.md:125), "supplier accepts order - Updates buyer's purchases
\* table automatically" (docs/session-prompts-phase2-3.md:39): the purchase of an
\* accepted order is booked.
AcceptedIsBooked == \A o \in Orders : status[o] = "accepted" ~> bought[o] = 1
=============================================================================
