------------------------------- MODULE Trade --------------------------------
(***************************************************************************)
(* What two businesses may rely on, with no requests, races or restarts:   *)
(* an order is answered once; only an accepted one is booked, first with   *)
(* the buyer and then, if it names a price, with the supplier, each once;  *)
(* the answer counts for the supplier once; and the buyer is told the      *)
(* answer that stands, of an acceptance when its books are written.        *)
(* Each of this may stay undone for ever.                                  *)
(***************************************************************************)
EXTENDS Naturals

CONSTANT Orders

VARIABLES
  status,    \* order -> "none", "pending", "accepted" or "declined"
  priced,    \* orders that name a price
  bought,    \* order -> purchases of the buyer
  sold,      \* order -> sales of the supplier
  stocked,   \* order -> times the buyer's stock grew by it
  counted,   \* order -> times the supplier's score counts it
  told       \* <<order, answer>> the buyer was told

trade == <<status, priced, bought, sold, stocked, counted, told>>

Verdicts == {"accepted", "declined"}
Once(book, o) == book[o] = 0 /\ book' = [book EXCEPT ![o] = 1]
Booked(o) == bought[o] = 1 /\ (o \in priced => sold[o] = 1)
Closed(o) == status[o] \in Verdicts /\ (status[o] = "accepted" => Booked(o))

Init ==
  /\ status = [o \in Orders |-> "none"]
  /\ priced = {} /\ told = {}
  /\ bought = [o \in Orders |-> 0] /\ sold = bought /\ stocked = bought /\ counted = bought

Place(o) ==
  /\ status[o] = "none"
  /\ status' = [status EXCEPT ![o] = "pending"]
  /\ priced' \in {priced, priced \cup {o}}
  /\ UNCHANGED <<bought, sold, stocked, counted, told>>

Answer(o, v) ==
  /\ status[o] = "pending"
  /\ status' = [status EXCEPT ![o] = v]
  /\ UNCHANGED <<priced, bought, sold, stocked, counted, told>>

BuyerBooks(o) ==
  /\ status[o] = "accepted"
  /\ Once(bought, o)
  /\ UNCHANGED stocked \/ (o \in priced /\ Once(stocked, o))
  /\ UNCHANGED <<status, priced, sold, counted, told>>

SupplierBooks(o) ==
  /\ o \in priced /\ bought[o] = 1
  /\ Once(sold, o)
  /\ UNCHANGED <<status, priced, bought, stocked, counted, told>>

Count(o) ==
  /\ Closed(o)
  /\ Once(counted, o)
  /\ UNCHANGED <<status, priced, bought, sold, stocked, told>>

Tell(o) ==
  /\ Closed(o) /\ counted[o] = 1
  /\ told' = told \cup {<<o, status[o]>>}
  /\ UNCHANGED <<status, priced, bought, sold, stocked, counted>>

Next ==
  \E o \in Orders :
    \/ Place(o) \/ (\E v \in Verdicts : Answer(o, v))
    \/ BuyerBooks(o) \/ SupplierBooks(o) \/ Count(o) \/ Tell(o)

Spec == Init /\ [][Next]_trade
=============================================================================
