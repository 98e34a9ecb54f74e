------------------------------- MODULE Ledger -------------------------------
(***************************************************************************)
(* What the server promises to whoever sells through it, with no requests, *)
(* checks or races: a sale, its goods and the memory of its key appear in  *)
(* one step; a sale is cancelled once and gives back what it took; a key   *)
(* that is remembered makes no other sale; and who is told of a sale is    *)
(* told of one that is in the books under its key.                         *)
(***************************************************************************)
EXTENDS Integers

CONSTANTS Items, SaleIds, Keys, NoKey, NoSale, Carts, NoLines, Opening, Deltas

VARIABLES
  goods,        \* item -> quantity in stock, less than zero if oversold
  sold,         \* sale -> its key, its cart and whether it stands
  remembered,   \* key -> its sale, or NoSale
  told          \* <<key, sale>> for each answer of success that is on its way

books == <<goods, sold, remembered>>

InBooks(s) == sold[s].cart # NoLines
Move(change) == goods' = [i \in Items |-> goods[i] + change[i]]

Init ==
  /\ goods = [i \in Items |-> Opening]
  /\ \A s \in SaleIds : ~InBooks(s)
  /\ remembered = [k \in Keys |-> NoSale]
  /\ told = {}

Sell(s, k, c) ==
  /\ ~InBooks(s)
  /\ k \in Keys => remembered[k] = NoSale
  /\ sold' = [sold EXCEPT ![s] = [key |-> k, cart |-> c, live |-> TRUE]]
  /\ Move([i \in Items |-> -c[i]])
  /\ remembered' = [x \in Keys |-> IF x = k THEN s ELSE remembered[x]]

Cancel(s) ==
  /\ InBooks(s) /\ sold[s].live
  /\ sold' = [sold EXCEPT ![s] = [key |-> @.key, cart |-> @.cart, live |-> FALSE]]
  /\ Move(sold[s].cart)
  /\ UNCHANGED remembered

Stock(i, d) ==
  /\ Move([j \in Items |-> IF j = i THEN d ELSE 0])
  /\ UNCHANGED <<sold, remembered>>

Forget(k) ==
  /\ remembered[k] # NoSale
  /\ remembered' = [remembered EXCEPT ![k] = NoSale]
  /\ UNCHANGED <<goods, sold>>

\* Answers come and go; whatever is on its way is true.
ToldIsTrue == \A t \in told : t[2] \in SaleIds /\ InBooks(t[2]) /\ sold[t[2]].key = t[1]

Next ==
  /\ \/ \E s \in SaleIds, k \in Keys \cup {NoKey}, c \in Carts : Sell(s, k, c)
     \/ \E s \in SaleIds : Cancel(s)
     \/ \E i \in Items, d \in Deltas : Stock(i, d)
     \/ \E k \in Keys : Forget(k)
     \/ UNCHANGED books
  /\ ToldIsTrue'

Spec == Init /\ [][Next]_<<books, told>>
=============================================================================
