----------------------------- MODULE Directory -----------------------------
(***************************************************************************)
(* A business's customers, suppliers, expenses and items, and the platform *)
(* directory that its suppliers are copied to.  Nothing in the database    *)
(* keeps two rows from having one phone or name: every operation looks for *)
(* a row first and then writes, in one transaction that other transactions *)
(* may come between (READ COMMITTED).                                      *)
(*                                                                         *)
(* A row's key stands for its normalized phone or name.                    *)
(***************************************************************************)
EXTENDS Integers, Sequences, FiniteSets

CONSTANTS
  Ops,       \* requests
  Keys,      \* phones and names
  MaxRows    \* bound on rows

ASSUME DirectoryAssumption == MaxRows \in Nat

VARIABLES
  rows,       \* all rows, by their ids
  op,         \* request -> what it does and where it is
  platform,   \* platform_suppliers: phone -> none, or listed with or without a business
  seeding,    \* suppliers that are still to be copied there
  linked,     \* ghost: sales, with the customer row they were linked to
  uncounted,  \* ghost: those whose row was created for them, or removed meanwhile
  doubled       \* ghost: kind and key two requests did not find before either created it
              \*   or that a customer was given by an edit

directoryVars == <<rows, op, platform, seeding, linked, uncounted, doubled>>

RowKinds == {"customer", "supplier", "expense", "item"}
Row(kind, key, paid) == [kind |-> kind, key |-> key, live |-> TRUE, visits |-> 0, paid |-> paid]
Quiet == [pc |-> "new", kind |-> "customer", key |-> 0, sale |-> FALSE, found |-> 0, amount |-> 0]
Ready == [pc |-> "over", kind |-> "customer", key |-> 0, sale |-> FALSE, found |-> 0, amount |-> 0]

DirectoryInit ==
  /\ rows = <<>>
  /\ op = [o \in Ops |-> Quiet]
  /\ platform = [k \in Keys |-> "none"]
  /\ seeding = {} /\ linked = {} /\ uncounted = {} /\ doubled = {}

Matching(kind, key) == {i \in DOMAIN rows : rows[i].kind = kind /\ rows[i].key = key /\ rows[i].live}
Answered(o) == op' = [op EXCEPT ![o] = Ready]

\* findCustomerByPhone, findSupplierByName, findExpenseByName: any one that matches; an
\* item is not looked for.
Lookup(kind, key) ==
  IF kind = "item" \/ Matching(kind, key) = {} THEN {0} ELSE Matching(kind, key)

\* addCustomer, linkCustomerToSale, createSupplierRecord, recordExpenseInTransaction,
\* addItem, up to their first read.
Find(o, kind, key, sale, amount) ==
  /\ op[o] = Quiet /\ (sale => kind = "customer")
  /\ \E i \in Lookup(kind, key) :
       op' = [op EXCEPT ![o] = [pc |-> "write", kind |-> kind, key |-> key, sale |-> sale, found |-> i,
                                 amount |-> amount]]
  /\ UNCHANGED <<rows, platform, seeding, linked, uncounted, doubled>>

\* createCustomer, createSupplier, createExpense, createItem
Racing(o) ==
  {<<op[p].kind, op[p].key>> : p \in {q \in Ops \ {o} : /\ op[q].pc = "write" /\ op[q].found = 0
                                                       /\ op[q].kind = op[o].kind /\ op[q].key = op[o].key}}
CreateRow(o) ==
  /\ op[o].pc = "write" /\ op[o].found = 0 /\ Len(rows) < MaxRows
  /\ rows' = Append(rows, Row(op[o].kind, op[o].key, op[o].amount))
  /\ doubled' = doubled \cup Racing(o)
  /\ seeding' = IF op[o].kind = "supplier" THEN seeding \cup {op[o].key} ELSE seeding
  /\ IF op[o].sale
     THEN linked' = linked \cup {<<o, Len(rows) + 1>>} /\ uncounted' = uncounted \cup {o}
     ELSE UNCHANGED <<linked, uncounted>>
  /\ Answered(o)
  /\ UNCHANGED platform

\* Mutant: a removed row counts on.
VisitedAnyway(o, row) == [row EXCEPT !.visits = @ + 1]

\* recordCustomerVisit counts in the database, if the row is still there; nobody looks
\* whether it was.
Visited(o, row) == [row EXCEPT !.visits = IF row.live THEN @ + 1 ELSE @]
Visit(o) ==
  LET i == op[o].found
  IN /\ op[o].pc = "write" /\ i # 0 /\ op[o].sale
     /\ rows' = [rows EXCEPT ![i] = Visited(o, rows[i])]
     /\ linked' = linked \cup {<<o, i>>}
     /\ uncounted' = IF rows[i].live THEN uncounted ELSE uncounted \cup {o}
     /\ Answered(o)
     /\ UNCHANGED <<platform, seeding, doubled>>

\* recordExpensePayment writes the amount of this payment over the last one.
PayExpense(o) ==
  LET i == op[o].found
  IN /\ op[o].pc = "write" /\ i # 0 /\ op[o].kind = "expense"
     /\ rows' = [rows EXCEPT ![i] = [@ EXCEPT !.paid = op[o].amount]]
     /\ Answered(o)
     /\ UNCHANGED <<platform, seeding, linked, uncounted, doubled>>

\* A customer that exists is returned, a supplier that exists is refused.
KeepExisting(o) ==
  /\ op[o].pc = "write" /\ op[o].found # 0 /\ ~op[o].sale /\ op[o].kind \in {"customer", "supplier"}
  /\ Answered(o)
  /\ UNCHANGED <<rows, platform, seeding, linked, uncounted, doubled>>

\* The transaction fails, or the server stops.
Fail(o) ==
  /\ op[o].pc = "write" /\ Answered(o)
  /\ UNCHANGED <<rows, platform, seeding, linked, uncounted, doubled>>

\* editCustomer, updateItem: no other row is looked at.
EditKey(i, key) ==
  /\ i \in DOMAIN rows /\ rows[i].live /\ rows[i].kind \in {"customer", "item"} /\ rows[i].key # key
  /\ rows' = [rows EXCEPT ![i] = [@ EXCEPT !.key = key]]
  /\ doubled' = doubled \cup {<<rows[i].kind, key>>}
  /\ UNCHANGED <<op, platform, seeding, linked, uncounted>>

\* removeCustomer
RemoveCustomer(i) ==
  /\ i \in DOMAIN rows /\ rows[i].live /\ rows[i].kind = "customer"
  /\ rows' = [rows EXCEPT ![i] = [@ EXCEPT !.live = FALSE]]
  /\ UNCHANGED <<op, platform, seeding, linked, uncounted, doubled>>

\* seedPlatformFromTenantSupplier, upsertPlatformSupplier: after the transaction, not
\* awaited; a business that was linked stays linked; a failure is logged.
Linked(now, found) == IF found \/ now = "business" THEN "business" ELSE "listed"
Seed(k) ==
  /\ k \in seeding /\ seeding' = seeding \ {k}
  /\ \/ \E found \in BOOLEAN : platform' = [platform EXCEPT ![k] = Linked(@, found)]
     \/ UNCHANGED platform
  /\ UNCHANGED <<rows, op, linked, uncounted, doubled>>

DirectoryNext ==
  \/ \E o \in Ops :
       \/ \E kind \in RowKinds, key \in Keys, sale \in BOOLEAN, amount \in {0, 1} :
            (amount = 0 \/ kind = "expense") /\ Find(o, kind, key, sale, amount)
       \/ CreateRow(o) \/ Visit(o) \/ PayExpense(o) \/ KeepExisting(o) \/ Fail(o)
  \/ \E i \in 1..MaxRows : RemoveCustomer(i) \/ \E key \in Keys : EditKey(i, key)
  \/ \E k \in Keys : Seed(k)

DirectorySpec == DirectoryInit /\ [][DirectoryNext]_directoryVars

-----------------------------------------------------------------------------
CountedFor(i) == {s \in linked : s[2] = i /\ s[1] \notin uncounted}
VisitsAddUp == \A i \in DOMAIN rows : rows[i].visits = Cardinality(CountedFor(i))

DoublesAreRaces ==
  \A i, j \in DOMAIN rows :
    (i # j /\ rows[i].live /\ rows[j].live /\ rows[i].kind = rows[j].kind /\ rows[i].key = rows[j].key)
      => (rows[i].kind = "item" \/ <<rows[i].kind, rows[i].key>> \in doubled)

\* However sales, removals and edits overlap, every sale that was linked to a customer is
\* counted once among that row's visits, unless the row was created for it or had been
\* removed; and two live rows of one phone or name exist only where two requests both
\* looked before either created it, where an edit gave a customer that phone, or for
\* items, which are not looked for (linkCustomerToSale, addCustomer,
\* createSupplierRecord, recordExpenseInTransaction).
DirectoryAddsUp == VisitsAddUp /\ DoublesAreRaces

-----------------------------------------------------------------------------
(* The inductive invariant behind it                                       *)

DirectoryTypeOK ==
  /\ rows \in Seq([kind : RowKinds, key : Keys, live : BOOLEAN, visits : Nat, paid : {0, 1}])
  /\ op \in [Ops -> [pc : {"new", "write", "over"}, kind : RowKinds, key : Keys \cup {0},
                     sale : BOOLEAN, found : Nat, amount : {0, 1}]]
  /\ uncounted \subseteq Ops

\* A request writes what it found, and only after it has a phone or a name.
FoundIsThere ==
  \A o \in Ops : op[o].pc = "write" => op[o].key \in Keys /\ op[o].found \in 0..Len(rows)

\* A sale is linked once, by a request that is over, to a row that is there.
LinkedOnce ==
  /\ IsFiniteSet(linked)
  /\ \A s \in linked : s \in Ops \X (1..Len(rows)) /\ op[s[1]].pc = "over"
  /\ \A o \in uncounted : op[o].pc = "over"

\* Whoever found nothing while there is a row now was raced by who made it.
MissesAreRaces ==
  \A o \in Ops :
    (/\ op[o].pc = "write" /\ op[o].found = 0 /\ op[o].kind # "item"
     /\ \E i \in DOMAIN rows : rows[i].kind = op[o].kind /\ rows[i].key = op[o].key /\ rows[i].live)
      => <<op[o].kind, op[o].key>> \in doubled

DirectoryIInv ==
  /\ DirectoryTypeOK /\ FoundIsThere /\ LinkedOnce /\ MissesAreRaces /\ DirectoryAddsUp

=============================================================================
