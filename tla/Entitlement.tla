---------------------------- MODULE Entitlement -----------------------------
(***************************************************************************)
(* What the payment code promises a tenant and the business, with no rows, *)
(* handlers or races: a plan is ordered, the money for it is collected,    *)
(* and only then does the tenant have the plan.  Ordering and collecting   *)
(* may go nowhere, and a collected payment may be credited again.          *)
(***************************************************************************)
CONSTANTS Tenants, Plans, Payments, Nothing

VARIABLES
  bought,     \* payment -> what it was made for, Nothing before it exists
  collected,  \* payments whose full amount the provider holds
  plan        \* tenant -> its plan

Orders == [tenant : Tenants, plan : Plans]

Init ==
  /\ bought = [p \in Payments |-> Nothing]
  /\ collected = {}
  /\ plan = [t \in Tenants |-> "free"]

Order(p, o) ==
  /\ bought[p] = Nothing
  /\ bought' = [bought EXCEPT ![p] = o]
  /\ UNCHANGED <<collected, plan>>

Collect(p) ==
  /\ bought[p] # Nothing
  /\ collected' = collected \cup {p}
  /\ UNCHANGED <<bought, plan>>

Entitle(p) ==
  /\ p \in collected
  /\ plan' = [plan EXCEPT ![bought[p].tenant] = bought[p].plan]
  /\ UNCHANGED <<bought, collected>>

Next ==
  \E p \in Payments :
    \/ \E o \in Orders : Order(p, o)
    \/ Collect(p)
    \/ Entitle(p)

Spec == Init /\ [][Next]_<<bought, collected, plan>>
=============================================================================
