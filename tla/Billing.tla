------------------------------- MODULE Billing ------------------------------
(***************************************************************************)
(* The life of a paid subscription around the payments of module Payments: *)
(* it runs out as time passes, the daily lapse job puts it in grace mode,  *)
(* and the daily renewal job charges the tenants about to run out.  The    *)
(* jobs work from snapshots, and payments settle between the snapshot and  *)
(* the write.                                                              *)
(***************************************************************************)
EXTENDS Payments

VARIABLES
  lapsed,     \* tenants the lapse job read as lapsed and has not handled yet
  renewing    \* tenants the renewal job read as due and has not handled yet

jobVars  == <<lapsed, renewing>>
billVars == <<vars, jobVars>>

BillTypeOK ==
  /\ TypeOK
  /\ lapsed \subseteq Tenants
  /\ renewing \subseteq Tenants

BillInit ==
  /\ Init
  /\ lapsed = {}
  /\ renewing = {}

Paid(t) == sub[t].plan # "free" /\ sub[t].status = "active"

\* The row keeps its plan.
SubAs(t, s, term) == sub' = [sub EXCEPT ![t] = [plan |-> sub[t].plan, status |-> s, term |-> term]]

-----------------------------------------------------------------------------
\* The subscription comes within 24 hours of expiresAt, then passes it.  A free
\* subscription has no expiresAt.
TermPasses(t) ==
  /\ sub[t].term \in {"fresh", "due"}
  /\ SubAs(t, sub[t].status, IF sub[t].term = "fresh" THEN "due" ELSE "expired")
  /\ UNCHANGED <<rowVars, provVars, credits, taskVars, crashes, jobVars>>

\* Mutant: the list is that of the reminders, not yet expired.
LapseScanReminders ==
  /\ lapsed = {}
  /\ lapsed' = {t \in Tenants : Paid(t) /\ sub[t].term = "due"}
  /\ lapsed' # {}
  /\ UNCHANGED <<vars, renewing>>

\* sendSubscriptionReminders: the list of lapsed subscriptions.
LapseScan ==
  /\ lapsed = {}
  /\ lapsed' = {t \in Tenants : Paid(t) /\ sub[t].term = "expired"}
  /\ lapsed' # {}
  /\ UNCHANGED <<vars, renewing>>

\* One subscription of the list goes into grace mode, by its id: neither its
\* status nor its expiresAt is read again.
LapseApply(t) ==
  /\ t \in lapsed
  /\ lapsed' = lapsed \ {t}
  /\ SubAs(t, "grace", sub[t].term)
  /\ UNCHANGED <<rowVars, provVars, credits, taskVars, crashes, renewing>>

\* Its transaction threw: logged, the loop goes on.
LapseFails(t) ==
  /\ t \in lapsed
  /\ lapsed' = lapsed \ {t}
  /\ UNCHANGED <<vars, renewing>>

\* runAutoRenewals: the list of subscriptions due within 24 hours.
RenewScan ==
  /\ renewing = {}
  /\ renewing' = {t \in Tenants : Paid(t) /\ sub[t].term = "due"}
  /\ renewing' # {}
  /\ UNCHANGED <<vars, lapsed>>

\* initiateAutoRenewal for one of them: the subscription is read again (active
\* and not free, not its expiresAt) and the usual check for a pending payment
\* starts an initiation; otherwise nothing is charged.
RenewTenant(n, t) ==
  /\ t \in renewing
  /\ renewing' = renewing \ {t}
  /\ IF Paid(t) /\ ~HasPending(t)
     THEN CheckNoPending(n, t, sub[t].plan)
     ELSE UNCHANGED vars
  /\ UNCHANGED lapsed

\* The process restarts: the jobs are gone too.
BillCrash ==
  /\ Crash
  /\ lapsed' = {}
  /\ renewing' = {}

PaymentStep ==
  /\ \/ \E n \in Initiators : Initiate(n)
     \/ \E i \in Ipns : Webhook(i)
     \/ \E s \in Sweeps : TimeoutSweep(s)
     \/ \E r \in Recons : Reconcile(r)
     \/ \E p \in Payments : \/ \E outcome \in {"successful", "failed"} : ProviderDecides(p, outcome)
                            \/ RowAges(p)
  /\ UNCHANGED jobVars

BillNext ==
  \/ PaymentStep
  \/ BillCrash
  \/ LapseScan
  \/ RenewScan
  \/ \E t \in Tenants :
       \/ TermPasses(t)
       \/ LapseApply(t)
       \/ LapseFails(t)
       \/ \E n \in Initiators : RenewTenant(n, t)

BillSpec == BillInit /\ [][BillNext]_billVars

\* Cron starts the lapse job every day, and its transaction for a tenant does
\* not fail on every day.
LapseFairness ==
  /\ WF_billVars(LapseScan)
  /\ \A t \in Tenants : SF_billVars(LapseApply(t))

FairBillSpec == BillSpec /\ LapseFairness

-----------------------------------------------------------------------------
(* Properties                                                              *)

\* Grace mode ends only by money: the step that takes a tenant out of grace
\* settles a payment of that tenant which the provider has collected in full
\* (applySettledPayment; no other code writes status 'active').
GraceEnds ==
  \A t \in Tenants :
    sub[t].status = "grace" /\ sub'[t].status = "active" =>
      \E p \in Payments : request[p].tenant = t /\ Collected(p) /\ status'[p] = "successful"
GraceEndsByPayment == [][GraceEnds]_billVars

\* A paid subscription that has run out does not stay active: the lapse job
\* notices it, unless the tenant renews first (reportService.ts:158).
LapseIsNoticed ==
  \A t \in Tenants : Paid(t) /\ sub[t].term = "expired" ~>
                       sub[t].status = "grace" \/ sub[t].term = "fresh"
=============================================================================
