------------------------------ MODULE Payments ------------------------------
(***************************************************************************)
(* Subscription payments: the rows of payment_transactions, the tenants'   *)
(* subscriptions, and the four kinds of code that write them while the     *)
(* others run: the initiation of a collection, the processing of a         *)
(* provider notification (IPN), the timeout sweep and the daily            *)
(* reconciliation.  Every one of them reads a row, talks to the provider   *)
(* (Xente) and writes the row later by its id; each read, call and         *)
(* database transaction is a step of its own here, so all of their         *)
(* interleavings are.                                                      *)
(*                                                                         *)
(* The provider is external.  It accepts a collection or not, answers or   *)
(* not, and turns a pending collection into a successful or a failed one.  *)
(* An amount is abstracted to whether it equals the amount of our row.     *)
(***************************************************************************)
EXTENDS Naturals, FiniteSets

CONSTANTS
  Tenants,      \* businesses
  Plans,        \* paid plans (SUBSCRIPTION_PLANS)
  Payments,     \* ids of payment_transactions rows that may be created
  Initiators,   \* concurrent runs of initiateProviderPayment
  Ipns,         \* concurrent runs of handleProviderWebhook
  Sweeps,       \* concurrent runs of checkPendingPaymentTimeoutVia
  Recons,       \* concurrent runs of runReconciliation
  NoPayment,    \* "no row": the payment of an idle task
  MaxCrashes    \* bound on process restarts

ASSUME NoPaymentAssumption == NoPayment \notin Payments
ASSUME FreeAssumption == "free" \notin Plans
ASSUME NoTenantAssumption == "none" \notin Tenants
ASSUME CrashAssumption == MaxCrashes \in Nat

VARIABLES
  status,     \* payment row -> its status, "none" before the row exists
  request,    \* payment row -> the tenant and the plan it was created for
  txnKnown,   \* payment row -> provider_txn_id is not null
  age,        \* payment row -> 0: < 10 min, 1: < 48 h, 2: older
  prov,       \* payment row -> state of the collection at the provider
  amountOk,   \* payment row -> the provider's amount equals the row's
  sub,        \* tenant -> latest subscription row
  credits,    \* payment row -> how often it activated a subscription
  init, ipn, sweep, recon,   \* state of the running tasks
  crashes

rowVars  == <<status, request, txnKnown, age>>
provVars == <<prov, amountOk>>
subVars  == <<sub, credits>>
taskVars == <<init, ipn, sweep, recon>>
vars     == <<rowVars, provVars, subVars, taskVars, crashes>>

Statuses   == {"pending", "successful", "failed", "timeout", "needs_review"}
ProvStates == {"none", "pending", "successful", "failed"}
Requests   == [tenant : Tenants, plan : Plans]
NoRequest  == [tenant |-> "none", plan |-> "none"]
Terms      == {"none", "fresh", "due", "expired"}   \* expiresAt against now
FreeSub    == [plan |-> "free", status |-> "active", term |-> "none"]
CreditCap  == 2     \* credits saturate: "more than once" is all that is told

IdleInit  == [pc |-> "idle", pay |-> NoPayment, request |-> NoRequest]
IdleIpn   == [pc |-> "idle", pay |-> NoPayment, verdict |-> "none"]
IdleSweep == [todo |-> {}, pay |-> NoPayment, verdict |-> "none"]
IdleRecon == [was |-> [p \in Payments |-> "none"], pay |-> NoPayment]

TypeOK ==
  /\ status   \in [Payments -> Statuses \cup {"none"}]
  /\ request  \in [Payments -> Requests \cup {NoRequest}]
  /\ txnKnown \in [Payments -> BOOLEAN]
  /\ age      \in [Payments -> 0..2]
  /\ prov     \in [Payments -> ProvStates]
  /\ amountOk \in [Payments -> BOOLEAN]
  /\ sub      \in [Tenants -> [plan : Plans \cup {"free"},
                               status : {"active", "grace"}, term : Terms]]
  /\ credits  \in [Payments -> 0..CreditCap]
  /\ init  \in [Initiators -> [pc : {"idle", "create", "collect", "store", "fail"},
                               pay : Payments \cup {NoPayment},
                               request : Requests \cup {NoRequest}]]
  /\ ipn   \in [Ipns -> [pc : {"idle", "store", "requery", "apply"},
                         pay : Payments \cup {NoPayment},
                         verdict : Statuses \cup {"none"}]]
  /\ sweep \in [Sweeps -> [todo : SUBSET Payments,
                           pay : Payments \cup {NoPayment},
                           verdict : Statuses \cup {"none"}]]
  /\ recon \in [Recons -> [was : [Payments -> Statuses \cup {"none"}],
                           pay : Payments \cup {NoPayment}]]
  /\ crashes \in 0..MaxCrashes

Init ==
  /\ status   = [p \in Payments |-> "none"]
  /\ request  = [p \in Payments |-> NoRequest]
  /\ txnKnown = [p \in Payments |-> FALSE]
  /\ age      = [p \in Payments |-> 0]
  /\ prov     = [p \in Payments |-> "none"]
  /\ amountOk = [p \in Payments |-> FALSE]
  /\ sub      = [t \in Tenants |-> FreeSub]
  /\ credits  = [p \in Payments |-> 0]
  /\ init     = [n \in Initiators |-> IdleInit]
  /\ ipn      = [i \in Ipns |-> IdleIpn]
  /\ sweep    = [s \in Sweeps |-> IdleSweep]
  /\ recon    = [r \in Recons |-> IdleRecon]
  /\ crashes  = 0

-----------------------------------------------------------------------------
(* What the handlers share.                                                *)

\* activateSubscription: the tenant's subscription row takes the plan of the
\* payment, becomes active, runs for 30 days from now and leaves grace.
Activated(k) == [plan |-> k, status |-> "active", term |-> "fresh"]

\* Mutant: the collected amount is not compared.
SettleVerdictAnyAmount(p) == IF prov[p] = "failed" THEN "failed" ELSE "successful"

\* settleFromAuthoritative: the status that a final answer of the provider
\* puts in the row.  A collected amount other than ours is parked.
SettleVerdict(p) ==
  IF prov[p] = "failed" THEN "failed"
  ELSE IF amountOk[p] THEN "successful" ELSE "needs_review"

\* Mutant: the return after parking is missing, so the subscription is activated.
WriteStatusActivatesParked(p, v) ==
  /\ status' = [status EXCEPT ![p] = v]
  /\ IF v \in {"successful", "needs_review"}
     THEN sub' = [sub EXCEPT ![request[p].tenant] = Activated(request[p].plan)]
     ELSE UNCHANGED sub
  /\ IF v = "successful"
     THEN credits' = [credits EXCEPT ![p] = IF @ < CreditCap THEN @ + 1 ELSE @]
     ELSE UNCHANGED credits

\* The database transaction that ends every handler: the row is updated by its
\* id whatever its status has become, and a success activates in the same
\* transaction (applySettledPayment, parkNeedsReview, the failed and timeout
\* branches).  The audit row of the transaction is not modelled.
WriteStatus(p, v) ==
  /\ status' = [status EXCEPT ![p] = v]
  /\ IF v = "successful"
     THEN /\ sub' = [sub EXCEPT ![request[p].tenant] = Activated(request[p].plan)]
          /\ credits' = [credits EXCEPT ![p] = IF @ < CreditCap THEN @ + 1 ELSE @]
     ELSE UNCHANGED subVars

\* Mutant: the re-query falls back to our own reference.
TxnMissingIgnored(p) == FALSE

\* getTransaction throws MissingProviderTxnIdError.
TxnMissing(p) == ~txnKnown[p]

\* A re-query that is answered with a final status.
ProviderFinal(p) == txnKnown[p] /\ prov[p] \in {"successful", "failed"}

-----------------------------------------------------------------------------
(* initiateProviderPayment                                                 *)

\* The task goes on with the row p.
InitAt(n, pc, p) == [pc |-> pc, pay |-> p, request |-> init[n].request]

HasPending(t) == \E p \in Payments : status[p] = "pending" /\ request[p].tenant = t

\* findRecentPendingPayment found nothing (otherwise 409 and no state change).
CheckNoPending(n, t, k) ==
  /\ init[n] = IdleInit
  /\ ~HasPending(t)
  /\ init' = [init EXCEPT ![n] = [pc |-> "create", pay |-> NoPayment,
                                  request |-> [tenant |-> t, plan |-> k]]]
  /\ UNCHANGED <<rowVars, provVars, subVars, ipn, sweep, recon, crashes>>

\* createPaymentTransaction with a fresh id, before the provider is called.
CreateRow(n, p) ==
  /\ init[n].pc = "create"
  /\ status[p] = "none"
  /\ status'  = [status EXCEPT ![p] = "pending"]
  /\ request' = [request EXCEPT ![p] = init[n].request]
  /\ init' = [init EXCEPT ![n] = InitAt(n, "collect", p)]
  /\ UNCHANGED <<txnKnown, age, provVars, subVars, ipn, sweep, recon, crashes>>

\* initiateCollection reached the provider, which accepted it.  The reply
\* carries a transaction id, does not carry one, or is lost (an error for us).
CollectAccepted(n, reply) ==
  /\ init[n].pc = "collect"
  /\ prov' = [prov EXCEPT ![init[n].pay] = "pending"]
  /\ \E ok \in BOOLEAN : amountOk' = [amountOk EXCEPT ![init[n].pay] = ok]
  /\ init' = [init EXCEPT ![n] = CASE reply = "id"   -> InitAt(n, "store", init[n].pay)
                                   [] reply = "noid" -> IdleInit
                                   [] reply = "lost" -> InitAt(n, "fail", init[n].pay)]
  /\ UNCHANGED <<rowVars, subVars, ipn, sweep, recon, crashes>>

\* initiateCollection failed before the provider accepted anything.
CollectRefused(n) ==
  /\ init[n].pc = "collect"
  /\ init' = [init EXCEPT ![n] = InitAt(n, "fail", init[n].pay)]
  /\ UNCHANGED <<rowVars, provVars, subVars, ipn, sweep, recon, crashes>>

\* setProviderTxnId with the id of the reply (fills a NULL only).
StoreReplyId(n) ==
  /\ init[n].pc = "store"
  /\ txnKnown' = [txnKnown EXCEPT ![init[n].pay] = TRUE]
  /\ init' = [init EXCEPT ![n] = IdleInit]
  /\ UNCHANGED <<status, request, age, provVars, subVars, ipn, sweep, recon, crashes>>

\* setProviderTxnId threw: the same catch block handles it.
StoreReplyIdFails(n) ==
  /\ init[n].pc = "store"
  /\ init' = [init EXCEPT ![n] = InitAt(n, "fail", init[n].pay)]
  /\ UNCHANGED <<rowVars, provVars, subVars, ipn, sweep, recon, crashes>>

\* The catch block: updatePaymentStatus(failed), unconditional.
MarkFailed(n) ==
  /\ init[n].pc = "fail"
  /\ WriteStatus(init[n].pay, "failed")
  /\ init' = [init EXCEPT ![n] = IdleInit]
  /\ UNCHANGED <<request, txnKnown, age, provVars, ipn, sweep, recon, crashes>>

\* The row could not be created, or the update of the catch block threw too: the
\* caller gets the error, nothing is written.
InitiateFails(n) ==
  /\ init[n].pc \in {"create", "fail"}
  /\ init' = [init EXCEPT ![n] = IdleInit]
  /\ UNCHANGED <<rowVars, provVars, subVars, ipn, sweep, recon, crashes>>

-----------------------------------------------------------------------------
(* handleProviderWebhook, run from setImmediate after the 200              *)

\* Mutant: only successful and parked rows count as processed.
UnprocessedIfUnpaid(p) == status[p] \in {"pending", "failed", "timeout"}

\* The row is still to be settled; otherwise the IPN is a no-op.
Unprocessed(p) == status[p] = "pending"

IpnAt(pc, p, v) == [pc |-> pc, pay |-> p, verdict |-> v]

\* An IPN about p arrives and its row is looked up.  The body carries our
\* reference ("ref"), the provider's id ("txn") or both; by the provider's id
\* alone the row is found only if the id is stored.  A row that is no longer
\* pending, and a row that is not found, end the task without a change.
IpnLookup(i, p, body) ==
  /\ ipn[i] = IdleIpn
  /\ prov[p] # "none"
  /\ body = "txn" => txnKnown[p]
  /\ Unprocessed(p)
  /\ ipn' = [ipn EXCEPT ![i] =
               IpnAt(IF body = "both" /\ ~txnKnown[p] THEN "store" ELSE "requery", p, "none")]
  /\ UNCHANGED <<rowVars, provVars, subVars, init, sweep, recon, crashes>>

\* setProviderTxnId with the id of the body (fills a NULL only).
IpnStoreId(i) ==
  /\ ipn[i].pc = "store"
  /\ txnKnown' = [txnKnown EXCEPT ![ipn[i].pay] = TRUE]
  /\ ipn' = [ipn EXCEPT ![i] = IpnAt("requery", ipn[i].pay, "none")]
  /\ UNCHANGED <<status, request, age, provVars, subVars, init, sweep, recon, crashes>>

\* getTransaction: no stored id parks the row, a final answer settles it.
IpnRequery(i) ==
  /\ ipn[i].pc = "requery"
  /\ TxnMissing(ipn[i].pay) \/ ProviderFinal(ipn[i].pay)
  /\ ipn' = [ipn EXCEPT ![i] = IpnAt("apply", ipn[i].pay,
                                      IF TxnMissing(ipn[i].pay) THEN "needs_review"
                                      ELSE SettleVerdict(ipn[i].pay))]
  /\ UNCHANGED <<rowVars, provVars, subVars, init, sweep, recon, crashes>>

IpnApply(i) ==
  /\ ipn[i].pc = "apply"
  /\ WriteStatus(ipn[i].pay, ipn[i].verdict)
  /\ ipn' = [ipn EXCEPT ![i] = IdleIpn]
  /\ UNCHANGED <<request, txnKnown, age, provVars, init, sweep, recon, crashes>>

\* The task ends without a write: the re-query failed or still says pending,
\* or a database call threw and the controller's catch logged it.
IpnGiveUp(i) ==
  /\ ipn[i].pc # "idle"
  /\ ipn' = [ipn EXCEPT ![i] = IdleIpn]
  /\ UNCHANGED <<rowVars, provVars, subVars, init, sweep, recon, crashes>>

-----------------------------------------------------------------------------
(* checkPendingPaymentTimeoutVia, every 15 minutes                         *)

\* Rows still to visit, and the verdict on the row just visited.
SweepAt(rows, p, v) == [todo |-> rows, pay |-> p, verdict |-> v]

\* Mutant: the sweep also has an upper bound on the age.
StaleWindow == {p \in Payments : status[p] = "pending" /\ age[p] = 1}

\* findPendingPaymentsOlderThan(10 min).
Stale == {p \in Payments : status[p] = "pending" /\ age[p] >= 1}

SweepStart(s) ==
  /\ sweep[s] = IdleSweep
  /\ Stale # {}
  /\ sweep' = [sweep EXCEPT ![s] = SweepAt(Stale, NoPayment, "none")]
  /\ UNCHANGED <<rowVars, provVars, subVars, init, ipn, recon, crashes>>

\* Next row of the snapshot: re-query it and decide.  Its status is not read again.
SweepRequery(s, p) ==
  /\ sweep[s].pay = NoPayment
  /\ p \in sweep[s].todo
  /\ sweep' = [sweep EXCEPT ![s] =
                 SweepAt(sweep[s].todo \ {p}, p,
                         IF TxnMissing(p) THEN "needs_review"
                         ELSE IF ProviderFinal(p) THEN SettleVerdict(p)
                         ELSE "timeout")]
  /\ UNCHANGED <<rowVars, provVars, subVars, init, ipn, recon, crashes>>

SweepApply(s, p) ==
  /\ sweep[s].pay = p
  /\ WriteStatus(p, sweep[s].verdict)
  /\ sweep' = [sweep EXCEPT ![s] = SweepAt(sweep[s].todo, NoPayment, "none")]
  /\ UNCHANGED <<request, txnKnown, age, provVars, init, ipn, recon, crashes>>

\* The re-query failed: the row is logged and skipped.
SweepSkip(s, p) ==
  /\ sweep[s].pay = NoPayment
  /\ p \in sweep[s].todo
  /\ sweep' = [sweep EXCEPT ![s] = SweepAt(sweep[s].todo \ {p}, NoPayment, "none")]
  /\ UNCHANGED <<rowVars, provVars, subVars, init, ipn, recon, crashes>>

\* The row's transaction threw: logged, nothing written, on to the next row.
SweepApplyFails(s) ==
  /\ sweep[s].pay # NoPayment
  /\ sweep' = [sweep EXCEPT ![s] = SweepAt(sweep[s].todo, NoPayment, "none")]
  /\ UNCHANGED <<rowVars, provVars, subVars, init, ipn, recon, crashes>>

-----------------------------------------------------------------------------
(* runReconciliation, daily                                                *)

\* Rows still to visit with their status in the snapshot, and a row to park.
ReconAt(was, p) == [was |-> was, pay |-> p]

Visited(r, p) == [recon[r].was EXCEPT ![p] = "none"]

\* Rows younger than 48 hours that are not parked, with the status they have now.
ReconSnapshot ==
  [p \in Payments |-> IF age[p] < 2 /\ status[p] # "needs_review" THEN status[p] ELSE "none"]

ReconStart(r) ==
  /\ recon[r] = IdleRecon
  /\ \E p \in Payments : ReconSnapshot[p] # "none"
  /\ recon' = [recon EXCEPT ![r] = ReconAt(ReconSnapshot, NoPayment)]
  /\ UNCHANGED <<rowVars, provVars, subVars, init, ipn, sweep, crashes>>

\* Mutant: only the amounts are compared.
MismatchAmount(r, p) == ~amountOk[p]

\* The provider's status and amount against the status of the snapshot.
Mismatch(r, p) == prov[p] # recon[r].was[p] \/ ~amountOk[p]

\* Next row of the snapshot: a mismatch is to be parked.
ReconCompare(r, p) ==
  /\ recon[r].pay = NoPayment
  /\ recon[r].was[p] # "none"
  /\ ~TxnMissing(p)
  /\ recon' = [recon EXCEPT ![r] = ReconAt(Visited(r, p),
                                           IF Mismatch(r, p) THEN p ELSE NoPayment)]
  /\ UNCHANGED <<rowVars, provVars, subVars, init, ipn, sweep, crashes>>

\* getTransaction threw, for a missing transaction id as for an outage: the
\* row is counted as an error and left as it is.
ReconSkip(r, p) ==
  /\ recon[r].pay = NoPayment
  /\ recon[r].was[p] # "none"
  /\ recon' = [recon EXCEPT ![r] = ReconAt(Visited(r, p), NoPayment)]
  /\ UNCHANGED <<rowVars, provVars, subVars, init, ipn, sweep, crashes>>

ReconPark(r, p) ==
  /\ recon[r].pay = p
  /\ WriteStatus(p, "needs_review")
  /\ recon' = [recon EXCEPT ![r] = ReconAt(recon[r].was, NoPayment)]
  /\ UNCHANGED <<request, txnKnown, age, provVars, init, ipn, sweep, crashes>>

ReconParkFails(r) ==
  /\ recon[r].pay # NoPayment
  /\ recon' = [recon EXCEPT ![r] = ReconAt(recon[r].was, NoPayment)]
  /\ UNCHANGED <<rowVars, provVars, subVars, init, ipn, sweep, crashes>>

-----------------------------------------------------------------------------
(* The environment                                                         *)

\* The payer approves or rejects the prompt, or it lapses, at the provider.
ProviderDecides(p, outcome) ==
  /\ prov[p] = "pending"
  /\ prov' = [prov EXCEPT ![p] = outcome]
  /\ \E ok \in BOOLEAN : amountOk' = [amountOk EXCEPT ![p] = ok]
  /\ UNCHANGED <<rowVars, subVars, taskVars, crashes>>

\* Ten minutes, then 48 hours, pass since the row was created.
RowAges(p) ==
  /\ status[p] # "none"
  /\ age[p] < 2
  /\ age' = [age EXCEPT ![p] = @ + 1]
  /\ UNCHANGED <<status, request, txnKnown, provVars, subVars, taskVars, crashes>>

\* The process restarts: every task is gone, the database stays.
Crash ==
  /\ crashes < MaxCrashes
  /\ crashes' = crashes + 1
  /\ init'  = [n \in Initiators |-> IdleInit]
  /\ ipn'   = [i \in Ipns |-> IdleIpn]
  /\ sweep' = [s \in Sweeps |-> IdleSweep]
  /\ recon' = [r \in Recons |-> IdleRecon]
  /\ UNCHANGED <<rowVars, provVars, subVars>>

Initiate(n) ==
  \/ \E t \in Tenants, k \in Plans : CheckNoPending(n, t, k)
  \/ \E p \in Payments : CreateRow(n, p)
  \/ \E reply \in {"id", "noid", "lost"} : CollectAccepted(n, reply)
  \/ CollectRefused(n)
  \/ StoreReplyId(n)
  \/ StoreReplyIdFails(n)
  \/ MarkFailed(n)
  \/ InitiateFails(n)

Webhook(i) ==
  \/ \E p \in Payments, body \in {"ref", "txn", "both"} : IpnLookup(i, p, body)
  \/ IpnStoreId(i)
  \/ IpnRequery(i)
  \/ IpnApply(i)
  \/ IpnGiveUp(i)

TimeoutSweep(s) ==
  \/ SweepStart(s)
  \/ \E p \in Payments : SweepRequery(s, p) \/ SweepApply(s, p) \/ SweepSkip(s, p)
  \/ SweepApplyFails(s)

Reconcile(r) ==
  \/ ReconStart(r)
  \/ \E p \in Payments : ReconCompare(r, p) \/ ReconSkip(r, p) \/ ReconPark(r, p)
  \/ ReconParkFails(r)

Environment ==
  \/ \E p \in Payments : \/ \E outcome \in {"successful", "failed"} : ProviderDecides(p, outcome)
                         \/ RowAges(p)
  \/ Crash

Next ==
  \/ \E n \in Initiators : Initiate(n)
  \/ \E i \in Ipns : Webhook(i)
  \/ \E s \in Sweeps : TimeoutSweep(s)
  \/ \E r \in Recons : Reconcile(r)
  \/ Environment

Spec == Init /\ [][Next]_vars

-----------------------------------------------------------------------------
(* Fairness: cron starts the jobs again and again, the process does not    *)
(* crash for ever (MaxCrashes), and an outage of the provider or of the    *)
(* database does not hit every attempt on the same row, so a re-query and  *)
(* a write that are tried again and again succeed in the end.  Nothing is  *)
(* assumed of IPNs: none need ever arrive.                                 *)

SweepFairness ==
  /\ \A p \in Payments : WF_vars(age[p] = 0 /\ RowAges(p))
  /\ \A s \in Sweeps : /\ WF_vars(SweepStart(s))
                       /\ \A p \in Payments : /\ SF_vars(SweepRequery(s, p))
                                              /\ SF_vars(SweepApply(s, p))

ReconFairness ==
  \A r \in Recons : /\ WF_vars(ReconStart(r))
                    /\ \A p \in Payments : /\ SF_vars(ReconCompare(r, p))
                                           /\ SF_vars(ReconPark(r, p))

FairSpec == Spec /\ SweepFairness /\ ReconFairness

-----------------------------------------------------------------------------
(* Properties                                                              *)

\* Money backs every activation: a row is successful, or has ever activated a
\* subscription, only if the provider itself collected exactly the row's
\* amount, although the decision is taken in one step and written in a later
\* one (settleFromAuthoritative, security rule "trust only the re-query").
Collected(p) == prov[p] = "successful" /\ amountOk[p]

SettledIsBacked ==
  \A p \in Payments : status[p] = "successful" \/ credits[p] > 0 => Collected(p)

\* A tenant's paid plan is one that this tenant paid for: no interleaving of
\* the handlers activates another tenant's subscription or another plan
\* (applySettledPayment takes both from the row, planKeyFromType).
PlanIsPaidFor ==
  \A t \in Tenants : sub[t].plan # "free" =>
    \E p \in Payments : credits[p] > 0 /\ request[p] = [tenant |-> t, plan |-> sub[t].plan]

\* A row whose provider transaction id was never stored is never settled and
\* never timed out: it stays pending, fails at initiation or is parked
\* (migration 021: "we never guess a transaction id").
UnverifiableNeverSettles ==
  \A p \in Payments : ~txnKnown[p] => status[p] \notin {"successful", "timeout"}

\* The handlers implement the promise of module Entitlement: seen from outside,
\* every step orders a payment, collects one, gives a tenant the plan that a
\* collected payment of this tenant was made for, or changes nothing.
Promise == INSTANCE Entitlement WITH
  Nothing   <- NoRequest,
  bought    <- request,
  collected <- {p \in Payments : Collected(p)},
  plan      <- [t \in Tenants |-> sub[t].plan]

ImplementsEntitlement == Promise!Spec

-----------------------------------------------------------------------------
(* The inductive invariant behind the safety properties                    *)

\* A row exists once it has a status; nothing happened to it before.
RowsExist ==
  \A p \in Payments :
    /\ status[p] = "none" <=> request[p] = NoRequest
    /\ status[p] = "none" => prov[p] = "none" /\ ~txnKnown[p] /\ credits[p] = 0

\* The provider can be asked about a row only if it accepted the collection.
IdsAreReal == \A p \in Payments : txnKnown[p] => prov[p] # "none"

\* An initiation owns its row until it ends, and calls the provider once.
InitiatorsOwn ==
  \A n \in Initiators :
    /\ init[n].pc = "create" => init[n].request \in Requests
    /\ init[n].pc \in {"collect", "store", "fail"} =>
         init[n].pay \in Payments /\ status[init[n].pay] # "none"
    /\ init[n].pc = "collect" => prov[init[n].pay] = "none"
    /\ init[n].pc = "store" => prov[init[n].pay] # "none"
    /\ init[n].pc \in {"idle", "create"} => init[n].pay = NoPayment
    /\ \A m \in Initiators :
         m # n /\ init[n].pay # NoPayment => init[m].pay # init[n].pay

\* A verdict on p that a task still has to write is one the provider backs.
VerdictBacked(p, v) ==
  /\ p \in Payments
  /\ status[p] # "none"
  /\ v \in {"successful", "failed", "timeout", "needs_review"}
  /\ v \in {"successful", "timeout"} => txnKnown[p]
  /\ v = "successful" => Collected(p)

IpnsBacked ==
  \A i \in Ipns :
    /\ ipn[i].pc \in {"store", "requery"} => ipn[i].pay \in Payments /\ prov[ipn[i].pay] # "none"
    /\ ipn[i].pc = "apply" => VerdictBacked(ipn[i].pay, ipn[i].verdict)

SweepsBacked ==
  \A s \in Sweeps :
    /\ sweep[s].pay # NoPayment => VerdictBacked(sweep[s].pay, sweep[s].verdict)
    /\ \A p \in sweep[s].todo : status[p] # "none"

ReconsBacked ==
  \A r \in Recons :
    /\ recon[r].pay # NoPayment => VerdictBacked(recon[r].pay, "needs_review")
    /\ \A p \in Payments : recon[r].was[p] # "none" => status[p] # "none"

IInv ==
  /\ TypeOK
  /\ RowsExist
  /\ IdsAreReal
  /\ InitiatorsOwn
  /\ IpnsBacked
  /\ SweepsBacked
  /\ ReconsBacked
  /\ SettledIsBacked
  /\ PlanIsPaidFor
  /\ UnverifiableNeverSettles

\* Some task holds p: what it read of the row may be out of date.
InFlight(p) ==
  \/ \E n \in Initiators : init[n].pay = p
  \/ \E i \in Ipns : ipn[i].pay = p
  \/ \E s \in Sweeps : sweep[s].pay = p \/ p \in sweep[s].todo

Quiet(p) == status[p] \notin {"none", "pending"} /\ ~InFlight(p)

QuietRowsKept ==
  \A p \in Payments :
    Quiet(p) => Quiet(p)' /\ status'[p] \in {status[p], "needs_review"}

\* What is true of "already processed (status != pending -> idempotent no-op)"
\* (paymentService.ts:374): once a row has left pending and no task that read it
\* before is still running, no IPN, sweep or initiation picks it up again, and
\* its status changes at most to needs_review, by the reconciliation.
QuietRowsStayQuiet == [][QuietRowsKept]_vars

\* No payment stays pending for ever, whatever replies and IPNs are lost and
\* wherever the process crashes: the sweep settles, times out or parks it.
\* Until then the tenant gets 409 for every new attempt to pay.
PendingResolves ==
  \A p \in Payments : status[p] = "pending" ~> status[p] # "pending"

\* The row says something final that the provider's record, which can be
\* re-queried, contradicts.
Disagrees(p) ==
  /\ txnKnown[p]
  /\ status[p] \in {"successful", "failed", "timeout"}
  /\ prov[p] # status[p] \/ ~amountOk[p]

\* Reconciliation finds such a row while it is younger than 48 hours: a payment
\* approved after its timeout ends with a human, not in silence.
DisagreementIsReviewed ==
  \A p \in Payments : Disagrees(p) ~> ~Disagrees(p) \/ age[p] = 2
=============================================================================
