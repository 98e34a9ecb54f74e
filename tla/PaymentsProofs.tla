--------------------------- MODULE PaymentsProofs ---------------------------
(***************************************************************************)
(* Proofs about modules Payments and Billing, for every set of tenants,    *)
(* plans, payments and concurrent tasks.                                   *)
(***************************************************************************)
EXTENDS Billing, TLAPS

-----------------------------------------------------------------------------
(***************************************************************************)
(* Payments.  The heart of the argument is Monotone: whatever step is      *)
(* taken, a row stays a row, a stored transaction id stays stored, and     *)
(* money collected at the provider stays collected.  A verdict that was    *)
(* backed when it was read is then still backed when it is written,        *)
(* however much later.                                                     *)
(***************************************************************************)

USE DEF Statuses, ProvStates, Requests, NoRequest, Terms, CreditCap

Monotone ==
  \A p \in Payments :
    /\ status[p] # "none" => status'[p] # "none"
    /\ txnKnown[p] => txnKnown'[p]
    /\ prov[p] # "none" => prov'[p] # "none"
    /\ Collected(p) => Collected(p)'

\* A verdict stays backed by the provider while other tasks take their steps.
LEMMA VerdictStays ==
  ASSUME NEW p, NEW v, VerdictBacked(p, v), Monotone
  PROVE  VerdictBacked(p, v)'
BY DEF VerdictBacked, Monotone

\* The same for all the tasks that a step leaves alone.
LEMMA TasksKeep ==
  ASSUME Monotone, TypeOK
  PROVE  /\ IpnsBacked /\ ipn' = ipn => IpnsBacked'
         /\ SweepsBacked /\ sweep' = sweep => SweepsBacked'
         /\ ReconsBacked /\ recon' = recon => ReconsBacked'
<1>1. ASSUME IpnsBacked, ipn' = ipn PROVE IpnsBacked'
  <2> SUFFICES ASSUME NEW i \in Ipns
               PROVE /\ ipn[i].pc \in {"store", "requery"} =>
                          ipn[i].pay \in Payments /\ prov'[ipn[i].pay] # "none"
                     /\ ipn[i].pc = "apply" => VerdictBacked(ipn[i].pay, ipn[i].verdict)'
    BY <1>1 DEF IpnsBacked
  <2>1. ipn[i].pc \in {"store", "requery"} => ipn[i].pay \in Payments /\ prov'[ipn[i].pay] # "none"
    BY <1>1 DEF IpnsBacked, Monotone
  <2>2. ipn[i].pc = "apply" => VerdictBacked(ipn[i].pay, ipn[i].verdict)'
    BY <1>1, VerdictStays DEF IpnsBacked, VerdictBacked, Monotone, Collected
  <2> QED BY <2>1, <2>2
<1>2. ASSUME SweepsBacked, sweep' = sweep PROVE SweepsBacked'
  BY <1>2 DEF SweepsBacked, VerdictBacked, Monotone, Collected, TypeOK
<1>3. ASSUME ReconsBacked, recon' = recon PROVE ReconsBacked'
  BY <1>3 DEF ReconsBacked, VerdictBacked, Monotone, Collected
<1> QED BY <1>1, <1>2, <1>3

\* What the shared database transaction preserves, whoever runs it: a backed
\* verdict keeps every fact about rows, money and subscriptions.
RowFacts ==
  /\ status   \in [Payments -> Statuses \cup {"none"}]
  /\ sub      \in [Tenants -> [plan : Plans \cup {"free"},
                               status : {"active", "grace"}, term : Terms]]
  /\ credits  \in [Payments -> 0..CreditCap]
  /\ RowsExist
  /\ IdsAreReal
  /\ SettledIsBacked
  /\ PlanIsPaidFor
  /\ UnverifiableNeverSettles

LEMMA WriteKeepsRows ==
  ASSUME TypeOK, RowFacts,
         NEW p \in Payments, NEW v, VerdictBacked(p, v), WriteStatus(p, v),
         UNCHANGED <<request, txnKnown, prov, amountOk>>
  PROVE  RowFacts' /\ Monotone
<1> DEFINE T == request[p].tenant
           K == request[p].plan
<1>1. request[p] \in Requests
  BY DEF VerdictBacked, RowFacts, RowsExist, TypeOK
<1>2. T \in Tenants /\ K \in Plans
  BY <1>1
<1>3. v \in Statuses /\ status' = [status EXCEPT ![p] = v]
  BY DEF VerdictBacked, WriteStatus
<1>4. \A q \in Payments : status'[q] = IF q = p THEN v ELSE status[q]
  BY <1>3 DEF TypeOK
<1>5. /\ sub' \in [Tenants -> [plan : Plans \cup {"free"},
                               status : {"active", "grace"}, term : Terms]]
      /\ \A t \in Tenants : sub'[t].plan = IF v = "successful" /\ t = T THEN K ELSE sub[t].plan
  BY <1>2 DEF TypeOK, WriteStatus, Activated, subVars
<1>6. /\ credits' \in [Payments -> 0..CreditCap]
      /\ \A q \in Payments : /\ credits'[q] >= credits[q]
                             /\ credits'[q] # credits[q] => q = p /\ v = "successful"
      /\ v = "successful" => credits'[p] > 0
  <2>1. credits \in [Payments -> 0..2]
    BY DEF RowFacts
  <2>2. CASE v = "successful"
    <3>1. credits' = [credits EXCEPT ![p] = IF @ < 2 THEN @ + 1 ELSE @]
      BY <2>2 DEF WriteStatus
    <3> QED BY <2>1, <2>2, <3>1
  <2>3. CASE v # "successful"
    <3>1. credits' = credits
      BY <2>3 DEF WriteStatus, subVars
    <3> QED BY <2>1, <2>3, <3>1
  <2> QED BY <2>2, <2>3
<1>7. Monotone
  BY <1>4 DEF Monotone, VerdictBacked, Collected
<1>8. RowsExist'
  BY <1>4, <1>6 DEF RowFacts, RowsExist, VerdictBacked, TypeOK
<1>9. IdsAreReal'
  BY DEF RowFacts, IdsAreReal
<1>10. SettledIsBacked'
  BY <1>4, <1>6 DEF RowFacts, SettledIsBacked, VerdictBacked, Collected
<1>11. PlanIsPaidFor'
  <2> SUFFICES ASSUME NEW t \in Tenants, sub'[t].plan # "free"
               PROVE \E q \in Payments : /\ credits'[q] > 0
                                         /\ request[q] = [tenant |-> t, plan |-> sub'[t].plan]
    BY DEF PlanIsPaidFor
  <2>1. CASE v = "successful" /\ t = T
    <3>1. request[p] = [tenant |-> t, plan |-> sub'[t].plan]
      BY <1>1, <1>5, <2>1
    <3> QED BY <3>1, <1>6, <2>1
  <2>2. CASE ~(v = "successful" /\ t = T)
    <3>1. sub'[t].plan = sub[t].plan
      BY <1>5, <2>2
    <3>2. PICK q \in Payments : /\ credits[q] > 0
                               /\ request[q] = [tenant |-> t, plan |-> sub[t].plan]
      BY <3>1 DEF RowFacts, PlanIsPaidFor
    <3>3. credits'[q] > 0
      BY <3>2, <1>6 DEF TypeOK
    <3> QED BY <3>1, <3>2, <3>3
  <2> QED BY <2>1, <2>2
<1>12. UnverifiableNeverSettles'
  BY <1>4 DEF RowFacts, UnverifiableNeverSettles, VerdictBacked
<1>13. status' \in [Payments -> Statuses \cup {"none"}]
  BY <1>3 DEF TypeOK
<1> QED BY <1>5, <1>6, <1>7, <1>8, <1>9, <1>10, <1>11, <1>12, <1>13 DEF RowFacts

\* Steps that write no row, no subscription and nothing at the provider.
LEMMA RowsKeep ==
  ASSUME RowFacts,
         UNCHANGED <<status, request, txnKnown, prov, amountOk, sub, credits>>
  PROVE  RowFacts' /\ Monotone
BY DEF RowFacts, RowsExist, IdsAreReal, SettledIsBacked, PlanIsPaidFor,
       UnverifiableNeverSettles, Monotone, Collected

LEMMA InitiatorsKeep ==
  ASSUME InitiatorsOwn, Monotone, init' = init, prov' = prov
  PROVE  InitiatorsOwn'
BY DEF InitiatorsOwn, Monotone

LEMMA Parts ==
  /\ IInv => RowFacts
  /\ TypeOK /\ RowFacts /\ InitiatorsOwn /\ IpnsBacked /\ SweepsBacked /\ ReconsBacked => IInv
  /\ IInv => TypeOK /\ InitiatorsOwn /\ IpnsBacked /\ SweepsBacked /\ ReconsBacked
BY DEF IInv, RowFacts, TypeOK

LEMMA PartsNext ==
  TypeOK' /\ RowFacts' /\ InitiatorsOwn' /\ IpnsBacked' /\ SweepsBacked' /\ ReconsBacked' => IInv'
BY DEF IInv, RowFacts, TypeOK

-----------------------------------------------------------------------------
(* initiateProviderPayment                                                 *)

LEMMA InitiateKeeps ==
  ASSUME IInv, NEW n \in Initiators, Initiate(n)
  PROVE  IInv'
<1> USE Parts DEF rowVars, provVars, subVars, InitAt
<1>1. ASSUME NEW t \in Tenants, NEW k \in Plans, CheckNoPending(n, t, k) PROVE IInv'
  <2> USE <1>1 DEF CheckNoPending
  <2>1. TypeOK'
    BY DEF TypeOK
  <2>2. RowFacts' /\ Monotone
    BY RowsKeep
  <2>3. InitiatorsOwn'
    BY DEF InitiatorsOwn, IdleInit, TypeOK
  <2> QED BY <2>1, <2>2, <2>3, TasksKeep, PartsNext
<1>2. ASSUME NEW p \in Payments, CreateRow(n, p) PROVE IInv'
  <2> USE <1>2 DEF CreateRow
  <2>1. init[n].request \in Requests
    BY DEF InitiatorsOwn
  <2>2. TypeOK'
    BY <2>1 DEF TypeOK
  <2>3. Monotone
    BY DEF Monotone, Collected, TypeOK
  <2>4. init[n].request # NoRequest
    BY <2>1, NoTenantAssumption
  <2>5. RowsExist' /\ IdsAreReal'
    BY <2>4 DEF RowFacts, RowsExist, IdsAreReal, TypeOK
  <2>6. SettledIsBacked' /\ UnverifiableNeverSettles'
    BY DEF RowFacts, SettledIsBacked, UnverifiableNeverSettles, Collected, TypeOK
  <2>7. PlanIsPaidFor'
    <3>1. \A q \in Payments : credits[q] > 0 => request'[q] = request[q]
      BY DEF RowFacts, RowsExist, TypeOK
    <3> QED BY <3>1 DEF RowFacts, PlanIsPaidFor
  <2>8. RowFacts'
    BY <2>2, <2>5, <2>6, <2>7 DEF RowFacts, TypeOK
  <2>9. InitiatorsOwn'
    <3>1. \A m \in Initiators : m # n => init[m].pay # p
      BY NoPaymentAssumption DEF InitiatorsOwn, TypeOK
    <3> QED BY <3>1, <2>3, NoPaymentAssumption DEF InitiatorsOwn, TypeOK, RowFacts, RowsExist
  <2> QED BY <2>2, <2>3, <2>8, <2>9, TasksKeep, PartsNext
<1>3. ASSUME NEW reply \in {"id", "noid", "lost"}, CollectAccepted(n, reply) PROVE IInv'
  <2> USE <1>3 DEF CollectAccepted
  <2> DEFINE p == init[n].pay
  <2>1. /\ p \in Payments /\ status[p] # "none" /\ prov[p] = "none"
        /\ ~Collected(p) /\ ~txnKnown[p]
    BY DEF InitiatorsOwn, Collected, RowFacts, IdsAreReal
  <2>2. PICK ok \in BOOLEAN : amountOk' = [amountOk EXCEPT ![p] = ok]
    OBVIOUS
  <2>3. \A q \in Payments : /\ prov'[q] = IF q = p THEN "pending" ELSE prov[q]
                            /\ Collected(q)' <=> Collected(q)
    BY <2>1, <2>2 DEF TypeOK, Collected
  <2>4. TypeOK'
    BY <2>1, <2>2 DEF TypeOK, IdleInit
  <2>5. Monotone
    BY <2>3 DEF Monotone
  <2>6. RowFacts'
    BY <2>1, <2>3 DEF RowFacts, RowsExist, IdsAreReal, SettledIsBacked, PlanIsPaidFor,
                      UnverifiableNeverSettles
  <2>7. InitiatorsOwn'
    <3>1. \A m \in Initiators : m # n => init'[m] = init[m] /\ init[m].pay # p
      BY <2>1, NoPaymentAssumption DEF InitiatorsOwn, TypeOK
    <3>2. init'[n] \in {IdleInit, InitAt(n, "store", p), InitAt(n, "fail", p)}
      BY DEF TypeOK
    <3> QED BY <2>1, <2>3, <3>1, <3>2, NoPaymentAssumption DEF InitiatorsOwn, TypeOK, IdleInit
  <2> QED BY <2>4, <2>5, <2>6, <2>7, TasksKeep, PartsNext
<1>4. ASSUME CollectRefused(n) \/ StoreReplyIdFails(n) PROVE IInv'
  <2>1. /\ init[n].pc \in {"collect", "store"}
        /\ init' = [init EXCEPT ![n] = InitAt(n, "fail", init[n].pay)]
        /\ UNCHANGED <<rowVars, provVars, subVars, ipn, sweep, recon, crashes>>
    BY <1>4 DEF CollectRefused, StoreReplyIdFails
  <2>2. TypeOK'
    BY <2>1 DEF TypeOK
  <2>3. RowFacts' /\ Monotone
    BY <2>1, RowsKeep
  <2>4. InitiatorsOwn'
    BY <2>1 DEF InitiatorsOwn, TypeOK
  <2> QED BY <2>1, <2>2, <2>3, <2>4, TasksKeep, PartsNext
<1>5. ASSUME StoreReplyId(n) PROVE IInv'
  <2> USE <1>5 DEF StoreReplyId
  <2>1. init[n].pay \in Payments /\ prov[init[n].pay] # "none" /\ status[init[n].pay] # "none"
    BY DEF InitiatorsOwn
  <2>2. TypeOK'
    BY <2>1 DEF TypeOK, IdleInit
  <2>3. Monotone
    BY DEF Monotone, Collected, TypeOK
  <2>4. RowFacts'
    BY <2>1 DEF RowFacts, RowsExist, IdsAreReal, SettledIsBacked, PlanIsPaidFor,
                UnverifiableNeverSettles, TypeOK, Collected
  <2>5. InitiatorsOwn'
    BY DEF InitiatorsOwn, TypeOK, IdleInit
  <2> QED BY <2>2, <2>3, <2>4, <2>5, TasksKeep, PartsNext
<1>6. ASSUME MarkFailed(n) PROVE IInv'
  <2> USE <1>6 DEF MarkFailed
  <2>1. init[n].pay \in Payments /\ VerdictBacked(init[n].pay, "failed")
    BY DEF InitiatorsOwn, VerdictBacked
  <2>2. RowFacts' /\ Monotone
    BY <2>1, WriteKeepsRows
  <2>3. TypeOK'
    BY <2>2 DEF TypeOK, RowFacts, IdleInit
  <2>4. InitiatorsOwn'
    BY <2>2 DEF InitiatorsOwn, TypeOK, IdleInit, Monotone
  <2> QED BY <2>2, <2>3, <2>4, TasksKeep, PartsNext
<1>7. ASSUME InitiateFails(n) PROVE IInv'
  <2> USE <1>7 DEF InitiateFails
  <2>1. TypeOK'
    BY DEF TypeOK, IdleInit
  <2>2. RowFacts' /\ Monotone
    BY RowsKeep
  <2>3. InitiatorsOwn'
    BY DEF InitiatorsOwn, IdleInit, TypeOK
  <2> QED BY <2>1, <2>2, <2>3, TasksKeep, PartsNext
<1> QED BY <1>1, <1>2, <1>3, <1>4, <1>5, <1>6, <1>7 DEF Initiate

-----------------------------------------------------------------------------
(* handleProviderWebhook                                                   *)

\* A verdict read from a final answer of the provider is backed by it.
LEMMA RequeryBacks ==
  ASSUME TypeOK, NEW p \in Payments, status[p] # "none", ProviderFinal(p)
  PROVE  VerdictBacked(p, SettleVerdict(p))
BY DEF VerdictBacked, SettleVerdict, ProviderFinal, Collected, TypeOK

LEMMA WebhookKeeps ==
  ASSUME IInv, NEW i \in Ipns, Webhook(i)
  PROVE  IInv'
<1> USE Parts DEF rowVars, provVars, subVars, IpnAt
<1>1. ASSUME NEW p \in Payments, NEW body \in {"ref", "txn", "both"}, IpnLookup(i, p, body)
      PROVE  IInv'
  <2> USE <1>1 DEF IpnLookup
  <2>1. TypeOK'
    BY DEF TypeOK
  <2>2. RowFacts' /\ Monotone
    BY RowsKeep
  <2>3. IpnsBacked'
    BY <2>2, VerdictStays DEF IpnsBacked, Monotone, TypeOK, VerdictBacked
  <2> QED BY <2>1, <2>2, <2>3, TasksKeep, InitiatorsKeep, PartsNext
<1>2. ASSUME IpnStoreId(i) PROVE IInv'
  <2> USE <1>2 DEF IpnStoreId
  <2>1. ipn[i].pay \in Payments /\ prov[ipn[i].pay] # "none" /\ status[ipn[i].pay] # "none"
    BY DEF IpnsBacked, RowFacts, RowsExist
  <2>2. TypeOK'
    BY <2>1 DEF TypeOK
  <2>3. Monotone
    BY DEF Monotone, Collected, TypeOK
  <2>4. RowFacts'
    BY <2>1 DEF RowFacts, RowsExist, IdsAreReal, SettledIsBacked, PlanIsPaidFor,
                UnverifiableNeverSettles, TypeOK, Collected
  <2>5. IpnsBacked'
    BY <2>1, <2>3, VerdictStays DEF IpnsBacked, Monotone, TypeOK, VerdictBacked
  <2> QED BY <2>2, <2>3, <2>4, <2>5, TasksKeep, InitiatorsKeep, PartsNext
<1>3. ASSUME IpnRequery(i) PROVE IInv'
  <2> DEFINE p == ipn[i].pay
             v == IF TxnMissing(p) THEN "needs_review" ELSE SettleVerdict(p)
  <2>1. p \in Payments /\ status[p] # "none"
    BY <1>3 DEF IpnRequery, IpnsBacked, RowFacts, RowsExist
  <2>2. VerdictBacked(p, v)
    <3>1. CASE TxnMissing(p)
      BY <3>1, <2>1 DEF VerdictBacked
    <3>2. CASE ~TxnMissing(p)
      <4>1. ProviderFinal(p)
        BY <1>3, <3>2 DEF IpnRequery
      <4> QED BY <4>1, <2>1, <3>2, RequeryBacks
    <3> QED BY <3>1, <3>2
  <2>3. ipn' = [ipn EXCEPT ![i] = IpnAt("apply", p, v)]
    BY <1>3 DEF IpnRequery
  <2>4. RowFacts' /\ Monotone
    BY <1>3, RowsKeep DEF IpnRequery
  <2>5. v \in Statuses
    BY <2>2 DEF VerdictBacked
  <2>6. TypeOK'
    BY <1>3, <2>1, <2>3, <2>5 DEF IpnRequery, TypeOK
  <2>8. IpnsBacked'
    <3> SUFFICES ASSUME NEW j \in Ipns
                 PROVE /\ ipn'[j].pc \in {"store", "requery"} =>
                            ipn'[j].pay \in Payments /\ prov'[ipn'[j].pay] # "none"
                       /\ ipn'[j].pc = "apply" => VerdictBacked(ipn[j].pay, ipn[j].verdict)'
      BY DEF IpnsBacked
    <3>1. CASE j = i
      <4>1. ipn'[j] = IpnAt("apply", p, v)
        BY <2>3, <3>1 DEF TypeOK
      <4>2. v' = v /\ prov' = prov /\ status' = status /\ txnKnown' = txnKnown /\ amountOk' = amountOk
        BY <1>3, <4>1, <3>1 DEF IpnRequery, TxnMissing, SettleVerdict
      <4> QED BY <4>1, <4>2, <2>2 DEF VerdictBacked, Collected
    <3>2. CASE j # i
      <4>1. ipn'[j] = ipn[j]
        BY <2>3, <3>2 DEF TypeOK
      <4> QED BY <4>1, <1>3 DEF IpnRequery, IpnsBacked, VerdictBacked, Collected
    <3> QED BY <3>1, <3>2
  <2>9. UNCHANGED <<init, sweep, recon, prov>>
    BY <1>3 DEF IpnRequery
  <2> QED BY <2>4, <2>6, <2>8, <2>9, TasksKeep, InitiatorsKeep, PartsNext
<1>4. ASSUME IpnApply(i) PROVE IInv'
  <2> USE <1>4 DEF IpnApply
  <2>1. ipn[i].pay \in Payments /\ VerdictBacked(ipn[i].pay, ipn[i].verdict)
    BY DEF IpnsBacked, VerdictBacked
  <2>2. RowFacts' /\ Monotone
    BY <2>1, WriteKeepsRows
  <2>3. TypeOK'
    BY <2>2 DEF TypeOK, RowFacts, IdleIpn
  <2>4. IpnsBacked'
    BY <2>2, VerdictStays DEF IpnsBacked, Monotone, TypeOK, IdleIpn, VerdictBacked
  <2> QED BY <2>2, <2>3, <2>4, TasksKeep, InitiatorsKeep, PartsNext
<1>5. ASSUME IpnGiveUp(i) PROVE IInv'
  <2> USE <1>5 DEF IpnGiveUp
  <2>1. TypeOK'
    BY DEF TypeOK, IdleIpn
  <2>2. RowFacts' /\ Monotone
    BY RowsKeep
  <2>3. IpnsBacked'
    BY <2>2, VerdictStays DEF IpnsBacked, Monotone, TypeOK, IdleIpn, VerdictBacked
  <2> QED BY <2>1, <2>2, <2>3, TasksKeep, InitiatorsKeep, PartsNext
<1> QED BY <1>1, <1>2, <1>3, <1>4, <1>5 DEF Webhook

-----------------------------------------------------------------------------
(* checkPendingPaymentTimeoutVia                                           *)

LEMMA SweepKeeps ==
  ASSUME IInv, NEW s \in Sweeps, TimeoutSweep(s)
  PROVE  IInv'
<1> USE Parts DEF rowVars, provVars, subVars, SweepAt
<1>1. ASSUME SweepStart(s) PROVE IInv'
  <2> USE <1>1 DEF SweepStart
  <2>1. TypeOK'
    BY DEF TypeOK, Stale
  <2>2. RowFacts' /\ Monotone
    BY RowsKeep
  <2>3. SweepsBacked'
    BY <2>2, VerdictStays DEF SweepsBacked, Monotone, TypeOK, VerdictBacked, Stale
  <2> QED BY <2>1, <2>2, <2>3, TasksKeep, InitiatorsKeep, PartsNext
<1>2. ASSUME NEW p \in Payments, SweepRequery(s, p) PROVE IInv'
  <2> DEFINE v == IF TxnMissing(p) THEN "needs_review"
                  ELSE IF ProviderFinal(p) THEN SettleVerdict(p) ELSE "timeout"
  <2>1. p \in sweep[s].todo /\ status[p] # "none"
    BY <1>2 DEF SweepRequery, SweepsBacked
  <2>2. VerdictBacked(p, v)
    <3>1. CASE TxnMissing(p)
      BY <3>1, <2>1 DEF VerdictBacked
    <3>2. CASE ~TxnMissing(p) /\ ProviderFinal(p)
      BY <3>2, <2>1, RequeryBacks
    <3>3. CASE ~TxnMissing(p) /\ ~ProviderFinal(p)
      BY <3>3, <2>1 DEF VerdictBacked, TxnMissing
    <3> QED BY <3>1, <3>2, <3>3
  <2>3. sweep' = [sweep EXCEPT ![s] = SweepAt(sweep[s].todo \ {p}, p, v)]
    BY <1>2 DEF SweepRequery
  <2>4. UNCHANGED <<init, ipn, recon, prov, status, txnKnown, amountOk>>
    BY <1>2 DEF SweepRequery
  <2>5. RowFacts' /\ Monotone
    BY <1>2, RowsKeep DEF SweepRequery
  <2>6. v \in Statuses
    BY <2>2 DEF VerdictBacked
  <2>7. TypeOK'
    BY <1>2, <2>3, <2>6 DEF SweepRequery, TypeOK
  <2>8. SweepsBacked'
    <3> SUFFICES ASSUME NEW x \in Sweeps
                 PROVE /\ sweep'[x].pay # NoPayment =>
                            VerdictBacked(sweep[x].pay, sweep[x].verdict)'
                       /\ \A q \in sweep'[x].todo : status'[q] # "none"
      BY DEF SweepsBacked
    <3>1. CASE x = s
      <4>1. sweep'[x] = SweepAt(sweep[s].todo \ {p}, p, v)
        BY <2>3, <3>1 DEF TypeOK
      <4>2. sweep'[x].pay = p /\ sweep'[x].verdict = v /\ sweep'[x].todo = sweep[s].todo \ {p}
        BY <4>1
      <4>3. VerdictBacked(sweep[x].pay, sweep[x].verdict)'
        BY <4>2, <2>2, <2>4 DEF VerdictBacked, Collected
      <4> QED BY <4>2, <4>3, <2>4 DEF SweepsBacked
    <3>2. CASE x # s
      <4>1. sweep'[x] = sweep[x]
        BY <2>3, <3>2 DEF TypeOK
      <4> QED BY <4>1, <2>4 DEF SweepsBacked, VerdictBacked, Collected
    <3> QED BY <3>1, <3>2
  <2> QED BY <2>4, <2>5, <2>7, <2>8, TasksKeep, InitiatorsKeep, PartsNext
<1>3. ASSUME NEW p \in Payments, SweepApply(s, p) PROVE IInv'
  <2> USE <1>3 DEF SweepApply
  <2>1. VerdictBacked(p, sweep[s].verdict)
    BY NoPaymentAssumption DEF SweepsBacked
  <2>2. RowFacts' /\ Monotone
    BY <2>1, WriteKeepsRows
  <2>3. TypeOK'
    BY <2>2 DEF TypeOK, RowFacts
  <2>4. SweepsBacked'
    BY <2>2, VerdictStays DEF SweepsBacked, Monotone, TypeOK, VerdictBacked
  <2> QED BY <2>2, <2>3, <2>4, TasksKeep, InitiatorsKeep, PartsNext
<1>4. ASSUME (\E p \in Payments : SweepSkip(s, p)) \/ SweepApplyFails(s) PROVE IInv'
  <2>1. PICK rows \in SUBSET sweep[s].todo :
          sweep' = [sweep EXCEPT ![s] = SweepAt(rows, NoPayment, "none")]
    BY <1>4 DEF SweepSkip, SweepApplyFails
  <2>2. UNCHANGED <<rowVars, provVars, subVars, init, ipn, recon, crashes>>
    BY <1>4 DEF SweepSkip, SweepApplyFails
  <2>3. TypeOK'
    BY <2>1, <2>2 DEF TypeOK
  <2>4. RowFacts' /\ Monotone
    BY <2>2, RowsKeep
  <2>5. SweepsBacked'
    BY <2>1, <2>4, VerdictStays DEF SweepsBacked, Monotone, TypeOK, VerdictBacked
  <2> QED BY <2>2, <2>3, <2>4, <2>5, TasksKeep, InitiatorsKeep, PartsNext
<1> QED BY <1>1, <1>2, <1>3, <1>4 DEF TimeoutSweep

-----------------------------------------------------------------------------
(* runReconciliation                                                       *)

LEMMA ReconcileKeeps ==
  ASSUME IInv, NEW r \in Recons, Reconcile(r)
  PROVE  IInv'
<1> USE Parts DEF rowVars, provVars, subVars, ReconAt
<1>1. ASSUME ReconStart(r) PROVE IInv'
  <2> USE <1>1 DEF ReconStart
  <2>1. ReconSnapshot \in [Payments -> Statuses \cup {"none"}]
    BY DEF ReconSnapshot, TypeOK
  <2>2. TypeOK'
    BY <2>1 DEF TypeOK
  <2>3. RowFacts' /\ Monotone
    BY RowsKeep
  <2>4. \A p \in Payments : ReconSnapshot[p] # "none" => status[p] # "none"
    BY DEF ReconSnapshot
  <2>5. ReconsBacked'
    BY <2>3, <2>4, VerdictStays DEF ReconsBacked, Monotone, TypeOK, VerdictBacked
  <2> QED BY <2>2, <2>3, <2>5, TasksKeep, InitiatorsKeep, PartsNext
<1>2. ASSUME NEW p \in Payments, ReconCompare(r, p) \/ ReconSkip(r, p) PROVE IInv'
  <2>1. recon[r].was[p] # "none" /\ recon[r].pay = NoPayment
    BY <1>2 DEF ReconCompare, ReconSkip
  <2>2. PICK q \in {p, NoPayment} : recon' = [recon EXCEPT ![r] = ReconAt(Visited(r, p), q)]
    BY <1>2 DEF ReconCompare, ReconSkip
  <2>3. UNCHANGED <<rowVars, provVars, subVars, init, ipn, sweep, crashes>>
    BY <1>2 DEF ReconCompare, ReconSkip
  <2>4. /\ Visited(r, p) \in [Payments -> Statuses \cup {"none"}]
        /\ \A x \in Payments : Visited(r, p)[x] # "none" => recon[r].was[x] # "none"
    BY DEF Visited, TypeOK
  <2>5. TypeOK'
    BY <2>2, <2>3, <2>4 DEF TypeOK
  <2>6. RowFacts' /\ Monotone
    BY <2>3, RowsKeep
  <2>7. VerdictBacked(p, "needs_review")
    BY <2>1 DEF ReconsBacked, VerdictBacked
  <2>8. ReconsBacked'
    <3> SUFFICES ASSUME NEW x \in Recons
                 PROVE /\ recon'[x].pay # NoPayment => VerdictBacked(recon[x].pay, "needs_review")'
                       /\ \A y \in Payments : recon'[x].was[y] # "none" => status'[y] # "none"
      BY DEF ReconsBacked
    <3>1. CASE x = r
      <4>1. recon'[x].was = Visited(r, p) /\ recon'[x].pay = q
        BY <2>2, <3>1 DEF TypeOK
      <4>2. \A y \in Payments : recon'[x].was[y] # "none" => status'[y] # "none"
        BY <4>1, <2>3, <2>4 DEF ReconsBacked
      <4> QED BY <4>1, <4>2, <2>3, <2>7 DEF VerdictBacked, Collected
    <3>2. CASE x # r
      <4>1. recon'[x] = recon[x]
        BY <2>2, <3>2 DEF TypeOK
      <4> QED BY <4>1, <2>3 DEF ReconsBacked, VerdictBacked, Collected
    <3> QED BY <3>1, <3>2
  <2> QED BY <2>3, <2>5, <2>6, <2>8, TasksKeep, InitiatorsKeep, PartsNext
<1>3. ASSUME NEW p \in Payments, ReconPark(r, p) PROVE IInv'
  <2> USE <1>3 DEF ReconPark
  <2>1. VerdictBacked(p, "needs_review")
    BY NoPaymentAssumption DEF ReconsBacked
  <2>2. RowFacts' /\ Monotone
    BY <2>1, WriteKeepsRows
  <2>3. TypeOK'
    BY <2>2 DEF TypeOK, RowFacts
  <2>4. ReconsBacked'
    BY <2>2, VerdictStays DEF ReconsBacked, Monotone, TypeOK, VerdictBacked
  <2> QED BY <2>2, <2>3, <2>4, TasksKeep, InitiatorsKeep, PartsNext
<1>4. ASSUME ReconParkFails(r) PROVE IInv'
  <2> USE <1>4 DEF ReconParkFails
  <2>1. TypeOK'
    BY DEF TypeOK
  <2>2. RowFacts' /\ Monotone
    BY RowsKeep
  <2>3. ReconsBacked'
    BY <2>2, VerdictStays DEF ReconsBacked, Monotone, TypeOK, VerdictBacked
  <2> QED BY <2>1, <2>2, <2>3, TasksKeep, InitiatorsKeep, PartsNext
<1> QED BY <1>1, <1>2, <1>3, <1>4 DEF Reconcile

-----------------------------------------------------------------------------
(* The environment                                                         *)

LEMMA EnvironmentKeeps ==
  ASSUME IInv, Environment
  PROVE  IInv'
<1> USE Parts DEF rowVars, provVars, subVars, taskVars
<1>1. ASSUME NEW p \in Payments, NEW outcome \in {"successful", "failed"}, ProviderDecides(p, outcome)
      PROVE  IInv'
  <2> USE <1>1 DEF ProviderDecides
  <2>1. TypeOK'
    BY DEF TypeOK
  <2>2. Monotone
    BY DEF Monotone, Collected, TypeOK
  <2>3. status[p] # "none" /\ ~Collected(p)
    BY DEF RowFacts, RowsExist, Collected
  <2>4. RowFacts'
    BY <2>2, <2>3 DEF RowFacts, RowsExist, IdsAreReal, SettledIsBacked, PlanIsPaidFor,
                      UnverifiableNeverSettles, TypeOK, Monotone
  <2>5. InitiatorsOwn'
    BY DEF InitiatorsOwn, TypeOK
  <2> QED BY <2>1, <2>2, <2>4, <2>5, TasksKeep, PartsNext
<1>2. ASSUME NEW p \in Payments, RowAges(p) PROVE IInv'
  <2> USE <1>2 DEF RowAges
  <2>1. TypeOK'
    <3>1. age \in [Payments -> 0..2] /\ age' = [age EXCEPT ![p] = age[p] + 1]
      BY DEF TypeOK
    <3>2. age[p] + 1 \in 0..2
      BY <3>1
    <3>3. age' \in [Payments -> 0..2]
      BY <3>1, <3>2
    <3> QED BY <3>3 DEF TypeOK
  <2>2. RowFacts' /\ Monotone
    BY RowsKeep
  <2> QED BY <2>1, <2>2, TasksKeep, InitiatorsKeep, PartsNext
<1>3. ASSUME Crash PROVE IInv'
  <2> USE <1>3 DEF Crash
  <2>1. TypeOK'
    BY CrashAssumption DEF TypeOK, IdleInit, IdleIpn, IdleSweep, IdleRecon
  <2>2. RowFacts' /\ Monotone
    BY RowsKeep
  <2>3. InitiatorsOwn' /\ IpnsBacked' /\ SweepsBacked' /\ ReconsBacked'
    BY DEF InitiatorsOwn, IpnsBacked, SweepsBacked, ReconsBacked,
           IdleInit, IdleIpn, IdleSweep, IdleRecon
  <2> QED BY <2>1, <2>2, <2>3, PartsNext
<1> QED BY <1>1, <1>2, <1>3 DEF Environment

-----------------------------------------------------------------------------
(* The theorems                                                            *)

LEMMA InitHolds == Init => IInv
<1> SUFFICES ASSUME Init PROVE IInv
  OBVIOUS
<1> USE DEF Init
<1>1. TypeOK
  BY CrashAssumption DEF TypeOK, FreeSub, IdleInit, IdleIpn, IdleSweep, IdleRecon
<1>2. RowsExist /\ IdsAreReal /\ SettledIsBacked /\ UnverifiableNeverSettles
  BY DEF RowsExist, IdsAreReal, SettledIsBacked, UnverifiableNeverSettles
<1>3. PlanIsPaidFor
  BY DEF PlanIsPaidFor, FreeSub
<1>4. InitiatorsOwn /\ IpnsBacked /\ SweepsBacked /\ ReconsBacked
  BY DEF InitiatorsOwn, IpnsBacked, SweepsBacked, ReconsBacked,
         IdleInit, IdleIpn, IdleSweep, IdleRecon
<1> QED BY <1>1, <1>2, <1>3, <1>4 DEF IInv

LEMMA StutterKeeps == IInv /\ UNCHANGED vars => IInv'
<1> SUFFICES ASSUME IInv, UNCHANGED vars PROVE IInv'
  OBVIOUS
<1> USE Parts DEF vars, rowVars, provVars, subVars, taskVars
<1>1. TypeOK'
  BY DEF TypeOK
<1>2. RowFacts' /\ Monotone
  BY RowsKeep
<1> QED BY <1>1, <1>2, TasksKeep, InitiatorsKeep, PartsNext

\* The invariant of the payment code: types, the life of a row, the ownership
\* of a row by its initiation, and a backed verdict in every running task
\* (initiateProviderPayment, handleProviderWebhook,
\* checkPendingPaymentTimeoutVia, runReconciliation).
THEOREM Invariance == Spec => []IInv
<1>1. Init => IInv
  BY InitHolds
<1>2. IInv /\ [Next]_vars => IInv'
  BY InitiateKeeps, WebhookKeeps, SweepKeeps, ReconcileKeeps, EnvironmentKeeps, StutterKeeps
     DEF Next
<1> QED BY <1>1, <1>2, PTL DEF Spec

\* Every variable keeps its type; this is not inductive by itself, because a
\* settlement writes the tenant and the plan it reads from the payment row.
THEOREM TypeCorrect == Spec => []TypeOK
<1>1. IInv => TypeOK
  BY DEF IInv
<1> QED BY <1>1, Invariance, PTL

\* No activation without the row's exact amount collected at the provider,
\* however the handlers interleave (settleFromAuthoritative).
THEOREM MoneyBacksActivation == Spec => []SettledIsBacked
<1>1. IInv => SettledIsBacked
  BY DEF IInv
<1> QED BY <1>1, Invariance, PTL

\* A tenant's paid plan was paid for by that tenant (applySettledPayment).
THEOREM PaidPlanIsPaidFor == Spec => []PlanIsPaidFor
<1>1. IInv => PlanIsPaidFor
  BY DEF IInv
<1> QED BY <1>1, Invariance, PTL

\* A row without a provider transaction id is never settled nor timed out
\* (MissingProviderTxnIdError, migration 021).
THEOREM UnverifiableIsNotSettled == Spec => []UnverifiableNeverSettles
<1>1. IInv => UnverifiableNeverSettles
  BY DEF IInv
<1> QED BY <1>1, Invariance, PTL

-----------------------------------------------------------------------------
(* Rows that no task holds                                                 *)

\* A task takes up a row only while it is pending, or creates it; so a step of
\* a task leaves alone a row that is quiet, except that reconciliation parks it.
LEMMA StepKeepsQuiet ==
  ASSUME IInv, NEW p \in Payments, Quiet(p), Next
  PROVE  Quiet(p)' /\ status'[p] \in {status[p], "needs_review"}
<1> USE Parts, NoPaymentAssumption DEF rowVars, provVars, subVars, taskVars
<1>1. p # NoPayment /\ status[p] # "none" /\ status[p] # "pending"
  BY DEF Quiet
<1>2. /\ \A n \in Initiators : init[n].pay # p
      /\ \A i \in Ipns : ipn[i].pay # p
      /\ \A s \in Sweeps : sweep[s].pay # p /\ p \notin sweep[s].todo
  BY DEF Quiet, InFlight
<1>3. ASSUME /\ status'[p] \in {status[p], "needs_review"}
             /\ \A n \in Initiators : init'[n].pay # p
             /\ \A i \in Ipns : ipn'[i].pay # p
             /\ \A s \in Sweeps : sweep'[s].pay # p /\ p \notin sweep'[s].todo
      PROVE  Quiet(p)' /\ status'[p] \in {status[p], "needs_review"}
  BY <1>1, <1>3 DEF Quiet, InFlight
<1>4. ASSUME NEW q \in Payments, NEW v, WriteStatus(q, v)
      PROVE  status'[p] = IF q = p THEN v ELSE status[p]
  BY <1>4 DEF WriteStatus, TypeOK
<1>5. ASSUME NEW n \in Initiators, Initiate(n)
      PROVE  Quiet(p)' /\ status'[p] \in {status[p], "needs_review"}
  <2>1. UNCHANGED <<ipn, sweep>>
    BY <1>5 DEF Initiate, CheckNoPending, CreateRow, CollectAccepted, CollectRefused,
                StoreReplyId, StoreReplyIdFails, MarkFailed, InitiateFails
  <2>2. status'[p] = status[p]
    <3>1. ASSUME MarkFailed(n) PROVE status'[p] = status[p]
      BY <3>1, <1>2, <1>4 DEF MarkFailed, InitiatorsOwn
    <3>2. ASSUME NEW q \in Payments, CreateRow(n, q) PROVE status'[p] = status[p]
      BY <3>2, <1>1 DEF CreateRow, TypeOK
    <3> QED BY <1>5, <3>1, <3>2 DEF Initiate, CheckNoPending, CollectAccepted, CollectRefused,
                                    StoreReplyId, StoreReplyIdFails, InitiateFails
  <2>3. \A m \in Initiators : init'[m].pay # p
    <3>1. ASSUME NEW q \in Payments, CreateRow(n, q) PROVE \A m \in Initiators : init'[m].pay # p
      BY <3>1, <1>1, <1>2 DEF CreateRow, InitAt, TypeOK
    <3>2. ASSUME NEW reply \in {"id", "noid", "lost"}, CollectAccepted(n, reply)
          PROVE  \A m \in Initiators : init'[m].pay # p
      BY <3>2, <1>1, <1>2 DEF CollectAccepted, InitAt, IdleInit, TypeOK
    <3>3. ASSUME NEW t \in Tenants, NEW k \in Plans, CheckNoPending(n, t, k)
          PROVE  \A m \in Initiators : init'[m].pay # p
      BY <3>3, <1>1, <1>2 DEF CheckNoPending, TypeOK
    <3>4. ASSUME CollectRefused(n) \/ StoreReplyIdFails(n)
          PROVE  \A m \in Initiators : init'[m].pay # p
      <4>1. init' = [init EXCEPT ![n] = InitAt(n, "fail", init[n].pay)]
        BY <3>4 DEF CollectRefused, StoreReplyIdFails
      <4> QED BY <4>1, <1>2 DEF InitAt, TypeOK
    <3>5. ASSUME StoreReplyId(n) \/ MarkFailed(n) \/ InitiateFails(n)
          PROVE  \A m \in Initiators : init'[m].pay # p
      <4>1. init' = [init EXCEPT ![n] = IdleInit]
        BY <3>5 DEF StoreReplyId, MarkFailed, InitiateFails
      <4> QED BY <4>1, <1>1, <1>2 DEF IdleInit, TypeOK
    <3> QED BY <1>5, <3>1, <3>2, <3>3, <3>4, <3>5 DEF Initiate
  <2> QED BY <1>2, <1>3, <2>1, <2>2, <2>3
<1>6. ASSUME NEW i \in Ipns, Webhook(i)
      PROVE  Quiet(p)' /\ status'[p] \in {status[p], "needs_review"}
  <2>1. UNCHANGED <<init, sweep>>
    BY <1>6 DEF Webhook, IpnLookup, IpnStoreId, IpnRequery, IpnApply, IpnGiveUp
  <2>2. status'[p] = status[p]
    <3>1. ASSUME IpnApply(i) PROVE status'[p] = status[p]
      BY <3>1, <1>2, <1>4 DEF IpnApply, IpnsBacked, VerdictBacked
    <3> QED BY <1>6, <3>1 DEF Webhook, IpnLookup, IpnStoreId, IpnRequery, IpnGiveUp
  <2>3. \A j \in Ipns : ipn'[j].pay # p
    <3>1. ASSUME NEW q \in Payments, NEW body \in {"ref", "txn", "both"}, IpnLookup(i, q, body)
          PROVE  \A j \in Ipns : ipn'[j].pay # p
      BY <3>1, <1>1, <1>2 DEF IpnLookup, Unprocessed, IpnAt, TypeOK
    <3>2. ASSUME IpnStoreId(i) \/ IpnRequery(i) PROVE \A j \in Ipns : ipn'[j].pay # p
      <4>1. PICK pc, v : ipn' = [ipn EXCEPT ![i] = IpnAt(pc, ipn[i].pay, v)]
        BY <3>2 DEF IpnStoreId, IpnRequery
      <4>2. ipn'[i].pay = ipn[i].pay /\ \A j \in Ipns : j # i => ipn'[j] = ipn[j]
        BY <4>1, <1>1 DEF IpnAt, TypeOK
      <4> QED BY <4>2, <1>2
    <3>3. ASSUME IpnApply(i) \/ IpnGiveUp(i) PROVE \A j \in Ipns : ipn'[j].pay # p
      <4>1. ipn' = [ipn EXCEPT ![i] = IdleIpn]
        BY <3>3 DEF IpnApply, IpnGiveUp
      <4>2. ipn'[i].pay = NoPayment /\ \A j \in Ipns : j # i => ipn'[j] = ipn[j]
        BY <4>1, <1>1 DEF IdleIpn, TypeOK
      <4> QED BY <4>2, <1>1, <1>2
    <3> QED BY <1>6, <3>1, <3>2, <3>3 DEF Webhook
  <2> QED BY <1>2, <1>3, <2>1, <2>2, <2>3
<1>7. ASSUME NEW s \in Sweeps, TimeoutSweep(s)
      PROVE  Quiet(p)' /\ status'[p] \in {status[p], "needs_review"}
  <2>1. UNCHANGED <<init, ipn>>
    BY <1>7 DEF TimeoutSweep, SweepStart, SweepRequery, SweepApply, SweepSkip, SweepApplyFails
  <2>2. status'[p] = status[p]
    <3>1. ASSUME NEW q \in Payments, SweepApply(s, q) PROVE status'[p] = status[p]
      BY <3>1, <1>2, <1>4 DEF SweepApply
    <3> QED BY <1>7, <3>1 DEF TimeoutSweep, SweepStart, SweepRequery, SweepSkip, SweepApplyFails
  <2>3. \A u \in Sweeps : sweep'[u].pay # p /\ p \notin sweep'[u].todo
    <3>1. ASSUME SweepStart(s)
          PROVE  \A u \in Sweeps : sweep'[u].pay # p /\ p \notin sweep'[u].todo
      BY <3>1, <1>1, <1>2 DEF SweepStart, Stale, SweepAt, TypeOK
    <3>2. ASSUME NEW q \in Payments, SweepRequery(s, q)
          PROVE  \A u \in Sweeps : sweep'[u].pay # p /\ p \notin sweep'[u].todo
      <4> DEFINE w == IF TxnMissing(q) THEN "needs_review"
                      ELSE IF ProviderFinal(q) THEN SettleVerdict(q) ELSE "timeout"
      <4>1. q # p /\ sweep' = [sweep EXCEPT ![s] = SweepAt(sweep[s].todo \ {q}, q, w)]
        BY <3>2, <1>2 DEF SweepRequery
      <4> HIDE DEF w
      <4> QED BY <4>1, <1>2 DEF SweepAt, TypeOK
    <3>3. ASSUME NEW q \in Payments, SweepApply(s, q) \/ SweepSkip(s, q) \/ SweepApplyFails(s)
          PROVE  \A u \in Sweeps : sweep'[u].pay # p /\ p \notin sweep'[u].todo
      BY <3>3, <1>1, <1>2 DEF SweepApply, SweepSkip, SweepApplyFails, SweepAt, TypeOK
    <3> QED BY <1>7, <3>1, <3>2, <3>3 DEF TimeoutSweep
  <2> QED BY <1>2, <1>3, <2>1, <2>2, <2>3
<1>8. ASSUME NEW r \in Recons, Reconcile(r)
      PROVE  Quiet(p)' /\ status'[p] \in {status[p], "needs_review"}
  <2>1. UNCHANGED <<init, ipn, sweep>>
    BY <1>8 DEF Reconcile, ReconStart, ReconCompare, ReconSkip, ReconPark, ReconParkFails
  <2>2. status'[p] \in {status[p], "needs_review"}
    <3>1. ASSUME NEW q \in Payments, ReconPark(r, q) PROVE status'[p] \in {status[p], "needs_review"}
      BY <3>1, <1>4 DEF ReconPark
    <3> QED BY <1>8, <3>1 DEF Reconcile, ReconStart, ReconCompare, ReconSkip, ReconParkFails
  <2> QED BY <1>2, <1>3, <2>1, <2>2
<1>9. ASSUME Environment
      PROVE  Quiet(p)' /\ status'[p] \in {status[p], "needs_review"}
  <2>1. ASSUME Crash PROVE Quiet(p)' /\ status'[p] \in {status[p], "needs_review"}
    BY <2>1, <1>1, <1>3 DEF Crash, IdleInit, IdleIpn, IdleSweep
  <2>2. ASSUME ~Crash PROVE Quiet(p)' /\ status'[p] \in {status[p], "needs_review"}
    BY <1>9, <2>2, <1>2, <1>3 DEF Environment, ProviderDecides, RowAges
  <2> QED BY <2>1, <2>2
<1> QED BY <1>5, <1>6, <1>7, <1>8, <1>9 DEF Next

\* Once a row has left pending and no task that read it before is running, only
\* reconciliation ever writes it again (paymentService.ts:374).
THEOREM QuietRows == Spec => QuietRowsStayQuiet
<1>1. IInv /\ [Next]_vars => [QuietRowsKept]_vars
  <2>1. ASSUME IInv, Next PROVE QuietRowsKept
    BY <2>1, StepKeepsQuiet DEF QuietRowsKept
  <2> QED BY <2>1
<1> QED BY <1>1, Invariance, PTL DEF Spec, QuietRowsStayQuiet

-----------------------------------------------------------------------------
(* The handlers implement module Entitlement                               *)

Holds == {p \in Payments : Collected(p)}
PlanOf == [t \in Tenants |-> sub[t].plan]

\* A step that changes neither a request nor a plan nor the money collected.
LEMMA Unseen ==
  ASSUME UNCHANGED <<request, sub>>, \A p \in Payments : Collected(p)' <=> Collected(p)
  PROVE  UNCHANGED <<request, Holds, PlanOf>>
BY DEF Holds, PlanOf

\* The database transaction of a handler gives a tenant what a collected payment
\* was made for, or is not seen.
LEMMA WriteEntitles ==
  ASSUME TypeOK, RowFacts,
         NEW p \in Payments, NEW v, VerdictBacked(p, v), WriteStatus(p, v),
         UNCHANGED <<request, txnKnown, prov, amountOk>>
  PROVE  Promise!Entitle(p) \/ UNCHANGED <<request, Holds, PlanOf>>
<1>1. \A q \in Payments : Collected(q)' <=> Collected(q)
  BY DEF Collected
<1>2. Holds' = Holds
  BY <1>1 DEF Holds
<1>3. CASE v = "successful"
  <2>1. p \in Holds
    BY <1>3 DEF VerdictBacked, Holds
  <2>2. request[p].tenant \in Tenants
    BY DEF VerdictBacked, RowFacts, RowsExist, TypeOK
  <2>3. sub' = [sub EXCEPT ![request[p].tenant] = Activated(request[p].plan)]
    BY <1>3 DEF WriteStatus
  <2>4. PlanOf' = [PlanOf EXCEPT ![request[p].tenant] = request[p].plan]
    BY <2>2, <2>3 DEF PlanOf, Activated, TypeOK
  <2> QED BY <1>2, <2>1, <2>4 DEF Promise!Entitle, Holds, PlanOf
<1>4. CASE v # "successful"
  BY <1>1, <1>4, Unseen DEF WriteStatus, subVars
<1> QED BY <1>3, <1>4

LEMMA StepImplements ==
  ASSUME IInv, Next
  PROVE  Promise!Next \/ UNCHANGED <<request, Holds, PlanOf>>
<1> USE Parts DEF rowVars, provVars, subVars, taskVars
<1>1. ASSUME NEW n \in Initiators, Initiate(n)
      PROVE  Promise!Next \/ UNCHANGED <<request, Holds, PlanOf>>
  <2>1. ASSUME NEW p \in Payments, CreateRow(n, p) PROVE Promise!Order(p, init[n].request)
    BY <2>1 DEF CreateRow, Promise!Order, RowFacts, RowsExist, Collected
  <2>2. ASSUME NEW p \in Payments, CreateRow(n, p) PROVE Promise!Next
    <3>1. init[n].request \in Promise!Orders
      BY <2>2 DEF CreateRow, InitiatorsOwn, Promise!Orders
    <3> QED BY <2>1, <2>2, <3>1 DEF Promise!Next
  <2>3. ASSUME NEW reply \in {"id", "noid", "lost"}, CollectAccepted(n, reply)
        PROVE  UNCHANGED <<request, Holds, PlanOf>>
    <3>1. init[n].pay \in Payments /\ prov[init[n].pay] = "none"
      BY <2>3 DEF CollectAccepted, InitiatorsOwn
    <3>2. \A q \in Payments : Collected(q)' <=> Collected(q)
      BY <2>3, <3>1 DEF CollectAccepted, Collected, TypeOK
    <3> QED BY <2>3, <3>2, Unseen DEF CollectAccepted
  <2>4. ASSUME MarkFailed(n) PROVE Promise!Next \/ UNCHANGED <<request, Holds, PlanOf>>
    <3>1. init[n].pay \in Payments /\ VerdictBacked(init[n].pay, "failed")
      BY <2>4 DEF MarkFailed, InitiatorsOwn, VerdictBacked
    <3> QED BY <2>4, <3>1, WriteEntitles DEF MarkFailed, Promise!Next
  <2>5. ASSUME \/ \E t \in Tenants, k \in Plans : CheckNoPending(n, t, k)
               \/ CollectRefused(n) \/ StoreReplyId(n) \/ StoreReplyIdFails(n)
               \/ InitiateFails(n)
        PROVE  UNCHANGED <<request, Holds, PlanOf>>
    BY <2>5, Unseen DEF CheckNoPending, CollectRefused, StoreReplyId, StoreReplyIdFails,
                        InitiateFails, Collected
  <2> QED BY <1>1, <2>2, <2>3, <2>4, <2>5 DEF Initiate
<1>2. ASSUME NEW i \in Ipns, Webhook(i)
      PROVE  Promise!Next \/ UNCHANGED <<request, Holds, PlanOf>>
  <2>1. ASSUME IpnApply(i) PROVE Promise!Next \/ UNCHANGED <<request, Holds, PlanOf>>
    <3>1. ipn[i].pay \in Payments /\ VerdictBacked(ipn[i].pay, ipn[i].verdict)
      BY <2>1 DEF IpnApply, IpnsBacked, VerdictBacked
    <3> QED BY <2>1, <3>1, WriteEntitles DEF IpnApply, Promise!Next
  <2>2. ASSUME ~IpnApply(i) PROVE UNCHANGED <<request, Holds, PlanOf>>
    BY <1>2, <2>2, Unseen DEF Webhook, IpnLookup, IpnStoreId, IpnRequery, IpnGiveUp, Collected
  <2> QED BY <2>1, <2>2
<1>3. ASSUME NEW s \in Sweeps, TimeoutSweep(s)
      PROVE  Promise!Next \/ UNCHANGED <<request, Holds, PlanOf>>
  <2>1. ASSUME NEW p \in Payments, SweepApply(s, p)
        PROVE  Promise!Next \/ UNCHANGED <<request, Holds, PlanOf>>
    <3>1. VerdictBacked(p, sweep[s].verdict)
      BY <2>1, NoPaymentAssumption DEF SweepApply, SweepsBacked
    <3> QED BY <2>1, <3>1, WriteEntitles DEF SweepApply, Promise!Next
  <2>2. ASSUME ~\E p \in Payments : SweepApply(s, p) PROVE UNCHANGED <<request, Holds, PlanOf>>
    BY <1>3, <2>2, Unseen DEF TimeoutSweep, SweepStart, SweepRequery, SweepSkip, SweepApplyFails,
                              Collected
  <2> QED BY <2>1, <2>2
<1>4. ASSUME NEW r \in Recons, Reconcile(r)
      PROVE  UNCHANGED <<request, Holds, PlanOf>>
  <2>1. UNCHANGED <<request, sub, prov, amountOk>>
    BY <1>4 DEF Reconcile, ReconStart, ReconCompare, ReconSkip, ReconPark, ReconParkFails, WriteStatus
  <2> QED BY <2>1, Unseen DEF Collected
<1>5. ASSUME Environment PROVE Promise!Next \/ UNCHANGED <<request, Holds, PlanOf>>
  <2>1. ASSUME NEW p \in Payments, NEW outcome \in {"successful", "failed"},
               ProviderDecides(p, outcome)
        PROVE  Promise!Next \/ UNCHANGED <<request, Holds, PlanOf>>
    <3>1. UNCHANGED <<request, PlanOf>> /\ request[p] # NoRequest
      BY <2>1 DEF ProviderDecides, PlanOf, RowFacts, RowsExist
    <3>2. \A q \in Payments : q # p => (Collected(q)' <=> Collected(q))
      BY <2>1 DEF ProviderDecides, Collected, TypeOK
    <3>3. ~Collected(p)
      BY <2>1 DEF ProviderDecides, Collected
    <3>4. CASE Collected(p)'
      <4>1. Holds' = Holds \cup {p}
        BY <3>2, <3>4 DEF Holds
      <4>2. Promise!Collect(p)
        BY <3>1, <4>1 DEF Promise!Collect, Holds, PlanOf
      <4> QED BY <4>2 DEF Promise!Next
    <3>5. CASE ~Collected(p)'
      BY <3>1, <3>2, <3>3, <3>5 DEF Holds
    <3> QED BY <3>4, <3>5
  <2>2. ASSUME (\E p \in Payments : RowAges(p)) \/ Crash
        PROVE  UNCHANGED <<request, Holds, PlanOf>>
    BY <2>2, Unseen DEF RowAges, Crash, Collected
  <2> QED BY <1>5, <2>1, <2>2 DEF Environment
<1> QED BY <1>1, <1>2, <1>3, <1>4, <1>5 DEF Next

\* The payment handlers implement the promise: a tenant gets a plan only by a
\* payment of its own for that plan, and only after the money was collected.
THEOREM Implements == Spec => ImplementsEntitlement
<1>1. Init => Promise!Init
  BY DEF Init, Promise!Init, FreeSub, Collected
<1>2. IInv /\ [Next]_vars => [Promise!Next]_<<request, Holds, PlanOf>>
  <2>1. ASSUME UNCHANGED vars PROVE UNCHANGED <<request, Holds, PlanOf>>
    BY <2>1, Unseen DEF vars, rowVars, provVars, subVars, Collected
  <2> QED BY <2>1, StepImplements
<1> QED BY <1>1, <1>2, Invariance, PTL DEF Spec, ImplementsEntitlement, Promise!Spec, Holds, PlanOf

-----------------------------------------------------------------------------
(***************************************************************************)
(* Billing.  The invariant of the payments survives the two jobs, and no   *)
(* step but the settling of a collected payment ends grace mode.           *)
(***************************************************************************)

BillIInv == IInv /\ lapsed \subseteq Tenants /\ renewing \subseteq Tenants

\* A job that moves the status or the term of a subscription leaves what the payments
\* rely on alone.
LEMMA SubMoves ==
  ASSUME IInv, NEW t \in Tenants, NEW s \in {"active", "grace"}, NEW term \in Terms,
         SubAs(t, s, term), UNCHANGED <<rowVars, provVars, credits, taskVars, crashes>>
  PROVE  IInv' /\ (sub'[t].status = s /\ \A u \in Tenants : u # t => sub'[u] = sub[u])
<1> USE Parts DEF rowVars, provVars, taskVars
<1> DEFINE S == [plan : Plans \cup {"free"}, status : {"active", "grace"}, term : Terms]
           r == [plan |-> sub[t].plan, status |-> s, term |-> term]
<1>1. sub \in [Tenants -> S] /\ r \in S /\ r.plan = sub[t].plan /\ r.status = s
  BY DEF TypeOK
<1>2. sub' = [sub EXCEPT ![t] = r]
  BY DEF SubAs
<1> HIDE DEF r
<1>3. /\ sub'[t] = r /\ sub' \in [Tenants -> S]
      /\ \A u \in Tenants : u # t => sub'[u] = sub[u]
  BY <1>1, <1>2
<1>4. \A u \in Tenants : sub'[u].plan = sub[u].plan
  BY <1>1, <1>3
<1>5. TypeOK'
  BY <1>3 DEF TypeOK
<1>6. Monotone
  BY DEF Monotone, Collected
<1>7. RowFacts'
  <2>1. RowFacts
    OBVIOUS
  <2>2. PlanIsPaidFor'
    BY <1>4, <2>1 DEF RowFacts, PlanIsPaidFor
  <2>3. RowsExist' /\ IdsAreReal' /\ SettledIsBacked' /\ UnverifiableNeverSettles'
    BY <2>1 DEF RowFacts, RowsExist, IdsAreReal, SettledIsBacked, UnverifiableNeverSettles, Collected
  <2> QED BY <2>1, <2>2, <2>3, <1>3 DEF RowFacts
<1>8. InitiatorsOwn'
  BY <1>6, InitiatorsKeep
<1>9. IpnsBacked' /\ SweepsBacked' /\ ReconsBacked'
  BY <1>6, TasksKeep
<1> QED BY <1>1, <1>3, <1>5, <1>7, <1>8, <1>9, PartsNext

\* A step of a handler changes subscriptions only by the write that settles a payment
\* whose money is at the provider.
Settles == \E p \in Payments : /\ WriteStatus(p, "successful") /\ VerdictBacked(p, "successful")
                               /\ UNCHANGED <<request, prov, amountOk>>

LEMMA WriteSettles ==
  ASSUME NEW p \in Payments, NEW v, WriteStatus(p, v), VerdictBacked(p, v),
         UNCHANGED <<request, prov, amountOk>>
  PROVE  sub' = sub \/ Settles
<1>1. CASE v = "successful"
  BY <1>1 DEF Settles
<1>2. CASE v # "successful"
  BY <1>2 DEF WriteStatus, subVars
<1> QED BY <1>1, <1>2

LEMMA HandlersSettle ==
  ASSUME IInv, PaymentStep
  PROVE  sub' = sub \/ Settles
<1> USE Parts DEF rowVars, provVars, subVars, taskVars
<1>1. ASSUME NEW n \in Initiators, Initiate(n) PROVE sub' = sub \/ Settles
  <2>1. CASE MarkFailed(n)
    BY <2>1 DEF MarkFailed, WriteStatus
  <2>2. CASE ~MarkFailed(n)
    BY <1>1, <2>2 DEF Initiate, CheckNoPending, CreateRow, CollectAccepted, CollectRefused,
                      StoreReplyId, StoreReplyIdFails, InitiateFails
  <2> QED BY <2>1, <2>2
<1>2. ASSUME NEW i \in Ipns, Webhook(i) PROVE sub' = sub \/ Settles
  <2>1. CASE IpnApply(i)
    <3>1. VerdictBacked(ipn[i].pay, ipn[i].verdict) /\ ipn[i].pay \in Payments
      BY <2>1 DEF IpnApply, IpnsBacked, VerdictBacked
    <3> QED BY <2>1, <3>1, WriteSettles DEF IpnApply
  <2>2. CASE ~IpnApply(i)
    BY <1>2, <2>2 DEF Webhook, IpnLookup, IpnStoreId, IpnRequery, IpnGiveUp
  <2> QED BY <2>1, <2>2
<1>3. ASSUME NEW s \in Sweeps, TimeoutSweep(s) PROVE sub' = sub \/ Settles
  <2>1. ASSUME NEW p \in Payments, SweepApply(s, p) PROVE sub' = sub \/ Settles
    <3>1. VerdictBacked(p, sweep[s].verdict)
      BY <2>1, NoPaymentAssumption DEF SweepApply, SweepsBacked
    <3> QED BY <2>1, <3>1, WriteSettles DEF SweepApply
  <2>2. CASE ~\E p \in Payments : SweepApply(s, p)
    BY <1>3, <2>2 DEF TimeoutSweep, SweepStart, SweepRequery, SweepSkip, SweepApplyFails
  <2> QED BY <2>1, <2>2
<1>4. ASSUME NEW p \in Payments, RowAges(p) \/ \E outcome \in {"successful", "failed"} : ProviderDecides(p, outcome)
      PROVE  sub' = sub \/ Settles
  BY <1>4 DEF RowAges, ProviderDecides
<1>5. ASSUME NEW r \in Recons, Reconcile(r) PROVE sub' = sub
  BY <1>5 DEF Reconcile, ReconStart, ReconCompare, ReconSkip, ReconPark, ReconParkFails, WriteStatus
<1> QED BY <1>1, <1>2, <1>3, <1>4, <1>5 DEF PaymentStep

LEMMA PaymentStepKeeps ==
  ASSUME BillIInv, PaymentStep
  PROVE  BillIInv'
<1>1. IInv'
  BY InitiateKeeps, WebhookKeeps, SweepKeeps, ReconcileKeeps, EnvironmentKeeps DEF PaymentStep, Environment, BillIInv
<1> QED BY <1>1 DEF BillIInv, PaymentStep, jobVars

LEMMA BillCrashKeeps ==
  ASSUME BillIInv, BillCrash
  PROVE  BillIInv'
BY EnvironmentKeeps DEF BillCrash, Environment, BillIInv

LEMMA TermPassesKeeps ==
  ASSUME BillIInv, NEW t \in Tenants, TermPasses(t)
  PROVE  BillIInv' /\ GraceEnds
<1> DEFINE term == IF sub[t].term = "fresh" THEN "due" ELSE "expired"
<1>1. sub[t].status \in {"active", "grace"} /\ term \in Terms
  BY DEF BillIInv, IInv, TypeOK, Terms
<1>2. IInv' /\ sub'[t].status = sub[t].status /\ \A u \in Tenants : u # t => sub'[u] = sub[u]
  BY <1>1, SubMoves DEF TermPasses, BillIInv
<1>3. BillIInv'
  BY <1>2 DEF TermPasses, BillIInv, jobVars
<1>4. GraceEnds
  BY <1>2 DEF GraceEnds
<1> QED BY <1>3, <1>4

LEMMA LapseApplyKeeps ==
  ASSUME BillIInv, NEW t \in Tenants, LapseApply(t)
  PROVE  BillIInv' /\ GraceEnds
<1>1. sub[t].term \in Terms
  BY DEF BillIInv, IInv, TypeOK
<1>2. IInv' /\ sub'[t].status = "grace" /\ \A u \in Tenants : u # t => sub'[u] = sub[u]
  BY <1>1, SubMoves DEF LapseApply, BillIInv
<1>3. BillIInv'
  BY <1>2 DEF LapseApply, BillIInv
<1>4. GraceEnds
  BY <1>2 DEF GraceEnds
<1> QED BY <1>3, <1>4

\* The renewal of one tenant is the start of an initiation, or nothing.
LEMMA RenewKeeps ==
  ASSUME BillIInv, NEW n \in Initiators, NEW t \in Tenants, RenewTenant(n, t)
  PROVE  BillIInv' /\ sub' = sub
<1>1. lapsed' \subseteq Tenants /\ renewing' \subseteq Tenants
  BY DEF RenewTenant, BillIInv
<1>2. CASE Paid(t) /\ ~HasPending(t)
  <2>1. sub[t].plan \in Plans
    BY <1>2 DEF Paid, BillIInv, IInv, TypeOK
  <2>2. Initiate(n) /\ sub' = sub
    BY <1>2, <2>1 DEF RenewTenant, Initiate, CheckNoPending, subVars
  <2> QED BY <1>1, <2>2, InitiateKeeps DEF BillIInv
<1>3. CASE ~(Paid(t) /\ ~HasPending(t))
  <2>1. UNCHANGED vars
    BY <1>3 DEF RenewTenant
  <2>2. sub' = sub
    BY <2>1 DEF vars, subVars
  <2> QED BY <1>1, <2>1, <2>2, StutterKeeps DEF BillIInv
<1> QED BY <1>2, <1>3

\* Reading a list, or failing on one of its tenants, changes the list alone.
LEMMA ListsKeep ==
  ASSUME BillIInv, UNCHANGED vars, lapsed' \subseteq Tenants, renewing' \subseteq Tenants
  PROVE  BillIInv' /\ sub' = sub
<1>1. IInv' /\ sub' = sub
  BY StutterKeeps DEF BillIInv, vars, subVars
<1> QED BY <1>1 DEF BillIInv

LEMMA BillStep == BillIInv /\ [BillNext]_billVars => BillIInv' /\ [GraceEnds]_billVars
<1> SUFFICES ASSUME BillIInv, [BillNext]_billVars PROVE BillIInv' /\ [GraceEnds]_billVars
  OBVIOUS
<1>a. sub' = sub => GraceEnds
  BY DEF GraceEnds
<1>1. CASE PaymentStep
  <2>1. Settles => GraceEnds
    <3> SUFFICES ASSUME NEW p \in Payments, WriteStatus(p, "successful"), VerdictBacked(p, "successful"),
                        UNCHANGED <<request, prov, amountOk>>,
                        NEW t \in Tenants, sub[t].status = "grace", sub'[t].status = "active"
                 PROVE  request[p].tenant = t /\ Collected(p) /\ status'[p] = "successful"
      BY DEF Settles, GraceEnds
    <3>1. Collected(p)
      BY DEF VerdictBacked
    <3>2. status'[p] = "successful"
      BY DEF WriteStatus, BillIInv, IInv, TypeOK
    <3>3. sub' = [sub EXCEPT ![request[p].tenant] = Activated(request[p].plan)]
      BY DEF WriteStatus
    <3>4. request[p].tenant = t
      BY <3>3 DEF BillIInv, IInv, TypeOK
    <3> QED BY <3>1, <3>2, <3>4
  <2> QED BY <1>1, <1>a, <2>1, HandlersSettle, PaymentStepKeeps DEF BillIInv
<1>2. CASE BillCrash
  BY <1>2, <1>a, BillCrashKeeps DEF BillCrash, Crash, subVars
<1>3. CASE LapseScan \/ RenewScan
  BY <1>3, <1>a, ListsKeep DEF LapseScan, RenewScan, BillIInv
<1>4. ASSUME NEW t \in Tenants, LapseFails(t) PROVE BillIInv' /\ GraceEnds
  BY <1>4, <1>a, ListsKeep DEF LapseFails, BillIInv
<1>5. ASSUME NEW t \in Tenants, NEW n \in Initiators, RenewTenant(n, t) PROVE BillIInv' /\ GraceEnds
  BY <1>5, <1>a, RenewKeeps
<1>6. CASE UNCHANGED billVars
  BY <1>6, ListsKeep DEF billVars, jobVars, BillIInv
<1> QED
  BY <1>1, <1>2, <1>3, <1>4, <1>5, <1>6, TermPassesKeeps, LapseApplyKeeps DEF BillNext

LEMMA BillInvariant == BillSpec => []BillIInv
<1>1. BillInit => BillIInv
  BY InitHolds DEF BillInit, BillIInv
<1> QED BY <1>1, BillStep, PTL DEF BillSpec

\* The rows, the subscriptions and the lists of the jobs keep their types.
THEOREM BillTypeCorrect == BillSpec => []BillTypeOK
<1>1. BillIInv => BillTypeOK
  BY DEF BillIInv, IInv, BillTypeOK
<1> QED BY <1>1, BillInvariant, PTL

\* Grace mode ends only by money, whatever the two jobs and the handlers of payments do
\* in whichever order (applySettledPayment; reportService.ts:158-178).
THEOREM OnlyMoneyEndsGrace == BillSpec => GraceEndsByPayment
BY BillInvariant, BillStep, PTL DEF BillSpec, GraceEndsByPayment

(* The invariants of the payments hold with the jobs beside them: money backs every         *)
(* activation, a plan is one the tenant paid for, and an unverifiable row is not settled.   *)
THEOREM JobsKeepMoneyTrue ==
  BillSpec => [](SettledIsBacked /\ PlanIsPaidFor /\ UnverifiableNeverSettles)
<1>1. BillIInv => SettledIsBacked /\ PlanIsPaidFor /\ UnverifiableNeverSettles
  BY DEF BillIInv, IInv, RowFacts
<1> QED BY <1>1, BillInvariant, PTL

\* A job that moves the status or the term of a subscription gives nobody a plan.
LEMMA TermsAreUnseen ==
  ASSUME TypeOK, NEW t \in Tenants, NEW s, NEW term, SubAs(t, s, term), UNCHANGED <<rowVars, provVars>>
  PROVE  UNCHANGED <<request, Holds, PlanOf>>
<1>1. \A u \in Tenants : sub'[u].plan = sub[u].plan
  BY DEF TypeOK, SubAs
<1>2. UNCHANGED <<request, prov, amountOk>>
  BY DEF rowVars, provVars
<1> QED BY <1>1, <1>2 DEF Holds, PlanOf, Collected

LEMMA BillStepImplements ==
  ASSUME BillIInv, [BillNext]_billVars
  PROVE  Promise!Next \/ UNCHANGED <<request, Holds, PlanOf>>
<1>1. IInv /\ TypeOK
  BY DEF BillIInv, IInv
<1>2. UNCHANGED vars => UNCHANGED <<request, Holds, PlanOf>>
  BY Unseen DEF vars, rowVars, provVars, subVars, Collected
<1>3. CASE PaymentStep \/ BillCrash
  BY <1>1, <1>3, StepImplements DEF PaymentStep, BillCrash, Next, Environment
<1>4. CASE LapseScan \/ RenewScan \/ UNCHANGED billVars
  BY <1>2, <1>4 DEF LapseScan, RenewScan, billVars
<1>5. ASSUME NEW t \in Tenants, TermPasses(t) \/ LapseApply(t)
      PROVE  UNCHANGED <<request, Holds, PlanOf>>
  BY <1>1, <1>5, TermsAreUnseen DEF TermPasses, LapseApply
<1>6. ASSUME NEW t \in Tenants, LapseFails(t) PROVE UNCHANGED <<request, Holds, PlanOf>>
  BY <1>2, <1>6 DEF LapseFails
<1>7. ASSUME NEW t \in Tenants, NEW n \in Initiators, RenewTenant(n, t)
      PROVE  Promise!Next \/ UNCHANGED <<request, Holds, PlanOf>>
  <2>1. CASE Paid(t) /\ ~HasPending(t)
    <3>1. sub[t].plan \in Plans
      BY <1>1, <2>1 DEF Paid, TypeOK
    <3>2. Next
      BY <1>7, <2>1, <3>1 DEF RenewTenant, Initiate, Next
    <3> QED BY <1>1, <3>2, StepImplements
  <2>2. CASE ~(Paid(t) /\ ~HasPending(t))
    BY <1>2, <1>7, <2>2 DEF RenewTenant
  <2> QED BY <2>1, <2>2
<1> QED BY <1>3, <1>4, <1>5, <1>6, <1>7 DEF BillNext

\* With the renewals, the grace mode and the passing of terms around them, the handlers
\* still implement the promise: no job gives a tenant a plan, and none takes money.
THEOREM BillingImplements == BillSpec => ImplementsEntitlement
<1>1. BillInit => Promise!Init
  BY DEF BillInit, Init, Promise!Init, FreeSub, Collected
<1>2. BillIInv /\ [BillNext]_billVars => [Promise!Next]_<<request, Holds, PlanOf>>
  BY BillStepImplements
<1> QED BY <1>1, <1>2, BillInvariant, PTL DEF BillSpec, ImplementsEntitlement, Promise!Spec, Holds, PlanOf

=============================================================================
