------------------------------ MODULE PosQueue ------------------------------
(***************************************************************************)
(* The offline queue of the point of sale against the server of module     *)
(* Sales.  A charge puts a record in the device's IndexedDB; each open tab *)
(* drains the queued records to POST /api/v1/sales with the record's id as *)
(* idempotency key.  The drain is single-flight within a tab, but the tabs *)
(* of a device share the store and work from their own snapshots of it.    *)
(* The network may lose a request or its answer, a tab may close at any    *)
(* point, and the owner may retry, edit or discard a sale shown as failed. *)
(***************************************************************************)
EXTENDS Sales

CONSTANTS
  Tabs,         \* tabs of the device with the point of sale open
  NoTab,        \* "no tab"
  NoHandler,    \* "no request"
  NetError,     \* where the browser's network error message puts a record:
                \* "queued" if it names fetch or network, otherwise "failed"
  MaxCloses,    \* bound on the tabs that are closed or killed
  MaxOutages    \* bound on the times the device goes offline

ASSUME TabAssumption == NoTab \notin Tabs /\ NoHandler \notin Handlers
ASSUME DeviceAssumption == MaxCloses \in Nat /\ MaxOutages \in Nat
ASSUME NetErrorAssumption == NetError \in {"queued", "failed"}

VARIABLES
  rec,        \* key -> the record in IndexedDB
  charged,    \* key -> what the owner charged under it, NoLines before that
  saving,     \* key -> tab whose put of the record has not happened yet
  retried,    \* keys whose pending put is that of a retry
  dropped,    \* keys the owner discarded, or took back into the cart
  tab,        \* tab -> its drain
  online,     \* navigator.onLine
  closes, outages

deviceVars == <<rec, charged, saving, retried, dropped, tab, online, closes, outages>>
posVars    == <<salesVars, deviceVars>>

Absent == [status |-> "none", cart |-> NoLines]
DrainAt(pc, todo, k, h) == [pc |-> pc, todo |-> todo, key |-> k, conn |-> h]
Idle   == DrainAt("idle", {}, NoKey, NoHandler)

PosTypeOK ==
  /\ SalesTypeOK
  /\ rec \in [Keys -> [status : {"none", "queued", "draining", "failed"},
                       cart : Carts \cup {NoLines}]]
  /\ charged \in [Keys -> Carts \cup {NoLines}]
  /\ saving \in [Keys -> Tabs \cup {NoTab}]
  /\ retried \subseteq Keys
  /\ dropped \subseteq Keys
  /\ tab \in [Tabs -> [pc : {"idle", "snapshot", "next", "send", "wait"},
                       todo : SUBSET Keys,
                       key : Keys \cup {NoKey},
                       conn : Handlers \cup {NoHandler}]]
  /\ online \in BOOLEAN
  /\ closes \in 0..MaxCloses
  /\ outages \in 0..MaxOutages

PosInit ==
  /\ SalesInit
  /\ rec = [k \in Keys |-> Absent]
  /\ charged = [k \in Keys |-> NoLines]
  /\ saving = [k \in Keys |-> NoTab]
  /\ retried = {}
  /\ dropped = {}
  /\ tab = [t \in Tabs |-> Idle]
  /\ online = TRUE
  /\ closes = 0
  /\ outages = 0

Charged(k) == charged[k] # NoLines

\* store.put writes the whole record of the snapshot: the cart never changes.
Put(k, status) == rec' = [rec EXCEPT ![k] = [status |-> status, cart |-> charged[k]]]
Delete(k) == rec' = [rec EXCEPT ![k] = Absent]

Saving(t) == {k \in Keys : saving[k] = t}

\* drainQueue is called: unless this tab is draining already, it will take a
\* snapshot, after the puts this tab has started before.
Woken(t, puts) ==
  IF tab[t] = Idle THEN DrainAt("snapshot", puts, NoKey, NoHandler) ELSE tab[t]

-----------------------------------------------------------------------------
(* The owner                                                               *)

\* handleCharge: a new id, an asynchronous put, and a drain if online.
Charge(t, k, c) ==
  /\ ~Charged(k)
  /\ charged' = [charged EXCEPT ![k] = c]
  /\ saving' = [saving EXCEPT ![k] = t]
  /\ tab' = [tab EXCEPT ![t] = IF online THEN Woken(t, Saving(t) \cup {k}) ELSE tab[t]]
  /\ UNCHANGED <<rec, retried, dropped, online, closes, outages, salesVars>>

\* enqueue: the put of a charge or of a retry, which drains only after it.
Enqueue(k) ==
  /\ saving[k] # NoTab
  /\ Put(k, "queued")
  /\ saving' = [saving EXCEPT ![k] = NoTab]
  /\ retried' = retried \ {k}
  /\ tab' = [t \in Tabs |->
       IF tab[t].pc = "snapshot" THEN DrainAt("snapshot", tab[t].todo \ {k}, NoKey, NoHandler)
       ELSE IF k \in retried /\ saving[k] = t /\ online THEN Woken(t, Saving(t) \ {k})
       ELSE tab[t]]
  /\ UNCHANGED <<charged, dropped, online, closes, outages, salesVars>>

\* handleRetryFailed: the record is removed, and put again by a later step.
Retry(t, k) ==
  /\ rec[k].status = "failed"
  /\ saving[k] = NoTab
  /\ Delete(k)
  /\ saving' = [saving EXCEPT ![k] = t]
  /\ retried' = retried \cup {k}
  /\ UNCHANGED <<charged, dropped, tab, online, closes, outages, salesVars>>

\* handleDiscardFailed, handleEditFailed: the record is removed; what is edited
\* will be charged under a new id.
Drop(k) ==
  /\ rec[k].status = "failed"
  /\ Delete(k)
  /\ dropped' = dropped \cup {k}
  /\ UNCHANGED <<charged, saving, retried, tab, online, closes, outages, salesVars>>

-----------------------------------------------------------------------------
(* drainQueue                                                              *)

Pending == {k \in Keys : rec[k].status = "queued"}

Snapshot(t) ==
  /\ tab[t].pc = "snapshot"
  /\ tab[t].todo = {}
  /\ tab' = [tab EXCEPT ![t] = DrainAt("next", Pending, NoKey, NoHandler)]
  /\ UNCHANGED <<rec, charged, saving, retried, dropped, online, closes, outages, salesVars>>

\* The next record of the snapshot, in the order of the random ids, is put
\* as "draining", whatever has become of it since.
TakeNext(t, k) ==
  /\ tab[t].pc = "next"
  /\ k \in tab[t].todo
  /\ Put(k, "draining")
  /\ tab' = [tab EXCEPT ![t] = DrainAt("send", tab[t].todo \ {k}, k, NoHandler)]
  /\ UNCHANGED <<charged, saving, retried, dropped, online, closes, outages, salesVars>>

DrainEnds(t) ==
  /\ tab[t].pc = "next"
  /\ tab[t].todo = {}
  /\ tab' = [tab EXCEPT ![t] = Idle]
  /\ UNCHANGED <<rec, charged, saving, retried, dropped, online, closes, outages, salesVars>>

\* fetch reaches the server.
Send(t, h) ==
  /\ tab[t].pc = "send"
  /\ online
  /\ PostSale(h, tab[t].key, charged[tab[t].key])
  /\ tab' = [tab EXCEPT ![t] = DrainAt("wait", tab[t].todo, tab[t].key, h)]
  /\ UNCHANGED <<rec, charged, saving, retried, dropped, online, closes, outages>>

Onwards(t) == tab' = [tab EXCEPT ![t] = DrainAt("next", tab[t].todo, NoKey, NoHandler)]

\* Mutant: a 5xx counts as an answer like any other.
SettleAnswerAny(k, reply) == IF reply = "nostock" THEN Put(k, "failed") ELSE Delete(k)

\* Mutant: a 5xx leaves the record draining.
SettleAnswerLeaves(k, reply) ==
  CASE reply \in {"created", "replayed"} -> Delete(k)
    [] reply = "nostock" -> Put(k, "failed")
    [] reply = "error"   -> UNCHANGED rec

\* 2xx: recorded, the record is deleted; 422: failed; 5xx: queued again.
SettleAnswer(k, reply) ==
  CASE reply \in {"created", "replayed"} -> Delete(k)
    [] reply = "nostock" -> Put(k, "failed")
    [] reply = "error"   -> Put(k, "queued")

GetAnswer(t) ==
  /\ tab[t].pc = "wait"
  /\ handler[tab[t].conn].pc = "done"
  /\ SettleAnswer(tab[t].key, handler[tab[t].conn].reply)
  /\ Onwards(t)
  /\ handler' = [handler EXCEPT ![tab[t].conn] = Resting]
  /\ UNCHANGED <<bookVars, charged, saving, retried, dropped, online, closes, outages>>

\* Refused before the sale is looked at: 401, 429, a 400 or grace mode's 422.
GetRefusal(t) ==
  /\ tab[t].pc = "send"
  /\ online
  /\ Put(tab[t].key, "failed")
  /\ Onwards(t)
  /\ UNCHANGED <<charged, saving, retried, dropped, online, closes, outages, salesVars>>

\* fetch throws: the request never arrived, or its answer never does and the
\* server goes on with it.
NetworkFails(t) ==
  /\ tab[t].pc \in {"send", "wait"}
  /\ Put(tab[t].key, NetError)
  /\ Onwards(t)
  /\ UNCHANGED <<charged, saving, retried, dropped, online, closes, outages, salesVars>>

\* A request that no tab waits for any more ends.
Unattended(h) ==
  /\ \A t \in Tabs : tab[t].conn # h
  /\ Finish(h)
  /\ UNCHANGED deviceVars

-----------------------------------------------------------------------------
(* The device                                                              *)

GoOffline ==
  /\ online
  /\ outages < MaxOutages
  /\ outages' = outages + 1
  /\ online' = FALSE
  /\ UNCHANGED <<rec, charged, saving, retried, dropped, tab, closes, salesVars>>

\* The "online" event drains in every tab.
GoOnline ==
  /\ ~online
  /\ online' = TRUE
  /\ tab' = [t \in Tabs |-> Woken(t, Saving(t))]
  /\ UNCHANGED <<rec, charged, saving, retried, dropped, closes, outages, salesVars>>

\* A tab is closed, reloaded or killed and opened again: its puts and its drain
\* are gone, and mounting the page drains if online.
Reopen(t) ==
  /\ closes < MaxCloses
  /\ closes' = closes + 1
  /\ saving' = [k \in Keys |-> IF saving[k] = t THEN NoTab ELSE saving[k]]
  /\ retried' = retried \ Saving(t)
  /\ tab' = [tab EXCEPT ![t] = IF online THEN DrainAt("snapshot", {}, NoKey, NoHandler) ELSE Idle]
  /\ UNCHANGED <<rec, charged, dropped, online, outages, salesVars>>

\* The page is opened again from another page of the app: it drains if online.
Mount(t) ==
  /\ online
  /\ tab[t] = Idle
  /\ tab' = [tab EXCEPT ![t] = Woken(t, Saving(t))]
  /\ UNCHANGED <<rec, charged, saving, retried, dropped, online, closes, outages, salesVars>>

Drain(t) ==
  \/ Snapshot(t)
  \/ \E k \in Keys : TakeNext(t, k)
  \/ DrainEnds(t)
  \/ \E h \in Handlers : Send(t, h)
  \/ GetAnswer(t)
  \/ GetRefusal(t)
  \/ NetworkFails(t)

ServerStep ==
  /\ \/ \E h \in Handlers : RecordStep(h)
     \/ \E i \in Items, d \in Deltas : Purchase(i, d)
     \/ \E k \in Keys : PurgeKey(k)
  /\ UNCHANGED deviceVars

\* The server restarts: every fetch that waits fails.
Restart ==
  /\ ServerCrash
  /\ rec' = [k \in Keys |-> IF \E t \in Tabs : tab[t].pc = "wait" /\ tab[t].key = k
                            THEN [status |-> NetError, cart |-> charged[k]] ELSE rec[k]]
  /\ tab' = [t \in Tabs |-> IF tab[t].pc = "wait"
                            THEN DrainAt("next", tab[t].todo, NoKey, NoHandler)
                            ELSE tab[t]]
  /\ UNCHANGED <<charged, saving, retried, dropped, online, closes, outages>>

PosNext ==
  \/ \E t \in Tabs :
       \/ \E k \in Keys : Retry(t, k) \/ \E c \in Carts : Charge(t, k, c)
       \/ Drain(t)
       \/ Mount(t)
       \/ Reopen(t)
  \/ \E k \in Keys : Enqueue(k) \/ Drop(k)
  \/ \E h \in Handlers : Unattended(h)
  \/ ServerStep
  \/ Restart
  \/ GoOffline
  \/ GoOnline

PosSpec == PosInit /\ [][PosNext]_posVars

-----------------------------------------------------------------------------
(* Fairness: the tabs and the server run, a lost connection comes back, the *)
(* point of sale is opened again and again, as a till is, and from some    *)
(* time on requests and answers get through and no transaction fails.      *)

Trouble ==
  \/ \E t \in Tabs : NetworkFails(t)
  \/ \E h \in Handlers : SaleFails(h)
  \/ Restart

PosFairness ==
  /\ <>[][~Trouble]_posVars
  /\ WF_posVars(GoOnline)
  /\ \A k \in Keys : WF_posVars(Enqueue(k))
  /\ \A t \in Tabs : WF_posVars(Mount(t)) /\ WF_posVars(Drain(t))
  /\ \A h \in Handlers : /\ WF_posVars(Unattended(h))
                         /\ WF_posVars(RecordStep(h) /\ UNCHANGED deviceVars)

FairPosSpec == PosSpec /\ PosFairness

-----------------------------------------------------------------------------
(* Properties                                                              *)

RecordedUnder(k) == \E s \in SaleIds : Recorded(s) /\ sale[s].key = k

\* What is recorded under a key is what the owner charged under it, once, however
\* many tabs send it, as long as the key row is kept (rule-amendments.md:51,
\* "replays return the cached response").
RecordedAsCharged ==
  /\ OneSalePerKey
  /\ \A s \in SaleIds : Recorded(s) => sale[s].cart = charged[sale[s].key]

\* A drain takes a sale off the device only when the server has it: whatever the
\* network and the other tabs do, a step that deletes a record is the owner's
\* own or finds the sale recorded (useOfflineQueue.ts:141).
Deletions ==
  \A k \in Keys : rec[k].status # "none" /\ rec'[k].status = "none" =>
    RecordedUnder(k) \/ k \in dropped' \/ saving'[k] # NoTab
DeletedOnlyIfRecorded == [][Deletions]_posVars

\* A charged sale is recorded, or the owner sees that it failed: no interleaving
\* of drains, lost answers, refusals and the other tab's writes leaves it on the
\* device for ever, as long as no tab is closed.
ChargeSettles ==
  \A k \in Keys : Charged(k) ~> RecordedUnder(k) \/ rec[k].status = "failed" \/ k \in dropped

-----------------------------------------------------------------------------
(* What the repository says and the code does not do                       *)

\* "queue survives reload/restart; background sync on reconnect"
\* (docs/BUILD-PLAYBOOK-v2.md:378): what is stored is sent in the end, also after
\* a restart.
StoredIsSent ==
  \A k \in Keys : rec[k].status \in {"queued", "draining"} ~>
                    rec[k].status \notin {"queued", "draining"}
=============================================================================
