--------------------------- MODULE PosQueueProofs ---------------------------
(***************************************************************************)
(* Proofs about module PosQueue, for any number of tabs, charges, requests *)
(* and outages, on top of the invariant of the books (SalesIInv).          *)
(*                                                                         *)
(* A cart travels from the owner's charge through the store, a drain and a *)
(* request into the books, and any of them may be out of date.  What keeps *)
(* it the same cart is that a key is charged once: every record, request   *)
(* and sale of a key carries what was charged under it (RequestsCharged,   *)
(* SalesCharged), and the answer a tab acts on is that of its own key      *)
(* (Attended).                                                             *)
(***************************************************************************)
EXTENDS PosQueue, SalesProofs

USE TabAssumption, DeviceAssumption, NetErrorAssumption

TabPcs == {"idle", "snapshot", "next", "send", "wait"}
TabStates == [pc : TabPcs, todo : SUBSET Keys, key : Keys \cup {NoKey}, conn : Handlers \cup {NoHandler}]
RecStates == [status : {"none", "queued", "draining", "failed"}, cart : Carts \cup {NoLines}]
Busy == {"lookup", "check", "insert", "reread"}

DeviceType ==
  /\ rec \in [Keys -> RecStates]
  /\ charged \in [Keys -> Carts \cup {NoLines}]
  /\ saving \in [Keys -> Tabs \cup {NoTab}]
  /\ retried \subseteq Keys /\ dropped \subseteq Keys
  /\ tab \in [Tabs -> TabStates]
  /\ online \in BOOLEAN /\ closes \in 0..MaxCloses /\ outages \in 0..MaxOutages

\* What is on the device was charged.
OnDevice == \A k \in Keys : rec[k].status # "none" \/ saving[k] # NoTab => Charged(k)

\* What a drain is about to send was charged.
DrainsCharged ==
  \A t \in Tabs :
    /\ tab[t].pc \in {"next", "send", "wait"} => \A k \in tab[t].todo : Charged(k)
    /\ tab[t].pc \in {"send", "wait"} => tab[t].key \in Keys /\ Charged(tab[t].key)

\* A tab waits for a request of its own, made under its key.
Attended ==
  /\ \A t \in Tabs :
       IF tab[t].pc = "wait"
       THEN /\ tab[t].conn \in Handlers
            /\ handler[tab[t].conn].pc # "idle" /\ handler[tab[t].conn].key = tab[t].key
       ELSE tab[t].conn = NoHandler
  /\ \A t, u \in Tabs : t # u /\ tab[t].pc = "wait" /\ tab[u].pc = "wait" => tab[t].conn # tab[u].conn

\* A request carries what was charged under its key, and ends with an answer.
RequestsCharged ==
  \A h \in Handlers :
    /\ handler[h].pc \in Busy => handler[h].key \in Keys /\ handler[h].cart = charged[handler[h].key]
    /\ handler[h].pc \notin {"cancel", "adjust"}
    /\ handler[h].pc = "done" => handler[h].reply # "none"

\* A recorded sale is what was charged under its key.
SalesCharged ==
  \A s \in SaleIds : Recorded(s) => sale[s].key \in Keys /\ sale[s].cart = charged[sale[s].key]

PosIInv ==
  /\ SalesIInv /\ DeviceType
  /\ OnDevice /\ DrainsCharged /\ Attended /\ RequestsCharged /\ SalesCharged

-----------------------------------------------------------------------------
(* What the steps have in common.                                          *)

LEMMA CartsTakeSomething == \A c \in Carts : c # NoLines
BY CartAssumption

LEMMA DrainAtIs ==
  ASSUME NEW pc \in TabPcs, NEW u \in SUBSET Keys, NEW k \in Keys \cup {NoKey},
         NEW h \in Handlers \cup {NoHandler}
  PROVE  /\ DrainAt(pc, u, k, h) \in TabStates
         /\ DrainAt(pc, u, k, h).pc = pc /\ DrainAt(pc, u, k, h).todo = u
         /\ DrainAt(pc, u, k, h).key = k /\ DrainAt(pc, u, k, h).conn = h
BY DEF DrainAt, TabStates

LEMMA IdleIs == Idle \in TabStates /\ Idle.pc = "idle" /\ Idle.conn = NoHandler
<1>1. Idle = DrainAt("idle", {}, NoKey, NoHandler) /\ "idle" \in TabPcs /\ {} \in SUBSET Keys
  BY DEF Idle, TabPcs
<1> QED BY <1>1, DrainAtIs

\* One tab moves.
LEMMA TabMoves ==
  ASSUME DeviceType, NEW t \in Tabs, NEW r \in TabStates, tab' = [tab EXCEPT ![t] = r]
  PROVE  /\ tab'[t] = r /\ tab' \in [Tabs -> TabStates]
         /\ \A u \in Tabs : u # t => tab'[u] = tab[u]
BY DEF DeviceType

\* A record is put or deleted.
LEMMA PutIs ==
  ASSUME DeviceType, NEW k \in Keys, NEW st \in {"queued", "draining", "failed"}, Put(k, st)
  PROVE  /\ rec' \in [Keys -> RecStates] /\ rec'[k].status = st
         /\ \A j \in Keys : j # k => rec'[j] = rec[j]
<1> DEFINE r == [status |-> st, cart |-> charged[k]]
<1>1. r \in RecStates /\ r.status = st
  BY DEF DeviceType, RecStates
<1>2. rec' = [rec EXCEPT ![k] = r] /\ rec \in [Keys -> RecStates]
  BY DEF Put, DeviceType
<1> HIDE DEF r
<1> QED BY <1>1, <1>2

LEMMA DeleteIs ==
  ASSUME DeviceType, NEW k \in Keys, Delete(k)
  PROVE  /\ rec' \in [Keys -> RecStates] /\ rec'[k].status = "none"
         /\ \A j \in Keys : j # k => rec'[j] = rec[j]
<1>1. Absent \in RecStates /\ Absent.status = "none"
  BY DEF Absent, RecStates
<1>2. rec' = [rec EXCEPT ![k] = Absent] /\ rec \in [Keys -> RecStates]
  BY DEF Delete, DeviceType
<1> QED BY <1>1, <1>2

\* What the books and the requests say stays true when nothing but a new charge is added.
ChargesStay == \A k \in Keys : Charged(k) => charged'[k] = charged[k]

LEMMA BooksKeep ==
  ASSUME PosIInv, UNCHANGED salesVars, ChargesStay
  PROVE  SalesIInv' /\ RequestsCharged' /\ SalesCharged'
<1>1. handler' = handler /\ sale' = sale
  BY DEF salesVars, bookVars
<1>2. SalesIInv'
  BY StepSound DEF PosIInv
<1>3. RequestsCharged'
  <2> SUFFICES ASSUME NEW h \in Handlers
               PROVE  /\ handler[h].pc \in Busy => handler[h].key \in Keys /\ handler[h].cart = charged'[handler[h].key]
                      /\ handler[h].pc \notin {"cancel", "adjust"}
                      /\ handler[h].pc = "done" => handler[h].reply # "none"
    BY <1>1 DEF RequestsCharged
  <2>1. handler[h].pc \in Busy => handler[h].cart # NoLines
    BY OneRequest, CartsTakeSomething DEF PosIInv, Busy
  <2> QED BY <2>1 DEF PosIInv, RequestsCharged, ChargesStay, Charged
<1>4. SalesCharged'
  BY <1>1 DEF PosIInv, SalesCharged, ChargesStay, Charged, Recorded
<1> QED BY <1>2, <1>3, <1>4

\* A step of the device: tabs stay or leave the request they waited for, and what is on
\* the device afterwards was charged.
LEMMA DeviceStep ==
  ASSUME PosIInv, UNCHANGED salesVars, DeviceType', ChargesStay, OnDevice',
         \A t \in Tabs :
           \/ tab'[t] = tab[t]
           \/ /\ tab'[t].conn = NoHandler /\ tab'[t].pc # "wait"
              /\ tab'[t].pc \in {"next", "send"} => \A k \in tab'[t].todo : Charged(k)
              /\ tab'[t].pc = "send" => tab'[t].key \in Keys /\ Charged(tab'[t].key)
  PROVE  PosIInv'
<1>1. SalesIInv' /\ RequestsCharged' /\ SalesCharged'
  BY BooksKeep
<1>2. \A k \in Keys : Charged(k) => charged'[k] # NoLines
  BY DEF ChargesStay, Charged
<1>3. DrainsCharged'
  <2> SUFFICES ASSUME NEW t \in Tabs
               PROVE  /\ tab'[t].pc \in {"next", "send", "wait"} => \A k \in tab'[t].todo : charged'[k] # NoLines
                      /\ tab'[t].pc \in {"send", "wait"} => tab'[t].key \in Keys /\ charged'[tab'[t].key] # NoLines
    BY DEF DrainsCharged, Charged
  <2>1. tab'[t].todo \subseteq Keys
    BY DEF DeviceType, TabStates
  <2>2. CASE tab'[t] = tab[t]
    BY <1>2, <2>1, <2>2 DEF PosIInv, DrainsCharged
  <2>3. CASE tab'[t] # tab[t]
    BY <1>2, <2>1, <2>3
  <2> QED BY <2>2, <2>3
<1>4. Attended'
  <2>1. handler' = handler
    BY DEF salesVars
  <2>2. \A t \in Tabs : tab'[t].pc = "wait" => tab'[t] = tab[t]
    OBVIOUS
  <2>3. \A t \in Tabs : tab'[t].pc # "wait" => tab'[t].conn = NoHandler
    BY DEF PosIInv, Attended
  <2> QED BY <2>1, <2>2, <2>3 DEF PosIInv, Attended
<1> QED BY <1>1, <1>3, <1>4 DEF PosIInv

\* One tab moves on and lets go of its request, if it had one.
LEMMA TabStep ==
  ASSUME PosIInv, UNCHANGED salesVars, UNCHANGED <<charged, dropped, retried, online, closes, outages, saving>>,
         rec' \in [Keys -> RecStates],
         \A k \in Keys : rec'[k].status # "none" => Charged(k),
         NEW t \in Tabs, NEW r \in TabStates, tab' = [tab EXCEPT ![t] = r],
         r.conn = NoHandler, r.pc # "wait",
         r.pc \in {"next", "send"} => \A k \in r.todo : Charged(k),
         r.pc = "send" => r.key \in Keys /\ Charged(r.key)
  PROVE  PosIInv'
<1>1. /\ tab'[t] = r /\ tab' \in [Tabs -> TabStates]
      /\ \A u \in Tabs : u # t => tab'[u] = tab[u]
  BY TabMoves DEF PosIInv
<1>2. DeviceType' /\ ChargesStay
  BY <1>1 DEF PosIInv, DeviceType, ChargesStay
<1>3. OnDevice'
  BY DEF PosIInv, OnDevice, Charged
<1> QED BY <1>1, <1>2, <1>3, DeviceStep

-----------------------------------------------------------------------------
(* The owner and the device                                                *)

\* A drain that is woken is idle or at its snapshot, where it has nothing to send yet.
LEMMA WokenIs ==
  ASSUME PosIInv, NEW t \in Tabs, NEW puts \in SUBSET Keys
  PROVE  /\ Woken(t, puts) \in TabStates
         /\ \/ Woken(t, puts) = tab[t]
            \/ Woken(t, puts).pc = "snapshot" /\ Woken(t, puts).conn = NoHandler
<1>1. tab[t] \in TabStates
  BY DEF PosIInv, DeviceType
<1>2. /\ DrainAt("snapshot", puts, NoKey, NoHandler) \in TabStates
      /\ DrainAt("snapshot", puts, NoKey, NoHandler).pc = "snapshot"
      /\ DrainAt("snapshot", puts, NoKey, NoHandler).conn = NoHandler
  BY DrainAtIs DEF TabPcs
<1> QED BY <1>1, <1>2 DEF Woken

LEMMA SavingIs == \A t \in Tabs : Saving(t) \in SUBSET Keys
BY DEF Saving

LEMMA ChargeKeeps ==
  ASSUME PosIInv, NEW t \in Tabs, NEW k \in Keys, NEW c \in Carts, Charge(t, k, c)
  PROVE  PosIInv'
<1> DEFINE r == IF online THEN Woken(t, Saving(t) \cup {k}) ELSE tab[t]
<1>1. r \in TabStates /\ (r = tab[t] \/ (r.pc = "snapshot" /\ r.conn = NoHandler))
  <2> DEFINE puts == Saving(t) \cup {k}
             w == Woken(t, puts)
  <2>1. puts \in SUBSET Keys
    BY SavingIs
  <2>2. tab[t] \in TabStates
    BY DEF PosIInv, DeviceType
  <2>4. r = w \/ r = tab[t]
    OBVIOUS
  <2> HIDE DEF puts
  <2>3. w \in TabStates /\ (w = tab[t] \/ (w.pc = "snapshot" /\ w.conn = NoHandler))
    BY <2>1, WokenIs
  <2> HIDE DEF w, r
  <2> QED BY <2>2, <2>3, <2>4
<1>2. tab' = [tab EXCEPT ![t] = r]
  BY DEF Charge
<1> HIDE DEF r
<1>3. /\ tab'[t] = r /\ tab' \in [Tabs -> TabStates]
      /\ \A u \in Tabs : u # t => tab'[u] = tab[u]
  BY <1>1, <1>2, TabMoves DEF PosIInv
<1>4. /\ charged' = [charged EXCEPT ![k] = c] /\ saving' = [saving EXCEPT ![k] = t] /\ ~Charged(k)
      /\ UNCHANGED <<rec, retried, dropped, online, closes, outages>> /\ UNCHANGED salesVars
  BY DEF Charge
<1>5. DeviceType'
  BY <1>3, <1>4 DEF PosIInv, DeviceType
<1>6. /\ charged'[k] = c /\ c # NoLines
      /\ \A j \in Keys : j # k => charged'[j] = charged[j] /\ saving'[j] = saving[j]
  BY <1>4, CartsTakeSomething DEF PosIInv, DeviceType
<1>7. ChargesStay
  BY <1>4, <1>6 DEF ChargesStay
<1>8. OnDevice'
  BY <1>4, <1>6 DEF PosIInv, OnDevice, Charged
<1> QED BY <1>1, <1>3, <1>4, <1>5, <1>7, <1>8, DeviceStep

LEMMA EnqueueKeeps ==
  ASSUME PosIInv, NEW k \in Keys, Enqueue(k)
  PROVE  PosIInv' /\ rec'[k].status # "none" /\ \A j \in Keys : j # k => rec'[j] = rec[j]
<1>1. /\ saving[k] # NoTab /\ Put(k, "queued") /\ saving' = [saving EXCEPT ![k] = NoTab]
      /\ retried' = retried \ {k}
      /\ UNCHANGED <<charged, dropped, online, closes, outages>> /\ UNCHANGED salesVars
      /\ tab' = [t \in Tabs |->
           IF tab[t].pc = "snapshot" THEN DrainAt("snapshot", tab[t].todo \ {k}, NoKey, NoHandler)
           ELSE IF k \in retried /\ saving[k] = t /\ online THEN Woken(t, Saving(t) \ {k})
           ELSE tab[t]]
  BY DEF Enqueue
<1>2. /\ rec' \in [Keys -> RecStates] /\ rec'[k].status = "queued"
      /\ \A j \in Keys : j # k => rec'[j] = rec[j]
  BY <1>1, PutIs DEF PosIInv
<1>3. \A t \in Tabs : /\ tab'[t] \in TabStates
                      /\ tab'[t] = tab[t] \/ (tab'[t].pc = "snapshot" /\ tab'[t].conn = NoHandler)
  <2> SUFFICES ASSUME NEW t \in Tabs
               PROVE  /\ tab'[t] \in TabStates
                      /\ tab'[t] = tab[t] \/ (tab'[t].pc = "snapshot" /\ tab'[t].conn = NoHandler)
    OBVIOUS
  <2>1. tab[t] \in TabStates /\ tab[t].todo \in SUBSET Keys
    BY DEF PosIInv, DeviceType, TabStates
  <2>2. /\ DrainAt("snapshot", tab[t].todo \ {k}, NoKey, NoHandler) \in TabStates
        /\ DrainAt("snapshot", tab[t].todo \ {k}, NoKey, NoHandler).pc = "snapshot"
        /\ DrainAt("snapshot", tab[t].todo \ {k}, NoKey, NoHandler).conn = NoHandler
    BY <2>1, DrainAtIs DEF TabPcs
  <2>3. Saving(t) \ {k} \in SUBSET Keys
    BY SavingIs
  <2> QED BY <1>1, <2>1, <2>2, <2>3, WokenIs
<1>4. tab' \in [Tabs -> TabStates]
  BY <1>1, <1>3
<1>5. saving' \in [Keys -> Tabs \cup {NoTab}] /\ \A j \in Keys : j # k => saving'[j] = saving[j]
  BY <1>1 DEF PosIInv, DeviceType
<1>6. DeviceType'
  BY <1>1, <1>2, <1>4, <1>5 DEF PosIInv, DeviceType
<1>7. Charged(k) /\ ChargesStay
  BY <1>1 DEF PosIInv, OnDevice, ChargesStay
<1>8. OnDevice'
  BY <1>1, <1>2, <1>5, <1>7 DEF PosIInv, OnDevice, Charged
<1> QED BY <1>1, <1>2, <1>3, <1>6, <1>7, <1>8, DeviceStep

LEMMA RetryKeeps ==
  ASSUME PosIInv, NEW t \in Tabs, NEW k \in Keys, Retry(t, k)
  PROVE  PosIInv' /\ saving'[k] # NoTab /\ \A j \in Keys : j # k => rec'[j] = rec[j]
<1>1. /\ rec[k].status = "failed" /\ Delete(k) /\ saving' = [saving EXCEPT ![k] = t]
      /\ retried' = retried \cup {k}
      /\ UNCHANGED <<charged, dropped, tab, online, closes, outages>> /\ UNCHANGED salesVars
  BY DEF Retry
<1>2. /\ rec' \in [Keys -> RecStates] /\ rec'[k].status = "none"
      /\ \A j \in Keys : j # k => rec'[j] = rec[j]
  BY <1>1, DeleteIs DEF PosIInv
<1>3. /\ saving' \in [Keys -> Tabs \cup {NoTab}] /\ saving'[k] = t
      /\ \A j \in Keys : j # k => saving'[j] = saving[j]
  BY <1>1 DEF PosIInv, DeviceType
<1>4. DeviceType' /\ ChargesStay
  BY <1>1, <1>2, <1>3 DEF PosIInv, DeviceType, ChargesStay
<1>5. OnDevice'
  BY <1>1, <1>2, <1>3 DEF PosIInv, OnDevice, Charged
<1>6. PosIInv'
  BY <1>1, <1>4, <1>5, DeviceStep
<1> QED BY <1>2, <1>3, <1>6

LEMMA DropKeeps ==
  ASSUME PosIInv, NEW k \in Keys, Drop(k)
  PROVE  PosIInv' /\ k \in dropped' /\ \A j \in Keys : j # k => rec'[j] = rec[j]
<1>1. /\ rec[k].status = "failed" /\ Delete(k) /\ dropped' = dropped \cup {k}
      /\ UNCHANGED <<charged, saving, retried, tab, online, closes, outages>> /\ UNCHANGED salesVars
  BY DEF Drop
<1>2. /\ rec' \in [Keys -> RecStates] /\ rec'[k].status = "none"
      /\ \A j \in Keys : j # k => rec'[j] = rec[j]
  BY <1>1, DeleteIs DEF PosIInv
<1>3. DeviceType' /\ ChargesStay
  BY <1>1, <1>2 DEF PosIInv, DeviceType, ChargesStay
<1>4. OnDevice'
  BY <1>1, <1>2 DEF PosIInv, OnDevice, Charged
<1>5. PosIInv'
  BY <1>1, <1>3, <1>4, DeviceStep
<1> QED BY <1>1, <1>2, <1>5

\* The line goes down or up, the page is opened again or mounted: records and charges stay.
LEMMA DeviceKeeps ==
  ASSUME PosIInv, GoOffline \/ GoOnline \/ \E t \in Tabs : Reopen(t) \/ Mount(t)
  PROVE  PosIInv' /\ rec' = rec
<1>1. ASSUME GoOffline PROVE PosIInv' /\ rec' = rec
  <2>1. /\ UNCHANGED <<rec, charged, saving, retried, dropped, tab, closes>> /\ UNCHANGED salesVars
        /\ online' = FALSE /\ outages < MaxOutages /\ outages' = outages + 1
    BY <1>1 DEF GoOffline
  <2>2. outages' \in 0..MaxOutages
    BY <2>1 DEF PosIInv, DeviceType
  <2>3. DeviceType'
    BY <2>1, <2>2 DEF PosIInv, DeviceType
  <2>4. ChargesStay /\ OnDevice'
    BY <2>1 DEF PosIInv, ChargesStay, OnDevice, Charged
  <2> QED BY <2>1, <2>3, <2>4, DeviceStep
<1>2. ASSUME GoOnline PROVE PosIInv' /\ rec' = rec
  <2>1. /\ UNCHANGED <<rec, charged, saving, retried, dropped, closes, outages>> /\ UNCHANGED salesVars
        /\ online' = TRUE /\ tab' = [t \in Tabs |-> Woken(t, Saving(t))]
    BY <1>2 DEF GoOnline
  <2>2. \A t \in Tabs : /\ tab'[t] \in TabStates
                        /\ tab'[t] = tab[t] \/ (tab'[t].pc = "snapshot" /\ tab'[t].conn = NoHandler)
    BY <2>1, WokenIs, SavingIs
  <2>3. tab' \in [Tabs -> TabStates]
    BY <2>1, <2>2
  <2>4. DeviceType' /\ ChargesStay /\ OnDevice'
    BY <2>1, <2>3 DEF PosIInv, DeviceType, ChargesStay, OnDevice, Charged
  <2> QED BY <2>1, <2>2, <2>4, DeviceStep
<1>3. ASSUME NEW t \in Tabs, Reopen(t) PROVE PosIInv' /\ rec' = rec
  <2> DEFINE r == IF online THEN DrainAt("snapshot", {}, NoKey, NoHandler) ELSE Idle
  <2>1. r \in TabStates /\ r.pc \in {"snapshot", "idle"} /\ r.conn = NoHandler
    BY DrainAtIs, IdleIs DEF TabPcs
  <2>2. /\ UNCHANGED <<rec, charged, dropped, online, outages>> /\ UNCHANGED salesVars
        /\ closes < MaxCloses /\ closes' = closes + 1 /\ retried' = retried \ Saving(t)
        /\ saving' = [k \in Keys |-> IF saving[k] = t THEN NoTab ELSE saving[k]]
        /\ tab' = [tab EXCEPT ![t] = r]
    BY <1>3 DEF Reopen
  <2> HIDE DEF r
  <2>3. /\ tab'[t] = r /\ tab' \in [Tabs -> TabStates]
        /\ \A u \in Tabs : u # t => tab'[u] = tab[u]
    BY <2>1, <2>2, TabMoves DEF PosIInv
  <2>4. DeviceType' /\ ChargesStay /\ OnDevice'
    BY <2>2, <2>3 DEF PosIInv, DeviceType, ChargesStay, OnDevice, Charged
  <2> QED BY <2>1, <2>2, <2>3, <2>4, DeviceStep
<1>4. ASSUME NEW t \in Tabs, Mount(t) PROVE PosIInv' /\ rec' = rec
  <2>1. /\ UNCHANGED <<rec, charged, saving, retried, dropped, online, closes, outages>> /\ UNCHANGED salesVars
        /\ tab' = [tab EXCEPT ![t] = Woken(t, Saving(t))]
    BY <1>4 DEF Mount
  <2>2. /\ Woken(t, Saving(t)) \in TabStates
        /\ Woken(t, Saving(t)) = tab[t] \/ (Woken(t, Saving(t)).pc = "snapshot" /\ Woken(t, Saving(t)).conn = NoHandler)
    BY WokenIs, SavingIs
  <2>3. /\ tab'[t] = Woken(t, Saving(t)) /\ tab' \in [Tabs -> TabStates]
        /\ \A u \in Tabs : u # t => tab'[u] = tab[u]
    BY <2>1, <2>2, TabMoves DEF PosIInv
  <2>4. DeviceType' /\ ChargesStay /\ OnDevice'
    BY <2>1, <2>3 DEF PosIInv, DeviceType, ChargesStay, OnDevice, Charged
  <2> QED BY <2>1, <2>2, <2>3, <2>4, DeviceStep
<1> QED BY <1>1, <1>2, <1>3, <1>4

-----------------------------------------------------------------------------
(* The drain                                                               *)

\* What is known of a tab that has a record to send.
LEMMA Sending ==
  ASSUME PosIInv, NEW t \in Tabs
  PROVE  /\ tab[t] \in TabStates /\ tab[t].todo \in SUBSET Keys
         /\ tab[t].pc \in {"next", "send", "wait"} => \A k \in tab[t].todo : Charged(k)
         /\ tab[t].pc \in {"send", "wait"} => tab[t].key \in Keys /\ Charged(tab[t].key)
BY DEF PosIInv, DeviceType, DrainsCharged, TabStates

LEMMA OnDeviceNow == PosIInv => \A k \in Keys : rec[k].status # "none" => Charged(k)
BY DEF PosIInv, OnDevice

LEMMA OnwardsIs ==
  ASSUME PosIInv, NEW t \in Tabs, tab[t].pc \in {"send", "wait"}, Onwards(t)
  PROVE  \E r \in TabStates : /\ tab' = [tab EXCEPT ![t] = r]
                              /\ r.conn = NoHandler /\ r.pc = "next" /\ \A k \in r.todo : Charged(k)
<1> DEFINE r == DrainAt("next", tab[t].todo, NoKey, NoHandler)
<1>1. r \in TabStates /\ r.conn = NoHandler /\ r.pc = "next" /\ r.todo = tab[t].todo
  BY Sending, DrainAtIs DEF TabPcs
<1>2. tab' = [tab EXCEPT ![t] = r]
  BY DEF Onwards
<1> HIDE DEF r
<1> QED BY <1>1, <1>2, Sending

\* The steps of a drain that leave the server alone: none of them deletes a record.
NothingDeleted == \A k \in Keys : rec'[k].status = "none" => rec[k].status = "none"

LEMMA DrainKeeps ==
  ASSUME PosIInv, NEW t \in Tabs,
         Snapshot(t) \/ (\E k \in Keys : TakeNext(t, k)) \/ DrainEnds(t) \/ GetRefusal(t) \/ NetworkFails(t)
  PROVE  PosIInv' /\ NothingDeleted
<1>r. rec \in [Keys -> RecStates] /\ DeviceType
  BY DEF PosIInv, DeviceType
<1>1. ASSUME Snapshot(t) PROVE PosIInv' /\ NothingDeleted
  <2> DEFINE r == DrainAt("next", Pending, NoKey, NoHandler)
  <2>1. r \in TabStates /\ r.pc = "next" /\ r.todo = Pending /\ r.conn = NoHandler
    BY DrainAtIs DEF TabPcs, Pending
  <2>2. \A k \in Pending : Charged(k)
    BY OnDeviceNow DEF Pending
  <2>3. /\ tab' = [tab EXCEPT ![t] = r] /\ rec' = rec /\ UNCHANGED salesVars
        /\ UNCHANGED <<charged, dropped, retried, online, closes, outages, saving>>
    BY <1>1 DEF Snapshot
  <2> HIDE DEF r
  <2>4. PosIInv'
    BY <1>r, <2>1, <2>2, <2>3, OnDeviceNow, TabStep
  <2> QED BY <2>3, <2>4 DEF NothingDeleted
<1>2. ASSUME NEW k \in Keys, TakeNext(t, k) PROVE PosIInv' /\ NothingDeleted
  <2> DEFINE r == DrainAt("send", tab[t].todo \ {k}, k, NoHandler)
  <2>1. r \in TabStates /\ r.pc = "send" /\ r.todo = tab[t].todo \ {k} /\ r.conn = NoHandler /\ r.key = k
    BY DrainAtIs, Sending DEF TabPcs
  <2>2. Charged(k) /\ \A j \in r.todo : Charged(j)
    BY <1>2, <2>1, Sending DEF TakeNext
  <2>3. /\ tab' = [tab EXCEPT ![t] = r] /\ Put(k, "draining") /\ UNCHANGED salesVars
        /\ UNCHANGED <<charged, dropped, retried, online, closes, outages, saving>>
    BY <1>2 DEF TakeNext
  <2> HIDE DEF r
  <2>4. /\ rec' \in [Keys -> RecStates] /\ rec'[k].status = "draining"
        /\ \A j \in Keys : j # k => rec'[j] = rec[j]
    BY <1>r, <2>3, PutIs
  <2>5. PosIInv'
    BY <2>1, <2>2, <2>3, <2>4, OnDeviceNow, TabStep
  <2> QED BY <2>4, <2>5 DEF NothingDeleted
<1>3. ASSUME DrainEnds(t) PROVE PosIInv' /\ NothingDeleted
  <2>1. /\ tab' = [tab EXCEPT ![t] = Idle] /\ rec' = rec /\ UNCHANGED salesVars
        /\ UNCHANGED <<charged, dropped, retried, online, closes, outages, saving>>
    BY <1>3 DEF DrainEnds
  <2>2. PosIInv'
    BY <1>r, <2>1, IdleIs, OnDeviceNow, TabStep
  <2> QED BY <2>1, <2>2 DEF NothingDeleted
<1>4. ASSUME NEW st \in {"queued", "failed"}, tab[t].pc \in {"send", "wait"}, Put(tab[t].key, st), Onwards(t),
             UNCHANGED <<charged, saving, retried, dropped, online, closes, outages>>, UNCHANGED salesVars
      PROVE  PosIInv' /\ NothingDeleted
  <2>1. PICK r \in TabStates : /\ tab' = [tab EXCEPT ![t] = r]
                               /\ r.conn = NoHandler /\ r.pc = "next" /\ \A k \in r.todo : Charged(k)
    BY <1>4, OnwardsIs
  <2>2. tab[t].key \in Keys /\ Charged(tab[t].key)
    BY <1>4, Sending
  <2>3. /\ rec' \in [Keys -> RecStates] /\ rec'[tab[t].key].status = st
        /\ \A j \in Keys : j # tab[t].key => rec'[j] = rec[j]
    BY <1>r, <1>4, <2>2, PutIs
  <2>4. PosIInv'
    BY <1>4, <2>1, <2>2, <2>3, OnDeviceNow, TabStep
  <2> QED BY <2>3, <2>4 DEF NothingDeleted
<1>5. ASSUME GetRefusal(t) PROVE PosIInv' /\ NothingDeleted
  BY <1>4, <1>5 DEF GetRefusal
<1>6. ASSUME NetworkFails(t) PROVE PosIInv' /\ NothingDeleted
  BY <1>4, <1>6 DEF NetworkFails
<1> QED BY <1>1, <1>2, <1>3, <1>5, <1>6

-----------------------------------------------------------------------------
(* Tabs and the server                                                     *)

LEMMA BecomeIs ==
  ASSUME SalesIInv, NEW h \in Handlers, NEW q, Become(h, q)
  PROVE  handler'[h] = q /\ \A g \in Handlers : g # h => handler'[g] = handler[g]
BY DEF SalesIInv, SalesTypeOK, Become

LEMMA RequestIs ==
  ASSUME NEW pc, NEW k, NEW c, NEW u, NEW s, NEW r
  PROVE  LET q == Request(pc, k, c, u, s, r)
         IN  q.pc = pc /\ q.key = k /\ q.cart = c /\ q.sale = s /\ q.reply = r
BY DEF Request

LEMMA RestingIs == Resting.pc = "idle" /\ Resting.key = NoKey
BY RequestIs DEF Resting

\* A step that records keeps the key of its request, and what it commits is the cart
\* that the request brought.
Records(h) ==
  /\ handler[h].pc \in Busy
  /\ handler'[h].pc \in {"check", "insert", "reread", "done"}
  /\ handler'[h].key = handler[h].key
  /\ handler'[h].pc \in Busy => handler'[h].cart = handler[h].cart
  /\ handler'[h].pc = "done" => handler'[h].reply # "none"
  /\ \A g \in Handlers : g # h => handler'[g] = handler[g]
  /\ \A s \in SaleIds : \/ sale'[s] = sale[s]
                        \/ sale'[s].key = handler[h].key /\ sale'[s].cart = handler[h].cart

LEMMA GotoIs ==
  ASSUME SalesIInv, NEW h \in Handlers, NEW pc, NEW u, Goto(h, pc, u)
  PROVE  /\ handler'[h].pc = pc /\ handler'[h].key = handler[h].key /\ handler'[h].cart = handler[h].cart
         /\ \A g \in Handlers : g # h => handler'[g] = handler[g]
BY BecomeIs, RequestIs DEF Goto

LEMMA AnswerIs ==
  ASSUME SalesIInv, NEW h \in Handlers, NEW r, NEW s, Answer(h, r, s)
  PROVE  /\ handler'[h].pc = "done" /\ handler'[h].key = handler[h].key /\ handler'[h].reply = r
         /\ \A g \in Handlers : g # h => handler'[g] = handler[g]
BY BecomeIs, RequestIs DEF Answer

LEMMA GotoRecords ==
  ASSUME SalesIInv, NEW h \in Handlers, NEW pc \in {"check", "insert", "reread"}, NEW u,
         handler[h].pc \in Busy, Goto(h, pc, u), UNCHANGED bookVars
  PROVE  Records(h)
<1>1. sale' = sale
  BY DEF bookVars
<1>2. /\ handler'[h].pc = pc /\ handler'[h].key = handler[h].key /\ handler'[h].cart = handler[h].cart
      /\ \A g \in Handlers : g # h => handler'[g] = handler[g]
  BY GotoIs
<1>3. handler'[h].pc \in {"check", "insert", "reread", "done"} /\ handler'[h].pc # "done"
  BY <1>2
<1>4. \A t \in SaleIds : sale'[t] = sale[t]
  BY <1>1
<1>5. handler'[h].key = handler[h].key /\ handler'[h].cart = handler[h].cart
  BY <1>2
<1>6. \A g \in Handlers : g # h => handler'[g] = handler[g]
  BY <1>2
<1> QED BY <1>3, <1>4, <1>5, <1>6 DEF Records

LEMMA AnswerRecords ==
  ASSUME SalesIInv, NEW h \in Handlers, NEW r, r # "none", NEW s,
         handler[h].pc \in Busy, Answer(h, r, s), UNCHANGED bookVars
  PROVE  Records(h)
<1>1. sale' = sale
  BY DEF bookVars
<1>2. /\ handler'[h].pc = "done" /\ handler'[h].key = handler[h].key /\ handler'[h].reply = r
      /\ \A g \in Handlers : g # h => handler'[g] = handler[g]
  BY AnswerIs
<1> QED BY <1>1, <1>2 DEF Records, Busy

LEMMA RecordStepIs ==
  ASSUME SalesIInv, NEW h \in Handlers, RecordStep(h)
  PROVE  Records(h)
<1>1. ASSUME Lookup(h) PROVE Records(h)
  <2>0. handler[h].pc \in Busy /\ UNCHANGED bookVars
    BY <1>1 DEF Lookup, Busy
  <2>1. CASE stored[handler[h].key] # NoSale
    <3>1. Answer(h, "replayed", stored[handler[h].key])
      BY <1>1, <2>1 DEF Lookup
    <3> QED BY <2>0, <3>1, AnswerRecords
  <2>2. CASE stored[handler[h].key] = NoSale
    <3>1. Goto(h, "check", handler[h].unread)
      BY <1>1, <2>2 DEF Lookup
    <3> QED BY <2>0, <3>1, GotoRecords
  <2> QED BY <2>1, <2>2
<1>2. ASSUME NEW i \in Items, CheckLine(h, i) PROVE Records(h)
  <2>0. handler[h].pc \in Busy /\ UNCHANGED bookVars
    BY <1>2 DEF CheckLine, Busy
  <2>1. CASE Enough(h, i)
    <3>1. PICK pc \in {"insert", "check"} : Goto(h, pc, handler[h].unread \ {i})
      BY <1>2, <2>1 DEF CheckLine
    <3> QED BY <2>0, <3>1, GotoRecords
  <2>2. CASE ~Enough(h, i)
    <3>1. Answer(h, "nostock", NoSale)
      BY <1>2, <2>2 DEF CheckLine
    <3> QED BY <2>0, <3>1, AnswerRecords
  <2> QED BY <2>1, <2>2
<1>3. ASSUME NEW s \in SaleIds, CommitSale(h, s) PROVE Records(h)
  <2>0. Answer(h, "created", s)
    BY <1>3 DEF CommitSale
  <2>1. /\ handler'[h].pc = "done" /\ handler'[h].key = handler[h].key /\ handler'[h].reply = "created"
        /\ \A g \in Handlers : g # h => handler'[g] = handler[g]
    BY <2>0, AnswerIs
  <2> DEFINE q == [key |-> handler[h].key, cart |-> handler[h].cart, live |-> TRUE]
  <2>2. q.key = handler[h].key /\ q.cart = handler[h].cart
    OBVIOUS
  <2>3. sale' = [sale EXCEPT ![s] = q] /\ handler[h].pc = "insert"
    BY <1>3 DEF CommitSale
  <2> HIDE DEF q
  <2>4. sale'[s] = q /\ \A t \in SaleIds : t # s => sale'[t] = sale[t]
    BY <2>3 DEF SalesIInv, SalesTypeOK
  <2>5. \A t \in SaleIds : \/ sale'[t] = sale[t]
                           \/ sale'[t].key = handler[h].key /\ sale'[t].cart = handler[h].cart
    BY <2>2, <2>4
  <2> QED BY <2>1, <2>3, <2>5 DEF Records, Busy
<1>4. ASSUME DuplicateKey(h) PROVE Records(h)
  BY <1>4, GotoRecords DEF DuplicateKey, Busy
<1>5. ASSUME ReplayWinner(h) PROVE Records(h)
  <2>0. handler[h].pc \in Busy /\ UNCHANGED bookVars
    BY <1>5 DEF ReplayWinner, Busy
  <2>1. Answer(h, "replayed", stored[handler[h].key]) \/ Answer(h, "error", NoSale)
    BY <1>5 DEF ReplayWinner
  <2> QED BY <2>0, <2>1, AnswerRecords
<1>6. ASSUME SaleFails(h) PROVE Records(h)
  BY <1>6, AnswerRecords DEF SaleFails, Busy
<1> QED BY <1>1, <1>2, <1>3, <1>4, <1>5, <1>6 DEF RecordStep

LEMMA DeviceStays ==
  ASSUME PosIInv, UNCHANGED deviceVars
  PROVE  DeviceType' /\ OnDevice' /\ DrainsCharged' /\ rec' = rec
BY DEF PosIInv, deviceVars, DeviceType, OnDevice, DrainsCharged, Charged

LEMMA RecordStepKeeps ==
  ASSUME PosIInv, NEW h \in Handlers, RecordStep(h), UNCHANGED deviceVars
  PROVE  PosIInv'
<1>1. SalesIInv'
  BY RecordStepSound DEF PosIInv
<1>2. Records(h)
  BY RecordStepIs DEF PosIInv
<1>3. charged' = charged /\ tab' = tab
  BY DEF deviceVars
<1>4. Attended'
  BY <1>2, <1>3 DEF PosIInv, Attended, Records
<1>5. handler[h].key \in Keys /\ handler[h].cart = charged[handler[h].key]
  BY <1>2 DEF PosIInv, RequestsCharged, Records
<1>6. RequestsCharged'
  BY <1>2, <1>3, <1>5 DEF PosIInv, RequestsCharged, Records
<1>7. SalesCharged'
  BY <1>2, <1>3, <1>5 DEF PosIInv, SalesCharged, Records, Recorded
<1> QED BY <1>1, <1>4, <1>6, <1>7, DeviceStays DEF PosIInv

\* A delivery, a purge, and the end of a request that no tab waits for.
LEMMA BooksMove ==
  ASSUME PosIInv, UNCHANGED <<deviceVars, handler, sale>>, SalesIInv'
  PROVE  PosIInv'
<1>1. charged' = charged /\ tab' = tab /\ handler' = handler /\ sale' = sale
  BY DEF deviceVars
<1>2. Attended' /\ RequestsCharged' /\ SalesCharged'
  BY <1>1 DEF PosIInv, Attended, RequestsCharged, SalesCharged, Recorded
<1> QED BY <1>2, DeviceStays DEF PosIInv

LEMMA ServerStepKeeps ==
  ASSUME PosIInv, ServerStep
  PROVE  PosIInv' /\ rec' = rec
<1>1. UNCHANGED deviceVars
  BY DEF ServerStep
<1>2. ASSUME NEW i \in Items, NEW d \in Deltas, Purchase(i, d) PROVE PosIInv'
  BY <1>1, <1>2, PurchaseSound, BooksMove DEF PosIInv, Purchase
<1>3. ASSUME NEW k \in Keys, PurgeKey(k) PROVE PosIInv'
  BY <1>1, <1>3, PurgeSound, BooksMove DEF PosIInv, PurgeKey
<1> QED BY <1>1, <1>2, <1>3, RecordStepKeeps, DeviceStays DEF ServerStep

\* A request comes to rest: no tab waits for it, or the one that did goes on.
LEMMA RequestRests ==
  ASSUME PosIInv, NEW h \in Handlers, Finish(h), charged' = charged
  PROVE  /\ SalesIInv' /\ RequestsCharged' /\ SalesCharged'
         /\ \A g \in Handlers : g # h => handler'[g] = handler[g]
<1>1. Become(h, Resting) /\ UNCHANGED bookVars
  BY DEF Finish
<1>2. handler'[h] = Resting /\ \A g \in Handlers : g # h => handler'[g] = handler[g]
  BY <1>1, BecomeIs DEF PosIInv
<1>3. SalesIInv'
  BY <1>1, RestSound DEF PosIInv
<1>4. RequestsCharged'
  BY <1>2, RestingIs DEF PosIInv, RequestsCharged, Busy
<1>5. SalesCharged'
  BY <1>1 DEF bookVars, PosIInv, SalesCharged, Recorded
<1> QED BY <1>2, <1>3, <1>4, <1>5

LEMMA UnattendedKeeps ==
  ASSUME PosIInv, NEW h \in Handlers, Unattended(h)
  PROVE  PosIInv' /\ rec' = rec
<1>1. Finish(h) /\ UNCHANGED deviceVars /\ charged' = charged /\ tab' = tab /\ \A t \in Tabs : tab[t].conn # h
  BY DEF Unattended, deviceVars
<1>2. /\ SalesIInv' /\ RequestsCharged' /\ SalesCharged'
      /\ \A g \in Handlers : g # h => handler'[g] = handler[g]
  BY <1>1, RequestRests
<1>3. Attended'
  BY <1>1, <1>2 DEF PosIInv, Attended
<1> QED BY <1>1, <1>2, <1>3, DeviceStays DEF PosIInv

LEMMA SendKeeps ==
  ASSUME PosIInv, NEW t \in Tabs, NEW h \in Handlers, Send(t, h)
  PROVE  PosIInv' /\ rec' = rec
<1> DEFINE k == tab[t].key
           c == charged[k]
           r == DrainAt("wait", tab[t].todo, k, h)
<1>1. /\ tab[t].pc = "send" /\ PostSale(h, k, c) /\ tab' = [tab EXCEPT ![t] = r]
      /\ UNCHANGED <<rec, charged, saving, retried, dropped, online, closes, outages>>
  BY DEF Send
<1>2. k \in Keys /\ Charged(k) /\ c \in Carts /\ k # NoKey
  <2>1. tab[t].key \in Keys /\ Charged(tab[t].key)
    BY <1>1, Sending
  <2>2. charged[tab[t].key] \in Carts
    BY <2>1 DEF PosIInv, DeviceType, Charged
  <2> QED BY <2>1, <2>2, KeyAssumption
<1>3. r \in TabStates /\ r.pc = "wait" /\ r.todo = tab[t].todo /\ r.key = k /\ r.conn = h
  BY <1>2, Sending, DrainAtIs DEF TabPcs
<1>4. /\ handler[h] = Resting /\ UNCHANGED bookVars
      /\ Become(h, Request("lookup", k, c, Wanted(c), NoSale, "none"))
  BY <1>1, <1>2 DEF PostSale
<1>5. /\ handler'[h].pc = "lookup" /\ handler'[h].key = k /\ handler'[h].cart = c
      /\ \A g \in Handlers : g # h => handler'[g] = handler[g]
  BY <1>4, BecomeIs, RequestIs DEF PosIInv
<1>6. SalesIInv'
  BY <1>1, <1>2, PostSaleSound DEF PosIInv
<1> HIDE DEF r
<1>7. /\ tab'[t] = r /\ tab' \in [Tabs -> TabStates]
      /\ \A u \in Tabs : u # t => tab'[u] = tab[u]
  BY <1>1, <1>3, TabMoves DEF PosIInv
<1>8. DeviceType' /\ OnDevice'
  BY <1>1, <1>7 DEF PosIInv, DeviceType, OnDevice, Charged
<1>9. DrainsCharged'
  BY <1>1, <1>2, <1>3, <1>7, Sending DEF PosIInv, DrainsCharged, Charged
<1>10. \A u \in Tabs : u # t /\ tab[u].pc = "wait" => tab[u].conn # h
  BY <1>4, RestingIs DEF PosIInv, Attended
<1> HIDE DEF k, c
<1>11. Attended'
  <2>1. \A u \in Tabs : u # t /\ tab[u].pc = "wait" => handler'[tab[u].conn] = handler[tab[u].conn]
    BY <1>5, <1>10 DEF PosIInv, Attended
  <2> QED BY <1>3, <1>5, <1>7, <1>10, <2>1 DEF PosIInv, Attended
<1>12. RequestsCharged'
  BY <1>1, <1>2, <1>5 DEF PosIInv, RequestsCharged, c
<1>13. SalesCharged'
  BY <1>1, <1>4 DEF bookVars, PosIInv, SalesCharged, Recorded
<1> QED BY <1>1, <1>6, <1>8, <1>9, <1>11, <1>12, <1>13 DEF PosIInv

\* The answer a tab gets is that of its own key: it deletes a record only when the sale
\* of that key is in the books.
LEMMA GetAnswerKeeps ==
  ASSUME PosIInv, NEW t \in Tabs, GetAnswer(t)
  PROVE  PosIInv' /\ Deletions
<1> DEFINE k == tab[t].key
           h == tab[t].conn
           reply == handler[h].reply
<1>1. /\ tab[t].pc = "wait" /\ handler[h].pc = "done" /\ SettleAnswer(k, reply) /\ Onwards(t)
      /\ handler' = [handler EXCEPT ![h] = Resting]
      /\ UNCHANGED bookVars /\ UNCHANGED <<charged, saving, retried, dropped, online, closes, outages>>
  BY DEF GetAnswer
<1>2. k \in Keys /\ Charged(k) /\ h \in Handlers /\ handler[h].key = k
  BY <1>1, Sending DEF PosIInv, Attended
<1>3. PICK r \in TabStates : /\ tab' = [tab EXCEPT ![t] = r]
                             /\ r.conn = NoHandler /\ r.pc = "next" /\ \A j \in r.todo : Charged(j)
  BY <1>1, OnwardsIs
<1>4. /\ tab'[t] = r /\ tab' \in [Tabs -> TabStates]
      /\ \A u \in Tabs : u # t => tab'[u] = tab[u]
  BY <1>3, TabMoves DEF PosIInv
<1>5. Finish(h)
  BY <1>1 DEF Finish, Become
<1>6. /\ SalesIInv' /\ RequestsCharged' /\ SalesCharged'
      /\ \A g \in Handlers : g # h => handler'[g] = handler[g]
  BY <1>1, <1>2, <1>5, RequestRests
<1>7. reply \in {"created", "replayed"} => RecordedUnder(k)
  BY <1>2 DEF PosIInv, SalesIInv, SuccessIsRecorded, RecordedUnder
<1>d. DeviceType /\ rec \in [Keys -> RecStates]
  BY DEF PosIInv, DeviceType
<1> HIDE DEF k, h, reply
<1>8. CASE reply \in {"created", "replayed", "nostock", "error"}
  <2>1. \/ Delete(k) /\ RecordedUnder(k)
        \/ \E st \in {"queued", "failed"} : Put(k, st)
    BY <1>1, <1>7, <1>8 DEF SettleAnswer
  <2>2. /\ rec' \in [Keys -> RecStates] /\ \A j \in Keys : j # k => rec'[j] = rec[j]
        /\ rec'[k].status = "none" => RecordedUnder(k)
    BY <1>2, <1>d, <2>1, PutIs, DeleteIs
  <2>3. DeviceType'
    BY <1>1, <1>4, <2>2 DEF PosIInv, DeviceType
  <2>4. OnDevice'
    BY <1>1, <1>2, <2>2 DEF PosIInv, OnDevice, Charged
  <2>5. DrainsCharged'
    BY <1>1, <1>3, <1>4 DEF PosIInv, DrainsCharged, Charged
  <2>6. Attended'
    <3>1. \A u \in Tabs : u # t /\ tab[u].pc = "wait" => tab[u].conn # h /\ tab[u].conn \in Handlers
      BY <1>1 DEF PosIInv, Attended, h
    <3>2. \A u \in Tabs : u # t /\ tab[u].pc = "wait" => handler'[tab[u].conn] = handler[tab[u].conn]
      BY <1>6, <3>1
    <3> QED BY <1>3, <1>4, <3>2 DEF PosIInv, Attended
  <2>7. Deletions
    BY <2>2 DEF Deletions
  <2> QED BY <1>6, <2>3, <2>4, <2>5, <2>6, <2>7 DEF PosIInv
<1>9. reply \in {"created", "replayed", "nostock", "error"}
  BY <1>1, <1>2 DEF PosIInv, SalesIInv, SalesTypeOK, Replies, RequestsCharged, reply, h
<1> QED BY <1>8, <1>9

\* The server restarts: every fetch that waits fails, and no record is deleted.
LEMMA RestartKeeps ==
  ASSUME PosIInv, Restart
  PROVE  PosIInv' /\ NothingDeleted
<1>1. /\ ServerCrash /\ UNCHANGED bookVars /\ handler' = [h \in Handlers |-> Resting]
      /\ rec' = [k \in Keys |-> IF \E t \in Tabs : tab[t].pc = "wait" /\ tab[t].key = k
                                THEN [status |-> NetError, cart |-> charged[k]] ELSE rec[k]]
      /\ tab' = [t \in Tabs |-> IF tab[t].pc = "wait"
                               THEN DrainAt("next", tab[t].todo, NoKey, NoHandler) ELSE tab[t]]
      /\ UNCHANGED <<charged, saving, retried, dropped, online, closes, outages>>
  BY DEF Restart, ServerCrash
<1>2. SalesIInv'
  BY <1>1, CrashSound DEF PosIInv
<1>3. \A t \in Tabs : /\ tab'[t] \in TabStates
                      /\ \/ tab[t].pc # "wait" /\ tab'[t] = tab[t]
                         \/ /\ tab[t].pc = "wait" /\ tab'[t].pc = "next" /\ tab'[t].conn = NoHandler
                            /\ tab'[t].todo = tab[t].todo
  BY <1>1, Sending, DrainAtIs DEF TabPcs
<1>4. tab' \in [Tabs -> TabStates]
  BY <1>1, <1>3
<1>5. \A k \in Keys : /\ rec'[k] \in RecStates
                      /\ rec'[k].status # "none" => Charged(k)
                      /\ rec'[k].status = "none" => rec[k].status = "none"
  <2> SUFFICES ASSUME NEW k \in Keys
               PROVE  /\ rec'[k] \in RecStates
                      /\ rec'[k].status # "none" => Charged(k)
                      /\ rec'[k].status = "none" => rec[k].status = "none"
    OBVIOUS
  <2>1. CASE \E t \in Tabs : tab[t].pc = "wait" /\ tab[t].key = k
    <3> DEFINE q == [status |-> NetError, cart |-> charged[k]]
    <3>1. rec'[k] = q
      BY <1>1, <2>1
    <3>2. q \in RecStates /\ q.status # "none"
      BY DEF PosIInv, DeviceType, RecStates
    <3>3. Charged(k)
      BY <2>1, Sending
    <3> HIDE DEF q
    <3> QED BY <3>1, <3>2, <3>3
  <2>2. CASE ~\E t \in Tabs : tab[t].pc = "wait" /\ tab[t].key = k
    BY <1>1, <2>2, OnDeviceNow DEF PosIInv, DeviceType
  <2> QED BY <2>1, <2>2
<1>6. rec' \in [Keys -> RecStates]
  BY <1>1, <1>5
<1>7. DeviceType'
  BY <1>1, <1>4, <1>6 DEF PosIInv, DeviceType
<1>8. OnDevice'
  BY <1>1, <1>5 DEF PosIInv, OnDevice, Charged
<1>9. DrainsCharged'
  BY <1>1, <1>3 DEF PosIInv, DrainsCharged, Charged
<1>10. Attended'
  BY <1>3 DEF PosIInv, Attended
<1>11. RequestsCharged' /\ SalesCharged'
  <2>1. \A h \in Handlers : handler'[h] = Resting
    BY <1>1
  <2>2. RequestsCharged'
    BY <2>1, RestingIs DEF RequestsCharged, Busy
  <2>3. SalesCharged'
    BY <1>1 DEF bookVars, PosIInv, SalesCharged, Recorded
  <2> QED BY <2>2, <2>3
<1> QED BY <1>2, <1>5, <1>7, <1>8, <1>9, <1>10, <1>11 DEF PosIInv, NothingDeleted

-----------------------------------------------------------------------------

LEMMA PosStart == PosInit => PosIInv
<1> SUFFICES ASSUME PosInit PROVE PosIInv
  OBVIOUS
<1>1. SalesIInv
  BY InitSound DEF PosInit
<1>2. Absent \in RecStates /\ Absent.status = "none"
  BY DEF Absent, RecStates
<1>3. DeviceType
  BY <1>2, IdleIs DEF PosInit, DeviceType
<1>4. OnDevice /\ DrainsCharged /\ Attended
  BY <1>2, IdleIs DEF PosInit, OnDevice, DrainsCharged, Attended
<1>5. RequestsCharged /\ SalesCharged
  BY RestingIs DEF PosInit, SalesInit, RequestsCharged, SalesCharged, Busy, Recorded, Unsold
<1> QED BY <1>1, <1>3, <1>4, <1>5 DEF PosIInv

LEMMA PosStep == PosIInv /\ [PosNext]_posVars => PosIInv' /\ [Deletions]_posVars
<1> SUFFICES ASSUME PosIInv, [PosNext]_posVars PROVE PosIInv' /\ [Deletions]_posVars
  OBVIOUS
<1>1. NothingDeleted \/ rec' = rec => Deletions
  BY DEF NothingDeleted, Deletions
<1>2. ASSUME NEW t \in Tabs, NEW k \in Keys, Retry(t, k) PROVE PosIInv' /\ Deletions
  BY <1>2, RetryKeeps DEF Deletions
<1>3. ASSUME NEW t \in Tabs, NEW k \in Keys, NEW c \in Carts, Charge(t, k, c) PROVE PosIInv' /\ Deletions
  BY <1>1, <1>3, ChargeKeeps DEF Charge
<1>4. ASSUME NEW t \in Tabs, Drain(t) PROVE PosIInv' /\ Deletions
  BY <1>1, <1>4, DrainKeeps, SendKeeps, GetAnswerKeeps DEF Drain
<1>5. ASSUME NEW k \in Keys, Enqueue(k) PROVE PosIInv' /\ Deletions
  BY <1>5, EnqueueKeeps DEF Deletions
<1>6. ASSUME NEW k \in Keys, Drop(k) PROVE PosIInv' /\ Deletions
  BY <1>6, DropKeeps DEF Deletions
<1>7. ASSUME NEW h \in Handlers, Unattended(h) PROVE PosIInv' /\ Deletions
  BY <1>1, <1>7, UnattendedKeeps
<1>8. CASE ServerStep \/ Restart
  BY <1>1, <1>8, ServerStepKeeps, RestartKeeps
<1>9. CASE GoOffline \/ GoOnline \/ \E t \in Tabs : Reopen(t) \/ Mount(t)
  BY <1>1, <1>9, DeviceKeeps
<1>10. CASE UNCHANGED posVars
  <2>1. UNCHANGED salesVars /\ UNCHANGED deviceVars
    BY <1>10 DEF posVars
  <2>2. SalesIInv'
    BY <2>1, StepSound DEF PosIInv
  <2> QED BY <1>10, <2>1, <2>2, BooksMove DEF salesVars, bookVars
<1> QED BY <1>2, <1>3, <1>4, <1>5, <1>6, <1>7, <1>8, <1>9, <1>10 DEF PosNext

LEMMA PosInvariant == PosSpec => []PosIInv
BY PosStart, PosStep, PTL DEF PosSpec

\* The records, the drains and the requests keep their types.
THEOREM PosTypeCorrect == PosSpec => []PosTypeOK
<1>1. PosIInv => PosTypeOK
  BY DEF PosIInv, SalesIInv, DeviceType, PosTypeOK, RecStates, TabStates, TabPcs
<1> QED BY <1>1, PosInvariant, PTL

\* What the books hold under a key is what the owner charged under it, once while its row
\* is kept, however many tabs and requests carried it (useOfflineQueue.ts, drainQueue).
THEOREM ChargesAreRecorded == PosSpec => []RecordedAsCharged
<1>1. PosIInv => RecordedAsCharged
  BY RowsAreUnique DEF PosIInv, SalesCharged, RecordedAsCharged
<1> QED BY <1>1, PosInvariant, PTL

\* A drain deletes a record only when its sale is in the books; every other deletion is
\* the owner's (useOfflineQueue.ts:141).
THEOREM DeletionsAreSafe == PosSpec => DeletedOnlyIfRecorded
BY PosInvariant, PosStep, PTL DEF PosSpec, DeletedOnlyIfRecorded

-----------------------------------------------------------------------------
(* The books that the device writes to are those of module Sales           *)

\* What a tab sends is a request of Sales, what it reads ends one, and all else that
\* happens on the device leaves the books and the requests alone.
LEMMA PosStepIsSales ==
  ASSUME PosIInv, [PosNext]_posVars
  PROVE  [SalesNext]_salesVars
<1>1. ASSUME NEW t \in Tabs, NEW h \in Handlers, Send(t, h) PROVE SalesNext
  <2>1. tab[t].key \in Keys /\ Charged(tab[t].key)
    BY <1>1 DEF Send, PosIInv, DrainsCharged
  <2>2. charged[tab[t].key] \in Carts
    BY <2>1 DEF PosIInv, DeviceType, Charged
  <2>3. PostSale(h, tab[t].key, charged[tab[t].key])
    BY <1>1 DEF Send
  <2>4. PICK k \in Keys \cup {NoKey} : k = tab[t].key
    BY <2>1
  <2>5. PICK c \in Carts : c = charged[tab[t].key]
    BY <2>2
  <2>6. PostSale(h, k, c)
    BY <2>3, <2>4, <2>5
  <2> QED BY <2>6 DEF SalesNext
<1>2. ASSUME NEW t \in Tabs, GetAnswer(t) PROVE SalesNext
  <2>1. PICK h \in Handlers : h = tab[t].conn
    BY <1>2 DEF GetAnswer, PosIInv, Attended
  <2>2. Finish(h)
    BY <1>2, <2>1 DEF GetAnswer, Finish, Become
  <2> QED BY <2>2 DEF SalesNext
<1>3. ASSUME NEW h \in Handlers, Unattended(h) PROVE SalesNext
  BY <1>3 DEF Unattended, SalesNext
<1>4. CASE ServerStep
  BY <1>4 DEF ServerStep, SalesNext
<1>5. CASE Restart
  BY <1>5 DEF Restart, SalesNext
<1>6. ASSUME NEW t \in Tabs,
             \/ Snapshot(t) \/ DrainEnds(t) \/ GetRefusal(t) \/ NetworkFails(t)
             \/ Mount(t) \/ Reopen(t) \/ \E k \in Keys : TakeNext(t, k) \/ Retry(t, k)
             \/ \E k \in Keys, c \in Carts : Charge(t, k, c)
      PROVE  UNCHANGED salesVars
  BY <1>6 DEF Snapshot, DrainEnds, GetRefusal, NetworkFails, Mount, Reopen, TakeNext, Retry, Charge
<1>7. ASSUME NEW k \in Keys, Enqueue(k) \/ Drop(k) PROVE UNCHANGED salesVars
  BY <1>7 DEF Enqueue, Drop
<1>8. CASE GoOffline \/ GoOnline
  BY <1>8 DEF GoOffline, GoOnline
<1>9. CASE UNCHANGED posVars
  BY <1>9 DEF posVars
<1> QED
  BY <1>1, <1>2, <1>3, <1>4, <1>5, <1>6, <1>7, <1>8, <1>9 DEF PosNext, Drain

\* Whatever the tabs, the network and the owner do, the server sees a behaviour of Sales:
\* the queue asks nothing of it that another client could not ask.
THEOREM QueueIsAClient == PosSpec => SalesSpec
<1>1. PosInit => SalesInit
  BY DEF PosInit
<1> QED BY <1>1, PosStepIsSales, PosInvariant, PTL DEF PosSpec, SalesSpec

\* The books stay true when they are filled by tabs that retry after a lost answer: the
\* stock adds up, overselling is bounded, and a key is one sale (salesService.ts:203-247).
THEOREM RetriesKeepTheBooks ==
  PosSpec => [](StockLedger /\ OversellIsBounded /\ OneSalePerKey /\ SuccessIsRecorded)
BY QueueIsAClient, StockAddsUp, OversellBounded, KeyIsOneSale, AnswersAreRecorded, PTL

\* So is what the server promises: whatever the tabs send again, and whatever is lost or
\* cut short between, each charge that arrives is one whole sale in one step, or none.
THEOREM QueueSeesTheLedger == PosSpec => ImplementsLedger
BY QueueIsAClient, BooksAreAtomic, PTL
=============================================================================
