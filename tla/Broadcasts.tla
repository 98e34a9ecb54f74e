----------------------------- MODULE Broadcasts -----------------------------
(***************************************************************************)
(* Marketing messages: the customers' opt-in of every business, the        *)
(* platform-wide registry of phones that said STOP, the daily cap of a     *)
(* business, and the pause that the quality monitor sets for everybody.    *)
(*                                                                         *)
(* A broadcast reads the pause, the phones, the registry phone by phone,   *)
(* then counts and inserts, then sends, each in a transaction or call of   *)
(* its own; STOP and START write the customer's row and the registry one   *)
(* after the other.  The registry's functions swallow their errors.        *)
(***************************************************************************)
EXTENDS Integers, FiniteSets

CONSTANTS
  Shops,      \* businesses
  Numbers,    \* phones of customers and owners
  Works,      \* requests: broadcasts, STOP and START
  Nil,        \* no business, no phone
  Cap,        \* BROADCAST_DAILY_CAP
  MaxDays     \* bound on midnights

ASSUME BroadcastAssumption == Nil \notin Shops \cup Numbers /\ Cap \in Nat /\ MaxDays \in Nat

VARIABLES
  customer,   \* business, phone -> its customer's row: none, opted in or out
  worksFor,   \* phone -> the business its messages are resolved to (tenant_users)
  registry,   \* platform_marketing_opt_outs
  paused,     \* platform_settings.broadcasts_paused
  today,      \* business -> broadcasts created today
  days,       \* midnights so far
  work,       \* request -> where it is
  monitor,    \* the quality monitor: idle, or about to clear the pause
  sent,       \* request -> phones its broadcast was sent to
  barred,     \* ghost: phones that the registry was written for, no START since
  avoid,      \* ghost: request -> phones barred when it began and since
  raced       \* ghost: businesses that counted a broadcast before another was made

optIns == <<customer, worksFor, registry>>
promises == <<barred, avoid>>
broadcastVars == <<optIns, paused, today, days, work, monitor, sent, promises, raced>>

Work(pc, shop, phone, list, rest) ==
  [pc |-> pc, shop |-> shop, phone |-> phone, list |-> list, rest |-> rest]
Waiting == Work("new", Nil, Nil, {}, {})
Over == Work("over", Nil, Nil, {}, {})

\* A customer's row says opted in unless something else is written.
BroadcastsInit ==
  /\ customer \in [Shops \X Numbers -> {"none", "in"}]
  /\ worksFor \in [Numbers -> Shops \cup {Nil}]
  /\ registry = {}
  /\ paused = FALSE
  /\ today = [s \in Shops |-> 0]
  /\ days = 0
  /\ work = [w \in Works |-> Waiting]
  /\ monitor = "idle"
  /\ sent = [w \in Works |-> {}]
  /\ barred = {}
  /\ avoid = [w \in Works |-> {}]
  /\ raced = {}

Doing(w, pc) == work[w].pc = pc
Shop(w) == work[w].shop
Set(w, record) == work' = [work EXCEPT ![w] = record]
To(w, pc) == Set(w, Work(pc, Shop(w), work[w].phone, work[w].list, work[w].rest))
Starting(p) == \E w \in Works : work[w].pc \in {"start", "unlist"} /\ work[w].phone = p

-----------------------------------------------------------------------------
\* Opting in and out

\* editCustomer, addCustomer and removeCustomer: the owner writes what the form says.
EditCustomer(s, p, to) ==
  /\ customer[<<s, p>>] # to /\ (customer[<<s, p>>] = "none" => to = "in")
  /\ customer' = [customer EXCEPT ![<<s, p>>] = to]
  /\ UNCHANGED <<worksFor, registry, paused, today, days, work, monitor, sent, promises, raced>>

\* handleStopRequest: the sender is looked up among the members of the businesses;
\* who belongs to none is told the same and nothing is written.
Stop(w, p) ==
  /\ work[w] = Waiting
  /\ Set(w, IF worksFor[p] = Nil THEN Over ELSE Work("stop", worksFor[p], p, {}, {}))
  /\ UNCHANGED <<optIns, paused, today, days, monitor, sent, promises, raced>>

\* handleStartRequest
Start(w, p) ==
  /\ work[w] = Waiting
  /\ Set(w, IF worksFor[p] = Nil THEN Over ELSE Work("start", worksFor[p], p, {}, {}))
  /\ barred' = barred \ {p}
  /\ avoid' = [x \in Works |-> avoid[x] \ {p}]
  /\ UNCHANGED <<optIns, paused, today, days, monitor, sent, raced>>

\* optOutMarketing, optInMarketing: the rows of this business, if there are any.
WriteCustomer(w) ==
  LET row == <<Shop(w), work[w].phone>>
  IN /\ work[w].pc \in {"stop", "start"}
     /\ customer' = IF customer[row] = "none" THEN customer
                    ELSE [customer EXCEPT ![row] = IF Doing(w, "stop") THEN "out" ELSE "in"]
     /\ To(w, IF Doing(w, "stop") THEN "list" ELSE "unlist")
     /\ UNCHANGED <<worksFor, registry, paused, today, days, monitor, sent, promises, raced>>

\* platformOptOut: an error is logged and the reply is the same.
List(w) ==
  LET p == work[w].phone
      kept == IF Starting(p) THEN {} ELSE {p}
  IN /\ Doing(w, "list") /\ Set(w, Over)
     /\ \/ registry' = registry \cup {p} /\ barred' = barred \cup kept
        \/ UNCHANGED <<registry, barred>>
     /\ UNCHANGED <<customer, worksFor, paused, today, days, monitor, sent, avoid, raced>>

\* platformOptIn
Unlist(w) ==
  /\ Doing(w, "unlist") /\ Set(w, Over)
  /\ registry' \in {registry, registry \ {work[w].phone}}
  /\ UNCHANGED <<customer, worksFor, paused, today, days, monitor, sent, promises, raced>>

-----------------------------------------------------------------------------
\* A broadcast

\* sendBroadcast: with a template, while there is no pause, or none that can be read
\* (isBroadcastsGloballyPaused).
Begin(w, s, unread) ==
  /\ work[w] = Waiting
  /\ paused => unread
  /\ Set(w, Work("phones", s, Nil, {}, {}))
  /\ avoid' = [avoid EXCEPT ![w] = barred]
  /\ UNCHANGED <<optIns, paused, today, days, monitor, sent, barred, raced>>

\* findOptedInPhones
ReadPhones(w) ==
  LET phones == {p \in Numbers : customer[<<Shop(w), p>>] = "in"}
  IN /\ Doing(w, "phones")
     /\ Set(w, Work("filter", Shop(w), Nil, {}, phones))
     /\ UNCHANGED <<optIns, paused, today, days, monitor, sent, promises, raced>>

\* Mutant: the registry is not asked.
OptedOutNowhere(p) == FALSE

\* isPhonePlatformOptedOut
PlatformOptedOut(p) == p \in registry

AskedFor(w, p, kept) ==
  Set(w, Work("filter", Shop(w), Nil, work[w].list \cup kept, work[w].rest \ {p}))

\* filterPlatformOptedOutPhones asks for one phone after the other; if the registry
\* cannot be read the phone stays in the list, and no promise is kept.
Filter(w, p) ==
  /\ Doing(w, "filter") /\ p \in work[w].rest
  /\ \/ AskedFor(w, p, IF PlatformOptedOut(p) THEN {} ELSE {p}) /\ UNCHANGED avoid
     \/ AskedFor(w, p, {p}) /\ avoid' = [avoid EXCEPT ![w] = @ \ {p}]
  /\ UNCHANGED <<optIns, paused, today, days, monitor, sent, barred, raced>>

\* Mutant: one more than the cap.
UpToCap(s) == today[s] <= Cap

\* countTodayBroadcasts against broadcastDailyCap, and the list must not be empty.
UnderCap(s) == today[s] < Cap
Count(w) ==
  /\ Doing(w, "filter") /\ work[w].rest = {}
  /\ IF UnderCap(Shop(w)) /\ work[w].list # {} THEN To(w, "insert") ELSE Set(w, Over)
  /\ UNCHANGED <<optIns, paused, today, days, monitor, sent, promises, raced>>

\* createBroadcast, in the transaction that counted; sending goes on in the background.
Create(w) ==
  /\ Doing(w, "insert") /\ Set(w, Work("send", Shop(w), Nil, work[w].list, work[w].list))
  /\ today' = [today EXCEPT ![Shop(w)] = @ + 1]
  /\ raced' = IF \E x \in Works \ {w} : Doing(x, "insert") /\ Shop(x) = Shop(w) THEN raced \cup {Shop(w)} ELSE raced
  /\ UNCHANGED <<optIns, paused, days, monitor, sent, promises>>

\* sendBroadcastMessages; sendTextMessage does not throw, so every phone counts as
\* delivered.
Send(w, p) ==
  /\ Doing(w, "send") /\ p \in work[w].rest
  /\ sent' = [sent EXCEPT ![w] = @ \cup {p}]
  /\ Set(w, IF work[w].rest = {p} THEN Over ELSE Work("send", Shop(w), Nil, work[w].list, work[w].rest \ {p}))
  /\ UNCHANGED <<optIns, paused, today, days, monitor, promises, raced>>

-----------------------------------------------------------------------------
\* The quality monitor, midnight and a restart

\* runQualityMonitor, setBroadcastsPaused: MEDIUM and LOW pause everybody.
Pause ==
  /\ monitor = "idle" /\ paused' = TRUE
  /\ UNCHANGED <<optIns, today, days, work, monitor, sent, promises, raced>>

\* HIGH, and any error, clears a pause that it reads first.
ReadPause ==
  /\ monitor = "idle" /\ paused /\ monitor' = "clear"
  /\ UNCHANGED <<optIns, paused, today, days, work, sent, promises, raced>>
ClearPause ==
  /\ monitor = "clear" /\ monitor' = "idle" /\ paused' = FALSE
  /\ UNCHANGED <<optIns, today, days, work, sent, promises, raced>>

\* Broadcasts are counted from midnight in Kampala.
Midnight ==
  /\ days < MaxDays /\ days' = days + 1
  /\ today' = [s \in Shops |-> 0] /\ raced' = {}
  /\ UNCHANGED <<optIns, paused, work, monitor, sent, promises>>

LoseRequests ==
  /\ \E w \in Works : work[w] \notin {Waiting, Over}
  /\ work' = [w \in Works |-> IF work[w] = Waiting THEN Waiting ELSE Over]
  /\ monitor' = "idle"
  /\ UNCHANGED <<optIns, paused, today, days, sent, promises, raced>>

BroadcastsNext ==
  \/ \E s \in Shops, p \in Numbers, to \in {"none", "in", "out"} : EditCustomer(s, p, to)
  \/ \E w \in Works :
       \/ \E p \in Numbers : Stop(w, p) \/ Start(w, p) \/ Filter(w, p) \/ Send(w, p)
       \/ \E s \in Shops, unread \in BOOLEAN : Begin(w, s, unread)
       \/ WriteCustomer(w) \/ List(w) \/ Unlist(w) \/ ReadPhones(w) \/ Count(w) \/ Create(w)
  \/ Pause \/ ReadPause \/ ClearPause \/ Midnight \/ LoseRequests

BroadcastsSpec == BroadcastsInit /\ [][BroadcastsNext]_broadcastVars

-----------------------------------------------------------------------------
\* A phone whose STOP was written to the registry gets no message of a broadcast that
\* any business begins afterwards, whatever the owners enter about its opt-in, until it
\* says START or the registry could not be read for it (marketingService.ts, rule (c)).
StopIsKept == \A w \in Works : sent[w] \cap avoid[w] = {}

\* A business makes more broadcasts in a day than its cap only if two were counted
\* before either was made (marketingService.ts, rule (b)).
CapNeedsRace == \A s \in Shops : today[s] > Cap => s \in raced

-----------------------------------------------------------------------------
(* The inductive invariant behind them                                     *)

BroadcastsTypeOK ==
  /\ today \in [Shops -> Nat]
  /\ work \in [Works -> [pc : {"new", "stop", "start", "list", "unlist", "phones", "filter",
                               "insert", "send", "over"},
                         shop : Shops \cup {Nil}, phone : Numbers \cup {Nil},
                         list : SUBSET Numbers, rest : SUBSET Numbers]]
  /\ \A w \in Works : work[w].pc \in {"stop", "start", "list", "unlist"} => work[w].phone \in Numbers
  /\ sent \in [Works -> SUBSET Numbers]
  /\ avoid \in [Works -> SUBSET Numbers]
  /\ barred \subseteq Numbers /\ registry \subseteq Numbers
  /\ worksFor \in [Numbers -> Shops \cup {Nil}]

\* What is promised is in the registry, and START withdraws it before the registry does.
PromisesAreListed ==
  /\ \A w \in Works : avoid[w] \subseteq barred
  /\ barred \subseteq registry
  /\ \A w \in Works : work[w].pc \in {"start", "unlist"} => work[w].phone \notin barred

\* No list of a broadcast has a phone it must avoid.
ListsAvoid ==
  \A w \in Works :
    /\ work[w].list \cap avoid[w] = {}
    /\ Doing(w, "send") => work[w].rest \cap avoid[w] = {}
    /\ Doing(w, "new") => sent[w] = {}

\* A broadcast that was counted is under the cap until another of its business is made.
CountedIsUnderCap ==
  \A w \in Works :
    /\ work[w].pc \in {"phones", "filter", "insert", "send"} => Shop(w) \in Shops
    /\ Doing(w, "insert") => Cap > 0 /\ (Shop(w) \in raced \/ today[Shop(w)] < Cap)

BroadcastsIInv ==
  /\ BroadcastsTypeOK /\ PromisesAreListed /\ ListsAvoid /\ CountedIsUnderCap
  /\ StopIsKept /\ CapNeedsRace

=============================================================================
