-------------------------- MODULE MessagingProofs ---------------------------
(***************************************************************************)
(* Proofs about the modules of the messages: Broadcasts, Intents and       *)
(* Chats, for any number of businesses, phones, messages and requests.     *)
(***************************************************************************)
EXTENDS Broadcasts, Chats, SequenceTheorems, WellFoundedInduction, TLAPS

-----------------------------------------------------------------------------
(***************************************************************************)
(* Broadcasts.  What a broadcast must avoid is in the registry when it     *)
(* filters (PromisesAreListed), so no list it has still to send to names   *)
(* such a phone (ListsAvoid); and one that was counted is under the cap    *)
(* unless another of its business came between (CountedIsUnderCap).        *)
(***************************************************************************)

BroadcastPcs == {"new", "stop", "start", "list", "unlist", "phones", "filter",
                 "insert", "send", "over"}
WorkRecords == [pc : BroadcastPcs, shop : Shops \cup {Nil}, phone : Numbers \cup {Nil},
                list : SUBSET Numbers, rest : SUBSET Numbers]

\* What a request is made of, and where it goes.
LEMMA WorkIsARecord ==
  ASSUME NEW pc \in BroadcastPcs, NEW shop \in Shops \cup {Nil}, NEW phone \in Numbers \cup {Nil},
         NEW list \in SUBSET Numbers, NEW rest \in SUBSET Numbers
  PROVE  /\ Work(pc, shop, phone, list, rest) \in WorkRecords
         /\ Work(pc, shop, phone, list, rest).pc = pc
         /\ Work(pc, shop, phone, list, rest).shop = shop
         /\ Work(pc, shop, phone, list, rest).phone = phone
         /\ Work(pc, shop, phone, list, rest).list = list
         /\ Work(pc, shop, phone, list, rest).rest = rest
BY DEF Work, WorkRecords

LEMMA RestingRecords ==
  /\ Waiting \in WorkRecords /\ Waiting.pc = "new" /\ Waiting.list = {} /\ Waiting.rest = {}
  /\ Over \in WorkRecords /\ Over.pc = "over" /\ Over.list = {} /\ Over.rest = {}
  /\ Waiting # Over
BY DEF Waiting, Over, Work, WorkRecords, BroadcastPcs

LEMMA WorksAreTyped ==
  ASSUME BroadcastsTypeOK, NEW w \in Works
  PROVE  /\ work[w] \in WorkRecords
         /\ work[w].pc \in BroadcastPcs /\ work[w].shop \in Shops \cup {Nil}
         /\ work[w].phone \in Numbers \cup {Nil}
         /\ work[w].list \in SUBSET Numbers /\ work[w].rest \in SUBSET Numbers
BY DEF BroadcastsTypeOK, WorkRecords, BroadcastPcs

LEMMA SetMovesOne ==
  ASSUME BroadcastsTypeOK, NEW w \in Works, NEW r \in WorkRecords, Set(w, r)
  PROVE  /\ work'[w] = r
         /\ \A x \in Works : x # w => work'[x] = work[x]
         /\ work' \in [Works -> WorkRecords]
<1>1. work \in [Works -> WorkRecords]
  BY DEF BroadcastsTypeOK, WorkRecords, BroadcastPcs
<1> QED
  BY <1>1 DEF Set

-----------------------------------------------------------------------------
\* The first states keep all of it.
LEMMA BroadcastsInitially == BroadcastsInit => BroadcastsIInv
<1> SUFFICES ASSUME BroadcastsInit PROVE BroadcastsIInv
  OBVIOUS
<1>1. BroadcastsTypeOK
  BY RestingRecords DEF BroadcastsInit, BroadcastsTypeOK, WorkRecords, BroadcastPcs
<1>2. PromisesAreListed /\ ListsAvoid /\ CountedIsUnderCap /\ StopIsKept
  BY RestingRecords DEF BroadcastsInit, PromisesAreListed, ListsAvoid, CountedIsUnderCap, StopIsKept, Doing
<1>3. CapNeedsRace
  <2> SUFFICES ASSUME NEW s \in Shops PROVE ~(today[s] > Cap)
    BY DEF CapNeedsRace
  <2> today[s] = 0 /\ Cap \in Nat
    BY BroadcastAssumption DEF BroadcastsInit
  <2> QED
    OBVIOUS
<1> QED
  BY <1>1, <1>2, <1>3 DEF BroadcastsIInv

\* A step that leaves the requests, the promises and the counts alone keeps all of it.
LEMMA BroadcastsUnmoved ==
  ASSUME BroadcastsIInv, UNCHANGED <<worksFor, registry, today, work, sent, promises, raced>>
  PROVE  BroadcastsIInv'
BY DEF BroadcastsIInv, BroadcastsTypeOK, PromisesAreListed, ListsAvoid, CountedIsUnderCap,
       StopIsKept, CapNeedsRace, Doing, Shop, promises

\* A request goes on to a state where no phone is sent to and nothing is counted; the
\* promises stay.
LEMMA QuietStep ==
  ASSUME BroadcastsIInv, NEW w \in Works, NEW r \in WorkRecords, Set(w, r),
         r.pc \in {"stop", "start", "list", "unlist", "phones", "filter", "over"},
         r.pc \in {"stop", "start", "list", "unlist"} => r.phone \in Numbers,
         r.pc \in {"start", "unlist"} => r.phone \notin barred,
         r.pc \in {"phones", "filter"} => r.shop \in Shops,
         r.list \cap avoid[w] = {},
         UNCHANGED <<worksFor, registry, today, sent, promises, raced>>
  PROVE  BroadcastsIInv'
<1>1. /\ work'[w] = r
      /\ \A x \in Works : x # w => work'[x] = work[x]
      /\ work' \in [Works -> WorkRecords]
  BY SetMovesOne DEF BroadcastsIInv
<1>2. BroadcastsTypeOK'
  BY <1>1 DEF BroadcastsIInv, BroadcastsTypeOK, WorkRecords, BroadcastPcs, promises
<1>3. PromisesAreListed'
  BY <1>1 DEF BroadcastsIInv, PromisesAreListed, promises
<1>4. ListsAvoid'
  BY <1>1 DEF BroadcastsIInv, ListsAvoid, promises, Doing
<1>5. CountedIsUnderCap'
  BY <1>1 DEF BroadcastsIInv, CountedIsUnderCap, Doing, Shop
<1>6. StopIsKept' /\ CapNeedsRace'
  BY DEF BroadcastsIInv, StopIsKept, CapNeedsRace, promises
<1> QED
  BY <1>2, <1>3, <1>4, <1>5, <1>6 DEF BroadcastsIInv

\* A request that ends keeps all of it.
LEMMA EndKeeps ==
  ASSUME BroadcastsIInv, NEW w \in Works, Set(w, Over),
         UNCHANGED <<worksFor, registry, today, sent, promises, raced>>
  PROVE  BroadcastsIInv'
BY RestingRecords, QuietStep

-----------------------------------------------------------------------------
\* STOP and START

LEMMA StopKeeps ==
  ASSUME BroadcastsIInv, NEW w \in Works, NEW p \in Numbers, Stop(w, p)
  PROVE  BroadcastsIInv'
<1>1. UNCHANGED <<worksFor, registry, today, sent, promises, raced>>
  BY DEF Stop, optIns
<1>2. CASE worksFor[p] = Nil
  BY <1>1, <1>2, EndKeeps DEF Stop
<1>3. CASE worksFor[p] # Nil
  <2> DEFINE r == Work("stop", worksFor[p], p, {}, {})
  <2>1. worksFor[p] \in Shops \cup {Nil}
    BY DEF BroadcastsIInv, BroadcastsTypeOK
  <2>2. r \in WorkRecords /\ r.pc = "stop" /\ r.list = {} /\ r.phone = p
    BY <2>1, WorkIsARecord DEF BroadcastPcs
  <2>3. Set(w, r)
    BY <1>3 DEF Stop
  <2> HIDE DEF r
  <2> QED
    BY <1>1, <2>2, <2>3, QuietStep
<1> QED
  BY <1>2, <1>3

LEMMA StartKeeps ==
  ASSUME BroadcastsIInv, NEW w \in Works, NEW p \in Numbers, Start(w, p)
  PROVE  BroadcastsIInv'
<1> DEFINE r == IF worksFor[p] = Nil THEN Over ELSE Work("start", worksFor[p], p, {}, {})
<1>1. worksFor[p] \in Shops \cup {Nil}
  BY DEF BroadcastsIInv, BroadcastsTypeOK
<1>2. /\ r \in WorkRecords /\ r.pc \in {"start", "over"} /\ r.list = {}
      /\ r.pc = "start" => r.phone = p
  BY <1>1, RestingRecords, WorkIsARecord DEF BroadcastPcs
<1>3. Set(w, r)
  BY DEF Start
<1>4. /\ UNCHANGED <<worksFor, registry, today, sent, raced>>
      /\ barred' = barred \ {p}
      /\ avoid' = [x \in Works |-> avoid[x] \ {p}]
  BY DEF Start, optIns
<1> HIDE DEF r
<1>5. /\ work'[w] = r
      /\ \A x \in Works : x # w => work'[x] = work[x]
      /\ work' \in [Works -> WorkRecords]
  BY <1>2, <1>3, SetMovesOne DEF BroadcastsIInv
<1>6. BroadcastsTypeOK'
  BY <1>2, <1>4, <1>5 DEF BroadcastsIInv, BroadcastsTypeOK, WorkRecords, BroadcastPcs
<1>7. PromisesAreListed'
  BY <1>2, <1>4, <1>5 DEF BroadcastsIInv, PromisesAreListed
<1>8. ListsAvoid'
  BY <1>2, <1>4, <1>5 DEF BroadcastsIInv, ListsAvoid, Doing
<1>9. CountedIsUnderCap'
  BY <1>2, <1>4, <1>5 DEF BroadcastsIInv, CountedIsUnderCap, Doing, Shop
<1>10. StopIsKept' /\ CapNeedsRace'
  BY <1>4 DEF BroadcastsIInv, StopIsKept, CapNeedsRace
<1> QED
  BY <1>6, <1>7, <1>8, <1>9, <1>10 DEF BroadcastsIInv

LEMMA WriteCustomerKeeps ==
  ASSUME BroadcastsIInv, NEW w \in Works, WriteCustomer(w)
  PROVE  BroadcastsIInv'
<1> DEFINE pc == IF Doing(w, "stop") THEN "list" ELSE "unlist"
           full == Work(pc, Shop(w), work[w].phone, work[w].list, work[w].rest)
<1>1. /\ work[w].shop \in Shops \cup {Nil} /\ work[w].phone \in Numbers \cup {Nil}
      /\ work[w].list \in SUBSET Numbers /\ work[w].rest \in SUBSET Numbers
  BY WorksAreTyped DEF BroadcastsIInv
<1>2. pc \in BroadcastPcs
  BY DEF BroadcastPcs
<1>3. /\ full \in WorkRecords /\ full.pc = pc /\ full.phone = work[w].phone
      /\ full.list = work[w].list
  BY <1>1, <1>2 DEF Shop, Work, WorkRecords
<1>4. Set(w, full) /\ work[w].pc \in {"stop", "start"}
  BY DEF WriteCustomer, To
<1>5. UNCHANGED <<worksFor, registry, today, sent, promises, raced>>
  BY DEF WriteCustomer
<1>6. pc = "list" \/ (pc = "unlist" /\ work[w].pc = "start")
  BY <1>4 DEF Doing
<1> HIDE DEF pc, full
<1>7. work[w].phone \in Numbers
  BY <1>4 DEF BroadcastsIInv, BroadcastsTypeOK
<1>8. pc = "unlist" => work[w].phone \notin barred
  BY <1>6 DEF BroadcastsIInv, PromisesAreListed
<1>9. work[w].list \cap avoid[w] = {}
  BY DEF BroadcastsIInv, ListsAvoid
<1> QED
  BY <1>3, <1>4, <1>5, <1>6, <1>7, <1>8, <1>9, QuietStep

LEMMA ListKeeps ==
  ASSUME BroadcastsIInv, NEW w \in Works, List(w)
  PROVE  BroadcastsIInv'
<1>1. /\ Over \in WorkRecords /\ Over.pc = "over" /\ Over.list = {}
      /\ Set(w, Over) /\ Doing(w, "list")
      /\ UNCHANGED <<worksFor, today, sent, avoid, raced>>
  BY RestingRecords DEF List
<1>2. CASE registry' = registry /\ barred' = barred
  BY <1>1, <1>2, EndKeeps DEF promises
<1>3. CASE /\ registry' = registry \cup {work[w].phone}
           /\ barred' = barred \cup (IF Starting(work[w].phone) THEN {} ELSE {work[w].phone})
  <2>1. PICK p \in Numbers : p = work[w].phone
    BY <1>1 DEF BroadcastsIInv, BroadcastsTypeOK, Doing
  <2>2. PICK kept \in SUBSET {p} : kept = IF Starting(p) THEN {} ELSE {p}
    OBVIOUS
  <2>3. registry' = registry \cup {p} /\ barred' = barred \cup kept
    BY <1>3, <2>1, <2>2
  <2>4. /\ work'[w] = Over
        /\ \A x \in Works : x # w => work'[x] = work[x]
        /\ work' \in [Works -> WorkRecords]
    BY <1>1, SetMovesOne DEF BroadcastsIInv
  <2>5. \A x \in Works : work[x].pc \in {"start", "unlist"} => work[x].phone \notin kept
    BY <2>2 DEF Starting
  <2>6. BroadcastsTypeOK'
    BY <1>1, <2>3, <2>4 DEF BroadcastsIInv, BroadcastsTypeOK, WorkRecords, BroadcastPcs
  <2>7. PromisesAreListed'
    BY <1>1, <2>3, <2>4, <2>5 DEF BroadcastsIInv, PromisesAreListed
  <2>8. ListsAvoid'
    BY <1>1, <2>4 DEF BroadcastsIInv, ListsAvoid, Doing
  <2>9. CountedIsUnderCap'
    BY <1>1, <2>4 DEF BroadcastsIInv, CountedIsUnderCap, Doing, Shop
  <2>10. StopIsKept' /\ CapNeedsRace'
    BY <1>1 DEF BroadcastsIInv, StopIsKept, CapNeedsRace
  <2> QED
    BY <2>6, <2>7, <2>8, <2>9, <2>10 DEF BroadcastsIInv
<1> QED
  BY <1>2, <1>3 DEF List

LEMMA UnlistKeeps ==
  ASSUME BroadcastsIInv, NEW w \in Works, Unlist(w)
  PROVE  BroadcastsIInv'
<1>1. /\ Over \in WorkRecords /\ Over.pc = "over" /\ Over.list = {}
      /\ Set(w, Over) /\ Doing(w, "unlist")
      /\ UNCHANGED <<worksFor, today, sent, promises, raced>>
  BY RestingRecords DEF Unlist
<1>2. CASE registry' = registry
  BY <1>1, <1>2, EndKeeps
<1>3. CASE registry' = registry \ {work[w].phone}
  <2>1. work[w].phone \notin barred
    BY <1>1 DEF BroadcastsIInv, PromisesAreListed, Doing
  <2>2. /\ work'[w] = Over
        /\ \A x \in Works : x # w => work'[x] = work[x]
        /\ work' \in [Works -> WorkRecords]
    BY <1>1, SetMovesOne DEF BroadcastsIInv
  <2>3. BroadcastsTypeOK'
    BY <1>1, <1>3, <2>2 DEF BroadcastsIInv, BroadcastsTypeOK, WorkRecords, BroadcastPcs, promises
  <2>4. PromisesAreListed'
    BY <1>1, <1>3, <2>1, <2>2 DEF BroadcastsIInv, PromisesAreListed, promises
  <2>5. ListsAvoid'
    BY <1>1, <2>2 DEF BroadcastsIInv, ListsAvoid, Doing, promises
  <2>6. CountedIsUnderCap'
    BY <1>1, <2>2 DEF BroadcastsIInv, CountedIsUnderCap, Doing, Shop
  <2>7. StopIsKept' /\ CapNeedsRace'
    BY <1>1 DEF BroadcastsIInv, StopIsKept, CapNeedsRace, promises
  <2> QED
    BY <2>3, <2>4, <2>5, <2>6, <2>7 DEF BroadcastsIInv
<1> QED
  BY <1>2, <1>3 DEF Unlist

-----------------------------------------------------------------------------
\* A broadcast

LEMMA BeginKeeps ==
  ASSUME BroadcastsIInv, NEW w \in Works, NEW s \in Shops, NEW unread \in BOOLEAN, Begin(w, s, unread)
  PROVE  BroadcastsIInv'
<1> DEFINE r == Work("phones", s, Nil, {}, {})
<1>1. r \in WorkRecords /\ r.pc = "phones" /\ r.shop = s /\ r.list = {}
  BY WorkIsARecord DEF BroadcastPcs
<1>2. /\ Set(w, r) /\ work[w].pc = "new"
      /\ UNCHANGED <<worksFor, registry, today, sent, barred, raced>>
      /\ avoid' = [avoid EXCEPT ![w] = barred]
  BY RestingRecords DEF Begin, optIns
<1> HIDE DEF r
<1>3. /\ work'[w] = r
      /\ \A x \in Works : x # w => work'[x] = work[x]
      /\ work' \in [Works -> WorkRecords]
  BY <1>1, <1>2, SetMovesOne DEF BroadcastsIInv
<1>4. avoid'[w] = barred /\ \A x \in Works : x # w => avoid'[x] = avoid[x]
  BY <1>2 DEF BroadcastsIInv, BroadcastsTypeOK
<1>5. BroadcastsTypeOK'
  BY <1>1, <1>2, <1>3 DEF BroadcastsIInv, BroadcastsTypeOK, WorkRecords, BroadcastPcs
<1>6. PromisesAreListed'
  BY <1>1, <1>2, <1>3, <1>4 DEF BroadcastsIInv, PromisesAreListed
<1>7. ListsAvoid'
  BY <1>1, <1>2, <1>3, <1>4 DEF BroadcastsIInv, ListsAvoid, Doing
<1>8. CountedIsUnderCap'
  BY <1>1, <1>2, <1>3 DEF BroadcastsIInv, CountedIsUnderCap, Doing, Shop
<1>9. StopIsKept'
  BY <1>2, <1>4 DEF BroadcastsIInv, StopIsKept, ListsAvoid, Doing
<1>10. CapNeedsRace'
  BY <1>2 DEF BroadcastsIInv, CapNeedsRace
<1> QED
  BY <1>5, <1>6, <1>7, <1>8, <1>9, <1>10 DEF BroadcastsIInv

LEMMA ReadPhonesKeeps ==
  ASSUME BroadcastsIInv, NEW w \in Works, ReadPhones(w)
  PROVE  BroadcastsIInv'
<1> DEFINE phones == {p \in Numbers : customer[<<Shop(w), p>>] = "in"}
           r == Work("filter", Shop(w), Nil, {}, phones)
<1>1. Shop(w) \in Shops
  BY DEF ReadPhones, BroadcastsIInv, CountedIsUnderCap, Doing
<1>2. r \in WorkRecords /\ r.pc = "filter" /\ r.shop = Shop(w) /\ r.list = {}
  BY <1>1 DEF BroadcastPcs, Work, WorkRecords
<1>3. Set(w, r)
  BY DEF ReadPhones
<1>4. UNCHANGED <<worksFor, registry, today, sent, promises, raced>>
  BY DEF ReadPhones, optIns
<1> HIDE DEF r
<1> QED
  BY <1>1, <1>2, <1>3, <1>4, QuietStep

\* What is left of a broadcast after a phone was asked for.
LEMMA AskedIsTyped ==
  ASSUME BroadcastsIInv, NEW w \in Works, Doing(w, "filter")
  PROVE  /\ Shop(w) \in Shops
         /\ \A p \in Numbers : \A kept \in SUBSET {p} :
              work[w].list \cup kept \in SUBSET Numbers /\ work[w].rest \ {p} \in SUBSET Numbers
<1>1. Shop(w) \in Shops
  BY DEF BroadcastsIInv, CountedIsUnderCap, Doing
<1>2. work[w].list \in SUBSET Numbers /\ work[w].rest \in SUBSET Numbers
  BY WorksAreTyped DEF BroadcastsIInv
<1> QED
  BY <1>1, <1>2

LEMMA FilterKeeps ==
  ASSUME BroadcastsIInv, NEW w \in Works, NEW p \in Numbers, Filter(w, p)
  PROVE  BroadcastsIInv'
<1>1. /\ Doing(w, "filter")
      /\ UNCHANGED <<worksFor, registry, today, sent, barred, raced>>
  BY DEF Filter, optIns
<1>2. work[w].list \cap avoid[w] = {} /\ avoid[w] \subseteq registry
  BY DEF BroadcastsIInv, ListsAvoid, PromisesAreListed
<1>3. CASE AskedFor(w, p, IF PlatformOptedOut(p) THEN {} ELSE {p}) /\ UNCHANGED avoid
  <2>1. PICK kept \in SUBSET {p} : kept = IF PlatformOptedOut(p) THEN {} ELSE {p}
    OBVIOUS
  <2>2. PICK r : r = Work("filter", Shop(w), Nil, work[w].list \cup kept, work[w].rest \ {p})
    OBVIOUS
  <2>3. Set(w, r)
    BY <1>3, <2>1, <2>2 DEF AskedFor
  <2>4. kept \cap avoid[w] = {}
    BY <1>2, <2>1 DEF PlatformOptedOut
  <2>5. /\ r \in WorkRecords /\ r.pc = "filter" /\ r.shop \in Shops
        /\ r.list \cap avoid[w] = {}
    <3>1. /\ r \in WorkRecords /\ r.pc = "filter" /\ r.shop \in Shops
          /\ r.list = work[w].list \cup kept
      <4>1. /\ Shop(w) \in Shops /\ work[w].list \cup kept \in SUBSET Numbers
            /\ work[w].rest \ {p} \in SUBSET Numbers
        BY <1>1, AskedIsTyped
      <4> QED
        BY <2>2, <4>1 DEF Work, WorkRecords, BroadcastPcs
    <3> QED
      BY <1>2, <2>4, <3>1
  <2> QED
    BY <1>1, <1>3, <2>3, <2>5, QuietStep DEF promises
<1>4. CASE AskedFor(w, p, {p}) /\ avoid' = [avoid EXCEPT ![w] = @ \ {p}]
  <2>1. PICK r : r = Work("filter", Shop(w), Nil, work[w].list \cup {p}, work[w].rest \ {p})
    OBVIOUS
  <2>2. Set(w, r)
    BY <1>4, <2>1 DEF AskedFor
  <2>3. /\ r \in WorkRecords /\ r.pc = "filter" /\ r.shop \in Shops
        /\ r.list = work[w].list \cup {p}
    <3>1. /\ Shop(w) \in Shops /\ work[w].list \cup {p} \in SUBSET Numbers
          /\ work[w].rest \ {p} \in SUBSET Numbers
      <4>1. /\ Shop(w) \in Shops
            /\ \A kept \in SUBSET {p} :
                 work[w].list \cup kept \in SUBSET Numbers /\ work[w].rest \ {p} \in SUBSET Numbers
        BY <1>1, AskedIsTyped
      <4>2. {p} \in SUBSET {p}
        OBVIOUS
      <4> QED
        BY <4>1, <4>2
    <3> QED
      BY <2>1, <3>1 DEF Work, WorkRecords, BroadcastPcs
  <2>4. avoid'[w] = avoid[w] \ {p} /\ \A x \in Works : x # w => avoid'[x] = avoid[x]
    BY <1>4 DEF BroadcastsIInv, BroadcastsTypeOK
  <2>5. /\ work'[w] = r
        /\ \A x \in Works : x # w => work'[x] = work[x]
        /\ work' \in [Works -> WorkRecords]
    BY <2>2, <2>3, SetMovesOne DEF BroadcastsIInv
  <2>6. BroadcastsTypeOK'
    BY <1>1, <1>4, <2>3, <2>5 DEF BroadcastsIInv, BroadcastsTypeOK, WorkRecords, BroadcastPcs
  <2>7. PromisesAreListed'
    BY <1>1, <2>3, <2>4, <2>5 DEF BroadcastsIInv, PromisesAreListed
  <2>8. ListsAvoid'
    BY <1>1, <1>2, <2>3, <2>4, <2>5 DEF BroadcastsIInv, ListsAvoid, Doing
  <2>9. CountedIsUnderCap'
    BY <1>1, <2>3, <2>5 DEF BroadcastsIInv, CountedIsUnderCap, Doing, Shop
  <2>10. StopIsKept' /\ CapNeedsRace'
    BY <1>1, <2>4 DEF BroadcastsIInv, StopIsKept, CapNeedsRace
  <2> QED
    BY <2>6, <2>7, <2>8, <2>9, <2>10 DEF BroadcastsIInv
<1> QED
  BY <1>3, <1>4 DEF Filter

LEMMA CountKeeps ==
  ASSUME BroadcastsIInv, NEW w \in Works, Count(w)
  PROVE  BroadcastsIInv'
<1>1. /\ Doing(w, "filter")
      /\ UNCHANGED <<worksFor, registry, today, sent, promises, raced>>
  BY DEF Count, optIns
<1>2. CASE UnderCap(Shop(w)) /\ work[w].list # {}
  <2>1. PICK r : r = Work("insert", Shop(w), work[w].phone, work[w].list, work[w].rest)
    OBVIOUS
  <2>2. Set(w, r)
    BY <1>2, <2>1 DEF Count, To
  <2>3. Shop(w) \in Shops
    BY <1>1 DEF BroadcastsIInv, CountedIsUnderCap, Doing
  <2>4. /\ r \in WorkRecords /\ r.pc = "insert" /\ r.shop = Shop(w) /\ r.list = work[w].list
    BY <2>1, <2>3, WorksAreTyped, WorkIsARecord DEF BroadcastsIInv, BroadcastPcs
  <2>5. today[Shop(w)] \in Nat /\ today[Shop(w)] < Cap
    BY <1>2, <2>3 DEF UnderCap, BroadcastsIInv, BroadcastsTypeOK
  <2>6. Cap > 0
    BY <2>5, BroadcastAssumption
  <2>7. /\ work'[w] = r
        /\ \A x \in Works : x # w => work'[x] = work[x]
        /\ work' \in [Works -> WorkRecords]
    BY <2>2, <2>4, SetMovesOne DEF BroadcastsIInv
  <2>8. BroadcastsTypeOK'
    BY <1>1, <2>4, <2>7 DEF BroadcastsIInv, BroadcastsTypeOK, WorkRecords, BroadcastPcs, promises
  <2>9. PromisesAreListed'
    BY <1>1, <2>4, <2>7 DEF BroadcastsIInv, PromisesAreListed, promises
  <2>10. ListsAvoid'
    BY <1>1, <2>4, <2>7 DEF BroadcastsIInv, ListsAvoid, Doing, promises
  <2>11. CountedIsUnderCap'
    BY <1>1, <2>3, <2>4, <2>5, <2>6, <2>7 DEF BroadcastsIInv, CountedIsUnderCap, Doing, Shop
  <2>12. StopIsKept' /\ CapNeedsRace'
    BY <1>1 DEF BroadcastsIInv, StopIsKept, CapNeedsRace, promises
  <2> QED
    BY <2>8, <2>9, <2>10, <2>11, <2>12 DEF BroadcastsIInv
<1>3. CASE ~(UnderCap(Shop(w)) /\ work[w].list # {})
  BY <1>1, <1>3, EndKeeps DEF Count
<1> QED
  BY <1>2, <1>3

LEMMA CreateKeeps ==
  ASSUME BroadcastsIInv, NEW w \in Works, Create(w)
  PROVE  BroadcastsIInv'
<1> DEFINE others == \E x \in Works \ {w} : Doing(x, "insert") /\ Shop(x) = Shop(w)
<1>1. PICK s \in Shops : s = Shop(w)
  BY DEF Create, BroadcastsIInv, CountedIsUnderCap, Doing
<1>2. PICK r : r = Work("send", s, Nil, work[w].list, work[w].list)
  OBVIOUS
<1>3. /\ Set(w, r) /\ Doing(w, "insert")
      /\ UNCHANGED <<worksFor, registry, sent, promises>>
      /\ today' = [today EXCEPT ![s] = @ + 1]
      /\ raced' = IF others THEN raced \cup {s} ELSE raced
  BY <1>1, <1>2 DEF Create, optIns
<1>4. /\ r \in WorkRecords /\ r.pc = "send" /\ r.shop = s
      /\ r.list = work[w].list /\ r.rest = work[w].list
  BY <1>2, WorksAreTyped, WorkIsARecord DEF BroadcastsIInv, BroadcastPcs
<1>5. /\ work'[w] = r
      /\ \A x \in Works : x # w => work'[x] = work[x]
      /\ work' \in [Works -> WorkRecords]
  BY <1>3, <1>4, SetMovesOne DEF BroadcastsIInv
<1>6. /\ today' \in [Shops -> Nat] /\ today'[s] = today[s] + 1 /\ today[s] \in Nat
      /\ \A t \in Shops : t # s => today'[t] = today[t]
  BY <1>3 DEF BroadcastsIInv, BroadcastsTypeOK
<1>7. BroadcastsTypeOK'
  BY <1>3, <1>4, <1>5, <1>6 DEF BroadcastsIInv, BroadcastsTypeOK, WorkRecords, BroadcastPcs, promises
<1>8. PromisesAreListed'
  BY <1>3, <1>4, <1>5 DEF BroadcastsIInv, PromisesAreListed, promises
<1>9. ListsAvoid'
  BY <1>3, <1>4, <1>5 DEF BroadcastsIInv, ListsAvoid, Doing, promises
<1>10. StopIsKept'
  BY <1>3 DEF BroadcastsIInv, StopIsKept, promises
<1>11. raced \subseteq raced' /\ (others => s \in raced')
  BY <1>3
<1>12. CountedIsUnderCap'
  <2>1. SUFFICES ASSUME NEW x \in Works
                 PROVE  /\ work'[x].pc \in {"phones", "filter", "insert", "send"} => work'[x].shop \in Shops
                        /\ work'[x].pc = "insert" =>
                             Cap > 0 /\ (work'[x].shop \in raced' \/ today'[work'[x].shop] < Cap)
    BY DEF CountedIsUnderCap, Doing, Shop
  <2>2. CASE x = w
    BY <1>4, <1>5, <2>2
  <2>3. CASE x # w
    <3>1. work'[x] = work[x]
      BY <1>5, <2>3
    <3>2. work[x].pc \in {"phones", "filter", "insert", "send"} => work[x].shop \in Shops
      BY DEF BroadcastsIInv, CountedIsUnderCap, Shop
    <3>3. work[x].pc = "insert" => Cap > 0 /\ (work[x].shop \in raced \/ today[work[x].shop] < Cap)
      BY DEF BroadcastsIInv, CountedIsUnderCap, Shop, Doing
    <3>4. work[x].pc = "insert" /\ work[x].shop = s => others
      BY <1>1, <2>3 DEF Doing, Shop
    <3>5. work[x].shop \in Shops /\ work[x].shop # s => today'[work[x].shop] = today[work[x].shop]
      BY <1>6
    <3> HIDE DEF others
    <3> QED
      BY <1>11, <3>1, <3>2, <3>3, <3>4, <3>5
  <2> QED
    BY <2>2, <2>3
<1>13. CapNeedsRace'
  <2>1. SUFFICES ASSUME NEW t \in Shops, today'[t] > Cap
                 PROVE  t \in raced'
    BY DEF CapNeedsRace
  <2>2. CASE t # s
    BY <1>6, <1>11, <2>1, <2>2 DEF BroadcastsIInv, CapNeedsRace
  <2>3. CASE t = s
    <3>1. s \in raced \/ today[s] < Cap
      BY <1>1, <1>3 DEF BroadcastsIInv, CountedIsUnderCap
    <3>2. Cap \in Nat
      BY BroadcastAssumption
    <3>3. ~(today[s] < Cap)
      BY <1>6, <2>1, <2>3, <3>2
    <3> QED
      BY <1>11, <2>3, <3>1, <3>3
  <2> QED
    BY <2>2, <2>3
<1> QED
  BY <1>7, <1>8, <1>9, <1>10, <1>12, <1>13 DEF BroadcastsIInv

LEMMA SendKeeps ==
  ASSUME BroadcastsIInv, NEW w \in Works, NEW p \in Numbers, Send(w, p)
  PROVE  BroadcastsIInv'
<1>1. PICK r : r = IF work[w].rest = {p} THEN Over
                   ELSE Work("send", Shop(w), Nil, work[w].list, work[w].rest \ {p})
  OBVIOUS
<1>2. /\ Set(w, r) /\ Doing(w, "send") /\ p \in work[w].rest
      /\ UNCHANGED <<worksFor, registry, today, promises, raced>>
      /\ sent' = [sent EXCEPT ![w] = @ \cup {p}]
  BY <1>1 DEF Send, optIns
<1>3. /\ Shop(w) \in Shops
      /\ work[w].list \cap avoid[w] = {} /\ work[w].rest \cap avoid[w] = {}
  BY <1>2 DEF BroadcastsIInv, CountedIsUnderCap, ListsAvoid, Doing
<1>4. work[w].list \in SUBSET Numbers /\ work[w].rest \in SUBSET Numbers
  BY WorksAreTyped DEF BroadcastsIInv
<1>5. /\ r \in WorkRecords /\ r.pc \in {"send", "over"} /\ (r.pc = "send" => r.shop \in Shops)
      /\ r.list \cap avoid[w] = {} /\ r.rest \cap avoid[w] = {}
  <2>1. CASE work[w].rest = {p}
    BY <1>1, <2>1, RestingRecords
  <2>2. CASE work[w].rest # {p}
    <3>1. work[w].rest \ {p} \in SUBSET Numbers
      BY <1>4
    <3> QED
      BY <1>1, <1>3, <1>4, <2>2, <3>1 DEF BroadcastPcs, Work, WorkRecords
  <2> QED
    BY <2>1, <2>2
<1>6. /\ work'[w] = r
      /\ \A x \in Works : x # w => work'[x] = work[x]
      /\ work' \in [Works -> WorkRecords]
  BY <1>2, <1>5, SetMovesOne DEF BroadcastsIInv
<1>7. sent'[w] = sent[w] \cup {p} /\ \A x \in Works : x # w => sent'[x] = sent[x]
  BY <1>2 DEF BroadcastsIInv, BroadcastsTypeOK
<1>8. BroadcastsTypeOK'
  BY <1>2, <1>5, <1>6 DEF BroadcastsIInv, BroadcastsTypeOK, WorkRecords, BroadcastPcs, promises
<1>9. PromisesAreListed'
  BY <1>2, <1>5, <1>6 DEF BroadcastsIInv, PromisesAreListed, promises
<1>10. ListsAvoid'
  BY <1>2, <1>5, <1>6, <1>7 DEF BroadcastsIInv, ListsAvoid, Doing, promises
<1>11. CountedIsUnderCap'
  BY <1>2, <1>5, <1>6 DEF BroadcastsIInv, CountedIsUnderCap, Doing, Shop
<1>12. StopIsKept'
  BY <1>2, <1>3, <1>7 DEF BroadcastsIInv, StopIsKept, promises
<1>13. CapNeedsRace'
  BY <1>2 DEF BroadcastsIInv, CapNeedsRace
<1> QED
  BY <1>8, <1>9, <1>10, <1>11, <1>12, <1>13 DEF BroadcastsIInv

-----------------------------------------------------------------------------
\* Midnight and a restart

LEMMA MidnightKeeps == ASSUME BroadcastsIInv, Midnight PROVE BroadcastsIInv'
<1>1. /\ UNCHANGED <<worksFor, registry, work, sent, promises>>
      /\ today' = [s \in Shops |-> 0]
  BY DEF Midnight, optIns
<1>2. Cap \in Nat
  BY BroadcastAssumption
<1>3. BroadcastsTypeOK' /\ PromisesAreListed' /\ ListsAvoid' /\ StopIsKept'
  BY <1>1 DEF BroadcastsIInv, BroadcastsTypeOK, PromisesAreListed, ListsAvoid, StopIsKept,
              Doing, promises
<1>4. CapNeedsRace'
  <2> SUFFICES ASSUME NEW s \in Shops PROVE ~(today'[s] > Cap)
    BY DEF CapNeedsRace
  <2>1. today'[s] = 0
    BY <1>1
  <2> QED
    BY <1>2, <2>1
<1>5. CountedIsUnderCap'
  <2> SUFFICES ASSUME NEW w \in Works
               PROVE  /\ work[w].pc \in {"phones", "filter", "insert", "send"} => work[w].shop \in Shops
                      /\ work[w].pc = "insert" => Cap > 0 /\ today'[work[w].shop] < Cap
    BY <1>1 DEF CountedIsUnderCap, Doing, Shop
  <2>1. /\ work[w].pc \in {"phones", "filter", "insert", "send"} => work[w].shop \in Shops
        /\ work[w].pc = "insert" => Cap > 0
    BY DEF BroadcastsIInv, CountedIsUnderCap, Doing, Shop
  <2>2. \A s \in Shops : today'[s] = 0
    BY <1>1
  <2> QED
    BY <2>1, <2>2, <1>2
<1> QED
  BY <1>3, <1>4, <1>5 DEF BroadcastsIInv

LEMMA LoseRequestsKeeps == ASSUME BroadcastsIInv, LoseRequests PROVE BroadcastsIInv'
<1>1. /\ UNCHANGED <<worksFor, registry, today, sent, promises, raced>>
      /\ work' = [w \in Works |-> IF work[w] = Waiting THEN Waiting ELSE Over]
  BY DEF LoseRequests, optIns
<1>2. \A w \in Works : (work'[w] = Waiting /\ work[w] = Waiting) \/ work'[w] = Over
  BY <1>1
<1>3. BroadcastsTypeOK'
  BY <1>1, <1>2, RestingRecords DEF BroadcastsIInv, BroadcastsTypeOK, WorkRecords, BroadcastPcs, promises
<1>4. PromisesAreListed'
  BY <1>1, <1>2, RestingRecords DEF BroadcastsIInv, PromisesAreListed, promises
<1>5. ListsAvoid'
  BY <1>1, <1>2, RestingRecords DEF BroadcastsIInv, ListsAvoid, promises, Doing
<1>6. CountedIsUnderCap'
  BY <1>1, <1>2, RestingRecords DEF BroadcastsIInv, CountedIsUnderCap, Doing, Shop
<1>7. StopIsKept' /\ CapNeedsRace'
  BY <1>1 DEF BroadcastsIInv, StopIsKept, CapNeedsRace, promises
<1> QED
  BY <1>3, <1>4, <1>5, <1>6, <1>7 DEF BroadcastsIInv

-----------------------------------------------------------------------------
LEMMA BroadcastsSteps == BroadcastsIInv /\ [BroadcastsNext]_broadcastVars => BroadcastsIInv'
<1> SUFFICES ASSUME BroadcastsIInv, [BroadcastsNext]_broadcastVars PROVE BroadcastsIInv'
  OBVIOUS
<1>1. CASE UNCHANGED broadcastVars
  BY <1>1, BroadcastsUnmoved DEF broadcastVars, optIns, promises
<1>2. CASE \E s \in Shops, p \in Numbers, to \in {"none", "in", "out"} : EditCustomer(s, p, to)
  BY <1>2, BroadcastsUnmoved DEF EditCustomer, promises
<1>3. CASE \E w \in Works :
             \/ \E p \in Numbers : Stop(w, p) \/ Start(w, p) \/ Filter(w, p) \/ Send(w, p)
             \/ \E s \in Shops, unread \in BOOLEAN : Begin(w, s, unread)
             \/ WriteCustomer(w) \/ List(w) \/ Unlist(w) \/ ReadPhones(w) \/ Count(w) \/ Create(w)
  BY <1>3, StopKeeps, StartKeeps, FilterKeeps, SendKeeps, BeginKeeps, WriteCustomerKeeps, ListKeeps,
     UnlistKeeps, ReadPhonesKeeps, CountKeeps, CreateKeeps
<1>4. CASE Pause \/ ReadPause \/ ClearPause
  BY <1>4, BroadcastsUnmoved DEF Pause, ReadPause, ClearPause, optIns
<1>5. CASE Midnight \/ LoseRequests
  BY <1>5, MidnightKeeps, LoseRequestsKeeps
<1> QED
  BY <1>1, <1>2, <1>3, <1>4, <1>5 DEF BroadcastsNext

\* The inductive invariant of the broadcasts.
THEOREM BroadcastsInvariance == BroadcastsSpec => []BroadcastsIInv
BY BroadcastsInitially, BroadcastsSteps, PTL DEF BroadcastsSpec

\* For any number of businesses, phones and requests: no broadcast goes to a phone whose
\* STOP was in the registry when it began, until the phone says START or could not be
\* looked up (marketingService.ts).
THEOREM StopHolds == BroadcastsSpec => []StopIsKept
<1>1. BroadcastsIInv => StopIsKept
  BY DEF BroadcastsIInv
<1> QED
  BY <1>1, BroadcastsInvariance, PTL

\* For every cap: a business that made more broadcasts today than its cap had two counted
\* before either was made (marketingService.ts).
THEOREM CapHoldsButForRaces == BroadcastsSpec => []CapNeedsRace
<1>1. BroadcastsIInv => CapNeedsRace
  BY DEF BroadcastsIInv
<1> QED
  BY <1>1, BroadcastsInvariance, PTL

-----------------------------------------------------------------------------
(***************************************************************************)
(* Intents.  The resolution of an intent is the most cautious of what its  *)
(* lines and the confidence call for; both directions of the policy        *)
(* follow, for any quantities, prices and number of lines.                 *)
(***************************************************************************)

Resolved == {"commit", "confirm_default", "clarify"}

\* The least of two is below both, and is one of them.
LEMMA MinOfTwo ==
  ASSUME NEW a \in Int, NEW b \in Int
  PROVE  /\ Min({a, b}) \in {a, b}
         /\ Min({a, b}) <= a /\ Min({a, b}) <= b
<1>1. CASE a <= b
  <2>1. a \in {a, b} /\ \A y \in {a, b} : a <= y
    BY <1>1
  <2> QED
    BY <2>1 DEF Min
<1>2. CASE b <= a
  <2>1. b \in {a, b} /\ \A y \in {a, b} : b <= y
    BY <1>2
  <2> QED
    BY <2>1 DEF Min
<1> QED
  BY <1>1, <1>2

LEMMA MaxOfTwo == ASSUME NEW a \in Int, NEW b \in Int PROVE Max({a, b}) \in {a, b}
<1>1. CASE a <= b
  <2>1. b \in {a, b} /\ \A y \in {a, b} : b >= y
    BY <1>1
  <2> QED
    BY <2>1 DEF Max
<1>2. CASE b <= a
  <2>1. a \in {a, b} /\ \A y \in {a, b} : a >= y
    BY <1>2
  <2> QED
    BY <2>1 DEF Max
<1> QED
  BY <1>1, <1>2

-----------------------------------------------------------------------------
\* One line

\* Four scores that average at 850 or more are none of them low, and the item is known.
LEMMA HighScores ==
  ASSUME NEW a \in {0, 1000}, NEW b \in {0, 300, 500, 1000}, NEW c \in {0, 500, 600, 1000},
         NEW d \in {0, 500, 1000}, (a + b + c + d) \div 4 >= 850
  PROVE  a = 1000 /\ b >= 500 /\ c >= 500 /\ d >= 500
<1>1. a + b + c + d >= 3400
  OBVIOUS
<1> QED
  BY <1>1

LEMMA ScoresAreKnown ==
  ASSUME NEW line, NEW ctx
  PROVE  /\ itemExistsScore(line) \in {0, 1000}
         /\ qtyPlausibleScore(line, ctx) \in {0, 300, 500, 1000}
         /\ priceInBandScore(line, ctx) \in {0, 500, 600, 1000}
         /\ arithmeticScore(line) \in {0, 500, 1000}
         /\ LineScore(line, ctx) \in Int
<1>1. /\ itemExistsScore(line) \in {0, 1000}
      /\ qtyPlausibleScore(line, ctx) \in {0, 300, 500, 1000}
      /\ priceInBandScore(line, ctx) \in {0, 500, 600, 1000}
      /\ arithmeticScore(line) \in {0, 500, 1000}
  BY DEF itemExistsScore, qtyPlausibleScore, priceInBandScore, arithmeticScore
<1>2. \A a, b, c, d \in Int : (a + b + c + d) \div 4 \in Int
  OBVIOUS
<1> QED
  BY <1>1, <1>2 DEF LineScore

Clear(line, ctx) ==
  ~Anomalous(line, ctx) /\ ctx.itemExists /\ line.qty # Null /\ StatedPrice(line) # Null

LEMMA ResolutionOfALine ==
  ASSUME NEW line, NEW ctx, NEW confidence \in Int
  PROVE  /\ LineResolution(line, ctx, confidence) \in Resolved
         /\ LineResolution(line, ctx, confidence) = "commit" <=>
              (Clear(line, ctx) /\ confidence >= 850 /\ LineScore(line, ctx) >= 850)
<1>1. LineScore(line, ctx) \in Int
  BY ScoresAreKnown
<1>2. PICK n \in Int : n = LineScore(line, ctx)
  BY <1>1
<1>3. Min({confidence, n}) \in {confidence, n} /\ Min({confidence, n}) <= confidence /\ Min({confidence, n}) <= n
  BY MinOfTwo
<1>4. PICK m \in Int : m = Min({confidence, n}) /\ m \in {confidence, n} /\ m <= confidence /\ m <= n
  BY <1>3
<1>5. m >= 850 <=> (confidence >= 850 /\ LineScore(line, ctx) >= 850)
  BY <1>2, <1>4
<1>6. LineResolution(line, ctx, confidence) =
        IF Clear(line, ctx) /\ m >= 850 THEN "commit"
        ELSE IF Clear(line, ctx) /\ m >= 600 THEN "confirm_default" ELSE "clarify"
  BY <1>2, <1>4 DEF LineResolution, Clear
<1> QED
  BY <1>5, <1>6 DEF Resolved

\* What the inventory must say of a line that is recorded at once.
LEMMA CommittedIsBacked ==
  ASSUME NEW line \in IntegerLines, NEW stock \in Nat, NEW typical \in (Nat \ {0}) \cup {Null},
         NEW confidence \in Int,
         LineResolution(line, LineContext(line, stock, typical), confidence) = "commit"
  PROVE  confidence >= 850 /\ Backed(line, stock, typical)
<1>1. PICK ctx : ctx = LineContext(line, stock, typical)
  OBVIOUS
<1>2. Clear(line, ctx) /\ confidence >= 850 /\ LineScore(line, ctx) >= 850
  BY <1>1, ResolutionOfALine
<1>3. line.matched = "listed"
  BY <1>1, <1>2 DEF Clear, LineContext
<1>4. ctx.qtyInStock = stock /\ ctx.typicalPrice = typical
  BY <1>1, <1>3 DEF LineContext
<1>5. qtyPlausibleScore(line, ctx) >= 500 /\ arithmeticScore(line) >= 500
  BY <1>2, ScoresAreKnown, HighScores DEF LineScore
<1>6. line.qty > 0 => 10 * line.qty <= 12 * stock
  BY <1>4, <1>5 DEF qtyPlausibleScore, Null, IntegerLines
<1>7. Null \notin {line.unitPrice, line.totalPrice} => Consistent(line)
  BY <1>2, <1>5 DEF arithmeticScore, Clear
<1>8. typical # Null => 100 * Distance(StatedPrice(line), typical) <= 40 * typical
  BY <1>2, <1>4 DEF Clear, Anomalous, Within
<1> QED
  BY <1>2, <1>3, <1>6, <1>7, <1>8 DEF Backed, Clear

LEMMA PlainIsCommitted ==
  ASSUME NEW line \in IntegerLines, NEW stock \in Nat, NEW typical \in (Nat \ {0}) \cup {Null},
         NEW confidence \in Int, confidence >= 850, Plain(line, stock, typical)
  PROVE  LineResolution(line, LineContext(line, stock, typical), confidence) = "commit"
<1>1. PICK ctx : ctx = LineContext(line, stock, typical)
  OBVIOUS
<1>2. /\ line.matched = "listed" /\ line.qty # Null /\ line.qty > 0 /\ ~line.anomaly
      /\ typical # Null /\ line.unitPrice # Null /\ line.totalPrice # Null
      /\ StatedPrice(line) = line.unitPrice
      /\ 100 * Distance(line.unitPrice, typical) <= 25 * typical
      /\ 10 * line.qty <= 12 * stock /\ Consistent(line)
  BY DEF Plain, Backed, StatedPrice
<1>3. ctx.itemExists /\ ctx.qtyInStock = stock /\ ctx.typicalPrice = typical
  BY <1>1, <1>2 DEF LineContext
<1>4. Within(line, ctx, 25)
  BY <1>2, <1>3 DEF Within
<1>5. Within(line, ctx, 40)
  <2>1. Distance(line.unitPrice, typical) \in Int /\ typical \in Nat
    BY <1>2 DEF Distance, IntegerLines
  <2>2. \A x \in Int : 100 * x <= 25 * typical => 100 * x <= 40 * typical
    BY <2>1
  <2> QED
    BY <1>2, <1>3, <2>1, <2>2 DEF Within
<1>6. Clear(line, ctx)
  BY <1>2, <1>3, <1>5 DEF Clear, Anomalous
<1>7. /\ itemExistsScore(line) = 1000 /\ arithmeticScore(line) = 1000
      /\ priceInBandScore(line, ctx) = 1000
  BY <1>2, <1>3, <1>4 DEF itemExistsScore, arithmeticScore, priceInBandScore
<1>8. qtyPlausibleScore(line, ctx) = 1000
  <2>1. ~(line.qty <= 0) /\ ~(stock = Null)
    BY <1>2 DEF IntegerLines, Null
  <2> QED
    BY <1>2, <1>3, <2>1 DEF qtyPlausibleScore
<1>9. LineScore(line, ctx) >= 850
  BY <1>7, <1>8 DEF LineScore
<1> QED
  BY <1>1, <1>6, <1>9, ResolutionOfALine

-----------------------------------------------------------------------------
\* Several lines: the most cautious decides

MostCautiousOf(found) ==
  CHOOSE r \in found \cup {"commit"} : \A q \in found \cup {"commit"} : Caution[q] <= Caution[r]

LEMMA MostCautious ==
  ASSUME NEW found \in SUBSET Resolved
  PROVE  MostCautiousOf(found) = "commit" <=> found \subseteq {"commit"}
<1> DEFINE all == found \cup {"commit"}
           r == MostCautiousOf(found)
<1>1. Caution["commit"] = 0 /\ Caution["confirm_default"] = 1 /\ Caution["clarify"] = 2
  BY DEF Caution
<1>2. all \subseteq Resolved
  BY DEF Resolved
<1>3. \E s \in all : \A q \in all : Caution[q] <= Caution[s]
  <2>1. CASE "clarify" \in all
    BY <1>1, <1>2, <2>1 DEF Resolved
  <2>2. CASE "clarify" \notin all /\ "confirm_default" \in all
    BY <1>1, <1>2, <2>2 DEF Resolved
  <2>3. CASE "clarify" \notin all /\ "confirm_default" \notin all
    BY <1>1, <1>2, <2>3 DEF Resolved
  <2> QED
    BY <2>1, <2>2, <2>3
<1>4. r \in all /\ \A q \in all : Caution[q] <= Caution[r]
  BY <1>3 DEF MostCautiousOf
<1> HIDE DEF r
<1>5. r = "commit" => found \subseteq {"commit"}
  BY <1>1, <1>2, <1>4 DEF Resolved
<1>6. found \subseteq {"commit"} => r = "commit"
  BY <1>4
<1> QED
  BY <1>5, <1>6 DEF r

\* A message of several lines is recorded without asking only if every line is backed, and
\* it is if every line is plain.
LEMMA ResolutionIsBacked ==
  ASSUME NEW p, p.items \in Seq(IntegerLines), p.items # <<>>, p.confidence \in Int,
         p.action \in {"sale", "purchase"},
         NEW stock \in Nat, NEW typical \in (Nat \ {0}) \cup {Null}
  PROVE  /\ resolveIntent(p, stock, typical) = "commit" =>
              (p.confidence >= 850 /\ \A i \in DOMAIN p.items : Backed(p.items[i], stock, typical))
         /\ (p.confidence >= 850 /\ \A i \in DOMAIN p.items : Plain(p.items[i], stock, typical)) =>
              resolveIntent(p, stock, typical) = "commit"
<1> DEFINE of(i) == LineResolution(p.items[i], LineContext(p.items[i], stock, typical), p.confidence)
           found == {of(i) : i \in DOMAIN p.items}
<1>1. \A i \in DOMAIN p.items : p.items[i] \in IntegerLines
  OBVIOUS
<1>2. 1 \in DOMAIN p.items
  OBVIOUS
<1>3. \A i \in DOMAIN p.items : of(i) \in Resolved
  BY ResolutionOfALine
<1>4. resolveIntent(p, stock, typical) = "commit" <=> found \subseteq {"commit"}
  <2>1. resolveIntent(p, stock, typical) = MostCautiousOf(found)
    BY DEF resolveIntent, MostCautiousOf
  <2>2. found \in SUBSET Resolved
    BY <1>3
  <2> HIDE DEF found
  <2> QED
    BY <2>1, <2>2, MostCautious
<1>5. ASSUME NEW i \in DOMAIN p.items, of(i) = "commit"
      PROVE  p.confidence >= 850 /\ Backed(p.items[i], stock, typical)
  BY <1>1, <1>5, CommittedIsBacked
<1>6. ASSUME NEW i \in DOMAIN p.items, p.confidence >= 850, Plain(p.items[i], stock, typical)
      PROVE  of(i) = "commit"
  BY <1>1, <1>6, PlainIsCommitted
<1>7. found \subseteq {"commit"} <=> \A i \in DOMAIN p.items : of(i) = "commit"
  OBVIOUS
<1> HIDE DEF of, found
<1> QED
  BY <1>2, <1>4, <1>5, <1>6, <1>7

-----------------------------------------------------------------------------
\* What is understood

LEMMA RoundIsInt == ASSUME NEW a \in Nat, NEW b \in Nat \ {0} PROVE Round(a, b) \in Int
<1>1. 2 * a + b \in Int /\ 2 * b \in Int /\ 2 * b > 0
  OBVIOUS
<1>2. \A x \in Int : \A y \in Int : y > 0 => x \div y \in Int
  OBVIOUS
<1> QED
  BY <1>1, <1>2 DEF Round

LEMMA BuiltLinesAreLines ==
  ASSUME NEW m \in {"listed", "none"}, NEW n \in Nat \cup {Null}, NEW price \in Nat \cup {Null},
         NEW typical, NEW total \in BOOLEAN, NEW each \in BOOLEAN
  PROVE  BuiltLine(m, n, price, typical, total, each) \in IntegerLines
<1> DEFINE priced == price \notin {Null, 0} /\ n \notin {Null, 0}
           asTotal == priced /\ AsTotal(price, n, typical, total, each)
           unit == IF ~priced THEN Null ELSE IF asTotal THEN Round(price, n) ELSE price
           sum == IF ~priced THEN Null ELSE IF asTotal THEN price ELSE price * n
           odd == unit \notin {Null, 0} /\ typical # Null /\ 10 * Distance(unit, typical) > 4 * typical
<1>1. Null \in Int
  BY DEF Null
<1>2. priced => price \in Nat /\ n \in Nat \ {0}
  OBVIOUS
<1>3. unit \in Int
  BY <1>1, <1>2, RoundIsInt
<1>4. sum \in Int
  BY <1>1, <1>2
<1>5. n \in Int
  BY <1>1
<1>6. odd \in BOOLEAN
  OBVIOUS
<1>7. BuiltLine(m, n, price, typical, total, each) = Line(m, n, unit, sum, odd)
  BY DEF BuiltLine
<1> HIDE DEF unit, sum, odd
<1> QED
  BY <1>3, <1>4, <1>5, <1>6, <1>7 DEF Line, IntegerLines

LEMMA ModelLinesAreLines == ModelLines \subseteq IntegerLines
<1>1. Null \in Int /\ Qtys \subseteq Int /\ Prices \subseteq Int
  BY IntentAssumption DEF Null
<1> QED
  BY <1>1 DEF ModelLines, IntegerLines

LEMMA ParsedIsTyped ==
  ASSUME NEW a, NEW items \in Seq(IntegerLines), NEW c \in Int, NEW r
  PROVE  Parsed(a, items, c, r).items \in Seq(IntegerLines) /\ Parsed(a, items, c, r).confidence \in Int
BY DEF Parsed

Typed(p) == p.items \in Seq(IntegerLines) /\ p.confidence \in Int

LEMMA OneLine == \A l \in IntegerLines : <<l>> \in Seq(IntegerLines)
OBVIOUS

LEMMA NoLine == <<>> \in Seq(IntegerLines)
OBVIOUS

LEMMA ModelAnswersAreTyped == \A p \in ModelAnswers(ModelLines) : Typed(p)
<1> SUFFICES ASSUME NEW p \in ModelAnswers(ModelLines) PROVE Typed(p)
  OBVIOUS
<1>1. Confidences \subseteq Int
  BY IntentAssumption
<1>2. CASE \E a \in {"sale", "purchase"}, l \in ModelLines, c \in Confidences, r \in {"commit"} :
             p = Parsed(a, <<l>>, c, r)
  <2>1. PICK a \in Actions, l \in ModelLines, c \in Confidences, r \in RESOLUTIONS : p = Parsed(a, <<l>>, c, r)
    BY <1>2 DEF Actions, RESOLUTIONS
  <2>2. <<l>> \in Seq(IntegerLines)
    BY ModelLinesAreLines, OneLine
  <2> QED
    BY <1>1, <2>1, <2>2, ParsedIsTyped DEF Typed
<1>3. CASE \E a \in Actions, c \in Confidences, r \in RESOLUTIONS : p = Parsed(a, <<>>, c, r)
  BY <1>1, <1>3, NoLine, ParsedIsTyped DEF Typed
<1> QED
  BY <1>2, <1>3 DEF ModelAnswers

LEMMA RuleAnswersAreTyped ==
  ASSUME NEW l \in IntegerLines
  PROVE  \A p \in RuleAnswers({l}) : Typed(p)
<1> SUFFICES ASSUME NEW p \in RuleAnswers({l}) PROVE Typed(p)
  OBVIOUS
<1>1. CASE \E a \in Actions, r \in RESOLUTIONS, c \in {900, 950} : p = Parsed(a, <<>>, c, r)
  <2>1. PICK a \in Actions, r \in RESOLUTIONS, c \in Int : p = Parsed(a, <<>>, c, r)
    BY <1>1
  <2> QED
    BY <2>1, NoLine, ParsedIsTyped DEF Typed
<1>2. CASE \E a \in Actions : p = RuleParse(a, <<l>>)
  <2>1. PICK a \in Actions, c \in Int, r \in RESOLUTIONS : p = Parsed(a, <<l>>, c, r)
    BY <1>2 DEF RuleParse, RESOLUTIONS
  <2>2. <<l>> \in Seq(IntegerLines)
    BY OneLine
  <2> QED
    BY <2>1, <2>2, ParsedIsTyped DEF Typed
<1> QED
  BY <1>1, <1>2 DEF RuleAnswers, RuleActions, Actions, RESOLUTIONS

LEMMA ExtendedIsTyped ==
  ASSUME NEW p, Typed(p), NEW q \in Extended(p)
  PROVE  Typed(q)
<1>1. CASE q = p
  BY <1>1
<1>2. CASE q # p
  <2>1. PICK l \in {Line("listed", 1, 100, 100, FALSE), Line("none", 1, 100, 100, FALSE)} :
          q = Parsed(p.action, <<l>> \o p.items, p.confidence, p.resolution)
    BY <1>2 DEF Extended
  <2>2. \A m \in {"listed", "none"} : Line(m, 1, 100, 100, FALSE) \in IntegerLines
    BY DEF Line, IntegerLines
  <2>3. <<l>> \in Seq(IntegerLines)
    BY <2>1, <2>2, OneLine
  <2>4. <<l>> \o p.items \in Seq(IntegerLines)
    BY <2>3, ConcatProperties DEF Typed
  <2> QED
    BY <2>1, <2>4, ParsedIsTyped DEF Typed
<1> QED
  BY <1>1, <1>2

LEMMA NothingIsTyped == \A mentions \in BOOLEAN : Typed(coerceSubscriptionIntent(FALLBACK_INTENT, mentions))
<1>1. <<>> \in Seq(IntegerLines) /\ Max({0, 900}) \in Int
  BY MaxOfTwo
<1>2. Typed(FALLBACK_INTENT) /\ FALLBACK_INTENT.items = <<>> /\ FALLBACK_INTENT.confidence = 0
  BY <1>1, ParsedIsTyped DEF FALLBACK_INTENT, Parsed, Typed
<1>3. PICK p : p = FALLBACK_INTENT
  OBVIOUS
<1>4. Max({p.confidence, 900}) \in Int
  BY <1>1, <1>2, <1>3
<1>5. Typed(Parsed("subscription", p.items, Max({p.confidence, 900}), "commit"))
  <2>1. p.items \in Seq(IntegerLines)
    BY <1>2, <1>3 DEF Typed
  <2> QED
    BY <1>4, <2>1, ParsedIsTyped DEF Typed
<1>6. ASSUME NEW mentions \in BOOLEAN PROVE Typed(coerceSubscriptionIntent(p, mentions))
  BY <1>2, <1>3, <1>5 DEF coerceSubscriptionIntent
<1> QED
  BY <1>3, <1>6

-----------------------------------------------------------------------------
LEMMA UnderstandKeeps ==
  ASSUME NEW p, Typed(p), NEW stock \in Nat, NEW typical \in (Nat \ {0}) \cup {Null},
         Understand(p, stock, typical)
  PROVE  IntentsIInv'
BY DEF Understand, IntentsIInv, IntentsTypeOK, Typed

LEMMA IntentsInitially == IntentsInit => IntentsIInv
<1> SUFFICES ASSUME IntentsInit PROVE IntentsIInv
  OBVIOUS
<1>1. Typed(FALLBACK_INTENT) /\ FALLBACK_INTENT.action = "unknown" /\ FALLBACK_INTENT.confidence = 0
  BY ParsedIsTyped DEF FALLBACK_INTENT, Parsed, Typed
<1>2. resolveIntent(FALLBACK_INTENT, 0, Null) = "clarify"
  BY <1>1 DEF resolveIntent
<1>3. /\ intent.parsed = FALLBACK_INTENT /\ intent.stock = 0 /\ intent.typical = Null
      /\ intent.resolution = "clarify"
  BY DEF IntentsInit, NoIntent
<1> QED
  BY <1>1, <1>2, <1>3 DEF IntentsIInv, IntentsTypeOK, Typed

LEMMA IntentsSteps == IntentsIInv /\ [IntentsNext]_intent => IntentsIInv'
<1> SUFFICES ASSUME IntentsIInv, [IntentsNext]_intent PROVE IntentsIInv'
  OBVIOUS
<1>1. CASE UNCHANGED intent
  BY <1>1 DEF IntentsIInv, IntentsTypeOK
<1>2. Stocks \subseteq Nat /\ Typicals \subseteq Nat \ {0}
  BY IntentAssumption
<1>3. CASE FromModel
  <2>1. PICK p \in ModelAnswers(ModelLines) : \E q \in IF p.items = <<>> THEN {p} ELSE Extended(p) :
          \E s \in Stocks, t \in Typicals \cup {Null} : Understand(q, s, t)
    BY <1>3 DEF FromModel
  <2>2. PICK q \in IF p.items = <<>> THEN {p} ELSE Extended(p) :
          \E s \in Stocks, t \in Typicals \cup {Null} : Understand(q, s, t)
    BY <2>1
  <2>3. Typed(q)
    BY <2>1, <2>2, ModelAnswersAreTyped, ExtendedIsTyped
  <2> QED
    BY <1>2, <2>2, <2>3, UnderstandKeeps
<1>4. CASE FromRules
  <2>1. PICK t \in Typicals \cup {Null}, m \in {"listed", "none"}, n \in (Qtys \cap Nat) \cup {Null},
             price \in (Prices \cap Nat) \cup {Null}, total \in BOOLEAN, each \in BOOLEAN, s \in Stocks :
          \E q \in RuleAnswers({BuiltLine(m, n, price, IF m = "listed" THEN t ELSE Null, total, each)}) :
            Understand(q, s, t)
    BY <1>4 DEF FromRules
  <2>2. PICK l \in IntegerLines : l = BuiltLine(m, n, price, IF m = "listed" THEN t ELSE Null, total, each)
    BY <2>1, BuiltLinesAreLines
  <2>3. PICK q \in RuleAnswers({l}) : Understand(q, s, t)
    BY <2>1, <2>2
  <2>4. Typed(q)
    BY <2>3, RuleAnswersAreTyped
  <2> QED
    BY <1>2, <2>3, <2>4, UnderstandKeeps
<1>5. CASE FromNothing
  BY <1>5, NothingIsTyped, UnderstandKeeps DEF FromNothing
<1> QED
  BY <1>1, <1>3, <1>4, <1>5 DEF IntentsNext

\* The inductive invariant of the last intent.
THEOREM IntentsInvariance == IntentsSpec => []IntentsIInv
BY IntentsInitially, IntentsSteps, PTL DEF IntentsSpec

\* For any quantities, prices, stocks and confidences, and any number of lines: what is
\* recorded without asking is backed line by line, and what is plain is recorded
\* (resolveIntent, structuralScore).
THEOREM CommitsAreBacked == IntentsSpec => []OnlyBackedIsCommitted
<1>1. IntentsIInv => OnlyBackedIsCommitted
  <2> SUFFICES ASSUME IntentsIInv, intent.parsed.action \in {"sale", "purchase"}, intent.parsed.items # <<>>
               PROVE  OnlyBackedIsCommitted
    BY DEF OnlyBackedIsCommitted
  <2>1. PICK p : p = intent.parsed
    OBVIOUS
  <2>2. PICK s \in Nat, t \in (Nat \ {0}) \cup {Null} : s = intent.stock /\ t = intent.typical
    BY DEF IntentsIInv, IntentsTypeOK
  <2>3. intent.resolution = resolveIntent(p, s, t)
    BY <2>1, <2>2 DEF IntentsIInv
  <2>4. p.items \in Seq(IntegerLines) /\ p.items # <<>> /\ p.confidence \in Int
        /\ p.action \in {"sale", "purchase"}
    BY <2>1 DEF IntentsIInv, IntentsTypeOK
  <2>5. /\ resolveIntent(p, s, t) = "commit" =>
             (p.confidence >= 850 /\ \A i \in DOMAIN p.items : Backed(p.items[i], s, t))
        /\ (p.confidence >= 850 /\ \A i \in DOMAIN p.items : Plain(p.items[i], s, t)) =>
             resolveIntent(p, s, t) = "commit"
    BY <2>4, ResolutionIsBacked
  <2> QED
    BY <2>1, <2>2, <2>3, <2>5 DEF OnlyBackedIsCommitted
<1> QED
  BY <1>1, IntentsInvariance, PTL

-----------------------------------------------------------------------------
(***************************************************************************)
(* Chats.  A message is resolved to the active business of its phone, and  *)
(* what is due to it is tied to that business until it is (JobIsWhole,     *)
(* ShownIsActive).  The log is written from what a handler has read, so    *)
(* what matters is that the copy in the handler is as good as the log      *)
(* while no other exchange of its sender is under way (ReadIsWhole).       *)
(***************************************************************************)

Jobs == [pc : Pcs, kind : Kinds, phone : Phones \cup {Nobody}, bsuid : Bsuids \cup {Nobody},
         business : Businesses \cup {Nobody}, seen : Seq(Messages),
         due : Businesses \cup {Nobody}, single : BOOLEAN]

LEMMA ChatTypes ==
  ASSUME ChatsTypeOK
  PROVE  /\ task \in [Messages -> Jobs] /\ \A m \in Messages : task[m] \in Jobs
         /\ \A p \in Phones : member[p] \in Seq(Businesses) /\ ToSet(member[p]) \subseteq Businesses
         /\ \A p \in Phones : active[p] \subseteq Businesses
<1>1. \A p \in Phones : member[p] \in Seq(Businesses)
  BY DEF ChatsTypeOK
<1>2. \A p \in Phones : ToSet(member[p]) \subseteq Businesses
  BY <1>1 DEF ToSet
<1> QED
  BY <1>1, <1>2 DEF ChatsTypeOK, Jobs

LEMMA RestingJobs ==
  /\ Unread \in Jobs /\ Unread.pc = "new" /\ Unread.business = Nobody
  /\ Handled \in Jobs /\ Handled.pc = "done" /\ Handled.business = Nobody
BY DEF Unread, Handled, Job, Jobs, Pcs, Kinds

\* A job in a state before any phone is known, or after the handler, is whole.
LEMMA RestingIsWhole ==
  ASSUME NEW job, job.pc \in {"new", "done"}
  PROVE  JobIsWhole(job)
BY DEF JobIsWhole

-----------------------------------------------------------------------------
\* A set of numbers that is not empty has a least one.
LEMMA LeastNumber ==
  ASSUME NEW U \in SUBSET Nat, U # {}
  PROVE  \E n \in U : \A m \in U : n <= m
<1> DEFINE R == OpToRel(<, Nat)
<1>1. IsWellFoundedOn(R, Nat)
  BY NatLessThanWellFounded
<1>2. \A x, y \in Nat : x < y => <<x, y>> \in R
  BY DEF OpToRel
<1> HIDE DEF R
<1>3. PICK n \in U : \A m \in U : ~ (<<m, n>> \in R)
  BY <1>1, WFMin
<1>4. \A m \in U : ~(m < n)
  BY <1>2, <1>3, Zenon
<1> QED
  BY <1>4

\* A phone with an active business, or with only one, is resolved to one of its own, and
\* to the active one if it is the only active one.
LEMMA ChosenIsOwn ==
  ASSUME ContextIInv, NEW p \in Phones, member[p] # <<>>, ~NoneActive(p)
  PROVE  /\ Chosen(p) \in ToSet(member[p])
         /\ \A b \in ToSet(member[p]) : active[p] = {b} => Chosen(p) = b
<1>1. member[p] \in Seq(Businesses)
  BY ChatTypes DEF ContextIInv
<1>2. CASE Len(member[p]) = 1
  <2>1. DOMAIN member[p] = {1}
    BY <1>1, <1>2
  <2>2. ToSet(member[p]) = {member[p][1]}
    BY <2>1 DEF ToSet
  <2> QED
    BY <1>2, <2>2 DEF Chosen
<1>3. CASE Len(member[p]) # 1
  <2>1. Len(member[p]) > 1
    <3>1. Len(member[p]) \in Nat /\ Len(member[p]) # 0
      BY <1>1, EmptySeq, LenProperties
    <3>2. \A k \in Nat : k # 0 /\ k # 1 => k > 1
      OBVIOUS
    <3> QED
      BY <1>3, <3>1, <3>2
  <2> DEFINE U == {i \in DOMAIN member[p] : member[p][i] \in active[p]}
  <2>2. U \in SUBSET Nat
    BY <1>1
  <2>3. U # {}
    BY <2>1 DEF NoneActive, ToSet
  <2>4. PICK n \in U : \A i \in U : n <= i
    BY <2>2, <2>3, LeastNumber
  <2>5. \E i \in DOMAIN member[p] :
           /\ member[p][i] \in active[p]
           /\ \A j \in DOMAIN member[p] : member[p][j] \in active[p] => i <= j
    BY <2>4
  <2>6. PICK k \in DOMAIN member[p] : member[p][k] \in active[p] /\ Chosen(p) = member[p][k]
    BY <1>3, <2>5 DEF Chosen
  <2> QED
    BY <2>6 DEF ToSet
<1> QED
  BY <1>2, <1>3

-----------------------------------------------------------------------------
\* What each part needs of a step

\* One handler moves on, and no active business changes.
LEMMA OneJobMoves ==
  ASSUME ContextIInv, NEW m \in Messages, NEW r \in Jobs, JobIsWhole(r), task' = [task EXCEPT ![m] = r],
         UNCHANGED <<member, active, shown, phoneOf>>
  PROVE  /\ ContextIInv'
         /\ task'[m] = r /\ \A n \in Messages : n # m => task'[n] = task[n]
<1>1. task'[m] = r /\ (\A n \in Messages : n # m => task'[n] = task[n]) /\ task' \in [Messages -> Jobs]
  BY ChatTypes DEF ContextIInv
<1>2. ChatsTypeOK'
  BY <1>1 DEF ContextIInv, ChatsTypeOK, Jobs
<1>3. \A n \in Messages : JobIsWhole(task[n])'
  <2> SUFFICES ASSUME NEW n \in Messages PROVE JobIsWhole(task[n])'
    OBVIOUS
  <2>1. JobIsWhole(IF n = m THEN r ELSE task[n])
    BY DEF ContextIInv
  <2>2. task'[n] = IF n = m THEN r ELSE task[n]
    BY <1>1
  <2> QED
    BY <2>1, <2>2 DEF JobIsWhole
<1>4. ShownIsActive'
  BY DEF ContextIInv, ShownIsActive
<1> QED
  BY <1>1, <1>2, <1>3, <1>4 DEF ContextIInv

\* A text that is due to a business is only ever resolved to that one.
DueIsFollowed ==
  \A m \in Messages : (In(m, "resolve") /\ task[m].due # Nobody) => task'[m].business \in {Nobody, task[m].due}

\* Who does not resolve a message leaves its business alone, or ends it.
LEMMA OthersFollow ==
  ASSUME ContextIInv,
         \A n \in Messages : In(n, "resolve") => task'[n].business \in {Nobody, task[n].business}
  PROVE  DueIsFollowed
BY DEF ContextIInv, JobIsWhole, DueIsFollowed, In

\* A handler that was past the resolution, or had not begun it, moves on.
LEMMA OtherJobMoves ==
  ASSUME ContextIInv, NEW m \in Messages, NEW r \in Jobs, JobIsWhole(r), task' = [task EXCEPT ![m] = r],
         UNCHANGED <<member, active, shown, phoneOf>>, ~In(m, "resolve")
  PROVE  ContextIInv' /\ DueIsFollowed
<1>1. ContextIInv' /\ task'[m] = r /\ \A n \in Messages : n # m => task'[n] = task[n]
  BY OneJobMoves
<1>2. \A n \in Messages : In(n, "resolve") => task'[n].business \in {Nobody, task[n].business}
  BY <1>1
<1> QED
  BY <1>1, <1>2, OthersFollow

\* A handler makes a business the active one: what was due to the phone no longer is.
LEMMA SwitchMoves ==
  ASSUME ContextIInv, NEW m \in Messages, NEW p \in Phones, NEW b \in ToSet(member[p]),
         NEW r \in Jobs, JobIsWhole(r), r.pc # "resolve", ~In(m, "resolve"),
         switchActiveContext(p, b), task' = Unsettled(p, [task EXCEPT ![m] = r]), Changed(m, p, b),
         UNCHANGED <<member, phoneOf>>
  PROVE  ContextIInv' /\ DueIsFollowed
<1> DEFINE after == [task EXCEPT ![m] = r]
<1>1. task \in [Messages -> Jobs] /\ b \in Businesses
  BY ChatTypes DEF ContextIInv
<1>2. after \in [Messages -> Jobs] /\ after[m] = r /\ \A n \in Messages : n # m => after[n] = task[n]
  BY <1>1
<1>3. \A n \in Messages : task'[n] = IF after[n].phone = p /\ after[n].pc \in {"resolve", "again"}
                                      THEN [after[n] EXCEPT !.due = Nobody] ELSE after[n]
  BY DEF Unsettled
<1>4. task' = [n \in Messages |-> task'[n]]
  BY DEF Unsettled
<1> HIDE DEF after
<1>5. \A n \in Messages : \A job \in Jobs :
        /\ [job EXCEPT !.due = Nobody] \in Jobs
        /\ [job EXCEPT !.due = Nobody].pc = job.pc /\ [job EXCEPT !.due = Nobody].phone = job.phone
        /\ [job EXCEPT !.due = Nobody].business = job.business /\ [job EXCEPT !.due = Nobody].bsuid = job.bsuid
        /\ [job EXCEPT !.due = Nobody].due = Nobody
  BY DEF Jobs
<1>6. \A n \in Messages :
        /\ task'[n] \in Jobs /\ task'[n].pc = after[n].pc /\ task'[n].phone = after[n].phone
        /\ task'[n].business = after[n].business /\ task'[n].bsuid = after[n].bsuid
        /\ task'[n].due = after[n].due \/ task'[n].due = Nobody
        /\ after[n].phone = p /\ after[n].pc = "resolve" => task'[n].due = Nobody
  <2> SUFFICES ASSUME NEW n \in Messages
               PROVE  /\ task'[n] \in Jobs /\ task'[n].pc = after[n].pc /\ task'[n].phone = after[n].phone
                      /\ task'[n].business = after[n].business /\ task'[n].bsuid = after[n].bsuid
                      /\ task'[n].due = after[n].due \/ task'[n].due = Nobody
                      /\ after[n].phone = p /\ after[n].pc = "resolve" => task'[n].due = Nobody
    OBVIOUS
  <2>1. after[n] \in Jobs
    BY <1>2
  <2>2. CASE after[n].phone = p /\ after[n].pc \in {"resolve", "again"}
    <3>1. task'[n] = [after[n] EXCEPT !.due = Nobody]
      BY <1>3, <2>2
    <3>2. PICK job \in Jobs : job = after[n]
      BY <2>1
    <3>3. PICK cut : cut = [job EXCEPT !.due = Nobody]
      OBVIOUS
    <3>4. /\ cut \in Jobs /\ cut.pc = job.pc /\ cut.phone = job.phone
          /\ cut.business = job.business /\ cut.bsuid = job.bsuid /\ cut.due = Nobody
      BY <1>5, <3>3
    <3>5. task'[n] = cut
      BY <3>1, <3>2, <3>3
    <3> QED
      BY <3>2, <3>4, <3>5
  <2>3. CASE ~(after[n].phone = p /\ after[n].pc \in {"resolve", "again"})
    <3>1. task'[n] = after[n]
      BY <1>3, <2>3
    <3> QED
      BY <2>1, <2>3, <3>1
  <2> QED
    BY <2>2, <2>3
<1>7. active \in [Phones -> SUBSET Businesses] /\ active' = [active EXCEPT ![p] = {b}]
  BY DEF ContextIInv, ChatsTypeOK, switchActiveContext
<1>8. active'[p] = {b} /\ \A q \in Phones : q # p => active'[q] = active[q]
  BY <1>7
<1>9. \E x \in {Nobody, b} : shown' = [shown EXCEPT ![p] = x]
  BY DEF Changed
<1>10. ChatsTypeOK'
  <2>1. task' \in [Messages -> Jobs]
    BY <1>4, <1>6
  <2>2. active' \in [Phones -> SUBSET Businesses] /\ shown' \in [Phones -> Businesses \cup {Nobody}]
    BY <1>1, <1>7, <1>9 DEF ContextIInv, ChatsTypeOK
  <2> QED
    BY <2>1, <2>2 DEF ContextIInv, ChatsTypeOK, Jobs
<1>11. \A n \in Messages : JobIsWhole(task[n])'
  <2> SUFFICES ASSUME NEW n \in Messages PROVE JobIsWhole(task[n])'
    OBVIOUS
  <2>1. JobIsWhole(after[n])
    BY <1>2 DEF ContextIInv
  <2>2. ASSUME after[n].pc = "resolve", task'[n].due # Nobody
        PROVE  after[n].phone \in Phones /\ active'[after[n].phone] = {after[n].due}
    BY <1>6, <1>8, <2>1, <2>2 DEF JobIsWhole
  <2> QED
    BY <1>6, <2>1, <2>2 DEF JobIsWhole
<1>12. ShownIsActive'
  <2> SUFFICES ASSUME NEW q \in Phones, shown'[q] # Nobody
               PROVE  active'[q] = {shown'[q]} /\ shown'[q] \in ToSet(member[q])
    BY DEF ShownIsActive
  <2>1. CASE q = p
    BY <1>8, <1>9, <2>1 DEF ContextIInv, ChatsTypeOK
  <2>2. CASE q # p
    BY <1>8, <1>9, <2>2 DEF ContextIInv, ChatsTypeOK, ShownIsActive
  <2> QED
    BY <2>1, <2>2
<1>13. DueIsFollowed
  <2>1. \A n \in Messages : In(n, "resolve") => task'[n].business = task[n].business
    BY <1>2, <1>6
  <2> QED
    BY <2>1, OthersFollow
<1> QED
  BY <1>10, <1>11, <1>12, <1>13 DEF ContextIInv

-----------------------------------------------------------------------------
\* The handlers

LEMMA ContextInitially == ChatsInit => ContextIInv
<1> SUFFICES ASSUME ChatsInit PROVE ContextIInv
  OBVIOUS
<1>1. member \in [Phones -> Seq(Businesses)]
  <2> DEFINE pairs == {s \in Businesses \X Businesses : s[1] # s[2]}
  <2>1. <<>> \in Seq(Businesses) /\ \A b \in Businesses : <<b>> \in Seq(Businesses)
    OBVIOUS
  <2>2. \A s \in pairs : s \in Seq(Businesses)
    <3> SUFFICES ASSUME NEW s \in Businesses \X Businesses PROVE s \in Seq(Businesses)
      OBVIOUS
    <3>1. PICK b \in Businesses, c \in Businesses : s = <<b, c>>
      OBVIOUS
    <3> QED
      BY <3>1
  <2>3. {<<>>} \cup {<<b>> : b \in Businesses} \cup pairs \subseteq Seq(Businesses)
    BY <2>1, <2>2
  <2>4. member \in [Phones -> {<<>>} \cup {<<b>> : b \in Businesses} \cup pairs]
    BY DEF ChatsInit
  <2> HIDE DEF pairs
  <2> QED
    BY <2>3, <2>4
<1>2. task \in [Messages -> Jobs] /\ \A m \in Messages : task[m] = Unread
  BY RestingJobs DEF ChatsInit
<1>3. ChatsTypeOK
  BY <1>1, <1>2 DEF ChatsInit, ChatsTypeOK, Jobs
<1>4. \A m \in Messages : JobIsWhole(task[m])
  BY <1>2, RestingJobs, RestingIsWhole
<1>5. ShownIsActive
  BY DEF ChatsInit, ShownIsActive
<1> QED
  BY <1>3, <1>4, <1>5 DEF ContextIInv

LEMMA ReceiveKeepsContext ==
  ASSUME ContextIInv, NEW m \in Messages, NEW from \in Phones \cup Bsuids, NEW envelope \in Bsuids \cup {Nobody},
         NEW kind \in Kinds, Receive(m, from, envelope, kind)
  PROVE  ContextIInv' /\ DueIsFollowed
<1> DEFINE id == Identity(from, envelope)
           pc == IF kind = "text" \/ id.phone # Nobody THEN (IF kind = "switch" THEN "switch" ELSE "resolve") ELSE "done"
           due == IF kind = "text" /\ id.phone # Nobody /\ ~Changing(id.phone) THEN shown[id.phone] ELSE Nobody
           bsuid == IF kind = "start" THEN Nobody ELSE id.bsuid
           r == IF pc = "done" THEN Handled ELSE Job(pc, kind, id.phone, bsuid, Nobody, <<>>, due, TRUE)
<1>1. /\ task[m] = Unread /\ task' = [task EXCEPT ![m] = r]
      /\ UNCHANGED <<member, active, shown, phoneOf>>
  BY DEF Receive, database, chatGhosts
<1>2. /\ id.phone \in Phones \cup {Nobody} /\ id.bsuid \in Bsuids \cup {Nobody}
      /\ id.phone = Nobody => id.bsuid \in Bsuids
  BY ChatAssumption DEF Identity
<1>3. due \in Businesses \cup {Nobody}
  BY <1>2 DEF ContextIInv, ChatsTypeOK
<1>4. due # Nobody => id.phone \in Phones /\ active[id.phone] = {due} /\ due \in ToSet(member[id.phone])
  BY <1>2 DEF ContextIInv, ShownIsActive
<1>5. pc \in {"switch", "resolve", "done"} /\ (pc = "switch" => id.phone \in Phones)
  BY <1>2
<1>6. (pc = "resolve" /\ id.phone = Nobody) => bsuid \in Bsuids
  BY <1>2
<1>7. bsuid \in Bsuids \cup {Nobody}
  BY <1>2
<1>8. r.pc = pc
  BY RestingJobs DEF Job
<1> HIDE DEF id, pc, due, bsuid
<1>9. r \in Jobs
  <2>1. <<>> \in Seq(Messages)
    OBVIOUS
  <2>2. Job(pc, kind, id.phone, bsuid, Nobody, <<>>, due, TRUE) \in Jobs
    BY <1>2, <1>3, <1>5, <1>7, <2>1 DEF Job, Jobs, Pcs
  <2> QED
    BY <2>2, RestingJobs
<1>10. JobIsWhole(r)
  <2>1. CASE pc = "done"
    BY <1>8, <2>1, RestingIsWhole
  <2>2. CASE pc # "done"
    BY <1>2, <1>4, <1>5, <1>6, <2>2 DEF Job, JobIsWhole
  <2> QED
    BY <2>1, <2>2
<1>11. ~In(m, "resolve")
  BY <1>1, RestingJobs DEF In
<1> HIDE DEF r
<1> QED
  BY <1>1, <1>9, <1>10, <1>11, OtherJobMoves

LEMMA SwitchReadKeepsContext ==
  ASSUME ContextIInv, NEW m \in Messages, NEW b \in Businesses, SwitchRead(m, b)
  PROVE  ContextIInv' /\ DueIsFollowed
<1>1. task[m] \in Jobs /\ task[m].pc = "switch" /\ task[m].phone \in Phones
  BY ChatTypes DEF ContextIInv, JobIsWhole, SwitchRead, In
<1>2. PICK r : /\ task' = [task EXCEPT ![m] = r]
               /\ \/ r = Handled
                  \/ r = [task[m] EXCEPT !.pc = "switching", !.business = b] /\ b \in ToSet(member[task[m].phone])
  BY DEF SwitchRead
<1>3. UNCHANGED <<member, active, shown, phoneOf>>
  BY DEF SwitchRead, database, chatGhosts
<1>4. r \in Jobs /\ JobIsWhole(r)
  <2>1. CASE r = Handled
    BY <2>1, RestingJobs, RestingIsWhole
  <2>2. CASE r = [task[m] EXCEPT !.pc = "switching", !.business = b] /\ b \in ToSet(member[task[m].phone])
    <3>1. r \in Jobs /\ r.pc = "switching" /\ r.business = b /\ r.phone = task[m].phone
      BY <1>1, <2>2 DEF Jobs, Pcs
    <3> QED
      BY <1>1, <2>2, <3>1 DEF JobIsWhole
  <2> QED
    BY <1>2, <2>1, <2>2
<1>5. ~In(m, "resolve")
  BY <1>1 DEF In
<1> QED
  BY <1>2, <1>3, <1>4, <1>5, OtherJobMoves

LEMMA SwitchWriteKeepsContext ==
  ASSUME ContextIInv, NEW m \in Messages, SwitchWrite(m)
  PROVE  ContextIInv' /\ DueIsFollowed
<1>1. task[m].phone \in Phones /\ task[m].business \in ToSet(member[task[m].phone]) /\ ~In(m, "resolve")
  BY DEF ContextIInv, JobIsWhole, SwitchWrite, In
<1>2. Handled \in Jobs /\ JobIsWhole(Handled) /\ Handled.pc # "resolve"
  BY RestingJobs, RestingIsWhole
<1> QED
  BY <1>1, <1>2, SwitchMoves DEF SwitchWrite

LEMMA JoinedKeepsContext ==
  ASSUME ContextIInv, NEW m \in Messages, Joined(m)
  PROVE  ContextIInv' /\ DueIsFollowed
<1>1. task[m].phone \in Phones /\ task[m].business \in ToSet(member[task[m].phone]) /\ ~In(m, "resolve")
  BY DEF ContextIInv, JobIsWhole, Joined, In
<1>2. Handled \in Jobs /\ JobIsWhole(Handled) /\ Handled.pc # "resolve"
  BY RestingJobs, RestingIsWhole
<1>3. CASE task' = [task EXCEPT ![m] = Handled] /\ UNCHANGED <<active, chatGhosts>>
  BY <1>1, <1>2, <1>3, OtherJobMoves DEF Joined, chatGhosts
<1>4. CASE /\ switchActiveContext(task[m].phone, task[m].business)
           /\ task' = Unsettled(task[m].phone, [task EXCEPT ![m] = Handled])
           /\ Changed(m, task[m].phone, task[m].business)
  BY <1>1, <1>2, <1>4, SwitchMoves DEF Joined
<1> QED
  BY <1>3, <1>4 DEF Joined

\* A business more for a phone takes nothing from what is known about it.
LEMMA JoinKeepsContext ==
  ASSUME ContextIInv, NEW m \in Messages, NEW p \in Phones, NEW b \in Businesses, Join(m, p, b)
  PROVE  ContextIInv' /\ DueIsFollowed
<1> DEFINE r == Job("joined", "signup", p, Nobody, b, <<>>, Nobody, TRUE)
<1>1. /\ r \in Jobs /\ r.pc = "joined" /\ r.phone = p /\ r.business = b
  <2>1. <<>> \in Seq(Messages)
    OBVIOUS
  <2> QED
    BY <2>1 DEF Job, Jobs, Pcs, Kinds
<1>2. /\ task[m] = Unread /\ task' = [task EXCEPT ![m] = r] /\ member' = [member EXCEPT ![p] = Append(@, b)]
      /\ UNCHANGED <<active, phoneOf, shown>>
  BY DEF Join, chatGhosts
<1> HIDE DEF r
<1>3. task'[m] = r /\ (\A n \in Messages : n # m => task'[n] = task[n]) /\ task' \in [Messages -> Jobs]
  BY <1>1, <1>2, ChatTypes DEF ContextIInv
<1>4. member \in [Phones -> Seq(Businesses)]
  BY DEF ContextIInv, ChatsTypeOK
<1>5. member' \in [Phones -> Seq(Businesses)] /\ member'[p] = Append(member[p], b)
      /\ \A q \in Phones : q # p => member'[q] = member[q]
  BY <1>2, <1>4
<1>6. b \in ToSet(member'[p]) /\ ToSet(member[p]) \subseteq ToSet(member'[p])
  <2>1. /\ Len(member[p]) + 1 \in DOMAIN Append(member[p], b)
        /\ Append(member[p], b)[Len(member[p]) + 1] = b
        /\ \A i \in DOMAIN member[p] : i \in DOMAIN Append(member[p], b) /\ Append(member[p], b)[i] = member[p][i]
    BY <1>4
  <2> QED
    BY <1>5, <2>1 DEF ToSet
<1>7. \A q \in Phones : ToSet(member[q]) \subseteq ToSet(member'[q])
  BY <1>5, <1>6
<1>8. ChatsTypeOK'
  BY <1>2, <1>3, <1>5 DEF ContextIInv, ChatsTypeOK, Jobs
<1>9. \A n \in Messages : JobIsWhole(task[n])'
  <2> SUFFICES ASSUME NEW n \in Messages PROVE JobIsWhole(task[n])'
    OBVIOUS
  <2>1. CASE n = m
    BY <1>1, <1>3, <1>6, <2>1 DEF JobIsWhole
  <2>2. CASE n # m
    <3>1. JobIsWhole(task[n]) /\ task'[n] = task[n]
      BY <1>3, <2>2 DEF ContextIInv
    <3> QED
      BY <1>2, <1>7, <3>1 DEF JobIsWhole
  <2> QED
    BY <2>1, <2>2
<1>10. ShownIsActive'
  BY <1>2, <1>7 DEF ContextIInv, ShownIsActive
<1>11. DueIsFollowed
  <2>1. \A n \in Messages : In(n, "resolve") => task'[n].business = task[n].business
    BY <1>2, <1>3, RestingJobs DEF In
  <2> QED
    BY <2>1, OthersFollow
<1> QED
  BY <1>8, <1>9, <1>10, <1>11 DEF ContextIInv

LEMMA LinkKeepsContext ==
  ASSUME ContextIInv, NEW u \in Bsuids, NEW p \in Phones, Link(u, p)
  PROVE  ContextIInv' /\ DueIsFollowed
<1>1. phoneOf' \in [Bsuids -> Phones \cup {Nobody}] /\ UNCHANGED <<member, active, task, shown>>
  BY DEF Link, ContextIInv, ChatsTypeOK, chatGhosts
<1>2. ContextIInv'
  BY <1>1 DEF ContextIInv, ChatsTypeOK, JobIsWhole, ShownIsActive
<1>3. \A n \in Messages : In(n, "resolve") => task'[n].business = task[n].business
  BY <1>1
<1> QED
  BY <1>2, <1>3, OthersFollow

\* A message that is about to be resolved has no business yet.
LEMMA UnresolvedHasNone ==
  ASSUME ContextIInv, NEW m \in Messages, NEW r \in Jobs, JobIsWhole(r), task' = [task EXCEPT ![m] = r],
         UNCHANGED <<member, active, shown, phoneOf>>,
         In(m, "resolve") /\ task[m].due # Nobody => r.business \in {Nobody, task[m].due}
  PROVE  ContextIInv' /\ DueIsFollowed
<1>1. ContextIInv' /\ task'[m] = r /\ \A n \in Messages : n # m => task'[n] = task[n]
  BY OneJobMoves
<1>2. \A n \in Messages \ {m} : In(n, "resolve") => task'[n].business = Nobody
  BY <1>1 DEF ContextIInv, JobIsWhole, In
<1> QED
  BY <1>1, <1>2 DEF DueIsFollowed

LEMMA FindPhoneKeepsContext ==
  ASSUME ContextIInv, NEW m \in Messages, FindPhone(m)
  PROVE  ContextIInv' /\ DueIsFollowed
<1>1. task[m] \in Jobs /\ JobIsWhole(task[m]) /\ task[m].pc = "resolve" /\ task[m].phone = Nobody
  BY ChatTypes DEF ContextIInv, FindPhone, In
<1>2. phoneOf[task[m].bsuid] \in Phones \cup {Nobody} /\ task[m].due = Nobody
  BY <1>1, ChatAssumption DEF JobIsWhole, ContextIInv, ChatsTypeOK
<1> DEFINE q == phoneOf[task[m].bsuid]
<1>3. PICK r : /\ task' = [task EXCEPT ![m] = r]
               /\ \/ r = Handled
                  \/ r = [task[m] EXCEPT !.pc = "found", !.phone = q] /\ q # Nobody
  BY DEF FindPhone
<1>4. UNCHANGED <<member, active, shown, phoneOf>>
  BY DEF FindPhone, database, chatGhosts
<1>5. r \in Jobs /\ JobIsWhole(r)
  <2>1. CASE r = Handled
    BY <2>1, RestingJobs, RestingIsWhole
  <2>2. CASE r = [task[m] EXCEPT !.pc = "found", !.phone = q] /\ q # Nobody
    <3>1. r \in Jobs /\ r.pc = "found" /\ r.phone = q
      BY <1>1, <1>2, <2>2 DEF Jobs, Pcs
    <3> QED
      BY <1>2, <2>2, <3>1 DEF JobIsWhole
  <2> QED
    BY <1>3, <2>1, <2>2
<1> QED
  BY <1>2, <1>3, <1>4, <1>5, UnresolvedHasNone

LEMMA ResolveKeepsContext ==
  ASSUME ContextIInv, NEW m \in Messages, Resolve(m)
  PROVE  ContextIInv' /\ DueIsFollowed
<1> DEFINE p == task[m].phone
           again == In(m, "again")
<1>1. /\ task[m] \in Jobs /\ JobIsWhole(task[m]) /\ p \in Phones
  BY ChatTypes DEF ContextIInv, Resolve, Jobs
<1>2. PICK r : /\ task' = [task EXCEPT ![m] = r]
               /\ r = IF member[p] = <<>>
                      THEN IF In(m, "resolve") /\ task[m].kind = "text" THEN [task[m] EXCEPT !.pc = "again"] ELSE Handled
                      ELSE IF NoneActive(p)
                      THEN [task[m] EXCEPT !.pc = "fallback", !.business = member[p][1], !.single = ~again]
                      ELSE IF task[m].kind # "text" THEN Handled
                      ELSE [task[m] EXCEPT !.pc = After("text", again), !.business = Chosen(p)]
  BY DEF Resolve
<1>3. UNCHANGED <<member, active, shown, phoneOf>>
  BY DEF Resolve, database, chatGhosts
<1>4. member[p] \in Seq(Businesses) /\ ToSet(member[p]) \subseteq Businesses
  BY <1>1, ChatTypes DEF ContextIInv
<1> HIDE DEF p
<1> SUFFICES /\ r \in Jobs /\ JobIsWhole(r)
             /\ In(m, "resolve") /\ task[m].due # Nobody => r.business \in {Nobody, task[m].due}
  BY <1>2, <1>3, UnresolvedHasNone
<1>5. CASE r = Handled
  BY <1>5, RestingJobs, RestingIsWhole
<1>6. CASE r = [task[m] EXCEPT !.pc = "again"] /\ In(m, "resolve")
  <2>1. r \in Jobs /\ r.pc = "again" /\ r.phone = p /\ r.business = task[m].business
    BY <1>1, <1>6 DEF Jobs, Pcs, p
  <2>2. task[m].business = Nobody
    BY <1>1, <1>6 DEF JobIsWhole, In
  <2> QED
    BY <1>1, <2>1, <2>2 DEF JobIsWhole
<1>7. CASE /\ member[p] # <<>> /\ NoneActive(p)
           /\ r = [task[m] EXCEPT !.pc = "fallback", !.business = member[p][1], !.single = ~again]
  <2>1. member[p][1] \in ToSet(member[p])
    <3>1. 1 \in DOMAIN member[p]
      BY <1>4, <1>7, EmptySeq, LenProperties
    <3> QED
      BY <3>1 DEF ToSet
  <2>2. again \in BOOLEAN
    BY DEF In
  <2> HIDE DEF again
  <2>3. r \in Jobs /\ r.pc = "fallback" /\ r.phone = p /\ r.business = member[p][1]
    BY <1>1, <1>4, <1>7, <2>1, <2>2 DEF Jobs, Pcs, p
  <2>4. JobIsWhole(r)
    BY <1>1, <2>1, <2>3 DEF JobIsWhole
  <2>5. ~(In(m, "resolve") /\ task[m].due # Nobody)
    BY <1>1, <1>7 DEF JobIsWhole, NoneActive, In, p
  <2> QED
    BY <2>3, <2>4, <2>5
<1>8. CASE /\ member[p] # <<>> /\ ~NoneActive(p)
           /\ r = [task[m] EXCEPT !.pc = After("text", again), !.business = Chosen(p)]
  <2>1. Chosen(p) \in ToSet(member[p]) /\ \A b \in ToSet(member[p]) : active[p] = {b} => Chosen(p) = b
    BY <1>1, <1>8, ChosenIsOwn
  <2>2. After("text", again) \in {"context", "drafts"}
    BY DEF After
  <2> HIDE DEF again
  <2>3. r \in Jobs /\ r.pc \in {"context", "drafts"} /\ r.phone = p /\ r.business = Chosen(p)
    BY <1>1, <1>4, <1>8, <2>1, <2>2 DEF Jobs, Pcs, p
  <2>4. JobIsWhole(r)
    BY <1>1, <1>4, <2>1, <2>3 DEF JobIsWhole
  <2>5. In(m, "resolve") /\ task[m].due # Nobody => Chosen(p) = task[m].due
    BY <1>1, <2>1 DEF JobIsWhole, In, p
  <2> QED
    BY <2>3, <2>4, <2>5
<1> QED
  BY <1>2, <1>5, <1>6, <1>7, <1>8

LEMMA FallbackKeepsContext ==
  ASSUME ContextIInv, NEW m \in Messages, Fallback(m)
  PROVE  ContextIInv' /\ DueIsFollowed
<1>1. /\ task[m] \in Jobs /\ task[m].pc = "fallback" /\ task[m].phone \in Phones
      /\ task[m].business \in ToSet(member[task[m].phone])
  BY ChatTypes DEF ContextIInv, JobIsWhole, Fallback, In
<1>2. task[m].business \in Businesses /\ ~In(m, "resolve")
  BY <1>1, ChatTypes DEF ContextIInv, In
<1> DEFINE next == After(task[m].kind, ~task[m].single)
           r == IF next = "done" THEN Handled ELSE [task[m] EXCEPT !.pc = next, !.single = TRUE]
<1>3. next \in {"done", "context", "drafts"}
  BY DEF After
<1>4. task' = Unsettled(task[m].phone, [task EXCEPT ![m] = r])
  BY DEF Fallback
<1> HIDE DEF next
<1>5. r \in Jobs /\ JobIsWhole(r) /\ r.pc # "resolve"
  <2>1. CASE next = "done"
    BY <2>1, RestingJobs, RestingIsWhole
  <2>2. CASE next # "done"
    <3>1. /\ r \in Jobs /\ r.pc \in {"context", "drafts"} /\ r.phone = task[m].phone
          /\ r.business = task[m].business
      BY <1>1, <1>3, <2>2 DEF Jobs, Pcs
    <3> QED
      BY <1>1, <1>2, <3>1 DEF JobIsWhole
  <2> QED
    BY <2>1, <2>2
<1> HIDE DEF r
<1> QED
  BY <1>1, <1>2, <1>4, <1>5, SwitchMoves DEF Fallback

LEMMA AnswerKeepsContext ==
  ASSUME ContextIInv, NEW m \in Messages, Answer(m)
  PROVE  ContextIInv' /\ DueIsFollowed
<1>1. task[m] \in Jobs /\ JobIsWhole(task[m]) /\ task[m].pc = "drafts" /\ ~In(m, "resolve")
  BY ChatTypes DEF ContextIInv, Answer, In
<1>2. PICK r : task' = [task EXCEPT ![m] = r] /\ r \in {Handled, [task[m] EXCEPT !.pc = "context"]}
  BY <1>1, ChatTypes DEF Answer, Moved, ContextIInv
<1>3. UNCHANGED <<member, active, shown, phoneOf>>
  BY DEF Answer, chatGhosts
<1>4. r \in Jobs /\ JobIsWhole(r)
  <2>1. CASE r = Handled
    BY <2>1, RestingJobs, RestingIsWhole
  <2>2. CASE r = [task[m] EXCEPT !.pc = "context"]
    <3>1. /\ r \in Jobs /\ r.pc = "context" /\ r.phone = task[m].phone /\ r.business = task[m].business
      BY <1>1, <2>2 DEF Jobs, Pcs
    <3> QED
      BY <1>1, <3>1 DEF JobIsWhole
  <2> QED
    BY <1>2, <2>1, <2>2
<1> QED
  BY <1>1, <1>2, <1>3, <1>4, OtherJobMoves

LEMMA ReadContextKeepsContext ==
  ASSUME ContextIInv, LogIInv, NEW m \in Messages, ReadContext(m)
  PROVE  ContextIInv' /\ DueIsFollowed
<1>1. /\ task \in [Messages -> Jobs] /\ JobIsWhole(task[m]) /\ task[m].pc = "context"
      /\ UNCHANGED <<member, active, shown, phoneOf>>
  BY ChatTypes DEF ContextIInv, ReadContext, In, database, chatGhosts
<1>2. <<task[m].business, task[m].phone>> \in Businesses \X Phones
  BY <1>1 DEF JobIsWhole
<1>3. log[<<task[m].business, task[m].phone>>] \in Seq(Messages)
  BY <1>2 DEF LogIInv, LogsAreInOrder
<1> DEFINE others == {n \in Messages \ {m} : InExchange(n) /\ Same(m, n)}
           x == <<task[m].business, task[m].phone>>
<1>4. task' = [n \in Messages |->
                 IF n = m THEN [task[m] EXCEPT !.pc = "dispatch", !.seen = log[x], !.single = others = {}]
                 ELSE IF n \in others THEN [task[n] EXCEPT !.single = FALSE] ELSE task[n]]
  BY DEF ReadContext
<1>5. PICK free \in BOOLEAN : free = (others = {})
  OBVIOUS
<1>6. PICK s \in Seq(Messages) : s = log[x]
  BY <1>3
<1>7. task'[m] = [task[m] EXCEPT !.pc = "dispatch", !.seen = s, !.single = free]
  BY <1>4, <1>5, <1>6
<1>8. /\ task'[m] \in Jobs /\ task'[m].pc = "dispatch" /\ task'[m].phone = task[m].phone
      /\ task'[m].business = task[m].business
  BY <1>1, <1>7 DEF Jobs, Pcs
<1>9. \A n \in Messages \ {m} : task'[n] = task[n] \/ task'[n] = [task[n] EXCEPT !.single = FALSE]
  BY <1>4
<1>10. \A n \in Messages \ {m} : /\ task'[n] \in Jobs /\ task'[n].pc = task[n].pc
                                 /\ task'[n].phone = task[n].phone /\ task'[n].bsuid = task[n].bsuid
                                 /\ task'[n].business = task[n].business /\ task'[n].due = task[n].due
  <2> SUFFICES ASSUME NEW n \in Messages \ {m}
               PROVE  /\ task'[n] \in Jobs /\ task'[n].pc = task[n].pc
                      /\ task'[n].phone = task[n].phone /\ task'[n].bsuid = task[n].bsuid
                      /\ task'[n].business = task[n].business /\ task'[n].due = task[n].due
    OBVIOUS
  <2>1. task[n] \in Jobs
    BY <1>1
  <2>2. CASE task'[n] = task[n]
    BY <2>1, <2>2
  <2>3. CASE task'[n] = [task[n] EXCEPT !.single = FALSE]
    BY <2>1, <2>3 DEF Jobs
  <2> QED
    BY <1>9, <2>2, <2>3
<1>11. task' \in [Messages -> Jobs]
  <2>1. \A n \in Messages : task'[n] \in Jobs
    BY <1>8, <1>10
  <2> HIDE DEF others
  <2> QED
    BY <1>4, <2>1
<1>12. ChatsTypeOK'
  BY <1>1, <1>11 DEF ContextIInv, ChatsTypeOK, Jobs
<1>13. \A n \in Messages : JobIsWhole(task[n])'
  <2> SUFFICES ASSUME NEW n \in Messages PROVE JobIsWhole(task[n])'
    OBVIOUS
  <2>1. JobIsWhole(task[n])
    BY DEF ContextIInv
  <2>2. CASE n = m
    BY <1>1, <1>8, <2>1, <2>2 DEF JobIsWhole
  <2>3. CASE n # m
    BY <1>1, <1>10, <2>1, <2>3 DEF JobIsWhole
  <2> QED
    BY <2>2, <2>3
<1>14. ShownIsActive'
  BY <1>1 DEF ContextIInv, ShownIsActive
<1>15. DueIsFollowed
  <2>1. \A n \in Messages : In(n, "resolve") => task'[n].business = task[n].business
    BY <1>1, <1>10 DEF In
  <2> QED
    BY <2>1, OthersFollow
<1> QED
  BY <1>12, <1>13, <1>14, <1>15 DEF ContextIInv

LEMMA DispatchKeepsContext ==
  ASSUME ContextIInv, NEW m \in Messages, Dispatch(m)
  PROVE  ContextIInv' /\ DueIsFollowed
<1>1. task[m] \in Jobs /\ JobIsWhole(task[m]) /\ task[m].pc = "dispatch" /\ ~In(m, "resolve")
  BY ChatTypes DEF ContextIInv, Dispatch, In
<1>2. PICK r : task' = [task EXCEPT ![m] = r] /\ r = [task[m] EXCEPT !.pc = "save"]
  BY <1>1, ChatTypes DEF Dispatch, Moved, ContextIInv
<1>3. UNCHANGED <<member, active, shown, phoneOf>>
  BY DEF Dispatch, chatGhosts
<1>4. r \in Jobs /\ r.pc = "save" /\ r.phone = task[m].phone /\ r.business = task[m].business
  BY <1>1, <1>2 DEF Jobs, Pcs
<1>5. JobIsWhole(r)
  BY <1>1, <1>4 DEF JobIsWhole
<1> QED
  BY <1>1, <1>2, <1>3, <1>4, <1>5, OtherJobMoves

LEMMA SaveKeepsContext ==
  ASSUME ContextIInv, NEW m \in Messages, Save(m)
  PROVE  ContextIInv' /\ DueIsFollowed
<1>1. task' = [task EXCEPT ![m] = Handled] /\ UNCHANGED <<member, active, shown, phoneOf>> /\ ~In(m, "resolve")
  BY DEF Save, In
<1>2. Handled \in Jobs /\ JobIsWhole(Handled)
  BY RestingJobs, RestingIsWhole
<1> QED
  BY <1>1, <1>2, OtherJobMoves

LEMMA StopKeepsContext ==
  ASSUME ContextIInv, StopServer
  PROVE  ContextIInv' /\ DueIsFollowed
<1>1. /\ task' = [m \in Messages |-> IF task[m] = Unread THEN Unread ELSE Handled]
      /\ UNCHANGED <<member, active, shown, phoneOf>>
  BY DEF StopServer, database, chatGhosts
<1>2. task' \in [Messages -> Jobs] /\ \A m \in Messages : task'[m].pc \in {"new", "done"} /\ task'[m].business = Nobody
  BY <1>1, RestingJobs
<1>3. ChatsTypeOK'
  BY <1>1, <1>2 DEF ContextIInv, ChatsTypeOK, Jobs
<1>4. \A m \in Messages : JobIsWhole(task[m])'
  BY <1>2 DEF JobIsWhole
<1>5. ShownIsActive'
  BY <1>1 DEF ContextIInv, ShownIsActive
<1>6. DueIsFollowed
  BY <1>2 DEF DueIsFollowed
<1> QED
  BY <1>3, <1>4, <1>5, <1>6 DEF ContextIInv

LEMMA RestKeepsContext ==
  ASSUME ContextIInv, UNCHANGED chatVars
  PROVE  ContextIInv' /\ DueIsFollowed
<1>1. UNCHANGED <<member, active, shown, phoneOf, task>>
  BY DEF chatVars, database, chatGhosts
<1>2. ContextIInv'
  BY <1>1 DEF ContextIInv, ChatsTypeOK, JobIsWhole, ShownIsActive
<1>3. \A n \in Messages : In(n, "resolve") => task'[n].business = task[n].business
  BY <1>1
<1> QED
  BY <1>2, <1>3, OthersFollow

LEMMA ContextStep ==
  ASSUME ChatsIInv, [ChatsNext]_chatVars
  PROVE  ContextIInv' /\ DueIsFollowed
<1> USE DEF ChatsIInv
<1>1. ASSUME NEW m \in Messages,
             \/ \E from \in Phones \cup Bsuids, envelope \in Bsuids \cup {Nobody}, kind \in Kinds :
                  Receive(m, from, envelope, kind)
             \/ \E b \in Businesses : SwitchRead(m, b)
             \/ SwitchWrite(m) \/ Joined(m)
             \/ \E p \in Phones, b \in Businesses : Join(m, p, b)
      PROVE  ContextIInv' /\ DueIsFollowed
  BY <1>1, ReceiveKeepsContext, SwitchReadKeepsContext, SwitchWriteKeepsContext, JoinedKeepsContext, JoinKeepsContext
<1>2. ASSUME NEW m \in Messages, FindPhone(m) \/ Resolve(m) \/ Fallback(m)
      PROVE  ContextIInv' /\ DueIsFollowed
  BY <1>2, FindPhoneKeepsContext, ResolveKeepsContext, FallbackKeepsContext
<1>3. ASSUME NEW m \in Messages, Answer(m) \/ ReadContext(m) \/ Dispatch(m) \/ Save(m)
      PROVE  ContextIInv' /\ DueIsFollowed
  BY <1>3, AnswerKeepsContext, ReadContextKeepsContext, DispatchKeepsContext, SaveKeepsContext
<1>4. CASE \E u \in Bsuids, p \in Phones : Link(u, p)
  BY <1>4, LinkKeepsContext
<1>5. CASE StopServer \/ UNCHANGED chatVars
  BY <1>5, StopKeepsContext, RestKeepsContext
<1> QED
  BY <1>1, <1>2, <1>3, <1>4, <1>5 DEF ChatsNext

-----------------------------------------------------------------------------
\* Sequences of exchanges: positions, order and what a log holds

LEMMA PositionIs ==
  ASSUME NEW h, Once(h), NEW m \in ToSet(h)
  PROVE  Position(h, m) \in DOMAIN h /\ h[Position(h, m)] = m
<1>1. \E i \in DOMAIN h : h[i] = m
  BY DEF ToSet
<1> QED
  BY <1>1 DEF Position

\* A new exchange comes after all of the earlier ones, which stay where they are.
LEMMA PositionsStay ==
  ASSUME NEW h, Once(h), NEW m \in Messages, m \notin ToSet(h)
  PROVE  /\ Once(Append(h, m)) /\ ToSet(Append(h, m)) = ToSet(h) \cup {m}
         /\ \A n \in ToSet(h) : /\ Position(Append(h, m), n) = Position(h, n)
                                /\ Position(h, n) \in Nat
                                /\ Position(Append(h, m), n) < Position(Append(h, m), m)
<1> DEFINE g == Append(h, m)
<1>1. /\ h \in Seq(Messages) /\ g \in Seq(Messages) /\ Len(h) \in Nat /\ Len(g) = Len(h) + 1
      /\ DOMAIN h = 1..Len(h) /\ DOMAIN g = 1..(Len(h) + 1)
      /\ g[Len(h) + 1] = m /\ \A i \in DOMAIN h : g[i] = h[i]
  BY DEF Once
<1> HIDE DEF g
<1>2. \A i \in DOMAIN h : h[i] # m /\ h[i] \in ToSet(h)
  BY DEF ToSet
<1>3. \A i \in DOMAIN g : i = Len(h) + 1 \/ i \in DOMAIN h
  BY <1>1
<1>4. Once(g)
  <2> SUFFICES ASSUME NEW i \in DOMAIN g, NEW j \in DOMAIN g, g[i] = g[j] PROVE i = j
    BY <1>1 DEF Once
  <2>1. CASE i \in DOMAIN h /\ j \in DOMAIN h
    BY <1>1, <2>1 DEF Once
  <2>2. CASE ~(i \in DOMAIN h /\ j \in DOMAIN h)
    BY <1>1, <1>2, <1>3, <2>2
  <2> QED
    BY <2>1, <2>2
<1>5. ToSet(g) = ToSet(h) \cup {m}
  <2>1. ASSUME NEW x \in ToSet(g) PROVE x \in ToSet(h) \cup {m}
    BY <1>1, <1>2, <1>3 DEF ToSet
  <2>2. m \in ToSet(g)
    BY <1>1 DEF ToSet
  <2>3. ASSUME NEW x \in ToSet(h) PROVE x \in ToSet(g)
    <3>1. PICK i \in DOMAIN h : h[i] = x
      BY DEF ToSet
    <3>2. i \in DOMAIN g /\ g[i] = x
      BY <1>1, <3>1
    <3> QED
      BY <3>2 DEF ToSet
  <2> QED
    BY <2>1, <2>2, <2>3
<1>6. Position(g, m) = Len(h) + 1
  BY <1>1, <1>2, <1>3, <1>4, <1>5, PositionIs
<1>7. ASSUME NEW n \in ToSet(h)
      PROVE  Position(g, n) = Position(h, n) /\ Position(h, n) \in Nat /\ Position(g, n) < Position(g, m)
  <2>1. Position(h, n) \in DOMAIN h /\ h[Position(h, n)] = n
    BY PositionIs
  <2>2. Position(g, n) \in DOMAIN g /\ g[Position(g, n)] = n
    BY <1>4, <1>5, PositionIs
  <2>3. PICK i \in DOMAIN h : i = Position(h, n)
    BY <2>1
  <2>4. i \in DOMAIN g /\ g[i] = n
    BY <1>1, <2>1, <2>3
  <2>5. Position(g, n) = i
    BY <1>4, <2>2, <2>4 DEF Once
  <2> QED
    BY <1>1, <1>6, <2>3, <2>5
<1> QED
  BY <1>4, <1>5, <1>7 DEF g

\* A log stays in order, and holds what it held, when an exchange is saved elsewhere.
LEMMA LogsStay ==
  ASSUME NEW h, Once(h), NEW m \in Messages, m \notin ToSet(h), NEW s, InOrder(h, s)
  PROVE  /\ InOrder(Append(h, m), s)
         /\ \A n \in ToSet(h) : Holds(h, s, n) => Holds(Append(h, m), s, n)
<1>1. /\ ToSet(h) \subseteq ToSet(Append(h, m))
      /\ \A n \in ToSet(h) : Position(Append(h, m), n) = Position(h, n)
  BY PositionsStay
<1>2. \A i \in DOMAIN s : s[i] \in ToSet(h)
  BY DEF InOrder, ToSet
<1>3. InOrder(Append(h, m), s)
  BY <1>1, <1>2 DEF InOrder
<1>4. ASSUME NEW n \in ToSet(h), Holds(h, s, n) PROVE Holds(Append(h, m), s, n)
  BY <1>1, <1>4 DEF Holds, InOrder
<1> QED
  BY <1>3, <1>4

\* What is kept of a log with one exchange more: all of it, or all but the oldest if
\* the log was full.
LEMMA KeptIs ==
  ASSUME NEW s \in Seq(Messages), NEW m \in Messages, Len(s) <= MaxLog
  PROVE  \E d \in {0, 1} :
           /\ Kept(Append(s, m)) \in Seq(Messages) /\ Len(Kept(Append(s, m))) = Len(s) + 1 - d
           /\ d = 0 => Len(s) < MaxLog
           /\ d = 1 => Len(s) = MaxLog
           /\ Kept(Append(s, m))[Len(s) + 1 - d] = m
           /\ \A i \in 1..(Len(s) - d) : Kept(Append(s, m))[i] = s[i + d]
<1> DEFINE t == Append(s, m)
<1>1. /\ t \in Seq(Messages) /\ Len(s) \in Nat /\ Len(t) = Len(s) + 1 /\ t[Len(s) + 1] = m
      /\ \A i \in 1..Len(s) : t[i] = s[i]
  OBVIOUS
<1>2. MaxLog \in Nat /\ MaxLog > 0
  BY ChatAssumption
<1> DEFINE first == Max({1, Len(t) - MaxLog + 1})
<1>3. first = IF Len(s) < MaxLog THEN 1 ELSE 2
  <2>1. PICK k \in Int : k = Len(t) - MaxLog + 1 /\ k <= 2 /\ (Len(s) < MaxLog => k <= 1) /\ (Len(s) = MaxLog => k = 2)
    BY <1>1, <1>2
  <2>2. first \in {1, k} /\ first >= 1 /\ first >= k
    <3>1. \E x \in {1, k} : \A y \in {1, k} : x >= y
      <4>1. CASE k <= 1
        BY <2>1, <4>1
      <4>2. CASE k > 1
        BY <2>1, <4>2
      <4> QED
        BY <2>1, <4>1, <4>2
    <3> QED
      BY <2>1, <3>1 DEF Max
  <2> HIDE DEF first
  <2> QED
    BY <1>1, <1>2, <2>1, <2>2
<1> HIDE DEF t
<1>4. Kept(t) = SubSeq(t, first, Len(t))
  BY DEF Kept
<1> HIDE DEF first
<1>5. CASE Len(s) < MaxLog
  <2>1. first = 1
    BY <1>3, <1>5
  <2>2. /\ SubSeq(t, 1, Len(t)) \in Seq(Messages) /\ Len(SubSeq(t, 1, Len(t))) = Len(t)
        /\ \A i \in 1..Len(t) : SubSeq(t, 1, Len(t))[i] = t[i]
    BY <1>1
  <2>3. /\ Kept(t) \in Seq(Messages) /\ Len(Kept(t)) = Len(s) + 1
        /\ \A i \in 1..(Len(s) + 1) : Kept(t)[i] = t[i]
    BY <1>1, <1>4, <2>1, <2>2
  <2>4. Kept(t)[Len(s) + 1] = m /\ \A i \in 1..Len(s) : Kept(t)[i] = s[i + 0]
    BY <1>1, <2>3
  <2>5. \E d \in {0, 1} : d = 0
    OBVIOUS
  <2> QED
    BY <1>1, <1>5, <2>3, <2>4, <2>5 DEF t
<1>6. CASE Len(s) = MaxLog
  <2>1. first = 2
    BY <1>2, <1>3, <1>6
  <2>2. /\ SubSeq(t, 2, Len(t)) \in Seq(Messages) /\ Len(SubSeq(t, 2, Len(t))) = Len(t) - 1
        /\ \A i \in 1..(Len(t) - 1) : SubSeq(t, 2, Len(t))[i] = t[i + 1]
    BY <1>1, <1>2, <1>6
  <2>3. /\ Kept(t) \in Seq(Messages) /\ Len(Kept(t)) = Len(s)
        /\ \A i \in 1..Len(s) : Kept(t)[i] = t[i + 1]
    BY <1>1, <1>4, <2>1, <2>2
  <2>4. Kept(t)[Len(s)] = m /\ \A i \in 1..(Len(s) - 1) : Kept(t)[i] = s[i + 1]
    BY <1>1, <1>2, <1>6, <2>3
  <2>5. /\ Len(Kept(t)) = Len(s) + 1 - 1 /\ Kept(t)[Len(s) + 1 - 1] = m
    BY <1>1, <2>3, <2>4
  <2> QED
    BY <1>6, <2>3, <2>4, <2>5 DEF t
<1> QED
  BY <1>1, <1>2, <1>5, <1>6

\* The log with the new exchange is in order, holds the new one, and still holds what
\* the old one held.
LEMMA KeptHolds ==
  ASSUME NEW h, Once(h), NEW m \in Messages, m \notin ToSet(h), NEW s, InOrder(h, s)
  PROVE  /\ InOrder(Append(h, m), Kept(Append(s, m)))
         /\ m \in ToSet(Kept(Append(s, m)))
         /\ \A n \in ToSet(h) : Holds(h, s, n) => Holds(Append(h, m), Kept(Append(s, m)), n)
<1>1. s \in Seq(Messages) /\ Len(s) \in Nat /\ Len(s) <= MaxLog /\ DOMAIN s = 1..Len(s)
  BY DEF InOrder
<1>2. MaxLog \in Nat /\ MaxLog > 0
  BY ChatAssumption
<1>3. PICK k \in Seq(Messages) : k = Kept(Append(s, m))
  BY <1>1, KeptIs
<1>4. PICK d \in {0, 1} :
           /\ Len(k) = Len(s) + 1 - d
           /\ d = 0 => Len(s) < MaxLog
           /\ d = 1 => Len(s) = MaxLog
           /\ k[Len(s) + 1 - d] = m
           /\ \A i \in 1..(Len(s) - d) : k[i] = s[i + d]
  <2>1. PICK c \in {0, 1} :
           /\ Kept(Append(s, m)) \in Seq(Messages) /\ Len(Kept(Append(s, m))) = Len(s) + 1 - c
           /\ c = 0 => Len(s) < MaxLog
           /\ c = 1 => Len(s) = MaxLog
           /\ Kept(Append(s, m))[Len(s) + 1 - c] = m
           /\ \A i \in 1..(Len(s) - c) : Kept(Append(s, m))[i] = s[i + c]
    BY <1>1, KeptIs
  <2> QED
    BY <1>3, <2>1
<1> DEFINE g == Append(h, m)
<1>5. /\ ToSet(g) = ToSet(h) \cup {m}
      /\ \A n \in ToSet(h) : Position(g, n) = Position(h, n) /\ Position(h, n) \in Nat /\ Position(g, n) < Position(g, m)
  BY PositionsStay
<1>6. \A i \in DOMAIN s : s[i] \in ToSet(h) /\ s[i] \in ToSet(s)
  BY DEF InOrder, ToSet
<1> HIDE DEF g
<1>7. /\ Len(k) \in Nat /\ Len(k) <= MaxLog /\ Len(k) >= 1 /\ DOMAIN k = 1..Len(k) /\ k[Len(k)] = m
      /\ \A i \in 1..(Len(k) - 1) : i + d \in DOMAIN s /\ k[i] = s[i + d]
  <2>1. DOMAIN k = 1..Len(k)
    OBVIOUS
  <2>2. Len(k) - 1 = Len(s) - d
    BY <1>1, <1>4
  <2>3. Len(k) \in Nat /\ Len(k) <= MaxLog /\ Len(k) >= 1
    <3>1. PICK a \in Nat : a = Len(s)
      BY <1>1
    <3>2. CASE d = 0
      <4>1. Len(k) = a + 1 /\ a < MaxLog
        BY <1>4, <3>1, <3>2
      <4> QED
        BY <1>2, <3>1, <4>1
    <3>3. CASE d = 1
      <4>1. Len(k) = a /\ a = MaxLog
        BY <1>4, <3>1, <3>3
      <4> QED
        BY <1>2, <3>1, <4>1
    <3> QED
      BY <3>2, <3>3
  <2>4. k[Len(k)] = m
    BY <1>4
  <2>5. \A i \in 1..(Len(k) - 1) : k[i] = s[i + d]
    BY <1>4, <2>2
  <2>6. \A i \in 1..(Len(k) - 1) : i + d \in 1..Len(s)
    BY <1>1, <1>4, <2>2, <2>3
  <2> QED
    BY <1>1, <2>1, <2>3, <2>4, <2>5, <2>6
<1>8. \A i \in DOMAIN k : i = Len(k) \/ i \in 1..(Len(k) - 1)
  BY <1>7
<1>9. \A i \in 1..(Len(k) - 1) : k[i] \in ToSet(h)
  BY <1>6, <1>7
<1>10. InOrder(g, k)
  <2>1. ToSet(k) \subseteq ToSet(g)
    BY <1>5, <1>7, <1>8, <1>9 DEF ToSet
  <2>2. ASSUME NEW i \in DOMAIN k, NEW j \in DOMAIN k, i < j
        PROVE  Position(g, k[i]) < Position(g, k[j])
    <3>1. i \in 1..(Len(k) - 1)
      BY <1>7, <2>2
    <3>2. CASE j = Len(k)
      BY <1>5, <1>7, <1>9, <3>1, <3>2
    <3>3. CASE j # Len(k)
      <4>1. j \in 1..(Len(k) - 1)
        BY <1>8, <3>3
      <4>2. PICK u \in DOMAIN s, v \in DOMAIN s : u = i + d /\ v = j + d
        BY <1>7, <3>1, <4>1
      <4>3. u < v
        BY <1>7, <2>2, <3>1, <4>1, <4>2
      <4>4. Position(h, s[u]) < Position(h, s[v])
        BY <4>3 DEF InOrder
      <4>5. k[i] = s[u] /\ k[j] = s[v]
        BY <1>7, <3>1, <4>1, <4>2
      <4>6. Position(g, s[u]) = Position(h, s[u]) /\ Position(g, s[v]) = Position(h, s[v])
        BY <1>5, <1>6
      <4> QED
        BY <4>4, <4>5, <4>6
    <3> QED
      BY <3>2, <3>3
  <2> QED
    BY <1>7, <2>1, <2>2 DEF InOrder
<1>11. m \in ToSet(k)
  <2>1. Len(k) \in DOMAIN k
    BY <1>7
  <2> QED
    BY <1>7, <2>1 DEF ToSet
<1>12. ASSUME NEW n \in ToSet(h), Holds(h, s, n)
       PROVE  Holds(g, k, n)
  \* Every exchange of the new log is the new one or one of the old log.
  <2>1. \A x \in ToSet(k) : x = m \/ x \in ToSet(s)
    BY <1>6, <1>7, <1>8 DEF ToSet
  <2>2. Position(g, n) < Position(g, m)
    BY <1>5
  <2>3. CASE n \in ToSet(s)
    <3>1. PICK u \in DOMAIN s : s[u] = n
      BY <2>3 DEF ToSet
    <3>2. CASE u - d >= 1
      <4>1. PICK i \in Int : i = u - d
        BY <1>1
      <4>2. i \in 1..(Len(k) - 1) /\ i + d = u
        BY <1>1, <1>4, <1>7, <3>2, <4>1
      <4>3. k[i] = n /\ i \in DOMAIN k
        BY <1>7, <3>1, <4>2
      <4> QED
        BY <4>3 DEF Holds, ToSet
    <3>3. CASE ~(u - d >= 1)
      <4>1. d = 1 /\ u = 1
        BY <1>1, <3>3
      <4>2. Len(k) = MaxLog
        <5>1. PICK a \in Nat : a = Len(s)
          BY <1>1
        <5>2. Len(k) = a /\ a = MaxLog
          BY <1>4, <4>1, <5>1
        <5> QED
          BY <5>2
      <4>3. ASSUME NEW i \in 1..(Len(k) - 1) PROVE Position(g, k[i]) > Position(g, n)
        <5>1. PICK v \in DOMAIN s : v = i + d /\ k[i] = s[v]
          BY <1>7
        <5>2. u < v
          BY <1>7, <4>1, <5>1
        <5>3. Position(h, s[u]) < Position(h, s[v])
          BY <5>2 DEF InOrder
        <5>4. Position(g, s[u]) = Position(h, s[u]) /\ Position(g, s[v]) = Position(h, s[v])
              /\ Position(h, s[u]) \in Nat /\ Position(h, s[v]) \in Nat
          BY <1>5, <1>6
        <5> QED
          BY <3>1, <5>1, <5>3, <5>4
      <4>4. Position(g, m) > Position(g, n)
        BY <1>5
      <4>5. \A x \in ToSet(k) : Position(g, x) > Position(g, n)
        BY <1>7, <1>8, <4>3, <4>4 DEF ToSet
      <4> QED
        BY <4>2, <4>5 DEF Holds
    <3> QED
      BY <3>2, <3>3
  <2>4. CASE Len(s) = MaxLog /\ \A x \in ToSet(s) : Position(h, x) > Position(h, n)
    <3>1. Len(k) = MaxLog
      BY <1>1, <1>2, <1>4, <2>4
    <3>2. \A x \in ToSet(s) : Position(g, x) > Position(g, n)
      BY <1>5, <2>4 DEF InOrder
    <3>3. Position(g, m) > Position(g, n)
      BY <1>5
    <3>4. \A x \in ToSet(k) : Position(g, x) > Position(g, n)
      BY <2>1, <3>2, <3>3
    <3> QED
      BY <3>1, <3>4 DEF Holds
  <2> QED
    BY <1>12, <2>3, <2>4 DEF Holds
<1> QED
  BY <1>3, <1>10, <1>11, <1>12 DEF g

-----------------------------------------------------------------------------
\* What each handler does to the logs

LEMMA LogInitially == ChatsInit => LogIInv
<1> SUFFICES ASSUME ChatsInit PROVE LogIInv
  OBVIOUS
<1>1. history = <<>> /\ alone = {} /\ log = [x \in Businesses \X Phones |-> <<>>]
  BY DEF ChatsInit
<1>2. <<>> \in Seq(Messages) /\ DOMAIN <<>> = {} /\ Len(<<>>) = 0
  OBVIOUS
<1>3. SavedOnce
  BY <1>1, <1>2 DEF SavedOnce, Once, ToSet
<1>4. LogsAreInOrder
  BY <1>1, <1>2, ChatAssumption DEF LogsAreInOrder, InOrder, ToSet
<1>5. AloneIsHeld
  BY <1>1 DEF AloneIsHeld
<1>6. ReadIsWhole
  BY RestingJobs DEF ChatsInit, ReadIsWhole, InExchange
<1> QED
  BY <1>3, <1>4, <1>5, <1>6 DEF LogIInv

\* A handler is where it was with what it had read, or in no exchange.
Stays(n) ==
  /\ task[n].pc = "done" => task'[n].pc = "done"
  /\ task'[n].pc \in {"dispatch", "save"} =>
       /\ task[n].pc \in {"dispatch", "save"}
       /\ task'[n].business = task[n].business /\ task'[n].phone = task[n].phone
       /\ task'[n].seen = task[n].seen /\ (task'[n].single => task[n].single)

LEMMA QuietForLogs ==
  ASSUME LogIInv, UNCHANGED <<log, history, alone>>, \A n \in Messages : Stays(n)
  PROVE  LogIInv'
<1>1. SavedOnce'
  <2>1. ToSet(history) \subseteq Messages
    BY DEF LogIInv, SavedOnce, Once, ToSet
  <2> QED
    BY <2>1 DEF LogIInv, SavedOnce, Stays, In
<1>2. LogsAreInOrder'
  BY DEF LogIInv, LogsAreInOrder
<1>3. AloneIsHeld'
  BY DEF LogIInv, AloneIsHeld
<1>4. ReadIsWhole'
  <2> SUFFICES ASSUME NEW m \in Messages, InExchange(m)'
               PROVE  /\ InOrder(history, task'[m].seen)
                      /\ \A a \in alone : a[1] = Sender(m)' => Holds(history, task'[m].seen, a[2])
                      /\ task'[m].single => \A n \in Messages \ {m} : InExchange(n)' => ~Same(m, n)'
    BY DEF ReadIsWhole
  <2>1. /\ InExchange(m) /\ task'[m].seen = task[m].seen /\ Sender(m)' = Sender(m)
        /\ task'[m].single => task[m].single
    BY DEF Stays, InExchange, Sender
  <2>2. InOrder(history, task[m].seen) /\ \A a \in alone : a[1] = Sender(m) => Holds(history, task[m].seen, a[2])
    BY <2>1 DEF LogIInv, ReadIsWhole
  <2>3. ASSUME task'[m].single, NEW n \in Messages \ {m}, InExchange(n)' PROVE ~Same(m, n)'
    <3>1. InExchange(n) /\ ~Same(m, n)
      BY <2>1, <2>3 DEF LogIInv, ReadIsWhole, Stays, InExchange
    <3> QED
      BY <2>3, <3>1 DEF Stays, Same, InExchange
  <2> QED
    BY <2>1, <2>2, <2>3
<1> QED
  BY <1>1, <1>2, <1>3, <1>4 DEF LogIInv

\* One handler moves on outside of an exchange, or ends, or goes on with it as it is.
LEMMA QuietJob ==
  ASSUME ContextIInv, LogIInv, NEW m \in Messages, NEW r \in Jobs, task' = [task EXCEPT ![m] = r],
         task[m].pc # "done",
         r.pc \in {"dispatch", "save"} => InExchange(m) /\ r = [task[m] EXCEPT !.pc = r.pc],
         UNCHANGED <<log, history, alone>>
  PROVE  LogIInv'
<1>1. task'[m] = r /\ \A n \in Messages : n # m => task'[n] = task[n]
  BY ChatTypes DEF ContextIInv
<1>2. task[m] \in Jobs
  BY ChatTypes DEF ContextIInv
<1>3. Stays(m)
  <2>1. CASE r.pc \in {"dispatch", "save"}
    <3>1. /\ r.business = task[m].business /\ r.phone = task[m].phone /\ r.seen = task[m].seen
          /\ r.single = task[m].single
      <4>1. PICK pc : pc = r.pc
        OBVIOUS
      <4>2. r = [task[m] EXCEPT !.pc = pc]
        BY <2>1, <4>1
      <4> QED
        BY <1>2, <4>2 DEF Jobs
    <3> QED
      BY <1>1, <2>1, <3>1 DEF Stays, InExchange
  <2>2. CASE r.pc \notin {"dispatch", "save"}
    BY <1>1, <2>2 DEF Stays
  <2> QED
    BY <2>1, <2>2
<1>4. \A n \in Messages : Stays(n)
  BY <1>1, <1>3 DEF Stays
<1> QED
  BY <1>4, QuietForLogs

\* So does one that makes a business the active one.
LEMMA QuietSwitch ==
  ASSUME ContextIInv, LogIInv, NEW m \in Messages, NEW p \in Phones, NEW r \in Jobs,
         task' = Unsettled(p, [task EXCEPT ![m] = r]), task[m].pc # "done", r.pc \notin {"dispatch", "save"},
         UNCHANGED <<log, history, alone>>
  PROVE  LogIInv'
<1> DEFINE after == [task EXCEPT ![m] = r]
<1>1. after \in [Messages -> Jobs] /\ after[m] = r /\ \A n \in Messages : n # m => after[n] = task[n]
  BY ChatTypes DEF ContextIInv
<1>2. \A n \in Messages : task'[n] = IF after[n].phone = p /\ after[n].pc \in {"resolve", "again"}
                                      THEN [after[n] EXCEPT !.due = Nobody] ELSE after[n]
  BY DEF Unsettled
<1> HIDE DEF after
<1>3. ASSUME NEW n \in Messages
      PROVE  /\ task'[n].pc = after[n].pc /\ task'[n].business = after[n].business
             /\ task'[n].phone = after[n].phone /\ task'[n].seen = after[n].seen
             /\ task'[n].single = after[n].single
  <2>1. PICK job \in Jobs : job = after[n]
    BY <1>1
  <2>2. task'[n] = job \/ task'[n] = [job EXCEPT !.due = Nobody]
    BY <1>2, <2>1
  <2> QED
    BY <2>1, <2>2 DEF Jobs
<1>4. ASSUME NEW n \in Messages PROVE Stays(n)
  <2>1. CASE n = m
    <3>1. after[n].pc \notin {"dispatch", "save"} /\ task[n].pc # "done"
      BY <1>1, <2>1
    <3>2. task'[n].pc = after[n].pc
      BY <1>3
    <3> QED
      BY <3>1, <3>2 DEF Stays
  <2>2. CASE n # m
    <3>1. after[n] = task[n]
      BY <1>1, <2>2
    <3>2. /\ task'[n].pc = task[n].pc /\ task'[n].business = task[n].business
          /\ task'[n].phone = task[n].phone /\ task'[n].seen = task[n].seen
          /\ task'[n].single = task[n].single
      BY <1>3, <3>1
    <3> QED
      BY <3>2 DEF Stays
  <2> QED
    BY <2>1, <2>2
<1> QED
  BY <1>4, QuietForLogs

LEMMA ReadContextKeepsLogs ==
  ASSUME ContextIInv, LogIInv, NEW m \in Messages, ReadContext(m)
  PROVE  LogIInv'
<1> DEFINE others == {n \in Messages \ {m} : InExchange(n) /\ Same(m, n)}
           x == Sender(m)
<1>1. /\ task \in [Messages -> Jobs] /\ JobIsWhole(task[m]) /\ task[m].pc = "context"
      /\ UNCHANGED <<log, history, alone>>
  BY ChatTypes DEF ContextIInv, ReadContext, In, database, chatGhosts
<1>2. x \in Businesses \X Phones
  BY <1>1 DEF JobIsWhole, Sender
<1>3. InOrder(history, log[x]) /\ log[x] \in Seq(Messages)
  BY <1>2 DEF LogIInv, LogsAreInOrder
<1>4. task' = [n \in Messages |->
                 IF n = m THEN [task[m] EXCEPT !.pc = "dispatch", !.seen = log[x], !.single = others = {}]
                 ELSE IF n \in others THEN [task[n] EXCEPT !.single = FALSE] ELSE task[n]]
  BY DEF ReadContext, Sender
<1>5. PICK free \in BOOLEAN : free = (others = {})
  OBVIOUS
<1>6. PICK s \in Seq(Messages) : s = log[x]
  BY <1>3
<1>7. task'[m] = [task[m] EXCEPT !.pc = "dispatch", !.seen = s, !.single = free]
  BY <1>4, <1>5, <1>6
<1>8. /\ task'[m].pc = "dispatch" /\ task'[m].phone = task[m].phone /\ task'[m].business = task[m].business
      /\ task'[m].seen = s /\ task'[m].single = free
  BY <1>1, <1>7 DEF Jobs
<1>9. ASSUME NEW n \in Messages \ {m}
      PROVE  /\ task'[n].pc = task[n].pc /\ task'[n].phone = task[n].phone /\ task'[n].business = task[n].business
             /\ task'[n].seen = task[n].seen
             /\ task'[n].single => task[n].single /\ n \notin others
  <2>1. task[n] \in Jobs
    BY <1>1
  <2>2. CASE n \in others
    <3>1. task'[n] = [task[n] EXCEPT !.single = FALSE]
      BY <1>4, <2>2
    <3> QED
      BY <2>1, <3>1 DEF Jobs
  <2>3. CASE n \notin others
    BY <1>4, <2>3
  <2> QED
    BY <2>2, <2>3
<1> HIDE DEF x
<1>10. Sender(m)' = x /\ \A n \in Messages \ {m} : Sender(n)' = Sender(n) /\ (InExchange(n)' <=> InExchange(n))
  BY <1>8, <1>9 DEF x, Sender, InExchange
<1>11. /\ \A n \in Messages \ {m} : Same(m, n)' <=> Same(m, n)
       /\ \A n, o \in Messages \ {m} : Same(n, o)' <=> Same(n, o)
  BY <1>8, <1>9 DEF Same
<1>12. SavedOnce'
  <2>1. ToSet(history) \subseteq Messages
    BY DEF LogIInv, SavedOnce, Once, ToSet
  <2> QED
    BY <1>1, <1>9, <2>1 DEF LogIInv, SavedOnce, In
<1>13. LogsAreInOrder'
  BY <1>1 DEF LogIInv, LogsAreInOrder
<1>14. AloneIsHeld'
  BY <1>1 DEF LogIInv, AloneIsHeld
<1>15. ReadIsWhole'
  <2> SUFFICES ASSUME NEW n \in Messages, InExchange(n)'
               PROVE  /\ InOrder(history, task'[n].seen)
                      /\ \A a \in alone : a[1] = Sender(n)' => Holds(history, task'[n].seen, a[2])
                      /\ task'[n].single => \A o \in Messages \ {n} : InExchange(o)' => ~Same(n, o)'
    BY <1>1 DEF ReadIsWhole
  <2>1. CASE n = m
    <3>1. InOrder(history, s) /\ \A a \in alone : a[1] = x => Holds(history, s, a[2])
      BY <1>3, <1>6 DEF LogIInv, AloneIsHeld
    <3>2. free => \A o \in Messages \ {m} : InExchange(o)' => ~Same(m, o)'
      BY <1>5, <1>10, <1>11
    <3> QED
      BY <1>8, <1>10, <2>1, <3>1, <3>2
  <2>2. CASE n # m
    <3>1. InExchange(n) /\ Sender(n)' = Sender(n) /\ task'[n].seen = task[n].seen
      BY <1>9, <1>10, <2>2
    <3>2. InOrder(history, task[n].seen) /\ \A a \in alone : a[1] = Sender(n) => Holds(history, task[n].seen, a[2])
      BY <3>1 DEF LogIInv, ReadIsWhole
    <3>3. ASSUME task'[n].single, NEW o \in Messages \ {n}, InExchange(o)' PROVE ~Same(n, o)'
      <4>1. task[n].single /\ n \notin others
        BY <1>9, <2>2, <3>3
      <4>2. CASE o = m
        <5>1. ~Same(m, n)
          BY <2>2, <3>1, <4>1
        <5> QED
          BY <1>11, <2>2, <4>2, <5>1 DEF Same
      <4>3. CASE o # m
        <5>1. InExchange(o) /\ ~Same(n, o)
          BY <1>10, <3>1, <3>3, <4>1, <4>3 DEF LogIInv, ReadIsWhole
        <5> QED
          BY <1>11, <2>2, <4>3, <5>1
      <4> QED
        BY <4>2, <4>3
    <3> QED
      BY <3>1, <3>2, <3>3
  <2> QED
    BY <2>1, <2>2
<1> QED
  BY <1>12, <1>13, <1>14, <1>15 DEF LogIInv

LEMMA SaveKeepsLogs ==
  ASSUME ContextIInv, LogIInv, NEW m \in Messages, Save(m)
  PROVE  LogIInv'
<1> DEFINE x == Sender(m)
           g == Append(history, m)
<1>1. /\ task[m] \in Jobs /\ JobIsWhole(task[m]) /\ task[m].pc = "save" /\ task' = [task EXCEPT ![m] = Handled]
      /\ task \in [Messages -> Jobs]
  BY ChatTypes DEF ContextIInv, Save, In
<1>2. CASE UNCHANGED <<log, history, alone>>
  BY <1>1, <1>2, RestingJobs, QuietJob
<1>3. CASE /\ log' = [log EXCEPT ![x] = Kept(Append(task[m].seen, m))]
           /\ history' = Append(history, m)
           /\ alone' = IF task[m].single THEN alone \cup {<<x, m>>} ELSE alone
  <2>1. task'[m].pc = "done" /\ \A n \in Messages : n # m => task'[n] = task[n]
    BY <1>1, RestingJobs
  <2>2. x \in Businesses \X Phones /\ InExchange(m)
    BY <1>1 DEF JobIsWhole, Sender, InExchange
  <2>3. /\ Once(history) /\ m \notin ToSet(history)
    BY <1>1 DEF LogIInv, SavedOnce, In
  <2>4. /\ InOrder(history, task[m].seen)
        /\ \A a \in alone : a[1] = x => Holds(history, task[m].seen, a[2])
        /\ task[m].single => \A n \in Messages \ {m} : InExchange(n) => ~Same(m, n)
    BY <2>2 DEF LogIInv, ReadIsWhole
  <2>5. PICK s : s = task[m].seen
    OBVIOUS
  <2>6. PICK k : k = Kept(Append(s, m))
    OBVIOUS
  <2>7. /\ Once(g) /\ ToSet(g) = ToSet(history) \cup {m}
    BY <2>3, PositionsStay
  <2>8. /\ InOrder(g, k) /\ m \in ToSet(k)
        /\ \A n \in ToSet(history) : Holds(history, s, n) => Holds(g, k, n)
    BY <2>3, <2>4, <2>5, <2>6, KeptHolds
  <2>9. \A t : InOrder(history, t) =>
           /\ InOrder(g, t)
           /\ \A n \in ToSet(history) : Holds(history, t, n) => Holds(g, t, n)
    BY <2>3, LogsStay
  <2>10. log \in [Businesses \X Phones -> Seq(Messages)] /\ \A y \in Businesses \X Phones : InOrder(history, log[y])
    BY DEF LogIInv, LogsAreInOrder
  <2>11. log'[x] = k /\ \A y \in Businesses \X Phones : y # x => log'[y] = log[y]
    BY <1>3, <2>2, <2>5, <2>6, <2>10
  <2>12. history' = g /\ k \in Seq(Messages)
    BY <1>3, <2>8 DEF InOrder
  <2>13. log' \in [Businesses \X Phones -> Seq(Messages)]
    BY <1>3, <2>2, <2>5, <2>6, <2>10, <2>12
  <2>14. \A a \in alone : /\ a \in (Businesses \X Phones) \X Messages /\ a[2] \in ToSet(history)
                          /\ Holds(history, log[a[1]], a[2])
    BY DEF LogIInv, AloneIsHeld
  <2> HIDE DEF g
  <2>15. SavedOnce'
    <3>1. \A n \in ToSet(history) : In(n, "done") /\ n \in Messages
      BY DEF LogIInv, SavedOnce, Once, ToSet
    <3>2. \A n \in ToSet(g) : In(n, "done")'
      BY <2>1, <2>7, <3>1 DEF In
    <3> QED
      BY <2>7, <2>12, <3>2 DEF SavedOnce
  <2>16. LogsAreInOrder'
    <3>1. \A y \in Businesses \X Phones : InOrder(g, log'[y])
      BY <2>8, <2>9, <2>10, <2>11
    <3> QED
      BY <2>12, <2>13, <3>1 DEF LogsAreInOrder
  <2>17. \A a \in alone' : a \in alone \/ (a = <<x, m>> /\ task[m].single)
    BY <1>3
  <2> HIDE DEF x
  <2>18. AloneIsHeld'
    <3> SUFFICES ASSUME NEW a \in alone'
                 PROVE  /\ a \in (Businesses \X Phones) \X Messages /\ a[2] \in ToSet(g)
                        /\ Holds(g, log'[a[1]], a[2])
      BY <2>12 DEF AloneIsHeld
    <3>1. CASE a = <<x, m>>
      BY <2>2, <2>7, <2>8, <2>11, <3>1 DEF Holds
    <3>2. CASE a \in alone /\ a[1] = x
      <4>1. a \in (Businesses \X Phones) \X Messages /\ a[2] \in ToSet(history)
        BY <2>14, <3>2
      <4>2. Holds(history, s, a[2])
        BY <2>4, <2>5, <3>2
      <4>3. Holds(g, k, a[2])
        BY <2>8, <4>1, <4>2
      <4> QED
        BY <2>7, <2>11, <3>2, <4>1, <4>3
    <3>3. CASE a \in alone /\ a[1] # x
      <4>1. /\ a \in (Businesses \X Phones) \X Messages /\ a[2] \in ToSet(history)
            /\ Holds(history, log[a[1]], a[2])
        BY <2>14, <3>3
      <4>2. a[1] \in Businesses \X Phones
        BY <4>1
      <4>3. Holds(g, log[a[1]], a[2])
        BY <2>9, <2>10, <4>1, <4>2
      <4> QED
        BY <2>7, <2>11, <3>3, <4>1, <4>2, <4>3
    <3> QED
      BY <2>17, <3>1, <3>2, <3>3
  <2>19. ReadIsWhole'
    <3> SUFFICES ASSUME NEW n \in Messages, InExchange(n)'
                 PROVE  /\ InOrder(g, task'[n].seen)
                        /\ \A a \in alone' : a[1] = Sender(n)' => Holds(g, task'[n].seen, a[2])
                        /\ task'[n].single => \A o \in Messages \ {n} : InExchange(o)' => ~Same(n, o)'
      BY <2>12 DEF ReadIsWhole
    <3>1. n # m
      BY <2>1 DEF InExchange
    <3>2. task'[n] = task[n] /\ InExchange(n) /\ Sender(n)' = Sender(n)
      BY <2>1, <3>1 DEF InExchange, Sender
    <3>3. /\ InOrder(history, task[n].seen)
          /\ \A a \in alone : a[1] = Sender(n) => Holds(history, task[n].seen, a[2])
          /\ task[n].single => \A o \in Messages \ {n} : InExchange(o) => ~Same(n, o)
      BY <3>2 DEF LogIInv, ReadIsWhole
    <3>4. InOrder(g, task[n].seen)
      BY <2>9, <3>3
    <3>5. ASSUME NEW a \in alone', a[1] = Sender(n) PROVE Holds(g, task[n].seen, a[2])
      <4>1. a \in alone
        <5>1. CASE a = <<x, m>> /\ task[m].single
          <6>1. Sender(n) = x
            BY <3>5, <5>1
          <6>2. Same(m, n)
            BY <6>1 DEF x, Sender, Same
          <6> QED
            BY <2>4, <3>1, <3>2, <5>1, <6>2
        <5> QED
          BY <2>17, <5>1
      <4>2. a[2] \in ToSet(history) /\ Holds(history, task[n].seen, a[2])
        BY <2>14, <3>3, <3>5, <4>1
      <4> QED
        BY <2>9, <3>3, <4>2
    <3>6. ASSUME task[n].single, NEW o \in Messages \ {n}, InExchange(o)' PROVE ~Same(n, o)'
      <4>1. o # m
        BY <2>1, <3>6 DEF InExchange
      <4>2. task'[o] = task[o] /\ InExchange(o)
        BY <2>1, <3>6, <4>1 DEF InExchange
      <4> QED
        BY <3>2, <3>3, <3>6, <4>2 DEF Same
    <3> QED
      BY <3>2, <3>4, <3>5, <3>6
  <2> QED
    BY <2>15, <2>16, <2>18, <2>19 DEF LogIInv
<1> QED
  BY <1>2, <1>3 DEF Save, Sender

\* The steps that neither read nor write a log.
LEMMA QuietKeepsLogs ==
  ASSUME ContextIInv, LogIInv, NEW m \in Messages,
         \/ \E from \in Phones \cup Bsuids, envelope \in Bsuids \cup {Nobody}, kind \in Kinds :
              Receive(m, from, envelope, kind)
         \/ \E b \in Businesses : SwitchRead(m, b)
         \/ SwitchWrite(m) \/ Joined(m) \/ FindPhone(m) \/ Resolve(m) \/ Fallback(m) \/ Answer(m) \/ Dispatch(m)
         \/ \E p \in Phones, b \in Businesses : Join(m, p, b)
  PROVE  LogIInv'
<1>1. /\ task[m] \in Jobs /\ JobIsWhole(task[m]) /\ task \in [Messages -> Jobs]
      /\ Handled \in Jobs /\ Handled.pc = "done"
  BY ChatTypes, RestingJobs DEF ContextIInv
<1>2. UNCHANGED <<log, history, alone>>
  BY DEF Receive, SwitchRead, SwitchWrite, Joined, FindPhone, Resolve, Fallback, Answer, Dispatch, Join, Changed,
         database, chatGhosts
\* What these steps leave in the place of a handler: its job is proved to be one where
\* the other invariant is, so only where it stands is asked here.
<1>3. ASSUME NEW r, task' = [task EXCEPT ![m] = r], task'[m] \in Jobs, task[m].pc # "done",
             r.pc \notin {"dispatch", "save"}
      PROVE  LogIInv'
  <2>1. task'[m] = r
    BY <1>1, <1>3
  <2> QED
    BY <1>2, <1>3, <2>1, QuietJob
<1>4. CASE \E from \in Phones \cup Bsuids, envelope \in Bsuids \cup {Nobody}, kind \in Kinds :
              Receive(m, from, envelope, kind)
  <2>1. PICK from \in Phones \cup Bsuids, envelope \in Bsuids \cup {Nobody}, kind \in Kinds :
              Receive(m, from, envelope, kind)
    BY <1>4
  <2>2. ContextIInv'
    BY <2>1, ReceiveKeepsContext
  <2>3. task'[m] \in Jobs
    BY <2>2, ChatTypes DEF ContextIInv, ChatsTypeOK, Jobs
  <2>4. PICK r : task' = [task EXCEPT ![m] = r] /\ r.pc \in {"done", "switch", "resolve"}
    <3> DEFINE id == Identity(from, envelope)
               pc == IF kind = "text" \/ id.phone # Nobody THEN (IF kind = "switch" THEN "switch" ELSE "resolve") ELSE "done"
               due == IF kind = "text" /\ id.phone # Nobody /\ ~Changing(id.phone) THEN shown[id.phone] ELSE Nobody
               bsuid == IF kind = "start" THEN Nobody ELSE id.bsuid
               r == IF pc = "done" THEN Handled ELSE Job(pc, kind, id.phone, bsuid, Nobody, <<>>, due, TRUE)
    <3>1. task' = [task EXCEPT ![m] = r]
      BY <2>1 DEF Receive
    <3>2. pc \in {"done", "switch", "resolve"}
      OBVIOUS
    <3> HIDE DEF id, pc, due, bsuid
    <3>3. r.pc \in {"done", "switch", "resolve"}
      BY <1>1, <3>2 DEF Job
    <3> HIDE DEF r
    <3> QED
      BY <3>1, <3>3
  <2>5. task[m].pc # "done"
    BY <2>1, RestingJobs DEF Receive
  <2> QED
    BY <1>3, <2>3, <2>4, <2>5
<1>5. CASE \E b \in Businesses : SwitchRead(m, b)
  <2>1. PICK b \in Businesses : SwitchRead(m, b)
    BY <1>5
  <2>2. ContextIInv'
    BY <2>1, SwitchReadKeepsContext
  <2>3. task'[m] \in Jobs
    BY <2>2 DEF ContextIInv, ChatsTypeOK, Jobs
  <2>4. PICK r : task' = [task EXCEPT ![m] = r] /\ r.pc \in {"done", "switching"}
    <3>1. [task[m] EXCEPT !.pc = "switching", !.business = b].pc = "switching"
      BY <1>1 DEF Jobs
    <3> QED
      BY <2>1, <3>1, RestingJobs DEF SwitchRead
  <2>5. task[m].pc # "done"
    BY <2>1 DEF SwitchRead, In
  <2> QED
    BY <1>3, <2>3, <2>4, <2>5
<1>6. CASE SwitchWrite(m)
  <2>1. task[m].pc = "switching" /\ task[m].phone \in Phones
    BY <1>1, <1>6 DEF SwitchWrite, In, JobIsWhole
  <2>2. task' = Unsettled(task[m].phone, [task EXCEPT ![m] = Handled])
    BY <1>6 DEF SwitchWrite
  <2> QED
    BY <1>1, <1>2, <2>1, <2>2, QuietSwitch
<1>7. CASE Joined(m)
  <2>1. task[m].pc = "joined" /\ task[m].phone \in Phones
    BY <1>1, <1>7 DEF Joined, In, JobIsWhole
  <2>2. CASE task' = Unsettled(task[m].phone, [task EXCEPT ![m] = Handled])
    BY <1>1, <1>2, <2>1, <2>2, QuietSwitch
  <2>3. CASE task' = [task EXCEPT ![m] = Handled]
    BY <1>1, <1>2, <2>1, <2>3, QuietJob
  <2> QED
    BY <1>7, <2>2, <2>3 DEF Joined
<1>8. CASE FindPhone(m)
  <2>1. task'[m] \in Jobs
    BY <1>8, FindPhoneKeepsContext DEF ContextIInv, ChatsTypeOK, Jobs
  <2>2. PICK r : task' = [task EXCEPT ![m] = r] /\ r.pc \in {"done", "found"}
    <3>1. [task[m] EXCEPT !.pc = "found", !.phone = phoneOf[task[m].bsuid]].pc = "found"
      BY <1>1 DEF Jobs
    <3> QED
      BY <1>8, <3>1, RestingJobs DEF FindPhone
  <2>3. task[m].pc # "done"
    BY <1>8 DEF FindPhone, In
  <2> QED
    BY <1>3, <2>1, <2>2, <2>3
<1>9. CASE Resolve(m)
  <2>1. task'[m] \in Jobs
    BY <1>9, ResolveKeepsContext DEF ContextIInv, ChatsTypeOK, Jobs
  <2>2. PICK r : task' = [task EXCEPT ![m] = r] /\ r.pc \in {"done", "again", "fallback", "context", "drafts"}
    <3> DEFINE p == task[m].phone
               again == In(m, "again")
               text == After("text", again)
    <3>1. text \in {"context", "drafts"}
      BY DEF After
    <3>2. /\ [task[m] EXCEPT !.pc = "again"].pc = "again"
          /\ [task[m] EXCEPT !.pc = "fallback", !.business = member[p][1], !.single = ~again].pc = "fallback"
          /\ [task[m] EXCEPT !.pc = text, !.business = Chosen(p)].pc = text
      BY <1>1 DEF Jobs
    <3>3. \E r : /\ task' = [task EXCEPT ![m] = r]
                 /\ r \in {Handled, [task[m] EXCEPT !.pc = "again"],
                           [task[m] EXCEPT !.pc = "fallback", !.business = member[p][1], !.single = ~again],
                           [task[m] EXCEPT !.pc = text, !.business = Chosen(p)]}
      BY <1>9 DEF Resolve
    <3> HIDE DEF p, again, text
    <3> QED
      BY <1>1, <3>1, <3>2, <3>3
  <2>3. task[m].pc # "done"
    BY <1>9 DEF Resolve
  <2> QED
    BY <1>3, <2>1, <2>2, <2>3
<1>10. CASE Fallback(m)
  <2> DEFINE next == After(task[m].kind, ~task[m].single)
             r == IF next = "done" THEN Handled ELSE [task[m] EXCEPT !.pc = next, !.single = TRUE]
  <2>1. task[m].pc = "fallback" /\ task[m].phone \in Phones
    BY <1>1, <1>10 DEF Fallback, In, JobIsWhole
  <2>2. next \in {"done", "context", "drafts"}
    BY DEF After
  <2>3. task' = Unsettled(task[m].phone, [task EXCEPT ![m] = r])
    BY <1>10 DEF Fallback
  <2> HIDE DEF next
  <2>4. r \in Jobs /\ r.pc \notin {"dispatch", "save"}
    <3>1. CASE next = "done"
      BY <1>1, <3>1
    <3>2. CASE next # "done"
      BY <1>1, <2>2, <3>2 DEF Jobs, Pcs
    <3> QED
      BY <3>1, <3>2
  <2> HIDE DEF r
  <2> QED
    BY <1>2, <2>1, <2>3, <2>4, QuietSwitch
<1>11. CASE Answer(m)
  <2>1. task'[m] \in Jobs
    BY <1>11, AnswerKeepsContext DEF ContextIInv, ChatsTypeOK, Jobs
  <2>2. PICK r : task' = [task EXCEPT ![m] = r] /\ r.pc \in {"done", "context"}
    <3>1. [task[m] EXCEPT !.pc = "context"].pc = "context"
      BY <1>1 DEF Jobs
    <3>2. Moved(m, "context") = [task EXCEPT ![m] = [task[m] EXCEPT !.pc = "context"]]
      BY <1>1 DEF Moved
    <3> QED
      BY <1>11, <3>1, <3>2, RestingJobs DEF Answer
  <2>3. task[m].pc # "done"
    BY <1>11 DEF Answer, In
  <2> QED
    BY <1>3, <2>1, <2>2, <2>3
<1>12. CASE Dispatch(m)
  <2>1. task[m].pc = "dispatch"
    BY <1>12 DEF Dispatch, In
  <2>2. PICK r : task' = [task EXCEPT ![m] = r] /\ r = [task[m] EXCEPT !.pc = "save"]
    BY <1>1, <1>12 DEF Dispatch, Moved
  <2>3. r \in Jobs /\ r.pc = "save"
    BY <1>1, <2>2 DEF Jobs, Pcs
  <2>4. r = [task[m] EXCEPT !.pc = r.pc]
    BY <2>2, <2>3
  <2> QED
    BY <1>2, <2>1, <2>2, <2>3, <2>4, QuietJob DEF InExchange
<1>13. CASE \E p \in Phones, b \in Businesses : Join(m, p, b)
  <2>1. PICK p \in Phones, b \in Businesses : Join(m, p, b)
    BY <1>13
  <2>2. task'[m] \in Jobs
    BY <2>1, JoinKeepsContext DEF ContextIInv, ChatsTypeOK, Jobs
  <2>3. PICK r : task' = [task EXCEPT ![m] = r] /\ r.pc = "joined"
    <3> DEFINE r == Job("joined", "signup", p, Nobody, b, <<>>, Nobody, TRUE)
    <3>1. task' = [task EXCEPT ![m] = r] /\ r.pc = "joined"
      BY <2>1 DEF Join, Job
    <3> HIDE DEF r
    <3> QED
      BY <3>1
  <2>4. task[m].pc # "done"
    BY <2>1, RestingJobs DEF Join
  <2> QED
    BY <1>3, <2>2, <2>3, <2>4
<1> QED
  BY <1>4, <1>5, <1>6, <1>7, <1>8, <1>9, <1>10, <1>11, <1>12, <1>13

LEMMA RestKeepsLogs ==
  ASSUME ContextIInv, LogIInv, StopServer \/ UNCHANGED chatVars \/ (\E u \in Bsuids, p \in Phones : Link(u, p))
  PROVE  LogIInv'
<1>1. UNCHANGED <<log, history, alone>>
  BY DEF StopServer, Link, chatVars, database, chatGhosts
<1>2. CASE StopServer
  <2>1. \A n \in Messages : task'[n] = IF task[n] = Unread THEN Unread ELSE Handled
    BY <1>2 DEF StopServer
  <2>2. \A n \in Messages : Stays(n)
    BY <2>1, RestingJobs DEF Stays
  <2> QED
    BY <1>1, <2>2, QuietForLogs
<1>3. CASE UNCHANGED task
  <2>1. \A n \in Messages : Stays(n)
    BY <1>3 DEF Stays
  <2> QED
    BY <1>1, <2>1, QuietForLogs
<1> QED
  BY <1>2, <1>3 DEF Link, chatVars

LEMMA LogStep ==
  ASSUME ChatsIInv, [ChatsNext]_chatVars
  PROVE  LogIInv'
<1> USE DEF ChatsIInv
<1>1. CASE \E m \in Messages : ReadContext(m) \/ Save(m)
  BY <1>1, ReadContextKeepsLogs, SaveKeepsLogs
<1>2. CASE StopServer \/ UNCHANGED chatVars \/ (\E u \in Bsuids, p \in Phones : Link(u, p))
  BY <1>2, RestKeepsLogs
<1>3. ASSUME NEW m \in Messages,
             \/ \E from \in Phones \cup Bsuids, envelope \in Bsuids \cup {Nobody}, kind \in Kinds :
                  Receive(m, from, envelope, kind)
             \/ \E b \in Businesses : SwitchRead(m, b)
             \/ SwitchWrite(m) \/ Joined(m) \/ FindPhone(m) \/ Resolve(m) \/ Fallback(m)
             \/ Answer(m) \/ Dispatch(m)
             \/ \E p \in Phones, b \in Businesses : Join(m, p, b)
      PROVE  LogIInv'
  BY <1>3, QuietKeepsLogs
<1> QED
  BY <1>1, <1>2, <1>3 DEF ChatsNext

-----------------------------------------------------------------------------
\* The invariants hold of every behaviour: whatever a handler has found out is right for
\* its phone, and a log, stored or read, holds saved exchanges in their order.
THEOREM ChatsInvariance == ChatsSpec => []ChatsIInv
<1>1. ChatsInit => ChatsIInv
  BY ContextInitially, LogInitially DEF ChatsIInv
<1>2. ChatsIInv /\ [ChatsNext]_chatVars => ChatsIInv'
  BY ContextStep, LogStep DEF ChatsIInv
<1> QED
  BY <1>1, <1>2, PTL DEF ChatsSpec

\* A text that a phone sends after it was switched to a business, with no other change
\* of its active business under way, is recorded for that business and for no other
\* (resolveTenant, handleSwitchCommand).
THEOREM TextsFollowTheSwitch == ChatsSpec => FollowsSwitch
<1>1. ChatsIInv /\ [ChatsNext]_chatVars => DueIsFollowed
  BY ContextStep
<1>2. DueIsFollowed => [\A m \in Messages : (In(m, "resolve") /\ task[m].due # Nobody) =>
                          task'[m].business \in {Nobody, task[m].due}]_chatVars
  BY DEF DueIsFollowed
<1> QED
  BY <1>1, <1>2, ChatsInvariance, PTL DEF ChatsSpec, FollowsSwitch

\* An exchange that was saved and overlapped no other of its sender is still in the log
\* of recent exchanges, unless so many later ones were saved that the log is full of
\* them (saveInteractionPair).
THEOREM RecentIsKept == ChatsSpec => []RecentKept
<1>1. ChatsIInv => RecentKept
  BY DEF ChatsIInv, LogIInv, AloneIsHeld, Holds, RecentKept
<1> QED
  BY <1>1, ChatsInvariance, PTL

=============================================================================
