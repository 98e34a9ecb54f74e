---------------------------- MODULE OrdersProofs ----------------------------
(***************************************************************************)
(* Proofs about module Orders, for any number of orders and of concurrent  *)
(* answers.                                                                *)
(*                                                                         *)
(* The conditional update admits one request to an order: OneWorks says    *)
(* that at most one request is past it, Progress how far that request has  *)
(* brought the books.  Every other fact follows from these two.            *)
(***************************************************************************)
EXTENDS Orders, TLAPS

USE OrderAssumption, CrashAssumption

Pcs == {"idle", "accept", "decline", "purchase", "sale", "rate", "tell"}
Verdicts == {"accepted", "declined"}
Known == Orders \cup {NoOrder}
Outcomes == {"none", "accepted", "declined"}
Tasks == [pc : Pcs, order : Known, verdict : Outcomes]

\* What is known of the rows and books, and of the requests.
LEMMA Typed ==
  ASSUME OrdersTypeOK
  PROVE  /\ status \in [Orders -> {"none", "pending", "accepted", "declined"}]
         /\ priced \subseteq Orders /\ told \subseteq Orders \X Verdicts
         /\ bought \in [Orders -> Nat] /\ sold \in [Orders -> Nat] /\ stocked \in [Orders -> Nat]
         /\ counted \in [Orders -> Nat] /\ score \in 0..100 /\ crashes \in 0..MaxCrashes
         /\ answer \in [Answers -> Tasks]
BY DEF OrdersTypeOK, Tasks, Pcs, Known, Outcomes, Verdicts

LEMMA StepIs ==
  ASSUME NEW pc \in Pcs, NEW o \in Known, NEW v \in Outcomes
  PROVE  /\ Step(pc, o, v) \in Tasks
         /\ Step(pc, o, v).pc = pc /\ Step(pc, o, v).order = o /\ Step(pc, o, v).verdict = v
BY DEF Step, Tasks

\* A request moves; the others stay where they are.
LEMMA Moved ==
  ASSUME OrdersTypeOK, NEW a \in Answers,
         NEW pc \in Pcs, NEW o \in Known, NEW v \in Outcomes,
         answer' = [answer EXCEPT ![a] = Step(pc, o, v)]
  PROVE  /\ answer'[a].pc = pc /\ answer'[a].order = o /\ answer'[a].verdict = v
         /\ \A b \in Answers : b # a => answer'[b] = answer[b]
         /\ answer' \in [Answers -> Tasks]
<1> DEFINE r == Step(pc, o, v)
<1>1. r \in Tasks /\ r.pc = pc /\ r.order = o /\ r.verdict = v
  BY StepIs
<1>2. answer' = [answer EXCEPT ![a] = r]
  OBVIOUS
<1> HIDE DEF r
<1>3. answer'[a] = r /\ \A b \in Answers : b # a => answer'[b] = answer[b]
  BY <1>2, Typed
<1>4. answer' \in [Answers -> Tasks]
  BY <1>1, <1>2, Typed
<1> QED BY <1>1, <1>3, <1>4

\* A request ends, whatever it was doing: what it leaves behind was true already.
LEMMA DoneSound ==
  ASSUME OrdersIInv, NEW a \in Answers, Done(a),
         UNCHANGED <<tableVars, bookVars, told, scoreVars, crashes>>
  PROVE  OrdersIInv'
<1>1. OrdersTypeOK /\ answer' = [answer EXCEPT ![a] = Step("idle", NoOrder, "none")]
  BY DEF OrdersIInv, Done, Free
<1>2. /\ answer'[a].pc = "idle"
      /\ \A b \in Answers : b # a => answer'[b] = answer[b]
      /\ answer' \in [Answers -> Tasks]
  BY <1>1, Moved DEF Pcs, Known, Outcomes
<1>3. /\ status' = status /\ priced' = priced /\ bought' = bought /\ sold' = sold
      /\ stocked' = stocked /\ told' = told /\ counted' = counted /\ score' = score
      /\ crashes' = crashes
  BY DEF tableVars, bookVars, scoreVars
<1>4. OrdersTypeOK'
  BY <1>1, <1>2, <1>3 DEF OrdersTypeOK, Tasks, Pcs, Known, Outcomes
<1>5. KnowsItsOrder'
  BY <1>2, <1>3 DEF OrdersIInv, KnowsItsOrder, Working, At
<1>6. OneWorks'
  BY <1>2 DEF OrdersIInv, OneWorks, Working
<1>7. Progress'
  BY <1>2, <1>3 DEF OrdersIInv, Progress, At, Untouched, FullyBooked
<1>8. PendingUntouched' /\ BookedOnce' /\ BooksBeforeNews' /\ NewsIsTrue' /\ ScoreIsFair'
  BY <1>3 DEF OrdersIInv, PendingUntouched, Untouched, BookedOnce, BooksBeforeNews, NewsIsTrue,
              ScoreIsFair
<1> QED BY <1>4, <1>5, <1>6, <1>7, <1>8 DEF OrdersIInv

LEMMA PlaceSound ==
  ASSUME OrdersIInv, NEW o \in Orders, NEW hasPrice \in BOOLEAN, Place(o, hasPrice)
  PROVE  OrdersIInv'
<1>1. OrdersTypeOK /\ Untouched(o)
  BY DEF OrdersIInv, PendingUntouched, Place
<1>2. /\ status' = [status EXCEPT ![o] = "pending"]
      /\ \A x \in Orders : x # o => (x \in priced' <=> x \in priced)
      /\ priced' \subseteq Orders
      /\ bought' = bought /\ sold' = sold /\ stocked' = stocked /\ told' = told
      /\ counted' = counted /\ score' = score /\ answer' = answer /\ crashes' = crashes
  BY <1>1, Typed DEF Place, bookVars, scoreVars
<1>3. status[o] = "none" /\ \A x \in Orders : status'[x] = IF x = o THEN "pending" ELSE status[x]
  BY <1>1, <1>2, Typed DEF Place
<1>4. OrdersTypeOK'
  BY <1>1, <1>2 DEF OrdersTypeOK
<1>5. \A a \in Answers : ~At(a, "idle") => answer[a].order \in Orders /\ answer[a].order # o
  BY <1>3 DEF OrdersIInv, KnowsItsOrder
<1>6. KnowsItsOrder'
  BY <1>2, <1>3, <1>5 DEF OrdersIInv, KnowsItsOrder, At, Working
<1>7. OneWorks'
  BY <1>2 DEF OrdersIInv, OneWorks, Working
<1>8. Progress'
  BY <1>2, <1>5 DEF OrdersIInv, Progress, At, Untouched, FullyBooked
<1>9. PendingUntouched' /\ NewsIsTrue'
  BY <1>1, <1>2, <1>3 DEF OrdersIInv, PendingUntouched, Untouched, NewsIsTrue
<1>10. BookedOnce' /\ BooksBeforeNews' /\ ScoreIsFair'
  BY <1>1, <1>2, <1>3 DEF OrdersIInv, BookedOnce, BooksBeforeNews, ScoreIsFair, Untouched
<1> QED BY <1>4, <1>6, <1>7, <1>8, <1>9, <1>10 DEF OrdersIInv

LEMMA ReadSound ==
  ASSUME OrdersIInv, NEW a \in Answers, NEW o \in Orders, NEW v \in Verdicts, ReadOrder(a, o, v)
  PROVE  OrdersIInv'
<1> DEFINE pc == IF v = "accepted" THEN "accept" ELSE "decline"
<1>1. OrdersTypeOK /\ status[o] = "pending"
  BY DEF OrdersIInv, ReadOrder
<1>2. answer' = [answer EXCEPT ![a] = Step(pc, o, v)]
  BY DEF ReadOrder
<1>3. /\ pc \in {"accept", "decline"} /\ pc \in Pcs /\ v \in Outcomes
      /\ o \in Known /\ (pc = "accept" <=> v = "accepted")
  BY DEF Verdicts, Pcs, Known, Outcomes
<1> HIDE DEF pc
<1>4. /\ answer'[a].pc = pc /\ answer'[a].order = o /\ answer'[a].verdict = v
      /\ \A b \in Answers : b # a => answer'[b] = answer[b]
      /\ answer' \in [Answers -> Tasks]
  BY <1>1, <1>2, <1>3, Moved
<1>5. /\ status' = status /\ priced' = priced /\ bought' = bought /\ sold' = sold
      /\ stocked' = stocked /\ told' = told /\ counted' = counted /\ score' = score
      /\ crashes' = crashes
  BY DEF ReadOrder, tableVars, bookVars, scoreVars
<1>6. OrdersTypeOK'
  BY <1>1, <1>4, <1>5 DEF OrdersTypeOK, Tasks, Pcs, Known, Outcomes
<1>7. KnowsItsOrder'
  BY <1>1, <1>3, <1>4, <1>5 DEF OrdersIInv, KnowsItsOrder, Working, At, Verdicts
<1>8. OneWorks'
  BY <1>3, <1>4 DEF OrdersIInv, OneWorks, Working
<1>9. Progress'
  BY <1>3, <1>4, <1>5 DEF OrdersIInv, Progress, At, Untouched, FullyBooked
<1>10. PendingUntouched' /\ BookedOnce' /\ BooksBeforeNews' /\ NewsIsTrue' /\ ScoreIsFair'
  BY <1>5 DEF OrdersIInv, PendingUntouched, Untouched, BookedOnce, BooksBeforeNews, NewsIsTrue,
              ScoreIsFair
<1> QED BY <1>6, <1>7, <1>8, <1>9, <1>10 DEF OrdersIInv

\* The conditional update: an order that is still pending has no other request
\* working on it, so the one that sets its status is the only one to go on.
LEMMA SetStatusSound ==
  ASSUME OrdersIInv, NEW a \in Answers, SetStatus(a)
  PROVE  OrdersIInv'
<1> DEFINE o == answer[a].order
           v == answer[a].verdict
           pc == IF At(a, "accept") THEN "purchase" ELSE "rate"
<1>1. OrdersTypeOK /\ o \in Orders /\ v \in Verdicts
  BY DEF OrdersIInv, SetStatus, KnowsItsOrder, At, Verdicts
<1>2. CASE ~StillPending(o)
  <2>1. Done(a) /\ UNCHANGED <<tableVars, bookVars, told, scoreVars, crashes>>
    BY <1>2 DEF SetStatus, tableVars
  <2> QED BY <2>1, DoneSound
<1>3. CASE StillPending(o)
  <2>1. /\ answer' = [answer EXCEPT ![a] = Step(pc, o, v)]
        /\ status' = [status EXCEPT ![o] = v]
        /\ priced' = priced /\ bought' = bought /\ sold' = sold
        /\ stocked' = stocked /\ told' = told /\ counted' = counted /\ score' = score
        /\ crashes' = crashes
    BY <1>3 DEF SetStatus, Go, bookVars, scoreVars
  <2>2. Untouched(o) /\ status[o] = "pending"
    BY <1>1, <1>3 DEF OrdersIInv, PendingUntouched, StillPending
  <2>3. pc \in Pcs /\ pc \in {"purchase", "rate"} /\ (pc = "rate" => At(a, "decline"))
        /\ (pc = "purchase" => At(a, "accept"))
    BY DEF Pcs, SetStatus, At
  <2>4. (pc = "purchase" => v = "accepted") /\ (pc = "rate" => v = "declined")
    BY <2>3 DEF OrdersIInv, KnowsItsOrder, At
  <2>4a. v \in Outcomes /\ o \in Known
    BY <1>1 DEF Verdicts, Known, Outcomes
  <2> HIDE DEF o, v, pc
  <2>5. /\ answer'[a].pc = pc /\ answer'[a].order = o /\ answer'[a].verdict = v
        /\ \A b \in Answers : b # a => answer'[b] = answer[b]
        /\ answer' \in [Answers -> Tasks]
    BY <1>1, <2>1, <2>3, <2>4a, Moved
  <2>6. \A x \in Orders : status'[x] = IF x = o THEN v ELSE status[x]
    BY <1>1, <2>1, Typed
  <2>7. \A b \in Answers : Working(b) => answer[b].order # o
    BY <1>1, <2>2 DEF OrdersIInv, KnowsItsOrder, Working, At, Verdicts
  <2>8. OrdersTypeOK'
    BY <1>1, <2>1, <2>5 DEF OrdersTypeOK, Tasks, Pcs, Known, Outcomes, Verdicts
  <2>9. KnowsItsOrder'
    BY <1>1, <2>3, <2>4, <2>5, <2>6, <2>7 DEF OrdersIInv, KnowsItsOrder, Working, At, Verdicts
  <2>10. OneWorks'
    BY <2>5, <2>7 DEF OrdersIInv, OneWorks, Working
  <2>11. Progress'
    BY <2>1, <2>2, <2>3, <2>4, <2>5 DEF OrdersIInv, Progress, At, Untouched, FullyBooked
  <2>12. PendingUntouched' /\ NewsIsTrue'
    BY <1>1, <2>1, <2>2, <2>6 DEF OrdersIInv, PendingUntouched, Untouched, NewsIsTrue, Verdicts
  <2>13. BookedOnce' /\ BooksBeforeNews' /\ ScoreIsFair'
    BY <1>1, <2>1, <2>2, <2>6 DEF OrdersIInv, BookedOnce, BooksBeforeNews, ScoreIsFair, Untouched,
                                  Verdicts
  <2> QED BY <2>8, <2>9, <2>10, <2>11, <2>12, <2>13 DEF OrdersIInv
<1> QED BY <1>2, <1>3

\* A request goes on to its next step with its order and verdict.
LEMMA Gone ==
  ASSUME OrdersTypeOK, NEW a \in Answers, NEW pc \in Pcs, Go(a, pc)
  PROVE  /\ answer'[a].pc = pc
         /\ answer'[a].order = answer[a].order /\ answer'[a].verdict = answer[a].verdict
         /\ \A b \in Answers : b # a => answer'[b] = answer[b]
         /\ answer' \in [Answers -> Tasks]
<1> DEFINE o == answer[a].order
           v == answer[a].verdict
<1>1. o \in Known /\ v \in Outcomes
  BY Typed DEF Tasks
<1>2. answer' = [answer EXCEPT ![a] = Step(pc, o, v)]
  BY DEF Go
<1> HIDE DEF o, v
<1>3. /\ answer'[a].pc = pc /\ answer'[a].order = o /\ answer'[a].verdict = v
      /\ \A b \in Answers : b # a => answer'[b] = answer[b]
      /\ answer' \in [Answers -> Tasks]
  BY <1>1, <1>2, Moved
<1> QED BY <1>3 DEF o, v

\* What holds of a request that is booking, and of its order.
LEMMA Booking ==
  ASSUME OrdersIInv, NEW a \in Answers, Working(a)
  PROVE  /\ OrdersTypeOK /\ answer[a].order \in Orders /\ answer[a].verdict \in Verdicts
         /\ status[answer[a].order] = answer[a].verdict
         /\ \A b \in Answers : Working(b) /\ b # a => answer[b].order # answer[a].order
BY DEF OrdersIInv, Working, KnowsItsOrder, OneWorks, At, Verdicts

LEMMA BookPurchaseSound ==
  ASSUME OrdersIInv, NEW a \in Answers, NEW known \in BOOLEAN, BookPurchase(a, known)
  PROVE  OrdersIInv'
<1> DEFINE o == answer[a].order
           pc == AfterPurchase(o)
<1>1. At(a, "purchase") /\ Working(a)
  BY DEF BookPurchase, At, Working
<1>2. /\ OrdersTypeOK /\ o \in Orders /\ answer[a].verdict = "accepted" /\ status[o] = "accepted"
      /\ \A b \in Answers : Working(b) /\ b # a => answer[b].order # o
      /\ Untouched(o)
  BY <1>1, Booking DEF OrdersIInv, KnowsItsOrder, Progress
<1>3. /\ bought' = [bought EXCEPT ![o] = bought[o] + 1]
      /\ stocked' \in [Orders -> Nat] /\ stocked'[o] \in {0, 1}
      /\ \A x \in Orders : x # o => stocked'[x] = stocked[x]
      /\ Go(a, pc) /\ sold' = sold
      /\ status' = status /\ priced' = priced /\ told' = told
      /\ counted' = counted /\ score' = score /\ crashes' = crashes
  BY <1>2, Typed DEF BookPurchase, tableVars, scoreVars, Untouched
<1>4. pc \in Pcs /\ pc \in {"sale", "rate"} /\ (pc = "rate" <=> o \notin priced)
  BY DEF AfterPurchase, Pcs
<1> HIDE DEF pc
<1>5. /\ answer'[a].pc = pc /\ answer'[a].order = o /\ answer'[a].verdict = "accepted"
      /\ \A b \in Answers : b # a => answer'[b] = answer[b]
      /\ answer' \in [Answers -> Tasks]
  BY <1>2, <1>3, <1>4, Gone
<1>6. /\ bought'[o] = 1 /\ \A x \in Orders : x # o => bought'[x] = bought[x]
      /\ bought' \in [Orders -> Nat]
  BY <1>2, <1>3, Typed DEF Untouched
<1>7. OrdersTypeOK'
  BY <1>2, <1>3, <1>5, <1>6 DEF OrdersTypeOK, Tasks, Pcs, Known, Outcomes
<1>8. KnowsItsOrder'
  BY <1>2, <1>3, <1>4, <1>5 DEF OrdersIInv, KnowsItsOrder, Working, At
<1>9. OneWorks'
  BY <1>1, <1>2, <1>4, <1>5 DEF OrdersIInv, OneWorks, Working
<1>10. Progress'
  <2>1. SUFFICES ASSUME NEW b \in Answers
                 PROVE  Progress!(b)'
    BY DEF Progress
  <2>2. CASE b = a
    BY <1>2, <1>3, <1>4, <1>5, <1>6, <2>2 DEF At, Untouched, FullyBooked
  <2>3. CASE b # a /\ Working(b)
    BY <1>2, <1>3, <1>5, <1>6, <2>3, Booking DEF OrdersIInv, Progress, At, Untouched, FullyBooked
  <2>4. CASE b # a /\ ~Working(b)
    BY <1>5, <2>4 DEF Working, At
  <2> QED BY <2>2, <2>3, <2>4
<1>11. PendingUntouched' /\ BookedOnce' /\ BooksBeforeNews'
  BY <1>2, <1>3, <1>6, Typed DEF OrdersIInv, PendingUntouched, Untouched, BookedOnce, BooksBeforeNews
<1>12. NewsIsTrue' /\ ScoreIsFair'
  BY <1>3 DEF OrdersIInv, NewsIsTrue, ScoreIsFair
<1> QED BY <1>7, <1>8, <1>9, <1>10, <1>11, <1>12 DEF OrdersIInv

LEMMA BookSaleSound ==
  ASSUME OrdersIInv, NEW a \in Answers, BookSale(a)
  PROVE  OrdersIInv'
<1> DEFINE o == answer[a].order
<1>1. At(a, "sale") /\ Working(a)
  BY DEF BookSale, At, Working
<1>2. /\ OrdersTypeOK /\ o \in Orders /\ answer[a].verdict = "accepted" /\ status[o] = "accepted"
      /\ \A b \in Answers : Working(b) /\ b # a => answer[b].order # o
      /\ bought[o] = 1 /\ sold[o] = 0 /\ counted[o] = 0
  BY <1>1, Booking DEF OrdersIInv, KnowsItsOrder, Progress
<1>3. /\ sold' = [sold EXCEPT ![o] = sold[o] + 1] /\ Go(a, "rate")
      /\ bought' = bought /\ stocked' = stocked
      /\ status' = status /\ priced' = priced /\ told' = told
      /\ counted' = counted /\ score' = score /\ crashes' = crashes
  BY <1>2 DEF BookSale, tableVars, scoreVars
<1>4. /\ answer'[a].pc = "rate" /\ answer'[a].order = o /\ answer'[a].verdict = "accepted"
      /\ \A b \in Answers : b # a => answer'[b] = answer[b]
      /\ answer' \in [Answers -> Tasks]
  BY <1>2, <1>3, Gone DEF Pcs
<1>5. /\ sold'[o] = 1 /\ \A x \in Orders : x # o => sold'[x] = sold[x]
      /\ sold' \in [Orders -> Nat]
  BY <1>2, <1>3, Typed
<1>6. OrdersTypeOK'
  BY <1>2, <1>3, <1>4, <1>5 DEF OrdersTypeOK, Tasks, Pcs, Known, Outcomes
<1>7. KnowsItsOrder'
  BY <1>2, <1>3, <1>4 DEF OrdersIInv, KnowsItsOrder, Working, At
<1>8. OneWorks'
  BY <1>1, <1>2, <1>4 DEF OrdersIInv, OneWorks, Working
<1>9. Progress'
  <2>1. SUFFICES ASSUME NEW b \in Answers
                 PROVE  Progress!(b)'
    BY DEF Progress
  <2>2. CASE b = a
    BY <1>2, <1>3, <1>4, <1>5, <2>2 DEF At, FullyBooked
  <2>3. CASE b # a /\ Working(b)
    BY <1>2, <1>3, <1>4, <1>5, <2>3, Booking DEF OrdersIInv, Progress, At, Untouched, FullyBooked
  <2>4. CASE b # a /\ ~Working(b)
    BY <1>4, <2>4 DEF Working, At
  <2> QED BY <2>2, <2>3, <2>4
<1>10. PendingUntouched' /\ BookedOnce' /\ BooksBeforeNews'
  BY <1>2, <1>3, <1>5, Typed DEF OrdersIInv, PendingUntouched, Untouched, BookedOnce, BooksBeforeNews
<1>11. NewsIsTrue' /\ ScoreIsFair'
  BY <1>3 DEF OrdersIInv, NewsIsTrue, ScoreIsFair
<1> QED BY <1>6, <1>7, <1>8, <1>9, <1>10, <1>11 DEF OrdersIInv

\* The moving average of a score in 5..96 and an outcome of 0 or 100 is in 5..96.
LEMMA AverageStays ==
  ASSUME NEW s \in 5..96, NEW outcome \in {0, 100}
  PROVE  Average(s, outcome) \in 5..96
<1>1. CASE outcome = 0
  <2>1. 9 * s + 5 \in 50..869
    OBVIOUS
  <2>2. (9 * s + 0 + 5) \div 10 \in 5..86
    BY <2>1
  <2> QED BY <1>1, <2>2 DEF Average
<1>2. CASE outcome = 100
  <2>1. 9 * s + 105 \in 150..969
    OBVIOUS
  <2>2. (9 * s + 100 + 5) \div 10 \in 15..96
    BY <2>1
  <2> QED BY <1>2, <2>2 DEF Average
<1> QED BY <1>1, <1>2

LEMMA RateSound ==
  ASSUME OrdersIInv, NEW a \in Answers, Rate(a)
  PROVE  OrdersIInv'
<1> DEFINE o == answer[a].order
           v == answer[a].verdict
<1>1. At(a, "rate") /\ Working(a)
  BY DEF Rate, At, Working
<1>2. /\ OrdersTypeOK /\ o \in Orders /\ v \in Verdicts /\ status[o] = v
      /\ \A b \in Answers : Working(b) /\ b # a => answer[b].order # o
      /\ counted[o] = 0 /\ (v = "accepted" => FullyBooked(o))
  BY <1>1, Booking DEF OrdersIInv, Progress
<1>3. /\ counted' = [counted EXCEPT ![o] = counted[o] + 1] /\ Go(a, "tell")
      /\ bought' = bought /\ sold' = sold /\ stocked' = stocked
      /\ status' = status /\ priced' = priced /\ told' = told /\ crashes' = crashes
  BY <1>2 DEF Rate, tableVars, bookVars
<1>4. score' \in 5..96
  BY AverageStays DEF Rate, OrdersIInv, ScoreIsFair
<1>5. /\ answer'[a].pc = "tell" /\ answer'[a].order = o /\ answer'[a].verdict = v
      /\ \A b \in Answers : b # a => answer'[b] = answer[b]
      /\ answer' \in [Answers -> Tasks]
  BY <1>2, <1>3, Gone DEF Pcs
<1>6. /\ counted'[o] = 1 /\ \A x \in Orders : x # o => counted'[x] = counted[x]
      /\ counted' \in [Orders -> Nat]
  BY <1>2, <1>3, Typed
<1>7. OrdersTypeOK'
  BY <1>2, <1>3, <1>4, <1>5, <1>6 DEF OrdersTypeOK, Tasks, Pcs, Known, Outcomes
<1>8. KnowsItsOrder'
  BY <1>2, <1>3, <1>5 DEF OrdersIInv, KnowsItsOrder, Working, At, Verdicts
<1>9. OneWorks'
  BY <1>1, <1>2, <1>5 DEF OrdersIInv, OneWorks, Working
<1>10. Progress'
  <2>1. SUFFICES ASSUME NEW b \in Answers
                 PROVE  Progress!(b)'
    BY DEF Progress
  <2>2. CASE b = a
    BY <1>2, <1>3, <1>5, <1>6, <2>2 DEF At, FullyBooked
  <2>3. CASE b # a /\ Working(b)
    BY <1>2, <1>3, <1>5, <1>6, <2>3, Booking DEF OrdersIInv, Progress, At, Untouched, FullyBooked
  <2>4. CASE b # a /\ ~Working(b)
    BY <1>5, <2>4 DEF Working, At
  <2> QED BY <2>2, <2>3, <2>4
<1>11. PendingUntouched'
  BY <1>2, <1>3, <1>6 DEF OrdersIInv, PendingUntouched, Untouched, Verdicts
<1>12. BookedOnce' /\ BooksBeforeNews' /\ NewsIsTrue'
  BY <1>3 DEF OrdersIInv, BookedOnce, BooksBeforeNews, NewsIsTrue
<1>13. ScoreIsFair'
  BY <1>2, <1>3, <1>4, <1>6 DEF OrdersIInv, ScoreIsFair, Verdicts
<1> QED BY <1>7, <1>8, <1>9, <1>10, <1>11, <1>12, <1>13 DEF OrdersIInv

LEMMA TellSound ==
  ASSUME OrdersIInv, NEW a \in Answers, Tell(a)
  PROVE  OrdersIInv'
<1> DEFINE o == answer[a].order
           v == answer[a].verdict
<1>1. At(a, "tell") /\ Working(a)
  BY DEF Tell, At, Working
<1>2. /\ OrdersTypeOK /\ o \in Orders /\ v \in Verdicts /\ status[o] = v
      /\ (v = "accepted" => FullyBooked(o))
      /\ \A b \in Answers : Working(b) /\ b # a => answer[b].order # o
  BY <1>1, Booking DEF OrdersIInv, Progress
<1>3. /\ answer' = [answer EXCEPT ![a] = Step("idle", NoOrder, "none")]
      /\ told' = told \cup {<<o, v>>}
      /\ bought' = bought /\ sold' = sold /\ stocked' = stocked
      /\ status' = status /\ priced' = priced
      /\ counted' = counted /\ score' = score /\ crashes' = crashes
  BY DEF Tell, Done, Free, tableVars, bookVars, scoreVars
<1>4. /\ answer'[a].pc = "idle"
      /\ \A b \in Answers : b # a => answer'[b] = answer[b]
      /\ answer' \in [Answers -> Tasks]
  BY <1>2, <1>3, Moved DEF Pcs, Known, Outcomes
<1>5. \A x \in Orders, w \in Verdicts :
        <<x, w>> \in told' <=> <<x, w>> \in told \/ (x = o /\ w = v)
  BY <1>3
<1>6. OrdersTypeOK'
  BY <1>2, <1>3, <1>4 DEF OrdersTypeOK, Tasks, Pcs, Known, Outcomes, Verdicts
<1>7. KnowsItsOrder'
  BY <1>3, <1>4 DEF OrdersIInv, KnowsItsOrder, Working, At
<1>8. OneWorks'
  BY <1>4 DEF OrdersIInv, OneWorks, Working
<1>9. Progress'
  <2>1. SUFFICES ASSUME NEW b \in Answers
                 PROVE  Progress!(b)'
    BY DEF Progress
  <2>2. CASE b = a
    BY <1>4, <2>2 DEF At
  <2>3. CASE b # a /\ Working(b)
    BY <1>2, <1>3, <1>4, <1>5, <2>3, Booking DEF OrdersIInv, Progress, At, Untouched, FullyBooked,
                                                 Verdicts
  <2>4. CASE b # a /\ ~Working(b)
    BY <1>4, <2>4 DEF Working, At
  <2> QED BY <2>2, <2>3, <2>4
<1>10. PendingUntouched' /\ NewsIsTrue'
  BY <1>2, <1>3, <1>5 DEF OrdersIInv, PendingUntouched, Untouched, NewsIsTrue, Verdicts
<1>11. BookedOnce' /\ ScoreIsFair'
  BY <1>3 DEF OrdersIInv, BookedOnce, ScoreIsFair
<1>12. BooksBeforeNews'
  <2>1. \A x \in Orders : <<x, "accepted">> \in told' =>
                          <<x, "accepted">> \in told \/ (x = o /\ v = "accepted")
    BY <1>5 DEF Verdicts
  <2>2. \A x \in Orders : <<x, "accepted">> \in told' => FullyBooked(x)
    BY <1>2, <2>1 DEF OrdersIInv, BooksBeforeNews, FullyBooked
  <2>3. ASSUME NEW x \in Orders PROVE BooksBeforeNews!(x)'
    <3>1. bought'[x] = bought[x] /\ sold'[x] = sold[x] /\ (x \in priced' <=> x \in priced)
      BY <1>3
    <3>2. sold[x] <= bought[x]
      BY DEF OrdersIInv, BooksBeforeNews
    <3> QED BY <2>2, <3>1, <3>2 DEF FullyBooked
  <2> QED BY <2>3, Zenon DEF BooksBeforeNews
<1> QED BY <1>6, <1>7, <1>8, <1>9, <1>10, <1>11, <1>12 DEF OrdersIInv

LEMMA CrashSound ==
  ASSUME OrdersIInv, OrdersCrash
  PROVE  OrdersIInv'
<1>1. /\ status' = status /\ priced' = priced /\ bought' = bought /\ sold' = sold
      /\ stocked' = stocked /\ told' = told /\ counted' = counted /\ score' = score
      /\ crashes' \in 0..MaxCrashes
  BY DEF OrdersIInv, OrdersTypeOK, OrdersCrash, tableVars, bookVars, scoreVars
<1>2. Free \in Tasks /\ Free.pc = "idle"
  BY StepIs DEF Free, Pcs, Known, Outcomes
<1>3. answer' \in [Answers -> Tasks] /\ \A a \in Answers : answer'[a].pc = "idle"
  BY <1>2 DEF OrdersCrash
<1>4. OrdersTypeOK'
  BY <1>1, <1>3 DEF OrdersIInv, OrdersTypeOK, Tasks, Pcs, Known, Outcomes
<1>5. KnowsItsOrder' /\ OneWorks' /\ Progress'
  BY <1>3 DEF KnowsItsOrder, OneWorks, Progress, Working, At
<1>6. PendingUntouched' /\ BookedOnce' /\ BooksBeforeNews' /\ NewsIsTrue' /\ ScoreIsFair'
  BY <1>1 DEF OrdersIInv, PendingUntouched, Untouched, BookedOnce, BooksBeforeNews, NewsIsTrue,
              ScoreIsFair
<1> QED BY <1>4, <1>5, <1>6 DEF OrdersIInv

-----------------------------------------------------------------------------
LEMMA OrdersStart == OrdersInit => OrdersIInv
<1> SUFFICES ASSUME OrdersInit PROVE OrdersIInv
  OBVIOUS
<1>1. Free \in Tasks /\ Free.pc = "idle"
  BY StepIs DEF Free, Pcs, Known, Outcomes
<1>2. answer \in [Answers -> Tasks] /\ \A a \in Answers : answer[a].pc = "idle"
  BY <1>1 DEF OrdersInit
<1>3. OrdersTypeOK
  BY <1>2 DEF OrdersInit, OrdersTypeOK, Tasks, Pcs, Known, Outcomes
<1>4. KnowsItsOrder /\ OneWorks /\ Progress
  BY <1>2 DEF KnowsItsOrder, OneWorks, Progress, Working, At
<1>5. PendingUntouched /\ BookedOnce /\ BooksBeforeNews /\ NewsIsTrue /\ ScoreIsFair
  BY DEF OrdersInit, PendingUntouched, Untouched, BookedOnce, BooksBeforeNews, NewsIsTrue,
         ScoreIsFair
<1> QED BY <1>3, <1>4, <1>5 DEF OrdersIInv

LEMMA OrdersStep == OrdersIInv /\ [OrdersNext]_orderVars => OrdersIInv'
<1> SUFFICES ASSUME OrdersIInv, [OrdersNext]_orderVars PROVE OrdersIInv'
  OBVIOUS
<1>1. ASSUME NEW o \in Orders, NEW hasPrice \in BOOLEAN, Place(o, hasPrice) PROVE OrdersIInv'
  BY <1>1, PlaceSound
<1>2. ASSUME NEW a \in Answers, NEW o \in Orders, NEW v \in {"accepted", "declined"},
             ReadOrder(a, o, v)
      PROVE  OrdersIInv'
  BY <1>2, ReadSound DEF Verdicts
<1>3. ASSUME NEW a \in Answers, AnswerStep(a) PROVE OrdersIInv'
  BY <1>3, SetStatusSound, BookPurchaseSound, BookSaleSound, RateSound, TellSound DEF AnswerStep
<1>4. ASSUME NEW a \in Answers, AnswerFails(a) PROVE OrdersIInv'
  BY <1>4, DoneSound DEF AnswerFails
<1>5. CASE OrdersCrash
  BY <1>5, CrashSound
<1>6. CASE UNCHANGED orderVars
  BY <1>6 DEF orderVars, tableVars, bookVars, scoreVars, OrdersIInv, OrdersTypeOK, KnowsItsOrder,
              OneWorks, Progress, PendingUntouched, BookedOnce, BooksBeforeNews, NewsIsTrue,
              ScoreIsFair, Working, At, Untouched, FullyBooked
<1> QED BY <1>1, <1>2, <1>3, <1>4, <1>5, <1>6 DEF OrdersNext

\* The inductive invariant holds in every state that acceptOrderById,
\* declineOrderById, placeOrder, failures and restarts can reach.
THEOREM OrdersInvariance == OrdersSpec => []OrdersIInv
<1> QED BY OrdersStart, OrdersStep, PTL DEF OrdersSpec

\* Every variable keeps its type (the columns of platform_orders and the books).
THEOREM OrdersTypeCorrect == OrdersSpec => []OrdersTypeOK
<1>1. OrdersIInv => OrdersTypeOK
  BY DEF OrdersIInv
<1> QED BY <1>1, OrdersInvariance, PTL

\* An order is booked at most once on either side, and only once accepted, for
\* any number of concurrent answers (the conditional update of acceptOrder).
THEOREM BookedAtMostOnce == OrdersSpec => []BookedOnce
<1>1. OrdersIInv => BookedOnce
  BY DEF OrdersIInv
<1> QED BY <1>1, OrdersInvariance, PTL

\* The supplier's book follows the buyer's and the message follows both
\* (the order of the steps of acceptOrderById).
THEOREM NewsFollowsBooks == OrdersSpec => []BooksBeforeNews
<1>1. OrdersIInv => BooksBeforeNews
  BY DEF OrdersIInv
<1> QED BY <1>1, OrdersInvariance, PTL

\* The reliability score counts an order once and stays between 0.05 and 0.96
\* (updateSupplierReliability).
THEOREM ScoreInRange == OrdersSpec => []ScoreIsFair
<1>1. OrdersIInv => ScoreIsFair
  BY DEF OrdersIInv
<1> QED BY <1>1, OrdersInvariance, PTL

\* What a step may do to an order that was answered, and to what was told of it.
StaysAnswered ==
  \A o \in Orders :
    /\ status[o] \in {"accepted", "declined"} => status'[o] = status[o]
    /\ \A v \in {"accepted", "declined"} : <<o, v>> \in told' => status'[o] = v

\* No order is accepted and declined, and the buyer is told the answer that
\* stands (the status test of acceptOrder and declineOrder).
THEOREM AnswersAreFinal == OrdersSpec => AnswerIsFinal
<1>1. OrdersIInv /\ [OrdersNext]_orderVars => [StaysAnswered]_orderVars
  <2> SUFFICES ASSUME OrdersIInv, OrdersNext PROVE StaysAnswered
    BY DEF orderVars
  <2>1. OrdersIInv'
    BY OrdersStep
  <2>2. \A o \in Orders : status[o] \in {"accepted", "declined"} => status'[o] = status[o]
    <3>1. OrdersTypeOK
      BY DEF OrdersIInv
    <3>2. ASSUME NEW o \in Orders, NEW hasPrice \in BOOLEAN, Place(o, hasPrice)
          PROVE  \A x \in Orders : status[x] # "none" => status'[x] = status[x]
      BY <3>1, <3>2, Typed DEF Place
    <3>3. ASSUME NEW a \in Answers, SetStatus(a)
          PROVE  \A x \in Orders : status[x] # "pending" => status'[x] = status[x]
      BY <3>1, <3>3, Typed DEF SetStatus, StillPending
    <3> QED BY <3>2, <3>3 DEF OrdersNext, ReadOrder, AnswerStep, BookPurchase, BookSale, Rate, Tell,
                              AnswerFails, OrdersCrash, tableVars
  <2>3. \A o \in Orders, v \in {"accepted", "declined"} : <<o, v>> \in told' => status'[o] = v
    BY <2>1 DEF OrdersIInv, NewsIsTrue
  <2> QED BY <2>2, <2>3, Zenon DEF StaysAnswered
<1> QED BY <1>1, OrdersInvariance, PTL DEF OrdersSpec, AnswerIsFinal, StaysAnswered

-----------------------------------------------------------------------------
(* The promise of the trade                                                *)

LEMMA PlaceIsPlace ==
  ASSUME NEW o \in Orders, NEW hasPrice \in BOOLEAN, Place(o, hasPrice)
  PROVE  Promise!Place(o)
BY DEF Place, bookVars, scoreVars, Promise!Place

\* The row takes the answer of the one request that finds it pending.
LEMMA SetStatusIsAnswer ==
  ASSUME OrdersIInv, NEW a \in Answers, SetStatus(a)
  PROVE  (\E o \in Orders, v \in Promise!Verdicts : Promise!Answer(o, v)) \/ UNCHANGED Promise!trade
<1>1. answer[a].order \in Orders /\ answer[a].verdict \in {"accepted", "declined"}
  BY DEF OrdersIInv, KnowsItsOrder, SetStatus, At
<1>2. UNCHANGED <<priced, bought, sold, stocked, counted, told>>
  BY DEF SetStatus, bookVars, scoreVars
<1>3. CASE StillPending(answer[a].order)
  <2>1. status' = [status EXCEPT ![answer[a].order] = answer[a].verdict]
    BY <1>3 DEF SetStatus
  <2>2. Promise!Answer(answer[a].order, answer[a].verdict)
    BY <1>2, <1>3, <2>1 DEF Promise!Answer, StillPending
  <2> QED
    BY <1>1, <2>2 DEF Promise!Verdicts
<1>4. CASE ~StillPending(answer[a].order)
  BY <1>2, <1>4 DEF SetStatus, Promise!trade
<1> QED
  BY <1>3, <1>4

LEMMA BookPurchaseIsBuyer ==
  ASSUME OrdersIInv, NEW a \in Answers, NEW known \in BOOLEAN, BookPurchase(a, known)
  PROVE  \E o \in Orders : Promise!BuyerBooks(o)
<1>1. PICK o \in Orders : o = answer[a].order
  BY DEF OrdersIInv, KnowsItsOrder, BookPurchase, At
<1>2. status[o] = "accepted" /\ bought[o] = 0 /\ stocked[o] = 0
  BY <1>1 DEF OrdersIInv, KnowsItsOrder, Progress, Untouched, BookPurchase, Working, At
<1>3. bought \in [Orders -> Nat] /\ stocked \in [Orders -> Nat]
  BY DEF OrdersIInv, OrdersTypeOK
<1>4. bought' = [bought EXCEPT ![o] = bought[o] + 1]
  BY <1>1 DEF BookPurchase
<1>5. stocked' = IF known /\ o \in priced THEN [stocked EXCEPT ![o] = stocked[o] + 1] ELSE stocked
  BY <1>1 DEF BookPurchase
<1>6. Promise!Once(bought, o) /\ (stocked' = stocked \/ (o \in priced /\ Promise!Once(stocked, o)))
  BY <1>2, <1>3, <1>4, <1>5 DEF Promise!Once
<1>7. UNCHANGED <<status, priced, sold, counted, told>>
  BY DEF BookPurchase, tableVars, scoreVars
<1> QED
  BY <1>2, <1>6, <1>7 DEF Promise!BuyerBooks

LEMMA BookSaleIsSupplier ==
  ASSUME OrdersIInv, NEW a \in Answers, BookSale(a)
  PROVE  \E o \in Orders : Promise!SupplierBooks(o)
<1>1. PICK o \in Orders : o = answer[a].order
  BY DEF OrdersIInv, KnowsItsOrder, BookSale, At
<1>2. bought[o] = 1 /\ sold[o] = 0 /\ o \in priced
  BY <1>1 DEF OrdersIInv, Progress, BookSale, At
<1>3. sold' = [sold EXCEPT ![o] = 1]
  <2>1. sold' = [sold EXCEPT ![o] = sold[o] + 1] /\ sold[o] + 1 = 1
    BY <1>1, <1>2 DEF BookSale
  <2> QED
    BY <2>1
<1>4. UNCHANGED <<status, priced, bought, stocked, counted, told>>
  BY DEF BookSale, tableVars, scoreVars
<1> QED
  BY <1>2, <1>3, <1>4 DEF Promise!SupplierBooks, Promise!Once

\* Who counts or tells an answer is the request that gave it, with its books written.
LEMMA AnswerIsClosed ==
  ASSUME OrdersIInv, NEW a \in Answers, At(a, "rate") \/ At(a, "tell")
  PROVE  answer[a].order \in Orders /\ Promise!Closed(answer[a].order)
<1>1. /\ answer[a].order \in Orders /\ answer[a].verdict \in {"accepted", "declined"}
      /\ status[answer[a].order] = answer[a].verdict
  BY DEF OrdersIInv, KnowsItsOrder, Working, At
<1>2. answer[a].verdict = "accepted" => FullyBooked(answer[a].order)
  BY DEF OrdersIInv, Progress
<1> QED
  BY <1>1, <1>2 DEF Promise!Closed, Promise!Booked, Promise!Verdicts, FullyBooked

LEMMA RateIsCount ==
  ASSUME OrdersIInv, NEW a \in Answers, Rate(a)
  PROVE  \E o \in Orders : Promise!Count(o)
<1>1. PICK o \in Orders : o = answer[a].order /\ Promise!Closed(o)
  BY AnswerIsClosed DEF Rate
<1>2. counted[o] = 0 /\ counted' = [counted EXCEPT ![o] = 1]
  <2>1. counted[o] = 0 /\ counted[o] + 1 = 1 /\ counted' = [counted EXCEPT ![o] = counted[o] + 1]
    BY <1>1 DEF OrdersIInv, Progress, Rate
  <2> QED
    BY <2>1
<1>3. UNCHANGED <<status, priced, bought, sold, stocked, told>>
  BY DEF Rate, tableVars, bookVars
<1> QED
  BY <1>1, <1>2, <1>3 DEF Promise!Count, Promise!Once

LEMMA TellIsTell ==
  ASSUME OrdersIInv, NEW a \in Answers, Tell(a)
  PROVE  \E o \in Orders : Promise!Tell(o)
<1>1. PICK o \in Orders : o = answer[a].order /\ Promise!Closed(o)
  BY AnswerIsClosed DEF Tell
<1>2. status[o] = answer[a].verdict /\ counted[o] = 1
  BY <1>1 DEF OrdersIInv, KnowsItsOrder, Progress, Working, At, Tell
<1>3. told' = told \cup {<<o, status[o]>>}
  BY <1>1, <1>2 DEF Tell
<1>4. UNCHANGED <<status, priced, bought, sold, stocked, counted>>
  BY DEF Tell, tableVars, bookVars, scoreVars
<1> QED
  BY <1>1, <1>2, <1>3, <1>4 DEF Promise!Tell

\* Racing, failing and restarting requests do what module Trade allows: each order is
\* answered once, booked in turn and counted, and then told, or left where it is.
THEOREM OrdersKeepThePromise == OrdersSpec => ImplementsTrade
<1>1. OrdersInit => Promise!Init
  BY DEF OrdersInit, Promise!Init
<1>2. OrdersIInv /\ [OrdersNext]_orderVars => [Promise!Next]_(Promise!trade)
  <2> SUFFICES ASSUME OrdersIInv, [OrdersNext]_orderVars PROVE Promise!Next \/ UNCHANGED Promise!trade
    OBVIOUS
  <2>1. ASSUME NEW o \in Orders, NEW hasPrice \in BOOLEAN, Place(o, hasPrice) PROVE Promise!Next
    BY <2>1, PlaceIsPlace DEF Promise!Next
  <2>2. ASSUME NEW a \in Answers, SetStatus(a) PROVE Promise!Next \/ UNCHANGED Promise!trade
    BY <2>2, SetStatusIsAnswer DEF Promise!Next
  <2>3. ASSUME NEW a \in Answers, NEW known \in BOOLEAN, BookPurchase(a, known) PROVE Promise!Next
    BY <2>3, BookPurchaseIsBuyer DEF Promise!Next
  <2>4. ASSUME NEW a \in Answers, BookSale(a) \/ Rate(a) \/ Tell(a) PROVE Promise!Next
    BY <2>4, BookSaleIsSupplier, RateIsCount, TellIsTell DEF Promise!Next
  <2>5. ASSUME NEW a \in Answers,
               (\E o \in Orders, v \in {"accepted", "declined"} : ReadOrder(a, o, v)) \/ AnswerFails(a)
        PROVE  UNCHANGED Promise!trade
    BY <2>5 DEF ReadOrder, AnswerFails, tableVars, bookVars, scoreVars, Promise!trade
  <2>6. ASSUME OrdersCrash \/ UNCHANGED orderVars PROVE UNCHANGED Promise!trade
    BY <2>6 DEF OrdersCrash, orderVars, tableVars, bookVars, scoreVars, Promise!trade
  <2> QED
    BY <2>1, <2>2, <2>3, <2>4, <2>5, <2>6 DEF OrdersNext, AnswerStep
<1> QED
  BY <1>1, <1>2, OrdersInvariance, PTL DEF OrdersSpec, ImplementsTrade, Promise!Spec
=============================================================================
