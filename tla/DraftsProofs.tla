---------------------------- MODULE DraftsProofs ----------------------------
(***************************************************************************)
(* Proofs about module Drafts, for any number of senders, concurrent       *)
(* messages, drafts and missing values.                                    *)
(*                                                                         *)
(* What a record is and which draft names it is decided when it is made:   *)
(* a commit makes a new record and names it, a direct record is named by   *)
(* the one draft its task still has to insert (TasksOwn), and every other  *)
(* draft that is open names nothing (OpenNameNothing).                     *)
(***************************************************************************)
EXTENDS Drafts, TLAPS

USE DraftAssumption

Rows    == [phone : Phones, action : Actions, state : States, gaps : 0..MaxGaps, record : Nat]
Records == [action : Actions, live : BOOLEAN, draft : Nat]
Pcs     == {"idle", "no", "text", "parse", "track"}
Msgs    == [pc : Pcs, phone : Phones, action : Actions, record : Nat]

-----------------------------------------------------------------------------
(* Sequences, rows and tasks                                               *)

\* What appending and overwriting do to a sequence.
LEMMA Appended ==
  ASSUME NEW S, NEW s \in Seq(S), NEW x \in S, NEW t, t = Append(s, x)
  PROVE  /\ t \in Seq(S) /\ Len(t) = Len(s) + 1 /\ Len(s) \in Nat
         /\ DOMAIN s = 1..Len(s) /\ DOMAIN t = 1..(Len(s) + 1)
         /\ t[Len(s) + 1] = x /\ \A i \in 1..Len(s) : t[i] = s[i]
OBVIOUS

LEMMA Overwritten ==
  ASSUME NEW S, NEW s \in Seq(S), NEW x \in S, NEW d \in DOMAIN s, NEW t, t = [s EXCEPT ![d] = x]
  PROVE  /\ t \in Seq(S) /\ Len(t) = Len(s) /\ Len(s) \in Nat
         /\ DOMAIN s = 1..Len(s) /\ DOMAIN t = 1..Len(s)
         /\ t[d] = x /\ \A i \in 1..Len(s) : i # d => t[i] = s[i]
OBVIOUS

LEMMA Typed ==
  ASSUME DraftTypeOK
  PROVE  /\ draft \in Seq(Rows) /\ Len(draft) \in Nat /\ DOMAIN draft = 1..Len(draft)
         /\ record \in Seq(Records) /\ Len(record) \in Nat /\ DOMAIN record = 1..Len(record)
         /\ task \in [Tasks -> Msgs]
         /\ expired \subseteq 1..Len(draft)
         /\ undone \subseteq (1..Len(draft)) \X Phones /\ struck \subseteq 1..Len(record)
         /\ \A d \in 1..Len(draft) : draft[d] \in Rows /\ draft[d].record <= Len(record)
         /\ \A r \in 1..Len(record) : record[r] \in Records /\ record[r].draft <= Len(draft)
<1>1. /\ draft \in Seq(Rows) /\ record \in Seq(Records) /\ task \in [Tasks -> Msgs]
      /\ expired \subseteq 1..Len(draft)
      /\ undone \subseteq (1..Len(draft)) \X Phones /\ struck \subseteq 1..Len(record)
      /\ \A d \in DOMAIN draft : draft[d].record <= Len(record)
      /\ \A r \in DOMAIN record : record[r].draft <= Len(draft)
  BY DEF DraftTypeOK, Rows, Records, Pcs, Msgs
<1>2. Len(draft) \in Nat /\ DOMAIN draft = 1..Len(draft) /\ \A d \in 1..Len(draft) : draft[d] \in Rows
  BY <1>1
<1>3. Len(record) \in Nat /\ DOMAIN record = 1..Len(record) /\ \A r \in 1..Len(record) : record[r] \in Records
  BY <1>1
<1> QED BY <1>1, <1>2, <1>3

LEMMA RowIs ==
  ASSUME NEW p \in Phones, NEW a \in Actions, NEW s \in States, NEW g \in 0..MaxGaps, NEW r \in Nat
  PROVE  /\ Row(p, a, s, g, r) \in Rows
         /\ Row(p, a, s, g, r).phone = p /\ Row(p, a, s, g, r).action = a
         /\ Row(p, a, s, g, r).state = s /\ Row(p, a, s, g, r).record = r
BY DEF Row, Rows

LEMMA ChangedIs ==
  ASSUME DraftTypeOK, NEW d \in DOMAIN draft, NEW s \in States, NEW g \in 0..MaxGaps, NEW r \in Nat
  PROVE  /\ Changed(d, s, g, r) \in Rows
         /\ Changed(d, s, g, r).phone = draft[d].phone
         /\ Changed(d, s, g, r).action = draft[d].action
         /\ Changed(d, s, g, r).state = s /\ Changed(d, s, g, r).record = r
<1>1. draft[d].phone \in Phones /\ draft[d].action \in Actions
  BY Typed DEF Rows
<1> QED BY <1>1, RowIs DEF Changed

LEMMA MessageIs ==
  ASSUME NEW pc \in Pcs, NEW p \in Phones, NEW a \in Actions, NEW r \in Nat
  PROVE  /\ Message(pc, p, a, r) \in Msgs
         /\ Message(pc, p, a, r).pc = pc /\ Message(pc, p, a, r).phone = p
         /\ Message(pc, p, a, r).action = a /\ Message(pc, p, a, r).record = r
BY DEF Message, Msgs

\* Every task stays as it is or goes where it has no record to name.
Settles ==
  /\ task' \in [Tasks -> Msgs]
  /\ \A m \in Tasks : \/ task'[m] = task[m]
                      \/ task'[m].record = 0 /\ (task'[m].pc = "track" => task'[m].action # "sale")

LEMMA MoveSettles ==
  ASSUME DraftTypeOK, NEW m \in Tasks, NEW pc \in Pcs \ {"track"}, NEW p \in Phones,
         NEW a \in Actions, task' = [task EXCEPT ![m] = Message(pc, p, a, 0)]
  PROVE  Settles
<1> DEFINE msg == Message(pc, p, a, 0)
<1>1. msg \in Msgs /\ msg.record = 0 /\ msg.pc # "track"
  BY MessageIs DEF Pcs
<1>2. task' = [task EXCEPT ![m] = msg]
  OBVIOUS
<1> HIDE DEF msg
<1>3. task \in [Tasks -> Msgs]
  BY Typed
<1> QED BY <1>1, <1>2, <1>3 DEF Settles

LEMMA RestSettles ==
  ASSUME DraftTypeOK, NEW m \in Tasks, Rest(m)
  PROVE  Settles
<1>1. (CHOOSE p \in Phones : TRUE) \in Phones
  OBVIOUS
<1>2. task' = [task EXCEPT ![m] = Message("idle", CHOOSE p \in Phones : TRUE, "sale", 0)]
  BY DEF Rest, Resting
<1> QED BY <1>1, <1>2, MoveSettles DEF Pcs

LEMMA StaySettles == ASSUME DraftTypeOK, task' = task PROVE Settles
BY Typed DEF Settles

LEMMA LostSettles == ASSUME DraftTypeOK, MessagesLost PROVE Settles
<1>1. (CHOOSE p \in Phones : TRUE) \in Phones
  OBVIOUS
<1>2. Resting \in Msgs /\ Resting.record = 0 /\ Resting.pc # "track"
  BY <1>1, MessageIs DEF Resting, Pcs
<1> QED BY <1>2 DEF MessagesLost, Settles

-----------------------------------------------------------------------------
(* What the steps leave true                                               *)

\* Records are never taken away nor given to another draft.
RecordsStay ==
  /\ record' \in Seq(Records) /\ Len(record') \in Nat /\ DOMAIN record' = 1..Len(record')
  /\ Len(record) <= Len(record')
  /\ \A r \in 1..Len(record) : /\ record'[r].draft = record[r].draft
                               /\ record'[r].live => record[r].live

\* A name is old, new or none.
NamesStay ==
  \A d \in DOMAIN draft' :
    \/ draft'[d].record = 0
    \/ draft'[d].record > Len(record)
    \/ d \in DOMAIN draft /\ draft'[d].record = draft[d].record

LEMMA TasksKeep ==
  ASSUME DraftIInv, Settles, RecordsStay, NamesStay
  PROVE  TasksOwn'
<1>1. DraftTypeOK /\ TasksOwn
  BY DEF DraftIInv
<1>2. SUFFICES ASSUME NEW m \in Tasks
      PROVE  /\ task'[m].record # 0 => task'[m].pc = "track"
             /\ task'[m].pc = "track" /\ task'[m].action = "sale" => task'[m].record # 0
             /\ task'[m].record # 0 =>
                  /\ task'[m].record \in DOMAIN record'
                  /\ record'[task'[m].record].draft = 0
                  /\ \A d \in DOMAIN draft' : draft'[d].record # task'[m].record
                  /\ \A n \in Tasks : task'[n].record = task'[m].record => n = m
  BY DEF TasksOwn, At
<1>3. CASE task'[m].record = 0 /\ (task'[m].pc = "track" => task'[m].action # "sale")
  BY <1>3
<1>4. CASE task'[m] = task[m]
  <2>1. /\ task[m].record # 0 => task[m].pc = "track"
        /\ task[m].pc = "track" /\ task[m].action = "sale" => task[m].record # 0
    BY <1>1 DEF TasksOwn, At
  <2>2. ASSUME task[m].record # 0
        PROVE  /\ task[m].record \in 1..Len(record)
               /\ record[task[m].record].draft = 0
               /\ \A d \in DOMAIN draft : draft[d].record # task[m].record
               /\ \A n \in Tasks : task[n].record = task[m].record => n = m
    BY <1>1, <2>2, Typed DEF TasksOwn
  <2>3. ASSUME task[m].record # 0
        PROVE  \A n \in Tasks : task'[n].record = task[m].record => n = m
    BY <2>2, <2>3 DEF Settles
  <2>4. ASSUME task[m].record # 0
        PROVE  \A d \in DOMAIN draft' : draft'[d].record # task[m].record
    BY <2>2, <2>4, <1>1, Typed DEF NamesStay
  <2>5. ASSUME task[m].record # 0
        PROVE  task[m].record \in DOMAIN record' /\ record'[task[m].record].draft = 0
    BY <2>2, <2>5, <1>1, Typed DEF RecordsStay
  <2> QED BY <1>4, <2>1, <2>3, <2>4, <2>5
<1> QED BY <1>2, <1>3, <1>4 DEF Settles

\* Steps of a task that touch no row, and the passing of the ten minutes.
LEMMA TaskSound ==
  ASSUME DraftIInv, Settles, UNCHANGED <<draft, record, undone, struck>>,
         expired' \subseteq 1..Len(draft)
  PROVE  DraftIInv'
<1>1. DraftTypeOK
  BY DEF DraftIInv
<1>2. draft' = draft /\ record' = record /\ undone' = undone /\ struck' = struck
  OBVIOUS
<1>3. DraftTypeOK'
  BY <1>1, <1>2 DEF DraftTypeOK, Settles, Msgs, Pcs
<1>4. RecordsStay /\ NamesStay
  BY <1>1, <1>2, Typed DEF RecordsStay, NamesStay
<1>5. TasksOwn'
  BY <1>4, TasksKeep
<1>6. OpenNameNothing' /\ CommittedOnce' /\ OneDraftPerRecord' /\ UndoIsExact'
  BY <1>2 DEF DraftIInv, OpenNameNothing, CommittedOnce, OneDraftPerRecord, UndoIsExact
<1> QED BY <1>3, <1>5, <1>6 DEF DraftIInv

\* A new row that names nothing: a question, a draft of the web app.
LEMMA InsertSound ==
  ASSUME DraftIInv, Settles, UNCHANGED <<expired, record, undone, struck>>,
         NEW row \in Rows, row.state \in {"parsed", "pending"}, row.record = 0,
         draft' = Append(draft, row)
  PROVE  DraftIInv'
<1>1. DraftTypeOK
  BY DEF DraftIInv
<1> DEFINE k == Len(draft)
<1>2. /\ draft' \in Seq(Rows) /\ Len(draft') = k + 1 /\ k \in Nat
      /\ DOMAIN draft = 1..k /\ DOMAIN draft' = 1..(k + 1)
      /\ draft'[k + 1] = row /\ \A d \in 1..k : draft'[d] = draft[d]
  BY <1>1, Typed, Appended
<1>3. expired' = expired /\ record' = record /\ undone' = undone /\ struck' = struck
  OBVIOUS
<1> HIDE DEF k
<1>4. /\ \A d \in 1..(k + 1) : draft'[d].record <= Len(record)
      /\ \A r \in 1..Len(record) : record[r].draft <= k /\ record[r].draft \in Nat
      /\ Len(record) \in Nat
  BY <1>1, <1>2, Typed DEF k, Records
<1>5. DraftTypeOK'
  <2>1. /\ expired' \subseteq 1..(k + 1) /\ undone' \subseteq (1..(k + 1)) \X Phones
        /\ struck' \subseteq 1..Len(record')
    BY <1>1, <1>2, <1>3, Typed DEF k
  <2>2. \A r \in DOMAIN record' : record'[r].draft <= k + 1
    BY <1>1, <1>2, <1>3, <1>4, Typed
  <2> QED BY <1>1, <1>2, <1>3, <1>4, <2>1, <2>2, Typed DEF DraftTypeOK, Settles, Rows, Records, Msgs, Pcs
<1>6. RecordsStay /\ NamesStay
  BY <1>1, <1>2, <1>3, Typed DEF RecordsStay, NamesStay
<1>7. TasksOwn'
  BY <1>6, TasksKeep
<1>8. OpenNameNothing'
  BY <1>2 DEF DraftIInv, OpenNameNothing
<1>9. CommittedOnce'
  BY <1>1, <1>2, <1>3, <1>4, Typed DEF DraftIInv, CommittedOnce
<1>10. OneDraftPerRecord'
  BY <1>2 DEF DraftIInv, OneDraftPerRecord
<1>11. UndoIsExact'
  <2>1. \A u \in undone : u[1] \in 1..k
    BY <1>1, <1>2, Typed
  <2> QED BY <2>1, <1>2, <1>3 DEF DraftIInv, UndoIsExact
<1> QED BY <1>5, <1>7, <1>8, <1>9, <1>10, <1>11 DEF DraftIInv

\* A draft that is neither committed nor cancelled is amended or cancelled.
LEMMA ChangeSound ==
  ASSUME DraftIInv, Settles, UNCHANGED <<expired, record, undone, struck>>,
         NEW d \in DOMAIN draft, NEW s \in States, NEW g \in 0..MaxGaps,
         draft[d].state \notin {"committed", "cancelled"}, s \in {draft[d].state, "cancelled"},
         draft' = [draft EXCEPT ![d] = Changed(d, s, g, draft[d].record)]
  PROVE  DraftIInv'
<1> DEFINE row == Changed(d, s, g, draft[d].record)
<1>1. DraftTypeOK
  BY DEF DraftIInv
<1>2. draft[d].record \in Nat
  BY <1>1, Typed DEF Rows
<1>3. /\ row \in Rows /\ row.phone = draft[d].phone /\ row.action = draft[d].action
      /\ row.state = s /\ row.record = draft[d].record
  BY <1>1, <1>2, ChangedIs
<1>4. draft' = [draft EXCEPT ![d] = row]
  OBVIOUS
<1> HIDE DEF row
<1>5. /\ draft' \in Seq(Rows) /\ Len(draft') = Len(draft) /\ Len(draft) \in Nat
      /\ DOMAIN draft = 1..Len(draft) /\ DOMAIN draft' = 1..Len(draft)
      /\ draft'[d] = row /\ \A e \in 1..Len(draft) : e # d => draft'[e] = draft[e]
  BY <1>1, <1>3, <1>4, Typed, Overwritten
<1>6. \A e \in DOMAIN draft : /\ draft'[e].phone = draft[e].phone
                              /\ draft'[e].action = draft[e].action
                              /\ draft'[e].record = draft[e].record
  BY <1>3, <1>5
<1>7. expired' = expired /\ record' = record /\ undone' = undone /\ struck' = struck
  OBVIOUS
<1>8. DraftTypeOK'
  BY <1>1, <1>5, <1>6, <1>7, Typed DEF DraftTypeOK, Settles, Rows, Records, Msgs, Pcs
<1>9. RecordsStay /\ NamesStay
  BY <1>1, <1>5, <1>6, <1>7, Typed DEF RecordsStay, NamesStay
<1>10. TasksOwn'
  BY <1>9, TasksKeep
<1>11. OpenNameNothing'
  BY <1>3, <1>5, <1>6 DEF DraftIInv, OpenNameNothing
<1>12. CommittedOnce'
  <2>1. SUFFICES ASSUME NEW e \in 1..Len(draft)
        PROVE  {r \in DOMAIN record : record[r].draft = e} =
                 IF draft'[e].state = "committed" THEN {draft'[e].record} ELSE {}
    BY <1>5, <1>7 DEF CommittedOnce
  <2>2. {r \in DOMAIN record : record[r].draft = e} =
          IF draft[e].state = "committed" THEN {draft[e].record} ELSE {}
    BY <1>5 DEF DraftIInv, CommittedOnce
  <2>3. draft'[e].state = "committed" <=> draft[e].state = "committed"
    BY <1>3, <1>5
  <2> QED BY <2>2, <2>3, <1>5, <1>6
<1>13. OneDraftPerRecord'
  BY <1>5, <1>6 DEF DraftIInv, OneDraftPerRecord
<1>14. UndoIsExact'
  <2>1. \A u \in undone : u[1] \in 1..Len(draft) /\ u[1] # d
    BY <1>1, Typed DEF DraftIInv, UndoIsExact
  <2> QED BY <2>1, <1>5, <1>7 DEF DraftIInv, UndoIsExact
<1> QED BY <1>8, <1>10, <1>11, <1>12, <1>13, <1>14 DEF DraftIInv

\* A commit makes a record for one draft and names it.
LEMMA CommitSound ==
  ASSUME DraftIInv, Settles, NEW d \in DOMAIN draft, NEW lacks, Commit(d, lacks),
         UNCHANGED <<expired, undone, struck>>
  PROVE  DraftIInv'
<1> DEFINE n == Len(record) + 1
           made == [action |-> draft[d].action, live |-> TRUE, draft |-> d]
           row == Changed(d, "committed", 0, n)
<1>1. DraftTypeOK
  BY DEF DraftIInv
<1>2. draft[d].state \notin {"committed", "cancelled"}
  BY DEF Commit, Legal
<1>3. made \in Records /\ made.draft = d /\ made.live
  BY <1>1, Typed DEF Records, Rows
<1>4. record' = Append(record, made)
  BY DEF Commit
<1> HIDE DEF made
<1>5. /\ record' \in Seq(Records) /\ Len(record') = n /\ Len(record) \in Nat
      /\ DOMAIN record = 1..Len(record) /\ DOMAIN record' = 1..n
      /\ record'[n] = made /\ \A r \in 1..Len(record) : record'[r] = record[r]
  BY <1>1, <1>3, <1>4, Typed, Appended
<1>6. /\ row \in Rows /\ row.phone = draft[d].phone /\ row.action = draft[d].action
      /\ row.state = "committed" /\ row.record = n
  BY <1>1, <1>5, ChangedIs DEF States
<1>7. draft' = [draft EXCEPT ![d] = row]
  BY <1>5 DEF Commit
<1> HIDE DEF row
<1>8. /\ draft' \in Seq(Rows) /\ Len(draft') = Len(draft) /\ Len(draft) \in Nat
      /\ DOMAIN draft = 1..Len(draft) /\ DOMAIN draft' = 1..Len(draft)
      /\ draft'[d] = row /\ \A e \in 1..Len(draft) : e # d => draft'[e] = draft[e]
  BY <1>1, <1>6, <1>7, Typed, Overwritten
<1>9. expired' = expired /\ undone' = undone /\ struck' = struck
  OBVIOUS
<1>10. /\ \A e \in 1..Len(draft) : draft[e].record <= Len(record) /\ draft[e].record \in Nat
       /\ \A r \in 1..Len(record) : record[r].draft <= Len(draft)
  BY <1>1, Typed DEF Rows
<1>11. DraftTypeOK'
  <2>1. \A e \in DOMAIN draft' : draft'[e].record <= Len(record')
    BY <1>5, <1>6, <1>8, <1>10
  <2>2. \A r \in DOMAIN record' : record'[r].draft <= Len(draft')
    <3>1. made.draft \in 1..Len(draft)
      BY <1>3, <1>8
    <3>2. \A r \in 1..n : r = n \/ r \in 1..Len(record)
      BY <1>5
    <3> QED BY <3>1, <3>2, <1>5, <1>8, <1>10
  <2>3. struck' \subseteq 1..Len(record')
    BY <1>1, <1>5, <1>9, Typed
  <2> QED BY <1>1, <1>5, <1>8, <1>9, <2>1, <2>2, <2>3, Typed
          DEF DraftTypeOK, Settles, Rows, Records, Msgs, Pcs
<1>12. RecordsStay /\ NamesStay
  BY <1>5, <1>6, <1>8 DEF RecordsStay, NamesStay
<1>13. TasksOwn'
  BY <1>12, TasksKeep
<1>14. OpenNameNothing'
  BY <1>5, <1>6, <1>8 DEF DraftIInv, OpenNameNothing
<1>15. CommittedOnce'
  <2>1. SUFFICES ASSUME NEW e \in 1..Len(draft)
        PROVE  {r \in 1..n : record'[r].draft = e} =
                 IF draft'[e].state = "committed" THEN {draft'[e].record} ELSE {}
    BY <1>5, <1>8 DEF CommittedOnce
  <2>2. {r \in 1..Len(record) : record[r].draft = e} =
          IF draft[e].state = "committed" THEN {draft[e].record} ELSE {}
    BY <1>5, <1>8 DEF DraftIInv, CommittedOnce
  <2>3. CASE e = d
    BY <2>2, <2>3, <1>2, <1>3, <1>5, <1>6, <1>8
  <2>4. CASE e # d
    BY <2>2, <2>4, <1>3, <1>5, <1>8
  <2> QED BY <2>3, <2>4
<1>16. OneDraftPerRecord'
  BY <1>5, <1>6, <1>8, <1>10 DEF DraftIInv, OneDraftPerRecord
<1>17. UndoIsExact'
  <2>1. \A u \in undone : u[1] \in 1..Len(draft) /\ u[1] # d
    BY <1>1, <1>2, Typed DEF DraftIInv, UndoIsExact
  <2>2. \A u \in undone : LET e == u[1] IN
          /\ draft'[e].phone = u[2] /\ draft'[e].state = "cancelled"
          /\ draft'[e].action = "sale" => draft'[e].record # 0 /\ ~record'[draft'[e].record].live
    BY <2>1, <1>5, <1>8, <1>10 DEF DraftIInv, UndoIsExact
  <2>3. \A r \in DOMAIN record' \ struck' :
          ~record'[r].live => \E u \in undone' : draft'[u[1]].record = r
    BY <2>1, <1>3, <1>5, <1>8, <1>9 DEF DraftIInv, UndoIsExact
  <2> QED BY <2>2, <2>3, <1>9 DEF UndoIsExact
<1> QED BY <1>11, <1>13, <1>14, <1>15, <1>16, <1>17 DEF DraftIInv

\* Cancelling a sale leaves every name where it is.
LEMMA Struck ==
  ASSUME DraftTypeOK, NEW r \in DOMAIN record, Strike(r)
  PROVE  /\ record' \in Seq(Records) /\ Len(record') = Len(record) /\ Len(record) \in Nat
         /\ DOMAIN record = 1..Len(record) /\ DOMAIN record' = 1..Len(record)
         /\ ~record'[r].live
         /\ \A q \in 1..Len(record) : /\ record'[q].draft = record[q].draft
                                      /\ q # r => record'[q] = record[q]
<1> DEFINE x == [action |-> record[r].action, live |-> FALSE, draft |-> record[r].draft]
<1>1. x \in Records /\ ~x.live /\ x.draft = record[r].draft
  BY Typed DEF Records
<1>2. record' = [record EXCEPT ![r] = x]
  BY DEF Strike
<1> HIDE DEF x
<1>3. /\ record' \in Seq(Records) /\ Len(record') = Len(record) /\ Len(record) \in Nat
      /\ DOMAIN record = 1..Len(record) /\ DOMAIN record' = 1..Len(record)
      /\ record'[r] = x /\ \A q \in 1..Len(record) : q # r => record'[q] = record[q]
  BY <1>1, <1>2, Typed, Overwritten
<1> QED BY <1>1, <1>3

LEMMA WebStrikeSound ==
  ASSUME DraftIInv, NEW r \in DOMAIN record, WebStrike(r)
  PROVE  DraftIInv'
<1>1. DraftTypeOK
  BY DEF DraftIInv
<1>2. /\ record' \in Seq(Records) /\ Len(record') = Len(record) /\ Len(record) \in Nat
      /\ DOMAIN record = 1..Len(record) /\ DOMAIN record' = 1..Len(record)
      /\ ~record'[r].live
      /\ \A q \in 1..Len(record) : /\ record'[q].draft = record[q].draft
                                   /\ q # r => record'[q] = record[q]
  BY <1>1, Struck DEF WebStrike
<1>3. /\ draft' = draft /\ expired' = expired /\ undone' = undone /\ task' = task
      /\ struck' = struck \cup {r}
  BY DEF WebStrike
<1>4. Settles
  BY <1>1, <1>3, StaySettles
<1>5. DraftTypeOK'
  <2>1. /\ \A e \in DOMAIN draft' : draft'[e].record <= Len(record')
        /\ \A q \in DOMAIN record' : record'[q].draft <= Len(draft')
        /\ struck' \subseteq 1..Len(record')
    BY <1>1, <1>2, <1>3, Typed
  <2> QED BY <1>1, <1>2, <1>3, <1>4, <2>1, Typed DEF DraftTypeOK, Settles, Rows, Records, Msgs, Pcs
<1>6. RecordsStay /\ NamesStay
  BY <1>2, <1>3 DEF RecordsStay, NamesStay, WebStrike, Strike
<1>7. TasksOwn'
  BY <1>4, <1>6, TasksKeep
<1>8. OpenNameNothing' /\ OneDraftPerRecord'
  BY <1>3 DEF DraftIInv, OpenNameNothing, OneDraftPerRecord
<1>9. CommittedOnce'
  <2>1. SUFFICES ASSUME NEW e \in DOMAIN draft
        PROVE  {q \in DOMAIN record' : record'[q].draft = e} =
                 IF draft[e].state = "committed" THEN {draft[e].record} ELSE {}
    BY <1>3 DEF CommittedOnce
  <2>2. {q \in DOMAIN record' : record'[q].draft = e} = {q \in DOMAIN record : record[q].draft = e}
    BY <1>2
  <2> QED BY <2>2 DEF DraftIInv, CommittedOnce
<1>10. UndoIsExact'
  <2>1. \A u \in undone : draft[u[1]].record \in Nat /\ draft[u[1]].record <= Len(record)
    BY <1>1, Typed DEF Rows
  <2>2. \A u \in undone : LET e == u[1] IN
          /\ draft'[e].phone = u[2] /\ draft'[e].state = "cancelled"
          /\ draft'[e].action = "sale" => draft'[e].record # 0 /\ ~record'[draft'[e].record].live
    BY <2>1, <1>2, <1>3 DEF DraftIInv, UndoIsExact
  <2>3. \A q \in DOMAIN record' \ struck' :
          ~record'[q].live => \E u \in undone' : draft'[u[1]].record = q
    BY <1>2, <1>3 DEF DraftIInv, UndoIsExact
  <2> QED BY <2>2, <2>3, <1>3 DEF UndoIsExact
<1> QED BY <1>5, <1>7, <1>8, <1>9, <1>10 DEF DraftIInv

\* A purchase or an expense that is only asked about, with a draft to follow.
LEMMA AskSound ==
  ASSUME DraftIInv, NEW m \in Tasks, NEW a \in Actions, NEW c \in BOOLEAN, Dispatch(m, a, c, TRUE)
  PROVE  DraftIInv'
<1> DEFINE msg == Message("track", task[m].phone, a, 0)
<1>1. DraftTypeOK
  BY DEF DraftIInv
<1>2. task[m].phone \in Phones /\ a # "sale"
  BY <1>1, Typed DEF Msgs, Dispatch
<1>3. msg \in Msgs /\ msg.action = a /\ msg.record = 0
  BY <1>2, MessageIs DEF Pcs
<1>4. task' = [task EXCEPT ![m] = msg] /\ UNCHANGED <<draft, expired, record, undone, struck>>
  BY <1>2 DEF Dispatch
<1> HIDE DEF msg
<1>5. Settles
  BY <1>1, <1>2, <1>3, <1>4, Typed DEF Settles
<1>6. expired' \subseteq 1..Len(draft)
  BY <1>1, <1>4, Typed
<1> QED BY <1>4, <1>5, <1>6, TaskSound

\* A record made at once, with or without a draft to follow.
LEMMA DispatchSound ==
  ASSUME DraftIInv, NEW m \in Tasks, NEW a \in Actions, NEW c \in BOOLEAN, Dispatch(m, a, c, FALSE)
  PROVE  DraftIInv'
<1> DEFINE n == Len(record) + 1
           made == [action |-> a, live |-> TRUE, draft |-> 0]
           name == IF a = "sale" THEN n ELSE 0
<1>1. DraftTypeOK /\ TasksOwn
  BY DEF DraftIInv
<1>2. made \in Records /\ made.draft = 0 /\ made.live
  BY DEF Records
<1>3. record' = Append(record, made)
  BY DEF Dispatch
<1> HIDE DEF made
<1>4. /\ record' \in Seq(Records) /\ Len(record') = n /\ Len(record) \in Nat
      /\ DOMAIN record = 1..Len(record) /\ DOMAIN record' = 1..n
      /\ record'[n] = made /\ \A r \in 1..Len(record) : record'[r] = record[r]
  BY <1>1, <1>2, <1>3, Typed, Appended
<1>5. draft' = draft /\ expired' = expired /\ undone' = undone /\ struck' = struck
  BY DEF Dispatch
<1>6. /\ \A d \in DOMAIN draft : draft[d].record \in Nat /\ draft[d].record <= Len(record)
      /\ \A r \in 1..Len(record) : record[r].draft \in Nat /\ record[r].draft <= Len(draft)
      /\ Len(draft) \in Nat
  BY <1>1, Typed DEF Rows, Records
<1>7. task' \in [Tasks -> Msgs] /\ TasksOwn'
  <2>1. CASE ~c
    <3>1. Settles
      BY <1>1, <2>1, RestSettles DEF Dispatch
    <3>2. RecordsStay /\ NamesStay
      BY <1>4, <1>5, <1>6 DEF RecordsStay, NamesStay
    <3> QED BY <3>1, <3>2, TasksKeep DEF Settles
  <2>2. CASE c
    <3> DEFINE msg == Message("track", task[m].phone, a, name)
    <3>1. task[m].phone \in Phones /\ name \in Nat
      BY <1>1, <1>4, Typed DEF Msgs
    <3>2. msg \in Msgs /\ msg.pc = "track" /\ msg.action = a /\ msg.record = name
      BY <3>1, MessageIs DEF Pcs
    <3>3. task' = [task EXCEPT ![m] = msg]
      BY <2>2, <1>4 DEF Dispatch
    <3> HIDE DEF msg
    <3>4. task' \in [Tasks -> Msgs] /\ task'[m] = msg /\ \A k \in Tasks \ {m} : task'[k] = task[k]
      BY <1>1, <3>2, <3>3, Typed
    <3>5. \A k \in Tasks : task[k].record \in 0..Len(record)
      <4>1. \A k \in Tasks : task[k].record # 0 => task[k].record \in DOMAIN record
        BY <1>1 DEF TasksOwn
      <4> QED BY <4>1, <1>4
    <3>6. \A k \in Tasks \ {m} :
            /\ task[k].record # 0 => task[k].pc = "track"
            /\ task[k].pc = "track" /\ task[k].action = "sale" => task[k].record # 0
            /\ task[k].record # 0 =>
                 /\ task[k].record \in DOMAIN record'
                 /\ record'[task[k].record].draft = 0
                 /\ \A d \in DOMAIN draft : draft[d].record # task[k].record
                 /\ \A j \in Tasks : task'[j].record = task[k].record => j = k
      <4>1. \A k \in Tasks \ {m} :
              /\ task[k].record # 0 => task[k].pc = "track"
              /\ task[k].pc = "track" /\ task[k].action = "sale" => task[k].record # 0
              /\ task[k].record # 0 =>
                   /\ task[k].record \in DOMAIN record
                   /\ record[task[k].record].draft = 0
                   /\ \A d \in DOMAIN draft : draft[d].record # task[k].record
                   /\ \A j \in Tasks : task[j].record = task[k].record => j = k
        BY <1>1 DEF TasksOwn, At
      <4>2. \A k \in Tasks \ {m} : task[k].record # 0 =>
              \A j \in Tasks : task'[j].record = task[k].record => j = k
        BY <4>1, <3>2, <3>4, <3>5, <1>4
      <4> QED BY <4>1, <4>2, <1>4
    <3>7. /\ msg.record # 0 => msg.pc = "track"
          /\ msg.pc = "track" /\ msg.action = "sale" => msg.record # 0
          /\ msg.record # 0 =>
               /\ msg.record \in DOMAIN record'
               /\ record'[msg.record].draft = 0
               /\ \A d \in DOMAIN draft : draft[d].record # msg.record
               /\ \A j \in Tasks : task'[j].record = msg.record => j = m
      BY <1>2, <1>4, <1>6, <3>2, <3>4, <3>5
    <3> QED BY <1>5, <3>4, <3>6, <3>7 DEF TasksOwn, At
  <2> QED BY <2>1, <2>2
<1>8. DraftTypeOK'
  <2>1. /\ \A d \in DOMAIN draft' : draft'[d].record <= Len(record')
        /\ \A r \in DOMAIN record' : record'[r].draft <= Len(draft')
        /\ struck' \subseteq 1..Len(record')
    BY <1>1, <1>2, <1>4, <1>5, <1>6, Typed
  <2> QED BY <1>1, <1>4, <1>5, <1>7, <2>1, Typed DEF DraftTypeOK, Rows, Records, Msgs, Pcs
<1>9. OpenNameNothing' /\ OneDraftPerRecord'
  BY <1>5 DEF DraftIInv, OpenNameNothing, OneDraftPerRecord
<1>10. CommittedOnce'
  <2>1. SUFFICES ASSUME NEW d \in DOMAIN draft
        PROVE  {r \in DOMAIN record' : record'[r].draft = d} =
                 IF draft[d].state = "committed" THEN {draft[d].record} ELSE {}
    BY <1>5 DEF CommittedOnce
  <2>2. d # 0
    BY <1>1, Typed
  <2>3. {r \in DOMAIN record' : record'[r].draft = d} = {r \in DOMAIN record : record[r].draft = d}
    BY <2>2, <1>2, <1>4
  <2> QED BY <2>3 DEF DraftIInv, CommittedOnce
<1>11. UndoIsExact'
  <2>1. \A u \in undone : u[1] \in DOMAIN draft
    BY <1>1, Typed
  <2>2. \A u \in undone : LET e == u[1] IN
          /\ draft[e].phone = u[2] /\ draft[e].state = "cancelled"
          /\ draft[e].action = "sale" => draft[e].record # 0 /\ ~record'[draft[e].record].live
    BY <2>1, <1>4, <1>6 DEF DraftIInv, UndoIsExact
  <2>3. \A r \in DOMAIN record' \ struck :
          ~record'[r].live => \E u \in undone : draft[u[1]].record = r
    BY <1>2, <1>4 DEF DraftIInv, UndoIsExact
  <2> QED BY <2>2, <2>3, <1>5 DEF UndoIsExact
<1> QED BY <1>7, <1>8, <1>9, <1>10, <1>11 DEF DraftIInv

\* The draft that NO finds takes over the name its task kept.
LEMMA TrackSound ==
  ASSUME DraftIInv, NEW m \in Tasks, Track(m)
  PROVE  DraftIInv'
<1> DEFINE k == Len(draft)
           row == Row(task[m].phone, task[m].action, "confirmed", 0, task[m].record)
<1>1. DraftTypeOK /\ TasksOwn /\ task[m].pc = "track"
  BY DEF DraftIInv, Track, At
<1>2. task[m].phone \in Phones /\ task[m].action \in Actions /\ task[m].record \in Nat
  BY <1>1, Typed DEF Msgs
<1>3. /\ row \in Rows /\ row.phone = task[m].phone /\ row.action = task[m].action
      /\ row.state = "confirmed" /\ row.record = task[m].record
  BY <1>2, RowIs DEF States
<1>4. draft' = Append(draft, row)
  BY DEF Track, Insert
<1> HIDE DEF row
<1>5. /\ draft' \in Seq(Rows) /\ Len(draft') = k + 1 /\ k \in Nat
      /\ DOMAIN draft = 1..k /\ DOMAIN draft' = 1..(k + 1)
      /\ draft'[k + 1] = row /\ \A d \in 1..k : draft'[d] = draft[d]
  BY <1>1, <1>3, <1>4, Typed, Appended
<1>6. expired' = expired /\ record' = record /\ undone' = undone /\ struck' = struck /\ Settles
  BY <1>1, RestSettles DEF Track
<1> HIDE DEF k
<1>7. /\ row.action = "sale" => row.record # 0
      /\ row.record # 0 =>
           /\ row.record \in DOMAIN record
           /\ \A d \in DOMAIN draft : draft[d].record # row.record
           /\ \A n \in Tasks : task[n].record = row.record => n = m
  BY <1>1, <1>3 DEF TasksOwn, At
<1>8. DraftTypeOK'
  <2>1. /\ expired' \subseteq 1..(k + 1) /\ undone' \subseteq (1..(k + 1)) \X Phones
        /\ struck' \subseteq 1..Len(record')
    BY <1>1, <1>5, <1>6, Typed DEF k
  <2>2. \A r \in DOMAIN record' : record'[r].draft <= k + 1
    <3>1. \A r \in 1..Len(record) : record[r].draft <= k /\ record[r].draft \in Nat
      BY <1>1, Typed DEF k, Records
    <3> QED BY <3>1, <1>1, <1>5, <1>6, Typed
  <2>3. \A d \in DOMAIN draft' : draft'[d].record <= Len(record')
    BY <1>1, <1>2, <1>3, <1>5, <1>6, <1>7, Typed DEF k
  <2> QED BY <1>1, <1>5, <1>6, <2>1, <2>2, <2>3, Typed DEF DraftTypeOK, Settles, Rows, Records, Msgs, Pcs
<1>9. TasksOwn'
  <2>1. SUFFICES ASSUME NEW n \in Tasks
        PROVE  /\ task'[n].record # 0 => task'[n].pc = "track"
               /\ task'[n].pc = "track" /\ task'[n].action = "sale" => task'[n].record # 0
               /\ task'[n].record # 0 =>
                    /\ task'[n].record \in DOMAIN record
                    /\ record[task'[n].record].draft = 0
                    /\ \A d \in DOMAIN draft' : draft'[d].record # task'[n].record
                    /\ \A j \in Tasks : task'[j].record = task'[n].record => j = n
    BY <1>6 DEF TasksOwn, At
  <2>2. CASE task'[n].record = 0 /\ task'[n].pc # "track"
    BY <2>2
  <2>3. CASE task'[n] = task[n] /\ n # m
    <3>1. /\ task[n].record # 0 => task[n].pc = "track"
          /\ task[n].pc = "track" /\ task[n].action = "sale" => task[n].record # 0
          /\ task[n].record # 0 =>
               /\ task[n].record \in DOMAIN record
               /\ record[task[n].record].draft = 0
               /\ \A d \in DOMAIN draft : draft[d].record # task[n].record
               /\ \A j \in Tasks : task[j].record = task[n].record => j = n
      BY <1>1 DEF TasksOwn, At
    <3>2. task[n].record # 0 => row.record # task[n].record
      BY <2>3, <3>1, <1>3
    <3>3. task[n].record # 0 => \A d \in DOMAIN draft' : draft'[d].record # task[n].record
      BY <3>1, <3>2, <1>5
    <3>4. task[n].record # 0 => \A j \in Tasks : task'[j].record = task[n].record => j = n
      BY <3>1, <1>6 DEF Settles
    <3> QED BY <2>3, <3>1, <3>3, <3>4
  <2>4. task'[m].record = 0 /\ task'[m].pc # "track"
    <3>1. Resting.pc = "idle" /\ Resting.record = 0
      BY DEF Resting, Message
    <3>2. task'[m] = Resting
      BY <1>1, Typed DEF Track, Rest
    <3> QED BY <3>1, <3>2
  <2> QED BY <2>2, <2>3, <2>4, <1>6 DEF Settles
<1>10. OpenNameNothing'
  BY <1>3, <1>5, <1>7 DEF DraftIInv, OpenNameNothing
<1>11. CommittedOnce'
  <2>1. \A r \in 1..Len(record) : record[r].draft <= k /\ record[r].draft \in Nat
    BY <1>1, Typed DEF k, Records
  <2> QED BY <1>1, <1>3, <1>5, <1>6, <2>1, Typed DEF DraftIInv, CommittedOnce
<1>12. OneDraftPerRecord'
  BY <1>5, <1>7 DEF DraftIInv, OneDraftPerRecord
<1>13. UndoIsExact'
  <2>1. \A u \in undone : u[1] \in 1..k
    BY <1>1, <1>5, Typed
  <2> QED BY <2>1, <1>5, <1>6 DEF DraftIInv, UndoIsExact
<1> QED BY <1>8, <1>9, <1>10, <1>11, <1>12, <1>13 DEF DraftIInv

\* NO: the draft is cancelled with its sale, and a correction is opened.
LEMMA UndoSound ==
  ASSUME DraftIInv, NEW m \in Tasks, Undo(m)
  PROVE  DraftIInv'
<1>1. DraftTypeOK
  BY DEF DraftIInv
<1>2. PICK d \in DOMAIN draft :
        /\ draft[d].phone = task[m].phone /\ draft[d].state = "confirmed"
        /\ Reverse(d)
        /\ draft' = Append([draft EXCEPT ![d] = Cancelled(d)], Correction(d))
        /\ undone' = undone \cup {<<d, task[m].phone>>}
  BY DEF Undo, Newest, UndoableOf
<1> DEFINE k == Len(draft)
           gone == Cancelled(d)
           next == Correction(d)
           mid == [draft EXCEPT ![d] = gone]
<1>3. draft[d] \in Rows
  BY <1>1, Typed
<1>4. /\ gone \in Rows /\ gone.phone = draft[d].phone /\ gone.action = draft[d].action
      /\ gone.state = "cancelled" /\ gone.record = draft[d].record
  BY <1>1, <1>3, ChangedIs DEF Cancelled, Rows, States
<1>5. next \in Rows /\ next.state = "parsed" /\ next.record = 0
  <2>1. draft[d].phone \in Phones /\ draft[d].action \in Actions /\ draft[d].gaps \in 0..MaxGaps
    BY <1>3 DEF Rows
  <2>2. "parsed" \in States /\ 0 \in Nat
    BY DEF States
  <2>3. next = Row(draft[d].phone, draft[d].action, "parsed", draft[d].gaps, 0)
    BY DEF Correction
  <2> QED BY <2>1, <2>2, <2>3, RowIs
<1>6. draft' = Append(mid, next)
  BY <1>2
<1> HIDE DEF gone, next
<1>7. /\ mid \in Seq(Rows) /\ Len(mid) = k /\ k \in Nat /\ DOMAIN draft = 1..k
      /\ DOMAIN mid = 1..k /\ mid[d] = gone /\ \A e \in 1..k : e # d => mid[e] = draft[e]
  BY <1>1, <1>4, Typed, Overwritten
<1> HIDE DEF mid
<1>8. /\ draft' \in Seq(Rows) /\ Len(draft') = k + 1 /\ DOMAIN draft' = 1..(k + 1)
      /\ draft'[k + 1] = next /\ \A e \in 1..k : draft'[e] = mid[e]
  BY <1>5, <1>6, <1>7, Appended
<1>9. /\ draft'[d] = gone /\ draft'[k + 1] = next /\ d \in 1..k
      /\ \A e \in 1..k : e # d => draft'[e] = draft[e]
  BY <1>7, <1>8
<1>10. /\ record' \in Seq(Records) /\ Len(record') = Len(record) /\ Len(record) \in Nat
       /\ DOMAIN record = 1..Len(record) /\ DOMAIN record' = 1..Len(record)
       /\ \A q \in 1..Len(record) : /\ record'[q].draft = record[q].draft
                                    /\ q # draft[d].record => record'[q] = record[q]
                                    /\ record'[q].live => record[q].live
       /\ draft[d].action = "sale" => draft[d].record # 0 /\ ~record'[draft[d].record].live
       /\ \A q \in 1..Len(record) : record[q].live /\ ~record'[q].live => q = draft[d].record
  <2>1. draft[d].action = "sale" => draft[d].record # 0
    BY <1>2 DEF DraftIInv, OpenNameNothing
  <2>2. CASE draft[d].record # 0 /\ draft[d].action = "sale"
    <3>1. draft[d].record \in DOMAIN record
      BY <2>2, <1>1, <1>3, Typed DEF Rows
    <3>2. Strike(draft[d].record)
      BY <2>2, <1>2 DEF Reverse
    <3> QED BY <2>2, <3>1, <3>2, <1>1, Struck
  <2>3. CASE ~(draft[d].record # 0 /\ draft[d].action = "sale")
    <3>1. record' = record
      BY <2>3, <1>2 DEF Reverse
    <3> QED BY <2>1, <2>3, <3>1, <1>1, Typed
  <2> QED BY <2>2, <2>3
<1>11. expired' = expired /\ struck' = struck /\ Settles /\ task[m].phone \in Phones
  BY <1>1, RestSettles, Typed DEF Undo, Msgs
<1>12. /\ \A e \in 1..k : draft[e].record <= Len(record) /\ draft[e].record \in Nat
       /\ \A r \in 1..Len(record) : record[r].draft <= k /\ record[r].draft \in Nat
  BY <1>1, Typed DEF Rows, Records
<1>13. /\ expired \subseteq 1..k /\ undone \subseteq (1..k) \X Phones /\ struck \subseteq 1..Len(record)
  BY <1>1, Typed
<1> HIDE DEF k
<1>14. DraftTypeOK'
  <2>1. \A e \in DOMAIN draft' : draft'[e].record <= Len(record')
    <3>1. \A e \in 1..(k + 1) : e = k + 1 \/ e \in 1..k
      BY <1>7
    <3>2. draft'[k + 1].record = 0 /\ draft'[d].record = draft[d].record
      BY <1>4, <1>5, <1>9
    <3> QED BY <3>1, <3>2, <1>8, <1>9, <1>10, <1>12
  <2>2. \A r \in DOMAIN record' : record'[r].draft <= Len(draft')
    <3>1. \A r \in 1..Len(record) : record'[r].draft <= k /\ record'[r].draft \in Nat
      BY <1>10, <1>12
    <3> QED BY <3>1, <1>7, <1>8, <1>10
  <2>3. expired' \subseteq 1..Len(draft') /\ struck' \subseteq 1..Len(record')
    BY <1>7, <1>8, <1>10, <1>11, <1>13
  <2>4. undone' \subseteq (1..Len(draft')) \X Phones
    <3>1. undone' = undone \cup {<<d, task[m].phone>>}
      BY <1>2
    <3>2. 1..k \subseteq 1..Len(draft')
      BY <1>7, <1>8
    <3>3. <<d, task[m].phone>> \in (1..Len(draft')) \X Phones
      BY <1>9, <1>11, <3>2
    <3> QED BY <1>13, <3>1, <3>2, <3>3
  <2> QED BY <1>8, <1>10, <1>11, <2>1, <2>2, <2>3, <2>4 DEF DraftTypeOK, Settles, Rows, Records, Msgs, Pcs
<1>15. RecordsStay /\ NamesStay
  BY <1>4, <1>5, <1>7, <1>8, <1>9, <1>10 DEF RecordsStay, NamesStay
<1>16. TasksOwn'
  BY <1>11, <1>15, TasksKeep
<1>17. OpenNameNothing'
  BY <1>4, <1>5, <1>7, <1>8, <1>9 DEF DraftIInv, OpenNameNothing
<1>18. CommittedOnce'
  <2>1. SUFFICES ASSUME NEW e \in 1..(k + 1)
        PROVE  {q \in 1..Len(record) : record'[q].draft = e} =
                 IF draft'[e].state = "committed" THEN {draft'[e].record} ELSE {}
    BY <1>8, <1>10 DEF CommittedOnce
  <2>2. {q \in 1..Len(record) : record'[q].draft = e} = {q \in 1..Len(record) : record[q].draft = e}
    BY <1>10
  <2>3. \A f \in 1..k : {q \in 1..Len(record) : record[q].draft = f} =
                          IF draft[f].state = "committed" THEN {draft[f].record} ELSE {}
    BY <1>7, <1>10 DEF DraftIInv, CommittedOnce
  <2>4. CASE e = k + 1
    <3>1. \A q \in 1..Len(record) : record[q].draft # e
      BY <2>4, <1>7, <1>12
    <3>2. draft'[e].state = "parsed"
      BY <2>4, <1>5, <1>8
    <3> QED BY <2>2, <3>1, <3>2
  <2>5. CASE e = d
    BY <2>2, <2>3, <2>5, <1>2, <1>4, <1>9
  <2>6. CASE e # k + 1 /\ e # d
    <3>1. e \in 1..k /\ draft'[e] = draft[e]
      BY <2>6, <1>7, <1>9
    <3> QED BY <2>2, <2>3, <3>1
  <2> QED BY <2>4, <2>5, <2>6
<1>19. OneDraftPerRecord'
  BY <1>4, <1>5, <1>7, <1>8, <1>9 DEF DraftIInv, OneDraftPerRecord
<1>20. UndoIsExact'
  <2>1. \A u \in undone : u[1] \in 1..k /\ u[1] # d
    BY <1>2, <1>13 DEF DraftIInv, UndoIsExact
  <2>2. \A u \in undone : LET e == u[1] IN
          /\ draft'[e].phone = u[2] /\ draft'[e].state = "cancelled"
          /\ draft'[e].action = "sale" => draft'[e].record # 0 /\ ~record'[draft'[e].record].live
    <3>1. \A u \in undone : LET e == u[1] IN
            /\ draft[e].phone = u[2] /\ draft[e].state = "cancelled"
            /\ draft[e].action = "sale" => draft[e].record # 0 /\ ~record[draft[e].record].live
      BY DEF DraftIInv, UndoIsExact
    <3>2. \A u \in undone : draft'[u[1]] = draft[u[1]] /\ draft[u[1]].record \in 0..Len(record)
      BY <2>1, <1>9, <1>10, <1>12
    <3> QED BY <3>1, <3>2, <1>10
  <2>3. LET u == <<d, task[m].phone>>
            e == u[1] IN
          /\ draft'[e].phone = u[2] /\ draft'[e].state = "cancelled"
          /\ draft'[e].action = "sale" => draft'[e].record # 0 /\ ~record'[draft'[e].record].live
    BY <1>2, <1>4, <1>9, <1>10
  <2>4. \A q \in DOMAIN record' \ struck' :
          ~record'[q].live => \E u \in undone' : draft'[u[1]].record = q
    <3>1. SUFFICES ASSUME NEW q \in 1..Len(record), q \notin struck, ~record'[q].live
          PROVE  \E u \in undone' : draft'[u[1]].record = q
      BY <1>10, <1>11
    <3>2. CASE record[q].live
      <4>1. q = draft[d].record
        BY <3>1, <3>2, <1>10
      <4>2. <<d, task[m].phone>> \in undone' /\ draft'[<<d, task[m].phone>>[1]].record = q
        BY <4>1, <1>2, <1>4, <1>9
      <4> QED BY <4>2
    <3>3. CASE ~record[q].live
      <4>1. PICK u \in undone : draft[u[1]].record = q
        BY <3>1, <3>3, <1>10 DEF DraftIInv, UndoIsExact
      <4>2. u \in undone' /\ draft'[u[1]].record = q
        BY <4>1, <2>1, <1>2, <1>9
      <4> QED BY <4>2
    <3> QED BY <3>2, <3>3
  <2> QED BY <2>2, <2>3, <2>4, <1>2 DEF UndoIsExact
<1> QED BY <1>14, <1>16, <1>17, <1>18, <1>19, <1>20 DEF DraftIInv

-----------------------------------------------------------------------------
(* The invariant and what follows from it                                  *)

LEMMA InitSound == DraftInit => DraftIInv
<1> SUFFICES ASSUME DraftInit PROVE DraftIInv
  OBVIOUS
<1>1. (CHOOSE p \in Phones : TRUE) \in Phones
  OBVIOUS
<1>2. Resting \in Msgs /\ Resting.record = 0 /\ Resting.pc = "idle"
  BY <1>1, MessageIs DEF Resting, Pcs
<1>3. draft = <<>> /\ record = <<>> /\ expired = {} /\ undone = {} /\ struck = {}
      /\ task = [m \in Tasks |-> Resting]
  BY DEF DraftInit
<1>4. DraftTypeOK
  BY <1>2, <1>3 DEF DraftTypeOK, Msgs, Pcs
<1>5. TasksOwn
  BY <1>2, <1>3 DEF TasksOwn, At
<1>6. OpenNameNothing /\ CommittedOnce /\ OneDraftPerRecord /\ UndoIsExact
  BY <1>3 DEF OpenNameNothing, CommittedOnce, OneDraftPerRecord, UndoIsExact
<1> QED BY <1>4, <1>5, <1>6 DEF DraftIInv

LEMMA MessageSound ==
  ASSUME DraftIInv, NEW m \in Tasks, MessageStep(m)
  PROVE  DraftIInv'
<1>1. DraftTypeOK /\ task[m].phone \in Phones
  BY Typed DEF DraftIInv, Msgs
<1>2. CASE Undo(m)
  BY <1>2, UndoSound
<1>3. CASE AnswerQuestion(m)
  <2>1. PICK d \in DOMAIN draft : Commit(d, Answered(draft[d].gaps))
    BY <1>3 DEF AnswerQuestion, Newest, PendingOf
  <2>2. Settles /\ UNCHANGED <<expired, undone, struck>>
    BY <1>1, <1>3, RestSettles DEF AnswerQuestion
  <2> QED BY <2>1, <2>2, CommitSound
<1>4. CASE NoQuestion(m)
  <2>1. task' = [task EXCEPT ![m] = Message("parse", task[m].phone, "sale", 0)]
        /\ UNCHANGED <<draft, expired, record, undone, struck>>
    BY <1>4 DEF NoQuestion
  <2>2. Settles /\ expired' \subseteq 1..Len(draft)
    BY <1>1, <2>1, MoveSettles, Typed DEF Pcs
  <2> QED BY <2>1, <2>2, TaskSound
<1>5. ASSUME NEW a \in Actions, NEW g \in 0..MaxGaps, Clarify(m, a, g) PROVE DraftIInv'
  <2>1. Settles /\ UNCHANGED <<expired, record, undone, struck>>
        /\ draft' = Append(draft, Row(task[m].phone, a, "pending", g, 0))
    BY <1>1, <1>5, RestSettles DEF Clarify, Insert
  <2>2. /\ Row(task[m].phone, a, "pending", g, 0) \in Rows
        /\ Row(task[m].phone, a, "pending", g, 0).state = "pending"
        /\ Row(task[m].phone, a, "pending", g, 0).record = 0
    <3>1. "pending" \in States
      BY DEF States
    <3> QED BY <1>1, <3>1, RowIs
  <2> QED BY <2>1, <2>2, InsertSound
<1>6. ASSUME NEW a \in Actions, NEW c \in BOOLEAN, NEW asks \in BOOLEAN, Dispatch(m, a, c, asks)
      PROVE  DraftIInv'
  <2>1. CASE asks
    BY <1>6, <2>1, AskSound
  <2>2. CASE ~asks
    BY <1>6, <2>2, DispatchSound
  <2> QED BY <2>1, <2>2
<1>7. CASE Track(m)
  BY <1>7, TrackSound
<1>8. CASE MessageEnds(m)
  <2>1. Settles /\ UNCHANGED <<draft, expired, record, undone, struck>>
    BY <1>1, <1>8, RestSettles DEF MessageEnds
  <2>2. expired' \subseteq 1..Len(draft)
    BY <1>1, <2>1, Typed
  <2> QED BY <2>1, <2>2, TaskSound
<1> QED BY <1>2, <1>3, <1>4, <1>5, <1>6, <1>7, <1>8 DEF MessageStep

LEMMA WebSound ==
  ASSUME DraftIInv, WebStep
  PROVE  DraftIInv'
<1>1. DraftTypeOK
  BY DEF DraftIInv
<1>2. ASSUME NEW p \in Phones, NEW a \in Actions, NEW s \in {"parsed", "pending"},
             NEW g \in 0..MaxGaps, WebCreate(p, a, s, g)
      PROVE  DraftIInv'
  <2>1. Settles /\ UNCHANGED <<expired, record, undone, struck>>
        /\ draft' = Append(draft, Row(p, a, s, g, 0))
    BY <1>1, <1>2, StaySettles DEF WebCreate, Insert
  <2>2. s \in States
    BY DEF States
  <2>3. /\ Row(p, a, s, g, 0) \in Rows /\ Row(p, a, s, g, 0).state = s
        /\ Row(p, a, s, g, 0).record = 0
    BY <2>2, RowIs
  <2> QED BY <2>1, <2>3, InsertSound
<1>3. ASSUME NEW d \in DOMAIN draft, NEW w \in {"answer", "payload", "nothing"}, WebConfirm(d, w)
      PROVE  DraftIInv'
  <2>1. PICK lacks : Commit(d, lacks)
    BY <1>3 DEF WebConfirm
  <2>2. Settles /\ UNCHANGED <<expired, undone, struck>>
    BY <1>1, <1>3, StaySettles DEF WebConfirm
  <2> QED BY <2>1, <2>2, CommitSound
<1>4. ASSUME NEW d \in DOMAIN draft, NEW g \in 0..MaxGaps, WebAmend(d, g) PROVE DraftIInv'
  <2>1. Settles /\ UNCHANGED <<expired, record, undone, struck>>
    BY <1>1, <1>4, StaySettles DEF WebAmend
  <2>2. draft[d].state \in States /\ draft[d].state \notin {"committed", "cancelled"}
    BY <1>4 DEF WebAmend, States
  <2>3. draft' = [draft EXCEPT ![d] = Changed(d, draft[d].state, g, draft[d].record)]
    BY <1>4 DEF WebAmend
  <2> QED BY <2>1, <2>2, <2>3, ChangeSound
<1>5. ASSUME NEW d \in DOMAIN draft, WebCancel(d) PROVE DraftIInv'
  <2>1. Settles /\ UNCHANGED <<expired, record, undone, struck>>
    BY <1>1, <1>5, StaySettles DEF WebCancel
  <2>2. draft[d].state \notin {"committed", "cancelled"} /\ "cancelled" \in States
    BY <1>5 DEF WebCancel, Legal, States
  <2>3. draft[d].gaps \in 0..MaxGaps
    BY <1>1, Typed DEF Rows
  <2>4. draft' = [draft EXCEPT ![d] = Changed(d, "cancelled", draft[d].gaps, draft[d].record)]
    BY <1>5 DEF WebCancel, Cancelled
  <2> QED BY <2>1, <2>2, <2>3, <2>4, ChangeSound
<1>6. ASSUME NEW r \in DOMAIN record, WebStrike(r) PROVE DraftIInv'
  BY <1>6, WebStrikeSound
<1> QED BY <1>2, <1>3, <1>4, <1>5, <1>6 DEF WebStep

LEMMA StepSound == DraftIInv /\ [DraftNext]_draftVars => DraftIInv'
<1> SUFFICES ASSUME DraftIInv, [DraftNext]_draftVars PROVE DraftIInv'
  OBVIOUS
<1>1. DraftTypeOK
  BY DEF DraftIInv
<1>2. ASSUME NEW m \in Tasks, NEW p \in Phones, NEW isNo \in BOOLEAN, Receive(m, p, isNo)
      PROVE  DraftIInv'
  <2> DEFINE pc == IF isNo THEN "no" ELSE "text"
  <2>1. task' = [task EXCEPT ![m] = Message(pc, p, "sale", 0)]
        /\ UNCHANGED <<draft, expired, record, undone, struck>>
    BY <1>2 DEF Receive
  <2>2. pc \in Pcs \ {"track"}
    BY DEF Pcs
  <2> HIDE DEF pc
  <2>3. Settles /\ expired' \subseteq 1..Len(draft)
    BY <1>1, <2>1, <2>2, MoveSettles, Typed
  <2> QED BY <2>1, <2>3, TaskSound
<1>3. ASSUME NEW m \in Tasks, MessageStep(m) PROVE DraftIInv'
  BY <1>3, MessageSound
<1>4. CASE WebStep
  BY <1>4, WebSound
<1>5. ASSUME NEW d \in DOMAIN draft, WindowCloses(d) PROVE DraftIInv'
  <2>1. Settles /\ UNCHANGED <<draft, record, undone, struck>>
    BY <1>1, <1>5, StaySettles DEF WindowCloses
  <2>2. expired' \subseteq 1..Len(draft)
    BY <1>1, <1>5, Typed DEF WindowCloses
  <2> QED BY <2>1, <2>2, TaskSound
<1>6. CASE MessagesLost
  <2>1. Settles /\ UNCHANGED <<draft, expired, record, undone, struck>>
    BY <1>1, <1>6, LostSettles DEF MessagesLost
  <2>2. expired' \subseteq 1..Len(draft)
    BY <1>1, <2>1, Typed
  <2> QED BY <2>1, <2>2, TaskSound
<1>7. CASE UNCHANGED draftVars
  <2>1. Settles /\ UNCHANGED <<draft, expired, record, undone, struck>>
    BY <1>1, <1>7, StaySettles DEF draftVars
  <2>2. expired' \subseteq 1..Len(draft)
    BY <1>1, <2>1, Typed
  <2> QED BY <2>1, <2>2, TaskSound
<1> QED BY <1>2, <1>3, <1>4, <1>5, <1>6, <1>7 DEF DraftNext

\* DraftIInv is an invariant: however the messages and the web app interleave, the
\* names a draft carries are those of the records made for it.
THEOREM DraftInvariance == DraftSpec => []DraftIInv
BY InitSound, StepSound, PTL DEF DraftSpec

\* Type correctness, for any number of drafts and concurrent messages.
THEOREM DraftTypeCorrect == DraftSpec => []DraftTypeOK
<1>1. DraftIInv => DraftTypeOK
  BY DEF DraftIInv
<1> QED BY <1>1, DraftInvariance, PTL

\* A draft makes one record when it is committed and none before
\* (commitConfirmedDraft in one transaction with the row it locks).
THEOREM CommitsOnce == DraftSpec => []CommittedOnce
<1>1. DraftIInv => CommittedOnce
  BY DEF DraftIInv
<1> QED BY <1>1, DraftInvariance, PTL

\* No record is named by two drafts, a correction's included.
THEOREM NamesAreUnique == DraftSpec => []OneDraftPerRecord
<1>1. DraftIInv => OneDraftPerRecord
  BY DEF DraftIInv
<1> QED BY <1>1, DraftInvariance, PTL

\* An undo cancels the sale of its draft, of its sender, and no other sale
\* (reverseConfirmDefault).
THEOREM UndoneExactly == DraftSpec => []UndoIsExact
<1>1. DraftIInv => UndoIsExact
  BY DEF DraftIInv
<1> QED BY <1>1, DraftInvariance, PTL

-----------------------------------------------------------------------------
(* Committed and cancelled drafts                                          *)

\* Writing one open draft, or appending one, keeps the final ones.
LEMMA WriteKeeps ==
  ASSUME DraftTypeOK, NEW d \in DOMAIN draft, NEW row \in Rows,
         draft[d].state \notin {"committed", "cancelled"},
         draft' = [draft EXCEPT ![d] = row]
  PROVE  FinalKept
BY Typed, Overwritten DEF FinalKept

LEMMA AppendKeeps ==
  ASSUME DraftTypeOK, NEW row \in Rows, draft' = Append(draft, row)
  PROVE  FinalKept
BY Typed, Appended DEF FinalKept

LEMMA CommitKeeps ==
  ASSUME DraftTypeOK, NEW d \in DOMAIN draft, NEW lacks, Commit(d, lacks)
  PROVE  FinalKept
<1>1. draft[d].state \notin {"committed", "cancelled"}
  BY DEF Commit, Legal
<1>2. Len(record') \in Nat
  <2>1. [action |-> draft[d].action, live |-> TRUE, draft |-> d] \in Records
    BY Typed DEF Rows, Records
  <2>2. record' = Append(record, [action |-> draft[d].action, live |-> TRUE, draft |-> d])
    BY DEF Commit
  <2> QED BY <2>1, <2>2, Typed, Appended
<1>3. Changed(d, "committed", 0, Len(record')) \in Rows
  BY <1>2, ChangedIs DEF States
<1> QED BY <1>1, <1>3, WriteKeeps DEF Commit

LEMMA UndoKeeps ==
  ASSUME DraftTypeOK, NEW m \in Tasks, Undo(m)
  PROVE  FinalKept
<1>1. PICK d \in DOMAIN draft :
        /\ draft[d].state = "confirmed"
        /\ draft' = Append([draft EXCEPT ![d] = Cancelled(d)], Correction(d))
  BY DEF Undo, Newest, UndoableOf
<1> DEFINE mid == [draft EXCEPT ![d] = Cancelled(d)]
<1>2. draft[d].phone \in Phones /\ draft[d].action \in Actions /\ draft[d].gaps \in 0..MaxGaps
      /\ draft[d].record \in Nat
  BY Typed DEF Rows
<1>3. Cancelled(d) \in Rows
  BY <1>2, ChangedIs DEF Cancelled, States
<1>4. Correction(d) \in Rows
  BY <1>2, RowIs DEF Correction, States
<1>5. /\ mid \in Seq(Rows) /\ Len(mid) = Len(draft) /\ DOMAIN mid = 1..Len(draft)
      /\ \A e \in 1..Len(draft) : e # d => mid[e] = draft[e]
  BY <1>3, Typed, Overwritten
<1>6. draft' = Append(mid, Correction(d))
  BY <1>1
<1> HIDE DEF mid
<1>7. /\ DOMAIN draft' = 1..(Len(draft) + 1)
      /\ \A e \in 1..Len(draft) : draft'[e] = mid[e]
  BY <1>4, <1>5, <1>6, Appended
<1>8. DOMAIN draft = 1..Len(draft) /\ Len(draft) \in Nat
  BY Typed
<1> QED BY <1>1, <1>5, <1>7, <1>8 DEF FinalKept

LEMMA StepKeeps == DraftTypeOK /\ [DraftNext]_draftVars => FinalKept
<1> SUFFICES ASSUME DraftTypeOK, [DraftNext]_draftVars PROVE FinalKept
  OBVIOUS
<1>1. CASE draft' = draft
  BY <1>1 DEF FinalKept
<1>2. ASSUME NEW m \in Tasks, MessageStep(m) PROVE FinalKept
  <2>1. task[m].phone \in Phones /\ task[m].action \in Actions /\ task[m].record \in Nat
    BY Typed DEF Msgs
  <2>2. CASE Undo(m)
    BY <2>2, UndoKeeps
  <2>3. CASE AnswerQuestion(m)
    <3>1. PICK d \in DOMAIN draft : Commit(d, Answered(draft[d].gaps))
      BY <2>3 DEF AnswerQuestion, Newest, PendingOf
    <3> QED BY <3>1, CommitKeeps
  <2>4. ASSUME NEW a \in Actions, NEW g \in 0..MaxGaps, Clarify(m, a, g) PROVE FinalKept
    <3>1. "pending" \in States
      BY DEF States
    <3>2. Row(task[m].phone, a, "pending", g, 0) \in Rows
      BY <2>1, <3>1, RowIs
    <3> QED BY <2>4, <3>2, AppendKeeps DEF Clarify, Insert
  <2>5. CASE Track(m)
    <3>1. "confirmed" \in States /\ 0 \in 0..MaxGaps
      BY DEF States
    <3>2. Row(task[m].phone, task[m].action, "confirmed", 0, task[m].record) \in Rows
      BY <2>1, <3>1, RowIs
    <3> QED BY <2>5, <3>2, AppendKeeps DEF Track, Insert
  <2>6. CASE NoQuestion(m) \/ MessageEnds(m)
    BY <2>6, <1>1 DEF NoQuestion, MessageEnds
  <2>7. ASSUME NEW a \in Actions, NEW c \in BOOLEAN, NEW asks \in BOOLEAN, Dispatch(m, a, c, asks)
        PROVE  FinalKept
    BY <2>7, <1>1 DEF Dispatch
  <2> QED BY <1>2, <2>2, <2>3, <2>4, <2>5, <2>6, <2>7 DEF MessageStep
<1>3. CASE WebStep
  <2>1. ASSUME NEW p \in Phones, NEW a \in Actions, NEW s \in {"parsed", "pending"},
               NEW g \in 0..MaxGaps, WebCreate(p, a, s, g)
        PROVE  FinalKept
    <3>1. s \in States
      BY DEF States
    <3>2. Row(p, a, s, g, 0) \in Rows
      BY <3>1, RowIs
    <3> QED BY <2>1, <3>2, AppendKeeps DEF WebCreate, Insert
  <2>2. ASSUME NEW d \in DOMAIN draft, NEW w \in {"answer", "payload", "nothing"}, WebConfirm(d, w)
        PROVE  FinalKept
    <3>1. PICK lacks : Commit(d, lacks)
      BY <2>2 DEF WebConfirm
    <3> QED BY <3>1, CommitKeeps
  <2>3. ASSUME NEW d \in DOMAIN draft, NEW g \in 0..MaxGaps, WebAmend(d, g) PROVE FinalKept
    <3>1. draft[d].state \in States /\ draft[d].state \notin {"committed", "cancelled"}
      BY <2>3 DEF WebAmend, States
    <3>2. draft[d].record \in Nat
      BY Typed DEF Rows
    <3>3. Changed(d, draft[d].state, g, draft[d].record) \in Rows
      BY <3>1, <3>2, ChangedIs
    <3> QED BY <2>3, <3>1, <3>3, WriteKeeps DEF WebAmend
  <2>4. ASSUME NEW d \in DOMAIN draft, WebCancel(d) PROVE FinalKept
    <3>1. draft[d].state \notin {"committed", "cancelled"} /\ "cancelled" \in States
      BY <2>4 DEF WebCancel, Legal, States
    <3>2. draft[d].record \in Nat /\ draft[d].gaps \in 0..MaxGaps
      BY Typed DEF Rows
    <3>3. Cancelled(d) \in Rows
      BY <3>1, <3>2, ChangedIs DEF Cancelled
    <3> QED BY <2>4, <3>1, <3>3, WriteKeeps DEF WebCancel
  <2>5. ASSUME NEW r \in DOMAIN record, WebStrike(r) PROVE FinalKept
    BY <2>5, <1>1 DEF WebStrike
  <2> QED BY <1>3, <2>1, <2>2, <2>3, <2>4, <2>5 DEF WebStep
<1>4. ASSUME NEW m \in Tasks, NEW p \in Phones, NEW isNo \in BOOLEAN, Receive(m, p, isNo)
      PROVE  FinalKept
  BY <1>4, <1>1 DEF Receive
<1>5. ASSUME NEW d \in DOMAIN draft, WindowCloses(d) PROVE FinalKept
  BY <1>5, <1>1 DEF WindowCloses
<1>6. CASE MessagesLost
  BY <1>6, <1>1 DEF MessagesLost
<1>7. CASE UNCHANGED draftVars
  BY <1>7, <1>1 DEF draftVars
<1> QED BY <1>2, <1>3, <1>4, <1>5, <1>6, <1>7 DEF DraftNext

\* A committed or cancelled draft is never written again by either channel.
THEOREM FinalDraftsStay == DraftSpec => FinalDrafts
<1>1. DraftTypeOK /\ [DraftNext]_draftVars => [FinalKept]_draftVars
  BY StepKeeps
<1> QED BY <1>1, DraftTypeCorrect, PTL DEF DraftSpec, FinalDrafts

-----------------------------------------------------------------------------
(* What the two channels promise                                           *)

Seen    == [d \in DOMAIN draft |-> Shown(draft[d])]
Views   == [phone : Phones, action : Actions, state : {"open", "committed", "cancelled"}, record : Nat]
View(p, a, s, r) == [phone |-> p, action |-> a, state |-> s, record |-> r]

LEMMA ShownIs ==
  ASSUME NEW row \in Rows
  PROVE  /\ Shown(row) \in Views
         /\ Shown(row) = View(row.phone, row.action, Outcome(row.state), row.record)
BY DEF Shown, View, Views, Rows, Outcome

\* The rows as the promise sees them are a sequence as long as the table.
LEMMA SeenIs ==
  ASSUME NEW s \in Seq(Rows)
  PROVE  LET v == [d \in DOMAIN s |-> Shown(s[d])] IN
           /\ v \in Seq(Views) /\ Len(v) = Len(s) /\ DOMAIN v = 1..Len(s)
           /\ \A d \in 1..Len(s) : v[d] = Shown(s[d])
<1>1. Len(s) \in Nat /\ DOMAIN s = 1..Len(s) /\ \A d \in 1..Len(s) : s[d] \in Rows
  OBVIOUS
<1>2. \A d \in 1..Len(s) : Shown(s[d]) \in Views
  BY <1>1, ShownIs
<1> QED BY <1>1, <1>2

\* A row written over one that shows the same leaves what is seen.
LEMMA SameSeen ==
  ASSUME DraftTypeOK, NEW d \in DOMAIN draft, NEW row \in Rows,
         draft' = [draft EXCEPT ![d] = row], Shown(row) = Shown(draft[d])
  PROVE  Seen' = Seen
<1>1. /\ DOMAIN draft = 1..Len(draft) /\ DOMAIN draft' = 1..Len(draft)
      /\ draft'[d] = row /\ \A e \in 1..Len(draft) : e # d => draft'[e] = draft[e]
  BY Typed, Overwritten
<1>2. \A e \in DOMAIN draft : Shown(draft'[e]) = Shown(draft[e])
  BY <1>1
<1> QED BY <1>1, <1>2 DEF Seen

LEMMA SeenOverwritten ==
  ASSUME DraftTypeOK, NEW d \in DOMAIN draft, NEW row \in Rows, NEW t,
         t = [draft EXCEPT ![d] = row]
  PROVE  [e \in DOMAIN t |-> Shown(t[e])] = [Seen EXCEPT ![d] = Shown(row)]
<1>1. /\ DOMAIN draft = 1..Len(draft) /\ DOMAIN t = 1..Len(draft)
      /\ t[d] = row /\ \A e \in 1..Len(draft) : e # d => t[e] = draft[e]
  BY Typed, Overwritten
<1>2. /\ DOMAIN Seen = 1..Len(draft)
      /\ \A e \in 1..Len(draft) : Seen[e] = Shown(draft[e])
  BY <1>1 DEF Seen
<1>3. Seen = [e \in 1..Len(draft) |-> Shown(draft[e])]
  BY <1>1 DEF Seen
<1> QED BY <1>1, <1>2, <1>3

LEMMA SeenAppended ==
  ASSUME NEW s \in Seq(Rows), NEW row \in Rows, NEW t, t = Append(s, row)
  PROVE  [e \in DOMAIN t |-> Shown(t[e])] = Append([e \in DOMAIN s |-> Shown(s[e])], Shown(row))
<1> DEFINE v == [e \in DOMAIN s |-> Shown(s[e])]
           w == [e \in DOMAIN t |-> Shown(t[e])]
           x == Shown(row)
<1>1. /\ t \in Seq(Rows) /\ Len(t) = Len(s) + 1 /\ Len(s) \in Nat
      /\ t[Len(s) + 1] = row /\ \A i \in 1..Len(s) : t[i] = s[i]
  BY Appended
<1>2. v \in Seq(Views) /\ Len(v) = Len(s) /\ \A i \in 1..Len(s) : v[i] = Shown(s[i])
  BY SeenIs
<1>3. w \in Seq(Views) /\ Len(w) = Len(t) /\ \A i \in 1..Len(t) : w[i] = Shown(t[i])
  BY <1>1, SeenIs
<1>4. x \in Views
  BY ShownIs
<1>5. w[Len(s) + 1] = x /\ \A i \in 1..Len(s) : w[i] = v[i]
  BY <1>1, <1>2, <1>3
<1> HIDE DEF v, w, x
<1>6. Len(w) = Len(v) + 1 /\ w[Len(v) + 1] = x /\ \A i \in 1..Len(v) : w[i] = v[i]
  BY <1>1, <1>2, <1>3, <1>5
<1>7. w = Append(v, x)
  BY <1>2, <1>3, <1>4, <1>6
<1> QED BY <1>7 DEF v, w, x

\* The steps of the promise, said of the rows that are seen.
LEMMA OpenIs ==
  ASSUME NEW p, NEW a, NEW r, record' = record,
         Seen' = Append(Seen, View(p, a, "open", r)),
         r # 0 => /\ r \in DOMAIN record /\ record[r].draft = 0
                  /\ \A d \in DOMAIN draft : draft[d].record # r
  PROVE  Promise!Open(p, a, r)
<1>1. DOMAIN Seen = DOMAIN draft /\ \A d \in DOMAIN draft : Seen[d].record = draft[d].record
  BY DEF Seen, Shown
<1>2. Promise!MayName(r)
  BY <1>1 DEF Promise!MayName, Seen
<1> QED BY <1>2 DEF Promise!Open, Promise!Draft, Seen, View

\* Settling a draft keeps its sender and what it is about.
LEMMA SettledIs ==
  ASSUME NEW d \in DOMAIN draft, NEW s, NEW r
  PROVE  Promise!Settled(d, s, r) = [Seen EXCEPT ![d] = View(draft[d].phone, draft[d].action, s, r)]
<1>1. d \in DOMAIN Seen /\ Seen[d].phone = draft[d].phone /\ Seen[d].action = draft[d].action
  BY DEF Seen, Shown
<1>2. Promise!Settled(d, s, r)
        = [Seen EXCEPT ![d] = [phone |-> Seen[d].phone, action |-> Seen[d].action, state |-> s, record |-> r]]
  BY DEF Promise!Settled, Promise!Draft, Seen
<1> QED BY <1>1, <1>2 DEF View

LEMMA OpenIsOpen ==
  ASSUME NEW d \in DOMAIN draft, draft[d].state \notin {"committed", "cancelled"}
  PROVE  Promise!IsOpen(d)
BY DEF Promise!IsOpen, Shown, Outcome

\* Making a record and naming it are one step for both.
LEMMA CommitIsCommit ==
  ASSUME DraftTypeOK, NEW d \in DOMAIN draft, NEW lacks, Commit(d, lacks)
  PROVE  Promise!Commit(d)
<1> DEFINE n == Len(record) + 1
           made == [action |-> draft[d].action, live |-> TRUE, draft |-> d]
           row == Changed(d, "committed", 0, n)
<1>1. draft[d].state \notin {"committed", "cancelled"}
  BY DEF Commit, Legal
<1>2. record' = Append(record, made)
  BY DEF Commit
<1>3. made \in Records
  BY Typed DEF Rows, Records
<1>4. Len(record') = n /\ n \in Nat
  BY <1>2, <1>3, Typed, Appended
<1>5. draft' = [draft EXCEPT ![d] = row]
  BY <1>4 DEF Commit
<1>6. /\ row \in Rows /\ row.phone = draft[d].phone /\ row.action = draft[d].action
      /\ row.state = "committed" /\ row.record = n
  BY <1>4, ChangedIs DEF States
<1> HIDE DEF row, n
<1>7. Shown(row) = View(draft[d].phone, draft[d].action, "committed", n)
  BY <1>6, ShownIs DEF Outcome
<1>8. Seen' = [Seen EXCEPT ![d] = Shown(row)]
  BY <1>5, <1>6, SeenOverwritten DEF Seen
<1>9. Seen' = Promise!Settled(d, "committed", n)
  BY <1>7, <1>8, SettledIs
<1>10. Promise!Made(draft[d].action, d)
  BY <1>2 DEF Promise!Made
<1>11. Seen[d].action = draft[d].action
  BY DEF Seen, Shown
<1> QED BY <1>1, <1>9, <1>10, <1>11, OpenIsOpen DEF Promise!Commit, Seen, n

LEMMA CancelIsCancel ==
  ASSUME DraftTypeOK, NEW d \in DOMAIN draft, WebCancel(d)
  PROVE  Promise!Cancel(d)
<1> DEFINE row == Cancelled(d)
           rec == draft[d].record
<1>1. draft[d].state \notin {"committed", "cancelled"} /\ record' = record
  BY DEF WebCancel, Legal
<1>2. draft[d].record \in Nat /\ draft[d].gaps \in 0..MaxGaps
  BY Typed DEF Rows
<1>3. /\ row \in Rows /\ row.phone = draft[d].phone /\ row.action = draft[d].action
      /\ row.state = "cancelled" /\ row.record = rec
  BY <1>2, ChangedIs DEF Cancelled, States
<1>4. draft' = [draft EXCEPT ![d] = row]
  BY DEF WebCancel
<1> HIDE DEF row, rec
<1>5. Shown(row) = View(draft[d].phone, draft[d].action, "cancelled", rec)
  BY <1>3, ShownIs DEF Outcome
<1>6. Seen' = [Seen EXCEPT ![d] = Shown(row)]
  BY <1>3, <1>4, SeenOverwritten DEF Seen
<1>7. Seen' = Promise!Settled(d, "cancelled", rec)
  BY <1>5, <1>6, SettledIs
<1>8. Seen[d].record = rec
  BY DEF Seen, Shown, rec
<1> QED BY <1>1, <1>7, <1>8, OpenIsOpen DEF Promise!Cancel, Seen

LEMMA StruckIs == ASSUME NEW r, Strike(r) PROVE Promise!Struck(r)
BY DEF Strike, Promise!Struck

\* NO settles a draft, cancels the sale it names and opens one that names nothing.
LEMMA UndoIsUndo ==
  ASSUME DraftIInv, NEW m \in Tasks, Undo(m)
  PROVE  \E d \in DOMAIN draft : Promise!Undo(d)
<1>1. PICK d \in DOMAIN draft :
        /\ draft[d].state = "confirmed"
        /\ Reverse(d)
        /\ draft' = Append([draft EXCEPT ![d] = Cancelled(d)], Correction(d))
  BY DEF Undo, Newest, UndoableOf
<1> DEFINE gone == Cancelled(d)
           next == Correction(d)
           mid == [draft EXCEPT ![d] = gone]
           seenMid == [e \in DOMAIN mid |-> Shown(mid[e])]
           p == draft[d].phone
           a == draft[d].action
           rec == draft[d].record
<1>2. DraftTypeOK
  BY DEF DraftIInv
<1>3. p \in Phones /\ a \in Actions /\ draft[d].gaps \in 0..MaxGaps /\ draft[d].record \in Nat
  BY <1>2, Typed DEF Rows
<1>4. /\ gone \in Rows /\ gone.phone = p /\ gone.action = a
      /\ gone.state = "cancelled" /\ gone.record = rec
  BY <1>2, <1>3, ChangedIs DEF Cancelled, States
<1>5. /\ next \in Rows /\ next.phone = p /\ next.action = a
      /\ next.state = "parsed" /\ next.record = 0
  <2>1. "parsed" \in States /\ 0 \in Nat
    BY DEF States
  <2>2. next = Row(p, a, "parsed", draft[d].gaps, 0)
    BY DEF Correction
  <2> HIDE DEF next, p, a
  <2> QED BY <1>3, <2>1, <2>2, RowIs
<1>6. mid = [draft EXCEPT ![d] = gone] /\ draft' = Append(mid, next)
  BY <1>1
<1> HIDE DEF gone, next, rec
<1>7. mid \in Seq(Rows)
  BY <1>2, <1>4, Typed, Overwritten
<1> HIDE DEF mid
<1>8. seenMid = [Seen EXCEPT ![d] = Shown(gone)]
  <2>1. \A t : t = [draft EXCEPT ![d] = gone] =>
          [e \in DOMAIN t |-> Shown(t[e])] = [Seen EXCEPT ![d] = Shown(gone)]
    BY <1>2, <1>4, SeenOverwritten
  <2> QED BY <2>1, <1>6
<1>9. Seen' = Append(seenMid, Shown(next))
  BY <1>5, <1>6, <1>7, SeenAppended DEF Seen
<1> HIDE DEF seenMid
<1>10. Shown(gone) = View(p, a, "cancelled", rec)
  BY <1>4, ShownIs DEF Outcome
<1>11. Shown(next) = View(p, a, "open", 0)
  BY <1>5, ShownIs DEF Outcome
<1>12. seenMid = Promise!Settled(d, "cancelled", rec)
  BY <1>8, <1>10, SettledIs
<1>13. Seen' = Append(Promise!Settled(d, "cancelled", rec), View(p, a, "open", 0))
  BY <1>9, <1>11, <1>12
<1>14. /\ Seen[d].phone = p /\ Seen[d].action = a /\ Seen[d].record = rec
  BY DEF Seen, Shown, rec
<1>15. Promise!IsOpen(d)
  BY <1>1, OpenIsOpen
<1>16. IF a = "sale" THEN rec # 0 /\ Promise!Struck(rec) ELSE record' = record
  <2>1. a = "sale" => rec # 0
    BY <1>1 DEF DraftIInv, OpenNameNothing, rec
  <2> QED BY <2>1, <1>1, StruckIs DEF Reverse, rec
<1> HIDE DEF p, a
<1>17. Promise!Undo(d)
  BY <1>13, <1>14, <1>15, <1>16 DEF Promise!Undo, Promise!Draft, Seen, View
<1> QED BY <1>17

\* A new row that names nothing, or a record that is not named yet.
LEMMA InsertIsOpen ==
  ASSUME DraftTypeOK, NEW p \in Phones, NEW a \in Actions, NEW s \in {"parsed", "pending", "confirmed"},
         NEW g \in 0..MaxGaps, NEW r \in Nat, Insert(Row(p, a, s, g, r)), record' = record,
         r # 0 => /\ r \in DOMAIN record /\ record[r].draft = 0
                  /\ \A d \in DOMAIN draft : draft[d].record # r
  PROVE  r \in 0..Len(record) /\ Promise!Open(p, a, r)
<1> DEFINE row == Row(p, a, s, g, r)
<1>1. s \in States /\ Outcome(s) = "open"
  BY DEF States, Outcome
<1>2. row \in Rows /\ row.phone = p /\ row.action = a /\ row.state = s /\ row.record = r
  BY <1>1, RowIs
<1>3. draft' = Append(draft, row)
  BY DEF Insert
<1> HIDE DEF row
<1>4. Shown(row) = View(p, a, "open", r)
  BY <1>1, <1>2, ShownIs
<1>5. Seen' = Append(Seen, Shown(row))
  BY <1>2, <1>3, Typed, SeenAppended DEF Seen
<1>6. Promise!Open(p, a, r)
  BY <1>4, <1>5, OpenIs
<1>7. r \in 0..Len(record)
  BY Typed
<1> QED BY <1>6, <1>7

\* A draft is amended without its sender, action, record or state changing.
LEMMA AmendShowsNothing ==
  ASSUME DraftTypeOK, NEW d \in DOMAIN draft, NEW g \in 0..MaxGaps, WebAmend(d, g)
  PROVE  Seen' = Seen
<1> DEFINE row == Changed(d, draft[d].state, g, draft[d].record)
<1>1. draft[d] \in Rows /\ draft[d].state \in States /\ draft[d].record \in Nat
  BY Typed DEF Rows
<1>2. /\ row \in Rows /\ row.phone = draft[d].phone /\ row.action = draft[d].action
      /\ row.state = draft[d].state /\ row.record = draft[d].record
  BY <1>1, ChangedIs
<1>3. draft' = [draft EXCEPT ![d] = row]
  BY DEF WebAmend
<1> HIDE DEF row
<1>4. Shown(row) = Shown(draft[d])
  BY <1>2 DEF Shown
<1> QED BY <1>2, <1>3, <1>4, SameSeen

LEMMA Unseen == ASSUME draft' = draft PROVE Seen' = Seen
BY DEF Seen

LEMMA InitPromises == DraftInit => Promise!Init
<1> SUFFICES ASSUME DraftInit PROVE Promise!Init
  OBVIOUS
<1>1. draft = <<>> /\ record = <<>>
  BY DEF DraftInit
<1>2. [d \in DOMAIN draft |-> Shown(draft[d])] = <<>>
  BY <1>1
<1> QED BY <1>1, <1>2 DEF Promise!Init

LEMMA MessagePromises ==
  ASSUME DraftIInv, NEW m \in Tasks, MessageStep(m)
  PROVE  Promise!Next \/ (Seen' = Seen /\ record' = record)
<1>1. /\ DraftTypeOK /\ task[m].phone \in Phones
      /\ task[m].action \in Actions /\ task[m].record \in Nat
  BY Typed DEF DraftIInv, Msgs
<1>2. DOMAIN Seen = DOMAIN draft
  BY DEF Seen
<1>3. CASE Undo(m)
  BY <1>2, <1>3, UndoIsUndo DEF Promise!Next, Seen
<1>4. CASE AnswerQuestion(m)
  <2>1. PICK d \in DOMAIN draft : Commit(d, Answered(draft[d].gaps))
    BY <1>4 DEF AnswerQuestion, Newest, PendingOf
  <2>2. Promise!Commit(d)
    BY <1>1, <2>1, CommitIsCommit
  <2> QED BY <1>2, <2>2 DEF Promise!Next, Seen
<1>5. CASE NoQuestion(m) \/ MessageEnds(m)
  BY <1>5, Unseen DEF NoQuestion, MessageEnds
<1>6. ASSUME NEW a \in Actions, NEW g \in 0..MaxGaps, Clarify(m, a, g) PROVE Promise!Next
  <2>1. Insert(Row(task[m].phone, a, "pending", g, 0)) /\ record' = record
    BY <1>6 DEF Clarify
  <2>2. 0 \in 0..Len(record) /\ Promise!Open(task[m].phone, a, 0)
    BY <1>1, <2>1, InsertIsOpen
  <2> QED BY <1>1, <2>2 DEF Promise!Next
<1>7. ASSUME NEW a \in Actions, NEW c \in BOOLEAN, NEW asks \in BOOLEAN, Dispatch(m, a, c, asks)
      PROVE  Promise!Next \/ (Seen' = Seen /\ record' = record)
  <2>1. CASE asks
    <3>1. Dispatch(m, a, c, TRUE)
      BY <1>7, <2>1
    <3>2. draft' = draft /\ record' = record
      BY <3>1 DEF Dispatch
    <3> QED BY <3>2, Unseen
  <2>2. CASE ~asks
    <3>1. Promise!Make(a)
      BY <1>7, <2>2 DEF Dispatch, Promise!Make, Promise!Made
    <3> QED BY <3>1 DEF Promise!Next
  <2> QED BY <2>1, <2>2
<1>8. CASE Track(m)
  <2> DEFINE p == task[m].phone
             a == task[m].action
             r == task[m].record
  <2>1. /\ Insert(Row(p, a, "confirmed", 0, r)) /\ record' = record
        /\ 0 \in 0..MaxGaps
    BY <1>8 DEF Track
  <2>2. r # 0 => /\ r \in DOMAIN record /\ record[r].draft = 0
                 /\ \A d \in DOMAIN draft : draft[d].record # r
    BY DEF DraftIInv, TasksOwn
  <2>3. p \in Phones /\ a \in Actions /\ r \in Nat
    BY <1>1
  <2> HIDE DEF p, a, r
  <2>4. r \in 0..Len(record) /\ Promise!Open(p, a, r)
    BY <1>1, <2>1, <2>2, <2>3, InsertIsOpen
  <2> QED BY <2>3, <2>4 DEF Promise!Next
<1> QED BY <1>3, <1>4, <1>5, <1>6, <1>7, <1>8 DEF MessageStep

LEMMA WebPromises ==
  ASSUME DraftIInv, WebStep
  PROVE  Promise!Next \/ (Seen' = Seen /\ record' = record)
<1>1. DraftTypeOK /\ DOMAIN Seen = DOMAIN draft
  BY DEF DraftIInv, Seen
<1>2. ASSUME NEW p \in Phones, NEW a \in Actions, NEW s \in {"parsed", "pending"},
             NEW g \in 0..MaxGaps, WebCreate(p, a, s, g)
      PROVE  Promise!Next
  <2>1. Insert(Row(p, a, s, g, 0)) /\ record' = record
    BY <1>2 DEF WebCreate
  <2>2. 0 \in 0..Len(record) /\ Promise!Open(p, a, 0)
    BY <1>1, <2>1, InsertIsOpen
  <2> QED BY <2>2 DEF Promise!Next
<1>3. ASSUME NEW d \in DOMAIN draft, NEW w \in {"answer", "payload", "nothing"}, WebConfirm(d, w)
      PROVE  Promise!Next
  <2>1. PICK lacks : Commit(d, lacks)
    BY <1>3 DEF WebConfirm
  <2>2. Promise!Commit(d)
    BY <1>1, <2>1, CommitIsCommit
  <2> QED BY <1>1, <2>2 DEF Promise!Next, Seen
<1>4. ASSUME NEW d \in DOMAIN draft, NEW g \in 0..MaxGaps, WebAmend(d, g)
      PROVE  Seen' = Seen /\ record' = record
  BY <1>1, <1>4, AmendShowsNothing DEF WebAmend
<1>5. ASSUME NEW d \in DOMAIN draft, WebCancel(d) PROVE Promise!Next
  <2>1. Promise!Cancel(d)
    BY <1>1, <1>5, CancelIsCancel
  <2> QED BY <1>1, <2>1 DEF Promise!Next, Seen
<1>6. ASSUME NEW r \in DOMAIN record, WebStrike(r) PROVE Promise!Next
  <2>1. Promise!Strike(r)
    BY <1>6, StruckIs, Unseen DEF WebStrike, Promise!Strike, Seen
  <2> QED BY <2>1 DEF Promise!Next
<1> QED BY <1>2, <1>3, <1>4, <1>5, <1>6 DEF WebStep

LEMMA StepPromises == DraftIInv /\ [DraftNext]_draftVars => [Promise!Next]_<<Seen, record>>
<1> SUFFICES ASSUME DraftIInv, [DraftNext]_draftVars
    PROVE  Promise!Next \/ (Seen' = Seen /\ record' = record)
  OBVIOUS
<1>1. ASSUME NEW m \in Tasks, NEW p \in Phones, NEW isNo \in BOOLEAN, Receive(m, p, isNo)
      PROVE  Seen' = Seen /\ record' = record
  BY <1>1, Unseen DEF Receive
<1>2. ASSUME NEW d \in DOMAIN draft, WindowCloses(d) PROVE Seen' = Seen /\ record' = record
  BY <1>2, Unseen DEF WindowCloses
<1>3. CASE MessagesLost \/ UNCHANGED draftVars
  BY <1>3, Unseen DEF MessagesLost, draftVars
<1> QED BY <1>1, <1>2, <1>3, MessagePromises, WebPromises DEF DraftNext

\* WhatsApp and the web app keep the promise of module Confirmation: whatever they ask,
\* amend or let lapse, a draft is settled once with its record, and undone with its sale.
THEOREM DraftsKeepThePromise == DraftSpec => ImplementsConfirmation
<1>1. DraftIInv /\ [DraftNext]_draftVars
        => [Promise!Next]_<<[d \in DOMAIN draft |-> Shown(draft[d])], record>>
  BY StepPromises DEF Seen
<1> QED BY <1>1, InitPromises, DraftInvariance, PTL DEF DraftSpec, ImplementsConfirmation, Promise!Spec
=============================================================================
