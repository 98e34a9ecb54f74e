------------------------------- MODULE Drafts -------------------------------
(***************************************************************************)
(* Conversations about sales and purchases.  A WhatsApp message is handled *)
(* by a task of its own, in one transaction after the other: undo (NO),    *)
(* answer to an open question, and only then a new record, which may need  *)
(* a question first or offer ten minutes to undo it.  The state of the     *)
(* conversation is a draft row; the web app works on the same rows.        *)
(*                                                                         *)
(* A payload is abstracted to the number of values it lacks.  Every step   *)
(* here is one transaction, which locks the row it works on; what runs     *)
(* concurrently are the tasks, between their transactions.                 *)
(***************************************************************************)
EXTENDS Integers, Sequences, FiniteSets

CONSTANTS
  Phones,       \* senders
  Tasks,        \* concurrent messages
  Actions,      \* of "sale", "purchase", "expense"; the last two are treated alike
  MaxDrafts,    \* bound on draft rows, those opened by an undo apart
  MaxDirect,    \* bound on records made without a draft
  MaxGaps       \* bound on the values a payload lacks

ASSUME DraftAssumption ==
  /\ Phones # {} /\ "sale" \in Actions
  /\ MaxDrafts \in Nat /\ MaxDirect \in Nat /\ MaxGaps \in Nat

VARIABLES
  draft,     \* draft rows in the order of created_at
  expired,   \* drafts whose ten minutes to undo are over
  record,    \* sales, purchases and expenses in the order they were made
  undone,    \* <<draft, phone>> for each reply "has been undone"
  struck,    \* sales cancelled from the web
  task       \* message task -> where it is

draftVars == <<draft, expired, record, undone, struck, task>>

States == {"parsed", "pending", "confirmed", "committed", "cancelled"}

DraftTypeOK ==
  /\ draft \in Seq([phone : Phones, action : Actions, state : States, gaps : 0..MaxGaps,
                    record : Nat])
  /\ expired \subseteq 1..Len(draft)
  /\ record \in Seq([action : Actions, live : BOOLEAN, draft : Nat])
  /\ undone \subseteq (1..Len(draft)) \X Phones
  /\ struck \subseteq 1..Len(record)
  /\ task \in [Tasks -> [pc : {"idle", "no", "text", "parse", "track"}, phone : Phones,
                         action : Actions, record : Nat]]
  /\ \A d \in DOMAIN draft : draft[d].record <= Len(record)
  /\ \A r \in DOMAIN record : record[r].draft <= Len(draft)

Row(phone, action, state, gaps, rec) ==
  [phone |-> phone, action |-> action, state |-> state, gaps |-> gaps, record |-> rec]
Message(pc, phone, action, rec) == [pc |-> pc, phone |-> phone, action |-> action, record |-> rec]
Resting == Message("idle", CHOOSE p \in Phones : TRUE, "sale", 0)

DraftInit ==
  /\ draft = <<>>
  /\ expired = {}
  /\ record = <<>>
  /\ undone = {}
  /\ struck = {}
  /\ task = [m \in Tasks |-> Resting]

-----------------------------------------------------------------------------
(* The state machine of a draft                                            *)

\* Mutant: a cancelled draft may be taken up again.
LegalReopens(from, to) ==
  <<from, to>> \in {<<"parsed", "pending">>, <<"parsed", "confirmed">>, <<"parsed", "cancelled">>,
                    <<"pending", "confirmed">>, <<"pending", "cancelled">>,
                    <<"confirmed", "committed">>, <<"confirmed", "cancelled">>,
                    <<"cancelled", "confirmed">>}

Legal(from, to) ==
  <<from, to>> \in {<<"parsed", "pending">>, <<"parsed", "confirmed">>, <<"parsed", "cancelled">>,
                    <<"pending", "confirmed">>, <<"pending", "cancelled">>,
                    <<"confirmed", "committed">>, <<"confirmed", "cancelled">>}

\* updateDraft writes these columns by id; a NULL record is 0.
Changed(d, state, gaps, rec) == Row(draft[d].phone, draft[d].action, state, gaps, rec)
Cancelled(d) == Changed(d, "cancelled", draft[d].gaps, draft[d].record)

\* softDeleteSale: only a sale that is not cancelled yet.
Strike(r) ==
  /\ record[r].live
  /\ record' = [record EXCEPT ![r] = [action |-> record[r].action, live |-> FALSE,
                                     draft |-> record[r].draft]]

Insert(row) ==
  /\ Len(draft) < MaxDrafts
  /\ draft' = Append(draft, row)

\* Mutant: the draft is left confirmed when its record is made.
CommitOpen(d, lacks) ==
  /\ lacks = 0
  /\ draft[d].state = "confirmed" \/ Legal(draft[d].state, "confirmed")
  /\ record' = Append(record, [action |-> draft[d].action, live |-> TRUE, draft |-> d])
  /\ draft' = [draft EXCEPT ![d] = Changed(d, "confirmed", 0, Len(record'))]

\* commitConfirmedDraft, with the step to confirmed before it: the record is made
\* and the draft names it, in one transaction.  A payload that lacks something throws.
Commit(d, lacks) ==
  /\ lacks = 0
  /\ draft[d].state = "confirmed" \/ Legal(draft[d].state, "confirmed")
  /\ record' = Append(record, [action |-> draft[d].action, live |-> TRUE, draft |-> d])
  /\ draft' = [draft EXCEPT ![d] = Changed(d, "committed", 0, Len(record'))]

\* applyClarificationAnswer fills the first gap; one without a gap is a yes.
Answered(gaps) == IF gaps = 0 THEN 0 ELSE gaps - 1

-----------------------------------------------------------------------------
(* Messages                                                                *)

Newest(ds) == {d \in ds : \A e \in ds : e <= d}

\* Mutant: only the newest draft of the phone is looked at.
PendingIfNewest(phone) ==
  LET own == {d \in DOMAIN draft : draft[d].phone = phone} IN
    {d \in Newest(own) : draft[d].state = "pending"}

\* lockPendingDraftForPhone, whatever expires_at is.
PendingOf(phone) == {d \in DOMAIN draft : draft[d].phone = phone /\ draft[d].state = "pending"}

\* lockConfirmedDraftForPhone.
UndoableOf(phone) ==
  {d \in DOMAIN draft : draft[d].phone = phone /\ draft[d].state = "confirmed" /\ d \notin expired}

At(m, pc) == task[m].pc = pc
Rest(m) == task' = [task EXCEPT ![m] = Resting]

\* A message arrives and is acknowledged before it is handled.
Receive(m, phone, isNo) ==
  /\ At(m, "idle")
  /\ task' = [task EXCEPT ![m] = Message(IF isNo THEN "no" ELSE "text", phone, "sale", 0)]
  /\ UNCHANGED <<draft, expired, record, undone, struck>>

\* Mutant: nothing but the draft is reversed.
ReverseNothing(d) == record' = record

\* cancelSaleInTransaction for a draft that names a sale: a sale that is already
\* cancelled throws.  A purchase or an expense is not named and stays.
Reverse(d) ==
  LET r == draft[d].record IN
    IF r # 0 /\ draft[d].action = "sale"
    THEN Strike(r)
    ELSE record' = record

\* Mutant: the correction keeps the id of the record.
CorrectionNamesRecord(d) == Row(draft[d].phone, draft[d].action, "parsed", draft[d].gaps, draft[d].record)

\* The draft opened for the corrected sale has the old payload and no record.
Correction(d) == Row(draft[d].phone, draft[d].action, "parsed", draft[d].gaps, 0)

\* reverseConfirmDefault.
Undo(m) ==
  /\ At(m, "no")
  /\ \E d \in Newest(UndoableOf(task[m].phone)) :
       /\ Legal(draft[d].state, "cancelled")
       /\ Reverse(d)
       /\ draft' = Append([draft EXCEPT ![d] = Cancelled(d)], Correction(d))
       /\ undone' = undone \cup {<<d, task[m].phone>>}
  /\ Rest(m)
  /\ UNCHANGED <<expired, struck>>

\* resolvePendingDraftMessage: the newest open question of the phone takes the message.
AnswerQuestion(m) ==
  /\ At(m, "text")
  /\ \E d \in Newest(PendingOf(task[m].phone)) : Commit(d, Answered(draft[d].gaps))
  /\ Rest(m)
  /\ UNCHANGED <<expired, undone, struck>>

NoQuestion(m) ==
  /\ At(m, "text")
  /\ PendingOf(task[m].phone) = {}
  /\ task' = [task EXCEPT ![m] = Message("parse", task[m].phone, "sale", 0)]
  /\ UNCHANGED <<draft, expired, record, undone, struck>>

\* handleIncomingMessage: the parsed message needs a question.
Clarify(m, action, gaps) ==
  /\ At(m, "parse")
  /\ Insert(Row(task[m].phone, action, "pending", gaps, 0))
  /\ Rest(m)
  /\ UNCHANGED <<expired, record, undone, struck>>

\* It is recorded at once, or the handler of the intent asks for what is missing and
\* records nothing.  Only a sale's id is kept for the draft, which also follows a
\* purchase or an expense that was only asked about; the draft of a sale that was only
\* asked about has the empty text for an id and is refused (MessageEnds).
Dispatch(m, action, confirmDefault, asks) ==
  /\ At(m, "parse")
  /\ asks => confirmDefault /\ action # "sale"
  /\ asks \/ Cardinality({r \in DOMAIN record : record[r].draft = 0}) < MaxDirect
  /\ record' = IF asks THEN record ELSE Append(record, [action |-> action, live |-> TRUE, draft |-> 0])
  /\ IF confirmDefault
     THEN task' = [task EXCEPT ![m] = Message("track", task[m].phone, action,
                                              IF action = "sale" THEN Len(record') ELSE 0)]
     ELSE Rest(m)
  /\ UNCHANGED <<draft, expired, undone, struck>>

\* After confirm_default: the draft that NO finds, in a transaction of its own.
Track(m) ==
  /\ At(m, "track")
  /\ Insert(Row(task[m].phone, task[m].action, "confirmed", 0, task[m].record))
  /\ Rest(m)
  /\ UNCHANGED <<expired, record, undone, struck>>

\* A transaction of the task is rolled back, a payload does not fit, there is
\* nothing to undo, or the message makes neither record nor draft: the sender gets a text.
MessageEnds(m) ==
  /\ ~At(m, "idle")
  /\ Rest(m)
  /\ UNCHANGED <<draft, expired, record, undone, struck>>

\* The process restarts: acknowledged messages are lost.
MessagesLost ==
  /\ task' = [m \in Tasks |-> Resting]
  /\ UNCHANGED <<draft, expired, record, undone, struck>>

\* Ten minutes pass.
WindowCloses(d) ==
  /\ draft[d].state = "confirmed"
  /\ expired' = expired \cup {d}
  /\ UNCHANGED <<draft, record, undone, struck, task>>

-----------------------------------------------------------------------------
(* The web app                                                             *)

WebCreate(phone, action, state, gaps) ==
  /\ Insert(Row(phone, action, state, gaps, 0))
  /\ UNCHANGED <<expired, record, undone, struck, task>>

\* confirmAndCommitDraft with an answer, with a payload of its own or with
\* neither; a question needs one of them.
WebConfirm(d, with) ==
  /\ with = "nothing" => draft[d].state # "pending"
  /\ Commit(d, CASE with = "answer"  -> Answered(draft[d].gaps)
                 [] with = "payload" -> 0
                 [] OTHER            -> draft[d].gaps)
  /\ UNCHANGED <<expired, undone, struck, task>>

WebAmend(d, gaps) ==
  /\ draft[d].state \in {"parsed", "pending"}
  /\ draft' = [draft EXCEPT ![d] = Changed(d, draft[d].state, gaps, draft[d].record)]
  /\ UNCHANGED <<expired, record, undone, struck, task>>

\* cancelDraft: a record the draft names is not touched.
WebCancel(d) ==
  /\ Legal(draft[d].state, "cancelled")
  /\ draft' = [draft EXCEPT ![d] = Cancelled(d)]
  /\ UNCHANGED <<expired, record, undone, struck, task>>

\* cancelSale, from the list of sales.
WebStrike(r) ==
  /\ record[r].action = "sale"
  /\ Strike(r)
  /\ struck' = struck \cup {r}
  /\ UNCHANGED <<draft, expired, undone, task>>

-----------------------------------------------------------------------------
MessageStep(m) ==
  \/ Undo(m)
  \/ AnswerQuestion(m)
  \/ NoQuestion(m)
  \/ \E a \in Actions, g \in 0..MaxGaps : Clarify(m, a, g)
  \/ \E a \in Actions, c, asks \in BOOLEAN : Dispatch(m, a, c, asks)
  \/ Track(m)
  \/ MessageEnds(m)

WebStep ==
  \/ \E p \in Phones, a \in Actions, s \in {"parsed", "pending"}, g \in 0..MaxGaps : WebCreate(p, a, s, g)
  \/ \E d \in DOMAIN draft :
       \/ \E w \in {"answer", "payload", "nothing"} : WebConfirm(d, w)
       \/ \E g \in 0..MaxGaps : WebAmend(d, g)
       \/ WebCancel(d)
  \/ \E r \in DOMAIN record : WebStrike(r)

DraftNext ==
  \/ \E m \in Tasks : \/ \E p \in Phones, isNo \in BOOLEAN : Receive(m, p, isNo)
                      \/ MessageStep(m)
  \/ WebStep
  \/ \E d \in DOMAIN draft : WindowCloses(d)
  \/ MessagesLost

DraftSpec == DraftInit /\ [][DraftNext]_draftVars

Writes(phone)  == \E m \in Tasks : Receive(m, phone, FALSE)
Answers(phone) == \E m \in Tasks : task[m].phone = phone /\ AnswerQuestion(m)

\* The tasks go on, every sender writes again and again, and an answer that fits
\* does not fail for ever.
FairDraftSpec ==
  /\ DraftSpec
  /\ \A m \in Tasks : WF_draftVars(MessageStep(m))
  /\ \A p \in Phones : SF_draftVars(Writes(p)) /\ SF_draftVars(Answers(p))

-----------------------------------------------------------------------------
(* Properties                                                              *)

\* A draft makes one record when it is committed and none before, however the
\* answers, confirmations and undos of both channels interleave and fail.
CommittedOnce ==
  \A d \in DOMAIN draft :
    {r \in DOMAIN record : record[r].draft = d} =
      IF draft[d].state = "committed" THEN {draft[d].record} ELSE {}

\* No record is named by two drafts, so that no sale can be undone twice and
\* none by the draft of another (the correction of reverseConfirmDefault).
OneDraftPerRecord ==
  \A d, e \in DOMAIN draft :
    draft[d].record # 0 /\ draft[d].record = draft[e].record => d = e

\* "has been undone" is said to the sender of the sale and is true: the sale its
\* draft names is cancelled.  And a cancelled sale was undone so or struck on the web.
UndoIsExact ==
  /\ \A u \in undone :
       LET d == u[1] IN
         /\ draft[d].phone = u[2] /\ draft[d].state = "cancelled"
         /\ draft[d].action = "sale" => draft[d].record # 0 /\ ~record[draft[d].record].live
  /\ \A r \in DOMAIN record \ struck :
       ~record[r].live => \E u \in undone : draft[u[1]].record = r

FinalKept ==
  \A d \in DOMAIN draft :
    draft[d].state \in {"committed", "cancelled"} => d \in DOMAIN draft' /\ draft'[d] = draft[d]

\* A committed or cancelled draft never changes again, whichever channel still
\* holds its id ("Committed drafts are immutable", assertMutable).
FinalDrafts == [][FinalKept]_draftVars

\* A question that lacks one value is settled as long as its sender keeps
\* answering (with MaxGaps = 1 these are all questions).
QuestionIsSettled ==
  \A d \in 1..MaxDrafts :
    d \in DOMAIN draft /\ draft[d].state = "pending" ~>
      d \in DOMAIN draft /\ draft[d].state \in {"committed", "cancelled"}

\* The two channels implement what module Confirmation promises: questions, answers,
\* amendments and the time to undo are within an open draft, and each step settles one
\* with all that belongs to it, makes or cancels a record of its own, or shows nothing.
Outcome(state) == IF state \in {"committed", "cancelled"} THEN state ELSE "open"

Shown(row) == [phone |-> row.phone, action |-> row.action, state |-> Outcome(row.state), record |-> row.record]

Promise == INSTANCE Confirmation WITH draft <- [d \in DOMAIN draft |-> Shown(draft[d])]

ImplementsConfirmation == Promise!Spec

-----------------------------------------------------------------------------
(* The inductive invariant behind the safety properties                    *)

\* The draft a task is about to insert names a direct record that no draft and no
\* other task names.
TasksOwn ==
  \A m \in Tasks :
    /\ task[m].record # 0 => At(m, "track")
    /\ At(m, "track") /\ task[m].action = "sale" => task[m].record # 0
    /\ task[m].record # 0 =>
         /\ task[m].record \in DOMAIN record
         /\ record[task[m].record].draft = 0
         /\ \A d \in DOMAIN draft : draft[d].record # task[m].record
         /\ \A n \in Tasks : task[n].record = task[m].record => n = m

\* Only what was recorded is named.
OpenNameNothing ==
  \A d \in DOMAIN draft :
    /\ draft[d].state \in {"parsed", "pending"} => draft[d].record = 0
    /\ draft[d].state = "confirmed" /\ draft[d].action = "sale" => draft[d].record # 0

DraftIInv ==
  /\ DraftTypeOK /\ TasksOwn /\ OpenNameNothing
  /\ CommittedOnce /\ OneDraftPerRecord /\ UndoIsExact
=============================================================================
