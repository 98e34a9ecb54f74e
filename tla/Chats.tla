------------------------------- MODULE Chats -------------------------------
(***************************************************************************)
(* WhatsApp messages, from the webhook to the log of recent exchanges.  A  *)
(* phone may belong to several businesses, one of which is active: SWITCH  *)
(* changes it, every other message is handled for the business that was    *)
(* active when it was resolved.  Messages are handled concurrently, each   *)
(* in steps that are one database transaction or one call: handlers start  *)
(* with setImmediate and nothing orders them.                              *)
(*                                                                         *)
(* Drafts (the answers to earlier questions) and sales have modules of     *)
(* their own: here an answer or an intent either records something for     *)
(* the resolved business or does not.                                      *)
(***************************************************************************)
EXTENDS Intents

CONSTANTS
  Messages,     \* messages
  Phones,       \* phone numbers
  Bsuids,       \* WhatsApp user ids that hide a phone number
  Businesses,   \* businesses
  Nobody,       \* no phone, no user id or no business
  MaxLog        \* exchanges the log keeps

ASSUME ChatAssumption ==
  /\ Nobody \notin Phones \cup Bsuids \cup Businesses /\ Phones \cap Bsuids = {}
  /\ MaxLog \in Nat \ {0}

VARIABLES
  member,    \* phone -> its businesses (tenant_users), oldest membership first
  active,    \* phone -> the businesses with is_active_context
  phoneOf,   \* user id -> its phone in channel_identities
  linking,   \* links user id -> phone that are still being written
  log,       \* business, phone -> the exchanges of the interaction log
  books,     \* what was recorded: business, phone, message
  task,      \* message -> where its handler is
  shown,      \* ghost: phone -> the business it was last switched to, undisturbed
  history,   \* ghost: the exchanges saved, in order
  alone      \* ghost: exchanges saved that overlapped no other of their sender

database == <<member, active, phoneOf, log, books>>
chatGhosts == <<shown, history, alone>>
chatVars == <<database, linking, task, chatGhosts>>

Ends == {"new", "done"}
Kinds == {"text", "switch", "stop", "start", "signup"}

Job(pc, kind, phone, bsuid, business, seen, due, single) ==
  [pc |-> pc, kind |-> kind, phone |-> phone, bsuid |-> bsuid, business |-> business,
   seen |-> seen, due |-> due, single |-> single]
Unread == Job("new", "text", Nobody, Nobody, Nobody, <<>>, Nobody, TRUE)
Handled == Job("done", "text", Nobody, Nobody, Nobody, <<>>, Nobody, TRUE)

\* Memberships come first from signing up or from a shop that adds staff; none has to
\* be active.
ChatsInit ==
  /\ member \in [Phones -> {<<>>} \cup {<<b>> : b \in Businesses}
                             \cup {s \in Businesses \X Businesses : s[1] # s[2]}]
  /\ active \in [Phones -> SUBSET Businesses]
  /\ \A p \in Phones : active[p] = {} \/ \E i \in DOMAIN member[p] : active[p] = {member[p][i]}
  /\ phoneOf = [u \in Bsuids |-> Nobody]
  /\ linking = {}
  /\ log = [x \in Businesses \X Phones |-> <<>>]
  /\ books = {}
  /\ task = [m \in Messages |-> Unread]
  /\ shown = [p \in Phones |-> Nobody]
  /\ history = <<>>
  /\ alone = {}

ToSet(s) == {s[i] : i \in DOMAIN s}
In(m, pc) == task[m].pc = pc
Moved(m, pc) == [task EXCEPT ![m] = [@ EXCEPT !.pc = pc]]

\* A handler that is about to change the active business of a phone.
Changing(p) == \E m \in Messages : task[m].phone = p /\ task[m].pc \in {"switch", "switching", "fallback", "joined"}

-----------------------------------------------------------------------------
\* The webhook

\* extractChannelIdentity: the sender is a phone or a user id; a user id may come
\* along with a phone.
Identity(from, envelope) ==
  IF from \in Phones THEN [phone |-> from, bsuid |-> envelope] ELSE [phone |-> Nobody, bsuid |-> from]

\* processWebhookPayload.  SWITCH, STOP and START need a phone; START does not pass
\* the user id on.
Receive(m, from, envelope, kind) ==
  LET id == Identity(from, envelope)
      pc == IF kind = "text" \/ id.phone # Nobody THEN (IF kind = "switch" THEN "switch" ELSE "resolve") ELSE "done"
      due == IF kind = "text" /\ id.phone # Nobody /\ ~Changing(id.phone) THEN shown[id.phone] ELSE Nobody
  IN /\ task[m] = Unread /\ kind # "signup"
     /\ task' = [task EXCEPT ![m] =
                   IF pc = "done" THEN Handled
                   ELSE Job(pc, kind, id.phone, IF kind = "start" THEN Nobody ELSE id.bsuid, Nobody, <<>>, due, TRUE)]
     /\ UNCHANGED <<database, linking, chatGhosts>>

-----------------------------------------------------------------------------
\* Which business

\* switchActiveContext, in one transaction: clear all of the phone's, set one.
switchActiveContext(p, b) == active' = [active EXCEPT ![p] = {b}]

\* A change of the active business: whoever was being resolved cannot rely on the old
\* one, and the phone knows the new one unless another change is under way.
Changed(m, p, b) ==
  /\ shown' = [shown EXCEPT ![p] = IF \E n \in Messages \ {m} : task[n].phone = p
                                       /\ task[n].pc \in {"switch", "switching", "fallback", "joined"}
                                 THEN Nobody ELSE b]
  /\ UNCHANGED <<history, alone>>
Unsettled(p, after) ==
  [m \in Messages |-> IF after[m].phone = p /\ after[m].pc \in {"resolve", "again"}
                      THEN [after[m] EXCEPT !.due = Nobody] ELSE after[m]]

\* handleSwitchCommand: a list of the businesses, the one named by its number or name,
\* the active one, or no match.
SwitchRead(m, b) ==
  LET p == task[m].phone
      moves == Len(member[p]) > 1 /\ b \in ToSet(member[p]) \ active[p]
  IN /\ In(m, "switch")
     /\ task' = [task EXCEPT ![m] = IF moves THEN [task[m] EXCEPT !.pc = "switching", !.business = b] ELSE Handled]
     /\ UNCHANGED <<database, linking, chatGhosts>>

SwitchWrite(m) ==
  LET p == task[m].phone
      b == task[m].business
  IN /\ In(m, "switching")
     /\ switchActiveContext(p, b)
     /\ task' = Unsettled(p, [task EXCEPT ![m] = Handled])
     /\ Changed(m, p, b)
     /\ UNCHANGED <<member, phoneOf, log, books, linking>>

\* signup: the membership, then the active business; a failure of the second is logged.
Join(m, p, b) ==
  /\ task[m] = Unread /\ b \notin ToSet(member[p])
  /\ member' = [member EXCEPT ![p] = Append(@, b)]
  /\ task' = [task EXCEPT ![m] = Job("joined", "signup", p, Nobody, b, <<>>, Nobody, TRUE)]
  /\ UNCHANGED <<active, phoneOf, log, books, linking, chatGhosts>>

Joined(m) ==
  /\ In(m, "joined")
  /\ \/ /\ switchActiveContext(task[m].phone, task[m].business)
        /\ task' = Unsettled(task[m].phone, [task EXCEPT ![m] = Handled])
        /\ Changed(m, task[m].phone, task[m].business)
     \/ task' = [task EXCEPT ![m] = Handled] /\ UNCHANGED <<active, chatGhosts>>
  /\ UNCHANGED <<member, phoneOf, log, books, linking>>

\* upsertChannelIdentity, started by a message that showed both and not awaited.
Link(u, p) ==
  /\ <<u, p>> \in linking
  /\ linking' = linking \ {<<u, p>>}
  /\ phoneOf' = [phoneOf EXCEPT ![u] = p]
  /\ UNCHANGED <<member, active, log, books, task, chatGhosts>>

\* findPhoneByBsuid: an unknown user id is asked to sign up.
FindPhone(m) ==
  LET u == task[m].bsuid
  IN /\ In(m, "resolve") /\ task[m].phone = Nobody
     /\ task' = [task EXCEPT ![m] = IF phoneOf[u] = Nobody THEN Handled
                                    ELSE [task[m] EXCEPT !.pc = "found", !.phone = phoneOf[u]]]
     /\ UNCHANGED <<database, linking, chatGhosts>>

\* Mutant: the oldest membership decides.
ChosenFirst(p) == member[p][1]

\* resolveTenant: the only business, the active one, or the first one if none is.
Chosen(p) ==
  IF Len(member[p]) = 1 THEN member[p][1]
  ELSE member[p][CHOOSE i \in DOMAIN member[p] :
                   /\ member[p][i] \in active[p]
                   /\ \A j \in DOMAIN member[p] : member[p][j] \in active[p] => i <= j]
NoneActive(p) == Len(member[p]) > 1 /\ active[p] \cap ToSet(member[p]) = {}

\* What follows the resolution: STOP and START end here, a text is handled.  A text of
\* a phone without a business is resolved once more, by handleIncomingMessage.
After(kind, again) == IF kind # "text" THEN "done" ELSE IF again THEN "context" ELSE "drafts"

Resolve(m) ==
  LET p == task[m].phone
      again == In(m, "again")
  IN /\ task[m].pc \in {"resolve", "found", "again"} /\ p # Nobody
     /\ linking' = IF In(m, "resolve") /\ task[m].bsuid # Nobody /\ phoneOf[task[m].bsuid] # p
                   THEN linking \cup {<<task[m].bsuid, p>>} ELSE linking
     /\ task' = [task EXCEPT ![m] =
                   IF member[p] = <<>>
                   THEN IF In(m, "resolve") /\ task[m].kind = "text" THEN [task[m] EXCEPT !.pc = "again"] ELSE Handled
                   ELSE IF NoneActive(p)
                   THEN [task[m] EXCEPT !.pc = "fallback", !.business = member[p][1], !.single = ~again]
                   ELSE IF task[m].kind # "text" THEN Handled
                   ELSE [task[m] EXCEPT !.pc = After("text", again), !.business = Chosen(p)]]
     /\ UNCHANGED <<database, chatGhosts>>

\* No active business: the first is made the active one.
Fallback(m) ==
  LET p == task[m].phone
      next == After(task[m].kind, ~task[m].single)
  IN /\ In(m, "fallback")
     /\ switchActiveContext(p, task[m].business)
     /\ task' = Unsettled(p, [task EXCEPT ![m] =
                  IF next = "done" THEN Handled ELSE [task[m] EXCEPT !.pc = next, !.single = TRUE]])
     /\ Changed(m, p, task[m].business)
     /\ UNCHANGED <<member, phoneOf, log, books, linking>>

-----------------------------------------------------------------------------
\* What the message does

Record(m) == books' = books \cup {<<task[m].business, task[m].phone, m>>}

\* processIncomingText: an answer to an earlier question is settled by the drafts,
\* which may record what was asked about; anything else is handled as an intent.
Answer(m) ==
  /\ In(m, "drafts")
  /\ \/ task' = [task EXCEPT ![m] = Handled] /\ Record(m)
     \/ task' = [task EXCEPT ![m] = Handled] /\ UNCHANGED books
     \/ task' = Moved(m, "context") /\ UNCHANGED books
  /\ UNCHANGED <<member, active, phoneOf, log, linking, chatGhosts>>

Same(m, n) == task[m].business = task[n].business /\ task[m].phone = task[n].phone
InExchange(m) == task[m].pc \in {"dispatch", "save"}

\* upsertUserContext: the log as it is now; the exchange is saved on top of it.
ReadContext(m) ==
  LET others == {n \in Messages \ {m} : InExchange(n) /\ Same(m, n)}
      x == <<task[m].business, task[m].phone>>
  IN /\ In(m, "context")
     /\ task' = [n \in Messages |->
                   IF n = m THEN [task[m] EXCEPT !.pc = "dispatch", !.seen = log[x], !.single = others = {}]
                   ELSE IF n \in others THEN [task[n] EXCEPT !.single = FALSE] ELSE task[n]]
     /\ UNCHANGED <<database, linking, chatGhosts>>

\* What an intent may come to.
Recording == {"sale", "purchase", "expense", "add_item", "customer_add", "supplier_add"}
Outcomes ==
  {<<p.action, resolveIntent(p, 1, Null)>> : p \in Understood({Line("listed", 1, 1, 1, FALSE)}, {})}
    \cup {<<a, r>> : a \in {"sale", "purchase"}, r \in {"commit", "confirm_default", "clarify"}}
Asked(o) == o[2] \in {"clarify", "reject"} \/ o[1] = "unknown"
Records(o) == ~Asked(o) /\ o[1] \in Recording

\* handleIncomingMessage and the handler of the intent: a question with a draft that
\* waits for the answer, a record, a reply that asks for what is missing, or an error,
\* which is answered as such whether it came before or after the record.
Dispatch(m) ==
  /\ In(m, "dispatch")
  /\ task' = Moved(m, "save")
  /\ \/ (\E o \in Outcomes : Records(o)) /\ Record(m)
     \/ UNCHANGED books
  /\ UNCHANGED <<member, active, phoneOf, log, linking, chatGhosts>>

\* Mutant: room is made for one exchange more than is added.
KeptOneLess(s) == SubSeq(s, Max({1, Len(s) - MaxLog + 2}), Len(s))

\* saveInteractionPair writes the whole log, after the reply and without being awaited.
Kept(s) == SubSeq(s, Max({1, Len(s) - MaxLog + 1}), Len(s))
Save(m) ==
  LET x == <<task[m].business, task[m].phone>>
  IN /\ In(m, "save")
     /\ task' = [task EXCEPT ![m] = Handled]
     /\ \/ /\ log' = [log EXCEPT ![x] = Kept(Append(task[m].seen, m))]
           /\ history' = Append(history, m)
           /\ alone' = IF task[m].single THEN alone \cup {<<x, m>>} ELSE alone
        \/ UNCHANGED <<log, history, alone>>
     /\ UNCHANGED <<member, active, phoneOf, books, linking, shown>>

\* The server stops: what was being handled is lost, the webhook was answered already.
StopServer ==
  /\ \E m \in Messages : task[m].pc \notin Ends
  /\ task' = [m \in Messages |-> IF task[m] = Unread THEN Unread ELSE Handled]
  /\ linking' = {}
  /\ UNCHANGED <<database, chatGhosts>>

ChatsNext ==
  \/ \E m \in Messages :
       \/ \E from \in Phones \cup Bsuids, envelope \in Bsuids \cup {Nobody}, kind \in Kinds :
            Receive(m, from, envelope, kind)
       \/ \E b \in Businesses : SwitchRead(m, b)
       \/ SwitchWrite(m) \/ Joined(m) \/ FindPhone(m) \/ Resolve(m) \/ Fallback(m)
       \/ Answer(m) \/ ReadContext(m) \/ Dispatch(m) \/ Save(m)
       \/ \E p \in Phones, b \in Businesses : Join(m, p, b)
  \/ \E u \in Bsuids, p \in Phones : Link(u, p)
  \/ StopServer

ChatsSpec == ChatsInit /\ [][ChatsNext]_chatVars

-----------------------------------------------------------------------------
\* A text that a phone sends after it was switched to a business, with no other change
\* of its active business under way, is recorded for that business and for no other
\* (resolveTenant, handleSwitchCommand).
FollowsSwitch ==
  [][\A m \in Messages : (In(m, "resolve") /\ task[m].due # Nobody) =>
       task'[m].business \in {Nobody, task[m].due}]_chatVars

\* An exchange that was saved and overlapped no other of its sender is still in the log
\* of recent exchanges, unless so many later ones were saved that the log is full of
\* them (saveInteractionPair).
Position(h, m) == CHOOSE i \in DOMAIN h : h[i] = m
RecentKept ==
  \A a \in alone : a[2] \in ToSet(log[a[1]])
    \/ (Len(log[a[1]]) = MaxLog /\ \A n \in ToSet(log[a[1]]) : Position(history, n) > Position(history, a[2]))

-----------------------------------------------------------------------------
(* The inductive invariants behind them                                    *)

Pcs == {"new", "done", "switch", "switching", "joined", "resolve", "found", "again", "fallback", "drafts",
        "context", "dispatch", "save"}

ChatsTypeOK ==
  /\ member \in [Phones -> Seq(Businesses)] /\ active \in [Phones -> SUBSET Businesses]
  /\ phoneOf \in [Bsuids -> Phones \cup {Nobody}]
  /\ task \in [Messages -> [pc : Pcs, kind : Kinds, phone : Phones \cup {Nobody}, bsuid : Bsuids \cup {Nobody},
                            business : Businesses \cup {Nobody}, seen : Seq(Messages),
                            due : Businesses \cup {Nobody}, single : BOOLEAN]]
  /\ shown \in [Phones -> Businesses \cup {Nobody}]

\* What a handler has found out by now, and what a message that is being resolved is due.
JobIsWhole(job) ==
  /\ job.pc \notin {"new", "done", "resolve"} => job.phone \in Phones
  /\ job.pc \in {"switching", "fallback", "joined"} => job.business \in ToSet(member[job.phone])
  /\ job.pc \in {"drafts", "context", "dispatch", "save"} => job.business \in Businesses
  /\ job.pc = "resolve" =>
       /\ job.business = Nobody
       /\ job.phone = Nobody => job.bsuid \in Bsuids
       /\ job.due # Nobody =>
            job.phone \in Phones /\ active[job.phone] = {job.due} /\ job.due \in ToSet(member[job.phone])

\* The business that a phone knows to be active is.
ShownIsActive ==
  \A p \in Phones : shown[p] # Nobody => active[p] = {shown[p]} /\ shown[p] \in ToSet(member[p])

ContextIInv == ChatsTypeOK /\ (\A m \in Messages : JobIsWhole(task[m])) /\ ShownIsActive

\* Every exchange is saved once, by a handler that is done.
Once(h) == h \in Seq(Messages) /\ \A i, j \in DOMAIN h : h[i] = h[j] => i = j
SavedOnce == Once(history) /\ \A m \in ToSet(history) : In(m, "done")

\* A log, read or stored, holds saved exchanges in their order.
InOrder(h, s) ==
  /\ s \in Seq(Messages) /\ Len(s) <= MaxLog /\ ToSet(s) \subseteq ToSet(h)
  /\ \A i, j \in DOMAIN s : i < j => Position(h, s[i]) < Position(h, s[j])

\* An exchange is in a log, or the log is full of later ones.
Holds(h, s, m) == m \in ToSet(s) \/ (Len(s) = MaxLog /\ \A n \in ToSet(s) : Position(h, n) > Position(h, m))

Sender(m) == <<task[m].business, task[m].phone>>

LogsAreInOrder ==
  /\ log \in [Businesses \X Phones -> Seq(Messages)]
  /\ \A x \in Businesses \X Phones : InOrder(history, log[x])

AloneIsHeld ==
  \A a \in alone : /\ a \in (Businesses \X Phones) \X Messages /\ a[2] \in ToSet(history)
                   /\ Holds(history, log[a[1]], a[2])

\* What a handler has read of the log is good enough to write the log from, unless
\* another of the same sender is at it too.
ReadIsWhole ==
  \A m \in Messages : InExchange(m) =>
    /\ InOrder(history, task[m].seen)
    /\ \A a \in alone : a[1] = Sender(m) => Holds(history, task[m].seen, a[2])
    /\ task[m].single => \A n \in Messages \ {m} : InExchange(n) => ~Same(m, n)

LogIInv == SavedOnce /\ LogsAreInOrder /\ AloneIsHeld /\ ReadIsWhole

ChatsIInv == ContextIInv /\ LogIInv

=============================================================================
