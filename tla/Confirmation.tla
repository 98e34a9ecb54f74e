---------------------------- MODULE Confirmation ----------------------------
(***************************************************************************)
(* What a sender may rely on when a record is confirmed or undone, with no *)
(* messages, channels or questions: an open draft is settled once, and     *)
(* then for ever; to commit it makes its record in the same step; an undo  *)
(* cancels the sale that the draft names, opens one draft for the right    *)
(* one, and names nothing with it; and no record is named by two drafts.   *)
(***************************************************************************)
EXTENDS Naturals, Sequences

CONSTANTS Phones, Actions

VARIABLES
  draft,     \* drafts: whose, of what, open or how settled, and the record it names or 0
  record     \* records: what, whether it stands, and the draft that made it or 0

Draft(p, a, state, r) == [phone |-> p, action |-> a, state |-> state, record |-> r]
Settled(d, state, r) == [draft EXCEPT ![d] = Draft(@.phone, @.action, state, r)]
IsOpen(d) == draft[d].state = "open"
Made(a, d) == record' = Append(record, [action |-> a, live |-> TRUE, draft |-> d])
Struck(r) ==
  /\ record[r].live
  /\ record' = [record EXCEPT ![r] = [action |-> @.action, live |-> FALSE, draft |-> @.draft]]

\* A draft may name a record that was made without one and that no other names.
MayName(r) ==
  r # 0 => /\ r \in DOMAIN record /\ record[r].draft = 0
           /\ \A d \in DOMAIN draft : draft[d].record # r

Init == draft = <<>> /\ record = <<>>

Open(p, a, r) ==
  /\ MayName(r)
  /\ draft' = Append(draft, Draft(p, a, "open", r))
  /\ UNCHANGED record

Commit(d) ==
  /\ IsOpen(d)
  /\ Made(draft[d].action, d)
  /\ draft' = Settled(d, "committed", Len(record) + 1)

Cancel(d) ==
  /\ IsOpen(d)
  /\ draft' = Settled(d, "cancelled", draft[d].record)
  /\ UNCHANGED record

Undo(d) ==
  /\ IsOpen(d)
  /\ draft' = Append(Settled(d, "cancelled", draft[d].record), Draft(draft[d].phone, draft[d].action, "open", 0))
  /\ IF draft[d].action = "sale" THEN draft[d].record # 0 /\ Struck(draft[d].record) ELSE UNCHANGED record

\* A record made without a draft, and a sale cancelled without one.
Make(a) == Made(a, 0) /\ UNCHANGED draft
Strike(r) == record[r].action = "sale" /\ Struck(r) /\ UNCHANGED draft

Next ==
  \/ \E p \in Phones, a \in Actions, r \in 0..Len(record) : Open(p, a, r)
  \/ \E d \in DOMAIN draft : Commit(d) \/ Cancel(d) \/ Undo(d)
  \/ \E a \in Actions : Make(a)
  \/ \E r \in DOMAIN record : Strike(r)

Spec == Init /\ [][Next]_<<draft, record>>
=============================================================================
