-------------------------- MODULE OperationsProofs --------------------------
(***************************************************************************)
(* Proofs about the parts around the sales, which share nothing with one   *)
(* another: Backups, Directory, Aliases, Corpus, Tokens and Migrations,    *)
(* for any number of weeks, operations, businesses, workbooks, calls, runs *)
(* and files.                                                              *)
(***************************************************************************)
EXTENDS Tokens, Migrations, Backups, Directory, Aliases, Corpus, FiniteSetTheorems, WellFoundedInduction, TLAPS

-----------------------------------------------------------------------------
(***************************************************************************)
(* Backups.  A beat is sent on Mondays for an object of the last eight     *)
(* days, and the schedule makes objects on Sundays.                        *)
(***************************************************************************)

\* Hours are a week's Sunday and what has passed of it since.
LEMMA HoursAreSplit ==
  \A x \in Hours : /\ x \in Nat
                   /\ \E w \in Nat, h \in {3, 12, 33, 100} : x = w * 168 + h /\ x % 168 = h
<1> SUFFICES ASSUME NEW x \in Hours
             PROVE  \E w \in Nat, h \in {3, 12, 33, 100} : x \in Nat /\ x = w * 168 + h /\ x % 168 = h
  OBVIOUS
<1>1. PICK w \in 0..(Weeks - 1), h \in {3, 12, 33, 100} : x = w * 168 + h
  BY DEF Hours, HoursOfWeek, WeekLength, Sunday3, Monday9
<1>2. w \in Nat /\ h \in Nat
  BY BackupAssumption, <1>1
<1>3. (w * 168 + h) % 168 = h
  BY <1>1, <1>2
<1> QED
  BY <1>1, <1>2, <1>3

\* An object of the last eight days that the schedule made, seen on a Monday at nine, is
\* from the Sunday before.
LEMMA EightDaysReachOneSunday ==
  ASSUME NEW now \in Hours, now % WeekLength = Monday9, NEW at \in Hours, at <= now,
         at % WeekLength = Sunday3, at >= now - MAX_AGE
  PROVE  at >= SundayOf(now)
<1>1. PICK w \in Nat, h \in {3, 12, 33, 100} : now = w * 168 + h /\ now % 168 = h
  BY HoursAreSplit
<1>2. PICK v \in Nat, g \in {3, 12, 33, 100} : at = v * 168 + g /\ at % 168 = g
  BY HoursAreSplit
<1>3. h = 33 /\ g = 3
  BY <1>1, <1>2 DEF WeekLength, Monday9, Sunday3
<1>4. v * 168 + 3 >= w * 168 + 33 - 192
  BY <1>1, <1>2, <1>3 DEF MAX_AGE
<1>5. v >= w
  BY <1>4
<1>6. SundayOf(now) = w * 168 + 33 - 33 + 3
  BY <1>1, <1>3 DEF SundayOf, WeekLength, Sunday3
<1> QED
  BY <1>2, <1>3, <1>5, <1>6

-----------------------------------------------------------------------------
BackupRecords == [pc : {"idle", "dump", "check", "upload"}, dump : {"none", "whole", "broken"}]

LEMMA BackupsInitially == BackupsInit => BackupsIInv
<1> SUFFICES ASSUME BackupsInit PROVE BackupsIInv
  OBVIOUS
<1>1. hour \in Hours
  <2>1. 0 \in 0..(Weeks - 1) /\ 3 = 0 * 168 + 3
    BY BackupAssumption
  <2> QED
    BY <2>1 DEF BackupsInit, Hours, HoursOfWeek, Sunday3, WeekLength
<1>2. BackupsTypeOK
  BY <1>1 DEF BackupsInit, BackupsTypeOK, Idle
<1>3. ScheduleIsSunday
  BY DEF BackupsInit, ScheduleIsSunday
<1>4. BeatMeansBackup
  BY DEF BackupsInit, BeatMeansBackup, NoBeat
<1> QED
  BY <1>2, <1>3, <1>4 DEF BackupsIInv

\* Objects are never deleted, so what a heartbeat found is still there.
LEMMA ObjectsStay ==
  ASSUME BackupsIInv, objects \subseteq objects', UNCHANGED beat
  PROVE  BeatMeansBackup'
BY DEF BackupsIInv, BeatMeansBackup

\* A step of a backup at an hour at which it may be.
LEMMA BackupMoves ==
  ASSUME BackupsIInv, NEW w \in {"schedule", "hand"}, NEW r \in BackupRecords,
         backup' = [backup EXCEPT ![w] = r], due' \subseteq due,
         w = "schedule" /\ r # Idle => hour % WeekLength = Sunday3,
         UNCHANGED <<hour, objects, beat>>
  PROVE  BackupsIInv'
<1>1. BackupsTypeOK'
  BY DEF BackupsIInv, BackupsTypeOK, BackupRecords
<1>2. \A x \in {"schedule", "hand"} : backup'[x] = IF x = w THEN r ELSE backup[x]
  BY DEF BackupsIInv, BackupsTypeOK
<1>3. ScheduleIsSunday'
  BY <1>2 DEF BackupsIInv, ScheduleIsSunday
<1>4. BeatMeansBackup'
  BY ObjectsStay
<1> QED
  BY <1>1, <1>3, <1>4 DEF BackupsIInv

LEMMA IdleIsARecord == Idle \in BackupRecords /\ Begun \in BackupRecords
BY DEF Idle, Begun, BackupRecords

LEMMA EndKeeps ==
  ASSUME BackupsIInv, NEW w \in {"schedule", "hand"}, NEW result, End(w, result),
         UNCHANGED <<hour, due, objects, beat>>
  PROVE  BackupsIInv'
BY IdleIsARecord, BackupMoves DEF End

LEMMA StartBackupKeeps == ASSUME BackupsIInv, StartBackup PROVE BackupsIInv'
<1>1. PICK r \in BackupRecords : r = IF env = "store" THEN Begun ELSE Idle
  BY IdleIsARecord
<1>2. backup' = [backup EXCEPT !["schedule"] = r] /\ due' \subseteq due /\ UNCHANGED <<hour, objects, beat>>
  BY <1>1 DEF StartBackup
<1>3. hour % WeekLength = Sunday3
  BY DEF StartBackup, BackupsIInv, BackupsTypeOK, Jobs
<1> QED
  BY <1>2, <1>3, BackupMoves

LEMMA RunByHandKeeps == ASSUME BackupsIInv, RunByHand PROVE BackupsIInv'
<1>1. backup' = [backup EXCEPT !["hand"] = Begun] /\ UNCHANGED <<hour, due, objects, beat>>
  BY DEF RunByHand
<1> QED
  BY <1>1, IdleIsARecord, BackupMoves

LEMMA RunPipeKeeps ==
  ASSUME BackupsIInv, NEW w \in {"schedule", "hand"}, RunPipe(w)
  PROVE  BackupsIInv'
<1>1. backup[w].pc = "dump" /\ UNCHANGED <<hour, due, objects, beat>>
  BY DEF RunPipe
<1>2. CASE \E result : End(w, result)
  BY <1>1, <1>2, EndKeeps
<1>3. CASE \E dump \in {"whole", "broken"} : backup' = [backup EXCEPT ![w] = [pc |-> "check", dump |-> dump]]
  <2>1. PICK dump \in {"whole", "broken"} : backup' = [backup EXCEPT ![w] = [pc |-> "check", dump |-> dump]]
    BY <1>3
  <2>2. PICK r \in BackupRecords : r = [pc |-> "check", dump |-> dump]
    BY DEF BackupRecords
  <2>3. backup[w] # Idle
    BY <1>1 DEF Idle
  <2>4. w = "schedule" => hour % WeekLength = Sunday3
    BY <2>3 DEF BackupsIInv, ScheduleIsSunday
  <2> QED
    BY <1>1, <2>1, <2>2, <2>4, BackupMoves
<1> QED
  BY <1>2, <1>3 DEF RunPipe

LEMMA CheckArtifactKeeps ==
  ASSUME BackupsIInv, NEW w \in {"schedule", "hand"}, CheckArtifact(w)
  PROVE  BackupsIInv'
<1>1. backup[w].pc = "check" /\ UNCHANGED <<hour, due, objects, beat>>
  BY DEF CheckArtifact
<1>2. CASE End(w, "alert")
  BY <1>1, <1>2, EndKeeps
<1>3. CASE backup' = [backup EXCEPT ![w] = [@ EXCEPT !.pc = "upload"]]
  <2>1. backup[w] \in BackupRecords
    BY DEF BackupsIInv, BackupsTypeOK, BackupRecords
  <2>2. PICK r \in BackupRecords : r = [backup[w] EXCEPT !.pc = "upload"]
    BY <2>1 DEF BackupRecords
  <2>3. backup' = [backup EXCEPT ![w] = r]
    BY <1>3, <2>2
  <2>4. backup[w] # Idle
    BY <1>1 DEF Idle
  <2>5. w = "schedule" => hour % WeekLength = Sunday3
    BY <2>4 DEF BackupsIInv, ScheduleIsSunday
  <2> QED
    BY <1>1, <2>2, <2>3, <2>5, BackupMoves
<1> QED
  BY <1>2, <1>3 DEF CheckArtifact

LEMMA UploadKeeps ==
  ASSUME BackupsIInv, NEW w \in {"schedule", "hand"}, Upload(w)
  PROVE  BackupsIInv'
<1>1. /\ backup[w].pc = "upload" /\ UNCHANGED <<hour, due, beat>>
      /\ \E result : End(w, result)
      /\ objects' = objects \/ objects' = objects \cup {[who |-> w, at |-> hour]}
  BY DEF Upload
<1>2. hour \in Hours /\ hour \in Nat
  BY HoursAreSplit DEF BackupsIInv, BackupsTypeOK
<1>3. backup[w] # Idle
  BY <1>1 DEF Idle
<1>4. w = "schedule" => hour % WeekLength = Sunday3
  BY <1>3 DEF BackupsIInv, ScheduleIsSunday
<1>5. backup' = [backup EXCEPT ![w] = Idle]
  BY <1>1 DEF End
<1>6. BackupsTypeOK'
  BY <1>1, <1>2, <1>5, IdleIsARecord DEF BackupsIInv, BackupsTypeOK, BackupRecords
<1>7. ScheduleIsSunday'
  <2>1. backup'["schedule"] = Idle \/ backup'["schedule"] = backup["schedule"]
    BY <1>5 DEF BackupsIInv, BackupsTypeOK
  <2>2. \A o \in objects : o.at <= hour /\ (o.who = "schedule" => o.at % WeekLength = Sunday3)
    BY DEF BackupsIInv, ScheduleIsSunday
  <2>3. \A o \in {[who |-> w, at |-> hour]} : o.at <= hour /\ (o.who = "schedule" => o.at % WeekLength = Sunday3)
    BY <1>2, <1>4
  <2>4. \A o \in objects' : o.at <= hour /\ (o.who = "schedule" => o.at % WeekLength = Sunday3)
    BY <1>1, <2>2, <2>3
  <2> QED
    BY <1>1, <2>1, <2>4 DEF BackupsIInv, ScheduleIsSunday
<1>8. BeatMeansBackup'
  BY <1>1, ObjectsStay
<1> QED
  BY <1>6, <1>7, <1>8 DEF BackupsIInv

LEMMA HeartbeatKeeps == ASSUME BackupsIInv, Heartbeat PROVE BackupsIInv'
<1>1. /\ "heartbeat" \in due /\ due' \subseteq due /\ UNCHANGED <<hour, backup, objects>>
  BY DEF Heartbeat
<1>2. BackupsTypeOK' /\ ScheduleIsSunday'
  BY <1>1 DEF BackupsIInv, BackupsTypeOK, ScheduleIsSunday
<1>3. hour \in Hours /\ hour % WeekLength = Monday9
  BY <1>1 DEF BackupsIInv, BackupsTypeOK, Jobs
<1>4. BeatMeansBackup'
  <2> SUFFICES ASSUME beat'.result = "ok"
               PROVE  \E o \in objects : o.at >= SundayOf(beat'.at) \/ (o.who = "hand" /\ o.at >= beat'.at - MAX_AGE)
    BY <1>1 DEF BeatMeansBackup
  <2>1. [NoBeat EXCEPT !.at = hour].result = "none"
    BY DEF NoBeat
  <2>2. PICK read \in SUBSET objects : beat' \in Checked(read)
    BY <2>1 DEF Heartbeat
  <2>3. PICK o \in read : Recent(o, hour) /\ beat'.at = hour
    BY <2>2 DEF Checked
  <2>4. /\ o \in objects /\ o.at \in Hours /\ o.who \in {"schedule", "hand"} /\ o.at <= hour
        /\ o.who = "schedule" => o.at % WeekLength = Sunday3
    BY <2>2, <2>3 DEF BackupsIInv, BackupsTypeOK, ScheduleIsSunday
  <2>5. o.at >= hour - MAX_AGE
    BY <2>3 DEF Recent
  <2>6. CASE o.who = "schedule"
    BY <1>3, <2>3, <2>4, <2>5, <2>6, EightDaysReachOneSunday
  <2>7. CASE o.who = "hand"
    BY <2>3, <2>4, <2>5, <2>7
  <2> QED
    BY <2>4, <2>6, <2>7
<1> QED
  BY <1>2, <1>4 DEF BackupsIInv

LEMMA LaterKeeps == ASSUME BackupsIInv, Later PROVE BackupsIInv'
<1>1. /\ backup["schedule"] = Idle /\ hour' \in Hours /\ hour' > hour /\ due' = Jobs(hour')
      /\ UNCHANGED <<backup, objects, beat>>
  BY DEF Later
<1>2. BackupsTypeOK'
  BY <1>1 DEF BackupsIInv, BackupsTypeOK
<1>3. ScheduleIsSunday'
  <2> SUFFICES ASSUME NEW o \in objects
               PROVE  o.at <= hour' /\ (o.who = "schedule" => o.at % WeekLength = Sunday3)
    BY <1>1 DEF ScheduleIsSunday
  <2>1. o.at \in Nat /\ hour \in Nat /\ hour' \in Nat
    BY <1>1, HoursAreSplit DEF BackupsIInv, BackupsTypeOK
  <2>2. o.at <= hour /\ (o.who = "schedule" => o.at % WeekLength = Sunday3)
    BY DEF BackupsIInv, ScheduleIsSunday
  <2> QED
    BY <1>1, <2>1, <2>2
<1>4. BeatMeansBackup'
  BY <1>1, ObjectsStay
<1> QED
  BY <1>2, <1>3, <1>4 DEF BackupsIInv

-----------------------------------------------------------------------------
LEMMA BackupsSteps == BackupsIInv /\ [BackupsNext]_backupVars => BackupsIInv'
<1> SUFFICES ASSUME BackupsIInv, [BackupsNext]_backupVars PROVE BackupsIInv'
  OBVIOUS
<1>1. CASE UNCHANGED backupVars
  BY <1>1 DEF backupVars, BackupsIInv, BackupsTypeOK, ScheduleIsSunday, BeatMeansBackup
<1>2. CASE StartBackup \/ RunByHand \/ Heartbeat \/ Later
  BY <1>2, StartBackupKeeps, RunByHandKeeps, HeartbeatKeeps, LaterKeeps
<1>3. CASE Killed
  BY <1>3, EndKeeps DEF Killed
<1>4. CASE \E w \in {"schedule", "hand"} : RunPipe(w) \/ CheckArtifact(w) \/ Upload(w)
  BY <1>4, RunPipeKeeps, CheckArtifactKeeps, UploadKeeps
<1> QED
  BY <1>1, <1>2, <1>3, <1>4 DEF BackupsNext

\* The inductive invariant of the backups.
THEOREM BackupsInvariance == BackupsSpec => []BackupsIInv
BY BackupsInitially, BackupsSteps, PTL DEF BackupsSpec

\* For any number of weeks and of backups by hand: a heartbeat that finds all well never
\* takes the backup of the week before for this Sunday's (checkBackupHeartbeat).
THEOREM BeatIsTrue == BackupsSpec => []BeatMeansBackup
<1>1. BackupsIInv => BeatMeansBackup
  BY DEF BackupsIInv
<1> QED
  BY <1>1, BackupsInvariance, PTL

-----------------------------------------------------------------------------
(***************************************************************************)
(* Directory.  A sale is linked once, by a request that is over            *)
(* (LinkedOnce), so a visit more is a link more; and whoever found no row  *)
(* where there is one now was overtaken by the request that made it        *)
(* (MissesAreRaces).                                                       *)
(***************************************************************************)

RowRecords == [kind : RowKinds, key : Keys, live : BOOLEAN, visits : Nat, paid : {0, 1}]
OpRecords == [pc : {"new", "write", "over"}, kind : RowKinds, key : Keys \cup {0},
              sale : BOOLEAN, found : Nat, amount : {0, 1}]

LEMMA RowsAreTyped ==
  ASSUME DirectoryTypeOK
  PROVE  /\ rows \in Seq(RowRecords) /\ Len(rows) \in Nat /\ DOMAIN rows = 1..Len(rows)
         /\ \A i \in DOMAIN rows : rows[i] \in RowRecords
         /\ op \in [Ops -> OpRecords] /\ uncounted \subseteq Ops
<1>1. rows \in Seq(RowRecords)
  BY DEF DirectoryTypeOK, RowRecords
<1>2. Len(rows) \in Nat /\ DOMAIN rows = 1..Len(rows) /\ \A i \in DOMAIN rows : rows[i] \in RowRecords
  BY <1>1
<1>3. op \in [Ops -> OpRecords] /\ uncounted \subseteq Ops
  BY DEF DirectoryTypeOK, OpRecords
<1> QED
  BY <1>1, <1>2, <1>3

LEMMA RestingOps ==
  /\ Quiet \in OpRecords /\ Quiet.pc = "new"
  /\ Ready \in OpRecords /\ Ready.pc = "over"
BY DEF Quiet, Ready, OpRecords, RowKinds

LEMMA AnsweredOps ==
  ASSUME DirectoryTypeOK, NEW o \in Ops, Answered(o)
  PROVE  /\ op'[o] = Ready /\ op' \in [Ops -> OpRecords]
         /\ \A p \in Ops : p # o => op'[p] = op[p]
         /\ \A p \in Ops : op[p].pc = "over" => op'[p].pc = "over"
<1>1. op \in [Ops -> OpRecords] /\ Ready \in OpRecords
  BY RowsAreTyped, RestingOps
<1>2. op'[o] = Ready /\ op' \in [Ops -> OpRecords] /\ \A p \in Ops : p # o => op'[p] = op[p]
  BY <1>1 DEF Answered
<1> QED
  BY <1>2, RestingOps

\* One row is written anew: the ids stay, and so do the other rows.
LEMMA OneRowEdited ==
  ASSUME DirectoryTypeOK, NEW i \in DOMAIN rows, NEW r \in RowRecords, rows' = [rows EXCEPT ![i] = r]
  PROVE  /\ rows' \in Seq(RowRecords) /\ Len(rows') = Len(rows) /\ DOMAIN rows' = DOMAIN rows
         /\ rows'[i] = r /\ \A j \in DOMAIN rows : j # i => rows'[j] = rows[j]
<1>1. rows \in Seq(RowRecords)
  BY RowsAreTyped
<1> QED
  BY <1>1

-----------------------------------------------------------------------------
\* What each part of the invariant needs of a step.

\* A request that ends, while the rows and what they are counted for stay what they were
\* but for the fields named.
LEMMA EndKeepsFound ==
  ASSUME DirectoryIInv, Len(rows') = Len(rows),
         \A p \in Ops : op'[p] = op[p] \/ op'[p].pc = "over"
  PROVE  FoundIsThere'
BY DEF DirectoryIInv, FoundIsThere

LEMMA SameLinks ==
  ASSUME DirectoryIInv, Len(rows') = Len(rows), UNCHANGED <<linked, uncounted>>,
         \A p \in Ops : op[p].pc = "over" => op'[p].pc = "over"
  PROVE  LinkedOnce'
BY DEF DirectoryIInv, LinkedOnce, DirectoryTypeOK

LEMMA SameVisits ==
  ASSUME DirectoryIInv, DOMAIN rows' = DOMAIN rows, UNCHANGED <<linked, uncounted>>,
         \A i \in DOMAIN rows : rows'[i].visits = rows[i].visits
  PROVE  VisitsAddUp'
<1>1. \A i : CountedFor(i)' = CountedFor(i)
  BY DEF CountedFor
<1> QED
  BY <1>1 DEF DirectoryIInv, DirectoryAddsUp, VisitsAddUp

\* A live row of a step was one before, of the same kind and key.
RowsOnlyFade ==
  /\ DOMAIN rows' = DOMAIN rows
  /\ \A i \in DOMAIN rows : rows'[i].live =>
       rows[i].live /\ rows'[i].kind = rows[i].kind /\ rows'[i].key = rows[i].key

LEMMA FadingKeepsDoubles ==
  ASSUME DirectoryIInv, RowsOnlyFade, doubled \subseteq doubled'
  PROVE  DoublesAreRaces'
BY DEF DirectoryIInv, DirectoryAddsUp, DoublesAreRaces, RowsOnlyFade

LEMMA FadingKeepsMisses ==
  ASSUME DirectoryIInv, RowsOnlyFade, doubled \subseteq doubled',
         \A p \in Ops : op'[p] = op[p] \/ op'[p].pc = "over"
  PROVE  MissesAreRaces'
<1> SUFFICES ASSUME NEW p \in Ops, op'[p].pc = "write", op'[p].found = 0, op'[p].kind # "item",
                    NEW i \in DOMAIN rows', rows'[i].kind = op'[p].kind, rows'[i].key = op'[p].key,
                    rows'[i].live
             PROVE  <<op'[p].kind, op'[p].key>> \in doubled'
  BY DEF MissesAreRaces
<1>1. op'[p] = op[p]
  OBVIOUS
<1>2. i \in DOMAIN rows /\ rows[i].live /\ rows'[i].kind = rows[i].kind /\ rows'[i].key = rows[i].key
  BY DEF RowsOnlyFade
<1>3. <<op[p].kind, op[p].key>> \in doubled
  BY <1>1, <1>2 DEF DirectoryIInv, MissesAreRaces
<1> QED
  BY <1>1, <1>3

-----------------------------------------------------------------------------
LEMMA DirectoryInitially == DirectoryInit => DirectoryIInv
<1> SUFFICES ASSUME DirectoryInit PROVE DirectoryIInv
  OBVIOUS
<1>1. rows = <<>> /\ op = [o \in Ops |-> Quiet] /\ linked = {} /\ uncounted = {}
  BY DEF DirectoryInit
<1>2. rows \in Seq(RowRecords) /\ op \in [Ops -> OpRecords] /\ DOMAIN rows = {} /\ Len(rows) = 0
  BY <1>1, RestingOps
<1>3. DirectoryTypeOK
  BY <1>1, <1>2 DEF DirectoryTypeOK, RowRecords, OpRecords
<1>4. \A o \in Ops : op[o].pc = "new"
  BY <1>1, RestingOps
<1>5. FoundIsThere /\ MissesAreRaces
  BY <1>4 DEF FoundIsThere, MissesAreRaces
<1>6. LinkedOnce
  BY <1>1, FS_EmptySet DEF LinkedOnce
<1>7. DirectoryAddsUp
  BY <1>2 DEF DirectoryAddsUp, VisitsAddUp, DoublesAreRaces
<1> QED
  BY <1>3, <1>5, <1>6, <1>7 DEF DirectoryIInv

LEMMA DirectoryUnmoved ==
  ASSUME DirectoryIInv, UNCHANGED <<rows, op, linked, uncounted, doubled>>
  PROVE  DirectoryIInv'
BY DEF DirectoryIInv, DirectoryTypeOK, FoundIsThere, LinkedOnce, MissesAreRaces, DirectoryAddsUp,
       VisitsAddUp, DoublesAreRaces, CountedFor

\* A request that does nothing more.
LEMMA OnlyAnsweredKeeps ==
  ASSUME DirectoryIInv, NEW o \in Ops, Answered(o), UNCHANGED <<rows, linked, uncounted, doubled>>
  PROVE  DirectoryIInv'
<1>1. /\ op'[o] = Ready /\ op' \in [Ops -> OpRecords]
      /\ \A p \in Ops : p # o => op'[p] = op[p]
      /\ \A p \in Ops : op[p].pc = "over" => op'[p].pc = "over"
  BY AnsweredOps DEF DirectoryIInv
<1>2. \A p \in Ops : op'[p] = op[p] \/ op'[p].pc = "over"
  BY <1>1, RestingOps
<1>3. RowsOnlyFade
  BY DEF RowsOnlyFade
<1>4. DirectoryTypeOK'
  BY <1>1 DEF DirectoryIInv, DirectoryTypeOK, OpRecords
<1>5. FoundIsThere' /\ LinkedOnce' /\ MissesAreRaces'
  BY <1>1, <1>2, <1>3, EndKeepsFound, SameLinks, FadingKeepsMisses
<1>6. VisitsAddUp' /\ DoublesAreRaces'
  BY <1>3, SameVisits, FadingKeepsDoubles
<1> QED
  BY <1>4, <1>5, <1>6 DEF DirectoryIInv, DirectoryAddsUp

LEMMA FindKeeps ==
  ASSUME DirectoryIInv, NEW o \in Ops, NEW kind \in RowKinds, NEW key \in Keys, NEW sale \in BOOLEAN,
         NEW amount \in {0, 1}, Find(o, kind, key, sale, amount)
  PROVE  DirectoryIInv'
<1>1. PICK i \in Lookup(kind, key) :
        op' = [op EXCEPT ![o] = [pc |-> "write", kind |-> kind, key |-> key, sale |-> sale,
                                 found |-> i, amount |-> amount]]
  BY DEF Find
<1>2. op[o] = Quiet /\ UNCHANGED <<rows, linked, uncounted, doubled>>
  BY DEF Find
<1>3. /\ op \in [Ops -> OpRecords] /\ Len(rows) \in Nat /\ DOMAIN rows = 1..Len(rows)
  BY RowsAreTyped DEF DirectoryIInv
<1>4. i \in 0..Len(rows)
  BY <1>1, <1>3 DEF Lookup, Matching
<1>5. PICK r : r = [pc |-> "write", kind |-> kind, key |-> key, sale |-> sale, found |-> i,
                    amount |-> amount]
  OBVIOUS
<1>6. r \in OpRecords
  BY <1>3, <1>4, <1>5 DEF OpRecords
<1>7. op'[o] = r /\ op' \in [Ops -> OpRecords] /\ \A p \in Ops : p # o => op'[p] = op[p]
  BY <1>1, <1>3, <1>5, <1>6
<1>8. \A p \in Ops : op[p].pc = "over" => op'[p].pc = "over"
  BY <1>2, <1>7, RestingOps
<1>9. DirectoryTypeOK'
  BY <1>2, <1>7 DEF DirectoryIInv, DirectoryTypeOK, OpRecords
<1>10. FoundIsThere'
  BY <1>2, <1>4, <1>5, <1>7 DEF DirectoryIInv, FoundIsThere
<1>11. LinkedOnce'
  BY <1>2, <1>8, SameLinks
<1>12. MissesAreRaces'
  <2> SUFFICES ASSUME NEW p \in Ops, op'[p].pc = "write", op'[p].found = 0, op'[p].kind # "item",
                      NEW j \in DOMAIN rows, rows[j].kind = op'[p].kind, rows[j].key = op'[p].key,
                      rows[j].live
               PROVE  <<op'[p].kind, op'[p].key>> \in doubled
    BY <1>2 DEF MissesAreRaces
  <2>1. CASE p # o
    BY <1>7, <2>1 DEF DirectoryIInv, MissesAreRaces
  <2>2. CASE p = o
    <3>1. i = 0 /\ kind # "item" /\ rows[j].kind = kind /\ rows[j].key = key
      BY <1>5, <1>7, <2>2
    <3>2. j \in Matching(kind, key)
      BY <3>1 DEF Matching
    <3>3. i \in Matching(kind, key)
      BY <1>1, <3>1, <3>2 DEF Lookup
    <3> QED
      BY <1>3, <3>1, <3>3 DEF Matching
  <2> QED
    BY <2>1, <2>2
<1>13. VisitsAddUp' /\ DoublesAreRaces'
  BY <1>2, SameVisits, FadingKeepsDoubles DEF RowsOnlyFade
<1> QED
  BY <1>9, <1>10, <1>11, <1>12, <1>13 DEF DirectoryIInv, DirectoryAddsUp

-----------------------------------------------------------------------------
\* A row is created

LEMMA CreateRowKeeps ==
  ASSUME DirectoryIInv, NEW o \in Ops, CreateRow(o)
  PROVE  DirectoryIInv'
<1>1. /\ rows \in Seq(RowRecords) /\ Len(rows) \in Nat /\ DOMAIN rows = 1..Len(rows)
      /\ \A i \in DOMAIN rows : rows[i] \in RowRecords
      /\ op \in [Ops -> OpRecords] /\ uncounted \subseteq Ops
  BY RowsAreTyped DEF DirectoryIInv
<1>2. op[o].pc = "write" /\ op[o].found = 0 /\ Answered(o)
  BY DEF CreateRow
<1>3. op[o] \in OpRecords /\ op[o].key \in Keys
  BY <1>1, <1>2 DEF DirectoryIInv, FoundIsThere
<1>4. PICK r : r = Row(op[o].kind, op[o].key, op[o].amount)
  OBVIOUS
<1>5. r \in RowRecords /\ r.kind = op[o].kind /\ r.key = op[o].key /\ r.live /\ r.visits = 0
  BY <1>3, <1>4 DEF Row, RowRecords, OpRecords
<1>6. rows' = Append(rows, r)
  BY <1>4 DEF CreateRow
<1>7. PICK n \in Nat : n = Len(rows) + 1
  BY <1>1
<1>8. /\ rows' \in Seq(RowRecords) /\ Len(rows') = n /\ DOMAIN rows' = 1..n
      /\ DOMAIN rows' = DOMAIN rows \cup {n} /\ n \notin DOMAIN rows
      /\ rows'[n] = r /\ \A i \in DOMAIN rows : rows'[i] = rows[i]
  BY <1>1, <1>5, <1>6, <1>7
<1>9. /\ op'[o] = Ready /\ op' \in [Ops -> OpRecords]
      /\ \A p \in Ops : p # o => op'[p] = op[p]
      /\ \A p \in Ops : op[p].pc = "over" => op'[p].pc = "over"
  BY <1>2, AnsweredOps DEF DirectoryIInv
<1>10. op'[o].pc = "over"
  BY <1>9, RestingOps
<1>11. \/ linked' = linked \cup {<<o, n>>} /\ uncounted' = uncounted \cup {o}
       \/ linked' = linked /\ uncounted' = uncounted
  BY <1>7 DEF CreateRow
<1>12. doubled' = doubled \cup Racing(o)
  BY DEF CreateRow
<1>13. IsFiniteSet(linked) /\ \A s \in linked : s \in Ops \X (1..Len(rows)) /\ op[s[1]].pc = "over"
  BY DEF DirectoryIInv, LinkedOnce
<1>14. DirectoryTypeOK'
  BY <1>1, <1>8, <1>9, <1>11 DEF DirectoryTypeOK, RowRecords, OpRecords
<1>15. FoundIsThere'
  <2>1. \A p \in Ops : op'[p].pc = "write" => op'[p].key \in Keys /\ op'[p].found \in 0..Len(rows)
    BY <1>9, <1>10 DEF DirectoryIInv, FoundIsThere
  <2> QED
    BY <1>1, <1>7, <1>8, <2>1 DEF FoundIsThere
<1>16. LinkedOnce'
  <2>1. IsFiniteSet(linked')
    <3>1. IsFiniteSet(linked \cup {<<o, n>>})
      BY <1>13, FS_AddElement
    <3> QED
      BY <1>11, <1>13, <3>1
  <2>2. 1..Len(rows) \subseteq 1..n /\ n \in 1..n
    BY <1>1, <1>7
  <2>3. \A s \in linked' : s \in Ops \X (1..n) /\ op'[s[1]].pc = "over"
    <3> SUFFICES ASSUME NEW s \in linked' PROVE s \in Ops \X (1..n) /\ op'[s[1]].pc = "over"
      OBVIOUS
    <3>1. CASE s \in linked
      <4>1. s \in Ops \X (1..Len(rows)) /\ op[s[1]].pc = "over"
        BY <1>13, <3>1
      <4> QED
        BY <1>9, <2>2, <4>1
    <3>2. CASE s = <<o, n>>
      BY <1>10, <2>2, <3>2
    <3> QED
      BY <1>11, <3>1, <3>2
  <2>4. \A q \in uncounted' : op'[q].pc = "over"
    BY <1>1, <1>9, <1>10, <1>11 DEF DirectoryIInv, LinkedOnce
  <2> QED
    BY <1>8, <2>1, <2>3, <2>4 DEF LinkedOnce
<1>17. MissesAreRaces'
  <2> SUFFICES ASSUME NEW p \in Ops, op'[p].pc = "write", op'[p].found = 0, op'[p].kind # "item",
                      NEW j \in DOMAIN rows', rows'[j].kind = op'[p].kind, rows'[j].key = op'[p].key,
                      rows'[j].live
               PROVE  <<op'[p].kind, op'[p].key>> \in doubled'
    BY DEF MissesAreRaces
  <2>1. p # o /\ op'[p] = op[p]
    BY <1>9, <1>10
  <2>2. CASE j \in DOMAIN rows
    <3>1. rows'[j] = rows[j]
      BY <1>8, <2>2
    <3>2. <<op[p].kind, op[p].key>> \in doubled
      BY <2>1, <2>2, <3>1 DEF DirectoryIInv, MissesAreRaces
    <3> QED
      BY <1>12, <2>1, <3>2
  <2>3. CASE j = n
    <3>1. op[p].kind = op[o].kind /\ op[p].key = op[o].key
      BY <1>5, <1>8, <2>1, <2>3
    <3>2. <<op[p].kind, op[p].key>> \in Racing(o)
      BY <2>1, <3>1 DEF Racing
    <3> QED
      BY <1>12, <2>1, <3>2
  <2> QED
    BY <1>8, <2>2, <2>3
<1>18. DoublesAreRaces'
  <2>1. \A i \in DOMAIN rows : (rows[i].live /\ rows[i].kind = r.kind /\ rows[i].key = r.key)
          => (r.kind = "item" \/ <<r.kind, r.key>> \in doubled)
    BY <1>2, <1>5 DEF DirectoryIInv, MissesAreRaces
  <2> SUFFICES ASSUME NEW i \in DOMAIN rows', NEW j \in DOMAIN rows', i # j, rows'[i].live, rows'[j].live,
                      rows'[i].kind = rows'[j].kind, rows'[i].key = rows'[j].key
               PROVE  rows'[i].kind = "item" \/ <<rows'[i].kind, rows'[i].key>> \in doubled
    BY <1>12 DEF DoublesAreRaces
  <2>2. CASE i \in DOMAIN rows /\ j \in DOMAIN rows
    BY <1>8, <2>2 DEF DirectoryIInv, DirectoryAddsUp, DoublesAreRaces
  <2>3. CASE i = n /\ j \in DOMAIN rows
    BY <1>8, <2>1, <2>3
  <2>4. CASE j = n /\ i \in DOMAIN rows
    BY <1>8, <2>1, <2>4
  <2> QED
    BY <1>8, <2>2, <2>3, <2>4
<1>19. VisitsAddUp'
  <2>1. \A i \in DOMAIN rows : CountedFor(i)' = CountedFor(i)
    <3> SUFFICES ASSUME NEW i \in DOMAIN rows PROVE CountedFor(i)' = CountedFor(i)
      OBVIOUS
    <3>1. i # n
      BY <1>8
    <3>2. \A s \in linked : s[1] # o
      BY <1>2, <1>13
    <3>3. <<o, n>>[2] = n
      OBVIOUS
    <3> QED
      BY <1>11, <3>1, <3>2, <3>3 DEF CountedFor
  <2>2. CountedFor(n)' = {}
    <3>1. \A s \in linked : s[2] # n
      BY <1>1, <1>7, <1>13
    <3>2. <<o, n>>[1] = o
      OBVIOUS
    <3> QED
      BY <1>11, <3>1, <3>2 DEF CountedFor
  <2>3. Cardinality({}) = 0
    BY FS_EmptySet
  <2>4. \A i \in DOMAIN rows : rows'[i].visits = Cardinality(CountedFor(i)')
    BY <1>8, <2>1 DEF DirectoryIInv, DirectoryAddsUp, VisitsAddUp
  <2>5. rows'[n].visits = Cardinality(CountedFor(n)')
    BY <1>5, <1>8, <2>2, <2>3
  <2> QED
    BY <1>8, <2>4, <2>5 DEF VisitsAddUp
<1> QED
  BY <1>14, <1>15, <1>16, <1>17, <1>18, <1>19 DEF DirectoryIInv, DirectoryAddsUp

-----------------------------------------------------------------------------
\* A row that was found is written

LEMMA FoundIsARow ==
  ASSUME DirectoryIInv, NEW o \in Ops, op[o].pc = "write", op[o].found # 0
  PROVE  op[o].found \in DOMAIN rows
<1>1. op[o].found \in 0..Len(rows) /\ Len(rows) \in Nat /\ DOMAIN rows = 1..Len(rows)
  BY RowsAreTyped DEF DirectoryIInv, FoundIsThere
<1> QED
  BY <1>1

LEMMA VisitKeeps ==
  ASSUME DirectoryIInv, NEW o \in Ops, Visit(o)
  PROVE  DirectoryIInv'
<1>1. PICK i \in DOMAIN rows : i = op[o].found
  BY FoundIsARow DEF Visit
<1>2. /\ rows \in Seq(RowRecords) /\ Len(rows) \in Nat /\ DOMAIN rows = 1..Len(rows)
      /\ rows[i] \in RowRecords
      /\ op \in [Ops -> OpRecords] /\ uncounted \subseteq Ops
  BY RowsAreTyped DEF DirectoryIInv
<1>3. PICK r : r = Visited(o, rows[i])
  OBVIOUS
<1>4. /\ r \in RowRecords /\ r.kind = rows[i].kind /\ r.key = rows[i].key /\ r.live = rows[i].live
      /\ r.visits = IF rows[i].live THEN rows[i].visits + 1 ELSE rows[i].visits
  <2>1. rows[i].visits \in Nat /\ rows[i].live \in BOOLEAN
    BY <1>2 DEF RowRecords
  <2>2. r = [rows[i] EXCEPT !.visits = IF rows[i].live THEN rows[i].visits + 1 ELSE rows[i].visits]
    BY <1>2, <1>3 DEF Visited, RowRecords
  <2>3. PICK n \in Nat : n = IF rows[i].live THEN rows[i].visits + 1 ELSE rows[i].visits
    BY <2>1
  <2> QED
    BY <1>2, <2>2, <2>3 DEF RowRecords
<1>5. /\ rows' = [rows EXCEPT ![i] = r] /\ op[o].pc = "write" /\ Answered(o)
      /\ linked' = linked \cup {<<o, i>>}
      /\ uncounted' = IF rows[i].live THEN uncounted ELSE uncounted \cup {o}
      /\ doubled' = doubled
  BY <1>1, <1>3 DEF Visit
<1>6. /\ rows' \in Seq(RowRecords) /\ Len(rows') = Len(rows) /\ DOMAIN rows' = DOMAIN rows
      /\ rows'[i] = r /\ \A j \in DOMAIN rows : j # i => rows'[j] = rows[j]
  BY <1>4, <1>5, OneRowEdited DEF DirectoryIInv
<1>7. /\ op'[o] = Ready /\ op' \in [Ops -> OpRecords]
      /\ \A p \in Ops : p # o => op'[p] = op[p]
      /\ \A p \in Ops : op[p].pc = "over" => op'[p].pc = "over"
  BY <1>5, AnsweredOps DEF DirectoryIInv
<1>8. \A p \in Ops : op'[p] = op[p] \/ op'[p].pc = "over"
  BY <1>7, RestingOps
<1>9. RowsOnlyFade
  BY <1>4, <1>6 DEF RowsOnlyFade
<1>10. IsFiniteSet(linked) /\ \A s \in linked : s \in Ops \X (1..Len(rows)) /\ op[s[1]].pc = "over"
  BY DEF DirectoryIInv, LinkedOnce
<1>11. DirectoryTypeOK'
  BY <1>2, <1>5, <1>6, <1>7 DEF DirectoryTypeOK, RowRecords, OpRecords
<1>12. FoundIsThere' /\ MissesAreRaces' /\ DoublesAreRaces'
  BY <1>5, <1>6, <1>8, <1>9, EndKeepsFound, FadingKeepsMisses, FadingKeepsDoubles
<1>13. LinkedOnce'
  <2>1. IsFiniteSet(linked')
    BY <1>5, <1>10, FS_AddElement
  <2>2. \A s \in linked : s \in Ops \X (1..Len(rows)) /\ op'[s[1]].pc = "over"
    BY <1>7, <1>10
  <2>3. <<o, i>> \in Ops \X (1..Len(rows)) /\ op'[<<o, i>>[1]].pc = "over"
    BY <1>2, <1>7, RestingOps
  <2>4. \A q \in uncounted' : op'[q].pc = "over"
    BY <1>2, <1>5, <1>7, RestingOps DEF DirectoryIInv, LinkedOnce
  <2> QED
    BY <1>5, <1>6, <2>1, <2>2, <2>3, <2>4 DEF LinkedOnce
<1>14. VisitsAddUp'
  <2>1. \A s \in linked : s[1] # o
    BY <1>5, <1>10
  <2>2. \A j \in DOMAIN rows : j # i => CountedFor(j)' = CountedFor(j)
    BY <1>5, <2>1 DEF CountedFor
  <2>3. \A j \in DOMAIN rows : rows[j].visits = Cardinality(CountedFor(j))
    BY DEF DirectoryIInv, DirectoryAddsUp, VisitsAddUp
  <2>4. CASE ~rows[i].live
    <3>1. CountedFor(i)' = CountedFor(i)
      BY <1>5, <2>1, <2>4 DEF CountedFor
    <3>2. \A j \in DOMAIN rows : rows'[j].visits = Cardinality(CountedFor(j)')
      BY <1>4, <1>6, <2>2, <2>3, <2>4, <3>1
    <3> QED
      BY <1>6, <3>2 DEF VisitsAddUp
  <2>5. CASE rows[i].live
    <3>1. o \notin uncounted
      BY <1>5 DEF DirectoryIInv, LinkedOnce
    <3>2. CountedFor(i)' = CountedFor(i) \cup {<<o, i>>}
      BY <1>5, <2>5, <3>1 DEF CountedFor
    <3>3. <<o, i>> \notin CountedFor(i)
      BY <2>1 DEF CountedFor
    <3>4. IsFiniteSet(CountedFor(i))
      BY <1>10, FS_Subset DEF CountedFor
    <3>5. Cardinality(CountedFor(i)') = Cardinality(CountedFor(i)) + 1
      BY <3>2, <3>3, <3>4, FS_AddElement
    <3>6. \A j \in DOMAIN rows : rows'[j].visits = Cardinality(CountedFor(j)')
      BY <1>4, <1>6, <2>2, <2>3, <2>5, <3>5
    <3> QED
      BY <1>6, <3>6 DEF VisitsAddUp
  <2> QED
    BY <2>4, <2>5
<1> QED
  BY <1>11, <1>12, <1>13, <1>14 DEF DirectoryIInv, DirectoryAddsUp

LEMMA PayExpenseKeeps ==
  ASSUME DirectoryIInv, NEW o \in Ops, PayExpense(o)
  PROVE  DirectoryIInv'
<1>1. PICK i \in DOMAIN rows : i = op[o].found
  BY FoundIsARow DEF PayExpense
<1>2. rows[i] \in RowRecords /\ op[o] \in OpRecords
  BY RowsAreTyped DEF DirectoryIInv
<1>3. PICK r : r = [rows[i] EXCEPT !.paid = op[o].amount]
  OBVIOUS
<1>4. /\ r \in RowRecords /\ r.kind = rows[i].kind /\ r.key = rows[i].key /\ r.live = rows[i].live
      /\ r.visits = rows[i].visits
  BY <1>2, <1>3 DEF RowRecords, OpRecords
<1>5. /\ rows' = [rows EXCEPT ![i] = r] /\ Answered(o)
      /\ UNCHANGED <<linked, uncounted, doubled>>
  BY <1>1, <1>3 DEF PayExpense
<1>6. /\ rows' \in Seq(RowRecords) /\ Len(rows') = Len(rows) /\ DOMAIN rows' = DOMAIN rows
      /\ rows'[i] = r /\ \A j \in DOMAIN rows : j # i => rows'[j] = rows[j]
  BY <1>4, <1>5, OneRowEdited DEF DirectoryIInv
<1>7. /\ op'[o] = Ready /\ op' \in [Ops -> OpRecords]
      /\ \A p \in Ops : p # o => op'[p] = op[p]
      /\ \A p \in Ops : op[p].pc = "over" => op'[p].pc = "over"
  BY <1>5, AnsweredOps DEF DirectoryIInv
<1>8. \A p \in Ops : op'[p] = op[p] \/ op'[p].pc = "over"
  BY <1>7, RestingOps
<1>9. RowsOnlyFade
  BY <1>4, <1>6 DEF RowsOnlyFade
<1>10. DirectoryTypeOK'
  BY <1>5, <1>6, <1>7 DEF DirectoryIInv, DirectoryTypeOK, RowRecords, OpRecords
<1>11. FoundIsThere' /\ LinkedOnce' /\ MissesAreRaces'
  BY <1>5, <1>6, <1>7, <1>8, <1>9, EndKeepsFound, SameLinks, FadingKeepsMisses
<1>12. VisitsAddUp' /\ DoublesAreRaces'
  BY <1>4, <1>5, <1>6, <1>9, SameVisits, FadingKeepsDoubles
<1> QED
  BY <1>10, <1>11, <1>12 DEF DirectoryIInv, DirectoryAddsUp

-----------------------------------------------------------------------------
\* Edits and removals

\* A row is written without a request.
LEMMA EditedRow ==
  ASSUME DirectoryIInv, NEW i \in DOMAIN rows, NEW r \in RowRecords, rows' = [rows EXCEPT ![i] = r],
         r.visits = rows[i].visits, UNCHANGED <<op, linked, uncounted>>
  PROVE  DirectoryTypeOK' /\ FoundIsThere' /\ LinkedOnce' /\ VisitsAddUp'
<1>1. /\ rows' \in Seq(RowRecords) /\ Len(rows') = Len(rows) /\ DOMAIN rows' = DOMAIN rows
      /\ rows'[i] = r /\ \A j \in DOMAIN rows : j # i => rows'[j] = rows[j]
  BY OneRowEdited DEF DirectoryIInv
<1>2. DirectoryTypeOK'
  BY <1>1 DEF DirectoryIInv, DirectoryTypeOK, RowRecords
<1> QED
  BY <1>1, <1>2, EndKeepsFound, SameLinks, SameVisits

LEMMA RemoveCustomerKeeps ==
  ASSUME DirectoryIInv, NEW i, RemoveCustomer(i)
  PROVE  DirectoryIInv'
<1>1. i \in DOMAIN rows /\ UNCHANGED <<op, linked, uncounted, doubled>>
  BY DEF RemoveCustomer
<1>2. rows[i] \in RowRecords
  BY <1>1, RowsAreTyped DEF DirectoryIInv
<1>3. PICK r : r = [rows[i] EXCEPT !.live = FALSE]
  OBVIOUS
<1>4. /\ r \in RowRecords /\ r.kind = rows[i].kind /\ r.key = rows[i].key /\ ~r.live
      /\ r.visits = rows[i].visits
  BY <1>2, <1>3 DEF RowRecords
<1>5. rows' = [rows EXCEPT ![i] = r]
  BY <1>3 DEF RemoveCustomer
<1>6. DirectoryTypeOK' /\ FoundIsThere' /\ LinkedOnce' /\ VisitsAddUp'
  BY <1>1, <1>4, <1>5, EditedRow
<1>7. RowsOnlyFade
  <2>1. /\ DOMAIN rows' = DOMAIN rows
        /\ rows'[i] = r /\ \A j \in DOMAIN rows : j # i => rows'[j] = rows[j]
    BY <1>1, <1>4, <1>5, OneRowEdited DEF DirectoryIInv
  <2> QED
    BY <1>4, <2>1 DEF RowsOnlyFade
<1>8. MissesAreRaces' /\ DoublesAreRaces'
  BY <1>1, <1>7, FadingKeepsMisses, FadingKeepsDoubles
<1> QED
  BY <1>6, <1>8 DEF DirectoryIInv, DirectoryAddsUp

LEMMA EditKeyKeeps ==
  ASSUME DirectoryIInv, NEW i, NEW key \in Keys, EditKey(i, key)
  PROVE  DirectoryIInv'
<1>1. /\ i \in DOMAIN rows /\ UNCHANGED <<op, linked, uncounted>>
      /\ doubled' = doubled \cup {<<rows[i].kind, key>>}
  BY DEF EditKey
<1>2. rows[i] \in RowRecords
  BY <1>1, RowsAreTyped DEF DirectoryIInv
<1>3. PICK r : r = [rows[i] EXCEPT !.key = key]
  OBVIOUS
<1>4. /\ r \in RowRecords /\ r.kind = rows[i].kind /\ r.key = key
      /\ r.visits = rows[i].visits
  BY <1>2, <1>3 DEF RowRecords
<1>5. rows' = [rows EXCEPT ![i] = r]
  BY <1>3 DEF EditKey
<1>6. DirectoryTypeOK' /\ FoundIsThere' /\ LinkedOnce' /\ VisitsAddUp'
  BY <1>1, <1>4, <1>5, EditedRow
<1>7. /\ DOMAIN rows' = DOMAIN rows
      /\ rows'[i] = r /\ \A j \in DOMAIN rows : j # i => rows'[j] = rows[j]
  BY <1>1, <1>4, <1>5, OneRowEdited DEF DirectoryIInv
<1>8. <<r.kind, r.key>> \in doubled' /\ doubled \subseteq doubled'
  BY <1>1, <1>4
<1>9. DoublesAreRaces'
  <2> SUFFICES ASSUME NEW j \in DOMAIN rows, NEW k \in DOMAIN rows, j # k, rows'[j].live, rows'[k].live,
                      rows'[j].kind = rows'[k].kind, rows'[j].key = rows'[k].key
               PROVE  rows'[j].kind = "item" \/ <<rows'[j].kind, rows'[j].key>> \in doubled'
    BY <1>7 DEF DoublesAreRaces
  <2>1. CASE j = i \/ k = i
    BY <1>7, <1>8, <2>1
  <2>2. CASE j # i /\ k # i
    BY <1>7, <1>8, <2>2 DEF DirectoryIInv, DirectoryAddsUp, DoublesAreRaces
  <2> QED
    BY <2>1, <2>2
<1>10. MissesAreRaces'
  <2> SUFFICES ASSUME NEW p \in Ops, op[p].pc = "write", op[p].found = 0, op[p].kind # "item",
                      NEW j \in DOMAIN rows, rows'[j].kind = op[p].kind, rows'[j].key = op[p].key,
                      rows'[j].live
               PROVE  <<op[p].kind, op[p].key>> \in doubled'
    BY <1>1, <1>7 DEF MissesAreRaces
  <2>1. CASE j = i
    BY <1>7, <1>8, <2>1
  <2>2. CASE j # i
    BY <1>7, <1>8, <2>2 DEF DirectoryIInv, MissesAreRaces
  <2> QED
    BY <2>1, <2>2
<1> QED
  BY <1>6, <1>9, <1>10 DEF DirectoryIInv, DirectoryAddsUp

-----------------------------------------------------------------------------
LEMMA DirectorySteps == DirectoryIInv /\ [DirectoryNext]_directoryVars => DirectoryIInv'
<1> SUFFICES ASSUME DirectoryIInv, [DirectoryNext]_directoryVars PROVE DirectoryIInv'
  OBVIOUS
<1>1. CASE UNCHANGED directoryVars
  BY <1>1, DirectoryUnmoved DEF directoryVars
<1>2. ASSUME NEW o \in Ops, NEW kind \in RowKinds, NEW key \in Keys, NEW sale \in BOOLEAN,
             NEW amount \in {0, 1}, Find(o, kind, key, sale, amount)
      PROVE  DirectoryIInv'
  BY <1>2, FindKeeps
<1>3. ASSUME NEW o \in Ops, CreateRow(o) \/ Visit(o) \/ PayExpense(o) PROVE DirectoryIInv'
  BY <1>3, CreateRowKeeps, VisitKeeps, PayExpenseKeeps
<1>4. ASSUME NEW o \in Ops, KeepExisting(o) \/ Fail(o) PROVE DirectoryIInv'
  BY <1>4, OnlyAnsweredKeeps DEF KeepExisting, Fail
<1>5. ASSUME NEW i \in 1..MaxRows, RemoveCustomer(i) \/ \E key \in Keys : EditKey(i, key)
      PROVE  DirectoryIInv'
  BY <1>5, RemoveCustomerKeeps, EditKeyKeeps
<1>6. ASSUME NEW k \in Keys, Seed(k) PROVE DirectoryIInv'
  BY <1>6, DirectoryUnmoved DEF Seed
<1> QED
  BY <1>1, <1>2, <1>3, <1>4, <1>5, <1>6 DEF DirectoryNext

\* The inductive invariant of a business's directory.
THEOREM DirectoryInvariance == DirectorySpec => []DirectoryIInv
BY DirectoryInitially, DirectorySteps, PTL DEF DirectorySpec

\* For any number of requests, rows and phones: every linked sale is counted once on its
\* customer, and two live rows of one phone or name need a race or an edit (customerService,
\* supplierService, expenseService).
THEOREM DirectoryHolds == DirectorySpec => []DirectoryAddsUp
<1>1. DirectoryIInv => DirectoryAddsUp
  BY DEF DirectoryIInv
<1> QED
  BY <1>1, DirectoryInvariance, PTL

-----------------------------------------------------------------------------
(***************************************************************************)
(* Aliases.  What a business had taught of a word when a line was read is *)
(* still what its row says when the line is matched, and the layers ask    *)
(* that row before all but the names.                                      *)
(***************************************************************************)

LineRecords ==
  [read : BOOLEAN, shop : Traders \cup {None}, word : Terms \cup {None},
   inv : SUBSET Items, taught : Items \cup {None}, by : Ways, item : Items \cup {None}]

LEMMA AliasesInitially == AliasesInit => AliasesIInv
<1> SUFFICES ASSUME AliasesInit PROVE AliasesIInv
  OBVIOUS
<1>1. Unmatched \in LineRecords /\ Unmatched.read = FALSE
  BY DEF Unmatched, Matched, LineRecords, Ways
<1>2. line = [l \in Lines |-> Unmatched]
  BY DEF AliasesInit
<1> HIDE DEF Unmatched
<1>3. line \in [Lines -> LineRecords] /\ \A l \in Lines : line[l].read = FALSE
  BY <1>1, <1>2
<1>4. ReadStands
  BY <1>3 DEF ReadStands
<1>5. AliasesTypeOK
  BY <1>3 DEF AliasesInit, AliasesTypeOK, LineRecords, Table
<1> QED
  BY <1>4, <1>5 DEF AliasesIInv

\* A step that changes no line, and no row that says something, keeps what was read true.
LEMMA RowsStay ==
  ASSUME AliasesIInv, UNCHANGED line, stock' \subseteq Items, learnt' \in Table,
         \A x \in Traders \X Terms : learnt[x] # None => learnt'[x] = learnt[x]
  PROVE  AliasesIInv'
<1>1. AliasesTypeOK'
  BY DEF AliasesIInv, AliasesTypeOK
<1>2. ReadStands'
  BY DEF AliasesIInv, ReadStands
<1> QED
  BY <1>1, <1>2 DEF AliasesIInv

LEMMA CommitDraftKeeps ==
  ASSUME AliasesIInv, NEW t \in Traders, NEW w \in Terms, CommitDraft(t, w)
  PROVE  AliasesIInv'
<1>1. stock \subseteq Items /\ learnt \in [Traders \X Terms -> Items \cup {None}]
  BY DEF AliasesIInv, AliasesTypeOK, Table
<1>2. UNCHANGED <<stock, line>>
  BY DEF CommitDraft
<1>3. PICK items : Learn(t, w, items)
  BY DEF CommitDraft
<1>4. PICK i \in IF learnt[<<t, w>>] = None THEN items \cap stock ELSE {learnt[<<t, w>>]} :
        learnt' = [learnt EXCEPT ![<<t, w>>] = i]
  BY <1>3 DEF Learn
<1>5. i \in Items \cup {None} /\ (learnt[<<t, w>>] # None => i = learnt[<<t, w>>])
  BY <1>1, <1>4
<1>6. /\ learnt' \in Table
      /\ \A x \in Traders \X Terms : learnt[x] # None => learnt'[x] = learnt[x]
  BY <1>1, <1>4, <1>5 DEF Table
<1> QED
  BY <1>1, <1>2, <1>6, RowsStay

LEMMA AddStockKeeps ==
  ASSUME AliasesIInv, NEW t \in Traders, NEW n \in Names, NEW words, AddStock(t, n, words)
  PROVE  AliasesIInv'
<1>1. stock' = stock \cup {<<t, n>>} /\ UNCHANGED <<learnt, line>>
  BY DEF AddStock
<1>2. stock' \subseteq Items /\ learnt' \in Table
  BY <1>1 DEF AliasesIInv, AliasesTypeOK, Items
<1> QED
  BY <1>1, <1>2, RowsStay

\* A step of one line that leaves it as it should be.
LEMMA LineMoves ==
  ASSUME AliasesIInv, NEW l \in Lines, NEW y \in LineRecords, line' = [line EXCEPT ![l] = y],
         UNCHANGED <<stock, learnt>>,
         y.read => /\ y.shop \in Traders /\ y.word \in Terms
                   /\ \A i \in y.inv : i[1] = y.shop
                   /\ y.taught # None => y.taught \in y.inv /\ learnt[<<y.shop, y.word>>] = y.taught
  PROVE  AliasesIInv'
<1>1. line \in [Lines -> LineRecords]
  BY DEF AliasesIInv, AliasesTypeOK, LineRecords
<1>2. line' \in [Lines -> LineRecords] /\ line'[l] = y /\ \A k \in Lines \ {l} : line'[k] = line[k]
  BY <1>1
<1>3. AliasesTypeOK'
  BY <1>2 DEF AliasesIInv, AliasesTypeOK, LineRecords
<1>4. ReadStands'
  <2> SUFFICES ASSUME NEW k \in Lines, line'[k].read
               PROVE  /\ line'[k].shop \in Traders /\ line'[k].word \in Terms
                      /\ \A i \in line'[k].inv : i[1] = line'[k].shop
                      /\ line'[k].taught # None =>
                           /\ line'[k].taught \in line'[k].inv
                           /\ learnt[<<line'[k].shop, line'[k].word>>] = line'[k].taught
    BY DEF ReadStands
  <2>1. CASE k = l
    BY <1>2, <2>1
  <2>2. CASE k # l
    BY <1>2, <2>2 DEF AliasesIInv, ReadStands
  <2> QED
    BY <2>1, <2>2
<1> QED
  BY <1>3, <1>4 DEF AliasesIInv

LEMMA HearKeeps ==
  ASSUME AliasesIInv, NEW l \in Lines, NEW t \in Traders, NEW w \in Terms,
         NEW inv \in SUBSET stock, Hear(l, t, w, inv)
  PROVE  AliasesIInv'
<1> DEFINE y == Heard(t, w, inv, Taught(t, w, inv))
<1>1. inv \subseteq Items /\ \A i \in inv : i[1] = t
  BY DEF AliasesIInv, AliasesTypeOK, Own, Hear
<1>2. /\ Taught(t, w, inv) \in Items \cup {None}
      /\ Taught(t, w, inv) # None => Taught(t, w, inv) \in inv /\ learnt[<<t, w>>] = Taught(t, w, inv)
  BY <1>1 DEF Taught
<1>3. /\ y \in LineRecords
      /\ y.read /\ y.shop = t /\ y.word = w /\ y.inv = inv /\ y.taught = Taught(t, w, inv)
  BY <1>1, <1>2 DEF Heard, LineRecords, Ways
<1>4. line' = [line EXCEPT ![l] = y] /\ UNCHANGED <<stock, learnt>>
  BY DEF Hear, aliasRows
<1> HIDE DEF y
<1> QED
  BY <1>1, <1>2, <1>3, <1>4, LineMoves

\* What the parser and the layers give is an item; the layers give the business's own,
\* and once the business taught a word nothing after its row is asked.
LEMMA LayersKeepOrder ==
  ASSUME AliasesIInv, NEW t \in Traders, NEW w \in Terms, NEW inv \in SUBSET Items,
         \A i \in inv : i[1] = t, NEW i \in matchItemFull(t, w, inv).items
  PROVE  /\ i \in Items /\ i[1] = t
         /\ matchItemFull(t, w, inv).by \in {"name", "row", "seed", "similar"}
         /\ (matchItemFull(t, w, inv).by # "name" /\ learnt[<<t, w>>] \in inv /\ learnt[<<t, w>>] # None) =>
              i = learnt[<<t, w>>]
<1> DEFINE m == matchItemFull(t, w, inv)
<1>1. CASE ByName(inv, w) # {}
  <2>1. m.by = "name" /\ i \in ByName(inv, w)
    BY <1>1 DEF matchItemFull
  <2>2. i \in inv
    BY <2>1 DEF ByName, Exact, InlineAlias
  <2> QED
    BY <2>1, <2>2
<1>2. CASE ByName(inv, w) = {} /\ FromRow(t, w, inv) # {}
  <2>1. m.by = "row" /\ i \in FromRow(t, w, inv)
    BY <1>2 DEF matchItemFull
  <2> QED
    BY <2>1 DEF FromRow, AliasRow
<1>3. CASE ByName(inv, w) = {} /\ FromRow(t, w, inv) = {}
  <2>1. m.by \in {"seed", "similar"} /\ i \in SeedAlias(inv, w) \cup Similar(t, w)
    BY <1>3 DEF matchItemFull
  <2>2. i \in inv \cup Own(t)
    BY <2>1 DEF SeedAlias, Similar
  <2>3. i \in Items /\ i[1] = t
    BY <2>2 DEF Own, AliasesIInv, AliasesTypeOK
  <2>4. ~(learnt[<<t, w>>] \in inv /\ learnt[<<t, w>>] # None)
    BY <1>3 DEF FromRow, AliasRow
  <2> QED
    BY <2>1, <2>3, <2>4
<1> QED
  BY <1>1, <1>2, <1>3

\* What a matched line holds.
LEMMA MatchIsSound ==
  ASSUME AliasesIInv, NEW l \in Lines, MatchLine(l)
  PROVE  \E by \in Ways, i \in Items \cup {None} :
           /\ line' = [line EXCEPT ![l] = Matched(by, i)]
           /\ by \notin {"none", "model"} =>
                /\ i[1] = line[l].shop
                /\ (by \notin {"name", "parser"} /\ line[l].taught # None) => i = line[l].taught
<1>1. PICK x \in LineRecords : x = line[l]
  BY DEF AliasesIInv, AliasesTypeOK, LineRecords
<1>2. /\ x.shop \in Traders /\ x.word \in Terms /\ x.inv \in SUBSET Items
      /\ \A i \in x.inv : i[1] = x.shop
      /\ x.taught # None => x.taught \in x.inv /\ learnt[<<x.shop, x.word>>] = x.taught
  BY <1>1 DEF MatchLine, AliasesIInv, ReadStands, LineRecords
<1>3. PICK given \in Given(x.word, x.inv) :
        LET m == enrichMatchedItems(x.shop, x.word, x.inv, given)
        IN \/ m.items = {} /\ line' = [line EXCEPT ![l] = Unmatched]
           \/ \E i \in m.items : line' = [line EXCEPT ![l] = Matched(m.by, i)]
  BY <1>1 DEF MatchLine
<1>4. CASE line' = [line EXCEPT ![l] = Unmatched]
  <2>1. "none" \in Ways /\ line' = [line EXCEPT ![l] = Matched("none", None)]
    BY <1>4 DEF Ways, Unmatched
  <2> QED
    BY <2>1
<1>5. CASE given.items # {} /\ \E i \in given.items : line' = [line EXCEPT ![l] = Matched(given.by, i)]
  <2>1. PICK i \in given.items : line' = [line EXCEPT ![l] = Matched(given.by, i)]
    BY <1>5
  <2>2. \/ given.by = "model" /\ i \in Items
        \/ given.by = "parser" /\ i \in matchItemSync(x.inv, x.word)
    BY <2>1 DEF Given
  <2>3. matchItemSync(x.inv, x.word) \subseteq x.inv
    BY DEF matchItemSync, ByName, Exact, InlineAlias, SeedAlias
  <2>4. given.by \in Ways /\ i \in Items
    BY <1>2, <2>2, <2>3 DEF Ways
  <2>5. given.by = "parser" => i[1] = x.shop
    BY <1>2, <2>2, <2>3
  <2> QED
    BY <1>1, <2>1, <2>2, <2>4, <2>5
<1>6. CASE \E i \in matchItemFull(x.shop, x.word, x.inv).items :
             line' = [line EXCEPT ![l] = Matched(matchItemFull(x.shop, x.word, x.inv).by, i)]
  <2> DEFINE m == matchItemFull(x.shop, x.word, x.inv)
  <2>1. PICK i \in m.items : line' = [line EXCEPT ![l] = Matched(m.by, i)]
    BY <1>6
  <2>2. /\ i \in Items /\ i[1] = x.shop /\ m.by \in {"name", "row", "seed", "similar"}
        /\ (m.by # "name" /\ learnt[<<x.shop, x.word>>] \in x.inv /\ learnt[<<x.shop, x.word>>] # None) =>
             i = learnt[<<x.shop, x.word>>]
    BY <1>2, <2>1, LayersKeepOrder
  <2> HIDE DEF m
  <2>3. m.by \in Ways
    BY <2>2 DEF Ways
  <2>4. (m.by # "name" /\ x.taught # None) => i = x.taught
    BY <1>2, <2>2
  <2> QED
    BY <1>1, <2>1, <2>2, <2>3, <2>4
<1> QED
  BY <1>3, <1>4, <1>5, <1>6 DEF enrichMatchedItems

LEMMA MatchLineKeeps ==
  ASSUME AliasesIInv, NEW l \in Lines, MatchLine(l)
  PROVE  AliasesIInv'
<1>1. PICK by \in Ways : \E i \in Items \cup {None} : line' = [line EXCEPT ![l] = Matched(by, i)]
  BY MatchIsSound
<1>2. PICK i \in Items \cup {None} : line' = [line EXCEPT ![l] = Matched(by, i)]
  BY <1>1
<1> DEFINE y == Matched(by, i)
<1>3. y \in LineRecords /\ y.read = FALSE
  BY DEF Matched, LineRecords
<1>4. line' = [line EXCEPT ![l] = y] /\ UNCHANGED <<stock, learnt>>
  BY <1>2 DEF MatchLine, aliasRows
<1> HIDE DEF y
<1> QED
  BY <1>3, <1>4, LineMoves

LEMMA AliasesSteps == AliasesIInv /\ [AliasesNext]_aliasVars => AliasesIInv'
<1> SUFFICES ASSUME AliasesIInv, [AliasesNext]_aliasVars PROVE AliasesIInv'
  OBVIOUS
<1>1. CASE UNCHANGED <<stock, learnt, line>>
  BY <1>1, RowsStay DEF AliasesIInv, AliasesTypeOK
<1>2. ASSUME NEW t \in Traders, NEW n \in Names, NEW words \in SUBSET Terms, AddStock(t, n, words)
      PROVE  AliasesIInv'
  BY <1>2, AddStockKeeps
<1>3. ASSUME NEW t \in Traders, NEW w \in Terms, CommitDraft(t, w) PROVE AliasesIInv'
  BY <1>3, CommitDraftKeeps
<1>4. ASSUME NEW w \in Terms, NEW i \in Items, Promote(w, i) \/ SeedGlobal(w, i) PROVE AliasesIInv'
  BY <1>1, <1>4 DEF Promote, SeedGlobal
<1>5. ASSUME NEW l \in Lines, MatchLine(l) PROVE AliasesIInv'
  BY <1>5, MatchLineKeeps
<1>6. ASSUME NEW l \in Lines, NEW t \in Traders, NEW w \in Terms, NEW inv \in SUBSET stock,
             Hear(l, t, w, inv)
      PROVE  AliasesIInv'
  BY <1>6, HearKeeps
<1> QED
  BY <1>1, <1>2, <1>3, <1>4, <1>5, <1>6 DEF AliasesNext, aliasVars, aliasRows

\* The inductive invariant of the aliases.
THEOREM AliasesInvariance == AliasesSpec => []AliasesIInv
BY AliasesInitially, AliasesSteps, PTL DEF AliasesSpec

\* Only a match ends a line that was read.
LEMMA OnlyMatchEnds ==
  ASSUME AliasesIInv, AliasesNext, NEW l \in Lines, line[l].read, line'[l] # line[l]
  PROVE  MatchLine(l)
<1>1. line' # line
  OBVIOUS
<1>2. \A k \in Lines, t \in Traders, w \in Terms, inv \in SUBSET stock : Hear(k, t, w, inv) => k # l /\ line'[l] = line[l]
  BY DEF Hear, AliasesIInv, AliasesTypeOK
<1>3. \A k \in Lines : MatchLine(k) => k = l
  <2> SUFFICES ASSUME NEW k \in Lines, MatchLine(k), k # l PROVE FALSE
    OBVIOUS
  <2>1. PICK by \in Ways : \E i \in Items \cup {None} : line' = [line EXCEPT ![k] = Matched(by, i)]
    BY MatchIsSound
  <2> QED
    BY <2>1 DEF AliasesIInv, AliasesTypeOK
<1>4. \A t \in Traders, n \in Names, words \in SUBSET Terms : ~AddStock(t, n, words)
  BY <1>1 DEF AddStock
<1>5. \A t \in Traders, w \in Terms : ~CommitDraft(t, w)
  BY <1>1 DEF CommitDraft
<1>6. \A w \in Terms, i \in Items : ~Promote(w, i) /\ ~SeedGlobal(w, i)
  BY <1>1 DEF Promote, SeedGlobal
<1> QED
  BY <1>2, <1>3, <1>4, <1>5, <1>6 DEF AliasesNext

LEMMA MatchesAreFirst == AliasesIInv /\ [AliasesNext]_aliasVars =>
  \A l \in Lines : line[l].read /\ line'[l] # line[l] => MatchedFirst(line[l], line'[l])
<1> SUFFICES ASSUME AliasesIInv, [AliasesNext]_aliasVars, NEW l \in Lines, line[l].read, line'[l] # line[l]
             PROVE  MatchedFirst(line[l], line'[l])
  OBVIOUS
<1>1. MatchLine(l)
  BY OnlyMatchEnds DEF aliasVars
<1>2. PICK by \in Ways : \E i \in Items \cup {None} :
           /\ line' = [line EXCEPT ![l] = Matched(by, i)]
           /\ by \notin {"none", "model"} =>
                /\ i[1] = line[l].shop
                /\ (by \notin {"name", "parser"} /\ line[l].taught # None) => i = line[l].taught
  BY <1>1, MatchIsSound
<1>3. PICK i \in Items \cup {None} :
           /\ line' = [line EXCEPT ![l] = Matched(by, i)]
           /\ by \notin {"none", "model"} =>
                /\ i[1] = line[l].shop
                /\ (by \notin {"name", "parser"} /\ line[l].taught # None) => i = line[l].taught
  BY <1>2
<1>4. line'[l] = Matched(by, i)
  BY <1>3 DEF AliasesIInv, AliasesTypeOK
<1>5. line'[l].by = by /\ line'[l].item = i
  BY <1>4 DEF Matched
<1> QED
  BY <1>3, <1>5 DEF MatchedFirst

\* For any businesses, words and lines at a time: a line that the language model gave no
\* item is matched to one of the business, and what the business had taught when the
\* inventory was read comes before the global, seeded and similar ones (matchItemFull).
THEOREM LearntIsFirst == AliasesSpec => LearntComesFirst
<1>1. AliasesIInv /\ [AliasesNext]_aliasVars =>
        [\A l \in Lines : line[l].read /\ line'[l] # line[l] => MatchedFirst(line[l], line'[l])]_aliasVars
  BY MatchesAreFirst
<1> QED
  BY <1>1, AliasesInvariance, PTL DEF AliasesSpec, LearntComesFirst

-----------------------------------------------------------------------------
(***************************************************************************)
(* Corpus.  What a run has written so far holds the rows of the workbook   *)
(* as the run read it (WrittenSoFar); nothing is taken out of a file while *)
(* a run is under way.  New goes through finitely many places, which are   *)
(* numbered by how many are not above, and the names of the items are      *)
(* gathered row by row: both need an induction, which is done by the least *)
(* counterexample.                                                         *)
(***************************************************************************)

\* A set of numbers that is not empty has a least one.
LEMMA LeastPlace ==
  ASSUME NEW U \in SUBSET Nat, U # {}
  PROVE  \E n \in U : \A m \in U : n <= m
<1> DEFINE R == OpToRel(<, Nat)
<1>1. IsWellFoundedOn(R, Nat)
  BY NatLessThanWellFounded
<1>2. \A x, y \in Nat : x < y => <<x, y>> \in R
  BY DEF OpToRel
<1> HIDE DEF R
<1>3. PICK n \in U : \A m \in U : ~ (<<m, n>> \in R)
  BY <1>1, WFMin
<1>4. \A m \in U : ~(m < n)
  BY <1>2, <1>3, Zenon
<1> QED
  BY <1>4

\* The members of a finite set of numbers are numbered through by how many are not above.
LEMMA Numbered ==
  ASSUME NEW S \in SUBSET Nat, IsFiniteSet(S)
  PROVE  /\ Cardinality(S) \in Nat
         /\ \A k \in 1..Cardinality(S) : \E i \in S : Cardinality({j \in S : j <= i}) = k
         /\ \A i \in S : Cardinality({j \in S : j <= i}) \in 1..Cardinality(S)
         /\ \A i, h \in S : Cardinality({j \in S : j <= i}) = Cardinality({j \in S : j <= h}) => i = h
<1> DEFINE below(i) == {j \in S : j <= i}
           rank == [i \in S |-> Cardinality(below(i))]
           N == Cardinality(S)
<1>1. N \in Nat
  BY FS_CardinalityType
<1>2. \A i \in S : IsFiniteSet(below(i)) /\ rank[i] \in Nat /\ rank[i] <= N /\ rank[i] # 0
  <2> SUFFICES ASSUME NEW i \in S
               PROVE  IsFiniteSet(below(i)) /\ rank[i] \in Nat /\ rank[i] <= N /\ rank[i] # 0
    OBVIOUS
  <2>1. below(i) \in SUBSET S /\ i \in below(i)
    OBVIOUS
  <2> HIDE DEF below
  <2>2. IsFiniteSet(below(i)) /\ Cardinality(below(i)) <= N
    BY <2>1, FS_Subset
  <2>3. Cardinality(below(i)) \in Nat /\ Cardinality(below(i)) # 0
    BY <2>1, <2>2, FS_CardinalityType, FS_EmptySet
  <2> QED
    BY <2>2, <2>3
<1>3. \A i, h \in S : i < h => rank[i] < rank[h]
  <2> SUFFICES ASSUME NEW i \in S, NEW h \in S, i < h PROVE rank[i] < rank[h]
    OBVIOUS
  <2>1. below(i) \in SUBSET below(h) /\ h \in below(h) /\ h \notin below(i)
    <3>1. \A j \in S : j \in Nat
      OBVIOUS
    <3>2. \A j \in S : j <= i => j <= h
      BY <3>1
    <3>3. h <= h /\ ~(h <= i)
      BY <3>1
    <3> QED
      BY <3>2, <3>3
  <2>2. IsFiniteSet(below(h))
    BY <1>2
  <2> HIDE DEF below
  <2>3. Cardinality(below(i)) <= Cardinality(below(h)) /\ Cardinality(below(i)) # Cardinality(below(h))
    BY <2>1, <2>2, FS_Subset
  <2> QED
    BY <1>2, <2>3
<1>4. \A i, h \in S : rank[i] = rank[h] => i = h
  <2> SUFFICES ASSUME NEW i \in S, NEW h \in S, rank[i] = rank[h] PROVE i = h
    OBVIOUS
  <2>1. ~(i < h) /\ ~(h < i)
    BY <1>2, <1>3
  <2> QED
    BY <2>1
<1> DEFINE T == {rank[i] : i \in S}
<1>5. T \in SUBSET (1..N)
  <2> HIDE DEF rank, N
  <2>1. ASSUME NEW i \in S PROVE rank[i] \in 1..N
    <3>1. PICK r \in Nat : r = rank[i] /\ r <= N /\ r # 0
      BY <1>2
    <3> QED
      BY <1>1, <3>1
  <2> QED
    BY <2>1
<1>6. IsFiniteSet(1..N) /\ Cardinality(1..N) = N
  BY <1>1, FS_Interval
<1>7. Cardinality(T) = N
  <2>1. rank \in [S -> T]
    OBVIOUS
  <2>2. rank \in Bijection(S, T)
    BY <1>4, <2>1 DEF Bijection, Injection, Surjection, IsInjective
  <2>3. ExistsBijection(S, T)
    BY <2>2 DEF ExistsBijection
  <2> HIDE DEF T
  <2> QED
    BY <2>3, FS_Bijection
<1>8. T = 1..N
  <2> HIDE DEF T, N
  <2> QED
    BY <1>5, <1>6, <1>7, FS_Subset
<1> QED
  BY <1>1, <1>2, <1>4, <1>5, <1>8

\* The n rows at e are what is new among those at the places.
Takes(new, table, places, keys, seen, n, e) ==
  /\ e \in [1..n -> places]
  /\ new = [k \in 1..n |-> table[e[k]]]
  /\ \A k \in 1..n : keys[e[k]] \notin seen
  /\ \A k, l \in 1..n : keys[e[k]] = keys[e[l]] => k = l
  /\ \A i \in places : keys[i] \in seen \/ \E k \in 1..n : keys[e[k]] = keys[i]

\* New goes through the places in order and takes each key that is neither seen nor
\* taken before: what it takes differs, and nothing is left out.
LEMMA NewIs ==
  ASSUME NEW table, NEW places \in SUBSET Nat, IsFiniteSet(places), NEW keys, NEW seen
  PROVE  \E n \in Nat : \E e : Takes(New(table, places, keys, seen), table, places, keys, seen, n, e)
<1> DEFINE first == {i \in places : keys[i] \notin seen /\ \A j \in places : j < i => keys[j] # keys[i]}
           n == Cardinality(first)
           e == [k \in 1..n |-> CHOOSE i \in first : Cardinality({j \in first : j <= i}) = k]
<1>1. New(table, places, keys, seen) = [k \in 1..n |-> table[e[k]]]
  BY DEF New
<1>2. first \in SUBSET places /\ first \in SUBSET Nat
  OBVIOUS
<1>3. IsFiniteSet(first)
  BY <1>2, FS_Subset
<1>4. \A i \in first : keys[i] \notin seen
  OBVIOUS
<1>5. \A i, j \in first : keys[i] = keys[j] => i = j
  OBVIOUS
<1>6. \A i \in places : keys[i] \in seen \/ \E j \in first : keys[j] = keys[i]
  <2> SUFFICES ASSUME NEW i \in places, keys[i] \notin seen PROVE \E j \in first : keys[j] = keys[i]
    OBVIOUS
  <2> DEFINE U == {j \in places : keys[j] = keys[i]}
  <2>1. U \in SUBSET Nat /\ i \in U
    OBVIOUS
  <2>2. PICK j \in U : \A m \in U : j <= m
    BY <2>1, LeastPlace
  <2>3. \A m \in places : m < j => keys[m] # keys[j]
    BY <2>2
  <2> QED
    BY <2>2, <2>3
<1> HIDE DEF first
<1>7. /\ n \in Nat
      /\ \A k \in 1..n : \E i \in first : Cardinality({j \in first : j <= i}) = k
      /\ \A i \in first : Cardinality({j \in first : j <= i}) \in 1..n
      /\ \A i, h \in first : Cardinality({j \in first : j <= i}) = Cardinality({j \in first : j <= h}) => i = h
  BY <1>2, <1>3, Numbered
<1> HIDE DEF n
<1>8. \A k \in 1..n : e[k] \in first /\ Cardinality({j \in first : j <= e[k]}) = k
  BY <1>7
<1>9. \A i \in first : \E k \in 1..n : e[k] = i
  BY <1>7, <1>8
<1>10. e \in [1..n -> places]
  BY <1>2, <1>8
<1> HIDE DEF e
<1>11. \A k \in 1..n : keys[e[k]] \notin seen
  BY <1>4, <1>8
<1>12. \A k, l \in 1..n : keys[e[k]] = keys[e[l]] => k = l
  BY <1>5, <1>8
<1>13. \A i \in places : keys[i] \in seen \/ \E k \in 1..n : keys[e[k]] = keys[i]
  BY <1>6, <1>9
<1> QED
  BY <1>1, <1>7, <1>10, <1>11, <1>12, <1>13 DEF Takes

-----------------------------------------------------------------------------
\* The names of the items, one pair each

\* What holds of zero and goes on from each number to the next holds of all.
LEMMA Upwards ==
  ASSUME NEW S, 0 \in S, \A n \in Nat : n \in S => n + 1 \in S
  PROVE  Nat \subseteq S
<1> SUFFICES ASSUME ~(Nat \subseteq S) PROVE FALSE
  OBVIOUS
<1> DEFINE U == Nat \ S
<1>1. U \in SUBSET Nat /\ U # {}
  OBVIOUS
<1>2. PICK n \in U : \A m \in U : n <= m
  BY <1>1, LeastPlace
<1>3. n # 0 /\ n - 1 \in Nat
  OBVIOUS
<1>4. n - 1 \notin U
  BY <1>2, <1>3
<1> QED
  BY <1>3, <1>4

LEMMA PairsOfARow ==
  ASSUME NEW r \in ItemRows
  PROVE  /\ PairsOf(r) \in Seq(AliasPairs)
         /\ r.canonical # Unfilled => \A n \in DOMAIN r.names :
              \E k \in DOMAIN PairsOf(r) : PairsOf(r)[k] = [alias |-> r.names[n], canonical |-> r.canonical]
<1>1. r.canonical \in Lexemes \cup {Unfilled} /\ r.names \in Seq(Lexemes)
  <2>1. r.canonical \in Lexemes \cup {Unfilled}
        /\ r.names \in {<<>>} \cup {<<x, y>> : x, y \in Lexemes}
    BY DEF ItemRows
  <2>2. CASE r.names = <<>>
    BY <2>1, <2>2
  <2>3. CASE r.names # <<>>
    <3>1. PICK x \in Lexemes, y \in Lexemes : r.names = <<x, y>>
      BY <2>1, <2>3
    <3>2. <<x, y>> \in Seq(Lexemes)
      OBVIOUS
    <3> QED
      BY <2>1, <3>1, <3>2
  <2> QED
    BY <2>2, <2>3
<1>2. CASE r.canonical = Unfilled
  BY <1>2 DEF PairsOf
<1>3. CASE r.canonical # Unfilled
  <2>1. PairsOf(r) = [k \in DOMAIN r.names |-> [alias |-> r.names[k], canonical |-> r.canonical]]
    BY <1>3 DEF PairsOf
  <2>2. DOMAIN r.names = 1..Len(r.names) /\ Len(r.names) \in Nat /\ \A k \in DOMAIN r.names : r.names[k] \in Lexemes
    BY <1>1
  <2>3. \A k \in DOMAIN r.names : [alias |-> r.names[k], canonical |-> r.canonical] \in AliasPairs
    BY <1>1, <1>3, <2>2 DEF AliasPairs
  <2>4. PairsOf(r) \in [1..Len(r.names) -> AliasPairs]
    BY <2>1, <2>2, <2>3
  <2>5. PairsOf(r) \in Seq(AliasPairs)
    BY <2>2, <2>4
  <2> QED
    BY <2>1, <2>5
<1> QED
  BY <1>2, <1>3

\* What two sequences one behind the other hold.
LEMMA Behind ==
  ASSUME NEW S, NEW s \in Seq(S), NEW t \in Seq(S)
  PROVE  /\ s \o t \in Seq(S) /\ Len(s) \in Nat /\ Len(t) \in Nat /\ Len(s \o t) = Len(s) + Len(t)
         /\ DOMAIN s = 1..Len(s) /\ DOMAIN t = 1..Len(t) /\ DOMAIN (s \o t) = 1..(Len(s) + Len(t))
         /\ \A i \in DOMAIN s : i \in DOMAIN (s \o t) /\ (s \o t)[i] = s[i]
         /\ \A i \in DOMAIN t : Len(s) + i \in DOMAIN (s \o t) /\ (s \o t)[Len(s) + i] = t[i]
         /\ \A i \in DOMAIN (s \o t) :
              \/ i \in DOMAIN s /\ (s \o t)[i] = s[i]
              \/ \E j \in DOMAIN t : i = Len(s) + j /\ (s \o t)[i] = t[j]
<1>1. /\ s \o t \in Seq(S) /\ Len(s) \in Nat /\ Len(t) \in Nat /\ Len(s \o t) = Len(s) + Len(t)
      /\ DOMAIN s = 1..Len(s) /\ DOMAIN t = 1..Len(t) /\ DOMAIN (s \o t) = 1..(Len(s) + Len(t))
      /\ \A i \in 1..(Len(s) + Len(t)) : (s \o t)[i] = IF i <= Len(s) THEN s[i] ELSE t[i - Len(s)]
  OBVIOUS
<1>2. PICK a \in Nat : a = Len(s)
  BY <1>1
<1>3. PICK b \in Nat : b = Len(t)
  BY <1>1
<1>4. PICK u : u = s \o t
  OBVIOUS
<1>5. /\ u \in Seq(S) /\ Len(u) = a + b /\ DOMAIN s = 1..a /\ DOMAIN t = 1..b /\ DOMAIN u = 1..(a + b)
      /\ \A i \in 1..(a + b) : u[i] = IF i <= a THEN s[i] ELSE t[i - a]
  BY <1>1, <1>2, <1>3, <1>4
<1>6. \A i \in 1..a : i \in 1..(a + b) /\ u[i] = s[i]
  BY <1>5
<1>7. ASSUME NEW i \in 1..b PROVE a + i \in 1..(a + b) /\ u[a + i] = t[i]
  <2>1. a + i \in 1..(a + b) /\ ~(a + i <= a) /\ (a + i) - a = i
    OBVIOUS
  <2> QED
    BY <1>5, <2>1
<1>8. ASSUME NEW i \in 1..(a + b), i \notin 1..a PROVE \E j \in 1..b : i = a + j /\ u[i] = t[j]
  <2>1. i - a \in 1..b /\ i = a + (i - a) /\ ~(i <= a)
    BY <1>8
  <2> QED
    BY <1>5, <2>1
<1>9. /\ \A i \in DOMAIN s : i \in DOMAIN u /\ u[i] = s[i]
      /\ \A i \in DOMAIN t : a + i \in DOMAIN u /\ u[a + i] = t[i]
  BY <1>5, <1>6, <1>7
<1>10. \A i \in DOMAIN u : (i \in DOMAIN s /\ u[i] = s[i]) \/ \E j \in DOMAIN t : i = a + j /\ u[i] = t[j]
  BY <1>5, <1>6, <1>8
<1> QED
  BY <1>1, <1>2, <1>4, <1>9, <1>10

Gathers(table, f, n) ==
  /\ f \in [0..n -> Seq(AliasPairs)]
  /\ \A i \in 0..n : f[i] = IF i = 0 THEN <<>> ELSE f[i - 1] \o PairsOf(table[i])

LEMMA GatheringExists ==
  ASSUME NEW table \in Seq(ItemRows)
  PROVE  \A n \in Nat : n <= Len(table) => \E f : Gathers(table, f, n)
<1> DEFINE N == {n \in Nat : n <= Len(table) => \E f : Gathers(table, f, n)}
<1>1. 0 \in N
  <2> DEFINE f == [i \in 0..0 |-> <<>>]
  <2>1. <<>> \in Seq(AliasPairs)
    OBVIOUS
  <2>2. \A i \in 0..0 : i = 0
    OBVIOUS
  <2>3. Gathers(table, f, 0)
    BY <2>1, <2>2 DEF Gathers
  <2> QED
    BY <2>3
<1>2. \A n \in Nat : n \in N => n + 1 \in N
  <2> SUFFICES ASSUME NEW n \in Nat, n + 1 <= Len(table), NEW f, Gathers(table, f, n)
               PROVE  \E g : Gathers(table, g, n + 1)
    OBVIOUS
  <2> DEFINE g == [i \in 0..(n + 1) |-> IF i = n + 1 THEN f[n] \o PairsOf(table[n + 1]) ELSE f[i]]
  <2>1. \A i \in 0..(n + 1) : i = n + 1 \/ i \in 0..n
    OBVIOUS
  <2>2. f \in [0..n -> Seq(AliasPairs)] /\ n \in 0..n
    BY DEF Gathers
  <2>3. table[n + 1] \in ItemRows
    OBVIOUS
  <2>4. PairsOf(table[n + 1]) \in Seq(AliasPairs)
    BY <2>3, PairsOfARow
  <2>5. f[n] \o PairsOf(table[n + 1]) \in Seq(AliasPairs)
    BY <2>2, <2>4
  <2>6. g \in [0..(n + 1) -> Seq(AliasPairs)]
    BY <2>1, <2>2, <2>5
  <2>7. \A i \in 0..n : i \in 0..(n + 1) /\ i # n + 1 /\ g[i] = f[i]
    OBVIOUS
  <2>8. n + 1 \in 0..(n + 1) /\ n + 1 # 0 /\ (n + 1) - 1 = n /\ g[n + 1] = f[n] \o PairsOf(table[n + 1])
    <3>1. n + 1 \in 0..(n + 1) /\ n + 1 # 0 /\ (n + 1) - 1 = n
      OBVIOUS
    <3>2. g[n + 1] = f[n] \o PairsOf(table[n + 1])
      BY <3>1, Zenon
    <3> QED
      BY <3>1, <3>2
  <2> HIDE DEF g
  <2>9. ASSUME NEW i \in 0..(n + 1) PROVE g[i] = IF i = 0 THEN <<>> ELSE g[i - 1] \o PairsOf(table[i])
    <3>1. CASE i = n + 1
      BY <2>2, <2>7, <2>8, <3>1
    <3>2. CASE i \in 0..n
      <4>1. i # 0 => i - 1 \in 0..n
        BY <3>2
      <4>2. f[i] = IF i = 0 THEN <<>> ELSE f[i - 1] \o PairsOf(table[i])
        BY <3>2 DEF Gathers
      <4> QED
        BY <2>7, <3>2, <4>1, <4>2
    <3> QED
      BY <2>1, <3>1, <3>2
  <2>10. Gathers(table, g, n + 1)
    BY <2>6, <2>9 DEF Gathers
  <2> QED
    BY <2>10
<1> HIDE DEF N
<1>3. Nat \subseteq N
  BY <1>1, <1>2, Upwards
<1> QED
  BY <1>3 DEF N

\* Each name of each filled row is among the pairs.
LEMMA PairsAre ==
  ASSUME NEW table \in Seq(ItemRows)
  PROVE  /\ Pairs(table) \in Seq(AliasPairs)
         /\ \A i \in DOMAIN table : table[i].canonical # Unfilled => \A n \in DOMAIN table[i].names :
              \E k \in DOMAIN Pairs(table) :
                Pairs(table)[k] = [alias |-> table[i].names[n], canonical |-> table[i].canonical]
<1> DEFINE L == Len(table)
           Step(f) == [i \in 0..L |-> IF i = 0 THEN <<>> ELSE f[i - 1] \o PairsOf(table[i])]
           all == CHOOSE f : f = Step(f)
<1>1. L \in Nat /\ DOMAIN table = 1..L /\ \A i \in 1..L : table[i] \in ItemRows
  OBVIOUS
<1>2. \E f : Gathers(table, f, L)
  BY <1>1, GatheringExists
<1>3. \A f : Gathers(table, f, L) <=> f = Step(f) /\ f \in [0..L -> Seq(AliasPairs)]
  BY DEF Gathers
<1>4. all = Step(all)
  BY <1>2, <1>3
<1>5. Pairs(table) = all[L]
  BY DEF Pairs
<1>6. \A i \in 0..L : all[i] = IF i = 0 THEN <<>> ELSE all[i - 1] \o PairsOf(table[i])
  BY <1>4
<1> HIDE DEF all, L
<1> DEFINE Typed == {j \in Nat : j <= L => all[j] \in Seq(AliasPairs)}
<1>7. 0 \in Typed
  <2>1. 0 \in 0..L /\ <<>> \in Seq(AliasPairs)
    BY <1>1
  <2> QED
    BY <1>6, <2>1
<1>8. ASSUME NEW j \in Nat, j + 1 <= L
      PROVE  /\ j \in 0..L /\ j + 1 \in 1..L
             /\ all[j + 1] = all[j] \o PairsOf(table[j + 1])
             /\ PairsOf(table[j + 1]) \in Seq(AliasPairs)
  <2>1. j \in 0..L /\ j + 1 \in 0..L /\ j + 1 \in 1..L /\ j + 1 # 0 /\ (j + 1) - 1 = j
    BY <1>1, <1>8
  <2>2. table[j + 1] \in ItemRows
    BY <1>1, <2>1
  <2> QED
    BY <1>6, <2>1, <2>2, PairsOfARow
<1>9. \A j \in Nat : j \in Typed => j + 1 \in Typed
  <2> SUFFICES ASSUME NEW j \in Nat, j + 1 <= L, all[j] \in Seq(AliasPairs)
               PROVE  all[j + 1] \in Seq(AliasPairs)
    BY <1>1
  <2>1. PICK s \in Seq(AliasPairs) : s = all[j]
    OBVIOUS
  <2>2. PICK t \in Seq(AliasPairs) : t = PairsOf(table[j + 1])
    BY <1>8
  <2>3. s \o t \in Seq(AliasPairs)
    BY Behind
  <2> QED
    BY <1>8, <2>1, <2>2, <2>3
<1> HIDE DEF Typed
<1>10. Nat \subseteq Typed
  BY <1>7, <1>9, Upwards
<1>11. \A j \in Nat : j <= L => all[j] \in Seq(AliasPairs)
  BY <1>10 DEF Typed
<1>12. ASSUME NEW i \in 1..L, NEW q \in DOMAIN PairsOf(table[i])
       PROVE  \E k \in DOMAIN all[L] : all[L][k] = PairsOf(table[i])[q]
  <2> DEFINE Holds(j) == \E k \in DOMAIN all[j] : all[j][k] = PairsOf(table[i])[q]
             Kept == {j \in Nat : i <= j /\ j <= L => Holds(j)}
  <2>1. 0 \in Kept
    BY <1>1
  <2>2. \A j \in Nat : j \in Kept => j + 1 \in Kept
    <3> SUFFICES ASSUME NEW j \in Nat, j \in Kept, i <= j + 1, j + 1 <= L PROVE Holds(j + 1)
      OBVIOUS
    <3>1. j <= L /\ (i = j + 1 \/ i <= j)
      BY <1>1
    <3>2. all[j] \in Seq(AliasPairs)
      BY <1>11, <3>1
    <3>s. PICK s \in Seq(AliasPairs) : s = all[j]
      BY <3>2
    <3>t. PICK t \in Seq(AliasPairs) : t = PairsOf(table[j + 1])
      BY <1>8
    <3>u. PICK u : u = s \o t
      OBVIOUS
    <3>3. /\ all[j + 1] = u
          /\ \A k \in DOMAIN s : k \in DOMAIN u /\ u[k] = s[k]
          /\ \A k \in DOMAIN t : Len(s) + k \in DOMAIN u /\ u[Len(s) + k] = t[k]
      <4>1. all[j + 1] = u
        BY <1>8, <3>s, <3>t, <3>u
      <4>2. /\ \A k \in DOMAIN s : k \in DOMAIN (s \o t) /\ (s \o t)[k] = s[k]
            /\ \A k \in DOMAIN t : Len(s) + k \in DOMAIN (s \o t) /\ (s \o t)[Len(s) + k] = t[k]
        BY Behind
      <4> QED
        BY <3>u, <4>1, <4>2
    <3>4. CASE i = j + 1
      BY <3>t, <3>3, <3>4
    <3>5. CASE i <= j
      <4>1. PICK k \in DOMAIN all[j] : all[j][k] = PairsOf(table[i])[q]
        BY <3>1, <3>5
      <4> QED
        BY <3>s, <3>3, <4>1
    <3> QED
      BY <3>1, <3>4, <3>5
  <2> HIDE DEF Kept
  <2>3. Nat \subseteq Kept
    BY <2>1, <2>2, Upwards
  <2>4. L \in Kept /\ i <= L /\ L <= L
    BY <1>1, <2>3
  <2> QED
    BY <2>4 DEF Kept
<1>13. Pairs(table) \in Seq(AliasPairs)
  <2>1. L <= L
    BY <1>1
  <2> QED
    BY <1>1, <1>5, <1>11, <2>1
<1>14. ASSUME NEW i \in 1..L, table[i].canonical # Unfilled, NEW n \in DOMAIN table[i].names
       PROVE  \E k \in DOMAIN Pairs(table) :
                Pairs(table)[k] = [alias |-> table[i].names[n], canonical |-> table[i].canonical]
  <2>1. table[i] \in ItemRows
    BY <1>1
  <2>2. PICK q \in DOMAIN PairsOf(table[i]) :
          PairsOf(table[i])[q] = [alias |-> table[i].names[n], canonical |-> table[i].canonical]
    BY <1>14, <2>1, PairsOfARow
  <2> QED
    BY <1>5, <1>12, <2>2
<1> QED
  BY <1>1, <1>13, <1>14
-----------------------------------------------------------------------------
\* What the writers go by

LEMMA DerivedIs ==
  ASSUME NEW scenario
  PROVE  Derived(scenario) \in Keywords \cup {Unfilled}
<1> DEFINE hits == {i \in DOMAIN Placed : Placed[i] \in scenario}
<1>1. DOMAIN Placed \in SUBSET Nat /\ \A i \in DOMAIN Placed : Placed[i] \in Keywords
  BY CorpusAssumption
<1>2. CASE hits = {}
  BY <1>2 DEF Derived
<1>3. CASE hits # {}
  <2>1. \E i \in hits : \A j \in hits : i <= j
    BY <1>1, <1>3, LeastPlace
  <2>2. PICK i \in hits : i = CHOOSE h \in hits : \A j \in hits : h <= j
    BY <2>1
  <2>3. Derived(scenario) = Placed[i]
    BY <1>3, <2>2 DEF Derived
  <2> QED
    BY <1>1, <2>3
<1> QED
  BY <1>2, <1>3

\* The number behind which the new cases go on is no less than any that is given.
LEMMA MaxIdIs ==
  ASSUME cases \in Seq(Cases)
  PROVE  MaxId \in Nat /\ \A i \in DOMAIN cases : cases[i].id <= MaxId
<1> DEFINE Ids(n) == {0} \cup {cases[i].id : i \in 1..n}
           Greatest(n) == \E m \in Ids(n) : \A h \in Ids(n) : h <= m
           N == {n \in Nat : n <= Len(cases) => Greatest(n)}
<1>1. Len(cases) \in Nat /\ DOMAIN cases = 1..Len(cases) /\ \A i \in 1..Len(cases) : cases[i].id \in Nat
  <2>1. Len(cases) \in Nat /\ DOMAIN cases = 1..Len(cases) /\ \A i \in 1..Len(cases) : cases[i] \in Cases
    OBVIOUS
  <2>2. \A c \in Cases : c.id \in Nat
    BY DEF Cases
  <2> QED
    BY <2>1, <2>2
<1>2. 0 \in N
  OBVIOUS
<1>3. \A n \in Nat : n \in N => n + 1 \in N
  <2> SUFFICES ASSUME NEW n \in Nat, n + 1 <= Len(cases), Greatest(n) PROVE Greatest(n + 1)
    <3> HIDE DEF Greatest
    <3> QED
      BY <1>1
  <2>1. PICK m \in Ids(n) : \A h \in Ids(n) : h <= m
    OBVIOUS
  <2>2. PICK c \in Nat : c = cases[n + 1].id
    BY <1>1
  <2>3. 1..(n + 1) = (1..n) \cup {n + 1}
    OBVIOUS
  <2>4. Ids(n + 1) = Ids(n) \cup {c}
    BY <2>2, <2>3
  <2>5. \A h \in Ids(n) : h \in Nat
    BY <1>1
  <2> HIDE DEF Ids
  <2>6. CASE c <= m
    BY <2>1, <2>4, <2>6
  <2>7. CASE ~(c <= m)
    <3>1. \A h \in Ids(n + 1) : h <= c
      BY <2>1, <2>4, <2>5, <2>7
    <3> QED
      BY <2>4, <3>1
  <2> QED
    BY <2>6, <2>7
<1> HIDE DEF N
<1>4. Nat \subseteq N
  BY <1>2, <1>3, Upwards
<1> DEFINE ids == {0} \cup {cases[i].id : i \in DOMAIN cases}
<1>5. \E m \in ids : \A h \in ids : h <= m
  <2>1. Greatest(Len(cases))
    <3>1. Len(cases) \in N /\ Len(cases) <= Len(cases)
      BY <1>1, <1>4
    <3> HIDE DEF Greatest
    <3> QED
      BY <3>1 DEF N
  <2>2. Ids(Len(cases)) = ids
    BY <1>1
  <2> HIDE DEF Ids, ids
  <2> QED
    BY <2>1, <2>2
<1>6. MaxId \in ids /\ \A h \in ids : h <= MaxId
  BY <1>5 DEF MaxId
<1> QED
  BY <1>1, <1>6

\* The file as written holds what it held and, behind that, the n new ones.
Extends(written, file, new, n) ==
  /\ \A i \in DOMAIN file : i \in DOMAIN written /\ written[i] = file[i]
  /\ \A k \in 1..n : \E i \in DOMAIN written : written[i] = new[k]
  /\ \A i \in DOMAIN written :
       \/ i \in DOMAIN file /\ written[i] = file[i]
       \/ \E k \in 1..n : i = Len(file) + k /\ written[i] = new[k]

\* What is in a file stays there when something is written behind it.
LEMMA Adding ==
  ASSUME NEW S, NEW file \in Seq(S), NEW n \in Nat, NEW new \in [1..n -> S], NEW written,
         written = file \o new
  PROVE  written \in Seq(S) /\ Extends(written, file, new, n)
<1>1. new \in Seq(S) /\ DOMAIN new = 1..n
  OBVIOUS
<1>2. /\ file \o new \in Seq(S)
      /\ \A i \in DOMAIN file : i \in DOMAIN (file \o new) /\ (file \o new)[i] = file[i]
      /\ \A i \in DOMAIN new : Len(file) + i \in DOMAIN (file \o new) /\ (file \o new)[Len(file) + i] = new[i]
      /\ \A i \in DOMAIN (file \o new) :
           \/ i \in DOMAIN file /\ (file \o new)[i] = file[i]
           \/ \E j \in DOMAIN new : i = Len(file) + j /\ (file \o new)[i] = new[j]
  BY <1>1, Behind
<1>3. /\ written \in Seq(S)
      /\ \A i \in DOMAIN file : i \in DOMAIN written /\ written[i] = file[i]
      /\ \A i \in DOMAIN new : Len(file) + i \in DOMAIN written /\ written[Len(file) + i] = new[i]
      /\ \A i \in DOMAIN written :
           \/ i \in DOMAIN file /\ written[i] = file[i]
           \/ \E j \in DOMAIN new : i = Len(file) + j /\ written[i] = new[j]
  BY <1>2
<1> QED
  BY <1>1, <1>3 DEF Extends

\* A sheet as it is read.
LEMMA SheetIs ==
  ASSUME NEW b, IsBook(b)
  PROVE  /\ ReadSheet(b, "messages") \in Seq(MessageRows)
         /\ ReadSheet(b, "items") \in Seq(ItemRows)
         /\ ReadSheet(b, "phrases") \in Seq(PhraseRows)
         /\ ReadSheet(b, "slang") \in Seq(SlangRows)
<1>1. \A s \in Sheets : b.rows[s] \in Seq(RowsOf[s])
  BY DEF IsBook
<1>2. \A s \in Sheets : ReadSheet(b, s) \in Seq(RowsOf[s])
  <2> SUFFICES ASSUME NEW s \in Sheets PROVE ReadSheet(b, s) \in Seq(RowsOf[s])
    OBVIOUS
  <2>1. <<>> \in Seq(RowsOf[s])
    OBVIOUS
  <2> QED
    BY <1>1, <2>1, Zenon DEF ReadSheet
<1>3. {"messages", "items", "phrases", "slang"} \subseteq Sheets
  BY DEF Sheets
<1>4. /\ RowsOf["messages"] = MessageRows /\ RowsOf["items"] = ItemRows
      /\ RowsOf["phrases"] = PhraseRows /\ RowsOf["slang"] = SlangRows
  BY DEF RowsOf
<1> QED
  BY <1>2, <1>3, <1>4

\* The places of a sheet are finitely many numbers.
LEMMA PlacesAre ==
  ASSUME NEW S, NEW table \in Seq(S), NEW places \in SUBSET DOMAIN table
  PROVE  places \in SUBSET Nat /\ IsFiniteSet(places) /\ \A i \in places : table[i] \in S
<1>1. Len(table) \in Nat /\ DOMAIN table = 1..Len(table)
  OBVIOUS
<1>2. IsFiniteSet(1..Len(table))
  BY <1>1, FS_Interval
<1>3. IsFiniteSet(places)
  BY <1>1, <1>2, FS_Subset
<1> QED
  BY <1>1, <1>3

-----------------------------------------------------------------------------
\* The steps

\* A message row that an intent fits, as the case it becomes.
LEMMA MappedRow ==
  ASSUME NEW r \in MessageRows, Mapped(r)
  PROVE  Message(r) \in Lexemes /\ Tail(r.forms) \in Seq(Lexemes) /\ Derived(r.scenario) \in Keywords
<1>1. r.forms # <<>> /\ r.forms \in {<<x>> : x \in Lexemes} \cup {<<x, y>> : x, y \in Lexemes}
  BY DEF MessageRows, Mapped, HasForm
<1>2. Derived(r.scenario) \in Keywords
  BY DerivedIs DEF Mapped
<1>3. Message(r) = Head(r.forms)
  BY DEF Message
<1>4. CASE r.forms \in {<<x>> : x \in Lexemes}
  <2>1. PICK x \in Lexemes : r.forms = <<x>>
    BY <1>4
  <2>2. Head(<<x>>) = x /\ Tail(<<x>>) = <<>>
    OBVIOUS
  <2>3. <<>> \in Seq(Lexemes)
    OBVIOUS
  <2> QED
    BY <1>2, <1>3, <2>1, <2>2, <2>3
<1>5. CASE r.forms \in {<<x, y>> : x, y \in Lexemes}
  <2>1. PICK x \in Lexemes, y \in Lexemes : r.forms = <<x, y>>
    BY <1>5
  <2>2. Head(<<x, y>>) = x /\ Tail(<<x, y>>) = <<y>>
    OBVIOUS
  <2>3. <<y>> \in Seq(Lexemes)
    OBVIOUS
  <2> QED
    BY <1>2, <1>3, <2>1, <2>2, <2>3
<1> QED
  BY <1>1, <1>4, <1>5

\* What the other files say does not depend on the cases, and so on.
LEMMA WriteCasesStep ==
  ASSUME CorpusIInv, WriteCases
  PROVE  CorpusIInv'
<1> DEFINE table == ReadSheet(copy, "messages")
           places == {i \in DOMAIN table : Mapped(table[i])}
           keys == [i \in places |-> Message(table[i])]
           seen == {cases[i].message : i \in DOMAIN cases}
           new == New(table, places, keys, seen)
           Case(r, d) == [id |-> d, message |-> Message(r), variants |-> Tail(r.forms), intent |-> Derived(r.scenario)]
<1>1. /\ cases \in Seq(Cases) /\ IsBook(copy)
      /\ table \in Seq(MessageRows)
  BY SheetIs DEF CorpusIInv, CorpusTypeOK
<1>2. places \in SUBSET DOMAIN table /\ \A i \in DOMAIN table : Mapped(table[i]) => i \in places
  OBVIOUS
<1>3. \A i \in places : Mapped(table[i]) /\ keys[i] = Message(table[i])
  OBVIOUS
<1>4. PICK last \in Nat : last = MaxId /\ \A i \in DOMAIN cases : cases[i].id <= last
  BY <1>1, MaxIdIs
<1>5. cases' = cases \o [k \in DOMAIN new |-> Case(new[k], MaxId + k)]
  BY DEF WriteCases
<1>6. \A i \in DOMAIN cases : cases[i].message \in seen
  OBVIOUS
<1>7. \A m \in seen : \E i \in DOMAIN cases : cases[i].message = m
  OBVIOUS
<1>8. \A i \in DOMAIN table : HasForm(table[i]) => i \in Unplaced(copy) \/ i \in places
  BY DEF Unplaced
<1> HIDE DEF table, places, keys, seen
<1>9. places \in SUBSET Nat /\ IsFiniteSet(places) /\ \A i \in places : table[i] \in MessageRows
  BY <1>1, <1>2, PlacesAre
<1>count. PICK n \in Nat : \E e : Takes(new, table, places, keys, seen, n, e)
  BY <1>9, NewIs
<1>10. PICK e : Takes(new, table, places, keys, seen, n, e)
  BY <1>count
<1>11. /\ e \in [1..n -> places]
       /\ new = [k \in 1..n |-> table[e[k]]]
       /\ \A k \in 1..n : keys[e[k]] \notin seen
       /\ \A k, l \in 1..n : keys[e[k]] = keys[e[l]] => k = l
       /\ \A i \in places : keys[i] \in seen \/ \E k \in 1..n : keys[e[k]] = keys[i]
  BY <1>10 DEF Takes
<1> HIDE DEF new
<1>12. \A k \in 1..n : e[k] \in places
  BY <1>11
<1>13. \A k \in 1..n : new[k] = table[e[k]] /\ new[k] \in MessageRows /\ Mapped(new[k]) /\ keys[e[k]] = Message(new[k])
  BY <1>3, <1>9, <1>11, <1>12
<1> DEFINE added == [k \in 1..n |-> Case(new[k], last + k)]
<1>14. cases' = cases \o added
  BY <1>4, <1>5, <1>11
<1>15. ASSUME NEW k \in 1..n PROVE Case(new[k], last + k) \in Cases
  <2>1. /\ Message(new[k]) \in Lexemes /\ Tail(new[k].forms) \in Seq(Lexemes)
        /\ Derived(new[k].scenario) \in Keywords /\ last + k \in Nat
    BY <1>13, MappedRow
  <2> QED
    BY <2>1 DEF Cases
<1>16. added \in [1..n -> Cases]
  BY <1>15
<1>17. \A k \in 1..n : added[k].id = last + k /\ added[k].message = keys[e[k]]
  BY <1>13
<1> HIDE DEF added
<1>18. /\ cases' \in Seq(Cases)
       /\ \A i \in DOMAIN cases : i \in DOMAIN cases' /\ cases'[i] = cases[i]
       /\ \A k \in 1..n : \E i \in DOMAIN cases' : cases'[i] = added[k]
       /\ \A i \in DOMAIN cases' :
            \/ i \in DOMAIN cases /\ cases'[i] = cases[i]
            \/ \E k \in 1..n : i = Len(cases) + k /\ cases'[i] = added[k]
  <2>1. cases' \in Seq(Cases) /\ Extends(cases', cases, added, n)
    BY <1>1, <1>14, <1>16, Adding
  <2> QED
    BY <2>1 DEF Extends
<1>19. CasesDiffer'
  <2>1. \A i, j \in DOMAIN cases : cases[i].message = cases[j].message \/ cases[i].id = cases[j].id => i = j
    BY DEF CorpusIInv, IngestedOnce, CasesDiffer
  <2>2. ASSUME NEW i \in DOMAIN cases, NEW k \in 1..n
        PROVE  cases[i].message # added[k].message /\ cases[i].id # added[k].id
    <3>1. cases[i].message # added[k].message
      BY <1>6, <1>11, <1>17
    <3>2. cases[i].id <= last /\ cases[i].id \in Nat /\ added[k].id = last + k
      <4>1. cases[i] \in Cases
        BY <1>1
      <4> QED
        BY <1>4, <1>17, <4>1 DEF Cases
    <3> QED
      BY <3>1, <3>2
  <2>3. ASSUME NEW k \in 1..n, NEW l \in 1..n,
               added[k].message = added[l].message \/ added[k].id = added[l].id
        PROVE  k = l
    <3>1. CASE added[k].message = added[l].message
      BY <1>11, <1>17, <3>1
    <3>2. CASE added[k].id = added[l].id
      BY <1>17, <3>2
    <3> QED
      BY <2>3, <3>1, <3>2
  <2>4. SUFFICES ASSUME NEW i \in DOMAIN cases', NEW j \in DOMAIN cases',
                        cases'[i].message = cases'[j].message \/ cases'[i].id = cases'[j].id
                 PROVE  i = j
    BY DEF CasesDiffer
  <2>5. \/ i \in DOMAIN cases /\ cases'[i] = cases[i]
        \/ \E k \in 1..n : i = Len(cases) + k /\ cases'[i] = added[k]
    BY <1>18
  <2>6. \/ j \in DOMAIN cases /\ cases'[j] = cases[j]
        \/ \E k \in 1..n : j = Len(cases) + k /\ cases'[j] = added[k]
    BY <1>18
  <2>7. CASE i \in DOMAIN cases /\ cases'[i] = cases[i]
    <3>1. ~ \E k \in 1..n : j = Len(cases) + k /\ cases'[j] = added[k]
      BY <2>2, <2>4, <2>7
    <3> QED
      BY <2>1, <2>4, <2>6, <2>7, <3>1
  <2>8. CASE \E k \in 1..n : i = Len(cases) + k /\ cases'[i] = added[k]
    <3>1. PICK k \in 1..n : i = Len(cases) + k /\ cases'[i] = added[k]
      BY <2>8
    <3>2. ~ (j \in DOMAIN cases /\ cases'[j] = cases[j])
      BY <2>2, <2>4, <3>1
    <3>3. PICK l \in 1..n : j = Len(cases) + l /\ cases'[j] = added[l]
      BY <2>6, <3>2
    <3>4. k = l
      BY <2>3, <2>4, <3>1, <3>3
    <3> QED
      BY <3>1, <3>3, <3>4
  <2> QED
    BY <2>5, <2>7, <2>8
<1>20. \A m : (\E i \in DOMAIN cases : cases[i].message = m) => \E i \in DOMAIN cases' : cases'[i].message = m
  BY <1>18
<1>21. ASSUME NEW i \in places PROVE \E h \in DOMAIN cases' : cases'[h].message = Message(table[i])
  <2>1. CASE keys[i] \in seen
    BY <1>3, <1>7, <1>20, <2>1
  <2>2. CASE keys[i] \notin seen
    <3>1. PICK k \in 1..n : keys[e[k]] = keys[i]
      BY <1>11, <2>2
    <3>2. PICK h \in DOMAIN cases' : cases'[h] = added[k]
      BY <1>18
    <3> QED
      BY <1>3, <1>17, <3>1, <3>2
  <2> QED
    BY <2>1, <2>2
<1>22. CasesHave(copy, Unplaced(copy))'
  <2>1. UNCHANGED copy
    BY DEF WriteCases
  <2>2. \A i \in DOMAIN table : HasForm(table[i]) =>
          i \in Unplaced(copy) \/ \E h \in DOMAIN cases' : cases'[h].message = Message(table[i])
    BY <1>8, <1>21
  <2> QED
    BY <2>1, <2>2 DEF CasesHave, table, Unplaced
<1>23. CasesHave(book, review) => CasesHave(book, review)'
  <2>1. UNCHANGED <<book, review>>
    BY DEF WriteCases
  <2> QED
    BY <1>20, <2>1 DEF CasesHave
<1>24. UNCHANGED <<book, copy, aliases, phrases, review, clean>> /\ phase' = "items"
  BY DEF WriteCases
<1>25. CorpusTypeOK'
  BY <1>18, <1>24 DEF CorpusIInv, CorpusTypeOK, IsBook
<1>26. WrittenSoFar'
  BY <1>22, <1>24 DEF WrittenSoFar
<1>27. IngestedOnce'
  <2>1. /\ AliasesDiffer' /\ PhrasesDiffer'
        /\ clean' => AliasesHave(book)' /\ PhrasesHave(book)' /\ SlangHave(book)' /\ CasesHave(book, review)
    BY <1>24 DEF CorpusIInv, IngestedOnce, AliasesDiffer, PhrasesDiffer, AliasesHave, PhrasesHave, SlangHave
  <2> QED
    BY <1>19, <1>23, <2>1 DEF IngestedOnce
<1> QED
  BY <1>25, <1>26, <1>27 DEF CorpusIInv
LEMMA WriteAliasesStep ==
  ASSUME CorpusIInv, WriteAliases
  PROVE  CorpusIInv'
<1> DEFINE sheet == ReadSheet(copy, "items")
           table == Pairs(sheet)
           places == DOMAIN table
           keys == [i \in places |-> AliasKey(table[i])]
           seen == {AliasKey(aliases[i]) : i \in DOMAIN aliases}
           new == New(table, places, keys, seen)
<1>1. aliases \in Seq(AliasPairs) /\ IsBook(copy) /\ sheet \in Seq(ItemRows)
  BY SheetIs DEF CorpusIInv, CorpusTypeOK
<1>2. aliases' = aliases \o new
  BY DEF WriteAliases
<1>3. \A i \in places : keys[i] = AliasKey(table[i])
  OBVIOUS
<1>4. \A i \in DOMAIN aliases : AliasKey(aliases[i]) \in seen
  OBVIOUS
<1>5. \A m \in seen : \E i \in DOMAIN aliases : AliasKey(aliases[i]) = m
  OBVIOUS
<1>6. places \in SUBSET DOMAIN table /\ DOMAIN table \subseteq places
  OBVIOUS
<1> HIDE DEF sheet
<1>7. /\ table \in Seq(AliasPairs)
      /\ \A i \in DOMAIN sheet : sheet[i].canonical # Unfilled => \A n \in DOMAIN sheet[i].names :
           \E k \in DOMAIN table : table[k] = [alias |-> sheet[i].names[n], canonical |-> sheet[i].canonical]
  BY <1>1, PairsAre
<1> HIDE DEF table, places, keys, seen
<1>8. places \in SUBSET Nat /\ IsFiniteSet(places) /\ \A i \in places : table[i] \in AliasPairs
  BY <1>6, <1>7, PlacesAre
<1>count. PICK n \in Nat : \E e : Takes(new, table, places, keys, seen, n, e)
  BY <1>8, NewIs
<1>9. PICK e : Takes(new, table, places, keys, seen, n, e)
  BY <1>count
<1>10. /\ e \in [1..n -> places]
       /\ new = [k \in 1..n |-> table[e[k]]]
       /\ \A k \in 1..n : keys[e[k]] \notin seen
       /\ \A k, l \in 1..n : keys[e[k]] = keys[e[l]] => k = l
       /\ \A i \in places : keys[i] \in seen \/ \E k \in 1..n : keys[e[k]] = keys[i]
  BY <1>9 DEF Takes
<1> HIDE DEF new
<1>11. \A k \in 1..n : e[k] \in places /\ new[k] = table[e[k]] /\ new[k] \in AliasPairs /\ AliasKey(new[k]) = keys[e[k]]
  BY <1>3, <1>8, <1>10
<1>12. new \in [1..n -> AliasPairs]
  BY <1>10, <1>11
<1>13. aliases' \in Seq(AliasPairs) /\ Extends(aliases', aliases, new, n)
  BY <1>1, <1>2, <1>12, Adding
<1>14. /\ \A i \in DOMAIN aliases : i \in DOMAIN aliases' /\ aliases'[i] = aliases[i]
       /\ \A k \in 1..n : \E i \in DOMAIN aliases' : aliases'[i] = new[k]
       /\ \A i \in DOMAIN aliases' :
            \/ i \in DOMAIN aliases /\ aliases'[i] = aliases[i]
            \/ \E k \in 1..n : i = Len(aliases) + k /\ aliases'[i] = new[k]
  BY <1>13 DEF Extends
<1>15. AliasesDiffer'
  <2>1. \A i, j \in DOMAIN aliases : AliasKey(aliases[i]) = AliasKey(aliases[j]) => i = j
    BY DEF CorpusIInv, IngestedOnce, AliasesDiffer
  <2>2. \A i \in DOMAIN aliases : \A k \in 1..n : AliasKey(aliases[i]) # AliasKey(new[k])
    BY <1>4, <1>10, <1>11
  <2>3. \A k, l \in 1..n : AliasKey(new[k]) = AliasKey(new[l]) => k = l
    BY <1>10, <1>11
  <2>4. SUFFICES ASSUME NEW i \in DOMAIN aliases', NEW j \in DOMAIN aliases',
                        AliasKey(aliases'[i]) = AliasKey(aliases'[j])
                 PROVE  i = j
    BY DEF AliasesDiffer, AliasKey
  <2>5. CASE i \in DOMAIN aliases /\ aliases'[i] = aliases[i]
    BY <1>14, <2>1, <2>2, <2>4, <2>5
  <2>6. CASE \E k \in 1..n : i = Len(aliases) + k /\ aliases'[i] = new[k]
    BY <1>14, <2>2, <2>3, <2>4, <2>6
  <2> QED
    BY <1>14, <2>5, <2>6
<1>16. UNCHANGED <<book, copy, cases, phrases, review, clean>> /\ phase' = "phrases" /\ phase = "items"
  BY DEF WriteAliases
<1>17. \A a : (\E k \in DOMAIN aliases : aliases[k] = a) => \E k \in DOMAIN aliases' : aliases'[k] = a
  BY <1>14
<1>18. ASSUME NEW j \in DOMAIN table PROVE \E k \in DOMAIN aliases' : aliases'[k] = table[j]
  <2>1. j \in places /\ table[j] \in AliasPairs
    BY <1>6, <1>8
  <2>2. \A p, q \in AliasPairs : AliasKey(p) = AliasKey(q) => p = q
    BY DEF AliasPairs, AliasKey
  <2>3. CASE keys[j] \in seen
    <3>1. PICK i \in DOMAIN aliases : AliasKey(aliases[i]) = AliasKey(table[j])
      BY <1>3, <1>5, <2>1, <2>3
    <3>2. aliases[i] \in AliasPairs
      BY <1>1
    <3> QED
      BY <1>14, <2>1, <2>2, <3>1, <3>2
  <2>4. CASE keys[j] \notin seen
    <3>1. PICK k \in 1..n : keys[e[k]] = keys[j]
      BY <1>10, <2>1, <2>4
    <3>2. new[k] = table[j]
      BY <1>3, <1>11, <2>1, <2>2, <3>1
    <3> QED
      BY <1>14, <3>2
  <2> QED
    BY <2>3, <2>4
<1>19. AliasesHave(copy)'
  <2>1. \A i \in DOMAIN sheet : sheet[i].canonical # Unfilled => \A m \in DOMAIN sheet[i].names :
           \E k \in DOMAIN aliases' : aliases'[k] = [alias |-> sheet[i].names[m], canonical |-> sheet[i].canonical]
    BY <1>7, <1>18
  <2> QED
    BY <1>16, <2>1 DEF AliasesHave, sheet
<1>20. AliasesHave(book) => AliasesHave(book)'
  BY <1>16, <1>17 DEF AliasesHave
<1>21. CorpusTypeOK'
  BY <1>13, <1>16 DEF CorpusIInv, CorpusTypeOK, IsBook
<1>22. WrittenSoFar'
  <2>1. CasesHave(copy, Unplaced(copy))'
    BY <1>16 DEF CorpusIInv, WrittenSoFar, CasesHave, Unplaced
  <2> QED
    BY <1>16, <1>19, <2>1 DEF WrittenSoFar
<1>23. IngestedOnce'
  <2>1. /\ CasesDiffer' /\ PhrasesDiffer'
        /\ clean' => CasesHave(book, review)' /\ AliasesHave(book) /\ PhrasesHave(book)' /\ SlangHave(book)'
    BY <1>16 DEF CorpusIInv, IngestedOnce, CasesDiffer, PhrasesDiffer, CasesHave, PhrasesHave, SlangHave
  <2> QED
    BY <1>15, <1>20, <2>1 DEF IngestedOnce
<1> QED
  BY <1>21, <1>22, <1>23 DEF CorpusIInv

LEMMA WritePhrasesStep ==
  ASSUME CorpusIInv, WritePhrases
  PROVE  CorpusIInv'
<1> DEFINE sheet == ReadSheet(copy, "phrases")
           places == {i \in DOMAIN sheet : Unfilled \notin {sheet[i].english, sheet[i].luganda}}
           table == [i \in DOMAIN sheet |->
                      [category |-> "phrase", english |-> sheet[i].english, luganda |-> sheet[i].luganda]]
           keys == [i \in places |-> PhraseKey(table[i])]
           seen == PhraseKeys
           new == New(table, places, keys, seen)
<1>1. phrases \in Seq(Phrases) /\ IsBook(copy) /\ sheet \in Seq(PhraseRows)
  BY SheetIs DEF CorpusIInv, CorpusTypeOK
<1>2. phrases' = phrases \o new
  BY DEF WritePhrases
<1>3. /\ \A i \in places : keys[i] = PhraseKey(table[i])
      /\ \A i \in DOMAIN sheet : table[i].english = sheet[i].english /\ table[i].luganda = sheet[i].luganda
      /\ \A i \in DOMAIN sheet : Unfilled \notin {sheet[i].english, sheet[i].luganda} => i \in places
  OBVIOUS
<1>4. \A i \in DOMAIN phrases : PhraseKey(phrases[i]) \in seen
  BY DEF PhraseKeys
<1>5. \A m \in seen : \E i \in DOMAIN phrases : PhraseKey(phrases[i]) = m
  BY DEF PhraseKeys
<1>6. places \in SUBSET DOMAIN sheet
  OBVIOUS
<1>7. ASSUME NEW i \in places PROVE table[i] \in Phrases
  <2>1. i \in DOMAIN sheet /\ sheet[i].english # Unfilled /\ sheet[i].luganda # Unfilled
    OBVIOUS
  <2>2. sheet[i] \in PhraseRows
    BY <1>1, <2>1
  <2>3. sheet[i].english \in Lexemes /\ sheet[i].luganda \in Lexemes
    BY <2>1, <2>2 DEF PhraseRows
  <2>4. table[i] = [category |-> "phrase", english |-> sheet[i].english, luganda |-> sheet[i].luganda]
    BY <2>1
  <2> HIDE DEF sheet
  <2> QED
    BY <2>3, <2>4 DEF Phrases, Cells
<1> HIDE DEF sheet, table, places, keys, seen
<1>8. places \in SUBSET Nat /\ IsFiniteSet(places)
  BY <1>1, <1>6, PlacesAre
<1>count. PICK n \in Nat : \E e : Takes(new, table, places, keys, seen, n, e)
  BY <1>8, NewIs
<1>9. PICK e : Takes(new, table, places, keys, seen, n, e)
  BY <1>count
<1>10. /\ e \in [1..n -> places]
       /\ new = [k \in 1..n |-> table[e[k]]]
       /\ \A k \in 1..n : keys[e[k]] \notin seen
       /\ \A k, l \in 1..n : keys[e[k]] = keys[e[l]] => k = l
       /\ \A i \in places : keys[i] \in seen \/ \E k \in 1..n : keys[e[k]] = keys[i]
  BY <1>9 DEF Takes
<1> HIDE DEF new
<1>11. \A k \in 1..n : e[k] \in places /\ new[k] = table[e[k]] /\ new[k] \in Phrases /\ PhraseKey(new[k]) = keys[e[k]]
  BY <1>3, <1>7, <1>10
<1>12. new \in [1..n -> Phrases]
  BY <1>10, <1>11
<1>13. phrases' \in Seq(Phrases) /\ Extends(phrases', phrases, new, n)
  BY <1>1, <1>2, <1>12, Adding
<1>14. /\ \A i \in DOMAIN phrases : i \in DOMAIN phrases' /\ phrases'[i] = phrases[i]
       /\ \A k \in 1..n : \E i \in DOMAIN phrases' : phrases'[i] = new[k]
       /\ \A i \in DOMAIN phrases' :
            \/ i \in DOMAIN phrases /\ phrases'[i] = phrases[i]
            \/ \E k \in 1..n : i = Len(phrases) + k /\ phrases'[i] = new[k]
  BY <1>13 DEF Extends
<1>15. PhrasesDiffer'
  <2>1. \A i, j \in DOMAIN phrases : phrases[i].luganda # Unfilled /\ PhraseKey(phrases[i]) = PhraseKey(phrases[j]) => i = j
    BY DEF CorpusIInv, IngestedOnce, PhrasesDiffer
  <2>2. \A i \in DOMAIN phrases : \A k \in 1..n : PhraseKey(phrases[i]) # PhraseKey(new[k])
    BY <1>4, <1>10, <1>11
  <2>3. \A k, l \in 1..n : PhraseKey(new[k]) = PhraseKey(new[l]) => k = l
    BY <1>10, <1>11
  <2>4. SUFFICES ASSUME NEW i \in DOMAIN phrases', NEW j \in DOMAIN phrases',
                        phrases'[i].luganda # Unfilled, PhraseKey(phrases'[i]) = PhraseKey(phrases'[j])
                 PROVE  i = j
    BY DEF PhrasesDiffer, PhraseKey
  <2>5. CASE i \in DOMAIN phrases /\ phrases'[i] = phrases[i]
    BY <1>14, <2>1, <2>2, <2>4, <2>5
  <2>6. CASE \E k \in 1..n : i = Len(phrases) + k /\ phrases'[i] = new[k]
    BY <1>14, <2>2, <2>3, <2>4, <2>6
  <2> QED
    BY <1>14, <2>5, <2>6
<1>16. UNCHANGED <<book, copy, cases, aliases, review, clean>> /\ phase' = "slang" /\ phase = "phrases"
  BY DEF WritePhrases
<1>17. ASSUME NEW j \in places
       PROVE  \E k \in DOMAIN phrases' : phrases'[k].english = table[j].english /\ phrases'[k].luganda = table[j].luganda
  <2>1. \A p, q : PhraseKey(p) = PhraseKey(q) => p.english = q.english /\ p.luganda = q.luganda
    BY DEF PhraseKey
  <2>2. CASE keys[j] \in seen
    <3>1. PICK i \in DOMAIN phrases : PhraseKey(phrases[i]) = PhraseKey(table[j])
      BY <1>3, <1>5, <2>2
    <3> QED
      BY <1>14, <2>1, <3>1
  <2>3. CASE keys[j] \notin seen
    <3>1. PICK k \in 1..n : keys[e[k]] = keys[j]
      BY <1>10, <2>3
    <3>2. PhraseKey(new[k]) = PhraseKey(table[j])
      BY <1>3, <1>11, <3>1
    <3> QED
      BY <1>14, <2>1, <3>2
  <2> QED
    BY <2>2, <2>3
<1>18. PhrasesHave(copy)'
  <2>1. \A i \in DOMAIN sheet : Unfilled \notin {sheet[i].english, sheet[i].luganda} =>
          \E k \in DOMAIN phrases' : phrases'[k].english = sheet[i].english /\ phrases'[k].luganda = sheet[i].luganda
    BY <1>3, <1>17
  <2> QED
    BY <1>16, <2>1 DEF PhrasesHave, sheet
<1>19. (PhrasesHave(book) => PhrasesHave(book)') /\ (SlangHave(book) => SlangHave(book)')
  <2>1. \A x, y : (\E k \in DOMAIN phrases : phrases[k].english = x /\ phrases[k].luganda = y)
                   => \E k \in DOMAIN phrases' : phrases'[k].english = x /\ phrases'[k].luganda = y
    BY <1>14
  <2>2. PhrasesHave(book) => PhrasesHave(book)'
    BY <1>16, <2>1 DEF PhrasesHave
  <2>3. SlangHave(book) => SlangHave(book)'
    BY <1>16, <2>1 DEF SlangHave
  <2> QED
    BY <2>2, <2>3
<1>20. CorpusTypeOK'
  BY <1>13, <1>16 DEF CorpusIInv, CorpusTypeOK, IsBook
<1>21. WrittenSoFar'
  <2>1. CasesHave(copy, Unplaced(copy))' /\ AliasesHave(copy)'
    BY <1>16 DEF CorpusIInv, WrittenSoFar, CasesHave, AliasesHave, Unplaced
  <2> QED
    BY <1>16, <1>18, <2>1 DEF WrittenSoFar
<1>22. IngestedOnce'
  <2>1. /\ CasesDiffer' /\ AliasesDiffer'
        /\ clean' => CasesHave(book, review)' /\ AliasesHave(book)' /\ PhrasesHave(book) /\ SlangHave(book)
    BY <1>16 DEF CorpusIInv, IngestedOnce, CasesDiffer, AliasesDiffer, CasesHave, AliasesHave
  <2> QED
    BY <1>15, <1>19, <2>1 DEF IngestedOnce
<1> QED
  BY <1>20, <1>21, <1>22 DEF CorpusIInv
LEMMA WriteSlangStep ==
  ASSUME CorpusIInv, WriteSlang
  PROVE  CorpusIInv'
<1> DEFINE table == ReadSheet(copy, "slang")
           places == {i \in DOMAIN table : table[i].concept # Unfilled}
           keys == [i \in places |-> SlangKey(table[i])]
           seen == PhraseKeys
           new == New(table, places, keys, seen)
           Word(r) == [category |-> IF r.category = Unfilled THEN "SLANG" ELSE r.category,
                       english |-> r.concept, luganda |-> Unfilled]
<1>1. phrases \in Seq(Phrases) /\ IsBook(copy) /\ table \in Seq(SlangRows)
  BY SheetIs DEF CorpusIInv, CorpusTypeOK
<1>2. phrases' = phrases \o [k \in DOMAIN new |-> Word(new[k])]
  BY DEF WriteSlang
<1>3. /\ \A i \in places : keys[i] = SlangKey(table[i])
      /\ \A i \in DOMAIN table : table[i].concept # Unfilled => i \in places
  OBVIOUS
<1>4. \A m \in seen : \E i \in DOMAIN phrases : PhraseKey(phrases[i]) = m
  BY DEF PhraseKeys
<1>5. places \in SUBSET DOMAIN table /\ \A i \in places : table[i].concept # Unfilled
  OBVIOUS
<1> HIDE DEF table, places, keys, seen
<1>6. places \in SUBSET Nat /\ IsFiniteSet(places) /\ \A i \in places : table[i] \in SlangRows
  BY <1>1, <1>5, PlacesAre
<1>count. PICK n \in Nat : \E e : Takes(new, table, places, keys, seen, n, e)
  BY <1>6, NewIs
<1>7. PICK e : Takes(new, table, places, keys, seen, n, e)
  BY <1>count
<1>8. /\ e \in [1..n -> places]
      /\ new = [k \in 1..n |-> table[e[k]]]
      /\ \A k \in 1..n : keys[e[k]] \notin seen
      /\ \A k, l \in 1..n : keys[e[k]] = keys[e[l]] => k = l
      /\ \A i \in places : keys[i] \in seen \/ \E k \in 1..n : keys[e[k]] = keys[i]
  BY <1>7 DEF Takes
<1> HIDE DEF new
<1>9. \A k \in 1..n : e[k] \in places /\ new[k] = table[e[k]]
  BY <1>8
<1> DEFINE added == [k \in 1..n |-> Word(new[k])]
<1>10. phrases' = phrases \o added
  BY <1>2, <1>8
<1>11. ASSUME NEW k \in 1..n PROVE Word(new[k]) \in Phrases
  <2>1. new[k].concept # Unfilled /\ new[k] \in SlangRows
    BY <1>5, <1>6, <1>9
  <2>2. new[k].concept \in Lexemes /\ (new[k].category = Unfilled \/ new[k].category = "town")
    BY <2>1 DEF SlangRows
  <2>3. (IF new[k].category = Unfilled THEN "SLANG" ELSE new[k].category) \in {"phrase", "SLANG", "town"}
    BY <2>2
  <2> QED
    BY <2>2, <2>3 DEF Phrases, Cells
<1>12. added \in [1..n -> Phrases]
  BY <1>11
<1>13. \A k \in 1..n : added[k].luganda = Unfilled /\ added[k].english = new[k].concept
  OBVIOUS
<1> HIDE DEF added
<1>14. phrases' \in Seq(Phrases) /\ Extends(phrases', phrases, added, n)
  BY <1>1, <1>10, <1>12, Adding
<1>15. /\ \A i \in DOMAIN phrases : i \in DOMAIN phrases' /\ phrases'[i] = phrases[i]
       /\ \A k \in 1..n : \E i \in DOMAIN phrases' : phrases'[i] = added[k]
       /\ \A i \in DOMAIN phrases' :
            \/ i \in DOMAIN phrases /\ phrases'[i] = phrases[i]
            \/ \E k \in 1..n : i = Len(phrases) + k /\ phrases'[i] = added[k]
  BY <1>14 DEF Extends
<1>16. PhrasesDiffer'
  <2>1. \A i, j \in DOMAIN phrases : phrases[i].luganda # Unfilled /\ PhraseKey(phrases[i]) = PhraseKey(phrases[j]) => i = j
    BY DEF CorpusIInv, IngestedOnce, PhrasesDiffer
  <2>2. SUFFICES ASSUME NEW i \in DOMAIN phrases', NEW j \in DOMAIN phrases',
                        phrases'[i].luganda # Unfilled, PhraseKey(phrases'[i]) = PhraseKey(phrases'[j])
                 PROVE  i = j
    BY DEF PhrasesDiffer, PhraseKey
  <2>3. phrases'[j].luganda # Unfilled
    BY <2>2 DEF PhraseKey
  <2>4. /\ i \in DOMAIN phrases /\ phrases'[i] = phrases[i]
        /\ j \in DOMAIN phrases /\ phrases'[j] = phrases[j]
    <3>1. \A h \in DOMAIN phrases' : phrases'[h].luganda # Unfilled =>
            h \in DOMAIN phrases /\ phrases'[h] = phrases[h]
      BY <1>13, <1>15
    <3> QED
      BY <2>2, <2>3, <3>1
  <2> QED
    BY <2>1, <2>2, <2>4
<1>17. UNCHANGED <<book, copy, cases, aliases, review, clean>> /\ phase' = "review" /\ phase = "slang"
  BY DEF WriteSlang
<1>18. ASSUME NEW j \in places
       PROVE  \E k \in DOMAIN phrases' : phrases'[k].english = table[j].concept /\ phrases'[k].luganda = Unfilled
  <2>1. CASE keys[j] \in seen
    <3>1. PICK i \in DOMAIN phrases : PhraseKey(phrases[i]) = SlangKey(table[j])
      BY <1>3, <1>4, <2>1
    <3>2. phrases[i].english = table[j].concept /\ phrases[i].luganda = Unfilled
      BY <3>1 DEF PhraseKey, SlangKey
    <3> QED
      BY <1>15, <3>2
  <2>2. CASE keys[j] \notin seen
    <3>1. PICK k \in 1..n : keys[e[k]] = keys[j]
      <4>1. keys[j] \in seen \/ \E k \in 1..n : keys[e[k]] = keys[j]
        BY <1>7, Zenon DEF Takes
      <4> QED
        BY <2>2, <4>1
    <3>2. new[k].concept = table[j].concept
      BY <1>3, <1>9, <3>1 DEF SlangKey
    <3> QED
      BY <1>13, <1>15, <3>2
  <2> QED
    BY <2>1, <2>2
<1>19. SlangHave(copy)'
  <2>1. \A i \in DOMAIN table : table[i].concept # Unfilled =>
          \E k \in DOMAIN phrases' : phrases'[k].english = table[i].concept /\ phrases'[k].luganda = Unfilled
    BY <1>3, <1>18
  <2> QED
    BY <1>17, <2>1 DEF SlangHave, table
<1>21. CorpusTypeOK'
  BY <1>14, <1>17 DEF CorpusIInv, CorpusTypeOK, IsBook
<1>22. WrittenSoFar'
  <2>1. CasesHave(copy, Unplaced(copy))' /\ AliasesHave(copy)' /\ PhrasesHave(copy)
    BY <1>17 DEF CorpusIInv, WrittenSoFar, CasesHave, AliasesHave, Unplaced
  <2>2. PhrasesHave(copy)'
    <3>1. \A x, y : (\E k \in DOMAIN phrases : phrases[k].english = x /\ phrases[k].luganda = y)
                     => \E k \in DOMAIN phrases' : phrases'[k].english = x /\ phrases'[k].luganda = y
      BY <1>15
    <3> QED
      BY <1>17, <2>1, <3>1 DEF PhrasesHave
  <2> QED
    BY <1>17, <1>19, <2>1, <2>2 DEF WrittenSoFar
<1>23. (PhrasesHave(book) => PhrasesHave(book)') /\ (SlangHave(book) => SlangHave(book)')
  <2>1. \A x, y : (\E k \in DOMAIN phrases : phrases[k].english = x /\ phrases[k].luganda = y)
                   => \E k \in DOMAIN phrases' : phrases'[k].english = x /\ phrases'[k].luganda = y
    BY <1>15
  <2>2. PhrasesHave(book) => PhrasesHave(book)'
    BY <1>17, <2>1 DEF PhrasesHave
  <2>3. SlangHave(book) => SlangHave(book)'
    BY <1>17, <2>1 DEF SlangHave
  <2> QED
    BY <2>2, <2>3
<1>24. IngestedOnce'
  <2>1. /\ CasesDiffer' /\ AliasesDiffer'
        /\ clean' => CasesHave(book, review)' /\ AliasesHave(book)' /\ PhrasesHave(book) /\ SlangHave(book)
    BY <1>17 DEF CorpusIInv, IngestedOnce, CasesDiffer, AliasesDiffer, CasesHave, AliasesHave
  <2> QED
    BY <1>16, <1>23, <2>1 DEF IngestedOnce
<1> QED
  BY <1>21, <1>22, <1>24 DEF CorpusIInv

LEMMA WriteReviewStep ==
  ASSUME CorpusIInv, WriteReview
  PROVE  CorpusIInv'
<1>1. /\ UNCHANGED <<book, copy, cases, aliases, phrases>> /\ phase = "review" /\ phase' = "idle"
      /\ clean' = (copy = book) /\ review' = Unplaced(copy)
  BY DEF WriteReview, Unplaced
<1>2. CorpusTypeOK'
  BY <1>1 DEF CorpusIInv, CorpusTypeOK, IsBook
<1>3. WrittenSoFar'
  BY <1>1 DEF WrittenSoFar
<1>4. CasesHave(copy, Unplaced(copy)) /\ AliasesHave(copy) /\ PhrasesHave(copy) /\ SlangHave(copy)
  BY <1>1 DEF CorpusIInv, WrittenSoFar
<1>5. ASSUME clean' PROVE CasesHave(book, review)' /\ AliasesHave(book)' /\ PhrasesHave(book)' /\ SlangHave(book)'
  <2>1. CasesHave(book, review)'
    BY <1>1, <1>4, <1>5 DEF CasesHave
  <2>2. AliasesHave(book)'
    <3>1. PICK table : table = ReadSheet(copy, "items")
      OBVIOUS
    <3>2. ReadSheet(book, "items")' = table /\ aliases' = aliases
      BY <1>1, <1>5, <3>1
    <3>3. \A i \in DOMAIN table : table[i].canonical # Unfilled => \A n \in DOMAIN table[i].names :
            \E k \in DOMAIN aliases : aliases[k] = [alias |-> table[i].names[n], canonical |-> table[i].canonical]
      BY <1>4, <3>1 DEF AliasesHave
    <3> QED
      BY <3>2, <3>3 DEF AliasesHave
  <2>3. PhrasesHave(book)'
    <3>1. PICK table : table = ReadSheet(copy, "phrases")
      OBVIOUS
    <3>2. ReadSheet(book, "phrases")' = table /\ phrases' = phrases
      BY <1>1, <1>5, <3>1
    <3>3. \A i \in DOMAIN table : Unfilled \notin {table[i].english, table[i].luganda} =>
            \E k \in DOMAIN phrases :
              phrases[k].english = table[i].english /\ phrases[k].luganda = table[i].luganda
      BY <1>4, <3>1 DEF PhrasesHave
    <3> QED
      BY <3>2, <3>3 DEF PhrasesHave
  <2>4. SlangHave(book)'
    BY <1>1, <1>4, <1>5 DEF SlangHave
  <2> QED
    BY <2>1, <2>2, <2>3, <2>4
<1>6. CasesDiffer' /\ AliasesDiffer' /\ PhrasesDiffer'
  BY <1>1 DEF CorpusIInv, IngestedOnce, CasesDiffer, AliasesDiffer, PhrasesDiffer
<1> QED
  BY <1>2, <1>3, <1>5, <1>6 DEF CorpusIInv, IngestedOnce

\* A step that leaves the files, the review and the workbook alone.
LEMMA NothingWritten ==
  ASSUME CorpusIInv, UNCHANGED <<book, cases, aliases, phrases, review, clean>>
  PROVE  IngestedOnce'
BY DEF CorpusIInv, IngestedOnce, CasesDiffer, AliasesDiffer, PhrasesDiffer,
       CasesHave, AliasesHave, PhrasesHave, SlangHave

LEMMA ReadBookStep ==
  ASSUME CorpusIInv, ReadBook
  PROVE  CorpusIInv'
<1>1. UNCHANGED <<book, cases, aliases, phrases, review, clean>> /\ copy' = book /\ phase' = "messages"
  BY DEF ReadBook
<1>2. CorpusTypeOK' /\ WrittenSoFar'
  BY <1>1 DEF CorpusIInv, CorpusTypeOK, IsBook, WrittenSoFar
<1> QED
  BY <1>1, <1>2, NothingWritten DEF CorpusIInv

LEMMA StopsStep ==
  ASSUME CorpusIInv, Stops
  PROVE  CorpusIInv'
<1>1. UNCHANGED <<book, copy, cases, aliases, phrases, review, clean>> /\ phase' = "idle"
  BY DEF Stops
<1>2. CorpusTypeOK' /\ WrittenSoFar'
  BY <1>1 DEF CorpusIInv, CorpusTypeOK, IsBook, WrittenSoFar
<1> QED
  BY <1>1, <1>2, NothingWritten DEF CorpusIInv

LEMMA EditStep ==
  ASSUME CorpusIInv, Edit
  PROVE  CorpusIInv'
<1>1. UNCHANGED <<copy, phase, cases, aliases, phrases, review>> /\ clean' = FALSE
  BY DEF Edit
<1>2. IsBook(book)
  BY DEF CorpusIInv, CorpusTypeOK
<1> DEFINE B == [layout : [Sheets -> Layouts], rows : [Sheets -> UNION {Seq(RowsOf[s]) : s \in Sheets}]]
<1>3. book \in B /\ \A s \in Sheets : book.rows[s] \in Seq(RowsOf[s])
  BY <1>2 DEF IsBook
<1>4. ASSUME NEW s \in Sheets, NEW table \in Seq(RowsOf[s]), Fill(s, table) PROVE IsBook(book)'
  <2>1. book' = [book EXCEPT !.rows = [@ EXCEPT ![s] = table]]
    BY <1>4 DEF Fill
  <2>2. book'.layout = book.layout /\ book'.rows = [book.rows EXCEPT ![s] = table]
    BY <1>3, <2>1
  <2>3. table \in UNION {Seq(RowsOf[h]) : h \in Sheets}
    BY <1>4
  <2>4. book' \in B
    BY <1>3, <2>1, <2>3
  <2>5. \A h \in Sheets : book'.rows[h] \in Seq(RowsOf[h])
    BY <1>3, <2>2
  <2> QED
    BY <2>4, <2>5 DEF IsBook
<1>5. ASSUME NEW s \in Sheets, NEW l \in Layouts, book' = [book EXCEPT !.layout = [@ EXCEPT ![s] = l]]
      PROVE  IsBook(book)'
  <2>1. book' \in B /\ book'.rows = book.rows
    BY <1>3, <1>5
  <2> QED
    BY <1>3, <2>1 DEF IsBook
<1>6. ASSUME NEW s \in Sheets, NEW r \in RowsOf[s], Fill(s, Append(book.rows[s], r)) PROVE IsBook(book)'
  <2>1. Append(book.rows[s], r) \in Seq(RowsOf[s])
    <3>1. PICK S : S = RowsOf[s]
      OBVIOUS
    <3>2. PICK old \in Seq(S) : old = book.rows[s]
      BY <1>3, <3>1
    <3>3. Append(old, r) \in Seq(S)
      BY <3>1
    <3> QED
      BY <3>1, <3>2, <3>3
  <2> QED
    BY <1>4, <1>6, <2>1
<1>7. ASSUME NEW s \in Sheets, NEW r \in RowsOf[s], NEW i \in DOMAIN book.rows[s],
             Fill(s, [book.rows[s] EXCEPT ![i] = r])
      PROVE  IsBook(book)'
  <2>1. [book.rows[s] EXCEPT ![i] = r] \in Seq(RowsOf[s])
    <3>1. PICK S : S = RowsOf[s]
      OBVIOUS
    <3>2. PICK old \in Seq(S) : old = book.rows[s]
      BY <1>3, <3>1
    <3>3. [old EXCEPT ![i] = r] \in Seq(S)
      BY <3>1
    <3> QED
      BY <3>1, <3>2, <3>3
  <2> QED
    BY <1>4, <1>7, <2>1
<1>8. IsBook(book)'
  BY <1>5, <1>6, <1>7 DEF Edit
<1>9. IsBook(copy)'
  BY <1>1 DEF CorpusIInv, CorpusTypeOK, IsBook
<1>10. CorpusTypeOK'
  BY <1>1, <1>8, <1>9 DEF CorpusIInv, CorpusTypeOK
<1>11. WrittenSoFar'
  BY <1>1 DEF CorpusIInv, WrittenSoFar, CasesHave, AliasesHave, PhrasesHave, SlangHave, Unplaced
<1>12. IngestedOnce'
  BY <1>1 DEF CorpusIInv, IngestedOnce, CasesDiffer, AliasesDiffer, PhrasesDiffer
<1> QED
  BY <1>10, <1>11, <1>12 DEF CorpusIInv

\* What is left of the cases when one is taken out.
LEMMA TakenOut ==
  ASSUME NEW S, NEW s \in Seq(S), NEW i \in DOMAIN s
  PROVE  /\ SubSeq(s, 1, i - 1) \o SubSeq(s, i + 1, Len(s)) \in Seq(S)
         /\ DOMAIN (SubSeq(s, 1, i - 1) \o SubSeq(s, i + 1, Len(s))) = 1..(Len(s) - 1)
         /\ \A k \in 1..(Len(s) - 1) :
              (SubSeq(s, 1, i - 1) \o SubSeq(s, i + 1, Len(s)))[k] = s[IF k < i THEN k ELSE k + 1]
<1>1. Len(s) \in Nat /\ i \in 1..Len(s)
  OBVIOUS
<1>2. PICK p : p = SubSeq(s, 1, i - 1)
  OBVIOUS
<1>3. PICK q : q = SubSeq(s, i + 1, Len(s))
  OBVIOUS
<1>4. p \in Seq(S) /\ Len(p) = i - 1 /\ \A k \in 1..(i - 1) : p[k] = s[k]
  BY <1>1, <1>2
<1>5. q \in Seq(S) /\ Len(q) = Len(s) - i /\ \A k \in 1..(Len(s) - i) : q[k] = s[i + k]
  BY <1>1, <1>3
<1>6. /\ p \o q \in Seq(S) /\ DOMAIN (p \o q) = 1..(Len(p) + Len(q))
      /\ \A k \in 1..(Len(p) + Len(q)) : (p \o q)[k] = IF k <= Len(p) THEN p[k] ELSE q[k - Len(p)]
  <2>1. p \in Seq(S) /\ q \in Seq(S)
    BY <1>4, <1>5
  <2> QED
    BY <2>1
<1>7. Len(p) + Len(q) = Len(s) - 1
  BY <1>1, <1>4, <1>5
<1>8. ASSUME NEW k \in 1..(Len(s) - 1) PROVE (p \o q)[k] = s[IF k < i THEN k ELSE k + 1]
  <2>1. CASE k < i
    BY <1>1, <1>4, <1>6, <1>7, <2>1
  <2>2. CASE ~(k < i)
    <3>1. ~(k <= i - 1) /\ k - (i - 1) \in 1..(Len(s) - i) /\ i + (k - (i - 1)) = k + 1
      BY <1>1, <2>2
    <3>2. ~(k <= Len(p)) /\ k - Len(p) = k - (i - 1)
      BY <1>1, <1>4, <3>1
    <3>3. (p \o q)[k] = q[k - Len(p)]
      BY <1>6, <1>7, <3>2
    <3>4. q[k - (i - 1)] = s[i + (k - (i - 1))]
      BY <1>5, <3>1
    <3> QED
      BY <2>2, <3>1, <3>2, <3>3, <3>4
  <2> QED
    BY <2>1, <2>2
<1> QED
  BY <1>2, <1>3, <1>6, <1>7, <1>8

LEMMA RejectStep ==
  ASSUME CorpusIInv, Reject
  PROVE  CorpusIInv'
<1>1. UNCHANGED <<book, copy, phase, aliases, phrases, review>> /\ clean' = FALSE /\ phase = "idle"
  BY DEF Reject
<1>2. PICK i \in DOMAIN cases : cases' = SubSeq(cases, 1, i - 1) \o SubSeq(cases, i + 1, Len(cases))
  BY DEF Reject
<1>3. cases \in Seq(Cases)
  BY DEF CorpusIInv, CorpusTypeOK
<1>4. PICK n \in Nat : n = Len(cases)
  BY <1>3
<1>5. /\ cases' \in Seq(Cases) /\ DOMAIN cases' = 1..(n - 1)
      /\ \A k \in 1..(n - 1) : cases'[k] = cases[IF k < i THEN k ELSE k + 1]
  BY <1>2, <1>3, <1>4, TakenOut
<1>6. CasesDiffer'
  <2>1. \A k, l \in DOMAIN cases : cases[k].message = cases[l].message \/ cases[k].id = cases[l].id => k = l
    BY DEF CorpusIInv, IngestedOnce, CasesDiffer
  <2>2. SUFFICES ASSUME NEW k \in DOMAIN cases', NEW l \in DOMAIN cases',
                        cases'[k].message = cases'[l].message \/ cases'[k].id = cases'[l].id
                 PROVE  k = l
    BY DEF CasesDiffer
  <2>3. PICK a \in Int : a = IF k < i THEN k ELSE k + 1
    BY <1>5
  <2>4. PICK b \in Int : b = IF l < i THEN l ELSE l + 1
    BY <1>5
  <2>5. i \in 1..n /\ k \in 1..(n - 1) /\ l \in 1..(n - 1) /\ DOMAIN cases = 1..n
    BY <1>3, <1>4, <1>5
  <2>6. a \in 1..n /\ b \in 1..n
    BY <2>3, <2>4, <2>5
  <2>7. cases'[k] = cases[a] /\ cases'[l] = cases[b]
    BY <1>5, <2>3, <2>4, <2>5
  <2>8. a = b
    BY <2>1, <2>2, <2>5, <2>6, <2>7
  <2> QED
    BY <2>3, <2>4, <2>5, <2>8
<1>7. CorpusTypeOK' /\ WrittenSoFar'
  BY <1>1, <1>5 DEF CorpusIInv, CorpusTypeOK, IsBook, WrittenSoFar
<1>8. IngestedOnce'
  BY <1>1, <1>6 DEF CorpusIInv, IngestedOnce, AliasesDiffer, PhrasesDiffer
<1> QED
  BY <1>7, <1>8 DEF CorpusIInv

LEMMA CorpusStarts ==
  ASSUME CorpusInit
  PROVE  CorpusIInv
<1>1. /\ book = [layout |-> [s \in Sheets |-> "titled"], rows |-> [s \in Sheets |-> <<>>]] /\ copy = book
      /\ phase = "idle" /\ clean = FALSE /\ cases = <<>> /\ aliases = <<>> /\ phrases = <<>>
  BY DEF CorpusInit
<1>2. IsBook(book)
  <2>1. \A s \in Sheets : <<>> \in Seq(RowsOf[s])
    OBVIOUS
  <2>2. \A s \in Sheets : <<>> \in UNION {Seq(RowsOf[h]) : h \in Sheets}
    BY <2>1
  <2> QED
    BY <1>1, <2>1, <2>2 DEF IsBook, Layouts
<1>3. cases \in Seq(Cases) /\ aliases \in Seq(AliasPairs) /\ phrases \in Seq(Phrases)
  BY <1>1
<1>4. CorpusTypeOK
  BY <1>1, <1>2, <1>3 DEF CorpusTypeOK
<1>5. WrittenSoFar
  BY <1>1 DEF WrittenSoFar
<1>6. CasesDiffer /\ AliasesDiffer /\ PhrasesDiffer
  BY <1>1 DEF CasesDiffer, AliasesDiffer, PhrasesDiffer
<1> QED
  BY <1>1, <1>4, <1>5, <1>6 DEF CorpusIInv, IngestedOnce

LEMMA CorpusStep ==
  ASSUME CorpusIInv, [CorpusNext]_corpusVars
  PROVE  CorpusIInv'
<1>1. CASE UNCHANGED corpusVars
  <2>1. UNCHANGED <<book, copy, phase, cases, aliases, phrases, review, clean>>
    BY <1>1 DEF corpusVars
  <2>2. CorpusTypeOK' /\ WrittenSoFar'
    BY <2>1 DEF CorpusIInv, CorpusTypeOK, IsBook, WrittenSoFar, CasesHave, AliasesHave,
                PhrasesHave, SlangHave, Unplaced
  <2> QED
    BY <2>1, <2>2, NothingWritten DEF CorpusIInv
<1> QED
  BY <1>1, ReadBookStep, WriteCasesStep, WriteAliasesStep, WritePhrasesStep, WriteSlangStep,
     WriteReviewStep, StopsStep, EditStep, RejectStep DEF CorpusNext

(* Whatever the workbook says, whoever edits it and wherever the script stops: what the run *)
(* has written so far holds its rows.                                                       *)
THEOREM CorpusInvariance == CorpusSpec => []CorpusIInv
<1>1. CorpusInit => CorpusIInv
  BY CorpusStarts
<1>2. CorpusIInv /\ [CorpusNext]_corpusVars => CorpusIInv'
  BY CorpusStep
<1> QED
  BY <1>1, <1>2, PTL DEF CorpusSpec

(* No file but that of the slang says anything twice, no two cases share a number, and a    *)
(* complete run leaves no row of its workbook out (intake-to-corpus.ts).                    *)
THEOREM RowsArriveOnce == CorpusSpec => []IngestedOnce
<1>1. CorpusIInv => IngestedOnce
  BY DEF CorpusIInv
<1> QED
  BY <1>1, CorpusInvariance, PTL

-----------------------------------------------------------------------------
(***************************************************************************)
(* Tokens.  RefusedIsNotReused is about tokens in the cache and at calls   *)
(* that gave up; what makes it inductive is what is known of a token on    *)
(* its way there: the answer of a login belongs to one call alone          *)
(* (OnlyMine), and a retry uses a token that is younger than the refusal   *)
(* (RetryIsNewer).                                                         *)
(***************************************************************************)

USE TokenAssumption

Entries == [token : Nat, fresh : BOOLEAN]
States == [pc : RequestPcs, token : Nat, tries : 0..2]

\* No token is known that was not issued.
AllIssued ==
  /\ cache.token <= issued
  /\ \A r \in Requests : request[r].token <= issued /\ newest[r] <= issued
  /\ \A t \in refused : t <= issued

\* The answer of a login is known to nobody but the call that waits for it.
OnlyMine ==
  \A r \in Requests : InPc(r, "answer") =>
    /\ request[r].token > 0 /\ request[r].token # cache.token
    /\ request[r].token \notin refused
    /\ \A q \in Requests \ {r} : request[q].token # request[r].token

\* A second try uses a token that was issued after the refusal of the first.
RetryIsNewer ==
  \A r \in Requests :
    /\ request[r].tries = 2 /\ request[r].pc \in {"answer", "call", "refused"} => request[r].token > newest[r]
    /\ InPc(r, "refused") => request[r].tries = 2
    /\ InPc(r, "call") \/ InPc(r, "login") \/ InPc(r, "answer") => request[r].tries \in {1, 2}

TokensIInv ==
  TokensTypeOK /\ AllIssued /\ OnlyMine /\ RetryIsNewer /\ RefusedIsNotReused

\* A call moves; the others stay where they are.
LEMMA CallMoves ==
  ASSUME TokensTypeOK, NEW r \in Requests, NEW s \in States,
         request' = [request EXCEPT ![r] = s]
  PROVE  /\ request'[r] = s
         /\ \A q \in Requests : q # r => request'[q] = request[q]
         /\ request' \in [Requests -> States]
BY DEF TokensTypeOK, States

LEMMA AdvanceMoves ==
  ASSUME TokensTypeOK, NEW r \in Requests, NEW pc \in RequestPcs, NEW t \in Nat, Advance(r, pc, t)
  PROVE  /\ request'[r].pc = pc /\ request'[r].token = t /\ request'[r].tries = request[r].tries
         /\ \A q \in Requests : q # r => request'[q] = request[q]
         /\ request' \in [Requests -> States]
<1> DEFINE s == [pc |-> pc, token |-> t, tries |-> request[r].tries]
<1>1. s \in States /\ s.pc = pc /\ s.token = t /\ s.tries = request[r].tries
  BY DEF TokensTypeOK, States
<1>2. request' = [request EXCEPT ![r] = s]
  BY DEF Advance
<1> HIDE DEF s
<1> QED BY <1>1, <1>2, CallMoves

LEMMA TokensStart == TokensInit => TokensIInv
<1> SUFFICES ASSUME TokensInit PROVE TokensIInv
  OBVIOUS
<1>1. \A r \in Requests : request[r].pc = "new" /\ request[r].token = 0 /\ request[r].tries = 0
  BY DEF TokensInit, Resting
<1>2. cache.token = 0 /\ ~cache.fresh
  BY DEF TokensInit, NoToken
<1>3. TokensTypeOK
  BY DEF TokensInit, TokensTypeOK, NoToken, Resting, RequestPcs
<1> QED
  BY <1>1, <1>2, <1>3 DEF TokensInit, TokensIInv, AllIssued, OnlyMine, RetryIsNewer, RefusedIsNotReused, InPc

LEMMA TokensStep == TokensIInv /\ [TokensNext]_tokenVars => TokensIInv'
<1> SUFFICES ASSUME TokensIInv, [TokensNext]_tokenVars PROVE TokensIInv'
  OBVIOUS
<1> USE DEF TokensIInv
<1>1. ASSUME NEW r \in Requests, GetToken(r) PROVE TokensIInv'
  <2> DEFINE s == IF cache.fresh THEN [pc |-> "call", token |-> cache.token, tries |-> 1]
                  ELSE [pc |-> "login", token |-> 0, tries |-> 1]
  <2>1. /\ s \in States /\ s.pc \in {"call", "login"} /\ s.tries = 1
        /\ s.token = 0 \/ s.token = cache.token
    BY DEF TokensTypeOK, States, RequestPcs
  <2>2. request' = [request EXCEPT ![r] = s] /\ UNCHANGED <<cache, issued, valid, newest, refused>>
    BY <1>1 DEF GetToken
  <2> HIDE DEF s
  <2>3. /\ request'[r] = s /\ request' \in [Requests -> States]
        /\ \A q \in Requests : q # r => request'[q] = request[q]
    BY <2>1, <2>2, CallMoves
  <2>4. TokensTypeOK'
    BY <2>2, <2>3 DEF TokensTypeOK, States
  <2> QED
    BY <2>1, <2>2, <2>3, <2>4 DEF AllIssued, OnlyMine, RetryIsNewer, RefusedIsNotReused, InPc, TokensTypeOK, States
<1>2. ASSUME NEW r \in Requests, Login(r) PROVE TokensIInv'
  <2>1. CASE issued < MaxIssued /\ issued' = issued + 1 /\ valid' = valid \cup {issued'} /\ Advance(r, "answer", issued')
    <3>1. /\ request'[r].pc = "answer" /\ request'[r].token = issued' /\ request'[r].tries = request[r].tries
          /\ \A q \in Requests : q # r => request'[q] = request[q]
          /\ request' \in [Requests -> States]
      BY <2>1, AdvanceMoves DEF TokensTypeOK, RequestPcs
    <3>2. UNCHANGED <<cache, newest, refused>> /\ issued' = issued + 1 /\ issued' \in 1..MaxIssued /\ issued \in Nat
      BY <1>2, <2>1 DEF Login, TokensTypeOK
    <3>3. TokensTypeOK'
      BY <2>1, <3>1, <3>2 DEF TokensTypeOK, States
    <3>6. AllIssued'
      BY <1>2, <3>1, <3>2, <3>3 DEF AllIssued, TokensTypeOK, States
    <3>7. OnlyMine'
      BY <1>2, <3>1, <3>2, <3>3 DEF OnlyMine, AllIssued, InPc, TokensTypeOK, States
    <3>8. RetryIsNewer'
      BY <1>2, <3>1, <3>2, <3>3 DEF Login, RetryIsNewer, AllIssued, InPc, TokensTypeOK, States
    <3>9. RefusedIsNotReused'
      BY <1>2, <3>1, <3>2, <3>3 DEF RefusedIsNotReused, RetryIsNewer, OnlyMine, InPc, TokensTypeOK, States
    <3> QED BY <3>3, <3>6, <3>7, <3>8, <3>9
  <2>2. CASE Advance(r, "unavailable", 0) /\ UNCHANGED <<issued, valid>>
    <3>1. /\ request'[r].pc = "unavailable" /\ request'[r].token = 0 /\ request'[r].tries = request[r].tries
          /\ \A q \in Requests : q # r => request'[q] = request[q]
          /\ request' \in [Requests -> States]
      BY <2>2, AdvanceMoves DEF RequestPcs
    <3>2. UNCHANGED <<cache, newest, refused, issued, valid>>
      BY <1>2, <2>2 DEF Login
    <3>3. TokensTypeOK'
      BY <3>1, <3>2 DEF TokensTypeOK, States
    <3>6. AllIssued'
      BY <3>1, <3>2, <3>3 DEF AllIssued, TokensTypeOK, States
    <3>7. OnlyMine'
      BY <3>1, <3>2, <3>3 DEF OnlyMine, AllIssued, InPc, TokensTypeOK, States
    <3>8. RetryIsNewer'
      BY <3>1, <3>2, <3>3 DEF RetryIsNewer, AllIssued, InPc, TokensTypeOK, States
    <3>9. RefusedIsNotReused'
      BY <3>1, <3>2, <3>3 DEF RefusedIsNotReused, RetryIsNewer, OnlyMine, InPc, TokensTypeOK, States
    <3> QED BY <3>3, <3>6, <3>7, <3>8, <3>9
  <2> QED BY <1>2, <2>1, <2>2 DEF Login
<1>3. ASSUME NEW r \in Requests, LoggedIn(r) PROVE TokensIInv'
  <2>1. /\ request'[r].pc = "call" /\ request'[r].token = request[r].token /\ request'[r].tries = request[r].tries
        /\ \A q \in Requests : q # r => request'[q] = request[q]
        /\ request' \in [Requests -> States]
    BY <1>3, AdvanceMoves DEF LoggedIn, TokensTypeOK, RequestPcs
  <2>2. /\ request[r].pc = "answer" /\ UNCHANGED <<issued, valid, newest, refused>>
        /\ cache'.token = request[r].token /\ cache' \in Entries
    BY <1>3 DEF LoggedIn, InPc, TokensTypeOK, Entries
  <2>3. TokensTypeOK'
    BY <2>1, <2>2 DEF TokensTypeOK, States, Entries
  <2>6. AllIssued'
    BY <2>1, <2>2, <2>3 DEF AllIssued, TokensTypeOK, States
  <2>7. OnlyMine'
    BY <2>1, <2>2, <2>3 DEF OnlyMine, AllIssued, InPc, TokensTypeOK, States
  <2>8. RetryIsNewer'
    BY <2>1, <2>2, <2>3 DEF RetryIsNewer, AllIssued, InPc, TokensTypeOK, States
  <2>9. RefusedIsNotReused'
    BY <2>1, <2>2, <2>3 DEF RefusedIsNotReused, RetryIsNewer, OnlyMine, InPc, TokensTypeOK, States
  <2> QED BY <2>3, <2>6, <2>7, <2>8, <2>9
<1>4. ASSUME NEW r \in Requests, Refuse(r) PROVE TokensIInv'
  <2>0. request[r].pc = "call" /\ UNCHANGED <<issued, valid>>
    BY <1>4 DEF Refuse, InPc
  <2>1. CASE request[r].tries = 1
    <3> DEFINE s == AfterRefusal(r)
    <3>1. s \in States /\ s.pc = "login" /\ s.token = 0 /\ s.tries = 2
      BY DEF AfterRefusal, States, RequestPcs
    <3>2. /\ request' = [request EXCEPT ![r] = s] /\ cache' = NoToken
          /\ newest' = [newest EXCEPT ![r] = issued] /\ refused' = refused \cup {request[r].token}
      BY <1>4, <2>1 DEF Refuse
    <3> HIDE DEF s
    <3>3. /\ request'[r] = s /\ request' \in [Requests -> States]
          /\ \A q \in Requests : q # r => request'[q] = request[q]
      BY <3>1, <3>2, CallMoves
    <3>4. cache'.token = 0 /\ ~cache'.fresh /\ cache' \in Entries
      BY <3>2 DEF NoToken, Entries
    <3>a. newest' \in [Requests -> Nat] /\ refused' \subseteq Nat
      <4>1. issued \in Nat /\ request[r].token \in Nat
        BY DEF TokensTypeOK
      <4>2. newest' \in [Requests -> Nat]
        BY <3>2, <4>1 DEF TokensTypeOK
      <4>3. refused' \subseteq Nat
        BY <3>2, <4>1 DEF TokensTypeOK
      <4> QED BY <4>2, <4>3
    <3>5. TokensTypeOK'
      BY <2>0, <3>a, <3>3, <3>4 DEF TokensTypeOK, States, Entries
    <3> QED
      BY <2>0, <3>1, <3>2, <3>3, <3>4, <3>5 DEF AllIssued, OnlyMine, RetryIsNewer, RefusedIsNotReused, InPc, TokensTypeOK, States
  <2>2. CASE request[r].tries # 1
    <3>1. /\ request'[r].pc = "refused" /\ request'[r].token = request[r].token /\ request'[r].tries = request[r].tries
          /\ \A q \in Requests : q # r => request'[q] = request[q]
          /\ request' \in [Requests -> States]
      BY <1>4, <2>2, AdvanceMoves DEF Refuse, TokensTypeOK, RequestPcs
    <3>2. UNCHANGED <<cache, newest, refused>>
      BY <1>4, <2>2 DEF Refuse
    <3>3. TokensTypeOK'
      BY <2>0, <3>1, <3>2 DEF TokensTypeOK, States
    <3>6. AllIssued'
      BY <2>0, <2>2, <3>1, <3>2, <3>3 DEF AllIssued, TokensTypeOK, States
    <3>7. OnlyMine'
      BY <2>0, <2>2, <3>1, <3>2, <3>3 DEF OnlyMine, AllIssued, InPc, TokensTypeOK, States
    <3>8. RetryIsNewer'
      BY <2>0, <2>2, <3>1, <3>2, <3>3 DEF RetryIsNewer, AllIssued, InPc, TokensTypeOK, States
    <3>9. RefusedIsNotReused'
      BY <2>0, <2>2, <3>1, <3>2, <3>3 DEF RefusedIsNotReused, RetryIsNewer, OnlyMine, InPc, TokensTypeOK, States
    <3> QED BY <3>3, <3>6, <3>7, <3>8, <3>9
  <2> QED BY <2>1, <2>2
<1>5. ASSUME NEW r \in Requests, Succeed(r) PROVE TokensIInv'
  <2>1. PICK pc \in {"done", "unavailable"} : Advance(r, pc, request[r].token)
    BY <1>5 DEF Succeed
  <2>2. /\ request'[r].pc = pc /\ request'[r].token = request[r].token /\ request'[r].tries = request[r].tries
        /\ \A q \in Requests : q # r => request'[q] = request[q]
        /\ request' \in [Requests -> States]
    BY <2>1, AdvanceMoves DEF TokensTypeOK, RequestPcs
  <2>3. UNCHANGED <<cache, issued, valid, newest, refused>>
    BY <1>5 DEF Succeed
  <2>4. TokensTypeOK'
    BY <2>2, <2>3 DEF TokensTypeOK, States
  <2>6. AllIssued'
    BY <2>1, <2>2, <2>3, <2>4 DEF AllIssued, TokensTypeOK, States
  <2>7. OnlyMine'
    BY <2>1, <2>2, <2>3, <2>4 DEF OnlyMine, AllIssued, InPc, TokensTypeOK, States
  <2>8. RetryIsNewer'
    BY <2>1, <2>2, <2>3, <2>4 DEF RetryIsNewer, AllIssued, InPc, TokensTypeOK, States
  <2>9. RefusedIsNotReused'
    BY <2>1, <2>2, <2>3, <2>4 DEF RefusedIsNotReused, RetryIsNewer, OnlyMine, InPc, TokensTypeOK, States
  <2> QED BY <2>4, <2>6, <2>7, <2>8, <2>9
<1>6. ASSUME NEW t \in 1..MaxIssued, Revoke(t) PROVE TokensIInv'
  BY <1>6 DEF Revoke, TokensTypeOK, AllIssued, OnlyMine, RetryIsNewer, RefusedIsNotReused, InPc
<1>7. CASE GoesStale
  <2>1. /\ cache' \in Entries /\ cache'.token = cache.token /\ ~cache'.fresh
        /\ UNCHANGED <<request, issued, valid, newest, refused>>
    BY <1>7 DEF GoesStale, TokensTypeOK, Entries
  <2> QED
    BY <2>1 DEF TokensTypeOK, AllIssued, OnlyMine, RetryIsNewer, RefusedIsNotReused, InPc, Entries
<1>8. CASE UNCHANGED tokenVars
  BY <1>8 DEF tokenVars, TokensTypeOK, AllIssued, OnlyMine, RetryIsNewer, RefusedIsNotReused, InPc
<1> QED
  BY <1>1, <1>2, <1>3, <1>4, <1>5, <1>6, <1>7, <1>8 DEF TokensNext

\* The strengthening holds in every reachable state.
LEMMA TokensInvariant == TokensSpec => []TokensIInv
BY TokensStart, TokensStep, PTL DEF TokensSpec

\* However calls and logins interleave, a call gives up only after a retry with a token
\* younger than its first refusal, and no token that a first try was refused with is in
\* the cache as fresh (withXenteAuth, getToken).
THEOREM RefusedTokensStayOut == TokensSpec => []RefusedIsNotReused
<1>1. TokensIInv => RefusedIsNotReused
  BY DEF TokensIInv
<1> QED BY <1>1, TokensInvariant, PTL

-----------------------------------------------------------------------------
(***************************************************************************)
(* Migrations.  A run decides by what it read at its start; what it read   *)
(* stays true, because no row is ever removed (ReadIsTrue).  It is at a    *)
(* file only when all files before it are in the table (BehindIsApplied),  *)
(* and the row it holds until its commit is held by no other run           *)
(* (HoldsAlone).                                                           *)
(***************************************************************************)

USE MigrationAssumption

Rows == [FileList -> {0} \cup Checksums]
RunStates == [pc : RunnerPcs, length : 0..Files, text : Rows, read : Rows, file : 0..Files + 1]
Listed(r) == runner[r].pc \in {"next", "commit"}

\* What a run read in the table is still there.
ReadIsTrue ==
  \A r \in Runners : Listed(r) => \A f \in FileList : runner[r].read[f] # 0 => applied[f] # 0

\* The files that a run has passed are in the table.
BehindIsApplied ==
  \A r \in Runners : Listed(r) =>
    /\ runner[r].file \in 1..Files + 1
    /\ \A g \in FileList : g < runner[r].file => applied[g] # 0

\* A run that is about to commit a file is the only one, and the file has no row yet.
HoldsAlone ==
  \A r \in Runners : runner[r].pc = "commit" =>
    /\ runner[r].file \in FileList /\ applied[runner[r].file] = 0
    /\ \A q \in Runners \ {r} : runner[q].pc = "commit" => runner[q].file # runner[r].file

\* A run with its list has a text for every file.
HasTexts ==
  \A r \in Runners : runner[r].pc \in {"read", "next", "commit"} =>
    \A f \in FileList : runner[r].text[f] \in Checksums

MigrationsIInv ==
  /\ MigrationsTypeOK
  /\ ReadIsTrue /\ BehindIsApplied /\ HoldsAlone /\ HasTexts
  /\ RunsOnceInOrder

LEMMA RunMoves ==
  ASSUME MigrationsTypeOK, NEW r \in Runners, NEW s \in RunStates, SetRunner(r, s)
  PROVE  /\ runner'[r] = s
         /\ \A q \in Runners : q # r => runner'[q] = runner[q]
         /\ runner' \in [Runners -> RunStates]
BY DEF MigrationsTypeOK, RunStates, Rows, SetRunner

LEMMA GoesMoves ==
  ASSUME MigrationsTypeOK, NEW r \in Runners, NEW pc \in RunnerPcs, NEW read \in Rows,
         NEW file \in 0..Files + 1, Goes(r, pc, read, file)
  PROVE  /\ runner'[r].pc = pc /\ runner'[r].length = runner[r].length
         /\ runner'[r].text = runner[r].text /\ runner'[r].read = read /\ runner'[r].file = file
         /\ \A q \in Runners : q # r => runner'[q] = runner[q]
         /\ runner' \in [Runners -> RunStates]
<1> DEFINE s == [pc |-> pc, length |-> runner[r].length, text |-> runner[r].text, read |-> read, file |-> file]
<1>1. s \in RunStates /\ s.pc = pc /\ s.length = runner[r].length /\ s.text = runner[r].text
      /\ s.read = read /\ s.file = file
  BY DEF MigrationsTypeOK, RunStates, Rows
<1>2. SetRunner(r, s)
  BY DEF Goes
<1> HIDE DEF s
<1> QED BY <1>1, <1>2, RunMoves

LEMMA NothingIsRead == NothingRead \in Rows
BY DEF NothingRead, Rows

\* A run that moves without committing a file: what must hold of it afterwards.
LEMMA OneRunMoves ==
  ASSUME MigrationsIInv, NEW r \in Runners, UNCHANGED <<applied, effects>>,
         runner' \in [Runners -> RunStates],
         \A q \in Runners : q # r => runner'[q] = runner[q],
         Listed(r)' =>
           /\ \A f \in FileList : runner'[r].read[f] # 0 => applied[f] # 0
           /\ runner'[r].file \in 1..Files + 1
           /\ \A g \in FileList : g < runner'[r].file => applied[g] # 0,
         runner'[r].pc = "commit" =>
           /\ runner'[r].file \in FileList /\ applied[runner'[r].file] = 0
           /\ \A q \in Runners \ {r} : runner[q].pc = "commit" => runner[q].file # runner'[r].file,
         runner'[r].pc \in {"read", "next", "commit"} => \A f \in FileList : runner'[r].text[f] \in Checksums
  PROVE  MigrationsIInv'
<1>1. MigrationsTypeOK'
  BY DEF MigrationsIInv, MigrationsTypeOK, RunStates, Rows
<1>2. ReadIsTrue'
  BY DEF MigrationsIInv, ReadIsTrue, Listed
<1>3. BehindIsApplied'
  BY DEF MigrationsIInv, BehindIsApplied, Listed
<1>4. HoldsAlone'
  BY DEF MigrationsIInv, HoldsAlone
<1>5. HasTexts'
  BY DEF MigrationsIInv, HasTexts
<1>6. RunsOnceInOrder'
  BY DEF MigrationsIInv, RunsOnceInOrder
<1> QED BY <1>1, <1>2, <1>3, <1>4, <1>5, <1>6 DEF MigrationsIInv

\* A run ends, wherever it is.
LEMMA ExitKeeps ==
  ASSUME MigrationsIInv, NEW r \in Runners, Exit(r)
  PROVE  MigrationsIInv'
<1>1. Exited \in RunStates /\ Exited.pc = "exit"
  BY NothingIsRead DEF Exited, RunStates, RunnerPcs
<1>2. /\ runner'[r] = Exited /\ runner' \in [Runners -> RunStates]
      /\ \A q \in Runners : q # r => runner'[q] = runner[q]
  BY <1>1, RunMoves DEF Exit, MigrationsIInv
<1> QED BY <1>1, <1>2, OneRunMoves DEF Exit, Listed

LEMMA MigrationsStart == MigrationsInit => MigrationsIInv
<1> SUFFICES ASSUME MigrationsInit PROVE MigrationsIInv
  OBVIOUS
<1>1. AtRest \in RunStates /\ AtRest.pc = "new"
  BY NothingIsRead DEF AtRest, RunStates, RunnerPcs
<1>2. MigrationsTypeOK
  BY <1>1 DEF MigrationsInit, MigrationsTypeOK, RunStates, Rows
<1>3. \A r \in Runners : runner[r].pc = "new"
  BY <1>1 DEF MigrationsInit
<1>4. ReadIsTrue /\ BehindIsApplied /\ HoldsAlone /\ HasTexts
  BY <1>3 DEF ReadIsTrue, BehindIsApplied, HoldsAlone, HasTexts, Listed
<1>5. RunsOnceInOrder
  BY DEF MigrationsInit, RunsOnceInOrder, FileList
<1> QED BY <1>2, <1>4, <1>5 DEF MigrationsIInv

LEMMA ValidateKeeps ==
  ASSUME MigrationsIInv, NEW r \in Runners, NEW length \in FileList, NEW onDisk,
         NEW text \in [FileList -> Checksums], Validate(r, length, onDisk, text)
  PROVE  MigrationsIInv'
<1>1. CASE Exit(r)
  BY <1>1, ExitKeeps
<1>2. CASE ~Exit(r)
  <2> DEFINE s == [pc |-> "read", length |-> length, text |-> text, read |-> NothingRead, file |-> 0]
  <2>1. s \in RunStates /\ s.pc = "read" /\ s.text = text
    BY NothingIsRead DEF RunStates, RunnerPcs, Rows, FileList
  <2>2. SetRunner(r, s) /\ UNCHANGED <<applied, effects>>
    BY <1>2 DEF Validate
  <2> HIDE DEF s
  <2>3. /\ runner'[r] = s /\ runner' \in [Runners -> RunStates]
        /\ \A q \in Runners : q # r => runner'[q] = runner[q]
    BY <2>1, <2>2, RunMoves DEF MigrationsIInv
  <2> QED BY <2>1, <2>2, <2>3, OneRunMoves DEF Listed
<1> QED BY <1>1, <1>2

LEMMA ReadKeeps ==
  ASSUME MigrationsIInv, NEW r \in Runners, GetAppliedMigrations(r)
  PROVE  MigrationsIInv'
<1>1. /\ runner[r].pc = "read" /\ applied \in Rows /\ 1 \in 0..Files + 1
      /\ Goes(r, "next", applied, 1) /\ UNCHANGED <<applied, effects>>
  BY DEF GetAppliedMigrations, MigrationsIInv, MigrationsTypeOK, Rows
<1>2. /\ runner'[r].pc = "next" /\ runner'[r].text = runner[r].text
      /\ runner'[r].read = applied /\ runner'[r].file = 1
      /\ \A q \in Runners : q # r => runner'[q] = runner[q]
      /\ runner' \in [Runners -> RunStates]
  BY <1>1, GoesMoves DEF MigrationsIInv, RunnerPcs
<1>3. \A f \in FileList : runner'[r].text[f] \in Checksums
  BY <1>1, <1>2 DEF MigrationsIInv, HasTexts
<1>4. 1 \in 1..Files + 1 /\ \A g \in FileList : ~(g < 1)
  BY DEF FileList
<1> QED BY <1>1, <1>2, <1>3, <1>4, OneRunMoves

LEMMA SkipKeeps ==
  ASSUME MigrationsIInv, NEW r \in Runners, SkipApplied(r)
  PROVE  MigrationsIInv'
<1> DEFINE f == runner[r].file
<1>1. /\ runner[r].pc = "next" /\ f <= runner[r].length /\ runner[r].read[f] # 0
      /\ Goes(r, "next", runner[r].read, f + 1) /\ UNCHANGED <<applied, effects>>
  BY DEF SkipApplied
<1>2. /\ runner[r].read \in Rows /\ runner[r].length \in 0..Files /\ f \in 1..Files + 1
      /\ \A g \in FileList : runner[r].read[g] # 0 => applied[g] # 0
      /\ \A g \in FileList : g < f => applied[g] # 0
      /\ \A g \in FileList : runner[r].text[g] \in Checksums
  BY <1>1 DEF MigrationsIInv, MigrationsTypeOK, ReadIsTrue, BehindIsApplied, HasTexts, Listed, Rows
<1>3. f \in FileList /\ f + 1 \in 0..Files + 1 /\ f + 1 \in 1..Files + 1
  BY <1>1, <1>2 DEF FileList
<1>4. /\ runner'[r].pc = "next" /\ runner'[r].text = runner[r].text
      /\ runner'[r].read = runner[r].read /\ runner'[r].file = f + 1
      /\ \A q \in Runners : q # r => runner'[q] = runner[q]
      /\ runner' \in [Runners -> RunStates]
  BY <1>1, <1>2, <1>3, GoesMoves DEF MigrationsIInv, RunnerPcs
<1>5. \A g \in FileList : g < f + 1 => applied[g] # 0
  BY <1>1, <1>2, <1>3 DEF FileList
<1> HIDE DEF f
<1> QED BY <1>1, <1>2, <1>3, <1>4, <1>5, OneRunMoves

LEMMA ExecuteKeeps ==
  ASSUME MigrationsIInv, NEW r \in Runners, Execute(r)
  PROVE  MigrationsIInv'
<1> DEFINE f == runner[r].file
<1>1. CASE RowTaken(f)
  BY <1>1, ExitKeeps DEF Execute
<1>2. CASE ~RowTaken(f)
  <2>1. /\ runner[r].pc = "next" /\ f <= runner[r].length /\ ~RowHeld(r, f) /\ applied[f] = 0
        /\ Goes(r, "commit", runner[r].read, f) /\ UNCHANGED <<applied, effects>>
    BY <1>2 DEF Execute, RowTaken
  <2>2. /\ runner[r].read \in Rows /\ runner[r].length \in 0..Files /\ f \in 1..Files + 1
        /\ \A g \in FileList : runner[r].read[g] # 0 => applied[g] # 0
        /\ \A g \in FileList : g < f => applied[g] # 0
        /\ \A g \in FileList : runner[r].text[g] \in Checksums
    BY <2>1 DEF MigrationsIInv, MigrationsTypeOK, ReadIsTrue, BehindIsApplied, HasTexts, Listed, Rows
  <2>3. f \in FileList /\ f \in 0..Files + 1
    BY <2>1, <2>2 DEF FileList
  <2>4. \A q \in Runners \ {r} : runner[q].pc = "commit" => runner[q].file # f
    BY <2>1 DEF RowHeld
  <2>5. /\ runner'[r].pc = "commit" /\ runner'[r].text = runner[r].text
        /\ runner'[r].read = runner[r].read /\ runner'[r].file = f
        /\ \A q \in Runners : q # r => runner'[q] = runner[q]
        /\ runner' \in [Runners -> RunStates]
    BY <2>1, <2>2, <2>3, GoesMoves DEF MigrationsIInv, RunnerPcs
  <2> HIDE DEF f
  <2> QED BY <2>1, <2>2, <2>3, <2>4, <2>5, OneRunMoves
<1> QED BY <1>1, <1>2

\* The commit of a file: its row and its effects appear together, after those of every
\* file before it.
LEMMA CommitKeeps ==
  ASSUME MigrationsIInv, NEW r \in Runners, Commit(r)
  PROVE  MigrationsIInv'
<1> DEFINE f == runner[r].file
           t == runner[r].text[f]
<1>1. /\ runner[r].pc = "commit"
      /\ applied' = [applied EXCEPT ![f] = t]
      /\ effects' = [effects EXCEPT ![f] = Append(effects[f], t)]
      /\ Goes(r, "next", runner[r].read, f + 1)
  BY DEF Commit
<1>2. /\ runner[r].read \in Rows /\ f \in FileList /\ applied[f] = 0
      /\ \A g \in FileList : runner[r].read[g] # 0 => applied[g] # 0
      /\ \A g \in FileList : g < f => applied[g] # 0
      /\ \A g \in FileList : runner[r].text[g] \in Checksums
      /\ \A q \in Runners \ {r} : runner[q].pc = "commit" => runner[q].file # f
  BY <1>1 DEF MigrationsIInv, MigrationsTypeOK, ReadIsTrue, BehindIsApplied, HasTexts, Listed, Rows, HoldsAlone
<1>3. f + 1 \in 0..Files + 1 /\ f + 1 \in 1..Files + 1 /\ t \in Checksums /\ t # 0
  BY <1>2 DEF FileList, Checksums
<1>4. /\ runner'[r].pc = "next" /\ runner'[r].text = runner[r].text
      /\ runner'[r].read = runner[r].read /\ runner'[r].file = f + 1
      /\ \A q \in Runners : q # r => runner'[q] = runner[q]
      /\ runner' \in [Runners -> RunStates]
  BY <1>1, <1>2, <1>3, GoesMoves DEF MigrationsIInv, RunnerPcs
<1>5. effects[f] = <<>> /\ effects \in [FileList -> Seq(Checksums)] /\ applied \in Rows
  BY <1>2 DEF MigrationsIInv, RunsOnceInOrder, MigrationsTypeOK, Rows
<1> HIDE DEF t
<1>6. Append(effects[f], t) = <<t>> /\ <<t>> \in Seq(Checksums)
  BY <1>3, <1>5
<1>7. /\ applied' \in Rows /\ applied'[f] = t /\ effects'[f] = <<t>>
      /\ \A g \in FileList : g # f => applied'[g] = applied[g] /\ effects'[g] = effects[g]
      /\ effects' \in [FileList -> Seq(Checksums)]
  BY <1>1, <1>2, <1>3, <1>5, <1>6 DEF Rows
<1> HIDE DEF f
<1>8. \A g \in FileList : applied[g] # 0 => applied'[g] # 0
  BY <1>3, <1>7
<1>a. MigrationsTypeOK'
  BY <1>4, <1>7 DEF MigrationsTypeOK, RunStates, Rows
<1>b. ReadIsTrue'
  BY <1>2, <1>4, <1>8 DEF MigrationsIInv, ReadIsTrue, Listed
<1>c. BehindIsApplied'
  BY <1>2, <1>3, <1>4, <1>7, <1>8 DEF MigrationsIInv, BehindIsApplied, Listed, FileList
<1>d. HoldsAlone'
  <2>1. \A q \in Runners : runner'[q].pc = "commit" => q # r /\ runner'[q] = runner[q] /\ runner[q].file # f
    BY <1>2, <1>4
  <2>2. \A q \in Runners : runner[q].pc = "commit" => runner[q].file \in FileList /\ applied[runner[q].file] = 0
    BY DEF MigrationsIInv, HoldsAlone
  <2>3. \A q, p \in Runners : runner[q].pc = "commit" /\ runner[p].pc = "commit" /\ q # p => runner[p].file # runner[q].file
    BY DEF MigrationsIInv, HoldsAlone
  <2> QED BY <2>1, <2>2, <2>3, <1>7 DEF HoldsAlone
<1>e. HasTexts'
  BY <1>2, <1>4 DEF MigrationsIInv, HasTexts
<1>f. RunsOnceInOrder'
  <2> SUFFICES ASSUME NEW g \in FileList
               PROVE  /\ effects'[g] = IF applied'[g] = 0 THEN <<>> ELSE <<applied'[g]>>
                      /\ \A h \in 1..g : applied'[g] # 0 => applied'[h] # 0
    BY DEF RunsOnceInOrder
  <2>1. CASE g = f
    BY <2>1, <1>2, <1>3, <1>7, <1>8 DEF FileList
  <2>2. CASE g # f
    <3>1. \A h \in 1..g : h \in FileList
      BY DEF FileList
    <3>2. \A h \in 1..g : applied[g] # 0 => applied[h] # 0
      BY DEF MigrationsIInv, RunsOnceInOrder
    <3> QED BY <2>2, <3>1, <3>2, <1>7, <1>8 DEF MigrationsIInv, RunsOnceInOrder
  <2> QED BY <2>1, <2>2
<1> QED BY <1>a, <1>b, <1>c, <1>d, <1>e, <1>f DEF MigrationsIInv

LEMMA MigrationsStep == MigrationsIInv /\ [MigrationsNext]_migrationVars => MigrationsIInv'
<1> SUFFICES ASSUME MigrationsIInv, [MigrationsNext]_migrationVars PROVE MigrationsIInv'
  OBVIOUS
<1>1. ASSUME NEW r \in Runners, Abort(r) \/ Finish(r) PROVE MigrationsIInv'
  BY <1>1, ExitKeeps DEF Abort, Finish
<1>2. CASE UNCHANGED migrationVars
  BY <1>2 DEF migrationVars, MigrationsIInv, MigrationsTypeOK, ReadIsTrue, BehindIsApplied, HoldsAlone,
              HasTexts, RunsOnceInOrder, Listed
<1> QED
  BY <1>1, <1>2, ValidateKeeps, ReadKeeps, SkipKeeps, ExecuteKeeps, CommitKeeps DEF MigrationsNext

\* The strengthening holds in every reachable state.
LEMMA MigrationsInvariant == MigrationsSpec => []MigrationsIInv
BY MigrationsStart, MigrationsStep, PTL DEF MigrationsSpec

\* However many runs of the script overlap and wherever they are stopped, a file has run
\* once if the table names it and not at all otherwise, and none before one that the list
\* puts ahead of it (apply-migrations.ts, IDEMPOTENCE).
THEOREM MigrationsRunOnce == MigrationsSpec => []RunsOnceInOrder
<1>1. MigrationsIInv => RunsOnceInOrder
  BY DEF MigrationsIInv
<1> QED BY <1>1, MigrationsInvariant, PTL

=============================================================================
