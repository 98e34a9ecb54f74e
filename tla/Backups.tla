------------------------------ MODULE Backups ------------------------------
(***************************************************************************)
(* The weekly backup and its dead man's switch.  On Sunday at three a      *)
(* script dumps the database through a pipe into a cipher, looks at the    *)
(* file, and uploads it; on Monday at nine another one looks for an upload *)
(* of the last eight days and raises an alert if it finds none.  Both run  *)
(* as children of the server, or by hand, and anything of them may fail.   *)
(*                                                                         *)
(* Time is the hour since a Sunday's midnight, and stops at the hours that *)
(* matter; a script is over long before the next of them.                  *)
(***************************************************************************)
EXTENDS Integers, FiniteSets

CONSTANTS
  Weeks,       \* weeks that are looked at
  MaxByHand    \* bound on backups that somebody runs by hand

ASSUME BackupAssumption == Weeks \in Nat \ {0} /\ MaxByHand \in Nat

VARIABLES
  hour,      \* the hour it is
  due,       \* jobs of this hour that have not started
  env,       \* how the server is set up: with the store, told to skip it, without
  backup,    \* who -> where its backup is: by the schedule, by hand
  objects,   \* what lies under gezi/backups/
  ended,     \* how backups ended: who, when, result, and whether the dump was whole
  beat,      \* the last heartbeat check
  byHand     \* backups run by hand so far

backupVars == <<hour, due, env, backup, objects, ended, beat, byHand>>

Sunday3 == 3
Monday9 == 33
HoursOfWeek == {Sunday3, 12, Monday9, 100}   \* and two hours for work by hand
WeekLength == 168
Hours == {w * WeekLength + h : w \in 0..(Weeks - 1), h \in HoursOfWeek}
SundayOf(h) == h - (h % WeekLength) + Sunday3

MAX_AGE == 8 * 24

Idle == [pc |-> "idle", dump |-> "none"]
NoBeat == [at |-> 0, result |-> "none", via |-> {}]

\* startScheduler
Jobs(h) ==
  IF h % WeekLength = Sunday3 THEN {"backup"} ELSE IF h % WeekLength = Monday9 THEN {"heartbeat"} ELSE {}

BackupsInit ==
  /\ hour = Sunday3 /\ due = Jobs(Sunday3)
  /\ env \in {"store", "skip", "missing"}
  /\ backup = [w \in {"schedule", "hand"} |-> Idle]
  /\ objects = {} /\ ended = {}
  /\ beat = NoBeat
  /\ byHand = 0

-----------------------------------------------------------------------------
\* The backup

Begun == [pc |-> "dump", dump |-> "none"]

\* runScheduledBackup: without its environment it is skipped.
StartBackup ==
  /\ "backup" \in due /\ due' = due \ {"backup"}
  /\ backup' = [backup EXCEPT !["schedule"] = IF env = "store" THEN Begun ELSE Idle]
  /\ UNCHANGED <<hour, env, objects, ended, beat, byHand>>

\* The script by itself: told to skip the store it does everything else.
RunByHand ==
  /\ byHand < MaxByHand /\ backup["hand"] = Idle /\ env # "missing"
  /\ backup' = [backup EXCEPT !["hand"] = Begun] /\ byHand' = byHand + 1
  /\ UNCHANGED <<hour, due, env, objects, ended, beat>>

Ended(w, result) == [who |-> w, at |-> hour, result |-> result, dump |-> backup[w].dump]
End(w, result) ==
  /\ backup' = [backup EXCEPT ![w] = Idle]
  /\ ended' = ended \cup {Ended(w, result)}

\* pg_dump | openssl -out file: the shell reports the last command of the pipe, so a dump
\* that fails on the way leaves what it wrote, encrypted, and no error.
PipeStatus(dump, cipher) == cipher
RunPipe(w) ==
  /\ backup[w].pc = "dump"
  /\ \E dump \in {"whole", "broken"}, cipher \in {"ok", "failed"} :
       IF PipeStatus(IF dump = "whole" THEN "ok" ELSE "failed", cipher) = "ok"
       THEN backup' = [backup EXCEPT ![w] = [pc |-> "check", dump |-> dump]] /\ UNCHANGED ended
       ELSE End(w, "alert")
  /\ UNCHANGED <<hour, due, env, objects, beat, byHand>>

\* The file exists and is not empty: the cipher's header alone makes it so.
CheckArtifact(w) ==
  /\ backup[w].pc = "check"
  /\ \/ backup' = [backup EXCEPT ![w] = [@ EXCEPT !.pc = "upload"]] /\ UNCHANGED ended
     \/ End(w, "alert")
  /\ UNCHANGED <<hour, due, env, objects, beat, byHand>>

\* PutObject, then backup_succeeded.
Upload(w) ==
  /\ backup[w].pc = "upload"
  /\ \/ /\ objects' = IF env = "skip" THEN objects ELSE objects \cup {[who |-> w, at |-> hour]}
        /\ End(w, "backup_succeeded")
     \/ env = "store" /\ End(w, "alert") /\ UNCHANGED objects
  /\ UNCHANGED <<hour, due, env, beat, byHand>>

\* The wrapper's ten minutes are over, or the server stopped: nothing is uploaded any more.
Killed ==
  /\ backup["schedule"] # Idle /\ End("schedule", "job_failed")
  /\ UNCHANGED <<hour, due, env, objects, beat, byHand>>

-----------------------------------------------------------------------------
\* The heartbeat

\* raiseAlert, sendWhatsAppAlert: always logged, and sent if it can be.
AlertChannels == {{"log"}, {"log", "whatsapp"}}

\* Mutant: nine days.
NineDays(o, h) == o.at >= h - 9 * 24
Recent(o, h) == o.at >= h - MAX_AGE

\* checkBackupHeartbeat reads page after page until it finds a recent object; a page that
\* cannot be read is as bad as finding none.
Checked(read) ==
  IF \E o \in read : Recent(o, hour) THEN {[at |-> hour, result |-> "ok", via |-> {}]}
  ELSE {[at |-> hour, result |-> "alert", via |-> c] : c \in AlertChannels}

\* runScheduledBackupHeartbeat
Heartbeat ==
  /\ "heartbeat" \in due /\ due' = due \ {"heartbeat"}
  /\ IF env = "store" THEN \E read \in SUBSET objects : beat' \in Checked(read) \cup {[NoBeat EXCEPT !.at = hour]}
     ELSE beat' = [NoBeat EXCEPT !.at = hour]
  /\ UNCHANGED <<hour, env, backup, objects, ended, byHand>>

\* What is due now happens now, unless the server is down.
Later ==
  /\ backup = [w \in {"schedule", "hand"} |-> Idle]
  /\ \E h \in Hours :
       /\ h > hour /\ \A g \in Hours : g > hour => h <= g
       /\ hour' = h /\ due' = Jobs(h)
  /\ UNCHANGED <<env, backup, objects, ended, beat, byHand>>

BackupsNext ==
  \/ StartBackup \/ RunByHand \/ Killed \/ Heartbeat \/ Later
  \/ \E w \in {"schedule", "hand"} : RunPipe(w) \/ CheckArtifact(w) \/ Upload(w)

BackupsSpec == BackupsInit /\ [][BackupsNext]_backupVars

-----------------------------------------------------------------------------
\* A heartbeat that finds all well means that Sunday's backup landed, or that somebody
\* made one by hand after nine on the Sunday before: the backup of the week before is
\* never taken for it (checkBackupHeartbeat, MAX_AGE_DAYS).
BeatMeansBackup ==
  beat.result = "ok" =>
    \E o \in objects : o.at >= SundayOf(beat.at) \/ (o.who = "hand" /\ o.at >= beat.at - MAX_AGE)

\* A backup that ends as backup_succeeded holds the whole dump ("Failures must be loud",
\* and the row counts that should detect "silent partial dumps", backup.ts).
SucceededIsWhole == \A e \in ended : e.result = "backup_succeeded" => e.dump = "whole"

-----------------------------------------------------------------------------
(* The inductive invariant behind BeatMeansBackup                          *)

BackupsTypeOK ==
  /\ hour \in Hours /\ due \subseteq Jobs(hour)
  /\ backup \in [{"schedule", "hand"} -> [pc : {"idle", "dump", "check", "upload"},
                                          dump : {"none", "whole", "broken"}]]
  /\ objects \subseteq [who : {"schedule", "hand"}, at : Hours]

\* What the schedule makes, it makes on a Sunday at three; nothing is from the future.
ScheduleIsSunday ==
  /\ backup["schedule"] # Idle => hour % WeekLength = Sunday3
  /\ \A o \in objects : o.at <= hour /\ (o.who = "schedule" => o.at % WeekLength = Sunday3)

BackupsIInv == BackupsTypeOK /\ ScheduleIsSunday /\ BeatMeansBackup

=============================================================================
