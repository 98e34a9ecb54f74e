---------------------------- MODULE Migrations ----------------------------
(***************************************************************************)
(* The runner of the hand-written migrations: every release brings a list  *)
(* of files, the runner applies those that the tracking table does not     *)
(* name, each in a transaction that also inserts its row.  Deployments may *)
(* overlap and may be stopped anywhere; a file's text may have been        *)
(* changed since it ran.                                                   *)
(***************************************************************************)
EXTENDS Integers, Sequences

CONSTANTS
  Runners,    \* runs of the script
  Files       \* number of files of the longest list

ASSUME MigrationAssumption == Files \in Nat

VARIABLES
  applied,    \* public.applied_migrations: file -> checksum, 0 without a row
  runner,     \* run -> its list's length, its texts, what it read, the file it is at
  effects     \* ghost: file -> the texts whose effects are in the database

migrationVars == <<applied, runner, effects>>

Checksums == {1, 2}
FileList == 1..Files
NothingRead == [f \in FileList |-> 0]
AtRest == [pc |-> "new", length |-> 0, text |-> NothingRead, read |-> NothingRead, file |-> 0]
Exited == [pc |-> "exit", length |-> 0, text |-> NothingRead, read |-> NothingRead, file |-> 0]

MigrationsInit ==
  /\ applied = [f \in FileList |-> 0]
  /\ runner = [r \in Runners |-> AtRest]
  /\ effects = [f \in FileList |-> <<>>]

SetRunner(r, record) == runner' = [runner EXCEPT ![r] = record]
\* A run with its list goes on.
Goes(r, pc, read, file) ==
  SetRunner(r, [pc |-> pc, length |-> runner[r].length, text |-> runner[r].text, read |-> read, file |-> file])
Exit(r) == SetRunner(r, Exited) /\ UNCHANGED <<applied, effects>>

\* validateFileList: a file that is missing or not on the list ends the run.
ValidFileList(length, onDisk) == onDisk = 1..length

\* The start of applyMigrations, with the release's list and what lies in its directory.
Validate(r, length, onDisk, text) ==
  /\ runner[r] = AtRest
  /\ IF ValidFileList(length, onDisk)
     THEN /\ SetRunner(r, [pc |-> "read", length |-> length, text |-> text, read |-> NothingRead, file |-> 0])
          /\ UNCHANGED <<applied, effects>>
     ELSE Exit(r)

\* getAppliedMigrations: read once.
GetAppliedMigrations(r) ==
  /\ runner[r].pc = "read"
  /\ Goes(r, "next", applied, 1)
  /\ UNCHANGED <<applied, effects>>

\* Applied by what was read: skipped, whether or not the text is still the same.
SkipApplied(r) ==
  LET f == runner[r].file
  IN /\ runner[r].pc = "next" /\ f <= runner[r].length /\ runner[r].read[f] # 0
     /\ Goes(r, "next", runner[r].read, f + 1)
     /\ UNCHANGED <<applied, effects>>

\* BEGIN, the file, and the row.  The row's key is waited for while another transaction
\* holds it, and refused once that one committed.
\* Mutant: a tracking table without its primary key.
NoKey(f) == FALSE
RowTaken(f) == applied[f] # 0
RowHeld(r, f) == \E q \in Runners \ {r} : runner[q].pc = "commit" /\ runner[q].file = f
Execute(r) ==
  LET f == runner[r].file
  IN /\ runner[r].pc = "next" /\ f <= runner[r].length /\ runner[r].read[f] = 0
     /\ ~RowHeld(r, f)
     /\ IF RowTaken(f) THEN Exit(r)
        ELSE Goes(r, "commit", runner[r].read, f) /\ UNCHANGED <<applied, effects>>

\* COMMIT: the effects and the row.
Commit(r) ==
  LET f == runner[r].file
  IN /\ runner[r].pc = "commit"
     /\ applied' = [applied EXCEPT ![f] = runner[r].text[f]]
     /\ effects' = [effects EXCEPT ![f] = Append(@, runner[r].text[f])]
     /\ Goes(r, "next", runner[r].read, f + 1)

\* Any statement fails and is rolled back, or the run is stopped.
Abort(r) == runner[r].pc \notin {"new", "exit"} /\ Exit(r)

\* All files done.
Finish(r) == runner[r].pc = "next" /\ runner[r].file > runner[r].length /\ Exit(r)

MigrationsNext ==
  \E r \in Runners :
    \/ \E length \in FileList, onDisk \in {1..n : n \in FileList}, text \in [FileList -> Checksums] :
         Validate(r, length, onDisk, text)
    \/ GetAppliedMigrations(r) \/ SkipApplied(r) \/ Execute(r) \/ Commit(r) \/ Abort(r) \/ Finish(r)

MigrationsSpec == MigrationsInit /\ [][MigrationsNext]_migrationVars

-----------------------------------------------------------------------------
RunnerPcs == {"new", "read", "next", "commit", "exit"}
\* The table has one checksum per file, and effects every text that ran.
MigrationsTypeOK ==
  /\ applied \in [FileList -> {0} \cup Checksums]
  /\ runner \in [Runners -> [pc : RunnerPcs, length : 0..Files, text : [FileList -> {0} \cup Checksums],
                            read : [FileList -> {0} \cup Checksums], file : 0..Files + 1]]
  /\ effects \in [FileList -> Seq(Checksums)]

\* However runs of the script overlap and wherever they are stopped, the effects of a
\* file are in the database once if the table names it, with the checksum of the text
\* that ran, and not at all otherwise; and no file ran before one that the list puts
\* ahead of it (apply-migrations.ts, IDEMPOTENCE).
RunsOnceInOrder ==
  \A f \in FileList :
    /\ effects[f] = IF applied[f] = 0 THEN <<>> ELSE <<applied[f]>>
    /\ \A g \in 1..f : applied[f] # 0 => applied[g] # 0

=============================================================================
