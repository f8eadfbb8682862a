------------------------------ MODULE PairWrite ------------------------------
(***************************************************************************)
(* atomicWritePair of packages/report/src/cli.ts: two output files are     *)
(* replaced together.  Both are staged beside their paths, what is there   *)
(* is renamed to a backup, the staged files are renamed to the paths, and  *)
(* the backups are deleted; an error on the way is rolled back, and errors *)
(* of the roll-back itself are swallowed.  The process may be killed       *)
(* between any two system calls.  One call writes a pair at a time.        *)
(***************************************************************************)
EXTENDS Naturals

VARIABLES
  before,     \* what stood at each path before the call: "old" or "absent"
  file,       \* what stands there now
  staged,     \* the files that were staged
  temporary,  \* the temporary files on disk
  backups,    \* the backups on disk; each holds what was old
  installed,  \* the files that were renamed to their paths
  phase,      \* the loop the call is in
  entry,      \* the entry the loop is at
  outcome,    \* "running", or how the call ended
  swallowed   \* an unlink or rename of the roll-back failed

disk == <<file, temporary, backups>>
pairVars == <<before, disk, staged, installed, phase, entry, outcome, swallowed>>

Entries == 1 .. 2

PairTypeOK ==
  /\ before \in [Entries -> {"old", "absent"}]
  /\ file \in [Entries -> {"old", "new", "absent"}]
  /\ {staged, temporary, backups, installed} \subseteq SUBSET Entries
  /\ phase \in {"stage", "backup", "install", "undo", "restore", "sweep", "discard", "over"}
  /\ entry \in Entries
  /\ outcome \in {"running", "written", "failed", "killed"}
  /\ swallowed \in BOOLEAN

PairInit ==
  /\ before \in [Entries -> {"old", "absent"}]
  /\ file = before
  /\ staged = {} /\ temporary = {} /\ backups = {} /\ installed = {}
  /\ phase = "stage" /\ entry = 1
  /\ outcome = "running" /\ swallowed = FALSE

\* The loop goes on with the second entry, or ends and the next one begins.
Loop(again, next) ==
  /\ entry' = 3 - entry
  /\ phase' = IF entry = 1 THEN again ELSE next
\* An error ends the loop; the roll-back starts with the first entry.
Catch == entry' = 1 /\ phase' = "undo"

\* A staged file that cannot be written or synced stays where it was opened.
StageEntry ==
  /\ phase = "stage"
  /\ \/ /\ staged' = staged \cup {entry} /\ temporary' = temporary \cup {entry}
        /\ Loop("stage", "backup")
     \/ /\ temporary' \in {temporary, temporary \cup {entry}} /\ Catch
        /\ UNCHANGED staged
  /\ UNCHANGED <<before, file, backups, installed, outcome, swallowed>>

BackUp ==
  /\ phase = "backup"
  /\ \/ /\ file[entry] # "absent"
        /\ file' = [file EXCEPT ![entry] = "absent"] /\ backups' = backups \cup {entry}
        /\ Loop("backup", "install")
     \/ /\ file[entry] = "absent" /\ Loop("backup", "install")
        /\ UNCHANGED <<file, backups>>
     \/ Catch /\ UNCHANGED <<file, backups>>
  /\ UNCHANGED <<before, temporary, staged, installed, outcome, swallowed>>

\* Mutant: a backup is deleted as soon as its own file is installed.
Install_DropsBackup ==
  /\ phase = "install"
  /\ \/ /\ file' = [file EXCEPT ![entry] = "new"] /\ temporary' = temporary \ {entry}
        /\ installed' = installed \cup {entry} /\ backups' = backups \ {entry}
        /\ Loop("install", "discard")
     \/ Catch /\ UNCHANGED <<file, temporary, installed, backups>>
  /\ UNCHANGED <<before, staged, outcome, swallowed>>

Install ==
  /\ phase = "install"
  /\ \/ /\ file' = [file EXCEPT ![entry] = "new"] /\ temporary' = temporary \ {entry}
        /\ installed' = installed \cup {entry}
        /\ Loop("install", "discard")
     \/ Catch /\ UNCHANGED <<file, temporary, installed>>
  /\ UNCHANGED <<before, backups, staged, outcome, swallowed>>

\* The roll-back of an entry: what was installed is deleted, its backup renamed back.
Undo ==
  /\ phase = "undo"
  /\ \/ entry \in installed /\ file' = [file EXCEPT ![entry] = "absent"] /\ UNCHANGED swallowed
     \/ entry \in installed /\ swallowed' = TRUE /\ UNCHANGED file
     \/ entry \notin installed /\ UNCHANGED <<file, swallowed>>
  /\ phase' = "restore"
  /\ UNCHANGED <<before, temporary, backups, staged, installed, entry, outcome>>

Restore ==
  /\ phase = "restore"
  /\ \/ /\ entry \in backups
        /\ file' = [file EXCEPT ![entry] = "old"] /\ backups' = backups \ {entry}
        /\ UNCHANGED swallowed
     \/ entry \in backups /\ swallowed' = TRUE /\ UNCHANGED <<file, backups>>
     \/ entry \notin backups /\ UNCHANGED <<file, backups, swallowed>>
  /\ Loop("undo", "sweep")
  /\ UNCHANGED <<before, temporary, staged, installed, outcome>>

\* The staged files are deleted, as far as that succeeds, and the call throws.
Sweep ==
  /\ phase = "sweep"
  /\ \E deleted \in SUBSET staged : temporary' = temporary \ deleted
  /\ phase' = "over" /\ outcome' = "failed"
  /\ UNCHANGED <<before, file, backups, staged, installed, entry, swallowed>>

\* The backups are deleted all at once; the call throws when one cannot be.
Discard ==
  /\ phase = "discard"
  /\ backups' \in SUBSET backups
  /\ phase' = "over" /\ outcome' = IF backups' = {} THEN "written" ELSE "failed"
  /\ UNCHANGED <<before, file, temporary, staged, installed, entry, swallowed>>

Killed ==
  /\ phase # "over"
  /\ phase' = "over" /\ outcome' = "killed"
  /\ UNCHANGED <<before, disk, staged, installed, entry, swallowed>>

PairNext == StageEntry \/ BackUp \/ Install \/ Undo \/ Restore \/ Sweep \/ Discard \/ Killed

PairSpec == PairInit /\ [][PairNext]_pairVars

-----------------------------------------------------------------------------
(* Properties.                                                             *)

AllNew == \A e \in Entries : file[e] = "new"

\* Whatever fails and whenever the process is killed, the new pair is complete or
\* everything of the old one is still there, at its path or in its backup.
OldPairKept ==
  AllNew \/ \A e \in Entries : before[e] = "old" => file[e] = "old" \/ e \in backups

\* A call that returns has replaced both files and left nothing behind.  One that throws
\* has changed nothing, unless the roll-back failed, or only a backup could not be deleted.
OutcomeIsHonest ==
  /\ outcome = "written" => AllNew /\ backups = {} /\ temporary = {}
  /\ outcome = "failed" /\ ~swallowed => AllNew \/ (file = before /\ backups = {})

\* A pair of outputs is never mixed without a way back (atomicWritePair).
PairIsWhole == OldPairKept /\ OutcomeIsHonest
=============================================================================
