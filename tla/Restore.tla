------------------------------ MODULE Restore ------------------------------
(***************************************************************************)
(* Restoring the shop's SQLite database from a backup file                 *)
(* (backup_service.restore_system_backup): the file is checked beside the  *)
(* database, the database is copied away, and then replaced.  Where the    *)
(* file cannot be replaced, as on Windows while it is open, its content is *)
(* written over in one transaction.  The machine may fail at any step, and *)
(* others go on writing to the database.                                   *)
(*                                                                         *)
(* A database is what its main file says, and the commits in its           *)
(* write-ahead log (WAL) that the main file does not have yet.             *)
(***************************************************************************)
EXTENDS Naturals

CONSTANTS
    MaxCommit,      \* commits that are ever made to the database
    MaxDeath        \* times the machine fails

VARIABLES
    main,       \* the main file: "old" or "restored"
    inMain,     \* the commits it has
    inLog,      \* the commits the log has on top of them
    extracted,  \* the database out of the backup file
    copies,     \* the commits that are in any of the copies
    before,     \* the commits that were there when a restore began
    upgraded,   \* whether the main file has the present structure
    step,       \* what is done next
    deaths      \* times the machine failed

vars == <<main, inMain, inLog, extracted, copies, before, upgraded, step, deaths>>

Commits == 1..MaxCommit

TypeOK ==
    /\ main \in {"old", "restored"}
    /\ inMain \subseteq Commits /\ inLog \subseteq Commits \ inMain
    /\ extracted \in {"none", "part", "good", "bad"}
    /\ copies \subseteq Commits /\ before \subseteq Commits
    /\ upgraded \in BOOLEAN
    /\ step \in {"idle", "extract", "validate", "snapshot", "removeLog", "replace", "overwrite", "upgrade"}
    /\ deaths \in 0..MaxDeath

Init ==
    /\ main = "old" /\ inMain = {} /\ inLog = {}
    /\ extracted = "none" /\ copies = {} /\ before = {} /\ upgraded = TRUE
    /\ step = "idle" /\ deaths = 0

-----------------------------------------------------------------------------

\* Others commit to the old database, and the log is written back now and then.
Commit(n) ==
    /\ main = "old" /\ n \notin inMain \cup inLog \cup before \cup copies
    /\ inLog' = inLog \cup {n}
    /\ UNCHANGED <<main, inMain, extracted, copies, before, upgraded, step, deaths>>

Checkpoint ==
    /\ inLog # {}
    /\ inMain' = inMain \cup inLog /\ inLog' = {}
    /\ UNCHANGED <<main, extracted, copies, before, upgraded, step, deaths>>

Start ==
    /\ step = "idle" /\ main = "old"
    /\ step' = "extract" /\ extracted' = "part"
    /\ before' = before \cup inMain \cup inLog
    /\ UNCHANGED <<main, inMain, inLog, copies, upgraded, deaths>>

\* The file is too large, or it is whatever it is.
Extract ==
    /\ step = "extract"
    /\ \/ extracted' = "none" /\ step' = "idle"
       \/ extracted' \in {"good", "bad"} /\ step' = "validate"
    /\ UNCHANGED <<main, inMain, inLog, copies, before, upgraded, deaths>>

\* Slip: the old database is copied away after it was replaced.
InstallFirst ==
    /\ step = "validate"
    /\ IF extracted = "good" THEN step' = "removeLog" /\ UNCHANGED extracted
       ELSE step' = "idle" /\ extracted' = "none"
    /\ UNCHANGED <<main, inMain, inLog, copies, before, upgraded, deaths>>

\* What is no database of this system is thrown away.
Validate ==
    /\ step = "validate"
    /\ IF extracted = "good" THEN step' = "snapshot" /\ UNCHANGED extracted
       ELSE step' = "idle" /\ extracted' = "none"
    /\ UNCHANGED <<main, inMain, inLog, copies, before, upgraded, deaths>>

\* The copy has the log's commits too.  It may fail, as may the next steps.
Snapshot ==
    /\ step = "snapshot"
    /\ copies' = copies \cup inMain \cup inLog /\ step' = "removeLog"
    /\ UNCHANGED <<main, inMain, inLog, extracted, before, upgraded, deaths>>

\* An old log must not be replayed onto the new file.  Where it is in use, it stays.
RemoveLog ==
    /\ step = "removeLog"
    /\ \/ inLog' = {} /\ step' = "replace"
       \/ step' = "overwrite" /\ UNCHANGED inLog
    /\ UNCHANGED <<main, inMain, extracted, copies, before, upgraded, deaths>>

Restored ==
    /\ main' = "restored" /\ inMain' = {} /\ inLog' = {}
    /\ extracted' = "none" /\ upgraded' = FALSE /\ step' = "upgrade"
    /\ UNCHANGED <<copies, before, deaths>>

Replace ==
    \/ step = "replace" /\ Restored
    \/ /\ step = "replace" /\ step' = "overwrite"
       /\ UNCHANGED <<main, inMain, inLog, extracted, copies, before, upgraded, deaths>>

\* One transaction, which takes the log into account.
Overwrite == step = "overwrite" /\ Restored

\* A step that fails leaves the database as it is by then.
Fail ==
    /\ step \in {"snapshot", "overwrite"}
    /\ step' = "idle" /\ extracted' = "none"
    /\ UNCHANGED <<main, inMain, inLog, copies, before, upgraded, deaths>>

\* The restored database is migrated at once, or at the next start.
Upgrade ==
    /\ step = "upgrade" \/ (step = "idle" /\ ~upgraded)
    /\ upgraded' = TRUE /\ step' = "idle"
    /\ UNCHANGED <<main, inMain, inLog, extracted, copies, before, deaths>>

\* What was extracted is left behind.
Die ==
    /\ step # "idle" /\ deaths < MaxDeath
    /\ step' = "idle" /\ deaths' = deaths + 1
    /\ UNCHANGED <<main, inMain, inLog, extracted, copies, before, upgraded>>

Next ==
    \/ (\E n \in Commits : Commit(n)) \/ Checkpoint \/ Start \/ Extract \/ Validate \/ Snapshot \/ RemoveLog
    \/ Replace \/ Overwrite \/ Fail \/ Upgrade \/ Die

Spec == Init /\ [][Next]_vars

-----------------------------------------------------------------------------

\* What was committed when a restore began is in the database or in a copy beside it, whatever
\* fails and wherever it is broken off: one can go back (backup_service.py:224).  What others
\* commit after the copy was made is lost.
CanGoBack == before \subseteq inMain \cup inLog \cup copies

=============================================================================
