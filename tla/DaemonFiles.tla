-------------------------------- MODULE DaemonFiles --------------------------------
(***************************************************************************)
(* The state that outlives or surrounds a daemon: the pid record and the   *)
(* capture lock (DaemonLife), the configuration file (ConfigStore), the    *)
(* table of the HTTP guard (TokenGuard) and the update check's cache       *)
(* (UpdateCheck).  Each keeps a state of its own, so a behaviour here is   *)
(* a behaviour of one of them, and its invariant is asked of it.           *)
(***************************************************************************)
EXTENDS Integers, FiniteSets

CONSTANTS
  Daemons, Commands, Kinds, Captures, MaxCrashes, Recycles,          \* of DaemonLife
  Writer,                                                            \* ConfigStore's daemons
  Value, Job, MaxSaves, MaxEdits, MaxKills,                          \* of ConfigStore
  Client, FailMax, Window, Lockout, TableMax, MaxTicks,              \* of TokenGuard
  Day, Retry, MaxToday, MaxRuns                                      \* of UpdateCheck

ASSUME LifeAssumption   == Daemons \in Nat /\ Commands \in Nat
ASSUME ConfigAssumption == \A j \in Job : j = <<j[1], j[2]>> /\ j[1] \in Writer /\ j[2] # ""
ASSUME GuardAssumption  == Lockout \in Nat /\ TableMax \in Nat \ {0} /\ MaxTicks \in Nat
ASSUME CheckAssumption  == Day \in Int /\ Retry \in Int

VARIABLES
  part,       \* whose behaviour this is
  \* DaemonLife
  record, lock, port, pc, ret, tgt, aside, db, owns, child, recorded, serving, stranger, hit,
  known, robbed, residual, crashes,
  \* ConfigStore
  file, tmp, up, running, writeLock, job, mine, saves, edits, kills,
  \* TokenGuard
  now, fails, evicting, warned, compared,
  \* UpdateCheck
  today, runs, cache, on, enabled, checkedAt, retryAfter, task, asked, failed, unsaved

lifeVars   == <<record, lock, port, pc, ret, tgt, aside, db, owns, child, recorded, serving,
                stranger, hit, known, robbed, residual, crashes>>
configVars == <<file, tmp, up, running, writeLock, job, mine, saves, edits, kills>>
guardVars  == <<now, fails, evicting, warned, compared>>
updateVars == <<today, runs, cache, on, enabled, checkedAt, retryAfter, task, asked, failed, unsaved>>
vars       == <<part, lifeVars, configVars, guardVars, updateVars>>

L == INSTANCE DaemonLife
C == INSTANCE ConfigStore WITH Daemon <- Writer, lock <- writeLock
G == INSTANCE TokenGuard WITH MaxClock <- MaxTicks
U == INSTANCE UpdateCheck WITH MaxClock <- MaxToday, now <- today, up <- on

Init ==
  /\ part \in {"life", "config", "guard", "update"}
  /\ L!Init /\ C!Init /\ G!Init /\ U!Init

Next ==
  /\ UNCHANGED part
  /\ \/ part = "life" /\ L!Next /\ UNCHANGED <<configVars, guardVars, updateVars>>
     \/ part = "config" /\ C!Next /\ UNCHANGED <<lifeVars, guardVars, updateVars>>
     \/ part = "guard" /\ G!Next /\ UNCHANGED <<lifeVars, configVars, updateVars>>
     \/ part = "update" /\ U!Next /\ UNCHANGED <<lifeVars, configVars, guardVars>>

Spec == Init /\ [][Next]_vars

\* DaemonLife: no losing start, stale removal or late tidy-up takes the record of a daemon
\* that serves, and a start that reported success left its daemon recorded; one that failed
\* left no process behind.
RecordsSound ==
  part = "life" =>
    L!TypeOK /\ L!ServingKeepsRecord /\ L!StartedIsRecorded /\ L!FailedStartLeavesNothing

\* DaemonLife: a pid is signalled only if the daemon that answers says it is its own.
NoStrangerSignalled == part = "life" => L!NoStrangerSignalled

\* ConfigStore: the file is whole at every moment, and what runs is what was saved.
ConfigSound == part = "config" => C!TypeOK /\ C!FileIsWhole /\ C!RunningIsSaved

\* TokenGuard: the table of failures stays within its bound, and a client that goes on
\* guessing is let in again no later than a lockout after its last wrong guess.
GuardSound == part = "guard" => G!TypeOK /\ G!TableIsBounded /\ G!LockoutEndsInTime

\* UpdateCheck: requests to the release server keep their distance, over restarts too.
RequestsAreSpaced == U!RequestsAreSpaced
===============================================================================
