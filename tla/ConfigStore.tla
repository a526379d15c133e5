------------------------------- MODULE ConfigStore -------------------------------
(***************************************************************************)
(* The configuration file (host/mcuscope/config.py and the /config         *)
(* endpoints of host/mcuscope/server.py): a save reads the file, refuses   *)
(* one that has changed since the client read it, changes its own section  *)
(* and replaces the file through a temporary one, on a thread under a lock *)
(* of the daemon. Another daemon of the same user and an editor share the  *)
(* file and not the lock. The revision of a file is its contents.          *)
(***************************************************************************)
EXTENDS Naturals, FiniteSets

CONSTANTS
  Daemon,       \* daemons that were given the same file
  Job,          \* saves that can be in flight: their daemon and their name there
  Value,        \* values of a setting
  MaxSaves,     \* bound: saves asked for
  MaxEdits,     \* bound: saves of an editor
  MaxKills      \* bound: kills of a daemon

(* A file: what [storage] says, and the eol of a port.                       *)
File == [storage : Value, eol : Value]
Torn == [storage |-> "cut", eol |-> "cut"]   \* a write that was cut off
Sections == {"storage", "ports"}

VARIABLES
  file,         \* the contents on disk
  tmp,          \* per temporary name: what is written there
  up,           \* per daemon
  running,      \* per daemon: the storage settings in force
  lock,         \* per daemon: the request that holds config_write_lock, "" for none
  job,          \* per request: its save
  mine,         \* history, per daemon: nobody else has replaced the file since it started
  saves, edits, kills

pastVars == <<mine, saves, edits, kills>>
vars == <<file, tmp, up, running, lock, job, pastVars>>

Idle == [pc |-> "idle", section |-> "storage", val |-> "cut", omits |-> FALSE, checks |-> FALSE,
         rev |-> Torn, base |-> Torn]

Init ==
  /\ file \in {f \in File : f.storage = f.eol}
  /\ tmp = [t \in Daemon |-> Torn] /\ up = [d \in Daemon |-> TRUE]
  /\ running = [d \in Daemon |-> file.storage]
  /\ lock = [d \in Daemon |-> ""] /\ job = [j \in Job |-> Idle]
  /\ mine = [d \in Daemon |-> TRUE] /\ saves = 0 /\ edits = 0 /\ kills = 0

Is(j, pc) == up[j[1]] /\ job[j].pc = pc
To(j, pc) == job' = [job EXCEPT ![j].pc = pc]

(* A client has read the file some time before (GET /config), or sends no    *)
(* revision. A save of the ports that leaves the eol out takes the one it    *)
(* reads now, before the lock.                                               *)
Ask(j) ==
  /\ Is(j, "idle") /\ saves < MaxSaves /\ saves' = saves + 1
  /\ \E s \in Sections, v \in Value, checks, omits \in BOOLEAN :
       /\ omits => s = "ports" /\ v = file.eol
       /\ job' = [job EXCEPT ![j] = [Idle EXCEPT !.pc = "lock", !.section = s, !.val = v,
                    !.omits = omits, !.checks = checks, !.rev = IF checks THEN file ELSE Torn]]
  /\ UNCHANGED <<file, tmp, up, running, lock, mine, edits, kills>>

(* Mutant: every request for itself. *)
LockNothing(j) ==
  /\ Is(j, "lock") /\ To(j, "read")
  /\ UNCHANGED <<file, tmp, up, running, lock, pastVars>>

Lock(j) ==
  /\ Is(j, "lock") /\ lock[j[1]] = "" /\ To(j, "read")
  /\ lock' = [lock EXCEPT ![j[1]] = j[2]]
  /\ UNCHANGED <<file, tmp, up, running, pastVars>>

Unlocked(d) == lock' = [lock EXCEPT ![d] = ""]

(* _read_doc: one read for the comparison and for the document. *)
Read(j) ==
  /\ Is(j, "read")
  /\ IF job[j].checks /\ job[j].rev # file
     THEN To(j, "idle") /\ Unlocked(j[1])
     ELSE job' = [job EXCEPT ![j].pc = "write", ![j].base = file] /\ UNCHANGED lock
  /\ UNCHANGED <<file, tmp, up, running, pastVars>>

(* Mutant: one name for the temporary file of all. *)
OneTmp(d) == CHOOSE t \in Daemon : TRUE

(* The temporary name carries the daemon's pid. *)
Tmp(d) == d

(* The document with the section changed: what else was read stays. *)
Edited(j) ==
  IF job[j].section = "storage" THEN [job[j].base EXCEPT !.storage = job[j].val]
  ELSE [job[j].base EXCEPT !.eol = job[j].val]

(* write_new_file truncates, and writes. *)
Truncate(j) ==
  /\ Is(j, "write") /\ To(j, "fill")
  /\ tmp' = [tmp EXCEPT ![Tmp(j[1])] = Torn]
  /\ UNCHANGED <<file, up, running, lock, pastVars>>

Fill(j) ==
  /\ Is(j, "fill")
  /\ \/ To(j, "replace") /\ tmp' = [tmp EXCEPT ![Tmp(j[1])] = Edited(j)] /\ UNCHANGED lock
     \/ To(j, "idle") /\ Unlocked(j[1]) /\ UNCHANGED tmp      \* a full disk
  /\ UNCHANGED <<file, up, running, pastVars>>

(* replace_atomic; a sharing violation that lasts fails the save. *)
Replace(j) ==
  /\ Is(j, "replace")
  /\ \/ /\ file' = tmp[Tmp(j[1])] /\ To(j, "saved")
        /\ mine' = [d \in Daemon |-> mine[d] /\ d = j[1]]
        /\ UNCHANGED lock
     \/ To(j, "idle") /\ Unlocked(j[1]) /\ UNCHANGED <<file, mine>>
  /\ UNCHANGED <<tmp, up, running, saves, edits, kills>>

(* Mutant: the settings are applied when the request came in, not after the  *)
(* save.                                                                     *)
AppliesNothing(j) == running

Applies(j) == IF job[j].section = "storage" THEN [running EXCEPT ![j[1]] = job[j].val] ELSE running

(* Back on the loop: the lock is free and the settings apply, in one step.   *)
Reply(j) ==
  /\ Is(j, "saved") /\ To(j, "idle") /\ Unlocked(j[1])
  /\ running' = Applies(j)
  /\ UNCHANGED <<file, tmp, up, pastVars>>

-------------------------------------------------------------------------------
Edit ==
  /\ edits < MaxEdits /\ edits' = edits + 1
  /\ mine' = [d \in Daemon |-> FALSE]
  /\ \E v \in Value : file' \in {[file EXCEPT !.storage = v], [file EXCEPT !.eol = v]} \ {file}
  /\ UNCHANGED <<tmp, up, running, lock, job, saves, kills>>

Kill(d) ==
  /\ up[d] /\ kills < MaxKills /\ kills' = kills + 1
  /\ up' = [up EXCEPT ![d] = FALSE]
  /\ lock' = [lock EXCEPT ![d] = ""]
  /\ job' = [j \in Job |-> IF j[1] = d THEN Idle ELSE job[j]]
  /\ UNCHANGED <<file, tmp, running, mine, saves, edits>>

Start(d) ==
  /\ ~up[d] /\ up' = [up EXCEPT ![d] = TRUE]
  /\ running' = [running EXCEPT ![d] = file.storage]
  /\ mine' = [mine EXCEPT ![d] = TRUE]
  /\ UNCHANGED <<file, tmp, lock, job, saves, edits, kills>>

-------------------------------------------------------------------------------
Next ==
  \/ \E j \in Job :
       Ask(j) \/ Lock(j) \/ Read(j) \/ Truncate(j) \/ Fill(j) \/ Replace(j) \/ Reply(j)
  \/ Edit
  \/ \E d \in Daemon : Kill(d) \/ Start(d)

Spec == Init /\ [][Next]_vars

-------------------------------------------------------------------------------
(* Properties. *)

(* Every variable holds what its comment says. *)
TypeOK ==
  /\ \A t \in Daemon : tmp[t] \in File \cup {Torn}
  /\ up \in [Daemon -> BOOLEAN] /\ running \in [Daemon -> Value]
  /\ \A d \in Daemon : lock[d] = "" \/ <<d, lock[d]>> \in Job

(* A daemon that starts, after a kill in the middle of a save too, finds a   *)
(* whole file: nobody else's half-written bytes are ever moved onto it.      *)
FileIsWhole == file \in File

(* As long as nobody else has written the file since it started, a daemon's  *)
(* settings in force are those in the file, whichever of its requests saved  *)
(* last, and but for the one whose reply is due.                             *)
RunningIsSaved ==
  \A d \in Daemon : mine[d] /\ up[d] /\ (\A j \in Job : j[1] = d => job[j].pc # "saved") =>
    running[d] = file.storage

(* A save of the ports that leaves the eol out keeps the one in the file.    *)
(* It does not hold: the eol is read before the lock is taken.               *)
OmittedEolKept ==
  [][\A j \in Job : Is(j, "replace") /\ job[j].omits /\ edits = 0 /\ job'[j].pc = "saved" =>
       file'.eol = file.eol]_vars
===============================================================================
