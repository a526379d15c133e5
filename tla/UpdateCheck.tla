------------------------------- MODULE UpdateCheck -------------------------------
(***************************************************************************)
(* The release check (UpdateChecker in host/mcuscope/update_check.py): any *)
(* number of GET /status may start one, at most one is in flight, it       *)
(* writes a cache off the loop that the next run of the daemon reads, and  *)
(* the switch is flipped and the daemon stopped or killed meanwhile. A day *)
(* is Day ticks.                                                           *)
(***************************************************************************)
EXTENDS Integers

CONSTANTS
  Day,          \* CHECK_INTERVAL_S
  Retry,        \* RETRY_INTERVAL_S
  MaxClock,     \* bound: ticks
  MaxRuns       \* bound: runs of the daemon

None == -1

VARIABLES
  now, runs,
  cache,        \* the time in the cache file, None without a usable one
  up, enabled,
  checkedAt, retryAfter,
  task,         \* "idle", "asking", "saving": the check in flight
  asked,        \* history: when the last request that was answered was made; None
  failed,       \* history: when the last one failed in this run; None
  unsaved       \* history: an answer that never reached the cache

runVars == <<up, enabled, checkedAt, retryAfter, task>>
pastVars == <<asked, failed, unsaved>>
vars == <<now, runs, cache, runVars, pastVars>>

Init ==
  /\ now = 0 /\ runs = 0 /\ cache = None
  /\ up = FALSE /\ enabled = FALSE /\ checkedAt = None /\ retryAfter = 0 /\ task = "idle"
  /\ asked = None /\ failed = None /\ unsaved = FALSE

(* _load_cache: a time in the future counts as now. *)
Loaded == IF cache > now THEN now ELSE cache

Start ==
  /\ ~up /\ runs < MaxRuns
  /\ up' = TRUE /\ runs' = runs + 1 /\ enabled' \in BOOLEAN
  /\ checkedAt' = Loaded /\ retryAfter' = 0 /\ task' = "idle" /\ failed' = None
  /\ UNCHANGED <<now, cache, asked, unsaved>>

(* Mutant: a failed check does not hold the next one back. *)
DueAtOnce == enabled /\ (checkedAt = None \/ now >= checkedAt + Day)

(* _due. *)
Due == enabled /\ now >= retryAfter /\ (checkedAt = None \/ now >= checkedAt + Day)

(* maybe_check, from the start of the daemon or a GET /status. *)
MaybeCheck ==
  /\ up /\ Due /\ task = "idle"
  /\ task' = "asking"
  /\ UNCHANGED <<now, runs, cache, up, enabled, checkedAt, retryAfter, pastVars>>

(* Mutant: a version that is no release counts as a failure. *)
AnsweredWithRelease ==
  /\ task = "asking"
  /\ asked' = now /\ task' = "idle" /\ retryAfter' = now + Retry
  /\ UNCHANGED <<now, runs, cache, up, enabled, checkedAt, failed, unsaved>>

(* check_once with an answer, a usable version in it or not: the time is     *)
(* taken, then the cache is written on a thread.                            *)
Answered ==
  /\ task = "asking"
  /\ checkedAt' = now /\ asked' = now /\ task' = "saving"
  /\ unsaved' = TRUE
  /\ UNCHANGED <<now, runs, cache, up, enabled, retryAfter, failed>>

(* _save_cache: the file is replaced, or a full disk is logged. *)
Saved ==
  /\ task = "saving"
  /\ task' = "idle"
  /\ \/ cache' = checkedAt /\ unsaved' = FALSE
     \/ UNCHANGED <<cache, unsaved>>
  /\ UNCHANGED <<now, runs, up, enabled, checkedAt, retryAfter, asked, failed>>

(* No network, a proxy, a body that is not JSON: _check_and_hold. *)
Failed ==
  /\ task = "asking"
  /\ retryAfter' = now + Retry /\ failed' = now /\ task' = "idle"
  /\ UNCHANGED <<now, runs, cache, up, enabled, checkedAt, asked, unsaved>>

SetEnabled ==
  /\ up /\ enabled' = ~enabled
  /\ UNCHANGED <<now, runs, cache, up, checkedAt, retryAfter, task, pastVars>>

(* aclose cancels what is in flight, a kill ends it: a save may be done or not. *)
Ends ==
  /\ up /\ up' = FALSE /\ task' = "idle"
  /\ \/ task = "saving" /\ cache' = checkedAt /\ unsaved' = FALSE
     \/ UNCHANGED <<cache, unsaved>>
  /\ UNCHANGED <<now, runs, enabled, checkedAt, retryAfter, asked, failed>>

Tick == now < MaxClock /\ now' = now + 1 /\ UNCHANGED <<runs, cache, runVars, pastVars>>

Next == Start \/ MaybeCheck \/ Answered \/ Saved \/ Failed \/ SetEnabled \/ Ends \/ Tick

Spec == Init /\ [][Next]_vars

-------------------------------------------------------------------------------
(* Properties. *)

(* Every variable holds what its comment says. *)
TypeOK ==
  /\ now \in 0 .. MaxClock /\ runs \in 0 .. MaxRuns /\ up \in BOOLEAN /\ enabled \in BOOLEAN
  /\ cache \in None .. MaxClock /\ checkedAt \in None .. MaxClock
  /\ task \in {"idle", "asking", "saving"}

(* No request is made within a day of one that was answered, over restarts   *)
(* and however often the switch is flipped, as long as the answer could be   *)
(* saved; and none within an hour of one that failed in the same run.        *)
RequestsAreSpaced ==
  [][task # "asking" /\ task' = "asking" =>
       /\ asked # None /\ (~unsaved \/ checkedAt = asked) => now >= asked + Day
       /\ failed # None => now >= failed + Retry]_vars
===============================================================================
