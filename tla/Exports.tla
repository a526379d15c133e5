--------------------------------- MODULE Exports --------------------------------
(***************************************************************************)
(* Session exports and bundles (host/mcuscope/server.py): a request claims *)
(* one of a few slots or waits for one, a bundle then takes the store's    *)
(* _sweep_lock and reads what it will hold, and a pool thread builds the   *)
(* copy in temp files next to the capture. The build cannot be stopped at  *)
(* once: a request whose client leaves, or that the stopping daemon        *)
(* cancels, abandons it, and whichever of the two ends second removes the  *)
(* files.                                                                  *)
(***************************************************************************)
EXTENDS Naturals, FiniteSets

CONSTANTS
  Req,         \* requests in flight at a time
  Workers,     \* EXPORT_WORKERS
  Waiting,     \* EXPORT_QUEUE_MAX: builds admitted beyond those that run
  WaitersMax,  \* EXPORT_WAITERS_MAX
  MaxCalls,    \* bound: requests made
  MaxPurges,   \* bound: deletes of stored lines
  MaxKills     \* bound: kills of the daemon

Slots == Workers + Waiting

VARIABLES
  up,          \* "up", "stopping" (the lifespan's finally), "down"
  pc,          \* per request: "idle", "parked", "lock", "admitted", "awaiting", "sending"
  kind,        \* per request: "db" or "bundle"
  woken,       \* per request: its wait for a slot has ended
  left,        \* per request: its client has disconnected
  job,         \* per request: the build it started last
  builds,      \* export_builds
  freed,       \* export_freed
  sweepLock,   \* holder of _sweep_lock: a request, "purge" or ""
  torn,        \* history, per request: lines were deleted since its bundle read its span
  calls, purges, kills

callVars == <<pc, kind, woken, left>>
poolVars == <<job, builds, freed>>
pastVars == <<torn, calls, purges, kills>>
vars == <<up, callVars, poolVars, sweepLock, pastVars>>

(* st: how far the pool is with it; todo: steps left; files: those on disk;  *)
(* told: the loop has run the callbacks of its end; sweeps: a cleanup of a   *)
(* finished job is due on the cleanup pool.                                  *)
NoJob == [st |-> "none", todo |-> <<>>, files |-> {}, abandoned |-> FALSE, told |-> TRUE,
          sweeps |-> FALSE]

Steps(k) == IF k = "db" THEN {"out"} ELSE {"out", "copy"}

Init ==
  /\ up = "up" /\ pc = [r \in Req |-> "idle"] /\ kind = [r \in Req |-> "db"]
  /\ woken = [r \in Req |-> FALSE] /\ left = [r \in Req |-> FALSE]
  /\ job = [r \in Req |-> NoJob] /\ builds = 0 /\ freed = FALSE /\ sweepLock = ""
  /\ torn = [r \in Req |-> FALSE] /\ calls = 0 /\ purges = 0 /\ kills = 0

-------------------------------------------------------------------------------
(* Admission. *)

Parked(r) == pc[r] = "parked"
Waiters   == {r \in Req : Parked(r)}

(* Mutant: the slot is given back and nobody is told. *)
SetNothing == UNCHANGED <<freed, woken>>

(* export_freed.set: whoever waits in it wakes up. *)
SetFreed == freed' = TRUE /\ woken' = [r \in Req |-> woken[r] \/ Parked(r)]

(* Where a request goes once it has its slot. *)
Admitted(r, k) ==
  /\ builds' = builds + 1
  /\ pc' = [pc EXCEPT ![r] = IF k = "bundle" THEN "lock" ELSE "admitted"]
  /\ UNCHANGED <<woken, freed>>

(* A waiter clears the event and waits in it, which a set before its first  *)
(* turn ends as well.                                                       *)
Park(r) ==
  /\ pc' = [pc EXCEPT ![r] = "parked"]
  /\ woken' = [woken EXCEPT ![r] = FALSE] /\ freed' = FALSE
  /\ UNCHANGED builds

Refuse(r) == pc' = [pc EXCEPT ![r] = "idle"] /\ UNCHANGED <<woken, builds, freed>>

(* _admit, from its loop's test on, with nothing awaited between the test    *)
(* and the claim.                                                            *)
Admit(r, k, waits) ==
  \/ builds < Slots /\ Admitted(r, k)
  \/ builds >= Slots /\ waits /\ Cardinality(Waiters \ {r}) < WaitersMax /\ Park(r)
  \/ builds >= Slots /\ ~(waits /\ Cardinality(Waiters \ {r}) < WaitersMax) /\ Refuse(r)

Call(r) ==
  /\ up = "up" /\ pc[r] = "idle" /\ calls < MaxCalls
  /\ job[r].told /\ job[r].files = {}      \* names its build by the request
  /\ calls' = calls + 1
  /\ \E k \in {"db", "bundle"}, waits \in BOOLEAN :
       kind' = [kind EXCEPT ![r] = k] /\ Admit(r, k, waits)
  /\ job' = [job EXCEPT ![r] = NoJob]
  /\ left' = [left EXCEPT ![r] = FALSE] /\ torn' = [torn EXCEPT ![r] = FALSE]
  /\ UNCHANGED <<up, sweepLock, purges, kills>>

(* A woken waiter, or one whose client left: gone is asked after the wait.   *)
WaitEnds(r) ==
  /\ Parked(r) /\ (woken[r] \/ left[r])
  /\ IF left[r] THEN Refuse(r) ELSE Admit(r, kind[r], TRUE)
  /\ UNCHANGED <<up, kind, left, job, sweepLock, pastVars>>

ClientLeaves(r) ==
  /\ pc[r] \in {"parked", "lock", "awaiting"} /\ ~left[r]
  /\ left' = [left EXCEPT ![r] = TRUE]
  /\ UNCHANGED <<up, pc, kind, woken, poolVars, sweepLock, pastVars>>

-------------------------------------------------------------------------------
(* The build. *)

(* Mutant: a bundle reads its span and lets go of the lock. *)
TakeLockBriefly(r) ==
  /\ pc[r] = "lock" /\ sweepLock = ""
  /\ pc' = [pc EXCEPT ![r] = "admitted"] /\ torn' = [torn EXCEPT ![r] = FALSE]
  /\ UNCHANGED <<up, kind, woken, left, poolVars, sweepLock, calls, purges, kills>>

(* A bundle holds the lock from here; its span, its session and the readers *)
(* of its members are read now, or the session is gone and the slot free.   *)
TakeLock(r) ==
  /\ pc[r] = "lock" /\ sweepLock = ""
  /\ \/ /\ sweepLock' = r /\ pc' = [pc EXCEPT ![r] = "admitted"]
        /\ torn' = [torn EXCEPT ![r] = FALSE]
        /\ UNCHANGED <<woken, builds, freed>>
     \/ /\ pc' = [pc EXCEPT ![r] = "idle"] /\ builds' = builds - 1 /\ SetFreed
        /\ UNCHANGED <<sweepLock, torn>>
  /\ UNCHANGED <<up, kind, left, job, calls, purges, kills>>

Submit(r) ==
  /\ pc[r] = "admitted"
  /\ pc' = [pc EXCEPT ![r] = "awaiting"]
  /\ job' = [job EXCEPT ![r] = [NoJob EXCEPT !.st = "queued", !.told = FALSE]]
  /\ UNCHANGED <<up, kind, woken, left, builds, freed, sweepLock, pastVars>>

JobStarts(r) ==
  /\ job[r].st = "queued"
  /\ Cardinality({q \in Req : job[q].st \in {"files", "copy", "zip"}}) < Workers
  /\ job' = [job EXCEPT ![r].st = "files"]
  /\ UNCHANGED <<up, callVars, builds, freed, sweepLock, pastVars>>

(* mkstemp of every file the build needs. *)
MakesFiles(r) ==
  /\ job[r].st = "files"
  /\ job' = [job EXCEPT ![r].st = "copy", ![r].files = Steps(kind[r])]
  /\ UNCHANGED <<up, callVars, builds, freed, sweepLock, pastVars>>

(* The copy and the members, which an abandoned job is cut off from at the   *)
(* next checkpoint; the intermediate copy goes.                              *)
Copies(r) ==
  /\ job[r].st = "copy"
  /\ job' = [job EXCEPT ![r].st = "zip", ![r].files = {"out"}]
  /\ UNCHANGED <<up, callVars, builds, freed, sweepLock, pastVars>>

(* A full disk, or an abandon met on the way: run removes every file. *)
JobFails(r) ==
  /\ job[r].st \in {"files", "copy", "zip"}
  /\ job' = [job EXCEPT ![r].st = "failed", ![r].files = {}]
  /\ UNCHANGED <<up, callVars, builds, freed, sweepLock, pastVars>>

(* Mutant: the end does not ask whether the request is still there. *)
FinishKeeps(r) == {"out"}

(* What is left on disk at the end, decided under the job's lock. *)
FinishLeaves(r) == IF job[r].abandoned THEN {} ELSE {"out"}

JobFinishes(r) ==
  /\ job[r].st = "zip"
  /\ job' = [job EXCEPT ![r].st = "finished", ![r].files = FinishLeaves(r)]
  /\ UNCHANGED <<up, callVars, builds, freed, sweepLock, pastVars>>

Ended(j) == j.st \in {"failed", "finished", "cancelled"}

(* Mutant: a build cancelled in the pool's queue keeps its slot. *)
ToldUnlessCancelled(r) ==
  /\ Ended(job[r]) /\ ~job[r].told /\ up # "down"
  /\ job' = [job EXCEPT ![r].told = TRUE]
  /\ builds' = IF job[r].st = "cancelled" THEN builds ELSE builds - 1
  /\ SetFreed
  /\ UNCHANGED <<up, pc, kind, left, sweepLock, pastVars>>

(* The callbacks of the end, on the loop: the slot first, then the result.  *)
Told(r) ==
  /\ Ended(job[r]) /\ ~job[r].told /\ up # "down"
  /\ job' = [job EXCEPT ![r].told = TRUE]
  /\ builds' = builds - 1 /\ SetFreed
  /\ UNCHANGED <<up, pc, kind, left, sweepLock, pastVars>>

Unlocks(r) == sweepLock' = IF sweepLock = r THEN "" ELSE sweepLock

(* The result is there: it is sent, or the failure is. *)
Built(r) ==
  /\ pc[r] = "awaiting" /\ job[r].told
  /\ pc' = [pc EXCEPT ![r] = IF job[r].st = "finished" THEN "sending" ELSE "idle"]
  /\ Unlocks(r)
  /\ UNCHANGED <<up, kind, woken, left, poolVars, pastVars>>

(* Mutant: a build that has finished is not looked after. *)
AbandonRunning(j) ==
  [j EXCEPT !.abandoned = TRUE, !.st = IF @ = "queued" THEN "cancelled" ELSE @]

(* built.cancel() and job.abandon(): a queued build never starts, a running *)
(* one is told, and the files of a finished one go on the cleanup pool.      *)
Abandon(j) ==
  [j EXCEPT !.abandoned = TRUE, !.st = IF @ = "queued" THEN "cancelled" ELSE @,
            !.sweeps = j.st = "finished"]

ClientGone(r) ==
  /\ pc[r] = "awaiting" /\ left[r] /\ ~job[r].told
  /\ pc' = [pc EXCEPT ![r] = "idle"] /\ job' = [job EXCEPT ![r] = Abandon(@)]
  /\ Unlocks(r)
  /\ UNCHANGED <<up, kind, woken, left, builds, freed, pastVars>>

Cleans(r) ==
  /\ job[r].sweeps
  /\ job' = [job EXCEPT ![r].files = {}, ![r].sweeps = FALSE]
  /\ UNCHANGED <<up, callVars, builds, freed, sweepLock, pastVars>>

(* _TempFileResponse: sent, cut off or cancelled, the file goes. *)
Sent(r) ==
  /\ pc[r] = "sending"
  /\ pc' = [pc EXCEPT ![r] = "idle"] /\ job' = [job EXCEPT ![r].files = {}]
  /\ UNCHANGED <<up, kind, woken, left, builds, freed, sweepLock, pastVars>>

-------------------------------------------------------------------------------
(* The rest of the daemon. *)

PurgeTakesLock ==
  /\ up = "up" /\ sweepLock = "" /\ purges < MaxPurges
  /\ sweepLock' = "purge" /\ purges' = purges + 1
  /\ UNCHANGED <<up, callVars, poolVars, torn, calls, kills>>

PurgeDeletes ==
  /\ sweepLock = "purge" /\ sweepLock' = ""
  /\ torn' = [r \in Req |-> torn[r] \/ (kind[r] = "bundle" /\ pc[r] \in {"admitted", "awaiting"})]
  /\ UNCHANGED <<up, callVars, poolVars, calls, purges, kills>>

Stop ==
  /\ up = "up" /\ up' = "stopping"
  /\ UNCHANGED <<callVars, poolVars, sweepLock, pastVars>>

(* A graceful stop waits for the handlers and cancels those that take long. *)
Cancelled(r) ==
  /\ up = "stopping" /\ pc[r] \notin {"idle", "sending"}
  /\ pc' = [pc EXCEPT ![r] = "idle"] /\ Unlocks(r)
  /\ IF pc[r] = "awaiting" THEN job' = [job EXCEPT ![r] = Abandon(@)] ELSE UNCHANGED job
  /\ IF pc[r] \in {"lock", "admitted"} THEN builds' = builds - 1 /\ SetFreed
     ELSE UNCHANGED <<builds, freed, woken>>
  /\ UNCHANGED <<up, kind, left, pastVars>>

(* The lifespan removes what is listed, and the exit joins the pools. *)
Stopped ==
  /\ up = "stopping" /\ \A r \in Req : pc[r] = "idle"
  /\ \A r \in Req : job[r].st = "none" \/ Ended(job[r])
  /\ up' = "down" /\ job' = [r \in Req |-> [job[r] EXCEPT !.told = TRUE, !.sweeps = FALSE,
                             !.files = IF job[r].sweeps THEN {} ELSE @]]
  /\ builds' = 0 /\ freed' = FALSE
  /\ UNCHANGED <<callVars, sweepLock, pastVars>>

(* A kill leaves whatever was on disk. *)
Killed ==
  /\ up # "down" /\ kills < MaxKills
  /\ up' = "down" /\ kills' = kills + 1
  /\ pc' = [r \in Req |-> "idle"] /\ woken' = [r \in Req |-> FALSE]
  /\ job' = [r \in Req |-> [NoJob EXCEPT !.files = job[r].files]]
  /\ builds' = 0 /\ freed' = FALSE /\ sweepLock' = ""
  /\ UNCHANGED <<kind, left, torn, calls, purges>>

(* _sweep_export_orphans, by the name that carries the capture's key. *)
Start ==
  /\ up = "down" /\ up' = "up" /\ job' = [r \in Req |-> NoJob]
  /\ UNCHANGED <<callVars, builds, freed, sweepLock, pastVars>>

-------------------------------------------------------------------------------
Next ==
  \/ \E r \in Req :
       \/ Call(r) \/ WaitEnds(r) \/ ClientLeaves(r) \/ TakeLock(r) \/ Submit(r)
       \/ JobStarts(r) \/ MakesFiles(r) \/ Copies(r) \/ JobFails(r) \/ JobFinishes(r)
       \/ Told(r) \/ Built(r) \/ ClientGone(r) \/ Cleans(r) \/ Sent(r) \/ Cancelled(r)
  \/ PurgeTakesLock \/ PurgeDeletes \/ Stop \/ Stopped \/ Killed \/ Start

Spec == Init /\ [][Next]_vars

-------------------------------------------------------------------------------
(* Properties. *)

(* Every variable holds what its comment says. *)
TypeOK ==
  /\ up \in {"up", "stopping", "down"} /\ builds \in 0 .. Slots /\ freed \in BOOLEAN
  /\ pc \in [Req -> {"idle", "parked", "lock", "admitted", "awaiting", "sending"}]
  /\ sweepLock \in Req \cup {"", "purge"}
  /\ \A r \in Req : job[r].files \subseteq {"out", "copy"}

(* No temp copy outlives its use: when a request is over and its build has   *)
(* come to its end, nothing of it is on disk, whichever of the two was       *)
(* first, and after a restart not even what a killed daemon left.            *)
NothingLeftOnDisk ==
  up # "down" => \A r \in Req :
    pc[r] = "idle" /\ (job[r].st = "none" \/ (Ended(job[r]) /\ ~job[r].sweeps)) => job[r].files = {}

(* The file a response is sending is there. *)
SentFileExists == \A r \in Req : pc[r] = "sending" => job[r].files = {"out"}

(* The slots are counted exactly: one for each request that has claimed one  *)
(* and not submitted, and for each build not known to have ended, so that    *)
(* abandoned builds never pile up and no slot is lost.                       *)
SlotsExact ==
  up # "down" => builds = Cardinality({r \in Req : pc[r] \in {"lock", "admitted"}})
                           + Cardinality({r \in Req : job[r].st # "none" /\ ~job[r].told})

(* Nobody waits for a slot that is free: each waiter was woken. *)
FreeSlotWakesWaiters == builds < Slots => \A r \in Waiters : woken[r]

(* The members of a bundle that is sent agree: no line was deleted between   *)
(* the reading of its span and the end of its build.                         *)
BundleIsOneSnapshot == \A r \in Req : pc[r] = "sending" /\ kind[r] = "bundle" => ~torn[r]
===============================================================================
