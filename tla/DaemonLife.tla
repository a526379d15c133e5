------------------------------ MODULE DaemonLife ------------------------------
(***************************************************************************)
(* Daemons of one host:port and the commands that start and stop them, as  *)
(* processes that meet in files: the pid record (host/mcuscope/pidfile.py),*)
(* the capture lock (lockfile.py), the listening port, mcuscoped's main    *)
(* (daemon.py) and `mcu daemon start`, `stop` and `restart` (cli.py,       *)
(* cli_daemonctl.py) on POSIX. A process is its pid; every file operation  *)
(* is a step of its own.                                                   *)
(*                                                                         *)
(* Left out: the launcher shim of Windows, the index build a start waits   *)
(* out, messages. A claim's create and its write are one step: the settle  *)
(* of CLAIM_SETTLE_S is there to make them so, unless the claimer dies     *)
(* between them, which leaves the record Empty.                            *)
(***************************************************************************)
EXTENDS Naturals, FiniteSets

CONSTANTS
  Daemons,     \* bound: number of daemon processes
  Commands,    \* bound: number of commands
  Kinds,       \* what commands do: "start", "stop", "restart"
  Captures,    \* db_paths a daemon may be given
  MaxCrashes,  \* bound: daemons killed from outside
  Recycles     \* may a dead daemon's pid go to an unrelated process?

Daemon  == 1 .. Daemons
Command == Daemons + 1 .. Daemons + Commands
Actor   == Daemon \cup Command

Absent == 0
Empty  == Daemons + Commands + 1   \* a record that names nothing readable

VARIABLES
  record,      \* the pid record: Absent, Empty or a pid
  lock,        \* who holds each capture's lock, 0 for nobody
  port,        \* the daemon that listens, 0 for none
  pc, ret,     \* where a process is, and where it goes after remove_record_if
  tgt, aside,  \* remove_record_if: the pid it removes, the record it has moved aside
  db,          \* the capture of each daemon
  owns,        \* daemons whose claim() returned a path
  child,       \* the daemon a start spawned
  recorded,    \* the pid a stop read from the record
  serving,     \* the pid the /status that a stop read names
  stranger,    \* pids of dead daemons that unrelated processes have
  hit,         \* strangers that were sent a signal
  known,       \* the listening daemon has been named by the record
  robbed,      \* history: a stop has tidied up the record of a daemon it did not stop, or
               \* a start put its daemon's pid there when that one served no more
  residual,    \* history: a record moved aside was not put back, its place taken or its
               \* mover killed
  crashes

fileVars == <<record, aside>>
vars == <<record, lock, port, pc, ret, tgt, aside, db, owns, child, recorded, serving, stranger,
          hit, known, robbed, residual, crashes>>

Over       == {"off", "gone"}
Alive(p)   == p \in stranger \/ (p \in Daemon /\ pc[p] \notin Over)
InProgress == {c \in Command : pc[c] \notin {"idle", "ok", "failed"}}

TypeOK ==
  /\ record \in {Absent, Empty} \cup Daemon /\ port \in {0} \cup Daemon
  /\ \A a \in Actor : aside[a] \in {Absent, Empty} \cup Daemon
  /\ lock \in [Captures -> {0} \cup Daemon]
  /\ child \in [Command -> {0} \cup Daemon] /\ owns \subseteq Daemon /\ stranger \subseteq Daemon

Init ==
  /\ record = Absent /\ lock = [x \in Captures |-> 0] /\ port = 0
  /\ pc = [a \in Actor |-> IF a \in Daemon THEN "off" ELSE "idle"]
  /\ ret = [a \in Actor |-> "none"] /\ tgt = [a \in Actor |-> Absent]
  /\ aside = [a \in Actor |-> Absent] /\ db = [p \in Daemon |-> CHOOSE x \in Captures : TRUE]
  /\ owns = {} /\ child = [c \in Command |-> 0] /\ recorded = [c \in Command |-> 0]
  /\ serving = [c \in Command |-> 0] /\ stranger = {} /\ hit = {} /\ known = FALSE /\ robbed = FALSE /\ residual = FALSE
  /\ crashes = 0

Goes(a, to) == pc' = [pc EXCEPT ![a] = to]

(* What the record now names, for the history of the listening daemon.      *)
Records(r, p) == record' = r /\ known' = (p # 0 /\ (r = p \/ (known /\ p = port)))

-------------------------------------------------------------------------------
(* remove_record_if(path, tgt): look, move aside, judge what was moved, and *)
(* put it back if it names somebody else.                                   *)

Removes(a, p, then) ==
  /\ pc' = [pc EXCEPT ![a] = "looks"]
  /\ ret' = [ret EXCEPT ![a] = then] /\ tgt' = [tgt EXCEPT ![a] = p]

Looks(a) ==
  /\ pc[a] = "looks"
  /\ Goes(a, IF record = tgt[a] THEN "takes" ELSE ret[a])
  /\ UNCHANGED <<record, lock, port, ret, tgt, aside, db, owns, child, recorded, serving, stranger,
                 hit, known, robbed, residual, crashes>>

Takes(a) ==
  /\ pc[a] = "takes"
  /\ aside' = [aside EXCEPT ![a] = record]
  /\ Records(Absent, port)
  /\ Goes(a, IF record = Absent THEN ret[a] ELSE "judges")
  /\ UNCHANGED <<lock, port, ret, tgt, db, owns, child, recorded, serving, stranger, hit, robbed, residual, crashes>>

(* Mutant: whatever was moved aside is deleted. *)
JudgesNothing(a) ==
  /\ pc[a] = "judges"
  /\ UNCHANGED <<record, known>>
  /\ aside' = [aside EXCEPT ![a] = Absent]
  /\ Goes(a, ret[a])
  /\ UNCHANGED <<lock, port, ret, tgt, db, owns, child, recorded, serving, stranger, hit, robbed, residual, crashes>>

Judges(a) ==
  /\ pc[a] = "judges"
  /\ IF aside[a] # tgt[a] /\ record = Absent THEN Records(aside[a], port) ELSE UNCHANGED <<record, known>>
  /\ residual' = (residual \/ (aside[a] # tgt[a] /\ record # Absent))
  /\ aside' = [aside EXCEPT ![a] = Absent]
  /\ Goes(a, ret[a])
  /\ UNCHANGED <<lock, port, ret, tgt, db, owns, child, recorded, serving, stranger, hit, robbed, crashes>>

-------------------------------------------------------------------------------
(* mcuscoped. *)

Launched(p, x) ==
  /\ pc[p] = "off" /\ \A q \in Daemon : q < p => pc[q] # "off"
  /\ db' = [db EXCEPT ![p] = x]

(* By hand, or by a service manager. *)
RunByHand(p, x) ==
  /\ Launched(p, x) /\ Goes(p, "locks")
  /\ UNCHANGED <<record, lock, port, ret, tgt, aside, owns, child, recorded, serving, stranger, hit,
                 known, robbed, residual, crashes>>

(* CaptureLock.acquire: retried for a while, then the daemon gives up. *)
Locks(p) ==
  /\ pc[p] = "locks"
  /\ \/ /\ lock[db[p]] = 0
        /\ lock' = [lock EXCEPT ![db[p]] = p] /\ Goes(p, "probes")
     \/ /\ lock[db[p]] # 0
        /\ UNCHANGED lock /\ Goes(p, "gone")
  /\ UNCHANGED <<record, port, ret, tgt, aside, db, owns, child, recorded, serving, stranger, hit,
                 known, robbed, residual, crashes>>

Unlocked(p) == [x \in Captures |-> IF lock[x] = p THEN 0 ELSE lock[x]]

(* _port_conflict, before anything that another daemon would notice.        *)
Probes(p) ==
  /\ pc[p] = "probes"
  /\ IF port = 0 THEN Goes(p, "claims") /\ UNCHANGED lock
     ELSE Goes(p, "gone") /\ lock' = Unlocked(p)
  /\ UNCHANGED <<record, port, ret, tgt, aside, db, owns, child, recorded, serving, stranger, hit,
                 known, robbed, residual, crashes>>

(* pidfile.claim: create, or find the record ours, or leave a live one      *)
(* alone; a stale one is removed and the create tried once more.            *)
Claims(p) ==
  /\ pc[p] \in {"claims", "claims again"}
  /\ \/ /\ record = Absent
        /\ Records(p, port)
        /\ owns' = owns \cup {p} /\ Goes(p, "binds") /\ UNCHANGED <<ret, tgt>>
     \/ /\ record # Absent /\ UNCHANGED <<record, known>>
        /\ owns' = (IF record = p THEN owns \cup {p} ELSE owns)
        /\ IF record = p \/ Alive(record) \/ pc[p] = "claims again"
             THEN Goes(p, "binds") /\ UNCHANGED <<ret, tgt>>
             ELSE Removes(p, record, "claims again")
  /\ UNCHANGED <<lock, port, aside, db, child, recorded, serving, stranger, hit, robbed, residual, crashes>>

(* uvicorn binds after the lifespan has opened the store; a daemon that     *)
(* cannot, leaves through main's finally, which releases the lock first.    *)
Binds(p) ==
  /\ pc[p] = "binds"
  /\ IF port = 0 THEN port' = p /\ known' = (record = p) /\ Goes(p, "serves") /\ UNCHANGED lock
     ELSE Goes(p, "leaves") /\ lock' = Unlocked(p) /\ UNCHANGED <<port, known>>
  /\ UNCHANGED <<record, ret, tgt, aside, db, owns, child, recorded, serving, stranger, hit,
                 robbed, residual, crashes>>

(* SIGTERM, or POST /shutdown which raises it: the sockets close, then the  *)
(* lifespan ends, then the signal is replayed into the handler that         *)
(* releases the record. Before that handler is there, it just dies.         *)
Terminated(p, from) ==
  CASE from \in {"locks", "probes", "claims", "claims again", "looks", "takes", "judges"} -> "gone"
    [] from \in {"binds", "serves"} -> "leaves"
    [] OTHER -> from

Leaves(p) ==
  /\ pc[p] = "leaves"
  /\ IF p \in owns THEN Removes(p, p, "exits") ELSE Goes(p, "exits") /\ UNCHANGED <<ret, tgt>>
  /\ UNCHANGED <<record, lock, port, aside, db, owns, child, recorded, serving, stranger, hit, known,
                 robbed, residual, crashes>>

Exits(p) ==
  /\ pc[p] = "exits"
  /\ Goes(p, "gone") /\ lock' = Unlocked(p)
  /\ UNCHANGED <<record, port, ret, tgt, aside, db, owns, child, recorded, serving, stranger, hit,
                 known, robbed, residual, crashes>>

(* What a dead process no longer holds. What it had moved aside is lost.    *)
Dies(p) ==
  /\ lock' = Unlocked(p) /\ port' = (IF port = p THEN 0 ELSE port)
  /\ aside' = [aside EXCEPT ![p] = Absent]
  /\ known' = (known /\ port # p)
  /\ residual' = (residual \/ aside[p] # Absent)

(* Killed from outside, a half-made claim included. *)
Crashes(p) ==
  /\ pc[p] \notin Over /\ crashes < MaxCrashes
  /\ crashes' = crashes + 1 /\ Goes(p, "gone") /\ Dies(p)
  /\ \/ UNCHANGED record
     \/ record = Absent /\ pc[p] = "claims" /\ record' = Empty
  /\ UNCHANGED <<ret, tgt, db, owns, child, recorded, serving, stranger, hit, robbed>>

(* The system gives a dead daemon's pid away, between commands. *)
Recycled(p) ==
  /\ Recycles /\ pc[p] = "gone" /\ p \notin stranger /\ InProgress = {}
  /\ stranger' = stranger \cup {p}
  /\ UNCHANGED <<record, lock, port, pc, ret, tgt, aside, db, owns, child, recorded, serving, hit,
                 known, robbed, residual, crashes>>

-------------------------------------------------------------------------------
(* mcu daemon start. *)

Begins(c) == pc[c] = "idle" /\ \A d \in Command : d < c => pc[d] # "idle"

(* _start_daemon: nothing answers, so a daemon is spawned.                  *)
Spawns(c, p, x) ==
  /\ pc[c] = "starts" /\ port = 0
  /\ Launched(p, x)
  /\ child' = [child EXCEPT ![c] = p]
  /\ pc' = [pc EXCEPT ![c] = "writes", ![p] = "locks"]
  /\ UNCHANGED <<record, lock, port, ret, tgt, aside, owns, recorded, serving, stranger, hit, known,
                 robbed, residual, crashes>>

AlreadyRunning(c) ==
  /\ pc[c] = "starts" /\ port # 0
  /\ Goes(c, "failed")
  /\ UNCHANGED <<record, lock, port, ret, tgt, aside, db, owns, child, recorded, serving, stranger,
                 hit, known, robbed, residual, crashes>>

(* _write_pid_record: a live process keeps its record, a dead one's goes;   *)
(* then create_record, which never replaces one.                            *)
Writes(c) ==
  /\ pc[c] = "writes"
  /\ IF record \in Daemon /\ record # child[c] /\ ~Alive(record)
       THEN Removes(c, record, "creates")
       ELSE /\ Goes(c, IF record \in Daemon THEN "awaits" ELSE "creates")
            /\ UNCHANGED <<ret, tgt>>
  /\ UNCHANGED <<record, lock, port, aside, db, owns, child, recorded, serving, stranger, hit, known,
                 robbed, residual, crashes>>

Creates(c) ==
  /\ pc[c] = "creates"
  /\ IF record = Absent THEN Records(child[c], port) ELSE UNCHANGED <<record, known>>
  /\ Goes(c, "awaits")
  /\ UNCHANGED <<lock, port, ret, tgt, aside, db, owns, child, recorded, serving, stranger, hit, robbed, residual, crashes>>

(* A daemon answers with this start's id: it is the one that was spawned.   *)
AnsweredOwn(c) ==
  /\ pc[c] = "awaits" /\ port = child[c]
  /\ Goes(c, "records")
  /\ UNCHANGED <<record, lock, port, ret, tgt, aside, db, owns, child, recorded, serving, stranger,
                 hit, known, robbed, residual, crashes>>

(* The child is polled once more; one that died just after answering failed. *)
DiedAfterAnswer(c) ==
  /\ pc[c] = "records" /\ pc[child[c]] = "gone"
  /\ Removes(c, child[c], "failed")
  /\ UNCHANGED <<record, lock, port, aside, db, owns, child, recorded, serving, stranger, hit, known,
                 robbed, residual, crashes>>

(* Mutant: whoever has the record keeps it. *)
RecordsIfAbsent(c) ==
  /\ pc[c] = "records" /\ pc[child[c]] # "gone"
  /\ IF record = Absent THEN Records(child[c], port) ELSE UNCHANGED <<record, known>>
  /\ Goes(c, "ok")
  /\ UNCHANGED <<lock, port, ret, tgt, aside, db, owns, child, recorded, serving, stranger, hit, robbed, residual, crashes>>

(* _record_own_daemon: the id proved whose record it has to be.             *)
RecordsOwn(c) ==
  /\ pc[c] = "records" /\ pc[child[c]] # "gone"
  /\ Records(child[c], port)
  /\ robbed' = (robbed \/ (record # child[c] /\ Alive(record) /\ port # child[c]))
  /\ Goes(c, "ok")
  /\ UNCHANGED <<lock, port, ret, tgt, aside, db, owns, child, recorded, serving, stranger, hit,
                 residual, crashes>>

(* Mutant: the record goes, the child stays. *)
GivesUpUnstopped(c) ==
  /\ pc[c] = "awaits" /\ port # child[c]
  /\ Removes(c, child[c], "failed")
  /\ UNCHANGED <<record, lock, port, aside, db, owns, child, recorded, serving, stranger, hit, known,
                 robbed, residual, crashes>>

(* Another start's daemon answers, or nobody in time: this start stops its  *)
(* own child, if it still runs (_reap_losing_start, _abandon_daemon).       *)
GivesUp(c) ==
  /\ pc[c] = "awaits" /\ port # child[c]
  /\ pc' = [pc EXCEPT ![c] = "reaps", ![child[c]] = Terminated(child[c], pc[child[c]])]
  /\ IF pc'[child[c]] = "gone" THEN Dies(child[c]) ELSE UNCHANGED <<lock, port, aside, known, residual>>
  /\ UNCHANGED <<record, ret, tgt, db, owns, child, recorded, serving, stranger, hit, robbed, crashes>>

(* Mutant: the record goes whoever it names. *)
ReapsRecord(c) ==
  /\ pc[c] = "reaps" /\ pc[child[c]] = "gone"
  /\ Removes(c, record, "failed")
  /\ UNCHANGED <<record, lock, port, aside, db, owns, child, recorded, serving, stranger, hit, known,
                 robbed, residual, crashes>>

(* Once the child is gone its record is removed, only while it names it.    *)
Reaps(c) ==
  /\ pc[c] = "reaps" /\ pc[child[c]] = "gone"
  /\ Removes(c, child[c], "failed")
  /\ UNCHANGED <<record, lock, port, aside, db, owns, child, recorded, serving, stranger, hit, known,
                 robbed, residual, crashes>>

-------------------------------------------------------------------------------
(* mcu daemon stop, and the first half of restart. *)

(* _stop_daemon: read the record, then ask /status.                         *)
ReadsRecord(c) ==
  /\ pc[c] = "stops"
  /\ recorded' = [recorded EXCEPT ![c] = record] /\ Goes(c, "asks")
  /\ UNCHANGED <<record, lock, port, ret, tgt, aside, db, owns, child, serving, stranger, hit, known,
                 robbed, residual, crashes>>

(* Nothing answers: a stale record is removed, one of a live process (a     *)
(* daemon still starting) or one that names nothing stays.                  *)
NobodyAnswers(c) ==
  /\ pc[c] = "asks" /\ port = 0
  /\ IF recorded[c] \in Daemon /\ ~Alive(recorded[c]) THEN Removes(c, recorded[c], "failed")
     ELSE Goes(c, "failed") /\ UNCHANGED <<ret, tgt>>
  /\ UNCHANGED <<record, lock, port, aside, db, owns, child, recorded, serving, stranger, hit, known,
                 robbed, residual, crashes>>

(* _stop_running_daemon: POST /shutdown. A daemon may take it and not exit. *)
Shutdown(c, obeyed) ==
  /\ pc[c] = "asks" /\ port # 0
  /\ serving' = [serving EXCEPT ![c] = port]
  /\ IF obeyed
       THEN /\ pc' = [pc EXCEPT ![c] = "waits", ![port] = "leaves"]
            /\ port' = 0 /\ known' = FALSE
       ELSE Goes(c, "waits") /\ UNCHANGED <<port, known>>
  /\ UNCHANGED <<record, lock, ret, tgt, aside, db, owns, child, recorded, stranger, hit, robbed, residual, crashes>>

(* Whoever the record names is waited for, and signalled after the grace,   *)
(* only if /status named it too; otherwise /status going quiet decides.     *)
Corroborated(c) == recorded[c] = serving[c]

Gone(c) == IF Corroborated(c) THEN ~Alive(recorded[c]) ELSE port # serving[c]

Signalled(p) ==
  /\ hit' = (IF p \in stranger THEN hit \cup {p} ELSE hit)
  /\ IF p \in stranger \/ pc[p] \in Over THEN UNCHANGED <<pc, lock, port, aside, known, residual>>
     ELSE LET to == Terminated(p, pc[p]) IN
       /\ Goes(p, to)
       /\ IF to = "gone" THEN Dies(p)
          ELSE /\ port' = (IF port = p THEN 0 ELSE port) /\ known' = (known /\ port # p)
               /\ UNCHANGED <<lock, aside, residual>>

(* Mutant: the recorded pid is signalled whoever /status named. *)
SignalsRecorded(c) ==
  /\ pc[c] = "waits" /\ ~Gone(c) /\ recorded[c] \in Daemon
  /\ Signalled(recorded[c])
  /\ UNCHANGED <<record, ret, tgt, db, owns, child, recorded, serving, stranger, robbed, crashes>>

Signals(c) ==
  /\ pc[c] = "waits" /\ ~Gone(c) /\ Corroborated(c)
  /\ Signalled(recorded[c])
  /\ UNCHANGED <<record, ret, tgt, db, owns, child, recorded, serving, stranger, robbed, crashes>>

(* The daemon stays, and nothing names it. *)
StopFails(c) ==
  /\ pc[c] = "waits" /\ ~Gone(c) /\ ~Corroborated(c)
  /\ Goes(c, "failed")
  /\ UNCHANGED <<record, lock, port, ret, tgt, aside, db, owns, child, recorded, serving, stranger,
                 hit, known, robbed, residual, crashes>>

(* The daemon removes its own record; this covers one that names another.   *)
StopTidies(c, then) ==
  /\ pc[c] = "waits" /\ Gone(c)
  /\ IF recorded[c] # Absent THEN Removes(c, recorded[c], then)
     ELSE Goes(c, then) /\ UNCHANGED <<ret, tgt>>
  /\ robbed' = (robbed \/ (recorded[c] \in Daemon \ stranger /\ Alive(recorded[c])))
  /\ UNCHANGED <<record, lock, port, aside, db, owns, child, recorded, serving, stranger, hit, known,
                 residual, crashes>>

(* restart starts its daemon once the stop is through, or at once if none   *)
(* was running; the commands run as separate processes.                     *)
Invoked(c) ==
  /\ Begins(c)
  /\ \E k \in Kinds :
       Goes(c, IF k = "start" \/ (k = "restart" /\ port = 0) THEN "starts" ELSE "stops")
  /\ UNCHANGED <<record, lock, port, ret, tgt, aside, db, owns, child, recorded, serving, stranger,
                 hit, known, robbed, residual, crashes>>

Next ==
  \/ \E a \in Actor : Looks(a) \/ Takes(a) \/ Judges(a)
  \/ \E p \in Daemon :
       \/ \E x \in Captures : RunByHand(p, x) \/ \E c \in Command : Spawns(c, p, x)
       \/ Locks(p) \/ Probes(p) \/ Claims(p) \/ Binds(p) \/ Leaves(p) \/ Exits(p)
       \/ Crashes(p) \/ Recycled(p)
  \/ \E c \in Command :
       \/ Invoked(c) \/ AlreadyRunning(c) \/ Writes(c) \/ Creates(c) \/ AnsweredOwn(c)
       \/ RecordsOwn(c) \/ DiedAfterAnswer(c) \/ GivesUp(c) \/ Reaps(c)
       \/ ReadsRecord(c) \/ NobodyAnswers(c) \/ Signals(c) \/ StopFails(c)
       \/ \E obeyed \in BOOLEAN : Shutdown(c, obeyed)
       \/ \E then \in (IF "restart" \in Kinds THEN {"ok", "starts"} ELSE {"ok"}) : StopTidies(c, then)

Spec == Init /\ [][Next]_vars

-------------------------------------------------------------------------------
(* Properties. *)

Quiet == InProgress = {} /\ \A p \in Daemon : pc[p] \in Over \cup {"serves"}

(* A daemon that listens and was once named by the record is named by it    *)
(* whenever nothing is under way: no losing start, no stale removal and no  *)
(* late tidy-up takes the record of a live daemon, which `daemon stop`      *)
(* would then not find. remove_record_if names the residue.                 *)
LiveDaemonKeepsRecord == Quiet /\ port # 0 /\ known /\ ~residual => record = port

(* The same, but for what does: a stop that found another daemon serving    *)
(* than the record names removes that record without asking whether its     *)
(* process lives, and a start whose daemon was stopped just after it        *)
(* answered replaces the record of the next one.                            *)
ServingKeepsRecord == ~robbed => LiveDaemonKeepsRecord

(* A start that reported success leaves its daemon named by the record.     *)
StartedIsRecorded ==
  Quiet /\ ~robbed /\ ~residual =>
    \A c \in Command : pc[c] = "ok" /\ child[c] # 0 /\ port = child[c] => record = port

(* A start that failed leaves no process of its own behind.                 *)
FailedStartLeavesNothing ==
  \A c \in Command : pc[c] = "failed" /\ child[c] # 0 => pc[child[c]] = "gone"

(* A pid is signalled only if the daemon that answers says it is its own:   *)
(* a record left by a crash that names a recycled pid kills nobody.         *)
NoStrangerSignalled == hit = {}
===============================================================================
