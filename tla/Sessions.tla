-------------------------------- MODULE Sessions --------------------------------
(***************************************************************************)
(* Sessions: named runs and the automatic ones a daemon opens for itself   *)
(* (host/mcuscope/store.py, and the endpoints and the lifespan of          *)
(* host/mcuscope/server.py). A boundary is a marker row that goes through  *)
(* the write queue like any other line, so that starting and stopping are  *)
(* suspended under _session_lock while device lines get ids around them,   *)
(* other requests run, and the daemon is stopped or killed.                *)
(***************************************************************************)
EXTENDS Integers, Sequences, FiniteSets, SequencesExt

CONSTANTS
  Req,          \* requests in flight at a time
  Ops,          \* what they may ask for: "start", "stop", "delete", "deleteData", "autoOn", "autoOff"
  QueueMax,     \* bound: lines waiting for the writer
  MaxId,        \* bound: ids given out
  MaxOpened,    \* bound: sessions ever opened
  MaxCalls,     \* bound: requests ever made
  MaxRuns       \* bound: runs of the daemon

Id    == 1 .. MaxId
Actor == Req \cup {"daemon"}
Kinds == {"traffic", "host"}

VARIABLES
  \* the file
  rows,         \* kind and daemon run of the row at each id
  sessions,     \* [n, lo, hi (0 while it runs), auto]
  opened,       \* sessions ever opened: ids are AUTOINCREMENT
  \* the daemon
  phase,        \* "starting", "up", "closing" (the lifespan's finally) or "down"
  nextId, queue, run,
  auto,         \* storage.auto_session
  lock,         \* holder of _session_lock, Nobody for none
  stopLock,     \* holder of session_stop_lock
  act,          \* per actor: what it does and what it awaits
  calls,
  stray         \* history: ids that need not lie in a session any more

fileVars   == <<rows, sessions, opened>>
daemonVars == <<phase, nextId, queue, run, auto>>
lockVars   == <<lock, stopLock>>
vars == <<fileVars, daemonVars, lockVars, act, calls, stray>>

Nobody == "nobody"
NoRow == [kind |-> "none", run |-> 0]
Rest  == [op |-> "none", pc |-> "idle", of |-> 0, got |-> 0, reopen |-> FALSE, upTo |-> 0]

Init ==
  /\ rows = [i \in Id |-> NoRow] /\ sessions = {} /\ opened = 0
  /\ phase = "down" /\ nextId = 1 /\ queue = <<>> /\ run = 0 /\ auto \in BOOLEAN
  /\ lock = Nobody /\ stopLock = Nobody /\ act = [a \in Actor |-> Rest] /\ calls = 0 /\ stray = {}

Stored  == {i \in Id : rows[i] # NoRow}
TopId   == Max({0} \cup Stored)
TopRef  == Max({0} \cup {s.lo : s \in sessions} \cup {s.hi : s \in sessions})

Running == {s \in sessions : s.hi = 0}
(* active_session: the newest that has no end. *)
Active  == {s \in Running : \A t \in Running : t.n <= s.n}

(* _captured_traffic, of a session that ends at hi. *)
CapturedTraffic(s, hi) == \E i \in s.lo .. hi : i \in Id /\ rows[i].kind = "traffic"

-------------------------------------------------------------------------------
(* Lines and the writer. *)

Line(kind, a) == [kind |-> kind, a |-> a]

DeviceLine ==
  /\ phase = "up" /\ Len(queue) < QueueMax
  /\ queue' = Append(queue, Line("traffic", Nobody))
  /\ UNCHANGED <<fileVars, phase, nextId, run, auto, lockVars, act, calls, stray>>

(* The head of the queue gets its id and is committed; who waits for it is   *)
(* resumed later. A barrier of drain_writes has no row.                      *)
Written ==
  /\ queue # <<>>
  /\ LET l == Head(queue) IN
     /\ queue' = Tail(queue)
     /\ IF l.kind = "drain" THEN UNCHANGED <<rows, nextId, stray>>
        ELSE /\ nextId <= MaxId /\ nextId' = nextId + 1
             /\ rows' = [rows EXCEPT ![nextId] = [kind |-> l.kind, run |-> run]]
             /\ stray' = IF Running = {} THEN stray \cup {nextId} ELSE stray
     /\ act' = IF l.a = Nobody \/ act[l.a].pc = "idle" THEN act
               ELSE [act EXCEPT ![l.a].got = IF l.kind = "drain" THEN 1 ELSE nextId]
  /\ UNCHANGED <<sessions, opened, phase, run, auto, lockVars, calls>>

-------------------------------------------------------------------------------
(* start_session and stop_session, for the endpoints and the lifespan. *)

(* The actor leaves; what it held is free. *)
Leaves(a) ==
  /\ act' = [act EXCEPT ![a] = Rest]
  /\ lock' = IF lock = a THEN Nobody ELSE lock
  /\ stopLock' = IF stopLock = a THEN Nobody ELSE stopLock

Opens(a) == act[a].op \in {"start", "auto"}

Drains(a) ==
  /\ act' = [act EXCEPT ![a].pc = "draining", ![a].got = 0]
  /\ queue' = Append(queue, Line("drain", a))

(* The lock is taken: the end marker of what runs is submitted, or the queue *)
(* is drained, or there is nothing to stop.                                  *)
Acquire(a) ==
  /\ act[a].pc = "lock" /\ lock = Nobody
  /\ \/ /\ Active # {}
        /\ lock' = a /\ stopLock' = stopLock
        /\ \E s \in Active : act' = [act EXCEPT ![a].pc = "ending", ![a].of = s.n, ![a].got = 0]
        /\ queue' = Append(queue, Line("host", a))
     \/ /\ Active = {} /\ Opens(a)
        /\ lock' = a /\ stopLock' = stopLock
        /\ Drains(a)
     \/ /\ Active = {} /\ ~Opens(a)
        /\ Leaves(a) /\ queue' = queue
  /\ UNCHANGED <<fileVars, phase, nextId, run, auto, calls, stray>>

(* _open_session_locked up to the await of its start marker. *)
OpenAt(a, lo, kept) ==
  /\ opened < MaxOpened
  /\ opened' = opened + 1
  /\ sessions' = kept \cup
       {[n |-> opened + 1, lo |-> lo, hi |-> 0, auto |-> act[a].op # "start"]}
  /\ queue' = Append(queue, Line("host", a))
  /\ act' = [act EXCEPT ![a].pc = "opening", ![a].got = 0]
  /\ UNCHANGED lockVars

(* Mutant: the successor starts at the next id, past what the queue held. *)
SuccessorNext(hi) == nextId

(* Mutant: it starts at the end marker. *)
SuccessorAtMarker(hi) == hi

(* Where the session opened under the same lock hold begins. *)
Successor(hi) == hi + 1

(* The end marker is stored: the session ends there, an automatic one       *)
(* without device traffic is dropped, and a successor abuts it. If the      *)
(* session was deleted meanwhile nothing was closed.                        *)
EndResumes(a) ==
  /\ act[a].pc = "ending" /\ act[a].got # 0
  /\ LET hi     == act[a].got
         closed == {s \in sessions : s.n = act[a].of}
         keeps  == {s \in closed : ~s.auto \/ CapturedTraffic(s, hi)}
         kept   == (sessions \ closed) \cup {[s EXCEPT !.hi = hi] : s \in keeps}
     IN
     \/ /\ closed # {} /\ (Opens(a) \/ act[a].reopen)
        /\ OpenAt(a, Successor(hi), kept)
        /\ UNCHANGED stray
     \/ /\ closed # {} /\ ~Opens(a) /\ ~act[a].reopen
        /\ sessions' = kept /\ stray' = stray \cup {i \in Stored : i > hi}
        /\ Leaves(a) /\ UNCHANGED <<opened, queue>>
     \/ /\ closed = {} /\ Opens(a)
        /\ Drains(a) /\ UNCHANGED <<sessions, opened, lockVars, stray>>
     \/ /\ closed = {} /\ ~Opens(a)
        /\ Leaves(a) /\ UNCHANGED <<sessions, opened, queue, stray>>
  /\ UNCHANGED <<rows, phase, nextId, run, auto, calls>>

DrainResumes(a) ==
  /\ act[a].pc = "draining" /\ act[a].got # 0
  /\ OpenAt(a, nextId, sessions)
  /\ UNCHANGED <<rows, phase, nextId, run, auto, calls, stray>>

OpenResumes(a) ==
  /\ act[a].pc = "opening" /\ act[a].got # 0
  /\ Leaves(a)
  /\ phase' = IF phase = "starting" THEN "up" ELSE phase
  /\ UNCHANGED <<fileVars, nextId, queue, run, auto, calls, stray>>

-------------------------------------------------------------------------------
(* The endpoints. *)

Waits(r, op) == act' = [act EXCEPT ![r] = [Rest EXCEPT !.op = op, !.pc = "lock"]]

(* What a delete and a config change do when nothing is left running. *)
StartAutoIf(r, on, running) ==
  IF on /\ running = {} THEN Waits(r, "auto") ELSE act' = [act EXCEPT ![r] = Rest]

Calls(op) == op \in Ops /\ phase = "up" /\ calls < MaxCalls /\ calls' = calls + 1

CallStart(r) ==
  /\ act[r].pc = "idle" /\ Calls("start")
  /\ Waits(r, "start")
  /\ UNCHANGED <<fileVars, daemonVars, lockVars, stray>>

CallStop(r) ==
  /\ act[r].pc = "idle" /\ Calls("stop")
  /\ act' = [act EXCEPT ![r] = [Rest EXCEPT !.op = "stop", !.pc = "stopLock"]]
  /\ UNCHANGED <<fileVars, daemonVars, lockVars, stray>>

(* Under session_stop_lock: an automatic session is not the caller's to stop. *)
StopAsks(r) ==
  /\ act[r].pc = "stopLock" /\ stopLock = Nobody
  /\ IF \E s \in Active : s.auto THEN act' = [act EXCEPT ![r] = Rest] /\ stopLock' = Nobody
     ELSE act' = [act EXCEPT ![r].pc = "lock", ![r].reopen = auto] /\ stopLock' = r
  /\ UNCHANGED <<fileVars, daemonVars, lock, calls, stray>>

(* delete_session: the label goes, and a running one leaves the run bare. *)
DropLabel(r, n) ==
  LET s == CHOOSE t \in sessions : t.n = n IN
  /\ sessions' = {t \in sessions : t.n # n}
  /\ stray' = IF s \in sessions
              THEN stray \cup {i \in Stored : s.lo <= i /\ (s.hi = 0 \/ i <= s.hi)} ELSE stray
  /\ StartAutoIf(r, auto, {t \in Running : t.n # n})

CallDelete(r) ==
  /\ act[r].pc = "idle" /\ Calls("delete")
  /\ \E s \in sessions : DropLabel(r, s.n)
  /\ UNCHANGED <<rows, opened, daemonVars, lockVars>>

(* The span's end is read before the lines are deleted. *)
CallDeleteData(r) ==
  /\ act[r].pc = "idle" /\ Calls("deleteData")
  /\ \E s \in sessions :
       act' = [act EXCEPT ![r] = [Rest EXCEPT !.op = "delete", !.pc = "deleting", !.of = s.n,
                 !.got = s.lo, !.upTo = IF s.hi = 0 THEN TopId ELSE s.hi]]
  /\ UNCHANGED <<fileVars, daemonVars, lockVars, stray>>

Doomed(r) == {i \in Stored : act[r].got <= i /\ i <= act[r].upTo}

(* A chunk, here a row, per transaction; the loop runs between them. *)
DeleteChunk(r) ==
  /\ act[r].pc = "deleting" /\ Doomed(r) # {}
  /\ rows' = [rows EXCEPT ![CHOOSE i \in Doomed(r) : \A j \in Doomed(r) : i <= j] = NoRow]
  /\ UNCHANGED <<sessions, opened, daemonVars, lockVars, act, calls, stray>>

DeleteEnds(r) ==
  /\ act[r].pc = "deleting" /\ Doomed(r) = {}
  /\ IF \E s \in sessions : s.n = act[r].of THEN DropLabel(r, act[r].of)
     ELSE StartAutoIf(r, auto, Running) /\ UNCHANGED <<sessions, stray>>
  /\ UNCHANGED <<rows, opened, daemonVars, lockVars, calls>>

(* The part of PUT /config/storage about sessions. *)
CallConfig(r) ==
  /\ act[r].pc = "idle"
  /\ \E on \in BOOLEAN :
       /\ Calls(IF on THEN "autoOn" ELSE "autoOff")
       /\ auto' = on /\ StartAutoIf(r, on, Running)
  /\ UNCHANGED <<fileVars, phase, nextId, queue, run, lockVars, stray>>

-------------------------------------------------------------------------------
(* The runs of the daemon. *)

(* Mutant: an automatic session left open is resumed like a named one. *)
CrashedStaysOpen(S) == S

(* _close_crashed_auto_session: ended at the newest row, before its own      *)
(* start if that never was stored, and dropped without device traffic.      *)
CrashedClosed(S) ==
  LET crashed == {s \in Active : s.auto}
      At(s)   == IF TopId >= s.lo THEN TopId ELSE s.lo - 1 IN
  (S \ crashed) \cup
    {[s EXCEPT !.hi = At(s)] : s \in {t \in crashed : CapturedTraffic(t, At(t))}}

(* Store.start, then the start row. *)
Start ==
  /\ phase = "down" /\ run < MaxRuns
  /\ run' = run + 1 /\ phase' = "starting"
  /\ sessions' = CrashedClosed(sessions)
  /\ nextId' = Max({TopId, TopRef}) + 1
  /\ queue' = <<Line("host", "daemon")>>
  /\ act' = [act EXCEPT !["daemon"] = [Rest EXCEPT !.op = "auto", !.pc = "greeting"]]
  /\ UNCHANGED <<rows, opened, auto, lockVars, calls, stray>>

(* A named session is resumed; without one the daemon opens its own. *)
Greeted ==
  /\ act["daemon"].pc = "greeting" /\ act["daemon"].got # 0
  /\ IF auto /\ \A s \in Active : s.auto
     THEN act' = [act EXCEPT !["daemon"].pc = "lock"] /\ phase' = phase
     ELSE act' = [act EXCEPT !["daemon"] = Rest] /\ phase' = "up"
  /\ UNCHANGED <<fileVars, nextId, queue, run, auto, lockVars, calls, stray>>

(* A graceful stop cancels the requests that outlast its wait. *)
Shutdown ==
  /\ phase = "up" /\ phase' = "closing"
  /\ UNCHANGED <<fileVars, nextId, queue, run, auto, lockVars, act, calls, stray>>

Cancel(r) ==
  /\ phase = "closing" /\ act[r].pc # "idle"
  /\ Leaves(r)
  /\ UNCHANGED <<fileVars, daemonVars, calls, stray>>

ShutdownCloses ==
  /\ phase = "closing" /\ \A a \in Actor : act[a].pc = "idle"
  /\ \E s \in Active : s.auto
  /\ Waits("daemon", "close")
  /\ UNCHANGED <<fileVars, daemonVars, lockVars, calls, stray>>

(* stop() writes what is queued. *)
Stopped ==
  /\ phase = "closing" /\ \A a \in Actor : act[a].pc = "idle"
  /\ \A s \in Active : ~s.auto
  /\ queue = <<>> /\ phase' = "down"
  /\ UNCHANGED <<fileVars, nextId, queue, run, auto, lockVars, act, calls, stray>>

Killed ==
  /\ phase # "down" /\ run < MaxRuns
  /\ phase' = "down" /\ queue' = <<>> /\ lock' = Nobody /\ stopLock' = Nobody
  /\ act' = [a \in Actor |-> Rest]
  /\ UNCHANGED <<fileVars, nextId, run, auto, calls, stray>>

-------------------------------------------------------------------------------
Next ==
  \/ DeviceLine \/ Written
  \/ \E a \in Actor : Acquire(a) \/ EndResumes(a) \/ DrainResumes(a) \/ OpenResumes(a)
  \/ \E r \in Req :
       \/ CallStart(r) \/ CallStop(r) \/ StopAsks(r) \/ CallConfig(r) \/ Cancel(r)
       \/ CallDelete(r) \/ CallDeleteData(r) \/ DeleteChunk(r) \/ DeleteEnds(r)
  \/ Start \/ Greeted \/ Shutdown \/ ShutdownCloses \/ Stopped \/ Killed

Spec == Init /\ [][Next]_vars

-------------------------------------------------------------------------------
(* Properties. *)

Covers(s) == {i \in Id : s.lo <= i /\ (s.hi = 0 \/ i <= s.hi)}

(* Every variable holds what its comment says. *)
TypeOK ==
  /\ rows \in [Id -> [kind : Kinds \cup {"none"}, run : 0 .. MaxRuns]]
  /\ \A s \in sessions : s.n \in 1 .. opened /\ s.lo \in 1 .. MaxId + 2 /\ s.hi \in 0 .. MaxId + 1
  /\ phase \in {"starting", "up", "closing", "down"}
  /\ lock \in Actor \cup {Nobody} /\ stopLock \in Req \cup {Nobody}
  /\ nextId \in 1 .. MaxId + 2 /\ Len(queue) <= QueueMax + Cardinality(Actor)

(* No line belongs to two sessions, and at most one session runs, whatever   *)
(* starts, stops, deletes and restarts meet while a marker is being written. *)
SpansDisjoint == \A s, t \in sessions : s # t => Covers(s) \cap Covers(t) = {}

(* The capture is covered without a hole: a device line that was stored      *)
(* while a session ran lies in it or in the one that took over from it, also *)
(* when its id falls between an end marker and the start that follows, and   *)
(* over a kill; it is in none only if its session was deleted, or stopped    *)
(* with none to follow.                                                      *)
NoLineBetweenRuns ==
  \A i \in Stored \ stray : rows[i].kind = "traffic" => \E s \in sessions : i \in Covers(s)

(* An automatic session is of one run of the daemon: no row of a restart     *)
(* lands in what a killed run left open.                                     *)
AutoSessionOfOneRun ==
  \A s \in sessions : s.auto =>
    \A i, j \in Covers(s) \cap Stored : rows[i].run = rows[j].run

(* A run somebody named ends by a request to stop it or to start another,    *)
(* not by an automatic session the daemon opens.                             *)
StartedRunsKeepRunning ==
  [][\A s \in sessions : ~s.auto /\ s.hi = 0 =>
       \A a \in Actor : act[a].op = "auto" => ~(EndResumes(a) /\ act[a].of = s.n)]_vars
===============================================================================
