----------------------------- MODULE DaemonFilesProofs -----------------------------
(***************************************************************************)
(* Proofs about the files around a daemon (DaemonFiles), for any number of *)
(* daemons, commands, clients and saves.  A section for each part proves   *)
(* what its model keeps, by an inductive invariant of its own:             *)
(*   - DaemonLife: whoever is about to remove a record means a daemon that *)
(*     is gone or itself, and the record of the one that listens is where  *)
(*     it belongs or in the hands of somebody who will put it back;        *)
(*   - TokenGuard: a table pruned when it is full has room for one record; *)
(*   - ConfigStore: a save that holds its daemon's lock has read the file  *)
(*     as it still is, as long as nobody else has replaced it;             *)
(*   - UpdateCheck: what the next request is held against, in memory or in *)
(*     the cache the next run loads, is the last answer.                   *)
(* The last section states it of the whole, whose steps are steps of one   *)
(* part.                                                                   *)
(***************************************************************************)
EXTENDS DaemonFiles, FiniteSetTheorems, TLAPS

-------------------------------------------------------------------------------
(* DaemonLife: starts by hand or by a command, stops, crashes and kills      *)
(* between any two file operations; nobody loses the record of a daemon that *)
(* serves, but in the ways `robbed` and `residual` name.                     *)

ThereAre == Daemons \in Nat /\ Commands \in Nat

-------------------------------------------------------------------------------
Removing == {"looks", "takes", "judges"}

DaemonPlaces  == {"off", "locks", "probes", "claims", "claims again", "binds", "serves", "leaves",
                  "exits", "gone"} \cup Removing
CommandPlaces == {"idle", "starts", "writes", "creates", "awaits", "records", "reaps", "stops",
                  "asks", "waits", "ok", "failed"} \cup Removing
Named         == {L!Absent, L!Empty} \cup L!Daemon

Shapes ==
  /\ record \in Named /\ lock \in [Captures -> {0} \cup L!Daemon] /\ port \in {0} \cup L!Daemon
  /\ tgt \in [L!Actor -> Named] /\ aside \in [L!Actor -> Named]
  /\ owns \subseteq L!Daemon /\ stranger \subseteq L!Daemon
  /\ child \in [L!Command -> {0} \cup L!Daemon] /\ recorded \in [L!Command -> Named]
  /\ serving \in [L!Command -> {0} \cup L!Daemon]

Stands ==
  /\ DOMAIN pc = L!Actor /\ DOMAIN ret = L!Actor
  /\ \A p \in L!Daemon : pc[p] \in DaemonPlaces
  /\ \A c \in L!Command : pc[c] \in CommandPlaces
  /\ \A p \in L!Daemon : pc[p] \in Removing => ret[p] \in {"claims again", "exits"}
  /\ \A c \in L!Command : pc[c] \in Removing => ret[c] \in {"creates", "failed", "ok", "starts"}

(* The one that listens serves, and nobody else does. *)
Listens == \A p \in L!Daemon : pc[p] = "serves" <=> port = p

(* Whoever is named has been launched. *)
Ran(x) == x \in L!Daemon => pc[x] # "off"

NamedRan ==
  /\ Ran(record) /\ \A a \in L!Actor : Ran(aside[a])
  /\ \A c \in L!Command : Ran(recorded[c]) /\ Ran(child[c])

(* An unrelated process has the pid of a daemon that is gone, and none of    *)
(* one that a stop is waiting for.                                           *)
Strangers ==
  /\ hit = {} /\ \A p \in stranger : pc[p] = "gone"
  /\ \A c \in L!Command : pc[c] = "waits" => serving[c] \in L!Daemon \ stranger

(* Where a command that started a daemon can be, and one that has not. *)
Then(c, to) == pc[c] = to \/ (pc[c] \in Removing /\ ret[c] = to)

Answered(p) == \/ pc[p] \in {"serves", "leaves", "exits", "gone"}
               \/ pc[p] \in Removing /\ ret[p] = "exits"

Starting ==
  \A c \in L!Command :
    /\ pc[c] \in {"idle", "stops", "asks", "waits"} \/ Then(c, "starts") => child[c] = 0
    /\ pc[c] \in {"writes", "awaits", "records", "reaps"} \/ Then(c, "creates")
         => child[c] \in L!Daemon
    /\ pc[c] \in Removing /\ ret[c] = "ok" => child[c] = 0
    /\ Then(c, "failed") /\ child[c] # 0 => pc[child[c]] = "gone"
    /\ pc[c] \in {"records", "ok"} /\ child[c] # 0 => Answered(child[c])

(* Nobody is about to remove the record of a daemon that has one: whoever    *)
(* removes, means a daemon that is gone or itself, or nothing readable.      *)
Doomed ==
  ~robbed => \A a \in L!Actor : pc[a] \in Removing /\ tgt[a] \in L!Daemon =>
               tgt[a] = a \/ pc[tgt[a]] = "gone"

(* A record that named the daemon that listens still does, or is in the hands *)
(* of somebody who will put it back.                                         *)
Kept ==
  ~robbed /\ ~residual /\ known /\ port # 0 =>
    record = port \/ \E a \in L!Actor : pc[a] = "judges" /\ aside[a] = port

(* What a start reported, the record knew. *)
Reported == \A c \in L!Command : pc[c] = "ok" /\ child[c] # 0 /\ port = child[c] => known

LifeInv == /\ Shapes /\ Stands /\ Listens /\ NamedRan /\ Strangers /\ Starting
           /\ Doomed /\ Kept /\ Reported

-------------------------------------------------------------------------------
(* Pids of daemons and of commands are different numbers, none of them 0. *)
LEMMA Pids ==
  ASSUME ThereAre
  PROVE  /\ L!Actor = L!Daemon \cup L!Command /\ L!Daemon \cap L!Command = {}
         /\ 0 \notin L!Daemon /\ 0 \notin L!Command /\ L!Absent = 0
         /\ L!Empty \notin L!Actor /\ L!Empty # 0
BY DEF ThereAre, L!Actor, L!Daemon, L!Command, L!Empty, L!Absent

(* What every step keeps the type of. *)
LEMMA ShapesKept ==
  ASSUME ThereAre, Shapes, [L!Next]_(L!vars)
  PROVE  Shapes'
<1> USE Pids DEF Named
<1>1. ASSUME NEW a \in L!Actor, L!Looks(a) \/ L!Takes(a) \/ L!Judges(a) PROVE Shapes'
  BY <1>1 DEF L!Looks, L!Takes, L!Judges, L!Records, Shapes
<1>2. ASSUME NEW p \in L!Daemon, NEW x \in Captures,
             L!RunByHand(p, x) \/ \E c \in L!Command : L!Spawns(c, p, x)
      PROVE  Shapes'
  BY <1>2 DEF L!RunByHand, L!Spawns, Shapes
<1>3. ASSUME NEW p \in L!Daemon, L!Locks(p) \/ L!Probes(p) \/ L!Exits(p) \/ L!Recycled(p)
      PROVE  Shapes'
  BY <1>3 DEF L!Locks, L!Probes, L!Exits, L!Recycled, L!Unlocked, Shapes
<1>4. ASSUME NEW p \in L!Daemon, L!Claims(p) \/ L!Binds(p) \/ L!Leaves(p) PROVE Shapes'
  <2>1. CASE L!Claims(p)
    BY <2>1 DEF L!Claims, L!Records, L!Removes, Shapes
  <2>2. CASE L!Binds(p)
    <3>1. UNCHANGED <<record, tgt, aside, owns, child, recorded, serving, stranger>>
      BY <2>2 DEF L!Binds
    <3>2. port' \in {port, p} /\ (lock' = lock \/ lock' = L!Unlocked(p))
      BY <2>2 DEF L!Binds
    <3> QED  BY <3>1, <3>2 DEF L!Unlocked, Shapes
  <2>3. CASE L!Leaves(p)
    BY <2>3 DEF L!Leaves, L!Removes, Shapes
  <2> QED  BY <1>4, <2>1, <2>2, <2>3
<1>5. ASSUME NEW p \in L!Daemon, L!Crashes(p) PROVE Shapes'
  BY <1>5 DEF L!Crashes, L!Dies, L!Unlocked, Shapes
<1>6. ASSUME NEW c \in L!Command,
             \/ L!Invoked(c) \/ L!AlreadyRunning(c) \/ L!AnsweredOwn(c) \/ L!StopFails(c)
             \/ L!ReadsRecord(c)
      PROVE  Shapes'
  BY <1>6 DEF L!Invoked, L!AlreadyRunning, L!AnsweredOwn, L!StopFails, L!ReadsRecord, Shapes
<1>7. ASSUME NEW c \in L!Command, L!Writes(c) \/ L!Creates(c) \/ L!RecordsOwn(c) PROVE Shapes'
  <2>1. child[c] \in {0} \cup L!Daemon
    BY DEF Shapes
  <2> QED  BY <1>7, <2>1 DEF L!Writes, L!Creates, L!RecordsOwn, L!Records, L!Removes, Shapes
<1>8. ASSUME NEW c \in L!Command, L!DiedAfterAnswer(c) \/ L!Reaps(c)
               \/ L!NobodyAnswers(c)
      PROVE  Shapes'
  BY <1>8 DEF L!DiedAfterAnswer, L!Reaps, L!NobodyAnswers, L!Removes, Shapes
<1>9. ASSUME NEW c \in L!Command, L!GivesUp(c) PROVE Shapes'
  BY <1>9 DEF L!GivesUp, L!Dies, L!Unlocked, Shapes
<1>10. ASSUME NEW c \in L!Command, L!Signals(c) PROVE Shapes'
  BY <1>10 DEF L!Signals, L!Signalled, L!Dies, L!Unlocked, Shapes
<1>11. ASSUME NEW c \in L!Command, NEW obeyed \in BOOLEAN, L!Shutdown(c, obeyed) PROVE Shapes'
  BY <1>11 DEF L!Shutdown, Shapes
<1>12. ASSUME NEW c \in L!Command, NEW then \in {"ok", "starts"}, L!StopTidies(c, then)
      PROVE  Shapes'
  BY <1>12 DEF L!StopTidies, L!Removes, Shapes
<1>13. CASE UNCHANGED L!vars
  BY <1>13 DEF L!vars, Shapes
<1> QED
  BY <1>1, <1>2, <1>3, <1>4, <1>5, <1>6, <1>7, <1>8, <1>9, <1>10, <1>11, <1>12, <1>13 DEF L!Next

(* Where a process goes when it is terminated. *)
LEMMA TerminatedTo ==
  ASSUME NEW p, NEW from \in DaemonPlaces
  PROVE  /\ L!Terminated(p, from) \in {"off", "leaves", "exits", "gone"}
         /\ from = "off" <=> L!Terminated(p, from) = "off"
         /\ from = "gone" => L!Terminated(p, from) = "gone"
         /\ from = "exits" <=> L!Terminated(p, from) = "exits"
         /\ from \in {"serves", "leaves", "exits", "gone"} \cup Removing =>
              L!Terminated(p, from) \in {"leaves", "exits", "gone"}
         /\ from \in Removing => L!Terminated(p, from) = "gone"
         /\ from = "leaves" => L!Terminated(p, from) = "leaves"
BY DEF L!Terminated, DaemonPlaces, Removing

-------------------------------------------------------------------------------
(* What one step does to each process. *)
Steps(a, to)         == pc'[a] = to /\ ret'[a] = ret[a] /\ tgt'[a] = tgt[a]
SetsOut(a, p, then)  == pc'[a] = "looks" /\ ret'[a] = then /\ tgt'[a] = p
Stays(a)             == Steps(a, pc[a])
Rest(a)              == \A b \in L!Actor : b # a => Stays(b)
Removed(p)           == p \in L!Daemon => pc[p] = "gone"

RemovalGoes(a) == pc[a] \in Removing /\ \E to \in {"takes", "judges", ret[a]} : Steps(a, to)

DaemonMay(q) ==
  \/ Stays(q) \/ RemovalGoes(q)
  \/ pc[q] = "off" /\ Steps(q, "locks")
  \/ pc[q] = "locks" /\ Steps(q, "probes")
  \/ pc[q] = "probes" /\ Steps(q, "claims")
  \/ pc[q] \in {"claims", "claims again"} /\ Steps(q, "binds")
  \/ pc[q] \in {"claims", "claims again"} /\ SetsOut(q, record, "claims again") /\ Removed(record)
  \/ pc[q] = "binds" /\ Steps(q, "serves") /\ port = 0 /\ port' = q
  \/ pc[q] \in {"binds", "serves"} /\ Steps(q, "leaves") /\ port' # q
  \/ pc[q] = "leaves" /\ (Steps(q, "exits") \/ SetsOut(q, q, "exits"))
  \/ pc[q] # "off" /\ Steps(q, "gone") /\ port' # q

(* A stop may remove the record of a daemon that lives, and is robbing then. *)
CommandGoes(c) ==
  \/ Stays(c) \/ RemovalGoes(c)
  \/ pc[c] = "idle" /\ (Steps(c, "starts") \/ Steps(c, "stops"))
  \/ pc[c] = "starts" /\ Steps(c, "failed")
  \/ pc[c] = "writes" /\ (Steps(c, "awaits") \/ Steps(c, "creates"))
  \/ pc[c] = "writes" /\ SetsOut(c, record, "creates") /\ Removed(record)
  \/ pc[c] = "creates" /\ Steps(c, "awaits")
  \/ pc[c] = "awaits" /\ Steps(c, "records") /\ port = child[c]
  \/ pc[c] = "awaits" /\ Steps(c, "reaps")
  \/ pc[c] = "records" /\ Steps(c, "ok")
  \/ pc[c] \in {"records", "reaps"} /\ SetsOut(c, child[c], "failed") /\ pc[child[c]] = "gone"
  \/ pc[c] = "stops" /\ Steps(c, "asks")
  \/ pc[c] = "asks" /\ Steps(c, "failed")
  \/ pc[c] = "asks" /\ SetsOut(c, recorded[c], "failed") /\ Removed(recorded[c])
  \/ pc[c] = "waits" /\ (Steps(c, "failed") \/ Steps(c, "ok") \/ Steps(c, "starts"))
  \/ pc[c] = "waits" /\ SetsOut(c, recorded[c], "ok") /\ (robbed' \/ Removed(recorded[c]))
  \/ pc[c] = "waits" /\ SetsOut(c, recorded[c], "starts") /\ (robbed' \/ Removed(recorded[c]))

CommandMay(c) ==
  \/ CommandGoes(c) /\ child'[c] = child[c] /\ serving'[c] = serving[c]
  \/ pc[c] = "starts" /\ Steps(c, "writes") /\ child'[c] \in L!Daemon
  \/ /\ pc[c] = "asks" /\ Steps(c, "waits") /\ child'[c] = child[c]
     /\ serving'[c] = port /\ port # 0

PortMay ==
  \/ port' = port
  \/ port = 0 /\ port' \in L!Daemon /\ pc'[port'] = "serves"
  \/ port' = 0 /\ pc'[port] # "serves"

StrangersMay ==
  \/ stranger' = stranger
  \/ /\ \A c \in L!Command : pc'[c] # "waits"
     /\ \E p \in L!Daemon : stranger' = stranger \cup {p} /\ pc'[p] = "gone"

Moved == /\ \A q \in L!Daemon : DaemonMay(q)
         /\ \A c \in L!Command : CommandMay(c)
         /\ PortMay /\ StrangersMay /\ hit' = hit

LEMMA OneSteps ==
  ASSUME DOMAIN pc = L!Actor, NEW a \in L!Actor, NEW to, L!Goes(a, to), UNCHANGED <<ret, tgt>>
  PROVE  Steps(a, to) /\ Rest(a)
BY DEF L!Goes, Steps, Stays, Rest

LEMMA OneSetsOut ==
  ASSUME DOMAIN pc = L!Actor, DOMAIN ret = L!Actor, DOMAIN tgt = L!Actor, NEW a \in L!Actor,
         NEW p, NEW then, L!Removes(a, p, then)
  PROVE  SetsOut(a, p, then) /\ Rest(a)
BY DEF L!Removes, SetsOut, Steps, Stays, Rest

LEMMA TwoStep ==
  ASSUME DOMAIN pc = L!Actor, NEW a \in L!Actor, NEW b \in L!Actor, a # b, NEW to, NEW too,
         pc' = [pc EXCEPT ![a] = to, ![b] = too], UNCHANGED <<ret, tgt>>
  PROVE  /\ Steps(a, to) /\ Steps(b, too)
         /\ \A d \in L!Actor : d \notin {a, b} => Stays(d)
BY DEF Steps, Stays

(* A pid that is not alive is that of a daemon that has run and is gone. *)
LEMMA NotAlive ==
  ASSUME ThereAre, Strangers, NEW p, Ran(p), ~L!Alive(p) \/ p \in stranger
  PROVE  Removed(p)
BY DEF Removed, L!Alive, Ran, L!Over, Strangers

(* A step of one process, and of nobody else. *)
LEMMA DaemonAlone ==
  ASSUME ThereAre, NEW p \in L!Daemon, Rest(p), DaemonMay(p), UNCHANGED <<child, serving>>,
         PortMay, StrangersMay, hit' = hit
  PROVE  Moved
<1>1. ASSUME NEW q \in L!Daemon, q # p PROVE DaemonMay(q)
  BY <1>1, Pids DEF Rest, DaemonMay
<1>2. ASSUME NEW c \in L!Command PROVE CommandMay(c)
  BY <1>2, Pids DEF Rest, CommandMay, CommandGoes
<1> QED  BY <1>1, <1>2 DEF Moved

LEMMA CommandAlone ==
  ASSUME ThereAre, NEW c \in L!Command, Rest(c), CommandMay(c),
         \A d \in L!Command : d # c => child'[d] = child[d] /\ serving'[d] = serving[d],
         PortMay, StrangersMay, hit' = hit
  PROVE  Moved
<1>1. ASSUME NEW q \in L!Daemon PROVE DaemonMay(q)
  BY <1>1, Pids DEF Rest, DaemonMay
<1>2. ASSUME NEW d \in L!Command, d # c PROVE CommandMay(d)
  BY <1>2, Pids DEF Rest, CommandMay, CommandGoes
<1> QED  BY <1>1, <1>2 DEF Moved

(* What Moved means, action by action. *)
LEMMA ProcessesMove ==
  ASSUME ThereAre, Shapes, Stands, Listens, NamedRan, Strangers, Starting, [L!Next]_(L!vars)
  PROVE  Moved
<1> USE Pids
<1>0. /\ DOMAIN pc = L!Actor /\ DOMAIN ret = L!Actor /\ DOMAIN tgt = L!Actor
      /\ DOMAIN child = L!Command /\ DOMAIN serving = L!Command /\ DOMAIN recorded = L!Command
  BY DEF Shapes, Stands
<1>p. UNCHANGED port => PortMay
  BY DEF PortMay
<1>s. UNCHANGED stranger => StrangersMay
  BY DEF StrangersMay
<1>1. ASSUME NEW a \in L!Actor, L!Looks(a) \/ L!Takes(a) \/ L!Judges(a) PROVE Moved
  <2>1. /\ UNCHANGED <<ret, tgt, port, stranger, hit, child, serving>> /\ pc[a] \in Removing
        /\ \E to \in {"takes", "judges", ret[a]} : L!Goes(a, to)
    BY <1>1 DEF L!Looks, L!Takes, L!Judges, Removing
  <2>2. RemovalGoes(a) /\ Rest(a)
    BY <1>0, <2>1, OneSteps DEF RemovalGoes
  <2>3. CASE a \in L!Daemon
    BY <1>p, <1>s, <2>1, <2>2, <2>3, DaemonAlone DEF DaemonMay
  <2>4. CASE a \in L!Command
    BY <1>p, <1>s, <2>1, <2>2, <2>4, CommandAlone DEF CommandMay, CommandGoes
  <2> QED  BY <2>3, <2>4
<1>2. ASSUME NEW p \in L!Daemon, NEW x \in Captures, L!RunByHand(p, x) PROVE Moved
  <2>1. /\ UNCHANGED <<ret, tgt, port, stranger, hit, child, serving>> /\ pc[p] = "off"
        /\ L!Goes(p, "locks")
    BY <1>2 DEF L!RunByHand, L!Launched
  <2>2. Steps(p, "locks") /\ Rest(p)
    BY <1>0, <2>1, OneSteps
  <2> QED  BY <1>p, <1>s, <2>1, <2>2, DaemonAlone DEF DaemonMay
<1>3. ASSUME NEW p \in L!Daemon, NEW x \in Captures, NEW c \in L!Command, L!Spawns(c, p, x)
      PROVE  Moved
  <2>1. /\ UNCHANGED <<ret, tgt, port, stranger, hit, serving>>
        /\ pc[p] = "off" /\ pc[c] = "starts"
        /\ child' = [child EXCEPT ![c] = p] /\ pc' = [pc EXCEPT ![c] = "writes", ![p] = "locks"]
    BY <1>3 DEF L!Spawns, L!Launched
  <2>2. c # p
    OBVIOUS
  <2>3. /\ Steps(c, "writes") /\ Steps(p, "locks")
        /\ \A d \in L!Actor : d \notin {c, p} => Stays(d)
    BY <1>0, <2>1, <2>2, TwoStep
  <2>4. \A q \in L!Daemon : DaemonMay(q)
    BY <2>1, <2>3 DEF DaemonMay
  <2>5. CommandMay(c)
    BY <1>0, <2>1, <2>3 DEF CommandMay
  <2>6. ASSUME NEW d \in L!Command, d # c PROVE CommandMay(d)
    BY <1>0, <2>1, <2>3, <2>6 DEF CommandMay, CommandGoes
  <2> QED  BY <1>p, <1>s, <2>1, <2>4, <2>5, <2>6 DEF Moved
<1>4. ASSUME NEW p \in L!Daemon, L!Locks(p) PROVE Moved
  <2>1. /\ UNCHANGED <<ret, tgt, port, stranger, hit, child, serving>> /\ pc[p] = "locks"
        /\ L!Goes(p, "probes") \/ L!Goes(p, "gone")
    BY <1>4 DEF L!Locks
  <2>2. port # p
    BY <2>1 DEF Listens
  <2>3. (Steps(p, "probes") \/ Steps(p, "gone")) /\ Rest(p)
    BY <1>0, <2>1, OneSteps
  <2> QED  BY <1>p, <1>s, <2>1, <2>2, <2>3, DaemonAlone DEF DaemonMay
<1>5. ASSUME NEW p \in L!Daemon, L!Probes(p) PROVE Moved
  <2>1. /\ UNCHANGED <<ret, tgt, port, stranger, hit, child, serving>> /\ pc[p] = "probes"
        /\ L!Goes(p, "claims") \/ L!Goes(p, "gone")
    BY <1>5 DEF L!Probes
  <2>2. port # p
    BY <2>1 DEF Listens
  <2>3. (Steps(p, "claims") \/ Steps(p, "gone")) /\ Rest(p)
    BY <1>0, <2>1, OneSteps
  <2> QED  BY <1>p, <1>s, <2>1, <2>2, <2>3, DaemonAlone DEF DaemonMay
<1>6. ASSUME NEW p \in L!Daemon, L!Claims(p) PROVE Moved
  <2>1. /\ UNCHANGED <<port, stranger, hit, child, serving>>
        /\ pc[p] \in {"claims", "claims again"}
        /\ \/ L!Goes(p, "binds") /\ UNCHANGED <<ret, tgt>>
           \/ L!Removes(p, record, "claims again") /\ ~L!Alive(record)
    BY <1>6 DEF L!Claims
  <2>2. CASE L!Goes(p, "binds") /\ UNCHANGED <<ret, tgt>>
    <3>1. Steps(p, "binds") /\ Rest(p)
      BY <1>0, <2>2, OneSteps
    <3> QED  BY <1>p, <1>s, <2>1, <3>1, DaemonAlone DEF DaemonMay
  <2>3. CASE L!Removes(p, record, "claims again") /\ ~L!Alive(record)
    <3>1. SetsOut(p, record, "claims again") /\ Rest(p)
      BY <1>0, <2>3, OneSetsOut
    <3>2. Removed(record)
      BY <2>3, NotAlive DEF NamedRan
    <3> QED  BY <1>p, <1>s, <2>1, <3>1, <3>2, DaemonAlone DEF DaemonMay
  <2> QED  BY <2>1, <2>2, <2>3
<1>7. ASSUME NEW p \in L!Daemon, L!Binds(p) PROVE Moved
  <2>1. /\ UNCHANGED <<ret, tgt, stranger, hit, child, serving>> /\ pc[p] = "binds"
        /\ \/ L!Goes(p, "serves") /\ port = 0 /\ port' = p
           \/ L!Goes(p, "leaves") /\ port # 0 /\ port' = port
    BY <1>7 DEF L!Binds
  <2>2. port # p
    BY <2>1 DEF Listens
  <2>3. Rest(p) /\ \/ Steps(p, "serves") /\ port = 0 /\ port' = p
                   \/ Steps(p, "leaves") /\ port' = port
    BY <1>0, <2>1, OneSteps
  <2>4. PortMay
    BY <2>3 DEF PortMay, Steps
  <2> QED  BY <1>s, <2>1, <2>2, <2>3, <2>4, DaemonAlone DEF DaemonMay
<1>8. ASSUME NEW p \in L!Daemon, L!Leaves(p) PROVE Moved
  <2>1. /\ UNCHANGED <<port, stranger, hit, child, serving>> /\ pc[p] = "leaves"
        /\ \/ L!Goes(p, "exits") /\ UNCHANGED <<ret, tgt>>
           \/ L!Removes(p, p, "exits")
    BY <1>8 DEF L!Leaves
  <2>2. (Steps(p, "exits") \/ SetsOut(p, p, "exits")) /\ Rest(p)
    BY <1>0, <2>1, OneSteps, OneSetsOut
  <2> QED  BY <1>p, <1>s, <2>1, <2>2, DaemonAlone DEF DaemonMay
<1>9. ASSUME NEW p \in L!Daemon, L!Exits(p) PROVE Moved
  <2>1. /\ UNCHANGED <<ret, tgt, port, stranger, hit, child, serving>> /\ pc[p] = "exits"
        /\ L!Goes(p, "gone")
    BY <1>9 DEF L!Exits
  <2>2. port # p
    BY <2>1 DEF Listens
  <2>3. Steps(p, "gone") /\ Rest(p)
    BY <1>0, <2>1, OneSteps
  <2> QED  BY <1>p, <1>s, <2>1, <2>2, <2>3, DaemonAlone DEF DaemonMay
<1>10. ASSUME NEW p \in L!Daemon, L!Crashes(p) PROVE Moved
  <2>1. /\ UNCHANGED <<ret, tgt, stranger, hit, child, serving>> /\ pc[p] # "off"
        /\ L!Goes(p, "gone") /\ port' = IF port = p THEN 0 ELSE port
    BY <1>10 DEF L!Crashes, L!Dies, L!Over
  <2>2. Steps(p, "gone") /\ Rest(p)
    BY <1>0, <2>1, OneSteps
  <2>3. PortMay /\ port' # p
    BY <2>1, <2>2 DEF PortMay, Steps
  <2> QED  BY <1>s, <2>1, <2>2, <2>3, DaemonAlone DEF DaemonMay
<1>11. ASSUME NEW p \in L!Daemon, L!Recycled(p) PROVE Moved
  <2>1. /\ UNCHANGED <<pc, ret, tgt, port, hit, child, serving>> /\ pc[p] = "gone"
        /\ stranger' = stranger \cup {p}
        /\ \A c \in L!Command : pc[c] \in {"idle", "ok", "failed"}
    BY <1>11 DEF L!Recycled, L!InProgress
  <2>2. StrangersMay
    BY <2>1 DEF StrangersMay
  <2>3. DaemonMay(p) /\ Rest(p)
    BY <2>1 DEF DaemonMay, Stays, Steps, Rest
  <2> QED  BY <1>p, <2>1, <2>2, <2>3, DaemonAlone
<1>12. ASSUME NEW c \in L!Command, L!Invoked(c) PROVE Moved
  <2>1. /\ UNCHANGED <<ret, tgt, port, stranger, hit, child, serving>> /\ pc[c] = "idle"
        /\ L!Goes(c, "starts") \/ L!Goes(c, "stops")
    BY <1>12 DEF L!Invoked, L!Begins
  <2>2. (Steps(c, "starts") \/ Steps(c, "stops")) /\ Rest(c)
    BY <1>0, <2>1, OneSteps
  <2> QED  BY <1>p, <1>s, <2>1, <2>2, CommandAlone DEF CommandMay, CommandGoes
<1>13. ASSUME NEW c \in L!Command, L!AlreadyRunning(c) \/ L!StopFails(c) PROVE Moved
  <2>1. /\ UNCHANGED <<ret, tgt, port, stranger, hit, child, serving>>
        /\ pc[c] \in {"starts", "waits"} /\ L!Goes(c, "failed")
    BY <1>13 DEF L!AlreadyRunning, L!StopFails
  <2>2. Steps(c, "failed") /\ Rest(c)
    BY <1>0, <2>1, OneSteps
  <2> QED  BY <1>p, <1>s, <2>1, <2>2, CommandAlone DEF CommandMay, CommandGoes
<1>14. ASSUME NEW c \in L!Command, L!Writes(c) PROVE Moved
  <2>1. /\ UNCHANGED <<port, stranger, hit, child, serving>> /\ pc[c] = "writes"
        /\ \/ (L!Goes(c, "awaits") \/ L!Goes(c, "creates")) /\ UNCHANGED <<ret, tgt>>
           \/ L!Removes(c, record, "creates") /\ ~L!Alive(record)
    BY <1>14 DEF L!Writes
  <2>2. CASE (L!Goes(c, "awaits") \/ L!Goes(c, "creates")) /\ UNCHANGED <<ret, tgt>>
    <3>1. (Steps(c, "awaits") \/ Steps(c, "creates")) /\ Rest(c)
      BY <1>0, <2>2, OneSteps
    <3> QED  BY <1>p, <1>s, <2>1, <3>1, CommandAlone DEF CommandMay, CommandGoes
  <2>3. CASE L!Removes(c, record, "creates") /\ ~L!Alive(record)
    <3>1. SetsOut(c, record, "creates") /\ Rest(c)
      BY <1>0, <2>3, OneSetsOut
    <3>2. Removed(record)
      BY <2>3, NotAlive DEF NamedRan
    <3> QED  BY <1>p, <1>s, <2>1, <3>1, <3>2, CommandAlone DEF CommandMay, CommandGoes
  <2> QED  BY <2>1, <2>2, <2>3
<1>15. ASSUME NEW c \in L!Command, L!Creates(c) PROVE Moved
  <2>1. /\ UNCHANGED <<ret, tgt, port, stranger, hit, child, serving>> /\ pc[c] = "creates"
        /\ L!Goes(c, "awaits")
    BY <1>15 DEF L!Creates
  <2>2. Steps(c, "awaits") /\ Rest(c)
    BY <1>0, <2>1, OneSteps
  <2> QED  BY <1>p, <1>s, <2>1, <2>2, CommandAlone DEF CommandMay, CommandGoes
<1>16. ASSUME NEW c \in L!Command, L!AnsweredOwn(c) PROVE Moved
  <2>1. /\ UNCHANGED <<ret, tgt, port, stranger, hit, child, serving>> /\ pc[c] = "awaits"
        /\ port = child[c] /\ L!Goes(c, "records")
    BY <1>16 DEF L!AnsweredOwn
  <2>2. Steps(c, "records") /\ Rest(c)
    BY <1>0, <2>1, OneSteps
  <2> QED  BY <1>p, <1>s, <2>1, <2>2, CommandAlone DEF CommandMay, CommandGoes
<1>17. ASSUME NEW c \in L!Command, L!RecordsOwn(c) PROVE Moved
  <2>1. /\ UNCHANGED <<ret, tgt, port, stranger, hit, child, serving>> /\ pc[c] = "records"
        /\ L!Goes(c, "ok")
    BY <1>17 DEF L!RecordsOwn
  <2>2. Steps(c, "ok") /\ Rest(c)
    BY <1>0, <2>1, OneSteps
  <2> QED  BY <1>p, <1>s, <2>1, <2>2, CommandAlone DEF CommandMay, CommandGoes
<1>18. ASSUME NEW c \in L!Command, L!DiedAfterAnswer(c) \/ L!Reaps(c) PROVE Moved
  <2>1. /\ UNCHANGED <<port, stranger, hit, child, serving>> /\ pc[c] \in {"records", "reaps"}
        /\ pc[child[c]] = "gone" /\ L!Removes(c, child[c], "failed")
    BY <1>18 DEF L!DiedAfterAnswer, L!Reaps
  <2>2. SetsOut(c, child[c], "failed") /\ Rest(c)
    BY <1>0, <2>1, OneSetsOut
  <2> QED  BY <1>p, <1>s, <2>1, <2>2, CommandAlone DEF CommandMay, CommandGoes
<1>19. ASSUME NEW c \in L!Command, L!GivesUp(c) PROVE Moved
  <2> DEFINE p  == child[c]
             to == L!Terminated(p, pc[p])
  <2>1. /\ UNCHANGED <<ret, tgt, stranger, hit, child, serving>> /\ pc[c] = "awaits" /\ port # p
        /\ pc' = [pc EXCEPT ![c] = "reaps", ![p] = to]
        /\ port' = port \/ (port' = IF port = p THEN 0 ELSE port)
    BY <1>19 DEF L!GivesUp, L!Dies
  <2>2. p \in L!Daemon /\ c # p /\ port' = port
    BY <2>1 DEF Starting
  <2>3. /\ to = pc[p] \/ (pc[p] \in {"binds", "serves"} /\ to = "leaves")
           \/ (pc[p] # "off" /\ to = "gone")
    BY <2>2 DEF Stands, DaemonPlaces, Removing, L!Terminated
  <2> HIDE DEF p, to
  <2>4. /\ Steps(c, "reaps") /\ Steps(p, to)
        /\ \A d \in L!Actor : d \notin {c, p} => Stays(d)
    BY <1>0, <2>1, <2>2, TwoStep
  <2>5. DaemonMay(p)
    BY <2>1, <2>2, <2>3, <2>4 DEF DaemonMay, Stays
  <2>6. ASSUME NEW q \in L!Daemon, q # p PROVE DaemonMay(q)
    BY <2>4, <2>6 DEF DaemonMay
  <2>7. CommandMay(c)
    BY <2>1, <2>4 DEF CommandMay, CommandGoes
  <2>8. ASSUME NEW d \in L!Command, d # c PROVE CommandMay(d)
    BY <2>1, <2>2, <2>4, <2>8 DEF CommandMay, CommandGoes
  <2> QED  BY <1>p, <1>s, <2>1, <2>2, <2>5, <2>6, <2>7, <2>8 DEF Moved
<1>20. ASSUME NEW c \in L!Command, L!ReadsRecord(c) PROVE Moved
  <2>1. /\ UNCHANGED <<ret, tgt, port, stranger, hit, child, serving>> /\ pc[c] = "stops"
        /\ L!Goes(c, "asks")
    BY <1>20 DEF L!ReadsRecord
  <2>2. Steps(c, "asks") /\ Rest(c)
    BY <1>0, <2>1, OneSteps
  <2> QED  BY <1>p, <1>s, <2>1, <2>2, CommandAlone DEF CommandMay, CommandGoes
<1>21. ASSUME NEW c \in L!Command, L!NobodyAnswers(c) PROVE Moved
  <2>1. /\ UNCHANGED <<port, stranger, hit, child, serving>> /\ pc[c] = "asks"
        /\ \/ L!Goes(c, "failed") /\ UNCHANGED <<ret, tgt>>
           \/ L!Removes(c, recorded[c], "failed") /\ ~L!Alive(recorded[c])
    BY <1>21 DEF L!NobodyAnswers
  <2>2. CASE L!Goes(c, "failed") /\ UNCHANGED <<ret, tgt>>
    <3>1. Steps(c, "failed") /\ Rest(c)
      BY <1>0, <2>2, OneSteps
    <3> QED  BY <1>p, <1>s, <2>1, <3>1, CommandAlone DEF CommandMay, CommandGoes
  <2>3. CASE L!Removes(c, recorded[c], "failed") /\ ~L!Alive(recorded[c])
    <3>1. SetsOut(c, recorded[c], "failed") /\ Rest(c)
      BY <1>0, <2>3, OneSetsOut
    <3>2. Removed(recorded[c])
      BY <2>3, NotAlive DEF NamedRan
    <3> QED  BY <1>p, <1>s, <2>1, <3>1, <3>2, CommandAlone DEF CommandMay, CommandGoes
  <2> QED  BY <2>1, <2>2, <2>3
<1>22. ASSUME NEW c \in L!Command, L!Signals(c) PROVE Moved
  <2> DEFINE p  == recorded[c]
             to == L!Terminated(p, pc[p])
  <2>1. /\ UNCHANGED <<ret, tgt, stranger, child, serving>> /\ L!Signalled(p)
        /\ p = serving[c] /\ pc[c] = "waits"
    BY <1>22 DEF L!Signals, L!Corroborated
  <2>2. p \in L!Daemon /\ p \notin stranger
    BY <2>1 DEF Strangers
  <2>3. hit' = hit
    BY <2>1, <2>2 DEF L!Signalled
  <2>4. CASE pc[p] \in L!Over
    <3>1. UNCHANGED <<pc, port>>
      BY <2>1, <2>4 DEF L!Signalled
    <3>2. DaemonMay(p) /\ Rest(p)
      BY <2>1, <3>1 DEF DaemonMay, Stays, Steps, Rest
    <3> QED  BY <1>p, <1>s, <2>1, <2>2, <2>3, <3>1, <3>2, DaemonAlone
  <2>5. CASE pc[p] \notin L!Over
    <3>1. L!Goes(p, to) /\ port' = IF port = p THEN 0 ELSE port
      BY <2>1, <2>2, <2>5 DEF L!Signalled, L!Dies
    <3>2. \/ to = pc[p] /\ pc[p] # "serves"
          \/ pc[p] \in {"binds", "serves"} /\ to = "leaves"
          \/ pc[p] # "off" /\ to = "gone"
      BY <2>2, <2>5 DEF Stands, DaemonPlaces, Removing, L!Terminated, L!Over
    <3> HIDE DEF p, to
    <3>3. Steps(p, to) /\ Rest(p)
      BY <1>0, <2>1, <2>2, <3>1, OneSteps
    <3>4. PortMay /\ port' # p
      BY <2>2, <3>1, <3>2, <3>3 DEF PortMay, Steps
    <3>5. DaemonMay(p)
      BY <3>2, <3>3, <3>4 DEF DaemonMay, Stays
    <3> QED  BY <1>s, <2>1, <2>2, <2>3, <3>3, <3>4, <3>5, DaemonAlone
  <2> QED  BY <2>4, <2>5
<1>23. ASSUME NEW c \in L!Command, NEW obeyed \in BOOLEAN, L!Shutdown(c, obeyed) PROVE Moved
  <2>1. /\ UNCHANGED <<ret, tgt, stranger, hit, child>> /\ pc[c] = "asks" /\ port # 0
        /\ serving' = [serving EXCEPT ![c] = port]
        /\ \/ pc' = [pc EXCEPT ![c] = "waits", ![port] = "leaves"] /\ port' = 0
           \/ L!Goes(c, "waits") /\ port' = port
    BY <1>23 DEF L!Shutdown
  <2>2. port \in L!Daemon /\ port # c /\ pc[port] = "serves"
    BY <2>1 DEF Shapes, Listens
  <2>3. \A d \in L!Command : serving'[d] = IF d = c THEN port ELSE serving[d]
    BY <1>0, <2>1
  <2>4. CASE L!Goes(c, "waits") /\ port' = port
    <3>1. Steps(c, "waits") /\ Rest(c)
      BY <1>0, <2>1, <2>4, OneSteps
    <3>2. CommandMay(c)
      BY <2>1, <2>3, <3>1 DEF CommandMay
    <3> QED  BY <1>p, <1>s, <2>1, <2>3, <2>4, <3>1, <3>2, CommandAlone
  <2>5. CASE pc' = [pc EXCEPT ![c] = "waits", ![port] = "leaves"] /\ port' = 0
    <3>1. /\ Steps(c, "waits") /\ Steps(port, "leaves")
          /\ \A d \in L!Actor : d \notin {c, port} => Stays(d)
      BY <1>0, <2>1, <2>2, <2>5, TwoStep
    <3>2. CommandMay(c)
      BY <2>1, <2>3, <3>1 DEF CommandMay
    <3>3. ASSUME NEW d \in L!Command, d # c PROVE CommandMay(d)
      BY <2>1, <2>2, <2>3, <3>1, <3>3 DEF CommandMay, CommandGoes
    <3>4. DaemonMay(port)
      BY <2>2, <2>5, <3>1 DEF DaemonMay
    <3>5. ASSUME NEW q \in L!Daemon, q # port PROVE DaemonMay(q)
      BY <3>1, <3>5 DEF DaemonMay
    <3>6. PortMay
      BY <2>5, <3>1 DEF PortMay, Steps
    <3> QED  BY <1>s, <2>1, <3>2, <3>3, <3>4, <3>5, <3>6 DEF Moved
  <2> QED  BY <2>1, <2>4, <2>5
<1>24. ASSUME NEW c \in L!Command, NEW then \in {"ok", "starts"}, L!StopTidies(c, then)
      PROVE  Moved
  <2>1. /\ UNCHANGED <<port, stranger, hit, child, serving>> /\ pc[c] = "waits"
        /\ \/ L!Goes(c, then) /\ UNCHANGED <<ret, tgt>>
           \/ L!Removes(c, recorded[c], then)
    BY <1>24 DEF L!StopTidies
  <2>2. robbed' \/ Removed(recorded[c])
    <3>1. robbed' \/ ~(recorded[c] \in L!Daemon \ stranger /\ L!Alive(recorded[c]))
      BY <1>24, Zenon DEF L!StopTidies
    <3>2. CASE recorded[c] \in L!Daemon
      BY <3>1, <3>2, NotAlive DEF NamedRan
    <3>3. CASE recorded[c] \notin L!Daemon
      BY <3>3 DEF Removed
    <3> QED  BY <3>2, <3>3
  <2>3. (Steps(c, then) \/ SetsOut(c, recorded[c], then)) /\ Rest(c)
    BY <1>0, <2>1, OneSteps, OneSetsOut
  <2>4. CommandGoes(c)
    BY <2>1, <2>2, <2>3 DEF CommandGoes
  <2> QED  BY <1>p, <1>s, <2>1, <2>3, <2>4, CommandAlone DEF CommandMay
<1>25. CASE UNCHANGED L!vars
  <2>1. UNCHANGED <<pc, ret, tgt, port, stranger, hit, child, serving>>
    BY <1>25 DEF L!vars
  <2> QED
    BY <1>p, <1>s, <2>1 DEF Moved, DaemonMay, CommandMay, CommandGoes, Stays, Steps
<1> QED
  BY <1>1, <1>2, <1>3, <1>4, <1>5, <1>6, <1>7, <1>8, <1>9, <1>10, <1>11, <1>12, <1>13, <1>14,
     <1>15, <1>16, <1>17, <1>18, <1>19, <1>20, <1>21, <1>22, <1>23, <1>24, <1>25 DEF L!Next

(* No process comes or goes. *)
LEMMA SameProcesses ==
  ASSUME [L!Next]_(L!vars)
  PROVE  DOMAIN pc' = DOMAIN pc /\ DOMAIN ret' = DOMAIN ret
<1> DEFINE Same == DOMAIN pc' = DOMAIN pc /\ DOMAIN ret' = DOMAIN ret
<1>1. ASSUME NEW a \in L!Actor, L!Looks(a) PROVE Same
  BY <1>1 DEF L!Looks, L!Goes
<1>2. ASSUME NEW a \in L!Actor, L!Takes(a) PROVE Same
  BY <1>2 DEF L!Takes, L!Goes
<1>3. ASSUME NEW a \in L!Actor, L!Judges(a) PROVE Same
  BY <1>3 DEF L!Judges, L!Goes
<1>4. ASSUME NEW p \in L!Daemon, L!Locks(p) PROVE Same
  BY <1>4 DEF L!Locks, L!Goes
<1>5. ASSUME NEW p \in L!Daemon, L!Probes(p) PROVE Same
  BY <1>5 DEF L!Probes, L!Goes
<1>6. ASSUME NEW p \in L!Daemon, L!Claims(p) PROVE Same
  BY <1>6 DEF L!Claims, L!Goes, L!Removes
<1>7. ASSUME NEW p \in L!Daemon, L!Binds(p) PROVE Same
  BY <1>7 DEF L!Binds, L!Goes
<1>8. ASSUME NEW p \in L!Daemon, L!Leaves(p) PROVE Same
  BY <1>8 DEF L!Leaves, L!Goes, L!Removes
<1>9. ASSUME NEW p \in L!Daemon, L!Exits(p) PROVE Same
  BY <1>9 DEF L!Exits, L!Goes
<1>10. ASSUME NEW p \in L!Daemon, L!Crashes(p) PROVE Same
  BY <1>10 DEF L!Crashes, L!Goes
<1>11. ASSUME NEW p \in L!Daemon, L!Recycled(p) PROVE Same
  BY <1>11 DEF L!Recycled
<1>12. ASSUME NEW c \in L!Command, L!Invoked(c) PROVE Same
  BY <1>12 DEF L!Invoked, L!Goes
<1>13. ASSUME NEW c \in L!Command, L!AlreadyRunning(c) PROVE Same
  BY <1>13 DEF L!AlreadyRunning, L!Goes
<1>14. ASSUME NEW c \in L!Command, L!Writes(c) PROVE Same
  BY <1>14 DEF L!Writes, L!Goes, L!Removes
<1>15. ASSUME NEW c \in L!Command, L!Creates(c) PROVE Same
  BY <1>15 DEF L!Creates, L!Goes
<1>16. ASSUME NEW c \in L!Command, L!AnsweredOwn(c) PROVE Same
  BY <1>16 DEF L!AnsweredOwn, L!Goes
<1>17. ASSUME NEW c \in L!Command, L!RecordsOwn(c) PROVE Same
  BY <1>17 DEF L!RecordsOwn, L!Goes
<1>18. ASSUME NEW c \in L!Command, L!DiedAfterAnswer(c) PROVE Same
  BY <1>18 DEF L!DiedAfterAnswer, L!Removes
<1>19. ASSUME NEW c \in L!Command, L!GivesUp(c) PROVE Same
  BY <1>19 DEF L!GivesUp
<1>20. ASSUME NEW c \in L!Command, L!Reaps(c) PROVE Same
  BY <1>20 DEF L!Reaps, L!Removes
<1>21. ASSUME NEW c \in L!Command, L!ReadsRecord(c) PROVE Same
  BY <1>21 DEF L!ReadsRecord, L!Goes
<1>22. ASSUME NEW c \in L!Command, L!NobodyAnswers(c) PROVE Same
  BY <1>22 DEF L!NobodyAnswers, L!Goes, L!Removes
<1>23. ASSUME NEW c \in L!Command, L!Signals(c) PROVE Same
  BY <1>23 DEF L!Signals, L!Signalled, L!Goes
<1>24. ASSUME NEW c \in L!Command, L!StopFails(c) PROVE Same
  BY <1>24 DEF L!StopFails, L!Goes
<1>25. ASSUME NEW p \in L!Daemon, NEW x \in Captures, L!RunByHand(p, x) PROVE Same
  BY <1>25 DEF L!RunByHand, L!Goes
<1>26. ASSUME NEW p \in L!Daemon, NEW x \in Captures, NEW c \in L!Command, L!Spawns(c, p, x)
      PROVE  Same
  BY <1>26 DEF L!Spawns
<1>27. ASSUME NEW c \in L!Command, NEW obeyed \in BOOLEAN, L!Shutdown(c, obeyed) PROVE Same
  BY <1>27 DEF L!Shutdown, L!Goes
<1>28. ASSUME NEW c \in L!Command, NEW then \in {"ok", "starts"}, L!StopTidies(c, then) PROVE Same
  BY <1>28 DEF L!StopTidies, L!Goes, L!Removes
<1>29. CASE UNCHANGED L!vars
  BY <1>29 DEF L!vars
<1> QED
  BY <1>1, <1>2, <1>3, <1>4, <1>5, <1>6, <1>7, <1>8, <1>9, <1>10, <1>11, <1>12, <1>13,
     <1>14, <1>15, <1>16, <1>17, <1>18, <1>19, <1>20, <1>21, <1>22, <1>23, <1>24, <1>25,
     <1>26, <1>27, <1>28, <1>29 DEF L!Next

(* Where each process stands. *)
LEMMA StandsKept ==
  ASSUME ThereAre, Stands, Moved, [L!Next]_(L!vars)
  PROVE  Stands'
<1>1. ASSUME NEW p \in L!Daemon
      PROVE  /\ pc'[p] \in DaemonPlaces
             /\ pc'[p] \in Removing => ret'[p] \in {"claims again", "exits"}
  <2>1. /\ DaemonMay(p) /\ pc[p] \in DaemonPlaces
        /\ pc[p] \in Removing => ret[p] \in {"claims again", "exits"}
    BY DEF Moved, Stands
  <2> QED
    BY <2>1 DEF DaemonMay, RemovalGoes, Stays, Steps, SetsOut, DaemonPlaces, Removing
<1>2. ASSUME NEW c \in L!Command
      PROVE  /\ pc'[c] \in CommandPlaces
             /\ pc'[c] \in Removing => ret'[c] \in {"creates", "failed", "ok", "starts"}
  <2>1. CASE CommandGoes(c)
    BY <2>1 DEF CommandGoes, RemovalGoes, Stands, Stays, Steps, SetsOut, CommandPlaces, Removing
  <2>2. CASE pc'[c] \in {"writes", "waits"}
    BY <2>2 DEF CommandPlaces, Removing
  <2> QED  BY <2>1, <2>2 DEF Moved, CommandMay, Steps
<1> QED  BY <1>1, <1>2, SameProcesses DEF Stands

(* A daemon that is gone stays gone, one that was launched stays so, and one  *)
(* that has served goes on to its end.                                       *)
Onward(q) ==
  /\ pc[q] = "gone" => pc'[q] = "gone"
  /\ pc[q] # "off" => pc'[q] # "off"
  /\ Answered(q) => Answered(q)'

LEMMA DaemonsGo ==
  ASSUME ThereAre, Shapes, Stands, Listens, Moved
  PROVE  Listens' /\ \A q \in L!Daemon : Onward(q)
<1> USE Pids
<1>1. ASSUME NEW q \in L!Daemon PROVE Onward(q)
  <2>1. pc[q] \in Removing => ret[q] \in {"claims again", "exits"}
    BY DEF Stands
  <2> QED
    BY <2>1 DEF Moved, DaemonMay, RemovalGoes, Stays, Steps, SetsOut, Onward, Answered, Removing
<1>2. ASSUME NEW q \in L!Daemon PROVE pc'[q] = "serves" <=> port' = q
  <2>1. /\ pc[q] = "serves" <=> port = q
        /\ PortMay /\ DaemonMay(q)
        /\ pc[q] \in Removing => ret[q] \in {"claims again", "exits"}
    BY DEF Moved, Stands, Listens
  <2>2. CASE Stays(q)
    BY <2>1, <2>2 DEF PortMay, Stays, Steps
  <2>3. CASE ~Stays(q)
    <3>1. CASE pc'[q] = "serves"
      BY <2>1, <2>3, <3>1 DEF DaemonMay, RemovalGoes, Steps, SetsOut, Removing
    <3>2. CASE pc'[q] # "serves"
      BY <2>1, <2>3, <3>2 DEF DaemonMay, RemovalGoes, Steps, SetsOut, Removing, PortMay
    <3> QED  BY <3>1, <3>2
  <2> QED  BY <2>2, <2>3
<1> QED  BY <1>1, <1>2 DEF Listens

(* Names are handed on, or are those of daemons that run. *)
LEMMA NamedKept ==
  ASSUME ThereAre, Shapes, Stands, Listens, NamedRan, Moved, [L!Next]_(L!vars)
  PROVE  NamedRan'
<1> USE Pids DEF NamedRan, Ran
<1>0. \A q \in L!Daemon : pc[q] # "off" => pc'[q] # "off"
  BY DaemonsGo DEF Onward
<1>1. ASSUME NEW a \in L!Actor, L!Looks(a) \/ L!Takes(a) \/ L!Judges(a) PROVE NamedRan'
  BY <1>0, <1>1 DEF L!Looks, L!Takes, L!Judges, L!Records, Shapes
<1>2. ASSUME NEW p \in L!Daemon, NEW x \in Captures,
             L!RunByHand(p, x) \/ \E c \in L!Command : L!Spawns(c, p, x)
      PROVE  NamedRan'
  <2>1. UNCHANGED <<record, aside, recorded>>
    BY <1>2 DEF L!RunByHand, L!Spawns
  <2>2. child' = child \/ \E c \in L!Command : child' = [child EXCEPT ![c] = p]
    BY <1>2 DEF L!RunByHand, L!Spawns
  <2>3. pc'[p] # "off"
    <3>1. \/ pc' = [pc EXCEPT ![p] = "locks"]
          \/ \E c \in L!Command : pc' = [pc EXCEPT ![c] = "writes", ![p] = "locks"]
      BY <1>2 DEF L!RunByHand, L!Spawns, L!Goes
    <3> QED  BY <3>1 DEF Stands
  <2>4. \A c \in L!Command : child'[c] = child[c] \/ child'[c] = p
    BY <2>2 DEF Shapes
  <2> QED  BY <1>0, <2>1, <2>3, <2>4
<1>3. ASSUME NEW p \in L!Daemon, L!Locks(p) \/ L!Probes(p) \/ L!Exits(p) \/ L!Recycled(p)
      PROVE  NamedRan'
  BY <1>0, <1>3 DEF L!Locks, L!Probes, L!Exits, L!Recycled
<1>4. ASSUME NEW p \in L!Daemon, L!Claims(p) \/ L!Binds(p) \/ L!Leaves(p) PROVE NamedRan'
  BY <1>0, <1>4 DEF L!Claims, L!Binds, L!Leaves, L!Records
<1>5. ASSUME NEW p \in L!Daemon, L!Crashes(p) PROVE NamedRan'
  BY <1>0, <1>5 DEF L!Crashes, L!Dies, Shapes
<1>6. ASSUME NEW c \in L!Command,
             \/ L!Invoked(c) \/ L!AlreadyRunning(c) \/ L!AnsweredOwn(c) \/ L!StopFails(c)
             \/ L!ReadsRecord(c)
      PROVE  NamedRan'
  BY <1>0, <1>6 DEF L!Invoked, L!AlreadyRunning, L!AnsweredOwn, L!StopFails, L!ReadsRecord, Shapes
<1>7. ASSUME NEW c \in L!Command, L!Writes(c) \/ L!Creates(c) \/ L!RecordsOwn(c) PROVE NamedRan'
  BY <1>0, <1>7 DEF L!Writes, L!Creates, L!RecordsOwn, L!Records
<1>8. ASSUME NEW c \in L!Command, L!DiedAfterAnswer(c) \/ L!Reaps(c)
               \/ L!NobodyAnswers(c)
      PROVE  NamedRan'
  BY <1>0, <1>8 DEF L!DiedAfterAnswer, L!Reaps, L!NobodyAnswers
<1>9. ASSUME NEW c \in L!Command, L!GivesUp(c) PROVE NamedRan'
  <2>1. /\ UNCHANGED <<record, recorded, child>>
        /\ aside' = aside \/ aside' = [aside EXCEPT ![child[c]] = L!Absent]
    BY <1>9 DEF L!GivesUp, L!Dies
  <2>2. \A a \in L!Actor : aside'[a] = aside[a] \/ aside'[a] = L!Absent
    BY <2>1 DEF Shapes
  <2> QED  BY <1>0, <2>1, <2>2
<1>10. ASSUME NEW c \in L!Command, L!Signals(c) PROVE NamedRan'
  BY <1>0, <1>10 DEF L!Signals, L!Signalled, L!Dies, Shapes
<1>11. ASSUME NEW c \in L!Command, NEW obeyed \in BOOLEAN, L!Shutdown(c, obeyed) PROVE NamedRan'
  BY <1>0, <1>11 DEF L!Shutdown
<1>12. ASSUME NEW c \in L!Command, NEW then \in {"ok", "starts"}, L!StopTidies(c, then)
      PROVE  NamedRan'
  BY <1>0, <1>12 DEF L!StopTidies
<1>13. CASE UNCHANGED L!vars
  BY <1>0, <1>13 DEF L!vars
<1> QED
  BY <1>1, <1>2, <1>3, <1>4, <1>5, <1>6, <1>7, <1>8, <1>9, <1>10, <1>11, <1>12, <1>13 DEF L!Next

(* Nobody gets the pid of a daemon while a stop waits for it, so the only      *)
(* process a stop signals is the one it asked.                               *)
LEMMA StrangersKept ==
  ASSUME ThereAre, Shapes, Stands, Listens, Strangers, Moved
  PROVE  Strangers'
<1> USE Pids
<1>1. \A q \in L!Daemon : pc[q] = "gone" => pc'[q] = "gone"
  BY DaemonsGo DEF Onward
<1>2. \A p \in stranger' : pc'[p] = "gone"
  BY <1>1 DEF Strangers, Shapes, Moved, StrangersMay
<1>3. ASSUME NEW c \in L!Command, pc'[c] = "waits"
      PROVE  serving'[c] \in L!Daemon \ stranger
  <2>1. CASE pc[c] = "waits" /\ serving'[c] = serving[c]
    BY <2>1 DEF Strangers
  <2>2. CASE serving'[c] = port /\ port # 0
    BY <2>2 DEF Shapes, Listens, Strangers
  <2>3. pc[c] \in Removing => ret[c] # "waits"
    BY DEF Stands
  <2> QED
    BY <1>3, <2>1, <2>2, <2>3
    DEF Moved, CommandMay, CommandGoes, RemovalGoes, Stays, Steps, SetsOut, Removing
<1>4. ASSUME NEW c \in L!Command, pc'[c] = "waits"
      PROVE  serving'[c] \in L!Daemon \ stranger'
  BY <1>3, <1>4 DEF Moved, StrangersMay
<1>5. hit' = {}
  BY DEF Moved, Strangers
<1> QED  BY <1>2, <1>4, <1>5 DEF Strangers

(* What a command knows of the daemon it started. *)
LEMMA StartingKept ==
  ASSUME ThereAre, Shapes, Stands, Listens, Starting, Moved
  PROVE  Starting'
<1> USE Pids
<1> DEFINE NowAnswered(q) == \/ pc'[q] \in {"serves", "leaves", "exits", "gone"}
                             \/ pc'[q] \in Removing /\ ret'[q] = "exits"
<1>0. \A q \in L!Daemon : /\ pc[q] = "gone" => pc'[q] = "gone"
                          /\ Answered(q) => NowAnswered(q)
  BY DaemonsGo DEF Onward, Answered
<1> DEFINE Of(c) ==
    /\ pc[c] \in {"idle", "stops", "asks", "waits"} \/ Then(c, "starts") => child[c] = 0
    /\ pc[c] \in {"writes", "awaits", "records", "reaps"} \/ Then(c, "creates")
         => child[c] \in L!Daemon
    /\ pc[c] \in Removing /\ ret[c] = "ok" => child[c] = 0
    /\ Then(c, "failed") /\ child[c] # 0 => pc[child[c]] = "gone"
    /\ pc[c] \in {"records", "ok"} /\ child[c] # 0 => Answered(child[c])
<1> SUFFICES ASSUME NEW c \in L!Command PROVE Of(c)'
  BY DEF Starting
<1>1. Of(c)
  BY DEF Starting
<1>2. /\ child[c] \in {0} \cup L!Daemon
      /\ pc[c] \in CommandPlaces
      /\ pc[c] \in Removing => ret[c] \in {"creates", "failed", "ok", "starts"}
  BY DEF Shapes, Stands
<1>3. CASE pc[c] = "starts" /\ Steps(c, "writes") /\ child'[c] \in L!Daemon
  BY <1>3 DEF Steps, Then, Removing
<1>4. CASE pc[c] = "asks" /\ Steps(c, "waits") /\ child'[c] = child[c]
  BY <1>1, <1>4 DEF Steps, Then, Removing
<1>5. CASE CommandGoes(c) /\ child'[c] = child[c]
  <2>1. /\ child[c] # 0 /\ pc[child[c]] = "gone" => pc'[child[c]] = "gone"
        /\ child[c] # 0 /\ Answered(child[c]) => NowAnswered(child[c])
    BY <1>0, <1>2
  <2>3. CASE Stays(c)
    BY <1>1, <1>5, <2>1, <2>3 DEF Stays, Steps, Then, Answered
  <2>4. CASE RemovalGoes(c)
    BY <1>1, <1>2, <1>5, <2>1, <2>4 DEF RemovalGoes, Steps, Then, Answered, Removing
  <2>5. CASE pc[c] = "awaits" /\ Steps(c, "records") /\ port = child[c]
    <3>1. child[c] \in L!Daemon /\ pc[child[c]] = "serves"
      BY <1>1, <2>5 DEF Listens
    <3>2. Answered(child[c])
      BY <3>1 DEF Answered
    <3> QED  BY <1>5, <2>1, <2>5, <3>1, <3>2 DEF Steps, Then, Answered, Removing
  <2>6. CASE ~(Stays(c) \/ RemovalGoes(c) \/ (pc[c] = "awaits" /\ Steps(c, "records")))
    BY <1>1, <1>2, <1>5, <2>1, <2>6
    DEF CommandGoes, Steps, SetsOut, Then, Answered, Removing
  <2> QED  BY <1>5, <2>3, <2>4, <2>5, <2>6 DEF CommandGoes, Steps
<1> QED  BY <1>3, <1>4, <1>5 DEF Moved, CommandMay

(* The histories only grow. *)
LEMMA HistoriesGrow ==
  ASSUME [L!Next]_(L!vars)
  PROVE  (robbed => robbed') /\ (residual => residual')
<1> DEFINE Grow == (robbed => robbed') /\ (residual => residual')
<1>1. ASSUME NEW a \in L!Actor, L!Looks(a) PROVE Grow
  BY <1>1, Zenon DEF L!Looks
<1>2. ASSUME NEW a \in L!Actor, L!Takes(a) PROVE Grow
  BY <1>2, Zenon DEF L!Takes
<1>3. ASSUME NEW a \in L!Actor, L!Judges(a) PROVE Grow
  BY <1>3, Zenon DEF L!Judges
<1>4. ASSUME NEW p \in L!Daemon, L!Locks(p) PROVE Grow
  BY <1>4, Zenon DEF L!Locks
<1>5. ASSUME NEW p \in L!Daemon, L!Probes(p) PROVE Grow
  BY <1>5, Zenon DEF L!Probes
<1>6. ASSUME NEW p \in L!Daemon, L!Claims(p) PROVE Grow
  BY <1>6, Zenon DEF L!Claims
<1>7. ASSUME NEW p \in L!Daemon, L!Binds(p) PROVE Grow
  BY <1>7, Zenon DEF L!Binds
<1>8. ASSUME NEW p \in L!Daemon, L!Leaves(p) PROVE Grow
  BY <1>8, Zenon DEF L!Leaves
<1>9. ASSUME NEW p \in L!Daemon, L!Exits(p) PROVE Grow
  BY <1>9, Zenon DEF L!Exits
<1>10. ASSUME NEW p \in L!Daemon, L!Crashes(p) PROVE Grow
  BY <1>10, Zenon DEF L!Crashes, L!Dies
<1>11. ASSUME NEW p \in L!Daemon, L!Recycled(p) PROVE Grow
  BY <1>11, Zenon DEF L!Recycled
<1>12. ASSUME NEW c \in L!Command, L!Invoked(c) PROVE Grow
  BY <1>12, Zenon DEF L!Invoked
<1>13. ASSUME NEW c \in L!Command, L!AlreadyRunning(c) PROVE Grow
  BY <1>13, Zenon DEF L!AlreadyRunning
<1>14. ASSUME NEW c \in L!Command, L!Writes(c) PROVE Grow
  BY <1>14, Zenon DEF L!Writes
<1>15. ASSUME NEW c \in L!Command, L!Creates(c) PROVE Grow
  BY <1>15, Zenon DEF L!Creates
<1>16. ASSUME NEW c \in L!Command, L!AnsweredOwn(c) PROVE Grow
  BY <1>16, Zenon DEF L!AnsweredOwn
<1>17. ASSUME NEW c \in L!Command, L!RecordsOwn(c) PROVE Grow
  BY <1>17, Zenon DEF L!RecordsOwn
<1>18. ASSUME NEW c \in L!Command, L!DiedAfterAnswer(c) PROVE Grow
  BY <1>18, Zenon DEF L!DiedAfterAnswer
<1>19. ASSUME NEW c \in L!Command, L!GivesUp(c) PROVE Grow
  BY <1>19, Zenon DEF L!GivesUp, L!Dies
<1>20. ASSUME NEW c \in L!Command, L!Reaps(c) PROVE Grow
  BY <1>20, Zenon DEF L!Reaps
<1>21. ASSUME NEW c \in L!Command, L!ReadsRecord(c) PROVE Grow
  BY <1>21, Zenon DEF L!ReadsRecord
<1>22. ASSUME NEW c \in L!Command, L!NobodyAnswers(c) PROVE Grow
  BY <1>22, Zenon DEF L!NobodyAnswers
<1>23. ASSUME NEW c \in L!Command, L!Signals(c) PROVE Grow
  BY <1>23, Zenon DEF L!Signals, L!Signalled, L!Dies
<1>24. ASSUME NEW c \in L!Command, L!StopFails(c) PROVE Grow
  BY <1>24, Zenon DEF L!StopFails
<1>25. ASSUME NEW p \in L!Daemon, NEW x \in Captures, L!RunByHand(p, x) PROVE Grow
  BY <1>25, Zenon DEF L!RunByHand
<1>26. ASSUME NEW p \in L!Daemon, NEW x \in Captures, NEW c \in L!Command, L!Spawns(c, p, x)
      PROVE  Grow
  BY <1>26, Zenon DEF L!Spawns
<1>27. ASSUME NEW c \in L!Command, NEW obeyed \in BOOLEAN, L!Shutdown(c, obeyed) PROVE Grow
  BY <1>27, Zenon DEF L!Shutdown
<1>28. ASSUME NEW c \in L!Command, NEW then \in {"ok", "starts"}, L!StopTidies(c, then) PROVE Grow
  BY <1>28, Zenon DEF L!StopTidies
<1>29. CASE UNCHANGED L!vars
  BY <1>29, Zenon DEF L!vars
<1> QED
  BY <1>1, <1>2, <1>3, <1>4, <1>5, <1>6, <1>7, <1>8, <1>9, <1>10, <1>11, <1>12, <1>13,
     <1>14, <1>15, <1>16, <1>17, <1>18, <1>19, <1>20, <1>21, <1>22, <1>23, <1>24, <1>25,
     <1>26, <1>27, <1>28, <1>29 DEF L!Next

(* Nobody sets out to remove the record of a daemon that may have it. *)
LEMMA DoomedKept ==
  ASSUME ThereAre, Shapes, Stands, Listens, Starting, Doomed, Moved, robbed => robbed'
  PROVE  Doomed'
<1> USE Pids
<1>0. \A q \in L!Daemon : pc[q] = "gone" => pc'[q] = "gone"
  BY DaemonsGo DEF Onward
<1> SUFFICES ASSUME ~robbed', NEW a \in L!Actor, pc'[a] \in Removing, tgt'[a] \in L!Daemon
             PROVE  tgt'[a] = a \/ pc'[tgt'[a]] = "gone"
  BY DEF Doomed
<1>1. CASE pc[a] \in Removing /\ tgt'[a] = tgt[a]
  BY <1>0, <1>1 DEF Doomed
<1>2. CASE tgt'[a] = a \/ Removed(tgt'[a])
  BY <1>0, <1>2 DEF Removed
<1>3. CASE a \in L!Daemon
  <2>1. DaemonMay(a)
    BY <1>3 DEF Moved
  <2> QED  BY <1>1, <1>2, <2>1 DEF DaemonMay, RemovalGoes, Stays, Steps, SetsOut, Removing
<1>4. CASE a \in L!Command
  <2>1. CommandMay(a)
    BY <1>4 DEF Moved
  <2>2. pc[child[a]] = "gone" => Removed(child[a])
    BY DEF Removed
  <2> QED
    BY <1>1, <1>2, <2>1, <2>2
    DEF CommandMay, CommandGoes, RemovalGoes, Stays, Steps, SetsOut, Removing
<1> QED  BY <1>3, <1>4

(* The record of the daemon that listens is not lost. *)
LEMMA KeptStays ==
  ASSUME ThereAre, Shapes, Stands, Listens, Starting, Doomed, Kept, [L!Next]_(L!vars)
  PROVE  Kept'
<1> USE Pids DEF L!Goes
<1> SUFFICES ASSUME ~robbed', ~residual', known', port' # 0
             PROVE  record' = port' \/ \E a \in L!Actor : pc'[a] = "judges" /\ aside'[a] = port'
  BY DEF Kept
<1> DEFINE Good == record' = port' \/ \E a \in L!Actor : pc'[a] = "judges" /\ aside'[a] = port'
<1>a. /\ known /\ port # 0 =>
           record = port \/ \E a \in L!Actor : pc[a] = "judges" /\ aside[a] = port
      /\ ~robbed /\ ~residual
  BY HistoriesGrow DEF Kept
<1>b. /\ port \in {0} \cup L!Daemon /\ DOMAIN pc = L!Actor /\ DOMAIN aside = L!Actor
      /\ port # 0 => port \in L!Daemon /\ pc[port] = "serves"
  BY DEF Shapes, Stands, Listens
<1>1. ASSUME NEW a \in L!Actor, L!Looks(a) PROVE Good
  BY <1>1, <1>a, <1>b DEF L!Looks
<1>2. ASSUME NEW a \in L!Actor, L!Takes(a) PROVE Good
  <2>1. known
    BY <1>2, Zenon DEF L!Takes, L!Records, L!Absent
  <2>2. /\ pc[a] = "takes" /\ port' = port /\ aside' = [aside EXCEPT ![a] = record]
        /\ pc' = [pc EXCEPT ![a] = IF record = L!Absent THEN ret[a] ELSE "judges"]
    BY <1>2 DEF L!Takes
  <2>3. record = port => pc'[a] = "judges" /\ aside'[a] = port'
    BY <1>b, <2>2
  <2>4. ASSUME NEW b \in L!Actor, pc[b] = "judges", aside[b] = port
        PROVE  pc'[b] = "judges" /\ aside'[b] = port'
    BY <1>b, <2>2, <2>4
  <2> QED  BY <1>a, <2>1, <2>2, <2>3, <2>4
<1>3. ASSUME NEW a \in L!Actor, L!Judges(a) PROVE Good
  <2>1. /\ pc[a] = "judges" /\ port' = port
        /\ aside' = [aside EXCEPT ![a] = L!Absent] /\ pc' = [pc EXCEPT ![a] = ret[a]]
    BY <1>3 DEF L!Judges
  <2>2. ASSUME NEW b \in L!Actor, b # a, pc[b] = "judges", aside[b] = port
        PROVE  pc'[b] = "judges" /\ aside'[b] = port'
    BY <1>b, <2>1, <2>2
  <2>3. CASE aside[a] # tgt[a] /\ record = L!Absent
    <3>1. record' = aside[a]
      BY <1>3, <2>3 DEF L!Judges, L!Records
    <3>2. aside[a] = port \/ known
      BY <1>3, <2>3, Zenon DEF L!Judges, L!Records
    <3> QED  BY <1>a, <1>b, <2>1, <2>2, <2>3, <3>1, <3>2
  <2>4. CASE ~(aside[a] # tgt[a] /\ record = L!Absent)
    <3>1. record' = record /\ known' = known
      BY <1>3, <2>4 DEF L!Judges
    <3>2. aside[a] = tgt[a]
      <4>1. ~(aside[a] # tgt[a] /\ record # L!Absent)
        BY <1>3, Zenon DEF L!Judges
      <4> QED  BY <2>4, <4>1
    <3>3. aside[a] # port
      <4>1. tgt[a] \in L!Daemon => tgt[a] = a \/ pc[tgt[a]] = "gone"
        BY <1>a, <2>1 DEF Doomed, Removing
      <4> QED  BY <1>b, <2>1, <3>2, <4>1
    <3>4. known
      BY <3>1
    <3> QED  BY <1>a, <2>1, <2>2, <3>1, <3>3, <3>4
  <2> QED  BY <2>3, <2>4
<1>4. ASSUME NEW p \in L!Daemon, NEW x \in Captures,
             L!RunByHand(p, x) \/ \E c \in L!Command : L!Spawns(c, p, x)
      PROVE  Good
  BY <1>4, <1>a, <1>b DEF L!RunByHand, L!Spawns, L!Launched
<1>5. ASSUME NEW p \in L!Daemon, L!Locks(p) \/ L!Probes(p) \/ L!Exits(p) \/ L!Recycled(p)
               \/ L!Leaves(p)
      PROVE  Good
  BY <1>5, <1>a, <1>b DEF L!Locks, L!Probes, L!Exits, L!Recycled, L!Leaves, L!Removes
<1>6. ASSUME NEW p \in L!Daemon, L!Claims(p) PROVE Good
  <2>0. /\ pc[p] \in {"claims", "claims again"} /\ port' = port /\ aside' = aside
        /\ pc' = [pc EXCEPT ![p] = "binds"] \/ pc' = [pc EXCEPT ![p] = "looks"]
    BY <1>6 DEF L!Claims, L!Removes
  <2>1. /\ pc[p] \in {"claims", "claims again"} /\ port' = port /\ aside' = aside
        /\ \A b \in L!Actor : b # p => pc'[b] = pc[b]
    BY <1>b, <2>0
  <2>2. record # L!Absent => record' = record /\ known' = known
    BY <1>6 DEF L!Claims
  <2>3. p # port
    BY <1>b, <2>1
  <2>4. known
    <3>1. CASE record = L!Absent
      <4>1. known' = (port # 0 /\ (p = port \/ (known /\ port = port)))
        BY <1>6, <3>1 DEF L!Claims, L!Records
      <4> QED  BY <2>3, <4>1, Zenon
    <3> QED  BY <2>2, <3>1
  <2> QED  BY <1>a, <1>b, <2>1, <2>2, <2>4
<1>7. ASSUME NEW p \in L!Daemon, L!Binds(p) PROVE Good
  <2>1. CASE port = 0
    <3>1. port' = p /\ known' = (record = p) /\ record' = record
      BY <1>7, <2>1 DEF L!Binds
    <3>2. record = p
      BY <3>1, Zenon
    <3> QED  BY <3>1, <3>2
  <2>2. CASE port # 0
    BY <1>7, <2>2, <1>a, <1>b DEF L!Binds
  <2> QED  BY <2>1, <2>2
<1>8. ASSUME NEW p \in L!Daemon, L!Crashes(p) PROVE Good
  <2>1. /\ port # p /\ port' = port /\ aside' = [aside EXCEPT ![p] = L!Absent]
        /\ pc' = [pc EXCEPT ![p] = "gone"]
        /\ record' = record \/ record = L!Absent
    BY <1>8 DEF L!Crashes, L!Dies
  <2>2. known
    BY <1>8, Zenon DEF L!Crashes, L!Dies
  <2>3. aside[p] = L!Absent
    BY <1>8, Zenon DEF L!Crashes, L!Dies
  <2> QED  BY <1>a, <1>b, <2>1, <2>2, <2>3
<1>9. ASSUME NEW c \in L!Command,
             \/ L!Invoked(c) \/ L!AlreadyRunning(c) \/ L!AnsweredOwn(c) \/ L!StopFails(c)
             \/ L!ReadsRecord(c)
      PROVE  Good
  BY <1>9, <1>a, <1>b DEF L!Invoked, L!Begins, L!AlreadyRunning, L!AnsweredOwn, L!StopFails,
     L!ReadsRecord
<1>10. ASSUME NEW c \in L!Command, L!Writes(c) \/ L!DiedAfterAnswer(c) \/ L!Reaps(c)
               \/ L!NobodyAnswers(c)
       PROVE  Good
  BY <1>10, <1>a, <1>b DEF L!Writes, L!DiedAfterAnswer, L!Reaps, L!NobodyAnswers, L!Removes
<1>11. ASSUME NEW c \in L!Command, L!Creates(c) PROVE Good
  <2>1. /\ pc[c] = "creates" /\ pc' = [pc EXCEPT ![c] = "awaits"] /\ port' = port /\ aside' = aside
    BY <1>11 DEF L!Creates
  <2>2. CASE record = L!Absent
    <3>1. record' = child[c] /\ known' = (port # 0 /\ (child[c] = port \/ (known /\ port = port)))
      BY <1>11, <2>2 DEF L!Creates, L!Records
    <3>2. child[c] = port \/ known
      BY <3>1, Zenon
    <3> QED  BY <1>a, <1>b, <2>1, <2>2, <3>1, <3>2
  <2>3. CASE record # L!Absent
    BY <1>11, <1>a, <1>b, <2>1, <2>3 DEF L!Creates
  <2> QED  BY <2>2, <2>3
<1>12. ASSUME NEW c \in L!Command, L!RecordsOwn(c) PROVE Good
  <2>1. /\ pc[c] = "records" /\ pc' = [pc EXCEPT ![c] = "ok"] /\ port' = port /\ aside' = aside
        /\ record' = child[c]
    BY <1>12 DEF L!RecordsOwn, L!Records
  <2>2. child[c] = port \/ known
    BY <1>12, Zenon DEF L!RecordsOwn, L!Records
  <2>3. ~(record # child[c] /\ L!Alive(record) /\ port # child[c])
    BY <1>12, Zenon DEF L!RecordsOwn
  <2>4. record = port => L!Alive(record)
    BY <1>b, <2>1 DEF L!Alive, L!Over
  <2> QED  BY <1>a, <1>b, <2>1, <2>2, <2>3, <2>4
<1>13. ASSUME NEW c \in L!Command, L!GivesUp(c) PROVE Good
  <2> DEFINE p == child[c]
             to == L!Terminated(p, pc[p])
  <2>1. p \in L!Daemon /\ port # p /\ record' = record /\ pc[c] = "awaits"
    BY <1>13 DEF L!GivesUp, Starting
  <2>2. pc' = [pc EXCEPT ![c] = "reaps", ![p] = to]
    BY <1>13 DEF L!GivesUp
  <2>3. pc[p] = "judges" => to = "gone"
    BY <2>1, TerminatedTo DEF Stands, Removing
  <2>4. CASE pc'[p] = "gone"
    <3>1. L!Dies(p)
      BY <1>13, <2>4 DEF L!GivesUp
    <3>2. known
      BY <3>1, Zenon DEF L!Dies
    <3>3. aside[p] = L!Absent
      BY <3>1, Zenon DEF L!Dies
    <3>4. port' = port /\ aside' = [aside EXCEPT ![p] = L!Absent]
      BY <2>1, <3>1 DEF L!Dies
    <3> HIDE DEF p, to
    <3> QED  BY <1>a, <1>b, <2>1, <2>2, <3>2, <3>3, <3>4
  <2>5. CASE pc'[p] # "gone"
    <3>1. UNCHANGED <<port, aside, known>>
      BY <1>13, <2>5 DEF L!GivesUp
    <3>2. pc[p] # "judges"
      BY <1>b, <2>1, <2>2, <2>3, <2>5
    <3> HIDE DEF p, to
    <3> QED  BY <1>a, <1>b, <2>1, <2>2, <3>1, <3>2
  <2> QED  BY <2>4, <2>5
<1>14. ASSUME NEW c \in L!Command, L!Signals(c) PROVE Good
  <2> DEFINE p == recorded[c]
             to == L!Terminated(p, pc[p])
  <2>1. record' = record /\ L!Signalled(p)
    BY <1>14 DEF L!Signals
  <2>2. CASE p \in stranger \/ pc[p] \in L!Over
    BY <1>a, <1>b, <2>1, <2>2 DEF L!Signalled
  <2>3. CASE ~(p \in stranger \/ pc[p] \in L!Over)
    <3>1. p \in L!Daemon
      <4>1. recorded[c] \in L!Daemon \/ recorded[c] \in {L!Absent, L!Empty}
        BY DEF Shapes, Named
      <4> QED  BY <1>14, <2>3, <4>1 DEF L!Signals, L!Corroborated, L!Gone, L!Alive
    <3>2. /\ pc' = [pc EXCEPT ![p] = to]
          /\ IF to = "gone" THEN L!Dies(p)
             ELSE /\ port' = (IF port = p THEN 0 ELSE port) /\ known' = (known /\ port # p)
                  /\ UNCHANGED aside
      BY <2>1, <2>3 DEF L!Signalled
    <3>3. pc[p] = "judges" => to = "gone"
      BY <3>1, TerminatedTo DEF Stands, Removing
    <3> HIDE DEF p, to
    <3>4. port' = (IF port = p THEN 0 ELSE port) /\ known' = (known /\ port # p)
      BY <3>2 DEF L!Dies
    <3>5. known
      BY <3>4, Zenon
    <3>6. CASE to = "gone"
      <4>1. aside[p] = L!Absent
        BY <3>2, <3>6, Zenon DEF L!Dies
      <4>2. aside' = [aside EXCEPT ![p] = L!Absent]
        BY <3>2, <3>6 DEF L!Dies
      <4> QED  BY <1>a, <1>b, <2>1, <3>2, <3>4, <3>5, <4>1, <4>2
    <3>7. CASE to # "gone"
      BY <1>a, <1>b, <2>1, <3>2, <3>3, <3>4, <3>5, <3>7
    <3> QED  BY <3>6, <3>7
  <2> QED  BY <2>2, <2>3
<1>15. ASSUME NEW c \in L!Command, NEW obeyed \in BOOLEAN, L!Shutdown(c, obeyed) PROVE Good
  BY <1>15, <1>a, <1>b DEF L!Shutdown
<1>16. ASSUME NEW c \in L!Command, NEW then \in {"ok", "starts"}, L!StopTidies(c, then) PROVE Good
  BY <1>16, <1>a, <1>b DEF L!StopTidies, L!Removes
<1>17. CASE UNCHANGED L!vars
  BY <1>17, <1>a, <1>b DEF L!vars
<1> QED
  BY <1>1, <1>2, <1>3, <1>4, <1>5, <1>6, <1>7, <1>8, <1>9, <1>10, <1>11, <1>12, <1>13, <1>14,
     <1>15, <1>16, <1>17 DEF L!Next

(* The record has known the daemon a start reported, for as long as it listens. *)
LEMMA ReportedKept ==
  ASSUME ThereAre, Shapes, Stands, Listens, Starting, Reported, [L!Next]_(L!vars)
  PROVE  Reported'
<1> USE Pids DEF L!Goes
<1> SUFFICES ASSUME NEW d \in L!Command, pc'[d] = "ok", child'[d] # 0, port' = child'[d]
             PROVE  known'
  BY DEF Reported
<1>a. pc[d] = "ok" /\ child[d] # 0 /\ port = child[d] => known /\ port \in L!Daemon
  BY DEF Reported, Shapes
<1>b. /\ child \in [L!Command -> {0} \cup L!Daemon] /\ DOMAIN pc = L!Actor
      /\ \A p \in L!Daemon : pc[p] = "serves" <=> port = p
  BY DEF Shapes, Stands, Listens
<1>1. ASSUME NEW a \in L!Actor, L!Looks(a) \/ L!Takes(a) \/ L!Judges(a) PROVE known'
  <2>1. /\ UNCHANGED <<child, port>> /\ pc[a] \in Removing
        /\ \/ pc' = [pc EXCEPT ![a] = "takes"] \/ pc' = [pc EXCEPT ![a] = "judges"]
           \/ pc' = [pc EXCEPT ![a] = ret[a]]
    BY <1>1 DEF L!Looks, L!Takes, L!Judges, Removing
  <2>2. pc[d] = "ok"
    <3>1. CASE a = d
      BY <1>b, <2>1, <3>1 DEF Starting
    <3>2. CASE a # d
      BY <1>b, <2>1, <3>2
    <3> QED  BY <3>1, <3>2
  <2>3. known /\ port # 0
    BY <1>a, <2>1, <2>2
  <2>4. CASE L!Records(L!Absent, port)
    BY <2>3, <2>4, Zenon DEF L!Records
  <2>5. CASE L!Records(aside[a], port)
    BY <2>3, <2>5, Zenon DEF L!Records
  <2>6. CASE known' = known
    BY <2>3, <2>6
  <2> QED  BY <1>1, <2>4, <2>5, <2>6 DEF L!Looks, L!Takes, L!Judges
<1>2. ASSUME NEW p \in L!Daemon, NEW x \in Captures, NEW c \in L!Command,
             L!RunByHand(p, x) \/ L!Spawns(c, p, x)
      PROVE  known'
  <2>1. UNCHANGED <<port, known>> /\ pc[p] = "off"
    BY <1>2 DEF L!RunByHand, L!Spawns, L!Launched
  <2>2. pc[d] = "ok"
    BY <1>2, <1>b DEF L!RunByHand, L!Spawns, Stands, DaemonPlaces
  <2>3. child'[d] = child[d]
    BY <1>2, <1>b, <2>2 DEF L!RunByHand, L!Spawns
  <2> QED  BY <1>a, <2>1, <2>2, <2>3
<1>3. ASSUME NEW p \in L!Daemon, L!Locks(p) \/ L!Probes(p) \/ L!Exits(p) \/ L!Recycled(p)
               \/ L!Leaves(p)
      PROVE  known'
  BY <1>3, <1>a, <1>b DEF L!Locks, L!Probes, L!Exits, L!Recycled, L!Leaves, L!Removes
<1>4. ASSUME NEW p \in L!Daemon, L!Claims(p) PROVE known'
  <2>1. UNCHANGED <<child, port>> /\ pc'[d] = pc[d]
    BY <1>4, <1>b DEF L!Claims, L!Removes
  <2>2. known /\ port # 0
    BY <1>a, <2>1
  <2>3. CASE L!Records(p, port)
    BY <2>2, <2>3, Zenon DEF L!Records
  <2>4. CASE known' = known
    BY <2>2, <2>4
  <2> QED  BY <1>4, <2>3, <2>4 DEF L!Claims
<1>5. ASSUME NEW p \in L!Daemon, L!Binds(p) PROVE known'
  <2>1. child' = child /\ pc'[d] = pc[d] /\ pc[p] = "binds"
    BY <1>5, <1>b DEF L!Binds
  <2>2. child[d] # p
    BY <2>1 DEF Starting, Answered, Removing
  <2>3. port' = port /\ known' = known
    BY <1>5, <2>1, <2>2 DEF L!Binds
  <2> QED  BY <1>a, <2>1, <2>3
<1>6. ASSUME NEW p \in L!Daemon, L!Crashes(p) PROVE known'
  <2>1. child' = child /\ pc'[d] = pc[d] /\ port' = port /\ port # p
    BY <1>6, <1>a, <1>b DEF L!Crashes, L!Dies
  <2>2. known
    BY <1>a, <2>1
  <2> QED  BY <1>6, <2>1, <2>2, Zenon DEF L!Crashes, L!Dies
<1>7. ASSUME NEW c \in L!Command,
             \/ L!Invoked(c) \/ L!AlreadyRunning(c) \/ L!AnsweredOwn(c) \/ L!StopFails(c)
             \/ L!ReadsRecord(c)
      PROVE  known'
  BY <1>7, <1>a, <1>b DEF L!Invoked, L!Begins, L!AlreadyRunning, L!AnsweredOwn, L!StopFails,
     L!ReadsRecord
<1>8. ASSUME NEW c \in L!Command, L!Writes(c) \/ L!DiedAfterAnswer(c) \/ L!Reaps(c)
               \/ L!NobodyAnswers(c)
      PROVE  known'
  BY <1>8, <1>a, <1>b DEF L!Writes, L!DiedAfterAnswer, L!Reaps, L!NobodyAnswers, L!Removes
<1>9. ASSUME NEW c \in L!Command, L!Creates(c) PROVE known'
  <2>1. UNCHANGED <<child, port>> /\ pc[d] = "ok"
    BY <1>9, <1>b DEF L!Creates
  <2>2. known /\ port # 0
    BY <1>a, <2>1
  <2>3. CASE L!Records(child[c], port)
    BY <2>2, <2>3, Zenon DEF L!Records
  <2>4. CASE known' = known
    BY <2>2, <2>4
  <2> QED  BY <1>9, <2>3, <2>4 DEF L!Creates
<1>10. ASSUME NEW c \in L!Command, L!RecordsOwn(c) PROVE known'
  <2>1. UNCHANGED <<child, port>> /\ L!Records(child[c], port) /\ port # 0
        /\ (c = d \/ pc[d] = "ok")
    BY <1>10, <1>b DEF L!RecordsOwn
  <2>2. child[c] = port \/ known
    BY <1>a, <2>1
  <2> QED  BY <2>1, <2>2, Zenon DEF L!Records
<1>11. ASSUME NEW c \in L!Command, L!GivesUp(c) PROVE known'
  <2>1. child[c] \in L!Daemon /\ child[c] # port
    BY <1>11 DEF L!GivesUp, Starting
  <2>2. child' = child /\ pc[d] = "ok" /\ port' = port
    BY <1>11, <1>b, <2>1 DEF L!GivesUp, L!Dies
  <2>3. known /\ port # child[c]
    BY <1>a, <2>1, <2>2
  <2>4. CASE L!Dies(child[c])
    BY <2>3, <2>4, Zenon DEF L!Dies
  <2>5. CASE known' = known
    BY <2>3, <2>5
  <2> QED  BY <1>11, <2>4, <2>5 DEF L!GivesUp
<1>12. ASSUME NEW c \in L!Command, L!Signals(c) PROVE known'
  <2> DEFINE p == recorded[c]
  <2>1. child' = child /\ L!Signalled(p)
    BY <1>12 DEF L!Signals
  <2>2. p \notin L!Command
    <3>1. p \in Named
      BY DEF Shapes
    <3> QED  BY <3>1 DEF Named
  <2>3. pc[d] = "ok"
    BY <1>b, <2>1, <2>2 DEF L!Signalled
  <2>4. CASE known' = known /\ port' = port
    BY <1>a, <2>1, <2>3, <2>4
  <2>5. CASE port' = (IF port = p THEN 0 ELSE port) /\ known' = (known /\ port # p)
    <3>1. port # p /\ known
      BY <1>a, <2>1, <2>3, <2>5
    <3> QED  BY <2>5, <3>1, Zenon
  <2> QED  BY <2>1, <2>4, <2>5 DEF L!Signalled, L!Dies
<1>13. ASSUME NEW c \in L!Command, NEW obeyed \in BOOLEAN, L!Shutdown(c, obeyed) PROVE known'
  BY <1>13, <1>a, <1>b DEF L!Shutdown, Shapes
<1>14. ASSUME NEW c \in L!Command, NEW then \in {"ok", "starts"}, L!StopTidies(c, then)
      PROVE  known'
  BY <1>14, <1>a, <1>b DEF L!StopTidies, L!Removes, Starting
<1>15. CASE UNCHANGED L!vars
  BY <1>15, <1>a, <1>b DEF L!vars
<1> QED
  BY <1>1, <1>2, <1>3, <1>4, <1>5, <1>6, <1>7, <1>8, <1>9, <1>10, <1>11, <1>12, <1>13, <1>14,
     <1>15 DEF L!Next

-------------------------------------------------------------------------------
(* The theorems. *)

LEMMA DaemonInit ==
  ASSUME ThereAre, L!Init
  PROVE  LifeInv
<1> USE Pids
<1>1. Shapes
  BY DEF L!Init, Shapes, Named
<1>2. Stands /\ Listens
  BY DEF L!Init, Stands, Listens, DaemonPlaces, CommandPlaces, Removing
<1>3. NamedRan /\ Strangers /\ Starting
  BY DEF L!Init, NamedRan, Ran, Strangers, Starting, Then, Removing
<1>4. Doomed /\ Kept /\ Reported
  BY DEF L!Init, Doomed, Kept, Reported, Removing
<1> QED  BY <1>1, <1>2, <1>3, <1>4 DEF LifeInv

LEMMA DaemonAlways ==
  ASSUME ThereAre
  PROVE  L!Spec => []LifeInv
<1>1. LifeInv /\ [L!Next]_(L!vars) => LifeInv'
  <2> SUFFICES ASSUME LifeInv, [L!Next]_(L!vars) PROVE LifeInv'
    OBVIOUS
  <2>1. /\ Shapes /\ Stands /\ Listens /\ NamedRan /\ Strangers /\ Starting /\ Doomed
        /\ Kept /\ Reported
    BY DEF LifeInv
  <2>2. Moved /\ (robbed => robbed')
    BY <2>1, ProcessesMove, HistoriesGrow
  <2>3. Shapes' /\ Stands' /\ Listens' /\ NamedRan'
    BY <2>1, <2>2, ShapesKept, StandsKept, DaemonsGo, NamedKept
  <2>4. Strangers' /\ Starting' /\ Doomed'
    BY <2>1, <2>2, StrangersKept, StartingKept, DoomedKept
  <2>5. Kept' /\ Reported'
    BY <2>1, KeptStays, ReportedKept
  <2> QED  BY <2>3, <2>4, <2>5 DEF LifeInv
<1> QED  BY <1>1, DaemonInit, PTL DEF L!Spec

(* Every variable holds what its comment says. *)
THEOREM DaemonTypes ==
  ASSUME ThereAre
  PROVE  L!Spec => []L!TypeOK
<1>1. LifeInv => L!TypeOK
  BY DEF LifeInv, Shapes, Named, L!TypeOK
<1> QED  BY <1>1, DaemonAlways, PTL

(* No process is signalled but a daemon that named itself, whatever pids the  *)
(* system gives away and whatever records are left.                          *)
THEOREM NoStrangerIsSignalled ==
  ASSUME ThereAre
  PROVE  L!Spec => []L!NoStrangerSignalled
<1>1. LifeInv => L!NoStrangerSignalled
  BY DEF LifeInv, Strangers, L!NoStrangerSignalled
<1> QED  BY <1>1, DaemonAlways, PTL

(* A start that failed has left no process of its own behind. *)
THEOREM FailedStartsLeaveNothing ==
  ASSUME ThereAre
  PROVE  L!Spec => []L!FailedStartLeavesNothing
<1>1. LifeInv => L!FailedStartLeavesNothing
  BY DEF LifeInv, Starting, Then, L!FailedStartLeavesNothing
<1> QED  BY <1>1, DaemonAlways, PTL

(* A daemon that listens and was once named by the record is named by it       *)
(* whenever nothing is under way: the moves, put-backs and removals of starts, *)
(* stops and daemons that meet in any order do not take it, but in the ways   *)
(* `robbed` and `residual` tell.                                             *)
LEMMA QuietKeeps == ASSUME ThereAre, LifeInv PROVE L!ServingKeepsRecord
<1> SUFFICES ASSUME ~robbed, L!Quiet, port # 0, known, ~residual PROVE record = port
  BY DEF L!ServingKeepsRecord, L!LiveDaemonKeepsRecord
<1>1. \A a \in L!Actor : pc[a] # "judges"
  BY Pids DEF L!Quiet, L!InProgress, L!Over
<1> QED  BY <1>1 DEF LifeInv, Kept

THEOREM ServingDaemonsKeepRecord ==
  ASSUME ThereAre
  PROVE  L!Spec => []L!ServingKeepsRecord
<1>1. LifeInv => L!ServingKeepsRecord
  BY QuietKeeps
<1> QED  BY <1>1, DaemonAlways, PTL

(* A start that reported success leaves its daemon named by the record, for   *)
(* as long as that daemon listens.                                           *)
THEOREM StartedDaemonsRecorded ==
  ASSUME ThereAre
  PROVE  L!Spec => []L!StartedIsRecorded
<1>1. LifeInv => L!StartedIsRecorded
  BY QuietKeeps DEF LifeInv, Reported, L!ServingKeepsRecord, L!LiveDaemonKeepsRecord,
     L!StartedIsRecorded
<1> QED  BY <1>1, DaemonAlways, PTL
-------------------------------------------------------------------------------
(* TokenGuard. *)

(* The operators of FiniteSets are those that the instance sees. *)
LEMMA GuardSets ==
  \A S : /\ G!Cardinality(S) = Cardinality(S)
         /\ G!IsFiniteSet(S) = IsFiniteSet(S)
BY DEF G!Cardinality, Cardinality, G!IsFiniteSet, IsFiniteSet

(* Sets with some elements fewer, or one more. *)
LEMMA SomeFewer ==
  ASSUME NEW A, IsFiniteSet(A), NEW old \in SUBSET A
  PROVE  /\ IsFiniteSet(A \ old) /\ Cardinality(A) \in Nat /\ Cardinality(old) \in Nat
         /\ Cardinality(A \ old) = Cardinality(A) - Cardinality(old)
<1>1. A \cap old = old
  OBVIOUS
<1>2. IsFiniteSet(old)
  BY FS_Subset
<1> QED  BY <1>1, <1>2, FS_Difference, FS_CardinalityType

LEMMA OneMore ==
  ASSUME NEW A, IsFiniteSet(A), NEW x, NEW B \in SUBSET (A \cup {x})
  PROVE  IsFiniteSet(B) /\ Cardinality(B) <= Cardinality(A) + 1 /\ Cardinality(A) \in Nat
<1>1. /\ IsFiniteSet(A \cup {x}) /\ Cardinality(A) \in Nat
      /\ Cardinality(A \cup {x}) <= Cardinality(A) + 1
  <2>1. /\ IsFiniteSet(A \cup {x})
        /\ Cardinality(A \cup {x}) = IF x \in A THEN Cardinality(A) ELSE Cardinality(A) + 1
    BY FS_AddElement
  <2>2. Cardinality(A) \in Nat
    BY FS_CardinalityType
  <2> QED  BY <2>1, <2>2
<1>2. IsFiniteSet(B) /\ Cardinality(B) <= Cardinality(A \cup {x})
  BY <1>1, FS_Subset
<1>3. Cardinality(B) \in Nat /\ Cardinality(A \cup {x}) \in Nat
  BY <1>1, <1>2, FS_CardinalityType
<1> QED  BY <1>1, <1>2, <1>3

Record == [count : Nat, start : Int, locked : Int]

GuardTypes ==
  /\ now \in 0 .. MaxTicks /\ evicting \in BOOLEAN /\ warned \in Nat
  /\ fails \in [Client -> Record] /\ compared \in [Client -> Int]
  /\ \A c \in Client : compared[c] <= now
  /\ \A c \in Client : fails[c] # G!NoRecord =>
       fails[c].count > 0 /\ fails[c].start \in 0 .. MaxTicks

(* A record locks its client out for no longer than Lockout from the guess   *)
(* that was compared last.                                                   *)
LockoutsEnd ==
  \A c \in Client : fails[c] # G!NoRecord => fails[c].locked <= compared[c] + Lockout

Bounded(f, n) == IsFiniteSet(G!Recorded(f)) /\ Cardinality(G!Recorded(f)) <= n

GuardInv == GuardTypes /\ LockoutsEnd /\ Bounded(fails, TableMax)

(* A table that others were pruned from: what it still has, it had. *)
LEMMA WithoutKeeps ==
  ASSUME NEW f \in [Client -> Record], NEW gone
  PROVE  /\ G!Without(f, gone) \in [Client -> Record]
         /\ \A c \in Client : G!Without(f, gone)[c] \in {f[c], G!NoRecord}
         /\ G!Recorded(G!Without(f, gone)) = G!Recorded(f) \ gone
BY DEF G!Without, G!Recorded, G!NoRecord, Record

(* Pruning leaves room for one record, and no record but those there were.   *)
LEMMA PruningMakesRoom ==
  ASSUME NEW f \in [Client -> Record], IsFiniteSet(G!Recorded(f)), TableMax \in Nat \ {0},
         NEW g \in G!Pruned(f)
  PROVE  /\ g \in [Client -> Record]
         /\ \A c \in Client : g[c] \in {f[c], G!NoRecord}
         /\ Bounded(g, TableMax - 1)
<1> DEFINE kept == G!Without(f, G!Expired(f))
           over == Cardinality(G!Recorded(kept)) - TableMax + 1
<1>1. /\ kept \in [Client -> Record]
      /\ \A c \in Client : kept[c] \in {f[c], G!NoRecord}
      /\ G!Recorded(kept) \subseteq G!Recorded(f)
  BY WithoutKeeps
<1>2. IsFiniteSet(G!Recorded(kept)) /\ Cardinality(G!Recorded(kept)) \in Nat
  BY <1>1, FS_Subset, FS_CardinalityType
<1>3. \/ over <= 0 /\ g = kept
      \/ over > 0 /\ \E old \in SUBSET G!Recorded(kept) :
           Cardinality(old) = over /\ g = G!Without(kept, old)
  BY <1>2, GuardSets DEF G!Pruned
<1> HIDE DEF kept, over
<1>4. CASE over <= 0 /\ g = kept
  BY <1>1, <1>2, <1>4 DEF Bounded, over
<1>5. CASE over > 0 /\ \E old \in SUBSET G!Recorded(kept) :
             Cardinality(old) = over /\ g = G!Without(kept, old)
  <2>1. PICK old \in SUBSET G!Recorded(kept) :
          Cardinality(old) = over /\ g = G!Without(kept, old)
    BY <1>5
  <2>2. /\ g \in [Client -> Record] /\ \A c \in Client : g[c] \in {kept[c], G!NoRecord}
        /\ G!Recorded(g) = G!Recorded(kept) \ old
    BY <1>1, <2>1, WithoutKeeps
  <2>3. /\ IsFiniteSet(G!Recorded(g)) /\ Cardinality(G!Recorded(kept)) \in Nat
        /\ Cardinality(G!Recorded(g)) = Cardinality(G!Recorded(kept)) - over
    BY <1>2, <2>1, <2>2, SomeFewer
  <2>4. Cardinality(G!Recorded(g)) = TableMax - 1
    BY <2>3 DEF over
  <2>5. \A c \in Client : g[c] \in {f[c], G!NoRecord}
    BY <1>1, <2>2
  <2> QED  BY <2>2, <2>3, <2>4, <2>5 DEF Bounded
<1> QED  BY <1>3, <1>4, <1>5

(* A wrong guess changes one record, in a table pruned if it was full.        *)
LEMMA FailureKeeps ==
  ASSUME GuardInv, NEW c \in Client, G!WrongToken(c)
  PROVE  GuardInv'
<1> USE GuardAssumption
<1>1. GuardTypes /\ LockoutsEnd /\ Bounded(fails, TableMax)
  BY DEF GuardInv
<1>2. /\ now' = now /\ compared' = [compared EXCEPT ![c] = now]
      /\ evicting' \in BOOLEAN /\ warned' \in Nat
  <2>1. now' = now /\ compared' = [compared EXCEPT ![c] = now]
    BY DEF G!WrongToken
  <2>2. G!RegisterFailure(c)
    BY DEF G!WrongToken
  <2>3. evicting' \in BOOLEAN
    BY <1>1, <2>2, Zenon DEF G!RegisterFailure, GuardTypes, G!Full
  <2>4. warned' \in {warned, warned + 1}
    BY <2>2, Zenon DEF G!RegisterFailure
  <2> QED  BY <1>1, <2>1, <2>3, <2>4 DEF GuardTypes
<1>3. PICK f \in IF G!Full(fails) THEN G!Pruned(fails) ELSE {fails} :
        LET rec == IF f[c] = G!NoRecord \/ now - f[c].start > Window
                   THEN [count |-> 1, start |-> now, locked |-> f[c].locked]
                   ELSE [f[c] EXCEPT !.count = @ + 1]
        IN  fails' = [f EXCEPT ![c] = IF rec.count >= FailMax
                                      THEN [rec EXCEPT !.locked = now + Lockout] ELSE rec]
  BY DEF G!WrongToken, G!RegisterFailure
<1>4. /\ f \in [Client -> Record]
      /\ \A d \in Client : f[d] \in {fails[d], G!NoRecord}
      /\ Bounded(f, TableMax - 1)
  <2>1. CASE G!Full(fails)
    <3>1. fails \in [Client -> Record] /\ IsFiniteSet(G!Recorded(fails)) /\ f \in G!Pruned(fails)
      BY <1>1, <1>3, <2>1 DEF GuardTypes, Bounded
    <3> QED  BY <3>1, PruningMakesRoom
  <2>2. CASE ~G!Full(fails)
    <3>1. f = fails /\ Cardinality(G!Recorded(fails)) \in Nat
      BY <1>1, <1>3, <2>2, FS_CardinalityType DEF Bounded
    <3>2. ~(Cardinality(G!Recorded(fails)) >= TableMax)
      BY <2>2, GuardSets DEF G!Full
    <3> QED  BY <1>1, <3>1, <3>2 DEF GuardTypes, Bounded
  <2> QED  BY <2>1, <2>2
<1>5. PICK new \in Record :
        /\ fails' = [f EXCEPT ![c] = new]
        /\ new.count > 0 /\ new.start \in 0 .. MaxTicks /\ new.locked <= now + Lockout
  <2> DEFINE rec == IF f[c] = G!NoRecord \/ now - f[c].start > Window
                    THEN [count |-> 1, start |-> now, locked |-> f[c].locked]
                    ELSE [f[c] EXCEPT !.count = @ + 1]
  <2>1. /\ f[c] \in Record /\ f[c].locked <= now + Lockout
        /\ f[c] # G!NoRecord => f[c].count > 0 /\ f[c].start \in 0 .. MaxTicks
    BY <1>1, <1>4 DEF GuardTypes, LockoutsEnd, G!NoRecord, Record
  <2>2. /\ rec \in Record /\ rec.count > 0 /\ rec.start \in 0 .. MaxTicks
        /\ rec.locked <= now + Lockout
    BY <1>1, <2>1 DEF GuardTypes, Record
  <2> HIDE DEF rec
  <2>3. [rec EXCEPT !.locked = now + Lockout] \in Record
    BY <1>1, <2>2 DEF GuardTypes, Record
  <2>4. fails' = [f EXCEPT ![c] = IF rec.count >= FailMax
                                  THEN [rec EXCEPT !.locked = now + Lockout] ELSE rec]
    BY <1>3 DEF rec
  <2>5. CASE rec.count >= FailMax
    <3> DEFINE new == [rec EXCEPT !.locked = now + Lockout]
    <3>1. /\ new \in Record /\ new.count = rec.count /\ new.start = rec.start
          /\ new.locked = now + Lockout
      BY <1>1, <2>2, <2>3 DEF Record, GuardTypes
    <3>2. new.locked <= now + Lockout
      BY <1>1, <3>1 DEF GuardTypes
    <3>3. fails' = [f EXCEPT ![c] = new]
      BY <2>4, <2>5
    <3> HIDE DEF new
    <3> QED  BY <2>2, <3>1, <3>2, <3>3
  <2>6. CASE ~(rec.count >= FailMax)
    BY <2>2, <2>4, <2>6
  <2> QED  BY <2>5, <2>6
<1>6. GuardTypes'
  BY <1>1, <1>2, <1>4, <1>5 DEF GuardTypes
<1>7. LockoutsEnd'
  BY <1>1, <1>2, <1>4, <1>5 DEF LockoutsEnd, GuardTypes
<1>8. Bounded(fails, TableMax)'
  <2>1. G!Recorded(fails') \subseteq G!Recorded(f) \cup {c}
    BY <1>4, <1>5 DEF G!Recorded
  <2>2. /\ IsFiniteSet(G!Recorded(fails')) /\ Cardinality(G!Recorded(f)) \in Nat
        /\ Cardinality(G!Recorded(fails')) <= Cardinality(G!Recorded(f)) + 1
    BY <1>4, <2>1, OneMore DEF Bounded
  <2>3. Cardinality(G!Recorded(f)) <= TableMax - 1 /\ Cardinality(G!Recorded(fails')) \in Nat
    BY <1>4, <2>2, FS_CardinalityType DEF Bounded
  <2> QED  BY <2>2, <2>3 DEF Bounded
<1> QED  BY <1>6, <1>7, <1>8 DEF GuardInv

LEMMA GuardInitEstablishes == G!Init => GuardInv
<1> SUFFICES ASSUME G!Init PROVE GuardInv
  OBVIOUS
<1>1. GuardTypes /\ LockoutsEnd
  <2>1. /\ now = 0 /\ evicting = FALSE /\ warned = 0
        /\ fails = [c \in Client |-> G!NoRecord] /\ compared = [c \in Client |-> -1]
    BY DEF G!Init, G!Never
  <2>2. G!NoRecord \in Record
    BY DEF G!NoRecord, Record
  <2>3. GuardTypes
    <3>1. now \in 0 .. MaxTicks /\ warned \in Nat
      BY <2>1, GuardAssumption
    <3>4. evicting \in BOOLEAN
      BY <2>1, Zenon
    <3>2. fails \in [Client -> Record] /\ \A c \in Client : fails[c] = G!NoRecord
      BY <2>1, <2>2
    <3>3. compared \in [Client -> Int] /\ \A c \in Client : compared[c] <= now
      BY <2>1
    <3> QED  BY <3>1, <3>2, <3>3, <3>4 DEF GuardTypes
  <2>4. LockoutsEnd
    BY <2>1 DEF LockoutsEnd
  <2> QED  BY <2>3, <2>4
<1>2. G!Recorded(fails) = {}
  BY DEF G!Init, G!Recorded
<1>3. Bounded(fails, TableMax)
  BY <1>2, GuardAssumption, FS_EmptySet DEF Bounded
<1> QED  BY <1>1, <1>3 DEF GuardInv

LEMMA GuardStepKeeps == GuardInv /\ [G!Next]_(G!vars) => GuardInv'
<1> SUFFICES ASSUME GuardInv, [G!Next]_(G!vars) PROVE GuardInv'
  OBVIOUS
<1> USE GuardAssumption
<1>1. GuardTypes /\ LockoutsEnd /\ Bounded(fails, TableMax)
  BY DEF GuardInv
<1>2. CASE G!Tick
  <2>1. GuardTypes' /\ LockoutsEnd'
    BY <1>1, <1>2 DEF G!Tick, GuardTypes, LockoutsEnd
  <2>2. Bounded(fails, TableMax)'
    BY <1>1, <1>2 DEF G!Tick, Bounded
  <2> QED  BY <2>1, <2>2 DEF GuardInv
<1>3. ASSUME NEW c \in Client, G!WrongToken(c) PROVE GuardInv'
  BY <1>3, FailureKeeps
<1>4. ASSUME NEW c \in Client, G!RightToken(c) PROVE GuardInv'
  <2>1. /\ fails' = [fails EXCEPT ![c] = G!NoRecord]
        /\ UNCHANGED <<now, evicting, warned, compared>>
    BY <1>4 DEF G!RightToken
  <2>2. GuardTypes' /\ LockoutsEnd'
    BY <1>1, <2>1 DEF GuardTypes, LockoutsEnd, Record, G!NoRecord
  <2>3. G!Recorded(fails') \subseteq G!Recorded(fails)
    BY <1>1, <2>1 DEF G!Recorded, GuardTypes
  <2>4. Bounded(fails, TableMax)'
    BY <1>1, <2>3, FS_Subset, FS_CardinalityType DEF Bounded
  <2> QED  BY <2>2, <2>4 DEF GuardInv
<1>5. CASE UNCHANGED G!vars
  BY <1>1, <1>5 DEF G!vars, GuardInv, GuardTypes, LockoutsEnd, Bounded
<1> QED  BY <1>2, <1>3, <1>4, <1>5 DEF G!Next

(* TokenGuard promises what its run checks of it. *)
LEMMA GuardPromises == GuardInv => G!TypeOK /\ G!TableIsBounded /\ G!LockoutEndsInTime
<1> SUFFICES ASSUME GuardInv PROVE G!TypeOK /\ G!TableIsBounded /\ G!LockoutEndsInTime
  OBVIOUS
<1>1. G!TypeOK
  BY DEF GuardInv, GuardTypes, Record, G!TypeOK
<1>2. G!TableIsBounded
  BY GuardSets DEF GuardInv, Bounded, G!TableIsBounded
<1>3. G!LockoutEndsInTime
  BY DEF GuardInv, LockoutsEnd, G!LockoutEndsInTime
<1> QED  BY <1>1, <1>2, <1>3

-------------------------------------------------------------------------------
(* ConfigStore. *)

Saves == [pc : {"idle", "lock", "read", "write", "fill", "replace", "saved"},
          section : C!Sections, val : Value \cup {"cut"}, omits : BOOLEAN, checks : BOOLEAN,
          rev : C!File \cup {C!Torn}, base : C!File \cup {C!Torn}]

Holding == {"read", "write", "fill", "replace", "saved"}
Writing == {"write", "fill", "replace"}

ConfigTypes ==
  /\ file \in C!File /\ tmp \in [Writer -> C!File \cup {C!Torn}]
  /\ up \in [Writer -> BOOLEAN] /\ running \in [Writer -> Value] /\ mine \in [Writer -> BOOLEAN]
  /\ DOMAIN writeLock = Writer /\ job \in [Job -> Saves]
  /\ \A d \in Writer : writeLock[d] = "" \/ <<d, writeLock[d]>> \in Job

(* A save is in flight in a daemon that is up, and from its read to its      *)
(* reply it has the daemon's lock.                                           *)
InFlight ==
  \A j \in Job : /\ job[j].pc # "idle" => up[j[1]] /\ job[j].val \in Value
                 /\ job[j].pc \in Holding => writeLock[j[1]] = j[2]

(* What a save has read is a whole file, the one on disk as long as nobody   *)
(* else has replaced it; what it is about to move there is that with its     *)
(* change.                                                                   *)
DraftOf(j) == /\ job[j].pc \in Writing => job[j].base \in C!File
              /\ job[j].pc \in Writing /\ mine[j[1]] => job[j].base = file
              /\ job[j].pc = "replace" => tmp[j[1]] = C!Edited(j)

Drafted == \A j \in Job : DraftOf(j)

(* What a save whose reply is due has changed is what is in the file.        *)
IsThere(j) ==
  job[j].pc = "saved" /\ mine[j[1]] =>
    IF job[j].section = "storage" THEN file.storage = job[j].val
    ELSE running[j[1]] = file.storage

SavedIsThere == \A j \in Job : IsThere(j)

ConfigInv == ConfigTypes /\ InFlight /\ Drafted /\ SavedIsThere /\ C!RunningIsSaved

(* One save of a daemon at a time has its lock. *)
LEMMA OneHolds ==
  ASSUME ConfigInv, NEW i \in Job, NEW j \in Job, i[1] = j[1],
         job[i].pc \in Holding, job[j].pc \in Holding
  PROVE  i = j
<1>1. i[2] = j[2]
  BY DEF ConfigInv, InFlight
<1> QED  BY <1>1, ConfigAssumption

LEMMA EditedIsWhole ==
  ASSUME NEW j \in Job, job[j] \in Saves, job[j].val \in Value, job[j].base \in C!File
  PROVE  /\ C!Edited(j) \in C!File
         /\ C!Edited(j).storage = IF job[j].section = "storage" THEN job[j].val
                                  ELSE job[j].base.storage
BY DEF C!Edited, C!File, Saves, C!Sections

(* A step that leaves a save, its file and the one on disk alone, or takes    *)
(* the one on disk from its daemon, leaves its draft as good as it was.      *)
LEMMA DraftKept ==
  ASSUME NEW i \in Job, DraftOf(i), job'[i] = job[i], mine'[i[1]] => mine[i[1]] /\ file' = file,
         job[i].pc = "replace" => tmp'[i[1]] = tmp[i[1]]
  PROVE  DraftOf(i)'
<1>1. C!Edited(i)' = C!Edited(i)
  BY DEF C!Edited
<1> QED  BY <1>1 DEF DraftOf, Writing

(* So does one that ends it, or has not begun it.                            *)
LEMMA NoDraft ==
  ASSUME NEW i \in Job, job'[i].pc \notin Writing
  PROVE  DraftOf(i)'
BY DEF DraftOf, Writing

(* The same of what a save whose reply is due has changed.                   *)
LEMMA StillThere ==
  ASSUME NEW i \in Job, IsThere(i), job'[i] = job[i],
         job[i].pc = "saved" /\ mine'[i[1]]
           => mine[i[1]] /\ file' = file /\ running'[i[1]] = running[i[1]]
  PROVE  IsThere(i)'
BY DEF IsThere

LEMMA NoneDue ==
  ASSUME NEW i \in Job, job'[i].pc # "saved"
  PROVE  IsThere(i)'
BY DEF IsThere

LEMMA ConfigInitEstablishes == C!Init => ConfigInv
<1> SUFFICES ASSUME C!Init PROVE ConfigInv
  OBVIOUS
<1>1. file \in C!File /\ file.storage \in Value
  BY DEF C!Init, C!File
<1>2. C!Idle \in Saves /\ C!Idle.pc = "idle"
  BY DEF C!Idle, Saves, C!Sections
<1>3. \A j \in Job : job[j] = C!Idle
  BY DEF C!Init
<1>4. tmp = [t \in Writer |-> C!Torn] /\ writeLock = [d \in Writer |-> ""]
      /\ job = [j \in Job |-> C!Idle] /\ running = [d \in Writer |-> file.storage]
  BY DEF C!Init
<1>5. up \in [Writer -> BOOLEAN] /\ mine \in [Writer -> BOOLEAN]
  BY Zenon DEF C!Init
<1>6. ConfigTypes
  BY <1>1, <1>2, <1>4, <1>5 DEF ConfigTypes
<1>7. InFlight /\ Drafted /\ SavedIsThere
  BY <1>2, <1>3 DEF InFlight, Drafted, DraftOf, SavedIsThere, IsThere, Holding, Writing
<1>8. C!RunningIsSaved
  BY <1>4 DEF C!RunningIsSaved
<1> QED  BY <1>6, <1>7, <1>8 DEF ConfigInv

LEMMA AskKeeps == ASSUME ConfigInv, NEW j \in Job, C!Ask(j) PROVE ConfigInv'
<1>1. PICK s \in C!Sections, v \in Value, checks, omits \in BOOLEAN :
        /\ omits => s = "ports" /\ v = file.eol
        /\ job' = [job EXCEPT ![j] = [C!Idle EXCEPT !.pc = "lock", !.section = s, !.val = v,
                     !.omits = omits, !.checks = checks, !.rev = IF checks THEN file ELSE C!Torn]]
  BY DEF C!Ask
<1>2. /\ UNCHANGED <<file, tmp, up, running, writeLock, mine>>
      /\ up[j[1]] /\ job[j].pc = "idle"
  BY DEF C!Ask, C!Is
<1>3. ConfigTypes /\ InFlight /\ Drafted /\ SavedIsThere /\ C!RunningIsSaved
  BY DEF ConfigInv
<1>4. [C!Idle EXCEPT !.pc = "lock", !.section = s, !.val = v, !.omits = omits,
         !.checks = checks, !.rev = IF checks THEN file ELSE C!Torn] \in Saves
  BY <1>3 DEF C!Idle, Saves, ConfigTypes, C!Torn
<1>5. /\ job' \in [Job -> Saves] /\ job'[j].pc = "lock" /\ job'[j].val \in Value
      /\ \A i \in Job : i # j => job'[i] = job[i]
  BY <1>1, <1>3, <1>4 DEF ConfigTypes, C!Idle
<1>6. Drafted'
  BY <1>2, <1>3, <1>5, DraftKept, NoDraft DEF Drafted, Writing
<1>7. ConfigTypes' /\ InFlight'
  BY <1>2, <1>3, <1>5 DEF ConfigTypes, InFlight, Holding
<1>8. SavedIsThere'
  BY <1>2, <1>3, <1>5, StillThere, NoneDue DEF SavedIsThere
<1>9. C!RunningIsSaved'
  BY <1>2, <1>3, <1>5 DEF C!RunningIsSaved
<1> QED  BY <1>6, <1>7, <1>8, <1>9 DEF ConfigInv

(* What a step that only moves save j changes of it. *)
LEMMA To ==
  ASSUME ConfigTypes, NEW j \in Job,
         NEW to \in {"idle", "lock", "read", "write", "fill", "replace", "saved"}, C!To(j, to)
  PROVE  /\ job' \in [Job -> Saves] /\ job'[j].pc = to
         /\ job'[j].val = job[j].val /\ job'[j].base = job[j].base
         /\ job'[j].section = job[j].section
         /\ \A i \in Job : i # j => job'[i] = job[i]
<1>1. job \in [Job -> Saves] /\ job' = [job EXCEPT ![j].pc = to]
  BY DEF ConfigTypes, C!To
<1> QED  BY <1>1 DEF Saves

LEMMA LockKeeps == ASSUME ConfigInv, NEW j \in Job, C!Lock(j) PROVE ConfigInv'
<1>1. ConfigTypes /\ InFlight /\ Drafted /\ SavedIsThere /\ C!RunningIsSaved
  BY DEF ConfigInv
<1>2. /\ UNCHANGED <<file, tmp, up, running, mine>>
      /\ up[j[1]] /\ job[j].pc = "lock" /\ writeLock[j[1]] = "" /\ C!To(j, "read")
      /\ writeLock' = [writeLock EXCEPT ![j[1]] = j[2]]
  BY DEF C!Lock, C!Is, C!pastVars
<1>3. /\ job' \in [Job -> Saves] /\ job'[j].pc = "read"
      /\ job'[j].val = job[j].val
      /\ \A i \in Job : i # j => job'[i] = job[i]
  BY <1>1, <1>2, To
<1>4. ConfigTypes'
  <2>1. /\ DOMAIN writeLock' = Writer
        /\ \A d \in Writer : writeLock'[d] \in {"", writeLock[d]}
                              \/ <<d, writeLock'[d]>> = j
    BY <1>1, <1>2, ConfigAssumption DEF ConfigTypes
  <2>2. \A d \in Writer : writeLock'[d] = "" \/ <<d, writeLock'[d]>> \in Job
    BY <1>1, <2>1 DEF ConfigTypes
  <2> QED  BY <1>1, <1>2, <1>3, <2>1, <2>2 DEF ConfigTypes
<1>5. \A i \in Job : job[i].pc \in Holding => i[1] # j[1]
  BY <1>1, <1>2, ConfigAssumption DEF InFlight
<1>6. InFlight'
  <2>1. writeLock'[j[1]] = j[2]
    BY <1>1, <1>2, ConfigAssumption DEF ConfigTypes
  <2>2. \A i \in Job : i[1] # j[1] => writeLock'[i[1]] = writeLock[i[1]]
    BY <1>1, <1>2, ConfigAssumption DEF ConfigTypes
  <2> QED  BY <1>1, <1>2, <1>3, <1>5, <2>1, <2>2 DEF InFlight
<1>7. Drafted'
  BY <1>1, <1>2, <1>3, DraftKept, NoDraft DEF Drafted, Writing
<1>8. SavedIsThere'
  BY <1>1, <1>2, <1>3, StillThere, NoneDue DEF SavedIsThere
<1>9. C!RunningIsSaved'
  BY <1>1, <1>2, <1>3 DEF C!RunningIsSaved
<1> QED  BY <1>4, <1>6, <1>7, <1>8, <1>9 DEF ConfigInv

(* A save that ends, without its file or with it, gives its lock back.       *)
LEMMA Ended ==
  ASSUME ConfigInv, NEW j \in Job, job[j].pc \in Holding, C!To(j, "idle"), C!Unlocked(j[1]),
         UNCHANGED <<file, tmp, up, mine>>,
         \/ UNCHANGED running /\ job[j].pc # "saved"
         \/ running' = C!Applies(j) /\ job[j].pc = "saved"
  PROVE  ConfigInv'
<1>1. ConfigTypes /\ InFlight /\ Drafted /\ SavedIsThere /\ C!RunningIsSaved
  BY DEF ConfigInv
<1>2. /\ job' \in [Job -> Saves] /\ job'[j].pc = "idle"
      /\ \A i \in Job : i # j => job'[i] = job[i]
  BY <1>1, To
<1>3. /\ writeLock' = [writeLock EXCEPT ![j[1]] = ""] /\ j[1] \in Writer
      /\ \A i \in Job : i[1] \in Writer
  BY ConfigAssumption DEF C!Unlocked
<1>4. \A i \in Job : i # j /\ i[1] = j[1] => job[i].pc \notin Holding
  BY OneHolds
<1>5. /\ running' \in [Writer -> Value]
      /\ \A d \in Writer : d # j[1] => running'[d] = running[d]
  BY <1>1, <1>3 DEF C!Applies, ConfigTypes, InFlight, Holding
<1>6. ConfigTypes'
  BY <1>1, <1>2, <1>3, <1>5 DEF ConfigTypes
<1>a. Drafted'
  BY <1>1, <1>2, DraftKept, NoDraft DEF Drafted, Writing
<1>7. InFlight'
  <2>1. \A i \in Job : i[1] # j[1] => writeLock'[i[1]] = writeLock[i[1]]
    BY <1>1, <1>3 DEF ConfigTypes
  <2> QED  BY <1>1, <1>2, <1>4, <2>1 DEF InFlight, Holding
<1>8. SavedIsThere'
  <2>1. \A i \in Job : i # j /\ job[i].pc = "saved" => running'[i[1]] = running[i[1]]
    BY <1>3, <1>4, <1>5 DEF Holding
  <2> QED  BY <1>1, <1>2, <2>1, StillThere, NoneDue DEF SavedIsThere
<1>9. C!RunningIsSaved'
  <2> SUFFICES ASSUME NEW d \in Writer, mine[d], up[d],
                      \A i \in Job : i[1] = d => job'[i].pc # "saved"
               PROVE  running'[d] = file.storage
    BY DEF C!RunningIsSaved
  <2>1. CASE d # j[1]
    BY <1>1, <1>2, <1>5, <2>1 DEF C!RunningIsSaved
  <2>2. CASE d = j[1] /\ job[j].pc # "saved" /\ UNCHANGED running
    BY <1>1, <1>2, <2>2 DEF C!RunningIsSaved
  <2>3. CASE d = j[1] /\ job[j].pc = "saved" /\ running' = C!Applies(j)
    BY <1>1, <1>3, <2>3 DEF SavedIsThere, IsThere, C!Applies, ConfigTypes
  <2> QED  BY <2>1, <2>2, <2>3
<1> QED  BY <1>6, <1>a, <1>7, <1>8, <1>9 DEF ConfigInv

LEMMA ReadKeeps == ASSUME ConfigInv, NEW j \in Job, C!Read(j) PROVE ConfigInv'
<1>1. /\ UNCHANGED <<file, tmp, up, running, mine>> /\ job[j].pc = "read"
  BY DEF C!Read, C!Is, C!pastVars
<1>2. CASE C!To(j, "idle") /\ C!Unlocked(j[1])
  BY <1>1, <1>2, Ended DEF Holding
<1>3. CASE job' = [job EXCEPT ![j].pc = "write", ![j].base = file] /\ UNCHANGED writeLock
  <2>1. ConfigTypes /\ InFlight /\ Drafted /\ SavedIsThere /\ C!RunningIsSaved
    BY DEF ConfigInv
  <2>2. /\ job' \in [Job -> Saves] /\ job'[j].pc = "write" /\ job'[j].base = file
        /\ job'[j].val = job[j].val /\ \A i \in Job : i # j => job'[i] = job[i]
    <3>1. job'[j] = [job[j] EXCEPT !.pc = "write", !.base = file]
      BY <1>3, <2>1 DEF ConfigTypes
    <3>2. job[j] \in Saves /\ file \in C!File
      BY <2>1 DEF ConfigTypes
    <3>3. /\ job'[j] \in Saves /\ job'[j].pc = "write" /\ job'[j].base = file
          /\ job'[j].val = job[j].val
      BY <3>1, <3>2 DEF Saves
    <3> QED  BY <1>3, <2>1, <3>3 DEF ConfigTypes
  <2>3. ConfigTypes'
    BY <1>1, <1>3, <2>1, <2>2 DEF ConfigTypes
  <2>7. InFlight'
    BY <1>1, <1>3, <2>1, <2>2 DEF InFlight, Holding
  <2>4. DraftOf(j)'
    BY <1>1, <2>1, <2>2 DEF ConfigTypes, DraftOf
  <2>5. Drafted'
    BY <1>1, <2>1, <2>2, <2>4, DraftKept DEF Drafted
  <2>6. SavedIsThere'
    BY <1>1, <2>1, <2>2, StillThere, NoneDue DEF SavedIsThere
  <2>8. C!RunningIsSaved'
    BY <1>1, <2>1, <2>2 DEF C!RunningIsSaved
  <2> QED  BY <2>3, <2>5, <2>6, <2>7, <2>8 DEF ConfigInv
<1> QED  BY <1>2, <1>3 DEF C!Read

LEMMA TruncateKeeps == ASSUME ConfigInv, NEW j \in Job, C!Truncate(j) PROVE ConfigInv'
<1>1. ConfigTypes /\ InFlight /\ Drafted /\ SavedIsThere /\ C!RunningIsSaved
  BY DEF ConfigInv
<1>2. /\ UNCHANGED <<file, up, running, mine, writeLock>> /\ job[j].pc = "write"
      /\ tmp' = [tmp EXCEPT ![j[1]] = C!Torn] /\ C!To(j, "fill")
  BY DEF C!Truncate, C!Is, C!Tmp, C!pastVars
<1>3. /\ job' \in [Job -> Saves] /\ job'[j].pc = "fill" /\ job'[j].base = job[j].base
      /\ job'[j].val = job[j].val /\ \A i \in Job : i # j => job'[i] = job[i]
  BY <1>1, <1>2, To
<1>4. \A i \in Job : i # j /\ job[i].pc = "replace" => i[1] # j[1]
  BY <1>2, OneHolds DEF Holding
<1>5. ConfigTypes' /\ InFlight'
  BY <1>1, <1>2, <1>3 DEF ConfigTypes, InFlight, Holding
<1>6. Drafted'
  <2>1. DraftOf(j)'
    BY <1>1, <1>2, <1>3 DEF Drafted, DraftOf, Writing
  <2>2. \A i \in Job : i # j /\ job[i].pc = "replace" => tmp'[i[1]] = tmp[i[1]]
    BY <1>1, <1>2, <1>4, ConfigAssumption DEF ConfigTypes
  <2> QED  BY <1>1, <1>2, <1>3, <2>1, <2>2, DraftKept DEF Drafted
<1>7. SavedIsThere'
  BY <1>1, <1>2, <1>3, StillThere, NoneDue DEF SavedIsThere
<1>8. C!RunningIsSaved'
  BY <1>1, <1>2, <1>3 DEF C!RunningIsSaved
<1> QED  BY <1>5, <1>6, <1>7, <1>8 DEF ConfigInv

LEMMA FillKeeps == ASSUME ConfigInv, NEW j \in Job, C!Fill(j) PROVE ConfigInv'
<1>1. ConfigTypes /\ InFlight /\ Drafted /\ SavedIsThere /\ C!RunningIsSaved
  BY DEF ConfigInv
<1>2. /\ UNCHANGED <<file, up, running, mine>> /\ job[j].pc = "fill"
  BY DEF C!Fill, C!Is, C!pastVars
<1>3. CASE C!To(j, "idle") /\ C!Unlocked(j[1]) /\ UNCHANGED tmp
  BY <1>2, <1>3, Ended DEF Holding
<1>4. CASE C!To(j, "replace") /\ UNCHANGED writeLock
           /\ tmp' = [tmp EXCEPT ![j[1]] = C!Edited(j)]
  <2>1. /\ job' \in [Job -> Saves] /\ job'[j].pc = "replace" /\ job'[j].base = job[j].base
        /\ job'[j].val = job[j].val /\ job'[j].section = job[j].section
        /\ \A i \in Job : i # j => job'[i] = job[i]
    BY <1>1, <1>4, To
  <2>2. C!Edited(j) \in C!File
    BY <1>1, <1>2, EditedIsWhole DEF ConfigTypes, InFlight, Drafted, DraftOf, Writing
  <2>3. \A i \in Job : i # j /\ job[i].pc = "replace" => i[1] # j[1]
    BY <1>2, OneHolds DEF Holding
  <2>4. ConfigTypes' /\ InFlight'
    BY <1>1, <1>2, <1>4, <2>1, <2>2 DEF ConfigTypes, InFlight, Holding
  <2>5. Drafted'
    <3>1. DraftOf(j)'
      <4>1. C!Edited(j)' = C!Edited(j)
        BY <2>1 DEF C!Edited
      <4>2. tmp'[j[1]] = C!Edited(j)
        BY <1>1, <1>4, ConfigAssumption DEF ConfigTypes
      <4> QED  BY <1>1, <1>2, <2>1, <4>1, <4>2 DEF Drafted, DraftOf, Writing
    <3>2. \A i \in Job : i # j /\ job[i].pc = "replace" => tmp'[i[1]] = tmp[i[1]]
      BY <1>1, <1>4, <2>3, ConfigAssumption DEF ConfigTypes
    <3> QED  BY <1>1, <1>2, <2>1, <3>1, <3>2, DraftKept DEF Drafted
  <2>6. SavedIsThere'
    BY <1>1, <1>2, <2>1, StillThere, NoneDue DEF SavedIsThere
  <2>7. C!RunningIsSaved'
    BY <1>1, <1>2, <2>1 DEF C!RunningIsSaved
  <2> QED  BY <2>4, <2>5, <2>6, <2>7 DEF ConfigInv
<1> QED  BY <1>3, <1>4 DEF C!Fill, C!Tmp

LEMMA ReplaceKeeps == ASSUME ConfigInv, NEW j \in Job, C!Replace(j) PROVE ConfigInv'
<1>1. ConfigTypes /\ InFlight /\ Drafted /\ SavedIsThere /\ C!RunningIsSaved
  BY DEF ConfigInv
<1>2. /\ UNCHANGED <<tmp, up, running>> /\ job[j].pc = "replace" /\ up[j[1]]
  BY DEF C!Replace, C!Is
<1>3. CASE C!To(j, "idle") /\ C!Unlocked(j[1]) /\ UNCHANGED <<file, mine>>
  BY <1>2, <1>3, Ended DEF Holding
<1>4. CASE /\ file' = tmp[j[1]] /\ C!To(j, "saved") /\ UNCHANGED writeLock
           /\ mine' = [d \in Writer |-> mine[d] /\ d = j[1]]
  <2>1. /\ job' \in [Job -> Saves] /\ job'[j].pc = "saved"
        /\ job'[j].val = job[j].val /\ job'[j].section = job[j].section
        /\ \A i \in Job : i # j => job'[i] = job[i]
    BY <1>1, <1>4, To
  <2>2. /\ file' = C!Edited(j) /\ file' \in C!File
        /\ file'.storage = IF job[j].section = "storage" THEN job[j].val
                           ELSE job[j].base.storage
    BY <1>1, <1>2, <1>4, EditedIsWhole DEF ConfigTypes, InFlight, Drafted, DraftOf, Writing
  <2>3. \A i \in Job : i # j /\ job[i].pc \in Holding => i[1] # j[1]
    BY <1>2, OneHolds DEF Holding
  <2>4. /\ mine' \in [Writer -> BOOLEAN]
        /\ \A d \in Writer : mine'[d] => mine[d] /\ d = j[1]
    BY <1>4
  <2>5. ConfigTypes' /\ InFlight'
    <3>1. InFlight'
      BY <1>1, <1>2, <1>4, <2>1 DEF InFlight, Holding
    <3> QED  BY <1>1, <1>2, <1>4, <2>1, <2>2, <2>4, <3>1 DEF ConfigTypes
  <2>6. Drafted'
    <3>1. \A i \in Job : i # j /\ job[i].pc \in Writing => ~mine'[i[1]]
      BY <2>3, <2>4, ConfigAssumption DEF Writing, Holding
    <3>2. ASSUME NEW i \in Job, i # j, job[i].pc \in Writing PROVE DraftOf(i)'
      BY <1>1, <1>2, <2>1, <3>1, <3>2, DraftKept DEF Drafted
    <3>3. ASSUME NEW i \in Job, i = j \/ job[i].pc \notin Writing PROVE DraftOf(i)'
      BY <2>1, <3>3, NoDraft DEF Writing
    <3> QED  BY <3>2, <3>3 DEF Drafted
  <2>7. mine[j[1]] /\ job[j].section # "storage" => running[j[1]] = file'.storage
    <3>1. ASSUME NEW i \in Job, i[1] = j[1] PROVE job[i].pc # "saved"
      BY <1>2, <2>3, <3>1 DEF Holding
    <3>2. mine[j[1]] => job[j].base = file /\ running[j[1]] = file.storage
      BY <1>1, <1>2, <3>1, ConfigAssumption DEF Drafted, DraftOf, C!RunningIsSaved, Writing
    <3> QED  BY <2>2, <3>2
  <2>8. SavedIsThere'
    <3>1. IsThere(j)'
      BY <1>2, <2>1, <2>2, <2>4, <2>7, ConfigAssumption DEF IsThere
    <3>2. \A i \in Job : i # j /\ job[i].pc = "saved" => ~mine'[i[1]]
      BY <2>3, <2>4, ConfigAssumption DEF Holding
    <3> QED  BY <1>1, <2>1, <3>1, <3>2, StillThere DEF SavedIsThere
  <2>9. C!RunningIsSaved'
    BY <2>1, <2>4, ConfigAssumption DEF C!RunningIsSaved
  <2> QED  BY <2>5, <2>6, <2>8, <2>9 DEF ConfigInv
<1> QED  BY <1>3, <1>4 DEF C!Replace, C!Tmp

LEMMA EditKeeps == ASSUME ConfigInv, C!Edit PROVE ConfigInv'
<1>1. ConfigTypes /\ InFlight /\ Drafted
  BY DEF ConfigInv
<1>2. UNCHANGED <<tmp, up, running, writeLock, job>> /\ mine' = [d \in Writer |-> FALSE]
  BY DEF C!Edit
<1>3. file' \in C!File
  BY <1>1 DEF C!Edit, ConfigTypes, C!File
<1>4. mine' \in [Writer -> BOOLEAN] /\ \A d \in Writer : ~mine'[d]
  BY <1>2
<1>5. ConfigTypes' /\ InFlight'
  BY <1>1, <1>2, <1>3, <1>4 DEF ConfigTypes, InFlight
<1>6. Drafted' /\ SavedIsThere' /\ C!RunningIsSaved'
  BY <1>1, <1>2, <1>4, ConfigAssumption, DraftKept
     DEF Drafted, SavedIsThere, IsThere, C!RunningIsSaved
<1> QED  BY <1>5, <1>6 DEF ConfigInv

LEMMA KillKeeps == ASSUME ConfigInv, NEW d \in Writer, C!Kill(d) PROVE ConfigInv'
<1>1. ConfigTypes /\ InFlight /\ Drafted /\ SavedIsThere /\ C!RunningIsSaved
  BY DEF ConfigInv
<1>2. /\ UNCHANGED <<file, tmp, running, mine>>
      /\ up' = [up EXCEPT ![d] = FALSE] /\ writeLock' = [writeLock EXCEPT ![d] = ""]
      /\ job' = [j \in Job |-> IF j[1] = d THEN C!Idle ELSE job[j]]
  BY DEF C!Kill
<1>3. C!Idle \in Saves /\ C!Idle.pc = "idle"
  BY DEF C!Idle, Saves, C!Sections
<1>4. \A j \in Job : \/ j[1] # d /\ job'[j] = job[j]
                     \/ j[1] = d /\ job'[j].pc = "idle"
  BY <1>2, <1>3
<1>5. ConfigTypes'
  BY <1>1, <1>2, <1>3 DEF ConfigTypes
<1>6. InFlight'
  BY <1>1, <1>2, <1>4, ConfigAssumption DEF ConfigTypes, InFlight, Holding
<1>7. Drafted' /\ SavedIsThere'
  BY <1>1, <1>2, <1>4, DraftKept, NoDraft, StillThere, NoneDue
     DEF Drafted, SavedIsThere, Writing
<1>8. C!RunningIsSaved'
  <2> SUFFICES ASSUME NEW e \in Writer, mine[e], up'[e],
                      \A j \in Job : j[1] = e => job'[j].pc # "saved"
               PROVE  running[e] = file.storage
    BY <1>2 DEF C!RunningIsSaved
  <2>1. e # d /\ up[e]
    BY <1>1, <1>2 DEF ConfigTypes
  <2>2. \A j \in Job : j[1] = e => job[j].pc # "saved"
    BY <1>4, <2>1
  <2> QED  BY <1>1, <2>1, <2>2 DEF C!RunningIsSaved
<1> QED  BY <1>5, <1>6, <1>7, <1>8 DEF ConfigInv

LEMMA StartKeeps == ASSUME ConfigInv, NEW d \in Writer, C!Start(d) PROVE ConfigInv'
<1>1. ConfigTypes /\ InFlight /\ Drafted /\ SavedIsThere /\ C!RunningIsSaved
  BY DEF ConfigInv
<1>2. /\ UNCHANGED <<file, tmp, writeLock, job>> /\ ~up[d] /\ up' = [up EXCEPT ![d] = TRUE]
      /\ running' = [running EXCEPT ![d] = file.storage] /\ mine' = [mine EXCEPT ![d] = TRUE]
  BY DEF C!Start
<1>3. \A j \in Job : job[j].pc # "idle" => j[1] # d
  BY <1>1, <1>2 DEF InFlight
<1>4. ConfigTypes'
  BY <1>1, <1>2 DEF ConfigTypes, C!File
<1>5. InFlight'
  BY <1>1, <1>2, ConfigAssumption DEF ConfigTypes, InFlight
<1>6. Drafted'
  <2>1. ASSUME NEW j \in Job, j[1] # d PROVE mine'[j[1]] = mine[j[1]]
    BY <1>1, <1>2, <2>1, ConfigAssumption DEF ConfigTypes
  <2>2. ASSUME NEW j \in Job, job[j].pc = "idle" PROVE DraftOf(j)'
    BY <1>2, <2>2, NoDraft DEF Writing
  <2> QED  BY <1>1, <1>2, <1>3, <2>1, <2>2, DraftKept DEF Drafted
<1>8. SavedIsThere'
  BY <1>1, <1>2, <1>3, ConfigAssumption, StillThere, NoneDue
     DEF ConfigTypes, SavedIsThere
<1>7. C!RunningIsSaved'
  BY <1>1, <1>2 DEF ConfigTypes, C!RunningIsSaved
<1> QED  BY <1>4, <1>5, <1>6, <1>7, <1>8 DEF ConfigInv

LEMMA ConfigStepKeeps == ConfigInv /\ [C!Next]_(C!vars) => ConfigInv'
<1> SUFFICES ASSUME ConfigInv, [C!Next]_(C!vars) PROVE ConfigInv'
  OBVIOUS
<1>1. ASSUME NEW j \in Job, C!Reply(j) PROVE ConfigInv'
  BY <1>1, Ended DEF C!Reply, C!Is, C!pastVars, Holding
<1>2. CASE UNCHANGED C!vars
  BY <1>2 DEF C!vars, C!pastVars, ConfigInv, ConfigTypes, InFlight, Drafted, DraftOf,
       SavedIsThere, IsThere, C!RunningIsSaved, C!Edited
<1> QED  BY <1>1, <1>2, AskKeeps, LockKeeps, ReadKeeps, TruncateKeeps, FillKeeps, ReplaceKeeps,
           EditKeeps, KillKeeps, StartKeeps DEF C!Next

(* ConfigStore promises what its run checks of it. *)
LEMMA ConfigPromises == ConfigInv => C!TypeOK /\ C!FileIsWhole /\ C!RunningIsSaved
BY DEF ConfigInv, ConfigTypes, C!TypeOK, C!FileIsWhole

-------------------------------------------------------------------------------
(* UpdateCheck. *)

(* Times are times, or none. *)
Times ==
  /\ today \in Nat /\ retryAfter \in Int
  /\ cache \in Int /\ checkedAt \in Int /\ asked \in Int /\ failed \in Int
  /\ asked <= today

(* A failure of this run holds the next request back. *)
Held == failed # U!None => retryAfter = failed + Retry

(* An answer that was saved is what the cache holds, and what the run that   *)
(* got it and every later one goes by; one being saved is what this run      *)
(* goes by.                                                                  *)
Remembered ==
  /\ asked # U!None /\ ~unsaved => cache = asked /\ (on => checkedAt = asked)
  /\ task = "saving" => checkedAt = asked

(* Nothing is asked by a daemon that is down. *)
AsksWhileUp == task # "idle" => on

CheckInv == Times /\ Held /\ Remembered /\ AsksWhileUp

LEMMA CheckInitEstablishes == U!Init => CheckInv
BY DEF U!Init, CheckInv, Times, Held, Remembered, AsksWhileUp, U!None

LEMMA CheckStepKeeps ==
  ASSUME Retry \in Int
  PROVE  CheckInv /\ [U!Next]_(U!vars) => CheckInv'
<1> SUFFICES ASSUME CheckInv, [U!Next]_(U!vars) PROVE CheckInv'
  OBVIOUS
<1> USE DEF CheckInv, Times, Held, Remembered, AsksWhileUp, U!None
<1>1. CASE U!Start
  BY <1>1 DEF U!Start, U!Loaded
<1>2. CASE U!MaybeCheck
  BY <1>2 DEF U!MaybeCheck, U!pastVars
<1>3. CASE U!Answered
  BY <1>3 DEF U!Answered
<1>4. CASE U!Saved
  BY <1>4 DEF U!Saved
<1>5. CASE U!Failed
  BY <1>5 DEF U!Failed
<1>6. CASE U!SetEnabled
  BY <1>6 DEF U!SetEnabled, U!pastVars
<1>7. CASE U!Ends
  BY <1>7 DEF U!Ends
<1>8. CASE U!Tick
  BY <1>8 DEF U!Tick, U!runVars, U!pastVars
<1>9. CASE UNCHANGED U!vars
  BY <1>9 DEF U!vars, U!runVars, U!pastVars
<1> QED  BY <1>1, <1>2, <1>3, <1>4, <1>5, <1>6, <1>7, <1>8, <1>9 DEF U!Next

(* Only maybe_check starts a request, and only one that is due.              *)
LEMMA RequestIsDue ==
  ASSUME [U!Next]_(U!vars), task # "asking", task' = "asking"
  PROVE  U!Due /\ on
BY DEF U!Next, U!vars, U!runVars, U!Start, U!MaybeCheck, U!Answered, U!Saved, U!Failed,
   U!SetEnabled, U!Ends, U!Tick

(* No request is made within a day of one whose answer was saved, over       *)
(* restarts and flips of the switch, nor within an hour of one that failed   *)
(* in the same run.                                                          *)
THEOREM RequestsAlwaysSpaced ==
  ASSUME Day \in Int, Retry \in Int
  PROVE  U!Spec => U!RequestsAreSpaced
<1>1. U!Init => CheckInv
  BY CheckInitEstablishes
<1>2. CheckInv /\ [U!Next]_(U!vars) => CheckInv'
  BY CheckStepKeeps
<1>3. CheckInv /\ [U!Next]_(U!vars) =>
        [task # "asking" /\ task' = "asking" =>
           /\ asked # U!None /\ (~unsaved \/ checkedAt = asked) => today >= asked + Day
           /\ failed # U!None => today >= failed + Retry]_(U!vars)
  <2> SUFFICES ASSUME CheckInv, [U!Next]_(U!vars), task # "asking", task' = "asking"
               PROVE  /\ asked # U!None /\ (~unsaved \/ checkedAt = asked) => today >= asked + Day
                      /\ failed # U!None => today >= failed + Retry
    OBVIOUS
  <2>1. U!Due /\ on
    BY RequestIsDue
  <2>2. ASSUME asked # U!None, ~unsaved \/ checkedAt = asked PROVE today >= asked + Day
    <3>1. checkedAt = asked
      BY <2>1, <2>2 DEF CheckInv, Remembered
    <3> QED  BY <2>1, <2>2, <3>1 DEF U!Due
  <2>3. ASSUME failed # U!None PROVE today >= failed + Retry
    BY <2>1, <2>3 DEF CheckInv, Held, U!Due
  <2> QED  BY <2>2, <2>3
<1> QED  BY <1>1, <1>2, <1>3, PTL DEF U!Spec, U!RequestsAreSpaced

-------------------------------------------------------------------------------
(* The parts together: whatever part is at work, the others stutter, so a    *)
(* behaviour of DaemonFiles is one of each part.                             *)
LEMMA PartsBehave ==
  Spec => L!Spec /\ C!Spec /\ G!Spec /\ U!Spec
<1>1. Init => L!Init /\ C!Init /\ G!Init /\ U!Init
  BY DEF Init
<1>2. [Next]_vars => [L!Next]_(L!vars)
  BY DEF Next, vars, lifeVars, L!vars
<1>3. [Next]_vars => [C!Next]_(C!vars)
  BY DEF Next, vars, configVars, C!vars, C!pastVars
<1>4. [Next]_vars => [G!Next]_(G!vars)
  BY DEF Next, vars, guardVars, G!vars
<1>5. [Next]_vars => [U!Next]_(U!vars)
  BY DEF Next, vars, updateVars, U!vars, U!runVars, U!pastVars
<1> QED  BY <1>1, <1>2, <1>3, <1>4, <1>5, PTL DEF Spec, L!Spec, C!Spec, G!Spec, U!Spec

(* However many daemons and commands of a host:port start, stop, crash and   *)
(* reuse each other's pids: a daemon that serves and was once recorded stays *)
(* so, a start that reported success left its daemon recorded, and one that  *)
(* failed left no process behind.                                            *)
THEOREM RecordsAlwaysSound == Spec => []RecordsSound
<1>1. ThereAre
  BY LifeAssumption DEF ThereAre
<1>2. L!TypeOK /\ L!ServingKeepsRecord /\ L!StartedIsRecorded /\ L!FailedStartLeavesNothing
        => RecordsSound
  BY DEF RecordsSound
<1>3. L!Spec => []L!TypeOK
  BY <1>1, DaemonTypes
<1>4. L!Spec => []L!ServingKeepsRecord
  BY <1>1, ServingDaemonsKeepRecord
<1>5. L!Spec => []L!StartedIsRecorded
  BY <1>1, StartedDaemonsRecorded
<1>6. L!Spec => []L!FailedStartLeavesNothing
  BY <1>1, FailedStartsLeaveNothing
<1> QED  BY <1>2, <1>3, <1>4, <1>5, <1>6, PartsBehave, PTL

(* No process is signalled but a daemon that answered with the recorded pid. *)
THEOREM StrangersNeverSignalled == Spec => []NoStrangerSignalled
<1>1. ThereAre
  BY LifeAssumption DEF ThereAre
<1>2. L!NoStrangerSignalled => NoStrangerSignalled
  BY DEF NoStrangerSignalled
<1>3. L!Spec => []L!NoStrangerSignalled
  BY <1>1, NoStrangerIsSignalled
<1> QED  BY <1>2, <1>3, PartsBehave, PTL

(* However many daemons share the configuration file with an editor, and     *)
(* wherever one of them is killed: the file is whole at every moment, and    *)
(* the settings a daemon runs with are those in it, unless somebody else has *)
(* replaced it.                                                              *)
THEOREM ConfigAlwaysSound == Spec => []ConfigSound
<1>1. ConfigInv => ConfigSound
  BY ConfigPromises DEF ConfigSound
<1> QED  BY <1>1, ConfigInitEstablishes, ConfigStepKeeps, PartsBehave, PTL DEF C!Spec

(* However many clients guess and at whatever times: the table of failures   *)
(* keeps to its bound, and no lockout outlasts its length from the last      *)
(* guess that was compared.                                                  *)
THEOREM GuardAlwaysSound == Spec => []GuardSound
<1>1. GuardInv => GuardSound
  BY GuardPromises DEF GuardSound
<1> QED  BY <1>1, GuardInitEstablishes, GuardStepKeeps, PartsBehave, PTL DEF G!Spec

(* Requests to the release server keep their distance, for any intervals.    *)
THEOREM RequestsKeepDistance == Spec => RequestsAreSpaced
<1>1. U!Spec => U!RequestsAreSpaced
  BY RequestsAlwaysSpaced, CheckAssumption
<1> QED  BY <1>1, PartsBehave DEF RequestsAreSpaced
===============================================================================
