----------------------------- MODULE PortManager ------------------------------
(***************************************************************************)
(* PortManager of host/mcuscope/serial_link.py under concurrent requests:  *)
(* attach, reconnect, detach, disconnect (hold) and stop_all. One asyncio  *)
(* lock, first come first served, covers each of them except the priming   *)
(* of a new port's decoder, which runs before the lock is asked for.       *)
(*                                                                         *)
(* A port object is its number; `count` stands for the totals and the seq  *)
(* a detach carries to the next attach, `defs` for the newest `!pd` its    *)
(* decoder knows.                                                          *)
(***************************************************************************)
EXTENDS Naturals, Sequences, SequencesExt, FiniteSets

CONSTANTS
  Alias,
  MaxPorts,    \* MAX_PORTS: attached at once
  CarriedMax,  \* CARRIED_MAX: detached aliases whose counters are kept
  Request,     \* bound: requests, by number
  MaxMade,     \* bound: port objects
  MaxCount,    \* bound: lines of an alias
  MaxDefs,     \* bound: definitions of an alias
  Cancels      \* may a request be cancelled (graceful-shutdown cap)?

VARIABLES
  req,         \* the requests: [op, alias, pc, new, replaces, wasHeld, seen]
  lockQ,       \* _lock: its holder, then those that wait for it
  ports,       \* _ports
  state,       \* each port object: "unmade", "new", "runs", "stops", "over"
  of,          \* its alias
  held, count, defs,
  carried,     \* the aliases in _carried, oldest first
  saved,       \* the count _carried has of each of them
  closed,      \* _closed
  made,
  stored,      \* the newest definition of each alias in the store
  high,        \* the highest count of an alias since its counters were last evicted
  changes      \* detaches, holds and attaches of an alias that have taken effect

portVars == <<state, of, held, count, defs, made>>
book     == <<carried, saved, high>>
vars == <<req, lockQ, ports, portVars, book, closed, stored, changes>>

Port == 1 .. MaxMade
Nobody == 0
Idle == [op |-> "none", alias |-> "none", pc |-> "idle", new |-> 0, replaces |-> 0,
         wasHeld |-> FALSE, seen |-> 0]

TypeOK ==
  /\ \A r \in Request :
       /\ req[r].pc \in {"idle", "primes", "primed", "queues", "replaces", "detaches", "holds",
                         "drains", "ok", "refused"}
       /\ req[r].op \in {"none", "attach", "reconnect", "detach", "hold", "stop_all"}
  /\ \A i \in DOMAIN lockQ : lockQ[i] \in Request
  /\ ports \in [Alias -> Port \cup {Nobody}]
  /\ state \in [Port -> {"unmade", "new", "runs", "stops", "over"}]
  /\ held \in [Port -> BOOLEAN] /\ count \in [Port -> 0 .. MaxCount]
  /\ Len(carried) <= CarriedMax /\ saved \in [Alias -> 0 .. MaxCount]
  /\ Cardinality({a \in Alias : ports[a] # Nobody}) <= MaxPorts

Init ==
  /\ req = [r \in Request |-> Idle] /\ lockQ = <<>>
  /\ ports = [a \in Alias |-> Nobody]
  /\ state = [p \in Port |-> "unmade"] /\ of = [p \in Port |-> "none"]
  /\ held = [p \in Port |-> FALSE] /\ count = [p \in Port |-> 0] /\ defs = [p \in Port |-> 0]
  /\ carried = <<>> /\ saved = [a \in Alias |-> 0] /\ closed = FALSE /\ made = 0
  /\ stored = [a \in Alias |-> 0] /\ high = [a \in Alias |-> 0] /\ changes = [a \in Alias |-> 0]

(* Requests are numbered as they arrive. *)
Arrives(r) == req[r].pc = "idle" /\ \A q \in Request : q < r => req[q].pc # "idle"

Holder(r)  == lockQ # <<>> /\ Head(lockQ) = r
Attached   == {a \in Alias : ports[a] # Nobody}
Goes(r, to) == req' = [req EXCEPT ![r].pc = to]
Leaves(r)  == lockQ' = RemoveFirst(lockQ, r)
Changed(a) == changes' = [changes EXCEPT ![a] = @ + 1]

-------------------------------------------------------------------------------
(* The ports, while requests are under way. *)

Tally(p) ==
  /\ high[of[p]] < MaxCount /\ count[p] < MaxCount
  /\ count' = [count EXCEPT ![p] = @ + 1]
  /\ high' = [high EXCEPT ![of[p]] = IF @ > count[p] THEN @ ELSE count[p] + 1]

(* A line is counted, by the consumer or by stop(). *)
Receive(p) ==
  /\ (state[p] = "runs" /\ ~held[p]) \/ state[p] = "stops"
  /\ Tally(p)
  /\ UNCHANGED <<req, lockQ, ports, state, of, held, defs, made, carried, saved, closed, stored,
     changes>>

(* A `!pd` line is decoded and stored. *)
Define(p) ==
  /\ state[p] = "runs" /\ ~held[p] /\ stored[of[p]] < MaxDefs
  /\ stored' = [stored EXCEPT ![of[p]] = @ + 1]
  /\ defs' = [defs EXCEPT ![p] = stored[of[p]] + 1]
  /\ UNCHANGED <<req, lockQ, ports, state, of, held, count, made, book, closed, changes>>

-------------------------------------------------------------------------------
(* Requests. *)

(* attach: the cheap checks, then the port object, inert until it starts. A *)
(* reconnect names the port it read and whether it was held.                *)
AttachBegins(r, op, a) ==
  /\ Arrives(r)
  /\ op = "reconnect" => ports[a] # Nobody
  /\ IF (ports[a] = Nobody /\ Cardinality(Attached) >= MaxPorts) \/ closed
       THEN /\ req' = [req EXCEPT ![r] = [Idle EXCEPT !.op = op, !.alias = a, !.pc = "refused"]]
            /\ UNCHANGED portVars
       ELSE /\ made < MaxMade /\ made' = made + 1
            /\ state' = [state EXCEPT ![made + 1] = "new"] /\ of' = [of EXCEPT ![made + 1] = a]
            /\ req' = [req EXCEPT ![r] =
                 [op |-> op, alias |-> a, pc |-> "primes", new |-> made + 1,
                  replaces |-> IF op = "reconnect" THEN ports[a] ELSE Nobody,
                  wasHeld |-> op = "reconnect" /\ held[ports[a]], seen |-> changes[a]]]
            /\ UNCHANGED <<held, count, defs>>
  /\ UNCHANGED <<lockQ, ports, book, closed, stored, changes>>

(* prime_plot_defs reads the store, then the task asks for the lock. *)
PrimeReads(r) ==
  /\ req[r].pc = "primes"
  /\ defs' = [defs EXCEPT ![req[r].new] = stored[req[r].alias]]
  /\ Goes(r, "primed")
  /\ UNCHANGED <<lockQ, ports, state, of, held, count, made, book, closed, stored, changes>>

PrimeFails(r) ==
  /\ req[r].pc = "primes"
  /\ Goes(r, "refused")
  /\ UNCHANGED <<lockQ, ports, portVars, book, closed, stored, changes>>

AsksForLock(r) ==
  /\ req[r].pc = "primed"
  /\ Goes(r, "queues") /\ lockQ' = Append(lockQ, r)
  /\ UNCHANGED <<ports, portVars, book, closed, stored, changes>>

Refused(r) ==
  /\ Goes(r, "refused") /\ Leaves(r)
  /\ UNCHANGED <<ports, portVars, book, closed, stored, changes>>

(* Mutant: the shutdown flag is looked at before the prime only. *)
MayStartUnlessReplaced(r) ==
  LET a == req[r].alias IN
  /\ req[r].replaces # Nobody =>
       ports[a] = req[r].replaces /\ (held[req[r].replaces] => req[r].wasHeld)
  /\ ports[a] # Nobody \/ Cardinality(Attached) < MaxPorts

(* Mutant: a reconnect asks only whether the alias is still attached. *)
MayStartIfAttached(r) ==
  LET a == req[r].alias IN
  /\ ~closed
  /\ req[r].replaces # Nobody => ports[a] # Nobody
  /\ ports[a] # Nobody \/ Cardinality(Attached) < MaxPorts

(* What the lock's holder checks again before it starts its port. *)
MayStart(r) ==
  LET a == req[r].alias IN
  /\ ~closed
  /\ req[r].replaces # Nobody =>
       ports[a] = req[r].replaces /\ (held[req[r].replaces] => req[r].wasHeld)
  /\ ports[a] # Nobody \/ Cardinality(Attached) < MaxPorts

AttachRefused(r) ==
  /\ Holder(r) /\ req[r].pc = "queues" /\ req[r].op \in {"attach", "reconnect"}
  /\ ~MayStart(r)
  /\ Refused(r)

(* What an alias starts from, when kept and counts is what is carried.      *)
Resumed(kept, counts, a) == IF a \in ToSet(kept) THEN counts[a] ELSE 0

(* port.start(), with what was carried for the alias. *)
Starts(r, n, old) ==
  LET a == req[r].alias  p == req[r].new IN
  /\ ports' = [ports EXCEPT ![a] = p]
  /\ state' = [q \in Port |-> IF q = p THEN "runs" ELSE IF q = old THEN "over" ELSE state[q]]
  /\ count' = [count EXCEPT ![p] = n]
  /\ Goes(r, "ok") /\ Leaves(r) /\ Changed(a)

AttachStarts(r) ==
  /\ Holder(r) /\ req[r].pc = "queues" /\ req[r].op \in {"attach", "reconnect"}
  /\ MayStart(r) /\ ports[req[r].alias] = Nobody
  /\ Starts(r, Resumed(carried, saved, req[r].alias), Nobody)
  /\ UNCHANGED <<of, held, defs, made, book, closed, stored>>

(* _detach_locked up to its await: the alias is free at once. *)
TakesDown(a) ==
  /\ ports' = [ports EXCEPT ![a] = Nobody]
  /\ state' = [state EXCEPT ![ports[a]] = "stops"]

AttachReplaces(r) ==
  /\ Holder(r) /\ req[r].pc = "queues" /\ req[r].op \in {"attach", "reconnect"}
  /\ MayStart(r) /\ ports[req[r].alias] # Nobody
  /\ req' = [req EXCEPT ![r].pc = "replaces", ![r].replaces = ports[req[r].alias]]
  /\ TakesDown(req[r].alias)
  /\ UNCHANGED <<lockQ, of, held, count, defs, made, book, closed, stored, changes>>

(* Mutant: the limit is one short. *)
CarryOneShort(a) ==
  LET q == Append(RemoveFirst(carried, a), a) IN IF Len(q) >= CarriedMax THEN Tail(q) ELSE q

(* A stopped port's alias goes to the end of those carried, and the oldest  *)
(* beyond the limit is dropped.                                             *)
Carry(a) ==
  LET q == Append(RemoveFirst(carried, a), a) IN IF Len(q) > CarriedMax THEN Tail(q) ELSE q

Evicted(q) == ToSet(carried) \ ToSet(q)

(* An alias whose counters are gone starts at zero, whenever it is back. *)
Carries(a, n) ==
  /\ carried' = Carry(a) /\ saved' = [saved EXCEPT ![a] = n]
  /\ high' = [x \in Alias |-> IF x \in Evicted(carried') /\ x # a /\ ports[x] = Nobody
                                THEN 0 ELSE high[x]]

(* Mutant: the primed decoder is kept. *)
AdoptPrimed(r, old) == defs' = defs

(* plot_decoder.adopt: what the old port learned during the prime wins. *)
Adopt(r, old) == defs' = [defs EXCEPT ![req[r].new] = IF defs[old] > 0 THEN defs[old] ELSE @]

ReplaceEnds(r) ==
  LET old == req[r].replaces IN
  /\ req[r].pc = "replaces"
  /\ Carries(req[r].alias, count[old])
  /\ Adopt(r, old)
  /\ Starts(r, Resumed(carried', saved', req[r].alias), old)
  /\ UNCHANGED <<of, held, made, closed, stored>>

(* detach, disconnect and stop_all ask for the lock right away. *)
Asks(r, op, a) ==
  /\ Arrives(r)
  /\ req' = [req EXCEPT ![r] = [Idle EXCEPT !.op = op, !.alias = a, !.pc = "queues",
                                            !.seen = changes[a]]]
  /\ lockQ' = Append(lockQ, r)
  /\ UNCHANGED <<ports, portVars, book, closed, stored, changes>>

NoSuchPort(r) ==
  /\ Holder(r) /\ req[r].pc = "queues" /\ req[r].op \in {"detach", "hold"}
  /\ ports[req[r].alias] = Nobody
  /\ Refused(r)

Detaches(r) ==
  /\ Holder(r) /\ req[r].pc = "queues" /\ req[r].op \in {"detach", "stop_all"}
  /\ ports[req[r].alias] # Nobody
  /\ req' = [req EXCEPT ![r].pc = "detaches", ![r].replaces = ports[req[r].alias]]
  /\ TakesDown(req[r].alias) /\ Changed(req[r].alias)
  /\ UNCHANGED <<lockQ, of, held, count, defs, made, book, closed, stored>>

DetachEnds(r) ==
  /\ req[r].pc = "detaches"
  /\ Carries(req[r].alias, count[req[r].replaces])
  /\ state' = [state EXCEPT ![req[r].replaces] = "over"]
  /\ Goes(r, IF req[r].op = "stop_all" THEN "drains" ELSE "ok") /\ Leaves(r)
  /\ UNCHANGED <<ports, of, held, count, defs, made, closed, stored, changes>>

(* hold() keeps the attachment; its own stop() is awaited under the lock. *)
Holds(r) ==
  LET p == ports[req[r].alias] IN
  /\ Holder(r) /\ req[r].pc = "queues" /\ req[r].op = "hold" /\ p # Nobody
  /\ held' = [held EXCEPT ![p] = TRUE]
  /\ IF held[p] THEN UNCHANGED changes ELSE Changed(req[r].alias)
  /\ Goes(r, "holds")
  /\ UNCHANGED <<lockQ, ports, state, of, count, defs, made, book, closed, stored>>

HoldEnds(r) ==
  /\ req[r].pc = "holds"
  /\ Goes(r, "ok") /\ Leaves(r)
  /\ UNCHANGED <<ports, portVars, book, closed, stored, changes>>

(* stop_all: no new ports from here on, then detach until none is left. *)
Closes(r) ==
  /\ Arrives(r) /\ ~closed
  /\ closed' = TRUE
  /\ req' = [req EXCEPT ![r] = [Idle EXCEPT !.op = "stop_all", !.pc = "drains"]]
  /\ UNCHANGED <<lockQ, ports, portVars, book, stored, changes>>

DrainsNext(r, a) ==
  /\ req[r].pc = "drains" /\ a \in Attached
  /\ req' = [req EXCEPT ![r].alias = a, ![r].pc = "queues"]
  /\ lockQ' = Append(lockQ, r)
  /\ UNCHANGED <<ports, portVars, book, closed, stored, changes>>

(* Somebody else detached the alias first: detach answers False. *)
DrainMissed(r) ==
  /\ Holder(r) /\ req[r].pc = "queues" /\ req[r].op = "stop_all"
  /\ ports[req[r].alias] = Nobody
  /\ Goes(r, "drains") /\ Leaves(r)
  /\ UNCHANGED <<ports, portVars, book, closed, stored, changes>>

Drained(r) ==
  /\ req[r].pc = "drains" /\ Attached = {}
  /\ Goes(r, "ok")
  /\ UNCHANGED <<lockQ, ports, portVars, book, closed, stored, changes>>

(* A cancelled request leaves the lock; a stop() it awaited has told its    *)
(* port to stop, and the counters are carried all the same.                 *)
Cancelled(r) ==
  /\ Cancels /\ closed /\ req[r].op # "stop_all"
  /\ req[r].pc \in {"primes", "primed", "queues", "replaces", "detaches", "holds"}
  /\ Goes(r, "refused") /\ Leaves(r)
  /\ IF req[r].pc \in {"replaces", "detaches"}
       THEN /\ Carries(req[r].alias, count[req[r].replaces])
            /\ state' = [state EXCEPT ![req[r].replaces] = "over"]
       ELSE UNCHANGED <<book, state>>
  /\ UNCHANGED <<ports, of, held, count, defs, made, closed, stored, changes>>

Next ==
  \/ \E p \in Port : Receive(p) \/ Define(p)
  \/ \E r \in Request :
       \/ \E a \in Alias :
            \/ \E op \in {"attach", "reconnect"} : AttachBegins(r, op, a)
            \/ \E op \in {"detach", "hold"} : Asks(r, op, a)
            \/ DrainsNext(r, a)
       \/ PrimeReads(r) \/ PrimeFails(r) \/ AsksForLock(r)
       \/ AttachRefused(r) \/ AttachStarts(r) \/ AttachReplaces(r) \/ ReplaceEnds(r)
       \/ NoSuchPort(r) \/ Detaches(r) \/ DetachEnds(r) \/ Holds(r) \/ HoldEnds(r)
       \/ Closes(r) \/ DrainMissed(r) \/ Drained(r) \/ Cancelled(r)

Spec == Init /\ [][Next]_vars

-------------------------------------------------------------------------------
(* Properties. *)

(* A reader that runs has an owner: a port that runs is the one its alias   *)
(* names, and no second port of the alias is starting or stopping: an       *)
(* exclusive device is free before it is opened again.                      *)
NoOrphanReader ==
  \A p \in Port : state[p] = "runs" =>
    /\ ports[of[p]] = p
    /\ \A o \in Port \ {p} : of[o] = of[p] => state[o] \notin {"runs", "stops"}

(* Once stop_all has returned nothing runs, whatever attach was under way.  *)
(* It looks at _ports without the lock: while a re-attach has taken the old *)
(* port out and awaits its stop, the table is empty, stop_all returns, and  *)
(* the attach then starts a port nobody will stop.                          *)
StopAllStopsAll ==
  \A r \in Request : req[r].op = "stop_all" /\ req[r].pc = "ok" =>
    \A p \in Port : state[p] # "runs"

(* A reconnect undoes nothing: it starts its port only if no detach, no     *)
(* disconnect and no other attach of the alias took effect since it was     *)
(* asked.                                                                   *)
ReconnectUndoesNothing ==
  [][\A r \in Request :
       req[r].op = "reconnect" /\ req[r].pc # "ok" /\ req'[r].pc = "ok" =>
         changes[req[r].alias] = req[r].seen]_vars

(* The totals and the seq of an alias never go back over detach and attach, *)
(* until CARRIED_MAX other aliases were detached after it.                  *)
CountersNeverGoBack ==
  \A a \in Alias : ports[a] # Nobody => count[ports[a]] >= high[a]

(* A port that replaces another knows what that one knew: definitions that  *)
(* came while the new one was priming are not lost with the old decoder.    *)
ReplacementKnowsDefs ==
  \A r \in Request : req[r].op \in {"attach", "reconnect"} /\ req[r].pc = "ok"
                       /\ req[r].replaces # Nobody =>
    defs[req[r].new] >= defs[req[r].replaces]
===============================================================================
