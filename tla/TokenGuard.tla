-------------------------------- MODULE TokenGuard -------------------------------
(***************************************************************************)
(* The access token a request from the network presents before a route     *)
(* sees it (host/mcuscope/server.py): wrong guesses are counted per client *)
(* in a table of bounded size, and too many lock the client out for a      *)
(* while.                                                                  *)
(***************************************************************************)
EXTENDS Integers, FiniteSets

CONSTANTS
  Client,       \* throttle keys: an IPv4 address, or the /64 of an IPv6 one
  FailMax,      \* TOKEN_FAIL_MAX
  Window,       \* TOKEN_FAIL_WINDOW_S, in ticks
  Lockout,      \* TOKEN_LOCKOUT_S, in ticks
  TableMax,     \* TOKEN_FAIL_TABLE_MAX
  MaxClock      \* bound: ticks of the monotonic clock

VARIABLES
  now,
  fails,        \* _fails: [count, start, locked] per client, or NoRecord
  evicting,     \* _evicting: the warning of this episode is given
  warned,       \* history: how often it was
  compared      \* history, per client: when a wrong token of its was last compared

vars == <<now, fails, evicting, warned, compared>>

NoRecord == [count |-> 0, start |-> -1, locked |-> 0]
Never    == -1

Init ==
  /\ now = 0 /\ fails = [c \in Client |-> NoRecord] /\ evicting = FALSE
  /\ warned = 0 /\ compared = [c \in Client |-> Never]

Recorded(f) == {c \in Client : f[c] # NoRecord}
Without(f, gone) == [c \in Client |-> IF c \in gone THEN NoRecord ELSE f[c]]
LockedOut(c) == fails[c] # NoRecord /\ now < fails[c].locked

(* Mutant: a record goes when its window is over, locked out or not. *)
ExpiredWindow(f) == {c \in Recorded(f) : now - f[c].start > Window}

Expired(f) == {c \in Recorded(f) : now - f[c].start > Window /\ now >= f[c].locked}

(* Mutant: what is expired goes, and nothing else. *)
PrunedExpired(f) == {Without(f, Expired(f))}

(* _prune: what is expired, then the oldest until one fits in. *)
Pruned(f) ==
  LET kept == Without(f, Expired(f))
      over == Cardinality(Recorded(kept)) - TableMax + 1
  IN IF over <= 0 THEN {kept}
     ELSE {Without(kept, old) : old \in {S \in SUBSET Recorded(kept) :
             Cardinality(S) = over /\ \A c \in S, d \in Recorded(kept) \ S : f[c].start <= f[d].start}}

Full(f) == Cardinality(Recorded(f)) >= TableMax

(* _register_failure, with the pruning it may do first. *)
RegisterFailure(c) ==
  \E f \in IF Full(fails) THEN Pruned(fails) ELSE {fails} :
    LET rec   == IF f[c] = NoRecord \/ now - f[c].start > Window
                 THEN [count |-> 1, start |-> now, locked |-> f[c].locked]
                 ELSE [f[c] EXCEPT !.count = @ + 1]
        evicts == Full(fails) /\ Full(Without(fails, Expired(fails)))
    IN
    /\ fails' = [f EXCEPT ![c] = IF rec.count >= FailMax THEN [rec EXCEPT !.locked = now + Lockout]
                                 ELSE rec]
    /\ evicting' = IF Full(fails) THEN evicts ELSE evicting
    /\ warned' = IF evicts /\ ~evicting THEN warned + 1 ELSE warned

-------------------------------------------------------------------------------
(* A request to anything but the pages of the UI, from a client that is not  *)
(* this machine.                                                             *)

(* Mutant: a guess during a lockout starts it again. *)
WrongTokenAnytime(c) ==
  /\ RegisterFailure(c)
  /\ compared' = IF LockedOut(c) THEN compared ELSE [compared EXCEPT ![c] = now]
  /\ UNCHANGED now

(* A request with a wrong token; in a lockout it is refused uncompared. *)
WrongToken(c) ==
  /\ ~LockedOut(c)
  /\ RegisterFailure(c)
  /\ compared' = [compared EXCEPT ![c] = now]
  /\ UNCHANGED now

(* The right token clears the slate, unless the client is locked out. *)
RightToken(c) ==
  /\ ~LockedOut(c) /\ fails[c] # NoRecord
  /\ fails' = [fails EXCEPT ![c] = NoRecord]
  /\ UNCHANGED <<now, evicting, warned, compared>>

Tick == now < MaxClock /\ now' = now + 1 /\ UNCHANGED <<fails, evicting, warned, compared>>

Next == Tick \/ \E c \in Client : WrongToken(c) \/ RightToken(c)

Spec == Init /\ [][Next]_vars

-------------------------------------------------------------------------------
(* Properties. *)

(* Every variable holds what its comment says. *)
TypeOK ==
  /\ now \in 0 .. MaxClock /\ evicting \in BOOLEAN /\ warned \in Nat
  /\ \A c \in Client : fails[c] = NoRecord
       \/ (fails[c].count \in Nat \ {0} /\ fails[c].start \in 0 .. MaxClock)

(* The table keeps to its bound however many clients guess at once. *)
TableIsBounded == Cardinality(Recorded(fails)) <= TableMax

(* A lockout runs from the guess that made it: a client that goes on asking  *)
(* with a stale token is let in again in time.                               *)
LockoutEndsInTime ==
  \A c \in Client : fails[c] # NoRecord => fails[c].locked <= compared[c] + Lockout

(* A lockout ends early only when the whole table is live, and then never    *)
(* before those that began earlier.                                          *)
EvictsOldestOnly ==
  [][\A c \in Client : LockedOut(c) /\ fails'[c] = NoRecord =>
       /\ Cardinality(Recorded(fails) \ Expired(fails)) >= TableMax
       /\ \A d \in Recorded(fails) : fails[d].start < fails[c].start => fails'[d] # fails[d]]_vars
===============================================================================
