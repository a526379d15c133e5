---------------------------- MODULE CaptureIdentity ----------------------------
(***************************************************************************)
(* The identity of the capture's id space (Store in host/mcuscope/store.py *)
(* and the pump of /ws in host/mcuscope/server.py): a client caches rows   *)
(* by lines.id for as long as the token it was told stays the same, across *)
(* reconnects and restarts of the daemon. So the token has to change       *)
(* whenever an id can come to name another row, and the sequence must not  *)
(* enter the range of a session that has ended.                            *)
(*                                                                         *)
(* The writer is reduced to its committed batches (StoreWriter has the     *)
(* rest). A stored row is known by its birth, which no two rows share.     *)
(***************************************************************************)
EXTENDS Naturals, Sequences, FiniteSets, SequencesExt

CONSTANTS
  Client,       \* browsers and other holders of cached rows
  Chunk,        \* _RETENTION_CHUNK: rows a delete removes per transaction
  MaxId,        \* bound: ids the model gives out
  MaxBirths,    \* bound: rows ever stored
  MaxRuns,      \* bound: how often the daemon is started
  MaxSessions,  \* bound: sessions kept at a time
  Trouble       \* what may go wrong beside a kill at an await

Troubles == {"killBetween", "mintRefused", "lag", "commitFails"}

Id == 1 .. MaxId

VARIABLES
  \* the file
  rows,         \* lines: the birth of the row stored under each id, 0 for none
  sessions,     \* sessions: start_id, end_id (0 while it runs), and the births it ended at
  stored,       \* meta 'capture'
  \* the daemon
  up,
  nextId,       \* Store._next_id
  token,        \* Store._capture_id
  deleting,     \* the ids a bulk delete is working through, between its chunks too
  owed,         \* a chunk freed the top id and the new token is not committed
  \* subscribers: the socket's queue and the token the pump sent last
  live, inbox, sent,
  \* what a client holds: the token it was told and the rows under it
  told, held,
  \* history
  births,       \* rows ever stored
  mints,        \* tokens ever minted
  runs

fileVars   == <<rows, sessions, stored>>
daemonVars == <<up, nextId, token, deleting, owed>>
socketVars == <<live, inbox, sent>>
clientVars == <<told, held>>
pastVars   == <<births, mints, runs>>
vars == <<fileVars, daemonVars, socketVars, clientVars, pastVars>>

-------------------------------------------------------------------------------
Stored == {i \in Id : rows[i] # 0}

(* _max_id_sql and _max_session_ref_id. *)
TopId  == Max({0} \cup Stored)
TopRef == Max({0} \cup {s.lo : s \in sessions} \cup {s.hi : s \in sessions})

(* Tokens are numbered in the order they are minted; the real ones are random. *)
NoToken == 0

Quiet == up /\ ~owed       \* the loop is not inside _delete_lines

Init ==
  /\ rows = [i \in Id |-> 0] /\ sessions = {} /\ stored = 1
  /\ up = TRUE /\ nextId = 1 /\ token = 1 /\ deleting = {} /\ owed = FALSE
  /\ live = [c \in Client |-> FALSE]
  /\ inbox = [c \in Client |-> <<>>]
  /\ sent = [c \in Client |-> NoToken]
  /\ told = [c \in Client |-> NoToken]
  /\ held = [c \in Client |-> {}]
  /\ births = 0 /\ mints = 1 /\ runs = 1

-------------------------------------------------------------------------------
(* The writer. *)

(* One row is committed and broadcast, with no await between the two. *)
Store(id) ==
  /\ id <= MaxId /\ births < MaxBirths
  /\ births' = births + 1
  /\ rows' = [rows EXCEPT ![id] = births + 1]
  /\ nextId' = id + 1
  /\ inbox' = [c \in Client |->
       IF live[c] THEN Append(inbox[c], [id |-> id, birth |-> births + 1]) ELSE inbox[c]]

StoreRow ==
  /\ Quiet
  /\ Store(nextId)
  /\ UNCHANGED <<sessions, stored, up, token, deleting, owed, live, sent, clientVars,
                 mints, runs>>

(* Mutant: the ids of a batch that fails are given back, below the first one. *)
CommitFailsGivesBack ==
  /\ "commitFails" \in Trouble /\ Quiet /\ nextId <= MaxId
  /\ nextId' = nextId - 1
  /\ UNCHANGED <<fileVars, up, token, deleting, owed, socketVars, clientVars, pastVars>>

(* A batch that is rolled back has spent its ids. *)
CommitFails ==
  /\ "commitFails" \in Trouble /\ Quiet /\ nextId <= MaxId
  /\ nextId' = nextId + 1
  /\ UNCHANGED <<fileVars, up, token, deleting, owed, socketVars, clientVars, pastVars>>

-------------------------------------------------------------------------------
(* Sessions, as far as the sequence is concerned. *)

Running == {s \in sessions : s.hi = 0}

(* _open_session_locked's row; its marker is a row like any other. *)
OpenSession ==
  /\ Quiet /\ Running = {} /\ Cardinality(sessions) < MaxSessions
  /\ sessions' = sessions \cup {[lo |-> nextId, hi |-> 0, past |-> 0]}
  /\ UNCHANGED <<rows, stored, daemonVars, socketVars, clientVars, pastVars>>

(* _stop_session_locked: the end marker's id ends it. *)
EndSession ==
  /\ Quiet
  /\ Store(nextId)
  /\ \E s \in Running :
       sessions' = (sessions \ {s})
                     \cup {[lo |-> s.lo, hi |-> nextId, past |-> births + 1]}
  /\ UNCHANGED <<stored, up, token, deleting, owed, live, sent, clientVars,
                 mints, runs>>

(* delete_session: the label goes, the rows stay. *)
ForgetSession ==
  /\ Quiet
  /\ \E s \in sessions : sessions' = sessions \ {s}
  /\ UNCHANGED <<rows, stored, daemonVars, socketVars, clientVars, pastVars>>

-------------------------------------------------------------------------------
(* Deletes: purge, retention and the size cap, one at a time under
   _sweep_lock, in chunks between which the loop runs. *)

DeleteBegins ==
  /\ Quiet /\ deleting = {}
  /\ \E lo, hi \in Id : deleting' = lo .. hi
  /\ deleting' # {}
  /\ UNCHANGED <<fileVars, up, nextId, token, owed, socketVars, clientVars, pastVars>>

Victims == Stored \cap deleting
Oldest(ids) == {i \in ids : Cardinality({j \in ids : j < i}) < Chunk}

(* Mutants: only a delete that empties the capture counts; every delete does. *)
FreesAll(gone) == gone = Stored
FreesAny(gone) == gone # {}

(* The test _delete_lines makes after its commit: the highest id is lower. *)
FreesTop(gone) == TopId \in gone

(* _delete_lines up to its commit. With "lag" the chunk may run while rows
   wait in a subscriber's queue. *)
DeleteChunk ==
  /\ Quiet /\ Victims # {}
  /\ "lag" \in Trouble \/ \A c \in Client : inbox[c] = <<>>
  /\ rows' = [i \in Id |-> IF i \in Oldest(Victims) THEN 0 ELSE rows[i]]
  /\ owed' = FreesTop(Oldest(Victims))
  /\ UNCHANGED <<sessions, stored, up, nextId, token, deleting, socketVars, clientVars,
                 births, mints, runs>>

(* _new_capture: the token in memory, then in the file. The insert raises, and *)
(* the delete with it, when another program took the write lock in between.   *)
NewCapture ==
  /\ owed
  /\ owed' = FALSE
  /\ mints' = mints + 1 /\ token' = mints + 1
  /\ \E refused \in {FALSE, "mintRefused" \in Trouble} :
       /\ stored' = IF refused THEN stored ELSE mints + 1
       /\ deleting' = IF refused THEN {} ELSE deleting
  /\ UNCHANGED <<rows, sessions, up, nextId, socketVars, clientVars, births, runs>>

DeleteEnds ==
  /\ Quiet /\ deleting # {} /\ Victims = {}
  /\ deleting' = {}
  /\ UNCHANGED <<fileVars, up, nextId, token, owed, socketVars, clientVars, pastVars>>

-------------------------------------------------------------------------------
(* The runs of the daemon. *)

(* stop(), whose last rows are rows like any other, or a kill. *)
RunEnds ==
  /\ up /\ (owed => "killBetween" \in Trouble)
  /\ up' = FALSE /\ deleting' = {} /\ owed' = FALSE
  /\ live' = [c \in Client |-> FALSE]
  /\ inbox' = [c \in Client |-> <<>>]
  /\ sent' = [c \in Client |-> NoToken]
  /\ UNCHANGED <<fileVars, nextId, token, clientVars, pastVars>>

(* Mutant: the sequence is seeded past the live rows only. *)
SeedPastRows == TopId + 1

(* _open_capture seeds past the rows and past what sessions refer to. *)
Seed == Max({TopId, TopRef}) + 1

Start ==
  /\ ~up /\ runs < MaxRuns
  /\ up' = TRUE /\ runs' = runs + 1
  /\ nextId' = Seed
  /\ token' = stored
  /\ UNCHANGED <<fileVars, deleting, owed, socketVars, clientVars, births, mints>>

-------------------------------------------------------------------------------
(* Subscribers. *)

Connect(c) ==
  /\ Quiet /\ ~live[c]
  /\ live' = [live EXCEPT ![c] = TRUE]
  /\ UNCHANGED <<fileVars, daemonVars, inbox, sent, clientVars, pastVars>>

Announces(c) == sent[c] # token

(* One turn of the pump, a keepalive when nothing waits, and the client's
   reading of the frame: the token first, a changed one discarding all that
   is held, then the rows, an id no higher than one held being a duplicate. *)
Frame(c) ==
  /\ Quiet /\ live[c]
  /\ inbox' = [inbox EXCEPT ![c] = <<>>]
  /\ sent' = [sent EXCEPT ![c] = token]
  /\ LET kept == IF Announces(c) /\ told[c] # token THEN {} ELSE held[c]
         new  == {r \in ToSet(inbox[c]) : \A h \in kept : h.id < r.id} IN
     /\ told' = [told EXCEPT ![c] = IF Announces(c) THEN token ELSE @]
     /\ held' = [held EXCEPT ![c] = kept \cup new]
  /\ UNCHANGED <<fileVars, daemonVars, live, pastVars>>

Disconnect(c) ==
  /\ live[c]
  /\ live' = [live EXCEPT ![c] = FALSE]
  /\ inbox' = [inbox EXCEPT ![c] = <<>>]
  /\ sent' = [sent EXCEPT ![c] = NoToken]
  /\ UNCHANGED <<fileVars, daemonVars, clientVars, pastVars>>

-------------------------------------------------------------------------------
Next ==
  \/ StoreRow \/ CommitFails
  \/ OpenSession \/ EndSession \/ ForgetSession
  \/ DeleteBegins \/ DeleteChunk \/ NewCapture \/ DeleteEnds
  \/ RunEnds \/ Start
  \/ \E c \in Client : Connect(c) \/ Frame(c) \/ Disconnect(c)

Spec == Init /\ [][Next]_vars

-------------------------------------------------------------------------------
(* Properties. *)

Row == [id : Id, birth : 1 .. MaxBirths]

(* Every variable holds what its comment says. *)
TypeOK ==
  /\ rows \in [Id -> 0 .. MaxBirths]
  /\ \A s \in sessions : s \in [lo : Nat \ {0}, hi : Nat, past : Nat]
  /\ stored \in Nat /\ token \in Nat /\ mints \in Nat
  /\ up \in BOOLEAN /\ owed \in BOOLEAN
  /\ nextId \in Nat \ {0} /\ deleting \in SUBSET Id
  /\ live \in [Client -> BOOLEAN]
  /\ inbox \in [Client -> Seq(Row)]
  /\ sent \in [Client -> Nat] /\ told \in [Client -> Nat]
  /\ held \in [Client -> SUBSET Row]
  /\ births \in Nat /\ runs \in Nat

(* As long as a client's token is the daemon's, every id it holds names the
   row it always named or no row at all, and never a different one: across
   purges, reconnects and restarts. A client that trusts the token can keep
   its rows and discard what it has as a duplicate. *)
HeldIdsStillName ==
  \A c \in Client : Quiet /\ told[c] = token =>
    \A h \in held[c] : rows[h.id] \in {0, h.birth}

(* No row is ever stored inside the span of a session that ended before it,
   however much of the capture was deleted since and however often the
   daemon was started. *)
EndedSessionsStayEnded ==
  \A s \in sessions : s.hi # 0 =>
    \A i \in s.lo .. s.hi : i \in Id => rows[i] <= s.past

(* No client is made to throw its rows away for nothing: while the row that
   was captured last is still there, the token stays what it is, however
   much is trimmed at the old end and however often the daemon restarts. *)
ResetsAreOwed ==
  [][(\E i \in Id : births > 0 /\ rows[i] = births) => stored' = stored]_vars
===============================================================================
