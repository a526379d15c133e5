------------------------------ MODULE CaptureHistory ------------------------------
(***************************************************************************)
(* What becomes of a capture that is stored: the sweeps of retention and   *)
(* the size cap (Retention), the sessions (Sessions), the exports          *)
(* (Exports), and the ids its clients hold over deletes and restarts       *)
(* (CaptureIdentity).  Each keeps a state of its own, so a behaviour here  *)
(* is a behaviour of one of them, and its invariant is asked of it.        *)
(***************************************************************************)
EXTENDS Integers, Sequences, FiniteSets

CONSTANTS
  Days, Cap, Target, SweepChunk, MinSessions, MaxClock, MaxSweptId, MaxEnded,  \* of Retention
  Req,                                                           \* of Sessions and Exports
  Ops, QueueMax, MaxSpanId, MaxOpened, MaxCalls, MaxRuns,        \* of Sessions
  Workers, Waiting, WaitersMax, MaxAsks, MaxPurges, MaxKills,    \* of Exports
  Client, Chunk, MaxNamedId, MaxBirths, MaxStarts, MaxLabels, Trouble    \* of CaptureIdentity

VARIABLES
  part,        \* whose behaviour this is
  \* Retention
  stamps, topId, clock, endedRuns, running, floor, sweep, lastAge, heldBack, late, pending, unnamed,
  \* Sessions
  lines, spans, opened, phase, freeId, queue, run, auto, lock, stopLock, act, calls, stray,
  \* Exports
  state, pc, kind, woken, left, job, builds, freed, sweepLock, torn, asks, purges, kills,
  \* CaptureIdentity
  named, labels, stored, on, nextId, token, deleting, owed, live, inbox, sent, told, held,
  births, mints, starts

sweepVars  == <<stamps, topId, clock, endedRuns, running, floor, sweep, lastAge, heldBack, late,
                pending, unnamed>>
spanVars   == <<lines, spans, opened, phase, freeId, queue, run, auto, lock, stopLock, act,
                calls, stray>>
exportVars == <<state, pc, kind, woken, left, job, builds, freed, sweepLock, torn, asks,
                purges, kills>>
idVars     == <<named, labels, stored, on, nextId, token, deleting, owed, live, inbox, sent,
                told, held, births, mints, starts>>
vars       == <<part, sweepVars, spanVars, exportVars, idVars>>

R == INSTANCE Retention WITH Chunk <- SweepChunk, MaxId <- MaxSweptId, MaxSessions <- MaxEnded,
       rows <- stamps, nextId <- topId, ended <- endedRuns, held <- heldBack
S == INSTANCE Sessions WITH MaxId <- MaxSpanId,
       rows <- lines, sessions <- spans, nextId <- freeId
E == INSTANCE Exports WITH MaxCalls <- MaxAsks, up <- state, calls <- asks
I == INSTANCE CaptureIdentity WITH MaxId <- MaxNamedId, MaxRuns <- MaxStarts,
       MaxSessions <- MaxLabels, rows <- named, sessions <- labels, up <- on, runs <- starts

ASSUME SweepAssumption ==
  /\ Days \in Nat /\ Target \in Nat /\ SweepChunk \in Nat /\ MinSessions \subseteq Nat
  /\ MaxClock \in Nat \ {0} /\ MaxSweptId \in Nat

\* A request is neither the daemon, nobody nor a purge.
ASSUME SessionAssumption ==
  /\ IsFiniteSet(Req) /\ "daemon" \notin Req /\ S!Nobody \notin Req
  /\ QueueMax \in Nat /\ MaxSpanId \in Nat /\ MaxRuns \in Nat

ASSUME ExportAssumption ==
  Req \cap {"", "purge"} = {} /\ Workers \in Nat /\ Waiting \in Nat /\ WaitersMax \in Nat

\* A delete takes rows in chunks of at least one.
ASSUME IdentityAssumption == Chunk \in Nat \ {0} /\ MaxNamedId \in Nat /\ MaxBirths \in Nat

Init ==
  /\ part \in {"sweeps", "sessions", "exports", "ids"}
  /\ R!Init /\ S!Init /\ E!Init /\ I!Init

Next ==
  /\ UNCHANGED part
  /\ \/ part = "sweeps" /\ R!Next /\ UNCHANGED <<spanVars, exportVars, idVars>>
     \/ part = "sessions" /\ S!Next /\ UNCHANGED <<sweepVars, exportVars, idVars>>
     \/ part = "exports" /\ E!Next /\ UNCHANGED <<sweepVars, spanVars, idVars>>
     \/ part = "ids" /\ I!Next /\ UNCHANGED <<sweepVars, spanVars, exportVars>>

Spec == Init /\ [][Next]_vars

\* Retention: a trim spares the sessions it must, no row a sweep took goes unannounced, and
\* the mark that lets a sweep skip its walk hides no row that has expired.
SweepsSound ==
  part = "sweeps" =>
    R!TypeOK /\ R!TrimSparesProtected /\ R!LossesAreAnnounced /\ R!WalkMarkHolds

\* Retention: a trim that ends leaves the capture within its cap.
CapIsABound == R!CapIsABound

\* Sessions: no two sessions claim a row, no line falls between two runs that follow each
\* other, and an automatic session holds one daemon run's lines.
SessionsSound ==
  part = "sessions" =>
    S!TypeOK /\ S!SpansDisjoint /\ S!NoLineBetweenRuns /\ S!AutoSessionOfOneRun

\* Exports: no copy outlives its request and its builder, a file that is being sent exists,
\* a slot is taken by each build and given back once, and a bundle is of one moment.
ExportsSound ==
  part = "exports" =>
    /\ E!TypeOK /\ E!NothingLeftOnDisk /\ E!SentFileExists
    /\ E!SlotsExact /\ E!FreeSlotWakesWaiters /\ E!BundleIsOneSnapshot

\* CaptureIdentity: under its token an id a client holds names the row it always named, and
\* no row is stored inside a session that ended before it, across deletes and restarts.
IdsKept ==
  part = "ids" => I!TypeOK /\ I!HeldIdsStillName /\ I!EndedSessionsStayEnded

\* CaptureIdentity: while the row captured last is there, no client is made to start over.
ResetsAreOwed == I!ResetsAreOwed
===============================================================================
