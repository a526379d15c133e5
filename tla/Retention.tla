------------------------------- MODULE Retention -------------------------------
(***************************************************************************)
(* What makes a capture smaller (Store in host/mcuscope/store.py): the age *)
(* sweep with the floor of the newest ended sessions and its walk that     *)
(* starts where the last one ended, the size cap that may have to trim     *)
(* into that floor, and purges. Each takes _sweep_lock and deletes in      *)
(* chunks, between which the loop commits rows and ends sessions.          *)
(*                                                                         *)
(* A row is its id and its stamp, which need not grow with the id: rows    *)
(* queue after they are stamped and the clock can step. The content size   *)
(* is the number of rows. Sessions change in one step here; Sessions has   *)
(* how.                                                                    *)
(***************************************************************************)
EXTENDS Integers, Sequences, FiniteSets, SequencesExt

CONSTANTS
  Days,         \* retention_days, in ticks of the clock
  Cap, Target,  \* the size cap and the 90 % of it a trim aims at
  Chunk,        \* _RETENTION_CHUNK
  MinSessions,  \* values min_sessions is set to
  MaxClock, MaxId, MaxSessions   \* bounds: ticks, ids, sessions kept

Id == 1 .. MaxId
Stamp == 1 .. MaxClock

VARIABLES
  rows,       \* the stamp of the row at each id, 0 for none
  nextId, clock,
  ended,      \* ended sessions, oldest first: [lo, hi]
  running,    \* start_id of the running session, 0 for none
  floor,      \* _min_sessions
  sweep,      \* the bulk delete that holds _sweep_lock; had and next (history): the rows
              \* and the next id when a trim began
  lastAge,    \* _last_age_sweep: the cutoff and span of the last full walk
  held,       \* stamp of a row the writer has checked and another program's lock keeps it
              \* from committing, 0 for none
  late,       \* history: rows committed after such a wait, below a mark made during it
  pending,    \* _expire_unannounced and _trim_unannounced
  unnamed     \* history: lines sweeps took that no sys row has named

countVars == <<pending, unnamed>>
vars == <<rows, nextId, clock, ended, running, floor, sweep, lastAge, held, late, countVars>>

Counted == {"age", "size"}
Sweeps == Counted \cup {"purge"}
None   == <<1, 0>>          \* the span that protects nothing
NoWalk == <<0, None>>
Idle   == [kind |-> "idle", cutoff |-> 0, since |-> 0, span |-> None, want |-> 0, got |-> 0,
           forced |-> FALSE, from |-> NoWalk, had |-> {}, next |-> 0]

Init ==
  /\ rows = [i \in Id |-> 0] /\ nextId = 1 /\ clock = 1
  /\ ended = <<>> /\ running = 0 /\ floor \in MinSessions
  /\ sweep = Idle /\ lastAge = NoWalk /\ held = 0 /\ late = {}
  /\ pending = [k \in Counted |-> 0] /\ unnamed = [k \in Counted |-> 0]

Stored == {i \in Id : rows[i] # 0}
In(i, span) == span[1] <= i /\ i <= span[2]

-------------------------------------------------------------------------------
(* The writer, the clock and the sessions. *)

(* Mutant: a row older than the last walk's cutoff is nothing special. *)
NoStampCheck(t) == lastAge

(* _check_stamp_order, for the walk: made before the row is committed.      *)
StampChecked(t) == IF lastAge # NoWalk /\ t < lastAge[1] THEN NoWalk ELSE lastAge

Lands(t) ==
  /\ nextId <= MaxId
  /\ rows' = [rows EXCEPT ![nextId] = t] /\ nextId' = nextId + 1

(* A row stamped now, earlier, or by a clock that was behind. *)
Commit ==
  /\ held = 0
  /\ \E t \in 1 .. clock : Lands(t) /\ lastAge' = StampChecked(t)
  /\ UNCHANGED <<clock, ended, running, floor, sweep, held, late, countVars>>

Hold ==
  /\ held = 0
  /\ \E t \in 1 .. clock : held' = t /\ lastAge' = StampChecked(t)
  /\ UNCHANGED <<rows, nextId, clock, ended, running, floor, sweep, late, countVars>>

LandHeld ==
  /\ held # 0
  /\ Lands(held) /\ held' = 0
  /\ late' = IF lastAge # NoWalk /\ held < lastAge[1] THEN late \cup {nextId} ELSE late
  /\ UNCHANGED <<clock, ended, running, floor, sweep, lastAge, countVars>>

Tick ==
  /\ clock < MaxClock /\ clock' = clock + 1
  /\ UNCHANGED <<rows, nextId, ended, running, floor, sweep, lastAge, held, late, countVars>>

SessionStarts ==
  /\ running = 0 /\ Len(ended) < MaxSessions
  /\ running' = nextId
  /\ UNCHANGED <<rows, nextId, clock, ended, floor, sweep, lastAge, held, late, countVars>>

(* The end marker is its last row. *)
SessionEnds ==
  /\ running # 0 /\ held = 0
  /\ Lands(clock) /\ lastAge' = StampChecked(clock)
  /\ ended' = Append(ended, <<running, nextId>>) /\ running' = 0
  /\ UNCHANGED <<clock, floor, sweep, held, late, countVars>>

SessionForgotten ==
  /\ \E k \in 1 .. Len(ended) : ended' = RemoveAt(ended, k)
  /\ UNCHANGED <<rows, nextId, clock, running, floor, sweep, lastAge, held, late, countVars>>

SetMinSessions ==
  /\ floor' \in MinSessions \ {floor}
  /\ UNCHANGED <<rows, nextId, clock, ended, running, sweep, lastAge, held, late, countVars>>

-------------------------------------------------------------------------------
(* retention_span: from the oldest of the newest ended sessions to the end  *)
(* of the newest.                                                           *)
Span ==
  LET n == Len(ended) first == IF n > floor THEN n - floor + 1 ELSE 1 IN
  IF floor = 0 \/ n = 0 THEN None ELSE <<ended[first][1], ended[n][2]>>

Begins(s) == sweep.kind = "idle" /\ sweep' = s

(* The first n of the rows S by id, and by stamp; and the rows without some. *)
FirstById(S, n)    == {i \in S : Cardinality({j \in S : j < i}) < n}
Older(j, i)        == rows[j] < rows[i] \/ (rows[j] = rows[i] /\ j < i)
FirstByStamp(S, n) == {i \in S : Cardinality({j \in S : Older(j, i)}) < n}
Without(ids)       == [i \in Id |-> IF i \in ids THEN 0 ELSE rows[i]]

Counts(k, n) == pending' = [pending EXCEPT ![k] = @ + n] /\ unnamed' = [unnamed EXCEPT ![k] = @ + n]

(* Mutant: the count is zeroed whether or not its row could be queued. *)
ReportLost(k, n) ==
  /\ pending' = [pending EXCEPT ![k] = 0]
  /\ \/ unnamed' = [unnamed EXCEPT ![k] = 0]
     \/ unnamed' = [unnamed EXCEPT ![k] = @ + n]

(* _sweep_row, when a sweep ends or is cut short after n more lines: they go *)
(* into a sys row, or stay for the next sweep when that cannot be queued.    *)
Report(k, n) ==
  \/ pending' = [pending EXCEPT ![k] = 0] /\ unnamed' = [unnamed EXCEPT ![k] = 0]
  \/ Counts(k, n)

-------------------------------------------------------------------------------
(* The age sweep. *)

(* Mutant: the walk always starts where the last one ended. *)
SinceLast(span) == lastAge[1]

(* Where the walk may start: everything older was deleted by the last one,  *)
(* unless the span that spared it has shrunk since.                         *)
Since(span) ==
  LET last == lastAge[2] IN
  IF last = None \/ (span # None /\ span[1] <= last[1] /\ span[2] >= last[2]) THEN lastAge[1] ELSE 0

AgeBegins ==
  /\ Begins([Idle EXCEPT !.kind = "age", !.cutoff = clock - Days, !.span = Span,
                         !.since = Since(Span), !.from = lastAge])
  /\ UNCHANGED <<rows, nextId, clock, ended, running, floor, lastAge, held, late, countVars>>

Expired == {i \in Stored : rows[i] < sweep.cutoff /\ rows[i] >= sweep.since /\ ~In(i, sweep.span)}

AgeChunk ==
  /\ sweep.kind = "age" /\ Cardinality(Expired) >= Chunk
  /\ rows' = Without(FirstByStamp(Expired, Chunk)) /\ Counts("age", Chunk)
  /\ UNCHANGED <<nextId, clock, ended, running, floor, sweep, lastAge, held, late>>

(* Mutant: the mark is made whatever came in during the sweep. *)
AgeEndsMarks ==
  /\ sweep.kind = "age" /\ Cardinality(Expired) < Chunk
  /\ rows' = Without(Expired) /\ Report("age", Cardinality(Expired))
  /\ lastAge' = <<sweep.cutoff, sweep.span>>
  /\ sweep' = Idle
  /\ UNCHANGED <<nextId, clock, ended, running, floor, held, late>>

(* The last chunk; a row that landed older than the last cutoff has reset   *)
(* the mark, and it stays so.                                               *)
AgeEnds ==
  /\ sweep.kind = "age" /\ Cardinality(Expired) < Chunk
  /\ rows' = Without(Expired) /\ Report("age", Cardinality(Expired))
  /\ lastAge' = IF lastAge = sweep.from THEN <<sweep.cutoff, sweep.span>> ELSE lastAge
  /\ sweep' = Idle
  /\ UNCHANGED <<nextId, clock, ended, running, floor, held, late>>

-------------------------------------------------------------------------------
(* The size cap. *)

SizeBegins ==
  /\ Cardinality(Stored) > Cap
  /\ Begins([Idle EXCEPT !.kind = "size", !.span = Span, !.want = Cardinality(Stored) - Target,
                          !.had = Stored, !.next = nextId])
  /\ UNCHANGED <<rows, nextId, clock, ended, running, floor, lastAge, held, late, countVars>>

(* Mutant: the oldest rows, protected or not. *)
OldestAnyway == Stored

(* _delete_oldest_chunk: below the span, then above it; without it, all.    *)
Oldest ==
  LET below == {i \in Stored : i < sweep.span[1]} above == {i \in Stored : i > sweep.span[2]} IN
  IF sweep.forced \/ sweep.span = None THEN Stored ELSE IF below # {} THEN below ELSE above

TrimChunk ==
  LET left == sweep.want - sweep.got
      victims == FirstById(Oldest, IF left < Chunk THEN left ELSE Chunk) IN
  /\ sweep.kind = "size" /\ left > 0 /\ Oldest # {}
  /\ rows' = Without(victims) /\ Counts("size", Cardinality(victims))
  /\ sweep' = [sweep EXCEPT !.got = @ + Cardinality(victims)]
  /\ UNCHANGED <<nextId, clock, ended, running, floor, lastAge, held, late>>

(* The protected sessions alone exceed the cap: the second pass ignores the *)
(* floor.                                                                   *)
TrimForces ==
  /\ sweep.kind = "size" /\ sweep.got < sweep.want /\ Oldest = {}
  /\ ~sweep.forced /\ sweep.span # None
  /\ sweep' = [sweep EXCEPT !.forced = TRUE]
  /\ UNCHANGED <<rows, nextId, clock, ended, running, floor, lastAge, held, late, countVars>>

(* Mutant: the trim ends when nothing unprotected is left. *)
TrimEndsAtFloor ==
  /\ sweep.kind = "size" /\ (sweep.got = sweep.want \/ Oldest = {})
  /\ sweep' = Idle /\ Report("size", 0)
  /\ UNCHANGED <<rows, nextId, clock, ended, running, floor, lastAge, held, late>>

TrimEnds ==
  /\ sweep.kind = "size"
  /\ sweep.got = sweep.want \/ (Oldest = {} /\ (sweep.forced \/ sweep.span = None))
  /\ sweep' = Idle /\ Report("size", 0)
  /\ UNCHANGED <<rows, nextId, clock, ended, running, floor, lastAge, held, late>>

-------------------------------------------------------------------------------
(* Purges: an id range, or what is stamped before a time, up to the highest *)
(* id counted then. Another program's lock may stop any of the three.       *)

PurgeBegins ==
  /\ \/ \E lo, hi \in Id : lo <= hi /\ Begins([Idle EXCEPT !.kind = "purge", !.span = <<lo, hi>>,
                                                           !.cutoff = MaxClock + 1])
     \/ \E t \in Stamp :
          LET old == {i \in Stored : rows[i] < t} IN
          \E hi \in old :
            /\ \A j \in old : j <= hi
            /\ Begins([Idle EXCEPT !.kind = "purge", !.cutoff = t, !.span = <<1, hi>>])
  /\ UNCHANGED <<rows, nextId, clock, ended, running, floor, lastAge, held, late, countVars>>

Purged == {i \in Stored : In(i, sweep.span) /\ rows[i] < sweep.cutoff}

PurgeChunk ==
  /\ sweep.kind = "purge" /\ Purged # {}
  /\ rows' = Without(FirstById(Purged, Chunk))
  /\ UNCHANGED <<nextId, clock, ended, running, floor, sweep, lastAge, held, late, countVars>>

PurgeEnds ==
  /\ sweep.kind = "purge" /\ Purged = {}
  /\ sweep' = Idle
  /\ UNCHANGED <<rows, nextId, clock, ended, running, floor, lastAge, held, late, countVars>>

Refused ==
  /\ sweep.kind # "idle" /\ sweep' = Idle
  /\ IF sweep.kind = "purge" THEN UNCHANGED countVars ELSE Report(sweep.kind, 0)
  /\ UNCHANGED <<rows, nextId, clock, ended, running, floor, lastAge, held, late>>

-------------------------------------------------------------------------------
Next ==
  \/ Commit \/ Hold \/ LandHeld \/ Tick
  \/ SessionStarts \/ SessionEnds \/ SessionForgotten \/ SetMinSessions
  \/ AgeBegins \/ AgeChunk \/ AgeEnds
  \/ SizeBegins \/ TrimChunk \/ TrimForces \/ TrimEnds
  \/ PurgeBegins \/ PurgeChunk \/ PurgeEnds \/ Refused

Spec == Init /\ [][Next]_vars

-------------------------------------------------------------------------------
(* Properties. *)

(* Every variable holds what its comment says. *)
TypeOK ==
  /\ rows \in [Id -> 0 .. MaxClock] /\ nextId \in 1 .. MaxId + 1 /\ clock \in Stamp
  /\ held \in 0 .. MaxClock /\ running \in 0 .. MaxId + 1
  /\ \A k \in 1 .. Len(ended) : ended[k] \in Id \X Id
  /\ sweep.kind \in Sweeps \cup {"idle"}

(* A walk that starts where the last one ended misses nothing: every row    *)
(* older than the mark lies in the span the mark was made with, although    *)
(* sessions were forgotten, the floor was moved and rows with old stamps    *)
(* came in, during a sweep too.                                             *)
WalkMarkIsSound ==
  lastAge # NoWalk => \A i \in Stored : rows[i] < lastAge[1] => In(i, lastAge[2])

(* The same of every row that was committed in the step that checked it.    *)
WalkMarkHolds ==
  lastAge # NoWalk => \A i \in Stored \ late : rows[i] < lastAge[1] => In(i, lastAge[2])

(* The size cap is a bound: when a trim ends, no more rows are left than    *)
(* its target and those committed while it ran, protected sessions or not.  *)
CapIsABound ==
  [][sweep.kind = "size" /\ TrimEnds =>
       Cardinality(Stored) <= Target + (nextId - sweep.next)]_vars

(* A trim takes a row of a protected session only when no row it began with *)
(* outside the protected span is left.                                      *)
TrimSparesProtected ==
  sweep.kind = "size" /\ (\E i \in sweep.had \ Stored : In(i, sweep.span)) =>
    \A i \in Stored \cap sweep.had : In(i, sweep.span)

(* Every line a sweep took is named by a sys row, or counted for the next:  *)
(* none is lost to a sweep that was refused half-way, nor to a full queue.  *)
LossesAreAnnounced == unnamed = pending

(* What is protected never expires by age.                                  *)
ProtectedNeverExpire ==
  [][AgeChunk \/ AgeEnds => \A i \in Id : In(i, Span) => rows'[i] = rows[i]]_vars
===============================================================================
