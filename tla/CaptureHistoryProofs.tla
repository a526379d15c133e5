--------------------------- MODULE CaptureHistoryProofs ---------------------------
(***************************************************************************)
(* Proofs about a stored capture (CaptureHistory), for any sizes, requests *)
(* and clients.  A section for each part proves what its model keeps, by   *)
(* an inductive invariant of its own:                                      *)
(*   - Retention: a trim counts what it has taken against what it found,   *)
(*     and takes protected rows only when no other is left; a walk starts  *)
(*     from a span that covers every row the mark speaks of;               *)
(*   - Sessions: sessions follow each other, whoever holds _session_lock   *)
(*     knows which one runs, and a marker's line has one waiter;           *)
(*   - Exports: a request and its build end independently, and what each   *)
(*     may find of the other tells which of them removes the files;        *)
(*   - CaptureIdentity: rows are born in the order of their ids, so a      *)
(*     client's rows lie below a row that is there until a delete frees    *)
(*     the top, which owes a new token.                                    *)
(* The last section states it of the whole, whose steps are steps of one   *)
(* part.                                                                   *)
(***************************************************************************)
EXTENDS CaptureHistory, FiniteSetTheorems, NaturalsInduction, WellFoundedInduction, TLAPS

-------------------------------------------------------------------------------
(* Retention: sweeps by age, trims by size and purges, in chunks between     *)
(* which rows are stored, sessions start and end, and the clock steps back.  *)

(* An operator of a library module is the same in each part. *)
LEMMA SweepCounts == \A T : R!Cardinality(T) = Cardinality(T)
BY DEF R!Cardinality, Cardinality

Spans == Int \X Int

SweepTypes ==
  /\ stamps \in [R!Id -> 0 .. MaxClock] /\ topId \in 1 .. MaxSweptId + 1 /\ clock \in R!Stamp
  /\ heldBack \in 0 .. MaxClock /\ running \in 0 .. topId /\ floor \in Nat
  /\ endedRuns \in Seq(R!Id \X R!Id)
  /\ lastAge \in Int \X Spans
  /\ sweep \in [kind : R!Sweeps \cup {"idle"}, cutoff : Int, since : Int, span : Spans,
                want : Int, got : Int, forced : BOOLEAN, from : Int \X Spans,
                had : SUBSET R!Id, next : Int]
  /\ \A i \in R!Stored : i < topId

(* What a trim has done so far.  *)
Trimmed ==
  sweep.kind = "size" =>
    /\ sweep.next <= topId /\ \A i \in sweep.had : i < sweep.next
    /\ sweep.forced => \A i \in R!Stored \cap sweep.had : R!In(i, sweep.span)
    /\ ~sweep.forced => \A i \in sweep.had \ R!Stored : ~R!In(i, sweep.span)
    /\ Cardinality(R!Stored) = Target + sweep.want - sweep.got + (topId - sweep.next)

(* Where the walk of an age sweep starts. *)
Walks ==
  sweep.kind = "age" =>
    \/ sweep.since = 0
    \/ /\ sweep.since = sweep.from[1]
       /\ \/ sweep.from[2] = R!None
          \/ /\ sweep.span # R!None
             /\ sweep.span[1] <= sweep.from[2][1] /\ sweep.span[2] >= sweep.from[2][2]

Announced == pending \in [R!Counted -> Int] /\ unnamed = pending

(* Whatever a step does to the rows. *)
SweepRowsStay == stamps' = stamps /\ topId' = topId
RowLands == \E t \in R!Stamp : R!Lands(t)
RowsGo   == topId' = topId /\ \E ids \in SUBSET R!Stored : stamps' = R!Without(ids)

LEMMA NoneHoldsNothing == ASSUME NEW i \in Int PROVE ~R!In(i, R!None)
BY DEF R!In, R!None

LEMMA StoredFinite == IsFiniteSet(R!Stored) /\ R!Stored \subseteq R!Id /\ IsFiniteSet(R!Id)
<1>1. IsFiniteSet(R!Id)
  BY FS_Interval, SweepAssumption DEF R!Id
<1>2. R!Stored \subseteq R!Id
  BY DEF R!Stored
<1> QED
  BY <1>1, <1>2, FS_Subset

LEMMA OneRowMore ==
  ASSUME NEW T, NEW T2, NEW i, IsFiniteSet(T), i \notin T, T2 = T \cup {i}
  PROVE  Cardinality(T2) = Cardinality(T) + 1
BY FS_AddElement

LEMMA LandedRow ==
  ASSUME SweepTypes, NEW t \in R!Stamp, R!Lands(t)
  PROVE  /\ topId \in R!Id /\ topId \notin R!Stored /\ R!Stored' = R!Stored \cup {topId}
         /\ topId' = topId + 1 /\ stamps'[topId] = t
         /\ \A i \in R!Stored : stamps'[i] = stamps[i]
         /\ Cardinality(R!Stored') = Cardinality(R!Stored) + 1
         /\ stamps' \in [R!Id -> 0 .. MaxClock] /\ topId' \in 1 .. MaxSweptId + 1
         /\ \A i \in R!Stored' : i < topId'
<1>1. topId \in R!Id /\ topId' = topId + 1 /\ topId' \in 1 .. MaxSweptId + 1
  BY SweepAssumption DEF SweepTypes, R!Lands, R!Id
<1>2. topId \notin R!Stored
  BY <1>1 DEF SweepTypes, R!Id
<1>3. t \in 0 .. MaxClock /\ t # 0
  BY SweepAssumption DEF R!Stamp
<1>4. stamps' \in [R!Id -> 0 .. MaxClock] /\ stamps'[topId] = t
  BY <1>1, <1>3 DEF SweepTypes, R!Lands
<1>5. \A i \in R!Id \ {topId} : stamps'[i] = stamps[i]
  BY DEF SweepTypes, R!Lands
<1>6. R!Stored' = R!Stored \cup {topId}
  BY <1>1, <1>3, <1>4, <1>5 DEF R!Stored
<1>7. Cardinality(R!Stored') = Cardinality(R!Stored) + 1
  BY <1>2, <1>6, StoredFinite, OneRowMore
<1>8. \A i \in R!Stored' : i < topId'
  BY <1>1, <1>6, StoredFinite DEF SweepTypes, R!Id
<1>9. \A i \in R!Stored : stamps'[i] = stamps[i]
  BY <1>2, <1>5 DEF R!Stored
<1> QED
  BY <1>1, <1>2, <1>4, <1>6, <1>7, <1>8, <1>9

LEMMA GoneRows ==
  ASSUME SweepTypes, NEW ids \in SUBSET R!Stored, stamps' = R!Without(ids)
  PROVE  /\ R!Stored' = R!Stored \ ids /\ \A i \in R!Stored' : stamps'[i] = stamps[i]
         /\ Cardinality(R!Stored') = Cardinality(R!Stored) - Cardinality(ids)
         /\ stamps' \in [R!Id -> 0 .. MaxClock]
         /\ Cardinality(ids) \in Nat /\ Cardinality(R!Stored) \in Nat
<1>1. ids \subseteq R!Id
  BY StoredFinite
<1>2. stamps' \in [R!Id -> 0 .. MaxClock]
  BY SweepAssumption DEF SweepTypes, R!Without
<1>3. R!Stored' = R!Stored \ ids /\ \A i \in R!Stored' : stamps'[i] = stamps[i]
  BY <1>1 DEF SweepTypes, R!Without, R!Stored
<1>4. IsFiniteSet(ids)
  BY StoredFinite, FS_Subset
<1>5. Cardinality(R!Stored') = Cardinality(R!Stored) - Cardinality(ids)
  <2>1. R!Stored \cap ids = ids
    OBVIOUS
  <2>2. Cardinality(R!Stored \ ids) = Cardinality(R!Stored) - Cardinality(R!Stored \cap ids)
    BY <1>4, StoredFinite, FS_Difference
  <2> QED
    BY <1>3, <2>1, <2>2
<1>6. Cardinality(ids) \in Nat /\ Cardinality(R!Stored) \in Nat
  BY <1>4, StoredFinite, FS_CardinalityType
<1> QED
  BY <1>2, <1>3, <1>5, <1>6

LEMMA FirstsAreSome ==
  ASSUME NEW Z, NEW n
  PROVE  R!FirstById(Z, n) \subseteq Z /\ R!FirstByStamp(Z, n) \subseteq Z
BY DEF R!FirstById, R!FirstByStamp

(* What a row that lands, or a step that takes rows, leaves of a running sweep. *)
LEMMA OthersKeepTrimmed ==
  ASSUME SweepTypes, Trimmed, RowLands \/ SweepRowsStay, sweep' = sweep
  PROVE  Trimmed'
<1>1. CASE SweepRowsStay
  <2>1. R!Stored' = R!Stored
    BY <1>1 DEF SweepRowsStay, R!Stored
  <2> QED
    BY <1>1, <2>1 DEF SweepRowsStay, Trimmed, R!In
<1>2. CASE RowLands
  <2>1. PICK t \in R!Stamp : R!Lands(t)
    BY <1>2 DEF RowLands
  <2> SUFFICES ASSUME sweep.kind = "size"
               PROVE  Trimmed'
    BY DEF Trimmed
  <2>2. /\ R!Stored' = R!Stored \cup {topId} /\ topId \notin R!Stored /\ topId' = topId + 1
        /\ Cardinality(R!Stored') = Cardinality(R!Stored) + 1
    BY <2>1, LandedRow
  <2>3. topId \in Int /\ sweep.next \in Int /\ sweep.had \subseteq R!Id
    BY DEF SweepTypes
  <2>4. topId \notin sweep.had /\ sweep.next <= topId'
    BY <2>2, <2>3 DEF Trimmed, R!Id
  <2>5. R!Stored' \cap sweep.had = R!Stored \cap sweep.had
          /\ sweep.had \ R!Stored' = sweep.had \ R!Stored
    BY <2>2, <2>4
  <2>6. Cardinality(R!Stored) \in Nat
    BY StoredFinite, FS_CardinalityType
  <2>7. Cardinality(R!Stored') = Target + sweep.want - sweep.got + (topId' - sweep.next)
    BY <2>2, <2>3, <2>6, SweepAssumption DEF SweepTypes, Trimmed
  <2>8. /\ sweep.forced => \A i \in R!Stored' \cap sweep.had : R!In(i, sweep.span)
        /\ ~sweep.forced => \A i \in sweep.had \ R!Stored' : ~R!In(i, sweep.span)
    BY <2>5 DEF Trimmed
  <2> QED
    BY <2>2, <2>3, <2>4, <2>7, <2>8 DEF Trimmed, R!In
<1> QED
  BY <1>1, <1>2

-------------------------------------------------------------------------------
(* The types. *)

LEMMA SpanTyped == ASSUME SweepTypes PROVE R!Span \in Spans
<1> DEFINE n == Len(endedRuns)
           first == IF n > floor THEN n - floor + 1 ELSE 1
<1>1. CASE floor = 0 \/ n = 0
  BY <1>1 DEF R!Span, R!None, Spans
<1>2. CASE ~(floor = 0 \/ n = 0)
  <2>1. n \in Nat /\ n # 0 /\ floor \in Nat /\ floor # 0
    BY <1>2 DEF SweepTypes
  <2>2. first \in 1 .. n /\ n \in 1 .. n
    BY <2>1
  <2>3. endedRuns[first] \in R!Id \X R!Id /\ endedRuns[n] \in R!Id \X R!Id
    BY <2>2 DEF SweepTypes
  <2>4. endedRuns[first][1] \in Int /\ endedRuns[n][2] \in Int
    BY <2>3 DEF R!Id
  <2>5. R!Span = <<endedRuns[first][1], endedRuns[n][2]>>
    BY <1>2 DEF R!Span
  <2> QED
    BY <2>4, <2>5 DEF Spans
<1> QED
  BY <1>1, <1>2

LEMMA Stamps ==
  ASSUME SweepTypes
  PROVE  /\ clock \in R!Stamp /\ \A t \in 1 .. clock : t \in R!Stamp
         /\ heldBack # 0 => heldBack \in R!Stamp
BY SweepAssumption DEF SweepTypes, R!Stamp

LEMMA StampCheckedTyped ==
  ASSUME SweepTypes, NEW t
  PROVE  R!StampChecked(t) \in Int \X Spans
BY DEF SweepTypes, R!StampChecked, R!NoWalk, R!None, Spans

LEMMA IdleTyped ==
  R!Idle \in [kind : R!Sweeps \cup {"idle"}, cutoff : Int, since : Int, span : Spans,
            want : Int, got : Int, forced : BOOLEAN, from : Int \X Spans,
            had : SUBSET R!Id, next : Int]
BY DEF R!Idle, R!NoWalk, R!None, Spans

LEMMA TrimTakes ==
  ASSUME R!TrimChunk
  PROVE  \E ids \in SUBSET R!Oldest :
           /\ ids \subseteq R!Stored /\ stamps' = R!Without(ids)
           /\ sweep' = [sweep EXCEPT !.got = @ + Cardinality(ids)]
<1> DEFINE rest == sweep.want - sweep.got
           ids == R!FirstById(R!Oldest, IF rest < SweepChunk THEN rest ELSE SweepChunk)
<1>1. stamps' = R!Without(ids) /\ sweep' = [sweep EXCEPT !.got = @ + Cardinality(ids)]
  BY SweepCounts DEF R!TrimChunk
<1>2. ids \subseteq R!Oldest
  BY FirstsAreSome
<1>3. R!Oldest \subseteq R!Stored
  BY DEF R!Oldest
<1> HIDE DEF ids
<1> QED
  BY <1>1, <1>2, <1>3

LEMMA SweepTypesStart == R!Init => SweepTypes
<1> SUFFICES ASSUME R!Init PROVE SweepTypes
  OBVIOUS
<1>1. R!Stored = {}
  BY DEF R!Init, R!Stored
<1>2. stamps \in [R!Id -> 0 .. MaxClock] /\ topId \in 1 .. MaxSweptId + 1 /\ clock \in R!Stamp
  BY SweepAssumption DEF R!Init, R!Stamp
<1>3. /\ heldBack \in 0 .. MaxClock /\ running \in 0 .. topId /\ floor \in Nat
      /\ endedRuns \in Seq(R!Id \X R!Id)
  BY SweepAssumption DEF R!Init
<1>4. lastAge \in Int \X Spans
  BY DEF R!Init, R!NoWalk, R!None, Spans
<1> QED
  BY <1>1, <1>2, <1>3, <1>4, IdleTyped DEF R!Init, SweepTypes
LEMMA SweepTypesStep == ASSUME SweepTypes, [R!Next]_(R!vars) PROVE SweepTypes'
<1> USE DEF R!Counted, R!Sweeps
<1>1. CASE R!Commit
  <2>1. PICK t \in 1 .. clock : R!Lands(t) /\ lastAge' = R!StampChecked(t)
    BY <1>1 DEF R!Commit
  <2>2. t \in R!Stamp
    BY Stamps
  <2> QED
    BY <1>1, <2>1, <2>2, LandedRow, StampCheckedTyped DEF R!Commit, SweepTypes
<1>2. CASE R!Hold
  <2>1. PICK t \in 1 .. clock : heldBack' = t /\ lastAge' = R!StampChecked(t)
    BY <1>2 DEF R!Hold
  <2>2. t \in 0 .. MaxClock
    BY Stamps DEF R!Stamp
  <2>3. R!Stored' = R!Stored
    BY <1>2 DEF R!Hold, R!Stored
  <2> QED
    BY <1>2, <2>1, <2>2, <2>3, StampCheckedTyped DEF R!Hold, SweepTypes
<1>3. CASE R!LandHeld
  <2>1. heldBack \in R!Stamp /\ R!Lands(heldBack)
    BY <1>3, Stamps DEF R!LandHeld
  <2> QED
    BY <1>3, <2>1, LandedRow, SweepAssumption DEF R!LandHeld, SweepTypes
<1>4. CASE R!Tick
  BY <1>4, SweepAssumption DEF R!Tick, SweepTypes, R!Stored, R!Stamp
<1>5. CASE R!SessionStarts
  BY <1>5 DEF R!SessionStarts, SweepTypes, R!Stored
<1>6. CASE R!SessionEnds
  <2>1. clock \in R!Stamp /\ R!Lands(clock)
    BY <1>6 DEF R!SessionEnds, SweepTypes
  <2>2. topId \in R!Id
    BY <2>1, LandedRow
  <2>7. running \in R!Id
    <3>1. running # 0 /\ running \in 0 .. topId
      BY <1>6 DEF SweepTypes, R!SessionEnds
    <3> QED
      BY <2>2, <3>1, SweepAssumption DEF R!Id
  <2>3. endedRuns' \in Seq(R!Id \X R!Id)
    BY <1>6, <2>2, <2>7 DEF R!SessionEnds, SweepTypes
  <2>4. /\ stamps' \in [R!Id -> 0 .. MaxClock] /\ topId' \in 1 .. MaxSweptId + 1
        /\ \A i \in R!Stored' : i < topId'
    BY <2>1, LandedRow
  <2>5. lastAge' \in Int \X Spans
    BY <1>6, StampCheckedTyped DEF R!SessionEnds
  <2>6. running' \in 0 .. topId'
    BY <1>6, <2>4 DEF R!SessionEnds
  <2> QED
    BY <1>6, <2>3, <2>4, <2>5, <2>6 DEF R!SessionEnds, SweepTypes
<1>7. CASE R!SessionForgotten
  <2>1. PICK k \in 1 .. Len(endedRuns) : endedRuns' = R!RemoveAt(endedRuns, k)
    BY <1>7 DEF R!SessionForgotten
  <2>2. endedRuns \in Seq(R!Id \X R!Id)
    BY DEF SweepTypes
  <2>3. /\ SubSeq(endedRuns, 1, k - 1) \in Seq(R!Id \X R!Id)
        /\ SubSeq(endedRuns, k + 1, Len(endedRuns)) \in Seq(R!Id \X R!Id)
    BY <2>2
  <2>4. endedRuns' \in Seq(R!Id \X R!Id)
    BY <2>1, <2>3 DEF R!RemoveAt
  <2> QED
    BY <1>7, <2>4 DEF R!SessionForgotten, SweepTypes, R!Stored
<1>8. CASE R!SetMinSessions
  BY <1>8, SweepAssumption DEF R!SetMinSessions, SweepTypes, R!Stored
<1>9. CASE R!AgeBegins
  <2>1. R!Span \in Spans /\ R!Since(R!Span) \in Int /\ clock - Days \in Int
    BY SpanTyped, SweepAssumption DEF SweepTypes, R!Since, Spans, R!Stamp
  <2>2. sweep' = [R!Idle EXCEPT !.kind = "age", !.cutoff = clock - Days, !.span = R!Span,
                              !.since = R!Since(R!Span), !.from = lastAge]
    BY <1>9 DEF R!AgeBegins, R!Begins
  <2>3. sweep' = [kind |-> "age", cutoff |-> clock - Days, since |-> R!Since(R!Span),
                  span |-> R!Span,
                  want |-> 0, got |-> 0, forced |-> FALSE, from |-> lastAge, had |-> {},
                  next |-> 0]
    BY <2>2 DEF R!Idle
  <2> QED
    BY <1>9, <2>1, <2>3 DEF R!AgeBegins, SweepTypes, R!Stored
<1>10. CASE R!AgeChunk
  <2>1. R!FirstByStamp(R!Expired, SweepChunk) \in SUBSET R!Stored
    BY FirstsAreSome DEF R!Expired
  <2>2. stamps' = R!Without(R!FirstByStamp(R!Expired, SweepChunk))
    BY <1>10 DEF R!AgeChunk
  <2> QED
    BY <1>10, <2>1, <2>2, GoneRows DEF R!AgeChunk, SweepTypes
<1>11. CASE R!AgeEnds
  <2>1. R!Expired \in SUBSET R!Stored /\ stamps' = R!Without(R!Expired)
    BY <1>11 DEF R!AgeEnds, R!Expired
  <2>2. lastAge' \in Int \X Spans
    BY <1>11 DEF R!AgeEnds, SweepTypes
  <2>3. sweep' = R!Idle
    BY <1>11 DEF R!AgeEnds
  <2> QED
    BY <1>11, <2>1, <2>2, <2>3, GoneRows, IdleTyped DEF R!AgeEnds, SweepTypes
<1>12. CASE R!SizeBegins
  <2>1. R!Span \in Spans /\ Cardinality(R!Stored) - Target \in Int /\ R!Stored \in SUBSET R!Id
    BY SpanTyped, StoredFinite, FS_CardinalityType, SweepAssumption
  <2>2. sweep' = [R!Idle EXCEPT !.kind = "size", !.span = R!Span,
                              !.want = Cardinality(R!Stored) - Target, !.had = R!Stored,
                              !.next = topId]
    BY <1>12, SweepCounts DEF R!SizeBegins, R!Begins
  <2>3. sweep' = [kind |-> "size", cutoff |-> 0, since |-> 0, span |-> R!Span,
                  want |-> Cardinality(R!Stored) - Target, got |-> 0, forced |-> FALSE,
                  from |-> R!NoWalk, had |-> R!Stored, next |-> topId]
    BY <2>2 DEF R!Idle
  <2>4. R!NoWalk \in Int \X Spans
    BY DEF R!NoWalk, R!None, Spans
  <2> QED
    BY <1>12, <2>1, <2>3, <2>4 DEF R!SizeBegins, SweepTypes, R!Stored
<1>13. CASE R!TrimChunk
  <2>1. PICK ids \in SUBSET R!Stored :
          /\ stamps' = R!Without(ids)
          /\ sweep' = [sweep EXCEPT !.got = @ + Cardinality(ids)]
    BY <1>13, TrimTakes
  <2>2. Cardinality(ids) \in Int
    BY <2>1, GoneRows
  <2>3. sweep' \in [kind : R!Sweeps \cup {"idle"}, cutoff : Int, since : Int, span : Spans,
                    want : Int, got : Int, forced : BOOLEAN, from : Int \X Spans,
                    had : SUBSET R!Id, next : Int]
    <3> DEFINE n == sweep.got + Cardinality(ids)
    <3>1. n \in Int /\ sweep' = [sweep EXCEPT !.got = n]
      BY <2>1, <2>2 DEF SweepTypes
    <3> HIDE DEF n
    <3> QED
      BY <3>1 DEF SweepTypes
  <2> QED
    BY <1>13, <2>1, <2>3, GoneRows DEF R!TrimChunk, SweepTypes
<1>14. CASE R!TrimForces
  BY <1>14 DEF R!TrimForces, SweepTypes, R!Stored
<1>15. CASE R!TrimEnds
  BY <1>15, IdleTyped DEF R!TrimEnds, SweepTypes, R!Stored
<1>16. CASE R!PurgeBegins
  <2>1. PICK lo \in R!Id \cup {1}, hi \in R!Id, c \in Int :
          sweep' = [R!Idle EXCEPT !.kind = "purge", !.cutoff = c, !.span = <<lo, hi>>]
    <3>1. CASE \E lo, hi \in R!Id : lo <= hi /\ R!Begins([R!Idle EXCEPT !.kind = "purge",
                                    !.span = <<lo, hi>>, !.cutoff = MaxClock + 1])
      <4>1. PICK lo \in R!Id, hi \in R!Id :
              R!Begins([R!Idle EXCEPT !.kind = "purge", !.span = <<lo, hi>>,
              !.cutoff = MaxClock + 1])
        BY <3>1
      <4>2. [R!Idle EXCEPT !.kind = "purge", !.span = <<lo, hi>>, !.cutoff = MaxClock + 1]
            = [R!Idle EXCEPT !.kind = "purge", !.cutoff = MaxClock + 1, !.span = <<lo, hi>>]
        BY DEF R!Idle
      <4>3. MaxClock + 1 \in Int /\ lo \in R!Id \cup {1}
        BY SweepAssumption
      <4>4. sweep' = [R!Idle EXCEPT !.kind = "purge", !.cutoff = MaxClock + 1,
                               !.span = <<lo, hi>>]
        BY <4>1, <4>2 DEF R!Begins
      <4> QED
        BY <4>3, <4>4
    <3>2. CASE \E t \in R!Stamp : LET old == {i \in R!Stored : stamps[i] < t} IN \E hi \in old :
                 /\ \A j \in old : j <= hi
                 /\ R!Begins([R!Idle EXCEPT !.kind = "purge", !.cutoff = t, !.span = <<1, hi>>])
      <4>1. PICK t \in R!Stamp, hi \in R!Stored :
              R!Begins([R!Idle EXCEPT !.kind = "purge", !.cutoff = t, !.span = <<1, hi>>])
        BY <3>2
      <4>2. t \in Int /\ hi \in R!Id /\ 1 \in R!Id \cup {1}
        BY StoredFinite DEF R!Stamp
      <4>3. sweep' = [R!Idle EXCEPT !.kind = "purge", !.cutoff = t, !.span = <<1, hi>>]
        BY <4>1 DEF R!Begins
      <4> QED
        BY <4>2, <4>3
    <3> QED
      BY <1>16, <3>1, <3>2 DEF R!PurgeBegins
  <2>2. sweep' = [kind |-> "purge", cutoff |-> c, since |-> 0, span |-> <<lo, hi>>,
                  want |-> 0, got |-> 0, forced |-> FALSE, from |-> R!NoWalk, had |-> {},
                  next |-> 0]
    BY <2>1 DEF R!Idle
  <2>3. <<lo, hi>> \in Spans /\ R!NoWalk \in Int \X Spans
    BY DEF R!NoWalk, R!None, Spans, R!Id
  <2>4. sweep' \in [kind : R!Sweeps \cup {"idle"}, cutoff : Int, since : Int, span : Spans,
                    want : Int, got : Int, forced : BOOLEAN, from : Int \X Spans,
                    had : SUBSET R!Id, next : Int]
    BY <2>2, <2>3
  <2> QED
    BY <1>16, <2>4 DEF R!PurgeBegins, SweepTypes, R!Stored
<1>17. CASE R!PurgeChunk
  <2>1. /\ R!FirstById(R!Purged, SweepChunk) \in SUBSET R!Stored
        /\ stamps' = R!Without(R!FirstById(R!Purged, SweepChunk))
    BY <1>17, FirstsAreSome DEF R!Purged, R!PurgeChunk
  <2> QED
    BY <1>17, <2>1, GoneRows DEF R!PurgeChunk, SweepTypes
<1>18. CASE R!PurgeEnds
  BY <1>18, IdleTyped DEF R!PurgeEnds, SweepTypes, R!Stored
<1>19. CASE R!Refused
  BY <1>19, IdleTyped DEF R!Refused, SweepTypes, R!Stored
<1>20. CASE UNCHANGED R!vars
  BY <1>20 DEF R!vars, SweepTypes, R!Stored
<1> QED
  BY <1>1, <1>2, <1>3, <1>4, <1>5, <1>6, <1>7, <1>8, <1>9, <1>10, <1>11, <1>12, <1>13, <1>14,
     <1>15, <1>16, <1>17, <1>18, <1>19, <1>20 DEF R!Next
-------------------------------------------------------------------------------
(* The trims. *)

LEMMA TrimChunkTrims == ASSUME SweepTypes, Trimmed, R!TrimChunk PROVE Trimmed'
<1>1. PICK ids \in SUBSET R!Oldest :
        /\ ids \subseteq R!Stored /\ stamps' = R!Without(ids)
        /\ sweep' = [sweep EXCEPT !.got = @ + Cardinality(ids)]
  BY TrimTakes
<1>2. /\ sweep.kind = "size" /\ topId' = topId
  BY DEF R!TrimChunk
<1>3. /\ R!Stored' = R!Stored \ ids /\ Cardinality(ids) \in Nat /\ Cardinality(R!Stored) \in Nat
      /\ Cardinality(R!Stored') = Cardinality(R!Stored) - Cardinality(ids)
  BY <1>1, GoneRows
<1>4. /\ sweep'.kind = "size" /\ sweep'.next = sweep.next /\ sweep'.had = sweep.had
      /\ sweep'.forced = sweep.forced /\ sweep'.span = sweep.span /\ sweep'.want = sweep.want
      /\ sweep'.got = sweep.got + Cardinality(ids)
  BY <1>1, <1>2 DEF SweepTypes
<1>5. Cardinality(R!Stored') = Target + sweep'.want - sweep'.got + (topId' - sweep'.next)
  BY <1>2, <1>3, <1>4, SweepAssumption DEF SweepTypes, Trimmed
<1>6. sweep.forced => \A i \in R!Stored' \cap sweep.had : R!In(i, sweep.span)
  BY <1>2, <1>3 DEF Trimmed
<1>7. ASSUME ~sweep.forced, NEW i \in sweep.had \ R!Stored', R!In(i, sweep.span)
      PROVE  FALSE
  <2>1. i \in ids
    BY <1>2, <1>3, <1>7 DEF Trimmed
  <2>2. i \in R!Oldest /\ i \in Int /\ sweep.span \in Spans
    BY <1>1, <2>1, StoredFinite DEF SweepTypes, R!Id
  <2>3. sweep.span # R!None
    BY <1>7, <2>2, NoneHoldsNothing
  <2> QED
    BY <1>7, <2>2, <2>3 DEF R!Oldest, R!In, Spans
<1> QED
  BY <1>2, <1>4, <1>5, <1>6, <1>7 DEF Trimmed, R!In

LEMMA TrimmedStep == ASSUME SweepTypes, Trimmed, [R!Next]_(R!vars) PROVE Trimmed'
<1>1. ASSUME R!Commit \/ R!Hold \/ R!LandHeld \/ R!Tick \/ R!SessionStarts \/ R!SessionEnds
               \/ R!SessionForgotten \/ R!SetMinSessions \/ UNCHANGED R!vars
      PROVE  Trimmed'
  <2>1. RowLands \/ SweepRowsStay
    BY <1>1, Stamps DEF R!Commit, R!Hold, R!LandHeld, R!Tick, R!SessionStarts, R!SessionEnds,
       R!SessionForgotten, R!SetMinSessions, R!vars, RowLands, SweepRowsStay, SweepTypes
  <2>2. sweep' = sweep
    BY <1>1 DEF R!Commit, R!Hold, R!LandHeld, R!Tick, R!SessionStarts, R!SessionEnds,
       R!SessionForgotten, R!SetMinSessions, R!vars
  <2> QED
    BY <2>1, <2>2, OthersKeepTrimmed
<1>2. ASSUME R!AgeBegins \/ R!AgeChunk \/ R!AgeEnds \/ R!TrimEnds \/ R!PurgeBegins \/ R!PurgeChunk
               \/ R!PurgeEnds \/ R!Refused
      PROVE  sweep'.kind # "size"
  <2>1. R!Idle.kind = "idle" /\ [R!Idle EXCEPT !.kind = "age"].kind # "size"
    BY DEF R!Idle
  <2>2. CASE R!AgeBegins
    BY <2>2 DEF R!AgeBegins, R!Begins, R!Idle
  <2>3. CASE R!AgeChunk \/ R!PurgeChunk
    BY <2>3 DEF R!AgeChunk, R!PurgeChunk
  <2>4. CASE R!AgeEnds \/ R!TrimEnds \/ R!PurgeEnds \/ R!Refused
    BY <2>1, <2>4 DEF R!AgeEnds, R!TrimEnds, R!PurgeEnds, R!Refused
  <2>5. CASE R!PurgeBegins
    BY <2>5 DEF R!PurgeBegins, R!Begins, R!Idle
  <2> QED
    BY <1>2, <2>2, <2>3, <2>4, <2>5
<1>3. CASE R!SizeBegins
  <2>1. sweep' = [R!Idle EXCEPT !.kind = "size", !.span = R!Span,
                              !.want = Cardinality(R!Stored) - Target, !.had = R!Stored,
                              !.next = topId]
    BY <1>3, SweepCounts DEF R!SizeBegins, R!Begins
  <2>2. /\ sweep'.want = Cardinality(R!Stored) - Target /\ sweep'.got = 0 /\ ~sweep'.forced
        /\ sweep'.had = R!Stored /\ sweep'.next = topId
    BY <2>1 DEF R!Idle
  <2>3. topId' = topId /\ R!Stored' = R!Stored
    BY <1>3 DEF R!SizeBegins, R!Stored
  <2>4. topId \in Int /\ Cardinality(R!Stored) \in Nat
    BY StoredFinite, FS_CardinalityType DEF SweepTypes
  <2> QED
    BY <2>2, <2>3, <2>4, SweepAssumption DEF Trimmed, SweepTypes
<1>4. CASE R!TrimChunk
  BY <1>4, TrimChunkTrims
<1>5. CASE R!TrimForces
  <2>1. /\ sweep.kind = "size" /\ R!Oldest = {} /\ ~sweep.forced /\ sweep.span # R!None
        /\ sweep' = [sweep EXCEPT !.forced = TRUE] /\ topId' = topId
    BY <1>5 DEF R!TrimForces
  <2>2. R!Stored' = R!Stored
    BY <1>5 DEF R!TrimForces, R!Stored
  <2>3. \A i \in R!Stored : R!In(i, sweep.span)
    <3>1. /\ {i \in R!Stored : i < sweep.span[1]} = {}
          /\ {i \in R!Stored : i > sweep.span[2]} = {}
      BY <2>1 DEF R!Oldest
    <3>2. \A i \in R!Stored : i \in Int
      BY StoredFinite DEF R!Id
    <3>3. sweep.span[1] \in Int /\ sweep.span[2] \in Int
      BY DEF SweepTypes, Spans
    <3> QED
      BY <3>1, <3>2, <3>3 DEF R!In
  <2>4. /\ sweep'.kind = "size" /\ sweep'.next = sweep.next /\ sweep'.had = sweep.had
        /\ sweep'.forced /\ sweep'.span = sweep.span /\ sweep'.want = sweep.want
        /\ sweep'.got = sweep.got
    BY <2>1 DEF SweepTypes
  <2> QED
    BY <2>1, <2>2, <2>3, <2>4 DEF Trimmed, R!In
<1> QED
  BY <1>1, <1>2, <1>3, <1>4, <1>5 DEF R!Next, Trimmed

LEMMA TrimmedSpares == ASSUME SweepTypes, Trimmed PROVE R!TrimSparesProtected
BY DEF Trimmed, R!TrimSparesProtected

LEMMA TrimmedCaps ==
  ASSUME SweepTypes, Trimmed, sweep.kind = "size", R!TrimEnds
  PROVE  Cardinality(R!Stored) <= Target + (topId - sweep.next)
<1>1. CASE sweep.got = sweep.want
  <2>1. Cardinality(R!Stored) \in Nat /\ sweep.got \in Int /\ sweep.want \in Int
    BY StoredFinite, FS_CardinalityType DEF SweepTypes
  <2> QED
    BY <1>1, <2>1, SweepAssumption DEF Trimmed, SweepTypes
<1>2. CASE R!Oldest = {} /\ (sweep.forced \/ sweep.span = R!None)
  <2>1. R!Stored = {}
    BY <1>2 DEF R!Oldest
  <2>2. Cardinality(R!Stored) = 0
    BY <2>1, FS_EmptySet
  <2> QED
    BY <2>2, SweepAssumption DEF Trimmed, SweepTypes
<1> QED
  BY <1>1, <1>2 DEF R!TrimEnds

-------------------------------------------------------------------------------
(* The age sweep. *)

LEMMA WalksStep == ASSUME SweepTypes, Walks, [R!Next]_(R!vars) PROVE Walks'
<1>1. CASE R!AgeBegins
  <2>1. sweep' = [R!Idle EXCEPT !.kind = "age", !.cutoff = clock - Days, !.span = R!Span,
                              !.since = R!Since(R!Span), !.from = lastAge]
    BY <1>1 DEF R!AgeBegins, R!Begins
  <2>2. sweep'.since = R!Since(R!Span) /\ sweep'.span = R!Span /\ sweep'.from = lastAge
    BY <2>1 DEF R!Idle
  <2> QED
    <3>1. lastAge[2] \in Spans /\ R!Span \in Spans
      BY SpanTyped DEF SweepTypes
    <3>2. \/ R!Since(R!Span) = 0
          \/ /\ R!Since(R!Span) = lastAge[1]
             /\ \/ lastAge[2] = R!None
                \/ /\ R!Span # R!None
                   /\ R!Span[1] <= lastAge[2][1] /\ R!Span[2] >= lastAge[2][2]
      BY DEF R!Since
    <3> QED
      BY <2>2, <3>2 DEF Walks
<1>2. ASSUME R!TrimChunk \/ R!TrimForces PROVE sweep'.kind = "size"
  BY <1>2 DEF R!TrimChunk, R!TrimForces, SweepTypes
<1>3. ASSUME R!AgeEnds \/ R!TrimEnds \/ R!PurgeEnds \/ R!Refused PROVE sweep'.kind = "idle"
  BY <1>3 DEF R!AgeEnds, R!TrimEnds, R!PurgeEnds, R!Refused, R!Idle
<1>4. ASSUME R!SizeBegins \/ R!PurgeBegins PROVE sweep'.kind # "age"
  BY <1>4 DEF R!SizeBegins, R!PurgeBegins, R!Begins, R!Idle
<1>5. ASSUME R!Commit \/ R!Hold \/ R!LandHeld \/ R!Tick \/ R!SessionStarts \/ R!SessionEnds
               \/ R!AgeChunk
               \/ R!SessionForgotten \/ R!SetMinSessions \/ R!PurgeChunk \/ UNCHANGED R!vars
      PROVE  sweep' = sweep
  BY <1>5 DEF R!Commit, R!Hold, R!LandHeld, R!Tick, R!SessionStarts, R!SessionEnds,
     R!SessionForgotten, R!SetMinSessions, R!AgeChunk, R!PurgeChunk, R!vars
<1> QED
  BY <1>1, <1>2, <1>3, <1>4, <1>5 DEF R!Next, Walks

(* Rows that go, or stay, keep what was marked. *)
LEMMA MarkKept ==
  ASSUME R!WalkMarkHolds, R!Stored' \subseteq R!Stored,
         \A i \in R!Stored' : stamps'[i] = stamps[i],
         late \subseteq late', lastAge' = lastAge
  PROVE  R!WalkMarkHolds'
BY DEF R!WalkMarkHolds, R!In

LEMMA MarkOfLanded ==
  ASSUME SweepTypes, R!WalkMarkHolds, NEW t \in R!Stamp, R!Lands(t), late \subseteq late',
         \/ lastAge' = R!StampChecked(t)
         \/ lastAge' = lastAge /\ (lastAge # R!NoWalk /\ t < lastAge[1] => topId \in late')
  PROVE  R!WalkMarkHolds'
<1>1. /\ R!Stored' = R!Stored \cup {topId} /\ stamps'[topId] = t
      /\ \A i \in R!Stored : stamps'[i] = stamps[i]
  BY LandedRow
<1>2. SUFFICES ASSUME lastAge' # R!NoWalk, NEW i \in R!Stored' \ late', stamps'[i] < lastAge'[1]
               PROVE  R!In(i, lastAge'[2])
  BY DEF R!WalkMarkHolds, R!In
<1>3. lastAge' = lastAge
  BY <1>2 DEF R!StampChecked
<1>4. CASE i = topId
  BY <1>1, <1>2, <1>3, <1>4 DEF R!StampChecked
<1>5. CASE i \in R!Stored
  BY <1>1, <1>2, <1>3, <1>5 DEF R!WalkMarkHolds
<1> QED
  BY <1>1, <1>4, <1>5

LEMMA AgeEndsMarked == ASSUME SweepTypes, Walks, R!WalkMarkHolds, R!AgeEnds PROVE R!WalkMarkHolds'
<1>1. /\ R!Stored' = R!Stored \ R!Expired /\ \A i \in R!Stored' : stamps'[i] = stamps[i]
      /\ sweep.kind = "age" /\ late' = late
  BY GoneRows DEF R!AgeEnds, R!Expired
<1>2. CASE lastAge # sweep.from
  BY <1>1, <1>2, MarkKept DEF R!AgeEnds
<1>3. CASE lastAge = sweep.from
  <2>1. lastAge' = <<sweep.cutoff, sweep.span>>
    BY <1>3 DEF R!AgeEnds
  <2>2. SUFFICES ASSUME NEW i \in R!Stored \ late, i \notin R!Expired, stamps[i] < sweep.cutoff
                 PROVE  R!In(i, sweep.span)
    BY <1>1, <2>1 DEF R!WalkMarkHolds, R!In
  <2>3. /\ i \in Int /\ stamps[i] \in Int /\ stamps[i] > 0 /\ sweep.since \in Int
        /\ sweep.span \in Spans /\ lastAge[1] \in Int /\ lastAge[2] \in Spans
    BY SweepAssumption DEF SweepTypes, R!Stored, R!Id
  <2>4. CASE stamps[i] >= sweep.since
    BY <2>2, <2>4 DEF R!Expired
  <2>5. CASE stamps[i] < sweep.since
    <3>1. /\ sweep.since = lastAge[1]
          /\ \/ lastAge[2] = R!None
             \/ sweep.span[1] <= lastAge[2][1] /\ sweep.span[2] >= lastAge[2][2]
      BY <1>1, <1>3, <2>3, <2>5 DEF Walks
    <3>2. lastAge # R!NoWalk
      BY <2>3, <2>5, <3>1 DEF R!NoWalk
    <3>3. R!In(i, lastAge[2])
      BY <2>2, <2>5, <3>1, <3>2 DEF R!WalkMarkHolds
    <3>4. lastAge[2] # R!None
      BY <2>3, <3>3, NoneHoldsNothing
    <3> QED
      BY <2>3, <3>1, <3>3, <3>4 DEF R!In, Spans
  <2> QED
    BY <2>3, <2>4, <2>5
<1> QED
  BY <1>2, <1>3

LEMMA MarkStep == ASSUME SweepTypes, Walks, R!WalkMarkHolds, [R!Next]_(R!vars)
                  PROVE  R!WalkMarkHolds'
<1>1. CASE R!Commit
  <2>1. PICK t \in 1 .. clock : R!Lands(t) /\ lastAge' = R!StampChecked(t)
    BY <1>1 DEF R!Commit
  <2>2. t \in R!Stamp /\ late' = late
    BY <1>1, Stamps DEF R!Commit
  <2> QED
    BY <2>1, <2>2, MarkOfLanded
<1>2. CASE R!SessionEnds
  <2>1. clock \in R!Stamp /\ R!Lands(clock) /\ lastAge' = R!StampChecked(clock) /\ late' = late
    BY <1>2 DEF R!SessionEnds, SweepTypes
  <2> QED
    BY <2>1, MarkOfLanded
<1>3. CASE R!Hold
  BY <1>3 DEF R!Hold, R!WalkMarkHolds, R!StampChecked, R!Stored, R!In
<1>4. CASE R!LandHeld
  <2>1. heldBack \in R!Stamp /\ R!Lands(heldBack) /\ lastAge' = lastAge
    BY <1>4, Stamps DEF R!LandHeld
  <2>2. late \subseteq late' /\ (lastAge # R!NoWalk /\ heldBack < lastAge[1] => topId \in late')
    BY <1>4 DEF R!LandHeld
  <2> QED
    BY <2>1, <2>2, MarkOfLanded
<1>5. CASE R!AgeEnds
  BY <1>5, AgeEndsMarked
<1>6. ASSUME R!AgeChunk \/ R!TrimChunk \/ R!PurgeChunk PROVE R!WalkMarkHolds'
  <2>1. \E ids \in SUBSET R!Stored : stamps' = R!Without(ids)
    BY <1>6, FirstsAreSome, TrimTakes DEF R!AgeChunk, R!PurgeChunk, R!Expired, R!Purged
  <2>2. lastAge' = lastAge /\ late' = late
    BY <1>6 DEF R!AgeChunk, R!PurgeChunk, R!TrimChunk
  <2> QED
    BY <2>1, <2>2, GoneRows, MarkKept
<1>7. ASSUME R!Tick \/ R!SessionStarts \/ R!SessionForgotten \/ R!SetMinSessions
               \/ R!AgeBegins \/ R!SizeBegins
               \/ R!TrimForces \/ R!TrimEnds \/ R!PurgeBegins \/ R!PurgeEnds \/ R!Refused
                    \/ UNCHANGED R!vars
      PROVE  R!WalkMarkHolds'
  BY <1>7 DEF R!Tick, R!SessionStarts, R!SessionForgotten, R!SetMinSessions, R!AgeBegins,
     R!SizeBegins,
     R!TrimForces, R!TrimEnds, R!PurgeBegins, R!PurgeEnds, R!Refused, R!vars, R!WalkMarkHolds,
     R!Stored, R!In
<1> QED
  BY <1>1, <1>2, <1>3, <1>4, <1>5, <1>6, <1>7 DEF R!Next

-------------------------------------------------------------------------------
(* The counts. *)

LEMMA AnnouncedStep == ASSUME SweepTypes, Announced, [R!Next]_(R!vars) PROVE Announced'
<1>1. ASSUME NEW k \in R!Counted, NEW n \in Int, R!Counts(k, n)
      PROVE  Announced'
  BY <1>1 DEF R!Counts, Announced
<1>2. ASSUME NEW k \in R!Counted, NEW n \in Int, R!Report(k, n)
      PROVE  Announced'
  BY <1>1, <1>2 DEF R!Report, Announced
<1>3. CASE R!AgeChunk
  BY <1>1, <1>3, SweepAssumption DEF R!AgeChunk, R!Counted
<1>4. CASE R!AgeEnds
  <2>1. Cardinality(R!Expired) \in Int
    BY StoredFinite, FS_Subset, FS_CardinalityType DEF R!Expired
  <2> QED
    BY <1>2, <1>4, <2>1, SweepCounts DEF R!AgeEnds, R!Counted
<1>5. CASE R!TrimChunk
  <2>1. PICK n \in Int : R!Counts("size", n)
    <3> DEFINE rest == sweep.want - sweep.got
               ids == R!FirstById(R!Oldest, IF rest < SweepChunk THEN rest ELSE SweepChunk)
    <3>1. R!Counts("size", Cardinality(ids))
      BY <1>5, SweepCounts DEF R!TrimChunk
    <3>2. ids \subseteq R!Stored
      BY FirstsAreSome DEF R!Oldest
    <3>3. Cardinality(ids) \in Int
      BY <3>2, StoredFinite, FS_Subset, FS_CardinalityType
    <3> QED
      BY <3>1, <3>3
  <2> QED
    BY <1>1, <2>1 DEF R!Counted
<1>6. CASE R!TrimEnds
  BY <1>2, <1>6 DEF R!TrimEnds, R!Counted
<1>7. CASE R!Refused
  <2>1. CASE sweep.kind = "purge"
    BY <1>7, <2>1 DEF R!Refused, R!countVars, Announced
  <2>2. CASE sweep.kind # "purge"
    BY <1>2, <1>7, <2>2 DEF R!Refused, SweepTypes, R!Sweeps
  <2> QED
    BY <2>1, <2>2
<1>8. ASSUME ~R!AgeChunk, ~R!AgeEnds, ~R!TrimChunk, ~R!TrimEnds, ~R!Refused
      PROVE  UNCHANGED R!countVars
  BY <1>8 DEF R!Next, R!vars, R!Commit, R!Hold, R!LandHeld, R!Tick, R!SessionStarts,
     R!SessionEnds,
     R!SessionForgotten, R!SetMinSessions, R!AgeBegins, R!SizeBegins, R!TrimForces,
     R!PurgeBegins, R!PurgeChunk, R!PurgeEnds, R!countVars
<1> QED
  BY <1>3, <1>4, <1>5, <1>6, <1>7, <1>8 DEF Announced, R!countVars

SweepInv == SweepTypes /\ Trimmed /\ Walks /\ R!WalkMarkHolds /\ Announced

LEMMA SweepStart == R!Init => SweepInv
<1> SUFFICES ASSUME R!Init PROVE SweepInv
  OBVIOUS
<1>1. SweepTypes
  BY SweepTypesStart
<1>2. Trimmed /\ Walks
  BY DEF R!Init, Trimmed, Walks, R!Idle
<1>3. R!WalkMarkHolds /\ Announced
  BY DEF R!Init, R!WalkMarkHolds, Announced, R!Counted
<1> QED
  BY <1>1, <1>2, <1>3 DEF SweepInv

LEMMA SweepStep == SweepInv /\ [R!Next]_(R!vars) => SweepInv'
BY SweepTypesStep, TrimmedStep, WalksStep, MarkStep, AnnouncedStep DEF SweepInv

LEMMA SweepShows ==
  SweepInv => R!TypeOK /\ R!TrimSparesProtected /\ R!LossesAreAnnounced /\ R!WalkMarkHolds
<1> SUFFICES ASSUME SweepInv
             PROVE  R!TypeOK /\ R!TrimSparesProtected /\ R!LossesAreAnnounced /\ R!WalkMarkHolds
  OBVIOUS
<1>1. R!TypeOK
  <2>1. SweepTypes
    BY DEF SweepInv
  <2>2. running \in 0 .. MaxSweptId + 1
    BY <2>1, SweepAssumption DEF SweepTypes
  <2> QED
    BY <2>1, <2>2 DEF SweepTypes, R!TypeOK
<1> QED
  BY <1>1, TrimmedSpares DEF SweepInv, Announced, R!LossesAreAnnounced

-------------------------------------------------------------------------------
LEMMA TopOfBounded ==
  ASSUME NEW Z \in SUBSET Nat, Z # {}, NEW B \in Nat, \A x \in Z : x <= B
  PROVE  \E m \in Z : \A x \in Z : m >= x
<1> DEFINE U == {b \in Nat : \A x \in Z : x <= b}
<1>1. U # {} /\ U \subseteq Nat
  OBVIOUS
<1>2. PICK m \in U : \A y \in U : <<y, m>> \notin OpToRel(<, Nat)
  <2> HIDE DEF U
  <2> QED  BY <1>1, WFMin, NatLessThanWellFounded
<1>3. m \in Nat /\ (\A x \in Z : x \in Nat /\ x <= m)
  OBVIOUS
<1>4. \A y \in Nat : y \in U => ~(y < m)
  <2>1. ASSUME NEW y \in Nat, y < m PROVE <<y, m>> \in OpToRel(<, Nat)
    BY <1>3, <2>1 DEF OpToRel
  <2> HIDE DEF U
  <2> QED  BY <1>2, <2>1
<1>5. m \in Z
  <2>1. SUFFICES ASSUME m \notin Z PROVE FALSE
    OBVIOUS
  <2>2. \A x \in Z : x <= m - 1
    BY <1>3, <2>1
  <2>3. m - 1 \in Nat
    <3>1. PICK x \in Z : TRUE
      OBVIOUS
    <3>2. x \in Nat /\ x <= m - 1
      BY <1>3, <2>2
    <3> QED  BY <1>3, <3>2
  <2>4. m - 1 \in U
    BY <2>2, <2>3
  <2> QED  BY <1>3, <1>4, <2>3, <2>4
<1>6. \A x \in Z : m >= x
  BY <1>3
<1>7. \E x \in Z : \A y \in Z : x >= y
  BY <1>5, <1>6
<1> QED  BY <1>7

Pcs == {"idle", "lock", "stopLock", "ending", "draining", "opening", "deleting", "greeting"}
Acts == [op : {"none", "start", "stop", "delete", "auto", "close"}, pc : Pcs, of : Nat, got : Nat,
         reopen : BOOLEAN, upTo : Nat]

SessionTypes ==
  /\ lines \in [S!Id -> [kind : S!Kinds \cup {"none"}, run : 0 .. MaxRuns]]
  /\ opened \in Nat
  /\ spans \subseteq [n : 1 .. opened, lo : 1 .. MaxSpanId + 1, hi : 0 .. MaxSpanId,
                      auto : BOOLEAN]
  /\ phase \in {"starting", "up", "closing", "down"}
  /\ freeId \in 1 .. MaxSpanId + 2 /\ run \in 0 .. MaxRuns /\ auto \in BOOLEAN
  /\ lock \in S!Actor \cup {S!Nobody} /\ stopLock \in Req \cup {S!Nobody}
  /\ act \in [S!Actor -> Acts]
  /\ queue \in Seq([kind : {"traffic", "host", "drain"}, a : S!Actor \cup {S!Nobody}])

(* The ids given out are below the next one, and sessions follow each other. *)
Ordered ==
  /\ \A i \in S!Stored : i < freeId
  /\ \A s \in spans : s.lo <= freeId /\ s.hi < freeId
  /\ \A s, t \in spans : s.n = t.n => s = t
  /\ \A s, t \in spans : s.n < t.n => s.hi # 0 /\ s.hi < t.lo

(* What runs by itself has rows of this run of the daemon only. *)
OwnRun == \A s \in S!Running : s.auto => \A i \in S!Stored : s.lo <= i => lines[i].run = run

Holds(a) == act[a].pc \in {"ending", "draining", "opening"}

(* What an actor knows of the sessions where it stands. *)
Doing(a) ==
  /\ Holds(a) => lock = a
  /\ act[a].pc = "draining" => S!Running = {}
  /\ act[a].pc = "ending" =>
       /\ \A s \in spans : s.hi = 0 <=> s.n = act[a].of
       /\ act[a].got # 0 =>
            /\ act[a].got < freeId
            /\ \A s \in S!Running : s.lo <= act[a].got
            /\ \A i \in S!Stored : act[a].got <= i => lines[i].run = run
  /\ act[a].pc = "greeting" => a = "daemon" /\ phase = "starting"

Phases ==
  /\ phase = "down" => queue = <<>> /\ \A a \in S!Actor : act[a].pc = "idle"
  /\ phase = "starting" => \A r \in Req : act[r].pc = "idle"
  /\ \/ freeId <= MaxSpanId + 1
     \/ phase = "down"
     \/ act["daemon"].pc = "greeting" /\ act["daemon"].got = 0

Awaited(l) ==
  IF l.a = S!Nobody THEN l.kind = "traffic"
  ELSE \/ l.a \in Req /\ act[l.a].pc = "idle" /\ phase = "closing"
       \/ /\ act[l.a].got = 0
          /\ \/ l.kind = "host" /\ act[l.a].pc \in {"greeting", "ending", "opening"}
             \/ l.kind = "drain" /\ act[l.a].pc = "draining"

Markers == {a \in S!Actor : \E k \in 1 .. Len(queue) : queue[k].a = a}

Queued ==
  /\ \A k \in 1 .. Len(queue) : Awaited(queue[k])
  /\ \A j, k \in 1 .. Len(queue) : queue[j].a = queue[k].a /\ queue[j].a # S!Nobody => j = k
  /\ Len(queue) <= QueueMax + Cardinality(Markers)

SessionInv ==
  /\ Ordered /\ OwnRun /\ S!NoLineBetweenRuns /\ S!AutoSessionOfOneRun
  /\ Phases /\ Queued /\ \A a \in S!Actor : Doing(a)
-------------------------------------------------------------------------------
(* The newest row and reference, and the session that runs. *)

LEMMA SpansCounted == \A T : S!Cardinality(T) = Cardinality(T)
BY DEF S!Cardinality, Cardinality

LEMMA ActorFacts ==
  /\ "daemon" \in S!Actor /\ Req \subseteq S!Actor /\ S!Nobody \notin S!Actor
  /\ \A r \in Req : r # "daemon"
  /\ IsFiniteSet(S!Actor) /\ Cardinality(S!Actor) \in Nat
<1>1. IsFiniteSet(Req \cup {"daemon"})
  BY SessionAssumption, FS_AddElement
<1>2. IsFiniteSet(S!Actor) /\ Cardinality(S!Actor) \in Nat
  BY <1>1, FS_CardinalityType DEF S!Actor
<1> QED
  BY <1>2, SessionAssumption DEF S!Actor, S!Nobody

LEMMA StoredIds ==
  S!Stored \subseteq S!Id /\ \A i \in S!Stored : i \in Nat /\ i <= MaxSpanId /\ i >= 1
BY SessionAssumption DEF S!Stored, S!Id

LEMMA TopIdIsTop ==
  /\ S!TopId \in 0 .. MaxSpanId /\ \A i \in S!Stored : i <= S!TopId
  /\ S!TopId # 0 => S!TopId \in S!Stored
<1> DEFINE U == {0} \cup S!Stored
<1>1. U \in SUBSET Nat /\ U # {} /\ \A x \in U : x <= MaxSpanId
  BY StoredIds, SessionAssumption
<1>2. \E m \in U : \A x \in U : m >= x
  BY <1>1, SessionAssumption, TopOfBounded
<1>3. S!TopId \in U /\ \A x \in U : S!TopId >= x
  BY <1>2 DEF S!TopId, S!Max
<1> QED
  BY <1>1, <1>3, StoredIds, SessionAssumption

LEMMA TopRefIsTop ==
  ASSUME SessionTypes
  PROVE  /\ S!TopRef \in 0 .. MaxSpanId + 1
         /\ \A s \in spans : s.lo <= S!TopRef /\ s.hi <= S!TopRef
<1> DEFINE U == {0} \cup {s.lo : s \in spans} \cup {s.hi : s \in spans}
<1>1. \A s \in spans : s.lo \in 0 .. MaxSpanId + 1 /\ s.hi \in 0 .. MaxSpanId + 1
  BY SessionAssumption DEF SessionTypes
<1>2. U \in SUBSET Nat /\ U # {} /\ \A x \in U : x <= MaxSpanId + 1
  BY <1>1, SessionAssumption
<1>3. \E m \in U : \A x \in U : m >= x
  <2> HIDE DEF U
  <2>1. MaxSpanId + 1 \in Nat
    BY SessionAssumption
  <2> QED
    BY <1>2, <2>1, TopOfBounded
<1>4. S!TopRef \in U /\ \A x \in U : S!TopRef >= x
  BY <1>3 DEF S!TopRef, S!Max
<1>5. S!TopRef \in 0 .. MaxSpanId + 1
  BY <1>2, <1>4, SessionAssumption
<1>6. ASSUME NEW s \in spans PROVE s.lo <= S!TopRef /\ s.hi <= S!TopRef
  <2>1. s.lo \in U /\ s.hi \in U
    OBVIOUS
  <2> HIDE DEF U
  <2> QED
    BY <1>1, <1>4, <1>5, <2>1, SessionAssumption
<1> QED
  BY <1>5, <1>6

LEMMA TopOfBoth ==
  ASSUME SessionTypes
  PROVE  LET top == S!Max({S!TopId, S!TopRef}) IN
         top \in 0 .. MaxSpanId + 1 /\ top >= S!TopId /\ top >= S!TopRef
<1>1. S!TopId \in Nat /\ S!TopRef \in Nat /\ S!TopId <= MaxSpanId + 1 /\ S!TopRef <= MaxSpanId + 1
  BY TopIdIsTop, TopRefIsTop, SessionAssumption
<1>2. \E m \in {S!TopId, S!TopRef} : \A x \in {S!TopId, S!TopRef} : m >= x
  <2>1. CASE S!TopId <= S!TopRef
    BY <1>1, <2>1
  <2>2. CASE S!TopRef <= S!TopId
    BY <1>1, <2>2
  <2> QED
    BY <1>1, <2>1, <2>2
<1>3. /\ S!Max({S!TopId, S!TopRef}) \in {S!TopId, S!TopRef}
      /\ \A x \in {S!TopId, S!TopRef} : S!Max({S!TopId, S!TopRef}) >= x
  BY <1>2 DEF S!Max
<1> QED
  BY <1>1, <1>3, SessionAssumption

LEMMA SessionTyped ==
  ASSUME SessionTypes, NEW s \in spans
  PROVE  /\ s \in [n : 1 .. opened, lo : 1 .. MaxSpanId + 1, hi : 0 .. MaxSpanId, auto : BOOLEAN]
         /\ s.n \in Nat /\ s.n >= 1 /\ s.n <= opened /\ s.lo \in Nat /\ s.lo >= 1
         /\ s.lo <= MaxSpanId + 1 /\ s.hi \in Nat /\ s.hi <= MaxSpanId /\ s.auto \in BOOLEAN
         /\ opened \in Nat /\ freeId \in Nat
BY SessionAssumption DEF SessionTypes

LEMMA OneRuns ==
  ASSUME SessionTypes, Ordered
  PROVE  /\ \A s, t \in S!Running : s = t
         /\ S!Active = S!Running
         /\ \A s \in S!Running, t \in spans : t # s => t.n < s.n /\ t.hi # 0 /\ t.hi < s.lo
<1>1. ASSUME NEW s \in S!Running, NEW t \in spans, t # s
      PROVE  t.n < s.n /\ t.hi # 0 /\ t.hi < s.lo
  <2>1. s \in spans /\ s.hi = 0
    BY DEF S!Running
  <2>2. s.n \in Nat /\ t.n \in Nat /\ s.n # t.n
    BY <1>1, <2>1, SessionTyped DEF Ordered
  <2>3. ~(s.n < t.n)
    BY <2>1 DEF Ordered
  <2> QED
    BY <2>1, <2>2, <2>3 DEF Ordered
<1>2. \A s, t \in S!Running : s = t
  BY <1>1 DEF S!Running
<1>3. \A s \in S!Running : s.n <= s.n
  BY SessionTyped DEF S!Running
<1> QED
  BY <1>1, <1>2, <1>3 DEF S!Active

-------------------------------------------------------------------------------
(* The types. *)

LEMMA ActTyped ==
  ASSUME SessionTypes, NEW a \in S!Actor
  PROVE  act[a] \in Acts
BY DEF SessionTypes

LEMMA RestTyped == S!Rest \in Acts
BY DEF S!Rest, Acts, Pcs

LEMMA LeavesTyped ==
  ASSUME SessionTypes, NEW a \in S!Actor, S!Leaves(a)
  PROVE  /\ act' \in [S!Actor -> Acts] /\ lock' \in S!Actor \cup {S!Nobody}
         /\ stopLock' \in Req \cup {S!Nobody}
BY RestTyped DEF SessionTypes, S!Leaves

LEMMA WaitsTyped ==
  ASSUME SessionTypes, NEW a \in S!Actor,
         NEW op \in {"none", "start", "stop", "delete", "auto", "close"},
         S!Waits(a, op)
  PROVE  act' \in [S!Actor -> Acts]
<1>1. [S!Rest EXCEPT !.op = op, !.pc = "lock"] \in Acts
  BY DEF S!Rest, Acts, Pcs
<1> QED
  BY <1>1 DEF SessionTypes, S!Waits

LEMMA StartAutoIfTyped ==
  ASSUME SessionTypes, NEW r \in S!Actor, NEW isOn, NEW those, S!StartAutoIf(r, isOn, those)
  PROVE  act' \in [S!Actor -> Acts]
BY WaitsTyped, RestTyped DEF S!StartAutoIf, SessionTypes

Lined == [kind : {"traffic", "host", "drain"}, a : S!Actor \cup {S!Nobody}]

LEMMA DrainsTyped ==
  ASSUME SessionTypes, NEW a \in S!Actor, S!Drains(a)
  PROVE  act' \in [S!Actor -> Acts] /\ queue' \in Seq(Lined)
<1>1. [act[a] EXCEPT !.pc = "draining", !.got = 0] \in Acts
  BY ActTyped DEF Acts, Pcs
<1>2. S!Line("drain", a) \in Lined
  BY DEF S!Line, Lined
<1> QED
  BY <1>1, <1>2 DEF S!Drains, SessionTypes, Lined

LEMMA OpenTyped ==
  ASSUME SessionTypes, NEW a \in S!Actor, NEW lo \in 1 .. MaxSpanId + 1,
         NEW kept \in SUBSET [n : 1 .. opened, lo : 1 .. MaxSpanId + 1, hi : 0 .. MaxSpanId,
                              auto : BOOLEAN],
         S!OpenAt(a, lo, kept)
  PROVE  /\ opened' \in Nat /\ act' \in [S!Actor -> Acts] /\ queue' \in Seq(Lined)
         /\ spans' \subseteq [n : 1 .. opened', lo : 1 .. MaxSpanId + 1, hi : 0 .. MaxSpanId,
                                 auto : BOOLEAN]
<1> DEFINE new == [n |-> opened + 1, lo |-> lo, hi |-> 0, auto |-> act[a].op # "start"]
<1>1. [act[a] EXCEPT !.pc = "opening", !.got = 0] \in Acts
  BY ActTyped DEF Acts, Pcs
<1>2. S!Line("host", a) \in Lined
  BY DEF S!Line, Lined
<1>3. opened \in Nat /\ opened' = opened + 1 /\ 1 .. opened \subseteq 1 .. opened'
  BY DEF S!OpenAt, SessionTypes
<1>4. new \in [n : 1 .. opened', lo : 1 .. MaxSpanId + 1, hi : 0 .. MaxSpanId, auto : BOOLEAN]
  BY <1>3, SessionAssumption
<1>5. kept \subseteq [n : 1 .. opened', lo : 1 .. MaxSpanId + 1, hi : 0 .. MaxSpanId,
                      auto : BOOLEAN]
  BY <1>3
<1>6. spans' = kept \cup {new}
  BY DEF S!OpenAt
<1>7. act' \in [S!Actor -> Acts] /\ queue' \in Seq(Lined)
  BY <1>1, <1>2 DEF S!OpenAt, SessionTypes, Lined
<1> HIDE DEF new
<1>8. opened' \in Nat
  BY <1>3
<1> QED
  BY <1>4, <1>5, <1>6, <1>7, <1>8

LEMMA QueueLined == ASSUME SessionTypes PROVE queue \in Seq(Lined)
BY DEF SessionTypes, Lined

LEMMA DropTyped ==
  ASSUME SessionTypes, NEW r \in S!Actor, NEW n, S!DropLabel(r, n)
  PROVE  act' \in [S!Actor -> Acts] /\ spans' \subseteq spans
<1>1. S!StartAutoIf(r, auto, {t \in S!Running : t.n # n}) /\ spans' = {t \in spans : t.n # n}
  BY DEF S!DropLabel
<1> QED
  BY <1>1, StartAutoIfTyped

(* What ends is in the file at the marker's id, or dropped. *)
Kept(a) ==
  LET closed == {s \in spans : s.n = act[a].of}
      keeps  == {s \in closed : ~s.auto \/ S!CapturedTraffic(s, act[a].got)}
  IN (spans \ closed) \cup {[s EXCEPT !.hi = act[a].got] : s \in keeps}

LEMMA EndedTyped ==
  ASSUME SessionTypes, NEW a \in S!Actor, act[a].got \in 0 .. MaxSpanId
  PROVE  Kept(a) \subseteq
           [n : 1 .. opened, lo : 1 .. MaxSpanId + 1, hi : 0 .. MaxSpanId, auto : BOOLEAN]
<1>1. ASSUME NEW s \in spans
      PROVE  [s EXCEPT !.hi = act[a].got]
               \in [n : 1 .. opened, lo : 1 .. MaxSpanId + 1, hi : 0 .. MaxSpanId, auto : BOOLEAN]
  BY SessionTyped
<1> QED
  BY <1>1 DEF Kept, SessionTypes

(* What an end does: a session follows, none does, or it was gone already. *)
LEMMA EndDoes ==
  ASSUME NEW a \in S!Actor, S!EndResumes(a)
  PROVE  /\ act[a].pc = "ending" /\ act[a].got # 0
         /\ UNCHANGED <<lines, phase, freeId, run, auto, calls>>
         /\ \/ /\ \E s \in spans : s.n = act[a].of
               /\ S!OpenAt(a, act[a].got + 1, Kept(a)) /\ UNCHANGED stray
            \/ /\ \E s \in spans : s.n = act[a].of
               /\ spans' = Kept(a) /\ stray' = stray \cup {i \in S!Stored : i > act[a].got}
               /\ S!Leaves(a) /\ UNCHANGED <<opened, queue>>
            \/ /\ ~\E s \in spans : s.n = act[a].of
               /\ S!Drains(a) /\ UNCHANGED <<spans, opened, S!lockVars, stray>>
            \/ /\ ~\E s \in spans : s.n = act[a].of
               /\ S!Leaves(a) /\ UNCHANGED <<spans, opened, queue, stray>>
BY DEF S!EndResumes, Kept, S!Successor

(* Past the start row, ids are left to give out.                            *)
LEMMA IdsLeft ==
  ASSUME SessionTypes, Phases, NEW a \in S!Actor, Doing("daemon"),
         act[a].pc \notin {"idle", "greeting"}
  PROVE  freeId <= MaxSpanId + 1
<1>1. phase # "down"
  BY DEF Phases
<1>2. ASSUME act["daemon"].pc = "greeting" PROVE FALSE
  <2>1. phase = "starting"
    BY <1>2 DEF Doing
  <2>2. a \in Req
    BY <1>2 DEF S!Actor
  <2> QED
    BY <2>1, <2>2 DEF Phases
<1> QED
  BY <1>1, <1>2 DEF Phases

LEMMA MarkerBelow ==
  ASSUME SessionTypes, Phases, NEW a \in S!Actor, Doing(a), Doing("daemon"),
         act[a].pc = "ending", act[a].got # 0
  PROVE  act[a].got \in 1 .. MaxSpanId /\ freeId <= MaxSpanId + 1
<1>1. freeId <= MaxSpanId + 1
  BY IdsLeft
<1>2. act[a].got \in Nat /\ act[a].got < freeId
  BY ActTyped DEF Doing, Acts
<1> QED
  BY <1>1, <1>2, SessionAssumption DEF SessionTypes

LEMMA HeadLined ==
  ASSUME SessionTypes, queue # <<>>
  PROVE  Head(queue) \in Lined /\ Tail(queue) \in Seq(Lined)
BY QueueLined

LEMMA SessionTypesStart == S!Init => SessionTypes
<1> SUFFICES ASSUME S!Init PROVE SessionTypes
  OBVIOUS
<1>1. lines \in [S!Id -> [kind : S!Kinds \cup {"none"}, run : 0 .. MaxRuns]]
  BY SessionAssumption DEF S!Init, S!NoRow, S!Kinds
<1>2. act \in [S!Actor -> Acts]
  BY RestTyped DEF S!Init
<1> QED
  BY <1>1, <1>2, SessionAssumption DEF S!Init, SessionTypes

LEMMA WrittenTyped ==
  ASSUME SessionTypes, Queued, S!Written
  PROVE  SessionTypes'
<1> DEFINE l == Head(queue)
<1>1. l \in Lined /\ queue' \in Seq(Lined)
  BY HeadLined DEF S!Written
<1>2. lines' \in [S!Id -> [kind : S!Kinds \cup {"none"}, run : 0 .. MaxRuns]]
  <2>1. CASE l.kind = "drain"
    BY <2>1 DEF S!Written, SessionTypes
  <2>2. CASE l.kind # "drain"
    <3>1. l.kind \in S!Kinds
      BY <1>1, <2>2 DEF Lined, S!Kinds
    <3>2. [kind |-> l.kind, run |-> run] \in [kind : S!Kinds \cup {"none"}, run : 0 .. MaxRuns]
      BY <3>1 DEF SessionTypes
    <3>3. lines' = [lines EXCEPT ![freeId] = [kind |-> l.kind, run |-> run]]
      BY <2>2 DEF S!Written
    <3> QED
      BY <3>2, <3>3 DEF SessionTypes
  <2> QED
    BY <2>1, <2>2
<1>3. freeId' \in 1 .. MaxSpanId + 2
  BY SessionAssumption DEF S!Written, SessionTypes
<1>4. act' \in [S!Actor -> Acts]
  <2>1. CASE l.a = S!Nobody \/ act[l.a].pc = "idle"
    BY <2>1 DEF S!Written, SessionTypes
  <2>2. CASE ~(l.a = S!Nobody \/ act[l.a].pc = "idle")
    <3> DEFINE n == IF l.kind = "drain" THEN 1 ELSE freeId
    <3>1. l.a \in S!Actor /\ n \in Nat
      BY <1>1, <2>2 DEF Lined, SessionTypes
    <3>2. act' = [act EXCEPT ![l.a].got = n]
      BY <2>2 DEF S!Written
    <3> HIDE DEF n
    <3>3. [act[l.a] EXCEPT !.got = n] \in Acts
      BY <3>1, ActTyped DEF Acts
    <3> QED
      BY <3>1, <3>2, <3>3 DEF SessionTypes
  <2> QED
    BY <2>1, <2>2
<1>5. queue' \in Seq([kind : {"traffic", "host", "drain"}, a : S!Actor \cup {S!Nobody}])
  BY <1>1 DEF Lined
<1> QED
  BY <1>2, <1>3, <1>4, <1>5 DEF S!Written, SessionTypes, S!lockVars

LEMMA AcquireTyped ==
  ASSUME SessionTypes, NEW a \in S!Actor, S!Acquire(a)
  PROVE  SessionTypes'
<1>1. /\ act' \in [S!Actor -> Acts] /\ lock' \in S!Actor \cup {S!Nobody}
      /\ stopLock' \in Req \cup {S!Nobody} /\ queue' \in Seq(Lined)
  <2>1. CASE S!Active # {} /\ lock' = a /\ stopLock' = stopLock
             /\ (\E s \in S!Active : act' = [act EXCEPT ![a].pc = "ending", ![a].of = s.n,
                                             ![a].got = 0])
             /\ queue' = Append(queue, S!Line("host", a))
    <3>1. PICK s \in spans :
            act' = [act EXCEPT ![a].pc = "ending", ![a].of = s.n, ![a].got = 0]
      BY <2>1 DEF S!Active, S!Running
    <3>2. [act[a] EXCEPT !.pc = "ending", !.of = s.n, !.got = 0] \in Acts
      BY ActTyped, SessionTyped DEF Acts, Pcs
    <3>3. act' \in [S!Actor -> Acts]
      BY <3>1, <3>2 DEF SessionTypes
    <3>4. S!Line("host", a) \in Lined
      BY DEF S!Line, Lined
    <3>5. queue' \in Seq(Lined)
      BY <2>1, <3>4, QueueLined
    <3> QED
      BY <2>1, <3>3, <3>5 DEF SessionTypes
  <2>2. CASE S!Active = {} /\ S!Opens(a) /\ lock' = a /\ stopLock' = stopLock /\ S!Drains(a)
    BY <2>2, DrainsTyped DEF SessionTypes
  <2>3. CASE S!Active = {} /\ ~S!Opens(a) /\ S!Leaves(a) /\ queue' = queue
    BY <2>3, LeavesTyped, QueueLined
  <2> QED
    BY <2>1, <2>2, <2>3 DEF S!Acquire
<1> QED
  BY <1>1 DEF S!Acquire, SessionTypes, Lined, S!fileVars

LEMMA EndTyped ==
  ASSUME SessionTypes, Phases, NEW a \in S!Actor, Doing(a), Doing("daemon"), S!EndResumes(a)
  PROVE  SessionTypes'
<1>1. act[a].pc = "ending" /\ act[a].got # 0 /\ act[a].got \in 1 .. MaxSpanId
  BY EndDoes, MarkerBelow
<1>2. act[a].got \in 0 .. MaxSpanId /\ act[a].got + 1 \in 1 .. MaxSpanId + 1
  BY <1>1, SessionAssumption
<1>3. /\ Kept(a) \subseteq [n : 1 .. opened, lo : 1 .. MaxSpanId + 1, hi : 0 .. MaxSpanId,
                            auto : BOOLEAN]
      /\ queue \in Seq(Lined)
  BY <1>2, EndedTyped, QueueLined
<1>4. /\ act' \in [S!Actor -> Acts] /\ lock' \in S!Actor \cup {S!Nobody}
      /\ stopLock' \in Req \cup {S!Nobody} /\ queue' \in Seq(Lined) /\ opened' \in Nat
      /\ spans' \subseteq [n : 1 .. opened', lo : 1 .. MaxSpanId + 1, hi : 0 .. MaxSpanId,
                              auto : BOOLEAN]
  <2>1. CASE S!OpenAt(a, act[a].got + 1, Kept(a))
    BY <1>2, <1>3, <2>1, OpenTyped DEF S!OpenAt, S!lockVars, SessionTypes
  <2>2. CASE spans' = Kept(a) /\ S!Leaves(a) /\ UNCHANGED <<opened, queue>>
    BY <1>3, <2>2, LeavesTyped DEF SessionTypes
  <2>3. CASE S!Drains(a) /\ UNCHANGED <<spans, opened, S!lockVars>>
    BY <2>3, DrainsTyped DEF S!lockVars, SessionTypes
  <2>4. CASE S!Leaves(a) /\ UNCHANGED <<spans, opened, queue>>
    BY <1>3, <2>4, LeavesTyped DEF SessionTypes
  <2> QED
    BY <2>1, <2>2, <2>3, <2>4, EndDoes
<1> QED
  BY <1>4, EndDoes DEF SessionTypes, Lined

LEMMA DrainEndTyped ==
  ASSUME SessionTypes, Phases, NEW a \in S!Actor, Doing("daemon"), S!DrainResumes(a)
  PROVE  SessionTypes'
<1>1. freeId \in 1 .. MaxSpanId + 1
  BY IdsLeft, SessionAssumption DEF S!DrainResumes, SessionTypes
<1>2. S!OpenAt(a, freeId, spans)
  BY DEF S!DrainResumes
<1>3. spans \in SUBSET [n : 1 .. opened, lo : 1 .. MaxSpanId + 1, hi : 0 .. MaxSpanId,
                        auto : BOOLEAN]
  BY DEF SessionTypes
<1>4. /\ opened' \in Nat /\ act' \in [S!Actor -> Acts] /\ queue' \in Seq(Lined)
      /\ spans' \subseteq [n : 1 .. opened', lo : 1 .. MaxSpanId + 1, hi : 0 .. MaxSpanId,
                              auto : BOOLEAN]
  BY <1>1, <1>2, <1>3, OpenTyped
<1> QED
  BY <1>2, <1>4 DEF SessionTypes, Lined, S!DrainResumes, S!OpenAt, S!lockVars

LEMMA DroppedTyped ==
  ASSUME SessionTypes, act' \in [S!Actor -> Acts], spans' \subseteq spans,
         UNCHANGED <<lines, opened, S!daemonVars, S!lockVars>>
  PROVE  SessionTypes'
BY DEF SessionTypes, S!daemonVars, S!lockVars

LEMMA RequestTyped ==
  ASSUME SessionTypes, NEW r \in Req,
         \/ S!CallStart(r) \/ S!CallStop(r) \/ S!StopAsks(r) \/ S!CallConfig(r) \/ S!Cancel(r)
         \/ S!CallDelete(r) \/ S!CallDeleteData(r) \/ S!DeleteChunk(r) \/ S!DeleteEnds(r)
  PROVE  SessionTypes'
<1> r \in S!Actor
  BY DEF S!Actor
<1>1. CASE S!CallStart(r)
  BY <1>1, WaitsTyped DEF S!CallStart, SessionTypes, S!fileVars, S!daemonVars, S!lockVars
<1>2. CASE S!CallStop(r)
  <2>1. [S!Rest EXCEPT !.op = "stop", !.pc = "stopLock"] \in Acts
    BY DEF S!Rest, Acts, Pcs
  <2> QED
    BY <1>2, <2>1 DEF S!CallStop, SessionTypes, S!fileVars, S!daemonVars, S!lockVars
<1>3. CASE S!StopAsks(r)
  <2>1. [act[r] EXCEPT !.pc = "lock", !.reopen = auto] \in Acts
    BY ActTyped DEF Acts, Pcs, SessionTypes
  <2> QED
    BY <1>3, <2>1, RestTyped DEF S!StopAsks, SessionTypes, S!fileVars, S!daemonVars
<1>4. CASE S!CallConfig(r)
  BY <1>4, StartAutoIfTyped DEF S!CallConfig, SessionTypes, S!fileVars, S!lockVars
<1>5. CASE S!Cancel(r)
  BY <1>5, LeavesTyped DEF S!Cancel, SessionTypes, S!fileVars, S!daemonVars
<1>6. CASE S!CallDelete(r)
  BY <1>6, DropTyped, DroppedTyped DEF S!CallDelete
<1>7. CASE S!CallDeleteData(r)
  <2>1. PICK s \in spans :
          act' = [act EXCEPT ![r] = [S!Rest EXCEPT !.op = "delete", !.pc = "deleting", !.of = s.n,
                    !.got = s.lo, !.upTo = IF s.hi = 0 THEN S!TopId ELSE s.hi]]
    BY <1>7 DEF S!CallDeleteData
  <2> DEFINE u == IF s.hi = 0 THEN S!TopId ELSE s.hi
  <2>2. u \in Nat /\ s.n \in Nat /\ s.lo \in Nat
    BY SessionTyped, TopIdIsTop, SessionAssumption
  <2> HIDE DEF u
  <2>3. [S!Rest EXCEPT !.op = "delete", !.pc = "deleting", !.of = s.n, !.got = s.lo, !.upTo = u]
          \in Acts
    BY <2>2 DEF S!Rest, Acts, Pcs
  <2>4. act' \in [S!Actor -> Acts]
    BY <2>1, <2>3 DEF u, SessionTypes
  <2> QED
    BY <1>7, <2>4 DEF S!CallDeleteData, SessionTypes, S!fileVars, S!daemonVars, S!lockVars
<1>8. CASE S!DeleteChunk(r)
  <2>1. S!NoRow \in [kind : S!Kinds \cup {"none"}, run : 0 .. MaxRuns]
    BY SessionAssumption DEF S!NoRow
  <2>2. lines' \in [S!Id -> [kind : S!Kinds \cup {"none"}, run : 0 .. MaxRuns]]
    BY <1>8, <2>1 DEF S!DeleteChunk, SessionTypes
  <2> QED
    BY <1>8, <2>2 DEF S!DeleteChunk, SessionTypes, S!daemonVars, S!lockVars
<1>9. CASE S!DeleteEnds(r)
  <2>1. act' \in [S!Actor -> Acts] /\ spans' \subseteq spans
    BY <1>9, DropTyped, StartAutoIfTyped DEF S!DeleteEnds
  <2> QED
    BY <1>9, <2>1, DroppedTyped DEF S!DeleteEnds
<1> QED
  BY <1>1, <1>2, <1>3, <1>4, <1>5, <1>6, <1>7, <1>8, <1>9

LEMMA ClosedTyped ==
  ASSUME SessionTypes
  PROVE  S!CrashedClosed(spans) \subseteq
           [n : 1 .. opened, lo : 1 .. MaxSpanId + 1, hi : 0 .. MaxSpanId, auto : BOOLEAN]
<1> DEFINE At(s) == IF S!TopId >= s.lo THEN S!TopId ELSE s.lo - 1
<1>1. ASSUME NEW s \in spans
      PROVE  [s EXCEPT !.hi = At(s)]
               \in [n : 1 .. opened, lo : 1 .. MaxSpanId + 1, hi : 0 .. MaxSpanId, auto : BOOLEAN]
  <2>1. At(s) \in 0 .. MaxSpanId
    BY SessionTyped, TopIdIsTop, SessionAssumption
  <2> HIDE DEF At
  <2> QED
    BY <2>1, SessionTyped
<1>2. {s \in S!Active : s.auto} \subseteq spans
  BY DEF S!Active, S!Running
<1> QED
  BY <1>1, <1>2 DEF S!CrashedClosed, SessionTypes

LEMMA RunTyped ==
  ASSUME SessionTypes, S!Start \/ S!Greeted \/ S!Shutdown \/ S!ShutdownCloses \/ S!Stopped
           \/ S!Killed
  PROVE  SessionTypes'
<1> "daemon" \in S!Actor
  BY ActorFacts
<1>1. CASE S!Start
  <2>1. [S!Rest EXCEPT !.op = "auto", !.pc = "greeting"] \in Acts
    BY DEF S!Rest, Acts, Pcs
  <2>2. act' \in [S!Actor -> Acts]
    BY <1>1, <2>1 DEF S!Start, SessionTypes
  <2>3. S!Line("host", "daemon") \in Lined
    BY DEF S!Line, Lined
  <2>4. queue' \in Seq(Lined)
    BY <1>1, <2>3 DEF S!Start
  <2>5. freeId' \in 1 .. MaxSpanId + 2
    <3> DEFINE top == S!Max({S!TopId, S!TopRef})
    <3>1. top \in 0 .. MaxSpanId + 1
      BY TopOfBoth
    <3>2. freeId' = top + 1
      BY <1>1 DEF S!Start
    <3> HIDE DEF top
    <3> QED
      BY <3>1, <3>2, SessionAssumption
  <2>6. run' \in 0 .. MaxRuns
    BY <1>1, SessionAssumption DEF S!Start, SessionTypes
  <2>7. spans' \subseteq [n : 1 .. opened, lo : 1 .. MaxSpanId + 1, hi : 0 .. MaxSpanId,
                          auto : BOOLEAN]
    BY <1>1, ClosedTyped DEF S!Start
  <2> QED
    BY <1>1, <2>2, <2>4, <2>5, <2>6, <2>7 DEF S!Start, SessionTypes, S!lockVars, Lined
<1>2. CASE S!Greeted
  <2>1. [act["daemon"] EXCEPT !.pc = "lock"] \in Acts
    BY ActTyped DEF Acts, Pcs
  <2>2. act' \in [S!Actor -> Acts]
    BY <1>2, <2>1, RestTyped DEF S!Greeted, SessionTypes
  <2>3. phase' \in {"starting", "up", "closing", "down"}
    BY <1>2 DEF S!Greeted, SessionTypes
  <2> QED
    BY <1>2, <2>2, <2>3 DEF S!Greeted, SessionTypes, S!fileVars, S!lockVars
<1>3. CASE S!Shutdown
  BY <1>3 DEF S!Shutdown, SessionTypes, S!fileVars, S!lockVars
<1>4. CASE S!ShutdownCloses
  BY <1>4, WaitsTyped DEF S!ShutdownCloses, SessionTypes, S!fileVars, S!daemonVars, S!lockVars
<1>5. CASE S!Stopped
  BY <1>5 DEF S!Stopped, SessionTypes, S!fileVars, S!lockVars
<1>6. CASE S!Killed
  BY <1>6, RestTyped DEF S!Killed, SessionTypes, S!fileVars
<1> QED
  BY <1>1, <1>2, <1>3, <1>4, <1>5, <1>6

LEMMA SessionTypesStep ==
  ASSUME SessionTypes, Phases, Queued, \A a \in S!Actor : Doing(a), [S!Next]_(S!vars)
  PROVE  SessionTypes'
<1>1. CASE S!DeviceLine
  <2>1. S!Line("traffic", S!Nobody) \in Lined
    BY DEF S!Line, Lined
  <2>2. queue' \in Seq(Lined)
    BY <1>1, <2>1, QueueLined DEF S!DeviceLine
  <2> QED
    BY <1>1, <2>2 DEF S!DeviceLine, SessionTypes, S!fileVars, S!lockVars, Lined
<1>2. CASE S!Written
  BY <1>2, WrittenTyped
<1>3. ASSUME NEW a \in S!Actor, S!Acquire(a) \/ S!EndResumes(a) \/ S!DrainResumes(a)
               \/ S!OpenResumes(a)
      PROVE  SessionTypes'
  <2>1. CASE S!OpenResumes(a)
    <3>1. phase' \in {"starting", "up", "closing", "down"}
      BY <2>1 DEF S!OpenResumes, SessionTypes
    <3> QED
      BY <2>1, <3>1, LeavesTyped DEF S!OpenResumes, SessionTypes, S!fileVars
  <2> QED
    BY <1>3, <2>1, AcquireTyped, EndTyped, DrainEndTyped, ActorFacts
<1>4. CASE UNCHANGED S!vars
  BY <1>4 DEF S!vars, S!fileVars, S!daemonVars, S!lockVars, SessionTypes
<1> QED
  BY <1>1, <1>2, <1>3, <1>4, RequestTyped, RunTyped DEF S!Next

-------------------------------------------------------------------------------
(* The file. *)

SessionFiled == Ordered /\ OwnRun /\ S!NoLineBetweenRuns /\ S!AutoSessionOfOneRun

LEMMA FiledStays ==
  ASSUME SessionFiled, UNCHANGED <<lines, spans, freeId, run, stray>>
  PROVE  SessionFiled'
<1>1. S!Stored' = S!Stored /\ S!Running' = S!Running
  BY DEF S!Stored, S!Running
<1>2. Ordered' /\ OwnRun'
  BY <1>1 DEF SessionFiled, Ordered, OwnRun
<1>3. S!NoLineBetweenRuns' /\ S!AutoSessionOfOneRun'
  BY <1>1 DEF SessionFiled, S!NoLineBetweenRuns, S!AutoSessionOfOneRun, S!Covers
<1> QED
  BY <1>2, <1>3 DEF SessionFiled

LEMMA OrderedDisjoint == ASSUME SessionTypes, Ordered PROVE S!SpansDisjoint
<1> SUFFICES ASSUME NEW s \in spans, NEW t \in spans, s # t,
                    NEW i \in S!Covers(s), i \in S!Covers(t)
             PROVE  FALSE
  BY DEF S!SpansDisjoint
<1>1. /\ i \in Nat /\ s.lo <= i /\ (s.hi = 0 \/ i <= s.hi)
      /\ t.lo <= i /\ (t.hi = 0 \/ i <= t.hi)
  BY SessionAssumption DEF S!Covers, S!Id
<1>2. /\ s.n \in Nat /\ t.n \in Nat /\ s.lo \in Nat /\ t.lo \in Nat /\ s.hi \in Nat
           /\ t.hi \in Nat
      /\ s.n # t.n
  BY SessionTyped DEF Ordered
<1>3. CASE s.n < t.n
  BY <1>1, <1>2, <1>3 DEF Ordered
<1>4. CASE t.n < s.n
  BY <1>1, <1>2, <1>4 DEF Ordered
<1> QED
  BY <1>2, <1>3, <1>4

(* A row lands in what runs, or nowhere.                                    *)
LEMMA WrittenFiled ==
  ASSUME SessionTypes, Queued, SessionFiled, S!Written
  PROVE  SessionFiled'
<1> DEFINE l == Head(queue)
<1>1. CASE l.kind = "drain"
  BY <1>1, FiledStays DEF S!Written
<1>2. CASE l.kind # "drain"
  <2>1. /\ freeId <= MaxSpanId /\ freeId' = freeId + 1
        /\ lines' = [lines EXCEPT ![freeId] = [kind |-> l.kind, run |-> run]]
        /\ stray' = IF S!Running = {} THEN stray \cup {freeId} ELSE stray
        /\ spans' = spans /\ run' = run
    BY <1>2 DEF S!Written
  <2>2. freeId \in S!Id /\ freeId \in Nat
    BY <2>1, SessionAssumption DEF SessionTypes, S!Id
  <2>3. l.kind \in S!Kinds
    BY <1>2, HeadLined DEF Lined, S!Kinds, S!Written
  <2>4. lines'[freeId] = [kind |-> l.kind, run |-> run] /\ lines'[freeId] # S!NoRow
    BY <2>1, <2>2, <2>3 DEF SessionTypes, S!NoRow, S!Kinds
  <2>5. \A i \in S!Id \ {freeId} : lines'[i] = lines[i]
    BY <2>1 DEF SessionTypes
  <2>6. freeId \notin S!Stored
    BY <2>2 DEF SessionFiled, Ordered
  <2>7. S!Stored' = S!Stored \cup {freeId} /\ \A i \in S!Stored : lines'[i] = lines[i]
    BY <2>2, <2>4, <2>5, <2>6 DEF S!Stored
  <2>8. S!Running' = S!Running
    BY <2>1 DEF S!Running
  <2>9. Ordered'
    <3>1. \A i \in S!Stored' : i < freeId'
      BY <2>1, <2>2, <2>7, StoredIds DEF SessionFiled, Ordered
    <3>2. \A s \in spans : s.lo <= freeId' /\ s.hi < freeId'
      BY <2>1, <2>2, SessionTyped DEF SessionFiled, Ordered
    <3> QED
      BY <2>1, <3>1, <3>2 DEF SessionFiled, Ordered
  <2>10. OwnRun'
    BY <2>1, <2>4, <2>7, <2>8 DEF SessionFiled, OwnRun
  <2>11. S!AutoSessionOfOneRun'
    <3> SUFFICES ASSUME NEW s \in spans, s.auto,
                        NEW i \in S!Covers(s) \cap S!Stored', NEW j \in S!Covers(s) \cap S!Stored'
                 PROVE  lines'[i].run = lines'[j].run
      BY <2>1 DEF S!AutoSessionOfOneRun, S!Covers
    <3>1. CASE s.hi = 0
      <4>1. s \in S!Running /\ s.lo <= i /\ s.lo <= j
        BY <2>1, <3>1 DEF S!Running, S!Covers
      <4> QED
        BY <2>1, <2>8, <2>10, <4>1 DEF OwnRun
    <3>2. CASE s.hi # 0
      <4>1. s.hi < freeId /\ s.hi \in Nat
        BY SessionTyped DEF SessionFiled, Ordered
      <4>2. i # freeId /\ j # freeId
        BY <2>2, <3>2, <4>1 DEF S!Covers
      <4> QED
        BY <2>7, <4>2 DEF SessionFiled, S!AutoSessionOfOneRun
    <3> QED
      BY <3>1, <3>2
  <2>12. S!NoLineBetweenRuns'
    <3> SUFFICES ASSUME NEW i \in S!Stored' \ stray', lines'[i].kind = "traffic"
                 PROVE  \E s \in spans : i \in S!Covers(s)
      BY <2>1 DEF S!NoLineBetweenRuns, S!Covers
    <3>1. CASE i = freeId
      <4>1. PICK s \in S!Running : TRUE
        BY <2>1, <3>1
      <4>2. s \in spans /\ s.hi = 0 /\ s.lo <= freeId
        BY DEF S!Running, SessionFiled, Ordered
      <4> QED
        BY <2>2, <3>1, <4>2 DEF S!Covers
    <3>2. CASE i # freeId
      BY <2>1, <2>7, <3>2 DEF SessionFiled, S!NoLineBetweenRuns
    <3> QED
      BY <3>1, <3>2
  <2> QED
    BY <2>9, <2>10, <2>11, <2>12 DEF SessionFiled
<1> QED
  BY <1>1, <1>2

(* A label that goes leaves its rows without one.                           *)
LEMMA DropFiled ==
  ASSUME SessionTypes, SessionFiled, NEW r, NEW n, S!DropLabel(r, n), \E s \in spans : s.n = n,
         UNCHANGED <<lines, freeId, run>>
  PROVE  SessionFiled'
<1> DEFINE s == CHOOSE t \in spans : t.n = n
<1>1. s \in spans /\ s.n = n
  OBVIOUS
<1>2. /\ spans' = {t \in spans : t.n # n}
      /\ stray' = stray \cup {i \in S!Stored : s.lo <= i /\ (s.hi = 0 \/ i <= s.hi)}
  BY <1>1 DEF S!DropLabel
<1> HIDE DEF s
<1>3. S!Stored' = S!Stored /\ S!Running' \subseteq S!Running /\ spans' \subseteq spans
  BY <1>2 DEF S!Stored, S!Running
<1>4. Ordered' /\ OwnRun' /\ S!AutoSessionOfOneRun'
  BY <1>2, <1>3 DEF SessionFiled, Ordered, OwnRun, S!AutoSessionOfOneRun, S!Covers
<1>5. S!NoLineBetweenRuns'
  <2> SUFFICES ASSUME NEW i \in S!Stored \ stray', lines[i].kind = "traffic"
               PROVE  \E t \in spans' : i \in S!Covers(t)
    BY <1>3 DEF S!NoLineBetweenRuns, S!Covers
  <2>1. i \in S!Stored \ stray
    BY <1>2
  <2>2. PICK t \in spans : i \in S!Covers(t)
    BY <2>1 DEF SessionFiled, S!NoLineBetweenRuns
  <2>3. t # s
    BY <1>2, <2>2 DEF S!Covers
  <2>4. t.n # n
    BY <1>1, <2>3 DEF SessionFiled, Ordered
  <2> QED
    BY <1>2, <2>2, <2>4
<1> QED
  BY <1>4, <1>5 DEF SessionFiled

LEMMA ChunkFiled ==
  ASSUME SessionTypes, SessionFiled, NEW r \in Req, S!DeleteChunk(r)
  PROVE  SessionFiled'
<1>1. PICK k : lines' = [lines EXCEPT ![k] = S!NoRow]
  BY DEF S!DeleteChunk
<1>2. UNCHANGED <<spans, freeId, run, stray>>
  BY DEF S!DeleteChunk, S!daemonVars
<1>3. S!Stored' \subseteq S!Stored /\ \A i \in S!Stored' : lines'[i] = lines[i]
  BY <1>1 DEF S!Stored, SessionTypes
<1>4. S!Running' = S!Running
  BY <1>2 DEF S!Running
<1>5. Ordered' /\ OwnRun'
  BY <1>2, <1>3, <1>4 DEF SessionFiled, Ordered, OwnRun
<1>6. S!NoLineBetweenRuns' /\ S!AutoSessionOfOneRun'
  BY <1>2, <1>3 DEF SessionFiled, S!NoLineBetweenRuns, S!AutoSessionOfOneRun, S!Covers
<1> QED
  BY <1>5, <1>6 DEF SessionFiled

(* A session that is opened follows all others, over rows of this run only. *)
LEMMA OpenFiled ==
  ASSUME SessionTypes, NEW a \in S!Actor, NEW lo \in 1 .. MaxSpanId + 1,
         NEW kept \in SUBSET [n : 1 .. opened, lo : 1 .. MaxSpanId + 1, hi : 0 .. MaxSpanId,
                              auto : BOOLEAN],
         S!OpenAt(a, lo, kept), lo <= freeId,
         \A i \in S!Stored : i < freeId,
         \A s \in kept : s.lo <= freeId /\ s.hi < freeId /\ s.hi # 0 /\ s.hi < lo,
         \A s, t \in kept : s.n = t.n => s = t,
         \A s, t \in kept : s.n < t.n => s.hi # 0 /\ s.hi < t.lo,
         \A i \in S!Stored : lo <= i => lines[i].run = run,
         \A s \in kept : s.auto =>
           \A i, j \in S!Covers(s) \cap S!Stored : lines[i].run = lines[j].run,
         \A i \in S!Stored \ stray : lines[i].kind = "traffic" =>
           lo <= i \/ \E s \in kept : i \in S!Covers(s),
         UNCHANGED <<lines, freeId, run, stray>>
  PROVE  SessionFiled'
<1> DEFINE new == [n |-> opened + 1, lo |-> lo, hi |-> 0, auto |-> act[a].op # "start"]
<1>1. spans' = kept \cup {new}
  BY DEF S!OpenAt
<1>2. new.n = opened + 1 /\ new.lo = lo /\ new.hi = 0 /\ opened \in Nat /\ lo \in Nat
  BY SessionAssumption DEF SessionTypes
<1>3. \A s \in kept : s.n \in Nat /\ s.n < new.n
  BY <1>2
<1> HIDE DEF new
<1>4. S!Stored' = S!Stored
  BY DEF S!Stored
<1>5. S!Running' = {new}
  BY <1>1, <1>2 DEF S!Running
<1>6. Ordered'
  <2>1. \A s \in spans' : s.lo <= freeId /\ s.hi < freeId
    BY <1>1, <1>2, SessionAssumption DEF SessionTypes
  <2>2. \A s, t \in spans' : s.n = t.n => s = t
    <3> SUFFICES ASSUME NEW s \in spans', NEW t \in spans', s.n = t.n PROVE s = t
      OBVIOUS
    <3>1. CASE s \in kept /\ t \in kept
      BY <3>1
    <3>2. CASE s = new \/ t = new
      BY <1>1, <1>2, <1>3, <3>2
    <3> QED
      BY <1>1, <3>1, <3>2
  <2>3. \A s, t \in spans' : s.n < t.n => s.hi # 0 /\ s.hi < t.lo
    <3> SUFFICES ASSUME NEW s \in spans', NEW t \in spans', s.n < t.n
                 PROVE  s.hi # 0 /\ s.hi < t.lo
      OBVIOUS
    <3>1. CASE s \in kept /\ t \in kept
      BY <3>1
    <3>2. CASE s \in kept /\ t = new
      BY <1>2, <3>2
    <3>3. CASE s = new
      BY <1>1, <1>2, <1>3, <3>3
    <3> QED
      BY <1>1, <3>1, <3>2, <3>3
  <2> QED
    BY <1>4, <2>1, <2>2, <2>3 DEF Ordered
<1>7. OwnRun'
  BY <1>2, <1>4, <1>5 DEF OwnRun
<1>8. S!NoLineBetweenRuns'
  <2> SUFFICES ASSUME NEW i \in S!Stored \ stray, lines[i].kind = "traffic"
               PROVE  \E s \in spans' : i \in S!Covers(s)
    BY <1>4 DEF S!NoLineBetweenRuns, S!Covers
  <2>1. CASE lo <= i
    BY <1>1, <1>2, <2>1, StoredIds DEF S!Covers
  <2>2. CASE \E s \in kept : i \in S!Covers(s)
    BY <1>1, <2>2
  <2> QED
    BY <2>1, <2>2
<1>9. S!AutoSessionOfOneRun'
  <2> SUFFICES ASSUME NEW s \in spans', s.auto,
                      NEW i \in S!Covers(s) \cap S!Stored, NEW j \in S!Covers(s) \cap S!Stored
               PROVE  lines[i].run = lines[j].run
    BY <1>4 DEF S!AutoSessionOfOneRun, S!Covers
  <2>1. CASE s \in kept
    BY <2>1
  <2>2. CASE s = new
    BY <1>2, <2>2 DEF S!Covers
  <2> QED
    BY <1>1, <2>1, <2>2
<1> QED
  BY <1>6, <1>7, <1>8, <1>9 DEF SessionFiled

(* What an end leaves: sessions that are over, in their order.              *)
LEMMA KeptFacts ==
  ASSUME SessionTypes, SessionFiled, NEW a \in S!Actor, Doing(a), act[a].pc = "ending",
         act[a].got # 0,
         act[a].got \in 1 .. MaxSpanId, NEW c \in spans, c.n = act[a].of
  PROVE  /\ \A s \in Kept(a) : s.lo <= freeId /\ s.hi < freeId /\ s.hi # 0 /\ s.hi < act[a].got + 1
         /\ \A s, t \in Kept(a) : s.n = t.n => s = t
         /\ \A s, t \in Kept(a) : s.n < t.n => s.hi # 0 /\ s.hi < t.lo
         /\ \A s \in Kept(a) : s.auto =>
              \A i, j \in S!Covers(s) \cap S!Stored : lines[i].run = lines[j].run
         /\ \A i \in S!Stored \ stray : lines[i].kind = "traffic" =>
              act[a].got + 1 <= i \/ \E s \in Kept(a) : i \in S!Covers(s)
<1> DEFINE hi == act[a].got
           e == [c EXCEPT !.hi = hi]
<1>1. c \in S!Running /\ c.lo <= hi /\ hi < freeId /\ hi # 0 /\ hi \in Nat /\ freeId \in Nat
  BY SessionAssumption DEF Doing, S!Running, SessionTypes
<1>2. \A t \in spans : t # c => t.n < c.n /\ t.hi # 0 /\ t.hi < c.lo
  BY <1>1, OneRuns DEF SessionFiled
<1>3. \A t \in spans : t.n = act[a].of => t = c
  BY DEF SessionFiled, Ordered
<1>4. e.n = c.n /\ e.lo = c.lo /\ e.hi = hi /\ e.auto = c.auto
  BY SessionTyped
<1>5. Kept(a) \subseteq (spans \ {c}) \cup {e} /\ spans \ {c} \subseteq Kept(a)
  BY <1>3 DEF Kept
<1>6. ~c.auto \/ S!CapturedTraffic(c, hi) => e \in Kept(a)
  BY DEF Kept
<1>10. c.lo \in Nat /\ c.n \in Nat /\ \A t \in spans : t.n \in Nat /\ t.hi \in Nat /\ t.lo \in Nat
  BY SessionTyped
<1> HIDE DEF e, hi
<1>7. \A s \in Kept(a) : s.lo <= freeId /\ s.hi < freeId /\ s.hi # 0 /\ s.hi < hi + 1
  <2> SUFFICES ASSUME NEW s \in Kept(a)
               PROVE  s.lo <= freeId /\ s.hi < freeId /\ s.hi # 0 /\ s.hi < hi + 1
    OBVIOUS
  <2>1. CASE s = e
    BY <1>1, <1>4, <2>1 DEF SessionFiled, Ordered
  <2>2. CASE s \in spans \ {c}
    BY <1>1, <1>2, <1>10, <2>2 DEF SessionFiled, Ordered
  <2> QED
    BY <1>5, <2>1, <2>2
<1>8. \A s, t \in Kept(a) : (s.n = t.n => s = t) /\ (s.n < t.n => s.hi # 0 /\ s.hi < t.lo)
  <2> SUFFICES ASSUME NEW s \in Kept(a), NEW t \in Kept(a)
               PROVE  (s.n = t.n => s = t) /\ (s.n < t.n => s.hi # 0 /\ s.hi < t.lo)
    OBVIOUS
  <2>1. CASE s = e /\ t = e
    BY <1>4, <1>10, <2>1
  <2>2. CASE s = e /\ t \in spans \ {c}
    BY <1>2, <1>4, <1>10, <2>2
  <2>3. CASE s \in spans \ {c} /\ t = e
    BY <1>2, <1>4, <1>10, <2>3
  <2>4. CASE s \in spans /\ t \in spans
    BY <2>4 DEF SessionFiled, Ordered
  <2> QED
    BY <1>5, <2>1, <2>2, <2>3, <2>4
<1>9. \A s \in Kept(a) : s.auto =>
        \A i, j \in S!Covers(s) \cap S!Stored : lines[i].run = lines[j].run
  <2> SUFFICES ASSUME NEW s \in Kept(a), s.auto,
                      NEW i \in S!Covers(s) \cap S!Stored, NEW j \in S!Covers(s) \cap S!Stored
               PROVE  lines[i].run = lines[j].run
    OBVIOUS
  <2>1. CASE s = e
    <3>1. c.auto /\ i \in S!Covers(c) /\ j \in S!Covers(c)
      BY <1>1, <1>4, <2>1 DEF S!Covers, S!Running
    <3> QED
      BY <3>1 DEF SessionFiled, S!AutoSessionOfOneRun
  <2>2. CASE s \in spans
    BY <2>2 DEF SessionFiled, S!AutoSessionOfOneRun
  <2> QED
    BY <1>5, <2>1, <2>2
<1>11. ASSUME NEW i \in S!Stored \ stray, lines[i].kind = "traffic"
       PROVE  hi + 1 <= i \/ \E s \in Kept(a) : i \in S!Covers(s)
  <2>1. PICK t \in spans : i \in S!Covers(t)
    BY <1>11 DEF SessionFiled, S!NoLineBetweenRuns
  <2>2. i \in Nat /\ i \in S!Id
    BY StoredIds
  <2>3. CASE t # c
    BY <1>5, <2>1, <2>3
  <2>4. CASE t = c /\ i <= hi
    <3>1. c.lo <= i
      BY <2>1, <2>4 DEF S!Covers
    <3>2. S!CapturedTraffic(c, hi)
      BY <1>1, <1>10, <1>11, <2>2, <2>4, <3>1 DEF S!CapturedTraffic
    <3>3. e \in Kept(a) /\ i \in S!Covers(e)
      BY <1>4, <1>6, <2>2, <2>4, <3>1, <3>2 DEF S!Covers
    <3> QED
      BY <3>3
  <2> QED
    BY <1>1, <2>2, <2>3, <2>4
<1> QED
  BY <1>7, <1>8, <1>9, <1>11 DEF hi

LEMMA EndFiled ==
  ASSUME SessionTypes, Phases, SessionFiled, NEW a \in S!Actor, Doing(a), Doing("daemon"),
         S!EndResumes(a)
  PROVE  SessionFiled'
<1>1. /\ act[a].pc = "ending" /\ act[a].got # 0 /\ act[a].got \in 1 .. MaxSpanId
      /\ freeId <= MaxSpanId + 1
  BY EndDoes, MarkerBelow
<1>2. UNCHANGED <<lines, freeId, run>>
  BY EndDoes
<1> DEFINE hi == act[a].got
<1>3. /\ hi < freeId /\ hi \in Nat /\ freeId \in Nat
      /\ \A i \in S!Stored : hi <= i => lines[i].run = run
      /\ \A i \in S!Stored : i < freeId
  BY <1>1, SessionAssumption DEF Doing, SessionTypes, SessionFiled, Ordered
<1>4. hi \in 0 .. MaxSpanId /\ hi + 1 \in 1 .. MaxSpanId + 1 /\ hi + 1 <= freeId
  BY <1>1, <1>3, SessionAssumption
<1>5. Kept(a) \in SUBSET [n : 1 .. opened, lo : 1 .. MaxSpanId + 1, hi : 0 .. MaxSpanId,
                          auto : BOOLEAN]
  BY <1>4, EndedTyped
<1>6. \A i \in S!Stored : hi + 1 <= i => lines[i].run = run
  BY <1>3, StoredIds
<1>7. CASE /\ \E s \in spans : s.n = act[a].of
           /\ S!OpenAt(a, act[a].got + 1, Kept(a)) /\ UNCHANGED stray
  <2>1. PICK c \in spans : c.n = act[a].of
    BY <1>7
  <2> QED
    BY <1>1, <1>2, <1>3, <1>4, <1>5, <1>6, <1>7, <2>1, KeptFacts, OpenFiled
<1>8. CASE /\ \E s \in spans : s.n = act[a].of
           /\ spans' = Kept(a) /\ stray' = stray \cup {i \in S!Stored : i > act[a].got}
  <2>1. PICK c \in spans : c.n = act[a].of
    BY <1>8
  <2>2. S!Stored' = S!Stored
    BY <1>2 DEF S!Stored
  <2>3. /\ \A s \in Kept(a) : s.lo <= freeId /\ s.hi < freeId /\ s.hi # 0
        /\ \A s, t \in Kept(a) : s.n = t.n => s = t
        /\ \A s, t \in Kept(a) : s.n < t.n => s.hi # 0 /\ s.hi < t.lo
        /\ \A s \in Kept(a) : s.auto =>
             \A i, j \in S!Covers(s) \cap S!Stored : lines[i].run = lines[j].run
        /\ \A i \in S!Stored \ stray : lines[i].kind = "traffic" =>
             act[a].got + 1 <= i \/ \E s \in Kept(a) : i \in S!Covers(s)
    BY <1>1, <2>1, KeptFacts
  <2>4. S!Running' = {}
    BY <1>8, <2>3 DEF S!Running
  <2>5. Ordered' /\ OwnRun'
    BY <1>2, <1>3, <1>8, <2>2, <2>3, <2>4 DEF Ordered, OwnRun
  <2>6. S!NoLineBetweenRuns'
    <3> SUFFICES ASSUME NEW i \in S!Stored \ stray', lines[i].kind = "traffic"
                 PROVE  \E s \in Kept(a) : i \in S!Covers(s)
      BY <1>2, <1>8, <2>2 DEF S!NoLineBetweenRuns, S!Covers
    <3>1. i \notin stray /\ ~(act[a].got + 1 <= i)
      BY <1>3, <1>8, StoredIds
    <3> QED
      BY <2>3, <3>1
  <2>7. S!AutoSessionOfOneRun'
    BY <1>2, <1>8, <2>2, <2>3 DEF S!AutoSessionOfOneRun, S!Covers
  <2> QED
    BY <2>5, <2>6, <2>7 DEF SessionFiled
<1>9. CASE UNCHANGED <<spans, stray>>
  BY <1>2, <1>9, FiledStays
<1> QED
  BY <1>7, <1>8, <1>9, EndDoes

LEMMA DrainEndFiled ==
  ASSUME SessionTypes, Phases, SessionFiled, NEW a \in S!Actor, Doing(a), Doing("daemon"),
         S!DrainResumes(a)
  PROVE  SessionFiled'
<1>1. freeId \in 1 .. MaxSpanId + 1 /\ freeId \in Nat
  BY IdsLeft, SessionAssumption DEF S!DrainResumes, SessionTypes
<1>2. S!OpenAt(a, freeId, spans) /\ UNCHANGED <<lines, freeId, run, stray>>
  BY DEF S!DrainResumes
<1>3. S!Running = {}
  BY DEF Doing, S!DrainResumes
<1>4. spans \in SUBSET [n : 1 .. opened, lo : 1 .. MaxSpanId + 1, hi : 0 .. MaxSpanId,
                        auto : BOOLEAN]
  BY DEF SessionTypes
<1>5. /\ \A i \in S!Stored : i < freeId /\ ~(freeId <= i)
      /\ \A s \in spans : s.lo <= freeId /\ s.hi < freeId /\ s.hi # 0
      /\ \A s, t \in spans : s.n = t.n => s = t
      /\ \A s, t \in spans : s.n < t.n => s.hi # 0 /\ s.hi < t.lo
  BY <1>1, <1>3, StoredIds DEF SessionFiled, Ordered, S!Running
<1>6. /\ \A s \in spans : s.auto =>
           \A i, j \in S!Covers(s) \cap S!Stored : lines[i].run = lines[j].run
      /\ \A i \in S!Stored \ stray : lines[i].kind = "traffic" =>
           \E s \in spans : i \in S!Covers(s)
  BY DEF SessionFiled, S!AutoSessionOfOneRun, S!NoLineBetweenRuns
<1> QED
  BY <1>1, <1>2, <1>4, <1>5, <1>6, OpenFiled

(* A start ends at the newest row what a killed run left of its own.        *)
LEMMA StartFiled ==
  ASSUME SessionTypes, SessionFiled, S!Start
  PROVE  SessionFiled'
<1>1. /\ spans' = S!CrashedClosed(spans) /\ freeId' = S!Max({S!TopId, S!TopRef}) + 1
      /\ UNCHANGED <<lines, stray>>
  BY DEF S!Start
<1>2. S!Stored' = S!Stored
  BY <1>1 DEF S!Stored
<1>3. /\ freeId' \in Nat /\ \A i \in S!Stored : i < freeId'
      /\ \A s \in spans : s.lo < freeId' /\ s.hi < freeId' /\ S!TopId < freeId'
  <2> DEFINE top == S!Max({S!TopId, S!TopRef})
  <2>1. top \in Nat /\ top >= S!TopId /\ top >= S!TopRef /\ freeId' = top + 1
    BY <1>1, TopOfBoth, SessionAssumption
  <2> HIDE DEF top
  <2>2. S!TopId \in Nat /\ S!TopRef \in Nat /\ \A i \in S!Stored : i \in Nat /\ i <= S!TopId
    BY TopIdIsTop, TopRefIsTop, StoredIds, SessionAssumption
  <2>3. \A s \in spans : s.lo \in Nat /\ s.hi \in Nat /\ s.lo <= S!TopRef /\ s.hi <= S!TopRef
    BY TopRefIsTop, SessionTyped
  <2> QED
    BY <2>1, <2>2, <2>3
<1>4. S!Active = S!Running /\ (\A s, t \in S!Running : s = t)
      /\ \A s \in S!Running, t \in spans : t # s => t.n < s.n /\ t.hi # 0 /\ t.hi < s.lo
  BY OneRuns DEF SessionFiled
<1>5. CASE \A s \in S!Active : ~s.auto
  <2>1. spans' = spans
    BY <1>1, <1>5 DEF S!CrashedClosed
  <2>2. S!Running' = S!Running
    BY <2>1 DEF S!Running
  <2>3. Ordered' /\ OwnRun'
    <3>1. \A s \in spans : s.lo <= freeId'
      BY <1>3, SessionTyped
    <3> QED
      BY <1>2, <1>3, <1>4, <1>5, <2>1, <2>2, <3>1 DEF SessionFiled, Ordered, OwnRun
  <2>4. S!NoLineBetweenRuns' /\ S!AutoSessionOfOneRun'
    BY <1>1, <1>2, <2>1 DEF SessionFiled, S!NoLineBetweenRuns, S!AutoSessionOfOneRun, S!Covers
  <2> QED
    BY <2>3, <2>4 DEF SessionFiled
<1>6. CASE ~\A s \in S!Active : ~s.auto
  <2>1. PICK c \in S!Running : c.auto /\ c \in spans /\ c.hi = 0
    BY <1>4, <1>6 DEF S!Running
  <2> DEFINE at == IF S!TopId >= c.lo THEN S!TopId ELSE c.lo - 1
             e == [c EXCEPT !.hi = at]
  <2>2. {s \in S!Active : s.auto} = {c}
    BY <1>4, <2>1
  <2>3. spans' = (spans \ {c}) \cup (IF S!CapturedTraffic(c, at) THEN {e} ELSE {})
    BY <1>1, <2>2 DEF S!CrashedClosed
  <2>4. e.n = c.n /\ e.lo = c.lo /\ e.hi = at /\ e.auto = c.auto
    BY <2>1, SessionTyped
  <2>5. c.lo \in Nat /\ c.lo >= 1 /\ c.n \in Nat /\ S!TopId \in Nat /\ at \in Nat
    BY <2>1, SessionTyped, TopIdIsTop, SessionAssumption
  <2>6. \A t \in spans : t.n \in Nat /\ t.hi \in Nat /\ t.lo \in Nat
    BY SessionTyped
  <2>7. at < freeId' /\ (S!CapturedTraffic(c, at) => at = S!TopId /\ c.lo <= at)
    BY <1>3, <2>1, <2>5 DEF S!CapturedTraffic
  <2>8. \A t \in spans \ {c} : t.n < c.n /\ t.hi # 0 /\ t.hi < c.lo
    BY <1>4, <2>1
  <2> HIDE DEF e, at
  <2>9. S!Running' = {}
    BY <2>3, <2>4, <2>5, <2>7, <2>8 DEF S!Running
  <2>10. Ordered'
    <3>1. \A s \in spans' : s.lo <= freeId' /\ s.hi < freeId'
      BY <1>3, <2>1, <2>3, <2>4, <2>5, <2>6, <2>7
    <3>2. \A s, t \in spans' : (s.n = t.n => s = t) /\ (s.n < t.n => s.hi # 0 /\ s.hi < t.lo)
      <4> SUFFICES ASSUME NEW s \in spans', NEW t \in spans'
                   PROVE  (s.n = t.n => s = t) /\ (s.n < t.n => s.hi # 0 /\ s.hi < t.lo)
        OBVIOUS
      <4>1. CASE s = e /\ t = e
        BY <2>4, <2>5, <4>1
      <4>2. CASE s = e /\ t \in spans \ {c}
        BY <2>4, <2>5, <2>6, <2>8, <4>2
      <4>3. CASE s \in spans \ {c} /\ t = e
        BY <2>4, <2>5, <2>6, <2>8, <4>3
      <4>4. CASE s \in spans /\ t \in spans
        BY <4>4 DEF SessionFiled, Ordered
      <4> QED
        BY <2>3, <4>1, <4>2, <4>3, <4>4
    <3> QED
      BY <1>2, <1>3, <3>1, <3>2 DEF Ordered
  <2>11. OwnRun'
    BY <2>9 DEF OwnRun
  <2>12. S!NoLineBetweenRuns'
    <3> SUFFICES ASSUME NEW i \in S!Stored \ stray, lines[i].kind = "traffic"
                 PROVE  \E s \in spans' : i \in S!Covers(s)
      BY <1>1, <1>2 DEF S!NoLineBetweenRuns, S!Covers
    <3>1. PICK t \in spans : i \in S!Covers(t)
      BY DEF SessionFiled, S!NoLineBetweenRuns
    <3>2. i \in Nat /\ i \in S!Id /\ i <= S!TopId
      BY StoredIds, TopIdIsTop
    <3>3. CASE t # c
      BY <2>3, <3>1, <3>3
    <3>4. CASE t = c
      <4>1. c.lo <= i /\ S!TopId >= c.lo
        BY <2>5, <3>1, <3>2, <3>4 DEF S!Covers
      <4>2. at = S!TopId
        BY <4>1 DEF at
      <4>3. S!CapturedTraffic(c, at)
        BY <2>5, <3>2, <4>1, <4>2 DEF S!CapturedTraffic
      <4> QED
        BY <2>3, <2>4, <3>2, <4>1, <4>2, <4>3 DEF S!Covers
    <3> QED
      BY <3>3, <3>4
  <2>13. S!AutoSessionOfOneRun'
    <3> SUFFICES ASSUME NEW s \in spans', s.auto,
                        NEW i \in S!Covers(s) \cap S!Stored, NEW j \in S!Covers(s) \cap S!Stored
                 PROVE  lines[i].run = lines[j].run
      BY <1>1, <1>2 DEF S!AutoSessionOfOneRun, S!Covers
    <3>1. CASE s = e
      <4>1. i \in S!Covers(c) /\ j \in S!Covers(c)
        BY <2>1, <2>4, <3>1 DEF S!Covers
      <4> QED
        BY <2>1, <4>1 DEF SessionFiled, S!AutoSessionOfOneRun
    <3>2. CASE s \in spans
      BY <3>2 DEF SessionFiled, S!AutoSessionOfOneRun
    <3> QED
      BY <2>3, <3>1, <3>2
  <2> QED
    BY <2>10, <2>11, <2>12, <2>13 DEF SessionFiled
<1> QED
  BY <1>5, <1>6

LEMMA FiledStep ==
  ASSUME SessionTypes, Phases, Queued, SessionFiled, \A a \in S!Actor : Doing(a),
         [S!Next]_(S!vars)
  PROVE  SessionFiled'
<1>1. CASE S!DeviceLine
  BY <1>1, FiledStays DEF S!DeviceLine, S!fileVars
<1>2. CASE S!Written
  BY <1>2, WrittenFiled
<1>3. ASSUME NEW a \in S!Actor, S!Acquire(a) \/ S!EndResumes(a) \/ S!DrainResumes(a)
               \/ S!OpenResumes(a)
      PROVE  SessionFiled'
  <2>1. CASE S!Acquire(a)
    BY <2>1, FiledStays DEF S!Acquire, S!fileVars
  <2>2. CASE S!OpenResumes(a)
    BY <2>2, FiledStays DEF S!OpenResumes, S!fileVars
  <2> QED
    BY <1>3, <2>1, <2>2, EndFiled, DrainEndFiled, ActorFacts
<1>4. ASSUME NEW r \in Req,
             \/ S!CallStart(r) \/ S!CallStop(r) \/ S!StopAsks(r) \/ S!CallConfig(r) \/ S!Cancel(r)
             \/ S!CallDelete(r) \/ S!CallDeleteData(r) \/ S!DeleteChunk(r) \/ S!DeleteEnds(r)
      PROVE  SessionFiled'
  <2>1. CASE S!CallStart(r) \/ S!CallStop(r) \/ S!StopAsks(r) \/ S!Cancel(r)
               \/ S!CallDeleteData(r)
    BY <2>1, FiledStays
       DEF S!CallStart, S!CallStop, S!StopAsks, S!Cancel, S!CallDeleteData, S!fileVars,
           S!daemonVars
  <2>2. CASE S!CallConfig(r)
    BY <2>2, FiledStays DEF S!CallConfig, S!fileVars
  <2>3. CASE S!CallDelete(r)
    <3>1. PICK s \in spans : S!DropLabel(r, s.n)
      BY <2>3 DEF S!CallDelete
    <3>2. UNCHANGED <<lines, freeId, run>>
      BY <2>3 DEF S!CallDelete, S!daemonVars
    <3> QED
      BY <3>1, <3>2, DropFiled
  <2>4. CASE S!DeleteEnds(r)
    <3>1. UNCHANGED <<lines, freeId, run>>
      BY <2>4 DEF S!DeleteEnds, S!daemonVars
    <3>2. CASE \E s \in spans : s.n = act[r].of
      <4>1. S!DropLabel(r, act[r].of)
        BY <2>4, <3>2 DEF S!DeleteEnds
      <4> QED
        BY <3>1, <3>2, <4>1, DropFiled
    <3>3. CASE ~\E s \in spans : s.n = act[r].of
      BY <2>4, <3>1, <3>3, FiledStays DEF S!DeleteEnds
    <3> QED
      BY <3>2, <3>3
  <2> QED
    BY <1>4, <2>1, <2>2, <2>3, <2>4, ChunkFiled
<1>5. CASE S!Start
  BY <1>5, StartFiled
<1>6. CASE S!Greeted \/ S!Shutdown \/ S!ShutdownCloses \/ S!Stopped \/ S!Killed
  BY <1>6, FiledStays DEF S!Greeted, S!Shutdown, S!ShutdownCloses, S!Stopped, S!Killed,
     S!fileVars, S!daemonVars
<1>7. CASE UNCHANGED S!vars
  BY <1>7, FiledStays DEF S!vars, S!fileVars, S!daemonVars
<1> QED
  BY <1>1, <1>2, <1>3, <1>4, <1>5, <1>6, <1>7 DEF S!Next

-------------------------------------------------------------------------------
(* What an actor knows. *)

LEMMA DoingStays ==
  ASSUME SessionTypes, NEW a \in S!Actor, Doing(a), act'[a] = act[a], freeId' \in Nat,
         freeId' >= freeId,
         Holds(a) => lock' = a /\ spans' \subseteq spans /\ run' = run,
         \A i \in S!Stored' : lines'[i].run = run' \/ (i \in S!Stored /\ lines'[i] = lines[i]),
         act[a].pc = "greeting" => phase' = "starting"
  PROVE  Doing(a)'
<1>1. Holds(a) => S!Running' \subseteq S!Running
  BY DEF S!Running
<1>2. act[a].got \in Nat /\ freeId \in Nat
  BY ActTyped, SessionAssumption DEF Acts, SessionTypes
<1>3. act[a].pc = "ending" => Holds(a)
  BY DEF Holds
<1>4. act[a].pc = "draining" => Holds(a)
  BY DEF Holds
<1>5. CASE act[a].pc = "ending"
  <2>1. \A s \in spans' : s.hi = 0 <=> s.n = act[a].of
    BY <1>3, <1>5 DEF Doing
  <2>2. act[a].got # 0 => /\ act[a].got < freeId'
                          /\ \A s \in S!Running' : s.lo <= act[a].got
                          /\ \A i \in S!Stored' : act[a].got <= i => lines'[i].run = run'
    BY <1>1, <1>2, <1>3, <1>5 DEF Doing
  <2> QED
    BY <1>3, <1>5, <2>1, <2>2 DEF Doing, Holds
<1> QED
  BY <1>1, <1>4, <1>5 DEF Doing, Holds

LEMMA Idles ==
  ASSUME NEW a, act'[a].pc \notin {"ending", "draining", "opening", "greeting"}
  PROVE  Doing(a)'
BY DEF Doing, Holds

(* The rows of an unchanged file are what they were. *)
LEMMA SameRows ==
  ASSUME lines' = lines
  PROVE  \A i \in S!Stored' : lines'[i].run = run' \/ (i \in S!Stored /\ lines'[i] = lines[i])
BY DEF S!Stored

(* Only the holder of _session_lock is at an end, a drain or a start.       *)
LEMMA OneHolds ==
  ASSUME \A a \in S!Actor : Doing(a)
  PROVE  /\ \A a, b \in S!Actor : Holds(a) /\ Holds(b) => a = b
         /\ lock = S!Nobody => \A a \in S!Actor : ~Holds(a)
BY ActorFacts DEF Doing

LEMMA OpenDoing ==
  ASSUME SessionTypes, NEW b \in S!Actor, NEW lo, NEW kept, S!OpenAt(b, lo, kept), Holds(b),
         \A a \in S!Actor : Doing(a), UNCHANGED <<lines, phase, freeId, run>>
  PROVE  \A a \in S!Actor : Doing(a)'
<1> SUFFICES ASSUME NEW a \in S!Actor PROVE Doing(a)'
  OBVIOUS
<1>1. act' = [act EXCEPT ![b].pc = "opening", ![b].got = 0] /\ lock' = lock
  BY DEF S!OpenAt, S!lockVars
<1>2. CASE a = b
  <2>1. act'[a].pc = "opening"
    BY <1>1, <1>2, ActTyped DEF SessionTypes, Acts
  <2>2. lock' = a
    BY <1>1, <1>2 DEF Doing
  <2> QED
    BY <2>1, <2>2 DEF Doing, Holds
<1>3. CASE a # b
  <2>1. act'[a] = act[a] /\ ~Holds(a) /\ freeId' \in Nat /\ freeId' >= freeId
    BY <1>1, <1>3, OneHolds, SessionAssumption DEF SessionTypes
  <2>2. act[a].pc = "greeting" => phase' = "starting"
    BY DEF Doing
  <2> QED
    BY <2>1, <2>2, SameRows, DoingStays
<1> QED
  BY <1>2, <1>3

(* Who leaves, waits or drains lets everyone else know what they knew.      *)
LEMMA OthersDoing ==
  ASSUME SessionTypes, NEW b \in S!Actor, \A a \in S!Actor : Doing(a),
         \A a \in S!Actor \ {b} : act'[a] = act[a] /\ (Holds(a) => lock' = lock \/ lock = b),
         spans' \subseteq spans, UNCHANGED <<lines, freeId, run>>,
         \A a \in S!Actor \ {b} : act[a].pc = "greeting" => phase' = phase
  PROVE  \A a \in S!Actor \ {b} : Doing(a)'
<1> SUFFICES ASSUME NEW a \in S!Actor \ {b} PROVE Doing(a)'
  OBVIOUS
<1>1. freeId' \in Nat /\ freeId' >= freeId
  BY SessionAssumption DEF SessionTypes
<1>2. Holds(a) => lock' = a
  BY DEF Doing
<1>3. act[a].pc = "greeting" => phase' = "starting"
  BY DEF Doing
<1> QED
  BY <1>1, <1>2, <1>3, SameRows, DoingStays

LEMMA WrittenDoing ==
  ASSUME SessionTypes, Queued, SessionFiled, NEW a \in S!Actor, Doing(a), S!Written
  PROVE  Doing(a)'
<1> DEFINE l == Head(queue)
<1>1. l = queue[1] /\ 1 \in 1 .. Len(queue) /\ l \in Lined /\ Awaited(l)
  BY QueueLined, HeadLined DEF S!Written, Queued
<1>2. /\ freeId \in Nat /\ freeId' \in Nat /\ freeId' >= freeId
      /\ l.kind # "drain" => freeId' = freeId + 1
  BY SessionAssumption DEF S!Written, SessionTypes
<1>3. \A i \in S!Stored' : \/ lines'[i].run = run' /\ i >= freeId
                           \/ i \in S!Stored /\ lines'[i] = lines[i]
  <2>1. CASE l.kind = "drain"
    BY <2>1 DEF S!Written, S!Stored
  <2>2. CASE l.kind # "drain"
    <3>1. lines' = [lines EXCEPT ![freeId] = [kind |-> l.kind, run |-> run]] /\ run' = run
      BY <2>2 DEF S!Written
    <3>2. \A i \in S!Id \ {freeId} : lines'[i] = lines[i]
      BY <3>1 DEF SessionTypes
    <3>3. freeId \in S!Id => lines'[freeId].run = run'
      BY <3>1 DEF SessionTypes
    <3> SUFFICES ASSUME NEW i \in S!Stored'
                 PROVE  \/ lines'[i].run = run' /\ i >= freeId
                        \/ i \in S!Stored /\ lines'[i] = lines[i]
      OBVIOUS
    <3>4. i \in S!Id /\ lines'[i] # S!NoRow
      BY DEF S!Stored, S!NoRow
    <3>5. CASE i = freeId
      BY <1>2, <3>3, <3>4, <3>5
    <3>6. CASE i # freeId
      BY <3>2, <3>4, <3>6 DEF S!Stored
    <3> QED
      BY <3>5, <3>6
  <2> QED
    BY <2>1, <2>2
<1>4. UNCHANGED <<spans, run, phase, lock>>
  BY DEF S!Written, S!lockVars
<1>5. CASE act'[a] = act[a]
  <2>1. act[a].pc = "greeting" => phase' = "starting"
    BY <1>4 DEF Doing
  <2>2. Holds(a) => lock' = a /\ spans' \subseteq spans /\ run' = run
    BY <1>4 DEF Doing
  <2> QED
    BY <1>2, <1>3, <1>5, <2>1, <2>2, DoingStays
<1>6. CASE act'[a] # act[a]
  <2>1. /\ l.a = a /\ act[a].pc # "idle" /\ a # S!Nobody
        /\ act'[a] = [act[a] EXCEPT !.got = IF l.kind = "drain" THEN 1 ELSE freeId]
    BY <1>6, ActorFacts DEF S!Written, SessionTypes
  <2>2. act'[a].pc = act[a].pc /\ act'[a].of = act[a].of
        /\ act'[a].got = IF l.kind = "drain" THEN 1 ELSE freeId
    BY <2>1, ActTyped DEF Acts
  <2>3. CASE act[a].pc = "ending"
    <3>1. l.kind = "host"
      BY <1>1, <2>1, <2>3 DEF Awaited
    <3>2. act'[a].got = freeId /\ freeId' = freeId + 1
      BY <1>2, <2>2, <3>1
    <3>3. \A i \in S!Stored' : freeId <= i => lines'[i].run = run'
      BY <1>2, <1>3, StoredIds DEF SessionFiled, Ordered
    <3>4. \A s \in S!Running' : s.lo <= freeId
      BY <1>4 DEF S!Running, SessionFiled, Ordered
    <3>5. \A s \in spans' : s.hi = 0 <=> s.n = act[a].of
      BY <1>4, <2>3 DEF Doing
    <3>6. lock' = a
      BY <1>4, <2>3 DEF Doing, Holds
    <3> QED
      BY <1>2, <2>2, <2>3, <3>2, <3>3, <3>4, <3>5, <3>6 DEF Doing
  <2>4. CASE act[a].pc # "ending"
    <3>1. S!Running' = S!Running
      BY <1>4 DEF S!Running
    <3> QED
      BY <1>4, <2>2, <2>4, <3>1 DEF Doing, Holds
  <2> QED
    BY <2>3, <2>4
<1> QED
  BY <1>5, <1>6

LEMMA AcquireDoing ==
  ASSUME SessionTypes, SessionFiled, NEW b \in S!Actor, \A a \in S!Actor : Doing(a), S!Acquire(b)
  PROVE  \A a \in S!Actor : Doing(a)'
<1>1. act[b].pc = "lock" /\ lock = S!Nobody /\ UNCHANGED <<lines, spans, phase, freeId, run>>
  BY DEF S!Acquire, S!fileVars
<1>2. \A a \in S!Actor \ {b} : act'[a] = act[a]
  BY DEF S!Acquire, S!Drains, S!Leaves, SessionTypes
<1>3. \A a \in S!Actor \ {b} : Doing(a)'
  BY <1>1, <1>2, OneHolds, OthersDoing
<1>4. S!Active = S!Running /\ (\A s, t \in S!Running : s = t)
  BY OneRuns DEF SessionFiled
<1>5. Doing(b)'
  <2>1. CASE S!Active # {} /\ lock' = b
             /\ (\E s \in S!Active : act' = [act EXCEPT ![b].pc = "ending", ![b].of = s.n,
                                             ![b].got = 0])
    <3>1. PICK s \in S!Running :
            act' = [act EXCEPT ![b].pc = "ending", ![b].of = s.n, ![b].got = 0]
      BY <1>4, <2>1
    <3>2. act'[b].pc = "ending" /\ act'[b].of = s.n /\ act'[b].got = 0
      BY <3>1, ActTyped DEF SessionTypes, Acts
    <3>3. \A t \in spans : t.hi = 0 <=> t.n = s.n
      BY <1>4 DEF S!Running, SessionFiled, Ordered
    <3> QED
      BY <1>1, <2>1, <3>2, <3>3 DEF Doing
  <2>2. CASE S!Active = {} /\ lock' = b /\ S!Drains(b)
    <3>1. act'[b].pc = "draining"
      BY <2>2, ActTyped DEF SessionTypes, Acts, S!Drains
    <3>2. S!Running' = {}
      BY <1>1, <1>4, <2>2 DEF S!Running
    <3> QED
      BY <2>2, <3>1, <3>2 DEF Doing
  <2>3. CASE S!Leaves(b)
    BY <2>3, Idles DEF S!Leaves, SessionTypes, S!Rest
  <2> QED
    BY <2>1, <2>2, <2>3 DEF S!Acquire
<1> QED
  BY <1>3, <1>5

LEMMA EndDoing ==
  ASSUME SessionTypes, SessionFiled, NEW b \in S!Actor, \A a \in S!Actor : Doing(a),
         S!EndResumes(b)
  PROVE  \A a \in S!Actor : Doing(a)'
<1>1. act[b].pc = "ending" /\ Holds(b) /\ UNCHANGED <<lines, phase, freeId, run>>
  BY EndDoes DEF Holds
<1>2. CASE S!OpenAt(b, act[b].got + 1, Kept(b))
  BY <1>1, <1>2, OpenDoing
<1>3. CASE S!Leaves(b)
  <2>1. Doing(b)'
    BY <1>3, Idles DEF S!Leaves, SessionTypes, S!Rest
  <2>2. ASSUME NEW a \in S!Actor \ {b} PROVE Doing(a)'
    <3>1. act'[a] = act[a] /\ ~Holds(a) /\ freeId' \in Nat /\ freeId' >= freeId
      BY <1>1, <1>3, OneHolds, SessionAssumption DEF S!Leaves, SessionTypes
    <3>2. act[a].pc = "greeting" => phase' = "starting"
      BY <1>1 DEF Doing
    <3> QED
      BY <1>1, <3>1, <3>2, SameRows, DoingStays
  <2> QED
    BY <2>1, <2>2
<1>4. CASE /\ ~\E s \in spans : s.n = act[b].of
           /\ S!Drains(b) /\ UNCHANGED <<spans, opened, S!lockVars>>
  <2>1. Doing(b)'
    <3>1. act'[b].pc = "draining"
      BY <1>4, ActTyped DEF SessionTypes, Acts, S!Drains
    <3>2. S!Running' = {}
      BY <1>1, <1>4 DEF S!Running, Doing
    <3>3. lock' = b
      BY <1>1, <1>4 DEF Doing, S!lockVars
    <3> QED
      BY <3>1, <3>2, <3>3 DEF Doing
  <2>2. \A a \in S!Actor \ {b} : act'[a] = act[a] /\ lock' = lock
    BY <1>4 DEF S!Drains, SessionTypes, S!lockVars
  <2>3. /\ spans' \subseteq spans
        /\ \A a \in S!Actor \ {b} : act[a].pc = "greeting" => phase' = phase
        /\ \A a \in S!Actor \ {b} :
             act'[a] = act[a] /\ (Holds(a) => lock' = lock \/ lock = b)
    BY <1>1, <1>4, <2>2
  <2>4. \A a \in S!Actor \ {b} : Doing(a)'
    BY <1>1, <2>3, OthersDoing
  <2> QED
    BY <2>1, <2>4
<1> QED
  BY <1>2, <1>3, <1>4, EndDoes

LEMMA OpenEndDoing ==
  ASSUME SessionTypes, Phases, NEW b \in S!Actor, \A a \in S!Actor : Doing(a), S!OpenResumes(b)
  PROVE  \A a \in S!Actor : Doing(a)'
<1>1. /\ act[b].pc = "opening" /\ Holds(b) /\ S!Leaves(b)
      /\ UNCHANGED <<lines, spans, freeId, run>>
  BY DEF S!OpenResumes, S!fileVars, Holds
<1>2. Doing(b)'
  BY <1>1, Idles DEF S!Leaves, SessionTypes, S!Rest
<1>3. ASSUME NEW a \in S!Actor \ {b} PROVE Doing(a)'
  <2>1. act'[a] = act[a] /\ ~Holds(a) /\ freeId' \in Nat /\ freeId' >= freeId
    BY <1>1, OneHolds, SessionAssumption DEF S!Leaves, SessionTypes
  <2>2. act[a].pc # "greeting"
    <3>1. act[a].pc = "greeting" => a = "daemon" /\ phase = "starting"
      BY DEF Doing
    <3>2. act[a].pc = "greeting" => b \in Req
      BY <3>1 DEF S!Actor
    <3> QED
      BY <1>1, <3>1, <3>2 DEF Phases
  <2> QED
    BY <1>1, <2>1, <2>2, SameRows, DoingStays
<1> QED
  BY <1>2, <1>3

LEMMA StartAutoIfDoing ==
  ASSUME SessionTypes, NEW r \in S!Actor, NEW isOn, NEW those, S!StartAutoIf(r, isOn, those)
  PROVE  /\ act'[r].pc \in {"idle", "lock"}
         /\ \A a \in S!Actor \ {r} : act'[a] = act[a]
<1>1. CASE act' = [act EXCEPT ![r] = S!Rest]
  BY <1>1 DEF S!Rest, SessionTypes
<1>2. CASE S!Waits(r, "auto")
  BY <1>2 DEF S!Waits, S!Rest, SessionTypes
<1> QED
  BY <1>1, <1>2 DEF S!StartAutoIf

(* What a request does moves its own place, not to where the lock is held.  *)
LEMMA RequestMoves ==
  ASSUME SessionTypes, NEW r \in Req,
         \/ S!CallStart(r) \/ S!CallStop(r) \/ S!StopAsks(r) \/ S!CallConfig(r) \/ S!Cancel(r)
         \/ S!CallDelete(r) \/ S!CallDeleteData(r) \/ S!DeleteChunk(r) \/ S!DeleteEnds(r)
  PROVE  /\ act'[r].pc \in {"idle", "lock", "stopLock", "deleting"}
         /\ \A a \in S!Actor \ {r} : act'[a] = act[a]
         /\ \/ phase = "up" /\ act[r].pc = "idle"
            \/ act[r].pc \in {"stopLock", "deleting"}
            \/ phase = "closing" /\ act'[r].pc = "idle" /\ act[r].pc # "idle"
         /\ UNCHANGED <<phase, queue, freeId, run>>
         /\ lock' = lock \/ lock = r
         /\ spans' \subseteq spans
<1> r \in S!Actor
  BY DEF S!Actor
<1>1. CASE S!CallStart(r)
  BY <1>1 DEF S!CallStart, S!Calls, S!Waits, S!Rest, SessionTypes, S!fileVars, S!daemonVars,
     S!lockVars
<1>2. CASE S!CallStop(r)
  BY <1>2 DEF S!CallStop, S!Calls, S!Rest, SessionTypes, S!fileVars, S!daemonVars, S!lockVars
<1>3. CASE S!StopAsks(r)
  <2>1. \A a \in S!Actor \ {r} : act'[a] = act[a]
    BY <1>3 DEF S!StopAsks, SessionTypes
  <2>2. act'[r].pc \in {"idle", "lock"}
    <3>1. CASE act' = [act EXCEPT ![r] = S!Rest]
      BY <3>1 DEF S!Rest, SessionTypes
    <3>2. CASE act' = [act EXCEPT ![r].pc = "lock", ![r].reopen = auto]
      BY <3>2, ActTyped DEF SessionTypes, Acts
    <3> QED
      BY <1>3, <3>1, <3>2 DEF S!StopAsks
  <2> QED
    BY <1>3, <2>1, <2>2 DEF S!StopAsks, S!fileVars, S!daemonVars
<1>4. CASE S!CallConfig(r)
  <2>1. act'[r].pc \in {"idle", "lock"} /\ \A a \in S!Actor \ {r} : act'[a] = act[a]
    BY <1>4, StartAutoIfDoing DEF S!CallConfig
  <2> QED
    BY <1>4, <2>1 DEF S!CallConfig, S!Calls, S!fileVars, S!lockVars
<1>5. CASE S!Cancel(r)
  <2>1. act'[r].pc = "idle" /\ \A a \in S!Actor \ {r} : act'[a] = act[a]
    BY <1>5 DEF S!Cancel, S!Leaves, S!Rest, SessionTypes
  <2> QED
    BY <1>5, <2>1 DEF S!Cancel, S!Leaves, S!fileVars, S!daemonVars
<1>6. CASE S!CallDelete(r)
  <2>1. PICK s \in spans : S!DropLabel(r, s.n)
    BY <1>6 DEF S!CallDelete
  <2>2. act'[r].pc \in {"idle", "lock"} /\ \A a \in S!Actor \ {r} : act'[a] = act[a]
    BY <2>1, StartAutoIfDoing DEF S!DropLabel
  <2>3. spans' \subseteq spans
    BY <2>1 DEF S!DropLabel
  <2> QED
    BY <1>6, <2>2, <2>3 DEF S!CallDelete, S!Calls, S!daemonVars, S!lockVars
<1>7. CASE S!CallDeleteData(r)
  <2>1. act'[r].pc = "deleting" /\ \A a \in S!Actor \ {r} : act'[a] = act[a]
    BY <1>7 DEF S!CallDeleteData, S!Rest, SessionTypes
  <2> QED
    BY <1>7, <2>1 DEF S!CallDeleteData, S!Calls, S!fileVars, S!daemonVars, S!lockVars
<1>8. CASE S!DeleteChunk(r)
  BY <1>8 DEF S!DeleteChunk, S!daemonVars, S!lockVars
<1>9. CASE S!DeleteEnds(r)
  <2>1. act'[r].pc \in {"idle", "lock"} /\ \A a \in S!Actor \ {r} : act'[a] = act[a]
    BY <1>9, StartAutoIfDoing DEF S!DeleteEnds, S!DropLabel
  <2>2. spans' \subseteq spans
    BY <1>9 DEF S!DeleteEnds, S!DropLabel
  <2> QED
    BY <1>9, <2>1, <2>2 DEF S!DeleteEnds, S!daemonVars, S!lockVars
<1> QED
  BY <1>1, <1>2, <1>3, <1>4, <1>5, <1>6, <1>7, <1>8, <1>9

LEMMA RequestDoing ==
  ASSUME SessionTypes, NEW r \in Req, \A a \in S!Actor : Doing(a),
         \/ S!CallStart(r) \/ S!CallStop(r) \/ S!StopAsks(r) \/ S!CallConfig(r) \/ S!Cancel(r)
         \/ S!CallDelete(r) \/ S!CallDeleteData(r) \/ S!DeleteChunk(r) \/ S!DeleteEnds(r)
  PROVE  \A a \in S!Actor : Doing(a)'
<1>1. /\ act'[r].pc \in {"idle", "lock", "stopLock", "deleting"}
      /\ \A a \in S!Actor \ {r} : act'[a] = act[a]
      /\ UNCHANGED <<phase, freeId, run>> /\ (lock' = lock \/ lock = r) /\ spans' \subseteq spans
  BY RequestMoves
<1>2. \A i \in S!Stored' : lines'[i].run = run' \/ (i \in S!Stored /\ lines'[i] = lines[i])
  <2>1. CASE S!DeleteChunk(r)
    BY <2>1 DEF S!DeleteChunk, S!Stored, SessionTypes
  <2>2. CASE lines' = lines
    BY <2>2, SameRows
  <2> QED
    BY <2>1, <2>2 DEF S!CallStart, S!CallStop, S!StopAsks, S!CallConfig, S!Cancel, S!CallDelete,
       S!CallDeleteData,
                      S!DeleteEnds, S!fileVars
<1>3. r \in S!Actor /\ freeId' \in Nat /\ freeId' >= freeId
  BY <1>1, SessionAssumption DEF SessionTypes, S!Actor
<1>4. Doing(r)'
  BY <1>1, Idles
<1>5. ASSUME NEW a \in S!Actor \ {r} PROVE Doing(a)'
  <2>1. Holds(a) => lock' = a /\ spans' \subseteq spans /\ run' = run
    BY <1>1 DEF Doing
  <2>2. act[a].pc = "greeting" => phase' = "starting"
    BY <1>1 DEF Doing
  <2> QED
    BY <1>1, <1>2, <1>3, <2>1, <2>2, DoingStays
<1> QED
  BY <1>4, <1>5

LEMMA RunDoing ==
  ASSUME SessionTypes, Phases, \A a \in S!Actor : Doing(a),
         S!Start \/ S!Greeted \/ S!Shutdown \/ S!ShutdownCloses \/ S!Stopped \/ S!Killed
  PROVE  \A a \in S!Actor : Doing(a)'
<1> "daemon" \in S!Actor
  BY ActorFacts
<1>1. CASE S!Start
  <2>1. \A a \in S!Actor : act[a].pc = "idle"
    BY <1>1 DEF S!Start, Phases
  <2>2. act' = [act EXCEPT !["daemon"] = [S!Rest EXCEPT !.op = "auto", !.pc = "greeting"]]
        /\ phase' = "starting"
    BY <1>1 DEF S!Start
  <2>3. act'["daemon"].pc = "greeting" /\ \A a \in S!Actor \ {"daemon"} : act'[a].pc = "idle"
    BY <2>1, <2>2 DEF SessionTypes, S!Rest
  <2>4. Doing("daemon")'
    BY <2>2, <2>3 DEF Doing, Holds
  <2> QED
    BY <2>3, <2>4, Idles
<1>2. CASE S!Greeted
  <2>1. act'["daemon"].pc \in {"idle", "lock"} /\ \A a \in S!Actor \ {"daemon"} : act'[a] = act[a]
    <3>1. CASE act' = [act EXCEPT !["daemon"] = S!Rest]
      BY <3>1 DEF SessionTypes, S!Rest
    <3>2. CASE act' = [act EXCEPT !["daemon"].pc = "lock"]
      BY <3>2, ActTyped DEF SessionTypes, Acts
    <3> QED
      BY <1>2, <3>1, <3>2 DEF S!Greeted
  <2>2. UNCHANGED <<lines, spans, freeId, run, lock>>
    BY <1>2 DEF S!Greeted, S!fileVars, S!lockVars
  <2>3. \A a \in S!Actor \ {"daemon"} : act[a].pc # "greeting"
    BY DEF Doing
  <2>4. /\ spans' \subseteq spans
        /\ \A a \in S!Actor \ {"daemon"} : act[a].pc = "greeting" => phase' = phase
        /\ \A a \in S!Actor \ {"daemon"} :
             act'[a] = act[a] /\ (Holds(a) => lock' = lock \/ lock = "daemon")
    BY <2>1, <2>2, <2>3
  <2>6. \A a \in S!Actor \ {"daemon"} : Doing(a)'
    BY <2>2, <2>4, OthersDoing
  <2>5. Doing("daemon")'
    BY <2>1, Idles
  <2> QED
    BY <2>5, <2>6
<1>3. CASE S!Shutdown \/ S!Stopped
  <2>1. UNCHANGED <<lines, spans, freeId, run, lock, act>> /\ phase # "starting"
    BY <1>3 DEF S!Shutdown, S!Stopped, S!fileVars, S!lockVars
  <2> SUFFICES ASSUME NEW a \in S!Actor PROVE Doing(a)'
    OBVIOUS
  <2>2. freeId' \in Nat /\ freeId' >= freeId
    BY <2>1, SessionAssumption DEF SessionTypes
  <2>3. (Holds(a) => lock' = a) /\ act[a].pc # "greeting"
    BY <2>1 DEF Doing
  <2> QED
    BY <2>1, <2>2, <2>3, SameRows, DoingStays
<1>4. CASE S!ShutdownCloses
  <2>1. \A a \in S!Actor : act'[a].pc \in {"idle", "lock"}
    BY <1>4 DEF S!ShutdownCloses, S!Waits, S!Rest, SessionTypes
  <2> QED
    BY <2>1, Idles
<1>5. CASE S!Killed
  <2>1. \A a \in S!Actor : act'[a].pc = "idle"
    BY <1>5 DEF S!Killed, S!Rest
  <2> QED
    BY <2>1, Idles
<1> QED
  BY <1>1, <1>2, <1>3, <1>4, <1>5

LEMMA DoingStep ==
  ASSUME SessionTypes, Phases, Queued, SessionFiled, \A a \in S!Actor : Doing(a),
         [S!Next]_(S!vars)
  PROVE  \A a \in S!Actor : Doing(a)'
<1>1. CASE S!DeviceLine \/ UNCHANGED S!vars
  <2>1. UNCHANGED <<lines, spans, freeId, run, lock, act, phase>>
    BY <1>1 DEF S!DeviceLine, S!fileVars, S!lockVars, S!daemonVars, S!vars
  <2> SUFFICES ASSUME NEW a \in S!Actor PROVE Doing(a)'
    OBVIOUS
  <2>2. freeId' \in Nat /\ freeId' >= freeId
    BY <2>1, SessionAssumption DEF SessionTypes
  <2>3. (Holds(a) => lock' = a) /\ (act[a].pc = "greeting" => phase' = "starting")
    BY <2>1 DEF Doing
  <2> QED
    BY <2>1, <2>2, <2>3, SameRows, DoingStays
<1>2. CASE S!Written
  BY <1>2, WrittenDoing
<1>3. ASSUME NEW a \in S!Actor, S!Acquire(a) \/ S!EndResumes(a) \/ S!DrainResumes(a)
               \/ S!OpenResumes(a)
      PROVE  \A b \in S!Actor : Doing(b)'
  <2>1. CASE S!DrainResumes(a)
    <3>1. S!OpenAt(a, freeId, spans) /\ Holds(a) /\ UNCHANGED <<lines, phase, freeId, run>>
      BY <2>1 DEF S!DrainResumes, Holds
    <3> QED
      BY <3>1, OpenDoing
  <2> QED
    BY <1>3, <2>1, AcquireDoing, EndDoing, OpenEndDoing
<1> QED
  BY <1>1, <1>2, <1>3, RequestDoing, RunDoing DEF S!Next

-------------------------------------------------------------------------------
(* The phases of the daemon. *)

LEMMA PhasesStart == S!Init => Phases
BY SessionAssumption DEF S!Init, Phases, S!Rest, S!Actor

(* What an actor does moves its own place only, and not in a daemon that is *)
(* down; a request does not move while the daemon starts.                   *)
LEMMA ActorMoves ==
  ASSUME SessionTypes, Phases, \A a \in S!Actor : Doing(a), NEW a \in S!Actor,
         S!Acquire(a) \/ S!EndResumes(a) \/ S!DrainResumes(a) \/ S!OpenResumes(a)
  PROVE  /\ act[a].pc \in {"lock", "ending", "draining", "opening"}
         /\ act[a].pc = "lock" \/ act[a].got # 0
         /\ \A b \in S!Actor \ {a} : act'[b] = act[b]
         /\ freeId' = freeId
         /\ phase' = phase \/ (phase = "starting" /\ phase' = "up")
<1>1. CASE S!Acquire(a)
  BY <1>1 DEF S!Acquire, S!Drains, S!Leaves, SessionTypes
<1>2. CASE S!EndResumes(a)
  <2>1. \A b \in S!Actor \ {a} : act'[b] = act[b]
    BY <1>2, EndDoes DEF S!Drains, S!Leaves, S!OpenAt, SessionTypes
  <2> QED
    BY <1>2, <2>1, EndDoes
<1>3. CASE S!DrainResumes(a)
  BY <1>3 DEF S!DrainResumes, S!OpenAt, SessionTypes
<1>4. CASE S!OpenResumes(a)
  BY <1>4 DEF S!OpenResumes, S!Leaves, SessionTypes
<1> QED
  BY <1>1, <1>2, <1>3, <1>4

LEMMA PhasesKept ==
  ASSUME SessionTypes, Phases, phase # "down",
         phase' = phase \/ phase' \in {"up", "closing"},
         phase = "starting" => \A r \in Req : act'[r] = act[r],
         freeId' = freeId,
         act["daemon"].pc = "greeting" /\ act["daemon"].got = 0 => act'["daemon"] = act["daemon"]
  PROVE  Phases'
BY DEF Phases

LEMMA WrittenPhases ==
  ASSUME SessionTypes, Phases, Queued, S!Written
  PROVE  Phases'
<1> DEFINE l == Head(queue)
<1>1. l = queue[1] /\ 1 \in 1 .. Len(queue) /\ l \in Lined /\ Awaited(l)
  BY QueueLined, HeadLined DEF S!Written, Queued
<1>2. phase' = phase /\ phase # "down"
  BY DEF S!Written, Phases
<1>3. \A a \in S!Actor : act'[a].pc = act[a].pc
  <2>1. CASE act' = act
    BY <2>1
  <2>2. CASE act' = [act EXCEPT ![l.a].got = IF l.kind = "drain" THEN 1 ELSE freeId]
    BY <2>2, ActTyped DEF SessionTypes, Acts
  <2> QED
    BY <2>1, <2>2 DEF S!Written
<1>4. CASE l.kind # "drain"
  <2>1. freeId' <= MaxSpanId + 1
    BY <1>4, SessionAssumption DEF S!Written, SessionTypes
  <2> QED
    BY <1>2, <1>3, <2>1, ActorFacts DEF Phases
<1>5. CASE l.kind = "drain"
  <2>1. freeId' = freeId
    BY <1>5 DEF S!Written
  <2>2. act["daemon"].pc = "greeting" => act'["daemon"] = act["daemon"]
    <3>1. l.a = S!Nobody \/ (l.a \in Req /\ act[l.a].pc = "idle") \/ act[l.a].pc = "draining"
      BY <1>1, <1>5 DEF Awaited
    <3>2. CASE l.a = S!Nobody \/ act[l.a].pc = "idle"
      BY <3>2 DEF S!Written
    <3>3. CASE act[l.a].pc = "draining" /\ l.a # S!Nobody
      <4>1. act' = [act EXCEPT ![l.a].got = 1]
        BY <1>5, <3>3 DEF S!Written
      <4>2. act["daemon"].pc = "greeting" => l.a # "daemon"
        BY <3>3
      <4> QED
        BY <4>1, <4>2, ActorFacts DEF SessionTypes
    <3> QED
      BY <3>1, <3>2, <3>3
  <2> QED
    BY <1>2, <1>3, <2>1, <2>2, ActorFacts DEF Phases
<1> QED
  BY <1>4, <1>5

LEMMA PhasesStep ==
  ASSUME SessionTypes, Phases, Queued, \A a \in S!Actor : Doing(a), [S!Next]_(S!vars)
  PROVE  Phases'
<1> /\ "daemon" \in S!Actor /\ Req \subseteq S!Actor /\ \A r \in Req : r # "daemon"
  BY ActorFacts
<1>1. CASE S!DeviceLine
  BY <1>1, PhasesKept DEF S!DeviceLine
<1>2. CASE S!Written
  BY <1>2, WrittenPhases
<1>3. ASSUME NEW a \in S!Actor, S!Acquire(a) \/ S!EndResumes(a) \/ S!DrainResumes(a)
               \/ S!OpenResumes(a)
      PROVE  Phases'
  <2>1. /\ act[a].pc \in {"lock", "ending", "draining", "opening"}
        /\ \A b \in S!Actor \ {a} : act'[b] = act[b]
        /\ freeId' = freeId
        /\ phase' = phase \/ (phase = "starting" /\ phase' = "up")
    BY <1>3, ActorMoves
  <2>2. phase # "down" /\ (phase = "starting" => a = "daemon")
    BY <2>1 DEF Phases, S!Actor
  <2>3. act["daemon"].pc = "greeting" => act'["daemon"] = act["daemon"]
    BY <2>1
  <2>4. phase = "starting" => \A r \in Req : act'[r] = act[r]
    BY <2>1, <2>2
  <2> QED
    BY <2>1, <2>2, <2>3, <2>4, PhasesKept
<1>4. ASSUME NEW r \in Req,
             \/ S!CallStart(r) \/ S!CallStop(r) \/ S!StopAsks(r) \/ S!CallConfig(r) \/ S!Cancel(r)
             \/ S!CallDelete(r) \/ S!CallDeleteData(r) \/ S!DeleteChunk(r) \/ S!DeleteEnds(r)
      PROVE  Phases'
  <2>1. /\ \A a \in S!Actor \ {r} : act'[a] = act[a]
        /\ \/ phase = "up" /\ act[r].pc = "idle"
           \/ act[r].pc \in {"stopLock", "deleting"}
           \/ phase = "closing" /\ act'[r].pc = "idle" /\ act[r].pc # "idle"
        /\ UNCHANGED <<phase, freeId>>
    BY <1>4, RequestMoves
  <2>2. phase # "down" /\ phase # "starting"
    BY <2>1 DEF Phases
  <2> QED
    BY <2>1, <2>2, PhasesKept
<1>5. CASE S!Start
  <2>1. \A a \in S!Actor : act[a].pc = "idle"
    BY <1>5 DEF S!Start, Phases
  <2>2. act' = [act EXCEPT !["daemon"] = [S!Rest EXCEPT !.op = "auto", !.pc = "greeting"]]
        /\ phase' = "starting"
    BY <1>5 DEF S!Start
  <2>3. /\ act'["daemon"].pc = "greeting" /\ act'["daemon"].got = 0
        /\ \A a \in S!Actor \ {"daemon"} : act'[a].pc = "idle"
    BY <2>1, <2>2 DEF SessionTypes, S!Rest
  <2> QED
    BY <2>2, <2>3 DEF Phases
<1>6. CASE S!Greeted
  <2>1. /\ \A a \in S!Actor \ {"daemon"} : act'[a] = act[a]
        /\ phase' = phase \/ phase' = "up"
        /\ act["daemon"].pc = "greeting" /\ act["daemon"].got # 0 /\ freeId' = freeId
    BY <1>6 DEF S!Greeted, SessionTypes
  <2>2. phase # "down"
    BY <2>1 DEF Phases
  <2> QED
    BY <2>1, <2>2, PhasesKept
<1>7. CASE S!Shutdown
  BY <1>7, PhasesKept DEF S!Shutdown
<1>8. CASE S!ShutdownCloses
  <2>1. \A r \in Req : act'[r] = act[r]
    BY <1>8 DEF S!ShutdownCloses, S!Waits, SessionTypes
  <2> QED
    BY <1>8, <2>1, PhasesKept DEF S!ShutdownCloses, S!daemonVars
<1>9. CASE S!Stopped
  BY <1>9 DEF S!Stopped, Phases
<1>10. CASE S!Killed
  BY <1>10 DEF S!Killed, Phases, S!Rest
<1>11. CASE UNCHANGED S!vars
  BY <1>11 DEF S!vars, S!daemonVars, Phases
<1> QED
  BY <1>1, <1>2, <1>3, <1>4, <1>5, <1>6, <1>7, <1>8, <1>9, <1>10, <1>11 DEF S!Next

-------------------------------------------------------------------------------
(* The queue: a waiter has one line in it, so that the lines of markers are *)
(* no more than the actors.                                                 *)

LEMMA MarkersFinite ==
  /\ Markers \subseteq S!Actor
  /\ IsFiniteSet(Markers) /\ Cardinality(Markers) \in Nat
  /\ Cardinality(Markers) <= Cardinality(S!Actor)
BY ActorFacts, FS_Subset, FS_CardinalityType DEF Markers

(* An actor that nothing is awaited for has no line.                        *)
LEMMA NotWaiting ==
  ASSUME SessionTypes, Queued, NEW a \in S!Actor,
         act[a].pc = "idle" => phase # "closing" \/ a \notin Req,
         act[a].pc \in {"idle", "lock", "stopLock", "deleting"} \/ act[a].got # 0
  PROVE  a \notin Markers
<1> SUFFICES ASSUME NEW k \in 1 .. Len(queue), queue[k].a = a PROVE FALSE
  BY DEF Markers
<1>1. Awaited(queue[k])
  BY DEF Queued
<1> QED
  BY <1>1, ActorFacts DEF Awaited

(* The others' lines are awaited as before.                                 *)
LEMMA AwaitedStays ==
  ASSUME SessionTypes, NEW l \in Lined, Awaited(l), l.a # S!Nobody => act'[l.a] = act[l.a],
         phase' = phase \/ phase # "closing"
  PROVE  Awaited(l)'
BY DEF Awaited

LEMMA QueueStays ==
  ASSUME SessionTypes, Queued, queue' = queue, phase' = phase \/ phase # "closing",
         NEW a \in S!Actor, a \notin Markers, \A b \in S!Actor \ {a} : act'[b] = act[b]
  PROVE  Queued'
<1>1. \A k \in 1 .. Len(queue) : queue[k] \in Lined
  BY QueueLined
<1>2. ASSUME NEW k \in 1 .. Len(queue) PROVE Awaited(queue[k])'
  <2>1. queue[k] \in Lined /\ Awaited(queue[k])
    BY <1>1 DEF Queued
  <2>2. queue[k].a # S!Nobody => act'[queue[k].a] = act[queue[k].a]
    BY <2>1 DEF Markers, Lined
  <2>3. Awaited(queue[k]) /\ queue'[k] = queue[k]
    BY <2>1
  <2> QED
    BY <2>1, <2>2, <2>3 DEF Awaited
<1>3. Markers' = Markers
  BY DEF Markers
<1> QED
  BY <1>2, <1>3 DEF Queued

LEMMA AppendLine ==
  ASSUME NEW l \in Lined, NEW q \in Seq(Lined)
  PROVE  /\ Append(q, l) \in Seq(Lined) /\ Len(Append(q, l)) = Len(q) + 1
         /\ \A k \in 1 .. Len(q) : Append(q, l)[k] = q[k]
         /\ Append(q, l)[Len(q) + 1] = l
OBVIOUS

LEMMA QueueGrows ==
  ASSUME SessionTypes, Queued, NEW l \in Lined, queue' = Append(queue, l), Awaited(l)',
         phase' = phase \/ phase # "closing",
         NEW a \in S!Actor, a \notin Markers, l.a = a, \A b \in S!Actor \ {a} : act'[b] = act[b]
  PROVE  Queued'
<1>1. /\ queue \in Seq(Lined) /\ queue' \in Seq(Lined) /\ Len(queue') = Len(queue) + 1
      /\ \A k \in 1 .. Len(queue) : queue'[k] = queue[k] /\ queue[k] \in Lined
      /\ queue'[Len(queue) + 1] = l /\ Len(queue) \in Nat
  BY QueueLined, AppendLine
<1>2. \A k \in 1 .. Len(queue) : queue[k].a # a
  BY DEF Markers
<1>3. ASSUME NEW k \in 1 .. Len(queue') PROVE Awaited(queue[k])'
  <2>1. CASE k = Len(queue) + 1
    BY <1>1, <2>1 DEF Awaited
  <2>2. CASE k # Len(queue) + 1
    <3>1. k \in 1 .. Len(queue)
      BY <1>1, <2>2
    <3>2. queue'[k] = queue[k] /\ queue[k] \in Lined /\ Awaited(queue[k])
      BY <1>1, <3>1 DEF Queued
    <3>3. queue[k].a # S!Nobody => act'[queue[k].a] = act[queue[k].a]
      BY <1>2, <3>1, <3>2 DEF Lined
    <3> QED
      BY <3>2, <3>3 DEF Awaited
  <2> QED
    BY <2>1, <2>2
<1>4. \A j, k \in 1 .. Len(queue') : queue'[j].a = queue'[k].a /\ queue'[j].a # S!Nobody => j = k
  <2> SUFFICES ASSUME NEW j \in 1 .. Len(queue'), NEW k \in 1 .. Len(queue'),
                      queue'[j].a = queue'[k].a, queue'[j].a # S!Nobody
               PROVE  j = k
    OBVIOUS
  <2>1. CASE j \in 1 .. Len(queue) /\ k \in 1 .. Len(queue)
    BY <1>1, <2>1 DEF Queued
  <2>2. CASE j = Len(queue) + 1 /\ k \in 1 .. Len(queue)
    BY <1>1, <1>2, <2>2
  <2>3. CASE k = Len(queue) + 1 /\ j \in 1 .. Len(queue)
    BY <1>1, <1>2, <2>3
  <2>4. CASE j = Len(queue) + 1 /\ k = Len(queue) + 1
    BY <2>4
  <2>5. \A m \in 1 .. Len(queue') : m \in 1 .. Len(queue) \/ m = Len(queue) + 1
    BY <1>1
  <2> QED
    BY <2>1, <2>2, <2>3, <2>4, <2>5
<1>5. Markers' = Markers \cup {a}
  <2>1. ASSUME NEW b \in Markers' PROVE b \in Markers \cup {a}
    <3>1. PICK k \in 1 .. Len(queue') : queue'[k].a = b
      BY DEF Markers
    <3>2. k = Len(queue) + 1 => b = a
      BY <1>1, <3>1
    <3>3. k # Len(queue) + 1 => k \in 1 .. Len(queue) /\ queue[k].a = b
      BY <1>1, <3>1
    <3> QED
      BY <3>2, <3>3 DEF Markers
  <2>2. ASSUME NEW b \in Markers PROVE b \in Markers'
    <3>1. PICK k \in 1 .. Len(queue) : queue[k].a = b
      BY DEF Markers
    <3>2. k \in 1 .. Len(queue') /\ queue'[k].a = b
      BY <1>1, <3>1
    <3> QED
      BY <3>2 DEF Markers
  <2>3. a \in Markers'
    <3>1. Len(queue) + 1 \in 1 .. Len(queue')
      BY <1>1
    <3> QED
      BY <1>1, <3>1 DEF Markers
  <2> QED
    BY <2>1, <2>2, <2>3
<1>6. Cardinality(Markers \cup {a}) = Cardinality(Markers) + 1
  BY MarkersFinite, FS_AddElement
<1>7. Len(queue') <= QueueMax + Cardinality(Markers')
  <2>1. Len(queue) <= QueueMax + Cardinality(Markers)
    BY DEF Queued
  <2> QED
    BY <1>1, <1>5, <1>6, <2>1, MarkersFinite, SessionAssumption
<1> QED
  BY <1>3, <1>4, <1>7 DEF Queued

LEMMA QueueEmpty == ASSUME queue' = <<>> PROVE Queued'
<1>1. Markers' = {} /\ Len(queue') = 0
  BY DEF Markers
<1>2. Cardinality({}) = 0
  BY FS_EmptySet
<1> QED
  BY <1>1, <1>2, SessionAssumption DEF Queued

LEMMA DeviceQueued ==
  ASSUME SessionTypes, Queued, S!DeviceLine
  PROVE  Queued'
<1> DEFINE l == S!Line("traffic", S!Nobody)
<1>1. l \in Lined /\ l.a = S!Nobody /\ l.kind = "traffic"
  BY DEF S!Line, Lined
<1>2. queue' = Append(queue, l) /\ Len(queue) < QueueMax /\ UNCHANGED <<act, phase>>
  BY DEF S!DeviceLine
<1> HIDE DEF l
<1>3. /\ queue \in Seq(Lined) /\ queue' \in Seq(Lined) /\ Len(queue') = Len(queue) + 1
      /\ \A k \in 1 .. Len(queue) : queue'[k] = queue[k] /\ queue[k] \in Lined
      /\ queue'[Len(queue) + 1] = l /\ Len(queue) \in Nat
  BY <1>1, <1>2, QueueLined, AppendLine
<1>4. \A m \in 1 .. Len(queue') : m \in 1 .. Len(queue) \/ m = Len(queue) + 1
  BY <1>3
<1>5. ASSUME NEW k \in 1 .. Len(queue') PROVE Awaited(queue[k])'
  <2>1. CASE k = Len(queue) + 1
    BY <1>1, <1>3, <2>1 DEF Awaited
  <2>2. CASE k \in 1 .. Len(queue)
    <3>1. queue'[k] = queue[k] /\ Awaited(queue[k])
      BY <1>3, <2>2 DEF Queued
    <3> QED
      BY <1>2, <3>1 DEF Awaited
  <2> QED
    BY <1>4, <2>1, <2>2
<1>6. \A j, k \in 1 .. Len(queue') : queue'[j].a = queue'[k].a /\ queue'[j].a # S!Nobody => j = k
  <2> SUFFICES ASSUME NEW j \in 1 .. Len(queue'), NEW k \in 1 .. Len(queue'),
                      queue'[j].a = queue'[k].a, queue'[j].a # S!Nobody
               PROVE  j = k
    OBVIOUS
  <2>1. j \in 1 .. Len(queue) /\ k \in 1 .. Len(queue)
    BY <1>1, <1>3, <1>4
  <2> QED
    BY <1>3, <2>1 DEF Queued
<1>7. IsFiniteSet(S!Actor) /\ Markers' \subseteq S!Actor
  BY ActorFacts DEF Markers
<1>8. Cardinality(Markers') \in Nat
  BY <1>7, FS_Subset, FS_CardinalityType
<1>9. Len(queue') <= QueueMax + Cardinality(Markers')
  BY <1>2, <1>3, <1>8, SessionAssumption
<1> QED
  BY <1>5, <1>6, <1>9 DEF Queued

LEMMA WrittenQueued ==
  ASSUME SessionTypes, Queued, S!Written
  PROVE  Queued'
<1> DEFINE l == queue[1]
<1>1. /\ queue \in Seq(Lined) /\ queue # <<>> /\ queue' = Tail(queue) /\ phase' = phase
      /\ l = Head(queue) /\ l \in Lined
  BY QueueLined DEF S!Written
<1>2. /\ Len(queue) \in Nat /\ Len(queue) >= 1 /\ Len(queue') = Len(queue) - 1
      /\ \A k \in 1 .. Len(queue') : queue'[k] = queue[k + 1] /\ k + 1 \in 1 .. Len(queue)
      /\ \A k \in 1 .. Len(queue) : queue[k] \in Lined
  BY <1>1
<1>3. l.a = S!Nobody \/ act[l.a].pc = "idle" \/ \E n : act' = [act EXCEPT ![l.a].got = n]
  BY <1>1 DEF S!Written
<1>4. l.a = S!Nobody \/ act[l.a].pc = "idle" => act' = act
  BY <1>1 DEF S!Written
<1> HIDE DEF l
<1>5. ASSUME NEW k \in 1 .. Len(queue') PROVE Awaited(queue[k])'
  <2>1. /\ queue'[k] = queue[k + 1] /\ k + 1 \in 1 .. Len(queue) /\ k + 1 # 1
        /\ queue[k + 1] \in Lined /\ Awaited(queue[k + 1])
    BY <1>2 DEF Queued
  <2>2. queue[k + 1].a # S!Nobody => queue[k + 1].a # l.a
    BY <1>2, <2>1 DEF Queued, l
  <2>3. queue[k + 1].a # S!Nobody => act'[queue[k + 1].a] = act[queue[k + 1].a]
    BY <1>3, <1>4, <2>1, <2>2 DEF Lined, SessionTypes
  <2> QED
    BY <1>1, <2>1, <2>3 DEF Awaited
<1>6. \A j, k \in 1 .. Len(queue') : queue'[j].a = queue'[k].a /\ queue'[j].a # S!Nobody => j = k
  <2> SUFFICES ASSUME NEW j \in 1 .. Len(queue'), NEW k \in 1 .. Len(queue'),
                      queue'[j].a = queue'[k].a, queue'[j].a # S!Nobody
               PROVE  j = k
    OBVIOUS
  <2>1. j + 1 = k + 1
    BY <1>2 DEF Queued
  <2> QED
    BY <1>2, <2>1
<1>7. Markers \subseteq Markers' \cup {l.a}
  <2> SUFFICES ASSUME NEW b \in Markers, b # l.a PROVE b \in Markers'
    OBVIOUS
  <2>1. PICK k \in 1 .. Len(queue) : queue[k].a = b
    BY DEF Markers
  <2>2. k - 1 \in 1 .. Len(queue') /\ k = (k - 1) + 1
    BY <1>2, <2>1 DEF l
  <2>3. queue'[k - 1].a = b
    BY <1>2, <2>1, <2>2
  <2> QED
    BY <2>2, <2>3 DEF Markers
<1>8. IsFiniteSet(S!Actor) /\ Markers' \subseteq S!Actor
  BY ActorFacts DEF Markers
<1>9. IsFiniteSet(Markers') /\ Cardinality(Markers') \in Nat
  BY <1>8, FS_Subset, FS_CardinalityType
<1>10. /\ IsFiniteSet(Markers' \cup {l.a})
       /\ Cardinality(Markers' \cup {l.a}) <= Cardinality(Markers') + 1
  BY <1>9, FS_AddElement
<1>11. Cardinality(Markers) <= Cardinality(Markers' \cup {l.a})
  BY <1>7, <1>10, FS_Subset
<1>12. Cardinality(Markers' \cup {l.a}) \in Nat
  BY <1>10, FS_CardinalityType
<1>13. Len(queue) <= QueueMax + Cardinality(Markers)
  BY DEF Queued
<1>14. Len(queue') <= QueueMax + Cardinality(Markers')
  BY <1>2, <1>9, <1>10, <1>11, <1>12, <1>13, MarkersFinite, SessionAssumption
<1> QED
  BY <1>5, <1>6, <1>14 DEF Queued

LEMMA OpenQueued ==
  ASSUME SessionTypes, Queued, NEW a \in S!Actor, NEW lo, NEW kept, S!OpenAt(a, lo, kept),
         a \notin Markers, phase' = phase
  PROVE  Queued'
<1> DEFINE l == S!Line("host", a)
<1>1. l \in Lined /\ l.a = a /\ l.kind = "host"
  BY DEF S!Line, Lined
<1>2. queue' = Append(queue, l) /\ act' = [act EXCEPT ![a].pc = "opening", ![a].got = 0]
  BY DEF S!OpenAt
<1>3. act'[a].pc = "opening" /\ act'[a].got = 0
  BY <1>2, ActTyped DEF SessionTypes, Acts
<1>4. \A b \in S!Actor \ {a} : act'[b] = act[b]
  BY <1>2 DEF SessionTypes
<1> HIDE DEF l
<1>5. Awaited(l)'
  BY <1>1, <1>3, ActorFacts DEF Awaited
<1> QED
  BY <1>1, <1>2, <1>4, <1>5, QueueGrows

LEMMA DrainQueued ==
  ASSUME SessionTypes, Queued, NEW a \in S!Actor, S!Drains(a), a \notin Markers, phase' = phase
  PROVE  Queued'
<1> DEFINE l == S!Line("drain", a)
<1>1. l \in Lined /\ l.a = a /\ l.kind = "drain"
  BY DEF S!Line, Lined
<1>2. queue' = Append(queue, l) /\ act' = [act EXCEPT ![a].pc = "draining", ![a].got = 0]
  BY DEF S!Drains
<1>3. act'[a].pc = "draining" /\ act'[a].got = 0
  BY <1>2, ActTyped DEF SessionTypes, Acts
<1>4. \A b \in S!Actor \ {a} : act'[b] = act[b]
  BY <1>2 DEF SessionTypes
<1> HIDE DEF l
<1>5. Awaited(l)'
  BY <1>1, <1>3, ActorFacts DEF Awaited
<1> QED
  BY <1>1, <1>2, <1>4, <1>5, QueueGrows

LEMMA LeaveQueued ==
  ASSUME SessionTypes, Queued, NEW a \in S!Actor, S!Leaves(a), queue' = queue, a \notin Markers,
         phase' = phase \/ phase # "closing"
  PROVE  Queued'
<1>1. \A b \in S!Actor \ {a} : act'[b] = act[b]
  BY DEF S!Leaves, SessionTypes
<1> QED
  BY <1>1, QueueStays

LEMMA AcquireQueued ==
  ASSUME SessionTypes, Queued, NEW a \in S!Actor, S!Acquire(a)
  PROVE  Queued'
<1>1. a \notin Markers
  BY NotWaiting DEF S!Acquire
<1>2. phase' = phase
  BY DEF S!Acquire
<1>3. CASE /\ S!Active # {}
           /\ \E s \in S!Active : act' = [act EXCEPT ![a].pc = "ending", ![a].of = s.n,
                                          ![a].got = 0]
           /\ queue' = Append(queue, S!Line("host", a))
  <2> DEFINE l == S!Line("host", a)
  <2>1. l \in Lined /\ l.a = a /\ l.kind = "host"
    BY DEF S!Line, Lined
  <2>2. PICK s \in S!Active : act' = [act EXCEPT ![a].pc = "ending", ![a].of = s.n, ![a].got = 0]
    BY <1>3
  <2>3. act'[a].pc = "ending" /\ act'[a].got = 0
    BY <2>2, ActTyped DEF SessionTypes, Acts
  <2>4. \A b \in S!Actor \ {a} : act'[b] = act[b]
    BY <2>2 DEF SessionTypes
  <2>5. queue' = Append(queue, l)
    BY <1>3
  <2> HIDE DEF l
  <2>6. Awaited(l)'
    BY <2>1, <2>3, ActorFacts DEF Awaited
  <2> QED
    BY <1>1, <1>2, <2>1, <2>4, <2>5, <2>6, QueueGrows
<1>4. CASE S!Drains(a)
  BY <1>1, <1>2, <1>4, DrainQueued
<1>5. CASE S!Leaves(a) /\ queue' = queue
  BY <1>1, <1>2, <1>5, LeaveQueued
<1> QED
  BY <1>3, <1>4, <1>5 DEF S!Acquire

LEMMA EndQueued ==
  ASSUME SessionTypes, Queued, NEW a \in S!Actor, S!EndResumes(a)
  PROVE  Queued'
<1>1. act[a].pc = "ending" /\ act[a].got # 0 /\ phase' = phase
  BY EndDoes
<1>2. a \notin Markers
  BY <1>1, NotWaiting
<1>3. CASE S!OpenAt(a, act[a].got + 1, Kept(a))
  BY <1>1, <1>2, <1>3, OpenQueued
<1>4. CASE S!Drains(a)
  BY <1>1, <1>2, <1>4, DrainQueued
<1>5. CASE S!Leaves(a) /\ queue' = queue
  BY <1>1, <1>2, <1>5, LeaveQueued
<1> QED
  BY <1>3, <1>4, <1>5, EndDoes

LEMMA StartQueued ==
  ASSUME SessionTypes, S!Start
  PROVE  Queued'
<1>1. queue' = <<S!Line("host", "daemon")>> /\ "daemon" \in S!Actor /\ "daemon" # S!Nobody
  BY ActorFacts DEF S!Start
<1>2. Len(queue') = 1 /\ queue'[1].a = "daemon" /\ queue'[1].kind = "host"
  BY <1>1 DEF S!Line
<1>3. act'["daemon"].got = 0 /\ act'["daemon"].pc = "greeting"
  BY <1>1 DEF S!Start, SessionTypes, S!Rest
<1>4. \A k \in 1 .. Len(queue') : k = 1
  BY <1>2
<1>5. \A k \in 1 .. Len(queue') : Awaited(queue[k])'
  BY <1>1, <1>2, <1>3, <1>4 DEF Awaited
<1>6. Markers' = {"daemon"}
  BY <1>1, <1>2, <1>4 DEF Markers
<1>7. Cardinality({"daemon"}) = 1
  BY FS_Singleton
<1>8. Len(queue') <= QueueMax + Cardinality(Markers')
  BY <1>2, <1>6, <1>7, SessionAssumption
<1> QED
  BY <1>4, <1>5, <1>8 DEF Queued

LEMMA RequestQueued ==
  ASSUME SessionTypes, Queued, NEW r \in Req,
         \/ S!CallStart(r) \/ S!CallStop(r) \/ S!StopAsks(r) \/ S!CallConfig(r) \/ S!Cancel(r)
         \/ S!CallDelete(r) \/ S!CallDeleteData(r) \/ S!DeleteChunk(r) \/ S!DeleteEnds(r)
  PROVE  Queued'
<1>1. /\ act'[r].pc \in {"idle", "lock", "stopLock", "deleting"}
      /\ \A a \in S!Actor \ {r} : act'[a] = act[a]
      /\ \/ phase = "up" /\ act[r].pc = "idle"
         \/ act[r].pc \in {"stopLock", "deleting"}
         \/ phase = "closing" /\ act'[r].pc = "idle" /\ act[r].pc # "idle"
      /\ UNCHANGED <<phase, queue>> /\ r \in S!Actor
  BY RequestMoves, ActorFacts
<1>2. CASE \/ phase = "up" /\ act[r].pc = "idle"
           \/ act[r].pc \in {"stopLock", "deleting"}
  <2>1. r \notin Markers
    BY <1>1, <1>2, NotWaiting
  <2> QED
    BY <1>1, <2>1, QueueStays
<1>3. CASE phase = "closing" /\ act'[r].pc = "idle"
  <2>1. ASSUME NEW k \in 1 .. Len(queue) PROVE Awaited(queue[k])'
    <3>1. queue[k] \in Lined /\ Awaited(queue[k]) /\ queue'[k] = queue[k] /\ phase' = "closing"
      BY <1>1, <1>3, QueueLined DEF Queued
    <3>2. CASE queue[k].a = r
      BY <1>1, <1>3, <3>1, <3>2, ActorFacts DEF Awaited
    <3>3. CASE queue[k].a # r
      <4>1. queue[k].a # S!Nobody => act'[queue[k].a] = act[queue[k].a]
        BY <1>1, <3>1, <3>3 DEF Lined
      <4> QED
        BY <1>1, <3>1, <4>1 DEF Awaited
    <3> QED
      BY <3>2, <3>3
  <2>2. Markers' = Markers
    BY <1>1 DEF Markers
  <2> QED
    BY <1>1, <2>1, <2>2 DEF Queued
<1> QED
  BY <1>1, <1>2, <1>3

LEMMA QueuedStep ==
  ASSUME SessionTypes, Phases, Queued, \A a \in S!Actor : Doing(a), [S!Next]_(S!vars)
  PROVE  Queued'
<1> "daemon" \in S!Actor /\ "daemon" \notin Req
  BY ActorFacts
<1>1. ASSUME NEW a \in S!Actor, S!Acquire(a) \/ S!EndResumes(a) \/ S!DrainResumes(a)
               \/ S!OpenResumes(a)
      PROVE  Queued'
  <2>1. CASE S!DrainResumes(a)
    <3>1. a \notin Markers
      BY <2>1, NotWaiting DEF S!DrainResumes
    <3> QED
      BY <2>1, <3>1, OpenQueued DEF S!DrainResumes
  <2>2. CASE S!OpenResumes(a)
    <3>1. a \notin Markers
      BY <2>2, NotWaiting DEF S!OpenResumes
    <3>2. phase' = phase \/ phase # "closing"
      BY <2>2 DEF S!OpenResumes
    <3> QED
      BY <2>2, <3>1, <3>2, LeaveQueued DEF S!OpenResumes
  <2> QED
    BY <1>1, <2>1, <2>2, AcquireQueued, EndQueued
<1>2. CASE S!Greeted
  <2>1. "daemon" \notin Markers
    BY <1>2, NotWaiting DEF S!Greeted
  <2>2. phase' = phase \/ phase # "closing"
    <3>1. phase = "starting"
      BY <1>2 DEF S!Greeted, Doing
    <3> QED
      BY <3>1
  <2>3. \A b \in S!Actor \ {"daemon"} : act'[b] = act[b]
    BY <1>2 DEF S!Greeted, SessionTypes
  <2> QED
    BY <1>2, <2>1, <2>2, <2>3, QueueStays DEF S!Greeted
<1>3. CASE S!Shutdown
  <2>1. \A k \in 1 .. Len(queue) : Awaited(queue[k])'
    BY <1>3 DEF S!Shutdown, Awaited, Queued
  <2>2. queue' = queue /\ Markers' = Markers
    BY <1>3 DEF S!Shutdown, Markers
  <2> QED
    BY <2>1, <2>2 DEF Queued
<1>4. CASE S!ShutdownCloses
  <2>1. "daemon" \notin Markers
    BY <1>4, NotWaiting DEF S!ShutdownCloses
  <2>2. \A b \in S!Actor \ {"daemon"} : act'[b] = act[b]
    BY <1>4 DEF S!ShutdownCloses, S!Waits, SessionTypes
  <2> QED
    BY <1>4, <2>1, <2>2, QueueStays DEF S!ShutdownCloses, S!daemonVars
<1>5. CASE S!Stopped \/ S!Killed
  BY <1>5, QueueEmpty DEF S!Stopped, S!Killed
<1>6. CASE UNCHANGED S!vars
  <2>1. queue' = queue /\ phase' = phase /\ act' = act /\ Markers' = Markers
    BY <1>6 DEF S!vars, S!daemonVars, Markers
  <2> QED
    BY <2>1 DEF Queued, Awaited
<1> QED
  BY <1>1, <1>2, <1>3, <1>4, <1>5, <1>6, DeviceQueued, WrittenQueued, RequestQueued, StartQueued
     DEF S!Next

-------------------------------------------------------------------------------
(* The invariant. *)

SessionInd == SessionTypes /\ SessionInv

LEMMA SessionStart == S!Init => SessionInd
<1> SUFFICES ASSUME S!Init PROVE SessionInd
  OBVIOUS
<1>1. SessionTypes /\ Phases
  BY SessionTypesStart, PhasesStart
<1>2. S!Stored = {} /\ S!Running = {} /\ spans = {} /\ queue = <<>>
  BY DEF S!Init, S!Stored, S!Running, S!NoRow
<1>3. SessionFiled
  BY <1>2 DEF SessionFiled, Ordered, OwnRun, S!NoLineBetweenRuns, S!AutoSessionOfOneRun
<1>4. \A a \in S!Actor : Doing(a)
  BY DEF S!Init, S!Rest, Doing, Holds
<1>5. Queued
  <2>1. Markers = {} /\ Len(queue) = 0
    BY <1>2 DEF Markers
  <2>2. Cardinality({}) = 0
    BY FS_EmptySet
  <2> QED
    BY <2>1, <2>2, SessionAssumption DEF Queued
<1> QED
  BY <1>1, <1>3, <1>4, <1>5 DEF SessionInd, SessionInv, SessionFiled

LEMMA SessionStep == SessionInd /\ [S!Next]_(S!vars) => SessionInd'
<1> SUFFICES ASSUME SessionInd, [S!Next]_(S!vars) PROVE SessionInd'
  OBVIOUS
<1>1. SessionTypes /\ Phases /\ Queued /\ SessionFiled /\ \A a \in S!Actor : Doing(a)
  BY DEF SessionInd, SessionInv, SessionFiled
<1>2. SessionTypes' /\ Phases' /\ Queued' /\ SessionFiled' /\ \A a \in S!Actor : Doing(a)'
  BY <1>1, SessionTypesStep, PhasesStep, QueuedStep, FiledStep, DoingStep
<1> QED
  BY <1>2 DEF SessionInd, SessionInv, SessionFiled

LEMMA SessionShows ==
  SessionInd => S!TypeOK /\ S!SpansDisjoint /\ S!NoLineBetweenRuns /\ S!AutoSessionOfOneRun
<1> SUFFICES ASSUME SessionInd
             PROVE  S!TypeOK /\ S!SpansDisjoint /\ S!NoLineBetweenRuns /\ S!AutoSessionOfOneRun
  OBVIOUS
<1>1. SessionTypes /\ Ordered /\ Queued /\ S!NoLineBetweenRuns /\ S!AutoSessionOfOneRun
  BY DEF SessionInd, SessionInv
<1>2. \A s \in spans : s.n \in 1 .. opened /\ s.lo \in 1 .. MaxSpanId + 2
        /\ s.hi \in 0 .. MaxSpanId + 1
  BY <1>1, SessionTyped, SessionAssumption DEF SessionTypes
<1>3. Len(queue) <= QueueMax + Cardinality(S!Actor)
  <2>1. Len(queue) \in Nat /\ Len(queue) <= QueueMax + Cardinality(Markers)
    BY <1>1, QueueLined DEF Queued
  <2> QED
    BY <2>1, MarkersFinite, ActorFacts, SessionAssumption
<1> QED
  BY <1>1, <1>2, <1>3, OrderedDisjoint, SpansCounted DEF S!TypeOK, SessionTypes

-------------------------------------------------------------------------------
(* The sizes are numbers, and a request is neither nobody nor a purge. *)
Sizes ==
  /\ IsFiniteSet(Req) /\ Req \cap {"", "purge"} = {}
  /\ Workers \in Nat /\ Waiting \in Nat /\ WaitersMax \in Nat

-------------------------------------------------------------------------------
Live   == {"queued", "files", "copy", "zip"}
Over   == {"failed", "finished", "cancelled"}
Places == {"idle", "parked", "lock", "admitted", "awaiting", "sending"}

Job == [st : {"none"} \cup Live \cup Over, todo : {<<>>}, files : SUBSET {"out", "copy"},
        abandoned : BOOLEAN, told : BOOLEAN, sweeps : BOOLEAN]

Shapes ==
  /\ state \in {"up", "stopping", "down"} /\ freed \in BOOLEAN /\ builds \in Nat
  /\ pc \in [Req -> Places] /\ kind \in [Req -> {"db", "bundle"}]
  /\ woken \in [Req -> BOOLEAN] /\ left \in [Req -> BOOLEAN] /\ torn \in [Req -> BOOLEAN]
  /\ job \in [Req -> Job]
  /\ sweepLock \in Req \cup {"", "purge"}

(* A build by itself: what is on disk, and whether the loop knows its end.   *)
BuildOf(j) ==
  /\ j.st = "none" => j.told /\ ~j.sweeps /\ ~j.abandoned
  /\ j.st \in Live => ~j.told
  /\ j.st \in {"queued", "files", "failed", "cancelled"} => j.files = {}
  /\ j.sweeps => j.st = "finished" /\ j.abandoned
  /\ j.st = "finished" /\ j.abandoned /\ ~j.sweeps => j.files = {}

(* A request and its build: what is not abandoned by a request that has gone  *)
(* has ended and left nothing.                                               *)
Together(p, j) ==
  /\ p \in {"parked", "lock", "admitted"} => j.st = "none"
  /\ p = "awaiting" => /\ j.st # "none" /\ ~j.abandoned
                       /\ j.st = "finished" => j.files = {"out"}
  /\ p = "sending" => j.st = "finished" /\ j.told /\ ~j.abandoned /\ j.files = {"out"}
  /\ p = "idle" /\ ~j.abandoned /\ j.st # "none" => j.st \in Over /\ j.files = {}

(* A daemon that is down has no request and no build; only a kill leaves      *)
(* files, which the next start removes.                                      *)
OfTheRun(p, j) ==
  /\ state = "down" => p = "idle" /\ j.told
  /\ state # "down" /\ j.st = "none" => j.files = {}

Coherent(r) == BuildOf(job[r]) /\ Together(pc[r], job[r]) /\ OfTheRun(pc[r], job[r])

(* The slots. *)
Claims(p) == p \in {"lock", "admitted"}
Builds(j) == j.st # "none" /\ ~j.told
Claim(p) == IF Claims(p) THEN 1 ELSE 0
Build(j) == IF Builds(j) THEN 1 ELSE 0
Claimed   == {r \in Req : Claims(pc[r])}
Building  == {r \in Req : Builds(job[r])}

Counted == builds = Cardinality(Claimed) + Cardinality(Building)

(* A bundle holds the sweep lock from the reading of its span to its end. *)
Untorn(r) ==
  /\ pc[r] = "lock" => kind[r] = "bundle"
  /\ kind[r] = "bundle" /\ pc[r] \in {"admitted", "awaiting"} => sweepLock = r /\ ~torn[r]
  /\ kind[r] = "bundle" /\ pc[r] = "sending" => ~torn[r]

ExportInv ==
  /\ Shapes /\ Counted /\ builds <= E!Slots /\ E!FreeSlotWakesWaiters
  /\ \A r \in Req : Coherent(r) /\ Untorn(r)

-------------------------------------------------------------------------------
LEMMA SlotsCounted == \A T : E!Cardinality(T) = Cardinality(T)
BY DEF E!Cardinality, Cardinality

(* Counting: what a set gains and loses when one element may join or leave.  *)

At(r, Z) == IF r \in Z THEN 1 ELSE 0

(* Two sets that differ at one element at most differ by that much.          *)
LEMMA OneApart ==
  ASSUME NEW All, IsFiniteSet(All), NEW r \in All, NEW Z \in SUBSET All, NEW T \in SUBSET All,
         \A q \in All : q # r => (q \in Z <=> q \in T)
  PROVE  /\ Cardinality(Z) \in Nat /\ Cardinality(T) \in Nat
         /\ Cardinality(T) + At(r, Z) = Cardinality(Z) + At(r, T)
<1> DEFINE U == Z \ {r}
<1>1. IsFiniteSet(U) /\ IsFiniteSet(Z) /\ IsFiniteSet(T)
  BY FS_Subset
<1>2. /\ Cardinality(U) \in Nat /\ Cardinality(Z) \in Nat /\ Cardinality(T) \in Nat
      /\ Cardinality(U \cup {r}) = Cardinality(U) + 1
  <2>1. Cardinality(U \cup {r}) = Cardinality(U) + 1
    BY <1>1, FS_AddElement
  <2> QED  BY <1>1, <2>1, FS_CardinalityType
<1>3. Z = (IF r \in Z THEN U \cup {r} ELSE U) /\ T = (IF r \in T THEN U \cup {r} ELSE U)
  OBVIOUS
<1> HIDE DEF U
<1>4. Cardinality(Z) = Cardinality(U) + At(r, Z)
  <2>1. CASE r \in Z
    BY <2>1, <1>2, <1>3 DEF At
  <2>2. CASE r \notin Z
    BY <2>2, <1>2, <1>3 DEF At
  <2> QED  BY <2>1, <2>2
<1>5. Cardinality(T) = Cardinality(U) + At(r, T)
  <2>1. CASE r \in T
    BY <2>1, <1>2, <1>3 DEF At
  <2>2. CASE r \notin T
    BY <2>2, <1>2, <1>3 DEF At
  <2> QED  BY <2>1, <2>2
<1> QED  BY <1>2, <1>4, <1>5 DEF At

(* What a step of one request leaves alone, and what it may do to the lock.  *)
Touches(r) ==
  /\ state' = state
  /\ \A q \in Req : q # r => /\ pc'[q] = pc[q] /\ kind'[q] = kind[q]
                             /\ job'[q] = job[q] /\ torn'[q] = torn[q]
  /\ \/ sweepLock' = sweepLock
     \/ sweepLock \in {"", r} /\ sweepLock' \in {"", r}

(* The slots a step gives and takes. *)
Moves(r) ==
  /\ builds' \in Nat
  /\ builds' + Claim(pc[r]) + Build(job[r]) = builds + Claim(pc'[r]) + Build(job'[r])

LEMMA CountedKept ==
  ASSUME Sizes, Counted, builds \in Nat, NEW r \in Req, Touches(r), Moves(r)
  PROVE  Counted'
<1> DEFINE C == {q \in Req : Claims(pc'[q])}
           B == {q \in Req : Builds(job'[q])}
<1>1. /\ Cardinality(Claimed) \in Nat /\ Cardinality(C) \in Nat
      /\ Cardinality(C) + At(r, Claimed) = Cardinality(Claimed) + At(r, C)
  <2>1. \A q \in Req : q # r => (q \in Claimed <=> q \in C)
    BY DEF Touches, Claimed
  <2>2. Claimed \in SUBSET Req /\ C \in SUBSET Req /\ IsFiniteSet(Req)
    BY DEF Claimed, Sizes
  <2> HIDE DEF C
  <2> QED  BY <2>1, <2>2, OneApart
<1>2. /\ Cardinality(Building) \in Nat /\ Cardinality(B) \in Nat
      /\ Cardinality(B) + At(r, Building) = Cardinality(Building) + At(r, B)
  <2>1. \A q \in Req : q # r => (q \in Building <=> q \in B)
    BY DEF Touches, Building
  <2>2. Building \in SUBSET Req /\ B \in SUBSET Req /\ IsFiniteSet(Req)
    BY DEF Building, Sizes
  <2> HIDE DEF B
  <2> QED  BY <2>1, <2>2, OneApart
<1>3. /\ At(r, Claimed) = Claim(pc[r]) /\ At(r, C) = Claim(pc'[r])
      /\ At(r, Building) = Build(job[r]) /\ At(r, B) = Build(job'[r])
  BY DEF Claimed, Building, At, Claim, Build
<1>4. C = Claimed' /\ B = Building'
  BY DEF Claimed, Building
<1> HIDE DEF C, B
<1>5. /\ Claim(pc[r]) \in {0, 1} /\ Claim(pc'[r]) \in {0, 1}
      /\ Build(job[r]) \in {0, 1} /\ Build(job'[r]) \in {0, 1}
  BY DEF Claim, Build
<1>6. builds' = Cardinality(C) + Cardinality(B)
  BY <1>1, <1>2, <1>3, <1>5 DEF Moves, Counted
<1> QED  BY <1>4, <1>6 DEF Counted

(* The requests a step does not touch stay as they were. *)
LEMMA OthersKept ==
  ASSUME Sizes, ExportInv, NEW r \in Req, Touches(r), NEW q \in Req, q # r
  PROVE  Coherent(q)' /\ Untorn(q)'
<1>1. Coherent(q) /\ Untorn(q)
  BY DEF ExportInv
<1>2. /\ state' = state /\ pc'[q] = pc[q] /\ kind'[q] = kind[q]
      /\ job'[q] = job[q] /\ torn'[q] = torn[q]
      /\ sweepLock = q => sweepLock' = q
  BY DEF Touches, Sizes
<1>3. Coherent(q)'
  BY <1>1, <1>2 DEF Coherent, BuildOf, Together, OfTheRun
<1> QED  BY <1>1, <1>2, <1>3 DEF Untorn

(* A step of one request keeps the invariant when it keeps what is said of   *)
(* that request, the slots' number and their waiters.                        *)
LEMMA StepTogether ==
  ASSUME Sizes, ExportInv, NEW r \in Req, Touches(r), Moves(r), Shapes',
         Coherent(r)', Untorn(r)', builds' <= E!Slots, E!FreeSlotWakesWaiters'
  PROVE  ExportInv'
<1>1. \A q \in Req : Coherent(q)' /\ Untorn(q)'
  BY OthersKept
<1>2. Counted'
  BY CountedKept DEF ExportInv, Shapes
<1> QED  BY <1>1, <1>2 DEF ExportInv

(* The wakes: a slot given back wakes everybody, and one taken nobody.       *)
LEMMA SetWakes ==
  ASSUME woken \in [Req -> BOOLEAN], E!SetFreed, NEW r \in Req,
         \A q \in Req : q # r => pc'[q] = pc[q], pc'[r] = "parked" => pc[r] = "parked"
  PROVE  E!FreeSlotWakesWaiters' /\ freed' \in BOOLEAN /\ woken' \in [Req -> BOOLEAN]
BY DEF E!SetFreed, E!FreeSlotWakesWaiters, E!Waiters, E!Parked

-------------------------------------------------------------------------------
(* The build's own steps. *)

(* There are as many slots as builds that run and wait. *)
LEMMA SlotsAreSome == Sizes => E!Slots \in Nat
<1>1. Sizes => Workers \in Nat /\ Waiting \in Nat
  BY Zenon DEF Sizes
<1> QED  BY <1>1 DEF E!Slots

(* What is known of one request and its build. *)
LEMMA OfOne ==
  ASSUME ExportInv, NEW r \in Req
  PROVE  /\ pc[r] \in Places /\ kind[r] \in {"db", "bundle"} /\ job[r] \in Job
         /\ builds \in Nat /\ builds <= E!Slots
         /\ BuildOf(job[r]) /\ Together(pc[r], job[r]) /\ OfTheRun(pc[r], job[r])
         /\ Untorn(r)
BY DEF ExportInv, Shapes, Coherent

(* A step that changes nothing but one build, and leaves its slot as it was. *)
LEMMA BuildStep ==
  ASSUME Sizes, ExportInv, NEW r \in Req, NEW j \in Job, job' = [job EXCEPT ![r] = j],
         UNCHANGED <<state, E!callVars, builds, freed, sweepLock, torn>>,
         Build(j) = Build(job[r]), BuildOf(j), Together(pc[r], j), OfTheRun(pc[r], j)
  PROVE  ExportInv'
<1> USE DEF E!callVars
<1>1. job'[r] = j /\ \A q \in Req : q # r => job'[q] = job[q]
  BY DEF ExportInv, Shapes
<1>2. Touches(r)
  BY <1>1 DEF Touches
<1>3. Moves(r)
  BY <1>1 DEF Moves, ExportInv, Shapes
<1>4. Shapes'
  BY DEF ExportInv, Shapes
<1>5. Coherent(r)'
  BY <1>1 DEF Coherent, BuildOf, Together, OfTheRun
<1>6. Untorn(r)'
  BY OfOne DEF Untorn
<1>7. builds' <= E!Slots /\ E!FreeSlotWakesWaiters'
  BY OfOne DEF ExportInv, E!FreeSlotWakesWaiters, E!Waiters, E!Parked
<1> QED  BY <1>2, <1>3, <1>4, <1>5, <1>6, <1>7, StepTogether

(* A build starts, makes its files, copies, fails, finishes or is cleaned up  *)
(* after.                                                                    *)
LEMMA BuildKeeps ==
  ASSUME Sizes, ExportInv, NEW r \in Req,
         \/ E!JobStarts(r) \/ E!MakesFiles(r) \/ E!Copies(r) \/ E!JobFails(r) \/ E!JobFinishes(r)
         \/ E!Cleans(r)
  PROVE  ExportInv'
<1> DEFINE k == job[r]
<1>1. /\ k \in Job /\ pc[r] \in Places
      /\ BuildOf(k) /\ Together(pc[r], k) /\ OfTheRun(pc[r], k)
  BY OfOne
<1>2. CASE E!JobStarts(r)
  <2> DEFINE j == [k EXCEPT !.st = "files"]
  <2>1. job' = [job EXCEPT ![r] = j] /\ k.st = "queued"
    BY <1>2 DEF E!JobStarts
  <2>2. j \in Job /\ Build(j) = Build(k) /\ BuildOf(j)
    BY <1>1, <2>1 DEF Job, Live, Over, Build, Builds, BuildOf
  <2>3. Together(pc[r], j) /\ OfTheRun(pc[r], j)
    BY <1>1, <2>1 DEF Job, Live, Over, BuildOf, Together, OfTheRun
  <2> HIDE DEF j
  <2> QED  BY <1>2, <2>1, <2>2, <2>3, BuildStep DEF E!JobStarts, E!pastVars
<1>3. CASE E!MakesFiles(r)
  <2> DEFINE j == [k EXCEPT !.st = "copy", !.files = E!Steps(kind[r])]
  <2>1. job' = [job EXCEPT ![r] = j] /\ k.st = "files"
    BY <1>3 DEF E!MakesFiles
  <2>2. j \in Job /\ Build(j) = Build(k) /\ BuildOf(j)
    BY <1>1, <2>1 DEF Job, Live, Over, Build, Builds, BuildOf, E!Steps
  <2>3. Together(pc[r], j) /\ OfTheRun(pc[r], j)
    BY <1>1, <2>1 DEF Job, Live, Over, BuildOf, Together, OfTheRun
  <2> HIDE DEF j
  <2> QED  BY <1>3, <2>1, <2>2, <2>3, BuildStep DEF E!MakesFiles, E!pastVars
<1>4. CASE E!Copies(r)
  <2> DEFINE j == [k EXCEPT !.st = "zip", !.files = {"out"}]
  <2>1. job' = [job EXCEPT ![r] = j] /\ k.st = "copy"
    BY <1>4 DEF E!Copies
  <2>2. j \in Job /\ Build(j) = Build(k) /\ BuildOf(j)
    BY <1>1, <2>1 DEF Job, Live, Over, Build, Builds, BuildOf
  <2>3. Together(pc[r], j) /\ OfTheRun(pc[r], j)
    BY <1>1, <2>1 DEF Job, Live, Over, BuildOf, Together, OfTheRun
  <2> HIDE DEF j
  <2> QED  BY <1>4, <2>1, <2>2, <2>3, BuildStep DEF E!Copies, E!pastVars
<1>5. CASE E!JobFails(r)
  <2> DEFINE j == [k EXCEPT !.st = "failed", !.files = {}]
  <2>1. job' = [job EXCEPT ![r] = j] /\ k.st \in {"files", "copy", "zip"}
    BY <1>5 DEF E!JobFails
  <2>2. j \in Job /\ Build(j) = Build(k) /\ BuildOf(j)
    BY <1>1, <2>1 DEF Job, Live, Over, Build, Builds, BuildOf
  <2>3. Together(pc[r], j) /\ OfTheRun(pc[r], j)
    BY <1>1, <2>1 DEF Job, Live, Over, BuildOf, Together, OfTheRun
  <2> HIDE DEF j
  <2> QED  BY <1>5, <2>1, <2>2, <2>3, BuildStep DEF E!JobFails, E!pastVars
<1>6. CASE E!JobFinishes(r)
  <2> DEFINE j == [k EXCEPT !.st = "finished", !.files = E!FinishLeaves(r)]
  <2>1. job' = [job EXCEPT ![r] = j] /\ k.st = "zip"
    BY <1>6 DEF E!JobFinishes
  <2>2. j \in Job /\ Build(j) = Build(k) /\ BuildOf(j)
    BY <1>1, <2>1 DEF Job, Live, Over, Build, Builds, BuildOf, E!FinishLeaves
  <2>3. Together(pc[r], j) /\ OfTheRun(pc[r], j)
    BY <1>1, <2>1 DEF Job, Live, Over, BuildOf, Together, OfTheRun, E!FinishLeaves
  <2> HIDE DEF j
  <2> QED  BY <1>6, <2>1, <2>2, <2>3, BuildStep DEF E!JobFinishes, E!pastVars
<1>7. CASE E!Cleans(r)
  <2> DEFINE j == [k EXCEPT !.files = {}, !.sweeps = FALSE]
  <2>1. job' = [job EXCEPT ![r] = j] /\ k.sweeps
    BY <1>7 DEF E!Cleans
  <2>2. j \in Job /\ Build(j) = Build(k) /\ BuildOf(j)
    BY <1>1, <2>1 DEF Job, Live, Over, Build, Builds, BuildOf
  <2>3. Together(pc[r], j) /\ OfTheRun(pc[r], j)
    BY <1>1, <2>1 DEF Job, Live, Over, BuildOf, Together, OfTheRun
  <2> HIDE DEF j
  <2> QED  BY <1>7, <2>1, <2>2, <2>3, BuildStep DEF E!Cleans, E!pastVars
<1> QED  BY <1>2, <1>3, <1>4, <1>5, <1>6, <1>7

-------------------------------------------------------------------------------
(* The requests' steps. *)

(* A step that moves one request on, and perhaps its build.                  *)
LEMMA RequestStep ==
  ASSUME Sizes, ExportInv, NEW r \in Req, NEW p \in Places, NEW j \in Job,
         NEW k \in {"db", "bundle"}, NEW b \in BOOLEAN,
         state' = state, pc' = [pc EXCEPT ![r] = p], job' = [job EXCEPT ![r] = j],
         kind' = [kind EXCEPT ![r] = k], torn' = [torn EXCEPT ![r] = b],
         left' \in [Req -> BOOLEAN],
         sweepLock' = sweepLock \/ (sweepLock \in {"", r} /\ sweepLock' \in {"", r}),
         builds' \in Nat, builds' <= E!Slots,
         builds' + Claim(pc[r]) + Build(job[r]) = builds + Claim(p) + Build(j),
         E!FreeSlotWakesWaiters', freed' \in BOOLEAN, woken' \in [Req -> BOOLEAN],
         BuildOf(j), Together(p, j), OfTheRun(p, j), Untorn(r)'
  PROVE  ExportInv'
<1>1. /\ pc'[r] = p /\ job'[r] = j
      /\ \A q \in Req : q # r => /\ pc'[q] = pc[q] /\ kind'[q] = kind[q]
                                 /\ job'[q] = job[q] /\ torn'[q] = torn[q]
  BY DEF ExportInv, Shapes
<1>2. Touches(r)
  BY <1>1 DEF Touches
<1>3. Moves(r)
  BY <1>1 DEF Moves
<1>4. Shapes'
  BY DEF ExportInv, Shapes
<1>5. Coherent(r)'
  BY <1>1 DEF Coherent, BuildOf, Together, OfTheRun
<1> QED  BY <1>2, <1>3, <1>4, <1>5, StepTogether

(* A slot that is given back wakes everybody; one that is kept or taken needs *)
(* wake nobody.                                                              *)
LEMMA Wakes ==
  ASSUME Sizes, ExportInv, NEW r \in Req, NEW p \in Places, p # "parked",
         pc' = [pc EXCEPT ![r] = p],
         \/ E!SetFreed
         \/ UNCHANGED <<woken, freed>> /\ (builds' = builds \/ builds' = builds + 1)
  PROVE  E!FreeSlotWakesWaiters' /\ freed' \in BOOLEAN /\ woken' \in [Req -> BOOLEAN]
<1>1. \A q \in Req : pc'[q] = "parked" => pc[q] = "parked"
  BY DEF ExportInv, Shapes
<1>2. CASE E!SetFreed
  BY <1>1, <1>2 DEF ExportInv, Shapes, E!SetFreed, E!FreeSlotWakesWaiters, E!Waiters, E!Parked
<1>3. CASE UNCHANGED <<woken, freed>> /\ (builds' = builds \/ builds' = builds + 1)
  <2>1. freed' \in BOOLEAN /\ woken' \in [Req -> BOOLEAN] /\ woken' = woken
    BY <1>3 DEF ExportInv, Shapes
  <2>2. builds' < E!Slots => builds < E!Slots
    BY <1>3, OfOne, SlotsAreSome
  <2> QED  BY <1>1, <1>3, <2>1, <2>2 DEF ExportInv, E!FreeSlotWakesWaiters, E!Waiters, E!Parked
<1> QED  BY <1>2, <1>3

(* A request asks for a slot and is admitted, waits or is refused.           *)
LEMMA AdmitStep ==
  ASSUME Sizes, ExportInv, NEW r \in Req, NEW k \in {"db", "bundle"}, NEW waits \in BOOLEAN,
         NEW b \in BOOLEAN, E!Admit(r, k, waits), pc[r] \in {"idle", "parked"},
         ~Builds(job[r]), state # "down",
         kind' = [kind EXCEPT ![r] = k], torn' = [torn EXCEPT ![r] = b],
         job' = [job EXCEPT ![r] = E!NoJob], left' \in [Req -> BOOLEAN],
         UNCHANGED <<state, sweepLock>>
  PROVE  ExportInv'
<1>1. /\ E!NoJob \in Job /\ Build(E!NoJob) = 0 /\ BuildOf(E!NoJob)
      /\ \A p \in {"idle", "parked", "lock", "admitted"} :
           Together(p, E!NoJob) /\ OfTheRun(p, E!NoJob)
  BY DEF E!NoJob, Job, Live, Over, Build, Builds, BuildOf, Together, OfTheRun
<1>2. /\ builds \in Nat /\ builds <= E!Slots /\ E!Slots \in Nat
      /\ Claim(pc[r]) = 0 /\ Build(job[r]) = 0
  BY OfOne, SlotsAreSome DEF Claim, Claims, Build
<1>3. /\ kind'[r] = k /\ torn'[r] = b
  BY DEF ExportInv, Shapes
<1>4. CASE builds < E!Slots /\ E!Admitted(r, k)
  <2> DEFINE p == IF k = "bundle" THEN "lock" ELSE "admitted"
  <2>1. /\ builds' = builds + 1 /\ pc' = [pc EXCEPT ![r] = p] /\ UNCHANGED <<woken, freed>>
    BY <1>4 DEF E!Admitted
  <2>2. /\ p \in Places /\ p # "parked" /\ Claim(p) = 1
        /\ Together(p, E!NoJob) /\ OfTheRun(p, E!NoJob)
    BY <1>1 DEF Places, Claim, Claims
  <2>3. builds' \in Nat /\ builds <= builds' /\ builds' <= E!Slots
    BY <1>2, <1>4, <2>1
  <2>4. pc'[r] = p
    BY <2>1 DEF ExportInv, Shapes
  <2>5. Untorn(r)'
    BY <1>3, <2>4 DEF Untorn
  <2> HIDE DEF p
  <2>6. E!FreeSlotWakesWaiters' /\ freed' \in BOOLEAN /\ woken' \in [Req -> BOOLEAN]
    BY <2>1, <2>2, <2>3, Wakes
  <2>7. builds' + Claim(pc[r]) + Build(job[r]) = builds + Claim(p) + Build(E!NoJob)
    BY <1>1, <1>2, <2>1, <2>2
  <2> QED  BY <1>1, <2>1, <2>2, <2>3, <2>5, <2>6, <2>7, RequestStep
<1>5. CASE builds >= E!Slots /\ E!Park(r)
  <2>1. /\ builds' = builds /\ pc' = [pc EXCEPT ![r] = "parked"]
        /\ freed' \in BOOLEAN /\ woken' = [woken EXCEPT ![r] = FALSE]
    BY <1>5 DEF E!Park
  <2>2. Untorn(r)' /\ woken' \in [Req -> BOOLEAN]
    BY <2>1 DEF ExportInv, Shapes, Untorn
  <2>3. E!FreeSlotWakesWaiters'
    BY <1>2, <1>5, <2>1 DEF E!FreeSlotWakesWaiters, E!Slots
  <2>4. builds' + Claim(pc[r]) + Build(job[r]) = builds + Claim("parked") + Build(E!NoJob)
    BY <1>1, <1>2, <2>1 DEF Claim, Claims
  <2> QED  BY <1>1, <1>2, <2>1, <2>2, <2>3, <2>4, RequestStep DEF Places
<1>6. CASE builds >= E!Slots /\ E!Refuse(r)
  <2>1. /\ builds' = builds /\ pc' = [pc EXCEPT ![r] = "idle"] /\ UNCHANGED <<woken, freed>>
    BY <1>6 DEF E!Refuse
  <2>2. Untorn(r)'
    BY <2>1 DEF ExportInv, Shapes, Untorn
  <2>3. E!FreeSlotWakesWaiters' /\ freed' \in BOOLEAN /\ woken' \in [Req -> BOOLEAN]
    BY <1>2, <2>1, Wakes DEF Places
  <2>4. builds' + Claim(pc[r]) + Build(job[r]) = builds + Claim("idle") + Build(E!NoJob)
    BY <1>1, <1>2, <2>1 DEF Claim, Claims
  <2> QED  BY <1>1, <1>2, <2>1, <2>2, <2>3, <2>4, RequestStep DEF Places
<1> QED  BY <1>4, <1>5, <1>6 DEF E!Admit

LEMMA CallKeeps ==
  ASSUME Sizes, ExportInv, NEW r \in Req, E!Call(r)
  PROVE  ExportInv'
<1>1. PICK k \in {"db", "bundle"}, waits \in BOOLEAN :
        kind' = [kind EXCEPT ![r] = k] /\ E!Admit(r, k, waits)
  BY DEF E!Call
<1>2. /\ pc[r] = "idle" /\ ~Builds(job[r]) /\ state # "down" /\ UNCHANGED <<state, sweepLock>>
      /\ torn' = [torn EXCEPT ![r] = FALSE] /\ job' = [job EXCEPT ![r] = E!NoJob]
      /\ left' \in [Req -> BOOLEAN]
  BY DEF E!Call, Builds, ExportInv, Shapes
<1> QED  BY <1>1, <1>2, AdmitStep

LEMMA WaitKeeps ==
  ASSUME Sizes, ExportInv, NEW r \in Req, E!WaitEnds(r)
  PROVE  ExportInv'
<1>1. /\ pc[r] = "parked" /\ state # "down" /\ job[r] = E!NoJob
      /\ kind[r] \in {"db", "bundle"} /\ torn[r] \in BOOLEAN
  <2>1. pc[r] = "parked"
    BY DEF E!WaitEnds, E!Parked
  <2>2. state # "down" /\ job[r].st = "none" /\ job[r] \in Job
    BY <2>1, OfOne DEF Together, OfTheRun
  <2>3. /\ job[r].told = TRUE /\ job[r].sweeps = FALSE /\ job[r].abandoned = FALSE
        /\ job[r].files = {} /\ job[r].todo = <<>>
    BY <2>2, OfOne DEF BuildOf, OfTheRun, Job
  <2>4. job[r] = E!NoJob
    BY <2>2, <2>3 DEF Job, E!NoJob
  <2> QED  BY <2>1, <2>2, <2>4, OfOne DEF ExportInv, Shapes
<1>2. /\ kind' = [kind EXCEPT ![r] = kind[r]] /\ torn' = [torn EXCEPT ![r] = torn[r]]
      /\ job' = [job EXCEPT ![r] = E!NoJob] /\ left' \in [Req -> BOOLEAN]
      /\ UNCHANGED <<state, sweepLock>>
  BY <1>1 DEF E!WaitEnds, E!pastVars, ExportInv, Shapes
<1>3. ~Builds(job[r])
  BY <1>1 DEF Builds, E!NoJob
<1>4. CASE left[r]
  <2>1. /\ builds' = builds /\ pc' = [pc EXCEPT ![r] = "idle"] /\ UNCHANGED <<woken, freed>>
    BY <1>4 DEF E!WaitEnds, E!Refuse
  <2>2. builds \in Nat /\ builds <= E!Slots
    BY OfOne
  <2>3. E!FreeSlotWakesWaiters' /\ freed' \in BOOLEAN /\ woken' \in [Req -> BOOLEAN]
    BY <2>1, <2>2, Wakes DEF Places
  <2>4. Untorn(r)'
    BY <2>1 DEF ExportInv, Shapes, Untorn
  <2>5. /\ E!NoJob \in Job /\ BuildOf(E!NoJob)
        /\ Together("idle", E!NoJob) /\ OfTheRun("idle", E!NoJob)
    BY DEF E!NoJob, Job, Live, Over, BuildOf, Together, OfTheRun
  <2>6. builds' + Claim(pc[r]) + Build(job[r]) = builds + Claim("idle") + Build(E!NoJob)
    BY <1>1, <2>1, <2>2 DEF Claim, Claims, Build, Builds, E!NoJob
  <2> QED  BY <1>1, <1>2, <2>1, <2>2, <2>3, <2>4, <2>5, <2>6, RequestStep DEF Places
<1>5. CASE ~left[r]
  BY <1>1, <1>2, <1>3, <1>5, AdmitStep DEF E!WaitEnds
<1> QED  BY <1>4, <1>5

(* A slot that is held is counted. *)
LEMMA HeldSlot ==
  ASSUME Sizes, ExportInv, NEW r \in Req, Claims(pc[r]) \/ Builds(job[r])
  PROVE  builds \in Nat /\ builds >= 1
<1>1. /\ IsFiniteSet(Claimed) /\ Cardinality(Claimed) \in Nat
      /\ IsFiniteSet(Building) /\ Cardinality(Building) \in Nat
  <2>1. Claimed \in SUBSET Req /\ Building \in SUBSET Req /\ IsFiniteSet(Req)
    BY DEF Claimed, Building, Sizes
  <2>2. IsFiniteSet(Claimed) /\ IsFiniteSet(Building)
    BY <2>1, FS_Subset
  <2> QED  BY <2>2, FS_CardinalityType
<1>2. r \in Claimed \/ r \in Building
  BY DEF Claimed, Building
<1>3. Cardinality(Claimed) # 0 \/ Cardinality(Building) # 0
  BY <1>1, <1>2, FS_EmptySet
<1> QED  BY <1>1, <1>3 DEF ExportInv, Counted

(* A step that changes neither the places nor the builds nor the lock. *)
LEMMA LeaveKeeps ==
  ASSUME Sizes, ExportInv, NEW r \in Req, E!ClientLeaves(r)
  PROVE  ExportInv'
<1>1. /\ UNCHANGED <<state, pc, kind, woken, job, builds, freed, sweepLock, torn>>
      /\ left' \in [Req -> BOOLEAN]
  BY DEF E!ClientLeaves, E!poolVars, E!pastVars, ExportInv, Shapes
<1>2. /\ pc' = [pc EXCEPT ![r] = pc[r]] /\ job' = [job EXCEPT ![r] = job[r]]
      /\ kind' = [kind EXCEPT ![r] = kind[r]] /\ torn' = [torn EXCEPT ![r] = torn[r]]
      /\ torn[r] \in BOOLEAN
  BY <1>1 DEF ExportInv, Shapes
<1>3. E!FreeSlotWakesWaiters' /\ freed' \in BOOLEAN /\ woken' \in [Req -> BOOLEAN]
  BY <1>1 DEF ExportInv, Shapes, E!FreeSlotWakesWaiters, E!Waiters, E!Parked
<1>4. Untorn(r)'
  BY <1>1, OfOne DEF Untorn
<1> QED  BY <1>1, <1>2, <1>3, <1>4, OfOne, RequestStep

LEMMA TakeLockKeeps ==
  ASSUME Sizes, ExportInv, NEW r \in Req, E!TakeLock(r)
  PROVE  ExportInv'
<1>1. /\ pc[r] = "lock" /\ sweepLock = "" /\ UNCHANGED <<state, kind, left, job>>
      /\ job[r].st = "none" /\ state # "down" /\ kind[r] = "bundle"
  BY OfOne DEF E!TakeLock, Together, OfTheRun, Untorn
<1>2. /\ job' = [job EXCEPT ![r] = job[r]] /\ kind' = [kind EXCEPT ![r] = kind[r]]
      /\ left' \in [Req -> BOOLEAN] /\ torn[r] \in BOOLEAN
      /\ torn = [torn EXCEPT ![r] = torn[r]]
  BY <1>1 DEF ExportInv, Shapes
<1>3. /\ Together("admitted", job[r]) /\ Together("idle", job[r])
      /\ OfTheRun("admitted", job[r]) /\ OfTheRun("idle", job[r])
  BY <1>1, OfOne DEF Together, OfTheRun, BuildOf
<1>4. builds \in Nat /\ builds >= 1 /\ builds <= E!Slots /\ E!Slots \in Nat
  BY <1>1, OfOne, HeldSlot, SlotsAreSome DEF Claims
<1>5. Claim(pc[r]) = 1 /\ Claim("admitted") = 1 /\ Claim("idle") = 0 /\ Build(job[r]) = 0
  BY <1>1 DEF Claim, Claims, Build, Builds
<1>6. CASE /\ sweepLock' = r /\ pc' = [pc EXCEPT ![r] = "admitted"]
           /\ torn' = [torn EXCEPT ![r] = FALSE]
           /\ UNCHANGED <<woken, builds, freed>>
  <2>1. E!FreeSlotWakesWaiters' /\ freed' \in BOOLEAN /\ woken' \in [Req -> BOOLEAN]
    BY <1>4, <1>6, Wakes DEF Places
  <2>2. Untorn(r)'
    BY <1>6 DEF ExportInv, Shapes, Untorn
  <2>3. builds' + Claim(pc[r]) + Build(job[r]) = builds + Claim("admitted") + Build(job[r])
    BY <1>4, <1>5, <1>6
  <2> QED  BY <1>1, <1>2, <1>3, <1>4, <1>6, <2>1, <2>2, <2>3, OfOne, RequestStep DEF Places
<1>7. CASE /\ pc' = [pc EXCEPT ![r] = "idle"] /\ builds' = builds - 1 /\ E!SetFreed
           /\ UNCHANGED <<sweepLock, torn>>
  <2>1. E!FreeSlotWakesWaiters' /\ freed' \in BOOLEAN /\ woken' \in [Req -> BOOLEAN]
    BY <1>7, Wakes DEF Places
  <2>2. Untorn(r)'
    BY <1>7 DEF ExportInv, Shapes, Untorn
  <2>3. builds' + Claim(pc[r]) + Build(job[r]) = builds + Claim("idle") + Build(job[r])
        /\ builds' \in Nat /\ builds' <= E!Slots
    BY <1>4, <1>5, <1>7
  <2> QED  BY <1>1, <1>2, <1>3, <1>7, <2>1, <2>2, <2>3, OfOne, RequestStep DEF Places
<1> QED  BY <1>6, <1>7 DEF E!TakeLock

LEMMA SubmitKeeps ==
  ASSUME Sizes, ExportInv, NEW r \in Req, E!Submit(r)
  PROVE  ExportInv'
<1> DEFINE j == [E!NoJob EXCEPT !.st = "queued", !.told = FALSE]
<1>1. /\ pc[r] = "admitted"
      /\ UNCHANGED <<state, kind, woken, left, builds, freed, sweepLock, torn>>
      /\ pc' = [pc EXCEPT ![r] = "awaiting"] /\ job' = [job EXCEPT ![r] = j]
      /\ job[r].st = "none" /\ state # "down"
  BY OfOne DEF E!Submit, Together, OfTheRun, E!pastVars
<1>2. /\ kind' = [kind EXCEPT ![r] = kind[r]] /\ left' \in [Req -> BOOLEAN]
      /\ torn[r] \in BOOLEAN /\ torn' = [torn EXCEPT ![r] = torn[r]]
  BY <1>1 DEF ExportInv, Shapes
<1>3. /\ j \in Job /\ BuildOf(j) /\ Together("awaiting", j) /\ OfTheRun("awaiting", j)
      /\ Build(j) = 1
  BY <1>1 DEF E!NoJob, Job, Live, Over, Together, OfTheRun, BuildOf, Build, Builds
<1>4. builds \in Nat /\ builds <= E!Slots
  BY OfOne
<1>5. Claim(pc[r]) = 1 /\ Claim("awaiting") = 0 /\ Build(job[r]) = 0
  BY <1>1 DEF Claim, Claims, Build, Builds
<1>6. E!FreeSlotWakesWaiters' /\ freed' \in BOOLEAN /\ woken' \in [Req -> BOOLEAN]
  BY <1>1, <1>4, Wakes DEF Places
<1>7. Untorn(r)'
  BY <1>1, OfOne DEF ExportInv, Shapes, Untorn
<1> HIDE DEF j
<1>8. builds' + Claim(pc[r]) + Build(job[r]) = builds + Claim("awaiting") + Build(j)
  BY <1>1, <1>3, <1>4, <1>5
<1> QED  BY <1>1, <1>2, <1>3, <1>4, <1>6, <1>7, <1>8, OfOne, RequestStep DEF Places

LEMMA ToldKeeps ==
  ASSUME Sizes, ExportInv, NEW r \in Req, E!Told(r)
  PROVE  ExportInv'
<1> DEFINE j == [job[r] EXCEPT !.told = TRUE]
<1>1. /\ E!Ended(job[r]) /\ ~job[r].told /\ state # "down" /\ builds' = builds - 1 /\ E!SetFreed
      /\ job' = [job EXCEPT ![r] = j]
      /\ UNCHANGED <<state, pc, kind, left, sweepLock, torn>>
  BY DEF E!Told, E!pastVars
<1>2. /\ pc' = [pc EXCEPT ![r] = pc[r]]
      /\ kind' = [kind EXCEPT ![r] = kind[r]] /\ left' \in [Req -> BOOLEAN]
      /\ torn[r] \in BOOLEAN /\ torn' = [torn EXCEPT ![r] = torn[r]]
  BY <1>1 DEF ExportInv, Shapes
<1>3. /\ j \in Job /\ BuildOf(j) /\ Together(pc[r], j) /\ OfTheRun(pc[r], j)
      /\ Build(j) = 0 /\ Build(job[r]) = 1
  BY <1>1, OfOne DEF E!Ended, Job, Live, Over, Together, OfTheRun, BuildOf, Build, Builds
<1>4. builds \in Nat /\ builds >= 1 /\ builds <= E!Slots /\ E!Slots \in Nat
  BY <1>1, OfOne, HeldSlot, SlotsAreSome DEF Builds, E!Ended
<1>5. E!FreeSlotWakesWaiters' /\ freed' \in BOOLEAN /\ woken' \in [Req -> BOOLEAN]
  BY <1>1 DEF ExportInv, Shapes, E!SetFreed, E!FreeSlotWakesWaiters, E!Waiters, E!Parked
<1>6. Untorn(r)'
  BY <1>1, OfOne DEF Untorn
<1> HIDE DEF j
<1>7. /\ Claim(pc[r]) \in {0, 1} /\ builds' \in Nat /\ builds' <= E!Slots
      /\ builds' + Claim(pc[r]) + Build(job[r]) = builds + Claim(pc[r]) + Build(j)
  BY <1>1, <1>3, <1>4 DEF Claim
<1> QED  BY <1>1, <1>2, <1>3, <1>5, <1>6, <1>7, OfOne, RequestStep

LEMMA BuiltKeeps ==
  ASSUME Sizes, ExportInv, NEW r \in Req, E!Built(r)
  PROVE  ExportInv'
<1> DEFINE p == IF job[r].st = "finished" THEN "sending" ELSE "idle"
<1>1. /\ pc[r] = "awaiting" /\ job[r].told /\ pc' = [pc EXCEPT ![r] = p] /\ E!Unlocks(r)
      /\ UNCHANGED <<state, kind, woken, left, job, builds, freed, torn>>
      /\ state # "down"
  BY OfOne DEF E!Built, E!poolVars, E!pastVars, OfTheRun
<1>2. /\ job' = [job EXCEPT ![r] = job[r]]
      /\ kind' = [kind EXCEPT ![r] = kind[r]] /\ left' \in [Req -> BOOLEAN]
      /\ torn[r] \in BOOLEAN /\ torn' = [torn EXCEPT ![r] = torn[r]]
      /\ sweepLock' = sweepLock \/ (sweepLock \in {"", r} /\ sweepLock' \in {"", r})
  BY <1>1 DEF ExportInv, Shapes, E!Unlocks
<1>3. /\ p \in Places /\ p # "parked" /\ Together(p, job[r]) /\ OfTheRun(p, job[r])
      /\ Claim(p) = 0 /\ Claim(pc[r]) = 0 /\ Build(job[r]) = 0
  BY <1>1, OfOne DEF Job, Places, Live, Over, Together, OfTheRun, BuildOf,
                     Claim, Claims, Build, Builds
<1>4. builds \in Nat /\ builds <= E!Slots
  BY OfOne
<1>5. pc'[r] = p
  BY <1>1 DEF ExportInv, Shapes
<1>6. Untorn(r)'
  BY <1>1, <1>5, OfOne DEF Untorn
<1> HIDE DEF p
<1>7. E!FreeSlotWakesWaiters' /\ freed' \in BOOLEAN /\ woken' \in [Req -> BOOLEAN]
  BY <1>1, <1>3, <1>4, Wakes
<1>8. builds' + Claim(pc[r]) + Build(job[r]) = builds + Claim(p) + Build(job[r])
  BY <1>1, <1>3, <1>4
<1> QED  BY <1>1, <1>2, <1>3, <1>4, <1>6, <1>7, <1>8, OfOne, RequestStep

(* What a build that is abandoned becomes: it has no request any more. *)
LEMMA Abandoned ==
  ASSUME NEW k \in Job, BuildOf(k), Together("awaiting", k), state # "down"
  PROVE  /\ E!Abandon(k) \in Job /\ BuildOf(E!Abandon(k))
         /\ Together("idle", E!Abandon(k)) /\ OfTheRun("idle", E!Abandon(k))
         /\ Build(E!Abandon(k)) = Build(k)
BY DEF E!Abandon, Job, Live, Over, BuildOf, Together, OfTheRun, Build, Builds

LEMMA GoneKeeps ==
  ASSUME Sizes, ExportInv, NEW r \in Req, E!ClientGone(r)
  PROVE  ExportInv'
<1> DEFINE j == E!Abandon(job[r])
<1>1. /\ pc[r] = "awaiting" /\ pc' = [pc EXCEPT ![r] = "idle"] /\ E!Unlocks(r)
      /\ job' = [job EXCEPT ![r] = j]
      /\ UNCHANGED <<state, kind, woken, left, builds, freed, torn>> /\ state # "down"
  BY OfOne DEF E!ClientGone, E!pastVars, OfTheRun
<1>2. /\ kind' = [kind EXCEPT ![r] = kind[r]] /\ left' \in [Req -> BOOLEAN]
      /\ torn[r] \in BOOLEAN /\ torn' = [torn EXCEPT ![r] = torn[r]]
      /\ sweepLock' = sweepLock \/ (sweepLock \in {"", r} /\ sweepLock' \in {"", r})
  BY <1>1 DEF ExportInv, Shapes, E!Unlocks
<1>3. /\ j \in Job /\ BuildOf(j) /\ Together("idle", j) /\ OfTheRun("idle", j)
      /\ Build(j) = Build(job[r])
  BY <1>1, OfOne, Abandoned
<1>4. builds \in Nat /\ builds <= E!Slots /\ Claim(pc[r]) = 0 /\ Claim("idle") = 0
  BY <1>1, OfOne DEF Claim, Claims
<1>5. Untorn(r)'
  BY <1>1, OfOne DEF ExportInv, Shapes, Untorn
<1> HIDE DEF j
<1>6. E!FreeSlotWakesWaiters' /\ freed' \in BOOLEAN /\ woken' \in [Req -> BOOLEAN]
  BY <1>1, <1>4, Wakes DEF Places
<1>7. builds' + Claim(pc[r]) + Build(job[r]) = builds + Claim("idle") + Build(j)
  BY <1>1, <1>3, <1>4 DEF Build
<1> QED  BY <1>1, <1>2, <1>3, <1>4, <1>5, <1>6, <1>7, OfOne, RequestStep DEF Places

LEMMA SentKeeps ==
  ASSUME Sizes, ExportInv, NEW r \in Req, E!Sent(r)
  PROVE  ExportInv'
<1> DEFINE j == [job[r] EXCEPT !.files = {}]
<1>1. /\ pc[r] = "sending" /\ pc' = [pc EXCEPT ![r] = "idle"] /\ job' = [job EXCEPT ![r] = j]
      /\ UNCHANGED <<state, kind, woken, left, builds, freed, sweepLock, torn>> /\ state # "down"
  BY OfOne DEF E!Sent, E!pastVars, OfTheRun
<1>2. /\ kind' = [kind EXCEPT ![r] = kind[r]] /\ left' \in [Req -> BOOLEAN]
      /\ torn[r] \in BOOLEAN /\ torn' = [torn EXCEPT ![r] = torn[r]]
  BY <1>1 DEF ExportInv, Shapes
<1>3. /\ j \in Job /\ BuildOf(j) /\ Together("idle", j) /\ OfTheRun("idle", j)
      /\ Build(j) = Build(job[r])
  BY <1>1, OfOne DEF Job, Live, Over, BuildOf, Together, OfTheRun, Build, Builds
<1>4. builds \in Nat /\ builds <= E!Slots /\ Claim(pc[r]) = 0 /\ Claim("idle") = 0
  BY <1>1, OfOne DEF Claim, Claims
<1>5. Untorn(r)'
  BY <1>1, OfOne DEF ExportInv, Shapes, Untorn
<1> HIDE DEF j
<1>6. E!FreeSlotWakesWaiters' /\ freed' \in BOOLEAN /\ woken' \in [Req -> BOOLEAN]
  BY <1>1, <1>4, Wakes DEF Places
<1>7. builds' + Claim(pc[r]) + Build(job[r]) = builds + Claim("idle") + Build(j)
  BY <1>1, <1>3, <1>4 DEF Build
<1> QED  BY <1>1, <1>2, <1>3, <1>4, <1>5, <1>6, <1>7, OfOne, RequestStep DEF Places

(* The stop gives a slot back where nothing was submitted, and abandons what  *)
(* was.                                                                      *)
LEMMA CancelledKeeps ==
  ASSUME Sizes, ExportInv, NEW r \in Req, E!Cancelled(r)
  PROVE  ExportInv'
<1> DEFINE j == IF pc[r] = "awaiting" THEN E!Abandon(job[r]) ELSE job[r]
<1>1. /\ pc[r] \in {"parked", "lock", "admitted", "awaiting"} /\ state = "stopping"
      /\ pc' = [pc EXCEPT ![r] = "idle"] /\ E!Unlocks(r)
      /\ UNCHANGED <<state, kind, left, torn>>
      /\ IF Claims(pc[r]) THEN builds' = builds - 1 /\ E!SetFreed
         ELSE UNCHANGED <<builds, freed, woken>>
  BY OfOne DEF E!Cancelled, E!pastVars, Places, Claims
<1>2. /\ kind' = [kind EXCEPT ![r] = kind[r]] /\ left' \in [Req -> BOOLEAN]
      /\ torn[r] \in BOOLEAN /\ torn' = [torn EXCEPT ![r] = torn[r]]
      /\ job' = [job EXCEPT ![r] = j]
      /\ sweepLock' = sweepLock \/ (sweepLock \in {"", r} /\ sweepLock' \in {"", r})
  BY <1>1 DEF ExportInv, Shapes, E!Unlocks, E!Cancelled
<1>3. /\ j \in Job /\ BuildOf(j) /\ Together("idle", j) /\ OfTheRun("idle", j)
      /\ Build(j) = Build(job[r])
  <2>1. CASE pc[r] = "awaiting"
    BY <1>1, <2>1, OfOne, Abandoned
  <2>2. CASE pc[r] # "awaiting"
    BY <1>1, <2>2, OfOne DEF Job, Live, Over, BuildOf, Together, OfTheRun
  <2> QED  BY <2>1, <2>2
<1>4. builds \in Nat /\ builds <= E!Slots /\ E!Slots \in Nat /\ Claim("idle") = 0
  BY OfOne, SlotsAreSome DEF Claim, Claims
<1>5. Untorn(r)'
  BY <1>1 DEF ExportInv, Shapes, Untorn
<1> HIDE DEF j
<1>6. /\ builds' \in Nat /\ builds' <= E!Slots
      /\ builds' + Claim(pc[r]) = builds + Claim("idle")
  <2>1. CASE Claims(pc[r])
    BY <1>1, <1>4, <2>1, HeldSlot DEF Claim
  <2>2. CASE ~Claims(pc[r])
    BY <1>1, <1>4, <2>2 DEF Claim
  <2> QED  BY <2>1, <2>2
<1>7. E!FreeSlotWakesWaiters' /\ freed' \in BOOLEAN /\ woken' \in [Req -> BOOLEAN]
  <2>1. CASE E!SetFreed
    BY <1>1, <2>1, Wakes DEF Places
  <2>2. CASE UNCHANGED <<builds, freed, woken>>
    BY <1>1, <1>4, <2>2, Wakes DEF Places
  <2> QED  BY <1>1, <2>1, <2>2
<1>8. builds' + Claim(pc[r]) + Build(job[r]) = builds + Claim("idle") + Build(j)
  BY <1>3, <1>4, <1>6 DEF Build, Claim
<1> QED  BY <1>1, <1>2, <1>3, <1>5, <1>6, <1>7, <1>8, OfOne, RequestStep DEF Places

-------------------------------------------------------------------------------
(* The rest of the daemon's steps. *)

(* Where no slot is held, none is counted. *)
LEMMA NoneHeld ==
  ASSUME \A q \in Req : ~Claims(pc[q]) /\ ~Builds(job[q])
  PROVE  Counted <=> builds = 0
<1>1. Claimed = {} /\ Building = {}
  BY DEF Claimed, Building
<1>2. Cardinality({}) = 0
  BY FS_EmptySet
<1> QED  BY <1>1, <1>2 DEF Counted

(* A step of the lock or of the daemon's state alone. *)
LEMMA DaemonKeeps ==
  ASSUME Sizes, ExportInv, E!PurgeTakesLock \/ E!PurgeDeletes \/ E!Stop \/ UNCHANGED E!vars
  PROVE  ExportInv'
<1> USE DEF E!callVars, E!poolVars, E!pastVars
<1>1. /\ UNCHANGED <<pc, kind, woken, left, job, builds, freed>>
      /\ state' = state \/ (state = "up" /\ state' = "stopping")
  BY DEF E!PurgeTakesLock, E!PurgeDeletes, E!Stop, E!vars
<1>2. torn' \in [Req -> BOOLEAN] /\ sweepLock' \in Req \cup {"", "purge"}
  BY DEF E!PurgeTakesLock, E!PurgeDeletes, E!Stop, E!vars, ExportInv, Shapes
<1>3. Shapes'
  BY <1>1, <1>2 DEF ExportInv, Shapes
<1>4. Counted' /\ builds' <= E!Slots /\ E!FreeSlotWakesWaiters'
  BY <1>1 DEF ExportInv, Counted, Claimed, Building, E!FreeSlotWakesWaiters, E!Waiters, E!Parked
<1>5. ASSUME NEW r \in Req PROVE Coherent(r)' /\ Untorn(r)'
  <2>1. Coherent(r)'
    BY <1>1, OfOne DEF Coherent, BuildOf, Together, OfTheRun
  <2>2. r \notin {"", "purge"}
    BY DEF Sizes
  <2>3. CASE E!PurgeTakesLock
    BY <1>1, <2>1, <2>2, <2>3, OfOne DEF E!PurgeTakesLock, Untorn
  <2>4. CASE E!PurgeDeletes
    <3>1. torn'[r] = (torn[r] \/ (kind[r] = "bundle" /\ pc[r] \in {"admitted", "awaiting"}))
      BY <2>4 DEF E!PurgeDeletes
    <3>2. ~(kind[r] = "bundle" /\ pc[r] \in {"admitted", "awaiting"})
      BY <2>2, <2>4, OfOne DEF E!PurgeDeletes, Untorn
    <3> QED  BY <1>1, <2>1, <3>1, <3>2, OfOne DEF Untorn
  <2>5. CASE E!Stop \/ UNCHANGED E!vars
    BY <1>1, <2>1, <2>5, OfOne DEF E!Stop, E!vars, Untorn
  <2> QED  BY <2>1, <2>3, <2>4, <2>5
<1> QED  BY <1>3, <1>4, <1>5 DEF ExportInv

(* The daemon ends, by itself or killed, and starts again: no request is left  *)
(* and no slot.                                                              *)
LEMMA EndKeeps ==
  ASSUME Sizes, ExportInv, E!Stopped \/ E!Killed \/ E!Start
  PROVE  ExportInv'
<1> USE DEF E!callVars, E!poolVars, E!pastVars
<1>1. E!Slots \in Nat
  BY SlotsAreSome
<1>2. ASSUME NEW r \in Req
      PROVE  /\ pc'[r] = "idle" /\ job'[r] \in Job /\ BuildOf(job'[r])
             /\ Together("idle", job'[r]) /\ job'[r].told
             /\ state' = "down" \/ (state' = "up" /\ job'[r] = E!NoJob)
  <2>1. CASE E!Stopped
    <3>1. /\ pc[r] = "idle" /\ pc'[r] = pc[r] /\ state' = "down"
          /\ job[r].st = "none" \/ E!Ended(job[r])
          /\ job'[r] = [job[r] EXCEPT !.told = TRUE, !.sweeps = FALSE,
                        !.files = IF job[r].sweeps THEN {} ELSE @]
      BY <2>1 DEF E!Stopped
    <3> QED  BY <3>1, OfOne DEF E!Ended, Job, Live, Over, BuildOf, Together
  <2>2. CASE E!Killed
    <3>1. /\ pc'[r] = "idle" /\ state' = "down"
               /\ job'[r] = [E!NoJob EXCEPT !.files = job[r].files]
      BY <2>2 DEF E!Killed
    <3> QED  BY <3>1, OfOne DEF E!NoJob, Job, Live, Over, BuildOf, Together
  <2>3. CASE E!Start
    <3>1. /\ pc[r] = "idle" /\ pc'[r] = pc[r] /\ state' = "up" /\ job'[r] = E!NoJob
      BY <2>3, OfOne DEF E!Start, OfTheRun
    <3> QED  BY <3>1 DEF E!NoJob, Job, Live, Over, BuildOf, Together
  <2> QED  BY <2>1, <2>2, <2>3
<1>3. builds' = 0 /\ freed' \in BOOLEAN
  <2>1. CASE E!Start
    <3>1. \A q \in Req : pc[q] = "idle" /\ job[q].told
      BY <2>1, OfOne DEF E!Start, OfTheRun
    <3>2. builds = 0
      BY <3>1, NoneHeld DEF ExportInv, Claims, Builds
    <3> QED  BY <2>1, <3>2 DEF E!Start, ExportInv, Shapes
  <2>2. CASE E!Stopped \/ E!Killed
    BY <2>2 DEF E!Stopped, E!Killed
  <2> QED  BY <2>1, <2>2
<1>4. Shapes'
  <2>1. /\ DOMAIN pc' = Req /\ DOMAIN job' = Req
        /\ pc' = [q \in Req |-> pc'[q]] /\ job' = [q \in Req |-> job'[q]]
    BY DEF E!Stopped, E!Killed, E!Start, ExportInv, Shapes
  <2>2. pc' \in [Req -> Places] /\ job' \in [Req -> Job]
    BY <1>2, <2>1 DEF Places
  <2>3. /\ kind' \in [Req -> {"db", "bundle"}] /\ left' \in [Req -> BOOLEAN]
        /\ woken' \in [Req -> BOOLEAN] /\ torn' \in [Req -> BOOLEAN]
        /\ sweepLock' \in Req \cup {"", "purge"} /\ state' \in {"up", "stopping", "down"}
    BY DEF E!Stopped, E!Killed, E!Start, ExportInv, Shapes
  <2> QED  BY <1>3, <2>2, <2>3 DEF Shapes
<1>5. Counted'
  <2>1. \A q \in Req : ~Claims(pc'[q]) /\ ~Builds(job'[q])
    BY <1>2 DEF Claims, Builds
  <2>2. Claimed' = {} /\ Building' = {}
    BY <2>1 DEF Claimed, Building
  <2>3. Cardinality({}) = 0
    BY FS_EmptySet
  <2> QED  BY <1>3, <2>2, <2>3 DEF Counted
<1>6. E!FreeSlotWakesWaiters'
  BY <1>2 DEF E!FreeSlotWakesWaiters, E!Waiters, E!Parked
<1>7. ASSUME NEW r \in Req PROVE Coherent(r)' /\ Untorn(r)'
  <2>1. BuildOf(job[r])' /\ Together(pc[r], job[r])' /\ pc'[r] = "idle" /\ job'[r].told
    BY <1>2 DEF BuildOf, Together
  <2>2. OfTheRun(pc[r], job[r])'
    BY <1>2, <2>1 DEF OfTheRun, E!NoJob
  <2> QED  BY <2>1, <2>2 DEF Coherent, Untorn
<1> QED  BY <1>1, <1>3, <1>4, <1>5, <1>6, <1>7 DEF ExportInv

-------------------------------------------------------------------------------
(* The theorems. *)

LEMMA ExportsInit ==
  ASSUME Sizes, E!Init
  PROVE  ExportInv
<1>1. \A r \in Req : pc[r] = "idle" /\ job[r] = E!NoJob /\ torn[r] = FALSE
  BY DEF E!Init
<1>2. Shapes
  BY DEF E!Init, Shapes, Job, E!NoJob, Live, Over, Places
<1>3. builds = 0 /\ builds <= E!Slots
  <2>1. builds = 0
    BY DEF E!Init
  <2>2. E!Slots \in Nat
    BY SlotsAreSome
  <2> QED  BY <2>1, <2>2
<1>4. Counted
  BY <1>1, <1>3, NoneHeld DEF Claims, Builds, E!NoJob
<1>5. E!FreeSlotWakesWaiters
  BY <1>1 DEF E!FreeSlotWakesWaiters, E!Waiters, E!Parked
<1>6. ASSUME NEW r \in Req PROVE Coherent(r) /\ Untorn(r)
  BY <1>1 DEF E!NoJob, Coherent, BuildOf, Together, OfTheRun, Untorn, Live, Over, E!Init
<1> QED  BY <1>2, <1>3, <1>4, <1>5, <1>6 DEF ExportInv

LEMMA ExportsStep ==
  ASSUME Sizes, ExportInv, [E!Next]_(E!vars)
  PROVE  ExportInv'
<1>1. ASSUME NEW r \in Req,
             \/ E!Call(r) \/ E!WaitEnds(r) \/ E!ClientLeaves(r) \/ E!TakeLock(r) \/ E!Submit(r)
             \/ E!JobStarts(r) \/ E!MakesFiles(r) \/ E!Copies(r) \/ E!JobFails(r)
                  \/ E!JobFinishes(r)
             \/ E!Told(r) \/ E!Built(r) \/ E!ClientGone(r) \/ E!Cleans(r) \/ E!Sent(r)
                  \/ E!Cancelled(r)
      PROVE  ExportInv'
  BY <1>1, CallKeeps, WaitKeeps, LeaveKeeps, TakeLockKeeps, SubmitKeeps, BuildKeeps,
     ToldKeeps, BuiltKeeps, GoneKeeps, SentKeeps, CancelledKeeps
<1> QED  BY <1>1, DaemonKeeps, EndKeeps DEF E!Next

(* The invariant holds in every reachable state. *)
LEMMA ExportsAlways ==
  ASSUME Sizes
  PROVE  E!Spec => []ExportInv
BY ExportsInit, ExportsStep, PTL DEF E!Spec

(* Every variable holds what its comment says, and the slots taken are never  *)
(* more than there are.                                                      *)
THEOREM ExportTypes ==
  ASSUME Sizes
  PROVE  E!Spec => []E!TypeOK
<1>1. ExportInv => E!TypeOK
  <2>1. ExportInv => builds \in 0 .. E!Slots
    <3>1. E!Slots \in Nat
      BY SlotsAreSome
    <3>2. ExportInv => builds \in Nat /\ builds <= E!Slots
      BY DEF ExportInv, Shapes
    <3> QED  BY <3>1, <3>2
  <2>2. ExportInv => \A r \in Req : job[r].files \subseteq {"out", "copy"}
    BY DEF ExportInv, Shapes, Job
  <2> QED  BY <2>1, <2>2 DEF ExportInv, Shapes, E!TypeOK, Places
<1> QED  BY <1>1, ExportsAlways, PTL

(* A request that is over, with a build that has come to its end, has left     *)
(* nothing on disk, whichever of the two was first; after a restart not even  *)
(* what a kill left.                                                         *)
THEOREM NothingStaysOnDisk ==
  ASSUME Sizes
  PROVE  E!Spec => []E!NothingLeftOnDisk
<1>1. ExportInv => E!NothingLeftOnDisk
  <2> SUFFICES ASSUME ExportInv, state # "down", NEW r \in Req, pc[r] = "idle",
                      job[r].st = "none" \/ (E!Ended(job[r]) /\ ~job[r].sweeps)
               PROVE  job[r].files = {}
    BY DEF E!NothingLeftOnDisk
  <2> QED  BY OfOne DEF E!Ended, BuildOf, Together, OfTheRun
<1> QED  BY <1>1, ExportsAlways, PTL

(* The file a response is sending is on disk until it has been sent. *)
THEOREM SentFilesExist ==
  ASSUME Sizes
  PROVE  E!Spec => []E!SentFileExists
<1>1. ExportInv => E!SentFileExists
  BY OfOne DEF E!SentFileExists, Together
<1> QED  BY <1>1, ExportsAlways, PTL

(* No slot is lost and none is held twice, whatever is cancelled, abandoned or *)
(* fails.                                                                    *)
THEOREM SlotsAlwaysExact ==
  ASSUME Sizes
  PROVE  E!Spec => []E!SlotsExact
<1>1. ExportInv => E!SlotsExact
  BY SlotsCounted DEF ExportInv, Counted, Claimed, Building, Claims, Builds, E!SlotsExact
<1> QED  BY <1>1, ExportsAlways, PTL

(* No request is left waiting for a slot that is free. *)
THEOREM FreeSlotsWakeWaiters ==
  ASSUME Sizes
  PROVE  E!Spec => []E!FreeSlotWakesWaiters
<1>1. ExportInv => E!FreeSlotWakesWaiters
  BY DEF ExportInv
<1> QED  BY <1>1, ExportsAlways, PTL

(* The members of a bundle that is sent are one snapshot: nothing was deleted  *)
(* between the reading of its span and the end of its build.                 *)
THEOREM BundlesAreOneSnapshot ==
  ASSUME Sizes
  PROVE  E!Spec => []E!BundleIsOneSnapshot
<1>1. ExportInv => E!BundleIsOneSnapshot
  BY OfOne DEF E!BundleIsOneSnapshot, Untorn
<1> QED  BY <1>1, ExportsAlways, PTL

-------------------------------------------------------------------------------
(* A delete takes rows in chunks of at least one. *)
Bounds == Chunk \in Nat \ {0} /\ MaxNamedId \in Nat /\ MaxBirths \in Nat

(* Another program does not take the write lock between a delete and its    *)
(* token, the daemon is not killed there, and no row waits in a subscriber's *)
(* queue while a chunk is deleted: the three troubles HeldIdsStillName does  *)
(* not survive.                                                             *)
Untroubled == Trouble \subseteq {"commitFails"}

-------------------------------------------------------------------------------
(* The rows and the sequence. *)

IdsFiled == \A i \in I!Id : named[i] <= births /\ (named[i] # 0 => i < nextId)

Ascending == \A i, j \in I!Id : i < j /\ named[i] # 0 /\ named[j] # 0 => named[i] < named[j]

Referred == \A s \in labels : s.lo <= nextId /\ s.hi < nextId

(* A token is owed only for a delete that took the row born last. *)
LastIsGone == owed /\ births > 0 => \A i \in I!Id : named[i] # births

SeqInv == I!TypeOK /\ IdsFiled /\ Ascending /\ Referred /\ I!EndedSessionsStayEnded /\ LastIsGone

(* The clients and their tokens. *)

Covered(id) == \E i \in I!Id : named[i] # 0 /\ id <= i

Good(h) == Covered(h.id) /\ named[h.id] \in {0, h.birth}

Minted == stored = token /\ token <= mints /\ \A c \in Client : told[c] <= mints

QueuedAreFiled == \A c \in Client : \A r \in I!ToSet(inbox[c]) : named[r.id] = r.birth

HeldAreCovered ==
  ~owed => \A c \in Client : told[c] = token => \A h \in held[c] : Good(h)

TokenInv == Minted /\ QueuedAreFiled /\ HeldAreCovered

-------------------------------------------------------------------------------
(* The helpers. *)

(* A bounded set of numbers has the maximum that Max chooses. *)
LEMMA MaxIsThere ==
  ASSUME NEW Z \in SUBSET Nat, Z # {}, NEW B \in Nat, \A x \in Z : x <= B
  PROVE  I!Max(Z) \in Z /\ \A x \in Z : x <= I!Max(Z)
<1> DEFINE Above == {b \in Nat : \A x \in Z : x <= b}
<1>1. Above # {} /\ Above \subseteq Nat
  OBVIOUS
<1>2. PICK m \in Above : \A b \in Above : <<b, m>> \notin OpToRel(<, Nat)
  <2> HIDE DEF Above
  <2> QED  BY <1>1, WFMin, NatLessThanWellFounded
<1>3. \A b \in Above : m <= b
  <2> SUFFICES ASSUME NEW b \in Above, ~(m <= b) PROVE FALSE
    OBVIOUS
  <2>1. b \in Nat /\ m \in Nat /\ b < m
    OBVIOUS
  <2>2. <<b, m>> \in OpToRel(<, Nat)
    BY <2>1 DEF OpToRel
  <2> QED  BY <1>2, <2>2
<1>4. m \in Z
  <2> SUFFICES ASSUME m \notin Z PROVE FALSE
    OBVIOUS
  <2>1. PICK x \in Z : x \in Nat /\ x <= m /\ x # m
    OBVIOUS
  <2>2. m - 1 \in Nat /\ \A y \in Z : y <= m - 1
    BY <2>1
  <2>3. m - 1 \in Above
    BY <2>2
  <2>4. m <= m - 1
    BY <1>3, <2>3
  <2> QED  BY <2>2, <2>4
<1>5. \E x \in Z : \A y \in Z : x >= y
  BY <1>4
<1>6. I!Max(Z) \in Z /\ \A y \in Z : I!Max(Z) >= y
  BY <1>5 DEF I!Max
<1> QED  BY <1>6

LEMMA TopIdFacts ==
  ASSUME Bounds
  PROVE  /\ I!TopId \in {0} \cup I!Stored
         /\ \A i \in I!Stored : i <= I!TopId
<1> DEFINE Z == {0} \cup I!Stored
<1>1. Z \in SUBSET Nat /\ Z # {} /\ MaxNamedId \in Nat /\ \A x \in Z : x <= MaxNamedId
  BY DEF Bounds, I!Stored, I!Id
<1>2. I!Max(Z) \in Z /\ \A x \in Z : x <= I!Max(Z)
  <2> HIDE DEF Z
  <2> QED  BY <1>1, MaxIsThere
<1> QED  BY <1>2 DEF I!TopId

LEMMA TopRefFacts ==
  ASSUME I!TypeOK, Referred
  PROVE  /\ I!TopRef \in Nat
         /\ \A s \in labels : s.lo <= I!TopRef /\ s.hi <= I!TopRef
<1> DEFINE Z == {0} \cup {s.lo : s \in labels} \cup {s.hi : s \in labels}
<1>1. \A s \in labels : s.lo \in Nat /\ s.hi \in Nat /\ s.lo <= nextId /\ s.hi <= nextId
  BY DEF I!TypeOK, Referred
<1>2. Z \in SUBSET Nat /\ Z # {} /\ nextId \in Nat /\ \A x \in Z : x <= nextId
  BY <1>1 DEF I!TypeOK
<1>3. I!Max(Z) \in Z /\ \A x \in Z : x <= I!Max(Z)
  <2> HIDE DEF Z
  <2> QED  BY <1>2, MaxIsThere
<1>4. \A s \in labels : s.lo \in Z /\ s.hi \in Z
  OBVIOUS
<1>5. I!TopRef = I!Max(Z)
  BY DEF I!TopRef
<1> QED  BY <1>2, <1>3, <1>4, <1>5

LEMMA SeedFacts ==
  ASSUME Bounds, I!TypeOK, Referred
  PROVE  /\ I!Seed \in Nat \ {0}
         /\ \A i \in I!Stored : i < I!Seed
         /\ \A s \in labels : s.lo < I!Seed /\ s.hi < I!Seed
<1>1. I!TopId \in Nat /\ I!TopRef \in Nat
  BY TopIdFacts, TopRefFacts DEF I!Stored, I!Id
<1>2. \E B \in Nat : \A x \in {I!TopId, I!TopRef} : x <= B
  BY <1>1
<1>3. /\ I!Max({I!TopId, I!TopRef}) \in {I!TopId, I!TopRef}
      /\ \A x \in {I!TopId, I!TopRef} : x <= I!Max({I!TopId, I!TopRef})
  BY <1>1, <1>2, MaxIsThere
<1>4. I!Seed \in Nat \ {0} /\ I!TopId < I!Seed /\ I!TopRef < I!Seed
  BY <1>1, <1>3 DEF I!Seed
<1>5. \A i \in I!Stored : i \in Nat /\ i <= I!TopId
  BY TopIdFacts DEF I!Stored, I!Id
<1>6. \A s \in labels : s.lo \in Nat /\ s.hi \in Nat
  BY DEF I!TypeOK
<1> QED  BY <1>1, <1>4, <1>5, <1>6, TopRefFacts

LEMMA QueueFacts ==
  ASSUME NEW T, NEW s \in Seq(T), NEW x \in T
  PROVE  /\ I!ToSet(s) \subseteq T /\ I!ToSet(Append(s, x)) = I!ToSet(s) \cup {x}
         /\ I!ToSet(<<>>) = {}
<1>1. I!ToSet(s) \subseteq T /\ I!ToSet(<<>>) = {}
  BY DEF I!ToSet
<1>2. \A i \in DOMAIN Append(s, x) : Append(s, x)[i] \in I!ToSet(s) \cup {x}
  BY DEF I!ToSet
<1>3. x = Append(s, x)[Len(s) + 1] /\ Len(s) + 1 \in DOMAIN Append(s, x)
  OBVIOUS
<1>4. \A i \in DOMAIN s : i \in DOMAIN Append(s, x) /\ Append(s, x)[i] = s[i]
  OBVIOUS
<1> QED  BY <1>1, <1>2, <1>3, <1>4 DEF I!ToSet


-------------------------------------------------------------------------------
(* What the writer, a chunk and a start do to the rows. *)

LEMMA RowsAreNumbers ==
  ASSUME Bounds, I!TypeOK
  PROVE  \A i \in I!Id : i \in Nat \ {0} /\ named[i] \in Nat
<1>1. 0 .. MaxBirths \subseteq Nat /\ I!Id \subseteq Nat \ {0}
  BY DEF Bounds, I!Id
<1> QED  BY <1>1 DEF I!TypeOK

(* A row goes above every row there is and every id a session refers to. *)
LEMMA StoreKeeps ==
  ASSUME Bounds, SeqInv, I!Store(nextId)
  PROVE  /\ nextId \in I!Id /\ nextId' = nextId + 1 /\ births' = births + 1
         /\ named' \in [I!Id -> 0 .. MaxBirths] /\ named[nextId] = 0
              /\ named'[nextId] = births + 1
         /\ \A i \in I!Id : i # nextId => named'[i] = named[i]
         /\ IdsFiled' /\ Ascending'
<1>1. nextId \in I!Id /\ births \in Nat /\ births + 1 \in 0 .. MaxBirths
  BY DEF Bounds, SeqInv, I!TypeOK, I!Store, I!Id
<1>2. named[nextId] = 0
  BY <1>1 DEF SeqInv, IdsFiled, I!Id
<1>3. /\ named' \in [I!Id -> 0 .. MaxBirths] /\ named'[nextId] = births + 1
      /\ \A i \in I!Id : i # nextId => named'[i] = named[i]
  BY <1>1 DEF SeqInv, I!TypeOK, I!Store
<1>4. nextId' = nextId + 1 /\ births' = births + 1
  BY DEF I!Store
<1>5. \A i \in I!Id :
        i \in Nat /\ named[i] \in Nat /\ named[i] <= births /\ (named[i] # 0 => i < nextId)
  BY RowsAreNumbers DEF SeqInv, IdsFiled
<1>6. IdsFiled'
  BY <1>1, <1>3, <1>4, <1>5 DEF IdsFiled
<1>7. Ascending'
  <2> SUFFICES ASSUME NEW i \in I!Id, NEW j \in I!Id, i < j, named'[i] # 0, named'[j] # 0
               PROVE  named'[i] < named'[j]
    BY DEF Ascending
  <2>1. CASE j = nextId
    BY <1>1, <1>3, <1>5, <2>1
  <2>2. CASE i = nextId
    BY <1>1, <1>3, <1>5, <2>2
  <2>3. CASE i # nextId /\ j # nextId
    BY <1>3, <2>3 DEF SeqInv, Ascending
  <2> QED  BY <2>1, <2>2, <2>3
<1> QED  BY <1>1, <1>2, <1>3, <1>4, <1>6, <1>7

LEMMA QueuesTyped ==
  ASSUME Bounds, I!TypeOK, I!Store(nextId)
  PROVE  inbox' \in [Client -> Seq(I!Row)]
<1>1. [id |-> nextId, birth |-> births + 1] \in I!Row
  BY DEF Bounds, I!TypeOK, I!Store, I!Row, I!Id
<1>2. \A c \in Client :
        /\ inbox[c] \in Seq(I!Row)
        /\ Append(inbox[c], [id |-> nextId, birth |-> births + 1]) \in Seq(I!Row)
  BY <1>1 DEF I!TypeOK
<1> QED  BY <1>2 DEF I!Store

LEMMA SessionsUnder ==
  ASSUME Bounds, SeqInv, I!Store(nextId)
  PROVE  /\ \A s \in labels : s.lo <= nextId' /\ s.hi < nextId'
         /\ \A s \in labels : s.hi # 0 => \A i \in s.lo .. s.hi : i \in I!Id
              => named'[i] <= s.past
<1>1. \A s \in labels : s.lo \in Nat /\ s.hi \in Nat /\ s.lo <= nextId /\ s.hi < nextId
  BY DEF SeqInv, I!TypeOK, Referred
<1>2. nextId \in Nat /\ nextId' = nextId + 1
  BY StoreKeeps DEF SeqInv, I!TypeOK
<1>3. \A s \in labels : \A i \in s.lo .. s.hi : i # nextId
  BY <1>1, <1>2
<1> QED  BY <1>1, <1>2, <1>3, StoreKeeps DEF SeqInv, I!EndedSessionsStayEnded

(* Of the chunk's rows nothing is left, the others are as they were. *)
LEMMA ChunkFacts ==
  ASSUME Bounds, SeqInv, I!DeleteChunk
  PROVE  /\ named' \in [I!Id -> 0 .. MaxBirths]
         /\ \A i \in I!Id : named'[i] \in {0, named[i]}
         /\ \A i \in I!Id : i \in I!Oldest(I!Victims) <=> named'[i] # named[i]
         /\ I!Oldest(I!Victims) \subseteq I!Stored
<1>1. I!Oldest(I!Victims) \subseteq I!Stored
  BY DEF I!Oldest, I!Victims
<1>2. \A i \in I!Id : named'[i] = IF i \in I!Oldest(I!Victims) THEN 0 ELSE named[i]
  BY DEF I!DeleteChunk
<1>3. named' \in [I!Id -> 0 .. MaxBirths]
  <2>1. \A i \in I!Id : (IF i \in I!Oldest(I!Victims) THEN 0 ELSE named[i]) \in 0 .. MaxBirths
    BY DEF Bounds, SeqInv, I!TypeOK
  <2> QED  BY <2>1 DEF I!DeleteChunk
<1> QED  BY <1>1, <1>2, <1>3 DEF I!Stored

(* While the top stays, what was below a row is; and when it goes, the row    *)
(* born last goes with it.                                                    *)
LEMMA TopFacts ==
  ASSUME Bounds, SeqInv, I!DeleteChunk
  PROVE  /\ ~owed' => \A i \in I!Id : Covered(i) => Covered(i)'
         /\ owed' /\ births > 0 => \A i \in I!Id : named'[i] # births
<1>1. I!TopId \in {0} \cup I!Stored /\ (\A i \in I!Stored : i <= I!TopId)
        /\ I!Stored \subseteq I!Id
  BY TopIdFacts DEF I!Stored
<1>2. \A i \in I!Id : i \in Nat \ {0} /\ named[i] \in Nat /\ named[i] <= births
  BY RowsAreNumbers DEF SeqInv, IdsFiled
<1>3. owed' = (I!TopId \in I!Oldest(I!Victims)) /\ births \in Nat
  BY DEF I!DeleteChunk, I!FreesTop, SeqInv, I!TypeOK
<1>4. ASSUME ~owed', NEW i \in I!Id, Covered(i) PROVE Covered(i)'
  <2>1. PICK j \in I!Id : named[j] # 0 /\ i <= j
    BY <1>4 DEF Covered
  <2>2. j \in I!Stored /\ j <= I!TopId
    BY <1>1, <2>1 DEF I!Stored
  <2>3. I!TopId \in I!Stored /\ i <= I!TopId /\ I!TopId \in I!Id
    BY <1>1, <1>2, <2>1, <2>2
  <2>4. named'[I!TopId] = named[I!TopId] /\ named[I!TopId] # 0
    BY <1>3, <1>4, <2>3, ChunkFacts DEF I!Stored
  <2> QED  BY <2>3, <2>4 DEF Covered
<1>5. ASSUME owed', births > 0, NEW i \in I!Id, named'[i] = births PROVE FALSE
  <2>1. named[i] = births /\ named[i] # 0 /\ i \in I!Stored /\ i \notin I!Oldest(I!Victims)
    BY <1>3, <1>5, ChunkFacts DEF I!Stored
  <2>2. I!TopId \in I!Id /\ named[I!TopId] # 0 /\ i # I!TopId /\ i <= I!TopId
    BY <1>1, <1>3, <1>5, <2>1, ChunkFacts DEF I!Stored
  <2>3. named[i] < named[I!TopId] /\ named[I!TopId] <= births
    BY <1>2, <2>1, <2>2 DEF SeqInv, Ascending
  <2> QED  BY <1>2, <1>3, <2>1, <2>2, <2>3
<1> QED  BY <1>4, <1>5

-------------------------------------------------------------------------------
(* Types, by the variables that go together. *)

FileTypes ==
  /\ named \in [I!Id -> 0 .. MaxBirths]
  /\ \A s \in labels : s \in [lo : Nat \ {0}, hi : Nat, past : Nat]
  /\ stored \in Nat
DaemonTypes ==
  /\ on \in BOOLEAN /\ nextId \in Nat \ {0} /\ token \in Nat
  /\ deleting \in SUBSET I!Id /\ owed \in BOOLEAN
SocketTypes ==
  live \in [Client -> BOOLEAN] /\ inbox \in [Client -> Seq(I!Row)] /\ sent \in [Client -> Nat]
ClientTypes == told \in [Client -> Nat] /\ held \in [Client -> SUBSET I!Row]
PastTypes   == births \in Nat /\ mints \in Nat /\ starts \in Nat

LEMMA TypesTogether ==
  /\ I!TypeOK <=> FileTypes /\ DaemonTypes /\ SocketTypes /\ ClientTypes /\ PastTypes
  /\ I!TypeOK' <=> FileTypes' /\ DaemonTypes' /\ SocketTypes' /\ ClientTypes' /\ PastTypes'
BY DEF I!TypeOK, FileTypes, DaemonTypes, SocketTypes, ClientTypes, PastTypes

LEMMA TypesStay ==
  ASSUME I!TypeOK
  PROVE  /\ UNCHANGED I!fileVars => FileTypes'
         /\ UNCHANGED I!daemonVars => DaemonTypes'
         /\ UNCHANGED I!socketVars => SocketTypes'
         /\ UNCHANGED I!clientVars => ClientTypes'
         /\ UNCHANGED I!pastVars => PastTypes'
BY DEF I!TypeOK, FileTypes, DaemonTypes, SocketTypes, ClientTypes, PastTypes,
       I!fileVars, I!daemonVars, I!socketVars, I!clientVars, I!pastVars

LEMMA NobodyConnected ==
  /\ [c \in Client |-> <<>>] \in [Client -> Seq(I!Row)]
  /\ [c \in Client |-> FALSE] \in [Client -> BOOLEAN]
  /\ [c \in Client |-> I!NoToken] \in [Client -> Nat]
  /\ [c \in Client |-> {}] \in [Client -> SUBSET I!Row]
<1>1. <<>> \in Seq(I!Row) /\ {} \in SUBSET I!Row /\ I!NoToken \in Nat
  BY DEF I!NoToken
<1> QED  BY <1>1

LEMMA TypeInit == Bounds /\ I!Init => I!TypeOK
<1> SUFFICES ASSUME Bounds, I!Init PROVE I!TypeOK
  OBVIOUS
<1>1. FileTypes
  BY DEF I!Init, FileTypes, Bounds
<1>2. DaemonTypes /\ PastTypes
  <2>1. on \in BOOLEAN /\ owed \in BOOLEAN
    BY Zenon DEF I!Init
  <2> QED  BY <2>1 DEF I!Init, DaemonTypes, PastTypes
<1>3. SocketTypes /\ ClientTypes
  BY NobodyConnected DEF I!Init, SocketTypes, ClientTypes
<1> QED  BY <1>1, <1>2, <1>3, TypesTogether

LEMMA FrameTyped ==
  ASSUME I!TypeOK, NEW c \in Client, I!Frame(c)
  PROVE  SocketTypes' /\ ClientTypes'
<1>1. I!ToSet(inbox[c]) \subseteq I!Row
  BY DEF I!TypeOK, I!ToSet
<1>2. /\ inbox' \in [Client -> Seq(I!Row)] /\ sent' \in [Client -> Nat] /\ live' = live
      /\ told' \in [Client -> Nat]
  <2>1. <<>> \in Seq(I!Row) /\ token \in Nat
    BY DEF I!TypeOK
  <2> QED  BY <2>1 DEF I!Frame, I!TypeOK
<1>3. held' \in [Client -> SUBSET I!Row]
  <2> DEFINE kept == IF I!Announces(c) /\ told[c] # token THEN {} ELSE held[c]
             new  == {r \in I!ToSet(inbox[c]) : \A h \in kept : h.id < r.id}
  <2>1. kept \subseteq I!Row /\ new \subseteq I!Row
    BY <1>1 DEF I!TypeOK
  <2>2. held' = [held EXCEPT ![c] = kept \cup new]
    BY DEF I!Frame
  <2> HIDE DEF kept, new
  <2> QED  BY <2>1, <2>2 DEF I!TypeOK
<1> QED  BY <1>2, <1>3 DEF SocketTypes, ClientTypes, I!TypeOK

LEMMA StoreTyped ==
  ASSUME Bounds, SeqInv, I!Store(nextId)
  PROVE  /\ named' \in [I!Id -> 0 .. MaxBirths]
         /\ nextId' \in Nat \ {0} /\ births' \in Nat
         /\ inbox' \in [Client -> Seq(I!Row)]
<1>1. nextId \in Nat \ {0} /\ births \in Nat
  BY DEF SeqInv, I!TypeOK
<1> QED  BY <1>1, StoreKeeps, QueuesTyped DEF SeqInv

LEMMA TypeStep ==
  ASSUME Bounds, SeqInv, [I!Next]_(I!vars)
  PROVE  I!TypeOK'
<1>0. I!TypeOK /\ FileTypes /\ DaemonTypes /\ SocketTypes /\ ClientTypes /\ PastTypes
  BY TypesTogether DEF SeqInv
<1>1. CASE I!StoreRow
  <2>1. FileTypes' /\ DaemonTypes'
    BY <1>0, <1>1, StoreTyped DEF I!StoreRow, FileTypes, DaemonTypes
  <2>2. SocketTypes' /\ ClientTypes' /\ PastTypes'
    BY <1>0, <1>1, StoreTyped, TypesStay DEF I!StoreRow, SocketTypes, PastTypes
  <2> QED  BY <2>1, <2>2, TypesTogether
<1>2. CASE I!EndSession
  <2>1. PICK s \in I!Running : labels' = (labels \ {s})
                               \cup {[lo |-> s.lo, hi |-> nextId, past |-> births + 1]}
    BY <1>2 DEF I!EndSession
  <2>2. \A r \in labels' : r \in [lo : Nat \ {0}, hi : Nat, past : Nat]
    BY <1>0, <2>1 DEF I!Running, I!TypeOK
  <2>3. FileTypes' /\ DaemonTypes'
    BY <1>0, <1>2, <2>2, StoreTyped DEF I!EndSession, FileTypes, DaemonTypes
  <2>4. SocketTypes' /\ ClientTypes' /\ PastTypes'
    BY <1>0, <1>2, StoreTyped, TypesStay DEF I!EndSession, SocketTypes, PastTypes
  <2> QED  BY <2>3, <2>4, TypesTogether
<1>3. CASE I!CommitFails
  BY <1>0, <1>3, TypesStay, TypesTogether DEF I!CommitFails, DaemonTypes
<1>4. CASE I!OpenSession \/ I!ForgetSession
  <2>1. FileTypes'
    BY <1>0, <1>4 DEF I!OpenSession, I!ForgetSession, FileTypes, DaemonTypes
  <2> QED  BY <1>0, <1>4, <2>1, TypesStay, TypesTogether DEF I!OpenSession, I!ForgetSession
<1>5. CASE I!DeleteBegins \/ I!DeleteEnds
  <2>1. \A lo, hi \in I!Id : lo .. hi \subseteq I!Id
    BY DEF Bounds, I!Id
  <2>2. DaemonTypes'
    BY <1>0, <1>5, <2>1 DEF I!DeleteBegins, I!DeleteEnds, DaemonTypes
  <2> QED  BY <1>0, <1>5, <2>2, TypesStay, TypesTogether DEF I!DeleteBegins, I!DeleteEnds
<1>6. CASE I!DeleteChunk
  <2>1. owed' \in BOOLEAN
    BY <1>6 DEF I!DeleteChunk, I!FreesTop
  <2>2. FileTypes' /\ DaemonTypes' /\ PastTypes'
    BY <1>0, <1>6, <2>1, ChunkFacts DEF I!DeleteChunk, FileTypes, DaemonTypes, PastTypes
  <2> QED  BY <1>0, <1>6, <2>2, TypesStay, TypesTogether DEF I!DeleteChunk
<1>7. CASE I!NewCapture
  <2>1. mints + 1 \in Nat /\ stored' \in {stored, mints + 1} /\ deleting' \in {{}, deleting}
    BY <1>0, <1>7 DEF I!NewCapture, PastTypes
  <2>2. FileTypes' /\ DaemonTypes' /\ PastTypes'
    BY <1>0, <1>7, <2>1 DEF I!NewCapture, FileTypes, DaemonTypes, PastTypes
  <2> QED  BY <1>0, <1>7, <2>2, TypesStay, TypesTogether DEF I!NewCapture
<1>8. CASE I!RunEnds
  <2>1. DaemonTypes' /\ SocketTypes'
    BY <1>0, <1>8, NobodyConnected DEF I!RunEnds, DaemonTypes, SocketTypes
  <2> QED  BY <1>0, <1>8, <2>1, TypesStay, TypesTogether DEF I!RunEnds
<1>9. CASE I!Start
  <2>1. DaemonTypes' /\ PastTypes'
    BY <1>0, <1>9, SeedFacts DEF I!Start, FileTypes, DaemonTypes, PastTypes, SeqInv
  <2> QED  BY <1>0, <1>9, <2>1, TypesStay, TypesTogether DEF I!Start
<1>10. ASSUME NEW c \in Client, I!Connect(c) \/ I!Disconnect(c) PROVE I!TypeOK'
  <2>1. <<>> \in Seq(I!Row) /\ I!NoToken \in Nat
    BY DEF I!NoToken
  <2>2. SocketTypes'
    BY <1>0, <1>10, <2>1 DEF I!Connect, I!Disconnect, SocketTypes
  <2> QED  BY <1>0, <1>10, <2>2, TypesStay, TypesTogether DEF I!Connect, I!Disconnect
<1>11. ASSUME NEW c \in Client, I!Frame(c) PROVE I!TypeOK'
  BY <1>0, <1>11, FrameTyped, TypesStay, TypesTogether DEF I!Frame
<1>12. CASE UNCHANGED I!vars
  BY <1>0, <1>12, TypesStay, TypesTogether DEF I!vars
<1> QED  BY <1>1, <1>2, <1>3, <1>4, <1>5, <1>6, <1>7, <1>8, <1>9, <1>10, <1>11, <1>12 DEF I!Next

-------------------------------------------------------------------------------
(* The rows and the sequence. *)

LEMMA SeqInit == Bounds /\ I!Init => SeqInv
<1> SUFFICES ASSUME Bounds, I!Init PROVE SeqInv
  OBVIOUS
<1>1. labels = {} /\ births = 0 /\ \A i \in I!Id : named[i] = 0
  BY DEF I!Init
<1>2. LastIsGone
  BY <1>1 DEF LastIsGone
<1> QED  BY <1>1, <1>2, TypeInit DEF SeqInv, IdsFiled, Ascending, Referred,
      I!EndedSessionsStayEnded

(* Most steps leave the rows alone and let the sequence go up at most. *)
LEMMA IdsRowsStay ==
  ASSUME SeqInv, UNCHANGED <<named, births>>, nextId' = nextId \/ nextId' = nextId + 1
  PROVE  /\ IdsFiled' /\ Ascending'
         /\ UNCHANGED labels => Referred' /\ I!EndedSessionsStayEnded'
         /\ (owed' => owed) => LastIsGone'
<1>1. nextId \in Nat /\ \A i \in I!Id : i \in Int
  BY DEF SeqInv, I!TypeOK, I!Id
<1>2. \A s \in labels : s.lo \in Nat /\ s.hi \in Nat
  BY DEF SeqInv, I!TypeOK
<1> QED  BY <1>1, <1>2 DEF SeqInv, IdsFiled, Ascending, Referred, I!EndedSessionsStayEnded,
      LastIsGone

LEMMA SeqStep ==
  ASSUME Bounds, SeqInv, [I!Next]_(I!vars)
  PROVE  SeqInv'
<1> USE DEF I!fileVars, I!daemonVars, I!socketVars, I!clientVars, I!pastVars
<1>0. I!TypeOK' /\ \A s \in labels : s.lo \in Nat /\ s.hi \in Nat
  BY TypeStep DEF SeqInv, I!TypeOK
<1>1. CASE I!StoreRow
  <2>1. I!Store(nextId) /\ ~owed' /\ labels' = labels
    BY <1>1 DEF I!StoreRow, I!Quiet
  <2> QED  BY <1>0, <2>1, StoreKeeps, SessionsUnder
             DEF SeqInv, Referred, I!EndedSessionsStayEnded, LastIsGone
<1>2. CASE I!EndSession
  <2>1. I!Store(nextId) /\ ~owed'
    BY <1>2 DEF I!EndSession, I!Quiet
  <2>2. PICK s \in I!Running : labels' = (labels \ {s})
                               \cup {[lo |-> s.lo, hi |-> nextId, past |-> births + 1]}
    BY <1>2 DEF I!EndSession
  <2>3. nextId \in Nat /\ nextId' = nextId + 1 /\ births' = births + 1 /\ IdsFiled' /\ Ascending'
    BY <2>1, StoreKeeps DEF SeqInv, I!TypeOK
  <2>4. s \in labels /\ s.lo \in Nat /\ s.lo <= nextId
    BY <2>2 DEF I!Running, SeqInv, I!TypeOK, Referred
  <2>5. Referred'
    BY <2>1, <2>2, <2>3, <2>4, SessionsUnder DEF Referred
  <2>6. I!EndedSessionsStayEnded'
    BY <2>1, <2>2, <2>3, SessionsUnder DEF I!EndedSessionsStayEnded, IdsFiled
  <2> QED  BY <1>0, <2>1, <2>3, <2>5, <2>6 DEF SeqInv, LastIsGone
<1>3. CASE I!CommitFails
  BY <1>0, <1>3, IdsRowsStay DEF I!CommitFails, SeqInv
<1>4. CASE I!OpenSession \/ I!ForgetSession
  <2>1. UNCHANGED <<named, births, nextId, owed>> /\ nextId \in Nat \ {0}
    BY <1>4 DEF I!OpenSession, I!ForgetSession, SeqInv, I!TypeOK
  <2>2. labels' \subseteq labels \cup {[lo |-> nextId, hi |-> 0, past |-> 0]}
    BY <1>4 DEF I!OpenSession, I!ForgetSession
  <2>3. Referred' /\ I!EndedSessionsStayEnded'
    BY <2>1, <2>2 DEF SeqInv, Referred, I!EndedSessionsStayEnded
  <2> QED  BY <1>0, <2>1, <2>3, IdsRowsStay DEF SeqInv
<1>5. CASE I!DeleteBegins \/ I!DeleteEnds
  BY <1>0, <1>5, IdsRowsStay DEF I!DeleteBegins, I!DeleteEnds, SeqInv
<1>6. CASE I!DeleteChunk
  <2>1. UNCHANGED <<labels, nextId, births>>
    BY <1>6 DEF I!DeleteChunk
  <2>2. \A i \in I!Id : named'[i] \in {0, named[i]} /\ named[i] \in Nat
    BY <1>6, ChunkFacts, RowsAreNumbers DEF SeqInv
  <2>3. IdsFiled' /\ Ascending' /\ Referred'
    BY <2>1, <2>2 DEF SeqInv, I!TypeOK, IdsFiled, Ascending, Referred
  <2>4. I!EndedSessionsStayEnded'
    <3>1. \A s \in labels : s.past \in Nat
      BY DEF SeqInv, I!TypeOK
    <3>2. \A i \in I!Id, s \in labels : named[i] <= s.past => named'[i] <= s.past
      BY <2>2, <3>1
    <3> QED  BY <2>1, <3>2 DEF SeqInv, I!EndedSessionsStayEnded
  <2>5. LastIsGone'
    BY <1>6, <2>1, TopFacts DEF LastIsGone
  <2> QED  BY <1>0, <2>3, <2>4, <2>5 DEF SeqInv
<1>7. CASE I!NewCapture \/ I!RunEnds
  BY <1>0, <1>7, IdsRowsStay DEF I!NewCapture, I!RunEnds, SeqInv
<1>8. CASE I!Start
  <2>1. UNCHANGED <<named, labels, births, owed>> /\ nextId' = I!Seed
    BY <1>8 DEF I!Start
  <2>2. \A i \in I!Id : named[i] # 0 => i \in I!Stored
    BY DEF I!Stored
  <2>3. I!Seed \in Nat
    BY SeedFacts DEF SeqInv
  <2>4. IdsFiled' /\ Referred'
    BY <1>0, <2>1, <2>2, <2>3, SeedFacts DEF SeqInv, IdsFiled, Referred
  <2> QED  BY <1>0, <2>1, <2>4 DEF SeqInv, Ascending, I!EndedSessionsStayEnded, LastIsGone
<1>9. ASSUME NEW c \in Client, I!Connect(c) \/ I!Frame(c) \/ I!Disconnect(c) PROVE SeqInv'
  <2>1. UNCHANGED <<named, births, nextId, owed, labels>>
    BY <1>9 DEF I!Connect, I!Frame, I!Disconnect
  <2> QED  BY <1>0, <2>1, IdsRowsStay DEF SeqInv
<1>10. CASE UNCHANGED I!vars
  BY <1>0, <1>10, IdsRowsStay DEF I!vars, SeqInv
<1> QED  BY <1>1, <1>2, <1>3, <1>4, <1>5, <1>6, <1>7, <1>8, <1>9, <1>10 DEF I!Next

LEMMA SeqAlways == ASSUME Bounds PROVE I!Spec => []SeqInv
<1>1. SeqInv /\ [I!Next]_(I!vars) => SeqInv'
  BY SeqStep
<1> QED  BY <1>1, SeqInit, PTL DEF I!Spec

(* Every variable of the model keeps its type.                               *)
THEOREM IdentityTypes == ASSUME Bounds PROVE I!Spec => []I!TypeOK
<1>1. SeqInv => I!TypeOK
  BY DEF SeqInv
<1> QED  BY <1>1, SeqAlways, PTL

(* No row is ever stored inside the span of a session that ended before it,   *)
(* however much was deleted since and however often the daemon was started,   *)
(* with every trouble there is.                                              *)
THEOREM EndedSessionsAlwaysStay == ASSUME Bounds PROVE I!Spec => []I!EndedSessionsStayEnded
<1>1. SeqInv => I!EndedSessionsStayEnded
  BY DEF SeqInv
<1> QED  BY <1>1, SeqAlways, PTL

(* A token that changes costs no client its rows while the row captured last  *)
(* is still there: only _new_capture writes one, for a delete that took it.   *)
THEOREM ResetsAlwaysOwed == ASSUME Bounds PROVE I!Spec => I!ResetsAreOwed
<1> DEFINE AllThere == (\E i \in I!Id : births > 0 /\ named[i] = births) => stored' = stored
<1>1. SeqInv /\ [I!Next]_(I!vars) => AllThere
  <2> SUFFICES ASSUME SeqInv, [I!Next]_(I!vars), NEW i \in I!Id, births > 0, named[i] = births
               PROVE  stored' = stored
    OBVIOUS
  <2>1. ~owed
    BY DEF SeqInv, LastIsGone
  <2> QED  BY <2>1 DEF I!Next, I!vars, I!fileVars, I!StoreRow, I!CommitFails, I!OpenSession,
        I!EndSession,
                   I!ForgetSession, I!DeleteBegins, I!DeleteChunk, I!NewCapture, I!DeleteEnds,
                   I!RunEnds,
                   I!Start, I!Connect, I!Frame, I!Disconnect
<1>2. SeqInv /\ [I!Next]_(I!vars) => [AllThere]_(I!vars)
  BY <1>1
<1> QED  BY <1>2, SeqAlways, PTL DEF I!Spec, I!ResetsAreOwed

-------------------------------------------------------------------------------
(* What a client holds under its token. *)

(* A row that names its line in the file is covered by itself. *)
LEMMA FiledIsGood ==
  ASSUME I!TypeOK, NEW r \in I!Row, named[r.id] = r.birth
  PROVE  Good(r)
<1>1. r.id \in I!Id /\ r.birth # 0 /\ r.id \in Nat
  BY DEF I!Row, I!Id
<1> QED  BY <1>1 DEF Good, Covered

(* A new row goes where nobody holds one. *)
LEMMA StoreHeld ==
  ASSUME Bounds, SeqInv, I!Store(nextId), NEW h \in I!Row
  PROVE  /\ Good(h) => Good(h)'
         /\ named[h.id] = h.birth => named'[h.id] = h.birth
<1>1. h.id \in I!Id /\ h.birth # 0 /\ h.id \in Nat
  BY DEF I!Row, I!Id
<1>2. \A i \in I!Id : i \in Nat /\ (named[i] # 0 => i < nextId /\ named'[i] = named[i])
  BY StoreKeeps, RowsAreNumbers DEF SeqInv, IdsFiled
<1>3. ASSUME Good(h) PROVE Good(h)'
  <2>1. PICK i \in I!Id : named[i] # 0 /\ h.id <= i
    BY <1>3 DEF Good, Covered
  <2>2. named'[i] # 0 /\ h.id < nextId /\ nextId \in Nat
    BY <1>1, <1>2, <2>1 DEF SeqInv, I!TypeOK
  <2>3. named'[h.id] = named[h.id]
    BY <1>1, <2>2, StoreKeeps
  <2> QED  BY <1>3, <2>1, <2>2, <2>3 DEF Good, Covered
<1> QED  BY <1>1, <1>2, <1>3

(* The same of a chunk, unless it takes the top.                             *)
LEMMA ChunkHeld ==
  ASSUME Bounds, SeqInv, I!DeleteChunk, ~owed', NEW h \in I!Row
  PROVE  Good(h) => Good(h)'
<1>1. h.id \in I!Id
  BY DEF I!Row
<1> QED  BY <1>1, ChunkFacts, TopFacts DEF Good, Covered

LEMMA TokenInit == I!Init => TokenInv
<1> SUFFICES ASSUME I!Init PROVE TokenInv
  OBVIOUS
<1>1. \A c \in Client : told[c] = 0 /\ inbox[c] = <<>> /\ held[c] = {}
  BY DEF I!Init, I!NoToken
<1>2. I!ToSet(<<>>) = {}
  BY DEF I!ToSet
<1> QED  BY <1>1, <1>2 DEF I!Init, TokenInv, Minted, QueuedAreFiled, HeldAreCovered

(* Steps that leave the rows, the tokens and the clients alone. *)
LEMMA ClientsStay ==
  ASSUME TokenInv, UNCHANGED <<named, token, stored, mints, told, held>>, owed' = owed,
         \A c \in Client : inbox'[c] \in {<<>>, inbox[c]}
  PROVE  TokenInv'
<1>1. I!ToSet(<<>>) = {}
  BY DEF I!ToSet
<1>2. QueuedAreFiled'
  BY <1>1 DEF TokenInv, QueuedAreFiled
<1> QED  BY <1>2 DEF TokenInv, Minted, HeldAreCovered, Good, Covered

LEMMA StoreToken ==
  ASSUME Bounds, SeqInv, TokenInv, I!Store(nextId), ~owed, ~owed',
         UNCHANGED <<token, stored, mints, told, held, live>>
  PROVE  TokenInv'
<1>1. \A c \in Client : \A h \in held[c] : h \in I!Row
  BY DEF SeqInv, I!TypeOK
<1>2. HeldAreCovered'
  BY <1>1, StoreHeld DEF TokenInv, HeldAreCovered
<1>3. ASSUME NEW c \in Client, NEW r \in I!ToSet(inbox'[c]) PROVE named'[r.id] = r.birth
  <2> DEFINE new == [id |-> nextId, birth |-> births + 1]
  <2>1. inbox[c] \in Seq(I!Row) /\ new \in I!Row
    <3>1. nextId \in I!Id /\ births + 1 \in 1 .. MaxBirths
      BY StoreKeeps DEF Bounds, SeqInv, I!TypeOK, I!Store
    <3> QED  BY <3>1 DEF SeqInv, I!TypeOK, I!Row
  <2>2. inbox'[c] = inbox[c] \/ inbox'[c] = Append(inbox[c], new)
    BY DEF I!Store
  <2>3. r \in I!Row /\ (r \in I!ToSet(inbox[c]) \/ r = new)
    <3> HIDE DEF new
    <3>1. /\ I!ToSet(inbox[c]) \subseteq I!Row
          /\ I!ToSet(Append(inbox[c], new)) = I!ToSet(inbox[c]) \cup {new}
      BY <2>1, QueueFacts
    <3> QED  BY <1>3, <2>1, <2>2, <3>1
  <2>4. CASE r = new
    BY <2>4, StoreKeeps
  <2>5. CASE r \in I!ToSet(inbox[c])
    BY <2>3, <2>5, StoreHeld DEF TokenInv, QueuedAreFiled
  <2> QED  BY <2>3, <2>4, <2>5
<1> QED  BY <1>2, <1>3 DEF TokenInv, Minted, QueuedAreFiled

(* A frame: what is kept was held under this token, what is new is in the file. *)
LEMMA FrameToken ==
  ASSUME SeqInv, TokenInv, NEW c \in Client, I!Frame(c)
  PROVE  TokenInv'
<1> DEFINE kept == IF I!Announces(c) /\ told[c] # token THEN {} ELSE held[c]
           new  == {r \in I!ToSet(inbox[c]) : \A h \in kept : h.id < r.id}
<1>1. /\ held' = [held EXCEPT ![c] = kept \cup new]
      /\ told' = [told EXCEPT ![c] = IF I!Announces(c) THEN token ELSE told[c]]
      /\ inbox' = [inbox EXCEPT ![c] = <<>>]
      /\ UNCHANGED <<named, token, stored, mints, owed>> /\ ~owed
  BY DEF I!Frame, I!fileVars, I!daemonVars, I!pastVars, I!Quiet
<1>2. \A d \in Client : told'[d] \in {told[d], token} /\ inbox'[d] \in {<<>>, inbox[d]}
  BY <1>1 DEF SeqInv, I!TypeOK
<1>3. I!ToSet(<<>>) = {}
  BY DEF I!ToSet
<1>4. Minted' /\ QueuedAreFiled'
  BY <1>1, <1>2, <1>3 DEF TokenInv, Minted, QueuedAreFiled
<1>5. ASSUME NEW d \in Client, told'[d] = token, NEW h \in held'[d] PROVE Good(h)
  <2>1. CASE d # c
    BY <1>1, <1>5, <2>1 DEF SeqInv, I!TypeOK, TokenInv, HeldAreCovered
  <2>2. CASE d = c
    <3>1. h \in kept \/ h \in new
      BY <1>1, <1>5, <2>2 DEF SeqInv, I!TypeOK
    <3>2. CASE h \in kept
      <4>1. h \in held[c] /\ ~(I!Announces(c) /\ told[c] # token)
        BY <3>2
      <4>2. told[c] = token
        BY <1>1, <1>5, <2>2, <4>1 DEF SeqInv, I!TypeOK
      <4> QED  BY <1>1, <4>1, <4>2 DEF TokenInv, HeldAreCovered
    <3>3. CASE h \in new
      <4>1. h \in I!ToSet(inbox[c]) /\ h \in I!Row
        BY <3>3 DEF SeqInv, I!TypeOK, I!ToSet
      <4> QED  BY <4>1, FiledIsGood DEF SeqInv, TokenInv, QueuedAreFiled
    <3> QED  BY <3>1, <3>2, <3>3
  <2> QED  BY <2>1, <2>2
<1>6. HeldAreCovered'
  <2> HIDE DEF kept, new
  <2> QED  BY <1>1, <1>5 DEF HeldAreCovered, Good, Covered
<1> QED  BY <1>4, <1>6 DEF TokenInv

LEMMA TokenStep ==
  ASSUME Bounds, Untroubled, SeqInv, TokenInv, [I!Next]_(I!vars)
  PROVE  TokenInv'
<1> USE DEF I!fileVars, I!daemonVars, I!socketVars, I!clientVars, I!pastVars
<1>0. /\ "killBetween" \notin Trouble /\ "mintRefused" \notin Trouble /\ "lag" \notin Trouble
      /\ I!ToSet(<<>>) = {} /\ DOMAIN inbox = Client
  BY DEF Untroubled, I!ToSet, SeqInv, I!TypeOK
<1>1. CASE I!StoreRow \/ I!EndSession
  BY <1>1, StoreToken DEF I!StoreRow, I!EndSession, I!Quiet
<1>2. CASE I!CommitFails \/ I!OpenSession \/ I!ForgetSession \/ I!DeleteBegins \/ I!DeleteEnds
  BY <1>2, ClientsStay DEF I!CommitFails, I!OpenSession, I!ForgetSession, I!DeleteBegins,
     I!DeleteEnds
<1>3. CASE I!DeleteChunk
  <2>1. /\ UNCHANGED <<stored, token, mints, told, held, inbox>> /\ ~owed
        /\ \A c \in Client : inbox[c] = <<>>
    BY <1>0, <1>3 DEF I!DeleteChunk, I!Quiet
  <2>2. QueuedAreFiled'
    BY <1>0, <2>1 DEF QueuedAreFiled
  <2>3. \A c \in Client : \A h \in held[c] : h \in I!Row
    BY DEF SeqInv, I!TypeOK
  <2>4. HeldAreCovered'
    BY <1>3, <2>1, <2>3, ChunkHeld DEF TokenInv, HeldAreCovered
  <2> QED  BY <2>1, <2>2, <2>4 DEF TokenInv, Minted
<1>4. CASE I!NewCapture
  <2>1. /\ token' = mints + 1 /\ mints' = mints + 1 /\ stored' = mints + 1
        /\ UNCHANGED <<named, inbox, told, held>>
    BY <1>0, <1>4 DEF I!NewCapture
  <2>2. mints \in Nat /\ \A c \in Client : told[c] \in Nat /\ told[c] <= mints
    BY DEF SeqInv, I!TypeOK, TokenInv, Minted
  <2>3. Minted' /\ \A c \in Client : told'[c] # token'
    BY <2>1, <2>2 DEF Minted
  <2> QED  BY <2>1, <2>3 DEF TokenInv, QueuedAreFiled, HeldAreCovered
<1>5. CASE I!RunEnds
  <2>1. ~owed /\ ~owed'
    BY <1>0, <1>5 DEF I!RunEnds
  <2> QED  BY <1>5, <2>1, ClientsStay DEF I!RunEnds, SeqInv, I!TypeOK
<1>6. CASE I!Start
  <2>1. token' = token
    BY <1>6 DEF I!Start, TokenInv, Minted
  <2> QED  BY <1>6, <2>1, ClientsStay DEF I!Start
<1>7. ASSUME NEW c \in Client, I!Connect(c) \/ I!Disconnect(c) PROVE TokenInv'
  <2>1. \A d \in Client : inbox'[d] \in {<<>>, inbox[d]}
    BY <1>0, <1>7 DEF I!Connect, I!Disconnect
  <2> QED  BY <1>7, <2>1, ClientsStay DEF I!Connect, I!Disconnect
<1>8. ASSUME NEW c \in Client, I!Frame(c) PROVE TokenInv'
  BY <1>8, FrameToken
<1>9. CASE UNCHANGED I!vars
  BY <1>9, ClientsStay DEF I!vars
<1> QED  BY <1>1, <1>2, <1>3, <1>4, <1>5, <1>6, <1>7, <1>8, <1>9 DEF I!Next

(* As long as a client's token is the daemon's, every id it holds names the   *)
(* row it always named or none at all, over deletes, failed commits,          *)
(* reconnects and restarts.                                                  *)
THEOREM HeldIdsAlwaysName ==
  ASSUME Bounds, Untroubled
  PROVE  I!Spec => []I!HeldIdsStillName
<1>1. SeqInv /\ TokenInv /\ [I!Next]_(I!vars) => TokenInv'
  BY TokenStep
<1>2. TokenInv => I!HeldIdsStillName
  BY DEF TokenInv, HeldAreCovered, Good, I!HeldIdsStillName, I!Quiet
<1> QED  BY <1>1, <1>2, TokenInit, SeqAlways, PTL DEF I!Spec

-------------------------------------------------------------------------------
(* The parts together: whatever part is at work, the others stutter, so a    *)
(* behaviour of CaptureHistory is one of each part.                          *)
LEMMA PartsBehave ==
  Spec => R!Spec /\ S!Spec /\ E!Spec /\ I!Spec
<1>1. Init => R!Init /\ S!Init /\ E!Init /\ I!Init
  BY DEF Init
<1>2. [Next]_vars => [R!Next]_(R!vars)
  BY DEF Next, vars, sweepVars, R!vars, R!countVars
<1>3. [Next]_vars => [S!Next]_(S!vars)
  BY DEF Next, vars, spanVars, S!vars, S!fileVars, S!daemonVars, S!lockVars
<1>4. [Next]_vars => [E!Next]_(E!vars)
  BY DEF Next, vars, exportVars, E!vars, E!callVars, E!poolVars, E!pastVars
<1>5. [Next]_vars => [I!Next]_(I!vars)
  BY DEF Next, vars, idVars, I!vars, I!fileVars, I!daemonVars, I!socketVars, I!clientVars,
     I!pastVars
<1> QED  BY <1>1, <1>2, <1>3, <1>4, <1>5, PTL DEF Spec, R!Spec, S!Spec, E!Spec, I!Spec

(* However a trim, a sweep by age and a purge interleave with rows that are  *)
(* stored, sessions that start and end and a clock that steps back: a trim   *)
(* spares the sessions it must, no row taken goes unannounced, and the mark  *)
(* that lets a sweep skip its walk hides no row that has expired.            *)
THEOREM SweepsAlwaysSound == Spec => []SweepsSound
<1>1. SweepInv => SweepsSound
  BY SweepShows DEF SweepsSound
<1> QED  BY <1>1, SweepStart, SweepStep, PartsBehave, PTL DEF R!Spec

(* A trim that ends leaves no more than its target and what was stored while *)
(* it ran, whatever it had to spare.                                         *)
THEOREM CapAlwaysBounds == Spec => CapIsABound
<1>1. SweepInv /\ [R!Next]_(R!vars) =>
        [sweep.kind = "size" /\ R!TrimEnds =>
           R!Cardinality(R!Stored) <= Target + (topId - sweep.next)]_(R!vars)
  BY TrimmedCaps, SweepCounts DEF SweepInv
<1> QED  BY <1>1, SweepStart, SweepStep, PartsBehave, PTL DEF R!Spec, R!CapIsABound, CapIsABound

(* However starts, stops, deletes, configuration changes, restarts and kills *)
(* meet while a marker is being written: no two sessions claim a row, no     *)
(* line falls between two that follow each other, and an automatic one holds *)
(* the lines of one run of the daemon.                                       *)
THEOREM SessionsAlwaysSound == Spec => []SessionsSound
<1>1. SessionInd => SessionsSound
  BY SessionShows DEF SessionsSound
<1> QED  BY <1>1, SessionStart, SessionStep, PartsBehave, PTL DEF S!Spec

(* Whatever requests wait, leave or fail and however often the daemon stops  *)
(* or is killed: nothing is left on disk, a file that is sent exists, slots  *)
(* are counted right and wake their waiters, and a bundle is of one moment.  *)
THEOREM ExportsAlwaysSound == Spec => []ExportsSound
<1>1. Sizes
  BY SessionAssumption, ExportAssumption DEF Sizes
<1>2. /\ E!TypeOK /\ E!NothingLeftOnDisk /\ E!SentFileExists
      /\ E!SlotsExact /\ E!FreeSlotWakesWaiters /\ E!BundleIsOneSnapshot
      => ExportsSound
  BY DEF ExportsSound
<1> QED
  BY <1>1, <1>2, PartsBehave, ExportTypes, NothingStaysOnDisk, SentFilesExist, SlotsAlwaysExact,
     FreeSlotsWakeWaiters, BundlesAreOneSnapshot, PTL

(* As long as none of the three troubles befalls a delete, an id a client    *)
(* holds under its token names the row it always named, across deletes and   *)
(* restarts, and no row is stored inside a session that ended before it.     *)
THEOREM IdsAlwaysKept ==
  ASSUME Untroubled
  PROVE  Spec => []IdsKept
<1>1. Bounds
  BY IdentityAssumption DEF Bounds
<1>2. I!TypeOK /\ I!HeldIdsStillName /\ I!EndedSessionsStayEnded => IdsKept
  BY DEF IdsKept
<1> QED
  BY <1>1, <1>2, PartsBehave, IdentityTypes, HeldIdsAlwaysName, EndedSessionsAlwaysStay, PTL

(* A client is made to start over only when the row captured last is gone,   *)
(* whatever befalls the deletes.                                             *)
THEOREM ResetsStayOwed == Spec => ResetsAreOwed
<1>1. Bounds
  BY IdentityAssumption DEF Bounds
<1> QED  BY <1>1, PartsBehave, ResetsAlwaysOwed DEF ResetsAreOwed
===============================================================================
