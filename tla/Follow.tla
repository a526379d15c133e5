-------------------------------- MODULE Follow ---------------------------------
(***************************************************************************)
(* The readers of `mcu` that make several requests of one answer while the *)
(* capture changes under them (host/mcuscope/cli.py): `tail -f`, which     *)
(* subscribes, prints a snapshot and replays what arrived meanwhile;       *)
(* `can dump -f`, which prints a snapshot and polls; and the exports,      *)
(* which walk the pages of a window upwards. A step is one request or one  *)
(* frame of the socket: between two of them lines are committed, a trim    *)
(* takes the oldest, a purge takes all and with it the ids, a poll fails.  *)
(*                                                                         *)
(* A row is known by its birth; its id is given out again after a purge,   *)
(* which the capture token says. A pattern or channel filter selects as    *)
(* "is a CAN frame" does here. Printing, decoding and malformed answers    *)
(* are left out.                                                           *)
(***************************************************************************)
EXTENDS Naturals, Sequences, SequencesExt, FiniteSets, FiniteSetsExt

CONSTANTS
  Readers,    \* what may be run: "tail", "dump", "export"
  Newest,     \* values of -n
  PageMax,    \* LINES_PAGE, and the cap of /can/frames
  QueueSize,  \* capacity of the socket's queue at the daemon
  MaxBirths,  \* bound: rows ever stored
  MaxTrims, MaxPurges, MaxFailures   \* bounds: deletes of either kind, failed requests

VARIABLES
  \* the daemon
  file,       \* stored rows: [id, birth, frame]
  nextId, births, token, trims,
  queue, shed, \* the socket's queue and what it has shed since the last frame
  \* the reader
  kind, pc,
  n, to, got, \* a walk of pages: rows wanted, the id it is below, rows so far, newest first
  base,       \* history: births when the snapshot's first page was read
  staged,     \* frames that arrived during the snapshot
  watermark,  \* newest id the snapshot printed
  since,      \* ids up to here are done with
  start,      \* history: since as it began, or as the bounded poll of a new capture left it
  covered,    \* what this poll's pages have covered
  capture,    \* the token since belongs to, 0 when it could not be read
  failures, failing,
  gaps,       \* rows the client was told it missed
  out,        \* births of the rows printed, in order
  began,      \* history: the token when the reader began
  replayed    \* history: a poll has set the follow back to the start

daemonVars == <<file, nextId, births, token, trims>>
socketVars == <<queue, shed>>
walkVars   == <<n, to, got>>
tailVars   == <<base, staged, watermark, gaps>>
pollVars   == <<since, start, covered, capture, failures, failing, replayed>>
vars == <<daemonVars, socketVars, kind, pc, walkVars, tailVars, pollVars, out, began>>

NoEnd == MaxBirths + 1      \* a walk without id_to

Init ==
  /\ file = {} /\ nextId = 1 /\ births = 0 /\ token = 1 /\ trims = 0
  /\ queue = <<>> /\ shed = 0 /\ kind = "none" /\ pc = "idle"
  /\ n = 0 /\ to = NoEnd /\ got = <<>>
  /\ base = 0 /\ staged = <<>> /\ watermark = 0 /\ gaps = 0
  /\ since = 0 /\ start = 0 /\ covered = 0 /\ capture = 0 /\ failures = 0 /\ failing = FALSE
  /\ out = <<>> /\ began = 0 /\ replayed = FALSE

-------------------------------------------------------------------------------
(* The daemon. *)

Subscribed == kind = "tail" /\ pc \in {"snap", "live"}

Commit(frame) ==
  LET row == [id |-> nextId, birth |-> births + 1, frame |-> frame] IN
  /\ births < MaxBirths
  /\ file' = file \cup {row} /\ nextId' = nextId + 1 /\ births' = births + 1
  /\ IF ~Subscribed THEN UNCHANGED socketVars
     ELSE IF Len(queue) < QueueSize THEN queue' = Append(queue, row) /\ UNCHANGED shed
     ELSE queue' = Append(Tail(queue), row) /\ shed' = shed + 1
  /\ UNCHANGED <<token, trims, kind, pc, walkVars, tailVars, pollVars, out, began>>

Ids(rows) == {r.id : r \in rows}

(* Retention takes the oldest row, and never the top id. *)
Trim ==
  /\ Cardinality(file) > 1 /\ trims < MaxTrims /\ trims' = trims + 1
  /\ file' = {r \in file : r.id # Min(Ids(file))}
  /\ UNCHANGED <<nextId, births, token, socketVars, kind, pc, walkVars, tailVars, pollVars,
                 out, began>>

Purge ==
  /\ file # {} /\ token <= MaxPurges
  /\ file' = {} /\ nextId' = 1 /\ token' = token + 1
  /\ UNCHANGED <<births, trims, socketVars, kind, pc, walkVars, tailVars, pollVars, out, began>>

(* A page of a read, from the newest or the oldest end of a window. *)
Wanted(r) == kind = "dump" => r.frame

Window(lo, hi) == {r \in file : Wanted(r) /\ lo < r.id /\ r.id <= hi}

Sorted(rows) == SetToSortSeq(rows, LAMBDA x, y : x.id > y.id)     \* newest first

Page(rows, limit) == SubSeq(rows, 1, IF Len(rows) < limit THEN Len(rows) ELSE limit)

Least(x, y) == IF x < y THEN x ELSE y

Most(x, y) == IF x > y THEN x ELSE y

-------------------------------------------------------------------------------
(* The snapshot of tail and dump: _fetch_newest. *)

Births(rows) == [i \in DOMAIN rows |-> rows[i].birth]

(* Mutant: the next page starts at the last one's oldest row. *)
FurtherInclusive(page) == Last(page).id

Further(page) == Last(page).id - 1

(* Mutant: the socket is opened when the snapshot is printed. *)
BeginsLate(k, m) ==
  /\ kind = "none" /\ kind' = k /\ began' = token
  /\ pc' = IF k = "tail" THEN "late" ELSE "snap"
  /\ n' = m /\ to' = NoEnd /\ got' = <<>>
  /\ UNCHANGED <<daemonVars, socketVars, tailVars, pollVars, out>>

(* tail subscribes first, then takes the snapshot. *)
Begins(k, m) ==
  /\ kind = "none" /\ kind' = k /\ began' = token
  /\ pc' = "snap"
  /\ n' = m /\ to' = NoEnd /\ got' = <<>>
  /\ UNCHANGED <<daemonVars, socketVars, tailVars, pollVars, out>>

(* _new_rows: an id at or below the watermark was printed. *)
NewRows(rows, mark) == SelectSeq(rows, LAMBDA r : mark = 0 \/ r.id > mark)

Snapshot(rows) ==
  LET mark == Max({0} \cup Ids(ToSet(rows))) IN
  IF kind = "tail"
    THEN /\ out' = out \o Births(Reverse(rows)) \o Births(NewRows(staged, mark))
         /\ watermark' = mark /\ staged' = <<>> /\ pc' = "live"
    ELSE out' = out \o Births(Reverse(rows)) /\ pc' = "prime" /\ UNCHANGED <<watermark, staged>>

FirstPage == to = NoEnd

SnapPage ==
  LET rows == Sorted(Window(0, to)) page == Page(rows, Least(PageMax, n - Len(got)))
      all == got \o page IN
  /\ pc \in {"snap", "late"}
  /\ IF Len(rows) = Len(page) \/ page = <<>> \/ Len(all) >= n \/ Last(page).id <= 1
       THEN Snapshot(all) /\ got' = <<>> /\ to' = NoEnd
       ELSE got' = all /\ to' = Further(page) /\ UNCHANGED <<pc, out, watermark, staged>>
  /\ base' = IF FirstPage THEN births ELSE base
  /\ UNCHANGED <<daemonVars, socketVars, kind, n, gaps, pollVars, began>>

-------------------------------------------------------------------------------
(* tail -f. *)

(* A frame: everything queued, with the gap at its head. *)
Receives ==
  /\ Subscribed /\ queue # <<>>
  /\ queue' = <<>> /\ shed' = 0 /\ gaps' = gaps + shed
  /\ IF pc = "snap" THEN staged' = staged \o queue /\ UNCHANGED out
     ELSE out' = out \o Births(NewRows(queue, watermark)) /\ UNCHANGED staged
  /\ UNCHANGED <<daemonVars, kind, pc, walkVars, base, watermark, pollVars, began>>

-------------------------------------------------------------------------------
(* can dump -f: _dump_follow. *)

PrimeSince ==
  /\ pc = "prime" /\ pc' = "token"
  /\ since' = Max({0} \cup Ids(Window(0, NoEnd))) /\ start' = since'
  /\ UNCHANGED <<daemonVars, socketVars, kind, walkVars, tailVars, covered, capture, failures,
                 failing, replayed, out, began>>

(* The /status call is allowed to fail. *)
PrimeToken ==
  /\ pc = "token" /\ pc' = "polls"
  /\ \/ capture' = token /\ UNCHANGED failures
     \/ capture' = 0 /\ failures < MaxFailures /\ failures' = failures + 1
  /\ UNCHANGED <<daemonVars, socketVars, kind, walkVars, tailVars, since, start, covered,
                 failing, replayed, out, began>>

(* next_since_id: the newest line of the answer's snapshot, below id_to. *)
Covers(hi) == Most(since, Least(hi, nextId - 1))

(* One page of a poll; the last one prints and moves the follow on. Without a *)
(* watermark there is one page only.                                          *)
PollPage ==
  LET rows == Sorted(Window(since, to)) page == Page(rows, PageMax)
      all == got \o page  mark == Most(covered, Covers(to)) IN
  /\ pc = "polls"
  /\ IF since = 0 \/ Len(rows) = Len(page) \/ Last(page).id <= since + 1
       THEN /\ since' = mark /\ covered' = 0 /\ got' = <<>> /\ to' = NoEnd /\ failing' = FALSE
            /\ out' = out \o Births(Reverse(all))
            /\ pc' = IF all = <<>> THEN "check" ELSE "polls"
            /\ start' = IF since = 0 THEN mark ELSE start
       ELSE /\ covered' = mark /\ got' = all /\ to' = Further(page)
            /\ UNCHANGED <<since, start, failing, out, pc>>
  /\ UNCHANGED <<daemonVars, socketVars, kind, n, tailVars, capture, failures, replayed, began>>

(* Mutant: what the pages before the failure covered is kept. *)
PollFailsMovesOn ==
  /\ pc = "polls" /\ failures < MaxFailures /\ failures' = failures + 1
  /\ since' = Most(since, covered)
  /\ got' = <<>> /\ to' = NoEnd /\ covered' = 0 /\ failing' = TRUE
  /\ UNCHANGED <<daemonVars, socketVars, kind, pc, n, tailVars, start, capture, replayed,
                 out, began>>

(* A failed request loses the pages before it; polls that go on failing end *)
(* the follow.                                                              *)
PollFails ==
  /\ pc = "polls" /\ failures < MaxFailures /\ failures' = failures + 1
  /\ got' = <<>> /\ to' = NoEnd /\ covered' = 0 /\ failing' = TRUE
  /\ pc' = "polls" \/ (failing /\ pc' = "gone")
  /\ UNCHANGED <<daemonVars, socketVars, kind, n, tailVars, since, start, capture, replayed,
                 out, began>>

(* A poll without a frame asks for the token. *)
CheckToken ==
  /\ pc = "check" /\ pc' = "polls"
  /\ \/ token # capture /\ since' = 0 /\ capture' = token /\ replayed' = TRUE
        /\ UNCHANGED failures
     \/ token = capture /\ UNCHANGED <<since, capture, replayed, failures>>
     \/ /\ failures < MaxFailures /\ failures' = failures + 1
        /\ UNCHANGED <<since, capture, replayed>>
  /\ UNCHANGED <<daemonVars, socketVars, kind, walkVars, tailVars, start, covered, failing,
                 out, began>>

-------------------------------------------------------------------------------
(* The exports: _iter_pages_asc. *)

(* --to pins the ceiling once; without it the walk runs to what is newest when *)
(* its last page is read.                                                      *)
ExportBegins(pins) ==
  /\ kind = "none" /\ kind' = "export" /\ pc' = "pages" /\ began' = token
  /\ to' = IF pins THEN Max({0} \cup Ids(file)) ELSE NoEnd
  /\ UNCHANGED <<daemonVars, socketVars, n, got, tailVars, pollVars, out>>

AscPage ==
  LET rows == Reverse(Sorted(Window(since, to))) page == Page(rows, PageMax) IN
  /\ pc = "pages" /\ out' = out \o Births(page)
  /\ IF Len(rows) = Len(page) THEN since' = Most(since, Covers(to)) /\ pc' = "done"
     ELSE since' = Last(page).id /\ UNCHANGED pc
  /\ UNCHANGED <<daemonVars, socketVars, kind, walkVars, tailVars, start, covered, capture,
                 failures, failing, replayed, began>>

-------------------------------------------------------------------------------
Next ==
  \/ \E frame \in BOOLEAN : Commit(frame)
  \/ Trim \/ Purge
  \/ \E k \in Readers \ {"export"}, m \in Newest : Begins(k, m)
  \/ "export" \in Readers /\ \E pins \in BOOLEAN : ExportBegins(pins)
  \/ SnapPage \/ Receives
  \/ PrimeSince \/ PrimeToken \/ PollPage \/ PollFails \/ CheckToken
  \/ AscPage

Spec == Init /\ [][Next]_vars

-------------------------------------------------------------------------------
(* Properties. *)

(* Every variable holds what its comment says. *)
TypeOK ==
  /\ \A r \in file : r.id \in 1 .. nextId - 1 /\ r.birth \in 1 .. births
  /\ pc \in {"idle", "late", "snap", "live", "prime", "token", "polls", "check", "gone", "pages", "done"}
  /\ Len(queue) <= QueueSize /\ to \in 0 .. NoEnd /\ since \in 0 .. MaxBirths

SameIds == token = began

(* While the ids keep their meaning, no reader prints a row twice or out of *)
(* order: not where a snapshot meets the rows staged during it, not where a *)
(* page meets the next, not where a poll is repeated after a failure. Only  *)
(* a follow that could not read the token at first starts over.             *)
EachRowOnce == SameIds /\ ~replayed => \A i, j \in DOMAIN out : i < j => out[i] < out[j]

Printed == ToSet(out)

(* tail -f loses nothing between its snapshot and what it follows: a row    *)
(* committed after the snapshot was read is on the screen, on its way, or   *)
(* among those it was told it missed.                                       *)
TailMissesNothing ==
  kind = "tail" /\ SameIds /\ (pc = "live" \/ ~FirstPage) =>
    Cardinality(((base + 1) .. births)
      \ (Printed \cup ToSet(Births(queue)) \cup ToSet(Births(staged)))) <= gaps + shed

(* The snapshot has no hole: rows from the oldest it printed to the newest  *)
(* there was when it was read, but for those a trim took, were printed.     *)
SnapshotIsWhole ==
  SameIds /\ (pc = "prime" \/ (pc = "live" /\ watermark > 0)) =>
    \A r \in file : Wanted(r) /\ r.birth <= base /\ (\E b \in Printed : b < r.birth) =>
      r.birth \in Printed

(* A walk passes over nothing: rows that are still there and at or below    *)
(* what the reader is done with were printed, over several pages, failed    *)
(* polls, polls without a frame, and trims between two pages.               *)
WalksMissNothing ==
  SameIds => \A r \in file : Wanted(r) /\ start < r.id /\ r.id <= since => r.birth \in Printed

(* The same with a purge under the follow: what a frame delivers is printed. *)
(* It does not hold: the watermark of the snapshot is kept, and the capture  *)
(* object that says the ids are new is skipped.                              *)
TailSeesNewCapture ==
  kind = "tail" /\ pc = "live" =>
    Cardinality(((base + 1) .. births) \ (Printed \cup ToSet(Births(queue)))) <= gaps + shed

(* can dump -f shows every frame since its snapshot. It does not hold: what  *)
(* is committed before the request that finds where to follow from is        *)
(* neither in the snapshot nor followed.                                     *)
DumpMissesNothing ==
  kind = "dump" /\ pc = "polls" /\ SameIds =>
    \A r \in file : r.frame /\ r.birth > base /\ r.id <= since => r.birth \in Printed

(* The token a poll compares is that of the ids its watermark is about. It   *)
(* does not hold: the two are read by two requests.                          *)
WatermarkIsOfToken == pc \in {"polls", "check"} /\ capture = token /\ since > 0 =>
                        since < nextId
===============================================================================
