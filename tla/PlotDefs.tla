------------------------------- MODULE PlotDefs -------------------------------
(***************************************************************************)
(* The typed-stream definitions of one board (PlotDecoder in               *)
(* host/mcuscope/protocol.py) wherever they are used: live on an attached  *)
(* port, primed from the store when a port attaches or a row's own board   *)
(* has no decoder (learn_stored_plot_defs and GET /plot/channels), and     *)
(* replayed over an export's window (_plot_export_defs, _export_rows).     *)
(*                                                                         *)
(* Both streams of the board declare one channel, so a definition is its   *)
(* stream and its version, and who declared last owns the channel.         *)
(***************************************************************************)
EXTENDS Naturals, Sequences, SequencesExt, FiniteSets, Folds

CONSTANTS
  Sid,         \* stream ids
  Lookback,    \* PLOT_DEF_LOOKBACK: newest rows a prime reads
  MaxRows,     \* bound: stored rows
  MaxVersion,  \* bound: redefinitions
  MaxRounds    \* bound: times the port goes away

VARIABLES
  rows,        \* the board's stored rows: [k "def" or "sample", sid, ver]
  port,        \* "attached", "detached", or "between": a reconnect is under way
  live,        \* _defs of the attached port, or of the one being replaced, in learn order
  cache,       \* detached_meta of the alias: <<>> or <<meta>>
  fill,        \* a /plot/channels request that has read the rows and not filled the cache
  served,      \* what the last such request answered
  rounds

vars == <<rows, port, live, cache, fill, served, rounds>>

Nothing == [sid |-> "none", ver |-> 0]
DefOf(r) == [sid |-> r.sid, ver |-> r.ver]

-------------------------------------------------------------------------------
(* PlotDecoder: a sequence of definitions, one per stream, in learn order.  *)

Knows(dec, sid) == \E i \in DOMAIN dec : dec[i].sid = sid
Drop(dec, sid)  == SelectSeq(dec, LAMBDA d : d.sid # sid)

Learn(dec, d) == Append(Drop(dec, d.sid), d)

(* learn(keep_existing=True), for rows that come newest first. *)
LearnOlder(dec, d) == IF Knows(dec, d.sid) THEN dec ELSE Append(dec, d)

LearnAll(dec, ds)     == FoldLeft(Learn, dec, ds)
LearnBackwards(ds)    == FoldLeft(LearnOlder, <<>>, Reverse(ds))

Definition(dec, sid) ==
  IF Knows(dec, sid) THEN SelectSeq(dec, LAMBDA d : d.sid = sid)[1] ELSE Nothing

(* channel_meta of the channel both streams declare: it is written in the   *)
(* order of the map, so the last entry stays.                               *)
Meta(dec) == IF dec = <<>> THEN Nothing ELSE Last(dec)

Defs(rs) == LET ds == SelectSeq(rs, LAMBDA r : r.k = "def") IN [i \in DOMAIN ds |-> DefOf(ds[i])]

(* learn_stored_plot_defs: the rows within the lookback of the newest. *)
Newest(rs) == IF Len(rs) > Lookback THEN SubSeq(rs, Len(rs) - Lookback + 1, Len(rs)) ELSE rs
Primed(rs) == LearnBackwards(Defs(Newest(rs)))

-------------------------------------------------------------------------------
(* An export that starts at row `first`: _plot_export_defs reads the `!pd`  *)
(* rows from the lookback before it, primes from those before it and hands  *)
(* the others to _export_rows, which learns each as the stream passes it.   *)

Before(first) ==
  SubSeq(rows, IF first > Lookback THEN first - Lookback ELSE 1, first - 1)

(* Mutant: what is primed is not reversed, the oldest definition stays. *)
InForceOldest(first, i) ==
  LET primed == FoldLeft(LearnOlder, <<>>, Defs(Before(first)))
  IN Definition(LearnAll(primed, Defs(SubSeq(rows, first, i - 1))), rows[i].sid)

InForce(first, i) ==
  LET primed == LearnBackwards(Defs(Before(first)))
  IN Definition(LearnAll(primed, Defs(SubSeq(rows, first, i - 1))), rows[i].sid)

-------------------------------------------------------------------------------

Init ==
  /\ rows = <<>> /\ port = "attached" /\ live = <<>> /\ cache = <<>> /\ fill = <<>>
  /\ served = <<>> /\ rounds = 0

(* The board declares a stream; ingest learns it and stores the row.        *)
Defines(sid, ver) ==
  /\ port = "attached" /\ Len(rows) < MaxRows
  /\ rows' = Append(rows, [k |-> "def", sid |-> sid, ver |-> ver])
  /\ live' = Learn(live, [sid |-> sid, ver |-> ver])
  /\ UNCHANGED <<port, cache, fill, served, rounds>>

(* A sample of a stream without a definition is stored as a plain event;    *)
(* otherwise it decodes against the one in force (feed_tokens), and the row *)
(* remembers which.                                                         *)
Samples(sid) ==
  /\ port = "attached" /\ Len(rows) < MaxRows /\ Knows(live, sid)
  /\ rows' = Append(rows, [k |-> "sample", sid |-> sid, ver |-> Definition(live, sid).ver])
  /\ UNCHANGED <<port, live, cache, fill, served, rounds>>

(* DELETE /ports, or the old port of a reconnect is taken out of the table. *)
GoesAway(to) ==
  /\ port = "attached" /\ rounds < MaxRounds
  /\ port' = to /\ rounds' = rounds + 1
  /\ live' = (IF to = "between" THEN live ELSE <<>>)
  /\ UNCHANGED <<rows, cache, fill, served>>

(* POST /ports: the new decoder was primed; the learned copy goes. *)
Attaches ==
  /\ port = "detached"
  /\ port' = "attached" /\ live' = Primed(rows) /\ cache' = <<>>
  /\ UNCHANGED <<rows, fill, served, rounds>>

(* POST /ports/{alias}/reconnect: adopt() takes over what the old decoder   *)
(* holds; the learned copy stays.                                           *)
Reconnects ==
  /\ port = "between"
  /\ port' = "attached" /\ live' = LearnAll(Primed(rows), live)
  /\ UNCHANGED <<rows, cache, fill, served, rounds>>

(* GET /plot/channels: the board's own decoder, or the learned copy, or the *)
(* stored rows, which are read in an await.                                 *)
ServesLive ==
  /\ port = "attached" /\ live # <<>>
  /\ served' = <<"live", Meta(live)>>
  /\ UNCHANGED <<rows, port, live, cache, fill, rounds>>

ServesCached ==
  /\ port # "attached" /\ cache # <<>>
  /\ served' = <<"cache", cache[1]>>
  /\ UNCHANGED <<rows, port, live, cache, fill, rounds>>

Reads ==
  /\ port # "attached" /\ cache = <<>> /\ fill = <<>>
  /\ fill' = <<Meta(Primed(rows))>>
  /\ UNCHANGED <<rows, port, live, cache, served, rounds>>

Fills ==
  /\ fill # <<>>
  /\ cache' = fill /\ fill' = <<>> /\ served' = <<"read", fill[1]>>
  /\ UNCHANGED <<rows, port, live, rounds>>

Next ==
  \/ \E sid \in Sid : Samples(sid) \/ \E ver \in 1 .. MaxVersion : Defines(sid, ver)
  \/ \E to \in {"detached", "between"} : GoesAway(to)
  \/ Attaches \/ Reconnects \/ ServesLive \/ ServesCached \/ Reads \/ Fills

Spec == Init /\ [][Next]_vars

TypeOK ==
  /\ port \in {"attached", "detached", "between"} /\ Len(rows) <= MaxRows
  /\ \A i \in DOMAIN live : \A j \in DOMAIN live : live[i].sid = live[j].sid => i = j

-------------------------------------------------------------------------------
(* Properties. *)

(* The newest stored definition of a stream before row i, at most `back`    *)
(* rows before row `first`.                                                 *)
NewestDef(sid, first, i) ==
  LET at == {n \in 1 .. i - 1 : n >= first - Lookback /\ rows[n].k = "def" /\ rows[n].sid = sid}
  IN IF at = {} THEN Nothing ELSE DefOf(rows[CHOOSE n \in at : \A m \in at : m <= n])

(* An export renders every sample under the definition that was in force    *)
(* when it was stored, wherever its window starts and however often the     *)
(* stream was redefined inside it: the one its points were decoded with,    *)
(* unless that lies before the lookback and the port has primed past it.    *)
ExportsInForce ==
  \A first \in DOMAIN rows : \A i \in first .. Len(rows) :
    rows[i].k = "sample" =>
      /\ InForce(first, i) = NewestDef(rows[i].sid, first, i)
      /\ InForce(first, i) # Nothing => InForce(first, i).ver = rows[i].ver

(* A port that primed decodes as if it had never gone away: for every       *)
(* stream that was declared within the lookback its definition is the       *)
(* newest one.                                                              *)
PrimedKnowsNewest ==
  port = "attached" => \A sid \in Sid :
    LET newest == NewestDef(sid, Len(rows) + 1, Len(rows) + 1)
    IN newest # Nothing => Definition(live, sid) = newest

(* Where two streams declare one channel the last declaration owns it, on   *)
(* an attached port that has primed as on one that has not. Priming goes    *)
(* newest first and appends what it meets, so the map ends with the oldest  *)
(* and that one is served.                                                  *)
LastDeclarationOwnsChannel ==
  port = "attached" /\ live # <<>> /\ Defs(Newest(rows)) # <<>> => Meta(live) = Last(Defs(rows))

(* What is served for a board without a decoder is what its stored rows     *)
(* say. A copy that was read while the port reconnected, or before an       *)
(* attach and filled in after it, survives into the next detach.            *)
LearnedCopyIsCurrent ==
  port # "attached" /\ cache # <<>> => cache[1] = Meta(Primed(rows))
===============================================================================
