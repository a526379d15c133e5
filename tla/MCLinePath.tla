------------------------------ MODULE MCLinePath -------------------------------
(* A line's way from the board to whoever watches it, in one run: the board's end of  *)
(* the wire and its simulator, the codec, a port's line assembly, the table of ports, *)
(* the plot definitions, the sockets of the feed, and the follows and walks of the    *)
(* command line. They share no state that their models keep, so a behaviour of the    *)
(* run is a behaviour of one of them, and its invariant is asked of it. The board is  *)
(* two parts, the commands it reads and the notices it sends, as neither hears of the *)
(* other. The limits of what LinePathProofs is about, line assembly, ports and feed,  *)
(* are parameters; those of the others are given below.                               *)
EXTENDS Naturals, Sequences, SequencesExt, FiniteSets

CONSTANTS
  Cap, QueueMax, BatchMax, NamesMax, Names, MaxLines,                                 \* RxIngest
  Alias, MaxPorts, CarriedMax, Request, MaxMade, MaxCount, MaxDefs, Cancels,          \* PortManager
  Socket, Poll, Calls, SocketSize, PollSize, FrameMax, MaxSubs, MaxRows, MaxTicks     \* LiveFeed

(* The consumer takes a line at least, and the alias detached last is carried. *)
ASSUME LimitsAssumption ==
  /\ Cap \in Nat /\ QueueMax \in Nat /\ BatchMax \in Nat \ {0}
  /\ NamesMax \in Nat /\ MaxLines \in Nat
  /\ MaxPorts \in Nat /\ CarriedMax \in Nat \ {0} /\ MaxMade \in Nat /\ MaxCount \in Nat

(* A socket's queue, a call's and a frame have room for a row. *)
ASSUME FeedLimits ==
  /\ Socket \cap Poll = {}
  /\ SocketSize \in Nat \ {0} /\ PollSize \in Nat \ {0} /\ FrameMax \in Nat \ {0}
  /\ Calls \subseteq {"wait", "expect", "forbid"}

VARIABLES
  part,       \* whose behaviour this is
  \* RxIngest
  buf, discarding, lines, rxDropped, overflowing, wake, pc, batch, prepared, plotNames,
  unstorable, stopping, stopPc, begun, ended, kept, left,
  \* PortManager
  req, lockQ, ports, state, of, held, count, defs, carried, saved, shut, made, newest, high,
  changes,
  \* WireCodec
  stage, input, wire, output,
  \* PlotDefs
  rows, port, live, cache, fill, served, rounds,
  \* LiveFeed
  log, closed, fed, queue, subs, shed, pumping, sent, gaps, base, showed, call,
  \* Monitor
  board, told, read, staged, line, over, running, answers, clocked, tick, ep, simEp, said,
  simSaid, cuts, emitted,
  \* Simulator
  thread, listener, stop, now, step, asked, taken, armed, filter, echoes, marks, next,
  produced, out, off, got, sessions, failures,
  \* Follow
  stored, nextId, births, token, trims, pushed, missed, reader, at, wanted, to, page, anchor, aside,
  watermark, since, start, covered, capture, errors, failing, holes, printed, began, replayed

rxVars    == <<buf, discarding, lines, rxDropped, overflowing, wake, pc, batch, prepared,
               plotNames, unstorable, stopping, stopPc, begun, ended, kept, left>>
portsVars == <<req, lockQ, ports, state, of, held, count, defs, carried, saved, shut, made,
               newest, high, changes>>
codecVars == <<stage, input, wire, output>>
plotVars  == <<rows, port, live, cache, fill, served, rounds>>
feedVars  == <<log, closed, fed, queue, subs, shed, pumping, sent, gaps, base,
               showed, call>>
boardVars == <<board, told, read, staged, line, over, running, answers, clocked, tick, ep,
               simEp, said, simSaid, cuts, emitted>>
simVars   == <<thread, listener, stop, now, step, asked, taken, armed, filter, echoes, marks,
               next, produced, out, off, got, sessions, failures>>
followVars == <<stored, nextId, births, token, trims, pushed, missed, reader, at, wanted, to, page,
                anchor, aside, watermark, since, start, covered, capture, errors, failing,
                holes, printed, began, replayed>>
pathVars  == <<rxVars, portsVars, codecVars, plotVars, feedVars>>
vars      == <<part, pathVars, boardVars, simVars, followVars>>

R == INSTANCE RxIngest WITH queue <- lines, stored <- kept
P == INSTANCE PortManager WITH closed <- shut, stored <- newest
W == INSTANCE WireCodec WITH SeqMax <- 3, TickMax <- 9, StdMax <- 5, ExtMax <- 9,
       TokensMax <- 3, DataMax <- 8
D == INSTANCE PlotDefs WITH Sid <- {"s", "t"}, Lookback <- 2, MaxRows <- 4,
       MaxVersion <- 2, MaxRounds <- 2
L == INSTANCE LiveFeed
M == INSTANCE Monitor WITH Cap <- 1, StageMax <- 3, Lines <- 2, Types <- {"p", "m"}, Quiet <- 2,
       QuietPolls <- 2, MaxEvents <- 3, MaxTicks <- 3, sent <- told, stage <- staged, buf <- line
S == INSTANCE Simulator WITH Commands <- {"mark", "tx", "fail"}, FailN <- 1, DropNth <- 2,
       Period <- 1, BurstMax <- 1, Delay <- 1, MaxCommands <- 3, MaxClock <- 2,
       MaxSessions <- 1, made <- produced

\* The codec starts from every input; where another part runs, it is not there.
Codec == IF part = "codec" THEN W!Init
         ELSE stage = "given" /\ input = W!None /\ wire = W!None /\ output = W!None

F == INSTANCE Follow WITH Readers <- {"tail", "dump", "export"}, Newest <- {0, 2}, PageMax <- 1,
       QueueSize <- 1, MaxBirths <- 4, MaxTrims <- 1, MaxPurges <- 1, MaxFailures <- 2,
       file <- stored, queue <- pushed, shed <- missed, kind <- reader, pc <- at, n <- wanted, got <- page,
       base <- anchor, staged <- aside, failures <- errors, gaps <- holes, out <- printed

\* Every pair of lines is sent where they are read; the clock is there or not where
\* events are sent.
Board ==
  /\ IF part = "commands" THEN told \in [1 .. 2 -> M!Line]
     ELSE told = [n \in 1 .. 2 |-> [size |-> 1, head |-> "noise", cr |-> FALSE]] /\ board = "sim"
  /\ IF part = "notices" THEN TRUE ELSE clocked = TRUE
  /\ M!Init

Init ==
  /\ part \in {"rx", "ports", "codec", "plots", "feed", "commands", "notices", "sim", "follows"}
  /\ R!Init /\ P!Init /\ D!Init /\ L!Init /\ Codec /\ Board /\ S!Init /\ F!Init

Next ==
  /\ UNCHANGED part
  /\ \/ part \in {"rx", "ports", "codec", "plots", "feed"}
        /\ UNCHANGED <<boardVars, simVars, followVars>>
        /\ \/ part = "rx" /\ R!Next /\ UNCHANGED <<portsVars, codecVars, plotVars, feedVars>>
           \/ part = "ports" /\ P!Next /\ UNCHANGED <<rxVars, codecVars, plotVars, feedVars>>
           \/ part = "codec" /\ W!Next /\ UNCHANGED <<rxVars, portsVars, plotVars, feedVars>>
           \/ part = "plots" /\ D!Next /\ UNCHANGED <<rxVars, portsVars, codecVars, feedVars>>
           \/ part = "feed" /\ L!Next /\ UNCHANGED <<rxVars, portsVars, codecVars, plotVars>>
     \/ part = "commands" /\ M!Commands /\ UNCHANGED <<pathVars, simVars, followVars>>
     \/ part = "notices" /\ M!Events /\ UNCHANGED <<pathVars, simVars, followVars>>
     \/ part = "sim" /\ S!Next /\ UNCHANGED <<pathVars, boardVars, followVars>>
     \/ part = "follows" /\ F!Next /\ UNCHANGED <<pathVars, boardVars, simVars>>

Spec == Init /\ [][Next]_vars

\* RxIngest: a received line is stored or counted as lost once, the names a port spends are
\* spent by lines, a consumer with lines queued is awake, and stop() tells of every refusal.
IngestSound ==
  part = "rx" =>
    R!TypeOK /\ R!LinesAccounted /\ R!NamesSpentByLines /\ R!NoLostWakeup /\ R!RefusalsTold

\* PortManager: no reader runs without an owner in the table, counters do not go back over
\* a detach and an attach, and a port that replaces another knows its definitions.
PortsSound ==
  part = "ports" =>
    P!TypeOK /\ P!NoOrphanReader /\ P!CountersNeverGoBack /\ P!ReplacementKnowsDefs

\* PortManager: a /reconnect undoes no hold, detach or attach that came after it was asked.
ReconnectUndoesNothing == P!ReconnectUndoesNothing

\* WireCodec and PlotDefs: what is formatted parses back to what it was, no two points of a
\* sample have one name, an export renders a sample under the definition that held when it
\* was captured, and a primed decoder knows the newest one in its reach.
ProtocolSound ==
  /\ part = "codec" => W!TypeOK /\ W!RoundTrip /\ W!PointsHaveOneName
  /\ part = "plots" => D!TypeOK /\ D!ExportsInForce /\ D!PrimedKnowsNewest

\* Monitor and Simulator: whole lines are answered once, in order and alike by board and
\* simulator, a polling handler keeps its arguments, no cut event goes uncounted, and the
\* simulator sends each line of a session once and is there for the next client.
BoardSound ==
  /\ part \in {"commands", "notices"} =>
       /\ M!TypeOK /\ M!AnswersAreDue /\ M!HandlerKeepsItsLine
       /\ M!CutsAddUp /\ M!NoticesPaired /\ M!SimMirrorsMonitor
  /\ part = "sim" =>
       /\ S!TypeOK /\ S!StreamIsWhole /\ S!AnswersAreDue /\ S!EffectsFollowAnswers
       /\ S!NothingOwed /\ S!ListenerIsServed

\* LiveFeed: the gaps a socket is told add up to the rows it lost, each told ahead of the
\* row behind it, and a feed that closes owes none.
FeedSound ==
  part = "feed" =>
    L!TypeOK /\ L!GapsAreExact /\ L!ClosedFeedIsAccounted

\* Follow: no row is printed twice, out of order or passed over, where a snapshot meets the
\* rows staged behind it, a page the next, and a failed poll its repetition.
FollowSound ==
  part = "follows" =>
    F!TypeOK /\ F!EachRowOnce /\ F!TailMissesNothing /\ F!SnapshotIsWhole /\ F!WalksMissNothing
===============================================================================
