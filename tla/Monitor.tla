-------------------------------- MODULE Monitor --------------------------------
(***************************************************************************)
(* The board's side of the wire, where its simulator has to do what the    *)
(* firmware does: a command line is assembled from the bytes as they come  *)
(* and answered (assemble_one, process_line in                             *)
(* firmware/monitor/monitor.c; _process_incoming, handle_line in           *)
(* host/mcuscope/sim.py), and an event too long for a line is cut, one     *)
(* notice opening and one closing each run of cuts (event_end and the      *)
(* g_ovf_* of monitor.c; OverflowEpisode and encode_lines of sim.py).      *)
(*                                                                         *)
(* A line is its length, up to one byte past the cap, and what its tokens  *)
(* are. The firmware reads a stage of bytes per poll and runs at most one  *)
(* command of it, and a handler may poll in turn; the simulator takes      *)
(* whatever the link has. Bytes outside ASCII, the plot table, the CAN     *)
(* drain and a UART that refuses a line are left out.                      *)
(***************************************************************************)
EXTENDS Naturals, Sequences, SequencesExt, FiniteSets

CONSTANTS
  Cap,         \* MONITOR_LINE_MAX and MAX_LINE_BYTES
  StageMax,    \* sizeof g_stage
  Lines,       \* bound: lines the host sends
  Types,       \* event types
  Quiet,       \* MON_OVF_QUIET_MS and OVERFLOW_QUIET_S, in ticks
  QuietPolls,  \* MON_OVF_QUIET_POLLS
  MaxEvents,   \* bound: events emitted
  MaxTicks     \* bound: ticks of the clock

Heads == {"command", "seq", "many", "noise"}   \* runs; lacks a name; has too many tokens; is none
Line  == [size : 1 .. Cap + 1, head : Heads, cr : BOOLEAN]
Forms == {"whole", "cut", "bare"}   \* an event that fits; one cut; one whose cut keeps nothing

VARIABLES
  board,      \* "monitor" or "sim": which of them reads the lines
  sent,       \* the host's lines
  read,       \* bytes taken from the link
  stage,      \* g_stage, from g_stage_pos on
  buf, over,  \* g_line, as the line each byte is of; g_overflow
  running,    \* the line whose handler runs, 0 for none
  answers,    \* the answers, each with its line
  clocked,    \* the port has a tick_ms
  tick,
  ep, simEp,  \* the open episode of the firmware and of the simulator
  said, simSaid,   \* what each has emitted
  cuts, emitted    \* history: cut events per type, events

lineVars  == <<sent, read, stage, buf, over, running, answers>>
eventVars == <<clocked, tick, ep, simEp, said, simSaid, cuts, emitted>>
vars == <<board, lineVars, eventVars>>

-------------------------------------------------------------------------------
(* Command lines. *)

Bytes(n) ==
  [i \in 1 .. sent[n].size |-> [k |-> "x", n |-> n]]
    \o (IF sent[n].cr THEN <<[k |-> "cr", n |-> n]>> ELSE <<>>) \o <<[k |-> "lf", n |-> n]>>

Wire == FlattenSeq([n \in 1 .. Lines |-> Bytes(n)])

(* What a line is answered: `long` if its end was discarded.                *)
Answer(n, long) ==
  IF sent[n].head = "noise" THEN <<>>
  ELSE <<[n |-> n, a |-> IF long THEN "overflow"
                         ELSE CASE sent[n].head = "seq"  -> "badcmd"
                                [] sent[n].head = "many" -> "badarg"
                                [] OTHER                 -> "done"]>>

EndOf(bytes) == SelectInSeq(bytes, LAMBDA b : b.k = "lf")   \* 0: no line ends in them

(* Mutant: a CR counts towards the cap. *)
KeptWithCR(bytes) == SelectSeq(bytes, LAMBDA b : b.k # "lf")

Kept(bytes) == SelectSeq(bytes, LAMBDA b : b.k = "x")

Filled(bytes) == buf \o [i \in 1 .. Len(Kept(bytes)) |-> Kept(bytes)[i].n]

(* The bytes up to the first LF go into the buffer. A whole command of the  *)
(* firmware is left to its handler; everything else is answered at once.    *)
Assemble(bytes, handled) ==
  LET end == EndOf(bytes)
      all == Filled(IF end = 0 THEN bytes ELSE SubSeq(bytes, 1, end))
      n   == bytes[end].n
      long == over \/ Len(all) > Cap
  IN
  IF end = 0
  THEN /\ buf' = SubSeq(all, 1, IF Len(all) > Cap THEN Cap ELSE Len(all)) /\ over' = long
       /\ UNCHANGED <<running, answers>>
  ELSE IF handled /\ ~long /\ sent[n].head = "command"
  THEN running' = n /\ buf' = all /\ UNCHANGED <<over, answers>>
  ELSE buf' = <<>> /\ over' = FALSE /\ answers' = answers \o Answer(n, long) /\ UNCHANGED running

Rest(bytes) == IF EndOf(bytes) = 0 THEN <<>> ELSE SubSeq(bytes, EndOf(bytes) + 1, Len(bytes))

(* Mutant: a poll from within a handler assembles the next line. *)
MayAssembleAlways == TRUE

MayAssemble == running = 0

(* monitor_poll, its input: one read when nothing is staged, one command.   *)
PollInput ==
  /\ board = "monitor" /\ MayAssemble
  /\ \/ /\ stage = <<>>
        /\ \E k \in 1 .. StageMax :
             /\ read + k <= Len(Wire)
             /\ read' = read + k
             /\ LET got == SubSeq(Wire, read + 1, read + k)
                IN Assemble(got, TRUE) /\ stage' = Rest(got)
     \/ /\ stage # <<>>
        /\ Assemble(stage, TRUE) /\ stage' = Rest(stage) /\ UNCHANGED read
  /\ UNCHANGED <<board, sent, eventVars>>

(* The handler returns and its command is answered. *)
HandlerReturns ==
  /\ running # 0
  /\ answers' = Append(answers, [n |-> running, a |-> "done"])
  /\ running' = 0 /\ buf' = <<>> /\ over' = FALSE
  /\ UNCHANGED <<board, sent, read, stage, eventVars>>

(* _process_incoming: a chunk of any size; the lines in it are handled at   *)
(* once, one step for each.                                                 *)
Incoming ==
  /\ board = "sim"
  /\ \E k \in 1 .. Len(Wire) - read :
       LET got == SubSeq(Wire, read + 1, read + k) IN
       /\ EndOf(got) \in {0, k}
       /\ read' = read + k /\ Assemble(got, FALSE)
  /\ UNCHANGED <<board, sent, stage, eventVars>>

-------------------------------------------------------------------------------
(* Events. An event is its type and its form. *)

Event == [type : Types, form : Forms]
NoEpisode == [type |-> "none", count |-> 0, last |-> 0, polls |-> 0]

Opens(t)     == <<[k |-> "opens", type |-> t, n |-> 0]>>
Closes(e)    == <<[k |-> "closes", type |-> e.type, n |-> e.count]>>
Sends(t)     == <<[k |-> "event", type |-> t, n |-> 0]>>
Closing(e)   == IF e.count = 0 THEN <<>> ELSE Closes(e)
InEpisode(e, t) == e.count # 0 /\ e.type = t

(* event_end and event_send: st is the episode and what has been said.      *)
FirmwareSends(st, e) ==
  LET same == InEpisode(st.ep, e.type) IN
  IF e.form = "whole"
  THEN [ep   |-> IF same THEN [st.ep EXCEPT !.count = 0] ELSE st.ep,
        said |-> st.said \o (IF same THEN Closing(st.ep) ELSE <<>>) \o Sends(e.type)]
  ELSE [ep   |-> [type |-> e.type, count |-> IF same THEN st.ep.count + 1 ELSE 1,
                  last |-> IF clocked THEN tick ELSE 0, polls |-> 0],
        said |-> st.said \o (IF same THEN <<>> ELSE Closing(st.ep))
                   \o (IF e.form = "cut" THEN Sends(e.type) ELSE <<>>)
                   \o (IF same THEN <<>> ELSE Opens(e.type))]

(* Mutant: a cut of another type opens its episode over the one before. *)
SimCutsForgetting(st, e) ==
  [ep   |-> [type |-> e.type, count |-> IF InEpisode(st.ep, e.type) THEN st.ep.count + 1 ELSE 1,
             last |-> tick, polls |-> 0],
   said |-> st.said \o (IF e.form = "cut" THEN Sends(e.type) ELSE <<>>)
              \o (IF InEpisode(st.ep, e.type) THEN <<>> ELSE Opens(e.type))]

(* OverflowEpisode.cut. *)
SimCuts(st, e) ==
  LET kept == IF e.form = "cut" THEN Sends(e.type) ELSE <<>> IN
  IF InEpisode(st.ep, e.type)
  THEN [ep   |-> [st.ep EXCEPT !.count = @ + 1, !.last = tick], said |-> st.said \o kept]
  ELSE [ep   |-> [type |-> e.type, count |-> 1, last |-> tick, polls |-> 0],
        said |-> st.said \o Closing(st.ep) \o kept \o Opens(e.type)]

(* encode_lines of one line, with OverflowEpisode.whole. *)
SimSends(st, e) ==
  IF e.form # "whole" THEN SimCuts(st, e)
  ELSE IF InEpisode(st.ep, e.type)
  THEN [ep |-> NoEpisode, said |-> st.said \o Closing(st.ep) \o Sends(e.type)]
  ELSE [st EXCEPT !.said = @ \o Sends(e.type)]

(* Mutant: the quiet spell of the firmware runs from the first cut. *)
FirmwareSpellOver(e) == tick >= Quiet

(* ovf_on_poll: no cut for a while ends the episode. *)
SpellOver(e) == IF clocked THEN tick - e.last >= Quiet ELSE e.polls + 1 >= QuietPolls

Polled(e) ==
  IF e.count # 0 /\ SpellOver(e) THEN [ep |-> [e EXCEPT !.count = 0], said |-> said \o Closing(e)]
  ELSE [ep |-> IF clocked \/ e.count = 0 THEN e ELSE [e EXCEPT !.polls = @ + 1], said |-> said]

(* OverflowEpisode.expire, with the notice it hands to the pass. *)
Expired == simEp.count # 0 /\ tick - simEp.last >= Quiet

(* One turn of the board's loop: the firmware polls, then the application   *)
(* emits its events. The simulator looks at the episode while it gathers    *)
(* the pass and encodes the pass afterwards, the closing notice last.       *)
Loop(es) ==
  /\ emitted + Len(es) <= MaxEvents /\ emitted' = emitted + Len(es)
  /\ LET fw  == FoldLeft(FirmwareSends, Polled(ep), es)
         st  == FoldLeft(SimSends, [ep |-> IF Expired THEN NoEpisode ELSE simEp, said |-> simSaid], es)
     IN /\ ep' = fw.ep /\ said' = fw.said
        /\ simEp' = st.ep
        /\ simSaid' = st.said \o (IF Expired THEN Closing(simEp) ELSE <<>>)
  /\ cuts' = [t \in Types |-> cuts[t] + Len(SelectSeq(es, LAMBDA e : e.type = t /\ e.form # "whole"))]
  /\ UNCHANGED <<board, lineVars, clocked, tick>>

(* monitor_init again, and a fresh session of the simulator: an episode     *)
(* that is open goes without its count.                                     *)
Reinit ==
  /\ ep' = [ep EXCEPT !.count = 0] /\ simEp' = NoEpisode
  /\ said' = <<>> /\ simSaid' = <<>> /\ cuts' = [t \in Types |-> 0]
  /\ UNCHANGED <<board, lineVars, clocked, tick, emitted>>

Tick == tick < MaxTicks /\ tick' = tick + 1
        /\ UNCHANGED <<board, lineVars, clocked, ep, simEp, said, simSaid, cuts, emitted>>

-------------------------------------------------------------------------------
Init ==
  /\ board \in {"monitor", "sim"} /\ sent \in [1 .. Lines -> Line]
  /\ read = 0 /\ stage = <<>> /\ buf = <<>> /\ over = FALSE /\ running = 0 /\ answers = <<>>
  /\ clocked \in BOOLEAN /\ tick = 0
  /\ ep = NoEpisode /\ simEp = NoEpisode /\ said = <<>> /\ simSaid = <<>>
  /\ cuts = [t \in Types |-> 0] /\ emitted = 0

Commands == PollInput \/ HandlerReturns \/ Incoming
Events   == Reinit \/ Tick \/ \E es \in SeqOf(Event, 2) : Loop(es)

Next == Commands \/ Events

Spec == Init /\ [][Next]_vars

-------------------------------------------------------------------------------
(* Properties. *)

(* Every variable holds what its comment says. *)
TypeOK ==
  /\ read \in 0 .. Len(Wire) /\ Len(stage) < StageMax /\ Len(buf) <= Cap /\ running \in 0 .. Lines
  /\ ep.count <= MaxEvents /\ simEp.count <= MaxEvents

Ended == {n \in 1 .. Lines : read - Len(stage) >= Len(FlattenSeq([i \in 1 .. n |-> Bytes(i)]))}

(* Board and simulator answer each line that came whole, once, in order and *)
(* the same, however its bytes were cut into reads and whatever was         *)
(* discarded of the line before.                                            *)
AnswersAreDue ==
  answers = FlattenSeq([n \in 1 .. Cardinality(Ended \ {running}) |-> Answer(n, sent[n].size > Cap)])

(* The arguments of a handler that polls are still those of its line. *)
HandlerKeepsItsLine ==
  running # 0 => buf = [i \in 1 .. sent[running].size |-> running]

SumOf(s) == FoldLeft(LAMBDA a, x : a + x.n, 0, s)
Of(s, t, ks) == SelectSeq(s, LAMBDA x : x.k \in ks /\ x.type = t)

(* No cut is silent: the counts of the closed episodes and that of the open *)
(* one add up to the cut events of each type, with a clock and without.     *)
CutsAddUp ==
  \A t \in Types :
    /\ SumOf(Of(said, t, {"closes"})) + (IF ep.type = t THEN ep.count ELSE 0) = cuts[t]
    /\ SumOf(Of(simSaid, t, {"closes"})) + (IF simEp.type = t THEN simEp.count ELSE 0) = cuts[t]

Notices(s) == SelectSeq(s, LAMBDA x : x.k # "event")

(* The firmware's notices come in pairs: an episode is announced, and its   *)
(* count is out before the next one is announced.                           *)
InPairs(s) ==
  \A i \in DOMAIN Notices(s) :
    Notices(s)[i].k = (IF i % 2 = 1 THEN "opens" ELSE "closes")
    /\ (i % 2 = 0 => Notices(s)[i].type = Notices(s)[i - 1].type)
NoticesPaired == InPairs(said)

Without(s, ks) == SelectSeq(s, LAMBDA x : x.k \notin ks)

(* The simulator says what the firmware would: the same events and openings *)
(* in the same order, and as many counts of each size for each type.        *)
SimMirrorsMonitor ==
  clocked => /\ Without(said, {"closes"}) = Without(simSaid, {"closes"})
             /\ \A x \in ToSet(said) \cup ToSet(simSaid) :
                  Len(SelectSeq(said, LAMBDA y : y = x)) = Len(SelectSeq(simSaid, LAMBDA y : y = x))

(* The same with the place of the counts. It does not hold: the simulator   *)
(* ends a quiet episode after the events of the pass that finds it so.      *)
SimNoticesPaired == InPairs(simSaid)
===============================================================================
