------------------------------- MODULE Simulator -------------------------------
(***************************************************************************)
(* The simulated board behind a socket (host/mcuscope/sim.py): a thread    *)
(* that accepts one client at a time and serves it in passes: read what    *)
(* has come, answer it, gather what is due by the clock, and send each in  *)
(* pieces as the client takes them. Every session is a new board. A client *)
(* may be slow, stall or leave, a session may fail by a bug of its own,    *)
(* and the simulator is stopped from outside.                              *)
(*                                                                         *)
(* A line that is sent is its number and two bytes, so that it can be cut  *)
(* in the middle. Of the commands there are those that change what later   *)
(* ones answer or what is sent unasked. One periodic signal stands for     *)
(* all; plots and narration have no state that matters here.               *)
(***************************************************************************)
EXTENDS Integers, Sequences, SequencesExt, FiniteSets, FiniteSetsExt

CONSTANTS
  Commands,    \* what a client may send: "ping", "mark", "tx", "fail", "off", "none", "all"
  FailN,       \* commands a `sim fail` spoils
  DropNth,     \* --drop-response: the command that gets no answer, 0 for none
  Period,      \* of the periodic signal, in ticks
  BurstMax,    \* PERIODIC_MAX_BURST
  Delay,       \* of the echo of a transmitted frame, in ticks
  MaxCommands, MaxClock, MaxSessions   \* bounds

VARIABLES
  thread,      \* the serving thread: "accepts", "serves", "ended"
  listener,    \* is the listening socket open?
  stop,        \* the event SimHandle.stop sets
  now,
  step,        \* of a pass: "reads", "answers", "polls", "sends"
  asked,       \* the client's commands of this session
  taken,       \* how many of them have been read
  armed,       \* fail_left
  filter,      \* "all" or "none"
  echoes,      \* pending_echoes: [of, due]
  marks,       \* async_lines: the commands that made them
  next,        \* when the signal is due
  made,        \* the lines of this session
  out, off,    \* the lines being sent, from the first to the last of `made`; bytes accepted
  got,         \* the bytes the client has: [line, half]
  sessions, failures

boardVars  == <<armed, filter, echoes, marks, next>>
serverVars == <<thread, listener, stop, sessions, failures>>
linkVars   == <<out, off, got>>
vars == <<serverVars, now, step, asked, taken, boardVars, made, linkVars>>

(* A new Simulator, for a new client. *)
Fresh ==
  /\ asked' = <<>> /\ taken' = 0
  /\ armed' = 0 /\ filter' = "all" /\ echoes' = {} /\ marks' = <<>> /\ next' = now + Period
  /\ made' = <<>> /\ out' = <<1, 0>> /\ off' = 0 /\ got' = <<>>
  /\ step' = "reads"

Init ==
  /\ thread = "accepts" /\ listener = TRUE /\ stop = FALSE /\ sessions = 0 /\ failures = 0
  /\ now = 0 /\ step = "reads" /\ asked = <<>> /\ taken = 0
  /\ armed = 0 /\ filter = "all" /\ echoes = {} /\ marks = <<>> /\ next = Period
  /\ made = <<>> /\ out = <<1, 0>> /\ off = 0 /\ got = <<>>

-------------------------------------------------------------------------------
(* The client, the clock and whoever stops the simulator. *)

Ask ==
  /\ thread = "serves" /\ Len(asked) < MaxCommands
  /\ \E c \in Commands : asked' = Append(asked, c)
  /\ UNCHANGED <<serverVars, now, step, taken, boardVars, made, linkVars>>

Tick ==
  /\ now < MaxClock
  /\ \E t \in now + 1 .. MaxClock : now' = t      \* a pass may be late by any time
  /\ UNCHANGED <<serverVars, step, asked, taken, boardVars, made, linkVars>>

StopAsked ==
  /\ ~stop /\ stop' = TRUE /\ listener' = FALSE
  /\ UNCHANGED <<thread, sessions, failures, now, step, asked, taken, boardVars, made, linkVars>>

-------------------------------------------------------------------------------
(* serve_listener. *)

Accept ==
  /\ thread = "accepts" /\ listener /\ ~stop /\ sessions < MaxSessions
  /\ thread' = "serves" /\ sessions' = sessions + 1
  /\ Fresh
  /\ UNCHANGED <<listener, stop, failures, now>>

(* accept() fails: a dead descriptor ends the loop, anything else is tried  *)
(* again. spawn closes the listener with the thread.                        *)
AcceptFails ==
  /\ thread = "accepts"
  /\ \/ stop \/ ~listener
  /\ thread' = "ended" /\ listener' = FALSE
  /\ UNCHANGED <<stop, sessions, failures, now, step, asked, taken, boardVars, made, linkVars>>

(* Mutant: an exception of a session ends the thread, as it once did. *)
SessionFailsThrough ==
  /\ thread = "serves" /\ failures = 0
  /\ thread' = "ended" /\ failures' = 1
  /\ UNCHANGED <<listener, stop, sessions, now, step, asked, taken, boardVars, made, linkVars>>

(* A bug in a session ends that session only. *)
SessionFails ==
  /\ thread = "serves" /\ failures = 0
  /\ thread' = "accepts" /\ failures' = 1
  /\ UNCHANGED <<listener, stop, sessions, now, step, asked, taken, boardVars, made, linkVars>>

(* The session is over: the client has left, it has taken nothing for the   *)
(* stall budget, --flap has run out, or the simulator is stopped.           *)
SessionOver ==
  /\ thread = "serves"
  /\ thread' = "accepts"
  /\ UNCHANGED <<listener, stop, sessions, failures, now, step, asked, taken, boardVars, made, linkVars>>

(* What is sent next; a pass without lines sends nothing. *)
Sends(lines, to) ==
  /\ made' = made \o lines
  /\ out' = <<Len(made) + 1, Len(made) + Len(lines)>> /\ off' = 0
  /\ step' = to

-------------------------------------------------------------------------------
(* Commands. *)

Board == [armed |-> armed, filter |-> filter, echoes |-> echoes, marks |-> marks, lines |-> <<>>]

Answered(b, kind, i) == [b EXCEPT !.lines = Append(@, [k |-> kind, of |-> i])]

Transmits(b, i) == [b EXCEPT !.echoes = @ \cup {[of |-> i, due |-> now + Delay]}]
Filters(b, mode) == [b EXCEPT !.filter = mode]
Marks(b, i) == [b EXCEPT !.marks = Append(@, i)]

Obeyed(b, c, i) ==
  CASE c = "tx" -> Transmits(b, i) [] c = "mark" -> Marks(b, i)
    [] c \in {"none", "all"} -> Filters(b, c) [] OTHER -> b

(* The fault controls of `sim fail`. *)
Controls(b, c) == [b EXCEPT !.armed = IF c = "fail" THEN FailN ELSE 0]

(* Mutant: a command the simulator fails is run all the same. *)
RunAlways(b, c, i) ==
  IF c \in {"fail", "off"} THEN Answered(Controls(b, c), "ok", i)
  ELSE IF b.armed > 0 THEN Answered(Obeyed([b EXCEPT !.armed = @ - 1], c, i), "err", i)
  ELSE Answered(Obeyed(b, c, i), "ok", i)

(* dispatch: the fault controls always work, whatever else the next         *)
(* commands are failed.                                                     *)
Run(b, c, i) ==
  IF c \in {"fail", "off"} THEN Answered(Controls(b, c), "ok", i)
  ELSE IF b.armed > 0 THEN Answered([b EXCEPT !.armed = @ - 1], "err", i)
  ELSE Answered(Obeyed(b, c, i), "ok", i)

(* handle_line, with the response that is swallowed. *)
Handles(b, i) == IF i = DropNth THEN b ELSE Run(b, asked[i], i)

(* recv and _process_incoming. *)
Reads ==
  /\ thread = "serves" /\ step = "reads" /\ ~stop
  /\ \E k \in 0 .. Len(asked) - taken :
       LET b == FoldLeft(Handles, Board, [j \in 1 .. k |-> taken + j]) IN
       /\ taken' = taken + k
       /\ armed' = b.armed /\ filter' = b.filter /\ echoes' = b.echoes /\ marks' = b.marks
       /\ Sends(b.lines, "answers")
  /\ UNCHANGED <<serverVars, now, asked, next, got>>

-------------------------------------------------------------------------------
(* poll_events. *)

(* Mutant: beats that were missed are all sent, and the schedule goes on. *)
BeatsAll == IF now < next THEN <<0, next>>
            ELSE <<(now - next) \div Period + 1, next + ((now - next) \div Period + 1) * Period>>

(* _due_beats: how many, and when the next is due. *)
Beats ==
  LET owed == (now - next) \div Period + 1 IN
  IF now < next THEN <<0, next>>
  ELSE IF owed > BurstMax THEN <<BurstMax, now + Period>> ELSE <<owed, next + owed * Period>>

Passes(lines) == IF filter = "all" THEN lines ELSE <<>>

Polls ==
  /\ thread = "serves" /\ step = "polls"
  /\ LET due == {e \in echoes : now >= e.due}
         order == SetToSortSeq({e.of : e \in due}, <)
     IN
     /\ Sends([j \in 1 .. Len(marks) |-> [k |-> "mark", of |-> marks[j]]]
                \o Passes([j \in 1 .. Beats[1] |-> [k |-> "beat", of |-> 0]])
                \o Passes([j \in 1 .. Len(order) |-> [k |-> "echo", of |-> order[j]]]), "sends")
     /\ echoes' = echoes \ due
  /\ marks' = <<>> /\ next' = Beats[2]
  /\ UNCHANGED <<serverVars, now, asked, taken, armed, filter, got>>

-------------------------------------------------------------------------------
(* _sock_send_lines. *)

Size == 2 * (out[2] - out[1] + 1)
Byte(n) == [line |-> out[1] + (n - 1) \div 2, half |-> (n - 1) % 2]

(* Mutant: after a partial send the line it ended in is sent again. *)
ProgressFromLine ==
  /\ thread = "serves" /\ step \in {"answers", "sends"} /\ off < Size
  /\ \E n \in {1, Size - off} :
       /\ off' = 2 * ((off + n) \div 2)
       /\ got' = got \o [j \in 1 .. n |-> Byte(off + j)]
  /\ UNCHANGED <<serverVars, now, step, asked, taken, boardVars, made, out>>

Progress ==
  /\ thread = "serves" /\ step \in {"answers", "sends"} /\ off < Size
  /\ \E n \in {1, Size - off} :
       /\ off' = off + n
       /\ got' = got \o [j \in 1 .. n |-> Byte(off + j)]
  /\ UNCHANGED <<serverVars, now, step, asked, taken, boardVars, made, out>>

Sent ==
  /\ thread = "serves" /\ step \in {"answers", "sends"} /\ off = Size
  /\ step' = IF step = "answers" THEN "polls" ELSE "reads"
  /\ UNCHANGED <<serverVars, now, asked, taken, boardVars, made, linkVars>>


Next ==
  \/ Ask \/ Tick \/ StopAsked
  \/ Accept \/ AcceptFails \/ SessionFails \/ SessionOver
  \/ Reads \/ Polls \/ Progress \/ Sent

Spec == Init /\ [][Next]_vars

-------------------------------------------------------------------------------
(* Properties. *)

(* Every variable holds what its comment says. *)
TypeOK ==
  /\ thread \in {"accepts", "serves", "ended"} /\ now \in 0 .. MaxClock
  /\ taken \in 0 .. Len(asked) /\ armed \in 0 .. FailN /\ off \in 0 .. Size
  /\ ToSet(made) \subseteq [k : {"ok", "err", "mark", "beat", "echo"}, of : 0 .. MaxCommands]

(* The client gets the session's lines, each once, whole and in order, up   *)
(* to where the link ends, in whatever pieces it takes them.                *)
StreamIsWhole ==
  \A j \in DOMAIN got : got[j] = [line |-> (j + 1) \div 2, half |-> (j + 1) % 2]

Control(i) == asked[i] \in {"fail", "off"} /\ i # DropNth
Spoiled(i) ==
  ~Control(i) /\ \E f \in 1 .. i - 1 :
    /\ asked[f] = "fail" /\ Control(f) /\ \A g \in f + 1 .. i - 1 : ~Control(g)
    /\ Cardinality((f + 1 .. i - 1) \ {DropNth}) < FailN

(* Every command but the one to be dropped is answered once, in order; those *)
(* and only those are failed that follow a `sim fail` closely enough and no *)
(* `off`, however the commands were read.                                   *)
AnswersAreDue ==
  SelectSeq(made, LAMBDA x : x.k \in {"ok", "err"})
    = SelectSeq([i \in 1 .. taken |-> [k |-> IF Spoiled(i) THEN "err" ELSE "ok", of |-> i]],
                LAMBDA x : x.of # DropNth)

(* What a command makes follows its answer, and only if it was obeyed.      *)
EffectsFollowAnswers ==
  \A j \in DOMAIN made : made[j].k \in {"mark", "echo"} =>
    \E i \in 1 .. j - 1 : made[i] = [k |-> "ok", of |-> made[j].of]

(* A late pass costs a bounded burst: after a poll nothing is owed, and the *)
(* signal is never sent faster than it is due.                              *)
NothingOwed ==
  /\ step = "sends" /\ thread = "serves" =>
       /\ Cardinality({j \in out[1] .. out[2] : made[j].k = "beat"}) <= BurstMax
  /\ next <= now + Period

(* While the listener is open somebody serves it. *)
ListenerIsServed == listener => thread # "ended"
===============================================================================
