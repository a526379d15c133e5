------------------------------- MODULE LiveFeed -------------------------------
(***************************************************************************)
(* The live feed of a capture and who reads it: the fan-out of committed   *)
(* rows (Store.subscribe, _broadcast_batch, stop_subscribers in            *)
(* host/mcuscope/store.py), the pump of /ws, and CaptureWatch with the two *)
(* calls built on it, /wait with its repeated send and the live /assert    *)
(* (server.py). Everything runs on the daemon's event loop, so a step is   *)
(* what happens between two awaits; the writer commits while they wait.    *)
(*                                                                         *)
(* A row is known by its id, its place in the log. What a subscriber would *)
(* make of it is its kind: it shows what a call expects, what it forbids,  *)
(* or it is the echo of something the host sent, which carries the text    *)
(* but is not judged. Rows outside a subscriber's port are left out.       *)
(***************************************************************************)
EXTENDS Naturals, Sequences, FiniteSets, SequencesExt

CONSTANTS
  Socket,     \* /ws connections
  Poll,       \* calls of /wait and /assert
  Calls,      \* what a call may be: "wait", "expect", "forbid"
  SocketSize, \* capacity of a socket's queue
  PollSize,   \* capacity of a call's queue
  FrameMax,   \* WS_BATCH_MAX: rows in one frame
  MaxSubs,    \* MAX_SUBSCRIBERS
  MaxRows,    \* bound: rows committed
  MaxTicks    \* bound: writes of one repeated send

(* Who reads has a queue of its own with room for a row, and a frame has, too. *)
ASSUME FeedAssumption ==
  /\ Socket \cap Poll = {}
  /\ SocketSize \in Nat \ {0} /\ PollSize \in Nat \ {0} /\ FrameMax \in Nat \ {0}
  /\ Calls \subseteq {"wait", "expect", "forbid"}

Sub == Socket \cup Poll
Kind == {"hit", "bad", "tx"}
Stop == 0     \* the sentinel of a feed that closes

VARIABLES
  log,        \* the kinds of the rows committed, in the order of their ids
  closed,     \* _subscribers_closed
  fed,        \* rows broadcast: all but those committed after that
  queue,      \* _subscribers: each one's queue, <<>> when it has none
  subs,       \* who is subscribed
  shed,       \* _sub_dropped
  \* a socket: whether its pump runs, and what the client was sent: the rows, the gaps,
  \* the last id before it, and whether the last frame carried a row
  pumping, sent, gaps, base, showed,
  call        \* a call of /wait or /assert

storeVars  == <<log, closed, fed, queue, subs, shed>>
socketVars == <<pumping, sent, gaps, base, showed>>
vars == <<storeVars, socketVars, call>>

(* pc: idle, sending, turn (top of the loop), waits (in next_batch), scans,  *)
(* done. start: the watermark. late: what was left of the window when        *)
(* next_batch was called was nothing. spent, minOver: the window and the     *)
(* minimum have elapsed, endAt and minAt being the rows fed by then. batch:  *)
(* the ids of the candidates. ended: the sentinel was met. met, bad: what is *)
(* expected or forbidden was found. checked: something was judged.           *)
Idle == [pc |-> "idle", mode |-> "none", start |-> 0, repeats |-> FALSE, late |-> FALSE,
         spent |-> FALSE, minOver |-> TRUE, endAt |-> 0, minAt |-> 0, holds |-> FALSE,
         batch |-> {}, ended |-> FALSE, met |-> FALSE, bad |-> FALSE, checked |-> FALSE,
         dropped |-> 0, status |-> "none", sends |-> 0, failures |-> 0, echoes |-> 0]

Init ==
  /\ log = <<>> /\ closed = FALSE /\ fed = 0
  /\ queue = [s \in Sub |-> <<>>] /\ subs = {} /\ shed = [s \in Sub |-> 0]
  /\ pumping = [s \in Socket |-> FALSE] /\ sent = [s \in Socket |-> {}]
  /\ gaps = [s \in Socket |-> 0] /\ base = [s \in Socket |-> 0]
  /\ showed = [s \in Socket |-> FALSE]
  /\ call = [p \in Poll |-> Idle]

Size(s) == IF s \in Socket THEN SocketSize ELSE PollSize

-------------------------------------------------------------------------------
(* The store. *)

(* What waits in a full queue makes room at its old end, and is counted.    *)
Pushed(q, s, x) == Append(IF Len(q) >= Size(s) THEN Tail(q) ELSE q, x)

Sheds(s) == IF s \in subs /\ Len(queue[s]) >= Size(s) THEN shed[s] + 1 ELSE shed[s]

(* _broadcast_batch, of one row. *)
Broadcast(k) ==
  /\ Len(log) < MaxRows
  /\ log' = Append(log, k)
  /\ IF closed THEN UNCHANGED <<fed, queue, shed>>
     ELSE /\ fed' = Len(log) + 1
          /\ queue' = [s \in Sub |->
                IF s \in subs THEN Pushed(queue[s], s, Len(log) + 1) ELSE queue[s]]
          /\ shed' = [s \in Sub |-> Sheds(s)]

(* Rows of the target, and commands of other clients. *)
Commit ==
  /\ \E k \in Kind : Broadcast(k)
  /\ UNCHANGED <<closed, subs, socketVars, call>>

(* Mutant: what makes room for the sentinel is not counted. *)
StopUncounted ==
  /\ ~closed /\ closed' = TRUE
  /\ queue' = [s \in Sub |-> IF s \in subs THEN Pushed(queue[s], s, Stop) ELSE queue[s]]
  /\ UNCHANGED <<log, fed, subs, shed, socketVars, call>>

(* stop_subscribers: the last thing any queue is given. *)
StopSubscribers ==
  /\ ~closed /\ closed' = TRUE
  /\ queue' = [s \in Sub |-> IF s \in subs THEN Pushed(queue[s], s, Stop) ELSE queue[s]]
  /\ shed' = [s \in Sub |-> Sheds(s)]
  /\ UNCHANGED <<log, fed, subs, socketVars, call>>

Admits == ~closed /\ Cardinality(subs) < MaxSubs

Unsubscribed(s) ==
  /\ subs' = subs \ {s}
  /\ queue' = [queue EXCEPT ![s] = <<>>] /\ shed' = [shed EXCEPT ![s] = 0]

RowsIn(q) == ToSet(q) \ {Stop}

-------------------------------------------------------------------------------
(* /ws. *)

Connects(s) ==
  /\ s \notin subs /\ base[s] = 0 /\ Admits
  /\ subs' = subs \cup {s} /\ pumping' = [pumping EXCEPT ![s] = TRUE]
  /\ base' = [base EXCEPT ![s] = Len(log) + 1]
  /\ UNCHANGED <<log, closed, fed, queue, shed, sent, gaps, showed, call>>

Taken(s) == SubSeq(queue[s], 1, IF Len(queue[s]) < FrameMax THEN Len(queue[s]) ELSE FrameMax)

(* Mutant: a shed row is announced by the frame after the one it is missing from. *)
FrameCountsLate(s) ==
  /\ pumping[s] /\ queue[s] # <<>>
  /\ queue' = [queue EXCEPT ![s] = SubSeq(@, Len(Taken(s)) + 1, Len(@))]
  /\ gaps' = [gaps EXCEPT ![s] = @ + (IF showed[s] THEN shed[s] ELSE 0)]
  /\ shed' = [shed EXCEPT ![s] = IF showed[s] THEN 0 ELSE @]
  /\ sent' = [sent EXCEPT ![s] = @ \cup RowsIn(Taken(s))]
  /\ showed' = [showed EXCEPT ![s] = RowsIn(Taken(s)) # {}]
  /\ pumping' = [pumping EXCEPT ![s] = Stop \notin ToSet(Taken(s))]
  /\ UNCHANGED <<log, closed, fed, subs, base, call>>

(* One turn of the pump: the frame, with the gap at its head. *)
Frame(s) ==
  /\ pumping[s] /\ queue[s] # <<>>
  /\ queue' = [queue EXCEPT ![s] = SubSeq(@, Len(Taken(s)) + 1, Len(@))]
  /\ gaps' = [gaps EXCEPT ![s] = @ + shed[s]] /\ shed' = [shed EXCEPT ![s] = 0]
  /\ sent' = [sent EXCEPT ![s] = @ \cup RowsIn(Taken(s))]
  /\ showed' = [showed EXCEPT ![s] = RowsIn(Taken(s)) # {}]
  /\ pumping' = [pumping EXCEPT ![s] = Stop \notin ToSet(Taken(s))]
  /\ UNCHANGED <<log, closed, fed, subs, base, call>>

(* Either half of the socket has ended. *)
Hangs(s) ==
  /\ s \in subs
  /\ Unsubscribed(s)
  /\ pumping' = [pumping EXCEPT ![s] = FALSE]
  /\ UNCHANGED <<log, closed, fed, sent, gaps, base, showed, call>>

-------------------------------------------------------------------------------
(* /wait and /assert. *)

Opens(p, mode, holds, sends) ==
  /\ call[p].pc = "idle"
  /\ mode = "wait" => ~holds
  /\ sends = "repeat" => mode = "wait"
  /\ IF Admits
       THEN /\ subs' = subs \cup {p}
            /\ call' = [call EXCEPT ![p] = [Idle EXCEPT
                 !.mode = mode, !.start = Len(log), !.holds = holds, !.minOver = ~holds,
                 !.minAt = Len(log), !.repeats = (sends = "repeat"),
                 !.pc = IF sends = "once" THEN "sending" ELSE "turn"]]
       ELSE /\ call' = [call EXCEPT ![p] = [Idle EXCEPT !.pc = "done", !.status = "refused"]]
            /\ UNCHANGED subs
  /\ UNCHANGED <<log, closed, fed, queue, shed, socketVars>>

(* The minimum and the window run out. *)
MinOver(p) ==
  /\ call[p].pc \notin {"idle", "done"} /\ ~call[p].minOver
  /\ call' = [call EXCEPT ![p].minOver = TRUE, ![p].minAt = fed]
  /\ UNCHANGED <<storeVars, socketVars>>

WindowEnds(p) ==
  /\ call[p].pc \notin {"idle", "done"} /\ call[p].minOver /\ ~call[p].spent
  /\ call' = [call EXCEPT ![p].spent = TRUE, ![p].endAt = fed]
  /\ UNCHANGED <<storeVars, socketVars>>

(* The handler returns: what was shed since the last take belongs to the    *)
(* answer, the repeater is cancelled and the subscription goes.             *)
Answered(p, c, status) ==
  /\ call' = [call EXCEPT ![p] = [c EXCEPT !.pc = "done", !.status = status, !.batch = {},
                                           !.dropped = @ + shed[p]]]
  /\ Unsubscribed(p)
  /\ UNCHANGED <<log, closed, fed, socketVars>>

Continues(p, c) ==
  /\ call' = [call EXCEPT ![p] = c]
  /\ UNCHANGED <<log, closed, fed, subs, socketVars>>

(* The verdict over what has been judged. Only a wait has no verdict. *)
Verdict(c, drops) ==
  LET ok == (c.mode = "expect" => c.met) /\ ~c.bad IN
  IF ~c.checked THEN "empty"
  ELSE IF drops > 0 /\ ~c.bad THEN "incomplete"
  ELSE IF ok THEN "pass" ELSE "fail"

Concludes(p, c) ==
  Answered(p, c, IF c.mode = "wait" THEN (IF c.met THEN "match" ELSE "timeout")
                 ELSE Verdict(c, c.dropped + shed[p]))

(* The send: its own await, for as long as the window, cut by the shutdown. *)
SendEnds(p, ok) ==
  /\ call[p].pc = "sending"
  /\ IF ok THEN Continues(p, [call[p] EXCEPT !.pc = "turn"]) /\ UNCHANGED <<queue, shed>>
     ELSE Answered(p, call[p], "send_failed")

SendCut(p) ==
  /\ call[p].pc = "sending" /\ closed
  /\ Answered(p, call[p], "stopped")

(* Mutant: every write of a repeated send is stored. *)
TickStoresEach(p) ==
  LET c == call[p] IN
  /\ c.repeats /\ c.pc # "done" /\ c.sends + c.failures < MaxTicks
  /\ Broadcast("tx")
  /\ call' = [call EXCEPT ![p].sends = @ + 1, ![p].echoes = @ + 1]
  /\ UNCHANGED <<closed, subs, socketVars>>

(* _repeat_send's tick: a write that fails is counted and the next one due; *)
(* only the first that succeeds is stored.                                  *)
Tick(p) ==
  LET c == call[p] IN
  /\ c.repeats /\ c.pc # "done" /\ c.sends + c.failures < MaxTicks
  /\ \/ /\ call' = [call EXCEPT ![p].failures = @ + 1] /\ UNCHANGED <<log, fed, queue, shed>>
     \/ /\ c.sends = 0 /\ Broadcast("tx")
        /\ call' = [call EXCEPT ![p].sends = 1, ![p].echoes = @ + 1]
     \/ /\ c.sends > 0
        /\ call' = [call EXCEPT ![p].sends = @ + 1] /\ UNCHANGED <<log, fed, queue, shed>>
  /\ UNCHANGED <<closed, subs, socketVars>>

(* The top of the loop: an assert whose expectations are met ends with its  *)
(* minimum.                                                                 *)
Turn(p) ==
  LET c == call[p] met == c.mode = "expect" /\ c.met IN
  /\ c.pc = "turn"
  /\ IF met /\ c.minOver THEN Concludes(p, c)
     ELSE /\ Continues(p, [c EXCEPT !.pc = "waits", !.late = IF met THEN c.minOver ELSE c.spent])
          /\ UNCHANGED <<queue, shed>>

(* Mutant: the wait for rows has no timeout, a window spent before it apart. *)
ExpiredBefore(c) == c.late

(* What next_batch was given to wait for has elapsed. *)
Expired(c) == c.late \/ (IF c.mode = "expect" /\ c.met THEN c.minOver ELSE c.spent)

(* Mutant: every row of the port is judged. *)
CandidatesOfAnyone(p, rows) == {x \in rows : x > call[p].start}

(* Rows the watch hands out: past the watermark, of the target. *)
Candidates(p, rows) == {x \in rows : x > call[p].start /\ log[x] # "tx"}

(* Mutant: nothing is drained once the window is spent. *)
NextBatchUnlessLate(p) ==
  LET c == call[p] rows == RowsIn(queue[p]) cand == Candidates(p, rows) IN
  /\ c.pc = "waits" /\ ~c.ended /\ (queue[p] # <<>> \/ Expired(c))
  /\ IF c.late \/ cand = {} THEN Concludes(p, c)
     ELSE /\ Continues(p, [c EXCEPT !.pc = "scans", !.batch = cand, !.dropped = @ + shed[p]])
          /\ queue' = [queue EXCEPT ![p] = <<>>] /\ shed' = [shed EXCEPT ![p] = 0]

(* next_batch: everything queued, whether or not any of the window is left. *)
NextBatch(p) ==
  LET c == call[p] rows == RowsIn(queue[p]) cand == Candidates(p, rows)
      stops == Stop \in ToSet(queue[p]) IN
  /\ c.pc = "waits" /\ ~c.ended
  /\ queue[p] # <<>> \/ Expired(c)
  /\ IF stops /\ rows = {} THEN Answered(p, c, "stopped")
     ELSE IF cand # {}
       THEN /\ Continues(p, [c EXCEPT !.pc = "scans", !.batch = cand, !.ended = stops,
                                      !.dropped = @ + shed[p]])
            /\ queue' = [queue EXCEPT ![p] = <<>>] /\ shed' = [shed EXCEPT ![p] = 0]
     ELSE IF c.late \/ (rows = {} /\ c.mode = "wait") THEN Concludes(p, c)
     ELSE /\ Continues(p, [c EXCEPT !.pc = "turn", !.ended = stops, !.dropped = @ + shed[p]])
          /\ queue' = [queue EXCEPT ![p] = <<>>] /\ shed' = [shed EXCEPT ![p] = 0]

(* The sentinel was met with rows ahead of it; now the call is told. *)
NextBatchStopped(p) ==
  /\ call[p].pc = "waits" /\ call[p].ended
  /\ Answered(p, call[p], "stopped")

Shown(b, k) == \E x \in b : log[x] = k

(* _live_scan on the pool, the writer busy meanwhile. *)
Scan(p) ==
  LET c == call[p]
      hit == c.met \/ (c.mode # "forbid" /\ Shown(c.batch, "hit"))
      bad == c.mode # "wait" /\ Shown(c.batch, "bad")
      judged == [c EXCEPT !.checked = TRUE, !.met = IF bad THEN @ ELSE hit, !.bad = bad] IN
  /\ c.pc = "scans"
  /\ IF bad \/ c.late \/ (c.mode = "wait" /\ hit) THEN Concludes(p, judged)
     ELSE Continues(p, [judged EXCEPT !.pc = "turn", !.batch = {}]) /\ UNCHANGED <<queue, shed>>

(* Mutant: rows no scan finished with are not reported. *)
ScanCutQuietly(p) ==
  /\ call[p].pc = "scans" /\ call[p].spent
  /\ Concludes(p, call[p])

(* A scan that outlasts the window is given up: its rows are reported dropped, *)
(* unless the forbidden one was found before the cut.                          *)
ScanCut(p) ==
  LET c == call[p] IN
  /\ c.pc = "scans" /\ c.spent
  /\ Concludes(p, [c EXCEPT !.dropped = @ + Cardinality(c.batch)])

(* The client leaves. *)
Cancelled(p) ==
  /\ call[p].pc \notin {"idle", "done"}
  /\ Answered(p, call[p], "cancelled")

-------------------------------------------------------------------------------
Step(p) == Turn(p) \/ NextBatch(p) \/ NextBatchStopped(p) \/ Scan(p) \/ SendEnds(p, TRUE)

Next ==
  \/ Commit \/ StopSubscribers
  \/ \E s \in Socket : Connects(s) \/ Frame(s) \/ Hangs(s)
  \/ \E p \in Poll :
       \/ \E mode \in Calls, holds \in BOOLEAN, sends \in {"no", "once", "repeat"} :
            Opens(p, mode, holds, sends)
       \/ MinOver(p) \/ WindowEnds(p) \/ \E ok \in BOOLEAN : SendEnds(p, ok)
       \/ SendCut(p) \/ Tick(p) \/ Turn(p) \/ NextBatch(p) \/ NextBatchStopped(p)
       \/ Scan(p) \/ ScanCut(p) \/ Cancelled(p)

(* The loop runs what is due, time passes, and a send has its own timeout.  *)
Fairness ==
  /\ \A s \in Socket : WF_vars(Frame(s))
  /\ \A p \in Poll : WF_vars(MinOver(p)) /\ WF_vars(WindowEnds(p)) /\ WF_vars(Step(p))

Spec == Init /\ [][Next]_vars /\ Fairness

-------------------------------------------------------------------------------
(* Properties. *)

(* Every variable holds what its comment says. *)
TypeOK ==
  /\ log \in Seq(Kind) /\ closed \in BOOLEAN /\ subs \subseteq Sub
  /\ \A s \in Sub : Len(queue[s]) <= Size(s) /\ ToSet(queue[s]) \subseteq 0 .. Len(log)
  /\ \A s \in Sub : shed[s] <= Len(log) /\ (s \notin subs => shed[s] = 0)

Span(s, last) == last - (base[s] - 1)     \* rows since the socket subscribed

(* A client that adds the gaps it was told to the rows it got knows how far *)
(* it is: the gap at the head of a frame is exactly what is missing ahead   *)
(* of the frame's rows.                                                     *)
GapsAreExact ==
  \A s \in Socket : showed[s] =>
    \E last \in sent[s] : (\A x \in sent[s] : x <= last)
                          /\ Cardinality(sent[s]) + gaps[s] = Span(s, last)

(* A socket that was closed by the shutdown has been sent or told of every  *)
(* row broadcast before it.                                                 *)
ClosedFeedIsAccounted ==
  \A s \in Socket : s \in subs /\ closed /\ ~pumping[s] => Cardinality(sent[s]) + gaps[s] = Span(s, fed)

Shows(c, k, last) == \E i \in c.start + 1 .. last : log[i] = k

(* A negative verdict without holes was judged over the whole window: no    *)
(* line a /wait timed out for, and none an /assert failed for, was there    *)
(* before the deadline, during a send that spent it all included.           *)
NegativesAreJudged ==
  \A p \in Poll : LET c == call[p] IN
    c.dropped = 0 /\ (c.status = "timeout" \/ (c.status \in {"fail", "empty"} /\ c.mode = "expect" /\ ~c.bad))
      => ~Shows(c, "hit", c.endAt)

(* An /assert that only forbids passes over its whole window, and every     *)
(* verdict is about what the target sent, never the host's own echo.        *)
PassesAreJudged ==
  \A p \in Poll : LET c == call[p] IN
    /\ c.status = "pass" => c.dropped = 0 /\ (c.mode = "forbid" => ~Shows(c, "bad", c.endAt))
    /\ c.checked => \E i \in c.start + 1 .. Len(log) : log[i] # "tx"

(* With min_window_ms, a pass is judged over the minimum at least.          *)
MinWindowIsJudged ==
  \A p \in Poll : LET c == call[p] IN
    c.status = "pass" /\ c.holds => ~Shows(c, "bad", c.minAt)

(* A repeated send leaves one row in the capture, and one if it sent at all. *)
OneEchoPerRepeat ==
  \A p \in Poll : call[p].echoes = (IF call[p].repeats /\ call[p].sends > 0 THEN 1 ELSE 0)

(* Every call is answered: by its window's end, or by the shutdown.         *)
CallsAreAnswered == \A p \in Poll : call[p].pc # "idle" ~> call[p].pc = "done"
===============================================================================
