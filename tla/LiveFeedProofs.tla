--------------------------- MODULE LiveFeedProofs -----------------------------
(***************************************************************************)
(* Proofs about LiveFeed, for any number of sockets and calls, any rows in *)
(* any order, any queue sizes and any moment of a shutdown: what a verdict *)
(* of /wait or /assert was judged over, and what a client of /ws was sent  *)
(* or told of.                                                             *)
(*                                                                         *)
(* The argument is where a row that could change a verdict can be: a row   *)
(* that a call wants is in its queue or in the batch it scans, or the call *)
(* knows that it lost rows (Reached). When nothing of the window was left  *)
(* at the last look into the queue, every such row of the window is in the *)
(* batch (LastLook). A verdict over an empty batch and an empty queue      *)
(* is therefore a verdict over the window. For a socket it is that the     *)
(* rows of its queue are a run that ends with the last one broadcast       *)
(* (Runs), so that a gap is always just ahead of them (Ledger).            *)
(***************************************************************************)
EXTENDS LiveFeed, FiniteSetTheorems, SequenceTheorems, TLAPS

-------------------------------------------------------------------------------
(* The inductive invariant. *)

Fields == {"pc", "mode", "start", "repeats", "late", "spent", "minOver", "endAt", "minAt",
           "holds", "batch", "ended", "met", "bad", "checked", "dropped", "status", "sends",
           "failures", "echoes"}

IsCall(c) ==
  /\ DOMAIN c = Fields /\ c.mode \in {"none", "wait", "expect", "forbid"}
  /\ c.start \in Nat /\ c.endAt \in Nat /\ c.dropped \in Nat /\ c.batch \subseteq Nat
  /\ c.sends \in Nat /\ c.echoes = (IF c.repeats /\ c.sends > 0 THEN 1 ELSE 0)

StoreTypes ==
  /\ log \in Seq(Kind) /\ closed \in BOOLEAN /\ subs \subseteq Sub
  /\ fed \in 0 .. Len(log) /\ (~closed => fed = Len(log))
  /\ queue \in [Sub -> Seq(Nat)] /\ shed \in [Sub -> Nat]

CallTypes == DOMAIN call = Poll /\ \A p \in Poll : IsCall(call[p])

InFlight(c) == c.pc \notin {"idle", "done"}

(* A call in flight is subscribed and has found nothing that would end it,   *)
(* and has a batch only while it scans it.                                   *)
Open(p) ==
  LET c == call[p] IN
  InFlight(c) =>
    /\ p \in subs /\ c.mode # "none" /\ ~c.bad
    /\ c.met => c.mode = "expect"
    /\ c.pc = "scans" <=> c.batch # {}

(* A batch is rows the target sent past the watermark, and so is whatever    *)
(* was judged.                                                               *)
Judges(c) ==
  /\ c.endAt <= fed
  /\ \A x \in c.batch : x \in c.start + 1 .. Len(log) /\ log[x] # "tx"
  /\ c.checked => \E i \in c.start + 1 .. Len(log) : log[i] # "tx"
  /\ c.met => c.checked

(* The row could still change the call's verdict. *)
Wanted(c, i) ==
  \/ log[i] = "hit" /\ c.mode # "forbid" /\ ~c.met
  \/ log[i] = "bad" /\ c.mode # "wait"

(* No row that is wanted is passed over in silence. *)
Reached(p) ==
  LET c == call[p] IN
  InFlight(c) =>
    \A i \in c.start + 1 .. fed : Wanted(c, i) =>
      i \in ToSet(queue[p]) \/ i \in c.batch \/ c.dropped + shed[p] > 0

(* The look into the queue after which the call ends was taken once the      *)
(* window was over, and what the window held is in the batch.                *)
LastLook(p) ==
  LET c == call[p] IN
  c.pc \in {"waits", "scans"} /\ c.late /\ ~c.met =>
    /\ c.spent
    /\ c.pc = "scans" => \A i \in c.start + 1 .. c.endAt : Wanted(c, i) =>
                           i \in c.batch \/ c.dropped > 0

NegativeJudged(c) ==
  c.dropped = 0 /\ (c.status = "timeout" \/ (c.status \in {"fail",
                                                           "empty"} /\ c.mode = "expect"
                                                             /\ ~c.bad))
    => ~Shows(c, "hit", c.endAt)

PassJudged(c) == c.status = "pass" => c.dropped = 0 /\ (c.mode = "forbid" => ~Shows(c, "bad",
                                                                                    c.endAt))

Verdicts(c) ==
  /\ c.pc # "done" => c.status = "none"
  /\ NegativeJudged(c) /\ PassJudged(c)

(* A call's queue holds rows there are. *)
Queues == \A p \in Poll : ToSet(queue[p]) \subseteq 0 .. Len(log)

CallInv(p) ==
  /\ Open(p) /\ Judges(call[p]) /\ Reached(p) /\ LastLook(p) /\ Verdicts(call[p])

IInv == StoreTypes /\ CallTypes /\ Queues /\ \A p \in Poll : CallInv(p)

-------------------------------------------------------------------------------
(* Queues. *)

LEMMA AppendHolds ==
  ASSUME NEW q \in Seq(Nat), NEW x \in Nat
  PROVE  Append(q, x) \in Seq(Nat) /\ ToSet(Append(q, x)) = ToSet(q) \cup {x}
<1>1. DOMAIN Append(q, x) = DOMAIN q \cup {Len(q) + 1}
  OBVIOUS
<1>2. \A i \in DOMAIN q : Append(q, x)[i] = q[i]
  OBVIOUS
<1>3. Append(q, x)[Len(q) + 1] = x
  OBVIOUS
<1> QED  BY <1>1, <1>2, <1>3 DEF ToSet

LEMMA EmptyHolds == <<>> \in Seq(Nat) /\ ToSet(<<>>) = {}
BY DEF ToSet

LEMMA TailHolds ==
  ASSUME NEW q \in Seq(Nat), Len(q) # 0
  PROVE  Tail(q) \in Seq(Nat) /\ ToSet(Tail(q)) \subseteq ToSet(q)
<1>1. Tail(q) \in Seq(Nat) /\ Len(Tail(q)) = Len(q) - 1
  OBVIOUS
<1>2. \A i \in 1 .. Len(q) - 1 : Tail(q)[i] = q[i + 1] /\ i + 1 \in 1 .. Len(q)
  OBVIOUS
<1> QED  BY <1>1, <1>2 DEF ToSet

(* A row is pushed whatever the queue holds, and nothing goes for it unless  *)
(* the queue is full.                                                        *)
LEMMA PushedHolds ==
  ASSUME NEW q \in Seq(Nat), NEW x \in Nat, NEW p \in Sub
  PROVE  /\ Pushed(q, p, x) \in Seq(Nat) /\ x \in ToSet(Pushed(q, p, x))
         /\ ToSet(Pushed(q, p, x)) \subseteq ToSet(q) \cup {x}
         /\ Len(q) < Size(p) => ToSet(q) \subseteq ToSet(Pushed(q, p, x))
<1>1. Size(p) \in Nat \ {0} /\ Len(q) \in Nat
  BY FeedAssumption DEF Size, Sub
<1>2. CASE Len(q) < Size(p)
  <2>1. Pushed(q, p, x) = Append(q, x)
    BY <1>1, <1>2 DEF Pushed
  <2> QED  BY <2>1, AppendHolds
<1>3. CASE Len(q) >= Size(p)
  <2>1. Pushed(q, p, x) = Append(Tail(q), x) /\ ~(Len(q) < Size(p)) /\ Len(q) # 0
    BY <1>1, <1>3 DEF Pushed
  <2>2. Tail(q) \in Seq(Nat) /\ ToSet(Tail(q)) \subseteq ToSet(q)
    BY <2>1, TailHolds
  <2> QED  BY <2>1, <2>2, AppendHolds, ZenonT(40)
<1> QED  BY <1>1, <1>2, <1>3

-------------------------------------------------------------------------------
(* What a step leaves of a call it is not about. *)

Alike(c, d) ==
  /\ d.pc = c.pc /\ d.mode = c.mode /\ d.start = c.start /\ d.late = c.late
  /\ d.spent = c.spent /\ d.endAt = c.endAt /\ d.batch = c.batch /\ d.met = c.met
  /\ d.bad = c.bad /\ d.checked = c.checked /\ d.dropped = c.dropped /\ d.status = c.status

(* The log keeps its rows, and a row that is new is at its end.              *)
Grows == \/ log' = log
         \/ \E k \in Kind : log' = Append(log, k)

(* What a queue held it holds, but for what is counted, and what is new in   *)
(* the feed it holds.                                                        *)
Delivers(p) ==
  /\ p \in subs => p \in subs'
  /\ fed' = fed \/ (fed = Len(log) /\ fed' = fed + 1)
  /\ p \in subs =>
       /\ shed'[p] >= shed[p]
       /\ (ToSet(queue[p]) \subseteq ToSet(queue'[p])) \/ shed'[p] > 0
       /\ fed' # fed => fed' \in ToSet(queue'[p])

LEMMA LogKept ==
  ASSUME StoreTypes, Grows
  PROVE  /\ Len(log) \in Nat /\ Len(log') \in Nat /\ Len(log) <= Len(log')
         /\ \A i \in 1 .. Len(log) : log'[i] = log[i]
<1>1. log \in Seq(Kind)
  BY DEF StoreTypes
<1>2. CASE log' = log
  BY <1>1, <1>2
<1>3. ASSUME NEW k \in Kind, log' = Append(log, k)
      PROVE  /\ Len(log') = Len(log) + 1
             /\ \A i \in 1 .. Len(log) : log'[i] = log[i]
  BY <1>1, <1>3
<1> QED  BY <1>1, <1>2, <1>3 DEF Grows

LEMMA OthersKeep ==
  ASSUME NEW p \in Poll, StoreTypes, StoreTypes', CallInv(p), IsCall(call[p]),
         Alike(call[p], call'[p]), Grows, Delivers(p)
  PROVE  CallInv(p)'
<1> DEFINE c == call[p]
<1>1. /\ c.start \in Nat /\ c.endAt \in Nat /\ c.dropped \in Nat /\ c.endAt <= fed
      /\ fed \in Nat /\ fed <= Len(log) /\ fed <= fed' /\ fed' \in Nat
      /\ shed[p] \in Nat /\ shed'[p] \in Nat
  BY DEF IsCall, CallInv, Judges, StoreTypes, Delivers, Sub
<1>2. /\ Len(log) \in Nat /\ Len(log') \in Nat /\ Len(log) <= Len(log')
      /\ \A i \in 1 .. Len(log) : log'[i] = log[i]
  BY LogKept
<1>3. \A i \in c.start + 1 .. Len(log) : i \in 1 .. Len(log) /\ log'[i] = log[i]
                                         /\ i \in c.start + 1 .. Len(log')
  BY <1>1, <1>2
<1>4. Open(p)'
  BY DEF CallInv, Open, Alike, InFlight, Delivers
<1>5. Judges(c)'
  <2>1. c'.endAt = c.endAt /\ c'.start = c.start /\ c'.batch = c.batch /\ c'.checked = c.checked
        /\ c'.met = c.met
    BY DEF Alike
  <2>2. Judges(c)
    BY DEF CallInv
  <2>3. c.endAt <= fed' /\ (c.met => c.checked)
    BY <1>1, <2>2 DEF Judges
  <2>4. \A x \in c.batch : x \in c.start + 1 .. Len(log') /\ log'[x] # "tx"
    BY <1>3, <2>2 DEF Judges
  <2>5. c.checked => \E i \in c.start + 1 .. Len(log') : log'[i] # "tx"
    BY <1>3, <2>2 DEF Judges
  <2> QED  BY <2>1, <2>3, <2>4, <2>5 DEF Judges
<1>6. \A i \in c.start + 1 .. fed : Wanted(c, i)' <=> Wanted(c, i)
  BY <1>1, <1>3 DEF Wanted, Alike
<1>7. Reached(p)'
  <2> SUFFICES ASSUME InFlight(c)', NEW i \in c.start + 1 .. fed', Wanted(c, i)'
               PROVE  i \in ToSet(queue'[p]) \/ i \in c.batch \/ c.dropped + shed'[p] > 0
    BY DEF Reached, Alike
  <2>1. InFlight(c) /\ p \in subs
    BY DEF InFlight, Alike, CallInv, Open
  <2>2. CASE i <= fed
    <3>1. i \in c.start + 1 .. fed
      BY <1>1, <2>2
    <3>2. i \in ToSet(queue[p]) \/ i \in c.batch \/ c.dropped + shed[p] > 0
      BY <1>6, <2>1, <3>1 DEF CallInv, Reached
    <3> QED  BY <1>1, <2>1, <3>2 DEF Delivers
  <2>3. CASE i > fed
    BY <1>1, <2>1, <2>3 DEF Delivers
  <2> QED  BY <1>1, <2>2, <2>3
<1>8. \A i \in c.start + 1 .. c.endAt : i \in c.start + 1 .. fed
  BY <1>1
<1>9. LastLook(p)'
  BY <1>6, <1>8 DEF CallInv, LastLook, Alike
<1>10. /\ Shows(c, "hit", c.endAt)' <=> Shows(c, "hit", c.endAt)
       /\ Shows(c, "bad", c.endAt)' <=> Shows(c, "bad", c.endAt)
  <2>1. \A i \in c.start + 1 .. c.endAt : log'[i] = log[i]
    BY <1>1, <1>3
  <2>2. c'.start = c.start /\ c'.endAt = c.endAt
    BY DEF Alike
  <2> QED  BY <2>1, <2>2 DEF Shows
<1>11. Verdicts(c)'
  BY <1>10 DEF CallInv, Verdicts, NegativeJudged, PassJudged, Alike
<1> QED  BY <1>4, <1>5, <1>7, <1>9, <1>11 DEF CallInv

LEMMA AlikeItself == ASSUME NEW c PROVE Alike(c, c)
BY DEF Alike

(* A step of another call, or of none.                                       *)
LEMMA StillsKeep ==
  ASSUME NEW p \in Poll, StoreTypes, StoreTypes', CallInv(p), IsCall(call[p]),
         Alike(call[p], call'[p]), UNCHANGED <<log, fed>>, queue'[p] = queue[p],
         shed'[p] = shed[p], p \in subs => p \in subs'
  PROVE  CallInv(p)'
<1>1. shed[p] \in Nat
  BY DEF StoreTypes, Sub
<1>2. Grows /\ Delivers(p)
  BY <1>1 DEF Grows, Delivers
<1> QED  BY <1>2, OthersKeep

LEMMA CallBecomes ==
  ASSUME CallTypes, NEW p \in Poll, NEW d, IsCall(d), call' = [call EXCEPT ![p] = d]
  PROVE  /\ CallTypes' /\ call'[p] = d
         /\ \A q \in Poll : q # p => call'[q] = call[q]
BY DEF CallTypes, IsCall

-------------------------------------------------------------------------------
(* The initial state. *)

LEMMA InitEstablishes == Init => IInv
<1> SUFFICES ASSUME Init PROVE IInv
  OBVIOUS
<1>1. StoreTypes
  <2>1. log \in Seq(Kind) /\ Len(log) = 0 /\ fed \in 0 .. Len(log) /\ fed = Len(log)
    BY DEF Init
  <2>2. closed \in BOOLEAN /\ subs \subseteq Sub
    BY DEF Init
  <2>3. queue \in [Sub -> Seq(Nat)] /\ shed \in [Sub -> Nat]
    BY DEF Init
  <2> QED  BY <2>1, <2>2, <2>3 DEF StoreTypes
<1>2. IsCall(Idle)
  BY DEF Idle, IsCall, Fields
<1>3. CallTypes
  BY <1>2 DEF Init, CallTypes
<1>4. ASSUME NEW p \in Poll PROVE CallInv(p)
  <2>1. call[p] = Idle
    BY DEF Init
  <2>2. /\ Idle.pc = "idle" /\ Idle.status = "none" /\ Idle.batch = {} /\ Idle.endAt = 0
        /\ ~Idle.checked /\ ~Idle.met
    BY DEF Idle
  <2>4. Judges(Idle)
    BY <1>1, <2>2 DEF Judges, StoreTypes
  <2> QED  BY <2>1, <2>2, <2>4 DEF CallInv, Open, Reached, LastLook, Verdicts,
           NegativeJudged, PassJudged, InFlight
<1>5. Queues
  <2>1. \A p \in Poll : queue[p] = <<>>
    BY DEF Init, Sub
  <2> QED  BY <2>1, EmptyHolds DEF Queues
<1> QED  BY <1>1, <1>3, <1>4, <1>5 DEF IInv

-------------------------------------------------------------------------------
(* How a call ends. *)

(* A step of the call p, which the others do not notice. *)
Moves(p) ==
  /\ StoreTypes' /\ CallTypes' /\ CallInv(p)' /\ UNCHANGED <<log, fed>>
  /\ queue'[p] = queue[p] \/ queue'[p] = <<>>
  /\ \A q \in Poll : q # p => call'[q] = call[q] /\ queue'[q] = queue[q]
                             /\ shed'[q] = shed[q] /\ (q \in subs => q \in subs')

LEMMA MovesKeep ==
  ASSUME IInv, NEW p \in Poll, Moves(p)
  PROVE  IInv'
<1>1. StoreTypes /\ StoreTypes' /\ CallTypes'
  BY DEF IInv, Moves
<1>2. ASSUME NEW q \in Poll, q # p PROVE CallInv(q)'
  <2>1. CallInv(q) /\ IsCall(call[q]) /\ call'[q] = call[q]
    BY <1>2 DEF IInv, CallTypes, Moves
  <2>2. Alike(call[q], call'[q])
    BY <2>1, AlikeItself
  <2>3. UNCHANGED <<log, fed>> /\ queue'[q] = queue[q] /\ shed'[q] = shed[q]
        /\ (q \in subs => q \in subs')
    BY <1>2 DEF Moves
  <2> QED  BY <1>1, <2>1, <2>2, <2>3, StillsKeep
<1>3. CallInv(p)'
  BY DEF Moves
<1>4. Queues'
  BY EmptyHolds DEF IInv, Queues, Moves
<1> QED  BY <1>1, <1>2, <1>3, <1>4 DEF IInv

(* An answer that is true of the rows it is about. *)
LEMMA AnswerMoves ==
  ASSUME StoreTypes, CallTypes, NEW p \in Poll, NEW c, NEW status, IsCall(c), Judges(c),
         Answered(p, c, status),
         c.dropped + shed[p] = 0 /\ (status = "timeout" \/ (status \in {"fail", "empty"}
            /\ c.mode = "expect" /\ ~c.bad)) => ~Shows(c, "hit", c.endAt),
         status = "pass" => c.dropped + shed[p] = 0
                            /\ (c.mode = "forbid" => ~Shows(c, "bad", c.endAt))
  PROVE  Moves(p)
<1> DEFINE d == [c EXCEPT !.pc = "done", !.status = status, !.batch = {},
                          !.dropped = @ + shed[p]]
<1>1. shed[p] \in Nat /\ p \in Sub
  BY DEF StoreTypes, Sub
<1>2. IsCall(d)
  BY <1>1 DEF IsCall, Fields
<1>3. /\ d.pc = "done" /\ d.status = status /\ d.batch = {} /\ d.dropped = c.dropped + shed[p]
      /\ d.mode = c.mode /\ d.start = c.start /\ d.endAt = c.endAt /\ d.checked = c.checked
      /\ d.met = c.met /\ d.bad = c.bad
  BY <1>1 DEF IsCall, Fields
<1> HIDE DEF d
<1>4. call' = [call EXCEPT ![p] = d]
  BY DEF Answered, d
<1>5. CallTypes' /\ call'[p] = d /\ \A q \in Poll : q # p => call'[q] = call[q]
  BY <1>2, <1>4, CallBecomes
<1>6. /\ subs' = subs \ {p} /\ queue' = [queue EXCEPT ![p] = <<>>]
      /\ shed' = [shed EXCEPT ![p] = 0] /\ UNCHANGED <<log, closed, fed>>
  BY DEF Answered, Unsubscribed
<1>7. <<>> \in Seq(Nat)
  OBVIOUS
<1>8. StoreTypes'
  BY <1>6, <1>7 DEF StoreTypes
<1>9. \A q \in Poll : q # p => queue'[q] = queue[q] /\ shed'[q] = shed[q]
                               /\ (q \in subs => q \in subs')
  BY <1>6 DEF StoreTypes, Sub
<1>10. queue'[p] = <<>>
  BY <1>1, <1>6 DEF StoreTypes
<1>11. Judges(call[p])'
  <2>1. c.endAt <= fed' /\ (c.checked => \E i \in c.start + 1 .. Len(log') : log'[i] # "tx")
        /\ (c.met => c.checked)
    BY <1>6 DEF Judges
  <2> QED  BY <1>3, <1>5, <2>1 DEF Judges
<1>12. Verdicts(call[p])'
  BY <1>3, <1>5, <1>6 DEF Verdicts, NegativeJudged, PassJudged, Shows
<1>13. CallInv(p)'
  BY <1>3, <1>5, <1>11, <1>12 DEF CallInv, Open, Reached, LastLook, InFlight
<1> QED  BY <1>5, <1>6, <1>8, <1>9, <1>10, <1>13 DEF Moves

(* The end of the loop: no row of the window that the call could still want, *)
(* or an expectation that was met.                                           *)
LEMMA ConcludesMoves ==
  ASSUME StoreTypes, CallTypes, NEW p \in Poll, NEW c, IsCall(c), Judges(c), Concludes(p, c),
         c.mode # "none", c.mode = "wait" => ~c.bad,
         c.dropped + shed[p] = 0 /\ ~c.bad =>
           \/ \A i \in c.start + 1 .. c.endAt : ~Wanted(c, i)
           \/ c.mode = "expect" /\ c.met
  PROVE  Moves(p)
<1>1. c.dropped \in Nat /\ shed[p] \in Nat /\ c.mode \in {"wait", "expect", "forbid"}
  BY DEF IsCall, StoreTypes, Sub
<1>2. c.met => c.checked
  BY DEF Judges
<1>3. CASE c.mode = "wait"
  <2>1. Answered(p, c, IF c.met THEN "match" ELSE "timeout")
    BY <1>3 DEF Concludes
  <2>2. ~c.met /\ c.dropped + shed[p] = 0 => ~Shows(c, "hit", c.endAt)
    BY <1>3 DEF Shows, Wanted
  <2>3. CASE c.met
    <3>1. Answered(p, c, "match")
      BY <2>1, <2>3
    <3> QED  BY <3>1, AnswerMoves
  <2>4. CASE ~c.met
    <3>1. Answered(p, c, "timeout")
      BY <2>1, <2>4
    <3> QED  BY <2>2, <2>4, <3>1, AnswerMoves
  <2> QED  BY <2>3, <2>4
<1>4. CASE c.mode # "wait"
  <2> DEFINE v == Verdict(c, c.dropped + shed[p])
  <2>1. Answered(p, c, v)
    BY <1>4 DEF Concludes
  <2>2. c.dropped + shed[p] = 0 /\ v \in {"fail", "empty"} /\ c.mode = "expect" /\ ~c.bad
          => ~Shows(c, "hit", c.endAt)
    BY <1>1, <1>2 DEF Verdict, Shows, Wanted
  <2>3. v = "pass" => c.dropped + shed[p] = 0 /\ (c.mode = "forbid" => ~Shows(c, "bad", c.endAt))
    BY <1>1, <1>2 DEF Verdict, Shows, Wanted
  <2>4. v # "timeout"
    BY DEF Verdict
  <2> HIDE DEF v
  <2> QED  BY <2>1, <2>2, <2>3, <2>4, AnswerMoves
<1> QED  BY <1>3, <1>4

-------------------------------------------------------------------------------
(* How a call goes on. *)

(* The queue stays as it is, or is taken whole. *)
Takes(p) ==
  \/ UNCHANGED <<queue, shed>>
  \/ queue' = [queue EXCEPT ![p] = <<>>] /\ shed' = [shed EXCEPT ![p] = 0]

LEMMA ContinuesMoves ==
  ASSUME StoreTypes, CallTypes, NEW p \in Poll, NEW d, IsCall(d),
         call' = [call EXCEPT ![p] = d], UNCHANGED <<log, closed, fed>>,
         subs' = subs \/ subs' = subs \cup {p}, Takes(p),
         call'[p] = d => CallInv(p)'
  PROVE  Moves(p)
<1>1. CallTypes' /\ call'[p] = d /\ \A q \in Poll : q # p => call'[q] = call[q]
  BY CallBecomes
<1>2. p \in Sub /\ Poll \subseteq Sub /\ <<>> \in Seq(Nat)
  BY DEF Sub
<1>3. /\ queue' \in [Sub -> Seq(Nat)] /\ shed' \in [Sub -> Nat]
      /\ \A q \in Poll : q # p => queue'[q] = queue[q] /\ shed'[q] = shed[q]
      /\ queue'[p] = queue[p] \/ queue'[p] = <<>>
  <2>1. CASE UNCHANGED <<queue, shed>>
    BY <2>1 DEF StoreTypes
  <2>2. CASE queue' = [queue EXCEPT ![p] = <<>>] /\ shed' = [shed EXCEPT ![p] = 0]
    BY <1>2, <2>2 DEF StoreTypes
  <2> QED  BY <2>1, <2>2 DEF Takes
<1>4. StoreTypes'
  BY <1>2, <1>3 DEF StoreTypes
<1> QED  BY <1>1, <1>3, <1>4 DEF Moves

-------------------------------------------------------------------------------
(* The steps of a call. *)

(* What is known of a call in flight. *)
LEMMA Known ==
  ASSUME IInv, NEW p \in Poll
 
 
 
 
 
 
  PROVE  /\ StoreTypes /\ CallTypes /\ IsCall(call[p]) /\ CallInv(p) /\ p \in Sub /\ shed[p] \in Nat
         /\ fed \in Nat /\ Len(log) \in Nat /\ fed <= Len(log)
         /\ Open(p) /\ Judges(call[p]) /\ Reached(p) /\ LastLook(p) /\ Verdicts(call[p])
         /\ call[p].start \in Nat /\ call[p].endAt \in Nat /\ call[p].dropped \in Nat
         /\ call[p].endAt <= fed
BY DEF IInv, CallInv, CallTypes, StoreTypes, IsCall, Sub, Judges

LEMMA OpensMoves ==
  ASSUME IInv, NEW p \in Poll, NEW mode \in Calls, NEW holds, NEW sends,
         Opens(p, mode, holds, sends)
  PROVE  Moves(p)
<1>1. StoreTypes /\ CallTypes /\ fed \in Nat /\ Len(log) \in Nat /\ fed <= Len(log)
  BY Known
<1>2. mode \in {"wait", "expect", "forbid"}
  BY FeedAssumption
<1>4. CASE Admits
  <2> DEFINE d == [Idle EXCEPT
                     !.mode = mode, !.start = Len(log), !.holds = holds, !.minOver = ~holds,
                     !.minAt = Len(log), !.repeats = (sends = "repeat"),
                     !.pc = IF sends = "once" THEN "sending" ELSE "turn"]
  <2>1. d.pc \in {"sending", "turn"} /\ d.mode = mode /\ d.start = Len(log)
        /\ d.endAt = 0 /\ d.batch = {} /\ ~d.met /\ ~d.bad /\ ~d.checked /\ d.status = "none"
    BY <1>1, <1>2 DEF Idle
  <2>4. DOMAIN d = Fields /\ d.dropped = 0 /\ d.sends = 0 /\ d.echoes = 0
    BY DEF Idle, Fields
  <2>5. IsCall(d)
    <3> HIDE DEF d
    <3> QED  BY <1>1, <1>2, <2>1, <2>4 DEF IsCall
  <2>2. call' = [call EXCEPT ![p] = d] /\ subs' = subs \cup {p}
        /\ UNCHANGED <<log, closed, fed, queue, shed>>
    BY <1>4 DEF Opens
  <2> HIDE DEF d
  <2>3. ASSUME call'[p] = d PROVE CallInv(p)'
    <3>1. Open(p)'
      BY <1>2, <2>1, <2>2, <2>3 DEF Open
    <3>2. Judges(call[p])'
      <4>1. call'[p].endAt <= fed'
        BY <1>1, <2>1, <2>2, <2>3
      <4>2. ~call'[p].checked /\ ~call'[p].met /\ call'[p].batch = {}
        BY <2>1, <2>3
      <4> QED  BY <4>1, <4>2 DEF Judges
    <3>3. Reached(p)'
      BY <1>1, <2>1, <2>2, <2>3 DEF Reached
    <3>4. LastLook(p)' /\ Verdicts(call[p])'
      BY <2>1, <2>3 DEF LastLook, Verdicts, NegativeJudged, PassJudged
    <3> QED  BY <3>1, <3>2, <3>3, <3>4 DEF CallInv
  <2> QED  BY <1>1, <2>2, <2>3, <2>5, ContinuesMoves DEF Takes
<1>5. CASE ~Admits
  <2> DEFINE d == [Idle EXCEPT !.pc = "done", !.status = "refused"]
  <2>1. IsCall(d) /\ d.pc = "done" /\ d.endAt = 0 /\ d.batch = {} /\ ~d.met /\ ~d.checked
        /\ d.status = "refused"
    BY DEF IsCall, Idle, Fields
  <2>2. call' = [call EXCEPT ![p] = d] /\ UNCHANGED <<log, closed, fed, queue, shed, subs>>
    BY <1>5 DEF Opens
  <2> HIDE DEF d
  <2>3. ASSUME call'[p] = d PROVE CallInv(p)'
    <3>1. Judges(call[p])'
      <4>1. call'[p].endAt <= fed'
        BY <1>1, <2>1, <2>2, <2>3
      <4>2. ~call'[p].checked /\ ~call'[p].met /\ call'[p].batch = {}
        BY <2>1, <2>3
      <4> QED  BY <4>1, <4>2 DEF Judges
    <3> QED  BY <2>1, <2>3, <3>1 DEF CallInv, Open, Reached, LastLook, InFlight, Verdicts,
             NegativeJudged, PassJudged
  <2> QED  BY <1>1, <2>1, <2>2, <2>3, ContinuesMoves DEF Takes
<1> QED  BY <1>4, <1>5

(* Time that passes: the minimum is not about rows; what the window held is  *)
(* what had been broadcast when it ended.                                    *)
LEMMA MinOverMoves ==
  ASSUME IInv, NEW p \in Poll, MinOver(p)
  PROVE  Moves(p)
<1> DEFINE d == [call[p] EXCEPT !.minOver = TRUE, !.minAt = fed]
<1>1. StoreTypes /\ CallTypes /\ IsCall(call[p]) /\ CallInv(p) /\ shed[p] \in Nat
  BY Known DEF IInv
<1>2. IsCall(d) /\ Alike(call[p], d)
  BY <1>1 DEF IsCall, Fields, Alike
<1>3. call' = [call EXCEPT ![p] = d] /\ UNCHANGED <<log, closed, fed, queue, shed, subs>>
  BY <1>1 DEF MinOver, CallTypes, storeVars
<1> HIDE DEF d
<1>4. ASSUME call'[p] = d PROVE CallInv(p)'
  <2>1. StoreTypes'
    BY <1>1, <1>3 DEF StoreTypes
  <2> QED  BY <1>1, <1>2, <1>3, <1>4, <2>1, StillsKeep
<1> QED  BY <1>1, <1>2, <1>3, <1>4, ContinuesMoves DEF Takes

LEMMA WindowEndsMoves ==
  ASSUME IInv, NEW p \in Poll, WindowEnds(p)
  PROVE  Moves(p)
<1> DEFINE c == call[p]
           d == [c EXCEPT !.spent = TRUE, !.endAt = fed]
<1>1. StoreTypes /\ CallTypes /\ IsCall(c) /\ fed \in Nat /\ Open(p) /\ Judges(c) /\ Reached(p)
      /\ LastLook(p) /\ Verdicts(c)
  BY Known
<1>2. InFlight(c) /\ ~c.spent
  BY DEF WindowEnds, InFlight
<1>3. IsCall(d) /\ d.pc = c.pc /\ d.mode = c.mode /\ d.start = c.start /\ d.late = c.late
      /\ d.endAt = fed /\ d.batch = c.batch /\ d.met = c.met /\ d.bad = c.bad
      /\ d.checked = c.checked /\ d.dropped = c.dropped /\ d.status = c.status
  BY <1>1 DEF IsCall, Fields
<1>4. call' = [call EXCEPT ![p] = d] /\ UNCHANGED <<log, closed, fed, queue, shed, subs>>
  BY <1>1 DEF WindowEnds, CallTypes, storeVars
<1> HIDE DEF d
<1>5. ASSUME call'[p] = d PROVE CallInv(p)'
  <2>1. Open(p)'
    BY <1>1, <1>3, <1>4, <1>5 DEF Open, InFlight
  <2>2. Judges(c)'
    BY <1>1, <1>3, <1>4, <1>5 DEF Judges
  <2>3. Reached(p)'
    BY <1>1, <1>3, <1>4, <1>5 DEF Reached, InFlight, Wanted
  <2>4. LastLook(p)'
    BY <1>1, <1>2, <1>3, <1>5 DEF LastLook
  <2>5. Verdicts(c)'
    BY <1>1, <1>2, <1>3, <1>5 DEF Verdicts, NegativeJudged, PassJudged, InFlight
  <2> QED  BY <2>1, <2>2, <2>3, <2>4, <2>5 DEF CallInv
<1> QED  BY <1>1, <1>3, <1>4, <1>5, ContinuesMoves DEF Takes

LEMMA SendEndsMoves ==
  ASSUME IInv, NEW p \in Poll, NEW ok \in BOOLEAN, SendEnds(p, ok)
  PROVE  Moves(p)
<1> DEFINE c == call[p]
           d == [c EXCEPT !.pc = "turn"]
<1>1. StoreTypes /\ CallTypes /\ IsCall(c) /\ Open(p) /\ Judges(c) /\ Reached(p)
      /\ LastLook(p) /\ Verdicts(c) /\ c.pc = "sending"
  BY Known DEF SendEnds
<1>2. CASE ok
  <2>1. IsCall(d) /\ d.pc = "turn" /\ d.mode = c.mode /\ d.start = c.start /\ d.endAt = c.endAt
        /\ d.batch = c.batch /\ d.met = c.met /\ d.bad = c.bad /\ d.checked = c.checked
        /\ d.dropped = c.dropped /\ d.status = c.status
    BY <1>1 DEF IsCall, Fields
  <2>2. call' = [call EXCEPT ![p] = d] /\ UNCHANGED <<log, closed, fed, queue, shed, subs>>
    BY <1>2 DEF SendEnds, Continues
  <2> HIDE DEF d
  <2>3. ASSUME call'[p] = d PROVE CallInv(p)'
    <3>1. Open(p)'
      BY <1>1, <2>1, <2>2, <2>3 DEF Open, InFlight
    <3>2. Judges(c)'
      BY <1>1, <2>1, <2>2, <2>3 DEF Judges
    <3>3. Reached(p)'
      BY <1>1, <2>1, <2>2, <2>3 DEF Reached, InFlight, Wanted
    <3>4. LastLook(p)'
      BY <2>1, <2>3 DEF LastLook
    <3>5. Verdicts(c)'
      BY <1>1, <2>1, <2>3 DEF Verdicts, NegativeJudged, PassJudged
    <3> QED  BY <3>1, <3>2, <3>3, <3>4, <3>5 DEF CallInv
  <2> QED  BY <1>1, <2>1, <2>2, <2>3, ContinuesMoves DEF Takes
<1>3. CASE ~ok
  <2>1. Answered(p, c, "send_failed")
    BY <1>3 DEF SendEnds
  <2> QED  BY <1>1, <2>1, AnswerMoves
<1> QED  BY <1>2, <1>3

(* Ends that judge nothing.                                                  *)
LEMMA EndsMove ==
  ASSUME IInv, NEW p \in Poll, SendCut(p) \/ NextBatchStopped(p) \/ Cancelled(p)
  PROVE  Moves(p)
<1>1. StoreTypes /\ CallTypes /\ IsCall(call[p]) /\ Judges(call[p])
  BY Known
<1>2. Answered(p, call[p], "stopped") \/ Answered(p, call[p], "cancelled")
  BY DEF SendCut, NextBatchStopped, Cancelled
<1>3. ASSUME Answered(p, call[p], "stopped") PROVE Moves(p)
  BY <1>1, <1>3, AnswerMoves
<1>4. ASSUME Answered(p, call[p], "cancelled") PROVE Moves(p)
  BY <1>1, <1>4, AnswerMoves
<1> QED  BY <1>2, <1>3, <1>4

LEMMA TurnMoves ==
  ASSUME IInv, NEW p \in Poll, Turn(p)
  PROVE  Moves(p)
<1> DEFINE c == call[p]
           met == c.mode = "expect" /\ c.met
           d == [c EXCEPT !.pc = "waits", !.late = IF met THEN c.minOver ELSE c.spent]
<1>1. StoreTypes /\ CallTypes /\ IsCall(c) /\ Open(p) /\ Judges(c) /\ Reached(p)
      /\ LastLook(p) /\ Verdicts(c) /\ c.pc = "turn"
  BY Known DEF Turn
<1>2. c.mode # "none" /\ ~c.bad
  BY <1>1 DEF Open, InFlight
<1>3. CASE met /\ c.minOver
  <2>1. Concludes(p, c)
    BY <1>3 DEF Turn
  <2> QED  BY <1>1, <1>2, <1>3, <2>1, ConcludesMoves
<1>4. CASE ~(met /\ c.minOver)
  <2>1. IsCall(d) /\ d.pc = "waits" /\ d.mode = c.mode /\ d.start = c.start /\ d.endAt = c.endAt
        /\ d.batch = c.batch /\ d.met = c.met /\ d.bad = c.bad /\ d.checked = c.checked
        /\ d.dropped = c.dropped /\ d.status = c.status /\ d.spent = c.spent
        /\ (~c.met /\ d.late => c.spent)
    BY <1>1 DEF IsCall, Fields
  <2>2. call' = [call EXCEPT ![p] = d] /\ UNCHANGED <<log, closed, fed, queue, shed, subs>>
    BY <1>4 DEF Turn, Continues
  <2> HIDE DEF d
  <2>3. ASSUME call'[p] = d PROVE CallInv(p)'
    <3>1. Open(p)'
      BY <1>1, <2>1, <2>2, <2>3 DEF Open, InFlight
    <3>2. Judges(c)'
      BY <1>1, <2>1, <2>2, <2>3 DEF Judges
    <3>3. Reached(p)'
      BY <1>1, <2>1, <2>2, <2>3 DEF Reached, InFlight, Wanted
    <3>4. LastLook(p)'
      BY <2>1, <2>3 DEF LastLook
    <3>5. Verdicts(c)'
      BY <1>1, <2>1, <2>3 DEF Verdicts, NegativeJudged, PassJudged
    <3> QED  BY <3>1, <3>2, <3>3, <3>4, <3>5 DEF CallInv
  <2> QED  BY <1>1, <2>1, <2>2, <2>3, ContinuesMoves DEF Takes
<1> QED  BY <1>3, <1>4

(* A row that is wanted and in the queue is a candidate.                     *)
LEMMA WantedIsCandidate ==
  ASSUME IInv, NEW p \in Poll, NEW i \in call[p].start + 1 .. fed, Wanted(call[p], i),
         i \in ToSet(queue[p])
  PROVE  i \in Candidates(p, RowsIn(queue[p]))
<1>1. i # Stop /\ i > call[p].start
  BY Known DEF Stop
<1> QED  BY <1>1 DEF Wanted, Candidates, RowsIn

LEMMA CandidatesAreRows ==
  ASSUME IInv, NEW p \in Poll, NEW x \in Candidates(p, RowsIn(queue[p]))
  PROVE  x \in call[p].start + 1 .. Len(log) /\ log[x] # "tx" /\ x \in Nat
<1>1. x \in ToSet(queue[p]) /\ x > call[p].start /\ log[x] # "tx"
  BY DEF Candidates, RowsIn
<1>2. x \in 0 .. Len(log)
  BY <1>1 DEF IInv, Queues
<1> QED  BY <1>1, <1>2, Known

LEMMA NextBatchMoves ==
  ASSUME IInv, NEW p \in Poll, NextBatch(p)
  PROVE  Moves(p)
<1> DEFINE c == call[p]
           rows == RowsIn(queue[p])
           cand == Candidates(p, rows)
           stops == Stop \in ToSet(queue[p])
<1>1. StoreTypes /\ CallTypes /\ IsCall(c) /\ Open(p) /\ Judges(c) /\ Reached(p)
      /\ LastLook(p) /\ Verdicts(c) /\ c.pc = "waits" /\ shed[p] \in Nat
  BY Known DEF NextBatch
<1>2. c.mode # "none" /\ ~c.bad /\ p \in subs /\ c.batch = {}
  BY <1>1 DEF Open, InFlight
<1>3. /\ c.start \in Nat /\ c.endAt \in Nat /\ c.endAt <= fed /\ fed \in Nat /\ c.dropped \in Nat
      /\ fed <= Len(log) /\ Len(log) \in Nat
  BY Known
<1>4. \A i \in c.start + 1 .. fed : Wanted(c, i) => i \in cand \/ c.dropped + shed[p] > 0
  BY <1>1, <1>2, WantedIsCandidate DEF Reached, InFlight
<1>5. \A x \in cand : x \in c.start + 1 .. Len(log) /\ log[x] # "tx" /\ x \in Nat
  BY CandidatesAreRows
<1>6. CASE stops /\ rows = {}
  <2>1. Answered(p, c, "stopped")
    BY <1>6 DEF NextBatch
  <2> QED  BY <1>1, <2>1, AnswerMoves
<1>7. CASE ~(stops /\ rows = {}) /\ cand # {}
  <2> DEFINE d == [c EXCEPT !.pc = "scans", !.batch = cand, !.ended = stops,
                            !.dropped = @ + shed[p]]
  <2>1. IsCall(d) /\ d.pc = "scans" /\ d.mode = c.mode /\ d.start = c.start /\ d.endAt = c.endAt
        /\ d.batch = cand /\ d.met = c.met /\ d.bad = c.bad /\ d.checked = c.checked
        /\ d.dropped = c.dropped + shed[p] /\ d.status = c.status /\ d.spent = c.spent
        /\ d.late = c.late
    <3> HIDE DEF cand, stops
    <3> QED  BY <1>1, <1>5 DEF IsCall, Fields
  <2>2. /\ call' = [call EXCEPT ![p] = d] /\ UNCHANGED <<log, closed, fed, subs>>
        /\ queue' = [queue EXCEPT ![p] = <<>>] /\ shed' = [shed EXCEPT ![p] = 0]
    BY <1>7 DEF NextBatch, Continues
  <2> HIDE DEF d, cand, stops, rows
  <2>3. ASSUME call'[p] = d PROVE CallInv(p)'
    <3>1. Open(p)'
      BY <1>1, <1>2, <1>7, <2>1, <2>2, <2>3 DEF Open, InFlight
    <3>2. Judges(c)'
      BY <1>1, <1>5, <2>1, <2>2, <2>3 DEF Judges
    <3>3. Reached(p)'
      <4>1. shed'[p] = 0
        BY <1>1, <2>2 DEF StoreTypes, Sub
      <4>2. \A i \in c.start + 1 .. fed : Wanted(c, i)' => i \in cand \/ d.dropped > 0
        BY <1>4, <2>1, <2>2, <2>3 DEF Wanted
      <4> QED  BY <1>1, <1>3, <2>1, <2>2, <2>3, <4>1, <4>2 DEF Reached
    <3>4. LastLook(p)'
      BY <1>1, <1>3, <1>4, <2>1, <2>2, <2>3 DEF LastLook, Wanted
    <3>5. Verdicts(c)'
      BY <1>1, <2>1, <2>3 DEF Verdicts, NegativeJudged, PassJudged
    <3> QED  BY <3>1, <3>2, <3>3, <3>4, <3>5 DEF CallInv
  <2> QED  BY <1>1, <2>1, <2>2, <2>3, ContinuesMoves DEF Takes
<1>8. CASE /\ ~(stops /\ rows = {}) /\ cand = {}
           /\ c.late \/ (rows = {} /\ c.mode = "wait")
  <2>1. Concludes(p, c)
    BY <1>8 DEF NextBatch
  <2>2. c.dropped + shed[p] = 0 => \A i \in c.start + 1 .. c.endAt : ~Wanted(c, i)
    BY <1>3, <1>4, <1>8
  <2> QED  BY <1>1, <1>2, <2>1, <2>2, ConcludesMoves
<1>9. CASE /\ ~(stops /\ rows = {}) /\ cand = {}
           /\ ~(c.late \/ (rows = {} /\ c.mode = "wait"))
  <2> DEFINE d == [c EXCEPT !.pc = "turn", !.ended = stops, !.dropped = @ + shed[p]]
  <2>1. IsCall(d) /\ d.pc = "turn" /\ d.mode = c.mode /\ d.start = c.start /\ d.endAt = c.endAt
        /\ d.batch = c.batch /\ d.met = c.met /\ d.bad = c.bad /\ d.checked = c.checked
        /\ d.dropped = c.dropped + shed[p] /\ d.status = c.status
    <3> HIDE DEF stops
    <3> QED  BY <1>1 DEF IsCall, Fields
  <2>2. /\ call' = [call EXCEPT ![p] = d] /\ UNCHANGED <<log, closed, fed, subs>>
        /\ queue' = [queue EXCEPT ![p] = <<>>] /\ shed' = [shed EXCEPT ![p] = 0]
    BY <1>9 DEF NextBatch, Continues
  <2> HIDE DEF d, cand, stops, rows
  <2>3. ASSUME call'[p] = d PROVE CallInv(p)'
    <3>1. Open(p)'
      BY <1>1, <1>2, <2>1, <2>2, <2>3 DEF Open, InFlight
    <3>2. Judges(c)'
      BY <1>1, <2>1, <2>2, <2>3 DEF Judges
    <3>3. Reached(p)'
      <4>1. shed'[p] = 0
        BY <1>1, <2>2 DEF StoreTypes, Sub
      <4>2. \A i \in c.start + 1 .. fed : Wanted(c, i)' => i \in cand \/ d.dropped > 0
        BY <1>4, <2>1, <2>2, <2>3 DEF Wanted
      <4> QED  BY <1>1, <1>3, <1>9, <2>1, <2>2, <2>3, <4>1, <4>2 DEF Reached
    <3>4. LastLook(p)'
      BY <2>1, <2>3 DEF LastLook
    <3>5. Verdicts(c)'
      BY <1>1, <2>1, <2>3 DEF Verdicts, NegativeJudged, PassJudged
    <3> QED  BY <3>1, <3>2, <3>3, <3>4, <3>5 DEF CallInv
  <2> QED  BY <1>1, <2>1, <2>2, <2>3, ContinuesMoves DEF Takes
<1> QED  BY <1>6, <1>7, <1>8, <1>9

LEMMA ScanMoves ==
  ASSUME IInv, NEW p \in Poll, Scan(p)
  PROVE  Moves(p)
<1> DEFINE c == call[p]
           hit == c.met \/ (c.mode # "forbid" /\ Shown(c.batch, "hit"))
           bad == c.mode # "wait" /\ Shown(c.batch, "bad")
           judged == [c EXCEPT !.checked = TRUE, !.met = IF bad THEN @ ELSE hit, !.bad = bad]
           next == [judged EXCEPT !.pc = "turn", !.batch = {}]
<1>1. StoreTypes /\ CallTypes /\ IsCall(c) /\ Open(p) /\ Judges(c) /\ Reached(p)
      /\ LastLook(p) /\ Verdicts(c) /\ c.pc = "scans" /\ shed[p] \in Nat
  BY Known DEF Scan
<1>2. c.mode # "none" /\ ~c.bad /\ p \in subs /\ c.batch # {} /\ (c.met => c.mode = "expect")
  BY <1>1 DEF Open, InFlight
<1>3. /\ c.start \in Nat /\ c.endAt \in Nat /\ c.endAt <= fed /\ fed \in Nat /\ c.dropped \in Nat
      /\ fed <= Len(log) /\ Len(log) \in Nat
  BY Known
<1>4. IsCall(judged) /\ judged.pc = c.pc /\ judged.mode = c.mode /\ judged.start = c.start
      /\ judged.endAt = c.endAt /\ judged.batch = c.batch /\ judged.dropped = c.dropped
      /\ judged.status = c.status /\ judged.late = c.late /\ judged.checked
      /\ (judged.bad <=> bad) /\ (~bad => (judged.met <=> hit)) /\ (bad => (judged.met <=> c.met))
  <2> HIDE DEF hit, bad
  <2> QED  BY <1>1 DEF IsCall, Fields
<1>5. \E i \in c.start + 1 .. Len(log) : log[i] # "tx"
  BY <1>1, <1>2 DEF Judges
<1>6. Judges(judged)
  BY <1>1, <1>4, <1>5 DEF Judges
<1>7. \A i \in c.batch : ~bad /\ ~hit => ~Wanted(c, i)
  BY DEF Wanted, Shown
<1>8. \A i \in c.batch : ~bad => ~Wanted(judged, i)
  BY <1>4 DEF Wanted, Shown
<1>9. \A i : ~bad /\ Wanted(judged, i) => Wanted(c, i)
  BY <1>4 DEF Wanted
<1>10. CASE bad \/ c.late \/ (c.mode = "wait" /\ hit)
  <2>1. Concludes(p, judged)
    BY <1>10 DEF Scan
  <2>2. judged.mode # "none" /\ (judged.mode = "wait" => ~judged.bad)
    BY <1>2, <1>4
  <2>3. judged.dropped + shed[p] = 0 /\ ~judged.bad =>
          \/ \A i \in judged.start + 1 .. judged.endAt : ~Wanted(judged, i)
          \/ judged.mode = "expect" /\ judged.met
    <3> SUFFICES ASSUME c.dropped + shed[p] = 0, ~bad, ~(c.mode = "expect" /\ hit),
                        NEW i \in c.start + 1 .. c.endAt, Wanted(judged, i)
                 PROVE  FALSE
      BY <1>4
    <3>1. Wanted(c, i)
      BY <1>9
    <3>2. ~c.met
      BY <1>2
    <3>3. CASE c.late
      <4>1. i \in c.batch \/ c.dropped > 0
        BY <1>1, <3>1, <3>2, <3>3 DEF LastLook
      <4> QED  BY <1>1, <1>3, <1>8, <4>1
    <3>4. CASE c.mode = "wait" /\ hit
      BY <1>4, <3>4 DEF Wanted
    <3> QED  BY <1>10, <3>3, <3>4
  <2> HIDE DEF judged
  <2> QED  BY <1>1, <1>4, <1>6, <2>1, <2>2, <2>3, ConcludesMoves
<1>11. CASE ~(bad \/ c.late \/ (c.mode = "wait" /\ hit))
  <2>1. IsCall(next) /\ next.pc = "turn" /\ next.mode = c.mode /\ next.start = c.start
        /\ next.endAt = c.endAt /\ next.batch = {} /\ next.dropped = c.dropped
        /\ next.status = c.status /\ next.checked /\ ~next.bad /\ (next.met <=> judged.met)
    <3> HIDE DEF judged
    <3> QED  BY <1>4, <1>11 DEF IsCall, Fields
  <2>2. call' = [call EXCEPT ![p] = next] /\ UNCHANGED <<log, closed, fed, queue, shed, subs>>
    BY <1>11 DEF Scan, Continues
  <2>3. (next.met <=> hit)
    BY <1>4, <1>11, <2>1
  <2> HIDE DEF next, judged, hit, bad
  <2>4. ASSUME call'[p] = next PROVE CallInv(p)'
    <3>1. Open(p)'
      <4>1. hit => c.mode = "expect"
        BY <1>1, <1>2, <1>11 DEF hit, IsCall
      <4> QED  BY <1>2, <2>1, <2>2, <2>3, <2>4, <4>1 DEF Open
    <3>2. Judges(c)'
      BY <1>3, <1>5, <2>1, <2>2, <2>4 DEF Judges
    <3>3. Reached(p)'
      <4>1. \A i : Wanted(c, i)' => Wanted(judged, i)
        BY <1>4, <2>1, <2>2, <2>4 DEF Wanted
      <4>2. \A i \in c.start + 1 .. fed : Wanted(c,
                                                 i)' => i \in ToSet(queue[p])
                                                   \/ c.dropped + shed[p] > 0
        BY <1>1, <1>8, <1>9, <1>11, <4>1 DEF Reached, InFlight
      <4> QED  BY <2>1, <2>2, <2>4, <4>2 DEF Reached
    <3>4. LastLook(p)'
      BY <2>1, <2>4 DEF LastLook
    <3>5. Verdicts(c)'
      BY <1>1, <2>1, <2>4 DEF Verdicts, NegativeJudged, PassJudged
    <3> QED  BY <3>1, <3>2, <3>3, <3>4, <3>5 DEF CallInv
  <2> QED  BY <1>1, <2>1, <2>2, <2>4, ContinuesMoves DEF Takes
<1> QED  BY <1>10, <1>11

(* What a scan that is given up held is reported as dropped.                 *)
LEMMA ScanCutMoves ==
  ASSUME IInv, NEW p \in Poll, ScanCut(p)
  PROVE  Moves(p)
<1> DEFINE c == call[p]
           d == [c EXCEPT !.dropped = @ + Cardinality(c.batch)]
<1>1. StoreTypes /\ CallTypes /\ IsCall(c) /\ Open(p) /\ Judges(c) /\ c.pc = "scans"
      /\ shed[p] \in Nat /\ c.start \in Nat /\ Len(log) \in Nat
  BY Known DEF ScanCut
<1>2. c.mode # "none" /\ ~c.bad /\ c.batch # {}
  BY <1>1 DEF Open, InFlight
<1>3. Cardinality(c.batch) \in Nat /\ Cardinality(c.batch) # 0
  <2>1. c.batch \in SUBSET (c.start + 1 .. Len(log))
    BY <1>1 DEF Judges
  <2>2. IsFiniteSet(c.start + 1 .. Len(log))
    <3>1. c.start + 1 \in Int /\ Len(log) \in Int
      BY <1>1
    <3> QED  BY <3>1, FS_Interval
  <2>3. IsFiniteSet(c.batch)
    BY <2>1, <2>2, FS_Subset
  <2> QED  BY <1>2, <2>3, FS_CardinalityType, FS_EmptySet
<1>4. IsCall(d) /\ d.pc = c.pc /\ d.mode = c.mode /\ d.start = c.start /\ d.endAt = c.endAt
      /\ d.batch = c.batch /\ d.met = c.met /\ d.bad = c.bad /\ d.checked = c.checked
      /\ d.dropped = c.dropped + Cardinality(c.batch)
  BY <1>1, <1>3 DEF IsCall, Fields
<1>5. Concludes(p, d)
  BY DEF ScanCut
<1> HIDE DEF d
<1>6. Judges(d)
  BY <1>1, <1>4 DEF Judges
<1>7. d.dropped + shed[p] # 0
  BY <1>1, <1>3, <1>4 DEF IsCall
<1> QED  BY <1>1, <1>2, <1>4, <1>5, <1>6, <1>7, ConcludesMoves

-------------------------------------------------------------------------------
(* The steps of the store and of the sockets, and the repeated send. *)

LEMMA AllKeep ==
  ASSUME IInv, StoreTypes', CallTypes', Queues', Grows,
         \A p \in Poll : Alike(call[p], call'[p]) /\ Delivers(p)
  PROVE  IInv'
<1>1. ASSUME NEW p \in Poll PROVE CallInv(p)'
  <2>1. StoreTypes /\ CallInv(p) /\ IsCall(call[p])
    BY Known
  <2> QED  BY <2>1, OthersKeep
<1> QED  BY <1>1 DEF IInv

Pushes(x) ==
  /\ queue' = [s \in Sub |-> IF s \in subs THEN Pushed(queue[s], s, x) ELSE queue[s]]
  /\ shed' = [s \in Sub |-> Sheds(s)]

LEMMA PushesKeep ==
  ASSUME StoreTypes, NEW x \in Nat, Pushes(x)
  PROVE  /\ queue' \in [Sub -> Seq(Nat)] /\ shed' \in [Sub -> Nat]
         /\ \A s \in Sub :
              /\ ToSet(queue'[s]) \subseteq ToSet(queue[s]) \cup {x}
              /\ s \in subs =>
                   /\ shed'[s] >= shed[s] /\ x \in ToSet(queue'[s])
                   /\ (ToSet(queue[s]) \subseteq ToSet(queue'[s])) \/ shed'[s] > 0
<1>1. ASSUME NEW s \in Sub
      PROVE  /\ queue'[s] \in Seq(Nat) /\ shed'[s] \in Nat
             /\ ToSet(queue'[s]) \subseteq ToSet(queue[s]) \cup {x}
             /\ s \in subs =>
                  /\ shed'[s] >= shed[s] /\ x \in ToSet(queue'[s])
                  /\ (ToSet(queue[s]) \subseteq ToSet(queue'[s])) \/ shed'[s] > 0
  <2>1. queue[s] \in Seq(Nat) /\ shed[s] \in Nat
    BY DEF StoreTypes
  <2>2. Len(queue[s]) \in Nat /\ Size(s) \in Nat
    BY <2>1, FeedAssumption DEF Size, Sub
  <2>3. CASE s \in subs
    <3>1. queue'[s] = Pushed(queue[s], s, x) /\ shed'[s] = Sheds(s)
      BY <2>3 DEF Pushes
    <3>2. /\ Pushed(queue[s], s, x) \in Seq(Nat) /\ x \in ToSet(Pushed(queue[s], s, x))
          /\ ToSet(Pushed(queue[s], s, x)) \subseteq ToSet(queue[s]) \cup {x}
          /\ Len(queue[s]) < Size(s) => ToSet(queue[s]) \subseteq ToSet(Pushed(queue[s], s, x))
      BY <2>1, PushedHolds
    <3>3. Sheds(s) \in Nat /\ Sheds(s) >= shed[s] /\ (Len(queue[s]) < Size(s) \/ Sheds(s) > 0)
      BY <2>1, <2>2, <2>3 DEF Sheds
    <3> QED  BY <3>1, <3>2, <3>3
  <2>4. CASE s \notin subs
    BY <2>1, <2>4 DEF Pushes, Sheds
  <2> QED  BY <2>3, <2>4
<1>2. queue' \in [Sub -> Seq(Nat)]
  <2>1. queue' = [s \in Sub |-> queue'[s]]
    BY DEF Pushes
  <2> QED  BY <1>1, <2>1
<1>3. shed' \in [Sub -> Nat]
  <2>1. shed' = [s \in Sub |-> shed'[s]]
    BY DEF Pushes
  <2> QED  BY <1>1, <2>1
<1> QED  BY <1>1, <1>2, <1>3

LEMMA BroadcastKeeps ==
  ASSUME IInv, NEW k \in Kind, Broadcast(k), UNCHANGED <<closed, subs>>
  PROVE  StoreTypes' /\ Queues' /\ Grows /\ \A p \in Poll : Delivers(p)
<1>1. /\ StoreTypes /\ log \in Seq(Kind) /\ Len(log) \in Nat /\ fed \in 0 .. Len(log)
      /\ closed \in BOOLEAN /\ (~closed => fed = Len(log)) /\ Poll \subseteq Sub
  BY DEF IInv, StoreTypes, Sub
<1>2. log' = Append(log, k) /\ log' \in Seq(Kind) /\ Len(log') = Len(log) + 1
  BY <1>1 DEF Broadcast
<1>3. Grows
  BY <1>2 DEF Grows
<1>4. CASE closed
  <2>1. UNCHANGED <<fed, queue, shed>>
    BY <1>4 DEF Broadcast
  <2>2. StoreTypes'
    BY <1>1, <1>2, <1>4, <2>1 DEF StoreTypes
  <2>3. Queues'
    <3>1. \A p \in Poll : ToSet(queue[p]) \subseteq 0 .. Len(log)
      BY DEF IInv, Queues
    <3>2. 0 .. Len(log) \subseteq 0 .. Len(log')
      BY <1>1, <1>2
    <3>3. \A p \in Poll : ToSet(queue'[p]) \subseteq 0 .. Len(log')
      BY <2>1, <3>1, <3>2
    <3> QED  BY <3>3 DEF Queues
  <2>4. \A p \in Poll : shed[p] \in Nat
    BY <1>1 DEF StoreTypes
  <2> QED  BY <1>3, <2>1, <2>2, <2>3, <2>4 DEF Delivers
<1>5. CASE ~closed
  <2> DEFINE x == Len(log) + 1
  <2>1. fed' = x /\ Pushes(x) /\ x \in Nat /\ fed = Len(log)
    BY <1>1, <1>5 DEF Broadcast, Pushes
  <2>2. /\ queue' \in [Sub -> Seq(Nat)] /\ shed' \in [Sub -> Nat]
        /\ \A s \in Sub :
             /\ ToSet(queue'[s]) \subseteq ToSet(queue[s]) \cup {x}
             /\ s \in subs =>
                  /\ shed'[s] >= shed[s] /\ x \in ToSet(queue'[s])
                  /\ (ToSet(queue[s]) \subseteq ToSet(queue'[s])) \/ shed'[s] > 0
    BY <1>1, <2>1, PushesKeep
  <2>3. StoreTypes'
    BY <1>1, <1>2, <1>5, <2>1, <2>2 DEF StoreTypes
  <2>4. Queues'
    BY <1>1, <1>2, <2>2 DEF IInv, Queues
  <2>5. \A p \in Poll : Delivers(p)
    BY <1>1, <2>1, <2>2 DEF Delivers
  <2> QED  BY <1>3, <2>3, <2>4, <2>5
<1> QED  BY <1>1, <1>4, <1>5

LEMMA CommitKeeps == ASSUME IInv, Commit PROVE IInv'
<1>1. PICK k \in Kind : Broadcast(k)
  BY DEF Commit
<1>2. StoreTypes' /\ Queues' /\ Grows /\ \A p \in Poll : Delivers(p)
  BY <1>1, BroadcastKeeps DEF Commit
<1>3. CallTypes' /\ \A p \in Poll : Alike(call[p], call'[p])
  BY DEF Commit, IInv, CallTypes, IsCall, Alike
<1> QED  BY <1>2, <1>3, AllKeep

LEMMA StopSubscribersKeeps == ASSUME IInv, StopSubscribers PROVE IInv'
<1>1. /\ StoreTypes /\ Pushes(Stop) /\ Stop \in Nat /\ closed' = TRUE /\ Poll \subseteq Sub
      /\ UNCHANGED <<log, fed, subs, call>> /\ Len(log) \in Nat
  BY DEF IInv, StoreTypes, StopSubscribers, Pushes, Stop, Sub
<1>2. /\ queue' \in [Sub -> Seq(Nat)] /\ shed' \in [Sub -> Nat]
      /\ \A s \in Sub :
           /\ ToSet(queue'[s]) \subseteq ToSet(queue[s]) \cup {Stop}
           /\ s \in subs =>
                /\ shed'[s] >= shed[s] /\ Stop \in ToSet(queue'[s])
                /\ (ToSet(queue[s]) \subseteq ToSet(queue'[s])) \/ shed'[s] > 0
  BY <1>1, PushesKeep
<1>3. StoreTypes'
  BY <1>1, <1>2 DEF StoreTypes
<1>4. Queues'
  BY <1>1, <1>2 DEF IInv, Queues, Stop
<1>5. Grows /\ \A p \in Poll : Delivers(p)
  BY <1>1, <1>2 DEF Grows, Delivers
<1>6. CallTypes' /\ \A p \in Poll : Alike(call[p], call'[p])
  BY <1>1 DEF IInv, CallTypes, IsCall, Alike
<1> QED  BY <1>3, <1>4, <1>5, <1>6, AllKeep

(* A repeated send stores one row at most, its first. *)
LEMMA TickKeeps == ASSUME IInv, NEW p \in Poll, Tick(p) PROVE IInv'
<1>1. StoreTypes /\ CallTypes /\ Queues /\ IsCall(call[p]) /\ Poll \subseteq Sub
  BY Known DEF IInv, Sub
<1>2. PICK d : /\ call' = [call EXCEPT ![p] = d] /\ IsCall(d) /\ Alike(call[p], d)
  <2>1. CASE call' = [call EXCEPT ![p].failures = @ + 1]
    <3> DEFINE d == [call[p] EXCEPT !.failures = @ + 1]
    <3>1. IsCall(d) /\ Alike(call[p], d)
      BY <1>1 DEF IsCall, Fields, Alike
    <3>2. call' = [call EXCEPT ![p] = d]
      BY <2>1
    <3> QED  BY <3>1, <3>2
  <2>2. CASE call[p].repeats /\ call[p].sends = 0
             /\ call' = [call EXCEPT ![p].sends = 1, ![p].echoes = @ + 1]
    <3> DEFINE d == [call[p] EXCEPT !.sends = 1, !.echoes = @ + 1]
    <3>1. IsCall(d) /\ Alike(call[p], d)
      BY <1>1, <2>2 DEF IsCall, Fields, Alike
    <3>2. call' = [call EXCEPT ![p] = d]
      BY <1>1, <2>2 DEF CallTypes
    <3> QED  BY <3>1, <3>2
  <2>3. CASE call[p].sends > 0 /\ call' = [call EXCEPT ![p].sends = @ + 1]
    <3> DEFINE d == [call[p] EXCEPT !.sends = @ + 1]
    <3>1. IsCall(d) /\ Alike(call[p], d)
      BY <1>1, <2>3 DEF IsCall, Fields, Alike
    <3>2. call' = [call EXCEPT ![p] = d]
      BY <2>3
    <3> QED  BY <3>1, <3>2
  <2> QED  BY <2>1, <2>2, <2>3 DEF Tick
<1>3. CallTypes' /\ call'[p] = d /\ \A q \in Poll : q # p => call'[q] = call[q]
  BY <1>1, <1>2, CallBecomes
<1>4. \A q \in Poll : Alike(call[q], call'[q])
  BY <1>2, <1>3 DEF Alike
<1>5. StoreTypes' /\ Queues' /\ Grows /\ \A q \in Poll : Delivers(q)
  <2>1. CASE Broadcast("tx") /\ UNCHANGED <<closed, subs>>
    BY <2>1, BroadcastKeeps DEF Kind
  <2>2. CASE UNCHANGED <<log, fed, queue, shed, closed, subs>>
    <3>1. \A q \in Poll : shed[q] \in Nat
      BY <1>1 DEF StoreTypes
    <3> QED  BY <1>1, <2>2, <3>1 DEF StoreTypes, Queues, Grows, Delivers
  <2> QED  BY <2>1, <2>2 DEF Tick
<1> QED  BY <1>3, <1>4, <1>5, AllKeep

(* A socket is no call, so what it does to its own queue is nothing to one.  *)
LEMMA SocketsKeep ==
  ASSUME IInv, NEW s \in Socket, UNCHANGED <<log, closed, fed, call>>, StoreTypes',
         \A p \in Sub : p # s => queue'[p] = queue[p] /\ shed'[p] = shed[p]
                                /\ (p \in subs => p \in subs')
  PROVE  IInv'
<1>1. StoreTypes /\ CallTypes /\ Queues /\ \A p \in Poll : p \in Sub /\ p # s
  BY FeedAssumption DEF IInv, Sub
<1>2. \A p \in Poll : queue'[p] = queue[p] /\ shed'[p] = shed[p] /\ shed[p] \in Nat
                      /\ (p \in subs => p \in subs')
  BY <1>1 DEF StoreTypes
<1>3. Queues' /\ Grows /\ \A p \in Poll : Delivers(p)
  BY <1>1, <1>2 DEF Queues, Grows, Delivers
<1>4. CallTypes' /\ \A p \in Poll : Alike(call[p], call'[p])
  BY <1>1 DEF CallTypes, IsCall, Alike
<1> QED  BY <1>3, <1>4, AllKeep

LEMMA ConnectsKeeps == ASSUME IInv, NEW s \in Socket, Connects(s) PROVE IInv'
<1>1. StoreTypes'
  BY DEF IInv, StoreTypes, Connects, Sub
<1> QED  BY <1>1, SocketsKeep DEF Connects

LEMMA FrameKeeps == ASSUME IInv, NEW s \in Socket, Frame(s) PROVE IInv'
<1> DEFINE rest == SubSeq(queue[s], Len(Taken(s)) + 1, Len(queue[s]))
<1>1. StoreTypes /\ s \in Sub /\ queue[s] \in Seq(Nat) /\ FrameMax \in Nat \ {0}
  BY FeedAssumption DEF IInv, StoreTypes, Sub
<1>2. rest \in Seq(Nat)
  <2>1. Len(queue[s]) \in Nat /\ \A i \in 1 .. Len(queue[s]) : queue[s][i] \in Nat
    BY <1>1
  <2>2. Len(Taken(s)) \in Nat
    BY <1>1, <2>1 DEF Taken
  <2>3. \A i \in Len(Taken(s)) + 1 .. Len(queue[s]) : queue[s][i] \in Nat
    BY <2>1, <2>2
  <2> QED  BY <1>1, <2>1, <2>2, <2>3, SubSeqProperties
<1>3. queue' = [queue EXCEPT ![s] = rest] /\ shed' = [shed EXCEPT ![s] = 0]
      /\ UNCHANGED <<log, closed, fed, subs, call>>
  BY DEF Frame
<1> HIDE DEF rest
<1>4. StoreTypes'
  BY <1>1, <1>2, <1>3 DEF StoreTypes
<1> QED  BY <1>1, <1>3, <1>4, SocketsKeep DEF StoreTypes

LEMMA HangsKeeps == ASSUME IInv, NEW s \in Socket, Hangs(s) PROVE IInv'
<1>1. StoreTypes /\ s \in Sub
  BY DEF IInv, Sub
<1>2. queue' = [queue EXCEPT ![s] = <<>>] /\ shed' = [shed EXCEPT ![s] = 0] /\ subs' = subs \ {s}
      /\ UNCHANGED <<log, closed, fed, call>>
  BY DEF Hangs, Unsubscribed
<1>3. StoreTypes'
  BY <1>1, <1>2, EmptyHolds DEF StoreTypes
<1> QED  BY <1>1, <1>2, <1>3, SocketsKeep DEF StoreTypes

-------------------------------------------------------------------------------
(* The steps of a call, and the theorems. *)

LEMMA CallsKeep ==
  ASSUME IInv, NEW p \in Poll,
         \/ \E mode \in Calls, holds \in BOOLEAN, sends \in {"no", "once", "repeat"} :
              Opens(p, mode, holds, sends)
         \/ MinOver(p) \/ WindowEnds(p) \/ (\E ok \in BOOLEAN : SendEnds(p, ok))
         \/ SendCut(p) \/ Tick(p) \/ Turn(p) \/ NextBatch(p) \/ NextBatchStopped(p)
         \/ Scan(p) \/ ScanCut(p) \/ Cancelled(p)
  PROVE  IInv'
<1>1. CASE \E mode \in Calls, holds \in BOOLEAN, sends \in {"no", "once", "repeat"} :
             Opens(p, mode, holds, sends)
  BY <1>1, OpensMoves, MovesKeep
<1>2. CASE MinOver(p) \/ WindowEnds(p)
  BY <1>2, MinOverMoves, WindowEndsMoves, MovesKeep
<1>3. CASE \E ok \in BOOLEAN : SendEnds(p, ok)
  BY <1>3, SendEndsMoves, MovesKeep
<1>4. CASE SendCut(p) \/ NextBatchStopped(p) \/ Cancelled(p)
  BY <1>4, EndsMove, MovesKeep
<1>5. CASE Tick(p)
  BY <1>5, TickKeeps
<1>6. CASE Turn(p) \/ NextBatch(p)
  BY <1>6, TurnMoves, NextBatchMoves, MovesKeep
<1>7. CASE Scan(p) \/ ScanCut(p)
  BY <1>7, ScanMoves, ScanCutMoves, MovesKeep
<1> QED  BY <1>1, <1>2, <1>3, <1>4, <1>5, <1>6, <1>7

LEMMA StepKeeps == IInv /\ [Next]_vars => IInv'
<1> SUFFICES ASSUME IInv, [Next]_vars PROVE IInv'
  OBVIOUS
<1>1. CASE Commit \/ StopSubscribers
  BY <1>1, CommitKeeps, StopSubscribersKeeps
<1>2. CASE \E s \in Socket : Connects(s) \/ Frame(s) \/ Hangs(s)
  BY <1>2, ConnectsKeeps, FrameKeeps, HangsKeeps
<1>3. CASE \E p \in Poll :
             \/ \E mode \in Calls, holds \in BOOLEAN, sends \in {"no", "once", "repeat"} :
                  Opens(p, mode, holds, sends)
             \/ MinOver(p) \/ WindowEnds(p) \/ \E ok \in BOOLEAN : SendEnds(p, ok)
             \/ SendCut(p) \/ Tick(p) \/ Turn(p) \/ NextBatch(p) \/ NextBatchStopped(p)
             \/ Scan(p) \/ ScanCut(p) \/ Cancelled(p)
  BY <1>3, CallsKeep
<1>4. CASE UNCHANGED vars
  <2>1. UNCHANGED <<log, closed, fed, queue, subs, shed, call>>
    BY <1>4 DEF vars, storeVars
  <2>2. StoreTypes' /\ CallTypes' /\ Queues'
    BY <2>1 DEF IInv, StoreTypes, CallTypes, IsCall, Queues
  <2>3. Grows /\ \A p \in Poll : Alike(call[p], call'[p]) /\ Delivers(p)
    BY <2>1 DEF IInv, StoreTypes, Sub, Grows, Alike, Delivers
  <2> QED  BY <2>2, <2>3, AllKeep
<1> QED  BY <1>1, <1>2, <1>3, <1>4 DEF Next

(* The theorems are about Spec; safety does not need its fairness.           *)
Steps == Init /\ [][Next]_vars

LEMMA Invariant == Steps => []IInv
<1> QED  BY InitEstablishes, StepKeeps, PTL DEF Steps

(* A negative verdict of /wait and /assert without holes was judged over the *)
(* whole window, whatever its send spent of it.                              *)
THEOREM NegativesAlwaysJudged == Spec => []NegativesAreJudged
<1>1. IInv => NegativesAreJudged
  BY DEF IInv, CallInv, Verdicts, NegativeJudged, NegativesAreJudged
<1> QED  BY <1>1, Invariant, PTL DEF Spec, Steps

(* A pass of an /assert that forbids is judged over the whole window without *)
(* holes, and every verdict is about rows the target sent.                   *)
THEOREM PassesAlwaysJudged == Spec => []PassesAreJudged
<1>1. IInv => PassesAreJudged
  BY DEF IInv, CallInv, Judges, Verdicts, PassJudged, PassesAreJudged
<1> QED  BY <1>1, Invariant, PTL DEF Spec, Steps

(* A repeated send leaves one row, and only if it sent at all.               *)
THEOREM EchoOncePerRepeat == Spec => []OneEchoPerRepeat
<1>1. IInv => OneEchoPerRepeat
  BY DEF IInv, CallTypes, IsCall, OneEchoPerRepeat
<1> QED  BY <1>1, Invariant, PTL DEF Spec, Steps

-------------------------------------------------------------------------------
(* What a socket is sent and told of.                                        *)
(*                                                                           *)
(* The rows in a socket's queue are the last ones broadcast, without a hole: *)
(* a row is pushed at the new end and shed at the old one. So those the      *)
(* client was sent, those it was told are missing, those shed since and      *)
(* those in the queue are together the rows since it subscribed (Ledger).    *)

(* The sentinel is in the queue: a feed that closed under a pump that runs. *)
Ending(s) == closed /\ pumping[s]

Rest(s) == IF Ending(s) THEN Len(queue[s]) - 1 ELSE Len(queue[s])

Adds(a, b, c, n, f, z) == a + b + c + n = f + 1 - z

Ledger(s) == Adds(Cardinality(sent[s]), gaps[s], shed[s], Rest(s), fed, base[s])

(* The first n of q are the last n rows up to f. *)
Runs(q, n, f) == \A i \in 1 .. n : q[i] = f - n + i

UpTo(S, f) == \A x \in S : x <= f

Stopped(q) == Len(q) # 0 /\ q[Len(q)] = Stop

Consecutive(s) ==
  /\ Runs(queue[s], Rest(s), fed) /\ UpTo(sent[s], fed - Rest(s))
  /\ Ending(s) => Stopped(queue[s])

Pumped(s) ==
  /\ base[s] # 0 /\ Ledger(s) /\ Consecutive(s)
  /\ ~pumping[s] => closed /\ queue[s] = <<>> /\ shed[s] = 0

(* A socket that never connected was sent nothing, and one that has gone is  *)
(* not sent anything more.                                                   *)
Unpumped(s) ==
  /\ ~pumping[s] /\ queue[s] = <<>> /\ shed[s] = 0
  /\ base[s] = 0 => sent[s] = {} /\ gaps[s] = 0 /\ ~showed[s]

Exact(s) ==
  showed[s] => \E last \in sent[s] : (\A x \in sent[s] : x <= last)
                                     /\ Cardinality(sent[s]) + gaps[s] = Span(s, last)

SocketTypes ==
  /\ DOMAIN pumping = Socket /\ DOMAIN showed = Socket /\ DOMAIN sent = Socket
  /\ gaps \in [Socket -> Nat] /\ base \in [Socket -> Nat]
  /\ \A s \in Socket : sent[s] \subseteq Nat /\ IsFiniteSet(sent[s])

SocketInv(s) ==
  /\ s \in subs => Pumped(s)
  /\ s \notin subs => Unpumped(s)
  /\ Exact(s)

Sockets == SocketTypes /\ \A s \in Socket : SocketInv(s)

(* What a push or a frame does to such a run and such a sum. *)
LEMMA AddsKept ==
  ASSUME NEW a \in Nat, NEW b \in Nat, NEW c \in Nat, NEW n \in Nat, NEW f \in Nat,
         NEW z \in Nat, Adds(a, b, c, n, f, z)
  PROVE  /\ Adds(a, b, c, n + 1, f + 1, z) /\ Adds(a, b, c + 1, n, f + 1, z)
         /\ Adds(a, b, c + 1, n - 1, f, z)
         /\ \A m \in Nat : m <= n => Adds(a + m, b + c, 0, n - m, f, z)
BY DEF Adds

LEMMA RunGrows ==
  ASSUME NEW q, NEW p, NEW n \in Nat, NEW f \in Nat, Runs(q, n, f),
         \A i \in 1 .. n : p[i] = q[i], p[n + 1] = f + 1
  PROVE  Runs(p, n + 1, f + 1)
<1> SUFFICES ASSUME NEW i \in 1 .. n + 1 PROVE p[i] = f + 1 - (n + 1) + i
  BY DEF Runs
<1>1. CASE i = n + 1
  <2>1. f + 1 - (n + 1) + (n + 1) = f + 1
    OBVIOUS
  <2> QED  BY <1>1, <2>1
<1>2. CASE i # n + 1
  <2>1. i \in 1 .. n /\ f - n + i = f + 1 - (n + 1) + i
    BY <1>2
  <2> QED  BY <2>1 DEF Runs
<1> QED  BY <1>1, <1>2

LEMMA RunMoves ==
  ASSUME NEW q, NEW p, NEW n \in Nat, NEW f \in Nat, Runs(q, n, f),
         \A i \in 1 .. n - 1 : p[i] = q[i + 1], p[n] = f + 1
  PROVE  Runs(p, n, f + 1)
<1> SUFFICES ASSUME NEW i \in 1 .. n PROVE p[i] = f + 1 - n + i
  BY DEF Runs
<1>1. CASE i = n
  <2>1. f + 1 - n + n = f + 1
    OBVIOUS
  <2> QED  BY <1>1, <2>1
<1>2. CASE i # n
  <2>1. i \in 1 .. n - 1 /\ i + 1 \in 1 .. n /\ f - n + (i + 1) = f + 1 - n + i
    BY <1>2
  <2> QED  BY <2>1 DEF Runs
<1> QED  BY <1>1, <1>2

LEMMA RunShrinks ==
  ASSUME NEW q, NEW p, NEW n \in Nat, NEW m \in Nat, m <= n, NEW f \in Nat, Runs(q, n, f),
         \A i \in 1 .. n - m : p[i] = q[m + i]
  PROVE  Runs(p, n - m, f)
<1> SUFFICES ASSUME NEW i \in 1 .. n - m PROVE p[i] = f - (n - m) + i
  BY DEF Runs
<1>1. m + i \in 1 .. n /\ f - n + (m + i) = f - (n - m) + i
  OBVIOUS
<1> QED  BY <1>1 DEF Runs

LEMMA RunSame ==
  ASSUME NEW q, NEW p, NEW n \in Nat, NEW f \in Nat, Runs(q, n, f), \A i \in 1 .. n : p[i] = q[i]
  PROVE  Runs(p, n, f)
BY DEF Runs

LEMMA UpToRises ==
  ASSUME NEW S, S \subseteq Nat, NEW a \in Int, NEW b \in Int, UpTo(S, a), a <= b
  PROVE  UpTo(S, b)
BY DEF UpTo

LEMMA RestIs ==
  ASSUME NEW s, queue[s] \in Seq(Nat)
  PROVE  /\ Len(queue[s]) \in Nat
         /\ Ending(s) => Rest(s) = Len(queue[s]) - 1
         /\ ~Ending(s) => Rest(s) = Len(queue[s])
BY DEF Rest

(* What a socket knows of its own. *)
LEMMA SocketKnown ==
  ASSUME StoreTypes, SocketTypes, NEW s \in Socket
  PROVE  /\ s \in Sub /\ queue[s] \in Seq(Nat) /\ shed[s] \in Nat /\ fed \in Nat
         /\ gaps[s] \in Nat /\ base[s] \in Nat /\ sent[s] \subseteq Nat /\ IsFiniteSet(sent[s])
         /\ Cardinality(sent[s]) \in Nat /\ Len(log) \in Nat /\ (~closed => fed = Len(log))
<1>1. Cardinality(sent[s]) \in Nat
  BY FS_CardinalityType DEF SocketTypes
<1> QED  BY <1>1 DEF StoreTypes, SocketTypes, Sub

(* The rows in a queue are rows. *)
LEMMA RestFits ==
  ASSUME StoreTypes, SocketTypes, NEW s \in Socket, s \in subs, Pumped(s)
  PROVE  Rest(s) \in Nat /\ Rest(s) <= fed
<1>1. Rest(s) \in Nat
  BY SocketKnown, RestIs DEF Pumped, Consecutive, Stopped
<1>2. base[s] # 0 /\ Cardinality(sent[s]) + gaps[s] + shed[s] + Rest(s) = fed + 1 - base[s]
  BY DEF Pumped, Ledger, Adds
<1> QED  BY <1>1, <1>2, SocketKnown, SMTT(30)

(* A step that is nothing to the socket. *)
LEMMA SocketStill ==
  ASSUME NEW s \in Socket, SocketInv(s), UNCHANGED <<closed, fed, socketVars>>,
         queue'[s] = queue[s], shed'[s] = shed[s], s \in subs' <=> s \in subs
  PROVE  SocketInv(s)'
BY DEF SocketInv, Pumped, Unpumped, Ledger, Consecutive, Ending, Rest, Exact, Span, socketVars

-------------------------------------------------------------------------------
(* Pushing: at the new end a row or the sentinel, from the old end what is   *)
(* shed for it.                                                              *)

LEMMA PushedRoom ==
  ASSUME NEW q \in Seq(Nat), NEW x \in Nat, NEW s \in Sub, Len(q) < Size(s)
  PROVE  /\ Len(Pushed(q, s, x)) = Len(q) + 1 /\ Pushed(q, s, x)[Len(q) + 1] = x
         /\ \A i \in 1 .. Len(q) : Pushed(q, s, x)[i] = q[i]
<1>1. Size(s) \in Nat \ {0} /\ Len(q) \in Nat
  BY FeedAssumption DEF Size, Sub
<1>2. Pushed(q, s, x) = Append(q, x)
  BY <1>1 DEF Pushed
<1> QED  BY <1>1, <1>2

LEMMA PushedFull ==
  ASSUME NEW q \in Seq(Nat), NEW x \in Nat, NEW s \in Sub, ~(Len(q) < Size(s))
  PROVE  /\ Len(q) # 0
         /\ Len(Pushed(q, s, x)) = Len(q) /\ Pushed(q, s, x)[Len(q)] = x
         /\ \A i \in 1 .. Len(q) - 1 : Pushed(q, s, x)[i] = q[i + 1]
<1> DEFINE t == Tail(q)
<1>1. Size(s) \in Nat \ {0} /\ Len(q) \in Nat
  BY FeedAssumption DEF Size, Sub
<1>2. Pushed(q, s, x) = Append(t, x) /\ Len(q) # 0
  BY <1>1 DEF Pushed
<1>3. t \in Seq(Nat) /\ Len(t) = Len(q) - 1 /\ \A i \in 1 .. Len(q) - 1 : t[i] = q[i + 1]
  BY <1>1, <1>2
<1> HIDE DEF t
<1>4. Append(t, x) \in Seq(Nat) /\ Len(Append(t, x)) = Len(t) + 1 /\ Append(t, x)[Len(t) + 1] = x
      /\ \A i \in 1 .. Len(t) : Append(t, x)[i] = t[i]
  BY <1>3
<1>5. Len(t) + 1 = Len(q)
  BY <1>1, <1>3
<1> QED  BY <1>2, <1>3, <1>4, <1>5

(* Either way a push leaves a queue that is not empty. *)
LEMMA PushedSome ==
  ASSUME NEW q \in Seq(Nat), NEW x \in Nat, NEW s \in Sub
  PROVE  Len(Pushed(q, s, x)) - 1 \in Nat
<1>1. Len(q) \in Nat
  OBVIOUS
<1>2. CASE Len(q) < Size(s)
  <2>1. Len(Pushed(q, s, x)) = Len(q) + 1
    BY <1>2, PushedRoom
  <2> QED  BY <1>1, <2>1
<1>3. CASE ~(Len(q) < Size(s))
  <2>1. Len(q) # 0 /\ Len(Pushed(q, s, x)) = Len(q)
    BY <1>3, PushedFull
  <2> QED  BY <1>1, <2>1
<1> QED  BY <1>2, <1>3

LEMMA RowPushed ==
  ASSUME StoreTypes, SocketTypes, NEW s \in Socket, s \in subs,
         Pumped(s), ~closed, queue'[s] = Pushed(queue[s], s, fed + 1), shed'[s] = Sheds(s),
         fed' = fed + 1, UNCHANGED <<closed, socketVars>>
  PROVE  Pumped(s)'
<1> DEFINE q == queue[s]
           p == Pushed(queue[s], s, fed + 1)
           n == Len(queue[s])
           f == fed
           a == Cardinality(sent[s])
           S == sent[s]
<1>1. /\ s \in Sub /\ q \in Seq(Nat) /\ n \in Nat /\ shed[s] \in Nat /\ f \in Nat /\ f + 1 \in Nat
      /\ gaps[s] \in Nat /\ base[s] \in Nat /\ S \subseteq Nat /\ a \in Nat /\ Size(s) \in Nat
  BY SocketKnown, FeedAssumption DEF Size, Sub
<1>2. ~Ending(s) /\ ~Ending(s)' /\ Rest(s) = n /\ Rest(s)' = Len(queue'[s])
  BY DEF Ending, Rest
<1>3. /\ UNCHANGED <<pumping, sent, gaps, base>> /\ pumping[s] /\ base[s] # 0
      /\ Adds(a, gaps[s], shed[s], n, f, base[s]) /\ Runs(q, n, f) /\ UpTo(S, f - n)
  BY <1>2 DEF Pumped, Ledger, Consecutive, socketVars
<1>4. SUFFICES Adds(a, gaps[s], shed'[s], Len(p), f + 1, base[s]) /\ Runs(p, Len(p), f + 1)
               /\ UpTo(S, (f + 1) - Len(p))
  <2>1. queue'[s] = p /\ fed' = f + 1 /\ sent'[s] = S /\ Cardinality(sent'[s]) = a
        /\ gaps'[s] = gaps[s] /\ base'[s] = base[s] /\ pumping'[s] = pumping[s]
    BY <1>3
  <2>2. Rest(s)' = Len(p) /\ ~Ending(s)'
    BY <1>2, <2>1
  <2> HIDE DEF p, f, a, S
  <2>4. Ledger(s)'
    BY <1>4, <2>1, <2>2 DEF Ledger
  <2>3. Ledger(s)' /\ Consecutive(s)'
    BY <1>4, <2>1, <2>2, <2>4 DEF Consecutive
  <2> QED  BY <1>3, <2>1, <2>3 DEF Pumped
<1>5. CASE n < Size(s)
  <2>1. shed'[s] = shed[s]
    BY <1>1, <1>5 DEF Sheds
  <2>2. Len(p) = n + 1 /\ p[n + 1] = f + 1 /\ \A i \in 1 .. n : p[i] = q[i]
    BY <1>1, <1>5, PushedRoom
  <2> HIDE DEF p, q, n, f, a, S
  <2>3. Runs(p, n + 1, f + 1)
    BY <1>1, <1>3, <2>2, RunGrows
  <2>4. (f + 1) - (n + 1) = f - n
    BY <1>1
  <2>5. Adds(a, gaps[s], shed[s], n + 1, f + 1, base[s])
    BY <1>1, <1>3, AddsKept
  <2> QED  BY <1>3, <2>1, <2>2, <2>3, <2>4, <2>5
<1>6. CASE ~(n < Size(s))
  <2>1. shed'[s] = shed[s] + 1
    BY <1>1, <1>6 DEF Sheds
  <2>2. Len(p) = n /\ p[n] = f + 1 /\ \A i \in 1 .. n - 1 : p[i] = q[i + 1]
    <3>1. s \in Sub /\ q \in Seq(Nat) /\ f + 1 \in Nat /\ ~(Len(q) < Size(s))
      BY <1>1, <1>6
    <3> QED  BY <3>1, PushedFull, SMTT(30)
  <2> HIDE DEF p, q, n, f, a, S
  <2>3. Runs(p, n, f + 1)
    BY <1>1, <1>3, <2>2, RunMoves
  <2>4. UpTo(S, (f + 1) - n)
    <3>1. f - n \in Int /\ (f + 1) - n \in Int /\ f - n <= (f + 1) - n
      BY <1>1
    <3> QED  BY <1>1, <1>3, <3>1, UpToRises
  <2>5. Adds(a, gaps[s], shed[s] + 1, n, f + 1, base[s])
    BY <1>1, <1>3, AddsKept
  <2> QED  BY <2>1, <2>2, <2>3, <2>4, <2>5
<1> QED  BY <1>5, <1>6

(* The sentinel too may put out a row, which is counted as one. *)
LEMMA StopPushed ==
  ASSUME StoreTypes, SocketTypes, NEW s \in Socket, s \in subs,
         Pumped(s), ~closed, closed', queue'[s] = Pushed(queue[s], s, Stop), shed'[s] = Sheds(s),
         fed' = fed, UNCHANGED socketVars
  PROVE  Pumped(s)'
<1> DEFINE q == queue[s]
           p == Pushed(queue[s], s, Stop)
           n == Len(queue[s])
           f == fed
           a == Cardinality(sent[s])
           S == sent[s]
<1>1. /\ s \in Sub /\ q \in Seq(Nat) /\ n \in Nat /\ shed[s] \in Nat /\ f \in Nat /\ Stop \in Nat
      /\ gaps[s] \in Nat /\ base[s] \in Nat /\ S \subseteq Nat /\ a \in Nat /\ Size(s) \in Nat
  BY SocketKnown, FeedAssumption DEF Size, Sub, Stop
<1>2. ~Ending(s) /\ Rest(s) = n
  BY DEF Ending, Rest
<1>3. /\ UNCHANGED <<pumping, sent, gaps, base>> /\ pumping[s] /\ base[s] # 0
      /\ Adds(a, gaps[s], shed[s], n, f, base[s]) /\ Runs(q, n, f) /\ UpTo(S, f - n)
  BY <1>2 DEF Pumped, Ledger, Consecutive, socketVars
<1>4. Ending(s)' /\ Rest(s)' = Len(queue'[s]) - 1
  BY <1>3 DEF Ending, Rest
<1>5. SUFFICES ASSUME NEW r \in Nat, r = Len(p) - 1
               PROVE  Adds(a, gaps[s], shed'[s], r, f, base[s]) /\ Runs(p, r, f)
                      /\ UpTo(S, f - r) /\ Stopped(p)
  <2>1. queue'[s] = p /\ fed' = f /\ sent'[s] = S /\ Cardinality(sent'[s]) = a
        /\ gaps'[s] = gaps[s] /\ base'[s] = base[s] /\ pumping'[s] = pumping[s]
    BY <1>3
  <2>2. Len(p) - 1 \in Nat
    BY <1>1, PushedSome
  <2> DEFINE r == Len(p) - 1
  <2>3. Rest(s)' = r
    BY <1>4, <2>1
  <2>4. Adds(a, gaps[s], shed'[s], r, f, base[s]) /\ Runs(p, r, f) /\ UpTo(S, f - r) /\ Stopped(p)
    BY <1>5, <2>2
  <2> HIDE DEF p, f, a, S, r
  <2>5. Ledger(s)' /\ Consecutive(s)'
    BY <2>1, <2>3, <2>4 DEF Ledger, Consecutive
  <2> QED  BY <1>3, <2>1, <2>5 DEF Pumped
<1>6. CASE n < Size(s)
  <2>1. shed'[s] = shed[s]
    BY <1>1, <1>6 DEF Sheds
  <2>2. Len(p) = n + 1 /\ p[n + 1] = Stop /\ \A i \in 1 .. n : p[i] = q[i]
    BY <1>1, <1>6, PushedRoom, SMTT(30)
  <2> HIDE DEF p, q, n, f, a, S
  <2>3. r = n /\ Stopped(p)
    BY <1>1, <1>5, <2>2 DEF Stopped
  <2>4. Runs(p, n, f)
    BY <1>1, <1>3, <2>2, RunSame
  <2> QED  BY <1>3, <2>1, <2>3, <2>4
<1>7. CASE ~(n < Size(s))
  <2>1. shed'[s] = shed[s] + 1
    BY <1>1, <1>7 DEF Sheds
  <2>2. n # 0 /\ Len(p) = n /\ p[n] = Stop /\ \A i \in 1 .. n - 1 : p[i] = q[i + 1]
    <3>1. s \in Sub /\ q \in Seq(Nat) /\ Stop \in Nat /\ ~(Len(q) < Size(s))
      BY <1>1, <1>7
    <3> QED  BY <3>1, PushedFull
  <2> HIDE DEF p, q, n, f, a, S
  <2>3. r = n - 1 /\ Stopped(p)
    BY <1>5, <2>2 DEF Stopped
  <2>4. Runs(p, n - 1, f)
    <3>1. 1 \in Nat /\ 1 <= n /\ \A i \in 1 .. n - 1 : 1 + i = i + 1
      BY <1>1, <2>2
    <3>2. \A i \in 1 .. n - 1 : p[i] = q[1 + i]
      BY <2>2, <3>1
    <3> QED  BY <1>1, <1>3, <3>1, <3>2, RunShrinks
  <2>5. UpTo(S, f - (n - 1))
    <3>1. f - n \in Int /\ f - (n - 1) \in Int /\ f - n <= f - (n - 1)
      BY <1>1, SMTT(30)
    <3> QED  BY <1>1, <1>3, <3>1, UpToRises
  <2>6. Adds(a, gaps[s], shed[s] + 1, n - 1, f, base[s])
    BY <1>1, <1>3, AddsKept
  <2> QED  BY <2>1, <2>3, <2>4, <2>5, <2>6
<1> QED  BY <1>6, <1>7

-------------------------------------------------------------------------------
(* The frame: the oldest rows of the queue, in one run with those sent.      *)

(* The first k of q. *)
FirstOf(q, k) == {q[i] : i \in 1 .. k}

LEMMA TakenIs ==
  ASSUME NEW s, queue[s] \in Seq(Nat), queue[s] # <<>>
  PROVE  /\ Taken(s) \in Seq(Nat) /\ Len(Taken(s)) \in 1 .. Len(queue[s])
         /\ \A i \in 1 .. Len(Taken(s)) : Taken(s)[i] = queue[s][i]
         /\ ToSet(Taken(s)) = FirstOf(queue[s], Len(Taken(s)))
<1> DEFINE q == queue[s]
<1>1. Len(q) \in Nat \ {0} /\ FrameMax \in Nat \ {0} /\ \A i \in 1 .. Len(q) : q[i] \in Nat
  BY FeedAssumption
<1>2. PICK k \in 1 .. Len(q) : Taken(s) = SubSeq(q, 1, k)
  BY <1>1 DEF Taken
<1>3. \A i \in 1 .. k : q[i] \in Nat
  BY <1>1
<1>4. /\ SubSeq(q, 1, k) \in Seq(Nat) /\ Len(SubSeq(q, 1, k)) = k
      /\ \A i \in 1 .. k : SubSeq(q, 1, k)[i] = q[i]
  <2>1. k \in Int /\ 1 <= k /\ k - 1 + 1 = k
    OBVIOUS
  <2>2. /\ SubSeq(q, 1, k) \in Seq(Nat)
        /\ Len(SubSeq(q, 1, k)) = IF 1 <= k THEN k - 1 + 1 ELSE 0
        /\ \A i \in 1 .. k - 1 + 1 : SubSeq(q, 1, k)[i] = q[1 + i - 1]
    BY <1>3, <2>1, SubSeqProperties
  <2>3. \A i \in 1 .. k : 1 + i - 1 = i
    OBVIOUS
  <2> QED  BY <2>1, <2>2, <2>3
<1>5. DOMAIN Taken(s) = 1 .. k
  BY <1>2, <1>4
<1> QED  BY <1>2, <1>4, <1>5 DEF ToSet, FirstOf

(* The first k of a run are rows in a row, and none is the sentinel. *)
LEMMA RunSet ==
  ASSUME NEW q, NEW n \in Nat, NEW f \in Nat, NEW k \in Nat, Runs(q, n, f), k <= n
  PROVE  FirstOf(q, k) = f - n + 1 .. f - n + k
<1>1. \A i \in 1 .. k : q[i] = f - n + i
  BY DEF Runs
<1>2. \A i \in 1 .. k : f - n + i \in f - n + 1 .. f - n + k
  OBVIOUS
<1>3. \A x \in f - n + 1 .. f - n + k : x - (f - n) \in 1 .. k /\ f - n + (x - (f - n)) = x
  OBVIOUS
<1>4. {q[i] : i \in 1 .. k} \subseteq f - n + 1 .. f - n + k
  BY <1>1, <1>2
<1>5. ASSUME NEW x \in f - n + 1 .. f - n + k PROVE x \in {q[i] : i \in 1 .. k}
  <2>1. x - (f - n) \in 1 .. k /\ q[x - (f - n)] = x
    BY <1>1, <1>3
  <2> QED  BY <2>1
<1> QED  BY <1>4, <1>5 DEF FirstOf

LEMMA NoStop ==
  ASSUME NEW f \in Nat, NEW n \in Nat, n <= f, NEW k \in Nat
  PROVE  Stop \notin f - n + 1 .. f - n + k
BY DEF Stop

(* A frame that reaches the sentinel is the last, and carries all that is    *)
(* left.                                                                     *)
LEMMA TakenRows ==
  ASSUME StoreTypes, SocketTypes, NEW s \in Socket, s \in subs, Pumped(s),
         pumping[s], queue[s] # <<>>
  PROVE  \/ /\ Len(Taken(s)) <= Rest(s) /\ Stop \notin ToSet(Taken(s))
            /\ RowsIn(Taken(s)) = fed - Rest(s) + 1 .. fed - Rest(s) + Len(Taken(s))
         \/ /\ Ending(s) /\ Len(Taken(s)) = Len(queue[s]) /\ Stop \in ToSet(Taken(s))
            /\ RowsIn(Taken(s)) = fed - Rest(s) + 1 .. fed - Rest(s) + Rest(s)
<1> DEFINE q == queue[s]
           T == Taken(s)
           k == Len(Taken(s))
           r == Rest(s)
           f == fed
<1>1. q \in Seq(Nat) /\ Len(q) \in Nat /\ f \in Nat /\ r \in Nat /\ r <= f
  <2>1. q \in Seq(Nat) /\ f \in Nat
    BY SocketKnown
  <2>2. r \in Nat /\ r <= f
    BY RestFits
  <2> QED  BY <2>1, <2>2
<1>2. k \in 1 .. Len(q) /\ ToSet(T) = FirstOf(q, k)
  BY <1>1, TakenIs
<1>3. Runs(q, r, f)
  BY DEF Pumped, Consecutive
<1>4. (Ending(s) => r = Len(q) - 1 /\ q[Len(q)] = Stop) /\ (~Ending(s) => r = Len(q))
  BY <1>1, RestIs DEF Pumped, Consecutive, Stopped
<1> HIDE DEF q, T, k, r, f
<1>5. CASE k <= r
  <2>1. k \in Nat
    BY <1>1, <1>2
  <2>2. FirstOf(q, k) = f - r + 1 .. f - r + k
    BY <1>1, <1>3, <1>5, <2>1, RunSet
  <2>3. Stop \notin f - r + 1 .. f - r + k
    BY <1>1, <2>1, NoStop
  <2>4. ToSet(T) = f - r + 1 .. f - r + k /\ RowsIn(T) = f - r + 1 .. f - r + k
    BY <1>2, <2>2, <2>3 DEF RowsIn
  <2> QED  BY <1>5, <2>3, <2>4 DEF T, k, r, f
<1>6. CASE ~(k <= r)
  <2>1. Ending(s) /\ k = Len(q) /\ 1 .. k = 1 .. r \cup {k} /\ q[k] = Stop
    BY <1>1, <1>2, <1>4, <1>6
  <2>2. ToSet(T) = FirstOf(q, r) \cup {Stop}
    BY <1>2, <2>1 DEF FirstOf
  <2>3. FirstOf(q, r) = f - r + 1 .. f - r + r
    <3>1. ASSUME NEW j \in Nat, j <= r PROVE FirstOf(q, j) = f - r + 1 .. f - r + j
      BY <1>1, <1>3, <3>1, RunSet
    <3> QED  BY <1>1, <3>1
  <2>4. Stop \notin f - r + 1 .. f - r + r
    BY <1>1, NoStop
  <2>5. Stop \in ToSet(T) /\ RowsIn(T) = f - r + 1 .. f - r + r
    BY <2>2, <2>3, <2>4 DEF RowsIn
  <2> QED  BY <2>1, <2>5 DEF T, k, r, f, q
<1> QED  BY <1>5, <1>6

(* The run of k rows after a, beyond those sent. *)
With(S, a, k) == S \cup (a + 1 .. a + k)

LEMMA SentGrows ==
  ASSUME NEW S, S \subseteq Nat, IsFiniteSet(S), NEW a \in Nat, NEW k \in Nat, UpTo(S, a)
  PROVE  /\ With(S, a, k) \subseteq Nat /\ IsFiniteSet(With(S, a, k))
         /\ UpTo(With(S, a, k), a + k)
         /\ Cardinality(With(S, a, k)) = Cardinality(S) + k
         /\ k # 0 => a + k \in With(S, a, k)
<1> DEFINE T == a + 1 .. a + k
<1>1. IsFiniteSet(T) /\ Cardinality(T) = k
  <2>1. a + 1 \in Int /\ a + k \in Int
    OBVIOUS
  <2>2. Cardinality(T) = IF a + 1 > a + k THEN 0 ELSE a + k - (a + 1) + 1
    BY <2>1, FS_Interval
  <2>3. (a + 1 > a + k => k = 0) /\ a + k - (a + 1) + 1 = k
    OBVIOUS
  <2> QED  BY <2>1, <2>2, <2>3, FS_Interval
<1>2. S \cap T = {}
  BY DEF UpTo
<1>3. \A x \in S : x \in Nat /\ x <= a + k
  BY DEF UpTo
<1>4. \A x \in T : x \in Nat /\ x <= a + k
  OBVIOUS
<1>5. k # 0 => a + k \in T
  OBVIOUS
<1> HIDE DEF T
<1>6. Cardinality({}) = 0 /\ Cardinality(S) \in Nat
  BY FS_EmptySet, FS_CardinalityType
<1>7. /\ IsFiniteSet(S \cup T)
      /\ Cardinality(S \cup T) = Cardinality(S) + Cardinality(T) - Cardinality(S \cap T)
  BY <1>1, FS_Union, Zenon
<1>8. Cardinality(S \cup T) = Cardinality(S) + k
  <2>1. \A c \in Nat : c + k - 0 = c + k
    OBVIOUS
  <2>2. Cardinality(S \cup T) = Cardinality(S) + k - 0
    BY <1>1, <1>2, <1>6, <1>7, Zenon
  <2> QED  BY <1>6, <2>1, <2>2, Zenon
<1>9. S \cup T \subseteq Nat /\ UpTo(S \cup T, a + k)
  BY <1>3, <1>4 DEF UpTo
<1> QED  BY <1>5, <1>7, <1>8, <1>9 DEF T, With

-------------------------------------------------------------------------------
(* The steps of a socket. *)

LEMMA RestOf ==
  ASSUME NEW q \in Seq(Nat), NEW k \in 1 .. Len(q)
  PROVE  /\ Len(SubSeq(q, k + 1, Len(q))) = Len(q) - k
         /\ \A i \in 1 .. Len(q) - k : SubSeq(q, k + 1, Len(q))[i] = q[k + i]
<1>1. Len(q) \in Nat /\ \A i \in k + 1 .. Len(q) : q[i] \in Nat
  OBVIOUS
<1>2. k + 1 \in Int /\ Len(q) \in Int
  OBVIOUS
<1>3. /\ Len(SubSeq(q, k + 1, Len(q))) = IF k + 1 <= Len(q) THEN Len(q) - (k + 1) + 1 ELSE 0
      /\ \A i \in 1 .. Len(q) - (k + 1) + 1 : SubSeq(q, k + 1, Len(q))[i] = q[k + 1 + i - 1]
  BY <1>1, <1>2, SubSeqProperties
<1>4. /\ Len(q) - (k + 1) + 1 = Len(q) - k /\ (k + 1 <= Len(q) \/ Len(q) - k = 0)
      /\ \A i \in 1 .. Len(q) - k : k + 1 + i - 1 = k + i
  BY <1>1
<1> QED  BY <1>3, <1>4

(* The pump took m rows and announced what was shed before them. *)
Sends(s, m) ==
  /\ m \in Nat /\ m <= Rest(s) /\ UNCHANGED <<closed, fed, subs, base>>
  /\ sent'[s] \subseteq Nat /\ IsFiniteSet(sent'[s])
  /\ Cardinality(sent'[s]) = Cardinality(sent[s]) + m /\ UpTo(sent'[s], fed - Rest(s) + m)
  /\ gaps'[s] = gaps[s] + shed[s] /\ shed'[s] = 0
  /\ Rest(s)' = Rest(s) - m /\ \A i \in 1 .. Rest(s) - m : queue'[s][i] = queue[s][m + i]
  /\ Ending(s)' => Stopped(queue'[s])
  /\ ~pumping'[s] => closed /\ queue'[s] = <<>>
  /\ m # 0 => fed - Rest(s) + m \in sent'[s]
  /\ showed'[s] => m # 0

(* So far the client is exactly informed, and the rest is in the queue. *)
LEMMA SendsKeeps ==
  ASSUME NEW s \in Socket, StoreTypes, SocketTypes, s \in subs, Pumped(s), NEW m, Sends(s, m)
  PROVE  SocketInv(s)'
<1> DEFINE a == Cardinality(sent[s])
           r == Rest(s)
           f == fed
           z == base[s]
           g == gaps[s]
           d == shed[s]
<1>1. /\ f \in Nat /\ g \in Nat /\ z \in Nat /\ d \in Nat /\ a \in Nat /\ r \in Nat /\ r <= f
      /\ m \in Nat /\ m <= r
  BY SocketKnown, RestFits DEF Sends
<1>2. /\ fed' = f /\ closed' = closed /\ s \in subs' /\ base'[s] = z
      /\ Cardinality(sent'[s]) = a + m /\ gaps'[s] = g + d /\ shed'[s] = 0 /\ Rest(s)' = r - m
  BY DEF Sends
<1>3. z # 0 /\ Adds(a, g, d, r, f, z) /\ Runs(queue[s], r, f)
  BY DEF Pumped, Ledger, Consecutive
<1>4. /\ \A i \in 1 .. r - m : queue'[s][i] = queue[s][m + i]
      /\ UpTo(sent'[s], f - r + m) /\ (Ending(s)' => Stopped(queue'[s]))
      /\ (~pumping'[s] => closed /\ queue'[s] = <<>>)
  BY DEF Sends
<1>5. (m # 0 => f - r + m \in sent'[s]) /\ (showed'[s] => m # 0)
  BY DEF Sends
<1> HIDE DEF a, r, f, z, g, d
<1>6. Adds(a + m, g + d, 0, r - m, f, z)
  BY <1>1, <1>3, AddsKept
<1>7. Runs(queue'[s], r - m, f)
  BY <1>1, <1>3, <1>4, RunShrinks
<1>8. UpTo(sent'[s], f - (r - m))
  <2>1. f - (r - m) = f - r + m
    BY <1>1
  <2> QED  BY <1>4, <2>1
<1>9. Ledger(s)'
  BY <1>2, <1>6 DEF Ledger
<1>10. Consecutive(s)'
  BY <1>2, <1>4, <1>7, <1>8 DEF Consecutive
<1>11. Pumped(s)'
  BY <1>2, <1>3, <1>4, <1>9, <1>10 DEF Pumped
<1>12. Exact(s)'
  <2>1. a + m + (g + d) = (f - r + m) - (z - 1)
    BY <1>1, <1>3 DEF Adds
  <2>2. Cardinality(sent'[s]) + gaps'[s] = (f - r + m) - (base'[s] - 1)
    BY <1>2, <2>1
  <2>3. showed'[s] => f - r + m \in sent'[s]
    BY <1>5
  <2>4. \A x \in sent'[s] : x <= f - r + m
    BY <1>4 DEF UpTo
  <2> DEFINE last == f - r + m
  <2>5. Cardinality(sent'[s]) + gaps'[s] = last - (base'[s] - 1)
    BY <2>2
  <2> HIDE DEF last
  <2>6. showed'[s] => \E x \in sent'[s] : (\A y \in sent'[s] : y <= x)
                        /\ Cardinality(sent'[s]) + gaps'[s] = x - (base'[s] - 1)
    BY <2>3, <2>4, <2>5, Zenon DEF last
  <2> QED  BY <2>6 DEF Exact, Span
<1> QED  BY <1>2, <1>11, <1>12 DEF SocketInv

(* A frame does that, the last one with all the rows there are. *)
LEMMA FrameSends ==
  ASSUME StoreTypes, Sockets, NEW s \in Socket, Frame(s)
  PROVE  SocketTypes /\ s \in subs /\ Pumped(s) /\ \E m : Sends(s, m)
<1> DEFINE q == queue[s]
           p == queue'[s]
           k == Len(Taken(s))
           r == Rest(s)
           f == fed
           S == sent[s]
<1>1. SocketTypes /\ s \in subs /\ Pumped(s) /\ pumping[s] /\ q # <<>>
  BY DEF Sockets, SocketInv, Unpumped, Frame
<1>2. /\ s \in Sub /\ q \in Seq(Nat) /\ Len(q) \in Nat /\ f \in Nat /\ shed[s] \in Nat
      /\ S \subseteq Nat /\ IsFiniteSet(S)
  BY <1>1, SocketKnown
<1>3. r \in Nat /\ r <= f /\ f - r \in Nat
  BY <1>1, <1>2, RestFits
<1>4. k \in 1 .. Len(q) /\ k \in Nat
  BY <1>1, <1>2, TakenIs
<1>5. /\ p = SubSeq(q, k + 1, Len(q)) /\ shed'[s] = 0 /\ gaps'[s] = gaps[s] + shed[s]
      /\ sent'[s] = S \cup RowsIn(Taken(s))
      /\ UNCHANGED <<closed, fed, subs, base>>
  BY <1>1, <1>2 DEF Frame, SocketTypes, StoreTypes
<1>6. (showed'[s] <=> RowsIn(Taken(s)) # {}) /\ (pumping'[s] <=> Stop \notin ToSet(Taken(s)))
  BY <1>1 DEF Frame, SocketTypes
<1>7. UpTo(S, f - r) /\ (Ending(s) => Stopped(q))
  BY <1>1 DEF Pumped, Consecutive
<1>8. (Ending(s) => r = Len(q) - 1) /\ (~Ending(s) => r = Len(q))
  BY <1>2, RestIs
<1>9. (Ending(s)' => Rest(s)' = Len(p) - 1) /\ (~Ending(s)' => Rest(s)' = Len(p))
  BY DEF Rest
<1>10. Len(p) = Len(q) - k /\ \A i \in 1 .. Len(q) - k : p[i] = q[k + i]
  BY <1>2, <1>4, <1>5, RestOf
<1>11. CASE k <= r /\ Stop \notin ToSet(Taken(s)) /\ RowsIn(Taken(s)) = f - r + 1 .. f - r + k
  <2>1. pumping'[s] /\ (Ending(s)' <=> Ending(s))
    BY <1>1, <1>5, <1>6, <1>11 DEF Ending
  <2>2. sent'[s] = S \cup (f - r + 1 .. f - r + k)
    BY <1>5, <1>11
  <2> HIDE DEF q, p, k, r, f, S
  <2>3. k # 0 /\ k <= r
    BY <1>4, <1>11
  <2>4. /\ sent'[s] \subseteq Nat /\ IsFiniteSet(sent'[s])
        /\ Cardinality(sent'[s]) = Cardinality(S) + k /\ UpTo(sent'[s], f - r + k)
        /\ f - r + k \in sent'[s]
    <3> DEFINE a == f - r
    <3>1. a \in Nat /\ UpTo(S, a) /\ sent'[s] = With(S, a, k)
      BY <1>3, <1>7, <2>2 DEF With
    <3> HIDE DEF a
    <3>2. UpTo(S, a) /\ a \in Nat /\ k \in Nat
      BY <1>3, <1>4, <3>1
    <3>3. /\ With(S, a, k) \subseteq Nat /\ IsFiniteSet(With(S, a, k))
          /\ Cardinality(With(S, a, k)) = Cardinality(S) + k /\ UpTo(With(S, a, k), a + k)
          /\ (k # 0 => a + k \in With(S, a, k))
      BY <1>2, <3>2, SentGrows
    <3> QED  BY <2>3, <3>1, <3>3 DEF a
  <2>5. Rest(s)' = r - k
    BY <1>2, <1>4, <1>8, <1>9, <1>10, <2>1
  <2>6. \A i \in 1 .. r - k : p[i] = q[k + i]
    BY <1>2, <1>3, <1>4, <1>8, <1>10
  <2>7. Ending(s)' => Stopped(p)
    <3>1. ASSUME Ending(s) PROVE Len(p) # 0 /\ Len(p) \in 1 .. Len(q) - k /\ k + Len(p) = Len(q)
      BY <1>2, <1>4, <1>8, <1>10, <2>3, <3>1
    <3>2. Ending(s) => p[Len(p)] = q[Len(q)]
      BY <1>10, <3>1
    <3> QED  BY <1>7, <2>1, <3>1, <3>2 DEF Stopped
  <2>8. Sends(s, k)
    BY <1>4, <1>5, <2>1, <2>3, <2>4, <2>5, <2>6, <2>7 DEF Sends, q, p, r, f, S
  <2> QED  BY <1>1, <2>8, Zenon
<1>12. CASE /\ Ending(s) /\ k = Len(q) /\ Stop \in ToSet(Taken(s))
            /\ RowsIn(Taken(s)) = f - r + 1 .. f - r + r
  <2>1. ~pumping'[s] /\ closed /\ ~Ending(s)'
    BY <1>5, <1>6, <1>12 DEF Ending
  <2>2. sent'[s] = S \cup (f - r + 1 .. f - r + r)
    BY <1>5, <1>12
  <2>3. showed'[s] => r # 0
    <3>1. r = 0 => f - r + 1 .. f - r + r = {}
      BY <1>2, <1>3
    <3> QED  BY <1>6, <1>12, <3>1
  <2> HIDE DEF q, p, k, r, f, S
  <2>4. /\ sent'[s] \subseteq Nat /\ IsFiniteSet(sent'[s])
        /\ Cardinality(sent'[s]) = Cardinality(S) + r /\ UpTo(sent'[s], f - r + r)
        /\ (r # 0 => f - r + r \in sent'[s])
    <3> DEFINE a == f - r
    <3>1. a \in Nat /\ UpTo(S, a) /\ sent'[s] = With(S, a, r)
      BY <1>3, <1>7, <2>2 DEF With
    <3> HIDE DEF a
    <3>2. UpTo(S, a) /\ a \in Nat /\ r \in Nat
      BY <1>3, <1>4, <3>1
    <3>3. /\ With(S, a, r) \subseteq Nat /\ IsFiniteSet(With(S, a, r))
          /\ Cardinality(With(S, a, r)) = Cardinality(S) + r /\ UpTo(With(S, a, r), a + r)
          /\ (r # 0 => a + r \in With(S, a, r))
      BY <1>2, <3>2, SentGrows
    <3> QED  BY <3>1, <3>3 DEF a
  <2>5. Len(p) = 0 /\ Rest(s)' = r - r /\ r - r = 0 /\ r <= r
    BY <1>2, <1>3, <1>4, <1>9, <1>10, <1>12, <2>1
  <2>6. p = <<>>
    <3>1. Len(q) < k + 1 /\ k + 1 \in Int /\ Len(q) \in Int
      BY <1>2, <1>4, <1>12
    <3> QED  BY <1>5, <3>1, SubSeqEmpty
  <2>7. \A i \in 1 .. r - r : p[i] = q[r + i]
    BY <2>5
  <2>8. Sends(s, r)
    BY <1>3, <1>5, <2>1, <2>3, <2>4, <2>5, <2>6, <2>7 DEF Sends, q, p, r, f, S
  <2> QED  BY <1>1, <2>8, Zenon
<1> QED  BY <1>1, <1>11, <1>12, TakenRows

-------------------------------------------------------------------------------
(* Every step keeps what is said of the sockets. *)

(* What a step that is not a socket's own does to it. *)
Outer(s) ==
  /\ UNCHANGED socketVars /\ (s \in subs' <=> s \in subs)
  /\ \/ UNCHANGED <<closed, fed>> /\ queue'[s] = queue[s] /\ shed'[s] = shed[s]
     \/ /\ ~closed /\ closed' = closed /\ fed' = fed + 1 /\ shed'[s] = Sheds(s)
        /\ queue'[s] = IF s \in subs THEN Pushed(queue[s], s, fed + 1) ELSE queue[s]
     \/ /\ ~closed /\ closed' /\ fed' = fed /\ shed'[s] = Sheds(s)
        /\ queue'[s] = IF s \in subs THEN Pushed(queue[s], s, Stop) ELSE queue[s]

LEMMA OuterKeeps ==
  ASSUME StoreTypes, SocketTypes, NEW s \in Socket, SocketInv(s), Outer(s)
  PROVE  SocketInv(s)'
<1>1. CASE UNCHANGED <<closed, fed>> /\ queue'[s] = queue[s] /\ shed'[s] = shed[s]
  BY <1>1, SocketStill DEF Outer
<1>2. ASSUME ~closed, shed'[s] = Sheds(s), s \notin subs, queue'[s] = queue[s]
      PROVE  SocketInv(s)'
  BY <1>2 DEF Outer, SocketInv, Unpumped, Exact, Span, Sheds, socketVars
<1>3. ASSUME s \in subs, Pumped(s)' PROVE SocketInv(s)'
  BY <1>3 DEF Outer, SocketInv, Exact, Span, socketVars
<1>4. CASE /\ ~closed /\ closed' = closed /\ fed' = fed + 1 /\ shed'[s] = Sheds(s)
           /\ queue'[s] = IF s \in subs THEN Pushed(queue[s], s, fed + 1) ELSE queue[s]
  <2>1. CASE s \in subs
    <3>1. Pumped(s) /\ UNCHANGED <<closed, socketVars>> /\ queue'[s] = Pushed(queue[s], s,
                                                                              fed + 1)
      BY <1>4, <2>1 DEF SocketInv, Outer
    <3>2. Pumped(s)'
      BY <1>4, <2>1, <3>1, RowPushed
    <3> QED  BY <1>3, <2>1, <3>2
  <2> QED  BY <1>2, <1>4, <2>1
<1>5. CASE /\ ~closed /\ closed' /\ fed' = fed /\ shed'[s] = Sheds(s)
           /\ queue'[s] = IF s \in subs THEN Pushed(queue[s], s, Stop) ELSE queue[s]
  <2>1. CASE s \in subs
    <3>1. Pumped(s) /\ UNCHANGED socketVars /\ queue'[s] = Pushed(queue[s], s, Stop)
      BY <1>5, <2>1 DEF SocketInv, Outer
    <3>2. Pumped(s)'
      BY <1>5, <2>1, <3>1, StopPushed
    <3> QED  BY <1>3, <2>1, <3>2
  <2> QED  BY <1>2, <1>5, <2>1
<1> QED  BY <1>1, <1>4, <1>5 DEF Outer

LEMMA BroadcastOuter ==
  ASSUME StoreTypes, NEW k, Broadcast(k), UNCHANGED <<closed, subs, socketVars>>,
         NEW s \in Socket
  PROVE  Outer(s)
<1>1. s \in Sub /\ closed \in BOOLEAN /\ (~closed => fed = Len(log))
  BY DEF StoreTypes, Sub
<1>2. CASE closed
  BY <1>2 DEF Broadcast, Outer
<1>3. CASE ~closed
  <2>1. fed' = fed + 1 /\ shed'[s] = Sheds(s)
        /\ queue'[s] = IF s \in subs THEN Pushed(queue[s], s, fed + 1) ELSE queue[s]
    BY <1>1, <1>3 DEF Broadcast
  <2> QED  BY <1>3, <2>1 DEF Outer
<1> QED  BY <1>2, <1>3

(* A call has a queue of its own. *)
LEMMA CallsOuter ==
  ASSUME StoreTypes, NEW p \in Poll, NEW s \in Socket,
         \/ \E mode \in Calls, holds \in BOOLEAN, sends \in {"no", "once", "repeat"} :
              Opens(p, mode, holds, sends)
         \/ MinOver(p) \/ WindowEnds(p) \/ (\E ok \in BOOLEAN : SendEnds(p, ok))
         \/ SendCut(p) \/ Tick(p) \/ Turn(p) \/ NextBatch(p) \/ NextBatchStopped(p)
         \/ Scan(p) \/ ScanCut(p) \/ Cancelled(p)
  PROVE  Outer(s)
<1>1. s \in Sub /\ s # p /\ DOMAIN queue = Sub /\ DOMAIN shed = Sub
  BY FeedAssumption DEF StoreTypes, Sub
<1> DEFINE Aside == /\ UNCHANGED <<closed, fed, socketVars>> /\ (s \in subs' <=> s \in subs)
                    /\ queue'[s] = queue[s] /\ shed'[s] = shed[s]
<1>2. Aside => Outer(s)
  BY DEF Outer
<1>3. ASSUME NEW c, NEW status, Answered(p, c, status) PROVE Aside
  BY <1>1, <1>3 DEF Answered, Unsubscribed
<1>4. ASSUME NEW c, Continues(p, c), Takes(p) PROVE Aside
  BY <1>1, <1>4 DEF Continues, Takes
<1>5. ASSUME NEW c, Concludes(p, c) PROVE Aside
  BY <1>3, <1>5 DEF Concludes
<1>6. CASE \E mode \in Calls, holds \in BOOLEAN, sends \in {"no", "once", "repeat"} :
             Opens(p, mode, holds, sends)
  BY <1>1, <1>2, <1>6 DEF Opens
<1>7. CASE MinOver(p) \/ WindowEnds(p)
  BY <1>2, <1>7 DEF MinOver, WindowEnds, storeVars
<1>8. CASE \E ok \in BOOLEAN : SendEnds(p, ok)
  BY <1>2, <1>3, <1>4, <1>8 DEF SendEnds, Takes
<1>9. CASE SendCut(p) \/ NextBatchStopped(p) \/ Cancelled(p)
  BY <1>2, <1>3, <1>9 DEF SendCut, NextBatchStopped, Cancelled
<1>10. CASE Tick(p)
  <2>1. CASE Broadcast("tx")
    BY <1>10, <2>1, BroadcastOuter DEF Tick
  <2>2. CASE UNCHANGED <<log, fed, queue, shed>>
    BY <1>2, <1>10, <2>2 DEF Tick
  <2> QED  BY <1>10, <2>1, <2>2 DEF Tick
<1>11. CASE Turn(p)
  BY <1>2, <1>4, <1>5, <1>11 DEF Turn, Takes
<1>12. CASE NextBatch(p)
  BY <1>2, <1>3, <1>4, <1>5, <1>12 DEF NextBatch, Takes
<1>13. CASE Scan(p)
  BY <1>2, <1>4, <1>5, <1>13 DEF Scan, Takes
<1>14. CASE ScanCut(p)
  BY <1>2, <1>5, <1>14 DEF ScanCut
<1> QED  BY <1>6, <1>7, <1>8, <1>9, <1>10, <1>11, <1>12, <1>13, <1>14


(* What the steps leave of the sockets' variables. *)
LEMMA CallsLeaveSockets ==
  ASSUME NEW p \in Poll,
         \/ \E mode \in Calls, holds \in BOOLEAN, sends \in {"no", "once", "repeat"} :
              Opens(p, mode, holds, sends)
         \/ MinOver(p) \/ WindowEnds(p) \/ (\E ok \in BOOLEAN : SendEnds(p, ok))
         \/ SendCut(p) \/ Tick(p) \/ Turn(p) \/ NextBatch(p) \/ NextBatchStopped(p)
         \/ Scan(p) \/ ScanCut(p) \/ Cancelled(p)
  PROVE  UNCHANGED socketVars
<1>1. CASE (\E mode \in Calls, holds \in BOOLEAN, sends \in {"no", "once", "repeat"} :
              Opens(p, mode, holds, sends)) \/ MinOver(p) \/ WindowEnds(p) \/ Tick(p)
  BY <1>1 DEF Opens, MinOver, WindowEnds, Tick
<1>2. CASE (\E ok \in BOOLEAN : SendEnds(p,
                                         ok)) \/ SendCut(p) \/ NextBatchStopped(p) \/ Cancelled(p)
  BY <1>2 DEF SendEnds, SendCut, NextBatchStopped, Cancelled, Answered, Continues
<1>3. CASE Turn(p) \/ Scan(p) \/ ScanCut(p)
  BY <1>3 DEF Turn, Scan, ScanCut, Concludes, Answered, Continues
<1>4. CASE NextBatch(p)
  BY <1>4 DEF NextBatch, Concludes, Answered, Continues
<1> QED  BY <1>1, <1>2, <1>3, <1>4, SMTT(30)

LEMMA SocketTypesKept ==
  ASSUME StoreTypes, Sockets, [Next]_vars
  PROVE  SocketTypes'
<1>1. SocketTypes
  BY DEF Sockets
<1>2. CASE UNCHANGED socketVars
  BY <1>1, <1>2 DEF SocketTypes, socketVars
<1>3. ASSUME NEW s \in Socket, Connects(s) PROVE SocketTypes'
  <2>1. Len(log) + 1 \in Nat
    BY DEF StoreTypes
  <2> QED  BY <1>1, <1>3, <2>1 DEF Connects, SocketTypes
<1>4. ASSUME NEW s \in Socket, Hangs(s) PROVE SocketTypes'
  BY <1>1, <1>4 DEF Hangs, SocketTypes
<1>5. ASSUME NEW s \in Socket, Frame(s) PROVE SocketTypes'
  <2>1. s \in subs /\ sent'[s] \subseteq Nat /\ IsFiniteSet(sent'[s])
    BY <1>5, FrameSends DEF Sends
  <2>2. gaps[s] + shed[s] \in Nat
    BY <1>1, SocketKnown
  <2>3. DOMAIN sent' = Socket /\ \A t \in Socket : sent'[t] \subseteq Nat /\ IsFiniteSet(sent'[t])
    <3>1. DOMAIN sent' = Socket /\ \A t \in Socket : t # s => sent'[t] = sent[t]
      BY <1>1, <1>5 DEF Frame, SocketTypes
    <3> QED  BY <1>1, <2>1, <3>1 DEF SocketTypes
  <2>4. DOMAIN pumping' = Socket /\ DOMAIN showed' = Socket /\ gaps' \in [Socket -> Nat]
        /\ base' \in [Socket -> Nat]
    BY <1>1, <1>5, <2>2 DEF Frame, SocketTypes
  <2> QED  BY <2>3, <2>4 DEF SocketTypes
<1>6. CASE Commit \/ StopSubscribers \/ UNCHANGED vars
  BY <1>2, <1>6 DEF Commit, StopSubscribers, vars
<1>7. ASSUME NEW p \in Poll,
             \/ \E mode \in Calls, holds \in BOOLEAN, sends \in {"no", "once", "repeat"} :
                  Opens(p, mode, holds, sends)
             \/ MinOver(p) \/ WindowEnds(p) \/ (\E ok \in BOOLEAN : SendEnds(p, ok))
             \/ SendCut(p) \/ Tick(p) \/ Turn(p) \/ NextBatch(p) \/ NextBatchStopped(p)
             \/ Scan(p) \/ ScanCut(p) \/ Cancelled(p)
      PROVE  SocketTypes'
  BY <1>2, <1>7, CallsLeaveSockets
<1> QED  BY <1>3, <1>4, <1>5, <1>6, <1>7 DEF Next

(* A socket subscribes to what is yet to come. *)
LEMMA ConnectsKeepsSocket ==
  ASSUME StoreTypes, Sockets, NEW s \in Socket, Connects(s)
  PROVE  SocketInv(s)'
<1> DEFINE f == fed
<1>1. /\ SocketTypes /\ s \notin subs /\ Unpumped(s) /\ base[s] = 0 /\ ~closed /\ fed = Len(log)
  BY DEF Sockets, SocketInv, Connects, Admits, StoreTypes
<1>2. f \in Nat /\ queue[s] = <<>> /\ shed[s] = 0 /\ sent[s] = {} /\ gaps[s] = 0 /\ ~showed[s]
  BY <1>1, SocketKnown DEF Unpumped
<1>3. /\ s \in subs' /\ pumping'[s] /\ base'[s] = f + 1 /\ UNCHANGED <<closed, fed, queue, shed,
         sent, gaps, showed>>
  BY <1>1 DEF Connects, SocketTypes
<1>4. Rest(s)' = 0 /\ ~Ending(s)'
  BY <1>1, <1>2, <1>3 DEF Rest, Ending
<1>5. Cardinality(sent'[s]) = 0 /\ fed' = f /\ gaps'[s] = 0 /\ shed'[s] = 0
  BY <1>2, <1>3, FS_EmptySet
<1>6. Adds(0, 0, 0, 0, f, f + 1) /\ Runs(queue'[s], 0, f) /\ UpTo({}, f - 0) /\ f + 1 # 0
  BY <1>2 DEF Adds, Runs, UpTo
<1> HIDE DEF f
<1>7. Ledger(s)'
  BY <1>3, <1>4, <1>5, <1>6 DEF Ledger
<1>8. Consecutive(s)'
  BY <1>2, <1>3, <1>4, <1>5, <1>6 DEF Consecutive
<1> QED  BY <1>2, <1>3, <1>6, <1>7, <1>8 DEF SocketInv, Pumped, Exact

LEMMA HangsKeepsSocket ==
  ASSUME StoreTypes, Sockets, NEW s \in Socket, Hangs(s)
  PROVE  SocketInv(s)'
<1>1. SocketTypes /\ s \in subs /\ Pumped(s) /\ Exact(s) /\ s \in Sub
  BY DEF Sockets, SocketInv, Hangs, Sub
<1>2. /\ s \notin subs' /\ queue'[s] = <<>> /\ shed'[s] = 0 /\ ~pumping'[s]
      /\ UNCHANGED <<sent, gaps, base, showed>>
  BY <1>1 DEF Hangs, Unsubscribed, SocketTypes, StoreTypes
<1>3. Exact(s)'
  BY <1>1, <1>2 DEF Exact, Span
<1>4. base[s] # 0
  BY <1>1 DEF Pumped
<1> QED  BY <1>2, <1>3, <1>4 DEF SocketInv, Unpumped

(* One socket's step is nothing to another. *)
LEMMA OtherSocketStill ==
  ASSUME StoreTypes, Sockets, NEW t \in Socket, Connects(t) \/ Frame(t) \/ Hangs(t),
         NEW s \in Socket, s # t
  PROVE  SocketInv(s)'
<1>1. /\ SocketTypes /\ SocketInv(s) /\ s \in Sub /\ t \in Sub /\ DOMAIN queue = Sub
           /\ DOMAIN shed = Sub
  BY DEF Sockets, StoreTypes, Sub
<1>2. /\ UNCHANGED <<closed, fed>> /\ queue'[s] = queue[s] /\ shed'[s] = shed[s]
      /\ (s \in subs' <=> s \in subs) /\ pumping'[s] = pumping[s] /\ sent'[s] = sent[s]
      /\ gaps'[s] = gaps[s] /\ base'[s] = base[s] /\ showed'[s] = showed[s]
  <2>1. CASE Connects(t)
    BY <1>1, <2>1 DEF Connects, SocketTypes
  <2>2. CASE Frame(t)
    BY <1>1, <2>2 DEF Frame, SocketTypes
  <2>3. CASE Hangs(t)
    BY <1>1, <2>3 DEF Hangs, Unsubscribed, SocketTypes
  <2> QED  BY <2>1, <2>2, <2>3
<1> QED  BY <1>1, <1>2 DEF SocketInv, Pumped, Unpumped, Ledger, Consecutive, Ending, Rest, Exact,
Span

LEMMA SocketsStep ==
  ASSUME StoreTypes, Sockets, [Next]_vars
  PROVE  Sockets'
<1> SUFFICES ASSUME NEW s \in Socket PROVE SocketInv(s)'
  BY SocketTypesKept DEF Sockets
<1>1. SocketTypes /\ SocketInv(s)
  BY DEF Sockets
<1>2. CASE Commit
  BY <1>1, <1>2, BroadcastOuter, OuterKeeps DEF Commit
<1>3. CASE StopSubscribers
  <2>1. s \in Sub
    BY DEF Sub
  <2>2. Outer(s)
    BY <1>3, <2>1 DEF StopSubscribers, Outer
  <2> QED  BY <1>1, <2>2, OuterKeeps
<1>4. ASSUME NEW t \in Socket, Connects(t) \/ Frame(t) \/ Hangs(t) PROVE SocketInv(s)'
  <2>1. CASE t = s
    <3>1. CASE Frame(s)
      BY <3>1, FrameSends, SendsKeeps
    <3> QED  BY <1>4, <2>1, <3>1, ConnectsKeepsSocket, HangsKeepsSocket
  <2> QED  BY <1>4, <2>1, OtherSocketStill
<1>5. ASSUME NEW p \in Poll,
             \/ \E mode \in Calls, holds \in BOOLEAN, sends \in {"no", "once", "repeat"} :
                  Opens(p, mode, holds, sends)
             \/ MinOver(p) \/ WindowEnds(p) \/ (\E ok \in BOOLEAN : SendEnds(p, ok))
             \/ SendCut(p) \/ Tick(p) \/ Turn(p) \/ NextBatch(p) \/ NextBatchStopped(p)
             \/ Scan(p) \/ ScanCut(p) \/ Cancelled(p)
      PROVE  SocketInv(s)'
  BY <1>1, <1>5, CallsOuter, OuterKeeps
<1>6. CASE UNCHANGED vars
  <2>1. Outer(s)
    BY <1>6 DEF vars, storeVars, Outer
  <2> QED  BY <1>1, <2>1, OuterKeeps
<1> QED  BY <1>2, <1>3, <1>4, <1>5, <1>6 DEF Next

LEMMA SocketsInit == Init => Sockets
<1> SUFFICES ASSUME Init PROVE Sockets
  OBVIOUS
<1>1. SocketTypes
  BY FS_EmptySet DEF Init, SocketTypes
<1>2. ASSUME NEW s \in Socket PROVE SocketInv(s)
  <2>1. s \in Sub
    BY DEF Sub
  <2> QED  BY <2>1 DEF Init, SocketInv, Unpumped, Exact
<1> QED  BY <1>1, <1>2 DEF Sockets

LEMMA SocketsAlways == Steps => []Sockets
<1>1. IInv => StoreTypes
  BY DEF IInv
<1>2. StoreTypes /\ Sockets /\ [Next]_vars => Sockets'
  BY SocketsStep
<1> QED  BY <1>1, <1>2, SocketsInit, Invariant, PTL DEF Steps

LEMMA SocketsTold == Sockets => GapsAreExact
BY DEF Sockets, SocketInv, Exact, GapsAreExact

LEMMA ClosedToldAll == IInv /\ Sockets => ClosedFeedIsAccounted
<1>1. ASSUME StoreTypes, Sockets, NEW s \in Socket, s \in subs, closed, ~pumping[s]
      PROVE  Cardinality(sent[s]) + gaps[s] = Span(s, fed)
  <2>1. SocketTypes /\ Pumped(s)
    BY <1>1 DEF Sockets, SocketInv
  <2>2. Rest(s) = 0 /\ shed[s] = 0
    BY <1>1, <2>1 DEF Pumped, Rest, Ending
  <2>3. fed \in Nat /\ gaps[s] \in Nat /\ base[s] \in Nat /\ Cardinality(sent[s]) \in Nat
    BY <1>1, <2>1, SocketKnown
  <2>4. Cardinality(sent[s]) + gaps[s] + 0 + 0 = fed + 1 - base[s]
    BY <2>1, <2>2 DEF Pumped, Ledger, Adds
  <2> QED  BY <2>3, <2>4 DEF Span
<1> QED  BY <1>1 DEF IInv, ClosedFeedIsAccounted

(* A client that adds the gaps it was told to the rows it got knows how far  *)
(* it is, at every frame of /ws that carries a row.                          *)
THEOREM GapsAlwaysExact == Spec => []GapsAreExact
<1> QED  BY SocketsTold, SocketsAlways, PTL DEF Spec, Steps

(* A socket that the shutdown closed has been sent or told of every row      *)
(* broadcast before it (stop_subscribers, and the pump's last frame).        *)
THEOREM ClosedFeedsAccounted == Spec => []ClosedFeedIsAccounted
<1> QED  BY ClosedToldAll, Invariant, SocketsAlways, PTL DEF Spec, Steps

-------------------------------------------------------------------------------
(* What a queue may hold.                                                    *)
(*                                                                           *)
(* A row that does not fit makes room by one that is counted, so that as     *)
(* many are held and shed as there were, at most.                            *)

Fit(s) ==
  /\ Len(queue[s]) <= Size(s) /\ ToSet(queue[s]) \subseteq 0 .. Len(log) /\ shed[s] <= Len(log)
  /\ ~closed => shed[s] + Len(queue[s]) <= Len(log)
  /\ s \notin subs => queue[s] = <<>> /\ shed[s] = 0

Fits == \A s \in Sub : Fit(s)

LEMMA FitKnown ==
  ASSUME StoreTypes, NEW s \in Sub
  PROVE  /\ queue[s] \in Seq(Nat) /\ Len(queue[s]) \in Nat /\ shed[s] \in Nat /\ Len(log) \in Nat
         /\ Size(s) \in Nat \ {0}
<1>1. Size(s) \in Nat \ {0}
  BY FeedAssumption DEF Size, Sub
<1> QED  BY <1>1 DEF StoreTypes

LEMMA PushFits ==
  ASSUME StoreTypes, NEW s \in Sub, Fit(s), ~closed, NEW x \in Nat, NEW n \in Nat, x <= n,
         n \in {Len(log), Len(log) + 1}
  PROVE  LET q == IF s \in subs THEN Pushed(queue[s], s, x) ELSE queue[s] IN
         /\ Len(q) <= Size(s) /\ ToSet(q) \subseteq 0 .. n /\ Sheds(s) <= n
         /\ Sheds(s) + Len(q) <= Len(log) + 1
         /\ s \notin subs => q = <<>> /\ Sheds(s) = 0
<1> DEFINE q == IF s \in subs THEN Pushed(queue[s], s, x) ELSE queue[s]
<1>1. /\ queue[s] \in Seq(Nat) /\ Len(queue[s]) \in Nat /\ shed[s] \in Nat /\ Len(log) \in Nat
      /\ Size(s) \in Nat \ {0}
  BY FitKnown
<1>2. /\ Len(queue[s]) <= Size(s) /\ ToSet(queue[s]) \subseteq 0 .. n /\ shed[s] <= n
      /\ shed[s] + Len(queue[s]) <= Len(log)
  BY <1>1 DEF Fit
<1>3. CASE s \notin subs
  <2>1. q = queue[s] /\ q = <<>> /\ Sheds(s) = shed[s] /\ shed[s] = 0
    BY <1>3 DEF Fit, Sheds
  <2> QED  BY <1>1, <1>2, <2>1
<1>4. CASE s \in subs
  <2>1. q = Pushed(queue[s], s, x) /\ ToSet(q) \subseteq ToSet(queue[s]) \cup {x}
    BY <1>1, <1>4, PushedHolds
  <2>2. ToSet(q) \subseteq 0 .. n
    BY <1>2, <2>1
  <2>3. CASE Len(queue[s]) >= Size(s)
    <3>1. Pushed(queue[s], s, x) = Append(Tail(queue[s]), x) /\ Sheds(s) = shed[s] + 1
      BY <1>4, <2>3 DEF Pushed, Sheds
    <3>2. Len(queue[s]) # 0 /\ Len(Tail(queue[s])) = Len(queue[s]) - 1
            /\ Tail(queue[s]) \in Seq(Nat)
      BY <1>1, <2>3
    <3>3. Len(q) = Len(queue[s])
      BY <1>1, <2>1, <3>1, <3>2
    <3> HIDE DEF q
    <3> QED  BY <1>1, <1>2, <1>4, <2>2, <3>1, <3>2, <3>3 DEF q
  <2>4. CASE ~(Len(queue[s]) >= Size(s))
    <3>1. Pushed(queue[s], s, x) = Append(queue[s], x) /\ Sheds(s) = shed[s]
      BY <1>4, <2>4 DEF Pushed, Sheds
    <3>2. Len(q) = Len(queue[s]) + 1
      BY <1>1, <2>1, <3>1
    <3> QED  BY <1>1, <1>2, <1>4, <2>2, <2>4, <3>1, <3>2
  <2> QED  BY <2>3, <2>4
<1> QED  BY <1>3, <1>4

LEMMA BroadcastFits ==
  ASSUME StoreTypes, NEW k \in Kind, Broadcast(k), UNCHANGED <<closed, subs>>, NEW s \in Sub,
         Fit(s)
  PROVE  Fit(s)'
<1>1. /\ queue[s] \in Seq(Nat) /\ Len(queue[s]) \in Nat /\ shed[s] \in Nat /\ Len(log) \in Nat
      /\ log \in Seq(Kind) /\ log' = Append(log, k)
  BY FitKnown DEF Broadcast, StoreTypes
<1>2. Len(log') = Len(log) + 1
  BY <1>1
<1>3. CASE closed
  BY <1>1, <1>2, <1>3 DEF Broadcast, Fit, Size
<1>4. CASE ~closed
  <2>1. /\ queue'[s] = IF s \in subs THEN Pushed(queue[s], s, Len(log) + 1) ELSE queue[s]
        /\ shed'[s] = Sheds(s)
    BY <1>4 DEF Broadcast
  <2>2. LET q == IF s \in subs THEN Pushed(queue[s], s, Len(log) + 1) ELSE queue[s] IN
        /\ Len(q) <= Size(s) /\ ToSet(q) \subseteq 0 .. Len(log) + 1 /\ Sheds(s) <= Len(log) + 1
        /\ Sheds(s) + Len(q) <= Len(log) + 1
        /\ s \notin subs => q = <<>> /\ Sheds(s) = 0
    BY <1>1, <1>4, PushFits
  <2> QED  BY <1>2, <2>1, <2>2 DEF Fit, Size
<1> QED  BY <1>3, <1>4

LEMMA StopFits ==
  ASSUME StoreTypes, StopSubscribers, NEW s \in Sub, Fit(s)
  PROVE  Fit(s)'
<1>1. Len(log) \in Nat /\ ~closed /\ closed' = TRUE /\ UNCHANGED <<log, subs>>
  BY FitKnown DEF StopSubscribers
<1>2. /\ queue'[s] = IF s \in subs THEN Pushed(queue[s], s, Stop) ELSE queue[s]
      /\ shed'[s] = Sheds(s)
  BY DEF StopSubscribers
<1>3. LET q == IF s \in subs THEN Pushed(queue[s], s, Stop) ELSE queue[s] IN
      /\ Len(q) <= Size(s) /\ ToSet(q) \subseteq 0 .. Len(log) /\ Sheds(s) <= Len(log)
      /\ s \notin subs => q = <<>> /\ Sheds(s) = 0
  BY <1>1, PushFits DEF Stop
<1> QED  BY <1>1, <1>2, <1>3 DEF Fit, Size

(* What else happens to a queue: nothing, or it is emptied, or a frame is    *)
(* taken from its old end.                                                   *)
Drawn(s) ==
  /\ UNCHANGED <<log, closed>>
  /\ \/ queue'[s] = queue[s] /\ shed'[s] = shed[s] /\ (s \in subs => s \in subs')
     \/ queue'[s] = <<>> /\ shed'[s] = 0
     \/ /\ s \in subs /\ s \in subs' /\ shed'[s] = 0
        /\ \E n \in Nat : n <= Len(queue[s]) /\ queue'[s] = SubSeq(queue[s], n + 1, Len(queue[s]))

LEMMA DrawnFits ==
  ASSUME StoreTypes, NEW s \in Sub, Fit(s), Drawn(s)
  PROVE  Fit(s)'
<1>1. /\ queue[s] \in Seq(Nat) /\ Len(queue[s]) \in Nat /\ shed[s] \in Nat /\ Len(log) \in Nat
      /\ Size(s) \in Nat \ {0}
  BY FitKnown
<1>2. UNCHANGED <<log, closed>>
  BY DEF Drawn
<1>3. CASE queue'[s] = queue[s] /\ shed'[s] = shed[s] /\ (s \in subs => s \in subs')
  BY <1>2, <1>3 DEF Fit, Size
<1>4. CASE queue'[s] = <<>> /\ shed'[s] = 0
  <2>1. Len(queue'[s]) = 0 /\ ToSet(queue'[s]) = {}
    BY <1>4, EmptyHolds
  <2> QED  BY <1>1, <1>2, <1>4, <2>1 DEF Fit, Size
<1>5. CASE /\ s \in subs /\ s \in subs' /\ shed'[s] = 0
           /\ \E n \in Nat : n <= Len(queue[s]) /\ queue'[s] = SubSeq(queue[s], n + 1,
                                                                      Len(queue[s]))
  <2>1. PICK n \in Nat : n <= Len(queue[s]) /\ queue'[s] = SubSeq(queue[s], n + 1, Len(queue[s]))
    BY <1>5
  <2>2. /\ Len(queue'[s]) = Len(queue[s]) - n
        /\ \A i \in 1 .. Len(queue[s]) - n : queue'[s][i] = queue[s][i + n]
        /\ queue'[s] \in Seq(Nat)
    BY <1>1, <2>1
  <2>3. ToSet(queue'[s]) \subseteq ToSet(queue[s])
    <3>1. \A i \in 1 .. Len(queue[s]) - n : i + n \in DOMAIN queue[s]
      BY <1>1, <2>1
    <3>2. DOMAIN queue'[s] = 1 .. Len(queue[s]) - n
      BY <2>2
    <3> QED  BY <2>2, <3>1, <3>2 DEF ToSet
  <2> QED  BY <1>1, <1>2, <1>5, <2>1, <2>2, <2>3 DEF Fit, Size
<1> QED  BY <1>3, <1>4, <1>5 DEF Drawn

LEMMA CallsDraw ==
  ASSUME StoreTypes, Fits, NEW p \in Poll, NEW s \in Sub,
         \/ \E mode \in Calls, holds \in BOOLEAN, sends \in {"no", "once", "repeat"} :
              Opens(p, mode, holds, sends)
         \/ MinOver(p) \/ WindowEnds(p) \/ (\E ok \in BOOLEAN : SendEnds(p, ok))
         \/ SendCut(p) \/ Tick(p) \/ Turn(p) \/ NextBatch(p) \/ NextBatchStopped(p)
         \/ Scan(p) \/ ScanCut(p) \/ Cancelled(p)
  PROVE  Fit(s)'
<1>1. p \in Sub /\ DOMAIN queue = Sub /\ DOMAIN shed = Sub /\ Fit(s)
  BY DEF StoreTypes, Sub, Fits
<1>2. Drawn(s) => Fit(s)'
  BY <1>1, DrawnFits
<1>3. ASSUME NEW c, NEW status, Answered(p, c, status) PROVE Drawn(s)
  BY <1>1, <1>3 DEF Answered, Unsubscribed, Drawn
<1>4. ASSUME NEW c, Continues(p, c), Takes(p) PROVE Drawn(s)
  BY <1>1, <1>4 DEF Continues, Takes, Drawn
<1>5. ASSUME NEW c, Concludes(p, c) PROVE Drawn(s)
  BY <1>3, <1>5 DEF Concludes
<1>6. CASE \E mode \in Calls, holds \in BOOLEAN, sends \in {"no", "once", "repeat"} :
             Opens(p, mode, holds, sends)
  BY <1>1, <1>2, <1>6 DEF Opens, Drawn
<1>7. CASE MinOver(p) \/ WindowEnds(p)
  BY <1>2, <1>7 DEF MinOver, WindowEnds, storeVars, Drawn
<1>8. CASE \E ok \in BOOLEAN : SendEnds(p, ok)
  BY <1>2, <1>3, <1>4, <1>8 DEF SendEnds, Takes
<1>9. CASE SendCut(p) \/ NextBatchStopped(p) \/ Cancelled(p)
  BY <1>2, <1>3, <1>9 DEF SendCut, NextBatchStopped, Cancelled
<1>10. CASE Tick(p)
  <2>1. UNCHANGED <<closed, subs>>
    BY <1>10 DEF Tick
  <2>2. CASE Broadcast("tx")
    BY <1>1, <2>1, <2>2, BroadcastFits DEF Kind
  <2>3. CASE UNCHANGED <<log, fed, queue, shed>>
    BY <1>2, <2>1, <2>3 DEF Drawn
  <2> QED  BY <1>10, <2>2, <2>3 DEF Tick
<1>11. CASE Turn(p)
  BY <1>2, <1>4, <1>5, <1>11 DEF Turn, Takes
<1>12. CASE NextBatch(p)
  BY <1>2, <1>3, <1>4, <1>5, <1>12 DEF NextBatch, Takes
<1>13. CASE Scan(p)
  BY <1>2, <1>4, <1>5, <1>13 DEF Scan, Takes
<1>14. CASE ScanCut(p)
  BY <1>2, <1>5, <1>14 DEF ScanCut
<1> QED  BY <1>6, <1>7, <1>8, <1>9, <1>10, <1>11, <1>12, <1>13, <1>14

LEMMA FitsStep ==
  ASSUME StoreTypes, Fits, [Next]_vars
  PROVE  Fits'
<1> SUFFICES ASSUME NEW s \in Sub PROVE Fit(s)'
  BY DEF Fits, Sub
<1>1. Fit(s) /\ DOMAIN queue = Sub /\ DOMAIN shed = Sub
  BY DEF Fits, StoreTypes
<1>2. Drawn(s) => Fit(s)'
  BY <1>1, DrawnFits
<1>3. CASE Commit
  BY <1>1, <1>3, BroadcastFits DEF Commit
<1>4. CASE StopSubscribers
  BY <1>1, <1>4, StopFits
<1>5. ASSUME NEW t \in Socket, Connects(t) PROVE Drawn(s)
  BY <1>5 DEF Connects, Drawn
<1>6. ASSUME NEW t \in Socket, Hangs(t) PROVE Drawn(s)
  <2>1. t \in Sub
    BY DEF Sub
  <2> QED  BY <1>1, <1>6, <2>1 DEF Hangs, Unsubscribed, Drawn
<1>7. ASSUME NEW t \in Socket, Frame(t) PROVE Fit(s)'
  <2>1. t \in Sub /\ queue[t] # <<>>
    BY <1>7 DEF Sub, Frame
  <2>2. t \in subs
    BY <2>1 DEF Fits, Fit
  <2>3. CASE t = s
    <3> DEFINE n == Len(Taken(s))
    <3>1. queue'[s] = SubSeq(queue[s], n + 1, Len(queue[s])) /\ shed'[s] = 0 /\ UNCHANGED <<log,
          closed, subs>>
      BY <1>1, <1>7, <2>3 DEF Frame
    <3>2. n \in Nat /\ n <= Len(queue[s])
      <4>1. queue[s] \in Seq(Nat) /\ Len(queue[s]) \in Nat
        BY FitKnown
      <4> QED  BY <4>1, FeedAssumption DEF Taken
    <3> HIDE DEF n
    <3>3. Drawn(s)
      BY <2>2, <2>3, <3>1, <3>2 DEF Drawn
    <3> QED  BY <1>2, <3>3
  <2>4. CASE t # s
    <3>1. Drawn(s)
      BY <1>1, <1>7, <2>4 DEF Frame, Drawn
    <3> QED  BY <1>2, <3>1
  <2> QED  BY <2>3, <2>4
<1>8. ASSUME NEW p \in Poll,
             \/ \E mode \in Calls, holds \in BOOLEAN, sends \in {"no", "once", "repeat"} :
                  Opens(p, mode, holds, sends)
             \/ MinOver(p) \/ WindowEnds(p) \/ (\E ok \in BOOLEAN : SendEnds(p, ok))
             \/ SendCut(p) \/ Tick(p) \/ Turn(p) \/ NextBatch(p) \/ NextBatchStopped(p)
             \/ Scan(p) \/ ScanCut(p) \/ Cancelled(p)
      PROVE  Fit(s)'
  BY <1>8, CallsDraw
<1>9. CASE UNCHANGED vars
  BY <1>2, <1>9 DEF vars, storeVars, Drawn
<1> QED  BY <1>2, <1>3, <1>4, <1>5, <1>6, <1>7, <1>8, <1>9 DEF Next

LEMMA InitFits == Init => Fits
<1> SUFFICES ASSUME Init, NEW s \in Sub PROVE Fit(s)
  BY DEF Fits
<1>1. queue[s] = <<>> /\ shed[s] = 0 /\ log = <<>>
  BY DEF Init
<1>2. Size(s) \in Nat
  BY FeedAssumption DEF Size, Sub
<1> QED  BY <1>1, <1>2, EmptyHolds DEF Fit

LEMMA FitsAlways == Steps => []Fits
<1>1. IInv => StoreTypes
  BY DEF IInv
<1>2. StoreTypes /\ Fits /\ [Next]_vars => Fits'
  BY FitsStep
<1> QED  BY <1>1, <1>2, InitFits, Invariant, PTL DEF Steps

(* No subscriber's queue outgrows its capacity, whatever is broadcast while  *)
(* it is not read, a queue holds rows there are, and one that has gone holds *)
(* nothing and is owed nothing.                                              *)
THEOREM FeedTypes == Steps => []TypeOK
<1>1. StoreTypes /\ Fits => TypeOK
  BY DEF StoreTypes, Fits, Fit, TypeOK
<1>2. IInv => StoreTypes
  BY DEF IInv
<1> QED  BY <1>1, <1>2, Invariant, FitsAlways, PTL
===============================================================================
