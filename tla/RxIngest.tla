------------------------------- MODULE RxIngest -------------------------------
(***************************************************************************)
(* What a port receives on its way to the store (SerialPort._on_bytes,     *)
(* _consume, _store_rx_batch, _submit_rx_line, _settle_rx_line and the     *)
(* receive side of stop() in host/mcuscope/serial_link.py): bytes are cut  *)
(* into lines, queued, taken in batches, submitted and settled, and at     *)
(* every one of these steps a line can be dropped and has to be counted.   *)
(*                                                                         *)
(* A line is its number, in the order lines end; a length matters only up  *)
(* to Cap + 1 (the cap is exceeded); the classification of a line is the   *)
(* plot name it brings, if any. The store is its verdict on each line.     *)
(***************************************************************************)
EXTENDS Naturals, Sequences, SequencesExt, FiniteSets, FiniteSetsExt

CONSTANTS
  Cap,        \* RX_SAFETY_CAP: bytes of a line
  QueueMax,   \* RX_QUEUE_MAX: lines waiting for the consumer
  BatchMax,   \* RX_BATCH_MAX: lines the consumer takes at once
  NamesMax,   \* protocol.ADHOC_NAMES_MAX: distinct plot names of a port
  Names,      \* plot names a board may use
  MaxLines    \* bound: lines that begin

VARIABLES
  buf,        \* length of _rx_bytes
  discarding, \* _rx_discarding
  queue,      \* _rx_lines
  rxDropped,  \* rx_dropped
  overflowing,\* _queue_overflow.triggered
  wake,       \* _rx_wake
  pc,         \* where the consumer task stands
  batch,      \* lines of its batch not submitted yet, the current one first
  prepared,   \* lines it has submitted and not settled: [n, name, fresh]
  plotNames,  \* plot_names
  unstorable, \* _unstorable_n
  stopping,   \* the stop event
  stopPc,     \* where stop() stands
  begun,      \* lines that began to arrive
  ended,      \* lines that were cut out whole and queued, by number
  stored,     \* lines the store has a row for: [n, name]
  left        \* lines the store has when the consumer was cancelled: [n, name]

cutVars  == <<buf, discarding, begun, ended>>
taskVars == <<pc, batch, prepared>>
vars == <<cutVars, queue, rxDropped, overflowing, wake, taskVars, plotNames, unstorable,
          stopping, stopPc, stored, left>>

Len1 == 0 .. Cap + 1
None == "none"

TypeOK ==
  /\ buf \in Len1 /\ discarding \in BOOLEAN /\ overflowing \in BOOLEAN /\ wake \in BOOLEAN
  /\ queue \in Seq(1 .. MaxLines) /\ batch \in Seq(1 .. MaxLines)
  /\ Len(queue) <= QueueMax + BatchMax /\ Len(batch) + Len(prepared) <= BatchMax
  /\ rxDropped \in Nat /\ unstorable \in Nat
  /\ pc \in {"waits", "submits", "full", "settles", "ended"}
  /\ stopPc \in {"off", "joins", "cancels", "counts", "done"} /\ stopping \in BOOLEAN
  /\ plotNames \subseteq Names

Init ==
  /\ buf = 0 /\ discarding = FALSE /\ queue = <<>> /\ rxDropped = 0 /\ overflowing = FALSE
  /\ wake = FALSE /\ pc = "waits" /\ batch = <<>> /\ prepared = <<>> /\ plotNames = {}
  /\ unstorable = 0 /\ stopping = FALSE /\ stopPc = "off"
  /\ begun = 0 /\ ended = 0 /\ stored = {} /\ left = {}

(* The consumer runs from an await to the next without the loop turning: it *)
(* gives the loop up only while it waits, is held back or settles.          *)
LoopFree == pc # "submits"

-------------------------------------------------------------------------------
(* Bytes arrive. *)

(* The lines a burst cuts: the lengths of its pieces, each ended by LF but  *)
(* the last. What is being discarded runs to the first LF.                  *)
Pieces(burst) ==
  IF discarding THEN Tail(burst) ELSE <<buf + Head(burst)>> \o Tail(burst)

Clip(n) == IF n > Cap THEN Cap + 1 ELSE n

(* The queue after a burst, the oldest of what is too many shed. *)
Shed(q) == SubSeq(q, Len(q) - QueueMax + 1, Len(q))

(* _take_partial *)
TakePartial == buf' = 0 /\ discarding' = FALSE

(* A line begins with its first byte: a rest of no bytes has not begun. *)
Begins(pieces, old) ==
  Cardinality({i \in DOMAIN pieces : i < Len(pieces) \/ pieces[i] > 0}) - (IF old > 0 THEN 1 ELSE 0)

Unterminated(n) ==
  /\ buf' = (IF n > Cap THEN 0 ELSE n)
  /\ discarding' = (n > Cap)
  /\ rxDropped' = rxDropped + (IF n > Cap THEN 1 ELSE 0)
  /\ UNCHANGED <<ended, queue, overflowing, wake>>

Excess(q) == IF Len(q) > QueueMax THEN Len(q) - QueueMax ELSE 0

(* How many of the lines a burst ends are within the cap. *)
Whole(pieces) == Cardinality({i \in 1 .. Len(pieces) - 1 : pieces[i] <= Cap})

(* Mutant: an oversized line is left out and not counted. *)
CompleteUncounted(pieces) ==
  LET whole == Whole(pieces)
      all   == queue \o [i \in 1 .. whole |-> ended + i]
  IN /\ buf' = Clip(Last(pieces)) /\ discarding' = FALSE
     /\ ended' = ended + whole
     /\ queue' = (IF Excess(all) > 0 THEN Shed(all) ELSE all)
     /\ rxDropped' = rxDropped + Excess(all)
     /\ overflowing' = (overflowing \/ Excess(all) > 0)
     /\ wake' = TRUE

(* Mutant: only a burst that finds the queue empty wakes the consumer. *)
CompleteWakesOnEmpty(pieces) ==
  LET whole == Whole(pieces)
      all   == queue \o [i \in 1 .. whole |-> ended + i]
  IN /\ buf' = Clip(Last(pieces)) /\ discarding' = FALSE
     /\ ended' = ended + whole
     /\ queue' = (IF Excess(all) > 0 THEN Shed(all) ELSE all)
     /\ rxDropped' = rxDropped + (Len(pieces) - 1 - whole) + Excess(all)
     /\ overflowing' = (overflowing \/ Excess(all) > 0)
     /\ wake' = (queue = <<>> /\ pc # "waits")

(* A burst with an LF. The cap holds for an ended line too; its rest is the *)
(* next line's head and is looked at with the next bytes.                   *)
Complete(pieces) ==
  LET whole == Whole(pieces)
      all   == queue \o [i \in 1 .. whole |-> ended + i]
  IN /\ buf' = Clip(Last(pieces)) /\ discarding' = FALSE
     /\ ended' = ended + whole
     /\ queue' = (IF Excess(all) > 0 THEN Shed(all) ELSE all)
     /\ rxDropped' = rxDropped + (Len(pieces) - 1 - whole) + Excess(all)
     /\ overflowing' = (overflowing \/ Excess(all) > 0)
     /\ wake' = TRUE

OnBytes(burst) ==
  /\ LoopFree
  /\ IF discarding /\ Len(burst) = 1
       THEN UNCHANGED <<cutVars, queue, rxDropped, overflowing, wake>>
       ELSE LET pieces == Pieces(burst)
            IN /\ begun' = begun + Begins(pieces, IF discarding THEN 0 ELSE buf)
               /\ begun' <= MaxLines
               /\ IF Len(pieces) = 1 THEN Unterminated(pieces[1]) ELSE Complete(pieces)
  /\ UNCHANGED <<taskVars, plotNames, unstorable, stopping, stopPc, stored, left>>

(* Bursts of up to two LFs; one without any has at least a byte. A reader   *)
(* that outlived the join of stop() may still post.                         *)
BytesArrive ==
  \E burst \in [1 .. 1 -> Len1 \ {0}] \cup [1 .. 2 -> Len1] \cup [1 .. 3 -> {0, 1}] :
    OnBytes(burst)

(* _on_disconnect: once stopping, the partial line is left to stop(). *)
OnDisconnect ==
  /\ LoopFree /\ ~stopping
  /\ TakePartial
  /\ rxDropped' = rxDropped + (IF buf > 0 THEN 1 ELSE 0)
  /\ UNCHANGED <<begun, ended, queue, overflowing, wake, taskVars, plotNames, unstorable,
                 stopping, stopPc, stored, left>>

-------------------------------------------------------------------------------
(* The consumer. *)

(* _consume: an empty queue clears the wake event and waits for it. *)
Waits ==
  /\ pc = "waits" /\ stopPc # "counts" /\ queue = <<>> /\ wake
  /\ wake' = FALSE
  /\ UNCHANGED <<cutVars, queue, rxDropped, overflowing, taskVars, plotNames, unstorable,
                 stopping, stopPc, stored, left>>

TakeBatch ==
  /\ pc = "waits" /\ stopPc # "counts" /\ wake /\ queue # <<>>
  /\ LET k == IF Len(queue) < BatchMax THEN Len(queue) ELSE BatchMax
     IN /\ batch' = SubSeq(queue, 1, k)
        /\ queue' = SubSeq(queue, k + 1, Len(queue))
        /\ overflowing' = (overflowing /\ Len(queue) - k >= QueueMax \div 2)
  /\ pc' = "submits"
  /\ UNCHANGED <<cutVars, rxDropped, wake, prepared, plotNames, unstorable, stopping, stopPc,
                 stored, left>>

(* The name a line spends if it is submitted: one over the limit is refused *)
(* with its line's plot, not with its line.                                 *)
Fresh(name) ==
  IF name \in plotNames \cup {None} THEN {}
  ELSE IF Cardinality(plotNames) + 1 > NamesMax THEN {} ELSE {name}

Charted(name) == IF name \in plotNames \/ Fresh(name) # {} THEN name ELSE None

AfterSubmit(left_over) == IF left_over = <<>> THEN "settles" ELSE "submits"

(* Mutant: the name is spent before the store has taken the line. *)
SubmitSpendsFirst(name) ==
  /\ plotNames' = plotNames \cup Fresh(name)
  /\ \/ /\ prepared' = Append(prepared, [n |-> Head(batch), name |-> Charted(name),
                                         fresh |-> Fresh(name)])
        /\ batch' = Tail(batch) /\ UNCHANGED <<rxDropped, unstorable>>
     \/ /\ rxDropped' = rxDropped + 1 /\ unstorable' = unstorable + 1
        /\ batch' = Tail(batch) /\ UNCHANGED prepared

(* _submit_rx_line: the store takes the line and its name is spent, or      *)
(* raises (StoreError) and the line is dropped (_drop_rx_line).             *)
Submit(name) ==
  \/ /\ prepared' = Append(prepared, [n |-> Head(batch), name |-> Charted(name),
                                      fresh |-> Fresh(name)])
     /\ plotNames' = plotNames \cup Fresh(name)
     /\ batch' = Tail(batch) /\ UNCHANGED <<rxDropped, unstorable>>
  \/ /\ rxDropped' = rxDropped + 1 /\ unstorable' = unstorable + 1
     /\ batch' = Tail(batch) /\ UNCHANGED <<prepared, plotNames>>

SubmitLine ==
  /\ pc \in {"submits", "full"} /\ batch # <<>>
  /\ pc = "full" => stopPc # "counts"
  /\ \E name \in Names \cup {None} : Submit(name)
  /\ pc' = AfterSubmit(Tail(batch))
  /\ UNCHANGED <<cutVars, queue, overflowing, wake, stopping, stopPc, stored, left>>

(* The writer's queue is full: the consumer awaits room. *)
HeldBack ==
  /\ pc = "submits" /\ batch # <<>>
  /\ pc' = "full"
  /\ UNCHANGED <<cutVars, queue, rxDropped, overflowing, wake, batch, prepared, plotNames,
                 unstorable, stopping, stopPc, stored, left>>

(* _close_unstorable: a row, withheld once stopping unless stop() files it; *)
(* the log line names them in any case.                                     *)
CloseUnstorable == unstorable' = 0

(* _settle_rx_line, the store has the row. *)
SettleStored ==
  /\ pc = "settles" /\ prepared # <<>>
  /\ stored' = stored \cup {[n |-> prepared[1].n, name |-> prepared[1].name]}
  /\ prepared' = Tail(prepared)
  /\ CloseUnstorable
  /\ UNCHANGED <<cutVars, queue, rxDropped, overflowing, wake, pc, batch, plotNames, stopping,
                 stopPc, left>>

(* Mutant: the names of a refused line stay spent. *)
SettleRefusedKeepsNames ==
  /\ pc = "settles" /\ prepared # <<>>
  /\ rxDropped' = rxDropped + 1 /\ unstorable' = unstorable + 1
  /\ prepared' = Tail(prepared)
  /\ UNCHANGED <<cutVars, queue, overflowing, wake, pc, batch, plotNames, stopping, stopPc,
                 stored, left>>

(* The store refused it: the line is dropped and its names are given back. *)
SettleRefused ==
  /\ pc = "settles" /\ prepared # <<>>
  /\ plotNames' = plotNames \ prepared[1].fresh
  /\ rxDropped' = rxDropped + 1 /\ unstorable' = unstorable + 1
  /\ prepared' = Tail(prepared)
  /\ UNCHANGED <<cutVars, queue, overflowing, wake, pc, batch, stopping, stopPc, stored, left>>

BatchDone ==
  /\ pc = "settles" /\ prepared = <<>>
  /\ pc' = "waits" /\ wake' = TRUE   \* the loop looks at the queue before it waits
  /\ UNCHANGED <<cutVars, queue, rxDropped, overflowing, batch, prepared, plotNames, unstorable,
                 stopping, stopPc, stored, left>>

-------------------------------------------------------------------------------
(* stop() and hold(). *)

StopBegins ==
  /\ LoopFree /\ stopPc = "off"
  /\ stopping' = TRUE /\ stopPc' = "joins"
  /\ UNCHANGED <<cutVars, queue, rxDropped, overflowing, wake, taskVars, plotNames, unstorable,
                 stored, left>>

(* The join returns, or gives up on a reader that is still there; then the  *)
(* consumer is cancelled.                                                   *)
JoinEnds ==
  /\ LoopFree /\ stopPc = "joins"
  /\ stopPc' = "cancels"
  /\ UNCHANGED <<cutVars, queue, rxDropped, overflowing, wake, taskVars, plotNames, unstorable,
                 stopping, stored, left>>

(* Mutant: the line it was held back on is not put back. *)
PutBackRest == Tail(batch) \o queue

(* What the store never took goes back to the head of the queue. *)
PutBack == batch \o queue

(* The cancellation arrives at the await the consumer stands at. *)
ConsumerCancelled ==
  /\ LoopFree /\ stopPc = "cancels" /\ pc # "ended"
  /\ queue' = (IF pc = "full" THEN PutBack ELSE queue)
  /\ left' = left \cup {[n |-> x.n, name |-> x.name] : x \in Range(prepared)}
  /\ batch' = <<>> /\ prepared' = <<>> /\ pc' = "ended" /\ stopPc' = "counts"
  /\ UNCHANGED <<cutVars, rxDropped, overflowing, wake, plotNames, unstorable, stopping, stored>>

(* Mutant: the lines no later line will end the episode of stay untold. *)
StopCountsQuietly ==
  /\ LoopFree /\ stopPc = "counts"
  /\ rxDropped' = rxDropped + Len(queue) + (IF buf > 0 THEN 1 ELSE 0)
  /\ queue' = <<>> /\ TakePartial
  /\ stopPc' = "done"
  /\ UNCHANGED <<begun, ended, overflowing, wake, taskVars, plotNames, unstorable, stopping,
                 stored, left>>

(* What the consumer never reached is lost here. *)
StopCounts ==
  /\ LoopFree /\ stopPc = "counts"
  /\ CloseUnstorable
  /\ rxDropped' = rxDropped + Len(queue) + (IF buf > 0 THEN 1 ELSE 0)
  /\ queue' = <<>> /\ TakePartial
  /\ stopPc' = "done"
  /\ UNCHANGED <<begun, ended, overflowing, wake, taskVars, plotNames, stopping, stored, left>>

Consumes == Waits \/ TakeBatch \/ SubmitLine \/ SettleStored \/ SettleRefused \/ BatchDone
Stops    == StopBegins \/ JoinEnds \/ ConsumerCancelled \/ StopCounts
Next == BytesArrive \/ OnDisconnect \/ HeldBack \/ Consumes \/ Stops

Spec == Init /\ [][Next]_vars

-------------------------------------------------------------------------------
(* Properties. *)

(* Every line that began to arrive is in exactly one place: still arriving, *)
(* queued, in the consumer's hands, with the store, or counted in           *)
(* rx_dropped - whatever dropped it, a full buffer, a full queue, a store   *)
(* that refused it, a lost link or a stop.                                  *)
LinesAccounted ==
  begun = (IF buf > 0 THEN 1 ELSE 0) + Len(queue) + Len(batch) + Len(prepared)
            + Cardinality(stored) + Cardinality(left) + rxDropped

(* A plot name is spent only by a line that the store has or will judge: a  *)
(* refused submit or a refused row frees it, a cancelled consumer does not. *)
NamesSpentByLines ==
  /\ Cardinality(plotNames) <= NamesMax
  /\ plotNames \subseteq {x.name : x \in stored \cup left \cup Range(prepared)}

(* A consumer that waits while lines are queued has its wakeup set: no line *)
(* stays behind because the burst that brought it met the consumer between  *)
(* its look at the queue and its wait.                                      *)
NoLostWakeup == pc = "waits" /\ queue # <<>> => wake

(* A line the store refused is named by a row or a log line at the latest   *)
(* when the port has stopped.                                               *)
RefusalsTold == stopPc = "done" => unstorable = 0
===============================================================================
