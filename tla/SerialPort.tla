------------------------------ MODULE SerialPort -------------------------------
(***************************************************************************)
(* One attached port (SerialPort in host/mcuscope/serial_link.py): the     *)
(* reader thread that opens the device, reads it and closes it, the write  *)
(* pool, the callbacks and tasks of the event loop, commands with their    *)
(* seq, timeouts and cancellation, and hold() / stop().                    *)
(*                                                                         *)
(* The loop is its ready queue: call_soon_threadsafe and every wakeup of a *)
(* task append to it and it runs in that order, one entry at a time, so    *)
(* what a thread does between two entries is the concurrency of the code.  *)
(* A link is known by the number of the open that made it. The bytes of a  *)
(* line, the decoders and the sys rows are left out (StoreWriter has the   *)
(* writer behind the rows).                                                *)
(***************************************************************************)
EXTENDS Naturals, Sequences, SequencesExt, FiniteSets

CONSTANTS
  SeqMax,       \* protocol.SEQ_MAX: a command's seq is 1 .. SeqMax, then 1 again
  Identify,     \* identify: ping the board once per connect
  Kinds,        \* what clients ask for: "cmd" (send_command), "raw" (send_raw)
  Faults,       \* what may go wrong
  MaxCalls,     \* bound: commands, pings and raw writes
  MaxLinks,     \* bound: opens that succeed
  MaxReady      \* bound: the reader posts while the ready queue is shorter

AllFaults == {"openFails", "readFails", "writeFails", "storeFails", "cancel",
              "slowJoin", "hold", "detach"}

ASSUME SeqAssumption    == SeqMax \in Nat \ {0}
ASSUME BoundAssumption  == MaxCalls \in Nat /\ MaxLinks \in Nat /\ MaxReady \in Nat \ {0}
ASSUME ChoiceAssumption == Identify \in BOOLEAN /\ Kinds \subseteq {"cmd", "raw"}
                             /\ Faults \subseteq AllFaults

Call == 1 .. MaxCalls
Link == 0 .. MaxLinks         \* 0 is None
Seq1 == 1 .. SeqMax

VARIABLES
  \* the reader thread
  rpc,          \* where _reader stands
  mine,         \* its local `link`
  \* shared by threads
  stopping,     \* the stop event
  link,         \* self._link
  open,         \* the handles that are open
  lock,         \* the call whose write holds _write_lock, 0 when it is free
  failing,      \* _write_health.failures > 0
  \* the loop
  ready,        \* its ready queue
  connected, held, reason, target,
  conn,         \* the link the last _on_connect was about
  consuming,    \* the consumer task runs
  lines,        \* received responses on their way through the consumer and the store
  stopPc,       \* where hold() or stop() stands
  \* calls: their tasks, in the order they take their asyncio lock
  called, kind, pc, seq, fut, via, answer,
  pooled,       \* calls whose write a worker of the pool has and has not finished
  lastSeq,      \* _seq
  pending,      \* _pending: the call registered under each seq, 0 for none
  \* the board
  due           \* commands it has received and may yet answer

readerVars == <<rpc, mine>>
linkVars   == <<stopping, link, open, lock, failing>>
portVars   == <<connected, held, reason, target, conn>>
rxVars     == <<consuming, lines>>
callVars   == <<called, kind, pc, seq, fut, via, answer, pooled, lastSeq, pending>>
vars == <<readerVars, linkVars, ready, portVars, rxVars, stopPc, callVars, due>>

Got(n)   == [k |-> "resp", of |-> n]
No(what) == [k |-> what, of |-> 0]

Outcome == {No(w) : w \in {"none", "waits", "error", "timeout", "cancelled", "sent"}}
             \cup {Got(n) : n \in Call}

Reasons == {"none", "connecting", "manual", "no_device", "open_failed", "read_error"}

(* An entry of the ready queue: k the callback or wakeup, n its link or call, *)
(* w how it came out.                                                         *)
Entry(k, n, w) == [k |-> k, n |-> n, w |-> w]

Entries ==
  [k : {"on_connect"}, n : Link \ {0}, w : {"ok"}]
    \cup [k : {"on_disconnect"}, n : {0}, w : {"ok"}]
    \cup [k : {"on_error"}, n : {0}, w : {"no_device", "open_failed", "read_error"}]
    \cup [k : {"on_bytes", "woken"}, n : Call, w : {"ok"}]
    \cup [k : {"settle", "written", "logged"}, n : Call, w : {"ok", "failed"}]

InFlight == {"writing", "logging", "awaiting"}
Ping     == "ping"

Init ==
  /\ rpc = "top" /\ mine = 0
  /\ stopping = FALSE /\ link = 0 /\ open = {} /\ lock = 0 /\ failing = FALSE
  /\ ready = <<>>
  /\ connected = FALSE /\ held = FALSE /\ reason = "connecting" /\ target = 0 /\ conn = 0
  /\ consuming = TRUE /\ lines = <<>>
  /\ stopPc = "off"
  /\ called = 0
  /\ kind = [c \in Call |-> "cmd"] /\ pc = [c \in Call |-> "uncalled"]
  /\ seq = [c \in Call |-> 0] /\ via = [c \in Call |-> 0]
  /\ fut = [c \in Call |-> No("none")] /\ answer = [c \in Call |-> No("none")]
  /\ pooled = {} /\ lastSeq = 0 /\ pending = [s \in Seq1 |-> 0]
  /\ due = {}

-------------------------------------------------------------------------------
(* The reader thread. *)

Wakeup(e) == ready' = Append(ready, e)

Post(e) == Len(ready) < MaxReady /\ Wakeup(e)

ReaderStops ==
  /\ rpc \in {"top", "retry"} /\ stopping
  /\ rpc' = "exited"
  /\ UNCHANGED <<mine, linkVars, ready, portVars, rxVars, stopPc, callVars, due>>

(* The device is missing, or it is there and its open raises. *)
OpenFails ==
  /\ "openFails" \in Faults
  /\ rpc = "opening"
  /\ \E why \in {"no_device", "open_failed"} : Post(Entry("on_error", 0, why))
  /\ rpc' = "retry"
  /\ UNCHANGED <<mine, linkVars, portVars, rxVars, stopPc, callVars, due>>

OpenStarts ==
  /\ rpc \in {"top", "retry"} /\ ~stopping
  /\ mine < MaxLinks
  /\ rpc' = "opening"
  /\ UNCHANGED <<mine, linkVars, ready, portVars, rxVars, stopPc, callVars, due>>

OpenReturns ==
  /\ rpc = "opening"
  /\ mine' = mine + 1 /\ open' = open \cup {mine + 1}
  /\ rpc' = "opened"
  /\ UNCHANGED <<stopping, link, lock, failing, ready, portVars, rxVars, stopPc, callVars, due>>

(* Mutant: the thread just ends. *)
OpenedTooLateLeaks ==
  /\ rpc = "opened" /\ stopping
  /\ rpc' = "exited"
  /\ UNCHANGED <<mine, linkVars, ready, portVars, rxVars, stopPc, callVars, due>>

(* stop() may be past its join: nobody else would close this handle. *)
OpenedTooLate ==
  /\ rpc = "opened" /\ stopping
  /\ open' = open \ {mine} /\ rpc' = "exited"
  /\ UNCHANGED <<mine, stopping, link, lock, failing, ready, portVars, rxVars, stopPc,
                 callVars, due>>

OpenedInTime ==
  /\ rpc = "opened" /\ ~stopping
  /\ rpc' = "publish"
  /\ UNCHANGED <<mine, linkVars, ready, portVars, rxVars, stopPc, callVars, due>>

Publish ==
  /\ rpc = "publish"
  /\ link' = mine
  /\ Post(Entry("on_connect", mine, "ok"))
  /\ rpc' = "reading"
  /\ UNCHANGED <<mine, stopping, open, lock, failing, portVars, rxVars, stopPc, callVars, due>>

(* A burst that holds the response to one command. *)
ReadResponse ==
  /\ rpc = "reading" /\ ~stopping /\ mine \in open
  /\ \E n \in due :
       /\ Post(Entry("on_bytes", n, "ok"))
       /\ due' = due \ {n}
  /\ UNCHANGED <<readerVars, linkVars, portVars, rxVars, stopPc, callVars>>

(* The device goes away, or stop() has closed the handle under the read. *)
ReadFails ==
  /\ rpc = "reading"
  /\ "readFails" \in Faults \/ mine \notin open
  /\ Post(Entry("on_error", 0, "read_error"))
  /\ rpc' = "closing"
  /\ UNCHANGED <<mine, linkVars, portVars, rxVars, stopPc, callVars, due>>

ReadingStops ==
  /\ rpc = "reading" /\ stopping
  /\ rpc' = "closing"
  /\ UNCHANGED <<mine, linkVars, ready, portVars, rxVars, stopPc, callVars, due>>

(* Mutants: the close does not wait for the write; it leaves the streak. *)
CloseUnlocked(l) ==
  /\ link' = 0 /\ failing' = FALSE
  /\ open' = open \ {l}

CloseKeepsStreak(l) ==
  /\ lock = 0
  /\ link' = 0 /\ failing' = failing
  /\ open' = open \ {l}

(* _close_link_locked: the handle goes, _link is cleared and the write streak *)
(* ends, all under the write lock.                                            *)
CloseLocked(l) ==
  /\ lock = 0
  /\ link' = 0 /\ failing' = FALSE
  /\ open' = open \ {l}

ReaderCloses ==
  /\ rpc = "closing"
  /\ CloseLocked(mine)
  /\ rpc' = "closed"
  /\ UNCHANGED <<mine, stopping, lock, ready, portVars, rxVars, stopPc, callVars, due>>

ReaderReports ==
  /\ rpc = "closed"
  /\ Post(Entry("on_disconnect", 0, "ok"))
  /\ rpc' = "retry"
  /\ UNCHANGED <<mine, linkVars, portVars, rxVars, stopPc, callVars, due>>

-------------------------------------------------------------------------------
(* The write pool: _write_bytes. *)

(* Under the lock: no link, no write. *)
WriteRefused(c) ==
  /\ c \in pooled /\ lock = 0 /\ link = 0
  /\ pooled' = pooled \ {c}
  /\ Wakeup(Entry("written", c, "failed"))
  /\ UNCHANGED <<readerVars, linkVars, portVars, rxVars, stopPc, called, kind, pc, seq, fut, via,
                 answer, lastSeq, pending, due>>

WriteStarts(c) ==
  /\ c \in pooled /\ lock = 0 /\ link # 0
  /\ lock' = c
  /\ via' = [via EXCEPT ![c] = link]
  /\ UNCHANGED <<readerVars, stopping, link, open, failing, ready, portVars, rxVars, stopPc,
                 called, kind, pc, seq, fut, answer, pooled, lastSeq, pending, due>>

WriteReturns(c, how) ==
  /\ lock = c
  /\ lock' = 0 /\ pooled' = pooled \ {c}
  /\ Wakeup(Entry("written", c, how))
  /\ UNCHANGED <<readerVars, stopping, link, open, portVars, rxVars, stopPc, called, kind, pc,
                 seq, fut, via, answer, lastSeq, pending>>

(* A raw line gets no response. *)
WriteLands(c) ==
  /\ WriteReturns(c, "ok")
  /\ failing' = FALSE
  /\ due' = IF kind[c] = "raw" THEN due ELSE due \cup {c}

WriteFails(c) ==
  /\ "writeFails" \in Faults
  /\ WriteReturns(c, "failed")
  /\ failing' = TRUE
  /\ UNCHANGED due

-------------------------------------------------------------------------------
(* Calls: tasks of the loop. Each kind of lock admits its holder alone and    *)
(* serves the others in order.                                                *)

LockOf(k) == IF k = "raw" THEN "raw_lock" ELSE "cmd_lock"

Queued(c) == pc[c] = "queued"

(* send_raw gives _raw_lock back before it logs its row. *)
HasLock(c) == pc[c] = "writing" \/ (pc[c] \in InFlight /\ kind[c] # "raw")

NextInLine(c) ==
  /\ Queued(c)
  /\ \A d \in Call \ {c} :
       LockOf(kind[d]) = LockOf(kind[c]) => ~HasLock(d) /\ (Queued(d) => d > c)

Ask ==
  /\ called < MaxCalls
  /\ called' = called + 1
  /\ \E k \in Kinds : kind' = [kind EXCEPT ![called + 1] = k]
  /\ pc' = [pc EXCEPT ![called + 1] = "queued"]
  /\ UNCHANGED <<readerVars, linkVars, ready, portVars, rxVars, stopPc, seq, fut, via, answer,
                 pooled, lastSeq, pending, due>>

(* Mutant: the wrap is a remainder, and goes through 0. *)
NextSeqModulo(s) == (s + 1) % SeqMax

NextSeq(s) == IF s + 1 > SeqMax THEN 1 ELSE s + 1

(* Responses that have left the board. *)
Arriving == {e.n : e \in {f \in Range(ready) : f.k \in {"on_bytes", "settle"}}}
              \cup Range(lines)

(* The entry is registered before the write. What a cancelled or timed out     *)
(* command still has under way is taken to be younger than a round of seqs.   *)
BeginCommand(c) ==
  /\ NextInLine(c) /\ kind[c] # "raw"
  /\ LET s == NextSeq(lastSeq) IN
     /\ \A n \in Arriving \cup pooled : seq[n] # s
     /\ due' = {n \in due : seq[n] # s}
     /\ lastSeq' = s
     /\ seq' = [seq EXCEPT ![c] = s]
     /\ pending' = [pending EXCEPT ![s] = c]
  /\ fut' = [fut EXCEPT ![c] = No("waits")]
  /\ pc' = [pc EXCEPT ![c] = "writing"] /\ pooled' = pooled \cup {c}
  /\ UNCHANGED <<readerVars, linkVars, ready, portVars, rxVars, stopPc, called, kind, via, answer>>

BeginRaw(c) ==
  /\ NextInLine(c) /\ kind[c] = "raw"
  /\ pc' = [pc EXCEPT ![c] = "writing"] /\ pooled' = pooled \cup {c}
  /\ UNCHANGED <<readerVars, linkVars, ready, portVars, rxVars, stopPc, called, kind, seq, fut,
                 via, answer, lastSeq, pending, due>>

(* Mutant: only a response takes an entry away. *)
ForgetNothing(c) == pending

(* self._pending.pop(seq, None) *)
Forget(c) == IF seq[c] = 0 THEN pending ELSE [pending EXCEPT ![seq[c]] = 0]

(* The call leaves its task with this outcome; its entry, if any, goes with it. *)
Leave(c, outcome) ==
  /\ pc' = [pc EXCEPT ![c] = "done"]
  /\ answer' = [answer EXCEPT ![c] = outcome]
  /\ pending' = Forget(c)
  /\ fut' = [fut EXCEPT ![c] = No("none")]

(* _identify resumes in the same step: a monitor's answer names the board. *)
Finish(c, outcome) ==
  /\ Leave(c, outcome)
  /\ target' = IF kind[c] = Ping /\ outcome.k = "resp" THEN via[c] ELSE target

TimesOut(c) ==
  /\ pc[c] = "awaiting"
  /\ Leave(c, No("timeout"))
  /\ UNCHANGED <<readerVars, linkVars, ready, portVars, rxVars, stopPc, called, kind, seq,
                 via, pooled, lastSeq, due>>

(* The client leaves: the cancellation lands at whatever the call awaits. A    *)
(* write that a worker has begun runs on. stop() cancels a ping it waited for. *)
Cancel(c) ==
  /\ "cancel" \in Faults
  /\ Queued(c) \/ pc[c] \in InFlight
  /\ kind[c] = Ping => stopPc = "stopped"
  /\ Leave(c, No("cancelled"))
  /\ pooled' \in {pooled, pooled \ ({c} \ {lock})}
  /\ UNCHANGED <<readerVars, linkVars, ready, portVars, rxVars, stopPc, called, kind, seq,
                 via, lastSeq, due>>

(* The store answers the add_line of the tx row. *)
Logs(c) ==
  /\ pc[c] = "logging"
  /\ \A e \in Range(ready) : ~(e.k = "logged" /\ e.n = c)
  /\ \E w \in {"ok"} \cup (IF "storeFails" \in Faults THEN {"failed"} ELSE {}) :
       Wakeup(Entry("logged", c, w))
  /\ UNCHANGED <<readerVars, linkVars, portVars, rxVars, stopPc, callVars, due>>

(* The store answers the row of the oldest received line. *)
StoresLine ==
  /\ lines # <<>> /\ consuming
  /\ \E w \in {"ok"} \cup (IF "storeFails" \in Faults THEN {"failed"} ELSE {}) :
       Wakeup(Entry("settle", Head(lines), w))
  /\ lines' = Tail(lines)
  /\ UNCHANGED <<readerVars, linkVars, portVars, consuming, stopPc, callVars, due>>

-------------------------------------------------------------------------------
(* What the loop runs from its ready queue. *)

(* Set a future and wake its task, if it waits on the future already. *)
Wakes(calls) ==
  [i \in 1 .. Cardinality(calls) |-> Entry("woken", SetToSeq(calls)[i], "ok")]

WaitsForFuture(c) == pc[c] = "awaiting" /\ fut[c].k = "waits"

(* _fail_pending *)
Registered == {c \in Call : \E s \in Seq1 : pending[s] = c}

(* Mutant: the table is emptied, the futures are not failed. *)
FailPendingSilently ==
  /\ fut' = fut
  /\ pending' = [s \in Seq1 |-> 0]

FailPending ==
  /\ fut' = [c \in Call |-> IF c \in Registered /\ fut[c].k = "waits"
                            THEN No("error") ELSE fut[c]]
  /\ pending' = [s \in Seq1 |-> 0]

FailedWakes == Wakes({c \in Registered : WaitsForFuture(c)})

OnConnect(e) ==
  /\ e.k = "on_connect"
  /\ connected' = TRUE /\ reason' = "none" /\ conn' = e.n /\ target' = 0
  /\ IF Identify /\ ~stopping /\ called < MaxCalls
     THEN /\ called' = called + 1
          /\ kind' = [kind EXCEPT ![called + 1] = Ping]
          /\ pc' = [pc EXCEPT ![called + 1] = "queued"]
     ELSE UNCHANGED <<called, kind, pc>>
  /\ ready' = Tail(ready)
  /\ UNCHANGED <<held, rxVars, seq, fut, via, answer, pooled, lastSeq, pending>>

(* Mutant: a port that is stopping does not look. *)
OnDisconnectUnlessStopping(e) ==
  /\ e.k = "on_disconnect"
  /\ ready' = Tail(ready)
  /\ IF stopping THEN UNCHANGED <<connected, target>> ELSE connected' = FALSE /\ target' = 0
  /\ UNCHANGED <<held, reason, conn, rxVars, callVars>>

OnDisconnect(e) ==
  /\ e.k = "on_disconnect"
  /\ connected' = FALSE /\ target' = 0
  /\ FailPending
  /\ ready' = Tail(ready) \o FailedWakes
  /\ UNCHANGED <<held, reason, conn, rxVars, called, kind, pc, seq, via, answer, pooled, lastSeq>>

(* Mutant: the reason is taken from failed attempts only. *)
OnErrorOfAttempt(e) ==
  /\ e.k = "on_error"
  /\ reason' = IF held \/ e.w = "read_error" THEN reason ELSE e.w
  /\ ready' = Tail(ready)
  /\ UNCHANGED <<connected, held, target, conn, rxVars, callVars>>

OnError(e) ==
  /\ e.k = "on_error"
  /\ reason' = IF held THEN reason ELSE e.w
  /\ ready' = Tail(ready)
  /\ UNCHANGED <<connected, held, target, conn, rxVars, callVars>>

OnBytes(e) ==
  /\ e.k = "on_bytes"
  /\ lines' = Append(lines, e.n)
  /\ ready' = Tail(ready)
  /\ UNCHANGED <<portVars, consuming, callVars>>

(* Mutant: commands are serialised, so a response is for the one in flight. *)
SettleAny(e) ==
  /\ e.k = "settle"
  /\ LET waiting == {c \in Registered : fut[c].k = "waits"} IN
     /\ pending' = [s \in Seq1 |-> 0]
     /\ fut' = [c \in Call |-> IF c \in waiting THEN Got(e.n) ELSE fut[c]]
     /\ ready' = Tail(ready) \o Wakes({c \in waiting : pc[c] = "awaiting"})
  /\ UNCHANGED <<portVars, rxVars, called, kind, pc, seq, via, answer, pooled, lastSeq>>

(* _settle_rx_line in the consumer, which stop() may have cancelled: the row   *)
(* is stored, or its storing failed, and the call registered under the         *)
(* response's seq, whichever it is, has its outcome.                           *)
Settle(e) ==
  /\ e.k = "settle"
  /\ LET p == pending[seq[e.n]] IN
     IF consuming /\ p # 0
     THEN /\ pending' = [pending EXCEPT ![seq[e.n]] = 0]
          /\ fut' = IF fut[p].k = "waits"
                    THEN [fut EXCEPT ![p] = IF e.w = "ok" THEN Got(e.n) ELSE No("error")]
                    ELSE fut
          /\ ready' = Tail(ready) \o Wakes(IF WaitsForFuture(p) THEN {p} ELSE {})
     ELSE /\ ready' = Tail(ready)
          /\ UNCHANGED <<pending, fut>>
  /\ UNCHANGED <<portVars, rxVars, called, kind, pc, seq, via, answer, pooled, lastSeq>>

(* Mutant: a write that fails is not raised to its caller. *)
WrittenSwallows(e) ==
  /\ e.k = "written"
  /\ ready' = Tail(ready)
  /\ IF pc[e.n] = "writing" /\ e.w = "ok"
     THEN pc' = [pc EXCEPT ![e.n] = "logging"] ELSE UNCHANGED pc
  /\ UNCHANGED <<portVars, rxVars, called, kind, seq, fut, via, answer, pooled, lastSeq, pending>>

(* The write came back. send_raw logs without its lock; both fail on the spot. *)
Written(e) ==
  /\ e.k = "written"
  /\ ready' = Tail(ready)
  /\ IF pc[e.n] # "writing" THEN UNCHANGED <<callVars, target>>
     ELSE /\ IF e.w = "ok"
             THEN /\ pc' = [pc EXCEPT ![e.n] = "logging"]
                  /\ UNCHANGED <<answer, fut, pending, target>>
             ELSE Finish(e.n, No("error"))
          /\ UNCHANGED <<called, kind, seq, via, pooled, lastSeq>>
  /\ UNCHANGED <<connected, held, reason, conn, rxVars>>

(* The tx row is stored: a command goes on to wait for its response, and does  *)
(* not stop there if it has come.                                              *)
Logged(e) ==
  /\ e.k = "logged"
  /\ ready' = Tail(ready)
  /\ IF pc[e.n] # "logging" THEN UNCHANGED <<callVars, target>>
     ELSE /\ CASE e.w = "failed" -> Finish(e.n, No("error"))
               [] e.w = "ok" /\ kind[e.n] = "raw" -> Finish(e.n, No("sent"))
               [] e.w = "ok" /\ kind[e.n] # "raw" /\ fut[e.n].k = "waits" ->
                    /\ pc' = [pc EXCEPT ![e.n] = "awaiting"]
                    /\ UNCHANGED <<answer, fut, pending, target>>
               [] OTHER -> Finish(e.n, fut[e.n])
          /\ UNCHANGED <<called, kind, seq, via, pooled, lastSeq>>
  /\ UNCHANGED <<connected, held, reason, conn, rxVars>>

(* The task of a command resumes from its wait with its future done. *)
Woken(e) ==
  /\ e.k = "woken"
  /\ ready' = Tail(ready)
  /\ IF pc[e.n] # "awaiting" THEN UNCHANGED <<callVars, target>>
     ELSE /\ Finish(e.n, fut[e.n])
          /\ UNCHANGED <<called, kind, seq, via, pooled, lastSeq>>
  /\ UNCHANGED <<connected, held, reason, conn, rxVars>>

RunReady ==
  /\ ready # <<>>
  /\ LET e == Head(ready) IN
       \/ OnConnect(e) \/ OnDisconnect(e) \/ OnError(e) \/ OnBytes(e)
       \/ Settle(e) \/ Written(e) \/ Logged(e) \/ Woken(e)
  /\ UNCHANGED <<readerVars, linkVars, stopPc, due>>

-------------------------------------------------------------------------------
(* hold() and stop() *)

(* hold() says why before it stops; detach only stops. *)
StopBegins ==
  /\ stopPc = "off"
  /\ \/ "detach" \in Faults /\ UNCHANGED <<held, reason>>
     \/ "hold" \in Faults /\ held' = TRUE /\ reason' = "manual"
  /\ stopping' = TRUE
  /\ stopPc' = "joining"
  /\ UNCHANGED <<readerVars, link, open, lock, failing, ready, connected, target, conn, rxVars,
                 callVars, due>>

Joined ==
  /\ stopPc = "joining" /\ rpc = "exited"
  /\ stopPc' = "ending"
  /\ UNCHANGED <<readerVars, linkVars, ready, portVars, rxVars, callVars, due>>

(* JOIN_TIMEOUT has passed: the handle is taken from the thread, if _link has it. *)
JoinTimesOut ==
  /\ "slowJoin" \in Faults
  /\ stopPc = "joining" /\ rpc # "exited"
  /\ stopPc' = IF link = 0 THEN "ending" ELSE "taking"
  /\ UNCHANGED <<readerVars, linkVars, ready, portVars, rxVars, callVars, due>>

StopCloses ==
  /\ stopPc = "taking"
  /\ CloseLocked(mine)
  /\ stopPc' = "ending"
  /\ UNCHANGED <<readerVars, stopping, lock, ready, portVars, rxVars, callVars, due>>

StopCancelsConsumer ==
  /\ stopPc = "ending"
  /\ consuming' = FALSE
  /\ stopPc' = "dropping"
  /\ UNCHANGED <<readerVars, linkVars, ready, portVars, lines, callVars, due>>

(* What the consumer never reached is dropped and the commands in flight fail. *)
StopEnds ==
  /\ stopPc = "dropping"
  /\ lines' = <<>>
  /\ FailPending
  /\ ready' = ready \o FailedWakes
  /\ stopPc' = "stopped"
  /\ UNCHANGED <<readerVars, linkVars, portVars, consuming, called, kind, pc, seq, via, answer,
                 pooled, lastSeq, due>>

-------------------------------------------------------------------------------
Reader == \/ ReaderStops \/ OpenStarts \/ OpenFails \/ OpenReturns
          \/ OpenedTooLate \/ OpenedInTime \/ Publish
          \/ ReadResponse \/ ReadFails \/ ReadingStops \/ ReaderCloses \/ ReaderReports

Pool(c) == WriteRefused(c) \/ WriteStarts(c) \/ WriteLands(c) \/ WriteFails(c)

Client(c) == BeginCommand(c) \/ BeginRaw(c) \/ TimesOut(c) \/ Cancel(c) \/ Logs(c)

Stop == StopBegins \/ Joined \/ JoinTimesOut \/ StopCloses \/ StopCancelsConsumer \/ StopEnds

Next ==
  \/ Reader
  \/ RunReady
  \/ Ask
  \/ \E c \in Call : Pool(c) \/ Client(c)
  \/ StoresLine
  \/ Stop

Spec == Init /\ [][Next]_vars

-------------------------------------------------------------------------------
(* Types and values. *)
TypeOK ==
  /\ rpc \in {"top", "opening", "opened", "publish", "reading", "closing", "closed", "retry",
              "exited"}
  /\ mine \in Link /\ link \in Link /\ conn \in Link /\ target \in Link
  /\ open \subseteq Link \ {0}
  /\ stopping \in BOOLEAN /\ failing \in BOOLEAN /\ connected \in BOOLEAN
  /\ held \in BOOLEAN /\ consuming \in BOOLEAN
  /\ lock \in 0 .. MaxCalls /\ called \in 0 .. MaxCalls /\ lastSeq \in 0 .. SeqMax
  /\ reason \in Reasons
  /\ ready \in Seq(Entries) /\ lines \in Seq(Call)
  /\ stopPc \in {"off", "joining", "taking", "ending", "dropping", "stopped"}
  /\ kind \in [Call -> {"cmd", "raw", Ping}]
  /\ pc \in [Call -> {"uncalled", "queued", "done"} \cup InFlight]
  /\ seq \in [Call -> 0 .. SeqMax]
  /\ \A c \in Call : kind[c] # "raw" /\ pc[c] \in InFlight => seq[c] # 0
  /\ via \in [Call -> Link]
  /\ fut \in [Call -> Outcome] /\ answer \in [Call -> Outcome]
  /\ pooled \subseteq Call /\ due \subseteq Call
  /\ pending \in [Seq1 -> 0 .. MaxCalls]

(* A command that is answered with a response is answered with its own: a     *)
(* response that comes after its command timed out, was cancelled or failed   *)
(* is stored and goes to nobody. That seqs come round again is BeginCommand's *)
(* assumption that nothing is under way for a whole round.                    *)
AnswersMatch == \A c \in Call : answer[c].k = "resp" => answer[c].of = c

(* The pending table holds exactly the commands that are in flight with no     *)
(* outcome, each under its own seq: no exit of send_command leaks an entry     *)
(* and nothing drops the entry of a command that still waits.                  *)
PendingExact ==
  /\ \A s \in Seq1 : pending[s] # 0 =>
       LET c == pending[s] IN seq[c] = s /\ pc[c] \in InFlight /\ fut[c].k = "waits"
  /\ \A c \in Call : pc[c] \in InFlight /\ fut[c].k = "waits" => pending[seq[c]] = c

Noticed(k) == \E e \in Range(ready) : e.k = k

(* A command whose line went out on a link that is gone does not wait out its  *)
(* timeout: the disconnect that fails it is on its way, or stop() is.          *)
DeadLinkNotAwaited ==
  \A c \in Call : WaitsForFuture(c) /\ via[c] # link =>
    \/ mine = via[c] /\ rpc \in {"reading", "closing", "closed"}
    \/ Noticed("on_disconnect")
    \/ stopPc \notin {"off", "stopped"}

(* A write inside the driver keeps its handle: neither the reader nor stop()   *)
(* closes it underneath.                                                       *)
NoCloseUnderWrite == lock # 0 => via[lock] \in open

(* A write streak belongs to the link that is there (SPEC 3.4: a disconnect    *)
(* ends it), although writes fail on other threads than the close runs on.     *)
HealthIsOfTheLink == failing => link # 0

(* When the reader has nothing left to report and nothing it posted waits, the *)
(* port's status says what the link is.                                        *)
LinkIsTold ==
  \/ rpc = "closed" \/ (rpc \in {"reading", "closing"} /\ mine \notin open)
  \/ Noticed("on_connect") \/ Noticed("on_disconnect")
  \/ connected = (link # 0) /\ (connected => conn = link)

(* A port that is down and still trying says why (SPEC 3.4).                   *)
ReasonWhileDown == ~connected /\ ~stopping => reason # "none"

(* The status of a port settles on the truth: connected or not as the link is, *)
(* and a reason whenever it is down and trying.                                *)
StatusSettles == LinkIsTold /\ ReasonWhileDown

(* A port closed on request reads `manual` (SPEC 3.4, and the comment of       *)
(* _on_error: "A held port keeps `manual`").                                   *)
HeldReadsManual == held /\ ~connected => reason = "manual"

(* The target is the name the board of this connection answered with, and null *)
(* until it answers (SPEC 3.4).                                                *)
TargetOfThisConnection == target # 0 => connected /\ target = conn

-------------------------------------------------------------------------------
(* The loop, the reader, stop() and the calls with the pool and the store      *)
(* behind them are scheduled: a device call returns, a timeout fires, the      *)
(* store answers. What a client or a device may do, it need not.               *)
Fairness ==
  /\ WF_vars(RunReady)
  /\ WF_vars(ReaderStops \/ OpenReturns \/ OpenedTooLate \/ OpenedInTime \/ Publish
               \/ ReadingStops \/ ReaderCloses \/ ReaderReports)
  /\ WF_vars(Joined \/ StopCloses \/ StopCancelsConsumer \/ StopEnds)
  /\ WF_vars(\/ StoresLine
             \/ \E c \in Call : \/ BeginCommand(c) \/ BeginRaw(c) \/ TimesOut(c) \/ Logs(c)
                              \/ Pool(c))

FairSpec == Spec /\ Fairness

(* Every command and raw write ends, whatever the link does and whoever stops  *)
(* the port.                                                                   *)
CallsEnd == \A c \in Call : pc[c] = "queued" ~> pc[c] = "done"

(* A port that is stopped lets go of the device for good, its thread ends and  *)
(* its status says so, even when the thread was stuck past the join.           *)
ReleasesDevice ==
  stopPc = "joining" ~> [](stopPc = "stopped" /\ rpc = "exited" /\ open = {} /\ ~connected)
===============================================================================
