------------------------------ MODULE StoreWriter -----------------------------
(***************************************************************************)
(* The capture's single writer (Store in host/mcuscope/store.py): the      *)
(* bounded write queue and the callers suspended on it, the writer task    *)
(* that drains it in batches, the id sequence it owns, the write-lock      *)
(* episodes of another process, and the ways a run ends: stop(),           *)
(* _fail_capture(), an exception that kills the task, a kill of the        *)
(* process.                                                                *)
(*                                                                         *)
(* Everything here runs on one asyncio loop. A coroutine runs until it     *)
(* suspends, so while the writer is between two of its awaits (Sync below) *)
(* no other coroutine takes a step; other processes may, and the process   *)
(* can be killed at any step.                                              *)
(***************************************************************************)
EXTENDS Naturals, Sequences, FiniteSets, SequencesExt

CONSTANTS
  Caller,       \* tasks that submit lines one after the other (a port's consumer)
  LinesEach,    \* bound: how many lines each of them has
  Notice,       \* sys rows the writer itself files (as many as the set holds)
  Barrier,      \* calls of drain_writes
  Sentinel,     \* the None that stop() queues
  NoTicket,     \* no barrier
  QueueMax,     \* _WRITE_QUEUE_MAX
  BatchMax,     \* _MAX_BATCH_ROWS
  MaxRuns,      \* bound: how often the daemon is started
  MaxForeign,   \* bound: rows another program puts in the file
  Trouble       \* the kinds of trouble a run of the model may meet

Troubles == {"badRow", "commitFails", "resyncFails", "foreignLock", "feedRaises",
             "captureFails", "stop", "kill", "giveUp", "withdraw"}

Line == Caller \X (1..LinesEach)
Req == Line \cup Notice
Ticket == Req \cup Barrier

ASSUME BoundsAssumption ==
  /\ LinesEach \in Nat /\ MaxRuns \in Nat /\ MaxForeign \in Nat
  /\ QueueMax \in Nat \ {0} /\ BatchMax \in Nat \ {0}
ASSUME TicketsAssumption ==
  /\ Line \cap Notice = {} /\ Req \cap Barrier = {}
  /\ Sentinel \notin Ticket /\ NoTicket \notin Ticket
ASSUME TroubleAssumption == Trouble \subseteq Troubles

VARIABLES
  \* the queue
  queue,        \* Store._queue: tickets and the sentinel, oldest first
  putters,      \* callers suspended in Queue.put, in the order they wait
  woken,        \* of those, the ones a get has woken but that have not run yet
  \* the callers
  sent,         \* lines each caller has handed over, over all runs
  fut,          \* each ticket's future, as its caller sees it
  ahead,        \* history: the lines queued or in the batch when a barrier was put
  \* the writer task
  pc,           \* where the task is
  doomed,       \* cancel() was called on it and has not been delivered
  batch,        \* the rows off the queue and not settled
  row,          \* the position in batch of a loop over it
  rows,         \* the rows to broadcast once the batch is answered
  last,         \* the sentinel was absorbed: exit after this batch
  barrier,      \* the barrier absorbed behind this batch
  lockedSince,  \* Store.db_locked_since is set
  writeErrors,  \* Store.write_errors
  \* ids and the file
  nextId,       \* Store._next_id
  txId,         \* ids given in the open transaction; kept as `results` until settled
  rowId,        \* ids of the committed rows
  foreign,      \* ids of rows another program committed to the same file
  foreignLock,  \* another process holds the file's write lock
  \* the feed and the daemon
  feed,         \* rows broadcast in this run
  feedClosed,   \* stop_subscribers has run
  base,         \* history: nextId when this run started
  life,         \* the daemon's lifecycle
  runs          \* how often it was started

queueVars  == <<queue, putters, woken>>
callerVars == <<sent, ahead>>
taskVars   == <<pc, doomed, batch, row, rows, last, barrier>>
fileVars   == <<nextId, txId, rowId, foreign>>
runVars    == <<base, life, runs>>
feedVars   == <<feed, feedClosed>>
vars == <<queueVars, callerVars, fut, taskVars, lockedSince, writeErrors,
          fileVars, foreignLock, feedVars, runVars>>

-------------------------------------------------------------------------------
(* Where the writer is suspended, where its task has ended, and where it is
   running, so that no other coroutine is. *)
Suspended == {"wait", "hold", "busy"}
Ended     == {"exited", "cancelled", "died", "dead"}
Sync      == {"top", "absorb", "stamp", "insert", "rows", "commit", "settle"}

WriterAlive == pc \notin Ended
LoopFree    == pc \in Suspended \cup Ended
Serving     == life \in {"up", "failing", "failed", "stopping"}

Full == Len(queue) >= QueueMax

(* Every id in the file. *)
Ids == foreign \cup {rowId[r] : r \in Req}

(* Mutant: the sequence is seeded from a count of the rows. *)
TopIdByCount == Cardinality(Ids)

TopId == Max({0} \cup Ids)

Init ==
  /\ queue = <<>> /\ putters = <<>> /\ woken = <<>>
  /\ sent = [c \in Caller |-> 0]
  /\ ahead = [b \in Barrier |-> {}]
  /\ fut = [t \in Ticket |-> "none"]
  /\ pc = "top" /\ doomed = FALSE /\ batch = <<>> /\ row = 1 /\ rows = <<>>
  /\ last = FALSE /\ barrier = NoTicket
  /\ lockedSince = FALSE /\ writeErrors = 0
  /\ nextId = 1
  /\ txId = [r \in Req |-> 0] /\ rowId = [r \in Req |-> 0]
  /\ foreign = {} /\ foreignLock = FALSE
  /\ feed = <<>> /\ feedClosed = FALSE
  /\ base = 1 /\ life = "up" /\ runs = 1

-------------------------------------------------------------------------------
(* The asyncio queue. *)

(* put_nowait while there is room, else the caller suspends in Queue.put. *)
Put(x) ==
  IF Full
  THEN putters' = Append(putters, x) /\ UNCHANGED <<queue, woken>>
  ELSE queue' = Append(queue, x) /\ UNCHANGED <<putters, woken>>

(* get_nowait: the head leaves, and the longest-suspended put is woken. *)
Get ==
  /\ queue' = Tail(queue)
  /\ IF putters = <<>>
     THEN UNCHANGED <<putters, woken>>
     ELSE putters' = Tail(putters) /\ woken' = Append(woken, Head(putters))

(* A woken put runs: it queues its item, or waits again if the room has
   been taken meanwhile. *)
PutResumes ==
  /\ LoopFree /\ woken # <<>>
  /\ IF Full
     THEN putters' = Append(putters, Head(woken)) /\ UNCHANGED queue
     ELSE queue' = Append(queue, Head(woken)) /\ UNCHANGED putters
  /\ woken' = Tail(woken)
  /\ UNCHANGED <<callerVars, fut, taskVars, lockedSince, writeErrors, fileVars,
                 foreignLock, feedVars, runVars>>

-------------------------------------------------------------------------------
(* The callers. *)

(* Mutant: a put is fired and forgotten. *)
WaitingForgotten(c) == FALSE

(* A task's last put is still suspended, so it submits nothing. *)
Waiting(c) == \E x \in ToSet(putters) \cup ToSet(woken) : x \in Line /\ x[1] = c

(* submit_line_nowait / submit_line, with the refusal of _write_req. *)
Submit(c) ==
  /\ LoopFree /\ Serving
  /\ sent[c] < LinesEach /\ ~Waiting(c)
  /\ sent' = [sent EXCEPT ![c] = @ + 1]
  /\ LET x == <<c, sent[c] + 1>> IN
     IF WriterAlive
     THEN /\ fut' = [fut EXCEPT ![x] = "pending"]
          /\ Put(x)
          /\ UNCHANGED writeErrors
     ELSE /\ fut' = [fut EXCEPT ![x] = "refused"]
          /\ writeErrors' = writeErrors + 1
          /\ UNCHANGED queueVars
  /\ UNCHANGED <<ahead, taskVars, lockedSince, fileVars, foreignLock, feedVars, runVars>>

(* drain_writes: a no-op with no writer running. *)
DrainWrites(b) ==
  /\ LoopFree /\ Serving /\ fut[b] = "none"
  /\ IF WriterAlive
     THEN /\ fut' = [fut EXCEPT ![b] = "pending"]
          /\ Put(b)
          /\ ahead' = [ahead EXCEPT ![b] = (ToSet(queue) \cup ToSet(batch)) \cap Req]
     ELSE /\ fut' = [fut EXCEPT ![b] = "row"]
          /\ UNCHANGED <<ahead, queueVars>>
  /\ UNCHANGED <<sent, taskVars, lockedSince, writeErrors, fileVars, foreignLock,
                 feedVars, runVars>>

(* A caller awaiting its row is cancelled (a client hangs up): awaiting a
   bare future cancels the future; the request stays where it is. *)
GiveUp(x) ==
  /\ "giveUp" \in Trouble /\ LoopFree
  /\ x \in Line \cup Barrier
  /\ fut[x] = "pending" /\ x \notin ToSet(putters) \cup ToSet(woken)
  /\ fut' = [fut EXCEPT ![x] = "cancelled"]
  /\ UNCHANGED <<queueVars, callerVars, taskVars, lockedSince, writeErrors, fileVars,
                 foreignLock, feedVars, runVars>>

(* A caller suspended in Queue.put is cancelled: its item is never queued. *)
Withdraw(x) ==
  /\ "withdraw" \in Trouble /\ LoopFree
  /\ x \in Ticket
  /\ fut' = [fut EXCEPT ![x] = "withdrawn"]
  /\ \/ \E i \in DOMAIN putters :
          /\ putters[i] = x
          /\ putters' = RemoveAt(putters, i)
          /\ UNCHANGED woken
     \/ \E i \in DOMAIN woken :
          /\ woken[i] = x
          /\ IF Full \/ putters = <<>>      \* the room passes to the next one waiting
             THEN /\ woken' = RemoveAt(woken, i)
                  /\ UNCHANGED putters
             ELSE /\ woken' = Append(RemoveAt(woken, i), Head(putters))
                  /\ putters' = Tail(putters)
  /\ UNCHANGED <<queue, callerVars, taskVars, lockedSince, writeErrors, fileVars,
                 foreignLock, feedVars, runVars>>

-------------------------------------------------------------------------------
(* The writer task. Told is what the tickets read once the lines in failed
   got an error and the tickets in served their result; a future that is
   done already, cancelled included, is left alone. *)

Told(failed, served) ==
  [t \in Ticket |-> CASE fut[t] = "pending" /\ t \in failed -> "error"
                      [] fut[t] = "pending" /\ t \in served \ failed -> "row"
                      [] OTHER -> fut[t]]

(* Mutant: whatever was queued counts as a lost line. *)
PendingAnything(s) == ToSet(s)

(* The lines in a sequence that somebody still waits for. *)
Pending(s) == {x \in ToSet(s) \cap Req : fut[x] = "pending"}

NoRows == [r \in Req |-> 0]

(* Every exit from a batch: the `finally` releases the barrier with Told;
   the locals go, and the task goes back for more or returns. *)
BatchOver(next) ==
  /\ pc' = next
  /\ batch' = <<>> /\ row' = 1 /\ rows' = <<>>
  /\ last' = FALSE /\ barrier' = NoTicket
  /\ txId' = NoRows
  /\ UNCHANGED doomed

AfterBatch == IF last THEN "exited" ELSE "top"

(* queue.get() with nothing queued suspends; otherwise it returns at once. *)
Wait ==
  /\ pc = "top" /\ queue = <<>>
  /\ pc' = "wait"
  /\ UNCHANGED <<queueVars, callerVars, fut, doomed, batch, row, rows, last, barrier,
                 lockedSince, writeErrors, fileVars, foreignLock, feedVars, runVars>>

CanTake == pc = "top" \/ (pc = "wait" /\ ~doomed)

TakeSentinel ==
  /\ CanTake /\ queue # <<>> /\ Head(queue) = Sentinel
  /\ Get
  /\ pc' = "exited"
  /\ UNCHANGED <<callerVars, fut, doomed, batch, row, rows, last, barrier, lockedSince,
                 writeErrors, fileVars, foreignLock, feedVars, runVars>>

TakeBarrier ==
  /\ CanTake /\ queue # <<>> /\ Head(queue) \in Barrier
  /\ Get
  /\ fut' = Told({}, {Head(queue)})
  /\ pc' = "top"
  /\ UNCHANGED <<callerVars, doomed, batch, row, rows, last, barrier, lockedSince,
                 writeErrors, fileVars, foreignLock, feedVars, runVars>>

(* The first line of a batch. The commit hold of _commit_hold is a choice
   here (the ingest rate is not modelled), never taken with a full batch
   already waiting. *)
TakeLine ==
  /\ CanTake /\ queue # <<>> /\ Head(queue) \in Req
  /\ Get
  /\ batch' = <<Head(queue)>>
  /\ pc' \in {"absorb"} \cup (IF Len(queue) < BatchMax THEN {"hold"} ELSE {})
  /\ UNCHANGED <<callerVars, fut, doomed, row, rows, last, barrier, lockedSince,
                 writeErrors, fileVars, foreignLock, feedVars, runVars>>

HoldOver ==
  /\ pc = "hold" /\ ~doomed
  /\ pc' = "absorb"
  /\ UNCHANGED <<queueVars, callerVars, fut, doomed, batch, row, rows, last, barrier,
                 lockedSince, writeErrors, fileVars, foreignLock, feedVars, runVars>>

(* Absorbing what else is queued, up to the cap, the sentinel or a barrier. *)
Absorbing == pc = "absorb" /\ Len(batch) < BatchMax /\ queue # <<>>

(* Mutant: the absorb loop does not look at what it took. *)
AbsorbLineUnchecked ==
  /\ Absorbing
  /\ Get
  /\ batch' = Append(batch, Head(queue))
  /\ UNCHANGED <<callerVars, fut, pc, doomed, row, rows, last, barrier, lockedSince,
                 writeErrors, fileVars, foreignLock, feedVars, runVars>>

AbsorbLine ==
  /\ Absorbing /\ Head(queue) \in Req
  /\ Get
  /\ batch' = Append(batch, Head(queue))
  /\ UNCHANGED <<callerVars, fut, pc, doomed, row, rows, last, barrier, lockedSince,
                 writeErrors, fileVars, foreignLock, feedVars, runVars>>

AbsorbSentinel ==
  /\ Absorbing /\ Head(queue) = Sentinel
  /\ Get
  /\ last' = TRUE /\ pc' = "stamp"
  /\ UNCHANGED <<callerVars, fut, doomed, batch, row, rows, barrier, lockedSince,
                 writeErrors, fileVars, foreignLock, feedVars, runVars>>

(* Mutant: the barrier is released when it is absorbed. *)
AbsorbBarrierEarly ==
  /\ Absorbing /\ Head(queue) \in Barrier
  /\ Get
  /\ fut' = Told({}, {Head(queue)}) /\ pc' = "stamp"
  /\ UNCHANGED <<callerVars, doomed, batch, row, rows, last, barrier, lockedSince,
                 writeErrors, fileVars, foreignLock, feedVars, runVars>>

AbsorbBarrier ==
  /\ Absorbing /\ Head(queue) \in Barrier
  /\ Get
  /\ barrier' = Head(queue) /\ pc' = "stamp"
  /\ UNCHANGED <<callerVars, fut, doomed, batch, row, rows, last, lockedSince,
                 writeErrors, fileVars, foreignLock, feedVars, runVars>>

AbsorbEnds ==
  /\ pc = "absorb" /\ ~Absorbing
  /\ pc' = "stamp"
  /\ UNCHANGED <<queueVars, callerVars, fut, doomed, batch, row, rows, last, barrier,
                 lockedSince, writeErrors, fileVars, foreignLock, feedVars, runVars>>

(* _check_stamp_order: the batch goes on as it is, or with a notice. *)
StampCheck ==
  /\ pc = "stamp"
  /\ pc' = "insert"
  /\ \/ UNCHANGED <<batch, fut>>
     \/ \E n \in Notice :
          /\ fut[n] = "none"
          /\ fut' = [fut EXCEPT ![n] = "pending"]
          /\ batch' = Append(batch, n)
  /\ UNCHANGED <<queueVars, callerVars, doomed, row, rows, last, barrier, lockedSince,
                 writeErrors, fileVars, foreignLock, feedVars, runVars>>

-------------------------------------------------------------------------------
(* Inserting. Ids are given in Python, in batch order, from nextId on. *)

(* Mutant: the first id of a batch is the last one given. *)
GivenOffByOne(reqs) ==
  [r \in Req |-> IF r \in ToSet(reqs)
                 THEN nextId - 2 + (CHOOSE i \in DOMAIN reqs : reqs[i] = r)
                 ELSE 0]

(* The ids a batch is given. *)
Given(reqs) ==
  [r \in Req |-> IF r \in ToSet(reqs)
                 THEN nextId - 1 + (CHOOSE i \in DOMAIN reqs : reqs[i] = r)
                 ELSE 0]

Collides(n) == \E id \in nextId .. nextId + n - 1 : id \in Ids

(* With a lock episode open, the row that closes it joins the batch (while
   the bound on notices leaves one). *)
Closing ==
  IF lockedSince THEN {<<n>> : n \in {x \in Notice : fut[x] = "none"}} ELSE {}

InsertBatch ==
  /\ pc = "insert" /\ ~foreignLock
  /\ \E notice \in IF Closing = {} THEN {<<>>} ELSE Closing :
       /\ ~Collides(Len(batch) + Len(notice))
       /\ batch' = batch \o notice
       /\ fut' = [t \in Ticket |-> IF t \in ToSet(notice) THEN "pending" ELSE fut[t]]
  /\ txId' = Given(batch')
  /\ nextId' = nextId + Len(batch')
  /\ lockedSince' = FALSE
  /\ pc' = "commit"
  /\ UNCHANGED <<queueVars, callerVars, doomed, row, rows, last, barrier, writeErrors,
                 rowId, foreign, foreignLock, feedVars, runVars>>

(* SQLITE_BUSY: the attempt is rolled back, the batch kept, the task sleeps. *)
InsertBusy ==
  /\ pc = "insert" /\ foreignLock
  /\ lockedSince' = TRUE
  /\ pc' = "busy"
  /\ UNCHANGED <<queueVars, callerVars, fut, doomed, batch, row, rows, last, barrier,
                 writeErrors, fileVars, foreignLock, feedVars, runVars>>

RetryInsert ==
  /\ pc = "busy" /\ ~doomed
  /\ pc' = "insert"
  /\ UNCHANGED <<queueVars, callerVars, fut, doomed, batch, row, rows, last, barrier,
                 lockedSince, writeErrors, fileVars, foreignLock, feedVars, runVars>>

(* Any other exception rolls the batch back and starts over row by row, the
   id sequence resynced past the rows in the file. It is raised before
   nextId moves, or by the closing notice, after it moved and the episode
   was closed. *)
InsertRaises(spent) ==
  /\ pc = "insert" /\ ~foreignLock
  /\ "badRow" \in Trouble \/ Collides(Len(batch) + 1)
  /\ \/ spent = 0 /\ UNCHANGED lockedSince
     \/ spent = Len(batch) /\ lockedSince /\ lockedSince' = FALSE

ToRows ==
  /\ \E spent \in {0, Len(batch)} :
       InsertRaises(spent) /\ nextId' = Max({nextId + spent, TopId + 1})
  /\ pc' = "rows"
  /\ UNCHANGED <<queueVars, callerVars, fut, doomed, batch, row, rows, last, barrier,
                 writeErrors, txId, rowId, foreign, foreignLock, feedVars, runVars>>

(* The resync itself fails: the whole batch is failed and the task goes on. *)
ResyncFails ==
  /\ "resyncFails" \in Trouble
  /\ \E spent \in {0, Len(batch)} : InsertRaises(spent) /\ nextId' = nextId + spent
  /\ fut' = Told(ToSet(batch), {barrier})
  /\ writeErrors' = writeErrors + Len(batch)
  /\ BatchOver(AfterBatch)
  /\ UNCHANGED <<queueVars, callerVars, rowId, foreign, foreignLock, feedVars, runVars>>

(* _insert_individually: a row that goes in takes the next id ... *)
RowInserted ==
  /\ pc = "rows" /\ row <= Len(batch)
  /\ ~foreignLock /\ nextId \notin Ids
  /\ txId' = [txId EXCEPT ![batch[row]] = nextId]
  /\ nextId' = nextId + 1
  /\ row' = row + 1
  /\ UNCHANGED <<queueVars, callerVars, fut, pc, doomed, batch, rows, last, barrier,
                 lockedSince, writeErrors, rowId, foreign, foreignLock, feedVars,
                 runVars>>

(* ... and one that raises fails alone, whatever it raised. *)
RowRaises ==
  /\ pc = "rows" /\ row <= Len(batch)
  /\ "badRow" \in Trouble \/ foreignLock \/ nextId \in Ids
  /\ row' = row + 1
  /\ UNCHANGED <<queueVars, callerVars, fut, pc, doomed, batch, rows, last, barrier,
                 lockedSince, writeErrors, fileVars, foreignLock, feedVars, runVars>>

RowsOver ==
  /\ pc = "rows" /\ row > Len(batch)
  /\ pc' = "commit"
  /\ UNCHANGED <<queueVars, callerVars, fut, doomed, batch, row, rows, last, barrier,
                 lockedSince, writeErrors, fileVars, foreignLock, feedVars, runVars>>

Commit ==
  /\ pc = "commit"
  /\ rowId' = [r \in Req |-> IF txId[r] # 0 THEN txId[r] ELSE rowId[r]]
  /\ pc' = "settle" /\ row' = 1
  /\ UNCHANGED <<queueVars, callerVars, fut, doomed, batch, rows, last, barrier,
                 lockedSince, writeErrors, nextId, txId, foreign, foreignLock,
                 feedVars, runVars>>

(* Mutant: no `finally`, a failed commit leaves the barrier waiting. *)
CommitFailsKeepsBarrier ==
  /\ pc = "commit" /\ "commitFails" \in Trouble
  /\ fut' = Told(ToSet(batch), {})
  /\ writeErrors' = writeErrors + Len(batch)
  /\ BatchOver(AfterBatch)
  /\ UNCHANGED <<queueVars, callerVars, lockedSince, nextId, rowId, foreign,
                 foreignLock, feedVars, runVars>>

(* Mutant: the failed commit is noticed by nobody. *)
CommitFailsUnseen ==
  /\ pc = "commit" /\ "commitFails" \in Trouble
  /\ fut' = Told({}, ToSet(batch) \cup {barrier})
  /\ UNCHANGED writeErrors
  /\ BatchOver(AfterBatch)
  /\ UNCHANGED <<queueVars, callerVars, lockedSince, nextId, rowId, foreign,
                 foreignLock, feedVars, runVars>>

(* A failed commit is rolled back; its ids stay spent. *)
CommitFails ==
  /\ pc = "commit" /\ "commitFails" \in Trouble
  /\ fut' = Told(ToSet(batch), {barrier})
  /\ writeErrors' = writeErrors + Len(batch)
  /\ BatchOver(AfterBatch)
  /\ UNCHANGED <<queueVars, callerVars, lockedSince, nextId, rowId, foreign,
                 foreignLock, feedVars, runVars>>

(* Mutant: a row that failed alone is answered like the rest of its batch. *)
AnswerRowAlike ==
  /\ pc = "settle" /\ row <= Len(batch)
  /\ fut' = Told({}, {batch[row]})
  /\ rows' = Append(rows, batch[row])
  /\ row' = row + 1
  /\ UNCHANGED <<queueVars, callerVars, pc, doomed, batch, last, barrier, lockedSince,
                 writeErrors, fileVars, foreignLock, feedVars, runVars>>

(* After the commit each caller in turn is answered: with an error where its
   row did not go in, else with the row, which is kept for the broadcast. *)
AnswerRow ==
  /\ pc = "settle" /\ row <= Len(batch)
  /\ IF txId[batch[row]] = 0
     THEN /\ fut' = Told({batch[row]}, {})
          /\ writeErrors' = writeErrors + 1
          /\ UNCHANGED rows
     ELSE /\ fut' = Told({}, {batch[row]})
          /\ rows' = Append(rows, batch[row])
          /\ UNCHANGED writeErrors
  /\ row' = row + 1
  /\ UNCHANGED <<queueVars, callerVars, pc, doomed, batch, last, barrier, lockedSince,
                 fileVars, foreignLock, feedVars, runVars>>

(* Mutant: one bad row costs the batch its broadcast. *)
BroadcastAllOrNothing ==
  /\ pc = "settle" /\ row > Len(batch)
  /\ feed' = IF feedClosed \/ rows # batch THEN feed ELSE feed \o rows
  /\ fut' = Told({}, {barrier})
  /\ BatchOver(AfterBatch)
  /\ UNCHANGED <<queueVars, callerVars, lockedSince, writeErrors, nextId, rowId, foreign,
                 foreignLock, feedClosed, runVars>>

(* ... and then the rows are broadcast at once. *)
Broadcast ==
  /\ pc = "settle" /\ row > Len(batch)
  /\ feed' = IF feedClosed THEN feed ELSE feed \o rows
  /\ fut' = Told({}, {barrier})
  /\ BatchOver(AfterBatch)
  /\ UNCHANGED <<queueVars, callerVars, lockedSince, writeErrors, nextId, rowId, foreign,
                 foreignLock, feedClosed, runVars>>

(* Mutant: a task that dies of its broadcast answers every caller anew. *)
BroadcastRaisesAnew ==
  /\ pc = "settle" /\ row > Len(batch)
  /\ "feedRaises" \in Trouble /\ ~feedClosed
  /\ fut' = [Told({}, {barrier}) EXCEPT ![batch[1]] = "error"]
  /\ BatchOver("died")
  /\ UNCHANGED <<queueVars, callerVars, lockedSince, writeErrors, nextId, rowId, foreign,
                 foreignLock, feedVars, runVars>>

(* The broadcast raises, which nothing guards: the task dies. Every caller
   of the batch has been answered by then. *)
BroadcastRaises ==
  /\ pc = "settle" /\ row > Len(batch)
  /\ "feedRaises" \in Trouble /\ ~feedClosed
  /\ fut' = Told({}, {barrier})
  /\ BatchOver("died")
  /\ UNCHANGED <<queueVars, callerVars, lockedSince, writeErrors, nextId, rowId, foreign,
                 foreignLock, feedVars, runVars>>

-------------------------------------------------------------------------------
(* cancel() delivered at the await the task is suspended on. *)

CancelWaiting ==
  /\ doomed /\ pc = "wait"
  /\ pc' = "cancelled"
  /\ UNCHANGED <<queueVars, callerVars, fut, doomed, batch, row, rows, last, barrier,
                 lockedSince, writeErrors, fileVars, foreignLock, feedVars, runVars>>

(* Mutant: the held line, off the queue already, is forgotten. *)
CancelHoldingSilent ==
  /\ doomed /\ pc = "hold"
  /\ UNCHANGED <<fut, writeErrors>>
  /\ BatchOver("cancelled")
  /\ UNCHANGED <<queueVars, callerVars, lockedSince, nextId, rowId, foreign,
                 foreignLock, feedVars, runVars>>

(* The hold lost its line: it is failed and counted. *)
CancelHolding ==
  /\ doomed /\ pc = "hold"
  /\ fut' = Told(ToSet(batch), {})
  /\ writeErrors' = writeErrors + 1
  /\ BatchOver("cancelled")
  /\ UNCHANGED <<queueVars, callerVars, lockedSince, nextId, rowId, foreign,
                 foreignLock, feedVars, runVars>>

(* The batch under retry is failed, its barrier released. *)
CancelRetrying ==
  /\ doomed /\ pc = "busy"
  /\ fut' = Told(ToSet(batch), {barrier})
  /\ writeErrors' = writeErrors + Cardinality(Pending(batch))
  /\ BatchOver("cancelled")
  /\ UNCHANGED <<queueVars, callerVars, lockedSince, nextId, rowId, foreign,
                 foreignLock, feedVars, runVars>>

-------------------------------------------------------------------------------
(* The ends of a run. _fail_queued empties the queue without suspending;
   each get wakes one suspended put, which runs only afterwards. *)
FailQueued ==
  LET n == Min({Len(queue), Len(putters)}) IN
  /\ queue' = <<>>
  /\ woken' = woken \o SubSeq(putters, 1, n)
  /\ putters' = SubSeq(putters, n + 1, Len(putters))
  /\ fut' = Told(ToSet(queue) \cap Req, ToSet(queue) \cap Barrier)
  /\ writeErrors' = writeErrors + Cardinality(Pending(queue))

(* The done-callback of a task that died of an exception. *)
WriterExited ==
  /\ pc = "died"
  /\ FailQueued
  /\ pc' = "dead"
  /\ UNCHANGED <<callerVars, doomed, batch, row, rows, last, barrier, lockedSince, fileVars,
                 foreignLock, feedVars, runVars>>

Joined == pc \in Ended \ {"died"}

(* _fail_capture, up to its await of the writer, and from there on. *)
FailCapture ==
  /\ "captureFails" \in Trouble /\ LoopFree /\ life = "up"
  /\ life' = "failing"
  /\ doomed' = (doomed \/ WriterAlive)
  /\ UNCHANGED <<queueVars, callerVars, fut, pc, batch, row, rows, last, barrier,
                 lockedSince, writeErrors, fileVars, foreignLock, feedVars, base, runs>>

CaptureFailed ==
  /\ life = "failing" /\ Joined
  /\ FailQueued
  /\ life' = "failed"
  /\ UNCHANGED <<callerVars, taskVars, lockedSince, fileVars, foreignLock, feedVars,
                 base, runs>>

(* stop(): the sentinel, or a cancel when the queue has no room for it; then
   the join, its 5 s deadline, and the rest. *)
Stop ==
  /\ "stop" \in Trouble /\ LoopFree /\ life \in {"up", "failed"}
  /\ life' = "stopping"
  /\ IF Full
     THEN doomed' = (doomed \/ WriterAlive) /\ UNCHANGED queue
     ELSE queue' = Append(queue, Sentinel) /\ UNCHANGED doomed
  /\ UNCHANGED <<putters, woken, callerVars, fut, pc, batch, row, rows, last, barrier,
                 lockedSince, writeErrors, fileVars, foreignLock, feedVars, base, runs>>

StopDeadline ==
  /\ life = "stopping" /\ LoopFree /\ WriterAlive /\ ~doomed
  /\ doomed' = TRUE
  /\ UNCHANGED <<queueVars, callerVars, fut, pc, batch, row, rows, last, barrier,
                 lockedSince, writeErrors, fileVars, foreignLock, feedVars, runVars>>

Stopped ==
  /\ life = "stopping" /\ Joined
  /\ FailQueued
  /\ life' = "stopped" /\ feedClosed' = TRUE
  /\ UNCHANGED <<callerVars, taskVars, lockedSince, fileVars, foreignLock, feed, base, runs>>

(* stop_subscribers from the exit hook, ahead of stop(). *)
CloseFeed ==
  /\ "stop" \in Trouble /\ LoopFree /\ Serving /\ ~feedClosed
  /\ feedClosed' = TRUE
  /\ UNCHANGED <<queueVars, callerVars, fut, taskVars, lockedSince, writeErrors,
                 fileVars, foreignLock, feed, runVars>>

(* What a process forgets when it ends. *)
MemoryLost ==
  /\ queue' = <<>> /\ putters' = <<>> /\ woken' = <<>>
  /\ doomed' = FALSE /\ batch' = <<>> /\ row' = 1 /\ rows' = <<>>
  /\ last' = FALSE /\ barrier' = NoTicket
  /\ lockedSince' = FALSE /\ writeErrors' = 0
  /\ txId' = NoRows
  /\ feed' = <<>> /\ feedClosed' = FALSE
  /\ fut' = [t \in Ticket |-> IF fut[t] \in {"none", "row"} THEN fut[t] ELSE "gone"]
  /\ ahead' = [b \in Barrier |-> {}]

(* The process is killed, between any two statements: an open transaction
   is gone and with it everyone who was waiting. *)
Kill ==
  /\ "kill" \in Trouble /\ life \notin {"stopped", "down"}
  /\ life' = "down" /\ pc' = "down"
  /\ MemoryLost
  /\ nextId' = 1 /\ base' = 1
  /\ UNCHANGED <<sent, rowId, foreign, foreignLock, runs>>

(* start(): the id sequence is seeded from the file, the rest is new. *)
Start ==
  /\ life \in {"stopped", "down"} /\ runs < MaxRuns /\ ~foreignLock
  /\ life' = "up" /\ runs' = runs + 1
  /\ pc' = "top"
  /\ MemoryLost
  /\ nextId' = TopId + 1 /\ base' = TopId + 1
  /\ UNCHANGED <<sent, rowId, foreign, foreignLock>>

-------------------------------------------------------------------------------
(* Other programs with the file open. They cannot take the write lock while
   the writer's transaction holds it. *)

TxOpen == pc \in {"rows", "commit"} /\ \E r \in Req : txId[r] # 0

ForeignLock ==
  /\ "foreignLock" \in Trouble /\ ~foreignLock /\ ~TxOpen
  /\ foreignLock' = TRUE
  /\ UNCHANGED <<queueVars, callerVars, fut, taskVars, lockedSince, writeErrors,
                 fileVars, feedVars, runVars>>

ForeignUnlock ==
  /\ foreignLock /\ foreignLock' = FALSE
  /\ UNCHANGED <<queueVars, callerVars, fut, taskVars, lockedSince, writeErrors,
                 fileVars, feedVars, runVars>>

ForeignRow ==
  /\ Cardinality(foreign) < MaxForeign /\ ~foreignLock /\ ~TxOpen
  /\ foreign' = foreign \cup {TopId + 1}
  /\ UNCHANGED <<queueVars, callerVars, fut, taskVars, lockedSince, writeErrors,
                 nextId, txId, rowId, foreignLock, feedVars, runVars>>

-------------------------------------------------------------------------------
Callers ==
  \/ PutResumes
  \/ \E c \in Caller : Submit(c)
  \/ \E b \in Barrier : DrainWrites(b)
  \/ \E x \in Ticket : GiveUp(x) \/ Withdraw(x)

Writer ==
  \/ Wait \/ TakeSentinel \/ TakeBarrier \/ TakeLine \/ HoldOver
  \/ AbsorbLine \/ AbsorbSentinel \/ AbsorbBarrier \/ AbsorbEnds \/ StampCheck
  \/ InsertBatch \/ InsertBusy \/ RetryInsert \/ ToRows \/ ResyncFails
  \/ RowInserted \/ RowRaises \/ RowsOver
  \/ Commit \/ CommitFails \/ AnswerRow \/ Broadcast \/ BroadcastRaises
  \/ CancelWaiting \/ CancelHolding \/ CancelRetrying \/ WriterExited

Daemon ==
  \/ FailCapture \/ CaptureFailed
  \/ Stop \/ StopDeadline \/ Stopped \/ CloseFeed
  \/ Kill \/ Start

Others == ForeignLock \/ ForeignUnlock \/ ForeignRow

Next == Callers \/ Writer \/ Daemon \/ Others

Spec == Init /\ [][Next]_vars

(* The loop runs what is ready, and another program's lock does not happen
   to be held at every single retry for ever. Nobody has to submit, stop,
   fail or start anything. *)
Fairness ==
  /\ WF_vars(Writer)
  /\ SF_vars(~foreignLock /\ RetryInsert) /\ SF_vars(InsertBatch)
  /\ WF_vars(PutResumes)
  /\ WF_vars(CaptureFailed) /\ WF_vars(Stopped)
  /\ WF_vars(ForeignUnlock)

FairSpec == Spec /\ Fairness

-------------------------------------------------------------------------------
(* Properties. *)

InQueue == ToSet(queue) \cup ToSet(batch)
Suspending == ToSet(putters) \cup ToSet(woken)

Outcome == {"none", "pending", "row", "error", "refused", "cancelled", "withdrawn",
            "gone"}
Places  == Suspended \cup Ended \cup Sync \cup {"down"}
Lives   == {"up", "failing", "failed", "stopping", "stopped", "down"}

QueueType ==
  /\ queue \in Seq(Ticket \cup {Sentinel})
  /\ putters \in Seq(Ticket) /\ woken \in Seq(Ticket)
CallerType ==
  /\ sent \in [Caller -> Nat] /\ (\A c \in Caller : sent[c] <= LinesEach)
  /\ fut \in [Ticket -> Outcome]
  /\ ahead \in [Barrier -> SUBSET Req]
TaskType ==
  /\ pc \in Places /\ doomed \in BOOLEAN
  /\ batch \in Seq(Req) /\ row \in Nat \ {0} /\ rows \in Seq(Req)
  /\ last \in BOOLEAN /\ barrier \in Barrier \cup {NoTicket}
FileType ==
  /\ nextId \in Nat \ {0}
  /\ txId \in [Req -> Nat] /\ rowId \in [Req -> Nat]
  /\ foreign \in SUBSET (Nat \ {0}) /\ foreignLock \in BOOLEAN
RunType ==
  /\ lockedSince \in BOOLEAN /\ writeErrors \in Nat
  /\ feed \in Seq(Req) /\ feedClosed \in BOOLEAN
  /\ base \in Nat \ {0} /\ life \in Lives /\ runs \in Nat

(* Every variable holds what its comment says. *)
TypeOK == QueueType /\ CallerType /\ TaskType /\ FileType /\ RunType

(* The promise of CaptureLog is kept: rows keep their ids, new rows go above
   every row stored, nobody is answered with a row that is not in the file
   or with an error for one that is, and the feed carries stored rows, each
   once, in id order: through batching, the row-by-row fallback, lock
   episodes, failed commits, stops and kills. *)
Log == INSTANCE CaptureLog WITH Req <- Req, Barrier <- Barrier,
                                fut <- fut, rowId <- rowId, feed <- feed
CaptureLogPromise == Log!Spec

(* No two rows in the file share an id, whoever wrote them. The sequence is
   ahead of every row and of every id in the open transaction, so a batch of
   the writer's own can never run into a row of its own: neither after a
   rollback, a row-by-row fallback or another program's row, nor when it is
   seeded again from a file whose ids have gaps. *)
RowIdsDistinct ==
  /\ \A r, s \in Req : rowId[r] # 0 /\ rowId[r] = rowId[s] => r = s
  /\ \A r \in Req : rowId[r] \notin foreign
SequenceAhead ==
  pc # "down" => \A r \in Req : rowId[r] < nextId /\ txId[r] < nextId
IdsSound == RowIdsDistinct /\ SequenceAhead

(* What one caller hands in is stored in the order it was handed in, even
   where its puts were suspended and woken in between. *)
CallerOrderKept ==
  \A c \in Caller : \A i, j \in 1..LinesEach :
    i < j /\ rowId[<<c, i>>] # 0 /\ rowId[<<c, j>>] # 0
      => rowId[<<c, i>>] < rowId[<<c, j>>]

(* When drain_writes returns, every line that was queued before it has its
   id or has failed: none of them is left to take an id later, which is what
   start_session reads _next_id for. *)
DrainMeansSettled ==
  \A b \in Barrier : fut[b] = "row" => ahead[b] \cap InQueue = {}

(* Whenever anything else on the loop can look, write_errors is the number of
   lines handed to the capture in this run and not stored, each counted once,
   on whichever path it was lost. *)
Lost ==
  {r \in Req : /\ fut[r] \in {"row", "error", "refused", "cancelled"}
              /\ rowId[r] = 0
              /\ r \notin InQueue}
LossesCounted == LoopFree => writeErrors = Cardinality(Lost)

(* Between batches the feed has carried every row this run has stored, while
   the task lives and the feed is open: no row is stored past a watcher. *)
FeedIsComplete ==
  pc \in {"top", "wait", "hold", "exited"} /\ ~feedClosed
    => \A r \in Req : rowId[r] >= base => r \in ToSet(feed)

(* What a caller hands in and what a watcher is shown both follow the file:
   neither an overtaken line nor a stored one that was not broadcast. *)
StoredAndFedInOrder == CallerOrderKept /\ FeedIsComplete

(* Whoever handed something in hears of it: no caller waits for ever. *)
EveryoneAnswered ==
  \A t \in Ticket \ Notice : fut[t] = "pending" ~> fut[t] # "pending"
===============================================================================
