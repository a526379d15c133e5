---------------------------- MODULE LinePathProofs ----------------------------
(***************************************************************************)
(* What is proved of line assembly, of the table of ports and of the feed  *)
(* (RxIngestProofs, PortManagerProofs, LiveFeedProofs) holds of the run    *)
(* that has them side by side. A behaviour of MCLinePath is, on the        *)
(* variables of each of the three, a behaviour of that module: it starts   *)
(* as the module says, whatever part it is of, and a step is the module's  *)
(* or leaves those variables alone. The proof modules are instantiated as  *)
(* MCLinePath instantiates the modules they are about, so each definition  *)
(* has two names, and the first lemma of a section says they are one. The  *)
(* other parts have nothing proved about them, and so nothing to carry     *)
(* over.                                                                   *)
(***************************************************************************)
EXTENDS MCLinePath, TLAPS

Rp == INSTANCE RxIngestProofs WITH queue <- lines, stored <- kept
Pp == INSTANCE PortManagerProofs WITH closed <- shut, stored <- newest
Lp == INSTANCE LiveFeedProofs

-------------------------------------------------------------------------------
(* Line assembly (RxIngest).                                                 *)

LEMMA IngestAlike ==
  /\ R!Init => Rp!Init
  /\ R!Next => Rp!Next
  /\ UNCHANGED R!vars => UNCHANGED Rp!vars
<1>1. R!Init => Rp!Init
  BY DEF R!Init, Rp!Init
<1>2. R!Next => Rp!Next
  BY DEF R!AfterSubmit, Rp!AfterSubmit, R!BatchDone, Rp!BatchDone, R!Begins, Rp!Begins,
         R!BytesArrive, Rp!BytesArrive, R!Cardinality, Rp!Cardinality, R!Charted, Rp!Charted,
         R!Clip, Rp!Clip, R!CloseUnstorable, Rp!CloseUnstorable, R!Complete, Rp!Complete,
         R!ConsumerCancelled, Rp!ConsumerCancelled, R!Consumes, Rp!Consumes, R!Excess,
         Rp!Excess, R!Fresh, Rp!Fresh, R!HeldBack, Rp!HeldBack, R!JoinEnds, Rp!JoinEnds,
         R!Last, Rp!Last, R!Len1, Rp!Len1, R!LoopFree, Rp!LoopFree, R!Next, Rp!Next, R!None,
         Rp!None, R!OnBytes, Rp!OnBytes, R!OnDisconnect, Rp!OnDisconnect, R!Pieces, Rp!Pieces,
         R!PutBack, Rp!PutBack, R!Range, Rp!Range, R!SettleRefused, Rp!SettleRefused,
         R!SettleStored, Rp!SettleStored, R!Shed, Rp!Shed, R!StopBegins, Rp!StopBegins,
         R!StopCounts, Rp!StopCounts, R!Stops, Rp!Stops, R!Submit, Rp!Submit, R!SubmitLine,
         Rp!SubmitLine, R!TakeBatch, Rp!TakeBatch, R!TakePartial, Rp!TakePartial,
         R!Unterminated, Rp!Unterminated, R!Waits, Rp!Waits, R!Whole, Rp!Whole, R!cutVars,
         Rp!cutVars, R!taskVars, Rp!taskVars
<1>3. UNCHANGED R!vars => UNCHANGED Rp!vars
  BY DEF R!cutVars, Rp!cutVars, R!taskVars, Rp!taskVars, R!vars, Rp!vars
<1> QED  BY <1>1, <1>2, <1>3

LEMMA IngestIsOwn == Spec => Rp!Spec
<1>1. Init => R!Init
  BY DEF Init
<1>2. [Next]_vars => [R!Next]_R!vars
  <2>1. ASSUME UNCHANGED rxVars PROVE UNCHANGED R!vars
    BY <2>1 DEF rxVars, R!vars, R!cutVars, R!taskVars
  <2>2. ASSUME UNCHANGED vars PROVE UNCHANGED rxVars
    BY <2>2 DEF vars, pathVars
  <2>3. ASSUME UNCHANGED pathVars PROVE UNCHANGED rxVars
    BY <2>3 DEF pathVars
  <2>4. ASSUME Next PROVE R!Next \/ UNCHANGED rxVars
    BY <2>3, <2>4 DEF Next
  <2> QED  BY <2>1, <2>2, <2>4
<1>3. [R!Next]_R!vars => [Rp!Next]_Rp!vars
  BY IngestAlike
<1> QED  BY IngestAlike, <1>1, <1>2, <1>3, PTL DEF Spec, Rp!Spec

(* A received line is arriving, queued, with the consumer, with the store  *)
(* or counted as lost, and once; a port spends a plot name only on a line; *)
(* no consumer sleeps over queued lines; and stop() tells of every refused *)
(* one: whatever the caps of the buffer, the queue, the batch and the      *)
(* names (_on_bytes, _consume, _store_rx_batch, _settle_rx_line, stop()).  *)
THEOREM IngestAlwaysSound == Spec => []IngestSound
<1>0. Rp!Bounds
  BY LimitsAssumption DEF Rp!Bounds
<1>1. Rp!TypeOK => R!TypeOK
  BY DEF R!Len1, Rp!Len1, R!TypeOK, Rp!TypeOK
<1>2. Rp!LinesAccounted => R!LinesAccounted
  BY DEF R!Cardinality, Rp!Cardinality, R!LinesAccounted, Rp!LinesAccounted
<1>3. Rp!NamesSpentByLines => R!NamesSpentByLines
  BY DEF R!Cardinality, Rp!Cardinality, R!NamesSpentByLines, Rp!NamesSpentByLines, R!Range,
         Rp!Range
<1>4. Rp!NoLostWakeup => R!NoLostWakeup
  BY DEF R!NoLostWakeup, Rp!NoLostWakeup
<1>5. Rp!RefusalsTold => R!RefusalsTold
  BY DEF R!RefusalsTold, Rp!RefusalsTold
<1>6. Rp!Spec => []Rp!TypeOK
  BY <1>0, Rp!RxTypes
<1>7. Rp!Spec => []Rp!LinesAccounted
  BY <1>0, Rp!LinesAlwaysAccounted
<1>8. Rp!Spec => []Rp!NamesSpentByLines
  BY <1>0, Rp!NamesAlwaysOwed
<1>9. Rp!Spec => []Rp!NoLostWakeup
  BY <1>0, Rp!WakeupNeverLost
<1>10. Rp!Spec => []Rp!RefusalsTold
  BY <1>0, Rp!RefusalsAlwaysTold
<1>11. Rp!TypeOK /\ Rp!LinesAccounted /\ Rp!NamesSpentByLines /\ Rp!NoLostWakeup
         /\ Rp!RefusalsTold => IngestSound
  BY <1>1, <1>2, <1>3, <1>4, <1>5 DEF IngestSound
<1> QED  BY IngestIsOwn, <1>6, <1>7, <1>8, <1>9, <1>10, <1>11, PTL

-------------------------------------------------------------------------------
(* The table of ports (PortManager).                                         *)

LEMMA PortsAlike ==
  /\ P!Init => Pp!Init
  /\ P!Next => Pp!Next
  /\ UNCHANGED P!vars => UNCHANGED Pp!vars
<1>1. P!Init => Pp!Init
  BY DEF P!Idle, Pp!Idle, P!Init, Pp!Init, P!Nobody, Pp!Nobody, P!Port, Pp!Port
<1>2. P!Next => Pp!Next
  BY DEF P!Adopt, Pp!Adopt, P!Arrives, Pp!Arrives, P!Asks, Pp!Asks, P!AsksForLock,
         Pp!AsksForLock, P!AttachBegins, Pp!AttachBegins, P!AttachRefused, Pp!AttachRefused,
         P!AttachReplaces, Pp!AttachReplaces, P!AttachStarts, Pp!AttachStarts, P!Attached,
         Pp!Attached, P!Cancelled, Pp!Cancelled, P!Cardinality, Pp!Cardinality, P!Carries,
         Pp!Carries, P!Carry, Pp!Carry, P!Changed, Pp!Changed, P!Closes, Pp!Closes, P!Define,
         Pp!Define, P!DetachEnds, Pp!DetachEnds, P!Detaches, Pp!Detaches, P!DrainMissed,
         Pp!DrainMissed, P!Drained, Pp!Drained, P!DrainsNext, Pp!DrainsNext, P!Evicted,
         Pp!Evicted, P!Goes, Pp!Goes, P!HoldEnds, Pp!HoldEnds, P!Holder, Pp!Holder, P!Holds,
         Pp!Holds, P!Idle, Pp!Idle, P!Leaves, Pp!Leaves, P!MayStart, Pp!MayStart, P!Min,
         Pp!Min, P!Next, Pp!Next, P!NoSuchPort, Pp!NoSuchPort, P!Nobody, Pp!Nobody, P!Port,
         Pp!Port, P!PrimeFails, Pp!PrimeFails, P!PrimeReads, Pp!PrimeReads, P!Receive,
         Pp!Receive, P!Refused, Pp!Refused, P!RemoveAt, Pp!RemoveAt, P!RemoveFirst,
         Pp!RemoveFirst, P!ReplaceEnds, Pp!ReplaceEnds, P!Resumed, Pp!Resumed, P!SelectInSeq,
         Pp!SelectInSeq, P!Starts, Pp!Starts, P!TakesDown, Pp!TakesDown, P!Tally, Pp!Tally,
         P!ToSet, Pp!ToSet, P!book, Pp!book, P!portVars, Pp!portVars
<1>3. UNCHANGED P!vars => UNCHANGED Pp!vars
  BY DEF P!book, Pp!book, P!portVars, Pp!portVars, P!vars, Pp!vars
<1> QED  BY <1>1, <1>2, <1>3

LEMMA PortsIsOwn == Spec => Pp!Spec
<1>1. Init => P!Init
  BY DEF Init
<1>2. [Next]_vars => [P!Next]_P!vars
  <2>1. ASSUME UNCHANGED portsVars PROVE UNCHANGED P!vars
    BY <2>1 DEF portsVars, P!vars, P!portVars, P!book
  <2>2. ASSUME UNCHANGED vars PROVE UNCHANGED portsVars
    BY <2>2 DEF vars, pathVars
  <2>3. ASSUME UNCHANGED pathVars PROVE UNCHANGED portsVars
    BY <2>3 DEF pathVars
  <2>4. ASSUME Next PROVE P!Next \/ UNCHANGED portsVars
    BY <2>3, <2>4 DEF Next
  <2> QED  BY <2>1, <2>2, <2>4
<1>3. [P!Next]_P!vars => [Pp!Next]_Pp!vars
  BY PortsAlike
<1> QED  BY PortsAlike, <1>1, <1>2, <1>3, PTL DEF Spec, Pp!Spec

LEMMA LimitsHeld == Pp!Limits
BY LimitsAssumption DEF Pp!Limits

(* The requests, the table and _carried keep to their types and limits; a  *)
(* reader that runs is the one its alias names, with none of its alias     *)
(* beside it; counters never go back over a detach and an attach; and a    *)
(* port that replaces another knows its definitions: for any number of     *)
(* requests and aliases (attach, reconnect, detach, disconnect, stop_all). *)
THEOREM PortsAlwaysSound == Spec => []PortsSound
<1>1. Pp!TypeOK => P!TypeOK
  BY DEF P!Cardinality, Pp!Cardinality, P!Nobody, Pp!Nobody, P!Port, Pp!Port, P!TypeOK,
         Pp!TypeOK
<1>2. Pp!NoOrphanReader => P!NoOrphanReader
  BY DEF P!NoOrphanReader, Pp!NoOrphanReader, P!Port, Pp!Port
<1>3. Pp!CountersNeverGoBack => P!CountersNeverGoBack
  BY DEF P!CountersNeverGoBack, Pp!CountersNeverGoBack, P!Nobody, Pp!Nobody
<1>4. Pp!ReplacementKnowsDefs => P!ReplacementKnowsDefs
  BY DEF P!Nobody, Pp!Nobody, P!ReplacementKnowsDefs, Pp!ReplacementKnowsDefs
<1>5. Pp!Spec => []Pp!TypeOK
  BY LimitsHeld, Pp!PortsTyped
<1>6. Pp!Spec => []Pp!NoOrphanReader
  BY LimitsHeld, Pp!ReadersOwned
<1>7. Pp!Spec => []Pp!CountersNeverGoBack
  BY LimitsHeld, Pp!CountersKept
<1>8. Pp!Spec => []Pp!ReplacementKnowsDefs
  BY LimitsHeld, Pp!DefsKept
<1>9. Pp!TypeOK /\ Pp!NoOrphanReader /\ Pp!CountersNeverGoBack /\ Pp!ReplacementKnowsDefs
        => PortsSound
  BY <1>1, <1>2, <1>3, <1>4 DEF PortsSound
<1> QED  BY PortsIsOwn, <1>5, <1>6, <1>7, <1>8, <1>9, PTL

(* A /reconnect undoes no hold, detach or attach of its alias that took    *)
(* effect after it was asked for, however the requests interleave.         *)
THEOREM ReconnectAlwaysUndoesNothing == Spec => ReconnectUndoesNothing
<1>1. Pp!Spec => Pp!ReconnectUndoesNothing
  BY LimitsHeld, Pp!NothingUndone
<1>2. ASSUME [\A r \in Request :
                 req[r].op = "reconnect" /\ req[r].pc # "ok" /\ req'[r].pc = "ok" =>
                   changes[req[r].alias] = req[r].seen]_Pp!vars
      PROVE  [\A r \in Request :
                 req[r].op = "reconnect" /\ req[r].pc # "ok" /\ req'[r].pc = "ok" =>
                   changes[req[r].alias] = req[r].seen]_P!vars
  BY <1>2 DEF P!book, Pp!book, P!portVars, Pp!portVars, P!vars, Pp!vars
<1> QED
  BY PortsIsOwn, <1>1, <1>2, PTL
  DEF ReconnectUndoesNothing, P!ReconnectUndoesNothing, Pp!ReconnectUndoesNothing

-------------------------------------------------------------------------------
(* The feed (LiveFeed).                                                      *)

LEMMA FeedAlike ==
  /\ L!Init => Lp!Init
  /\ L!Next => Lp!Next
  /\ UNCHANGED L!vars => UNCHANGED Lp!vars
<1>1. L!Init => Lp!Init
  BY DEF L!Idle, Lp!Idle, L!Init, Lp!Init, L!Sub, Lp!Sub
<1>2. L!Next => Lp!Next
  BY DEF L!Admits, Lp!Admits, L!Answered, Lp!Answered, L!Broadcast, Lp!Broadcast, L!Cancelled,
         Lp!Cancelled, L!Candidates, Lp!Candidates, L!Cardinality, Lp!Cardinality, L!Commit,
         Lp!Commit, L!Concludes, Lp!Concludes, L!Connects, Lp!Connects, L!Continues,
         Lp!Continues, L!Expired, Lp!Expired, L!Frame, Lp!Frame, L!Hangs, Lp!Hangs, L!Idle,
         Lp!Idle, L!Kind, Lp!Kind, L!MinOver, Lp!MinOver, L!Next, Lp!Next, L!NextBatch,
         Lp!NextBatch, L!NextBatchStopped, Lp!NextBatchStopped, L!Opens, Lp!Opens, L!Pushed,
         Lp!Pushed, L!RowsIn, Lp!RowsIn, L!Scan, Lp!Scan, L!ScanCut, Lp!ScanCut, L!SendCut,
         Lp!SendCut, L!SendEnds, Lp!SendEnds, L!Sheds, Lp!Sheds, L!Shown, Lp!Shown, L!Size,
         Lp!Size, L!Stop, Lp!Stop, L!StopSubscribers, Lp!StopSubscribers, L!Sub, Lp!Sub,
         L!Taken, Lp!Taken, L!Tick, Lp!Tick, L!ToSet, Lp!ToSet, L!Turn, Lp!Turn,
         L!Unsubscribed, Lp!Unsubscribed, L!Verdict, Lp!Verdict, L!WindowEnds, Lp!WindowEnds,
         L!socketVars, Lp!socketVars, L!storeVars, Lp!storeVars
<1>3. UNCHANGED L!vars => UNCHANGED Lp!vars
  BY DEF L!socketVars, Lp!socketVars, L!storeVars, Lp!storeVars, L!vars, Lp!vars
<1> QED  BY <1>1, <1>2, <1>3

LEMMA FeedIsOwn == Spec => Lp!Steps
<1>1. Init => L!Init
  BY DEF Init
<1>2. [Next]_vars => [L!Next]_L!vars
  <2>1. ASSUME UNCHANGED feedVars PROVE UNCHANGED L!vars
    BY <2>1 DEF feedVars, L!vars, L!storeVars, L!socketVars
  <2>2. ASSUME UNCHANGED vars PROVE UNCHANGED feedVars
    BY <2>2 DEF vars, pathVars
  <2>3. ASSUME UNCHANGED pathVars PROVE UNCHANGED feedVars
    BY <2>3 DEF pathVars
  <2>4. ASSUME Next PROVE L!Next \/ UNCHANGED feedVars
    BY <2>3, <2>4 DEF Next
  <2> QED  BY <2>1, <2>2, <2>4
<1>3. [L!Next]_L!vars => [Lp!Next]_Lp!vars
  BY FeedAlike
<1> QED  BY FeedAlike, <1>1, <1>2, <1>3, PTL DEF Spec, Lp!Steps

(* The gaps a socket is told add up to the rows it lost, each told ahead   *)
(* of the row behind it, and a feed that closes owes none: for any sizes   *)
(* of the queues and of a frame (_broadcast, SocketFeed, stop_subscribers). *)
THEOREM FeedAlwaysSound == Spec => []FeedSound
<1>1. Lp!TypeOK => L!TypeOK
  BY DEF L!Kind, Lp!Kind, L!Size, Lp!Size, L!Sub, Lp!Sub, L!ToSet, Lp!ToSet, L!TypeOK,
         Lp!TypeOK
<1>2. Lp!GapsAreExact => L!GapsAreExact
  BY DEF L!Cardinality, Lp!Cardinality, L!GapsAreExact, Lp!GapsAreExact, L!Span, Lp!Span
<1>3. Lp!ClosedFeedIsAccounted => L!ClosedFeedIsAccounted
  BY DEF L!Cardinality, Lp!Cardinality, L!ClosedFeedIsAccounted, Lp!ClosedFeedIsAccounted,
         L!Span, Lp!Span
<1>4. Lp!Steps => []Lp!TypeOK
  BY FeedLimits, Lp!FeedTypes
<1>5. Lp!Steps => []Lp!IInv
  BY FeedLimits, Lp!Invariant
<1>6. Lp!Steps => []Lp!Sockets
  BY FeedLimits, Lp!SocketsAlways
<1>7. Lp!Sockets => Lp!GapsAreExact
  BY FeedLimits, Lp!SocketsTold
<1>8. Lp!IInv /\ Lp!Sockets => Lp!ClosedFeedIsAccounted
  BY FeedLimits, Lp!ClosedToldAll
<1>9. Lp!TypeOK /\ Lp!GapsAreExact /\ Lp!ClosedFeedIsAccounted => FeedSound
  BY <1>1, <1>2, <1>3 DEF FeedSound
<1> QED  BY FeedIsOwn, <1>4, <1>5, <1>6, <1>7, <1>8, <1>9, PTL
===============================================================================
