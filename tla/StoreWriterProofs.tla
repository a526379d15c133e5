------------------------- MODULE StoreWriterProofs ----------------------------
(***************************************************************************)
(* Proofs about StoreWriter, for every number of callers, lines, notices   *)
(* and barriers, every queue and batch size and every kind of trouble.     *)
(*                                                                         *)
(* First the types and the ids: TypeCorrect is the type invariant, and     *)
(* IdsAlwaysSound is what the id sequence rests on, with IdInv as its      *)
(* inductive strengthening.                                                *)
(*                                                                         *)
(* Then what a capture promises: StoreWriter implements CaptureLog,        *)
(* nobody's lines are stored out of order or past a watcher, drain_writes  *)
(* leaves nothing behind, and no lost line is counted twice or passed over.*)
(* All of it rests on where a ticket can be. PlaceInv says it is in one    *)
(* place at a time (suspended, queued, in the batch), and what its caller  *)
(* and the file know of it there. The other invariants (DrainInv, FeedInv, *)
(* OrderInv, LossInv) are proved one by one on top of it, each from what a *)
(* kind of step does (the ...Facts lemmas) rather than from the actions.   *)
(***************************************************************************)
EXTENDS StoreWriter, FiniteSetTheorems, FunctionTheorems, SequenceTheorems,
        WellFoundedInduction, TLAPS

-------------------------------------------------------------------------------
(* Max on a set of naturals that has an upper bound. *)

LEMMA MaxOfBounded ==
  ASSUME NEW S \in SUBSET Nat, S # {}, NEW B \in Nat, \A x \in S : x <= B
  PROVE  /\ Max(S) \in S
         /\ \A x \in S : x <= Max(S)
<1> DEFINE U == {b \in Nat : \A x \in S : x <= b}
<1>1. U # {} /\ U \subseteq Nat
  OBVIOUS
<1>2. PICK m \in U : \A y \in U : <<y, m>> \notin OpToRel(<, Nat)
  <2> HIDE DEF U
  <2> QED  BY <1>1, WFMin, NatLessThanWellFounded
<1>3. m \in Nat /\ (\A x \in S : x \in Nat /\ x <= m)
  OBVIOUS
<1>4. \A y \in Nat : y \in U => ~(y < m)
  <2>1. ASSUME NEW y \in Nat, y < m PROVE <<y, m>> \in OpToRel(<, Nat)
    BY <1>3, <2>1 DEF OpToRel
  <2> HIDE DEF U
  <2> QED  BY <1>2, <2>1
<1>5. m \in S
  <2>1. SUFFICES ASSUME m \notin S PROVE FALSE
    OBVIOUS
  <2>2. \A x \in S : x <= m - 1
    BY <1>3, <2>1
  <2>3. m - 1 \in Nat
    <3>1. PICK x \in S : TRUE
      OBVIOUS
    <3>2. x \in Nat /\ x <= m - 1
      BY <1>3, <2>2
    <3> QED  BY <1>3, <3>2
  <2>4. m - 1 \in U
    BY <2>2, <2>3
  <2> QED  BY <1>3, <1>4, <2>3, <2>4
<1>6. \A x \in S : m >= x
  BY <1>3
<1>7. \E x \in S : \A y \in S : x >= y
  BY <1>5, <1>6
<1>8. Max(S) \in S /\ (\A y \in S : Max(S) >= y)
  BY <1>7 DEF Max
<1> QED  BY <1>3, <1>8

(* Two small sets: the smaller of two lengths is one of them. *)
LEMMA MinOfTwo ==
  ASSUME NEW m \in Nat, NEW n \in Nat
  PROVE  Min({m, n}) \in Nat /\ Min({m, n}) <= m /\ Min({m, n}) <= n
<1>1. CASE m <= n
  <2>1. \E x \in {m, n} : \A y \in {m, n} : x =< y
    BY <1>1
  <2> QED  BY <2>1 DEF Min
<1>2. CASE n <= m
  <2>1. \E x \in {m, n} : \A y \in {m, n} : x =< y
    BY <1>2
  <2> QED  BY <2>1 DEF Min
<1> QED  BY <1>1, <1>2

LEMMA ToSetOfSeq ==
  ASSUME NEW S, NEW s \in Seq(S)
  PROVE  ToSet(s) \subseteq S /\ IsFiniteSet(ToSet(s))
<1>1. ToSet(s) \subseteq S
  BY DEF ToSet
<1>2. IsFiniteSet(1 .. Len(s))
  BY FS_Interval
<1>3. ToSet(s) = {s[i] : i \in 1 .. Len(s)}
  BY DEF ToSet
<1> DEFINE f == [i \in 1 .. Len(s) |-> s[i]]
<1>4. IsFiniteSet({f[i] : i \in 1 .. Len(s)})
  <2>1. f \in Surjection(1 .. Len(s), {f[i] : i \in 1 .. Len(s)})
    BY DEF Surjection
  <2> HIDE DEF f
  <2> QED  BY <1>2, <2>1, FS_Surjection
<1> QED  BY <1>1, <1>3, <1>4

LEMMA TailInSeq ==
  ASSUME NEW S, NEW s \in Seq(S), s # <<>>
  PROVE  Head(s) \in S /\ Tail(s) \in Seq(S)
OBVIOUS

LEMMA RemoveAtInSeq ==
  ASSUME NEW S, NEW s \in Seq(S), NEW i \in DOMAIN s
  PROVE  RemoveAt(s, i) \in Seq(S)
<1>1. SubSeq(s, 1, i - 1) \in Seq(S) /\ SubSeq(s, i + 1, Len(s)) \in Seq(S)
  BY SubSeqProperties
<1> QED  BY <1>1, ConcatProperties DEF RemoveAt

-------------------------------------------------------------------------------
(* The type invariant. *)

(* The ids in the file have an upper bound, so TopId is defined. *)
FileBounded == \E B \in Nat : \A id \in Ids : id <= B

LEMMA TopIdIsTop ==
  ASSUME TypeOK, FileBounded
  PROVE  TopId \in Nat /\ (\A id \in Ids : id <= TopId)
<1>1. PICK B \in Nat : \A id \in Ids : id <= B
  BY DEF FileBounded
<1> DEFINE S == {0} \cup Ids
<1>2. rowId \in [Req -> Nat] /\ foreign \in SUBSET Nat
  BY DEF TypeOK, FileType
<1>3. Ids \in SUBSET Nat
  BY <1>2 DEF Ids
<1>4. S \in SUBSET Nat /\ S # {}
  BY <1>3
<1>5. \A x \in S : x <= B
  BY <1>1
<1>6. Max(S) \in S /\ (\A x \in S : x <= Max(S))
  <2> HIDE DEF S
  <2> QED  BY <1>4, <1>5, MaxOfBounded
<1>7. TopId = Max(S)
  BY DEF TopId
<1>8. TopId \in S
  BY <1>6, <1>7
<1> QED  BY <1>4, <1>6, <1>7, <1>8

LEMMA ToldType ==
  ASSUME TypeOK, NEW failed, NEW served
  PROVE  Told(failed, served) \in [Ticket -> Outcome]
BY DEF TypeOK, CallerType, Told, Outcome

LEMMA PendingFinite ==
  ASSUME NEW S, NEW s \in Seq(S)
  PROVE  Cardinality(Pending(s)) \in Nat
<1>1. IsFiniteSet(ToSet(s))
  BY ToSetOfSeq
<1>2. Pending(s) \subseteq ToSet(s)
  BY DEF Pending
<1> QED  BY <1>1, <1>2, FS_Subset, FS_CardinalityType

LEMMA GetType ==
  ASSUME QueueType, queue # <<>>, Get
  PROVE  QueueType' /\ Head(queue) \in Ticket \cup {Sentinel}
<1>1. Head(queue) \in Ticket \cup {Sentinel} /\ Tail(queue) \in Seq(Ticket \cup {Sentinel})
  BY TailInSeq DEF QueueType
<1>2. queue' = Tail(queue)
  BY DEF Get
<1>3. CASE putters = <<>>
  BY <1>1, <1>2, <1>3 DEF QueueType, Get
<1>4. CASE putters # <<>>
  <2>1. Head(putters) \in Ticket /\ Tail(putters) \in Seq(Ticket)
    BY <1>4, TailInSeq DEF QueueType
  <2>2. putters' = Tail(putters) /\ woken' = Append(woken, Head(putters))
    BY <1>4 DEF Get
  <2>3. woken' \in Seq(Ticket)
    BY <2>1, <2>2 DEF QueueType
  <2> QED  BY <1>1, <1>2, <2>1, <2>2, <2>3 DEF QueueType
<1> QED  BY <1>3, <1>4

LEMMA PutType ==
  ASSUME QueueType, NEW x \in Ticket, Put(x)
  PROVE  QueueType'
<1>1. CASE Full
  BY <1>1 DEF QueueType, Put
<1>2. CASE ~Full
  BY <1>2 DEF QueueType, Put
<1> QED  BY <1>1, <1>2

LEMMA BatchOverType ==
  ASSUME TaskType, NEW next \in Places, BatchOver(next)
  PROVE  TaskType' /\ txId' \in [Req -> Nat]
<1>1. doomed' \in BOOLEAN /\ last' \in BOOLEAN /\ barrier' \in Barrier \cup {NoTicket}
  BY DEF TaskType, BatchOver
<1>2. batch' \in Seq(Req) /\ rows' \in Seq(Req) /\ row' \in Nat \ {0}
  BY EmptySeq DEF BatchOver
<1>3. txId' \in [Req -> Nat]
  BY DEF BatchOver, NoRows
<1>4. pc' \in Places
  BY DEF BatchOver
<1> QED  BY <1>1, <1>2, <1>3, <1>4 DEF TaskType

LEMMA AfterBatchIsPlace == AfterBatch \in Places /\ AfterBatch # "down"
BY DEF AfterBatch, Places, Ended, Sync

LEMMA MemoryLostType ==
  ASSUME TypeOK, MemoryLost, pc' \in Places
  PROVE  /\ QueueType' /\ TaskType'
         /\ fut' \in [Ticket -> Outcome] /\ ahead' \in [Barrier -> SUBSET Req]
         /\ txId' \in [Req -> Nat]
         /\ lockedSince' \in BOOLEAN /\ writeErrors' \in Nat
         /\ feed' \in Seq(Req) /\ feedClosed' \in BOOLEAN
<1>1. QueueType'
  BY EmptySeq DEF MemoryLost, QueueType
<1>2. batch' \in Seq(Req) /\ rows' \in Seq(Req) /\ feed' \in Seq(Req) /\ row' \in Nat \ {0}
  BY EmptySeq DEF MemoryLost
<1>3. TaskType'
  BY <1>2 DEF MemoryLost, TaskType
<1>4. fut' \in [Ticket -> Outcome]
  BY DEF MemoryLost, TypeOK, CallerType, Outcome
<1>5. ahead' \in [Barrier -> SUBSET Req] /\ txId' \in [Req -> Nat]
  BY DEF MemoryLost, NoRows
<1>6. /\ lockedSince' \in BOOLEAN /\ writeErrors' \in Nat /\ feedClosed' \in BOOLEAN
  BY DEF MemoryLost
<1> QED  BY <1>1, <1>2, <1>3, <1>4, <1>5, <1>6

LEMMA FailQueuedType ==
  ASSUME TypeOK, FailQueued
  PROVE  QueueType' /\ fut' \in [Ticket -> Outcome] /\ writeErrors' \in Nat
<1> DEFINE n == Min({Len(queue), Len(putters)})
<1>1. n \in Nat /\ n <= Len(putters)
  <2>1. Len(queue) \in Nat /\ Len(putters) \in Nat
    BY DEF TypeOK, QueueType
  <2> QED  BY <2>1, MinOfTwo
<1>2. /\ SubSeq(putters, 1, n) \in Seq(Ticket)
      /\ SubSeq(putters, n + 1, Len(putters)) \in Seq(Ticket)
  <2> HIDE DEF n
  <2>1. putters \in Seq(Ticket)
    BY DEF TypeOK, QueueType
  <2>2. \A i \in 1 .. Len(putters) : putters[i] \in Ticket
    BY <2>1
  <2>3. SubSeq(putters, 1, n) \in Seq(Ticket)
    BY <1>1, <2>1, <2>2, SubSeqProperties
  <2>4. SubSeq(putters, n + 1, Len(putters)) \in Seq(Ticket)
    BY <1>1, <2>1, <2>2, SubSeqProperties
  <2> QED  BY <2>3, <2>4
<1>3. woken \o SubSeq(putters, 1, n) \in Seq(Ticket)
  <2> HIDE DEF n
  <2> QED  BY <1>2, ConcatProperties DEF TypeOK, QueueType
<1>4. /\ queue' = <<>>
      /\ woken' = woken \o SubSeq(putters, 1, n)
      /\ putters' = SubSeq(putters, n + 1, Len(putters))
  BY DEF FailQueued
<1>5. QueueType'
  <2> HIDE DEF n
  <2> QED  BY <1>2, <1>3, <1>4, EmptySeq DEF QueueType
<1>6. fut' \in [Ticket -> Outcome]
  BY ToldType DEF FailQueued
<1>7. writeErrors' \in Nat
  <2>1. Cardinality(Pending(queue)) \in Nat
    BY PendingFinite DEF TypeOK, QueueType
  <2> QED  BY <2>1 DEF FailQueued, TypeOK, RunType
<1> QED  BY <1>5, <1>6, <1>7

LEMMA TypeInit == Init => TypeOK
<1> SUFFICES ASSUME Init PROVE TypeOK
  OBVIOUS
<1>1. QueueType
  BY EmptySeq DEF Init, QueueType
<1>2. CallerType
  BY BoundsAssumption DEF Init, CallerType, Outcome
<1>3. TaskType
  <2>1. /\ pc = "top" /\ doomed = FALSE /\ batch = <<>> /\ row = 1 /\ rows = <<>>
        /\ last = FALSE /\ barrier = NoTicket
    BY DEF Init
  <2>2. pc \in Places /\ batch \in Seq(Req) /\ rows \in Seq(Req) /\ row \in Nat \ {0}
    <3>1. pc = "top" /\ batch = <<>> /\ row = 1 /\ rows = <<>>
      BY <2>1
    <3> QED  BY <3>1, EmptySeq DEF Places, Sync
  <2>3. doomed \in BOOLEAN /\ last \in BOOLEAN /\ barrier \in Barrier \cup {NoTicket}
    BY <2>1
  <2> QED  BY <2>2, <2>3 DEF TaskType
<1>4. FileType
  <2>1. /\ nextId = 1 /\ foreign = {} /\ foreignLock = FALSE
        /\ txId = [r \in Req |-> 0] /\ rowId = [r \in Req |-> 0]
    BY DEF Init
  <2>2. nextId = 1 /\ foreign = {} /\ txId = [r \in Req |-> 0] /\ rowId = [r \in Req |-> 0]
    BY <2>1
  <2>3. /\ nextId \in Nat \ {0} /\ foreign \in SUBSET (Nat \ {0})
        /\ txId \in [Req -> Nat] /\ rowId \in [Req -> Nat]
    BY <2>2
  <2>4. foreignLock \in BOOLEAN
    BY <2>1
  <2> QED  BY <2>3, <2>4 DEF FileType
<1>5. RunType
  <2>1. /\ lockedSince = FALSE /\ writeErrors = 0 /\ feed = <<>> /\ feedClosed = FALSE
        /\ base = 1 /\ life = "up" /\ runs = 1
    BY DEF Init
  <2>2. writeErrors = 0 /\ feed = <<>> /\ base = 1 /\ life = "up" /\ runs = 1
    BY <2>1
  <2>3. writeErrors \in Nat /\ feed \in Seq(Req) /\ base \in Nat \ {0} /\ life \in Lives /\ runs \in Nat
    BY <2>2, EmptySeq DEF Lives
  <2>4. lockedSince \in BOOLEAN /\ feedClosed \in BOOLEAN
    BY <2>1
  <2> QED  BY <2>3, <2>4 DEF RunType
<1> QED  BY <1>1, <1>2, <1>3, <1>4, <1>5 DEF TypeOK

LEMMA GivenType ==
  ASSUME TypeOK, NEW s \in Seq(Req)
  PROVE  /\ Given(s) \in [Req -> Nat]
         /\ \A r \in Req : Given(s)[r] # 0 => /\ r \in ToSet(s)
                                            /\ Given(s)[r] >= nextId
                                            /\ Given(s)[r] < nextId + Len(s)
<1> SUFFICES ASSUME NEW r \in Req
             PROVE  /\ Given(s)[r] \in Nat
                    /\ Given(s)[r] # 0 => /\ r \in ToSet(s)
                                          /\ Given(s)[r] >= nextId
                                          /\ Given(s)[r] < nextId + Len(s)
  BY DEF Given
<1>1. CASE r \notin ToSet(s)
  BY <1>1 DEF Given
<1>2. CASE r \in ToSet(s)
  <2> DEFINE i == CHOOSE i \in DOMAIN s : s[i] = r
  <2>1. i \in 1 .. Len(s)
    BY <1>2 DEF ToSet
  <2>2. Given(s)[r] = nextId - 1 + i
    BY <1>2 DEF Given
  <2>3. nextId \in Nat \ {0} /\ Len(s) \in Nat
    BY DEF TypeOK, FileType
  <2> HIDE DEF i
  <2> QED  BY <1>2, <2>1, <2>2, <2>3
<1> QED  BY <1>1, <1>2

LEMMA MaxOfTwo ==
  ASSUME NEW m \in Nat, NEW n \in Nat
  PROVE  Max({m, n}) \in Nat /\ Max({m, n}) >= m /\ Max({m, n}) >= n
<1>1. \E x \in {m, n} : \A y \in {m, n} : x >= y
  <2>1. CASE m <= n
    BY <2>1
  <2>2. CASE n <= m
    BY <2>2
  <2> QED  BY <2>1, <2>2
<1> QED  BY <1>1 DEF Max

LEMMA ClosingType == Closing \subseteq Seq(Req)
<1>1. \A x \in Notice : <<x>> \in Seq(Req)
  BY DEF Req
<1>2. CASE lockedSince
  BY <1>1, <1>2 DEF Closing
<1>3. CASE ~lockedSince
  BY <1>3 DEF Closing
<1> QED  BY <1>2, <1>3

(* Each action keeps the type invariant. *)
LEMMA TypeStep == TypeOK /\ FileBounded /\ [Next]_vars => TypeOK'
<1> SUFFICES ASSUME TypeOK, FileBounded, [Next]_vars PROVE TypeOK'
  OBVIOUS
<1>1. ASSUME PutResumes PROVE TypeOK'
  <2>1. CallerType' /\ TaskType' /\ FileType' /\ RunType'
    BY <1>1 DEF PutResumes, TypeOK, CallerType, TaskType, FileType, RunType, queueVars, callerVars, taskVars, fileVars, runVars, feedVars
  <2>2. QueueType'
    <3>1. Head(woken) \in Ticket /\ Tail(woken) \in Seq(Ticket)
      BY <1>1, TailInSeq DEF PutResumes, TypeOK, QueueType
    <3>2. CASE Full
      <4>1. putters' = Append(putters, Head(woken)) /\ woken' = Tail(woken) /\ UNCHANGED queue
        BY <1>1, <3>2 DEF PutResumes
      <4> QED  BY <3>1, <4>1, AppendProperties DEF TypeOK, QueueType
    <3>3. CASE ~Full
      <4>1. queue' = Append(queue, Head(woken)) /\ woken' = Tail(woken) /\ UNCHANGED putters
        BY <1>1, <3>3 DEF PutResumes
      <4> QED  BY <3>1, <4>1, AppendProperties DEF TypeOK, QueueType
    <3> QED  BY <3>2, <3>3
  <2> QED  BY <2>1, <2>2 DEF TypeOK
<1>2. ASSUME NEW c \in Caller, Submit(c) PROVE TypeOK'
  <2>1. TaskType' /\ FileType'
    BY <1>2 DEF Submit, TypeOK, TaskType, FileType, queueVars, callerVars, taskVars, fileVars, runVars, feedVars
  <2>2. QueueType'
    <3>1. <<c, sent[c] + 1>> \in Ticket
      BY <1>2, BoundsAssumption DEF Submit, TypeOK, CallerType, Ticket, Req, Line
    <3>2. CASE WriterAlive
      <4>1. Put(<<c, sent[c] + 1>>)
        BY <1>2, <3>2 DEF Submit
      <4> QED  BY <3>1, <4>1, PutType DEF TypeOK
    <3>3. CASE ~WriterAlive
      BY <1>2, <3>3 DEF Submit, TypeOK, QueueType, queueVars
    <3> QED  BY <3>2, <3>3
  <2>3. CallerType'
    <3>1. <<c, sent[c] + 1>> \in Ticket
      BY <1>2, BoundsAssumption DEF Submit, TypeOK, CallerType, Ticket, Req, Line
    <3>2. sent' \in [Caller -> Nat] /\ (\A d \in Caller : sent'[d] <= LinesEach)
      BY <1>2, BoundsAssumption DEF Submit, TypeOK, CallerType
    <3>3. fut' \in [Ticket -> Outcome]
      BY <1>2, <3>1 DEF Submit, TypeOK, CallerType, Outcome
    <3> QED  BY <1>2, <3>2, <3>3 DEF Submit, TypeOK, CallerType
  <2>4. RunType'
    BY <1>2 DEF Submit, TypeOK, RunType, runVars, feedVars, Lives
  <2> QED  BY <2>1, <2>2, <2>3, <2>4 DEF TypeOK
<1>3. ASSUME NEW b \in Barrier, DrainWrites(b) PROVE TypeOK'
  <2>1. TaskType' /\ FileType' /\ RunType'
    BY <1>3 DEF DrainWrites, TypeOK, TaskType, FileType, RunType, queueVars, callerVars, taskVars, fileVars, runVars, feedVars
  <2>2. QueueType'
    <3>1. CASE WriterAlive
      BY <1>3, <3>1, PutType DEF DrainWrites, TypeOK, Ticket
    <3>2. CASE ~WriterAlive
      BY <1>3, <3>2 DEF DrainWrites, TypeOK, QueueType, queueVars
    <3> QED  BY <3>1, <3>2
  <2>3. CallerType'
    <3>1. b \in Ticket
      BY <1>3 DEF Ticket
    <3>2. fut' \in [Ticket -> Outcome]
      BY <1>3, <3>1 DEF DrainWrites, TypeOK, CallerType, Outcome
    <3>3. ahead' \in [Barrier -> SUBSET Req]
      BY <1>3 DEF DrainWrites, TypeOK, CallerType
    <3> QED  BY <1>3, <3>2, <3>3 DEF DrainWrites, TypeOK, CallerType
  <2> QED  BY <2>1, <2>2, <2>3 DEF TypeOK
<1>4. ASSUME NEW x \in Ticket, GiveUp(x) PROVE TypeOK'
  <2>1. QueueType' /\ TaskType' /\ FileType' /\ RunType'
    BY <1>4 DEF GiveUp, TypeOK, QueueType, TaskType, FileType, RunType, queueVars, callerVars, taskVars, fileVars, runVars, feedVars
  <2>2. CallerType'
    BY <1>4 DEF GiveUp, TypeOK, CallerType, callerVars, Outcome
  <2> QED  BY <2>1, <2>2 DEF TypeOK
<1>5. ASSUME NEW x \in Ticket, Withdraw(x) PROVE TypeOK'
  <2>1. TaskType' /\ FileType' /\ RunType'
    BY <1>5 DEF Withdraw, TypeOK, TaskType, FileType, RunType, queueVars, callerVars, taskVars, fileVars, runVars, feedVars
  <2>2. QueueType'
    <3>1. ASSUME NEW i \in DOMAIN putters, putters' = RemoveAt(putters, i), UNCHANGED woken
          PROVE  QueueType'
      BY <1>5, <3>1, RemoveAtInSeq DEF Withdraw, TypeOK, QueueType
    <3>2. ASSUME NEW i \in DOMAIN woken, woken' = RemoveAt(woken, i), UNCHANGED putters
          PROVE  QueueType'
      BY <1>5, <3>2, RemoveAtInSeq DEF Withdraw, TypeOK, QueueType
    <3>3. ASSUME NEW i \in DOMAIN woken, putters # <<>>,
                 woken' = Append(RemoveAt(woken, i), Head(putters)), putters' = Tail(putters)
          PROVE  QueueType'
      <4>1. RemoveAt(woken, i) \in Seq(Ticket)
        BY <3>3, RemoveAtInSeq DEF TypeOK, QueueType
      <4>2. Head(putters) \in Ticket /\ Tail(putters) \in Seq(Ticket)
        BY <3>3, TailInSeq DEF TypeOK, QueueType
      <4> QED  BY <1>5, <3>3, <4>1, <4>2, AppendProperties DEF Withdraw, TypeOK, QueueType
    <3> QED  BY <1>5, <3>1, <3>2, <3>3 DEF Withdraw
  <2>3. CallerType'
    BY <1>5 DEF Withdraw, TypeOK, CallerType, callerVars, Outcome
  <2> QED  BY <2>1, <2>2, <2>3 DEF TypeOK
<1>6. ASSUME Wait PROVE TypeOK'
  <2>1. QueueType' /\ CallerType' /\ FileType' /\ RunType'
    BY <1>6 DEF Wait, TypeOK, QueueType, CallerType, FileType, RunType, queueVars, callerVars, taskVars, fileVars, runVars, feedVars
  <2>2. TaskType'
    BY <1>6 DEF Wait, TypeOK, TaskType, Places, Suspended, Ended, Sync
  <2> QED  BY <2>1, <2>2 DEF TypeOK
<1>7. ASSUME TakeSentinel PROVE TypeOK'
  <2>1. CallerType' /\ FileType' /\ RunType'
    BY <1>7 DEF TakeSentinel, TypeOK, CallerType, FileType, RunType, queueVars, callerVars, taskVars, fileVars, runVars, feedVars
  <2>2. QueueType'
    <3>1. queue # <<>> /\ Get
      BY <1>7 DEF TakeSentinel, Absorbing
    <3> QED  BY <3>1, GetType DEF TypeOK
  <2>3. TaskType'
    BY <1>7 DEF TakeSentinel, TypeOK, TaskType, Places, Suspended, Ended, Sync
  <2> QED  BY <2>1, <2>2, <2>3 DEF TypeOK
<1>8. ASSUME TakeBarrier PROVE TypeOK'
  <2>1. FileType' /\ RunType'
    BY <1>8 DEF TakeBarrier, TypeOK, FileType, RunType, queueVars, callerVars, taskVars, fileVars, runVars, feedVars
  <2>2. QueueType'
    <3>1. queue # <<>> /\ Get
      BY <1>8 DEF TakeBarrier, Absorbing
    <3> QED  BY <3>1, GetType DEF TypeOK
  <2>3. CallerType'
    BY <1>8, ToldType DEF TakeBarrier, TypeOK, CallerType, callerVars
  <2>4. TaskType'
    BY <1>8 DEF TakeBarrier, TypeOK, TaskType, Places, Suspended, Ended, Sync
  <2> QED  BY <2>1, <2>2, <2>3, <2>4 DEF TypeOK
<1>9. ASSUME TakeLine PROVE TypeOK'
  <2>1. CallerType' /\ FileType' /\ RunType'
    BY <1>9 DEF TakeLine, TypeOK, CallerType, FileType, RunType, queueVars, callerVars, taskVars, fileVars, runVars, feedVars
  <2>2. QueueType'
    <3>1. queue # <<>> /\ Get
      BY <1>9 DEF TakeLine, Absorbing
    <3> QED  BY <3>1, GetType DEF TypeOK
  <2>3. TaskType'
    BY <1>9 DEF TakeLine, TypeOK, TaskType, Places, Suspended, Ended, Sync
  <2> QED  BY <2>1, <2>2, <2>3 DEF TypeOK
<1>10. ASSUME HoldOver PROVE TypeOK'
  <2>1. QueueType' /\ CallerType' /\ FileType' /\ RunType'
    BY <1>10 DEF HoldOver, TypeOK, QueueType, CallerType, FileType, RunType, queueVars, callerVars, taskVars, fileVars, runVars, feedVars
  <2>2. TaskType'
    BY <1>10 DEF HoldOver, TypeOK, TaskType, Places, Suspended, Ended, Sync
  <2> QED  BY <2>1, <2>2 DEF TypeOK
<1>11. ASSUME AbsorbLine PROVE TypeOK'
  <2>1. CallerType' /\ FileType' /\ RunType'
    BY <1>11 DEF AbsorbLine, TypeOK, CallerType, FileType, RunType, queueVars, callerVars, taskVars, fileVars, runVars, feedVars
  <2>2. QueueType'
    <3>1. queue # <<>> /\ Get
      BY <1>11 DEF AbsorbLine, Absorbing
    <3> QED  BY <3>1, GetType DEF TypeOK
  <2>3. TaskType'
    BY <1>11 DEF AbsorbLine, TypeOK, TaskType, Places, Suspended, Ended, Sync
  <2> QED  BY <2>1, <2>2, <2>3 DEF TypeOK
<1>12. ASSUME AbsorbSentinel PROVE TypeOK'
  <2>1. CallerType' /\ FileType' /\ RunType'
    BY <1>12 DEF AbsorbSentinel, TypeOK, CallerType, FileType, RunType, queueVars, callerVars, taskVars, fileVars, runVars, feedVars
  <2>2. QueueType'
    <3>1. queue # <<>> /\ Get
      BY <1>12 DEF AbsorbSentinel, Absorbing
    <3> QED  BY <3>1, GetType DEF TypeOK
  <2>3. TaskType'
    BY <1>12 DEF AbsorbSentinel, TypeOK, TaskType, Places, Suspended, Ended, Sync
  <2> QED  BY <2>1, <2>2, <2>3 DEF TypeOK
<1>13. ASSUME AbsorbBarrier PROVE TypeOK'
  <2>1. CallerType' /\ FileType' /\ RunType'
    BY <1>13 DEF AbsorbBarrier, TypeOK, CallerType, FileType, RunType, queueVars, callerVars, taskVars, fileVars, runVars, feedVars
  <2>2. QueueType'
    <3>1. queue # <<>> /\ Get
      BY <1>13 DEF AbsorbBarrier, Absorbing
    <3> QED  BY <3>1, GetType DEF TypeOK
  <2>3. TaskType'
    BY <1>13 DEF AbsorbBarrier, TypeOK, TaskType, Places, Suspended, Ended, Sync
  <2> QED  BY <2>1, <2>2, <2>3 DEF TypeOK
<1>14. ASSUME AbsorbEnds PROVE TypeOK'
  <2>1. QueueType' /\ CallerType' /\ FileType' /\ RunType'
    BY <1>14 DEF AbsorbEnds, TypeOK, QueueType, CallerType, FileType, RunType, queueVars, callerVars, taskVars, fileVars, runVars, feedVars
  <2>2. TaskType'
    BY <1>14 DEF AbsorbEnds, TypeOK, TaskType, Places, Suspended, Ended, Sync
  <2> QED  BY <2>1, <2>2 DEF TypeOK
<1>15. ASSUME StampCheck PROVE TypeOK'
  <2>1. QueueType' /\ FileType' /\ RunType'
    BY <1>15 DEF StampCheck, TypeOK, QueueType, FileType, RunType, queueVars, callerVars, taskVars, fileVars, runVars, feedVars
  <2>2. CallerType'
    <3>1. Notice \subseteq Ticket
      BY DEF Ticket, Req
    <3> QED  BY <1>15, <3>1 DEF StampCheck, TypeOK, CallerType, callerVars, Outcome
  <2>3. TaskType'
    <3>1. Notice \subseteq Req
      BY DEF Req
    <3>2. batch' \in Seq(Req)
      BY <1>15, <3>1 DEF StampCheck, TypeOK, TaskType
    <3> QED  BY <1>15, <3>2 DEF StampCheck, TypeOK, TaskType, Places, Suspended, Ended, Sync
  <2> QED  BY <2>1, <2>2, <2>3 DEF TypeOK
<1>16. ASSUME InsertBatch PROVE TypeOK'
  <2>1. QueueType'
    BY <1>16 DEF InsertBatch, TypeOK, QueueType, queueVars, callerVars, taskVars, fileVars, runVars, feedVars
  <2>2. CallerType'
    <3>1. PICK notice \in IF Closing = {} THEN {<<>>} ELSE Closing :
            /\ batch' = batch \o notice
            /\ fut' = [t \in Ticket |-> IF t \in ToSet(notice) THEN "pending" ELSE fut[t]]
      BY <1>16 DEF InsertBatch
    <3> QED  BY <1>16, <3>1 DEF InsertBatch, TypeOK, CallerType, callerVars, Outcome
  <2>3. TaskType'
    <3>1. PICK notice \in IF Closing = {} THEN {<<>>} ELSE Closing :
            /\ batch' = batch \o notice
            /\ fut' = [t \in Ticket |-> IF t \in ToSet(notice) THEN "pending" ELSE fut[t]]
      BY <1>16 DEF InsertBatch
    <3>2. Closing \subseteq Seq(Req)
      BY ClosingType
    <3>3. notice \in Seq(Req)
      BY <3>1, <3>2, EmptySeq
    <3>4. batch' \in Seq(Req)
      BY <3>1, <3>3, ConcatProperties DEF TypeOK, TaskType
    <3> QED  BY <1>16, <3>4 DEF InsertBatch, TypeOK, TaskType, Places, Suspended, Ended, Sync
  <2>4. FileType'
    <3>1. PICK notice \in IF Closing = {} THEN {<<>>} ELSE Closing :
            /\ batch' = batch \o notice
            /\ fut' = [t \in Ticket |-> IF t \in ToSet(notice) THEN "pending" ELSE fut[t]]
      BY <1>16 DEF InsertBatch
    <3>2. Closing \subseteq Seq(Req)
      BY ClosingType
    <3>3. notice \in Seq(Req)
      BY <3>1, <3>2, EmptySeq
    <3>4. batch' \in Seq(Req)
      BY <3>1, <3>3, ConcatProperties DEF TypeOK, TaskType
    <3>5. Len(batch') \in Nat
      BY <3>4
    <3>6. nextId' \in Nat \ {0}
      BY <1>16, <3>5 DEF InsertBatch, TypeOK, FileType
    <3>7. txId' = Given(batch')
      BY <1>16 DEF InsertBatch
    <3>8. txId' \in [Req -> Nat]
      BY <3>4, <3>7, GivenType DEF TypeOK
    <3> QED  BY <1>16, <3>6, <3>8 DEF InsertBatch, TypeOK, FileType
  <2>5. RunType'
    BY <1>16 DEF InsertBatch, TypeOK, RunType, runVars, feedVars, Lives
  <2> QED  BY <2>1, <2>2, <2>3, <2>4, <2>5 DEF TypeOK
<1>17. ASSUME InsertBusy PROVE TypeOK'
  <2>1. QueueType' /\ CallerType' /\ FileType'
    BY <1>17 DEF InsertBusy, TypeOK, QueueType, CallerType, FileType, queueVars, callerVars, taskVars, fileVars, runVars, feedVars
  <2>2. TaskType'
    BY <1>17 DEF InsertBusy, TypeOK, TaskType, Places, Suspended, Ended, Sync
  <2>3. RunType'
    BY <1>17 DEF InsertBusy, TypeOK, RunType, runVars, feedVars, Lives
  <2> QED  BY <2>1, <2>2, <2>3 DEF TypeOK
<1>18. ASSUME RetryInsert PROVE TypeOK'
  <2>1. QueueType' /\ CallerType' /\ FileType' /\ RunType'
    BY <1>18 DEF RetryInsert, TypeOK, QueueType, CallerType, FileType, RunType, queueVars, callerVars, taskVars, fileVars, runVars, feedVars
  <2>2. TaskType'
    BY <1>18 DEF RetryInsert, TypeOK, TaskType, Places, Suspended, Ended, Sync
  <2> QED  BY <2>1, <2>2 DEF TypeOK
<1>19. ASSUME ToRows PROVE TypeOK'
  <2>1. QueueType' /\ CallerType'
    BY <1>19 DEF ToRows, TypeOK, QueueType, CallerType, queueVars, callerVars, taskVars, fileVars, runVars, feedVars
  <2>2. TaskType'
    BY <1>19 DEF ToRows, TypeOK, TaskType, Places, Suspended, Ended, Sync
  <2>3. FileType'
    <3>1. PICK spent \in {0, Len(batch)} : nextId' = Max({nextId + spent, TopId + 1})
      BY <1>19 DEF ToRows
    <3>2. spent \in Nat
      BY <3>1 DEF TypeOK, TaskType
    <3>3. nextId' \in Nat \ {0}
      BY <3>1, <3>2, TopIdIsTop, MaxOfTwo DEF TypeOK, FileType
    <3> QED  BY <1>19, <3>3 DEF ToRows, TypeOK, FileType
  <2>4. RunType'
    BY <1>19 DEF ToRows, InsertRaises, TypeOK, RunType, runVars, feedVars
  <2> QED  BY <2>1, <2>2, <2>3, <2>4 DEF TypeOK
<1>20. ASSUME ResyncFails PROVE TypeOK'
  <2>1. QueueType'
    BY <1>20 DEF ResyncFails, TypeOK, QueueType, queueVars, callerVars, taskVars, fileVars, runVars, feedVars
  <2>2. CallerType'
    BY <1>20, ToldType DEF ResyncFails, TypeOK, CallerType, callerVars
  <2>3. TaskType'
    BY <1>20, BatchOverType, AfterBatchIsPlace DEF ResyncFails, TypeOK
  <2>4. FileType'
    <3>1. PICK spent \in {0, Len(batch)} : nextId' = nextId + spent
      BY <1>20 DEF ResyncFails
    <3>2. spent \in Nat
      BY <3>1 DEF TypeOK, TaskType
    <3>3. nextId' \in Nat \ {0}
      BY <3>1, <3>2 DEF TypeOK, FileType
    <3>4. txId' \in [Req -> Nat]
      BY <1>20, BatchOverType, AfterBatchIsPlace DEF ResyncFails, TypeOK
    <3> QED  BY <1>20, <3>3, <3>4 DEF ResyncFails, TypeOK, FileType
  <2>5. RunType'
    <3>1. Len(batch) \in Nat
      BY DEF TypeOK, TaskType
    <3>2. writeErrors' \in Nat
      BY <1>20, <3>1 DEF ResyncFails, TypeOK, RunType
    <3>3. lockedSince' \in BOOLEAN
      BY <1>20 DEF ResyncFails, InsertRaises, TypeOK, RunType
    <3> QED  BY <1>20, <3>2, <3>3 DEF ResyncFails, TypeOK, RunType, runVars, feedVars
  <2> QED  BY <2>1, <2>2, <2>3, <2>4, <2>5 DEF TypeOK
<1>21. ASSUME RowInserted PROVE TypeOK'
  <2>1. QueueType' /\ CallerType' /\ RunType'
    BY <1>21 DEF RowInserted, TypeOK, QueueType, CallerType, RunType, queueVars, callerVars, taskVars, fileVars, runVars, feedVars
  <2>2. TaskType'
    BY <1>21 DEF RowInserted, TypeOK, TaskType, Places, Suspended, Ended, Sync
  <2>3. FileType'
    <3>1. nextId' = nextId + 1 /\ txId' = [txId EXCEPT ![batch[row]] = nextId]
      BY <1>21 DEF RowInserted
    <3>2. nextId' \in Nat \ {0} /\ txId' \in [Req -> Nat]
      <4>1. nextId \in Nat \ {0} /\ txId \in [Req -> Nat]
        BY DEF TypeOK, FileType
      <4>2. nextId' \in Nat \ {0}
        BY <3>1, <4>1
      <4>3. txId' \in [Req -> Nat]
        BY <3>1, <4>1
      <4> QED  BY <4>2, <4>3
    <3> QED  BY <1>21, <3>2 DEF RowInserted, TypeOK, FileType
  <2> QED  BY <2>1, <2>2, <2>3 DEF TypeOK
<1>22. ASSUME RowRaises PROVE TypeOK'
  <2>1. QueueType' /\ CallerType' /\ FileType' /\ RunType'
    BY <1>22 DEF RowRaises, TypeOK, QueueType, CallerType, FileType, RunType, queueVars, callerVars, taskVars, fileVars, runVars, feedVars
  <2>2. TaskType'
    BY <1>22 DEF RowRaises, TypeOK, TaskType, Places, Suspended, Ended, Sync
  <2> QED  BY <2>1, <2>2 DEF TypeOK
<1>23. ASSUME RowsOver PROVE TypeOK'
  <2>1. QueueType' /\ CallerType' /\ FileType' /\ RunType'
    BY <1>23 DEF RowsOver, TypeOK, QueueType, CallerType, FileType, RunType, queueVars, callerVars, taskVars, fileVars, runVars, feedVars
  <2>2. TaskType'
    BY <1>23 DEF RowsOver, TypeOK, TaskType, Places, Suspended, Ended, Sync
  <2> QED  BY <2>1, <2>2 DEF TypeOK
<1>24. ASSUME Commit PROVE TypeOK'
  <2>1. QueueType' /\ CallerType' /\ RunType'
    BY <1>24 DEF Commit, TypeOK, QueueType, CallerType, RunType, queueVars, callerVars, taskVars, fileVars, runVars, feedVars
  <2>2. TaskType'
    BY <1>24 DEF Commit, TypeOK, TaskType, Places, Suspended, Ended, Sync
  <2>3. FileType'
    BY <1>24 DEF Commit, TypeOK, FileType
  <2> QED  BY <2>1, <2>2, <2>3 DEF TypeOK
<1>25. ASSUME CommitFails PROVE TypeOK'
  <2>1. QueueType'
    BY <1>25 DEF CommitFails, TypeOK, QueueType, queueVars, callerVars, taskVars, fileVars, runVars, feedVars
  <2>2. CallerType'
    BY <1>25, ToldType DEF CommitFails, TypeOK, CallerType, callerVars
  <2>3. TaskType'
    BY <1>25, BatchOverType, AfterBatchIsPlace DEF CommitFails, TypeOK
  <2>4. FileType'
    BY <1>25, BatchOverType, AfterBatchIsPlace DEF CommitFails, TypeOK, FileType
  <2>5. RunType'
    <3>1. Len(batch) \in Nat
      BY DEF TypeOK, TaskType
    <3> QED  BY <1>25, <3>1 DEF CommitFails, TypeOK, RunType, runVars, feedVars
  <2> QED  BY <2>1, <2>2, <2>3, <2>4, <2>5 DEF TypeOK
<1>26. ASSUME AnswerRow PROVE TypeOK'
  <2>1. QueueType' /\ FileType'
    BY <1>26 DEF AnswerRow, TypeOK, QueueType, FileType, queueVars, callerVars, taskVars, fileVars, runVars, feedVars
  <2>2. CallerType'
    BY <1>26, ToldType DEF AnswerRow, TypeOK, CallerType, callerVars
  <2>3. TaskType'
    <3>1. batch[row] \in Req
      BY <1>26 DEF AnswerRow, TypeOK, TaskType
    <3>2. CASE txId[batch[row]] = 0
      BY <1>26, <3>2 DEF AnswerRow, TypeOK, TaskType
    <3>3. CASE txId[batch[row]] # 0
      BY <1>26, <3>1, <3>3, SMTT(30) DEF AnswerRow, TypeOK, TaskType
    <3> QED  BY <3>2, <3>3
  <2>4. RunType'
    BY <1>26 DEF AnswerRow, TypeOK, RunType, runVars, feedVars, Lives
  <2> QED  BY <2>1, <2>2, <2>3, <2>4 DEF TypeOK
<1>27. ASSUME Broadcast PROVE TypeOK'
  <2>1. QueueType'
    BY <1>27 DEF Broadcast, TypeOK, QueueType, queueVars, callerVars, taskVars, fileVars, runVars, feedVars
  <2>2. CallerType'
    BY <1>27, ToldType DEF Broadcast, TypeOK, CallerType, callerVars
  <2>3. TaskType'
    BY <1>27, BatchOverType, AfterBatchIsPlace DEF Broadcast, TypeOK
  <2>4. FileType'
    BY <1>27, BatchOverType, AfterBatchIsPlace DEF Broadcast, TypeOK, FileType
  <2>5. RunType'
    <3>1. feed \o rows \in Seq(Req)
      BY ConcatProperties DEF TypeOK, RunType, TaskType
    <3> QED  BY <1>27, <3>1 DEF Broadcast, TypeOK, RunType, runVars
  <2> QED  BY <2>1, <2>2, <2>3, <2>4, <2>5 DEF TypeOK
<1>28. ASSUME BroadcastRaises PROVE TypeOK'
  <2>1. QueueType' /\ RunType'
    BY <1>28 DEF BroadcastRaises, TypeOK, QueueType, RunType, queueVars, callerVars, taskVars, fileVars, runVars, feedVars
  <2>2. CallerType'
    BY <1>28, ToldType DEF BroadcastRaises, TypeOK, CallerType, callerVars
  <2>3. TaskType'
    BY <1>28, BatchOverType DEF BroadcastRaises, TypeOK, Places, Ended
  <2>4. FileType'
    BY <1>28, BatchOverType DEF BroadcastRaises, TypeOK, FileType, Places, Ended
  <2> QED  BY <2>1, <2>2, <2>3, <2>4 DEF TypeOK
<1>29. ASSUME CancelWaiting PROVE TypeOK'
  <2>1. QueueType' /\ CallerType' /\ FileType' /\ RunType'
    BY <1>29 DEF CancelWaiting, TypeOK, QueueType, CallerType, FileType, RunType, queueVars, callerVars, taskVars, fileVars, runVars, feedVars
  <2>2. TaskType'
    BY <1>29 DEF CancelWaiting, TypeOK, TaskType, Places, Suspended, Ended, Sync
  <2> QED  BY <2>1, <2>2 DEF TypeOK
<1>30. ASSUME CancelHolding PROVE TypeOK'
  <2>1. QueueType'
    BY <1>30 DEF CancelHolding, TypeOK, QueueType, queueVars, callerVars, taskVars, fileVars, runVars, feedVars
  <2>2. CallerType'
    BY <1>30, ToldType DEF CancelHolding, TypeOK, CallerType, callerVars
  <2>3. TaskType'
    BY <1>30, BatchOverType DEF CancelHolding, TypeOK, Places, Ended
  <2>4. FileType'
    BY <1>30, BatchOverType DEF CancelHolding, TypeOK, FileType, Places, Ended
  <2>5. RunType'
    BY <1>30 DEF CancelHolding, TypeOK, RunType, runVars, feedVars, Lives
  <2> QED  BY <2>1, <2>2, <2>3, <2>4, <2>5 DEF TypeOK
<1>31. ASSUME CancelRetrying PROVE TypeOK'
  <2>1. QueueType'
    BY <1>31 DEF CancelRetrying, TypeOK, QueueType, queueVars, callerVars, taskVars, fileVars, runVars, feedVars
  <2>2. CallerType'
    BY <1>31, ToldType DEF CancelRetrying, TypeOK, CallerType, callerVars
  <2>3. TaskType'
    BY <1>31, BatchOverType DEF CancelRetrying, TypeOK, Places, Ended
  <2>4. FileType'
    BY <1>31, BatchOverType DEF CancelRetrying, TypeOK, FileType, Places, Ended
  <2>5. RunType'
    <3>1. Cardinality(Pending(batch)) \in Nat
      BY PendingFinite DEF TypeOK, TaskType
    <3> QED  BY <1>31, <3>1 DEF CancelRetrying, TypeOK, RunType, runVars, feedVars
  <2> QED  BY <2>1, <2>2, <2>3, <2>4, <2>5 DEF TypeOK
<1>32. ASSUME WriterExited PROVE TypeOK'
  <2>1. FileType'
    BY <1>32 DEF WriterExited, TypeOK, FileType, queueVars, callerVars, taskVars, fileVars, runVars, feedVars
  <2>2. QueueType'
    BY <1>32, FailQueuedType DEF WriterExited
  <2>3. CallerType'
    BY <1>32, FailQueuedType DEF WriterExited, TypeOK, CallerType, callerVars
  <2>4. TaskType'
    BY <1>32 DEF WriterExited, TypeOK, TaskType, Places, Suspended, Ended, Sync
  <2>5. RunType'
    BY <1>32, FailQueuedType DEF WriterExited, TypeOK, RunType, runVars, feedVars, Lives
  <2> QED  BY <2>1, <2>2, <2>3, <2>4, <2>5 DEF TypeOK
<1>33. ASSUME FailCapture PROVE TypeOK'
  <2>1. QueueType' /\ CallerType' /\ FileType'
    BY <1>33 DEF FailCapture, TypeOK, QueueType, CallerType, FileType, queueVars, callerVars, taskVars, fileVars, runVars, feedVars
  <2>2. TaskType'
    BY <1>33 DEF FailCapture, TypeOK, TaskType, WriterAlive
  <2>3. RunType'
    BY <1>33 DEF FailCapture, TypeOK, RunType, runVars, feedVars, Lives
  <2> QED  BY <2>1, <2>2, <2>3 DEF TypeOK
<1>34. ASSUME CaptureFailed PROVE TypeOK'
  <2>1. TaskType' /\ FileType'
    BY <1>34 DEF CaptureFailed, TypeOK, TaskType, FileType, queueVars, callerVars, taskVars, fileVars, runVars, feedVars
  <2>2. QueueType'
    BY <1>34, FailQueuedType DEF CaptureFailed
  <2>3. CallerType'
    BY <1>34, FailQueuedType DEF CaptureFailed, TypeOK, CallerType, callerVars
  <2>4. RunType'
    BY <1>34, FailQueuedType DEF CaptureFailed, TypeOK, RunType, runVars, feedVars, Lives
  <2> QED  BY <2>1, <2>2, <2>3, <2>4 DEF TypeOK
<1>35. ASSUME Stop PROVE TypeOK'
  <2>1. CallerType' /\ FileType'
    BY <1>35 DEF Stop, TypeOK, CallerType, FileType, queueVars, callerVars, taskVars, fileVars, runVars, feedVars
  <2>2. QueueType'
    <3>1. QueueType /\ UNCHANGED <<putters, woken>>
      BY <1>35 DEF Stop, TypeOK
    <3>2. queue' = queue \/ queue' = Append(queue, Sentinel)
      BY <1>35 DEF Stop
    <3>3. queue \in Seq(Ticket \cup {Sentinel}) /\ Sentinel \in Ticket \cup {Sentinel}
      BY <3>1 DEF QueueType
    <3>4. queue' \in Seq(Ticket \cup {Sentinel})
      BY <3>2, <3>3, AppendProperties
    <3> QED  BY <3>1, <3>4 DEF QueueType
  <2>3. TaskType'
    BY <1>35 DEF Stop, TypeOK, TaskType, WriterAlive
  <2>4. RunType'
    BY <1>35 DEF Stop, TypeOK, RunType, runVars, feedVars, Lives
  <2> QED  BY <2>1, <2>2, <2>3, <2>4 DEF TypeOK
<1>36. ASSUME StopDeadline PROVE TypeOK'
  <2>1. QueueType' /\ CallerType' /\ FileType' /\ RunType'
    BY <1>36 DEF StopDeadline, TypeOK, QueueType, CallerType, FileType, RunType, queueVars, callerVars, taskVars, fileVars, runVars, feedVars
  <2>2. TaskType'
    BY <1>36 DEF StopDeadline, TypeOK, TaskType, Places, Suspended, Ended, Sync
  <2> QED  BY <2>1, <2>2 DEF TypeOK
<1>37. ASSUME Stopped PROVE TypeOK'
  <2>1. TaskType' /\ FileType'
    BY <1>37 DEF Stopped, TypeOK, TaskType, FileType, queueVars, callerVars, taskVars, fileVars, runVars, feedVars
  <2>2. QueueType'
    BY <1>37, FailQueuedType DEF Stopped
  <2>3. CallerType'
    BY <1>37, FailQueuedType DEF Stopped, TypeOK, CallerType, callerVars
  <2>4. RunType'
    BY <1>37, FailQueuedType DEF Stopped, TypeOK, RunType, runVars, feedVars, Lives
  <2> QED  BY <2>1, <2>2, <2>3, <2>4 DEF TypeOK
<1>38. ASSUME CloseFeed PROVE TypeOK'
  <2>1. QueueType' /\ CallerType' /\ TaskType' /\ FileType'
    BY <1>38 DEF CloseFeed, TypeOK, QueueType, CallerType, TaskType, FileType, queueVars, callerVars, taskVars, fileVars, runVars, feedVars
  <2>2. RunType'
    BY <1>38 DEF CloseFeed, TypeOK, RunType, runVars, feedVars, Lives
  <2> QED  BY <2>1, <2>2 DEF TypeOK
<1>39. ASSUME Kill PROVE TypeOK'
  <2>1. QueueType'
    BY <1>39, MemoryLostType DEF Kill, Places, Sync
  <2>2. CallerType'
    BY <1>39, MemoryLostType DEF Kill, Places, Sync, TypeOK, CallerType
  <2>3. TaskType'
    BY <1>39, MemoryLostType DEF Kill, Places, Sync
  <2>4. FileType'
    BY <1>39, MemoryLostType, TopIdIsTop DEF Kill, Places, Sync, TypeOK, FileType
  <2>5. RunType'
    BY <1>39, MemoryLostType, TopIdIsTop DEF Kill, Places, Sync, TypeOK, RunType, Lives
  <2> QED  BY <2>1, <2>2, <2>3, <2>4, <2>5 DEF TypeOK
<1>40. ASSUME Start PROVE TypeOK'
  <2>1. QueueType'
    BY <1>40, MemoryLostType DEF Start, Places, Sync
  <2>2. CallerType'
    BY <1>40, MemoryLostType DEF Start, Places, Sync, TypeOK, CallerType
  <2>3. TaskType'
    BY <1>40, MemoryLostType DEF Start, Places, Sync
  <2>4. FileType'
    BY <1>40, MemoryLostType, TopIdIsTop DEF Start, Places, Sync, TypeOK, FileType
  <2>5. RunType'
    BY <1>40, MemoryLostType, TopIdIsTop DEF Start, Places, Sync, TypeOK, RunType, Lives
  <2> QED  BY <2>1, <2>2, <2>3, <2>4, <2>5 DEF TypeOK
<1>41. ASSUME ForeignLock PROVE TypeOK'
  <2>1. QueueType' /\ CallerType' /\ TaskType' /\ RunType'
    BY <1>41 DEF ForeignLock, TypeOK, QueueType, CallerType, TaskType, RunType, queueVars, callerVars, taskVars, fileVars, runVars, feedVars
  <2>2. FileType'
    BY <1>41 DEF ForeignLock, TypeOK, FileType, fileVars
  <2> QED  BY <2>1, <2>2 DEF TypeOK
<1>42. ASSUME ForeignUnlock PROVE TypeOK'
  <2>1. QueueType' /\ CallerType' /\ TaskType' /\ RunType'
    BY <1>42 DEF ForeignUnlock, TypeOK, QueueType, CallerType, TaskType, RunType, queueVars, callerVars, taskVars, fileVars, runVars, feedVars
  <2>2. FileType'
    BY <1>42 DEF ForeignUnlock, TypeOK, FileType, fileVars
  <2> QED  BY <2>1, <2>2 DEF TypeOK
<1>43. ASSUME ForeignRow PROVE TypeOK'
  <2>1. QueueType' /\ CallerType' /\ TaskType' /\ RunType'
    BY <1>43 DEF ForeignRow, TypeOK, QueueType, CallerType, TaskType, RunType, queueVars, callerVars, taskVars, fileVars, runVars, feedVars
  <2>2. FileType'
    <3>1. TopId + 1 \in Nat \ {0}
      BY TopIdIsTop
    <3>2. foreign' \in SUBSET (Nat \ {0})
      BY <1>43, <3>1 DEF ForeignRow, TypeOK, FileType
    <3> QED  BY <1>43, <3>2 DEF ForeignRow, TypeOK, FileType, fileVars
  <2> QED  BY <2>1, <2>2 DEF TypeOK
<1>44. ASSUME UNCHANGED vars PROVE TypeOK'
  BY <1>44 DEF vars, TypeOK, QueueType, CallerType, TaskType, FileType, RunType, queueVars, callerVars, taskVars, fileVars, runVars, feedVars
<1> QED
  BY <1>1, <1>2, <1>3, <1>4, <1>5, <1>6, <1>7, <1>8, <1>9, <1>10, <1>11, <1>12,
     <1>13, <1>14, <1>15, <1>16, <1>17, <1>18, <1>19, <1>20, <1>21, <1>22, <1>23,
     <1>24, <1>25, <1>26, <1>27, <1>28, <1>29, <1>30, <1>31, <1>32, <1>33, <1>34,
     <1>35, <1>36, <1>37, <1>38, <1>39, <1>40, <1>41, <1>42, <1>43, <1>44
     DEF Next, Callers, Writer, Daemon, Others

-------------------------------------------------------------------------------
(* The ids. RowIdsDistinct and SequenceAhead are not inductive by themselves:
   a commit turns the ids of the open transaction into ids of the file, so
   those must be distinct and unused (TxDistinct, TxFresh), and forgotten by
   the time the next transaction opens (TxIdle). *)

InTx == {"rows", "commit"}

TxIdle == pc \notin InTx \cup {"settle"} => txId = NoRows

TxFresh == pc \in InTx => \A r \in Req : txId[r] # 0 => txId[r] \notin Ids

TxDistinct == \A r, s \in Req : txId[r] # 0 /\ txId[r] = txId[s] => r = s

IdInv ==
  /\ SequenceAhead /\ FileBounded /\ RowIdsDistinct
  /\ TxIdle /\ TxFresh /\ TxDistinct

LEMMA IdInit == Init => IdInv
<1> SUFFICES ASSUME Init PROVE IdInv
  OBVIOUS
<1>1. /\ nextId = 1 /\ foreign = {} /\ pc = "top"
      /\ txId = [r \in Req |-> 0] /\ rowId = [r \in Req |-> 0]
  BY DEF Init
<1>2. \A id \in Ids : id <= 0
  BY <1>1 DEF Ids
<1>3. FileBounded
  BY <1>2 DEF FileBounded
<1>4. SequenceAhead /\ RowIdsDistinct
  BY <1>1 DEF SequenceAhead, RowIdsDistinct
<1>5. TxIdle /\ TxFresh /\ TxDistinct
  BY <1>1 DEF TxIdle, TxFresh, TxDistinct, InTx, NoRows
<1> QED  BY <1>3, <1>4, <1>5 DEF IdInv

(* A step that leaves the file and the open transaction alone. *)
LEMMA QuietStep ==
  ASSUME IdInv, UNCHANGED fileVars,
         pc' \in InTx => pc \in InTx,
         pc \in InTx \cup {"settle"} => pc' \in InTx \cup {"settle"},
         pc = "down" => pc' = "down"
  PROVE  IdInv'
<1> USE DEF fileVars
<1>1. SequenceAhead' /\ RowIdsDistinct' /\ TxDistinct'
  BY DEF IdInv, SequenceAhead, RowIdsDistinct, TxDistinct
<1>2. Ids' = Ids
  BY DEF Ids
<1>3. FileBounded'
  BY <1>2 DEF IdInv, FileBounded
<1>4. TxIdle' /\ TxFresh'
  BY <1>2 DEF IdInv, TxIdle, TxFresh, NoRows
<1> QED  BY <1>1, <1>3, <1>4 DEF IdInv

(* A step that closes the transaction, or rolls it back, and keeps the file. *)
LEMMA ClosingStep ==
  ASSUME TypeOK, IdInv, UNCHANGED <<rowId, foreign>>, txId' = NoRows,
         nextId' \in Nat \ {0}, pc' \notin InTx \cup {"settle"},
         pc' # "down" => \A r \in Req : rowId[r] < nextId'
  PROVE  IdInv'
<1>1. RowIdsDistinct'
  BY DEF IdInv, RowIdsDistinct
<1>2. Ids' = Ids
  BY DEF Ids
<1>3. FileBounded'
  BY <1>2 DEF IdInv, FileBounded
<1>4. TxIdle' /\ TxFresh' /\ TxDistinct'
  BY DEF TxIdle, TxFresh, TxDistinct, NoRows, InTx
<1>5. SequenceAhead'
  BY DEF SequenceAhead, NoRows
<1> QED  BY <1>1, <1>3, <1>4, <1>5 DEF IdInv

LEMMA BatchOverCloses ==
  ASSUME TypeOK, IdInv, pc # "down", NEW next, next \notin InTx \cup {"settle", "down"},
         BatchOver(next), UNCHANGED <<nextId, rowId, foreign>>
  PROVE  IdInv'
<1>1. txId' = NoRows /\ pc' = next
  BY DEF BatchOver
<1>2. \A r \in Req : rowId[r] < nextId'
  BY DEF IdInv, SequenceAhead
<1>3. nextId' \in Nat \ {0}
  BY DEF TypeOK, FileType
<1> QED  BY <1>1, <1>2, <1>3, ClosingStep

LEMMA AfterBatchCloses == AfterBatch \notin InTx \cup {"settle", "down"}
BY DEF AfterBatch, InTx

LEMMA GivenDistinct ==
  ASSUME TypeOK, NEW s \in Seq(Req), NEW q \in Req, NEW r \in Req,
         Given(s)[q] # 0, Given(s)[q] = Given(s)[r]
  PROVE  q = r
<1>1. q \in ToSet(s) /\ r \in ToSet(s)
  BY GivenType
<1> DEFINE iq == CHOOSE k \in DOMAIN s : s[k] = q
           ir == CHOOSE k \in DOMAIN s : s[k] = r
<1>2. iq \in 1 .. Len(s) /\ s[iq] = q /\ ir \in 1 .. Len(s) /\ s[ir] = r
  BY <1>1 DEF ToSet
<1>3. Given(s)[q] = nextId - 1 + iq /\ Given(s)[r] = nextId - 1 + ir
  BY <1>1 DEF Given
<1>4. nextId \in Nat
  BY DEF TypeOK, FileType
<1>5. iq = ir
  <2>1. nextId - 1 + iq = nextId - 1 + ir
    BY <1>3
  <2>2. iq \in Nat /\ ir \in Nat
    BY <1>2, LenProperties
  <2> HIDE DEF iq, ir
  <2> QED  BY <2>1, <2>2, <1>4
<1> QED  BY <1>2, <1>5

LEMMA InsertBatchIds ==
  ASSUME TypeOK, IdInv, InsertBatch
  PROVE  IdInv'
<1>1. PICK notice \in IF Closing = {} THEN {<<>>} ELSE Closing :
        ~Collides(Len(batch) + Len(notice)) /\ batch' = batch \o notice
  BY DEF InsertBatch
<1>2. notice \in Seq(Req) /\ batch \in Seq(Req)
  BY <1>1, ClosingType, EmptySeq DEF TypeOK, TaskType
<1>3. batch' \in Seq(Req) /\ Len(batch') = Len(batch) + Len(notice) /\ Len(batch') \in Nat
  BY <1>1, <1>2, ConcatProperties, LenProperties
<1>4. txId' = Given(batch') /\ nextId' = nextId + Len(batch') /\ UNCHANGED <<rowId, foreign>>
  BY DEF InsertBatch
<1>5. pc = "insert" /\ pc' = "commit"
  BY DEF InsertBatch
<1>6. nextId \in Nat \ {0} /\ rowId \in [Req -> Nat]
  BY DEF TypeOK, FileType
<1>7. \A id \in nextId .. nextId + Len(batch') - 1 : id \notin Ids
  BY <1>1, <1>3 DEF Collides
<1>8. \A r \in Req : /\ txId'[r] \in Nat
                     /\ txId'[r] # 0 => txId'[r] >= nextId /\ txId'[r] < nextId'
  BY <1>3, <1>4, GivenType
<1>9. Ids' = Ids
  BY <1>4 DEF Ids
<1>10. TxFresh'
  <2> SUFFICES ASSUME NEW r \in Req, txId'[r] # 0 PROVE txId'[r] \notin Ids
    BY <1>9 DEF TxFresh
  <2>1. txId'[r] \in nextId .. nextId + Len(batch') - 1
    BY <1>3, <1>4, <1>6, <1>8
  <2> QED  BY <1>7, <2>1
<1>11. TxDistinct'
  BY <1>3, <1>4, GivenDistinct DEF TxDistinct
<1>12. TxIdle'
  BY <1>5 DEF TxIdle, InTx
<1>13. SequenceAhead'
  <2> SUFFICES ASSUME NEW r \in Req PROVE rowId[r] < nextId' /\ txId'[r] < nextId'
    BY <1>4 DEF SequenceAhead
  <2>1. rowId[r] < nextId
    BY <1>5 DEF IdInv, SequenceAhead
  <2> QED  BY <1>3, <1>4, <1>6, <1>8, <2>1
<1>14. FileBounded' /\ RowIdsDistinct'
  BY <1>4, <1>9 DEF IdInv, FileBounded, RowIdsDistinct
<1> QED  BY <1>10, <1>11, <1>12, <1>13, <1>14 DEF IdInv

LEMMA ToRowsIds ==
  ASSUME TypeOK, IdInv, ToRows
  PROVE  IdInv'
<1>1. PICK spent \in {0, Len(batch)} : nextId' = Max({nextId + spent, TopId + 1})
  BY DEF ToRows
<1>2. pc = "insert" /\ pc' = "rows" /\ UNCHANGED <<txId, rowId, foreign>>
  BY DEF ToRows, InsertRaises
<1>3. nextId \in Nat /\ spent \in Nat /\ TopId \in Nat
  BY <1>1, TopIdIsTop DEF TypeOK, FileType, TaskType, IdInv
<1>4. nextId' \in Nat /\ nextId' >= nextId
  BY <1>1, <1>3, MaxOfTwo
<1>5. txId = NoRows
  BY <1>2 DEF IdInv, TxIdle, InTx
<1>6. Ids' = Ids
  BY <1>2 DEF Ids
<1>7. SequenceAhead'
  <2>1. \A r \in Req : rowId[r] < nextId /\ txId[r] < nextId
    BY <1>2 DEF IdInv, SequenceAhead
  <2>2. rowId \in [Req -> Nat] /\ txId \in [Req -> Nat]
    BY DEF TypeOK, FileType
  <2> QED  BY <1>2, <1>3, <1>4, <2>1, <2>2 DEF SequenceAhead
<1>8. FileBounded' /\ RowIdsDistinct' /\ TxDistinct'
  BY <1>2, <1>6 DEF IdInv, FileBounded, RowIdsDistinct, TxDistinct
<1>9. TxIdle' /\ TxFresh'
  BY <1>2, <1>5 DEF TxIdle, TxFresh, InTx, NoRows
<1> QED  BY <1>7, <1>8, <1>9 DEF IdInv

LEMMA RowInsertedIds ==
  ASSUME TypeOK, IdInv, RowInserted
  PROVE  IdInv'
<1> DEFINE x == batch[row]
<1>1. x \in Req
  BY DEF RowInserted, TypeOK, TaskType
<1>2. /\ pc = "rows" /\ pc' = "rows" /\ nextId \notin Ids
      /\ txId' = [txId EXCEPT ![x] = nextId] /\ nextId' = nextId + 1
      /\ UNCHANGED <<rowId, foreign>>
  BY DEF RowInserted
<1>3. nextId \in Nat \ {0} /\ rowId \in [Req -> Nat] /\ txId \in [Req -> Nat]
  BY DEF TypeOK, FileType
<1>4. \A r \in Req : rowId[r] < nextId /\ txId[r] < nextId
  BY <1>2 DEF IdInv, SequenceAhead
<1>5. \A r \in Req : txId'[r] = IF r = x THEN nextId ELSE txId[r]
  BY <1>2, <1>3
<1> HIDE DEF x
<1>6. Ids' = Ids
  BY <1>2 DEF Ids
<1>7. SequenceAhead'
  BY <1>2, <1>3, <1>4, <1>5 DEF SequenceAhead
<1>8. TxDistinct'
  BY <1>3, <1>4, <1>5 DEF IdInv, TxDistinct
<1>9. TxFresh'
  BY <1>2, <1>5, <1>6 DEF IdInv, TxFresh, InTx
<1>10. TxIdle' /\ FileBounded' /\ RowIdsDistinct'
  BY <1>2, <1>6 DEF IdInv, TxIdle, InTx, FileBounded, RowIdsDistinct
<1> QED  BY <1>7, <1>8, <1>9, <1>10 DEF IdInv

LEMMA CommitIds ==
  ASSUME TypeOK, IdInv, Commit
  PROVE  IdInv'
<1>1. /\ pc = "commit" /\ pc' = "settle" /\ UNCHANGED <<nextId, txId, foreign>>
      /\ rowId' = [r \in Req |-> IF txId[r] # 0 THEN txId[r] ELSE rowId[r]]
  BY DEF Commit
<1>2. nextId \in Nat \ {0} /\ rowId \in [Req -> Nat] /\ txId \in [Req -> Nat]
  BY DEF TypeOK, FileType
<1>3. \A r \in Req : rowId[r] < nextId /\ txId[r] < nextId
  BY <1>1 DEF IdInv, SequenceAhead
<1>4. \A r \in Req : rowId'[r] = IF txId[r] # 0 THEN txId[r] ELSE rowId[r]
  BY <1>1
<1>5. \A r \in Req : txId[r] # 0 => /\ txId[r] \notin foreign
                                   /\ \A s \in Req : txId[r] # rowId[s]
  BY <1>1 DEF IdInv, TxFresh, InTx, Ids
<1>6. SequenceAhead'
  BY <1>1, <1>3, <1>4 DEF SequenceAhead
<1>7. RowIdsDistinct'
  BY <1>1, <1>4, <1>5 DEF IdInv, RowIdsDistinct, TxDistinct
<1>8. FileBounded'
  <2>1. PICK B \in Nat : \A id \in Ids : id <= B
    BY DEF IdInv, FileBounded
  <2>2. \A id \in Ids' : id <= B + nextId
    <3> SUFFICES ASSUME NEW id \in Ids' PROVE id <= B + nextId
      OBVIOUS
    <3>1. CASE id \in foreign
      <4>1. foreign \in SUBSET Nat
        BY DEF TypeOK, FileType
      <4>2. id \in Nat /\ id <= B
        BY <2>1, <3>1, <4>1 DEF Ids
      <4> QED  BY <1>2, <4>2
    <3>2. CASE \E r \in Req : id = rowId'[r]
      <4>1. PICK r \in Req : id = rowId'[r]
        BY <3>2
      <4>2. id \in Nat /\ id < nextId
        BY <1>2, <1>3, <1>4, <4>1
      <4> QED  BY <1>2, <2>1, <4>2
    <3> QED  BY <1>1, <3>1, <3>2 DEF Ids
  <2>3. B + nextId \in Nat
    BY <1>2, <2>1
  <2> QED  BY <2>2, <2>3 DEF FileBounded
<1>9. TxIdle' /\ TxFresh' /\ TxDistinct'
  BY <1>1 DEF IdInv, TxIdle, TxFresh, TxDistinct, InTx
<1> QED  BY <1>6, <1>7, <1>8, <1>9 DEF IdInv

LEMMA ForeignRowIds ==
  ASSUME TypeOK, IdInv, ForeignRow
  PROVE  IdInv'
<1>1. /\ UNCHANGED <<pc, nextId, txId, rowId>> /\ ~TxOpen
      /\ foreign' = foreign \cup {TopId + 1}
  BY DEF ForeignRow, taskVars
<1>2. TopId \in Nat /\ (\A id \in Ids : id <= TopId)
  BY TopIdIsTop DEF IdInv
<1>3. rowId \in [Req -> Nat] /\ foreign \in SUBSET Nat
  BY DEF TypeOK, FileType
<1>4. \A r \in Req : rowId[r] # TopId + 1
  BY <1>2, <1>3 DEF Ids
<1>5. RowIdsDistinct'
  BY <1>1, <1>4 DEF IdInv, RowIdsDistinct
<1>6. Ids' = Ids \cup {TopId + 1} /\ Ids \in SUBSET Nat
  BY <1>1, <1>3 DEF Ids
<1>7. \A id \in Ids' : id <= TopId + 1
  BY <1>2, <1>6
<1>8. FileBounded'
  BY <1>2, <1>7 DEF FileBounded
<1>9. SequenceAhead' /\ TxIdle' /\ TxDistinct'
  BY <1>1 DEF IdInv, SequenceAhead, TxIdle, TxDistinct, NoRows
<1>10. TxFresh'
  BY <1>1 DEF TxOpen, TxFresh, InTx
<1> QED  BY <1>5, <1>8, <1>9, <1>10 DEF IdInv

LEMMA KillIds ==
  ASSUME TypeOK, IdInv, Kill
  PROVE  IdInv'
<1>1. /\ pc' = "down" /\ txId' = NoRows /\ nextId' = 1 /\ UNCHANGED <<rowId, foreign>>
  BY DEF Kill, MemoryLost
<1> QED  BY <1>1, ClosingStep DEF InTx

LEMMA StartIds ==
  ASSUME TypeOK, IdInv, Start
  PROVE  IdInv'
<1>1. pc' = "top" /\ txId' = NoRows /\ nextId' = TopId + 1 /\ UNCHANGED <<rowId, foreign>>
  BY DEF Start, MemoryLost
<1>2. TopId \in Nat /\ (\A r \in Req : rowId[r] <= TopId)
  BY TopIdIsTop DEF IdInv, Ids
<1>3. rowId \in [Req -> Nat]
  BY DEF TypeOK, FileType
<1>4. nextId' \in Nat \ {0} /\ (\A r \in Req : rowId[r] < nextId')
  BY <1>1, <1>2, <1>3
<1> QED  BY <1>1, <1>4, ClosingStep DEF InTx

LEMMA ResyncFailsIds ==
  ASSUME TypeOK, IdInv, ResyncFails
  PROVE  IdInv'
<1>1. PICK spent \in {0, Len(batch)} : nextId' = nextId + spent
  BY DEF ResyncFails
<1>2. /\ pc = "insert" /\ BatchOver(AfterBatch) /\ UNCHANGED <<rowId, foreign>>
  BY DEF ResyncFails, InsertRaises
<1>3. spent \in Nat /\ nextId \in Nat \ {0} /\ rowId \in [Req -> Nat]
  BY <1>1 DEF TypeOK, TaskType, FileType
<1>4. \A r \in Req : rowId[r] < nextId
  BY <1>2 DEF IdInv, SequenceAhead
<1>5. nextId' \in Nat \ {0} /\ (\A r \in Req : rowId[r] < nextId')
  BY <1>1, <1>3, <1>4
<1>6. txId' = NoRows /\ pc' = AfterBatch
  BY <1>2 DEF BatchOver
<1> QED  BY <1>2, <1>5, <1>6, AfterBatchCloses, ClosingStep

(* Each action keeps the invariant of the ids. *)
LEMMA IdStep == TypeOK /\ IdInv /\ [Next]_vars => IdInv'
<1> SUFFICES ASSUME TypeOK, IdInv, [Next]_vars PROVE IdInv'
  OBVIOUS
<1> USE DEF InTx
<1>1. ASSUME Callers PROVE IdInv'
  <2>1. UNCHANGED fileVars /\ UNCHANGED pc
    BY <1>1 DEF Callers, PutResumes, Submit, DrainWrites, GiveUp, Withdraw, taskVars
  <2> QED  BY <2>1, QuietStep
<1>2. ASSUME Wait \/ TakeSentinel \/ TakeBarrier \/ TakeLine \/ HoldOver PROVE IdInv'
  <2>1. /\ UNCHANGED fileVars /\ pc \in {"top", "wait", "hold"}
        /\ pc' \in {"top", "wait", "hold", "absorb", "exited"}
    BY <1>2 DEF Wait, TakeSentinel, TakeBarrier, TakeLine, HoldOver, CanTake
  <2> QED  BY <2>1, QuietStep
<1>3. ASSUME AbsorbLine \/ AbsorbSentinel \/ AbsorbBarrier \/ AbsorbEnds \/ StampCheck
      PROVE  IdInv'
  <2>1. /\ UNCHANGED fileVars /\ pc \in {"absorb", "stamp"}
        /\ pc' \in {"absorb", "stamp", "insert"}
    BY <1>3 DEF AbsorbLine, AbsorbSentinel, AbsorbBarrier, AbsorbEnds, StampCheck, Absorbing
  <2> QED  BY <2>1, QuietStep
<1>4. ASSUME InsertBusy \/ RetryInsert PROVE IdInv'
  <2>1. UNCHANGED fileVars /\ pc \in {"insert", "busy"} /\ pc' \in {"insert", "busy"}
    BY <1>4 DEF InsertBusy, RetryInsert
  <2> QED  BY <2>1, QuietStep
<1>5. ASSUME RowRaises \/ RowsOver PROVE IdInv'
  <2>1. UNCHANGED fileVars /\ pc = "rows" /\ pc' \in InTx
    BY <1>5 DEF RowRaises, RowsOver
  <2> QED  BY <2>1, QuietStep
<1>6. ASSUME AnswerRow PROVE IdInv'
  <2>1. UNCHANGED fileVars /\ pc = "settle" /\ pc' = "settle"
    BY <1>6 DEF AnswerRow
  <2> QED  BY <2>1, QuietStep
<1>7. ASSUME CommitFails \/ Broadcast PROVE IdInv'
  <2>1. /\ BatchOver(AfterBatch) /\ UNCHANGED <<nextId, rowId, foreign>>
        /\ pc # "down"
    BY <1>7 DEF CommitFails, Broadcast
  <2> QED  BY <2>1, AfterBatchCloses, BatchOverCloses
<1>8. ASSUME BroadcastRaises PROVE IdInv'
  <2>1. BatchOver("died") /\ UNCHANGED <<nextId, rowId, foreign>> /\ pc # "down"
    BY <1>8 DEF BroadcastRaises
  <2> QED  BY <2>1, BatchOverCloses
<1>9. ASSUME CancelHolding \/ CancelRetrying PROVE IdInv'
  <2>1. BatchOver("cancelled") /\ UNCHANGED <<nextId, rowId, foreign>> /\ pc # "down"
    BY <1>9 DEF CancelHolding, CancelRetrying
  <2> QED  BY <2>1, BatchOverCloses
<1>10. ASSUME CancelWaiting \/ WriterExited PROVE IdInv'
  <2>1. /\ UNCHANGED fileVars /\ pc \in {"wait", "died"} /\ pc' \in {"cancelled", "dead"}
    BY <1>10 DEF CancelWaiting, WriterExited
  <2> QED  BY <2>1, QuietStep
<1>11. ASSUME FailCapture \/ CaptureFailed \/ Stop \/ StopDeadline \/ Stopped \/ CloseFeed
       PROVE  IdInv'
  <2>1. UNCHANGED fileVars /\ UNCHANGED pc
    BY <1>11 DEF FailCapture, CaptureFailed, Stop, StopDeadline, Stopped, CloseFeed, taskVars
  <2> QED  BY <2>1, QuietStep
<1>12. ASSUME ForeignLock \/ ForeignUnlock PROVE IdInv'
  <2>1. UNCHANGED fileVars /\ UNCHANGED pc
    BY <1>12 DEF ForeignLock, ForeignUnlock, taskVars
  <2> QED  BY <2>1, QuietStep
<1>13. ASSUME UNCHANGED vars PROVE IdInv'
  <2>1. UNCHANGED fileVars /\ UNCHANGED pc
    BY <1>13 DEF vars, taskVars
  <2> QED  BY <2>1, QuietStep
<1> QED
  BY <1>1, <1>2, <1>3, <1>4, <1>5, <1>6, <1>7, <1>8, <1>9, <1>10, <1>11, <1>12, <1>13,
     InsertBatchIds, ToRowsIds, RowInsertedIds, CommitIds, ResyncFailsIds, ForeignRowIds,
     KillIds, StartIds
     DEF Next, Writer, Daemon, Others

-------------------------------------------------------------------------------
(* The theorems. *)

LEMMA Invariance == Spec => [](TypeOK /\ IdInv)
<1>1. Init => TypeOK /\ IdInv
  BY TypeInit, IdInit
<1>2. TypeOK /\ IdInv /\ [Next]_vars => (TypeOK /\ IdInv)'
  BY TypeStep, IdStep DEF IdInv
<1> QED  BY <1>1, <1>2, PTL DEF Spec

(* Every variable of the writer holds what its comment says, in every run of
   the daemon, whatever goes wrong. *)
THEOREM TypeCorrect == Spec => []TypeOK
BY Invariance, PTL

(* Rows are never stored under one id, not even with another program's row,
   and the Python-owned sequence is ahead of every row of the writer's own:
   for any number of callers, notices, restarts and foreign rows. *)
THEOREM IdsAlwaysSound == Spec => []IdsSound
<1>1. IdInv => IdsSound
  BY DEF IdInv, IdsSound
<1> QED  BY <1>1, Invariance, PTL

-------------------------------------------------------------------------------
(* Where a ticket is. *)

Queued  == ToSet(queue)
Batched == ToSet(batch)

Distinct(s) == \A i, j \in DOMAIN s : s[i] = s[j] => i = j

QueuedOnce == \A i, j \in DOMAIN queue : queue[i] = queue[j] /\ queue[i] # Sentinel => i = j

SuspendedOnce ==
  Distinct(putters) /\ Distinct(woken) /\ ToSet(putters) \cap ToSet(woken) = {}

Apart ==
  /\ Queued \cap Batched = {} /\ Suspending \cap Queued = {} /\ Suspending \cap Batched = {}
  /\ barrier \in Barrier => barrier \notin Suspending \cup Queued

InOnePlace == QueuedOnce /\ Distinct(batch) /\ SuspendedOnce /\ Apart

(* What the caller has been told by then. *)
Awaited == {"pending", "cancelled"}

Answered(i) == pc = "settle" /\ i < row

SuspendedPend == \A t \in Suspending : fut[t] = "pending"
QueuedAwait == \A t \in Ticket : t \in Queued => fut[t] \in Awaited
BatchedAwait == \A i \in DOMAIN batch :
                  fut[batch[i]] \in (IF Answered(i) THEN {"row", "error", "cancelled"} ELSE Awaited)
BarrierAsked == barrier \in Barrier => fut[barrier] # "none"
Numbered == \A c \in Caller, i \in 1 .. LinesEach : fut[<<c, i>>] = "none" <=> i > sent[c]

ToldSoFar == SuspendedPend /\ QueuedAwait /\ BatchedAwait /\ BarrierAsked /\ Numbered

(* What the file has of it. *)
Unstored(r) == fut[r] = "none" \/ r \in Queued \cup Suspending \/ (r \in Batched /\ pc # "settle")

StoredWhenDone ==
  /\ \A r \in Req : Unstored(r) => rowId[r] = 0
  /\ \A r \in Req : fut[r] = "row" => rowId[r] # 0

(* What is in the open transaction, and in which order. *)
OfTheBatch ==
  /\ \A r \in Req : txId[r] # 0 => r \in Batched
  /\ pc = "settle" => \A r \in Batched : rowId[r] = txId[r]
AboveTheFile ==
  /\ pc \in InTx => \A r, s \in Req : txId[r] # 0 => rowId[s] < txId[r]
  /\ pc = "settle" => \A r \in Batched, s \in Req \ Batched : txId[r] # 0 => rowId[s] < txId[r]
InBatchOrder ==
  /\ pc = "rows" => \A i \in DOMAIN batch : i >= row => txId[batch[i]] = 0
  /\ \A i, j \in DOMAIN batch :
       i < j /\ txId[batch[i]] # 0 /\ txId[batch[j]] # 0 => txId[batch[i]] < txId[batch[j]]

Transaction == OfTheBatch /\ AboveTheFile /\ InBatchOrder

(* What the task holds where it is. *)
Idle == {"top", "wait", "down"} \cup Ended

Holds ==
  /\ pc \in Idle => batch = <<>>
  /\ pc = "hold" => Len(batch) = 1

PlaceInv == InOnePlace /\ ToldSoFar /\ StoredWhenDone /\ Transaction /\ Holds

-------------------------------------------------------------------------------
(* Sequences. *)

LEMMA TailFacts ==
  ASSUME NEW T, NEW s \in Seq(T), s # <<>>
  PROVE  /\ Len(s) \in Nat \ {0} /\ Len(Tail(s)) = Len(s) - 1
         /\ \A i \in 1 .. Len(Tail(s)) : Tail(s)[i] = s[i + 1]
         /\ Head(s) = s[1] /\ ToSet(s) = ToSet(Tail(s)) \cup {Head(s)}
<1>1. Tail(s) \in Seq(T) /\ Len(s) \in Nat \ {0} /\ Len(Tail(s)) = Len(s) - 1 /\ Head(s) = s[1]
  OBVIOUS
<1>2. \A i \in 1 .. Len(Tail(s)) : Tail(s)[i] = s[i + 1]
  BY <1>1
<1>3. ToSet(s) \subseteq ToSet(Tail(s)) \cup {Head(s)}
  <2> SUFFICES ASSUME NEW i \in 1 .. Len(s) PROVE s[i] \in ToSet(Tail(s)) \cup {Head(s)}
    BY DEF ToSet
  <2>1. CASE i = 1
    BY <1>1, <2>1
  <2>2. CASE i # 1
    <3>1. i - 1 \in 1 .. Len(Tail(s)) /\ Tail(s)[i - 1] = s[i]
      BY <1>1, <1>2, <2>2
    <3>2. DOMAIN Tail(s) = 1 .. Len(Tail(s))
      BY <1>1
    <3>3. Tail(s)[i - 1] \in ToSet(Tail(s))
      BY <3>1, <3>2, Zenon DEF ToSet
    <3> QED  BY <3>1, <3>3
  <2> QED  BY <2>1, <2>2
<1>4. ToSet(Tail(s)) \cup {Head(s)} \subseteq ToSet(s)
  <2>1. \A i \in 1 .. Len(Tail(s)) : i + 1 \in 1 .. Len(s) /\ 1 \in 1 .. Len(s)
    BY <1>1
  <2> QED  BY <1>1, <1>2, <2>1 DEF ToSet
<1> QED  BY <1>1, <1>2, <1>3, <1>4

LEMMA AppendFacts ==
  ASSUME NEW T, NEW s \in Seq(T), NEW x
  PROVE  /\ Len(s) \in Nat /\ Len(Append(s, x)) = Len(s) + 1
         /\ \A i \in 1 .. Len(s) : Append(s, x)[i] = s[i]
         /\ Append(s, x)[Len(s) + 1] = x
         /\ DOMAIN Append(s, x) = 1 .. Len(s) + 1
         /\ ToSet(Append(s, x)) = ToSet(s) \cup {x}
<1>1. Len(s) \in Nat /\ s \in Seq(T \cup {x})
  OBVIOUS
<1>2. /\ Append(s, x) \in Seq(T \cup {x}) /\ Len(Append(s, x)) = Len(s) + 1
      /\ \A i \in 1 .. Len(s) : Append(s, x)[i] = s[i]
      /\ Append(s, x)[Len(s) + 1] = x
  BY <1>1
<1>3. DOMAIN Append(s, x) = 1 .. Len(s) + 1 /\ DOMAIN s = 1 .. Len(s)
  BY <1>1, <1>2
<1>4. \A i \in 1 .. Len(s) + 1 : i \in 1 .. Len(s) \/ i = Len(s) + 1
  BY <1>1
<1>5. \A i \in 1 .. Len(s) : i \in 1 .. Len(s) + 1
  BY <1>1
<1>6. Len(s) + 1 \in 1 .. Len(s) + 1
  BY <1>1
<1>7. ToSet(Append(s, x)) = ToSet(s) \cup {x}
  <2>1. ToSet(Append(s, x)) = {Append(s, x)[i] : i \in 1 .. Len(s) + 1}
    BY <1>3 DEF ToSet
  <2>2. ToSet(s) = {s[i] : i \in 1 .. Len(s)}
    BY <1>3 DEF ToSet
  <2> QED  BY <1>2, <1>4, <1>5, <1>6, <2>1, <2>2, Zenon
<1> QED  BY <1>1, <1>2, <1>3, <1>7

LEMMA PlacesTyped ==
  ASSUME TypeOK
  PROVE  Batched \subseteq Req /\ Suspending \subseteq Ticket /\ Queued \subseteq Ticket \cup {Sentinel}
<1>1. \A T : \A s \in Seq(T) : ToSet(s) \subseteq T
  BY ToSetOfSeq
<1>2. batch \in Seq(Req) /\ putters \in Seq(Ticket) /\ woken \in Seq(Ticket)
      /\ queue \in Seq(Ticket \cup {Sentinel})
  BY DEF TypeOK, TaskType, QueueType
<1> QED  BY <1>1, <1>2 DEF Batched, Suspending, Queued

LEMMA EmptyFacts == ToSet(<<>>) = {} /\ Distinct(<<>>) /\ DOMAIN <<>> = {}
BY DEF ToSet, Distinct

LEMMA AppendDistinct ==
  ASSUME NEW T, NEW s \in Seq(T), NEW x, Distinct(s), x \notin ToSet(s)
  PROVE  Distinct(Append(s, x))
<1>1. \A i \in 1 .. Len(s) : s[i] # x
  BY DEF ToSet
<1>2. /\ Len(s) \in Nat /\ DOMAIN Append(s, x) = 1 .. Len(s) + 1 /\ DOMAIN s = 1 .. Len(s)
      /\ \A i \in 1 .. Len(s) : Append(s, x)[i] = s[i]
      /\ Append(s, x)[Len(s) + 1] = x
  BY AppendFacts
<1> QED  BY <1>1, <1>2 DEF Distinct

LEMMA TailDistinct ==
  ASSUME NEW T, NEW s \in Seq(T), s # <<>>, Distinct(s)
  PROVE  Distinct(Tail(s)) /\ Head(s) \notin ToSet(Tail(s))
<1>1. /\ Len(s) \in Nat \ {0} /\ Len(Tail(s)) = Len(s) - 1
      /\ \A i \in 1 .. Len(Tail(s)) : Tail(s)[i] = s[i + 1]
      /\ Head(s) = s[1]
  BY TailFacts
<1>2. Tail(s) \in Seq(T) /\ DOMAIN Tail(s) = 1 .. Len(s) - 1 /\ DOMAIN s = 1 .. Len(s)
  BY <1>1
<1>3. \A i \in 1 .. Len(s) - 1 : i + 1 \in 1 .. Len(s) /\ i + 1 # 1
  BY <1>1
<1>4. Distinct(Tail(s))
  <2> SUFFICES ASSUME NEW i \in 1 .. Len(s) - 1, NEW j \in 1 .. Len(s) - 1, Tail(s)[i] = Tail(s)[j]
               PROVE  i = j
    BY <1>2 DEF Distinct
  <2>1. s[i + 1] = s[j + 1] /\ i + 1 \in 1 .. Len(s) /\ j + 1 \in 1 .. Len(s)
    BY <1>1, <1>3
  <2>2. i + 1 = j + 1
    BY <1>2, <2>1 DEF Distinct
  <2> QED  BY <2>2
<1>5. Head(s) \notin ToSet(Tail(s))
  <2> SUFFICES ASSUME NEW i \in 1 .. Len(s) - 1, Tail(s)[i] = s[1] PROVE FALSE
    BY <1>1, <1>2 DEF ToSet
  <2> QED  BY <1>1, <1>2, <1>3 DEF Distinct
<1> QED  BY <1>4, <1>5


LEMMA ConcatFacts ==
  ASSUME NEW T, NEW s \in Seq(T), NEW u \in Seq(T)
  PROVE  /\ s \o u \in Seq(T) /\ Len(s \o u) = Len(s) + Len(u)
         /\ Len(s) \in Nat /\ Len(u) \in Nat
         /\ \A i \in 1 .. Len(s) : (s \o u)[i] = s[i]
         /\ \A i \in Len(s) + 1 .. Len(s) + Len(u) : (s \o u)[i] = u[i - Len(s)]
         /\ \A i \in 1 .. Len(u) : (s \o u)[Len(s) + i] = u[i]
         /\ ToSet(s \o u) = ToSet(s) \cup ToSet(u)
<1>1. /\ s \o u \in Seq(T) /\ Len(s \o u) = Len(s) + Len(u)
      /\ Len(s) \in Nat /\ Len(u) \in Nat
  OBVIOUS
<1>2. \A i \in 1 .. Len(s) + Len(u) : (s \o u)[i] = IF i <= Len(s) THEN s[i] ELSE u[i - Len(s)]
  BY ConcatProperties
<1>3. \A i \in 1 .. Len(s) : (s \o u)[i] = s[i] /\ i \in 1 .. Len(s) + Len(u)
  BY <1>1, <1>2
<1>4. \A i \in Len(s) + 1 .. Len(s) + Len(u) : (s \o u)[i] = u[i - Len(s)]
  BY <1>1, <1>2
<1>5. \A i \in 1 .. Len(u) : (s \o u)[Len(s) + i] = u[i] /\ Len(s) + i \in 1 .. Len(s) + Len(u)
  <2> SUFFICES ASSUME NEW i \in 1 .. Len(u)
               PROVE  (s \o u)[Len(s) + i] = u[i] /\ Len(s) + i \in 1 .. Len(s) + Len(u)
    OBVIOUS
  <2>1. Len(s) + i \in Len(s) + 1 .. Len(s) + Len(u) /\ (Len(s) + i) - Len(s) = i
    BY <1>1
  <2> QED  BY <1>1, <1>4, <2>1
<1>6. \A i \in 1 .. Len(s) + Len(u) : i \in 1 .. Len(s) \/ \E j \in 1 .. Len(u) : i = Len(s) + j
  <2> SUFFICES ASSUME NEW i \in 1 .. Len(s) + Len(u), i \notin 1 .. Len(s)
               PROVE  \E j \in 1 .. Len(u) : i = Len(s) + j
    OBVIOUS
  <2>1. i - Len(s) \in 1 .. Len(u) /\ i = Len(s) + (i - Len(s))
    BY <1>1
  <2> QED  BY <2>1
<1>7. /\ ToSet(s \o u) = {(s \o u)[i] : i \in 1 .. Len(s) + Len(u)}
      /\ ToSet(s) = {s[i] : i \in 1 .. Len(s)} /\ ToSet(u) = {u[i] : i \in 1 .. Len(u)}
  BY <1>1 DEF ToSet
<1>8. ToSet(s \o u) = ToSet(s) \cup ToSet(u)
  <2>1. \A i \in 1 .. Len(s) + Len(u) : (s \o u)[i] \in ToSet(s) \cup ToSet(u)
    <3> SUFFICES ASSUME NEW i \in 1 .. Len(s) + Len(u) PROVE (s \o u)[i] \in ToSet(s) \cup ToSet(u)
      OBVIOUS
    <3>1. CASE i \in 1 .. Len(s)
      BY <1>3, <1>7, <3>1, Zenon
    <3>2. CASE i \notin 1 .. Len(s)
      <4>1. PICK j \in 1 .. Len(u) : i = Len(s) + j
        BY <1>6, <3>2, Zenon
      <4>2. (s \o u)[i] = u[j]
        BY <1>5, <4>1, Zenon
      <4> QED  BY <1>7, <4>2, Zenon
    <3> QED  BY <3>1, <3>2
  <2>2. \A x \in ToSet(s) \cup ToSet(u) : x \in ToSet(s \o u)
    <3>1. \A x \in ToSet(s) : x \in ToSet(s \o u)
      BY <1>3, <1>7, Zenon
    <3>2. \A x \in ToSet(u) : x \in ToSet(s \o u)
      BY <1>5, <1>7, Zenon
    <3> QED  BY <3>1, <3>2, Zenon
  <2> QED  BY <1>7, <2>1, <2>2
<1> QED  BY <1>1, <1>3, <1>4, <1>5, <1>8

LEMMA DistinctLoses ==
  ASSUME NEW T, NEW s \in Seq(T), NEW i \in DOMAIN s, Distinct(s)
  PROVE  /\ Distinct(RemoveAt(s, i))
         /\ ToSet(RemoveAt(s, i)) = ToSet(s) \ {s[i]}
<1> DEFINE t == RemoveAt(s, i)
           a == SubSeq(s, 1, i - 1)
           b == SubSeq(s, i + 1, Len(s))
<1>1. i \in 1 .. Len(s) /\ Len(s) \in Nat
  OBVIOUS
<1>2. /\ a \in Seq(T) /\ Len(a) = i - 1
      /\ \A k \in 1 .. i - 1 : a[k] = s[k]
  BY <1>1, SubSeqProperties
<1>3. /\ b \in Seq(T) /\ Len(b) = Len(s) - i
      /\ \A k \in 1 .. Len(s) - i : b[k] = s[i + k]
  BY <1>1, SubSeqProperties
<1>0. t = a \o b
  BY DEF RemoveAt
<1>00. \A j \in Len(a) + 1 .. Len(a) + Len(b) : t[j] = b[j - Len(a)]
  <2>1. \A u \in Seq(T), v \in Seq(T) : \A j \in Len(u) + 1 .. Len(u) + Len(v) : (u \o v)[j] = v[j - Len(u)]
    BY ConcatFacts
  <2>2. a \in Seq(T) /\ b \in Seq(T)
    BY <1>2, <1>3
  <2> HIDE DEF t, a, b
  <2> QED  BY <1>0, <2>1, <2>2
<1> HIDE DEF t, a, b
<1>4. t \in Seq(T) /\ Len(t) = Len(s) - 1
  <2>1. t \in Seq(T) /\ Len(t) = Len(a) + Len(b)
    BY <1>0, <1>2, <1>3
  <2> QED  BY <1>1, <1>2, <1>3, <2>1
<1>5. \A k \in 1 .. Len(s) - 1 : t[k] = IF k < i THEN s[k] ELSE s[k + 1]
  <2> SUFFICES ASSUME NEW k \in 1 .. Len(s) - 1
               PROVE  t[k] = IF k < i THEN s[k] ELSE s[k + 1]
    OBVIOUS
  <2>1. CASE k < i
    <3>1. k \in 1 .. i - 1
      BY <1>1, <2>1
    <3>2. t[k] = a[k]
      BY <1>0, <1>2, <1>3, <3>1
    <3> QED  BY <1>2, <2>1, <3>1, <3>2
  <2>2. CASE ~(k < i)
    <3>1. k - (i - 1) \in 1 .. Len(s) - i /\ k \in (i - 1) + 1 .. (i - 1) + (Len(s) - i)
      BY <1>1, <2>2
    <3>2. t[k] = b[k - (i - 1)]
      <4>1. k \in Len(a) + 1 .. Len(a) + Len(b)
        BY <1>2, <1>3, <3>1
      <4>2. t[k] = b[k - Len(a)]
        BY <1>00, <4>1
      <4> QED  BY <1>2, <4>2
    <3>3. i + (k - (i - 1)) = k + 1
      BY <1>1
    <3> QED  BY <1>3, <2>2, <3>1, <3>2, <3>3
  <2> QED  BY <2>1, <2>2
<1>6. DOMAIN t = 1 .. Len(s) - 1 /\ DOMAIN s = 1 .. Len(s)
  BY <1>1, <1>4
<1>7. Distinct(t)
  <2> SUFFICES ASSUME NEW j \in 1 .. Len(s) - 1, NEW k \in 1 .. Len(s) - 1, t[j] = t[k] PROVE j = k
    BY <1>6 DEF Distinct
  <2> DEFINE up(m) == IF m < i THEN m ELSE m + 1
  <2>1. up(j) \in 1 .. Len(s) /\ up(k) \in 1 .. Len(s) /\ s[up(j)] = s[up(k)]
    BY <1>1, <1>5
  <2>2. up(j) = up(k)
    <3> HIDE DEF up
    <3> QED  BY <1>6, <2>1 DEF Distinct
  <2> QED  BY <1>1, <2>2
<1>8. ToSet(t) \subseteq ToSet(s) \ {s[i]}
  <2> SUFFICES ASSUME NEW k \in 1 .. Len(s) - 1 PROVE t[k] \in ToSet(s) \ {s[i]}
    BY <1>6 DEF ToSet
  <2>1. PICK m \in 1 .. Len(s) : t[k] = s[m] /\ m # i
    <3>1. CASE k < i
      BY <1>1, <1>5, <3>1
    <3>2. CASE ~(k < i)
      BY <1>1, <1>5, <3>2
    <3> QED  BY <3>1, <3>2
  <2> QED  BY <1>1, <1>6, <2>1 DEF Distinct, ToSet
<1>9. ToSet(s) \ {s[i]} \subseteq ToSet(t)
  <2> SUFFICES ASSUME NEW m \in 1 .. Len(s), m # i PROVE s[m] \in ToSet(t)
    BY <1>6 DEF ToSet
  <2>1. PICK k \in 1 .. Len(s) - 1 : t[k] = s[m]
    <3>1. CASE m < i
      BY <1>1, <1>5, <3>1
    <3>2. CASE ~(m < i)
      <4>1. m - 1 \in 1 .. Len(s) - 1 /\ ~(m - 1 < i) /\ (m - 1) + 1 = m
        BY <1>1, <3>2
      <4> QED  BY <1>5, <4>1
    <3> QED  BY <3>1, <3>2
  <2>2. k \in DOMAIN t
    BY <1>6
  <2> QED  BY <2>1, <2>2 DEF ToSet
<1> QED  BY <1>7, <1>8, <1>9 DEF t

-------------------------------------------------------------------------------
(* What the asyncio queue does to the places of the tickets. *)

LEMMA GetFacts ==
  ASSUME TypeOK, QueuedOnce, SuspendedOnce, queue # <<>>, Get
  PROVE  /\ Len(queue) \in Nat \ {0} /\ Len(queue') = Len(queue) - 1
         /\ \A i \in 1 .. Len(queue') : queue'[i] = queue[i + 1]
         /\ Head(queue) = queue[1] /\ Queued = Queued' \cup {Head(queue)}
         /\ Head(queue) # Sentinel => Head(queue) \notin Queued'
         /\ Suspending' = Suspending
         /\ QueuedOnce' /\ SuspendedOnce'
<1>1. queue' = Tail(queue) /\ queue \in Seq(Ticket \cup {Sentinel})
  BY DEF Get, TypeOK, QueueType
<1>2. /\ Len(queue) \in Nat \ {0} /\ Len(queue') = Len(queue) - 1
      /\ \A i \in 1 .. Len(queue') : queue'[i] = queue[i + 1]
      /\ Head(queue) = queue[1] /\ Queued = Queued' \cup {Head(queue)}
  BY <1>1, TailFacts DEF Queued
<1>3. queue' \in Seq(Ticket \cup {Sentinel}) /\ DOMAIN queue' = 1 .. Len(queue') /\ DOMAIN queue = 1 .. Len(queue)
  BY <1>1
<1>4. \A i \in 1 .. Len(queue') : i + 1 \in 1 .. Len(queue) /\ i + 1 # 1 /\ 1 \in 1 .. Len(queue)
  BY <1>2
<1>5. QueuedOnce'
  <2> SUFFICES ASSUME NEW i \in 1 .. Len(queue'), NEW j \in 1 .. Len(queue'),
                      queue'[i] = queue'[j], queue'[i] # Sentinel
               PROVE  i = j
    BY <1>3 DEF QueuedOnce
  <2>1. i + 1 = j + 1
    BY <1>2, <1>3, <1>4 DEF QueuedOnce
  <2> QED  BY <2>1
<1>6. Head(queue) # Sentinel => Head(queue) \notin Queued'
  <2> SUFFICES ASSUME Head(queue) # Sentinel, NEW i \in 1 .. Len(queue'), queue'[i] = queue[1]
               PROVE  FALSE
    BY <1>2, <1>3 DEF Queued, ToSet
  <2> QED  BY <1>2, <1>3, <1>4 DEF QueuedOnce
<1>7. Suspending' = Suspending /\ SuspendedOnce'
  <2>1. CASE putters = <<>>
    BY <2>1 DEF Get, Suspending, SuspendedOnce
  <2>2. CASE putters # <<>>
    <3>1. putters' = Tail(putters) /\ woken' = Append(woken, Head(putters))
      BY <2>2 DEF Get
    <3>2. putters \in Seq(Ticket) /\ woken \in Seq(Ticket)
      BY DEF TypeOK, QueueType
    <3>3. ToSet(putters) = ToSet(putters') \cup {Head(putters)}
      BY <2>2, <3>1, <3>2, TailFacts
    <3>4. ToSet(woken') = ToSet(woken) \cup {Head(putters)}
      BY <3>1, <3>2, AppendFacts
    <3>5. Distinct(putters') /\ Head(putters) \notin ToSet(putters')
      BY <2>2, <3>1, <3>2, TailDistinct DEF SuspendedOnce
    <3>6. Distinct(woken')
      BY <3>1, <3>2, <3>3, AppendDistinct DEF SuspendedOnce
    <3> QED  BY <3>3, <3>4, <3>5, <3>6 DEF Suspending, SuspendedOnce
  <2> QED  BY <2>1, <2>2
<1> QED  BY <1>2, <1>5, <1>6, <1>7

LEMMA AppendQueuedOnce ==
  ASSUME TypeOK, QueuedOnce, NEW x \in Ticket \cup {Sentinel}, queue' = Append(queue, x),
         x = Sentinel \/ x \notin Queued
  PROVE  /\ QueuedOnce' /\ Queued' = Queued \cup {x}
         /\ Len(queue') = Len(queue) + 1 /\ Len(queue) \in Nat
         /\ \A i \in 1 .. Len(queue) : queue'[i] = queue[i]
         /\ queue'[Len(queue) + 1] = x
<1>1. queue \in Seq(Ticket \cup {Sentinel})
  BY DEF TypeOK, QueueType
<1>2. /\ Len(queue) \in Nat /\ DOMAIN queue' = 1 .. Len(queue) + 1 /\ DOMAIN queue = 1 .. Len(queue)
      /\ \A i \in 1 .. Len(queue) : queue'[i] = queue[i]
      /\ queue'[Len(queue) + 1] = x /\ Queued' = Queued \cup {x} /\ Len(queue') = Len(queue) + 1
  BY <1>1, AppendFacts DEF Queued
<1>3. x = Sentinel \/ (\A i \in 1 .. Len(queue) : queue[i] # x)
  BY <1>2 DEF Queued, ToSet
<1> QED  BY <1>2, <1>3 DEF QueuedOnce

LEMMA PutFacts ==
  ASSUME TypeOK, QueuedOnce, SuspendedOnce, NEW x \in Ticket, x \notin Queued \cup Suspending, Put(x)
  PROVE  /\ QueuedOnce' /\ SuspendedOnce'
         /\ \/ UNCHANGED queue /\ Suspending' = Suspending \cup {x}
            \/ /\ queue' = Append(queue, x) /\ Queued' = Queued \cup {x}
               /\ Suspending' = Suspending
<1>1. CASE Full
  <2>1. putters' = Append(putters, x) /\ UNCHANGED <<queue, woken>> /\ putters \in Seq(Ticket)
    BY <1>1 DEF Put, TypeOK, QueueType
  <2>2. ToSet(putters') = ToSet(putters) \cup {x}
    BY <2>1, AppendFacts
  <2>3. Distinct(putters')
    BY <2>1, AppendDistinct DEF SuspendedOnce, Suspending
  <2> QED  BY <2>1, <2>2, <2>3 DEF SuspendedOnce, Suspending, QueuedOnce
<1>2. CASE ~Full
  <2>1. queue' = Append(queue, x) /\ UNCHANGED <<putters, woken>>
    BY <1>2 DEF Put
  <2>2. QueuedOnce' /\ Queued' = Queued \cup {x}
    BY <2>1, AppendQueuedOnce
  <2> QED  BY <2>1, <2>2 DEF SuspendedOnce, Suspending
<1> QED  BY <1>1, <1>2

LEMMA ResumeFacts ==
  ASSUME TypeOK, QueuedOnce, SuspendedOnce, Suspending \cap Queued = {}, PutResumes
  PROVE  /\ QueuedOnce' /\ SuspendedOnce'
         /\ \/ UNCHANGED queue /\ Suspending' = Suspending
            \/ \E x \in Suspending : /\ x \in Ticket
                                     /\ queue' = Append(queue, x) /\ Queued' = Queued \cup {x}
                                     /\ Suspending' = Suspending \ {x}
<1> DEFINE x == Head(woken)
<1>1. woken # <<>> /\ woken' = Tail(woken) /\ woken \in Seq(Ticket) /\ putters \in Seq(Ticket)
  BY DEF PutResumes, TypeOK, QueueType
<1>2. /\ ToSet(woken) = ToSet(woken') \cup {x} /\ x \notin ToSet(woken') /\ Distinct(woken')
      /\ x \in Ticket
  BY <1>1, TailFacts, TailDistinct, TailInSeq DEF SuspendedOnce
<1>3. x \notin ToSet(putters) /\ x \notin Queued /\ x \in Suspending
  BY <1>2 DEF SuspendedOnce, Suspending
<1> HIDE DEF x
<1>4. CASE Full
  <2>1. putters' = Append(putters, x) /\ UNCHANGED queue
    BY <1>4 DEF PutResumes, x
  <2>2. ToSet(putters') = ToSet(putters) \cup {x} /\ Distinct(putters')
    BY <1>1, <1>3, <2>1, AppendFacts, AppendDistinct DEF SuspendedOnce
  <2> QED  BY <1>2, <1>3, <2>1, <2>2 DEF SuspendedOnce, Suspending, QueuedOnce
<1>5. CASE ~Full
  <2>1. queue' = Append(queue, x) /\ UNCHANGED putters
    BY <1>5 DEF PutResumes, x
  <2>2. QueuedOnce' /\ Queued' = Queued \cup {x}
    BY <1>2, <1>3, <2>1, AppendQueuedOnce
  <2>3. Suspending' = Suspending \ {x} /\ SuspendedOnce'
    BY <1>2, <1>3, <2>1 DEF SuspendedOnce, Suspending
  <2> QED  BY <1>2, <1>3, <2>1, <2>2, <2>3
<1> QED  BY <1>4, <1>5

LEMMA WithdrawFacts ==
  ASSUME TypeOK, SuspendedOnce, NEW x \in Ticket, Withdraw(x)
  PROVE  x \in Suspending /\ Suspending' = Suspending \ {x} /\ SuspendedOnce'
<1>1. putters \in Seq(Ticket) /\ woken \in Seq(Ticket)
  BY DEF TypeOK, QueueType
<1>2. ASSUME NEW i \in DOMAIN putters, putters[i] = x, putters' = RemoveAt(putters, i), UNCHANGED woken
      PROVE  x \in Suspending /\ Suspending' = Suspending \ {x} /\ SuspendedOnce'
  <2>1. Distinct(putters') /\ ToSet(putters') = ToSet(putters) \ {x} /\ x \in ToSet(putters)
    BY <1>1, <1>2, DistinctLoses DEF SuspendedOnce, ToSet
  <2> QED  BY <1>2, <2>1 DEF Suspending, SuspendedOnce
<1>3. ASSUME NEW i \in DOMAIN woken, woken[i] = x
      PROVE  /\ Distinct(RemoveAt(woken, i)) /\ ToSet(RemoveAt(woken, i)) = ToSet(woken) \ {x}
             /\ x \in ToSet(woken) /\ RemoveAt(woken, i) \in Seq(Ticket)
  BY <1>1, <1>3, DistinctLoses, RemoveAtInSeq DEF SuspendedOnce, ToSet
<1>4. ASSUME NEW i \in DOMAIN woken, woken[i] = x, woken' = RemoveAt(woken, i), UNCHANGED putters
      PROVE  x \in Suspending /\ Suspending' = Suspending \ {x} /\ SuspendedOnce'
  BY <1>3, <1>4 DEF Suspending, SuspendedOnce
<1>5. ASSUME NEW i \in DOMAIN woken, woken[i] = x, putters # <<>>,
             woken' = Append(RemoveAt(woken, i), Head(putters)), putters' = Tail(putters)
      PROVE  x \in Suspending /\ Suspending' = Suspending \ {x} /\ SuspendedOnce'
  <2>1. /\ ToSet(putters) = ToSet(putters') \cup {Head(putters)}
        /\ Distinct(putters') /\ Head(putters) \notin ToSet(putters')
    BY <1>1, <1>5, TailFacts, TailDistinct DEF SuspendedOnce
  <2>2. /\ Distinct(RemoveAt(woken, i)) /\ ToSet(RemoveAt(woken, i)) = ToSet(woken) \ {x}
        /\ x \in ToSet(woken) /\ RemoveAt(woken, i) \in Seq(Ticket)
    BY <1>3, <1>5
  <2>3. ToSet(putters) \cap ToSet(woken) = {}
    BY DEF SuspendedOnce
  <2>4. Head(putters) \notin ToSet(RemoveAt(woken, i))
    BY <2>1, <2>2, <2>3
  <2>5. Distinct(woken') /\ ToSet(woken') = ToSet(RemoveAt(woken, i)) \cup {Head(putters)}
    BY <1>5, <2>2, <2>4, AppendFacts, AppendDistinct
  <2> QED  BY <2>1, <2>2, <2>3, <2>5 DEF Suspending, SuspendedOnce
<1> QED  BY <1>2, <1>4, <1>5 DEF Withdraw

LEMMA FailQueuedFacts ==
  ASSUME TypeOK, SuspendedOnce, FailQueued
  PROVE  /\ queue' = <<>> /\ Suspending' = Suspending /\ SuspendedOnce'
<1> DEFINE n == Min({Len(queue), Len(putters)})
           a == SubSeq(putters, 1, n)
           b == SubSeq(putters, n + 1, Len(putters))
<1>1. queue' = <<>> /\ woken' = woken \o a /\ putters' = b
  BY DEF FailQueued
<1>2. Len(queue) \in Nat /\ Len(putters) \in Nat /\ putters \in Seq(Ticket) /\ woken \in Seq(Ticket)
  BY DEF TypeOK, QueueType
<1>3. n \in Nat /\ n <= Len(putters)
  BY <1>2, MinOfTwo
<1> HIDE DEF n
<1>4. a \in Seq(Ticket) /\ Len(a) = n /\ (\A i \in 1 .. n : a[i] = putters[i])
  BY <1>2, <1>3, SubSeqProperties
<1>5. /\ b \in Seq(Ticket) /\ Len(b) = Len(putters) - n
      /\ \A i \in 1 .. Len(putters) - n : b[i] = putters[n + i]
  BY <1>2, <1>3, SubSeqProperties
<1> HIDE DEF a, b
<1>6. \A u \in Seq(Ticket), v \in Seq(Ticket) :
        /\ Len(u \o v) = Len(u) + Len(v) /\ u \o v \in Seq(Ticket)
        /\ \A i \in 1 .. Len(u) : (u \o v)[i] = u[i]
        /\ \A i \in 1 .. Len(v) : (u \o v)[Len(u) + i] = v[i]
        /\ ToSet(u \o v) = ToSet(u) \cup ToSet(v)
  BY ConcatFacts
<1>7. /\ DOMAIN putters = 1 .. Len(putters) /\ DOMAIN a = 1 .. n /\ DOMAIN b = 1 .. Len(putters) - n
      /\ DOMAIN woken = 1 .. Len(woken) /\ Len(woken) \in Nat
  BY <1>2, <1>4, <1>5
<1>8. \A i \in 1 .. Len(putters) - n : n + i \in 1 .. Len(putters) /\ n + i > n
  BY <1>2, <1>3
<1>9. \A i \in 1 .. n : i \in 1 .. Len(putters)
  BY <1>2, <1>3
<1>10. ToSet(putters) = ToSet(a) \cup ToSet(b)
  <2>1. \A i \in 1 .. Len(putters) : putters[i] \in ToSet(a) \cup ToSet(b)
    <3> SUFFICES ASSUME NEW i \in 1 .. Len(putters) PROVE putters[i] \in ToSet(a) \cup ToSet(b)
      OBVIOUS
    <3>1. CASE i <= n
      <4>1. i \in DOMAIN a /\ a[i] = putters[i]
        BY <1>2, <1>3, <1>4, <1>7, <3>1
      <4> QED  BY <4>1 DEF ToSet
    <3>2. CASE ~(i <= n)
      <4>1. i - n \in 1 .. Len(putters) - n /\ n + (i - n) = i
        BY <1>2, <1>3, <3>2
      <4>2. i - n \in DOMAIN b /\ b[i - n] = putters[i]
        BY <1>5, <1>7, <4>1
      <4> QED  BY <4>2 DEF ToSet
    <3> QED  BY <3>1, <3>2
  <2>2. ToSet(a) \subseteq ToSet(putters)
    BY <1>4, <1>7, <1>9 DEF ToSet
  <2>3. ToSet(b) \subseteq ToSet(putters)
    BY <1>5, <1>7, <1>8 DEF ToSet
  <2>4. ToSet(putters) = {putters[i] : i \in 1 .. Len(putters)}
    BY <1>7 DEF ToSet
  <2> QED  BY <2>1, <2>2, <2>3, <2>4
<1>11. ToSet(woken') = ToSet(woken) \cup ToSet(a)
  BY <1>1, <1>2, <1>4, <1>6
<1>12. Distinct(a) /\ Distinct(b)
  BY <1>4, <1>5, <1>7, <1>8, <1>9, SMTT(30) DEF SuspendedOnce, Distinct
<1>13. ToSet(a) \cap ToSet(b) = {}
  <2> SUFFICES ASSUME NEW i \in 1 .. n, NEW j \in 1 .. Len(putters) - n, a[i] = b[j] PROVE FALSE
    BY <1>7 DEF ToSet
  <2>1. putters[i] = putters[n + j] /\ i \in 1 .. Len(putters) /\ n + j \in 1 .. Len(putters) /\ n + j # i
    BY <1>3, <1>4, <1>5, <1>8, <1>9
  <2> QED  BY <1>7, <2>1 DEF SuspendedOnce, Distinct
<1>14. ToSet(woken) \cap ToSet(a) = {} /\ ToSet(woken) \cap ToSet(b) = {}
  BY <1>10 DEF SuspendedOnce
<1>15. Distinct(woken')
  <2>1. /\ DOMAIN woken' = 1 .. Len(woken) + n
        /\ \A i \in 1 .. Len(woken) : woken'[i] = woken[i]
        /\ \A i \in 1 .. n : woken'[Len(woken) + i] = a[i]
    <3>1. woken' \in Seq(Ticket) /\ Len(woken') = Len(woken) + n
      BY <1>1, <1>2, <1>4, <1>6
    <3> QED  BY <1>1, <1>2, <1>4, <1>6, <3>1
  <2>2. \A i \in 1 .. Len(woken), j \in 1 .. n : woken[i] # a[j]
    BY <1>7, <1>14 DEF ToSet
  <2>3. \A i \in 1 .. Len(woken) + n : i \in 1 .. Len(woken) \/ \E k \in 1 .. n : i = Len(woken) + k
    <3> SUFFICES ASSUME NEW i \in 1 .. Len(woken) + n, i \notin 1 .. Len(woken)
                 PROVE  \E k \in 1 .. n : i = Len(woken) + k
      OBVIOUS
    <3>1. i - Len(woken) \in 1 .. n /\ i = Len(woken) + (i - Len(woken))
      BY <1>3, <1>7
    <3> QED  BY <3>1
  <2> SUFFICES ASSUME NEW i \in 1 .. Len(woken) + n, NEW j \in 1 .. Len(woken) + n, woken'[i] = woken'[j]
               PROVE  i = j
    BY <2>1 DEF Distinct
  <2>4. CASE i \in 1 .. Len(woken) /\ j \in 1 .. Len(woken)
    BY <1>7, <2>1, <2>4 DEF SuspendedOnce, Distinct
  <2>5. CASE \E k \in 1 .. n : i = Len(woken) + k
    <3>1. PICK k \in 1 .. n : i = Len(woken) + k
      BY <2>5
    <3>2. woken'[i] = a[k]
      BY <2>1, <3>1
    <3>3. PICK m \in 1 .. n : j = Len(woken) + m
      BY <2>1, <2>2, <2>3, <3>2
    <3>4. a[k] = a[m]
      BY <2>1, <3>2, <3>3
    <3>5. k = m
      BY <1>7, <1>12, <3>4 DEF Distinct
    <3> QED  BY <3>1, <3>3, <3>5
  <2>6. CASE \E m \in 1 .. n : j = Len(woken) + m
    <3>1. PICK m \in 1 .. n : j = Len(woken) + m
      BY <2>6
    <3>2. woken'[j] = a[m]
      BY <2>1, <3>1
    <3>3. PICK k \in 1 .. n : i = Len(woken) + k
      BY <2>1, <2>2, <2>3, <3>2, ZenonT(40)
    <3> QED  BY <2>5, <3>3
  <2> QED  BY <2>3, <2>4, <2>5, <2>6
<1>16. Suspending' = Suspending
  BY <1>1, <1>10, <1>11 DEF Suspending
<1>17. SuspendedOnce'
  BY <1>1, <1>11, <1>12, <1>13, <1>14, <1>15 DEF SuspendedOnce
<1> QED  BY <1>1, <1>16, <1>17

(* What answering does to the futures. *)
LEMMA ToldFacts ==
  ASSUME TypeOK, NEW F, NEW S, fut' = Told(F, S)
  PROVE  \A t \in Ticket :
           /\ fut[t] # "pending" => fut'[t] = fut[t]
           /\ fut[t] = "pending" => fut'[t] = IF t \in F THEN "error"
                                              ELSE IF t \in S THEN "row" ELSE "pending"
<1> SUFFICES ASSUME NEW t \in Ticket
             PROVE  /\ fut[t] # "pending" => fut'[t] = fut[t]
                    /\ fut[t] = "pending" => fut'[t] = IF t \in F THEN "error"
                                                       ELSE IF t \in S THEN "row" ELSE "pending"
  OBVIOUS
<1>1. CASE fut[t] # "pending"
  BY <1>1 DEF Told
<1>2. CASE fut[t] = "pending" /\ t \in F
  BY <1>2 DEF Told
<1>3. CASE fut[t] = "pending" /\ t \in S \ F
  BY <1>3 DEF Told
<1>4. CASE fut[t] = "pending" /\ t \notin F \cup S
  BY <1>4 DEF Told
<1> QED  BY <1>1, <1>2, <1>3, <1>4

-------------------------------------------------------------------------------
(* PlaceInv is kept. First the steps of the callers. *)

LEMMA FreshNowhere ==
  ASSUME TypeOK, PlaceInv, NEW x \in Ticket, fut[x] = "none"
  PROVE  x \notin Queued \cup Suspending \cup Batched /\ x # barrier
<1>1. x \notin Queued /\ x \notin Suspending
  BY DEF PlaceInv, ToldSoFar, QueuedAwait, SuspendedPend, Awaited
<1>2. x \notin Batched
  BY DEF PlaceInv, ToldSoFar, BatchedAwait, Awaited, Batched, ToSet
<1>3. x # barrier
  BY TicketsAssumption DEF PlaceInv, ToldSoFar, BarrierAsked, TypeOK, TaskType
<1> QED  BY <1>1, <1>2, <1>3

LEMMA CallersKeep ==
  ASSUME PlaceInv, UNCHANGED <<pc, batch, row, barrier, txId, rowId>>,
         QueuedOnce', SuspendedOnce', Queued' \cap Suspending' = {},
         (Queued' \cup Suspending') \cap Batched = {},
         barrier \in Barrier => barrier \notin Queued' \cup Suspending',
         ToldSoFar',
         \A r \in Req : fut'[r] = "none" \/ r \in Queued' \cup Suspending' => Unstored(r),
         \A r \in Req : fut'[r] = "row" => fut[r] = "row"
  PROVE  PlaceInv'
<1>1. InOnePlace'
  BY DEF PlaceInv, InOnePlace, Apart, Batched
<1>2. StoredWhenDone'
  BY DEF PlaceInv, StoredWhenDone, Unstored, Batched
<1>3. Transaction' /\ Holds'
  BY DEF PlaceInv, Transaction, OfTheBatch, AboveTheFile, InBatchOrder, Holds, Batched
<1> QED  BY <1>1, <1>2, <1>3 DEF PlaceInv

LEMMA PutResumesPlace ==
  ASSUME TypeOK, PlaceInv, PutResumes
  PROVE  PlaceInv'
<1>1. UNCHANGED <<pc, batch, row, barrier, txId, rowId, fut, sent>>
  BY DEF PutResumes, taskVars, fileVars, callerVars
<1>2. /\ QueuedOnce' /\ SuspendedOnce'
      /\ \/ UNCHANGED queue /\ Suspending' = Suspending
         \/ \E x \in Suspending : /\ x \in Ticket
                                  /\ queue' = Append(queue, x) /\ Queued' = Queued \cup {x}
                                  /\ Suspending' = Suspending \ {x}
  BY ResumeFacts DEF PlaceInv, InOnePlace, Apart
<1>3. Queued' \cup Suspending' = Queued \cup Suspending /\ Suspending' \subseteq Suspending
  BY <1>2 DEF Queued
<1>4. Queued' \cap Suspending' = {}
  BY <1>2 DEF PlaceInv, InOnePlace, Apart, Queued
<1>5. ToldSoFar'
  <2>1. SuspendedPend' /\ QueuedAwait'
    BY <1>1, <1>3 DEF PlaceInv, ToldSoFar, SuspendedPend, QueuedAwait, Awaited
  <2>2. BatchedAwait' /\ BarrierAsked' /\ Numbered'
    BY <1>1 DEF PlaceInv, ToldSoFar, BatchedAwait, BarrierAsked, Numbered, Answered
  <2> QED  BY <2>1, <2>2 DEF ToldSoFar
<1>6. \A r \in Req : fut'[r] = "none" \/ r \in Queued' \cup Suspending' => Unstored(r)
  BY <1>1, <1>3 DEF Unstored
<1>7. /\ (Queued' \cup Suspending') \cap Batched = {}
      /\ barrier \in Barrier => barrier \notin Queued' \cup Suspending'
  BY <1>3 DEF PlaceInv, InOnePlace, Apart
<1> QED  BY <1>1, <1>2, <1>4, <1>5, <1>6, <1>7, CallersKeep

(* A ticket is handed in: the queue takes it or its caller waits. *)
LEMMA HandedInPlace ==
  ASSUME TypeOK, PlaceInv, NEW x \in Ticket, fut[x] = "none", Put(x),
         fut' = [fut EXCEPT ![x] = "pending"], Numbered',
         UNCHANGED <<pc, batch, row, barrier, txId, rowId>>
  PROVE  PlaceInv'
<1>1. x \notin Queued \cup Suspending \cup Batched /\ x # barrier
  BY FreshNowhere
<1>2. /\ QueuedOnce' /\ SuspendedOnce'
      /\ \/ UNCHANGED queue /\ Suspending' = Suspending \cup {x}
         \/ /\ queue' = Append(queue, x) /\ Queued' = Queued \cup {x}
            /\ Suspending' = Suspending
  BY <1>1, PutFacts DEF PlaceInv, InOnePlace
<1>3. /\ Queued' \cup Suspending' = Queued \cup Suspending \cup {x}
      /\ Queued' \cap Suspending' = {}
  BY <1>1, <1>2 DEF PlaceInv, InOnePlace, Apart, Queued
<1>4. \A t \in Ticket : fut'[t] = IF t = x THEN "pending" ELSE fut[t]
  BY DEF TypeOK, CallerType
<1>5. ToldSoFar'
  <2>1. Suspending' \subseteq Ticket /\ Suspending \subseteq Ticket
    BY <1>2, PlacesTyped
  <2>0. Queued' \subseteq Queued \cup {x} /\ Suspending' \subseteq Suspending \cup {x}
    BY <1>2 DEF Queued
  <2>2. SuspendedPend' /\ QueuedAwait'
    BY <1>4, <2>0, <2>1 DEF PlaceInv, ToldSoFar, SuspendedPend, QueuedAwait, Awaited
  <2>3. BatchedAwait'
    <3>1. \A i \in DOMAIN batch : batch[i] \in Ticket /\ batch[i] # x
      BY <1>1 DEF TypeOK, TaskType, Ticket, Batched, ToSet
    <3> QED  BY <1>4, <3>1 DEF PlaceInv, ToldSoFar, BatchedAwait, Answered
  <2>4. BarrierAsked'
    BY <1>1, <1>4 DEF PlaceInv, ToldSoFar, BarrierAsked, Ticket
  <2> QED  BY <2>2, <2>3, <2>4 DEF ToldSoFar
<1>6. \A r \in Req : fut'[r] = "none" \/ r \in Queued' \cup Suspending' => Unstored(r)
  BY <1>3, <1>4 DEF Unstored, Ticket
<1>7. \A r \in Req : fut'[r] = "row" => fut[r] = "row"
  BY <1>4 DEF Ticket
<1>8. /\ (Queued' \cup Suspending') \cap Batched = {}
      /\ barrier \in Barrier => barrier \notin Queued' \cup Suspending'
  BY <1>1, <1>3 DEF PlaceInv, InOnePlace, Apart
<1> QED  BY <1>2, <1>3, <1>5, <1>6, <1>7, <1>8, CallersKeep

(* The future of one ticket changes, which is not suspended. *)
LEMMA OneFuturePlace ==
  ASSUME TypeOK, PlaceInv, NEW x \in Ticket, x \notin Suspending, NEW v,
         fut' = [fut EXCEPT ![x] = v], v # "none", v = "row" => x \in Barrier,
         x \in Queued \cup Batched => v = "cancelled",
         UNCHANGED <<queue, putters, woken, pc, batch, row, barrier, txId, rowId>>, Numbered'
  PROVE  PlaceInv'
<1>1. Suspending' = Suspending /\ Queued' = Queued /\ QueuedOnce' /\ SuspendedOnce'
  BY DEF Suspending, Queued, PlaceInv, InOnePlace, QueuedOnce, SuspendedOnce
<1>2. \A t \in Ticket : fut'[t] = IF t = x THEN v ELSE fut[t]
  BY DEF TypeOK, CallerType
<1>3. Suspending \subseteq Ticket
  BY PlacesTyped
<1>4. ToldSoFar'
  <2>1. SuspendedPend' /\ QueuedAwait'
    BY <1>1, <1>2, <1>3 DEF PlaceInv, ToldSoFar, SuspendedPend, QueuedAwait, Awaited
  <2>2. BatchedAwait'
    <3>1. \A i \in DOMAIN batch : batch[i] \in Ticket /\ batch[i] \in Batched
      BY DEF TypeOK, TaskType, Ticket, Batched, ToSet
    <3> QED  BY <1>2, <3>1 DEF PlaceInv, ToldSoFar, BatchedAwait, Answered, Awaited
  <2>3. BarrierAsked'
    BY <1>2 DEF PlaceInv, ToldSoFar, BarrierAsked, Ticket
  <2> QED  BY <2>1, <2>2, <2>3 DEF ToldSoFar
<1>5. \A r \in Req : fut'[r] = "none" \/ r \in Queued' \cup Suspending' => Unstored(r)
  BY <1>1, <1>2 DEF Unstored, Ticket
<1>6. \A r \in Req : fut'[r] = "row" => fut[r] = "row"
  BY <1>2, TicketsAssumption DEF Ticket
<1> QED  BY <1>1, <1>4, <1>5, <1>6, CallersKeep DEF PlaceInv, InOnePlace, Apart

LEMMA SubmitPlace ==
  ASSUME TypeOK, PlaceInv, NEW c \in Caller, Submit(c)
  PROVE  PlaceInv'
<1> DEFINE x == <<c, sent[c] + 1>>
<1>1. sent[c] \in Nat /\ sent[c] + 1 \in 1 .. LinesEach /\ sent \in [Caller -> Nat]
  BY BoundsAssumption DEF Submit, TypeOK, CallerType
<1>2. x \in Line /\ x \in Req /\ x \in Ticket
  BY <1>1 DEF Line, Req, Ticket
<1>3. fut[x] = "none"
  BY <1>1 DEF PlaceInv, ToldSoFar, Numbered
<1>4. UNCHANGED <<pc, batch, row, barrier, txId, rowId>> /\ sent' = [sent EXCEPT ![c] = sent[c] + 1]
  BY DEF Submit, taskVars, fileVars
<1>5. ASSUME NEW v \in {"pending", "refused"}, fut' = [fut EXCEPT ![x] = v]
      PROVE  Numbered'
  <2>1. \A d \in Caller, i \in 1 .. LinesEach :
          /\ <<d, i>> \in Ticket
          /\ fut'[<<d, i>>] = IF d = c /\ i = sent[c] + 1 THEN v ELSE fut[<<d, i>>]
          /\ sent'[d] = IF d = c THEN sent[c] + 1 ELSE sent[d]
    <3>1. \A d \in Caller, i \in 1 .. LinesEach : <<d, i>> \in Ticket
      BY DEF Line, Req, Ticket
    <3> QED  BY <1>1, <1>2, <1>4, <1>5, <3>1 DEF TypeOK, CallerType
  <2>2. \A i \in 1 .. LinesEach : i # sent[c] + 1 => (i > sent[c] <=> i > sent[c] + 1)
    BY <1>1
  <2> SUFFICES ASSUME NEW d \in Caller, NEW i \in 1 .. LinesEach
               PROVE  fut'[<<d, i>>] = "none" <=> i > sent'[d]
    BY DEF Numbered
  <2>3. fut[<<d, i>>] = "none" <=> i > sent[d]
    BY DEF PlaceInv, ToldSoFar, Numbered
  <2>4. CASE d = c /\ i = sent[c] + 1
    BY <1>1, <1>5, <2>1, <2>4
  <2>5. CASE ~(d = c /\ i = sent[c] + 1)
    BY <1>1, <2>1, <2>2, <2>3, <2>5
  <2> QED  BY <2>4, <2>5
<1>6. CASE WriterAlive
  <2>1. fut' = [fut EXCEPT ![x] = "pending"] /\ Put(x)
    BY <1>6 DEF Submit
  <2>2. Numbered'
    BY <1>5, <2>1
  <2> HIDE DEF x
  <2> QED  BY <1>2, <1>3, <1>4, <2>1, <2>2, HandedInPlace
<1>7. CASE ~WriterAlive
  <2>1. fut' = [fut EXCEPT ![x] = "refused"] /\ UNCHANGED <<queue, putters, woken>>
    BY <1>7 DEF Submit, queueVars
  <2>2. Numbered'
    BY <1>5, <2>1
  <2> HIDE DEF x
  <2>3. x \notin Queued \cup Suspending \cup Batched
    BY <1>2, <1>3, FreshNowhere
  <2> QED  BY <1>2, <1>4, <2>1, <2>2, <2>3, OneFuturePlace
<1> QED  BY <1>6, <1>7

LEMMA NumberedKept ==
  ASSUME TypeOK, Numbered, UNCHANGED sent,
         \A t \in Line : fut'[t] = "none" <=> fut[t] = "none"
  PROVE  Numbered'
<1>1. \A c \in Caller, i \in 1 .. LinesEach : <<c, i>> \in Line
  BY DEF Line
<1> QED  BY <1>1 DEF Numbered

LEMMA DrainWritesPlace ==
  ASSUME TypeOK, PlaceInv, NEW b \in Barrier, DrainWrites(b)
  PROVE  PlaceInv'
<1>1. b \in Ticket /\ b \notin Req
  BY TicketsAssumption DEF Ticket
<1>2. UNCHANGED <<pc, batch, row, barrier, txId, rowId, sent>> /\ fut[b] = "none"
  BY DEF DrainWrites, taskVars, fileVars
<1>3. ASSUME NEW v, fut' = [fut EXCEPT ![b] = v] PROVE Numbered'
  <2>1. \A t \in Line : fut'[t] = fut[t]
    BY <1>1, <1>3 DEF TypeOK, CallerType, Ticket, Req
  <2> QED  BY <1>2, <2>1, NumberedKept DEF PlaceInv, ToldSoFar
<1>4. CASE WriterAlive
  BY <1>1, <1>2, <1>3, <1>4, HandedInPlace DEF DrainWrites
<1>5. CASE ~WriterAlive
  <2>1. fut' = [fut EXCEPT ![b] = "row"] /\ UNCHANGED <<queue, putters, woken>>
    BY <1>5 DEF DrainWrites, queueVars
  <2> QED  BY <1>1, <1>2, <1>3, <2>1, FreshNowhere, OneFuturePlace
<1> QED  BY <1>4, <1>5

LEMMA GiveUpPlace ==
  ASSUME TypeOK, PlaceInv, NEW x \in Ticket, GiveUp(x)
  PROVE  PlaceInv'
<1>1. /\ UNCHANGED <<queue, putters, woken, pc, batch, row, barrier, txId, rowId, sent>>
      /\ fut[x] = "pending" /\ x \notin Suspending /\ fut' = [fut EXCEPT ![x] = "cancelled"]
  BY DEF GiveUp, taskVars, fileVars, queueVars, callerVars, Suspending
<1>2. \A t \in Line : fut'[t] = "none" <=> fut[t] = "none"
  BY <1>1 DEF TypeOK, CallerType, Ticket, Req
<1>3. Numbered'
  BY <1>1, <1>2, NumberedKept DEF PlaceInv, ToldSoFar
<1> QED  BY <1>1, <1>3, OneFuturePlace

LEMMA WithdrawPlace ==
  ASSUME TypeOK, PlaceInv, NEW x \in Ticket, Withdraw(x)
  PROVE  PlaceInv'
<1>1. x \in Suspending /\ Suspending' = Suspending \ {x} /\ SuspendedOnce'
  BY WithdrawFacts DEF PlaceInv, InOnePlace
<1>2. /\ UNCHANGED <<queue, pc, batch, row, barrier, txId, rowId, sent>>
      /\ fut' = [fut EXCEPT ![x] = "withdrawn"]
  BY DEF Withdraw, taskVars, fileVars, callerVars
<1>3. x \notin Queued \cup Batched /\ x # barrier /\ fut[x] = "pending"
  BY <1>1, TicketsAssumption DEF PlaceInv, InOnePlace, Apart, ToldSoFar, SuspendedPend, TypeOK, TaskType
<1>4. \A t \in Ticket : fut'[t] = IF t = x THEN "withdrawn" ELSE fut[t]
  BY <1>2 DEF TypeOK, CallerType
<1>5. Suspending \subseteq Ticket
  BY PlacesTyped
<1>6. ToldSoFar'
  <2>1. SuspendedPend' /\ QueuedAwait'
    BY <1>1, <1>2, <1>3, <1>4, <1>5 DEF PlaceInv, ToldSoFar, SuspendedPend, QueuedAwait, Awaited, Queued
  <2>2. BatchedAwait'
    <3>1. \A i \in DOMAIN batch : batch[i] \in Ticket /\ batch[i] # x
      BY <1>3 DEF TypeOK, TaskType, Ticket, Batched, ToSet
    <3> QED  BY <1>2, <1>4, <3>1 DEF PlaceInv, ToldSoFar, BatchedAwait, Answered
  <2>3. BarrierAsked'
    BY <1>2, <1>3, <1>4 DEF PlaceInv, ToldSoFar, BarrierAsked, Ticket
  <2>4. Numbered'
    <3>1. \A t \in Line : fut'[t] = "none" <=> fut[t] = "none"
      BY <1>3, <1>4 DEF Ticket, Req
    <3> QED  BY <1>2, <3>1, NumberedKept DEF PlaceInv, ToldSoFar
  <2> QED  BY <2>1, <2>2, <2>3, <2>4 DEF ToldSoFar
<1>7. \A r \in Req : fut'[r] = "none" \/ r \in Queued' \cup Suspending' => Unstored(r)
  BY <1>1, <1>2, <1>4 DEF Unstored, Ticket, Queued
<1>8. \A r \in Req : fut'[r] = "row" => fut[r] = "row"
  BY <1>4 DEF Ticket
<1>9. Queued' = Queued /\ QueuedOnce'
  BY <1>2 DEF Queued, PlaceInv, InOnePlace, QueuedOnce
<1> QED  BY <1>1, <1>2, <1>6, <1>7, <1>8, <1>9, CallersKeep DEF PlaceInv, InOnePlace, Apart

-------------------------------------------------------------------------------
(* Then the steps of the writer task and of the daemon. *)

(* The task moves on and everything stays in its place. *)
Calm ==
  /\ UNCHANGED <<queue, putters, woken, fut, sent, batch, barrier, txId, rowId>>
  /\ pc' = "settle" <=> pc = "settle"
  /\ pc = "settle" => row' = row
  /\ pc' \in InTx => pc \in InTx \/ txId = NoRows
  /\ pc' = "rows" => (pc = "rows" /\ row' >= row) \/ txId = NoRows
  /\ pc' \in Idle => pc \in Idle
  /\ pc' = "hold" => pc = "hold"

LEMMA CalmPlace ==
  ASSUME TypeOK, PlaceInv, Calm, row' \in Nat
  PROVE  PlaceInv'
<1>1. InOnePlace'
  BY DEF Calm, PlaceInv, InOnePlace, QueuedOnce, SuspendedOnce, Apart, Queued, Batched, Suspending
<1>2. ToldSoFar'
  BY DEF Calm, PlaceInv, ToldSoFar, SuspendedPend, QueuedAwait, BatchedAwait, BarrierAsked,
         Numbered, Answered, Queued, Suspending
<1>3. StoredWhenDone'
  BY DEF Calm, PlaceInv, StoredWhenDone, Unstored, Queued, Batched, Suspending
<1>4. OfTheBatch' /\ AboveTheFile'
  BY DEF Calm, PlaceInv, Transaction, OfTheBatch, AboveTheFile, Batched, NoRows
<1>5. InBatchOrder'
  <2>1. \A i \in DOMAIN batch : i \in Nat /\ batch[i] \in Req
    BY DEF TypeOK, TaskType
  <2>2. row \in Nat
    BY DEF TypeOK, TaskType
  <2>3. CASE txId = NoRows
    BY <2>1, <2>3 DEF Calm, InBatchOrder, NoRows
  <2>4. CASE txId # NoRows
    BY <2>1, <2>2, <2>4 DEF Calm, PlaceInv, Transaction, InBatchOrder
  <2> QED  BY <2>3, <2>4
<1>6. Holds'
  BY DEF Calm, PlaceInv, Holds
<1> QED  BY <1>1, <1>2, <1>3, <1>4, <1>5, <1>6 DEF PlaceInv, Transaction

CalmSteps ==
  \/ Wait \/ HoldOver \/ AbsorbEnds \/ InsertBusy \/ RetryInsert \/ ToRows \/ RowRaises
  \/ RowsOver \/ CancelWaiting \/ FailCapture \/ StopDeadline \/ CloseFeed
  \/ ForeignLock \/ ForeignUnlock \/ ForeignRow \/ UNCHANGED vars

LEMMA CalmStepsAreCalm ==
  ASSUME TypeOK, IdInv, CalmSteps
  PROVE  Calm /\ row' \in Nat /\ UNCHANGED <<feed, rows, rowId, base, ahead>>
<1> USE DEF queueVars, callerVars, taskVars, fileVars, runVars, feedVars
<1>1. row \in Nat
  BY DEF TypeOK, TaskType
<1>2. CASE Wait \/ HoldOver \/ AbsorbEnds \/ CancelWaiting
  BY <1>1, <1>2 DEF Wait, HoldOver, AbsorbEnds, CancelWaiting, Calm, InTx, Idle, Ended
<1>3. CASE InsertBusy \/ RetryInsert
  BY <1>1, <1>3 DEF InsertBusy, RetryInsert, Calm, InTx, Idle, Ended
<1>4. CASE ToRows
  <2>1. txId = NoRows /\ pc = "insert"
    BY <1>4 DEF ToRows, InsertRaises, IdInv, TxIdle, InTx
  <2> QED  BY <1>1, <1>4, <2>1 DEF ToRows, Calm, InTx, Idle, Ended
<1>5. CASE RowRaises \/ RowsOver
  BY <1>1, <1>5 DEF RowRaises, RowsOver, Calm, InTx, Idle, Ended
<1>6. CASE FailCapture \/ StopDeadline \/ CloseFeed
  BY <1>1, <1>6 DEF FailCapture, StopDeadline, CloseFeed, Calm, LoopFree, Suspended, Ended
<1>7. CASE ForeignLock \/ ForeignUnlock \/ ForeignRow \/ UNCHANGED vars
  BY <1>1, <1>7 DEF ForeignLock, ForeignUnlock, ForeignRow, Calm, vars
<1> QED  BY <1>2, <1>3, <1>4, <1>5, <1>6, <1>7 DEF CalmSteps

(* The task takes a ticket off the queue: a line into the batch, a barrier
   to hold or to release, or the sentinel. *)
Taken ==
  /\ queue # <<>> /\ Get
  /\ UNCHANGED <<sent, txId, rowId>> /\ txId = NoRows
  /\ pc \notin InTx \cup {"settle"} /\ pc' \notin InTx \cup {"settle"}

TakenLine ==
  /\ Head(queue) \in Req /\ batch' = Append(batch, Head(queue))
  /\ pc' \notin Idle /\ (pc' = "hold" => batch = <<>>)
  /\ UNCHANGED <<fut, barrier>>

TakenOther ==
  /\ UNCHANGED batch /\ (pc' \in Idle => batch = <<>>) /\ pc' # "hold"
  /\ \/ UNCHANGED <<fut, barrier>>
     \/ UNCHANGED fut /\ Head(queue) \in Barrier /\ barrier' = Head(queue)
     \/ UNCHANGED barrier /\ Head(queue) \in Barrier /\ fut' = Told({}, {Head(queue)})

TakeSteps ==
  TakeSentinel \/ TakeBarrier \/ TakeLine \/ AbsorbLine \/ AbsorbSentinel \/ AbsorbBarrier

LEMMA TakeStepsTake ==
  ASSUME TypeOK, IdInv, PlaceInv, TakeSteps
  PROVE  Taken /\ (TakenLine \/ TakenOther) /\ UNCHANGED <<feed, rows, base, ahead>>
<1> USE DEF queueVars, callerVars, taskVars, fileVars, runVars, feedVars
<1>1. pc \in {"top", "wait", "absorb"} /\ (pc # "absorb" => batch = <<>>)
  BY DEF TakeSteps, TakeSentinel, TakeBarrier, TakeLine, AbsorbLine, AbsorbSentinel,
         AbsorbBarrier, CanTake, Absorbing, PlaceInv, Holds, Idle
<1>2. txId = NoRows
  BY <1>1 DEF IdInv, TxIdle, InTx
<1>3. CASE TakeSentinel \/ TakeBarrier
  <2>1. pc # "absorb"
    BY <1>3 DEF TakeSentinel, TakeBarrier, CanTake
  <2>2. Taken /\ UNCHANGED <<feed, rows, base, ahead>>
    BY <1>1, <1>2, <1>3 DEF TakeSentinel, TakeBarrier, Taken, InTx
  <2>3. TakenOther
    BY <1>1, <1>3, <2>1 DEF TakeSentinel, TakeBarrier, TakenOther
  <2> QED  BY <2>2, <2>3
<1>4. CASE TakeLine
  <2>1. pc # "absorb" /\ batch = <<>> /\ batch' = <<Head(queue)>> /\ Head(queue) \in Req
    BY <1>1, <1>4 DEF TakeLine, CanTake
  <2>2. Taken /\ UNCHANGED <<feed, rows, base, ahead>> /\ pc' \in {"absorb", "hold"}
    BY <1>1, <1>2, <1>4 DEF TakeLine, Taken, InTx
  <2>3. batch' = Append(batch, Head(queue))
    BY <2>1
  <2>4. TakenLine
    BY <1>4, <2>1, <2>2, <2>3 DEF TakeLine, TakenLine, Idle, Ended
  <2> QED  BY <2>2, <2>4
<1>5. CASE AbsorbLine
  <2>1. Taken /\ UNCHANGED <<feed, rows, base, ahead>>
    BY <1>1, <1>2, <1>5 DEF AbsorbLine, Absorbing, Taken, InTx
  <2>2. TakenLine
    BY <1>5 DEF AbsorbLine, Absorbing, TakenLine, Idle, Ended
  <2> QED  BY <2>1, <2>2
<1>6. CASE AbsorbSentinel \/ AbsorbBarrier
  <2>1. Taken /\ UNCHANGED <<feed, rows, base, ahead>>
    BY <1>1, <1>2, <1>6 DEF AbsorbSentinel, AbsorbBarrier, Absorbing, Taken, InTx
  <2>2. TakenOther
    BY <1>6 DEF AbsorbSentinel, AbsorbBarrier, TakenOther, Idle, Ended
  <2> QED  BY <2>1, <2>2
<1> QED  BY <1>3, <1>4, <1>5, <1>6 DEF TakeSteps

LEMMA TakenFacts ==
  ASSUME TypeOK, PlaceInv, Taken
  PROVE  /\ QueuedOnce' /\ SuspendedOnce' /\ Suspending' = Suspending
         /\ Queued = Queued' \cup {Head(queue)} /\ Head(queue) \in Ticket \cup {Sentinel}
         /\ Head(queue) \in Ticket => /\ Head(queue) \notin Queued' \cup Suspending \cup Batched
                                      /\ Head(queue) # barrier
                                      /\ fut[Head(queue)] \in Awaited
<1>1. queue # <<>> /\ Get
  BY DEF Taken
<1>2. /\ QueuedOnce' /\ SuspendedOnce' /\ Suspending' = Suspending
      /\ Queued = Queued' \cup {Head(queue)}
      /\ Head(queue) # Sentinel => Head(queue) \notin Queued'
  BY <1>1, GetFacts DEF PlaceInv, InOnePlace
<1>3. Head(queue) \in Ticket \cup {Sentinel}
  BY <1>1, GetType DEF TypeOK
<1>4. Head(queue) \in Ticket => /\ Head(queue) \notin Queued' \cup Suspending \cup Batched
                                /\ Head(queue) # barrier
                                /\ fut[Head(queue)] \in Awaited
  BY <1>2, TicketsAssumption DEF PlaceInv, InOnePlace, Apart, ToldSoFar, QueuedAwait, TypeOK, TaskType
<1> QED  BY <1>2, <1>3, <1>4

LEMMA TakenLinePlace ==
  ASSUME TypeOK, TypeOK', PlaceInv, Taken, TakenLine
  PROVE  PlaceInv'
<1> DEFINE x == Head(queue)
<1>1. /\ QueuedOnce' /\ SuspendedOnce' /\ Suspending' = Suspending
      /\ Queued = Queued' \cup {x}
  BY TakenFacts
<1>2. x \in Req /\ x \in Ticket /\ batch' = Append(batch, x) /\ batch \in Seq(Req)
  BY DEF TakenLine, Ticket, TypeOK, TaskType
<1>3. x \notin Queued' \cup Suspending \cup Batched /\ x # barrier /\ fut[x] \in Awaited
  BY <1>2, TakenFacts
<1> HIDE DEF x
<1>4. /\ Len(batch) \in Nat /\ Len(batch') = Len(batch) + 1
      /\ DOMAIN batch' = 1 .. Len(batch) + 1 /\ DOMAIN batch = 1 .. Len(batch)
      /\ \A i \in 1 .. Len(batch) : batch'[i] = batch[i]
      /\ batch'[Len(batch) + 1] = x
      /\ Batched' = Batched \cup {x}
  BY <1>2, AppendFacts DEF Batched
<1>5. Distinct(batch')
  BY <1>2, <1>3, AppendDistinct DEF PlaceInv, InOnePlace, Batched
<1>6. UNCHANGED <<fut, barrier, sent, txId, rowId>> /\ txId = NoRows /\ pc' # "settle" /\ pc # "settle"
  BY DEF Taken, TakenLine
<1>7. Apart'
  BY <1>1, <1>3, <1>4, <1>6 DEF PlaceInv, InOnePlace, Apart
<1>8. ToldSoFar'
  <2>1. SuspendedPend' /\ QueuedAwait' /\ BarrierAsked' /\ Numbered'
    BY <1>1, <1>6 DEF PlaceInv, ToldSoFar, SuspendedPend, QueuedAwait, BarrierAsked, Numbered
  <2>2. BatchedAwait'
    BY <1>3, <1>4, <1>6 DEF PlaceInv, ToldSoFar, BatchedAwait, Answered
  <2> QED  BY <2>1, <2>2 DEF ToldSoFar
<1>9. StoredWhenDone'
  <2>1. \A r \in Req : Unstored(r)' => Unstored(r)
    BY <1>1, <1>4, <1>6 DEF Unstored
  <2> QED  BY <1>6, <2>1 DEF PlaceInv, StoredWhenDone
<1>10. Transaction'
  <2>1. \A i \in DOMAIN batch' : batch'[i] \in Req
    BY DEF TypeOK, TaskType
  <2>2. \A r \in Req : txId[r] = 0
    BY <1>6 DEF NoRows
  <2> QED  BY <1>6, <2>1, <2>2 DEF Taken, Transaction, OfTheBatch, AboveTheFile, InBatchOrder
<1>11. Holds'
  <2>1. pc' \notin Idle /\ (pc' = "hold" => batch = <<>>)
    BY DEF TakenLine
  <2>2. pc' = "hold" => Len(batch) = 0
    BY <2>1
  <2> QED  BY <1>4, <2>1, <2>2 DEF Holds
<1> QED  BY <1>1, <1>5, <1>7, <1>8, <1>9, <1>10, <1>11 DEF PlaceInv, InOnePlace

LEMMA TakenOtherPlace ==
  ASSUME TypeOK, PlaceInv, Taken, TakenOther
  PROVE  PlaceInv'
<1> DEFINE x == Head(queue)
<1>1. /\ QueuedOnce' /\ SuspendedOnce' /\ Suspending' = Suspending
      /\ Queued = Queued' \cup {x}
      /\ x \in Ticket => x \notin Queued' \cup Suspending \cup Batched /\ x # barrier /\ fut[x] \in Awaited
  BY TakenFacts
<1>2. UNCHANGED <<batch, sent, txId, rowId>> /\ txId = NoRows /\ pc' # "settle" /\ pc # "settle"
  BY DEF Taken, TakenOther
<1>3. /\ x \in Barrier => x \in Ticket /\ x \notin Req
      /\ \/ UNCHANGED <<fut, barrier>>
         \/ UNCHANGED fut /\ x \in Barrier /\ barrier' = x
         \/ UNCHANGED barrier /\ x \in Barrier /\ fut' = Told({}, {x})
  BY TicketsAssumption DEF TakenOther, Ticket
<1> HIDE DEF x
<1>4. \A t \in Ticket : \/ fut'[t] = fut[t]
                        \/ t = x /\ x \in Barrier /\ fut'[t] = "row" /\ fut[t] = "pending"
  <2>1. ASSUME fut' = Told({}, {x}), x \in Barrier, NEW t \in Ticket
        PROVE  \/ fut'[t] = fut[t]
               \/ t = x /\ x \in Barrier /\ fut'[t] = "row" /\ fut[t] = "pending"
    BY <2>1, ToldFacts
  <2> QED  BY <1>3, <2>1
<1>5. Apart'
  BY <1>1, <1>2, <1>3 DEF PlaceInv, InOnePlace, Apart, Batched
<1>6. Suspending \subseteq Ticket
  BY PlacesTyped
<1>7. ToldSoFar'
  <2>1. SuspendedPend' /\ QueuedAwait'
    BY <1>1, <1>3, <1>4, <1>6 DEF PlaceInv, ToldSoFar, SuspendedPend, QueuedAwait
  <2>2. BarrierAsked'
    <3>1. barrier' \in Barrier => fut[barrier'] # "none" /\ barrier' \in Ticket
      BY <1>1, <1>3 DEF PlaceInv, ToldSoFar, BarrierAsked, Awaited, Ticket
    <3> QED  BY <1>4, <3>1 DEF BarrierAsked
  <2>3. Numbered'
    <3>1. \A t \in Line : fut'[t] = "none" <=> fut[t] = "none"
      BY <1>4 DEF Ticket, Req
    <3> QED  BY <1>2, <3>1, NumberedKept DEF PlaceInv, ToldSoFar
  <2>4. BatchedAwait'
    <3>1. \A i \in DOMAIN batch : batch[i] \in Ticket /\ batch[i] \in Req
      BY DEF TypeOK, TaskType, Ticket
    <3>2. \A i \in DOMAIN batch : fut'[batch[i]] = fut[batch[i]]
      BY <1>3, <1>4, <3>1
    <3> QED  BY <1>2, <3>2 DEF PlaceInv, ToldSoFar, BatchedAwait, Answered
  <2> QED  BY <2>1, <2>2, <2>3, <2>4 DEF ToldSoFar
<1>8. StoredWhenDone'
  <2>1. \A r \in Req : fut'[r] = fut[r]
    BY <1>3, <1>4 DEF Ticket
  <2>2. \A r \in Req : Unstored(r)' => Unstored(r)
    BY <1>1, <1>2, <2>1 DEF Unstored, Batched
  <2> QED  BY <1>2, <2>1, <2>2 DEF PlaceInv, StoredWhenDone
<1>9. Transaction'
  <2>1. \A i \in DOMAIN batch : batch[i] \in Req
    BY DEF TypeOK, TaskType
  <2>2. \A r \in Req : txId[r] = 0
    BY <1>2 DEF NoRows
  <2> QED  BY <1>2, <2>1, <2>2 DEF Taken, Transaction, OfTheBatch, AboveTheFile, InBatchOrder
<1>10. Holds'
  BY <1>2 DEF TakenOther, Holds
<1> QED  BY <1>1, <1>2, <1>5, <1>7, <1>8, <1>9, <1>10 DEF PlaceInv, InOnePlace

(* A notice of the writer's own may join the batch, behind its lines. *)
Joins(n) ==
  /\ n \in Notice /\ fut[n] = "none"
  /\ batch' = Append(batch, n)
  /\ fut' = [fut EXCEPT ![n] = "pending"]

NoticeMayJoin ==
  /\ (UNCHANGED <<batch, fut>> \/ \E n \in Notice : Joins(n))
  /\ UNCHANGED <<queue, putters, woken, sent, barrier, rowId>>
  /\ pc \in {"stamp", "insert"} /\ pc' \in {"insert", "commit"}

LEMMA NoticeSteps ==
  ASSUME TypeOK, IdInv, StampCheck \/ InsertBatch
  PROVE  /\ NoticeMayJoin /\ UNCHANGED <<feed, rows, base, ahead, writeErrors>> /\ txId = NoRows
         /\ \/ StampCheck /\ UNCHANGED txId /\ pc' = "insert"
            \/ InsertBatch /\ txId' = Given(batch') /\ pc' = "commit"
<1> USE DEF queueVars, callerVars, taskVars, fileVars, runVars, feedVars
<1>1. CASE StampCheck
  <2>1. txId = NoRows
    BY <1>1 DEF StampCheck, IdInv, TxIdle, InTx
  <2>2. UNCHANGED <<batch, fut>> \/ \E n \in Notice : Joins(n)
    BY <1>1 DEF StampCheck, Joins
  <2> QED  BY <1>1, <2>1, <2>2 DEF StampCheck, NoticeMayJoin
<1>2. CASE InsertBatch
  <2>1. txId = NoRows
    BY <1>2 DEF InsertBatch, IdInv, TxIdle, InTx
  <2>2. PICK notice \in IF Closing = {} THEN {<<>>} ELSE Closing :
          /\ batch' = batch \o notice
          /\ fut' = [t \in Ticket |-> IF t \in ToSet(notice) THEN "pending" ELSE fut[t]]
    BY <1>2 DEF InsertBatch
  <2>3. CASE notice = <<>>
    <3>1. batch' = batch
      BY <2>2, <2>3 DEF TypeOK, TaskType
    <3>2. fut' = fut
      BY <2>2, <2>3, EmptyFacts DEF TypeOK, CallerType
    <3> QED  BY <1>2, <2>1, <3>1, <3>2 DEF InsertBatch, NoticeMayJoin
  <2>4. CASE notice # <<>>
    <3>1. PICK n \in Notice : fut[n] = "none" /\ notice = <<n>>
      BY <2>2, <2>4 DEF Closing
    <3>2. batch' = Append(batch, n)
      BY <2>2, <3>1 DEF TypeOK, TaskType
    <3>3. ToSet(<<n>>) = {n}
      BY DEF ToSet
    <3>4. fut' = [fut EXCEPT ![n] = "pending"]
      BY <2>2, <3>1, <3>3 DEF TypeOK, CallerType
    <3>5. Joins(n)
      BY <3>1, <3>2, <3>4 DEF Joins
    <3> QED  BY <1>2, <2>1, <3>5 DEF InsertBatch, NoticeMayJoin
  <2> QED  BY <2>3, <2>4
<1> QED  BY <1>1, <1>2

LEMMA JoinsFacts ==
  ASSUME TypeOK, PlaceInv, NEW n, Joins(n)
  PROVE  /\ n \in Req /\ n \in Ticket /\ n \notin Line
         /\ n \notin Queued \cup Suspending \cup Batched /\ n # barrier
         /\ Len(batch) \in Nat /\ Len(batch') = Len(batch) + 1
         /\ DOMAIN batch' = 1 .. Len(batch) + 1 /\ DOMAIN batch = 1 .. Len(batch)
         /\ \A i \in 1 .. Len(batch) : batch'[i] = batch[i]
         /\ batch'[Len(batch) + 1] = n
         /\ Batched' = Batched \cup {n}
         /\ Distinct(batch')
         /\ \A t \in Ticket : fut'[t] = IF t = n THEN "pending" ELSE fut[t]
<1>1. n \in Req /\ n \in Ticket /\ n \notin Line
  BY TicketsAssumption DEF Joins, Req, Ticket
<1>2. batch' = Append(batch, n) /\ batch \in Seq(Req) /\ fut[n] = "none"
  BY DEF Joins, TypeOK, TaskType
<1>3. n \notin Queued \cup Suspending \cup Batched /\ n # barrier
  BY <1>1, <1>2, FreshNowhere
<1>4. /\ Len(batch) \in Nat /\ Len(batch') = Len(batch) + 1
      /\ DOMAIN batch' = 1 .. Len(batch) + 1 /\ DOMAIN batch = 1 .. Len(batch)
      /\ \A i \in 1 .. Len(batch) : batch'[i] = batch[i]
      /\ batch'[Len(batch) + 1] = n
      /\ Batched' = Batched \cup {n}
  BY <1>2, AppendFacts DEF Batched
<1>5. Distinct(batch')
  BY <1>2, <1>3, AppendDistinct DEF PlaceInv, InOnePlace, Batched
<1>6. \A t \in Ticket : fut'[t] = IF t = n THEN "pending" ELSE fut[t]
  BY DEF Joins, TypeOK, CallerType
<1> QED  BY <1>1, <1>3, <1>4, <1>5, <1>6

LEMMA NoticePlace ==
  ASSUME TypeOK, PlaceInv, NoticeMayJoin
  PROVE  InOnePlace' /\ ToldSoFar' /\ StoredWhenDone' /\ Holds'
<1>1. /\ UNCHANGED <<queue, putters, woken, sent, barrier, rowId>>
      /\ pc \in {"stamp", "insert"} /\ pc' \in {"insert", "commit"}
      /\ Queued' = Queued /\ Suspending' = Suspending /\ QueuedOnce' /\ SuspendedOnce'
  BY DEF NoticeMayJoin, Queued, Suspending, PlaceInv, InOnePlace, QueuedOnce, SuspendedOnce
<1>2. Holds'
  BY <1>1 DEF Holds, Idle, Ended
<1>3. CASE UNCHANGED <<batch, fut>>
  <2>1. InOnePlace'
    BY <1>1, <1>3 DEF PlaceInv, InOnePlace, Apart, Batched
  <2>2. ToldSoFar'
    BY <1>1, <1>3 DEF PlaceInv, ToldSoFar, SuspendedPend, QueuedAwait, BatchedAwait, BarrierAsked,
           Numbered, Answered
  <2>3. StoredWhenDone'
    BY <1>1, <1>3 DEF PlaceInv, StoredWhenDone, Unstored, Batched
  <2> QED  BY <1>2, <2>1, <2>2, <2>3
<1>4. ASSUME NEW n \in Notice, Joins(n) PROVE InOnePlace' /\ ToldSoFar' /\ StoredWhenDone'
  <2>1. /\ n \in Req /\ n \in Ticket /\ n \notin Line
        /\ n \notin Queued \cup Suspending \cup Batched /\ n # barrier
        /\ Len(batch) \in Nat
        /\ DOMAIN batch' = 1 .. Len(batch) + 1 /\ DOMAIN batch = 1 .. Len(batch)
        /\ \A i \in 1 .. Len(batch) : batch'[i] = batch[i]
        /\ batch'[Len(batch) + 1] = n
        /\ Batched' = Batched \cup {n}
        /\ Distinct(batch')
        /\ \A t \in Ticket : fut'[t] = IF t = n THEN "pending" ELSE fut[t]
    BY <1>4, JoinsFacts
  <2>2. InOnePlace'
    BY <1>1, <2>1 DEF PlaceInv, InOnePlace, Apart
  <2>3. Suspending \subseteq Ticket
    BY PlacesTyped
  <2>4. SuspendedPend' /\ QueuedAwait'
    BY <1>1, <2>1, <2>3 DEF PlaceInv, ToldSoFar, SuspendedPend, QueuedAwait
  <2>5. BarrierAsked'
    BY <1>1, <2>1 DEF PlaceInv, ToldSoFar, BarrierAsked, Ticket
  <2>6. Numbered'
    <3>1. \A t \in Line : fut'[t] = "none" <=> fut[t] = "none"
      BY <2>1 DEF Ticket, Req
    <3> QED  BY <1>1, <3>1, NumberedKept DEF PlaceInv, ToldSoFar
  <2>7. BatchedAwait'
    <3>1. \A i \in 1 .. Len(batch) : batch[i] \in Ticket /\ batch[i] # n /\ fut[batch[i]] \in Awaited
      BY <1>1, <2>1 DEF TypeOK, TaskType, Ticket, Batched, ToSet, PlaceInv, ToldSoFar, BatchedAwait, Answered
    <3> QED  BY <1>1, <2>1, <3>1 DEF BatchedAwait, Answered, Awaited
  <2>8. StoredWhenDone'
    <3>1. \A r \in Req : Unstored(r)' => Unstored(r)
      <4>1. Unstored(n)
        BY <1>4 DEF Joins, Unstored
      <4> QED  BY <1>1, <2>1, <4>1 DEF Unstored, Ticket
    <3> QED  BY <1>1, <2>1, <3>1 DEF PlaceInv, StoredWhenDone, Ticket
  <2> QED  BY <2>2, <2>4, <2>5, <2>6, <2>7, <2>8 DEF ToldSoFar
<1> QED  BY <1>2, <1>3, <1>4 DEF NoticeMayJoin

LEMMA GivenAt ==
  ASSUME NEW s \in Seq(Req), Distinct(s), NEW i \in DOMAIN s
  PROVE  Given(s)[s[i]] = nextId - 1 + i
<1>1. s[i] \in Req /\ s[i] \in ToSet(s)
  BY DEF ToSet
<1>2. (CHOOSE k \in DOMAIN s : s[k] = s[i]) = i
  BY DEF Distinct
<1> QED  BY <1>1, <1>2 DEF Given

LEMMA NoticeStepPlace ==
  ASSUME TypeOK, TypeOK', IdInv, PlaceInv, StampCheck \/ InsertBatch
  PROVE  PlaceInv'
<1>1. /\ NoticeMayJoin /\ txId = NoRows
      /\ \/ StampCheck /\ UNCHANGED txId /\ pc' = "insert"
         \/ InsertBatch /\ txId' = Given(batch') /\ pc' = "commit"
  BY NoticeSteps
<1>2. InOnePlace' /\ ToldSoFar' /\ StoredWhenDone' /\ Holds'
  BY <1>1, NoticePlace
<1>3. batch' \in Seq(Req) /\ (\A i \in DOMAIN batch' : batch'[i] \in Req) /\ Distinct(batch')
  BY <1>2 DEF TypeOK, TaskType, InOnePlace
<1>4. UNCHANGED rowId
  BY <1>1 DEF NoticeMayJoin
<1>5. CASE UNCHANGED txId /\ pc' = "insert"
  <2>1. \A r \in Req : txId'[r] = 0
    BY <1>1, <1>5 DEF NoRows
  <2>2. Transaction'
    BY <1>3, <1>5, <2>1 DEF Transaction, OfTheBatch, AboveTheFile, InBatchOrder, InTx
  <2> QED  BY <1>2, <2>2 DEF PlaceInv
<1>6. CASE InsertBatch /\ txId' = Given(batch') /\ pc' = "commit"
  <2>1. \A r \in Req : txId'[r] # 0 => r \in Batched' /\ txId'[r] >= nextId
    BY <1>3, <1>6, GivenType DEF Batched
  <2>2. \A r \in Req : rowId[r] \in Nat /\ rowId[r] < nextId
    BY <1>6 DEF InsertBatch, IdInv, SequenceAhead, TypeOK, FileType
  <2>3. nextId \in Nat /\ (\A r \in Req : txId'[r] \in Nat)
    BY DEF TypeOK, FileType
  <2>4. OfTheBatch' /\ AboveTheFile'
    BY <1>4, <1>6, <2>1, <2>2, <2>3 DEF OfTheBatch, AboveTheFile
  <2>5. \A i \in DOMAIN batch' : txId'[batch'[i]] = nextId - 1 + i /\ i \in Nat
    BY <1>3, <1>6, GivenAt
  <2>6. InBatchOrder'
    BY <1>6, <2>3, <2>5 DEF InBatchOrder
  <2> QED  BY <1>2, <2>4, <2>6 DEF PlaceInv, Transaction
<1> QED  BY <1>1, <1>5, <1>6

(* A row goes in by itself. *)
LEMMA RowInsertedPlace ==
  ASSUME TypeOK, IdInv, PlaceInv, RowInserted
  PROVE  PlaceInv'
<1> DEFINE x == batch[row]
<1>1. /\ UNCHANGED <<queue, putters, woken, fut, sent, batch, barrier, rowId>>
      /\ pc = "rows" /\ pc' = "rows" /\ row' = row + 1 /\ row \in DOMAIN batch /\ x \in Req
      /\ row \in Nat /\ txId' = [txId EXCEPT ![x] = nextId]
  BY DEF RowInserted, queueVars, callerVars, TypeOK, TaskType
<1>2. \A r \in Req : rowId[r] < nextId /\ txId[r] < nextId /\ rowId[r] \in Nat /\ txId[r] \in Nat
  BY <1>1 DEF IdInv, SequenceAhead, TypeOK, FileType
<1>3. /\ \A r \in Req : txId'[r] = IF r = x THEN nextId ELSE txId[r]
      /\ nextId \in Nat \ {0}
  BY <1>1 DEF TypeOK, FileType
<1>4. \A i \in DOMAIN batch : i \in Nat /\ batch[i] \in Req /\ (batch[i] = x => i = row) /\ x \in Batched
  BY <1>1 DEF TypeOK, TaskType, PlaceInv, InOnePlace, Distinct, Batched, ToSet
<1> HIDE DEF x
<1>5. InOnePlace'
  BY <1>1 DEF PlaceInv, InOnePlace, QueuedOnce, SuspendedOnce, Apart, Queued, Batched, Suspending
<1>6. ToldSoFar'
  BY <1>1 DEF PlaceInv, ToldSoFar, SuspendedPend, QueuedAwait, BatchedAwait, BarrierAsked,
         Numbered, Answered, Queued, Suspending
<1>7. StoredWhenDone'
  BY <1>1 DEF PlaceInv, StoredWhenDone, Unstored, Queued, Batched, Suspending
<1>8. OfTheBatch'
  BY <1>1, <1>3, <1>4 DEF PlaceInv, Transaction, OfTheBatch, Batched
<1>9. AboveTheFile'
  BY <1>1, <1>2, <1>3 DEF PlaceInv, Transaction, AboveTheFile, InTx
<1>10. InBatchOrder'
  <2>1. \A i \in DOMAIN batch : i >= row => txId[batch[i]] = 0
    BY <1>1 DEF PlaceInv, Transaction, InBatchOrder
  <2>2. \A i \in DOMAIN batch : i >= row' => txId'[batch[i]] = 0
    BY <1>1, <1>3, <1>4, <2>1
  <2>3. \A i, j \in DOMAIN batch :
          i < j /\ txId'[batch[i]] # 0 /\ txId'[batch[j]] # 0 => txId'[batch[i]] < txId'[batch[j]]
    <3> SUFFICES ASSUME NEW i \in DOMAIN batch, NEW j \in DOMAIN batch,
                        i < j, txId'[batch[i]] # 0, txId'[batch[j]] # 0
                 PROVE  txId'[batch[i]] < txId'[batch[j]]
      OBVIOUS
    <3>1. CASE j = row
      BY <1>1, <1>2, <1>3, <1>4, <3>1 DEF x
    <3>2. CASE j # row
      <4>1. j < row /\ i # row
        BY <1>1, <1>4, <2>2, <3>2
      <4>2. txId'[batch[i]] = txId[batch[i]] /\ txId'[batch[j]] = txId[batch[j]]
        BY <1>3, <1>4, <3>2, <4>1
      <4> QED  BY <4>2 DEF PlaceInv, Transaction, InBatchOrder
    <3> QED  BY <3>1, <3>2
  <2> QED  BY <1>1, <2>2, <2>3 DEF InBatchOrder
<1>11. Holds'
  BY <1>1 DEF PlaceInv, Holds
<1> QED  BY <1>5, <1>6, <1>7, <1>8, <1>9, <1>10, <1>11 DEF PlaceInv, Transaction

LEMMA CommitPlace ==
  ASSUME TypeOK, PlaceInv, Commit
  PROVE  PlaceInv'
<1>1. /\ UNCHANGED <<queue, putters, woken, fut, sent, batch, barrier, txId>>
      /\ pc = "commit" /\ pc' = "settle" /\ row' = 1
      /\ rowId' = [r \in Req |-> IF txId[r] # 0 THEN txId[r] ELSE rowId[r]]
  BY DEF Commit, queueVars, callerVars
<1>2. \A r \in Req : rowId'[r] = IF txId[r] # 0 THEN txId[r] ELSE rowId[r]
  BY <1>1
<1>3. InOnePlace'
  BY <1>1 DEF PlaceInv, InOnePlace, QueuedOnce, SuspendedOnce, Apart, Queued, Batched, Suspending
<1>4. ToldSoFar'
  <2>1. \A i \in DOMAIN batch : ~(i < 1)
    BY DEF TypeOK, TaskType
  <2>2. BatchedAwait'
    BY <1>1, <2>1 DEF PlaceInv, ToldSoFar, BatchedAwait, Answered
  <2> QED  BY <1>1, <2>2 DEF PlaceInv, ToldSoFar, SuspendedPend, QueuedAwait, BarrierAsked,
               Numbered, Queued, Suspending
<1>5. \A r \in Req : r \in Batched => rowId[r] = 0
  BY <1>1 DEF PlaceInv, StoredWhenDone, Unstored
<1>6. \A r \in Req : txId[r] # 0 => r \in Batched /\ fut[r] # "none" /\ r \notin Queued \cup Suspending
  <2>1. \A r \in Req : r \in Batched => fut[r] # "none" /\ r \notin Queued \cup Suspending
    BY FreshNowhere DEF Ticket, PlaceInv, InOnePlace, Apart
  <2> QED  BY <2>1 DEF PlaceInv, Transaction, OfTheBatch
<1>7. StoredWhenDone'
  <2>1. \A r \in Req : Unstored(r)' => Unstored(r) /\ txId[r] = 0
    BY <1>1, <1>6 DEF Unstored, Queued, Suspending
  <2> QED  BY <1>1, <1>2, <2>1 DEF PlaceInv, StoredWhenDone
<1>8. OfTheBatch'
  <2>1. Batched \subseteq Req /\ Batched' = Batched
    BY <1>1, PlacesTyped DEF Batched
  <2> QED  BY <1>1, <1>2, <1>5, <1>6, <2>1 DEF OfTheBatch
<1>9. AboveTheFile'
  <2>1. \A r, s \in Req : txId[r] # 0 => rowId[s] < txId[r]
    BY <1>1 DEF PlaceInv, Transaction, AboveTheFile, InTx
  <2>2. \A s \in Req : s \notin Batched => rowId'[s] = rowId[s]
    BY <1>2, <1>6
  <2>3. \A r \in Batched : r \in Req
    BY PlacesTyped
  <2> QED  BY <1>1, <2>1, <2>2, <2>3 DEF AboveTheFile, Batched, InTx
<1>10. InBatchOrder' /\ Holds'
  BY <1>1 DEF PlaceInv, Transaction, InBatchOrder, Holds, Idle, Ended
<1> QED  BY <1>3, <1>4, <1>7, <1>8, <1>9, <1>10 DEF PlaceInv, Transaction

(* What AnswerRow tells: an error for a row that is not in the file. *)
LEMMA AnswerFacts ==
  ASSUME TypeOK, PlaceInv, AnswerRow
  PROVE  /\ UNCHANGED <<queue, putters, woken, sent, batch, barrier, txId, rowId, pc, feed, base,
                        ahead, feedClosed>>
         /\ pc = "settle" /\ row \in Nat \ {0} /\ row \in DOMAIN batch /\ row' = row + 1
         /\ batch[row] \in Req /\ batch[row] \in Ticket
         /\ rowId[batch[row]] = txId[batch[row]]
         /\ fut[batch[row]] \in Awaited
         /\ \A t \in Ticket :
              fut'[t] = IF t = batch[row] /\ fut[t] = "pending"
                        THEN IF txId[t] = 0 THEN "error" ELSE "row"
                        ELSE fut[t]
         /\ IF txId[batch[row]] = 0 THEN UNCHANGED rows /\ writeErrors' = writeErrors + 1
            ELSE rows' = Append(rows, batch[row]) /\ UNCHANGED writeErrors
<1>1. /\ UNCHANGED <<queue, putters, woken, sent, batch, barrier, txId, rowId, pc, feed, base,
                     ahead, feedClosed>>
      /\ pc = "settle" /\ row \in Nat \ {0} /\ row \in DOMAIN batch /\ row' = row + 1
      /\ batch[row] \in Req /\ batch[row] \in Ticket
  BY DEF AnswerRow, queueVars, callerVars, fileVars, feedVars, runVars, TypeOK, TaskType, Ticket
<1>2. batch[row] \in Batched /\ rowId[batch[row]] = txId[batch[row]]
  BY <1>1 DEF Batched, ToSet, PlaceInv, Transaction, OfTheBatch
<1>3. fut[batch[row]] \in Awaited
  BY <1>1 DEF PlaceInv, ToldSoFar, BatchedAwait, Answered
<1>4. /\ txId[batch[row]] = 0 => fut' = Told({batch[row]}, {})
      /\ txId[batch[row]] # 0 => fut' = Told({}, {batch[row]})
      /\ IF txId[batch[row]] = 0 THEN UNCHANGED rows /\ writeErrors' = writeErrors + 1
         ELSE rows' = Append(rows, batch[row]) /\ UNCHANGED writeErrors
  BY DEF AnswerRow
<1>5. \A t \in Ticket :
        fut'[t] = IF t = batch[row] /\ fut[t] = "pending"
                  THEN IF txId[t] = 0 THEN "error" ELSE "row"
                  ELSE fut[t]
  <2>1. CASE txId[batch[row]] = 0
    <3>1. fut' = Told({batch[row]}, {})
      BY <1>4, <2>1
    <3> QED  BY <2>1, <3>1, ToldFacts
  <2>2. CASE txId[batch[row]] # 0
    <3>1. fut' = Told({}, {batch[row]})
      BY <1>4, <2>2
    <3> QED  BY <2>2, <3>1, ToldFacts
  <2> QED  BY <2>1, <2>2
<1> QED  BY <1>1, <1>2, <1>3, <1>4, <1>5

LEMMA AnswerRowPlace ==
  ASSUME TypeOK, PlaceInv, AnswerRow
  PROVE  PlaceInv'
<1> DEFINE x == batch[row]
<1>1. /\ UNCHANGED <<queue, putters, woken, sent, batch, barrier, txId, rowId, pc>>
      /\ pc = "settle" /\ row \in Nat \ {0} /\ row \in DOMAIN batch /\ row' = row + 1
      /\ x \in Req /\ x \in Ticket /\ rowId[x] = txId[x] /\ fut[x] \in Awaited
      /\ \A t \in Ticket :
              fut'[t] = IF t = x /\ fut[t] = "pending"
                        THEN IF txId[t] = 0 THEN "error" ELSE "row"
                        ELSE fut[t]
  BY AnswerFacts
<1>2. \A i \in DOMAIN batch : i \in Nat /\ batch[i] \in Ticket /\ (batch[i] = x => i = row) /\ x \in Batched
  BY <1>1 DEF TypeOK, TaskType, PlaceInv, InOnePlace, Distinct, Batched, ToSet, Ticket
<1> HIDE DEF x
<1>3. x \notin Queued \cup Suspending /\ x # barrier
  <2>1. x \notin Queued \cup Suspending
    BY <1>1, <1>2 DEF PlaceInv, InOnePlace, Apart
  <2>2. x # barrier
    BY <1>1, TicketsAssumption DEF TypeOK, TaskType
  <2> QED  BY <2>1, <2>2
<1>4. InOnePlace'
  BY <1>1 DEF PlaceInv, InOnePlace, QueuedOnce, SuspendedOnce, Apart, Queued, Batched, Suspending
<1>5. Suspending \subseteq Ticket
  BY PlacesTyped
<1>6. ToldSoFar'
  <2>1. SuspendedPend' /\ QueuedAwait'
    BY <1>1, <1>3, <1>5 DEF PlaceInv, ToldSoFar, SuspendedPend, QueuedAwait, Queued, Suspending
  <2>2. BarrierAsked'
    BY <1>1 DEF PlaceInv, ToldSoFar, BarrierAsked, Ticket
  <2>3. Numbered'
    <3>1. \A t \in Line : fut'[t] = "none" <=> fut[t] = "none"
      BY <1>1 DEF Ticket, Req, Awaited
    <3> QED  BY <1>1, <3>1, NumberedKept DEF PlaceInv, ToldSoFar
  <2>4. BatchedAwait'
    <3> SUFFICES ASSUME NEW i \in DOMAIN batch
                 PROVE  fut'[batch[i]] \in IF i < row + 1 THEN {"row", "error", "cancelled"} ELSE Awaited
      BY <1>1 DEF BatchedAwait, Answered
    <3>1. fut[batch[i]] \in IF i < row THEN {"row", "error", "cancelled"} ELSE Awaited
      BY <1>1 DEF PlaceInv, ToldSoFar, BatchedAwait, Answered
    <3>2. CASE i = row
      BY <1>1, <1>2, <3>2 DEF x, Awaited
    <3>3. CASE i # row
      <4>1. fut'[batch[i]] = fut[batch[i]] /\ (i < row + 1 <=> i < row)
        BY <1>1, <1>2, <3>3
      <4> QED  BY <3>1, <4>1
    <3> QED  BY <3>2, <3>3
  <2> QED  BY <2>1, <2>2, <2>3, <2>4 DEF ToldSoFar
<1>7. StoredWhenDone'
  <2>1. \A r \in Req : Unstored(r)' => Unstored(r)
    BY <1>1 DEF Unstored, Queued, Batched, Suspending, Ticket, Awaited
  <2>2. \A r \in Req : fut'[r] = "row" => fut[r] = "row" \/ (r = x /\ txId[r] # 0)
    BY <1>1 DEF Ticket
  <2> QED  BY <1>1, <2>1, <2>2 DEF PlaceInv, StoredWhenDone
<1>8. Transaction' /\ Holds'
  BY <1>1 DEF PlaceInv, Transaction, OfTheBatch, AboveTheFile, InBatchOrder, Holds, Batched
<1> QED  BY <1>4, <1>6, <1>7, <1>8 DEF PlaceInv

(* A batch ends: the task lets go of it, and its callers have been told. *)
BatchEnds ==
  /\ batch' = <<>> /\ barrier' = NoTicket /\ txId' = NoRows /\ pc' \in Idle \ {"wait", "down"}
  /\ UNCHANGED <<queue, putters, woken, sent, rowId>>
  /\ \E F \in {{}, Batched}, S \in {{}, {barrier}} : fut' = Told(F, S)

BatchLosses == ResyncFails \/ CommitFails \/ CancelHolding \/ CancelRetrying
BatchSteps == BatchLosses \/ Broadcast \/ BroadcastRaises

LEMMA BatchStepsEnd ==
  ASSUME TypeOK, PlaceInv, BatchSteps
  PROVE  /\ BatchEnds /\ UNCHANGED <<base, ahead>>
         /\ rows' = <<>>
         /\ BatchLosses => UNCHANGED feed /\ pc \in {"insert", "commit", "hold", "busy"}
         /\ ~BatchLosses => pc = "settle" /\ row > Len(batch) /\ fut' = Told({}, {barrier})
<1> USE DEF queueVars, callerVars, runVars, feedVars
<1>1. AfterBatch \in Idle \ {"wait", "down"}
  BY DEF AfterBatch, Idle, Ended
<1>2. CASE ResyncFails \/ CommitFails
  BY <1>1, <1>2 DEF ResyncFails, InsertRaises, CommitFails, BatchOver, BatchEnds, BatchLosses, Batched
<1>3. CASE CancelHolding \/ CancelRetrying
  BY <1>3 DEF CancelHolding, CancelRetrying, BatchOver, BatchEnds, BatchLosses, Batched, Idle, Ended
<1>4. CASE Broadcast
  BY <1>1, <1>4 DEF Broadcast, BatchOver, BatchEnds, BatchLosses, ResyncFails, InsertRaises, CommitFails,
                    CancelHolding, CancelRetrying
<1>5. CASE BroadcastRaises
  BY <1>5 DEF BroadcastRaises, BatchOver, BatchEnds, BatchLosses, ResyncFails, InsertRaises, CommitFails,
              CancelHolding, CancelRetrying, Idle, Ended
<1> QED  BY <1>2, <1>3, <1>4, <1>5 DEF BatchSteps, BatchLosses

LEMMA BatchEndsFacts ==
  ASSUME TypeOK, PlaceInv, BatchEnds
  PROVE  /\ Queued' = Queued /\ Suspending' = Suspending /\ Batched' = {}
         /\ \A t \in Ticket :
              \/ fut'[t] = fut[t]
              \/ fut[t] = "pending" /\ t \in Batched /\ fut'[t] = "error"
              \/ fut[t] = "pending" /\ t = barrier /\ t \in Barrier /\ t \notin Req /\ fut'[t] = "row"
<1>1. Queued' = Queued /\ Suspending' = Suspending /\ Batched' = {}
  BY EmptyFacts DEF BatchEnds, Queued, Suspending, Batched
<1>2. PICK F \in {{}, Batched}, S \in {{}, {barrier}} : fut' = Told(F, S)
  BY DEF BatchEnds
<1>3. barrier \in Ticket => barrier \in Barrier /\ barrier \notin Req
  BY TicketsAssumption DEF TypeOK, TaskType
<1>4. \A t \in Ticket :
         /\ fut[t] # "pending" => fut'[t] = fut[t]
         /\ fut[t] = "pending" => fut'[t] = IF t \in F THEN "error"
                                            ELSE IF t \in S THEN "row" ELSE "pending"
  BY <1>2, ToldFacts
<1> QED  BY <1>1, <1>2, <1>3, <1>4

LEMMA BatchEndsPlace ==
  ASSUME TypeOK, PlaceInv, BatchEnds
  PROVE  PlaceInv'
<1>1. /\ Queued' = Queued /\ Suspending' = Suspending /\ Batched' = {}
      /\ \A t \in Ticket :
              \/ fut'[t] = fut[t]
              \/ fut[t] = "pending" /\ t \in Batched /\ fut'[t] = "error"
              \/ fut[t] = "pending" /\ t = barrier /\ t \in Barrier /\ t \notin Req /\ fut'[t] = "row"
  BY BatchEndsFacts
<1>2. /\ batch' = <<>> /\ barrier' = NoTicket /\ txId' = NoRows /\ pc' \in Idle \ {"wait", "down"}
      /\ UNCHANGED <<queue, putters, woken, sent, rowId>>
  BY DEF BatchEnds
<1>3. NoTicket \notin Barrier
  BY TicketsAssumption DEF Ticket
<1>4. QueuedOnce' /\ SuspendedOnce' /\ Distinct(batch')
  BY <1>2, EmptyFacts DEF PlaceInv, InOnePlace, QueuedOnce, SuspendedOnce
<1>5. Apart'
  BY <1>1, <1>2, <1>3 DEF PlaceInv, InOnePlace, Apart
<1>6. \A t \in Ticket : t \in Queued \cup Suspending => fut'[t] = fut[t]
  BY <1>1 DEF PlaceInv, InOnePlace, Apart
<1>7. ToldSoFar'
  <2>1. SuspendedPend' /\ QueuedAwait'
    BY <1>1, <1>2, <1>6, PlacesTyped DEF PlaceInv, ToldSoFar, SuspendedPend, QueuedAwait
  <2>2. BarrierAsked' /\ BatchedAwait'
    BY <1>2, <1>3, EmptyFacts DEF BarrierAsked, BatchedAwait
  <2>3. Numbered'
    <3>1. \A t \in Line : fut'[t] = "none" <=> fut[t] = "none"
      BY <1>1 DEF Ticket, Req
    <3> QED  BY <1>2, <3>1, NumberedKept DEF PlaceInv, ToldSoFar
  <2> QED  BY <2>1, <2>2, <2>3 DEF ToldSoFar
<1>8. StoredWhenDone'
  <2>1. \A r \in Req : Unstored(r)' => Unstored(r)
    BY <1>1 DEF Unstored, Ticket
  <2>2. \A r \in Req : fut'[r] = "row" => fut[r] = "row"
    BY <1>1 DEF Ticket
  <2> QED  BY <1>2, <2>1, <2>2 DEF PlaceInv, StoredWhenDone
<1>9. Transaction'
  <2>1. \A r \in Req : txId'[r] = 0
    BY <1>2 DEF NoRows
  <2>2. pc' \notin InTx /\ pc' # "settle"
    BY <1>2 DEF InTx, Idle, Ended
  <2> QED  BY <1>2, <2>1, <2>2, EmptyFacts DEF Transaction, OfTheBatch, AboveTheFile, InBatchOrder, InTx
<1>10. Holds'
  BY <1>2 DEF Holds, Idle, Ended
<1> QED  BY <1>4, <1>5, <1>7, <1>8, <1>9, <1>10 DEF PlaceInv, InOnePlace

(* _fail_queued: what is queued is failed, in every end of a run. *)
QueueFailSteps == WriterExited \/ CaptureFailed \/ Stopped

LEMMA QueueFails ==
  ASSUME TypeOK, PlaceInv, QueueFailSteps
  PROVE  /\ FailQueued /\ pc \in Ended /\ pc' \in Ended
         /\ UNCHANGED <<sent, batch, row, rows, barrier, txId, rowId, feed, base, ahead>>
         /\ batch = <<>>
         /\ queue' = <<>> /\ Queued' = {} /\ Suspending' = Suspending /\ SuspendedOnce'
         /\ \A t \in Ticket :
              \/ fut'[t] = fut[t] /\ ~(t \in Queued /\ fut[t] = "pending")
              \/ fut[t] = "pending" /\ t \in Queued /\ t \in Req /\ fut'[t] = "error"
              \/ fut[t] = "pending" /\ t \in Queued /\ t \in Barrier /\ t \notin Req /\ fut'[t] = "row"
<1>1. /\ FailQueued /\ pc \in Ended /\ pc' \in Ended
      /\ UNCHANGED <<sent, batch, row, rows, barrier, txId, rowId, feed, base, ahead>>
  BY DEF QueueFailSteps, WriterExited, CaptureFailed, Stopped, Joined, Ended, callerVars, taskVars,
         fileVars, feedVars, runVars
<1>2. batch = <<>>
  BY <1>1 DEF PlaceInv, Holds, Idle
<1>3. queue' = <<>> /\ Suspending' = Suspending /\ SuspendedOnce'
  BY <1>1, FailQueuedFacts DEF PlaceInv, InOnePlace
<1>4. Queued' = {}
  BY <1>3, EmptyFacts DEF Queued
<1>5. fut' = Told(Queued \cap Req, Queued \cap Barrier)
  BY <1>1 DEF FailQueued, Queued
<1>6. \A t \in Ticket : (t \in Barrier <=> t \notin Req)
  BY TicketsAssumption DEF Ticket
<1>7. \A t \in Ticket :
         /\ fut[t] # "pending" => fut'[t] = fut[t]
         /\ fut[t] = "pending" => fut'[t] = IF t \in Queued \cap Req THEN "error"
                                            ELSE IF t \in Queued \cap Barrier THEN "row" ELSE "pending"
  BY <1>5, ToldFacts
<1> QED  BY <1>1, <1>2, <1>3, <1>4, <1>6, <1>7

LEMMA QueueFailPlace ==
  ASSUME TypeOK, PlaceInv, QueueFailSteps
  PROVE  PlaceInv'
<1>1. /\ pc \in Ended /\ pc' \in Ended
      /\ UNCHANGED <<sent, batch, row, rows, barrier, txId, rowId>>
      /\ batch = <<>>
      /\ queue' = <<>> /\ Queued' = {} /\ Suspending' = Suspending /\ SuspendedOnce'
      /\ \A t \in Ticket :
              \/ fut'[t] = fut[t] /\ ~(t \in Queued /\ fut[t] = "pending")
              \/ fut[t] = "pending" /\ t \in Queued /\ t \in Req /\ fut'[t] = "error"
              \/ fut[t] = "pending" /\ t \in Queued /\ t \in Barrier /\ t \notin Req /\ fut'[t] = "row"
  BY QueueFails
<1>2. InOnePlace'
  BY <1>1, EmptyFacts DEF PlaceInv, InOnePlace, QueuedOnce, Apart, Batched
<1>3. ToldSoFar'
  <2>1. SuspendedPend' /\ QueuedAwait'
    <3>1. \A t \in Suspending : t \in Ticket /\ t \notin Queued
      BY PlacesTyped DEF PlaceInv, InOnePlace, Apart
    <3> QED  BY <1>1, <3>1 DEF PlaceInv, ToldSoFar, SuspendedPend, QueuedAwait
  <2>2. BarrierAsked' /\ BatchedAwait'
    BY <1>1, EmptyFacts DEF PlaceInv, ToldSoFar, BarrierAsked, BatchedAwait, Ticket
  <2>3. Numbered'
    <3>1. \A t \in Line : fut'[t] = "none" <=> fut[t] = "none"
      BY <1>1 DEF Ticket, Req
    <3> QED  BY <1>1, <3>1, NumberedKept DEF PlaceInv, ToldSoFar
  <2> QED  BY <2>1, <2>2, <2>3 DEF ToldSoFar
<1>4. StoredWhenDone'
  <2>1. \A r \in Req : Unstored(r)' => Unstored(r)
    BY <1>1, EmptyFacts DEF Unstored, Ticket, Batched
  <2>2. \A r \in Req : fut'[r] = "row" => fut[r] = "row"
    BY <1>1 DEF Ticket
  <2> QED  BY <1>1, <2>1, <2>2 DEF PlaceInv, StoredWhenDone
<1>5. Transaction' /\ Holds'
  <2>1. pc' \notin InTx /\ pc' \notin {"settle", "rows", "hold"}
    BY <1>1 DEF InTx, Ended
  <2>2. \A r \in Req : txId[r] # 0 => r \in {}
    BY <1>1, EmptyFacts DEF PlaceInv, Transaction, OfTheBatch, Batched
  <2> QED  BY <1>1, <2>1, <2>2, EmptyFacts DEF Transaction, OfTheBatch, AboveTheFile, InBatchOrder, InTx,
                                                Holds
<1> QED  BY <1>2, <1>3, <1>4, <1>5 DEF PlaceInv

(* The process ends, or a new one starts. *)
LEMMA MemoryLostFacts ==
  ASSUME TypeOK, Kill \/ Start
  PROVE  /\ queue' = <<>> /\ putters' = <<>> /\ woken' = <<>> /\ batch' = <<>> /\ rows' = <<>>
         /\ barrier' = NoTicket /\ txId' = NoRows /\ feed' = <<>> /\ feedClosed' = FALSE
         /\ writeErrors' = 0 /\ ahead' = [b \in Barrier |-> {}]
         /\ Queued' = {} /\ Suspending' = {} /\ Batched' = {}
         /\ UNCHANGED <<sent, rowId>> /\ pc' \in {"top", "down"}
         /\ \A t \in Ticket : fut'[t] = IF fut[t] \in {"none", "row"} THEN fut[t] ELSE "gone"
BY EmptyFacts DEF Kill, Start, MemoryLost, Queued, Suspending, Batched

LEMMA MemoryLostPlace ==
  ASSUME TypeOK, PlaceInv, Kill \/ Start
  PROVE  PlaceInv'
<1>1. /\ queue' = <<>> /\ putters' = <<>> /\ woken' = <<>> /\ batch' = <<>>
      /\ barrier' = NoTicket /\ txId' = NoRows
      /\ Queued' = {} /\ Suspending' = {} /\ Batched' = {}
      /\ UNCHANGED <<sent, rowId>> /\ pc' \in {"top", "down"}
      /\ \A t \in Ticket : fut'[t] = IF fut[t] \in {"none", "row"} THEN fut[t] ELSE "gone"
  BY MemoryLostFacts
<1>2. InOnePlace'
  BY <1>1, EmptyFacts DEF InOnePlace, QueuedOnce, SuspendedOnce, Apart
<1>3. ToldSoFar'
  <2>1. NoTicket \notin Barrier
    BY TicketsAssumption DEF Ticket
  <2>2. SuspendedPend' /\ QueuedAwait' /\ BatchedAwait' /\ BarrierAsked'
    BY <1>1, <2>1, EmptyFacts DEF SuspendedPend, QueuedAwait, BatchedAwait, BarrierAsked
  <2>3. Numbered'
    <3>1. \A t \in Line : fut'[t] = "none" <=> fut[t] = "none"
      BY <1>1 DEF Ticket, Req
    <3> QED  BY <1>1, <3>1, NumberedKept DEF PlaceInv, ToldSoFar
  <2> QED  BY <2>2, <2>3 DEF ToldSoFar
<1>4. StoredWhenDone'
  BY <1>1 DEF PlaceInv, StoredWhenDone, Unstored, Ticket
<1>5. Transaction' /\ Holds'
  BY <1>1, EmptyFacts DEF Transaction, OfTheBatch, AboveTheFile, InBatchOrder, InTx, Holds, NoRows
<1> QED  BY <1>2, <1>3, <1>4, <1>5 DEF PlaceInv

LEMMA StopPlace ==
  ASSUME TypeOK, PlaceInv, Stop
  PROVE  PlaceInv'
<1>1. UNCHANGED <<putters, woken, pc, batch, row, barrier, txId, rowId, fut, sent>>
  BY DEF Stop, callerVars, fileVars
<1>2. /\ QueuedOnce' /\ SuspendedOnce' /\ Suspending' = Suspending
      /\ Queued' \subseteq Queued \cup {Sentinel}
  <2>1. SuspendedOnce' /\ Suspending' = Suspending
    BY <1>1 DEF PlaceInv, InOnePlace, SuspendedOnce, Suspending
  <2>2. CASE UNCHANGED queue
    BY <2>1, <2>2 DEF PlaceInv, InOnePlace, QueuedOnce, Queued
  <2>3. CASE queue' = Append(queue, Sentinel)
    BY <2>1, <2>3, AppendQueuedOnce DEF PlaceInv, InOnePlace
  <2> QED  BY <2>2, <2>3 DEF Stop
<1>3. Sentinel \notin Ticket /\ Sentinel \notin Batched /\ Sentinel \notin Suspending /\ Sentinel \notin Barrier
  BY TicketsAssumption, PlacesTyped DEF Ticket
<1>4. ToldSoFar'
  <2>1. SuspendedPend' /\ QueuedAwait'
    BY <1>1, <1>2, <1>3 DEF PlaceInv, ToldSoFar, SuspendedPend, QueuedAwait
  <2>2. BatchedAwait' /\ BarrierAsked' /\ Numbered'
    BY <1>1 DEF PlaceInv, ToldSoFar, BatchedAwait, BarrierAsked, Numbered, Answered
  <2> QED  BY <2>1, <2>2 DEF ToldSoFar
<1>5. \A r \in Req : fut'[r] = "none" \/ r \in Queued' \cup Suspending' => Unstored(r)
  BY <1>1, <1>2, <1>3 DEF Unstored, Ticket
<1>6. /\ Queued' \cap Suspending' = {} /\ (Queued' \cup Suspending') \cap Batched = {}
      /\ barrier \in Barrier => barrier \notin Queued' \cup Suspending'
  BY <1>2, <1>3 DEF PlaceInv, InOnePlace, Apart
<1> QED  BY <1>1, <1>2, <1>4, <1>5, <1>6, CallersKeep

LEMMA PlaceInit == Init => PlaceInv
<1> SUFFICES ASSUME Init PROVE PlaceInv
  OBVIOUS
<1>1. /\ queue = <<>> /\ putters = <<>> /\ woken = <<>> /\ batch = <<>> /\ barrier = NoTicket
      /\ pc = "top" /\ txId = [r \in Req |-> 0] /\ rowId = [r \in Req |-> 0]
      /\ sent = [c \in Caller |-> 0] /\ fut = [t \in Ticket |-> "none"]
  BY DEF Init
<1>2. Queued = {} /\ Suspending = {} /\ Batched = {}
  BY <1>1, EmptyFacts DEF Queued, Suspending, Batched
<1>3. InOnePlace
  BY <1>1, <1>2, EmptyFacts DEF InOnePlace, QueuedOnce, SuspendedOnce, Apart
<1>4. NoTicket \notin Barrier /\ (\A c \in Caller, i \in 1 .. LinesEach : <<c, i>> \in Ticket)
  BY TicketsAssumption DEF Ticket, Req, Line
<1>5. ToldSoFar
  <2>1. Numbered
    <3> SUFFICES ASSUME NEW c \in Caller, NEW i \in 1 .. LinesEach
                 PROVE  fut[<<c, i>>] = "none" <=> i > sent[c]
      BY DEF Numbered
    <3>1. sent[c] = 0 /\ i > 0
      BY <1>1, BoundsAssumption
    <3>2. fut[<<c, i>>] = "none"
      BY <1>1, <1>4
    <3> QED  BY <3>1, <3>2
  <2> QED  BY <1>1, <1>2, <1>4, <2>1, EmptyFacts
           DEF ToldSoFar, SuspendedPend, QueuedAwait, BatchedAwait, BarrierAsked
<1>6. StoredWhenDone
  BY <1>1 DEF StoredWhenDone, Ticket
<1>7. Transaction /\ Holds
  BY <1>1, EmptyFacts DEF Transaction, OfTheBatch, AboveTheFile, InBatchOrder, InTx, Holds
<1> QED  BY <1>3, <1>5, <1>6, <1>7 DEF PlaceInv

(* Next, sorted by what the steps do to the places. *)
LEMMA StepsSorted ==
  ASSUME [Next]_vars
  PROVE  \/ CalmSteps \/ TakeSteps \/ StampCheck \/ InsertBatch \/ RowInserted \/ Commit \/ AnswerRow
         \/ BatchSteps \/ QueueFailSteps \/ Stop \/ Kill \/ Start
         \/ PutResumes
         \/ \E c \in Caller : Submit(c)
         \/ \E b \in Barrier : DrainWrites(b)
         \/ \E x \in Ticket : GiveUp(x)
         \/ \E x \in Ticket : Withdraw(x)
BY DEF Next, Callers, Writer, Daemon, Others, CalmSteps, TakeSteps, BatchSteps, BatchLosses, QueueFailSteps

LEMMA PlaceStep == TypeOK /\ TypeOK' /\ IdInv /\ PlaceInv /\ [Next]_vars => PlaceInv'
<1> SUFFICES ASSUME TypeOK, TypeOK', IdInv, PlaceInv, [Next]_vars PROVE PlaceInv'
  OBVIOUS
<1>1. CASE CalmSteps
  BY <1>1, CalmStepsAreCalm, CalmPlace
<1>2. CASE TakeSteps
  BY <1>2, TakeStepsTake, TakenLinePlace, TakenOtherPlace
<1>3. CASE BatchSteps
  BY <1>3, BatchStepsEnd, BatchEndsPlace
<1> QED
  BY <1>1, <1>2, <1>3, StepsSorted, NoticeStepPlace, RowInsertedPlace, CommitPlace, AnswerRowPlace,
     QueueFailPlace, StopPlace, MemoryLostPlace, PutResumesPlace, SubmitPlace, DrainWritesPlace,
     GiveUpPlace, WithdrawPlace

(* Everything below is an invariant on top of these. *)
Standing == TypeOK /\ IdInv /\ PlaceInv

LEMMA StandingAlways == Spec => []Standing
<1>1. Init => PlaceInv
  BY PlaceInit
<1>2. TypeOK /\ IdInv /\ (TypeOK /\ IdInv)' /\ PlaceInv /\ [Next]_vars => PlaceInv'
  BY PlaceStep
<1> QED  BY <1>1, <1>2, Invariance, PTL DEF Spec, Standing

-------------------------------------------------------------------------------
(* How tickets move while the process lives: into the queue from outside or
   from a suspended put, out of it at its head, through the batch and away. *)

QueueMoves ==
  \/ UNCHANGED queue
  \/ queue' = <<>>
  \/ queue # <<>> /\ queue' = Tail(queue)
  \/ \E x \in Ticket \cup {Sentinel} :
       /\ queue' = Append(queue, x) /\ UNCHANGED batch /\ Suspending' \subseteq Suspending
       /\ x = Sentinel \/ x \in Suspending \/ (x \in Ticket /\ fut[x] = "none")

SuspendedMoves ==
  \/ Suspending' \subseteq Suspending
  \/ \E x \in Ticket :
       fut[x] = "none" /\ Suspending' = Suspending \cup {x} /\ UNCHANGED <<queue, batch>>

BatchMoves ==
  \/ UNCHANGED batch /\ (pc = "settle" => pc' = "settle")
  \/ batch' = <<>>
  \/ (\E n \in Notice : Joins(n)) /\ UNCHANGED queue /\ pc # "settle"
  \/ /\ queue # <<>> /\ queue' = Tail(queue) /\ Head(queue) \in Req
     /\ batch' = Append(batch, Head(queue)) /\ pc # "settle"

BarrierMoves ==
  \/ UNCHANGED barrier
  \/ barrier' = NoTicket
  \/ queue # <<>> /\ queue' = Tail(queue) /\ barrier' = Head(queue)

(* A barrier is released when nothing is left in front of it. *)
Released(b) ==
  \/ Batched' = {} /\ Queued' = {}
  \/ Batched' = {} /\ Queued' = Queued /\ b = barrier
  \/ Batched' = {} /\ queue # <<>> /\ queue' = Tail(queue) /\ b = Head(queue)

FutMoves ==
  /\ \A t \in Ticket : fut[t] # "none" => fut'[t] # "none"
  /\ \A b \in Barrier : fut'[b] = "row" => fut[b] \in {"none", "row"} \/ Released(b)

Moves == QueueMoves /\ SuspendedMoves /\ BatchMoves /\ BarrierMoves /\ FutMoves

LEMMA MovesOfCallers ==
  ASSUME Standing,
         \/ PutResumes
         \/ \E c \in Caller : Submit(c)
         \/ \E b \in Barrier : DrainWrites(b)
         \/ \E x \in Ticket : GiveUp(x)
         \/ \E x \in Ticket : Withdraw(x)
  PROVE  Moves /\ UNCHANGED <<rowId, pc, batch, row, rows, txId, feed, base, feedClosed>>
<1> USE DEF Standing
<1>1. UNCHANGED <<rowId, pc, batch, barrier, row, rows, txId, feed, base, feedClosed>>
  BY DEF PutResumes, Submit, DrainWrites, GiveUp, Withdraw, taskVars, fileVars, feedVars, runVars
<1>2. BatchMoves /\ BarrierMoves
  BY <1>1 DEF BatchMoves, BarrierMoves
<1>3. CASE PutResumes
  <2>1. \/ UNCHANGED queue /\ Suspending' = Suspending
        \/ \E x \in Suspending : /\ x \in Ticket
                                 /\ queue' = Append(queue, x) /\ Queued' = Queued \cup {x}
                                 /\ Suspending' = Suspending \ {x}
    BY <1>3, ResumeFacts DEF PlaceInv, InOnePlace, Apart
  <2>2. UNCHANGED fut
    BY <1>3 DEF PutResumes
  <2>3. QueueMoves /\ SuspendedMoves
    BY <1>1, <2>1 DEF QueueMoves, SuspendedMoves
  <2>4. FutMoves
    BY <2>2 DEF FutMoves
  <2> QED  BY <1>1, <1>2, <2>3, <2>4 DEF Moves
<1>4. ASSUME NEW x \in Ticket, fut[x] = "none", Put(x), fut' = [fut EXCEPT ![x] = "pending"]
      PROVE  QueueMoves /\ SuspendedMoves /\ FutMoves
  <2>1. x \notin Queued \cup Suspending
    BY <1>4, FreshNowhere
  <2>2. \/ UNCHANGED queue /\ Suspending' = Suspending \cup {x}
        \/ /\ queue' = Append(queue, x) /\ Queued' = Queued \cup {x}
           /\ Suspending' = Suspending
    BY <1>4, <2>1, PutFacts DEF PlaceInv, InOnePlace
  <2>3. QueueMoves /\ SuspendedMoves
    BY <1>1, <1>4, <2>2 DEF QueueMoves, SuspendedMoves
  <2>4. \A t \in Ticket : fut'[t] = IF t = x THEN "pending" ELSE fut[t]
    BY <1>4 DEF TypeOK, CallerType
  <2>5. FutMoves
    BY <2>4 DEF FutMoves, Ticket
  <2> QED  BY <2>3, <2>5
<1>5. ASSUME NEW x \in Ticket, NEW v \in {"refused", "row", "cancelled", "withdrawn"},
             v = "row" => fut[x] = "none", Suspending' \subseteq Suspending,
             fut' = [fut EXCEPT ![x] = v], UNCHANGED queue
      PROVE  QueueMoves /\ SuspendedMoves /\ FutMoves
  <2>1. \A t \in Ticket : fut'[t] = IF t = x THEN v ELSE fut[t]
    BY <1>5 DEF TypeOK, CallerType
  <2>2. FutMoves
    BY <1>5, <2>1 DEF FutMoves, Ticket
  <2> QED  BY <1>5, <2>2 DEF QueueMoves, SuspendedMoves
<1>6. ASSUME NEW c \in Caller, Submit(c) PROVE QueueMoves /\ SuspendedMoves /\ FutMoves
  <2> DEFINE x == <<c, sent[c] + 1>>
  <2>1. sent[c] \in Nat /\ sent[c] + 1 \in 1 .. LinesEach
    BY <1>6, BoundsAssumption DEF Submit, TypeOK, CallerType
  <2>2. x \in Ticket
    BY <2>1 DEF Line, Req, Ticket
  <2>3. fut[x] = "none"
    BY <2>1 DEF PlaceInv, ToldSoFar, Numbered
  <2>4. CASE WriterAlive
    <3>1. fut' = [fut EXCEPT ![x] = "pending"] /\ Put(x)
      BY <1>6, <2>4 DEF Submit
    <3> HIDE DEF x
    <3> QED  BY <1>4, <2>2, <2>3, <3>1
  <2>5. CASE ~WriterAlive
    <3>1. fut' = [fut EXCEPT ![x] = "refused"] /\ UNCHANGED queue /\ Suspending' \subseteq Suspending
      BY <1>6, <2>5 DEF Submit, queueVars, Suspending
    <3> HIDE DEF x
    <3> QED  BY <1>5, <2>2, <3>1
  <2> QED  BY <2>4, <2>5
<1>7. ASSUME NEW b \in Barrier, DrainWrites(b) PROVE QueueMoves /\ SuspendedMoves /\ FutMoves
  <2>1. b \in Ticket /\ fut[b] = "none"
    BY <1>7 DEF DrainWrites, Ticket
  <2>2. CASE WriterAlive
    BY <1>4, <1>7, <2>1, <2>2 DEF DrainWrites
  <2>3. CASE ~WriterAlive
    <3>1. fut' = [fut EXCEPT ![b] = "row"] /\ UNCHANGED queue /\ Suspending' \subseteq Suspending
      BY <1>7, <2>3 DEF DrainWrites, queueVars, Suspending
    <3> QED  BY <1>5, <2>1, <3>1
  <2> QED  BY <2>2, <2>3
<1>8. ASSUME NEW x \in Ticket, GiveUp(x) PROVE QueueMoves /\ SuspendedMoves /\ FutMoves
  <2>1. fut' = [fut EXCEPT ![x] = "cancelled"] /\ UNCHANGED queue /\ Suspending' \subseteq Suspending
    BY <1>8 DEF GiveUp, queueVars, Suspending
  <2> QED  BY <1>5, <2>1
<1>9. ASSUME NEW x \in Ticket, Withdraw(x) PROVE QueueMoves /\ SuspendedMoves /\ FutMoves
  <2>1. Suspending' = Suspending \ {x}
    BY <1>9, WithdrawFacts DEF PlaceInv, InOnePlace
  <2>2. fut' = [fut EXCEPT ![x] = "withdrawn"] /\ UNCHANGED queue
    BY <1>9 DEF Withdraw
  <2> QED  BY <1>5, <2>1, <2>2
<1> QED  BY <1>1, <1>2, <1>3, <1>6, <1>7, <1>8, <1>9 DEF Moves

LEMMA MovesOfTheTask ==
  ASSUME Standing, TypeOK', [Next]_vars,
         \/ CalmSteps \/ TakeSteps \/ StampCheck \/ InsertBatch \/ RowInserted \/ Commit \/ AnswerRow
         \/ BatchSteps \/ QueueFailSteps \/ Stop
  PROVE  Moves /\ UNCHANGED ahead /\ (UNCHANGED rowId \/ Commit)
<1> USE DEF Standing
<1>1. CASE CalmSteps
  <2>1. Calm /\ UNCHANGED <<ahead, rowId>>
    BY <1>1, CalmStepsAreCalm
  <2> QED  BY <2>1 DEF Calm, Moves, QueueMoves, SuspendedMoves, BatchMoves, BarrierMoves, FutMoves, Suspending
<1>2. CASE TakeSteps
  <2>1. Taken /\ (TakenLine \/ TakenOther) /\ UNCHANGED <<ahead, rowId>>
    BY <1>2, TakeStepsTake DEF Taken
  <2>2. queue # <<>> /\ queue' = Tail(queue) /\ pc # "settle"
    BY <2>1 DEF Taken, Get
  <2>3. Suspending' = Suspending
    BY <2>1, TakenFacts
  <2>4. CASE TakenLine
    BY <2>1, <2>2, <2>3, <2>4 DEF TakenLine, Moves, QueueMoves, SuspendedMoves, BatchMoves, BarrierMoves, FutMoves
  <2>5. CASE TakenOther
    <3>1. QueueMoves /\ SuspendedMoves /\ BatchMoves /\ BarrierMoves
      BY <2>2, <2>3, <2>5 DEF TakenOther, QueueMoves, SuspendedMoves, BatchMoves, BarrierMoves
    <3>2. FutMoves
      <4>1. CASE UNCHANGED fut
        BY <4>1 DEF FutMoves
      <4>2. CASE fut' = Told({}, {Head(queue)}) /\ Head(queue) \in Barrier /\ ~UNCHANGED fut
        <5>1. batch' = <<>>
          <6>1. TakeBarrier
            BY <1>2, <4>2 DEF TakeSteps, TakeSentinel, TakeLine, AbsorbLine, AbsorbSentinel, AbsorbBarrier
          <6>2. batch = <<>> /\ UNCHANGED batch
            BY <6>1 DEF TakeBarrier, CanTake, PlaceInv, Holds, Idle
          <6> QED  BY <6>2
        <5>2. \A b \in Barrier : b \in Ticket
          BY DEF Ticket
        <5>3. Batched' = {}
          BY <5>1, EmptyFacts DEF Batched
        <5> QED  BY <2>2, <4>2, <5>2, <5>3, ToldFacts, ZenonT(40) DEF FutMoves, Released
      <4> QED  BY <2>5, <4>1, <4>2 DEF TakenOther
    <3> QED  BY <2>1, <3>1, <3>2 DEF Moves
  <2> QED  BY <2>1, <2>4, <2>5
<1>3. CASE StampCheck \/ InsertBatch
  <2>1. NoticeMayJoin /\ UNCHANGED ahead
    BY <1>3, NoticeSteps
  <2>2. UNCHANGED <<queue, barrier, rowId>> /\ Suspending' = Suspending /\ pc # "settle"
    BY <2>1 DEF NoticeMayJoin, Suspending
  <2>3. FutMoves
    <3>1. CASE UNCHANGED fut
      BY <3>1 DEF FutMoves
    <3>2. ASSUME NEW n \in Notice, Joins(n) PROVE FutMoves
      <4>1. \A t \in Ticket : fut'[t] = IF t = n THEN "pending" ELSE fut[t]
        BY <3>2, JoinsFacts
      <4> QED  BY <4>1 DEF FutMoves, Ticket
    <3> QED  BY <2>1, <3>1, <3>2 DEF NoticeMayJoin
  <2>4. BatchMoves
    BY <2>1, <2>2 DEF NoticeMayJoin, BatchMoves
  <2> QED  BY <2>1, <2>2, <2>3, <2>4 DEF Moves, QueueMoves, SuspendedMoves, BarrierMoves
<1>4. CASE RowInserted \/ Commit
  <2>1. UNCHANGED <<queue, putters, woken, fut, batch, barrier, ahead>> /\ (pc = "settle" => pc' = "settle")
    BY <1>4 DEF RowInserted, Commit, queueVars, callerVars
  <2>2. UNCHANGED rowId \/ Commit
    BY <1>4 DEF RowInserted
  <2> QED  BY <2>1, <2>2 DEF Moves, QueueMoves, SuspendedMoves, BatchMoves, BarrierMoves, FutMoves, Suspending
<1>5. CASE AnswerRow
  <2>1. /\ UNCHANGED <<queue, putters, woken, batch, barrier, rowId, pc, ahead>>
        /\ batch[row] \in Req /\ fut[batch[row]] \in Awaited
        /\ \A t \in Ticket :
              fut'[t] = IF t = batch[row] /\ fut[t] = "pending"
                        THEN IF txId[t] = 0 THEN "error" ELSE "row"
                        ELSE fut[t]
    BY <1>5, AnswerFacts
  <2>2. FutMoves
    BY <2>1, TicketsAssumption DEF FutMoves, Ticket, Awaited
  <2> QED  BY <2>1, <2>2 DEF Moves, QueueMoves, SuspendedMoves, BatchMoves, BarrierMoves, Suspending
<1>6. CASE BatchSteps
  <2>1. BatchEnds /\ UNCHANGED ahead
    BY <1>6, BatchStepsEnd
  <2>2. /\ Queued' = Queued /\ Suspending' = Suspending /\ Batched' = {}
        /\ \A t \in Ticket :
              \/ fut'[t] = fut[t]
              \/ fut[t] = "pending" /\ t \in Batched /\ fut'[t] = "error"
              \/ fut[t] = "pending" /\ t = barrier /\ t \in Barrier /\ t \notin Req /\ fut'[t] = "row"
    BY <2>1, BatchEndsFacts
  <2>3. FutMoves
    BY <2>2 DEF FutMoves, Released, Ticket
  <2> QED  BY <2>1, <2>2, <2>3 DEF BatchEnds, Moves, QueueMoves, SuspendedMoves, BatchMoves, BarrierMoves
<1>7. CASE QueueFailSteps
  <2>1. /\ UNCHANGED <<batch, barrier, rowId, ahead>> /\ batch = <<>>
        /\ queue' = <<>> /\ Queued' = {} /\ Suspending' = Suspending
        /\ \A t \in Ticket :
              \/ fut'[t] = fut[t] /\ ~(t \in Queued /\ fut[t] = "pending")
              \/ fut[t] = "pending" /\ t \in Queued /\ t \in Req /\ fut'[t] = "error"
              \/ fut[t] = "pending" /\ t \in Queued /\ t \in Barrier /\ t \notin Req /\ fut'[t] = "row"
    BY <1>7, QueueFails
  <2>2. Batched' = {}
    BY <2>1, EmptyFacts DEF Batched
  <2>3. FutMoves
    BY <2>1, <2>2 DEF FutMoves, Released, Ticket
  <2> QED  BY <2>1, <2>3 DEF Moves, QueueMoves, SuspendedMoves, BatchMoves, BarrierMoves
<1>8. CASE Stop
  <2>1. /\ UNCHANGED <<putters, woken, batch, barrier, rowId, ahead, fut, pc>>
        /\ UNCHANGED queue \/ queue' = Append(queue, Sentinel)
    BY <1>8 DEF Stop, callerVars, fileVars
  <2> QED  BY <2>1 DEF Moves, QueueMoves, SuspendedMoves, BatchMoves, BarrierMoves, FutMoves, Suspending
<1> QED  BY <1>1, <1>2, <1>3, <1>4, <1>5, <1>6, <1>7, <1>8

(* A ticket that was not queued before comes in behind everything queued. *)
Newcomer(x) == x = Sentinel \/ x \in Suspending \/ (x \in Ticket /\ fut[x] = "none")

LEMMA QueuePositions ==
  ASSUME Standing, QueueMoves
  PROVE  /\ \E d \in {0, 1} : \A i \in DOMAIN queue' :
              /\ i \in Nat
              /\ \/ i + d \in DOMAIN queue /\ queue'[i] = queue[i + d]
                 \/ /\ \A j \in DOMAIN queue' : j <= i
                    /\ Newcomer(queue'[i]) /\ UNCHANGED batch
                    /\ Suspending' \subseteq Suspending /\ queue'[i] \in Queued'
         /\ \A x \in Queued' : x \in Queued \/ (Newcomer(x) /\ UNCHANGED batch)
<1>1. queue \in Seq(Ticket \cup {Sentinel}) /\ Len(queue) \in Nat /\ DOMAIN queue = 1 .. Len(queue)
  BY DEF Standing, TypeOK, QueueType
<1>2. /\ UNCHANGED queue => Queued' = Queued
      /\ queue' = <<>> => Queued' = {}
  BY EmptyFacts DEF Queued
<1>3. CASE UNCHANGED queue
  BY <1>1, <1>2, <1>3
<1>4. CASE queue' = <<>>
  BY <1>2, <1>4, EmptyFacts
<1>5. CASE queue # <<>> /\ queue' = Tail(queue)
  <2>1. /\ Len(queue) \in Nat \ {0} /\ Len(queue') = Len(queue) - 1
        /\ \A i \in 1 .. Len(queue') : queue'[i] = queue[i + 1]
        /\ Queued = Queued' \cup {Head(queue)}
    BY <1>1, <1>5, TailFacts DEF Queued
  <2>2. DOMAIN queue' = 1 .. Len(queue')
    BY <1>1, <1>5
  <2>3. \A i \in DOMAIN queue' : i \in Nat /\ i + 1 \in DOMAIN queue /\ queue'[i] = queue[i + 1]
    BY <1>1, <2>1, <2>2
  <2> QED  BY <2>1, <2>3
<1>6. ASSUME NEW x \in Ticket \cup {Sentinel}, queue' = Append(queue, x), UNCHANGED batch, Newcomer(x),
             Suspending' \subseteq Suspending
      PROVE  /\ \A i \in DOMAIN queue' :
                  /\ i \in Nat
                  /\ \/ i + 0 \in DOMAIN queue /\ queue'[i] = queue[i + 0]
                     \/ /\ \A j \in DOMAIN queue' : j <= i
                        /\ Newcomer(queue'[i]) /\ queue'[i] \in Queued'
             /\ \A y \in Queued' : y \in Queued \/ Newcomer(y)
  <2>1. /\ DOMAIN queue' = 1 .. Len(queue) + 1
        /\ \A i \in 1 .. Len(queue) : queue'[i] = queue[i]
        /\ queue'[Len(queue) + 1] = x /\ Queued' = Queued \cup {x}
    BY <1>1, <1>6, AppendFacts DEF Queued
  <2>2. \A i \in 1 .. Len(queue) + 1 : i \in Nat /\ (i + 0 \in 1 .. Len(queue) \/ i = Len(queue) + 1)
    BY <1>1
  <2>3. \A j \in 1 .. Len(queue) + 1 : j <= Len(queue) + 1 /\ j + 0 = j
    BY <1>1
  <2> QED  BY <1>1, <1>6, <2>1, <2>2, <2>3
<1> QED  BY <1>3, <1>4, <1>5, <1>6 DEF QueueMoves, Newcomer

LEMMA BatchArrivals ==
  ASSUME Standing, BatchMoves
  PROVE  \A x \in Batched' : x \in Batched \cup Queued \/ (x \in Ticket /\ fut[x] = "none")
<1>1. batch \in Seq(Req)
  BY DEF Standing, TypeOK, TaskType
<1>2. CASE UNCHANGED batch
  BY <1>2 DEF Batched
<1>3. CASE batch' = <<>>
  BY <1>3, EmptyFacts DEF Batched
<1>4. ASSUME NEW n \in Notice, Joins(n) PROVE Batched' = Batched \cup {n} /\ n \in Ticket /\ fut[n] = "none"
  BY <1>4, JoinsFacts DEF Standing, Joins
<1>5. ASSUME queue # <<>>, batch' = Append(batch, Head(queue))
      PROVE  Batched' = Batched \cup {Head(queue)} /\ Head(queue) \in Queued
  <2>1. Head(queue) \in Queued
    BY <1>5, TailFacts DEF Standing, TypeOK, QueueType, Queued
  <2> QED  BY <1>1, <1>5, <2>1, AppendFacts DEF Batched
<1> QED  BY <1>2, <1>3, <1>4, <1>5 DEF BatchMoves

-------------------------------------------------------------------------------
(* What a barrier waits for: everything that was in front of it stays in
   front of it, and is gone when it is released. *)

AheadSettled(b) ==
  /\ ahead[b] \cap Suspending = {}
  /\ \A r \in ahead[b] : fut[r] # "none"
  /\ fut[b] = "none" => ahead[b] = {}
AheadInFront(b) ==
  /\ \A i, j \in DOMAIN queue : queue[j] = b /\ queue[i] \in ahead[b] => i < j
  /\ b = barrier => ahead[b] \cap Queued = {}
AheadGone(b) == fut[b] = "row" => ahead[b] \cap (Queued \cup Batched) = {}

DrainOf(b) == AheadSettled(b) /\ AheadInFront(b) /\ AheadGone(b)

DrainInv == \A b \in Barrier : DrainOf(b)

LEMMA DrainOfMoves ==
  ASSUME Standing, Moves, NEW b \in Barrier, DrainOf(b), ahead'[b] = ahead[b]
  PROVE  DrainOf(b)'
<1>1. ahead[b] \subseteq Req /\ b \notin Req /\ b \in Ticket /\ Sentinel \notin Req /\ Req \subseteq Ticket
      /\ b # NoTicket
  BY TicketsAssumption DEF Standing, TypeOK, CallerType, Ticket
<1>2. \A x \in ahead[b] : ~Newcomer(x)
  BY <1>1 DEF Newcomer, DrainOf, AheadSettled
<1>3. AheadSettled(b)'
  <2>1. \A x \in Suspending' : x \in Suspending \/ fut[x] = "none"
    BY DEF Moves, SuspendedMoves
  <2>2. \A t \in Ticket : fut[t] # "none" => fut'[t] # "none"
    BY DEF Moves, FutMoves
  <2> QED  BY <1>1, <2>1, <2>2 DEF DrainOf, AheadSettled
<1>4. /\ \E d \in {0, 1} : \A i \in DOMAIN queue' :
           /\ i \in Nat
           /\ \/ i + d \in DOMAIN queue /\ queue'[i] = queue[i + d]
              \/ (\A j \in DOMAIN queue' : j <= i) /\ Newcomer(queue'[i])
      /\ \A x \in Queued' : x \in Queued \/ Newcomer(x)
  BY QueuePositions DEF Moves
<1>5. \A i, j \in DOMAIN queue' : queue'[j] = b /\ queue'[i] \in ahead[b] => i < j
  <2> SUFFICES ASSUME NEW i \in DOMAIN queue', NEW j \in DOMAIN queue', queue'[j] = b, queue'[i] \in ahead[b]
               PROVE  i < j
    OBVIOUS
  <2>1. i # j
    BY <1>1
  <2>2. PICK d \in {0, 1} : \A k \in DOMAIN queue' :
           /\ k \in Nat
           /\ \/ k + d \in DOMAIN queue /\ queue'[k] = queue[k + d]
              \/ (\A m \in DOMAIN queue' : m <= k) /\ Newcomer(queue'[k])
    BY <1>4
  <2>3. i \in Nat /\ i + d \in DOMAIN queue /\ queue'[i] = queue[i + d]
    BY <1>2, <2>2
  <2>4. CASE j + d \in DOMAIN queue /\ queue'[j] = queue[j + d]
    <3>1. i + d < j + d
      BY <2>3, <2>4 DEF DrainOf, AheadInFront
    <3> QED  BY <2>2, <2>3, <3>1
  <2>5. CASE \A m \in DOMAIN queue' : m <= j
    BY <2>1, <2>2, <2>5
  <2> QED  BY <2>2, <2>4, <2>5
<1>6. queue # <<>> /\ queue' = Tail(queue) /\ b = Head(queue) => ahead[b] \cap Queued' = {}
  <2> SUFFICES ASSUME queue # <<>>, queue' = Tail(queue), b = Head(queue),
                      NEW x \in ahead[b], x \in Queued'
               PROVE  FALSE
    OBVIOUS
  <2>1. queue \in Seq(Ticket \cup {Sentinel})
    BY DEF Standing, TypeOK, QueueType
  <2>2. /\ Len(queue) \in Nat \ {0} /\ Len(queue') = Len(queue) - 1
        /\ \A i \in 1 .. Len(queue') : queue'[i] = queue[i + 1]
        /\ Head(queue) = queue[1]
    BY <2>1, TailFacts
  <2>3. DOMAIN queue' = 1 .. Len(queue') /\ DOMAIN queue = 1 .. Len(queue)
    BY <2>1
  <2>4. PICK i \in 1 .. Len(queue') : queue'[i] = x
    BY <2>3 DEF Queued, ToSet
  <2>5. i + 1 \in DOMAIN queue /\ 1 \in DOMAIN queue /\ queue[i + 1] = x /\ queue[1] = b
    BY <2>2, <2>3, <2>4
  <2>6. i + 1 < 1
    BY <2>5 DEF DrainOf, AheadInFront
  <2> QED  BY <2>2, <2>4, <2>6
<1>7. b = barrier' => ahead[b] \cap Queued' = {}
  <2>1. CASE UNCHANGED barrier
    BY <1>2, <1>4, <2>1 DEF DrainOf, AheadInFront
  <2>2. CASE barrier' = NoTicket
    BY <1>1, <2>2
  <2>3. CASE queue # <<>> /\ queue' = Tail(queue) /\ barrier' = Head(queue)
    BY <1>6, <2>3
  <2> QED  BY <2>1, <2>2, <2>3 DEF Moves, BarrierMoves
<1>8. AheadInFront(b)'
  BY <1>5, <1>7 DEF AheadInFront
<1>9. AheadGone(b)'
  <2> SUFFICES ASSUME fut'[b] = "row" PROVE ahead[b] \cap (Queued' \cup Batched') = {}
    BY DEF AheadGone
  <2>1. \A x \in Batched' : x \in Batched \cup Queued \/ (x \in Ticket /\ fut[x] = "none")
    BY BatchArrivals DEF Moves
  <2>2. CASE fut[b] = "row"
    BY <1>2, <1>4, <2>1, <2>2 DEF DrainOf, AheadGone, AheadSettled
  <2>3. CASE fut[b] = "none"
    BY <2>3 DEF DrainOf, AheadSettled
  <2>4. CASE Released(b)
    BY <1>6, <2>4 DEF Released, DrainOf, AheadInFront
  <2> QED  BY <2>2, <2>3, <2>4 DEF Moves, FutMoves
<1> QED  BY <1>3, <1>8, <1>9 DEF DrainOf

(* A barrier that is put in waits for what is queued and in the batch. *)
LEMMA DrainOfItself ==
  ASSUME Standing, NEW b \in Barrier, DrainOf(b), DrainWrites(b)
  PROVE  DrainOf(b)'
<1>1. CASE ~WriterAlive
  <2>1. UNCHANGED ahead
    BY <1>1 DEF DrainWrites
  <2>2. Moves
    BY MovesOfCallers
  <2> QED  BY <2>1, <2>2, DrainOfMoves
<1>2. CASE WriterAlive
  <2>1. /\ fut[b] = "none" /\ fut' = [fut EXCEPT ![b] = "pending"] /\ Put(b)
        /\ ahead' = [ahead EXCEPT ![b] = (Queued \cup Batched) \cap Req]
        /\ UNCHANGED <<batch, barrier>>
    BY <1>2 DEF DrainWrites, Queued, Batched, taskVars
  <2>2. b \in Ticket /\ b \notin Req /\ Req \subseteq Ticket
    BY TicketsAssumption DEF Ticket
  <2>3. ahead'[b] = (Queued \cup Batched) \cap Req /\ fut'[b] = "pending"
        /\ (\A t \in Ticket : t # b => fut'[t] = fut[t])
    BY <2>1, <2>2 DEF Standing, TypeOK, CallerType
  <2>4. b \notin Queued \cup Suspending \cup Batched /\ b # barrier
    BY <2>1, <2>2, FreshNowhere DEF Standing
  <2>5. \/ UNCHANGED queue /\ Suspending' = Suspending \cup {b}
        \/ /\ queue' = Append(queue, b) /\ Queued' = Queued \cup {b}
           /\ Suspending' = Suspending
    BY <2>1, <2>2, <2>4, PutFacts DEF Standing, PlaceInv, InOnePlace
  <2>6. AheadSettled(b)'
    <3>1. ahead'[b] \cap Suspending' = {}
      BY <2>2, <2>3, <2>5 DEF Standing, PlaceInv, InOnePlace, Apart
    <3>2. \A r \in ahead'[b] : fut'[r] # "none"
      BY <2>2, <2>3, FreshNowhere DEF Standing
    <3> QED  BY <2>3, <3>1, <3>2 DEF AheadSettled
  <2>7. AheadInFront(b)'
    <3>1. queue \in Seq(Ticket \cup {Sentinel}) /\ DOMAIN queue = 1 .. Len(queue)
      BY DEF Standing, TypeOK, QueueType
    <3>2. \A j \in 1 .. Len(queue) : queue[j] # b
      BY <2>4, <3>1 DEF Queued, ToSet
    <3>3. CASE UNCHANGED queue
      BY <2>1, <2>4, <3>1, <3>2, <3>3 DEF AheadInFront
    <3>4. CASE queue' = Append(queue, b)
      <4>1. /\ DOMAIN queue' = 1 .. Len(queue) + 1 /\ Len(queue) \in Nat
            /\ \A i \in 1 .. Len(queue) : queue'[i] = queue[i]
            /\ queue'[Len(queue) + 1] = b
        BY <3>1, <3>4, AppendFacts
      <4>2. \A i, j \in DOMAIN queue' : queue'[j] = b /\ queue'[i] \in ahead'[b] => i < j
        <5> SUFFICES ASSUME NEW i \in 1 .. Len(queue) + 1, NEW j \in 1 .. Len(queue) + 1,
                            queue'[j] = b, queue'[i] # b
                     PROVE  i < j
          BY <2>2, <2>3, <4>1
        <5>1. j = Len(queue) + 1 /\ i # Len(queue) + 1
          BY <3>2, <4>1
        <5> QED  BY <4>1, <5>1
      <4> QED  BY <2>1, <2>4, <4>2 DEF AheadInFront
    <3> QED  BY <2>5, <3>3, <3>4
  <2> QED  BY <2>3, <2>6, <2>7 DEF DrainOf, AheadGone
<1> QED  BY <1>1, <1>2

LEMMA DrainStep == Standing /\ TypeOK' /\ DrainInv /\ [Next]_vars => DrainInv'
<1> SUFFICES ASSUME Standing, TypeOK', DrainInv, [Next]_vars PROVE DrainInv'
  OBVIOUS
<1>1. ASSUME Moves, UNCHANGED ahead PROVE DrainInv'
  BY <1>1, DrainOfMoves DEF DrainInv
<1>2. CASE Kill \/ Start
  <2>1. /\ \A b \in Barrier : ahead'[b] = {} /\ b # barrier'
        /\ queue' = <<>> /\ Queued' = {} /\ Suspending' = {} /\ Batched' = {}
    <3>1. ahead' = [b \in Barrier |-> {}] /\ barrier' = NoTicket
          /\ queue' = <<>> /\ Queued' = {} /\ Suspending' = {} /\ Batched' = {}
      BY <1>2, MemoryLostFacts DEF Standing
    <3> QED  BY <3>1, TicketsAssumption DEF Ticket
  <2> QED  BY <2>1 DEF DrainInv, DrainOf, AheadSettled, AheadInFront, AheadGone
<1>3. ASSUME NEW b \in Barrier, DrainWrites(b) PROVE DrainInv'
  <2> SUFFICES ASSUME NEW e \in Barrier PROVE DrainOf(e)'
    BY DEF DrainInv
  <2>1. CASE e = b
    BY <1>3, <2>1, DrainOfItself DEF DrainInv
  <2>2. CASE e # b
    <3>1. ahead'[e] = ahead[e]
      BY <1>3, <2>2 DEF DrainWrites, Standing, TypeOK, CallerType
    <3>2. Moves
      BY <1>3, MovesOfCallers
    <3> QED  BY <3>1, <3>2, DrainOfMoves DEF DrainInv
  <2> QED  BY <2>1, <2>2
<1>4. CASE \/ PutResumes \/ (\E c \in Caller : Submit(c)) \/ (\E x \in Ticket : GiveUp(x))
           \/ (\E x \in Ticket : Withdraw(x))
  <2>1. UNCHANGED ahead
    BY <1>4 DEF PutResumes, Submit, GiveUp, Withdraw, callerVars
  <2>2. Moves
    BY <1>4, MovesOfCallers
  <2> QED  BY <1>1, <2>1, <2>2
<1>5. CASE \/ CalmSteps \/ TakeSteps \/ StampCheck \/ InsertBatch \/ RowInserted \/ Commit \/ AnswerRow
           \/ BatchSteps \/ QueueFailSteps \/ Stop
  BY <1>1, <1>5, MovesOfTheTask
<1> QED  BY <1>2, <1>3, <1>4, <1>5, StepsSorted

LEMMA DrainInit == Init => DrainInv
<1> SUFFICES ASSUME Init, NEW b \in Barrier PROVE DrainOf(b)
  BY DEF DrainInv
<1>1. queue = <<>> /\ batch = <<>> /\ barrier = NoTicket /\ ahead[b] = {} /\ b # NoTicket
  BY TicketsAssumption DEF Init, Ticket
<1> QED  BY <1>1, EmptyFacts DEF DrainOf, AheadSettled, AheadInFront, AheadGone, Queued, Batched

(* When drain_writes returns, no line that was queued or in the batch when
   it was called is left in either: each has its id by then, or has failed.
   start_session reads _next_id right after. *)
THEOREM BarrierSettlesWhatWasAhead == Spec => []DrainMeansSettled
<1>1. Standing /\ Standing' /\ DrainInv /\ [Next]_vars => DrainInv'
  BY DrainStep DEF Standing
<1>2. DrainInv => DrainMeansSettled
  BY DEF DrainInv, DrainOf, AheadGone, DrainMeansSettled, InQueue, Queued, Batched
<1> QED  BY <1>1, <1>2, DrainInit, StandingAlways, PTL DEF Spec

-------------------------------------------------------------------------------
(* The feed and the rows on their way to it. *)

TaskDead == {"died", "dead", "down"}

FeedOfStored ==
  /\ \A i \in DOMAIN feed : rowId[feed[i]] # 0 /\ feed[i] \notin Batched
  /\ \A i, j \in DOMAIN feed : i < j => rowId[feed[i]] < rowId[feed[j]]

RowsOfBatch ==
  /\ pc # "settle" => rows = <<>>
  /\ \A i \in DOMAIN rows : /\ \E k \in DOMAIN batch : k < row /\ rows[i] = batch[k]
                            /\ txId[rows[i]] # 0
  /\ \A i, j \in DOMAIN rows : i < j => txId[rows[i]] < txId[rows[j]]
  /\ pc = "settle" => \A k \in DOMAIN batch : k < row /\ txId[batch[k]] # 0 => batch[k] \in ToSet(rows)

NothingSkipped ==
  ~feedClosed /\ pc \notin TaskDead
    => \A r \in Req : rowId[r] >= base => r \in ToSet(feed) \/ (pc = "settle" /\ r \in Batched)

FeedInv == FeedOfStored /\ RowsOfBatch /\ NothingSkipped

(* What no step but a kill or a start touches, and what few do. *)
FeedClock ==
  /\ pc \in TaskDead => pc' \in TaskDead
  /\ feedClosed => feedClosed'
  /\ UNCHANGED base
  /\ UNCHANGED feed \/ Broadcast
  /\ UNCHANGED rows \/ AnswerRow \/ rows' = <<>>
  /\ (pc = "settle" <=> pc' = "settle") \/ Commit \/ Broadcast \/ BroadcastRaises
  /\ pc = "settle" /\ pc' = "settle" => row' = row \/ row' = row + 1

LEMMA FeedClockTicks ==
  ASSUME [Next]_vars, ~(Kill \/ Start)
  PROVE  FeedClock
<1> USE DEF FeedClock, TaskDead, taskVars, runVars, feedVars
<1>1. CASE Callers
  <2>1. PutResumes => UNCHANGED <<taskVars, runVars, feedVars>>
    BY DEF PutResumes
  <2>2. \A c \in Caller : Submit(c) => UNCHANGED <<taskVars, runVars, feedVars>>
    BY DEF Submit
  <2>3. \A b \in Barrier : DrainWrites(b) => UNCHANGED <<taskVars, runVars, feedVars>>
    BY DEF DrainWrites
  <2>4. \A x \in Ticket : GiveUp(x) \/ Withdraw(x) => UNCHANGED <<taskVars, runVars, feedVars>>
    BY DEF GiveUp, Withdraw
  <2>5. UNCHANGED <<taskVars, runVars, feedVars>>
    BY <1>1, <2>1, <2>2, <2>3, <2>4 DEF Callers
  <2> QED  BY <2>5
<1>2. CASE Wait \/ TakeSentinel \/ TakeBarrier \/ TakeLine \/ HoldOver
  BY <1>2 DEF Wait, TakeSentinel, TakeBarrier, TakeLine, HoldOver, CanTake
<1>3. CASE AbsorbLine \/ AbsorbSentinel \/ AbsorbBarrier \/ AbsorbEnds \/ StampCheck
  BY <1>3 DEF AbsorbLine, AbsorbSentinel, AbsorbBarrier, AbsorbEnds, StampCheck, Absorbing
<1>4. CASE InsertBatch \/ InsertBusy \/ RetryInsert \/ ToRows
  BY <1>4 DEF InsertBatch, InsertBusy, RetryInsert, ToRows, InsertRaises
<1>5. CASE RowInserted \/ RowRaises \/ RowsOver \/ Commit \/ AnswerRow
  BY <1>5 DEF RowInserted, RowRaises, RowsOver, Commit, AnswerRow
<1>6. CASE ResyncFails \/ CommitFails \/ CancelHolding \/ CancelRetrying
  <2>1. AfterBatch # "settle"
    BY DEF AfterBatch
  <2> QED  BY <1>6, <2>1 DEF ResyncFails, InsertRaises, CommitFails, CancelHolding, CancelRetrying, BatchOver
<1>7. CASE Broadcast \/ BroadcastRaises
  <2>1. AfterBatch # "settle"
    BY DEF AfterBatch
  <2> QED  BY <1>7, <2>1 DEF Broadcast, BroadcastRaises, BatchOver
<1>8. CASE CancelWaiting \/ WriterExited
  BY <1>8 DEF CancelWaiting, WriterExited
<1>9. CASE FailCapture \/ CaptureFailed \/ Stop \/ StopDeadline \/ Stopped \/ CloseFeed
  BY <1>9 DEF FailCapture, CaptureFailed, Stop, StopDeadline, Stopped, CloseFeed
<1>10. CASE Others \/ UNCHANGED vars
  BY <1>10 DEF Others, ForeignLock, ForeignUnlock, ForeignRow, vars
<1> QED  BY <1>1, <1>2, <1>3, <1>4, <1>5, <1>6, <1>7, <1>8, <1>9, <1>10 DEF Next, Writer, Daemon

(* Outside of the answers to a batch nothing waits to be broadcast. *)
LEMMA FeedOutside ==
  ASSUME Standing, FeedInv, Moves, FeedClock, UNCHANGED <<feed, rowId>>, pc # "settle", pc' # "settle"
  PROVE  FeedInv'
<1>1. rows' = <<>>
  BY DEF FeedClock, FeedInv, RowsOfBatch, AnswerRow
<1>2. \A x \in Req : rowId[x] # 0 => x \notin Queued /\ fut[x] # "none" /\ (x \in Batched => pc = "settle")
  BY DEF Standing, PlaceInv, StoredWhenDone, Unstored
<1>3. \A x \in Batched' : x \in Batched \cup Queued \/ (x \in Ticket /\ fut[x] = "none")
  BY BatchArrivals DEF Moves
<1>4. \A i \in DOMAIN feed : feed[i] \in Req
  BY DEF Standing, TypeOK, RunType
<1>5. FeedOfStored'
  BY <1>2, <1>3, <1>4 DEF FeedInv, FeedOfStored
<1>6. RowsOfBatch'
  BY <1>1, EmptyFacts DEF RowsOfBatch
<1>7. NothingSkipped'
  BY DEF FeedInv, NothingSkipped, FeedClock
<1> QED  BY <1>5, <1>6, <1>7 DEF FeedInv

(* Nor does anything else that leaves the batch alone disturb it. *)
LEMMA FeedStill ==
  ASSUME FeedInv, FeedClock, UNCHANGED <<feed, rows, rowId, txId, batch>>,
         pc = "settle" <=> pc' = "settle", pc = "settle" => row' = row
  PROVE  FeedInv'
<1>1. FeedOfStored' /\ NothingSkipped'
  BY DEF FeedInv, FeedOfStored, NothingSkipped, FeedClock, Batched
<1>2. RowsOfBatch'
  <2>1. CASE pc = "settle"
    BY <2>1 DEF FeedInv, RowsOfBatch
  <2>2. CASE pc # "settle"
    BY <2>2, EmptyFacts DEF FeedInv, RowsOfBatch
  <2> QED  BY <2>1, <2>2
<1> QED  BY <1>1, <1>2 DEF FeedInv

LEMMA FeedCommit ==
  ASSUME Standing, FeedInv, FeedClock, Commit
  PROVE  FeedInv'
<1>1. /\ rowId' = [r \in Req |-> IF txId[r] # 0 THEN txId[r] ELSE rowId[r]]
      /\ pc = "commit" /\ pc' = "settle" /\ row' = 1 /\ UNCHANGED <<batch, rows, txId, feed, feedClosed>>
  BY DEF Commit, feedVars
<1>2. rows' = <<>>
  BY <1>1 DEF FeedInv, RowsOfBatch
<1>3. \A r \in Req : rowId'[r] = IF r \in Batched /\ txId[r] # 0 THEN txId[r] ELSE rowId[r]
  BY <1>1 DEF Standing, PlaceInv, Transaction, OfTheBatch
<1>4. \A i \in DOMAIN feed : feed[i] \in Req /\ feed[i] \notin Batched /\ rowId'[feed[i]] = rowId[feed[i]]
  BY <1>3 DEF Standing, TypeOK, RunType, FeedInv, FeedOfStored
<1>5. FeedOfStored'
  BY <1>1, <1>4 DEF FeedInv, FeedOfStored, Batched
<1>6. RowsOfBatch'
  <2>1. \A k \in DOMAIN batch : k \in Nat \ {0}
    BY DEF Standing, TypeOK, TaskType
  <2>2. \A k \in DOMAIN batch : ~(k < 1)
    BY <2>1
  <2> QED  BY <1>1, <1>2, <2>2, EmptyFacts DEF RowsOfBatch
<1>7. NothingSkipped'
  BY <1>1, <1>3 DEF FeedInv, NothingSkipped, FeedClock, TaskDead, Batched
<1> QED  BY <1>5, <1>6, <1>7 DEF FeedInv

LEMMA FeedAnswer ==
  ASSUME Standing, FeedInv, FeedClock, AnswerRow
  PROVE  FeedInv'
<1> DEFINE x == batch[row]
<1>1. /\ UNCHANGED <<batch, txId, rowId, pc, feed, base, feedClosed>>
      /\ pc = "settle" /\ row \in Nat \ {0} /\ row \in DOMAIN batch /\ row' = row + 1
      /\ x \in Req
      /\ IF txId[x] = 0 THEN UNCHANGED rows ELSE rows' = Append(rows, x)
  BY AnswerFacts DEF Standing
<1>2. \A k \in DOMAIN batch : k \in Nat /\ (k < row + 1 <=> k < row \/ k = row)
  BY <1>1 DEF Standing, TypeOK, TaskType
<1>3. FeedOfStored' /\ NothingSkipped'
  BY <1>1 DEF FeedInv, FeedOfStored, NothingSkipped, Batched
<1>4. CASE txId[x] = 0
  <2>1. UNCHANGED rows
    BY <1>1, <1>4
  <2>2. \A i \in DOMAIN rows : \E k \in DOMAIN batch : k < row + 1 /\ rows[i] = batch[k]
    BY <1>2 DEF FeedInv, RowsOfBatch
  <2>3. \A k \in DOMAIN batch : k < row + 1 /\ txId[batch[k]] # 0 => batch[k] \in ToSet(rows)
    BY <1>1, <1>2, <1>4 DEF FeedInv, RowsOfBatch
  <2> HIDE DEF x
  <2>4. RowsOfBatch'
    BY <1>1, <2>1, <2>2, <2>3 DEF FeedInv, RowsOfBatch
  <2> QED  BY <1>3, <2>4 DEF FeedInv
<1>5. CASE txId[x] # 0
  <2>1. rows' = Append(rows, x) /\ rows \in Seq(Req)
    BY <1>1, <1>5 DEF Standing, TypeOK, TaskType
  <2>2. /\ Len(rows) \in Nat /\ DOMAIN rows' = 1 .. Len(rows) + 1 /\ DOMAIN rows = 1 .. Len(rows)
        /\ \A i \in 1 .. Len(rows) : rows'[i] = rows[i]
        /\ rows'[Len(rows) + 1] = x /\ ToSet(rows') = ToSet(rows) \cup {x}
    BY <2>1, AppendFacts
  <2>3. \A i \in 1 .. Len(rows) + 1 : i \in 1 .. Len(rows) \/ i = Len(rows) + 1
    BY <2>2
  <2>4. \A i \in 1 .. Len(rows) : /\ \E k \in DOMAIN batch : k < row /\ rows[i] = batch[k]
                                  /\ txId[rows[i]] # 0
    BY <2>2 DEF FeedInv, RowsOfBatch
  <2>5. \A i \in DOMAIN rows' : /\ \E k \in DOMAIN batch : k < row + 1 /\ rows'[i] = batch[k]
                                /\ txId[rows'[i]] # 0
    <3> SUFFICES ASSUME NEW i \in 1 .. Len(rows) + 1
                 PROVE  /\ \E k \in DOMAIN batch : k < row + 1 /\ rows'[i] = batch[k]
                        /\ txId[rows'[i]] # 0
      BY <2>2
    <3>1. CASE i \in 1 .. Len(rows)
      BY <1>2, <2>2, <2>4, <3>1
    <3>2. CASE i = Len(rows) + 1
      BY <1>1, <1>2, <1>5, <2>2, <3>2
    <3> QED  BY <2>3, <3>1, <3>2
  <2>6. \A i \in 1 .. Len(rows) : txId[rows[i]] < txId[x]
    <3> SUFFICES ASSUME NEW i \in 1 .. Len(rows) PROVE txId[rows[i]] < txId[x]
      OBVIOUS
    <3>1. PICK k \in DOMAIN batch : k < row /\ rows[i] = batch[k]
      BY <2>4
    <3> QED  BY <1>1, <1>5, <2>4, <3>1 DEF Standing, PlaceInv, Transaction, InBatchOrder
  <2>7. \A i, j \in DOMAIN rows' : i < j => txId[rows'[i]] < txId[rows'[j]]
    <3> SUFFICES ASSUME NEW i \in 1 .. Len(rows) + 1, NEW j \in 1 .. Len(rows) + 1, i < j
                 PROVE  txId[rows'[i]] < txId[rows'[j]]
      BY <2>2
    <3>1. i \in 1 .. Len(rows)
      BY <2>2
    <3>2. CASE j \in 1 .. Len(rows)
      BY <2>2, <3>1, <3>2 DEF FeedInv, RowsOfBatch
    <3>3. CASE j = Len(rows) + 1
      BY <2>2, <2>6, <3>1, <3>3
    <3> QED  BY <2>3, <3>2, <3>3
  <2>8. \A k \in DOMAIN batch : k < row + 1 /\ txId[batch[k]] # 0 => batch[k] \in ToSet(rows')
    BY <1>1, <1>2, <2>2 DEF FeedInv, RowsOfBatch
  <2> HIDE DEF x
  <2>9. RowsOfBatch'
    BY <1>1, <2>5, <2>7, <2>8 DEF RowsOfBatch
  <2> QED  BY <1>3, <2>9 DEF FeedInv
<1> QED  BY <1>4, <1>5

(* What the broadcast finds: the rows are what the batch stored, above
   everything the feed has carried. *)
LEMMA BroadcastFacts ==
  ASSUME Standing, FeedInv, pc = "settle", row > Len(batch)
  PROVE  /\ \A i \in DOMAIN rows : /\ rows[i] \in Req /\ rows[i] \in Batched
                                   /\ rowId[rows[i]] = txId[rows[i]] /\ rowId[rows[i]] # 0
         /\ \A i, j \in DOMAIN rows : i < j => rowId[rows[i]] < rowId[rows[j]]
         /\ \A i \in DOMAIN feed, j \in DOMAIN rows : rowId[feed[i]] < rowId[rows[j]]
         /\ \A r \in Batched : rowId[r] # 0 => r \in ToSet(rows)
<1>1. /\ rows \in Seq(Req) /\ batch \in Seq(Req) /\ row \in Nat /\ Len(batch) \in Nat
      /\ DOMAIN batch = 1 .. Len(batch)
  BY DEF Standing, TypeOK, TaskType
<1>2. \A r \in Batched : rowId[r] = txId[r]
  BY DEF Standing, PlaceInv, Transaction, OfTheBatch
<1>3. \A i \in DOMAIN rows : rows[i] \in Req /\ rows[i] \in Batched /\ txId[rows[i]] # 0
  BY <1>1 DEF FeedInv, RowsOfBatch, Batched, ToSet
<1>4. \A i, j \in DOMAIN rows : i < j => rowId[rows[i]] < rowId[rows[j]]
  BY <1>2, <1>3 DEF FeedInv, RowsOfBatch
<1>5. \A i \in DOMAIN feed, j \in DOMAIN rows : rowId[feed[i]] < rowId[rows[j]]
  <2>1. \A i \in DOMAIN feed : feed[i] \in Req \ Batched
    BY DEF Standing, TypeOK, RunType, FeedInv, FeedOfStored
  <2> QED  BY <1>2, <1>3, <2>1 DEF Standing, PlaceInv, Transaction, AboveTheFile
<1>6. \A r \in Batched : rowId[r] # 0 => r \in ToSet(rows)
  <2>1. \A k \in DOMAIN batch : k < row
    BY <1>1
  <2> QED  BY <1>2, <2>1 DEF FeedInv, RowsOfBatch, Batched, ToSet
<1> QED  BY <1>2, <1>3, <1>4, <1>5, <1>6

LEMMA FeedBroadcast ==
  ASSUME Standing, FeedInv, FeedClock, Broadcast \/ BroadcastRaises
  PROVE  FeedInv'
<1>1. /\ pc = "settle" /\ row > Len(batch) /\ batch' = <<>> /\ rows' = <<>>
      /\ UNCHANGED <<rowId, feedClosed>>
      /\ pc' # "settle"
      /\ Broadcast => feed' = IF feedClosed THEN feed ELSE feed \o rows
      /\ BroadcastRaises => UNCHANGED feed /\ pc' \in TaskDead
  BY DEF Broadcast, BroadcastRaises, BatchOver, AfterBatch, feedVars, TaskDead
<1>2. /\ \A i \in DOMAIN rows : /\ rows[i] \in Req /\ rowId[rows[i]] # 0
      /\ \A i, j \in DOMAIN rows : i < j => rowId[rows[i]] < rowId[rows[j]]
      /\ \A i \in DOMAIN feed, j \in DOMAIN rows : rowId[feed[i]] < rowId[rows[j]]
      /\ \A r \in Batched : rowId[r] # 0 => r \in ToSet(rows)
  BY <1>1, BroadcastFacts
<1>3. Batched' = {} /\ RowsOfBatch'
  BY <1>1, EmptyFacts DEF RowsOfBatch, Batched
<1>4. CASE UNCHANGED feed /\ (feedClosed \/ pc' \in TaskDead)
  BY <1>1, <1>3, <1>4 DEF FeedInv, FeedOfStored, NothingSkipped, FeedClock
<1>5. CASE feed' = feed \o rows
  <2>1. feed \in Seq(Req) /\ rows \in Seq(Req) /\ DOMAIN feed = 1 .. Len(feed) /\ DOMAIN rows = 1 .. Len(rows)
    BY DEF Standing, TypeOK, RunType, TaskType
  <2>2. /\ feed' \in Seq(Req) /\ Len(feed') = Len(feed) + Len(rows)
        /\ Len(feed) \in Nat /\ Len(rows) \in Nat
        /\ \A i \in 1 .. Len(feed) : feed'[i] = feed[i]
        /\ \A i \in Len(feed) + 1 .. Len(feed) + Len(rows) : feed'[i] = rows[i - Len(feed)]
        /\ ToSet(feed') = ToSet(feed) \cup ToSet(rows)
    BY <1>5, <2>1, ConcatFacts
  <2>3. DOMAIN feed' = 1 .. Len(feed) + Len(rows)
    BY <2>2
  <2>4. \A i \in DOMAIN feed' : \/ i \in DOMAIN feed /\ feed'[i] = feed[i]
                                \/ /\ i > Len(feed) /\ i - Len(feed) \in DOMAIN rows
                                   /\ feed'[i] = rows[i - Len(feed)]
    <3> SUFFICES ASSUME NEW i \in 1 .. Len(feed) + Len(rows), i \notin 1 .. Len(feed)
                 PROVE  /\ i > Len(feed) /\ i - Len(feed) \in 1 .. Len(rows)
                        /\ feed'[i] = rows[i - Len(feed)]
      BY <2>1, <2>2, <2>3, Zenon
    <3>1. i \in Len(feed) + 1 .. Len(feed) + Len(rows) /\ i > Len(feed) /\ i - Len(feed) \in 1 .. Len(rows)
      BY <2>2
    <3> QED  BY <2>2, <3>1, Zenon
  <2>5. FeedOfStored'
    <3>1. \A i \in DOMAIN feed' : rowId[feed'[i]] # 0
      BY <1>2, <2>4 DEF FeedInv, FeedOfStored
    <3>2. ASSUME NEW i \in DOMAIN feed', NEW j \in DOMAIN feed', i < j
          PROVE  rowId[feed'[i]] < rowId[feed'[j]]
      <4>1. CASE j \in DOMAIN feed /\ feed'[j] = feed[j]
        <5>1. i \in DOMAIN feed /\ feed'[i] = feed[i]
          BY <2>1, <2>2, <2>4, <3>2, <4>1
        <5> QED  BY <3>2, <4>1, <5>1 DEF FeedInv, FeedOfStored
      <4>2. CASE j > Len(feed) /\ j - Len(feed) \in DOMAIN rows /\ feed'[j] = rows[j - Len(feed)]
        <5>1. CASE i \in DOMAIN feed /\ feed'[i] = feed[i]
          BY <1>2, <4>2, <5>1
        <5>2. CASE i > Len(feed) /\ i - Len(feed) \in DOMAIN rows /\ feed'[i] = rows[i - Len(feed)]
          <6>1. i - Len(feed) < j - Len(feed)
            BY <2>2, <2>3, <3>2
          <6> QED  BY <1>2, <4>2, <5>2, <6>1
        <5> QED  BY <2>4, <5>1, <5>2
      <4> QED  BY <2>4, <4>1, <4>2
    <3> QED  BY <1>1, <1>3, <3>1, <3>2 DEF FeedOfStored
  <2>6. NothingSkipped'
    <3>1. \A r \in Req : rowId[r] >= base /\ r \in Batched => rowId[r] # 0
      BY DEF Standing, TypeOK, RunType, FileType
    <3> QED  BY <1>1, <1>2, <2>2, <3>1 DEF FeedInv, NothingSkipped, FeedClock, TaskDead
  <2> QED  BY <1>3, <2>5, <2>6 DEF FeedInv
<1> QED  BY <1>1, <1>4, <1>5

LEMMA FeedRestart ==
  ASSUME Standing, TypeOK', Kill \/ Start
  PROVE  FeedInv'
<1>1. /\ rows' = <<>> /\ feed' = <<>> /\ batch' = <<>> /\ UNCHANGED rowId /\ pc' \in {"top", "down"}
  BY MemoryLostFacts DEF Standing
<1>2. FeedOfStored' /\ RowsOfBatch'
  BY <1>1, EmptyFacts DEF FeedOfStored, RowsOfBatch
<1>3. CASE Kill
  BY <1>2, <1>3 DEF FeedInv, NothingSkipped, Kill, TaskDead
<1>4. CASE Start
  <2>1. TopId \in Nat /\ \A r \in Req : rowId[r] <= TopId /\ rowId[r] \in Nat
    BY TopIdIsTop DEF Standing, IdInv, Ids, TypeOK, FileType
  <2>2. \A r \in Req : ~(rowId'[r] >= base')
    BY <1>1, <1>4, <2>1 DEF Start
  <2> QED  BY <1>2, <2>2 DEF FeedInv, NothingSkipped
<1> QED  BY <1>3, <1>4

LEMMA FeedStep == Standing /\ TypeOK' /\ FeedInv /\ [Next]_vars => FeedInv'
<1> SUFFICES ASSUME Standing, TypeOK', FeedInv, [Next]_vars PROVE FeedInv'
  OBVIOUS
<1>1. CASE Kill \/ Start
  BY <1>1, FeedRestart
<1>2. CASE ~(Kill \/ Start)
  <2>1. FeedClock
    BY <1>2, FeedClockTicks
  <2>2. CASE Commit
    BY <2>1, <2>2, FeedCommit
  <2>3. CASE AnswerRow
    BY <2>1, <2>3, FeedAnswer
  <2>4. CASE Broadcast \/ BroadcastRaises
    BY <2>1, <2>4, FeedBroadcast
  <2>5. CASE CalmSteps
    <3>1. Calm /\ UNCHANGED <<feed, rows>>
      BY <2>5, CalmStepsAreCalm DEF Standing
    <3> QED  BY <2>1, <3>1, FeedStill DEF Calm
  <2>6. CASE \/ PutResumes
             \/ \E c \in Caller : Submit(c)
             \/ \E b \in Barrier : DrainWrites(b)
             \/ \E x \in Ticket : GiveUp(x)
             \/ \E x \in Ticket : Withdraw(x)
    BY <2>1, <2>6, MovesOfCallers, FeedStill
  <2>7. CASE Stop
    BY <2>1, <2>7, FeedStill DEF Stop, feedVars, fileVars
  <2>8. CASE TakeSteps \/ StampCheck \/ InsertBatch \/ RowInserted \/ BatchLosses \/ QueueFailSteps
    <3>1. Moves /\ (UNCHANGED rowId \/ Commit)
      BY <2>8, MovesOfTheTask DEF BatchSteps
    <3>2. pc # "settle"
      <4>1. CASE TakeSteps
        BY <4>1, TakeStepsTake DEF Taken, Standing
      <4>2. CASE StampCheck \/ InsertBatch \/ RowInserted
        BY <4>2 DEF StampCheck, InsertBatch, RowInserted
      <4>3. CASE BatchLosses
        BY <4>3, BatchStepsEnd DEF BatchSteps, Standing
      <4>4. CASE QueueFailSteps
        BY <4>4, QueueFails DEF Standing, Ended
      <4> QED  BY <2>8, <4>1, <4>2, <4>3, <4>4
    <3>3. ~Commit => pc' # "settle" /\ UNCHANGED feed
      BY <2>1, <3>2 DEF FeedClock, Broadcast, BroadcastRaises
    <3>4. CASE Commit
      BY <2>1, <3>4, FeedCommit
    <3>5. CASE ~Commit
      BY <2>1, <3>1, <3>2, <3>3, <3>5, FeedOutside
    <3> QED  BY <3>4, <3>5
  <2> QED  BY <1>2, <2>2, <2>3, <2>4, <2>5, <2>6, <2>7, <2>8, StepsSorted DEF BatchSteps
<1> QED  BY <1>1, <1>2

LEMMA FeedInit == Init => FeedInv
<1> SUFFICES ASSUME Init PROVE FeedInv
  OBVIOUS
<1>1. rows = <<>> /\ feed = <<>> /\ pc = "top" /\ base = 1 /\ rowId = [r \in Req |-> 0]
  BY DEF Init
<1>2. FeedOfStored /\ RowsOfBatch
  BY <1>1, EmptyFacts DEF FeedOfStored, RowsOfBatch
<1>3. NothingSkipped
  BY <1>1 DEF NothingSkipped
<1> QED  BY <1>2, <1>3 DEF FeedInv

-------------------------------------------------------------------------------
(* StoreWriter implements CaptureLog: a commit is its Store, a kill or a
   start its Restart, everything else its Talk. *)

Hears(t) ==
  /\ fut'[t] = fut[t] \/ Log!Asked(t) \/ Log!GaveUp(t) \/ Log!Answered(t)
  /\ fut'[t] = "cancelled" => fut[t] = "cancelled" \/ "giveUp" \in Trouble

(* One step takes at most one ticket in, and answers or drops any number. *)
OneAsked == \E x : \A t \in Ticket : fut[t] = "none" /\ fut'[t] # "none" => t = x

Hearing == OneAsked /\ \A t \in Ticket : Hears(t)

LEMMA CallersHear ==
  ASSUME Standing,
         \/ PutResumes
         \/ \E c \in Caller : Submit(c)
         \/ \E b \in Barrier : DrainWrites(b)
         \/ \E x \in Ticket : GiveUp(x)
         \/ \E x \in Ticket : Withdraw(x)
  PROVE  Hearing
<1>1. CASE PutResumes
  BY <1>1 DEF PutResumes, Hearing, OneAsked, Hears
<1>2. ASSUME NEW x \in Ticket, NEW v, fut' = [fut EXCEPT ![x] = v],
             \/ fut[x] = "none" /\ v \in {"pending", "refused", "row"}
             \/ fut[x] = "pending" /\ v \in {"cancelled", "withdrawn"},
             v = "cancelled" => "giveUp" \in Trouble
      PROVE  Hearing
  <2>1. \A t \in Ticket : fut'[t] = IF t = x THEN v ELSE fut[t]
    BY <1>2 DEF Standing, TypeOK, CallerType
  <2>2. \A t \in Ticket : Hears(t)
    BY <1>2, <2>1 DEF Hears, Log!Asked, Log!GaveUp
  <2> QED  BY <2>1, <2>2 DEF Hearing, OneAsked
<1>3. ASSUME NEW c \in Caller, Submit(c) PROVE Hearing
  <2> DEFINE x == <<c, sent[c] + 1>>
  <2>1. sent[c] \in Nat /\ sent[c] + 1 \in 1 .. LinesEach
    BY <1>3, BoundsAssumption DEF Submit, Standing, TypeOK, CallerType
  <2>2. x \in Ticket /\ fut[x] = "none"
    BY <2>1 DEF Line, Req, Ticket, Standing, PlaceInv, ToldSoFar, Numbered
  <2>3. fut' = [fut EXCEPT ![x] = "pending"] \/ fut' = [fut EXCEPT ![x] = "refused"]
    BY <1>3 DEF Submit
  <2> HIDE DEF x
  <2> QED  BY <1>2, <2>2, <2>3
<1>4. ASSUME NEW b \in Barrier, DrainWrites(b) PROVE Hearing
  <2>1. b \in Ticket /\ fut[b] = "none"
    BY <1>4 DEF DrainWrites, Ticket
  <2>2. fut' = [fut EXCEPT ![b] = "pending"] \/ fut' = [fut EXCEPT ![b] = "row"]
    BY <1>4 DEF DrainWrites
  <2> QED  BY <1>2, <2>1, <2>2
<1>5. ASSUME NEW x \in Ticket, GiveUp(x) PROVE Hearing
  <2>1. fut[x] = "pending" /\ fut' = [fut EXCEPT ![x] = "cancelled"] /\ "giveUp" \in Trouble
    BY <1>5 DEF GiveUp
  <2> QED  BY <1>2, <2>1
<1>6. ASSUME NEW x \in Ticket, Withdraw(x) PROVE Hearing
  <2>1. x \in Suspending
    BY <1>6, WithdrawFacts DEF Standing, PlaceInv, InOnePlace
  <2>2. fut[x] = "pending" /\ fut' = [fut EXCEPT ![x] = "withdrawn"]
    BY <1>6, <2>1 DEF Withdraw, Standing, PlaceInv, ToldSoFar, SuspendedPend
  <2> QED  BY <1>2, <2>2
<1> QED  BY <1>1, <1>3, <1>4, <1>5, <1>6

LEMMA TicketsHear ==
  ASSUME Standing, TypeOK', [Next]_vars, ~(Kill \/ Start)
  PROVE  Hearing
<1> USE DEF Standing
<1>1. UNCHANGED fut => Hearing
  BY DEF Hearing, OneAsked, Hears
<1>2. CASE CalmSteps
  BY <1>1, <1>2, CalmStepsAreCalm DEF Calm
<1>3. CASE TakeSteps
  <2>1. TakenLine \/ TakenOther
    BY <1>3, TakeStepsTake
  <2>2. UNCHANGED fut \/ (Head(queue) \in Barrier /\ fut' = Told({}, {Head(queue)}))
    BY <2>1 DEF TakenLine, TakenOther
  <2>3. \A b \in Barrier : b \notin Req
    BY TicketsAssumption
  <2>4. ASSUME Head(queue) \in Barrier, fut' = Told({}, {Head(queue)})
        PROVE  Hearing
    BY <2>3, <2>4, ToldFacts DEF Hearing, OneAsked, Hears, Log!Answered
  <2> QED  BY <1>1, <2>2, <2>4
<1>4. CASE StampCheck \/ InsertBatch
  <2>1. UNCHANGED fut \/ \E n \in Notice : Joins(n)
    BY <1>4, NoticeSteps DEF NoticeMayJoin
  <2>2. ASSUME NEW n \in Notice, Joins(n) PROVE Hearing
    <3>1. fut[n] = "none" /\ \A t \in Ticket : fut'[t] = IF t = n THEN "pending" ELSE fut[t]
      BY <2>2, JoinsFacts DEF Joins
    <3> QED  BY <3>1 DEF Hearing, OneAsked, Hears, Log!Asked
  <2> QED  BY <1>1, <2>1, <2>2
<1>5. CASE RowInserted \/ Commit \/ Stop
  BY <1>1, <1>5 DEF RowInserted, Commit, Stop
<1>6. CASE AnswerRow
  <2>1. /\ rowId[batch[row]] = txId[batch[row]] /\ batch[row] \in Req
        /\ \A t \in Ticket :
              fut'[t] = IF t = batch[row] /\ fut[t] = "pending"
                        THEN IF txId[t] = 0 THEN "error" ELSE "row"
                        ELSE fut[t]
    BY <1>6, AnswerFacts
  <2> QED  BY <2>1 DEF Hearing, OneAsked, Hears, Log!Answered
<1>7. CASE BatchSteps
  <2>1. BatchEnds
    BY <1>7, BatchStepsEnd
  <2>2. \A t \in Ticket :
              \/ fut'[t] = fut[t]
              \/ fut[t] = "pending" /\ t \in Batched /\ fut'[t] = "error"
              \/ fut[t] = "pending" /\ t = barrier /\ t \in Barrier /\ t \notin Req /\ fut'[t] = "row"
    BY <2>1, BatchEndsFacts
  <2>3. Batched \subseteq Req
    BY PlacesTyped
  <2>4. CASE BatchLosses
    <3>1. pc # "settle"
      BY <1>7, <2>4, BatchStepsEnd
    <3>2. \A t \in Batched : rowId[t] = 0
      BY <2>3, <3>1 DEF PlaceInv, StoredWhenDone, Unstored
    <3> QED  BY <2>2, <2>3, <3>2 DEF Hearing, OneAsked, Hears, Log!Answered
  <2>5. CASE ~BatchLosses
    <3>1. fut' = Told({}, {barrier})
      BY <1>7, <2>5, BatchStepsEnd
    <3>2. \A t \in Ticket : fut[t] = "pending" => fut'[t] # "error"
      BY <3>1, ToldFacts
    <3> QED  BY <2>2, <3>2 DEF Hearing, OneAsked, Hears, Log!Answered
  <2> QED  BY <2>4, <2>5
<1>8. CASE QueueFailSteps
  <2>1. \A t \in Ticket :
              \/ fut'[t] = fut[t]
              \/ fut[t] = "pending" /\ t \in Queued /\ t \in Req /\ fut'[t] = "error"
              \/ fut[t] = "pending" /\ t \in Queued /\ t \in Barrier /\ t \notin Req /\ fut'[t] = "row"
    BY <1>8, QueueFails
  <2>2. \A t \in Req : t \in Queued => rowId[t] = 0
    BY DEF PlaceInv, StoredWhenDone, Unstored
  <2> QED  BY <2>1, <2>2 DEF Hearing, OneAsked, Hears, Log!Answered
<1> QED  BY <1>2, <1>3, <1>4, <1>5, <1>6, <1>7, <1>8, StepsSorted, CallersHear

LEMMA FeedIsExtended ==
  ASSUME Standing, TypeOK', FeedInv', UNCHANGED rowId, UNCHANGED feed \/ Broadcast
  PROVE  Log!FeedGrows
<1>1. feed \in Seq(Req) /\ feed' \in Seq(Req) /\ rows \in Seq(Req)
  BY DEF Standing, TypeOK, RunType, TaskType
<1>2. feed' = feed \/ feed' = feed \o rows
  BY DEF Broadcast
<1>3. Len(feed) \in Nat /\ Len(feed') \in Nat /\ Len(feed') >= Len(feed)
      /\ \A i \in 1 .. Len(feed) : feed'[i] = feed[i]
  <2>1. CASE feed' = feed
    BY <1>1, <2>1
  <2>2. CASE feed' = feed \o rows
    <3>1. /\ Len(feed') = Len(feed) + Len(rows) /\ Len(rows) \in Nat /\ Len(feed) \in Nat
          /\ \A i \in 1 .. Len(feed) : feed'[i] = feed[i]
      BY <1>1, <2>2, ConcatFacts
    <3> QED  BY <3>1
  <2> QED  BY <1>2, <2>1, <2>2
<1>4. SubSeq(feed', 1, Len(feed)) = feed
  <2> DEFINE s == SubSeq(feed', 1, Len(feed))
  <2>1. s \in Seq(Req) /\ Len(s) = Len(feed) /\ \A i \in 1 .. Len(feed) : s[i] = feed'[i]
    BY <1>1, <1>3, SubSeqProperties
  <2> HIDE DEF s
  <2>2. s = feed
    BY <1>1, <1>3, <2>1, SeqEqual
  <2> QED  BY <2>2 DEF s
<1>5. \A i \in Len(feed) + 1 .. Len(feed') :
         /\ rowId[feed'[i]] # 0
         /\ i > 1 => rowId[feed'[i - 1]] < rowId[feed'[i]]
  <2> SUFFICES ASSUME NEW i \in Len(feed) + 1 .. Len(feed')
               PROVE  rowId'[feed'[i]] # 0 /\ (i > 1 => rowId'[feed'[i - 1]] < rowId'[feed'[i]])
    OBVIOUS
  <2>1. i \in DOMAIN feed' /\ (i > 1 => i - 1 \in DOMAIN feed' /\ i - 1 < i)
    BY <1>1, <1>3
  <2> QED  BY <2>1 DEF FeedInv, FeedOfStored
<1> QED  BY <1>3, <1>4, <1>5 DEF Log!FeedGrows

LEMMA CommitStores ==
  ASSUME Standing, Commit
  PROVE  Log!Store
<1> USE DEF Standing
<1>1. /\ rowId' = [r \in Req |-> IF txId[r] # 0 THEN txId[r] ELSE rowId[r]]
      /\ pc = "commit" /\ UNCHANGED <<fut, feed>>
  BY DEF Commit, feedVars
<1>2. \A r \in Req : rowId'[r] # rowId[r] => txId[r] # 0 /\ rowId'[r] = txId[r]
  BY <1>1
<1>3. ASSUME NEW r \in Req, txId[r] # 0
      PROVE  rowId[r] = 0 /\ fut[r] \in {"none", "pending", "cancelled"}
             /\ \A s \in Req : rowId[s] < txId[r]
  <2>1. r \in Batched
    BY <1>3 DEF PlaceInv, Transaction, OfTheBatch
  <2>2. rowId[r] = 0
    BY <1>1, <2>1 DEF PlaceInv, StoredWhenDone, Unstored
  <2>3. fut[r] \in Awaited
    BY <1>1, <2>1 DEF PlaceInv, ToldSoFar, BatchedAwait, Answered, Batched, ToSet
  <2>4. \A s \in Req : rowId[s] < txId[r]
    BY <1>1, <1>3 DEF PlaceInv, Transaction, AboveTheFile, InTx
  <2> QED  BY <2>2, <2>3, <2>4 DEF Awaited
<1>4. \A r, s \in Req : txId[r] # 0 /\ txId[r] = txId[s] => r = s
  BY DEF IdInv, TxDistinct
<1> QED  BY <1>1, <1>2, <1>3, <1>4 DEF Log!Store

LEMMA StepsKeepThePromise ==
  Standing /\ TypeOK' /\ FeedInv /\ FeedInv' /\ [Next]_vars => [Log!Next]_(Log!vars)
<1> SUFFICES ASSUME Standing, TypeOK', FeedInv, FeedInv', [Next]_vars PROVE Log!Next
  OBVIOUS
<1>1. Log!Ticket = Ticket
  BY DEF Log!Ticket, Ticket
<1>2. CASE Kill \/ Start
  <2>1. /\ UNCHANGED rowId /\ feed' = <<>>
        /\ \A t \in Ticket : fut'[t] = IF fut[t] \in {"none", "row"} THEN fut[t] ELSE "gone"
    BY <1>2, MemoryLostFacts DEF Standing
  <2> QED  BY <1>1, <2>1 DEF Log!Restart, Log!Next
<1>3. CASE Commit
  BY <1>3, CommitStores DEF Log!Next
<1>4. CASE ~(Kill \/ Start \/ Commit)
  <2>1. \A t \in Ticket : Hears(t)
    BY <1>4, TicketsHear DEF Hearing
  <2>2. UNCHANGED rowId
    BY <1>4, MovesOfCallers, MovesOfTheTask, StepsSorted
  <2>3. UNCHANGED feed \/ Broadcast
    BY <1>4, FeedClockTicks DEF FeedClock
  <2>4. Log!FeedGrows
    BY <2>2, <2>3, FeedIsExtended
  <2> QED  BY <1>1, <2>1, <2>2, <2>4 DEF Hears, Log!Talk, Log!Next
<1> QED  BY <1>2, <1>3, <1>4

LEMMA FeedAlways == Spec => []FeedInv
<1>1. Standing /\ Standing' /\ FeedInv /\ [Next]_vars => FeedInv'
  BY FeedStep DEF Standing
<1> QED  BY <1>1, FeedInit, StandingAlways, PTL DEF Spec

(* The capture's writer keeps the promise of CaptureLog: a stored row keeps
   its id and lies above every row stored before it, nobody is answered with
   a row that is not in the file or with an error for one that is, and the
   feed carries stored rows, each once, in id order; through batches, the
   row-by-row fallback, lock episodes, failed commits, stops and kills. *)
THEOREM WriterImplementsCaptureLog == Spec => CaptureLogPromise
<1>1. Init => Log!Init
  BY DEF Init, Log!Init, Log!Ticket, Ticket
<1>2. Standing /\ Standing' /\ FeedInv /\ FeedInv' /\ [Next]_vars => [Log!Next]_(Log!vars)
  BY StepsKeepThePromise DEF Standing
<1> QED  BY <1>1, <1>2, StandingAlways, FeedAlways, PTL DEF Spec, CaptureLogPromise, Log!Spec

-------------------------------------------------------------------------------
(* One caller's lines: whatever it handed in first is ahead, in the queue,
   in the batch and in the file. *)

Earlier(x, y) == x \in Line /\ y \in Line /\ x[1] = y[1] /\ x[2] < y[2]

OrderedQueue == \A i, j \in DOMAIN queue : Earlier(queue[i], queue[j]) => i < j
OrderedBatch == \A i, j \in DOMAIN batch : Earlier(batch[i], batch[j]) => i < j
QueueBehindBatch == \A x \in Queued, y \in Batched : ~Earlier(x, y)
SuspendedBehind == \A x \in Suspending, y \in Queued \cup Batched \cup Suspending : ~Earlier(x, y)
UnstoredBehind ==
  \A x \in Queued \cup Suspending \cup (IF pc = "settle" THEN {} ELSE Batched), y \in Req :
    rowId[y] # 0 => ~Earlier(x, y)
OrderedFile ==
  \A x, y \in Req : Earlier(x, y) /\ rowId[x] # 0 /\ rowId[y] # 0 => rowId[x] < rowId[y]

OrderInv ==
  /\ OrderedQueue /\ OrderedBatch
  /\ QueueBehindBatch /\ SuspendedBehind /\ UnstoredBehind
  /\ OrderedFile

(* A line is handed in only once its caller's last one is not suspended any
   more, and after all that caller's earlier ones. *)
FreshFree ==
  \A x \in Line : fut[x] = "none" /\ fut'[x] # "none" => \A s \in Suspending : ~Earlier(s, x)

LEMMA FreshLinesAreFree ==
  ASSUME Standing, PlaceInv', [Next]_vars, ~(Kill \/ Start)
  PROVE  FreshFree
<1>1. CASE UNCHANGED sent
  <2> SUFFICES ASSUME NEW c \in Caller, NEW i \in 1 .. LinesEach, fut[<<c, i>>] = "none"
               PROVE  fut'[<<c, i>>] = "none"
    BY DEF FreshFree, Line
  <2> QED  BY <1>1 DEF Standing, PlaceInv, ToldSoFar, Numbered
<1>2. ASSUME NEW c \in Caller, Submit(c) PROVE FreshFree
  <2> SUFFICES ASSUME NEW d \in Caller, NEW i \in 1 .. LinesEach,
                      fut[<<d, i>>] = "none", fut'[<<d, i>>] # "none",
                      NEW s \in Suspending, Earlier(s, <<d, i>>)
               PROVE  FALSE
    BY DEF FreshFree, Line
  <2>1. s \in Line /\ s[1] = d
    BY DEF Earlier
  <2>2. sent' = [sent EXCEPT ![c] = @ + 1] /\ ~Waiting(c) /\ sent \in [Caller -> Nat]
    BY <1>2 DEF Submit, Standing, TypeOK, CallerType
  <2>3. CASE d = c
    BY <2>1, <2>2, <2>3 DEF Waiting, Suspending
  <2>4. CASE d # c
    <3>1. sent'[d] = sent[d]
      BY <2>2, <2>4
    <3> QED  BY <3>1 DEF Standing, PlaceInv, ToldSoFar, Numbered
  <2> QED  BY <2>3, <2>4
<1>3. UNCHANGED sent \/ \E c \in Caller : Submit(c)
  <2>1. CASE CalmSteps
    BY <2>1, CalmStepsAreCalm DEF Calm, Standing
  <2>2. CASE TakeSteps
    BY <2>2, TakeStepsTake DEF Taken, Standing
  <2>3. CASE BatchSteps
    BY <2>3, BatchStepsEnd DEF BatchEnds, Standing
  <2>4. CASE QueueFailSteps
    BY <2>4, QueueFails DEF Standing
  <2>5. CASE StampCheck \/ InsertBatch \/ RowInserted \/ Commit \/ AnswerRow
    BY <2>5 DEF StampCheck, InsertBatch, RowInserted, Commit, AnswerRow, callerVars
  <2>6. CASE Stop \/ PutResumes
    BY <2>6 DEF Stop, PutResumes, callerVars
  <2>7. CASE \/ \E b \in Barrier : DrainWrites(b)
             \/ \E x \in Ticket : GiveUp(x)
             \/ \E x \in Ticket : Withdraw(x)
    BY <2>7 DEF DrainWrites, GiveUp, Withdraw, callerVars
  <2> QED  BY <2>1, <2>2, <2>3, <2>4, <2>5, <2>6, <2>7, StepsSorted
<1> QED  BY <1>1, <1>2, <1>3

LEMMA FreshIsLast ==
  ASSUME Standing, NEW x, NEW y, Earlier(x, y), fut[x] = "none"
  PROVE  fut[y] = "none" /\ rowId[y] = 0 /\ y \notin Queued \cup Suspending \cup Batched
<1>1. PICK c \in Caller, i \in 1 .. LinesEach : x = <<c, i>>
  BY DEF Earlier, Line
<1>2. PICK j \in 1 .. LinesEach : y = <<c, j>> /\ i < j
  BY <1>1 DEF Earlier, Line
<1>3. i > sent[c] /\ sent[c] \in Nat
  BY <1>1 DEF Standing, PlaceInv, ToldSoFar, Numbered, TypeOK, CallerType
<1>4. j > sent[c]
  BY <1>2, <1>3, BoundsAssumption
<1>5. fut[y] = "none" /\ y \in Req /\ y \in Ticket
  BY <1>2, <1>4 DEF Standing, PlaceInv, ToldSoFar, Numbered, Line, Req, Ticket
<1> QED  BY <1>5, FreshNowhere DEF Standing, PlaceInv, StoredWhenDone, Unstored

LEMMA OrderMoves ==
  ASSUME Standing, PlaceInv', Moves, FreshFree, OrderInv, UNCHANGED rowId
  PROVE  OrderInv'
<1>1. Req \subseteq Ticket /\ Line \subseteq Req /\ Sentinel \notin Line /\ Notice \cap Line = {}
  BY TicketsAssumption DEF Req, Ticket
<1>2. \A x : ~Earlier(x, x)
  BY DEF Earlier, Line
<1>3. ASSUME NEW x, Newcomer(x), NEW y, y \in Queued \cup Batched \cup Suspending PROVE ~Earlier(x, y)
  <2>1. CASE x \in Suspending
    BY <1>3, <2>1 DEF OrderInv, SuspendedBehind
  <2>2. CASE x = Sentinel
    BY <1>1, <2>2 DEF Earlier
  <2>3. CASE fut[x] = "none"
    BY <1>3, <2>3, FreshIsLast
  <2> QED  BY <1>3, <2>1, <2>2, <2>3 DEF Newcomer
<1>4. ASSUME NEW x \in Suspending, NEW y \in Queued' \cup Suspending' \cup Batched', fut[y] = "none"
      PROVE  ~Earlier(x, y)
  <2> SUFFICES ASSUME y \in Line PROVE ~Earlier(x, y)
    BY DEF Earlier
  <2>1. fut'[y] # "none"
    <3>1. y \in Suspending' => fut'[y] = "pending"
      BY DEF PlaceInv, ToldSoFar, SuspendedPend
    <3>2. y \in Queued' => fut'[y] \in Awaited
      BY <1>1 DEF PlaceInv, ToldSoFar, QueuedAwait
    <3>3. y \in Batched' => fut'[y] \in Awaited \cup {"row", "error"}
      BY DEF PlaceInv, ToldSoFar, BatchedAwait, Batched, ToSet, Awaited
    <3> QED  BY <3>1, <3>2, <3>3 DEF Awaited
  <2> QED  BY <1>4, <2>1 DEF FreshFree
<1>5. /\ \E d \in {0, 1} : \A i \in DOMAIN queue' :
           /\ i \in Nat
           /\ \/ i + d \in DOMAIN queue /\ queue'[i] = queue[i + d]
              \/ (\A j \in DOMAIN queue' : j <= i) /\ Newcomer(queue'[i])
      /\ \A x \in Queued' : x \in Queued \/ (Newcomer(x) /\ UNCHANGED batch)
  BY QueuePositions DEF Moves
<1>6. OrderedQueue'
  <2> SUFFICES ASSUME NEW i \in DOMAIN queue', NEW j \in DOMAIN queue', Earlier(queue'[i], queue'[j])
               PROVE  i < j
    BY DEF OrderedQueue
  <2>1. i # j
    BY <1>2
  <2>2. PICK d \in {0, 1} : \A k \in DOMAIN queue' :
           /\ k \in Nat
           /\ \/ k + d \in DOMAIN queue /\ queue'[k] = queue[k + d]
              \/ (\A m \in DOMAIN queue' : m <= k) /\ Newcomer(queue'[k])
    BY <1>5
  <2>3. CASE \A m \in DOMAIN queue' : m <= j
    BY <2>1, <2>2, <2>3
  <2>4. CASE j + d \in DOMAIN queue /\ queue'[j] = queue[j + d]
    <3>1. queue'[j] \in Queued
      BY <2>4 DEF Queued, ToSet
    <3>2. ~Newcomer(queue'[i])
      BY <1>3, <3>1
    <3>3. i + d \in DOMAIN queue /\ queue'[i] = queue[i + d] /\ i \in Nat /\ j \in Nat
      BY <2>2, <3>2
    <3>4. i + d < j + d
      BY <2>4, <3>3 DEF OrderInv, OrderedQueue
    <3> QED  BY <3>3, <3>4
  <2> QED  BY <2>2, <2>3, <2>4
<1>7. ASSUME queue # <<>>, queue' = Tail(queue)
      PROVE  Head(queue) \in Queued /\ \A x \in Queued' : ~Earlier(x, Head(queue))
  <2>1. queue \in Seq(Ticket \cup {Sentinel})
    BY DEF Standing, TypeOK, QueueType
  <2>2. /\ Len(queue) \in Nat \ {0} /\ Len(queue') = Len(queue) - 1
        /\ \A i \in 1 .. Len(queue') : queue'[i] = queue[i + 1]
        /\ Head(queue) = queue[1] /\ Queued = Queued' \cup {Head(queue)}
    BY <1>7, <2>1, TailFacts DEF Queued
  <2>3. DOMAIN queue' = 1 .. Len(queue') /\ DOMAIN queue = 1 .. Len(queue)
    BY <1>7, <2>1
  <2>4. ASSUME NEW x \in Queued', Earlier(x, Head(queue)) PROVE FALSE
    <3>1. PICK i \in 1 .. Len(queue') : queue'[i] = x
      BY <2>3 DEF Queued, ToSet
    <3>2. i + 1 \in DOMAIN queue /\ 1 \in DOMAIN queue /\ queue[i + 1] = x
      BY <2>2, <2>3, <3>1
    <3>3. i + 1 < 1
      BY <2>2, <2>4, <3>2 DEF OrderInv, OrderedQueue
    <3> QED  BY <2>2, <3>1, <3>3
  <2> QED  BY <2>2, <2>4
<1>8. batch \in Seq(Req) /\ Len(batch) \in Nat /\ DOMAIN batch = 1 .. Len(batch)
  BY DEF Standing, TypeOK, TaskType
<1> DEFINE Kept == /\ OrderedBatch' /\ QueueBehindBatch'
                   /\ \A y \in Batched' : y \in Batched \cup Queued \/ y \in Notice
                   /\ pc' # "settle" => Batched' = {} \/ pc # "settle"
<1>9. Kept
  <2>1. CASE UNCHANGED batch /\ (pc = "settle" => pc' = "settle")
    <3>1. OrderedBatch'
      BY <2>1 DEF OrderInv, OrderedBatch
    <3>2. QueueBehindBatch'
      BY <1>3, <1>5, <2>1 DEF OrderInv, QueueBehindBatch, Batched
    <3> QED  BY <2>1, <3>1, <3>2 DEF Batched
  <2>2. CASE batch' = <<>>
    BY <2>2, EmptyFacts DEF OrderedBatch, QueueBehindBatch, Batched
  <2>3. ASSUME NEW x \in Req, batch' = Append(batch, x), pc # "settle",
               x \in Notice \/ (x \in Queued /\ \A y \in Queued' : ~Earlier(y, x)),
               \A y \in Queued' : y \in Queued
        PROVE  Kept
    <3>1. /\ DOMAIN batch' = 1 .. Len(batch) + 1
          /\ \A i \in 1 .. Len(batch) : batch'[i] = batch[i]
          /\ batch'[Len(batch) + 1] = x /\ Batched' = Batched \cup {x}
      BY <1>8, <2>3, AppendFacts DEF Batched
    <3>2. QueueBehindBatch'
      BY <1>1, <2>3, <3>1 DEF OrderInv, QueueBehindBatch, Earlier
    <3>3. OrderedBatch'
      <4> SUFFICES ASSUME NEW i \in 1 .. Len(batch) + 1, NEW j \in 1 .. Len(batch) + 1,
                          Earlier(batch'[i], batch'[j])
                   PROVE  i < j
        BY <3>1 DEF OrderedBatch
      <4>1. i # j
        BY <1>2
      <4>2. CASE j = Len(batch) + 1
        BY <1>8, <4>1, <4>2
      <4>3. CASE j # Len(batch) + 1
        <5>1. j \in 1 .. Len(batch) /\ batch'[j] = batch[j] /\ batch[j] \in Batched
          BY <1>8, <3>1, <4>3 DEF Batched, ToSet
        <5>2. ~Earlier(x, batch[j])
          BY <1>1, <2>3, <5>1 DEF OrderInv, QueueBehindBatch, Earlier
        <5>3. i \in 1 .. Len(batch) /\ batch'[i] = batch[i]
          BY <1>8, <3>1, <5>1, <5>2
        <5> QED  BY <1>8, <5>1, <5>3 DEF OrderInv, OrderedBatch
      <4> QED  BY <4>2, <4>3
    <3> QED  BY <2>3, <3>1, <3>2, <3>3
  <2>4. ASSUME NEW n \in Notice, Joins(n), UNCHANGED queue, pc # "settle" PROVE Kept
    <3>1. n \in Req /\ batch' = Append(batch, n) /\ Queued' = Queued
      BY <2>4 DEF Joins, Req, Queued
    <3> HIDE DEF Kept
    <3> QED  BY <2>3, <2>4, <3>1
  <2>5. ASSUME queue # <<>>, queue' = Tail(queue), Head(queue) \in Req, pc # "settle",
               batch' = Append(batch, Head(queue))
        PROVE  Kept
    <3>1. \A y \in Queued' : y \in Queued
      <4>1. queue \in Seq(Ticket \cup {Sentinel})
        BY DEF Standing, TypeOK, QueueType
      <4> QED  BY <2>5, <4>1, TailFacts DEF Queued
    <3> HIDE DEF Kept
    <3> QED  BY <1>7, <2>3, <2>5, <3>1
  <2> HIDE DEF Kept
  <2> QED  BY <2>1, <2>2, <2>4, <2>5 DEF Moves, BatchMoves
<1>10. SuspendedBehind'
  <2> SUFFICES ASSUME NEW x \in Suspending', NEW y \in Queued' \cup Batched' \cup Suspending'
               PROVE  ~Earlier(x, y)
    BY DEF SuspendedBehind
  <2>1. y \in Queued \cup Batched \cup Suspending \/ fut[y] = "none" \/ y \notin Line
    BY <1>1, <1>5, <1>9 DEF Newcomer, Moves, SuspendedMoves
  <2>2. CASE x \in Suspending
    <3>1. y \in Queued \cup Batched \cup Suspending => ~Earlier(x, y)
      BY <2>2 DEF OrderInv, SuspendedBehind
    <3>2. fut[y] = "none" => ~Earlier(x, y)
      BY <1>4, <2>2
    <3> QED  BY <2>1, <3>1, <3>2 DEF Earlier
  <2>3. CASE x \notin Suspending
    <3>1. fut[x] = "none" /\ Suspending' = Suspending \cup {x} /\ UNCHANGED <<queue, batch>>
      BY <2>3 DEF Moves, SuspendedMoves
    <3>2. y \in Queued \cup Batched \cup Suspending \/ y = x
      BY <3>1 DEF Queued, Batched
    <3> QED  BY <1>2, <3>1, <3>2, FreshIsLast
  <2> QED  BY <2>2, <2>3
<1>11. UnstoredBehind'
  <2> SUFFICES ASSUME NEW x \in Queued' \cup Suspending' \cup (IF pc' = "settle" THEN {} ELSE Batched'),
                      NEW y \in Req, rowId[y] # 0, Earlier(x, y)
               PROVE  FALSE
    BY DEF UnstoredBehind
  <2>1. fut[x] # "none" /\ x \in Line
    BY FreshIsLast DEF Earlier
  <2>2. x \in Queued \cup Suspending \cup (IF pc = "settle" THEN {} ELSE Batched)
    BY <1>1, <1>5, <1>9, <2>1 DEF Newcomer, Moves, SuspendedMoves
  <2> QED  BY <2>2 DEF OrderInv, UnstoredBehind
<1>12. OrderedFile'
  BY DEF OrderInv, OrderedFile
<1> QED  BY <1>6, <1>9, <1>10, <1>11, <1>12 DEF OrderInv

LEMMA OrderCommit ==
  ASSUME Standing, Commit, OrderInv
  PROVE  OrderInv'
<1> USE DEF Standing
<1>1. /\ rowId' = [r \in Req |-> IF txId[r] # 0 THEN txId[r] ELSE rowId[r]]
      /\ pc = "commit" /\ pc' = "settle" /\ UNCHANGED <<queue, putters, woken, batch>>
  BY DEF Commit, queueVars
<1>2. Queued' = Queued /\ Suspending' = Suspending /\ Batched' = Batched
  BY <1>1 DEF Queued, Suspending, Batched
<1>3. \A r \in Req : \/ rowId'[r] = rowId[r] /\ txId[r] = 0
                     \/ rowId'[r] = txId[r] /\ txId[r] # 0 /\ r \in Batched
  BY <1>1 DEF PlaceInv, Transaction, OfTheBatch
<1>4. OrderedQueue' /\ OrderedBatch' /\ QueueBehindBatch' /\ SuspendedBehind'
  BY <1>1, <1>2 DEF OrderInv, OrderedQueue, OrderedBatch, QueueBehindBatch, SuspendedBehind
<1>5. UnstoredBehind'
  <2> SUFFICES ASSUME NEW x \in Queued \cup Suspending, NEW y \in Req, rowId'[y] # 0 PROVE ~Earlier(x, y)
    BY <1>1, <1>2 DEF UnstoredBehind
  <2>1. CASE rowId[y] # 0
    BY <2>1 DEF OrderInv, UnstoredBehind
  <2>2. CASE rowId[y] = 0
    BY <1>3, <2>2 DEF OrderInv, QueueBehindBatch, SuspendedBehind
  <2> QED  BY <2>1, <2>2
<1>6. OrderedFile'
  <2> SUFFICES ASSUME NEW x \in Req, NEW y \in Req, Earlier(x, y), rowId'[x] # 0, rowId'[y] # 0
               PROVE  rowId'[x] < rowId'[y]
    BY DEF OrderedFile
  <2>1. CASE txId[x] # 0 /\ txId[y] # 0
    <3>1. PICK i \in DOMAIN batch : batch[i] = x
      BY <1>3, <2>1 DEF Batched, ToSet
    <3>2. PICK j \in DOMAIN batch : batch[j] = y
      BY <1>3, <2>1 DEF Batched, ToSet
    <3>3. i < j
      BY <3>1, <3>2 DEF OrderInv, OrderedBatch
    <3> QED  BY <1>3, <2>1, <3>1, <3>2, <3>3 DEF PlaceInv, Transaction, InBatchOrder
  <2>2. CASE txId[x] # 0 /\ txId[y] = 0
    <3>1. x \in Batched /\ rowId[y] # 0
      BY <1>3, <2>2
    <3> QED  BY <1>1, <3>1 DEF OrderInv, UnstoredBehind
  <2>3. CASE txId[x] = 0 /\ txId[y] # 0
    BY <1>1, <1>3, <2>3 DEF PlaceInv, Transaction, AboveTheFile, InTx
  <2>4. CASE txId[x] = 0 /\ txId[y] = 0
    BY <1>3, <2>4 DEF OrderInv, OrderedFile
  <2> QED  BY <2>1, <2>2, <2>3, <2>4
<1> QED  BY <1>4, <1>5, <1>6 DEF OrderInv

LEMMA OrderStep == Standing /\ Standing' /\ OrderInv /\ [Next]_vars => OrderInv'
<1> SUFFICES ASSUME Standing, Standing', OrderInv, [Next]_vars PROVE OrderInv'
  OBVIOUS
<1>1. CASE Kill \/ Start
  <2>1. /\ queue' = <<>> /\ batch' = <<>> /\ UNCHANGED rowId
        /\ Queued' = {} /\ Suspending' = {} /\ Batched' = {}
    BY <1>1, MemoryLostFacts DEF Standing
  <2>2. OrderedQueue' /\ OrderedBatch' /\ QueueBehindBatch' /\ SuspendedBehind' /\ UnstoredBehind'
    BY <2>1, EmptyFacts DEF OrderedQueue, OrderedBatch, QueueBehindBatch, SuspendedBehind, UnstoredBehind
  <2> QED  BY <2>1, <2>2 DEF OrderInv, OrderedFile
<1>2. CASE Commit
  BY <1>2, OrderCommit
<1>3. CASE ~(Kill \/ Start \/ Commit)
  <2>1. Moves /\ UNCHANGED rowId
    BY <1>3, MovesOfCallers, MovesOfTheTask, StepsSorted DEF Standing
  <2>2. FreshFree
    BY <1>3, FreshLinesAreFree DEF Standing
  <2> QED  BY <2>1, <2>2, OrderMoves DEF Standing
<1> QED  BY <1>1, <1>2, <1>3

LEMMA OrderInit == Init => OrderInv
<1> SUFFICES ASSUME Init PROVE OrderInv
  OBVIOUS
<1>1. queue = <<>> /\ batch = <<>> /\ putters = <<>> /\ woken = <<>> /\ rowId = [r \in Req |-> 0]
  BY DEF Init
<1>2. Queued = {} /\ Suspending = {} /\ Batched = {}
  BY <1>1, EmptyFacts DEF Queued, Suspending, Batched
<1> QED  BY <1>1, <1>2, EmptyFacts
         DEF OrderInv, OrderedQueue, OrderedBatch, QueueBehindBatch, SuspendedBehind, UnstoredBehind, OrderedFile

(* What one caller hands in is stored in the order it was handed in, though
   its puts may be suspended, woken, suspended again or withdrawn; and
   between batches an open feed has carried every row this run stored. *)
THEOREM StoredAndFedInOrderAlways == Spec => []StoredAndFedInOrder
<1>1. Standing /\ Standing' /\ OrderInv /\ [Next]_vars => OrderInv'
  BY OrderStep
<1>2. OrderInv => CallerOrderKept
  <2> SUFFICES ASSUME OrderInv, NEW c \in Caller, NEW i \in 1 .. LinesEach, NEW j \in 1 .. LinesEach,
                      i < j, rowId[<<c, i>>] # 0, rowId[<<c, j>>] # 0
               PROVE  rowId[<<c, i>>] < rowId[<<c, j>>]
    BY DEF CallerOrderKept
  <2>1. <<c, i>> \in Req /\ <<c, j>> \in Req /\ Earlier(<<c, i>>, <<c, j>>)
    BY DEF Req, Line, Earlier
  <2> QED  BY <2>1 DEF OrderInv, OrderedFile
<1>3. FeedInv => FeedIsComplete
  BY DEF FeedInv, NothingSkipped, FeedIsComplete, TaskDead
<1> QED  BY <1>1, <1>2, <1>3, OrderInit, StandingAlways, FeedAlways, PTL DEF Spec, StoredAndFedInOrder

-------------------------------------------------------------------------------
(* Counting what was lost. Every line whose caller heard of a failure is
   counted; of those whose caller had stopped waiting some are, so the count
   lies between the two. *)

Failed == {r \in Req : fut[r] \in {"error", "refused"}}

(* In the queue, or in the batch with its own answer still to come. *)
InHand(r) ==
  \/ r \in Queued
  \/ r \in Batched /\ ~(pc = "settle" /\ \E i \in DOMAIN batch : i < row /\ batch[i] = r)

LostSoFar ==
  {r \in Req : fut[r] \in {"error", "refused", "cancelled"} /\ rowId[r] = 0 /\ ~InHand(r)}

Touched == {r \in Req : fut[r] # "none"}

LossInv ==
  /\ IsFiniteSet(Touched)
  /\ \A r \in Failed : rowId[r] = 0
  /\ Cardinality(Failed) <= writeErrors /\ writeErrors <= Cardinality(LostSoFar)

LEMMA LossSets ==
  ASSUME Standing, IsFiniteSet(Touched), \A r \in Failed : rowId[r] = 0
  PROVE  /\ Failed \subseteq LostSoFar /\ LostSoFar \subseteq Touched
         /\ IsFiniteSet(Failed) /\ IsFiniteSet(LostSoFar)
<1>1. Failed \subseteq LostSoFar
  <2> SUFFICES ASSUME NEW r \in Failed PROVE ~InHand(r)
    BY DEF Failed, LostSoFar
  <2>1. r \in Req /\ r \in Ticket /\ fut[r] \in {"error", "refused"}
    BY DEF Failed, Ticket
  <2>2. r \notin Queued
    BY <2>1 DEF Standing, PlaceInv, ToldSoFar, QueuedAwait, Awaited
  <2>3. \A i \in DOMAIN batch : batch[i] = r => pc = "settle" /\ i < row
    BY <2>1 DEF Standing, PlaceInv, ToldSoFar, BatchedAwait, Awaited, Answered
  <2> QED  BY <2>2, <2>3 DEF InHand, Batched, ToSet
<1>2. LostSoFar \subseteq Touched
  BY DEF LostSoFar, Touched
<1> QED  BY <1>1, <1>2, FS_Subset

LEMMA TouchedStaysFinite ==
  ASSUME IsFiniteSet(Touched), OneAsked
  PROVE  IsFiniteSet(Touched')
<1>1. PICK x : \A t \in Ticket : fut[t] = "none" /\ fut'[t] # "none" => t = x
  BY DEF OneAsked
<1>2. Touched' \subseteq Touched \cup {x}
  BY <1>1 DEF Touched, Ticket
<1>3. IsFiniteSet(Touched \cup {x})
  BY FS_Singleton, FS_Union
<1> QED  BY <1>2, <1>3, FS_Subset

LEMMA FailedNotStored ==
  ASSUME Standing, \A r \in Failed : rowId[r] = 0, Hearing, UNCHANGED rowId \/ Commit
  PROVE  \A r \in Failed' : rowId'[r] = 0
<1> SUFFICES ASSUME NEW r \in Req, fut'[r] \in {"error", "refused"} PROVE rowId'[r] = 0
  BY DEF Failed
<1>1. r \in Ticket
  BY DEF Ticket
<1>2. CASE Commit
  <2>1. fut[r] \in {"error", "refused"} /\ pc = "commit"
        /\ rowId' = [x \in Req |-> IF txId[x] # 0 THEN txId[x] ELSE rowId[x]]
    BY <1>2 DEF Commit
  <2>2. \A i \in DOMAIN batch : batch[i] # r
    BY <2>1 DEF Standing, PlaceInv, ToldSoFar, BatchedAwait, Awaited, Answered
  <2>3. txId[r] = 0
    BY <2>2 DEF Standing, PlaceInv, Transaction, OfTheBatch, Batched, ToSet
  <2> QED  BY <2>1, <2>3 DEF Failed
<1>3. CASE UNCHANGED rowId
  <2>1. CASE fut'[r] = fut[r]
    BY <1>3, <2>1 DEF Failed
  <2>2. CASE fut[r] = "none"
    BY <1>3, <2>2 DEF Standing, PlaceInv, StoredWhenDone, Unstored
  <2>3. CASE Log!GaveUp(r) \/ Log!Answered(r)
    BY <1>3, <2>3 DEF Log!GaveUp, Log!Answered
  <2> QED  BY <1>1, <2>1, <2>2, <2>3 DEF Hearing, Hears, Log!Asked
<1> QED  BY <1>2, <1>3

(* What is lost stays lost for the rest of the run. *)
LEMMA LostStaysLost ==
  ASSUME Standing, TypeOK', Moves, Hearing, FeedClock, UNCHANGED rowId \/ Commit
  PROVE  LostSoFar \subseteq LostSoFar'
<1> SUFFICES ASSUME NEW r \in LostSoFar PROVE r \in LostSoFar'
  OBVIOUS
<1>1. /\ r \in Req /\ r \in Ticket /\ r # Sentinel
      /\ fut[r] \in {"error", "refused", "cancelled"} /\ rowId[r] = 0 /\ ~InHand(r)
  BY TicketsAssumption DEF LostSoFar, Ticket
<1>2. fut'[r] = fut[r]
  BY <1>1 DEF Hearing, Hears, Log!Asked, Log!GaveUp, Log!Answered
<1>3. rowId'[r] = 0
  <2>1. CASE Commit
    <3>1. pc = "commit" /\ rowId' = [x \in Req |-> IF txId[x] # 0 THEN txId[x] ELSE rowId[x]]
      BY <2>1 DEF Commit
    <3>2. txId[r] = 0
      BY <1>1, <3>1 DEF InHand, Standing, PlaceInv, Transaction, OfTheBatch
    <3> QED  BY <1>1, <3>1, <3>2
  <2> QED  BY <1>1, <2>1
<1>4. r \notin Queued'
  <2>1. r \notin Queued /\ r \notin Suspending
    BY <1>1 DEF InHand, Standing, PlaceInv, ToldSoFar, SuspendedPend
  <2>2. ~Newcomer(r)
    BY <1>1, <2>1 DEF Newcomer
  <2> QED  BY <2>1, <2>2, QueuePositions DEF Moves
<1>5. r \in Batched' => pc' = "settle" /\ \E i \in DOMAIN batch' : i < row' /\ batch'[i] = r
  <2> SUFFICES ASSUME r \in Batched'
               PROVE  pc' = "settle" /\ \E i \in DOMAIN batch' : i < row' /\ batch'[i] = r
    OBVIOUS
  <2>1. r \in Batched
    BY <1>1, BatchArrivals DEF InHand, Moves
  <2>2. pc = "settle" /\ \E i \in DOMAIN batch : i < row /\ batch[i] = r
    BY <1>1, <2>1 DEF InHand
  <2>3. UNCHANGED batch /\ pc' = "settle"
    BY <2>2, EmptyFacts DEF Moves, BatchMoves, Batched
  <2>4. row' >= row /\ row \in Nat /\ row' \in Nat /\ \A i \in DOMAIN batch : i \in Nat
    BY <2>2, <2>3 DEF FeedClock, Standing, TypeOK, TaskType
  <2> QED  BY <2>2, <2>3, <2>4
<1> QED  BY <1>1, <1>2, <1>3, <1>4, <1>5 DEF LostSoFar, InHand

(* The two ways a step can keep the count: it loses nothing, or it counts
   the lines it loses. *)
LossesHold ==
  /\ \A r \in Failed' : rowId'[r] = 0
  /\ IsFiniteSet(Touched') /\ LostSoFar \subseteq LostSoFar'

LEMMA NothingLost ==
  ASSUME Standing, Standing', LossInv, LossesHold, Failed' \subseteq Failed, UNCHANGED writeErrors
  PROVE  LossInv'
<1>1. /\ IsFiniteSet(Failed) /\ IsFiniteSet(LostSoFar)
  BY LossSets DEF LossInv
<1>2. IsFiniteSet(LostSoFar')
  <2>1. LostSoFar' \subseteq Touched'
    BY DEF LostSoFar, Touched
  <2> QED  BY <2>1, FS_Subset DEF LossesHold
<1>3. /\ Cardinality(Failed') <= Cardinality(Failed) /\ Cardinality(LostSoFar) <= Cardinality(LostSoFar')
      /\ IsFiniteSet(Failed')
  BY <1>1, <1>2, FS_Subset DEF LossesHold
<1>4. /\ Cardinality(Failed) \in Nat /\ Cardinality(LostSoFar) \in Nat
      /\ Cardinality(Failed') \in Nat /\ Cardinality(LostSoFar') \in Nat /\ writeErrors \in Nat
  BY <1>1, <1>2, <1>3, FS_CardinalityType DEF Standing, TypeOK, RunType
<1> QED  BY <1>3, <1>4 DEF LossInv, LossesHold

LEMMA LossesAreCounted ==
  ASSUME Standing, Standing', LossInv, LossesHold, NEW D, IsFiniteSet(D),
         D \subseteq LostSoFar' \ LostSoFar, Failed' \subseteq Failed \cup D,
         writeErrors' = writeErrors + Cardinality(D)
  PROVE  LossInv'
<1>1. /\ IsFiniteSet(Failed) /\ IsFiniteSet(LostSoFar)
  BY LossSets DEF LossInv
<1>2. IsFiniteSet(LostSoFar')
  <2>1. LostSoFar' \subseteq Touched'
    BY DEF LostSoFar, Touched
  <2> QED  BY <2>1, FS_Subset DEF LossesHold
<1>3. /\ IsFiniteSet(Failed \cup D)
      /\ Cardinality(Failed \cup D) = Cardinality(Failed) + Cardinality(D) - Cardinality(Failed \cap D)
  BY <1>1, FS_Union
<1>4. IsFiniteSet(Failed \cap D)
  BY <1>1, FS_Subset
<1>5. Cardinality(LostSoFar \cup D) = Cardinality(LostSoFar) + Cardinality(D)
      /\ IsFiniteSet(LostSoFar \cup D)
  <2>1. LostSoFar \cap D = {}
    OBVIOUS
  <2>2. /\ IsFiniteSet(LostSoFar \cup D)
        /\ Cardinality(LostSoFar \cup D)
             = Cardinality(LostSoFar) + Cardinality(D) - Cardinality(LostSoFar \cap D)
    BY <1>1, FS_Union
  <2>3. Cardinality(LostSoFar) \in Nat /\ Cardinality(D) \in Nat
    BY <1>1, FS_CardinalityType
  <2>4. Cardinality(LostSoFar \cap D) = 0
    BY <2>1, FS_EmptySet
  <2> HIDE DEF LostSoFar
  <2> QED  BY <2>2, <2>3, <2>4
<1>6. LostSoFar \cup D \subseteq LostSoFar'
  BY DEF LossesHold
<1>7. /\ IsFiniteSet(Failed') /\ Cardinality(Failed') <= Cardinality(Failed \cup D)
      /\ Cardinality(LostSoFar \cup D) <= Cardinality(LostSoFar')
  BY <1>2, <1>3, <1>6, FS_Subset
<1>8. /\ Cardinality(Failed) \in Nat /\ Cardinality(LostSoFar) \in Nat /\ Cardinality(D) \in Nat
      /\ Cardinality(Failed') \in Nat /\ Cardinality(LostSoFar') \in Nat
      /\ Cardinality(Failed \cap D) \in Nat /\ writeErrors \in Nat
  BY <1>1, <1>2, <1>4, <1>7, FS_CardinalityType DEF Standing, TypeOK, RunType
<1> QED  BY <1>3, <1>5, <1>7, <1>8 DEF LossInv, LossesHold

LEMMA DistinctCounted ==
  ASSUME NEW T, NEW s \in Seq(T), Distinct(s)
  PROVE  IsFiniteSet(ToSet(s)) /\ Cardinality(ToSet(s)) = Len(s)
<1>1. Len(s) \in Nat /\ DOMAIN s = 1 .. Len(s)
  OBVIOUS
<1>2. s \in [1 .. Len(s) -> ToSet(s)] /\ \A x \in ToSet(s) : \E i \in 1 .. Len(s) : s[i] = x
  BY <1>1 DEF ToSet
<1>3. \A i, j \in 1 .. Len(s) : s[i] = s[j] => i = j
  BY <1>1 DEF Distinct
<1>4. s \in Bijection(1 .. Len(s), ToSet(s))
  BY <1>2, <1>3, Fun_IsBij
<1>5. ExistsBijection(1 .. Len(s), ToSet(s))
  BY <1>4 DEF ExistsBijection
<1>6. IsFiniteSet(1 .. Len(s)) /\ Cardinality(1 .. Len(s)) = Len(s)
  BY <1>1, FS_Interval
<1> QED  BY <1>5, <1>6, FS_Bijection

NothingFails == UNCHANGED writeErrors /\ \A t \in Req : fut'[t] \in {"error", "refused"} => fut'[t] = fut[t]

LEMMA FailNothing ==
  ASSUME Standing,
         \/ CalmSteps \/ TakeSteps \/ StampCheck \/ InsertBatch \/ RowInserted \/ Commit \/ Stop
         \/ Broadcast \/ BroadcastRaises
         \/ PutResumes
         \/ \E b \in Barrier : DrainWrites(b)
         \/ \E x \in Ticket : GiveUp(x)
         \/ \E x \in Ticket : Withdraw(x)
  PROVE  NothingFails
<1> USE DEF Standing
<1>1. \A t \in Req : t \in Ticket
  BY DEF Ticket
<1>2. CASE CalmSteps
  <2>1. UNCHANGED fut
    BY <1>2, CalmStepsAreCalm DEF Calm
  <2>2. UNCHANGED writeErrors
    BY <1>2 DEF CalmSteps, Wait, HoldOver, AbsorbEnds, InsertBusy, RetryInsert, ToRows, InsertRaises, RowRaises,
                RowsOver, CancelWaiting, FailCapture, StopDeadline, CloseFeed, ForeignLock, ForeignUnlock,
                ForeignRow, vars
  <2> QED  BY <2>1, <2>2 DEF NothingFails
<1>3. CASE TakeSteps
  <2>1. UNCHANGED writeErrors
    BY <1>3 DEF TakeSteps, TakeSentinel, TakeBarrier, TakeLine, AbsorbLine, AbsorbSentinel, AbsorbBarrier
  <2>2. UNCHANGED fut \/ fut' = Told({}, {Head(queue)})
    BY <1>3, TakeStepsTake DEF TakenLine, TakenOther
  <2> QED  BY <1>1, <2>1, <2>2, ToldFacts DEF NothingFails
<1>4. CASE StampCheck \/ InsertBatch
  <2>1. UNCHANGED writeErrors /\ (UNCHANGED fut \/ \E n \in Notice : Joins(n))
    BY <1>4, NoticeSteps DEF NoticeMayJoin
  <2>2. UNCHANGED fut \/ \E n \in Notice : \A t \in Ticket : fut'[t] = IF t = n THEN "pending" ELSE fut[t]
    BY <2>1, JoinsFacts
  <2> QED  BY <1>1, <2>1, <2>2 DEF NothingFails
<1>5. CASE RowInserted \/ Commit \/ Stop \/ PutResumes
  BY <1>5 DEF RowInserted, Commit, Stop, PutResumes, NothingFails
<1>6. CASE Broadcast \/ BroadcastRaises
  <2>1. UNCHANGED writeErrors /\ fut' = Told({}, {barrier})
    BY <1>6 DEF Broadcast, BroadcastRaises
  <2> QED  BY <1>1, <2>1, ToldFacts DEF NothingFails
<1>7. CASE \/ \E b \in Barrier : DrainWrites(b)
           \/ \E x \in Ticket : GiveUp(x)
           \/ \E x \in Ticket : Withdraw(x)
  <2>1. UNCHANGED writeErrors /\ \E x \in Ticket, v \in {"pending", "row", "cancelled", "withdrawn"} :
                                    fut' = [fut EXCEPT ![x] = v]
    BY <1>7 DEF DrainWrites, GiveUp, Withdraw, Ticket
  <2> QED  BY <1>1, <2>1 DEF NothingFails, TypeOK, CallerType
<1> QED  BY <1>2, <1>3, <1>4, <1>5, <1>6, <1>7

LEMMA SubmitCounts ==
  ASSUME Standing, Standing', LossInv, LossesHold, NEW c \in Caller, Submit(c)
  PROVE  LossInv'
<1> DEFINE x == <<c, sent[c] + 1>>
<1>1. sent[c] \in Nat /\ sent[c] + 1 \in 1 .. LinesEach
  BY BoundsAssumption DEF Submit, Standing, TypeOK, CallerType
<1>2. x \in Req /\ x \in Ticket /\ fut[x] = "none"
  BY <1>1 DEF Line, Req, Ticket, Standing, PlaceInv, ToldSoFar, Numbered
<1>3. /\ WriterAlive => fut' = [fut EXCEPT ![x] = "pending"] /\ UNCHANGED writeErrors
      /\ ~WriterAlive => fut' = [fut EXCEPT ![x] = "refused"] /\ UNCHANGED queue /\ writeErrors' = writeErrors + 1
      /\ UNCHANGED <<batch, rowId, pc>>
  BY DEF Submit, queueVars, taskVars, fileVars
<1> HIDE DEF x
<1>4. fut \in [Ticket -> Outcome] /\ \A t \in Req : t \in Ticket
  BY DEF Standing, TypeOK, CallerType, Ticket
<1>5. CASE WriterAlive
  <2>1. Failed' \subseteq Failed
    BY <1>2, <1>3, <1>4, <1>5 DEF Failed
  <2> QED  BY <1>3, <1>5, <2>1, NothingLost
<1>6. CASE ~WriterAlive
  <2>1. \A t \in Ticket : fut'[t] = IF t = x THEN "refused" ELSE fut[t]
    BY <1>2, <1>3, <1>4, <1>6
  <2>2. x \notin LostSoFar /\ Failed' \subseteq Failed \cup {x}
    BY <1>2, <1>4, <2>1 DEF LostSoFar, Failed
  <2>3. x \notin Queued' /\ x \notin Batched' /\ rowId'[x] = 0
    BY <1>2, <1>3, <1>6, FreshNowhere DEF Standing, PlaceInv, StoredWhenDone, Unstored, Queued, Batched
  <2>4. x \in LostSoFar'
    BY <1>2, <2>1, <2>3 DEF LostSoFar, InHand
  <2>5. IsFiniteSet({x}) /\ Cardinality({x}) = 1
    BY FS_Singleton
  <2> QED  BY <1>3, <1>6, <2>2, <2>4, <2>5, LossesAreCounted
<1> QED  BY <1>5, <1>6

LEMMA AnswerCounts ==
  ASSUME Standing, Standing', LossInv, LossesHold, AnswerRow
  PROVE  LossInv'
<1>0. batch[row] \in Req
  BY AnswerFacts DEF Standing
<1> SUFFICES ASSUME NEW x \in Req, x = batch[row] PROVE LossInv'
  BY <1>0
<1>1. /\ UNCHANGED <<queue, batch, txId, rowId, pc>>
      /\ pc = "settle" /\ row \in Nat \ {0} /\ row \in DOMAIN batch /\ row' = row + 1
      /\ x \in Req /\ x \in Ticket /\ rowId[x] = txId[x] /\ fut[x] \in Awaited
      /\ \A t \in Ticket :
              fut'[t] = IF t = x /\ fut[t] = "pending"
                        THEN IF txId[t] = 0 THEN "error" ELSE "row"
                        ELSE fut[t]
      /\ IF txId[x] = 0 THEN writeErrors' = writeErrors + 1 ELSE UNCHANGED writeErrors
  BY AnswerFacts DEF Standing
<1>2. \A t \in Req : t \in Ticket
  BY DEF Ticket
<1>3. CASE txId[x] # 0
  <2>1. Failed' \subseteq Failed
    BY <1>1, <1>2, <1>3 DEF Failed
  <2> QED  BY <1>1, <1>3, <2>1, NothingLost
<1>4. CASE txId[x] = 0
  <2>1. x \in Batched /\ x \notin Queued
    BY <1>1 DEF Batched, ToSet, Standing, PlaceInv, InOnePlace, Apart
  <2>2. \A i \in DOMAIN batch : batch[i] = x => i = row
    BY <1>1 DEF Standing, PlaceInv, InOnePlace, Distinct
  <2>3. InHand(x)
    BY <1>1, <2>1, <2>2 DEF InHand
  <2>4. ~InHand(x)'
    <3>1. x \notin ToSet(queue)' /\ pc' = "settle" /\ row \in DOMAIN batch' /\ row < row' /\ batch'[row] = x
      BY <1>1, <2>1 DEF Queued
    <3> QED  BY <3>1 DEF InHand, Queued
  <2>5. fut'[x] \in {"error", "cancelled"} /\ rowId'[x] = 0
    BY <1>1, <1>4 DEF Awaited
  <2>6. Failed' \subseteq Failed \cup {x}
    BY <1>1, <1>2 DEF Failed
  <2>7. x \in LostSoFar' \ LostSoFar
    <3>1. x \in LostSoFar'
      BY <2>4, <2>5 DEF LostSoFar
    <3>2. x \notin LostSoFar
      BY <2>3 DEF LostSoFar
    <3> QED  BY <3>1, <3>2
  <2>8. IsFiniteSet({x}) /\ Cardinality({x}) = 1
    BY FS_Singleton
  <2> QED  BY <1>1, <1>4, <2>6, <2>7, <2>8, LossesAreCounted
<1> QED  BY <1>3, <1>4

LEMMA BatchLossesCount ==
  ASSUME Standing, Standing', LossInv, LossesHold, BatchLosses
  PROVE  LossInv'
<1>1. /\ Queued' = Queued /\ Batched' = {} /\ UNCHANGED rowId /\ pc # "settle"
      /\ \A t \in Ticket :
              \/ fut'[t] = fut[t]
              \/ fut[t] = "pending" /\ t \in Batched /\ fut'[t] = "error"
              \/ fut[t] = "pending" /\ t = barrier /\ t \in Barrier /\ t \notin Req /\ fut'[t] = "row"
  <2>1. BatchEnds /\ pc # "settle"
    BY BatchStepsEnd DEF BatchSteps, Standing
  <2> QED  BY <2>1, BatchEndsFacts DEF Standing, BatchEnds
<1>2. Batched \subseteq Req /\ Req \subseteq Ticket /\ batch \in Seq(Req) /\ Distinct(batch)
  BY PlacesTyped DEF Standing, TypeOK, TaskType, PlaceInv, InOnePlace, Ticket
<1>3. PICK S : fut' = Told(Batched, S)
  BY DEF BatchLosses, ResyncFails, CommitFails, CancelHolding, CancelRetrying, Batched
<1>4. \A r \in Batched : fut[r] \in Awaited /\ fut'[r] \in {"error", "cancelled"} /\ rowId'[r] = 0
  <2> SUFFICES ASSUME NEW r \in Batched
               PROVE  fut[r] \in Awaited /\ fut'[r] \in {"error", "cancelled"} /\ rowId'[r] = 0
    OBVIOUS
  <2>1. fut[r] \in Awaited
    BY <1>1 DEF Standing, PlaceInv, ToldSoFar, BatchedAwait, Answered, Batched, ToSet
  <2>2. fut'[r] \in {"error", "cancelled"}
    BY <1>2, <1>3, <2>1, ToldFacts DEF Awaited, Standing
  <2>3. rowId[r] = 0
    BY <1>1, <1>2 DEF Standing, PlaceInv, StoredWhenDone, Unstored
  <2> QED  BY <1>1, <2>1, <2>2, <2>3
<1>5. Batched \subseteq LostSoFar' \ LostSoFar
  <2>1. \A r \in Batched : InHand(r) /\ r \in Req /\ r \notin Queued
    BY <1>1, <1>2 DEF InHand, Standing, PlaceInv, InOnePlace, Apart
  <2>2. \A r \in Batched : ~InHand(r)'
    BY <1>1, <2>1 DEF InHand
  <2> QED  BY <1>4, <2>1, <2>2 DEF LostSoFar
<1>6. Failed' \subseteq Failed \cup Pending(batch) /\ Pending(batch) \subseteq Batched
  BY <1>1, <1>2 DEF Failed, Pending, Batched
<1>7. IsFiniteSet(Batched) /\ Cardinality(Batched) = Len(batch)
  BY <1>2, DistinctCounted DEF Batched
<1>8. IsFiniteSet(Pending(batch))
  BY <1>6, <1>7, FS_Subset
<1>9. CASE writeErrors' = writeErrors + Len(batch)
  <2>1. Failed' \subseteq Failed \cup Batched
    BY <1>6
  <2> QED  BY <1>5, <1>7, <1>9, <2>1, LossesAreCounted
<1>10. CASE writeErrors' = writeErrors + Cardinality(Pending(batch))
  <2>1. Pending(batch) \subseteq LostSoFar' \ LostSoFar
    BY <1>5, <1>6
  <2> QED  BY <1>6, <1>8, <1>10, <2>1, LossesAreCounted
<1>11. CancelHolding => writeErrors' = writeErrors + Len(batch)
  BY DEF CancelHolding, Standing, PlaceInv, Holds
<1> QED  BY <1>9, <1>10, <1>11 DEF BatchLosses, ResyncFails, CommitFails, CancelRetrying

LEMMA QueueFailCounts ==
  ASSUME Standing, Standing', LossInv, LossesHold, QueueFailSteps
  PROVE  LossInv'
<1> DEFINE D == Pending(queue)
<1>1. /\ FailQueued /\ UNCHANGED <<rowId, batch>> /\ batch = <<>> /\ Queued' = {}
      /\ \A t \in Ticket :
              \/ fut'[t] = fut[t] /\ ~(t \in Queued /\ fut[t] = "pending")
              \/ fut[t] = "pending" /\ t \in Queued /\ t \in Req /\ fut'[t] = "error"
              \/ fut[t] = "pending" /\ t \in Queued /\ t \in Barrier /\ t \notin Req /\ fut'[t] = "row"
  BY QueueFails DEF Standing
<1>2. Batched' = {} /\ Req \subseteq Ticket /\ queue \in Seq(Ticket \cup {Sentinel})
  BY <1>1, EmptyFacts DEF Batched, Ticket, Standing, TypeOK, QueueType
<1>3. IsFiniteSet(D)
  <2>1. IsFiniteSet(ToSet(queue))
    BY <1>2, ToSetOfSeq
  <2>2. D \subseteq ToSet(queue)
    BY DEF Pending
  <2> QED  BY <2>1, <2>2, FS_Subset
<1>4. D = {r \in Req : r \in Queued /\ fut[r] = "pending"}
  BY DEF Pending, Queued
<1>5. writeErrors' = writeErrors + Cardinality(D)
  BY <1>1 DEF FailQueued
<1> HIDE DEF D
<1>6. \A r \in D : fut'[r] = "error" /\ rowId'[r] = 0 /\ ~InHand(r)' /\ fut[r] = "pending" /\ r \in Req
  BY <1>1, <1>2, <1>4 DEF Standing, PlaceInv, StoredWhenDone, Unstored, InHand
<1>7. D \subseteq LostSoFar' \ LostSoFar
  BY <1>6 DEF LostSoFar
<1>8. Failed' \subseteq Failed \cup D
  BY <1>1, <1>2, <1>4 DEF Failed
<1> QED  BY <1>3, <1>5, <1>7, <1>8, LossesAreCounted

LEMMA LossStep == Standing /\ Standing' /\ LossInv /\ [Next]_vars => LossInv'
<1> SUFFICES ASSUME Standing, Standing', LossInv, [Next]_vars PROVE LossInv'
  OBVIOUS
<1>1. CASE Kill \/ Start
  <2>1. /\ writeErrors' = 0
        /\ \A t \in Ticket : fut'[t] = IF fut[t] \in {"none", "row"} THEN fut[t] ELSE "gone"
    BY <1>1, MemoryLostFacts DEF Standing
  <2>2. \A r \in Req : fut'[r] \notin {"error", "refused", "cancelled"} /\ (fut[r] = "none" => fut'[r] = "none")
    BY <2>1 DEF Ticket
  <2>3. Failed' = {} /\ LostSoFar' = {} /\ Touched' \subseteq Touched
    BY <2>2 DEF Failed, LostSoFar, Touched
  <2>4. IsFiniteSet(Touched')
    BY <2>3, FS_Subset DEF LossInv
  <2> QED  BY <2>1, <2>3, <2>4, FS_EmptySet DEF LossInv
<1>2. CASE ~(Kill \/ Start)
  <2>1. Hearing /\ FeedClock
    BY <1>2, TicketsHear, FeedClockTicks DEF Standing
  <2>2. Moves /\ (UNCHANGED rowId \/ Commit)
    BY <1>2, MovesOfCallers, MovesOfTheTask, StepsSorted DEF Standing
  <2>3. LossesHold
    <3>1. \A r \in Failed' : rowId'[r] = 0
      BY <2>1, <2>2, FailedNotStored DEF LossInv
    <3>2. IsFiniteSet(Touched')
      BY <2>1, TouchedStaysFinite DEF LossInv, Hearing
    <3>3. LostSoFar \subseteq LostSoFar'
      BY <2>1, <2>2, LostStaysLost DEF Standing
    <3> QED  BY <3>1, <3>2, <3>3 DEF LossesHold
  <2>4. NothingFails => LossInv'
    <3> SUFFICES ASSUME NothingFails PROVE LossInv'
      OBVIOUS
    <3>1. Failed' \subseteq Failed /\ UNCHANGED writeErrors
      BY DEF NothingFails, Failed
    <3> QED  BY <2>3, <3>1, NothingLost
  <2>5. CASE \/ CalmSteps \/ TakeSteps \/ StampCheck \/ InsertBatch \/ RowInserted \/ Commit \/ Stop
             \/ Broadcast \/ BroadcastRaises
             \/ PutResumes
             \/ \E b \in Barrier : DrainWrites(b)
             \/ \E x \in Ticket : GiveUp(x)
             \/ \E x \in Ticket : Withdraw(x)
    BY <2>4, <2>5, FailNothing
  <2> QED  BY <1>2, <2>3, <2>5, StepsSorted, SubmitCounts, AnswerCounts, BatchLossesCount, QueueFailCounts
           DEF BatchSteps
<1> QED  BY <1>1, <1>2

LEMMA LossInit == Init => LossInv
<1> SUFFICES ASSUME Init PROVE LossInv
  OBVIOUS
<1>1. writeErrors = 0 /\ \A r \in Req : fut[r] = "none"
  BY DEF Init, Ticket
<1>2. Failed = {} /\ LostSoFar = {} /\ Touched = {}
  BY <1>1 DEF Failed, LostSoFar, Touched
<1> QED  BY <1>1, <1>2, FS_EmptySet DEF LossInv

LEMMA LossAlways == Spec => [](Standing /\ LossInv)
<1>1. Standing /\ Standing' /\ LossInv /\ [Next]_vars => LossInv'
  BY LossStep
<1> QED  BY <1>1, LossInit, StandingAlways, PTL DEF Spec

(* Whenever anything else on the loop can look. *)
LEMMA LostIsLostSoFar ==
  ASSUME Standing, LossInv, LoopFree
  PROVE  Lost = LostSoFar
<1>1. pc # "settle"
  BY DEF LoopFree, Suspended, Ended
<1>2. \A r \in Req : fut[r] = "row" => rowId[r] # 0
  BY DEF Standing, PlaceInv, StoredWhenDone
<1>3. InQueue = Queued \cup Batched
  BY DEF InQueue, Queued, Batched
<1> QED  BY <1>1, <1>2, <1>3 DEF Lost, LostSoFar, InHand

(* write_errors hides no failure a caller heard of, and counts no line that
   was not lost. Between the two lie the lines whose callers had stopped
   waiting: a batch that fails counts them, the queue of a dead task does
   not. *)
ErrorsBracketed ==
  LoopFree => Cardinality(Failed) <= writeErrors /\ writeErrors <= Cardinality(Lost)

(* So it is on every behaviour, whoever is cancelled.                       *)
THEOREM ErrorsAlwaysBracketed == Spec => []ErrorsBracketed
<1>1. Standing /\ LossInv => ErrorsBracketed
  BY LostIsLostSoFar DEF ErrorsBracketed, LossInv
<1> QED  BY <1>1, LossAlways, PTL

(* While no caller stops waiting, the two are one: write_errors is the number
   of lines handed to the capture in this run and not stored, each counted
   once, on whichever path it was lost. A caller that is cancelled is what
   "giveUp" is; with it the count falls short (see the README). *)
THEOREM LossesAlwaysCounted ==
  ASSUME "giveUp" \notin Trouble
  PROVE  Spec => []LossesCounted
<1> DEFINE NoneCancelled == \A t \in Ticket : fut[t] # "cancelled"
<1>1. Init => NoneCancelled
  BY DEF Init
<1>2. Standing /\ Standing' /\ NoneCancelled /\ [Next]_vars => NoneCancelled'
  <2> SUFFICES ASSUME Standing, Standing', NoneCancelled, [Next]_vars, NEW t \in Ticket
               PROVE  fut'[t] # "cancelled"
    OBVIOUS
  <2>1. CASE Kill \/ Start
    BY <2>1, MemoryLostFacts DEF Standing
  <2>2. CASE ~(Kill \/ Start)
    BY <2>2, TicketsHear DEF Standing, Hearing, Hears
  <2> QED  BY <2>1, <2>2
<1>3. Standing /\ LossInv /\ NoneCancelled => LossesCounted
  <2> SUFFICES ASSUME Standing, LossInv, NoneCancelled, LoopFree PROVE writeErrors = Cardinality(Lost)
    BY DEF LossesCounted
  <2>1. Lost = LostSoFar
    BY LostIsLostSoFar
  <2>2. LostSoFar \subseteq Failed
    BY DEF LostSoFar, Failed, Ticket
  <2>3. LostSoFar = Failed /\ IsFiniteSet(Failed)
    BY <2>2, LossSets DEF LossInv
  <2>4. Cardinality(Failed) \in Nat /\ writeErrors \in Nat
    BY <2>3, FS_CardinalityType DEF Standing, TypeOK, RunType
  <2>5. Cardinality(Failed) <= writeErrors /\ writeErrors <= Cardinality(Failed)
    BY <2>3 DEF LossInv
  <2> QED  BY <2>1, <2>3, <2>4, <2>5
<1> HIDE DEF NoneCancelled
<1> QED  BY <1>1, <1>2, <1>3, LossAlways, StandingAlways, PTL DEF Spec
===============================================================================
