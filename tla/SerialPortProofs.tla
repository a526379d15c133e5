-------------------------- MODULE SerialPortProofs ----------------------------
(***************************************************************************)
(* Proofs about SerialPort, for every range of sequence numbers, every     *)
(* number of calls and connections, every kind of client and of fault.     *)
(*                                                                         *)
(* IInv, at the end, is the inductive invariant: types, the owner of the   *)
(* handle, one command in flight, the pending table and whose response     *)
(* anything under way is. NextIsCallStep reduces a step to what it does to *)
(* the calls. That what a command has under way is younger than a round of *)
(* seqs is BeginCommand's assumption, and AnswersAlwaysMatch rests on it.  *)
(* StatusInv (what the notices in the ready queue will make of the status) *)
(* and DeadLinks (who fails a command whose link is gone) stand on IInv.   *)
(***************************************************************************)
EXTENDS SerialPort, FiniteSetTheorems, SequenceTheorems, TLAPS

-------------------------------------------------------------------------------
(* Sequences by what they hold. *)

LEMMA RangeOfAppend ==
  ASSUME NEW S, NEW s \in Seq(S), NEW e
  PROVE  Range(Append(s, e)) = Range(s) \cup {e}
<1>1. DOMAIN Append(s, e) = DOMAIN s \cup {Len(s) + 1}
  OBVIOUS
<1>2. \A i \in DOMAIN s : Append(s, e)[i] = s[i]
  OBVIOUS
<1>3. Append(s, e)[Len(s) + 1] = e
  OBVIOUS
<1> QED  BY <1>1, <1>2, <1>3 DEF Range

LEMMA RangeOfTail ==
  ASSUME NEW S, NEW s \in Seq(S), s # <<>>
  PROVE  /\ Tail(s) \in Seq(S) /\ Head(s) \in S
         /\ Head(s) \in Range(s)
         /\ Range(Tail(s)) \subseteq Range(s)
<1>1. Tail(s) \in Seq(S) /\ Head(s) \in S /\ Len(Tail(s)) = Len(s) - 1 /\ Len(s) \in Nat \ {0}
  OBVIOUS
<1>2. \A i \in 1 .. Len(s) - 1 : Tail(s)[i] = s[i + 1] /\ i + 1 \in 1 .. Len(s)
  BY <1>1
<1>3. DOMAIN Tail(s) = 1 .. Len(s) - 1 /\ DOMAIN s = 1 .. Len(s)
  BY <1>1
<1>4. Head(s) = s[1] /\ 1 \in 1 .. Len(s)
  BY <1>1
<1> QED  BY <1>1, <1>2, <1>3, <1>4 DEF Range

LEMMA RangeOfConcat ==
  ASSUME NEW S, NEW s \in Seq(S), NEW t \in Seq(S)
  PROVE  /\ s \o t \in Seq(S)
         /\ Range(s \o t) = Range(s) \cup Range(t)
<1>1. s \o t \in Seq(S) /\ Len(s \o t) = Len(s) + Len(t) /\ Len(s) \in Nat /\ Len(t) \in Nat
  OBVIOUS
<1>2. \A i \in 1 .. Len(s) : (s \o t)[i] = s[i] /\ i \in 1 .. Len(s) + Len(t)
  BY <1>1
<1>3. \A i \in 1 .. Len(t) : (s \o t)[Len(s) + i] = t[i] /\ Len(s) + i \in 1 .. Len(s) + Len(t)
  BY <1>1
<1>4. \A i \in 1 .. Len(s) + Len(t) : i \in 1 .. Len(s) \/ \E j \in 1 .. Len(t) : i = Len(s) + j
  <2> SUFFICES ASSUME NEW i \in 1 .. Len(s) + Len(t), i \notin 1 .. Len(s)
               PROVE  \E j \in 1 .. Len(t) : i = Len(s) + j
    OBVIOUS
  <2>1. i - Len(s) \in 1 .. Len(t) /\ i = Len(s) + (i - Len(s))
    BY <1>1
  <2> QED  BY <2>1
<1>5. DOMAIN (s \o t) = 1 .. Len(s) + Len(t) /\ DOMAIN s = 1 .. Len(s) /\ DOMAIN t = 1 .. Len(t)
  BY <1>1
<1>6. \A x \in Range(s \o t) : x \in Range(s) \cup Range(t)
  <2> SUFFICES ASSUME NEW i \in 1 .. Len(s) + Len(t)
               PROVE  (s \o t)[i] \in Range(s) \cup Range(t)
    BY <1>5 DEF Range
  <2>1. CASE i \in 1 .. Len(s)
    BY <1>2, <1>5, <2>1 DEF Range
  <2>2. CASE \E j \in 1 .. Len(t) : i = Len(s) + j
    BY <1>3, <1>5, <2>2 DEF Range
  <2> QED  BY <1>4, <2>1, <2>2
<1>7. \A x \in Range(s) \cup Range(t) : x \in Range(s \o t)
  BY <1>2, <1>3, <1>5 DEF Range
<1> QED  BY <1>1, <1>6, <1>7

(* Waking a set of calls posts a wakeup for each, and nothing else. *)
LEMMA WakesWake ==
  ASSUME NEW S \in SUBSET Call
  PROVE  /\ Wakes(S) \in Seq(Entries)
         /\ \A e \in Range(Wakes(S)) : e.k = "woken"
<1>1. IsFiniteSet(S)
  <2>1. IsFiniteSet(Call)
    BY FS_Interval, BoundAssumption DEF Call
  <2> QED  BY <2>1, FS_Subset
<1>2. Cardinality(S) \in Nat /\ ExistsBijection(1 .. Cardinality(S), S)
  BY <1>1, FS_CardinalityType
<1>3. \E f \in [1 .. Cardinality(S) -> S] : IsInjective(f)
  BY <1>2 DEF ExistsBijection, Bijection, Injection, IsInjective
<1>4. SetToSeq(S) \in [1 .. Cardinality(S) -> S]
  BY <1>3 DEF SetToSeq
<1>5. \A i \in 1 .. Cardinality(S) : Wakes(S)[i] \in Entries /\ Wakes(S)[i].k = "woken"
  BY <1>4 DEF Wakes, Entry, Entries
<1>6. DOMAIN Wakes(S) = 1 .. Cardinality(S)
  BY DEF Wakes
<1>7. Wakes(S) \in [1 .. Cardinality(S) -> Entries]
  BY <1>5 DEF Wakes
<1> QED  BY <1>2, <1>5, <1>6, <1>7 DEF Range

LEMMA WakeupIsPosted ==
  ASSUME NEW e \in Entries, ready \in Seq(Entries), Wakeup(e)
  PROVE  /\ ready' \in Seq(Entries)
         /\ Range(ready') = Range(ready) \cup {e}
BY RangeOfAppend DEF Wakeup

-------------------------------------------------------------------------------
(* Types, in parts. *)

FlagsOK ==
  /\ stopping \in BOOLEAN /\ failing \in BOOLEAN /\ connected \in BOOLEAN
  /\ held \in BOOLEAN /\ consuming \in BOOLEAN

StatusOK ==
  /\ rpc \in {"top", "opening", "opened", "publish", "reading", "closing", "closed", "retry",
              "exited"}
  /\ rpc = "opening" => mine < MaxLinks
  /\ mine \in Link /\ link \in Link /\ conn \in Link /\ target \in Link
  /\ open \subseteq Link \ {0}
  /\ lock \in 0 .. MaxCalls
  /\ reason \in Reasons
  /\ stopPc \in {"off", "joining", "taking", "ending", "dropping", "stopped"}

QueuesOK == ready \in Seq(Entries) /\ lines \in Seq(Call)

CallsOK ==
  /\ called \in 0 .. MaxCalls /\ lastSeq \in 0 .. SeqMax
  /\ kind \in [Call -> {"cmd", "raw", Ping}]
  /\ pc \in [Call -> {"uncalled", "queued", "done"} \cup InFlight]
  /\ seq \in [Call -> 0 .. SeqMax]
  /\ via \in [Call -> Link]
  /\ fut \in [Call -> Outcome] /\ answer \in [Call -> Outcome]
  /\ pooled \subseteq Call /\ due \subseteq Call
  /\ pending \in [Seq1 -> 0 .. MaxCalls]

SeqGiven == \A c \in Call : kind[c] # "raw" /\ pc[c] \in InFlight => seq[c] # 0

Types == FlagsOK /\ StatusOK /\ QueuesOK /\ CallsOK

LEMMA TypeOKInParts == Types /\ SeqGiven => TypeOK
BY DEF TypeOK, Types, FlagsOK, StatusOK, QueuesOK, CallsOK, SeqGiven

LEMMA FlagsKept == FlagsOK /\ [Next]_vars => FlagsOK'
<1> SUFFICES ASSUME FlagsOK, [Next]_vars PROVE FlagsOK'
  OBVIOUS
<1> USE DEF FlagsOK, readerVars, linkVars, portVars, rxVars, callVars
<1>1. CASE Reader
  BY <1>1 DEF Reader, ReaderStops, OpenStarts, OpenFails, OpenReturns, OpenedTooLate,
       OpenedInTime, Publish, ReadResponse, ReadFails, ReadingStops, ReaderCloses, CloseLocked,
       ReaderReports
<1>2. CASE RunReady
  <2> SUFFICES ASSUME NEW e,
                 \/ OnConnect(e) \/ OnDisconnect(e) \/ OnError(e) \/ OnBytes(e)
                 \/ Settle(e) \/ Written(e) \/ Logged(e) \/ Woken(e)
               PROVE  FlagsOK'
    BY <1>2 DEF RunReady
  <2>1. CASE OnConnect(e) \/ OnDisconnect(e) \/ OnError(e) \/ OnBytes(e)
    BY <1>2, <2>1 DEF RunReady, OnConnect, OnDisconnect, OnError, OnBytes
  <2>2. CASE Settle(e) \/ Written(e) \/ Logged(e) \/ Woken(e)
    BY <1>2, <2>2 DEF RunReady, Settle, Written, Logged, Woken
  <2> QED  BY <2>1, <2>2
<1>3. CASE Ask \/ StoresLine
  BY <1>3 DEF Ask, StoresLine
<1>4. ASSUME NEW c \in Call, Pool(c) \/ Client(c)
      PROVE  FlagsOK'
  BY <1>4 DEF Pool, WriteRefused, WriteStarts, WriteLands, WriteFails, WriteReturns,
       Client, BeginCommand, BeginRaw, TimesOut, Cancel, Logs
<1>5. CASE Stop
  BY <1>5 DEF Stop, StopBegins, Joined, JoinTimesOut, StopCloses, CloseLocked,
       StopCancelsConsumer, StopEnds
<1>6. CASE UNCHANGED vars
  BY <1>6 DEF vars
<1> QED  BY <1>1, <1>2, <1>3, <1>4, <1>5, <1>6 DEF Next

LEMMA StatusKept == StatusOK /\ QueuesOK /\ CallsOK /\ [Next]_vars => StatusOK'
<1> SUFFICES ASSUME StatusOK, QueuesOK, CallsOK, [Next]_vars PROVE StatusOK'
  OBVIOUS
<1> USE BoundAssumption DEF StatusOK, Link, Reasons, readerVars, linkVars, portVars, rxVars, callVars
<1>1. CASE Reader
  <2>1. CASE ReaderStops \/ OpenStarts \/ OpenFails \/ OpenedTooLate \/ OpenedInTime
    BY <2>1 DEF ReaderStops, OpenStarts, OpenFails, OpenedTooLate, OpenedInTime
  <2>2. CASE OpenReturns
    <3>1. mine + 1 \in Link \ {0}
      BY <2>2 DEF OpenReturns
    <3> QED  BY <2>2, <3>1 DEF OpenReturns
  <2>3. CASE Publish \/ ReadResponse \/ ReadFails \/ ReadingStops
    BY <2>3 DEF Publish, ReadResponse, ReadFails, ReadingStops
  <2>4. CASE ReaderCloses \/ ReaderReports
    <3>1. UNCHANGED <<mine, lock, portVars, stopPc>> /\ rpc' \in {"closed", "retry"}
      BY <2>4 DEF ReaderCloses, CloseLocked, ReaderReports
    <3>2. link' \in {0, link} /\ open' \subseteq open
      BY <2>4 DEF ReaderCloses, CloseLocked, ReaderReports
    <3> QED  BY <3>1, <3>2
  <2> QED  BY <1>1, <2>1, <2>2, <2>3, <2>4 DEF Reader
<1>2. CASE RunReady
  <2>1. PICK e \in Entries :
                 \/ OnConnect(e) \/ OnDisconnect(e) \/ OnError(e) \/ OnBytes(e)
                 \/ Settle(e) \/ Written(e) \/ Logged(e) \/ Woken(e)
    BY <1>2, RangeOfTail DEF RunReady, QueuesOK
  <2>2. CASE OnConnect(e) \/ OnDisconnect(e) \/ OnError(e) \/ OnBytes(e)
    BY <1>2, <2>1, <2>2, SMTT(30) DEF RunReady, OnConnect, OnDisconnect, OnError, OnBytes, Entries
  <2>3. CASE Settle(e)
    BY <1>2, <2>3 DEF RunReady, Settle
  <2>4. CASE Written(e) \/ Logged(e) \/ Woken(e)
    <3>1. e.n \in Call
      BY <2>4 DEF Entries, Written, Logged, Woken
    <3>2. target' = target \/ target' = via[e.n]
      BY <2>4 DEF Written, Logged, Woken, Finish
    <3> QED  BY <1>2, <2>4, <3>1, <3>2 DEF RunReady, Written, Logged, Woken, CallsOK
  <2> QED  BY <2>1, <2>2, <2>3, <2>4
<1>3. CASE Ask \/ StoresLine
  BY <1>3, ZenonT(40) DEF Ask, StoresLine
<1>4. ASSUME NEW c \in Call, Pool(c) \/ Client(c)
      PROVE  StatusOK'
  <2>1. UNCHANGED <<readerVars, link, open, portVars, stopPc>>
    BY <1>4 DEF Pool, WriteRefused, WriteStarts, WriteLands, WriteFails, WriteReturns,
         Client, BeginCommand, BeginRaw, TimesOut, Cancel, Logs
  <2>2. lock' \in {0, lock, c}
    BY <1>4 DEF Pool, WriteRefused, WriteStarts, WriteLands, WriteFails, WriteReturns,
         Client, BeginCommand, BeginRaw, TimesOut, Cancel, Logs
  <2>3. lock' \in 0 .. MaxCalls
    BY <2>2 DEF Call
  <2> QED  BY <2>1, <2>3
<1>5. CASE Stop
  <2>1. CASE StopBegins
    BY <2>1 DEF StopBegins
  <2>2. CASE Joined \/ JoinTimesOut \/ StopCancelsConsumer \/ StopEnds
    BY <2>2 DEF Joined, JoinTimesOut, StopCancelsConsumer, StopEnds
  <2>3. CASE StopCloses
    BY <2>3 DEF StopCloses, CloseLocked
  <2> QED  BY <1>5, <2>1, <2>2, <2>3 DEF Stop
<1>6. CASE UNCHANGED vars
  BY <1>6 DEF vars
<1> QED  BY <1>1, <1>2, <1>3, <1>4, <1>5, <1>6 DEF Next

(* What the reader thread, stop() and a worker of the pool know of the handle. *)
Stopped ==
  /\ stopPc # "off" => stopping
  /\ stopPc = "taking" => rpc \notin {"opening", "opened", "publish"}

Handed ==
  /\ rpc \in {"opened", "publish"} => mine # 0 /\ mine \in open
  /\ link # 0 => link = mine /\ mine \in open /\ rpc \in {"reading", "closing"}

Locked == lock # 0 => link # 0 /\ via[lock] = link /\ lock \in pooled

Handles == Stopped /\ Handed /\ Locked /\ HealthIsOfTheLink

(* A response answers a command, not a raw line. *)
Known == \A n \in Arriving \cup due : seq[n] # 0

LEMMA QueuesKept == Types /\ Handles /\ Known /\ [Next]_vars => QueuesOK'
<1> SUFFICES ASSUME Types, Handles, Known, [Next]_vars PROVE QueuesOK'
  OBVIOUS
<1>0. StatusOK /\ QueuesOK /\ CallsOK
  BY DEF Types
<1> USE BoundAssumption DEF readerVars, linkVars, portVars, rxVars, callVars
<1>1. CASE UNCHANGED <<ready, lines>>
  BY <1>0, <1>1 DEF QueuesOK
<1>2. ASSUME UNCHANGED lines, NEW e \in Entries, Wakeup(e)
      PROVE  QueuesOK'
  BY <1>0, <1>2, WakeupIsPosted DEF QueuesOK
<1>3. CASE Reader
  <2>1. CASE OpenFails
    <3>1. PICK why \in {"no_device", "open_failed"} : Post(Entry("on_error", 0, why))
      BY <2>1 DEF OpenFails
    <3>2. Entry("on_error", 0, why) \in Entries
      BY DEF Entry, Entries
    <3> QED  BY <1>2, <2>1, <3>1, <3>2 DEF OpenFails, Post
  <2>2. CASE Publish
    <3>1. mine \in Link \ {0}
      BY <1>0, <2>2 DEF Publish, StatusOK, Handles, Handed
    <3>2. Entry("on_connect", mine, "ok") \in Entries
      BY <3>1 DEF Entry, Entries
    <3> QED  BY <1>2, <2>2, <3>2 DEF Publish, Post
  <2>3. CASE ReadResponse
    <3>1. PICK n \in due : Post(Entry("on_bytes", n, "ok"))
      BY <2>3 DEF ReadResponse
    <3>2. Entry("on_bytes", n, "ok") \in Entries
      BY <1>0, <3>1 DEF Entry, Entries, CallsOK
    <3> QED  BY <1>2, <2>3, <3>1, <3>2 DEF ReadResponse, Post
  <2>4. CASE ReadFails \/ ReaderReports
    <3>1. Entry("on_error", 0, "read_error") \in Entries /\ Entry("on_disconnect", 0, "ok") \in Entries
      BY DEF Entry, Entries
    <3> QED  BY <1>2, <2>4, <3>1 DEF ReadFails, ReaderReports, Post
  <2>5. CASE ReaderStops \/ OpenStarts \/ OpenReturns \/ OpenedTooLate \/ OpenedInTime
             \/ ReadingStops \/ ReaderCloses
    BY <1>1, <2>5 DEF ReaderStops, OpenStarts, OpenReturns, OpenedTooLate, OpenedInTime,
         ReadingStops, ReaderCloses
  <2> QED  BY <1>3, <2>1, <2>2, <2>3, <2>4, <2>5 DEF Reader
<1>4. CASE RunReady
  <2>1. PICK e \in Entries :
                 /\ e \in Range(ready)
                 /\ \/ OnConnect(e) \/ OnDisconnect(e) \/ OnError(e) \/ OnBytes(e)
                    \/ Settle(e) \/ Written(e) \/ Logged(e) \/ Woken(e)
    BY <1>0, <1>4, RangeOfTail DEF RunReady, QueuesOK
  <2>2. ready # <<>> /\ Tail(ready) \in Seq(Entries)
    BY <1>0, <1>4, RangeOfTail DEF RunReady, QueuesOK
  <2>3. ASSUME NEW S \in SUBSET Call PROVE Tail(ready) \o Wakes(S) \in Seq(Entries)
    BY <2>2, WakesWake, RangeOfConcat
  <2>4. CASE UNCHANGED lines /\ ready' = Tail(ready)
    BY <1>0, <2>2, <2>4 DEF QueuesOK
  <2>5. CASE OnBytes(e)
    <3>1. lines' \in Seq(Call)
      BY <1>0, <2>1, <2>5 DEF OnBytes, Entries, QueuesOK
    <3> QED  BY <2>2, <2>5, <3>1 DEF OnBytes, QueuesOK
  <2>6. CASE OnDisconnect(e)
    <3>1. {c \in Registered : WaitsForFuture(c)} \subseteq Call
      BY DEF Registered
    <3>2. ready' \in Seq(Entries)
      BY <2>3, <2>6, <3>1 DEF OnDisconnect, FailedWakes
    <3> QED  BY <1>0, <2>6, <3>2 DEF OnDisconnect, QueuesOK
  <2>7. CASE Settle(e)
    <3>1. e.n \in Call /\ seq[e.n] # 0
      BY <2>1, <2>7 DEF Settle, Known, Arriving, Entries
    <3>2. seq[e.n] \in Seq1
      BY <1>0, <3>1 DEF CallsOK, Seq1
    <3>3. pending[seq[e.n]] # 0 => pending[seq[e.n]] \in Call
      BY <1>0, <3>2 DEF CallsOK, Call
    <3>4. ready' \in Seq(Entries)
      BY <2>2, <2>3, <2>7, <3>3 DEF Settle
    <3> QED  BY <1>0, <2>7, <3>4, SMTT(30) DEF Settle, QueuesOK
  <2> QED  BY <2>1, <2>4, <2>5, <2>6, <2>7 DEF OnConnect, OnError, Written, Logged, Woken
<1>5. CASE Ask
  BY <1>1, <1>5 DEF Ask
<1>6. CASE StoresLine
  <2>1. PICK w \in {"ok", "failed"} : Wakeup(Entry("settle", Head(lines), w))
    BY <1>6 DEF StoresLine
  <2>2. Head(lines) \in Call /\ Tail(lines) \in Seq(Call)
    BY <1>0, <1>6 DEF StoresLine, QueuesOK
  <2>3. Entry("settle", Head(lines), w) \in Entries
    BY <2>2 DEF Entry, Entries
  <2>4. ready' \in Seq(Entries)
    BY <1>0, <2>1, <2>3, WakeupIsPosted DEF QueuesOK
  <2> QED  BY <1>6, <2>2, <2>4 DEF StoresLine, QueuesOK
<1>7. ASSUME NEW c \in Call, Pool(c) \/ Client(c)
      PROVE  QueuesOK'
  <2>1. \A w \in {"ok", "failed"} :
          Entry("written", c, w) \in Entries /\ Entry("logged", c, w) \in Entries
    BY DEF Entry, Entries
  <2>2. CASE Pool(c)
    <3>1. CASE WriteStarts(c)
      BY <1>1, <3>1 DEF WriteStarts
    <3>2. CASE WriteRefused(c)
      BY <1>2, <2>1, <3>2 DEF WriteRefused
    <3>3. CASE WriteLands(c) \/ WriteFails(c)
      <4>1. UNCHANGED lines /\ \E w \in {"ok", "failed"} : Wakeup(Entry("written", c, w))
        BY <3>3 DEF WriteLands, WriteFails, WriteReturns
      <4> QED  BY <1>2, <2>1, <4>1
    <3> QED  BY <2>2, <3>1, <3>2, <3>3 DEF Pool
  <2>3. CASE Logs(c)
    BY <1>2, <2>1, <2>3 DEF Logs
  <2>4. CASE BeginCommand(c) \/ BeginRaw(c) \/ TimesOut(c) \/ Cancel(c)
    BY <1>1, <2>4 DEF BeginCommand, BeginRaw, TimesOut, Cancel
  <2> QED  BY <1>7, <2>2, <2>3, <2>4 DEF Client
<1>8. CASE Stop
  <2>1. CASE StopEnds
    <3>1. {c \in Registered : WaitsForFuture(c)} \subseteq Call
      BY DEF Registered
    <3>2. ready' \in Seq(Entries)
      BY <1>0, <2>1, <3>1, WakesWake, RangeOfConcat DEF StopEnds, FailedWakes, QueuesOK
    <3> QED  BY <2>1, <3>2 DEF StopEnds, QueuesOK
  <2>2. CASE StopBegins \/ Joined \/ JoinTimesOut \/ StopCloses \/ StopCancelsConsumer
    BY <1>1, <2>2 DEF StopBegins, Joined, JoinTimesOut, StopCloses, StopCancelsConsumer
  <2> QED  BY <1>8, <2>1, <2>2 DEF Stop
<1>9. CASE UNCHANGED vars
  BY <1>1, <1>9 DEF vars
<1> QED  BY <1>3, <1>4, <1>5, <1>6, <1>7, <1>8, <1>9 DEF Next

(* What a step may do to one part of the calls, for the steps that share it. *)

CallStates == {"uncalled", "queued", "done"} \cup InFlight

LEMMA UpdateTypes ==
  ASSUME NEW S, NEW T, NEW f \in [S -> T], NEW s, NEW v \in T
  PROVE  [f EXCEPT ![s] = v] \in [S -> T]
OBVIOUS

LEMMA TableTypes ==
  ASSUME CallsOK
  PROVE  \A s : \A n \in Call \cup {0} :
           [pending EXCEPT ![s] = n] \in [Seq1 -> 0 .. MaxCalls]
<1>1. \A n \in Call \cup {0} : n \in 0 .. MaxCalls
  BY BoundAssumption DEF Call
<1>2. pending \in [Seq1 -> 0 .. MaxCalls]
  BY DEF CallsOK
<1> QED  BY <1>1, <1>2, UpdateTypes

LEMMA LeaveTypes ==
  ASSUME CallsOK, NEW c \in Call, NEW outcome \in Outcome, Leave(c, outcome)
  PROVE  /\ pc' \in [Call -> CallStates]
         /\ answer' \in [Call -> Outcome] /\ fut' \in [Call -> Outcome]
         /\ pending' \in [Seq1 -> 0 .. MaxCalls]
<1>1. pc' \in [Call -> CallStates]
  BY DEF Leave, CallsOK, CallStates
<1>2. No("none") \in Outcome
  BY DEF Outcome, No
<1>3. answer' \in [Call -> Outcome] /\ fut' \in [Call -> Outcome]
  BY <1>2 DEF Leave, CallsOK
<1>4. pending' = pending \/ pending' = [pending EXCEPT ![seq[c]] = 0]
  BY DEF Leave, Forget
<1>5. pending \in [Seq1 -> 0 .. MaxCalls] /\ [pending EXCEPT ![seq[c]] = 0] \in [Seq1 -> 0 .. MaxCalls]
  BY TableTypes DEF CallsOK
<1> QED  BY <1>1, <1>3, <1>4, <1>5

LEMMA FailPendingTypes ==
  ASSUME CallsOK, FailPending
  PROVE  /\ fut' \in [Call -> Outcome]
         /\ pending' \in [Seq1 -> 0 .. MaxCalls]
<1>1. No("error") \in Outcome
  BY DEF Outcome, No
<1>2. fut' \in [Call -> Outcome]
  BY <1>1 DEF FailPending, CallsOK
<1>3. pending' \in [Seq1 -> 0 .. MaxCalls]
  BY BoundAssumption DEF FailPending
<1> QED  BY <1>2, <1>3

LEMMA NextSeqInRange ==
  ASSUME NEW s \in 0 .. SeqMax
  PROVE  NextSeq(s) \in Seq1
BY SeqAssumption DEF NextSeq, Seq1

LEMMA CallsKept == Types /\ Known /\ [Next]_vars => CallsOK'
<1> SUFFICES ASSUME Types, Known, [Next]_vars PROVE CallsOK'
  OBVIOUS
<1>0. StatusOK /\ QueuesOK /\ CallsOK
  BY DEF Types
<1>a. {No("none"), No("waits"), No("error"), No("timeout"), No("cancelled"), No("sent")}
        \subseteq Outcome
  BY DEF Outcome, No
<1>b. \A n \in Call : Got(n) \in Outcome
  BY DEF Outcome
<1>1. CASE UNCHANGED <<callVars, due>>
  BY <1>0, <1>1 DEF CallsOK, callVars
<1>2. CASE Reader
  <2>1. CASE ReadResponse
    BY <1>0, <2>1 DEF ReadResponse, CallsOK, callVars
  <2>2. CASE ~ReadResponse
    BY <1>1, <1>2, <2>2 DEF Reader, ReaderStops, OpenStarts, OpenFails, OpenReturns,
         OpenedTooLate, OpenedInTime, Publish, ReadFails, ReadingStops, ReaderCloses, ReaderReports
  <2> QED  BY <2>1, <2>2
<1>3. CASE RunReady
  <2>1. PICK e \in Entries :
                 /\ e \in Range(ready)
                 /\ \/ OnConnect(e) \/ OnDisconnect(e) \/ OnError(e) \/ OnBytes(e)
                    \/ Settle(e) \/ Written(e) \/ Logged(e) \/ Woken(e)
    BY <1>0, <1>3, RangeOfTail DEF RunReady, QueuesOK
  <2>2. UNCHANGED due
    BY <1>3 DEF RunReady
  <2>3. CASE OnConnect(e)
    <3>1. CASE UNCHANGED <<called, kind, pc>>
      BY <1>0, <2>2, <2>3, <3>1 DEF OnConnect, CallsOK
    <3>2. CASE /\ called < MaxCalls /\ called' = called + 1
               /\ kind' = [kind EXCEPT ![called + 1] = Ping]
               /\ pc' = [pc EXCEPT ![called + 1] = "queued"]
      <4>1. called' \in 0 .. MaxCalls
        BY <1>0, <3>2, BoundAssumption DEF CallsOK
      <4> QED  BY <1>0, <2>2, <2>3, <3>2, <4>1 DEF OnConnect, CallsOK
    <3> QED  BY <2>3, <3>1, <3>2 DEF OnConnect
  <2>4. CASE OnDisconnect(e)
    BY <1>0, <2>2, <2>4, FailPendingTypes DEF OnDisconnect, CallsOK
  <2>5. CASE OnError(e) \/ OnBytes(e)
    BY <1>1, <2>2, <2>5 DEF OnError, OnBytes
  <2>6. CASE Settle(e)
    <3>1. e.n \in Call
      BY <2>1, <2>6 DEF Settle, Entries
    <3>2. pending' \in [Seq1 -> 0 .. MaxCalls]
      <4>1. pending' = pending \/ pending' = [pending EXCEPT ![seq[e.n]] = 0]
        BY <2>6 DEF Settle
      <4>2. pending \in [Seq1 -> 0 .. MaxCalls]
        BY <1>0 DEF CallsOK
      <4>3. [pending EXCEPT ![seq[e.n]] = 0] \in [Seq1 -> 0 .. MaxCalls]
        BY <1>0, TableTypes
      <4> QED  BY <4>1, <4>2, <4>3
    <3>3. fut' \in [Call -> Outcome]
      BY <1>0, <1>a, <1>b, <2>6, <3>1, ZenonT(40) DEF Settle, CallsOK
    <3> QED  BY <1>0, <2>2, <2>6, <3>2, <3>3, SMTT(30) DEF Settle, CallsOK
  <2>7. CASE Written(e) \/ Logged(e) \/ Woken(e)
    <3>1. e.n \in Call
      BY <2>1, <2>7 DEF Written, Logged, Woken, Entries
    <3>2. UNCHANGED <<called, kind, seq, via, pooled, lastSeq>>
      BY <2>7 DEF Written, Logged, Woken, callVars
    <3>3. \/ UNCHANGED <<pc, answer, fut, pending>>
          \/ \E outcome \in Outcome : Leave(e.n, outcome)
          \/ \E s \in {"logging", "awaiting"} :
                pc' = [pc EXCEPT ![e.n] = s] /\ UNCHANGED <<answer, fut, pending>>
      <4>1. fut[e.n] \in Outcome
        BY <1>0, <3>1 DEF CallsOK
      <4>2. CASE Written(e)
        BY <1>a, <2>7, <4>2 DEF Written, Finish, callVars
      <4>3. CASE Woken(e)
        BY <4>1, <4>3 DEF Woken, Finish, callVars
      <4>4. CASE Logged(e)
        BY <1>a, <4>1, <4>4 DEF Logged, Finish, callVars
      <4> QED  BY <2>7, <4>2, <4>3, <4>4
    <3>4. CASE UNCHANGED <<pc, answer, fut, pending>>
      BY <1>0, <2>2, <3>2, <3>4 DEF CallsOK
    <3>5. CASE \E outcome \in Outcome : Leave(e.n, outcome)
      BY <1>0, <2>2, <3>1, <3>2, <3>5, LeaveTypes DEF CallsOK, CallStates
    <3>6. CASE \E s \in {"logging", "awaiting"} :
                 pc' = [pc EXCEPT ![e.n] = s] /\ UNCHANGED <<answer, fut, pending>>
      BY <1>0, <2>2, <3>1, <3>2, <3>6 DEF CallsOK, InFlight
    <3> QED  BY <3>3, <3>4, <3>5, <3>6
  <2> QED  BY <2>1, <2>3, <2>4, <2>5, <2>6, <2>7
<1>4. CASE Ask
  <2>1. called' \in 0 .. MaxCalls
    BY <1>0, <1>4, BoundAssumption DEF Ask, CallsOK
  <2>2. PICK k \in Kinds : kind' = [kind EXCEPT ![called + 1] = k]
    BY <1>4 DEF Ask
  <2>3. kind' \in [Call -> {"cmd", "raw", Ping}]
    BY <1>0, <2>2, ChoiceAssumption DEF CallsOK
  <2>4. pc' \in [Call -> CallStates]
    BY <1>0, <1>4 DEF Ask, CallsOK, CallStates
  <2> QED  BY <1>0, <1>4, <2>1, <2>3, <2>4 DEF Ask, CallsOK, CallStates
<1>5. CASE StoresLine
  BY <1>1, <1>5 DEF StoresLine
<1>6. ASSUME NEW c \in Call, Pool(c) \/ Client(c)
      PROVE  CallsOK'
  <2>1. CASE Pool(c)
    <3>1. CASE WriteStarts(c)
      <4>1. via' \in [Call -> Link]
        BY <1>0, <3>1 DEF WriteStarts, CallsOK, StatusOK
      <4> QED  BY <1>0, <3>1, <4>1 DEF WriteStarts, CallsOK
    <3>2. CASE WriteRefused(c) \/ WriteLands(c) \/ WriteFails(c)
      <4>1. UNCHANGED <<called, kind, pc, seq, fut, via, answer, lastSeq, pending>>
        BY <3>2 DEF WriteRefused, WriteLands, WriteFails, WriteReturns
      <4>2. pooled' \subseteq Call /\ due' \subseteq Call
        BY <1>0, <3>2 DEF WriteRefused, WriteLands, WriteFails, WriteReturns, CallsOK
      <4> QED  BY <1>0, <4>1, <4>2 DEF CallsOK
    <3> QED  BY <2>1, <3>1, <3>2 DEF Pool
  <2>2. CASE BeginCommand(c)
    <3>1. NextSeq(lastSeq) \in Seq1
      BY <1>0, NextSeqInRange DEF CallsOK
    <3>2. /\ lastSeq' = NextSeq(lastSeq) /\ seq' = [seq EXCEPT ![c] = NextSeq(lastSeq)]
          /\ pending' = [pending EXCEPT ![NextSeq(lastSeq)] = c]
          /\ due' \subseteq due
      BY <2>2 DEF BeginCommand
    <3>3. lastSeq' \in 0 .. SeqMax /\ seq' \in [Call -> 0 .. SeqMax]
      BY <1>0, <3>1, <3>2 DEF CallsOK, Seq1
    <3>4. pending' \in [Seq1 -> 0 .. MaxCalls]
      BY <1>0, <3>2, TableTypes
    <3>5. pc' \in [Call -> CallStates] /\ pooled' \subseteq Call
      BY <1>0, <2>2 DEF BeginCommand, CallsOK, CallStates, InFlight
    <3>6. fut' \in [Call -> Outcome]
      BY <1>0, <1>a, <2>2 DEF BeginCommand, CallsOK
    <3>7. UNCHANGED <<called, kind, via, answer>>
      BY <2>2 DEF BeginCommand
    <3> QED  BY <1>0, <3>2, <3>3, <3>4, <3>5, <3>6, <3>7 DEF CallsOK, CallStates
  <2>3. CASE BeginRaw(c)
    <3>1. pc' \in [Call -> CallStates] /\ pooled' \subseteq Call
      BY <1>0, <2>3 DEF BeginRaw, CallsOK, CallStates, InFlight
    <3> QED  BY <1>0, <2>3, <3>1 DEF BeginRaw, CallsOK, CallStates
  <2>4. CASE TimesOut(c) \/ Cancel(c)
    <3>1. \E outcome \in Outcome : Leave(c, outcome)
      BY <1>a, <2>4 DEF TimesOut, Cancel
    <3>2. UNCHANGED <<called, kind, seq, via, lastSeq, due>> /\ pooled' \subseteq pooled
      BY <2>4 DEF TimesOut, Cancel
    <3> QED  BY <1>0, <3>1, <3>2, LeaveTypes DEF CallsOK, CallStates
  <2>5. CASE Logs(c)
    BY <1>1, <2>5 DEF Logs
  <2> QED  BY <1>6, <2>1, <2>2, <2>3, <2>4, <2>5 DEF Client
<1>7. CASE Stop
  <2>1. CASE StopEnds
    BY <1>0, <2>1, FailPendingTypes DEF StopEnds, CallsOK
  <2>2. CASE StopBegins \/ Joined \/ JoinTimesOut \/ StopCloses \/ StopCancelsConsumer
    BY <1>1, <2>2 DEF StopBegins, Joined, JoinTimesOut, StopCloses, StopCancelsConsumer
  <2> QED  BY <1>7, <2>1, <2>2 DEF Stop
<1>8. CASE UNCHANGED vars
  BY <1>1, <1>8 DEF vars, callVars
<1> QED  BY <1>2, <1>3, <1>4, <1>5, <1>6, <1>7, <1>8 DEF Next

-------------------------------------------------------------------------------
(* The handle, the write lock and the write streak. *)

LEMMA RunReadyLeaves ==
  RunReady => UNCHANGED <<readerVars, linkVars, stopPc, due, via, pooled, called, kind, seq, lastSeq>>
              \/ \E e : OnConnect(e) /\ UNCHANGED <<readerVars, linkVars, stopPc, due, via, pooled>>
<1> SUFFICES ASSUME RunReady
             PROVE  UNCHANGED <<readerVars, linkVars, stopPc, due, via, pooled, called, kind, seq, lastSeq>>
                    \/ \E e : OnConnect(e) /\ UNCHANGED <<readerVars, linkVars, stopPc, due, via, pooled>>
  OBVIOUS
<1>1. PICK e : \/ OnConnect(e) \/ OnDisconnect(e) \/ OnError(e) \/ OnBytes(e)
               \/ Settle(e) \/ Written(e) \/ Logged(e) \/ Woken(e)
  BY DEF RunReady
<1>2. UNCHANGED <<readerVars, linkVars, stopPc, due>>
  BY DEF RunReady
<1>3. CASE OnConnect(e)
  BY <1>2, <1>3 DEF OnConnect
<1>4. CASE OnDisconnect(e) \/ OnError(e) \/ OnBytes(e) \/ Settle(e)
  BY <1>2, <1>4 DEF OnDisconnect, OnError, OnBytes, Settle, callVars
<1>5. CASE Written(e) \/ Logged(e) \/ Woken(e)
  BY <1>2, <1>5 DEF Written, Logged, Woken, callVars
<1> QED  BY <1>1, <1>3, <1>4, <1>5

LEMMA StoppedKept == Stopped /\ Handed /\ [Next]_vars => Stopped'
<1> SUFFICES ASSUME Stopped, Handed, [Next]_vars PROVE Stopped'
  OBVIOUS
<1> USE DEF Stopped, readerVars, linkVars
<1>1. CASE UNCHANGED <<stopping, stopPc, rpc>>
  BY <1>1
<1>2. CASE Reader
  BY <1>2 DEF Reader, ReaderStops, OpenStarts, OpenFails, OpenReturns, OpenedTooLate,
       OpenedInTime, Publish, ReadResponse, ReadFails, ReadingStops, ReaderCloses, CloseLocked,
       ReaderReports
<1>3. CASE Stop
  <2>1. CASE JoinTimesOut
    <3>1. UNCHANGED <<stopping, rpc>> /\ (link = 0 => stopPc' = "ending") /\ stopPc = "joining"
      BY <2>1 DEF JoinTimesOut
    <3>2. link # 0 => rpc \in {"reading", "closing"}
      BY DEF Handed
    <3> QED  BY <3>1, <3>2
  <2>3. CASE StopBegins \/ Joined
    BY <2>3 DEF StopBegins, Joined
  <2>2. CASE StopCloses \/ StopCancelsConsumer \/ StopEnds
    BY <2>2 DEF StopCloses, CloseLocked, StopCancelsConsumer, StopEnds
  <2> QED  BY <1>3, <2>1, <2>2, <2>3 DEF Stop
<1>4. CASE RunReady
  BY <1>1, <1>4, RunReadyLeaves
<1>5. CASE Ask \/ StoresLine
  BY <1>1, <1>5 DEF Ask, StoresLine
<1>6. ASSUME NEW c \in Call, Pool(c) \/ Client(c)
      PROVE  Stopped'
  BY <1>1, <1>6 DEF Pool, WriteRefused, WriteStarts, WriteLands, WriteFails, WriteReturns,
       Client, BeginCommand, BeginRaw, TimesOut, Cancel, Logs
<1>7. CASE UNCHANGED vars
  BY <1>1, <1>7 DEF vars
<1> QED  BY <1>2, <1>3, <1>4, <1>5, <1>6, <1>7 DEF Next

LEMMA HandedKept == StatusOK /\ Stopped /\ Handed /\ [Next]_vars => Handed'
<1> SUFFICES ASSUME StatusOK, Stopped, Handed, [Next]_vars PROVE Handed'
  OBVIOUS
<1> USE DEF Handed, readerVars, linkVars
<1>1. CASE UNCHANGED <<rpc, mine, open, link>>
  BY <1>1
<1>2. CASE Reader
  <2>1. CASE OpenReturns
    BY <2>1 DEF OpenReturns, StatusOK, Link
  <2>2. CASE ReaderCloses
    BY <2>2 DEF ReaderCloses, CloseLocked
  <2>3. CASE ReaderStops \/ OpenStarts \/ OpenFails \/ OpenedTooLate \/ OpenedInTime \/ Publish
    BY <2>3 DEF ReaderStops, OpenStarts, OpenFails, OpenedTooLate, OpenedInTime, Publish
  <2>4. CASE ReadResponse \/ ReadFails \/ ReadingStops \/ ReaderReports
    BY <2>4 DEF ReadResponse, ReadFails, ReadingStops, ReaderReports
  <2> QED  BY <1>2, <2>1, <2>2, <2>3, <2>4 DEF Reader
<1>3. CASE Stop
  <2>1. CASE StopCloses
    BY <2>1 DEF StopCloses, CloseLocked, Stopped
  <2>2. CASE StopBegins \/ Joined \/ JoinTimesOut \/ StopCancelsConsumer \/ StopEnds
    BY <1>1, <2>2 DEF StopBegins, Joined, JoinTimesOut, StopCancelsConsumer, StopEnds
  <2> QED  BY <1>3, <2>1, <2>2 DEF Stop
<1>4. CASE RunReady
  BY <1>1, <1>4, RunReadyLeaves
<1>5. CASE Ask \/ StoresLine
  BY <1>1, <1>5 DEF Ask, StoresLine
<1>6. ASSUME NEW c \in Call, Pool(c) \/ Client(c)
      PROVE  Handed'
  BY <1>1, <1>6 DEF Pool, WriteRefused, WriteStarts, WriteLands, WriteFails, WriteReturns,
       Client, BeginCommand, BeginRaw, TimesOut, Cancel, Logs
<1>7. CASE UNCHANGED vars
  BY <1>1, <1>7 DEF vars
<1> QED  BY <1>2, <1>3, <1>4, <1>5, <1>6, <1>7 DEF Next

LEMMA LockedKept == StatusOK /\ CallsOK /\ Handed /\ Locked /\ [Next]_vars => Locked'
<1> SUFFICES ASSUME StatusOK, CallsOK, Handed, Locked, [Next]_vars PROVE Locked'
  OBVIOUS
<1> USE DEF Locked, readerVars, linkVars
<1>1. CASE UNCHANGED <<lock, link, via>> /\ (lock # 0 => lock \in pooled')
  BY <1>1
<1>2. CASE UNCHANGED <<lock, link, via, pooled>>
  BY <1>2
<1>3. CASE Reader
  <2>1. CASE ReaderCloses
    BY <2>1 DEF ReaderCloses, CloseLocked
  <2>2. CASE Publish
    BY <2>2 DEF Publish, Handed
  <2>3. CASE ReaderStops \/ OpenStarts \/ OpenFails \/ OpenReturns \/ OpenedTooLate \/ OpenedInTime
    BY <1>2, <2>3 DEF ReaderStops, OpenStarts, OpenFails, OpenReturns, OpenedTooLate, OpenedInTime,
         callVars
  <2>4. CASE ReadResponse \/ ReadFails \/ ReadingStops \/ ReaderReports
    BY <1>2, <2>4 DEF ReadResponse, ReadFails, ReadingStops, ReaderReports, callVars
  <2> QED  BY <1>3, <2>1, <2>2, <2>3, <2>4 DEF Reader
<1>4. CASE Stop
  <2>1. CASE StopCloses
    BY <2>1 DEF StopCloses, CloseLocked
  <2>2. CASE StopBegins \/ Joined \/ JoinTimesOut \/ StopCancelsConsumer \/ StopEnds
    BY <1>2, <2>2 DEF StopBegins, Joined, JoinTimesOut, StopCancelsConsumer, StopEnds, callVars
  <2> QED  BY <1>4, <2>1, <2>2 DEF Stop
<1>5. CASE RunReady
  BY <1>2, <1>5, RunReadyLeaves
<1>6. CASE Ask \/ StoresLine
  BY <1>2, <1>6 DEF Ask, StoresLine, callVars
<1>7. ASSUME NEW c \in Call, Pool(c) \/ Client(c)
      PROVE  Locked'
  <2>1. CASE WriteStarts(c)
    BY <2>1 DEF WriteStarts, CallsOK
  <2>2. CASE WriteRefused(c) \/ WriteLands(c) \/ WriteFails(c)
    BY <2>2 DEF WriteRefused, WriteLands, WriteFails, WriteReturns
  <2>3. CASE BeginCommand(c) \/ BeginRaw(c)
    BY <1>1, <2>3 DEF BeginCommand, BeginRaw
  <2>4. CASE TimesOut(c) \/ Cancel(c)
    BY <1>1, <2>4 DEF TimesOut, Cancel
  <2>5. CASE Logs(c)
    BY <1>2, <2>5 DEF Logs, callVars
  <2> QED  BY <1>7, <2>1, <2>2, <2>3, <2>4, <2>5 DEF Pool, Client
<1>8. CASE UNCHANGED vars
  BY <1>2, <1>8 DEF vars, callVars
<1> QED  BY <1>3, <1>4, <1>5, <1>6, <1>7, <1>8 DEF Next

LEMMA StreakKept == Handed /\ Locked /\ HealthIsOfTheLink /\ [Next]_vars => HealthIsOfTheLink'
<1> SUFFICES ASSUME Handed, Locked, HealthIsOfTheLink, [Next]_vars PROVE HealthIsOfTheLink'
  OBVIOUS
<1> USE DEF HealthIsOfTheLink, readerVars, linkVars
<1>1. CASE UNCHANGED <<failing, link>>
  BY <1>1
<1>2. ASSUME NEW l, CloseLocked(l) PROVE HealthIsOfTheLink'
  BY <1>2 DEF CloseLocked
<1>3. CASE Reader
  <2>1. CASE ReaderCloses
    BY <1>2, <2>1 DEF ReaderCloses
  <2>2. CASE Publish
    BY <2>2 DEF Publish, Handed
  <2>3. CASE ReaderStops \/ OpenStarts \/ OpenFails \/ OpenReturns \/ OpenedTooLate \/ OpenedInTime
    BY <1>1, <2>3 DEF ReaderStops, OpenStarts, OpenFails, OpenReturns, OpenedTooLate, OpenedInTime
  <2>4. CASE ReadResponse \/ ReadFails \/ ReadingStops \/ ReaderReports
    BY <1>1, <2>4 DEF ReadResponse, ReadFails, ReadingStops, ReaderReports
  <2> QED  BY <1>3, <2>1, <2>2, <2>3, <2>4 DEF Reader
<1>4. CASE Stop
  <2>1. CASE StopCloses
    BY <1>2, <2>1 DEF StopCloses
  <2>2. CASE StopBegins \/ Joined \/ JoinTimesOut \/ StopCancelsConsumer \/ StopEnds
    BY <1>1, <2>2 DEF StopBegins, Joined, JoinTimesOut, StopCancelsConsumer, StopEnds
  <2> QED  BY <1>4, <2>1, <2>2 DEF Stop
<1>5. CASE RunReady
  BY <1>1, <1>5, RunReadyLeaves
<1>6. CASE Ask \/ StoresLine
  BY <1>1, <1>6 DEF Ask, StoresLine
<1>7. ASSUME NEW c \in Call, Pool(c) \/ Client(c)
      PROVE  HealthIsOfTheLink'
  <2>1. CASE WriteLands(c)
    BY <2>1 DEF WriteLands, WriteReturns
  <2>2. CASE WriteFails(c)
    <3>1. c # 0 /\ lock = c
      BY <2>2 DEF WriteFails, WriteReturns, Call
    <3>2. link # 0 /\ link' = link
      BY <2>2, <3>1 DEF WriteFails, WriteReturns, Locked
    <3> QED  BY <3>2
  <2>3. CASE WriteRefused(c) \/ WriteStarts(c)
    BY <1>1, <2>3 DEF WriteRefused, WriteStarts
  <2>4. CASE Client(c)
    BY <1>1, <2>4 DEF Client, BeginCommand, BeginRaw, TimesOut, Cancel, Logs
  <2> QED  BY <1>7, <2>1, <2>2, <2>3, <2>4 DEF Pool
<1>8. CASE UNCHANGED vars
  BY <1>1, <1>8 DEF vars
<1> QED  BY <1>3, <1>4, <1>5, <1>6, <1>7, <1>8 DEF Next

-------------------------------------------------------------------------------
(* Calls: what a step of the specification may do to them, in eight ways. *)

Quiet ==
  /\ UNCHANGED <<called, kind, pc, seq, fut, answer, pending>>
  /\ pooled' \subseteq pooled

Comes ==
  /\ called < MaxCalls /\ called' = called + 1
  /\ \E k \in {"cmd", "raw", Ping} : kind' = [kind EXCEPT ![called + 1] = k]
  /\ pc' = [pc EXCEPT ![called + 1] = "queued"]
  /\ UNCHANGED <<seq, fut, answer, pending, pooled>>

Moves(c) ==
  /\ pc[c] \in InFlight
  /\ \E s \in {"logging", "awaiting"} : pc' = [pc EXCEPT ![c] = s]
  /\ UNCHANGED <<called, kind, seq, fut, answer, pending, pooled>>

Leaves(c) ==
  /\ pc[c] = "queued" \/ pc[c] \in InFlight
  /\ \E outcome \in Outcome : (outcome.k # "resp" \/ outcome = fut[c]) /\ Leave(c, outcome)
  /\ UNCHANGED <<called, kind, seq>>
  /\ pooled' \subseteq pooled

Settles(n) ==
  /\ n \in Arriving
  /\ pending[seq[n]] # 0
  /\ pending' = [pending EXCEPT ![seq[n]] = 0]
  /\ \/ fut[pending[seq[n]]].k # "waits" /\ fut' = fut
     \/ \E outcome \in {Got(n), No("error")} : fut' = [fut EXCEPT ![pending[seq[n]]] = outcome]
  /\ UNCHANGED <<called, kind, pc, seq, answer, pooled>>

Fails == FailPending /\ UNCHANGED <<called, kind, pc, seq, answer, pooled>>

CallStep ==
  \/ Quiet \/ Comes \/ Fails
  \/ \E c \in Call : BeginCommand(c) \/ BeginRaw(c) \/ Moves(c) \/ Leaves(c) \/ Settles(c)

LEMMA NextIsCallStep == Types /\ [Next]_vars => CallStep
<1> SUFFICES ASSUME Types, [Next]_vars PROVE CallStep
  OBVIOUS
<1>0. StatusOK /\ QueuesOK /\ CallsOK
  BY DEF Types
<1>a. {No("none"), No("waits"), No("error"), No("timeout"), No("cancelled"), No("sent")}
        \subseteq Outcome
  BY DEF Outcome, No
<1>b. No("error").k # "resp" /\ No("timeout").k # "resp" /\ No("cancelled").k # "resp"
        /\ No("sent").k # "resp"
  BY DEF No
<1>1. CASE UNCHANGED callVars
  BY <1>1 DEF callVars, CallStep, Quiet
<1>2. CASE Reader
  BY <1>1, <1>2 DEF Reader, ReaderStops, OpenStarts, OpenFails, OpenReturns, OpenedTooLate,
       OpenedInTime, Publish, ReadResponse, ReadFails, ReadingStops, ReaderCloses, ReaderReports
<1>3. CASE RunReady
  <2>1. PICK e \in Entries :
                 /\ e \in Range(ready)
                 /\ \/ OnConnect(e) \/ OnDisconnect(e) \/ OnError(e) \/ OnBytes(e)
                    \/ Settle(e) \/ Written(e) \/ Logged(e) \/ Woken(e)
    BY <1>0, <1>3, RangeOfTail DEF RunReady, QueuesOK
  <2>2. CASE OnConnect(e)
    <3>1. CASE UNCHANGED <<called, kind, pc>>
      BY <2>2, <3>1 DEF OnConnect, CallStep, Quiet
    <3>2. CASE ~UNCHANGED <<called, kind, pc>>
      <4>1. Comes
        BY <2>2, <3>2 DEF OnConnect, Comes
      <4> QED  BY <4>1 DEF CallStep
    <3> QED  BY <3>1, <3>2
  <2>3. CASE OnDisconnect(e)
    BY <2>3 DEF OnDisconnect, CallStep, Fails
  <2>4. CASE OnError(e) \/ OnBytes(e)
    BY <1>1, <2>4 DEF OnError, OnBytes
  <2>5. CASE Settle(e)
    <3>1. e.n \in Call /\ e.n \in Arriving
      BY <2>1, <2>5 DEF Settle, Entries, Arriving
    <3>2. UNCHANGED <<called, kind, pc, seq, answer, pooled>>
      BY <2>5 DEF Settle
    <3>3. CASE UNCHANGED <<pending, fut>>
      BY <3>2, <3>3 DEF CallStep, Quiet
    <3>4. CASE ~UNCHANGED <<pending, fut>>
      <4>1. pending[seq[e.n]] # 0 /\ pending' = [pending EXCEPT ![seq[e.n]] = 0]
        BY <2>5, <3>4 DEF Settle
      <4>2. fut' = IF fut[pending[seq[e.n]]].k = "waits"
                   THEN [fut EXCEPT ![pending[seq[e.n]]] =
                           IF e.w = "ok" THEN Got(e.n) ELSE No("error")]
                   ELSE fut
        BY <2>5, <3>4 DEF Settle
      <4>3. \/ fut[pending[seq[e.n]]].k # "waits" /\ fut' = fut
            \/ \E outcome \in {Got(e.n), No("error")} :
                 fut' = [fut EXCEPT ![pending[seq[e.n]]] = outcome]
        BY <4>2
      <4>4. Settles(e.n)
        BY <3>1, <3>2, <4>1, <4>3 DEF Settles
      <4> QED  BY <3>1, <4>4 DEF CallStep
    <3> QED  BY <3>3, <3>4, SMTT(30)
  <2>6. CASE Written(e) \/ Logged(e) \/ Woken(e)
    <3>1. e.n \in Call
      BY <2>1, <2>6 DEF Written, Logged, Woken, Entries
    <3>2. UNCHANGED <<called, kind, seq, pooled>>
      BY <2>6 DEF Written, Logged, Woken, callVars
    <3>3. fut[e.n] \in Outcome
      BY <1>0, <3>1 DEF CallsOK
    <3>4. CASE UNCHANGED callVars
      BY <1>1, <3>4
    <3>5. CASE ~UNCHANGED callVars
      <4>1. pc[e.n] \in InFlight
        BY <2>6, <3>5 DEF Written, Logged, Woken, InFlight
      <4>2. CASE Written(e)
        <5>1. \/ pc' = [pc EXCEPT ![e.n] = "logging"] /\ UNCHANGED <<answer, fut, pending>>
              \/ Leave(e.n, No("error"))
          BY <3>5, <4>2 DEF Written, Finish
        <5>2. Moves(e.n) \/ Leaves(e.n)
          BY <1>a, <1>b, <3>2, <4>1, <5>1 DEF Moves, Leaves
        <5> QED  BY <3>1, <5>2 DEF CallStep
      <4>3. CASE Woken(e)
        <5>1. Leave(e.n, fut[e.n])
          BY <3>5, <4>3 DEF Woken, Finish
        <5>2. Leaves(e.n)
          BY <3>2, <3>3, <4>1, <5>1 DEF Leaves
        <5> QED  BY <3>1, <5>2 DEF CallStep
      <4>4. CASE Logged(e)
        <5>1. \/ Leave(e.n, No("error")) \/ Leave(e.n, No("sent")) \/ Leave(e.n, fut[e.n])
              \/ pc' = [pc EXCEPT ![e.n] = "awaiting"] /\ UNCHANGED <<answer, fut, pending>>
          BY <3>5, <4>4 DEF Logged, Finish
        <5>2. Moves(e.n) \/ Leaves(e.n)
          BY <1>a, <1>b, <3>2, <3>3, <4>1, <5>1 DEF Moves, Leaves
        <5> QED  BY <3>1, <5>2 DEF CallStep
      <4> QED  BY <2>6, <4>2, <4>3, <4>4
    <3> QED  BY <3>4, <3>5
  <2> QED  BY <2>1, <2>2, <2>3, <2>4, <2>5, <2>6
<1>4. CASE Ask
  <2>1. Comes
    BY <1>4, ChoiceAssumption DEF Ask, Comes
  <2> QED  BY <2>1 DEF CallStep
<1>5. CASE StoresLine
  BY <1>1, <1>5 DEF StoresLine
<1>6. ASSUME NEW c \in Call, Pool(c) \/ Client(c)
      PROVE  CallStep
  <2>1. CASE Pool(c)
    <3>1. Quiet
      BY <2>1 DEF Pool, WriteStarts, WriteRefused, WriteLands, WriteFails, WriteReturns, Quiet
    <3> QED  BY <3>1 DEF CallStep
  <2>2. CASE BeginCommand(c) \/ BeginRaw(c)
    BY <2>2 DEF CallStep
  <2>3. CASE TimesOut(c)
    <3>1. Leaves(c)
      BY <1>a, <1>b, <2>3 DEF TimesOut, Leaves, InFlight
    <3> QED  BY <3>1 DEF CallStep
  <2>4. CASE Cancel(c)
    <3>1. Leaves(c)
      BY <1>a, <1>b, <2>4 DEF Cancel, Leaves, Queued
    <3> QED  BY <3>1 DEF CallStep
  <2>5. CASE Logs(c)
    BY <1>1, <2>5 DEF Logs
  <2> QED  BY <1>6, <2>1, <2>2, <2>3, <2>4, <2>5 DEF Client
<1>7. CASE Stop
  <2>1. CASE StopEnds
    BY <2>1 DEF StopEnds, CallStep, Fails
  <2>2. CASE StopBegins \/ Joined \/ JoinTimesOut \/ StopCloses \/ StopCancelsConsumer
    BY <1>1, <2>2 DEF StopBegins, Joined, JoinTimesOut, StopCloses, StopCancelsConsumer
  <2> QED  BY <1>7, <2>1, <2>2 DEF Stop
<1>8. CASE UNCHANGED vars
  BY <1>1, <1>8 DEF vars
<1> QED  BY <1>2, <1>3, <1>4, <1>5, <1>6, <1>7, <1>8 DEF Next

-------------------------------------------------------------------------------
(* The invariant of the calls. A call that has not begun has nothing, a raw    *)
(* write has no seq, and a command under way has one.                          *)
FreshCall(c) ==
  /\ c > called => pc[c] = "uncalled"
  /\ pc[c] \in {"uncalled", "queued"} => seq[c] = 0 /\ fut[c] = No("none") /\ c \notin pooled
  /\ kind[c] = "raw" => seq[c] = 0 /\ fut[c] = No("none")
  /\ kind[c] # "raw" /\ (c \in pooled \/ pc[c] \in InFlight) => seq[c] # 0

Fresh == \A c \in Call : FreshCall(c)

(* The command lock has one holder. *)
Alone ==
  \A c, d \in Call :
    pc[c] \in InFlight /\ pc[d] \in InFlight /\ kind[c] # "raw" /\ kind[d] # "raw" => c = d

(* Nothing that may yet come in has the seq of the command under way but that  *)
(* command itself.                                                             *)
Coming == Arriving \cup pooled \cup due

Unmistakable ==
  \A c \in Call : pc[c] \in InFlight /\ kind[c] # "raw" =>
    \A n \in Coming : seq[n] = seq[c] => n = c

FutMatches == \A c \in Call : fut[c].k = "resp" => fut[c].of = c

LEMMA TableRow ==
  ASSUME CallsOK, PendingExact, NEW s, pending[s] # 0, s \in Seq1
  PROVE  /\ pending[s] \in Call /\ seq[pending[s]] = s
         /\ pc[pending[s]] \in InFlight /\ fut[pending[s]].k = "waits"
BY DEF CallsOK, PendingExact, Call

LEMMA SettledRow ==
  ASSUME Types, Known, PendingExact, NEW n \in Call, Settles(n)
  PROVE  /\ seq[n] \in Seq1
         /\ pending[seq[n]] \in Call /\ seq[pending[seq[n]]] = seq[n]
         /\ pc[pending[seq[n]]] \in InFlight /\ fut[pending[seq[n]]].k = "waits"
<1>1. seq[n] # 0
  BY DEF Settles, Known
<1>2. seq[n] \in Seq1
  BY <1>1 DEF Types, CallsOK, Seq1
<1> QED  BY <1>2, TableRow DEF Types, Settles

LEMMA NoneIsNoWait == No("none").k # "waits" /\ No("none").k # "resp"
BY DEF No

LEMMA FreshKept ==
  ASSUME Types, Fresh, Known, PendingExact, CallStep
  PROVE  Fresh'
<1>0. CallsOK
  BY DEF Types
<1> SUFFICES ASSUME NEW d \in Call PROVE FreshCall(d)'
  BY DEF Fresh
<1>a. FreshCall(d)
  BY DEF Fresh
<1> USE DEF FreshCall
<1>1. CASE Quiet
  BY <1>a, <1>1 DEF Quiet
<1>2. CASE Comes
  <2>1. called \in Nat /\ called + 1 \in Call
    <3>1. called \in 0 .. MaxCalls /\ called < MaxCalls
      BY <1>0, <1>2 DEF Comes, CallsOK
    <3> QED  BY <3>1, BoundAssumption DEF Call
  <2>2. pc[called + 1] = "uncalled"
    BY <2>1 DEF Fresh
  <2>3. CASE d = called + 1
    <3>1. pc'[d] = "queued" /\ called' = d
      BY <1>0, <1>2, <2>1, <2>3 DEF Comes, CallsOK
    <3>2. seq[d] = 0 /\ fut[d] = No("none") /\ d \notin pooled
      BY <1>a, <2>2, <2>3
    <3> QED  BY <1>2, <3>1, <3>2 DEF Comes, InFlight, Call
  <2>4. CASE d # called + 1
    <3>1. pc'[d] = pc[d] /\ kind'[d] = kind[d]
      BY <1>0, <1>2, <2>4 DEF Comes, CallsOK
    <3>2. d > called' => d > called
      BY <1>2, <2>1 DEF Comes, Call
    <3> QED  BY <1>a, <1>2, <3>1, <3>2 DEF Comes
  <2> QED  BY <2>3, <2>4
<1>3. CASE Fails
  <2>1. fut'[d] = fut[d] \/ fut[d].k = "waits"
    BY <1>3 DEF Fails, FailPending
  <2> QED  BY <1>a, <1>3, <2>1, NoneIsNoWait DEF Fails
<1>4. ASSUME NEW c \in Call, BeginCommand(c) \/ BeginRaw(c)
      PROVE  FreshCall(d)'
  <2>1. pc[c] = "queued" /\ called' = called /\ kind' = kind
    BY <1>4 DEF BeginCommand, BeginRaw, NextInLine, Queued
  <2>2. CASE d # c
    <3>1. pc'[d] = pc[d] /\ seq'[d] = seq[d] /\ fut'[d] = fut[d] /\ (d \in pooled' => d \in pooled)
      BY <1>0, <1>4, <2>2 DEF BeginCommand, BeginRaw, CallsOK
    <3> QED  BY <1>a, <2>1, <3>1
  <2>3. CASE d = c /\ BeginCommand(c)
    <3>1. pc'[d] = "writing" /\ kind[d] # "raw"
      BY <1>0, <2>3 DEF BeginCommand, CallsOK
    <3>2. NextSeq(lastSeq) # 0
      BY <1>0, NextSeqInRange DEF CallsOK, Seq1
    <3>3. seq'[d] # 0
      BY <1>0, <2>3, <3>2 DEF BeginCommand, CallsOK
    <3> QED  BY <1>a, <2>1, <2>3, <3>1, <3>3 DEF InFlight
  <2>4. CASE d = c /\ BeginRaw(c)
    <3>1. pc'[d] = "writing" /\ kind[d] = "raw" /\ seq' = seq /\ fut' = fut
      BY <1>0, <2>4 DEF BeginRaw, CallsOK
    <3> QED  BY <1>a, <2>1, <2>4, <3>1
  <2> QED  BY <1>4, <2>2, <2>3, <2>4
<1>5. ASSUME NEW c \in Call, Moves(c)
      PROVE  FreshCall(d)'
  <2>1. pc'[d] = pc[d] \/ (pc[d] \in InFlight /\ pc'[d] \in InFlight)
    BY <1>0, <1>5 DEF Moves, CallsOK, InFlight
  <2> QED  BY <1>a, <1>5, <2>1 DEF Moves, InFlight
<1>6. ASSUME NEW c \in Call, Leaves(c)
      PROVE  FreshCall(d)'
  <2>1. /\ pc'[d] = pc[d] \/ (pc'[d] = "done" /\ ~(d > called))
        /\ fut'[d] = fut[d] \/ fut'[d] = No("none")
    <3>1. CASE d = c
      BY <1>0, <1>6, <1>a, <3>1 DEF Leaves, Leave, CallsOK, InFlight
    <3>2. CASE d # c
      BY <1>0, <1>6, <3>2 DEF Leaves, Leave, CallsOK
    <3> QED  BY <3>1, <3>2
  <2> QED  BY <1>a, <1>6, <2>1 DEF Leaves, InFlight
<1>7. ASSUME NEW c \in Call, Settles(c)
      PROVE  FreshCall(d)'
  <2>1. fut'[d] = fut[d] \/ d = pending[seq[c]]
    BY <1>0, <1>7 DEF Settles, CallsOK
  <2>2. d = pending[seq[c]] => fut[d].k = "waits" /\ pc[d] \in InFlight
    BY <1>7, SettledRow
  <2>3. fut'[d] = fut[d] \/ (kind[d] # "raw" /\ pc[d] \notin {"uncalled", "queued"})
    BY <1>a, <2>1, <2>2, NoneIsNoWait DEF InFlight
  <2> QED  BY <1>a, <1>7, <2>3 DEF Settles
<1> QED  BY <1>1, <1>2, <1>3, <1>4, <1>5, <1>6, <1>7 DEF CallStep

(* A command begins when no other command is under way. *)
LEMMA BeginsAlone ==
  ASSUME NEW c \in Call, BeginCommand(c)
  PROVE  /\ pc[c] = "queued" /\ kind[c] # "raw"
         /\ \A d \in Call \ {c} : pc[d] \in InFlight => kind[d] = "raw"
BY DEF BeginCommand, NextInLine, Queued, HasLock, LockOf

LEMMA ComesQueued ==
  ASSUME CallsOK, Fresh, Comes
  PROVE  \E n \in Call :
           /\ pc[n] = "uncalled" /\ pc' = [pc EXCEPT ![n] = "queued"]
           /\ \A d \in Call \ {n} : kind'[d] = kind[d]
<1>1. called \in 0 .. MaxCalls /\ called < MaxCalls
  BY DEF Comes, CallsOK
<1>2. called + 1 \in Call /\ called + 1 > called
  BY <1>1, BoundAssumption DEF Call
<1>3. pc[called + 1] = "uncalled"
  BY <1>2 DEF Fresh, FreshCall
<1>4. \A d \in Call \ {called + 1} : kind'[d] = kind[d]
  BY DEF Comes, CallsOK
<1> QED  BY <1>2, <1>3, <1>4 DEF Comes

LEMMA AloneKept ==
  ASSUME CallsOK, Fresh, Alone, CallStep
  PROVE  Alone'
<1> SUFFICES ASSUME NEW c \in Call, NEW d \in Call,
                    pc'[c] \in InFlight, pc'[d] \in InFlight,
                    kind'[c] # "raw", kind'[d] # "raw"
             PROVE  c = d
  BY DEF Alone
<1>1. ASSUME UNCHANGED kind, \A e \in Call : pc'[e] \in InFlight => pc[e] \in InFlight
      PROVE  c = d
  BY <1>1 DEF Alone
<1>2. CASE Quiet \/ Fails
  BY <1>1, <1>2 DEF Quiet, Fails
<1>3. CASE Comes
  <2>1. PICK n \in Call :
           /\ pc[n] = "uncalled" /\ pc' = [pc EXCEPT ![n] = "queued"]
           /\ \A e \in Call \ {n} : kind'[e] = kind[e]
    BY <1>3, ComesQueued
  <2>2. c # n /\ d # n
    BY <2>1 DEF CallsOK, InFlight
  <2> QED  BY <2>1, <2>2 DEF CallsOK, Alone
<1>4. ASSUME NEW e \in Call, BeginCommand(e)
      PROVE  c = d
  <2>1. \A x \in Call \ {e} : pc'[x] = pc[x] /\ kind' = kind
    BY <1>4 DEF BeginCommand, CallsOK
  <2> QED  BY <1>4, <2>1, BeginsAlone
<1>5. ASSUME NEW e \in Call, BeginRaw(e)
      PROVE  c = d
  <2>1. \A x \in Call \ {e} : pc'[x] = pc[x] /\ kind' = kind
    BY <1>5 DEF BeginRaw, CallsOK
  <2>2. kind[e] = "raw"
    BY <1>5 DEF BeginRaw
  <2> QED  BY <2>1, <2>2 DEF Alone
<1>6. ASSUME NEW e \in Call, Moves(e)
      PROVE  c = d
  BY <1>1, <1>6 DEF Moves, CallsOK
<1>7. ASSUME NEW e \in Call, Leaves(e)
      PROVE  c = d
  BY <1>1, <1>7 DEF Leaves, Leave, CallsOK, InFlight
<1>8. ASSUME NEW e \in Call, Settles(e)
      PROVE  c = d
  BY <1>1, <1>8 DEF Settles
<1> QED  BY <1>2, <1>3, <1>4, <1>5, <1>6, <1>7, <1>8 DEF CallStep

RowIsCall(s) ==
  pending[s] # 0 =>
    /\ seq[pending[s]] = s /\ pc[pending[s]] \in InFlight
    /\ fut[pending[s]].k = "waits"

CallHasRow(c) == pc[c] \in InFlight /\ fut[c].k = "waits" => pending[seq[c]] = c

LEMMA PendingKept ==
  ASSUME Types, CallsOK', Fresh, Alone, Known, PendingExact, CallStep
  PROVE  PendingExact'
<1>0. CallsOK
  BY DEF Types
<1>z. CASE Call = {}
  <2>1. \A s \in Seq1 : pending'[s] \in 0 .. MaxCalls
    BY DEF CallsOK
  <2>2. \A s \in Seq1 : pending'[s] = 0
    BY <1>z, <2>1 DEF Call
  <2> QED  BY <1>z, <2>2 DEF PendingExact
<1>y. 1 \in Seq1
  BY SeqAssumption DEF Seq1
<1> SUFFICES ASSUME NEW s \in Seq1, NEW c \in Call PROVE RowIsCall(s)' /\ CallHasRow(c)'
  BY <1>y, <1>z DEF PendingExact, RowIsCall, CallHasRow
<1>a. RowIsCall(s) /\ CallHasRow(c) /\ FreshCall(c)
  BY DEF PendingExact, RowIsCall, CallHasRow, Fresh
<1> USE DEF RowIsCall, CallHasRow
<1>b. pending[s] # 0 => pending[s] \in Call
  BY <1>0 DEF CallsOK, Call
<1>1. CASE Quiet
  BY <1>a, <1>1 DEF Quiet
<1>2. CASE Comes
  <2>1. PICK n \in Call : pc[n] = "uncalled" /\ pc' = [pc EXCEPT ![n] = "queued"]
    BY <1>0, <1>2, ComesQueued
  <2>2. pending[s] # 0 => pending[s] # n
    BY <1>a, <2>1 DEF InFlight
  <2>3. RowIsCall(s)'
    BY <1>0, <1>a, <1>b, <1>2, <2>1, <2>2 DEF Comes, CallsOK
  <2>4. CallHasRow(c)'
    BY <1>0, <1>a, <1>2, <2>1 DEF Comes, CallsOK, InFlight
  <2> QED  BY <2>3, <2>4
<1>3. CASE Fails
  <2>1. pending'[s] = 0
    BY <1>3 DEF Fails, FailPending
  <2>2. ASSUME pc[c] \in InFlight, fut[c].k = "waits"
        PROVE  fut'[c].k = "error"
    <3>1. seq[c] \in Seq1
      BY <1>0, <1>a, <2>2, NoneIsNoWait DEF FreshCall, CallsOK, Seq1
    <3>2. c \in Registered
      BY <1>a, <2>2, <3>1 DEF Registered
    <3> QED  BY <1>3, <2>2, <3>2 DEF Fails, FailPending, No
  <2>3. fut'[c].k = "waits" => fut[c].k = "waits"
    BY <1>3 DEF Fails, FailPending, No
  <2> QED  BY <1>3, <2>1, <2>2, <2>3 DEF Fails
<1>4. ASSUME NEW e \in Call, BeginCommand(e)
      PROVE  RowIsCall(s)' /\ CallHasRow(c)'
  <2> DEFINE q == NextSeq(lastSeq)
  <2>1. q \in Seq1
    BY <1>0, NextSeqInRange DEF CallsOK
  <2>2. /\ pending' = [pending EXCEPT ![q] = e] /\ seq' = [seq EXCEPT ![e] = q]
        /\ pc' = [pc EXCEPT ![e] = "writing"] /\ fut' = [fut EXCEPT ![e] = No("waits")]
    BY <1>4 DEF BeginCommand
  <2> HIDE DEF q
  <2>3. pc[e] = "queued" /\ \A d \in Call \ {e} : pc[d] \in InFlight => kind[d] = "raw"
    BY <1>4, BeginsAlone
  <2>4. RowIsCall(s)'
    <3>1. CASE s = q
      BY <1>0, <2>1, <2>2, <3>1 DEF CallsOK, InFlight, No
    <3>2. CASE s # q
      <4>1. pending'[s] = pending[s]
        BY <1>0, <2>2, <3>2 DEF CallsOK
      <4>2. pending[s] # 0 => pending[s] # e
        BY <1>a, <2>3 DEF InFlight
      <4> QED  BY <1>0, <1>a, <1>b, <2>2, <4>1, <4>2 DEF CallsOK
    <3> QED  BY <3>1, <3>2
  <2>5. CallHasRow(c)'
    <3>1. CASE c = e
      BY <1>0, <2>1, <2>2, <3>1 DEF CallsOK
    <3>2. CASE c # e
      <4>1. pc'[c] = pc[c] /\ fut'[c] = fut[c]
        BY <1>0, <2>2, <3>2 DEF CallsOK
      <4>2. ~(pc[c] \in InFlight /\ fut[c].k = "waits")
        BY <1>a, <2>3, <3>2, NoneIsNoWait DEF FreshCall
      <4> QED  BY <4>1, <4>2
    <3> QED  BY <3>1, <3>2
  <2> QED  BY <2>4, <2>5
<1>5. ASSUME NEW e \in Call, BeginRaw(e)
      PROVE  RowIsCall(s)' /\ CallHasRow(c)'
  <2>1. /\ pc[e] = "queued" /\ kind[e] = "raw" /\ pc' = [pc EXCEPT ![e] = "writing"]
        /\ UNCHANGED <<seq, fut, pending>>
    BY <1>5 DEF BeginRaw, NextInLine, Queued
  <2>2. pending[s] # 0 => pending[s] # e
    BY <1>a, <2>1 DEF InFlight
  <2>3. RowIsCall(s)'
    BY <1>0, <1>a, <1>b, <2>1, <2>2 DEF CallsOK
  <2>4. CallHasRow(c)'
    BY <1>0, <1>a, <2>1, NoneIsNoWait DEF CallsOK, FreshCall
  <2> QED  BY <2>3, <2>4
<1>6. ASSUME NEW e \in Call, Moves(e)
      PROVE  RowIsCall(s)' /\ CallHasRow(c)'
  <2>1. \A d \in Call : pc'[d] \in InFlight <=> pc[d] \in InFlight
    BY <1>0, <1>6 DEF Moves, CallsOK, InFlight
  <2> QED  BY <1>a, <1>b, <1>6, <2>1 DEF Moves
<1>7. ASSUME NEW e \in Call, Leaves(e)
      PROVE  RowIsCall(s)' /\ CallHasRow(c)'
  <2>1. /\ pc' = [pc EXCEPT ![e] = "done"] /\ fut' = [fut EXCEPT ![e] = No("none")]
        /\ pending' = Forget(e) /\ UNCHANGED seq
    BY <1>7 DEF Leaves, Leave
  <2>2. pending'[s] = pending[s] \/ pending'[s] = 0
    BY <1>0, <2>1 DEF Forget, CallsOK
  <2>3. pending[s] = e => pending'[s] = 0
    <3> SUFFICES ASSUME pending[s] = e PROVE pending'[s] = 0
      OBVIOUS
    <3>1. e # 0
      BY DEF Call
    <3>2. seq[e] = s /\ s # 0
      BY <1>a, <3>1 DEF Seq1
    <3> QED  BY <1>0, <2>1, <3>2 DEF Forget, CallsOK
  <2>4. RowIsCall(s)'
    <3>1. CASE pending'[s] = 0
      BY <3>1
    <3>2. CASE pending'[s] # 0
      <4>1. pending'[s] = pending[s] /\ pending[s] \in Call \ {e}
        BY <1>b, <2>2, <2>3, <3>2
      <4> QED  BY <1>0, <1>a, <2>1, <4>1 DEF CallsOK
    <3> QED  BY <3>1, <3>2
  <2>5. CallHasRow(c)'
    <3>1. CASE c = e
      BY <1>0, <2>1, <3>1 DEF CallsOK, InFlight
    <3>2. CASE c # e
      <4>1. pc'[c] = pc[c] /\ fut'[c] = fut[c]
        BY <1>0, <2>1, <3>2 DEF CallsOK
      <4> SUFFICES ASSUME pc[c] \in InFlight, fut[c].k = "waits" PROVE pending'[seq[c]] = c
        BY <2>1, <4>1
      <4>2. seq[e] # 0 => seq[e] # seq[c]
        <5> SUFFICES ASSUME seq[e] # 0, seq[e] = seq[c] PROVE FALSE
          OBVIOUS
        <5>1. pc[e] \in InFlight /\ kind[e] # "raw"
          BY <1>7 DEF Leaves, Fresh, FreshCall
        <5>2. kind[c] # "raw"
          BY <1>a, NoneIsNoWait DEF FreshCall
        <5> QED  BY <3>2, <5>1, <5>2 DEF Alone
      <4> QED  BY <1>0, <1>a, <2>1, <4>2 DEF Forget, CallsOK
    <3> QED  BY <3>1, <3>2
  <2> QED  BY <2>4, <2>5
<1>8. ASSUME NEW n \in Call, Settles(n)
      PROVE  RowIsCall(s)' /\ CallHasRow(c)'
  <2> DEFINE p == pending[seq[n]]
  <2>1. seq[n] \in Seq1 /\ p \in Call /\ seq[p] = seq[n] /\ fut[p].k = "waits"
    BY <1>8, SettledRow
  <2>2. PICK outcome \in {Got(n), No("error")} : fut' = [fut EXCEPT ![p] = outcome]
    BY <1>8, <2>1 DEF Settles
  <2>3. outcome.k # "waits"
    BY <2>2 DEF Got, No
  <2>4. pending' = [pending EXCEPT ![seq[n]] = 0] /\ UNCHANGED <<pc, seq>>
    BY <1>8 DEF Settles
  <2> HIDE DEF p
  <2>5. RowIsCall(s)'
    <3>1. CASE s = seq[n]
      BY <1>0, <2>1, <2>4, <3>1 DEF CallsOK
    <3>2. CASE s # seq[n]
      <4>1. pending'[s] = pending[s] /\ (pending[s] # 0 => pending[s] # p)
        BY <1>0, <1>a, <2>1, <2>4, <3>2 DEF CallsOK
      <4> QED  BY <1>0, <1>a, <1>b, <2>2, <2>4, <4>1 DEF CallsOK
    <3> QED  BY <3>1, <3>2
  <2>6. CallHasRow(c)'
    <3>1. CASE c = p
      BY <1>0, <2>1, <2>2, <2>3, <3>1 DEF CallsOK
    <3>2. CASE c # p
      <4>1. fut'[c] = fut[c]
        BY <1>0, <2>2, <3>2 DEF CallsOK
      <4> SUFFICES ASSUME pc[c] \in InFlight, fut[c].k = "waits" PROVE pending'[seq[c]] = c
        BY <2>4, <4>1
      <4>2. pending[seq[c]] = c
        BY <1>a
      <4>3. seq[c] # seq[n]
        BY <3>2, <4>2 DEF p
      <4> QED  BY <1>0, <2>4, <4>2, <4>3 DEF CallsOK
    <3> QED  BY <3>1, <3>2
  <2> QED  BY <2>5, <2>6
<1> QED  BY <1>1, <1>2, <1>3, <1>4, <1>5, <1>6, <1>7, <1>8 DEF CallStep

-------------------------------------------------------------------------------
(* Responses on their way: where a step may take them from. *)

(* n is the call some response in the ready queue answers. *)
LEMMA ArrivingAre ==
  \A n : n \in Arriving <=>
    \/ \E e \in Range(ready) : e.k \in {"on_bytes", "settle"} /\ e.n = n
    \/ n \in Range(lines)
BY DEF Arriving

LEMMA ArrivingKept ==
  ASSUME Types, Known, [Next]_vars
  PROVE  Arriving' \subseteq Arriving \cup due
<1>0. QueuesOK /\ CallsOK
  BY DEF Types
<1> USE DEF readerVars, linkVars, portVars, rxVars, callVars
<1> DEFINE IsArriving(n) == \/ \E e \in Range(ready') : e.k \in {"on_bytes", "settle"} /\ e.n = n
                       \/ n \in Range(lines')
<1>a. \A n : n \in Arriving' <=> IsArriving(n)
  BY DEF Arriving
<1>1. ASSUME UNCHANGED lines,
             \A e \in Range(ready') : e \in Range(ready) \/ e.k \notin {"on_bytes", "settle"}
      PROVE  Arriving' \subseteq Arriving
  BY <1>a, <1>1, ArrivingAre
<1>2. ASSUME UNCHANGED lines, NEW e \in Entries, Wakeup(e), e.k \notin {"on_bytes", "settle"}
      PROVE  Arriving' \subseteq Arriving
  BY <1>0, <1>1, <1>2, WakeupIsPosted DEF QueuesOK
<1>3. CASE UNCHANGED <<ready, lines>>
  BY <1>1, <1>3
<1>4. CASE Reader
  <2>1. CASE OpenFails
    <3>1. PICK why \in {"no_device", "open_failed"} : Wakeup(Entry("on_error", 0, why))
      BY <2>1 DEF OpenFails, Post
    <3>2. Entry("on_error", 0, why) \in Entries /\ Entry("on_error", 0, why).k = "on_error"
      BY DEF Entry, Entries
    <3> QED  BY <1>2, <2>1, <3>1, <3>2 DEF OpenFails
  <2>2. CASE Publish
    <3>1. Range(ready') = Range(ready) \cup {Entry("on_connect", mine, "ok")}
      BY <1>0, <2>2, RangeOfAppend DEF Publish, Post, Wakeup, QueuesOK
    <3>2. Entry("on_connect", mine, "ok").k = "on_connect"
      BY DEF Entry
    <3> QED  BY <1>1, <2>2, <3>1, <3>2 DEF Publish
  <2>3. CASE ReadResponse
    <3>1. PICK n \in due : Wakeup(Entry("on_bytes", n, "ok"))
      BY <2>3 DEF ReadResponse, Post
    <3>2. Range(ready') = Range(ready) \cup {Entry("on_bytes", n, "ok")}
      BY <1>0, <3>1, RangeOfAppend DEF Wakeup, QueuesOK
    <3>3. Entry("on_bytes", n, "ok").n \in due
      BY <3>1 DEF Entry
    <3> QED  BY <1>a, <2>3, <3>2, <3>3, ArrivingAre DEF ReadResponse
  <2>4. CASE ReadFails \/ ReaderReports
    <3>1. \A e \in {Entry("on_error", 0, "read_error"), Entry("on_disconnect", 0, "ok")} :
            e \in Entries /\ e.k \notin {"on_bytes", "settle"}
      BY DEF Entry, Entries
    <3> QED  BY <1>2, <2>4, <3>1 DEF ReadFails, ReaderReports, Post
  <2>5. CASE ReaderStops \/ OpenStarts \/ OpenReturns \/ OpenedTooLate \/ OpenedInTime
             \/ ReadingStops \/ ReaderCloses
    BY <1>3, <2>5 DEF ReaderStops, OpenStarts, OpenReturns, OpenedTooLate, OpenedInTime,
         ReadingStops, ReaderCloses
  <2> QED  BY <1>4, <2>1, <2>2, <2>3, <2>4, <2>5 DEF Reader
<1>5. CASE RunReady
  <2>1. PICK e \in Entries :
                 /\ e \in Range(ready)
                 /\ \/ OnConnect(e) \/ OnDisconnect(e) \/ OnError(e) \/ OnBytes(e)
                    \/ Settle(e) \/ Written(e) \/ Logged(e) \/ Woken(e)
    BY <1>0, <1>5, RangeOfTail DEF RunReady, QueuesOK
  <2>2. Tail(ready) \in Seq(Entries) /\ Range(Tail(ready)) \subseteq Range(ready)
    BY <1>0, <1>5, RangeOfTail DEF RunReady, QueuesOK
  <2>3. ASSUME NEW S \in SUBSET Call, ready' = Tail(ready) \o Wakes(S), UNCHANGED lines
        PROVE  Arriving' \subseteq Arriving
    <3>1. Range(ready') = Range(Tail(ready)) \cup Range(Wakes(S))
      BY <2>2, <2>3, WakesWake, RangeOfConcat, ZenonT(40)
    <3>2. \A w \in Range(Wakes(S)) : w.k = "woken"
      BY WakesWake
    <3> QED  BY <1>1, <2>2, <2>3, <3>1, <3>2
  <2>4. CASE UNCHANGED lines /\ ready' = Tail(ready)
    BY <1>1, <2>2, <2>4
  <2>5. CASE OnBytes(e)
    <3>1. e.n \in Call /\ e.n \in Arriving
      BY <2>1, <2>5, ArrivingAre DEF OnBytes, Entries
    <3>2. Range(lines') = Range(lines) \cup {e.n}
      BY <1>0, <2>5, RangeOfAppend DEF OnBytes, QueuesOK
    <3>3. ready' = Tail(ready)
      BY <2>5 DEF OnBytes
    <3> QED  BY <1>a, <2>2, <3>1, <3>2, <3>3, ArrivingAre
  <2>6. CASE OnDisconnect(e)
    <3>1. {c \in Registered : WaitsForFuture(c)} \subseteq Call
      BY DEF Registered
    <3> QED  BY <2>3, <2>6, <3>1 DEF OnDisconnect, FailedWakes
  <2>7. CASE Settle(e)
    <3>1. CASE ready' = Tail(ready)
      BY <2>4, <2>7, <3>1 DEF Settle
    <3>2. CASE \E S \in SUBSET Call : ready' = Tail(ready) \o Wakes(S)
      BY <2>3, <2>7, <3>2 DEF Settle
    <3>3. CASE ready' # Tail(ready)
      <4>1. e.n \in Call /\ seq[e.n] # 0
        BY <2>1, <2>7, ArrivingAre DEF Settle, Known, Entries
      <4>2. seq[e.n] \in Seq1
        BY <1>0, <4>1 DEF CallsOK, Seq1
      <4>3. pending[seq[e.n]] # 0
        BY <2>7, <3>3 DEF Settle
      <4>4. pending[seq[e.n]] \in Call
        BY <1>0, <4>2, <4>3 DEF CallsOK, Call
      <4>5. \E S \in {{pending[seq[e.n]]}, {}} : ready' = Tail(ready) \o Wakes(S)
        BY <2>7, <3>3 DEF Settle
      <4> QED  BY <3>2, <4>4, <4>5, SMTT(30)
    <3> QED  BY <3>1, <3>3
  <2> QED  BY <2>1, <2>4, <2>5, <2>6, <2>7 DEF OnConnect, OnError, Written, Logged, Woken
<1>6. CASE Ask
  BY <1>3, <1>6 DEF Ask
<1>7. CASE StoresLine
  <2>1. PICK w \in {"ok", "failed"} : Wakeup(Entry("settle", Head(lines), w))
    BY <1>7 DEF StoresLine
  <2>2. Head(lines) \in Range(lines) /\ Range(lines') \subseteq Range(lines)
    BY <1>0, <1>7, RangeOfTail DEF StoresLine, QueuesOK
  <2>3. Range(ready') = Range(ready) \cup {Entry("settle", Head(lines), w)}
    BY <1>0, <2>1, RangeOfAppend DEF Wakeup, QueuesOK
  <2>4. Entry("settle", Head(lines), w).n \in Range(lines)
    BY <2>2 DEF Entry
  <2> QED  BY <1>a, <2>2, <2>3, <2>4, ArrivingAre
<1>8. ASSUME NEW c \in Call, Pool(c) \/ Client(c)
      PROVE  Arriving' \subseteq Arriving \cup due
  <2>1. \A w \in {"ok", "failed"} : \A e \in {Entry("written", c, w), Entry("logged", c, w)} :
          e \in Entries /\ e.k \notin {"on_bytes", "settle"}
    BY DEF Entry, Entries
  <2>2. CASE WriteRefused(c) \/ WriteLands(c) \/ WriteFails(c)
    <3>1. UNCHANGED lines /\ \E w \in {"ok", "failed"} : Wakeup(Entry("written", c, w))
      BY <2>2 DEF WriteRefused, WriteLands, WriteFails, WriteReturns
    <3> QED  BY <1>2, <2>1, <3>1
  <2>3. CASE Logs(c)
    BY <1>2, <2>1, <2>3 DEF Logs
  <2>4. CASE WriteStarts(c) \/ BeginRaw(c) \/ TimesOut(c) \/ Cancel(c)
    BY <1>3, <2>4 DEF WriteStarts, BeginRaw, TimesOut, Cancel
  <2>5. CASE BeginCommand(c)
    <3>1. UNCHANGED <<ready, lines>>
      BY <2>5 DEF BeginCommand
    <3> QED  BY <1>3, <3>1
  <2> QED  BY <1>8, <2>2, <2>3, <2>4, <2>5 DEF Pool, Client
<1>9. CASE Stop
  <2>1. CASE StopEnds
    <3>1. {c \in Registered : WaitsForFuture(c)} \subseteq Call
      BY DEF Registered
    <3>2. Range(ready') = Range(ready) \cup Range(FailedWakes)
      BY <1>0, <2>1, <3>1, WakesWake, RangeOfConcat DEF StopEnds, FailedWakes, QueuesOK
    <3>3. \A w \in Range(FailedWakes) : w.k = "woken"
      BY <3>1, WakesWake DEF FailedWakes
    <3>4. Range(lines') = {}
      BY <2>1 DEF StopEnds, Range
    <3> QED  BY <1>a, <3>2, <3>3, <3>4, ArrivingAre
  <2>2. CASE StopBegins \/ Joined \/ JoinTimesOut \/ StopCloses \/ StopCancelsConsumer
    BY <1>3, <2>2 DEF StopBegins, Joined, JoinTimesOut, StopCloses, StopCancelsConsumer
  <2> QED  BY <1>9, <2>1, <2>2 DEF Stop
<1>10. CASE UNCHANGED vars
  BY <1>3, <1>10 DEF vars
<1> QED  BY <1>4, <1>5, <1>6, <1>7, <1>8, <1>9, <1>10 DEF Next

LEMMA BoardHears ==
  ASSUME CallsOK, Locked, [Next]_vars
  PROVE  due' \subseteq due \cup {n \in pooled : kind[n] # "raw"}
<1> USE DEF readerVars, linkVars, portVars, rxVars, callVars
<1>1. CASE Reader
  BY <1>1 DEF Reader, ReaderStops, OpenStarts, OpenFails, OpenReturns, OpenedTooLate,
       OpenedInTime, Publish, ReadResponse, ReadFails, ReadingStops, ReaderCloses, ReaderReports
<1>2. CASE RunReady
  BY <1>2 DEF RunReady
<1>3. CASE Ask \/ StoresLine
  BY <1>3 DEF Ask, StoresLine
<1>4. ASSUME NEW c \in Call, Pool(c) \/ Client(c)
      PROVE  due' \subseteq due \cup {n \in pooled : kind[n] # "raw"}
  <2>1. CASE WriteLands(c)
    <3>1. c \in pooled
      BY <2>1 DEF WriteLands, WriteReturns, Locked, Call
    <3> QED  BY <2>1, <3>1 DEF WriteLands
  <2>2. CASE BeginCommand(c)
    BY <2>2 DEF BeginCommand
  <2>3. CASE WriteRefused(c) \/ WriteStarts(c) \/ WriteFails(c)
    BY <2>3 DEF WriteRefused, WriteStarts, WriteFails
  <2>4. CASE BeginRaw(c) \/ TimesOut(c) \/ Cancel(c) \/ Logs(c)
    BY <2>4 DEF BeginRaw, TimesOut, Cancel, Logs
  <2> QED  BY <1>4, <2>1, <2>2, <2>3, <2>4 DEF Pool, Client
<1>5. CASE Stop
  BY <1>5 DEF Stop, StopBegins, Joined, JoinTimesOut, StopCloses, StopCancelsConsumer, StopEnds
<1>6. CASE UNCHANGED vars
  BY <1>6 DEF vars
<1> QED  BY <1>1, <1>2, <1>3, <1>4, <1>5, <1>6 DEF Next

(* What may come in after a step: what could before, and a call that begins. *)
LEMMA ComingKept ==
  ASSUME Types, Known, Locked, [Next]_vars
  PROVE  /\ (Arriving \cup due)' \subseteq Coming
         /\ \A n \in (Arriving \cup due)' : n \in Arriving \cup due \/ kind[n] # "raw"
         /\ \A n \in pooled' : n \in pooled \/ BeginCommand(n) \/ BeginRaw(n)
<1>1. Arriving' \subseteq Arriving \cup due
  BY ArrivingKept
<1>2. due' \subseteq due \cup {n \in pooled : kind[n] # "raw"}
  BY BoardHears DEF Types
<1>3. \A n \in pooled' : n \in pooled \/ BeginCommand(n) \/ BeginRaw(n)
  <2>1. CallStep
    BY NextIsCallStep
  <2>2. CASE Quiet \/ Comes \/ Fails
    BY <2>2 DEF Quiet, Comes, Fails
  <2>3. ASSUME NEW c \in Call, Moves(c) \/ Leaves(c) \/ Settles(c)
        PROVE  pooled' \subseteq pooled
    BY <2>3 DEF Moves, Leaves, Settles
  <2>4. ASSUME NEW c \in Call, BeginCommand(c) \/ BeginRaw(c)
        PROVE  pooled' = pooled \cup {c}
    BY <2>4 DEF BeginCommand, BeginRaw
  <2> QED  BY <2>1, <2>2, <2>3, <2>4 DEF CallStep
<1> QED  BY <1>1, <1>2, <1>3 DEF Coming

LEMMA SeqsKept ==
  ASSUME CallsOK, Fresh, CallStep
  PROVE  \A c \in Call : seq'[c] = seq[c] \/ (seq[c] = 0 /\ BeginCommand(c))
<1>1. CASE Quiet \/ Comes \/ Fails
  BY <1>1 DEF Quiet, Comes, Fails
<1>2. ASSUME NEW c \in Call, Moves(c) \/ Leaves(c) \/ Settles(c) \/ BeginRaw(c)
      PROVE  seq' = seq
  BY <1>2 DEF Moves, Leaves, Settles, BeginRaw
<1>3. ASSUME NEW c \in Call, BeginCommand(c)
      PROVE  seq[c] = 0 /\ \A d \in Call \ {c} : seq'[d] = seq[d]
  <2>1. seq[c] = 0
    BY <1>3, BeginsAlone DEF Fresh, FreshCall
  <2> QED  BY <1>3, <2>1 DEF BeginCommand, CallsOK
<1> QED  BY <1>1, <1>2, <1>3 DEF CallStep

LEMMA ArrivingCalls == QueuesOK => Arriving \subseteq Call
<1> SUFFICES ASSUME QueuesOK PROVE Arriving \subseteq Call
  OBVIOUS
<1>1. \A e \in Range(ready) : e \in Entries
  BY DEF QueuesOK, Range
<1>2. Range(lines) \subseteq Call
  BY DEF QueuesOK, Range
<1> QED  BY <1>1, <1>2 DEF Arriving, Entries

LEMMA KnownKept ==
  ASSUME Types, Fresh, Known, Locked, [Next]_vars
  PROVE  Known'
<1>1. CallStep
  BY NextIsCallStep
<1> SUFFICES ASSUME NEW n \in (Arriving \cup due)' PROVE seq'[n] # 0
  BY DEF Known
<1>2. n \in Coming /\ (n \in Arriving \cup due \/ (n \in pooled /\ kind[n] # "raw"))
  BY ComingKept DEF Coming
<1>3. Arriving \subseteq Call
  BY ArrivingCalls DEF Types
<1>4. n \in Call /\ seq[n] # 0
  BY <1>2, <1>3 DEF Known, Fresh, FreshCall, Types, CallsOK
<1> QED  BY <1>1, <1>4, SeqsKept DEF Types

LEMMA UnmistakableKept ==
  ASSUME Types, CallsOK', Fresh, Alone, Known, Locked, Unmistakable, [Next]_vars
  PROVE  Unmistakable'
<1>0. CallStep /\ CallsOK /\ Arriving \subseteq Call
  BY NextIsCallStep, ArrivingCalls DEF Types
<1> SUFFICES ASSUME NEW c \in Call, pc'[c] \in InFlight, kind'[c] # "raw",
                    NEW n \in Coming', seq'[n] = seq'[c]
             PROVE  n = c
  BY DEF Unmistakable
<1>1. n \in Coming \/ BeginCommand(n) \/ BeginRaw(n)
  BY ComingKept DEF Coming
<1>2. n \in Call
  <2>1. n \in Coming => n \in Call
    BY <1>0 DEF Coming, CallsOK
  <2>2. (Arriving \cup due)' \subseteq Call
    BY <1>0, ComingKept DEF Coming, CallsOK
  <2> QED  BY <2>2 DEF Coming, CallsOK
<1>3. CASE \E e \in Call : BeginCommand(e)
  <2>1. PICK e \in Call : BeginCommand(e)
    BY <1>3
  <2> DEFINE q == NextSeq(lastSeq)
  <2>2. /\ seq' = [seq EXCEPT ![e] = q] /\ pc' = [pc EXCEPT ![e] = "writing"]
        /\ kind' = kind /\ pooled' = pooled \cup {e}
        /\ \A m \in Arriving \cup pooled : seq[m] # q
        /\ due' = {m \in due : seq[m] # q}
        /\ ready' = ready /\ lines' = lines
    BY <2>1 DEF BeginCommand, rxVars
  <2> HIDE DEF q
  <2>3. c = e
    BY <1>0, <2>1, <2>2, BeginsAlone DEF CallsOK
  <2>4. seq'[c] = q
    BY <1>0, <2>2, <2>3 DEF CallsOK
  <2>5. CASE n # e
    <3>1. seq[n] = q
      BY <1>0, <1>2, <2>2, <2>4, <2>5 DEF CallsOK
    <3>2. Arriving' = Arriving
      BY <2>2 DEF Arriving
    <3> QED  BY <2>2, <2>5, <3>1, <3>2 DEF Coming
  <2> QED  BY <2>3, <2>5
<1>4. CASE ~\E e \in Call : BeginCommand(e)
  <2>1. \A d \in Call : seq'[d] = seq[d]
    BY <1>0, <1>4, SeqsKept
  <2>2. pc[c] \in InFlight /\ kind[c] # "raw"
    <3>1. CASE Quiet \/ Fails
      BY <3>1 DEF Quiet, Fails
    <3>2. CASE Comes
      <4>1. PICK m \in Call :
               /\ pc[m] = "uncalled" /\ pc' = [pc EXCEPT ![m] = "queued"]
               /\ \A d \in Call \ {m} : kind'[d] = kind[d]
        BY <1>0, <3>2, ComesQueued
      <4>2. c # m
        BY <1>0, <4>1 DEF CallsOK, InFlight
      <4> QED  BY <1>0, <4>1, <4>2 DEF CallsOK
    <3>3. ASSUME NEW e \in Call, BeginRaw(e)
          PROVE  pc[c] \in InFlight /\ kind[c] # "raw"
      <4>1. kind[e] = "raw" /\ kind' = kind /\ pc' = [pc EXCEPT ![e] = "writing"]
        BY <3>3 DEF BeginRaw
      <4> QED  BY <1>0, <4>1 DEF CallsOK
    <3>4. ASSUME NEW e \in Call, Moves(e)
          PROVE  pc[c] \in InFlight /\ kind[c] # "raw"
      BY <1>0, <3>4 DEF Moves, CallsOK
    <3>5. ASSUME NEW e \in Call, Leaves(e)
          PROVE  pc[c] \in InFlight /\ kind[c] # "raw"
      BY <1>0, <3>5 DEF Leaves, Leave, CallsOK, InFlight
    <3>6. ASSUME NEW e \in Call, Settles(e)
          PROVE  pc[c] \in InFlight /\ kind[c] # "raw"
      BY <3>6 DEF Settles
    <3> QED  BY <1>0, <1>4, <3>1, <3>2, <3>3, <3>4, <3>5, <3>6 DEF CallStep
  <2>3. n \in Coming
    <3>1. ~BeginRaw(n)
      <4> SUFFICES ASSUME BeginRaw(n) PROVE FALSE
        OBVIOUS
      <4>1. seq[n] = 0
        BY <1>2 DEF BeginRaw, Fresh, FreshCall
      <4>2. seq[c] # 0
        BY <2>2 DEF Fresh, FreshCall
      <4> QED  BY <1>2, <2>1, <4>1, <4>2
    <3> QED  BY <1>1, <1>2, <1>4, <3>1
  <2> QED  BY <1>2, <2>1, <2>2, <2>3 DEF Unmistakable
<1> QED  BY <1>3, <1>4

LEMMA FutMatchesKept ==
  ASSUME Types, Known, PendingExact, Fresh, Unmistakable, FutMatches, CallStep
  PROVE  FutMatches'
<1>0. CallsOK
  BY DEF Types
<1> SUFFICES ASSUME NEW c \in Call, fut'[c].k = "resp" PROVE fut'[c].of = c
  BY DEF FutMatches
<1>1. CASE fut'[c] = fut[c]
  BY <1>1 DEF FutMatches
<1>2. CASE Quiet \/ Comes
  BY <1>1, <1>2 DEF Quiet, Comes
<1>3. CASE Fails
  BY <1>1, <1>3 DEF Fails, FailPending, No
<1>4. ASSUME NEW e \in Call, BeginCommand(e) \/ BeginRaw(e) \/ Moves(e)
      PROVE  fut'[c].of = c
  <2>1. fut' = fut \/ fut' = [fut EXCEPT ![e] = No("waits")]
    BY <1>4 DEF BeginCommand, BeginRaw, Moves
  <2> QED  BY <1>0, <1>1, <2>1 DEF CallsOK, No
<1>5. ASSUME NEW e \in Call, Leaves(e)
      PROVE  fut'[c].of = c
  <2>1. fut' = [fut EXCEPT ![e] = No("none")]
    BY <1>5 DEF Leaves, Leave
  <2> QED  BY <1>0, <1>1, <2>1 DEF CallsOK, No
<1>6. ASSUME NEW n \in Call, Settles(n)
      PROVE  fut'[c].of = c
  <2> DEFINE p == pending[seq[n]]
  <2>1. seq[n] \in Seq1 /\ p \in Call /\ seq[p] = seq[n] /\ fut[p].k = "waits"
          /\ pc[p] \in InFlight
    BY <1>6, SettledRow
  <2>2. PICK outcome \in {Got(n), No("error")} : fut' = [fut EXCEPT ![p] = outcome]
    BY <1>6, <2>1 DEF Settles
  <2>3. n \in Coming
    BY <1>6 DEF Settles, Coming
  <2> HIDE DEF p
  <2>4. n = p
    <3>1. kind[p] # "raw"
      BY <2>1, NoneIsNoWait DEF Fresh, FreshCall
    <3> QED  BY <2>1, <2>3, <3>1 DEF Unmistakable
  <2>5. CASE c = p
    <3>1. fut'[c] = outcome
      BY <1>0, <2>2, <2>5 DEF CallsOK
    <3> QED  BY <2>4, <2>5, <3>1 DEF Got, No
  <2>6. CASE c # p
    BY <1>0, <1>1, <2>2, <2>6 DEF CallsOK
  <2> QED  BY <2>5, <2>6
<1> QED  BY <1>2, <1>3, <1>4, <1>5, <1>6 DEF CallStep

LEMMA AnswersKept ==
  ASSUME CallsOK, FutMatches, AnswersMatch, CallStep
  PROVE  AnswersMatch'
<1> SUFFICES ASSUME NEW c \in Call, answer'[c].k = "resp" PROVE answer'[c].of = c
  BY DEF AnswersMatch
<1>1. CASE answer'[c] = answer[c]
  BY <1>1 DEF AnswersMatch
<1>2. CASE Quiet \/ Comes \/ Fails
  BY <1>1, <1>2 DEF Quiet, Comes, Fails
<1>3. ASSUME NEW e \in Call, BeginCommand(e) \/ BeginRaw(e) \/ Moves(e) \/ Settles(e)
      PROVE  answer' = answer
  BY <1>3 DEF BeginCommand, BeginRaw, Moves, Settles
<1>4. ASSUME NEW e \in Call, Leaves(e)
      PROVE  answer'[c].of = c
  <2>1. PICK outcome \in Outcome : (outcome.k # "resp" \/ outcome = fut[e]) /\ Leave(e, outcome)
    BY <1>4 DEF Leaves
  <2>2. answer' = [answer EXCEPT ![e] = outcome]
    BY <2>1 DEF Leave
  <2> QED  BY <1>1, <2>1, <2>2 DEF CallsOK, FutMatches
<1> QED  BY <1>1, <1>2, <1>3, <1>4 DEF CallStep

-------------------------------------------------------------------------------
(* The inductive invariant and the theorems. *)
IInv ==
  /\ Types /\ Handles
  /\ Fresh /\ Alone /\ PendingExact
  /\ Known /\ Unmistakable /\ FutMatches /\ AnswersMatch

LEMMA InitEstablishes == Init => IInv
<1> SUFFICES ASSUME Init PROVE IInv
  OBVIOUS
<1> USE DEF Init
<1>1. FlagsOK
  BY DEF FlagsOK
<1>2. StatusOK
  BY BoundAssumption DEF StatusOK, Link, Reasons
<1>3. QueuesOK
  BY DEF QueuesOK
<1>4. CallsOK
  <2>1. No("none") \in Outcome
    BY DEF Outcome, No
  <2>2. 0 \in 0 .. MaxCalls /\ 0 \in 0 .. SeqMax /\ 0 \in Link
    BY BoundAssumption, SeqAssumption DEF Link
  <2> QED  BY <2>1, <2>2 DEF CallsOK
<1>5. Handles
  BY DEF Handles, Stopped, Handed, Locked, HealthIsOfTheLink
<1>6. Fresh /\ Alone
  BY DEF Fresh, FreshCall, Alone, InFlight
<1>7. PendingExact
  BY DEF PendingExact, InFlight
<1>8. Arriving = {}
  BY DEF Arriving, Range
<1>9. Known /\ Unmistakable
  BY <1>8 DEF Known, Unmistakable, InFlight
<1>10. FutMatches /\ AnswersMatch
  BY NoneIsNoWait DEF FutMatches, AnswersMatch
<1> QED  BY <1>1, <1>2, <1>3, <1>4, <1>5, <1>6, <1>7, <1>9, <1>10 DEF IInv, Types

LEMMA StepKeeps == IInv /\ [Next]_vars => IInv'
<1> SUFFICES ASSUME IInv, [Next]_vars PROVE IInv'
  OBVIOUS
<1> USE DEF IInv, Handles
<1>1. Types'
  BY FlagsKept, StatusKept, QueuesKept, CallsKept DEF Types
<1>2. Handles'
  BY StoppedKept, HandedKept, LockedKept, StreakKept DEF Types
<1>3. CallStep /\ CallsOK /\ CallsOK'
  BY <1>1, NextIsCallStep DEF Types
<1>4. Fresh' /\ Alone' /\ PendingExact'
  BY <1>3, FreshKept, AloneKept, PendingKept
<1>5. Known' /\ Unmistakable'
  BY <1>3, KnownKept, UnmistakableKept
<1>6. FutMatches' /\ AnswersMatch'
  BY <1>3, FutMatchesKept, AnswersKept
<1> QED  BY <1>1, <1>2, <1>4, <1>5, <1>6

LEMMA Invariant == Spec => []IInv
BY InitEstablishes, StepKeeps, PTL DEF Spec

(* The types of the port's state, and that a command under way has a seq.      *)
THEOREM PortTypeCorrect == Spec => []TypeOK
<1>1. IInv => SeqGiven
  BY DEF IInv, Fresh, FreshCall, SeqGiven
<1>2. IInv => TypeOK
  BY <1>1, TypeOKInParts DEF IInv
<1> QED  BY <1>2, Invariant, PTL

(* The pending table is exactly the commands that wait: whatever ends a        *)
(* send_command, for every number of commands and every range of seqs.         *)
THEOREM PendingAlwaysExact == Spec => []PendingExact
<1>1. IInv => PendingExact
  BY DEF IInv
<1> QED  BY <1>1, Invariant, PTL

(* A response is handed to the command it answers, though seqs come round,     *)
(* as long as nothing stays under way for a whole round of them.               *)
THEOREM AnswersAlwaysMatch == Spec => []AnswersMatch
<1>1. IInv => AnswersMatch
  BY DEF IInv
<1> QED  BY <1>1, Invariant, PTL

(* No handle is closed while a worker of the pool writes to it.                *)
THEOREM NeverClosedUnderWrite == Spec => []NoCloseUnderWrite
<1>1. IInv => NoCloseUnderWrite
  BY DEF IInv, Handles, Handed, Locked, NoCloseUnderWrite
<1> QED  BY <1>1, Invariant, PTL

(* A write streak never outlives its link.                                     *)
THEOREM HealthAlwaysOfTheLink == Spec => []HealthIsOfTheLink
<1>1. IInv => HealthIsOfTheLink
  BY DEF IInv, Handles
<1> QED  BY <1>1, Invariant, PTL

-------------------------------------------------------------------------------
(* What a step does to the ready queue and to what the port says of itself.    *)
(* Notices of the link are posted by the reader alone, so whatever else is     *)
(* posted leaves what the loop will have heard of the link as it was.          *)

Notices == {"on_connect", "on_disconnect"}

(* What neither tells of the link nor of a failure. *)
Small(t) == t \in Seq(Entries) /\ \A i \in DOMAIN t : t[i].k \notin Notices \cup {"on_error"}

(* Wakeups. *)
Woke(t) == t \in Seq(Entries) /\ \A i \in DOMAIN t : t[i].k = "woken"

LEMMA WokeIsSmall == \A t : Woke(t) => Small(t)
BY DEF Woke, Small, Notices

LEMMA SmallOne ==
  ASSUME NEW e \in Entries, e.k \notin Notices \cup {"on_error"}, ready \in Seq(Entries), Wakeup(e)
  PROVE  \E t : Small(t) /\ ready' = ready \o t
<1>1. <<e>> \in Seq(Entries) /\ DOMAIN <<e>> = {1} /\ <<e>>[1] = e
  OBVIOUS
<1>2. Small(<<e>>)
  BY <1>1, Zenon DEF Small
<1>3. ready' = ready \o <<e>>
  BY DEF Wakeup
<1> QED  BY <1>2, <1>3

LEMMA SmallWakes ==
  ASSUME NEW S \in SUBSET Call
  PROVE  Woke(Wakes(S)) /\ Small(Wakes(S))
<1>1. Wakes(S) \in Seq(Entries) /\ \A e \in Range(Wakes(S)) : e.k = "woken"
  BY WakesWake
<1>2. \A i \in DOMAIN Wakes(S) : Wakes(S)[i] \in Range(Wakes(S))
  BY DEF Range
<1> QED  BY <1>1, <1>2, WokeIsSmall DEF Woke

LEMMA SmallNone == Woke(<<>>) /\ Small(<<>>) /\ \A s \in Seq(Entries) : s \o <<>> = s
<1>1. Woke(<<>>)
  BY DEF Woke
<1> QED  BY <1>1, WokeIsSmall

(* An entry of the queue is run. *)
Hearing(e) ==
  /\ e \in Entries /\ ready # <<>> /\ e = Head(ready)
  /\ \E t : Woke(t) /\ ready' = Tail(ready) \o t
  /\ UNCHANGED <<readerVars, linkVars, stopPc, held>>
  /\ e.k = "on_connect" => connected' = TRUE /\ conn' = e.n /\ reason' = "none"
  /\ e.k = "on_disconnect" => connected' = FALSE /\ UNCHANGED <<conn, reason>> /\ FailPending
  /\ e.k # "on_error" \/ held => e.k = "on_connect" \/ reason' = reason
  /\ e.k = "on_error" /\ ~held => reason' = e.w
  /\ e.k \notin Notices => UNCHANGED <<connected, conn>>

LEMMA RunReadyHears ==
  ASSUME Types, Known, RunReady
  PROVE  \E e : Hearing(e)
<1>0. StatusOK /\ QueuesOK /\ CallsOK
  BY DEF Types
<1> DEFINE e == Head(ready)
<1>1. /\ e \in Entries /\ e \in Range(ready) /\ ready # <<>> /\ Tail(ready) \in Seq(Entries)
      /\ \/ OnConnect(e) \/ OnDisconnect(e) \/ OnError(e) \/ OnBytes(e)
         \/ Settle(e) \/ Written(e) \/ Logged(e) \/ Woken(e)
      /\ UNCHANGED <<readerVars, linkVars, stopPc>>
  BY <1>0, RangeOfTail DEF RunReady, QueuesOK
<1>2. ready' = Tail(ready) => \E t : Woke(t) /\ ready' = Tail(ready) \o t
  BY <1>1, SmallNone
<1> HIDE DEF e
<1> SUFFICES Hearing(e)
  OBVIOUS
<1>3. e = Head(ready)
  BY DEF e
<1>4. CASE OnConnect(e)
  BY <1>1, <1>2, <1>3, <1>4 DEF OnConnect, Hearing, Notices
<1>5. CASE OnDisconnect(e)
  <2>1. Woke(FailedWakes)
    <3>1. {c \in Registered : WaitsForFuture(c)} \in SUBSET Call
      BY DEF Registered
    <3> QED  BY <3>1, SmallWakes DEF FailedWakes
  <2> QED  BY <1>1, <1>3, <1>5, <2>1 DEF OnDisconnect, Hearing, Notices
<1>6. CASE OnError(e)
  BY <1>1, <1>2, <1>3, <1>6 DEF OnError, Hearing, Notices
<1>7. CASE OnBytes(e)
  BY <1>1, <1>2, <1>3, <1>7, SMTT(30) DEF OnBytes, Hearing, Notices, portVars
<1>8. CASE Settle(e)
  <2>1. e.n \in Call /\ seq[e.n] # 0
    BY <1>1, <1>8 DEF Settle, Known, Arriving, Entries
  <2>2. pending[seq[e.n]] # 0 => pending[seq[e.n]] \in Call
    BY <1>0, <2>1 DEF CallsOK, Call, Seq1
  <2>3. \E t : Woke(t) /\ ready' = Tail(ready) \o t
    <3>1. CASE ready' = Tail(ready)
      BY <1>2, <3>1
    <3>2. CASE ready' # Tail(ready)
      <4> DEFINE p == pending[seq[e.n]]
      <4>1. p \in Call /\ ready' = Tail(ready) \o Wakes(IF WaitsForFuture(p) THEN {p} ELSE {})
        BY <1>8, <2>2, <3>2 DEF Settle
      <4>2. Woke(Wakes(IF WaitsForFuture(p) THEN {p} ELSE {}))
        BY <4>1, SmallWakes
      <4> QED  BY <4>1, <4>2
    <3> QED  BY <3>1, <3>2
  <2> QED  BY <1>1, <1>3, <1>8, <2>3, ZenonT(40) DEF Settle, Hearing, Notices, portVars
<1>9. CASE Written(e) \/ Logged(e) \/ Woken(e)
  BY <1>1, <1>2, <1>3, <1>9 DEF Written, Logged, Woken, Hearing, Notices
<1> QED  BY <1>1, <1>4, <1>5, <1>6, <1>7, <1>8, <1>9

(* Steps that tell nothing. *)
Mute ==
  /\ UNCHANGED <<readerVars, link, open, stopping, portVars>>
  /\ \E t : Small(t) /\ ready' = ready \o t

LEMMA StepsTell ==
  ASSUME Types, Known, [Next]_vars
  PROVE  \/ Mute \/ Reader \/ StopBegins \/ StopCloses
         \/ \E e : Hearing(e)
<1>0. StatusOK /\ QueuesOK /\ CallsOK /\ ready \in Seq(Entries)
  BY DEF Types, QueuesOK
<1>1. ready' = ready => \E t : Small(t) /\ ready' = ready \o t
  BY <1>0, SmallNone
<1>2. CASE RunReady
  BY <1>2, RunReadyHears
<1>3. CASE Ask
  BY <1>1, <1>3 DEF Ask, Mute, linkVars
<1>4. CASE StoresLine
  <2>1. PICK w \in {"ok", "failed"} : Wakeup(Entry("settle", Head(lines), w))
    BY <1>4 DEF StoresLine
  <2>2. Head(lines) \in Call
    BY <1>0, <1>4 DEF StoresLine, QueuesOK
  <2>3. Entry("settle", Head(lines), w) \in Entries /\ Entry("settle", Head(lines), w).k = "settle"
    BY <2>2 DEF Entry, Entries
  <2>4. \E t : Small(t) /\ ready' = ready \o t
    BY <1>0, <2>1, <2>3, SmallOne DEF Notices
  <2> QED  BY <1>4, <2>4 DEF StoresLine, Mute, linkVars
<1>5. ASSUME NEW c \in Call, Pool(c) \/ Client(c)
      PROVE  Mute
  <2>1. \A w \in {"ok", "failed"} :
          /\ Entry("written", c, w) \in Entries /\ Entry("logged", c, w) \in Entries
          /\ Entry("written", c, w).k = "written" /\ Entry("logged", c, w).k = "logged"
    BY DEF Entry, Entries
  <2>2. (\E w \in {"ok", "failed"} :
            Wakeup(Entry("written", c, w)) \/ Wakeup(Entry("logged", c, w)))
          => \E t : Small(t) /\ ready' = ready \o t
    BY <1>0, <2>1, SmallOne DEF Notices
  <2>3. CASE WriteStarts(c)
    BY <1>1, <2>3 DEF WriteStarts, Mute, linkVars
  <2>4. CASE WriteRefused(c)
    BY <2>2, <2>4 DEF WriteRefused, Mute, linkVars
  <2>5. CASE WriteLands(c) \/ WriteFails(c)
    BY <2>2, <2>5 DEF WriteLands, WriteFails, WriteReturns, Mute, linkVars
  <2>6. CASE Logs(c)
    <3>1. \E w \in {"ok", "failed"} : Wakeup(Entry("logged", c, w))
      BY <2>6 DEF Logs
    <3> QED  BY <2>2, <2>6, <3>1 DEF Logs, Mute, linkVars
  <2>7. CASE BeginCommand(c) \/ BeginRaw(c)
    BY <1>1, <2>7 DEF BeginCommand, BeginRaw, Mute, linkVars
  <2>8. CASE TimesOut(c) \/ Cancel(c)
    BY <1>1, <2>8 DEF TimesOut, Cancel, Mute, linkVars
  <2> QED  BY <1>5, <2>3, <2>4, <2>5, <2>6, <2>7, <2>8 DEF Pool, Client
<1>6. CASE Stop
  <2>1. CASE Joined \/ JoinTimesOut \/ StopCancelsConsumer
    BY <1>1, <2>1 DEF Joined, JoinTimesOut, StopCancelsConsumer, Mute, linkVars
  <2>2. CASE StopEnds
    <3>1. Small(FailedWakes)
      <4>1. {c \in Registered : WaitsForFuture(c)} \in SUBSET Call
        BY DEF Registered
      <4> QED  BY <4>1, SmallWakes DEF FailedWakes
    <3> QED  BY <2>2, <3>1 DEF StopEnds, Mute, linkVars
  <2> QED  BY <1>6, <2>1, <2>2 DEF Stop
<1>7. CASE UNCHANGED vars
  BY <1>1, <1>7 DEF vars, Mute, linkVars
<1> QED  BY <1>2, <1>3, <1>4, <1>5, <1>6, <1>7 DEF Next

-------------------------------------------------------------------------------
(* What the port will say of its link once the loop has run what it was told:  *)
(* the last notice in the queue says, or what the port says now if there is    *)
(* none.                                                                       *)

Up == rpc \in {"reading", "closing", "closed"}

LastNotice(s, i) ==
  i \in DOMAIN s /\ s[i].k \in Notices /\ \A j \in DOMAIN s : j > i => s[j].k \notin Notices

Says(e, up, m) ==
  /\ up => e.k = "on_connect" /\ e.n = m
  /\ ~up => e.k = "on_disconnect"

ComesTo(s, up, m, on, of) ==
  /\ \A i : LastNotice(s, i) => Says(s[i], up, m)
  /\ (\A i \in DOMAIN s : s[i].k \notin Notices) => (on <=> up) /\ (up => of = m)

Upshot == ComesTo(ready, Up, mine, connected, conn)

LEMMA ConcatFacts ==
  ASSUME NEW s \in Seq(Entries), NEW t \in Seq(Entries)
  PROVE  /\ s \o t \in Seq(Entries) /\ Len(s) \in Nat /\ Len(t) \in Nat
         /\ DOMAIN (s \o t) = 1 .. Len(s) + Len(t) /\ DOMAIN s = 1 .. Len(s) /\ DOMAIN t = 1 .. Len(t)
         /\ \A i \in 1 .. Len(s) : (s \o t)[i] = s[i] /\ i \in DOMAIN (s \o t)
         /\ \A i \in 1 .. Len(s) + Len(t) :
              i \notin 1 .. Len(s) => /\ i - Len(s) \in 1 .. Len(t)
                                      /\ (s \o t)[i] = t[i - Len(s)] /\ i > Len(s)
<1>1. s \o t \in Seq(Entries) /\ Len(s \o t) = Len(s) + Len(t) /\ Len(s) \in Nat /\ Len(t) \in Nat
  OBVIOUS
<1>2. DOMAIN (s \o t) = 1 .. Len(s) + Len(t) /\ DOMAIN s = 1 .. Len(s) /\ DOMAIN t = 1 .. Len(t)
  BY <1>1
<1>3. \A i \in 1 .. Len(s) : (s \o t)[i] = s[i] /\ i \in DOMAIN (s \o t)
  BY <1>1, <1>2
<1>4. \A i \in 1 .. Len(s) + Len(t) :
              i \notin 1 .. Len(s) => /\ i - Len(s) \in 1 .. Len(t)
                                      /\ (s \o t)[i] = t[i - Len(s)] /\ i > Len(s)
  BY <1>1
<1> QED  BY <1>1, <1>2, <1>3, <1>4

LEMMA TailPlaces ==
  ASSUME NEW s \in Seq(Entries), s # <<>>
  PROVE  /\ Tail(s) \in Seq(Entries) /\ Len(s) \in Nat \ {0}
         /\ DOMAIN Tail(s) = 1 .. Len(s) - 1 /\ DOMAIN s = 1 .. Len(s)
         /\ \A i \in DOMAIN Tail(s) : Tail(s)[i] = s[i + 1] /\ i + 1 \in DOMAIN s
         /\ Head(s) = s[1] /\ 1 \in DOMAIN s
<1>1. /\ Tail(s) \in Seq(Entries) /\ Len(s) \in Nat \ {0} /\ Len(Tail(s)) = Len(s) - 1
      /\ Head(s) = s[1]
  OBVIOUS
<1>2. DOMAIN Tail(s) = 1 .. Len(s) - 1 /\ DOMAIN s = 1 .. Len(s)
  BY <1>1
<1>3. \A i \in DOMAIN Tail(s) : Tail(s)[i] = s[i + 1] /\ i + 1 \in DOMAIN s
  BY <1>1, <1>2
<1> QED  BY <1>1, <1>2, <1>3

LEMMA UpshotOfMore ==
  ASSUME NEW s \in Seq(Entries), NEW t \in Seq(Entries), \A i \in DOMAIN t : t[i].k \notin Notices, NEW up \in BOOLEAN, NEW m, NEW on, NEW of,
         ComesTo(s, up, m, on, of)
  PROVE  ComesTo(s \o t, up, m, on, of)
<1>2. \A i \in DOMAIN (s \o t) : (s \o t)[i].k \in Notices => i \in DOMAIN s /\ (s \o t)[i] = s[i]
  BY ConcatFacts
<1>3. \A i \in DOMAIN s : i \in DOMAIN (s \o t) /\ (s \o t)[i] = s[i]
  BY ConcatFacts
<1>4. ASSUME NEW i, LastNotice(s \o t, i)
      PROVE  Says((s \o t)[i], up, m)
  <2>1. LastNotice(s, i) /\ (s \o t)[i] = s[i]
    BY <1>2, <1>3, <1>4 DEF LastNotice
  <2> QED  BY <2>1 DEF ComesTo
<1>5. (\A i \in DOMAIN (s \o t) : (s \o t)[i].k \notin Notices) => (on <=> up) /\ (up => of = m)
  BY <1>3 DEF ComesTo
<1> QED  BY <1>4, <1>5 DEF ComesTo

LEMMA UpshotOfNotice ==
  ASSUME NEW s \in Seq(Entries), NEW e \in Entries, e.k \in Notices, NEW up \in BOOLEAN, NEW m, NEW on,
         NEW of, Says(e, up, m)
  PROVE  ComesTo(Append(s, e), up, m, on, of)
<1>1. /\ Len(s) \in Nat /\ DOMAIN Append(s, e) = 1 .. Len(s) + 1 /\ Append(s, e)[Len(s) + 1] = e
      /\ Len(s) + 1 \in 1 .. Len(s) + 1
  OBVIOUS
<1>2. ASSUME NEW i, LastNotice(Append(s, e), i)
      PROVE  i = Len(s) + 1
  BY <1>1, <1>2 DEF LastNotice
<1> QED  BY <1>1, <1>2 DEF ComesTo

LEMMA UpshotOfTail ==
  ASSUME NEW s \in Seq(Entries), s # <<>>, NEW up \in BOOLEAN, NEW m, NEW on, NEW of, NEW on2, NEW of2,
         ComesTo(s, up, m, on, of),
         Head(s).k \in Notices => (on2 <=> Head(s).k = "on_connect")
                                    /\ (Head(s).k = "on_connect" => of2 = Head(s).n),
         Head(s).k \notin Notices => on2 = on /\ of2 = of
  PROVE  ComesTo(Tail(s), up, m, on2, of2)
<1>1. /\ Len(s) \in Nat \ {0}
      /\ DOMAIN Tail(s) = 1 .. Len(s) - 1 /\ DOMAIN s = 1 .. Len(s)
      /\ \A i \in DOMAIN Tail(s) : Tail(s)[i] = s[i + 1] /\ i + 1 \in DOMAIN s
      /\ Head(s) = s[1] /\ 1 \in DOMAIN s
  BY TailPlaces
<1>2. \A i \in DOMAIN s : i = 1 \/ (i - 1 \in DOMAIN Tail(s) /\ Tail(s)[i - 1] = s[i])
  BY <1>1
<1>3. ASSUME NEW i, LastNotice(Tail(s), i)
      PROVE  Says(Tail(s)[i], up, m)
  <2>1. i \in 1 .. Len(s) - 1 /\ i + 1 \in DOMAIN s /\ Tail(s)[i] = s[i + 1] /\ s[i + 1].k \in Notices
    BY <1>1, <1>3 DEF LastNotice
  <2>2. ASSUME NEW j \in DOMAIN s, j > i + 1
        PROVE  s[j].k \notin Notices
    <3>1. j - 1 \in DOMAIN Tail(s) /\ Tail(s)[j - 1] = s[j] /\ j - 1 > i
      BY <1>1, <1>2, <2>1, <2>2
    <3> QED  BY <1>3, <3>1 DEF LastNotice
  <2>3. LastNotice(s, i + 1)
    BY <2>1, <2>2 DEF LastNotice
  <2> QED  BY <2>1, <2>3 DEF ComesTo
<1>4. ASSUME \A i \in DOMAIN Tail(s) : Tail(s)[i].k \notin Notices
      PROVE  (on2 <=> up) /\ (up => of2 = m)
  <2>1. \A j \in DOMAIN s : j # 1 => s[j].k \notin Notices
    BY <1>2, <1>4
  <2>2. CASE s[1].k \in Notices
    <3>1. LastNotice(s, 1)
      BY <1>1, <2>1, <2>2 DEF LastNotice
    <3>2. Says(s[1], up, m)
      BY <3>1 DEF ComesTo
    <3> QED  BY <1>1, <2>2, <3>2 DEF Says
  <2>3. CASE s[1].k \notin Notices
    BY <1>1, <2>1, <2>3 DEF ComesTo
  <2> QED  BY <2>2, <2>3
<1> QED  BY <1>3, <1>4 DEF ComesTo


(* A failure is no notice of the link. *)
LEMMA ErrorTells ==
  ASSUME ready \in Seq(Entries), NEW why \in {"no_device", "open_failed", "read_error"},
         Post(Entry("on_error", 0, why)), Up' = Up, UNCHANGED <<connected, conn, mine>>, Upshot
  PROVE  Upshot'
<1> DEFINE e == Entry("on_error", 0, why)
<1>1. e \in Entries /\ e.k = "on_error"
  BY DEF Entry, Entries
<1>2. <<e>> \in Seq(Entries) /\ ready' = ready \o <<e>> /\ DOMAIN <<e>> = {1} /\ <<e>>[1] = e
  BY <1>1 DEF Post, Wakeup
<1>3. Up \in BOOLEAN
  BY DEF Up
<1> HIDE DEF e
<1>4. \A i \in DOMAIN <<e>> : <<e>>[i].k \notin Notices
  BY <1>1, <1>2, Zenon DEF Notices
<1>5. ComesTo(ready \o <<e>>, Up, mine, connected, conn)
  BY <1>2, <1>3, <1>4, UpshotOfMore DEF Upshot
<1> QED  BY <1>2, <1>5 DEF Upshot

(* Until stop() takes it, the reader's handle is the link. *)
Linked == rpc \in {"reading", "closing"} /\ mine \in open => link = mine

LEMMA LinkedKept ==
  ASSUME StatusOK, Stopped, Linked, Types, Known, [Next]_vars
  PROVE  Linked'
<1> USE DEF Linked, readerVars, linkVars
<1>1. CASE Mute
  BY <1>1 DEF Mute
<1>2. CASE Reader
  <2>1. CASE ReaderStops \/ OpenStarts \/ OpenFails \/ OpenReturns \/ OpenedTooLate \/ OpenedInTime
    BY <2>1 DEF ReaderStops, OpenStarts, OpenFails, OpenReturns, OpenedTooLate, OpenedInTime
  <2>2. CASE Publish \/ ReadResponse \/ ReadFails \/ ReadingStops \/ ReaderReports
    BY <2>2 DEF Publish, ReadResponse, ReadFails, ReadingStops, ReaderReports
  <2>3. CASE ReaderCloses
    BY <2>3 DEF ReaderCloses
  <2> QED  BY <1>2, <2>1, <2>2, <2>3 DEF Reader
<1>3. CASE StopBegins
  BY <1>3 DEF StopBegins
<1>4. CASE StopCloses
  BY <1>4 DEF StopCloses, CloseLocked
<1>5. ASSUME NEW e, Hearing(e) PROVE Linked'
  BY <1>5 DEF Hearing
<1> QED  BY <1>1, <1>2, <1>3, <1>4, <1>5, StepsTell

LEMMA UpshotKept ==
  ASSUME Types, Handed, Known, Upshot, [Next]_vars
  PROVE  Upshot'
<1>0. ready \in Seq(Entries) /\ StatusOK
  BY DEF Types, QueuesOK
<1>a. Up \in BOOLEAN /\ Up' \in BOOLEAN
  BY DEF Up
<1> USE DEF Upshot, readerVars, linkVars, portVars
<1>1. ASSUME UNCHANGED <<connected, conn, mine>>, Up' = Up, NEW t, Small(t), ready' = ready \o t
      PROVE  Upshot'
  BY <1>0, <1>1, <1>a, UpshotOfMore DEF Small
<1>2. ASSUME UNCHANGED <<ready, connected, conn>>, Up' = Up, Up => mine' = mine
      PROVE  Upshot'
  BY <1>0, <1>2 DEF ComesTo, Says
<1>3. ASSUME NEW e \in Entries, e.k \in Notices, Wakeup(e), Says(e, Up', mine')
      PROVE  Upshot'
  BY <1>0, <1>3, <1>a, UpshotOfNotice DEF Wakeup
<1>4. CASE Mute
  <2>1. UNCHANGED <<rpc, mine, connected, conn>>
    BY <1>4 DEF Mute
  <2>2. Up' = Up
    BY <2>1 DEF Up
  <2> QED  BY <1>1, <1>4, <2>1, <2>2 DEF Mute
<1>5. CASE Reader
  <2>1. CASE ReaderStops \/ OpenStarts \/ OpenReturns \/ OpenedTooLate \/ OpenedInTime
    <3>1. UNCHANGED <<ready, connected, conn>> /\ Up' = Up /\ ~Up
      BY <2>1 DEF ReaderStops, OpenStarts, OpenReturns, OpenedTooLate, OpenedInTime, Up
    <3> QED  BY <1>2, <3>1
  <2>2. CASE ReadingStops \/ ReaderCloses
    <3>1. UNCHANGED <<ready, connected, conn, mine>> /\ Up' = Up
      BY <2>2 DEF ReadingStops, ReaderCloses, Up
    <3> QED  BY <1>2, <3>1
  <2>3. CASE OpenFails
    <3>1. PICK why \in {"no_device", "open_failed"} : Post(Entry("on_error", 0, why))
      BY <2>3 DEF OpenFails
    <3>2. Up' = Up /\ ~Up /\ UNCHANGED <<connected, conn, mine>>
      BY <2>3 DEF OpenFails, Up
    <3> QED  BY <1>0, <3>1, <3>2, ErrorTells
  <2>4. CASE ReadFails
    <3>1. Post(Entry("on_error", 0, "read_error")) /\ Up' = Up /\ UNCHANGED <<connected, conn, mine>>
      BY <2>4 DEF ReadFails, Up
    <3> QED  BY <1>0, <3>1, ErrorTells
  <2>5. CASE ReadResponse
    <3>1. PICK n \in due : Post(Entry("on_bytes", n, "ok"))
      BY <2>5 DEF ReadResponse
    <3>2. n \in Call
      BY <3>1 DEF Types, CallsOK
    <3>3. Entry("on_bytes", n, "ok") \in Entries /\ Entry("on_bytes", n, "ok").k = "on_bytes"
      BY <3>2 DEF Entry, Entries
    <3>4. \E t : Small(t) /\ ready' = ready \o t
      BY <1>0, <3>1, <3>3, SmallOne DEF Post, Notices
    <3>5. Up' = Up /\ UNCHANGED <<connected, conn, mine>>
      BY <2>5 DEF ReadResponse, Up
    <3> QED  BY <1>1, <3>4, <3>5
  <2>6. CASE Publish
    <3>1. Entry("on_connect", mine, "ok") \in Entries /\ Wakeup(Entry("on_connect", mine, "ok"))
      BY <1>0, <2>6 DEF Publish, Post, Entry, Entries, StatusOK, Handed
    <3>2. Up' /\ mine' = mine
      BY <2>6 DEF Publish, Up
    <3>3. Says(Entry("on_connect", mine, "ok"), Up', mine') /\ Entry("on_connect", mine, "ok").k = "on_connect"
      BY <3>2 DEF Says, Entry
    <3> QED  BY <1>3, <3>1, <3>3 DEF Notices
  <2>7. CASE ReaderReports
    <3>1. Entry("on_disconnect", 0, "ok") \in Entries /\ Wakeup(Entry("on_disconnect", 0, "ok"))
      BY <2>7 DEF ReaderReports, Post, Entry, Entries
    <3>2. ~Up'
      BY <2>7 DEF ReaderReports, Up
    <3>3. Says(Entry("on_disconnect", 0, "ok"), Up', mine') /\ Entry("on_disconnect", 0, "ok").k = "on_disconnect"
      BY <3>2 DEF Says, Entry
    <3> QED  BY <1>3, <3>1, <3>3 DEF Notices
  <2> QED  BY <1>5, <2>1, <2>2, <2>3, <2>4, <2>5, <2>6, <2>7 DEF Reader
<1>6. CASE StopBegins \/ StopCloses
  <2>1. UNCHANGED <<ready, connected, conn, mine, rpc>>
    BY <1>6 DEF StopBegins, StopCloses
  <2> QED  BY <1>2, <2>1 DEF Up
<1>7. ASSUME NEW e, Hearing(e) PROVE Upshot'
  <2>1. /\ ready # <<>> /\ e = Head(ready) /\ UNCHANGED <<rpc, mine>>
        /\ e.k = "on_connect" => connected' = TRUE /\ conn' = e.n
        /\ e.k = "on_disconnect" => connected' = FALSE
        /\ e.k \notin Notices => UNCHANGED <<connected, conn>>
    BY <1>7 DEF Hearing, Notices
  <2>2. PICK t : Small(t) /\ ready' = Tail(ready) \o t
    BY <1>7, WokeIsSmall DEF Hearing
  <2>3. /\ e.k \in Notices => (connected' <=> e.k = "on_connect")
                               /\ (e.k = "on_connect" => conn' = e.n)
        /\ e.k \notin Notices => connected' = connected /\ conn' = conn
    BY <2>1 DEF Notices
  <2>4. ComesTo(Tail(ready), Up, mine, connected', conn')
    BY <1>0, <1>a, <2>1, <2>3, UpshotOfTail
  <2>5. Tail(ready) \in Seq(Entries)
    BY <1>0, <2>1, TailPlaces
  <2>6. Up' = Up
    BY <2>1 DEF Up
  <2> QED  BY <1>a, <2>1, <2>2, <2>4, <2>5, <2>6, UpshotOfMore DEF Small
<1> QED  BY <1>4, <1>5, <1>6, <1>7, StepsTell

-------------------------------------------------------------------------------
(* Why a port is down. At each place of the queue a failure has been told     *)
(* since the last connect, or the port gives a reason now and no connect       *)
(* comes first to take it away.                                                *)

Reasoned(s, k, r) ==
  \/ \E j \in DOMAIN s : /\ j < k /\ s[j].k = "on_error"
                         /\ \A m \in DOMAIN s : j < m /\ m < k => s[m].k # "on_connect"
  \/ r # "none" /\ \A m \in DOMAIN s : m < k => s[m].k # "on_connect"

(* Every disconnect the port will hear of has a reason ahead of it. *)
Excused ==
  /\ held => stopping
  /\ ~stopping =>
       /\ \A i \in DOMAIN ready : ready[i].k = "on_disconnect" => Reasoned(ready, i, reason)
       /\ rpc \in {"closing", "closed"} => Reasoned(ready, Len(ready) + 1, reason)
       /\ ~connected => reason # "none"

LEMMA ReasonedOfMore ==
  ASSUME NEW s \in Seq(Entries), NEW t \in Seq(Entries), NEW r,
         NEW k \in 1 .. Len(s) + 1, Reasoned(s, k, r)
  PROVE  Reasoned(s \o t, k, r)
<1>1. DOMAIN s = 1 .. Len(s) /\ Len(s) \in Nat
  BY ConcatFacts
<1>2. \A i \in DOMAIN s : i \in DOMAIN (s \o t) /\ (s \o t)[i] = s[i]
  BY <1>1, ConcatFacts
<1>3. \A m \in DOMAIN (s \o t) : m < k => m \in DOMAIN s
  <2>1. DOMAIN (s \o t) \subseteq Nat \ {0}
    BY ConcatFacts
  <2> QED  BY <1>1, <2>1
<1>4. CASE r # "none" /\ \A m \in DOMAIN s : m < k => s[m].k # "on_connect"
  BY <1>2, <1>3, <1>4 DEF Reasoned
<1>5. ASSUME NEW j \in DOMAIN s, j < k, s[j].k = "on_error",
             \A m \in DOMAIN s : j < m /\ m < k => s[m].k # "on_connect"
      PROVE  Reasoned(s \o t, k, r)
  BY <1>2, <1>3, <1>5 DEF Reasoned
<1> QED  BY <1>4, <1>5 DEF Reasoned

(* What is posted behind changes nothing at the end either, short of a connect. *)
LEMMA ReasonedAtEnd ==
  ASSUME NEW s \in Seq(Entries), NEW t \in Seq(Entries), NEW r,
         \A i \in DOMAIN t : t[i].k # "on_connect",
         Reasoned(s, Len(s) + 1, r)
  PROVE  Reasoned(s \o t, Len(s \o t) + 1, r)
<1>1. /\ s \o t \in Seq(Entries) /\ Len(s) \in Nat /\ Len(t) \in Nat /\ Len(s \o t) = Len(s) + Len(t)
      /\ DOMAIN (s \o t) = 1 .. Len(s) + Len(t) /\ DOMAIN s = 1 .. Len(s)
  BY ConcatFacts
<1>2. \A i \in DOMAIN s : i \in DOMAIN (s \o t) /\ (s \o t)[i] = s[i] /\ i < Len(s \o t) + 1
  BY <1>1, ConcatFacts
<1>3. \A m \in DOMAIN (s \o t) : (s \o t)[m].k = "on_connect" =>
          m \in DOMAIN s /\ s[m].k = "on_connect" /\ m < Len(s) + 1
  <2>1. \A m \in DOMAIN (s \o t) : m \in DOMAIN s \/ (m - Len(s) \in DOMAIN t /\ (s \o t)[m] = t[m - Len(s)])
    BY ConcatFacts
  <2> QED  BY <1>1, <1>2, <2>1
<1>4. CASE r # "none" /\ \A m \in DOMAIN s : m < Len(s) + 1 => s[m].k # "on_connect"
  BY <1>3, <1>4 DEF Reasoned
<1>5. ASSUME NEW j \in DOMAIN s, s[j].k = "on_error",
             \A m \in DOMAIN s : j < m /\ m < Len(s) + 1 => s[m].k # "on_connect"
      PROVE  Reasoned(s \o t, Len(s \o t) + 1, r)
  <2>1. j \in DOMAIN (s \o t) /\ j < Len(s \o t) + 1 /\ (s \o t)[j].k = "on_error"
    BY <1>2, <1>5
  <2>2. \A m \in DOMAIN (s \o t) : j < m /\ m < Len(s \o t) + 1 => (s \o t)[m].k # "on_connect"
    BY <1>3, <1>5
  <2> QED  BY <2>1, <2>2 DEF Reasoned
<1> QED  BY <1>4, <1>5 DEF Reasoned

(* The head is run: a failure becomes the reason, a connect ends it. *)
LEMMA ReasonedOfTail ==
  ASSUME NEW s \in Seq(Entries), s # <<>>, NEW r, NEW r2, NEW k \in 2 .. Len(s) + 1,
         Reasoned(s, k, r),
         Head(s).k = "on_error" => r2 # "none",
         Head(s).k \notin {"on_error", "on_connect"} => r2 = r
  PROVE  Reasoned(Tail(s), k - 1, r2)
<1>1. /\ Len(s) \in Nat \ {0}
      /\ DOMAIN Tail(s) = 1 .. Len(s) - 1 /\ DOMAIN s = 1 .. Len(s)
      /\ \A i \in DOMAIN Tail(s) : Tail(s)[i] = s[i + 1] /\ i + 1 \in DOMAIN s
      /\ Head(s) = s[1] /\ 1 \in DOMAIN s
  BY TailPlaces
<1>2. \A i \in DOMAIN s : i # 1 => i - 1 \in DOMAIN Tail(s) /\ Tail(s)[i - 1] = s[i]
  BY <1>1
<1>3. CASE r # "none" /\ \A m \in DOMAIN s : m < k => s[m].k # "on_connect"
  <2>1. s[1].k # "on_connect" /\ r2 # "none"
    BY <1>1, <1>3
  <2>2. \A m \in DOMAIN Tail(s) : m < k - 1 => Tail(s)[m].k # "on_connect"
    <3> SUFFICES ASSUME NEW m \in DOMAIN Tail(s), m < k - 1 PROVE Tail(s)[m].k # "on_connect"
      OBVIOUS
    <3>1. m + 1 \in DOMAIN s /\ m + 1 < k /\ Tail(s)[m] = s[m + 1]
      BY <1>1
    <3> QED  BY <1>3, <3>1
  <2> QED  BY <2>1, <2>2 DEF Reasoned
<1>4. ASSUME NEW j \in DOMAIN s, j < k, s[j].k = "on_error",
             \A m \in DOMAIN s : j < m /\ m < k => s[m].k # "on_connect"
      PROVE  Reasoned(Tail(s), k - 1, r2)
  <2>1. ASSUME NEW m \in DOMAIN Tail(s), m < k - 1, m > j - 1 PROVE Tail(s)[m].k # "on_connect"
    <3>1. m + 1 \in DOMAIN s /\ m + 1 < k /\ j < m + 1 /\ Tail(s)[m] = s[m + 1]
      BY <1>1, <2>1
    <3> QED  BY <1>4, <3>1
  <2>2. CASE j = 1
    <3>1. r2 # "none"
      BY <1>1, <1>4, <2>2
    <3>2. \A m \in DOMAIN Tail(s) : m > j - 1
      BY <1>1, <2>2
    <3> QED  BY <2>1, <3>1, <3>2 DEF Reasoned
  <2>3. CASE j # 1
    <3>1. j - 1 \in DOMAIN Tail(s) /\ j - 1 < k - 1 /\ Tail(s)[j - 1].k = "on_error"
      BY <1>1, <1>2, <1>4, <2>3
    <3> QED  BY <2>1, <3>1 DEF Reasoned
  <2> QED  BY <2>2, <2>3
<1> QED  BY <1>3, <1>4 DEF Reasoned

(* A disconnect at the head finds the reason given. *)
LEMMA ReasonedFirst ==
  ASSUME NEW s \in Seq(Entries), NEW r, Reasoned(s, 1, r)
  PROVE  r # "none"
<1>1. DOMAIN s \subseteq Nat \ {0}
  OBVIOUS
<1> QED  BY <1>1 DEF Reasoned

LEMMA ExcusedMore ==
  ASSUME ready \in Seq(Entries), Excused, NEW t, Small(t), ready' = ready \o t,
         UNCHANGED <<held, stopping, reason, connected>>,
         rpc' = rpc
  PROVE  Excused'
<1>1. /\ t \in Seq(Entries)
      /\ \A i \in DOMAIN t : t[i].k \notin {"on_connect", "on_disconnect"}
  BY DEF Small, Notices
<1>2. Len(ready) \in Nat /\ DOMAIN ready = 1 .. Len(ready)
  OBVIOUS
<1> SUFFICES ASSUME ~stopping
             PROVE  /\ \A i \in DOMAIN ready' : ready'[i].k = "on_disconnect" => Reasoned(ready', i, reason)
                    /\ rpc \in {"closing", "closed"} => Reasoned(ready', Len(ready') + 1, reason)
                    /\ ~connected => reason # "none"
  BY DEF Excused
<1>3. ASSUME NEW i \in DOMAIN ready', ready'[i].k = "on_disconnect"
      PROVE  Reasoned(ready', i, reason)
  <2>1. i \in DOMAIN ready /\ ready[i] = ready'[i]
    BY <1>1, <1>3, ConcatFacts
  <2>2. Reasoned(ready, i, reason) /\ i \in 1 .. Len(ready) + 1
    BY <1>2, <1>3, <2>1 DEF Excused
  <2> QED  BY <1>1, <2>2, ReasonedOfMore
<1>4. ASSUME rpc \in {"closing", "closed"}
      PROVE  Reasoned(ready', Len(ready') + 1, reason)
  BY <1>1, <1>4, ReasonedAtEnd DEF Excused
<1> QED  BY <1>3, <1>4 DEF Excused

(* The reader posts: a failure excuses what comes behind it, a disconnect was  *)
(* excused before.                                                             *)
LEMMA ExcusedPost ==
  ASSUME ready \in Seq(Entries), Excused, NEW e \in Entries, Wakeup(e),
         UNCHANGED <<held, stopping, reason, connected>>,
         ~stopping /\ e.k = "on_disconnect" => Reasoned(ready, Len(ready) + 1, reason),
         rpc' \in {"closing", "closed"} => e.k = "on_error"
  PROVE  Excused'
<1>1. /\ <<e>> \in Seq(Entries) /\ ready' = ready \o <<e>> /\ Len(ready) \in Nat
      /\ Len(ready') = Len(ready) + 1 /\ DOMAIN ready = 1 .. Len(ready)
      /\ DOMAIN ready' = 1 .. Len(ready) + 1 /\ ready'[Len(ready) + 1] = e
      /\ \A i \in DOMAIN ready : ready'[i] = ready[i]
  BY DEF Wakeup
<1> SUFFICES ASSUME ~stopping
             PROVE  /\ \A i \in DOMAIN ready' : ready'[i].k = "on_disconnect" => Reasoned(ready', i, reason)
                    /\ rpc' \in {"closing", "closed"} => Reasoned(ready', Len(ready') + 1, reason)
                    /\ ~connected => reason # "none"
  BY DEF Excused
<1>2. ASSUME NEW i \in DOMAIN ready', ready'[i].k = "on_disconnect"
      PROVE  Reasoned(ready', i, reason)
  <2>1. i \in 1 .. Len(ready) + 1
    BY <1>1
  <2>2. Reasoned(ready, i, reason)
    <3>1. CASE i = Len(ready) + 1
      BY <1>1, <1>2, <3>1
    <3>2. CASE i # Len(ready) + 1
      <4>1. i \in DOMAIN ready /\ ready[i].k = "on_disconnect"
        BY <1>1, <1>2, <3>2
      <4> QED  BY <4>1 DEF Excused
    <3> QED  BY <3>1, <3>2
  <2> QED  BY <1>1, <2>1, <2>2, ReasonedOfMore
<1>3. ASSUME rpc' \in {"closing", "closed"}
      PROVE  Reasoned(ready', Len(ready') + 1, reason)
  <2>1. /\ Len(ready') \in DOMAIN ready' /\ ready'[Len(ready')].k = "on_error"
        /\ Len(ready') < Len(ready') + 1
        /\ \A m \in DOMAIN ready' : ~(Len(ready') < m /\ m < Len(ready') + 1)
    BY <1>1, <1>3
  <2> QED  BY <2>1 DEF Reasoned
<1> QED  BY <1>2, <1>3 DEF Excused

LEMMA ExcusedHearing ==
  ASSUME Types, Excused, NEW e, Hearing(e)
  PROVE  Excused'
<1> SUFFICES ASSUME ~stopping
             PROVE  /\ \A i \in DOMAIN ready' : ready'[i].k = "on_disconnect" => Reasoned(ready', i, reason')
                    /\ rpc \in {"closing", "closed"} => Reasoned(ready', Len(ready') + 1, reason')
                    /\ ~connected' => reason' # "none"
  BY DEF Excused, Hearing, readerVars, linkVars
<1>1. /\ ready \in Seq(Entries) /\ ready # <<>> /\ e = Head(ready) /\ e \in Entries /\ ~held
      /\ Tail(ready) \in Seq(Entries) /\ Len(ready) \in Nat \ {0} /\ Len(Tail(ready)) = Len(ready) - 1
      /\ DOMAIN Tail(ready) = 1 .. Len(ready) - 1 /\ DOMAIN ready = 1 .. Len(ready)
      /\ ready[1] = e /\ 1 \in DOMAIN ready
      /\ \A i \in DOMAIN Tail(ready) : Tail(ready)[i] = ready[i + 1] /\ i + 1 \in DOMAIN ready
  <2>1. ready \in Seq(Entries) /\ ready # <<>> /\ e = Head(ready) /\ e \in Entries /\ ~held
    BY DEF Types, QueuesOK, Hearing, Excused
  <2> QED  BY <2>1, TailPlaces
<1>2. PICK t : Small(t) /\ ready' = Tail(ready) \o t
  BY WokeIsSmall DEF Hearing
<1>3. /\ t \in Seq(Entries)
      /\ \A i \in DOMAIN t : t[i].k \notin {"on_connect", "on_disconnect"}
  BY <1>2 DEF Small, Notices
<1>4. /\ e.k = "on_error" => reason' # "none" /\ connected' = connected
      /\ e.k \notin {"on_error", "on_connect"} => reason' = reason
      /\ e.k = "on_connect" => connected' = TRUE
      /\ e.k \notin Notices => connected' = connected
  <2>1. e.k = "on_error" => e.w # "none"
    BY <1>1 DEF Entries
  <2> QED  BY <1>1, <2>1 DEF Hearing, Notices
<1>5. ASSUME NEW i \in DOMAIN ready', ready'[i].k = "on_disconnect"
      PROVE  Reasoned(ready', i, reason')
  <2>1. i \in DOMAIN Tail(ready) /\ Tail(ready)[i].k = "on_disconnect"
    BY <1>1, <1>2, <1>3, <1>5, ConcatFacts
  <2>2. /\ i + 1 \in DOMAIN ready /\ ready[i + 1].k = "on_disconnect"
        /\ i + 1 \in 2 .. Len(ready) + 1 /\ i \in 1 .. Len(Tail(ready)) + 1 /\ (i + 1) - 1 = i
    BY <1>1, <2>1
  <2>3. Reasoned(ready, i + 1, reason)
    BY <2>2 DEF Excused
  <2>4. Reasoned(Tail(ready), (i + 1) - 1, reason')
    BY <1>1, <1>4, <2>2, <2>3, ReasonedOfTail
  <2>5. Reasoned(Tail(ready), i, reason')
    BY <2>2, <2>4
  <2> QED  BY <1>1, <1>2, <1>3, <2>2, <2>5, ReasonedOfMore
<1>6. ASSUME rpc \in {"closing", "closed"}
      PROVE  Reasoned(ready', Len(ready') + 1, reason')
  <2>1. Reasoned(ready, Len(ready) + 1, reason) /\ Len(ready) + 1 \in 2 .. Len(ready) + 1
    BY <1>1, <1>6 DEF Excused
  <2>2. Reasoned(Tail(ready), (Len(ready) + 1) - 1, reason')
    BY <1>1, <1>4, <2>1, ReasonedOfTail
  <2>3. (Len(ready) + 1) - 1 = Len(Tail(ready)) + 1
    BY <1>1
  <2>4. Reasoned(Tail(ready), Len(Tail(ready)) + 1, reason')
    BY <2>2, <2>3
  <2> QED  BY <1>1, <1>2, <1>3, <2>4, ReasonedAtEnd
<1>7. ~connected' => reason' # "none"
  <2>1. CASE e.k = "on_disconnect"
    <3>1. Reasoned(ready, 1, reason)
      BY <1>1, <2>1 DEF Excused
    <3>2. reason # "none"
      BY <1>1, <3>1, ReasonedFirst
    <3> QED  BY <1>4, <2>1, <3>2
  <2>2. CASE e.k # "on_disconnect"
    BY <1>4, <2>2 DEF Excused, Notices
  <2> QED  BY <2>1, <2>2
<1> QED  BY <1>5, <1>6, <1>7

LEMMA ExcusedKept ==
  ASSUME Types, Known, Stopped, Handed, Excused, [Next]_vars
  PROVE  Excused'
<1>0. ready \in Seq(Entries) /\ StatusOK
  BY DEF Types, QueuesOK
<1> USE DEF readerVars, linkVars, portVars
<1>1. CASE Mute
  BY <1>0, <1>1, ExcusedMore DEF Mute
<1>2. CASE Reader
  <2>0. UNCHANGED <<held, stopping, reason, connected>>
    BY <1>2 DEF Reader, ReaderStops, OpenStarts, OpenFails, OpenReturns, OpenedTooLate,
         OpenedInTime, Publish, ReadResponse, ReadFails, ReadingStops, ReaderCloses, CloseLocked,
         ReaderReports
  <2>1. CASE ReaderStops \/ OpenStarts \/ OpenReturns \/ OpenedTooLate \/ OpenedInTime
             \/ ReadingStops \/ ReaderCloses
    <3>1. ready' = ready /\ (~stopping /\ rpc' \in {"closing", "closed"} => rpc \in {"closing", "closed"})
      BY <2>1 DEF ReaderStops, OpenStarts, OpenReturns, OpenedTooLate, OpenedInTime, ReadingStops,
           ReaderCloses
    <3> QED  BY <2>0, <3>1 DEF Excused
  <2>2. CASE OpenFails
    <3>1. PICK why \in {"no_device", "open_failed"} : Wakeup(Entry("on_error", 0, why))
      BY <2>2 DEF OpenFails, Post
    <3>2. Entry("on_error", 0, why) \in Entries /\ Entry("on_error", 0, why).k = "on_error"
      BY DEF Entry, Entries
    <3> QED  BY <1>0, <2>0, <3>1, <3>2, ExcusedPost
  <2>3. CASE ReadFails
    <3>1. Wakeup(Entry("on_error", 0, "read_error"))
      BY <2>3 DEF ReadFails, Post
    <3>2. Entry("on_error", 0, "read_error") \in Entries
            /\ Entry("on_error", 0, "read_error").k = "on_error"
      BY DEF Entry, Entries
    <3> QED  BY <1>0, <2>0, <3>1, <3>2, ExcusedPost
  <2>4. CASE ReadResponse
    <3>1. PICK n \in due : Wakeup(Entry("on_bytes", n, "ok"))
      BY <2>4 DEF ReadResponse, Post
    <3>2. n \in Call
      BY <3>1 DEF Types, CallsOK
    <3>3. Entry("on_bytes", n, "ok") \in Entries /\ Entry("on_bytes", n, "ok").k = "on_bytes"
      BY <3>2 DEF Entry, Entries
    <3>4. PICK t : Small(t) /\ ready' = ready \o t
      BY <1>0, <3>1, <3>3, SmallOne DEF Notices
    <3> QED  BY <1>0, <2>0, <2>4, <3>4, ExcusedMore DEF ReadResponse
  <2>5. CASE Publish
    <3>1. /\ Entry("on_connect", mine, "ok") \in Entries
          /\ Entry("on_connect", mine, "ok").k = "on_connect"
          /\ Wakeup(Entry("on_connect", mine, "ok")) /\ rpc' = "reading"
      BY <1>0, <2>5 DEF Publish, Post, Entry, Entries, StatusOK, Handed
    <3> QED  BY <1>0, <2>0, <3>1, ExcusedPost
  <2>6. CASE ReaderReports
    <3>1. /\ Entry("on_disconnect", 0, "ok") \in Entries
          /\ Entry("on_disconnect", 0, "ok").k = "on_disconnect"
          /\ Wakeup(Entry("on_disconnect", 0, "ok")) /\ rpc = "closed" /\ rpc' = "retry"
      BY <2>6 DEF ReaderReports, Post, Entry, Entries
    <3>2. ~stopping => Reasoned(ready, Len(ready) + 1, reason)
      BY <3>1 DEF Excused
    <3> QED  BY <1>0, <2>0, <3>1, <3>2, ExcusedPost
  <2> QED  BY <1>2, <2>1, <2>2, <2>3, <2>4, <2>5, <2>6 DEF Reader
<1>3. CASE StopBegins
  BY <1>3 DEF StopBegins, Excused
<1>4. CASE StopCloses
  BY <1>4 DEF StopCloses, CloseLocked, Excused
<1>5. ASSUME NEW e, Hearing(e) PROVE Excused'
  BY <1>5, ExcusedHearing
<1> QED  BY <1>1, <1>2, <1>3, <1>4, <1>5, StepsTell

(* The three together, and what they come to. *)
StatusInv == Upshot /\ Linked /\ Excused

LEMMA StatusInit == Init => StatusInv
<1> SUFFICES ASSUME Init PROVE StatusInv
  OBVIOUS
<1>1. ready = <<>> /\ DOMAIN ready = {}
  BY DEF Init
<1> QED  BY <1>1 DEF Init, StatusInv, Upshot, ComesTo, LastNotice, Up, Linked, Excused

LEMMA StatusAlways == Spec => [](IInv /\ StatusInv)
<1>1. IInv /\ StatusInv /\ [Next]_vars => StatusInv'
  BY UpshotKept, LinkedKept, ExcusedKept DEF IInv, Handles, Types, StatusInv
<1> QED  BY <1>1, InitEstablishes, StepKeeps, StatusInit, PTL DEF Spec

LEMMA QuietIsTold ==
  ASSUME Types, Handed, Upshot, Linked
  PROVE  LinkIsTold
<1> SUFFICES ASSUME ~(rpc = "closed"), ~(rpc \in {"reading", "closing"} /\ mine \notin open),
                    ~Noticed("on_connect"), ~Noticed("on_disconnect")
             PROVE  connected = (link # 0) /\ (connected => conn = link)
  BY DEF LinkIsTold
<1>1. \A i \in DOMAIN ready : ready[i].k \notin Notices
  BY DEF Noticed, Notices, Range
<1>2. (connected <=> Up) /\ (Up => conn = mine)
  BY <1>1 DEF Upshot, ComesTo
<1>3. connected \in BOOLEAN
  BY DEF Types, FlagsOK
<1>4. CASE Up
  <2>1. rpc \in {"reading", "closing"} /\ link = mine /\ mine # 0
    <3>1. rpc \in {"reading", "closing"} /\ mine \in open
      BY <1>4 DEF Up
    <3> QED  BY <3>1 DEF Linked, Types, StatusOK
  <2> QED  BY <1>2, <1>3, <1>4, <2>1
<1>5. CASE ~Up
  <2>1. link = 0
    BY <1>5 DEF Handed, Up
  <2> QED  BY <1>2, <1>3, <1>5, <2>1
<1> QED  BY <1>4, <1>5

(* Once the loop has run what the reader posted, the port's status is the     *)
(* link's, whoever closed it; and a port that is down and still trying always  *)
(* gives a reason.                                                             *)
THEOREM StatusAlwaysSettles == Spec => []StatusSettles
<1>1. Excused => ReasonWhileDown
  BY DEF Excused, ReasonWhileDown
<1>2. IInv /\ StatusInv => StatusSettles
  BY <1>1, QuietIsTold DEF IInv, Handles, StatusInv, StatusSettles
<1> QED  BY <1>2, StatusAlways, PTL

-------------------------------------------------------------------------------
(* Commands whose line went out on a link that is gone. *)

(* A call knows its link once its write has begun. *)
ViaKnown ==
  /\ \A c \in Call : pc[c] \in {"uncalled", "queued"} => via[c] = 0
  /\ \A c \in Call : pc[c] \in {"logging", "awaiting"} => via[c] # 0
  /\ \A e \in Range(ready) : e.k = "written" /\ e.w = "ok" => via[e.n] # 0

(* Something is under way that fails it. *)
Doomed(c) ==
  \/ mine = via[c] /\ Up
  \/ Noticed("on_disconnect")
  \/ stopPc \notin {"off", "stopped"}

Waits(c) == pc[c] \in InFlight /\ fut[c].k = "waits"

DeadLinks == \A c \in Call : Waits(c) /\ via[c] \notin {0, link} => Doomed(c)

LEMMA ViaMoves ==
  ASSUME [Next]_vars
  PROVE  via' = via \/ \E c \in Call : WriteStarts(c)
<1>1. CASE Reader
  BY <1>1 DEF callVars, Reader, ReaderStops, OpenStarts, OpenFails, OpenReturns, OpenedTooLate,
       OpenedInTime, Publish, ReadResponse, ReadFails, ReadingStops, ReaderCloses, ReaderReports
<1>2. CASE RunReady
  BY <1>2, RunReadyLeaves
<1>3. CASE Ask \/ StoresLine
  BY <1>3 DEF Ask, StoresLine, callVars
<1>4. ASSUME NEW c \in Call, Pool(c) \/ Client(c), ~WriteStarts(c)
      PROVE  via' = via
  BY <1>4 DEF Pool, WriteRefused, WriteLands, WriteFails, WriteReturns,
       Client, BeginCommand, BeginRaw, TimesOut, Cancel, Logs, callVars
<1>5. CASE Stop
  BY <1>5 DEF Stop, StopBegins, Joined, JoinTimesOut, StopCloses, StopCancelsConsumer, StopEnds,
       callVars
<1>6. CASE UNCHANGED vars
  BY <1>6 DEF vars, callVars
<1> QED  BY <1>1, <1>2, <1>3, <1>4, <1>5, <1>6 DEF Next

LEMMA ViaOfOne ==
  ASSUME CallsOK, Fresh, [Next]_vars, NEW c \in Call
  PROVE  \/ via'[c] = via[c]
         \/ via'[c] = link /\ link # 0 /\ link' = link /\ pc' = pc /\ pc[c] \notin {"uncalled", "queued"}
<1>1. CASE via' = via
  BY <1>1
<1>2. ASSUME NEW d \in Call, WriteStarts(d)
      PROVE  \/ via'[c] = via[c]
             \/ /\ via'[c] = link /\ link # 0 /\ link' = link /\ pc' = pc
                /\ pc[c] \notin {"uncalled", "queued"}
  <2>1. /\ via' = [via EXCEPT ![d] = link] /\ link # 0 /\ link' = link /\ pc' = pc /\ d \in pooled
    BY <1>2 DEF WriteStarts
  <2>2. pc[d] \notin {"uncalled", "queued"}
    BY <2>1 DEF Fresh, FreshCall
  <2> QED  BY <2>1, <2>2 DEF CallsOK
<1> QED  BY <1>1, <1>2, ViaMoves

(* Who waits after a step waited before it, or has just begun. *)
LEMMA WaitedBefore ==
  ASSUME CallsOK, Fresh, PendingExact, Known, Types, CallStep, NEW c \in Call, Waits(c)'
  PROVE  /\ Waits(c) \/ BeginCommand(c)
         /\ ~FailPending
<1> USE DEF Waits
<1>1. ASSUME Quiet PROVE Waits(c)
  BY <1>1 DEF Quiet
<1>2. ASSUME Comes PROVE Waits(c)
  <2>1. PICK n \in Call : pc[n] = "uncalled" /\ pc' = [pc EXCEPT ![n] = "queued"]
    BY <1>2, ComesQueued
  <2>2. pc[c] = pc'[c]
    BY <2>1 DEF CallsOK, InFlight
  <2> QED  BY <1>2, <2>2 DEF Comes
<1>3. ASSUME Fails PROVE Waits(c)
  BY <1>3 DEF Fails, FailPending, No
<1>4. ASSUME NEW d \in Call, BeginCommand(d) PROVE Waits(c) \/ BeginCommand(c)
  BY <1>4 DEF BeginCommand, CallsOK
<1>5. ASSUME NEW d \in Call, BeginRaw(d) PROVE Waits(c)
  <2>1. pc' = [pc EXCEPT ![d] = "writing"] /\ fut' = fut /\ kind[d] = "raw"
    BY <1>5 DEF BeginRaw
  <2>2. c # d
    BY <2>1, NoneIsNoWait DEF Fresh, FreshCall
  <2> QED  BY <2>1, <2>2 DEF CallsOK
<1>6. ASSUME NEW d \in Call, Moves(d) PROVE Waits(c)
  BY <1>6 DEF Moves, CallsOK
<1>7. ASSUME NEW d \in Call, Leaves(d) PROVE Waits(c)
  BY <1>7 DEF Leaves, Leave, CallsOK, InFlight
<1>8. ASSUME NEW d \in Call, Settles(d) PROVE Waits(c)
  <2>1. fut' = fut \/ fut'[c] = fut[c] \/ \E outcome \in {Got(d), No("error")} : fut'[c] = outcome
    BY <1>8 DEF Settles, CallsOK
  <2>2. pc' = pc /\ \A outcome \in {Got(d), No("error")} : outcome.k # "waits"
    BY <1>8 DEF Settles, Got, No
  <2> QED  BY <2>1, <2>2
<1>9. Waits(c) \/ BeginCommand(c)
  BY <1>1, <1>2, <1>3, <1>4, <1>5, <1>6, <1>7, <1>8 DEF CallStep
<1>10. ASSUME FailPending PROVE FALSE
  <2>1. CASE Waits(c)
    <3>1. pending[seq[c]] = c /\ seq[c] \in Seq1
      BY <2>1 DEF PendingExact, Fresh, FreshCall, CallsOK, Seq1, No
    <3>2. c \in Registered
      BY <3>1 DEF Registered
    <3>3. fut'[c] = No("error")
      BY <1>10, <2>1, <3>2 DEF FailPending
    <3> QED  BY <3>3 DEF No
  <2>2. CASE ~Waits(c)
    <3>1. fut'[c] = fut[c] \/ fut'[c] = No("error")
      BY <1>10 DEF FailPending
    <3>2. BeginCommand(c)
      BY <1>9, <2>2
    <3>3. pc[c] = "queued"
      BY <3>2, BeginsAlone
    <3>4. fut[c] = No("none")
      BY <3>3 DEF Fresh, FreshCall
    <3> QED  BY <3>1, <3>4 DEF No
  <2> QED  BY <2>1, <2>2
<1> QED  BY <1>9, <1>10

LEMMA AppendedOne ==
  ASSUME NEW s \in Seq(Entries), NEW x
  PROVE  Range(Append(s, x)) = Range(s) \cup {x}
<1>1. s \in Seq(Entries \cup {x})
  OBVIOUS
<1> QED  BY <1>1, RangeOfAppend

(* The write pool alone posts that a write is through. *)
LEMMA WrittenPosted ==
  ASSUME Types, Known, [Next]_vars, NEW e \in Range(ready'), e.k = "written", e.w = "ok"
  PROVE  e \in Range(ready) \/ \E c \in Call : WriteLands(c) /\ e = Entry("written", c, "ok")
<1>0. ready \in Seq(Entries) /\ lines \in Seq(Call)
  BY DEF Types, QueuesOK
<1>1. ASSUME NEW x, Wakeup(x), x.k # "written" \/ x.w # "ok"
      PROVE  e \in Range(ready)
  BY <1>0, <1>1, AppendedOne DEF Wakeup
<1>2. CASE UNCHANGED ready
  BY <1>2
<1>3. CASE Reader
  <2>1. CASE UNCHANGED ready
    BY <2>1
  <2>2. CASE ~UNCHANGED ready
    <3>1. \E n, w : \E k \in {"on_connect", "on_disconnect", "on_error", "on_bytes"} : Wakeup(Entry(k, n, w))
      BY <1>3, <2>2 DEF Reader, ReaderStops, OpenStarts, OpenFails, OpenReturns, OpenedTooLate,
           OpenedInTime, Publish, ReadResponse, ReadFails, ReadingStops, ReaderCloses, ReaderReports, Post
    <3> QED  BY <1>1, <3>1 DEF Entry
  <2> QED  BY <2>1, <2>2
<1>4. CASE RunReady
  <2>1. PICK h : Hearing(h)
    BY <1>4, RunReadyHears
  <2>2. PICK t : Woke(t) /\ ready' = Tail(ready) \o t
    BY <2>1 DEF Hearing
  <2>3. Range(ready') = Range(Tail(ready)) \cup Range(t) /\ Range(Tail(ready)) \subseteq Range(ready)
    <3>1. ready # <<>> /\ t \in Seq(Entries)
      BY <2>1, <2>2 DEF Hearing, Woke
    <3>2. Tail(ready) \in Seq(Entries) /\ Range(Tail(ready)) \subseteq Range(ready)
      BY <1>0, <3>1, RangeOfTail
    <3>3. \A u \in Seq(Entries) : Range(u \o t) = Range(u) \cup Range(t)
      BY <3>1, RangeOfConcat
    <3>4. Range(Tail(ready) \o t) = Range(Tail(ready)) \cup Range(t)
      BY <3>2, <3>3
    <3> QED  BY <2>2, <3>2, <3>4
  <2>4. e \notin Range(t)
    BY <2>2 DEF Woke, Range
  <2> QED  BY <2>3, <2>4
<1>5. CASE StoresLine
  <2>1. \E n, w : Wakeup(Entry("settle", n, w))
    BY <1>5 DEF StoresLine
  <2> QED  BY <1>1, <2>1 DEF Entry
<1>6. ASSUME NEW c \in Call, Pool(c) \/ Client(c)
      PROVE  e \in Range(ready) \/ (WriteLands(c) /\ e = Entry("written", c, "ok"))
  <2>1. CASE WriteLands(c)
    BY <1>0, <2>1, AppendedOne DEF WriteLands, WriteReturns, Wakeup
  <2>2. CASE WriteRefused(c) \/ WriteFails(c)
    <3>1. Wakeup(Entry("written", c, "failed"))
      BY <2>2 DEF WriteRefused, WriteFails, WriteReturns
    <3> QED  BY <1>1, <3>1 DEF Entry
  <2>3. CASE Logs(c)
    <3>1. \E w : Wakeup(Entry("logged", c, w))
      BY <2>3 DEF Logs
    <3> QED  BY <1>1, <3>1 DEF Entry
  <2>4. CASE WriteStarts(c) \/ BeginCommand(c) \/ BeginRaw(c) \/ TimesOut(c) \/ Cancel(c)
    BY <1>2, <2>4 DEF WriteStarts, BeginCommand, BeginRaw, TimesOut, Cancel
  <2> QED  BY <1>6, <2>1, <2>2, <2>3, <2>4 DEF Pool, Client
<1>7. CASE Stop
  <2>1. CASE StopEnds
    <3>1. {c \in Registered : WaitsForFuture(c)} \in SUBSET Call
      BY DEF Registered
    <3>2. FailedWakes \in Seq(Entries) /\ \A x \in Range(FailedWakes) : x.k = "woken"
      BY <3>1, WakesWake DEF FailedWakes
    <3>3. Range(ready') = Range(ready) \cup Range(FailedWakes)
      BY <1>0, <2>1, <3>2, RangeOfConcat DEF StopEnds
    <3> QED  BY <3>2, <3>3
  <2>2. CASE StopBegins \/ Joined \/ JoinTimesOut \/ StopCloses \/ StopCancelsConsumer
    BY <1>2, <2>2 DEF StopBegins, Joined, JoinTimesOut, StopCloses, StopCancelsConsumer
  <2> QED  BY <1>7, <2>1, <2>2 DEF Stop
<1>8. CASE Ask \/ UNCHANGED vars
  BY <1>2, <1>8 DEF Ask, vars
<1> QED  BY <1>3, <1>4, <1>5, <1>6, <1>7, <1>8 DEF Next

LEMMA ViaKnownKept ==
  ASSUME Types, QueuesOK', Fresh, Known, Locked, ViaKnown, [Next]_vars
  PROVE  ViaKnown'
<1>0. CallsOK /\ QueuesOK /\ ready \in Seq(Entries)
  BY DEF Types, QueuesOK
<1>a. CallStep
  BY NextIsCallStep
<1>1. ASSUME NEW c \in Call, pc'[c] \in {"uncalled", "queued"} PROVE via'[c] = 0
  <2>1. pc[c] \in {"uncalled", "queued"}
    <3>1. CASE Quiet \/ Fails
      BY <1>1, <3>1 DEF Quiet, Fails
    <3>2. CASE Comes
      <4>1. PICK n \in Call : pc[n] = "uncalled" /\ pc' = [pc EXCEPT ![n] = "queued"]
        BY <1>0, <3>2, ComesQueued
      <4> QED  BY <1>0, <1>1, <4>1 DEF CallsOK
    <3>3. ASSUME NEW d \in Call, BeginCommand(d) \/ BeginRaw(d) PROVE pc[c] \in {"uncalled", "queued"}
      <4>1. pc' = [pc EXCEPT ![d] = "writing"]
        BY <3>3 DEF BeginCommand, BeginRaw
      <4> QED  BY <1>0, <1>1, <4>1 DEF CallsOK
    <3>4. ASSUME NEW d \in Call, Moves(d) PROVE pc[c] \in {"uncalled", "queued"}
      BY <1>0, <1>1, <3>4 DEF Moves, CallsOK
    <3>5. ASSUME NEW d \in Call, Leaves(d) PROVE pc[c] \in {"uncalled", "queued"}
      BY <1>0, <1>1, <3>5 DEF Leaves, Leave, CallsOK
    <3>6. ASSUME NEW d \in Call, Settles(d) PROVE pc[c] \in {"uncalled", "queued"}
      BY <1>1, <3>6 DEF Settles
    <3> QED  BY <1>a, <3>1, <3>2, <3>3, <3>4, <3>5, <3>6 DEF CallStep
  <2> QED  BY <1>0, <2>1, ViaOfOne DEF ViaKnown
<1>2. ASSUME NEW c \in Call, pc'[c] \in {"logging", "awaiting"} PROVE via'[c] # 0
  <2>1. CASE pc[c] \in {"logging", "awaiting"}
    BY <1>0, <2>1, ViaOfOne DEF ViaKnown
  <2>2. CASE pc[c] \notin {"logging", "awaiting"}
    <3>1. CASE RunReady
      <4>1. PICK e \in Entries : e \in Range(ready) /\
                 (\/ OnConnect(e) \/ OnDisconnect(e) \/ OnError(e) \/ OnBytes(e)
                  \/ Settle(e) \/ Written(e) \/ Logged(e) \/ Woken(e))
        BY <1>0, <3>1, RangeOfTail DEF RunReady
      <4>2. CASE OnConnect(e)
        BY <1>0, <1>2, <2>2, <4>2 DEF OnConnect, CallsOK
      <4>3. CASE OnDisconnect(e) \/ OnError(e) \/ OnBytes(e) \/ Settle(e)
        BY <1>2, <2>2, <4>3 DEF OnDisconnect, OnError, OnBytes, Settle, callVars
      <4>4. CASE Written(e)
        <5>1. e.n = c /\ e.w = "ok" /\ e.k = "written" /\ via' = via
          BY <1>0, <1>2, <2>2, <4>4 DEF Written, Finish, Leave, callVars, CallsOK
        <5> QED  BY <4>1, <5>1 DEF ViaKnown
      <4>5. CASE Woken(e)
        BY <1>0, <1>2, <2>2, <4>5 DEF Woken, Finish, Leave, callVars, CallsOK
      <4>6. CASE Logged(e)
        <5>1. pc' = pc \/ (pc[e.n] = "logging" /\ \E s : pc' = [pc EXCEPT ![e.n] = s])
          BY <4>6 DEF Logged, Finish, Leave, callVars
        <5> QED  BY <1>0, <1>2, <2>2, <5>1 DEF CallsOK
      <4> QED  BY <4>1, <4>2, <4>3, <4>4, <4>5, <4>6
    <3>2. CASE ~RunReady
      <4>1. CASE Reader
        BY <1>2, <2>2, <4>1 DEF callVars, Reader, ReaderStops, OpenStarts, OpenFails, OpenReturns,
             OpenedTooLate, OpenedInTime, Publish, ReadResponse, ReadFails, ReadingStops,
             ReaderCloses, ReaderReports
      <4>2. CASE Ask
        BY <1>0, <1>2, <2>2, <4>2 DEF Ask, CallsOK
      <4>3. CASE StoresLine \/ Stop \/ UNCHANGED vars
        BY <1>2, <2>2, <4>3 DEF StoresLine, callVars, vars, Stop, StopBegins, Joined, JoinTimesOut,
             StopCloses, StopCancelsConsumer, StopEnds
      <4>4. ASSUME NEW d \in Call, Pool(d) \/ Client(d) PROVE FALSE
        <5>1. pc' = pc \/ \E s \in {"writing", "done"} : pc' = [pc EXCEPT ![d] = s]
          BY <4>4 DEF Pool, WriteRefused, WriteStarts, WriteLands, WriteFails, WriteReturns,
             Client, BeginCommand, BeginRaw, TimesOut, Cancel, Leave, Logs, callVars
        <5> QED  BY <1>0, <1>2, <2>2, <5>1 DEF CallsOK
      <4> QED  BY <3>2, <4>1, <4>2, <4>3, <4>4 DEF Next
    <3> QED  BY <3>1, <3>2
  <2> QED  BY <2>1, <2>2
<1>3. ASSUME NEW e \in Range(ready'), e.k = "written", e.w = "ok" PROVE via'[e.n] # 0
  <2>1. e \in Entries /\ e.n \in Call
    <3>1. ready' \in Seq(Entries)
      BY DEF QueuesOK
    <3>2. e \in Entries
      BY <1>3, <3>1 DEF Range
    <3> QED  BY <1>3, <3>2 DEF Entries
  <2>2. e \in Range(ready) \/ \E c \in Call : WriteLands(c) /\ e = Entry("written", c, "ok")
    BY <1>0, <1>3, WrittenPosted
  <2>3. CASE e \in Range(ready)
    BY <1>0, <1>3, <2>1, <2>3, ViaOfOne DEF ViaKnown
  <2>4. ASSUME NEW c \in Call, WriteLands(c), e = Entry("written", c, "ok") PROVE via'[e.n] # 0
    BY <2>4 DEF WriteLands, WriteReturns, Locked, Entry, Call
  <2> QED  BY <2>2, <2>3, <2>4
<1> QED  BY <1>1, <1>2, <1>3 DEF ViaKnown

(* A disconnect the loop will hear of stays until the loop hears of it. *)
LEMMA NoticeStays ==
  ASSUME Types, Known, [Next]_vars, Noticed("on_disconnect"), ~FailPending
  PROVE  Noticed("on_disconnect")'
<1>0. ready \in Seq(Entries)
  BY DEF Types, QueuesOK
<1>1. PICK e \in Range(ready) : e.k = "on_disconnect"
  BY DEF Noticed
<1> SUFFICES e \in Range(ready')
  BY <1>1 DEF Noticed
<1>2. ASSUME NEW t \in Seq(Entries), ready' = ready \o t PROVE e \in Range(ready')
  BY <1>0, <1>1, <1>2, RangeOfConcat
<1>3. ASSUME NEW x, Wakeup(x) PROVE e \in Range(ready')
  BY <1>0, <1>1, <1>3, AppendedOne DEF Wakeup
<1>4. CASE UNCHANGED ready
  BY <1>1, <1>4
<1>5. CASE Mute
  BY <1>2, <1>5 DEF Mute, Small
<1>6. CASE Reader
  <2>1. CASE ~UNCHANGED ready
    <3>1. \E x : Wakeup(x)
      BY <1>6, <2>1 DEF Reader, ReaderStops, OpenStarts, OpenFails, OpenReturns, OpenedTooLate,
           OpenedInTime, Publish, ReadResponse, ReadFails, ReadingStops, ReaderCloses, ReaderReports, Post
    <3> QED  BY <1>3, <3>1
  <2> QED  BY <1>4, <2>1
<1>7. CASE StopBegins \/ StopCloses
  BY <1>4, <1>7 DEF StopBegins, StopCloses
<1>8. ASSUME NEW h, Hearing(h) PROVE e \in Range(ready')
  <2>1. h = Head(ready) /\ ready # <<>> /\ h.k # "on_disconnect"
    BY <1>8 DEF Hearing
  <2>2. PICK t \in Seq(Entries) : ready' = Tail(ready) \o t
    BY <1>8 DEF Hearing, Woke
  <2>3. /\ Tail(ready) \in Seq(Entries) /\ Len(ready) \in Nat \ {0}
        /\ DOMAIN Tail(ready) = 1 .. Len(ready) - 1 /\ DOMAIN ready = 1 .. Len(ready)
        /\ \A i \in DOMAIN Tail(ready) : Tail(ready)[i] = ready[i + 1]
        /\ Head(ready) = ready[1]
    BY <1>0, <2>1, TailPlaces
  <2>4. PICK i \in DOMAIN ready : ready[i] = e
    BY <1>1 DEF Range
  <2>5. i # 1
    BY <1>1, <2>1, <2>3, <2>4
  <2>6. i - 1 \in DOMAIN Tail(ready) /\ Tail(ready)[i - 1] = e
    BY <2>3, <2>4, <2>5
  <2>7. e \in Range(Tail(ready))
    BY <2>6 DEF Range
  <2>8. \A u \in Seq(Entries) : Range(u \o t) = Range(u) \cup Range(t)
    BY RangeOfConcat
  <2>9. e \in Range(Tail(ready) \o t)
    BY <2>3, <2>7, <2>8
  <2> QED  BY <2>2, <2>9
<1> QED  BY <1>5, <1>6, <1>7, <1>8, StepsTell

(* The line of a command goes with its link; whoever closes it has reported    *)
(* that, or is about to.                                                       *)
LEMMA DeadLinksKept ==
  ASSUME Types, Fresh, PendingExact, Known, Stopped, Handed, Linked, ViaKnown, DeadLinks, [Next]_vars
  PROVE  DeadLinks'
<1>0. CallsOK /\ StatusOK /\ CallStep
  BY NextIsCallStep DEF Types
<1> SUFFICES ASSUME NEW c \in Call, Waits(c)', via'[c] \notin {0, link'}
             PROVE  Doomed(c)'
  BY DEF DeadLinks
<1>1. (Waits(c) \/ BeginCommand(c)) /\ ~FailPending
  BY <1>0, WaitedBefore
<1>2. via'[c] = via[c]
  BY <1>0, ViaOfOne
<1>3. Waits(c)
  <2>1. ~BeginCommand(c)
    <3> SUFFICES ASSUME BeginCommand(c) PROVE FALSE
      OBVIOUS
    <3>1. pc[c] = "queued"
      BY BeginsAlone
    <3> QED  BY <1>2, <3>1 DEF ViaKnown
  <2> QED  BY <1>1, <2>1
<1>4. CASE Noticed("on_disconnect")
  BY <1>1, <1>4, NoticeStays DEF Doomed
<1>5. CASE stopPc \notin {"off", "stopped"}
  <2>1. stopPc' \notin {"off", "stopped"}
    <3>1. CASE stopPc' = stopPc
      BY <1>5, <3>1
    <3>2. CASE Stop
      BY <1>1, <1>5, <3>2 DEF Stop, StopBegins, Joined, JoinTimesOut, StopCloses,
           StopCancelsConsumer, StopEnds
    <3>3. stopPc' = stopPc \/ Stop
      <4>1. CASE Reader
        BY <4>1 DEF Reader, ReaderStops, OpenStarts, OpenFails, OpenReturns, OpenedTooLate,
             OpenedInTime, Publish, ReadResponse, ReadFails, ReadingStops, ReaderCloses, ReaderReports
      <4>2. CASE RunReady \/ Ask \/ StoresLine \/ UNCHANGED vars
        BY <4>2 DEF RunReady, Ask, StoresLine, vars
      <4>3. ASSUME NEW d \in Call, Pool(d) \/ Client(d) PROVE stopPc' = stopPc
        BY <4>3 DEF Pool, WriteRefused, WriteStarts, WriteLands, WriteFails, WriteReturns,
             Client, BeginCommand, BeginRaw, TimesOut, Cancel, Logs
      <4> QED  BY <4>1, <4>2, <4>3 DEF Next
    <3> QED  BY <3>1, <3>2, <3>3
  <2> QED  BY <2>1 DEF Doomed
<1>6. CASE ~Noticed("on_disconnect") /\ stopPc \in {"off", "stopped"}
  <2> USE DEF readerVars, linkVars
  <2>1. via[c] = link \/ (mine = via[c] /\ Up)
    BY <1>2, <1>3, <1>6 DEF DeadLinks, Doomed
  <2>2. via[c] # 0 /\ mine = via[c] /\ Up
    BY <1>2, <2>1 DEF Handed, Up
  <2>3. CASE Mute
    BY <1>2, <2>2, <2>3 DEF Mute, Doomed, Up
  <2>4. CASE Reader
    <3>1. CASE ReadResponse \/ ReadFails \/ ReadingStops \/ ReaderCloses
      <4>1. mine' = mine /\ Up'
        BY <3>1 DEF ReadResponse, ReadFails, ReadingStops, ReaderCloses, Up
      <4> QED  BY <1>2, <2>2, <4>1 DEF Doomed
    <3>2. CASE ReaderReports
      <4>1. Noticed("on_disconnect")'
        <5>1. ready \in Seq(Entries) /\ Wakeup(Entry("on_disconnect", 0, "ok"))
          BY <3>2 DEF ReaderReports, Post, Types, QueuesOK
        <5>2. Entry("on_disconnect", 0, "ok") \in Range(ready')
          BY <5>1, AppendedOne DEF Wakeup
        <5> QED  BY <5>2 DEF Noticed, Entry
      <4> QED  BY <4>1 DEF Doomed
    <3>3. CASE ReaderStops \/ OpenStarts \/ OpenFails \/ OpenReturns \/ OpenedTooLate \/ OpenedInTime
               \/ Publish
      BY <2>2, <3>3 DEF ReaderStops, OpenStarts, OpenFails, OpenReturns, OpenedTooLate, OpenedInTime,
           Publish, Up
    <3> QED  BY <2>4, <3>1, <3>2, <3>3 DEF Reader
  <2>5. CASE StopBegins \/ StopCloses
    BY <2>5 DEF StopBegins, StopCloses, Doomed
  <2>6. ASSUME NEW e, Hearing(e) PROVE Doomed(c)'
    BY <1>2, <2>2, <2>6 DEF Hearing, Doomed, Up
  <2> QED  BY <2>3, <2>4, <2>5, <2>6, StepsTell
<1> QED  BY <1>4, <1>5, <1>6

LEMMA DeadLinksInit == Init => ViaKnown /\ DeadLinks
<1> SUFFICES ASSUME Init PROVE ViaKnown /\ DeadLinks
  OBVIOUS
<1>1. Range(ready) = {}
  BY DEF Init, Range
<1> QED  BY <1>1 DEF Init, ViaKnown, DeadLinks

(* No command waits out its timeout for a link that is gone: until the        *)
(* disconnect that fails it is on its way, the reader or stop() is there that  *)
(* will post it or fail the command itself.                                    *)
THEOREM DeadLinksNeverAwaited == Spec => []DeadLinkNotAwaited
<1>1. IInv /\ IInv' /\ StatusInv /\ ViaKnown /\ DeadLinks /\ [Next]_vars => ViaKnown' /\ DeadLinks'
  BY ViaKnownKept, DeadLinksKept DEF IInv, Handles, Types, StatusInv
<1>2. ViaKnown /\ DeadLinks => DeadLinkNotAwaited
  <2> SUFFICES ASSUME ViaKnown, DeadLinks, NEW c \in Call, WaitsForFuture(c), via[c] # link
               PROVE  \/ mine = via[c] /\ rpc \in {"reading", "closing", "closed"}
                      \/ Noticed("on_disconnect")
                      \/ stopPc \notin {"off", "stopped"}
    BY DEF DeadLinkNotAwaited
  <2>1. Waits(c) /\ via[c] # 0
    BY DEF WaitsForFuture, Waits, InFlight, ViaKnown
  <2> QED  BY <2>1 DEF DeadLinks, Doomed, Up
<1> QED  BY <1>1, <1>2, StatusAlways, DeadLinksInit, PTL DEF Spec
===============================================================================
