---------------------------- MODULE RxIngestProofs -----------------------------
(***************************************************************************)
(* The proof that no received line goes missing uncounted (RxIngest), for  *)
(* any caps, any names and any bursts. What makes it work is the order of  *)
(* the lines: the consumer hands them on in the order they ended, so a     *)
(* line it settles is none the store has already.                          *)
(***************************************************************************)
EXTENDS RxIngest, FiniteSetTheorems, SequenceTheorems, TLAPS

(* The bounds the code gives its buffers, and the names it allows a port. *)
Bounds ==
  /\ Cap \in Nat /\ QueueMax \in Nat /\ BatchMax \in Nat \ {0}
  /\ NamesMax \in Nat /\ MaxLines \in Nat

Name   == Names \cup {None}
Number == Nat \ {0}

(* What a port keeps of its lines. *)
Shapes ==
  /\ buf \in 0 .. Cap + 1 /\ discarding \in BOOLEAN /\ overflowing \in BOOLEAN
  /\ wake \in BOOLEAN /\ stopping \in BOOLEAN
  /\ queue \in Seq(Number) /\ batch \in Seq(Number)
  /\ prepared \in Seq([n : Number, name : Name, fresh : SUBSET Names])
  /\ rxDropped \in Nat /\ unstorable \in Nat /\ begun \in Nat /\ ended \in Nat
  /\ begun <= MaxLines
  /\ plotNames \in SUBSET Names
  /\ IsFiniteSet(plotNames) /\ IsFiniteSet(stored) /\ IsFiniteSet(left)

(* What is being discarded is not kept. *)
NothingKept == discarding => buf = 0

(* A line that was cut out whole had begun, and so has the one arriving. *)
EndedBegan == ended <= begun /\ (buf > 0 => ended < begun)

(* Where the consumer stands says what it holds; where stop() stands says   *)
(* whether there is a consumer.                                             *)
Phases ==
  /\ pc \in {"waits", "submits", "full", "settles", "ended"}
  /\ stopPc \in {"off", "joins", "cancels", "counts", "done"}
  /\ pc \in {"waits", "ended"} => batch = <<>> /\ prepared = <<>>
  /\ pc = "settles" => batch = <<>>
  /\ pc \in {"submits", "full"} => batch # <<>>
  /\ pc = "ended" <=> stopPc \in {"counts", "done"}
  /\ pc # "ended" => left = {}

(* How much may be held: the queue is over its limit only by what the      *)
(* cancelled consumer put back.                                            *)
Rooms ==
  /\ Len(queue) <= QueueMax + BatchMax
  /\ pc # "ended" => Len(queue) <= QueueMax
  /\ Len(batch) + Len(prepared) <= BatchMax

(* Lines move on in the order they ended: with the store, settling, taken  *)
(* and queued, each before the next.                                       *)
InOrder ==
  /\ \A i \in 1 .. Len(queue) : queue[i] <= ended
  /\ \A i \in 1 .. Len(batch) : batch[i] <= ended
  /\ \A i \in 1 .. Len(prepared) : prepared[i].n <= ended
  /\ \A i, j \in 1 .. Len(queue) : i < j => queue[i] < queue[j]
  /\ \A i, j \in 1 .. Len(batch) : i < j => batch[i] < batch[j]
  /\ \A i, j \in 1 .. Len(prepared) : i < j => prepared[i].n < prepared[j].n
  /\ \A i \in 1 .. Len(batch) : \A j \in 1 .. Len(queue) : batch[i] < queue[j]
  /\ \A i \in 1 .. Len(prepared) : \A j \in 1 .. Len(queue) : prepared[i].n < queue[j]
  /\ \A i \in 1 .. Len(prepared) : \A j \in 1 .. Len(batch) : prepared[i].n < batch[j]
  /\ \A x \in stored : \A j \in 1 .. Len(queue) : x.n < queue[j]
  /\ \A x \in stored : \A j \in 1 .. Len(batch) : x.n < batch[j]
  /\ \A x \in stored : \A j \in 1 .. Len(prepared) : x.n < prepared[j].n
  /\ \A x \in stored : x.n \in Number /\ x.n <= ended

(* A spent name is one a line of the store's, or one in its hands, brought; *)
(* a line in the consumer's hands answers for the name it spent itself.    *)
NamesOwed ==
  /\ \A p \in plotNames : \/ \E x \in stored \cup left : x.name = p
                          \/ \E i \in 1 .. Len(prepared) : p \in prepared[i].fresh
  /\ \A i \in 1 .. Len(prepared) : prepared[i].fresh \subseteq {prepared[i].name}
  /\ Cardinality(plotNames) <= NamesMax

(* Where the lines are that are not arriving any more: queued or counted as *)
(* dropped, or further on their way.                                       *)
Waiting == Len(queue) + rxDropped
Passed  == Len(batch) + Len(prepared) + Cardinality(stored) + Cardinality(left)
Kept    == Waiting + Passed

Accounted == (buf > 0 => begun = Kept + 1) /\ (buf = 0 => begun = Kept)

IInv == /\ Shapes /\ NothingKept /\ EndedBegan /\ Phases /\ Rooms /\ InOrder /\ NamesOwed
        /\ Accounted /\ NoLostWakeup /\ RefusalsTold

-------------------------------------------------------------------------------
(* What the helpers return. *)

LEMMA ElementsOf ==
  ASSUME NEW T, NEW q \in Seq(T)
  PROVE  \A i \in 1 .. Len(q) : q[i] \in T
OBVIOUS

LEMMA WholeBound ==
  ASSUME Bounds, NEW pieces \in Seq(Nat), pieces # <<>>
  PROVE  Whole(pieces) \in Nat /\ Whole(pieces) <= Len(pieces) - 1
<1> DEFINE S == {i \in 1 .. Len(pieces) - 1 : pieces[i] <= Cap}
<1>1. Len(pieces) - 1 \in Nat
  OBVIOUS
<1>2. /\ IsFiniteSet(1 .. Len(pieces) - 1)
      /\ Cardinality(1 .. Len(pieces) - 1) = Len(pieces) - 1
  BY <1>1, FS_Interval
<1>3. S \in SUBSET (1 .. Len(pieces) - 1)
  OBVIOUS
<1>4. IsFiniteSet(S) /\ Cardinality(S) <= Len(pieces) - 1
  BY <1>2, <1>3, FS_Subset
<1>5. Cardinality(S) \in Nat
  BY <1>4, FS_CardinalityType
<1> QED  BY <1>4, <1>5 DEF Whole

LEMMA BeginsCount ==
  ASSUME NEW pieces \in Seq(Nat), pieces # <<>>, NEW old \in Nat
  PROVE  LET k == Len(pieces) - 1
             head == pieces[Len(pieces)]
         IN /\ head > 0 /\ old > 0 => Begins(pieces, old) = k
            /\ head > 0 /\ old = 0 => Begins(pieces, old) = k + 1
            /\ head = 0 /\ old > 0 => Begins(pieces, old) = k - 1
            /\ head = 0 /\ old = 0 => Begins(pieces, old) = k
<1> DEFINE S == {i \in DOMAIN pieces : i < Len(pieces) \/ pieces[i] > 0}
<1>1. /\ Len(pieces) \in Nat \ {0} /\ DOMAIN pieces = 1 .. Len(pieces)
      /\ pieces[Len(pieces)] \in Nat
  OBVIOUS
<1>2. /\ Cardinality(1 .. Len(pieces)) = Len(pieces)
      /\ Cardinality(1 .. Len(pieces) - 1) = Len(pieces) - 1
  <2>1. \A m \in Nat : Cardinality(1 .. m) = m
    <3> SUFFICES ASSUME NEW m \in Nat PROVE Cardinality(1 .. m) = m
      OBVIOUS
    <3>1. Cardinality(1 .. m) = IF 1 > m THEN 0 ELSE m - 1 + 1
      BY FS_Interval
    <3> QED  BY <3>1
  <2>2. Len(pieces) - 1 \in Nat
    BY <1>1
  <2> QED  BY <1>1, <2>1, <2>2
<1>3. pieces[Len(pieces)] > 0 => S = 1 .. Len(pieces)
  BY <1>1
<1>4. pieces[Len(pieces)] = 0 => S = 1 .. Len(pieces) - 1
  BY <1>1
<1>5. /\ old > 0 => Begins(pieces, old) = Cardinality(S) - 1
      /\ old = 0 => Begins(pieces, old) = Cardinality(S) - 0
  BY DEF Begins
<1> HIDE DEF S
<1>6. /\ pieces[Len(pieces)] > 0 => Cardinality(S) = Len(pieces)
      /\ pieces[Len(pieces)] = 0 => Cardinality(S) = Len(pieces) - 1
  BY <1>2, <1>3, <1>4, Zenon
<1> QED  BY <1>1, <1>5, <1>6

LEMMA LongerThanOne ==
  ASSUME NEW u \in Seq(Nat), u # <<>>, Len(u) # 1
  PROVE  Len(u) > 1 /\ Tail(u) \in Seq(Nat) /\ Len(Tail(u)) = Len(u) - 1
<1>1. Len(u) # 0 /\ Len(u) \in Nat
  BY EmptySeq
<1>2. \A m \in Nat : m # 0 /\ m # 1 => m > 1
  OBVIOUS
<1>3. Len(u) > 1
  BY <1>1, <1>2, Zenon
<1> QED  BY <1>3

LEMMA PiecesCut ==
  ASSUME NEW burst \in Seq(Nat), burst # <<>>, buf \in Nat, discarding \in BOOLEAN,
         ~(discarding /\ Len(burst) = 1)
  PROVE  /\ Pieces(burst) \in Seq(Nat) /\ Pieces(burst) # <<>>
         /\ ~discarding => /\ Len(Pieces(burst)) = Len(burst)
                           /\ Pieces(burst)[1] = buf + burst[1]
<1>1. CASE discarding
  <2>0. Len(burst) # 1
    BY <1>1, Zenon
  <2>1. Tail(burst) \in Seq(Nat) /\ Len(Tail(burst)) = Len(burst) - 1 /\ Len(burst) > 1
    BY <2>0, LongerThanOne, Zenon
  <2> QED  BY <1>1, <2>1, SMTT(30) DEF Pieces
<1>2. CASE ~discarding
  <2>1. /\ Tail(burst) \in Seq(Nat) /\ Len(Tail(burst)) = Len(burst) - 1
        /\ Head(burst) = burst[1] /\ burst[1] \in Nat
    OBVIOUS
  <2>2. \A t \in Seq(Nat) : \A u \in Seq(Nat) :
          t \o u \in Seq(Nat) /\ Len(t \o u) = Len(t) + Len(u)
            /\ (Len(t) > 0 => (t \o u)[1] = t[1])
    OBVIOUS
  <2>3. <<buf + Head(burst)>> \in Seq(Nat) /\ Len(<<buf + Head(burst)>>) = 1
          /\ <<buf + Head(burst)>>[1] = buf + burst[1]
    BY <2>1
  <2>4. /\ Pieces(burst) \in Seq(Nat)
        /\ Len(Pieces(burst)) = Len(burst)
        /\ Pieces(burst)[1] = buf + burst[1]
    BY <1>2, <2>1, <2>2, <2>3 DEF Pieces
  <2> QED  BY <2>4, <1>2
<1> QED  BY <1>1, <1>2

(* The queue after a burst: what was kept of it, then the new lines. *)
LEMMA Joined ==
  ASSUME NEW q \in Seq(Number), NEW k \in Nat, NEW e \in Nat
  PROVE  LET all == q \o [i \in 1 .. k |-> e + i]
         IN /\ all \in Seq(Number) /\ Len(all) = Len(q) + k
            /\ \A i \in 1 .. Len(all) : all[i] = (IF i <= Len(q) THEN q[i] ELSE e + i - Len(q))
<1> DEFINE new == [i \in 1 .. k |-> e + i]
<1>1. new \in [1 .. k -> Number]
  BY DEF Number
<1>2. new \in Seq(Number) /\ Len(new) = k /\ \A i \in 1 .. k : new[i] = e + i
  <2>1. \A f \in [1 .. k -> Number] : f \in Seq(Number) /\ Len(f) = k
    OBVIOUS
  <2>2. \A i \in 1 .. k : new[i] = e + i
    OBVIOUS
  <2> HIDE DEF new
  <2> QED  BY <1>1, <2>1, <2>2
<1> HIDE DEF new
<1>3. /\ q \o new \in Seq(Number) /\ Len(q \o new) = Len(q) + k
      /\ \A i \in 1 .. Len(q \o new) : (q \o new)[i] = (IF i <= Len(q) THEN q[i] ELSE e + i - Len(q))
  BY <1>2
<1> QED  BY <1>3 DEF new

LEMMA ShedKeeps ==
  ASSUME Bounds, NEW q \in Seq(Number), Len(q) > QueueMax
  PROVE  /\ Shed(q) \in Seq(Number) /\ Len(Shed(q)) = QueueMax
         /\ \A i \in 1 .. QueueMax : Shed(q)[i] = q[i + Len(q) - QueueMax]
BY DEF Shed, Bounds

(* The queue a burst leaves: what it held moves up, the new lines follow in *)
(* order, and whatever the limits cut off is counted.                       *)
LEMMA CompleteFacts ==
  ASSUME Bounds, IInv, NEW pieces \in Seq(Nat), Len(pieces) > 1, Complete(pieces)
  PROVE  /\ queue' \in Seq(Number) /\ Len(queue') <= QueueMax
         /\ ended' \in Nat /\ ended <= ended' /\ ended' - ended <= Len(pieces) - 1
         /\ rxDropped' \in Nat
         /\ rxDropped' + Len(queue') = rxDropped + Len(queue) + (Len(pieces) - 1)
         /\ \A i \in 1 .. Len(queue') : queue'[i] <= ended'
         /\ \A i, j \in 1 .. Len(queue') : i < j => queue'[i] < queue'[j]
         /\ \A v \in Nat : v <= ended /\ (\A j \in 1 .. Len(queue) : v < queue[j])
              => \A j \in 1 .. Len(queue') : v < queue'[j]
         /\ buf' \in 0 .. Cap + 1 /\ (buf' > 0 <=> pieces[Len(pieces)] > 0)
         /\ discarding' = FALSE /\ wake' = TRUE /\ overflowing' \in BOOLEAN
<1> DEFINE k == Whole(pieces)
           all == queue \o [i \in 1 .. k |-> ended + i]
<1>1. /\ buf \in 0 .. Cap + 1 /\ queue \in Seq(Number) /\ Len(queue) \in Nat
      /\ rxDropped \in Nat /\ ended \in Nat /\ overflowing \in BOOLEAN
      /\ Cap \in Nat /\ QueueMax \in Nat /\ Len(pieces) \in Nat
      /\ pieces[Len(pieces)] \in Nat
  BY DEF IInv, Shapes, Bounds
<1>2. k \in Nat /\ k <= Len(pieces) - 1
  <2>1. pieces # <<>>
    OBVIOUS
  <2> QED  BY <2>1, WholeBound
<1>3. /\ buf' = Clip(Last(pieces)) /\ discarding' = FALSE /\ wake' = TRUE
      /\ ended' = ended + k
      /\ queue' = (IF Excess(all) > 0 THEN Shed(all) ELSE all)
      /\ rxDropped' = rxDropped + (Len(pieces) - 1 - k) + Excess(all)
      /\ overflowing' = (overflowing \/ Excess(all) > 0)
  BY DEF Complete
<1> HIDE DEF k
<1>4. /\ all \in Seq(Number) /\ Len(all) = Len(queue) + k
      /\ \A i \in 1 .. Len(all) : all[i] = (IF i <= Len(queue) THEN queue[i] ELSE ended + i - Len(queue))
  BY <1>1, <1>2, Joined, ZenonT(40)
<1> HIDE DEF all
<1>5. /\ \A i \in 1 .. Len(queue) : queue[i] \in Nat /\ queue[i] <= ended
      /\ \A i, j \in 1 .. Len(queue) : i < j => queue[i] < queue[j]
  <2>1. Number \subseteq Nat
    BY DEF Number
  <2>2. \A i \in 1 .. Len(queue) : queue[i] \in Nat
    <3>1. \A i \in 1 .. Len(queue) : queue[i] \in Number
      BY <1>1, ElementsOf, Zenon
    <3> QED  BY <3>1, <2>1, Zenon
  <2>3. InOrder
    BY DEF IInv
  <2>4. \A i \in 1 .. Len(queue) : queue[i] <= ended
    BY <2>3 DEF InOrder
  <2>5. \A i, j \in 1 .. Len(queue) : i < j => queue[i] < queue[j]
    BY <2>3 DEF InOrder
  <2> QED  BY <2>2, <2>4, <2>5
<1>6. /\ \A i \in 1 .. Len(all) : all[i] \in Nat /\ all[i] <= ended + k
      /\ \A i, j \in 1 .. Len(all) : i < j => all[i] < all[j]
      /\ \A v \in Nat : v <= ended /\ (\A j \in 1 .. Len(queue) : v < queue[j])
           => \A j \in 1 .. Len(all) : v < all[j]
  <2>1. \A i \in 1 .. Len(all) : i <= Len(queue) => all[i] = queue[i] /\ i \in 1 .. Len(queue)
    BY <1>1, <1>2, <1>4
  <2>2. \A i \in 1 .. Len(all) : ~(i <= Len(queue)) =>
          all[i] = ended + i - Len(queue) /\ i - Len(queue) \in Nat \ {0} /\ i - Len(queue) <= k
    BY <1>1, <1>2, <1>4
  <2>3. \A i \in 1 .. Len(all) : i \in Nat
    BY <1>1, <1>2, <1>4
  <2>4. \A i \in 1 .. Len(all) : all[i] \in Nat /\ all[i] <= ended + k
    <3> SUFFICES ASSUME NEW i \in 1 .. Len(all) PROVE all[i] \in Nat /\ all[i] <= ended + k
      OBVIOUS
    <3>1. CASE i <= Len(queue)
      <4>1. all[i] = queue[i] /\ queue[i] \in Nat /\ queue[i] <= ended
        BY <3>1, <2>1, <1>5, Zenon
      <4> QED  BY <4>1, <1>1, <1>2
    <3>2. CASE ~(i <= Len(queue))
      <4>1. all[i] = ended + i - Len(queue) /\ i - Len(queue) \in Nat \ {0} /\ i - Len(queue) <= k
        BY <3>2, <2>2, Zenon
      <4>2. i \in Nat
        BY <2>3
      <4> QED  BY <4>1, <4>2, <1>1, <1>2
    <3> QED  BY <3>1, <3>2
  <2>5. \A i, j \in 1 .. Len(all) : i < j => all[i] < all[j]
    <3> SUFFICES ASSUME NEW i \in 1 .. Len(all), NEW j \in 1 .. Len(all), i < j
                 PROVE  all[i] < all[j]
      OBVIOUS
    <3>1. CASE j <= Len(queue)
      BY <3>1, <1>1, <1>5, <2>1, <2>3, SMTT(30)
    <3>2. CASE ~(j <= Len(queue)) /\ i <= Len(queue)
      <4>1. all[i] = queue[i] /\ queue[i] \in Nat /\ queue[i] <= ended
        BY <3>2, <2>1, <1>5, Zenon
      <4>2. all[j] = ended + j - Len(queue) /\ j - Len(queue) \in Nat \ {0}
        BY <3>2, <2>2, Zenon
      <4>3. j \in Nat
        BY <2>3
      <4> QED  BY <4>1, <4>2, <4>3, <1>1
    <3>3. CASE ~(j <= Len(queue)) /\ ~(i <= Len(queue))
      BY <3>3, <1>1, <1>2, <2>2, <2>3, SMTT(30)
    <3> QED  BY <3>1, <3>2, <3>3
  <2>6. ASSUME NEW v \in Nat, v <= ended, \A j \in 1 .. Len(queue) : v < queue[j],
               NEW i \in 1 .. Len(all)
        PROVE  v < all[i]
    BY <2>6, <1>1, <1>2, <2>1, <2>2, <2>3, SMTT(30)
  <2> QED  BY <2>4, <2>5, <2>6
<1>7. PICK d \in Nat : /\ d <= Len(all) /\ Excess(all) = d
                       /\ queue' \in Seq(Number) /\ Len(queue') = Len(all) - d
                       /\ Len(queue') <= QueueMax
                       /\ \A i \in 1 .. Len(queue') : queue'[i] = all[i + d]
  <2>1. CASE Len(all) > QueueMax
    <3>1. Excess(all) = Len(all) - QueueMax /\ Len(all) - QueueMax \in Nat
          /\ Len(all) - QueueMax > 0
      BY <2>1, <1>1, <1>2, <1>4 DEF Excess
    <3>2. queue' = Shed(all)
      BY <3>1, <1>3
    <3>3. /\ Shed(all) \in Seq(Number) /\ Len(Shed(all)) = QueueMax
          /\ \A i \in 1 .. QueueMax : Shed(all)[i] = all[i + Len(all) - QueueMax]
      BY <2>1, <1>4, ShedKeeps
    <3>4. \A i \in 1 .. QueueMax : i + Len(all) - QueueMax = i + (Len(all) - QueueMax)
      BY <1>1, <1>2, <1>4
    <3>5. Len(queue') = Len(all) - (Len(all) - QueueMax) /\ Len(all) - QueueMax <= Len(all)
          /\ QueueMax <= QueueMax
      BY <3>2, <3>3, <1>1, <1>2, <1>4
    <3>6. \A i \in 1 .. Len(queue') : queue'[i] = all[i + (Len(all) - QueueMax)]
      BY <3>2, <3>3, <3>4
    <3>7. Len(queue') <= QueueMax /\ queue' \in Seq(Number)
      BY <3>2, <3>3, <3>5
    <3> HIDE DEF all
    <3> QED  BY <3>1, <3>5, <3>6, <3>7
  <2>2. CASE ~(Len(all) > QueueMax)
    <3>1. Excess(all) = 0
      BY <2>2 DEF Excess
    <3>2. queue' = all
      BY <3>1, <1>3
    <3>3. Len(all) <= QueueMax /\ 0 <= Len(all) /\ Len(all) - 0 = Len(all)
      BY <2>2, <1>1, <1>2, <1>4
    <3>4. \A i \in 1 .. Len(queue') : i + 0 = i
      BY <3>2, <1>1, <1>4
    <3> QED  BY <3>1, <3>2, <3>3, <3>4, <1>4
  <2> QED  BY <2>1, <2>2
<1>8. \A i \in 1 .. Len(queue') : i + d \in 1 .. Len(all)
  BY <1>1, <1>2, <1>4, <1>7
<1>9. /\ \A i \in 1 .. Len(queue') : queue'[i] <= ended'
      /\ \A i, j \in 1 .. Len(queue') : i < j => queue'[i] < queue'[j]
      /\ \A v \in Nat : v <= ended /\ (\A j \in 1 .. Len(queue) : v < queue[j])
           => \A j \in 1 .. Len(queue') : v < queue'[j]
  <2>1. \A i, j \in 1 .. Len(queue') : i < j => i + d < j + d
    BY <1>1, <1>2, <1>4, <1>7
  <2> QED  BY <2>1, <1>3, <1>6, <1>7, <1>8, Zenon
<1>10. buf' \in 0 .. Cap + 1 /\ (buf' > 0 <=> pieces[Len(pieces)] > 0)
  BY <1>1, <1>3, SMTT(30) DEF Clip, Last
<1>11. overflowing' \in BOOLEAN
  BY <1>1, <1>3, Zenon
<1>12. rxDropped' = rxDropped + (Len(pieces) - 1 - k) + d
  BY <1>3, <1>7
<1>13. /\ ended' \in Nat /\ ended <= ended' /\ ended' - ended <= Len(pieces) - 1
       /\ rxDropped' \in Nat
       /\ rxDropped' + Len(queue') = rxDropped + Len(queue) + (Len(pieces) - 1)
  <2>1. rxDropped' + Len(queue') = rxDropped + (Len(pieces) - 1 - k) + d + (Len(queue) + k - d)
    <3>1. Len(queue') = Len(queue) + k - d
      BY <1>1, <1>2, <1>4, <1>7
    <3> QED  BY <3>1, <1>12
  <2>2. d \in Nat /\ Len(pieces) - 1 - k \in Nat
    BY <1>1, <1>2
  <2>3. rxDropped' \in Nat
    BY <2>2, <1>1, <1>12
  <2>4. rxDropped' + Len(queue') = rxDropped + Len(queue) + (Len(pieces) - 1)
    BY <2>1, <2>2, <1>1, <1>2
  <2>5. ended' \in Nat /\ ended <= ended' /\ ended' - ended <= Len(pieces) - 1
    BY <1>1, <1>2, <1>3
  <2> QED  BY <2>3, <2>4, <2>5
<1> QED  BY <1>3, <1>7, <1>9, <1>10, <1>11, <1>13

LEMMA OverIsTruth ==
  ASSUME NEW n \in Nat, NEW cap \in Nat, NEW d, d = (n > cap)
  PROVE  (n > cap => d = TRUE) /\ (~(n > cap) => d = FALSE)
<1>1. (n > cap) \in BOOLEAN
  OBVIOUS
<1> QED  BY <1>1, Zenon

LEMMA HeldTypes ==
  ASSUME Shapes
  PROVE  /\ \A i \in 1 .. Len(queue) : queue[i] \in Number
         /\ \A i \in 1 .. Len(batch) : batch[i] \in Number
         /\ \A i \in 1 .. Len(prepared) :
              prepared[i] \in [n : Number, name : Name, fresh : SUBSET Names]
         /\ \A i \in 1 .. Len(prepared) : prepared[i].n \in Number
<1>1. /\ queue \in Seq(Number) /\ batch \in Seq(Number)
      /\ prepared \in Seq([n : Number, name : Name, fresh : SUBSET Names])
  BY DEF Shapes
<1>2. \A i \in 1 .. Len(prepared) :
        prepared[i] \in [n : Number, name : Name, fresh : SUBSET Names]
  BY <1>1, ElementOfSeq
<1>3. \A i \in 1 .. Len(prepared) : prepared[i].n \in Number
  BY <1>2
<1> QED  BY <1>1, <1>2, <1>3, ElementOfSeq

LEMMA Sizes ==
  ASSUME Shapes
  PROVE  /\ Len(queue) \in Nat /\ Len(batch) \in Nat /\ Len(prepared) \in Nat
         /\ Cardinality(stored) \in Nat /\ Cardinality(left) \in Nat /\ rxDropped \in Nat
BY FS_CardinalityType DEF Shapes

LEMMA KeptType ==
  ASSUME Shapes
  PROVE  Kept \in Nat /\ rxDropped \in Nat
<1>1. Len(queue) \in Nat /\ Len(batch) \in Nat /\ Len(prepared) \in Nat
        /\ Cardinality(stored) \in Nat /\ Cardinality(left) \in Nat /\ rxDropped \in Nat
  BY Sizes
<1> QED  BY <1>1 DEF Kept, Waiting, Passed

(* What a burst adds is queued or counted. *)
LEMMA KeptMoves ==
  ASSUME Shapes, NEW k, k \in Nat, UNCHANGED <<batch, prepared, stored, left>>,
         rxDropped' \in Nat, Len(queue') \in Nat,
         rxDropped' + Len(queue') = rxDropped + Len(queue) + k
  PROVE  Kept' = Kept + k /\ Kept \in Nat
<1>1. /\ Len(queue) \in Nat /\ Len(batch) \in Nat /\ Len(prepared) \in Nat
      /\ Cardinality(stored) \in Nat /\ Cardinality(left) \in Nat /\ rxDropped \in Nat
  BY Sizes
<1>2. Passed' = Passed
  BY DEF Passed
<1>3. Waiting' = Waiting + k
  BY <1>1 DEF Waiting
<1>4. Waiting \in Nat /\ Passed \in Nat
  BY <1>1 DEF Waiting, Passed
<1> QED  BY <1>2, <1>3, <1>4 DEF Kept

-------------------------------------------------------------------------------
(* Bytes arrive. *)

LEMMA BurstKeeps ==
  ASSUME Bounds, IInv, NEW burst \in Seq(Nat), burst # <<>>, Len(burst) = 1 => burst[1] > 0,
         OnBytes(burst)
  PROVE  IInv'
<1>1. /\ buf \in Nat /\ discarding \in BOOLEAN /\ buf <= Cap + 1 /\ Cap \in Nat
      /\ begun \in Nat /\ ended \in Nat /\ rxDropped \in Nat
  BY DEF IInv, Shapes, Bounds
<1>2. UNCHANGED <<pc, batch, prepared, plotNames, unstorable, stopping, stopPc, stored, left>>
  BY DEF OnBytes, taskVars
<1>3. CASE discarding /\ Len(burst) = 1
  <2>1. UNCHANGED <<buf, discarding, begun, ended, queue, rxDropped, overflowing, wake>>
    BY <1>3 DEF OnBytes, cutVars
  <2> QED
    BY <1>2, <2>1, SMTT(30) DEF IInv, Shapes, NothingKept, EndedBegan, Phases, Rooms, InOrder,
                      NamesOwed, Accounted, Kept, Waiting, Passed, NoLostWakeup, RefusalsTold
<1>4. CASE ~(discarding /\ Len(burst) = 1)
  <2> DEFINE pieces == Pieces(burst)
             old    == IF discarding THEN 0 ELSE buf
  <2>1. /\ pieces \in Seq(Nat) /\ pieces # <<>>
        /\ ~discarding => Len(pieces) = Len(burst) /\ pieces[1] = buf + burst[1]
    BY <1>1, <1>4, PiecesCut, Zenon
  <2>2. /\ begun' = begun + Begins(pieces, old) /\ begun' <= MaxLines
        /\ Len(pieces) = 1 => Unterminated(pieces[1])
        /\ Len(pieces) # 1 => Complete(pieces)
    BY <1>4 DEF OnBytes
  <2>3. old = buf
    BY <1>1 DEF IInv, NothingKept
  <2>4. Len(pieces) = 1 /\ old > 0 => pieces[1] > 0
    <3> SUFFICES ASSUME Len(pieces) = 1, buf > 0 PROVE pieces[1] > 0
      BY <2>3
    <3>1. ~discarding
      BY <1>1 DEF IInv, NothingKept
    <3>2. pieces[1] = buf + burst[1] /\ burst[1] \in Nat
      BY <3>1, <2>1
    <3> HIDE DEF pieces
    <3> QED  BY <3>2, <1>1
  <2> HIDE DEF pieces
  <2>5. LET head == pieces[Len(pieces)]
        IN /\ head > 0 /\ buf > 0 => begun' = begun + (Len(pieces) - 1)
           /\ head > 0 /\ buf = 0 => begun' = begun + (Len(pieces) - 1 + 1)
           /\ head = 0 /\ buf > 0 => begun' = begun + (Len(pieces) - 1 - 1)
           /\ head = 0 /\ buf = 0 => begun' = begun + (Len(pieces) - 1)
    BY <1>1, <2>1, <2>2, <2>3, BeginsCount, Zenon
  <2> HIDE DEF old
  <2>6. Len(pieces) \in Nat \ {0} /\ pieces[Len(pieces)] \in Nat
    BY <2>1
  <2>7. CASE Len(pieces) = 1
    <3>1. Unterminated(pieces[1]) /\ pieces[1] \in Nat
      BY <2>1, <2>2, <2>7
    <3>2. /\ pieces[1] > Cap => buf' = 0 /\ rxDropped' = rxDropped + 1 /\ discarding' = TRUE
          /\ ~(pieces[1] > Cap) => buf' = pieces[1] /\ rxDropped' = rxDropped /\ discarding' = FALSE
          /\ UNCHANGED <<ended, queue, overflowing, wake>>
      <4>1. /\ buf' = (IF pieces[1] > Cap THEN 0 ELSE pieces[1])
            /\ rxDropped' = rxDropped + (IF pieces[1] > Cap THEN 1 ELSE 0)
            /\ UNCHANGED <<ended, queue, overflowing, wake>>
        BY <3>1 DEF Unterminated
      <4>2. /\ pieces[1] > Cap => discarding' = TRUE
            /\ ~(pieces[1] > Cap) => discarding' = FALSE
        <5>1. discarding' = (pieces[1] > Cap)
          BY <3>1, Zenon DEF Unterminated
        <5>2. pieces[1] \in Nat /\ Cap \in Nat
          BY <3>1, <1>1
        <5>3. \A v \in Nat : discarding' = (v > Cap) =>
                (v > Cap => discarding' = TRUE) /\ (~(v > Cap) => discarding' = FALSE)
          BY <1>1, OverIsTruth
        <5> QED  BY <5>1, <5>2, <5>3, Zenon
      <4>3. /\ pieces[1] > Cap => buf' = 0 /\ rxDropped' = rxDropped + 1
            /\ ~(pieces[1] > Cap) => buf' = pieces[1] /\ rxDropped' = rxDropped
        BY <4>1, <1>1
      <4> QED  BY <4>1, <4>2, <4>3, Zenon
    <3>3. /\ pieces[1] > 0 /\ buf > 0 => begun' = begun
          /\ pieces[1] > 0 /\ buf = 0 => begun' = begun + 1
          /\ pieces[1] = 0 /\ buf = 0 => begun' = begun
      <4>1. Len(pieces) - 1 = 0 /\ begun + 0 = begun /\ Len(pieces) - 1 + 1 = 1
        BY <2>7, <1>1
      <4> QED  BY <4>1, <2>5, <2>7, Zenon
    <3>4. buf > 0 => pieces[1] > 0
      BY <2>3, <2>4, <2>7, Zenon
    <3>5. begun' \in Nat /\ begun <= begun'
      BY <3>3, <3>4, <1>1, <3>1
    <3>6. /\ pieces[1] > Cap => pieces[1] > 0
          /\ ~(pieces[1] > Cap) => pieces[1] \in 0 .. Cap + 1
      BY <3>1, <1>1
    <3>7. Shapes'
      <4>1. buf' \in 0 .. Cap + 1 /\ rxDropped' \in Nat
        BY <3>1, <3>2, <1>1
      <4>2. discarding' \in BOOLEAN
        BY <3>2, Zenon
      <4> QED  BY <4>1, <4>2, <1>2, <2>2, <3>2, <3>5, Zenon DEF IInv, Shapes
    <3>8. NothingKept'
      BY <3>2, Zenon DEF NothingKept
    <3>9. EndedBegan'
      <4>1. ended' = ended /\ (buf' > 0 => pieces[1] > 0)
        BY <3>2, <1>1
      <4>2. ended <= begun /\ (buf > 0 => ended < begun)
        BY DEF IInv, EndedBegan
      <4> QED  BY <4>1, <4>2, <3>3, <3>4, <3>5, <1>1, <3>1 DEF EndedBegan
    <3>10. Accounted'
      <4>1. Kept \in Nat /\ rxDropped \in Nat
        BY KeptType DEF IInv
      <4>2. /\ pieces[1] > Cap => Kept' = Kept + 1
            /\ ~(pieces[1] > Cap) => Kept' = Kept
        <5>1. Len(queue) \in Nat /\ Len(batch) \in Nat /\ Len(prepared) \in Nat
                /\ Cardinality(stored) \in Nat /\ Cardinality(left) \in Nat
          BY FS_CardinalityType DEF IInv, Shapes
        <5>2. /\ Len(queue)' = Len(queue) /\ Len(batch)' = Len(batch)
              /\ Len(prepared)' = Len(prepared) /\ Cardinality(stored)' = Cardinality(stored)
              /\ Cardinality(left)' = Cardinality(left)
          BY <1>2, <3>2
        <5> QED  BY <5>1, <5>2, <3>2, <1>1 DEF Kept, Waiting, Passed
      <4>3. (buf > 0 => begun = Kept + 1) /\ (buf = 0 => begun = Kept)
        BY DEF IInv, Accounted
      <4>4. CASE pieces[1] > Cap
        BY <4>1, <4>2, <4>3, <4>4, <3>2, <3>3, <3>4, <3>6, <1>1, <3>1 DEF Accounted
      <4>5. CASE ~(pieces[1] > Cap)
        BY <4>1, <4>2, <4>3, <4>5, <3>2, <3>3, <3>4, <3>6, <1>1, <3>1 DEF Accounted
      <4> QED  BY <4>4, <4>5, Zenon
    <3>11. Phases' /\ Rooms' /\ NoLostWakeup' /\ RefusalsTold'
      BY <1>2, <3>2, Zenon DEF IInv, Phases, Rooms, NoLostWakeup, RefusalsTold
    <3>12. InOrder' /\ NamesOwed'
      BY <1>2, <3>2, Zenon DEF IInv, InOrder, NamesOwed
    <3> QED
      BY <3>7, <3>8, <3>9, <3>10, <3>11, <3>12, Zenon DEF IInv
  <2>8. CASE Len(pieces) # 1
    <3>1. Complete(pieces) /\ Len(pieces) > 1
      <4>1. \A m \in Nat \ {0} : m # 1 => m > 1
        OBVIOUS
      <4> QED  BY <4>1, <2>2, <2>6, <2>8, Zenon
    <3>2. /\ queue' \in Seq(Number) /\ Len(queue') <= QueueMax
          /\ ended' \in Nat /\ ended <= ended' /\ ended' - ended <= Len(pieces) - 1
          /\ rxDropped' \in Nat
          /\ rxDropped' + Len(queue') = rxDropped + Len(queue) + (Len(pieces) - 1)
          /\ \A i \in 1 .. Len(queue') : queue'[i] <= ended'
          /\ \A i, j \in 1 .. Len(queue') : i < j => queue'[i] < queue'[j]
          /\ \A v \in Nat : v <= ended /\ (\A j \in 1 .. Len(queue) : v < queue[j])
               => \A j \in 1 .. Len(queue') : v < queue'[j]
          /\ buf' \in 0 .. Cap + 1 /\ (buf' > 0 <=> pieces[Len(pieces)] > 0)
          /\ discarding' = FALSE /\ wake' = TRUE /\ overflowing' \in BOOLEAN
      BY <2>1, <3>1, CompleteFacts, Zenon
    <3>3. /\ buf' > 0 /\ buf > 0 => begun' = begun + (Len(pieces) - 1)
          /\ buf' > 0 /\ buf = 0 => begun' = begun + (Len(pieces) - 1 + 1)
          /\ buf' = 0 /\ buf > 0 => begun' = begun + (Len(pieces) - 1 - 1)
          /\ buf' = 0 /\ buf = 0 => begun' = begun + (Len(pieces) - 1)
      <4>1. buf' = 0 => pieces[Len(pieces)] = 0
        BY <2>6, <3>2
      <4> QED  BY <4>1, <2>5, <3>2, Zenon
    <3>4. buf' \in Nat /\ (buf' > 0 \/ buf' = 0) /\ (buf > 0 \/ buf = 0)
      BY <1>1, <3>2, SMTT(30)
    <3>5. begun' \in Nat
      BY <3>1, <3>3, <3>4, <1>1, <2>6
    <3>6. Shapes'
      BY <1>2, <2>2, <3>2, <3>5, Zenon DEF IInv, Shapes
    <3>7. NothingKept'
      BY <3>2 DEF NothingKept
    <3>8. EndedBegan'
      <4>1. ended <= begun /\ (buf > 0 => ended < begun)
        BY DEF IInv, EndedBegan
      <4>2. ended' \in Nat /\ ended <= ended' /\ ended' - ended <= Len(pieces) - 1
        BY <3>2, Zenon
      <4> QED  BY <4>1, <4>2, <3>3, <3>4, <3>5, <1>1, <2>6, SMTT(30) DEF EndedBegan
    <3>9. Phases' /\ NoLostWakeup' /\ RefusalsTold'
      BY <1>2, <3>2 DEF IInv, Phases, NoLostWakeup, RefusalsTold
    <3>10. Rooms'
      BY <1>2, <3>2 DEF IInv, Rooms, Bounds
    <3>11. NamesOwed'
      BY <1>2 DEF IInv, NamesOwed
    <3>12. InOrder'
      <4>1. /\ \A i \in 1 .. Len(batch) : batch[i] \in Nat
            /\ \A i \in 1 .. Len(prepared) : prepared[i].n \in Nat
            /\ \A x \in stored : x.n \in Nat
        <5>1. \A x \in stored : x.n \in Nat
          BY DEF IInv, InOrder, Number
        <5>2. /\ \A i \in 1 .. Len(batch) : batch[i] \in Nat
              /\ \A i \in 1 .. Len(prepared) : prepared[i].n \in Nat
          BY HeldTypes DEF IInv, Number
        <5> QED  BY <5>1, <5>2
      <4>2. /\ \A i \in 1 .. Len(batch) : \A j \in 1 .. Len(queue') : batch[i] < queue'[j]
            /\ \A i \in 1 .. Len(prepared) : \A j \in 1 .. Len(queue') : prepared[i].n < queue'[j]
            /\ \A x \in stored : \A j \in 1 .. Len(queue') : x.n < queue'[j]
        BY <3>2, <4>1, Zenon DEF IInv, InOrder
      <4>3. \A v \in Nat : v <= ended => v <= ended'
        BY <3>2, <1>1
      <4>4. /\ \A i \in 1 .. Len(batch) : batch[i] <= ended'
            /\ \A i \in 1 .. Len(prepared) : prepared[i].n <= ended'
            /\ \A x \in stored : x.n <= ended'
        BY <4>1, <4>3, Zenon DEF IInv, InOrder
      <4> QED  BY <1>2, <3>2, <4>2, <4>4, Zenon DEF IInv, InOrder
    <3>13. Accounted'
      <4>0. Len(queue') \in Nat /\ rxDropped' + Len(queue') = rxDropped + Len(queue) + (Len(pieces) - 1)
        BY <3>2
      <4>1. Len(queue) \in Nat /\ Len(batch) \in Nat /\ Len(prepared) \in Nat
              /\ Cardinality(stored) \in Nat /\ Cardinality(left) \in Nat /\ rxDropped' \in Nat
        BY <3>6, Sizes, Zenon DEF IInv, Shapes
      <4>3. Kept' = Kept + (Len(pieces) - 1) /\ Kept \in Nat
        <5>1. Len(pieces) - 1 \in Nat
          BY <2>6
        <5> QED  BY <5>1, <1>2, <4>0, <4>1, KeptMoves, Zenon DEF IInv
      <4>4. (buf > 0 => begun = Kept + 1) /\ (buf = 0 => begun = Kept)
        BY DEF IInv, Accounted
      <4> QED  BY <4>3, <4>4, <3>3, <3>4, <1>1, <2>6 DEF Accounted
    <3> QED
      BY <3>6, <3>7, <3>8, <3>9, <3>10, <3>11, <3>12, <3>13, Zenon
        DEF IInv
  <2> QED  BY <2>7, <2>8
<1> QED  BY <1>3, <1>4

LEMMA BytesArriveKeeps ==
  ASSUME Bounds, IInv, BytesArrive
  PROVE  IInv'
<1>1. PICK burst \in [1 .. 1 -> Len1 \ {0}] \cup [1 .. 2 -> Len1] \cup [1 .. 3 -> {0, 1}] :
        OnBytes(burst)
  BY DEF BytesArrive
<1>0. \A m \in Nat \ {0} : \A f \in [1 .. m -> Nat] :
        f \in Seq(Nat) /\ Len(f) = m /\ f # <<>>
  BY EmptySeq
<1>4. 1 \in Nat \ {0} /\ 2 \in Nat \ {0} /\ 3 \in Nat \ {0} /\ 2 # 1 /\ 3 # 1
  OBVIOUS
<1>2. Len1 \subseteq Nat
  BY DEF Len1, Bounds
<1>3. /\ burst \in Seq(Nat) /\ burst # <<>> /\ (Len(burst) = 1 => burst[1] > 0)
  <2>1. CASE burst \in [1 .. 1 -> Len1 \ {0}]
    <3>2. \A f \in [1 .. 1 -> Nat \ {0}] : f \in [1 .. 1 -> Nat] /\ f[1] > 0
      OBVIOUS
    <3>3. burst \in [1 .. 1 -> Nat \ {0}]
      BY <2>1, <1>2
    <3>1. burst \in [1 .. 1 -> Nat] /\ burst[1] > 0
      BY <3>2, <3>3, Zenon
    <3> QED  BY <3>1, <1>0, <1>4, Zenon
  <2>2. CASE burst \in [1 .. 2 -> Len1]
    <3>1. burst \in [1 .. 2 -> Nat]
      BY <2>2, <1>2
    <3> QED  BY <3>1, <1>0, <1>4, Zenon
  <2>3. CASE burst \in [1 .. 3 -> {0, 1}]
    <3>1. burst \in [1 .. 3 -> Nat]
      BY <2>3
    <3> QED  BY <3>1, <1>0, <1>4, Zenon
  <2> QED  BY <1>1, <2>1, <2>2, <2>3
<1> QED  BY <1>1, <1>3, BurstKeeps

(* A link that goes takes the line that was arriving with it. *)
LEMMA OnDisconnectKeeps ==
  ASSUME Bounds, IInv, OnDisconnect
  PROVE  IInv'
<1>1. /\ buf' = 0 /\ discarding' = FALSE
      /\ rxDropped' = rxDropped + (IF buf > 0 THEN 1 ELSE 0)
      /\ UNCHANGED <<begun, ended, queue, overflowing, wake, pc, batch, prepared, plotNames,
                     unstorable, stopping, stopPc, stored, left>>
  BY DEF OnDisconnect, TakePartial, taskVars
<1>2. /\ buf \in Nat /\ rxDropped \in Nat /\ Cap \in Nat /\ Len(queue) \in Nat
      /\ Len(batch) \in Nat /\ Len(prepared) \in Nat /\ ended \in Nat /\ begun \in Nat
      /\ Cardinality(stored) \in Nat /\ Cardinality(left) \in Nat
  BY FS_CardinalityType DEF IInv, Shapes, Bounds
<1>3. (buf > 0 => rxDropped' = rxDropped + 1) /\ (buf = 0 => rxDropped' = rxDropped)
        /\ (buf > 0 \/ buf = 0)
  BY <1>1, <1>2
<1>4. Shapes'
  <2>1. buf' \in 0 .. Cap + 1 /\ rxDropped' \in Nat
    BY <1>1, <1>2, <1>3
  <2>2. discarding' \in BOOLEAN
    BY <1>1, Zenon
  <2> QED  BY <2>1, <2>2, <1>1, Zenon DEF IInv, Shapes
<1>5. NothingKept' /\ EndedBegan'
  BY <1>1, <1>2 DEF IInv, NothingKept, EndedBegan
<1>6. Accounted'
  <2>1. /\ Len(queue)' = Len(queue) /\ Len(batch)' = Len(batch)
        /\ Len(prepared)' = Len(prepared) /\ Cardinality(stored)' = Cardinality(stored)
        /\ Cardinality(left)' = Cardinality(left)
    BY <1>1
  <2> QED  BY <2>1, <1>1, <1>2, <1>3 DEF IInv, Accounted, Kept, Waiting, Passed
<1>7. Phases' /\ Rooms' /\ NoLostWakeup' /\ RefusalsTold'
  BY <1>1, Zenon DEF IInv, Phases, Rooms, NoLostWakeup, RefusalsTold
<1>8. InOrder' /\ NamesOwed'
  BY <1>1, Zenon DEF IInv, InOrder, NamesOwed
<1> QED  BY <1>4, <1>5, <1>6, <1>7, <1>8, Zenon DEF IInv

-------------------------------------------------------------------------------
(* The consumer. *)

(* A step that moves no line. *)
LEMMA NoLineMoves ==
  ASSUME IInv, UNCHANGED <<buf, discarding, begun, ended, queue, rxDropped, batch, prepared,
                           plotNames, stored, left, overflowing, unstorable>>,
         wake' \in BOOLEAN, stopping' \in BOOLEAN, pc' # "ended", pc # "ended",
         stopPc' # "done",
         Phases', NoLostWakeup'
  PROVE  IInv'
<1>1. Shapes'
  BY Zenon DEF IInv, Shapes
<1>2. NothingKept' /\ EndedBegan' /\ Rooms'
  BY Zenon DEF IInv, NothingKept, EndedBegan, Rooms
<1>3. InOrder' /\ NamesOwed'
  BY Zenon DEF IInv, InOrder, NamesOwed
<1>4. Accounted' /\ RefusalsTold'
  BY Zenon DEF IInv, Accounted, Kept, Waiting, Passed, RefusalsTold
<1> QED  BY <1>1, <1>2, <1>3, <1>4, Zenon DEF IInv

LEMMA WaitsKeeps ==
  ASSUME Bounds, IInv, Waits
  PROVE  IInv'
<1>1. /\ UNCHANGED <<buf, discarding, begun, ended, queue, rxDropped, batch, prepared,
                     plotNames, stored, left, overflowing, unstorable, stopping, pc, stopPc>>
      /\ pc = "waits" /\ queue = <<>> /\ wake' = FALSE
  BY DEF Waits, cutVars, taskVars
<1>2. stopPc # "done" /\ stopping' \in BOOLEAN
  BY <1>1 DEF IInv, Phases, Shapes
<1>3. Phases'
  BY <1>1 DEF IInv, Phases
<1>4. NoLostWakeup'
  BY <1>1 DEF NoLostWakeup
<1>5. wake' \in BOOLEAN
  BY <1>1, Zenon
<1>6. pc # "ended"
  BY <1>1
<1> QED  BY <1>1, <1>2, <1>3, <1>4, <1>5, <1>6, NoLineMoves, Zenon

LEMMA HeldBackKeeps ==
  ASSUME Bounds, IInv, HeldBack
  PROVE  IInv'
<1>1. /\ UNCHANGED <<buf, discarding, begun, ended, queue, rxDropped, batch, prepared,
                     plotNames, stored, left, overflowing, unstorable, stopping, wake, stopPc>>
      /\ pc = "submits" /\ pc' = "full"
  BY DEF HeldBack, cutVars
<1>2. stopPc # "done" /\ stopping' \in BOOLEAN /\ wake' \in BOOLEAN
  BY <1>1 DEF IInv, Phases, Shapes
<1>3. Phases'
  BY <1>1 DEF IInv, Phases
<1>4. NoLostWakeup'
  BY <1>1 DEF NoLostWakeup
<1>5. pc # "ended" /\ pc' # "ended"
  BY <1>1
<1> QED  BY <1>1, <1>2, <1>3, <1>4, <1>5, NoLineMoves, Zenon

LEMMA BatchDoneKeeps ==
  ASSUME Bounds, IInv, BatchDone
  PROVE  IInv'
<1>1. /\ UNCHANGED <<buf, discarding, begun, ended, queue, rxDropped, batch, prepared,
                     plotNames, stored, left, overflowing, unstorable, stopping, stopPc>>
      /\ pc = "settles" /\ prepared = <<>> /\ pc' = "waits" /\ wake' = TRUE
  BY DEF BatchDone, cutVars
<1>2. stopPc # "done" /\ stopping' \in BOOLEAN
  BY <1>1 DEF IInv, Phases, Shapes
<1>3. Phases'
  BY <1>1 DEF IInv, Phases
<1>4. NoLostWakeup' /\ wake' \in BOOLEAN
  BY <1>1, Zenon DEF NoLostWakeup
<1>5. pc # "ended" /\ pc' # "ended"
  BY <1>1
<1> QED  BY <1>1, <1>2, <1>3, <1>4, <1>5, NoLineMoves, Zenon

LEMMA StopBeginsKeeps ==
  ASSUME Bounds, IInv, StopBegins \/ JoinEnds
  PROVE  IInv'
<1>1. /\ UNCHANGED <<buf, discarding, begun, ended, queue, rxDropped, batch, prepared,
                     plotNames, stored, left, overflowing, unstorable, wake, pc>>
      /\ stopPc \in {"off", "joins"} /\ stopPc' \in {"joins", "cancels"}
      /\ stopping' = TRUE \/ stopping' = stopping
  BY DEF StopBegins, JoinEnds, cutVars, taskVars
<1>2. stopPc' # "done" /\ stopping' \in BOOLEAN /\ wake' \in BOOLEAN /\ pc # "ended"
  BY <1>1 DEF IInv, Phases, Shapes
<1>3. Phases'
  BY <1>1 DEF IInv, Phases
<1>4. NoLostWakeup'
  BY <1>1 DEF IInv, NoLostWakeup
<1> QED  BY <1>1, <1>2, <1>3, <1>4, NoLineMoves, Zenon

LEMMA BackOf ==
  ASSUME NEW q \in Seq(Number), NEW k \in Nat, k <= Len(q)
  PROVE  LET back == SubSeq(q, k + 1, Len(q))
         IN /\ back \in Seq(Number) /\ Len(back) = Len(q) - k
            /\ \A i \in 1 .. Len(back) : back[i] = q[k + i] /\ k + i \in 1 .. Len(q)
<1> DEFINE back == SubSeq(q, k + 1, Len(q))
<1>1. back \in Seq(Number)
  OBVIOUS
<1>2. Len(back) = Len(q) - k
  OBVIOUS
<1>3. \A i \in 1 .. Len(q) - k : back[i] = q[k + i] /\ k + i \in 1 .. Len(q)
  OBVIOUS
<1> QED  BY <1>1, <1>2, <1>3

(* The head of the queue becomes the batch. *)
LEMMA TakeBatchKeeps ==
  ASSUME Bounds, IInv, TakeBatch
  PROVE  IInv'
<1>1. PICK k : /\ k = (IF Len(queue) < BatchMax THEN Len(queue) ELSE BatchMax)
               /\ batch' = SubSeq(queue, 1, k)
               /\ queue' = SubSeq(queue, k + 1, Len(queue))
               /\ overflowing' = (overflowing /\ Len(queue) - k >= QueueMax \div 2)
  BY DEF TakeBatch
<1>2. /\ pc = "waits" /\ queue # <<>> /\ pc' = "submits"
      /\ UNCHANGED <<buf, discarding, begun, ended, rxDropped, wake, prepared, plotNames,
                     unstorable, stopping, stopPc, stored, left>>
  BY DEF TakeBatch, cutVars
<1>3. /\ queue \in Seq(Number) /\ Len(queue) \in Nat /\ BatchMax \in Nat \ {0}
      /\ batch = <<>> /\ prepared = <<>> /\ QueueMax \in Nat
  BY <1>2 DEF IInv, Shapes, Phases, Bounds
<1>4. Len(queue) > 0
  <2>1. Len(queue) \in Nat \ {0}
    BY <1>2, <1>3, EmptySeq
  <2> QED  BY <2>1
<1>5. k \in Nat /\ k >= 1 /\ k <= Len(queue) /\ k <= BatchMax
  BY <1>1, <1>3, <1>4
<1>6. /\ batch' \in Seq(Number) /\ Len(batch') = k /\ batch' # <<>>
      /\ \A i \in 1 .. Len(batch') : batch'[i] = queue[i] /\ i \in 1 .. Len(queue)
  BY <1>1, <1>3, <1>5
<1>7. /\ queue' \in Seq(Number) /\ Len(queue') = Len(queue) - k
      /\ \A i \in 1 .. Len(queue') : queue'[i] = queue[k + i] /\ k + i \in 1 .. Len(queue)
  BY <1>1, <1>3, <1>5, BackOf, Zenon
<1>8. Len(prepared) = 0 /\ Len(batch) = 0
  BY <1>3
<1>9. overflowing' \in BOOLEAN
  BY <1>1, Zenon DEF IInv, Shapes
<1>10. Shapes'
  BY <1>2, <1>6, <1>7, <1>9, Zenon DEF IInv, Shapes
<1>11. NothingKept' /\ EndedBegan' /\ RefusalsTold'
  BY <1>2, Zenon DEF IInv, NothingKept, EndedBegan, RefusalsTold
<1>12. NoLostWakeup'
  BY <1>2 DEF NoLostWakeup
<1>13. Phases'
  BY <1>2, <1>6 DEF IInv, Phases
<1>14. Rooms'
  BY <1>2, <1>3, <1>5, <1>6, <1>7, <1>8 DEF IInv, Rooms
<1>15. Accounted'
  <2>1. Kept' = Kept
    <3>1. Waiting' = Waiting - k /\ Passed' = Passed + k /\ Waiting \in Int /\ Passed \in Int
      BY <1>2, <1>3, <1>5, <1>6, <1>7, <1>8, Sizes DEF IInv, Waiting, Passed
    <3> QED  BY <3>1, <1>5 DEF Kept
  <2> QED  BY <2>1, <1>2, Zenon DEF IInv, Accounted
<1>16. NamesOwed'
  BY <1>2, Zenon DEF IInv, NamesOwed
<1>17. InOrder'
  <2>1. \A i, j \in 1 .. Len(queue') : i < j => k + i < k + j
    BY <1>5, <1>7, <1>3
  <2>2. \A i \in 1 .. Len(batch') : \A j \in 1 .. Len(queue') : i < k + j
    BY <1>5, <1>6, <1>7, <1>3
  <2>3. /\ \A i, j \in 1 .. Len(queue) : i < j => queue[i] < queue[j]
        /\ \A i \in 1 .. Len(queue) : queue[i] <= ended
        /\ \A x \in stored : \A j \in 1 .. Len(queue) : x.n < queue[j]
        /\ \A x \in stored : x.n \in Number /\ x.n <= ended
    BY Zenon DEF IInv, InOrder
  <2>4. Len(prepared') = 0 /\ \A i \in 1 .. Len(prepared') : FALSE
    BY <1>2, <1>8
  <2>5. /\ \A i \in 1 .. Len(batch') : batch'[i] <= ended
        /\ \A i \in 1 .. Len(queue') : queue'[i] <= ended
        /\ \A x \in stored : \A j \in 1 .. Len(queue') : x.n < queue'[j]
        /\ \A x \in stored : \A j \in 1 .. Len(batch') : x.n < batch'[j]
    BY <1>6, <1>7, <2>3, Zenon
  <2>6. /\ \A i, j \in 1 .. Len(queue') : i < j => queue'[i] < queue'[j]
        /\ \A i, j \in 1 .. Len(batch') : i < j => batch'[i] < batch'[j]
        /\ \A i \in 1 .. Len(batch') : \A j \in 1 .. Len(queue') : batch'[i] < queue'[j]
    BY <1>6, <1>7, <2>1, <2>2, <2>3, Zenon
  <2> QED  BY <1>2, <2>3, <2>4, <2>5, <2>6, Zenon DEF InOrder
<1> QED
  BY <1>10, <1>11, <1>12, <1>13, <1>14, <1>15, <1>16, <1>17, Zenon DEF IInv

(* The numbers of the lines that lose their head stay in order. *)
LEMMA TailFacts ==
  ASSUME NEW T, NEW s \in Seq(T), s # <<>>
  PROVE  /\ Tail(s) \in Seq(T) /\ Len(Tail(s)) = Len(s) - 1 /\ Len(s) \in Nat \ {0}
         /\ Head(s) = s[1] /\ s[1] \in T /\ 1 \in 1 .. Len(s)
         /\ \A i \in 1 .. Len(Tail(s)) : Tail(s)[i] = s[i + 1] /\ i + 1 \in 1 .. Len(s)
<1>1. Len(s) \in Nat \ {0}
  BY EmptySeq
<1>2. Tail(s) \in Seq(T)
  OBVIOUS
<1>3. Len(Tail(s)) = Len(s) - 1
  OBVIOUS
<1>4. Head(s) = s[1] /\ s[1] \in T /\ 1 \in 1 .. Len(s)
  BY <1>1, ElementOfSeq
<1>5. \A i \in 1 .. Len(Tail(s)) : Tail(s)[i] = s[i + 1] /\ i + 1 \in 1 .. Len(s)
  BY <1>1, <1>3
<1> QED  BY <1>1, <1>2, <1>3, <1>4, <1>5

LEMMA FreshFacts ==
  ASSUME Bounds, Shapes, Cardinality(plotNames) <= NamesMax, NEW name \in Name
  PROVE  /\ Fresh(name) \in SUBSET Names /\ Charted(name) \in Name
         /\ Fresh(name) \subseteq {Charted(name)}
         /\ plotNames \cup Fresh(name) \in SUBSET Names
         /\ IsFiniteSet(plotNames \cup Fresh(name))
         /\ Cardinality(plotNames \cup Fresh(name)) <= NamesMax
<1>1. IsFiniteSet(plotNames) /\ plotNames \in SUBSET Names /\ NamesMax \in Nat
  BY DEF Shapes, Bounds
<1>2. Cardinality(plotNames) \in Nat
  BY <1>1, FS_CardinalityType
<1>3. CASE Fresh(name) = {}
  <2>1. plotNames \cup Fresh(name) = plotNames
    BY <1>3
  <2>2. Charted(name) \in Name
    BY DEF Charted, Name
  <2> QED  BY <1>1, <1>3, <2>1, <2>2
<1>4. CASE Fresh(name) # {}
  <2>1. /\ Fresh(name) = {name} /\ name \in Names /\ name \notin plotNames
        /\ Cardinality(plotNames) + 1 <= NamesMax
    BY <1>2, <1>4, <1>1 DEF Fresh, Name
  <2>2. Charted(name) = name
    BY <1>4 DEF Charted
  <2>3. /\ IsFiniteSet(plotNames \cup {name})
        /\ Cardinality(plotNames \cup {name}) = Cardinality(plotNames) + 1
    BY <1>1, <2>1, FS_AddElement
  <2> QED  BY <1>1, <2>1, <2>2, <2>3
<1> QED  BY <1>3, <1>4

LEMMA Appended ==
  ASSUME NEW T, NEW s \in Seq(T), NEW x \in T
  PROVE  /\ Append(s, x) \in Seq(T) /\ Len(Append(s, x)) = Len(s) + 1
         /\ \A i \in 1 .. Len(s) : Append(s, x)[i] = s[i] /\ i \in 1 .. Len(Append(s, x))
         /\ Append(s, x)[Len(s) + 1] = x /\ Len(s) + 1 \in 1 .. Len(Append(s, x))
<1>1. Append(s, x) \in Seq(T)
  OBVIOUS
<1>2. Len(Append(s, x)) = Len(s) + 1
  OBVIOUS
<1>3. \A i \in 1 .. Len(s) : Append(s, x)[i] = s[i]
  OBVIOUS
<1>4. Append(s, x)[Len(s) + 1] = x
  OBVIOUS
<1>5. \A i \in 1 .. Len(s) : i \in 1 .. Len(Append(s, x))
  BY <1>2
<1>6. Len(s) + 1 \in 1 .. Len(Append(s, x))
  BY <1>2
<1> QED  BY <1>1, <1>2, <1>3, <1>4, <1>5, <1>6

(* A line that is submitted leaves the batch for what is to be settled, or  *)
(* is dropped.                                                              *)
LEMMA SubmitLineKeeps ==
  ASSUME Bounds, IInv, SubmitLine
  PROVE  IInv'
<1>1. PICK name \in Name : Submit(name)
  BY DEF SubmitLine, Name
<1>2. /\ pc \in {"submits", "full"} /\ batch # <<>>
      /\ pc' = AfterSubmit(Tail(batch))
      /\ UNCHANGED <<buf, discarding, begun, ended, queue, overflowing, wake, stopping, stopPc,
                     stored, left>>
  BY DEF SubmitLine, cutVars
<1>3. /\ batch \in Seq(Number) /\ rxDropped \in Nat /\ unstorable \in Nat
      /\ prepared \in Seq([n : Number, name : Name, fresh : SUBSET Names])
      /\ Cardinality(plotNames) <= NamesMax /\ Shapes
      /\ BatchMax \in Nat /\ QueueMax \in Nat
  BY DEF IInv, Shapes, NamesOwed, Bounds
<1>4. /\ Tail(batch) \in Seq(Number) /\ Len(Tail(batch)) = Len(batch) - 1
      /\ Len(batch) \in Nat \ {0} /\ Head(batch) = batch[1] /\ batch[1] \in Number
      /\ 1 \in 1 .. Len(batch)
      /\ \A i \in 1 .. Len(Tail(batch)) :
           Tail(batch)[i] = batch[i + 1] /\ i + 1 \in 1 .. Len(batch)
  BY <1>2, <1>3, TailFacts, Zenon
<1>5. batch' = Tail(batch)
  BY <1>1 DEF Submit
<1>6. /\ pc' \in {"settles", "submits"} /\ (pc' = "settles" <=> batch' = <<>>)
  BY <1>2, <1>5 DEF AfterSubmit
<1>7. stopPc \in {"off", "joins", "cancels"} /\ pc # "ended" /\ left = {}
  BY <1>2 DEF IInv, Phases
<1>8. Len(prepared) \in Nat /\ \A i \in 1 .. Len(batch') : 1 < i + 1
  BY <1>3, <1>4, <1>5
<1> DEFINE line == [n |-> Head(batch), name |-> Charted(name), fresh |-> Fresh(name)]
<1>9. \/ /\ prepared' = Append(prepared, line) /\ plotNames' = plotNames \cup Fresh(name)
         /\ UNCHANGED <<rxDropped, unstorable>>
      \/ /\ rxDropped' = rxDropped + 1 /\ unstorable' = unstorable + 1
         /\ UNCHANGED <<prepared, plotNames>>
  BY <1>1 DEF Submit
<1>10. /\ Fresh(name) \in SUBSET Names /\ Charted(name) \in Name
       /\ Fresh(name) \subseteq {Charted(name)}
       /\ plotNames \cup Fresh(name) \in SUBSET Names
       /\ IsFiniteSet(plotNames \cup Fresh(name))
       /\ Cardinality(plotNames \cup Fresh(name)) <= NamesMax
  BY <1>3, FreshFacts
<1>11. /\ line \in [n : Number, name : Name, fresh : SUBSET Names] /\ line.n = batch[1]
       /\ line.name = Charted(name) /\ line.fresh = Fresh(name)
  BY <1>4, <1>10
<1> HIDE DEF line
<1>12. Phases'
  BY <1>2, <1>6, <1>7 DEF IInv, Phases
<1>13. NothingKept' /\ EndedBegan' /\ NoLostWakeup'
  <2>1. pc' # "waits"
    BY <1>6
  <2> QED  BY <2>1, <1>2, Zenon DEF IInv, NothingKept, EndedBegan, NoLostWakeup
<1>14. RefusalsTold'
  BY <1>2, <1>7 DEF RefusalsTold
<1>15. /\ \A i \in 1 .. Len(batch') : batch'[i] = batch[i + 1] /\ i + 1 \in 1 .. Len(batch)
       /\ \A i, j \in 1 .. Len(batch') : i < j => i + 1 < j + 1
  BY <1>4, <1>5
<1>16. /\ \A i \in 1 .. Len(batch') : batch'[i] <= ended
       /\ \A i, j \in 1 .. Len(batch') : i < j => batch'[i] < batch'[j]
       /\ \A i \in 1 .. Len(batch') : \A j \in 1 .. Len(queue) : batch'[i] < queue[j]
       /\ \A i \in 1 .. Len(prepared) : \A j \in 1 .. Len(batch') : prepared[i].n < batch'[j]
       /\ \A x \in stored : \A j \in 1 .. Len(batch') : x.n < batch'[j]
  BY <1>15, Zenon DEF IInv, InOrder
<1>17. CASE /\ prepared' = Append(prepared, line) /\ plotNames' = plotNames \cup Fresh(name)
            /\ UNCHANGED <<rxDropped, unstorable>>
  <2>1. /\ prepared' \in Seq([n : Number, name : Name, fresh : SUBSET Names])
        /\ Len(prepared') = Len(prepared) + 1
        /\ \A i \in 1 .. Len(prepared) : prepared'[i] = prepared[i] /\ i \in 1 .. Len(prepared')
        /\ prepared'[Len(prepared) + 1] = line /\ Len(prepared) + 1 \in 1 .. Len(prepared')
    <3> DEFINE longer == Append(prepared, line)
    <3>1. /\ prepared \in Seq([n : Number, name : Name, fresh : SUBSET Names])
          /\ line \in [n : Number, name : Name, fresh : SUBSET Names]
      BY <1>3, <1>11
    <3>2. /\ longer \in Seq([n : Number, name : Name, fresh : SUBSET Names])
          /\ Len(longer) = Len(prepared) + 1
          /\ \A i \in 1 .. Len(prepared) : longer[i] = prepared[i] /\ i \in 1 .. Len(longer)
          /\ longer[Len(prepared) + 1] = line /\ Len(prepared) + 1 \in 1 .. Len(longer)
      BY <3>1, Appended
    <3>3. prepared' = longer
      BY <1>17
    <3> HIDE DEF longer
    <3> QED  BY <3>2, <3>3
  <2>2. \A i \in 1 .. Len(prepared') : i \in 1 .. Len(prepared) \/ i = Len(prepared) + 1
    BY <2>1, <1>8
  <2>3. Shapes'
    BY <1>2, <1>3, <1>4, <1>5, <1>10, <1>17, <2>1, Zenon DEF Shapes
  <2>4. Rooms'
    <3>1. Len(batch') + Len(prepared') <= BatchMax
      BY <1>3, <1>4, <1>5, <1>8, <2>1 DEF IInv, Rooms
    <3> QED  BY <3>1, <1>2, <1>7, Zenon DEF IInv, Rooms
  <2>5. Accounted'
    <3>1. Waiting' = Waiting /\ Passed' = Passed
      BY <1>2, <1>4, <1>5, <1>8, <1>17, <2>1, Sizes DEF IInv, Waiting, Passed
    <3> QED  BY <3>1, <1>2, Zenon DEF IInv, Accounted, Kept
  <2>6. NamesOwed'
    <3>1. \A p \in plotNames' : \/ \E x \in stored \cup left : x.name = p
                                \/ \E i \in 1 .. Len(prepared') : p \in prepared'[i].fresh
      <4> SUFFICES ASSUME NEW p \in plotNames'
                   PROVE  \/ \E x \in stored \cup left : x.name = p
                          \/ \E i \in 1 .. Len(prepared') : p \in prepared'[i].fresh
        OBVIOUS
      <4>1. CASE p \in Fresh(name)
        BY <4>1, <1>11, <2>1, Zenon
      <4>2. CASE p \in plotNames
        BY <4>2, <2>1, Zenon DEF IInv, NamesOwed
      <4> QED  BY <4>1, <4>2, <1>17
    <3>2. \A i \in 1 .. Len(prepared') : prepared'[i].fresh \subseteq {prepared'[i].name}
      <4> SUFFICES ASSUME NEW i \in 1 .. Len(prepared')
                   PROVE  prepared'[i].fresh \subseteq {prepared'[i].name}
        OBVIOUS
      <4>1. CASE i \in 1 .. Len(prepared)
        <5>1. prepared'[i] = prepared[i] /\ prepared[i].fresh \subseteq {prepared[i].name}
          BY <4>1, <2>1, Zenon DEF IInv, NamesOwed
        <5> QED  BY <5>1
      <4>2. CASE i = Len(prepared) + 1
        <5>1. prepared'[i] = line
          BY <4>2, <2>1, Zenon
        <5> QED  BY <5>1, <1>10, <1>11
      <4> QED  BY <4>1, <4>2, <2>2, Zenon
    <3> QED  BY <3>1, <3>2, <1>2, <1>10, <1>17, Zenon DEF NamesOwed
  <2>7. InOrder'
    <3>1. /\ \A i \in 1 .. Len(prepared) : prepared[i].n <= ended
          /\ \A i, j \in 1 .. Len(prepared) : i < j => prepared[i].n < prepared[j].n
          /\ \A i \in 1 .. Len(prepared) : \A j \in 1 .. Len(queue) : prepared[i].n < queue[j]
          /\ \A i \in 1 .. Len(prepared) : prepared[i].n < batch[1]
          /\ \A x \in stored : \A j \in 1 .. Len(prepared) : x.n < prepared[j].n
          /\ batch[1] <= ended /\ \A x \in stored : x.n < batch[1]
          /\ \A j \in 1 .. Len(queue) : batch[1] < queue[j]
      BY <1>4, Zenon DEF IInv, InOrder
    <3>2. \A j \in 1 .. Len(batch') : batch[1] < batch'[j]
      BY <1>4, <1>8, <1>15, Zenon DEF IInv, InOrder
    <3>3. \A i \in 1 .. Len(prepared) : ~(Len(prepared) + 1 < i)
      BY <1>8
    <3>4. ~(Len(prepared) + 1 < Len(prepared) + 1)
      BY <1>8
    <3>5. \A i, j \in 1 .. Len(prepared') : i < j => prepared'[i].n < prepared'[j].n
      BY <1>11, <2>1, <2>2, <3>1, <3>3, <3>4, Zenon
    <3>6. /\ \A i \in 1 .. Len(prepared') : prepared'[i].n <= ended
          /\ \A i \in 1 .. Len(prepared') : \A j \in 1 .. Len(queue) : prepared'[i].n < queue[j]
          /\ \A i \in 1 .. Len(prepared') : \A j \in 1 .. Len(batch') : prepared'[i].n < batch'[j]
          /\ \A x \in stored : \A j \in 1 .. Len(prepared') : x.n < prepared'[j].n
      BY <1>11, <1>16, <2>1, <2>2, <3>1, <3>2, Zenon
    <3> QED  BY <1>2, <1>16, <3>5, <3>6, Zenon DEF IInv, InOrder
  <2> QED  BY <1>12, <1>13, <1>14, <2>3, <2>4, <2>5, <2>6, <2>7, Zenon DEF IInv
<1>18. CASE /\ rxDropped' = rxDropped + 1 /\ unstorable' = unstorable + 1
            /\ UNCHANGED <<prepared, plotNames>>
  <2>1. rxDropped' \in Nat /\ unstorable' \in Nat
    BY <1>3, <1>18
  <2>2. Shapes'
    BY <1>2, <1>3, <1>4, <1>5, <1>18, <2>1, Zenon DEF Shapes
  <2>3. Rooms'
    <3>1. Len(batch') + Len(prepared') <= BatchMax
      BY <1>3, <1>4, <1>5, <1>8, <1>18 DEF IInv, Rooms
    <3> QED  BY <3>1, <1>2, <1>7, Zenon DEF IInv, Rooms
  <2>4. Accounted'
    <3>1. Waiting' = Waiting + 1 /\ Passed' = Passed - 1 /\ Waiting \in Int /\ Passed \in Int
      BY <1>2, <1>3, <1>4, <1>5, <1>18, Sizes DEF IInv, Waiting, Passed
    <3>2. Kept' = Kept
      BY <3>1 DEF Kept
    <3> QED  BY <3>2, <1>2, Zenon DEF IInv, Accounted
  <2>5. NamesOwed'
    BY <1>2, <1>18, Zenon DEF IInv, NamesOwed
  <2>6. InOrder'
    BY <1>2, <1>16, <1>18, Zenon DEF IInv, InOrder
  <2> QED  BY <1>12, <1>13, <1>14, <2>2, <2>3, <2>4, <2>5, <2>6, Zenon DEF IInv
<1> QED  BY <1>9, <1>17, <1>18

(* The head of what is to be settled goes, with the store or dropped. *)
LEMMA PreparedTail ==
  ASSUME IInv, prepared # <<>>, prepared' = Tail(prepared)
  PROVE  /\ prepared' \in Seq([n : Number, name : Name, fresh : SUBSET Names])
         /\ Len(prepared') = Len(prepared) - 1 /\ Len(prepared) \in Nat \ {0}
         /\ prepared[1] \in [n : Number, name : Name, fresh : SUBSET Names]
         /\ 1 \in 1 .. Len(prepared)
         /\ \A i \in 1 .. Len(prepared') :
              prepared'[i] = prepared[i + 1] /\ i + 1 \in 1 .. Len(prepared) /\ 1 < i + 1
         /\ \A i, j \in 1 .. Len(prepared') : i < j => i + 1 < j + 1
<1>1. prepared \in Seq([n : Number, name : Name, fresh : SUBSET Names])
  BY DEF IInv, Shapes
<1>2. /\ Tail(prepared) \in Seq([n : Number, name : Name, fresh : SUBSET Names])
      /\ Len(Tail(prepared)) = Len(prepared) - 1 /\ Len(prepared) \in Nat \ {0}
      /\ prepared[1] \in [n : Number, name : Name, fresh : SUBSET Names]
      /\ 1 \in 1 .. Len(prepared)
      /\ \A i \in 1 .. Len(Tail(prepared)) :
           Tail(prepared)[i] = prepared[i + 1] /\ i + 1 \in 1 .. Len(prepared)
  BY <1>1, TailFacts, Zenon
<1>3. Len(prepared') \in Nat
  BY <1>2
<1>4. /\ \A i \in 1 .. Len(prepared') : 1 < i + 1
      /\ \A i, j \in 1 .. Len(prepared') : i < j => i + 1 < j + 1
  BY <1>3
<1> QED  BY <1>2, <1>4, Zenon

LEMMA PreparedOrder ==
  ASSUME IInv, prepared # <<>>, prepared' = Tail(prepared)
  PROVE  /\ \A i \in 1 .. Len(prepared') : prepared'[i].n <= ended
         /\ \A i, j \in 1 .. Len(prepared') : i < j => prepared'[i].n < prepared'[j].n
         /\ \A i \in 1 .. Len(prepared') : \A j \in 1 .. Len(queue) : prepared'[i].n < queue[j]
         /\ \A i \in 1 .. Len(prepared') : \A j \in 1 .. Len(batch) : prepared'[i].n < batch[j]
         /\ \A x \in stored : \A j \in 1 .. Len(prepared') : x.n < prepared'[j].n
         /\ \A j \in 1 .. Len(prepared') : prepared[1].n < prepared'[j].n
BY PreparedTail, ZenonT(40) DEF IInv, InOrder

LEMMA SettleStoredKeeps ==
  ASSUME Bounds, IInv, SettleStored
  PROVE  IInv'
<1> DEFINE row == [n |-> prepared[1].n, name |-> prepared[1].name]
<1>1. /\ pc = "settles" /\ prepared # <<>> /\ prepared' = Tail(prepared)
      /\ stored' = stored \cup {row} /\ unstorable' = 0
      /\ UNCHANGED <<buf, discarding, begun, ended, queue, rxDropped, overflowing, wake, pc,
                     batch, plotNames, stopping, stopPc, left>>
  BY DEF SettleStored, CloseUnstorable, cutVars
<1>2. row.n = prepared[1].n /\ row.name = prepared[1].name
  OBVIOUS
<1> HIDE DEF row
<1>3. /\ prepared' \in Seq([n : Number, name : Name, fresh : SUBSET Names])
      /\ Len(prepared') = Len(prepared) - 1 /\ Len(prepared) \in Nat \ {0}
      /\ prepared[1] \in [n : Number, name : Name, fresh : SUBSET Names]
      /\ 1 \in 1 .. Len(prepared)
      /\ \A i \in 1 .. Len(prepared') :
           prepared'[i] = prepared[i + 1] /\ i + 1 \in 1 .. Len(prepared) /\ 1 < i + 1
      /\ \A i, j \in 1 .. Len(prepared') : i < j => i + 1 < j + 1
  BY <1>1, PreparedTail, Zenon
<1>4. stopPc # "done" /\ pc # "ended" /\ pc # "waits"
  BY <1>1 DEF IInv, Phases
<1>5. row.n \in Number
  BY <1>2, <1>3
<1>6. row \notin stored
  <2>1. \A x \in stored : x.n < prepared[1].n
    BY <1>3, Zenon DEF IInv, InOrder
  <2>2. ~(row.n < row.n)
    BY <1>5 DEF Number
  <2> QED  BY <1>2, <2>1, <2>2, Zenon
<1>7. IsFiniteSet(stored') /\ Cardinality(stored') = Cardinality(stored) + 1
  <2>1. IsFiniteSet(stored)
    BY DEF IInv, Shapes
  <2> QED  BY <1>1, <1>6, <2>1, FS_AddElement
<1>8. Shapes'
  <2>1. unstorable' \in Nat
    BY <1>1
  <2> QED  BY <1>1, <1>3, <1>7, <2>1, Zenon DEF IInv, Shapes
<1>9. NothingKept' /\ EndedBegan' /\ NoLostWakeup' /\ RefusalsTold'
  BY <1>1, Zenon DEF IInv, NothingKept, EndedBegan, NoLostWakeup, RefusalsTold
<1>10. Phases'
  BY <1>1 DEF IInv, Phases
<1>11. Rooms'
  <2>1. Len(batch) \in Nat /\ BatchMax \in Nat
    BY Sizes DEF IInv, Bounds
  <2>2. Len(batch') + Len(prepared') <= BatchMax
    BY <1>1, <1>3, <2>1 DEF IInv, Rooms
  <2> QED  BY <2>2, <1>1, Zenon DEF IInv, Rooms
<1>12. Accounted'
  <2>1. Waiting' = Waiting
    BY <1>1 DEF Waiting
  <2>2. Passed' = Passed
    BY <1>1, <1>3, <1>7, Sizes DEF IInv, Passed
  <2> QED  BY <1>1, <2>1, <2>2, Zenon DEF IInv, Accounted, Kept
<1>13. NamesOwed'
  <2>1. \A p \in plotNames : \/ \E x \in stored' \cup left : x.name = p
                             \/ \E i \in 1 .. Len(prepared') : p \in prepared'[i].fresh
    <3> SUFFICES ASSUME NEW p \in plotNames,
                        ~(\E i \in 1 .. Len(prepared') : p \in prepared'[i].fresh)
                 PROVE  \E x \in stored' \cup left : x.name = p
      OBVIOUS
    <3>1. CASE \E x \in stored \cup left : x.name = p
      BY <1>1, <3>1
    <3>2. CASE \E i \in 1 .. Len(prepared) : p \in prepared[i].fresh
      <4>1. PICK i \in 1 .. Len(prepared) : p \in prepared[i].fresh
        BY <3>2
      <4>2. i = 1
        <5>1. i # 1 => i - 1 \in 1 .. Len(prepared') /\ i - 1 + 1 = i
          BY <1>3
        <5>2. i # 1 => prepared'[i - 1] = prepared[i]
          BY <5>1, <1>3, Zenon
        <5> QED  BY <5>1, <5>2, <4>1, Zenon
      <4>3. prepared[1].name = p
        BY <1>3, <4>1, <4>2 DEF IInv, NamesOwed
      <4> QED  BY <4>3, <1>1, <1>2, Zenon
    <3> QED  BY <3>1, <3>2, Zenon DEF IInv, NamesOwed
  <2>2. \A i \in 1 .. Len(prepared') : prepared'[i].fresh \subseteq {prepared'[i].name}
    BY <1>3, Zenon DEF IInv, NamesOwed
  <2> QED  BY <2>1, <2>2, <1>1, Zenon DEF IInv, NamesOwed
<1>14. InOrder'
  <2>1. /\ prepared[1].n <= ended
        /\ \A j \in 1 .. Len(queue) : prepared[1].n < queue[j]
        /\ \A j \in 1 .. Len(batch) : prepared[1].n < batch[j]
    BY <1>3, Zenon DEF IInv, InOrder
  <2>2. /\ \A i \in 1 .. Len(prepared') : prepared'[i].n <= ended
        /\ \A i, j \in 1 .. Len(prepared') : i < j => prepared'[i].n < prepared'[j].n
        /\ \A i \in 1 .. Len(prepared') : \A j \in 1 .. Len(queue) : prepared'[i].n < queue[j]
        /\ \A i \in 1 .. Len(prepared') : \A j \in 1 .. Len(batch) : prepared'[i].n < batch[j]
        /\ \A x \in stored : \A j \in 1 .. Len(prepared') : x.n < prepared'[j].n
        /\ \A j \in 1 .. Len(prepared') : prepared[1].n < prepared'[j].n
    BY <1>1, PreparedOrder, Zenon
  <2>3. \A x \in stored' : x \in stored \/ x = row
    BY <1>1
  <2>4. /\ \A x \in stored' : \A j \in 1 .. Len(queue) : x.n < queue[j]
        /\ \A x \in stored' : \A j \in 1 .. Len(batch) : x.n < batch[j]
        /\ \A x \in stored' : \A j \in 1 .. Len(prepared') : x.n < prepared'[j].n
        /\ \A x \in stored' : x.n \in Number /\ x.n <= ended
    BY <1>2, <1>5, <2>1, <2>2, <2>3, Zenon DEF IInv, InOrder
  <2> QED  BY <1>1, <2>2, <2>4, Zenon DEF IInv, InOrder
<1> QED
  BY <1>8, <1>9, <1>10, <1>11, <1>12, <1>13, <1>14, Zenon DEF IInv

LEMMA SettleRefusedKeeps ==
  ASSUME Bounds, IInv, SettleRefused
  PROVE  IInv'
<1>1. /\ pc = "settles" /\ prepared # <<>> /\ prepared' = Tail(prepared)
      /\ plotNames' = plotNames \ prepared[1].fresh
      /\ rxDropped' = rxDropped + 1 /\ unstorable' = unstorable + 1
      /\ UNCHANGED <<buf, discarding, begun, ended, queue, overflowing, wake, pc,
                     batch, stopping, stopPc, stored, left>>
  BY DEF SettleRefused, cutVars
<1>2. /\ prepared' \in Seq([n : Number, name : Name, fresh : SUBSET Names])
      /\ Len(prepared') = Len(prepared) - 1 /\ Len(prepared) \in Nat \ {0}
      /\ prepared[1] \in [n : Number, name : Name, fresh : SUBSET Names]
      /\ 1 \in 1 .. Len(prepared)
      /\ \A i \in 1 .. Len(prepared') :
           prepared'[i] = prepared[i + 1] /\ i + 1 \in 1 .. Len(prepared) /\ 1 < i + 1
      /\ \A i, j \in 1 .. Len(prepared') : i < j => i + 1 < j + 1
  BY <1>1, PreparedTail, Zenon
<1>3. stopPc # "done" /\ pc # "ended" /\ pc # "waits"
  BY <1>1 DEF IInv, Phases
<1>4. /\ plotNames' \in SUBSET Names /\ IsFiniteSet(plotNames')
      /\ Cardinality(plotNames') <= NamesMax
  <2>1. /\ plotNames \in SUBSET Names /\ IsFiniteSet(plotNames)
        /\ Cardinality(plotNames) <= NamesMax /\ NamesMax \in Nat
    BY DEF IInv, Shapes, NamesOwed, Bounds
  <2>2. plotNames' \in SUBSET plotNames
    BY <1>1
  <2>3. IsFiniteSet(plotNames') /\ Cardinality(plotNames') <= Cardinality(plotNames)
    BY <2>1, <2>2, FS_Subset
  <2>4. Cardinality(plotNames') \in Nat /\ Cardinality(plotNames) \in Nat
    BY <2>1, <2>3, FS_CardinalityType
  <2> QED  BY <2>1, <2>2, <2>3, <2>4
<1>5. Shapes'
  <2>1. unstorable' \in Nat /\ rxDropped' \in Nat
    BY <1>1 DEF IInv, Shapes
  <2> QED  BY <1>1, <1>2, <1>4, <2>1, Zenon DEF IInv, Shapes
<1>6. NothingKept' /\ EndedBegan' /\ NoLostWakeup'
  BY <1>1, Zenon DEF IInv, NothingKept, EndedBegan, NoLostWakeup
<1>7. RefusalsTold'
  BY <1>1, <1>3 DEF RefusalsTold
<1>8. Phases'
  BY <1>1 DEF IInv, Phases
<1>9. Rooms'
  <2>1. Len(batch) \in Nat /\ BatchMax \in Nat
    BY Sizes DEF IInv, Bounds
  <2>2. Len(batch') + Len(prepared') <= BatchMax
    BY <1>1, <1>2, <2>1 DEF IInv, Rooms
  <2> QED  BY <2>2, <1>1, Zenon DEF IInv, Rooms
<1>10. Accounted'
  <2>1. Waiting' = Waiting + 1 /\ Waiting \in Nat
    BY <1>1, Sizes, SMTT(30) DEF IInv, Waiting
  <2>2. Passed' = Passed - 1 /\ Passed \in Int
    BY <1>1, <1>2, Sizes, SMTT(30) DEF IInv, Passed
  <2>3. Kept' = Kept
    BY <2>1, <2>2 DEF Kept
  <2> QED  BY <1>1, <2>3, Zenon DEF IInv, Accounted
<1>11. NamesOwed'
  <2>1. \A p \in plotNames' : \/ \E x \in stored \cup left : x.name = p
                              \/ \E i \in 1 .. Len(prepared') : p \in prepared'[i].fresh
    <3> SUFFICES ASSUME NEW p \in plotNames', NEW i \in 1 .. Len(prepared),
                        p \in prepared[i].fresh
                 PROVE  \E j \in 1 .. Len(prepared') : p \in prepared'[j].fresh
      BY <1>1 DEF IInv, NamesOwed
    <3>1. i # 1
      BY <1>1
    <3>2. i - 1 \in 1 .. Len(prepared') /\ i - 1 + 1 = i
      BY <1>2, <3>1
    <3>3. prepared'[i - 1] = prepared[i]
      BY <1>2, <3>2, Zenon
    <3> QED  BY <3>2, <3>3
  <2>2. \A i \in 1 .. Len(prepared') : prepared'[i].fresh \subseteq {prepared'[i].name}
    BY <1>2, Zenon DEF IInv, NamesOwed
  <2> QED  BY <2>1, <2>2, <1>1, <1>4, Zenon DEF NamesOwed
<1>12. InOrder'
  <2>1. /\ \A i \in 1 .. Len(prepared') : prepared'[i].n <= ended
        /\ \A i, j \in 1 .. Len(prepared') : i < j => prepared'[i].n < prepared'[j].n
        /\ \A i \in 1 .. Len(prepared') : \A j \in 1 .. Len(queue) : prepared'[i].n < queue[j]
        /\ \A i \in 1 .. Len(prepared') : \A j \in 1 .. Len(batch) : prepared'[i].n < batch[j]
        /\ \A x \in stored : \A j \in 1 .. Len(prepared') : x.n < prepared'[j].n
    BY <1>1, PreparedOrder, Zenon
  <2> QED  BY <1>1, <2>1, Zenon DEF IInv, InOrder
<1> QED
  BY <1>5, <1>6, <1>7, <1>8, <1>9, <1>10, <1>11, <1>12, Zenon DEF IInv

-------------------------------------------------------------------------------
(* stop(). *)

(* The lines a cancelled consumer leaves to the store, each its own. *)
LEMMA LeftBehind ==
  ASSUME IInv
  PROVE  LET lines == {[n |-> x.n, name |-> x.name] : x \in Range(prepared)}
         IN /\ IsFiniteSet(lines) /\ Cardinality(lines) = Len(prepared)
            /\ \A i \in 1 .. Len(prepared) : \E x \in lines : x.name = prepared[i].name
<1> DEFINE lines == {[n |-> x.n, name |-> x.name] : x \in Range(prepared)}
           f     == [i \in 1 .. Len(prepared) |-> [n |-> prepared[i].n, name |-> prepared[i].name]]
<1>1. /\ prepared \in Seq([n : Number, name : Name, fresh : SUBSET Names])
      /\ Len(prepared) \in Nat
  BY DEF IInv, Shapes
<1>2. DOMAIN prepared = 1 .. Len(prepared)
  BY <1>1
<1>3. /\ \A i \in 1 .. Len(prepared) : f[i] \in lines /\ f[i].n = prepared[i].n
                                       /\ f[i].name = prepared[i].name
      /\ \A x \in lines : \E i \in 1 .. Len(prepared) : f[i] = x
  BY <1>2 DEF Range
<1>4. \A i, j \in 1 .. Len(prepared) : i # j => prepared[i].n # prepared[j].n
  <2> SUFFICES ASSUME NEW i \in 1 .. Len(prepared), NEW j \in 1 .. Len(prepared), i # j
               PROVE  prepared[i].n # prepared[j].n
    OBVIOUS
  <2>1. i < j \/ j < i
    BY <1>1
  <2>2. prepared[i].n < prepared[j].n \/ prepared[j].n < prepared[i].n
    BY <2>1, Zenon DEF IInv, InOrder
  <2>3. prepared[i].n \in Nat /\ prepared[j].n \in Nat
    BY HeldTypes DEF IInv, Number
  <2> QED  BY <2>2, <2>3
<1>5. f \in [1 .. Len(prepared) -> lines]
  BY <1>2 DEF Range
<1> HIDE DEF f, lines
<1>6. \A i, j \in 1 .. Len(prepared) : f[i] = f[j] => i = j
  <2> SUFFICES ASSUME NEW i \in 1 .. Len(prepared), NEW j \in 1 .. Len(prepared), f[i] = f[j]
               PROVE  i = j
    OBVIOUS
  <2>1. f[i].n = f[j].n /\ f[i].n = prepared[i].n /\ f[j].n = prepared[j].n
    BY <1>3
  <2> QED  BY <2>1, <1>4
<1>7. f \in Surjection(1 .. Len(prepared), lines)
  BY <1>3, <1>5 DEF Surjection
<1>8. f \in Injection(1 .. Len(prepared), lines)
  BY <1>5, <1>6 DEF Injection, IsInjective
<1>9. /\ IsFiniteSet(1 .. Len(prepared)) /\ Cardinality(1 .. Len(prepared)) = Len(prepared)
  BY <1>1, FS_Interval, SMTT(30)
<1>10. IsFiniteSet(lines) /\ Cardinality(lines) = Len(prepared)
  BY <1>7, <1>8, <1>9, FS_Surjection
<1> QED  BY <1>3, <1>10, Zenon DEF lines

(* What the cancelled consumer was held back on goes back to the head. *)
LEMMA PutBackFacts ==
  ASSUME IInv
  PROVE  /\ PutBack \in Seq(Number) /\ Len(PutBack) = Len(batch) + Len(queue)
         /\ \A i \in 1 .. Len(PutBack) :
              \/ i \in 1 .. Len(batch) /\ PutBack[i] = batch[i]
              \/ /\ ~(i <= Len(batch)) /\ i - Len(batch) \in 1 .. Len(queue)
                 /\ PutBack[i] = queue[i - Len(batch)]
<1>1. /\ queue \in Seq(Number) /\ batch \in Seq(Number)
      /\ Len(queue) \in Nat /\ Len(batch) \in Nat
  BY DEF IInv, Shapes
<1>2. \A s \in Seq(Number) : \A t \in Seq(Number) :
        /\ s \o t \in Seq(Number) /\ Len(s \o t) = Len(s) + Len(t)
        /\ \A i \in 1 .. Len(s) : (s \o t)[i] = s[i]
        /\ \A i \in 1 .. Len(s) + Len(t) : ~(i <= Len(s)) => (s \o t)[i] = t[i - Len(s)]
  OBVIOUS
<1>3. /\ PutBack \in Seq(Number) /\ Len(PutBack) = Len(batch) + Len(queue)
      /\ \A i \in 1 .. Len(batch) : PutBack[i] = batch[i]
      /\ \A i \in 1 .. Len(batch) + Len(queue) :
           ~(i <= Len(batch)) => PutBack[i] = queue[i - Len(batch)]
  BY <1>1, <1>2 DEF PutBack
<1>4. \A i \in 1 .. Len(batch) + Len(queue) :
        (i <= Len(batch) => i \in 1 .. Len(batch))
          /\ (~(i <= Len(batch)) => i - Len(batch) \in 1 .. Len(queue))
  BY <1>1
<1> QED  BY <1>3, <1>4, Zenon

LEMMA ConsumerCancelledKeeps ==
  ASSUME Bounds, IInv, ConsumerCancelled
  PROVE  IInv'
<1> DEFINE lines == {[n |-> x.n, name |-> x.name] : x \in Range(prepared)}
<1>1. /\ pc \in {"waits", "full", "settles"} /\ stopPc = "cancels" /\ left = {}
      /\ queue' = (IF pc = "full" THEN PutBack ELSE queue)
      /\ left' = left \cup lines
      /\ batch' = <<>> /\ prepared' = <<>> /\ pc' = "ended" /\ stopPc' = "counts"
      /\ UNCHANGED <<buf, discarding, begun, ended, rxDropped, overflowing, wake, plotNames,
                     unstorable, stopping, stored>>
  BY DEF ConsumerCancelled, LoopFree, cutVars, IInv, Phases
<1>2. /\ IsFiniteSet(lines) /\ Cardinality(lines) = Len(prepared)
      /\ \A i \in 1 .. Len(prepared) : \E x \in lines : x.name = prepared[i].name
  BY LeftBehind, Zenon
<1>3. left' = lines
  BY <1>1
<1> HIDE DEF lines
<1>4. /\ Len(queue) \in Nat /\ Len(batch) \in Nat /\ Len(prepared) \in Nat
      /\ Cardinality(stored) \in Nat /\ Cardinality(left) \in Nat /\ rxDropped \in Nat
      /\ queue \in Seq(Number) /\ batch \in Seq(Number)
      /\ prepared \in Seq([n : Number, name : Name, fresh : SUBSET Names])
      /\ QueueMax \in Nat /\ BatchMax \in Nat
  BY Sizes DEF IInv, Shapes, Bounds
<1>5. pc # "full" => Len(batch) = 0
  <2>1. pc # "full" => batch = <<>>
    BY <1>1 DEF IInv, Phases
  <2> QED  BY <2>1
<1>6. /\ queue' \in Seq(Number) /\ Len(queue') = Len(batch) + Len(queue)
      /\ \A i \in 1 .. Len(queue') :
           \/ i \in 1 .. Len(batch) /\ queue'[i] = batch[i]
           \/ /\ ~(i <= Len(batch)) /\ i - Len(batch) \in 1 .. Len(queue)
              /\ queue'[i] = queue[i - Len(batch)]
  <2>1. CASE pc = "full"
    <3>1. queue' = PutBack
      BY <1>1, <2>1
    <3> QED  BY <3>1, PutBackFacts
  <2>2. CASE pc # "full"
    <3>1. queue' = queue /\ Len(batch) = 0
      BY <1>1, <1>5, <2>2
    <3>2. Len(queue') = Len(batch) + Len(queue)
      BY <3>1, <1>4
    <3>3. \A i \in 1 .. Len(queue) : ~(i <= Len(batch)) /\ i - Len(batch) = i
      BY <3>1, <1>4
    <3> QED  BY <3>1, <3>2, <3>3, <1>4, Zenon
  <2> QED  BY <2>1, <2>2
<1>7. /\ batch' \in Seq(Number) /\ Len(batch') = 0
      /\ prepared' \in Seq([n : Number, name : Name, fresh : SUBSET Names])
      /\ Len(prepared') = 0
  BY <1>1
<1>8. Shapes'
  BY <1>1, <1>2, <1>3, <1>6, <1>7, Zenon DEF IInv, Shapes
<1>9. NothingKept' /\ EndedBegan'
  BY <1>1, Zenon DEF IInv, NothingKept, EndedBegan
<1>10. Phases' /\ NoLostWakeup' /\ RefusalsTold'
  BY <1>1 DEF Phases, NoLostWakeup, RefusalsTold
<1>11. Rooms'
  <2>1. Len(queue) <= QueueMax /\ Len(batch) <= BatchMax
    BY <1>1, <1>4 DEF IInv, Rooms
  <2>2. Len(queue') <= QueueMax + BatchMax /\ Len(batch') + Len(prepared') <= BatchMax
    BY <2>1, <1>4, <1>6, <1>7
  <2> QED  BY <2>2, <1>1, Zenon DEF Rooms
<1>12. Accounted'
  <2>1. Cardinality(left) = 0
    BY <1>1, FS_EmptySet
  <2>2. Waiting' = Waiting + Len(batch)
    <3>1. rxDropped' = rxDropped /\ Len(queue') = Len(batch) + Len(queue)
      BY <1>1, <1>6, Zenon
    <3> QED  BY <3>1, <1>4 DEF Waiting
  <2>3. Cardinality(left') = Len(prepared) /\ Cardinality(stored') = Cardinality(stored)
    BY <1>1, <1>2, <1>3
  <2>4. Passed' = Passed - Len(batch) /\ Passed \in Int /\ Waiting \in Int
    BY <2>1, <2>3, <1>4, <1>7, SMTT(30) DEF Passed, Waiting
  <2>5. Kept' = Kept
    BY <2>2, <2>4, <1>4 DEF Kept
  <2> QED  BY <2>5, <1>1, Zenon DEF IInv, Accounted
<1>13. NamesOwed'
  <2>1. \A p \in plotNames : \E x \in stored \cup left' : x.name = p
    <3> SUFFICES ASSUME NEW p \in plotNames, NEW i \in 1 .. Len(prepared),
                        p \in prepared[i].fresh
                 PROVE  \E x \in stored \cup left' : x.name = p
      BY <1>1 DEF IInv, NamesOwed
    <3>1. prepared[i].name = p
      BY DEF IInv, NamesOwed
    <3>2. PICK x \in lines : x.name = prepared[i].name
      BY <1>2, Zenon
    <3> QED  BY <3>1, <3>2, <1>3
  <2>2. \A i \in 1 .. Len(prepared') : FALSE
    BY <1>7
  <2> QED  BY <2>1, <2>2, <1>1, Zenon DEF IInv, NamesOwed
<1>14. InOrder'
  <2>1. /\ \A i \in 1 .. Len(batch') : FALSE
        /\ \A i \in 1 .. Len(prepared') : FALSE
    BY <1>7
  <2>2. \A i \in 1 .. Len(queue') : queue'[i] <= ended
    BY <1>6, Zenon DEF IInv, InOrder
  <2>3. \A x \in stored : \A j \in 1 .. Len(queue') : x.n < queue'[j]
    BY <1>6, Zenon DEF IInv, InOrder
  <2>4. \A i, j \in 1 .. Len(queue') : i < j => queue'[i] < queue'[j]
    <3> SUFFICES ASSUME NEW i \in 1 .. Len(queue'), NEW j \in 1 .. Len(queue'), i < j
                 PROVE  queue'[i] < queue'[j]
      OBVIOUS
    <3>1. /\ i <= Len(batch) \/ ~(j <= Len(batch))
          /\ i - Len(batch) < j - Len(batch)
      BY <1>4, <1>6
    <3>2. CASE ~(i <= Len(batch))
      <4>1. ~(j <= Len(batch))
        BY <3>1, <3>2
      <4>2. /\ i - Len(batch) \in 1 .. Len(queue) /\ queue'[i] = queue[i - Len(batch)]
            /\ j - Len(batch) \in 1 .. Len(queue) /\ queue'[j] = queue[j - Len(batch)]
        BY <3>2, <4>1, <1>4, <1>6
      <4> QED  BY <3>1, <4>2, Zenon DEF IInv, InOrder
    <3>3. CASE i <= Len(batch) /\ j <= Len(batch)
      <4>1. /\ i \in 1 .. Len(batch) /\ queue'[i] = batch[i]
            /\ j \in 1 .. Len(batch) /\ queue'[j] = batch[j]
        BY <3>3, <1>4, <1>6
      <4> QED  BY <4>1, Zenon DEF IInv, InOrder
    <3>4. CASE i <= Len(batch) /\ ~(j <= Len(batch))
      <4>1. /\ i \in 1 .. Len(batch) /\ queue'[i] = batch[i]
            /\ j - Len(batch) \in 1 .. Len(queue) /\ queue'[j] = queue[j - Len(batch)]
        BY <3>4, <1>4, <1>6
      <4> QED  BY <4>1, Zenon DEF IInv, InOrder
    <3> QED  BY <3>2, <3>3, <3>4, Zenon
  <2> QED  BY <2>1, <2>2, <2>3, <2>4, <1>1, Zenon DEF IInv, InOrder
<1> QED
  BY <1>8, <1>9, <1>10, <1>11, <1>12, <1>13, <1>14, Zenon DEF IInv

LEMMA StopCountsKeeps ==
  ASSUME Bounds, IInv, StopCounts
  PROVE  IInv'
<1>1. /\ stopPc = "counts" /\ stopPc' = "done" /\ unstorable' = 0
      /\ rxDropped' = rxDropped + Len(queue) + (IF buf > 0 THEN 1 ELSE 0)
      /\ queue' = <<>> /\ buf' = 0 /\ discarding' = FALSE
      /\ UNCHANGED <<begun, ended, overflowing, wake, pc, batch, prepared, plotNames, stopping,
                     stored, left>>
  BY DEF StopCounts, CloseUnstorable, TakePartial, taskVars
<1>2. /\ buf \in Nat /\ rxDropped \in Nat /\ Cap \in Nat /\ Len(queue) \in Nat
      /\ ended \in Nat /\ begun \in Nat /\ QueueMax \in Nat /\ BatchMax \in Nat
  BY Sizes DEF IInv, Shapes, Bounds
<1>3. /\ buf > 0 => rxDropped' = rxDropped + Len(queue) + 1
      /\ buf = 0 => rxDropped' = rxDropped + Len(queue)
      /\ buf > 0 \/ buf = 0
  BY <1>1, <1>2
<1>4. rxDropped' \in Nat /\ unstorable' \in Nat /\ buf' \in 0 .. Cap + 1
  BY <1>1, <1>2, <1>3
<1>5. queue' \in Seq(Number) /\ Len(queue') = 0
  BY <1>1
<1>6. discarding' \in BOOLEAN
  BY <1>1, Zenon
<1>7. Shapes'
  BY <1>1, <1>4, <1>5, <1>6, Zenon DEF IInv, Shapes
<1>8. NothingKept' /\ EndedBegan'
  BY <1>1, <1>2 DEF IInv, NothingKept, EndedBegan
<1>9. Phases' /\ RefusalsTold'
  BY <1>1 DEF IInv, Phases, RefusalsTold
<1>10. NoLostWakeup'
  BY <1>1 DEF NoLostWakeup
<1>11. Rooms'
  <2>1. Len(queue') <= QueueMax + BatchMax /\ Len(queue') <= QueueMax
    BY <1>2, <1>5
  <2> QED  BY <2>1, <1>1, Zenon DEF IInv, Rooms
<1>12. Accounted'
  <2>1. Passed' = Passed
    BY <1>1, Zenon DEF Passed
  <2>2. (buf > 0 => Waiting' = Waiting + 1) /\ (buf = 0 => Waiting' = Waiting)
    BY <1>2, <1>3, <1>5 DEF Waiting
  <2>3. Waiting \in Nat /\ Passed \in Nat
    BY Sizes DEF IInv, Waiting, Passed
  <2>4. (buf > 0 => Kept' = Kept + 1) /\ (buf = 0 => Kept' = Kept)
    BY <2>1, <2>2, <2>3, <1>2 DEF Kept
  <2>5. buf' = 0 /\ ~(0 > 0)
    BY <1>1
  <2> QED  BY <2>4, <2>5, <1>1, <1>3, Zenon DEF IInv, Accounted
<1>13. NamesOwed'
  BY <1>1, Zenon DEF IInv, NamesOwed
<1>14. InOrder'
  <2>1. \A i \in 1 .. Len(queue') : FALSE
    BY <1>5
  <2> QED  BY <2>1, <1>1, Zenon DEF IInv, InOrder
<1> QED
  BY <1>7, <1>8, <1>9, <1>10, <1>11, <1>12, <1>13, <1>14, Zenon DEF IInv

-------------------------------------------------------------------------------
(* The theorems. *)

LEMMA FunctionIsSeq ==
  ASSUME NEW T, NEW m \in Nat, NEW f \in [1 .. m -> T]
  PROVE  f \in Seq(T)
OBVIOUS

LEMMA InitEstablishes ==
  ASSUME Bounds, Init
  PROVE  IInv
<1>1. /\ Cardinality({}) = 0 /\ IsFiniteSet({}) /\ Cap \in Nat /\ QueueMax \in Nat
      /\ BatchMax \in Nat /\ NamesMax \in Nat /\ MaxLines \in Nat
  BY FS_EmptySet DEF Bounds
<1>2. Shapes
  <2>1. discarding \in BOOLEAN /\ overflowing \in BOOLEAN /\ wake \in BOOLEAN
        /\ stopping \in BOOLEAN
    BY Zenon DEF Init
  <2>2. /\ buf \in 0 .. Cap + 1 /\ rxDropped \in Nat /\ unstorable \in Nat /\ begun \in Nat
        /\ ended \in Nat /\ begun <= MaxLines /\ plotNames \in SUBSET Names
    BY <1>1 DEF Init
  <2>3. /\ queue \in Seq(Number) /\ batch \in Seq(Number)
        /\ prepared \in Seq([n : Number, name : Name, fresh : SUBSET Names])
    BY DEF Init
  <2>4. IsFiniteSet(plotNames) /\ IsFiniteSet(stored) /\ IsFiniteSet(left)
    BY <1>1 DEF Init
  <2> QED  BY <2>1, <2>2, <2>3, <2>4, Zenon DEF Shapes
<1>8. NothingKept /\ EndedBegan
  BY DEF Init, NothingKept, EndedBegan
<1>3. Phases /\ Rooms
  BY <1>1 DEF Init, Phases, Rooms
<1>4. InOrder
  BY DEF Init, InOrder
<1>5. NamesOwed
  BY <1>1 DEF Init, NamesOwed
<1>6. Accounted
  BY <1>1 DEF Init, Accounted, Kept, Waiting, Passed
<1>7. NoLostWakeup /\ RefusalsTold
  BY DEF Init, NoLostWakeup, RefusalsTold
<1> QED  BY <1>2, <1>3, <1>4, <1>5, <1>6, <1>7, <1>8 DEF IInv

LEMMA StepKeeps ==
  ASSUME Bounds, IInv, [Next]_vars
  PROVE  IInv'
<1>1. CASE BytesArrive
  BY <1>1, BytesArriveKeeps
<1>2. CASE OnDisconnect
  BY <1>2, OnDisconnectKeeps
<1>3. CASE HeldBack
  BY <1>3, HeldBackKeeps
<1>4. CASE Consumes
  BY <1>4, WaitsKeeps, TakeBatchKeeps, SubmitLineKeeps, SettleStoredKeeps,
     SettleRefusedKeeps, BatchDoneKeeps DEF Consumes
<1>5. CASE Stops
  BY <1>5, StopBeginsKeeps, ConsumerCancelledKeeps, StopCountsKeeps DEF Stops
<1>6. CASE UNCHANGED vars
  <2>1. UNCHANGED <<buf, discarding, begun, ended, queue, rxDropped, overflowing, wake, pc,
                    batch, prepared, plotNames, unstorable, stopping, stopPc, stored, left>>
    BY <1>6 DEF vars, cutVars, taskVars
  <2>2. Shapes' /\ NothingKept' /\ EndedBegan' /\ Phases' /\ Rooms'
    BY <2>1, ZenonT(40) DEF IInv, Shapes, NothingKept, EndedBegan, Phases, Rooms
  <2>3. InOrder' /\ NamesOwed'
    BY <2>1, Zenon DEF IInv, InOrder, NamesOwed
  <2>4. Accounted' /\ NoLostWakeup' /\ RefusalsTold'
    BY <2>1, Zenon DEF IInv, Accounted, Kept, Waiting, Passed, NoLostWakeup, RefusalsTold
  <2> QED  BY <2>2, <2>3, <2>4, Zenon DEF IInv
<1> QED  BY <1>1, <1>2, <1>3, <1>4, <1>5, <1>6 DEF Next

LEMMA Holds ==
  ASSUME Bounds
  PROVE  Spec => []IInv
<1>1. Init => IInv
  BY InitEstablishes
<1>2. IInv /\ [Next]_vars => IInv'
  BY StepKeeps
<1> QED  BY <1>1, <1>2, PTL DEF Spec

(* A buffer never holds more than the code allows it, whatever arrives.     *)
THEOREM RxTypes ==
  ASSUME Bounds
  PROVE  Spec => []TypeOK
<1>1. IInv => TypeOK
  <2> SUFFICES ASSUME IInv PROVE TypeOK
    OBVIOUS
  <2>1. ended <= MaxLines /\ ended \in Nat /\ MaxLines \in Nat
    BY DEF IInv, Shapes, EndedBegan, Bounds
  <2>2. /\ \A i \in 1 .. Len(queue) : queue[i] \in 1 .. MaxLines
        /\ \A i \in 1 .. Len(batch) : batch[i] \in 1 .. MaxLines
    BY <2>1, HeldTypes DEF IInv, InOrder, Number
  <2>3. queue \in Seq(Number) /\ batch \in Seq(Number)
    BY DEF IInv, Shapes
  <2>4. \A s \in Seq(Number) : (\A i \in 1 .. Len(s) : s[i] \in 1 .. MaxLines)
          => s \in Seq(1 .. MaxLines)
    <3> SUFFICES ASSUME NEW s \in Seq(Number), \A i \in 1 .. Len(s) : s[i] \in 1 .. MaxLines
                 PROVE  s \in Seq(1 .. MaxLines)
      OBVIOUS
    <3>1. Len(s) \in Nat /\ s \in [1 .. Len(s) -> Number]
      BY LenProperties
    <3>2. s \in [1 .. Len(s) -> 1 .. MaxLines]
      BY <3>1
    <3> QED  BY <3>1, <3>2, FunctionIsSeq, Zenon
  <2>5. queue \in Seq(1 .. MaxLines) /\ batch \in Seq(1 .. MaxLines)
    BY <2>2, <2>3, <2>4, Zenon
  <2>6. plotNames \subseteq Names
    BY DEF IInv, Shapes
  <2> QED  BY <2>5, <2>6, Zenon DEF IInv, Shapes, Phases, Rooms, TypeOK, Len1
<1> QED  BY <1>1, Holds, PTL

(* Every line that began to arrive is arriving, queued, with the consumer,  *)
(* with the store or counted in rx_dropped, and only one of these (_on_bytes, *)
(* _store_rx_batch, _settle_rx_line and stop()).                            *)
THEOREM LinesAlwaysAccounted ==
  ASSUME Bounds
  PROVE  Spec => []LinesAccounted
<1>1. IInv => LinesAccounted
  <2> SUFFICES ASSUME IInv PROVE LinesAccounted
    OBVIOUS
  <2>1. /\ Len(queue) \in Nat /\ Len(batch) \in Nat /\ Len(prepared) \in Nat
        /\ Cardinality(stored) \in Nat /\ Cardinality(left) \in Nat /\ rxDropped \in Nat
        /\ buf \in Nat
    BY Sizes DEF IInv, Shapes, Bounds
  <2>2. /\ buf > 0 => begun = Kept + 1
        /\ buf = 0 => begun = Kept
    BY DEF IInv, Accounted
  <2>3. CASE buf > 0
    BY <2>1, <2>2, <2>3 DEF LinesAccounted, Kept, Waiting, Passed
  <2>4. CASE buf = 0
    BY <2>1, <2>2, <2>4 DEF LinesAccounted, Kept, Waiting, Passed
  <2> QED  BY <2>1, <2>3, <2>4
<1> QED  BY <1>1, Holds, PTL

(* A port spends a plot name only on a line the store has or will judge     *)
(* (_submit_rx_line, _drop_rx_line), and never more than it may.            *)
THEOREM NamesAlwaysOwed ==
  ASSUME Bounds
  PROVE  Spec => []NamesSpentByLines
<1>1. IInv => NamesSpentByLines
  <2> SUFFICES ASSUME IInv, NEW p \in plotNames
               PROVE  p \in {x.name : x \in stored \cup left \cup Range(prepared)}
    BY DEF IInv, NamesOwed, NamesSpentByLines
  <2>1. DOMAIN prepared = 1 .. Len(prepared)
    BY DEF IInv, Shapes
  <2>2. \/ \E x \in stored \cup left : x.name = p
        \/ \E i \in 1 .. Len(prepared) : prepared[i].name = p
    BY DEF IInv, NamesOwed
  <2> QED  BY <2>1, <2>2 DEF Range
<1> QED  BY <1>1, Holds, PTL

(* The consumer never waits on a queue that holds lines (_consume).         *)
THEOREM WakeupNeverLost ==
  ASSUME Bounds
  PROVE  Spec => []NoLostWakeup
<1>1. IInv => NoLostWakeup
  BY DEF IInv
<1> QED  BY <1>1, Holds, PTL

(* A port that has stopped owes no refused line its notice                  *)
(* (_close_unstorable in stop()).                                           *)
THEOREM RefusalsAlwaysTold ==
  ASSUME Bounds
  PROVE  Spec => []RefusalsTold
<1>1. IInv => RefusalsTold
  BY DEF IInv
<1> QED  BY <1>1, Holds, PTL
===============================================================================
