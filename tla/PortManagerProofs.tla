--------------------------- MODULE PortManagerProofs ---------------------------
(***************************************************************************)
(* Proofs about PortManager, for any aliases, limits and requests that may *)
(* be cancelled while they wait for the lock or for a port to stop.        *)
(*                                                                         *)
(* The lock makes one request at a time take a port down (Turns), and the  *)
(* table, the states of the ports and what that request is about fit       *)
(* together at each of its awaits (Owned, Doing). A count survives because *)
(* at every moment it is in one of three places: in the port that is       *)
(* attached, in the one that is being stopped, or among what is carried    *)
(* (Tallied).                                                              *)
(***************************************************************************)
EXTENDS PortManager, FiniteSetTheorems, SequenceTheorems, TLAPS

(* A limit that is not zero on what is carried: the alias that was detached *)
(* last is never the one dropped.                                          *)
Limits == MaxPorts \in Nat /\ CarriedMax \in Nat \ {0} /\ MaxMade \in Nat /\ MaxCount \in Nat

Waits   == {"queues", "replaces", "detaches", "holds"}
Holding == {"replaces", "detaches", "holds"}
Stops   == {"replaces", "detaches"}
Primes  == {"primes", "primed", "queues"}
Starter == {"attach", "reconnect"}

Asked == [op : {"none", "attach", "reconnect", "detach", "hold", "stop_all"},
          alias : Alias \cup {"none"},
          pc : {"idle", "primes", "primed", "drains", "ok", "refused"} \cup Waits,
          new : 0 .. MaxMade, replaces : 0 .. MaxMade, wasHeld : BOOLEAN, seen : Nat]

PortTypes ==
  /\ req \in [Request -> Asked] /\ lockQ \in Seq(Request)
  /\ ports \in [Alias -> Port \cup {Nobody}]
  /\ state \in [Port -> {"unmade", "new", "runs", "stops", "over"}]
  /\ of \in [Port -> Alias \cup {"none"}] /\ made \in 0 .. MaxMade
  /\ held \in [Port -> BOOLEAN] /\ count \in [Port -> 0 .. MaxCount] /\ defs \in [Port -> Nat]
  /\ carried \in Seq(Alias) /\ saved \in [Alias -> 0 .. MaxCount] /\ Len(carried) <= CarriedMax
  /\ stored \in [Alias -> Nat] /\ high \in [Alias -> Nat] /\ changes \in [Alias -> Nat]
  /\ \A p \in Port : state[p] = "unmade" <=> p > made

(* Each who waits for the lock is in its queue once, and who is past it is  *)
(* at its head.                                                            *)
Once(q) == \A i, j \in 1 .. Len(q) : q[i] = q[j] => i = j
Has(q, x) == \E i \in 1 .. Len(q) : q[i] = x

Turns ==
  /\ Once(lockQ)
  /\ \A r \in Request : req[r].pc \in Waits <=> Has(lockQ, r)
  /\ \A r \in Request : req[r].pc \in Holding => Holder(r)

(* The table and the ports: what is attached runs, and what stops is what   *)
(* some request has taken down.                                            *)
Owned ==
  /\ \A a \in Alias : ports[a] # Nobody => of[ports[a]] = a /\ state[ports[a]] = "runs"
  /\ \A p \in Port : state[p] = "runs" => of[p] \in Alias /\ ports[of[p]] = p
  /\ \A p \in Port : state[p] = "stops" =>
       \E r \in Request : req[r].pc \in Stops /\ req[r].replaces = p

Room ==
  /\ IsFiniteSet(Attached) /\ Cardinality(Attached) <= MaxPorts
  /\ \A r \in Request : req[r].pc = "replaces" => Cardinality(Attached) < MaxPorts

(* What a request is about, where it stands. *)
Doing(r) ==
  /\ req[r].pc \in {"primes", "primed", "replaces"} => req[r].op \in Starter
  /\ req[r].pc = "queues" => req[r].op # "none"
  /\ req[r].pc = "detaches" => req[r].op \in {"detach", "stop_all"}
  /\ req[r].pc = "holds" => req[r].op = "hold"
  /\ req[r].pc = "drains" => req[r].op = "stop_all"
  /\ req[r].pc \in Waits \cup Primes => req[r].alias \in Alias
  /\ req[r].op \in Starter /\ req[r].pc \in Primes \cup {"replaces"} =>
       req[r].new \in Port /\ state[req[r].new] = "new" /\ of[req[r].new] = req[r].alias
  /\ req[r].pc \in Stops =>
       /\ req[r].replaces \in Port /\ state[req[r].replaces] = "stops"
       /\ of[req[r].replaces] = req[r].alias /\ ports[req[r].alias] = Nobody

(* No two requests start one port. *)
Own ==
  /\ \A q, r \in Request : q # r /\ req[q].new = req[r].new => req[q].new = 0
  /\ \A r \in Request : req[r].new <= made

(* A reconnect that may still start knows of every change of its alias.     *)
Informed(r) ==
  req[r].op = "reconnect" =>
    /\ req[r].pc \in Primes =>
         /\ req[r].replaces \in Port /\ state[req[r].replaces] \in {"runs", "stops", "over"}
         /\ req[r].wasHeld => held[req[r].replaces]
         /\ ports[req[r].alias] = req[r].replaces /\ (held[req[r].replaces] => req[r].wasHeld) =>
              changes[req[r].alias] = req[r].seen
    /\ req[r].pc = "replaces" => changes[req[r].alias] = req[r].seen

(* Where the count of an alias is. *)
Stopping(a) == \E r \in Request : req[r].pc \in Stops /\ req[r].alias = a

Tallied ==
  /\ \A a \in Alias : ports[a] # Nobody => count[ports[a]] >= high[a]
  /\ \A r \in Request : req[r].pc \in Stops => count[req[r].replaces] >= high[req[r].alias]
  /\ \A a \in Alias : ports[a] = Nobody /\ ~Stopping(a) =>
       high[a] <= Resumed(carried, saved, a)
  /\ Once(carried)

(* What a port knows was stored, and what it replaced knew less.            *)
Learned ==
  /\ \A p \in Port : defs[p] # 0 =>
       state[p] # "unmade" /\ of[p] \in Alias /\ defs[p] <= stored[of[p]]
  /\ \A r \in Request : req[r].op \in Starter /\ req[r].pc = "ok" =>
       /\ req[r].new \in Port
       /\ req[r].replaces # Nobody =>
            /\ req[r].replaces \in Port /\ state[req[r].replaces] = "over"
            /\ defs[req[r].new] >= defs[req[r].replaces]

PortInv ==
  /\ PortTypes /\ Turns /\ Owned /\ Room /\ Own /\ Tallied /\ Learned
  /\ \A r \in Request : Doing(r) /\ Informed(r)

-------------------------------------------------------------------------------
(* The lock's queue and the aliases carried: what leaves a sequence.         *)

LEMMA OnePlace ==
  ASSUME NEW T, NEW q \in Seq(T), Once(q), NEW x, NEW k \in 1 .. Len(q), q[k] = x
  PROVE  RemoveFirst(q, x) = RemoveAt(q, k)
<1> DEFINE I == {i \in 1 .. Len(q) : q[i] = x}
<1>1. I = {k}
  BY DEF Once
<1>2. Min(I) = k
  BY <1>1 DEF Min
<1>3. SelectInSeq(q, LAMBDA v : v = x) = k
  BY <1>1, <1>2 DEF SelectInSeq
<1> QED  BY <1>3 DEF RemoveFirst

LEMMA LeftOver ==
  ASSUME NEW T, NEW q \in Seq(T), Once(q), NEW x
  PROVE  /\ RemoveFirst(q, x) \in Seq(T) /\ Once(RemoveFirst(q, x))
         /\ Len(RemoveFirst(q, x)) <= Len(q)
         /\ \A y : Has(RemoveFirst(q, x), y) <=> y # x /\ Has(q, y)
         /\ q # <<>> /\ Head(q) # x =>
              RemoveFirst(q, x) # <<>> /\ Head(RemoveFirst(q, x)) = Head(q)
<1>1. CASE ~Has(q, x)
  <2>1. RemoveFirst(q, x) = q
    BY <1>1 DEF RemoveFirst, Has
  <2> QED  BY <1>1, <2>1
<1>2. CASE Has(q, x)
  <2>1. PICK k \in 1 .. Len(q) : q[k] = x /\ RemoveFirst(q, x) = RemoveAt(q, k)
    BY <1>2, OnePlace DEF Has
  <2> DEFINE p == RemoveAt(q, k)
  <2>2. /\ p \in Seq(T) /\ Len(p) = Len(q) - 1
        /\ \A i \in 1 .. Len(p) : p[i] = IF i < k THEN q[i] ELSE q[i + 1]
    <3> DEFINE ahead == SubSeq(q, 1, k - 1)
               behind == SubSeq(q, k + 1, Len(q))
    <3>1. /\ ahead \in Seq(T) /\ Len(ahead) = k - 1
          /\ \A i \in 1 .. k - 1 : ahead[i] = q[i]
      OBVIOUS
    <3>2. /\ behind \in Seq(T) /\ Len(behind) = Len(q) - k
          /\ \A i \in 1 .. Len(q) - k : behind[i] = q[i + k]
      OBVIOUS
    <3>3. p = ahead \o behind
      BY DEF RemoveAt
    <3> HIDE DEF ahead, behind, p
    <3>4. /\ p \in Seq(T) /\ Len(p) = Len(q) - 1
          /\ \A i \in 1 .. Len(p) : p[i] = IF i < k THEN ahead[i] ELSE behind[i - (k - 1)]
      <4>1. /\ p \in Seq(T) /\ Len(p) = Len(ahead) + Len(behind)
            /\ \A i \in 1 .. Len(ahead) + Len(behind) :
                 p[i] = IF i <= Len(ahead) THEN ahead[i] ELSE behind[i - Len(ahead)]
        BY <3>1, <3>2, <3>3, ConcatProperties
      <4> QED  BY <3>1, <3>2, <4>1
    <3>5. ASSUME NEW i \in 1 .. Len(p), ~(i < k) PROVE behind[i - (k - 1)] = q[i + 1]
      <4>1. i - (k - 1) \in 1 .. Len(q) - k /\ (i - (k - 1)) + k = i + 1
        BY <3>4, <3>5
      <4> QED  BY <3>2, <4>1
    <3>6. ASSUME NEW i \in 1 .. Len(p), i < k PROVE ahead[i] = q[i]
      BY <3>1, <3>6
    <3> QED  BY <3>4, <3>5, <3>6
  <2> HIDE DEF p
  <2>3. Once(p)
    BY <2>2 DEF Once
  <2>4. ASSUME NEW y PROVE Has(p, y) <=> y # x /\ Has(q, y)
    <3>1. ASSUME NEW i \in 1 .. Len(p), p[i] = y PROVE y # x /\ \E j \in 1 .. Len(q) : q[j] = y
      BY <2>1, <2>2, <3>1 DEF Once
    <3>2. ASSUME y # x, NEW i \in 1 .. Len(q), q[i] = y PROVE \E j \in 1 .. Len(p) : p[j] = y
      <4>1. CASE i < k
        BY <2>2, <3>2, <4>1
      <4>2. CASE i > k
        <5>1. i - 1 \in 1 .. Len(p) /\ p[i - 1] = q[i]
          BY <2>2, <4>2
        <5> QED  BY <3>2, <5>1
      <4> QED  BY <2>1, <3>2, <4>1, <4>2
    <3> QED  BY <3>1, <3>2 DEF Has
  <2>5. ASSUME q # <<>>, Head(q) # x PROVE p # <<>> /\ Head(p) = Head(q)
    BY <2>1, <2>2, <2>5
  <2> QED  BY <2>1, <2>2, <2>3, <2>4, <2>5 DEF p
<1> QED  BY <1>1, <1>2

LEMMA Joined ==
  ASSUME NEW T, NEW q \in Seq(T), Once(q), NEW x \in T, ~Has(q, x)
  PROVE  /\ Append(q, x) \in Seq(T) /\ Once(Append(q, x)) /\ Len(Append(q, x)) = Len(q) + 1
         /\ \A y : Has(Append(q, x), y) <=> y = x \/ Has(q, y)
         /\ q # <<>> => Head(Append(q, x)) = Head(q)
<1> DEFINE p == Append(q, x)
<1>1. /\ p \in Seq(T) /\ Len(p) = Len(q) + 1 /\ p[Len(q) + 1] = x
      /\ \A i \in 1 .. Len(q) : p[i] = q[i]
  OBVIOUS
<1> HIDE DEF p
<1>2. Once(p)
  BY <1>1 DEF Once, Has
<1>3. ASSUME NEW y PROVE Has(p, y) <=> y = x \/ Has(q, y)
  <2>1. ASSUME NEW i \in 1 .. Len(p), p[i] = y PROVE y = x \/ \E j \in 1 .. Len(q) : q[j] = y
    BY <1>1, <2>1
  <2>2. ASSUME y = x PROVE \E i \in 1 .. Len(p) : p[i] = y
    BY <1>1, <2>2
  <2>3. ASSUME NEW i \in 1 .. Len(q), q[i] = y PROVE \E j \in 1 .. Len(p) : p[j] = y
    BY <1>1, <2>3
  <2> QED  BY <2>1, <2>2, <2>3 DEF Has
<1>4. q # <<>> => Head(p) = Head(q)
  BY <1>1
<1> QED  BY <1>1, <1>2, <1>3, <1>4 DEF p

LEMMA TailOf ==
  ASSUME NEW T, NEW q \in Seq(T), Once(q), Len(q) > 1
  PROVE  /\ Tail(q) \in Seq(T) /\ Once(Tail(q)) /\ Len(Tail(q)) = Len(q) - 1
         /\ \A i \in 1 .. Len(Tail(q)) : Tail(q)[i] = q[i + 1]
BY DEF Once

-------------------------------------------------------------------------------
(* What a step of one request does to the requests and the lock.             *)

Pcs == {"idle", "primes", "primed", "drains", "ok", "refused"} \cup Waits

Others(r) == \A q \in Request \ {r} : req'[q] = req[q]

LockMoves(r) ==
  \/ /\ lockQ' = lockQ /\ (req'[r].pc \in Waits <=> req[r].pc \in Waits)
     /\ req'[r].pc \in Holding => Holder(r)
  \/ lockQ' = Append(lockQ, r) /\ req[r].pc \notin Waits /\ req'[r].pc = "queues"
  \/ lockQ' = RemoveFirst(lockQ, r) /\ req'[r].pc \notin Waits

LEMMA AskedMoves ==
  ASSUME NEW x \in Asked, NEW to \in Pcs
  PROVE  [x EXCEPT !.pc = to] \in Asked
BY DEF Asked, Pcs

LEMMA GoesOn ==
  ASSUME PortTypes, NEW r \in Request, NEW to \in Pcs, Goes(r, to)
  PROVE  req' \in [Request -> Asked] /\ Others(r) /\ req'[r] = [req[r] EXCEPT !.pc = to]
<1>1. req[r] \in Asked
  BY DEF PortTypes
<1>2. [req[r] EXCEPT !.pc = to] \in Asked
  BY <1>1, AskedMoves
<1>3. req' = [req EXCEPT ![r] = [req[r] EXCEPT !.pc = to]]
  BY DEF Goes
<1> HIDE DEF Asked
<1> QED  BY <1>2, <1>3 DEF PortTypes, Others

LEMMA PcOf ==
  ASSUME NEW x \in Asked, NEW to \in Pcs
  PROVE  /\ [x EXCEPT !.pc = to].pc = to /\ [x EXCEPT !.pc = to].op = x.op
         /\ [x EXCEPT !.pc = to].alias = x.alias /\ [x EXCEPT !.pc = to].new = x.new
         /\ [x EXCEPT !.pc = to].replaces = x.replaces
         /\ [x EXCEPT !.pc = to].wasHeld = x.wasHeld /\ [x EXCEPT !.pc = to].seen = x.seen
BY DEF Asked

LEMMA OneHolds ==
  ASSUME Turns, NEW q \in Request, NEW r \in Request,
         req[q].pc \in Holding, req[r].pc \in Holding \/ Holder(r)
  PROVE  q = r
BY DEF Turns, Holder

LEMMA TurnsStay ==
  ASSUME PortTypes, Turns, NEW r \in Request, Others(r), LockMoves(r)
  PROVE  Turns' /\ lockQ' \in Seq(Request)
<1>1. lockQ \in Seq(Request) /\ Once(lockQ)
  BY DEF PortTypes, Turns
<1>2. Holding \subseteq Waits /\ "queues" \in Waits /\ "queues" \notin Holding
  BY DEF Holding, Waits
<1>3. \A q \in Request : req[q].pc \in Waits <=> Has(lockQ, q)
  BY DEF Turns
<1>4. \A q \in Request : req[q].pc \in Holding => lockQ # <<>> /\ Head(lockQ) = q
  BY DEF Turns, Holder
<1>5. CASE /\ lockQ' = lockQ /\ (req'[r].pc \in Waits <=> req[r].pc \in Waits)
           /\ req'[r].pc \in Holding => Holder(r)
  <2>1. \A q \in Request : (req[q].pc)' \in Waits <=> Has(lockQ', q)
    BY <1>3, <1>5 DEF Others
  <2>2. \A q \in Request : (req[q].pc)' \in Holding => lockQ' # <<>> /\ Head(lockQ') = q
    BY <1>4, <1>5 DEF Others, Holder
  <2> QED  BY <1>1, <1>5, <2>1, <2>2 DEF Turns, Holder
<1>6. CASE lockQ' = Append(lockQ, r) /\ req[r].pc \notin Waits /\ req'[r].pc = "queues"
  <2>1. ~Has(lockQ, r)
    BY <1>3, <1>6
  <2>2. /\ lockQ' \in Seq(Request) /\ Once(lockQ')
        /\ \A q : Has(lockQ', q) <=> q = r \/ Has(lockQ, q)
        /\ lockQ # <<>> => Head(lockQ') = Head(lockQ)
    BY <1>1, <1>6, <2>1, Joined
  <2>3. \A q \in Request : (req[q].pc)' \in Waits <=> Has(lockQ', q)
    BY <1>2, <1>3, <1>6, <2>2 DEF Others
  <2>4. lockQ' # <<>>
    BY <1>1, <1>6
  <2>5. \A q \in Request : (req[q].pc)' \in Holding => lockQ' # <<>> /\ Head(lockQ') = q
    BY <1>2, <1>4, <1>6, <2>2, <2>4 DEF Others
  <2> QED  BY <2>2, <2>3, <2>5 DEF Turns, Holder
<1>7. CASE lockQ' = RemoveFirst(lockQ, r) /\ req'[r].pc \notin Waits
  <2>1. /\ lockQ' \in Seq(Request) /\ Once(lockQ')
        /\ \A q : Has(lockQ', q) <=> q # r /\ Has(lockQ, q)
        /\ lockQ # <<>> /\ Head(lockQ) # r => lockQ' # <<>> /\ Head(lockQ') = Head(lockQ)
    BY <1>1, <1>7, LeftOver
  <2>2. \A q \in Request : (req[q].pc)' \in Waits <=> Has(lockQ', q)
    BY <1>3, <1>7, <2>1 DEF Others
  <2>3. \A q \in Request : (req[q].pc)' \in Holding => lockQ' # <<>> /\ Head(lockQ') = q
    BY <1>2, <1>4, <1>7, <2>1 DEF Others
  <2> QED  BY <2>1, <2>2, <2>3 DEF Turns, Holder
<1> QED  BY <1>5, <1>6, <1>7 DEF LockMoves

-------------------------------------------------------------------------------
(* Steps of a request that leave the ports and the table alone.              *)

PortsStay == UNCHANGED <<ports, state, of, made, held, count, defs, carried, saved, high, stored,
                         changes>>

Talks(r) ==
  /\ PortsStay /\ req' \in [Request -> Asked] /\ Others(r) /\ LockMoves(r)
  /\ req[r].pc \notin Stops /\ req'[r].pc \notin Stops
  /\ req'[r].new \in {0, req[r].new}
  /\ ~(req'[r].op \in Starter /\ req'[r].pc = "ok")
  /\ Doing(r)' /\ Informed(r)'

LEMMA TalkKeeps ==
  ASSUME PortInv, NEW r \in Request, Talks(r)
  PROVE  PortInv'
<1> USE DEF PortsStay, Talks
<1> HIDE DEF Asked, Port, Waits, Primes, Starter, LockMoves, Doing, Informed
<1>1. Turns' /\ lockQ' \in Seq(Request)
  BY TurnsStay DEF PortInv
<1>2. PortTypes'
  BY <1>1 DEF PortInv, PortTypes
<1>3. Owned'
  BY DEF PortInv, Owned, Others
<1>4. Room'
  BY DEF PortInv, Room, Attached, Others, Stops
<1>5. Own'
  <2>1. \A q \in Request : req'[q].new \in {0, req[q].new}
    BY DEF Others
  <2>2. made \in Nat
    BY DEF PortInv, PortTypes
  <2> QED  BY <2>1, <2>2 DEF PortInv, Own
<1>6. Tallied'
  <2>1. \A q \in Request : req'[q].pc \in Stops <=> req[q].pc \in Stops
    BY DEF Others
  <2>2. \A q \in Request : req'[q].pc \in Stops => req'[q] = req[q]
    BY <2>1 DEF Others
  <2>3. \A a : Stopping(a)' <=> Stopping(a)
    BY <2>1, <2>2 DEF Stopping
  <2> QED  BY <2>1, <2>2, <2>3 DEF PortInv, Tallied
<1>7. Learned'
  BY DEF PortInv, Learned, Others
<1>8. ASSUME NEW q \in Request, q # r PROVE Doing(q)' /\ Informed(q)'
  <2>1. req'[q] = req[q] /\ Doing(q) /\ Informed(q)
    BY <1>8 DEF PortInv, Others
  <2> QED  BY <2>1 DEF Doing, Informed
<1> QED  BY <1>1, <1>2, <1>3, <1>4, <1>5, <1>6, <1>7, <1>8 DEF PortInv

(* A request that leaves, or goes back to its loop. *)
LEMMA LeavingKeeps ==
  ASSUME PortInv, NEW r \in Request, NEW to \in {"ok", "refused", "drains"}, Goes(r, to), PortsStay,
         req[r].pc \notin Stops, to = "ok" => req[r].op \notin Starter,
         to = "drains" => req[r].op = "stop_all",
         Leaves(r) \/ (lockQ' = lockQ /\ req[r].pc \notin Waits)
  PROVE  PortInv'
<1>1. to \in Pcs /\ to \notin Waits \cup Primes \cup Stops \cup Holding
  BY DEF Pcs, Waits, Primes, Stops, Holding
<1>2. req \in [Request -> Asked] /\ req[r] \in Asked
  BY DEF PortInv, PortTypes
<1>3. req' \in [Request -> Asked] /\ Others(r) /\ req'[r] = [req[r] EXCEPT !.pc = to]
  BY <1>1, GoesOn DEF PortInv
<1>4. req'[r].pc = to /\ req'[r].op = req[r].op /\ req'[r].new = req[r].new
  BY <1>1, <1>2, <1>3, PcOf
<1>5. Doing(r)' /\ Informed(r)'
  BY <1>1, <1>4 DEF Doing, Informed, Stops, Waits, Primes
<1>6. LockMoves(r)
  BY <1>1, <1>4 DEF LockMoves, Leaves
<1>7. Talks(r)
  BY <1>1, <1>3, <1>4, <1>5, <1>6 DEF Talks
<1> QED  BY <1>7, TalkKeeps

(* A request that arrives, but for one that makes a port. *)
LEMMA ArrivalKeeps ==
  ASSUME PortInv, NEW r \in Request, PortsStay, req[r].pc = "idle",
         NEW x \in Asked, req' = [req EXCEPT ![r] = x], x.new = 0,
         \/ /\ x.pc = "refused" \/ (x.pc = "drains" /\ x.op = "stop_all")
            /\ lockQ' = lockQ
         \/ /\ x.pc = "queues" /\ x.op \in {"detach", "hold"} /\ x.alias \in Alias
            /\ lockQ' = Append(lockQ, r)
  PROVE  PortInv'
<1>1. req' \in [Request -> Asked] /\ Others(r) /\ req'[r] = x
  BY DEF PortInv, PortTypes, Others
<1>2. "idle" \notin Waits /\ "idle" \notin Stops /\ x.pc \notin Stops /\ x.pc \notin Holding
  BY DEF Waits, Stops, Holding
<1>3. LockMoves(r)
  BY <1>1, <1>2 DEF LockMoves, Waits
<1>4. Doing(r)' /\ Informed(r)'
  BY <1>1 DEF Doing, Informed, Stops, Waits, Primes, Starter
<1>5. Talks(r)
  BY <1>1, <1>2, <1>3, <1>4 DEF Talks
<1> QED  BY <1>5, TalkKeeps

LEMMA AsksForLockKeeps ==
  ASSUME PortInv, NEW r \in Request, AsksForLock(r)
  PROVE  PortInv'
<1>1. req \in [Request -> Asked] /\ req[r] \in Asked
  BY DEF PortInv, PortTypes
<1>2. Goes(r, "queues") /\ "queues" \in Pcs
  BY DEF AsksForLock, Pcs, Waits
<1>3. req' \in [Request -> Asked] /\ Others(r) /\ req'[r] = [req[r] EXCEPT !.pc = "queues"]
  BY <1>2, GoesOn DEF PortInv
<1>4. /\ req'[r].pc = "queues" /\ req'[r].op = req[r].op /\ req'[r].new = req[r].new
      /\ req'[r].alias = req[r].alias /\ req'[r].replaces = req[r].replaces
      /\ req'[r].wasHeld = req[r].wasHeld /\ req'[r].seen = req[r].seen
  BY <1>1, <1>2, <1>3, PcOf
<1>5. PortsStay /\ LockMoves(r) /\ req[r].pc = "primed" /\ req[r].pc \notin Stops
  BY <1>4 DEF AsksForLock, PortsStay, LockMoves, Waits, Stops, portVars, book
<1>6. Doing(r) /\ Informed(r)
  BY DEF PortInv
<1>7. Doing(r)'
  BY <1>4, <1>5, <1>6 DEF Doing, Primes, Waits, Stops, PortsStay, Starter
<1>8. Informed(r)'
  BY <1>4, <1>5, <1>6 DEF Informed, Primes, PortsStay
<1>9. Talks(r)
  BY <1>3, <1>4, <1>5, <1>7, <1>8 DEF Talks, Stops
<1> QED  BY <1>9, TalkKeeps

LEMMA DrainsNextKeeps ==
  ASSUME PortInv, NEW r \in Request, NEW a \in Alias, DrainsNext(r, a), req[r].op = "stop_all"
  PROVE  PortInv'
<1>1. req \in [Request -> Asked] /\ req[r] \in Asked
  BY DEF PortInv, PortTypes
<1> DEFINE x == [req[r] EXCEPT !.alias = a, !.pc = "queues"]
<1>2. /\ x \in Asked /\ x.pc = "queues" /\ x.alias = a /\ x.op = "stop_all" /\ x.new = req[r].new
  BY <1>1 DEF Asked, Waits, DrainsNext
<1>3. req' = [req EXCEPT ![r] = x]
  BY DEF DrainsNext
<1> HIDE DEF x
<1>4. req' \in [Request -> Asked] /\ Others(r) /\ req'[r] = x
  BY <1>1, <1>2, <1>3 DEF Others
<1>5. PortsStay /\ LockMoves(r) /\ req[r].pc = "drains" /\ req[r].pc \notin Stops
  BY <1>2, <1>4 DEF DrainsNext, PortsStay, LockMoves, Waits, Stops, portVars, book
<1>6. Doing(r)' /\ Informed(r)'
  BY <1>2, <1>4 DEF Doing, Informed, Stops, Waits, Primes, Starter
<1>7. Talks(r)
  BY <1>2, <1>4, <1>5, <1>6 DEF Talks, Stops, Starter
<1> QED  BY <1>7, TalkKeeps

-------------------------------------------------------------------------------
(* A port object is made and primed, while others have the lock.             *)

LEMMA BeginKeeps ==
  ASSUME Limits, PortInv, NEW r \in Request, NEW op \in Starter, NEW a \in Alias,
         AttachBegins(r, op, a), made' # made
  PROVE  PortInv'
<1> DEFINE p == made + 1
           x == [op |-> op, alias |-> a, pc |-> "primes", new |-> p,
                 replaces |-> IF op = "reconnect" THEN ports[a] ELSE Nobody,
                 wasHeld |-> op = "reconnect" /\ held[ports[a]], seen |-> changes[a]]
<1>1. /\ made < MaxMade /\ made' = p /\ state' = [state EXCEPT ![p] = "new"]
      /\ of' = [of EXCEPT ![p] = a] /\ req' = [req EXCEPT ![r] = x]
      /\ UNCHANGED <<held, count, defs, lockQ, ports, carried, saved, high, stored, changes>>
      /\ req[r].pc = "idle" /\ (op = "reconnect" => ports[a] # Nobody)
  BY DEF AttachBegins, Arrives, book, portVars
<1>2. p \in Port /\ state[p] = "unmade" /\ \A q \in Port : state'[q] = IF q = p THEN "new" ELSE state[q]
  BY <1>1 DEF PortInv, PortTypes, Port, Limits
<1>3. \A q \in Port : of'[q] = IF q = p THEN a ELSE of[q]
  BY <1>1, <1>2 DEF PortInv, PortTypes
<1>4. /\ x.op = op /\ x.alias = a /\ x.pc = "primes" /\ x.new = p /\ x.seen = changes[a]
      /\ x.replaces = (IF op = "reconnect" THEN ports[a] ELSE Nobody)
      /\ x.wasHeld = (op = "reconnect" /\ held[ports[a]])
  OBVIOUS
<1>5. /\ x.replaces \in 0 .. MaxMade /\ x.wasHeld \in BOOLEAN /\ x.seen \in Nat /\ p \in 0 .. MaxMade
      /\ op = "reconnect" => ports[a] \in Port
  BY <1>1, <1>2 DEF PortInv, PortTypes, Port, Nobody, Limits
<1>6. x \in Asked
  BY <1>5 DEF Asked, Waits, Starter
<1> HIDE DEF x
<1>7. req' \in [Request -> Asked] /\ Others(r) /\ req'[r] = x
  BY <1>1, <1>6 DEF PortInv, PortTypes, Others
<1>8. "idle" \notin Waits /\ "primes" \notin Waits /\ "primes" \notin Stops /\ "idle" \notin Stops
      /\ "primes" \notin Holding /\ "primes" \in Primes
  BY DEF Waits, Stops, Holding, Primes
<1>9. Turns' /\ lockQ' \in Seq(Request)
  <2>1. LockMoves(r)
    BY <1>1, <1>4, <1>7, <1>8 DEF LockMoves
  <2> QED  BY <1>7, <2>1, TurnsStay DEF PortInv
<1>10. PortTypes'
  <2>1. state' \in [Port -> {"unmade", "new", "runs", "stops", "over"}]
    BY <1>1 DEF PortInv, PortTypes
  <2>2. of' \in [Port -> Alias \cup {"none"}]
    BY <1>1 DEF PortInv, PortTypes
  <2>3. made' \in 0 .. MaxMade /\ \A q \in Port : state'[q] = "unmade" <=> q > made'
    BY <1>1, <1>2 DEF PortInv, PortTypes, Port, Limits
  <2> QED  BY <1>1, <1>7, <1>9, <2>1, <2>2, <2>3 DEF PortInv, PortTypes
<1>11. Owned'
  <2>1. \A b \in Alias : ports[b] # Nobody => ports[b] \in Port /\ ports[b] # p
    BY <1>2 DEF PortInv, PortTypes, Owned
  <2>2. \A q \in Request : req[q].pc \in Stops => req'[q] = req[q]
    BY <1>1, <1>7, <1>8 DEF Others
  <2> QED  BY <1>1, <1>2, <1>3, <2>1, <2>2 DEF PortInv, Owned
<1>12. Room'
  BY <1>1, <1>4, <1>7 DEF PortInv, Room, Attached, Others
<1>13. Own'
  <2>1. \A q \in Request : req[q].new <= made /\ req[q].new \in Nat /\ made \in Nat
    BY DEF PortInv, PortTypes, Own, Asked
  <2> QED  BY <1>1, <1>4, <1>7, <2>1 DEF PortInv, Own, Others
<1>14. Tallied'
  <2>1. \A q \in Request : /\ req'[q].pc \in Stops <=> req[q].pc \in Stops
                           /\ req'[q].pc \in Stops => req'[q] = req[q]
    BY <1>1, <1>4, <1>7, <1>8 DEF Others
  <2>2. \A b : Stopping(b)' <=> Stopping(b)
    BY <2>1 DEF Stopping
  <2> QED  BY <1>1, <2>1, <2>2 DEF PortInv, Tallied
<1>15. Learned'
  BY <1>1, <1>2, <1>3, <1>4, <1>7 DEF PortInv, Learned, Others
<1>16. Doing(r)' /\ Informed(r)'
  <2>1. Doing(r)'
    BY <1>2, <1>3, <1>4, <1>7, <1>8 DEF Doing
  <2>2. op = "reconnect" => state'[ports[a]] = "runs"
    BY <1>1, <1>2, <1>5 DEF PortInv, Owned
  <2>3. Informed(r)'
    BY <1>1, <1>4, <1>5, <1>7, <2>2 DEF Informed, Nobody
  <2> QED  BY <2>1, <2>3
<1>17. ASSUME NEW q \in Request, q # r PROVE Doing(q)' /\ Informed(q)'
  <2>1. req'[q] = req[q] /\ Doing(q) /\ Informed(q)
    BY <1>7, <1>17 DEF PortInv, Others
  <2>2. Doing(q)'
    BY <1>1, <1>2, <1>3, <2>1 DEF Doing
  <2>3. Informed(q)'
    BY <1>1, <1>2, <2>1 DEF Informed
  <2> QED  BY <2>2, <2>3
<1> QED
  BY <1>9, <1>10, <1>11, <1>12, <1>13, <1>14, <1>15, <1>16, <1>17 DEF PortInv

LEMMA PrimeKeeps ==
  ASSUME PortInv, NEW r \in Request, PrimeReads(r)
  PROVE  PortInv'
<1> DEFINE p == req[r].new
<1>1. req \in [Request -> Asked] /\ req[r] \in Asked /\ "primed" \in Pcs
  BY DEF PortInv, PortTypes, Pcs
<1>2. req' \in [Request -> Asked] /\ Others(r) /\ req'[r] = [req[r] EXCEPT !.pc = "primed"]
  BY <1>1, GoesOn DEF PortInv, PrimeReads
<1>3. /\ req'[r].pc = "primed" /\ req'[r].op = req[r].op /\ req'[r].new = req[r].new
      /\ req'[r].alias = req[r].alias /\ req'[r].replaces = req[r].replaces
      /\ req'[r].wasHeld = req[r].wasHeld /\ req'[r].seen = req[r].seen
  BY <1>1, <1>2, PcOf
<1>4. /\ req[r].pc = "primes" /\ defs' = [defs EXCEPT ![p] = stored[req[r].alias]]
      /\ UNCHANGED <<lockQ, ports, state, of, held, count, made, carried, saved, high, stored, changes>>
  BY DEF PrimeReads, book
<1>5. /\ req[r].op \in Starter /\ p \in Port /\ state[p] = "new" /\ of[p] = req[r].alias
      /\ req[r].alias \in Alias
  BY <1>4 DEF PortInv, Doing, Primes
<1>6. \A q \in Port : defs'[q] = IF q = p THEN stored[of[p]] ELSE defs[q]
  BY <1>4, <1>5 DEF PortInv, PortTypes
<1>7. "primed" \notin Waits /\ "primes" \notin Waits /\ "primes" \notin Stops
      /\ "primed" \notin Stops /\ "primed" \notin Holding
  BY DEF Waits, Stops, Holding
<1>8. Turns' /\ lockQ' \in Seq(Request)
  <2>1. LockMoves(r)
    BY <1>3, <1>4, <1>7 DEF LockMoves
  <2> QED  BY <1>2, <2>1, TurnsStay DEF PortInv
<1>9. PortTypes'
  <2>1. stored[req[r].alias] \in Nat
    BY <1>5 DEF PortInv, PortTypes
  <2>2. defs' \in [Port -> Nat]
    BY <1>4, <2>1 DEF PortInv, PortTypes
  <2> QED  BY <1>2, <1>4, <1>8, <2>2 DEF PortInv, PortTypes
<1>10. Owned' /\ Room'
  <2>1. \A q \in Request : req[q].pc \in Stops => req'[q] = req[q]
    BY <1>4, <1>2, <1>7 DEF Others
  <2>2. Owned'
    BY <1>4, <2>1 DEF PortInv, Owned
  <2>3. Room'
    BY <1>2, <1>3, <1>4 DEF PortInv, Room, Attached, Others
  <2> QED  BY <2>2, <2>3
<1>11. Own'
  <2>1. \A q \in Request : req'[q].new = req[q].new
    BY <1>2, <1>3 DEF Others
  <2> QED  BY <1>4, <2>1 DEF PortInv, Own
<1>12. Tallied'
  <2>1. \A q \in Request : /\ req'[q].pc \in Stops <=> req[q].pc \in Stops
                           /\ req'[q].pc \in Stops => req'[q] = req[q]
    BY <1>2, <1>3, <1>4, <1>7 DEF Others
  <2>2. \A b : Stopping(b)' <=> Stopping(b)
    BY <2>1 DEF Stopping
  <2> QED  BY <1>4, <2>1, <2>2 DEF PortInv, Tallied
<1>13. Learned'
  <2>1. \A q \in Port : defs'[q] # 0 => state[q] # "unmade" /\ of[q] \in Alias /\ defs'[q] <= stored[of[q]]
    BY <1>5, <1>6 DEF PortInv, PortTypes, Learned
  <2>2. ASSUME NEW q \in Request, req'[q].op \in Starter, req'[q].pc = "ok"
        PROVE  /\ req'[q].new \in Port
               /\ req'[q].replaces # Nobody =>
                    /\ req'[q].replaces \in Port /\ state[req'[q].replaces] = "over"
                    /\ defs'[req'[q].new] >= defs'[req'[q].replaces]
    <3>1. q # r /\ req'[q] = req[q]
      BY <1>2, <1>3, <2>2 DEF Others
    <3>2. req[q].new \in Port /\ req[q].new # p
      BY <1>5, <2>2, <3>1 DEF PortInv, Learned, Own, Port
    <3> QED  BY <1>5, <1>6, <2>2, <3>1, <3>2 DEF PortInv, Learned
  <2> QED  BY <1>4, <2>1, <2>2 DEF Learned
<1>14. ASSUME NEW q \in Request PROVE Doing(q)' /\ Informed(q)'
  <2>1. Doing(q) /\ Informed(q)
    BY DEF PortInv
  <2>2. CASE q = r
    <3>1. Doing(q)'
      BY <1>3, <1>4, <2>1, <2>2 DEF Doing, Primes, Stops, Waits
    <3>2. Informed(q)'
      BY <1>3, <1>4, <2>1, <2>2 DEF Informed, Primes
    <3> QED  BY <3>1, <3>2
  <2>3. CASE q # r
    <3>1. req'[q] = req[q]
      BY <1>2, <2>3 DEF Others
    <3> QED  BY <1>4, <2>1, <3>1 DEF Doing, Informed
  <2> QED  BY <2>2, <2>3
<1> QED  BY <1>8, <1>9, <1>10, <1>11, <1>12, <1>13, <1>14 DEF PortInv

-------------------------------------------------------------------------------
(* Lines and definitions arrive.                                             *)

(* A port that stops is the one the lock's holder has taken down. *)
LEMMA OneStops ==
  ASSUME PortInv, NEW p \in Port, state[p] = "stops"
  PROVE  \E r \in Request : /\ req[r].pc \in Stops /\ req[r].replaces = p
                            /\ of[p] = req[r].alias /\ req[r].alias \in Alias
                            /\ \A q \in Request : req[q].pc \in Stops => q = r
<1>1. PICK r \in Request : req[r].pc \in Stops /\ req[r].replaces = p
  BY DEF PortInv, Owned
<1>2. of[p] = req[r].alias /\ req[r].alias \in Alias
  BY <1>1 DEF PortInv, Doing, Stops, Waits
<1>3. \A q \in Request : req[q].pc \in Stops => q = r
  BY <1>1, OneHolds DEF PortInv, Stops, Holding
<1> QED  BY <1>1, <1>2, <1>3

LEMMA ReceiveKeeps ==
  ASSUME Limits, PortInv, NEW p \in Port, Receive(p)
  PROVE  PortInv'
<1>1. /\ UNCHANGED <<req, lockQ, ports, state, of, held, defs, made, carried, saved, stored, changes>>
      /\ state[p] \in {"runs", "stops"} /\ high[of[p]] < MaxCount /\ count[p] < MaxCount
      /\ count' = [count EXCEPT ![p] = @ + 1]
      /\ high' = [high EXCEPT ![of[p]] = IF @ > count[p] THEN @ ELSE count[p] + 1]
  BY DEF Receive, Tally
<1>2. of[p] \in Alias
  BY <1>1, OneStops DEF PortInv, Owned
<1>3. count[p] \in 0 .. MaxCount /\ high[of[p]] \in Nat
  BY <1>2 DEF PortInv, PortTypes
<1>4. PortTypes'
  <2>1. count' \in [Port -> 0 .. MaxCount]
    <3>1. count[p] + 1 \in 0 .. MaxCount
      BY <1>1, <1>3 DEF Limits
    <3>2. count \in [Port -> 0 .. MaxCount] /\ count' = [count EXCEPT ![p] = count[p] + 1]
      BY <1>1 DEF PortInv, PortTypes
    <3> QED  BY <3>1, <3>2
  <2>2. high' \in [Alias -> Nat]
    <3> DEFINE v == IF high[of[p]] > count[p] THEN high[of[p]] ELSE count[p] + 1
    <3>1. v \in Nat
      BY <1>3
    <3>2. high \in [Alias -> Nat] /\ high' = [high EXCEPT ![of[p]] = v]
      BY <1>1, <1>2 DEF PortInv, PortTypes
    <3> HIDE DEF v
    <3> QED  BY <3>1, <3>2
  <2> QED  BY <1>1, <2>1, <2>2 DEF PortInv, PortTypes
<1>5. /\ \A q \in Port : count'[q] = IF q = p THEN count[p] + 1 ELSE count[q]
      /\ \A a \in Alias : a # of[p] => high'[a] = high[a]
      /\ high'[of[p]] = IF high[of[p]] > count[p] THEN high[of[p]] ELSE count[p] + 1
  BY <1>1, <1>2 DEF PortInv, PortTypes
<1>6. Turns' /\ Owned' /\ Room' /\ Own'
  BY <1>1 DEF PortInv, Turns, Holder, Owned, Room, Attached, Own
<1>7. Learned' /\ \A r \in Request : Doing(r)' /\ Informed(r)'
  BY <1>1 DEF PortInv, Learned, Doing, Informed
<1>8. Tallied'
  <2>1. ASSUME NEW a \in Alias, ports[a] # Nobody PROVE count'[ports[a]] >= high'[a]
    <3>1. ports[a] \in Port /\ of[ports[a]] = a /\ count[ports[a]] >= high[a]
      BY <2>1 DEF PortInv, Owned, PortTypes, Tallied
    <3>2. CASE a = of[p]
      <4>1. ports[a] = p
        <5>1. CASE state[p] = "runs"
          BY <3>2, <5>1 DEF PortInv, Owned
        <5>2. CASE state[p] = "stops"
          BY <2>1, <3>2, <5>2, OneStops DEF PortInv, Doing
        <5> QED  BY <1>1, <5>1, <5>2
      <4> QED  BY <1>3, <1>5, <3>1, <3>2, <4>1
    <3>3. CASE a # of[p]
      BY <1>5, <3>1, <3>3
    <3> QED  BY <3>2, <3>3
  <2>2. ASSUME NEW r \in Request, req[r].pc \in Stops
        PROVE  count'[req[r].replaces] >= high'[req[r].alias]
    <3>1. /\ req[r].replaces \in Port /\ state[req[r].replaces] = "stops" /\ req[r].alias \in Alias
          /\ of[req[r].replaces] = req[r].alias /\ ports[req[r].alias] = Nobody
          /\ count[req[r].replaces] >= high[req[r].alias]
      BY <2>2 DEF PortInv, Doing, Stops, Waits, Tallied
    <3>2. CASE req[r].alias = of[p]
      <4>1. req[r].replaces = p
        <5>1. CASE state[p] = "runs"
          BY <3>1, <3>2, <5>1 DEF PortInv, Owned, Nobody, Port
        <5>2. CASE state[p] = "stops"
          BY <2>2, <5>2, OneStops
        <5> QED  BY <1>1, <5>1, <5>2
      <4> QED  BY <1>3, <1>5, <3>1, <3>2, <4>1
    <3>3. CASE req[r].alias # of[p]
      BY <1>5, <3>1, <3>3
    <3> QED  BY <3>2, <3>3
  <2>3. ASSUME NEW a \in Alias, ports[a] = Nobody, ~Stopping(a)
        PROVE  high'[a] <= Resumed(carried, saved, a)
    <3>1. a # of[p]
      BY <1>1, <2>3, OneStops DEF PortInv, Owned, Stopping, Nobody, Port
    <3> QED  BY <1>5, <2>3, <3>1 DEF PortInv, Tallied
  <2>4. \A a : Stopping(a)' <=> Stopping(a)
    BY <1>1 DEF Stopping
  <2>5. \A a : Resumed(carried, saved, a)' = Resumed(carried, saved, a)
    BY <1>1 DEF Resumed
  <2> QED  BY <1>1, <2>1, <2>2, <2>3, <2>4, <2>5 DEF PortInv, Tallied
<1> QED  BY <1>4, <1>6, <1>7, <1>8 DEF PortInv

LEMMA DefineKeeps ==
  ASSUME PortInv, NEW p \in Port, Define(p)
  PROVE  PortInv'
<1>1. /\ UNCHANGED <<req, lockQ, ports, state, of, held, count, made, carried, saved, high, changes>>
      /\ state[p] = "runs"
      /\ stored' = [stored EXCEPT ![of[p]] = @ + 1]
      /\ defs' = [defs EXCEPT ![p] = stored[of[p]] + 1]
  BY DEF Define, book
<1>2. of[p] \in Alias /\ stored[of[p]] \in Nat
  BY <1>1 DEF PortInv, Owned, PortTypes
<1>3. /\ \A q \in Port : defs'[q] = IF q = p THEN stored[of[p]] + 1 ELSE defs[q]
      /\ \A a \in Alias : stored'[a] = IF a = of[p] THEN stored[a] + 1 ELSE stored[a]
  BY <1>1, <1>2 DEF PortInv, PortTypes
<1>4. PortTypes'
  <2>1. stored' \in [Alias -> Nat]
    BY <1>1, <1>2 DEF PortInv, PortTypes
  <2>2. defs' \in [Port -> Nat]
    BY <1>1, <1>2 DEF PortInv, PortTypes
  <2> QED  BY <1>1, <2>1, <2>2 DEF PortInv, PortTypes
<1>5. Turns' /\ Owned' /\ Room' /\ Own'
  BY <1>1 DEF PortInv, Turns, Holder, Owned, Room, Attached, Own
<1>6. \A r \in Request : Doing(r)' /\ Informed(r)'
  BY <1>1 DEF PortInv, Doing, Informed
<1>7. Tallied'
  <2>1. \A a : (Stopping(a)' <=> Stopping(a)) /\ Resumed(carried, saved, a)' = Resumed(carried, saved, a)
    BY <1>1 DEF Stopping, Resumed
  <2> QED  BY <1>1, <2>1 DEF PortInv, Tallied
<1>8. Learned'
  <2>1. ASSUME NEW q \in Port, defs'[q] # 0
        PROVE  state[q] # "unmade" /\ of[q] \in Alias /\ defs'[q] <= stored'[of[q]]
    <3>1. defs[q] \in Nat /\ \A a \in Alias : stored[a] \in Nat
      BY DEF PortInv, PortTypes
    <3> QED  BY <1>1, <1>2, <1>3, <2>1, <3>1 DEF PortInv, Learned
  <2>2. ASSUME NEW r \in Request, req[r].op \in Starter, req[r].pc = "ok", req[r].replaces # Nobody
        PROVE  defs'[req[r].new] >= defs'[req[r].replaces]
    <3>1. /\ req[r].new \in Port /\ req[r].replaces \in Port /\ req[r].replaces # p
          /\ defs[req[r].new] >= defs[req[r].replaces]
      BY <1>1, <2>2 DEF PortInv, Learned
    <3>2. defs[p] <= stored[of[p]] \/ defs[p] = 0
      BY DEF PortInv, Learned
    <3>3. defs[p] \in Nat /\ defs[req[r].replaces] \in Nat
      BY <3>1 DEF PortInv, PortTypes
    <3> QED  BY <1>2, <1>3, <3>1, <3>2, <3>3
  <2> QED  BY <1>1, <2>1, <2>2 DEF PortInv, Learned
<1> QED  BY <1>4, <1>5, <1>6, <1>7, <1>8 DEF PortInv

-------------------------------------------------------------------------------
(* hold, and a port that starts.                                             *)

(* While the holder has taken no port down, nobody has. *)
LEMMA NoneStops ==
  ASSUME PortInv, NEW r \in Request, Holder(r), req[r].pc \notin Stops
  PROVE  /\ \A q \in Request : req[q].pc \notin Stops
         /\ \A p \in Port : state[p] # "stops"
         /\ \A a : ~Stopping(a)
<1>1. \A q \in Request : req[q].pc \notin Stops
  BY OneHolds DEF PortInv, Stops, Holding
<1> QED  BY <1>1 DEF PortInv, Owned, Stopping

LEMMA HoldKeeps ==
  ASSUME PortInv, NEW r \in Request, Holds(r)
  PROVE  PortInv'
<1> DEFINE a == req[r].alias
           p == ports[a]
<1>1. /\ Holder(r) /\ req[r].pc = "queues" /\ req[r].op = "hold" /\ p # Nobody
      /\ held' = [held EXCEPT ![p] = TRUE]
      /\ IF held[p] THEN UNCHANGED changes ELSE Changed(a)
      /\ UNCHANGED <<lockQ, ports, state, of, count, defs, made, carried, saved, high, stored>>
  BY DEF Holds, book
<1>2. req \in [Request -> Asked] /\ req[r] \in Asked /\ "holds" \in Pcs /\ "queues" \notin Stops
  BY DEF PortInv, PortTypes, Pcs, Waits, Stops
<1>3. req' \in [Request -> Asked] /\ Others(r) /\ req'[r] = [req[r] EXCEPT !.pc = "holds"]
  BY <1>2, GoesOn DEF PortInv, Holds
<1>4. /\ req'[r].pc = "holds" /\ req'[r].op = "hold" /\ req'[r].new = req[r].new
      /\ req'[r].alias = a
  BY <1>1, <1>2, <1>3, PcOf
<1>5. a \in Alias /\ p \in Port
  BY <1>1 DEF PortInv, PortTypes, Doing, Waits, Primes, Nobody
<1>6. /\ \A q \in Port : held'[q] = (q = p \/ held[q])
      /\ \A b \in Alias : b # a \/ held[p] => changes'[b] = changes[b]
  BY <1>1, <1>5 DEF PortInv, PortTypes, Changed
<1>7. /\ \A q \in Request : req[q].pc \notin Stops /\ (req[q].pc)' \notin Stops
      /\ \A q \in Port : state[q] # "stops"
  BY <1>1, <1>2, <1>3, <1>4, NoneStops DEF Others, Stops
<1>8. Turns' /\ lockQ' \in Seq(Request)
  <2>1. LockMoves(r)
    BY <1>1, <1>4 DEF LockMoves, Waits
  <2> QED  BY <1>3, <2>1, TurnsStay DEF PortInv
<1>9. PortTypes'
  <2>1. held' \in [Port -> BOOLEAN]
    BY <1>1 DEF PortInv, PortTypes
  <2>2. changes' \in [Alias -> Nat]
    <3>1. changes \in [Alias -> Nat] /\ changes[a] + 1 \in Nat
      BY <1>5 DEF PortInv, PortTypes
    <3>2. changes' = changes \/ changes' = [changes EXCEPT ![a] = changes[a] + 1]
      BY <1>1 DEF Changed
    <3> QED  BY <3>1, <3>2
  <2> QED  BY <1>1, <1>3, <1>8, <2>1, <2>2 DEF PortInv, PortTypes
<1>10. Owned' /\ Room'
  <2>1. Owned'
    BY <1>1, <1>7 DEF PortInv, Owned
  <2>2. Attached' = Attached /\ \A q \in Request : req'[q].pc # "replaces"
    BY <1>1, <1>7 DEF Attached, Stops
  <2>3. Room'
    BY <2>2 DEF PortInv, Room
  <2> QED  BY <2>1, <2>3
<1>11. Own'
  <2>1. made' = made /\ \A q \in Request : req'[q].new = req[q].new
    BY <1>1, <1>3, <1>4 DEF Others
  <2> QED  BY <2>1 DEF PortInv, Own
<1>12. Tallied'
  <2>1. \A b : Resumed(carried, saved, b)' = Resumed(carried, saved, b) /\ ~Stopping(b)
    BY <1>1, <1>7 DEF Resumed, Stopping
  <2> QED  BY <1>1, <1>7, <2>1 DEF PortInv, Tallied
<1>13. Learned'
  <2>1. \A q \in Request : req'[q].op \in Starter /\ req'[q].pc = "ok" => req'[q] = req[q]
    BY <1>3, <1>4 DEF Others
  <2> QED  BY <1>1, <2>1 DEF PortInv, Learned
<1>14. Doing(r)' /\ Informed(r)'
  BY <1>4, <1>5 DEF Doing, Informed, Primes, Stops, Starter
<1>15. ASSUME NEW q \in Request, q # r PROVE Doing(q)' /\ Informed(q)'
  <2>1. req'[q] = req[q] /\ Doing(q) /\ Informed(q) /\ req[q].pc # "replaces"
    BY <1>3, <1>7, <1>15 DEF PortInv, Others, Stops
  <2>2. Doing(q)'
    BY <1>1, <2>1 DEF Doing
  <2>3. Informed(q)'
    <3> SUFFICES ASSUME req[q].op = "reconnect", req[q].pc \in Primes
                 PROVE  /\ req[q].wasHeld => held'[req[q].replaces]
                        /\ ports[req[q].alias] = req[q].replaces
                             /\ (held'[req[q].replaces] => req[q].wasHeld) =>
                               changes'[req[q].alias] = req[q].seen
      BY <1>1, <2>1 DEF Informed
    <3>1. /\ req[q].replaces \in Port /\ (req[q].wasHeld => held[req[q].replaces])
          /\ ports[req[q].alias] = req[q].replaces /\ (held[req[q].replaces] => req[q].wasHeld) =>
               changes[req[q].alias] = req[q].seen
      BY <2>1 DEF Informed
    <3>2. req[q].alias \in Alias
      BY <2>1 DEF Doing
    <3> QED  BY <1>6, <3>1, <3>2
  <2> QED  BY <2>2, <2>3
<1> QED  BY <1>8, <1>9, <1>10, <1>11, <1>12, <1>13, <1>14, <1>15 DEF PortInv

(* What a start of r's port leaves behind, whatever ended before it: `old`  *)
(* is the port it replaces, or none.                                       *)
LEMMA StartsFacts ==
  ASSUME PortInv, NEW r \in Request, NEW n \in 0 .. MaxCount, NEW old \in 0 .. MaxMade,
         Starts(r, n, old), req[r].op \in Starter, req[r].pc \in {"queues", "replaces"},
         UNCHANGED <<of, made>>, old # 0 => state[old] = "stops"
  PROVE  LET a == req[r].alias  p == req[r].new IN
         /\ a \in Alias /\ p \in Port /\ state[p] = "new" /\ of[p] = a
         /\ req' \in [Request -> Asked] /\ Others(r) /\ req'[r].pc = "ok"
         /\ req'[r].op = req[r].op /\ req'[r].alias = a /\ req'[r].new = p
         /\ req'[r].replaces = req[r].replaces
         /\ \A b \in Alias : /\ ports'[b] = IF b = a THEN p ELSE ports[b]
                             /\ b # a => changes'[b] = changes[b]
         /\ \A q \in Port : /\ state'[q] = IF q = p THEN "runs" ELSE IF q = old THEN "over" ELSE state[q]
                            /\ count'[q] = IF q = p THEN n ELSE count[q]
         /\ ports' \in [Alias -> Port \cup {Nobody}]
         /\ state' \in [Port -> {"unmade", "new", "runs", "stops", "over"}]
         /\ count' \in [Port -> 0 .. MaxCount] /\ changes' \in [Alias -> Nat]
         /\ \A q \in Port : state'[q] = "unmade" <=> q > made'
         /\ Turns' /\ lockQ' \in Seq(Request)
<1> DEFINE a == req[r].alias
           p == req[r].new
<1>1. a \in Alias /\ p \in Port /\ state[p] = "new" /\ of[p] = a
  BY DEF PortInv, Doing, Primes, Waits
<1>2. /\ ports' = [ports EXCEPT ![a] = p]
      /\ state' = [q \in Port |-> IF q = p THEN "runs" ELSE IF q = old THEN "over" ELSE state[q]]
      /\ count' = [count EXCEPT ![p] = n]
      /\ Goes(r, "ok") /\ lockQ' = RemoveFirst(lockQ, r) /\ changes' = [changes EXCEPT ![a] = @ + 1]
  BY DEF Starts, Leaves, Changed
<1>3. req \in [Request -> Asked] /\ req[r] \in Asked /\ "ok" \in Pcs
  BY DEF PortInv, PortTypes, Pcs
<1>4. req' \in [Request -> Asked] /\ Others(r) /\ req'[r] = [req[r] EXCEPT !.pc = "ok"]
  BY <1>2, <1>3, GoesOn DEF PortInv
<1>5. /\ req'[r].pc = "ok" /\ req'[r].op = req[r].op /\ req'[r].alias = a /\ req'[r].new = p
      /\ req'[r].replaces = req[r].replaces
  BY <1>3, <1>4, PcOf
<1>6. Turns' /\ lockQ' \in Seq(Request)
  <2>1. LockMoves(r)
    BY <1>2, <1>5 DEF LockMoves, Waits
  <2> QED  BY <1>4, <2>1, TurnsStay DEF PortInv
<1>7. ports' \in [Alias -> Port \cup {Nobody}] /\ \A b \in Alias : ports'[b] = IF b = a THEN p ELSE ports[b]
  BY <1>1, <1>2 DEF PortInv, PortTypes
<1>8. changes' \in [Alias -> Nat] /\ \A b \in Alias : b # a => changes'[b] = changes[b]
  <2>1. changes \in [Alias -> Nat] /\ changes[a] + 1 \in Nat
    BY <1>1 DEF PortInv, PortTypes
  <2> QED  BY <1>2, <2>1
<1>9. count' \in [Port -> 0 .. MaxCount] /\ \A q \in Port : count'[q] = IF q = p THEN n ELSE count[q]
  BY <1>1, <1>2 DEF PortInv, PortTypes
<1>10. /\ state' \in [Port -> {"unmade", "new", "runs", "stops", "over"}]
       /\ \A q \in Port : state'[q] = IF q = p THEN "runs" ELSE IF q = old THEN "over" ELSE state[q]
  BY <1>2 DEF PortInv, PortTypes
<1>11. ASSUME NEW q \in Port PROVE state'[q] = "unmade" <=> q > made'
  <2>1. (state[q] = "unmade" <=> q > made) /\ (q = old => state[q] = "stops")
    BY DEF PortInv, PortTypes, Port
  <2> QED  BY <1>1, <1>10, <2>1
<1> QED  BY <1>1, <1>4, <1>5, <1>6, <1>7, <1>8, <1>9, <1>10, <1>11

(* Everything that a start leaves true, but for what the counters and the   *)
(* decoders come to.                                                       *)
LEMMA StartKeeps ==
  ASSUME Limits, PortInv, NEW r \in Request, NEW n \in 0 .. MaxCount, NEW old \in 0 .. MaxMade,
         Starts(r, n, old), req[r].op \in Starter, Holder(r),
         \/ req[r].pc = "queues" /\ old = 0 /\ Cardinality(Attached) < MaxPorts
         \/ req[r].pc = "replaces" /\ old = req[r].replaces,
         ports[req[r].alias] = Nobody,
         UNCHANGED <<of, made, held, stored>>,
         defs' \in [Port -> Nat], high' \in [Alias -> Nat], saved' \in [Alias -> 0 .. MaxCount],
         carried' \in Seq(Alias), Len(carried') <= CarriedMax, Tallied', Learned'
  PROVE  PortInv'
<1> DEFINE a == req[r].alias
           p == req[r].new
<1>1. old # 0 => state[old] = "stops"
  BY DEF PortInv, Doing, Stops
<1>2. req[r].pc \in {"queues", "replaces"}
  OBVIOUS
<1>3. /\ a \in Alias /\ p \in Port /\ state[p] = "new" /\ of[p] = a
      /\ req' \in [Request -> Asked] /\ Others(r) /\ req'[r].pc = "ok"
      /\ req'[r].op = req[r].op /\ req'[r].alias = a /\ req'[r].new = p
      /\ \A b \in Alias : /\ ports'[b] = IF b = a THEN p ELSE ports[b]
                          /\ b # a => changes'[b] = changes[b]
      /\ \A q \in Port : state'[q] = IF q = p THEN "runs" ELSE IF q = old THEN "over" ELSE state[q]
      /\ ports' \in [Alias -> Port \cup {Nobody}]
      /\ state' \in [Port -> {"unmade", "new", "runs", "stops", "over"}]
      /\ count' \in [Port -> 0 .. MaxCount] /\ changes' \in [Alias -> Nat]
      /\ \A q \in Port : state'[q] = "unmade" <=> q > made'
      /\ Turns' /\ lockQ' \in Seq(Request)
  BY <1>1, <1>2, StartsFacts
<1>4. ASSUME NEW q \in Request, q # r PROVE req[q].pc \notin Holding
  <2>1. Turns
    BY DEF PortInv
  <2>2. ASSUME req[q].pc \in Holding PROVE q = r
    <3>1. req[r].pc \in Holding \/ Holder(r)
      OBVIOUS
    <3> QED  BY <2>1, <2>2, <3>1, OneHolds
  <2> QED  BY <1>4, <2>2
<1>5. ASSUME NEW q \in Request PROVE req'[q].pc \notin Stops
  <2>1. Stops \subseteq Holding /\ "ok" \notin Stops
    BY DEF Stops, Holding
  <2>2. req'[r].pc = "ok" /\ (q # r => req'[q] = req[q])
    BY <1>3 DEF Others
  <2> QED  BY <1>4, <2>1, <2>2
<1>6. PortTypes'
  BY <1>3 DEF PortInv, PortTypes
<1>7. Owned'
  <2>1. ASSUME NEW b \in Alias, ports'[b] # Nobody
        PROVE  of[ports'[b]] = b /\ state'[ports'[b]] = "runs"
    <3>1. CASE b = a
      BY <1>3, <3>1
    <3>2. CASE b # a
      <4>1. ports'[b] = ports[b] /\ ports[b] \in Port /\ of[ports[b]] = b /\ state[ports[b]] = "runs"
        BY <1>3, <2>1, <3>2 DEF PortInv, PortTypes, Owned
      <4>2. ports[b] # p /\ ports[b] # old
        BY <1>1, <1>3, <4>1 DEF Port
      <4> QED  BY <1>3, <4>1, <4>2
    <3> QED  BY <3>1, <3>2
  <2>2. ASSUME NEW q \in Port, state'[q] = "runs" PROVE of[q] \in Alias /\ ports'[of[q]] = q
    <3>1. CASE q = p
      BY <1>3, <3>1
    <3>2. CASE q # p
      <4>1. state[q] = "runs"
        BY <1>3, <2>2, <3>2
      <4>2. of[q] \in Alias /\ ports[of[q]] = q
        BY <4>1 DEF PortInv, Owned
      <4>3. of[q] # a
        BY <4>2 DEF Nobody, Port
      <4> QED  BY <1>3, <4>2, <4>3
    <3> QED  BY <3>1, <3>2
  <2>3. ASSUME NEW q \in Port PROVE state'[q] # "stops"
    <3>1. CASE q = p
      BY <1>3, <3>1
    <3>2. CASE state[q] = "stops"
      <4>1. PICK x \in Request : req[x].pc \in Stops /\ req[x].replaces = q
        BY <3>2 DEF PortInv, Owned
      <4>2. x = r
        BY <1>4, <4>1 DEF Stops, Holding
      <4>3. q = old
        BY <4>1, <4>2 DEF Stops
      <4> QED  BY <1>3, <4>3
    <3> QED  BY <1>3, <3>1, <3>2
  <2> QED  BY <2>1, <2>2, <2>3 DEF Owned
<1>8. Room'
  <2>1. Attached' = Attached \cup {a} /\ a \notin Attached
    BY <1>3 DEF Attached, Nobody, Port
  <2>2. Cardinality(Attached) < MaxPorts
    BY DEF PortInv, Room
  <2>3. IsFiniteSet(Attached') /\ Cardinality(Attached') = Cardinality(Attached) + 1
    BY <2>1, FS_AddElement DEF PortInv, Room
  <2>4. Cardinality(Attached) \in Nat
    BY FS_CardinalityType DEF PortInv, Room
  <2> QED  BY <1>5, <2>2, <2>3, <2>4 DEF Room, Limits, Stops
<1>9. Own'
  <2>1. made' = made /\ \A q \in Request : req'[q].new = req[q].new
    BY <1>3 DEF Others
  <2> QED  BY <2>1 DEF PortInv, Own
<1>10. Doing(r)' /\ Informed(r)'
  BY <1>3 DEF Doing, Informed, Waits, Primes, Stops
<1>11. ASSUME NEW q \in Request, q # r PROVE Doing(q)' /\ Informed(q)'
  <2>1. req'[q] = req[q] /\ Doing(q) /\ Informed(q) /\ req[q].pc \notin Stops
    BY <1>3, <1>4, <1>11 DEF PortInv, Others, Stops, Holding
  <2>2. req[q].new \in Port => req[q].new # p
    BY <1>11 DEF PortInv, Own, Port
  <2>3. Doing(q)'
    <3>1. ASSUME req[q].op \in Starter, req[q].pc \in Primes \cup {"replaces"}
          PROVE  state'[req[q].new] = "new"
      <4>1. req[q].new \in Port /\ state[req[q].new] = "new"
        BY <2>1, <3>1 DEF Doing
      <4>2. req[q].new # old
        BY <1>1, <4>1 DEF Port
      <4> QED  BY <1>3, <2>2, <4>1, <4>2
    <3> QED  BY <2>1, <3>1 DEF Doing
  <2>4. Informed(q)'
    <3> SUFFICES ASSUME req[q].op = "reconnect", req[q].pc \in Primes
                 PROVE  /\ req[q].replaces \in Port
                        /\ state'[req[q].replaces] \in {"runs", "stops", "over"}
                        /\ req[q].wasHeld => held[req[q].replaces]
                        /\ ports'[req[q].alias] = req[q].replaces
                             /\ (held[req[q].replaces] => req[q].wasHeld) =>
                               changes'[req[q].alias] = req[q].seen
      BY <2>1 DEF Informed, Stops
    <3>1. /\ req[q].replaces \in Port /\ state[req[q].replaces] \in {"runs", "stops", "over"}
          /\ req[q].wasHeld => held[req[q].replaces]
          /\ ports[req[q].alias] = req[q].replaces /\ (held[req[q].replaces] => req[q].wasHeld) =>
               changes[req[q].alias] = req[q].seen
      BY <2>1 DEF Informed
    <3>2. req[q].alias \in Alias /\ req[q].replaces # p
      BY <1>3, <2>1, <3>1 DEF Doing
    <3>3. state'[req[q].replaces] \in {"runs", "stops", "over"}
      BY <1>3, <3>1
    <3> QED  BY <1>3, <3>1, <3>2, <3>3
  <2> QED  BY <2>3, <2>4
<1> QED  BY <1>3, <1>6, <1>7, <1>8, <1>9, <1>10, <1>11 DEF PortInv

LEMMA AttachStartsKeeps ==
  ASSUME Limits, PortInv, NEW r \in Request, AttachStarts(r)
  PROVE  PortInv'
<1> DEFINE a == req[r].alias
           p == req[r].new
           n == Resumed(carried, saved, a)
<1>1. /\ Holder(r) /\ req[r].pc = "queues" /\ req[r].op \in Starter /\ MayStart(r)
      /\ ports[a] = Nobody /\ Starts(r, n, Nobody)
      /\ UNCHANGED <<of, held, defs, made, carried, saved, high, stored>>
  BY DEF AttachStarts, book, Starter
<1>2. a \in Alias
  BY <1>1 DEF PortInv, Doing, Waits
<1>3. n \in 0 .. MaxCount /\ Nobody \in 0 .. MaxMade
  BY <1>2 DEF PortInv, PortTypes, Resumed, Limits, Nobody
<1> HIDE DEF n
<1>4. /\ p \in Port /\ state[p] = "new" /\ of[p] = a /\ Others(r) /\ req'[r].pc = "ok"
      /\ req'[r].new = p /\ req'[r].replaces = req[r].replaces
      /\ \A b \in Alias : ports'[b] = IF b = a THEN p ELSE ports[b]
      /\ \A q \in Port : /\ state'[q] = IF q = p THEN "runs" ELSE IF q = 0 THEN "over" ELSE state[q]
                         /\ count'[q] = IF q = p THEN n ELSE count[q]
  BY <1>1, <1>3, StartsFacts DEF Nobody
<1>5. /\ \A q \in Request : req[q].pc \notin Stops
      /\ \A b : ~Stopping(b)
  BY <1>1, NoneStops DEF Stops
<1>6. Tallied'
  <2>1. \A q \in Request : req'[q].pc \notin Stops
    BY <1>4, <1>5 DEF Others, Stops
  <2>2. high[a] <= n
    BY <1>1, <1>2, <1>5 DEF PortInv, Tallied, n
  <2>3. ASSUME NEW b \in Alias, ports'[b] # Nobody PROVE count'[ports'[b]] >= high[b]
    <3>1. CASE b = a
      BY <1>2, <1>3, <1>4, <2>2, <3>1 DEF PortInv, PortTypes
    <3>2. CASE b # a
      <4>1. ports[b] \in Port /\ ports'[b] = ports[b] /\ state[ports[b]] = "runs" /\ count[ports[b]] >= high[b]
        BY <1>4, <2>3, <3>2 DEF PortInv, PortTypes, Owned, Tallied
      <4>2. ports[b] # p
        BY <1>4, <4>1
      <4> QED  BY <1>4, <4>1, <4>2
    <3> QED  BY <3>1, <3>2
  <2>4. ASSUME NEW b \in Alias, ports'[b] = Nobody PROVE high[b] <= Resumed(carried, saved, b)
    <3>1. ports[b] = Nobody
      BY <1>1, <1>4, <2>4
    <3> QED  BY <1>5, <3>1 DEF PortInv, Tallied
  <2>5. \A b : Resumed(carried, saved, b)' = Resumed(carried, saved, b)
    BY <1>1 DEF Resumed
  <2> QED  BY <1>1, <2>1, <2>3, <2>4, <2>5 DEF PortInv, Tallied
<1>7. Learned'
  <2>1. req'[r].replaces = Nobody
    BY <1>1, <1>4 DEF MayStart
  <2>2. ASSUME NEW q \in Port, defs[q] # 0
        PROVE  state'[q] # "unmade" /\ of[q] \in Alias /\ defs[q] <= stored[of[q]]
    BY <1>4, <2>2 DEF PortInv, Learned
  <2>3. ASSUME NEW q \in Request, req'[q].op \in Starter, req'[q].pc = "ok"
        PROVE  /\ req'[q].new \in Port
               /\ req'[q].replaces # Nobody =>
                    /\ req'[q].replaces \in Port /\ state'[req'[q].replaces] = "over"
                    /\ defs[req'[q].new] >= defs[req'[q].replaces]
    <3>1. CASE q = r
      BY <1>4, <2>1, <3>1
    <3>2. CASE q # r
      <4>1. req'[q] = req[q]
        BY <1>4, <3>2 DEF Others
      <4> QED  BY <1>4, <2>3, <4>1 DEF PortInv, Learned
    <3> QED  BY <3>1, <3>2
  <2> QED  BY <1>1, <2>2, <2>3 DEF Learned
<1>8. /\ req[r].alias \in Alias /\ Cardinality(Attached) < MaxPorts
      /\ defs' \in [Port -> Nat] /\ high' \in [Alias -> Nat] /\ saved' \in [Alias -> 0 .. MaxCount]
      /\ carried' \in Seq(Alias) /\ Len(carried') <= CarriedMax
  BY <1>1, <1>2 DEF PortInv, PortTypes, MayStart
<1> QED  BY <1>1, <1>3, <1>6, <1>7, <1>8, StartKeeps DEF Nobody

-------------------------------------------------------------------------------
(* A port has stopped: its counters are carried.                             *)

LEMMA CarryFacts ==
  ASSUME Limits, PortTypes, Once(carried), NEW a \in Alias
  PROVE  /\ Carry(a) \in Seq(Alias) /\ Once(Carry(a)) /\ Len(Carry(a)) <= CarriedMax
         /\ a \in ToSet(Carry(a))
<1> DEFINE rest == RemoveFirst(carried, a)
           q    == Append(rest, a)
<1>1. carried \in Seq(Alias) /\ Len(carried) <= CarriedMax /\ Len(carried) \in Nat
  BY DEF PortTypes
<1>2. /\ rest \in Seq(Alias) /\ Once(rest) /\ Len(rest) <= Len(carried) /\ ~Has(rest, a)
  BY <1>1, LeftOver
<1>3. q \in Seq(Alias) /\ Once(q) /\ Len(q) = Len(rest) + 1 /\ q[Len(q)] = a
  <2>1. q \in Seq(Alias) /\ Once(q) /\ Len(q) = Len(rest) + 1
    BY <1>2, Joined
  <2> QED  BY <1>2, <2>1
<1>4. Carry(a) = IF Len(q) > CarriedMax THEN Tail(q) ELSE q
  BY DEF Carry
<1> HIDE DEF rest, q
<1>5. CASE Len(q) > CarriedMax
  <2>1. Len(q) > 1 /\ Len(q) \in Nat /\ Len(q) - 1 <= CarriedMax
    BY <1>1, <1>2, <1>3, <1>5 DEF Limits
  <2>2. /\ Tail(q) \in Seq(Alias) /\ Once(Tail(q)) /\ Len(Tail(q)) = Len(q) - 1
        /\ \A i \in 1 .. Len(Tail(q)) : Tail(q)[i] = q[i + 1]
    BY <1>3, <2>1, TailOf
  <2>3. Tail(q)[Len(q) - 1] = a /\ Len(q) - 1 \in DOMAIN Tail(q)
    BY <1>3, <2>1, <2>2
  <2>4. a \in ToSet(Tail(q))
    BY <2>3 DEF ToSet
  <2> QED  BY <1>4, <1>5, <2>1, <2>2, <2>4
<1>6. CASE ~(Len(q) > CarriedMax)
  <2>1. Len(q) \in DOMAIN q
    BY <1>2, <1>3
  <2>2. a \in ToSet(q)
    BY <1>3, <2>1 DEF ToSet
  <2>3. Len(q) <= CarriedMax
    BY <1>3, <1>6 DEF Limits
  <2> QED  BY <1>3, <1>4, <1>6, <2>2, <2>3
<1> QED  BY <1>5, <1>6

(* What was carried of any other alias still is, unless it was dropped, and *)
(* then it starts from zero.                                               *)
LEMMA CarriesFacts ==
  ASSUME Limits, PortInv, NEW a \in Alias, NEW n \in 0 .. MaxCount, Carries(a, n)
  PROVE  /\ carried' \in Seq(Alias) /\ Len(carried') <= CarriedMax /\ Once(carried')
         /\ saved' \in [Alias -> 0 .. MaxCount] /\ high' \in [Alias -> Nat]
         /\ high'[a] = high[a] /\ Resumed(carried', saved', a) = n
         /\ \A x \in Alias : ports[x] # Nobody => high'[x] = high[x]
         /\ \A x \in Alias : x # a /\ ports[x] = Nobody /\ high[x] <= Resumed(carried, saved, x) =>
              high'[x] <= Resumed(carried', saved', x)
<1>1. /\ carried' = Carry(a) /\ saved' = [saved EXCEPT ![a] = n]
      /\ high' = [x \in Alias |-> IF x \in Evicted(carried') /\ x # a /\ ports[x] = Nobody
                                    THEN 0 ELSE high[x]]
  BY DEF Carries
<1>2. /\ carried' \in Seq(Alias) /\ Once(carried') /\ Len(carried') <= CarriedMax
      /\ a \in ToSet(carried')
  BY <1>1, CarryFacts DEF PortInv, Tallied
<1>3. /\ saved' \in [Alias -> 0 .. MaxCount]
      /\ \A x \in Alias : saved'[x] = IF x = a THEN n ELSE saved[x]
  BY <1>1 DEF PortInv, PortTypes
<1>4. /\ high \in [Alias -> Nat] /\ high' \in [Alias -> Nat]
      /\ \A x \in Alias : high'[x] = IF x \in Evicted(carried') /\ x # a /\ ports[x] = Nobody
                                       THEN 0 ELSE high[x]
  BY <1>1 DEF PortInv, PortTypes
<1>5. Resumed(carried', saved', a) = n
  BY <1>2, <1>3 DEF Resumed
<1>6. ASSUME NEW x \in Alias, x # a, ports[x] = Nobody, high[x] <= Resumed(carried, saved, x)
      PROVE  high'[x] <= Resumed(carried', saved', x)
  <2>1. saved'[x] \in Nat /\ saved'[x] = saved[x] /\ high[x] \in Nat
    BY <1>3, <1>4, <1>6 DEF Limits
  <2>2. CASE x \in ToSet(carried) /\ x \notin ToSet(carried')
    BY <1>4, <1>6, <2>1, <2>2 DEF Evicted, Resumed
  <2>3. CASE x \in ToSet(carried) /\ x \in ToSet(carried')
    BY <1>4, <1>6, <2>1, <2>3 DEF Evicted, Resumed
  <2>4. CASE x \notin ToSet(carried)
    BY <1>4, <1>6, <2>1, <2>4 DEF Evicted, Resumed
  <2> QED  BY <2>2, <2>3, <2>4
<1> QED  BY <1>2, <1>3, <1>4, <1>5, <1>6

(* A port that has stopped was the only one, and its alias starts from what *)
(* it counted.                                                             *)
LEMMA StoppedTally ==
  ASSUME Limits, PortInv, NEW r \in Request, req[r].pc \in Stops,
         Carries(req[r].alias, count[req[r].replaces])
  PROVE  LET a == req[r].alias  old == req[r].replaces IN
         /\ a \in Alias /\ old \in Port /\ state[old] = "stops" /\ of[old] = a /\ ports[a] = Nobody
         /\ count[old] \in 0 .. MaxCount /\ Holder(r)
         /\ carried' \in Seq(Alias) /\ Len(carried') <= CarriedMax /\ Once(carried')
         /\ saved' \in [Alias -> 0 .. MaxCount] /\ high' \in [Alias -> Nat]
         /\ Resumed(carried', saved', a) = count[old] /\ high'[a] <= count[old]
         /\ \A x \in Alias : ports[x] # Nobody => high'[x] <= count[ports[x]]
         /\ \A x \in Alias : x # a /\ ports[x] = Nobody => high'[x] <= Resumed(carried', saved', x)
         /\ \A q \in Request : req[q].pc \in Holding => q = r
<1> DEFINE a   == req[r].alias
           old == req[r].replaces
<1>1. /\ a \in Alias /\ old \in Port /\ state[old] = "stops" /\ of[old] = a /\ ports[a] = Nobody
      /\ high[a] <= count[old] /\ Holder(r)
  BY DEF PortInv, Doing, Stops, Waits, Holding, Turns, Tallied
<1>2. count[old] \in 0 .. MaxCount
  BY <1>1 DEF PortInv, PortTypes
<1>3. req[r].pc \in Holding /\ Turns
  BY DEF Stops, Holding, PortInv
<1>4. \A q \in Request : req[q].pc \in Holding => q = r
  BY <1>3, OneHolds
<1>5. \A x \in Alias : x # a => ~Stopping(x)
  BY <1>4 DEF Stopping, Stops, Holding
<1> HIDE DEF a, old
<1>6. Carries(a, count[old])
  BY DEF a, old
<1>7. /\ carried' \in Seq(Alias) /\ Len(carried') <= CarriedMax /\ Once(carried')
      /\ saved' \in [Alias -> 0 .. MaxCount] /\ high' \in [Alias -> Nat]
      /\ high'[a] = high[a] /\ Resumed(carried', saved', a) = count[old]
      /\ \A x \in Alias : ports[x] # Nobody => high'[x] = high[x]
      /\ \A x \in Alias : x # a /\ ports[x] = Nobody /\ high[x] <= Resumed(carried, saved, x) =>
           high'[x] <= Resumed(carried', saved', x)
  BY <1>1, <1>2, <1>6, CarriesFacts
<1>8. ASSUME NEW x \in Alias, ports[x] # Nobody PROVE high'[x] <= count[ports[x]]
  <2>1. count[ports[x]] >= high[x] /\ ports[x] \in Port
    BY <1>8 DEF PortInv, Tallied, PortTypes
  <2>2. count[ports[x]] \in Nat /\ high[x] \in Nat
    BY <2>1 DEF PortInv, PortTypes, Limits
  <2> QED  BY <1>7, <1>8, <2>1, <2>2
<1>9. ASSUME NEW x \in Alias, x # a, ports[x] = Nobody
      PROVE  high'[x] <= Resumed(carried', saved', x)
  <2>1. high[x] <= Resumed(carried, saved, x)
    BY <1>5, <1>9 DEF PortInv, Tallied
  <2> QED  BY <1>7, <1>9, <2>1
<1> QED  BY <1>1, <1>2, <1>4, <1>7, <1>8, <1>9 DEF a, old

(* _detach_locked has awaited the stop, or was cancelled at it. *)
LEMMA EndKeeps ==
  ASSUME Limits, PortInv, NEW r \in Request, req[r].pc \in Stops,
         NEW to \in {"ok", "refused", "drains"}, to = "ok" => req[r].op \notin Starter,
         to = "drains" => req[r].op = "stop_all",
         Goes(r, to), Leaves(r), Carries(req[r].alias, count[req[r].replaces]),
         state' = [state EXCEPT ![req[r].replaces] = "over"],
         UNCHANGED <<ports, of, held, count, defs, made, stored, changes>>
  PROVE  PortInv'
<1> DEFINE a   == req[r].alias
           old == req[r].replaces
<1>1. /\ a \in Alias /\ old \in Port /\ state[old] = "stops" /\ of[old] = a /\ ports[a] = Nobody
      /\ count[old] \in 0 .. MaxCount
      /\ carried' \in Seq(Alias) /\ Len(carried') <= CarriedMax /\ Once(carried')
      /\ saved' \in [Alias -> 0 .. MaxCount] /\ high' \in [Alias -> Nat]
      /\ Resumed(carried', saved', a) = count[old] /\ high'[a] <= count[old]
      /\ \A x \in Alias : ports[x] # Nobody => high'[x] <= count[ports[x]]
      /\ \A x \in Alias : x # a /\ ports[x] = Nobody => high'[x] <= Resumed(carried', saved', x)
      /\ \A q \in Request : req[q].pc \in Holding => q = r
  BY StoppedTally
<1>2. to \in Pcs /\ to \notin Waits \cup Primes \cup Stops \cup Holding
  BY DEF Pcs, Waits, Primes, Stops, Holding
<1>3. req \in [Request -> Asked] /\ req[r] \in Asked
  BY DEF PortInv, PortTypes
<1>4. req' \in [Request -> Asked] /\ Others(r) /\ req'[r] = [req[r] EXCEPT !.pc = to]
  BY <1>2, GoesOn DEF PortInv
<1>5. req'[r].pc = to /\ req'[r].op = req[r].op /\ req'[r].new = req[r].new
  BY <1>2, <1>3, <1>4, PcOf
<1>6. \A q \in Port : state'[q] = IF q = old THEN "over" ELSE state[q]
  BY <1>1 DEF PortInv, PortTypes
<1>7. \A q \in Request : req'[q].pc \notin Stops
  BY <1>1, <1>2, <1>4, <1>5 DEF Others, Stops, Holding
<1>8. Turns' /\ lockQ' \in Seq(Request)
  <2>1. LockMoves(r)
    BY <1>2, <1>5 DEF LockMoves, Leaves
  <2> QED  BY <1>4, <2>1, TurnsStay DEF PortInv
<1>9. PortTypes'
  <2>1. state' \in [Port -> {"unmade", "new", "runs", "stops", "over"}]
    BY DEF PortInv, PortTypes
  <2>2. \A q \in Port : state'[q] = "unmade" <=> q > made
    BY <1>1, <1>6 DEF PortInv, PortTypes
  <2> QED  BY <1>1, <1>4, <1>8, <2>1, <2>2 DEF PortInv, PortTypes
<1>10. Owned'
  <2>1. \A b \in Alias : ports[b] # Nobody => ports[b] \in Port /\ ports[b] # old
    BY <1>1 DEF PortInv, PortTypes, Owned
  <2>2. ASSUME NEW q \in Port PROVE state'[q] # "stops"
    <3>1. CASE state[q] = "stops"
      <4>1. PICK x \in Request : req[x].pc \in Stops /\ req[x].replaces = q
        BY <3>1 DEF PortInv, Owned
      <4>2. x = r
        BY <1>1, <4>1 DEF Stops, Holding
      <4> QED  BY <1>6, <4>1, <4>2
    <3> QED  BY <1>6, <3>1
  <2> QED  BY <1>6, <2>1, <2>2 DEF PortInv, Owned
<1>11. Room' /\ Own'
  <2>1. Attached' = Attached
    BY DEF Attached
  <2>2. Room'
    BY <1>7, <2>1 DEF PortInv, Room, Stops
  <2>3. made' = made /\ \A q \in Request : req'[q].new = req[q].new
    BY <1>4, <1>5 DEF Others
  <2> QED  BY <2>2, <2>3 DEF PortInv, Own
<1>12. Tallied'
  <2>1. ASSUME NEW x \in Alias, ports[x] # Nobody PROVE count[ports[x]] >= high'[x]
    <3>1. count[ports[x]] \in Nat /\ high'[x] \in Nat
      BY <1>1, <2>1 DEF PortInv, PortTypes, Limits
    <3> QED  BY <1>1, <2>1, <3>1
  <2>2. \A x \in Alias : ports[x] = Nobody => high'[x] <= Resumed(carried', saved', x)
    BY <1>1
  <2> QED  BY <1>1, <1>7, <2>1, <2>2 DEF Tallied
<1>13. Learned'
  <2>1. \A q \in Port : defs[q] # 0 => state'[q] # "unmade" /\ of[q] \in Alias /\ defs[q] <= stored[of[q]]
    BY <1>6 DEF PortInv, Learned
  <2>2. ASSUME NEW q \in Request, req'[q].op \in Starter, req'[q].pc = "ok"
        PROVE  /\ req'[q].new \in Port
               /\ req'[q].replaces # Nobody =>
                    /\ req'[q].replaces \in Port /\ state'[req'[q].replaces] = "over"
                    /\ defs[req'[q].new] >= defs[req'[q].replaces]
    <3>1. q # r /\ req'[q] = req[q]
      BY <1>4, <1>5, <2>2 DEF Others
    <3> QED  BY <1>6, <2>2, <3>1 DEF PortInv, Learned
  <2> QED  BY <2>1, <2>2 DEF Learned
<1>14. Doing(r)' /\ Informed(r)'
  BY <1>2, <1>5 DEF Doing, Informed, Stops, Waits, Primes
<1>15. ASSUME NEW q \in Request, q # r PROVE Doing(q)' /\ Informed(q)'
  <2>1. req'[q] = req[q] /\ Doing(q) /\ Informed(q) /\ req[q].pc \notin Stops
    BY <1>1, <1>4, <1>15 DEF PortInv, Others, Stops, Holding
  <2>2. Doing(q)'
    BY <1>1, <1>6, <2>1 DEF Doing
  <2>3. Informed(q)'
    BY <1>6, <2>1 DEF Informed
  <2> QED  BY <2>2, <2>3
<1> QED  BY <1>8, <1>9, <1>10, <1>11, <1>12, <1>13, <1>14, <1>15 DEF PortInv

(* The old port has stopped and the new one starts. *)
LEMMA ReplaceKeeps ==
  ASSUME Limits, PortInv, NEW r \in Request, ReplaceEnds(r)
  PROVE  PortInv'
<1> DEFINE a   == req[r].alias
           p   == req[r].new
           old == req[r].replaces
           n   == Resumed(carried', saved', a)
<1>1. /\ req[r].pc = "replaces" /\ Carries(a, count[old]) /\ Adopt(r, old) /\ Starts(r, n, old)
      /\ UNCHANGED <<of, held, made, stored>>
  BY DEF ReplaceEnds
<1>2. req[r].pc \in Stops /\ req[r].op \in Starter
  BY <1>1 DEF Stops, PortInv, Doing
<1>3. /\ a \in Alias /\ old \in Port /\ state[old] = "stops" /\ of[old] = a /\ ports[a] = Nobody
      /\ count[old] \in 0 .. MaxCount /\ Holder(r)
      /\ carried' \in Seq(Alias) /\ Len(carried') <= CarriedMax /\ Once(carried')
      /\ saved' \in [Alias -> 0 .. MaxCount] /\ high' \in [Alias -> Nat]
      /\ Resumed(carried', saved', a) = count[old] /\ high'[a] <= count[old]
      /\ \A x \in Alias : ports[x] # Nobody => high'[x] <= count[ports[x]]
      /\ \A x \in Alias : x # a /\ ports[x] = Nobody => high'[x] <= Resumed(carried', saved', x)
      /\ \A q \in Request : req[q].pc \in Holding => q = r
  BY <1>1, <1>2, StoppedTally
<1>4. n = count[old] /\ n \in 0 .. MaxCount /\ old \in 0 .. MaxMade
  <2> QED  BY <1>3 DEF Port
<1> HIDE DEF n
<1>5. /\ p \in Port /\ state[p] = "new" /\ of[p] = a /\ Others(r)
      /\ req'[r].pc = "ok" /\ req'[r].new = p /\ req'[r].replaces = old
      /\ \A b \in Alias : ports'[b] = IF b = a THEN p ELSE ports[b]
      /\ \A q \in Port : /\ state'[q] = IF q = p THEN "runs" ELSE IF q = old THEN "over" ELSE state[q]
                         /\ count'[q] = IF q = p THEN n ELSE count[q]
  BY <1>1, <1>2, <1>3, <1>4, StartsFacts
<1>6. /\ defs \in [Port -> Nat] /\ defs' \in [Port -> Nat]
      /\ \A q \in Port : defs'[q] = IF q = p /\ defs[old] > 0 THEN defs[old] ELSE defs[q]
  <2>1. defs \in [Port -> Nat] /\ defs[old] \in Nat
    BY <1>3 DEF PortInv, PortTypes
  <2>2. defs' = [defs EXCEPT ![p] = IF defs[old] > 0 THEN defs[old] ELSE defs[p]]
    BY <1>1, <1>5, <2>1 DEF Adopt
  <2> QED  BY <1>5, <2>1, <2>2
<1>7. Tallied'
  <2>1. ASSUME NEW b \in Alias, ports'[b] # Nobody PROVE count'[ports'[b]] >= high'[b]
    <3>1. CASE b = a
      <4>1. count'[ports'[b]] = count[old]
        BY <1>3, <1>4, <1>5, <3>1
      <4> QED  BY <1>3, <3>1, <4>1
    <3>2. CASE b # a
      <4>1. ports[b] \in Port /\ ports'[b] = ports[b] /\ state[ports[b]] = "runs" /\ ports[b] # Nobody
        BY <1>5, <2>1, <3>2 DEF PortInv, PortTypes, Owned
      <4>2. ports[b] # p /\ high'[b] <= count[ports[b]]
        BY <1>3, <1>5, <4>1
      <4>3. count'[ports'[b]] = count[ports[b]]
        BY <1>5, <4>1, <4>2
      <4>4. count[ports[b]] \in Nat /\ high'[b] \in Nat
        BY <1>3, <4>1 DEF PortInv, PortTypes, Limits
      <4> QED  BY <4>2, <4>3, <4>4
    <3> QED  BY <3>1, <3>2
  <2>2. \A q \in Request : req'[q].pc \notin Stops
    BY <1>3, <1>5 DEF Others, Stops, Holding
  <2>3. \A b \in Alias : ports'[b] = Nobody => high'[b] <= Resumed(carried', saved', b)
    BY <1>3, <1>5 DEF Nobody, Port
  <2> QED  BY <1>3, <2>1, <2>2, <2>3 DEF Tallied
<1>8. Learned'
  <2>1. ASSUME NEW q \in Port, defs'[q] # 0
        PROVE  state'[q] # "unmade" /\ of[q] \in Alias /\ defs'[q] <= stored[of[q]]
    <3>1. \A x \in Port : defs[x] # 0 => state[x] # "unmade" /\ of[x] \in Alias /\ defs[x] <= stored[of[x]]
      BY DEF PortInv, Learned
    <3>2. PICK x \in Port : defs'[q] = defs[x] /\ of[x] = of[q] /\ (x = q \/ q = p)
      BY <1>3, <1>5, <1>6
    <3>3. of[q] \in Alias /\ defs'[q] <= stored[of[q]] /\ (q = p \/ state[q] # "unmade")
      BY <2>1, <3>1, <3>2
    <3> QED  BY <1>5, <3>3
  <2>2. ASSUME NEW q \in Request, req'[q].op \in Starter, req'[q].pc = "ok"
        PROVE  /\ req'[q].new \in Port
               /\ req'[q].replaces # Nobody =>
                    /\ req'[q].replaces \in Port /\ state'[req'[q].replaces] = "over"
                    /\ defs'[req'[q].new] >= defs'[req'[q].replaces]
    <3>1. CASE q = r
      <4>1. old # p
        BY <1>3, <1>5
      <4>2. defs'[p] >= defs[old] /\ defs'[old] = defs[old]
        <5>1. defs[old] \in Nat /\ defs[p] \in Nat
          BY <1>3, <1>5, <1>6
        <5>2. defs'[old] = defs[old] /\ defs'[p] = IF defs[old] > 0 THEN defs[old] ELSE defs[p]
          BY <1>3, <1>5, <1>6, <4>1
        <5> QED  BY <5>1, <5>2
      <4> QED  BY <1>3, <1>5, <3>1, <4>1, <4>2
    <3>2. CASE q # r
      <4>1. req'[q] = req[q]
        BY <1>5, <3>2 DEF Others
      <4>2. req[q].new \in Port /\ req[q].new # p
        BY <1>5, <2>2, <3>2, <4>1 DEF PortInv, Learned, Own, Port
      <4>3. req[q].replaces # Nobody =>
              /\ req[q].replaces \in Port /\ state[req[q].replaces] = "over"
              /\ defs[req[q].new] >= defs[req[q].replaces]
        BY <2>2, <4>1 DEF PortInv, Learned
      <4> QED  BY <1>3, <1>5, <1>6, <4>1, <4>2, <4>3
    <3> QED  BY <3>1, <3>2
  <2> QED  BY <1>1, <2>1, <2>2 DEF Learned
<1> QED  BY <1>1, <1>2, <1>3, <1>4, <1>6, <1>7, <1>8, StartKeeps

-------------------------------------------------------------------------------
(* A port is taken down.                                                     *)

LEMMA TakesDownKeeps ==
  ASSUME Limits, PortInv, NEW r \in Request, Holder(r), req[r].pc = "queues",
         ports[req[r].alias] # Nobody, TakesDown(req[r].alias),
         NEW to \in Stops,
         req' = [req EXCEPT ![r].pc = to, ![r].replaces = ports[req[r].alias]],
         to = "replaces" => req[r].op \in Starter /\ MayStart(r) /\ changes' = changes,
         to = "detaches" => req[r].op \in {"detach", "stop_all"} /\ Changed(req[r].alias),
         UNCHANGED <<lockQ, of, held, count, defs, made, carried, saved, high, stored>>
  PROVE  PortInv'
<1> DEFINE a   == req[r].alias
           old == ports[a]
<1>1. /\ a \in Alias /\ old \in Port /\ of[old] = a /\ state[old] = "runs"
      /\ count[old] >= high[a]
  BY DEF PortInv, PortTypes, Doing, Waits, Owned, Tallied
<1>2. /\ \A q \in Request : req[q].pc \notin Stops
      /\ \A q \in Port : state[q] # "stops"
      /\ \A b : ~Stopping(b)
  BY NoneStops DEF Stops
<1>3. /\ \A b \in Alias : ports'[b] = IF b = a THEN Nobody ELSE ports[b]
      /\ \A q \in Port : state'[q] = IF q = old THEN "stops" ELSE state[q]
  BY <1>1 DEF PortInv, PortTypes, TakesDown
<1>4. /\ req' \in [Request -> Asked] /\ Others(r)
      /\ req'[r].pc = to /\ req'[r].op = req[r].op /\ req'[r].alias = a /\ req'[r].new = req[r].new
      /\ req'[r].replaces = old /\ req'[r].wasHeld = req[r].wasHeld /\ req'[r].seen = req[r].seen
  <2>1. req \in [Request -> Asked] /\ req[r] \in Asked /\ old \in 0 .. MaxMade /\ to \in Waits
    BY <1>1 DEF PortInv, PortTypes, Port, Stops, Waits
  <2> DEFINE x == [req[r] EXCEPT !.pc = to, !.replaces = old]
  <2>2. /\ x \in Asked /\ x.pc = to /\ x.op = req[r].op /\ x.alias = a /\ x.new = req[r].new
        /\ x.replaces = old /\ x.wasHeld = req[r].wasHeld /\ x.seen = req[r].seen
    BY <2>1 DEF Asked
  <2>3. req' = [req EXCEPT ![r] = x]
    BY <2>1
  <2> HIDE DEF x
  <2>4. req' \in [Request -> Asked] /\ Others(r) /\ req'[r] = x
    BY <2>1, <2>2, <2>3 DEF Others
  <2> QED  BY <2>2, <2>4
<1>5. to \in Waits /\ to \in Holding /\ "queues" \in Waits
  BY DEF Stops, Holding, Waits
<1>6. Turns' /\ lockQ' \in Seq(Request)
  <2>1. LockMoves(r)
    BY <1>4, <1>5 DEF LockMoves
  <2> QED  BY <1>4, <2>1, TurnsStay DEF PortInv
<1>7. changes' \in [Alias -> Nat] /\ \A b \in Alias : b # a => changes'[b] = changes[b]
  <2>1. changes \in [Alias -> Nat] /\ changes[a] + 1 \in Nat
    BY <1>1 DEF PortInv, PortTypes
  <2>2. changes' = changes \/ changes' = [changes EXCEPT ![a] = changes[a] + 1]
    BY DEF Changed, Stops
  <2> QED  BY <2>1, <2>2
<1>8. PortTypes'
  <2>1. state' \in [Port -> {"unmade", "new", "runs", "stops", "over"}]
    BY DEF PortInv, PortTypes, TakesDown
  <2>2. ports' \in [Alias -> Port \cup {Nobody}]
    BY DEF PortInv, PortTypes, TakesDown
  <2>3. \A q \in Port : state'[q] = "unmade" <=> q > made
    BY <1>1, <1>3 DEF PortInv, PortTypes
  <2> QED  BY <1>4, <1>6, <1>7, <2>1, <2>2, <2>3 DEF PortInv, PortTypes
<1>9. \A q \in Request : req'[q].pc \in Stops => q = r
  BY <1>2, <1>4 DEF Others
<1>10. Owned'
  <2>1. ASSUME NEW b \in Alias, ports'[b] # Nobody
        PROVE  of[ports'[b]] = b /\ state'[ports'[b]] = "runs"
    <3>1. b # a /\ ports'[b] = ports[b]
      BY <1>3, <2>1
    <3>2. ports[b] \in Port /\ of[ports[b]] = b /\ state[ports[b]] = "runs"
      BY <2>1, <3>1 DEF PortInv, PortTypes, Owned
    <3> QED  BY <1>1, <1>3, <3>1, <3>2
  <2>2. ASSUME NEW q \in Port, state'[q] = "runs" PROVE of[q] \in Alias /\ ports'[of[q]] = q
    <3>1. state[q] = "runs" /\ q # old
      BY <1>3, <2>2
    <3>2. of[q] \in Alias /\ ports[of[q]] = q
      BY <3>1 DEF PortInv, Owned
    <3> QED  BY <1>3, <3>1, <3>2
  <2>3. \A q \in Port : state'[q] = "stops" => req'[r].pc \in Stops /\ req'[r].replaces = q
    BY <1>2, <1>3, <1>4
  <2> QED  BY <2>1, <2>2, <2>3 DEF Owned
<1>11. Room'
  <2>1. Attached' = Attached \ {a} /\ a \in Attached
    BY <1>1, <1>3 DEF Attached
  <2>2. /\ IsFiniteSet(Attached') /\ Cardinality(Attached') = Cardinality(Attached) - 1
        /\ Cardinality(Attached) \in Nat
    BY <2>1, FS_RemoveElement, FS_CardinalityType DEF PortInv, Room
  <2>3. Cardinality(Attached') < MaxPorts
    BY <2>2 DEF PortInv, Room, Limits
  <2> QED  BY <2>2, <2>3 DEF Room, Limits
<1>12. Own'
  <2>1. made' = made /\ \A q \in Request : req'[q].new = req[q].new
    BY <1>4 DEF Others
  <2> QED  BY <2>1 DEF PortInv, Own
<1>13. Tallied'
  <2>1. \A b : Resumed(carried, saved, b)' = Resumed(carried, saved, b)
    BY DEF Resumed
  <2>2. \A b \in Alias : ports'[b] # Nobody => count[ports'[b]] >= high[b]
    BY <1>3 DEF PortInv, Tallied
  <2>3. \A q \in Request : req'[q].pc \in Stops => count[req'[q].replaces] >= high[req'[q].alias]
    BY <1>1, <1>4, <1>9
  <2>4. ASSUME NEW b \in Alias, ports'[b] = Nobody, ~Stopping(b)'
        PROVE  high[b] <= Resumed(carried, saved, b)
    <3>1. b # a
      BY <1>4, <2>4 DEF Stopping
    <3> QED  BY <1>2, <1>3, <2>4, <3>1 DEF PortInv, Tallied
  <2> QED  BY <2>1, <2>2, <2>3, <2>4 DEF PortInv, Tallied
<1>14. Learned'
  <2>1. \A q \in Port : defs[q] # 0 => state'[q] # "unmade" /\ of[q] \in Alias /\ defs[q] <= stored[of[q]]
    BY <1>3 DEF PortInv, Learned
  <2>2. ASSUME NEW q \in Request, req'[q].op \in Starter, req'[q].pc = "ok"
        PROVE  /\ req'[q].new \in Port
               /\ req'[q].replaces # Nobody =>
                    /\ req'[q].replaces \in Port /\ state'[req'[q].replaces] = "over"
                    /\ defs[req'[q].new] >= defs[req'[q].replaces]
    <3>1. q # r /\ req'[q] = req[q]
      BY <1>4, <2>2 DEF Others, Stops
    <3>2. req[q].replaces # Nobody => req[q].replaces \in Port /\ state[req[q].replaces] = "over"
      BY <2>2, <3>1 DEF PortInv, Learned
    <3>3. req[q].replaces # Nobody => state'[req[q].replaces] = "over"
      BY <1>1, <1>3, <3>2
    <3> QED  BY <2>2, <3>1, <3>2, <3>3 DEF PortInv, Learned
  <2> QED  BY <2>1, <2>2 DEF Learned
<1>15. Doing(r)' /\ Informed(r)'
  <2>1. Doing(r) /\ Informed(r) /\ "queues" \in Primes
    BY DEF PortInv, Primes
  <2>2. req[r].op \in Starter =>
          req[r].new \in Port /\ state'[req[r].new] = "new" /\ of[req[r].new] = a
    BY <1>1, <1>3, <2>1 DEF Doing
  <2>3. Doing(r)'
    <3>1. to \in Stops
      OBVIOUS
    <3> QED  BY <1>1, <1>3, <1>4, <2>2, <3>1 DEF Doing, Stops, Starter
  <2>4. Informed(r)'
    <3>1. to \notin Primes
      BY DEF Primes, Stops
    <3>2. ASSUME req[r].op = "reconnect", to = "replaces" PROVE changes'[a] = req[r].seen
      <4>1. req[r].replaces \in Port
        BY <2>1, <3>2 DEF Informed
      <4>2. ports[a] = req[r].replaces /\ (held[req[r].replaces] => req[r].wasHeld)
        BY <3>2, <4>1 DEF MayStart, Nobody, Port
      <4> QED  BY <2>1, <3>2, <4>2 DEF Informed
    <3> QED  BY <1>4, <3>1, <3>2 DEF Informed
  <2> QED  BY <2>3, <2>4
<1>16. ASSUME NEW q \in Request, q # r PROVE Doing(q)' /\ Informed(q)'
  <2>1. req'[q] = req[q] /\ Doing(q) /\ Informed(q) /\ req[q].pc \notin Stops
    BY <1>2, <1>4, <1>16 DEF PortInv, Others
  <2>2. Doing(q)'
    BY <1>1, <1>3, <2>1 DEF Doing
  <2>3. Informed(q)'
    <3> SUFFICES ASSUME req[q].op = "reconnect", req[q].pc \in Primes
                 PROVE  /\ req[q].replaces \in Port
                        /\ state'[req[q].replaces] \in {"runs", "stops", "over"}
                        /\ req[q].wasHeld => held[req[q].replaces]
                        /\ ports'[req[q].alias] = req[q].replaces
                             /\ (held[req[q].replaces] => req[q].wasHeld) =>
                               changes'[req[q].alias] = req[q].seen
      BY <2>1 DEF Informed, Stops
    <3>1. /\ req[q].replaces \in Port /\ state[req[q].replaces] \in {"runs", "stops", "over"}
          /\ req[q].wasHeld => held[req[q].replaces]
          /\ ports[req[q].alias] = req[q].replaces /\ (held[req[q].replaces] => req[q].wasHeld) =>
               changes[req[q].alias] = req[q].seen
      BY <2>1 DEF Informed
    <3>2. req[q].alias \in Alias /\ req[q].replaces # Nobody
      BY <2>1, <3>1 DEF Doing, Nobody, Port
    <3>3. state'[req[q].replaces] \in {"runs", "stops", "over"}
      BY <1>3, <3>1
    <3> QED  BY <1>3, <1>7, <3>1, <3>2, <3>3
  <2> QED  BY <2>2, <2>3
<1> QED
  BY <1>6, <1>8, <1>10, <1>11, <1>12, <1>13, <1>14, <1>15, <1>16 DEF PortInv

-------------------------------------------------------------------------------
(* Every step.                                                               *)

LEMMA InitPortInv ==
  ASSUME Limits, Init
  PROVE  PortInv
<1>1. /\ \A r \in Request : req[r] = Idle
      /\ Idle.op = "none" /\ Idle.pc = "idle" /\ Idle.new = 0 /\ Idle.replaces = 0
      /\ Idle.wasHeld = FALSE /\ Idle.seen = 0 /\ Idle.alias = "none"
  BY DEF Init, Idle
<1>2. Idle \in Asked
  BY DEF Idle, Asked, Limits
<1>3. "idle" \notin Waits /\ "idle" \notin Holding /\ "idle" \notin Stops /\ "idle" \notin Primes
      /\ "none" \notin Starter
  BY DEF Waits, Holding, Stops, Primes, Starter
<1> HIDE DEF Idle, Asked
<1>4. PortTypes
  BY <1>2 DEF PortTypes, Init, Limits, Port, Nobody
<1>5. Turns /\ Owned
  BY <1>1, <1>3 DEF Turns, Owned, Init, Once, Has
<1>6. Room
  <2>1. Attached = {}
    BY DEF Attached, Init
  <2>2. IsFiniteSet(Attached) /\ Cardinality(Attached) = 0
    BY <2>1, FS_EmptySet
  <2> QED  BY <1>1, <2>2 DEF Room, Limits
<1>7. Own
  BY <1>1 DEF Own, Init
<1>8. Tallied
  <2>1. \A a : Resumed(carried, saved, a) = 0
    BY DEF Resumed, Init, ToSet
  <2> QED  BY <1>1, <1>3, <2>1 DEF Tallied, Init, Once
<1>9. Learned
  BY <1>1, <1>3 DEF Learned, Init
<1>10. \A r \in Request : Doing(r) /\ Informed(r)
  BY <1>1, <1>3 DEF Doing, Informed
<1> QED  BY <1>4, <1>5, <1>6, <1>7, <1>8, <1>9, <1>10 DEF PortInv

Ops == {"attach", "reconnect", "detach", "hold", "stop_all"}

LEMMA ClosesAsked ==
  ASSUME NEW i \in Asked, i.new = 0
  PROVE  LET x == [i EXCEPT !.op = "stop_all", !.pc = "drains"]
         IN  x \in Asked /\ x.op = "stop_all" /\ x.pc = "drains" /\ x.new = 0
BY DEF Asked

LEMMA IdleAsked ==
  ASSUME Limits
  PROVE  Idle \in Asked /\ Idle.new = 0
BY DEF Idle, Asked, Limits

(* What a request does as it arrives, and one that leaves empty-handed. *)
LEMMA PlainKeeps ==
  ASSUME Limits, PortInv, NEW r \in Request,
         \/ PrimeFails(r) \/ AttachRefused(r) \/ NoSuchPort(r) \/ HoldEnds(r)
         \/ DrainMissed(r) \/ Drained(r)
  PROVE  PortInv'
<1>1. PortsStay
  BY DEF PrimeFails, AttachRefused, NoSuchPort, HoldEnds, DrainMissed, Drained, Refused, PortsStay,
         portVars, book
<1>2. Doing(r) /\ {"primes", "drains"} \cap Waits = {}
      /\ {"primes", "queues", "holds", "drains"} \cap Stops = {}
  BY DEF PortInv, Waits, Stops
<1>3. CASE PrimeFails(r)
  <2>1. req[r].pc = "primes" /\ Goes(r, "refused") /\ lockQ' = lockQ
    BY <1>3 DEF PrimeFails
  <2> QED  BY <1>1, <1>2, <2>1, LeavingKeeps
<1>4. CASE AttachRefused(r) \/ NoSuchPort(r)
  <2>1. req[r].pc = "queues" /\ Goes(r, "refused") /\ Leaves(r)
    BY <1>4 DEF AttachRefused, NoSuchPort, Refused
  <2> QED  BY <1>1, <1>2, <2>1, LeavingKeeps
<1>5. CASE HoldEnds(r)
  <2>1. req[r].pc = "holds" /\ req[r].op \notin Starter /\ Goes(r, "ok") /\ Leaves(r)
    BY <1>2, <1>5 DEF HoldEnds, Doing, Starter
  <2> QED  BY <1>1, <1>2, <2>1, LeavingKeeps
<1>6. CASE DrainMissed(r)
  <2>1. req[r].pc = "queues" /\ req[r].op = "stop_all" /\ Goes(r, "drains") /\ Leaves(r)
    BY <1>6 DEF DrainMissed
  <2> QED  BY <1>1, <1>2, <2>1, LeavingKeeps
<1>7. CASE Drained(r)
  <2>1. req[r].pc = "drains" /\ req[r].op \notin Starter /\ Goes(r, "ok") /\ lockQ' = lockQ
    BY <1>2, <1>7 DEF Drained, Doing, Starter
  <2> QED  BY <1>1, <1>2, <2>1, LeavingKeeps
<1> QED  BY <1>3, <1>4, <1>5, <1>6, <1>7

LEMMA CancelKeeps ==
  ASSUME Limits, PortInv, NEW r \in Request, Cancelled(r)
  PROVE  PortInv'
<1>1. /\ Goes(r, "refused") /\ Leaves(r)
      /\ UNCHANGED <<ports, of, held, count, defs, made, stored, changes>>
      /\ IF req[r].pc \in Stops
           THEN /\ Carries(req[r].alias, count[req[r].replaces])
                /\ state' = [state EXCEPT ![req[r].replaces] = "over"]
           ELSE UNCHANGED <<carried, saved, high, state>>
  BY DEF Cancelled, book, Stops
<1>2. CASE req[r].pc \in Stops
  BY <1>1, <1>2, EndKeeps
<1>3. CASE req[r].pc \notin Stops
  <2>1. PortsStay
    BY <1>1, <1>3 DEF PortsStay
  <2> QED  BY <1>1, <1>3, <2>1, LeavingKeeps
<1> QED  BY <1>2, <1>3

LEMMA ArrivesKeeps ==
  ASSUME Limits, PortInv, NEW r \in Request,
         \/ \E a \in Alias : \/ \E op \in {"attach", "reconnect"} : AttachBegins(r, op, a)
                             \/ \E op \in {"detach", "hold"} : Asks(r, op, a)
         \/ Closes(r)
  PROVE  PortInv'
<1>1. CASE \E a \in Alias : \E op \in {"attach", "reconnect"} : AttachBegins(r, op, a)
  <2>1. PICK a \in Alias, op \in {"attach", "reconnect"} : AttachBegins(r, op, a)
    BY <1>1
  <2>2. CASE (ports[a] = Nobody /\ Cardinality(Attached) >= MaxPorts) \/ closed
    <3> DEFINE x == [Idle EXCEPT !.op = op, !.alias = a, !.pc = "refused"]
    <3>1. PortsStay /\ req[r].pc = "idle" /\ req' = [req EXCEPT ![r] = x] /\ lockQ' = lockQ
      BY <2>1, <2>2 DEF AttachBegins, Arrives, PortsStay, portVars, book
    <3>2. x \in Asked /\ x.pc = "refused" /\ x.new = 0
      <4>1. op \in Ops /\ "refused" \in Pcs /\ 0 \in Nat
        BY DEF Ops, Pcs
      <4>2. Idle \in Asked /\ Idle.new = 0
        BY IdleAsked
      <4> HIDE DEF Idle
      <4> QED  BY <4>1, <4>2 DEF Asked, Ops, Pcs
    <3> HIDE DEF x
    <3> QED  BY <3>1, <3>2, ArrivalKeeps
  <2>3. CASE ~((ports[a] = Nobody /\ Cardinality(Attached) >= MaxPorts) \/ closed)
    <3>1. made' = made + 1 /\ made \in Nat
      <4>1. made' = made + 1
        BY <2>1, <2>3 DEF AttachBegins
      <4>2. made \in Nat
        BY DEF PortInv, PortTypes, Limits
      <4> QED  BY <4>1, <4>2
    <3>2. made' # made /\ op \in Starter
      BY <3>1 DEF Starter
    <3> QED  BY <2>1, <3>2, BeginKeeps
  <2> QED  BY <2>2, <2>3
<1>2. CASE \E a \in Alias : \E op \in {"detach", "hold"} : Asks(r, op, a)
  <2>1. PICK a \in Alias, op \in {"detach", "hold"} : Asks(r, op, a)
    BY <1>2
  <2> DEFINE x == [Idle EXCEPT !.op = op, !.alias = a, !.pc = "queues", !.seen = changes[a]]
  <2>2. PortsStay /\ req[r].pc = "idle" /\ req' = [req EXCEPT ![r] = x] /\ lockQ' = Append(lockQ, r)
    BY <2>1 DEF Asks, Arrives, PortsStay, portVars, book
  <2>3. changes[a] \in Nat
    BY DEF PortInv, PortTypes
  <2>4. x \in Asked /\ x.pc = "queues" /\ x.new = 0 /\ x.op = op /\ x.alias = a
    <3>1. op \in Ops /\ "queues" \in Pcs
      BY DEF Ops, Pcs, Waits
    <3>2. Idle \in Asked /\ Idle.new = 0
      BY IdleAsked
    <3> HIDE DEF Idle
    <3> QED  BY <2>3, <3>1, <3>2 DEF Asked, Ops, Pcs
  <2> HIDE DEF x
  <2> QED  BY <2>2, <2>4, ArrivalKeeps
<1>3. CASE Closes(r)
  <2> DEFINE x == [Idle EXCEPT !.op = "stop_all", !.pc = "drains"]
  <2>1. PortsStay /\ req[r].pc = "idle" /\ req' = [req EXCEPT ![r] = x] /\ lockQ' = lockQ
    BY <1>3 DEF Closes, Arrives, PortsStay, portVars, book
  <2>2. x \in Asked /\ x.pc = "drains" /\ x.op = "stop_all" /\ x.new = 0
    BY IdleAsked, ClosesAsked
  <2> HIDE DEF x
  <2> QED  BY <2>1, <2>2, ArrivalKeeps
<1> QED  BY <1>1, <1>2, <1>3

(* The steps of a request that has the lock and moves a port. *)
LEMMA MovesKeep ==
  ASSUME Limits, PortInv, NEW r \in Request,
         \/ AttachStarts(r) \/ AttachReplaces(r) \/ ReplaceEnds(r)
         \/ Detaches(r) \/ DetachEnds(r) \/ Holds(r)
  PROVE  PortInv'
<1>1. CASE AttachReplaces(r)
  <2>1. /\ Holder(r) /\ req[r].pc = "queues" /\ req[r].op \in Starter /\ MayStart(r)
        /\ ports[req[r].alias] # Nobody /\ TakesDown(req[r].alias) /\ "replaces" \in Stops
        /\ req' = [req EXCEPT ![r].pc = "replaces", ![r].replaces = ports[req[r].alias]]
        /\ changes' = changes
        /\ UNCHANGED <<lockQ, of, held, count, defs, made, carried, saved, high, stored>>
    BY <1>1 DEF AttachReplaces, Starter, Stops, book
  <2> QED  BY <2>1, TakesDownKeeps
<1>2. CASE Detaches(r)
  <2>1. /\ Holder(r) /\ req[r].pc = "queues" /\ req[r].op \in {"detach", "stop_all"}
        /\ ports[req[r].alias] # Nobody /\ TakesDown(req[r].alias) /\ "detaches" \in Stops
        /\ req' = [req EXCEPT ![r].pc = "detaches", ![r].replaces = ports[req[r].alias]]
        /\ Changed(req[r].alias)
        /\ UNCHANGED <<lockQ, of, held, count, defs, made, carried, saved, high, stored>>
    BY <1>2 DEF Detaches, Stops, book
  <2> QED  BY <2>1, TakesDownKeeps
<1>3. CASE DetachEnds(r)
  <2> DEFINE to == IF req[r].op = "stop_all" THEN "drains" ELSE "ok"
  <2>1. /\ req[r].pc \in Stops /\ Carries(req[r].alias, count[req[r].replaces])
        /\ state' = [state EXCEPT ![req[r].replaces] = "over"] /\ Goes(r, to) /\ Leaves(r)
        /\ UNCHANGED <<ports, of, held, count, defs, made, stored, changes>>
    BY <1>3 DEF DetachEnds, Stops
  <2>2. /\ to \in {"ok", "refused", "drains"} /\ (to = "ok" => req[r].op \notin Starter)
        /\ to = "drains" => req[r].op = "stop_all"
    BY <1>3 DEF DetachEnds, PortInv, Doing, Starter
  <2> HIDE DEF to
  <2> QED  BY <2>1, <2>2, EndKeeps
<1> QED  BY <1>1, <1>2, <1>3, AttachStartsKeeps, ReplaceKeeps, HoldKeeps

LEMMA PortStep ==
  ASSUME Limits, PortInv, [Next]_vars
  PROVE  PortInv'
<1>1. CASE UNCHANGED vars
  <2>1. UNCHANGED <<req, lockQ, ports, state, of, made, held, count, defs, carried, saved, high,
                    stored, changes>>
    BY <1>1 DEF vars, portVars, book
  <2>2. PortTypes' /\ Turns' /\ Owned' /\ Room' /\ Own' /\ Learned'
    BY <2>1 DEF PortInv, PortTypes, Turns, Holder, Owned, Room, Attached, Own, Learned
  <2>3. Tallied'
    <3>1. \A a : (Stopping(a)' <=> Stopping(a)) /\ Resumed(carried, saved, a)' = Resumed(carried, saved, a)
      BY <2>1 DEF Stopping, Resumed
    <3> QED  BY <2>1, <3>1 DEF PortInv, Tallied
  <2>4. \A r \in Request : Doing(r)' /\ Informed(r)'
    BY <2>1 DEF PortInv, Doing, Informed
  <2> QED  BY <2>2, <2>3, <2>4 DEF PortInv
<1>2. CASE \E p \in Port : Receive(p) \/ Define(p)
  BY <1>2, ReceiveKeeps, DefineKeeps
<1>3. ASSUME NEW r \in Request,
             \/ \E a \in Alias : \/ \E op \in {"attach", "reconnect"} : AttachBegins(r, op, a)
                                 \/ \E op \in {"detach", "hold"} : Asks(r, op, a)
             \/ Closes(r)
      PROVE  PortInv'
  BY <1>3, ArrivesKeeps
<1>4. ASSUME NEW r \in Request, NEW a \in Alias, DrainsNext(r, a) PROVE PortInv'
  <2>1. req[r].op = "stop_all"
    BY <1>4 DEF DrainsNext, PortInv, Doing
  <2> QED  BY <1>4, <2>1, DrainsNextKeeps
<1>5. ASSUME NEW r \in Request, PrimeReads(r) \/ AsksForLock(r) PROVE PortInv'
  BY <1>5, PrimeKeeps, AsksForLockKeeps
<1>6. ASSUME NEW r \in Request,
             \/ PrimeFails(r) \/ AttachRefused(r) \/ NoSuchPort(r) \/ HoldEnds(r)
             \/ DrainMissed(r) \/ Drained(r)
      PROVE  PortInv'
  BY <1>6, PlainKeeps
<1>7. ASSUME NEW r \in Request,
             \/ AttachStarts(r) \/ AttachReplaces(r) \/ ReplaceEnds(r)
             \/ Detaches(r) \/ DetachEnds(r) \/ Holds(r)
      PROVE  PortInv'
  BY <1>7, MovesKeep
<1>8. ASSUME NEW r \in Request, Cancelled(r) PROVE PortInv'
  BY <1>8, CancelKeeps
<1> QED  BY <1>1, <1>2, <1>3, <1>4, <1>5, <1>6, <1>7, <1>8 DEF Next

(* Every step of every request, a cancelled one included, keeps what the    *)
(* lock's turns say of the table, of the readers, of the counts and of the  *)
(* definitions.                                                             *)
THEOREM PortsInv ==
  ASSUME Limits
  PROVE  Spec => []PortInv
<1>1. Init => PortInv
  BY InitPortInv
<1>2. PortInv /\ [Next]_vars => PortInv'
  BY PortStep
<1> QED  BY <1>1, <1>2, PTL DEF Spec

-------------------------------------------------------------------------------
(* What follows for the code.                                                *)

(* The requests, the lock's queue, the table and what is carried keep their *)
(* types; the table never has more than MAX_PORTS ports and _carried never  *)
(* more than CARRIED_MAX aliases, whatever attaches while others are taken  *)
(* down.                                                                    *)
THEOREM PortsTyped ==
  ASSUME Limits
  PROVE  Spec => []TypeOK
<1>1. PortInv => TypeOK
  <2> SUFFICES ASSUME PortInv PROVE TypeOK
    OBVIOUS
  <2>1. ASSUME NEW r \in Request
        PROVE  /\ req[r].pc \in {"idle", "primes", "primed", "queues", "replaces", "detaches",
                                 "holds", "drains", "ok", "refused"}
               /\ req[r].op \in {"none", "attach", "reconnect", "detach", "hold", "stop_all"}
    <3>1. req[r] \in Asked
      BY DEF PortInv, PortTypes
    <3> QED  BY <3>1 DEF Asked, Waits
  <2>2. Cardinality({a \in Alias : ports[a] # Nobody}) <= MaxPorts
    BY DEF PortInv, Room, Attached
  <2>3. \A i \in DOMAIN lockQ : lockQ[i] \in Request
    BY DEF PortInv, PortTypes
  <2> QED  BY <2>1, <2>2, <2>3 DEF TypeOK, PortInv, PortTypes
<1> QED  BY <1>1, PortsInv, PTL

(* A reader that runs is the one its alias names, and no other port of the  *)
(* alias starts or stops beside it: attach, reconnect and detach never open *)
(* a device that is still being closed.                                     *)
THEOREM ReadersOwned ==
  ASSUME Limits
  PROVE  Spec => []NoOrphanReader
<1>1. PortInv => NoOrphanReader
  <2> SUFFICES ASSUME PortInv, NEW p \in Port, state[p] = "runs"
               PROVE  /\ ports[of[p]] = p
                      /\ \A o \in Port \ {p} : of[o] = of[p] => state[o] \notin {"runs", "stops"}
    BY DEF NoOrphanReader
  <2>1. of[p] \in Alias /\ ports[of[p]] = p
    BY DEF PortInv, Owned
  <2>2. ASSUME NEW o \in Port \ {p}, of[o] = of[p] PROVE state[o] # "runs"
    BY <2>1, <2>2 DEF PortInv, Owned
  <2>3. ASSUME NEW o \in Port, of[o] = of[p], state[o] = "stops" PROVE FALSE
    <3>1. PICK r \in Request : req[r].pc \in Stops /\ of[o] = req[r].alias
      BY <2>3, OneStops
    <3>2. ports[of[p]] = Nobody
      BY <2>3, <3>1 DEF PortInv, Doing
    <3> QED  BY <2>1, <3>2 DEF Nobody, Port
  <2> QED  BY <2>1, <2>2, <2>3
<1> QED  BY <1>1, PortsInv, PTL

(* The totals and the seq of an alias never go back over detach and attach, *)
(* whether the detach ended or was cancelled at its stop.                   *)
THEOREM CountersKept ==
  ASSUME Limits
  PROVE  Spec => []CountersNeverGoBack
<1>1. PortInv => CountersNeverGoBack
  BY DEF PortInv, Tallied, CountersNeverGoBack
<1> QED  BY <1>1, PortsInv, PTL

(* A port that replaced another knows every definition that one knew, those *)
(* decoded while the new one was primed among them.                         *)
THEOREM DefsKept ==
  ASSUME Limits
  PROVE  Spec => []ReplacementKnowsDefs
<1>1. PortInv => ReplacementKnowsDefs
  BY DEF PortInv, Learned, ReplacementKnowsDefs, Starter
<1> QED  BY <1>1, PortsInv, PTL

(* Only an attach that starts its port, and a detach, hold or stop_all that *)
(* is through, answer "ok".                                                 *)
LEMMA OkBy ==
  ASSUME PortInv, Next, NEW r \in Request, req[r].pc # "ok", req'[r].pc = "ok"
  PROVE  AttachStarts(r) \/ ReplaceEnds(r) \/ DetachEnds(r) \/ HoldEnds(r) \/ Drained(r)
<1>1. req \in [Request -> Asked] /\ \A q \in Request : req[q] \in Asked
  BY DEF PortInv, PortTypes
<1>2. ASSUME NEW q \in Request, NEW x, req' = [req EXCEPT ![q] = x], x.pc # "ok" PROVE FALSE
  BY <1>1, <1>2
<1>3. ASSUME NEW q \in Request, NEW to \in Pcs, to # "ok", Goes(q, to) PROVE FALSE
  <2>1. req' = [req EXCEPT ![q] = [req[q] EXCEPT !.pc = to]] /\ [req[q] EXCEPT !.pc = to].pc = to
    BY <1>1, <1>3, PcOf DEF Goes
  <2> HIDE DEF Asked
  <2> QED  BY <1>2, <1>3, <2>1
<1>4. ASSUME NEW q \in Request, NEW to, req' = [req EXCEPT ![q].pc = to] PROVE q = r
  BY <1>1, <1>4
<1>5. ASSUME NEW p \in Port, Receive(p) \/ Define(p) PROVE FALSE
  BY <1>5 DEF Receive, Define
<1>6. ASSUME NEW q \in Request, NEW a \in Alias, NEW op \in {"attach", "reconnect"},
             AttachBegins(q, op, a)
      PROVE  FALSE
  <2>1. CASE (ports[a] = Nobody /\ Cardinality(Attached) >= MaxPorts) \/ closed
    <3> DEFINE x == [Idle EXCEPT !.op = op, !.alias = a, !.pc = "refused"]
    <3>1. req' = [req EXCEPT ![q] = x]
      BY <1>6, <2>1 DEF AttachBegins
    <3>2. x.pc = "refused"
      BY DEF Idle
    <3> HIDE DEF x
    <3> QED  BY <1>2, <3>1, <3>2
  <2>2. CASE ~((ports[a] = Nobody /\ Cardinality(Attached) >= MaxPorts) \/ closed)
    <3> DEFINE x == [op |-> op, alias |-> a, pc |-> "primes", new |-> made + 1,
                     replaces |-> IF op = "reconnect" THEN ports[a] ELSE Nobody,
                     wasHeld |-> op = "reconnect" /\ held[ports[a]], seen |-> changes[a]]
    <3>1. req' = [req EXCEPT ![q] = x]
      BY <1>6, <2>2 DEF AttachBegins
    <3>2. x.pc = "primes"
      OBVIOUS
    <3> HIDE DEF x
    <3> QED  BY <1>2, <3>1, <3>2
  <2> QED  BY <2>1, <2>2
<1>7. ASSUME NEW q \in Request, NEW a \in Alias, NEW op \in {"detach", "hold"}, Asks(q, op, a)
      PROVE  FALSE
  <2> DEFINE x == [Idle EXCEPT !.op = op, !.alias = a, !.pc = "queues", !.seen = changes[a]]
  <2>1. req' = [req EXCEPT ![q] = x] /\ x.pc = "queues"
    BY <1>7 DEF Asks, Idle
  <2> HIDE DEF x
  <2> QED  BY <1>2, <2>1
<1>8. ASSUME NEW q \in Request, NEW a \in Alias, DrainsNext(q, a) PROVE FALSE
  <2> DEFINE x == [req[q] EXCEPT !.alias = a, !.pc = "queues"]
  <2>1. req' = [req EXCEPT ![q] = x] /\ x.pc = "queues"
    BY <1>1, <1>8 DEF DrainsNext, Asked
  <2> HIDE DEF x
  <2> QED  BY <1>2, <2>1
<1>9. ASSUME NEW q \in Request, AttachReplaces(q) \/ Detaches(q) PROVE FALSE
  <2>1. PICK to \in {"replaces", "detaches"} :
          req' = [req EXCEPT ![q].pc = to, ![q].replaces = ports[req[q].alias]]
    BY <1>9 DEF AttachReplaces, Detaches
  <2> DEFINE x == [req[q] EXCEPT !.pc = to, !.replaces = ports[req[q].alias]]
  <2>2. req' = [req EXCEPT ![q] = x] /\ x.pc = to
    BY <1>1, <2>1 DEF Asked
  <2> HIDE DEF x
  <2> QED  BY <1>2, <2>1, <2>2
<1>10. ASSUME NEW q \in Request, Closes(q) PROVE FALSE
  <2> DEFINE x == [Idle EXCEPT !.op = "stop_all", !.pc = "drains"]
  <2>1. req' = [req EXCEPT ![q] = x] /\ x.pc = "drains"
    BY <1>10 DEF Closes, Idle
  <2> HIDE DEF x
  <2> QED  BY <1>2, <2>1
<1>11. ASSUME NEW q \in Request,
              \/ PrimeReads(q) \/ PrimeFails(q) \/ AsksForLock(q) \/ AttachRefused(q)
              \/ NoSuchPort(q) \/ Holds(q) \/ DrainMissed(q) \/ Cancelled(q)
       PROVE  FALSE
  <2>1. Goes(q, "primed") \/ Goes(q, "refused") \/ Goes(q, "queues") \/ Goes(q, "holds")
          \/ Goes(q, "drains")
    BY <1>11 DEF PrimeReads, PrimeFails, AsksForLock, AttachRefused, Refused, NoSuchPort, Holds,
                 DrainMissed, Cancelled
  <2> QED  BY <1>3, <2>1 DEF Pcs, Waits
<1>12. ASSUME NEW q \in Request,
              AttachStarts(q) \/ ReplaceEnds(q) \/ DetachEnds(q) \/ HoldEnds(q) \/ Drained(q)
       PROVE  q = r
  <2>1. Goes(q, "ok") \/ Goes(q, "drains")
    BY <1>12 DEF AttachStarts, ReplaceEnds, Starts, DetachEnds, HoldEnds, Drained
  <2> QED  BY <1>4, <2>1 DEF Goes
<1> QED
  BY <1>5, <1>6, <1>7, <1>8, <1>9, <1>10, <1>11, <1>12 DEF Next

(* A reconnect that starts its port has undone no detach, no disconnect and *)
(* no other attach: none took effect since it was asked for. Port objects   *)
(* are never made anew under a name that was used, so asking again under    *)
(* the lock whether the alias still has the port the request saw, and no    *)
(* hold it did not see, is enough (PortManager.attach).                     *)
THEOREM NothingUndone ==
  ASSUME Limits
  PROVE  Spec => ReconnectUndoesNothing
<1>1. ASSUME PortInv, [Next]_vars, NEW r \in Request, req[r].op = "reconnect", req[r].pc # "ok",
             req'[r].pc = "ok"
      PROVE  changes[req[r].alias] = req[r].seen
  <2>1. Next
    BY <1>1 DEF vars
  <2>2. Doing(r) /\ Informed(r) /\ "queues" \in Primes
    BY <1>1 DEF PortInv, Primes
  <2>3. CASE AttachStarts(r)
    <3>1. req[r].pc = "queues" /\ MayStart(r) /\ ports[req[r].alias] = Nobody
      BY <2>3 DEF AttachStarts
    <3>2. req[r].replaces \in Port
      BY <1>1, <2>2, <3>1 DEF Informed
    <3> QED  BY <3>1, <3>2 DEF MayStart, Nobody, Port
  <2>4. CASE ReplaceEnds(r)
    BY <1>1, <2>2, <2>4 DEF ReplaceEnds, Informed
  <2>5. CASE DetachEnds(r) \/ HoldEnds(r) \/ Drained(r)
    BY <1>1, <2>2, <2>5 DEF DetachEnds, HoldEnds, Drained, Doing
  <2> QED  BY <1>1, <2>1, <2>3, <2>4, <2>5, OkBy
<1>2. PortInv /\ [Next]_vars =>
        [\A r \in Request :
           req[r].op = "reconnect" /\ req[r].pc # "ok" /\ req'[r].pc = "ok" =>
             changes[req[r].alias] = req[r].seen]_vars
  BY <1>1
<1> QED  BY <1>2, PortsInv, PTL DEF Spec, ReconnectUndoesNothing
===============================================================================
