------------------------------ MODULE CaptureLog ------------------------------
(***************************************************************************)
(* What the capture promises to the code that writes lines into it and to  *)
(* the code that watches it (Store in host/mcuscope/store.py), with        *)
(* nothing of the writer task, its queue or its batches:                   *)
(*                                                                         *)
(*   - a stored row keeps its id for good, ids are never handed out twice, *)
(*     and every new row lies above every row stored before it;            *)
(*   - a caller is answered at most once, with a row only after that row   *)
(*     is in the file, with an error only when it is not;                  *)
(*   - the live feed carries stored rows only, each once, in id order.     *)
(*                                                                         *)
(* StoreWriter implements this specification (see CaptureLogPromise).      *)
(***************************************************************************)
EXTENDS Naturals, Sequences

CONSTANTS
  Req,       \* the lines handed to the capture
  Barrier    \* the calls of drain_writes, which wait but store nothing

VARIABLES
  fut,    \* what each caller has been told
  rowId,  \* the id each line is stored under, 0 while it is not
  feed    \* the rows broadcast since the daemon started

vars == <<fut, rowId, feed>>

Ticket == Req \cup Barrier

Init ==
  /\ fut = [t \in Ticket |-> "none"]
  /\ rowId = [r \in Req |-> 0]
  /\ feed = <<>>

(* A caller hands in its request, or is refused on the spot. *)
Asked(t) == fut[t] = "none" /\ fut'[t] \in {"pending", "refused", "row"}

(* A caller stops waiting; its line may still be stored. *)
GaveUp(t) == fut[t] = "pending" /\ fut'[t] \in {"cancelled", "withdrawn"}

(* A line's caller gets its row, which is already stored, or an error, and
   then it is not. A barrier is only ever released. *)
Answered(t) ==
  /\ fut[t] = "pending"
  /\ \/ fut'[t] = "row" /\ (t \in Req => rowId[t] # 0)
     \/ fut'[t] = "error" /\ t \in Req /\ rowId[t] = 0

FeedGrows ==
  /\ Len(feed') >= Len(feed)
  /\ SubSeq(feed', 1, Len(feed)) = feed
  /\ \A i \in Len(feed) + 1 .. Len(feed') :
       /\ rowId[feed'[i]] # 0
       /\ i > 1 => rowId[feed'[i - 1]] < rowId[feed'[i]]

Talk ==
  /\ \A t \in Ticket :
       fut'[t] = fut[t] \/ Asked(t) \/ GaveUp(t) \/ Answered(t)
  /\ FeedGrows
  /\ UNCHANGED rowId

(* A transaction: the rows it adds go above everything stored, no two of
   them under one id, and nobody has been answered for them yet. *)
Store ==
  LET New == {r \in Req : rowId'[r] # rowId[r]} IN
  /\ \A r \in New :
       /\ rowId[r] = 0
       /\ fut[r] \in {"none", "pending", "cancelled"}
       /\ \A s \in Req \ New : rowId[s] < rowId'[r]
       /\ \A s \in New : rowId'[s] = rowId'[r] => s = r
  /\ UNCHANGED <<fut, feed>>

(* The daemon dies or exits: callers still waiting are gone with it, and a
   watcher starts over. The rows stay. *)
Restart ==
  /\ \A t \in Ticket :
       fut'[t] = fut[t] \/ (fut[t] \notin {"none", "row"} /\ fut'[t] = "gone")
  /\ feed' = <<>>
  /\ UNCHANGED rowId

Next == Talk \/ Store \/ Restart

Spec == Init /\ [][Next]_vars
===============================================================================
