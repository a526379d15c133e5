------------------------------ MODULE MCDaemonFiles ------------------------------
(***************************************************************************)
(* DaemonFiles on a small instance, and what the run does not tell apart:  *)
(* numbered processes go in their order, and a part that is not at work    *)
(* starts in one of its initial states only.                               *)
(***************************************************************************)
EXTENDS DaemonFiles

\* Two saves in flight in one daemon, and one in another.
TwoWritersSave == {<<"d", "r">>, <<"d", "q">>, <<"e", "r">>}

Disturbances == 1   \* bound: saves of an editor and kills, together

\* Pids, commands and captures are alike: a daemon or a command goes only after the ones
\* before it, and the first daemon's capture is x. Bound: where a daemon crashes, the other
\* one has the same capture.
InOrder ==
  /\ \A p \in L!Daemon \ {1} : pc'[p] # "off" => pc'[p - 1] # "off"
  /\ \A c \in L!Command : c - 1 \in L!Command /\ pc'[c] # "idle" => pc'[c - 1] # "idle"
  /\ pc'[1] # "off" => db'[1] = "x"
  /\ crashes' > 0 => \A p \in L!Daemon : pc'[p] # "off" => db'[p] = "x"

SmallInit == Init /\ (part # "config" => file.storage = "u")

SmallNext == Next /\ InOrder /\ edits' + kills' <= Disturbances

SmallSpec == SmallInit /\ [][SmallNext]_vars
===============================================================================
