--------------------------- MODULE MCCaptureHistory ----------------------------
(***************************************************************************)
(* CaptureHistory on a small instance: a part that is not at work starts   *)
(* in one of its initial states only.                                      *)
(***************************************************************************)
EXTENDS CaptureHistory

SmallInit ==
  /\ Init
  /\ part # "sweeps" => floor = 0
  /\ part # "sessions" => auto

SmallSpec == SmallInit /\ [][Next]_vars
===============================================================================
