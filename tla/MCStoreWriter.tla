---------------------------- MODULE MCStoreWriter -----------------------------
(***************************************************************************)
(* StoreWriter on small instances: one or two callers, a barrier, a        *)
(* notice, a queue and batches of one to three, one or two runs of the     *)
(* daemon. Each run meets the kinds of trouble its question is about.      *)
(***************************************************************************)
EXTENDS StoreWriter

BatchTrouble ==
  {"badRow", "commitFails", "resyncFails", "foreignLock"}

EndTrouble ==
  {"commitFails", "captureFails", "feedRaises", "stop", "foreignLock",
    "withdraw", "kill"}

AnyTroubleButLocks ==
  {"commitFails", "resyncFails", "badRow", "captureFails",
    "feedRaises", "stop", "kill", "giveUp"}

LiveTrouble ==
  {"badRow", "commitFails", "resyncFails", "foreignLock", "withdraw"}

StrandingTrouble ==
  {"foreignLock", "captureFails"}
===============================================================================
