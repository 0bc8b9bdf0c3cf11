---------------------------- MODULE MCLogBuckets ----------------------------
(* Small instances of LogBuckets. *)
EXTENDS LogBuckets

CONSTANTS k1, ptr, refresh, decision, server, watch

MCAlertKeys == [t \in Threads |-> IF t = "cli" THEN {ptr} ELSE {}]
\* The last handler of each worker thread, and all of them.
MCLastKeys == [t \in Threads |->
    CASE t = "main" -> << >> [] t = "cli" -> << server >> [] t = "watcher" -> << watch >>]
MCFatalKeys == [t \in Threads |->
    CASE t = "main" -> << refresh >>
      [] t = "cli" -> << decision, server >>
      [] t = "watcher" -> << refresh, watch >>]
=============================================================================
