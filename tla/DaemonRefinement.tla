--------------------------- MODULE DaemonRefinement ---------------------------
(***************************************************************************)
(* The daemon implements UserDecisions.  A decision is made when os.replace *)
(* puts the new rule file in its place, so decisions are read off the      *)
(* files: memory and the nft table only follow.  Decisions about numbered  *)
(* names count as long as a process serves that was not told to stop; a    *)
(* file that outlives it must not count again.  While append_rule works on *)
(* an answer its question is still open, although no longer pending.       *)
(***************************************************************************)
EXTENDS SnitchDaemon

DecidedNow ==
    [n \in Names |-> [t \in Targets |->
        IF n \in Numbered /\ ~ Serving THEN "none" ELSE MatchingAction(files, n, t)]]

OpenNow ==
    {<< q.source, q.target >> : q \in pending}
    \cup (IF pc["cli"] = "replace" THEN {<< prompt.source, prompt.target >>} ELSE {})

InHandNow == [source |-> packet.source, asks |-> packet.asks]

Promise == INSTANCE UserDecisions WITH
    decided <- DecidedNow, open <- OpenNow, inHand <- InHandNow, verdict <- verdict

(* Whatever its threads, units and failures do, the daemon never accepts a *)
(* packet with a question that is not decided "allow", decides nothing the *)
(* user was not asked, revises no decision and revives none that was       *)
(* forgotten (for instances without host name rules, whose targets change  *)
(* with every resolution).                                                 *)
ImplementsUserDecisions == Promise!Spec
=============================================================================
