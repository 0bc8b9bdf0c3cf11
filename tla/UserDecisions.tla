---------------------------- MODULE UserDecisions ----------------------------
(***************************************************************************)
(* What the firewall promises its user, without threads, files, prompts or *)
(* nft tables: a packet that is not known to be allowed becomes a question *)
(* and does not leave; a question is decided once, by the user; decisions  *)
(* are final, except that those about numbered DispVMs are forgotten.      *)
(*                                                                         *)
(* SnitchDaemon implements this specification: see DaemonRefinement.       *)
(***************************************************************************)
EXTENDS Naturals, Sequences

CONSTANTS
    Names,      \* the names VMs are known by
    Numbered,   \* those whose decisions do not last
    Targets,    \* what can be asked and decided
    Packets,    \* the questions a packet raises, one after the other
    None

VARIABLES
    decided,    \* name -> target -> "none", "allow" or "reject"
    open,       \* the questions the user may still answer
    inHand,     \* the packet that waits for its verdict
    verdict     \* the last verdict

vars == << decided, open, inHand, verdict >>

NoPacket == [source |-> None, asks |-> << >>]
Undecided == [t \in Targets |-> "none"]

Init ==
    /\ decided = [n \in Names |-> Undecided]
    /\ open = {}
    /\ inHand = NoPacket
    /\ verdict = "none"

\* A packet arrives, and later is found to come from the VM named n.
Take(asks) ==
    /\ inHand = NoPacket
    /\ inHand' = [NoPacket EXCEPT !.asks = asks]
    /\ verdict' = "none"
    /\ UNCHANGED << decided, open >>

Identify(n) ==
    /\ inHand.source = None
    /\ inHand' = [inHand EXCEPT !.source = n]
    /\ UNCHANGED << decided, open, verdict >>

\* It leaves only if all it asks for is allowed.
Accept ==
    /\ inHand.asks # << >> /\ inHand.source # None
    /\ \A i \in DOMAIN inHand.asks : decided[inHand.source][inHand.asks[i]] = "allow"
    /\ inHand' = NoPacket
    /\ verdict' = "accept"
    /\ UNCHANGED << decided, open >>

\* Otherwise it is dropped, and may leave an undecided question behind.
Refuse ==
    /\ inHand' = NoPacket
    /\ verdict' = "drop"
    /\ \/ UNCHANGED open
       \/ \E i \in DOMAIN inHand.asks :
            /\ decided[inHand.source][inHand.asks[i]] = "none"
            /\ open' = open \cup {<< inHand.source, inHand.asks[i] >>}
    /\ UNCHANGED decided

\* The user's answer to an open question; it changes no earlier decision.
Settle(n, answered, action) ==
    /\ \E t \in answered : << n, t >> \in open
    /\ decided' = [decided EXCEPT ![n] =
                     [t \in Targets |-> IF t \in answered /\ @[t] = "none" THEN action ELSE @[t]]]
    /\ open' = open \ ({n} \X answered)
    /\ UNCHANGED << inHand, verdict >>

\* Questions are withdrawn when nobody can wait for their answer any more.
Withdraw ==
    /\ open' \in SUBSET open
    /\ UNCHANGED << decided, inHand, verdict >>

WithoutDecisions(names) == [n \in Names |-> IF n \in names THEN Undecided ELSE decided[n]]

\* A DispVM is gone and its number free for another one.
Forget(names) ==
    /\ decided' = WithoutDecisions(names)
    /\ open' \in SUBSET open
    /\ UNCHANGED << inHand, verdict >>

\* The firewall stops, for whatever reason: what is durable stays decided.
Stop ==
    /\ decided' = WithoutDecisions(Numbered)
    /\ open' = {}
    /\ inHand' = NoPacket
    /\ verdict' = "none"

Next ==
    \/ \E asks \in Packets : Take(asks)
    \/ \E n \in Names : Identify(n)
    \/ Accept \/ Refuse \/ Withdraw \/ Stop
    \/ \E n \in Names, answered \in SUBSET Targets, action \in {"allow", "reject"} :
         Settle(n, answered, action)
    \/ \E names \in SUBSET Numbered : Forget(names)

Spec == Init /\ [][Next]_vars
=============================================================================
