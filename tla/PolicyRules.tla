----------------------------- MODULE PolicyRules -----------------------------
(***************************************************************************)
(* What a saved rule means: the ordered rule lists of policy.py, their     *)
(* in-memory form and their YAML form (config.py).                         *)
(*                                                                         *)
(* A target is what one question is about: a (dst, proto, port) flow or a  *)
(* (qtype, qname) DNS question.  A rule's "covers" is the set of targets   *)
(* it matches; CIDRs, port ranges and wildcard names only matter through   *)
(* that set.  The "ip" and the "dns" list of one source are kept as one    *)
(* sequence: a rule of one kind never covers a target of the other, so the *)
(* first match of either list is the first match of the merged one.        *)
(***************************************************************************)
EXTENDS Naturals, Sequences, Dicts

CONSTANTS
    Targets,    \* everything a question can be about
    Hosts,      \* host names a dest_dns rule can be written for
    NoHost      \* marks a rule that is not backed by a host name

ASSUME HostsAssumption == NoHost \notin Hosts

Actions == {"allow", "reject"}

(* "epoch" is a history field that no code reads: the publication of the   *)
(* source's name during which the rule's question was queued.              *)
Rule == [covers : SUBSET Targets, host : Hosts \cup {NoHost},
         action : Actions, epoch : Nat]

\* flow_rule_matches and dns_rule_matches, over the set the rule covers.
RuleMatches(rule, target) == target \in rule.covers

Matches(rules, target) == \E i \in DOMAIN rules : RuleMatches(rules[i], target)

FirstMatch(rules, target) ==
    CHOOSE i \in DOMAIN rules :
        /\ RuleMatches(rules[i], target)
        /\ \A j \in DOMAIN rules : j < i => ~ RuleMatches(rules[j], target)

(* policy.matching_action: the first rule wins, and a source that has no   *)
(* bucket has no saved rule.                                               *)
MatchingAction(RULES, source, target) ==
    IF source \in DOMAIN RULES /\ Matches(RULES[source], target)
    THEN RULES[source][FirstMatch(RULES[source], target)].action
    ELSE "none"

(* The YAML form of a rule: _resolved_dests lives only in memory, so on    *)
(* disk a host-backed rule covers nothing until its name is resolved.      *)
Yaml(rule) == IF rule.host = NoHost THEN rule ELSE [rule EXCEPT !.covers = {}]

(* config.runtime_flow_rule: resolved maps every host to the targets its   *)
(* addresses stand for at load time.                                       *)
Runtime(rule, resolved) ==
    IF rule.host = NoHost THEN rule
    ELSE [rule EXCEPT !.covers = resolved[rule.host]]
=============================================================================
