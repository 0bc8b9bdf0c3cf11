------------------------------ MODULE NftChains ------------------------------
(***************************************************************************)
(* The forward chain nft.py renders and the kernel evaluates, next to the  *)
(* first match policy.py makes on the same rules.                          *)
(*                                                                         *)
(* A packet has src, dst, proto, sport and dport; its conntrack state and  *)
(* direction are a pair.  An nft rule is a record of the sets it matches   *)
(* and what it does then: accept, reject, queue, or jump to the chain of a *)
(* source.  Rejects are limited: in them the limit of the log line stands  *)
(* before the reject, and a rule stops at a limit that is used up.  A      *)
(* chain is a sequence of blocks, the rules rendered from one policy rule  *)
(* or by one loop.  A policy rule has the set of addresses its dest stands *)
(* for and its ports as an interval, from 0 for port "any".                *)
(***************************************************************************)
EXTENDS Naturals, Sequences, FiniteSets, SequencesExt, PacketParsing

CONSTANTS
    Addrs,       \* addresses of VMs and of others
    MaxPort      \* 65535

ASSUME PortsAssumption == MaxPort \in Nat /\ DnsPort \in 1 .. MaxPort

Ports == 0 .. MaxPort

\* What rules and chains look at in a packet, or in a connection.
HasHeader(p) ==
    /\ p.src \in Addrs /\ p.dst \in Addrs
    /\ p.proto \in Protos
    /\ p.sport \in Ports /\ p.dport \in Ports

CtStates == {"new", "established", "related", "invalid"} \X {"original", "reply"}

AnyPort(rule) == rule.lo = 0

PolicyRule ==
    {rule \in [dests : SUBSET Addrs, proto : {"tcp", "udp", "icmp"}, lo : Ports, hi : Ports,
               action : {"allow", "reject"}] :
       IF AnyPort(rule) THEN rule.hi = MaxPort ELSE rule.proto # "icmp" /\ rule.lo <= rule.hi}

\* flow_rule_matches with port_matches; a packet without ports has port 0.
RuleCovers(rule, p) ==
    /\ rule.proto = p.proto
    /\ p.dst \in rule.dests
    /\ AnyPort(rule) \/ (p.dport # 0 /\ rule.lo <= p.dport /\ p.dport <= rule.hi)

\* matching_action over one source's list.
PolicyAction(rules, p) ==
    LET hits == {i \in DOMAIN rules : RuleCovers(rules[i], p)}
    IN  IF hits = {} THEN "none"
        ELSE rules[First(hits)].action

\* Some rule of the list, the first match or a later one, allows it.
SomeAllow(rules, p) ==
    \E i \in DOMAIN rules : rules[i].action = "allow" /\ RuleCovers(rules[i], p)

\* append_flow_rule: exactly the flow that was asked about.
BrokenExactRule(p, action) ==
    [dests |-> {p.dst}, proto |-> p.proto, lo |-> p.dport, hi |-> MaxPort,
     action |-> IF action = "allow" THEN "accept" ELSE "reject"]
ExactRule(p, action) ==
    [dests |-> {p.dst}, proto |-> p.proto, lo |-> p.dport,
     hi |-> IF p.dport = 0 THEN MaxPort ELSE p.dport, action |-> action]

-------------------------------------------------------------------------------
(* Rendering *)

Anything == [saddr |-> Addrs, daddr |-> Addrs, proto |-> Protos, sport |-> Ports,
        dport |-> Ports, ct |-> CtStates, limited |-> FALSE, do |-> "accept", chain |-> "forward"]

DnsQueue == [Anything EXCEPT !.proto = {"udp"}, !.dport = {DnsPort}, !.do = "queue"]

Verb(rule) == IF rule.action = "allow" THEN "accept" ELSE "reject"

UdpRuleIncludesDns(rule) ==
    rule.proto = "udp" /\ (AnyPort(rule) \/ (rule.lo <= DnsPort /\ DnsPort <= rule.hi))

RenderRule(rule) ==
    LET match == [Anything EXCEPT !.daddr = rule.dests, !.proto = {rule.proto},
                             !.dport = rule.lo .. rule.hi, !.do = Verb(rule),
                             !.limited = rule.action = "reject"]
    IN  IF rule.action = "allow" /\ UdpRuleIncludesDns(rule)
        THEN << [DnsQueue EXCEPT !.daddr = rule.dests] >>
               \o (IF rule.lo = DnsPort /\ rule.hi = DnsPort THEN << >> ELSE << match >>)
        ELSE << match >>

RejectInvalid == [Anything EXCEPT !.ct = {"invalid"} \X {"original", "reply"}, !.do = "reject",
                                  !.limited = TRUE]
QueueAll == [Anything EXCEPT !.do = "queue"]

BrokenSourceChain(rules) ==
    << << RejectInvalid, DnsQueue >> >>
        \o [i \in DOMAIN rules |-> RenderRule(rules[Len(rules) + 1 - i])]
        \o << << QueueAll >> >>
SourceChain(rules) ==
    << << RejectInvalid, DnsQueue >> >>
        \o [i \in DOMAIN rules |-> RenderRule(rules[i])]
        \o << << QueueAll >> >>

BrokenReplies == {"established", "related"} \X {"original", "reply"}
Replies == {"established", "related"} \X {"reply"}

\* render_established_reply_rules: the rule seen from the other end.
ReplyRule(ip, rule) ==
    [Anything EXCEPT !.saddr = rule.dests, !.daddr = {ip}, !.proto = {rule.proto},
                !.sport = rule.lo .. rule.hi, !.ct = Replies, !.do = Verb(rule),
                !.limited = rule.action = "reject"]

BrokenReplyRules(ip, rules) == [i \in DOMAIN rules |-> ReplyRule(ip, rules[Len(rules) + 1 - i])]
ReplyRules(ip, rules) == [i \in DOMAIN rules |-> ReplyRule(ip, rules[i])]

Jump(ip, source) == [Anything EXCEPT !.saddr = {ip}, !.do = "jump", !.chain = source]
DnsJump(ip, source) == [Jump(ip, source) EXCEPT !.proto = {"udp"}, !.dport = {DnsPort}]
ReplyAccept(ip) == [Anything EXCEPT !.daddr = {ip}, !.ct = Replies]

ForwardChain(sources, rules) ==
    LET ips == SetToSeq(DOMAIN sources)
    IN  [i \in DOMAIN ips |-> ReplyRules(ips[i], rules[sources[ips[i]]])]
        \o << [i \in DOMAIN ips |-> DnsJump(ips[i], sources[ips[i]])],
              [i \in DOMAIN ips |-> Jump(ips[i], sources[ips[i]])],
              [i \in DOMAIN ips |-> ReplyAccept(ips[i])],
              << QueueAll >> >>    \* the chain of unknown sources

RenderNft(sources, rules) ==
    [forward |-> ForwardChain(sources, rules),
     chains |-> [n \in {sources[ip] : ip \in DOMAIN sources} |-> SourceChain(rules[n])]]

\* fail-closed.nft, and the table render_fail_closed_nft leaves behind.
FailClosedNft == [forward |-> << << [Anything EXCEPT !.do = "reject"] >> >>, chains |-> << >>]
QueueAllNft == [forward |-> << << RejectInvalid, QueueAll >> >>, chains |-> << >>]

-------------------------------------------------------------------------------
(* The kernel (external): the first rule that matches, in its chain.  With *)
(* "over" the limits are used up, each of a bucket per rule.  A mixture of *)
(* used up and others adds no verdict, as every limited rule rejects.      *)

Hits(nftRule, p, ct, over) ==
    /\ p.src \in nftRule.saddr /\ p.dst \in nftRule.daddr
    /\ p.proto \in nftRule.proto
    /\ p.sport \in nftRule.sport /\ p.dport \in nftRule.dport
    /\ ct \in nftRule.ct
    /\ ~ (nftRule.limited /\ over)

Hit(block, p, ct, over) == {j \in DOMAIN block : Hits(block[j], p, ct, over)}

Evaluate(chain, p, ct, over) ==
    LET block == chain[First({i \in DOMAIN chain : Hit(chain[i], p, ct, over) # {}})]
    IN  block[First(Hit(block, p, ct, over))]

KernelVerdict(table, p, ct, over) ==
    LET rule == Evaluate(table.forward, p, ct, over)
    IN  IF rule.do = "jump" THEN Evaluate(table.chains[rule.chain], p, ct, over).do ELSE rule.do
=============================================================================
