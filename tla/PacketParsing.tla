---------------------------- MODULE PacketParsing ----------------------------
(***************************************************************************)
(* What packets.py and dns.py read of one queued packet.  A packet carries *)
(* the header fields the parser looks at, with their lengths in bytes, and *)
(* the set of things that are wrong with its DNS message.                  *)
(*                                                                         *)
(* The parser is a list of checks.  Each has an offset, up to which it     *)
(* reads the payload, and the first that finds something ends the parsing. *)
(***************************************************************************)
EXTENDS Naturals, Sequences, FiniteSets

CONSTANTS
    DnsPort,     \* 53
    MaxBody      \* MAX_LIVE_DNS_BODY_BYTES

Protos == {"tcp", "udp", "icmp", "other"}

\* The first of some places in a list.
First(places) == CHOOSE i \in places : \A j \in places : i <= j

Check(bad, why, reads) == [bad |-> bad, why |-> why, reads |-> reads]

HeaderLen(p) == p.ihl * 4

\* parse_packet, in the order of its returns.
BrokenUdpHeader(p) == p.proto = "udp" /\ p.len < HeaderLen(p) + 4
UdpHeaderMissing(p) == p.proto = "udp" /\ p.len < HeaderLen(p) + 8

HeaderChecks(p) ==
    LET hl == HeaderLen(p)
        ported == p.proto \in {"tcp", "udp"}
        Reads(n) == IF ported THEN hl + n ELSE 20
    IN  << Check(p.len < 20, "unparsed", 0),
           Check(p.version # 4, "unparsed", 1),
           Check(hl < 20 \/ hl > p.len, "bad ipv4 header length", 20),
           Check(p.total # p.len, "ipv4 total length mismatch", 20),
           Check(p.reserved, "ipv4 reserved flag set", 20),
           Check(p.fragment, "ipv4 fragments unsupported", 20),
           Check(p.proto = "other", "unsupported ipv4 protocol", 20),
           Check(p.proto = "icmp" /\ p.len < hl + 4, "missing icmp header", 20),
           Check(ported /\ p.len < hl + 4, "missing transport ports", 20),
           Check(UdpHeaderMissing(p), "missing udp header", 20),
           Check(ported /\ p.sport = 0, "tcp/udp source port 0", Reads(4)),
           Check(ported /\ p.dport = 0, "tcp/udp destination port 0", Reads(4)),
           Check(p.proto = "tcp" /\ p.len < hl + 20, "missing tcp header", Reads(4)),
           Check(p.proto = "tcp" /\ (p.doff * 4 < 20 \/ hl + p.doff * 4 > p.total),
                 "bad tcp data offset", Reads(IF p.proto = "tcp" THEN 13 ELSE 4)),
           Check(p.proto = "udp" /\ (p.ulen < 8 \/ hl + p.ulen # p.total),
                 "bad udp length", Reads(IF p.proto = "udp" THEN 6 ELSE 4)),
           \* no check: the body is cut out
           Check(FALSE, "none", IF p.proto = "udp" THEN hl + p.ulen ELSE 20) >>

\* The first check that finds something, or the last when none does.
Stop(checks) == First({i \in DOMAIN checks : checks[i].bad} \cup {Len(checks)})

ParsePacket(p) == LET c == HeaderChecks(p) IN IF c[Stop(c)].bad THEN c[Stop(c)].why ELSE "ok"

\* How far into the payload parse_packet has read when it returns.
ReadsUpTo(p) ==
    LET c == HeaderChecks(p)
    IN  CHOOSE n \in {c[i].reads : i \in 1 .. Stop(c)} : \A i \in 1 .. Stop(c) : c[i].reads <= n

-------------------------------------------------------------------------------
(* add_dns_query_fields: what makes a message no normal client query, in   *)
(* the order of the checks.  Once the single question is known it goes     *)
(* into the request together with the error.                               *)

IsDns(p) == p.proto = "udp" /\ p.dport = DnsPort

MessageErrors ==
    << "empty-body", "oversize-body", "parse-failed", "not-client-query", "non-query-rcode",
       "non-query-opcode", "non-query-flags", "unexpected-sections", "no-question",
       "multi-question" >>

QuestionErrors ==
    << "non-ascii-qname", "unsupported-edns-version", "extended-rcode",
       "unsupported-edns-flags", "unsupported-qclass", "unsupported-aaaa",
       "unsupported-qtype", "unsupported-qname" >>

BrokenDnsErrors == QuestionErrors \o MessageErrors
DnsErrors == MessageErrors \o QuestionErrors

\* The length of the body decides about the first two, whatever it says.
DnsDefects(p) ==
    (IF p.ulen = 8 THEN {"empty-body"} ELSE {})
        \cup (IF p.ulen - 8 > MaxBody THEN {"oversize-body"} ELSE {}) \cup p.defects

DnsError(p) ==
    LET found == {i \in DOMAIN DnsErrors : DnsErrors[i] \in DnsDefects(p)}
    IN  IF found = {} THEN "none" ELSE DnsErrors[First(found)]

Listed(errors) == {errors[i] : i \in DOMAIN errors}

\* handle_dns_domain answers errors that start with "unsupported-".
Refused(error) == error \in Listed(QuestionErrors) \ {"non-ascii-qname", "extended-rcode"}

(* dns_reject_payload parses the body again, make_response refuses a       *)
(* message that is a response, and log_dns_reject prints the question:     *)
(* none of them may fail in the packet callback.                           *)
Answerable(p) ==
    DnsDefects(p) \cap {"empty-body", "oversize-body", "parse-failed", "not-client-query",
                        "no-question", "multi-question"} = {}
=============================================================================
