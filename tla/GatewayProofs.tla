----------------------------- MODULE GatewayProofs -----------------------------
(***************************************************************************)
(* Proofs about Gateway: from the boot on, whatever starts, stops, fails   *)
(* or changes, the kernel's table is one of three, the connections obey    *)
(* the policy, and no packet makes the parser fail.                        *)
(***************************************************************************)
EXTENDS Gateway, NftChainsProofs

Flow == [src : Addrs, dst : Addrs, proto : Protos, sport : Ports, dport : Ports]
Connection == [owner : Names \cup {"unknown"}, replied : BOOLEAN, past : BOOLEAN]
RuleList == Seq(PolicyRule)

PhaseTyped == phase \in {"off", "failed", "pre", "flushed", "up", "dead"}

FlowsTyped == DOMAIN flows \subseteq Flow /\ flows \in [DOMAIN flows -> Connection]

RulesTyped ==
    /\ yaml \in [Names -> RuleList]
    /\ DOMAIN rules \subseteq Names /\ rules \in [DOMAIN rules -> RuleList]
    /\ NamesIn(sources) \subseteq DOMAIN rules

\* The map in force is that of one report of dom0.
SourcesParsed ==
    \/ sources = << >> /\ rows = {}
    \/ \E inventory \in Accepted : sources = ParseSources(inventory) /\ rows = Rows(inventory)

\* The table is rendered from what the daemon knows, or lets nothing pass.
TableLoaded ==
    /\ table \in {FailClosedNft, QueueAllNft, RenderNft(sources, rules)}
    /\ phase \in {"off", "pre", "flushed"} => table = FailClosedNft
    /\ phase = "up" => table = RenderNft(sources, rules)

\* What a list of rules must say of a connection that is open.
Permits(list, f, past) == SomeAllow(list, f) /\ (~ past => PolicyAction(list, f) = "allow")

\* The owner a connection had when it was opened still permits it, as long
\* as the owner's rules are not forgotten.
FlowsAllowed ==
    /\ phase = "flushed" => DOMAIN flows = {}
    /\ phase = "up" => \A f \in DOMAIN flows :
          flows[f].owner \notin Numbered =>
             flows[f].owner \in DOMAIN rules /\ Permits(rules[flows[f].owner], f, flows[f].past)

Inv ==
    /\ PhaseTyped /\ FlowsTyped /\ RulesTyped
    /\ SourcesParsed /\ TableLoaded /\ FlowsAllowed

-------------------------------------------------------------------------------
(* The parser *)

LEMMA ChecksListed ==
  ASSUME NEW p
  PROVE  Len(HeaderChecks(p)) = 16 /\ DOMAIN HeaderChecks(p) = 1 .. 16
BY DEF HeaderChecks

\* The checks before the one where it stops found nothing.
LEMMA Stopped ==
  ASSUME NEW p
  PROVE  LET c == HeaderChecks(p)
             s == Stop(c)
         IN  /\ s \in 1 .. 16
             /\ \A i \in 1 .. 16 : i < s => ~ c[i].bad
             /\ ~ c[s].bad => s = 16
<1> DEFINE c == HeaderChecks(p)
           places == {i \in 1 .. 16 : c[i].bad} \cup {16}
<1>1. Stop(c) = First(places)
  BY ChecksListed DEF Stop
<1>2. places \in SUBSET Nat /\ places # {} /\ places \subseteq 1 .. 16
  OBVIOUS
<1> HIDE DEF places
<1>3. First(places) \in places /\ \A k \in places : First(places) <= k
  BY <1>2, FirstIsLeast
<1>4. First(places) \in 1 .. 16
  BY <1>2, <1>3
<1>5. \A i \in 1 .. 16 : i < First(places) => i \notin places
  BY <1>3, <1>4
<1>6. QED
  BY <1>1, <1>3, <1>4, <1>5 DEF places

LEMMA Parsed ==
  ASSUME NEW p, ParsePacket(p) = "ok"
  PROVE  Stop(HeaderChecks(p)) = 16 /\ \A i \in 1 .. 15 : ~ HeaderChecks(p)[i].bad
<1> DEFINE c == HeaderChecks(p)
           s == Stop(c)
<1>1. s \in 1 .. 16 /\ (\A i \in 1 .. 16 : i < s => ~ c[i].bad) /\ (~ c[s].bad => s = 16)
  BY Stopped
<1>2. \A i \in 1 .. 16 : c[i].why # "ok"
  <2>1. /\ c[1].why # "ok" /\ c[2].why # "ok" /\ c[3].why # "ok" /\ c[4].why # "ok"
        /\ c[5].why # "ok" /\ c[6].why # "ok" /\ c[7].why # "ok" /\ c[8].why # "ok"
    BY DEF HeaderChecks, Check
  <2>2. /\ c[9].why # "ok" /\ c[10].why # "ok" /\ c[11].why # "ok" /\ c[12].why # "ok"
        /\ c[13].why # "ok" /\ c[14].why # "ok" /\ c[15].why # "ok" /\ c[16].why # "ok"
    BY DEF HeaderChecks, Check
  <2>3. QED
    BY <2>1, <2>2
<1>3. ~ c[s].bad
  <2> HIDE DEF c, s
  <2>1. CASE c[s].bad
    <3>1. ParsePacket(p) = c[s].why
      BY <2>1 DEF ParsePacket, c, s
    <3>2. QED
      BY <1>1, <1>2, <3>1
  <2>2. QED
    BY <2>1
<1> HIDE DEF c, s
<1>4. s = 16
  BY <1>1, <1>3
<1>5. \A i \in 1 .. 15 : i < 16 /\ i \in 1 .. 16
  OBVIOUS
<1>6. QED
  BY <1>1, <1>4, <1>5 DEF c, s

LEMMA WellFormedIsNoOther ==
  ASSUME NEW p, ParsePacket(p) = "ok"
  PROVE  p.proto # "other"
<1>1. HeaderChecks(p)[7].bad = (p.proto = "other")
  BY DEF HeaderChecks, Check
<1>2. ~ HeaderChecks(p)[7].bad
  BY Parsed
<1>3. QED
  BY <1>1, <1>2

\* What the checks find out about the lengths, and how far each reads.
LEMMA CheckedLengths ==
  ASSUME NEW p
  PROVE  LET c == HeaderChecks(p)
             hl == HeaderLen(p)
         IN  /\ ~ c[1].bad => ~ (p.len < 20)
             /\ ~ c[3].bad => ~ (hl < 20) /\ ~ (hl > p.len)
             /\ ~ c[4].bad => p.total = p.len
             /\ ~ c[9].bad => (p.proto \in {"tcp", "udp"} => ~ (p.len < hl + 4))
             /\ ~ c[10].bad => (p.proto = "udp" => ~ (p.len < hl + 8))
             /\ ~ c[13].bad => (p.proto = "tcp" => ~ (p.len < hl + 20))
             /\ ~ c[15].bad => (p.proto = "udp" => ~ (p.ulen < 8) /\ hl + p.ulen = p.total)
<1>1. LET c == HeaderChecks(p)
          hl == HeaderLen(p)
      IN  /\ c[1].bad = (p.len < 20)
          /\ c[3].bad = (hl < 20 \/ hl > p.len)
          /\ c[4].bad = (p.total # p.len)
          /\ c[9].bad = (p.proto \in {"tcp", "udp"} /\ p.len < hl + 4)
  BY DEF HeaderChecks, Check
<1>2. LET c == HeaderChecks(p)
          hl == HeaderLen(p)
      IN  /\ c[10].bad = (p.proto = "udp" /\ p.len < hl + 8)
          /\ c[13].bad = (p.proto = "tcp" /\ p.len < hl + 20)
          /\ c[15].bad = (p.proto = "udp" /\ (p.ulen < 8 \/ hl + p.ulen # p.total))
  BY DEF HeaderChecks, Check, UdpHeaderMissing
<1>3. QED
  BY <1>1, <1>2, Zenon

LEMMA CheckedReads ==
  ASSUME NEW p
  PROVE  LET c == HeaderChecks(p)
             hl == HeaderLen(p)
             Reads(n) == IF p.proto \in {"tcp", "udp"} THEN hl + n ELSE 20
         IN  /\ c[1].reads = 0 /\ c[2].reads = 1
             /\ \A i \in 3 .. 10 : c[i].reads = 20
             /\ c[11].reads = Reads(4) /\ c[12].reads = Reads(4) /\ c[13].reads = Reads(4)
             /\ c[14].reads = Reads(IF p.proto = "tcp" THEN 13 ELSE 4)
             /\ c[15].reads = Reads(IF p.proto = "udp" THEN 6 ELSE 4)
             /\ c[16].reads = IF p.proto = "udp" THEN hl + p.ulen ELSE 20
<1>1. LET c == HeaderChecks(p)
      IN  /\ c[1].reads = 0 /\ c[2].reads = 1
          /\ c[3].reads = 20 /\ c[4].reads = 20 /\ c[5].reads = 20 /\ c[6].reads = 20
          /\ c[7].reads = 20 /\ c[8].reads = 20 /\ c[9].reads = 20 /\ c[10].reads = 20
  BY DEF HeaderChecks, Check
<1>2. LET c == HeaderChecks(p)
          hl == HeaderLen(p)
          Reads(n) == IF p.proto \in {"tcp", "udp"} THEN hl + n ELSE 20
      IN  /\ c[11].reads = Reads(4) /\ c[12].reads = Reads(4) /\ c[13].reads = Reads(4)
          /\ c[14].reads = Reads(IF p.proto = "tcp" THEN 13 ELSE 4)
          /\ c[15].reads = Reads(IF p.proto = "udp" THEN 6 ELSE 4)
          /\ c[16].reads = IF p.proto = "udp" THEN hl + p.ulen ELSE 20
  BY DEF HeaderChecks, Check
<1>3. LET c == HeaderChecks(p) IN \A i \in 3 .. 10 : c[i].reads = 20
  <2>1. \A i \in 3 .. 10 : i = 3 \/ i = 4 \/ i = 5 \/ i = 6 \/ i = 7 \/ i = 8 \/ i = 9 \/ i = 10
    OBVIOUS
  <2>2. QED
    BY <1>1, <2>1
<1>4. QED
  BY <1>1, <1>2, <1>3, Zenon

\* A check that is reached reads within the packet.
LEMMA ReadsWithin ==
  ASSUME NEW p, IsPacket(p), NEW i \in 1 .. 16,
         \A k \in 1 .. 16 : k < i => ~ HeaderChecks(p)[k].bad
  PROVE  HeaderChecks(p)[i].reads \in 0 .. p.len
<1> DEFINE c == HeaderChecks(p)
           hl == HeaderLen(p)
<1>1. /\ p.len \in Nat /\ p.total \in Nat /\ p.ulen \in Nat /\ hl \in Nat
  BY DEF IsPacket, HeaderLen
<1>2. /\ c[1].reads = 0 /\ c[2].reads = 1 /\ \A k \in 3 .. 10 : c[k].reads = 20
      /\ p.proto \notin {"tcp", "udp"} => \A k \in 11 .. 16 : c[k].reads = 20
      /\ p.proto = "tcp" => /\ c[11].reads = hl + 4 /\ c[12].reads = hl + 4 /\ c[13].reads = hl + 4
                            /\ c[14].reads = hl + 13 /\ c[15].reads = hl + 4 /\ c[16].reads = 20
      /\ p.proto = "udp" => /\ c[11].reads = hl + 4 /\ c[12].reads = hl + 4 /\ c[13].reads = hl + 4
                            /\ c[14].reads = hl + 4 /\ c[15].reads = hl + 6
                            /\ c[16].reads = hl + p.ulen
  <2>1. \A k \in 11 .. 16 : k = 11 \/ k = 12 \/ k = 13 \/ k = 14 \/ k = 15 \/ k = 16
    OBVIOUS
  <2> HIDE DEF hl
  <2>2. QED
    BY <2>1, CheckedReads DEF hl
<1>3. /\ ~ c[1].bad => ~ (p.len < 20)
      /\ ~ c[4].bad => p.total = p.len
      /\ ~ c[9].bad => (p.proto \in {"tcp", "udp"} => ~ (p.len < hl + 4))
      /\ ~ c[10].bad => (p.proto = "udp" => ~ (p.len < hl + 8))
      /\ ~ c[13].bad => (p.proto = "tcp" => ~ (p.len < hl + 20))
      /\ ~ c[15].bad => (p.proto = "udp" => hl + p.ulen = p.total)
  BY CheckedLengths
<1>4. \A k \in 1 .. 16 : k < i => ~ c[k].bad
  OBVIOUS
<1> HIDE DEF c, hl
<1>5. CASE i \in 1 .. 10
  <2>1. i > 1 => ~ (p.len < 20)
    BY <1>3, <1>4
  <2>2. QED
    BY <1>1, <1>2, <1>5, <2>1 DEF c
<1>6. CASE i \in 11 .. 16
  <2>1. /\ ~ (p.len < 20) /\ p.total = p.len
        /\ p.proto \in {"tcp", "udp"} => ~ (p.len < hl + 4)
        /\ p.proto = "udp" => ~ (p.len < hl + 8)
    BY <1>3, <1>4, <1>6
  <2>2. i > 13 => (p.proto = "tcp" => ~ (p.len < hl + 20))
    BY <1>3, <1>4
  <2>3. i > 15 => (p.proto = "udp" => hl + p.ulen = p.total)
    BY <1>3, <1>4
  <2>4. CASE p.proto \notin {"tcp", "udp"}
    BY <1>1, <1>2, <1>6, <2>1, <2>4 DEF c
  <2>5. CASE p.proto = "tcp"
    BY <1>1, <1>2, <1>6, <2>1, <2>2, <2>5 DEF c
  <2>6. CASE p.proto = "udp"
    BY <1>1, <1>2, <1>6, <2>1, <2>3, <2>6 DEF c
  <2>7. QED
    BY <2>4, <2>5, <2>6
<1>7. QED
  BY <1>5, <1>6

LEMMA GreatestPlace ==
  ASSUME NEW b \in Nat, NEW T \in SUBSET (0 .. b), T # {}
  PROVE  \E m \in T : \A k \in T : k <= m
<1> DEFINE U == {b - k : k \in T}
<1>1. U \in SUBSET Nat /\ U # {}
  <2>1. \A k \in 0 .. b : b - k \in Nat
    OBVIOUS
  <2>2. \A k \in T : b - k \in Nat
    BY <2>1
  <2>3. QED
    BY <2>2
<1>2. PICK u \in U : \A k \in U : u <= k
  BY <1>1, LeastPlace
<1>3. PICK m \in T : u = b - m
  BY <1>2
<1>4. ASSUME NEW k \in T
      PROVE  k <= m
  <2>1. b - k \in U
    OBVIOUS
  <2>2. b - m <= b - k
    BY <1>2, <1>3, <2>1
  <2>3. k \in 0 .. b /\ m \in 0 .. b
    OBVIOUS
  <2>4. QED
    BY <2>2, <2>3
<1>5. QED
  BY <1>4

(* parse_packet reads nothing behind the end of any packet, and a UDP      *)
(* packet it accepts to its end, whatever its headers say.                 *)
LEMMA NothingMisread == Misread = {}
<1> SUFFICES ASSUME NEW p \in Packets
             PROVE  /\ ~ (ReadsUpTo(p) > p.len)
                    /\ p \in WellFormed /\ p.proto = "udp" => ~ (ReadsUpTo(p) < p.len)
  BY DEF Misread
<1> DEFINE c == HeaderChecks(p)
           T == {c[i].reads : i \in 1 .. Stop(c)}
<1>1. IsPacket(p) /\ p.len \in Nat
  BY PacketsAssumption DEF IsPacket
<1>2. Stop(c) \in 1 .. 16 /\ \A i \in 1 .. 16 : i < Stop(c) => ~ c[i].bad
  BY Stopped
<1>3. \A i \in 1 .. Stop(c) : c[i].reads \in 0 .. p.len
  <2> HIDE DEF c
  <2> SUFFICES ASSUME NEW i \in 1 .. Stop(c)
               PROVE  c[i].reads \in 0 .. p.len
    OBVIOUS
  <2>1. i \in 1 .. 16 /\ \A k \in 1 .. 16 : k < i => ~ c[k].bad
    BY <1>2
  <2>2. QED
    BY <1>1, <2>1, ReadsWithin DEF c
<1>4. T \in SUBSET (0 .. p.len) /\ T # {}
  BY <1>2, <1>3
<1>5. ReadsUpTo(p) = CHOOSE n \in T : \A i \in 1 .. Stop(c) : c[i].reads <= n
  BY DEF ReadsUpTo
<1>6. \E n \in T : \A k \in T : k <= n
  <2> HIDE DEF T
  <2>1. QED
    BY <1>1, <1>4, GreatestPlace
<1>7. \E n \in T : \A i \in 1 .. Stop(c) : c[i].reads <= n
  BY <1>6
<1>8. ReadsUpTo(p) \in T /\ \A i \in 1 .. Stop(c) : c[i].reads <= ReadsUpTo(p)
  <2> HIDE DEF T, c
  <2>1. QED
    BY <1>5, <1>7
<1>9. ReadsUpTo(p) \in 0 .. p.len
  BY <1>4, <1>8
<1>10. ASSUME p \in WellFormed, p.proto = "udp"
       PROVE  ReadsUpTo(p) >= p.len
  <2>1. Stop(c) = 16 /\ ~ c[4].bad /\ ~ c[15].bad
    BY <1>10, Parsed DEF WellFormed
  <2>2. HeaderLen(p) + p.ulen = p.total /\ p.total = p.len
    BY <1>10, <2>1, CheckedLengths
  <2>3. c[16].reads = p.len
    BY <1>10, <2>2, CheckedReads
  <2> HIDE DEF c, T
  <2>4. c[16].reads <= ReadsUpTo(p)
    BY <1>8, <2>1
  <2>5. QED
    BY <1>1, <1>9, <2>3, <2>4
<1>11. QED
  BY <1>1, <1>9, <1>10

LEMMA ErrorsListed ==
  /\ DOMAIN DnsErrors = 1 .. 18
  /\ \A i \in 1 .. 10 : DnsErrors[i] = MessageErrors[i]
  /\ DOMAIN MessageErrors = 1 .. 10
<1> DEFINE S == {MessageErrors[i] : i \in 1 .. 10} \cup {QuestionErrors[i] : i \in 1 .. 8}
<1>1. MessageErrors \in Seq(S) /\ Len(MessageErrors) = 10
  <2>1. MessageErrors = [i \in 1 .. 10 |-> MessageErrors[i]] /\ Len(MessageErrors) = 10
    BY DEF MessageErrors
  <2>2. MessageErrors \in [1 .. 10 -> S]
    BY <2>1
  <2>3. QED
    BY <2>1, <2>2, SeqDef
<1>2. QuestionErrors \in Seq(S) /\ Len(QuestionErrors) = 8
  <2>1. QuestionErrors = [i \in 1 .. 8 |-> QuestionErrors[i]] /\ Len(QuestionErrors) = 8
    BY DEF QuestionErrors
  <2>2. QuestionErrors \in [1 .. 8 -> S]
    BY <2>1
  <2>3. QED
    BY <2>1, <2>2, SeqDef
<1> HIDE DEF S
<1>3. /\ DnsErrors \in Seq(S) /\ Len(DnsErrors) = 18
      /\ \A i \in 1 .. 18 : DnsErrors[i] = IF i <= 10 THEN MessageErrors[i] ELSE QuestionErrors[i - 10]
  <2>1. DnsErrors \in Seq(S)
    BY <1>1, <1>2, ConcatProperties, Zenon DEF DnsErrors
  <2>2. Len(DnsErrors) = Len(MessageErrors) + Len(QuestionErrors)
    BY <1>1, <1>2, ConcatProperties, Zenon DEF DnsErrors
  <2>3. \A i \in 1 .. Len(MessageErrors) + Len(QuestionErrors) :
           DnsErrors[i] = IF i <= Len(MessageErrors) THEN MessageErrors[i]
                          ELSE QuestionErrors[i - Len(MessageErrors)]
    BY <1>1, <1>2, ConcatProperties, Zenon DEF DnsErrors
  <2>4. QED
    BY <1>1, <1>2, <2>1, <2>2, <2>3
<1>4. DOMAIN DnsErrors = 1 .. 18 /\ DOMAIN MessageErrors = 1 .. 10
  BY <1>1, <1>3, LenProperties
<1>5. QED
  BY <1>3, <1>4

LEMMA RefusedIsQuestionError ==
  /\ \A i \in 1 .. 10 : ~ Refused(MessageErrors[i])
  /\ ~ Refused("none")
  /\ \A e \in {"empty-body", "oversize-body", "parse-failed", "not-client-query",
               "no-question", "multi-question"} :
        \E i \in 1 .. 10 : MessageErrors[i] = e
<1>1. \A e : Refused(e) => e \in {"unsupported-edns-version", "unsupported-edns-flags",
                "unsupported-qclass", "unsupported-aaaa", "unsupported-qtype", "unsupported-qname"}
  <2>1. DOMAIN QuestionErrors = 1 .. 8
    BY DEF QuestionErrors
  <2>2. \A i \in 1 .. 8 : i = 1 \/ i = 2 \/ i = 3 \/ i = 4 \/ i = 5 \/ i = 6 \/ i = 7 \/ i = 8
    OBVIOUS
  <2>3. Listed(QuestionErrors) \subseteq
          {"non-ascii-qname", "unsupported-edns-version", "extended-rcode", "unsupported-edns-flags",
           "unsupported-qclass", "unsupported-aaaa", "unsupported-qtype", "unsupported-qname"}
    BY <2>1, <2>2 DEF Listed, QuestionErrors
  <2>4. QED
    BY <2>3 DEF Refused
<1>2. /\ MessageErrors[1] = "empty-body" /\ MessageErrors[2] = "oversize-body"
      /\ MessageErrors[3] = "parse-failed" /\ MessageErrors[4] = "not-client-query"
      /\ MessageErrors[5] = "non-query-rcode" /\ MessageErrors[6] = "non-query-opcode"
      /\ MessageErrors[7] = "non-query-flags" /\ MessageErrors[8] = "unexpected-sections"
      /\ MessageErrors[9] = "no-question" /\ MessageErrors[10] = "multi-question"
  BY DEF MessageErrors
<1>3. \A i \in 1 .. 10 : i = 1 \/ i = 2 \/ i = 3 \/ i = 4 \/ i = 5
                         \/ i = 6 \/ i = 7 \/ i = 8 \/ i = 9 \/ i = 10
  OBVIOUS
<1>4. \A i \in 1 .. 10 : ~ Refused(MessageErrors[i])
  BY <1>1, <1>2, <1>3
<1>5. QED
  BY <1>1, <1>2, <1>4

(* A message that is answered with REFUSED has none of the defects that    *)
(* make the answer fail: the checks for those come first.                  *)
LEMMA NothingUnanswerable == Unanswerable = {}
<1> SUFFICES ASSUME NEW p, Refused(DnsError(p)), ~ Answerable(p)
             PROVE  FALSE
  BY DEF Unanswerable
<1> DEFINE found == {i \in DOMAIN DnsErrors : DnsErrors[i] \in DnsDefects(p)}
<1>1. PICK e \in {"empty-body", "oversize-body", "parse-failed", "not-client-query",
                  "no-question", "multi-question"} :
         e \in DnsDefects(p)
  BY DEF Answerable
<1>2. PICK i \in 1 .. 10 : MessageErrors[i] = e
  BY RefusedIsQuestionError
<1>3. i \in found /\ found \in SUBSET Nat
  BY <1>1, <1>2, ErrorsListed
<1> HIDE DEF found
<1>4. First(found) \in found /\ First(found) <= i
  BY <1>3, FirstIsLeast
<1>5. First(found) \in 1 .. 10
  BY <1>4, ErrorsListed DEF found
<1>6. DnsError(p) = MessageErrors[First(found)]
  BY <1>3, <1>5, ErrorsListed DEF DnsError, found
<1>7. QED
  BY <1>5, <1>6, RefusedIsQuestionError

-------------------------------------------------------------------------------
(* Rule lists and headers *)

LEMMA EmptyDict == \A S : DOMAIN << >> = {} /\ << >> \in [{} -> S] /\ << >> \in Seq(S)
<1> SUFFICES ASSUME NEW S
             PROVE  DOMAIN << >> = {} /\ << >> \in [{} -> S] /\ << >> \in Seq(S)
  OBVIOUS
<1>1. << >> \in Seq(S) /\ Len(<< >>) = 0
  OBVIOUS
<1>2. << >> \in [1 .. 0 -> S] /\ DOMAIN << >> = 1 .. 0
  BY <1>1, LenProperties
<1>3. 1 .. 0 = {}
  OBVIOUS
<1>4. QED
  BY <1>1, <1>2, <1>3

\* A rule at the end changes nothing for what was decided before.
LEMMA AppendKeeps ==
  ASSUME NEW list \in RuleList, NEW r \in PolicyRule, NEW p, PolicyAction(list, p) # "none"
  PROVE  PolicyAction(Append(list, r), p) = PolicyAction(list, p)
<1> DEFINE longer == Append(list, r)
           hits == {i \in DOMAIN longer : RuleCovers(longer[i], p)}
<1>1. list \in Seq(PolicyRule) /\ Len(list) \in Nat
  BY LenProperties DEF RuleList
<1>2. /\ DOMAIN longer = 1 .. Len(list) + 1
      /\ \A i \in 1 .. Len(list) : longer[i] = list[i]
  BY <1>1, AppendProperties, LenProperties
<1>3. PICK m \in 1 .. Len(list) :
        /\ RuleCovers(list[m], p)
        /\ \A i \in 1 .. Len(list) : RuleCovers(list[i], p) => m <= i
        /\ PolicyAction(list, p) = list[m].action
  BY <1>1, PolicyDecides
<1> HIDE DEF longer
<1>4. m \in hits /\ hits \in SUBSET Nat
  BY <1>1, <1>2, <1>3
<1>5. \A k \in hits : m <= k
  BY <1>1, <1>2, <1>3
<1>6. First(hits) = m
  BY <1>4, <1>5, FirstIs
<1>7. PolicyAction(longer, p) = longer[m].action
  BY <1>4, <1>6 DEF PolicyAction
<1>8. QED
  BY <1>2, <1>3, <1>7 DEF longer

\* An allow anywhere in the list goes on being there.
LEMMA AppendAllows ==
  ASSUME NEW list \in RuleList, NEW r \in PolicyRule, NEW p, NEW past, Permits(list, p, past)
  PROVE  Permits(Append(list, r), p, past)
<1>1. list \in Seq(PolicyRule) /\ Len(list) \in Nat /\ DOMAIN list = 1 .. Len(list)
  BY LenProperties DEF RuleList
<1>2. /\ DOMAIN Append(list, r) = 1 .. Len(list) + 1
      /\ \A i \in 1 .. Len(list) : Append(list, r)[i] = list[i]
  BY <1>1, AppendProperties, LenProperties
<1>3. SomeAllow(Append(list, r), p)
  <2>1. PICK i \in 1 .. Len(list) : list[i].action = "allow" /\ RuleCovers(list[i], p)
    BY <1>1 DEF Permits, SomeAllow
  <2>2. i \in DOMAIN Append(list, r) /\ Append(list, r)[i] = list[i]
    BY <1>1, <1>2
  <2>3. QED
    BY <2>1, <2>2 DEF SomeAllow
<1>4. QED
  BY <1>3, AppendKeeps DEF Permits

\* A first match that allows is a rule that allows, which is a match.
LEMMA AllowsSome ==
  ASSUME NEW list \in Seq(PolicyRule), NEW p
  PROVE  /\ PolicyAction(list, p) \in {"allow", "reject", "none"}
         /\ PolicyAction(list, p) = "allow" => SomeAllow(list, p)
         /\ SomeAllow(list, p) => PolicyAction(list, p) # "none"
<1>1. DOMAIN list = 1 .. Len(list)
  BY LenProperties
<1>2. QED
  BY <1>1, PolicyDecides DEF SomeAllow

\* A connection and a packet of it are decided alike.
LEMMA FlowDecided ==
  ASSUME NEW p \in Packets
  PROVE  /\ FlowOf(p) \in Flow /\ HasHeader(FlowOf(p)) /\ HasHeader(p)
         /\ FlowOf(p).src = p.src
         /\ IsDns(FlowOf(p)) <=> IsDns(p)
         /\ \A list : /\ PolicyAction(list, FlowOf(p)) = PolicyAction(list, p)
                      /\ SomeAllow(list, FlowOf(p)) <=> SomeAllow(list, p)
<1>1. HasHeader(p)
  BY PacketsAssumption DEF IsPacket
<1>2. \A rule : RuleCovers(rule, FlowOf(p)) <=> RuleCovers(rule, p)
  BY DEF RuleCovers, FlowOf
<1>3. \A list : PolicyAction(list, FlowOf(p)) = PolicyAction(list, p)
  <2> SUFFICES ASSUME NEW list
               PROVE  PolicyAction(list, FlowOf(p)) = PolicyAction(list, p)
    OBVIOUS
  <2>1. {i \in DOMAIN list : RuleCovers(list[i], FlowOf(p))}
          = {i \in DOMAIN list : RuleCovers(list[i], p)}
    BY <1>2
  <2>2. QED
    BY <2>1 DEF PolicyAction
<1>4. \A list : SomeAllow(list, FlowOf(p)) <=> SomeAllow(list, p)
  BY <1>2 DEF SomeAllow
<1>5. QED
  BY <1>1, <1>3, <1>4 DEF Flow, HasHeader, FlowOf, IsDns

\* The rule an answer appends is one that a file may hold.
LEMMA AnswerIsRule ==
  ASSUME NEW p \in Answered, NEW action \in {"allow", "reject"}
  PROVE  p \in Packets /\ ExactRule(p, action) \in PolicyRule
<1>1. p \in Packets /\ IsPacket(p) /\ ParsePacket(p) = "ok"
  BY PacketsAssumption DEF WellFormed
<1>2. p.proto # "other"
  BY <1>1, WellFormedIsNoOther
<1>3. p.proto \in {"tcp", "udp", "icmp"}
  BY <1>1, <1>2 DEF IsPacket, HasHeader, Protos
<1>4. MaxPort \in Nat /\ p.dport \in 0 .. MaxPort
  BY <1>1, PortsAssumption DEF IsPacket, HasHeader, Ports
<1>5. QED
  BY <1>1, <1>3, <1>4 DEF ExactRule, PolicyRule, AnyPort, IsPacket, HasHeader, Ports

-------------------------------------------------------------------------------
(* The source map *)

LEMMA ParsedNames ==
  ASSUME NEW inventory \in Accepted
  PROVE  /\ DOMAIN ParseSources(inventory) = {row.ip : row \in Counted(inventory)}
         /\ IsFiniteSet(DOMAIN ParseSources(inventory))
         /\ NamesIn(ParseSources(inventory)) \subseteq Names
         /\ \A row \in Counted(inventory) : ParseSources(inventory)[row.ip] = PolicyName(row)
<1> DEFINE kept == Counted(inventory)
           map == ParseSources(inventory)
<1>1. inventory \in Inventories /\ ~ ParseRefuses(inventory)
  BY DEF Accepted
<1>2. \A row \in kept : row \in inventory /\ row.ip # NoIP
  BY DEF Counted
<1>3. \A row \in kept : row.ip \in IPs /\ PolicyName(row) \in Names
  BY <1>1, <1>2, InventoriesAssumption
<1>4. \A a, b \in kept : a.ip = b.ip => a = b
  BY <1>1 DEF ParseRefuses
<1> HIDE DEF kept
<1>5. map = [ip \in {row.ip : row \in kept} |-> PolicyName(CHOOSE row \in kept : row.ip = ip)]
  BY DEF ParseSources, kept
<1>6. DOMAIN map = {row.ip : row \in kept}
  BY <1>5
<1>7. \A row \in kept : map[row.ip] = PolicyName(row)
  <2> SUFFICES ASSUME NEW row \in kept
               PROVE  map[row.ip] = PolicyName(row)
    OBVIOUS
  <2>1. (CHOOSE r \in kept : r.ip = row.ip) = row
    BY <1>4
  <2>2. QED
    BY <1>5, <2>1
<1>8. IsFiniteSet({row.ip : row \in kept})
  <2>1. {row.ip : row \in kept} \subseteq IPs
    BY <1>3
  <2>2. QED
    BY <2>1, InventoriesAssumption, FS_Subset
<1>9. NamesIn(map) \subseteq Names
  BY <1>3, <1>6, <1>7 DEF NamesIn
<1>10. QED
  BY <1>6, <1>7, <1>8, <1>9 DEF kept

LEMMA SourcesFinite ==
  ASSUME SourcesParsed
  PROVE  IsFiniteSet(DOMAIN sources)
BY ParsedNames, FS_EmptySet, EmptyDict DEF SourcesParsed

\* A new map: memory keeps its rules, and gets those of new names from files.
LEMMA Published ==
  ASSUME NEW inventory \in Accepted,
         NEW known, DOMAIN known \subseteq Names, known \in [DOMAIN known -> RuleList],
         NEW files \in [Names -> RuleList],
         Publish(inventory, known, files)
  PROVE  /\ RulesTyped' /\ SourcesParsed'
         /\ table' = RenderNft(sources, rules)'
         /\ \A n \in DOMAIN known : n \in DOMAIN rules' /\ rules'[n] = known[n]
<1> DEFINE names == DOMAIN known \cup NamesIn(sources')
<1>1. sources' = ParseSources(inventory) /\ rows' = Rows(inventory) /\ yaml' = files
  BY DEF Publish
<1>2. NamesIn(sources') \subseteq Names
  BY <1>1, ParsedNames
<1>3. rules' = [n \in names |-> IF n \in DOMAIN known THEN known[n] ELSE files[n]]
  BY DEF Publish, Buckets
<1>4. \A n \in names : (IF n \in DOMAIN known THEN known[n] ELSE files[n]) \in RuleList
  BY <1>2
<1>5. rules' \in [names -> RuleList] /\ DOMAIN rules' = names
  BY <1>3, <1>4
<1>6. names \subseteq Names /\ NamesIn(sources') \subseteq names
  BY <1>2
<1>7. \A n \in DOMAIN known : n \in DOMAIN rules' /\ rules'[n] = known[n]
  BY <1>3
<1> HIDE DEF names
<1>8. NamesIn(sources)' = NamesIn(sources')
  BY DEF NamesIn
<1>9. RulesTyped'
  BY <1>1, <1>5, <1>6, <1>8 DEF RulesTyped
<1>10. SourcesParsed'
  BY <1>1 DEF SourcesParsed
<1>11. table' = RenderNft(sources, rules)'
  BY DEF Publish
<1>12. QED
  BY <1>7, <1>9, <1>10, <1>11

-------------------------------------------------------------------------------
(* The kernel's table *)

(* What the table does with a packet of a source or of an unknown address. *)
LEMMA TableDecides ==
  ASSUME RulesTyped, SourcesParsed, TableLoaded,
         NEW p, HasHeader(p), NEW ct \in CtStates, ct[2] = "original", NEW over \in BOOLEAN
  PROVE  \/ /\ phase # "up" /\ table \in {FailClosedNft, QueueAllNft}
            /\ KernelVerdict(table, p, ct, over) \in {"reject", "queue"}
         \/ /\ phase \notin {"off", "pre", "flushed"}
            /\ p.src \notin DOMAIN sources /\ KernelVerdict(table, p, ct, over) = "queue"
         \/ /\ phase \notin {"off", "pre", "flushed"}
            /\ p.src \in DOMAIN sources
            /\ KernelVerdict(table, p, ct, over) =
                 IF ct[1] = "invalid" /\ ~ over THEN "reject"
                 ELSE IF IsDns(p) THEN "queue"
                 ELSE Outcome(rules[sources[p.src]], p, over)
<1>1. CASE table \in {FailClosedNft, QueueAllNft} /\ phase # "up"
  BY <1>1, FailClosedRejects, QueueAllQueues
<1>2. CASE table = RenderNft(sources, rules) /\ phase \notin {"off", "pre", "flushed"}
  <2>1. IsFiniteSet(DOMAIN sources)
    BY SourcesFinite
  <2>2. CASE p.src \in DOMAIN sources
    <3>1. sources[p.src] \in DOMAIN rules
      BY <2>2 DEF RulesTyped, NamesIn
    <3>2. rules[sources[p.src]] \in Seq(PolicyRule)
      BY <3>1 DEF RulesTyped, RuleList
    <3>3. KernelVerdict(table, p, ct, over) = Evaluate(SourceChain(rules[sources[p.src]]), p, ct, over).do
      BY <1>2, <2>1, <2>2, SourcesDecideTheirPackets
    <3>4. QED
      BY <1>2, <2>2, <3>2, <3>3, ChainDecides
  <2>3. CASE p.src \notin DOMAIN sources
    BY <1>2, <2>1, <2>3, SourcesDecideTheirPackets
  <2>4. QED
    BY <2>2, <2>3
<1>3. QED
  BY <1>1, <1>2 DEF TableLoaded

\* A new connection is one some rule of its source allows, in every phase,
\* and the first that matches unless that is a reject over its limit.
LEMMA PassesAllowed ==
  ASSUME RulesTyped, SourcesParsed, TableLoaded,
         NEW p \in Packets, NEW over \in BOOLEAN, Passes(p, << "new", "original" >>, over)
  PROVE  /\ p.src \in DOMAIN sources
         /\ Permits(rules[sources[p.src]], p,
                    KernelVerdict(table, p, << "new", "original" >>, FALSE) = "reject")
         /\ phase \notin {"off", "pre", "flushed"}
<1> DEFINE ct == << "new", "original" >>
           list == rules[sources[p.src]]
<1>1. HasHeader(p)
  BY PacketsAssumption DEF IsPacket
<1>2. ct \in CtStates /\ ct[1] # "invalid" /\ ct[2] = "original"
  BY DEF CtStates
<1>3. CASE MayAccept(p)
  <2>1. p.src \in DOMAIN sources /\ PolicyAction(list, p) = "allow" /\ phase = "up"
    BY <1>3 DEF MayAccept
  <2>2. sources[p.src] \in DOMAIN rules
    BY <2>1 DEF RulesTyped, NamesIn
  <2>3. list \in Seq(PolicyRule)
    BY <2>2 DEF RulesTyped, RuleList
  <2>4. QED
    BY <2>1, <2>3, AllowsSome DEF Permits
<1>4. CASE KernelVerdict(table, p, ct, over) = "accept"
  <2> HIDE DEF ct
  <2>1. /\ phase \notin {"off", "pre", "flushed"}
        /\ p.src \in DOMAIN sources
        /\ ~ IsDns(p)
        /\ Outcome(list, p, over) = "accept"
    BY <1>1, <1>2, <1>4, TableDecides
  <2>2. KernelVerdict(table, p, ct, FALSE) = Outcome(list, p, FALSE)
    <3>1. table \notin {FailClosedNft, QueueAllNft}
      BY <1>1, <1>2, <1>4, FailClosedRejects, QueueAllQueues
    <3>2. QED
      BY <1>1, <1>2, <2>1, <3>1, TableDecides
  <2>3. list \in Seq(PolicyRule)
    <3>1. sources[p.src] \in DOMAIN rules
      BY <2>1 DEF RulesTyped, NamesIn
    <3>2. QED
      BY <3>1 DEF RulesTyped, RuleList
  <2> HIDE DEF list
  <2>4. PolicyAction(list, p) # "allow" => Outcome(list, p, FALSE) = "reject"
    BY <2>1, <2>3, AllowsSome DEF Outcome
  <2>5. SomeAllow(list, p)
    BY <2>1, <2>3, AllowsSome DEF Outcome
  <2>6. QED
    BY <2>1, <2>2, <2>4, <2>5 DEF Permits, list, ct
<1>5. QED
  BY <1>3, <1>4 DEF Passes, ct

-------------------------------------------------------------------------------
(* The invariant *)

LEMMA InitInv == Init => Inv
<1> SUFFICES ASSUME Init
             PROVE  Inv
  OBVIOUS
<1> USE DEF Init
<1>1. FlowsTyped
  BY EmptyDict DEF FlowsTyped
<1>2. RulesTyped
  <2>1. yaml \in [Names -> RuleList]
    BY EmptyDict DEF RuleList
  <2>2. NamesIn(sources) = {}
    BY EmptyDict DEF NamesIn
  <2>3. QED
    BY <2>1, <2>2, EmptyDict DEF RulesTyped
<1>3. PhaseTyped /\ SourcesParsed /\ TableLoaded /\ FlowsAllowed
  BY DEF PhaseTyped, SourcesParsed, TableLoaded, FlowsAllowed
<1>4. QED
  BY <1>1, <1>2, <1>3 DEF Inv

LEMMA CleanedOfTyped ==
  ASSUME NEW files \in [Names -> RuleList]
  PROVE  CleanedOf(files) \in [Names -> RuleList]
BY EmptyDict DEF CleanedOf, RuleList

LEMMA CleanedTyped ==
  ASSUME RulesTyped
  PROVE  Cleaned \in [Names -> RuleList]
BY CleanedOfTyped DEF RulesTyped, Cleaned

LEMMA FilesWithoutTyped ==
  ASSUME RulesTyped, NEW gone
  PROVE  FilesWithout(gone) \in [Names -> RuleList]
BY EmptyDict DEF RulesTyped, FilesWithout, RuleList

\* An answer changes the list of one name, in the files as in memory.
LEMMA WithAnswerTyped ==
  ASSUME RulesTyped, NEW p \in Answered, NEW action \in {"allow", "reject"}, Asks(p),
         NEW dict, DOMAIN dict \subseteq Names, NamesIn(sources) \subseteq DOMAIN dict,
         dict \in [DOMAIN dict -> RuleList]
  PROVE  LET n == sources[p.src]
             new == WithAnswer(dict, p, action)
         IN  /\ n \in DOMAIN dict /\ ExactRule(p, action) \in PolicyRule
             /\ DOMAIN new = DOMAIN dict /\ new \in [DOMAIN dict -> RuleList]
             /\ new[n] = Append(dict[n], ExactRule(p, action))
             /\ \A m \in DOMAIN dict : m # n => new[m] = dict[m]
<1> DEFINE n == sources[p.src]
           r == ExactRule(p, action)
           new == WithAnswer(dict, p, action)
<1>1. r \in PolicyRule
  BY AnswerIsRule
<1>2. n \in DOMAIN dict
  BY DEF Asks, NamesIn
<1>3. new = [dict EXCEPT ![n] = Append(@, r)]
  BY DEF WithAnswer
<1> HIDE DEF n, r, new
<1>4. \A list \in RuleList : Append(list, r) \in RuleList
  BY <1>1, AppendProperties DEF RuleList
<1>5. /\ DOMAIN new = DOMAIN dict /\ new \in [DOMAIN dict -> RuleList]
      /\ new[n] = Append(dict[n], r)
      /\ \A m \in DOMAIN dict : m # n => new[m] = dict[m]
  BY <1>2, <1>3, <1>4
<1>6. QED
  BY <1>1, <1>2, <1>5 DEF n, r, new

LEMMA HalfDoneTyped ==
  ASSUME RulesTyped, NEW files \in HalfDone
  PROVE  files \in [Names -> RuleList]
<1>1. CASE files \in {FilesWithout(Gone(ParseSources(inventory))) : inventory \in Accepted}
  BY <1>1, FilesWithoutTyped
<1>2. ASSUME NEW p \in Answered, NEW action \in {"allow", "reject"}, Asks(p),
             files = WithAnswer(yaml, p, action)
      PROVE  files \in [Names -> RuleList]
  <2>1. DOMAIN yaml = Names /\ yaml \in [DOMAIN yaml -> RuleList] /\ NamesIn(sources) \subseteq Names
    BY DEF RulesTyped
  <2>2. QED
    BY <1>2, <2>1, WithAnswerTyped
<1>3. QED
  BY <1>1, <1>2 DEF HalfDone

\* Where memory stays as it is, so does what is said of it and the table.
LEMMA SameMemory ==
  ASSUME Inv, UNCHANGED memory, yaml' \in [Names -> RuleList]
  PROVE  RulesTyped' /\ SourcesParsed'
<1>1. NamesIn(sources)' = NamesIn(sources)
  BY DEF memory, NamesIn
<1>2. QED
  BY <1>1 DEF Inv, RulesTyped, SourcesParsed, memory

LEMMA UnitSteps ==
  ASSUME Inv, Start \/ Flush \/ StartFails \/ Die \/ ReloadFails \/ StopPost
  PROVE  Inv'
<1> USE DEF Inv
<1>1. CASE Start
  <2> USE <1>1 DEF Start
  <2>1. RulesTyped' /\ SourcesParsed'
    <3>1. NamesIn(sources)' = {}
      BY EmptyDict DEF NamesIn
    <3>2. QED
      BY <3>1, EmptyDict DEF RulesTyped, SourcesParsed
  <2>2. PhaseTyped' /\ FlowsTyped' /\ TableLoaded' /\ FlowsAllowed'
    BY DEF PhaseTyped, FlowsTyped, TableLoaded, FlowsAllowed
  <2>3. QED
    BY <2>1, <2>2
<1>2. CASE Flush
  <2> USE <1>2 DEF Flush
  <2>1. RulesTyped' /\ SourcesParsed'
    BY SameMemory DEF RulesTyped
  <2>2. FlowsTyped' /\ FlowsAllowed'
    BY EmptyDict DEF FlowsTyped, FlowsAllowed, Flushed
  <2>3. PhaseTyped' /\ TableLoaded'
    BY DEF PhaseTyped, TableLoaded, memory
  <2>4. QED
    BY <2>1, <2>2, <2>3
<1>3. CASE StartFails
  <2> USE <1>3 DEF StartFails
  <2>1. yaml' \in [Names -> RuleList]
    BY CleanedTyped DEF RulesTyped
  <2>2. RulesTyped' /\ SourcesParsed'
    BY <2>1, SameMemory
  <2>3. PhaseTyped' /\ FlowsTyped' /\ TableLoaded' /\ FlowsAllowed'
    BY DEF PhaseTyped, FlowsTyped, TableLoaded, FlowsAllowed, memory, LoadFailed
  <2>4. QED
    BY <2>2, <2>3
<1>4. CASE Die
  <2> USE <1>4 DEF Die
  <2>1. yaml' \in [Names -> RuleList]
    BY CleanedTyped DEF RulesTyped
  <2>2. RulesTyped' /\ SourcesParsed'
    BY <2>1, SameMemory
  <2>3. PhaseTyped' /\ FlowsTyped' /\ TableLoaded' /\ FlowsAllowed'
    BY DEF PhaseTyped, FlowsTyped, TableLoaded, FlowsAllowed, memory
  <2>4. QED
    BY <2>2, <2>3
<1>5. CASE ReloadFails
  <2> USE <1>5 DEF ReloadFails
  <2>1. yaml' \in [Names -> RuleList]
    BY HalfDoneTyped, CleanedOfTyped
  <2>2. RulesTyped' /\ SourcesParsed'
    BY <2>1, SameMemory
  <2>3. PhaseTyped' /\ FlowsTyped' /\ TableLoaded' /\ FlowsAllowed'
    BY DEF PhaseTyped, FlowsTyped, TableLoaded, FlowsAllowed, memory, LoadFailed
  <2>4. QED
    BY <2>2, <2>3
<1>6. CASE StopPost
  <2> USE <1>6 DEF StopPost
  <2>1. RulesTyped' /\ SourcesParsed'
    BY SameMemory DEF RulesTyped
  <2>2. PhaseTyped' /\ FlowsTyped' /\ TableLoaded' /\ FlowsAllowed'
    BY DEF PhaseTyped, FlowsTyped, TableLoaded, FlowsAllowed, memory
  <2>3. QED
    BY <2>1, <2>2
<1>7. QED
  BY <1>1, <1>2, <1>3, <1>4, <1>5, <1>6

LEMMA PolicySteps ==
  ASSUME Inv,
         \/ \E inventory \in Accepted : Load(inventory) \/ Refresh(inventory)
         \/ \E p \in Answered, action \in {"allow", "reject"} : Answer(p, action)
         \/ \E n \in DOMAIN RuleFiles : EditFile(n)
  PROVE  Inv'
<1> USE DEF Inv
<1>1. ASSUME NEW inventory \in Accepted, Load(inventory)
      PROVE  Inv'
  <2> DEFINE files == Cleaned
             known == [n \in {m \in Names : files[m] # << >>} |-> files[n]]
  <2>1. files \in [Names -> RuleList]
    BY CleanedTyped
  <2>2. DOMAIN known \subseteq Names /\ known \in [DOMAIN known -> RuleList]
    <3> HIDE DEF files
    <3>1. QED
      BY <2>1
  <2>3. phase = "flushed" /\ phase' = "up" /\ flows' = flows /\ Publish(inventory, known, files)
    BY <1>1 DEF Load
  <2> HIDE DEF known, files
  <2>4. RulesTyped' /\ SourcesParsed' /\ table' = RenderNft(sources, rules)'
    BY <2>1, <2>2, <2>3, Published
  <2>5. PhaseTyped' /\ FlowsTyped' /\ TableLoaded' /\ FlowsAllowed'
    BY <2>3, <2>4 DEF PhaseTyped, FlowsTyped, TableLoaded, FlowsAllowed
  <2>6. QED
    BY <2>4, <2>5
<1>2. ASSUME NEW inventory \in Accepted, Refresh(inventory)
      PROVE  Inv'
  <2> DEFINE gone == Gone(ParseSources(inventory))
             known == Drop(rules, gone)
             files == FilesWithout(gone)
  <2>1. phase = "up" /\ phase' = phase /\ flows' = flows /\ Publish(inventory, known, files)
    BY <1>2 DEF Refresh
  <2>2. gone \subseteq Numbered
    BY DEF Gone
  <2> HIDE DEF gone
  <2>3. files \in [Names -> RuleList]
    BY FilesWithoutTyped
  <2>4. /\ DOMAIN known = DOMAIN rules \ gone /\ DOMAIN known \subseteq Names
        /\ known \in [DOMAIN known -> RuleList]
        /\ \A n \in DOMAIN known : known[n] = rules[n]
    BY DEF RulesTyped, Drop
  <2> HIDE DEF known, files
  <2>5. /\ RulesTyped' /\ SourcesParsed' /\ table' = RenderNft(sources, rules)'
        /\ \A n \in DOMAIN known : n \in DOMAIN rules' /\ rules'[n] = known[n]
    BY <2>1, <2>3, <2>4, Published
  <2>6. FlowsAllowed'
    BY <2>1, <2>2, <2>4, <2>5 DEF FlowsAllowed
  <2>7. PhaseTyped' /\ FlowsTyped' /\ TableLoaded'
    BY <2>1, <2>5 DEF PhaseTyped, FlowsTyped, TableLoaded
  <2>8. QED
    BY <2>5, <2>6, <2>7
<1>3. ASSUME NEW p \in Answered, NEW action \in {"allow", "reject"}, Answer(p, action)
      PROVE  Inv'
  <2> DEFINE n == sources[p.src]
             r == ExactRule(p, action)
  <2>1. /\ phase = "up" /\ phase' = phase /\ flows' = flows
        /\ sources' = sources /\ rows' = rows
        /\ p.src \in DOMAIN sources
        /\ Asks(p)
        /\ rules' = WithAnswer(rules, p, action)
        /\ yaml' = WithAnswer(yaml, p, action)
        /\ table' = RenderNft(sources, rules')
    BY <1>3 DEF Answer, Asks
  <2>2. r \in PolicyRule
    BY AnswerIsRule
  <2>3. /\ n \in DOMAIN rules
        /\ rules' \in [DOMAIN rules -> RuleList] /\ DOMAIN rules' = DOMAIN rules
        /\ rules'[n] = Append(rules[n], r)
        /\ \A m \in DOMAIN rules : m # n => rules'[m] = rules[m]
    <3>1. /\ DOMAIN rules \subseteq Names /\ NamesIn(sources) \subseteq DOMAIN rules
          /\ rules \in [DOMAIN rules -> RuleList]
      BY DEF RulesTyped
    <3>2. QED
      BY <2>1, <3>1, WithAnswerTyped
  <2>4. yaml' \in [Names -> RuleList]
    <3>1. DOMAIN yaml = Names /\ yaml \in [DOMAIN yaml -> RuleList] /\ NamesIn(sources) \subseteq Names
      BY DEF RulesTyped
    <3>2. QED
      BY <2>1, <3>1, WithAnswerTyped
  <2> HIDE DEF n, r
  <2>5. NamesIn(sources)' = NamesIn(sources)
    BY <2>1 DEF NamesIn
  <2>6. RulesTyped' /\ SourcesParsed'
    BY <2>1, <2>3, <2>4, <2>5 DEF RulesTyped, SourcesParsed
  <2>7. FlowsAllowed'
    <3> SUFFICES ASSUME NEW f \in DOMAIN flows, flows[f].owner \notin Numbered
                 PROVE  LET owner == flows[f].owner
                        IN  owner \in DOMAIN rules' /\ Permits(rules'[owner], f, flows[f].past)
      BY <2>1 DEF FlowsAllowed
    <3> DEFINE owner == flows[f].owner
    <3>1. owner \in DOMAIN rules /\ Permits(rules[owner], f, flows[f].past)
      BY <2>1 DEF FlowsAllowed
    <3>2. rules[owner] \in RuleList
      BY <3>1 DEF RulesTyped
    <3> HIDE DEF owner
    <3>3. CASE owner = n
      <4>1. Permits(Append(rules[owner], r), f, flows[f].past)
        BY <2>2, <3>1, <3>2, AppendAllows
      <4>2. QED
        BY <2>3, <3>1, <3>3, <4>1 DEF owner
    <3>4. CASE owner # n
      BY <2>3, <3>1, <3>4 DEF owner
    <3>5. QED
      BY <3>3, <3>4
  <2>8. PhaseTyped' /\ FlowsTyped' /\ TableLoaded'
    BY <2>1 DEF PhaseTyped, FlowsTyped, TableLoaded
  <2>9. QED
    BY <2>6, <2>7, <2>8
<1>4. ASSUME NEW n \in DOMAIN RuleFiles, EditFile(n)
      PROVE  Inv'
  <2>1. PICK file \in RuleFiles[n] : yaml' = [yaml EXCEPT ![n] = file]
    BY <1>4 DEF EditFile
  <2>2. n \in Names /\ file \in RuleList
    BY FilesAssumption DEF RuleList
  <2>3. yaml' \in [Names -> RuleList]
    BY <2>1, <2>2 DEF RulesTyped
  <2>4. UNCHANGED << phase, table, flows, memory >>
    BY <1>4 DEF EditFile
  <2>5. RulesTyped' /\ SourcesParsed'
    BY <2>3, <2>4, SameMemory
  <2>6. PhaseTyped' /\ FlowsTyped' /\ TableLoaded' /\ FlowsAllowed'
    BY <2>4 DEF PhaseTyped, FlowsTyped, TableLoaded, FlowsAllowed, memory
  <2>7. QED
    BY <2>5, <2>6
<1>5. QED
  BY <1>1, <1>2, <1>3, <1>4

LEMMA PacketSteps ==
  ASSUME Inv,
         \/ \E p \in Packets, over \in BOOLEAN : Open(p, over) \/ Reply(p, over)
         \/ \E f \in DOMAIN flows : Expire(f)
  PROVE  Inv'
<1> USE DEF Inv
<1>1. ASSUME UNCHANGED << phase, table, yaml, memory >>
      PROVE  PhaseTyped' /\ RulesTyped' /\ SourcesParsed' /\ TableLoaded'
  <2>1. RulesTyped' /\ SourcesParsed'
    BY <1>1, SameMemory DEF RulesTyped
  <2>2. QED
    BY <1>1, <2>1 DEF PhaseTyped, TableLoaded, memory
<1>2. ASSUME NEW p \in Packets, NEW over \in BOOLEAN, Open(p, over)
      PROVE  Inv'
  <2> DEFINE f == FlowOf(p)
             past == KernelVerdict(table, p, << "new", "original" >>, FALSE) = "reject"
             c == [owner |-> sources[p.src], replied |-> FALSE, past |-> past]
  <2>1. UNCHANGED << phase, table, yaml, memory >> /\ Passes(p, << "new", "original" >>, over)
    BY <1>2 DEF Open
  <2>2. /\ p.src \in DOMAIN sources
        /\ Permits(rules[sources[p.src]], p, past)
        /\ phase \notin {"off", "pre", "flushed"}
    BY <2>1, PassesAllowed
  <2>3. flows' = Put(flows, f, c)
    BY <1>2, <2>2 DEF Open
  <2>4. f \in Flow /\ Permits(rules[sources[p.src]], f, past)
    BY <2>2, FlowDecided DEF Permits
  <2>5. sources[p.src] \in DOMAIN rules
    BY <2>2 DEF RulesTyped, NamesIn
  <2>6. c \in Connection
    BY <2>5 DEF RulesTyped, Connection
  <2>7. /\ DOMAIN flows' = DOMAIN flows \cup {f} /\ flows'[f] = c
        /\ \A g \in DOMAIN flows : g # f => flows'[g] = flows[g]
        /\ flows' = [g \in DOMAIN flows' |-> flows'[g]]
    BY <2>3 DEF Put
  <2>8. c.owner = sources[p.src] /\ c.past = past
    OBVIOUS
  <2> HIDE DEF f, c
  <2>9. FlowsTyped'
    BY <2>4, <2>6, <2>7 DEF FlowsTyped
  <2>10. FlowsAllowed'
    BY <2>1, <2>2, <2>4, <2>5, <2>7, <2>8 DEF FlowsAllowed, memory
  <2>11. QED
    BY <1>1, <2>1, <2>9, <2>10
<1>3. ASSUME NEW p \in Packets, NEW over \in BOOLEAN, Reply(p, over)
      PROVE  Inv'
  <2> DEFINE f == Back(FlowOf(p))
  <2>1. /\ f \in DOMAIN flows /\ flows' = [flows EXCEPT ![f].replied = TRUE]
        /\ UNCHANGED << phase, table, yaml, memory >>
    BY <1>3 DEF Reply
  <2> HIDE DEF f
  <2>2. \A g \in DOMAIN flows : flows[g] \in Connection
    BY DEF FlowsTyped
  <2>3. [flows[f] EXCEPT !.replied = TRUE] \in Connection
        /\ [flows[f] EXCEPT !.replied = TRUE].owner = flows[f].owner
        /\ [flows[f] EXCEPT !.replied = TRUE].past = flows[f].past
    BY <2>1, <2>2 DEF Connection
  <2>4. /\ DOMAIN flows' = DOMAIN flows /\ flows' \in [DOMAIN flows -> Connection]
        /\ \A g \in DOMAIN flows : flows'[g].owner = flows[g].owner /\ flows'[g].past = flows[g].past
    BY <2>1, <2>3 DEF FlowsTyped
  <2>5. FlowsTyped' /\ FlowsAllowed'
    BY <2>1, <2>4 DEF FlowsTyped, FlowsAllowed, memory
  <2>6. QED
    BY <1>1, <2>1, <2>5
<1>4. ASSUME NEW f \in DOMAIN flows, Expire(f)
      PROVE  Inv'
  <2>1. flows' = Drop(flows, {f}) /\ UNCHANGED << phase, table, yaml, memory >>
    BY <1>4 DEF Expire
  <2>2. /\ DOMAIN flows' \subseteq DOMAIN flows
        /\ flows' = [g \in DOMAIN flows' |-> flows[g]]
    BY <2>1 DEF Drop
  <2>3. FlowsTyped' /\ FlowsAllowed'
    BY <2>1, <2>2 DEF FlowsTyped, FlowsAllowed, memory
  <2>4. QED
    BY <1>1, <2>1, <2>3
<1>5. QED
  BY <1>2, <1>3, <1>4

LEMMA NextInv == Inv /\ [Next]_vars => Inv'
<1>1. ASSUME Inv, UNCHANGED vars
      PROVE  Inv'
  <2>1. RulesTyped' /\ SourcesParsed'
    BY <1>1, SameMemory DEF Inv, RulesTyped, vars, memory
  <2>2. QED
    BY <1>1, <2>1 DEF Inv, PhaseTyped, FlowsTyped, TableLoaded, FlowsAllowed, vars
<1>2. QED
  BY <1>1, UnitSteps, PolicySteps, PacketSteps DEF Next

(* From the boot on: the kernel's table is fail-closed, queues everything, *)
(* or is rendered from memory, and in front of a running daemon it is the  *)
(* last; memory and files hold rule lists, the source map is that of one   *)
(* report, and the connections of durable sources are allowed by memory.   *)
THEOREM AlwaysInv == Spec => []Inv
BY InitInv, NextInv, PTL DEF Spec

-------------------------------------------------------------------------------
(* The properties *)

(* The state has its shape, and memory knows a bucket for every source.    *)
THEOREM AlwaysTyped == Spec => []TypeOK
<1>1. ASSUME Inv
      PROVE  TypeOK
  <2>1. \A f \in DOMAIN flows : /\ flows[f].owner \in Names \cup {"unknown"}
                                /\ flows[f].replied \in BOOLEAN /\ flows[f].past \in BOOLEAN
    BY <1>1 DEF Inv, FlowsTyped, Connection
  <2>2. \A n \in DOMAIN rules : \A i \in DOMAIN rules[n] : rules[n][i] \in PolicyRule
    <3>1. \A list \in Seq(PolicyRule) : \A i \in DOMAIN list : list[i] \in PolicyRule
      BY LenProperties
    <3>2. QED
      BY <1>1, <3>1 DEF Inv, RulesTyped, RuleList
  <2>3. QED
    BY <1>1, <2>1, <2>2 DEF Inv, PhaseTyped, RulesTyped, TypeOK
<1>2. QED
  BY <1>1, AlwaysInv, PTL

\* What conntrack says of a packet is a state that nft knows.
LEMMA ConntrackTyped == \A f : Conntrack(f) \subseteq CtStates
BY DEF Conntrack, CtStates

LEMMA SentTyped == \A p \in Sent : HasHeader(p)
BY FlowDecided DEF Sent, WellFormed

LEMMA ListOf ==
  ASSUME RulesTyped, NEW ip \in DOMAIN sources
  PROVE  rules[sources[ip]] \in Seq(PolicyRule)
<1>1. sources[ip] \in DOMAIN rules
  BY DEF RulesTyped, NamesIn
<1>2. QED
  BY <1>1 DEF RulesTyped, RuleList

(* What the kernel decides by itself is what the first match would decide: *)
(* in front of a running daemon, and with the table a dead one left.  When *)
(* the limits of the rejects are used up, it accepts no packet that no     *)
(* rule of the source allows.                                              *)
THEOREM KernelAgrees == Spec => []KernelAgreesWithPolicy
<1>1. ASSUME Inv
      PROVE  KernelAgreesWithPolicy
  <2> SUFFICES ASSUME NEW p \in Sent, p.src \in DOMAIN sources,
                      NEW ct \in Conntrack(p), ct[2] = "original"
               PROVE  LET Verdict(over) == KernelVerdict(table, p, ct, over)
                          list == rules[sources[p.src]]
                          action == PolicyAction(list, p)
                      IN  /\ Verdict(TRUE) = "accept" => SomeAllow(list, p)
                          /\ Verdict(FALSE) = "accept" => action = "allow"
                          /\ Serving /\ ct[1] # "invalid" =>
                                /\ Verdict(FALSE) = "reject" => action = "reject"
                                /\ Verdict(FALSE) = "queue" => action = "none" \/ IsDns(p)
    BY DEF KernelAgreesWithPolicy
  <2> DEFINE Verdict(over) == KernelVerdict(table, p, ct, over)
             list == rules[sources[p.src]]
             action == PolicyAction(list, p)
  <2>1. HasHeader(p) /\ ct \in CtStates
    BY SentTyped, ConntrackTyped
  <2>2. \A over \in BOOLEAN :
           \/ phase # "up" /\ Verdict(over) \in {"reject", "queue"}
           \/ Verdict(over) = IF ct[1] = "invalid" /\ ~ over THEN "reject"
                              ELSE IF IsDns(p) THEN "queue" ELSE Outcome(list, p, over)
    BY <1>1, <2>1, TableDecides DEF Inv
  <2>3. /\ action \in {"allow", "reject", "none"}
        /\ action = "allow" => SomeAllow(list, p)
    BY <1>1, ListOf, AllowsSome DEF Inv
  <2> HIDE DEF Verdict, list
  <2>4. Verdict(TRUE) = "accept" => SomeAllow(list, p)
    BY <2>2, <2>3 DEF Outcome
  <2>5. Verdict(FALSE) = "accept" => action = "allow"
    BY <2>2, <2>3 DEF Outcome
  <2>6. Serving /\ ct[1] # "invalid" =>
           /\ Verdict(FALSE) = "reject" => action = "reject"
           /\ Verdict(FALSE) = "queue" => action = "none" \/ IsDns(p)
    BY <2>2, <2>3 DEF Outcome, Serving
  <2>7. QED
    BY <2>4, <2>5, <2>6 DEF Verdict, list
<1>2. QED
  BY <1>1, AlwaysInv, PTL

(* No table ever lets a query leave on the kernel's word alone.            *)
THEOREM DnsAlwaysAsked == Spec => []DnsIsAlwaysAsked
<1>1. ASSUME Inv
      PROVE  DnsIsAlwaysAsked
  <2> SUFFICES ASSUME NEW p \in Sent, IsDns(p), NEW ct \in Conntrack(p), ct[2] = "original",
                      NEW over \in BOOLEAN
               PROVE  KernelVerdict(table, p, ct, over) # "accept"
    BY DEF DnsIsAlwaysAsked
  <2>1. HasHeader(p) /\ ct \in CtStates
    BY SentTyped, ConntrackTyped
  <2>2. KernelVerdict(table, p, ct, over) \in {"reject", "queue"}
    BY <1>1, <2>1, TableDecides DEF Inv
  <2>3. QED
    BY <2>2
<1>2. QED
  BY <1>1, AlwaysInv, PTL

(* While the daemon runs, Python sees every packet of an unknown address.  *)
THEOREM UnknownSourceSeen == Spec => []UnknownSourceIsSeen
<1>1. ASSUME Inv
      PROVE  UnknownSourceIsSeen
  <2> SUFFICES ASSUME phase = "up", NEW p \in Sent, p.src \notin DOMAIN sources,
                      NEW ct \in Conntrack(p), ct[2] = "original", NEW over \in BOOLEAN
               PROVE  KernelVerdict(table, p, ct, over) = "queue"
    BY DEF UnknownSourceIsSeen, Serving
  <2>1. HasHeader(p) /\ ct \in CtStates
    BY SentTyped, ConntrackTyped
  <2>2. QED
    BY <1>1, <2>1, TableDecides DEF Inv
<1>2. QED
  BY <1>1, AlwaysInv, PTL

(* A reply has the fate its connection would have now.                     *)
THEOREM RepliesFollow == Spec => []RepliesFollowTheirFlow
<1>1. ASSUME Inv
      PROVE  RepliesFollowTheirFlow
  <2> SUFFICES ASSUME phase = "up", NEW f \in DOMAIN flows, f.src \in DOMAIN sources
               PROVE  LET action == PolicyAction(rules[sources[f.src]], f)
                          Verdict(over) ==
                              KernelVerdict(table, Back(f), << "established", "reply" >>, over)
                      IN  /\ action = "allow" => \A over \in BOOLEAN : Verdict(over) = "accept"
                          /\ action = "reject" => Verdict(FALSE) = "reject"
    BY DEF RepliesFollowTheirFlow, Serving
  <2> DEFINE back == Back(f)
             list == rules[sources[f.src]]
             ct == << "established", "reply" >>
  <2>1. f \in Flow
    BY <1>1 DEF Inv, FlowsTyped
  <2>2. /\ back.src = f.dst /\ back.dst = f.src /\ back.proto = f.proto
        /\ back.sport = f.dport /\ back.dport = f.sport
    BY <2>1 DEF Back, Flow
  <2>3. HasHeader(f) /\ HasHeader(back)
    BY <2>1, <2>2 DEF Flow, HasHeader
  <2>4. ct \in Replies
    BY DEF Replies
  <2>5. table = RenderNft(sources, rules) /\ IsFiniteSet(DOMAIN sources)
    BY <1>1, SourcesFinite DEF Inv, TableLoaded
  <2>6. list \in Seq(PolicyRule)
    BY <1>1, ListOf DEF Inv
  <2> HIDE DEF back, ct
  <2>7. \A over \in BOOLEAN : Outcome(list, f, over) # "queue"
           => KernelVerdict(table, back, ct, over) = Outcome(list, f, over)
    BY <2>2, <2>3, <2>4, <2>5, <2>6, RepliesShareTheVerdict
  <2>8. PolicyAction(list, f) = "allow" => \A over \in BOOLEAN : Outcome(list, f, over) = "accept"
    BY DEF Outcome
  <2>9. PolicyAction(list, f) = "reject" => Outcome(list, f, FALSE) = "reject"
    BY DEF Outcome
  <2>10. QED
    BY <2>7, <2>8, <2>9 DEF back, ct
<1>2. QED
  BY <1>1, AlwaysInv, PTL

(* What a durable source still holds open is what the policy allows now.   *)
THEOREM FlowsObey == Spec => []FlowsObeyThePolicy
<1>1. ASSUME Inv
      PROVE  FlowsObeyThePolicy
  BY <1>1 DEF Inv, FlowsAllowed, Permits, FlowsObeyThePolicy, Serving
<1>2. QED
  BY <1>1, AlwaysInv, PTL

(* Two VMs share a policy only as disposables of one base, whatever names  *)
(* and templates dom0 reports.                                             *)
THEOREM OneOwner == Spec => []PolicyHasOneOwner
<1>1. ASSUME NEW inventory \in Accepted,
             NEW a \in Counted(inventory), NEW b \in Counted(inventory)
      PROVE  LET map == ParseSources(inventory)
             IN  /\ map[a.ip] = map[b.ip] /\ a # b =>
                      a.class = "DispVM" /\ b.class = "DispVM" /\ a.template = b.template
                 /\ map[a.ip] \in Numbered => OnDefault(a)
  <2>1. inventory \in Inventories /\ ~ ParseRefuses(inventory)
    BY DEF Accepted
  <2>2. \A row \in Counted(inventory) : row \in inventory /\ row.ip # NoIP /\ ~ RowRefused(row)
    BY <2>1 DEF Counted, ParseRefuses
  <2>3. \A row \in Counted(inventory) :
           /\ row.name \notin Prefixed
           /\ row.class # "DispVM" => row.name \notin DispLike
           /\ row.class = "DispVM" /\ ~ OnDefault(row) => row.template \in DOMAIN DispvmOf
    BY <2>1, <2>2, InventoriesAssumption DEF RowRefused, NameRefused, OnDefault
  <2>4. /\ ParseSources(inventory)[a.ip] = PolicyName(a)
        /\ ParseSources(inventory)[b.ip] = PolicyName(b)
    BY ParsedNames
  <2>5. a.name = b.name => a = b
    BY <2>1, <2>2, InventoriesAssumption
  <2>6. PolicyName(a) = PolicyName(b) /\ a # b =>
           a.class = "DispVM" /\ b.class = "DispVM" /\ a.template = b.template
    BY <2>3, <2>5, NamesAssumption DEF PolicyName
  <2>7. PolicyName(a) \in Numbered => OnDefault(a)
    BY <2>3, NamesAssumption DEF PolicyName, OnDefault
  <2>8. QED
    BY <2>4, <2>6, <2>7
<1>2. ASSUME NEW inventory
      PROVE  Counted(Rows(inventory)) = Counted(inventory)
  BY DEF Counted, Rows
<1>3. ASSUME SourcesParsed
      PROVE  PolicyHasOneOwner
  <2>1. CASE rows = {}
    BY <2>1 DEF PolicyHasOneOwner, Counted
  <2>2. ASSUME NEW inventory \in Accepted, sources = ParseSources(inventory), rows = Rows(inventory)
        PROVE  PolicyHasOneOwner
    BY <1>1, <1>2, <2>2 DEF PolicyHasOneOwner
  <2>3. QED
    BY <1>3, <2>1, <2>2 DEF SourcesParsed
<1>4. QED
  BY <1>3, AlwaysInv, PTL DEF Inv

(* No packet makes the parser read past its end.                           *)
THEOREM ParserStays == Spec => []ParserStaysInPacket
<1>1. ParserStaysInPacket
  BY NothingMisread DEF ParserStaysInPacket
<1>2. QED
  BY <1>1, PTL

(* Every message answered with REFUSED can be answered.                    *)
THEOREM RefusedAnswerable == Spec => []RefusedIsAnswerable
<1>1. RefusedIsAnswerable
  BY NothingUnanswerable DEF RefusedIsAnswerable
<1>2. QED
  BY <1>1, PTL
===============================================================================
