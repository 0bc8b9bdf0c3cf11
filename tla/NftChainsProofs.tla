----------------------------- MODULE NftChainsProofs -----------------------------
(***************************************************************************)
(* What the rendered table does with a packet, for every list of rules,    *)
(* every map of sources and every packet: the kernel's first match over    *)
(* the chains against policy.py's first match over the rules.              *)
(***************************************************************************)
EXTENDS NftChains, SequenceTheorems, FiniteSetTheorems, TLAPS

-------------------------------------------------------------------------------
(* First places *)

LEMMA LeastPlace ==
  ASSUME NEW T \in SUBSET Nat, T # {}
  PROVE  \E m \in T : \A k \in T : m <= k
<1> DEFINE R == StrictSubsetOrdering(Nat)
           U == {1 .. i : i \in T}
<1>1. IsWellFoundedOn(R, FiniteSubsetsOf(Nat))
  BY FS_StrictSubsetOrderingWellFounded
<1>2. \A i \in T : IsFiniteSet(1 .. i) /\ 1 .. i \in SUBSET Nat
  BY FS_Interval
<1>3. U \subseteq FiniteSubsetsOf(Nat)
  BY <1>2 DEF FiniteSubsetsOf
<1>4. U # {}
  OBVIOUS
<1>5. PICK x \in U : \A y \in U : ~ (<< y, x >> \in R)
  <2> HIDE DEF R, U
  <2>1. QED
    BY <1>1, <1>3, <1>4, WFMin
<1>6. PICK m \in T : x = 1 .. m
  OBVIOUS
<1>7. ASSUME NEW k \in T, ~ (m <= k)
      PROVE  FALSE
  <2>1. m \in 1 .. m /\ m \notin 1 .. k /\ 1 .. k \subseteq 1 .. m
    BY <1>7
  <2>2. << 1 .. k, 1 .. m >> \in R
    BY <2>1 DEF StrictSubsetOrdering
  <2>3. QED
    BY <1>5, <1>6, <2>2
<1>8. QED
  BY <1>7

LEMMA FirstIsLeast ==
  ASSUME NEW T \in SUBSET Nat, T # {}
  PROVE  First(T) \in T /\ \A k \in T : First(T) <= k
BY LeastPlace DEF First

LEMMA FirstIs ==
  ASSUME NEW T \in SUBSET Nat, NEW m \in T, \A k \in T : m <= k
  PROVE  First(T) = m
<1>1. First(T) \in T /\ First(T) <= m
  BY FirstIsLeast
<1>2. First(T) \in Nat /\ m \in Nat /\ m <= First(T)
  BY <1>1
<1>3. QED
  BY <1>1, <1>2

-------------------------------------------------------------------------------
(* Chains *)

\* The first rule of the first block with a rule that matches decides.
LEMMA Evaluated ==
  ASSUME NEW chain, NEW p, NEW ct, NEW over, DOMAIN chain \in SUBSET Nat,
         NEW i \in DOMAIN chain, DOMAIN chain[i] \in SUBSET Nat,
         NEW j \in Hit(chain[i], p, ct, over),
         \A k \in Hit(chain[i], p, ct, over) : j <= k,
         \A k \in DOMAIN chain : k < i => Hit(chain[k], p, ct, over) = {}
  PROVE  Evaluate(chain, p, ct, over) = chain[i][j]
<1> DEFINE T == {k \in DOMAIN chain : Hit(chain[k], p, ct, over) # {}}
<1>1. T \in SUBSET Nat /\ i \in T
  OBVIOUS
<1>2. \A k \in T : i <= k
  OBVIOUS
<1>3. First(T) = i
  BY <1>1, <1>2, FirstIs
<1>4. Hit(chain[i], p, ct, over) \in SUBSET Nat
  BY DEF Hit
<1>5. First(Hit(chain[i], p, ct, over)) = j
  BY <1>4, FirstIs
<1>6. QED
  BY <1>3, <1>5 DEF Evaluate

\* A row of blocks between two others.
LEMMA Framed ==
  ASSUME NEW T, NEW n \in Nat, NEW f \in [1 .. n -> T], NEW a, NEW b
  PROVE  LET s == << a >> \o f \o << b >>
         IN  /\ DOMAIN s = 1 .. n + 2
             /\ s[1] = a /\ s[n + 2] = b
             /\ \A i \in 1 .. n : s[i + 1] = f[i]
<1> DEFINE S == T \cup {a, b}
           front == << a >> \o f
<1>1. f \in Seq(S) /\ Len(f) = n
  <2>1. f \in [1 .. n -> S]
    OBVIOUS
  <2>2. f \in Seq(S)
    BY <2>1, SeqDef
  <2>3. QED
    BY <2>2, LenProperties
<1>2. << a >> \in Seq(S) /\ Len(<< a >>) = 1 /\ << b >> \in Seq(S) /\ Len(<< b >>) = 1
  OBVIOUS
<1>3. front \in Seq(S) /\ Len(front) = n + 1 /\ front[1] = a /\ \A i \in 1 .. n : front[i + 1] = f[i]
  BY <1>1, <1>2, ConcatProperties
<1>4. /\ front \o << b >> \in Seq(S) /\ Len(front \o << b >>) = n + 2
      /\ \A i \in 1 .. n + 1 : (front \o << b >>)[i] = front[i]
      /\ (front \o << b >>)[n + 2] = b
  <2> HIDE DEF front
  <2>1. QED
    BY <1>2, <1>3, ConcatProperties
<1>5. DOMAIN (front \o << b >>) = 1 .. n + 2
  BY <1>4, LenProperties
<1>6. QED
  BY <1>3, <1>4, <1>5

LEMMA PairConcat ==
  ASSUME NEW a, NEW b
  PROVE  << a >> \o << b >> = << a, b >>
<1> DEFINE S == {a, b}
           s == << a >> \o << b >>
<1>1. << a >> \in Seq(S) /\ Len(<< a >>) = 1 /\ << b >> \in Seq(S) /\ Len(<< b >>) = 1
  OBVIOUS
<1>2. s \in Seq(S) /\ Len(s) = 2 /\ s[1] = a /\ s[2] = b
  BY <1>1, ConcatProperties
<1>3. << a, b >> \in Seq(S) /\ Len(<< a, b >>) = 2
  OBVIOUS
<1> HIDE DEF s
<1>4. s \in [1 .. 2 -> S] /\ << a, b >> \in [1 .. 2 -> S]
  BY <1>2, <1>3, LenProperties
<1>5. \A i \in 1 .. 2 : s[i] = << a, b >>[i]
  BY <1>2
<1>6. s = << a, b >>
  BY <1>4, <1>5
<1>7. QED
  BY <1>6 DEF s

-------------------------------------------------------------------------------
(* One policy rule *)

\* A rule covers the packet and its limit, if it has one, is not used up.
Applies(rule, p, over) == RuleCovers(rule, p) /\ ~ (rule.action = "reject" /\ over)

\* The match rendered from a rule.
Match(rule) ==
    [Anything EXCEPT !.daddr = rule.dests, !.proto = {rule.proto},
                     !.dport = rule.lo .. rule.hi, !.do = Verb(rule),
                     !.limited = rule.action = "reject"]

LEMMA MatchCovers ==
  ASSUME NEW rule \in PolicyRule, NEW p, HasHeader(p), NEW ct \in CtStates, NEW over \in BOOLEAN
  PROVE  Hits(Match(rule), p, ct, over) <=> Applies(rule, p, over)
<1>1. /\ rule.lo \in 0 .. MaxPort /\ rule.hi \in 0 .. MaxPort /\ p.dport \in 0 .. MaxPort
      /\ IF rule.lo = 0 THEN rule.hi = MaxPort ELSE rule.lo <= rule.hi
  BY DEF PolicyRule, Ports, AnyPort, HasHeader
<1>2. p.dport \in rule.lo .. rule.hi
        <=> AnyPort(rule) \/ (p.dport # 0 /\ rule.lo <= p.dport /\ p.dport <= rule.hi)
  BY <1>1, PortsAssumption DEF AnyPort
<1>3. Hits(Match(rule), p, ct, over) <=>
        /\ p.dst \in rule.dests /\ p.proto = rule.proto /\ p.dport \in rule.lo .. rule.hi
        /\ ~ (rule.action = "reject" /\ over)
  BY DEF Hits, Match, Anything, HasHeader
<1>4. QED
  BY <1>2, <1>3 DEF RuleCovers, Applies

\* Its block decides a packet that is not DNS as the rule says, or not at all.
LEMMA BlockDecides ==
  ASSUME NEW rule \in PolicyRule, NEW p, HasHeader(p), ~ IsDns(p), NEW ct \in CtStates,
         NEW over \in BOOLEAN
  PROVE  LET block == RenderRule(rule) IN
         /\ DOMAIN block \in SUBSET Nat
         /\ ~ Applies(rule, p, over) => Hit(block, p, ct, over) = {}
         /\ Applies(rule, p, over) =>
               \E j \in Hit(block, p, ct, over) : /\ \A k \in Hit(block, p, ct, over) : j <= k
                                           /\ block[j].do = Verb(rule)
<1> DEFINE queued == [DnsQueue EXCEPT !.daddr = rule.dests]
<1>1. ~ Hits(queued, p, ct, over)
  BY DEF Hits, DnsQueue, Anything, IsDns
<1>2. Hits(Match(rule), p, ct, over) <=> Applies(rule, p, over)
  BY MatchCovers
<1>3. Match(rule).do = Verb(rule)
  BY DEF Match, Anything
<1>4. rule.lo = DnsPort /\ rule.hi = DnsPort /\ rule.proto = "udp" => ~ Applies(rule, p, over)
  BY PortsAssumption DEF Applies, RuleCovers, IsDns, AnyPort, HasHeader, Ports
<1> HIDE DEF queued
<1>5. CASE RenderRule(rule) = << Match(rule) >>
  <2>1. Hit(<< Match(rule) >>, p, ct, over) = IF Applies(rule, p, over) THEN {1} ELSE {}
    BY <1>2 DEF Hit
  <2>2. QED
    BY <1>3, <1>5, <2>1
<1>6. CASE /\ RenderRule(rule) = << queued >>
           /\ ~ Applies(rule, p, over)
  BY <1>1, <1>6 DEF Hit
<1>7. CASE RenderRule(rule) = << queued, Match(rule) >>
  <2>1. Hit(<< queued, Match(rule) >>, p, ct, over) = IF Applies(rule, p, over) THEN {2} ELSE {}
    BY <1>1, <1>2 DEF Hit
  <2>2. QED
    BY <1>3, <1>7, <2>1
<1>8. QED
  <2>1. << queued >> \o << >> = << queued >>
    BY ConcatEmptySeq
  <2>2. << queued >> \o << Match(rule) >> = << queued, Match(rule) >>
    BY PairConcat
  <2>3. QED
    BY <1>4, <1>5, <1>6, <1>7, <2>1, <2>2 DEF RenderRule, UdpRuleIncludesDns, Match, queued

-------------------------------------------------------------------------------
(* The chain of a source *)

LEMMA SourceChainShape ==
  ASSUME NEW rules \in Seq(PolicyRule)
  PROVE  LET chain == SourceChain(rules) IN
         /\ Len(rules) \in Nat /\ DOMAIN rules = 1 .. Len(rules)
         /\ \A i \in 1 .. Len(rules) : rules[i] \in PolicyRule
         /\ DOMAIN chain = 1 .. Len(rules) + 2
         /\ chain[1] = << RejectInvalid, DnsQueue >>
         /\ \A i \in 1 .. Len(rules) : chain[i + 1] = RenderRule(rules[i])
         /\ chain[Len(rules) + 2] = << QueueAll >>
<1> DEFINE blocks == [i \in 1 .. Len(rules) |-> RenderRule(rules[i])]
           T == {RenderRule(rules[i]) : i \in 1 .. Len(rules)}
<1>1. /\ Len(rules) \in Nat /\ DOMAIN rules = 1 .. Len(rules)
      /\ \A i \in 1 .. Len(rules) : rules[i] \in PolicyRule
  BY LenProperties
<1>2. blocks \in [1 .. Len(rules) -> T]
  OBVIOUS
<1>3. SourceChain(rules) = << << RejectInvalid, DnsQueue >> >> \o blocks \o << << QueueAll >> >>
  BY <1>1 DEF SourceChain
<1>4. \A i \in 1 .. Len(rules) : blocks[i] = RenderRule(rules[i])
  OBVIOUS
<1> HIDE DEF blocks, T
<1>5. QED
  BY <1>1, <1>2, <1>3, <1>4, Framed

\* A source's first match, or none.
LEMMA PolicyDecides ==
  ASSUME NEW rules \in Seq(PolicyRule), NEW p
  PROVE  \/ /\ PolicyAction(rules, p) = "none"
            /\ \A i \in 1 .. Len(rules) : ~ RuleCovers(rules[i], p)
         \/ \E m \in 1 .. Len(rules) :
               /\ RuleCovers(rules[m], p)
               /\ \A i \in 1 .. Len(rules) : RuleCovers(rules[i], p) => m <= i
               /\ PolicyAction(rules, p) = rules[m].action
               /\ rules[m].action \in {"allow", "reject"}
<1> DEFINE hits == {i \in DOMAIN rules : RuleCovers(rules[i], p)}
<1>1. DOMAIN rules = 1 .. Len(rules) /\ Len(rules) \in Nat
      /\ \A i \in DOMAIN rules : rules[i] \in PolicyRule
  BY LenProperties
<1>2. CASE hits = {}
  BY <1>1, <1>2 DEF PolicyAction
<1>3. CASE hits # {}
  <2>1. hits \in SUBSET Nat
    BY <1>1
  <2>2. First(hits) \in hits /\ \A k \in hits : First(hits) <= k
    BY <1>3, <2>1, FirstIsLeast
  <2>3. PolicyAction(rules, p) = rules[First(hits)].action
    BY <1>3 DEF PolicyAction
  <2>4. rules[First(hits)].action \in {"allow", "reject"}
    BY <1>1, <2>2 DEF PolicyRule
  <2>5. QED
    BY <1>1, <2>2, <2>3, <2>4
<1>4. QED
  BY <1>2, <1>3

\* What the kernel does by itself with a packet of a source.
Outcome(rules, p, over) ==
    LET action == PolicyAction(rules, p)
    IN  IF action = "allow" \/ (over /\ SomeAllow(rules, p)) THEN "accept"
        ELSE IF action = "reject" /\ ~ over THEN "reject"
        ELSE "queue"

\* It is what the first rule says that still applies.
LEMMA OutcomeIs ==
  ASSUME NEW rules \in Seq(PolicyRule), NEW p, NEW over \in BOOLEAN
  PROVE  \/ /\ Outcome(rules, p, over) = "queue"
            /\ \A i \in 1 .. Len(rules) : ~ Applies(rules[i], p, over)
         \/ \E m \in 1 .. Len(rules) :
               /\ Applies(rules[m], p, over)
               /\ \A i \in 1 .. Len(rules) : Applies(rules[i], p, over) => m <= i
               /\ Outcome(rules, p, over) = Verb(rules[m])
<1>1. DOMAIN rules = 1 .. Len(rules) /\ Len(rules) \in Nat
      /\ \A i \in 1 .. Len(rules) : rules[i].action \in {"allow", "reject"}
  BY LenProperties DEF PolicyRule
<1>2. CASE ~ over
  <2>1. \A i \in 1 .. Len(rules) : Applies(rules[i], p, over) <=> RuleCovers(rules[i], p)
    BY <1>2 DEF Applies
  <2>2. QED
    BY <1>2, <2>1, PolicyDecides DEF Outcome, Verb
<1>3. CASE over
  <2> DEFINE hits == {i \in 1 .. Len(rules) : Applies(rules[i], p, over)}
  <2>1. \A i \in 1 .. Len(rules) :
           Applies(rules[i], p, over) <=> rules[i].action = "allow" /\ RuleCovers(rules[i], p)
    BY <1>1, <1>3 DEF Applies
  <2>2. CASE hits = {}
    <3>1. ~ SomeAllow(rules, p)
      BY <1>1, <2>1, <2>2 DEF SomeAllow
    <3>2. PolicyAction(rules, p) # "allow"
      BY <2>1, <2>2, PolicyDecides
    <3>3. QED
      BY <1>3, <2>2, <3>1, <3>2 DEF Outcome
  <2>3. CASE hits # {}
    <3>1. hits \in SUBSET Nat
      OBVIOUS
    <3>2. First(hits) \in hits /\ \A k \in hits : First(hits) <= k
      BY <2>3, <3>1, FirstIsLeast
    <3>3. rules[First(hits)].action = "allow" /\ SomeAllow(rules, p)
      BY <1>1, <2>1, <3>2 DEF SomeAllow
    <3>4. Outcome(rules, p, over) = "accept" /\ Verb(rules[First(hits)]) = "accept"
      BY <1>3, <3>3 DEF Outcome, Verb
    <3>5. QED
      BY <3>2, <3>4
  <2>4. QED
    BY <2>2, <2>3
<1>4. QED
  BY <1>2, <1>3

(* The chain rendered from a source's rules rejects what conntrack finds   *)
(* invalid, sends every UDP/53 packet to Python, and decides all others as *)
(* the first matching rule does, or sends them to Python if there is none: *)
(* whatever ranges, networks and order the rules have.  When the limits    *)
(* are used up the rejects do not count.                                   *)
THEOREM ChainDecides ==
  ASSUME NEW rules \in Seq(PolicyRule), NEW p, HasHeader(p), NEW ct \in CtStates,
         NEW over \in BOOLEAN
  PROVE  Evaluate(SourceChain(rules), p, ct, over).do =
            IF ct[1] = "invalid" /\ ~ over THEN "reject"
            ELSE IF IsDns(p) THEN "queue"
            ELSE Outcome(rules, p, over)
<1> DEFINE chain == SourceChain(rules)
           n == Len(rules)
<1>1. /\ n \in Nat /\ DOMAIN chain = 1 .. n + 2 /\ DOMAIN rules = 1 .. n
      /\ \A i \in 1 .. n : rules[i] \in PolicyRule
      /\ chain[1] = << RejectInvalid, DnsQueue >>
      /\ \A i \in 1 .. n : chain[i + 1] = RenderRule(rules[i])
      /\ chain[n + 2] = << QueueAll >>
  BY SourceChainShape
<1> HIDE DEF chain, n
<1>2. Hits(RejectInvalid, p, ct, over) <=> ct[1] = "invalid" /\ ~ over
  BY DEF RejectInvalid, Anything, Hits, HasHeader, CtStates
<1>3. Hits(DnsQueue, p, ct, over) <=> IsDns(p)
  BY DEF DnsQueue, Anything, Hits, HasHeader, IsDns
<1>4. Hits(QueueAll, p, ct, over)
  BY DEF QueueAll, Anything, Hits, HasHeader
<1>5. RejectInvalid.do = "reject" /\ DnsQueue.do = "queue" /\ QueueAll.do = "queue"
  BY DEF RejectInvalid, DnsQueue, QueueAll, Anything
<1>6. DOMAIN chain \in SUBSET Nat /\ DOMAIN chain[1] = 1 .. 2
  BY <1>1
<1>7. CASE ct[1] = "invalid" /\ ~ over
  <2>1. 1 \in Hit(chain[1], p, ct, over) /\ \A k \in Hit(chain[1], p, ct, over) : 1 <= k
    BY <1>1, <1>2, <1>6, <1>7 DEF Hit
  <2>2. Evaluate(chain, p, ct, over) = chain[1][1]
    BY <1>1, <1>6, <2>1, Evaluated
  <2>3. QED
    BY <1>1, <1>5, <1>7, <2>2 DEF chain
<1>8. CASE ~ (ct[1] = "invalid" /\ ~ over) /\ IsDns(p)
  <2>1. 2 \in Hit(chain[1], p, ct, over) /\ \A k \in Hit(chain[1], p, ct, over) : 2 <= k
    BY <1>1, <1>2, <1>3, <1>6, <1>8 DEF Hit
  <2>2. Evaluate(chain, p, ct, over) = chain[1][2]
    BY <1>1, <1>6, <2>1, Evaluated
  <2>3. QED
    BY <1>1, <1>5, <1>8, <2>2 DEF chain
<1>9. CASE ~ (ct[1] = "invalid" /\ ~ over) /\ ~ IsDns(p)
  <2>1. Hit(chain[1], p, ct, over) = {}
    BY <1>1, <1>2, <1>3, <1>6, <1>9 DEF Hit
  <2>2. \A i \in 1 .. n : ~ Applies(rules[i], p, over) => Hit(chain[i + 1], p, ct, over) = {}
    BY <1>1, <1>9, BlockDecides
  <2>3. CASE /\ Outcome(rules, p, over) = "queue"
             /\ \A i \in 1 .. n : ~ Applies(rules[i], p, over)
    <3>1. ASSUME NEW k \in DOMAIN chain, k < n + 2
          PROVE  Hit(chain[k], p, ct, over) = {}
      <4>1. CASE k = 1
        BY <2>1, <4>1
      <4>2. CASE k # 1
        <5>1. k - 1 \in 1 .. n /\ (k - 1) + 1 = k
          BY <1>1, <3>1, <4>2
        <5>2. QED
          BY <2>2, <2>3, <5>1
      <4>3. QED
        BY <4>1, <4>2
    <3>2. 1 \in Hit(chain[n + 2], p, ct, over) /\ \A k \in Hit(chain[n + 2], p, ct, over) : 1 <= k
      BY <1>1, <1>4 DEF Hit
    <3>3. DOMAIN chain[n + 2] \in SUBSET Nat /\ n + 2 \in DOMAIN chain
      BY <1>1
    <3>4. Evaluate(chain, p, ct, over) = chain[n + 2][1]
      BY <1>6, <3>1, <3>2, <3>3, Evaluated
    <3>5. QED
      BY <1>1, <1>5, <1>9, <2>3, <3>4 DEF chain
  <2>4. ASSUME NEW m \in 1 .. n,
               Applies(rules[m], p, over),
               \A i \in 1 .. n : Applies(rules[i], p, over) => m <= i,
               Outcome(rules, p, over) = Verb(rules[m])
        PROVE  Evaluate(chain, p, ct, over).do = Outcome(rules, p, over)
    <3>1. /\ DOMAIN chain[m + 1] \in SUBSET Nat
          /\ \E j \in Hit(chain[m + 1], p, ct, over) :
                /\ \A k \in Hit(chain[m + 1], p, ct, over) : j <= k
                /\ chain[m + 1][j].do = Verb(rules[m])
      BY <1>1, <1>9, <2>4, BlockDecides
    <3>2. PICK j \in Hit(chain[m + 1], p, ct, over) :
                /\ \A k \in Hit(chain[m + 1], p, ct, over) : j <= k
                /\ chain[m + 1][j].do = Verb(rules[m])
      BY <3>1
    <3>3. ASSUME NEW k \in DOMAIN chain, k < m + 1
          PROVE  Hit(chain[k], p, ct, over) = {}
      <4>1. CASE k = 1
        BY <2>1, <4>1
      <4>2. CASE k # 1
        <5>1. k - 1 \in 1 .. n /\ (k - 1) + 1 = k /\ ~ (m <= k - 1)
          BY <1>1, <3>3, <4>2
        <5>2. QED
          BY <2>2, <2>4, <5>1
      <4>3. QED
        BY <4>1, <4>2
    <3>4. m + 1 \in DOMAIN chain
      BY <1>1
    <3>5. Evaluate(chain, p, ct, over) = chain[m + 1][j]
      BY <1>6, <3>1, <3>2, <3>3, <3>4, Evaluated
    <3>6. QED
      BY <2>4, <3>2, <3>5
  <2>5. QED
    BY <1>9, <2>3, <2>4, OutcomeIs DEF chain, n
<1>10. QED
  BY <1>7, <1>8, <1>9

-------------------------------------------------------------------------------
(* The forward chain *)

LEMMA Listing ==
  ASSUME NEW S, IsFiniteSet(S)
  PROVE  /\ Cardinality(S) \in Nat
         /\ DOMAIN SetToSeq(S) = 1 .. Cardinality(S)
         /\ \A i \in 1 .. Cardinality(S) : SetToSeq(S)[i] \in S
         /\ \A e \in S : \E i \in 1 .. Cardinality(S) : SetToSeq(S)[i] = e
         /\ \A i, j \in 1 .. Cardinality(S) : SetToSeq(S)[i] = SetToSeq(S)[j] => i = j
<1> DEFINE n == Cardinality(S)
           s == SetToSeq(S)
<1>1. n \in Nat /\ ExistsBijection(1 .. n, S)
  BY FS_CardinalityType
<1>2. \E f \in [1 .. n -> S] : IsInjective(f)
  BY <1>1 DEF ExistsBijection, Bijection, Injection
<1>3. s \in [1 .. n -> S] /\ IsInjective(s)
  BY <1>2 DEF SetToSeq
<1>4. s \in Injection(1 .. n, S)
  BY <1>3 DEF Injection
<1>5. IsFiniteSet(1 .. n) /\ Cardinality(1 .. n) = n
  BY <1>1, FS_Interval
<1>6. s \in Surjection(1 .. n, S)
  BY <1>4, <1>5, FS_Injection
<1>7. \A e \in S : \E i \in 1 .. n : s[i] = e
  BY <1>6 DEF Surjection
<1>8. \A i, j \in 1 .. n : s[i] = s[j] => i = j
  BY <1>3 DEF IsInjective
<1>9. QED
  BY <1>1, <1>3, <1>7, <1>8

\* A row of blocks before four others.
LEMMA Footed ==
  ASSUME NEW T, NEW n \in Nat, NEW f \in [1 .. n -> T], NEW a, NEW b, NEW c, NEW d
  PROVE  LET s == f \o << a, b, c, d >>
         IN  /\ DOMAIN s = 1 .. n + 4
             /\ \A i \in 1 .. n : s[i] = f[i]
             /\ s[n + 1] = a /\ s[n + 2] = b /\ s[n + 3] = c /\ s[n + 4] = d
<1> DEFINE S == T \cup {a, b, c, d}
           foot == << a, b, c, d >>
<1>1. f \in Seq(S) /\ Len(f) = n
  <2>1. f \in [1 .. n -> S]
    OBVIOUS
  <2>2. f \in Seq(S)
    BY <2>1, SeqDef
  <2>3. QED
    BY <2>2, LenProperties
<1>2. foot \in Seq(S) /\ Len(foot) = 4
  OBVIOUS
<1>3. foot[1] = a /\ foot[2] = b /\ foot[3] = c /\ foot[4] = d
  OBVIOUS
<1> HIDE DEF foot
<1> DEFINE s == f \o foot
<1>4. s \in Seq(S) /\ Len(s) = n + 4 /\ \A i \in 1 .. n + 4 : s[i] = IF i <= n THEN f[i] ELSE foot[i - n]
  <2> HIDE DEF S
  <2>1. s \in Seq(S)
    BY <1>1, <1>2, ConcatProperties, Zenon
  <2>2. Len(s) = Len(f) + Len(foot)
    BY <1>1, <1>2, ConcatProperties, Zenon
  <2>3. \A i \in 1 .. Len(f) + Len(foot) : s[i] = IF i <= Len(f) THEN f[i] ELSE foot[i - Len(f)]
    BY <1>1, <1>2, ConcatProperties, Zenon
  <2> HIDE DEF s
  <2>4. QED
    BY <1>1, <1>2, <2>1, <2>2, <2>3
<1> HIDE DEF s
<1>5. DOMAIN s = 1 .. n + 4
  BY <1>4, LenProperties
<1>6. \A i \in 1 .. n + 4 : s[i] = IF i <= n THEN f[i] ELSE foot[i - n]
  BY <1>4
<1>7. \A i \in 1 .. n : s[i] = f[i]
  BY <1>6
<1>8. ASSUME NEW k \in 1 .. 4
      PROVE  s[n + k] = foot[k]
  <2>1. n + k \in 1 .. n + 4 /\ ~ (n + k <= n) /\ (n + k) - n = k
    OBVIOUS
  <2>2. QED
    BY <1>6, <2>1
<1>9. s[n + 1] = a /\ s[n + 2] = b /\ s[n + 3] = c /\ s[n + 4] = d
  <2>1. 1 \in 1 .. 4 /\ 2 \in 1 .. 4 /\ 3 \in 1 .. 4 /\ 4 \in 1 .. 4
    OBVIOUS
  <2>2. QED
    BY <1>3, <1>8, <2>1, Zenon
<1>10. QED
  BY <1>5, <1>7, <1>9, Zenon DEF foot, s

LEMMA ForwardShape ==
  ASSUME NEW sources, NEW rules, IsFiniteSet(DOMAIN sources)
  PROVE  LET chain == ForwardChain(sources, rules)
             ips == SetToSeq(DOMAIN sources)
             n == Cardinality(DOMAIN sources)
         IN  /\ n \in Nat /\ DOMAIN chain = 1 .. n + 4
             /\ \A i \in 1 .. n : chain[i] = ReplyRules(ips[i], rules[sources[ips[i]]])
             /\ chain[n + 1] = [i \in 1 .. n |-> DnsJump(ips[i], sources[ips[i]])]
             /\ chain[n + 2] = [i \in 1 .. n |-> Jump(ips[i], sources[ips[i]])]
             /\ chain[n + 3] = [i \in 1 .. n |-> ReplyAccept(ips[i])]
             /\ chain[n + 4] = << QueueAll >>
<1> DEFINE ips == SetToSeq(DOMAIN sources)
           n == Cardinality(DOMAIN sources)
           Block(i) == ReplyRules(ips[i], rules[sources[ips[i]]])
           T == {Block(i) : i \in 1 .. n}
           f == [i \in 1 .. n |-> Block(i)]
           a == [i \in 1 .. n |-> DnsJump(ips[i], sources[ips[i]])]
           b == [i \in 1 .. n |-> Jump(ips[i], sources[ips[i]])]
           c == [i \in 1 .. n |-> ReplyAccept(ips[i])]
<1>1. n \in Nat /\ DOMAIN ips = 1 .. n
  BY Listing
<1>2. f \in [1 .. n -> T]
  OBVIOUS
<1>3. ForwardChain(sources, rules) = f \o << a, b, c, << QueueAll >> >>
  BY <1>1 DEF ForwardChain
<1>4. \A i \in 1 .. n : f[i] = Block(i)
  OBVIOUS
<1> HIDE DEF f, a, b, c, T, n
<1>5. LET s == f \o << a, b, c, << QueueAll >> >>
      IN  /\ DOMAIN s = 1 .. n + 4
          /\ \A i \in 1 .. n : s[i] = f[i]
          /\ s[n + 1] = a /\ s[n + 2] = b /\ s[n + 3] = c /\ s[n + 4] = << QueueAll >>
  BY <1>1, <1>2, Footed
<1>6. QED
  BY <1>1, <1>3, <1>4, <1>5 DEF a, b, c, n

(* A packet that is no reply: the chain of its source decides it, or the   *)
(* chain of unknown sources when dom0 has not reported its address, also   *)
(* between two sources, and nothing of another source's rules.             *)
THEOREM SourcesDecideTheirPackets ==
  ASSUME NEW sources, NEW rules, IsFiniteSet(DOMAIN sources),
         NEW p, HasHeader(p), NEW ct \in CtStates, ct[2] = "original",
         NEW over \in BOOLEAN
  PROVE  KernelVerdict(RenderNft(sources, rules), p, ct, over) =
            IF p.src \in DOMAIN sources
            THEN Evaluate(SourceChain(rules[sources[p.src]]), p, ct, over).do
            ELSE "queue"
<1> DEFINE chain == ForwardChain(sources, rules)
           ips == SetToSeq(DOMAIN sources)
           n == Cardinality(DOMAIN sources)
<1>1. /\ n \in Nat /\ DOMAIN chain = 1 .. n + 4
      /\ \A i \in 1 .. n : chain[i] = ReplyRules(ips[i], rules[sources[ips[i]]])
      /\ chain[n + 1] = [i \in 1 .. n |-> DnsJump(ips[i], sources[ips[i]])]
      /\ chain[n + 2] = [i \in 1 .. n |-> Jump(ips[i], sources[ips[i]])]
      /\ chain[n + 3] = [i \in 1 .. n |-> ReplyAccept(ips[i])]
      /\ chain[n + 4] = << QueueAll >>
  BY ForwardShape
<1>2. /\ \A i \in 1 .. n : ips[i] \in DOMAIN sources
      /\ \A e \in DOMAIN sources : \E i \in 1 .. n : ips[i] = e
      /\ \A i, j \in 1 .. n : ips[i] = ips[j] => i = j
  BY Listing
<1>3. /\ RenderNft(sources, rules).forward = chain
      /\ \A ip \in DOMAIN sources :
            RenderNft(sources, rules).chains[sources[ip]] = SourceChain(rules[sources[ip]])
  BY DEF RenderNft
<1> HIDE DEF chain, ips, n
<1>4. DOMAIN chain \in SUBSET Nat
  BY <1>1
<1>5. \A ip, rule : ~ Hits(ReplyRule(ip, rule), p, ct, over)
  BY DEF Hits, ReplyRule, Replies, Anything
<1>6. \A i \in 1 .. n : Hit(chain[i], p, ct, over) = {}
  <2>1. \A ip, list : Hit(ReplyRules(ip, list), p, ct, over) = {}
    BY <1>5 DEF Hit, ReplyRules
  <2>2. QED
    BY <1>1, <2>1
<1>7. \A ip, source : Hits(DnsJump(ip, source), p, ct, over) <=> p.src = ip /\ IsDns(p)
  BY DEF Hits, DnsJump, Jump, Anything, HasHeader, IsDns
<1>8. \A ip, source : Hits(Jump(ip, source), p, ct, over) <=> p.src = ip
  BY DEF Hits, Jump, Anything, HasHeader
<1>9. \A ip : ~ Hits(ReplyAccept(ip), p, ct, over)
  BY DEF Hits, ReplyAccept, Replies, Anything
<1>10. Hits(QueueAll, p, ct, over) /\ QueueAll.do = "queue"
  BY DEF Hits, QueueAll, Anything, HasHeader
<1>11. \A ip, source : /\ DnsJump(ip, source).do = "jump" /\ DnsJump(ip, source).chain = source
                       /\ Jump(ip, source).do = "jump" /\ Jump(ip, source).chain = source
  BY DEF DnsJump, Jump, Anything
<1>12. Hit(chain[n + 1], p, ct, over) = {i \in 1 .. n : p.src = ips[i] /\ IsDns(p)}
  BY <1>1, <1>7 DEF Hit
<1>13. Hit(chain[n + 2], p, ct, over) = {i \in 1 .. n : p.src = ips[i]}
  BY <1>1, <1>8 DEF Hit
<1>14. Hit(chain[n + 3], p, ct, over) = {}
  BY <1>1, <1>9 DEF Hit
<1>15. CASE p.src \in DOMAIN sources
  <2>1. PICK m \in 1 .. n : ips[m] = p.src
    BY <1>2, <1>15
  <2>2. \A i \in 1 .. n : p.src = ips[i] <=> i = m
    BY <1>2, <2>1
  <2>3. Evaluate(chain, p, ct, over).do = "jump" /\ Evaluate(chain, p, ct, over).chain = sources[p.src]
    <3>1. CASE IsDns(p)
      <4>1. Hit(chain[n + 1], p, ct, over) = {m}
        BY <1>12, <2>2, <3>1
      <4>2. n + 1 \in DOMAIN chain /\ DOMAIN chain[n + 1] \in SUBSET Nat
        BY <1>1
      <4>3. ASSUME NEW k \in DOMAIN chain, k < n + 1
            PROVE  Hit(chain[k], p, ct, over) = {}
        <5>1. k \in 1 .. n
          BY <1>1, <4>3
        <5>2. QED
          BY <1>6, <5>1
      <4>4. m \in Hit(chain[n + 1], p, ct, over) /\ \A k \in Hit(chain[n + 1], p, ct, over) : m <= k
        BY <4>1
      <4>5. Evaluate(chain, p, ct, over) = chain[n + 1][m]
        BY <1>4, <4>2, <4>3, <4>4, Evaluated
      <4>6. QED
        BY <1>1, <1>11, <2>1, <4>5
    <3>2. CASE ~ IsDns(p)
      <4>1. Hit(chain[n + 1], p, ct, over) = {} /\ Hit(chain[n + 2], p, ct, over) = {m}
        BY <1>12, <1>13, <2>2, <3>2
      <4>2. n + 2 \in DOMAIN chain /\ DOMAIN chain[n + 2] \in SUBSET Nat
        BY <1>1
      <4>3. ASSUME NEW k \in DOMAIN chain, k < n + 2
            PROVE  Hit(chain[k], p, ct, over) = {}
        <5>1. k \in 1 .. n \/ k = n + 1
          BY <1>1, <4>3
        <5>2. QED
          BY <1>6, <4>1, <5>1
      <4>4. m \in Hit(chain[n + 2], p, ct, over) /\ \A k \in Hit(chain[n + 2], p, ct, over) : m <= k
        BY <4>1
      <4>5. Evaluate(chain, p, ct, over) = chain[n + 2][m]
        BY <1>4, <4>2, <4>3, <4>4, Evaluated
      <4>6. QED
        BY <1>1, <1>11, <2>1, <4>5
    <3>3. QED
      BY <3>1, <3>2
  <2>4. QED
    BY <1>3, <1>15, <2>3 DEF KernelVerdict
<1>16. CASE p.src \notin DOMAIN sources
  <2>1. Hit(chain[n + 1], p, ct, over) = {} /\ Hit(chain[n + 2], p, ct, over) = {}
    BY <1>2, <1>12, <1>13, <1>16
  <2>2. n + 4 \in DOMAIN chain /\ DOMAIN chain[n + 4] \in SUBSET Nat
    BY <1>1
  <2>3. ASSUME NEW k \in DOMAIN chain, k < n + 4
        PROVE  Hit(chain[k], p, ct, over) = {}
    <3>1. k \in 1 .. n \/ k = n + 1 \/ k = n + 2 \/ k = n + 3
      BY <1>1, <2>3
    <3>2. QED
      BY <1>6, <1>14, <2>1, <3>1
  <2>4. 1 \in Hit(chain[n + 4], p, ct, over) /\ \A k \in Hit(chain[n + 4], p, ct, over) : 1 <= k
    BY <1>1, <1>10 DEF Hit
  <2>5. Evaluate(chain, p, ct, over) = chain[n + 4][1]
    BY <1>4, <2>2, <2>3, <2>4, Evaluated
  <2>6. QED
    BY <1>1, <1>3, <1>10, <1>16, <2>5 DEF KernelVerdict
<1>17. QED
  BY <1>15, <1>16

\* The rule seen from the other end covers exactly the replies to its flows.
LEMMA ReplyCovers ==
  ASSUME NEW rule \in PolicyRule, NEW ip, NEW ct \in Replies, NEW over \in BOOLEAN,
         NEW f, HasHeader(f), NEW back, HasHeader(back),
         back.src = f.dst, back.dst = f.src, back.proto = f.proto, back.sport = f.dport
  PROVE  Hits(ReplyRule(ip, rule), back, ct, over) <=> f.src = ip /\ Applies(rule, f, over)
<1>1. /\ rule.lo \in 0 .. MaxPort /\ rule.hi \in 0 .. MaxPort /\ f.dport \in 0 .. MaxPort
      /\ IF rule.lo = 0 THEN rule.hi = MaxPort ELSE rule.lo <= rule.hi
  BY DEF PolicyRule, Ports, AnyPort, HasHeader
<1>2. f.dport \in rule.lo .. rule.hi
        <=> AnyPort(rule) \/ (f.dport # 0 /\ rule.lo <= f.dport /\ f.dport <= rule.hi)
  BY <1>1, PortsAssumption DEF AnyPort
<1>3. Hits(ReplyRule(ip, rule), back, ct, over) <=>
        /\ f.src = ip /\ f.dst \in rule.dests /\ f.proto = rule.proto
        /\ f.dport \in rule.lo .. rule.hi /\ ~ (rule.action = "reject" /\ over)
  BY DEF Hits, ReplyRule, Anything, HasHeader
<1>4. QED
  BY <1>2, <1>3 DEF RuleCovers, Applies

(* The reply to a flow of a source is decided by the kernel alone, and the *)
(* way the source's rules decide its flow, whatever the rules of the       *)
(* source the reply comes from, and before the accept for replies.         *)
THEOREM RepliesShareTheVerdict ==
  ASSUME NEW sources, NEW rules, IsFiniteSet(DOMAIN sources), NEW ct \in Replies, NEW over \in BOOLEAN,
         NEW f, HasHeader(f), NEW back, HasHeader(back),
         back.src = f.dst, back.dst = f.src, back.proto = f.proto, back.sport = f.dport,
         f.src \in DOMAIN sources, rules[sources[f.src]] \in Seq(PolicyRule),
         Outcome(rules[sources[f.src]], f, over) # "queue"
  PROVE  KernelVerdict(RenderNft(sources, rules), back, ct, over) =
            Outcome(rules[sources[f.src]], f, over)
<1> DEFINE chain == ForwardChain(sources, rules)
           ips == SetToSeq(DOMAIN sources)
           n == Cardinality(DOMAIN sources)
           list == rules[sources[f.src]]
<1>1. /\ n \in Nat /\ DOMAIN chain = 1 .. n + 4
      /\ \A i \in 1 .. n : chain[i] = ReplyRules(ips[i], rules[sources[ips[i]]])
      /\ chain[n + 1] = [i \in 1 .. n |-> DnsJump(ips[i], sources[ips[i]])]
      /\ chain[n + 2] = [i \in 1 .. n |-> Jump(ips[i], sources[ips[i]])]
      /\ chain[n + 3] = [i \in 1 .. n |-> ReplyAccept(ips[i])]
      /\ chain[n + 4] = << QueueAll >>
  BY ForwardShape
<1>2. PICK m \in 1 .. n : ips[m] = f.src
  BY Listing
<1>3. \A i \in 1 .. n : ips[i] = f.src => i = m
  BY <1>2, Listing
<1>4. RenderNft(sources, rules).forward = chain
  BY DEF RenderNft
<1>5. DOMAIN list = 1 .. Len(list) /\ Len(list) \in Nat /\ \A i \in 1 .. Len(list) : list[i] \in PolicyRule
  BY LenProperties
<1> HIDE DEF chain, ips, n
<1>6. \A ip, rule : ip # f.src => ~ Hits(ReplyRule(ip, rule), back, ct, over)
  BY DEF Hits, ReplyRule, Anything
<1>7. \A ip, any : ip # f.src => Hit(ReplyRules(ip, any), back, ct, over) = {}
  BY <1>6 DEF Hit, ReplyRules
<1>8. chain[m] = ReplyRules(f.src, list)
  BY <1>1, <1>2
<1>9. PICK j \in 1 .. Len(list) :
        /\ Applies(list[j], f, over)
        /\ \A i \in 1 .. Len(list) : Applies(list[i], f, over) => j <= i
        /\ Outcome(list, f, over) = Verb(list[j])
  BY OutcomeIs
<1>10. DOMAIN chain[m] = 1 .. Len(list) /\ \A i \in 1 .. Len(list) : chain[m][i] = ReplyRule(f.src, list[i])
  <2> HIDE DEF list
  <2>1. QED
    BY <1>5, <1>8 DEF ReplyRules
<1>11. \A i \in 1 .. Len(list) : Hits(chain[m][i], back, ct, over) <=> Applies(list[i], f, over)
  <2> HIDE DEF list
  <2>1. QED
    BY <1>5, <1>10, ReplyCovers
<1>12. chain[m][j].do = Outcome(list, f, over)
  <2> HIDE DEF list
  <2>1. QED
    BY <1>9, <1>10 DEF ReplyRule, Anything
<1> HIDE DEF list
<1>13. j \in Hit(chain[m], back, ct, over) /\ \A k \in Hit(chain[m], back, ct, over) : j <= k
  BY <1>9, <1>10, <1>11 DEF Hit
<1>14. ASSUME NEW k \in DOMAIN chain, k < m
       PROVE  Hit(chain[k], back, ct, over) = {}
  <2>1. k \in 1 .. n /\ ips[k] # f.src
    BY <1>1, <1>3, <1>14
  <2>2. QED
    BY <1>1, <1>7, <2>1
<1>15. DOMAIN chain \in SUBSET Nat /\ m \in DOMAIN chain /\ DOMAIN chain[m] \in SUBSET Nat
  BY <1>1, <1>5, <1>10
<1>16. Evaluate(chain, back, ct, over) = chain[m][j]
  BY <1>13, <1>14, <1>15, Evaluated
<1>17. Outcome(list, f, over) # "jump"
  BY DEF Outcome
<1>18. QED
  BY <1>4, <1>12, <1>16, <1>17 DEF KernelVerdict, list

(* The two tables that are loaded while no source map is in force.         *)
LEMMA FailClosedRejects ==
  ASSUME NEW p, HasHeader(p), NEW ct \in CtStates, NEW over \in BOOLEAN
  PROVE  KernelVerdict(FailClosedNft, p, ct, over) = "reject"
<1> DEFINE rule == [Anything EXCEPT !.do = "reject"]
<1>1. Hits(rule, p, ct, over) /\ rule.do = "reject"
  BY DEF Hits, Anything, HasHeader
<1> HIDE DEF rule
<1>2. Evaluate(<< << rule >> >>, p, ct, over) = rule
  <2> DEFINE chain == << << rule >> >>
  <2>1. DOMAIN chain = {1} /\ chain[1] = << rule >> /\ DOMAIN chain[1] = {1} /\ chain[1][1] = rule
    OBVIOUS
  <2> HIDE DEF chain
  <2>2. 1 \in Hit(chain[1], p, ct, over) /\ \A k \in Hit(chain[1], p, ct, over) : 1 <= k
    BY <1>1, <2>1 DEF Hit
  <2>3. \A k \in DOMAIN chain : k < 1 => Hit(chain[k], p, ct, over) = {}
    BY <2>1
  <2>4. DOMAIN chain \in SUBSET Nat /\ 1 \in DOMAIN chain /\ DOMAIN chain[1] \in SUBSET Nat
    BY <2>1
  <2>5. Evaluate(chain, p, ct, over) = chain[1][1]
    BY <2>2, <2>3, <2>4, Evaluated
  <2>6. QED
    BY <2>1, <2>5 DEF chain
<1>3. FailClosedNft.forward = << << rule >> >>
  BY DEF FailClosedNft, rule
<1>4. QED
  BY <1>1, <1>2, <1>3 DEF KernelVerdict

LEMMA QueueAllQueues ==
  ASSUME NEW p, HasHeader(p), NEW ct \in CtStates, NEW over \in BOOLEAN
  PROVE  KernelVerdict(QueueAllNft, p, ct, over) = IF ct[1] = "invalid" /\ ~ over THEN "reject" ELSE "queue"
<1>1. Hits(RejectInvalid, p, ct, over) <=> ct[1] = "invalid" /\ ~ over
  BY DEF RejectInvalid, Anything, Hits, HasHeader, CtStates
<1>2. Hits(QueueAll, p, ct, over)
  BY DEF QueueAll, Anything, Hits, HasHeader
<1>3. RejectInvalid.do = "reject" /\ QueueAll.do = "queue"
  BY DEF RejectInvalid, QueueAll, Anything
<1> DEFINE chain == << << RejectInvalid, QueueAll >> >>
<1>4. /\ DOMAIN chain = {1} /\ DOMAIN chain[1] = {1, 2}
      /\ chain[1][1] = RejectInvalid /\ chain[1][2] = QueueAll
  OBVIOUS
<1>5. QueueAllNft.forward = chain
  BY DEF QueueAllNft
<1> HIDE DEF chain
<1>6. /\ DOMAIN chain \in SUBSET Nat /\ 1 \in DOMAIN chain /\ DOMAIN chain[1] \in SUBSET Nat
      /\ \A k \in DOMAIN chain : k < 1 => Hit(chain[k], p, ct, over) = {}
  BY <1>4
<1>7. CASE ct[1] = "invalid" /\ ~ over
  <2>1. 1 \in Hit(chain[1], p, ct, over) /\ \A k \in Hit(chain[1], p, ct, over) : 1 <= k
    BY <1>1, <1>4, <1>7 DEF Hit
  <2>2. Evaluate(chain, p, ct, over) = chain[1][1]
    BY <1>6, <2>1, Evaluated
  <2>3. QED
    BY <1>3, <1>4, <1>5, <1>7, <2>2 DEF KernelVerdict
<1>8. CASE ~ (ct[1] = "invalid" /\ ~ over)
  <2>1. 2 \in Hit(chain[1], p, ct, over) /\ \A k \in Hit(chain[1], p, ct, over) : 2 <= k
    BY <1>1, <1>2, <1>4, <1>8 DEF Hit
  <2>2. Evaluate(chain, p, ct, over) = chain[1][2]
    BY <1>6, <2>1, Evaluated
  <2>3. QED
    BY <1>3, <1>4, <1>5, <1>8, <2>2 DEF KernelVerdict
<1>9. QED
  BY <1>7, <1>8

===============================================================================
