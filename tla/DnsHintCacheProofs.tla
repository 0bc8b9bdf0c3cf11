--------------------------- MODULE DnsHintCacheProofs ---------------------------
(***************************************************************************)
(* Proofs about DnsHintCache, for every number of sources, addresses,      *)
(* names, workers and VMs, and for every limit of the two dicts.           *)
(***************************************************************************)
EXTENDS DnsHintCache, SequenceTheorems, FiniteSetTheorems, TLAPS

Rule == [name : DnsNames, hinted : BOOLEAN]
Label == [name : DnsNames, left : Nat, vm : Nat]
History == [addrs : SUBSET Addrs, left : Nat]
Job == [answered : BOOLEAN, addrs : SUBSET Addrs, left : Nat]
Lookup ==
    [at : {"idle", "stale", "refreshStale", "rules", "history", "refresh", "done"},
     source : Sources \cup {None}, addr : Addrs \cup {None}, vm : Nat,
     stale : DnsNames \cup {None}, rules : Seq(Rule), refresh : Seq(DnsNames),
     match : DnsNames \cup {None}]

SourcesTyped ==
    /\ Sources \ Numbered \subseteq live /\ live \subseteq Sources
    /\ vm \in [Sources -> Nat]
    /\ RULES \in [live -> Seq(Rule)]

CachesTyped ==
    /\ DOMAIN response \subseteq Sources \X Addrs /\ response \in [DOMAIN response -> Label]
    /\ DOMAIN qname \subseteq Sources \X DnsNames /\ qname \in [DOMAIN qname -> History]

LookupTyped ==
    /\ lookup \in Lookup
    /\ Looking => lookup.source \in Sources /\ lookup.addr \in Addrs
    /\ lookup.at = "refreshStale" => lookup.stale \in DnsNames
    /\ DOMAIN jobs \subseteq DnsNames /\ jobs \in [DOMAIN jobs -> Job]
    /\ DOMAIN found \subseteq DnsNames /\ found \in [DOMAIN found -> SUBSET Addrs]
    /\ lookup.at \notin {"refreshStale", "refresh"} => DOMAIN jobs = {} /\ DOMAIN found = {}
    /\ lookup.at \in {"stale", "refreshStale", "rules"} =>
          lookup.match = None /\ DOMAIN lookup.rules = {} /\ DOMAIN lookup.refresh = {}

TypeInv == SourcesTyped /\ CachesTyped /\ LookupTyped

Bounded(dict) ==
    /\ IsFiniteSet(DOMAIN dict)
    /\ Cardinality(DOMAIN dict) <= MaxGlobal
    /\ \A s \in Sources : Cardinality(KeysOf(dict, s)) <= MaxPerSource

BoundInv == Bounded(response) /\ Bounded(qname)

\* The labels of the VM that has a name come from lookups for it, which ask
\* for nothing but names of its rules and names it has such a label for.
LabelsAllowed ==
    \A k \in DOMAIN response : IsOf(k[1], response[k].vm) => response[k].name \in Allowed(k[1])

LookupAllowed ==
    lookup.source \in Sources /\ IsOf(lookup.source, lookup.vm) =>
        /\ DOMAIN jobs \subseteq Allowed(lookup.source)
        /\ lookup.match \in Allowed(lookup.source) \cup {None}
        /\ lookup.at = "refreshStale" => lookup.stale \in Allowed(lookup.source)
        /\ \A i \in DOMAIN lookup.refresh : lookup.refresh[i] \in Allowed(lookup.source)
        /\ \A i \in DOMAIN lookup.rules :
              HintRule(lookup.rules[i]) => lookup.rules[i].name \in Allowed(lookup.source)

AllowInv == LabelsAllowed /\ LookupAllowed

\* What is true of the labels is true of the lookup that will store some.
\* No label is of a VM still to come.
LabelsVm == HintsGoWithTheirVm /\ \A k \in DOMAIN response : response[k].vm <= vm[k[1]]

LookupVm ==
    /\ lookup.source \in Sources => lookup.vm <= vm[lookup.source]
    /\ Looking => IsOf(lookup.source, lookup.vm) \/ <<lookup.source, lookup.vm>> \in raced

VmInv == LabelsVm /\ LookupVm

Inv == TypeInv /\ BoundInv /\ LabelsHaveTheirHistory /\ AllowInv /\ VmInv

-------------------------------------------------------------------------------
(* Dicts *)

LEMMA EmptyFcn == DOMAIN Empty = {} /\ (\A S : Empty \in [{} -> S])
                  /\ \A f, S : f \in [{} -> S] => f = Empty
BY DEF Empty

LEMMA EmptyList == \A S : << >> \in Seq(S) /\ DOMAIN << >> = {}
<1> SUFFICES ASSUME NEW S
             PROVE  << >> \in Seq(S) /\ DOMAIN << >> = {}
  OBVIOUS
<1>1. << >> \in Seq(S) /\ Len(<< >>) = 0
  OBVIOUS
<1>2. DOMAIN << >> = 1 .. 0
  BY <1>1, LenProperties
<1>3. QED
  BY <1>1, <1>2

LEMMA Dropped ==
  ASSUME NEW f, NEW ks
  PROVE  /\ DOMAIN Drop(f, ks) = DOMAIN f \ ks
         /\ \A k \in DOMAIN f \ ks : Drop(f, ks)[k] = f[k]
         /\ \A T : f \in [DOMAIN f -> T] => Drop(f, ks) \in [DOMAIN Drop(f, ks) -> T]
         /\ \A s : KeysOf(Drop(f, ks), s) = KeysOf(f, s) \ ks
BY DEF Drop, KeysOf

LEMMA PutTyped ==
  ASSUME NEW f, NEW k, NEW v
  PROVE  /\ DOMAIN Put(f, k, v) = DOMAIN f \cup {k}
         /\ Put(f, k, v)[k] = v
         /\ \A x \in DOMAIN f : x # k => Put(f, k, v)[x] = f[x]
         /\ \A T : v \in T /\ f \in [DOMAIN f -> T] => Put(f, k, v) \in [DOMAIN f \cup {k} -> T]
BY DEF Put

LEMMA OlderTyped ==
  ASSUME NEW f, NEW T \in {Label, History, Job}, f \in [DOMAIN f -> T]
  PROVE  /\ DOMAIN Older(f) = DOMAIN f
         /\ Older(f) \in [DOMAIN f -> T]
         /\ \A k \in DOMAIN f : Older(f)[k].left = IF f[k].left = 0 THEN 0 ELSE f[k].left - 1
<1>1. DOMAIN Older(f) = DOMAIN f
  BY DEF Older
<1>2. ASSUME NEW k \in DOMAIN f
      PROVE  /\ Older(f)[k] \in T
             /\ Older(f)[k].left = IF f[k].left = 0 THEN 0 ELSE f[k].left - 1
  <2>1. f[k] \in T
    OBVIOUS
  <2>2. Older(f)[k] = [f[k] EXCEPT !.left = IF f[k].left = 0 THEN 0 ELSE f[k].left - 1]
    BY DEF Older
  <2>3. CASE T = Label
    BY <2>1, <2>2, <2>3 DEF Label
  <2>4. CASE T = History
    BY <2>1, <2>2, <2>4 DEF History
  <2>5. CASE T = Job
    BY <2>1, <2>2, <2>5 DEF Job
  <2>6. QED
    BY <2>3, <2>4, <2>5
<1>3. Older(f) = [k \in DOMAIN f |-> Older(f)[k]]
  BY DEF Older
<1>4. QED
  BY <1>1, <1>2, <1>3

LEMMA OlderSame ==
  /\ \A k \in DOMAIN response :
        response[k] \in Label => Older(response)[k].name = response[k].name /\ Older(response)[k].vm = response[k].vm
  /\ \A k \in DOMAIN qname : qname[k] \in History => Older(qname)[k].addrs = qname[k].addrs
BY DEF Older, Label, History

\* An eviction leaves no more than the limit.
LEMMA EvictionsKeep ==
  ASSUME NEW dict, NEW keys, IsFiniteSet(keys), NEW limit \in Nat, NEW E \in Evictions(dict, keys, limit)
  PROVE  E \subseteq keys /\ IsFiniteSet(keys \ E) /\ Cardinality(keys \ E) <= limit
<1>1. Cardinality(keys) \in Nat
  BY FS_CardinalityType
<1>2. CASE Cardinality(keys) <= limit
  <2>1. E = {} /\ keys \ E = keys
    BY <1>2 DEF Evictions
  <2>2. QED
    BY <1>2, <2>1
<1>3. CASE ~ (Cardinality(keys) <= limit)
  <2>1. E \subseteq keys /\ Cardinality(E) = Cardinality(keys) - limit
    BY <1>3 DEF Evictions
  <2>2. keys \cap E = E
    BY <2>1
  <2>3. IsFiniteSet(keys \ E) /\ Cardinality(keys \ E) = Cardinality(keys) - Cardinality(E)
    BY <2>2, FS_Difference
  <2>4. QED
    BY <1>1, <2>1, <2>3
<1>4. QED
  BY <1>2, <1>3

LEMMA Smaller ==
  ASSUME NEW dict, Bounded(dict), NEW other, DOMAIN other \subseteq DOMAIN dict
  PROVE  Bounded(other)
<1>1. IsFiniteSet(DOMAIN other) /\ Cardinality(DOMAIN other) <= Cardinality(DOMAIN dict)
  BY FS_Subset DEF Bounded
<1>2. ASSUME NEW s \in Sources
      PROVE  Cardinality(KeysOf(other, s)) <= MaxPerSource
  <2>1. KeysOf(other, s) \subseteq KeysOf(dict, s) /\ KeysOf(dict, s) \subseteq DOMAIN dict
    BY DEF KeysOf
  <2>2. IsFiniteSet(KeysOf(dict, s))
    BY <2>1, FS_Subset DEF Bounded
  <2>3. IsFiniteSet(KeysOf(other, s)) /\ Cardinality(KeysOf(other, s)) <= Cardinality(KeysOf(dict, s))
    BY <2>1, <2>2, FS_Subset
  <2>4. Cardinality(KeysOf(other, s)) \in Nat /\ Cardinality(KeysOf(dict, s)) \in Nat
    BY <2>2, <2>3, FS_CardinalityType
  <2>5. QED
    BY <2>3, <2>4, HintAssumption DEF Bounded
<1>3. Cardinality(DOMAIN other) \in Nat /\ Cardinality(DOMAIN dict) \in Nat
  BY <1>1, FS_CardinalityType DEF Bounded
<1>4. QED
  BY <1>1, <1>2, <1>3, HintAssumption DEF Bounded

\* Entries of one source are added, then evicted from it and from all.
LEMMA StoredBounded ==
  ASSUME NEW dict, Bounded(dict), NEW s \in Sources,
         NEW more, IsFiniteSet(DOMAIN more), \A k \in DOMAIN more \ DOMAIN dict : k[1] = s,
         NEW e \in Evictions(more, KeysOf(more, s), MaxPerSource),
         NEW less, DOMAIN less = DOMAIN more \ e,
         NEW f \in Evictions(less, DOMAIN less, MaxGlobal),
         NEW last, DOMAIN last = DOMAIN less \ f
  PROVE  Bounded(last)
<1>1. /\ IsFiniteSet(KeysOf(more, s)) /\ KeysOf(more, s) \subseteq DOMAIN more
      /\ MaxPerSource \in Nat /\ MaxGlobal \in Nat
  <2>1. KeysOf(more, s) \subseteq DOMAIN more
    BY DEF KeysOf
  <2>2. QED
    BY <2>1, FS_Subset, HintAssumption
<1>2. /\ IsFiniteSet(KeysOf(more, s) \ e) /\ Cardinality(KeysOf(more, s) \ e) <= MaxPerSource
  BY <1>1, EvictionsKeep
<1>3. IsFiniteSet(DOMAIN less)
  BY FS_Difference
<1>4. IsFiniteSet(DOMAIN less \ f) /\ Cardinality(DOMAIN less \ f) <= MaxGlobal
  BY <1>1, <1>3, EvictionsKeep
<1>5. ASSUME NEW t \in Sources
      PROVE  Cardinality(KeysOf(last, t)) <= MaxPerSource
  <2>1. CASE t = s
    <3>1. KeysOf(last, t) \subseteq KeysOf(more, s) \ e
      BY <2>1 DEF KeysOf
    <3>2. IsFiniteSet(KeysOf(last, t)) /\ Cardinality(KeysOf(last, t)) <= Cardinality(KeysOf(more, s) \ e)
      BY <1>2, <3>1, FS_Subset
    <3>3. Cardinality(KeysOf(last, t)) \in Nat /\ Cardinality(KeysOf(more, s) \ e) \in Nat
      BY <1>2, <3>2, FS_CardinalityType
    <3>4. QED
      BY <1>1, <1>2, <3>2, <3>3
  <2>2. CASE t # s
    <3>1. KeysOf(last, t) \subseteq KeysOf(dict, t) /\ KeysOf(dict, t) \subseteq DOMAIN dict
      BY <2>2 DEF KeysOf
    <3>2. IsFiniteSet(KeysOf(dict, t))
      BY <3>1, FS_Subset DEF Bounded
    <3>3. IsFiniteSet(KeysOf(last, t)) /\ Cardinality(KeysOf(last, t)) <= Cardinality(KeysOf(dict, t))
      BY <3>1, <3>2, FS_Subset
    <3>4. Cardinality(KeysOf(last, t)) \in Nat /\ Cardinality(KeysOf(dict, t)) \in Nat
      BY <3>2, <3>3, FS_CardinalityType
    <3>5. QED
      BY <1>1, <3>3, <3>4 DEF Bounded
  <2>3. QED
    BY <2>1, <2>2
<1>6. QED
  BY <1>4, <1>5 DEF Bounded

-------------------------------------------------------------------------------
(* store_dns_labels *)

LEMMA JobRuns ==
  ASSUME TypeInv, NEW n \in DOMAIN jobs
  PROVE  /\ lookup.at \in {"refreshStale", "refresh"} /\ Looking
         /\ lookup.source \in Sources /\ jobs[n] \in Job /\ n \in DnsNames
BY DEF TypeInv, LookupTyped, Looking

LEMMA PrunedKeeps ==
  ASSUME NEW r, NEW q, q \in [DOMAIN q -> History], DOMAIN q \subseteq Sources \X DnsNames
  PROVE  /\ DOMAIN Pruned(r, q) = DOMAIN q /\ Pruned(r, q) \in [DOMAIN q -> History]
         /\ \A k \in DOMAIN q : /\ Pruned(r, q)[k].left = q[k].left
                                /\ \A a \in q[k].addrs : Labelled(r, k[1], k[2], a) => a \in Pruned(r, q)[k].addrs
<1>1. DOMAIN Pruned(r, q) = DOMAIN q /\ Pruned(r, q) = [k \in DOMAIN q |-> Pruned(r, q)[k]]
  BY DEF Pruned
<1>2. ASSUME NEW k \in DOMAIN q
      PROVE  /\ Pruned(r, q)[k] \in History /\ Pruned(r, q)[k].left = q[k].left
             /\ \A a \in q[k].addrs : Labelled(r, k[1], k[2], a) => a \in Pruned(r, q)[k].addrs
  <2>1. q[k] \in History
    OBVIOUS
  <2>2. Pruned(r, q)[k] = [q[k] EXCEPT !.addrs = {a \in q[k].addrs : Labelled(r, k[1], k[2], a)}]
    BY DEF Pruned
  <2>3. QED
    BY <2>1, <2>2 DEF History
<1>3. QED
  BY <1>1, <1>2

\* What one store does to the dicts, with the entries each eviction takes.
LEMMA StoreParts ==
  ASSUME TypeInv, NEW n \in DnsNames, Store(n)
  PROVE  LET s == lookup.source
             job == jobs[n]
             new == {<<s, a>> : a \in job.addrs}
         IN  \E r1, e1, r2, e2, q1, q3, e3, q4, e4 :
             /\ DOMAIN r1 = (DOMAIN response \ OwnOldLabels(s, n)) \cup new
             /\ \A k \in new : r1[k] = [name |-> n, left |-> job.left, vm |-> lookup.vm]
             /\ \A k \in DOMAIN r1 \ new : k \in DOMAIN response \ OwnOldLabels(s, n) /\ r1[k] = response[k]
             /\ e1 \in Evictions(r1, KeysOf(r1, s), MaxPerSource)
             /\ r2 = Drop(r1, e1) /\ e2 \in Evictions(r2, DOMAIN r2, MaxGlobal)
             /\ response' = Drop(r2, e2)
             /\ q1 = Put(qname, <<s, n>>, [addrs |-> job.addrs, left |-> job.left])
             /\ q3 \in {q1, Pruned(response', q1)}
             /\ e3 \in Evictions(q3, KeysOf(q3, s), MaxPerSource)
             /\ q4 = Drop(q3, e3) /\ e4 \in Evictions(q4, DOMAIN q4, MaxGlobal)
             /\ qname' = Drop(q4, e4)
             /\ orphans' = {k \in DOMAIN response' :
                              k \in orphans \ new \/ <<k[1], response'[k].name>> \in e3 \cup e4}
<1> DEFINE s == lookup.source
           job == jobs[n]
           new == {<<s, a>> : a \in job.addrs}
           r0 == Drop(response, OwnOldLabels(s, n))
           r1 == [k \in DOMAIN r0 \cup new |->
                     IF k \in new THEN [name |-> n, left |-> job.left, vm |-> lookup.vm] ELSE r0[k]]
           q1 == Put(qname, <<s, n>>, [addrs |-> job.addrs, left |-> job.left])
<1>1. PICK e1 \in Evictions(r1, KeysOf(r1, s), MaxPerSource) :
        LET r2 == Drop(r1, e1) IN
        \E e2 \in Evictions(r2, DOMAIN r2, MaxGlobal) :
        LET r3 == Drop(r2, e2)
            q3 == IF e1 \cup e2 = {} THEN q1 ELSE Pruned(r3, q1)
        IN
        \E e3 \in Evictions(q3, KeysOf(q3, s), MaxPerSource) :
        LET q4 == Drop(q3, e3) IN
        \E e4 \in Evictions(q4, DOMAIN q4, MaxGlobal) :
          /\ response' = r3
          /\ qname' = Drop(q4, e4)
          /\ orphans' = {k \in DOMAIN r3 : \/ k \in orphans \ new
                                           \/ <<k[1], r3[k].name>> \in e3 \cup e4}
  BY Zenon DEF Store, GlobalLimit
<1>2. /\ DOMAIN r1 = (DOMAIN response \ OwnOldLabels(s, n)) \cup new
      /\ \A k \in new : r1[k] = [name |-> n, left |-> job.left, vm |-> lookup.vm]
      /\ \A k \in DOMAIN r1 \ new : k \in DOMAIN response \ OwnOldLabels(s, n) /\ r1[k] = response[k]
  <2>1. /\ DOMAIN r0 = DOMAIN response \ OwnOldLabels(s, n)
        /\ \A k \in DOMAIN r0 : r0[k] = response[k]
    BY DEF Drop
  <2> HIDE DEF r0, new, job, s
  <2>2. QED
    BY <2>1
<1> HIDE DEF r0, r1, q1, new, job, s
<1> DEFINE r2 == Drop(r1, e1)
<1>3. PICK e2 \in Evictions(r2, DOMAIN r2, MaxGlobal) :
        LET r3 == Drop(r2, e2)
            q3 == IF e1 \cup e2 = {} THEN q1 ELSE Pruned(r3, q1)
        IN
        \E e3 \in Evictions(q3, KeysOf(q3, s), MaxPerSource) :
        LET q4 == Drop(q3, e3) IN
        \E e4 \in Evictions(q4, DOMAIN q4, MaxGlobal) :
          /\ response' = r3
          /\ qname' = Drop(q4, e4)
          /\ orphans' = {k \in DOMAIN r3 : \/ k \in orphans \ new
                                           \/ <<k[1], r3[k].name>> \in e3 \cup e4}
  BY <1>1, Zenon
<1> DEFINE r3 == Drop(r2, e2)
           q3 == IF e1 \cup e2 = {} THEN q1 ELSE Pruned(r3, q1)
<1>4. PICK e3 \in Evictions(q3, KeysOf(q3, s), MaxPerSource) :
        LET q4 == Drop(q3, e3) IN
        \E e4 \in Evictions(q4, DOMAIN q4, MaxGlobal) :
          /\ response' = r3
          /\ qname' = Drop(q4, e4)
          /\ orphans' = {k \in DOMAIN r3 : \/ k \in orphans \ new
                                           \/ <<k[1], r3[k].name>> \in e3 \cup e4}
  BY <1>3, Zenon
<1> DEFINE q4 == Drop(q3, e3)
<1>5. PICK e4 \in Evictions(q4, DOMAIN q4, MaxGlobal) :
          /\ response' = r3
          /\ qname' = Drop(q4, e4)
          /\ orphans' = {k \in DOMAIN r3 : \/ k \in orphans \ new
                                           \/ <<k[1], r3[k].name>> \in e3 \cup e4}
  BY <1>4, Zenon
<1>6. q3 \in {q1, Pruned(response', q1)}
  BY <1>5
<1>7. r2 = Drop(r1, e1) /\ response' = Drop(r2, e2) /\ q4 = Drop(q3, e3)
  BY <1>5
<1>8. orphans' = {k \in DOMAIN response' :
                    k \in orphans \ new \/ <<k[1], response'[k].name>> \in e3 \cup e4}
  BY <1>5
<1>9. q1 = Put(qname, <<s, n>>, [addrs |-> job.addrs, left |-> job.left])
  BY DEF q1
<1> HIDE DEF r2, r3, q3, q4
<1>10. \E x1, x2, x3, x4, x5, x6, x7, x8, x9 :
             /\ DOMAIN x1 = (DOMAIN response \ OwnOldLabels(s, n)) \cup new
             /\ \A k \in new : x1[k] = [name |-> n, left |-> job.left, vm |-> lookup.vm]
             /\ \A k \in DOMAIN x1 \ new : k \in DOMAIN response \ OwnOldLabels(s, n) /\ x1[k] = response[k]
             /\ x2 \in Evictions(x1, KeysOf(x1, s), MaxPerSource)
             /\ x3 = Drop(x1, x2) /\ x4 \in Evictions(x3, DOMAIN x3, MaxGlobal)
             /\ response' = Drop(x3, x4)
             /\ x5 = Put(qname, <<s, n>>, [addrs |-> job.addrs, left |-> job.left])
             /\ x6 \in {x5, Pruned(response', x5)}
             /\ x7 \in Evictions(x6, KeysOf(x6, s), MaxPerSource)
             /\ x8 = Drop(x6, x7) /\ x9 \in Evictions(x8, DOMAIN x8, MaxGlobal)
             /\ qname' = Drop(x8, x9)
             /\ orphans' = {k \in DOMAIN response' :
                              k \in orphans \ new \/ <<k[1], response'[k].name>> \in x7 \cup x9}
  <2> WITNESS r1, e1, r2, e2, q1, q3, e3, q4, e4
  <2>1. QED
    BY <1>1, <1>2, <1>3, <1>4, <1>5, <1>6, <1>7, <1>8, <1>9, Zenon
<1>11. QED
  BY <1>10 DEF new, job, s

LEMMA StoreInv ==
  ASSUME Inv, NEW n \in DnsNames, Store(n)
  PROVE  Inv'
<1> DEFINE s == lookup.source
           job == jobs[n]
           new == {<<s, a>> : a \in job.addrs}
<1>1. /\ n \in DOMAIN jobs /\ jobs' = Drop(jobs, {n}) /\ found' = Put(found, n, job.addrs)
      /\ UNCHANGED << sourceVars, lookup >>
  BY DEF Store
<1>2. /\ lookup.at \in {"refreshStale", "refresh"} /\ Looking
      /\ s \in Sources /\ job \in Job /\ lookup.vm \in Nat
  BY <1>1, JobRuns DEF Inv, TypeInv, LookupTyped, Lookup
<1>3. PICK r1, e1, r2, e2, q1, q3, e3, q4, e4 :
        /\ DOMAIN r1 = (DOMAIN response \ OwnOldLabels(s, n)) \cup new
        /\ \A k \in new : r1[k] = [name |-> n, left |-> job.left, vm |-> lookup.vm]
        /\ \A k \in DOMAIN r1 \ new : k \in DOMAIN response \ OwnOldLabels(s, n) /\ r1[k] = response[k]
        /\ e1 \in Evictions(r1, KeysOf(r1, s), MaxPerSource)
        /\ r2 = Drop(r1, e1) /\ e2 \in Evictions(r2, DOMAIN r2, MaxGlobal)
        /\ response' = Drop(r2, e2)
        /\ q1 = Put(qname, <<s, n>>, [addrs |-> job.addrs, left |-> job.left])
        /\ q3 \in {q1, Pruned(response', q1)}
        /\ e3 \in Evictions(q3, KeysOf(q3, s), MaxPerSource)
        /\ q4 = Drop(q3, e3) /\ e4 \in Evictions(q4, DOMAIN q4, MaxGlobal)
        /\ qname' = Drop(q4, e4)
        /\ orphans' = {k \in DOMAIN response' :
                         k \in orphans \ new \/ <<k[1], response'[k].name>> \in e3 \cup e4}
  BY StoreParts DEF Inv
<1> HIDE DEF job, s
<1>4. /\ new \subseteq Sources \X Addrs /\ IsFiniteSet(new)
      /\ \A k \in new : k[1] = s /\ k[2] \in job.addrs
  <2>1. job.addrs \subseteq Addrs
    BY <1>2 DEF Job
  <2>2. IsFiniteSet({s} \X Addrs)
    BY HintAssumption, FS_Singleton, FS_Product
  <2>3. new \subseteq {s} \X Addrs
    BY <2>1
  <2>4. QED
    BY <1>2, <2>1, <2>2, <2>3, FS_Subset
<1> HIDE DEF new
<1>5. /\ DOMAIN r2 = DOMAIN r1 \ e1 /\ DOMAIN response' = DOMAIN r2 \ e2
      /\ \A k \in DOMAIN response' : k \in DOMAIN r1 /\ response'[k] = r1[k]
      /\ response' = [k \in DOMAIN response' |-> response'[k]]
  BY <1>3 DEF Drop
<1>6. \A k \in DOMAIN r1 : r1[k] \in Label /\ k \in Sources \X Addrs
  <2>1. [name |-> n, left |-> job.left, vm |-> lookup.vm] \in Label
    BY <1>2 DEF Job, Label
  <2>2. QED
    BY <1>3, <1>4, <2>1 DEF Inv, TypeInv, CachesTyped
<1>7. DOMAIN response' \subseteq Sources \X Addrs /\ response' \in [DOMAIN response' -> Label]
  BY <1>5, <1>6
<1> DEFINE own == <<s, n>>
           entry == [addrs |-> job.addrs, left |-> job.left]
<1>8. /\ DOMAIN q1 = DOMAIN qname \cup {own} /\ DOMAIN q1 \subseteq Sources \X DnsNames
      /\ q1[own] = entry /\ \A k \in DOMAIN qname : k # own => q1[k] = qname[k]
      /\ q1 \in [DOMAIN q1 -> History]
  <2>1. entry \in History /\ own \in Sources \X DnsNames
    BY <1>2 DEF Job, History
  <2>2. qname \in [DOMAIN qname -> History] /\ DOMAIN qname \subseteq Sources \X DnsNames
    BY DEF Inv, TypeInv, CachesTyped
  <2> HIDE DEF own, entry
  <2>3. q1 = Put(qname, own, entry)
    BY <1>3 DEF own, entry
  <2>4. QED
    BY <2>1, <2>2, <2>3 DEF Put
<1>9. /\ DOMAIN q3 = DOMAIN q1 /\ q3 \in [DOMAIN q1 -> History]
      /\ \A k \in DOMAIN q1 :
            /\ q3[k].left = q1[k].left
            /\ \A a \in q1[k].addrs : Labelled(response', k[1], k[2], a) => a \in q3[k].addrs
  BY <1>3, <1>8, PrunedKeeps
<1>10. /\ DOMAIN q4 = DOMAIN q3 \ e3 /\ DOMAIN qname' = DOMAIN q4 \ e4
       /\ \A k \in DOMAIN qname' : k \in DOMAIN q3 /\ qname'[k] = q3[k]
       /\ qname' = [k \in DOMAIN qname' |-> qname'[k]]
  BY <1>3 DEF Drop
<1>11. DOMAIN qname' \subseteq Sources \X DnsNames /\ qname' \in [DOMAIN qname' -> History]
  BY <1>8, <1>9, <1>10
<1>12. LookupTyped'
  <2>1. DOMAIN jobs' \subseteq DnsNames /\ jobs' \in [DOMAIN jobs' -> Job]
    BY <1>1 DEF Inv, TypeInv, LookupTyped, Drop
  <2>2. DOMAIN found' \subseteq DnsNames /\ found' \in [DOMAIN found' -> SUBSET Addrs]
    <3>1. job.addrs \in SUBSET Addrs
      BY <1>2 DEF Job
    <3>2. DOMAIN found \subseteq DnsNames /\ found \in [DOMAIN found -> SUBSET Addrs]
      BY DEF Inv, TypeInv, LookupTyped
    <3>3. found' = [k \in DOMAIN found \cup {n} |-> IF k = n THEN job.addrs ELSE found[k]]
      BY <1>1 DEF Put
    <3>4. QED
      BY <3>1, <3>2, <3>3
  <2>3. QED
    BY <1>1, <1>2, <2>1, <2>2 DEF Inv, TypeInv, LookupTyped, Looking
<1>13. TypeInv'
  BY <1>1, <1>7, <1>11, <1>12 DEF Inv, TypeInv, SourcesTyped, CachesTyped, sourceVars
<1>14. Bounded(response')
  <2>1. Bounded(response)
    BY DEF Inv, BoundInv
  <2>4. IsFiniteSet(DOMAIN r1)
    <3>1. IsFiniteSet(DOMAIN response)
      BY <2>1 DEF Bounded
    <3>2. IsFiniteSet(DOMAIN response \ OwnOldLabels(s, n))
      BY <3>1, FS_Difference
    <3>3. IsFiniteSet((DOMAIN response \ OwnOldLabels(s, n)) \cup new)
      BY <1>4, <3>2, FS_Union
    <3>4. QED
      BY <1>3, <3>3
  <2>2. \A k \in DOMAIN r1 \ DOMAIN response : k[1] = s
    BY <1>3, <1>4
  <2>3. QED
    <3> DEFINE after == response'
    <3>1. DOMAIN after = DOMAIN r2 \ e2 /\ DOMAIN r2 = DOMAIN r1 \ e1
      BY <1>5
    <3>2. e1 \in Evictions(r1, KeysOf(r1, s), MaxPerSource) /\ e2 \in Evictions(r2, DOMAIN r2, MaxGlobal)
      BY <1>3
    <3> HIDE DEF after
    <3>3. Bounded(after)
      BY <1>2, <2>1, <2>2, <2>4, <3>1, <3>2, StoredBounded
    <3>4. QED
      BY <3>3 DEF after
<1>15. Bounded(qname')
  <2>1. Bounded(qname)
    BY DEF Inv, BoundInv
  <2>4. IsFiniteSet(DOMAIN q3)
    <3>1. IsFiniteSet(DOMAIN qname)
      BY <2>1 DEF Bounded
    <3>2. IsFiniteSet(DOMAIN qname \cup {own})
      BY <3>1, FS_AddElement
    <3>3. QED
      BY <1>8, <1>9, <3>2
  <2>2. \A k \in DOMAIN q3 \ DOMAIN qname : k[1] = s
    BY <1>8, <1>9
  <2>3. QED
    <3> DEFINE after == qname'
    <3>1. DOMAIN after = DOMAIN q4 \ e4 /\ DOMAIN q4 = DOMAIN q3 \ e3
      BY <1>10
    <3>2. e3 \in Evictions(q3, KeysOf(q3, s), MaxPerSource) /\ e4 \in Evictions(q4, DOMAIN q4, MaxGlobal)
      BY <1>3
    <3> HIDE DEF after
    <3>3. Bounded(after)
      BY <1>2, <2>1, <2>2, <2>4, <3>1, <3>2, StoredBounded
    <3>4. QED
      BY <3>3 DEF after
<1>16. BoundInv'
  BY <1>14, <1>15 DEF BoundInv, Bounded, KeysOf
<1>17. LabelsHaveTheirHistory'
  <2> SUFFICES ASSUME NEW k \in DOMAIN response' \ orphans'
               PROVE  LET h == <<k[1], response'[k].name>> IN
                      h \in DOMAIN qname' /\ k[2] \in qname'[h].addrs /\ qname'[h].left = response'[k].left
    BY DEF LabelsHaveTheirHistory
  <2> DEFINE h == <<k[1], response'[k].name>>
  <2>1. h \notin e3 /\ h \notin e4 /\ k \notin orphans \ new
    BY <1>3
  <2>2. k \in DOMAIN r1 /\ response'[k] = r1[k] /\ k \in Sources \X Addrs
    BY <1>5, <1>6
  <2>3. Labelled(response', h[1], h[2], k[2])
    BY <2>2 DEF Labelled
  <2>4. h \in DOMAIN q1 /\ k[2] \in q1[h].addrs /\ q1[h].left = response'[k].left
    <3>1. CASE k \in new
      <4>1. h = own
        BY <1>3, <1>4, <2>2, <3>1
      <4>2. r1[k].left = job.left
        BY <1>3, <3>1
      <4>3. QED
        BY <1>4, <1>8, <2>2, <3>1, <4>1, <4>2
    <3>2. CASE k \notin new
      <4>1. k \in DOMAIN response /\ k \notin OwnOldLabels(s, n) /\ response'[k] = response[k]
        BY <1>3, <2>2, <3>2
      <4>2. h \in DOMAIN qname /\ k[2] \in qname[h].addrs /\ qname[h].left = response[k].left
        BY <2>1, <3>2, <4>1 DEF Inv, LabelsHaveTheirHistory
      <4>3. h # own
        <5>1. ASSUME h = own
              PROVE  FALSE
          <6>1. k[1] = s /\ response[k].name = n
            BY <4>1, <5>1
          <6>2. k = <<s, k[2]>>
            BY <2>2, <6>1
          <6>3. own \in DOMAIN qname /\ k[2] \in qname[own].addrs
            BY <4>2, <5>1
          <6>4. Labelled(response, s, n, k[2])
            BY <4>1, <6>1, <6>2 DEF Labelled
          <6>5. k \in OwnOldLabels(s, n)
            BY <6>2, <6>3, <6>4 DEF OwnOldLabels
          <6>6. QED
            BY <4>1, <6>5
        <5>2. QED
          BY <5>1
      <4>4. QED
        BY <1>8, <4>1, <4>2, <4>3
    <3>3. QED
      BY <3>1, <3>2
  <2>5. h \in DOMAIN q3 /\ k[2] \in q3[h].addrs /\ q3[h].left = response'[k].left
    <3> HIDE DEF h
    <3>1. QED
      BY <1>9, <2>3, <2>4
  <2>6. QED
    BY <1>10, <2>1, <2>5
<1>18. AllowInv'
  <2>1. \A t : Allowed(t)' = Allowed(t)
    BY <1>1 DEF Allowed, sourceVars
  <2>2. IsOf(s, lookup.vm) => n \in Allowed(s)
    BY <1>1, <1>2 DEF Inv, AllowInv, LookupAllowed, s
  <2>3. \A k \in DOMAIN response' : IsOf(k[1], response'[k].vm) => response'[k].name \in Allowed(k[1])
    <3> SUFFICES ASSUME NEW k \in DOMAIN response', IsOf(k[1], response'[k].vm)
                 PROVE  response'[k].name \in Allowed(k[1])
      OBVIOUS
    <3>1. CASE k \in new
      BY <1>3, <1>4, <1>5, <2>2, <3>1
    <3>2. CASE k \notin new
      BY <1>3, <1>5, <3>2 DEF Inv, AllowInv, LabelsAllowed
    <3>3. QED
      BY <3>1, <3>2
  <2>4. DOMAIN jobs' \subseteq DOMAIN jobs
    BY <1>1 DEF Drop
  <2>5. LabelsAllowed'
    BY <1>1, <2>1, <2>3 DEF LabelsAllowed, IsOf, sourceVars
  <2>6. LookupAllowed'
    BY <1>1, <2>1, <2>4 DEF Inv, AllowInv, LookupAllowed, IsOf, sourceVars
  <2>7. QED
    BY <2>5, <2>6 DEF AllowInv
<1>19. VmInv'
  <2>1. /\ IsOf(s, lookup.vm) \/ <<s, lookup.vm>> \in raced
        /\ lookup.vm <= vm[s]
    BY <1>2 DEF Inv, VmInv, LookupVm, s
  <2>2. \A k \in DOMAIN response' :
           /\ IsOf(k[1], response'[k].vm) \/ <<k[1], response'[k].vm>> \in raced
           /\ response'[k].vm <= vm[k[1]]
    <3> SUFFICES ASSUME NEW k \in DOMAIN response'
                 PROVE  /\ IsOf(k[1], response'[k].vm) \/ <<k[1], response'[k].vm>> \in raced
                        /\ response'[k].vm <= vm[k[1]]
      OBVIOUS
    <3>1. CASE k \in new
      BY <1>3, <1>4, <1>5, <2>1, <3>1
    <3>2. CASE k \notin new
      BY <1>3, <1>5, <3>2 DEF Inv, VmInv, LabelsVm, HintsGoWithTheirVm
    <3>3. QED
      BY <3>1, <3>2
  <2>3. LabelsVm'
    BY <1>1, <2>2 DEF LabelsVm, HintsGoWithTheirVm, IsOf, sourceVars
  <2>4. LookupVm'
    BY <1>1 DEF Inv, VmInv, LookupVm, Looking, IsOf, sourceVars
  <2>5. QED
    BY <2>3, <2>4 DEF VmInv
<1>20. QED
  BY <1>13, <1>16, <1>17, <1>18, <1>19 DEF Inv

-------------------------------------------------------------------------------
(* lazy_dns_name and the resolver *)

\* A step of the lookup or of its jobs: the other parts of Inv are about
\* variables that stay.
LEMMA LookupStep ==
  ASSUME Inv, UNCHANGED << sourceVars, cacheVars >>, LookupTyped', LookupAllowed', LookupVm'
  PROVE  Inv'
<1>1. /\ live' = live /\ vm' = vm /\ RULES' = RULES /\ raced' = raced
      /\ response' = response /\ qname' = qname /\ orphans' = orphans
  BY DEF sourceVars, cacheVars
<1>2. TypeInv'
  BY <1>1 DEF Inv, TypeInv, SourcesTyped, CachesTyped
<1>3. BoundInv' /\ LabelsHaveTheirHistory'
  BY <1>1 DEF Inv, BoundInv, Bounded, KeysOf, LabelsHaveTheirHistory
<1>4. LabelsAllowed' /\ LabelsVm'
  BY <1>1 DEF Inv, AllowInv, LabelsAllowed, Allowed, VmInv, LabelsVm, HintsGoWithTheirVm, IsOf
<1>5. QED
  BY <1>2, <1>3, <1>4 DEF Inv, AllowInv, VmInv

LEMMA SameAllowed ==
  ASSUME UNCHANGED sourceVars
  PROVE  \A s : Allowed(s)' = Allowed(s)
BY DEF sourceVars, Allowed

LEMMA IdleTyped == Idle \in Lookup /\ DOMAIN Idle.rules = {} /\ DOMAIN Idle.refresh = {}
<1>1. << >> \in Seq(Rule) /\ << >> \in Seq(DnsNames) /\ DOMAIN << >> = {}
  BY EmptyList
<1>2. QED
  BY <1>1 DEF Idle, Lookup

LEMMA AnswerInv ==
  ASSUME Inv, NEW n \in DnsNames, Answer(n)
  PROVE  Inv'
<1>1. /\ n \in DOMAIN jobs /\ DOMAIN jobs' = DOMAIN jobs /\ lookup' = lookup /\ found' = found
      /\ UNCHANGED << sourceVars, cacheVars >>
  BY DEF Answer
<1>2. jobs' \in [DOMAIN jobs -> Job]
  <2>1. PICK addrs \in SUBSET Addrs, ttl \in Nat :
          jobs' = [jobs EXCEPT ![n] = [answered |-> TRUE, addrs |-> addrs, left |-> ttl]]
    BY HintAssumption DEF Answer
  <2>2. [answered |-> TRUE, addrs |-> addrs, left |-> ttl] \in Job
    BY DEF Job
  <2>3. jobs \in [DOMAIN jobs -> Job]
    BY DEF Inv, TypeInv, LookupTyped
  <2>4. QED
    BY <1>1, <2>1, <2>2, <2>3
<1>3. LookupTyped'
  BY <1>1, <1>2 DEF Inv, TypeInv, LookupTyped, Looking
<1>4. LookupAllowed'
  <2>1. \A s : Allowed(s)' = Allowed(s)
    BY <1>1, SameAllowed
  <2>2. QED
    BY <1>1, <2>1 DEF Inv, AllowInv, LookupAllowed, HintRule, IsOf, sourceVars
<1>5. LookupVm'
  BY <1>1 DEF Inv, VmInv, LookupVm, Looking, IsOf, sourceVars
<1>6. QED
  BY <1>1, <1>3, <1>4, <1>5, LookupStep

LEMMA EnrichInv ==
  ASSUME Inv, NEW s \in Sources, NEW a \in Addrs, Enrich(s, a)
  PROVE  Inv'
<1>1. /\ lookup.at = "idle" /\ s \in live
      /\ lookup' = [Idle EXCEPT !.at = "stale", !.source = s, !.addr = a, !.vm = vm[s]]
      /\ jobs' = jobs /\ found' = found /\ UNCHANGED << sourceVars, cacheVars >>
  BY DEF Enrich
<1>2. vm[s] \in Nat
  BY DEF Inv, TypeInv, SourcesTyped
<1>3. /\ lookup'.at = "stale" /\ lookup'.source = s /\ lookup'.addr = a /\ lookup'.vm = vm[s]
      /\ lookup'.match = None /\ lookup'.rules = << >> /\ lookup'.refresh = << >>
  BY <1>1 DEF Idle
<1>4. lookup' \in Lookup
  BY <1>1, <1>2, IdleTyped DEF Lookup
<1>5. DOMAIN jobs = {} /\ DOMAIN found = {}
  BY <1>1 DEF Inv, TypeInv, LookupTyped
<1>6. LookupTyped'
  BY <1>1, <1>3, <1>4, <1>5, EmptyList DEF Inv, TypeInv, LookupTyped, Looking
<1>7. LookupAllowed'
  <2>1. DOMAIN lookup'.rules = {} /\ DOMAIN lookup'.refresh = {} /\ DOMAIN jobs' = {}
    BY <1>1, <1>3, <1>5, EmptyList
  <2>2. QED
    BY <1>3, <2>1 DEF LookupAllowed
<1>8. LookupVm'
  BY <1>1, <1>2, <1>3 DEF LookupVm, IsOf, sourceVars
<1>9. QED
  BY <1>1, <1>6, <1>7, <1>8, LookupStep

LEMMA StaleRuleInv ==
  ASSUME Inv, StaleRule
  PROVE  Inv'
<1> DEFINE k == <<lookup.source, lookup.addr>>
<1>1. lookup.at = "stale" /\ Looking /\ found' = found /\ UNCHANGED << sourceVars, cacheVars >>
  BY DEF StaleRule, Looking
<1>2. /\ lookup \in Lookup /\ lookup.source \in Sources /\ lookup.addr \in Addrs
      /\ DOMAIN jobs = {} /\ DOMAIN found = {} /\ jobs \in [DOMAIN jobs -> Job]
      /\ found \in [DOMAIN found -> SUBSET Addrs]
  BY <1>1 DEF Inv, TypeInv, LookupTyped
<1>3. \A s : Allowed(s)' = Allowed(s)
  BY <1>1, SameAllowed
<1>4. CASE k \in DOMAIN response /\ response[k].left = 0
  <2> DEFINE name == response[k].name
             owner == response[k].vm
  <2>1. /\ lookup' = [lookup EXCEPT !.at = "refreshStale", !.stale = name, !.vm = owner]
        /\ jobs' = Put(jobs, name, Asked)
    BY <1>4 DEF StaleRule
  <2>2. /\ name \in DnsNames /\ owner \in Nat /\ owner <= vm[lookup.source]
        /\ IsOf(lookup.source, owner) => name \in Allowed(lookup.source)
        /\ IsOf(lookup.source, owner) \/ <<lookup.source, owner>> \in raced
    <3>1. response[k] \in Label
      BY <1>4 DEF Inv, TypeInv, CachesTyped
    <3>2. QED
      BY <1>4, <3>1 DEF Label, Inv, AllowInv, LabelsAllowed, VmInv, LabelsVm, HintsGoWithTheirVm
  <2> HIDE DEF name, owner
  <2>3. DOMAIN jobs' = {name} /\ jobs' \in [DOMAIN jobs' -> Job]
    <3>1. Asked \in Job
      BY DEF Asked, Job
    <3>2. QED
      BY <1>2, <2>1, <3>1 DEF Put
  <2>4. /\ lookup'.at = "refreshStale" /\ lookup'.stale = name /\ lookup'.source = lookup.source
        /\ lookup'.addr = lookup.addr /\ lookup'.vm = owner /\ lookup'.match = None
        /\ DOMAIN lookup'.rules = {} /\ DOMAIN lookup'.refresh = {} /\ lookup' \in Lookup
    <3>1. lookup.match = None /\ DOMAIN lookup.rules = {} /\ DOMAIN lookup.refresh = {}
      BY <1>1 DEF Inv, TypeInv, LookupTyped
    <3>2. QED
      BY <1>2, <2>1, <2>2, <3>1 DEF Lookup
  <2>5. LookupTyped'
    BY <1>1, <1>2, <2>2, <2>3, <2>4 DEF LookupTyped, Looking
  <2>6. LookupAllowed'
    BY <1>1, <1>3, <2>2, <2>3, <2>4 DEF LookupAllowed, IsOf, sourceVars
  <2>7. LookupVm'
    BY <1>1, <2>2, <2>4 DEF LookupVm, IsOf, sourceVars
  <2>8. QED
    BY <1>1, <2>5, <2>6, <2>7, LookupStep
<1>5. CASE ~ (k \in DOMAIN response /\ response[k].left = 0)
  <2>1. lookup' = [lookup EXCEPT !.at = "rules"] /\ jobs' = jobs
    BY <1>5 DEF StaleRule
  <2>2. /\ lookup'.at = "rules" /\ lookup'.source = lookup.source
        /\ lookup'.addr = lookup.addr /\ lookup'.vm = lookup.vm /\ lookup'.match = lookup.match
        /\ lookup'.rules = lookup.rules /\ lookup'.refresh = lookup.refresh /\ lookup' \in Lookup
    BY <1>2, <2>1 DEF Lookup
  <2>3. LookupTyped'
    BY <1>1, <1>2, <2>1, <2>2 DEF Inv, TypeInv, LookupTyped, Looking
  <2>4. LookupAllowed'
    BY <1>1, <1>3, <2>1, <2>2 DEF Inv, AllowInv, LookupAllowed, HintRule, IsOf, sourceVars
  <2>5. LookupVm'
    BY <1>1, <2>2 DEF Inv, VmInv, LookupVm, Looking, IsOf, sourceVars
  <2>6. QED
    BY <1>1, <2>3, <2>4, <2>5, LookupStep
<1>6. QED
  BY <1>4, <1>5

\* lazy_dns_name returns a name, once its jobs are done.
LEMMA FinishInv ==
  ASSUME Inv, Looking, DOMAIN jobs = {}, UNCHANGED << sourceVars, cacheVars, jobs >>,
         NEW name \in DnsNames \cup {None}, Finish(name),
         IsOf(lookup.source, lookup.vm) => name \in Allowed(lookup.source) \cup {None}
  PROVE  Inv'
<1>1. /\ lookup'.at = "done" /\ lookup'.source = lookup.source /\ lookup'.vm = lookup.vm
      /\ lookup'.match = name /\ lookup'.rules = << >> /\ lookup'.refresh = << >> /\ found' = Empty
  BY DEF Finish, Idle
<1>2. lookup' \in Lookup
  <2>1. lookup.source \in Sources \cup {None} /\ lookup.vm \in Nat
    BY DEF Inv, TypeInv, LookupTyped, Lookup
  <2>2. QED
    BY <2>1, IdleTyped DEF Finish, Lookup
<1>3. LookupTyped'
  <2>1. DOMAIN found' = {} /\ found' \in [DOMAIN found' -> SUBSET Addrs]
    BY <1>1, EmptyFcn
  <2>2. DOMAIN jobs' = {} /\ jobs' \in [DOMAIN jobs' -> Job]
    BY DEF Inv, TypeInv, LookupTyped
  <2>3. QED
    BY <1>1, <1>2, <2>1, <2>2 DEF LookupTyped, Looking
<1>4. LookupAllowed'
  <2>1. DOMAIN lookup'.rules = {} /\ DOMAIN lookup'.refresh = {}
    BY <1>1, EmptyList
  <2>2. \A s : Allowed(s)' = Allowed(s)
    BY SameAllowed
  <2>3. QED
    BY <1>1, <2>1, <2>2 DEF LookupAllowed, IsOf, sourceVars
<1>5. LookupVm'
  BY <1>1 DEF Inv, VmInv, LookupVm, Looking, sourceVars
<1>6. QED
  BY <1>3, <1>4, <1>5, LookupStep

\* The lookup goes on, with no job: every name it holds is one it may ask for.
LEMMA GoesOn ==
  ASSUME Inv, Looking, DOMAIN jobs = {}, UNCHANGED << sourceVars, cacheVars, jobs >>,
         NEW at \in {"rules", "history"}, lookup'.at = at,
         lookup' \in Lookup, lookup'.source = lookup.source, lookup'.addr = lookup.addr,
         lookup'.vm = lookup.vm \/ IsOf(lookup.source, lookup'.vm), found' = Empty,
         at = "rules" => lookup'.match = None /\ DOMAIN lookup'.rules = {} /\ DOMAIN lookup'.refresh = {},
         IsOf(lookup.source, lookup'.vm) =>
            /\ lookup'.match \in Allowed(lookup.source) \cup {None}
            /\ \A i \in DOMAIN lookup'.refresh : lookup'.refresh[i] \in Allowed(lookup.source)
            /\ \A i \in DOMAIN lookup'.rules :
                  HintRule(lookup'.rules[i]) => lookup'.rules[i].name \in Allowed(lookup.source)
  PROVE  Inv'
<1>1. LookupTyped'
  <2>1. DOMAIN found' = {} /\ found' \in [DOMAIN found' -> SUBSET Addrs]
    BY EmptyFcn
  <2>2. DOMAIN jobs' = {} /\ jobs' \in [DOMAIN jobs' -> Job]
    BY DEF Inv, TypeInv, LookupTyped
  <2>3. lookup.source \in Sources /\ lookup.addr \in Addrs
    BY DEF Inv, TypeInv, LookupTyped
  <2>4. QED
    BY <2>1, <2>2, <2>3 DEF LookupTyped, Looking
<1>2. LookupAllowed'
  <2>1. \A s : Allowed(s)' = Allowed(s)
    BY SameAllowed
  <2>2. QED
    BY <2>1 DEF LookupAllowed, HintRule, IsOf, sourceVars
<1>3. LookupVm'
  <2>1. lookup'.vm \in Nat
    BY DEF Lookup
  <2>2. CASE lookup'.vm = lookup.vm
    BY <2>2 DEF Inv, VmInv, LookupVm, Looking, IsOf, sourceVars
  <2>3. CASE IsOf(lookup.source, lookup'.vm)
    BY <2>1, <2>3 DEF LookupVm, IsOf, sourceVars
  <2>4. QED
    BY <2>2, <2>3
<1>4. QED
  BY <1>1, <1>2, <1>3, LookupStep

LEMMA StaleRefreshedInv ==
  ASSUME Inv, StaleRefreshed
  PROVE  Inv'
<1>1. /\ lookup.at = "refreshStale" /\ Looking /\ DOMAIN jobs = {}
      /\ UNCHANGED << sourceVars, cacheVars, jobs >>
  BY EmptyFcn DEF StaleRefreshed, Looking
<1>2. lookup \in Lookup /\ lookup.stale \in DnsNames /\ lookup.source \in Sources
  BY <1>1 DEF Inv, TypeInv, LookupTyped
<1>3. IsOf(lookup.source, lookup.vm) => lookup.stale \in Allowed(lookup.source)
  BY <1>1, <1>2 DEF Inv, AllowInv, LookupAllowed
<1>4. CASE lookup.addr \in found[lookup.stale]
  <2>1. Finish(lookup.stale)
    BY <1>4 DEF StaleRefreshed
  <2>2. QED
    BY <1>1, <1>2, <1>3, <2>1, FinishInv
<1>5. CASE ~ (lookup.addr \in found[lookup.stale])
  <2>1. lookup' = [lookup EXCEPT !.at = "rules"] /\ found' = Empty
    BY <1>5 DEF StaleRefreshed
  <2>2. /\ lookup'.at = "rules" /\ lookup'.source = lookup.source
        /\ lookup'.addr = lookup.addr /\ lookup'.vm = lookup.vm /\ lookup'.match = lookup.match
        /\ lookup'.rules = lookup.rules /\ lookup'.refresh = lookup.refresh /\ lookup' \in Lookup
    BY <1>2, <2>1 DEF Lookup
  <2>3. IsOf(lookup.source, lookup'.vm) =>
            /\ lookup'.match \in Allowed(lookup.source) \cup {None}
            /\ \A i \in DOMAIN lookup'.refresh : lookup'.refresh[i] \in Allowed(lookup.source)
            /\ \A i \in DOMAIN lookup'.rules :
                  HintRule(lookup'.rules[i]) => lookup'.rules[i].name \in Allowed(lookup.source)
    BY <1>2, <2>2 DEF Inv, AllowInv, LookupAllowed
  <2>4. lookup'.match = None /\ DOMAIN lookup'.rules = {} /\ DOMAIN lookup'.refresh = {}
    BY <1>1, <2>2 DEF Inv, TypeInv, LookupTyped
  <2>5. QED
    BY <1>1, <2>1, <2>2, <2>3, <2>4, GoesOn
<1>6. QED
  BY <1>4, <1>5

LEMMA CopyRulesInv ==
  ASSUME Inv, CopyRules
  PROVE  Inv'
<1> DEFINE rules == ListAt(RULES, lookup.source)
           owner == IF lookup.source \in live THEN vm[lookup.source] ELSE lookup.vm
<1>1. /\ lookup.at = "rules" /\ Looking /\ lookup' = [lookup EXCEPT !.at = "history", !.rules = rules, !.vm = owner]
      /\ UNCHANGED << sourceVars, cacheVars, jobs, found >>
  BY DEF CopyRules, Looking
<1>2. /\ lookup \in Lookup /\ lookup.source \in Sources /\ DOMAIN jobs = {} /\ found = Empty
  BY <1>1, EmptyFcn DEF Inv, TypeInv, LookupTyped
<1>3. rules \in Seq(Rule)
  BY EmptyList DEF Inv, TypeInv, SourcesTyped, ListAt
<1>4. \A i \in DOMAIN rules : rules[i].hinted => rules[i].name \in Allowed(lookup.source)
  <2>1. CASE lookup.source \in DOMAIN RULES
    BY <2>1 DEF ListAt, Allowed
  <2>2. CASE lookup.source \notin DOMAIN RULES
    BY <2>2, EmptyList DEF ListAt
  <2>3. QED
    BY <2>1, <2>2
<1>5. owner \in Nat /\ (owner = lookup.vm \/ IsOf(lookup.source, owner))
  BY <1>2 DEF Inv, TypeInv, SourcesTyped, Lookup, IsOf
<1>6. lookup.match = None /\ DOMAIN lookup.refresh = {}
  BY <1>1 DEF Inv, TypeInv, LookupTyped
<1> HIDE DEF rules, owner
<1>7. /\ lookup'.at = "history" /\ lookup'.source = lookup.source
      /\ lookup'.addr = lookup.addr /\ lookup'.vm = owner /\ lookup'.match = lookup.match
      /\ lookup'.rules = rules /\ lookup'.refresh = lookup.refresh /\ lookup' \in Lookup
  BY <1>1, <1>2, <1>3, <1>5 DEF Lookup
<1>8. IsOf(lookup.source, lookup'.vm) =>
          /\ lookup'.match \in Allowed(lookup.source) \cup {None}
          /\ \A i \in DOMAIN lookup'.refresh : lookup'.refresh[i] \in Allowed(lookup.source)
          /\ \A i \in DOMAIN lookup'.rules :
                HintRule(lookup'.rules[i]) => lookup'.rules[i].name \in Allowed(lookup.source)
  BY <1>4, <1>7, <1>6 DEF HintRule
<1>9. QED
  BY <1>1, <1>2, <1>7, <1>8, <1>5, GoesOn

LEMMA ReadHistoryInv ==
  ASSUME Inv, ReadHistory
  PROVE  Inv'
<1> DEFINE rule == Head(lookup.rules)
           k == <<lookup.source, rule.name>>
           rest == [lookup EXCEPT !.rules = Tail(lookup.rules)]
<1>1. /\ lookup.at = "history" /\ Looking /\ lookup.rules # << >>
      /\ UNCHANGED << sourceVars, cacheVars, jobs, found >>
  BY DEF ReadHistory, Looking
<1>2. /\ lookup \in Lookup /\ lookup.source \in Sources /\ DOMAIN jobs = {} /\ found = Empty
      /\ lookup.rules \in Seq(Rule) /\ lookup.refresh \in Seq(DnsNames)
  BY <1>1, EmptyFcn DEF Inv, TypeInv, LookupTyped, Lookup
<1>3. \/ lookup' = rest
      \/ HintRule(rule) /\ lookup' = [rest EXCEPT !.refresh = Append(lookup.refresh, rule.name)]
      \/ HintRule(rule) /\ lookup' = [rest EXCEPT !.match = rule.name]
  <2>1. rest.refresh = lookup.refresh
    OBVIOUS
  <2>2. QED
    BY <2>1 DEF ReadHistory
<1>4. /\ rule \in Rule /\ 1 \in DOMAIN lookup.rules /\ lookup.rules[1] = rule
      /\ Tail(lookup.rules) \in Seq(Rule)
      /\ \A i \in DOMAIN Tail(lookup.rules) :
            i + 1 \in DOMAIN lookup.rules /\ Tail(lookup.rules)[i] = lookup.rules[i + 1]
  <2>1. /\ Head(lookup.rules) = lookup.rules[1] /\ Tail(lookup.rules) \in Seq(Rule)
        /\ Len(Tail(lookup.rules)) = Len(lookup.rules) - 1 /\ Len(lookup.rules) \in Nat
        /\ Head(lookup.rules) \in Rule
        /\ \A i \in 1 .. Len(Tail(lookup.rules)) : Tail(lookup.rules)[i] = lookup.rules[i + 1]
    BY <1>1, <1>2, HeadTailProperties, LenProperties
  <2>2. DOMAIN Tail(lookup.rules) = 1 .. Len(Tail(lookup.rules)) /\ DOMAIN lookup.rules = 1 .. Len(lookup.rules)
    BY <1>2, <2>1, LenProperties
  <2>3. Len(lookup.rules) # 0
    BY <1>1, <1>2, EmptyList, LenProperties
  <2>4. QED
    BY <2>1, <2>2, <2>3
<1> HIDE DEF rule
<1>5. /\ Append(lookup.refresh, rule.name) \in Seq(DnsNames) /\ rule.name \in DnsNames
      /\ \A i \in DOMAIN Append(lookup.refresh, rule.name) :
            \/ i \in DOMAIN lookup.refresh /\ Append(lookup.refresh, rule.name)[i] = lookup.refresh[i]
            \/ Append(lookup.refresh, rule.name)[i] = rule.name
  <2>1. rule.name \in DnsNames
    BY <1>4 DEF Rule
  <2>2. QED
    BY <1>2, <2>1, AppendProperties, LenProperties
<1>6. /\ lookup'.at = "history" /\ lookup'.source = lookup.source /\ lookup'.addr = lookup.addr
      /\ lookup'.vm = lookup.vm /\ lookup'.rules = Tail(lookup.rules) /\ lookup' \in Lookup
      /\ \/ lookup'.refresh = lookup.refresh /\ lookup'.match = lookup.match
         \/ /\ HintRule(rule)
            /\ lookup'.refresh = Append(lookup.refresh, rule.name) /\ lookup'.match = lookup.match
         \/ HintRule(rule) /\ lookup'.refresh = lookup.refresh /\ lookup'.match = rule.name
  BY <1>1, <1>2, <1>3, <1>4, <1>5 DEF Lookup
<1>7. IsOf(lookup.source, lookup'.vm) =>
          /\ lookup'.match \in Allowed(lookup.source) \cup {None}
          /\ \A i \in DOMAIN lookup'.refresh : lookup'.refresh[i] \in Allowed(lookup.source)
          /\ \A i \in DOMAIN lookup'.rules :
                HintRule(lookup'.rules[i]) => lookup'.rules[i].name \in Allowed(lookup.source)
  <2> SUFFICES ASSUME IsOf(lookup.source, lookup'.vm)
               PROVE  /\ lookup'.match \in Allowed(lookup.source) \cup {None}
                      /\ \A i \in DOMAIN lookup'.refresh : lookup'.refresh[i] \in Allowed(lookup.source)
                      /\ \A i \in DOMAIN lookup'.rules :
                            HintRule(lookup'.rules[i]) => lookup'.rules[i].name \in Allowed(lookup.source)
    OBVIOUS
  <2>1. /\ lookup.match \in Allowed(lookup.source) \cup {None}
        /\ \A i \in DOMAIN lookup.refresh : lookup.refresh[i] \in Allowed(lookup.source)
        /\ \A i \in DOMAIN lookup.rules :
              HintRule(lookup.rules[i]) => lookup.rules[i].name \in Allowed(lookup.source)
    BY <1>2, <1>6 DEF Inv, AllowInv, LookupAllowed
  <2>2. HintRule(rule) => rule.name \in Allowed(lookup.source)
    BY <1>4, <2>1
  <2>3. \A i \in DOMAIN lookup'.rules :
            HintRule(lookup'.rules[i]) => lookup'.rules[i].name \in Allowed(lookup.source)
    BY <1>4, <1>6, <2>1
  <2>4. QED
    BY <1>5, <1>6, <2>1, <2>2, <2>3
<1>8. QED
  BY <1>1, <1>2, <1>6, <1>7, GoesOn

LEMMA SubmitRefreshesInv ==
  ASSUME Inv, SubmitRefreshes
  PROVE  Inv'
<1>1. /\ lookup.at = "history" /\ Looking /\ lookup' = [lookup EXCEPT !.at = "refresh"]
      /\ jobs' = [n \in {lookup.refresh[i] : i \in DOMAIN lookup.refresh} |-> Asked]
      /\ UNCHANGED << sourceVars, cacheVars, found >>
  BY DEF SubmitRefreshes, Looking
<1>2. /\ lookup \in Lookup /\ lookup.source \in Sources /\ lookup.addr \in Addrs /\ DOMAIN found = {}
      /\ found \in [DOMAIN found -> SUBSET Addrs]
  BY <1>1 DEF Inv, TypeInv, LookupTyped
<1>3. /\ lookup'.at = "refresh" /\ lookup'.source = lookup.source
      /\ lookup'.addr = lookup.addr /\ lookup'.vm = lookup.vm /\ lookup'.match = lookup.match
      /\ lookup'.rules = lookup.rules /\ lookup'.refresh = lookup.refresh /\ lookup' \in Lookup
  BY <1>1, <1>2 DEF Lookup
<1>4. DOMAIN jobs' \subseteq DnsNames /\ jobs' \in [DOMAIN jobs' -> Job]
  <2>1. Asked \in Job
    BY DEF Asked, Job
  <2>2. \A i \in DOMAIN lookup.refresh : lookup.refresh[i] \in DnsNames
    BY <1>2, ElementOfSeq, LenProperties DEF Lookup
  <2>3. QED
    BY <1>1, <2>1, <2>2
<1>5. LookupTyped'
  BY <1>1, <1>2, <1>3, <1>4 DEF LookupTyped, Looking
<1>6. LookupAllowed'
  <2>1. \A s : Allowed(s)' = Allowed(s)
    BY <1>1, SameAllowed
  <2>2. QED
    BY <1>1, <1>3, <2>1 DEF Inv, AllowInv, LookupAllowed, HintRule, IsOf, sourceVars
<1>7. LookupVm'
  BY <1>1, <1>3 DEF Inv, VmInv, LookupVm, Looking, IsOf, sourceVars
<1>8. QED
  BY <1>1, <1>5, <1>6, <1>7, LookupStep

LEMMA RefreshedInv ==
  ASSUME Inv, Refreshed
  PROVE  Inv'
<1>1. /\ lookup.at = "refresh" /\ Looking /\ DOMAIN jobs = {}
      /\ UNCHANGED << sourceVars, cacheVars, jobs >>
  BY EmptyFcn DEF Refreshed, Looking
<1>2. lookup \in Lookup /\ lookup.source \in Sources
  BY <1>1 DEF Inv, TypeInv, LookupTyped
<1>3. PICK name : /\ Finish(name)
                  /\ name = lookup.match \/ \E i \in DOMAIN lookup.refresh : name = lookup.refresh[i]
  BY DEF Refreshed
<1>4. name \in DnsNames \cup {None}
  BY <1>2, <1>3, ElementOfSeq, LenProperties DEF Lookup
<1>5. IsOf(lookup.source, lookup.vm) => name \in Allowed(lookup.source) \cup {None}
  BY <1>2, <1>3 DEF Inv, AllowInv, LookupAllowed
<1>6. QED
  BY <1>1, <1>3, <1>4, <1>5, FinishInv

LEMMA ShownInv ==
  ASSUME Inv, Shown
  PROVE  Inv'
<1>1. lookup.at = "done" /\ lookup' = Idle /\ UNCHANGED << sourceVars, cacheVars, jobs, found >>
  BY DEF Shown
<1>2. lookup'.at = "idle" /\ lookup'.source = None /\ lookup'.match = None /\ lookup'.vm = 0
  BY <1>1 DEF Idle
<1>3. DOMAIN jobs = {} /\ DOMAIN found = {}
  BY <1>1 DEF Inv, TypeInv, LookupTyped
<1>4. LookupTyped'
  BY <1>1, <1>2, <1>3, IdleTyped DEF Inv, TypeInv, LookupTyped, Looking
<1>5. LookupAllowed'
  BY <1>1, <1>2, <1>3, IdleTyped DEF LookupAllowed
<1>6. LookupVm'
  BY <1>1, <1>2 DEF Inv, TypeInv, SourcesTyped, LookupVm, Looking, sourceVars
<1>7. QED
  BY <1>1, <1>4, <1>5, <1>6, LookupStep

-------------------------------------------------------------------------------
(* The source map, the rules and the clock *)

LEMMA InitInv == Init => Inv
<1> SUFFICES ASSUME Init
             PROVE  Inv
  OBVIOUS
<1>1. /\ live = Sources \ Numbered /\ vm = [s \in Sources |-> 0] /\ RULES = [s \in live |-> << >>]
      /\ response = Empty /\ qname = Empty /\ lookup = Idle /\ jobs = Empty /\ found = Empty
  BY DEF Init
<1>2. DOMAIN response = {} /\ DOMAIN qname = {} /\ DOMAIN jobs = {} /\ DOMAIN found = {}
  BY <1>1, EmptyFcn
<1>3. SourcesTyped
  BY <1>1, EmptyList DEF SourcesTyped
<1>4. CachesTyped
  BY <1>1, <1>2, EmptyFcn DEF CachesTyped
<1>5. lookup.at = "idle" /\ lookup.source = None /\ lookup.match = None /\ lookup.vm = 0
  BY <1>1 DEF Idle
<1>6. LookupTyped
  BY <1>1, <1>2, <1>5, EmptyFcn, IdleTyped DEF LookupTyped, Looking
<1>7. \A dict : DOMAIN dict = {} => Bounded(dict)
  <2> SUFFICES ASSUME NEW dict, DOMAIN dict = {}
               PROVE  Bounded(dict)
    OBVIOUS
  <2>1. \A s \in Sources : KeysOf(dict, s) = {}
    BY DEF KeysOf
  <2>2. IsFiniteSet({}) /\ Cardinality({}) = 0
    BY FS_EmptySet
  <2>3. MaxGlobal >= 0 /\ MaxPerSource >= 0
    BY HintAssumption
  <2>4. \A t \in Sources : Cardinality(KeysOf(dict, t)) <= MaxPerSource
    BY <2>1, <2>2, <2>3
  <2>5. QED
    BY <2>2, <2>3, <2>4 DEF Bounded
<1>8. BoundInv
  BY <1>2, <1>7 DEF BoundInv
<1>9. LabelsHaveTheirHistory /\ LabelsAllowed /\ LabelsVm
  BY <1>2 DEF LabelsHaveTheirHistory, LabelsAllowed, LabelsVm, HintsGoWithTheirVm
<1>10. LookupAllowed
  BY <1>1, <1>2, <1>5, IdleTyped DEF LookupAllowed
<1>11. LookupVm
  BY <1>1, <1>5 DEF LookupVm, Looking
<1>12. QED
  BY <1>3, <1>4, <1>6, <1>8, <1>9, <1>10, <1>11 DEF Inv, TypeInv, AllowInv, VmInv

\* A VM that has its name after a step had it before, and no allow rule of it
\* has gone: then neither labels nor the lookup hold a name too many.
Grows ==
    \A t \in Sources : t \in live' /\ vm'[t] <= vm[t] =>
        t \in live /\ vm'[t] = vm[t] /\ Allowed(t) \subseteq Allowed(t)'

LEMMA LookupKeepsAllowed ==
  ASSUME Inv, UNCHANGED lookup, DOMAIN jobs' = DOMAIN jobs, Grows
  PROVE  LookupAllowed'
<1> DEFINE t == lookup.source
<1> SUFFICES ASSUME t \in Sources, t \in live', lookup.vm = vm'[t]
             PROVE  /\ DOMAIN jobs \subseteq Allowed(t)'
                    /\ lookup.match \in Allowed(t)' \cup {None}
                    /\ lookup.at = "refreshStale" => lookup.stale \in Allowed(t)'
                    /\ \A i \in DOMAIN lookup.refresh : lookup.refresh[i] \in Allowed(t)'
                    /\ \A i \in DOMAIN lookup.rules :
                          HintRule(lookup.rules[i]) => lookup.rules[i].name \in Allowed(t)'
  BY DEF LookupAllowed, IsOf, HintRule
<1>1. lookup.vm <= vm[t]
  BY DEF Inv, VmInv, LookupVm
<1>2. t \in live /\ lookup.vm = vm[t] /\ Allowed(t) \subseteq Allowed(t)'
  BY <1>1 DEF Grows
<1>3. QED
  BY <1>2 DEF Inv, AllowInv, LookupAllowed, IsOf

LEMMA LabelsKeepAllowed ==
  ASSUME Inv, Grows, DOMAIN response' \subseteq DOMAIN response,
         \A k \in DOMAIN response' :
            response'[k].name = response[k].name /\ response'[k].vm = response[k].vm
  PROVE  LabelsAllowed'
<1> SUFFICES ASSUME NEW k \in DOMAIN response', k[1] \in live', response[k].vm = vm'[k[1]]
             PROVE  response[k].name \in Allowed(k[1])'
  BY DEF LabelsAllowed, IsOf
<1>1. k[1] \in Sources /\ response[k].vm <= vm[k[1]]
  BY DEF Inv, TypeInv, CachesTyped, VmInv, LabelsVm
<1>2. k[1] \in live /\ response[k].vm = vm[k[1]] /\ Allowed(k[1]) \subseteq Allowed(k[1])'
  BY <1>1 DEF Grows
<1>3. QED
  BY <1>2 DEF Inv, AllowInv, LabelsAllowed, IsOf

LEMMA LookupStaysTyped ==
  ASSUME Inv, UNCHANGED lookupVars
  PROVE  LookupTyped' /\ DOMAIN jobs' = DOMAIN jobs /\ UNCHANGED lookup
BY DEF Inv, TypeInv, LookupTyped, Looking, lookupVars

LEMMA EnsuredKeeps ==
  ASSUME Inv, NEW s \in Numbered, RULES' = Ensured(s)
  PROVE  /\ DOMAIN RULES' = live \cup {s} /\ RULES' \in [live \cup {s} -> Seq(Rule)]
         /\ \A t \in live \ {s} : Allowed(t)' = Allowed(t)
<1>1. RULES \in [live -> Seq(Rule)]
  BY DEF Inv, TypeInv, SourcesTyped
<1>2. RULES' = [x \in live \cup {s} |-> IF x = s THEN << >> ELSE RULES[x]]
  BY <1>1 DEF Ensured, Put
<1>3. RULES' \in [live \cup {s} -> Seq(Rule)]
  BY <1>1, <1>2, EmptyList
<1>4. \A t \in live \ {s} : RULES'[t] = RULES[t]
  BY <1>1, <1>2
<1>5. QED
  BY <1>2, <1>3, <1>4 DEF Allowed

\* Where no name loses its VM, labels and lookup keep theirs.
LEMMA VmStays ==
  ASSUME Inv, UNCHANGED << lookup, raced >>, DOMAIN response' = DOMAIN response,
         \A k \in DOMAIN response : response'[k].vm = response[k].vm,
         \A t \in live : t \in live' /\ vm'[t] = vm[t],
         \A t \in Sources : vm[t] \in Nat /\ vm'[t] \in Nat /\ vm[t] <= vm'[t]
  PROVE  VmInv'
<1>1. ASSUME NEW k \in DOMAIN response
      PROVE  /\ (k[1] \in live' /\ response[k].vm = vm'[k[1]]) \/ <<k[1], response[k].vm>> \in raced
             /\ response[k].vm <= vm'[k[1]]
  <2>1. k[1] \in Sources /\ response[k].vm \in Nat
    BY DEF Inv, TypeInv, CachesTyped, Label
  <2>2. response[k].vm <= vm[k[1]]
    BY DEF Inv, VmInv, LabelsVm
  <2>3. IsOf(k[1], response[k].vm) \/ <<k[1], response[k].vm>> \in raced
    BY DEF Inv, VmInv, LabelsVm, HintsGoWithTheirVm
  <2>4. QED
    BY <2>1, <2>2, <2>3 DEF IsOf
<1>2. LabelsVm'
  BY <1>1 DEF LabelsVm, HintsGoWithTheirVm, IsOf
<1>3. lookup.source \in Sources => lookup.vm <= vm'[lookup.source]
  BY DEF Inv, TypeInv, LookupTyped, Lookup, VmInv, LookupVm
<1>4. LookupVm'
  BY <1>3 DEF Inv, VmInv, LookupVm, Looking, IsOf
<1>5. QED
  BY <1>2, <1>4 DEF VmInv

LEMMA AppearInv ==
  ASSUME Inv, NEW s \in Sources, Appear(s)
  PROVE  Inv'
<1>1. /\ s \in Numbered /\ s \notin live /\ live' = live \cup {s} /\ vm' = [vm EXCEPT ![s] = @ + 1]
      /\ RULES' = Ensured(s) /\ raced' = raced /\ response' = response /\ qname' = qname
      /\ orphans' = orphans /\ UNCHANGED lookupVars
  BY DEF Appear, cacheVars
<1>2. SourcesTyped'
  <2>1. RULES' \in [live' -> Seq(Rule)]
    BY <1>1, EnsuredKeeps
  <2>2. QED
    BY <1>1, <2>1 DEF Inv, TypeInv, SourcesTyped
<1>3. CachesTyped' /\ BoundInv' /\ LabelsHaveTheirHistory'
  BY <1>1 DEF Inv, TypeInv, CachesTyped, BoundInv, Bounded, KeysOf, LabelsHaveTheirHistory
<1>4. LookupTyped' /\ DOMAIN jobs' = DOMAIN jobs /\ lookup' = lookup
  BY <1>1, LookupStaysTyped
<1>5. Grows
  <2>1. \A t \in live \ {s} : Allowed(t)' = Allowed(t)
    BY <1>1, EnsuredKeeps
  <2>2. vm \in [Sources -> Nat]
    BY DEF Inv, TypeInv, SourcesTyped
  <2>3. vm'[s] = vm[s] + 1 /\ vm[s] \in Nat /\ \A t \in Sources \ {s} : vm'[t] = vm[t]
    BY <1>1, <2>2
  <2>4. QED
    BY <1>1, <2>1, <2>3 DEF Grows
<1>6. LookupAllowed'
  BY <1>4, <1>5, LookupKeepsAllowed
<1>7. LabelsAllowed'
  BY <1>1, <1>5, LabelsKeepAllowed
<1>8. /\ \A t \in live : t \in live' /\ vm'[t] = vm[t]
      /\ \A t \in Sources : vm[t] \in Nat /\ vm'[t] \in Nat /\ vm[t] <= vm'[t]
  BY <1>1 DEF Inv, TypeInv, SourcesTyped
<1>9. VmInv'
  BY <1>1, <1>4, <1>8, VmStays
<1>10. QED
  BY <1>2, <1>3, <1>4, <1>6, <1>7, <1>9 DEF Inv, TypeInv, AllowInv

\* Both cleanups: the dicts lose a source's entries, and what else is said
\* of labels holds of the ones left.
LEMMA CleanupParts ==
  ASSUME Inv, NEW s \in Numbered, Cleanup(s),
         Grows,
         \A t \in live \ {s} : t \in live' /\ vm'[t] = vm[t],
         \A t \in Sources : vm[t] \in Nat /\ vm'[t] \in Nat /\ vm[t] <= vm'[t]
  PROVE  CachesTyped' /\ LookupTyped' /\ BoundInv' /\ LabelsHaveTheirHistory' /\ AllowInv' /\ VmInv'
<1>1. /\ response' = Drop(response, {k \in DOMAIN response : k[1] = s})
      /\ qname' = Drop(qname, {k \in DOMAIN qname : k[1] = s})
      /\ orphans' = {k \in orphans : k[1] # s}
      /\ raced' = {r \in raced : r[1] # s}
                     \cup (IF Looking /\ lookup.source = s THEN {<<s, lookup.vm>>} ELSE {})
      /\ UNCHANGED lookupVars
  BY DEF Cleanup, WithoutHints
<1>2. /\ DOMAIN response' = {k \in DOMAIN response : k[1] # s}
      /\ \A k \in DOMAIN response' : response'[k] = response[k]
      /\ response' = [k \in DOMAIN response' |-> response'[k]]
  BY <1>1 DEF Drop
<1>3. /\ DOMAIN qname' = {k \in DOMAIN qname : k[1] # s}
      /\ \A k \in DOMAIN qname' : qname'[k] = qname[k]
      /\ qname' = [k \in DOMAIN qname' |-> qname'[k]]
  BY <1>1 DEF Drop
<1>4. CachesTyped'
  <2>1. DOMAIN response' \subseteq Sources \X Addrs /\ response' \in [DOMAIN response' -> Label]
    BY <1>2 DEF Inv, TypeInv, CachesTyped
  <2>2. DOMAIN qname' \subseteq Sources \X DnsNames /\ qname' \in [DOMAIN qname' -> History]
    BY <1>3 DEF Inv, TypeInv, CachesTyped
  <2>3. QED
    BY <2>1, <2>2 DEF CachesTyped
<1>5. LookupTyped' /\ DOMAIN jobs' = DOMAIN jobs /\ lookup' = lookup
  BY <1>1, LookupStaysTyped
<1>6. BoundInv'
  <2> DEFINE fewer == response'
             less == qname'
  <2>1. DOMAIN fewer \subseteq DOMAIN response /\ DOMAIN less \subseteq DOMAIN qname
    BY <1>2, <1>3
  <2> HIDE DEF fewer, less
  <2>2. Bounded(fewer) /\ Bounded(less)
    BY <2>1, Smaller DEF Inv, BoundInv
  <2>3. QED
    BY <2>2 DEF fewer, less, BoundInv, Bounded, KeysOf
<1>7. LabelsHaveTheirHistory'
  <2> SUFFICES ASSUME NEW k \in DOMAIN response' \ orphans'
               PROVE  LET h == <<k[1], response'[k].name>> IN
                      h \in DOMAIN qname' /\ k[2] \in qname'[h].addrs /\ qname'[h].left = response'[k].left
    BY DEF LabelsHaveTheirHistory
  <2> DEFINE h == <<k[1], response[k].name>>
  <2>1. k \in DOMAIN response \ orphans /\ k[1] # s /\ response'[k] = response[k]
    BY <1>1, <1>2
  <2>2. h \in DOMAIN qname /\ k[2] \in qname[h].addrs /\ qname[h].left = response[k].left
    BY <2>1 DEF Inv, LabelsHaveTheirHistory
  <2>3. h \in DOMAIN qname' /\ qname'[h] = qname[h]
    BY <1>3, <2>1, <2>2
  <2>4. QED
    BY <2>1, <2>2, <2>3
<1>8. LookupAllowed'
  BY <1>5, LookupKeepsAllowed
<1>9. LabelsAllowed'
  BY <1>2, LabelsKeepAllowed
<1>10. LabelsVm'
  <2>1. ASSUME NEW k \in DOMAIN response'
        PROVE  /\ IsOf(k[1], response[k].vm) \/ <<k[1], response[k].vm>> \in raced
               /\ k[1] # s /\ response[k].vm <= vm[k[1]] /\ response[k].vm \in Nat
               /\ k[1] \in Sources /\ response'[k] = response[k]
    BY <1>2 DEF Inv, VmInv, LabelsVm, HintsGoWithTheirVm, TypeInv, CachesTyped, Label
  <2>2. ASSUME NEW k \in DOMAIN response'
        PROVE  /\ (k[1] \in live' /\ response'[k].vm = vm'[k[1]]) \/ <<k[1], response'[k].vm>> \in raced'
               /\ response'[k].vm <= vm'[k[1]]
    <3> DEFINE v == response[k].vm
               left == {r \in raced : r[1] # s}
    <3>1. /\ (k[1] \in live /\ v = vm[k[1]]) \/ <<k[1], v>> \in raced
          /\ k[1] # s /\ v <= vm[k[1]] /\ v \in Nat
          /\ k[1] \in Sources /\ response'[k].vm = v
      BY <2>1, <2>2 DEF IsOf
    <3>2. left \subseteq raced'
      BY <1>1
    <3> HIDE DEF v
    <3>3. <<k[1], v>> \in raced => <<k[1], v>> \in raced'
      BY <3>1, <3>2
    <3>4. k[1] \in live => k[1] \in live' /\ vm'[k[1]] = vm[k[1]]
      BY <3>1
    <3>5. v <= vm'[k[1]]
      BY <3>1
    <3>6. QED
      BY <3>1, <3>3, <3>4, <3>5
  <2>3. QED
    BY <2>2 DEF LabelsVm, HintsGoWithTheirVm, IsOf
<1>11. LookupVm'
  <2>1. lookup.source \in Sources => lookup.vm <= vm'[lookup.source]
    BY DEF Inv, TypeInv, LookupTyped, Lookup, VmInv, LookupVm
  <2>2. ASSUME Looking
        PROVE  (lookup.source \in live' /\ lookup.vm = vm'[lookup.source])
               \/ <<lookup.source, lookup.vm>> \in raced'
    <3>1. IsOf(lookup.source, lookup.vm) \/ <<lookup.source, lookup.vm>> \in raced
      BY <2>2 DEF Inv, VmInv, LookupVm
    <3>2. CASE lookup.source = s
      BY <1>1, <2>2, <3>2
    <3>3. CASE lookup.source # s
      BY <1>1, <3>1, <3>3 DEF IsOf
    <3>4. QED
      BY <3>2, <3>3
  <2>3. QED
    BY <1>5, <2>1, <2>2 DEF LookupVm, Looking, IsOf
<1>12. QED
  BY <1>4, <1>5, <1>6, <1>7, <1>8, <1>9, <1>10, <1>11 DEF AllowInv, VmInv

LEMMA VanishInv ==
  ASSUME Inv, NEW s \in Sources, Vanish(s)
  PROVE  Inv'
<1>1. /\ s \in Numbered /\ s \in live /\ live' = live \ {s} /\ RULES' = Drop(RULES, {s})
      /\ Cleanup(s) /\ vm' = vm
  BY DEF Vanish
<1>2. RULES \in [live -> Seq(Rule)] /\ Sources \ Numbered \subseteq live /\ live \subseteq Sources
  BY DEF Inv, TypeInv, SourcesTyped
<1>3. RULES' = [x \in live \ {s} |-> RULES[x]]
  BY <1>1, <1>2 DEF Drop
<1>4. SourcesTyped'
  BY <1>1, <1>2, <1>3 DEF Inv, TypeInv, SourcesTyped
<1>5. Grows
  <2>1. \A t \in live \ {s} : RULES'[t] = RULES[t]
    BY <1>3
  <2>2. QED
    BY <1>1, <2>1 DEF Grows, Allowed
<1>6. /\ \A t \in live \ {s} : t \in live' /\ vm'[t] = vm[t]
      /\ \A t \in Sources : vm[t] \in Nat /\ vm'[t] \in Nat /\ vm[t] <= vm'[t]
  BY <1>1 DEF Inv, TypeInv, SourcesTyped
<1>7. QED
  BY <1>1, <1>4, <1>5, <1>6, CleanupParts DEF Inv, TypeInv

LEMMA ReuseInv ==
  ASSUME Inv, NEW s \in Sources, Reuse(s)
  PROVE  Inv'
<1>1. /\ s \in Numbered /\ s \in live /\ live' = live /\ vm' = [vm EXCEPT ![s] = @ + 1]
      /\ RULES' = Ensured(s) /\ Cleanup(s)
  BY DEF Reuse
<1>2. SourcesTyped'
  <2>1. live \cup {s} = live
    BY <1>1
  <2>2. RULES' \in [live' -> Seq(Rule)]
    BY <1>1, <2>1, EnsuredKeeps
  <2>3. QED
    BY <1>1, <2>2 DEF Inv, TypeInv, SourcesTyped
<1>3. /\ \A t \in live \ {s} : t \in live' /\ vm'[t] = vm[t]
      /\ \A t \in Sources : vm[t] \in Nat /\ vm'[t] \in Nat /\ vm[t] <= vm'[t]
      /\ \A t \in Sources \ {s} : vm'[t] = vm[t]
      /\ vm'[s] = vm[s] + 1 /\ live \subseteq Sources
  BY <1>1 DEF Inv, TypeInv, SourcesTyped
<1>4. Grows
  <2>1. \A t \in live \ {s} : Allowed(t)' = Allowed(t)
    BY <1>1, EnsuredKeeps
  <2>2. QED
    BY <1>1, <1>3, <2>1 DEF Grows
<1>5. QED
  BY <1>1, <1>2, <1>3, <1>4, CleanupParts DEF Inv, TypeInv

LEMMA SaveRuleInv ==
  ASSUME Inv, NEW d \in Decisions, SaveRule(d)
  PROVE  Inv'
<1> DEFINE rule == [name |-> d.name, hinted |-> d.hinted]
<1>1. /\ d.source \in live /\ RULES' = [RULES EXCEPT ![d.source] = Append(@, rule)]
      /\ live' = live /\ vm' = vm /\ raced' = raced /\ response' = response /\ qname' = qname
      /\ orphans' = orphans /\ UNCHANGED lookupVars
  BY DEF SaveRule, cacheVars
<1>2. rule \in Rule
  BY HintAssumption DEF Rule
<1> HIDE DEF rule
<1>3. RULES \in [live -> Seq(Rule)] /\ Sources \ Numbered \subseteq live
  BY DEF Inv, TypeInv, SourcesTyped
<1>4. /\ Append(RULES[d.source], rule) \in Seq(Rule)
      /\ \A i \in DOMAIN RULES[d.source] :
            i \in DOMAIN Append(RULES[d.source], rule) /\ Append(RULES[d.source], rule)[i] = RULES[d.source][i]
  <2>1. RULES[d.source] \in Seq(Rule)
    BY <1>1, <1>3
  <2>2. QED
    BY <1>2, <2>1, AppendProperties, LenProperties
<1>5. SourcesTyped'
  BY <1>1, <1>3, <1>4 DEF Inv, TypeInv, SourcesTyped
<1>6. \A t \in live : \A i \in DOMAIN RULES[t] : i \in DOMAIN RULES'[t] /\ RULES'[t][i] = RULES[t][i]
  <2> SUFFICES ASSUME NEW t \in live, NEW i \in DOMAIN RULES[t]
               PROVE  i \in DOMAIN RULES'[t] /\ RULES'[t][i] = RULES[t][i]
    OBVIOUS
  <2>1. CASE t = d.source
    <3>1. RULES'[t] = Append(RULES[d.source], rule)
      BY <1>1, <1>3, <2>1
    <3>2. QED
      BY <1>4, <2>1, <3>1
  <2>2. CASE t # d.source
    <3>1. RULES'[t] = RULES[t]
      BY <1>1, <1>3, <2>2
    <3>2. QED
      BY <3>1
  <2>3. QED
    BY <2>1, <2>2
<1>7. Grows
  BY <1>1, <1>6 DEF Grows, Allowed
<1>8. CachesTyped' /\ BoundInv' /\ LabelsHaveTheirHistory'
  BY <1>1 DEF Inv, TypeInv, CachesTyped, BoundInv, Bounded, KeysOf, LabelsHaveTheirHistory
<1>9. LookupTyped' /\ DOMAIN jobs' = DOMAIN jobs /\ lookup' = lookup
  BY <1>1, LookupStaysTyped
<1>10. LookupAllowed'
  BY <1>7, <1>9, LookupKeepsAllowed
<1>11. LabelsAllowed'
  BY <1>1, <1>7, LabelsKeepAllowed
<1>12. VmInv'
  <2>1. \A t \in Sources : vm[t] \in Nat
    BY DEF Inv, TypeInv, SourcesTyped
  <2>2. QED
    BY <1>1, <1>9, <2>1, VmStays
<1>13. QED
  BY <1>5, <1>8, <1>9, <1>10, <1>11, <1>12 DEF Inv, TypeInv, AllowInv

LEMMA TickInv ==
  ASSUME Inv, Tick
  PROVE  Inv'
<1>1. /\ response' = Older(response) /\ qname' = Older(qname) /\ jobs' = Older(jobs)
      /\ UNCHANGED << sourceVars, orphans, lookup, found >>
  BY DEF Tick
<1>2. response \in [DOMAIN response -> Label] /\ qname \in [DOMAIN qname -> History] /\ jobs \in [DOMAIN jobs -> Job]
  BY DEF Inv, TypeInv, CachesTyped, LookupTyped
<1>3. /\ DOMAIN response' = DOMAIN response /\ response' \in [DOMAIN response -> Label]
      /\ \A k \in DOMAIN response : /\ response'[k].left = IF response[k].left = 0 THEN 0 ELSE response[k].left - 1
                                    /\ response'[k].name = response[k].name
                                    /\ response'[k].vm = response[k].vm
  BY <1>1, <1>2, OlderTyped, OlderSame
<1>4. /\ DOMAIN qname' = DOMAIN qname /\ qname' \in [DOMAIN qname -> History]
      /\ \A k \in DOMAIN qname : /\ qname'[k].left = IF qname[k].left = 0 THEN 0 ELSE qname[k].left - 1
                                 /\ qname'[k].addrs = qname[k].addrs
  BY <1>1, <1>2, OlderTyped, OlderSame
<1>5. DOMAIN jobs' = DOMAIN jobs /\ jobs' \in [DOMAIN jobs -> Job]
  BY <1>1, <1>2, OlderTyped
<1>6. TypeInv'
  <2>1. SourcesTyped'
    BY <1>1 DEF Inv, TypeInv, SourcesTyped, sourceVars
  <2>2. CachesTyped'
    BY <1>3, <1>4 DEF Inv, TypeInv, CachesTyped
  <2>3. LookupTyped'
    BY <1>1, <1>5 DEF Inv, TypeInv, LookupTyped, Looking
  <2>4. QED
    BY <2>1, <2>2, <2>3 DEF TypeInv
<1>7. BoundInv'
  <2> DEFINE older == response'
             old == qname'
  <2>1. DOMAIN older \subseteq DOMAIN response /\ DOMAIN old \subseteq DOMAIN qname
    BY <1>3, <1>4
  <2> HIDE DEF older, old
  <2>2. Bounded(older) /\ Bounded(old)
    BY <2>1, Smaller DEF Inv, BoundInv
  <2>3. QED
    BY <2>2 DEF older, old, BoundInv, Bounded, KeysOf
<1>8. LabelsHaveTheirHistory'
  <2> SUFFICES ASSUME NEW k \in DOMAIN response' \ orphans'
               PROVE  LET h == <<k[1], response'[k].name>> IN
                      h \in DOMAIN qname' /\ k[2] \in qname'[h].addrs /\ qname'[h].left = response'[k].left
    BY DEF LabelsHaveTheirHistory
  <2> DEFINE h == <<k[1], response[k].name>>
  <2>1. k \in DOMAIN response \ orphans /\ <<k[1], response'[k].name>> = h
    BY <1>1, <1>3
  <2>2. h \in DOMAIN qname /\ k[2] \in qname[h].addrs /\ qname[h].left = response[k].left
    BY <2>1 DEF Inv, LabelsHaveTheirHistory
  <2> HIDE DEF h
  <2>3. k[2] \in qname'[h].addrs /\ qname'[h].left = response'[k].left
    BY <1>3, <1>4, <2>1, <2>2
  <2>4. QED
    BY <1>4, <2>1, <2>2, <2>3
<1>9. Grows
  BY <1>1, SameAllowed DEF Grows, sourceVars
<1>10. LookupAllowed'
  BY <1>1, <1>5, <1>9, LookupKeepsAllowed
<1>11. LabelsAllowed'
  BY <1>3, <1>9, LabelsKeepAllowed
<1>12. VmInv'
  <2>1. \A t \in Sources : vm[t] \in Nat
    BY DEF Inv, TypeInv, SourcesTyped
  <2>2. QED
    BY <1>1, <1>3, <2>1, VmStays DEF sourceVars
<1>13. QED
  BY <1>6, <1>7, <1>8, <1>10, <1>11, <1>12 DEF Inv, AllowInv

LEMMA StutterInv ==
  ASSUME Inv, UNCHANGED vars
  PROVE  Inv'
<1>1. UNCHANGED << sourceVars, cacheVars, lookupVars >>
  BY DEF vars, sourceVars, cacheVars, lookupVars
<1>2. LookupTyped' /\ DOMAIN jobs' = DOMAIN jobs /\ lookup' = lookup
  BY <1>1, LookupStaysTyped
<1>3. Grows
  BY <1>1, SameAllowed DEF Grows, sourceVars
<1>4. LookupAllowed'
  BY <1>2, <1>3, LookupKeepsAllowed
<1>5. LookupVm'
  BY <1>1, <1>2 DEF Inv, VmInv, LookupVm, Looking, IsOf, sourceVars
<1>6. QED
  BY <1>1, <1>2, <1>4, <1>5, LookupStep

-------------------------------------------------------------------------------
(* Theorems *)

\* The inductive invariant: the types, the two limits of each dict, what a
\* label shares with its history, and, of the lookup under way, that the
\* names it holds are ones its source has an allow rule for and that the VM
\* whose rules name them still bears the source's name, or was cleaned up
\* meanwhile.  The last two are what makes the labels it will store right.
THEOREM AlwaysInv == Spec => []Inv
<1>1. Init => Inv
  BY InitInv
<1>2. Inv /\ [Next]_vars => Inv'
  <2> SUFFICES ASSUME Inv, [Next]_vars
               PROVE  Inv'
    OBVIOUS
  <2>1. ASSUME NEW s \in Sources, Appear(s) \/ Vanish(s) \/ Reuse(s)
        PROVE  Inv'
    BY <2>1, AppearInv, VanishInv, ReuseInv
  <2>2. ASSUME NEW d \in Decisions, SaveRule(d)
        PROVE  Inv'
    BY <2>2, SaveRuleInv
  <2>3. ASSUME NEW s \in Sources, NEW a \in Addrs, Enrich(s, a)
        PROVE  Inv'
    BY <2>3, EnrichInv
  <2>4. CASE StaleRule
    BY <2>4, StaleRuleInv
  <2>5. CASE StaleRefreshed
    BY <2>5, StaleRefreshedInv
  <2>6. CASE CopyRules
    BY <2>6, CopyRulesInv
  <2>7. CASE ReadHistory
    BY <2>7, ReadHistoryInv
  <2>8. CASE SubmitRefreshes
    BY <2>8, SubmitRefreshesInv
  <2>9. CASE Refreshed
    BY <2>9, RefreshedInv
  <2>10. CASE Shown
    BY <2>10, ShownInv
  <2>11. ASSUME NEW n \in DnsNames, Answer(n) \/ Store(n)
         PROVE  Inv'
    BY <2>11, AnswerInv, StoreInv
  <2>12. CASE Tick
    BY <2>12, TickInv
  <2>13. CASE UNCHANGED vars
    BY <2>13, StutterInv
  <2>14. QED
    BY <2>1, <2>2, <2>3, <2>4, <2>5, <2>6, <2>7, <2>8, <2>9, <2>10, <2>11, <2>12, <2>13
       DEF Next, CliStep
<1>3. QED
  BY <1>1, <1>2, PTL DEF Spec

\* The dicts, the lookup and its jobs keep their shape, and no job is left
\* over where the cli thread does not wait for one.
THEOREM AlwaysTyped == Spec => []TypeOK
<1>1. Inv => TypeOK
  BY EmptyFcn DEF Inv, TypeInv, SourcesTyped, CachesTyped, LookupTyped, Lookup, Label, History, TypeOK
<1>2. QED
  BY <1>1, AlwaysInv, PTL

\* Neither DNS_RESPONSE_CACHE nor DNS_QNAME_CACHE outgrows
\* dns_cache_max_global, nor any source in it dns_cache_max_per_source,
\* whatever the limits are and however many addresses one answer brings.
THEOREM BoundedCaches == Spec => []CachesAreBounded
<1>1. Inv => CachesAreBounded
  BY DEF Inv, BoundInv, Bounded, CachesAreBounded
<1>2. QED
  BY <1>1, AlwaysInv, PTL

\* A label agrees with the history of its name on the address and on the time
\* left: remove_old_qname_ips and prune_qname_cache lose none but evicted ones.
THEOREM LabelsKeepTheirHistory == Spec => []LabelsHaveTheirHistory
<1>1. Inv => LabelsHaveTheirHistory
  BY DEF Inv
<1>2. QED
  BY <1>1, AlwaysInv, PTL

\* add_cached_dns_name and lazy_dns_name give a VM no name but one it has an
\* allow rule for, except where a lookup and a cleanup of its name crossed.
THEOREM HintsAreAllowed == Spec => []HintIsAllowed
<1>1. Inv => HintIsAllowed
  <2> SUFFICES ASSUME Inv, NEW s \in live
               PROVE  /\ \A a \in Addrs : \/ FreshName(s, a) \in Allowed(s) \cup {None}
                                          \/ <<s, response[<<s, a>>].vm>> \in raced
                      /\ lookup.source = s /\ lookup.at = "done" /\ lookup.vm = vm[s] =>
                            lookup.match \in Allowed(s) \cup {None}
    BY DEF HintIsAllowed
  <2>1. ASSUME NEW a \in Addrs, <<s, a>> \in DOMAIN response
        PROVE  \/ response[<<s, a>>].name \in Allowed(s)
               \/ <<s, response[<<s, a>>].vm>> \in raced
    BY <2>1 DEF Inv, AllowInv, LabelsAllowed, VmInv, LabelsVm, HintsGoWithTheirVm
  <2>2. s \in Sources
    BY DEF Inv, TypeInv, SourcesTyped
  <2>3. lookup.source = s /\ lookup.vm = vm[s] => lookup.match \in Allowed(s) \cup {None}
    BY <2>2 DEF Inv, AllowInv, LookupAllowed, IsOf
  <2>4. QED
    BY <2>1, <2>3 DEF FreshName
<1>2. QED
  BY <1>1, AlwaysInv, PTL

\* A VM of a numbered name finds no hint of an earlier one but those of the
\* lookup that was under way when the last cleanup of the name ran.
THEOREM HintsFollowTheirVm == Spec => []HintsGoWithTheirVm
<1>1. Inv => HintsGoWithTheirVm
  BY DEF Inv, VmInv, LabelsVm
<1>2. QED
  BY <1>1, AlwaysInv, PTL

=================================================================================
