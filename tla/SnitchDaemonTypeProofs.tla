------------------------- MODULE SnitchDaemonTypeProofs -------------------------
(***************************************************************************)
(* Type correctness of SnitchDaemon for every value of its constants, and  *)
(* the lemmas about the operators of PolicyRules and SnitchDaemon that     *)
(* this and the safety proofs rest on.                                     *)
(***************************************************************************)
EXTENDS SnitchDaemon, SequenceTheorems, FiniteSetTheorems, WellFoundedInduction, TLAPS

(* Types a step relies on beyond TypeOK: a packet on its way to a verdict   *)
(* has a question, a prompt on its way to the user is one.                 *)
WorkInv ==
    /\ pc["main"] \in {"match", "ask"} =>
         /\ packet.source \in Names /\ packet.src \in IPs
         /\ packet.asks # << >> => packet.at \in 1 .. Len(packet.asks)
    /\ pc["main"] = "ask" => packet.asks # << >>
    /\ pc["main"] = "load" => phase = "starting"
    /\ \/ pc["main"] \in {"known", "recheck", "attribute", "bind"}
       \/ pc["main"] \in {"query", "publish", "reload"} /\ phase # "starting"
       => packet.src \in IPs /\ packet.at = 1
    /\ pc["cli"] \notin {"off", "accept"} => prompt \in Question
    /\ pc["cli"] \in {"save", "replace", "remember"} => answer \in Rule

TypeInv == TypeOK /\ WorkInv

-------------------------------------------------------------------------------
(* The operators the model is built from *)

(* A non-empty set of numbers has a least element: the intervals up to its *)
(* members are finite sets, well-founded under strict inclusion.           *)
LEMMA LeastNumber ==
  ASSUME NEW T \in SUBSET Nat, T # {}
  PROVE  \E m \in T : \A k \in T : ~ (k < m)
<1> DEFINE R == StrictSubsetOrdering(Nat)
           U == {1 .. i : i \in T}
<1>1. IsWellFoundedOn(R, FiniteSubsetsOf(Nat))
  BY FS_StrictSubsetOrderingWellFounded
<1>2. \A i \in T : IsFiniteSet(1 .. i) /\ 1 .. i \in SUBSET Nat
  BY FS_Interval
<1>3. U \subseteq FiniteSubsetsOf(Nat)
  BY <1>2 DEF FiniteSubsetsOf
<1>4. U # {}
  OBVIOUS
<1>5. PICK x \in U : \A y \in U : ~ (<< y, x >> \in R)
  <2> HIDE DEF R, U
  <2>1. QED
    BY <1>1, <1>3, <1>4, WFMin
<1>6. PICK m \in T : x = 1 .. m
  OBVIOUS
<1>7. ASSUME NEW k \in T, k < m
      PROVE  FALSE
  <2>1. m \in 1 .. m /\ m \notin 1 .. k /\ 1 .. k \subseteq 1 .. m
    BY <1>7
  <2>2. << 1 .. k, 1 .. m >> \in R
    BY <2>1 DEF StrictSubsetOrdering
  <2>3. QED
    BY <1>5, <1>6, <2>2
<1>8. QED
  BY <1>7

\* Where a rule matches, the first match is one that matches.
LEMMA FirstMatchMatches ==
  ASSUME NEW s \in Seq(Rule), NEW target, Matches(s, target)
  PROVE  /\ FirstMatch(s, target) \in DOMAIN s
         /\ RuleMatches(s[FirstMatch(s, target)], target)
         /\ \A j \in DOMAIN s : j < FirstMatch(s, target) => ~ RuleMatches(s[j], target)
<1> DEFINE T == {i \in DOMAIN s : RuleMatches(s[i], target)}
<1>1. T \in SUBSET Nat /\ T # {}
  BY LenProperties DEF Matches
<1>2. PICK m \in T : \A k \in T : ~ (k < m)
  BY <1>1, LeastNumber
<1>3. QED
  BY <1>2 DEF FirstMatch

\* A source has a saved decision exactly for the targets one of its rules covers.
LEMMA DecidedIffMatched ==
  ASSUME NEW dict, IsRuleDict(dict), NEW source, NEW target
  PROVE  MatchingAction(dict, source, target) = "none"
           <=> source \notin DOMAIN dict \/ ~ Matches(dict[source], target)
<1>1. CASE source \in DOMAIN dict /\ Matches(dict[source], target)
  <2> DEFINE s == dict[source]
  <2>1. s \in Seq(Rule)
    BY <1>1 DEF IsRuleDict
  <2>2. s[FirstMatch(s, target)] \in Rule
    BY <1>1, <2>1, FirstMatchMatches, LenProperties
  <2>3. s[FirstMatch(s, target)].action \in Actions
    BY <2>2 DEF Rule
  <2>4. QED
    BY <1>1, <2>3 DEF MatchingAction, Actions
<1>2. CASE ~ (source \in DOMAIN dict /\ Matches(dict[source], target))
  BY <1>2 DEF MatchingAction
<1>3. QED
  BY <1>1, <1>2

\* Nowhere is the empty map of dom0 and the empty dict of rules.
LEMMA NowhereTyped ==
    /\ Nowhere \in Maps
    /\ IsRuleDict(Nowhere)
    /\ Nowhere \in [DOMAIN Nowhere -> Seq(Rule)]
    /\ DOMAIN Nowhere = {}
    /\ NamesOf(Nowhere) = {}
<1>1. DOMAIN Nowhere = {} /\ Nowhere \in [{} -> Names] /\ Nowhere \in [{} -> Seq(Rule)]
  BY DEF Nowhere
<1>2. QED
  BY <1>1 DEF Maps, IPsOf, IsRuleDict, NamesOf

\* d[k] = v adds a well-formed list of rules and touches no other.
LEMMA PutRule ==
  ASSUME NEW dict, IsRuleDict(dict), NEW k \in Names, NEW s \in Seq(Rule)
  PROVE  /\ IsRuleDict(Put(dict, k, s))
         /\ DOMAIN Put(dict, k, s) = DOMAIN dict \cup {k}
         /\ Put(dict, k, s)[k] = s
         /\ \A n \in DOMAIN dict : n # k => Put(dict, k, s)[n] = dict[n]
BY DEF IsRuleDict, Put

\* Dropping keys leaves the other lists as they are.
LEMMA DropRules ==
  ASSUME NEW dict, IsRuleDict(dict), NEW ks
  PROVE  /\ IsRuleDict(Drop(dict, ks))
         /\ DOMAIN Drop(dict, ks) = DOMAIN dict \ ks
         /\ \A n \in DOMAIN Drop(dict, ks) : Drop(dict, ks)[n] = dict[n]
BY DEF IsRuleDict, Drop

\* The list under a key is a list of rules, whether the key is there or not.
LEMMA ListAtTyped ==
  ASSUME NEW dict, IsRuleDict(dict), NEW k
  PROVE  ListAt(dict, k) \in Seq(Rule)
BY EmptySeq DEF IsRuleDict, ListAt

\* ensure_rule_entry gives every source a bucket and changes no other bucket.
LEMMA BucketsTyped ==
  ASSUME NEW rules, IsRuleDict(rules), NEW dir, IsRuleDict(dir),
         NEW sources \in SUBSET Names
  PROVE  /\ IsRuleDict(WithBuckets(rules, dir, sources))
         /\ DOMAIN WithBuckets(rules, dir, sources) = DOMAIN rules \cup sources
         /\ \A n \in DOMAIN rules : WithBuckets(rules, dir, sources)[n] = rules[n]
         /\ \A n \in sources \ DOMAIN rules :
              WithBuckets(rules, dir, sources)[n] = ListAt(dir, n)
<1> DEFINE all == DOMAIN rules \cup sources
<1>1. \A n \in all : (IF n \in DOMAIN rules THEN rules[n] ELSE ListAt(dir, n)) \in Seq(Rule)
  BY ListAtTyped DEF IsRuleDict
<1>2. QED
  BY <1>1 DEF IsRuleDict, WithBuckets

\* It does nothing for a source that has its bucket.
LEMMA BucketsIdle ==
  ASSUME NEW rules, IsRuleDict(rules), NEW dir, NEW sources, sources \subseteq DOMAIN rules
  PROVE  WithBuckets(rules, dir, sources) = rules
<1>1. rules = [n \in DOMAIN rules |-> rules[n]]
  BY DEF IsRuleDict
<1>2. QED
  BY <1>1 DEF WithBuckets

\* Both forms of a rule are rules.
LEMMA RuleForms ==
  ASSUME NEW rule \in Rule
  PROVE  /\ Yaml(rule) \in Rule
         /\ \A resolved \in [Hosts -> HostSets] : Runtime(rule, resolved) \in Rule
<1>1. \A c \in SUBSET Targets : [rule EXCEPT !.covers = c] \in Rule
  BY DEF Rule
<1>2. Yaml(rule) \in Rule
  BY <1>1 DEF Yaml
<1>3. ASSUME NEW resolved \in [Hosts -> HostSets]
      PROVE  Runtime(rule, resolved) \in Rule
  <2>1. rule.host # NoHost => resolved[rule.host] \in SUBSET Targets
    BY SourcesAssumption DEF Rule
  <2>2. QED
    BY <2>1, <1>1 DEF Runtime
<1>4. QED
  BY <1>2, <1>3

\* A list of rules is loaded into a list of rules.
LEMMA LoadedRules ==
  ASSUME NEW s \in Seq(Rule), NEW resolved \in [Hosts -> HostSets]
  PROVE  [i \in DOMAIN s |-> Runtime(s[i], resolved)] \in Seq(Rule)
<1>1. DOMAIN s = 1 .. Len(s) /\ Len(s) \in Nat /\ \A i \in DOMAIN s : s[i] \in Rule
  BY LenProperties
<1>2. \A i \in DOMAIN s : Runtime(s[i], resolved) \in Rule
  BY <1>1, RuleForms
<1>3. [i \in DOMAIN s |-> Runtime(s[i], resolved)] \in [1 .. Len(s) -> Rule]
  BY <1>1, <1>2
<1>4. QED
  BY <1>1, <1>3, SeqDef

\* Dom0's changes keep unshared names unique.
LEMMA MapsChange ==
  ASSUME NEW m \in Maps, NEW ip \in IPs
  PROVE  /\ Drop(m, {ip}) \in Maps
         /\ \A name \in Names :
              ip \notin DOMAIN m /\ (name \notin Shared => name \notin NamesOf(m))
                => Put(m, ip, name) \in Maps
<1>1. DOMAIN m \subseteq IPs /\ m \in [DOMAIN m -> Names]
  BY DEF Maps
<1>2. Drop(m, {ip}) \in Maps
  BY <1>1 DEF Maps, Drop, IPsOf
<1>3. ASSUME NEW name \in Names, ip \notin DOMAIN m,
             name \notin Shared => name \notin NamesOf(m)
      PROVE  Put(m, ip, name) \in Maps
  <2>1. Put(m, ip, name) \in [DOMAIN m \cup {ip} -> Names]
    BY <1>1 DEF Put
  <2>2. ASSUME NEW n \in Names \ Shared, NEW a \in IPsOf(Put(m, ip, name), n),
               NEW b \in IPsOf(Put(m, ip, name), n)
        PROVE  a = b
    BY <1>1, <1>3, <2>1, <2>2 DEF Maps, Put, IPsOf, NamesOf
  <2>3. QED
    BY <1>1, <2>1, <2>2 DEF Maps
<1>4. QED
  BY <1>2, <1>3

\* The nft table that is rendered from typed rules and sources is typed.
LEMMA RenderedTyped ==
  ASSUME SOURCES \in Maps, IsRuleDict(RULES), Renderable
  PROVE  /\ Rendered.mode = "policy"
         /\ DOMAIN Rendered.chains \subseteq IPs
         /\ Rendered.chains \in [DOMAIN Rendered.chains -> Seq(Rule)]
BY DEF Maps, IsRuleDict, Renderable, Rendered, NamesOf

-------------------------------------------------------------------------------
(* Type correctness *)

\* The process starts, and dies, with typed memory.
LEMMA InitTyped == Init => TypeInv
<1> SUFFICES ASSUME Init PROVE TypeInv
  OBVIOUS
<1>1. TypeOK
  BY NowhereTyped, EmptySeq, SourcesAssumption
     DEF Init, TypeOK, Threads, MainLabels, CliLabels, WatcherLabels, FailClosed, NoPacket
<1>2. WorkInv
  BY DEF Init, WorkInv, Threads
<1>3. QED
  BY <1>1, <1>2 DEF TypeInv

LEMMA ExitTyped ==
  ASSUME TypeInv, Exit, IsRuleDict(files'), nft' = nft \/ nft' = FailClosed
  PROVE  TypeInv'
<1>0. nft'.mode \in {"policy", "failclosed"} /\ DOMAIN nft'.chains \subseteq IPs
      /\ nft'.chains \in [DOMAIN nft'.chains -> Seq(Rule)]
  <2>1. FailClosed.mode = "failclosed" /\ FailClosed.chains = Nowhere
    BY DEF FailClosed
  <2>2. CASE nft' = FailClosed
    BY <2>1, <2>2, NowhereTyped
  <2>3. CASE nft' = nft
    BY <2>3 DEF TypeInv, TypeOK
  <2>4. QED
    BY <2>2, <2>3
<1>1. vms' \in Maps /\ changes' \in Nat /\ nextId' \in Nat /\ events' \in Nat
  BY DEF Exit, TypeInv, TypeOK
<1>2. IsRuleDict(RULES') /\ SOURCES' \in Maps /\ draft' \in Seq(Rule)
      /\ snap' \in [{"main", "watcher"} -> Maps]
      /\ IsRuleDict(nextRules')
  BY NowhereTyped, EmptySeq DEF Exit
<1>3. TypeOK'
  BY <1>0, <1>1, <1>2, SourcesAssumption
     DEF Exit, TypeOK, Threads, MainLabels, CliLabels, WatcherLabels, FailClosed,
         NoPacket
<1>4. WorkInv'
  BY DEF Exit, WorkInv, Threads
<1>5. QED
  BY <1>3, <1>4 DEF TypeInv

\* A change at dom0 disturbs nothing but dom0's own map.
LEMMA Dom0Typed == TypeInv /\ Dom0 => TypeInv'
<1> SUFFICES ASSUME TypeInv, Dom0 PROVE TypeInv'
  OBVIOUS
<1> USE DEF memoryVars, queueVars, packetVars, cliVars
<1>0. changes \in Nat /\ events \in Nat /\ inherited \subseteq Numbered /\ vms \in Maps
  BY DEF TypeInv, TypeOK
<1>1. ASSUME NEW map \in Maps, Dom0Sets(map)
      PROVE  vms' \in Maps /\ changes' \in Nat /\ events' \in Nat
  BY <1>0, <1>1 DEF Dom0Sets
<1>2. vms' \in Maps /\ changes' \in Nat /\ events' \in Nat /\ inherited' \subseteq Numbered
  <2>1. ASSUME NEW ip \in IPs, NEW name \in Names, VmAppears(ip, name)
        PROVE  vms' \in Maps /\ changes' \in Nat /\ events' \in Nat
               /\ inherited' \subseteq Numbered
    BY <1>0, <1>1, <2>1, MapsChange DEF VmAppears
  <2>2. ASSUME NEW ip \in IPs, VmGone(ip)
        PROVE  vms' \in Maps /\ changes' \in Nat /\ events' \in Nat
               /\ inherited' \subseteq Numbered
    BY <1>0, <1>1, <2>2, MapsChange DEF VmGone
  <2>3. QED
    BY <2>1, <2>2 DEF Dom0
<1>3. UNCHANGED << phase, pc, lock, snap, SOURCES, epoch, RULES, files, nft, pending, nextId,
                  packet, verdict, prompt, answer, draft, nextRules >>
  BY DEF Dom0, VmAppears, VmGone, Dom0Sets
<1>4. QED
  BY <1>2, <1>3 DEF TypeInv, TypeOK, WorkInv

\* Starting, stopping and crashing.
LEMMA ServiceTyped == TypeInv /\ Service => TypeInv'
<1> SUFFICES ASSUME TypeInv, Service PROVE TypeInv'
  OBVIOUS
<1> USE DEF dom0Vars, memoryVars, queueVars, packetVars, cliVars, Goto
<1>1. CASE Start
  <2>1. /\ nft'.mode = "failclosed"
        /\ DOMAIN nft'.chains \subseteq IPs /\ nft'.chains \in [DOMAIN nft'.chains -> Seq(Rule)]
    BY <1>1, NowhereTyped DEF Start, FailClosed
  <2>2. QED
    BY <1>1, <2>1 DEF Start, TypeInv, TypeOK, WorkInv, Threads, MainLabels
<1>2. CASE StopPost
  BY <1>2, NowhereTyped DEF StopPost, TypeInv, TypeOK, WorkInv, FailClosed
<1>3. CASE Sigterm
  <2>1. IsRuleDict(files') /\ IsRuleDict(RULES')
    BY <1>3, DropRules DEF Sigterm, TypeInv, TypeOK
  <2>2. QED
    BY <1>3, <2>1 DEF Sigterm, TypeInv, TypeOK, WorkInv, Threads, MainLabels
<1>4. CASE Stopped \/ Crash
  BY <1>4, ExitTyped DEF Stopped, Crash, TypeInv, TypeOK
<1>5. QED
  BY <1>1, <1>2, <1>3, <1>4 DEF Service

\* Startup loads typed rules from typed files.
LEMMA LoadTyped == TypeInv /\ (LoadPolicy \/ LoadPolicyFails) => TypeInv'
<1> SUFFICES ASSUME TypeInv, LoadPolicy \/ LoadPolicyFails PROVE TypeInv'
  OBVIOUS
<1> USE DEF dom0Vars, memoryVars, queueVars, packetVars, cliVars
<1>1. IsRuleDict(files')
  <2>1. files' = Drop(files, Numbered)
    BY DEF LoadPolicy, LoadPolicyFails, CleanedFiles
  <2>2. IsRuleDict(files)
    BY DEF TypeInv, TypeOK
  <2>3. QED
    BY <2>1, <2>2, DropRules
<1>2. CASE LoadPolicy
  <2>1. IsRuleDict(RULES')
    <3>1. PICK resolved \in [Hosts -> HostSets] :
            RULES' = [n \in DOMAIN files' |->
                        [i \in DOMAIN files'[n] |-> Runtime(files'[n][i], resolved)]]
      BY <1>2 DEF LoadPolicy
    <3>2. \A n \in DOMAIN files' :
            [i \in DOMAIN files'[n] |-> Runtime(files'[n][i], resolved)] \in Seq(Rule)
      BY <1>1, LoadedRules DEF IsRuleDict
    <3>3. QED
      BY <1>1, <3>1, <3>2 DEF IsRuleDict
  <2>2. /\ pc' = [pc EXCEPT !["main"] = "query", !["cli"] = "accept"]
        /\ UNCHANGED << vms, changes, inherited, events, phase, lock, snap, SOURCES, epoch,
                        nft, pending, nextId, packet, verdict, prompt, answer, draft, nextRules >>
    BY <1>2 DEF LoadPolicy
  <2>3. /\ DOMAIN pc' = Threads
        /\ pc'["main"] \in MainLabels /\ pc'["cli"] \in CliLabels
        /\ pc'["watcher"] \in WatcherLabels
    BY <2>2 DEF TypeInv, TypeOK, Threads, MainLabels, CliLabels
  <2>4. TypeOK'
    BY <1>1, <2>1, <2>2, <2>3 DEF TypeInv, TypeOK
  <2>5. WorkInv'
    BY <1>2, <2>2 DEF LoadPolicy, TypeInv, TypeOK, WorkInv, Threads
  <2>6. QED
    BY <2>4, <2>5 DEF TypeInv
<1>3. CASE LoadPolicyFails
  BY <1>1, <1>3, ExitTyped DEF LoadPolicyFails
<1>4. QED
  BY <1>2, <1>3

\* A refresh publishes a typed map and keeps typed buckets.
LEMMA PublishTyped ==
  ASSUME TypeInv, NEW t \in {"main", "watcher"}, Publish(t)
  PROVE  TypeInv'
<1> DEFINE new  == snap[t]
           gone == Reused(new) \cup Vanished(new)
<1>1. new \in Maps /\ NamesOf(new) \subseteq Names
  BY DEF TypeInv, TypeOK, Maps, NamesOf
<1>2. IsRuleDict(RULES) /\ IsRuleDict(files) /\ epoch \in [Names -> Nat]
  BY DEF TypeInv, TypeOK
<1>3. IsRuleDict(files')
  BY <1>2, DropRules DEF Publish
<1>4. IsRuleDict(RULES')
  <2>1. IsRuleDict(Drop(RULES, gone))
    BY <1>2, DropRules
  <2>2. QED
    BY <1>1, <1>3, <2>1, BucketsTyped DEF Publish
<1>5. SOURCES' \in Maps /\ snap' \in [{"main", "watcher"} -> Maps]
  BY <1>1, NowhereTyped DEF Publish, TypeInv, TypeOK
<1>6. epoch' \in [Names -> Nat]
  BY <1>2 DEF Publish, NextEpoch
<1>7. pending' \subseteq Question /\ inherited' \subseteq Numbered
  BY DEF Publish, WithoutSources, TypeInv, TypeOK
<1>8. TypeOK'
  <2>1. DOMAIN pc' = Threads /\ pc'["main"] \in MainLabels /\ pc'["cli"] \in CliLabels
        /\ pc'["watcher"] \in WatcherLabels /\ lock' \in Threads \cup {"free"}
    BY DEF Publish, Goto, TypeInv, TypeOK, Threads, MainLabels, WatcherLabels
  <2>2. UNCHANGED << vms, changes, events, phase, nft, nextId, packetVars, cliVars >>
    BY DEF Publish
  <2>3. QED
    BY <1>3, <1>4, <1>5, <1>6, <1>7, <2>1, <2>2
       DEF packetVars, cliVars, TypeInv, TypeOK
<1>9. WorkInv'
  BY DEF Publish, Goto, packetVars, cliVars, TypeInv, TypeOK, WorkInv, Threads
<1>10. QED
  BY <1>8, <1>9 DEF TypeInv

\* Querying dom0, and finding nothing new.
LEMMA RefreshTyped ==
  ASSUME TypeInv, NEW t \in {"main", "watcher"}, Refresh(t)
  PROVE  TypeInv'
<1> USE DEF dom0Vars, memoryVars, queueVars, packetVars, cliVars, Goto
<1>1. CASE QueryDom0(t)
  <2>1. snap' \in [{"main", "watcher"} -> Maps]
    BY <1>1 DEF QueryDom0, TypeInv, TypeOK
  <2>2. DOMAIN pc' = Threads /\ pc'["main"] \in MainLabels /\ pc'["cli"] \in CliLabels
        /\ pc'["watcher"] \in WatcherLabels
    BY <1>1 DEF QueryDom0, TypeInv, TypeOK, Threads, MainLabels, WatcherLabels
  <2>3. WorkInv'
    BY <1>1 DEF QueryDom0, TypeInv, TypeOK, WorkInv, Threads
  <2>4. QED
    BY <1>1, <2>1, <2>2, <2>3 DEF QueryDom0, TypeInv, TypeOK
<1>2. CASE QueryFails(t)
  BY <1>2, ExitTyped DEF QueryFails, TypeInv, TypeOK
<1>3. CASE PublishNothing(t)
  <2>1. snap' \in [{"main", "watcher"} -> Maps]
    BY <1>3, NowhereTyped DEF PublishNothing, TypeInv, TypeOK
  <2>2. DOMAIN pc' = Threads /\ pc'["main"] \in MainLabels /\ pc'["cli"] \in CliLabels
        /\ pc'["watcher"] \in WatcherLabels
    BY <1>3 DEF PublishNothing, AfterRefresh, TypeInv, TypeOK, Threads, MainLabels,
                WatcherLabels
  <2>3. WorkInv'
    BY <1>3 DEF PublishNothing, AfterRefresh, TypeInv, TypeOK, WorkInv, Threads
  <2>4. QED
    BY <1>3, <2>1, <2>2, <2>3 DEF PublishNothing, TypeInv, TypeOK
<1>4. CASE Publish(t)
  BY <1>4, PublishTyped
<1>5. QED
  BY <1>1, <1>2, <1>3, <1>4 DEF Refresh

\* Loading nft, at startup and for each thread.
LEMMA LoadNftTyped ==
  ASSUME TypeInv,
         StartupReload \/ \E t \in Threads : LoadNft(t)
  PROVE  TypeInv'
<1> USE DEF dom0Vars, memoryVars, queueVars, packetVars, cliVars, Goto
<1>1. CASE StartupReload
  <2>1. nft'.mode \in {"policy", "failclosed"} /\ DOMAIN nft'.chains \subseteq IPs
        /\ nft'.chains \in [DOMAIN nft'.chains -> Seq(Rule)]
    BY <1>1, RenderedTyped DEF StartupReload, TypeInv, TypeOK
  <2>2. DOMAIN pc' = Threads /\ pc'["main"] = "recv" /\ pc'["cli"] = pc["cli"]
        /\ pc'["watcher"] = "register"
    BY <1>1 DEF StartupReload, TypeInv, TypeOK, Threads
  <2>3. WorkInv'
    BY <1>1, <2>2 DEF StartupReload, TypeInv, WorkInv
  <2>4. QED
    BY <1>1, <2>1, <2>2, <2>3
       DEF StartupReload, TypeInv, TypeOK, MainLabels, WatcherLabels, CliLabels
<1>2. ASSUME NEW t \in Threads, Reload(t)
      PROVE  TypeInv'
  <2>1. nft'.mode \in {"policy", "failclosed"} /\ DOMAIN nft'.chains \subseteq IPs
        /\ nft'.chains \in [DOMAIN nft'.chains -> Seq(Rule)]
    BY <1>2, RenderedTyped DEF Reload, TypeInv, TypeOK
  <2>2. DOMAIN pc' = Threads /\ pc'["main"] \in MainLabels /\ pc'["cli"] \in CliLabels
        /\ pc'["watcher"] \in WatcherLabels
    BY <1>2 DEF Reload, AfterReload, TypeInv, TypeOK, Threads, MainLabels, CliLabels,
                WatcherLabels
  <2>3. prompt' \in Question \cup {NoPrompt} /\ answer' \in Rule \cup {NoAnswer}
        /\ draft' \in Seq(Rule) /\ IsRuleDict(nextRules')
    BY <1>2, EmptySeq, NowhereTyped DEF Reload, TypeInv, TypeOK
  <2>4. WorkInv'
    BY <1>2 DEF Reload, AfterReload, TypeInv, TypeOK, WorkInv, Threads
  <2>5. QED
    BY <1>2, <2>1, <2>2, <2>3, <2>4 DEF Reload, TypeInv, TypeOK
<1>3. ASSUME NEW t \in Threads, ReloadRefused(t) \/ ReloadFails(t)
      PROVE  TypeInv'
  BY <1>3, ExitTyped DEF ReloadRefused, ReloadFails, TypeInv, TypeOK
<1>4. QED
  BY <1>1, <1>2, <1>3 DEF LoadNft

\* The watcher waiting for events.
LEMMA WatchTyped == TypeInv /\ (WatchRegister \/ ReadWatch) => TypeInv'
<1> SUFFICES ASSUME TypeInv, WatchRegister \/ ReadWatch PROVE TypeInv'
  OBVIOUS
<1> USE DEF dom0Vars, memoryVars, queueVars, packetVars, cliVars, Goto
<1>1. DOMAIN pc' = Threads /\ pc'["main"] = pc["main"] /\ pc'["cli"] = pc["cli"]
      /\ pc'["watcher"] \in WatcherLabels /\ events' \in Nat
  BY DEF WatchRegister, ReadWatch, TypeInv, TypeOK, Threads, WatcherLabels
<1>2. UNCHANGED << vms, changes, inherited, phase, lock, snap, SOURCES, epoch, RULES, files, nft,
                  pending, nextId, packet, verdict, prompt, answer, draft, nextRules >>
  BY DEF WatchRegister, ReadWatch
<1>3. QED
  BY <1>1, <1>2 DEF TypeInv, TypeOK, WorkInv

-------------------------------------------------------------------------------
(* Type correctness of the packet path *)

PacketType == [src : IPs \cup {None}, asks : Packets \cup {<< >>}, at : Nat,
               source : Names \cup {None}, epoch : Nat]

\* What every step of the callback leaves alone.
CallbackFrame ==
    /\ UNCHANGED << vms, changes, inherited, events, phase, lock, snap, SOURCES, epoch,
                    files, nft, prompt, answer, draft, nextRules >>
    /\ DOMAIN pc' = Threads /\ pc'["cli"] = pc["cli"] /\ pc'["watcher"] = pc["watcher"]

LEMMA CallbackStep ==
  ASSUME TypeInv, CallbackFrame, pc'["main"] \in MainLabels, pc'["main"] # "load",
         IsRuleDict(RULES'), pending' \subseteq Question, nextId' \in Nat,
         packet' \in PacketType, verdict' \in {"none", "accept", "drop"},
         pc'["main"] \in {"match", "ask"} =>
           /\ packet'.source \in Names /\ packet'.src \in IPs
           /\ packet'.asks # << >> => packet'.at \in 1 .. Len(packet'.asks),
         pc'["main"] = "ask" => packet'.asks # << >>,
         pc'["main"] \notin {"match", "ask", "recv"} => packet'.src \in IPs /\ packet'.at = 1
  PROVE  TypeInv'
<1>1. TypeOK'
  BY DEF CallbackFrame, TypeInv, TypeOK, PacketType
<1>2. WorkInv'
  BY DEF CallbackFrame, TypeInv, WorkInv
<1>3. QED
  BY <1>1, <1>2 DEF TypeInv

\* A packet that goes on asks its next question; one that is done is forgotten.
LEMMA ObeyTyped ==
  ASSUME TypeInv, pc["main"] \in {"match", "ask"}, packet.asks # << >>,
         NEW action, Obey(action)
  PROVE  /\ pc' = [pc EXCEPT !["main"] = "recv"] \/ pc' = [pc EXCEPT !["main"] = "match"]
         /\ packet' \in PacketType /\ verdict' \in {"none", "accept", "drop"}
         /\ pc' = [pc EXCEPT !["main"] = "match"] =>
              /\ packet'.source \in Names /\ packet'.src \in IPs
              /\ packet'.at \in 1 .. Len(packet'.asks)
<1>1. packet \in PacketType /\ verdict \in {"none", "accept", "drop"}
      /\ packet.source \in Names /\ packet.src \in IPs /\ packet.at \in 1 .. Len(packet.asks)
  BY DEF TypeInv, TypeOK, WorkInv, PacketType
<1>2. Len(packet.asks) \in Nat
  BY <1>1, EmptySeq, LenProperties, SourcesAssumption DEF PacketType
<1>3. NoPacket \in PacketType
  BY DEF NoPacket, PacketType
<1>4. CASE \E v \in {"accept", "drop"} : Verdict(v)
  BY <1>1, <1>3, <1>4 DEF Verdict, Goto, TypeInv, TypeOK, Threads
<1>5. CASE /\ packet.at # Len(packet.asks)
           /\ packet' = [packet EXCEPT !.at = @ + 1]
           /\ Goto("main", "match") /\ UNCHANGED verdict
  BY <1>1, <1>2, <1>5 DEF Goto, PacketType
<1>6. QED
  BY <1>4, <1>5 DEF Obey

\* Receiving a packet and finding out whose it is.
LEMMA AttributeTyped ==
  ASSUME TypeInv,
         \/ \E src \in IPs, asks \in Packets : Receive(src, asks)
         \/ KnownCheck \/ Recheck \/ UnknownSource \/ Attribute \/ Bind \/ LostSource
  PROVE  TypeInv'
<1> USE DEF dom0Vars, memoryVars, queueVars, packetVars, cliVars, Goto, Threads
<1>0. /\ packet \in PacketType /\ verdict \in {"none", "accept", "drop"}
      /\ IsRuleDict(RULES) /\ IsRuleDict(files) /\ SOURCES \in Maps
      /\ pending \subseteq Question /\ nextId \in Nat
      /\ DOMAIN pc = Threads /\ epoch \in [Names -> Nat]
  BY DEF TypeInv, TypeOK, PacketType
<1>1. ASSUME NEW src \in IPs, NEW asks \in Packets, Receive(src, asks)
      PROVE  TypeInv'
  <2>1. packet' \in PacketType /\ packet'.src \in IPs /\ packet'.at = 1
    BY <1>1 DEF Receive, NoPacket, PacketType
  <2>2. pc' = [pc EXCEPT !["main"] = "known"] /\ verdict' = "none"
        /\ UNCHANGED << RULES, pending, nextId >> /\ CallbackFrame
    BY <1>0, <1>1 DEF Receive, CallbackFrame
  <2>3. QED
    BY <1>0, <2>1, <2>2, CallbackStep DEF MainLabels
<1>2. CASE KnownCheck
  <2>1. packet.src \in IPs /\ packet.at = 1
    BY <1>2 DEF KnownCheck, TypeInv, WorkInv
  <2>2. /\ pc' = [pc EXCEPT !["main"] = "bind"] \/ pc' = [pc EXCEPT !["main"] = "query"]
        /\ UNCHANGED << packet, verdict, RULES, pending, nextId >> /\ CallbackFrame
    BY <1>0, <1>2 DEF KnownCheck, CallbackFrame
  <2>3. QED
    BY <1>0, <2>1, <2>2, CallbackStep DEF MainLabels
<1>3. CASE Recheck
  <2>1. packet.src \in IPs /\ packet.at = 1
    BY <1>3 DEF Recheck, TypeInv, WorkInv
  <2>2. /\ pc' = [pc EXCEPT !["main"] = "attribute"]
        /\ UNCHANGED << packet, verdict, RULES, pending, nextId >> /\ CallbackFrame
    BY <1>0, <1>3 DEF Recheck, CallbackFrame
  <2>3. QED
    BY <1>0, <2>1, <2>2, CallbackStep DEF MainLabels
<1>4. CASE Attribute
  <2>1. NoPacket \in PacketType
    BY DEF NoPacket, PacketType
  <2>2. /\ pc' = [pc EXCEPT !["main"] = "recv"] /\ packet' = NoPacket /\ verdict' = "drop"
        /\ UNCHANGED << RULES, pending, nextId >> /\ CallbackFrame
    BY <1>0, <1>4 DEF Attribute, Verdict, CallbackFrame
  <2>3. QED
    BY <1>0, <2>1, <2>2, CallbackStep DEF MainLabels
<1>5. CASE Bind
  <2> DEFINE source == SOURCES[packet.src]
  <2>1. packet.src \in IPs /\ packet.at = 1
    BY <1>5 DEF Bind, TypeInv, WorkInv
  <2>2. source \in Names
    BY <1>0, <1>5 DEF Bind, Maps
  <2>3. packet' \in PacketType /\ packet'.source \in Names /\ packet'.src \in IPs
        /\ packet'.at = 1 /\ packet'.asks = packet.asks
    BY <1>0, <1>5, <2>1, <2>2 DEF Bind, PacketType
  <2>4. packet.asks # << >> => Len(packet.asks) \in Nat \ {0}
    BY <1>0, EmptySeq, SourcesAssumption DEF PacketType
  <2>5. IsRuleDict(RULES')
    BY <1>0, <1>5, <2>2, BucketsTyped DEF Bind
  <2>6. /\ pc' = [pc EXCEPT !["main"] = "match"] /\ UNCHANGED << verdict, pending, nextId >>
        /\ CallbackFrame
    BY <1>0, <1>5 DEF Bind, CallbackFrame
  <2>7. QED
    BY <1>0, <2>3, <2>4, <2>5, <2>6, CallbackStep DEF MainLabels
<1>6. CASE UnknownSource \/ LostSource
  BY <1>0, <1>6, ExitTyped DEF UnknownSource, LostSource
<1>7. QED
  BY <1>1, <1>2, <1>3, <1>4, <1>5, <1>6

\* Deciding a packet, or queueing its question.
LEMMA DecideTyped ==
  ASSUME TypeInv,
         RefuseMalformed \/ Match \/ AskVanished \/ AskAnswered \/ Ask \/ AskNotifyFails
  PROVE  TypeInv'
<1> USE DEF dom0Vars, memoryVars, queueVars, packetVars, cliVars, Goto, Threads
<1>0. /\ packet \in PacketType /\ verdict \in {"none", "accept", "drop"}
      /\ IsRuleDict(RULES) /\ IsRuleDict(files)
      /\ pending \subseteq Question /\ nextId \in Nat
      /\ DOMAIN pc = Threads /\ epoch \in [Names -> Nat]
      /\ NoPacket \in PacketType
  BY DEF TypeInv, TypeOK, PacketType, NoPacket
<1>1. CASE RefuseMalformed \/ AskVanished
  <2>1. /\ pc' = [pc EXCEPT !["main"] = "recv"] /\ packet' = NoPacket /\ verdict' = "drop"
        /\ UNCHANGED << RULES, pending, nextId >> /\ CallbackFrame
    BY <1>0, <1>1 DEF RefuseMalformed, AskVanished, Verdict, CallbackFrame
  <2>2. QED
    BY <1>0, <2>1, CallbackStep DEF MainLabels
<1>2. CASE Match
  <2> DEFINE action == MatchingAction(RULES, packet.source, Asked)
  <2>1. UNCHANGED << RULES, pending, nextId >> /\ CallbackFrame
    <3>1. DOMAIN pc' = Threads /\ pc'["cli"] = pc["cli"] /\ pc'["watcher"] = pc["watcher"]
      BY <1>0, <1>2 DEF Match, Obey, Verdict
    <3>2. QED
      BY <1>2, <3>1 DEF Match, CallbackFrame
  <2>2. CASE action = "none"
    <3>1. pc' = [pc EXCEPT !["main"] = "ask"] /\ UNCHANGED << packet, verdict >>
          /\ packet.asks # << >>
      BY <1>2, <2>2 DEF Match
    <3>2. packet.source \in Names /\ packet.src \in IPs /\ packet.at \in 1 .. Len(packet.asks)
      BY <1>2 DEF Match, TypeInv, WorkInv
    <3>3. QED
      BY <1>0, <2>1, <3>1, <3>2, CallbackStep DEF MainLabels
  <2>3. CASE action # "none"
    <3>1. Obey(action) /\ packet.asks # << >> /\ pc["main"] = "match"
      BY <1>2, <2>3 DEF Match
    <3> HIDE DEF action
    <3>2. QED
      BY <1>0, <2>1, <3>1, ObeyTyped, CallbackStep DEF MainLabels
  <2>4. QED
    BY <2>2, <2>3
<1>3. ASSUME pc["main"] = "ask"
      PROVE  /\ packet.source \in Names /\ packet.src \in IPs
             /\ Asked \in Targets /\ packet.asks # << >>
             /\ IsRuleDict(WithBuckets(RULES, files, {packet.source}))
  <2>1. packet.source \in Names /\ packet.src \in IPs /\ packet.asks # << >>
        /\ packet.at \in 1 .. Len(packet.asks)
    BY <1>3 DEF TypeInv, WorkInv
  <2>2. Asked \in Targets
    BY <1>0, <2>1, ElementOfSeq, SourcesAssumption DEF Asked, PacketType
  <2>3. QED
    BY <1>0, <2>1, <2>2, BucketsTyped
<1>4. CASE AskAnswered
  <2> DEFINE action == RecheckAction(RULES')
  <2>1. Obey(action) /\ pc["main"] = "ask"
    BY <1>4 DEF AskAnswered
  <2>2. IsRuleDict(RULES') /\ packet.asks # << >>
    BY <1>3, <1>4, <2>1 DEF AskAnswered
  <2>3. UNCHANGED << pending, nextId >> /\ CallbackFrame
    <3>1. DOMAIN pc' = Threads /\ pc'["cli"] = pc["cli"] /\ pc'["watcher"] = pc["watcher"]
      BY <1>0, <2>1 DEF Obey, Verdict
    <3>2. QED
      BY <1>4, <3>1 DEF AskAnswered, CallbackFrame
  <2> HIDE DEF action
  <2>4. QED
    BY <1>0, <2>1, <2>2, <2>3, ObeyTyped, CallbackStep DEF MainLabels
<1>5. CASE Ask
  <2>1. pc["main"] = "ask" /\ IsRuleDict(RULES')
    BY <1>3, <1>5 DEF Ask, Asking
  <2>2. NewQuestion \in Question
    BY <1>0, <1>3, <2>1 DEF NewQuestion, Question
  <2>3. pending' \subseteq Question /\ nextId' \in Nat
    BY <1>0, <1>5, <2>2 DEF Ask
  <2>4. /\ pc' = [pc EXCEPT !["main"] = "recv"] /\ packet' = NoPacket /\ verdict' = "drop"
        /\ CallbackFrame
    BY <1>0, <1>5 DEF Ask, Verdict, CallbackFrame
  <2>5. QED
    BY <1>0, <2>1, <2>3, <2>4, CallbackStep DEF MainLabels
<1>6. CASE AskNotifyFails
  BY <1>0, <1>6, ExitTyped DEF AskNotifyFails
<1>7. QED
  BY <1>1, <1>2, <1>4, <1>5, <1>6

-------------------------------------------------------------------------------
(* Type correctness of the cli thread, and the theorem *)

\* What every step of the cli thread leaves alone.
CliFrame ==
    /\ UNCHANGED << vms, changes, inherited, events, phase, snap, SOURCES, epoch, nft, nextId,
                    packet, verdict >>
    /\ DOMAIN pc' = Threads /\ pc'["main"] = pc["main"] /\ pc'["watcher"] = pc["watcher"]

LEMMA CliStepTyped ==
  ASSUME TypeInv, CliFrame, pc'["cli"] \in CliLabels, lock' \in Threads \cup {"free"},
         IsRuleDict(RULES'), IsRuleDict(files'), pending' \subseteq Question,
         prompt' \in Question \cup {NoPrompt}, answer' \in Rule \cup {NoAnswer},
         draft' \in Seq(Rule), IsRuleDict(nextRules'),
         pc'["cli"] \notin {"off", "accept"} => prompt' \in Question,
         pc'["cli"] \in {"save", "replace", "remember"} => answer' \in Rule
  PROVE  TypeInv'
<1>1. TypeOK'
  BY DEF CliFrame, TypeInv, TypeOK
<1>2. WorkInv'
  BY DEF CliFrame, TypeInv, WorkInv
<1>3. QED
  BY <1>1, <1>2 DEF TypeInv

\* Every answer the user can give is a rule.
LEMMA DecisionsTyped ==
  ASSUME prompt \in Question, NEW a \in Decisions(prompt.target)
  PROVE  a \in Rule /\ a.epoch = prompt.epoch
<1>1. prompt.target \in Targets /\ prompt.epoch \in Nat
  BY DEF Question
<1>2. a.covers \in SUBSET Targets /\ a.host \in Hosts \cup {NoHost} /\ a.action \in Actions
      /\ a.epoch = prompt.epoch
      /\ a = [covers |-> a.covers, host |-> a.host, action |-> a.action, epoch |-> a.epoch]
  BY <1>1, SourcesAssumption DEF Decisions
<1>3. QED
  BY <1>1, <1>2 DEF Rule

LEMMA CliTyped ==
  ASSUME TypeInv, Cli
  PROVE  TypeInv'
<1> USE DEF dom0Vars, memoryVars, queueVars, packetVars, cliVars, Goto, Threads
<1>0. /\ IsRuleDict(RULES) /\ IsRuleDict(files) /\ pending \subseteq Question
      /\ prompt \in Question \cup {NoPrompt} /\ answer \in Rule \cup {NoAnswer}
      /\ draft \in Seq(Rule) /\ IsRuleDict(nextRules)
      /\ DOMAIN pc = Threads /\ lock \in Threads \cup {"free"}
  BY DEF TypeInv, TypeOK
<1>1. pc["cli"] \notin {"off", "accept"} => prompt \in Question
  BY DEF TypeInv, WorkInv
<1>2. pc["cli"] \in {"save", "replace", "remember"} => answer \in Rule
  BY DEF TypeInv, WorkInv
<1>3. << >> \in Seq(Rule) /\ IsRuleDict(Nowhere)
  BY EmptySeq, NowhereTyped
<1>4. CASE TakePrompt
  <2>1. prompt' \in Question
    BY <1>0, <1>4 DEF TakePrompt
  <2>2. CliFrame /\ pc' = [pc EXCEPT !["cli"] = "check"]
        /\ UNCHANGED << lock, RULES, files, pending, answer, draft, nextRules >>
    BY <1>0, <1>4 DEF TakePrompt, CliFrame
  <2>3. QED
    BY <1>0, <2>1, <2>2, CliStepTyped DEF CliLabels
<1>5. ASSUME \/ CheckPrompt /\ Current(prompt)
             \/ ShowPrompt /\ pc' = [pc EXCEPT !["cli"] = "shown"]
      PROVE  TypeInv'
  <2>1. pc' = [pc EXCEPT !["cli"] = "enriched"] \/ pc' = [pc EXCEPT !["cli"] = "shown"]
    BY <1>5 DEF CheckPrompt
  <2>2. CliFrame /\ UNCHANGED << lock, RULES, files >> /\ pending' \subseteq Question
        /\ pc["cli"] \notin {"off", "accept"}
    BY <1>0, <1>5, <2>1
       DEF CheckPrompt, ShowPrompt, DiscardPrompt, Discarded, BackToAccept, CliFrame
  <2>3. UNCHANGED << prompt, answer, draft, nextRules >>
    BY <1>0, <1>5 DEF CheckPrompt, ShowPrompt, DiscardPrompt, BackToAccept
  <2>4. QED
    BY <1>0, <1>1, <2>1, <2>2, <2>3, CliStepTyped DEF CliLabels
<1>6. ASSUME BackToAccept, CliFrame, UNCHANGED << lock, RULES, files >>,
             pending' \subseteq pending
      PROVE  TypeInv'
  <2>1. pc' = [pc EXCEPT !["cli"] = "accept"] /\ prompt' = NoPrompt /\ answer' = NoAnswer
        /\ draft' = << >> /\ nextRules' = Nowhere
    BY <1>6 DEF BackToAccept
  <2>2. QED
    BY <1>0, <1>3, <1>6, <2>1, CliStepTyped DEF CliLabels
<1>7. CASE (CheckPrompt /\ ~ Current(prompt)) \/ (ShowPrompt /\ DiscardPrompt)
           \/ KeepPrompt \/ IgnoreAnswer
  <2>1. BackToAccept /\ pending' \subseteq pending /\ UNCHANGED << lock, RULES, files >>
    BY <1>7 DEF CheckPrompt, ShowPrompt, KeepPrompt, IgnoreAnswer, DiscardPrompt, Discarded
  <2>2. CliFrame
    BY <1>0, <1>7, <2>1
       DEF CheckPrompt, ShowPrompt, KeepPrompt, IgnoreAnswer, BackToAccept, CliFrame
  <2>3. QED
    BY <1>6, <2>1, <2>2
<1>8. CASE Decide
  <2>1. prompt \in Question
    BY <1>1, <1>8 DEF Decide
  <2>2. answer' \in Rule
    BY <1>8, <2>1, DecisionsTyped DEF Decide
  <2>3. CliFrame /\ pc' = [pc EXCEPT !["cli"] = "save"]
        /\ UNCHANGED << lock, RULES, files, pending, prompt, draft, nextRules >>
    BY <1>0, <1>8 DEF Decide, CliFrame
  <2>4. QED
    BY <1>0, <2>1, <2>2, <2>3, CliStepTyped DEF CliLabels
<1>9. CASE ClaimAnswer
  <2>1. prompt \in Question /\ answer \in Rule
    BY <1>1, <1>2, <1>9 DEF ClaimAnswer
  <2>2. draft' \in Seq(Rule) /\ IsRuleDict(nextRules')
    <3>1. NewData \in Seq(Rule)
      BY <1>0, <2>1, ListAtTyped, RuleForms, AppendProperties DEF NewData
    <3>2. IsRuleDict(WithAnswer(RULES))
      <4>1. prompt.source \in Names
        BY <2>1 DEF Question
      <4>2. QED
        BY <1>0, <2>1, <4>1, PutRule, ListAtTyped, AppendProperties DEF WithAnswer
    <3>3. QED
      BY <1>0, <1>9, <3>1, <3>2 DEF ClaimAnswer
  <2>3. CliFrame /\ lock' = "cli" /\ pending' \subseteq pending
        /\ UNCHANGED << RULES, files, prompt, answer >>
    BY <1>0, <1>9 DEF ClaimAnswer, CliFrame
  <2>4. pc'["cli"] \in CliLabels
    BY <1>0, <1>9 DEF ClaimAnswer, CliLabels
  <2>5. QED
    BY <1>0, <2>1, <2>2, <2>3, <2>4, CliStepTyped
<1>10. CASE ReplaceFile
  <2>1. prompt.source \in Names /\ prompt \in Question /\ answer \in Rule
    BY <1>1, <1>2, <1>10 DEF ReplaceFile, Question
  <2>2. IsRuleDict(files')
    BY <1>0, <1>10, <2>1, PutRule DEF ReplaceFile
  <2>3. CliFrame /\ pc' = [pc EXCEPT !["cli"] = "remember"]
        /\ UNCHANGED << lock, RULES, pending, prompt, answer, draft, nextRules >>
    BY <1>0, <1>10 DEF ReplaceFile, CliFrame
  <2>4. QED
    BY <1>0, <2>1, <2>2, <2>3, CliStepTyped DEF CliLabels
<1>11. CASE RememberRule
  <2>1. prompt.source \in Names /\ prompt \in Question /\ answer \in Rule
    BY <1>1, <1>2, <1>11 DEF RememberRule, Question
  <2>2. IsRuleDict(RULES')
    BY <1>0, <1>11 DEF RememberRule
  <2>3. CliFrame /\ pc' = [pc EXCEPT !["cli"] = "reload"]
        /\ UNCHANGED << lock, files, pending, prompt, answer, draft, nextRules >>
    BY <1>0, <1>11 DEF RememberRule, CliFrame
  <2>4. QED
    BY <1>0, <2>1, <2>2, <2>3, CliStepTyped DEF CliLabels
<1>12. CASE DecideFails \/ SaveFails
  BY <1>0, <1>12, ExitTyped DEF DecideFails, SaveFails
<1>13. CASE LoadNft("cli")
  BY <1>13, LoadNftTyped
<1>14. CASE CheckPrompt \/ ShowPrompt
  BY <1>5, <1>7, <1>14 DEF CheckPrompt, ShowPrompt
<1>15. QED
  BY <1>4, <1>7, <1>8, <1>9, <1>10, <1>11, <1>12, <1>13, <1>14 DEF Cli

\* Each step of each actor keeps every variable and every intermediate result typed.
LEMMA NextTyped == TypeInv /\ [Next]_vars => TypeInv'
<1> SUFFICES ASSUME TypeInv, [Next]_vars PROVE TypeInv'
  OBVIOUS
<1>1. CASE Dom0
  BY <1>1, Dom0Typed
<1>2. CASE Service
  BY <1>2, ServiceTyped
<1>3. CASE Main
  <2>1. CASE LoadPolicy \/ LoadPolicyFails
    BY <2>1, LoadTyped
  <2>2. CASE Refresh("main")
    BY <2>2, RefreshTyped
  <2>3. CASE StartupReload \/ LoadNft("main")
    BY <2>3, LoadNftTyped DEF Threads
  <2>4. CASE Packet
    BY <2>4, AttributeTyped, DecideTyped DEF Packet
  <2>5. QED
    BY <1>3, <2>1, <2>2, <2>3, <2>4 DEF Main
<1>4. CASE Watcher
  <2>1. CASE WatchRegister \/ ReadWatch
    BY <2>1, WatchTyped
  <2>2. CASE Refresh("watcher")
    BY <2>2, RefreshTyped
  <2>3. CASE LoadNft("watcher")
    BY <2>3, LoadNftTyped DEF Threads
  <2>4. QED
    BY <1>4, <2>1, <2>2, <2>3 DEF Watcher
<1>5. CASE Cli
  BY <1>5, CliTyped
<1>6. CASE UNCHANGED vars
  BY <1>6 DEF vars, TypeInv, TypeOK, WorkInv
<1>7. QED
  BY <1>1, <1>2, <1>3, <1>4, <1>5, <1>6 DEF Next

(* Type correctness: whatever the threads, dom0 and systemd do, every      *)
(* variable keeps the shape its Python counterpart has.                    *)
THEOREM TypeCorrect == Spec => []TypeOK
<1>1. Init => TypeInv
  BY InitTyped
<1>2. TypeInv /\ [Next]_vars => TypeInv'
  BY NextTyped
<1>3. TypeInv => TypeOK
  BY DEF TypeInv
<1>4. QED
  BY <1>1, <1>2, <1>3, PTL DEF Spec
===============================================================================
