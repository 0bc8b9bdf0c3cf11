---------------------------- MODULE DnsHintCache ----------------------------
(***************************************************************************)
(* The display hints of dns_cache_runtime.py: which name an address stands *)
(* for in a prompt.  Two dicts under DNS_CACHE_LOCK, filled by the cli     *)
(* thread and its pool of workers, emptied by the watcher when a numbered  *)
(* DispVM goes, and read by the packet callback.                           *)
(*                                                                         *)
(* A name is a rule's (qtype, qname) pair; the label it gives an address   *)
(* is its qname.  Time is what is left: an entry with 0 left has expired.  *)
(* One step is one section of DNS_CACHE_LOCK or POLICY_LOCK, or one answer *)
(* of the resolver.                                                        *)
(***************************************************************************)
EXTENDS Naturals, Sequences, FiniteSets, Dicts

CONSTANTS
    Sources,      \* policy names
    Numbered,     \* those of numbered DispVMs
    Addrs,        \* destination addresses
    DnsNames,     \* what a dns rule can be about
    TTLs,         \* lifetimes an answer can have
    FailureTTL,   \* DNS_REFRESH_FAILURE_TTL
    MaxPerSource, \* config dns_cache_max_per_source
    MaxGlobal,    \* config dns_cache_max_global
    Workers,      \* config dns_cache_refresh_workers
    None,
    Decisions,    \* bound: the dns rules the user saves
    MaxVMs        \* bound: VMs that bear a numbered name, one after the other

ASSUME HintAssumption ==
    /\ Numbered \subseteq Sources
    /\ TTLs \subseteq Nat \ {0} /\ FailureTTL \in Nat \ {0}
    /\ MaxPerSource \in Nat \ {0} /\ MaxGlobal \in Nat \ {0} /\ Workers \in Nat \ {0}
    /\ None \notin DnsNames /\ IsFiniteSet(Addrs)
    /\ Decisions \subseteq [source : Sources, name : DnsNames, hinted : BOOLEAN]

VARIABLES
    live,      \* SOURCES_BY_NAME
    vm,        \* history: which VM bears a name now
    RULES,     \* source -> its dns rules, in order
    response,  \* DNS_RESPONSE_CACHE: <<source, addr>> -> the name it stands for
    qname,     \* DNS_QNAME_CACHE: <<source, name>> -> the addresses it had
    lookup,    \* lazy_dns_name in the cli thread
    jobs,      \* refresh_dns_rule calls not yet stored: name -> its answer
    found,     \* what the jobs of this lookup returned
    raced,     \* history: <<source, vm>> cleaned up while a lookup for it ran
    orphans    \* history: labels whose qname entry was evicted

sourceVars == << live, vm, RULES, raced >>
cacheVars  == << response, qname, orphans >>
lookupVars == << lookup, jobs, found >>
vars == << live, vm, RULES, response, qname, lookup, jobs, found, raced, orphans >>

Empty == [x \in {} |-> x]
(* The vm of a lookup, as that of a label, is history: the VM that has the *)
(* rule with the name.                                                     *)
Idle == [at |-> "idle", source |-> None, addr |-> None, vm |-> 0, stale |-> None,
         rules |-> << >>, refresh |-> << >>, match |-> None]

Init ==
    /\ live = Sources \ Numbered
    /\ vm = [s \in Sources |-> 0]
    /\ RULES = [s \in live |-> << >>]
    /\ response = Empty /\ qname = Empty
    /\ lookup = Idle /\ jobs = Empty /\ found = Empty
    /\ raced = {} /\ orphans = {}

-------------------------------------------------------------------------------
(* Sources and rules: publication of the source map with its two cleanups, *)
(* and a dns rule the user saves (in the cli thread, between lookups).     *)

Looking == lookup.at \notin {"idle", "done"}

\* The hints of a source, deleted under DNS_CACHE_LOCK by both cleanups.
BrokenWithoutHints(dict, s) ==
    IF s \in live THEN dict ELSE Drop(dict, {k \in DOMAIN dict : k[1] = s})
WithoutHints(dict, s) == Drop(dict, {k \in DOMAIN dict : k[1] = s})

Cleanup(s) ==
    /\ response' = WithoutHints(response, s)
    /\ qname' = WithoutHints(qname, s)
    /\ orphans' = {k \in orphans : k[1] # s}
    /\ raced' = {r \in raced : r[1] # s}
                   \cup (IF Looking /\ lookup.source = s THEN {<<s, lookup.vm>>} ELSE {})
    /\ UNCHANGED lookupVars

\* ensure_rule_entry, called for every source of the new map.
BrokenEnsured(s) == RULES
Ensured(s) == Put(RULES, s, << >>)

Appear(s) ==
    /\ s \in Numbered \ live
    /\ vm[s] < MaxVMs
    /\ live' = live \cup {s}
    /\ vm' = [vm EXCEPT ![s] = @ + 1]
    /\ RULES' = Ensured(s)
    /\ UNCHANGED << cacheVars, lookupVars, raced >>

\* cleanup_disposable_rule_entries
Vanish(s) ==
    /\ s \in Numbered \cap live
    /\ live' = live \ {s}
    /\ RULES' = Drop(RULES, {s})
    /\ Cleanup(s)
    /\ UNCHANGED vm

\* cleanup_reused_numbered_dispvm_entries, then ensure_rule_entry
Reuse(s) ==
    /\ s \in Numbered \cap live
    /\ vm[s] < MaxVMs
    /\ vm' = [vm EXCEPT ![s] = @ + 1]
    /\ RULES' = Ensured(s)
    /\ Cleanup(s)
    /\ UNCHANGED live

(* hinted: an allow rule for a concrete A or CNAME name, the only kind     *)
(* allowed_dns_hint_rules copies.                                          *)
SaveRule(d) ==
    /\ lookup.at = "idle"
    /\ d.source \in live
    /\ \A i \in DOMAIN RULES[d.source] : RULES[d.source][i].name # d.name
    /\ RULES' = [RULES EXCEPT ![d.source] =
                    Append(@, [name |-> d.name, hinted |-> d.hinted])]
    /\ UNCHANGED << live, vm, raced, cacheVars, lookupVars >>

-------------------------------------------------------------------------------
(* store_dns_labels: one section of DNS_CACHE_LOCK.                        *)

Labelled(r, s, n, a) == <<s, a>> \in DOMAIN r /\ r[<<s, a>>].name = n

\* remove_old_qname_ips: only labels that are still this name's own.
BrokenOwnOldLabels(s, n) == {}
OwnOldLabels(s, n) ==
    IF <<s, n>> \in DOMAIN qname
    THEN {<<s, a>> : a \in {b \in qname[<<s, n>>].addrs : Labelled(response, s, n, b)}}
    ELSE {}

(* The keys an eviction may take: as many as there are too many, expired   *)
(* ones and those that expire soonest first.                               *)
Evictions(dict, keys, limit) ==
    IF Cardinality(keys) <= limit THEN {{}}
    ELSE {E \in SUBSET keys :
            /\ Cardinality(E) = Cardinality(keys) - limit
            /\ \A e \in E, k \in keys \ E : dict[e].left <= dict[k].left}

KeysOf(dict, s) == {k \in DOMAIN dict : k[1] = s}

\* prune_qname_cache: after an eviction of labels, for every source.
Pruned(r, q) ==
    [k \in DOMAIN q |->
        [q[k] EXCEPT !.addrs = {a \in @ : Labelled(r, k[1], k[2], a)}]]

BrokenGlobalLimit == MaxPerSource + MaxGlobal
GlobalLimit == MaxGlobal

Store(n) ==
    /\ n \in DOMAIN jobs
    /\ jobs[n].answered
    /\ LET s == lookup.source
           new == {<<s, a>> : a \in jobs[n].addrs}
           r0 == Drop(response, OwnOldLabels(s, n))
           r1 == [k \in DOMAIN r0 \cup new |->
                     IF k \in new THEN [name |-> n, left |-> jobs[n].left, vm |-> lookup.vm]
                     ELSE r0[k]]
           q1 == Put(qname, <<s, n>>, [addrs |-> jobs[n].addrs, left |-> jobs[n].left])
       IN  \E e1 \in Evictions(r1, KeysOf(r1, s), MaxPerSource) :
           LET r2 == Drop(r1, e1) IN
           \E e2 \in Evictions(r2, DOMAIN r2, GlobalLimit) :
           LET r3 == Drop(r2, e2)
               q3 == IF e1 \cup e2 = {} THEN q1 ELSE Pruned(r3, q1)
           IN
           \E e3 \in Evictions(q3, KeysOf(q3, s), MaxPerSource) :
           LET q4 == Drop(q3, e3) IN
           \E e4 \in Evictions(q4, DOMAIN q4, GlobalLimit) :
             /\ response' = r3
             /\ qname' = Drop(q4, e4)
             /\ orphans' =
                  {k \in DOMAIN r3 : \/ k \in orphans \ new
                                     \/ <<k[1], r3[k].name>> \in e3 \cup e4}
    /\ found' = Put(found, n, jobs[n].addrs)
    /\ jobs' = Drop(jobs, {n})
    /\ UNCHANGED << sourceVars, lookup >>

(* The resolver answers, or fails and leaves a negative entry; the clock   *)
(* is read before the lock.  A pool has at most Workers threads.           *)
Answer(n) ==
    /\ n \in DOMAIN jobs
    /\ ~ jobs[n].answered
    /\ Cardinality({m \in DOMAIN jobs : jobs[m].answered}) < Workers
    /\ \/ \E addrs \in SUBSET Addrs \ {{}}, ttl \in TTLs :
            jobs' = [jobs EXCEPT ![n] = [answered |-> TRUE, addrs |-> addrs, left |-> ttl]]
       \/ jobs' = [jobs EXCEPT ![n] = [answered |-> TRUE, addrs |-> {}, left |-> FailureTTL]]
    /\ UNCHANGED << sourceVars, cacheVars, lookup, found >>

-------------------------------------------------------------------------------
(* lazy_dns_name, in the cli thread.                                       *)

Asked == [answered |-> FALSE, addrs |-> {}, left |-> 0]

\* A flow prompt whose source is current.
Enrich(s, a) ==
    /\ lookup.at = "idle"
    /\ s \in live
    /\ lookup' = [Idle EXCEPT !.at = "stale", !.source = s, !.addr = a, !.vm = vm[s]]
    /\ UNCHANGED << sourceVars, cacheVars, jobs, found >>

\* stale_response_rule: an expired label is refreshed first.
StaleRule ==
    /\ lookup.at = "stale"
    /\ LET k == <<lookup.source, lookup.addr>> IN
       IF k \in DOMAIN response /\ response[k].left = 0
       THEN /\ lookup' = [lookup EXCEPT !.at = "refreshStale", !.stale = response[k].name,
                                        !.vm = response[k].vm]
            /\ jobs' = Put(jobs, response[k].name, Asked)
       ELSE /\ lookup' = [lookup EXCEPT !.at = "rules"]
            /\ UNCHANGED jobs
    /\ UNCHANGED << sourceVars, cacheVars, found >>

Finish(name) ==
    /\ lookup' = [Idle EXCEPT !.at = "done", !.source = lookup.source, !.vm = lookup.vm,
                              !.match = name]
    /\ found' = Empty

StaleRefreshed ==
    /\ lookup.at = "refreshStale"
    /\ jobs = Empty
    /\ IF lookup.addr \in found[lookup.stale]
       THEN Finish(lookup.stale)
       ELSE /\ lookup' = [lookup EXCEPT !.at = "rules"]
            /\ found' = Empty
    /\ UNCHANGED << sourceVars, cacheVars, jobs >>

\* allowed_dns_hint_rules: what it leaves out is passed over below.
BrokenHintRule(rule) == TRUE
HintRule(rule) == rule.hinted

CopyRules ==
    /\ lookup.at = "rules"
    /\ lookup' = [lookup EXCEPT !.at = "history", !.rules = ListAt(RULES, lookup.source),
                      !.vm = IF lookup.source \in live THEN vm[lookup.source] ELSE @]
    /\ UNCHANGED << sourceVars, cacheVars, jobs, found >>

\* cached_qname_labels for the next rule but the one just refreshed: fresh
\* history, or a refresh.
ReadHistory ==
    /\ lookup.at = "history"
    /\ lookup.rules # << >>
    /\ LET rule == Head(lookup.rules)
           k == <<lookup.source, rule.name>>
           fresh == k \in DOMAIN qname /\ qname[k].left > 0
           rest == [lookup EXCEPT !.rules = Tail(@)]
       IN  \/ /\ ~ HintRule(rule) \/ rule.name = lookup.stale
              /\ lookup' = rest
           \/ /\ HintRule(rule) /\ rule.name # lookup.stale
              /\ ~ fresh
              /\ lookup' = [rest EXCEPT !.refresh = Append(@, rule.name)]
           \/ /\ HintRule(rule) /\ rule.name # lookup.stale
              /\ fresh
              /\ lookup' = IF lookup.addr \in qname[k].addrs
                           THEN [rest EXCEPT !.match = rule.name] ELSE rest
    /\ UNCHANGED << sourceVars, cacheVars, jobs, found >>

\* refresh_dns_rules: all of them go to the pool.
SubmitRefreshes ==
    /\ lookup.at = "history"
    /\ lookup.rules = << >>
    /\ lookup' = [lookup EXCEPT !.at = "refresh"]
    /\ jobs' = [n \in {lookup.refresh[i] : i \in DOMAIN lookup.refresh} |-> Asked]
    /\ UNCHANGED << sourceVars, cacheVars, found >>

(* The first refreshed rule with the address, else the last cached match,  *)
(* else the PTR name (None stands for it, for no name and for one that is  *)
(* refused).                                                               *)
Refreshed ==
    /\ lookup.at = "refresh"
    /\ jobs = Empty
    /\ LET hits == {i \in DOMAIN lookup.refresh : lookup.addr \in found[lookup.refresh[i]]}
       IN  IF hits = {} THEN Finish(lookup.match)
           ELSE \E i \in hits : (\A j \in hits : i <= j) /\ Finish(lookup.refresh[i])
    /\ UNCHANGED << sourceVars, cacheVars, jobs >>

\* The prompt is sent with its host field, and answered.
Shown ==
    /\ lookup.at = "done"
    /\ lookup' = Idle
    /\ UNCHANGED << sourceVars, cacheVars, jobs, found >>

-------------------------------------------------------------------------------
Older(dict) == [k \in DOMAIN dict |->
                  [dict[k] EXCEPT !.left = IF @ = 0 THEN 0 ELSE @ - 1]]

\* Time passes for everything that has a lifetime.
Tick ==
    /\ response' = Older(response)
    /\ qname' = Older(qname)
    /\ jobs' = Older(jobs)
    /\ UNCHANGED << sourceVars, orphans, lookup, found >>

CliStep ==
    \/ StaleRule \/ StaleRefreshed \/ CopyRules \/ ReadHistory \/ SubmitRefreshes \/ Refreshed \/ Shown
    \/ \E n \in DnsNames : Answer(n) \/ Store(n)

Next ==
    \/ \E s \in Sources : Appear(s) \/ Vanish(s) \/ Reuse(s)
    \/ \E d \in Decisions : SaveRule(d)
    \/ \E s \in Sources, a \in Addrs : Enrich(s, a)
    \/ CliStep
    \/ Tick

Spec == Init /\ [][Next]_vars

-------------------------------------------------------------------------------
(* Properties *)

\* What add_cached_dns_name attaches to a packet.
FreshName(s, a) ==
    IF <<s, a>> \in DOMAIN response /\ response[<<s, a>>].left > 0
    THEN response[<<s, a>>].name ELSE None

\* The dicts, the lookup and its jobs keep their shape.
TypeOK ==
    /\ Sources \ Numbered \subseteq live /\ live \subseteq Sources
    /\ vm \in [Sources -> Nat]
    /\ DOMAIN RULES = live
    /\ DOMAIN response \subseteq Sources \X Addrs
    /\ \A k \in DOMAIN response : response[k] \in [name : DnsNames, left : Nat, vm : Nat]
    /\ DOMAIN qname \subseteq Sources \X DnsNames
    /\ \A k \in DOMAIN qname : qname[k] \in [addrs : SUBSET Addrs, left : Nat]
    /\ lookup.at \in {"idle", "stale", "refreshStale", "rules", "history", "refresh", "done"}
    /\ DOMAIN jobs \cup DOMAIN found \subseteq DnsNames
    /\ lookup.at \notin {"refreshStale", "refresh"} => jobs = Empty /\ found = Empty

(* Neither dict outgrows its two limits, whichever of labels and negative  *)
(* entries fills it and whichever sources share it.                        *)
CachesAreBounded ==
    \A dict \in {response, qname} :
        /\ Cardinality(DOMAIN dict) <= MaxGlobal
        /\ \A s \in Sources : Cardinality(KeysOf(dict, s)) <= MaxPerSource

(* A label and the history of its name agree on the address and on the     *)
(* time they have left, so the next refresh of the name replaces it; only  *)
(* a label whose history was evicted is on its own until it expires.       *)
LabelsHaveTheirHistory ==
    \A k \in DOMAIN response \ orphans :
        LET h == <<k[1], response[k].name>> IN
        /\ h \in DOMAIN qname
        /\ k[2] \in qname[h].addrs
        /\ qname[h].left = response[k].left

\* The names a source has an allow rule for.
Allowed(s) == {RULES[s][i].name : i \in {j \in DOMAIN RULES[s] : RULES[s][j].hinted}}

(* A hint, in a packet or in a prompt, is a name that the VM of the packet *)
(* has an allow rule for (README: "resolved an allowed A/CNAME DNS rule"), *)
(* although a lookup reads the rules once and stores later, and an expired *)
(* label is refreshed without them.  Excepted is what a lookup under way   *)
(* at a cleanup left to the next VM of the name.                           *)
HintIsAllowed ==
    \A s \in live :
        /\ \A a \in Addrs :
              \/ FreshName(s, a) \in Allowed(s) \cup {None}
              \/ <<s, response[<<s, a>>].vm>> \in raced
        /\ lookup.source = s /\ lookup.at = "done" /\ lookup.vm = vm[s] =>
              lookup.match \in Allowed(s) \cup {None}

(* A VM of a numbered name inherits no hint of an earlier one but those    *)
(* of the lookup that was under way when the last cleanup of the name ran, *)
(* of the earlier VM that lookup was for (README: "one VM's DNS lookup     *)
(* does not label another VM's traffic").                                  *)
IsOf(s, v) == s \in live /\ v = vm[s]
HintsGoWithTheirVm ==
    \A k \in DOMAIN response :
        IsOf(k[1], response[k].vm) \/ <<k[1], response[k].vm>> \in raced
=============================================================================
