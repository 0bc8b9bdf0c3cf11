----------------------------- MODULE SnitchDaemon -----------------------------
(***************************************************************************)
(* One qubes-snitchd process with its three threads, the policy they share *)
(* and the policy's two copies outside the process: the YAML files and the *)
(* nft table.                                                              *)
(*                                                                         *)
(*   main     startup, then the NFQUEUE callback, one packet at a time     *)
(*   cli      cli_server: one prompt is shown and one answer saved at a    *)
(*            time                                                         *)
(*   watcher  qubesdb_source_watcher: re-reads the source map on an event  *)
(*                                                                         *)
(* A step is one critical section of POLICY_LOCK or one piece of code      *)
(* between two of them.  The sections that reach outside the process while *)
(* they hold the lock (os.replace, nft) are split at those points, because *)
(* a crash, a signal or a packet can fall between them.                    *)
(*                                                                         *)
(* Operators called Broken... are mutations of the definition they         *)
(* precede: no action uses them.                                           *)
(***************************************************************************)
EXTENDS PolicyRules, FiniteSets

CONSTANTS
    Names,      \* policy names dom0 can report
    Numbered,   \* those of numbered DispVMs, which Qubes reuses
    Shared,     \* those several VMs share: dispvm-<base>
    IPs,        \* source addresses
    None,       \* no address, name or target
    Packets,    \* the questions a packet asks, in order: <<flow>> for normal
                \* traffic, <<resolver flow, dns question>> for UDP/53 and
                \* << >> for a packet refused before any question
    HostSets,   \* what a host name can resolve to: sets of flow targets
                \* that differ only in their destination
    QueueSize,  \* config pending_queue_size
    MaxPrompts, \* bound: prompt ids one process hands out
    MaxRules,   \* bound: a packet is received while no file has more rules
    MaxChanges  \* bound: changes dom0 makes to its VMs

ASSUME SourcesAssumption ==
    /\ Numbered \subseteq Names
    /\ Shared \subseteq Names \ Numbered
    /\ None \notin Names \cup IPs \cup Targets
    /\ Packets \subseteq Seq(Targets)
    /\ HostSets \subseteq SUBSET Targets
ASSUME BoundsAssumption ==
    /\ QueueSize \in Nat \ {0}
    /\ MaxPrompts \in Nat
    /\ MaxRules \in Nat
    /\ MaxChanges \in Nat

VARIABLES
    vms,        \* dom0's truth: address -> name
    changes,    \* how often dom0 changed it (bound only)
    inherited,  \* history: numbered names that stand for a new VM, announced
                \* by QubesDB, since the rules in their bucket were saved
    events,     \* QubesDB watch events not yet read
    phase,      \* "down", "starting", "up", or "dead" until ExecStopPost ran
    pc,         \* where each thread is
    lock,       \* the thread that holds POLICY_LOCK, or "free"
    snap,       \* what each thread's last dom0 query returned
    SOURCES,    \* SOURCES_BY_IP; SOURCES_BY_NAME is its inverse
    epoch,      \* history: how often a numbered name was published anew
    RULES,      \* name -> rules, in memory
    files,      \* name -> rules, in RULES_DIR
    nft,        \* the live nft table
    pending,    \* PENDING_QUESTIONS with PENDING_PROMPT_IDS
    nextId,     \* NEXT_PROMPT_ID
    packet,     \* the packet the callback is working on
    verdict,    \* the last NFQUEUE verdict
    prompt,     \* the cli thread's copy of the question it shows
    answer,     \* the rule the user's decision stands for
    draft,      \* the YAML data of append_rule, not yet in place
    nextRules   \* its copy of RULES with the new rule, not yet published

dom0Vars   == << vms, changes, inherited >>
memoryVars == << SOURCES, epoch, RULES >>
queueVars  == << pending, nextId >>
packetVars == << packet, verdict >>
cliVars    == << prompt, answer, draft, nextRules >>
vars == << vms, changes, inherited, events, phase, pc, lock, snap, SOURCES, epoch, RULES,
           files, nft, pending, nextId, packet, verdict, prompt, answer, draft, nextRules >>

Threads == {"main", "cli", "watcher"}

-------------------------------------------------------------------------------
(* Values *)

NamesOf(map) == {map[ip] : ip \in DOMAIN map}
IPsOf(map, name) == {ip \in DOMAIN map : map[ip] = name}

Nowhere == [x \in {} |-> x]           \* the empty map and the empty dict
FailClosed == [mode |-> "failclosed", chains |-> Nowhere]
NoPacket == [src |-> None, asks |-> << >>, at |-> 1, source |-> None, epoch |-> 0]
NoPrompt == [source |-> None, target |-> None, src |-> None, id |-> 0, epoch |-> 0]
NoAnswer == [covers |-> {}, host |-> NoHost, action |-> "none", epoch |-> 0]

Maps == {m \in UNION {[D -> Names] : D \in SUBSET IPs} :
           \A n \in Names \ Shared : \A a, b \in IPsOf(m, n) : a = b}

Question == [source : Names, target : Targets, src : IPs, id : Nat, epoch : Nat]

IsRuleDict(dict) == /\ DOMAIN dict \subseteq Names
                    /\ dict \in [DOMAIN dict -> Seq(Rule)]

-------------------------------------------------------------------------------
Init ==
    /\ vms = Nowhere
    /\ changes = 0
    /\ inherited = {}
    /\ events = 0
    /\ phase = "down"
    /\ pc = [t \in Threads |-> "off"]
    /\ lock = "free"
    /\ snap = [t \in {"main", "watcher"} |-> Nowhere]
    /\ SOURCES = Nowhere
    /\ epoch = [n \in Names |-> 0]
    /\ RULES = Nowhere
    /\ files = Nowhere
    /\ nft = FailClosed
    /\ pending = {}
    /\ nextId = 1
    /\ packet = NoPacket
    /\ verdict = "none"
    /\ prompt = NoPrompt
    /\ answer = NoAnswer
    /\ draft = << >>
    /\ nextRules = Nowhere

(* The process is gone, whichever thread ended it: fail_daemon's os._exit, *)
(* an exception that leaves main(), a signal or a crash.  Its memory goes  *)
(* with it; files and the nft table stay.                                  *)
Exit ==
    /\ phase' = "dead"
    /\ pc' = [t \in Threads |-> "off"]
    /\ lock' = "free"
    /\ snap' = [t \in {"main", "watcher"} |-> Nowhere]
    /\ SOURCES' = Nowhere
    /\ epoch' = [n \in Names |-> 0]
    /\ RULES' = Nowhere
    /\ pending' = {}
    /\ nextId' = 1
    /\ packet' = NoPacket
    /\ verdict' = "none"
    /\ prompt' = NoPrompt
    /\ answer' = NoAnswer
    /\ draft' = << >>
    /\ nextRules' = Nowhere
    /\ events' = 0
    /\ inherited' = {}
    /\ UNCHANGED << vms, changes >>

Goto(t, label) == pc' = [pc EXCEPT ![t] = label]

-------------------------------------------------------------------------------
(* Dom0 (external): a VM comes and goes; QubesDB tells whoever watches.    *)

Watching == pc["watcher"] \notin {"off", "register"}

Dom0Sets(map) ==
    /\ changes < MaxChanges
    /\ vms' = map
    /\ changes' = changes + 1
    /\ events' = IF Watching THEN events + 1 ELSE events
    /\ UNCHANGED << phase, pc, lock, snap, memoryVars, files, nft, queueVars,
                    packetVars, cliVars >>

VmAppears(ip, name) ==
    /\ ip \notin DOMAIN vms
    /\ name \notin Shared => name \notin NamesOf(vms)
    /\ Dom0Sets(Put(vms, ip, name))
    /\ inherited' = IF name \in Numbered /\ Watching /\ ListAt(RULES, name) # << >>
                    THEN inherited \cup {name} ELSE inherited

VmGone(ip) ==
    /\ ip \in DOMAIN vms
    /\ Dom0Sets(Drop(vms, {ip}))
    /\ UNCHANGED inherited

-------------------------------------------------------------------------------
(* systemd: start (ExecStartPre loads the fail-closed table), ExecStopPost, *)
(* SIGTERM, and a crash of the process.                                    *)

Start ==
    /\ phase = "down"
    /\ phase' = "starting"
    /\ nft' = FailClosed
    /\ Goto("main", "load")
    /\ UNCHANGED << dom0Vars, events, lock, snap, memoryVars, files, queueVars,
                    packetVars, cliVars >>

StopPost ==
    /\ phase = "dead"
    /\ phase' = "down"
    /\ nft' = FailClosed
    /\ UNCHANGED << dom0Vars, events, pc, lock, snap, memoryVars, files,
                    queueVars, packetVars, cliVars >>

(* stop(): runs in the main thread between any two of its steps and takes  *)
(* no lock; the other threads go on until the process is gone.  Only the   *)
(* numbered names that have a file lose it and their bucket.               *)
Sigterm ==
    /\ phase \in {"starting", "up"}
    /\ pc["main"] # "stopping"
    /\ files' = Drop(files, Numbered)
    /\ RULES' = Drop(RULES, Numbered \cap DOMAIN files)
    /\ Goto("main", "stopping")
    /\ UNCHANGED << dom0Vars, events, phase, lock, snap, SOURCES, epoch, nft,
                    queueVars, packetVars, cliVars >>

Stopped ==
    /\ pc["main"] = "stopping"
    /\ Exit
    /\ UNCHANGED << files, nft >>

Crash ==
    /\ phase \in {"starting", "up"}
    /\ Exit
    /\ UNCHANGED << files, nft >>

-------------------------------------------------------------------------------
(* Startup: load_policy_without_sources, then the cli thread starts, then  *)
(* refresh_sources_required (a query like any other, see below).           *)

BrokenCleanedFiles(dir) == dir
CleanedFiles(dir) == Drop(dir, Numbered)

LoadPolicy ==
    /\ pc["main"] = "load"
    /\ files' = CleanedFiles(files)
    /\ \E resolved \in [Hosts -> HostSets] :
         RULES' = [n \in DOMAIN files' |->
                     [i \in DOMAIN files'[n] |-> Runtime(files'[n][i], resolved)]]
    /\ pc' = [pc EXCEPT !["main"] = "query", !["cli"] = "accept"]
    /\ UNCHANGED << dom0Vars, events, phase, lock, snap, SOURCES, epoch, nft,
                    queueVars, packetVars, cliVars >>

\* A bad rule file or an unresolvable dest_dns name, after the cleanup.
LoadPolicyFails ==
    /\ pc["main"] = "load"
    /\ files' = CleanedFiles(files)
    /\ Exit
    /\ UNCHANGED nft

-------------------------------------------------------------------------------
(* The source map: query_dom0_sources outside the lock, then publication   *)
(* under it.  The main thread does this once at startup and for a packet   *)
(* of an unknown address, the watcher for every event.                     *)

WatchRegister ==
    /\ pc["watcher"] = "register"
    /\ Goto("watcher", "wait")
    /\ UNCHANGED << dom0Vars, events, phase, lock, snap, memoryVars, files, nft,
                    queueVars, packetVars, cliVars >>

ReadWatch ==
    /\ pc["watcher"] = "wait"
    /\ events > 0
    /\ events' = events - 1
    /\ Goto("watcher", "query")
    /\ UNCHANGED << dom0Vars, phase, lock, snap, memoryVars, files, nft,
                    queueVars, packetVars, cliVars >>

QueryDom0(t) ==
    /\ pc[t] = "query"
    /\ snap' = [snap EXCEPT ![t] = vms]
    /\ Goto(t, "publish")
    /\ UNCHANGED << dom0Vars, events, phase, lock, memoryVars, files, nft,
                    queueVars, packetVars, cliVars >>

\* Timeout, qrexec failure or unusable output: fatal in both threads.
QueryFails(t) ==
    /\ pc[t] = "query"
    /\ Exit
    /\ UNCHANGED << files, nft >>

\* cleanup_reused_numbered_dispvm_entries: still there, another address.
BrokenReused(new) == {}
Reused(new) ==
    {n \in Numbered \cap NamesOf(SOURCES) \cap NamesOf(new) :
        IPsOf(SOURCES, n) # IPsOf(new, n)}

\* cleanup_disposable_rule_entries: a bucket whose disposable is not there.
BrokenVanished(new) == {}
Vanished(new) == (Numbered \cap DOMAIN RULES) \ NamesOf(new)

\* remove_pending_for_source, for every source in gone.
BrokenWithoutSources(gone) == pending
WithoutSources(gone) == {q \in pending : q.source \notin gone}

(* ensure_rule_entry: a source without a bucket gets the raw content of    *)
(* its file, or an empty bucket.                                           *)
WithBuckets(rules, dir, sources) ==
    [n \in DOMAIN rules \cup sources |->
        IF n \in DOMAIN rules THEN rules[n] ELSE ListAt(dir, n)]

\* History: a numbered name is published where it was not before.
NextEpoch(new) ==
    [n \in Names |->
        IF n \in Numbered \cap NamesOf(new) /\ IPsOf(SOURCES, n) # IPsOf(new, n)
        THEN epoch[n] + 1 ELSE epoch[n]]

BrokenAfterRefresh(t) == IF t = "main" THEN "query" ELSE "wait"
AfterRefresh(t) == IF t = "main" THEN "recheck" ELSE "wait"

\* Nothing new: return before touching anything (not at startup).
PublishNothing(t) ==
    /\ pc[t] = "publish"
    /\ lock = "free"
    /\ phase = "up"
    /\ snap[t] = SOURCES
    /\ snap' = [snap EXCEPT ![t] = Nowhere]
    /\ Goto(t, AfterRefresh(t))
    /\ UNCHANGED << dom0Vars, events, phase, lock, memoryVars, files, nft,
                    queueVars, packetVars, cliVars >>

Publish(t) ==
    /\ pc[t] = "publish"
    /\ lock = "free"
    /\ phase = "up" => snap[t] # SOURCES
    /\ LET new == snap[t]
           gone == Reused(new) \cup Vanished(new)
       IN  /\ SOURCES' = new
           /\ inherited' = inherited \ gone
           /\ epoch' = NextEpoch(new)
           /\ files' = Drop(files, gone)
           /\ pending' = WithoutSources(gone)
           /\ RULES' = WithBuckets(Drop(RULES, gone), files', NamesOf(new))
    /\ lock' = t
    /\ snap' = [snap EXCEPT ![t] = Nowhere]
    /\ Goto(t, "reload")
    /\ UNCHANGED << vms, changes, events, phase, nft, nextId, packetVars, cliVars >>

-------------------------------------------------------------------------------
(* load_nft, called with POLICY_LOCK held by whoever changed the policy.   *)

\* render_nft indexes rules[source] for every source it renders.
Renderable == NamesOf(SOURCES) \subseteq DOMAIN RULES

Rendered ==
    [mode |-> "policy", chains |-> [ip \in DOMAIN SOURCES |-> RULES[SOURCES[ip]]]]

AfterReload(t) == CASE t = "main" -> "recheck"
                    [] t = "watcher" -> "wait"
                    [] t = "cli" -> "accept"

\* The first load of a process ends its startup: main() starts the watcher.
StartupReload ==
    /\ pc["main"] = "reload"
    /\ phase = "starting"
    /\ Renderable
    /\ nft' = Rendered
    /\ lock' = "free"
    /\ phase' = "up"
    /\ pc' = [pc EXCEPT !["main"] = "recv", !["watcher"] = "register"]
    /\ UNCHANGED << dom0Vars, events, snap, memoryVars, files, queueVars,
                    packetVars, cliVars >>

Reload(t) ==
    /\ pc[t] = "reload"
    /\ phase = "up"
    /\ Renderable
    /\ nft' = Rendered
    /\ lock' = "free"
    /\ Goto(t, AfterReload(t))
    /\ prompt' = IF t = "cli" THEN NoPrompt ELSE prompt
    /\ answer' = IF t = "cli" THEN NoAnswer ELSE answer
    /\ draft' = IF t = "cli" THEN << >> ELSE draft
    /\ nextRules' = IF t = "cli" THEN Nowhere ELSE nextRules
    /\ UNCHANGED << dom0Vars, events, phase, snap, memoryVars, files, queueVars,
                    packetVars >>

\* Rendering or nft -c fails: the live table is not touched.
ReloadRefused(t) ==
    /\ pc[t] = "reload"
    /\ Exit
    /\ UNCHANGED << files, nft >>

\* The checked table does not load: fail-closed is put back first.
ReloadFails(t) ==
    /\ pc[t] = "reload"
    /\ nft' = FailClosed
    /\ Exit
    /\ UNCHANGED files

-------------------------------------------------------------------------------
(* The NFQUEUE callback: handle_packet and what it calls.                  *)

(* A packet of any address, of any kind: it may have waited in the NFQUEUE *)
(* while the table was reloaded or its VM went, and the table queues what  *)
(* no rule of it decides.  What the kernel decides itself is in Gateway.   *)
Receive(src, asks) ==
    /\ phase = "up"
    /\ pc["main"] = "recv"
    /\ nextId <= MaxPrompts
    /\ \A n \in DOMAIN files : Len(files[n]) <= MaxRules
    /\ packet' = [NoPacket EXCEPT !.src = src, !.asks = asks]
    /\ verdict' = "none"
    /\ Goto("main", "known")
    /\ UNCHANGED << dom0Vars, events, phase, lock, snap, memoryVars, files, nft,
                    queueVars, cliVars >>

Verdict(v) ==
    /\ verdict' = v
    /\ packet' = NoPacket
    /\ Goto("main", "recv")

\* add_runtime_request_fields, lines 43-46.
KnownCheck ==
    /\ pc["main"] = "known"
    /\ lock = "free"
    /\ Goto("main", IF packet.src \in DOMAIN SOURCES THEN "bind" ELSE "query")
    /\ UNCHANGED << dom0Vars, events, phase, lock, snap, memoryVars, files, nft,
                    queueVars, packetVars, cliVars >>

\* Lines 47-48, after the forced refresh.
Recheck ==
    /\ pc["main"] = "recheck"
    /\ lock = "free"
    /\ packet.src \in DOMAIN SOURCES
    /\ Goto("main", "attribute")
    /\ UNCHANGED << dom0Vars, events, phase, lock, snap, memoryVars, files, nft,
                    queueVars, packetVars, cliVars >>

\* Lines 54-55: still unknown.
UnknownSource ==
    /\ pc["main"] = "recheck"
    /\ lock = "free"
    /\ packet.src \notin DOMAIN SOURCES
    /\ Exit
    /\ UNCHANGED << files, nft >>

\* Lines 49-53: the map is read again, this time without the lock.
Attribute ==
    /\ pc["main"] = "attribute"
    /\ packet.src \in DOMAIN SOURCES
    /\ Verdict("drop")
    /\ UNCHANGED << dom0Vars, events, phase, lock, snap, memoryVars, files, nft,
                    queueVars, cliVars >>

\* Lines 56-60: the second critical section of a packet of a known address.
Bind ==
    /\ pc["main"] = "bind"
    /\ lock = "free"
    /\ packet.src \in DOMAIN SOURCES
    /\ LET source == SOURCES[packet.src]
       IN  /\ packet' = [packet EXCEPT !.source = source, !.epoch = epoch[source]]
           /\ RULES' = WithBuckets(RULES, files, {source})
    /\ Goto("main", "match")
    /\ UNCHANGED << dom0Vars, events, phase, lock, snap, SOURCES, epoch, files,
                    nft, queueVars, verdict, cliVars >>

\* SOURCES_BY_IP[src] of an address unpublished since the last check: KeyError.
LostSource ==
    /\ \/ pc["main"] = "attribute"
       \/ pc["main"] = "bind" /\ lock = "free"
    /\ packet.src \notin DOMAIN SOURCES
    /\ Exit
    /\ UNCHANGED << files, nft >>

\* A malformed packet asks nothing; a UDP/53 packet without one supported
\* query is refused when its resolver is allowed.
RefuseMalformed ==
    /\ pc["main"] = "match"
    /\ packet.asks = << >> \/ packet.at > 1
    /\ Verdict("drop")
    /\ UNCHANGED << dom0Vars, events, phase, lock, snap, memoryVars, files, nft,
                    queueVars, cliVars >>

\* The DNS question of an allowed resolver is not looked at.
BrokenObey(action) == Verdict(IF action = "allow" THEN "accept" ELSE "drop")

\* The packet goes on with what the policy says of its current question.
Obey(action) ==
    IF action = "reject" THEN Verdict("drop")
    ELSE IF packet.at = Len(packet.asks) THEN Verdict("accept")
    ELSE /\ packet' = [packet EXCEPT !.at = @ + 1]
         /\ Goto("main", "match")
         /\ UNCHANGED verdict

Asked == packet.asks[packet.at]

Match ==
    /\ pc["main"] = "match"
    /\ packet.asks # << >>
    /\ lock = "free"
    /\ LET action == MatchingAction(RULES, packet.source, Asked)
       IN  IF action = "none"
           THEN Goto("main", "ask") /\ UNCHANGED packetVars
           ELSE Obey(action)
    /\ UNCHANGED << dom0Vars, events, phase, lock, snap, memoryVars, files, nft,
                    queueVars, cliVars >>

\* prompt_source_current, and the same test in queue_prompt.
Current(request) ==
    request.src \in DOMAIN SOURCES /\ SOURCES[request.src] = request.source

\* queue_prompt for a source that vanished or moved: no question, reject.
AskVanished ==
    /\ pc["main"] = "ask"
    /\ lock = "free"
    /\ ~ Current(packet)
    /\ Verdict("drop")
    /\ UNCHANGED << dom0Vars, events, phase, lock, snap, memoryVars, files, nft,
                    queueVars, cliVars >>

\* queue_prompt line 21: an answer may have been saved since Match.
BrokenRecheckAction(rules) == "none"
RecheckAction(rules) == MatchingAction(rules, packet.source, Asked)

AskAnswered ==
    /\ pc["main"] = "ask"
    /\ lock = "free"
    /\ Current(packet)
    /\ RULES' = WithBuckets(RULES, files, {packet.source})
    /\ RecheckAction(RULES') # "none"
    /\ Obey(RecheckAction(RULES'))
    /\ UNCHANGED << dom0Vars, events, phase, lock, snap, SOURCES, epoch, files,
                    nft, queueVars, cliVars >>

AlreadyPending(source, target) ==
    \E q \in pending : q.source = source /\ q.target = target

BrokenQueueFull == Cardinality(pending) > QueueSize
QueueFull == Cardinality(pending) >= QueueSize

NewQuestion ==
    [source |-> packet.source, target |-> Asked, src |-> packet.src,
     id |-> nextId, epoch |-> epoch[packet.source]]

Asking ==
    /\ pc["main"] = "ask"
    /\ lock = "free"
    /\ Current(packet)
    /\ RULES' = WithBuckets(RULES, files, {packet.source})
    /\ RecheckAction(RULES') = "none"

Ask ==
    /\ Asking
    /\ IF AlreadyPending(packet.source, Asked) \/ QueueFull
       THEN UNCHANGED queueVars
       ELSE pending' = pending \cup {NewQuestion} /\ nextId' = nextId + 1
    /\ Verdict("drop")
    /\ UNCHANGED << dom0Vars, events, phase, lock, snap, SOURCES, epoch, files,
                    nft, cliVars >>

\* notify-send fails for a new question: fail_daemon in the main thread.
AskNotifyFails ==
    /\ pc["main"] = "ask"
    /\ lock = "free"
    /\ Current(packet)
    /\ ~ AlreadyPending(packet.source, Asked) /\ ~ QueueFull
    /\ RecheckAction(WithBuckets(RULES, files, {packet.source})) = "none"
    /\ Exit
    /\ UNCHANGED << files, nft >>

-------------------------------------------------------------------------------
(* The cli thread: handle_cli_connection of daemon_runtime and of queue.   *)

SamePrompt(q) ==
    q.source = prompt.source /\ q.target = prompt.target /\ q.id = prompt.id

\* next_pending_request: the oldest question, which stays in the queue.
TakePrompt ==
    /\ pc["cli"] = "accept"
    /\ \E q \in pending :
         /\ \A other \in pending : q.id <= other.id
         /\ prompt' = q
    /\ Goto("cli", "check")
    /\ UNCHANGED << dom0Vars, events, phase, lock, snap, memoryVars, files, nft,
                    queueVars, packetVars, answer, draft, nextRules >>

BackToAccept ==
    /\ Goto("cli", "accept")
    /\ prompt' = NoPrompt
    /\ answer' = NoAnswer
    /\ draft' = << >>
    /\ nextRules' = Nowhere

\* discard_pending_decision
BrokenDiscarded == pending
Discarded == {q \in pending : ~ SamePrompt(q)}

DiscardPrompt ==
    /\ pending' = Discarded
    /\ BackToAccept

\* enrich_request before the name lookup, which runs without the lock.
CheckPrompt ==
    /\ pc["cli"] = "check"
    /\ lock = "free"
    /\ IF Current(prompt)
       THEN /\ Goto("cli", "enriched")
            /\ UNCHANGED << pending, cliVars >>
       ELSE DiscardPrompt
    /\ UNCHANGED << dom0Vars, events, phase, lock, snap, memoryVars, files, nft,
                    nextId, packetVars >>

\* enrich_request after the lookup; a PTR answer may refuse the prompt.
ShowPrompt ==
    /\ pc["cli"] = "enriched"
    /\ lock = "free"
    /\ \/ /\ Current(prompt)
          /\ Goto("cli", "shown")
          /\ UNCHANGED << pending, cliVars >>
       \/ DiscardPrompt
    /\ UNCHANGED << dom0Vars, events, phase, lock, snap, memoryVars, files, nft,
                    nextId, packetVars >>

\* The connection breaks or the answer is none of the four words.
KeepPrompt ==
    /\ pc["cli"] = "shown"
    /\ BackToAccept
    /\ UNCHANGED << dom0Vars, events, phase, lock, snap, memoryVars, files, nft,
                    queueVars, packetVars >>

BrokenDecisions(target) ==
    [covers : {{target}}, host : {NoHost}, action : Actions, epoch : {prompt.epoch}]
    \cup [covers : {c \in HostSets : target \in c /\ Cardinality(c) > 1}, host : Hosts,
          action : {"allow-dns", "reject-dns"}, epoch : {prompt.epoch}]
(* allow/reject cover the target shown; allow-dns/reject-dns cover the     *)
(* several targets the host resolves to now, the one shown among them      *)
(* (prepare_hostname_decision, before the lock).                           *)
Decisions(target) ==
    [covers : {{target}}, host : {NoHost}, action : Actions, epoch : {prompt.epoch}]
    \cup [covers : {c \in HostSets : target \in c /\ Cardinality(c) > 1},
          host : Hosts, action : Actions, epoch : {prompt.epoch}]

Decide ==
    /\ pc["cli"] = "shown"
    /\ answer' \in Decisions(prompt.target)
    /\ Goto("cli", "save")
    /\ UNCHANGED << dom0Vars, events, phase, lock, snap, memoryVars, files, nft,
                    queueVars, packetVars, prompt, draft, nextRules >>

\* A host name decision that is refused ends the daemon.
DecideFails ==
    /\ pc["cli"] = "shown"
    /\ Exit
    /\ UNCHANGED << files, nft >>

\* The prompt shown is still the one that is pending.
BrokenClaimable == \E q \in pending : q.source = prompt.source /\ q.target = prompt.target
Claimable == \E q \in pending : SamePrompt(q)

\* remove_pending_hostname_set
BrokenAnsweredToo(q) == FALSE
BrokenAnsweredSource(q) == q.source = prompt.source
AnsweredToo(q) == q.source = prompt.source /\ q.target \in answer.covers

IgnoreAnswer ==
    /\ pc["cli"] = "save"
    /\ lock = "free"
    /\ ~ Claimable
    /\ BackToAccept
    /\ UNCHANGED << dom0Vars, events, phase, lock, snap, memoryVars, files, nft,
                    queueVars, packetVars >>

(* append_rule's new file content: the rules of the file as it is on disk, *)
(* then the new one.                                                       *)
BrokenNewData == << Yaml(answer) >>
BrokenDataOrder == << Yaml(answer) >> \o ListAt(files, prompt.source)
NewData == Append(ListAt(files, prompt.source), Yaml(answer))

\* And its next_rules: a bucket that is missing is created.
WithAnswer(rules) ==
    Put(rules, prompt.source, Append(ListAt(rules, prompt.source), answer))

\* save_pending_decision up to the write of append_rule's temporary file.
ClaimAnswer ==
    /\ pc["cli"] = "save"
    /\ lock = "free"
    /\ Claimable
    /\ pending' = {q \in pending : ~ (q.source = prompt.source /\ q.target = prompt.target)
                                   /\ ~ AnsweredToo(q)}
    /\ lock' = "cli"
    /\ IF Current(prompt)
       THEN /\ draft' = NewData
            /\ nextRules' = WithAnswer(RULES)
            /\ Goto("cli", "replace")
       ELSE /\ Goto("cli", "reload")
            /\ UNCHANGED << draft, nextRules >>
    /\ UNCHANGED << dom0Vars, events, phase, snap, memoryVars, files, nft, nextId,
                    packetVars, prompt, answer >>

\* The rule does not validate or the file cannot be written.
SaveFails ==
    /\ pc["cli"] = "replace"
    /\ Exit
    /\ UNCHANGED << files, nft >>

\* os.replace
ReplaceFile ==
    /\ pc["cli"] = "replace"
    /\ files' = Put(files, prompt.source, draft)
    /\ Goto("cli", "remember")
    /\ UNCHANGED << dom0Vars, events, phase, lock, snap, memoryVars, nft,
                    queueVars, packetVars, cliVars >>

\* A save that never reaches nft.
BrokenRememberRule ==
    /\ pc["cli"] = "remember"
    /\ RULES' = nextRules
    /\ lock' = "free"
    /\ BackToAccept
    /\ UNCHANGED << dom0Vars, events, phase, snap, SOURCES, epoch, files,
                    nft, queueVars, packetVars >>

\* ctx.RULES = next_rules: what stop() popped since the copy is back in memory.
RememberRule ==
    /\ pc["cli"] = "remember"
    /\ RULES' = nextRules
    /\ Goto("cli", "reload")
    /\ UNCHANGED << dom0Vars, events, phase, lock, snap, SOURCES, epoch, files,
                    nft, queueVars, packetVars, cliVars >>

-------------------------------------------------------------------------------
Dom0 ==
    \/ \E ip \in IPs, name \in Names : VmAppears(ip, name)
    \/ \E ip \in IPs : VmGone(ip)

Service == Start \/ StopPost \/ Sigterm \/ Stopped \/ Crash

Refresh(t) ==
    QueryDom0(t) \/ QueryFails(t) \/ PublishNothing(t) \/ Publish(t)

LoadNft(t) == Reload(t) \/ ReloadRefused(t) \/ ReloadFails(t)

Packet ==
    \/ \E src \in IPs, asks \in Packets : Receive(src, asks)
    \/ KnownCheck \/ Recheck \/ UnknownSource \/ Attribute \/ Bind \/ LostSource
    \/ RefuseMalformed \/ Match \/ AskVanished \/ AskAnswered \/ Ask
    \/ AskNotifyFails

Main == LoadPolicy \/ LoadPolicyFails \/ Refresh("main") \/ StartupReload
        \/ LoadNft("main") \/ Packet

Watcher == WatchRegister \/ ReadWatch \/ Refresh("watcher") \/ LoadNft("watcher")

Cli == TakePrompt \/ CheckPrompt \/ ShowPrompt \/ KeepPrompt \/ Decide
       \/ DecideFails \/ IgnoreAnswer \/ ClaimAnswer \/ SaveFails \/ ReplaceFile
       \/ RememberRule \/ LoadNft("cli")

Next == Dom0 \/ Service \/ Main \/ Watcher \/ Cli

Spec == Init /\ [][Next]_vars

(* What the threads may be relied on to do.  A thread that could go on     *)
(* again and again goes on: POLICY_LOCK is only held while nft is loaded   *)
(* or a file replaced, so nobody waits behind an endless holder.  The user *)
(* answers eventually when the prompt is shown again and again.  Nothing   *)
(* is assumed of dom0, of systemd, of failures or of arriving packets.     *)
MainStep == LoadPolicy \/ QueryDom0("main") \/ PublishNothing("main")
            \/ Publish("main") \/ StartupReload \/ Reload("main") \/ Stopped
            \/ KnownCheck \/ Recheck \/ UnknownSource \/ Attribute \/ Bind
            \/ LostSource \/ RefuseMalformed \/ Match \/ AskVanished
            \/ AskAnswered \/ Ask

WatcherStep == WatchRegister \/ ReadWatch \/ QueryDom0("watcher")
               \/ PublishNothing("watcher") \/ Publish("watcher")
               \/ Reload("watcher")

CliStep == TakePrompt \/ CheckPrompt \/ ShowPrompt \/ IgnoreAnswer
           \/ ClaimAnswer \/ ReplaceFile \/ RememberRule \/ Reload("cli")

Fairness == /\ SF_vars(MainStep) /\ SF_vars(WatcherStep)
            /\ SF_vars(CliStep) /\ SF_vars(Decide)

FairSpec == Spec /\ Fairness

-------------------------------------------------------------------------------
(* Properties *)

MainLabels == {"off", "load", "query", "publish", "reload", "recv", "known",
               "recheck", "attribute", "bind", "match", "ask", "stopping"}
WatcherLabels == {"off", "register", "wait", "query", "publish", "reload"}
CliLabels == {"off", "accept", "check", "enriched", "shown", "save", "replace",
              "remember", "reload"}

\* Every variable keeps the shape its Python counterpart has.
TypeOK ==
    /\ vms \in Maps
    /\ changes \in Nat /\ events \in Nat
    /\ phase \in {"down", "starting", "up", "dead"}
    /\ DOMAIN pc = Threads
    /\ pc["main"] \in MainLabels
    /\ pc["cli"] \in CliLabels
    /\ pc["watcher"] \in WatcherLabels
    /\ lock \in Threads \cup {"free"}
    /\ snap \in [{"main", "watcher"} -> Maps]
    /\ SOURCES \in Maps
    /\ epoch \in [Names -> Nat]
    /\ IsRuleDict(RULES)
    /\ IsRuleDict(files)
    /\ inherited \subseteq Numbered
    /\ nft.mode \in {"policy", "failclosed"}
    /\ DOMAIN nft.chains \subseteq IPs
    /\ nft.chains \in [DOMAIN nft.chains -> Seq(Rule)]
    /\ pending \subseteq Question
    /\ nextId \in Nat
    /\ packet \in [src : IPs \cup {None}, asks : Packets \cup {<< >>}, at : Nat,
                   source : Names \cup {None}, epoch : Nat]
    /\ verdict \in {"none", "accept", "drop"}
    /\ prompt \in Question \cup {NoPrompt}
    /\ answer \in Rule \cup {NoAnswer}
    /\ draft \in Seq(Rule)
    /\ IsRuleDict(nextRules)

Serving == phase = "up" /\ pc["main"] # "stopping"

(* A question waits only as long as it has no answer: neither an answer    *)
(* saved while the packet was on its way to the queue nor a host name      *)
(* decision for a sibling may leave it behind.                             *)
NoAnsweredQuestionPending ==
    Serving => \A q \in pending : MatchingAction(RULES, q.source, q.target) = "none"

(* Whatever a numbered DispVM's bucket or prompt says was asked during the *)
(* current publication of that name, never for an earlier disposable.      *)
NumberedPolicyIsCurrent ==
    Serving => \A n \in Numbered :
        /\ n \in DOMAIN RULES => \A i \in DOMAIN RULES[n] : RULES[n][i].epoch = epoch[n]
        /\ \A q \in pending : q.source = n => q.epoch = epoch[n] /\ Current(q)

(* A numbered name that dom0's map no longer has leaves nothing behind, in *)
(* memory, in the queue or on disk (the stop handler aside).               *)
VanishedLeavesNothing ==
    Serving => \A n \in Numbered \ NamesOf(SOURCES) :
        /\ n \notin DOMAIN RULES /\ n \notin DOMAIN files
        /\ \A q \in pending : q.source # n

(* Whenever nobody is in the middle of a change, the kernel enforces the   *)
(* rules and the sources the process holds.                                *)
KernelRunsThePolicy ==
    Serving /\ lock = "free" => Renderable /\ nft = Rendered

(* The file of a durable source is never behind its bucket, at no point of *)
(* a save: a crash cannot lose a rule that was in force.                   *)
DiskCoversMemory ==
    \A n \in DOMAIN RULES \ Numbered :
        /\ Len(RULES[n]) <= Len(ListAt(files, n))
        /\ \A i \in DOMAIN RULES[n] : Yaml(RULES[n][i]) = files[n][i]

(* A decision for a durable source stands: no later save, refresh, crash   *)
(* or restart changes what the first matching rule on disk says.           *)
DurableDecisionsStand ==
    [][\A n \in Names \ Numbered, t \in Targets :
          MatchingAction(files, n, t) # "none" =>
              MatchingAction(files', n, t) = MatchingAction(files, n, t)]_vars

Allowing(rules, target) ==
    Matches(rules, target) /\ rules[FirstMatch(rules, target)].action = "allow"

(* The callback accepts a packet only if every question it asks is allowed *)
(* at that moment, and for a numbered DispVM only by answers given during  *)
(* the publication its address was looked up in.                           *)
AcceptedByOwnAnswers ==
    [][verdict # "accept" /\ verdict' = "accept" =>
          \A i \in DOMAIN packet.asks :
              LET rules == ListAt(RULES, packet.source)
                  t == packet.asks[i]
              IN  /\ Allowing(rules, t)
                  /\ packet.source \in Numbered =>
                        rules[FirstMatch(rules, t)].epoch = packet.epoch]_vars

\* However the threads interleave, the queue never outgrows its bound.
QueueIsBounded == Cardinality(pending) <= QueueSize

(* Until the stop, a question of a source that is still there leaves the   *)
(* queue only with a decision that covers it or with the PTR check of that *)
(* very prompt: a full queue evicts nothing and an answer takes no other   *)
(* question along.                                                         *)
NoQuestionIsLost ==
    [][Serving => \A q \in pending \ pending' :
          \/ phase' = "dead"
          \/ ~ Current(q)'
          \/ pc["cli"] = "enriched" /\ SamePrompt(q)
          \/ pc["cli"] = "save" /\ q.source = prompt.source /\ q.target \in answer.covers]_vars

(* Every question is settled if the user keeps answering, whatever stands  *)
(* before it in the queue.                                                 *)
EveryQuestionIsSettled ==
    \A i \in 1 .. MaxPrompts :
        (\E q \in pending : q.id = i) ~> (~ \E q \in pending : q.id = i)

\* The kernel is never left waiting for the verdict on a queued packet.
EveryPacketGetsItsVerdict ==
    (packet.src # None) ~> (packet.src = None)

(* An address the callback has found known is still known when the packet  *)
(* is attributed to it.                                                    *)
KnownStaysKnown ==
    Serving /\ (pc["main"] = "attribute" \/ (pc["main"] = "bind" /\ lock = "free"))
        => packet.src \in DOMAIN SOURCES


(* Once dom0 stops changing its VMs, a numbered name that is gone is gone  *)
(* from the daemon's map too.                                              *)
DisappearedIsForgotten ==
    <>[]Serving => <>[](Numbered \cap NamesOf(SOURCES) \subseteq NamesOf(vms))

(* When the watcher has dealt with every event and nobody changes anything, *)
(* no numbered name rules by answers given for an earlier VM of that name. *)
ReuseIsNoticed ==
    Serving /\ pc["watcher"] = "wait" /\ events = 0 /\ pc["main"] = "recv"
            /\ lock = "free"
        => inherited = {}
===============================================================================
