------------------------------- MODULE Gateway -------------------------------
(***************************************************************************)
(* The gateway as a whole: the systemd units, the daemon, the nft table it *)
(* renders and the kernel's connection tracking, from the boot of the VM   *)
(* through starts, stops and failures.                                     *)
(*                                                                         *)
(* A packet is one step: the kernel's verdict and, for a queued packet,    *)
(* the callback's.  So is a change of the policy with its reload; how      *)
(* these interleave inside the daemon is SnitchDaemon's matter.  When the  *)
(* process ends, sources and rules keep what the kernel had: it enforces   *)
(* that until the fail-closed table is loaded.                             *)
(***************************************************************************)
EXTENDS NftChains, SourceInventory, Dicts

CONSTANTS
    Names,      \* policy names
    Packets,    \* the packets that are sent: flow, header and message
    RuleFiles,  \* rule lists a user writes into the file of a name
    Inventories,\* what dom0 can report
    Answered,   \* bound: packets whose questions the user answers
    MaxRules,   \* bound: rules per source
    MaxFlows,   \* bound: tracked connections
    MaxStarts,  \* bound: starts of the daemon
    MaxChanges  \* bound: source maps published by one process

IsPacket(p) ==
    /\ HasHeader(p)
    /\ p.proto \notin {"tcp", "udp"} => p.sport = 0 /\ p.dport = 0
    /\ {p.version, p.ihl, p.len, p.total, p.doff, p.ulen} \subseteq Nat

WellFormed == {p \in Packets : ParsePacket(p) = "ok"}

ASSUME PacketsAssumption == (\A p \in Packets : IsPacket(p)) /\ Answered \subseteq WellFormed

ASSUME FilesAssumption ==
    \A n \in DOMAIN RuleFiles : n \in Names /\ RuleFiles[n] \subseteq Seq(PolicyRule)

\* dom0 reports a VM once.
ASSUME InventoriesAssumption ==
    /\ IsFiniteSet(IPs)
    /\ \A inventory \in Inventories :
          /\ \A row \in inventory :
                /\ row.ip \in IPs \cup {NoIP}
                /\ row.class = "DispVM" => row.template \in DOMAIN DispvmOf \cup DefaultDvms
          /\ \A a, b \in inventory : a.name = b.name => a = b
          /\ ~ ParseRefuses(inventory) => \A row \in Counted(inventory) : PolicyName(row) \in Names

VARIABLES
    phase,     \* "off" (fail-closed restored), "failed" (it could not be),
               \* "pre", "flushed", "up", "dead" (until ExecStopPost)
    table,     \* the nft table
    flows,     \* conntrack: flow -> [owner, replied, past]; past is history:
               \* it was opened past a reject whose limit was used up
    yaml,      \* the rule files
    rules,     \* RULES
    sources,   \* SOURCES_BY_IP
    rows,      \* history: the rows it was parsed from
    starts, changes

vars == << phase, table, flows, yaml, rules, sources, rows, starts, changes >>
memory == << rules, sources, rows >>

Init ==
    /\ phase = "off" /\ table = FailClosedNft     \* qubes-snitch-fail-closed.service
    /\ flows = << >>
    /\ yaml \in [Names -> {<< >>}]
    /\ rules = << >> /\ sources = << >> /\ rows = {}
    /\ starts = 0 /\ changes = 0

FlowOf(p) == [src |-> p.src, dst |-> p.dst, proto |-> p.proto, sport |-> p.sport, dport |-> p.dport]
Back(f) == [f EXCEPT !.src = f.dst, !.dst = f.src, !.sport = f.dport, !.dport = f.sport]
Sent == {FlowOf(p) : p \in WellFormed}

-------------------------------------------------------------------------------
(* qubes-snitchd.service *)

\* ExecStartPre: the fail-closed table, then the flush.
Start ==
    /\ phase \in {"off", "failed"}
    /\ starts < MaxStarts
    /\ starts' = starts + 1 /\ changes' = 0
    /\ phase' = "pre" /\ table' = FailClosedNft
    /\ rules' = << >> /\ sources' = << >> /\ rows' = {}
    /\ UNCHANGED << flows, yaml >>

BrokenFlushed == flows
Flushed == << >>

Flush ==
    /\ phase = "pre"
    /\ phase' = "flushed"
    /\ flows' = Flushed
    /\ UNCHANGED << table, yaml, memory, starts, changes >>

\* cleanup_numbered_dispvm_files, at a start and in the stop handler.
CleanedOf(files) == [n \in Names |-> IF n \in Numbered THEN << >> ELSE files[n]]
Cleaned == CleanedOf(yaml)

(* What a failed load_nft leaves: the check refuses the table, or the      *)
(* process ends before it; or the live load fails, and the fail-closed     *)
(* table is loaded instead, which may fail as well.                        *)
BrokenLoadFailed == {table, [forward |-> << << Anything >> >>, chains |-> << >>]}
LoadFailed == {table, QueueAllNft}

\* Either ExecStartPre fails, or the daemon before its first reload or in it.
StartFails ==
    /\ phase' = "dead"
    /\ \/ phase = "pre" /\ UNCHANGED << table, yaml >>
       \/ phase = "flushed" /\ table' \in LoadFailed /\ yaml' = Cleaned
    /\ UNCHANGED << flows, memory, starts, changes >>

\* SIGTERM ends the process with a cleanup; a fatal alert or a crash ends
\* it without.
Die ==
    /\ phase = "up"
    /\ phase' = "dead"
    /\ yaml' \in {yaml, Cleaned}
    /\ UNCHANGED << table, flows, memory, starts, changes >>

\* ExecStopPost: stop-post.sh, whose nft may fail.
StopPost ==
    /\ phase = "dead"
    /\ \/ phase' = "off" /\ table' = FailClosedNft
       \/ phase' = "failed" /\ UNCHANGED table
    /\ UNCHANGED << flows, yaml, memory, starts, changes >>

-------------------------------------------------------------------------------
(* The daemon's policy *)

Rows(inventory) == {row \in inventory : row.ip # NoIP}
NamesIn(map) == {map[ip] : ip \in DOMAIN map}
AddrsOf(map, n) == {ip \in DOMAIN map : map[ip] = n}

\* Rule buckets of all sources, from the files where memory has none.
Buckets(known, files, map) ==
    [n \in DOMAIN known \cup NamesIn(map) |-> IF n \in DOMAIN known THEN known[n] ELSE files[n]]

Publish(inventory, known, files) ==
    /\ sources' = ParseSources(inventory)
    /\ rows' = Rows(inventory)
    /\ yaml' = files
    /\ rules' = Buckets(known, files, sources')
    /\ table' = RenderNft(sources', rules')

\* Reports that are refused leave the daemon dead.
Accepted == {inventory \in Inventories : ~ ParseRefuses(inventory)}

\* load_policy_without_sources and refresh_sources_required
Load(inventory) ==
    /\ phase = "flushed"
    /\ phase' = "up"
    /\ Publish(inventory, [n \in {m \in Names : Cleaned[m] # << >>} |-> Cleaned[n]], Cleaned)
    /\ UNCHANGED << flows, starts, changes >>

(* refresh_sources_and_nft: the numbered names whose VM is gone or reused, *)
(* and the files without theirs.                                           *)
Gone(map) ==
    {n \in Numbered \cap Names : \/ AddrsOf(map, n) # AddrsOf(sources, n)
                                 \/ n \notin NamesIn(map)}
FilesWithout(names) == [n \in Names |-> IF n \in names THEN << >> ELSE yaml[n]]

Refresh(inventory) ==
    /\ phase = "up"
    /\ changes < MaxChanges
    /\ ParseSources(inventory) # sources
    /\ changes' = changes + 1
    /\ LET gone == Gone(ParseSources(inventory))
       IN  Publish(inventory, Drop(rules, gone), FilesWithout(gone))
    /\ UNCHANGED << phase, flows, starts >>

\* append_rule: the answer to the question a queued packet raised.
Asks(p) ==
    /\ p.src \in DOMAIN sources
    /\ LET n == sources[p.src] IN
       /\ PolicyAction(rules[n], p) = "none"
       /\ Len(rules[n]) < MaxRules /\ Len(yaml[n]) < MaxRules

WithAnswer(files, p, action) == [files EXCEPT ![sources[p.src]] = Append(@, ExactRule(p, action))]

Answer(p, action) ==
    /\ phase = "up"
    /\ Asks(p)
    /\ rules' = WithAnswer(rules, p, action)
    /\ yaml' = WithAnswer(yaml, p, action)
    /\ table' = RenderNft(sources, rules')
    /\ UNCHANGED << phase, flows, sources, rows, starts, changes >>

(* The files a refresh or an answer leaves when the process ends between   *)
(* them and the kernel's table.                                            *)
HalfDone ==
    {FilesWithout(Gone(ParseSources(inventory))) : inventory \in Accepted}
        \cup {WithAnswer(yaml, p, action) : p \in {q \in Answered : Asks(q)},
                                           action \in {"allow", "reject"}}

\* SIGTERM may still clean up the files.
ReloadFails ==
    /\ phase = "up"
    /\ phase' = "dead"
    /\ table' \in LoadFailed
    /\ yaml' \in HalfDone \cup {CleanedOf(files) : files \in HalfDone}
    /\ UNCHANGED << flows, memory, starts, changes >>

\* The user's editor: read at the next start.
EditFile(n) ==
    /\ phase \in {"off", "failed"}
    /\ starts < MaxStarts
    /\ yaml' \in {[yaml EXCEPT ![n] = file] : file \in RuleFiles[n]}
    /\ UNCHANGED << phase, table, flows, memory, starts, changes >>

-------------------------------------------------------------------------------
(* Packets *)

\* What conntrack (external) can say of a packet; it may find any invalid.
Conntrack(f) ==
    { << "invalid", "original" >>,
      IF f \in DOMAIN flows
      THEN << IF flows[f].replied THEN "established" ELSE "new", "original" >>
      ELSE IF Back(f) \in DOMAIN flows THEN << "established", "reply" >>
      ELSE << "new", "original" >> }

(* handle_packet: the flow is allowed and, for UDP/53, the message is one  *)
(* the domain policy is asked about.                                       *)
MayAccept(p) ==
    /\ phase = "up"
    /\ p \in WellFormed
    /\ p.src \in DOMAIN sources
    /\ PolicyAction(rules[sources[p.src]], p) = "allow"
    /\ IsDns(p) => DnsError(p) = "none"

Passes(p, ct, over) ==
    \/ KernelVerdict(table, p, ct, over) = "accept"
    \/ KernelVerdict(table, p, ct, over) = "queue" /\ MayAccept(p)

\* A packet that passes opens a flow or confirms one.
Open(p, over) ==
    LET f == FlowOf(p) IN
    /\ f \notin DOMAIN flows /\ Back(f) \notin DOMAIN flows
    /\ Cardinality(DOMAIN flows) < MaxFlows
    /\ Passes(p, << "new", "original" >>, over)
    /\ flows' = Put(flows, f,
          [owner |-> IF p.src \in DOMAIN sources THEN sources[p.src] ELSE "unknown",
           replied |-> FALSE,
           past |-> KernelVerdict(table, p, << "new", "original" >>, FALSE) = "reject"])
    /\ UNCHANGED << phase, table, yaml, memory, starts, changes >>

Reply(p, over) ==
    LET f == Back(FlowOf(p)) IN
    /\ f \in DOMAIN flows
    /\ ~ flows[f].replied
    /\ Passes(p, << "established", "reply" >>, over)
    /\ flows' = [flows EXCEPT ![f].replied = TRUE]
    /\ UNCHANGED << phase, table, yaml, memory, starts, changes >>

Expire(f) ==
    /\ flows' = Drop(flows, {f})
    /\ UNCHANGED << phase, table, yaml, memory, starts, changes >>

Next ==
    \/ Start \/ Flush \/ StartFails \/ Die \/ ReloadFails \/ StopPost
    \/ \E inventory \in Accepted : Load(inventory) \/ Refresh(inventory)
    \/ \E p \in Packets, over \in BOOLEAN : Open(p, over) \/ Reply(p, over)
    \/ \E p \in Answered, action \in {"allow", "reject"} : Answer(p, action)
    \/ \E n \in DOMAIN RuleFiles : EditFile(n)
    \/ \E f \in DOMAIN flows : Expire(f)

Spec == Init /\ [][Next]_vars

-------------------------------------------------------------------------------
(* Properties *)

\* The state has its shape, and memory knows a bucket for every source.
TypeOK ==
    /\ phase \in {"off", "failed", "pre", "flushed", "up", "dead"}
    /\ \A f \in DOMAIN flows : flows[f].owner \in Names \cup {"unknown"}
                               /\ flows[f].replied \in BOOLEAN /\ flows[f].past \in BOOLEAN
    /\ DOMAIN yaml = Names
    /\ NamesIn(sources) \subseteq DOMAIN rules /\ DOMAIN rules \subseteq Names
    /\ \A n \in DOMAIN rules : \A i \in DOMAIN rules[n] : rules[n][i] \in PolicyRule

Serving == phase = "up"

(* In every state, with or without the daemon, the kernel decides a packet *)
(* of a source by itself only as the source's first match would, and the   *)
(* daemon's table sends to Python only what needs a question or is DNS.    *)
(* Beyond the limits of the rejects it accepts what some rule allows.      *)
KernelAgreesWithPolicy ==
    \A p \in Sent : p.src \in DOMAIN sources =>
        \A ct \in Conntrack(p) : ct[2] = "original" =>
            LET Verdict(over) == KernelVerdict(table, p, ct, over)
                list == rules[sources[p.src]]
                action == PolicyAction(list, p)
            IN  /\ Verdict(TRUE) = "accept" => SomeAllow(list, p)
                /\ Verdict(FALSE) = "accept" => action = "allow"
                /\ Serving /\ ct[1] # "invalid" =>
                      /\ Verdict(FALSE) = "reject" => action = "reject"
                      /\ Verdict(FALSE) = "queue" => action = "none" \/ IsDns(p)

(* Rules are checked from top to bottom, so a specific reject above a      *)
(* broad allow is final (README.md:194).                                   *)
RejectsAreFinal ==
    \A p \in Sent : p.src \in DOMAIN sources =>
        \A over \in BOOLEAN :
            KernelVerdict(table, p, << "new", "original" >>, over) = "accept" =>
                PolicyAction(rules[sources[p.src]], p) = "allow"

(* A UDP/53 packet in its original direction never leaves on the kernel's  *)
(* word alone, whatever range a rule has, however long its connection is   *)
(* established and whatever table a failed load leaves (README: "prevents  *)
(* a reused UDP resolver socket from bypassing qname/qtype policy").       *)
DnsIsAlwaysAsked ==
    \A p \in Sent : IsDns(p) =>
        \A ct \in Conntrack(p), over \in BOOLEAN :
            ct[2] = "original" => KernelVerdict(table, p, ct, over) # "accept"

(* An address dom0 does not report passes nothing of its own, not even on  *)
(* a connection it had while it was a source: Python gets to see it.       *)
UnknownSourceIsSeen ==
    Serving => \A p \in Sent : p.src \notin DOMAIN sources =>
        \A ct \in Conntrack(p), over \in BOOLEAN :
            ct[2] = "original" => KernelVerdict(table, p, ct, over) = "queue"

(* A reply has the fate its flow would have now: allowed flows get their   *)
(* answers without a question, also between two sources, and up to its     *)
(* limit an earlier reject is not overridden by a broader allow.           *)
RepliesFollowTheirFlow ==
    Serving => \A f \in DOMAIN flows : f.src \in DOMAIN sources =>
        LET action == PolicyAction(rules[sources[f.src]], f)
            Verdict(over) == KernelVerdict(table, Back(f), << "established", "reply" >>, over)
        IN  /\ action = "allow" => \A over \in BOOLEAN : Verdict(over) = "accept"
            /\ action = "reject" => Verdict(FALSE) = "reject"

(* No connection that a durable source still holds contradicts the policy  *)
(* in force: what a user changed in a file counts for connections that     *)
(* were open before (the unit's comment on conntrack -F).  One that was    *)
(* opened past a reject whose limit was used up is allowed by a later rule.*)
FlowsObeyThePolicy ==
    Serving => \A f \in DOMAIN flows :
        f.src \in DOMAIN sources /\ sources[f.src] = flows[f].owner /\ flows[f].owner \notin Numbered
            => LET list == rules[sources[f.src]]
               IN  /\ SomeAllow(list, f)
                   /\ ~ flows[f].past => PolicyAction(list, f) = "allow"

(* Two VMs share one policy only as disposables of one base, and a         *)
(* numbered name, whose file is deleted, is never a durable VM.            *)
PolicyHasOneOwner ==
    \A a, b \in Counted(rows) :
        /\ sources[a.ip] = sources[b.ip] /\ a # b =>
              a.class = "DispVM" /\ b.class = "DispVM" /\ a.template = b.template
        /\ sources[a.ip] \in Numbered => OnDefault(a)

\* Packets whose headers make the parser read too much, or too little.
Misread ==
    {p \in Packets : \/ ReadsUpTo(p) > p.len
                     \/ p \in WellFormed /\ p.proto = "udp" /\ ReadsUpTo(p) < p.len}

(* The parser never reads past the end of a queued packet, and the cut-out *)
(* UDP body is the whole rest of it: an index error would end the daemon.  *)
ParserStaysInPacket ==
    \A p \in Misread, over \in BOOLEAN :
        KernelVerdict(table, p, << "new", "original" >>, over) # "queue"

Unanswerable == {p \in WellFormed : IsDns(p) /\ Refused(DnsError(p)) /\ ~ Answerable(p)}

(* A message that is answered with REFUSED can be parsed again and has its *)
(* question in the request.                                                *)
RefusedIsAnswerable ==
    \A p \in Unanswerable, over \in BOOLEAN :
        KernelVerdict(table, p, << "new", "original" >>, over) # "queue"
=============================================================================
