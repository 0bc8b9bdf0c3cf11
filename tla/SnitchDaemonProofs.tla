-------------------------- MODULE SnitchDaemonProofs --------------------------
(***************************************************************************)
(* What SnitchDaemon guarantees for every number of VMs, targets, prompts  *)
(* and restarts.                                                           *)
(***************************************************************************)
EXTENDS SnitchDaemonTypeProofs

-------------------------------------------------------------------------------
(* The inductive invariant *)

Stopping == pc["main"] = "stopping"

\* The process has published nothing yet, or is not there.
Unloaded == pc["main"] \in {"off", "load"}

\* Who holds POLICY_LOCK can be read off the program counters.
LockInv ==
    /\ lock = "cli" <=> pc["cli"] \in {"replace", "remember", "reload"}
    /\ lock = "watcher" <=> pc["watcher"] = "reload"
    /\ pc["main"] = "reload" => lock = "main"
    /\ lock = "main" => Stopping \/ pc["main"] = "reload"

\* No memory without a process, and no traffic before the first load.
PhaseInv ==
    /\ phase \in {"down", "dead"} <=> pc["main"] = "off"
    /\ pc["main"] = "off" => pc["cli"] = "off" /\ pc["watcher"] = "off"
    /\ pc["main"] = "load" => pc["cli"] = "off" /\ phase = "starting"
    /\ phase = "starting" =>
         /\ pc["watcher"] = "off"
         /\ pc["main"] \in {"load", "query", "publish", "reload", "stopping"}
    /\ Unloaded => /\ RULES = Nowhere /\ SOURCES = Nowhere /\ pending = {}
                   /\ nextId = 1

\* A prompt id is never used twice, so an id in the queue names one question.
PromptInv ==
    /\ \A q \in pending : q.id < nextId
    /\ \A q, other \in pending : q.id = other.id => q = other
    /\ pc["cli"] \notin {"off", "accept"} =>
         /\ prompt.id < nextId
         /\ \A q \in pending : SamePrompt(q) => q = prompt
    /\ pc["cli"] \in {"save", "replace", "remember"} => answer.epoch = prompt.epoch

(* append_rule's copy is the memory it will replace with the answer added: *)
(* nobody else gets at RULES meanwhile but the stop handler, and that one  *)
(* takes away nothing durable.                                             *)
CopyInv ==
    pc["cli"] \in {"replace", "remember"} =>
        /\ ~ Stopping => nextRules = WithAnswer(RULES)
        /\ \A n \in Names \ Numbered :
              /\ n \in DOMAIN nextRules <=> n \in DOMAIN WithAnswer(RULES)
              /\ n \in DOMAIN nextRules => nextRules[n] = WithAnswer(RULES)[n]

\* What exists for a name exists only together with its bucket.
BucketInv ==
    ~ Stopping =>
        /\ NamesOf(SOURCES) \subseteq DOMAIN RULES
        /\ Numbered \cap DOMAIN RULES \subseteq NamesOf(SOURCES)
        /\ ~ Unloaded => DOMAIN files \subseteq DOMAIN RULES
        /\ \A q \in pending : q.source \in DOMAIN RULES

\* Whatever a numbered name has was asked during its current publication.
EpochInv ==
    ~ Stopping =>
        /\ \A n \in Numbered \cap DOMAIN RULES : \A i \in DOMAIN RULES[n] :
             RULES[n][i].epoch = epoch[n]
        /\ \A q \in pending : q.source \in Numbered =>
             q.epoch = epoch[q.source] /\ Current(q)
        /\ pc["cli"] \in {"replace", "remember"} =>
             /\ Current(prompt)
             /\ prompt.source \in Numbered => answer.epoch = epoch[prompt.source]

\* No rule in memory or on its way there covers a question that waits.
UnansweredInv ==
    ~ Stopping =>
        \A q \in pending :
            /\ ~ Matches(RULES[q.source], q.target)
            /\ pc["cli"] \in {"replace", "remember"} => ~ AnsweredToo(q)

\* Nobody changes the policy without the lock, or releases it unloaded.
KernelInv == phase = "up" /\ ~ Stopping /\ lock = "free" => nft = Rendered

ControlInv == LockInv /\ PhaseInv
PolicyInv == PromptInv /\ BucketInv /\ EpochInv /\ UnansweredInv /\ KernelInv
IInv == TypeInv /\ ControlInv /\ CopyInv /\ PolicyInv

-------------------------------------------------------------------------------
(* Threads, lock and lifecycle *)

\* The steps that do not end the process, and Exit for all that do.
LEMMA NextCases ==
  ASSUME Next
  PROVE  \/ Exit /\ files' \in {files, CleanedFiles(files)}
         \/ Dom0 \/ Start \/ StopPost \/ Sigterm \/ LoadPolicy
         \/ \E t \in {"main", "watcher"} : QueryDom0(t) \/ PublishNothing(t)
         \/ \E t \in {"main", "watcher"} : Publish(t)
         \/ StartupReload
         \/ \E t \in Threads : Reload(t)
         \/ WatchRegister \/ ReadWatch
         \/ \E src \in IPs, asks \in Packets : Receive(src, asks)
         \/ KnownCheck \/ Recheck \/ Attribute \/ Bind
         \/ RefuseMalformed \/ Match \/ AskVanished \/ AskAnswered \/ Ask
         \/ TakePrompt \/ CheckPrompt \/ ShowPrompt \/ KeepPrompt \/ Decide \/ IgnoreAnswer
         \/ ClaimAnswer \/ ReplaceFile \/ RememberRule
<1> DEFINE Gone == Exit /\ files' \in {files, CleanedFiles(files)}
<1>1. \A t \in {"main", "watcher"} :
        Refresh(t) => Gone \/ QueryDom0(t) \/ PublishNothing(t) \/ Publish(t)
  BY DEF Refresh, QueryFails
<1>2. \A t \in Threads : LoadNft(t) => Gone \/ Reload(t)
  BY DEF LoadNft, ReloadRefused, ReloadFails
<1>3. CASE Service
  BY <1>3 DEF Service, Stopped, Crash
<1>4. CASE Main
  BY <1>1, <1>2, <1>4 DEF Main, LoadPolicyFails, Packet, UnknownSource, LostSource,
                          AskNotifyFails, Threads
<1>5. CASE Watcher
  BY <1>1, <1>2, <1>5 DEF Watcher, Threads
<1>6. CASE Cli
  BY <1>2, <1>6 DEF Cli, DecideFails, SaveFails, Threads
<1>7. QED
  BY <1>3, <1>4, <1>5, <1>6 DEF Next

LEMMA ControlInit == Init => ControlInv
BY DEF Init, ControlInv, LockInv, PhaseInv, Unloaded, Stopping, Threads

LEMMA ExitControl == Exit => ControlInv'
BY DEF Exit, ControlInv, LockInv, PhaseInv, Unloaded, Stopping, Threads

LEMMA ControlStep ==
  ASSUME TypeOK, ControlInv, [Next]_vars
  PROVE  ControlInv'
<1> USE DEF dom0Vars, memoryVars, queueVars, packetVars, cliVars, Goto, Threads
<1>0. DOMAIN pc = Threads
  BY DEF TypeOK
<1>1. CASE Exit
  BY <1>1, ExitControl
<1>2. CASE Dom0
  BY <1>2 DEF Dom0, VmAppears, VmGone, Dom0Sets, ControlInv, LockInv, PhaseInv, Unloaded, Stopping
<1>3. CASE Start \/ StopPost \/ Sigterm
  BY <1>0, <1>3 DEF Start, StopPost, Sigterm, ControlInv, LockInv, PhaseInv, Unloaded, Stopping
<1>4. CASE LoadPolicy
  BY <1>0, <1>4 DEF LoadPolicy, ControlInv, LockInv, PhaseInv, Unloaded, Stopping
<1>5. ASSUME NEW t \in {"main", "watcher"}, QueryDom0(t) \/ PublishNothing(t)
      PROVE  ControlInv'
  BY <1>0, <1>5 DEF QueryDom0, PublishNothing, AfterRefresh, ControlInv, LockInv, PhaseInv,
                    Unloaded, Stopping
<1>6. ASSUME NEW t \in {"main", "watcher"}, Publish(t)
      PROVE  ControlInv'
  BY <1>0, <1>6 DEF Publish, ControlInv, LockInv, PhaseInv, Unloaded, Stopping
<1>7. CASE StartupReload
  BY <1>0, <1>7 DEF StartupReload, ControlInv, LockInv, PhaseInv, Unloaded, Stopping
<1>8. ASSUME NEW t \in Threads, Reload(t)
      PROVE  ControlInv'
  BY <1>0, <1>8 DEF Reload, AfterReload, ControlInv, LockInv, PhaseInv, Unloaded, Stopping
<1>9. CASE WatchRegister \/ ReadWatch
  BY <1>0, <1>9 DEF WatchRegister, ReadWatch, ControlInv, LockInv, PhaseInv, Unloaded, Stopping
<1>10. ASSUME NEW src, NEW asks, Receive(src, asks)
       PROVE  ControlInv'
  BY <1>0, <1>10 DEF Receive, ControlInv, LockInv, PhaseInv, Unloaded, Stopping
<1>11. CASE KnownCheck \/ Recheck \/ Attribute \/ Bind
  BY <1>0, <1>11 DEF KnownCheck, Recheck, Attribute, Verdict, Bind, ControlInv, LockInv,
                     PhaseInv, Unloaded, Stopping
<1>12. CASE RefuseMalformed \/ Match \/ AskVanished \/ AskAnswered \/ Ask
  <2>1. pc["main"] \in {"match", "ask"} /\ UNCHANGED << phase, lock >>
    BY <1>12 DEF RefuseMalformed, Match, AskVanished, AskAnswered, Ask, Asking
  <2>2. \E label \in {"recv", "match", "ask"} : pc' = [pc EXCEPT !["main"] = label]
    BY <1>12 DEF RefuseMalformed, Match, AskVanished, AskAnswered, Ask, Obey, Verdict
  <2>3. QED
    BY <1>0, <2>1, <2>2 DEF ControlInv, LockInv, PhaseInv, Unloaded, Stopping
<1>13. CASE TakePrompt \/ CheckPrompt \/ ShowPrompt \/ KeepPrompt \/ Decide \/ IgnoreAnswer
  <2>1. /\ pc["cli"] \in {"accept", "check", "enriched", "shown", "save"}
        /\ UNCHANGED << phase, lock, RULES, SOURCES, nextId >>
    BY <1>13 DEF TakePrompt, CheckPrompt, ShowPrompt, KeepPrompt, Decide, IgnoreAnswer
  <2>2. \E label \in {"accept", "check", "enriched", "shown", "save"} :
          pc' = [pc EXCEPT !["cli"] = label]
    BY <1>13 DEF TakePrompt, CheckPrompt, ShowPrompt, KeepPrompt, Decide, IgnoreAnswer,
                 DiscardPrompt, BackToAccept
  <2>3. pending = {} => pending' = {}
    BY <1>13 DEF TakePrompt, CheckPrompt, ShowPrompt, KeepPrompt, Decide, IgnoreAnswer,
                 DiscardPrompt, Discarded
  <2>4. QED
    BY <1>0, <2>1, <2>2, <2>3 DEF ControlInv, LockInv, PhaseInv, Unloaded, Stopping
<1>14. CASE ClaimAnswer
  BY <1>0, <1>14 DEF ClaimAnswer, ControlInv, LockInv, PhaseInv, Unloaded, Stopping
<1>15. CASE ReplaceFile \/ RememberRule
  BY <1>0, <1>15 DEF ReplaceFile, RememberRule, ControlInv, LockInv, PhaseInv, Unloaded, Stopping
<1>16. CASE UNCHANGED vars
  BY <1>16 DEF vars, ControlInv, LockInv, PhaseInv, Unloaded, Stopping
<1>17. QED
  BY <1>1, <1>2, <1>3, <1>4, <1>5, <1>6, <1>7, <1>8, <1>9, <1>10, <1>11, <1>12, <1>13,
     <1>14, <1>15, <1>16, NextCases

-------------------------------------------------------------------------------
(* Steps that do not touch the policy *)

PolicyDefs == << phase, lock, SOURCES, epoch, RULES, files, nft, pending, nextId >>

LEMMA PolicyInit == Init => PolicyInv
BY NowhereTyped DEF Init, PolicyInv, PromptInv, BucketInv, EpochInv, UnansweredInv, KernelInv,
                    Stopping, Unloaded, Threads

LEMMA ExitPolicy == Exit => PolicyInv'
BY NowhereTyped DEF Exit, PolicyInv, PromptInv, BucketInv, EpochInv, UnansweredInv, KernelInv,
                    Stopping, Unloaded, Threads

(* A step that leaves the policy alone, and the cli thread where it is or  *)
(* short of its critical section with no other prompt and answer.          *)
LEMMA QuietStep ==
  ASSUME PolicyInv, UNCHANGED PolicyDefs,
         Stopping' <=> Stopping, Unloaded' <=> Unloaded,
         UNCHANGED << prompt, answer >>,
         \/ pc'["cli"] = pc["cli"]
         \/ /\ pc["cli"] \notin {"off", "accept"}
            /\ pc'["cli"] \notin {"save", "replace", "remember"}
  PROVE  PolicyInv'
<1> USE DEF PolicyDefs
<1>1. PromptInv'
  BY DEF PolicyInv, PromptInv, SamePrompt
<1>2. BucketInv'
  BY DEF PolicyInv, BucketInv
<1>3. EpochInv'
  BY DEF PolicyInv, EpochInv, Current
<1>4. UnansweredInv'
  BY DEF PolicyInv, UnansweredInv, AnsweredToo
<1>5. KernelInv'
  BY DEF PolicyInv, KernelInv, Rendered
<1>6. QED
  BY <1>1, <1>2, <1>3, <1>4, <1>5 DEF PolicyInv

\* A step of the cli thread that ends its work on a prompt, maybe discarding it.
LEMMA DoneStep ==
  ASSUME PolicyInv, UNCHANGED << phase, lock, SOURCES, epoch, RULES, files, nft, nextId >>,
         pending' \subseteq pending, pc'["main"] = pc["main"], pc'["cli"] \in {"off", "accept"}
  PROVE  PolicyInv'
<1>1. PromptInv'
  BY DEF PolicyInv, PromptInv
<1>2. BucketInv'
  BY DEF PolicyInv, BucketInv, Stopping, Unloaded
<1>3. EpochInv'
  BY DEF PolicyInv, EpochInv, Current, Stopping
<1>4. UnansweredInv'
  BY DEF PolicyInv, UnansweredInv, Stopping
<1>5. KernelInv'
  BY DEF PolicyInv, KernelInv, Rendered, Stopping
<1>6. QED
  BY <1>1, <1>2, <1>3, <1>4, <1>5 DEF PolicyInv

-------------------------------------------------------------------------------
(* Publication of a source map *)

\* What a bucket of a published name holds: what it held, or nothing if Numbered.
LEMMA SurvivingBuckets ==
  ASSUME IInv, NEW t \in {"main", "watcher"}, Publish(t), ~ Stopping
  PROVE  LET gone == Reused(snap[t]) \cup Vanished(snap[t]) IN
         /\ ~ Unloaded
         /\ DOMAIN files' = DOMAIN files \ gone
         /\ DOMAIN RULES' = (DOMAIN RULES \ gone) \cup NamesOf(snap[t])
         /\ \A n \in DOMAIN RULES \ gone : RULES'[n] = RULES[n]
         /\ \A n \in DOMAIN RULES' \ (DOMAIN RULES \ gone) : RULES'[n] = << >>
<1> DEFINE new  == snap[t]
           gone == Reused(new) \cup Vanished(new)
<1>1. IsRuleDict(RULES) /\ IsRuleDict(files) /\ NamesOf(new) \in SUBSET Names
      /\ DOMAIN pc = Threads
  BY DEF IInv, TypeInv, TypeOK, Maps, NamesOf
<1>2. ~ Unloaded
  BY DEF IInv, ControlInv, PhaseInv, Publish, Unloaded
<1>3. files' = Drop(files, gone) /\ RULES' = WithBuckets(Drop(RULES, gone), files', NamesOf(new))
  BY DEF Publish
<1> HIDE DEF new, gone
<1>4. IsRuleDict(files') /\ DOMAIN files' = DOMAIN files \ gone
  BY <1>1, <1>3, DropRules
<1>5. IsRuleDict(Drop(RULES, gone)) /\ DOMAIN Drop(RULES, gone) = DOMAIN RULES \ gone
      /\ \A n \in DOMAIN RULES \ gone : Drop(RULES, gone)[n] = RULES[n]
  BY <1>1, DropRules
<1>6. /\ DOMAIN RULES' = (DOMAIN RULES \ gone) \cup NamesOf(new)
      /\ \A n \in DOMAIN RULES \ gone : RULES'[n] = RULES[n]
      /\ \A n \in NamesOf(new) \ (DOMAIN RULES \ gone) : RULES'[n] = ListAt(files', n)
  <2> DEFINE kept == Drop(RULES, gone)
  <2> HIDE DEF kept
  <2>1. IsRuleDict(kept) /\ RULES' = WithBuckets(kept, files', NamesOf(new))
    BY <1>3, <1>5 DEF kept
  <2>2. /\ DOMAIN RULES' = DOMAIN kept \cup NamesOf(new)
        /\ \A n \in DOMAIN kept : RULES'[n] = kept[n]
        /\ \A n \in NamesOf(new) \ DOMAIN kept : RULES'[n] = ListAt(files', n)
    BY <2>1 DEF WithBuckets
  <2>3. QED
    BY <1>5, <2>2 DEF kept
<1>7. DOMAIN files' \subseteq DOMAIN RULES \ gone
  BY <1>2, <1>4 DEF IInv, PolicyInv, BucketInv
<1>8. QED
  BY <1>2, <1>4, <1>6, <1>7 DEF ListAt, new, gone

(* A numbered name that survives a publication keeps its addresses, and so *)
(* its publication number and its questions' source.                       *)
LEMMA SurvivingNames ==
  ASSUME IInv, NEW t \in {"main", "watcher"}, Publish(t), ~ Stopping,
         NEW n \in Numbered \cap DOMAIN RULES, n \notin Reused(snap[t]) \cup Vanished(snap[t])
  PROVE  n \in NamesOf(SOURCES') /\ IPsOf(SOURCES', n) = IPsOf(SOURCES, n)
         /\ epoch'[n] = epoch[n]
<1>1. n \in NamesOf(snap[t]) /\ n \in NamesOf(SOURCES)
  BY DEF Vanished, IInv, PolicyInv, BucketInv
<1>2. IPsOf(SOURCES, n) = IPsOf(snap[t], n)
  BY <1>1 DEF Reused
<1>3. QED
  BY <1>1, <1>2, SourcesAssumption DEF Publish, NextEpoch

LEMMA PublishPolicy ==
  ASSUME IInv, NEW t \in {"main", "watcher"}, Publish(t)
  PROVE  PolicyInv'
<1> DEFINE gone == Reused(snap[t]) \cup Vanished(snap[t])
<1>0. /\ SOURCES' = snap[t] /\ pending' = {q \in pending : q.source \notin gone}
      /\ lock = "free" /\ lock' = t
      /\ UNCHANGED << nextId, prompt, answer >>
  BY DEF Publish, WithoutSources, cliVars
<1>1. /\ pc'["cli"] = pc["cli"]
      /\ pc'["cli"] \notin {"replace", "remember"} /\ pending' \subseteq pending
  BY <1>0 DEF Publish, Goto, Stopping, IInv, TypeInv, TypeOK, Threads, ControlInv, LockInv
<1>2. PromptInv'
  <2>1. PromptInv
    BY DEF IInv, PolicyInv
  <2>2. QED
    BY <1>0, <1>1, <2>1 DEF PromptInv, SamePrompt
<1>3. KernelInv'
  BY <1>0 DEF KernelInv
<1>4. CASE Stopping'
  BY <1>2, <1>3, <1>4 DEF PolicyInv, BucketInv, EpochInv, UnansweredInv
<1>5. CASE ~ Stopping'
  <2>0. ~ Stopping
    BY <1>5 DEF Publish, Goto, Stopping, IInv, TypeInv, TypeOK, Threads
  <2>1. /\ ~ Unloaded
        /\ DOMAIN files' = DOMAIN files \ gone
        /\ DOMAIN RULES' = (DOMAIN RULES \ gone) \cup NamesOf(SOURCES')
        /\ \A n \in DOMAIN RULES \ gone : RULES'[n] = RULES[n]
        /\ \A n \in DOMAIN RULES' \ (DOMAIN RULES \ gone) : RULES'[n] = << >>
    BY <1>0, <2>0, SurvivingBuckets
  <2>2. ASSUME NEW n \in Numbered \cap DOMAIN RULES, n \notin gone
        PROVE  n \in NamesOf(SOURCES') /\ IPsOf(SOURCES', n) = IPsOf(SOURCES, n)
               /\ epoch'[n] = epoch[n]
    BY <2>0, <2>2, SurvivingNames
  <2>3. \A q \in pending' : q \in pending /\ q.source \in DOMAIN RULES \ gone
    BY <1>0, <2>0 DEF IInv, PolicyInv, BucketInv
  <2> HIDE DEF gone
  <2>4. BucketInv'
    <3>1. Numbered \cap DOMAIN RULES' \subseteq NamesOf(SOURCES')
      BY <2>1, <2>2
    <3>2. DOMAIN files' \subseteq DOMAIN RULES'
      BY <2>0, <2>1 DEF IInv, PolicyInv, BucketInv
    <3>3. QED
      BY <2>1, <2>3, <3>1, <3>2 DEF BucketInv
  <2>5. EpochInv'
    <3>1. ASSUME NEW n \in Numbered \cap DOMAIN RULES', NEW i \in DOMAIN RULES'[n]
          PROVE  RULES'[n][i].epoch = epoch'[n]
      <4>1. n \in DOMAIN RULES \ gone
        BY <2>1, <3>1
      <4>2. QED
        BY <2>0, <2>1, <2>2, <3>1, <4>1 DEF IInv, PolicyInv, EpochInv
    <3>2. ASSUME NEW q \in pending', q.source \in Numbered
          PROVE  q.epoch = epoch'[q.source] /\ Current(q)'
      <4>1. q.epoch = epoch[q.source] /\ Current(q)
        BY <2>0, <2>3, <3>2 DEF IInv, PolicyInv, EpochInv
      <4>2. q.src \in IPsOf(SOURCES', q.source) /\ epoch'[q.source] = epoch[q.source]
        BY <2>2, <2>3, <3>2, <4>1 DEF Current, IPsOf
      <4>3. QED
        BY <4>1, <4>2 DEF Current, IPsOf
    <3>3. pc'["cli"] \notin {"replace", "remember"}
      BY <1>1
    <3>4. \A n \in Numbered \cap DOMAIN RULES' : \A i \in DOMAIN RULES'[n] :
            RULES'[n][i].epoch = epoch'[n]
      BY <3>1
    <3>5. QED
      BY <3>2, <3>3, <3>4 DEF EpochInv
  <2>6. UnansweredInv'
    <3>1. \A q \in pending' : ~ Matches(RULES'[q.source], q.target)
      BY <2>0, <2>1, <2>3 DEF UnansweredInv, IInv, PolicyInv
    <3>2. pc'["cli"] \notin {"replace", "remember"}
      BY <1>1
    <3>3. QED
      BY <3>1, <3>2 DEF UnansweredInv
  <2>7. QED
    BY <1>2, <1>3, <2>4, <2>5, <2>6 DEF PolicyInv
<1>6. QED
  BY <1>4, <1>5

-------------------------------------------------------------------------------
(* The main thread's other steps *)

\* While the stop handler runs, only the prompts are still promised anything.
LEMMA StoppingPolicy ==
  ASSUME PromptInv', Stopping'
  PROVE  PolicyInv'
BY DEF PolicyInv, BucketInv, EpochInv, UnansweredInv, KernelInv

LEMMA LifecyclePolicy ==
  ASSUME IInv, Start \/ StopPost \/ Sigterm
  PROVE  PolicyInv'
<1> USE DEF dom0Vars, memoryVars, queueVars, packetVars, cliVars, Goto, Threads
<1>0. DOMAIN pc = Threads /\ PolicyInv /\ ControlInv
  BY DEF IInv, TypeInv, TypeOK
<1>1. CASE Start
  <2>1. /\ UNCHANGED << lock, SOURCES, epoch, RULES, files, pending, nextId, prompt, answer >>
        /\ phase' = "starting" /\ pc["main"] = "off" /\ pc'["main"] = "load"
        /\ pc'["cli"] = pc["cli"] /\ pc["cli"] = "off"
    BY <1>0, <1>1 DEF Start, ControlInv, PhaseInv
  <2>2. PromptInv' /\ BucketInv' /\ EpochInv' /\ UnansweredInv'
    BY <1>0, <2>1 DEF PolicyInv, PromptInv, BucketInv, EpochInv, UnansweredInv, Stopping,
                      Unloaded, Current
  <2>3. QED
    BY <2>1, <2>2 DEF PolicyInv, KernelInv
<1>2. CASE StopPost
  <2>1. /\ UNCHANGED << lock, SOURCES, epoch, RULES, files, pending, nextId, prompt, answer, pc >>
        /\ phase' = "down" /\ pc["main"] = "off" /\ pc["cli"] = "off"
    BY <1>0, <1>2 DEF StopPost, ControlInv, PhaseInv
  <2>2. PromptInv' /\ BucketInv' /\ EpochInv' /\ UnansweredInv'
    BY <1>0, <2>1 DEF PolicyInv, PromptInv, BucketInv, EpochInv, UnansweredInv, Stopping,
                      Unloaded, Current
  <2>3. QED
    BY <2>1, <2>2 DEF PolicyInv, KernelInv
<1>3. CASE Sigterm
  <2>1. PromptInv'
    BY <1>0, <1>3 DEF Sigterm, PolicyInv, PromptInv, SamePrompt
  <2>2. Stopping'
    BY <1>0, <1>3 DEF Sigterm, Stopping
  <2>3. QED
    BY <2>1, <2>2, StoppingPolicy
<1>4. QED
  BY <1>1, <1>2, <1>3

\* Startup: every file has its bucket, and no numbered name has either.
LEMMA LoadPolicyPolicy ==
  ASSUME IInv, LoadPolicy
  PROVE  PolicyInv'
<1> USE DEF dom0Vars, memoryVars, queueVars, packetVars, cliVars
<1>1. /\ SOURCES' = Nowhere /\ pending' = {} /\ phase' = "starting"
      /\ pc' = [pc EXCEPT !["main"] = "query", !["cli"] = "accept"]
      /\ DOMAIN pc = Threads
  BY DEF LoadPolicy, IInv, ControlInv, PhaseInv, Unloaded, TypeInv, TypeOK
<1>2. DOMAIN files' = DOMAIN files \ Numbered
  BY DEF LoadPolicy, CleanedFiles, Drop
<1>3. DOMAIN RULES' = DOMAIN files'
  BY DEF LoadPolicy
<1>4. PromptInv' /\ BucketInv'
  BY <1>1, <1>2, <1>3, NowhereTyped DEF PromptInv, BucketInv, Threads
<1>5. EpochInv' /\ UnansweredInv' /\ KernelInv'
  BY <1>1, <1>2, <1>3 DEF EpochInv, UnansweredInv, KernelInv, Threads
<1>6. QED
  BY <1>4, <1>5 DEF PolicyInv

\* Loading nft releases the lock with the kernel up to date.
LEMMA ReloadPolicy ==
  ASSUME IInv, StartupReload \/ \E t \in Threads : Reload(t)
  PROVE  PolicyInv'
<1> USE DEF dom0Vars, memoryVars, queueVars, packetVars, cliVars, Goto, Threads
<1>0. DOMAIN pc = Threads /\ PolicyInv
  BY DEF IInv, TypeInv, TypeOK
<1>1. /\ UNCHANGED << SOURCES, epoch, RULES, files, pending, nextId >>
      /\ nft' = Rendered
      /\ ~ Unloaded
      /\ (Stopping' <=> Stopping)
  BY <1>0 DEF StartupReload, Reload, AfterReload, Unloaded, Stopping, IInv, ControlInv, PhaseInv
<1>2. \/ UNCHANGED << prompt, answer >> /\ pc'["cli"] = pc["cli"]
      \/ pc'["cli"] = "accept"
  BY <1>0 DEF StartupReload, Reload, AfterReload
<1>3. PromptInv'
  BY <1>0, <1>1, <1>2 DEF PolicyInv, PromptInv, SamePrompt
<1>4. BucketInv'
  BY <1>0, <1>1 DEF PolicyInv, BucketInv
<1>5. EpochInv'
  BY <1>0, <1>1, <1>2 DEF PolicyInv, EpochInv, Current
<1>6. UnansweredInv'
  BY <1>0, <1>1, <1>2 DEF PolicyInv, UnansweredInv, AnsweredToo
<1>7. KernelInv'
  BY <1>1 DEF KernelInv, Rendered
<1>8. QED
  BY <1>3, <1>4, <1>5, <1>6, <1>7 DEF PolicyInv

\* The steps of the packet path and of a refresh that change no policy.
LEMMA QuietMainPolicy ==
  ASSUME IInv,
         \/ Dom0
         \/ \E t \in {"main", "watcher"} : QueryDom0(t) \/ PublishNothing(t)
         \/ WatchRegister \/ ReadWatch
         \/ \E src \in IPs, asks \in Packets : Receive(src, asks)
         \/ KnownCheck \/ Recheck \/ Attribute \/ RefuseMalformed \/ Match \/ AskVanished
  PROVE  PolicyInv'
<1> USE DEF dom0Vars, memoryVars, queueVars, packetVars, cliVars, Goto, Threads
<1>0. DOMAIN pc = Threads /\ PolicyInv
  BY DEF IInv, TypeInv, TypeOK
<1>1. UNCHANGED PolicyDefs /\ UNCHANGED << prompt, answer >>
  BY DEF PolicyDefs, Dom0, VmAppears, VmGone, Dom0Sets, QueryDom0, PublishNothing, WatchRegister,
         ReadWatch, Receive, KnownCheck, Recheck, Attribute, RefuseMalformed, Match, AskVanished
<1>2. \/ pc' = pc
      \/ \E label \in {"publish", "recheck", "known", "bind", "query", "attribute",
                        "recv", "match", "ask"} :
           pc' = [pc EXCEPT !["main"] = label] /\ ~ Unloaded /\ ~ Stopping
      \/ \E label \in WatcherLabels : pc' = [pc EXCEPT !["watcher"] = label]
  BY DEF Dom0, VmAppears, VmGone, Dom0Sets, QueryDom0, PublishNothing, AfterRefresh,
         WatchRegister, ReadWatch, Receive, KnownCheck, Recheck, Attribute, RefuseMalformed,
         Match, AskVanished, Verdict, Obey, Unloaded, Stopping, WatcherLabels
<1>3. /\ pc'["cli"] = pc["cli"]
      /\ (Stopping' <=> Stopping) /\ (Unloaded' <=> Unloaded)
  BY <1>0, <1>2 DEF Stopping, Unloaded
<1>4. QED
  BY <1>0, <1>1, <1>3, QuietStep

\* A known source has its bucket, so ensure_rule_entry finds nothing to do.
LEMMA EnsureIdle ==
  ASSUME IInv, ~ Stopping, NEW src \in DOMAIN SOURCES
  PROVE  WithBuckets(RULES, files, {SOURCES[src]}) = RULES /\ SOURCES[src] \in DOMAIN RULES
<1>1. SOURCES[src] \in DOMAIN RULES
  BY DEF IInv, PolicyInv, BucketInv, NamesOf
<1>2. IsRuleDict(RULES)
  BY DEF IInv, TypeInv, TypeOK
<1>3. QED
  BY <1>1, <1>2, BucketsIdle

\* Attributing a packet, and answering it from a rule saved meanwhile.
LEMMA AttributedPolicy ==
  ASSUME IInv, Bind \/ AskAnswered
  PROVE  PolicyInv'
<1> USE DEF dom0Vars, memoryVars, queueVars, packetVars, cliVars, Goto, Threads
<1>0. DOMAIN pc = Threads /\ PolicyInv
  BY DEF IInv, TypeInv, TypeOK
<1>1. ~ Stopping /\ ~ Unloaded
  BY DEF Bind, AskAnswered, Stopping, Unloaded
<1>2. RULES' = RULES
  BY <1>1, EnsureIdle DEF Bind, AskAnswered, Current
<1>3. UNCHANGED PolicyDefs /\ UNCHANGED << prompt, answer >>
  BY <1>2 DEF PolicyDefs, Bind, AskAnswered
<1>4. \E label \in {"recv", "match"} : pc' = [pc EXCEPT !["main"] = label]
  BY DEF Bind, AskAnswered, Obey, Verdict
<1>5. pc'["cli"] = pc["cli"] /\ (Stopping' <=> Stopping) /\ (Unloaded' <=> Unloaded)
  BY <1>0, <1>1, <1>4 DEF Stopping, Unloaded
<1>6. QED
  BY <1>0, <1>3, <1>5, QuietStep

\* Queueing a question that no rule answers.
LEMMA AskPolicy ==
  ASSUME IInv, Ask
  PROVE  PolicyInv'
<1> USE DEF dom0Vars, memoryVars, queueVars, packetVars, cliVars, Goto, Threads
<1>0. /\ DOMAIN pc = Threads /\ PolicyInv /\ ~ Stopping /\ ~ Unloaded /\ Current(packet)
      /\ lock = "free" /\ nextId \in Nat /\ IsRuleDict(RULES)
      /\ pending \subseteq Question
      /\ pc["cli"] \notin {"replace", "remember"}
  BY DEF Ask, Asking, Stopping, Unloaded, IInv, TypeInv, TypeOK, ControlInv, LockInv
<1>1. RULES' = RULES /\ packet.source \in DOMAIN RULES
  BY <1>0, EnsureIdle DEF Ask, Asking, Current
<1>2. /\ UNCHANGED << phase, lock, SOURCES, epoch, RULES, files, nft, prompt, answer >>
      /\ pc'["cli"] = pc["cli"] /\ ~ Stopping' /\ ~ Unloaded'
  BY <1>0, <1>1 DEF Ask, Verdict, Stopping, Unloaded
<1>3. CASE pending' = pending /\ nextId' = nextId
  <2>1. UNCHANGED PolicyDefs
    BY <1>2, <1>3 DEF PolicyDefs
  <2>2. (Stopping' <=> Stopping) /\ (Unloaded' <=> Unloaded) /\ PolicyInv
        /\ prompt' = prompt /\ answer' = answer /\ pc'["cli"] = pc["cli"]
    BY <1>0, <1>2
  <2>3. QED
    BY <2>1, <2>2, QuietStep
<1>4. CASE pending' = pending \cup {NewQuestion} /\ nextId' = nextId + 1
  <2> DEFINE new == NewQuestion
  <2>1. /\ new.id = nextId /\ new.source = packet.source /\ new.target = Asked
        /\ new.src = packet.src /\ new.epoch = epoch[packet.source]
    BY DEF NewQuestion
  <2>2. ~ Matches(RULES[new.source], new.target)
    BY <1>0, <1>1, <2>1, DecidedIffMatched DEF Ask, Asking, RecheckAction
  <2>3. Current(new)
    BY <1>0, <2>1 DEF Current
  <2>4. pending' = pending \cup {new}
    BY <1>4
  <2> HIDE DEF new
  <2>5. \A q \in pending : q.id \in Nat /\ q.id < nextId
    BY <1>0 DEF PolicyInv, PromptInv, Question
  <2>6. PromptInv'
    <3>1. pc["cli"] \notin {"off", "accept"} => prompt.id \in Nat /\ prompt.id < nextId
      BY <1>0 DEF PolicyInv, PromptInv, IInv, TypeInv, WorkInv, Question
    <3>2. QED
      BY <1>0, <1>2, <1>4, <2>1, <2>4, <2>5, <3>1 DEF PolicyInv, PromptInv, SamePrompt
  <2>7. BucketInv'
    BY <1>0, <1>1, <1>2, <2>1, <2>4 DEF PolicyInv, BucketInv
  <2>8. EpochInv'
    BY <1>0, <1>2, <2>1, <2>3, <2>4 DEF PolicyInv, EpochInv, Current
  <2>9. UnansweredInv'
    BY <1>0, <1>2, <2>2, <2>4 DEF PolicyInv, UnansweredInv
  <2>10. KernelInv'
    BY <1>0, <1>2 DEF PolicyInv, KernelInv, Rendered
  <2>11. QED
    BY <2>6, <2>7, <2>8, <2>9, <2>10 DEF PolicyInv
<1>5. QED
  BY <1>3, <1>4 DEF Ask

-------------------------------------------------------------------------------
(* The cli thread's steps *)

\* Taking up a prompt, showing it, putting it back, discarding it.
LEMMA PromptPolicy ==
  ASSUME IInv,
         TakePrompt \/ CheckPrompt \/ ShowPrompt \/ KeepPrompt \/ Decide \/ IgnoreAnswer
  PROVE  PolicyInv'
<1> USE DEF dom0Vars, memoryVars, queueVars, packetVars, cliVars, Goto, Threads
<1>0. DOMAIN pc = Threads /\ PolicyInv
  BY DEF IInv, TypeInv, TypeOK
<1>1. /\ UNCHANGED << phase, lock, SOURCES, epoch, RULES, files, nft, nextId >>
      /\ pc'["main"] = pc["main"]
      /\ (Stopping' <=> Stopping) /\ (Unloaded' <=> Unloaded)
  BY <1>0 DEF TakePrompt, CheckPrompt, ShowPrompt, KeepPrompt, Decide, IgnoreAnswer,
              DiscardPrompt, BackToAccept, Stopping, Unloaded
<1>2. CASE TakePrompt
  <2>1. prompt' \in pending /\ pc' = [pc EXCEPT !["cli"] = "check"] /\ UNCHANGED pending
    BY <1>2 DEF TakePrompt
  <2>2. PromptInv'
    BY <1>0, <1>1, <2>1 DEF PolicyInv, PromptInv, SamePrompt
  <2>3. BucketInv' /\ KernelInv'
    BY <1>0, <1>1, <2>1 DEF PolicyInv, BucketInv, KernelInv, Rendered
  <2>4. EpochInv' /\ UnansweredInv'
    BY <1>0, <1>1, <2>1 DEF PolicyInv, EpochInv, UnansweredInv, Current
  <2>5. QED
    BY <2>2, <2>3, <2>4 DEF PolicyInv
<1>3. CASE Decide
  <2>1. pc["cli"] = "shown" /\ pc' = [pc EXCEPT !["cli"] = "save"]
        /\ UNCHANGED << pending, prompt >> /\ answer' \in Decisions(prompt.target)
    BY <1>3 DEF Decide
  <2>2. answer'.epoch = prompt.epoch
    BY <2>1, DecisionsTyped DEF IInv, TypeInv, WorkInv
  <2>3. PromptInv'
    BY <1>0, <1>1, <2>1, <2>2 DEF PolicyInv, PromptInv, SamePrompt
  <2>4. BucketInv' /\ KernelInv'
    BY <1>0, <1>1, <2>1 DEF PolicyInv, BucketInv, KernelInv, Rendered
  <2>5. EpochInv' /\ UnansweredInv'
    BY <1>0, <1>1, <2>1 DEF PolicyInv, EpochInv, UnansweredInv, Current
  <2>6. QED
    BY <2>3, <2>4, <2>5 DEF PolicyInv
<1>4. CASE UNCHANGED << pending, prompt, answer >>
           /\ \E label \in {"enriched", "shown"} : pc' = [pc EXCEPT !["cli"] = label]
           /\ pc["cli"] \notin {"off", "accept"}
  <2>1. UNCHANGED PolicyDefs /\ UNCHANGED << prompt, answer >>
    BY <1>1, <1>4 DEF PolicyDefs
  <2>2. pc'["cli"] \in {"enriched", "shown"}
    BY <1>0, <1>4
  <2>3. QED
    BY <1>0, <1>1, <1>4, <2>1, <2>2, QuietStep
<1>5. CASE BackToAccept /\ pending' \subseteq pending
  <2>1. pc'["cli"] = "accept"
    BY <1>0, <1>5 DEF BackToAccept
  <2>2. QED
    BY <1>0, <1>1, <1>5, <2>1, DoneStep
<1>6. QED
  BY <1>2, <1>3, <1>4, <1>5
     DEF CheckPrompt, ShowPrompt, KeepPrompt, IgnoreAnswer, DiscardPrompt, Discarded

(* Claiming an answer takes every question it covers out of the queue; the *)
(* prompt of a numbered name was asked during its current publication.     *)
LEMMA ClaimPolicy ==
  ASSUME IInv, ClaimAnswer
  PROVE  PolicyInv'
<1> USE DEF dom0Vars, memoryVars, queueVars, packetVars, cliVars, Goto, Threads
<1>0. DOMAIN pc = Threads /\ PolicyInv /\ pc["cli"] = "save"
  BY DEF IInv, TypeInv, TypeOK, ClaimAnswer
<1>1. /\ UNCHANGED << phase, SOURCES, epoch, RULES, files, nft, nextId, prompt, answer >>
      /\ pc'["main"] = pc["main"] /\ lock' = "cli" /\ pending' \subseteq pending
      /\ pc'["cli"] \in {"replace", "reload"}
      /\ pc'["cli"] = "replace" => Current(prompt)
      /\ \A q \in pending' : ~ AnsweredToo(q)
  BY <1>0 DEF ClaimAnswer
<1>2. (Stopping' <=> Stopping) /\ (Unloaded' <=> Unloaded)
  BY <1>1 DEF Stopping, Unloaded
<1>3. prompt \in pending
  BY <1>0 DEF ClaimAnswer, Claimable, PolicyInv, PromptInv
<1>4. PromptInv'
  BY <1>0, <1>1 DEF PolicyInv, PromptInv, SamePrompt
<1>5. BucketInv' /\ KernelInv'
  BY <1>0, <1>1, <1>2 DEF PolicyInv, BucketInv, KernelInv
<1>6. EpochInv'
  <2>1. answer.epoch = prompt.epoch
    BY <1>0 DEF PolicyInv, PromptInv
  <2>2. ~ Stopping /\ prompt.source \in Numbered => answer.epoch = epoch[prompt.source]
    BY <1>0, <1>3, <2>1 DEF PolicyInv, EpochInv
  <2>3. QED
    BY <1>0, <1>1, <1>2, <2>2 DEF PolicyInv, EpochInv, Current
<1>7. UnansweredInv'
  BY <1>0, <1>1, <1>2 DEF PolicyInv, UnansweredInv, AnsweredToo
<1>8. QED
  BY <1>4, <1>5, <1>6, <1>7 DEF PolicyInv

\* os.replace: the file belongs to a published name, which has its bucket.
LEMMA ReplacePolicy ==
  ASSUME IInv, ReplaceFile
  PROVE  PolicyInv'
<1> USE DEF dom0Vars, memoryVars, queueVars, packetVars, cliVars, Goto, Threads
<1>0. DOMAIN pc = Threads /\ PolicyInv /\ pc["cli"] = "replace"
  BY DEF IInv, TypeInv, TypeOK, ReplaceFile
<1>1. /\ UNCHANGED << phase, lock, SOURCES, epoch, RULES, nft, pending, nextId, prompt, answer >>
      /\ pc'["main"] = pc["main"] /\ pc'["cli"] = "remember"
      /\ DOMAIN files' = DOMAIN files \cup {prompt.source}
  BY <1>0 DEF ReplaceFile, Put
<1>2. (Stopping' <=> Stopping) /\ (Unloaded' <=> Unloaded)
  BY <1>1 DEF Stopping, Unloaded
<1>3. ~ Stopping => prompt.source \in DOMAIN RULES
  BY <1>0 DEF PolicyInv, EpochInv, BucketInv, Current, NamesOf
<1>4. PromptInv'
  BY <1>0, <1>1 DEF PolicyInv, PromptInv, SamePrompt
<1>5. BucketInv' /\ KernelInv'
  BY <1>0, <1>1, <1>2, <1>3 DEF PolicyInv, BucketInv, KernelInv, Rendered
<1>6. EpochInv'
  BY <1>0, <1>1, <1>2 DEF PolicyInv, EpochInv, Current
<1>7. UnansweredInv'
  BY <1>0, <1>1, <1>2 DEF PolicyInv, UnansweredInv, AnsweredToo
<1>8. QED
  BY <1>4, <1>5, <1>6, <1>7 DEF PolicyInv

\* An appended rule matches what it covers, and the others what they covered.
LEMMA AppendedRule ==
  ASSUME NEW s \in Seq(Rule), NEW rule \in Rule
  PROVE  /\ \A target : Matches(Append(s, rule), target)
                          <=> Matches(s, target) \/ target \in rule.covers
         /\ \A i \in DOMAIN Append(s, rule) :
              Append(s, rule)[i] = rule \/ (i \in DOMAIN s /\ Append(s, rule)[i] = s[i])
<1> DEFINE all == Append(s, rule)
<1>1. /\ Len(s) \in Nat /\ DOMAIN s = 1 .. Len(s)
      /\ DOMAIN all = 1 .. Len(s) + 1
      /\ \A i \in 1 .. Len(s) : all[i] = s[i]
      /\ all[Len(s) + 1] = rule
  BY LenProperties, AppendProperties
<1> HIDE DEF all
<1>2. \A i \in DOMAIN all : i = Len(s) + 1 \/ i \in DOMAIN s
  BY <1>1
<1>3. DOMAIN s \subseteq DOMAIN all /\ Len(s) + 1 \in DOMAIN all
  BY <1>1
<1>4. \A target : Matches(all, target) <=> Matches(s, target) \/ target \in rule.covers
  BY <1>1, <1>2, <1>3 DEF Matches, RuleMatches
<1>5. QED
  BY <1>1, <1>2, <1>4 DEF all

\* ctx.RULES: the new rule is of the current publication and answers no waiting question.
LEMMA RememberPolicy ==
  ASSUME IInv, RememberRule
  PROVE  PolicyInv'
<1> USE DEF dom0Vars, memoryVars, queueVars, packetVars, cliVars, Goto, Threads
<1> DEFINE n == prompt.source
           s == ListAt(RULES, n)
<1>0. /\ DOMAIN pc = Threads /\ PolicyInv /\ pc["cli"] = "remember" /\ lock = "cli"
      /\ IsRuleDict(RULES) /\ answer \in Rule /\ n \in Names /\ s \in Seq(Rule)
  BY ListAtTyped
     DEF IInv, TypeInv, TypeOK, WorkInv, ControlInv, LockInv, RememberRule, Question
<1>1. /\ UNCHANGED << phase, lock, SOURCES, epoch, files, nft, pending, nextId, prompt, answer >>
      /\ pc'["main"] = pc["main"] /\ pc'["cli"] = "reload"
      /\ ~ Stopping => RULES' = Put(RULES, n, Append(s, answer))
  BY <1>0 DEF RememberRule, IInv, CopyInv, WithAnswer
<1>2. (Stopping' <=> Stopping) /\ (Unloaded' <=> Unloaded)
  BY <1>1 DEF Stopping, Unloaded
<1>3. PromptInv'
  BY <1>0, <1>1 DEF PolicyInv, PromptInv, SamePrompt
<1>4. CASE Stopping
  BY <1>2, <1>3, <1>4, StoppingPolicy
<1>5. CASE ~ Stopping
  <2>1. n \in DOMAIN RULES /\ Current(prompt)
    BY <1>0, <1>5 DEF PolicyInv, EpochInv, BucketInv, Current, NamesOf
  <2>2. /\ DOMAIN RULES' = DOMAIN RULES /\ RULES'[n] = Append(RULES[n], answer)
        /\ \A m \in DOMAIN RULES : m # n => RULES'[m] = RULES[m]
        /\ RULES[n] \in Seq(Rule)
    BY <1>0, <1>1, <1>5, <2>1 DEF Put, ListAt
  <2>3. /\ \A target : Matches(RULES'[n], target)
                         <=> Matches(RULES[n], target) \/ target \in answer.covers
        /\ \A i \in DOMAIN RULES'[n] :
             RULES'[n][i] = answer \/ (i \in DOMAIN RULES[n] /\ RULES'[n][i] = RULES[n][i])
    <3> DEFINE old == RULES[n]
    <3>1. old \in Seq(Rule) /\ answer \in Rule /\ RULES'[n] = Append(old, answer)
      BY <1>0, <2>2
    <3> HIDE DEF old
    <3>2. /\ \A target : Matches(Append(old, answer), target)
                           <=> Matches(old, target) \/ target \in answer.covers
          /\ \A i \in DOMAIN Append(old, answer) :
               \/ Append(old, answer)[i] = answer
               \/ i \in DOMAIN old /\ Append(old, answer)[i] = old[i]
      BY <3>1, AppendedRule
    <3>3. QED
      BY <3>1, <3>2 DEF old
  <2>4. BucketInv'
    BY <1>0, <1>1, <1>2, <2>2 DEF PolicyInv, BucketInv
  <2>5. EpochInv'
    <3>1. ASSUME NEW m \in Numbered \cap DOMAIN RULES', NEW i \in DOMAIN RULES'[m]
          PROVE  RULES'[m][i].epoch = epoch'[m]
      <4>1. CASE m # n
        BY <1>0, <1>1, <1>5, <2>2, <3>1, <4>1 DEF PolicyInv, EpochInv
      <4>2. CASE m = n
        <5>1. answer.epoch = epoch[n]
          BY <1>0, <1>5, <3>1, <4>2 DEF PolicyInv, EpochInv
        <5>2. RULES'[m][i] = answer \/ (i \in DOMAIN RULES[n] /\ RULES'[m][i] = RULES[n][i])
          BY <2>3, <3>1, <4>2
        <5>3. QED
          BY <1>0, <1>1, <1>5, <2>1, <3>1, <4>2, <5>1, <5>2 DEF PolicyInv, EpochInv
      <4>3. QED
        BY <4>1, <4>2
    <3>2. \A q \in pending' : q.source \in Numbered => q.epoch = epoch'[q.source] /\ Current(q)'
      BY <1>0, <1>1, <1>5 DEF PolicyInv, EpochInv, Current
    <3>3. \A m \in Numbered \cap DOMAIN RULES' : \A i \in DOMAIN RULES'[m] :
            RULES'[m][i].epoch = epoch'[m]
      BY <3>1
    <3>4. QED
      BY <1>1, <3>2, <3>3 DEF EpochInv
  <2>6. UnansweredInv'
    <3>1. ASSUME NEW q \in pending
          PROVE  ~ Matches(RULES'[q.source], q.target)
      <4>1. q.source \in DOMAIN RULES /\ ~ Matches(RULES[q.source], q.target) /\ ~ AnsweredToo(q)
        BY <1>0, <1>5 DEF PolicyInv, UnansweredInv, BucketInv
      <4>2. CASE q.source # n
        BY <2>2, <4>1, <4>2
      <4>3. CASE q.source = n
        BY <2>3, <4>1, <4>3 DEF AnsweredToo
      <4>4. QED
        BY <4>2, <4>3
    <3>2. QED
      BY <1>1, <3>1 DEF UnansweredInv
  <2>7. KernelInv'
    BY <1>0, <1>1 DEF KernelInv
  <2>8. QED
    BY <1>3, <2>4, <2>5, <2>6, <2>7 DEF PolicyInv
<1>6. QED
  BY <1>4, <1>5

-------------------------------------------------------------------------------
(* append_rule's copy of RULES *)

LEMMA CopyStep ==
  ASSUME TypeOK, ControlInv, CopyInv, [Next]_vars
  PROVE  CopyInv'
<1> USE DEF dom0Vars, memoryVars, queueVars, packetVars, cliVars, Goto, Threads
<1>0. DOMAIN pc = Threads
  BY DEF TypeOK
<1>1. ASSUME pc'["cli"] \notin {"replace", "remember"}
      PROVE  CopyInv'
  BY <1>1 DEF CopyInv
<1>2. ASSUME UNCHANGED << RULES, prompt, answer, nextRules >>, pc'["cli"] = pc["cli"],
             Stopping => Stopping'
      PROVE  CopyInv'
  <2>1. WithAnswer(RULES)' = WithAnswer(RULES)
    BY <1>2 DEF WithAnswer
  <2>2. QED
    BY <1>2, <2>1 DEF CopyInv, WithAnswer
<1>3. CASE Exit
  BY <1>1, <1>3 DEF Exit
<1>4. CASE \/ Dom0 \/ Start \/ StopPost \/ UNCHANGED vars
           \/ (\E t \in {"main", "watcher"} : QueryDom0(t) \/ PublishNothing(t))
           \/ StartupReload \/ WatchRegister \/ ReadWatch
  BY <1>0, <1>2, <1>4
     DEF Dom0, VmAppears, VmGone, Dom0Sets, Start, StopPost, vars, QueryDom0, PublishNothing,
         AfterRefresh, StartupReload, WatchRegister, ReadWatch, Stopping, ControlInv, PhaseInv
<1>5. CASE \/ \E src \in IPs, asks \in Packets : Receive(src, asks)
           \/ KnownCheck \/ Recheck \/ Attribute \/ RefuseMalformed \/ Match \/ AskVanished
  <2>1. pc'["cli"] = pc["cli"] /\ ~ Stopping
    BY <1>0, <1>5 DEF Receive, KnownCheck, Recheck, Attribute, RefuseMalformed, Match, AskVanished,
                      Obey, Verdict, Stopping
  <2>2. UNCHANGED << RULES, prompt, answer, nextRules >>
    BY <1>5 DEF Receive, KnownCheck, Recheck, Attribute, RefuseMalformed, Match, AskVanished
  <2>3. QED
    BY <1>2, <2>1, <2>2
<1>6. CASE \/ Bind \/ AskAnswered \/ Ask
           \/ \E t \in {"main", "watcher"} : Publish(t)
  <2>1. lock = "free" /\ pc'["cli"] = pc["cli"]
    BY <1>0, <1>6 DEF Bind, AskAnswered, Ask, Asking, Publish, Obey, Verdict
  <2>2. QED
    BY <1>1, <2>1 DEF ControlInv, LockInv
<1>7. CASE LoadPolicy
  BY <1>0, <1>1, <1>7 DEF LoadPolicy
<1>8. ASSUME NEW t \in Threads, Reload(t)
      PROVE  CopyInv'
  <2>1. CASE t = "cli"
    BY <1>0, <1>1, <1>8, <2>1 DEF Reload, AfterReload
  <2>2. CASE t # "cli"
    BY <1>0, <1>2, <1>8, <2>2 DEF Reload, AfterReload, Stopping
  <2>3. QED
    BY <2>1, <2>2
<1>9. CASE Sigterm
  <2>1. ASSUME NEW n \in Names \ Numbered, pc["cli"] \in {"replace", "remember"}
        PROVE  /\ n \in DOMAIN nextRules' <=> n \in DOMAIN WithAnswer(RULES)'
               /\ n \in DOMAIN nextRules' => nextRules'[n] = WithAnswer(RULES)'[n]
    <3>1. /\ n \in DOMAIN nextRules <=> n \in DOMAIN WithAnswer(RULES)
          /\ n \in DOMAIN nextRules => nextRules[n] = WithAnswer(RULES)[n]
      BY <2>1 DEF CopyInv
    <3>2. /\ n \in DOMAIN RULES' <=> n \in DOMAIN RULES
          /\ n \in DOMAIN RULES => RULES'[n] = RULES[n]
          /\ UNCHANGED << nextRules, prompt, answer >>
      BY <1>9 DEF Sigterm, Drop
    <3>3. /\ n \in DOMAIN WithAnswer(RULES)' <=> n \in DOMAIN WithAnswer(RULES)
          /\ n \in DOMAIN WithAnswer(RULES) => WithAnswer(RULES)'[n] = WithAnswer(RULES)[n]
      BY <3>2 DEF WithAnswer, Put, ListAt
    <3>4. QED
      BY <3>1, <3>2, <3>3
  <2>2. Stopping' /\ pc'["cli"] = pc["cli"]
    BY <1>0, <1>9 DEF Sigterm, Stopping
  <2>3. QED
    BY <2>1, <2>2 DEF CopyInv, WithAnswer
<1>10. CASE \/ TakePrompt \/ CheckPrompt \/ ShowPrompt \/ KeepPrompt \/ Decide \/ IgnoreAnswer
            \/ RememberRule
  <2>1. pc'["cli"] \notin {"replace", "remember"}
    BY <1>0, <1>10 DEF TakePrompt, CheckPrompt, ShowPrompt, KeepPrompt, Decide, IgnoreAnswer,
                       RememberRule, DiscardPrompt, BackToAccept
  <2>2. QED
    BY <1>1, <2>1
<1>11. CASE ClaimAnswer
  <2>1. CASE Current(prompt)
    <3>1. UNCHANGED << RULES, prompt, answer >> /\ nextRules' = WithAnswer(RULES)
      BY <1>11, <2>1 DEF ClaimAnswer
    <3>2. WithAnswer(RULES)' = WithAnswer(RULES)
      BY <3>1 DEF WithAnswer
    <3>3. QED
      BY <3>1, <3>2 DEF CopyInv, WithAnswer
  <2>2. CASE ~ Current(prompt)
    BY <1>0, <1>1, <1>11, <2>2 DEF ClaimAnswer
  <2>3. QED
    BY <2>1, <2>2
<1>12. CASE ReplaceFile
  <2>1. /\ UNCHANGED << RULES, prompt, answer, nextRules >> /\ pc["cli"] = "replace"
        /\ pc'["main"] = pc["main"]
    BY <1>0, <1>12 DEF ReplaceFile
  <2>2. WithAnswer(RULES)' = WithAnswer(RULES)
    BY <2>1 DEF WithAnswer
  <2>3. QED
    BY <2>1, <2>2 DEF CopyInv, WithAnswer, Stopping
<1>13. QED
  BY <1>3, <1>4, <1>5, <1>6, <1>7, <1>8, <1>9, <1>10, <1>11, <1>12, NextCases

-------------------------------------------------------------------------------
(* The inductive invariant and what it implies *)

LEMMA PolicyStep ==
  ASSUME IInv, [Next]_vars
  PROVE  PolicyInv'
<1>1. CASE Exit
  BY <1>1, ExitPolicy
<1>2. CASE Start \/ StopPost \/ Sigterm
  BY <1>2, LifecyclePolicy
<1>3. CASE LoadPolicy
  BY <1>3, LoadPolicyPolicy
<1>4. CASE \E t \in {"main", "watcher"} : Publish(t)
  BY <1>4, PublishPolicy
<1>5. CASE StartupReload \/ \E t \in Threads : Reload(t)
  BY <1>5, ReloadPolicy
<1>6. CASE \/ Dom0
           \/ \E t \in {"main", "watcher"} : QueryDom0(t) \/ PublishNothing(t)
           \/ WatchRegister \/ ReadWatch
           \/ \E src \in IPs, asks \in Packets : Receive(src, asks)
           \/ KnownCheck \/ Recheck \/ Attribute \/ RefuseMalformed \/ Match \/ AskVanished
  BY <1>6, QuietMainPolicy
<1>7. CASE Bind \/ AskAnswered
  BY <1>7, AttributedPolicy
<1>8. CASE Ask
  BY <1>8, AskPolicy
<1>9. CASE TakePrompt \/ CheckPrompt \/ ShowPrompt \/ KeepPrompt \/ Decide \/ IgnoreAnswer
  BY <1>9, PromptPolicy
<1>10. CASE ClaimAnswer
  BY <1>10, ClaimPolicy
<1>11. CASE ReplaceFile
  BY <1>11, ReplacePolicy
<1>12. CASE RememberRule
  BY <1>12, RememberPolicy
<1>13. CASE UNCHANGED vars
  <2>1. PolicyInv /\ UNCHANGED PolicyDefs /\ UNCHANGED << prompt, answer, pc >>
    BY <1>13 DEF vars, IInv, PolicyDefs
  <2>2. QED
    BY <2>1, QuietStep DEF Stopping, Unloaded
<1>14. QED
  BY <1>1, <1>2, <1>3, <1>4, <1>5, <1>6, <1>7, <1>8, <1>9, <1>10, <1>11, <1>12, <1>13, NextCases

(* IInv is inductive.  The safety theorems below are consequences of it.   *)
THEOREM Inductive == Spec => []IInv
<1>1. Init => IInv
  <2>1. Init => CopyInv
    BY DEF Init, CopyInv, Threads
  <2>2. QED
    BY <2>1, InitTyped, ControlInit, PolicyInit DEF IInv
<1>2. IInv /\ [Next]_vars => IInv'
  BY NextTyped, ControlStep, CopyStep, PolicyStep DEF IInv, TypeInv
<1>3. QED
  BY <1>1, <1>2, PTL DEF Spec

(* Every bucket and every prompt of a numbered DispVM name belongs to the  *)
(* current publication of that name: what was decided for an earlier       *)
(* disposable, or is still asked about one, never carries over.            *)
THEOREM NumberedPolicyCurrent == Spec => []NumberedPolicyIsCurrent
<1>1. IInv => NumberedPolicyIsCurrent
  BY DEF IInv, PolicyInv, EpochInv, NumberedPolicyIsCurrent, Serving, Stopping
<1>2. QED
  BY <1>1, Inductive, PTL

(* A numbered name that is not published has no bucket, no file and no     *)
(* question: the cleanup misses nothing, in whatever order it meets the    *)
(* other two threads.                                                      *)
THEOREM VanishedNames == Spec => []VanishedLeavesNothing
<1>1. ASSUME IInv, Serving, NEW n \in Numbered \ NamesOf(SOURCES)
      PROVE  n \notin DOMAIN RULES /\ n \notin DOMAIN files
             /\ \A q \in pending : q.source # n
  <2>1. BucketInv /\ ~ Stopping /\ ~ Unloaded
    BY <1>1 DEF IInv, PolicyInv, ControlInv, PhaseInv, Serving, Stopping, Unloaded
  <2>2. QED
    BY <1>1, <2>1 DEF BucketInv
<1>2. IInv => VanishedLeavesNothing
  BY <1>1 DEF VanishedLeavesNothing
<1>3. QED
  BY <1>2, Inductive, PTL

(* No question waits that the rules already answer: a decision that lands  *)
(* while the packet is on its way to the queue, or that covers other       *)
(* questions than the one shown, leaves none behind.                       *)
THEOREM NoAnsweredQuestion == Spec => []NoAnsweredQuestionPending
<1>1. ASSUME IInv, Serving, NEW q \in pending
      PROVE  MatchingAction(RULES, q.source, q.target) = "none"
  BY <1>1 DEF IInv, PolicyInv, UnansweredInv, Serving, Stopping, MatchingAction
<1>2. IInv => NoAnsweredQuestionPending
  BY <1>1 DEF NoAnsweredQuestionPending
<1>3. QED
  BY <1>2, Inductive, PTL

(* Whenever POLICY_LOCK is free the live nft table is the rendering of the *)
(* rules and sources in memory, and that rendering is defined.             *)
THEOREM KernelEnforces == Spec => []KernelRunsThePolicy
<1>1. IInv => KernelRunsThePolicy
  BY DEF IInv, PolicyInv, BucketInv, KernelInv, KernelRunsThePolicy, Serving, Stopping, Renderable
<1>2. QED
  BY <1>1, Inductive, PTL
===============================================================================
