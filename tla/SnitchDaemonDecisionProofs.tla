----------------------- MODULE SnitchDaemonDecisionProofs -----------------------
(***************************************************************************)
(* What becomes of questions and decisions: the queue's bound; what the    *)
(* rule files have to do with memory, whose YAML form they are at every    *)
(* point of a save, so a crash loses no rule in force and no decision ever *)
(* changes; what an accepted packet was allowed by, whose questions are    *)
(* matched one after the other, while its source may vanish, come back or  *)
(* be answered; and what a question leaves the queue for.                  *)
(***************************************************************************)
EXTENDS SnitchDaemonProofs

-------------------------------------------------------------------------------
(* The queue *)

QueueInv == IsFiniteSet(pending) /\ Cardinality(pending) <= QueueSize

\* Only a packet's question enters the queue, and only while there is room.
LEMMA PendingStep ==
  ASSUME [Next]_vars
  PROVE  \/ pending' \subseteq pending
         \/ pending' = pending \cup {NewQuestion} /\ ~ QueueFull
<1> USE DEF dom0Vars, memoryVars, queueVars, packetVars, cliVars
<1>1. CASE Exit \/ UNCHANGED vars
  BY <1>1 DEF Exit, vars
<1>2. CASE Dom0 \/ Start \/ StopPost \/ Sigterm \/ LoadPolicy
  BY <1>2 DEF Dom0, VmAppears, VmGone, Dom0Sets, Start, StopPost, Sigterm, LoadPolicy
<1>3. CASE \/ \E t \in {"main", "watcher"} : QueryDom0(t) \/ PublishNothing(t)
           \/ WatchRegister \/ ReadWatch \/ StartupReload
           \/ \E t \in Threads : Reload(t)
  BY <1>3 DEF QueryDom0, PublishNothing, WatchRegister, ReadWatch, StartupReload, Reload
<1>4. CASE \E t \in {"main", "watcher"} : Publish(t)
  BY <1>4 DEF Publish, WithoutSources
<1>5. CASE \/ \E src \in IPs, asks \in Packets : Receive(src, asks)
           \/ KnownCheck \/ Recheck \/ Attribute \/ Bind
           \/ RefuseMalformed \/ Match \/ AskVanished \/ AskAnswered
  BY <1>5 DEF Receive, KnownCheck, Recheck, Attribute, Bind, RefuseMalformed, Match,
              AskVanished, AskAnswered
<1>6. CASE Ask
  BY <1>6 DEF Ask
<1>7. CASE TakePrompt \/ CheckPrompt \/ ShowPrompt \/ KeepPrompt \/ Decide \/ IgnoreAnswer
  BY <1>7 DEF TakePrompt, CheckPrompt, ShowPrompt, KeepPrompt, Decide, IgnoreAnswer,
              DiscardPrompt, Discarded
<1>8. CASE ClaimAnswer \/ ReplaceFile \/ RememberRule
  BY <1>8 DEF ClaimAnswer, ReplaceFile, RememberRule
<1>9. QED
  BY <1>1, <1>2, <1>3, <1>4, <1>5, <1>6, <1>7, <1>8, NextCases

(* The queue never outgrows pending_queue_size: whatever the other threads *)
(* took out meanwhile, a question enters only while there is room.         *)
THEOREM QueueBounded == Spec => []QueueIsBounded
<1>1. Init => QueueInv
  BY FS_EmptySet, BoundsAssumption DEF Init, QueueInv
<1>2. ASSUME QueueInv, [Next]_vars
      PROVE  QueueInv'
  <2>1. Cardinality(pending) \in Nat
    BY <1>2, FS_CardinalityType DEF QueueInv
  <2>2. CASE pending' \subseteq pending
    <3>1. IsFiniteSet(pending') /\ Cardinality(pending') <= Cardinality(pending)
      BY <1>2, <2>2, FS_Subset DEF QueueInv
    <3>2. Cardinality(pending') \in Nat
      BY <3>1, FS_CardinalityType
    <3>3. QED
      BY <1>2, <2>1, <3>1, <3>2, BoundsAssumption DEF QueueInv
  <2>3. CASE pending' = pending \cup {NewQuestion} /\ ~ QueueFull
    <3> DEFINE new == NewQuestion
    <3> HIDE DEF new
    <3>1. pending' = pending \cup {new}
      BY <2>3 DEF new
    <3>2. /\ IsFiniteSet(pending \cup {new})
          /\ Cardinality(pending \cup {new})
               = IF new \in pending THEN Cardinality(pending) ELSE Cardinality(pending) + 1
      BY <1>2, FS_AddElement DEF QueueInv
    <3>3. QED
      BY <1>2, <2>1, <2>3, <3>1, <3>2, BoundsAssumption DEF QueueInv, QueueFull
  <2>4. QED
    BY <1>2, <2>2, <2>3, PendingStep
<1>3. QueueInv => QueueIsBounded
  BY DEF QueueInv, QueueIsBounded
<1>4. QED
  BY <1>1, <1>2, <1>3, PTL DEF Spec

-------------------------------------------------------------------------------
(* Files and memory *)

YamlOf(s) == [i \in DOMAIN s |-> Yaml(s[i])]

\* The rules of a name as they are in memory, or about to be.
InMemory(n) ==
    IF pc["cli"] = "remember" /\ prompt.source = n
    THEN Append(ListAt(RULES, n), answer)
    ELSE ListAt(RULES, n)

\* The stop handler removes numbered rules in the middle of whatever goes on.
Abandoned(n) == n \in Numbered /\ Stopping

\* Files hold the YAML form, in which a host name covers nothing by itself.
FilesInv == \A n \in Names : YamlOf(ListAt(files, n)) = ListAt(files, n)

\* What append_rule is about to put in place is the file with one rule more.
DraftInv == pc["cli"] = "replace" =>
    /\ YamlOf(draft) = draft
    /\ ~ Abandoned(prompt.source) => draft = NewData

\* Between the load of the policy and the end of the process.
DiskInv == pc["cli"] # "off" =>
    \A n \in Names : ~ Abandoned(n) => ListAt(files, n) = YamlOf(InMemory(n))

\* There is no rule in memory before the load.
LoadedInv == pc["cli"] = "off" =>
    /\ DOMAIN RULES = {}
    /\ pc["main"] \in {"off", "load", "stopping"}
    /\ pc["watcher"] = "off"

DurableInv == FilesInv /\ DraftInv /\ DiskInv /\ LoadedInv

\* The YAML form, rule by rule.
LEMMA YamlTyped ==
  ASSUME NEW s \in Seq(Rule)
  PROVE  YamlOf(s) \in Seq(Rule) /\ DOMAIN YamlOf(s) = DOMAIN s /\ Len(YamlOf(s)) = Len(s)
<1>1. DOMAIN s = 1 .. Len(s) /\ Len(s) \in Nat /\ \A i \in DOMAIN s : s[i] \in Rule
  BY LenProperties
<1>2. \A i \in DOMAIN s : Yaml(s[i]) \in Rule
  BY <1>1, RuleForms
<1>3. YamlOf(s) \in [1 .. Len(s) -> Rule]
  BY <1>1, <1>2 DEF YamlOf
<1>4. YamlOf(s) \in Seq(Rule)
  BY <1>1, <1>3, SeqDef
<1>5. QED
  BY <1>1, <1>3, <1>4, LenProperties

LEMMA YamlTwice ==
  ASSUME NEW rule \in Rule
  PROVE  /\ Yaml(Yaml(rule)) = Yaml(rule)
         /\ \A resolved : Yaml(Runtime(rule, resolved)) = Yaml(rule)
BY DEF Yaml, Runtime, Rule

\* The YAML form of a longer list is that of the list with one rule more.
LEMMA YamlAppend ==
  ASSUME NEW s \in Seq(Rule), NEW rule \in Rule
  PROVE  YamlOf(Append(s, rule)) = Append(YamlOf(s), Yaml(rule))
<1> DEFINE long == Append(s, rule)
           yaml == Append(YamlOf(s), Yaml(rule))
<1>1. /\ Len(s) \in Nat /\ DOMAIN s = 1 .. Len(s)
      /\ long \in Seq(Rule) /\ DOMAIN long = 1 .. Len(s) + 1
      /\ \A i \in 1 .. Len(s) : long[i] = s[i]
      /\ long[Len(s) + 1] = rule
  BY LenProperties, AppendProperties
<1>2. YamlOf(s) \in Seq(Rule) /\ Len(YamlOf(s)) = Len(s) /\ Yaml(rule) \in Rule
      /\ \A i \in 1 .. Len(s) : YamlOf(s)[i] = Yaml(s[i])
  BY <1>1, YamlTyped, RuleForms DEF YamlOf
<1>3. /\ yaml \in Seq(Rule) /\ DOMAIN yaml = 1 .. Len(s) + 1
      /\ \A i \in 1 .. Len(s) : yaml[i] = YamlOf(s)[i]
      /\ yaml[Len(s) + 1] = Yaml(rule)
  BY <1>1, <1>2, LenProperties, AppendProperties
<1>4. YamlOf(long) \in Seq(Rule) /\ DOMAIN YamlOf(long) = DOMAIN long
      /\ \A i \in DOMAIN long : YamlOf(long)[i] = Yaml(long[i])
  BY <1>1, YamlTyped DEF YamlOf
<1> HIDE DEF long, yaml
<1>5. \A i \in 1 .. Len(s) + 1 : YamlOf(long)[i] = yaml[i]
  BY <1>1, <1>2, <1>3, <1>4
<1>6. YamlOf(long) = yaml
  <2>1. YamlOf(long) \in [1 .. Len(s) + 1 -> Rule] /\ yaml \in [1 .. Len(s) + 1 -> Rule]
    BY <1>1, <1>3, <1>4, LenProperties
  <2>2. QED
    BY <1>5, <2>1
<1>7. QED
  BY <1>6 DEF long, yaml

\* An empty list has an empty YAML form.
LEMMA YamlEmpty == YamlOf(<< >>) = << >>
BY EmptySeq DEF YamlOf

\* A step that touches no rules, and the cli thread only outside a save.
LEMMA DiskFrame ==
  ASSUME DurableInv, UNCHANGED << RULES, files >>, Stopping => Stopping',
         \/ pc'["cli"] = pc["cli"] /\ UNCHANGED << prompt, answer, draft >>
         \/ pc["cli"] \notin {"off", "remember"} /\ pc'["cli"] \notin {"off", "replace", "remember"},
         pc'["cli"] = "off" => /\ pc'["main"] \in {"off", "load", "stopping"}
                               /\ pc'["watcher"] = "off"
  PROVE  DurableInv'
<1>1. FilesInv' /\ LoadedInv'
  BY DEF DurableInv, FilesInv, LoadedInv
<1>2. DraftInv'
  BY DEF DurableInv, DraftInv, NewData, Abandoned
<1>3. DiskInv'
  BY DEF DurableInv, DiskInv, InMemory, Abandoned
<1>4. QED
  BY <1>1, <1>2, <1>3 DEF DurableInv

\* The process ends: what remains is files, maybe without the numbered ones.
LEMMA ExitDurable ==
  ASSUME IInv, DurableInv, Exit, files' \in {files, CleanedFiles(files)}
  PROVE  DurableInv'
<1>1. pc'["cli"] = "off" /\ pc'["main"] = "off" /\ pc'["watcher"] = "off" /\ RULES' = Nowhere
  BY DEF Exit, Threads
<1>2. \A n \in Names : ListAt(files', n) \in {ListAt(files, n), << >>}
  BY DEF CleanedFiles, Drop, ListAt
<1>3. FilesInv'
  BY <1>2, YamlEmpty DEF DurableInv, FilesInv
<1>4. QED
  BY <1>1, <1>3, NowhereTyped DEF DurableInv, DraftInv, DiskInv, LoadedInv

LEMMA SigtermDurable ==
  ASSUME IInv, DurableInv, Sigterm
  PROVE  DurableInv'
<1> USE DEF dom0Vars, memoryVars, queueVars, packetVars, cliVars, Goto, Threads
<1>0. DOMAIN pc = Threads /\ IsRuleDict(RULES) /\ IsRuleDict(files)
  BY DEF IInv, TypeInv, TypeOK
<1>1. /\ pc' = [pc EXCEPT !["main"] = "stopping"] /\ UNCHANGED << prompt, answer, draft >>
      /\ files' = Drop(files, Numbered) /\ RULES' = Drop(RULES, Numbered \cap DOMAIN files)
  BY DEF Sigterm
<1>2. pc'["cli"] = pc["cli"] /\ pc'["watcher"] = pc["watcher"] /\ pc'["main"] = "stopping"
      /\ Stopping'
  BY <1>0, <1>1 DEF Stopping
<1>3. \A n \in Names : /\ n \notin Numbered => ListAt(files', n) = ListAt(files, n)
                                               /\ ListAt(RULES', n) = ListAt(RULES, n)
                       /\ n \in Numbered => ListAt(files', n) = << >>
  BY <1>1 DEF Drop, ListAt
<1>4. FilesInv'
  BY <1>3, YamlEmpty DEF DurableInv, FilesInv
<1>5. DraftInv'
  <2>1. pc["cli"] = "replace" => prompt.source \in Names
    BY DEF IInv, TypeInv, WorkInv, Question
  <2>2. QED
    BY <1>1, <1>2, <1>3, <2>1 DEF DurableInv, DraftInv, NewData, Abandoned
<1>6. DiskInv'
  BY <1>1, <1>2, <1>3 DEF DurableInv, DiskInv, InMemory, Abandoned
<1>7. LoadedInv'
  BY <1>0, <1>1, <1>2 DEF DurableInv, LoadedInv, Drop
<1>8. QED
  BY <1>4, <1>5, <1>6, <1>7 DEF DurableInv

\* Loading gives every rule of every file its runtime form.
LEMMA LoadDurable ==
  ASSUME IInv, DurableInv, LoadPolicy
  PROVE  DurableInv'
<1> USE DEF dom0Vars, memoryVars, queueVars, packetVars, cliVars, Goto, Threads
<1>0. DOMAIN pc = Threads /\ IsRuleDict(files)
  BY DEF IInv, TypeInv, TypeOK
<1>1. pc'["cli"] = "accept"
  BY <1>0 DEF LoadPolicy
<1>2. IsRuleDict(files') /\ files' = Drop(files, Numbered)
  BY <1>0, DropRules DEF LoadPolicy, CleanedFiles
<1>3. \A n \in Names : ListAt(files', n) \in {ListAt(files, n), << >>}
  BY <1>2 DEF Drop, ListAt
<1>4. FilesInv'
  BY <1>3, YamlEmpty DEF DurableInv, FilesInv
<1>5. PICK resolved \in [Hosts -> HostSets] :
        RULES' = [n \in DOMAIN files' |->
                    [i \in DOMAIN files'[n] |-> Runtime(files'[n][i], resolved)]]
  BY DEF LoadPolicy
<1>6. ASSUME NEW n \in Names
      PROVE  ListAt(files', n) = YamlOf(ListAt(RULES', n))
  <2>1. CASE n \notin DOMAIN files'
    BY <1>5, <2>1, YamlEmpty DEF ListAt
  <2>2. CASE n \in DOMAIN files'
    <3> DEFINE s == files'[n]
    <3>1. s \in Seq(Rule) /\ YamlOf(s) = s
      BY <1>2, <1>4, <2>2 DEF IsRuleDict, FilesInv, ListAt
    <3>2. ListAt(RULES', n) = [i \in DOMAIN s |-> Runtime(s[i], resolved)] /\ ListAt(files', n) = s
      BY <1>5, <2>2 DEF ListAt
    <3> HIDE DEF s
    <3>3. \A i \in DOMAIN s : s[i] \in Rule
      BY <3>1, LenProperties
    <3>4. YamlOf(ListAt(RULES', n)) = [i \in DOMAIN s |-> Yaml(s[i])]
      BY <3>2, <3>3, YamlTwice DEF YamlOf
    <3>5. QED
      BY <3>1, <3>2, <3>4 DEF YamlOf
  <2>3. QED
    BY <2>1, <2>2
<1>7. QED
  BY <1>1, <1>4, <1>6 DEF DurableInv, DraftInv, DiskInv, LoadedInv, InMemory

\* A refresh takes both away, or gives a bucket where there is no file.
LEMMA PublishDurable ==
  ASSUME IInv, DurableInv, NEW t \in {"main", "watcher"}, Publish(t)
  PROVE  DurableInv'
<1> DEFINE new  == snap[t]
           gone == Reused(new) \cup Vanished(new)
<1>0. DOMAIN pc = Threads /\ IsRuleDict(RULES) /\ IsRuleDict(files) /\ gone \subseteq Numbered
  BY DEF IInv, TypeInv, TypeOK, Reused, Vanished
<1>1. /\ files' = Drop(files, gone)
      /\ RULES' = WithBuckets(Drop(RULES, gone), files', NamesOf(new))
      /\ pc' = [pc EXCEPT ![t] = "reload"]
      /\ lock = "free" /\ UNCHANGED << prompt, answer, draft >>
  BY DEF Publish, Goto, cliVars
<1>2. pc'["cli"] = pc["cli"] /\ pc["cli"] \notin {"off", "replace", "remember"}
      /\ (Stopping' <=> Stopping)
  BY <1>0, <1>1 DEF Publish, IInv, ControlInv, LockInv, PhaseInv, DurableInv, LoadedInv, Threads,
                    Stopping
<1> HIDE DEF new, gone
<1>3. \A n \in Names : ListAt(files', n) = IF n \in gone THEN << >> ELSE ListAt(files, n)
  BY <1>1 DEF Drop, ListAt
<1>4. FilesInv'
  BY <1>3, YamlEmpty DEF DurableInv, FilesInv
<1>5. ASSUME NEW n \in Names, ~ Abandoned(n)'
      PROVE  ListAt(files', n) = YamlOf(ListAt(RULES', n))
  <2>1. ListAt(files, n) = YamlOf(ListAt(RULES, n))
    BY <1>2, <1>5 DEF DurableInv, DiskInv, InMemory, Abandoned
  <2>2. CASE n \in gone
    BY <1>1, <1>3, <2>2, YamlEmpty DEF ListAt, WithBuckets, Drop
  <2>3. CASE n \notin gone /\ n \in DOMAIN RULES
    <3>1. ListAt(RULES', n) = RULES[n]
      BY <1>1, <2>3 DEF ListAt, WithBuckets, Drop
    <3>2. QED
      BY <1>3, <2>1, <2>3, <3>1 DEF ListAt
  <2>4. CASE n \notin gone /\ n \notin DOMAIN RULES
    <3>1. ListAt(files', n) = << >>
      BY <1>3, <2>1, <2>4, YamlEmpty DEF ListAt
    <3>2. ListAt(RULES', n) = << >>
      BY <1>1, <2>4, <3>1 DEF ListAt, WithBuckets, Drop
    <3>3. QED
      BY <3>1, <3>2, YamlEmpty
  <2>5. QED
    BY <2>2, <2>3, <2>4
<1>6. QED
  BY <1>2, <1>4, <1>5 DEF DurableInv, DraftInv, DiskInv, LoadedInv, InMemory

\* append_rule's data is the file and the new rule, both in their YAML form.
LEMMA ClaimDurable ==
  ASSUME IInv, DurableInv, ClaimAnswer
  PROVE  DurableInv'
<1> USE DEF dom0Vars, memoryVars, queueVars, packetVars, cliVars, Goto, Threads
<1>0. DOMAIN pc = Threads /\ IsRuleDict(files) /\ pc["cli"] = "save"
      /\ answer \in Rule /\ prompt.source \in Names
  BY DEF IInv, TypeInv, TypeOK, WorkInv, ClaimAnswer, Question
<1>1. /\ UNCHANGED << RULES, files, prompt, answer >> /\ (Stopping' <=> Stopping)
      /\ pc'["cli"] \in {"replace", "reload"}
      /\ pc'["cli"] = "replace" => draft' = NewData
  BY <1>0 DEF ClaimAnswer, Stopping
<1>2. YamlOf(NewData) = NewData
  <2> DEFINE s == ListAt(files, prompt.source)
             last == Yaml(answer)
  <2>1. s \in Seq(Rule) /\ last \in Rule
    BY <1>0, ListAtTyped, RuleForms
  <2>2. YamlOf(s) = s /\ Yaml(last) = last
    BY <1>0, YamlTwice DEF DurableInv, FilesInv
  <2> HIDE DEF s, last
  <2>3. YamlOf(Append(s, last)) = Append(s, last)
    BY <2>1, <2>2, YamlAppend
  <2>4. QED
    BY <2>3 DEF s, last, NewData
<1>3. FilesInv' /\ LoadedInv' /\ DiskInv'
  BY <1>0, <1>1 DEF DurableInv, FilesInv, LoadedInv, DiskInv, InMemory, Abandoned
<1>4. DraftInv'
  BY <1>1, <1>2 DEF DraftInv, NewData
<1>5. QED
  BY <1>3, <1>4 DEF DurableInv

\* os.replace puts the file one rule ahead of memory.
LEMMA ReplaceDurable ==
  ASSUME IInv, DurableInv, ReplaceFile
  PROVE  DurableInv'
<1> USE DEF dom0Vars, memoryVars, queueVars, packetVars, cliVars, Goto, Threads
<1> DEFINE n == prompt.source
<1>0. DOMAIN pc = Threads /\ IsRuleDict(RULES) /\ pc["cli"] = "replace"
      /\ answer \in Rule /\ n \in Names
  BY DEF IInv, TypeInv, TypeOK, WorkInv, ReplaceFile, Question
<1>1. /\ UNCHANGED << RULES, prompt, answer >> /\ pc'["cli"] = "remember"
      /\ (Stopping' <=> Stopping) /\ files' = Put(files, n, draft)
  BY <1>0 DEF ReplaceFile, Stopping
<1>2. \A m \in Names : ListAt(files', m) = IF m = n THEN draft ELSE ListAt(files, m)
  BY <1>1 DEF Put, ListAt
<1>3. FilesInv'
  BY <1>0, <1>2 DEF DurableInv, FilesInv, DraftInv
<1>4. ASSUME NEW m \in Names, ~ Abandoned(m)'
      PROVE  ListAt(files', m) = YamlOf(InMemory(m)')
  <2>1. ListAt(files, m) = YamlOf(ListAt(RULES, m)) /\ ~ Abandoned(m)
    BY <1>0, <1>1, <1>4 DEF DurableInv, DiskInv, InMemory, Abandoned
  <2>2. CASE m # n
    BY <1>1, <1>2, <2>1, <2>2 DEF InMemory
  <2>3. CASE m = n
    <3>1. ListAt(files', n) = Append(YamlOf(ListAt(RULES, n)), Yaml(answer))
      BY <1>0, <1>2, <2>1, <2>3 DEF DurableInv, DraftInv, NewData
    <3>2. ListAt(RULES, n) \in Seq(Rule)
      BY <1>0, ListAtTyped
    <3>3. ListAt(files', n) = YamlOf(Append(ListAt(RULES, n), answer))
      BY <1>0, <3>1, <3>2, YamlAppend
    <3>4. QED
      BY <1>1, <2>3, <3>3 DEF InMemory
  <2>4. QED
    BY <2>2, <2>3
<1>5. QED
  BY <1>1, <1>3, <1>4 DEF DurableInv, DraftInv, DiskInv, LoadedInv

\* ctx.RULES catches up.
LEMMA RememberDurable ==
  ASSUME IInv, DurableInv, RememberRule
  PROVE  DurableInv'
<1> USE DEF dom0Vars, memoryVars, queueVars, packetVars, cliVars, Goto, Threads
<1> DEFINE n == prompt.source
<1>0. DOMAIN pc = Threads /\ pc["cli"] = "remember"
  BY DEF IInv, TypeInv, TypeOK, RememberRule
<1>1. /\ UNCHANGED << files, prompt, answer >> /\ pc'["cli"] = "reload"
      /\ (Stopping' <=> Stopping)
      /\ RULES' = nextRules
  BY <1>0 DEF RememberRule, Stopping
<1>2. ASSUME NEW m \in Names, ~ Abandoned(m)
      PROVE  ListAt(RULES', m) = InMemory(m)
  <2>1. ListAt(WithAnswer(RULES), m) = InMemory(m)
    BY <1>0 DEF WithAnswer, Put, ListAt, InMemory
  <2>2. ListAt(nextRules, m) = ListAt(WithAnswer(RULES), m)
    <3>1. CASE ~ Stopping
      BY <1>0, <3>1 DEF IInv, CopyInv
    <3>2. CASE m \notin Numbered
      BY <1>0, <3>2 DEF IInv, CopyInv, ListAt
    <3>3. QED
      BY <1>2, <3>1, <3>2 DEF Abandoned
  <2>3. QED
    BY <1>1, <2>1, <2>2
<1>3. QED
  BY <1>0, <1>1, <1>2 DEF DurableInv, FilesInv, DraftInv, DiskInv, LoadedInv, InMemory, Abandoned

LEMMA DurableStep ==
  ASSUME IInv, DurableInv, [Next]_vars
  PROVE  DurableInv'
<1> USE DEF dom0Vars, memoryVars, queueVars, packetVars, cliVars, Goto, Threads
<1>0. DOMAIN pc = Threads /\ ControlInv /\ LoadedInv
  BY DEF IInv, TypeInv, TypeOK, DurableInv
<1>1. CASE Exit /\ files' \in {files, CleanedFiles(files)}
  BY <1>1, ExitDurable
<1>2. CASE Dom0 \/ Start \/ StopPost
  <2>1. UNCHANGED << RULES, files, prompt, answer, draft >> /\ pc'["cli"] = pc["cli"]
        /\ (pc' = pc \/ (pc["main"] = "off" /\ pc' = [pc EXCEPT !["main"] = "load"]))
    BY <1>0, <1>2 DEF Dom0, VmAppears, VmGone, Dom0Sets, Start, StopPost, ControlInv, PhaseInv
  <2>2. QED
    BY <1>0, <2>1, DiskFrame DEF LoadedInv, Stopping
<1>3. CASE Sigterm
  BY <1>3, SigtermDurable
<1>4. CASE LoadPolicy
  BY <1>4, LoadDurable
<1>5. CASE \E t \in {"main", "watcher"} : Publish(t)
  BY <1>5, PublishDurable
<1>6. CASE \/ \E t \in {"main", "watcher"} : QueryDom0(t) \/ PublishNothing(t)
           \/ WatchRegister \/ ReadWatch \/ StartupReload
  <2>1. /\ UNCHANGED << RULES, files, prompt, answer, draft >> /\ pc'["cli"] = pc["cli"]
        /\ pc["cli"] # "off" /\ (Stopping' <=> Stopping)
    BY <1>0, <1>6 DEF QueryDom0, PublishNothing, AfterRefresh, WatchRegister, ReadWatch,
                      StartupReload, LoadedInv, Stopping
  <2>2. QED
    BY <2>1, DiskFrame
<1>7. CASE \E t \in Threads : Reload(t)
  <2>1. UNCHANGED << RULES, files >> /\ pc["cli"] # "off" /\ (Stopping' <=> Stopping)
    BY <1>0, <1>7 DEF Reload, AfterReload, LoadedInv, Stopping
  <2>2. \/ pc'["cli"] = pc["cli"] /\ UNCHANGED << prompt, answer, draft >>
        \/ pc["cli"] = "reload" /\ pc'["cli"] = "accept"
    BY <1>0, <1>7 DEF Reload, AfterReload
  <2>3. QED
    BY <2>1, <2>2, DiskFrame
<1>8. CASE \/ \E src \in IPs, asks \in Packets : Receive(src, asks)
           \/ KnownCheck \/ Recheck \/ Attribute \/ Bind
           \/ RefuseMalformed \/ Match \/ AskVanished \/ AskAnswered \/ Ask
  <2>1. pc["main"] \in {"recv", "known", "recheck", "attribute", "bind", "match", "ask"}
    BY <1>8 DEF Receive, KnownCheck, Recheck, Attribute, Bind, RefuseMalformed, Match,
                AskVanished, AskAnswered, Ask, Asking
  <2>2. RULES' = RULES
    <3>1. CASE Bind \/ AskAnswered \/ Ask
      BY <2>1, <3>1, EnsureIdle DEF Bind, AskAnswered, Ask, Asking, Current, Stopping
    <3>2. CASE ~ (Bind \/ AskAnswered \/ Ask)
      BY <1>8, <3>2 DEF Receive, KnownCheck, Recheck, Attribute, RefuseMalformed, Match, AskVanished
    <3>3. QED
      BY <3>1, <3>2
  <2>3. UNCHANGED << files, prompt, answer, draft >> /\ pc["cli"] # "off"
    BY <1>0, <1>8, <2>1 DEF Receive, KnownCheck, Recheck, Attribute, Bind, RefuseMalformed, Match,
                AskVanished, AskAnswered, Ask, LoadedInv
  <2>4. \E label \in MainLabels : pc' = [pc EXCEPT !["main"] = label]
    BY <1>8 DEF Receive, KnownCheck, Recheck, Attribute, Bind, RefuseMalformed, Match,
                AskVanished, AskAnswered, Ask, Obey, Verdict, MainLabels
  <2>5. pc'["cli"] = pc["cli"]
    BY <1>0, <2>4
  <2>6. ~ Stopping
    BY <2>1 DEF Stopping
  <2>7. QED
    BY <2>2, <2>3, <2>5, <2>6, DiskFrame
<1>9. CASE TakePrompt \/ CheckPrompt \/ ShowPrompt \/ KeepPrompt \/ Decide \/ IgnoreAnswer
  <2>1. UNCHANGED << RULES, files >> /\ (Stopping' <=> Stopping)
        /\ pc["cli"] \notin {"off", "remember"}
    BY <1>0, <1>9 DEF TakePrompt, CheckPrompt, ShowPrompt, KeepPrompt, Decide, IgnoreAnswer,
                DiscardPrompt, BackToAccept, Stopping
  <2>2. pc'["cli"] \in {"accept", "check", "enriched", "shown", "save"}
    BY <1>0, <1>9 DEF TakePrompt, CheckPrompt, ShowPrompt, KeepPrompt, Decide, IgnoreAnswer,
                DiscardPrompt, BackToAccept
  <2>3. QED
    BY <2>1, <2>2, DiskFrame
<1>10. CASE ClaimAnswer
  BY <1>10, ClaimDurable
<1>11. CASE ReplaceFile
  BY <1>11, ReplaceDurable
<1>12. CASE RememberRule
  BY <1>12, RememberDurable
<1>13. CASE UNCHANGED vars
  <2>1. UNCHANGED << RULES, files, pc, prompt, answer, draft >>
    BY <1>13 DEF vars
  <2>2. QED
    BY <1>0, <2>1, DiskFrame DEF Stopping, LoadedInv
<1>14. QED
  BY <1>1, <1>2, <1>3, <1>4, <1>5, <1>6, <1>7, <1>8, <1>9, <1>10, <1>11, <1>12, <1>13, NextCases

-------------------------------------------------------------------------------
(* What follows *)

LEMMA DurableInductive == Spec => [](IInv /\ DurableInv)
<1>1. Init => DurableInv
  <2> SUFFICES ASSUME Init PROVE DurableInv
    OBVIOUS
  <2>1. files = Nowhere /\ RULES = Nowhere /\ pc = [t \in Threads |-> "off"]
    BY DEF Init
  <2>2. \A n : ListAt(files, n) = << >>
    BY <2>1, NowhereTyped DEF ListAt
  <2>3. QED
    BY <2>1, <2>2, NowhereTyped, YamlEmpty
       DEF DurableInv, FilesInv, DraftInv, DiskInv, LoadedInv, Threads
<1>2. IInv /\ DurableInv /\ [Next]_vars => DurableInv'
  BY DurableStep
<1>3. QED
  BY <1>1, <1>2, Inductive, PTL DEF Spec

(* No rule of a durable source is in force that is not in its file, at the *)
(* same place: not while append_rule works, not after a crash in it.       *)
THEOREM DiskCovers == Spec => []DiskCoversMemory
<1>1. ASSUME IInv, DurableInv, NEW n \in DOMAIN RULES \ Numbered
      PROVE  /\ Len(RULES[n]) <= Len(ListAt(files, n))
             /\ \A i \in DOMAIN RULES[n] : Yaml(RULES[n][i]) = files[n][i]
  <2> DEFINE s == RULES[n]
  <2>1. /\ n \in Names /\ s \in Seq(Rule) /\ ListAt(RULES, n) = s /\ pc["cli"] # "off"
        /\ IsRuleDict(files)
    BY <1>1 DEF IInv, TypeInv, TypeOK, IsRuleDict, DurableInv, LoadedInv, ListAt
  <2>2. ListAt(files, n) = YamlOf(InMemory(n))
    BY <1>1, <2>1 DEF DurableInv, DiskInv, Abandoned
  <2>3. DOMAIN s = 1 .. Len(s) /\ Len(s) \in Nat
    BY <2>1, LenProperties
  <2>4. CASE InMemory(n) = s
    <3>1. DOMAIN YamlOf(s) = DOMAIN s /\ Len(YamlOf(s)) = Len(s)
      BY <2>1, YamlTyped
    <3>2. n \notin DOMAIN files => DOMAIN s = {}
      BY <2>2, <2>4, <3>1, EmptySeq DEF ListAt
    <3>3. QED
      BY <2>2, <2>3, <2>4, <3>1, <3>2 DEF YamlOf, ListAt
  <2>5. CASE InMemory(n) # s
    <3>1. InMemory(n) = Append(s, answer) /\ answer \in Rule
      BY <1>1, <2>1, <2>5 DEF InMemory, IInv, TypeInv, WorkInv
    <3> DEFINE long == Append(s, answer)
    <3>2. /\ long \in Seq(Rule) /\ DOMAIN long = 1 .. Len(s) + 1 /\ Len(long) = Len(s) + 1
          /\ \A i \in 1 .. Len(s) : long[i] = s[i]
      BY <2>1, <2>3, <3>1, AppendProperties, LenProperties
    <3>3. ListAt(files, n) = YamlOf(long)
      BY <2>2, <3>1
    <3> HIDE DEF long, s
    <3>4. /\ DOMAIN YamlOf(long) = 1 .. Len(s) + 1 /\ Len(YamlOf(long)) = Len(s) + 1
          /\ \A i \in 1 .. Len(s) : YamlOf(long)[i] = Yaml(s[i])
      BY <2>3, <3>2, YamlTyped DEF YamlOf
    <3>5. n \in DOMAIN files
      BY <2>3, <3>3, <3>4, EmptySeq DEF ListAt
    <3>6. QED
      BY <2>3, <3>3, <3>4, <3>5 DEF ListAt, s
  <2>6. QED
    BY <2>4, <2>5
<1>2. IInv /\ DurableInv => DiskCoversMemory
  BY <1>1 DEF DiskCoversMemory
<1>3. QED
  BY <1>2, DurableInductive, PTL

\* A rule that is appended decides only what no earlier rule decided.
LEMMA AppendedDecision ==
  ASSUME NEW s \in Seq(Rule), NEW rule \in Rule, NEW target
  PROVE  /\ Matches(s, target) =>
              /\ Matches(Append(s, rule), target)
              /\ Append(s, rule)[FirstMatch(Append(s, rule), target)] = s[FirstMatch(s, target)]
         /\ ~ Matches(s, target) /\ target \in rule.covers =>
              /\ Matches(Append(s, rule), target)
              /\ Append(s, rule)[FirstMatch(Append(s, rule), target)] = rule
         /\ ~ Matches(s, target) /\ target \notin rule.covers => ~ Matches(Append(s, rule), target)
<1> DEFINE all == Append(s, rule)
           n == Len(s)
<1>1. /\ n \in Nat /\ DOMAIN s = 1 .. n /\ all \in Seq(Rule) /\ DOMAIN all = 1 .. n + 1
      /\ \A i \in 1 .. n : all[i] = s[i]
      /\ all[n + 1] = rule
  BY LenProperties, AppendProperties
<1>2. Matches(all, target) <=> Matches(s, target) \/ target \in rule.covers
  BY AppendedRule
<1> HIDE DEF all, n
<1>3. ASSUME Matches(s, target)
      PROVE  all[FirstMatch(all, target)] = s[FirstMatch(s, target)]
  <2> DEFINE i == FirstMatch(s, target)
             j == FirstMatch(all, target)
  <2>1. i \in 1 .. n /\ target \in s[i].covers /\ \A k \in 1 .. n : k < i => target \notin s[k].covers
    BY <1>1, <1>3, FirstMatchMatches DEF RuleMatches
  <2>2. /\ j \in 1 .. n + 1 /\ target \in all[j].covers
        /\ \A k \in 1 .. n + 1 : k < j => target \notin all[k].covers
    BY <1>1, <1>2, <1>3, FirstMatchMatches DEF RuleMatches
  <2> HIDE DEF i, j
  <2>3. i = j
    BY <1>1, <2>1, <2>2
  <2>4. QED
    BY <1>1, <2>1, <2>3 DEF i, j
<1>4. ASSUME ~ Matches(s, target), target \in rule.covers
      PROVE  all[FirstMatch(all, target)] = rule
  <2> DEFINE j == FirstMatch(all, target)
  <2>1. j \in 1 .. n + 1 /\ target \in all[j].covers
    BY <1>1, <1>2, <1>4, FirstMatchMatches DEF RuleMatches
  <2>2. \A k \in 1 .. n : target \notin s[k].covers
    BY <1>1, <1>4 DEF Matches, RuleMatches
  <2> HIDE DEF j
  <2>3. j = n + 1
    BY <1>1, <2>1, <2>2
  <2>4. QED
    BY <1>1, <2>3 DEF j
<1>5. QED
  BY <1>2, <1>3, <1>4 DEF all

\* The decision of a source, read off its list.
LEMMA ListDecides ==
  ASSUME NEW dict, NEW n, NEW t
  PROVE  MatchingAction(dict, n, t) =
           LET s == ListAt(dict, n)
           IN  IF Matches(s, t) THEN s[FirstMatch(s, t)].action ELSE "none"
<1>1. ~ Matches(<< >>, t)
  BY EmptySeq DEF Matches
<1>2. QED
  BY <1>1 DEF MatchingAction, ListAt

\* The files of durable names only grow, by one rule at a time.
LEMMA FilesStep ==
  ASSUME IInv, DurableInv, [Next]_vars, NEW n \in Names \ Numbered
  PROVE  \/ ListAt(files', n) = ListAt(files, n)
         \/ /\ ReplaceFile /\ n = prompt.source
            /\ answer \in Rule /\ ListAt(files', n) = Append(ListAt(files, n), Yaml(answer))
<1> USE DEF dom0Vars, memoryVars, queueVars, packetVars, cliVars
<1>1. CASE files' = files
  BY <1>1
<1>2. CASE files' = Drop(files, Numbered)
  BY <1>2 DEF Drop, ListAt
<1>3. CASE \E t \in {"main", "watcher"} : Publish(t)
  <2>1. PICK gone \in SUBSET Numbered : files' = Drop(files, gone)
    BY <1>3 DEF Publish, Reused, Vanished
  <2>2. QED
    BY <2>1 DEF Drop, ListAt
<1>4. CASE ReplaceFile
  <2>1. answer \in Rule /\ pc["cli"] = "replace" /\ files' = Put(files, prompt.source, draft)
    BY <1>4 DEF ReplaceFile, IInv, TypeInv, WorkInv
  <2>2. CASE n = prompt.source
    <3>1. draft = Append(ListAt(files, n), Yaml(answer))
      BY <2>1, <2>2 DEF DurableInv, DraftInv, Abandoned, NewData
    <3>2. ListAt(files', n) = draft
      BY <2>1, <2>2 DEF Put, ListAt
    <3>3. QED
      BY <1>4, <2>1, <2>2, <3>1, <3>2
  <2>3. CASE n # prompt.source
    BY <2>1, <2>3 DEF Put, ListAt
  <2>4. QED
    BY <2>2, <2>3
<1>5. CASE Exit /\ files' \in {files, CleanedFiles(files)}
  BY <1>1, <1>2, <1>5 DEF CleanedFiles
<1>6. CASE Sigterm \/ LoadPolicy
  BY <1>2, <1>6 DEF Sigterm, LoadPolicy, CleanedFiles
<1>7. CASE \/ Dom0 \/ Start \/ StopPost
           \/ \E t \in {"main", "watcher"} : QueryDom0(t) \/ PublishNothing(t)
           \/ WatchRegister \/ ReadWatch \/ StartupReload
           \/ \E t \in Threads : Reload(t)
           \/ UNCHANGED vars
  <2>1. files' = files
    BY <1>7 DEF Dom0, VmAppears, VmGone, Dom0Sets, Start, StopPost, QueryDom0, PublishNothing,
                WatchRegister, ReadWatch, StartupReload, Reload, vars
  <2>2. QED
    BY <1>1, <2>1
<1>8. CASE \/ \E src \in IPs, asks \in Packets : Receive(src, asks)
           \/ KnownCheck \/ Recheck \/ Attribute \/ Bind
           \/ RefuseMalformed \/ Match \/ AskVanished \/ AskAnswered \/ Ask
  <2>1. files' = files
    BY <1>8 DEF Receive, KnownCheck, Recheck, Attribute, Bind, RefuseMalformed, Match,
                AskVanished, AskAnswered, Ask
  <2>2. QED
    BY <1>1, <2>1
<1>9. CASE \/ TakePrompt \/ CheckPrompt \/ ShowPrompt \/ KeepPrompt \/ Decide \/ IgnoreAnswer
           \/ ClaimAnswer \/ RememberRule
  <2>1. files' = files
    BY <1>9 DEF TakePrompt, CheckPrompt, ShowPrompt, KeepPrompt, Decide, IgnoreAnswer,
                ClaimAnswer, RememberRule
  <2>2. QED
    BY <1>1, <2>1
<1>10. QED
  BY <1>3, <1>4, <1>5, <1>6, <1>7, <1>8, <1>9, NextCases

(* What a file says about a target of a durable source, it says for good:  *)
(* through saves, refreshes, crashes in any of them, stops and restarts.   *)
THEOREM DecisionsStand == Spec => DurableDecisionsStand
<1>1. ASSUME IInv, DurableInv, [Next]_vars, NEW n \in Names \ Numbered, NEW t \in Targets,
             MatchingAction(files, n, t) # "none"
      PROVE  MatchingAction(files', n, t) = MatchingAction(files, n, t)
  <2> DEFINE s == ListAt(files, n)
  <2>1. s \in Seq(Rule)
    BY <1>1, ListAtTyped DEF IInv, TypeInv, TypeOK
  <2>2. CASE ListAt(files', n) = s
    BY <2>2, ListDecides
  <2>3. CASE answer \in Rule /\ ListAt(files', n) = Append(s, Yaml(answer))
    <3>1. Yaml(answer) \in Rule
      BY <2>3, RuleForms
    <3>2. MatchingAction(files, n, t) = IF Matches(s, t) THEN s[FirstMatch(s, t)].action ELSE "none"
      BY ListDecides
    <3>3. Matches(s, t)
      BY <1>1, <3>2
    <3> DEFINE all == Append(s, Yaml(answer))
    <3>4. Matches(all, t) /\ all[FirstMatch(all, t)] = s[FirstMatch(s, t)]
      BY <2>1, <3>1, <3>3, AppendedDecision
    <3>5. MatchingAction(files', n, t)
            = IF Matches(all, t) THEN all[FirstMatch(all, t)].action ELSE "none"
      BY <2>3, ListDecides
    <3>6. QED
      BY <3>2, <3>3, <3>4, <3>5
  <2>4. QED
    BY <1>1, <2>2, <2>3, FilesStep
<1>2. IInv /\ DurableInv /\ [Next]_vars =>
        [\A n \in Names \ Numbered, t \in Targets :
           MatchingAction(files, n, t) # "none" =>
             MatchingAction(files', n, t) = MatchingAction(files, n, t)]_vars
  BY <1>1
<1>3. QED
  BY <1>2, DurableInductive, PTL DEF Spec, DurableDecisionsStand

-------------------------------------------------------------------------------
(* An accepted packet *)

\* The packet's source is the one it was bound to, and its earlier questions are allowed.
Owned ==
    /\ packet.source \in DOMAIN RULES
    /\ packet.source \in Numbered => epoch[packet.source] = packet.epoch
    /\ \A i \in DOMAIN packet.asks :
         i < packet.at => Allowing(ListAt(RULES, packet.source), packet.asks[i])

(* Its numbered source vanished: there is no rule for the name, nor one on *)
(* its way, since only this packet could ask for one.                      *)
Disowned ==
    /\ ListAt(RULES, packet.source) = << >>
    /\ \A q \in pending : q.source # packet.source
    /\ pc["cli"] \in {"replace", "remember"} => prompt.source # packet.source

PacketInv ==
    /\ pc["main"] \in {"off", "load", "recv"} \/ phase = "starting" => packet = NoPacket
    /\ pc["main"] \in {"known", "query", "publish", "reload", "recheck", "attribute", "bind"}
         => packet.source = None
    /\ pc["main"] \in {"match", "ask"} => Owned \/ Disowned

\* What is allowed stays allowed when a rule is added.
LEMMA AllowedStays ==
  ASSUME NEW s \in Seq(Rule), NEW rule \in Rule, NEW t, Allowing(s, t)
  PROVE  Allowing(Append(s, rule), t)
BY AppendedDecision DEF Allowing

\* The two steps that judge the current question, and what they find.
LEMMA JudgingStep ==
  ASSUME IInv, Match \/ AskAnswered
  PROVE  LET s == ListAt(RULES, packet.source)
             action == MatchingAction(RULES, packet.source, Asked)
         IN  /\ RULES' = RULES /\ lock = "free" /\ pc["main"] \in {"match", "ask"}
             /\ packet.asks # << >> /\ packet.at \in 1 .. Len(packet.asks)
             /\ Len(packet.asks) \in Nat /\ DOMAIN packet.asks = 1 .. Len(packet.asks)
             /\ \/ action = "none" /\ Goto("main", "ask") /\ UNCHANGED packetVars
                \/ Obey(action) /\ action \in Actions /\ Matches(s, Asked)
                   /\ (action = "allow" => Allowing(s, Asked))
<1> DEFINE s == ListAt(RULES, packet.source)
           action == MatchingAction(RULES, packet.source, Asked)
<1>1. RULES' = RULES
  <2>1. CASE Match
    BY <2>1 DEF Match, memoryVars
  <2>2. CASE AskAnswered
    BY <2>2, EnsureIdle DEF AskAnswered, Current, Stopping
  <2>3. QED
    BY <2>1, <2>2
<1>2. /\ lock = "free" /\ pc["main"] \in {"match", "ask"} /\ packet.asks # << >>
      /\ packet.at \in 1 .. Len(packet.asks)
  BY DEF Match, AskAnswered, IInv, TypeInv, WorkInv
<1>3. packet.asks \in Seq(Targets)
  BY EmptySeq, SourcesAssumption DEF IInv, TypeInv, TypeOK
<1>4. Len(packet.asks) \in Nat /\ DOMAIN packet.asks = 1 .. Len(packet.asks)
  BY <1>3, LenProperties
<1>5. \/ action = "none" /\ Goto("main", "ask") /\ UNCHANGED packetVars
      \/ Obey(action) /\ action # "none"
  BY <1>1 DEF Match, AskAnswered, RecheckAction
<1>6. ASSUME action # "none"
      PROVE  action \in Actions /\ Matches(s, Asked) /\ (action = "allow" => Allowing(s, Asked))
  <2>1. s \in Seq(Rule)
    BY ListAtTyped DEF IInv, TypeInv, TypeOK
  <2>2. action = IF Matches(s, Asked) THEN s[FirstMatch(s, Asked)].action ELSE "none"
    BY ListDecides
  <2>3. Matches(s, Asked)
    BY <1>6, <2>2
  <2>4. s[FirstMatch(s, Asked)] \in Rule
    BY <2>1, <2>3, FirstMatchMatches, LenProperties
  <2>5. QED
    BY <2>2, <2>3, <2>4 DEF Rule, Allowing
<1>7. QED
  BY <1>1, <1>2, <1>4, <1>5, <1>6

\* A packet that goes on has one more question allowed.
LEMMA JudgedPacket ==
  ASSUME IInv, PacketInv, Match \/ AskAnswered
  PROVE  PacketInv'
<1> USE DEF dom0Vars, memoryVars, queueVars, packetVars, cliVars, Threads
<1> DEFINE s == ListAt(RULES, packet.source)
           action == MatchingAction(RULES, packet.source, Asked)
<1>0. DOMAIN pc = Threads /\ phase # "starting"
  BY DEF IInv, TypeInv, TypeOK, ControlInv, PhaseInv, Match, AskAnswered
<1>1. /\ RULES' = RULES /\ pc["main"] \in {"match", "ask"} /\ (Owned \/ Disowned)
      /\ packet.at \in 1 .. Len(packet.asks)
      /\ Len(packet.asks) \in Nat /\ DOMAIN packet.asks = 1 .. Len(packet.asks)
  BY JudgingStep DEF PacketInv
<1>2. UNCHANGED << phase, lock, SOURCES, epoch, pending, prompt >>
  BY DEF Match, AskAnswered
<1>3. CASE Goto("main", "ask") /\ UNCHANGED packetVars
  <2>1. pc'["main"] = "ask" /\ pc'["cli"] = pc["cli"]
    BY <1>0, <1>3 DEF Goto
  <2>2. packet' = packet
    BY <1>3
  <2>3. (Owned => Owned') /\ (Disowned => Disowned')
    BY <1>1, <1>2, <2>1, <2>2 DEF Owned, Disowned
  <2>4. phase' # "starting"
    BY <1>0, <1>2
  <2>5. QED
    BY <1>1, <2>1, <2>3, <2>4 DEF PacketInv
<1>4. CASE Obey(action) /\ action \in Actions /\ Matches(s, Asked)
           /\ (action = "allow" => Allowing(s, Asked))
  <2>1. CASE \E v \in {"accept", "drop"} : Verdict(v)
    <3>1. pc'["main"] = "recv" /\ packet' = NoPacket
      BY <1>0, <2>1 DEF Verdict, Goto
    <3>2. QED
      BY <1>0, <1>2, <3>1 DEF PacketInv
  <2>2. CASE action # "reject" /\ packet' = [packet EXCEPT !.at = @ + 1] /\ Goto("main", "match")
    <3>1. pc'["main"] = "match"
      BY <1>0, <2>2 DEF Goto
    <3>2. Allowing(s, packet.asks[packet.at])
      BY <1>4, <2>2 DEF Actions, Asked
    <3>3. ~ Disowned
      BY <1>4, EmptySeq DEF Disowned, Matches
    <3>4. packet'.source = packet.source /\ packet'.epoch = packet.epoch
          /\ packet'.asks = packet.asks /\ packet'.at = packet.at + 1
      BY <2>2 DEF IInv, TypeInv, TypeOK
    <3>5. Owned'
      BY <1>1, <1>2, <3>2, <3>3, <3>4 DEF Owned
    <3>6. QED
      BY <1>0, <1>2, <3>1, <3>5 DEF PacketInv
  <2>3. QED
    BY <1>4, <2>1, <2>2 DEF Obey
<1>5. QED
  BY <1>3, <1>4, JudgingStep

\* A publication leaves the packet its rules or takes them all.
LEMMA PublishPacket ==
  ASSUME IInv, PacketInv, NEW t \in {"main", "watcher"}, Publish(t)
  PROVE  PacketInv'
<1> DEFINE gone == Reused(snap[t]) \cup Vanished(snap[t])
           n == packet.source
<1>0. DOMAIN pc = Threads
  BY DEF IInv, TypeInv, TypeOK
<1>1. /\ pc' = [pc EXCEPT ![t] = "reload"] /\ pc[t] = "publish" /\ lock = "free"
      /\ UNCHANGED << phase, packet, prompt >>
      /\ pending' = {q \in pending : q.source \notin gone}
  BY DEF Publish, Goto, packetVars, cliVars, WithoutSources
<1>2. pc'["cli"] = pc["cli"] /\ pc["cli"] \notin {"replace", "remember"}
  BY <1>0, <1>1 DEF IInv, ControlInv, LockInv, Threads
<1>3. pc'["main"] = pc["main"] \/ (pc["main"] = "publish" /\ pc'["main"] = "reload")
  BY <1>0, <1>1 DEF Threads
<1>4. CASE pc["main"] \notin {"match", "ask"}
  BY <1>1, <1>3, <1>4 DEF PacketInv
<1>5. CASE pc["main"] \in {"match", "ask"}
  <2>1. ~ Stopping /\ (Owned \/ Disowned) /\ phase # "starting" /\ pc'["main"] = pc["main"]
    BY <1>3, <1>5 DEF Stopping, PacketInv, IInv, ControlInv, PhaseInv
  <2>2. /\ DOMAIN RULES' = (DOMAIN RULES \ gone) \cup NamesOf(snap[t])
        /\ \A m \in DOMAIN RULES \ gone : RULES'[m] = RULES[m]
        /\ \A m \in DOMAIN RULES' \ (DOMAIN RULES \ gone) : RULES'[m] = << >>
    BY <2>1, SurvivingBuckets
  <2>3. n \in Numbered \cap DOMAIN RULES /\ n \notin gone => epoch'[n] = epoch[n]
    BY <2>1, SurvivingNames
  <2> HIDE DEF gone
  <2>4. CASE Owned /\ n \notin gone
    <3>1. n \in DOMAIN RULES' /\ ListAt(RULES', n) = ListAt(RULES, n)
      BY <2>2, <2>4 DEF Owned, ListAt
    <3>2. Owned'
      BY <1>1, <2>3, <2>4, <3>1 DEF Owned
    <3>3. QED
      BY <1>1, <1>5, <2>1, <3>2 DEF PacketInv
  <2>5. CASE Owned /\ n \in gone
    <3>1. ListAt(RULES', n) = << >>
      BY <2>2, <2>5 DEF ListAt
    <3>2. Disowned'
      BY <1>1, <1>2, <2>5, <3>1 DEF Disowned
    <3>3. QED
      BY <1>1, <1>5, <2>1, <3>2 DEF PacketInv
  <2>6. CASE Disowned
    <3>1. ListAt(RULES', n) = << >>
      BY <2>2, <2>6 DEF Disowned, ListAt
    <3>2. Disowned'
      BY <1>1, <1>2, <2>6, <3>1 DEF Disowned
    <3>3. QED
      BY <1>1, <1>5, <2>1, <3>2 DEF PacketInv
  <2>7. QED
    BY <2>1, <2>4, <2>5, <2>6
<1>6. QED
  BY <1>4, <1>5

\* A rule that is remembered is not about a packet whose source vanished.
LEMMA RememberPacket ==
  ASSUME IInv, PacketInv, RememberRule
  PROVE  PacketInv'
<1> USE DEF dom0Vars, memoryVars, queueVars, packetVars, cliVars, Goto, Threads
<1> DEFINE n == prompt.source
           s == ListAt(RULES, n)
<1>0. /\ DOMAIN pc = Threads /\ pc["cli"] = "remember"
      /\ answer \in Rule /\ s \in Seq(Rule)
  BY ListAtTyped DEF IInv, TypeInv, TypeOK, WorkInv, RememberRule
<1>1. /\ UNCHANGED << phase, epoch, pending, packet, prompt >>
      /\ pc'["main"] = pc["main"] /\ pc'["cli"] = "reload"
      /\ ~ Stopping => RULES' = Put(RULES, n, Append(s, answer))
  BY <1>0 DEF RememberRule, IInv, CopyInv, WithAnswer
<1>2. CASE Stopping
  <2>1. pc'["main"] = "stopping" /\ (phase' = "starting" => packet' = NoPacket)
    BY <1>1, <1>2 DEF PacketInv, Stopping
  <2>2. QED
    BY <2>1 DEF PacketInv
<1> SUFFICES ASSUME ~ Stopping PROVE PacketInv'
  BY <1>2
<1>3. /\ ListAt(RULES', n) = Append(s, answer)
      /\ \A m : m # n => ListAt(RULES', m) = ListAt(RULES, m)
      /\ DOMAIN RULES \subseteq DOMAIN RULES'
  BY <1>1 DEF Put, ListAt
<1>4. \A t : Allowing(ListAt(RULES, packet.source), t) => Allowing(ListAt(RULES', packet.source), t)
  <2>1. CASE packet.source = n
    <3> HIDE DEF s
    <3>1. \A t : Allowing(s, t) => Allowing(Append(s, answer), t)
      BY <1>0, AllowedStays
    <3>2. QED
      BY <1>3, <2>1, <3>1 DEF s
  <2>2. CASE packet.source # n
    BY <1>3, <2>2
  <2>3. QED
    BY <2>1, <2>2
<1>5. Owned => Owned'
  BY <1>1, <1>3, <1>4 DEF Owned
<1>6. Disowned => Disowned'
  BY <1>0, <1>1, <1>3 DEF Disowned
<1>7. QED
  BY <1>1, <1>5, <1>6 DEF PacketInv

LEMMA PacketStep ==
  ASSUME IInv, PacketInv, [Next]_vars
  PROVE  PacketInv'
<1> USE DEF dom0Vars, memoryVars, queueVars, packetVars, cliVars, Goto, Threads
<1>0. DOMAIN pc = Threads /\ ControlInv
  BY DEF IInv, TypeInv, TypeOK
<1>1. CASE Exit
  BY <1>1 DEF Exit, PacketInv
<1>2. CASE Start \/ StopPost \/ Sigterm \/ LoadPolicy
  <2>1. pc["main"] \in {"off", "load"} \/ phase = "starting" => packet = NoPacket
    BY DEF PacketInv
  <2>2. NoPacket.source = None
    BY DEF NoPacket
  <2>3. QED
    BY <1>0, <1>2, <2>1, <2>2 DEF Start, StopPost, Sigterm, LoadPolicy, PacketInv,
       ControlInv, PhaseInv
<1>3. CASE Dom0 \/ UNCHANGED vars
  <2>1. UNCHANGED << pc, phase, packet, RULES, epoch, pending, prompt >>
    BY <1>3 DEF Dom0, VmAppears, VmGone, Dom0Sets, vars
  <2>2. QED
    BY <2>1 DEF PacketInv, Owned, Disowned
<1>4. CASE \E t \in {"main", "watcher"} : Publish(t)
  BY <1>4, PublishPacket
<1>5. CASE \/ \E t \in {"main", "watcher"} : QueryDom0(t) \/ PublishNothing(t)
           \/ WatchRegister \/ ReadWatch
           \/ KnownCheck \/ Recheck
  <2>1. UNCHANGED << phase, packet, RULES, epoch, pending, prompt >> /\ pc'["cli"] = pc["cli"]
    BY <1>0, <1>5 DEF QueryDom0, PublishNothing, WatchRegister, ReadWatch, KnownCheck, Recheck
  <2>2. \/ pc'["main"] = pc["main"]
        \/ /\ pc["main"] \in {"query", "publish", "known", "recheck"}
           /\ pc'["main"] \in {"publish", "recheck", "bind", "query", "attribute"}
    BY <1>0, <1>5 DEF QueryDom0, PublishNothing, AfterRefresh, WatchRegister, ReadWatch, KnownCheck,
                      Recheck
  <2>3. QED
    BY <2>1, <2>2 DEF PacketInv, Owned, Disowned
<1>6. CASE StartupReload \/ \E t \in Threads : Reload(t)
  <2>1. UNCHANGED << packet, RULES, epoch, pending >> /\ phase' # "starting"
    BY <1>6 DEF StartupReload, Reload
  <2>2. \/ pc'["main"] = pc["main"]
        \/ phase = "starting" /\ pc'["main"] = "recv"
        \/ pc["main"] = "reload" /\ pc'["main"] = "recheck"
    BY <1>0, <1>6 DEF StartupReload, Reload, AfterReload
  <2>3. pc'["cli"] = "accept" \/ (pc'["cli"] = pc["cli"] /\ prompt' = prompt)
    BY <1>0, <1>6 DEF StartupReload, Reload, AfterReload
  <2>4. QED
    BY <2>1, <2>2, <2>3 DEF PacketInv, Owned, Disowned
<1>7. CASE \E src \in IPs, asks \in Packets : Receive(src, asks)
  <2>1. pc'["main"] = "known" /\ phase' = "up"
    BY <1>0, <1>7 DEF Receive
  <2>2. packet'.source = None
    BY <1>7 DEF Receive, NoPacket
  <2>3. QED
    BY <2>1, <2>2 DEF PacketInv
<1>8. CASE Attribute \/ RefuseMalformed \/ AskVanished \/ Ask
  <2>1. pc'["main"] = "recv" /\ packet' = NoPacket
    BY <1>0, <1>8 DEF Attribute, RefuseMalformed, AskVanished, Ask, Verdict
  <2>2. QED
    BY <2>1 DEF PacketInv
<1>9. CASE Bind
  <2>1. RULES' = RULES /\ SOURCES[packet.src] \in DOMAIN RULES
    BY <1>9, EnsureIdle DEF Bind, Stopping
  <2>2. packet.at = 1 /\ phase # "starting" /\ DOMAIN packet.asks \subseteq Nat \ {0}
    <3>1. packet.asks \in Seq(Targets)
      BY EmptySeq, SourcesAssumption DEF IInv, TypeInv, TypeOK
    <3>2. QED
      BY <1>0, <1>9, <3>1, LenProperties DEF Bind, IInv, TypeInv, WorkInv, ControlInv, PhaseInv
  <2>3. /\ packet'.source = SOURCES[packet.src] /\ packet'.epoch = epoch[SOURCES[packet.src]]
        /\ packet'.at = packet.at /\ packet'.asks = packet.asks
    BY <1>9 DEF Bind, IInv, TypeInv, TypeOK
  <2>4. pc'["main"] = "match" /\ epoch' = epoch /\ phase' = phase
    BY <1>0, <1>9 DEF Bind
  <2>5. Owned'
    BY <2>1, <2>2, <2>3, <2>4 DEF Owned
  <2>6. QED
    BY <2>2, <2>4, <2>5 DEF PacketInv
<1>10. CASE Match \/ AskAnswered
  BY <1>10, JudgedPacket
<1>11. CASE TakePrompt \/ CheckPrompt \/ ShowPrompt \/ KeepPrompt \/ Decide \/ IgnoreAnswer
  <2>1. UNCHANGED << phase, packet, RULES, epoch >> /\ pc'["main"] = pc["main"]
    BY <1>0, <1>11 DEF TakePrompt, CheckPrompt, ShowPrompt, KeepPrompt, Decide, IgnoreAnswer,
                 DiscardPrompt, BackToAccept
  <2>2. pc'["cli"] \in {"accept", "check", "enriched", "shown", "save"}
    BY <1>0, <1>11 DEF TakePrompt, CheckPrompt, ShowPrompt, KeepPrompt, Decide, IgnoreAnswer,
                 DiscardPrompt, BackToAccept
  <2>3. pending' \subseteq pending
    BY <1>11 DEF TakePrompt, CheckPrompt, ShowPrompt, KeepPrompt, Decide, IgnoreAnswer,
                 DiscardPrompt, Discarded
  <2>4. QED
    BY <2>1, <2>2, <2>3 DEF PacketInv, Owned, Disowned
<1>12. CASE ClaimAnswer
  <2>1. /\ UNCHANGED << phase, packet, RULES, epoch, prompt >> /\ pc'["main"] = pc["main"]
        /\ pending' \subseteq pending
    BY <1>0, <1>12 DEF ClaimAnswer
  <2>2. prompt \in pending
    BY <1>12 DEF ClaimAnswer, Claimable, IInv, PolicyInv, PromptInv
  <2>3. QED
    BY <2>1, <2>2 DEF PacketInv, Owned, Disowned
<1>13. CASE ReplaceFile
  <2>1. /\ UNCHANGED << phase, packet, RULES, epoch, prompt, pending >> /\ pc'["main"] = pc["main"]
        /\ pc["cli"] = "replace"
    BY <1>0, <1>13 DEF ReplaceFile
  <2>2. QED
    BY <2>1 DEF PacketInv, Owned, Disowned
<1>14. CASE RememberRule
  BY <1>14, RememberPacket
<1>15. QED
  BY <1>1, <1>2, <1>3, <1>4, <1>5, <1>6, <1>7, <1>8, <1>9, <1>10, <1>11, <1>12, <1>13, <1>14,
     NextCases

LEMMA PacketInductive == Spec => [](IInv /\ DurableInv /\ PacketInv)
<1>1. Init => PacketInv
  BY DEF Init, PacketInv, Threads, NoPacket
<1>2. IInv /\ PacketInv /\ [Next]_vars => PacketInv'
  BY PacketStep
<1>3. QED
  BY <1>1, <1>2, DurableInductive, PTL DEF Spec

\* Only an answered question, and only the last one of its packet, accepts.
LEMMA AcceptingStep ==
  ASSUME IInv, [Next]_vars, verdict # "accept", verdict' = "accept"
  PROVE  Match \/ AskAnswered
<1> USE DEF dom0Vars, memoryVars, queueVars, packetVars, cliVars
<1>1. CASE Exit \/ UNCHANGED vars
  BY <1>1 DEF Exit, vars
<1>2. CASE \/ Dom0 \/ Start \/ StopPost \/ Sigterm \/ LoadPolicy
           \/ \E t \in {"main", "watcher"} : QueryDom0(t) \/ PublishNothing(t) \/ Publish(t)
           \/ StartupReload
           \/ \E t \in Threads : Reload(t)
           \/ WatchRegister \/ ReadWatch \/ KnownCheck \/ Recheck \/ Bind
  BY <1>2 DEF Dom0, VmAppears, VmGone, Dom0Sets, Start, StopPost, Sigterm, LoadPolicy, QueryDom0,
              PublishNothing, Publish, StartupReload, Reload, WatchRegister, ReadWatch, KnownCheck,
              Recheck, Bind
<1>3. CASE \/ \E src \in IPs, asks \in Packets : Receive(src, asks)
           \/ Attribute \/ RefuseMalformed \/ AskVanished \/ Ask
  BY <1>3 DEF Receive, Attribute, RefuseMalformed, AskVanished, Ask, Verdict
<1>4. CASE \/ TakePrompt \/ CheckPrompt \/ ShowPrompt \/ KeepPrompt \/ Decide
           \/ IgnoreAnswer \/ ClaimAnswer \/ ReplaceFile \/ RememberRule
  BY <1>4 DEF TakePrompt, CheckPrompt, ShowPrompt, KeepPrompt, Decide, IgnoreAnswer, ClaimAnswer,
              ReplaceFile, RememberRule
<1>5. QED
  BY <1>1, <1>2, <1>3, <1>4, NextCases

\* An accepted packet: its last question is allowed, and so were the earlier ones.
LEMMA AcceptedPacket ==
  ASSUME IInv, PacketInv, Match \/ AskAnswered, Verdict("accept"), NEW i \in DOMAIN packet.asks
  PROVE  LET s == ListAt(RULES, packet.source)
             t == packet.asks[i]
         IN  /\ Allowing(s, t)
             /\ packet.source \in Numbered => s[FirstMatch(s, t)].epoch = packet.epoch
<1> DEFINE s == ListAt(RULES, packet.source)
           action == MatchingAction(RULES, packet.source, Asked)
<1>1. /\ pc["main"] \in {"match", "ask"} /\ packet.at \in 1 .. Len(packet.asks)
      /\ Len(packet.asks) \in Nat /\ DOMAIN packet.asks = 1 .. Len(packet.asks)
  BY JudgingStep
<1>2. /\ Obey(action) /\ action \in Actions /\ Matches(s, Asked)
      /\ (action = "allow" => Allowing(s, Asked))
  <2>1. pc'["main"] = "recv"
    BY DEF Verdict, Goto, Threads, IInv, TypeInv, TypeOK
  <2>2. ~ Goto("main", "ask")
    BY <2>1 DEF Goto, Threads, IInv, TypeInv, TypeOK
  <2>3. QED
    BY <2>2, JudgingStep
<1>3. packet.at = Len(packet.asks) /\ action = "allow"
  <2>1. pc'["main"] = "recv" /\ verdict' = "accept" /\ DOMAIN pc = Threads
    BY DEF Verdict, Goto, Threads, IInv, TypeInv, TypeOK
  <2>2. ~ Goto("main", "match") /\ ~ Verdict("drop")
    BY <2>1 DEF Goto, Verdict, Threads
  <2>3. QED
    BY <1>2, <2>2 DEF Obey, Actions
<1>4. Owned
  BY <1>1, <1>2, EmptySeq DEF PacketInv, Disowned, Matches
<1>5. Allowing(s, packet.asks[i])
  <2>1. CASE i = packet.at
    BY <1>2, <1>3, <2>1 DEF Asked
  <2>2. CASE i # packet.at
    <3>1. i < packet.at
      BY <1>1, <1>3, <2>2
    <3>2. QED
      BY <1>4, <3>1 DEF Owned
  <2>3. QED
    BY <2>1, <2>2
<1>6. ASSUME packet.source \in Numbered
      PROVE  s[FirstMatch(s, packet.asks[i])].epoch = packet.epoch
  <2>1. s \in Seq(Rule) /\ s = RULES[packet.source] /\ packet.source \in DOMAIN RULES
    BY <1>4, ListAtTyped DEF IInv, TypeInv, TypeOK, Owned, ListAt
  <2>2. FirstMatch(s, packet.asks[i]) \in DOMAIN s
    <3> HIDE DEF s
    <3>1. QED
      BY <1>5, <2>1, FirstMatchMatches, LenProperties DEF Allowing
  <2>3. ~ Stopping /\ EpochInv
    BY <1>1 DEF Stopping, IInv, PolicyInv
  <2>4. s[FirstMatch(s, packet.asks[i])].epoch = epoch[packet.source]
    BY <1>6, <2>1, <2>2, <2>3 DEF EpochInv
  <2>5. QED
    BY <1>4, <1>6, <2>4 DEF Owned
<1>7. QED
  BY <1>5, <1>6

(* A packet is accepted only while every question it asks is allowed, and  *)
(* for a numbered DispVM by answers of the publication it was bound to.    *)
THEOREM AcceptedByOwn == Spec => AcceptedByOwnAnswers
<1>1. ASSUME IInv, PacketInv, [Next]_vars, verdict # "accept", verdict' = "accept",
             NEW i \in DOMAIN packet.asks
      PROVE  LET rules == ListAt(RULES, packet.source)
                 t == packet.asks[i]
             IN  /\ Allowing(rules, t)
                 /\ packet.source \in Numbered => rules[FirstMatch(rules, t)].epoch = packet.epoch
  <2>1. Match \/ AskAnswered
    BY <1>1, AcceptingStep
  <2>2. Verdict("accept")
    BY <1>1, <2>1, JudgingStep DEF Obey, Verdict, Actions, packetVars
  <2>3. QED
    BY <1>1, <2>1, <2>2, AcceptedPacket
<1>2. IInv /\ PacketInv /\ [Next]_vars =>
        [verdict # "accept" /\ verdict' = "accept" =>
           \A i \in DOMAIN packet.asks :
              LET rules == ListAt(RULES, packet.source)
                  t == packet.asks[i]
              IN  /\ Allowing(rules, t)
                  /\ packet.source \in Numbered =>
                        rules[FirstMatch(rules, t)].epoch = packet.epoch]_vars
  BY <1>1
<1>3. QED
  BY <1>2, PacketInductive, PTL DEF Spec, AcceptedByOwnAnswers

-------------------------------------------------------------------------------
(* A question *)

\* An answer covers the question it was given to.
AnswerInv == pc["cli"] \in {"save", "replace", "remember"} => prompt.target \in answer.covers

\* While append_rule works, the queue is rid of all that the answer covers.
ClaimInv == pc["cli"] = "replace" => \A q \in pending : ~ AnsweredToo(q)

\* Before the first load there are no questions and no numbered rules.
StartInv == phase = "starting" =>
    /\ pending = {} /\ pc["cli"] \in {"off", "accept"}
    /\ pc["main"] \in {"query", "publish", "reload"} => Numbered \cap DOMAIN files = {}

QuestionInv == AnswerInv /\ ClaimInv /\ StartInv

\* A step of the other two threads that adds no question.
LEMMA QuestionFrame ==
  ASSUME QuestionInv, UNCHANGED << prompt, answer >>, pc'["cli"] = pc["cli"],
         pending' \subseteq pending,
         phase' = "starting" =>
            /\ phase = "starting" /\ DOMAIN files' \subseteq DOMAIN files
            /\ pc'["main"] \in {"query", "publish", "reload"} =>
                 pc["main"] \in {"query", "publish", "reload"}
  PROVE  QuestionInv'
BY DEF QuestionInv, AnswerInv, ClaimInv, StartInv, AnsweredToo

LEMMA QuestionStep ==
  ASSUME IInv, QuestionInv, [Next]_vars
  PROVE  QuestionInv'
<1> USE DEF dom0Vars, memoryVars, queueVars, packetVars, cliVars, Goto, Threads
<1>0. DOMAIN pc = Threads /\ ControlInv /\ IsRuleDict(files)
  BY DEF IInv, TypeInv, TypeOK
<1>1. CASE Exit \/ Start
  BY <1>0, <1>1 DEF Exit, Start, QuestionInv, AnswerInv, ClaimInv, StartInv, ControlInv, PhaseInv,
                    Unloaded
<1>2. CASE LoadPolicy
  <2>1. files' = Drop(files, Numbered)
    BY <1>2 DEF LoadPolicy, CleanedFiles
  <2>2. pc'["cli"] = "accept" /\ pc'["main"] = "query" /\ pending' = {}
    BY <1>0, <1>2 DEF LoadPolicy, ControlInv, PhaseInv, Unloaded
  <2>3. Numbered \cap DOMAIN files' = {}
    BY <2>1 DEF Drop
  <2>4. QED
    BY <2>2, <2>3 DEF QuestionInv, AnswerInv, ClaimInv, StartInv
<1>3. CASE StopPost \/ Sigterm \/ Dom0 \/ UNCHANGED vars
  <2>1. UNCHANGED << prompt, answer, pending >> /\ pc'["cli"] = pc["cli"]
    BY <1>0, <1>3 DEF StopPost, Sigterm, Dom0, VmAppears, VmGone, Dom0Sets, vars
  <2>2. phase' = "starting" => phase = "starting"
    BY <1>3 DEF StopPost, Sigterm, Dom0, VmAppears, VmGone, Dom0Sets, vars
  <2>3. files' = files \/ files' = Drop(files, Numbered)
    BY <1>3 DEF StopPost, Sigterm, Dom0, VmAppears, VmGone, Dom0Sets, vars
  <2>4. pc'["main"] = pc["main"] \/ pc'["main"] = "stopping"
    BY <1>0, <1>3 DEF StopPost, Sigterm, Dom0, VmAppears, VmGone, Dom0Sets, vars
  <2>5. DOMAIN files' \subseteq DOMAIN files
    BY <2>3 DEF Drop
  <2>6. QED
    BY <2>1, <2>2, <2>4, <2>5, QuestionFrame
<1>4. CASE \/ \E t \in {"main", "watcher"} : QueryDom0(t) \/ PublishNothing(t)
           \/ StartupReload \/ WatchRegister \/ ReadWatch
           \/ \E src \in IPs, asks \in Packets : Receive(src, asks)
           \/ KnownCheck \/ Recheck \/ Attribute \/ Bind
           \/ RefuseMalformed \/ Match \/ AskVanished \/ AskAnswered
  <2>1. UNCHANGED << prompt, answer, pending, files >> /\ pc'["cli"] = pc["cli"]
    BY <1>0, <1>4 DEF QueryDom0, PublishNothing, StartupReload, WatchRegister, ReadWatch, Receive,
       KnownCheck, Recheck, Attribute, Bind, RefuseMalformed, Match, AskVanished, AskAnswered,
       Verdict, Obey
  <2>2. phase' = "starting" => phase = "starting"
    BY <1>4 DEF QueryDom0, PublishNothing, StartupReload, WatchRegister, ReadWatch, Receive,
       KnownCheck, Recheck, Attribute, Bind, RefuseMalformed, Match, AskVanished, AskAnswered
  <2>3. phase = "starting" => \/ pc'["main"] \notin {"query", "publish", "reload"}
                              \/ pc["main"] \in {"query", "publish", "reload"}
    BY <1>0, <1>4 DEF QueryDom0, PublishNothing, StartupReload, WatchRegister, ReadWatch, Receive,
       KnownCheck, Recheck, Attribute, Bind, RefuseMalformed, Match, AskVanished, AskAnswered,
       ControlInv, PhaseInv
  <2>4. QED
    BY <2>1, <2>2, <2>3, QuestionFrame
<1>5. CASE \E t \in {"main", "watcher"} : Publish(t)
  <2>1. PICK t \in {"main", "watcher"} : Publish(t)
    BY <1>5
  <2>2. /\ UNCHANGED << phase, prompt, answer >> /\ pc'["cli"] = pc["cli"]
        /\ pending' \subseteq pending /\ DOMAIN files' \subseteq DOMAIN files
        /\ phase = "starting" => pc["main"] \in {"query", "publish", "reload"}
    BY <1>0, <2>1 DEF Publish, WithoutSources, Drop, ControlInv, PhaseInv
  <2>3. QED
    BY <2>2, QuestionFrame
<1>6. CASE \E t \in Threads : Reload(t)
  <2>1. /\ phase' = "up" /\ pending' = pending
        /\ \/ pc'["cli"] = pc["cli"] /\ UNCHANGED << prompt, answer >>
           \/ pc'["cli"] = "accept"
    BY <1>0, <1>6 DEF Reload, AfterReload
  <2>2. QED
    BY <2>1 DEF QuestionInv, AnswerInv, ClaimInv, StartInv, AnsweredToo
<1>7. CASE Ask
  <2>1. pc["cli"] # "replace" /\ phase # "starting"
    BY <1>0, <1>7 DEF Ask, Asking, ControlInv, LockInv, PhaseInv
  <2>2. UNCHANGED << phase, prompt, answer >> /\ pc'["cli"] = pc["cli"]
    BY <1>0, <1>7 DEF Ask, Asking, Verdict
  <2>3. QED
    BY <2>1, <2>2 DEF QuestionInv, AnswerInv, ClaimInv, StartInv
<1>8. CASE TakePrompt \/ CheckPrompt \/ ShowPrompt \/ KeepPrompt \/ IgnoreAnswer \/ RememberRule
  <2>1. phase' # "starting"
    BY <1>0, <1>8 DEF TakePrompt, CheckPrompt, ShowPrompt, KeepPrompt, IgnoreAnswer, RememberRule,
       QuestionInv, StartInv
  <2>2. pc'["cli"] \notin {"save", "replace", "remember"}
    BY <1>0, <1>8 DEF TakePrompt, CheckPrompt, ShowPrompt, KeepPrompt, IgnoreAnswer, RememberRule,
       DiscardPrompt, BackToAccept
  <2>3. QED
    BY <2>1, <2>2 DEF QuestionInv, AnswerInv, ClaimInv, StartInv
<1>9. CASE Decide
  <2>1. phase' # "starting" /\ pc'["cli"] = "save" /\ prompt' = prompt
    BY <1>0, <1>9 DEF Decide, QuestionInv, StartInv
  <2>2. prompt.target \in answer'.covers
    BY <1>9 DEF Decide, Decisions
  <2>3. QED
    BY <2>1, <2>2 DEF QuestionInv, AnswerInv, ClaimInv, StartInv
<1>10. CASE ClaimAnswer \/ ReplaceFile
  <2>1. phase' # "starting" /\ UNCHANGED << prompt, answer >>
        /\ pc["cli"] \in {"save", "replace"}
    BY <1>0, <1>10 DEF ClaimAnswer, ReplaceFile, QuestionInv, StartInv
  <2>2. pc'["cli"] = "replace" => \A q \in pending' : ~ AnsweredToo(q)
    BY <1>0, <1>10 DEF ClaimAnswer, ReplaceFile
  <2>3. QED
    BY <2>1, <2>2 DEF QuestionInv, AnswerInv, ClaimInv, StartInv, AnsweredToo
<1>11. QED
  BY <1>1, <1>2, <1>3, <1>4, <1>5, <1>6, <1>7, <1>8, <1>9, <1>10, NextCases

LEMMA QuestionInductive == Spec => [](IInv /\ DurableInv /\ PacketInv /\ QuestionInv)
<1>1. Init => QuestionInv
  BY DEF Init, QuestionInv, AnswerInv, ClaimInv, StartInv, Threads
<1>2. IInv /\ QuestionInv /\ [Next]_vars => QuestionInv'
  BY QuestionStep
<1>3. QED
  BY <1>1, <1>2, PacketInductive, PTL DEF Spec

\* The steps that can take a question out of the queue.
LEMMA LossCases ==
  ASSUME [Next]_vars, NEW q \in pending \ pending'
  PROVE  \/ Exit \/ \E t \in {"main", "watcher"} : Publish(t)
         \/ CheckPrompt \/ ShowPrompt \/ ClaimAnswer
<1> USE DEF dom0Vars, memoryVars, queueVars, packetVars, cliVars
<1>1. CASE \/ Dom0 \/ Start \/ StopPost \/ Sigterm \/ LoadPolicy \/ UNCHANGED vars
           \/ \E t \in {"main", "watcher"} : QueryDom0(t) \/ PublishNothing(t)
           \/ StartupReload
           \/ \E t \in Threads : Reload(t)
           \/ WatchRegister \/ ReadWatch \/ KnownCheck \/ Recheck \/ Bind
  BY <1>1 DEF Dom0, VmAppears, VmGone, Dom0Sets, Start, StopPost, Sigterm, LoadPolicy, QueryDom0,
              PublishNothing, StartupReload, Reload, WatchRegister, ReadWatch, KnownCheck,
              Recheck, Bind, vars
<1>2. CASE \/ \E src \in IPs, asks \in Packets : Receive(src, asks)
           \/ Attribute \/ RefuseMalformed \/ Match \/ AskVanished \/ AskAnswered \/ Ask
  BY <1>2 DEF Receive, Attribute, RefuseMalformed, Match, AskVanished, AskAnswered, Ask
<1>3. CASE TakePrompt \/ KeepPrompt \/ Decide \/ IgnoreAnswer \/ ReplaceFile \/ RememberRule
  BY <1>3 DEF TakePrompt, KeepPrompt, Decide, IgnoreAnswer, ReplaceFile, RememberRule
<1>4. QED
  BY <1>1, <1>2, <1>3, NextCases

\* A publication removes the questions of names that are gone or moved.
LEMMA PublishedQuestions ==
  ASSUME IInv, ~ Stopping, NEW t \in {"main", "watcher"}, Publish(t), NEW q \in pending \ pending'
  PROVE  ~ Current(q)'
<1> DEFINE new == snap[t]
           n == q.source
<1>1. SOURCES' = new /\ n \in Reused(new) \cup Vanished(new) /\ new \in Maps /\ SOURCES \in Maps
  BY DEF Publish, WithoutSources, IInv, TypeInv, TypeOK
<1>2. n \in Numbered /\ Current(q) /\ n \in Names \ Shared
  BY <1>1, SourcesAssumption DEF Reused, Vanished, IInv, PolicyInv, EpochInv
<1> HIDE DEF new
<1>3. CASE n \in Vanished(new)
  BY <1>1, <1>3 DEF Vanished, NamesOf, Current
<1>4. CASE n \in Reused(new)
  <2>1. IPsOf(SOURCES, n) # IPsOf(new, n)
    BY <1>4 DEF Reused
  <2>2. ASSUME q.src \in DOMAIN new, new[q.src] = n
        PROVE  FALSE
    <3>1. q.src \in IPsOf(new, n) /\ q.src \in IPsOf(SOURCES, n)
      BY <1>2, <2>2 DEF IPsOf, Current
    <3>2. IPsOf(new, n) = {q.src} /\ IPsOf(SOURCES, n) = {q.src}
      BY <1>1, <1>2, <3>1 DEF Maps
    <3>3. QED
      BY <2>1, <3>2
  <2>3. QED
    BY <1>1, <2>2 DEF Current
<1>5. QED
  BY <1>1, <1>3, <1>4

(* Every question of a source that is still there waits for its decision:  *)
(* only the answer that covers it and its own PTR check take it away.      *)
THEOREM QuestionsWait == Spec => NoQuestionIsLost
<1> USE DEF dom0Vars, memoryVars, queueVars, packetVars, cliVars
<1>1. ASSUME IInv, QuestionInv, [Next]_vars, Serving, NEW q \in pending \ pending'
      PROVE  \/ phase' = "dead"
             \/ ~ Current(q)'
             \/ pc["cli"] = "enriched" /\ SamePrompt(q)
             \/ pc["cli"] = "save" /\ q.source = prompt.source /\ q.target \in answer.covers
  <2>0. ~ Stopping /\ pending \subseteq Question /\ SOURCES \in Maps
    BY <1>1 DEF Serving, Stopping, IInv, TypeInv, TypeOK
  <2>1. \/ Exit \/ \E t \in {"main", "watcher"} : Publish(t)
        \/ CheckPrompt \/ ShowPrompt \/ ClaimAnswer
    BY <1>1, LossCases
  <2>2. CASE Exit
    BY <2>2 DEF Exit
  <2>3. CASE \E t \in {"main", "watcher"} : Publish(t)
    <3>1. PICK t \in {"main", "watcher"} : Publish(t)
      BY <2>3
    <3>2. ~ Current(q)'
      BY <1>1, <2>0, <3>1, PublishedQuestions
    <3>3. QED
      BY <3>2
  <2>4. CASE CheckPrompt
    <3>1. SamePrompt(q) /\ ~ Current(prompt) /\ SOURCES' = SOURCES /\ pc["cli"] = "check"
      BY <1>1, <2>4 DEF CheckPrompt, DiscardPrompt, Discarded
    <3>2. q = prompt
      BY <1>1, <3>1 DEF IInv, PolicyInv, PromptInv
    <3>3. QED
      BY <3>1, <3>2 DEF Current
  <2>5. CASE ShowPrompt
    BY <1>1, <2>5 DEF ShowPrompt, DiscardPrompt, Discarded
  <2>6. CASE ClaimAnswer
    BY <1>1, <2>6 DEF ClaimAnswer, AnsweredToo, QuestionInv, AnswerInv
  <2>7. QED
    BY <2>1, <2>2, <2>3, <2>4, <2>5, <2>6
<1>2. IInv /\ QuestionInv /\ [Next]_vars =>
        [Serving => \A q \in pending \ pending' :
          \/ phase' = "dead"
          \/ ~ Current(q)'
          \/ pc["cli"] = "enriched" /\ SamePrompt(q)
          \/ pc["cli"] = "save" /\ q.source = prompt.source /\ q.target \in answer.covers]_vars
  BY <1>1
<1>3. QED
  BY <1>2, QuestionInductive, PTL DEF Spec, NoQuestionIsLost
=================================================================================
