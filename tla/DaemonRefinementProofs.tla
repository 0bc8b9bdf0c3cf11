------------------------- MODULE DaemonRefinementProofs -------------------------
(***************************************************************************)
(* Every step of the daemon is a step of UserDecisions or a stutter, for   *)
(* every value of the constants without host names.                        *)
(***************************************************************************)
EXTENDS DaemonRefinement, SnitchDaemonDecisionProofs

\* What a name's file says decides, unless the name's decisions do not count.
LEMMA SameDecisions ==
  ASSUME \A n \in Names :
            \/ /\ ListAt(files', n) = ListAt(files, n)
               /\ n \in Numbered => (Serving' <=> Serving)
            \/ /\ n \in Numbered /\ ~ Serving
               /\ ~ Serving' \/ n \notin DOMAIN files'
  PROVE  DecidedNow' = DecidedNow
<1>1. ASSUME NEW n \in Names, NEW t \in Targets
      PROVE  (IF n \in Numbered /\ ~ Serving' THEN "none" ELSE MatchingAction(files', n, t))
             = (IF n \in Numbered /\ ~ Serving THEN "none" ELSE MatchingAction(files, n, t))
  <2>1. CASE /\ ListAt(files', n) = ListAt(files, n)
             /\ n \in Numbered => (Serving' <=> Serving)
    BY <2>1, ListDecides
  <2>2. CASE n \in Numbered /\ ~ Serving /\ (~ Serving' \/ n \notin DOMAIN files')
    BY <2>2 DEF MatchingAction
  <2>3. QED
    BY <1>1, <2>1, <2>2
<1>2. QED
  BY <1>1 DEF DecidedNow

LEMMA ForgottenDecisions ==
  ASSUME NEW gone \in SUBSET Numbered,
         \A n \in Names \ Numbered : ListAt(files', n) = ListAt(files, n),
         \A n \in gone : ~ Serving' \/ n \notin DOMAIN files',
         \A n \in Numbered \ gone : \/ ~ Serving /\ ~ Serving'
                                    \/ ListAt(files', n) = ListAt(files, n) /\ Serving /\ Serving'
  PROVE  DecidedNow' = Promise!WithoutDecisions(gone)
<1>1. ASSUME NEW n \in Names, NEW t \in Targets
      PROVE  (IF n \in Numbered /\ ~ Serving' THEN "none" ELSE MatchingAction(files', n, t))
             = IF n \in gone THEN "none"
               ELSE IF n \in Numbered /\ ~ Serving THEN "none" ELSE MatchingAction(files, n, t)
  <2>1. CASE n \in gone
    BY <2>1 DEF MatchingAction
  <2>2. CASE n \notin Numbered
    BY <2>2, ListDecides
  <2>3. CASE n \in Numbered \ gone
    BY <2>3, ListDecides
  <2>4. QED
    BY <2>1, <2>2, <2>3
<1>2. QED
  BY <1>1 DEF DecidedNow, Promise!WithoutDecisions, Promise!Undecided

\* Without host names a file holds the rules of memory themselves.
LEMMA FilesAreMemory ==
  ASSUME Hosts = {}, IInv, DurableInv, lock = "free", pc["cli"] # "off", NEW n \in Names,
         ~ Abandoned(n)
  PROVE  ListAt(files, n) = ListAt(RULES, n)
<1>1. ListAt(files, n) = YamlOf(ListAt(RULES, n))
  BY DEF DurableInv, DiskInv, InMemory, IInv, ControlInv, LockInv
<1>2. ListAt(RULES, n) \in Seq(Rule)
  BY ListAtTyped DEF IInv, TypeInv, TypeOK
<1>3. \A rule \in Rule : Yaml(rule) = rule
  BY DEF Rule, Yaml
<1> DEFINE s == ListAt(RULES, n)
<1> HIDE DEF s
<1>4. s \in Seq(Rule) => YamlOf(s) = s
  <2>1. SUFFICES ASSUME s \in Seq(Rule) PROVE YamlOf(s) = s
    OBVIOUS
  <2>2. \A i \in DOMAIN s : s[i] \in Rule /\ s = [j \in DOMAIN s |-> s[j]]
    BY <2>1, LenProperties
  <2>3. s = [j \in DOMAIN s |-> s[j]]
    BY <2>1
  <2>4. QED
    BY <1>3, <2>2, <2>3 DEF YamlOf
<1>5. QED
  BY <1>1, <1>2, <1>4 DEF s

\* The process ends: only durable decisions are left.
LEMMA ExitStops ==
  ASSUME IInv, Exit, files' \in {files, CleanedFiles(files)}
  PROVE  Promise!Stop
<1>1. ~ Serving' /\ pc'["cli"] = "off" /\ pending' = {} /\ packet' = NoPacket /\ verdict' = "none"
  BY DEF Exit, Serving, Threads
<1>2. \A n \in Names \ Numbered : ListAt(files', n) = ListAt(files, n)
  BY DEF CleanedFiles, Drop, ListAt
<1>3. DecidedNow' = Promise!WithoutDecisions(Numbered)
  BY <1>1, <1>2, ForgottenDecisions
<1>4. OpenNow' = {}
  BY <1>1 DEF OpenNow
<1>5. InHandNow' = Promise!NoPacket
  BY <1>1 DEF InHandNow, NoPacket, Promise!NoPacket
<1>6. QED
  BY <1>1, <1>3, <1>4, <1>5 DEF Promise!Stop

\* The questions still open, when no answer is on its way to a file.
LEMMA OpenQueue ==
  ASSUME pc["cli"] # "replace"
  PROVE  OpenNow = {<< q.source, q.target >> : q \in pending}
BY DEF OpenNow

\* A step that leaves files, questions, packet and verdict as they are.
LEMMA QuietStutters ==
  ASSUME IInv, UNCHANGED << files, pending, verdict >>, Serving' <=> Serving,
         packet'.source = packet.source, packet'.asks = packet.asks,
         \/ pc'["cli"] = pc["cli"] /\ prompt' = prompt
         \/ pc["cli"] # "replace" /\ pc'["cli"] # "replace"
  PROVE  UNCHANGED Promise!vars
<1>1. DecidedNow' = DecidedNow
  BY SameDecisions
<1>2. OpenNow' = OpenNow
  BY DEF OpenNow
<1>3. InHandNow' = InHandNow
  BY DEF InHandNow
<1>4. QED
  BY <1>1, <1>2, <1>3 DEF Promise!vars

\* The steps of the threads between which nothing is decided, asked or judged.
LEMMA StutteringSteps ==
  ASSUME IInv, DurableInv, PacketInv, QuestionInv,
         \/ Dom0 \/ Start \/ StopPost \/ UNCHANGED vars
         \/ \E t \in {"main", "watcher"} : QueryDom0(t) \/ PublishNothing(t)
         \/ \E t \in Threads : Reload(t)
         \/ WatchRegister \/ ReadWatch \/ KnownCheck \/ Recheck
         \/ TakePrompt \/ KeepPrompt \/ Decide \/ IgnoreAnswer \/ RememberRule
  PROVE  UNCHANGED Promise!vars
<1> USE DEF dom0Vars, memoryVars, queueVars, packetVars, cliVars, Goto, Threads
<1>0. DOMAIN pc = Threads /\ ControlInv
  BY DEF IInv, TypeInv, TypeOK
<1>1. CASE \/ Dom0 \/ Start \/ StopPost \/ UNCHANGED vars
           \/ \E t \in {"main", "watcher"} : QueryDom0(t) \/ PublishNothing(t)
           \/ WatchRegister \/ ReadWatch \/ KnownCheck \/ Recheck
  <2>1. UNCHANGED << files, pending, verdict, packet, prompt >> /\ pc'["cli"] = pc["cli"]
    BY <1>0, <1>1 DEF Dom0, VmAppears, VmGone, Dom0Sets, Start, StopPost, vars, QueryDom0,
       PublishNothing, WatchRegister, ReadWatch, KnownCheck, Recheck
  <2>2. Serving' <=> Serving
    BY <1>0, <1>1 DEF Dom0, VmAppears, VmGone, Dom0Sets, Start, StopPost, vars, QueryDom0,
       PublishNothing, WatchRegister, ReadWatch, KnownCheck, Recheck, AfterRefresh, Serving
  <2>3. QED
    BY <2>1, <2>2, QuietStutters
<1>2. CASE \E t \in Threads : Reload(t)
  <2>1. UNCHANGED << files, pending, verdict, packet >> /\ (Serving' <=> Serving)
    BY <1>0, <1>2 DEF Reload, AfterReload, Serving
  <2>2. \/ pc'["cli"] = pc["cli"] /\ prompt' = prompt
        \/ pc["cli"] # "replace" /\ pc'["cli"] # "replace"
    BY <1>0, <1>2 DEF Reload, AfterReload
  <2>3. QED
    BY <2>1, <2>2, QuietStutters
<1>3. CASE TakePrompt \/ KeepPrompt \/ Decide \/ IgnoreAnswer \/ RememberRule
  <2>1. UNCHANGED << files, pending, verdict, packet >> /\ (Serving' <=> Serving)
    BY <1>0, <1>3 DEF TakePrompt, KeepPrompt, Decide, IgnoreAnswer, RememberRule, BackToAccept,
       Serving
  <2>2. pc["cli"] # "replace" /\ pc'["cli"] # "replace"
    BY <1>0, <1>3 DEF TakePrompt, KeepPrompt, Decide, IgnoreAnswer, RememberRule, BackToAccept
  <2>3. QED
    BY <2>1, <2>2, QuietStutters
<1>4. QED
  BY <1>1, <1>2, <1>3

\* Startup: no numbered name has a file, before the first load and after it.
LEMMA StartupStutters ==
  ASSUME IInv, QuestionInv, LoadPolicy \/ StartupReload
  PROVE  UNCHANGED Promise!vars
<1> USE DEF dom0Vars, memoryVars, queueVars, packetVars, cliVars, Goto, Threads
<1>0. DOMAIN pc = Threads /\ ControlInv
  BY DEF IInv, TypeInv, TypeOK
<1>1. UNCHANGED << pending, verdict, packet, prompt >>
  BY DEF LoadPolicy, StartupReload
<1>2. \/ pc'["cli"] = pc["cli"]
      \/ pc["cli"] # "replace" /\ pc'["cli"] # "replace"
  BY <1>0 DEF LoadPolicy, StartupReload, ControlInv, PhaseInv
<1>3. DecidedNow' = DecidedNow
  <2>1. CASE LoadPolicy
    <3>1. ~ Serving /\ ~ Serving'
      BY <1>0, <2>1 DEF LoadPolicy, Serving, ControlInv, PhaseInv
    <3>2. \A n \in Names \ Numbered : ListAt(files', n) = ListAt(files, n)
      BY <2>1 DEF LoadPolicy, CleanedFiles, Drop, ListAt
    <3>3. QED
      BY <3>1, <3>2, SameDecisions
  <2>2. CASE StartupReload
    <3>1. files' = files /\ ~ Serving /\ Numbered \cap DOMAIN files = {}
      BY <2>2 DEF StartupReload, Serving, QuestionInv, StartInv
    <3>2. QED
      BY <3>1, SameDecisions
  <2>3. QED
    BY <2>1, <2>2
<1>4. OpenNow' = OpenNow
  BY <1>1, <1>2 DEF OpenNow
<1>5. QED
  BY <1>1, <1>3, <1>4 DEF InHandNow, Promise!vars

\* A stop, and a publication, forget the decisions about numbered names.
LEMMA ForgettingSteps ==
  ASSUME IInv, Sigterm \/ \E t \in {"main", "watcher"} : Publish(t)
  PROVE  \E names \in SUBSET Numbered : Promise!Forget(names)
<1> USE DEF dom0Vars, memoryVars, queueVars, packetVars, cliVars, Goto, Threads
<1>0. DOMAIN pc = Threads /\ ControlInv
  BY DEF IInv, TypeInv, TypeOK
<1>1. UNCHANGED << verdict, packet, prompt >> /\ pc'["cli"] = pc["cli"] /\ pending' \subseteq pending
  BY <1>0 DEF Sigterm, Publish, WithoutSources
<1>2. OpenNow' \in SUBSET OpenNow /\ InHandNow' = InHandNow
  BY <1>1 DEF OpenNow, InHandNow
<1>3. CASE Sigterm
  <2>1. files' = Drop(files, Numbered) /\ ~ Serving'
    BY <1>0, <1>3 DEF Sigterm, Serving
  <2>2. \A n \in Names \ Numbered : ListAt(files', n) = ListAt(files, n)
    BY <2>1 DEF Drop, ListAt
  <2>3. DecidedNow' = Promise!WithoutDecisions(Numbered)
    BY <2>1, <2>2, ForgottenDecisions
  <2>4. QED
    BY <1>1, <1>2, <2>3 DEF Promise!Forget
<1>4. CASE \E t \in {"main", "watcher"} : Publish(t)
  <2>1. PICK t \in {"main", "watcher"} : Publish(t)
    BY <1>4
  <2> DEFINE gone == Reused(snap[t]) \cup Vanished(snap[t])
  <2>2. files' = Drop(files, gone) /\ gone \in SUBSET Numbered
    BY <2>1 DEF Publish, Reused, Vanished
  <2>3. Serving' <=> Serving
    BY <1>0, <2>1 DEF Publish, Serving
  <2> HIDE DEF gone
  <2>4. /\ \A n \in Names \ gone : ListAt(files', n) = ListAt(files, n)
        /\ \A n \in gone : n \notin DOMAIN files'
    BY <2>2 DEF Drop, ListAt
  <2>5. DecidedNow' = Promise!WithoutDecisions(gone)
    BY <2>2, <2>3, <2>4, ForgottenDecisions, SourcesAssumption
  <2>6. QED
    BY <1>1, <1>2, <2>2, <2>5 DEF Promise!Forget
<1>5. QED
  BY <1>3, <1>4

\* A packet is taken, and bound to the name of its source.
LEMMA TakingSteps ==
  ASSUME IInv, PacketInv
  PROVE  /\ \A src \in IPs, asks \in Packets : Receive(src, asks) => Promise!Take(asks)
         /\ Bind => \E n \in Names : Promise!Identify(n)
<1> USE DEF dom0Vars, memoryVars, queueVars, packetVars, cliVars, Goto, Threads
<1>0. DOMAIN pc = Threads
  BY DEF IInv, TypeInv, TypeOK
<1>1. ASSUME NEW src \in IPs, NEW asks \in Packets, Receive(src, asks)
      PROVE  Promise!Take(asks)
  <2>1. packet = NoPacket /\ packet' = [NoPacket EXCEPT !.src = src, !.asks = asks]
        /\ verdict' = "none"
    BY <1>1 DEF Receive, PacketInv
  <2>2. /\ UNCHANGED << files, pending, prompt >> /\ pc'["cli"] = pc["cli"]
        /\ Serving' <=> Serving
    BY <1>0, <1>1 DEF Receive, Serving
  <2>3. DecidedNow' = DecidedNow /\ OpenNow' = OpenNow
    BY <2>2, SameDecisions DEF OpenNow
  <2>4. InHandNow = Promise!NoPacket /\ InHandNow' = [Promise!NoPacket EXCEPT !.asks = asks]
    BY <2>1 DEF InHandNow, NoPacket, Promise!NoPacket
  <2>5. QED
    BY <2>1, <2>3, <2>4 DEF Promise!Take
<1>2. ASSUME Bind
      PROVE  \E n \in Names : Promise!Identify(n)
  <2> DEFINE n == SOURCES[packet.src]
  <2>1. packet.source = None /\ n \in Names
    BY <1>0, <1>2 DEF Bind, PacketInv, IInv, TypeInv, TypeOK, Maps
  <2>2. packet'.source = n /\ packet'.asks = packet.asks /\ verdict' = verdict
    BY <1>2 DEF Bind, IInv, TypeInv, TypeOK
  <2>3. /\ UNCHANGED << files, pending, prompt >> /\ pc'["cli"] = pc["cli"]
        /\ Serving' <=> Serving
    BY <1>0, <1>2 DEF Bind, Serving
  <2>4. DecidedNow' = DecidedNow /\ OpenNow' = OpenNow
    BY <2>3, SameDecisions DEF OpenNow
  <2>5. InHandNow.source = None /\ InHandNow' = [InHandNow EXCEPT !.source = n]
    BY <2>1, <2>2 DEF InHandNow
  <2>6. QED
    BY <2>1, <2>2, <2>4, <2>5 DEF Promise!Identify
<1>3. QED
  BY <1>1, <1>2

\* While a packet of a source is judged, memory and files agree on the source.
LEMMA JudgedByFiles ==
  ASSUME Hosts = {}, IInv, DurableInv, pc["main"] \in {"match", "ask"}, lock = "free"
  PROVE  /\ Serving
         /\ packet.source \in Names
         /\ ListAt(files, packet.source) = ListAt(RULES, packet.source)
         /\ \A t \in Targets :
              DecidedNow[packet.source][t] = MatchingAction(RULES, packet.source, t)
<1>1. pc["main"] # "stopping" /\ phase = "up" /\ pc["cli"] # "off"
  BY DEF IInv, ControlInv, PhaseInv, TypeInv, TypeOK, DurableInv, LoadedInv
<1>2. Serving /\ ~ Stopping /\ packet.source \in Names
  BY <1>1 DEF Serving, Stopping, IInv, TypeInv, WorkInv
<1>3. ListAt(files, packet.source) = ListAt(RULES, packet.source)
  BY <1>1, <1>2, FilesAreMemory DEF Abandoned
<1>4. \A t \in Targets : MatchingAction(files, packet.source, t) = MatchingAction(RULES, packet.source, t)
  BY <1>3, ListDecides
<1>5. QED
  BY <1>2, <1>3, <1>4 DEF DecidedNow

\* A packet is dropped without a question.
LEMMA PlainRefusal ==
  ASSUME IInv, Verdict("drop"), UNCHANGED << files, phase, pending, prompt >>,
         pc["main"] # "stopping"
  PROVE  Promise!Refuse
<1>1. DOMAIN pc = Threads
  BY DEF IInv, TypeInv, TypeOK
<1>2. pc'["cli"] = pc["cli"] /\ (Serving' <=> Serving) /\ packet' = NoPacket /\ verdict' = "drop"
  BY <1>1 DEF Verdict, Goto, Serving, Threads
<1>3. DecidedNow' = DecidedNow /\ OpenNow' = OpenNow
  BY <1>2, SameDecisions DEF OpenNow
<1>4. InHandNow' = Promise!NoPacket
  BY <1>2 DEF InHandNow, NoPacket, Promise!NoPacket
<1>5. QED
  BY <1>2, <1>3, <1>4 DEF Promise!Refuse

\* It is dropped and leaves a question that nobody has decided.
LEMMA AskRefuses ==
  ASSUME Hosts = {}, IInv, DurableInv, Ask
  PROVE  Promise!Refuse
<1> USE DEF dom0Vars, memoryVars, queueVars, packetVars, cliVars
<1>1. /\ pc["main"] = "ask" /\ lock = "free" /\ UNCHANGED << files, phase, prompt >>
      /\ Verdict("drop")
  BY DEF Ask, Asking
<1>2. CASE pending' = pending
  BY <1>1, <1>2, PlainRefusal
<1>3. CASE pending' = pending \cup {NewQuestion}
  <2>1. RULES' = RULES /\ MatchingAction(RULES, packet.source, Asked) = "none"
    BY <1>1, EnsureIdle DEF Ask, Asking, Current, Stopping, RecheckAction
  <2>2. packet.at \in DOMAIN packet.asks /\ Asked \in Targets
    <3>1. packet.asks \in Seq(Targets) /\ packet.at \in 1 .. Len(packet.asks)
      BY <1>1, EmptySeq, SourcesAssumption DEF IInv, TypeInv, TypeOK, WorkInv
    <3>2. QED
      BY <3>1, LenProperties DEF Asked
  <2>3. DecidedNow[packet.source][Asked] = "none"
    BY <1>1, <2>1, <2>2, JudgedByFiles
  <2>4. DOMAIN pc = Threads /\ pc["cli"] # "replace"
    BY <1>1 DEF IInv, TypeInv, TypeOK, ControlInv, LockInv
  <2>5. pc'["cli"] = pc["cli"] /\ (Serving' <=> Serving) /\ packet' = NoPacket /\ verdict' = "drop"
    BY <1>1, <2>4 DEF Verdict, Goto, Serving, Threads
  <2>6. DecidedNow' = DecidedNow
    BY <1>1, <2>5, SameDecisions
  <2>7. OpenNow' = OpenNow \cup {<< packet.source, Asked >>}
    <3>1. NewQuestion.source = packet.source /\ NewQuestion.target = Asked
      BY DEF NewQuestion
    <3>2. OpenNow = {<< q.source, q.target >> : q \in pending}
      BY <2>4, OpenQueue
    <3>3. OpenNow' = {<< q.source, q.target >> : q \in pending \cup {NewQuestion}}
      BY <1>3, <2>4, <2>5 DEF OpenNow
    <3>4. QED
      BY <3>1, <3>2, <3>3
  <2>8. InHandNow' = Promise!NoPacket /\ InHandNow.source = packet.source
        /\ InHandNow.asks = packet.asks
    BY <2>5 DEF InHandNow, NoPacket, Promise!NoPacket
  <2> DEFINE i == packet.at
  <2>9. /\ i \in DOMAIN InHandNow.asks /\ InHandNow.asks[i] = Asked
        /\ DecidedNow[InHandNow.source][InHandNow.asks[i]] = "none"
        /\ OpenNow' = OpenNow \cup {<< InHandNow.source, InHandNow.asks[i] >>}
    BY <2>2, <2>3, <2>7, <2>8 DEF Asked
  <2> HIDE DEF i
  <2>10. QED
    BY <2>5, <2>6, <2>8, <2>9 DEF Promise!Refuse
<1>4. QED
  BY <1>2, <1>3 DEF Ask

\* A question that is decided: the packet goes on, leaves or is dropped.
LEMMA JudgingSteps ==
  ASSUME Hosts = {}, IInv, DurableInv, PacketInv, Match \/ AskAnswered
  PROVE  Promise!Accept \/ Promise!Refuse \/ UNCHANGED Promise!vars
<1> USE DEF dom0Vars, memoryVars, queueVars, packetVars, cliVars
<1> DEFINE s == ListAt(RULES, packet.source)
           action == MatchingAction(RULES, packet.source, Asked)
<1>0. /\ DOMAIN pc = Threads /\ pc["main"] \in {"match", "ask"} /\ lock = "free"
      /\ UNCHANGED << files, phase, pending, prompt >>
  BY JudgingStep DEF Match, AskAnswered, IInv, TypeInv, TypeOK
<1>1. \/ Goto("main", "ask") /\ UNCHANGED packetVars
      \/ Obey(action) /\ action \in Actions
  BY JudgingStep
<1>2. CASE Goto("main", "ask") /\ UNCHANGED packetVars
  BY <1>0, <1>2, QuietStutters DEF Goto, Serving, Threads
<1>3. CASE Verdict("drop")
  BY <1>0, <1>3, PlainRefusal
<1>4. CASE packet' = [packet EXCEPT !.at = @ + 1] /\ Goto("main", "match") /\ UNCHANGED verdict
  <2>1. packet'.source = packet.source /\ packet'.asks = packet.asks
    BY <1>4 DEF IInv, TypeInv, TypeOK
  <2>2. pc'["cli"] = pc["cli"] /\ (Serving' <=> Serving)
    BY <1>0, <1>4 DEF Goto, Serving, Threads
  <2>3. QED
    BY <1>0, <1>4, <2>1, <2>2, QuietStutters
<1>5. CASE Verdict("accept")
  <2> DEFINE n == packet.source
  <2>1. packet.asks \in Seq(Targets) /\ n \in Names /\ packet.asks # << >>
    BY <1>0, EmptySeq, SourcesAssumption, JudgingStep DEF IInv, TypeInv, TypeOK, WorkInv
  <2>2. \A i \in DOMAIN packet.asks : packet.asks[i] \in Targets /\ Allowing(s, packet.asks[i])
    BY <1>5, <2>1, AcceptedPacket, LenProperties
  <2>3. \A t \in Targets : Allowing(s, t) => MatchingAction(RULES, n, t) = "allow"
    BY ListDecides DEF Allowing
  <2>4. \A i \in DOMAIN packet.asks : DecidedNow[n][packet.asks[i]] = "allow"
    BY <1>0, <2>2, <2>3, JudgedByFiles
  <2>5. pc'["cli"] = pc["cli"] /\ (Serving' <=> Serving) /\ packet' = NoPacket /\ verdict' = "accept"
    BY <1>0, <1>5 DEF Verdict, Goto, Serving, Threads
  <2>6. DecidedNow' = DecidedNow /\ OpenNow' = OpenNow
    BY <1>0, <2>5, SameDecisions DEF OpenNow
  <2>7. /\ InHandNow' = Promise!NoPacket /\ InHandNow.source = n
        /\ InHandNow.asks = packet.asks
    BY <2>5 DEF InHandNow, NoPacket, Promise!NoPacket
  <2>8. n # None
    BY <2>1, SourcesAssumption
  <2>9. QED
    BY <2>1, <2>4, <2>5, <2>6, <2>7, <2>8 DEF Promise!Accept
<1>6. QED
  BY <1>1, <1>2, <1>3, <1>4, <1>5 DEF Obey, Actions

\* The prompt checks and the claim of an answer only take questions away.
LEMMA WithdrawingSteps ==
  ASSUME IInv, CheckPrompt \/ ShowPrompt \/ ClaimAnswer
  PROVE  Promise!Withdraw
<1> USE DEF dom0Vars, memoryVars, queueVars, packetVars, cliVars, Goto, Threads
<1>0. DOMAIN pc = Threads
  BY DEF IInv, TypeInv, TypeOK
<1>1. /\ UNCHANGED << files, verdict, packet >> /\ pending' \subseteq pending
      /\ Serving' <=> Serving
  BY <1>0 DEF CheckPrompt, ShowPrompt, ClaimAnswer, DiscardPrompt, Discarded, BackToAccept, Serving
<1>2. pc["cli"] # "replace"
  BY <1>0 DEF CheckPrompt, ShowPrompt, ClaimAnswer
<1>3. OpenNow' \in SUBSET OpenNow
  <2>1. CASE CheckPrompt \/ ShowPrompt
    <3>1. pc'["cli"] # "replace"
      BY <1>0, <2>1 DEF CheckPrompt, ShowPrompt, DiscardPrompt, BackToAccept
    <3>2. QED
      BY <1>1, <1>2, <3>1 DEF OpenNow
  <2>2. CASE ClaimAnswer
    <3>1. prompt' = prompt /\ \E q \in pending : q.source = prompt.source /\ q.target = prompt.target
      BY <2>2 DEF ClaimAnswer, Claimable, SamePrompt
    <3>2. << prompt.source, prompt.target >> \in OpenNow
      BY <3>1 DEF OpenNow
    <3>3. OpenNow' \subseteq {<< q.source, q.target >> : q \in pending}
                              \cup {<< prompt.source, prompt.target >>}
      BY <1>1, <3>1 DEF OpenNow
    <3>4. QED
      BY <1>2, <3>2, <3>3, OpenQueue
  <2>3. QED
    BY <2>1, <2>2
<1>4. DecidedNow' = DecidedNow
  BY <1>1, SameDecisions
<1>5. QED
  BY <1>1, <1>3, <1>4 DEF Promise!Withdraw, InHandNow

\* What os.replace puts in place settles the question, and what else it covers.
LEMMA SettlingStep ==
  ASSUME Hosts = {}, IInv, DurableInv, QuestionInv, ReplaceFile
  PROVE  \/ Promise!Withdraw
         \/ \E n \in Names, answered \in SUBSET Targets, action \in {"allow", "reject"} :
              Promise!Settle(n, answered, action)
<1> USE DEF dom0Vars, memoryVars, queueVars, packetVars, cliVars, Goto, Threads
<1> DEFINE n == prompt.source
           s == ListAt(files, n)
<1>0. /\ DOMAIN pc = Threads /\ pc["cli"] = "replace" /\ IsRuleDict(files)
      /\ n \in Names /\ prompt.target \in Targets /\ answer \in Rule
  BY DEF IInv, TypeInv, TypeOK, WorkInv, ReplaceFile, Question
<1>1. /\ UNCHANGED << verdict, packet, pending, prompt, answer >>
      /\ files' = Put(files, n, draft) /\ (Serving' <=> Serving) /\ pc'["cli"] = "remember"
  BY <1>0 DEF ReplaceFile, Serving
<1>2. InHandNow' = InHandNow
  BY <1>1 DEF InHandNow
<1>3. OpenNow = OpenNow' \cup {<< n, prompt.target >>}
  BY <1>0, <1>1 DEF OpenNow
<1>4. /\ ListAt(files', n) = draft
      /\ \A m \in Names : m # n => ListAt(files', m) = ListAt(files, m)
  BY <1>1 DEF Put, ListAt
<1>5. CASE n \in Numbered /\ ~ Serving
  <2>1. \A m \in Names : \/ m \in Numbered /\ ~ Serving /\ ~ Serving'
                         \/ ListAt(files', m) = ListAt(files, m)
    BY <1>1, <1>4, <1>5
  <2>2. DecidedNow' = DecidedNow
    BY <1>1, <2>1, SameDecisions
  <2>3. QED
    BY <1>1, <1>2, <1>3, <2>2 DEF Promise!Withdraw
<1>6. CASE ~ (n \in Numbered /\ ~ Serving)
  <2> DEFINE action == answer.action
             answered == answer.covers
  <2>1. action \in {"allow", "reject"} /\ answered \in SUBSET Targets /\ prompt.target \in answered
    BY <1>0 DEF Rule, Actions, QuestionInv, AnswerInv
  <2>2. draft = Append(s, answer) /\ s \in Seq(Rule)
    <3>1. ~ Abandoned(n)
      BY <1>6 DEF Abandoned, Serving, Stopping
    <3>2. Yaml(answer) = answer
      BY <1>0 DEF Yaml, Rule
    <3>3. QED
      BY <1>0, <3>1, <3>2, ListAtTyped DEF DurableInv, DraftInv, NewData
  <2>3. ASSUME NEW t \in Targets
        PROVE  MatchingAction(files', n, t) =
                 IF t \in answered /\ MatchingAction(files, n, t) = "none" THEN action
                 ELSE MatchingAction(files, n, t)
    <3> HIDE DEF s
    <3> DEFINE old == MatchingAction(files, n, t)
    <3>1. /\ old = IF Matches(s, t) THEN s[FirstMatch(s, t)].action ELSE "none"
          /\ MatchingAction(files', n, t) =
               IF Matches(draft, t) THEN draft[FirstMatch(draft, t)].action ELSE "none"
      BY <1>4, ListDecides DEF s
    <3>2. /\ Matches(s, t) => /\ Matches(draft, t)
                              /\ draft[FirstMatch(draft, t)] = s[FirstMatch(s, t)]
          /\ ~ Matches(s, t) /\ t \in answer.covers =>
                /\ Matches(draft, t)
                /\ draft[FirstMatch(draft, t)] = answer
          /\ ~ Matches(s, t) /\ t \notin answer.covers => ~ Matches(draft, t)
      <4> HIDE DEF action, answered
      <4>1. s \in Seq(Rule) /\ answer \in Rule
        BY <1>0, <2>2
      <4>2. /\ Matches(s, t) => /\ Matches(Append(s, answer), t)
                                /\ Append(s, answer)[FirstMatch(Append(s, answer), t)]
                                     = s[FirstMatch(s, t)]
            /\ ~ Matches(s, t) /\ t \in answer.covers =>
                  /\ Matches(Append(s, answer), t)
                  /\ Append(s, answer)[FirstMatch(Append(s, answer), t)] = answer
            /\ ~ Matches(s, t) /\ t \notin answer.covers => ~ Matches(Append(s, answer), t)
        BY ONLY <4>1, AppendedDecision
      <4>3. QED
        BY <2>2, <4>2
    <3>3. CASE Matches(s, t)
      <4>1. s[FirstMatch(s, t)] \in Rule
        BY <2>2, <3>3, FirstMatchMatches, LenProperties
      <4>2. old # "none"
        BY <3>1, <3>3, <4>1 DEF Rule, Actions
      <4>3. MatchingAction(files', n, t) = old
        BY <3>1, <3>2, <3>3
      <4>4. QED
        BY <4>2, <4>3
    <3>4. CASE ~ Matches(s, t)
      BY <3>1, <3>2, <3>4
    <3>5. QED
      BY <3>3, <3>4
  <2>4. DecidedNow' =
          [DecidedNow EXCEPT ![n] =
             [t \in Targets |-> IF t \in answered /\ @[t] = "none" THEN action ELSE @[t]]]
    <3>1. ASSUME NEW m \in Names, m # n, NEW t \in Targets
          PROVE  DecidedNow'[m][t] = DecidedNow[m][t]
      BY <1>1, <1>4, <3>1, ListDecides DEF DecidedNow
    <3>2. ASSUME NEW t \in Targets
          PROVE  DecidedNow'[n][t] = IF t \in answered /\ DecidedNow[n][t] = "none" THEN action
                                     ELSE DecidedNow[n][t]
      BY <1>0, <1>1, <1>6, <2>3 DEF DecidedNow
    <3>3. /\ DecidedNow = [m \in Names |-> [t \in Targets |-> DecidedNow[m][t]]]
          /\ DecidedNow' = [m \in Names |-> [t \in Targets |-> DecidedNow'[m][t]]]
      BY DEF DecidedNow
    <3> HIDE DEF action, answered
    <3>4. QED
      BY <1>0, <3>1, <3>2, <3>3
  <2>5. OpenNow' = OpenNow \ ({n} \X answered)
    <3>1. OpenNow' = {<< q.source, q.target >> : q \in pending}
      BY <1>1 DEF OpenNow
    <3>2. \A q \in pending : << q.source, q.target >> \notin {n} \X answered
      BY <1>0 DEF QuestionInv, ClaimInv, AnsweredToo
    <3>3. << n, prompt.target >> \in {n} \X answered
      BY <2>1
    <3>4. QED
      BY <1>3, <3>1, <3>2, <3>3
  <2> HIDE DEF action, answered
  <2>6. << n, prompt.target >> \in OpenNow
    BY <1>3
  <2>7. Promise!Settle(n, answered, action)
    BY <1>1, <1>2, <2>1, <2>4, <2>5, <2>6 DEF Promise!Settle
  <2>8. QED
    BY <1>0, <2>1, <2>7
<1>7. QED
  BY <1>5, <1>6

LEMMA PromiseInit == Init => Promise!Init
<1> SUFFICES ASSUME Init PROVE Promise!Init
  OBVIOUS
<1>1. files = Nowhere /\ pending = {} /\ packet = NoPacket /\ verdict = "none"
      /\ pc["cli"] = "off"
  BY DEF Init, Threads
<1>2. DecidedNow = [n \in Names |-> Promise!Undecided]
  <2>1. \A n \in Names, t \in Targets : MatchingAction(files, n, t) = "none"
    BY <1>1, NowhereTyped DEF MatchingAction
  <2>2. QED
    BY <2>1 DEF DecidedNow, Promise!Undecided
<1>3. OpenNow = {} /\ InHandNow = Promise!NoPacket
  BY <1>1 DEF OpenNow, InHandNow, NoPacket, Promise!NoPacket
<1>4. QED
  BY <1>1, <1>2, <1>3 DEF Promise!Init

LEMMA PromiseStep ==
  ASSUME Hosts = {}, IInv, DurableInv, PacketInv, QuestionInv, [Next]_vars
  PROVE  [Promise!Next]_(Promise!vars)
<1> USE DEF dom0Vars, memoryVars, queueVars, packetVars, cliVars
<1>1. CASE Exit /\ files' \in {files, CleanedFiles(files)}
  BY <1>1, ExitStops DEF Promise!Next
<1>2. CASE \/ Dom0 \/ Start \/ StopPost \/ UNCHANGED vars
           \/ \E t \in {"main", "watcher"} : QueryDom0(t) \/ PublishNothing(t)
           \/ \E t \in Threads : Reload(t)
           \/ WatchRegister \/ ReadWatch \/ KnownCheck \/ Recheck
           \/ TakePrompt \/ KeepPrompt \/ Decide \/ IgnoreAnswer \/ RememberRule
  BY <1>2, StutteringSteps
<1>3. CASE LoadPolicy \/ StartupReload
  BY <1>3, StartupStutters
<1>4. CASE Sigterm \/ \E t \in {"main", "watcher"} : Publish(t)
  BY <1>4, ForgettingSteps DEF Promise!Next
<1>5. CASE Bind \/ \E src \in IPs, asks \in Packets : Receive(src, asks)
  BY <1>5, TakingSteps DEF Promise!Next
<1>6. CASE Attribute \/ RefuseMalformed \/ AskVanished
  <2>1. /\ Verdict("drop") /\ UNCHANGED << files, phase, pending, prompt >>
        /\ pc["main"] # "stopping"
    BY <1>6 DEF Attribute, RefuseMalformed, AskVanished
  <2>2. QED
    BY <2>1, PlainRefusal DEF Promise!Next
<1>7. CASE Ask
  BY <1>7, AskRefuses DEF Promise!Next
<1>8. CASE Match \/ AskAnswered
  BY <1>8, JudgingSteps DEF Promise!Next
<1>9. CASE CheckPrompt \/ ShowPrompt \/ ClaimAnswer
  BY <1>9, WithdrawingSteps DEF Promise!Next
<1>10. CASE ReplaceFile
  BY <1>10, SettlingStep DEF Promise!Next
<1>11. QED
  BY <1>1, <1>2, <1>3, <1>4, <1>5, <1>6, <1>7, <1>8, <1>9, <1>10, NextCases

(* The daemon implements UserDecisions: whatever its threads, dom0, the    *)
(* user and failures do, no packet leaves that was not decided "allow",    *)
(* nothing is decided that was not asked, no decision is revised, and none *)
(* about a numbered name outlives what it was about.                       *)
THEOREM Refines ==
  ASSUME Hosts = {}
  PROVE  Spec => ImplementsUserDecisions
<1>1. Init => Promise!Init
  BY PromiseInit
<1>2. IInv /\ DurableInv /\ PacketInv /\ QuestionInv /\ [Next]_vars => [Promise!Next]_(Promise!vars)
  BY PromiseStep
<1>3. QED
  BY <1>1, <1>2, QuestionInductive, PTL DEF Spec, ImplementsUserDecisions, Promise!Spec
===============================================================================
