----------------------------- MODULE LogBuckets -----------------------------
(***************************************************************************)
(* The reject-log throttle of alerts_runtime.py and the alerts built on    *)
(* it.  LOG_BUCKETS is one OrderedDict that the packet callback, the cli   *)
(* thread and the watcher change without a lock, so a step is one access   *)
(* to it, or the reading of the clock that a call begins with.  A table    *)
(* entry is [key, tokens, age]; the sequence is the dict's order, the      *)
(* oldest entry first.                                                     *)
(*                                                                         *)
(* A token has Unit parts and a tick adds Count of them, for the rate      *)
(* count/seconds of limit_rate.  A stamp of the clock is kept as its age.  *)
(***************************************************************************)
EXTENDS Integers, Sequences, FiniteSets, SequencesExt

CONSTANTS
    LogKeys,     \* reject-log keys of the callback
    AlertKeys,   \* AlertKeys[t]: keys of the alerts thread t raises
    FatalKeys,   \* FatalKeys[t]: keys of the fatal alerts of thread t, in the
                 \* order of the handlers an exception reaches
    MaxEntries,  \* config log_bucket_max_entries
    Burst, Unit, Count,
    MaxLag,      \* bound: ticks between a call's clock reading and its store
    None

Threads == {"main", "cli", "watcher"}

ASSUME BucketAssumption ==
    /\ MaxEntries \in Nat \ {0} /\ Burst \in Nat \ {0}
    /\ Unit \in Nat \ {0} /\ Count \in Nat \ {0} /\ MaxLag \in Nat
    /\ DOMAIN AlertKeys = Threads /\ DOMAIN FatalKeys = Threads

\* The keys one thread alone logs or alerts with: all but the fatal ones.
OwnKeys(t) == AlertKeys[t] \cup (IF t = "main" THEN LogKeys ELSE {})
LineKeys == UNION {OwnKeys(t) : t \in Threads}

ASSUME KeysAssumption ==
    \A t, u \in Threads :
        /\ FatalKeys[t] \in Seq(Range(FatalKeys[t]))
        /\ t # u => OwnKeys(t) \cap OwnKeys(u) = {}
        /\ \A h \in DOMAIN FatalKeys[u] : FatalKeys[u][h] \notin OwnKeys(t)

VARIABLES
    table,   \* LOG_BUCKETS
    pc,      \* where each thread is in log_allowed and its callers
    call,    \* what each thread is logging, and its locals
    lines,   \* history: lines[key] are the ages of the key's last Burst lines
             \* since its bucket was last missing, the latest first
    others   \* history: others[key] are the keys put at the end of the dict
             \* since the key last was; its domain, the keys ever put there

history == << lines, others >>
vars == << table, pc, call, lines, others >>

NoCall == [key |-> None, kind |-> "log", handler |-> 0, tokens |-> 0,
           allowed |-> FALSE, lag |-> 0]

Init ==
    /\ table = << >>
    /\ pc = [t \in Threads |-> "idle"]
    /\ call = [t \in Threads |-> NoCall]
    /\ lines = [key \in LineKeys |-> << >>]
    /\ others = << >>

(* fail_daemon in any thread, or an exception that leaves main(): the next *)
(* start begins with an empty table.                                       *)
Exit ==
    /\ table' = << >>
    /\ pc' = [t \in Threads |-> "idle"]
    /\ call' = [t \in Threads |-> NoCall]
    /\ lines' = [key \in LineKeys |-> << >>]
    /\ others' = << >>

Goto(t, label) == pc' = [pc EXCEPT ![t] = label]

\* Every bucket is full again after this many ticks, whichever clock reading
\* it is refilled with: ages stop there.
MaxAge == Burst * Unit + 2 * MaxLag
Capped(n) == IF n > MaxAge THEN MaxAge ELSE n

-------------------------------------------------------------------------------
(* What a thread logs: a throttled reject line, a security alert, or the   *)
(* fatal alert of an exception handler.  The call reads the clock first.   *)

Calls(t, key, kind, handler) ==
    /\ call' = [call EXCEPT ![t] = [NoCall EXCEPT !.key = key, !.kind = kind,
                                                  !.handler = handler]]
    /\ Goto(t, "get")

Log(key) ==
    /\ pc["main"] = "idle"
    /\ Calls("main", key, "log", 0)
    /\ UNCHANGED << table, history >>

Alert(t, key) ==
    /\ pc[t] = "idle"
    /\ Calls(t, key, "alert", 0)
    /\ UNCHANGED << table, history >>

\* A failed refresh, save, nft load or connection reaches a handler.
Fails(t) ==
    /\ pc[t] = "idle"
    /\ \E h \in DOMAIN FatalKeys[t] : Calls(t, FatalKeys[t][h], "fatal", h)
    /\ UNCHANGED << table, history >>

(* An exception inside log_allowed: the main thread's ends the process, a  *)
(* worker's reaches the next handler, which raises the fatal alert of its  *)
(* own; past the last one it ends the thread only.                         *)
Raise(t) ==
    IF t = "main" THEN Exit
    ELSE /\ IF call[t].handler < Len(FatalKeys[t])
            THEN Calls(t, FatalKeys[t][call[t].handler + 1], "fatal", call[t].handler + 1)
            ELSE Goto(t, "gone") /\ call' = [call EXCEPT ![t] = NoCall]
         /\ UNCHANGED << table, history >>

-------------------------------------------------------------------------------
(* log_allowed                                                             *)

At(key) == {i \in DOMAIN table : table[i].key = key}

\* tokens + (now - updated) * count / seconds, at most the burst.  An entry
\* stored by another thread may be newer than this thread's clock reading.
Refilled(bucket, elapsed) ==
    LET tokens == bucket.tokens + elapsed * Count
    IN  IF tokens > Burst * Unit THEN Burst * Unit ELSE tokens

BrokenEnough(tokens) == tokens > 0
Enough(tokens) == tokens >= Unit

BrokenSpent(tokens) == tokens
Spent(tokens) == tokens - Unit

Older(ages) == [i \in DOMAIN ages |-> Capped(ages[i] + 1)]
Latest(ages) == IF Len(ages) > Burst THEN Front(ages) ELSE ages

\* LOG_BUCKETS.get(key, (burst, now)), the refill and the decision.
Get(t) ==
    /\ pc[t] = "get"
    /\ LET key == call[t].key
           lag == call[t].lag
           old == At(key)
           bucket == IF old = {} THEN [tokens |-> Burst * Unit, age |-> lag]
                     ELSE table[CHOOSE i \in old : TRUE]
           tokens == Refilled(bucket, bucket.age - lag)
           allowed == Enough(tokens)
       IN  /\ call' = [call EXCEPT
                  ![t].allowed = allowed,
                  ![t].tokens = IF allowed THEN Spent(tokens) ELSE tokens]
           /\ lines' = [k \in LineKeys |-> IF k = key /\ old = {} THEN << >> ELSE lines[k]]
    /\ Goto(t, "assign")
    /\ UNCHANGED << table, others >>

\* A key's lines with the one of the call c that is about to be stored.
WithLine(c) == IF c.allowed THEN Latest(<< c.lag >> \o lines[c.key]) ELSE lines[c.key]

PutLast(key) ==
    others' = [k \in DOMAIN others \cup {key} |-> IF k = key THEN {} ELSE others[k] \cup {key}]

\* An existing key keeps its place, a new one goes to the end.
Assign(t) ==
    /\ pc[t] = "assign"
    /\ LET c == call[t]
           entry == [key |-> c.key, tokens |-> c.tokens, age |-> c.lag]
       IN  IF At(c.key) = {} THEN table' = Append(table, entry) /\ PutLast(c.key)
           ELSE /\ table' = [i \in DOMAIN table |-> IF i \in At(c.key) THEN entry ELSE table[i]]
                /\ UNCHANGED others
    /\ lines' = [k \in LineKeys |-> IF k = call[t].key THEN WithLine(call[t]) ELSE lines[k]]
    \* Only a shown alert still asks for the decision.
    /\ call' = [call EXCEPT ![t].tokens = 0, ![t].lag = 0,
                            ![t].allowed = @ /\ call[t].kind = "alert"]
    /\ Goto(t, "move")

BrokenMoveToEnd(t) ==
    /\ pc[t] = "move"
    /\ At(call[t].key) # {}
    /\ PutLast(call[t].key)
    /\ Goto(t, "evict")
    /\ UNCHANGED << table, call, lines >>

MoveToEnd(t) ==
    /\ pc[t] = "move"
    /\ \E i \in At(call[t].key) : table' = Append(RemoveAt(table, i), table[i])
    /\ PutLast(call[t].key)
    /\ Goto(t, "evict")
    /\ UNCHANGED << call, lines >>

\* KeyError: another thread has evicted the key since the assignment.
MoveFails(t) ==
    /\ pc[t] = "move"
    /\ At(call[t].key) = {}
    /\ Raise(t)

BrokenTooMany == Len(table) > MaxEntries + 1
TooMany == Len(table) > MaxEntries

\* The while condition and popitem are two accesses.
Evict(t) ==
    /\ pc[t] = "evict"
    /\ TooMany
    /\ Goto(t, "pop")
    /\ UNCHANGED << table, call, history >>

PopItem(t) ==
    /\ pc[t] = "pop"
    /\ table # << >>
    /\ table' = Tail(table)
    /\ Goto(t, "evict")
    /\ UNCHANGED << call, history >>

\* KeyError: the others have emptied the dict meanwhile.
PopFails(t) ==
    /\ pc[t] = "pop"
    /\ table = << >>
    /\ Raise(t)

(* log_allowed returns: a log line is written, an allowed alert is shown   *)
(* by notify-send, a fatal one ends the daemon, shown or suppressed.       *)
Return(t) ==
    /\ pc[t] = "evict"
    /\ ~ TooMany
    /\ IF call[t].kind = "fatal" THEN Exit
       ELSE /\ Goto(t, "idle")
            /\ call' = [call EXCEPT ![t] = NoCall]
            /\ UNCHANGED << table, history >>

\* notify-send failed: fail_daemon.
NotifyFails(t) ==
    /\ pc[t] = "evict"
    /\ ~ TooMany
    /\ call[t].kind = "alert" /\ call[t].allowed
    /\ Exit

-------------------------------------------------------------------------------
\* The threads whose reading of the clock is still to be stored.
Stamped == {t \in Threads : pc[t] \in {"get", "assign"}}

Tick ==
    /\ \A t \in Stamped : call[t].lag < MaxLag
    /\ table' = [i \in DOMAIN table |-> [table[i] EXCEPT !.age = Capped(@ + 1)]]
    /\ call' = [t \in Threads |-> IF t \in Stamped THEN [call[t] EXCEPT !.lag = @ + 1]
                                  ELSE call[t]]
    /\ lines' = [key \in LineKeys |-> Older(lines[key])]
    /\ UNCHANGED << pc, others >>

LogAllowed(t) == Get(t) \/ Assign(t) \/ MoveToEnd(t) \/ MoveFails(t) \/ Evict(t)
                 \/ PopItem(t) \/ PopFails(t) \/ Return(t)

Next ==
    \/ \E key \in LogKeys : Log(key)
    \/ \E t \in Threads : \/ \E key \in AlertKeys[t] : Alert(t, key)
                          \/ Fails(t) \/ LogAllowed(t) \/ NotifyFails(t)
    \/ Tick

Spec == Init /\ [][Next]_vars

-------------------------------------------------------------------------------
(* Properties *)

\* The table has one entry per key, with less than the burst and no more in
\* arrears than the clock readings of two threads can differ.
TypeOK ==
    /\ \A i \in DOMAIN table : /\ table[i].tokens \in -(MaxLag * Count) .. Burst * Unit - 1
                               /\ table[i].age \in 0 .. MaxAge
                               /\ At(table[i].key) = {i}
    /\ \A t \in Threads :
          /\ pc[t] \in {"idle", "get", "assign", "move", "evict", "pop", "gone"}
          /\ call[t].kind \in {"log", "alert", "fatal"}
          /\ call[t].tokens \in -(MaxLag * Count) .. Burst * Unit - 1
          /\ call[t].lag \in 0 .. MaxLag

Inserting == {t \in Threads : pc[t] \in {"move", "evict", "pop"}}

(* However the three threads interleave, the table exceeds its limit by no *)
(* more than the entries of the threads that are still inserting.          *)
TableIsBounded == Len(table) <= MaxEntries + Cardinality(Inserting)

(* By the clock readings of its calls, a key lets a line through only if   *)
(* the Burst-th last one is at least the time of a token old, and has one  *)
(* suppressed only if the last one is less than that old.  What a key let  *)
(* through is forgotten only when its bucket is missing and starts full.   *)
ThrottleKeepsItsRate ==
    \A t \in Threads :
        LET c == call[t]
            L == lines[c.key]
        IN  pc[t] = "assign" /\ c.key \in LineKeys =>
                IF c.allowed THEN Len(L) = Burst => (L[Burst] - c.lag) * Count >= Unit
                ELSE L # << >> /\ (L[1] - c.lag) * Count < Unit

Popping == {t \in Threads : pc[t] = "pop"}

(* The bucket about to be evicted is of the least recently used key: all   *)
(* the others in the table were used since.  And they fill the table but   *)
(* for one per thread that is not evicting: a thread's check of the length *)
(* and its popitem are two accesses, between which the others may pop too. *)
(* So a key that keeps being used keeps its bucket, and with it its rate.  *)
EvictsTheLeastUsed ==
    Popping # {} /\ table # << >> =>
        /\ \A i \in 2 .. Len(table) : table[i].key \in others[table[1].key]
        /\ Len(table) + Cardinality(Threads \ Popping) > MaxEntries

(* And a bucket once stored is missing only after that.                    *)
ForgetsOnlyWhenCrowded ==
    \A key \in DOMAIN others :
        At(key) # {} \/ Cardinality(others[key]) + Cardinality(Threads) - 1 >= MaxEntries

(* A worker thread does not end alone: whatever happens to its fatal alert, *)
(* the daemon ends ("raising there would only kill the worker, not the     *)
(* daemon", fail_daemon).                                                  *)
FatalEndsTheDaemon == \A t \in Threads : pc[t] # "gone"
=============================================================================
