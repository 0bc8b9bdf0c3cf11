---------------------------- MODULE LogBucketsProofs ----------------------------
(***************************************************************************)
(* The bound of the reject-log table, its order and the rate of its lines, *)
(* for every limit, rate and set of keys.                                  *)
(*                                                                         *)
(* The bound is not inductive: a thread that is about to fail in           *)
(* move_to_end counts as inserting although its entry is gone.  What is    *)
(* kept is that every entry beyond the limit is owed to a thread in the    *)
(* eviction loop, or to one whose key is still there to be moved.          *)
(*                                                                         *)
(* The order: the keys behind an entry were all used since its own was,    *)
(* and a thread that is about to pop leaves the table at its limit, but    *)
(* for the entries the others may pop first.                               *)
(*                                                                         *)
(* The rate is a key's: its bucket, in the table or in the hands of the    *)
(* one thread that logs with it, is bounded from above by what it still    *)
(* owes for the lines the key let through, and from below by the age of    *)
(* the last of them.  Both are linear in the ages, so the clock keeps them.*)
(***************************************************************************)
EXTENDS LogBuckets, SequenceTheorems, FiniteSetTheorems, TLAPS

KeysIn(s) == {s[i].key : i \in DOMAIN s}

Evicting == {t \in Threads : pc[t] \in {"evict", "pop"}}
Moving == {t \in Threads : pc[t] = "move"}
Placed == {call[t].key : t \in Moving} \cap KeysIn(table)

TableInv ==
    /\ DOMAIN pc = Threads /\ DOMAIN call = Threads
    /\ \E S : table \in Seq(S)
    /\ Len(table) <= MaxEntries + Cardinality(Evicting) + Cardinality(Placed)

-------------------------------------------------------------------------------
LEMMA ThreadSets ==
  ASSUME NEW T \in SUBSET Threads
  PROVE  IsFiniteSet(T) /\ Cardinality(T) \in Nat
<1>1. IsFiniteSet({"main"})
  BY FS_Singleton
<1>2. IsFiniteSet({"main"} \cup {"cli"})
  BY <1>1, FS_AddElement
<1>3. IsFiniteSet(({"main"} \cup {"cli"}) \cup {"watcher"})
  BY ONLY <1>2, FS_AddElement
<1>4. Threads = ({"main"} \cup {"cli"}) \cup {"watcher"}
  BY DEF Threads
<1>5. IsFiniteSet(Threads)
  BY <1>3, <1>4
<1>6. QED
  BY <1>5, FS_Subset, FS_CardinalityType

\* Threads hold at most as many keys as there are threads.
LEMMA KeySets ==
  ASSUME NEW T \in SUBSET Threads, NEW c, NEW K, K \subseteq {c[t].key : t \in T}
  PROVE  IsFiniteSet(K) /\ Cardinality(K) \in Nat /\ Cardinality(K) <= Cardinality(T)
<1> DEFINE all == {c[t].key : t \in T}
           f == [t \in T |-> c[t].key]
<1>1. f \in Surjection(T, all)
  BY DEF Surjection
<1>2. IsFiniteSet(all) /\ Cardinality(all) <= Cardinality(T)
  BY <1>1, ThreadSets, FS_Surjection
<1>3. IsFiniteSet(K) /\ Cardinality(K) <= Cardinality(all)
  BY <1>2, FS_Subset
<1>4. QED
  BY <1>2, <1>3, ThreadSets, FS_CardinalityType

LEMMA Counts ==
  /\ IsFiniteSet(Evicting) /\ Cardinality(Evicting) \in Nat
  /\ IsFiniteSet(Placed) /\ Cardinality(Placed) \in Nat
  /\ Cardinality(Placed) <= Cardinality(Moving) /\ Cardinality(Moving) \in Nat
<1>1. Evicting \in SUBSET Threads /\ Moving \in SUBSET Threads
  BY DEF Evicting, Moving
<1>2. QED
  BY <1>1, ThreadSets, KeySets DEF Placed

LEMMA CountsNext ==
  /\ IsFiniteSet(Evicting') /\ Cardinality(Evicting') \in Nat
  /\ IsFiniteSet(Placed') /\ Cardinality(Placed') \in Nat
<1>1. Evicting' \in SUBSET Threads /\ Moving' \in SUBSET Threads
  BY DEF Evicting, Moving
<1>2. Placed' \subseteq {call'[t].key : t \in Moving'}
  BY DEF Placed
<1>3. QED
  BY <1>1, <1>2, ThreadSets, KeySets

\* The table and its keys after each of the accesses of log_allowed.
LEMMA Appended ==
  ASSUME NEW S, NEW s \in Seq(S), NEW e
  PROVE  /\ \E T : Append(s, e) \in Seq(T)
         /\ Len(Append(s, e)) = Len(s) + 1
         /\ KeysIn(Append(s, e)) = KeysIn(s) \cup {e.key}
<1> DEFINE T == S \cup {e}
<1>1. s \in Seq(T) /\ e \in T
  BY SeqMonotonic
<1>2. /\ Append(s, e) \in Seq(T) /\ Len(s) \in Nat /\ DOMAIN s = 1 .. Len(s)
      /\ Len(Append(s, e)) = Len(s) + 1 /\ DOMAIN Append(s, e) = 1 .. Len(s) + 1
      /\ \A i \in 1 .. Len(s) : Append(s, e)[i] = s[i]
      /\ Append(s, e)[Len(s) + 1] = e
  <2> HIDE DEF T
  <2>1. QED
    BY <1>1, AppendProperties, LenProperties
<1>3. KeysIn(Append(s, e)) = KeysIn(s) \cup {e.key}
  <2>1. 1 .. Len(s) + 1 = 1 .. Len(s) \cup {Len(s) + 1}
    BY <1>2
  <2>2. QED
    BY <1>2, <2>1 DEF KeysIn
<1>4. QED
  BY <1>2, <1>3

\* The same entries in their places, changed but for their keys.
LEMMA Updated ==
  ASSUME NEW S, NEW s \in Seq(S), NEW g, DOMAIN g = DOMAIN s, g = [i \in DOMAIN g |-> g[i]],
         \A i \in DOMAIN s : g[i].key = s[i].key
  PROVE  (\E T : g \in Seq(T)) /\ Len(g) = Len(s) /\ KeysIn(g) = KeysIn(s)
<1> DEFINE T == {g[i] : i \in DOMAIN s}
           n == Len(s)
<1>1. n \in Nat /\ DOMAIN s = 1 .. n
  BY LenProperties
<1>2. g \in [1 .. n -> T]
  BY <1>1
<1>3. g \in Seq(T)
  BY <1>1, <1>2, SeqDef
<1>4. Len(g) = n
  BY <1>1, <1>2, <1>3, LenProperties
<1>5. QED
  BY <1>3, <1>4 DEF KeysIn

\* An entry goes to the end, those behind it move up by one.
LEMMA MovedIs ==
  ASSUME NEW S, NEW s \in Seq(S), NEW i \in DOMAIN s
  PROVE  LET m == Append(RemoveAt(s, i), s[i])
         IN  /\ m \in Seq(S) /\ Len(m) = Len(s) /\ Len(s) \in Nat
             /\ DOMAIN m = 1 .. Len(s) /\ DOMAIN s = 1 .. Len(s)
             /\ \A j \in 1 .. Len(s) : m[j] = IF j < i THEN s[j]
                                            ELSE IF j < Len(s) THEN s[j + 1] ELSE s[i]
<1> DEFINE n == Len(s)
           a == SubSeq(s, 1, i - 1)
           b == SubSeq(s, i + 1, n)
           r == a \o b
<1>1. n \in Nat /\ DOMAIN s = 1 .. n /\ i \in 1 .. n /\ \A j \in 1 .. n : s[j] \in S
  BY LenProperties
<1>2. a \in Seq(S) /\ Len(a) = i - 1 /\ \A j \in 1 .. i - 1 : a[j] = s[j]
  <2>1. 1 \in Int /\ i - 1 \in Int /\ \A j \in 1 .. i - 1 : s[j] \in S
    BY <1>1
  <2>2. a \in Seq(S) /\ Len(a) = (IF 1 <= i - 1 THEN i - 1 - 1 + 1 ELSE 0)
        /\ \A j \in 1 .. i - 1 - 1 + 1 : a[j] = s[1 + j - 1]
    BY <2>1, SubSeqProperties
  <2> HIDE DEF a
  <2>3. QED
    BY <1>1, <2>2
<1>3. b \in Seq(S) /\ Len(b) = n - i /\ \A j \in 1 .. n - i : b[j] = s[i + j]
  <2>1. i + 1 \in Int /\ n \in Int /\ \A j \in i + 1 .. n : s[j] \in S
    BY <1>1
  <2>2. b \in Seq(S) /\ Len(b) = (IF i + 1 <= n THEN n - (i + 1) + 1 ELSE 0)
        /\ \A j \in 1 .. n - (i + 1) + 1 : b[j] = s[i + 1 + j - 1]
    BY <2>1, SubSeqProperties
  <2> HIDE DEF b
  <2>3. Len(b) = n - i /\ n - (i + 1) + 1 = n - i
    BY <1>1, <2>2
  <2>4. \A j \in 1 .. n - i : i + 1 + j - 1 = i + j
    BY <1>1
  <2>5. QED
    BY <2>2, <2>3, <2>4
<1> HIDE DEF a, b
<1>4. r \in Seq(S) /\ Len(r) = Len(a) + Len(b)
      /\ \A j \in 1 .. Len(a) + Len(b) : r[j] = IF j <= Len(a) THEN a[j] ELSE b[j - Len(a)]
  BY <1>2, <1>3, ConcatProperties
<1> HIDE DEF r
<1>5. /\ Len(r) = n - 1 /\ DOMAIN r = 1 .. n - 1
      /\ \A j \in 1 .. n - 1 : r[j] = IF j <= i - 1 THEN a[j] ELSE b[j - (i - 1)]
  <2>1. Len(a) + Len(b) = n - 1
    BY <1>1, <1>2, <1>3
  <2>2. QED
    BY <1>2, <1>4, <2>1, LenProperties
<1>6. \A j \in 1 .. n - 1 : r[j] = IF j < i THEN s[j] ELSE s[j + 1]
  <2>1. ASSUME NEW j \in 1 .. n - 1, j < i
        PROVE  r[j] = s[j]
    <3>1. j <= i - 1 /\ j \in 1 .. i - 1
      BY <1>1, <2>1
    <3>2. QED
      BY <1>2, <1>5, <3>1
  <2>2. ASSUME NEW j \in 1 .. n - 1, ~ (j < i)
        PROVE  r[j] = s[j + 1]
    <3>1. ~ (j <= i - 1) /\ j - (i - 1) \in 1 .. n - i /\ i + (j - (i - 1)) = j + 1
      BY <1>1, <2>2
    <3>2. QED
      BY <1>3, <1>5, <3>1
  <2>3. QED
    BY <2>1, <2>2
<1> DEFINE m == Append(r, s[i])
<1>7. /\ m \in Seq(S) /\ Len(m) = n /\ DOMAIN m = 1 .. n
      /\ \A j \in 1 .. n - 1 : m[j] = r[j]
      /\ m[n] = s[i]
  <2>1. /\ m \in Seq(S) /\ Len(m) = Len(r) + 1
        /\ \A j \in 1 .. Len(r) : m[j] = r[j]
        /\ m[Len(r) + 1] = s[i]
    BY <1>1, <1>4, AppendProperties
  <2> HIDE DEF m
  <2>2. QED
    BY <1>1, <1>5, <2>1, LenProperties
<1> HIDE DEF m, n
<1>8. \A j \in 1 .. n : m[j] = IF j < i THEN s[j] ELSE IF j < n THEN s[j + 1] ELSE s[i]
  <2>1. ASSUME NEW j \in 1 .. n, j = n
        PROVE  m[j] = IF j < i THEN s[j] ELSE IF j < n THEN s[j + 1] ELSE s[i]
    BY <1>1, <1>7, <2>1
  <2>2. ASSUME NEW j \in 1 .. n, j # n
        PROVE  m[j] = IF j < i THEN s[j] ELSE IF j < n THEN s[j + 1] ELSE s[i]
    <3>1. j \in 1 .. n - 1 /\ j < n
      BY <1>1, <2>2
    <3>2. QED
      BY <1>6, <1>7, <3>1
  <2>3. QED
    BY <2>1, <2>2
<1>9. Append(RemoveAt(s, i), s[i]) = m
  BY DEF RemoveAt, a, b, r, m, n
<1>10. QED
  BY <1>1, <1>7, <1>8, <1>9 DEF n

LEMMA MovedToEnd ==
  ASSUME NEW S, NEW s \in Seq(S), NEW i \in DOMAIN s
  PROVE  LET m == Append(RemoveAt(s, i), s[i])
         IN  m \in Seq(S) /\ Len(m) = Len(s) /\ KeysIn(m) = KeysIn(s)
<1> DEFINE m == Append(RemoveAt(s, i), s[i])
           n == Len(s)
<1>1. /\ m \in Seq(S) /\ Len(m) = n /\ n \in Nat /\ DOMAIN m = 1 .. n /\ DOMAIN s = 1 .. n
      /\ \A j \in 1 .. n : m[j] = IF j < i THEN s[j] ELSE IF j < n THEN s[j + 1] ELSE s[i]
  BY MovedIs
<1> HIDE DEF m, n
<1>2. ASSUME NEW j \in 1 .. n
      PROVE  m[j].key \in KeysIn(s)
  <2>1. \E k \in 1 .. n : m[j] = s[k]
    <3>1. j < n => j + 1 \in 1 .. n
      BY <1>1
    <3>2. QED
      BY <1>1, <3>1
  <2>2. QED
    BY <1>1, <2>1 DEF KeysIn
<1>3. ASSUME NEW j \in 1 .. n
      PROVE  s[j].key \in KeysIn(m)
  <2>1. \E k \in 1 .. n : m[k] = s[j]
    <3>1. CASE j < i
      BY <1>1, <3>1
    <3>2. CASE j = i
      <4>1. n \in 1 .. n /\ ~ (n < i) /\ ~ (n < n)
        BY <1>1
      <4>2. QED
        BY <1>1, <3>2, <4>1
    <3>3. CASE j > i
      <4>1. j - 1 \in 1 .. n /\ ~ (j - 1 < i) /\ j - 1 < n /\ (j - 1) + 1 = j
        BY <1>1, <3>3
      <4>2. QED
        BY <1>1, <4>1
    <3>4. QED
      BY <1>1, <3>1, <3>2, <3>3
  <2>2. QED
    BY <1>1, <2>1 DEF KeysIn
<1>4. KeysIn(m) = KeysIn(s)
  BY <1>1, <1>2, <1>3 DEF KeysIn
<1>5. QED
  BY <1>1, <1>4 DEF m, n

-------------------------------------------------------------------------------
\* More threads to blame, or fewer entries.
LEMMA BoundKept ==
  ASSUME TableInv, Len(table) \in Nat, Len(table') \in Nat,
         \/ Len(table') <= MaxEntries
         \/ Len(table') <= Len(table) /\ Evicting \subseteq Evicting' /\ Placed \subseteq Placed'
  PROVE  Len(table') <= MaxEntries + Cardinality(Evicting') + Cardinality(Placed')
<1>1. CASE Len(table') <= MaxEntries
  BY <1>1, CountsNext, BucketAssumption
<1>2. CASE Len(table') <= Len(table) /\ Evicting \subseteq Evicting' /\ Placed \subseteq Placed'
  <2>1. Cardinality(Evicting) <= Cardinality(Evicting') /\ Cardinality(Placed) <= Cardinality(Placed')
    BY <1>2, CountsNext, FS_Subset
  <2>2. QED
    BY <1>2, <2>1, Counts, CountsNext, BucketAssumption DEF TableInv
<1>3. QED
  BY <1>1, <1>2

LEMMA ExitBound ==
  ASSUME Exit
  PROVE  TableInv'
<1>1. /\ table' = << >> /\ DOMAIN pc' = Threads /\ DOMAIN call' = Threads
      /\ << >> \in Seq({}) /\ Len(<< >>) = 0
  BY EmptySeq DEF Exit
<1>2. Len(table') <= MaxEntries + Cardinality(Evicting') + Cardinality(Placed')
  BY <1>1, CountsNext, BucketAssumption
<1>3. QED
  BY <1>1, <1>2 DEF TableInv

\* A thread that is not inserting, or whose key is gone, begins or ends a call.
LEMMA UncountedStep ==
  ASSUME TableInv, table' = table, DOMAIN pc' = Threads, DOMAIN call' = Threads,
         NEW t \in Threads,
         \/ pc[t] \notin {"move", "evict", "pop"}
         \/ pc[t] = "move" /\ At(call[t].key) = {}
         \/ Len(table) <= MaxEntries,
         \A o \in Threads \ {t} : pc'[o] = pc[o] /\ call'[o] = call[o]
  PROVE  TableInv'
<1>1. Len(table) \in Nat /\ (\E S : table' \in Seq(S))
  BY LenProperties DEF TableInv
<1>2. CASE pc[t] \notin {"move", "evict", "pop"} \/ (pc[t] = "move" /\ At(call[t].key) = {})
  <2>1. Evicting \subseteq Evicting'
    BY <1>2 DEF Evicting
  <2>2. ASSUME NEW k \in Placed PROVE k \in Placed'
    <3>1. PICK o \in Moving : k = call[o].key /\ k \in KeysIn(table)
      BY <2>2 DEF Placed
    <3>2. o # t
      BY <1>2, <3>1 DEF Moving, At, KeysIn
    <3>3. o \in Moving' /\ call'[o] = call[o]
      BY <3>1, <3>2 DEF Moving
    <3>4. QED
      BY <3>1, <3>3 DEF Placed
  <2>3. QED
    BY <1>1, <2>1, <2>2, BoundKept DEF TableInv
<1>3. CASE Len(table) <= MaxEntries
  BY <1>1, <1>3, BoundKept DEF TableInv
<1>4. QED
  BY <1>2, <1>3

\* The exception of a thread whose access to the table failed.
LEMMA RaiseBound ==
  ASSUME TableInv, NEW t \in Threads, Raise(t),
         \/ pc[t] = "move" /\ At(call[t].key) = {}
         \/ table = << >>
  PROVE  TableInv'
<1>1. CASE Exit
  BY <1>1, ExitBound
<1>2. CASE ~ Exit
  <2>1. /\ table' = table /\ DOMAIN pc' = Threads /\ DOMAIN call' = Threads
        /\ \A o \in Threads \ {t} : pc'[o] = pc[o] /\ call'[o] = call[o]
    BY <1>2 DEF Raise, Calls, Goto, TableInv
  <2>2. table = << >> => Len(table) <= MaxEntries
    BY EmptySeq, BucketAssumption
  <2>3. QED
    BY <2>1, <2>2, UncountedStep
<1>3. QED
  BY <1>1, <1>2

\* A new entry is owed to the thread that has still to move it.
LEMMA AssignBound ==
  ASSUME TableInv, NEW t \in Threads, Assign(t)
  PROVE  TableInv'
<1> DEFINE c == call[t]
           entry == [key |-> c.key, tokens |-> c.tokens, age |-> c.lag]
<1>1. PICK S : table \in Seq(S)
  BY DEF TableInv
<1>2. Len(table) \in Nat /\ entry.key = c.key
  BY <1>1, LenProperties
<1>3. /\ pc[t] = "assign" /\ DOMAIN pc = Threads /\ pc' = [pc EXCEPT ![t] = "move"]
      /\ DOMAIN call' = Threads /\ \A o \in Threads : call'[o].key = call[o].key
      /\ table' = IF At(c.key) = {} THEN Append(table, entry)
                  ELSE [i \in DOMAIN table |-> IF i \in At(c.key) THEN entry ELSE table[i]]
  <2>1. /\ call' = [call EXCEPT ![t] = [c EXCEPT !.tokens = 0, !.lag = 0,
                                               !.allowed = c.allowed /\ c.kind = "alert"]]
        /\ DOMAIN call = Threads
    BY DEF Assign, TableInv
  <2>2. DOMAIN call' = Threads /\ \A o \in Threads : call'[o].key = call[o].key
    BY <2>1
  <2>3. QED
    BY <2>2 DEF Assign, Goto, TableInv
<1> HIDE DEF entry
<1>4. Evicting' = Evicting /\ Moving' = Moving \cup {t} /\ t \notin Moving
  BY <1>3 DEF Evicting, Moving
<1>5. CASE At(c.key) = {}
  <2>1. /\ (\E T : table' \in Seq(T)) /\ Len(table') = Len(table) + 1
        /\ KeysIn(table') = KeysIn(table) \cup {c.key}
    BY <1>1, <1>2, <1>3, <1>5, Appended
  <2>2. c.key \notin Placed
    BY <1>5 DEF Placed, KeysIn, At
  <2>3. Placed \cup {c.key} \subseteq Placed'
    BY <1>3, <1>4, <2>1 DEF Placed
  <2>4. Cardinality(Placed \cup {c.key}) = Cardinality(Placed) + 1
    BY <2>2, Counts, FS_AddElement
  <2>5. Cardinality(Placed \cup {c.key}) <= Cardinality(Placed')
    BY <2>3, CountsNext, FS_Subset
  <2>6. Len(table') <= MaxEntries + Cardinality(Evicting') + Cardinality(Placed')
    BY <1>2, <1>4, <2>1, <2>4, <2>5, Counts, CountsNext, BucketAssumption DEF TableInv
  <2>7. QED
    BY <1>3, <2>1, <2>6 DEF TableInv
<1>6. CASE At(c.key) # {}
  <2>1. /\ DOMAIN table' = DOMAIN table /\ table' = [i \in DOMAIN table' |-> table'[i]]
        /\ \A i \in DOMAIN table : table'[i].key = table[i].key
    BY <1>2, <1>3, <1>6 DEF At
  <2>2. (\E T : table' \in Seq(T)) /\ Len(table') = Len(table) /\ KeysIn(table') = KeysIn(table)
    BY <1>1, <2>1, Updated
  <2>3. Placed \subseteq Placed'
    BY <1>3, <1>4, <2>2 DEF Placed
  <2>4. QED
    <3>1. Len(table') <= MaxEntries + Cardinality(Evicting') + Cardinality(Placed')
      BY <1>2, <1>4, <2>2, <2>3, BoundKept
    <3>2. DOMAIN pc' = Threads /\ DOMAIN call' = Threads
      BY <1>3 DEF TableInv
    <3>3. QED
      BY <2>2, <3>1, <3>2 DEF TableInv
<1>7. QED
  BY <1>5, <1>6

\* The thread takes the entry over into the eviction loop.
LEMMA MoveBound ==
  ASSUME TableInv, NEW t \in Threads, MoveToEnd(t)
  PROVE  TableInv'
<1>1. PICK S : table \in Seq(S)
  BY DEF TableInv
<1>2. /\ pc[t] = "move" /\ call' = call /\ DOMAIN pc = Threads /\ DOMAIN call = Threads
      /\ pc' = [pc EXCEPT ![t] = "evict"] /\ Len(table) \in Nat
  BY <1>1, LenProperties DEF MoveToEnd, Goto, TableInv
<1>3. PICK i \in DOMAIN table : table' = Append(RemoveAt(table, i), table[i])
  BY DEF MoveToEnd, At
<1>4. (\E T : table' \in Seq(T)) /\ Len(table') = Len(table) /\ KeysIn(table) \subseteq KeysIn(table')
  BY <1>1, <1>3, MovedToEnd
<1>5. Evicting' = Evicting \cup {t} /\ t \notin Evicting /\ Moving' = Moving \ {t}
  BY <1>2 DEF Evicting, Moving
<1>6. Placed \ {call[t].key} \subseteq Placed'
  BY <1>2, <1>4, <1>5 DEF Placed
<1>7. Cardinality(Evicting') = Cardinality(Evicting) + 1
  BY <1>5, Counts, FS_AddElement
<1>8. Cardinality(Placed) - 1 <= Cardinality(Placed \ {call[t].key})
  <2> DEFINE x == call[t].key
  <2> HIDE DEF x
  <2>1. Cardinality(Placed \ {x}) = IF x \in Placed THEN Cardinality(Placed) - 1
                                    ELSE Cardinality(Placed)
    BY ONLY Counts, FS_RemoveElement
  <2>2. Cardinality(Placed) - 1 <= Cardinality(Placed \ {x})
    BY <2>1, Counts
  <2>3. QED
    BY <2>2 DEF x
<1>9. Cardinality(Placed \ {call[t].key}) <= Cardinality(Placed')
  BY <1>6, CountsNext, FS_Subset
<1>10. Cardinality(Placed \ {call[t].key}) \in Nat
  BY Counts, FS_RemoveElement, FS_CardinalityType
<1>11. Len(table') <= MaxEntries + Cardinality(Evicting') + Cardinality(Placed')
  BY <1>2, <1>4, <1>7, <1>8, <1>9, <1>10, Counts, CountsNext, BucketAssumption DEF TableInv
<1>12. QED
  BY <1>2, <1>4, <1>11 DEF TableInv

\* What is popped is one entry, and with it at most one key to be moved.
LEMMA PopBound ==
  ASSUME TableInv, NEW t \in Threads, PopItem(t)
  PROVE  TableInv'
<1>1. PICK S : table \in Seq(S)
  BY DEF TableInv
<1>2. /\ pc[t] = "pop" /\ call' = call /\ DOMAIN pc = Threads /\ DOMAIN call = Threads
      /\ pc' = [pc EXCEPT ![t] = "evict"] /\ table # << >> /\ table' = Tail(table)
  BY DEF PopItem, Goto, TableInv
<1>3. /\ Len(table) \in Nat \ {0} /\ DOMAIN table = 1 .. Len(table)
      /\ table' \in Seq(S) /\ Len(table') = Len(table) - 1
      /\ DOMAIN table' = 1 .. Len(table) - 1
      /\ \A i \in 1 .. Len(table) - 1 : table'[i] = table[i + 1]
  BY <1>1, <1>2, EmptySeq, HeadTailProperties, LenProperties
<1>4. Evicting' = Evicting /\ Moving' = Moving
  BY <1>2 DEF Evicting, Moving
<1>5. KeysIn(table) \ {table[1].key} \subseteq KeysIn(table')
  <2>1. ASSUME NEW i \in DOMAIN table, i # 1
        PROVE  table[i].key \in KeysIn(table')
    <3>1. i - 1 \in 1 .. Len(table) - 1 /\ (i - 1) + 1 = i
      BY <1>3, <2>1
    <3>2. i - 1 \in DOMAIN table' /\ table'[i - 1] = table[i]
      BY <1>3, <3>1
    <3>3. QED
      BY <3>2 DEF KeysIn
  <2>2. QED
    BY <2>1 DEF KeysIn
<1>6. Placed \ {table[1].key} \subseteq Placed'
  BY <1>2, <1>4, <1>5 DEF Placed
<1>7. Cardinality(Placed) - 1 <= Cardinality(Placed \ {table[1].key})
  <2> DEFINE x == table[1].key
  <2> HIDE DEF x
  <2>1. Cardinality(Placed \ {x}) = IF x \in Placed THEN Cardinality(Placed) - 1
                                    ELSE Cardinality(Placed)
    BY ONLY Counts, FS_RemoveElement
  <2>2. Cardinality(Placed) - 1 <= Cardinality(Placed \ {x})
    BY <2>1, Counts
  <2>3. QED
    BY <2>2 DEF x
<1>8. Cardinality(Placed \ {table[1].key}) <= Cardinality(Placed')
  BY <1>6, CountsNext, FS_Subset
<1>9. Cardinality(Placed \ {table[1].key}) \in Nat
  BY Counts, FS_RemoveElement, FS_CardinalityType
<1>10. Len(table') <= MaxEntries + Cardinality(Evicting') + Cardinality(Placed')
  BY <1>3, <1>4, <1>7, <1>8, <1>9, Counts, CountsNext, BucketAssumption DEF TableInv
<1>11. QED
  BY <1>2, <1>3, <1>10 DEF TableInv

LEMMA TableStep ==
  ASSUME TableInv, [Next]_vars
  PROVE  TableInv'
<1>0. DOMAIN pc = Threads /\ DOMAIN call = Threads /\ \E S : table \in Seq(S)
  BY DEF TableInv
<1>1. CASE UNCHANGED vars
  BY <1>1 DEF TableInv, Evicting, Placed, Moving, vars, history
<1>2. CASE Exit
  BY <1>2, ExitBound
<1>3. ASSUME NEW t \in Threads, NEW key, NEW kind, NEW h,
             pc[t] = "idle", Calls(t, key, kind, h), table' = table
      PROVE  TableInv'
  BY <1>0, <1>3, UncountedStep DEF Calls, Goto
<1>4. CASE \E key \in LogKeys : Log(key)
  BY <1>3, <1>4 DEF Log, Threads
<1>5. ASSUME NEW t \in Threads, \/ \E key \in AlertKeys[t] : Alert(t, key)
                                \/ Fails(t) \/ LogAllowed(t) \/ NotifyFails(t)
      PROVE  TableInv'
  <2>1. CASE \E key \in AlertKeys[t] : Alert(t, key)
    BY <1>3, <2>1 DEF Alert
  <2>2. CASE Fails(t)
    BY <1>3, <2>2 DEF Fails
  <2>3. CASE Get(t)
    <3>1. /\ pc[t] = "get" /\ table' = table /\ DOMAIN pc' = Threads /\ DOMAIN call' = Threads
          /\ \A o \in Threads \ {t} : pc'[o] = pc[o] /\ call'[o] = call[o]
      BY <1>0, <2>3 DEF Get, Goto
    <3>2. QED
      BY <3>1, UncountedStep
  <2>4. CASE Assign(t)
    BY <2>4, AssignBound
  <2>5. CASE MoveToEnd(t)
    BY <2>5, MoveBound
  <2>6. CASE MoveFails(t) \/ PopFails(t)
    BY <2>6, RaiseBound DEF MoveFails, PopFails
  <2>7. CASE Evict(t)
    <3>1. /\ table' = table /\ call' = call /\ DOMAIN pc' = Threads
          /\ Evicting' = Evicting /\ Moving' = Moving
      BY <1>0, <2>7 DEF Evict, Goto, Evicting, Moving
    <3>2. Placed' = Placed
      BY <3>1 DEF Placed
    <3>3. QED
      BY <1>0, <3>1, <3>2 DEF TableInv
  <2>8. CASE PopItem(t)
    BY <2>8, PopBound
  <2>9. CASE Return(t)
    <3>1. CASE ~ Exit
      <4>1. /\ table' = table /\ DOMAIN pc' = Threads /\ DOMAIN call' = Threads
            /\ \A o \in Threads \ {t} : pc'[o] = pc[o] /\ call'[o] = call[o]
        BY <1>0, <2>9, <3>1 DEF Return, Goto
      <4>2. Len(table) <= MaxEntries
        BY <1>0, <2>9, LenProperties, BucketAssumption DEF Return, TooMany
      <4>3. QED
        BY <4>1, <4>2, UncountedStep
    <3>2. QED
      BY <1>2, <3>1
  <2>10. CASE NotifyFails(t)
    BY <1>2, <2>10 DEF NotifyFails
  <2>11. QED
    BY <1>5, <2>1, <2>2, <2>3, <2>4, <2>5, <2>6, <2>7, <2>8, <2>9, <2>10 DEF LogAllowed
<1>6. CASE Tick
  <2>1. /\ DOMAIN table' = DOMAIN table /\ table' = [i \in DOMAIN table' |-> table'[i]]
        /\ \A i \in DOMAIN table : table'[i].key = table[i].key
    <3>1. \A i \in DOMAIN table : [table[i] EXCEPT !.age = Capped(@ + 1)].key = table[i].key
      OBVIOUS
    <3>2. QED
      BY <1>6, <3>1 DEF Tick
  <2>2. (\E T : table' \in Seq(T)) /\ Len(table') = Len(table) /\ KeysIn(table') = KeysIn(table)
    BY <1>0, <2>1, Updated
  <2>3. pc' = pc /\ DOMAIN call' = Threads /\ \A t \in Threads : call'[t].key = call[t].key
    <3>1. \A t \in Threads :
            (IF t \in Stamped THEN [call[t] EXCEPT !.lag = @ + 1] ELSE call[t]).key = call[t].key
      OBVIOUS
    <3>2. QED
      BY <1>6, <3>1 DEF Tick
  <2>4. Evicting' = Evicting /\ Moving' = Moving /\ Placed' = Placed
    BY <2>2, <2>3 DEF Evicting, Moving, Placed
  <2>5. QED
    BY <1>0, <2>2, <2>3, <2>4 DEF TableInv
<1>7. QED
  BY <1>1, <1>4, <1>5, <1>6 DEF Next

LEMMA TableInit == Init => TableInv
<1> SUFFICES ASSUME Init PROVE TableInv
  OBVIOUS
<1>1. table = << >> /\ DOMAIN pc = Threads /\ DOMAIN call = Threads
      /\ << >> \in Seq({}) /\ Len(<< >>) = 0
  BY EmptySeq DEF Init
<1>2. QED
  BY <1>1, Counts, BucketAssumption DEF TableInv

(* However the three threads interleave, the table exceeds its limit by no *)
(* more than the entries of the threads that are still inserting.          *)
THEOREM TableBounded == Spec => []TableIsBounded
<1>1. Init => TableInv
  BY TableInit
<1>2. TableInv /\ [Next]_vars => TableInv'
  BY TableStep
<1>3. TableInv => TableIsBounded
  <2> SUFFICES ASSUME TableInv PROVE TableIsBounded
    OBVIOUS
  <2>1. Inserting = Evicting \cup Moving /\ Evicting \cap Moving = {}
    BY DEF Inserting, Evicting, Moving
  <2>2. IsFiniteSet(Moving) /\ Cardinality(Evicting \cup Moving)
          = Cardinality(Evicting) + Cardinality(Moving) - Cardinality(Evicting \cap Moving)
    <3>1. IsFiniteSet(Moving)
      BY ThreadSets DEF Moving
    <3>2. QED
      BY <3>1, Counts, FS_Union
  <2>3. Cardinality(Inserting) = Cardinality(Evicting) + Cardinality(Moving)
    <3>1. Cardinality(Evicting \cap Moving) = 0
      BY <2>1, FS_EmptySet
    <3>2. QED
      BY <2>1, <2>2, <3>1, Counts
  <2>4. Len(table) \in Nat
    BY LenProperties DEF TableInv
  <2>5. QED
    BY <2>3, <2>4, Counts, BucketAssumption DEF TableInv, TableIsBounded
<1>4. QED
  BY <1>1, <1>2, <1>3, PTL DEF Spec

-------------------------------------------------------------------------------
(* The order.  What was used since a key was is at least what is behind it. *)

OrderInv ==
    /\ IsFiniteSet(DOMAIN others)
    /\ \A key \in DOMAIN others : others[key] \subseteq DOMAIN others
    /\ \A i, j \in DOMAIN table : table[i].key = table[j].key => i = j
    /\ \A i \in DOMAIN table : table[i].key \in DOMAIN others
    /\ \A i, j \in DOMAIN table : i < j => table[j].key \in others[table[i].key]
    /\ Popping # {} => Len(table) + Cardinality(Threads \ Popping) >= MaxEntries + 1
    /\ ForgetsOnlyWhenCrowded

LEMMA ThreadCount == Cardinality(Threads) = 3
<1> DEFINE a == {"main"}
           b == a \cup {"cli"}
           c == b \cup {"watcher"}
<1>1. IsFiniteSet(a) /\ Cardinality(a) = 1
  BY FS_Singleton
<1>2. "cli" \notin a /\ "watcher" \notin b
  OBVIOUS
<1> HIDE DEF a
<1>3. IsFiniteSet(b) /\ Cardinality(b) = Cardinality(a) + 1
  BY <1>1, <1>2, FS_AddElement
<1> HIDE DEF b
<1>4. Cardinality(c) = Cardinality(b) + 1
  BY <1>2, <1>3, FS_AddElement
<1>5. Threads = c
  BY DEF Threads, a, b, c
<1>6. QED
  BY <1>1, <1>3, <1>4, <1>5

LEMMA OthersAre ==
  ASSUME OrderInv, NEW key \in DOMAIN others
  PROVE  IsFiniteSet(others[key]) /\ Cardinality(others[key]) \in Nat
BY FS_Subset, FS_CardinalityType DEF OrderInv

\* The keys behind the first entry are distinct, and as many as entries.
LEMMA Behind ==
  ASSUME TableInv, OrderInv, table # << >>
  PROVE  /\ Len(table) \in Nat \ {0} /\ 1 \in DOMAIN table /\ table[1].key \in DOMAIN others
         /\ Cardinality(others[table[1].key]) \in Nat
         /\ Cardinality(others[table[1].key]) >= Len(table) - 1
<1> DEFINE n == Len(table)
           K == others[table[1].key]
           f == [i \in 2 .. n |-> table[i].key]
<1>1. n \in Nat /\ DOMAIN table = 1 .. n /\ n # 0
  BY EmptySeq, LenProperties DEF TableInv
<1>2. 1 \in DOMAIN table /\ table[1].key \in DOMAIN others
  BY <1>1 DEF OrderInv
<1>3. IsFiniteSet(K) /\ Cardinality(K) \in Nat
  BY <1>2, OthersAre
<1>4. f \in Injection(2 .. n, K)
  <2>1. \A i \in 2 .. n : i \in DOMAIN table /\ 1 < i
    BY <1>1
  <2>2. f \in [2 .. n -> K]
    BY <1>2, <2>1 DEF OrderInv
  <2>3. \A i, j \in 2 .. n : f[i] = f[j] => i = j
    BY <2>1 DEF OrderInv
  <2>4. QED
    BY <2>2, <2>3 DEF Injection, IsInjective
<1>5. Cardinality(2 .. n) = n - 1
  <2>1. 2 \in Int /\ n \in Int
    BY <1>1
  <2>2. Cardinality(2 .. n) = IF 2 > n THEN 0 ELSE n - 2 + 1
    BY <2>1, FS_Interval
  <2>3. QED
    BY <1>1, <2>2
<1>6. IsFiniteSet(2 .. n) /\ Cardinality(2 .. n) <= Cardinality(K)
  BY <1>3, <1>4, FS_Injection
<1>7. QED
  BY <1>1, <1>2, <1>3, <1>5, <1>6

\* No more threads pop, no fewer entries are there: the limit is kept.
LEMMA PoppingKept ==
  ASSUME OrderInv, Len(table) \in Nat, Len(table') \in Nat, Len(table') >= Len(table),
         Popping' \subseteq Popping
  PROVE  Popping' # {} => Len(table') + Cardinality(Threads \ Popping') >= MaxEntries + 1
<1>1. /\ IsFiniteSet(Threads \ Popping') /\ Cardinality(Threads \ Popping') \in Nat
      /\ Cardinality(Threads \ Popping) \in Nat
  BY ThreadSets
<1>2. Cardinality(Threads \ Popping) <= Cardinality(Threads \ Popping')
  BY <1>1, FS_Subset
<1>3. QED
  BY <1>1, <1>2, BucketAssumption DEF OrderInv

\* The same keys in the same places.
LEMMA OrderKept ==
  ASSUME TableInv, OrderInv, others' = others, DOMAIN table' = DOMAIN table, Len(table') = Len(table),
         \A i \in DOMAIN table : table'[i].key = table[i].key,
         Popping' \subseteq Popping
  PROVE  OrderInv'
<1>1. \A key : At(key)' = At(key)
  BY DEF At
<1>2. ForgetsOnlyWhenCrowded'
  BY <1>1 DEF OrderInv, ForgetsOnlyWhenCrowded
<1>3. Len(table) \in Nat
  BY LenProperties DEF TableInv
<1>4. Popping' # {} => Len(table') + Cardinality(Threads \ Popping') >= MaxEntries + 1
  BY <1>3, PoppingKept
<1>5. QED
  BY <1>2, <1>4 DEF OrderInv

LEMMA ExitOrder ==
  ASSUME Exit
  PROVE  OrderInv'
<1>1. DOMAIN table' = {} /\ DOMAIN others' = {} /\ Popping' = {}
  BY EmptySeq DEF Exit, Popping
<1>2. IsFiniteSet(DOMAIN others')
  BY <1>1, FS_EmptySet
<1>3. QED
  BY <1>1, <1>2 DEF OrderInv, ForgetsOnlyWhenCrowded

\* A key is put at the end: it is newer than every other one.
LEMMA PutLastIs ==
  ASSUME OrderInv, NEW key, PutLast(key)
  PROVE  /\ DOMAIN others' = DOMAIN others \cup {key} /\ others'[key] = {}
         /\ \A k \in DOMAIN others : k # key => others'[k] = others[k] \cup {key}
         /\ IsFiniteSet(DOMAIN others')
         /\ \A k \in DOMAIN others' : others'[k] \subseteq DOMAIN others'
         /\ \A k \in DOMAIN others : k # key => Cardinality(others'[k]) \in Nat
                                             /\ Cardinality(others'[k]) >= Cardinality(others[k])
<1>1. /\ DOMAIN others' = DOMAIN others \cup {key} /\ others'[key] = {}
      /\ \A k \in DOMAIN others : k # key => others'[k] = others[k] \cup {key}
  BY DEF PutLast
<1>2. IsFiniteSet(DOMAIN others')
  BY <1>1, FS_AddElement DEF OrderInv
<1>3. \A k \in DOMAIN others' : others'[k] \subseteq DOMAIN others'
  BY <1>1 DEF OrderInv
<1>4. ASSUME NEW k \in DOMAIN others, k # key
      PROVE  Cardinality(others'[k]) \in Nat /\ Cardinality(others'[k]) >= Cardinality(others[k])
  <2>1. IsFiniteSet(others[k])
    BY OthersAre
  <2>2. IsFiniteSet(others'[k]) /\ others[k] \subseteq others'[k]
    BY <1>1, <1>4, <2>1, FS_AddElement
  <2>3. Cardinality(others[k]) <= Cardinality(others'[k])
    BY <2>2, FS_Subset
  <2>4. QED
    BY <2>1, <2>2, <2>3, FS_CardinalityType
<1>5. QED
  BY <1>1, <1>2, <1>3, <1>4

\* Nothing but the key that was put at the end can be in the table anew.
LEMMA CrowdKept ==
  ASSUME OrderInv, NEW key, PutLast(key), KeysIn(table') = KeysIn(table) \cup {key}
  PROVE  ForgetsOnlyWhenCrowded'
<1> SUFFICES ASSUME NEW k \in DOMAIN others', At(k)' = {}
             PROVE  Cardinality(others'[k]) + Cardinality(Threads) - 1 >= MaxEntries
  BY DEF ForgetsOnlyWhenCrowded
<1>1. k \notin KeysIn(table')
  BY DEF At, KeysIn
<1>2. k # key /\ k \in DOMAIN others /\ k \notin KeysIn(table)
  BY <1>1, PutLastIs
<1>3. At(k) = {}
  BY <1>2 DEF At, KeysIn
<1>4. Cardinality(others[k]) + Cardinality(Threads) - 1 >= MaxEntries
  BY <1>2, <1>3 DEF OrderInv, ForgetsOnlyWhenCrowded
<1>5. /\ Cardinality(others[k]) \in Nat /\ Cardinality(others'[k]) \in Nat
      /\ Cardinality(others'[k]) >= Cardinality(others[k])
  BY <1>2, PutLastIs, OthersAre
<1>6. QED
  BY <1>4, <1>5, ThreadCount, BucketAssumption

LEMMA AssignOrder ==
  ASSUME TableInv, OrderInv, NEW t \in Threads, Assign(t)
  PROVE  OrderInv'
<1> DEFINE c == call[t]
           entry == [key |-> c.key, tokens |-> c.tokens, age |-> c.lag]
           n == Len(table)
<1>1. PICK S : table \in Seq(S)
  BY DEF TableInv
<1>2. n \in Nat /\ DOMAIN table = 1 .. n /\ entry.key = c.key
  BY <1>1, LenProperties
<1>3. Popping' = Popping
  BY DEF Assign, Goto, TableInv, Popping
<1>4. CASE At(c.key) = {}
  <2>1. table' = Append(table, entry) /\ PutLast(c.key)
    BY <1>4 DEF Assign
  <2> HIDE DEF entry
  <2>2. /\ Len(table') = n + 1 /\ KeysIn(table') = KeysIn(table) \cup {c.key}
    BY <1>1, <1>2, <2>1, Appended
  <2>3. /\ DOMAIN table' = 1 .. n + 1 /\ \A i \in 1 .. n : table'[i] = table[i]
        /\ table'[n + 1] = entry
    <3> DEFINE T == S \cup {entry}
    <3>1. table \in Seq(T) /\ entry \in T
      BY <1>1, SeqMonotonic
    <3> HIDE DEF T
    <3>2. QED
      BY <2>1, <3>1, AppendProperties, LenProperties
  <2> HIDE DEF c, n
  <2>4. \A i \in 1 .. n : table'[i].key = table[i].key /\ table[i].key # c.key
                         /\ table[i].key \in DOMAIN others
    BY <1>2, <1>4, <2>3 DEF At, OrderInv
  <2>5. \A i \in 1 .. n + 1 : i \in 1 .. n \/ i = n + 1
    BY <1>2
  <2>6. \A i, j \in DOMAIN table' : table'[i].key = table'[j].key => i = j
    BY <1>2, <2>3, <2>4, <2>5 DEF OrderInv
  <2>7. \A i \in DOMAIN table' : table'[i].key \in DOMAIN others'
    <3>1. DOMAIN others' = DOMAIN others \cup {c.key}
      BY <2>1, PutLastIs
    <3>2. QED
      BY <1>2, <2>3, <2>4, <2>5, <3>1
  <2>8. ASSUME NEW i \in DOMAIN table', NEW j \in DOMAIN table', i < j
        PROVE  table'[j].key \in others'[table'[i].key]
    <3>1. i \in 1 .. n
      BY <1>2, <2>3, <2>5, <2>8
    <3>2. others'[table'[i].key] = others[table[i].key] \cup {c.key}
      BY <2>1, <2>4, <3>1, PutLastIs
    <3>3. CASE j = n + 1
      BY <1>2, <2>3, <3>2, <3>3
    <3>4. CASE j \in 1 .. n
      BY <1>2, <2>4, <2>8, <3>1, <3>2, <3>4 DEF OrderInv
    <3>5. QED
      BY <2>3, <2>5, <3>3, <3>4
  <2>9. ForgetsOnlyWhenCrowded'
    BY <2>1, <2>2, CrowdKept
  <2>10. Popping' # {} => Len(table') + Cardinality(Threads \ Popping') >= MaxEntries + 1
    BY <1>2, <1>3, <2>2, PoppingKept DEF n
  <2>11. QED
    BY <2>1, <2>6, <2>7, <2>8, <2>9, <2>10, PutLastIs DEF OrderInv
<1>5. CASE At(c.key) # {}
  <2>1. /\ others' = others
        /\ table' = [i \in DOMAIN table |-> IF i \in At(c.key) THEN entry ELSE table[i]]
    BY <1>5 DEF Assign
  <2>2. /\ DOMAIN table' = DOMAIN table /\ table' = [i \in DOMAIN table' |-> table'[i]]
        /\ \A i \in DOMAIN table : table'[i].key = table[i].key
    BY <1>2, <2>1 DEF At
  <2>3. Len(table') = Len(table)
    BY <1>1, <2>2, Updated
  <2>4. QED
    BY <1>3, <2>1, <2>2, <2>3, OrderKept
<1>6. QED
  BY <1>4, <1>5

LEMMA MoveOrder ==
  ASSUME TableInv, OrderInv, NEW t \in Threads, MoveToEnd(t)
  PROVE  OrderInv'
<1> DEFINE key == call[t].key
           n == Len(table)
<1>1. PICK S : table \in Seq(S)
  BY DEF TableInv
<1>2. PICK p \in DOMAIN table : table[p].key = key /\ table' = Append(RemoveAt(table, p), table[p])
  BY DEF MoveToEnd, At
<1>3. PutLast(key) /\ Popping' = Popping
  BY DEF MoveToEnd, Goto, TableInv, Popping
<1>4. /\ Len(table') = n /\ n \in Nat /\ DOMAIN table' = 1 .. n /\ DOMAIN table = 1 .. n
      /\ \A j \in 1 .. n : table'[j] = IF j < p THEN table[j] ELSE IF j < n THEN table[j + 1] ELSE table[p]
  BY <1>1, <1>2, MovedIs
<1>5. KeysIn(table') = KeysIn(table)
  BY <1>1, <1>2, MovedToEnd
<1> HIDE DEF key, n
<1>6. KeysIn(table') = KeysIn(table) \cup {key}
  BY <1>2, <1>5 DEF KeysIn
<1> DEFINE g(j) == IF j < p THEN j ELSE IF j < n THEN j + 1 ELSE p
<1>7. /\ \A j \in 1 .. n : g(j) \in 1 .. n /\ table'[j] = table[g(j)] /\ (g(j) = p <=> j = n)
      /\ \A i, j \in 1 .. n : g(i) = g(j) => i = j
      /\ \A i, j \in 1 .. n : i < j /\ j # n => g(i) < g(j)
  <2>1. p \in 1 .. n /\ n \in Nat
    BY <1>4
  <2>2. \A j \in 1 .. n : g(j) \in 1 .. n /\ (g(j) = p <=> j = n)
    BY <2>1
  <2>3. ASSUME NEW i \in 1 .. n, NEW j \in 1 .. n, g(i) = g(j)
        PROVE  i = j
    <3>1. /\ g(i) = IF i < p THEN i ELSE IF i < n THEN i + 1 ELSE p
          /\ g(j) = IF j < p THEN j ELSE IF j < n THEN j + 1 ELSE p
      OBVIOUS
    <3>2. g(i) \in 1 .. n /\ g(j) \in 1 .. n
      BY <2>2
    <3> HIDE DEF g
    <3>3. i \in Int /\ j \in Int /\ p \in Int /\ n \in Int /\ i <= n /\ j <= n /\ p <= n
      BY <2>1
    <3>4. CASE i = n \/ j = n
      BY <2>2, <2>3, <3>4
    <3>5. CASE i # n /\ j # n
      <4>1. i < n /\ j < n
        BY <3>3, <3>5
      <4>2. (g(i) = i /\ i < p) \/ (g(i) = i + 1 /\ i >= p)
        BY <3>1, <3>3, <4>1
      <4>3. (g(j) = j /\ j < p) \/ (g(j) = j + 1 /\ j >= p)
        BY <3>1, <3>3, <4>1
      <4>4. QED
        BY <2>3, <3>3, <4>2, <4>3
    <3>6. QED
      BY <3>4, <3>5
  <2>4. ASSUME NEW i \in 1 .. n, NEW j \in 1 .. n, i < j, j # n
        PROVE  g(i) < g(j)
    <3>1. i \in Int /\ j \in Int /\ p \in Int /\ n \in Int /\ i < n /\ j < n
      BY <2>1, <2>4
    <3>2. QED
      BY <2>4, <3>1
  <2>5. ASSUME NEW j \in 1 .. n
        PROVE  table'[j] = table[g(j)]
    <3>1. table'[j] = IF j < p THEN table[j] ELSE IF j < n THEN table[j + 1] ELSE table[p]
      BY <1>4
    <3>2. QED
      BY <3>1
  <2> HIDE DEF g
  <2>6. QED
    BY <2>2, <2>3, <2>4, <2>5
<1> HIDE DEF g
<1>8. \A i, j \in DOMAIN table' : table'[i].key = table'[j].key => i = j
  BY <1>4, <1>7 DEF OrderInv
<1>9. \A i \in 1 .. n : i # n => table'[i].key # key
  BY <1>2, <1>4, <1>7 DEF OrderInv
<1>10. \A i \in DOMAIN table' : table'[i].key \in DOMAIN others
  BY <1>4, <1>7 DEF OrderInv
<1>11. ASSUME NEW i \in DOMAIN table', NEW j \in DOMAIN table', i < j
       PROVE  table'[j].key \in others'[table'[i].key]
  <2>1. i \in 1 .. n /\ j \in 1 .. n /\ i # n
    BY <1>4, <1>11
  <2>2. others'[table'[i].key] = others[table'[i].key] \cup {key}
    BY <1>3, <1>9, <1>10, <2>1, PutLastIs
  <2>3. CASE j = n
    BY <1>2, <1>7, <2>1, <2>2, <2>3
  <2>4. CASE j # n
    <3>1. g(i) < g(j) /\ g(i) \in DOMAIN table /\ g(j) \in DOMAIN table
          /\ table'[i] = table[g(i)] /\ table'[j] = table[g(j)]
      BY <1>4, <1>7, <1>11, <2>1, <2>4
    <3>2. QED
      BY <2>2, <3>1 DEF OrderInv
  <2>5. QED
    BY <2>3, <2>4
<1>12. ForgetsOnlyWhenCrowded'
  BY <1>3, <1>6, CrowdKept
<1>13. Popping' # {} => Len(table') + Cardinality(Threads \ Popping') >= MaxEntries + 1
  BY <1>3, <1>4, PoppingKept DEF n
<1>14. QED
  BY <1>3, <1>8, <1>10, <1>11, <1>12, <1>13, PutLastIs DEF OrderInv

\* What is popped is the first entry, behind which the table was at its limit.
LEMMA PopOrder ==
  ASSUME TableInv, OrderInv, NEW t \in Threads, PopItem(t)
  PROVE  OrderInv'
<1> DEFINE n == Len(table)
           gone == table[1].key
<1>1. /\ t \in Popping /\ Popping' = Popping \ {t} /\ table # << >> /\ table' = Tail(table)
      /\ others' = others
  BY DEF PopItem, Goto, TableInv, Popping, history
<1>2. /\ n \in Nat \ {0} /\ DOMAIN table = 1 .. n /\ Len(table') = n - 1
      /\ DOMAIN table' = 1 .. n - 1 /\ \A i \in 1 .. n - 1 : table'[i] = table[i + 1]
  BY <1>1, EmptySeq, HeadTailProperties, LenProperties DEF TableInv
<1> HIDE DEF n
<1>3. \A i \in DOMAIN table' : i + 1 \in DOMAIN table /\ table'[i] = table[i + 1]
  BY <1>2
<1>4. \A i, j \in DOMAIN table' : i \in Nat /\ j \in Nat /\ (i + 1 = j + 1 => i = j)
                                /\ (i < j => i + 1 < j + 1)
  BY <1>2
<1>5. n + Cardinality(Threads \ Popping) >= MaxEntries + 1
  BY <1>1 DEF OrderInv, n
<1>6. /\ Cardinality(Threads \ Popping) \in Nat
      /\ Cardinality(Threads \ Popping') = Cardinality(Threads \ Popping) + 1
      /\ Cardinality(Threads \ Popping) <= 2
  <2> DEFINE R == Threads \ Popping
  <2>1. Threads \ Popping' = R \cup {t} /\ t \notin R /\ R \in SUBSET Threads /\ t \in Threads
    BY <1>1
  <2> HIDE DEF R
  <2>2. IsFiniteSet(R) /\ Cardinality(R) \in Nat /\ IsFiniteSet(Threads)
    BY <2>1, ThreadSets
  <2>3. Cardinality(R \cup {t}) = Cardinality(R) + 1
    BY <2>1, <2>2, FS_AddElement
  <2>4. R \cup {t} \subseteq Threads
    BY <2>1
  <2>5. Cardinality(R \cup {t}) <= 3
    BY <2>2, <2>4, FS_Subset, ThreadCount
  <2>6. QED
    BY <2>1, <2>2, <2>3, <2>5 DEF R
<1>7. Len(table') + Cardinality(Threads \ Popping') >= MaxEntries + 1
  BY <1>2, <1>5, <1>6, BucketAssumption
<1>8. ForgetsOnlyWhenCrowded'
  <2> SUFFICES ASSUME NEW k \in DOMAIN others', At(k)' = {}
               PROVE  Cardinality(others'[k]) + Cardinality(Threads) - 1 >= MaxEntries
    BY DEF ForgetsOnlyWhenCrowded
  <2>1. CASE k = gone
    <3>1. Cardinality(others[gone]) \in Nat /\ Cardinality(others[gone]) >= n - 1
      BY <1>1, Behind DEF n
    <3>2. QED
      BY <1>1, <1>2, <1>5, <1>6, <2>1, <3>1, ThreadCount, BucketAssumption
  <2>2. CASE k # gone
    <3>1. At(k) = {}
      <4>1. ASSUME NEW i \in DOMAIN table, table[i].key = k PROVE FALSE
        <5>1. i # 1 /\ i - 1 \in DOMAIN table' /\ (i - 1) + 1 = i
          BY <1>2, <2>2, <4>1
        <5>2. table'[i - 1].key = k
          BY <1>3, <4>1, <5>1
        <5>3. QED
          BY <5>1, <5>2 DEF At
      <4>2. QED
        BY <4>1 DEF At
    <3>2. QED
      BY <1>1, <3>1 DEF OrderInv, ForgetsOnlyWhenCrowded
  <2>3. QED
    BY <2>1, <2>2
<1>9. QED
  BY <1>1, <1>3, <1>4, <1>7, <1>8 DEF OrderInv

LEMMA OrderStep ==
  ASSUME TableInv, OrderInv, [Next]_vars
  PROVE  OrderInv'
<1>1. CASE UNCHANGED vars
  BY <1>1, OrderKept DEF vars, history, Popping
<1>2. CASE Exit
  BY <1>2, ExitOrder
<1>3. ASSUME NEW t \in Threads, pc[t] # "pop" \/ pc'[t] # "pop", pc'[t] # "pop",
             \A o \in Threads \ {t} : pc'[o] = pc[o], UNCHANGED << table, others >>
      PROVE  OrderInv'
  <2>1. Popping' \subseteq Popping
    BY <1>3 DEF Popping
  <2>2. QED
    BY <1>3, <2>1, OrderKept
<1>4. ASSUME NEW t \in Threads, NEW key, NEW kind, NEW h, Calls(t, key, kind, h),
             UNCHANGED << table, others >>
      PROVE  OrderInv'
  <2>1. pc'[t] = "get" /\ \A o \in Threads \ {t} : pc'[o] = pc[o]
    BY <1>4 DEF Calls, Goto, TableInv
  <2>2. QED
    BY <1>3, <1>4, <2>1
<1>5. CASE \E key \in LogKeys : Log(key)
  BY <1>4, <1>5 DEF Log, Threads, history
<1>6. ASSUME NEW t \in Threads, \/ \E key \in AlertKeys[t] : Alert(t, key)
                                \/ Fails(t) \/ LogAllowed(t) \/ NotifyFails(t)
      PROVE  OrderInv'
  <2>1. CASE (\E key \in AlertKeys[t] : Alert(t, key)) \/ Fails(t)
    BY <1>4, <2>1 DEF Alert, Fails, history
  <2>2. CASE Get(t)
    <3>1. pc'[t] = "assign" /\ (\A o \in Threads \ {t} : pc'[o] = pc[o]) /\ UNCHANGED << table, others >>
      BY <2>2 DEF Get, Goto, TableInv
    <3>2. QED
      BY <1>3, <3>1
  <2>3. CASE Assign(t)
    BY <2>3, AssignOrder
  <2>4. CASE MoveToEnd(t)
    BY <2>4, MoveOrder
  <2>5. CASE MoveFails(t) \/ PopFails(t)
    <3>1. Raise(t)
      BY <2>5 DEF MoveFails, PopFails
    <3>2. CASE ~ Exit /\ call[t].handler < Len(FatalKeys[t])
      BY <1>4, <3>1, <3>2 DEF Raise, history
    <3>3. CASE ~ Exit /\ ~ (call[t].handler < Len(FatalKeys[t]))
      <4>1. pc'[t] = "gone" /\ (\A o \in Threads \ {t} : pc'[o] = pc[o]) /\ UNCHANGED << table, others >>
        BY <3>1, <3>3 DEF Raise, Goto, TableInv, history
      <4>2. QED
        BY <1>3, <4>1
    <3>4. QED
      BY <1>2, <3>2, <3>3
  <2>6. CASE Evict(t)
    <3>1. UNCHANGED << table, others >> /\ TooMany
      BY <2>6 DEF Evict, history
    <3>2. Len(table) \in Nat /\ Cardinality(Threads \ Popping') \in Nat
      BY LenProperties, ThreadSets DEF TableInv
    <3>3. Len(table') + Cardinality(Threads \ Popping') >= MaxEntries + 1
      BY <3>1, <3>2, BucketAssumption DEF TooMany
    <3>4. ForgetsOnlyWhenCrowded'
      BY <3>1 DEF OrderInv, ForgetsOnlyWhenCrowded, At
    <3>5. QED
      BY <3>1, <3>3, <3>4 DEF OrderInv
  <2>7. CASE PopItem(t)
    BY <2>7, PopOrder
  <2>8. CASE Return(t)
    <3>1. CASE ~ Exit
      <4>1. pc'[t] = "idle" /\ (\A o \in Threads \ {t} : pc'[o] = pc[o]) /\ UNCHANGED << table, others >>
        BY <2>8, <3>1 DEF Return, Goto, TableInv, history
      <4>2. QED
        BY <1>3, <4>1
    <3>2. QED
      BY <1>2, <3>1
  <2>9. CASE NotifyFails(t)
    BY <1>2, <2>9 DEF NotifyFails
  <2>10. QED
    BY <1>6, <2>1, <2>2, <2>3, <2>4, <2>5, <2>6, <2>7, <2>8, <2>9 DEF LogAllowed
<1>7. CASE Tick
  <2>1. PICK S : table \in Seq(S)
    BY DEF TableInv
  <2>2. /\ DOMAIN table' = DOMAIN table /\ table' = [i \in DOMAIN table' |-> table'[i]]
        /\ \A i \in DOMAIN table : table'[i].key = table[i].key
    <3>1. \A i \in DOMAIN table : [table[i] EXCEPT !.age = Capped(@ + 1)].key = table[i].key
      OBVIOUS
    <3>2. QED
      BY <1>7, <3>1 DEF Tick
  <2>3. Len(table') = Len(table)
    BY <2>1, <2>2, Updated
  <2>4. others' = others /\ Popping' = Popping
    BY <1>7 DEF Tick, Popping
  <2>5. QED
    BY <2>2, <2>3, <2>4, OrderKept
<1>8. QED
  BY <1>1, <1>5, <1>6, <1>7 DEF Next

LEMMA OrderInit == Init => OrderInv
<1> SUFFICES ASSUME Init PROVE OrderInv
  OBVIOUS
<1>1. DOMAIN table = {} /\ DOMAIN others = {} /\ Popping = {}
  BY EmptySeq DEF Init, Popping
<1>2. IsFiniteSet(DOMAIN others)
  BY <1>1, FS_EmptySet
<1>3. QED
  BY <1>1, <1>2 DEF OrderInv, ForgetsOnlyWhenCrowded

\* A key has one entry, and what was used since its own last use is behind it.
THEOREM AlwaysOrdered == Spec => [](TableInv /\ OrderInv)
<1>1. Init => TableInv /\ OrderInv
  BY TableInit, OrderInit
<1>2. (TableInv /\ OrderInv) /\ [Next]_vars => (TableInv /\ OrderInv)'
  BY TableStep, OrderStep
<1>3. QED
  BY <1>1, <1>2, PTL DEF Spec

(* The bucket about to be evicted is of the key least recently used, and   *)
(* the others fill the table but for one per thread that is not evicting.  *)
THEOREM LeastUsedEvicted == Spec => []EvictsTheLeastUsed
<1>1. TableInv /\ OrderInv => EvictsTheLeastUsed
  <2> SUFFICES ASSUME TableInv, OrderInv, Popping # {}, table # << >>
               PROVE  /\ \A i \in 2 .. Len(table) : table[i].key \in others[table[1].key]
                      /\ Len(table) + Cardinality(Threads \ Popping) > MaxEntries
    BY DEF EvictsTheLeastUsed
  <2>1. Len(table) \in Nat /\ DOMAIN table = 1 .. Len(table) /\ 1 \in DOMAIN table
    BY Behind, LenProperties DEF TableInv
  <2>2. \A i \in 2 .. Len(table) : table[i].key \in others[table[1].key]
    BY <2>1 DEF OrderInv
  <2>3. Cardinality(Threads \ Popping) \in Nat
    BY ThreadSets
  <2>4. Len(table) + Cardinality(Threads \ Popping) > MaxEntries
    BY <2>1, <2>3, BucketAssumption DEF OrderInv
  <2>5. QED
    BY <2>2, <2>4
<1>2. QED
  BY <1>1, AlwaysOrdered, PTL

(* A key whose bucket is gone was not used for as many others as the table *)
(* holds, but for the two threads besides the one that evicted it.         *)
THEOREM CrowdedOut == Spec => []ForgetsOnlyWhenCrowded
<1>1. OrderInv => ForgetsOnlyWhenCrowded
  BY DEF OrderInv
<1>2. QED
  BY <1>1, AlwaysOrdered, PTL

-------------------------------------------------------------------------------
(* The rate.  A bucket is in arrears by a token for each line its key let   *)
(* through, which the time since then has paid back: that bounds its tokens *)
(* from above, and from below by the time since the last line alone.        *)

Full == Burst * Unit

Rated(tokens, age, L) ==
    /\ L # << >>
    /\ \A j \in DOMAIN L : L[j] = MaxAge \/ tokens + age * Count <= Full - j * Unit + L[j] * Count
    /\ age = MaxAge \/ tokens + age * Count >= L[1] * Count

IsEntry(e) ==
    /\ e = [key |-> e.key, tokens |-> e.tokens, age |-> e.age]
    /\ e.tokens \in -(MaxLag * Count) .. Full - 1 /\ e.age \in 0 .. MaxAge
    /\ e.tokens + e.age * Count >= 0

IsCall(c) ==
    /\ c = [key |-> c.key, kind |-> c.kind, handler |-> c.handler, tokens |-> c.tokens,
            allowed |-> c.allowed, lag |-> c.lag]
    /\ c.kind \in {"log", "alert", "fatal"} /\ c.handler \in Nat
    /\ c.tokens \in -(MaxLag * Count) .. Full - 1 /\ c.lag \in 0 .. MaxLag

Kept(allowed, lag, L) ==
    IF allowed THEN Len(L) = Burst => (L[Burst] - lag) * Count >= Unit
    ELSE L # << >> /\ (L[1] - lag) * Count < Unit

\* The keys of the decisions under way, and the lines each would leave.
Decided == {call[t].key : t \in {u \in Threads : pc[u] = "assign"}}
Pending == [t \in Threads |-> WithLine(call[t])]

BucketInv ==
    /\ \A i \in DOMAIN table : IsEntry(table[i])
    /\ \A t \in Threads :
          /\ pc[t] \in {"idle", "get", "assign", "move", "evict", "pop", "gone"}
          /\ IsCall(call[t])
          /\ pc[t] = "assign" => call[t].tokens + call[t].lag * Count >= 0

LineInv ==
    /\ DOMAIN lines = LineKeys
    /\ \A key \in LineKeys : lines[key] \in Seq(0 .. MaxAge) /\ Len(lines[key]) <= Burst
    /\ \A i \in DOMAIN table : table[i].key \in LineKeys /\ table[i].key \notin Decided =>
          Rated(table[i].tokens, table[i].age, lines[table[i].key])
    /\ \A t \in Threads : pc[t] \in {"get", "assign"} /\ call[t].key \in LineKeys =>
          call[t].key \in OwnKeys(t)
    /\ \A t \in Threads : pc[t] = "assign" /\ call[t].key \in LineKeys =>
          /\ Rated(call[t].tokens, call[t].lag, Pending[t])
          /\ Kept(call[t].allowed, call[t].lag, lines[call[t].key])

\* What the parts of a token, the burst and the ages are as numbers.
LEMMA Parts ==
  /\ Full \in Nat \ {0} /\ Unit <= Full /\ Unit \in Nat \ {0} /\ Burst \in Nat \ {0}
  /\ MaxLag \in Nat /\ MaxAge = Full + 2 * MaxLag /\ MaxAge \in Nat \ {0} /\ MaxLag + Full <= MaxAge
  /\ \A j \in Nat : j * Unit \in Nat /\ (j + 1) * Unit = j * Unit + Unit
  /\ 1 * Unit = Unit /\ Burst * Unit = Full
<1>1. Unit \in Nat \ {0} /\ Burst \in Nat \ {0} /\ MaxLag \in Nat
  BY BucketAssumption
<1>2. \A j \in Nat : j * Unit \in Nat /\ (j + 1) * Unit = j * Unit + Unit
  BY <1>1
<1>3. ASSUME NEW j \in Nat, j <= Burst
      PROVE  j * Unit <= Burst * Unit
  BY <1>1, <1>3
<1>4. Burst * Unit \in Nat /\ 1 * Unit = Unit /\ 1 * Unit <= Burst * Unit
  BY <1>1, <1>2, <1>3
<1>5. Full \in Nat \ {0} /\ Unit <= Full /\ Burst * Unit = Full
  BY <1>1, <1>4 DEF Full
<1>6. MaxAge = Full + 2 * MaxLag
  BY DEF MaxAge, Full
<1>7. QED
  BY <1>1, <1>2, <1>4, <1>5, <1>6

LEMMA Times ==
  /\ \A n \in Int : n * Count \in Int
  /\ \A n \in Nat : n * Count \in Nat /\ n * Count >= n
  /\ \A m, n \in Int : (m + n) * Count = m * Count + n * Count
  /\ \A m, n \in Int : (m - n) * Count = m * Count - n * Count
  /\ \A m, n \in Nat : m <= n => m * Count <= n * Count
  /\ 0 * Count = 0 /\ 1 * Count = Count /\ Count \in Nat \ {0}
<1>1. Count \in Nat \ {0}
  BY BucketAssumption
<1>2. /\ \A n \in Int : n * Count \in Int
      /\ \A n \in Nat : n * Count \in Nat /\ n * Count >= n
      /\ \A m, n \in Int : (m + n) * Count = m * Count + n * Count
      /\ \A m, n \in Int : (m - n) * Count = m * Count - n * Count
      /\ 0 * Count = 0 /\ 1 * Count = Count
  BY <1>1
<1>3. ASSUME NEW m \in Nat, NEW n \in Nat, m <= n
      PROVE  m * Count <= n * Count
  <2>1. n - m \in Nat /\ n - m \in Int /\ m \in Int /\ n = m + (n - m)
    BY <1>3
  <2>2. n * Count = m * Count + (n - m) * Count /\ (n - m) * Count \in Nat /\ m * Count \in Nat
    BY <1>2, <2>1, Zenon
  <2>3. QED
    BY <2>2
<1>4. QED
  BY <1>1, <1>2, <1>3

LEMMA CappedIs ==
  ASSUME NEW n \in 0 .. MaxAge
  PROVE  /\ Capped(n + 1) \in 0 .. MaxAge
         /\ (n # MaxAge /\ Capped(n + 1) = n + 1) \/ (n = MaxAge /\ Capped(n + 1) = MaxAge)
BY Parts DEF Capped

\* The clock keeps a bucket rated.
LEMMA Ages ==
  ASSUME NEW tokens \in -(MaxLag * Count) .. Full - 1, NEW age \in 0 .. MaxAge,
         NEW L \in Seq(0 .. MaxAge), Rated(tokens, age, L),
         NEW M, DOMAIN M = DOMAIN L, M # << >>, \A j \in DOMAIN L : M[j] = Capped(L[j] + 1)
  PROVE  Rated(tokens, Capped(age + 1), M)
<1> DEFINE a == Capped(age + 1)
<1>1. DOMAIN L = 1 .. Len(L) /\ Len(L) \in Nat /\ \A j \in DOMAIN L : L[j] \in 0 .. MaxAge
  BY LenProperties, ElementOfSeq
<1>2. 1 \in DOMAIN L
  <2>1. Len(L) # 0
    BY EmptySeq DEF Rated
  <2>2. QED
    BY <1>1, <2>1
<1>3. /\ a \in 0 .. MaxAge /\ a \in Nat /\ age \in Nat /\ MaxAge \in Nat
      /\ (a = age + 1 \/ (age = MaxAge /\ a = MaxAge))
  BY CappedIs, Parts
<1>4. tokens \in Int
  BY Parts, Times
<1>5. /\ age * Count \in Int /\ a * Count \in Int /\ a * Count <= age * Count + Count
      /\ (a # MaxAge => a * Count = age * Count + Count) /\ Count \in Nat
  <2>1. age \in Int /\ 1 \in Int /\ a \in Int
    BY <1>3
  <2> HIDE DEF a
  <2>2. (age + 1) * Count = age * Count + 1 * Count /\ age * Count \in Int /\ a * Count \in Int
        /\ 1 * Count = Count /\ Count \in Nat
    BY <2>1, Times, Zenon
  <2>3. CASE a = age + 1
    BY <2>2, <2>3
  <2>4. CASE a = age /\ age = MaxAge
    BY <2>2, <2>4
  <2>5. QED
    BY <1>3, <2>3, <2>4
<1> HIDE DEF a
<1>6. ASSUME NEW j \in DOMAIN L, M[j] # MaxAge
      PROVE  L[j] # MaxAge /\ M[j] * Count = L[j] * Count + Count /\ L[j] * Count \in Int
  <2>1. L[j] \in 0 .. MaxAge /\ M[j] = Capped(L[j] + 1)
    BY <1>1
  <2>2. L[j] # MaxAge /\ M[j] = L[j] + 1 /\ L[j] \in Int /\ 1 \in Int
    BY <1>3, <1>6, <2>1, CappedIs
  <2>3. (L[j] + 1) * Count = L[j] * Count + 1 * Count /\ 1 * Count = Count /\ L[j] * Count \in Int
    BY <2>2, Times, Zenon
  <2>4. QED
    BY <2>2, <2>3
<1>7. ASSUME NEW j \in DOMAIN M
      PROVE  M[j] = MaxAge \/ tokens + a * Count <= Full - j * Unit + M[j] * Count
  <2> SUFFICES ASSUME M[j] # MaxAge
               PROVE  tokens + a * Count <= Full - j * Unit + M[j] * Count
    OBVIOUS
  <2>1. L[j] # MaxAge /\ M[j] * Count = L[j] * Count + Count /\ L[j] * Count \in Int
    BY <1>6
  <2>2. tokens + age * Count <= Full - j * Unit + L[j] * Count
    BY <2>1 DEF Rated
  <2>3. j \in Nat /\ j * Unit \in Nat /\ Full \in Nat
    BY <1>1, Parts
  <2> DEFINE u == a * Count
             v == age * Count
             w == L[j] * Count
             x == M[j] * Count
             y == j * Unit
  <2>4. /\ u \in Int /\ v \in Int /\ w \in Int /\ y \in Nat /\ Full \in Nat /\ Count \in Nat
        /\ x = w + Count /\ u <= v + Count /\ tokens + v <= Full - y + w
    BY <1>5, <2>1, <2>2, <2>3
  <2> HIDE DEF u, v, w, x, y
  <2>5. tokens + u <= Full - y + x
    BY <1>4, <2>4
  <2>6. QED
    BY <2>5 DEF u, x, y
<1>8. a = MaxAge \/ tokens + a * Count >= M[1] * Count
  <2> SUFFICES ASSUME a # MaxAge
               PROVE  tokens + a * Count >= M[1] * Count
    OBVIOUS
  <2>1. age # MaxAge /\ tokens + age * Count >= L[1] * Count
    BY <1>3 DEF Rated
  <2>2. /\ M[1] * Count <= L[1] * Count + Count /\ M[1] * Count \in Int /\ L[1] * Count \in Int
    <3>1. L[1] \in 0 .. MaxAge /\ M[1] = Capped(L[1] + 1)
      BY <1>1, <1>2
    <3>2. M[1] = MaxAge => M[1] \in Nat /\ L[1] + 1 \in Nat /\ M[1] <= L[1] + 1
      BY <1>3, <3>1, CappedIs
    <3>3. L[1] \in Int /\ 1 \in Int
      BY <3>1
    <3>4. (L[1] + 1) * Count = L[1] * Count + 1 * Count /\ 1 * Count = Count /\ L[1] * Count \in Int
          /\ Count \in Nat
      BY <3>3, Times, Zenon
    <3>5. CASE M[1] = MaxAge
      <4>1. M[1] * Count <= (L[1] + 1) * Count /\ M[1] * Count \in Int
        BY <3>2, <3>5, Times
      <4>2. QED
        BY <3>4, <4>1
    <3>6. CASE M[1] # MaxAge
      BY <1>2, <1>6, <3>4, <3>6
    <3>7. QED
      BY <3>5, <3>6
  <2>3. a * Count = age * Count + Count
    BY <1>5
  <2> DEFINE u == a * Count
             v == age * Count
             w == L[1] * Count
             x == M[1] * Count
  <2>4. /\ u \in Int /\ v \in Int /\ w \in Int /\ x \in Int /\ Count \in Nat
        /\ u = v + Count /\ x <= w + Count /\ tokens + v >= w
    BY <1>5, <2>1, <2>2, <2>3
  <2> HIDE DEF u, v, w, x
  <2>5. tokens + u >= x
    BY <1>4, <2>4
  <2>6. QED
    BY <2>5 DEF u, x
<1>9. QED
  BY <1>7, <1>8 DEF Rated, a

\* The history with one more line in it.
LEMMA LatestIs ==
  ASSUME NEW g \in Seq(0 .. MaxAge), Len(g) <= Burst, NEW age \in 0 .. MaxAge
  PROVE  LET h == Latest(<< age >> \o g)
         IN  /\ h \in Seq(0 .. MaxAge) /\ h # << >> /\ Len(h) <= Burst
             /\ DOMAIN h = 1 .. (IF Len(g) = Burst THEN Burst ELSE Len(g) + 1)
             /\ 1 \in DOMAIN h /\ h[1] = age
             /\ \A j \in DOMAIN h : j = 1 \/ (j - 1 \in DOMAIN g /\ h[j] = g[j - 1])
<1> DEFINE S == 0 .. MaxAge
           n == Len(g)
           w == << age >> \o g
           f == SubSeq(w, 1, Len(w) - 1)
           h == Latest(w)
<1>1. age \in S /\ g \in Seq(S) /\ n \in Nat /\ DOMAIN g = 1 .. n /\ n <= Burst /\ Burst \in Nat \ {0}
  BY Parts, LenProperties
<1>2. << age >> \in Seq(S) /\ Len(<< age >>) = 1 /\ << age >>[1] = age
  BY <1>1
<1> HIDE DEF S
<1>3. /\ w \in Seq(S) /\ Len(w) = n + 1 /\ DOMAIN w = 1 .. n + 1
      /\ w[1] = age /\ \A j \in 2 .. n + 1 : j - 1 \in DOMAIN g /\ w[j] = g[j - 1]
  <2> DEFINE z == << age >>
  <2> HIDE DEF z
  <2>1. z \in Seq(S) /\ Len(z) = 1 /\ z[1] = age
    BY <1>2 DEF z
  <2>2. /\ z \o g \in Seq(S) /\ Len(z \o g) = Len(z) + n
        /\ \A j \in 1 .. Len(z) + n : (z \o g)[j] = IF j <= Len(z) THEN z[j] ELSE g[j - Len(z)]
    BY <1>1, <2>1, ConcatProperties
  <2>3. w = z \o g
    BY DEF z
  <2> HIDE DEF w
  <2>4. QED
    BY <1>1, <2>1, <2>2, <2>3, LenProperties
<1> HIDE DEF w
<1>4. n # 0 => f \in Seq(S) /\ Len(f) = n /\ DOMAIN f = 1 .. n /\ \A j \in 1 .. n : f[j] = w[j]
  <2>1. \A j \in 1 .. n : w[j] \in S
    BY <1>1, <1>3, ElementOfSeq
  <2>2. 1 \in Int /\ n \in Int
    BY <1>1
  <2>3. /\ SubSeq(w, 1, n) \in Seq(S) /\ Len(SubSeq(w, 1, n)) = (IF 1 <= n THEN n - 1 + 1 ELSE 0)
        /\ \A j \in 1 .. n - 1 + 1 : SubSeq(w, 1, n)[j] = w[1 + j - 1]
    BY <2>1, <2>2, SubSeqProperties
  <2>4. f = SubSeq(w, 1, n)
    BY <1>1, <1>3
  <2> HIDE DEF f
  <2>5. QED
    BY <1>1, <2>3, <2>4, LenProperties
<1>5. (n < Burst /\ h = w) \/ (n = Burst /\ n # 0 /\ h = f)
  <2>1. h = IF Len(w) > Burst THEN f ELSE w
    BY DEF Latest, Front
  <2>2. Len(w) = n + 1 /\ n \in Nat /\ n <= Burst /\ Burst \in Nat \ {0}
    BY <1>1, <1>3
  <2> HIDE DEF f, h, n
  <2>3. CASE n = Burst
    <3>1. Len(w) > Burst /\ n # 0
      BY <2>2, <2>3
    <3>2. QED
      BY <2>1, <2>3, <3>1
  <2>4. CASE n # Burst
    <3>1. ~ (Len(w) > Burst) /\ n < Burst
      BY <2>2, <2>4
    <3>2. QED
      BY <2>1, <3>1
  <2>5. QED
    BY <2>3, <2>4
<1> HIDE DEF f, h, n
<1>6. CASE n < Burst /\ h = w
  <2>1. h # << >> /\ n # Burst /\ Len(h) <= Burst
    BY <1>1, <1>3, <1>6, EmptySeq
  <2>2. \A j \in 1 .. n + 1 : j = 1 \/ j \in 2 .. n + 1
    BY <1>1
  <2>3. /\ h \in Seq(S) /\ h[1] = age /\ 1 \in DOMAIN h /\ DOMAIN h = 1 .. n + 1
        /\ \A j \in DOMAIN h : j = 1 \/ (j - 1 \in DOMAIN g /\ h[j] = g[j - 1])
    BY <1>1, <1>3, <1>6, <2>1, <2>2
  <2>4. QED
    BY <2>1, <2>3 DEF S, h, w, n
<1>7. CASE n = Burst /\ n # 0 /\ h = f
  <2>1. /\ h \in Seq(S) /\ DOMAIN h = 1 .. n /\ 1 \in DOMAIN h /\ (\A j \in 1 .. n : h[j] = w[j])
        /\ Len(h) <= Burst
    BY <1>1, <1>4, <1>7
  <2>2. h # << >> /\ h[1] = age
    <3>1. DOMAIN << >> = {}
      BY EmptySeq
    <3>2. QED
      BY <1>3, <2>1, <3>1
  <2>3. \A j \in DOMAIN h : j = 1 \/ (j - 1 \in DOMAIN g /\ h[j] = g[j - 1])
    <3>1. \A j \in 1 .. n : j = 1 \/ j \in 2 .. n + 1
      BY <1>1
    <3>2. QED
      BY <1>3, <2>1, <3>1
  <2>4. QED
    BY <1>7, <2>1, <2>2, <2>3 DEF S, h, w, n
<1>8. QED
  BY <1>5, <1>6, <1>7

\* What the refill returns, and what the decision leaves.
LEMMA RefillIs ==
  ASSUME NEW b, NEW lag \in 0 .. MaxLag,
         \/ IsEntry(b)
         \/ (b.tokens = Full /\ b.age = lag)
  PROVE  LET T == Refilled(b, b.age - lag)
         IN  /\ T \in Int /\ T <= Full /\ T + lag * Count >= 0 /\ T >= -(MaxLag * Count)
             /\ lag * Count \in Nat /\ b.age * Count \in Int /\ b.tokens \in Int
             /\ T <= b.tokens + b.age * Count - lag * Count
             /\ T = Full \/ (b.age # MaxAge /\ T = b.tokens + b.age * Count - lag * Count)
<1> DEFINE T == Refilled(b, b.age - lag)
           la == lag * Count
           ml == MaxLag * Count
           ag == b.age * Count
<1>1. /\ lag \in Nat /\ lag \in Int /\ MaxLag \in Nat /\ lag <= MaxLag /\ Full \in Nat \ {0}
      /\ MaxAge = Full + 2 * MaxLag
  BY Parts
<1>2. la \in Nat /\ ml \in Nat /\ la <= ml
  BY <1>1, Times
<1>3. b.age \in Nat /\ b.age \in Int /\ b.tokens \in Int /\ b.tokens <= Full /\ b.tokens >= -ml
  BY <1>1, <1>2, Parts DEF IsEntry
<1>4. ag \in Nat /\ (b.age - lag) * Count = ag - la
  BY <1>1, <1>3, Times
<1>5. b.tokens + ag >= 0
  <2>1. CASE IsEntry(b)
    BY <2>1 DEF IsEntry
  <2>2. CASE b.tokens = Full /\ b.age = lag
    <3> HIDE DEF ag
    <3>1. QED
      BY <1>1, <1>4, <2>2
  <2>3. QED
    BY <2>1, <2>2
<1>6. \/ (T = b.tokens + (b.age - lag) * Count /\ T <= Full)
      \/ (T = Full /\ b.tokens + (b.age - lag) * Count > Full)
  <2> DEFINE x == b.tokens + (b.age - lag) * Count
  <2>1. T = IF x > Full THEN Full ELSE x
    BY DEF Refilled, Full
  <2>2. x \in Int
    <3> HIDE DEF la, ag
    <3>1. QED
      BY <1>2, <1>3, <1>4
  <2> HIDE DEF T, x
  <2>3. (T = x /\ T <= Full) \/ (T = Full /\ x > Full)
    BY <1>1, <2>1, <2>2
  <2>4. QED
    BY <2>3 DEF x
<1>7. b.age = MaxAge => b.tokens + ag - la >= Full
  <2> SUFFICES ASSUME b.age = MaxAge PROVE b.tokens + ag - la >= Full
    OBVIOUS
  <2>1. ag >= Full + ml + ml
    <3>1. MaxAge = Full + (MaxLag + MaxLag) /\ Full \in Int /\ MaxLag \in Int /\ MaxLag + MaxLag \in Int
      BY <1>1
    <3>2. ag = Full * Count + (MaxLag * Count + MaxLag * Count)
      <4>1. (Full + (MaxLag + MaxLag)) * Count = Full * Count + (MaxLag + MaxLag) * Count
        BY <3>1, Times, Zenon
      <4>2. (MaxLag + MaxLag) * Count = MaxLag * Count + MaxLag * Count
        BY <3>1, Times, Zenon
      <4>3. QED
        BY <3>1, <4>1, <4>2
    <3>3. Full * Count >= Full /\ Full * Count \in Nat
      BY <1>1, Times
    <3>4. QED
      BY <1>1, <1>2, <3>2, <3>3
  <2> HIDE DEF la, ml, ag
  <2>2. QED
    BY <1>1, <1>2, <1>3, <1>4, <2>1
<1> HIDE DEF T, la, ml, ag
<1>8. /\ T \in Int /\ T <= Full /\ T + la >= 0 /\ T >= -ml
      /\ T <= b.tokens + ag - la
      /\ T = Full \/ (b.age # MaxAge /\ T = b.tokens + ag - la)
  BY <1>1, <1>2, <1>3, <1>4, <1>5, <1>6, <1>7
<1>9. QED
  BY <1>2, <1>3, <1>4, <1>8 DEF T, la, ml, ag

\* A line is let through: the bucket owes for one more.
LEMMA Allows ==
  ASSUME NEW T \in Int, NEW lag \in 0 .. MaxLag, NEW g \in Seq(0 .. MaxAge), Len(g) <= Burst,
         T >= Unit, T <= Full,
         \A j \in DOMAIN g : g[j] = MaxAge \/ T + lag * Count <= Full - j * Unit + g[j] * Count
  PROVE  /\ Rated(T - Unit, lag, Latest(<< lag >> \o g))
         /\ Kept(TRUE, lag, g)
<1> DEFINE h == Latest(<< lag >> \o g)
           la == lag * Count
<1>1. /\ lag \in 0 .. MaxAge /\ lag \in Nat /\ lag # MaxAge /\ lag <= MaxLag /\ MaxLag \in Nat
      /\ Full \in Nat \ {0} /\ Unit \in Nat \ {0} /\ Unit <= Full /\ MaxAge \in Nat
      /\ MaxLag + Full <= MaxAge /\ Burst \in Nat \ {0} /\ 1 * Unit = Unit /\ Burst * Unit = Full
  BY Parts
<1>2. /\ DOMAIN g = 1 .. Len(g) /\ Len(g) \in Nat
      /\ \A j \in DOMAIN g : g[j] \in 0 .. MaxAge /\ g[j] * Count \in Nat
  <2>1. DOMAIN g = 1 .. Len(g) /\ Len(g) \in Nat /\ \A j \in DOMAIN g : g[j] \in 0 .. MaxAge
    BY LenProperties, ElementOfSeq
  <2>2. \A x \in 0 .. MaxAge : x * Count \in Nat
    BY <1>1, Times
  <2>3. QED
    BY <2>1, <2>2
<1>3. la \in Nat
  BY <1>1, Times
<1>4. /\ h # << >> /\ h[1] = lag
      /\ DOMAIN h = 1 .. (IF Len(g) = Burst THEN Burst ELSE Len(g) + 1)
      /\ \A j \in DOMAIN h : j = 1 \/ (j - 1 \in DOMAIN g /\ h[j] = g[j - 1])
  BY <1>1, LatestIs
<1> HIDE DEF h
<1>5. ASSUME NEW j \in DOMAIN h
      PROVE  h[j] = MaxAge \/ T - Unit + lag * Count <= Full - j * Unit + h[j] * Count
  <2>1. CASE j = 1
    <3>1. h[j] * Count = la /\ j * Unit = Unit
      BY <1>1, <1>4, <2>1
    <3> HIDE DEF la
    <3>2. T - Unit + la <= Full - Unit + la
      BY <1>1, <1>3
    <3>3. QED
      BY <3>1, <3>2 DEF la
  <2>2. CASE j # 1
    <3> DEFINE k == j - 1
    <3>1. k \in DOMAIN g /\ h[j] = g[k] /\ k \in Nat /\ j = k + 1
      BY <1>2, <1>4, <2>2
    <3>2. k * Unit \in Nat /\ j * Unit = k * Unit + Unit /\ g[k] * Count \in Nat
      <4> HIDE DEF k
      <4>1. k * Unit \in Nat /\ (k + 1) * Unit = k * Unit + Unit
        BY <3>1, Parts
      <4>2. QED
        BY <1>2, <3>1, <4>1
    <3>3. h[j] = MaxAge \/ T + la <= Full - k * Unit + g[k] * Count
      BY <3>1
    <3> DEFINE x == k * Unit
               y == g[k] * Count
    <3>4. x \in Nat /\ y \in Nat /\ j * Unit = x + Unit /\ h[j] * Count = y
          /\ (h[j] = MaxAge \/ T + la <= Full - x + y)
      BY <3>1, <3>2, <3>3
    <3> HIDE DEF k, x, y, la
    <3>5. h[j] = MaxAge \/ T - Unit + la <= Full - (x + Unit) + y
      BY <1>1, <1>3, <3>4
    <3>6. QED
      BY <3>4, <3>5 DEF la
  <2>3. QED
    BY <2>1, <2>2
<1>6. T - Unit + lag * Count >= h[1] * Count
  <2> HIDE DEF la
  <2>1. T - Unit + la >= la
    BY <1>1, <1>3
  <2>2. QED
    BY <1>4, <2>1 DEF la
<1>7. ASSUME Len(g) = Burst
      PROVE  (g[Burst] - lag) * Count >= Unit
  <2>1. Burst \in DOMAIN g /\ g[Burst] \in 0 .. MaxAge /\ g[Burst] * Count \in Nat
    BY <1>1, <1>2, <1>7
  <2>2. (g[Burst] - lag) * Count = g[Burst] * Count - la
    BY <1>1, <2>1, Times
  <2>3. CASE g[Burst] = MaxAge
    <3>1. g[Burst] - lag \in Nat /\ g[Burst] - lag >= Full
      BY <1>1, <2>3
    <3>2. (g[Burst] - lag) * Count >= g[Burst] - lag /\ (g[Burst] - lag) * Count \in Nat
      BY <3>1, Times
    <3>3. QED
      BY <1>1, <3>1, <3>2
  <2>4. CASE T + la <= Full - Burst * Unit + g[Burst] * Count
    <3> DEFINE y == g[Burst] * Count
    <3>1. y \in Nat /\ T + la <= Full - Full + y
      BY <1>1, <2>1, <2>4
    <3> HIDE DEF la, y
    <3>2. y - la >= Unit
      BY <1>1, <1>3, <3>1
    <3>3. QED
      BY <2>2, <3>2 DEF y
  <2>5. QED
    BY <2>1, <2>3, <2>4
<1>8. Kept(TRUE, lag, g)
  BY <1>7 DEF Kept
<1>9. Rated(T - Unit, lag, h)
  BY <1>4, <1>5, <1>6 DEF Rated
<1>10. QED
  BY <1>8, <1>9 DEF h

\* A line is suppressed: the last one is younger than a token.
LEMMA Suppresses ==
  ASSUME NEW T \in Int, NEW lag \in 0 .. MaxLag, NEW g \in Seq(0 .. MaxAge),
         T < Unit, g # << >>,
         \A j \in DOMAIN g : g[j] = MaxAge \/ T + lag * Count <= Full - j * Unit + g[j] * Count,
         T + lag * Count >= g[1] * Count
  PROVE  Rated(T, lag, g) /\ Kept(FALSE, lag, g)
<1>1. g[1] \in Nat /\ lag \in Nat /\ Unit \in Nat
  <2>1. 1 \in DOMAIN g
    BY EmptySeq, LenProperties
  <2>2. g[1] \in 0 .. MaxAge
    BY <2>1, ElementOfSeq, LenProperties
  <2>3. QED
    BY <2>2, Parts
<1>2. (g[1] - lag) * Count = g[1] * Count - lag * Count /\ g[1] * Count \in Nat /\ lag * Count \in Nat
  BY <1>1, Times
<1> DEFINE x == g[1] * Count
           y == lag * Count
<1>3. x \in Nat /\ y \in Nat /\ T + y >= x
  BY <1>2
<1> HIDE DEF x, y
<1>4. x - y < Unit
  BY <1>1, <1>3
<1>5. QED
  BY <1>2, <1>4 DEF Rated, Kept, x, y

\* The decision, and the bucket it leaves.
LEMMA GetRates ==
  ASSUME TableInv, BucketInv, LineInv, NEW t \in Threads, Get(t)
  PROVE  /\ IsCall(call'[t]) /\ call'[t].tokens + call'[t].lag * Count >= 0
         /\ call'[t].key = call[t].key
         /\ \A key \in LineKeys : lines'[key] \in Seq(0 .. MaxAge) /\ Len(lines'[key]) <= Burst
         /\ \A key \in LineKeys : key # call[t].key \/ At(key) # {} => lines'[key] = lines[key]
         /\ call[t].key \in LineKeys =>
               /\ Rated(call'[t].tokens, call'[t].lag, Pending'[t])
               /\ Kept(call'[t].allowed, call'[t].lag, lines'[call[t].key])
<1> DEFINE key == call[t].key
           lag == call[t].lag
           old == At(key)
           b == IF old = {} THEN [tokens |-> Burst * Unit, age |-> lag]
                ELSE table[CHOOSE i \in old : TRUE]
           T == Refilled(b, b.age - lag)
           d == call'[t]
           g == lines'[key]
<1>1. /\ pc[t] = "get" /\ IsCall(call[t]) /\ lag \in 0 .. MaxLag
      /\ d = [call[t] EXCEPT !.allowed = Enough(T), !.tokens = IF Enough(T) THEN Spent(T) ELSE T]
      /\ lines' = [k \in LineKeys |-> IF k = key /\ old = {} THEN << >> ELSE lines[k]]
  BY DEF Get, TableInv, BucketInv, IsCall
<1>2. old # {} => \E i \in DOMAIN table : b = table[i] /\ table[i].key = key
  <2> SUFFICES ASSUME old # {} PROVE \E i \in DOMAIN table : b = table[i] /\ table[i].key = key
    OBVIOUS
  <2>1. (CHOOSE i \in old : TRUE) \in old
    OBVIOUS
  <2>2. QED
    BY <2>1 DEF At
<1>3. \/ (old # {} /\ IsEntry(b))
      \/ (old = {} /\ b.tokens = Full /\ b.age = lag)
  BY <1>2 DEF BucketInv, Full
<1> HIDE DEF b
<1>4. /\ T \in Int /\ T <= Full /\ T + lag * Count >= 0 /\ T >= -(MaxLag * Count)
      /\ lag * Count \in Nat /\ b.age * Count \in Int /\ b.tokens \in Int
      /\ T <= b.tokens + b.age * Count - lag * Count
      /\ T = Full \/ (b.age # MaxAge /\ T = b.tokens + b.age * Count - lag * Count)
  BY <1>1, <1>3, RefillIs
<1>5. Full \in Nat \ {0} /\ Unit \in Nat \ {0} /\ Unit <= Full /\ MaxLag * Count \in Nat
  BY Parts, Times
<1>6. /\ d = [key |-> d.key, kind |-> d.kind, handler |-> d.handler, tokens |-> d.tokens,
              allowed |-> d.allowed, lag |-> d.lag]
      /\ d.key = key /\ d.kind = call[t].kind /\ d.handler = call[t].handler /\ d.lag = lag
      /\ d.allowed = Enough(T) /\ d.tokens = IF Enough(T) THEN Spent(T) ELSE T
  <2> HIDE DEF d, T
  <2>1. QED
    BY <1>1 DEF IsCall
<1> HIDE DEF T, d
<1>7. \/ (T >= Unit /\ d.allowed = TRUE /\ d.tokens = T - Unit)
      \/ (T < Unit /\ d.allowed = FALSE /\ d.tokens = T)
  <2>1. CASE T >= Unit
    BY <1>6, <2>1 DEF Enough, Spent
  <2>2. CASE ~ (T >= Unit)
    <3>1. T < Unit
      BY <1>4, <1>5, <2>2
    <3>2. Enough(T) = FALSE
      BY <2>2 DEF Enough
    <3>3. QED
      BY <1>6, <3>1, <3>2
  <2>3. QED
    BY <2>1, <2>2
<1>8. d.tokens \in -(MaxLag * Count) .. Full - 1 /\ d.tokens + d.lag * Count >= 0
  <2> DEFINE la == lag * Count
             ml == MaxLag * Count
  <2>1. la \in Nat /\ ml \in Nat /\ T + la >= 0 /\ T >= -ml /\ d.lag * Count = la
    BY <1>4, <1>5, <1>6
  <2> HIDE DEF la, ml, lag
  <2>2. d.tokens \in -ml .. Full - 1 /\ d.tokens + la >= 0
    BY <1>4, <1>5, <1>7, <2>1
  <2>3. QED
    BY <2>1, <2>2 DEF ml
<1>9. IsCall(d)
  BY <1>1, <1>6, <1>8 DEF IsCall
<1>10. ASSUME NEW k \in LineKeys
       PROVE  /\ lines'[k] \in Seq(0 .. MaxAge) /\ Len(lines'[k]) <= Burst
              /\ k # key \/ old # {} => lines'[k] = lines[k]
  <2>1. << >> \in Seq(0 .. MaxAge) /\ Len(<< >>) = 0 /\ 0 <= Burst
    BY EmptySeq, Parts
  <2>2. lines[k] \in Seq(0 .. MaxAge) /\ Len(lines[k]) <= Burst
    BY DEF LineInv
  <2>3. QED
    BY <1>1, <2>1, <2>2
<1>11. ASSUME key \in LineKeys
       PROVE  Rated(d.tokens, d.lag, Pending'[t]) /\ Kept(d.allowed, d.lag, g)
  <2>1. g \in Seq(0 .. MaxAge) /\ Len(g) <= Burst
    BY <1>10, <1>11
  <2>2. (old = {} /\ g = << >> /\ T = Full) \/ Rated(b.tokens, b.age, g)
    <3>1. CASE old = {}
      <4>1. b.tokens = Full /\ b.age = lag
        BY <1>3, <3>1
      <4>2. T = Full
        BY <1>4, <4>1
      <4>3. QED
        BY <1>1, <1>11, <3>1, <4>2
    <3>2. CASE old # {}
      <4>1. PICK i \in DOMAIN table : b = table[i] /\ table[i].key = key
        BY <1>2, <3>2
      <4>2. key \notin Decided
        <5> SUFFICES ASSUME NEW u \in Threads, pc[u] = "assign", call[u].key = key PROVE FALSE
          BY DEF Decided
        <5>1. key \in OwnKeys(u) /\ key \in OwnKeys(t)
          BY <1>1, <1>11 DEF LineInv
        <5>2. u = t
          BY <5>1, KeysAssumption
        <5>3. QED
          BY <1>1, <5>2
      <4>3. Rated(b.tokens, b.age, lines[key])
        BY <1>11, <4>1, <4>2 DEF LineInv
      <4>4. QED
        BY <1>1, <1>11, <3>2, <4>3
    <3>3. QED
      BY <3>1, <3>2
  <2>3. \A j \in DOMAIN g : g[j] = MaxAge \/ T + lag * Count <= Full - j * Unit + g[j] * Count
    <3> SUFFICES ASSUME NEW j \in DOMAIN g, g[j] # MaxAge
                 PROVE  T + lag * Count <= Full - j * Unit + g[j] * Count
      OBVIOUS
    <3>1. g # << >>
      BY EmptySeq
    <3>2. b.tokens + b.age * Count <= Full - j * Unit + g[j] * Count
      BY <2>2, <3>1 DEF Rated
    <3>3. j * Unit \in Nat /\ g[j] * Count \in Nat
      <4> HIDE DEF g
      <4>1. j \in Nat /\ g[j] \in Nat
        BY <2>1, LenProperties, ElementOfSeq, Parts
      <4>2. QED
        BY <4>1, Parts, Times
    <3> DEFINE la == lag * Count
               ag == b.age * Count
               x == j * Unit
               y == g[j] * Count
    <3>4. /\ la \in Nat /\ ag \in Int /\ x \in Nat /\ y \in Nat /\ b.tokens \in Int
          /\ T <= b.tokens + ag - la /\ b.tokens + ag <= Full - x + y
      BY <1>4, <3>2, <3>3
    <3> HIDE DEF la, ag, x, y
    <3>5. T + la <= Full - x + y
      BY <1>4, <1>5, <3>4
    <3>6. QED
      BY <3>5 DEF la, x, y
  <2>4. T = Full \/ (g # << >> /\ T + lag * Count >= g[1] * Count)
    <3> SUFFICES ASSUME T # Full
                 PROVE  g # << >> /\ T + lag * Count >= g[1] * Count
      OBVIOUS
    <3>1. b.age # MaxAge /\ T = b.tokens + b.age * Count - lag * Count
      BY <1>4
    <3>2. g # << >> /\ b.tokens + b.age * Count >= g[1] * Count
      BY <2>2, <3>1 DEF Rated
    <3> DEFINE la == lag * Count
               ag == b.age * Count
    <3>3. T + la = b.tokens + ag
      <4>1. la \in Nat /\ ag \in Int /\ b.tokens \in Int /\ T = b.tokens + ag - la
        BY <1>4, <3>1
      <4> HIDE DEF la, ag
      <4>2. QED
        BY <4>1
    <3>4. QED
      BY <3>2, <3>3
  <2>5. Pending'[t] = IF d.allowed THEN Latest(<< lag >> \o g) ELSE g
    BY <1>6 DEF Pending, WithLine, d
  <2> HIDE DEF g
  <2>6. CASE T >= Unit /\ d.allowed = TRUE /\ d.tokens = T - Unit
    <3>1. Rated(T - Unit, lag, Latest(<< lag >> \o g)) /\ Kept(TRUE, lag, g)
      BY <1>1, <1>4, <2>1, <2>3, <2>6, Allows
    <3>2. QED
      BY <1>6, <2>5, <2>6, <3>1
  <2>7. CASE T < Unit /\ d.allowed = FALSE /\ d.tokens = T
    <3>1. T # Full
      BY <1>4, <1>5, <2>7
    <3>2. Rated(T, lag, g) /\ Kept(FALSE, lag, g)
      BY <1>1, <1>4, <2>1, <2>3, <2>4, <2>7, <3>1, Suppresses
    <3>3. QED
      BY <1>6, <2>5, <2>7, <3>2
  <2>8. QED
    BY <1>7, <2>6, <2>7 DEF g
<1>12. QED
  BY <1>6, <1>8, <1>9, <1>10, <1>11 DEF d

-------------------------------------------------------------------------------
(* The steps of the threads and of the clock *)

Labels == {"idle", "get", "assign", "move", "evict", "pop", "gone"}

\* A thread goes to a label at which it decides nothing; no key is logged.
LEMMA QuietStep ==
  ASSUME TableInv, BucketInv, LineInv, NEW t \in Threads,
         \A o \in Threads \ {t} : pc'[o] = pc[o] /\ call'[o] = call[o],
         pc[t] # "assign", pc'[t] \in Labels \ {"assign"}, IsCall(call'[t]),
         pc'[t] = "get" /\ call'[t].key \in LineKeys => call'[t].key \in OwnKeys(t),
         lines' = lines,
         \A i \in DOMAIN table' : \E j \in DOMAIN table : table'[i] = table[j]
  PROVE  BucketInv' /\ LineInv'
<1>1. BucketInv'
  <2>1. \A i \in DOMAIN table' : IsEntry(table'[i])
    BY DEF BucketInv
  <2>2. ASSUME NEW o \in Threads
        PROVE  /\ pc'[o] \in Labels /\ IsCall(call'[o])
               /\ pc'[o] = "assign" => call'[o].tokens + call'[o].lag * Count >= 0
    <3>1. CASE o = t
      BY <3>1
    <3>2. CASE o # t
      BY <3>2 DEF BucketInv, Labels
    <3>3. QED
      BY <3>1, <3>2
  <2>3. QED
    BY <2>1, <2>2 DEF BucketInv, Labels
<1>2. Decided' = Decided
  BY DEF Decided
<1>3. \A i \in DOMAIN table' : table'[i].key \in LineKeys /\ table'[i].key \notin Decided' =>
          Rated(table'[i].tokens, table'[i].age, lines'[table'[i].key])
  BY <1>2 DEF LineInv
<1>4. \A o \in Threads : pc'[o] \in {"get", "assign"} /\ call'[o].key \in LineKeys =>
          call'[o].key \in OwnKeys(o)
  BY DEF LineInv
<1>5. ASSUME NEW o \in Threads, pc'[o] = "assign", call'[o].key \in LineKeys
      PROVE  /\ Rated(call'[o].tokens, call'[o].lag, Pending'[o])
             /\ Kept(call'[o].allowed, call'[o].lag, lines'[call'[o].key])
  <2>1. o # t /\ pc[o] = "assign" /\ call'[o] = call[o]
    BY <1>5
  <2>2. Pending'[o] = Pending[o]
    BY <2>1 DEF Pending, WithLine
  <2>3. QED
    BY <1>5, <2>1, <2>2 DEF LineInv
<1>6. LineInv'
  BY <1>3, <1>4, <1>5 DEF LineInv
<1>7. QED
  BY <1>1, <1>6

LEMMA NoCallIs ==
  /\ IsCall(NoCall)
  /\ \A key : \A h \in Nat : \A kind \in {"log", "alert", "fatal"} :
        LET c == [NoCall EXCEPT !.key = key, !.kind = kind, !.handler = h]
        IN  IsCall(c) /\ c.key = key
<1>1. 0 \in -(MaxLag * Count) .. Full - 1 /\ 0 \in 0 .. MaxLag
  <2>1. MaxLag * Count \in Nat
    BY Parts, Times
  <2>2. QED
    BY <2>1, Parts
<1>2. IsCall(NoCall)
  BY <1>1 DEF NoCall, IsCall
<1>3. ASSUME NEW key, NEW h \in Nat, NEW kind \in {"log", "alert", "fatal"}
      PROVE  LET c == [NoCall EXCEPT !.key = key, !.kind = kind, !.handler = h]
             IN  IsCall(c) /\ c.key = key
  <2> DEFINE c == [NoCall EXCEPT !.key = key, !.kind = kind, !.handler = h]
             n == NoCall
  <2>1. c = [n EXCEPT !.key = key, !.kind = kind, !.handler = h]
    OBVIOUS
  <2> HIDE DEF c, n
  <2>2. IsCall(n)
    BY <1>2 DEF n
  <2>3. IsCall(c) /\ c.key = key
    BY <2>1, <2>2 DEF IsCall
  <2>4. QED
    BY <2>3 DEF c
<1>4. QED
  BY <1>2, <1>3

LEMMA CallsRated ==
  ASSUME TableInv, BucketInv, LineInv, NEW t \in Threads, pc[t] # "assign",
         NEW key, NEW kind \in {"log", "alert", "fatal"}, NEW h \in Nat,
         key \in OwnKeys(t) \/ key \notin LineKeys,
         Calls(t, key, kind, h), UNCHANGED << table, history >>
  PROVE  BucketInv' /\ LineInv'
<1>1. /\ \A o \in Threads \ {t} : pc'[o] = pc[o] /\ call'[o] = call[o]
      /\ pc'[t] = "get" /\ call'[t] = [NoCall EXCEPT !.key = key, !.kind = kind, !.handler = h]
      /\ lines' = lines /\ table' = table
  BY DEF Calls, Goto, TableInv, history
<1>2. IsCall(call'[t]) /\ call'[t].key = key
  <2> DEFINE c == call'[t]
  <2>1. c = [NoCall EXCEPT !.key = key, !.kind = kind, !.handler = h]
    BY <1>1
  <2> HIDE DEF c
  <2>2. IsCall(c) /\ c.key = key
    BY <2>1, NoCallIs
  <2>3. QED
    BY <2>2 DEF c
<1>3. pc'[t] \in Labels \ {"assign"}
  BY <1>1 DEF Labels
<1>4. QED
  BY <1>1, <1>2, <1>3, QuietStep

\* No thread of the process calls with a fatal key as one of its own.
LEMMA FatalKeyIs ==
  ASSUME NEW t \in Threads, NEW h \in DOMAIN FatalKeys[t]
  PROVE  FatalKeys[t][h] \notin LineKeys /\ h \in Nat
<1>1. FatalKeys[t][h] \notin LineKeys
  BY KeysAssumption DEF LineKeys
<1>2. FatalKeys[t] \in Seq(Range(FatalKeys[t]))
  BY KeysAssumption
<1>3. h \in 1 .. Len(FatalKeys[t])
  BY <1>2, LenProperties
<1>4. QED
  BY <1>1, <1>3

LEMMA ExitRated ==
  ASSUME Exit
  PROVE  BucketInv' /\ LineInv'
<1>1. /\ DOMAIN table' = {} /\ \A t \in Threads : pc'[t] = "idle" /\ call'[t] = NoCall
      /\ lines' = [key \in LineKeys |-> << >>]
  BY EmptySeq DEF Exit
<1>2. \A t \in Threads : IsCall(call'[t])
  BY <1>1, NoCallIs
<1>3. BucketInv'
  BY <1>1, <1>2 DEF BucketInv
<1>4. << >> \in Seq(0 .. MaxAge) /\ Len(<< >>) = 0 /\ 0 <= Burst
  BY EmptySeq, Parts
<1>5. LineInv'
  BY <1>1, <1>4 DEF LineInv
<1>6. QED
  BY <1>3, <1>5

LEMMA RaiseRated ==
  ASSUME TableInv, BucketInv, LineInv, NEW t \in Threads, pc[t] # "assign", Raise(t)
  PROVE  BucketInv' /\ LineInv'
<1>1. CASE Exit
  BY <1>1, ExitRated
<1>2. CASE ~ Exit /\ call[t].handler < Len(FatalKeys[t])
  <2> DEFINE h == call[t].handler + 1
  <2>1. h \in DOMAIN FatalKeys[t]
    <3>1. FatalKeys[t] \in Seq(Range(FatalKeys[t]))
      BY KeysAssumption
    <3>2. DOMAIN FatalKeys[t] = 1 .. Len(FatalKeys[t]) /\ Len(FatalKeys[t]) \in Nat
      BY <3>1, LenProperties
    <3>3. call[t].handler \in Nat
      BY DEF BucketInv, IsCall
    <3>4. QED
      BY <1>2, <3>2, <3>3
  <2>2. Calls(t, FatalKeys[t][h], "fatal", h) /\ UNCHANGED << table, history >>
    BY <1>2 DEF Raise
  <2>3. FatalKeys[t][h] \notin LineKeys /\ h \in Nat
    BY <2>1, FatalKeyIs
  <2> HIDE DEF h
  <2>4. QED
    BY <2>2, <2>3, CallsRated
<1>3. CASE ~ Exit /\ ~ (call[t].handler < Len(FatalKeys[t]))
  <2>1. /\ \A o \in Threads \ {t} : pc'[o] = pc[o] /\ call'[o] = call[o]
        /\ pc'[t] = "gone" /\ call'[t] = NoCall /\ table' = table /\ lines' = lines
    BY <1>3 DEF Raise, Goto, TableInv, history
  <2>2. IsCall(call'[t]) /\ pc'[t] \in Labels \ {"assign"}
    BY <2>1, NoCallIs DEF Labels
  <2>3. QED
    BY <2>1, <2>2, QuietStep
<1>4. QED
  BY <1>1, <1>2, <1>3

LEMMA GetRated ==
  ASSUME TableInv, BucketInv, LineInv, NEW t \in Threads, Get(t)
  PROVE  BucketInv' /\ LineInv'
<1> DEFINE k == call[t].key
<1>1. /\ pc[t] = "get" /\ pc'[t] = "assign" /\ table' = table /\ DOMAIN lines' = LineKeys
      /\ \A o \in Threads \ {t} : pc'[o] = pc[o] /\ call'[o] = call[o]
  BY DEF Get, Goto, TableInv
<1>2. /\ IsCall(call'[t]) /\ call'[t].tokens + call'[t].lag * Count >= 0
      /\ call'[t].key = k
      /\ \A key \in LineKeys : lines'[key] \in Seq(0 .. MaxAge) /\ Len(lines'[key]) <= Burst
      /\ \A key \in LineKeys : key # k \/ At(key) # {} => lines'[key] = lines[key]
      /\ k \in LineKeys => /\ Rated(call'[t].tokens, call'[t].lag, Pending'[t])
                          /\ Kept(call'[t].allowed, call'[t].lag, lines'[k])
  BY GetRates
<1> HIDE DEF k
<1>3. BucketInv'
  <2>1. \A i \in DOMAIN table' : IsEntry(table'[i])
    BY <1>1 DEF BucketInv
  <2>2. ASSUME NEW o \in Threads
        PROVE  /\ pc'[o] \in Labels /\ IsCall(call'[o])
               /\ pc'[o] = "assign" => call'[o].tokens + call'[o].lag * Count >= 0
    <3>1. CASE o = t
      BY <1>1, <1>2, <3>1 DEF Labels
    <3>2. CASE o # t
      BY <1>1, <3>2 DEF BucketInv, Labels
    <3>3. QED
      BY <3>1, <3>2
  <2>3. QED
    BY <2>1, <2>2 DEF BucketInv, Labels
<1>4. \A o \in Threads : pc'[o] \in {"get", "assign"} /\ call'[o].key \in LineKeys =>
          call'[o].key \in OwnKeys(o)
  BY <1>1, <1>2 DEF LineInv, k
<1>5. ASSUME NEW i \in DOMAIN table', table'[i].key \in LineKeys, table'[i].key \notin Decided'
      PROVE  Rated(table'[i].tokens, table'[i].age, lines'[table'[i].key])
  <2>1. i \in DOMAIN table /\ table'[i] = table[i] /\ table[i].key \in LineKeys
    BY <1>1, <1>5
  <2>2. table[i].key # k /\ table[i].key \notin Decided
    BY <1>1, <1>2, <1>5, <2>1 DEF Decided
  <2>3. lines'[table[i].key] = lines[table[i].key]
    BY <1>2, <2>1, <2>2
  <2>4. QED
    BY <2>1, <2>2, <2>3 DEF LineInv
<1>6. ASSUME NEW o \in Threads, pc'[o] = "assign", call'[o].key \in LineKeys
      PROVE  /\ Rated(call'[o].tokens, call'[o].lag, Pending'[o])
             /\ Kept(call'[o].allowed, call'[o].lag, lines'[call'[o].key])
  <2>1. CASE o = t
    BY <1>2, <1>6, <2>1
  <2>2. CASE o # t
    <3>1. pc[o] = "assign" /\ call'[o] = call[o] /\ call[o].key \in LineKeys
      BY <1>1, <1>6, <2>2
    <3>2. call[o].key # k
      <4>1. call[o].key \in OwnKeys(o) /\ (k \in LineKeys => k \in OwnKeys(t))
        BY <1>1, <3>1 DEF LineInv, k
      <4>2. QED
        BY <2>2, <3>1, <4>1, KeysAssumption
    <3>3. lines'[call[o].key] = lines[call[o].key]
      BY <1>2, <3>1, <3>2
    <3>4. Pending'[o] = Pending[o]
      BY <3>1, <3>3 DEF Pending, WithLine
    <3>5. QED
      BY <3>1, <3>3, <3>4 DEF LineInv
  <2>3. QED
    BY <2>1, <2>2
<1>7. LineInv'
  BY <1>1, <1>2, <1>4, <1>5, <1>6 DEF LineInv
<1>8. QED
  BY <1>3, <1>7

LEMMA AssignRated ==
  ASSUME TableInv, BucketInv, LineInv, NEW t \in Threads, Assign(t)
  PROVE  BucketInv' /\ LineInv'
<1> DEFINE c == call[t]
           k == c.key
           d == call'[t]
           entry == [key |-> k, tokens |-> c.tokens, age |-> c.lag]
<1>1. /\ pc[t] = "assign" /\ pc'[t] = "move"
      /\ \A o \in Threads \ {t} : pc'[o] = pc[o] /\ call'[o] = call[o]
      /\ d = [c EXCEPT !.tokens = 0, !.lag = 0, !.allowed = c.allowed /\ c.kind = "alert"]
      /\ lines' = [x \in LineKeys |-> IF x = k THEN WithLine(c) ELSE lines[x]]
  BY DEF Assign, Goto, TableInv
<1>2. IsCall(c) /\ c.tokens + c.lag * Count >= 0
  BY <1>1 DEF BucketInv
<1>3. IsCall(d)
  <2>1. 0 \in -(MaxLag * Count) .. Full - 1 /\ 0 \in 0 .. MaxLag
    BY NoCallIs DEF IsCall, NoCall
  <2> HIDE DEF c, d
  <2>2. QED
    BY <1>1, <1>2, <2>1 DEF IsCall
<1>4. IsEntry(entry) /\ entry.key = k /\ entry.tokens = c.tokens /\ entry.age = c.lag
  BY <1>2, Parts DEF IsEntry, IsCall
<1>5. \A i \in DOMAIN table' : table'[i] = entry
                             \/ \E j \in DOMAIN table : table'[i] = table[j] /\ table[j].key # k
  <2>1. PICK S : table \in Seq(S)
    BY DEF TableInv
  <2>2. CASE At(k) = {}
    <3> DEFINE T == S \cup {entry}
    <3>1. table \in Seq(T) /\ entry \in T
      BY <2>1, SeqMonotonic
    <3>2. table' = Append(table, entry)
      BY <2>2 DEF Assign
    <3> HIDE DEF T, entry
    <3>3. /\ DOMAIN table = 1 .. Len(table) /\ DOMAIN table' = 1 .. Len(table) + 1
          /\ Len(table) \in Nat
          /\ \A i \in 1 .. Len(table) : table'[i] = table[i]
          /\ table'[Len(table) + 1] = entry
      BY <3>1, <3>2, AppendProperties, LenProperties
    <3>4. \A i \in 1 .. Len(table) + 1 : i \in 1 .. Len(table) \/ i = Len(table) + 1
      BY <3>3
    <3>5. \A j \in DOMAIN table : table[j].key # k
      BY <2>2 DEF At
    <3>6. QED
      BY <3>3, <3>4, <3>5
  <2>3. CASE At(k) # {}
    <3>1. table' = [i \in DOMAIN table |-> IF i \in At(k) THEN entry ELSE table[i]]
      BY <2>3 DEF Assign
    <3> HIDE DEF entry
    <3>2. QED
      BY <3>1 DEF At
  <2>4. QED
    BY <2>2, <2>3
<1> HIDE DEF entry, d
<1>6. BucketInv'
  <2>1. \A i \in DOMAIN table' : IsEntry(table'[i])
    BY <1>4, <1>5 DEF BucketInv
  <2>2. ASSUME NEW o \in Threads
        PROVE  /\ pc'[o] \in Labels /\ IsCall(call'[o])
               /\ pc'[o] = "assign" => call'[o].tokens + call'[o].lag * Count >= 0
    <3>1. CASE o = t
      BY <1>1, <1>3, <3>1 DEF Labels, d
    <3>2. CASE o # t
      BY <1>1, <3>2 DEF BucketInv, Labels
    <3>3. QED
      BY <3>1, <3>2
  <2>3. QED
    BY <2>1, <2>2 DEF BucketInv, Labels
<1> HIDE DEF c, k
<1>7. ASSUME k \in LineKeys
      PROVE  /\ k \in OwnKeys(t) /\ Rated(c.tokens, c.lag, WithLine(c))
             /\ WithLine(c) \in Seq(0 .. MaxAge) /\ Len(WithLine(c)) <= Burst
  <2>1. lines[k] \in Seq(0 .. MaxAge) /\ Len(lines[k]) <= Burst
    BY <1>7 DEF LineInv
  <2>2. c.lag \in 0 .. MaxAge
    BY <1>2, Parts DEF IsCall
  <2>3. WithLine(c) \in Seq(0 .. MaxAge) /\ Len(WithLine(c)) <= Burst
    BY <2>1, <2>2, LatestIs DEF WithLine, k
  <2>4. QED
    BY <1>1, <1>7, <2>3 DEF LineInv, Pending, c, k
<1>8. \A x \in LineKeys : lines'[x] \in Seq(0 .. MaxAge) /\ Len(lines'[x]) <= Burst
  BY <1>1, <1>7 DEF LineInv
<1>9. ASSUME NEW i \in DOMAIN table', table'[i].key \in LineKeys, table'[i].key \notin Decided'
      PROVE  Rated(table'[i].tokens, table'[i].age, lines'[table'[i].key])
  <2>1. CASE table'[i] = entry
    BY <1>1, <1>4, <1>7, <1>9, <2>1
  <2>2. CASE \E j \in DOMAIN table : table'[i] = table[j] /\ table[j].key # k
    <3>1. PICK j \in DOMAIN table : table'[i] = table[j] /\ table[j].key # k
      BY <2>2
    <3>2. table[j].key \notin Decided
      BY <1>1, <1>9, <3>1 DEF Decided, c, k
    <3>3. lines'[table[j].key] = lines[table[j].key]
      BY <1>1, <1>9, <3>1
    <3>4. QED
      BY <1>9, <3>1, <3>2, <3>3 DEF LineInv
  <2>3. QED
    BY <1>5, <2>1, <2>2
<1>10. \A o \in Threads : pc'[o] \in {"get", "assign"} /\ call'[o].key \in LineKeys =>
          call'[o].key \in OwnKeys(o)
  BY <1>1 DEF LineInv
<1>11. ASSUME NEW o \in Threads, pc'[o] = "assign", call'[o].key \in LineKeys
      PROVE  /\ Rated(call'[o].tokens, call'[o].lag, Pending'[o])
             /\ Kept(call'[o].allowed, call'[o].lag, lines'[call'[o].key])
  <2>1. o # t /\ pc[o] = "assign" /\ call'[o] = call[o] /\ call[o].key \in LineKeys
    BY <1>1, <1>11
  <2>2. call[o].key # k
    BY <1>7, <2>1, KeysAssumption DEF LineInv
  <2>3. lines'[call[o].key] = lines[call[o].key]
    BY <1>1, <2>1, <2>2
  <2>4. Pending'[o] = Pending[o]
    BY <2>1, <2>3 DEF Pending, WithLine
  <2>5. QED
    BY <2>1, <2>3, <2>4 DEF LineInv
<1>12. DOMAIN lines' = LineKeys
  BY <1>1
<1>13. LineInv'
  BY <1>8, <1>9, <1>10, <1>11, <1>12 DEF LineInv
<1>14. QED
  BY <1>6, <1>13

\* The lines of a key a tick later.
LEMMA OlderIs ==
  ASSUME NEW L \in Seq(0 .. MaxAge)
  PROVE  /\ Older(L) \in Seq(0 .. MaxAge) /\ Len(Older(L)) = Len(L) /\ DOMAIN Older(L) = DOMAIN L
         /\ \A j \in DOMAIN L : Older(L)[j] = Capped(L[j] + 1)
<1> DEFINE M == Older(L)
           S == 0 .. MaxAge
<1>1. DOMAIN L = 1 .. Len(L) /\ Len(L) \in Nat /\ \A j \in DOMAIN L : L[j] \in S
  BY LenProperties, ElementOfSeq
<1>2. M = [j \in 1 .. Len(L) |-> Capped(L[j] + 1)]
  BY <1>1 DEF Older
<1>3. \A j \in 1 .. Len(L) : Capped(L[j] + 1) \in S
  BY <1>1, CappedIs
<1> HIDE DEF M, S
<1>4. M \in Seq(S)
  BY <1>1, <1>2, <1>3, IsASeq
<1>5. DOMAIN M = 1 .. Len(M) /\ Len(M) \in Nat /\ DOMAIN M = 1 .. Len(L)
  BY <1>2, <1>4, LenProperties
<1>6. Len(M) = Len(L)
  <2> DEFINE m == Len(M)
             n == Len(L)
  <2>1. m \in Nat /\ n \in Nat /\ 1 .. m = 1 .. n
    BY <1>1, <1>5
  <2> HIDE DEF m, n
  <2>2. (m = 0 \/ m \in 1 .. n) /\ (n = 0 \/ n \in 1 .. m)
    BY <2>1
  <2>3. m = n
    BY <2>1, <2>2
  <2>4. QED
    BY <2>3 DEF m, n
<1>7. QED
  BY <1>1, <1>2, <1>4, <1>5, <1>6 DEF M, S

\* And with the line of a decision under way.
LEMMA OlderLatest ==
  ASSUME NEW L \in Seq(0 .. MaxAge), Len(L) <= Burst, NEW lag \in 0 .. MaxLag, lag + 1 <= MaxLag
  PROVE  LET P == Latest(<< lag >> \o L)
             M == Latest(<< lag + 1 >> \o Older(L))
         IN  /\ P \in Seq(0 .. MaxAge) /\ M # << >> /\ DOMAIN M = DOMAIN P
             /\ \A j \in DOMAIN P : M[j] = Capped(P[j] + 1)
<1> DEFINE P == Latest(<< lag >> \o L)
           M == Latest(<< lag + 1 >> \o Older(L))
<1>1. lag \in 0 .. MaxAge /\ lag + 1 \in 0 .. MaxAge /\ Capped(lag + 1) = lag + 1
  BY Parts DEF Capped
<1>2. /\ Older(L) \in Seq(0 .. MaxAge) /\ Len(Older(L)) = Len(L) /\ DOMAIN Older(L) = DOMAIN L
      /\ \A j \in DOMAIN L : Older(L)[j] = Capped(L[j] + 1)
  BY OlderIs
<1>3. /\ P \in Seq(0 .. MaxAge)
      /\ DOMAIN P = 1 .. (IF Len(L) = Burst THEN Burst ELSE Len(L) + 1)
      /\ P[1] = lag
      /\ \A j \in DOMAIN P : j = 1 \/ (j - 1 \in DOMAIN L /\ P[j] = L[j - 1])
  BY <1>1, LatestIs
<1>4. /\ M # << >>
      /\ DOMAIN M = 1 .. (IF Len(L) = Burst THEN Burst ELSE Len(L) + 1)
      /\ M[1] = lag + 1
      /\ \A j \in DOMAIN M : j = 1 \/ (j - 1 \in DOMAIN Older(L) /\ M[j] = Older(L)[j - 1])
  BY <1>1, <1>2, LatestIs
<1> HIDE DEF P, M
<1>5. ASSUME NEW j \in DOMAIN P
      PROVE  M[j] = Capped(P[j] + 1)
  <2>1. CASE j = 1
    BY <1>1, <1>3, <1>4, <2>1
  <2>2. CASE j # 1
    <3>1. j \in DOMAIN M
      BY <1>3, <1>4
    <3>2. j - 1 \in DOMAIN L /\ P[j] = L[j - 1] /\ M[j] = Older(L)[j - 1]
      BY <1>3, <1>4, <2>2, <3>1
    <3>3. QED
      BY <1>2, <3>2
  <2>3. QED
    BY <2>1, <2>2
<1>6. QED
  BY <1>3, <1>4, <1>5 DEF P, M

\* The decision stands as time goes by.
LEMMA KeptOlder ==
  ASSUME NEW L \in Seq(0 .. MaxAge), Len(L) <= Burst, NEW lag \in 0 .. MaxLag, lag + 1 <= MaxLag,
         NEW allowed, Kept(allowed, lag, L)
  PROVE  Kept(allowed, lag + 1, Older(L))
<1> DEFINE M == Older(L)
<1>1. /\ Len(M) = Len(L) /\ DOMAIN M = DOMAIN L /\ \A j \in DOMAIN L : M[j] = Capped(L[j] + 1)
      /\ DOMAIN L = 1 .. Len(L) /\ Len(L) \in Nat /\ \A j \in DOMAIN L : L[j] \in 0 .. MaxAge
  BY OlderIs, LenProperties, ElementOfSeq
<1> HIDE DEF M
<1>2. lag \in Nat /\ lag + 1 \in Nat /\ Burst \in Nat \ {0} /\ MaxAge \in Nat /\ Unit \in Nat
      /\ MaxLag \in Nat /\ MaxLag + Full <= MaxAge /\ Unit <= Full /\ Full \in Nat
  BY Parts
<1>3. CASE allowed
  <2> SUFFICES ASSUME Len(M) = Burst PROVE (M[Burst] - (lag + 1)) * Count >= Unit
    BY <1>3 DEF Kept, M
  <2>1. Burst \in DOMAIN L /\ L[Burst] \in 0 .. MaxAge /\ M[Burst] = Capped(L[Burst] + 1)
    BY <1>1, <1>2
  <2>2. (L[Burst] - lag) * Count >= Unit
    BY <1>1, <1>3 DEF Kept
  <2>3. CASE L[Burst] # MaxAge /\ M[Burst] = L[Burst] + 1
    <3>1. M[Burst] - (lag + 1) = L[Burst] - lag
      BY <1>2, <2>1, <2>3
    <3>2. QED
      BY <2>2, <3>1
  <2>4. CASE M[Burst] = MaxAge
    <3>1. M[Burst] - (lag + 1) \in Nat /\ M[Burst] - (lag + 1) >= Unit
      BY <1>2, <2>4
    <3>2. (M[Burst] - (lag + 1)) * Count >= M[Burst] - (lag + 1)
          /\ (M[Burst] - (lag + 1)) * Count \in Nat
      BY <3>1, Times
    <3>3. QED
      BY <1>2, <3>1, <3>2
  <2>5. QED
    BY <2>1, <2>3, <2>4, CappedIs
<1>4. CASE ~ allowed
  <2>1. L # << >> /\ (L[1] - lag) * Count < Unit
    BY <1>4 DEF Kept
  <2>2. 1 \in DOMAIN L
    <3>1. Len(L) # 0
      BY <2>1, EmptySeq
    <3>2. QED
      BY <1>1, <3>1
  <2>3. M # << >> /\ L[1] \in 0 .. MaxAge /\ M[1] = Capped(L[1] + 1)
    BY <1>1, <2>2, EmptySeq
  <2>4. CASE M[1] = L[1] + 1
    <3>1. M[1] - (lag + 1) = L[1] - lag
      BY <1>2, <2>3, <2>4
    <3>2. QED
      BY <1>4, <2>1, <2>3, <3>1 DEF Kept, M
  <2>5. CASE L[1] = MaxAge /\ M[1] = MaxAge
    <3>1. M[1] - (lag + 1) = L[1] - lag - 1 /\ L[1] - lag \in Int /\ 1 \in Int
      <4>1. M[1] = L[1] /\ L[1] \in Int /\ lag \in Int
        BY <1>2, <2>3, <2>5
      <4>2. \A x, y \in Int : x - (y + 1) = x - y - 1 /\ x - y \in Int
        OBVIOUS
      <4>3. QED
        BY <4>1, <4>2
    <3>2. (L[1] - lag - 1) * Count = (L[1] - lag) * Count - 1 * Count /\ 1 * Count = Count
          /\ Count \in Nat /\ (L[1] - lag) * Count \in Int
      BY <3>1, Times
    <3> DEFINE x == (L[1] - lag) * Count
               y == (M[1] - (lag + 1)) * Count
    <3>3. y < Unit
      <4>1. y = x - Count /\ x \in Int /\ Count \in Nat /\ x < Unit
        BY <2>1, <3>1, <3>2
      <4> HIDE DEF x, y
      <4>2. QED
        BY <1>2, <4>1
    <3>4. QED
      BY <1>4, <2>3, <3>3 DEF Kept, M
  <2>6. QED
    BY <2>3, <2>4, <2>5, CappedIs
<1>5. QED
  BY <1>3, <1>4

LEMMA TickRated ==
  ASSUME TableInv, BucketInv, LineInv, Tick
  PROVE  BucketInv' /\ LineInv'
<1>1. /\ pc' = pc /\ DOMAIN table' = DOMAIN table
      /\ table' = [i \in DOMAIN table |-> [table[i] EXCEPT !.age = Capped(@ + 1)]]
      /\ lines' = [key \in LineKeys |-> Older(lines[key])]
      /\ \A t \in Threads : call'[t] = IF t \in Stamped THEN [call[t] EXCEPT !.lag = call[t].lag + 1]
                                      ELSE call[t]
      /\ \A t \in Stamped : call[t].lag < MaxLag
  BY DEF Tick
<1>2. ASSUME NEW i \in DOMAIN table
      PROVE  /\ IsEntry(table'[i]) /\ table'[i].key = table[i].key
             /\ table'[i].tokens = table[i].tokens /\ table'[i].age = Capped(table[i].age + 1)
  <2> DEFINE e == table[i]
             d == table'[i]
             a == Capped(e.age + 1)
  <2>1. IsEntry(e) /\ d = [e EXCEPT !.age = a]
    BY <1>1, <1>2 DEF BucketInv
  <2>2. a \in 0 .. MaxAge /\ e.age \in Nat /\ a \in Nat /\ e.age <= a /\ MaxAge \in Nat
    BY <2>1, CappedIs, Parts DEF IsEntry
  <2> HIDE DEF d, e, a
  <2>3. d = [key |-> e.key, tokens |-> e.tokens, age |-> a]
    BY <2>1 DEF IsEntry
  <2>4. e.tokens + a * Count >= 0
    <3>1. e.age * Count <= a * Count /\ e.age * Count \in Nat /\ a * Count \in Nat
      BY <2>2, Times
    <3>2. e.tokens \in Int /\ e.tokens + e.age * Count >= 0
      BY <2>1, Parts, Times DEF IsEntry
    <3> DEFINE x == e.age * Count
               y == a * Count
    <3> HIDE DEF x, y
    <3>3. e.tokens + y >= 0
      BY <3>1, <3>2 DEF x, y
    <3>4. QED
      BY <3>3 DEF y
  <2>5. IsEntry(d)
    BY <2>1, <2>2, <2>3, <2>4 DEF IsEntry
  <2>6. QED
    BY <2>3, <2>5 DEF d, e, a
<1>3. ASSUME NEW t \in Threads
      PROVE  /\ IsCall(call'[t]) /\ call'[t].key = call[t].key /\ call'[t].allowed = call[t].allowed
             /\ call'[t].tokens = call[t].tokens
             /\ t \in Stamped => call'[t].lag = call[t].lag + 1 /\ call[t].lag + 1 <= MaxLag
             /\ pc'[t] = "assign" => call'[t].tokens + call'[t].lag * Count >= 0
  <2>1. CASE t \notin Stamped
    BY <1>1, <2>1 DEF BucketInv, Stamped
  <2>2. CASE t \in Stamped
    <3> DEFINE c == call[t]
               d == call'[t]
    <3>1. d = [c EXCEPT !.lag = c.lag + 1] /\ IsCall(c) /\ c.lag < MaxLag
      BY <1>1, <2>2 DEF BucketInv
    <3>2. c.lag \in Nat /\ c.lag + 1 \in 0 .. MaxLag /\ c.lag + 1 <= MaxLag
      BY <3>1, Parts DEF IsCall
    <3>3. pc[t] = "assign" => c.tokens + c.lag * Count >= 0
      BY DEF BucketInv
    <3> HIDE DEF c, d
    <3>4. IsCall(d) /\ d.lag = c.lag + 1 /\ d.tokens = c.tokens /\ d.key = c.key
          /\ d.allowed = c.allowed
      BY <3>1, <3>2 DEF IsCall
    <3>5. pc[t] = "assign" => d.tokens + d.lag * Count >= 0
      <4>1. c.lag \in Int /\ 1 \in Int
        BY <3>2
      <4>2. d.lag * Count = c.lag * Count + 1 * Count /\ c.lag * Count \in Int /\ 1 * Count = Count
            /\ Count \in Nat
        BY <3>4, <4>1, Times
      <4>3. c.tokens \in Int
        BY <3>1, Parts, Times DEF IsCall
      <4> DEFINE x == c.lag * Count
                 y == d.lag * Count
      <4>4. y = x + Count /\ x \in Int /\ Count \in Nat /\ (pc[t] = "assign" => c.tokens + x >= 0)
        BY <3>3, <4>2
      <4> HIDE DEF x, y
      <4>5. pc[t] = "assign" => d.tokens + y >= 0
        BY <3>4, <4>3, <4>4
      <4>6. QED
        BY <4>5 DEF y
    <3>6. QED
      BY <1>1, <3>2, <3>4, <3>5 DEF c, d
  <2>3. QED
    BY <2>1, <2>2
<1>4. BucketInv'
  <2>1. \A i \in DOMAIN table' : IsEntry(table'[i])
    BY <1>1, <1>2
  <2>2. \A t \in Threads : pc'[t] \in {"idle", "get", "assign", "move", "evict", "pop", "gone"}
    BY <1>1 DEF BucketInv
  <2>3. QED
    BY <1>3, <2>1, <2>2 DEF BucketInv
<1>5. Decided' = Decided
  BY <1>1, <1>3 DEF Decided
<1>6. ASSUME NEW key \in LineKeys
      PROVE  /\ lines[key] \in Seq(0 .. MaxAge) /\ Len(lines[key]) <= Burst
             /\ lines'[key] = Older(lines[key])
             /\ lines'[key] \in Seq(0 .. MaxAge) /\ Len(lines'[key]) <= Burst
             /\ DOMAIN lines'[key] = DOMAIN lines[key]
             /\ lines[key] # << >> => lines'[key] # << >>
             /\ \A j \in DOMAIN lines[key] : lines'[key][j] = Capped(lines[key][j] + 1)
  <2> DEFINE L == lines[key]
  <2>1. L \in Seq(0 .. MaxAge) /\ Len(L) <= Burst /\ lines'[key] = Older(L)
    BY <1>1 DEF LineInv
  <2> HIDE DEF L
  <2>2. /\ Older(L) \in Seq(0 .. MaxAge) /\ Len(Older(L)) = Len(L) /\ DOMAIN Older(L) = DOMAIN L
        /\ \A j \in DOMAIN L : Older(L)[j] = Capped(L[j] + 1)
    BY <2>1, OlderIs
  <2>3. L # << >> => Older(L) # << >>
    BY <2>1, <2>2, EmptySeq
  <2>4. QED
    BY <2>1, <2>2, <2>3 DEF L
<1>7. ASSUME NEW i \in DOMAIN table', table'[i].key \in LineKeys, table'[i].key \notin Decided'
      PROVE  Rated(table'[i].tokens, table'[i].age, lines'[table'[i].key])
  <2> DEFINE e == table[i]
             L == lines[e.key]
             M == lines'[e.key]
  <2>1. /\ i \in DOMAIN table /\ table'[i].key = e.key /\ e.key \in LineKeys /\ e.key \notin Decided
        /\ table'[i].tokens = e.tokens /\ table'[i].age = Capped(e.age + 1)
    BY <1>1, <1>2, <1>5, <1>7
  <2>2. IsEntry(e) /\ Rated(e.tokens, e.age, L)
    BY <2>1 DEF BucketInv, LineInv
  <2>3. /\ L \in Seq(0 .. MaxAge) /\ DOMAIN M = DOMAIN L /\ M # << >>
        /\ \A j \in DOMAIN L : M[j] = Capped(L[j] + 1)
    BY <1>6, <2>1, <2>2 DEF Rated
  <2> HIDE DEF e, L, M
  <2>4. Rated(e.tokens, Capped(e.age + 1), M)
    BY <2>2, <2>3, Ages DEF IsEntry
  <2>5. QED
    BY <2>1, <2>4 DEF M
<1>8. \A t \in Threads : pc'[t] \in {"get", "assign"} /\ call'[t].key \in LineKeys =>
          call'[t].key \in OwnKeys(t)
  BY <1>1, <1>3 DEF LineInv
<1>9. ASSUME NEW t \in Threads, pc'[t] = "assign", call'[t].key \in LineKeys
      PROVE  /\ Rated(call'[t].tokens, call'[t].lag, Pending'[t])
             /\ Kept(call'[t].allowed, call'[t].lag, lines'[call'[t].key])
  <2> DEFINE c == call[t]
             d == call'[t]
             L == lines[c.key]
             P == Pending[t]
             M == Pending'[t]
  <2>1. /\ pc[t] = "assign" /\ t \in Stamped /\ d.key = c.key /\ c.key \in LineKeys
        /\ d.tokens = c.tokens /\ d.allowed = c.allowed /\ d.lag = c.lag + 1 /\ c.lag + 1 <= MaxLag
        /\ IsCall(c)
    BY <1>1, <1>3, <1>9 DEF Stamped, BucketInv
  <2>2. Rated(c.tokens, c.lag, P) /\ Kept(c.allowed, c.lag, L)
    BY <2>1 DEF LineInv
  <2>3. L \in Seq(0 .. MaxAge) /\ Len(L) <= Burst /\ lines'[c.key] = Older(L)
    BY <1>6, <2>1
  <2>4. /\ P = IF c.allowed THEN Latest(<< c.lag >> \o L) ELSE L
        /\ M = IF c.allowed THEN Latest(<< c.lag + 1 >> \o Older(L)) ELSE Older(L)
    BY <2>1, <2>3 DEF Pending, WithLine
  <2>5. c.lag \in 0 .. MaxLag /\ c.tokens \in -(MaxLag * Count) .. Full - 1
    BY <2>1 DEF IsCall
  <2> HIDE DEF c, d, L, P, M
  <2>6. /\ P \in Seq(0 .. MaxAge) /\ M # << >> /\ DOMAIN M = DOMAIN P
        /\ \A j \in DOMAIN P : M[j] = Capped(P[j] + 1)
    <3>1. CASE c.allowed
      BY <2>1, <2>3, <2>4, <2>5, <3>1, OlderLatest
    <3>2. CASE ~ c.allowed
      <4>1. L # << >>
        BY <2>2, <3>2 DEF Kept
      <4>2. /\ Older(L) \in Seq(0 .. MaxAge) /\ Len(Older(L)) = Len(L) /\ DOMAIN Older(L) = DOMAIN L
            /\ \A j \in DOMAIN L : Older(L)[j] = Capped(L[j] + 1)
        BY <2>3, OlderIs
      <4>3. Older(L) # << >>
        BY <2>3, <4>1, <4>2, EmptySeq
      <4>4. QED
        BY <2>3, <2>4, <3>2, <4>2, <4>3
    <3>3. QED
      BY <3>1, <3>2
  <2>7. c.lag \in 0 .. MaxAge /\ Capped(c.lag + 1) = c.lag + 1
    BY <2>1, <2>5, Parts DEF Capped
  <2>8. Rated(c.tokens, c.lag + 1, M)
    <3>1. Rated(c.tokens, Capped(c.lag + 1), M)
      BY <2>2, <2>5, <2>6, <2>7, Ages
    <3>2. QED
      BY <2>7, <3>1
  <2>9. Kept(c.allowed, c.lag + 1, Older(L))
    BY <2>1, <2>2, <2>3, <2>5, KeptOlder
  <2>10. QED
    BY <2>1, <2>3, <2>8, <2>9 DEF d, M
<1>10. DOMAIN lines' = LineKeys
  BY <1>1
<1>11. LineInv'
  BY <1>6, <1>7, <1>8, <1>9, <1>10 DEF LineInv
<1>12. QED
  BY <1>4, <1>11

LEMMA RateStep ==
  ASSUME TableInv, BucketInv, LineInv, [Next]_vars
  PROVE  BucketInv' /\ LineInv'
<1>1. CASE UNCHANGED vars
  <2>1. table' = table /\ pc' = pc /\ call' = call /\ lines' = lines
    BY <1>1 DEF vars
  <2>2. Decided' = Decided /\ Pending' = Pending
    BY <2>1 DEF Decided, Pending, WithLine
  <2>3. BucketInv'
    BY <2>1 DEF BucketInv
  <2>4. LineInv'
    BY <2>1, <2>2 DEF LineInv
  <2>5. QED
    BY <2>3, <2>4
<1>2. CASE Exit
  BY <1>2, ExitRated
<1>3. ASSUME NEW key \in LogKeys, Log(key)
      PROVE  BucketInv' /\ LineInv'
  <2>1. /\ "main" \in Threads /\ pc["main"] # "assign" /\ key \in OwnKeys("main")
        /\ Calls("main", key, "log", 0) /\ UNCHANGED << table, history >>
    BY <1>3 DEF Log, Threads, OwnKeys
  <2>2. QED
    BY <2>1, CallsRated
<1>4. ASSUME NEW t \in Threads, \/ \E key \in AlertKeys[t] : Alert(t, key)
                                \/ Fails(t) \/ LogAllowed(t) \/ NotifyFails(t)
      PROVE  BucketInv' /\ LineInv'
  <2>1. ASSUME NEW key \in AlertKeys[t], Alert(t, key)
        PROVE  BucketInv' /\ LineInv'
    <3>1. /\ pc[t] # "assign" /\ key \in OwnKeys(t) /\ Calls(t, key, "alert", 0)
          /\ UNCHANGED << table, history >>
      BY <2>1 DEF Alert, OwnKeys
    <3>2. QED
      BY <3>1, CallsRated
  <2>2. CASE Fails(t)
    <3>1. PICK h \in DOMAIN FatalKeys[t] : Calls(t, FatalKeys[t][h], "fatal", h)
      BY <2>2 DEF Fails
    <3>2. pc[t] # "assign" /\ UNCHANGED << table, history >>
      BY <2>2 DEF Fails
    <3>3. FatalKeys[t][h] \notin LineKeys /\ h \in Nat
      BY FatalKeyIs
    <3>4. QED
      BY <3>1, <3>2, <3>3, CallsRated
  <2>3. CASE Get(t)
    BY <2>3, GetRated
  <2>4. CASE Assign(t)
    BY <2>4, AssignRated
  <2>5. CASE MoveToEnd(t)
    <3>1. /\ pc[t] = "move" /\ pc'[t] = "evict" /\ call' = call /\ lines' = lines
          /\ \A o \in Threads \ {t} : pc'[o] = pc[o]
      BY <2>5 DEF MoveToEnd, Goto, TableInv
    <3>2. PICK i \in DOMAIN table : table' = Append(RemoveAt(table, i), table[i])
      BY <2>5 DEF MoveToEnd, At
    <3>3. PICK S : table \in Seq(S)
      BY DEF TableInv
    <3> DEFINE n == Len(table)
    <3>4. /\ n \in Nat /\ DOMAIN table' = 1 .. n /\ DOMAIN table = 1 .. n
          /\ \A j \in 1 .. n : table'[j] = IF j < i THEN table[j]
                                         ELSE IF j < n THEN table[j + 1] ELSE table[i]
      BY <3>2, <3>3, MovedIs
    <3> HIDE DEF n
    <3>5. \A j \in 1 .. n : j < n => j + 1 \in 1 .. n
      BY <3>4
    <3>6. \A j \in DOMAIN table' : \E o \in DOMAIN table : table'[j] = table[o]
      BY <3>4, <3>5
    <3>7. IsCall(call'[t]) /\ pc'[t] \in Labels \ {"assign"}
      BY <3>1 DEF BucketInv, Labels
    <3>8. QED
      BY <3>1, <3>6, <3>7, QuietStep
  <2>6. CASE MoveFails(t) \/ PopFails(t)
    <3>1. Raise(t) /\ pc[t] # "assign"
      BY <2>6 DEF MoveFails, PopFails
    <3>2. QED
      BY <3>1, RaiseRated
  <2>7. CASE Evict(t)
    <3>1. /\ pc[t] # "assign" /\ pc'[t] = "pop" /\ call' = call /\ lines' = lines /\ table' = table
          /\ \A o \in Threads \ {t} : pc'[o] = pc[o]
      BY <2>7 DEF Evict, Goto, TableInv, history
    <3>2. IsCall(call'[t]) /\ pc'[t] \in Labels \ {"assign"}
      BY <3>1 DEF BucketInv, Labels
    <3>3. QED
      BY <3>1, <3>2, QuietStep
  <2>8. CASE PopItem(t)
    <3>1. /\ pc[t] # "assign" /\ pc'[t] = "evict" /\ call' = call /\ lines' = lines
          /\ table # << >> /\ table' = Tail(table)
          /\ \A o \in Threads \ {t} : pc'[o] = pc[o]
      BY <2>8 DEF PopItem, Goto, TableInv, history
    <3> DEFINE n == Len(table)
    <3>2. /\ n \in Nat \ {0} /\ DOMAIN table = 1 .. n
          /\ DOMAIN table' = 1 .. n - 1 /\ \A i \in 1 .. n - 1 : table'[i] = table[i + 1]
      BY <3>1, EmptySeq, HeadTailProperties, LenProperties DEF TableInv
    <3> HIDE DEF n
    <3>3. \A i \in DOMAIN table' : \E j \in DOMAIN table : table'[i] = table[j]
      BY <3>2
    <3>4. IsCall(call'[t]) /\ pc'[t] \in Labels \ {"assign"}
      BY <3>1 DEF BucketInv, Labels
    <3>5. QED
      BY <3>1, <3>3, <3>4, QuietStep
  <2>9. CASE Return(t) /\ ~ Exit
    <3>1. /\ pc[t] # "assign" /\ pc'[t] = "idle" /\ call'[t] = NoCall /\ lines' = lines /\ table' = table
          /\ \A o \in Threads \ {t} : pc'[o] = pc[o] /\ call'[o] = call[o]
      BY <2>9 DEF Return, Goto, TableInv, history
    <3>2. IsCall(call'[t]) /\ pc'[t] \in Labels \ {"assign"}
      BY <3>1, NoCallIs DEF Labels
    <3>3. QED
      BY <3>1, <3>2, QuietStep
  <2>10. CASE NotifyFails(t)
    BY <1>2, <2>10 DEF NotifyFails
  <2>11. QED
    BY <1>2, <1>4, <2>1, <2>2, <2>3, <2>4, <2>5, <2>6, <2>7, <2>8, <2>9, <2>10 DEF LogAllowed
<1>5. CASE Tick
  BY <1>5, TickRated
<1>6. QED
  BY <1>1, <1>3, <1>4, <1>5 DEF Next

LEMMA RateInit == Init => BucketInv /\ LineInv
<1> SUFFICES ASSUME Init PROVE BucketInv /\ LineInv
  OBVIOUS
<1>1. /\ DOMAIN table = {} /\ \A t \in Threads : pc[t] = "idle" /\ call[t] = NoCall
      /\ lines = [key \in LineKeys |-> << >>]
  BY EmptySeq DEF Init
<1>2. \A t \in Threads : IsCall(call[t])
  BY <1>1, NoCallIs
<1>3. << >> \in Seq(0 .. MaxAge) /\ Len(<< >>) = 0 /\ 0 <= Burst
  BY EmptySeq, Parts
<1>4. QED
  BY <1>1, <1>2, <1>3 DEF BucketInv, LineInv

\* Each key's bucket accounts for the lines the key let through.
THEOREM AlwaysRated == Spec => [](TableInv /\ OrderInv /\ BucketInv /\ LineInv)
<1>1. Init => TableInv /\ OrderInv /\ BucketInv /\ LineInv
  BY TableInit, OrderInit, RateInit
<1>2. (TableInv /\ OrderInv /\ BucketInv /\ LineInv) /\ [Next]_vars
        => (TableInv /\ OrderInv /\ BucketInv /\ LineInv)'
  BY TableStep, OrderStep, RateStep
<1>3. QED
  BY <1>1, <1>2, PTL DEF Spec

\* The table has one entry per key, and its buckets and calls have their types.
THEOREM AlwaysTyped == Spec => []TypeOK
<1>1. OrderInv /\ BucketInv => TypeOK
  <2> SUFFICES ASSUME OrderInv, BucketInv PROVE TypeOK
    OBVIOUS
  <2>1. ASSUME NEW i \in DOMAIN table
        PROVE  /\ table[i].tokens \in -(MaxLag * Count) .. Burst * Unit - 1
               /\ table[i].age \in 0 .. MaxAge
               /\ At(table[i].key) = {i}
    <3>1. IsEntry(table[i])
      BY DEF BucketInv
    <3>2. At(table[i].key) = {i}
      BY DEF OrderInv, At
    <3>3. QED
      BY <3>1, <3>2 DEF IsEntry, Full
  <2>2. ASSUME NEW t \in Threads
        PROVE  /\ pc[t] \in {"idle", "get", "assign", "move", "evict", "pop", "gone"}
               /\ call[t].kind \in {"log", "alert", "fatal"}
               /\ call[t].tokens \in -(MaxLag * Count) .. Burst * Unit - 1
               /\ call[t].lag \in 0 .. MaxLag
    BY DEF BucketInv, IsCall, Full
  <2>3. QED
    BY <2>1, <2>2 DEF TypeOK
<1>2. QED
  BY <1>1, AlwaysRated, PTL

(* However the threads' accesses interleave, and whatever else is evicted, *)
(* a key that one thread logs with lets no line through before the         *)
(* Burst-th last one since its bucket was last missing has the age of a    *)
(* token, and has one suppressed only if the last one has not.             *)
THEOREM RateKept == Spec => []ThrottleKeepsItsRate
<1>1. LineInv => ThrottleKeepsItsRate
  BY DEF LineInv, ThrottleKeepsItsRate, Kept
<1>2. QED
  BY <1>1, AlwaysRated, PTL

===============================================================================
