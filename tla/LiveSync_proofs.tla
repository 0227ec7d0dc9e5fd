--------------------------- MODULE LiveSync_proofs ---------------------------
(***************************************************************************)
(* Proofs about the log lines the page shows, for any number of lines kept *)
(* and shown, of events on their way, and of broken streams and restarts.  *)
(*                                                                         *)
(* The page is right because of what it will be when its events have       *)
(* arrived (Reaches): its lines stay in order with each of them, and at    *)
(* the end have every line the manager holds from some number on.          *)
(***************************************************************************)
EXTENDS LiveSync, FiniteSetTheorems, FunctionTheorems, SequenceTheorems, TLAPS

LogLine == [id : Nat, proc : ProcId]

\* The numbers rise along s.
Rising(s) == \A i, j \in 1 .. Len(s) : i < j => s[i].id < s[j].id

UpTo(s, n) == \A i \in 1 .. Len(s) : s[i].id <= n

HasId(s, x) == \E i \in 1 .. Len(s) : s[i].id = x

\* Of the numbers in held, s has all that are higher than one of its own.
Covers(s, held) == \A x \in held : (\E i \in 1 .. Len(s) : s[i].id < x) => HasId(s, x)

\* t is the end of s.
EndOf(t, s) ==
    /\ Len(t) <= Len(s)
    /\ \A i \in 1 .. Len(t) : t[i] = s[Len(s) - Len(t) + i]

-----------------------------------------------------------------------------
(* The end of a sequence.                                                  *)

LEMMA LastOfIs ==
    ASSUME NEW T, NEW s \in Seq(T), NEW n \in Nat \ {0}
    PROVE  /\ LastOf(s, n) \in Seq(T)
           /\ Len(LastOf(s, n)) = IF Len(s) <= n THEN Len(s) ELSE n
           /\ EndOf(LastOf(s, n), s)
  <1> DEFINE k == Len(s) - n + 1
             first == Max({1, k})
  <1>1. Len(s) \in Nat /\ k \in Int
    OBVIOUS
  <1>2. first = IF k <= 1 THEN 1 ELSE k
    <2>1. \A m \in {1, k} : (\A x \in {1, k} : m >= x) => m = IF k <= 1 THEN 1 ELSE k
      BY <1>1
    <2>2. \E m \in {1, k} : \A x \in {1, k} : m >= x
      BY <1>1
    <2> HIDE DEF k
    <2>3. QED BY <2>1, <2>2 DEF Max
  <1>3. LastOf(s, n) = SubSeq(s, first, Len(s))
    BY DEF LastOf
  <1> HIDE DEF first
  <1>4. first \in 1 .. Len(s) + 1 /\ Len(s) - first + 1 = IF Len(s) <= n THEN Len(s) ELSE n
    BY <1>1, <1>2
  <1> HIDE DEF k
  <1>5. /\ SubSeq(s, first, Len(s)) \in Seq(T)
        /\ Len(SubSeq(s, first, Len(s))) = Len(s) - first + 1
        /\ \A i \in 1 .. Len(s) - first + 1 : SubSeq(s, first, Len(s))[i] = s[first + i - 1]
    BY <1>1, <1>4
  <1>6. EndOf(LastOf(s, n), s)
    <2>1. Len(LastOf(s, n)) = Len(s) - first + 1
      BY <1>3, <1>5
    <2>2. \A i \in 1 .. Len(s) - first + 1 : LastOf(s, n)[i] = s[first + i - 1]
      BY <1>3, <1>5
    <2>3. Len(s) - (Len(s) - first + 1) = first - 1 /\ Len(s) - first + 1 <= Len(s)
      BY <1>1, <1>4
    <2>4. \A i \in 1 .. Len(s) - first + 1 : (first - 1) + i = first + i - 1
      BY <1>1, <1>4
    <2>5. QED BY <2>1, <2>2, <2>3, <2>4 DEF EndOf
  <1>7. QED BY <1>3, <1>4, <1>5, <1>6

\* What holds of the lines of s holds of its end.
LEMMA EndKeeps ==
    ASSUME NEW s \in Seq(LogLine), NEW t \in Seq(LogLine), EndOf(t, s)
    PROVE  /\ Rising(s) => Rising(t)
           /\ \A n \in Nat : UpTo(s, n) => UpTo(t, n)
           /\ \A held \in SUBSET Nat : Rising(s) /\ Covers(s, held) => Covers(t, held)
  <1> DEFINE from == Len(s) - Len(t)
  <1>1. from \in Nat /\ Len(s) \in Nat /\ Len(t) \in Nat /\ from + Len(t) = Len(s)
    BY DEF EndOf
  <1>2. \A i \in 1 .. Len(t) : t[i] = s[from + i]
    BY DEF EndOf
  <1>3. \A i \in 1 .. Len(s) : s[i].id \in Nat
    <2>1. \A i \in 1 .. Len(s) : s[i] \in LogLine
      OBVIOUS
    <2>2. QED BY <2>1 DEF LogLine
  <1> HIDE DEF from
  <1>4. \A i \in 1 .. Len(t) : from + i \in 1 .. Len(s)
    BY <1>1
  <1>5. Rising(s) => Rising(t)
    BY <1>1, <1>2, <1>4 DEF Rising
  <1>6. \A n \in Nat : UpTo(s, n) => UpTo(t, n)
    BY <1>2, <1>4 DEF UpTo
  <1>7. ASSUME NEW held \in SUBSET Nat, Rising(s), Covers(s, held),
               NEW x \in held, NEW i \in 1 .. Len(t), t[i].id < x
        PROVE  HasId(t, x)
    <2>1. from + i \in 1 .. Len(s) /\ s[from + i].id < x
      BY <1>2, <1>4, <1>7
    <2>2. PICK k \in 1 .. Len(s) : s[k].id = x
      BY <1>7, <2>1 DEF Covers, HasId
    <2>3. from + i < k
      <3>1. ~ k < from + i
        BY <1>3, <1>7, <2>1, <2>2 DEF Rising
      <3>2. k # from + i
        BY <2>1, <2>2, <1>3
      <3>3. QED BY <1>1, <3>1, <3>2
    <2>4. k - from \in 1 .. Len(t) /\ from + (k - from) = k
      BY <1>1, <2>3
    <2>5. t[k - from].id = x
      BY <1>2, <2>2, <2>4
    <2>6. QED BY <2>4, <2>5 DEF HasId
  <1>8. \A held \in SUBSET Nat : Rising(s) /\ Covers(s, held) => Covers(t, held)
    BY <1>7 DEF Covers
  <1>9. QED BY <1>5, <1>6, <1>8

\* The end of an end, and a line more behind both.
LEMMA EndOfEnd ==
    ASSUME NEW T, NEW r \in Seq(T), NEW s \in Seq(T), NEW t \in Seq(T), EndOf(t, s), EndOf(s, r)
    PROVE  EndOf(t, r)
  <1>1. \A i \in 1 .. Len(t) : Len(s) - Len(t) + i \in 1 .. Len(s)
    BY DEF EndOf
  <1>2. \A i \in 1 .. Len(t) : Len(r) - Len(s) + (Len(s) - Len(t) + i) = Len(r) - Len(t) + i
    OBVIOUS
  <1>3. Len(t) <= Len(r)
    BY DEF EndOf
  <1>4. \A i \in 1 .. Len(t) : t[i] = s[Len(s) - Len(t) + i]
    BY DEF EndOf
  <1>5. \A i \in 1 .. Len(s) : s[i] = r[Len(r) - Len(s) + i]
    BY DEF EndOf
  <1>6. \A i \in 1 .. Len(t) : t[i] = r[Len(r) - Len(t) + i]
    BY <1>1, <1>2, <1>4, <1>5
  <1>7. QED BY <1>3, <1>6 DEF EndOf

LEMMA EndsOfOne ==
    ASSUME NEW T, NEW r \in Seq(T), NEW s \in Seq(T), NEW t \in Seq(T),
           EndOf(s, r), EndOf(t, r), Len(t) <= Len(s)
    PROVE  EndOf(t, s)
  <1>1. \A i \in 1 .. Len(t) : Len(s) - Len(t) + i \in 1 .. Len(s)
    OBVIOUS
  <1>2. \A i \in 1 .. Len(t) : Len(r) - Len(s) + (Len(s) - Len(t) + i) = Len(r) - Len(t) + i
    OBVIOUS
  <1>3. \A i \in 1 .. Len(t) : t[i] = r[Len(r) - Len(t) + i]
    BY DEF EndOf
  <1>4. \A i \in 1 .. Len(s) : s[i] = r[Len(r) - Len(s) + i]
    BY DEF EndOf
  <1>5. \A i \in 1 .. Len(t) : t[i] = s[Len(s) - Len(t) + i]
    BY <1>1, <1>2, <1>3, <1>4
  <1>6. QED BY <1>5 DEF EndOf

LEMMA EndOfLonger ==
    ASSUME NEW T, NEW s \in Seq(T), NEW t \in Seq(T), NEW line \in T, EndOf(t, s)
    PROVE  EndOf(Append(t, line), Append(s, line))
  <1> DEFINE t1 == Append(t, line)
             s1 == Append(s, line)
  <1>1. /\ Len(t1) = Len(t) + 1 /\ t1[Len(t) + 1] = line
        /\ \A i \in 1 .. Len(t) : t1[i] = t[i]
    OBVIOUS
  <1>2. /\ Len(s1) = Len(s) + 1 /\ s1[Len(s) + 1] = line
        /\ \A i \in 1 .. Len(s) : s1[i] = s[i]
    OBVIOUS
  <1> HIDE DEF t1, s1
  <1>3. Len(t) \in Nat /\ Len(s) \in Nat /\ Len(t) <= Len(s)
    BY DEF EndOf
  <1>4. ASSUME NEW i \in 1 .. Len(t) + 1
        PROVE  t1[i] = s1[(Len(s) + 1) - (Len(t) + 1) + i]
    <2>1. CASE i = Len(t) + 1
      <3>1. (Len(s) + 1) - (Len(t) + 1) + i = Len(s) + 1
        BY <1>3, <2>1
      <3>2. QED BY <1>1, <1>2, <2>1, <3>1
    <2>2. CASE i \in 1 .. Len(t)
      <3>1. (Len(s) + 1) - (Len(t) + 1) + i = Len(s) - Len(t) + i
        BY <1>3, <2>2
      <3>2. Len(s) - Len(t) + i \in 1 .. Len(s)
        BY <1>3, <2>2
      <3>3. t[i] = s[Len(s) - Len(t) + i]
        BY <2>2 DEF EndOf
      <3>4. QED BY <1>1, <1>2, <2>2, <3>1, <3>2, <3>3
    <2>3. QED BY <1>3, <2>1, <2>2
  <1>5. EndOf(t1, s1)
    BY <1>1, <1>2, <1>3, <1>4 DEF EndOf
  <1>6. QED BY <1>5 DEF t1, s1

LEMMA EndAppends ==
    ASSUME NEW T, NEW s \in Seq(T), NEW t \in Seq(T), NEW line \in T, EndOf(t, s),
           NEW n \in Nat \ {0}
    PROVE  EndOf(LastOf(Append(t, line), n), LastOf(Append(s, line), n))
  <1> DEFINE t1 == Append(t, line)
             s1 == Append(s, line)
  <1>1. t1 \in Seq(T) /\ s1 \in Seq(T) /\ Len(t1) = Len(t) + 1 /\ Len(s1) = Len(s) + 1
    OBVIOUS
  <1>2. EndOf(t1, s1)
    BY EndOfLonger
  <1> HIDE DEF t1, s1
  <1>3. /\ LastOf(t1, n) \in Seq(T) /\ EndOf(LastOf(t1, n), t1)
        /\ Len(LastOf(t1, n)) = IF Len(t1) <= n THEN Len(t1) ELSE n
    BY <1>1, LastOfIs
  <1>4. /\ LastOf(s1, n) \in Seq(T) /\ EndOf(LastOf(s1, n), s1)
        /\ Len(LastOf(s1, n)) = IF Len(s1) <= n THEN Len(s1) ELSE n
    BY <1>1, LastOfIs
  <1>5. EndOf(LastOf(t1, n), s1)
    BY <1>1, <1>2, <1>3, EndOfEnd
  <1>6. Len(t1) \in Nat /\ Len(s1) \in Nat /\ Len(t1) <= Len(s1)
    BY <1>1, <1>2 DEF EndOf
  <1>7. Len(LastOf(t1, n)) <= Len(LastOf(s1, n))
    BY <1>3, <1>4, <1>6
  <1>8. EndOf(LastOf(t1, n), LastOf(s1, n))
    BY <1>1, <1>3, <1>4, <1>5, <1>7, EndsOfOne
  <1>9. QED BY <1>8 DEF t1, s1

\* A new line has the next number.
LEMMA NextLine ==
    ASSUME NEW s \in Seq(LogLine), NEW n \in Nat, NEW line \in LogLine, line.id = n + 1,
           Rising(s), UpTo(s, n)
    PROVE  /\ Append(s, line) \in Seq(LogLine)
           /\ Rising(Append(s, line)) /\ UpTo(Append(s, line), n + 1)
           /\ \A x : HasId(Append(s, line), x) <=> HasId(s, x) \/ x = n + 1
           /\ \A held \in SUBSET (0 .. n), then \in SUBSET Nat :
                 Covers(s, held) /\ then \subseteq held \cup {n + 1} => Covers(Append(s, line), then)
  <1> DEFINE s1 == Append(s, line)
  <1>1. /\ s1 \in Seq(LogLine)
        /\ Len(s) \in Nat /\ Len(s1) = Len(s) + 1 /\ s1[Len(s) + 1] = line
        /\ \A i \in 1 .. Len(s) : s1[i] = s[i]
    OBVIOUS
  <1> HIDE DEF s1
  <1>2. \A i \in 1 .. Len(s) : s[i].id \in Nat /\ s[i].id <= n
    <2>1. \A i \in 1 .. Len(s) : s[i] \in LogLine
      OBVIOUS
    <2>2. QED BY <2>1 DEF LogLine, UpTo
  <1>3. \A i \in 1 .. Len(s1) : i \in 1 .. Len(s) \/ i = Len(s) + 1
    BY <1>1
  <1>4. Rising(s1)
    <2> SUFFICES ASSUME NEW i \in 1 .. Len(s1), NEW j \in 1 .. Len(s1), i < j
                 PROVE  s1[i].id < s1[j].id
      BY DEF Rising
    <2>1. i \in 1 .. Len(s)
      BY <1>1
    <2>2. CASE j \in 1 .. Len(s)
      BY <1>1, <2>1, <2>2 DEF Rising
    <2>3. CASE j = Len(s) + 1
      BY <1>1, <1>2, <2>1, <2>3
    <2>4. QED BY <1>3, <2>2, <2>3
  <1>5. UpTo(s1, n + 1)
    BY <1>1, <1>2, <1>3 DEF UpTo
  <1>6. ASSUME NEW x PROVE HasId(s1, x) <=> HasId(s, x) \/ x = n + 1
    <2>1. HasId(s, x) => HasId(s1, x)
      BY <1>1 DEF HasId
    <2>2. HasId(s1, n + 1)
      BY <1>1 DEF HasId
    <2>3. ASSUME NEW i \in 1 .. Len(s1), s1[i].id = x PROVE HasId(s, x) \/ x = n + 1
      <3>1. CASE i \in 1 .. Len(s)
        BY <1>1, <2>3, <3>1 DEF HasId
      <3>2. CASE i = Len(s) + 1
        BY <1>1, <2>3, <3>2
      <3>3. QED BY <1>3, <3>1, <3>2
    <2>4. HasId(s1, x) => HasId(s, x) \/ x = n + 1
      BY <2>3 DEF HasId
    <2>5. QED BY <2>1, <2>2, <2>4
  <1>7. ASSUME NEW held \in SUBSET (0 .. n), NEW then \in SUBSET Nat, Covers(s, held),
               then \subseteq held \cup {n + 1}, NEW x \in then, NEW i \in 1 .. Len(s1), s1[i].id < x
        PROVE  HasId(s1, x)
    <2>1. CASE x = n + 1
      BY <1>6, <2>1
    <2>2. CASE x # n + 1 /\ i \in 1 .. Len(s)
      <3>1. x \in held /\ s[i].id < x
        BY <1>1, <1>7, <2>2
      <3>2. HasId(s, x)
        BY <2>2, <3>1, <1>7 DEF Covers
      <3>3. QED BY <1>6, <3>2
    <2>3. CASE x # n + 1 /\ i = Len(s) + 1
      <3>1. n + 1 < x /\ x \in held
        BY <1>1, <1>7, <2>3
      <3>2. x <= n
        BY <3>1
      <3>3. QED BY <3>1, <3>2
    <2>4. QED BY <1>3, <2>1, <2>2, <2>3
  <1>8. QED BY <1>1, <1>4, <1>5, <1>6, <1>7 DEF s1, Covers

-----------------------------------------------------------------------------
(* The lines of all processes.                                             *)

\* What the manager holds: each process's lines in order, none numbered like
\* another's, and none beyond the counter.
Managed(logs, seq) ==
    /\ seq \in Nat
    /\ logs \in [ProcId -> Seq(LogLine)]
    /\ \A p \in ProcId : Rising(logs[p]) /\ UpTo(logs[p], seq)
    /\ \A p, q \in ProcId, x \in Nat : HasId(logs[p], x) /\ HasId(logs[q], x) => p = q

Held(logs) == {x \in Nat : \E p \in ProcId : HasId(logs[p], x)}

\* The places of a sort by number.
Places(s) ==
    [i \in DOMAIN s |-> Cardinality({j \in DOMAIN s :
        \/ s[j].id < s[i].id
        \/ s[j].id = s[i].id /\ j <= i})]

Sorted(s) == [k \in DOMAIN s |-> s[CHOOSE i \in DOMAIN s : Places(s)[i] = k]]

Different(s) == \A i, j \in 1 .. Len(s) : s[i].id = s[j].id => i = j

LEMMA PlacesRank ==
    ASSUME NEW s \in Seq(LogLine), Different(s)
    PROVE  /\ Places(s) \in [1 .. Len(s) -> 1 .. Len(s)]
           /\ \A i, k \in 1 .. Len(s) : s[i].id < s[k].id => Places(s)[i] < Places(s)[k]
           /\ \A n \in 1 .. Len(s) : \E i \in 1 .. Len(s) : Places(s)[i] = n
  <1> DEFINE N == 1 .. Len(s)
             id == [i \in N |-> s[i].id]
             Before(i) == {j \in N : id[j] < id[i] \/ (id[j] = id[i] /\ j <= i)}
             place == Places(s)
  <1>1. DOMAIN s = N /\ IsFiniteSet(N) /\ Cardinality(N) = Len(s)
    <2>1. Len(s) \in Nat /\ DOMAIN s = N
      OBVIOUS
    <2>2. IsFiniteSet(N) /\ Cardinality(N) = IF 1 > Len(s) THEN 0 ELSE Len(s) - 1 + 1
      BY <2>1, FS_Interval
    <2> HIDE DEF N
    <2>3. QED BY <2>1, <2>2
  <1>2. \A i \in N : id[i] \in Nat
    <2>1. \A i \in N : s[i] \in LogLine
      OBVIOUS
    <2>2. QED BY <2>1 DEF LogLine
  <1>3. \A i, j \in N : id[i] = id[j] => i = j
    BY DEF Different
  <1>4. place = [i \in N |-> Cardinality(Before(i))]
    <2> DEFINE There(i) == {j \in N : s[j].id < s[i].id \/ (s[j].id = s[i].id /\ j <= i)}
    <2>1. ASSUME NEW i \in N PROVE There(i) = Before(i)
      <3>1. \A j \in N : id[j] = s[j].id
        OBVIOUS
      <3> HIDE DEF N, id
      <3>2. \A j \in N : j \in There(i) <=> j \in Before(i)
        BY <3>1
      <3>3. QED BY <3>2
    <2>2. place = [i \in N |-> Cardinality(There(i))]
      <3> HIDE DEF N
      <3>1. QED BY <1>1, Zenon DEF Places, place
    <2> HIDE DEF There, Before, N, place
    <2>3. QED BY <2>1, <2>2
  <1>5. \A i \in N : s[i].id = id[i]
    OBVIOUS
  <1> HIDE DEF id, place
  <1>6. ASSUME NEW i \in N
        PROVE  IsFiniteSet(Before(i)) /\ Cardinality(Before(i)) \in N
    <2>1. Before(i) \in SUBSET N /\ i \in Before(i)
      BY <1>2
    <2> HIDE DEF Before, N
    <2>2. IsFiniteSet(Before(i)) /\ Cardinality(Before(i)) <= Cardinality(N)
      BY <1>1, <2>1, FS_Subset
    <2>3. Cardinality(Before(i)) \in Nat /\ Cardinality(Before(i)) # 0
      BY <2>1, <2>2, FS_CardinalityType, FS_EmptySet
    <2>4. QED BY <1>1, <2>2, <2>3 DEF N
  <1>7. ASSUME NEW i \in N, NEW k \in N, id[i] < id[k]
        PROVE  Cardinality(Before(i)) < Cardinality(Before(k))
    <2>1. Before(i) \in SUBSET Before(k) /\ k \in Before(k) /\ k \notin Before(i)
      <3>1. ASSUME NEW j \in N, id[j] < id[i] \/ id[j] = id[i] PROVE id[j] < id[k]
        <4>1. id[j] \in Nat /\ id[i] \in Nat /\ id[k] \in Nat
          BY <1>2
        <4>2. QED BY <1>7, <3>1, <4>1
      <3>2. \A j \in Before(i) : j \in Before(k)
        BY <3>1
      <3>3. k \in Before(k)
        OBVIOUS
      <3>4. ~ id[k] < id[i] /\ id[k] # id[i]
        BY <1>2, <1>7
      <3>5. k \notin Before(i)
        BY <3>4
      <3>6. QED BY <3>2, <3>3, <3>5
    <2>2. /\ IsFiniteSet(Before(k))
          /\ Cardinality(Before(i)) \in Nat /\ Cardinality(Before(k)) \in Nat
      <3>1. /\ IsFiniteSet(Before(k))
            /\ Cardinality(Before(i)) \in N /\ Cardinality(Before(k)) \in N
        <4> HIDE DEF Before, N
        <4>1. QED BY <1>6
      <3>2. \A n \in N : n \in Nat
        OBVIOUS
      <3> HIDE DEF Before, N
      <3>3. QED BY <3>1, <3>2
    <2> HIDE DEF Before, N
    <2>3. Cardinality(Before(i)) <= Cardinality(Before(k)) /\ Cardinality(Before(i)) # Cardinality(Before(k))
      BY <2>1, <2>2, FS_Subset
    <2>4. QED BY <2>2, <2>3
  <1>8. place \in [N -> N] /\ \A i, k \in N : id[i] < id[k] => place[i] < place[k]
    <2> HIDE DEF Before, N
    <2>1. QED BY <1>4, <1>6, <1>7
  <1>9. place \in Injection(N, N)
    <2>1. ASSUME NEW i \in N, NEW k \in N, i # k PROVE place[i] # place[k]
      <3>1. id[i] \in Nat /\ id[k] \in Nat /\ id[i] # id[k]
        BY <1>2, <1>3, <2>1
      <3>2. id[i] < id[k] \/ id[k] < id[i]
        BY <3>1
      <3>3. place[i] \in Nat /\ place[k] \in Nat
        BY <1>8
      <3>4. QED BY <1>8, <3>2, <3>3
    <2> HIDE DEF N
    <2>2. QED BY <1>8, <2>1, Fun_IsInj
  <1>10. \A n \in N : \E i \in N : place[i] = n
    <2> HIDE DEF N
    <2>1. place \in Surjection(N, N)
      BY <1>1, <1>9, FS_Injection
    <2>2. QED BY <2>1, Fun_SurjectionProperties, Zenon
  <1>11. QED BY <1>5, <1>8, <1>10 DEF place

LEMMA SortedIs ==
    ASSUME NEW s \in Seq(LogLine), Different(s)
    PROVE  /\ Sorted(s) \in Seq(LogLine) /\ Rising(Sorted(s))
           /\ \A x : HasId(Sorted(s), x) <=> HasId(s, x)
  <1> DEFINE N == 1 .. Len(s)
             place == Places(s)
             at == [k \in N |-> CHOOSE i \in N : place[i] = k]
             t == Sorted(s)
  <1>1. DOMAIN s = N /\ Len(s) \in Nat
    OBVIOUS
  <1>2. /\ place \in [N -> N]
        /\ \A i, k \in N : s[i].id < s[k].id => place[i] < place[k]
        /\ \A n \in N : \E i \in N : place[i] = n
    BY PlacesRank
  <1>3. \A k \in N : at[k] \in N /\ place[at[k]] = k
    <2> HIDE DEF N, place
    <2>1. QED BY <1>2
  <1>4. t = [k \in N |-> s[at[k]]]
    BY <1>1 DEF Sorted
  <1>5. \A i \in N : s[i] \in LogLine /\ s[i].id \in Nat
    <2>1. \A i \in N : s[i] \in LogLine
      OBVIOUS
    <2>2. QED BY <2>1 DEF LogLine
  <1> HIDE DEF place, at, t
  <1>6. t \in Seq(LogLine) /\ Len(t) = Len(s) /\ \A k \in N : t[k] = s[at[k]]
    <2>1. t \in [N -> LogLine]
      BY <1>3, <1>4, <1>5
    <2>2. QED BY <1>1, <1>4, <2>1
  <1>7. ASSUME NEW k \in N, NEW l \in N, k < l PROVE t[k].id < t[l].id
    <2>1. at[k] \in N /\ at[l] \in N /\ place[at[k]] = k /\ place[at[l]] = l
      BY <1>3
    <2>2. ~ s[at[l]].id < s[at[k]].id
      <3>1. s[at[l]].id < s[at[k]].id => place[at[l]] < place[at[k]]
        BY <1>2, <2>1
      <3>2. QED BY <1>7, <2>1, <3>1
    <2>3. s[at[k]].id # s[at[l]].id
      BY <1>7, <2>1 DEF Different
    <2>4. s[at[k]].id \in Nat /\ s[at[l]].id \in Nat
      BY <1>5, <2>1
    <2>5. s[at[k]].id < s[at[l]].id
      BY <2>2, <2>3, <2>4
    <2>6. QED BY <1>6, <2>5
  <1>8. ASSUME NEW x PROVE HasId(t, x) <=> HasId(s, x)
    <2>1. HasId(t, x) => HasId(s, x)
      BY <1>3, <1>6 DEF HasId
    <2>2. ASSUME NEW i \in N, s[i].id = x PROVE HasId(t, x)
      <3>1. place[i] \in N /\ at[place[i]] \in N /\ place[at[place[i]]] = place[i]
        BY <1>2, <1>3
      <3>2. at[place[i]] = i
        <4>1. ~ s[i].id < s[at[place[i]]].id /\ ~ s[at[place[i]]].id < s[i].id
          <5> DEFINE k == at[place[i]]
          <5>1. k \in N /\ place[k] = place[i]
            BY <3>1
          <5> HIDE DEF k
          <5>2. /\ s[i].id < s[k].id => place[i] < place[k]
                /\ s[k].id < s[i].id => place[k] < place[i]
            BY <1>2, <5>1
          <5>3. place[i] \in Nat
            BY <3>1
          <5>4. ~ s[i].id < s[k].id /\ ~ s[k].id < s[i].id
            BY <5>1, <5>2, <5>3
          <5>5. QED BY <5>4 DEF k
        <4>2. s[i].id \in Nat /\ s[at[place[i]]].id \in Nat
          BY <1>5, <3>1
        <4>3. s[i].id = s[at[place[i]]].id
          BY <4>1, <4>2
        <4>4. QED BY <3>1, <4>3 DEF Different
      <3>3. t[place[i]].id = x
        BY <1>6, <2>2, <3>1, <3>2
      <3>4. QED BY <1>6, <3>1, <3>3 DEF HasId
    <2>3. QED BY <2>1, <2>2 DEF HasId
  <1>9. QED BY <1>6, <1>7, <1>8 DEF Rising, t

\* What allLogs returns: every line held, in order.
LEMMA AllLogsIs ==
    ASSUME Managed(manager.logs, manager.logSeq)
    PROVE  /\ allLogs \in Seq(LogLine) /\ Rising(allLogs)
           /\ \A x \in Nat : HasId(allLogs, x) <=> x \in Held(manager.logs)
  <1> DEFINE a == manager.logs["server"]
             b == manager.logs["daemon"]
             s == a \o b
  <1>1. a \in Seq(LogLine) /\ b \in Seq(LogLine) /\ Rising(a) /\ Rising(b)
    BY DEF Managed, ProcId
  <1>2. \A x \in Nat : ~ (HasId(a, x) /\ HasId(b, x))
    BY DEF Managed, ProcId
  <1>3. \A x \in Nat : x \in Held(manager.logs) <=> HasId(a, x) \/ HasId(b, x)
    BY DEF Held, ProcId
  <1>4. allLogs = Sorted(s)
    BY DEF allLogs, Sorted, Places
  <1> HIDE DEF a, b
  <1>5. /\ s \in Seq(LogLine) /\ Len(s) = Len(a) + Len(b)
        /\ \A i \in 1 .. Len(a) : s[i] = a[i]
        /\ \A i \in Len(a) + 1 .. Len(s) : s[i] = b[i - Len(a)]
        /\ \A i \in 1 .. Len(b) : s[Len(a) + i] = b[i]
    BY <1>1
  <1>6. Len(a) \in Nat /\ Len(b) \in Nat
    BY <1>1
  <1>7. /\ \A i \in 1 .. Len(a) : a[i].id \in Nat
        /\ \A i \in 1 .. Len(b) : b[i].id \in Nat
    <2>1. /\ \A i \in 1 .. Len(a) : a[i] \in LogLine
          /\ \A i \in 1 .. Len(b) : b[i] \in LogLine
      BY <1>1
    <2>2. QED BY <2>1 DEF LogLine
  <1> HIDE DEF s
  <1>8. \A i \in 1 .. Len(s) :
           \/ i \in 1 .. Len(a) /\ s[i] = a[i]
           \/ i > Len(a) /\ i - Len(a) \in 1 .. Len(b) /\ s[i] = b[i - Len(a)]
    BY <1>5, <1>6
  <1>9. ASSUME NEW i \in 1 .. Len(s), NEW j \in 1 .. Len(s), s[i].id = s[j].id PROVE i = j
    <2>1. CASE i \in 1 .. Len(a) /\ s[i] = a[i] /\ j \in 1 .. Len(a) /\ s[j] = a[j]
      BY <1>1, <1>7, <1>9, <2>1 DEF Rising
    <2>2. CASE i \in 1 .. Len(a) /\ s[i] = a[i]
               /\ j > Len(a) /\ j - Len(a) \in 1 .. Len(b) /\ s[j] = b[j - Len(a)]
      BY <1>2, <1>7, <1>9, <2>2 DEF HasId
    <2>3. CASE j \in 1 .. Len(a) /\ s[j] = a[j]
               /\ i > Len(a) /\ i - Len(a) \in 1 .. Len(b) /\ s[i] = b[i - Len(a)]
      BY <1>2, <1>7, <1>9, <2>3 DEF HasId
    <2>4. CASE /\ i > Len(a) /\ i - Len(a) \in 1 .. Len(b) /\ s[i] = b[i - Len(a)]
               /\ j > Len(a) /\ j - Len(a) \in 1 .. Len(b) /\ s[j] = b[j - Len(a)]
      <3>1. PICK k \in 1 .. Len(b), l \in 1 .. Len(b) : k = i - Len(a) /\ l = j - Len(a)
        BY <2>4
      <3>2. b[k].id = b[l].id /\ b[k].id \in Nat
        BY <1>7, <1>9, <2>4, <3>1
      <3>3. ~ k < l /\ ~ l < k
        <4>1. /\ k < l => b[k].id < b[l].id
              /\ l < k => b[l].id < b[k].id
          BY <1>1, <3>1 DEF Rising
        <4>2. QED BY <3>2, <4>1
      <3>4. k = l
        BY <1>6, <3>1, <3>3
      <3>5. QED BY <1>6, <3>1, <3>4
    <2>5. QED BY <1>8, <2>1, <2>2, <2>3, <2>4
  <1>10. \A x \in Nat : HasId(s, x) <=> HasId(a, x) \/ HasId(b, x)
    <2>1. \A x \in Nat : HasId(s, x) => HasId(a, x) \/ HasId(b, x)
      BY <1>8 DEF HasId
    <2>2. \A i \in 1 .. Len(a) : i \in 1 .. Len(s)
      BY <1>5, <1>6
    <2>3. \A i \in 1 .. Len(b) : Len(a) + i \in 1 .. Len(s)
      BY <1>5, <1>6
    <2>4. \A x \in Nat : HasId(a, x) => HasId(s, x)
      BY <1>5, <2>2 DEF HasId
    <2>5. \A x \in Nat : HasId(b, x) => HasId(s, x)
      BY <1>5, <2>3 DEF HasId
    <2>6. QED BY <2>1, <2>4, <2>5
  <1>11. Different(s)
    BY <1>9 DEF Different
  <1>12. QED BY <1>3, <1>4, <1>5, <1>10, <1>11, SortedIs

LEMMA HeldUpTo ==
    ASSUME NEW logs, NEW seq, Managed(logs, seq)
    PROVE  Held(logs) \in SUBSET (0 .. seq)
  <1>1. ASSUME NEW x \in Nat, NEW p \in ProcId, HasId(logs[p], x) PROVE x \in 0 .. seq
    BY <1>1 DEF HasId, Managed, UpTo
  <1>2. QED BY <1>1 DEF Held

\* A line that is pushed keeps this, and is all that can be new.
LEMMA ManagedPush ==
    ASSUME NEW logs, NEW seq, Managed(logs, seq), NEW p \in ProcId, NEW n \in Nat \ {0},
           NEW line \in LogLine, line.id = seq + 1
    PROVE  /\ Managed([logs EXCEPT ![p] = LastOf(Append(logs[p], line), n)], seq + 1)
           /\ Held([logs EXCEPT ![p] = LastOf(Append(logs[p], line), n)])
                 \subseteq Held(logs) \cup {seq + 1}
  <1> DEFINE more == Append(logs[p], line)
             kept == LastOf(more, n)
             after == [logs EXCEPT ![p] = kept]
  <1>1. logs[p] \in Seq(LogLine) /\ seq \in Nat /\ Rising(logs[p]) /\ UpTo(logs[p], seq)
    BY DEF Managed
  <1>2. /\ more \in Seq(LogLine) /\ Rising(more) /\ UpTo(more, seq + 1)
        /\ \A x : HasId(more, x) <=> HasId(logs[p], x) \/ x = seq + 1
    BY <1>1, NextLine
  <1> HIDE DEF more
  <1>3. kept \in Seq(LogLine) /\ EndOf(kept, more)
    BY <1>2, LastOfIs
  <1> HIDE DEF kept
  <1>4. Rising(kept) /\ UpTo(kept, seq + 1)
    BY <1>1, <1>2, <1>3, EndKeeps
  <1>5. ASSUME NEW x, HasId(kept, x) PROVE HasId(logs[p], x) \/ x = seq + 1
    <2>1. PICK i \in 1 .. Len(kept) : kept[i].id = x
      BY <1>5 DEF HasId
    <2>2. Len(more) - Len(kept) + i \in 1 .. Len(more) /\ kept[i] = more[Len(more) - Len(kept) + i]
      BY <1>2, <1>3 DEF EndOf
    <2>3. HasId(more, x)
      BY <2>1, <2>2 DEF HasId
    <2>4. QED BY <1>2, <2>3
  <1>6. /\ after \in [ProcId -> Seq(LogLine)] /\ after[p] = kept
        /\ \A q \in ProcId : q # p => after[q] = logs[q]
    BY <1>3 DEF Managed
  <1> HIDE DEF after
  <1>7. ASSUME NEW q \in ProcId PROVE Rising(after[q]) /\ UpTo(after[q], seq + 1)
    <2>1. CASE q = p
      BY <1>4, <1>6, <2>1
    <2>2. CASE q # p
      <3>1. Rising(logs[q]) /\ UpTo(logs[q], seq) /\ logs[q] \in Seq(LogLine)
        BY DEF Managed
      <3>2. \A i \in 1 .. Len(logs[q]) : logs[q][i].id \in Nat
        <4>1. \A i \in 1 .. Len(logs[q]) : logs[q][i] \in LogLine
          BY <3>1
        <4>2. QED BY <4>1 DEF LogLine
      <3>3. UpTo(logs[q], seq + 1)
        BY <1>1, <3>1, <3>2 DEF UpTo
      <3>4. QED BY <1>6, <2>2, <3>1, <3>3
    <2>3. QED BY <2>1, <2>2
  <1>8. ASSUME NEW q \in ProcId, NEW x, HasId(after[q], x)
        PROVE  HasId(logs[q], x) \/ (q = p /\ x = seq + 1)
    BY <1>5, <1>6, <1>8
  <1>9. ASSUME NEW q \in ProcId, NEW r \in ProcId, NEW x \in Nat,
               HasId(after[q], x), HasId(after[r], x)
        PROVE  q = r
    <2>1. ~ HasId(logs[q], seq + 1) /\ ~ HasId(logs[r], seq + 1)
      <3>1. UpTo(logs[q], seq) /\ UpTo(logs[r], seq)
        BY DEF Managed
      <3>2. QED BY <1>1, <3>1 DEF UpTo, HasId
    <2>2. CASE HasId(logs[q], x) /\ HasId(logs[r], x)
      BY <2>2 DEF Managed
    <2>3. CASE ~ (HasId(logs[q], x) /\ HasId(logs[r], x))
      BY <1>8, <1>9, <2>1, <2>3
    <2>4. QED BY <2>2, <2>3
  <1>10. Managed(after, seq + 1)
    BY <1>1, <1>6, <1>7, <1>9 DEF Managed
  <1>11. Held(after) \subseteq Held(logs) \cup {seq + 1}
    BY <1>8 DEF Held
  <1>12. QED BY <1>10, <1>11 DEF after, kept, more

\* So does starting a process anew.
LEMMA ManagedCleared ==
    ASSUME NEW logs, NEW seq, Managed(logs, seq), NEW p \in ProcId
    PROVE  /\ Managed([logs EXCEPT ![p] = << >>], seq)
           /\ Held([logs EXCEPT ![p] = << >>]) \subseteq Held(logs)
  <1> DEFINE after == [logs EXCEPT ![p] = << >>]
  <1>1. /\ after \in [ProcId -> Seq(LogLine)] /\ after[p] = << >>
        /\ \A q \in ProcId : q # p => after[q] = logs[q]
    BY DEF Managed
  <1> HIDE DEF after
  <1>2. Rising(<< >>) /\ UpTo(<< >>, seq) /\ \A x : ~ HasId(<< >>, x)
    BY DEF Rising, UpTo, HasId
  <1>3. \A q \in ProcId : \A x : HasId(after[q], x) => HasId(logs[q], x)
    BY <1>1, <1>2
  <1>4. \A q \in ProcId : Rising(after[q]) /\ UpTo(after[q], seq)
    BY <1>1, <1>2 DEF Managed
  <1>5. \A q, r \in ProcId, x \in Nat : HasId(after[q], x) /\ HasId(after[r], x) => q = r
    BY <1>3 DEF Managed
  <1>6. Managed(after, seq)
    BY <1>1, <1>4, <1>5 DEF Managed
  <1>7. Held(after) \subseteq Held(logs)
    BY <1>3 DEF Held
  <1>8. QED BY <1>6, <1>7 DEF after

-----------------------------------------------------------------------------
(* Where the events on their way lead the page's lines.                    *)

Event ==
    [event : {"backlog"}, logs : Seq(LogLine), status : [ProcId -> ProcState]]
    \cup [event : {"log"}, line : LogLine]
    \cup [event : {"status"}, proc : ProcId, state : ProcState]

\* The lines of a page that handles e.
LinesAfter(lines, e) ==
    IF e.event = "backlog" THEN LastOf(e.logs, MaxLogs)
    ELSE IF e.event = "log" THEN LastOf(Append(lines, e.line), MaxLogs)
    ELSE lines

\* g[i] is the page's lines after i of the events in q.
Leads(g, lines, q) ==
    /\ g[0] = lines
    /\ \A i \in 1 .. Len(q) : g[i] = LinesAfter(g[i - 1], q[i])

\* The lines stay in order, and end with a cover of those held.
Reaches(lines, q, held, seq) ==
    \E g \in [0 .. Len(q) -> Seq(LogLine)] :
       /\ Leads(g, lines, q)
       /\ \A i \in 0 .. Len(q) : Rising(g[i])
       /\ UpTo(g[Len(q)], seq) /\ Covers(g[Len(q)], held)

LEMMA Sizes == MaxLogs \in Nat \ {0} /\ Backlog \in Nat \ {0} /\ MaxLogLines \in Nat \ {0}
  BY LiveAssumption DEF LiveAssumption

LEMMA LinesAfterTyped ==
    ASSUME NEW lines \in Seq(LogLine), NEW e \in Event
    PROVE  LinesAfter(lines, e) \in Seq(LogLine)
  <1>1. CASE e.event = "backlog"
    <2>1. e.logs \in Seq(LogLine)
      BY <1>1 DEF Event
    <2>2. LastOf(e.logs, MaxLogs) \in Seq(LogLine)
      BY <2>1, Sizes, LastOfIs
    <2>3. QED BY <1>1, <2>2 DEF LinesAfter
  <1>2. CASE e.event = "log"
    <2>1. e.line \in LogLine
      BY <1>2 DEF Event
    <2>2. Append(lines, e.line) \in Seq(LogLine)
      BY <2>1
    <2>3. LastOf(Append(lines, e.line), MaxLogs) \in Seq(LogLine)
      BY <2>2, Sizes, LastOfIs
    <2>4. QED BY <1>2, <2>3 DEF LinesAfter
  <1>3. CASE e.event # "backlog" /\ e.event # "log"
    BY <1>3 DEF LinesAfter
  <1>4. QED BY <1>1, <1>2, <1>3

\* Fewer lines are held.
LEMMA ReachesFewer ==
    ASSUME NEW lines, NEW q, NEW held, NEW then \in SUBSET held, NEW seq, Reaches(lines, q, held, seq)
    PROVE  Reaches(lines, q, then, seq)
  <1>1. \A s : Covers(s, held) => Covers(s, then)
    BY DEF Covers
  <1>2. QED BY <1>1 DEF Reaches

\* One event more is on its way, that turns the last lines into `final`.
LEMMA ReachesMore ==
    ASSUME NEW lines, NEW q \in Seq(Event), NEW e \in Event, NEW held, NEW seq, NEW then, NEW next,
           Reaches(lines, q, held, seq),
           \A final \in Seq(LogLine) : Rising(final) /\ UpTo(final, seq) /\ Covers(final, held) =>
              LET after == LinesAfter(final, e) IN
              Rising(after) /\ UpTo(after, next) /\ Covers(after, then)
    PROVE  Reaches(lines, Append(q, e), then, next)
  <1> DEFINE n == Len(q)
             q1 == Append(q, e)
  <1>1. PICK g \in [0 .. n -> Seq(LogLine)] :
           /\ Leads(g, lines, q)
           /\ \A i \in 0 .. n : Rising(g[i])
           /\ UpTo(g[n], seq) /\ Covers(g[n], held)
    BY DEF Reaches
  <1>2. n \in Nat /\ Len(q1) = n + 1 /\ q1[n + 1] = e /\ \A i \in 1 .. n : q1[i] = q[i]
    OBVIOUS
  <1>3. \A i \in 1 .. n : g[i] = LinesAfter(g[i - 1], q[i])
    BY <1>1 DEF Leads
  <1>4. g[0] = lines
    BY <1>1 DEF Leads
  <1> HIDE DEF n, q1
  <1> DEFINE final == g[n]
             h == [i \in 0 .. n + 1 |-> IF i = n + 1 THEN LinesAfter(final, e) ELSE g[i]]
  <1>5. final \in Seq(LogLine)
    BY <1>1, <1>2
  <1>6. LinesAfter(final, e) \in Seq(LogLine)
    BY <1>5, LinesAfterTyped
  <1>7. /\ Rising(LinesAfter(final, e)) /\ UpTo(LinesAfter(final, e), next)
        /\ Covers(LinesAfter(final, e), then)
    BY <1>1, <1>2, <1>5
  <1>8. \A i \in 0 .. n : i \in 0 .. n + 1 /\ i # n + 1
    BY <1>2
  <1>9. /\ h \in [0 .. n + 1 -> Seq(LogLine)]
        /\ h[n + 1] = LinesAfter(final, e) /\ \A i \in 0 .. n : h[i] = g[i]
    <2>1. \A i \in 0 .. n + 1 : i # n + 1 => i \in 0 .. n
      BY <1>2
    <2>2. \A i \in 0 .. n : g[i] \in Seq(LogLine)
      BY <1>1
    <2>3. n + 1 \in 0 .. n + 1
      BY <1>2
    <2> HIDE DEF final
    <2>4. QED BY <1>6, <1>8, <2>1, <2>2, <2>3
  <1> HIDE DEF h
  <1>10. Leads(h, lines, q1)
    <2>1. h[0] = lines
      BY <1>2, <1>4, <1>9
    <2>2. ASSUME NEW i \in 1 .. n PROVE h[i] = LinesAfter(h[i - 1], q1[i])
      <3>1. i \in 0 .. n /\ i - 1 \in 0 .. n
        BY <1>2
      <3>2. QED BY <1>2, <1>3, <1>9, <3>1
    <2>3. h[n + 1] = LinesAfter(h[(n + 1) - 1], q1[n + 1])
      <3>0. n \in Nat
        BY <1>2
      <3>1. (n + 1) - 1 = n /\ n \in 0 .. n
        BY <3>0
      <3>2. h[(n + 1) - 1] = final
        BY <1>9, <3>1
      <3>3. h[n + 1] = LinesAfter(final, e) /\ q1[n + 1] = e
        BY <1>2, <1>9
      <3> HIDE DEF final
      <3>4. QED BY <3>2, <3>3
    <2>4. \A i \in 1 .. Len(q1) : i \in 1 .. n \/ i = n + 1
      BY <1>2
    <2>5. QED BY <2>1, <2>2, <2>3, <2>4 DEF Leads
  <1>11. \A i \in 0 .. n + 1 : Rising(h[i])
    <2>1. \A i \in 0 .. n + 1 : i \in 0 .. n \/ i = n + 1
      BY <1>2
    <2>2. QED BY <1>1, <1>7, <1>9, <2>1
  <1>12. Reaches(lines, q1, then, next)
    <2>1. UpTo(h[n + 1], next) /\ Covers(h[n + 1], then)
      BY <1>7, <1>9
    <2>2. QED BY <1>2, <1>9, <1>10, <1>11, <2>1 DEF Reaches
  <1>13. QED BY <1>12 DEF q1

LEMMA ReachesLog ==
    ASSUME NEW lines, NEW q \in Seq(Event), NEW seq \in Nat, NEW held \in SUBSET (0 .. seq),
           NEW line \in LogLine, line.id = seq + 1,
           NEW then \in SUBSET Nat, then \subseteq held \cup {seq + 1},
           Reaches(lines, q, held, seq)
    PROVE  Reaches(lines, Append(q, [event |-> "log", line |-> line]), then, seq + 1)
  <1> DEFINE e == [event |-> "log", line |-> line]
  <1>1. e \in Event
    BY DEF Event
  <1>2. ASSUME NEW final \in Seq(LogLine), Rising(final), UpTo(final, seq), Covers(final, held)
        PROVE  LET after == LinesAfter(final, e) IN
               Rising(after) /\ UpTo(after, seq + 1) /\ Covers(after, then)
    <2> DEFINE more == Append(final, line)
               after == LastOf(more, MaxLogs)
    <2>1. LinesAfter(final, e) = after
      BY DEF LinesAfter
    <2>2. more \in Seq(LogLine) /\ Rising(more) /\ UpTo(more, seq + 1) /\ Covers(more, then)
      BY <1>2, NextLine
    <2> HIDE DEF more
    <2>3. after \in Seq(LogLine) /\ EndOf(after, more)
      BY <2>2, Sizes, LastOfIs
    <2> HIDE DEF after
    <2>4. Rising(after) /\ UpTo(after, seq + 1) /\ Covers(after, then)
      BY <2>2, <2>3, EndKeeps
    <2> HIDE DEF e
    <2>5. QED BY <2>1, <2>4
  <1> HIDE DEF e
  <1>3. Reaches(lines, Append(q, e), then, seq + 1)
    BY <1>1, <1>2, ReachesMore
  <1>4. QED BY <1>3 DEF e

LEMMA ReachesStatus ==
    ASSUME NEW lines, NEW q \in Seq(Event), NEW held, NEW seq, NEW p \in ProcId, NEW state \in ProcState,
           Reaches(lines, q, held, seq)
    PROVE  Reaches(lines, Append(q, [event |-> "status", proc |-> p, state |-> state]), held, seq)
  <1> DEFINE e == [event |-> "status", proc |-> p, state |-> state]
  <1>1. e \in Event
    BY DEF Event
  <1>2. \A final : LinesAfter(final, e) = final
    BY DEF LinesAfter
  <1> HIDE DEF e
  <1>3. Reaches(lines, Append(q, e), held, seq)
    BY <1>1, <1>2, ReachesMore
  <1>4. QED BY <1>3 DEF e

\* A new stream: its backlog replaces what the page has.
LEMMA ReachesBacklog ==
    ASSUME NEW lines \in Seq(LogLine), Rising(lines), NEW e \in Event, e.event = "backlog",
           Rising(e.logs), NEW seq \in Nat, UpTo(e.logs, seq),
           NEW held \in SUBSET Nat, Covers(e.logs, held)
    PROVE  Reaches(lines, << e >>, held, seq)
  <1> DEFINE after == LastOf(e.logs, MaxLogs)
             g == [i \in 0 .. 1 |-> IF i = 0 THEN lines ELSE after]
             q == << e >>
  <1>1. e.logs \in Seq(LogLine)
    BY DEF Event
  <1>2. after \in Seq(LogLine) /\ EndOf(after, e.logs)
    BY <1>1, Sizes, LastOfIs
  <1>3. LinesAfter(lines, e) = after
    BY DEF LinesAfter
  <1> HIDE DEF after
  <1>4. Rising(after) /\ UpTo(after, seq) /\ Covers(after, held)
    BY <1>1, <1>2, EndKeeps
  <1>5. g \in [0 .. 1 -> Seq(LogLine)] /\ g[0] = lines /\ g[1] = after
    BY <1>2
  <1>6. Len(q) = 1 /\ q[1] = e /\ \A i \in 1 .. 1 : i = 1 /\ i - 1 = 0
    OBVIOUS
  <1>7. \A i \in 0 .. 1 : i = 0 \/ i = 1
    OBVIOUS
  <1> HIDE DEF g, q
  <1>8. Leads(g, lines, q)
    BY <1>3, <1>5, <1>6 DEF Leads
  <1>9. \A i \in 0 .. 1 : Rising(g[i])
    BY <1>4, <1>5, <1>7
  <1>10. Reaches(lines, q, held, seq)
    BY <1>4, <1>5, <1>6, <1>8, <1>9 DEF Reaches
  <1>11. QED BY <1>10 DEF q

\* The first event arrives.
LEMMA ReachesTail ==
    ASSUME NEW lines, NEW q \in Seq(Event), q # << >>, NEW held, NEW seq, Reaches(lines, q, held, seq)
    PROVE  /\ Reaches(LinesAfter(lines, Head(q)), Tail(q), held, seq)
           /\ LinesAfter(lines, Head(q)) \in Seq(LogLine)
           /\ Rising(LinesAfter(lines, Head(q)))
  <1> DEFINE n == Len(q)
             t == Tail(q)
  <1>1. PICK g \in [0 .. n -> Seq(LogLine)] :
           /\ Leads(g, lines, q)
           /\ \A i \in 0 .. n : Rising(g[i])
           /\ UpTo(g[n], seq) /\ Covers(g[n], held)
    BY DEF Reaches
  <1>2. /\ n \in Nat \ {0} /\ Len(t) = n - 1 /\ q[1] = Head(q)
        /\ \A i \in 1 .. n - 1 : t[i] = q[i + 1]
    OBVIOUS
  <1>3. g[0] = lines /\ \A i \in 1 .. n : g[i] = LinesAfter(g[i - 1], q[i])
    BY <1>1 DEF Leads
  <1> HIDE DEF n, t
  <1> DEFINE h == [i \in 0 .. n - 1 |-> g[i + 1]]
  <1>4. \A i \in 0 .. n - 1 : i + 1 \in 0 .. n /\ i + 1 \in 1 .. n
    BY <1>2
  <1>5. h \in [0 .. n - 1 -> Seq(LogLine)] /\ \A i \in 0 .. n - 1 : h[i] = g[i + 1]
    BY <1>1, <1>4
  <1> HIDE DEF h
  <1>6. LinesAfter(lines, Head(q)) = g[1]
    <2>1. 1 \in 1 .. n /\ 1 - 1 = 0
      BY <1>2
    <2>2. QED BY <1>2, <1>3, <2>1
  <1>7. h[0] = g[1] /\ g[1] \in Seq(LogLine) /\ Rising(g[1])
    <2>1. 0 \in 0 .. n - 1 /\ 0 + 1 = 1 /\ 1 \in 0 .. n
      BY <1>2
    <2>2. QED BY <1>1, <1>5, <2>1
  <1>8. h[n - 1] = g[n]
    <2>1. n - 1 \in 0 .. n - 1 /\ (n - 1) + 1 = n
      BY <1>2
    <2>2. QED BY <1>5, <2>1
  <1>9. ASSUME NEW i \in 1 .. n - 1 PROVE h[i] = LinesAfter(h[i - 1], t[i])
    <2>1. /\ i \in 0 .. n - 1 /\ i - 1 \in 0 .. n - 1 /\ (i - 1) + 1 = i
          /\ i + 1 \in 1 .. n /\ (i + 1) - 1 = i
      BY <1>2
    <2>2. g[i + 1] = LinesAfter(g[i], q[i + 1])
      BY <1>3, <2>1
    <2>3. h[i] = g[i + 1] /\ h[i - 1] = g[i] /\ t[i] = q[i + 1]
      BY <1>2, <1>5, <2>1
    <2>4. QED BY <2>2, <2>3
  <1>10. Leads(h, g[1], t)
    BY <1>2, <1>7, <1>9 DEF Leads
  <1>11. \A i \in 0 .. n - 1 : Rising(h[i])
    BY <1>1, <1>4, <1>5
  <1>12. Reaches(g[1], t, held, seq)
    BY <1>1, <1>2, <1>5, <1>8, <1>10, <1>11 DEF Reaches
  <1>13. QED BY <1>6, <1>7, <1>12 DEF t

-----------------------------------------------------------------------------
(* All the events on their way.                                            *)

(***************************************************************************)
(* Induction for sets of numbers.  Were n the one that S lacks, the        *)
(* successor would be an injection of S's numbers below n into themselves  *)
(* that misses 0; but they are finitely many.                              *)
(***************************************************************************)
LEMMA Induction ==
    ASSUME NEW S, 0 \in S, \A n \in Nat : n \in S => n + 1 \in S
    PROVE  Nat \subseteq S
  <1> SUFFICES ASSUME NEW n \in Nat, n \notin S PROVE FALSE
    OBVIOUS
  <1> DEFINE T == {k \in 0 .. n : k \in S}
             next == [k \in T |-> k + 1]
  <1>1. IsFiniteSet(T)
    <2>1. IsFiniteSet(0 .. n) /\ T \in SUBSET (0 .. n)
      BY FS_Interval
    <2>2. QED BY <2>1, FS_Subset
  <1>2. next \in Injection(T, T)
    <2>1. next \in [T -> T]
      OBVIOUS
    <2>2. \A j, k \in T : next[j] = next[k] => j = k
      OBVIOUS
    <2>3. QED BY <2>1, <2>2, Fun_IsInj
  <1>3. next \in Surjection(T, T)
    BY <1>1, <1>2, FS_Injection
  <1>4. \E k \in T : next[k] = 0
    BY <1>3, Fun_SurjectionProperties
  <1>5. QED BY <1>4

\* f[i] is the page after i of the events in q.
Follows(f, pg, q, n) ==
    \A i \in 0 .. n : f[i] = IF i = 0 THEN pg ELSE Handled(f[i - 1], q[i])

LEMMA FollowsExists ==
    ASSUME NEW pg, NEW q, NEW n \in Nat
    PROVE  \E f : f = [i \in 0 .. n |-> f[i]] /\ Follows(f, pg, q, n)
  <1> DEFINE P == {m \in Nat : \E f : f = [i \in 0 .. m |-> f[i]] /\ Follows(f, pg, q, m)}
  <1>1. 0 \in P
    <2> DEFINE f == [i \in 0 .. 0 |-> pg]
    <2>1. f = [i \in 0 .. 0 |-> f[i]] /\ \A i \in 0 .. 0 : i = 0 /\ f[i] = pg
      OBVIOUS
    <2> HIDE DEF f
    <2>2. Follows(f, pg, q, 0)
      BY <2>1 DEF Follows
    <2>3. QED BY <2>1, <2>2
  <1>2. ASSUME NEW m \in Nat, m \in P PROVE m + 1 \in P
    <2>1. PICK f : f = [i \in 0 .. m |-> f[i]] /\ Follows(f, pg, q, m)
      BY <1>2
    <2> DEFINE last == Handled(f[m], q[m + 1])
               g == [i \in 0 .. m + 1 |-> IF i = m + 1 THEN last ELSE f[i]]
    <2>2. \A i \in 0 .. m : i \in 0 .. m + 1 /\ i # m + 1
      OBVIOUS
    <2>3. m + 1 \in 0 .. m + 1 /\ (m + 1) - 1 = m /\ m \in 0 .. m
      OBVIOUS
    <2> HIDE DEF last
    <2>4. g = [i \in 0 .. m + 1 |-> g[i]] /\ g[m + 1] = last /\ \A i \in 0 .. m : g[i] = f[i]
      BY <2>2, <2>3
    <2> HIDE DEF g
    <2>5. ASSUME NEW i \in 0 .. m
          PROVE  g[i] = IF i = 0 THEN pg ELSE Handled(g[i - 1], q[i])
      <3>1. f[i] = IF i = 0 THEN pg ELSE Handled(f[i - 1], q[i])
        BY <2>1 DEF Follows
      <3>2. i # 0 => g[i - 1] = f[i - 1]
        <4>1. i # 0 => i - 1 \in 0 .. m
          OBVIOUS
        <4>2. QED BY <2>4, <4>1
      <3>3. g[i] = f[i]
        BY <2>4
      <3>4. QED BY <3>1, <3>2, <3>3
    <2>6. g[m + 1] = IF m + 1 = 0 THEN pg ELSE Handled(g[(m + 1) - 1], q[m + 1])
      <3>0. m \in Nat /\ m + 1 # 0
        OBVIOUS
      <3>1. g[(m + 1) - 1] = f[m] /\ m + 1 # 0
        <4>1. (m + 1) - 1 = m /\ m \in 0 .. m
          BY <3>0
        <4>2. g[m] = f[m]
          BY <2>4, <4>1
        <4>3. QED BY <3>0, <4>1, <4>2
      <3>2. g[m + 1] = Handled(f[m], q[m + 1])
        BY <2>4 DEF last
      <3>3. QED BY <3>1, <3>2
    <2>7. \A i \in 0 .. m + 1 : i \in 0 .. m \/ i = m + 1
      OBVIOUS
    <2>8. Follows(g, pg, q, m + 1)
      BY <2>5, <2>6, <2>7 DEF Follows
    <2>9. QED BY <2>4, <2>8
  <1>3. Nat \subseteq P
    <2> HIDE DEF P
    <2>1. \A m \in Nat : m \in P => m + 1 \in P
      BY <1>2
    <2>2. QED BY <1>1, <2>1, Induction
  <1>4. QED BY <1>3

\* A page has lines, whatever else it shows.
HasLines(pg) == "logs" \in DOMAIN pg /\ pg.logs \in Seq(LogLine)

LEMMA HandledLines ==
    ASSUME NEW pg, HasLines(pg), NEW e \in Event
    PROVE  HasLines(Handled(pg, e)) /\ Handled(pg, e).logs = LinesAfter(pg.logs, e)
  <1>1. Handled(pg, e).logs = LinesAfter(pg.logs, e) /\ "logs" \in DOMAIN Handled(pg, e)
    <2>1. CASE e.event = "backlog"
      <3>1. Handled(pg, e) = setBacklog(pg, e.logs, e.status)
        BY <2>1 DEF Handled
      <3>2. LinesAfter(pg.logs, e) = LastOf(e.logs, MaxLogs)
        BY <2>1 DEF LinesAfter
      <3>3. QED BY <3>1, <3>2 DEF setBacklog, HasLines
    <2>2. CASE e.event = "log"
      <3>1. Handled(pg, e) = appendLog(pg, e.line)
        BY <2>2 DEF Handled
      <3>2. LinesAfter(pg.logs, e) = LastOf(Append(pg.logs, e.line), MaxLogs)
        BY <2>2 DEF LinesAfter
      <3>3. QED BY <3>1, <3>2 DEF appendLog, HasLines
    <2>3. CASE e.event = "status"
      <3>1. Handled(pg, e) = setStatus(pg, e.proc, e.state)
        BY <2>3 DEF Handled
      <3>2. LinesAfter(pg.logs, e) = pg.logs
        BY <2>3 DEF LinesAfter
      <3>3. QED BY <3>1, <3>2 DEF setStatus, HasLines
    <2>4. QED BY <2>1, <2>2, <2>3 DEF Event
  <1>2. pg.logs \in Seq(LogLine)
    BY DEF HasLines
  <1>3. LinesAfter(pg.logs, e) \in Seq(LogLine)
    BY <1>2, LinesAfterTyped
  <1>4. QED BY <1>1, <1>3 DEF HasLines

\* The lines of the pages f are led as Leads says.
LeadsAlong(f, pg, q) ==
    \E g \in [0 .. Len(q) -> Seq(LogLine)] :
       Leads(g, pg.logs, q) /\ \A i \in 0 .. Len(q) : g[i] = f[i].logs

LEMMA FollowsLeads ==
    ASSUME NEW pg, HasLines(pg), NEW q \in Seq(Event), NEW f, Follows(f, pg, q, Len(q))
    PROVE  LeadsAlong(f, pg, q)
  <1> DEFINE n == Len(q)
             P == {m \in Nat : m <= n => HasLines(f[m])}
             g == [i \in 0 .. n |-> f[i].logs]
  <1>1. n \in Nat /\ \A i \in 1 .. n : q[i] \in Event
    OBVIOUS
  <1>2. f[0] = pg
    BY <1>1 DEF Follows
  <1>3. \A i \in 1 .. n : f[i] = Handled(f[i - 1], q[i])
    BY DEF Follows
  <1> HIDE DEF n
  <1>4. 0 \in P
    BY <1>2
  <1>5. ASSUME NEW m \in Nat, m \in P PROVE m + 1 \in P
    <2>1. CASE m + 1 <= n
      <3>1. m + 1 \in 1 .. n /\ (m + 1) - 1 = m /\ HasLines(f[m])
        BY <1>1, <1>5, <2>1
      <3>2. f[m + 1] = Handled(f[m], q[m + 1]) /\ q[m + 1] \in Event
        BY <1>1, <1>3, <3>1
      <3>3. HasLines(f[m + 1])
        BY <3>1, <3>2, HandledLines, Zenon
      <3>4. QED BY <3>3
    <2>2. CASE ~ m + 1 <= n
      BY <1>5, <2>2
    <2>3. QED BY <2>1, <2>2
  <1>6. \A i \in 0 .. n : HasLines(f[i])
    <2>1. Nat \subseteq P
      <3> HIDE DEF P
      <3>1. \A m \in Nat : m \in P => m + 1 \in P
        BY <1>5
      <3>2. QED BY <1>4, <3>1, Induction
    <2>2. \A i \in 0 .. n : i \in Nat /\ i <= n
      BY <1>1
    <2>3. QED BY <2>1, <2>2
  <1>7. g \in [0 .. n -> Seq(LogLine)] /\ \A i \in 0 .. n : g[i] = f[i].logs
    <2>1. \A i \in 0 .. n : f[i].logs \in Seq(LogLine)
      BY <1>6 DEF HasLines
    <2>2. QED BY <2>1
  <1> HIDE DEF g
  <1>8. g[0] = pg.logs
    BY <1>1, <1>2, <1>7
  <1>9. ASSUME NEW i \in 1 .. n PROVE g[i] = LinesAfter(g[i - 1], q[i])
    <2>1. i \in 0 .. n /\ i - 1 \in 0 .. n
      BY <1>1
    <2>2. f[i].logs = LinesAfter(f[i - 1].logs, q[i])
      <3>1. HasLines(f[i - 1]) /\ q[i] \in Event /\ f[i] = Handled(f[i - 1], q[i])
        BY <1>1, <1>3, <1>6, <2>1
      <3>2. QED BY <3>1, HandledLines, Zenon
    <2>3. QED BY <1>7, <2>1, <2>2
  <1>10. Leads(g, pg.logs, q)
    BY <1>8, <1>9 DEF Leads, n
  <1>11. QED BY <1>7, <1>10 DEF n, LeadsAlong

EndsAlike(g, h, q) == g[Len(q)] = h[Len(q)]

\* There is one way to be led.
LEMMA LeadsOnce ==
    ASSUME NEW lines, NEW q \in Seq(Event), NEW g, NEW h, Leads(g, lines, q), Leads(h, lines, q)
    PROVE  EndsAlike(g, h, q)
  <1> DEFINE n == Len(q)
             P == {m \in Nat : m <= n => g[m] = h[m]}
  <1>1. n \in Nat
    OBVIOUS
  <1>2. g[0] = h[0] /\ \A i \in 1 .. n : g[i] = LinesAfter(g[i - 1], q[i]) /\ h[i] = LinesAfter(h[i - 1], q[i])
    BY DEF Leads
  <1> HIDE DEF n
  <1>3. 0 \in P
    BY <1>2
  <1>4. ASSUME NEW m \in Nat, m \in P PROVE m + 1 \in P
    <2>1. CASE m + 1 <= n
      <3>1. m + 1 \in 1 .. n /\ (m + 1) - 1 = m /\ g[m] = h[m]
        BY <1>1, <1>4, <2>1
      <3>2. g[m + 1] = h[m + 1]
        BY <1>2, <3>1
      <3>3. QED BY <3>2
    <2>2. CASE ~ m + 1 <= n
      BY <1>4, <2>2
    <2>3. QED BY <2>1, <2>2
  <1>5. Nat \subseteq P
    <2> HIDE DEF P
    <2>1. \A m \in Nat : m \in P => m + 1 \in P
      BY <1>4
    <2>2. QED BY <1>3, <2>1, Induction
  <1>6. g[n] = h[n]
    BY <1>1, <1>5
  <1>7. QED BY <1>6 DEF n, EndsAlike

\* What the page is led to is what Arrived shows.
LEMMA ArrivedIs ==
    ASSUME HasLines(page), queue \in Seq(Event), NEW g, Leads(g, page.logs, queue)
    PROVE  Arrived.logs = g[Len(queue)]
  <1> DEFINE IsIt(f) == f = [n \in 0 .. Len(queue) |-> IF n = 0 THEN page ELSE Handled(f[n - 1], queue[n])]
             it == CHOOSE f : IsIt(f)
  <1>1. Len(queue) \in Nat
    OBVIOUS
  <1>2. \E f : IsIt(f)
    <2>1. PICK f : f = [i \in 0 .. Len(queue) |-> f[i]] /\ Follows(f, page, queue, Len(queue))
      BY <1>1, FollowsExists
    <2>2. [i \in 0 .. Len(queue) |-> f[i]] =
          [n \in 0 .. Len(queue) |-> IF n = 0 THEN page ELSE Handled(f[n - 1], queue[n])]
      BY <2>1, Zenon DEF Follows
    <2>3. QED BY <2>1, <2>2, Zenon
  <1>3. IsIt(it)
    BY <1>2, Zenon
  <1>4. Arrived = it[Len(queue)]
    BY Zenon DEF Arrived
  <1>5. Follows(it, page, queue, Len(queue))
    <2>1. it = [n \in 0 .. Len(queue) |-> IF n = 0 THEN page ELSE Handled(it[n - 1], queue[n])]
      BY <1>3, Zenon
    <2> HIDE DEF it
    <2>2. QED BY <2>1, Zenon DEF Follows
  <1> HIDE DEF it, IsIt
  <1>6. PICK h \in [0 .. Len(queue) -> Seq(LogLine)] :
           Leads(h, page.logs, queue) /\ \A i \in 0 .. Len(queue) : h[i] = it[i].logs
    <2>1. LeadsAlong(it, page, queue)
      BY <1>5, FollowsLeads, Zenon
    <2>2. QED BY <2>1, Zenon DEF LeadsAlong
  <1>7. h[Len(queue)] = g[Len(queue)]
    <2>1. Leads(h, page.logs, queue)
      BY <1>6, Zenon
    <2>2. EndsAlike(h, g, queue)
      BY <2>1, LeadsOnce, Zenon
    <2>3. QED BY <2>2, Zenon DEF EndsAlike
  <1>8. h[Len(queue)] = it[Len(queue)].logs
    BY <1>1, <1>6
  <1>9. QED BY <1>4, <1>7, <1>8

\* An event keeps an end an end.
LEMMA EndFollows ==
    ASSUME NEW s \in Seq(LogLine), NEW t \in Seq(LogLine), EndOf(t, s), NEW e \in Event
    PROVE  EndOf(LinesAfter(t, e), LinesAfter(s, e))
  <1>1. CASE e.event = "backlog"
    <2>1. e.logs \in Seq(LogLine)
      BY <1>1 DEF Event
    <2> DEFINE u == LastOf(e.logs, MaxLogs)
    <2>2. u \in Seq(LogLine)
      BY <2>1, Sizes, LastOfIs
    <2>3. LinesAfter(t, e) = u /\ LinesAfter(s, e) = u
      BY <1>1 DEF LinesAfter
    <2> HIDE DEF u
    <2>4. EndOf(u, u)
      BY <2>2 DEF EndOf
    <2>5. QED BY <2>3, <2>4
  <1>2. CASE e.event = "log"
    <2>1. e.line \in LogLine
      BY <1>2 DEF Event
    <2>2. EndOf(LastOf(Append(t, e.line), MaxLogs), LastOf(Append(s, e.line), MaxLogs))
      BY <2>1, Sizes, EndAppends
    <2>3. QED BY <1>2, <2>2 DEF LinesAfter
  <1>3. CASE e.event # "backlog" /\ e.event # "log"
    BY <1>3 DEF LinesAfter
  <1>4. QED BY <1>1, <1>2, <1>3

\* The user clears the lines: what comes is an end of what would have come.
LEMMA ReachesCleared ==
    ASSUME NEW lines \in Seq(LogLine), NEW q \in Seq(Event), NEW seq \in Nat, NEW held \in SUBSET Nat,
           Reaches(lines, q, held, seq)
    PROVE  Reaches(<< >>, q, held, seq)
  <1> DEFINE n == Len(q)
             pg == [logs |-> << >>]
  <1>1. PICK g \in [0 .. n -> Seq(LogLine)] :
           /\ Leads(g, lines, q)
           /\ \A i \in 0 .. n : Rising(g[i])
           /\ UpTo(g[n], seq) /\ Covers(g[n], held)
    BY DEF Reaches
  <1>2. HasLines(pg) /\ pg.logs = << >> /\ n \in Nat /\ \A i \in 1 .. n : q[i] \in Event
    BY DEF HasLines
  <1> HIDE DEF pg
  <1>3. PICK h \in [0 .. n -> Seq(LogLine)] : Leads(h, << >>, q)
    <2>1. \E f : Follows(f, pg, q, Len(q))
      BY <1>2, FollowsExists
    <2>2. QED BY <1>2, <2>1, FollowsLeads DEF LeadsAlong
  <1>4. /\ g[0] = lines /\ \A i \in 1 .. n : g[i] = LinesAfter(g[i - 1], q[i])
        /\ h[0] = << >> /\ \A i \in 1 .. n : h[i] = LinesAfter(h[i - 1], q[i])
    BY <1>1, <1>3 DEF Leads
  <1>5. \A i \in 0 .. n : g[i] \in Seq(LogLine) /\ h[i] \in Seq(LogLine)
    BY <1>1, <1>3
  <1> DEFINE P == {m \in Nat : m <= n => EndOf(h[m], g[m])}
  <1> HIDE DEF n
  <1>6. 0 \in P
    <2>1. EndOf(<< >>, lines)
      BY DEF EndOf
    <2>2. QED BY <1>4, <2>1
  <1>7. ASSUME NEW m \in Nat, m \in P PROVE m + 1 \in P
    <2>1. CASE m + 1 <= n
      <3>1. m + 1 \in 1 .. n /\ (m + 1) - 1 = m /\ m \in 0 .. n /\ EndOf(h[m], g[m])
        BY <1>2, <1>7, <2>1
      <3>2. /\ h[m] \in Seq(LogLine) /\ g[m] \in Seq(LogLine) /\ q[m + 1] \in Event
            /\ g[m + 1] = LinesAfter(g[m], q[m + 1]) /\ h[m + 1] = LinesAfter(h[m], q[m + 1])
        BY <1>2, <1>4, <1>5, <3>1
      <3>3. EndOf(LinesAfter(h[m], q[m + 1]), LinesAfter(g[m], q[m + 1]))
        BY <3>1, <3>2, EndFollows, Zenon
      <3>4. EndOf(h[m + 1], g[m + 1])
        BY <3>2, <3>3
      <3>5. QED BY <3>4
    <2>2. CASE ~ m + 1 <= n
      BY <1>7, <2>2
    <2>3. QED BY <2>1, <2>2
  <1>8. \A i \in 0 .. n : EndOf(h[i], g[i])
    <2>1. Nat \subseteq P
      <3> HIDE DEF P
      <3>1. \A m \in Nat : m \in P => m + 1 \in P
        BY <1>7
      <3>2. QED BY <1>6, <3>1, Induction
    <2>2. \A i \in 0 .. n : i \in Nat /\ i <= n
      BY <1>2
    <2>3. QED BY <2>1, <2>2
  <1>9. \A i \in 0 .. n : Rising(h[i])
    BY <1>1, <1>5, <1>8, EndKeeps
  <1>10. UpTo(h[n], seq) /\ Covers(h[n], held)
    <2>1. n \in 0 .. n
      BY <1>2
    <2>2. EndOf(h[n], g[n]) /\ g[n] \in Seq(LogLine) /\ h[n] \in Seq(LogLine) /\ Rising(g[n])
      BY <1>1, <1>5, <1>8, <2>1
    <2>3. QED BY <1>1, <2>2, EndKeeps
  <1>11. QED BY <1>3, <1>9, <1>10 DEF Reaches, n

-----------------------------------------------------------------------------
(* The steps.                                                              *)

\* The inductive invariant.
Inv ==
    /\ Managed(manager.logs, manager.logSeq) /\ manager.status \in [ProcId -> ProcState]
    /\ HasLines(page) /\ Rising(page.logs)
    /\ queue \in Seq(Event) /\ (~connected => queue = << >>)
    /\ connected => Reaches(page.logs, queue, Held(manager.logs), manager.logSeq)

TurnState ==
    [logSeq : Nat, emitted : Seq(Event), status : [ProcId -> ProcState], logs : [ProcId -> Seq(LogLine)]]

\* A turn of the event loop may leave the manager as m.
Underway(m) ==
    /\ m \in TurnState
    /\ Managed(m.logs, m.logSeq)
    /\ connected => Reaches(page.logs, queue \o m.emitted, Held(m.logs), m.logSeq)

LEMMA TurnStarts ==
    ASSUME Inv, NEW p \in ProcId, NEW kept \in BOOLEAN
    PROVE  Underway(Turn(p, kept))
  <1> DEFINE m == Turn(p, kept)
             logs == [manager.logs EXCEPT ![p] = IF kept THEN @ ELSE << >>]
  <1>1. m.logSeq = manager.logSeq /\ m.emitted = << >> /\ m.status = manager.status /\ m.logs = logs
    BY DEF Turn
  <1>2. manager.logSeq \in Nat /\ manager.logs \in [ProcId -> Seq(LogLine)]
    BY DEF Inv, Managed
  <1>3. Managed(logs, manager.logSeq) /\ Held(logs) \subseteq Held(manager.logs)
    <2>1. CASE kept
      <3>1. logs = manager.logs
        BY <1>2, <2>1
      <3>2. QED BY <3>1 DEF Inv
    <2>2. CASE ~ kept
      <3>1. logs = [manager.logs EXCEPT ![p] = << >>]
        BY <2>2
      <3>2. QED BY <3>1, ManagedCleared DEF Inv
    <2>3. QED BY <2>1, <2>2
  <1>4. logs \in [ProcId -> Seq(LogLine)]
    BY <1>3 DEF Managed
  <1>5. m \in TurnState
    <2> HIDE DEF logs
    <2>1. << >> \in Seq(Event) /\ manager.status \in [ProcId -> ProcState]
      BY DEF Inv
    <2>2. m = [logSeq |-> manager.logSeq, emitted |-> << >>, status |-> manager.status, logs |-> logs]
      BY Zenon DEF Turn, logs
    <2> HIDE DEF m
    <2>3. QED BY <1>2, <1>4, <2>1, <2>2 DEF TurnState
  <1> HIDE DEF m, logs
  <1>6. queue \o m.emitted = queue
    BY <1>1 DEF Inv
  <1>7. connected => Reaches(page.logs, queue, Held(logs), manager.logSeq)
    BY <1>3, ReachesFewer DEF Inv
  <1>8. Underway(m)
    BY <1>1, <1>3, <1>5, <1>6, <1>7 DEF Underway
  <1>9. QED BY <1>8 DEF m

\* What the two effects do to a turn's fields.
LEMMA PushLogIs ==
    ASSUME NEW m \in TurnState, NEW p \in ProcId, NEW line, line = [id |-> m.logSeq + 1, proc |-> p]
    PROVE  pushLog(m, p) = [logSeq |-> m.logSeq + 1,
                            emitted |-> Append(m.emitted, [event |-> "log", line |-> line]),
                            status |-> m.status,
                            logs |-> [m.logs EXCEPT ![p] = LastOf(Append(m.logs[p], line), MaxLogLines)]]
  <1>1. m = [logSeq |-> m.logSeq, emitted |-> m.emitted, status |-> m.status, logs |-> m.logs]
    BY DEF TurnState
  <1>2. DOMAIN m.logs = ProcId
    BY DEF TurnState
  <1> DEFINE counted == [m EXCEPT !.logSeq = @ + 1]
             kept == [counted EXCEPT !.logs[p] = LastOf(Append(@, line), MaxLogLines)]
             logs == [m.logs EXCEPT ![p] = LastOf(Append(m.logs[p], line), MaxLogLines)]
  <1>3. counted = [logSeq |-> m.logSeq + 1, emitted |-> m.emitted, status |-> m.status, logs |-> m.logs]
    BY <1>1
  <1>4. kept = [logSeq |-> m.logSeq + 1, emitted |-> m.emitted, status |-> m.status, logs |-> logs]
    <2> HIDE DEF counted
    <2>1. counted.logs = m.logs /\ DOMAIN counted = {"logSeq", "emitted", "status", "logs"}
      BY <1>3
    <2>2. kept = [counted EXCEPT !.logs = logs]
      BY <2>1, Zenon
    <2> HIDE DEF kept, logs
    <2>3. QED BY <1>3, <2>2
  <1>5. pushLog(m, p) = [kept EXCEPT !.emitted = Append(@, [event |-> "log", line |-> line])]
    BY Zenon DEF pushLog
  <1> HIDE DEF counted, kept, logs
  <1>6. pushLog(m, p) = [logSeq |-> m.logSeq + 1,
                         emitted |-> Append(m.emitted, [event |-> "log", line |-> line]),
                         status |-> m.status, logs |-> logs]
    BY <1>4, <1>5
  <1>7. QED BY <1>6 DEF logs

LEMMA UpdateStatusIs ==
    ASSUME NEW m \in TurnState, NEW p \in ProcId, NEW state
    PROVE  updateStatus(m, p, state) =
              [logSeq |-> m.logSeq,
               emitted |-> Append(m.emitted, [event |-> "status", proc |-> p, state |-> state]),
               status |-> [m.status EXCEPT ![p] = state],
               logs |-> m.logs]
  <1>1. m = [logSeq |-> m.logSeq, emitted |-> m.emitted, status |-> m.status, logs |-> m.logs]
    BY DEF TurnState
  <1> DEFINE marked == [m EXCEPT !.status[p] = state]
             status == [m.status EXCEPT ![p] = state]
  <1>2. marked = [m EXCEPT !.status = status]
    BY Zenon
  <1> HIDE DEF marked, status
  <1>3. marked = [logSeq |-> m.logSeq, emitted |-> m.emitted, status |-> status, logs |-> m.logs]
    BY <1>1, <1>2
  <1>4. updateStatus(m, p, state) =
           [marked EXCEPT !.emitted = Append(@, [event |-> "status", proc |-> p, state |-> state])]
    BY Zenon DEF updateStatus, marked
  <1>5. updateStatus(m, p, state) =
           [logSeq |-> m.logSeq,
            emitted |-> Append(m.emitted, [event |-> "status", proc |-> p, state |-> state]),
            status |-> status, logs |-> m.logs]
    BY <1>3, <1>4
  <1>6. QED BY <1>5 DEF status

\* An event behind those of the turn is one behind those on their way.
LEMMA AppendLater ==
    ASSUME NEW T, NEW s \in Seq(T), NEW t \in Seq(T), NEW e \in T
    PROVE  s \o Append(t, e) = Append(s \o t, e) /\ s \o t \in Seq(T) /\ Append(t, e) \in Seq(T)
  OBVIOUS

LEMMA PushLogKeeps ==
    ASSUME Inv, NEW m, Underway(m), NEW p \in ProcId
    PROVE  Underway(pushLog(m, p))
  <1>1. PICK line \in LogLine : line = [id |-> m.logSeq + 1, proc |-> p]
    <2>1. m.logSeq + 1 \in Nat
      BY DEF Underway, TurnState
    <2>2. QED BY <2>1 DEF LogLine
  <1>2. PICK e \in Event : e = [event |-> "log", line |-> line]
    BY <1>1 DEF Event
  <1>3. PICK logs : logs = [m.logs EXCEPT ![p] = LastOf(Append(m.logs[p], line), MaxLogLines)]
    OBVIOUS
  <1>4. line.id = m.logSeq + 1
    BY <1>1
  <1>5. m \in TurnState /\ Managed(m.logs, m.logSeq) /\ m.logSeq \in Nat /\ m.emitted \in Seq(Event)
        /\ m.status \in [ProcId -> ProcState]
    BY DEF Underway, TurnState
  <1>6. Managed(logs, m.logSeq + 1) /\ Held(logs) \subseteq Held(m.logs) \cup {m.logSeq + 1}
    BY <1>1, <1>3, <1>4, <1>5, Sizes, ManagedPush
  <1>7. pushLog(m, p) = [logSeq |-> m.logSeq + 1, emitted |-> Append(m.emitted, e),
                         status |-> m.status, logs |-> logs]
    BY <1>1, <1>2, <1>3, <1>5, PushLogIs, Zenon
  <1>8. queue \in Seq(Event)
    BY DEF Inv
  <1>9. /\ queue \o Append(m.emitted, e) = Append(queue \o m.emitted, e)
        /\ queue \o m.emitted \in Seq(Event) /\ Append(m.emitted, e) \in Seq(Event)
    BY <1>2, <1>5, <1>8, AppendLater
  <1>10. connected => Reaches(page.logs, Append(queue \o m.emitted, e), Held(logs), m.logSeq + 1)
    <2>1. Held(m.logs) \in SUBSET (0 .. m.logSeq) /\ Held(logs) \in SUBSET Nat
      BY <1>5, HeldUpTo DEF Held
    <2>2. connected => Reaches(page.logs, queue \o m.emitted, Held(m.logs), m.logSeq)
      BY DEF Underway
    <2>3. QED BY <1>1, <1>2, <1>4, <1>5, <1>6, <1>9, <2>1, <2>2, ReachesLog
  <1>11. logs \in [ProcId -> Seq(LogLine)] /\ m.logSeq + 1 \in Nat
    BY <1>5, <1>6 DEF Managed
  <1> DEFINE r == [logSeq |-> m.logSeq + 1, emitted |-> Append(m.emitted, e), status |-> m.status, logs |-> logs]
  <1>12. r \in TurnState
    BY <1>5, <1>9, <1>11 DEF TurnState
  <1>13. r.logSeq = m.logSeq + 1 /\ r.emitted = Append(m.emitted, e) /\ r.logs = logs
    OBVIOUS
  <1> HIDE DEF r
  <1>14. Underway(r)
    BY <1>6, <1>9, <1>10, <1>12, <1>13 DEF Underway
  <1>15. QED BY <1>7, <1>14 DEF r

LEMMA UpdateStatusKeeps ==
    ASSUME Inv, NEW m, Underway(m), NEW p \in ProcId, NEW state \in ProcState
    PROVE  Underway(updateStatus(m, p, state))
  <1>1. PICK e \in Event : e = [event |-> "status", proc |-> p, state |-> state]
    BY DEF Event
  <1>2. m \in TurnState /\ Managed(m.logs, m.logSeq) /\ m.logSeq \in Nat /\ m.emitted \in Seq(Event)
        /\ m.status \in [ProcId -> ProcState] /\ m.logs \in [ProcId -> Seq(LogLine)]
    BY DEF Underway, TurnState
  <1> DEFINE r == [logSeq |-> m.logSeq, emitted |-> Append(m.emitted, e),
                   status |-> [m.status EXCEPT ![p] = state], logs |-> m.logs]
  <1>3. updateStatus(m, p, state) = r
    <2>1. updateStatus(m, p, state) =
             [logSeq |-> m.logSeq,
              emitted |-> Append(m.emitted, [event |-> "status", proc |-> p, state |-> state]),
              status |-> [m.status EXCEPT ![p] = state], logs |-> m.logs]
      <3>1. m \in TurnState
        BY <1>2
      <3>2. QED BY <3>1, UpdateStatusIs, ZenonT(30)
    <2>2. QED BY <1>1, <2>1, ZenonT(30)
  <1>4. queue \in Seq(Event)
    BY DEF Inv
  <1>5. /\ queue \o Append(m.emitted, e) = Append(queue \o m.emitted, e)
        /\ queue \o m.emitted \in Seq(Event) /\ Append(m.emitted, e) \in Seq(Event)
    <2>1. m.emitted \in Seq(Event)
      BY <1>2
    <2> HIDE DEF r
    <2>2. QED BY <1>4, <2>1, AppendLater
  <1>6. connected => Reaches(page.logs, Append(queue \o m.emitted, e), Held(m.logs), m.logSeq)
    <2>1. connected => Reaches(page.logs, queue \o m.emitted, Held(m.logs), m.logSeq)
      BY DEF Underway
    <2>2. QED BY <1>1, <1>5, <2>1, ReachesStatus
  <1>7. [m.status EXCEPT ![p] = state] \in [ProcId -> ProcState]
    BY <1>2
  <1>8. r \in TurnState
    BY <1>2, <1>5, <1>7 DEF TurnState
  <1>9. r.logSeq = m.logSeq /\ r.emitted = Append(m.emitted, e) /\ r.logs = m.logs
    OBVIOUS
  <1> HIDE DEF r
  <1>10. Underway(r)
    BY <1>2, <1>5, <1>6, <1>8, <1>9 DEF Underway
  <1>11. QED BY <1>3, <1>10

\* The turn ends.
LEMMA HappensKeeps ==
    ASSUME Inv, NEW after, Underway(after), Happens(after)
    PROVE  Inv'
  <1>1. /\ manager'.logSeq = after.logSeq /\ manager'.logs = after.logs /\ manager'.status = after.status
        /\ queue' = (IF connected THEN queue \o after.emitted ELSE queue)
        /\ connected' = connected /\ page' = page
    BY DEF Happens
  <1>2. /\ Managed(after.logs, after.logSeq) /\ after.status \in [ProcId -> ProcState]
        /\ after.emitted \in Seq(Event)
        /\ connected => Reaches(page.logs, queue \o after.emitted, Held(after.logs), after.logSeq)
    BY DEF Underway, TurnState
  <1>3. /\ HasLines(page) /\ Rising(page.logs) /\ queue \in Seq(Event)
        /\ (~connected => queue = << >>)
    BY DEF Inv
  <1>4. queue' \in Seq(Event)
    BY <1>1, <1>2, <1>3
  <1>5. connected => queue' = queue \o after.emitted
    BY <1>1
  <1>6. Reaches(page.logs, queue \o after.emitted, Held(after.logs), after.logSeq) \/ ~ connected
    BY <1>2
  <1>7. connected' => Reaches(page'.logs, queue', Held(manager'.logs), manager'.logSeq)
    BY <1>1, <1>5, <1>6, Zenon
  <1>8. QED BY <1>1, <1>2, <1>3, <1>4, <1>7, Zenon DEF Inv

LEMMA ManagerStep ==
    ASSUME Inv, NEW p \in ProcId, start(p) \/ stop(p) \/ onData(p) \/ onExit(p)
    PROVE  Inv'
  <1> DEFINE kept == Turn(p, TRUE)
             anew == Turn(p, FALSE)
             starting == updateStatus(anew, p, "starting")
  <1>1. Underway(kept) /\ Underway(anew)
    BY TurnStarts
  <1>2. {"stopped", "starting", "running", "exited", "error"} \subseteq ProcState
    BY DEF ProcState
  <1> HIDE DEF kept, anew
  <1>3. Underway(starting)
    BY <1>1, <1>2, UpdateStatusKeeps
  <1> HIDE DEF starting
  <1>4. CASE start(p)
    <2>1. CASE Happens(updateStatus(pushLog(kept, p), p, "error"))
      BY <1>1, <1>2, <2>1, PushLogKeeps, UpdateStatusKeeps, HappensKeeps
    <2>2. CASE Happens(updateStatus(pushLog(pushLog(starting, p), p), p, "error"))
      BY <1>2, <1>3, <2>2, PushLogKeeps, UpdateStatusKeeps, HappensKeeps
    <2>3. CASE Happens(updateStatus(pushLog(starting, p), p, "running"))
      BY <1>2, <1>3, <2>3, PushLogKeeps, UpdateStatusKeeps, HappensKeeps
    <2>4. QED BY <1>4, <2>1, <2>2, <2>3 DEF start, kept, starting, anew
  <1>5. CASE stop(p)
    <2>1. CASE Happens(pushLog(kept, p))
      BY <1>1, <2>1, PushLogKeeps, HappensKeeps
    <2>2. CASE Happens(updateStatus(kept, p, "stopped"))
      BY <1>1, <1>2, <2>2, UpdateStatusKeeps, HappensKeeps
    <2>3. QED BY <1>5, <2>1, <2>2 DEF stop, kept
  <1>6. CASE onData(p)
    <2>1. Happens(pushLog(kept, p))
      BY <1>6 DEF onData, kept
    <2>2. QED BY <1>1, <2>1, PushLogKeeps, HappensKeeps
  <1>7. CASE onExit(p)
    <2>1. PICK state \in {"exited", "error"} : Happens(updateStatus(pushLog(kept, p), p, state))
      BY <1>7 DEF onExit, kept
    <2>2. state \in ProcState
      BY <1>2
    <2>3. QED BY <1>1, <2>1, <2>2, PushLogKeeps, UpdateStatusKeeps, HappensKeeps
  <1>8. QED BY <1>4, <1>5, <1>6, <1>7

\* The page's lines, and what leads to them, are not touched.
LEMMA LinesUntouched ==
    ASSUME Inv, UNCHANGED <<manager, connected, queue>>, HasLines(page'), page'.logs = page.logs
    PROVE  Inv'
  BY DEF Inv

LEMMA BlankManaged ==
    Managed(blank.logs, blank.logSeq) /\ blank.status \in [ProcId -> ProcState]
  <1>1. Rising(<< >>) /\ UpTo(<< >>, 0) /\ \A x : ~ HasId(<< >>, x)
    BY DEF Rising, UpTo, HasId
  <1>2. blank.logs = [p \in ProcId |-> << >>] /\ blank.logSeq = 0
        /\ blank.status = [p \in ProcId |-> "stopped"]
    BY DEF blank
  <1>3. << >> \in Seq(LogLine) /\ "stopped" \in ProcState
    BY DEF ProcState
  <1> DEFINE logs == [p \in ProcId |-> << >>]
  <1>4. logs \in [ProcId -> Seq(LogLine)] /\ \A p \in ProcId : logs[p] = << >>
    BY <1>3
  <1> HIDE DEF logs
  <1>5. Managed(logs, 0)
    BY <1>1, <1>4 DEF Managed
  <1>6. QED BY <1>2, <1>3, <1>5 DEF logs

LEMMA ConnectStep ==
    ASSUME Inv, Connect
    PROVE  Inv'
  <1>1. ~connected /\ connected' /\ queue' = << BacklogEvent >> /\ page' = page /\ manager' = manager
    BY DEF Connect
  <1>2. /\ Managed(manager.logs, manager.logSeq) /\ manager.logSeq \in Nat
        /\ manager.status \in [ProcId -> ProcState]
        /\ HasLines(page) /\ Rising(page.logs) /\ page.logs \in Seq(LogLine)
    BY DEF Inv, Managed, HasLines
  <1>3. /\ allLogs \in Seq(LogLine) /\ Rising(allLogs)
        /\ \A x \in Nat : HasId(allLogs, x) <=> x \in Held(manager.logs)
    BY <1>2, AllLogsIs
  <1>4. Held(manager.logs) \in SUBSET (0 .. manager.logSeq) /\ Held(manager.logs) \in SUBSET Nat
    BY <1>2, HeldUpTo DEF Held
  <1>5. UpTo(allLogs, manager.logSeq) /\ Covers(allLogs, Held(manager.logs))
    <2>1. \A i \in 1 .. Len(allLogs) : allLogs[i].id \in Held(manager.logs)
      <3>1. \A i \in 1 .. Len(allLogs) : allLogs[i].id \in Nat
        <4>1. \A i \in 1 .. Len(allLogs) : allLogs[i] \in LogLine
          BY <1>3
        <4>2. QED BY <4>1 DEF LogLine
      <3>2. QED BY <1>3, <3>1 DEF HasId
    <2>2. UpTo(allLogs, manager.logSeq)
      BY <1>4, <2>1 DEF UpTo
    <2>3. Covers(allLogs, Held(manager.logs))
      BY <1>3, <1>4 DEF Covers
    <2>4. QED BY <2>2, <2>3
  <1> DEFINE backlog == LastOf(allLogs, Backlog)
             e == BacklogEvent
  <1>6. backlog \in Seq(LogLine) /\ EndOf(backlog, allLogs)
    BY <1>3, Sizes, LastOfIs
  <1>7. e = [event |-> "backlog", logs |-> backlog, status |-> manager.status]
    BY Zenon DEF BacklogEvent
  <1> HIDE DEF backlog, e
  <1>8. Rising(backlog) /\ UpTo(backlog, manager.logSeq) /\ Covers(backlog, Held(manager.logs))
    BY <1>2, <1>3, <1>4, <1>5, <1>6, EndKeeps
  <1>9. e \in Event /\ e.event = "backlog" /\ e.logs = backlog
    BY <1>2, <1>6, <1>7 DEF Event
  <1>10. Reaches(page.logs, << e >>, Held(manager.logs), manager.logSeq)
    BY <1>2, <1>4, <1>8, <1>9, ReachesBacklog
  <1>11. queue' = << e >> /\ queue' \in Seq(Event)
    BY <1>1, <1>9 DEF e
  <1>12. QED BY <1>1, <1>2, <1>10, <1>11 DEF Inv

LEMMA DeliverStep ==
    ASSUME Inv, Deliver
    PROVE  Inv'
  <1> DEFINE e == Head(queue)
  <1>1. /\ queue # << >> /\ queue' = Tail(queue) /\ page' = Handled(page, e)
        /\ manager' = manager /\ connected' = connected
    BY DEF Deliver
  <1>2. queue \in Seq(Event) /\ connected /\ HasLines(page)
    BY <1>1 DEF Inv
  <1>3. e \in Event /\ queue' \in Seq(Event)
    BY <1>1, <1>2
  <1> HIDE DEF e
  <1>4. HasLines(page') /\ page'.logs = LinesAfter(page.logs, e)
    BY <1>1, <1>2, <1>3, HandledLines
  <1>5. /\ Reaches(LinesAfter(page.logs, e), Tail(queue), Held(manager.logs), manager.logSeq)
        /\ Rising(LinesAfter(page.logs, e))
    <2>1. Reaches(page.logs, queue, Held(manager.logs), manager.logSeq)
      BY <1>2 DEF Inv
    <2>2. QED BY <1>1, <1>2, <2>1, ReachesTail DEF e
  <1>6. QED BY <1>1, <1>2, <1>3, <1>4, <1>5 DEF Inv

LEMMA ClearLogsStep ==
    ASSUME Inv, clearLogs
    PROVE  Inv'
  <1>1. /\ page' = [page EXCEPT !.logs = << >>]
        /\ manager' = manager /\ connected' = connected /\ queue' = queue
    BY DEF clearLogs
  <1>2. /\ HasLines(page) /\ queue \in Seq(Event) /\ manager.logSeq \in Nat
        /\ Held(manager.logs) \in SUBSET Nat /\ page.logs \in Seq(LogLine)
    BY DEF Inv, Managed, Held, HasLines
  <1>3. HasLines(page') /\ page'.logs = << >> /\ Rising(<< >>)
    BY <1>1, <1>2 DEF HasLines, Rising
  <1>4. connected => Reaches(<< >>, queue, Held(manager.logs), manager.logSeq)
    <2>1. connected => Reaches(page.logs, queue, Held(manager.logs), manager.logSeq)
      BY DEF Inv
    <2>2. QED BY <1>2, <2>1, ReachesCleared
  <1>5. QED BY <1>1, <1>3, <1>4 DEF Inv

LEMMA ReceiveStep ==
    ASSUME Inv, NEW q \in Poll, Receive(q)
    PROVE  Inv'
  <1>1. UNCHANGED <<manager, connected, queue>> /\ (Failed(q) \/ gotStatus(q) \/ gotSpec(q))
    BY DEF Receive
  <1>2. HasLines(page)
    BY DEF Inv
  <1>3. HasLines(page') /\ page'.logs = page.logs
    <2>1. CASE page' = page
      BY <1>2, <2>1
    <2>2. CASE page' = [page EXCEPT !.spec = "down"]
      BY <1>2, <2>2 DEF HasLines
    <2>3. CASE page' = [page EXCEPT !.status = answers[q].status]
      BY <1>2, <2>3 DEF HasLines
    <2>4. ASSUME NEW history, page' = [page EXCEPT !.spec = answers[q].spec, !.specHistory = history]
          PROVE  HasLines(page') /\ page'.logs = page.logs
      BY <1>2, <2>4 DEF HasLines
    <2>5. CASE Failed(q)
      BY <2>1, <2>2, <2>5 DEF Failed
    <2>6. CASE gotStatus(q)
      BY <2>3, <2>6 DEF gotStatus
    <2>7. CASE gotSpec(q)
      BY <2>4, <2>7 DEF gotSpec
    <2>8. QED BY <1>1, <2>5, <2>6, <2>7
  <1>4. QED BY <1>1, <1>3, LinesUntouched

LEMMA RestartStep ==
    ASSUME Inv, Restart
    PROVE  Inv'
  <1>1. /\ manager' = blank /\ ~connected' /\ queue' = << >>
        /\ page' = [page EXCEPT !.spec = "down"] \/ page' = page
    BY DEF Restart
  <1>2. HasLines(page) /\ Rising(page.logs)
    BY DEF Inv
  <1>3. HasLines(page') /\ page'.logs = page.logs
    BY <1>1, <1>2 DEF HasLines
  <1>4. Managed(blank.logs, blank.logSeq) /\ blank.status \in [ProcId -> ProcState]
    BY BlankManaged
  <1>5. QED BY <1>1, <1>2, <1>3, <1>4 DEF Inv

LEMMA Inductive ==
    ASSUME Inv, [Next]_vars
    PROVE  Inv'
  <1>1. CASE \E p \in ProcId : start(p) \/ stop(p) \/ onData(p) \/ onExit(p)
    BY <1>1, ManagerStep
  <1>2. CASE SpecChanges
    BY <1>2, LinesUntouched DEF SpecChanges, Inv
  <1>3. CASE Restart
    BY <1>3, RestartStep
  <1>4. CASE Connect
    BY <1>4, ConnectStep
  <1>5. CASE Drop
    BY <1>5 DEF Drop, Inv
  <1>6. CASE Deliver
    BY <1>6, DeliverStep
  <1>7. CASE clearLogs
    BY <1>7, ClearLogsStep
  <1>8. ASSUME NEW q \in Poll, PollStatus(q) \/ PollSpec(q) PROVE Inv'
    BY <1>8, LinesUntouched DEF PollStatus, PollSpec, Answered, Inv
  <1>9. ASSUME NEW q \in Poll, Receive(q) PROVE Inv'
    BY <1>9, ReceiveStep
  <1>10. CASE UNCHANGED vars
    BY <1>10, LinesUntouched DEF vars, Inv
  <1>11. QED BY <1>1, <1>2, <1>3, <1>4, <1>5, <1>6, <1>7, <1>8, <1>9, <1>10 DEF Next

LEMMA Initially == Init => Inv
  <1> SUFFICES ASSUME Init PROVE Inv
    OBVIOUS
  <1>1. /\ manager = blank /\ connected = FALSE /\ queue = << >>
        /\ page = [logs |-> << >>, status |-> blank.status, spec |-> "down", specHistory |-> << >>]
    BY DEF Init
  <1>2. HasLines(page) /\ page.logs = << >> /\ Rising(<< >>)
    BY <1>1 DEF HasLines, Rising
  <1>3. Managed(blank.logs, blank.logSeq) /\ blank.status \in [ProcId -> ProcState]
    BY BlankManaged
  <1>4. QED BY <1>1, <1>2, <1>3 DEF Inv

-----------------------------------------------------------------------------
(* The properties.                                                         *)

(***************************************************************************)
(* Across broken and new streams, trimming, clearing, restarted programs   *)
(* and a restarted dashboard: the manager's lines (pushLog) are numbered   *)
(* apart, and the events on their way to the page (GET of app/api/logs)    *)
(* lead it to a cover of those held.                                       *)
(***************************************************************************)
THEOREM LinesInductive == Spec => []Inv
  BY Initially, Inductive, PTL DEF Spec

LEMMA OnceByInv == Inv => LinesOnce
  <1> SUFFICES ASSUME Inv, NEW filter,
                      NEW i \in DOMAIN LogsPanel(page.logs, filter),
                      NEW j \in DOMAIN LogsPanel(page.logs, filter), i < j
               PROVE  LogsPanel(page.logs, filter)[i].key < LogsPanel(page.logs, filter)[j].key
    BY DEF LinesOnce
  <1> DEFINE lines == page.logs
             shown == LogsPanel(lines, filter)
             places == {k \in DOMAIN lines : filter \in {"all", lines[k].proc}}
  <1>1. lines \in Seq(LogLine) /\ Rising(lines)
    BY DEF Inv, HasLines
  <1>2. shown = [k \in places |-> [key |-> lines[k].id, label |-> lines[k].proc]]
    BY Zenon DEF LogsPanel
  <1>3. i \in places /\ j \in places
    BY <1>2
  <1>4. shown[i].key = lines[i].id /\ shown[j].key = lines[j].id
    BY <1>2, <1>3
  <1>5. i \in 1 .. Len(lines) /\ j \in 1 .. Len(lines)
    BY <1>1, <1>3
  <1>6. lines[i].id < lines[j].id
    BY <1>1, <1>5 DEF Rising
  <1>7. QED BY <1>4, <1>6

(***************************************************************************)
(* Whatever is filtered, the panel (backlog, appendLog) shows no line      *)
(* twice or out of order, for any number of lines kept and shown.          *)
(***************************************************************************)
THEOREM ShowsLinesOnce == Spec => []LinesOnce
  BY LinesInductive, OnceByInv, PTL

LEMMA NothingByInv == Inv => NothingSkipped
  <1> SUFFICES ASSUME Inv, connected,
                      NEW i \in {line.id : line \in UNION {ToSet(manager.logs[p]) : p \in ProcId}},
                      NEW j \in {line.id : line \in ToSet(Arrived.logs)}, j < i
               PROVE  i \in {line.id : line \in ToSet(Arrived.logs)}
    BY DEF NothingSkipped
  <1>1. PICK g \in [0 .. Len(queue) -> Seq(LogLine)] :
           Leads(g, page.logs, queue) /\ Covers(g[Len(queue)], Held(manager.logs))
    BY DEF Inv, Reaches
  <1>2. HasLines(page) /\ queue \in Seq(Event) /\ manager.logs \in [ProcId -> Seq(LogLine)]
    BY DEF Inv, Managed
  <1> DEFINE final == g[Len(queue)]
  <1>3. Arrived.logs = final
    BY <1>1, <1>2, ArrivedIs
  <1>4. final \in Seq(LogLine)
    <2>1. Len(queue) \in 0 .. Len(queue)
      BY <1>2
    <2>2. QED BY <1>1, <2>1
  <1> HIDE DEF final
  <1>5. \A x : x \in {line.id : line \in ToSet(Arrived.logs)} <=> HasId(final, x)
    BY <1>3, <1>4 DEF ToSet, HasId
  <1>6. i \in Held(manager.logs)
    <2>1. PICK p \in ProcId : \E k \in DOMAIN manager.logs[p] : manager.logs[p][k].id = i
      BY DEF ToSet
    <2>2. manager.logs[p] \in Seq(LogLine)
      BY <1>2, <2>1
    <2>3. PICK k \in 1 .. Len(manager.logs[p]) : manager.logs[p][k].id = i
      BY <2>1, <2>2
    <2>4. manager.logs[p][k] \in LogLine
      BY <2>2
    <2>5. HasId(manager.logs[p], i) /\ i \in Nat
      BY <2>3, <2>4 DEF HasId, LogLine
    <2>6. QED BY <2>1, <2>5 DEF Held
  <1>7. PICK k \in 1 .. Len(final) : final[k].id < i
    BY <1>5 DEF HasId
  <1>8. HasId(final, i)
    BY <1>1, <1>6, <1>7 DEF Covers, final
  <1>9. QED BY <1>5, <1>8

(***************************************************************************)
(* Once what is on its way has arrived, the page has every line that the   *)
(* manager still has and that is younger than the oldest one shown: there  *)
(* is no seam between a new stream's backlog and its live lines (GET of    *)
(* app/api/logs), however often it breaks.                                 *)
(***************************************************************************)
THEOREM SkipsNothing == Spec => []NothingSkipped
  BY LinesInductive, NothingByInv, PTL

=============================================================================
