------------------------ MODULE DraftService_proofs ------------------------
(***************************************************************************)
(* Proofs about the daemon's handlers at their locks, for any number of    *)
(* servers, calls and abandoned calls, with and without a preview, and     *)
(* about the preview of one server that gives no call up.                  *)
(*                                                                         *)
(* That one handler is at an engine follows from who holds its session's   *)
(* mutex (Holding), and that from the calls' identities (Numbered): a      *)
(* server's next call has an id that no handler it gave up still has.      *)
(* That they cannot lock each other up follows from the converse: who      *)
(* holds a mutex is a call that is still being handled (Held).             *)
(*                                                                         *)
(* That the preview is right follows from what the queue leads to once it  *)
(* is drawn (Leads), and from a verdict or a reset between two blocks      *)
(* (Ordered).  The text of a transcript is defined by recursion on its     *)
(* regions, so the first section proves induction over the naturals.       *)
(***************************************************************************)
EXTENDS DraftService, FiniteSetTheorems, FunctionTheorems, SequenceTheorems, TLAPS

-----------------------------------------------------------------------------
(* Sequences of sequences, one after the other.                            *)

(***************************************************************************)
(* Induction for sets of numbers.  Were n the one that S lacks, the        *)
(* successor would be an injection of S's numbers below n into themselves  *)
(* that misses 0; but they are finitely many.                              *)
(***************************************************************************)
LEMMA Induction ==
    ASSUME NEW S, 0 \in S, \A n \in Nat : n \in S => n + 1 \in S
    PROVE  Nat \subseteq S
  <1> SUFFICES ASSUME NEW n \in Nat, n \notin S PROVE FALSE
    OBVIOUS
  <1> DEFINE T == {k \in 0 .. n : k \in S}
             next == [k \in T |-> k + 1]
  <1>1. IsFiniteSet(T)
    <2>1. IsFiniteSet(0 .. n) /\ T \in SUBSET (0 .. n)
      BY FS_Interval
    <2>2. QED BY <2>1, FS_Subset
  <1>2. next \in Injection(T, T)
    <2>1. next \in [T -> T]
      OBVIOUS
    <2>2. \A j, k \in T : next[j] = next[k] => j = k
      OBVIOUS
    <2>3. QED BY <2>1, <2>2, Fun_IsInj
  <1>3. next \in Surjection(T, T)
    BY <1>1, <1>2, FS_Injection
  <1>4. \E k \in T : next[k] = 0
    BY <1>3, Fun_SurjectionProperties
  <1>5. QED BY <1>4

\* f[i] is the first i of the sequences, one after the other.
Flattens(f, seqs, n) ==
    \A i \in 1 .. n : f[i] = IF i = 1 THEN seqs[i] ELSE f[i - 1] \o seqs[i]

\* There is such a function for any sequences.
LEMMA FlattenExists ==
    ASSUME NEW T, NEW seqs \in Seq(Seq(T)), NEW n \in 0 .. Len(seqs)
    PROVE  \E f \in [1 .. n -> Seq(T)] : Flattens(f, seqs, n)
  <1> DEFINE P == {m \in Nat : m <= Len(seqs) => \E f \in [1 .. m -> Seq(T)] : Flattens(f, seqs, m)}
  <1>1. 0 \in P
    <2> DEFINE f == [i \in 1 .. 0 |-> IF i = 1 THEN seqs[i] ELSE << >>]
    <2>1. f \in [1 .. 0 -> Seq(T)] /\ Flattens(f, seqs, 0)
      BY DEF Flattens
    <2>2. QED BY <2>1
  <1>2. ASSUME NEW m \in Nat, m \in P, m + 1 <= Len(seqs) PROVE m + 1 \in P
    <2>1. PICK f \in [1 .. m -> Seq(T)] : Flattens(f, seqs, m)
      BY <1>2
    <2> DEFINE g == [i \in 1 .. m + 1 |-> IF i = m + 1 THEN (IF i = 1 THEN seqs[i] ELSE f[i - 1] \o seqs[i])
                                                       ELSE f[i]]
    <2>2. g \in [1 .. m + 1 -> Seq(T)]
      <3>1. \A i \in 1 .. m + 1 : seqs[i] \in Seq(T)
        BY <1>2
      <3>2. \A i \in 1 .. m : f[i] \in Seq(T)
        BY <2>1
      <3>3. \A i \in 1 .. m + 1 : g[i] \in Seq(T)
        BY <3>1, <3>2
      <3>4. QED BY <3>3
    <2>3. ASSUME NEW i \in 1 .. m + 1
          PROVE  g[i] = IF i = 1 THEN seqs[i] ELSE g[i - 1] \o seqs[i]
      <3>1. CASE i = m + 1
        BY <3>1
      <3>2. CASE i # m + 1
        <4>1. i \in 1 .. m /\ g[i] = f[i]
          BY <3>2
        <4>2. i # 1 => g[i - 1] = f[i - 1]
          BY <4>1
        <4>3. QED BY <2>1, <4>1, <4>2 DEF Flattens
      <3>3. QED BY <3>1, <3>2
    <2>4. Flattens(g, seqs, m + 1)
      BY <2>3 DEF Flattens
    <2> HIDE DEF g
    <2>5. \E h \in [1 .. m + 1 -> Seq(T)] : Flattens(h, seqs, m + 1)
      BY <2>2, <2>4
    <2>6. QED BY <2>5
  <1>3. Nat \subseteq P
    <2>1. ASSUME NEW m \in Nat, m \in P PROVE m + 1 \in P
      <3>1. CASE m + 1 <= Len(seqs)
        BY <1>2, <2>1, <3>1
      <3>2. CASE ~ m + 1 <= Len(seqs)
        BY <2>1, <3>2
      <3>3. QED BY <3>1, <3>2
    <2> HIDE DEF P
    <2>2. QED BY <1>1, <2>1, Induction, ZenonT(30)
  <1>4. QED BY <1>3

Agree(f, g, n) == \A i \in 1 .. n : f[i] = g[i]

\* Two of them agree as far as both go.
LEMMA FlattenAgrees ==
    ASSUME NEW r, NEW t, NEW n \in Nat, NEW k \in Nat, n <= k,
           Agree(r, t, n),
           NEW f, NEW g, Flattens(f, r, n), Flattens(g, t, k)
    PROVE  Agree(f, g, n)
  <1> DEFINE P == {m \in Nat : m \in 1 .. n => f[m] = g[m]}
  <1>1. 0 \in P
    OBVIOUS
  <1>2. ASSUME NEW m \in Nat, m \in P, m + 1 \in 1 .. n PROVE f[m + 1] = g[m + 1]
    <2>0. m + 1 \in 1 .. n /\ m + 1 \in 1 .. k /\ (m + 1) - 1 = m /\ (m + 1 # 1 => m \in 1 .. n)
      BY <1>2
    <2>1. f[m + 1] = IF m + 1 = 1 THEN r[m + 1] ELSE f[m] \o r[m + 1]
      BY <2>0 DEF Flattens
    <2>2. g[m + 1] = IF m + 1 = 1 THEN t[m + 1] ELSE g[m] \o t[m + 1]
      BY <2>0 DEF Flattens
    <2>3. r[m + 1] = t[m + 1]
      BY <2>0 DEF Agree
    <2>4. QED BY <1>2, <2>0, <2>1, <2>2, <2>3
  <1>3. Nat \subseteq P
    <2>1. ASSUME NEW m \in Nat, m \in P PROVE m + 1 \in P
      <3>1. CASE m + 1 \in 1 .. n
        BY <1>2, <2>1, <3>1
      <3>2. CASE m + 1 \notin 1 .. n
        BY <2>1, <3>2
      <3>3. QED BY <3>1, <3>2
    <2> HIDE DEF P
    <2>2. QED BY <1>1, <2>1, Induction, ZenonT(30)
  <1>4. QED BY <1>3 DEF Agree

\* The library's recursive function is the one.
LEMMA FlattenIs ==
    ASSUME NEW T, NEW seqs \in Seq(Seq(T)), seqs # << >>
    PROVE  \E f \in [1 .. Len(seqs) -> Seq(T)] :
              Flattens(f, seqs, Len(seqs)) /\ FlattenSeq(seqs) = f[Len(seqs)]
  <1> DEFINE n == Len(seqs)
             IsIt(f) == f = [i \in 1 .. n |-> IF i = 1 THEN seqs[i] ELSE f[i - 1] \o seqs[i]]
             it == CHOOSE f : IsIt(f)
  <1>1. PICK f \in [1 .. n -> Seq(T)] : Flattens(f, seqs, n)
    BY FlattenExists
  <1>2. IsIt(it)
    <2>1. IsIt(f)
      <3>1. f = [i \in 1 .. n |-> f[i]]
        BY <1>1
      <3>2. QED BY <1>1, <3>1 DEF Flattens
    <2> HIDE DEF IsIt
    <2>2. QED BY <2>1, Zenon
  <1>3. FlattenSeq(seqs) = it[n]
    <2>1. Len(seqs) # 0
      OBVIOUS
    <2>2. QED BY <2>1, Zenon DEF FlattenSeq
  <1>4. it = f
    <2>1. \A i \in 1 .. n : it[i] = f[i]
      <3>1. Flattens(it, seqs, n)
        BY <1>2 DEF Flattens
      <3> HIDE DEF it
      <3>2. n \in Nat /\ n <= n /\ Agree(seqs, seqs, n)
        BY DEF Agree
      <3>3. Agree(it, f, n)
        BY <1>1, <3>1, <3>2, FlattenAgrees
      <3>4. QED BY <3>3 DEF Agree
    <2>2. it = [i \in 1 .. n |-> it[i]] /\ f = [i \in 1 .. n |-> f[i]]
      <3>1. it = [i \in 1 .. n |-> IF i = 1 THEN seqs[i] ELSE it[i - 1] \o seqs[i]]
        BY <1>2
      <3> HIDE DEF it
      <3>2. QED BY <3>1
    <2> HIDE DEF it
    <2>3. QED BY <2>1, <2>2
  <1>5. QED BY <1>1, <1>3, <1>4

LEMMA FlattenLonger ==
    ASSUME NEW T, NEW seqs \in Seq(Seq(T)), NEW longer \in Seq(Seq(T)),
           NEW len \in Nat, len = Len(seqs), Len(longer) = len + 1,
           Agree(seqs, longer, len)
    PROVE  /\ FlattenSeq(seqs) \in Seq(T)
           /\ FlattenSeq(longer) = FlattenSeq(seqs) \o longer[len + 1]
  <1>1. longer # << >>
    <2>1. Len(longer) # Len(<< >>)
      OBVIOUS
    <2>2. QED BY <2>1
  <1>2. PICK g \in [1 .. len + 1 -> Seq(T)] : Flattens(g, longer, len + 1) /\ FlattenSeq(longer) = g[len + 1]
    BY <1>1, FlattenIs
  <1>3. g[len + 1] = IF len + 1 = 1 THEN longer[len + 1] ELSE g[len] \o longer[len + 1]
    <2>1. len + 1 \in 1 .. len + 1 /\ (len + 1) - 1 = len
      OBVIOUS
    <2>2. QED BY <1>2, <2>1 DEF Flattens
  <1>4. CASE seqs = << >>
    <2>1. FlattenSeq(seqs) = << >>
      BY <1>4, Zenon DEF FlattenSeq
    <2>2. len = 0
      BY <1>4
    <2>3. FlattenSeq(longer) = longer[len + 1] /\ longer[len + 1] \in Seq(T)
      BY <1>2, <1>3, <2>2
    <2>4. QED BY <2>1, <2>3
  <1>5. CASE seqs # << >>
    <2>1. PICK f \in [1 .. len -> Seq(T)] : Flattens(f, seqs, len) /\ FlattenSeq(seqs) = f[len]
      BY <1>5, FlattenIs
    <2>2. len + 1 \in Nat /\ len <= len + 1
      OBVIOUS
    <2>3. Agree(f, g, len)
      BY <1>2, <2>1, <2>2, FlattenAgrees
    <2>4. len \in 1 .. len /\ len + 1 # 1
      BY <1>5
    <2>5. QED BY <1>2, <1>3, <2>1, <2>3, <2>4 DEF Agree
  <1>6. QED BY <1>4, <1>5

\* One more sequence is put at the end.
LEMMA FlattenAppend ==
    ASSUME NEW T, NEW seqs \in Seq(Seq(T)), NEW s \in Seq(T)
    PROVE  /\ FlattenSeq(seqs) \in Seq(T)
           /\ FlattenSeq(Append(seqs, s)) = FlattenSeq(seqs) \o s
  <1>1. PICK longer \in Seq(Seq(T)) : longer = Append(seqs, s)
    <2>1. Append(seqs, s) \in Seq(Seq(T))
      OBVIOUS
    <2>2. QED BY <2>1, Zenon
  <1>2. PICK len \in Nat : len = Len(seqs)
    OBVIOUS
  <1>3. Len(longer) = len + 1 /\ longer[len + 1] = s /\ Agree(seqs, longer, len)
    BY <1>1, <1>2 DEF Agree
  <1>4. FlattenSeq(seqs) \in Seq(T) /\ FlattenSeq(longer) = FlattenSeq(seqs) \o longer[len + 1]
    BY <1>2, <1>3, FlattenLonger
  <1>5. QED BY <1>1, <1>3, <1>4

-----------------------------------------------------------------------------
(* What a transcript shows.                                                *)

Mark == {"confirmed", "pending", "rejected"}
RegionOf(T) == [text : Seq(T), st : Mark]

Text(regions, st) == FlattenSeq([i \in 1 .. Len(regions) |->
                                    IF regions[i].st = st THEN regions[i].text ELSE << >>])

LEMMA TextEmpty ==
    ASSUME NEW st PROVE Text(<< >>, st) = << >>
  <1> DEFINE parts == [i \in 1 .. Len(<< >>) |-> IF << >>[i].st = st THEN << >>[i].text ELSE << >>]
  <1>1. parts = << >>
    BY SMT
  <1>2. FlattenSeq(<< >>) = << >>
    BY Zenon, Len(<< >>) = 0 DEF FlattenSeq
  <1>3. QED BY <1>1, <1>2 DEF Text

LEMMA TextAppend ==
    ASSUME NEW T, NEW regions \in Seq(RegionOf(T)), NEW r \in RegionOf(T), NEW st
    PROVE  /\ Text(regions, st) \in Seq(T)
           /\ Text(Append(regions, r), st) = Text(regions, st) \o IF r.st = st THEN r.text ELSE << >>
  <1> DEFINE part(q) == IF q.st = st THEN q.text ELSE << >>
             parts == [i \in 1 .. Len(regions) |-> part(regions[i])]
             longer == [i \in 1 .. Len(Append(regions, r)) |-> part(Append(regions, r)[i])]
  <1>1. ASSUME NEW q \in RegionOf(T) PROVE part(q) \in Seq(T)
    BY DEF RegionOf
  <1>2. \A i \in 1 .. Len(regions) : regions[i] \in RegionOf(T)
    OBVIOUS
  <1>3. parts \in Seq(Seq(T)) /\ Len(parts) = Len(regions)
    <2> HIDE DEF part
    <2>1. QED BY <1>1, <1>2
  <1>4. longer = Append(parts, part(r))
    <2> HIDE DEF part
    <2>1. /\ Len(Append(regions, r)) = Len(regions) + 1
          /\ Append(regions, r)[Len(regions) + 1] = r
          /\ \A i \in 1 .. Len(regions) : Append(regions, r)[i] = regions[i]
      OBVIOUS
    <2>2. Len(regions) \in Nat
      OBVIOUS
    <2>3. Append(parts, part(r)) = [i \in 1 .. Len(regions) + 1 |->
                IF i = Len(regions) + 1 THEN part(r) ELSE part(regions[i])]
      BY <1>3, <2>2
    <2>4. longer = [i \in 1 .. Len(regions) + 1 |-> part(Append(regions, r)[i])]
      BY <2>1
    <2>5. \A i \in 1 .. Len(regions) + 1 : part(Append(regions, r)[i]) =
             IF i = Len(regions) + 1 THEN part(r) ELSE part(regions[i])
      BY <2>1, <2>2
    <2>6. QED BY <2>3, <2>4, <2>5
  <1>5. FlattenSeq(parts) \in Seq(T) /\ FlattenSeq(Append(parts, part(r))) = FlattenSeq(parts) \o part(r)
    <2>1. part(r) \in Seq(T)
      BY <1>1
    <2> HIDE DEF part, parts
    <2>2. QED BY <1>3, <2>1, FlattenAppend
  <1>6. Text(regions, st) = FlattenSeq(parts) /\ Text(Append(regions, r), st) = FlattenSeq(longer)
    BY Zenon DEF Text
  <1> HIDE DEF parts, longer
  <1>7. QED BY <1>4, <1>5, <1>6

\* A region adds its tokens to the text of its own state.
LEMMA TextRegion ==
    ASSUME NEW T, NEW regions \in Seq(RegionOf(T)), NEW tokens \in Seq(T), NEW mark \in Mark, NEW st
    PROVE  /\ regions \o Region(tokens, mark) \in Seq(RegionOf(T))
           /\ Text(regions, st) \in Seq(T)
           /\ Text(regions \o Region(tokens, mark), st) =
                 Text(regions, st) \o IF mark = st THEN tokens ELSE << >>
  <1> DEFINE r == [text |-> tokens, st |-> mark]
  <1>1. r \in RegionOf(T) /\ r.st = mark /\ r.text = tokens
    BY DEF RegionOf
  <1>2. /\ Text(regions, st) \in Seq(T)
        /\ Text(Append(regions, r), st) = Text(regions, st) \o IF r.st = st THEN r.text ELSE << >>
    <2> HIDE DEF r
    <2>1. QED BY <1>1, TextAppend
  <1>3. CASE tokens = << >>
    <2>1. regions \o Region(tokens, mark) = regions
      BY <1>3 DEF Region
    <2>2. Text(regions, st) \o (IF mark = st THEN tokens ELSE << >>) = Text(regions, st)
      BY <1>2, <1>3
    <2>3. QED BY <1>2, <2>1, <2>2
  <1>4. CASE tokens # << >>
    <2>1. Region(tokens, mark) = <<r>>
      BY <1>4 DEF Region
    <2> HIDE DEF r
    <2>2. regions \o Region(tokens, mark) = Append(regions, r)
      BY <1>1, <2>1
    <2>3. Append(regions, r) \in Seq(RegionOf(T))
      BY <1>1
    <2>4. QED BY <1>1, <1>2, <2>2, <2>3
  <1>5. QED BY <1>3, <1>4

\* The worker finds the regions before the pending one.
LEMMA SettledIs ==
    ASSUME NEW T, NEW regions \in Seq(RegionOf(T)), NEW tokens \in Seq(T),
           transcript = regions \o Region(tokens, "pending"),
           \A i \in 1 .. Len(regions) : regions[i].st # "pending"
    PROVE  Settled = regions
  <1> DEFINE n == Len(regions)
             Keeps(m) == m \in 0 .. Len(transcript)
                         /\ \A i \in m + 1 .. Len(transcript) : transcript[i].st = "pending"
             keep == {m \in 0 .. Len(transcript) :
                        \A i \in m + 1 .. Len(transcript) : transcript[i].st = "pending"}
  <1>1. n \in Nat /\ \A i \in 1 .. n : transcript[i] = regions[i]
    BY DEF Region
  <1>2. n \in keep
    <2>1. CASE tokens = << >>
      BY <1>1, <2>1 DEF Region
    <2>2. CASE tokens # << >>
      <3>1. Len(transcript) = n + 1 /\ transcript[n + 1] = [text |-> tokens, st |-> "pending"]
        BY <2>2 DEF Region
      <3>2. n \in 0 .. Len(transcript) /\ \A i \in n + 1 .. Len(transcript) : i = n + 1
        BY <1>1, <3>1
      <3>3. QED BY <3>1, <3>2
    <2>3. QED BY <2>1, <2>2
  <1>3. ASSUME NEW m \in keep PROVE n <= m
    <2>1. SUFFICES ASSUME m < n PROVE FALSE
      BY <1>1
    <2>2. n \in m + 1 .. Len(transcript) /\ n \in 1 .. n
      BY <1>1, <1>2, <2>1
    <2>3. QED BY <1>1, <2>2
  <1>4. (CHOOSE k \in keep : \A m \in keep : k <= m) = n
    <2>1. \A k \in keep : k \in Int
      OBVIOUS
    <2>2. ASSUME NEW k \in keep, \A m \in keep : k <= m PROVE k = n
      <3> HIDE DEF keep, n
      <3>1. k \in Int /\ n \in Nat /\ k <= n /\ n <= k
        BY <1>1, <1>2, <1>3, <2>1, <2>2
      <3>2. QED BY <3>1
    <2> HIDE DEF keep, n
    <2>3. QED BY <1>2, <1>3, <2>2
  <1>5. Settled = SubSeq(transcript, 1, n)
    BY <1>4, Zenon DEF Settled
  <1>6. SubSeq(transcript, 1, n) = regions
    <2>1. Len(transcript) \in Nat /\ n <= Len(transcript) /\ transcript \in Seq(RegionOf(T))
      BY <1>1, <1>2, TextRegion DEF Mark
    <2>2. SubSeq(transcript, 1, n) = [i \in 1 .. n |-> transcript[i]]
      BY <1>1, <2>1
    <2>3. QED BY <1>1, <2>2
  <1>7. QED BY <1>5, <1>6

\* Two sequences have a longest common beginning.
LEMMA MatchIs ==
    ASSUME NEW T, NEW a \in Seq(T), NEW b \in Seq(T)
    PROVE  /\ Match(a, b) \in 0 .. Len(a) /\ Match(a, b) <= Len(b)
           /\ SubSeq(a, 1, Match(a, b)) = SubSeq(b, 1, Match(a, b))
  <1> DEFINE Common(n) == n \in Nat /\ n <= Len(a) /\ n <= Len(b) /\ \A i \in 1 .. n : a[i] = b[i]
             Ends(n) == n = Len(a) \/ n = Len(b) \/ a[n + 1] # b[n + 1]
  <1>1. \E n \in Nat : Common(n) /\ Ends(n)
    <2> SUFFICES ASSUME \A n \in Nat : Common(n) => ~Ends(n) PROVE FALSE
      OBVIOUS
    <2> DEFINE P == {n \in Nat : Common(n)}
    <2>1. 0 \in P
      OBVIOUS
    <2>2. ASSUME NEW n \in Nat, n \in P PROVE n + 1 \in P
      <3>1. n # Len(a) /\ n # Len(b) /\ a[n + 1] = b[n + 1] /\ Common(n)
        BY <2>2
      <3>2. QED BY <3>1
    <2>3. Nat \subseteq P
      <3>1. \A n \in Nat : n \in P => n + 1 \in P
        BY <2>2
      <3> HIDE DEF P
      <3>2. QED BY <2>1, <3>1, Induction
    <2>4. Len(a) + 1 \in P
      BY <2>3
    <2>5. QED BY <2>4
  <1>2. \A n \in Nat : Common(n) => SubSeq(a, 1, n) = SubSeq(b, 1, n)
    OBVIOUS
  <1>3. \E n \in 0 .. Len(a) : /\ n <= Len(b) /\ SubSeq(a, 1, n) = SubSeq(b, 1, n)
                               /\ n = Len(a) \/ n = Len(b) \/ a[n + 1] # b[n + 1]
    <2>1. PICK n \in Nat : Common(n) /\ Ends(n)
      BY <1>1
    <2>2. n \in 0 .. Len(a) /\ n <= Len(b) /\ SubSeq(a, 1, n) = SubSeq(b, 1, n)
      BY <1>2, <2>1
    <2>3. QED BY <2>1, <2>2
  <1>4. QED BY <1>3, Zenon DEF Match

-----------------------------------------------------------------------------
CallId == Server \X (Nat \ {0})
Kind == {"InitSession", "Reset", "Prefill", "Draft"}
Place == {"create", "insert", "find", "lock", "ingest", "preview", "signal"} \cup Kind

ServerState == [sid : Nat, next : Kind \cup {"none"}, step_id : Nat, anchor : Seq(Token),
                block : Seq(Token), calls : Nat, waiting : BOOLEAN]
Handler == [id : CallId, kind : Kind, sid : Nat, step_id : Nat, tokens : Seq(Token),
            block : Seq(Token), at : Place]
Session == [mtx : CallId \cup {Free}, last_step_id : Nat]

Typed ==
    /\ next_session_id \in Nat \ {0}
    /\ sessions \in [1 .. next_session_id - 1 -> Session]
    /\ servers \in [Server -> ServerState]
    /\ handlers \subseteq Handler

\* A server knows a session that exists, before it calls it.
Known ==
    \A s \in Server :
       /\ servers[s].sid < next_session_id
       /\ servers[s].next \in {"Prefill", "Draft"} => servers[s].sid # 0

\* A handler's call is one its server made, and no other handler's.
Numbered ==
    /\ \A h \in handlers : h.id[2] <= servers[h.id[1]].calls
    /\ \A g, h \in handlers : g.id = h.id => g = h

\* A handler past the handshake is about a session that exists.
Located ==
    \A h \in handlers : h.at \notin {"create", "insert"} => h.sid \in 1 .. next_session_id - 1

\* A handler at an engine holds its session's mutex.
Holding == \A h \in handlers : AtEngine(h) => sessions[h.sid].mtx = h.id

\* The inductive invariant.
Inv == Typed /\ Known /\ Numbered /\ Located /\ Holding /\ SessionsUnshared

-----------------------------------------------------------------------------
(* How a handler goes on.                                                  *)

LEMMA FreeIsNoCall == Free \notin CallId
  <1> SUFFICES ASSUME Free \in CallId PROVE FALSE
    OBVIOUS
  <1>1. PICK s \in Server, n \in Nat : Free = <<s, n>>
    BY DEF CallId
  <1>2. Len(Free) = 0 /\ Len(<<s, n>>) = 2
    BY DEF Free
  <1>3. QED BY <1>1, <1>2

\* What h may do to mutexes: take one that is free and give its own back.
MutexesOfOthers(h) ==
    \A i \in 1 .. next_session_id - 1 :
       sessions[i].mtx \notin {Free, h.id} => sessions'[i].mtx = sessions[i].mtx

\* The handlers beside h keep their places and their locks.
LEMMA OthersKeep ==
    ASSUME Inv, NEW h \in handlers, MutexesOfOthers(h)
    PROVE  \A g \in handlers \ {h} :
              AtEngine(g) => g.id # h.id /\ sessions'[g.sid].mtx = g.id
  <1> SUFFICES ASSUME NEW g \in handlers, g # h, AtEngine(g)
               PROVE  g.id # h.id /\ sessions'[g.sid].mtx = g.id
    OBVIOUS
  <1>1. g.id \in CallId /\ g.id # h.id
    BY DEF Inv, Typed, Handler, Numbered
  <1>2. g.sid \in 1 .. next_session_id - 1 /\ sessions[g.sid].mtx = g.id
    BY DEF Inv, Located, Holding, AtEngine
  <1>3. g.id \notin {Free, h.id}
    BY <1>1, FreeIsNoCall
  <1>4. QED BY <1>1, <1>2, <1>3 DEF MutexesOfOthers

\* h goes on as g.
LEMMA MoveKeeps ==
    ASSUME Inv, NEW h \in handlers, NEW g \in Handler, To(h, g), g.id = h.id,
           g.at \notin {"create", "insert"} => g.sid \in 1 .. next_session_id - 1,
           next_session_id' = next_session_id,
           sessions' \in [1 .. next_session_id - 1 -> Session],
           AtEngine(g) => sessions'[g.sid].mtx = g.id,
           MutexesOfOthers(h)
    PROVE  Inv'
  <1>1. handlers' = (handlers \ {h}) \cup {g} /\ servers' = servers
    BY DEF To, client
  <1>2. Typed'
    BY <1>1 DEF Inv, Typed
  <1>3. Known' /\ SessionsUnshared'
    BY <1>1 DEF Inv, Known, SessionsUnshared
  <1>4. Numbered'
    BY <1>1 DEF Inv, Numbered
  <1>5. Located'
    BY <1>1 DEF Inv, Located
  <1>6. Holding'
    BY <1>1, OthersKeep DEF Holding, AtEngine
  <1>7. QED BY <1>2, <1>3, <1>4, <1>5, <1>6 DEF Inv

\* A returning handler changes its server in nothing that the others rely on.
LEMMA ReturnKeeps ==
    ASSUME Inv, NEW h \in handlers, NEW server \in ServerState, Return(h, server),
           server.sid = Caller(h).sid, server.next = Caller(h).next,
           server.calls = Caller(h).calls,
           next_session_id' = next_session_id,
           sessions' \in [1 .. next_session_id - 1 -> Session],
           MutexesOfOthers(h)
    PROVE  Inv'
  <1>1. handlers' = handlers \ {h}
    BY DEF Return
  <1>2. h.id[1] \in Server
    BY DEF Inv, Typed, Handler, CallId
  <1>3. \A s \in Server : /\ servers'[s] \in ServerState
                          /\ servers'[s].sid = servers[s].sid
                          /\ servers'[s].next = servers[s].next
                          /\ servers'[s].calls = servers[s].calls
    <2>1. servers \in [Server -> ServerState]
      BY DEF Inv, Typed
    <2>2. CASE servers' = servers
      BY <2>1, <2>2
    <2>3. CASE servers' = [servers EXCEPT ![h.id[1]] = [server EXCEPT !.waiting = FALSE]]
      <3>1. /\ [server EXCEPT !.waiting = FALSE] \in ServerState
            /\ [server EXCEPT !.waiting = FALSE].sid = server.sid
            /\ [server EXCEPT !.waiting = FALSE].next = server.next
            /\ [server EXCEPT !.waiting = FALSE].calls = server.calls
        BY DEF ServerState
      <3>2. QED BY <1>2, <2>1, <2>3, <3>1 DEF Caller
    <2>4. QED BY <2>2, <2>3 DEF Return
  <1>4. servers' \in [Server -> ServerState]
    <2>1. servers' = [s \in Server |-> servers'[s]]
      BY DEF Inv, Typed, Return
    <2>2. QED BY <1>3, <2>1
  <1>5. Typed'
    BY <1>1, <1>4 DEF Inv, Typed
  <1>6. Known' /\ SessionsUnshared'
    BY <1>3 DEF Inv, Known, SessionsUnshared
  <1>7. Numbered'
    BY <1>1, <1>3 DEF Inv, Typed, Numbered, Handler, CallId
  <1>8. Located'
    BY <1>1 DEF Inv, Located
  <1>9. Holding'
    BY <1>1, OthersKeep DEF Holding, AtEngine
  <1>10. QED BY <1>5, <1>6, <1>7, <1>8, <1>9 DEF Inv

\* The server as it is, and with a block, is one.
LEMMA CallerTyped ==
    ASSUME Inv, NEW h \in handlers
    PROVE  /\ h \in Handler /\ h.id[1] \in Server
           /\ Caller(h) \in ServerState
           /\ [Caller(h) EXCEPT !.block = h.block] \in ServerState
  <1>1. h \in Handler /\ h.id[1] \in Server /\ h.block \in Seq(Token)
    BY DEF Inv, Typed, Handler, CallId
  <1>2. Caller(h) \in ServerState
    BY <1>1 DEF Inv, Typed, Caller
  <1>3. [Caller(h) EXCEPT !.block = h.block] \in ServerState
    BY <1>1, <1>2 DEF ServerState
  <1>4. QED BY <1>1, <1>2, <1>3
-----------------------------------------------------------------------------
(* Each step keeps the invariant.                                          *)

\* What the locks and the table keep when nobody touches them.
LEMMA TableSame ==
    ASSUME Inv, NEW h, UNCHANGED <<sessions, next_session_id>>
    PROVE  /\ sessions' \in [1 .. next_session_id - 1 -> Session]
           /\ MutexesOfOthers(h)
  BY DEF Inv, Typed, MutexesOfOthers

\* The handlers of the handshake.
LEMMA CreateStep ==
    ASSUME Inv, NEW h \in handlers, Create(h)
    PROVE  Inv'
  <1>1. /\ sessions' \in [1 .. next_session_id - 1 -> Session] /\ MutexesOfOthers(h)
        /\ next_session_id' = next_session_id
    BY TableSame DEF Create, table
  <1>2. CASE To(h, [h EXCEPT !.at = "insert"])
    <2> DEFINE g == [h EXCEPT !.at = "insert"]
    <2>1. g \in Handler /\ g.id = h.id /\ g.at = "insert"
      BY CallerTyped DEF Handler, Place
    <2>2. ~AtEngine(g)
      BY <2>1 DEF AtEngine
    <2> HIDE DEF g
    <2>3. To(h, g)
      BY <1>2 DEF g
    <2>4. QED BY <1>1, <2>1, <2>2, <2>3, MoveKeeps
  <1>3. CASE Return(h, Caller(h))
    BY <1>1, <1>3, CallerTyped, ReturnKeeps
  <1>4. QED BY <1>2, <1>3 DEF Create

LEMMA InsertStep ==
    ASSUME Inv, NEW h \in handlers, Insert(h)
    PROVE  Inv'
  <1> DEFINE n == next_session_id
             server == [Caller(h) EXCEPT !.sid = n, !.next = "Reset", !.waiting = FALSE]
  <1>1. /\ sessions' = [i \in DOMAIN sessions \cup {n} |-> IF i = n THEN NewSession ELSE sessions[i]]
        /\ next_session_id' = n + 1
        /\ handlers' = handlers \ {h}
        /\ servers' = servers \/ servers' = [servers EXCEPT ![h.id[1]] = server]
    BY DEF Insert, Stored, Return
  <1>2. /\ n \in Nat \ {0} /\ sessions \in [1 .. n - 1 -> Session]
        /\ servers \in [Server -> ServerState]
    BY DEF Inv, Typed
  <1>3. NewSession \in Session
    BY DEF NewSession, Session
  <1>4. /\ sessions' \in [1 .. n -> Session]
        /\ \A i \in 1 .. n - 1 : sessions'[i] = sessions[i]
    <2>1. (1 .. n - 1) \cup {n} = 1 .. n
      BY <1>2
    <2>2. QED BY <1>1, <1>2, <1>3, <2>1
  <1>5. server \in ServerState /\ server.sid = n /\ server.next = "Reset" /\ server.calls = Caller(h).calls
    BY <1>2, CallerTyped DEF ServerState, Kind
  <1> HIDE DEF server
  <1>6. \A s \in Server :
           /\ servers'[s] \in ServerState /\ servers'[s].calls = servers[s].calls
           /\ \/ /\ servers'[s].sid = servers[s].sid /\ servers'[s].next = servers[s].next
              \/ s = h.id[1] /\ servers'[s].sid = n /\ servers'[s].next = "Reset"
    BY <1>1, <1>2, <1>5, CallerTyped DEF Caller
  <1>7. servers' \in [Server -> ServerState]
    BY <1>1, <1>2, <1>5
  <1>8. Typed'
    BY <1>1, <1>2, <1>4, <1>7 DEF Inv, Typed
  <1>9. Known'
    <2> SUFFICES ASSUME NEW s \in Server
                 PROVE  /\ servers'[s].sid < n + 1
                        /\ servers'[s].next \in {"Prefill", "Draft"} => servers'[s].sid # 0
      BY <1>1 DEF Known
    <2>1. servers[s].sid < n /\ servers[s].sid \in Nat
      BY <1>2 DEF Inv, Known, ServerState
    <2>2. servers[s].next \in {"Prefill", "Draft"} => servers[s].sid # 0
      BY DEF Inv, Known
    <2>3. QED BY <1>2, <1>6, <2>1, <2>2
  <1>10. Numbered'
    BY <1>1, <1>6 DEF Inv, Typed, Numbered, Handler, CallId
  <1>11. Located'
    BY <1>1, <1>2 DEF Inv, Located
  <1>12. Holding'
    <2> SUFFICES ASSUME NEW g \in handlers, g # h, AtEngine(g)
                 PROVE  sessions'[g.sid].mtx = g.id
      BY <1>1 DEF Holding, AtEngine
    <2>1. g.sid \in 1 .. n - 1
      BY DEF Inv, Located, AtEngine
    <2>2. QED BY <1>4, <2>1 DEF Inv, Holding
  <1>13. SessionsUnshared'
    <2> SUFFICES ASSUME NEW s \in Server, NEW t \in Server, s # t, servers'[s].sid # 0
                 PROVE  servers'[s].sid # servers'[t].sid
      BY DEF SessionsUnshared
    <2>1. servers[s].sid < n /\ servers[t].sid < n /\ servers[s].sid \in Nat /\ servers[t].sid \in Nat
      BY <1>2 DEF Inv, Known, ServerState
    <2>2. servers[s].sid # 0 => servers[s].sid # servers[t].sid
      BY DEF Inv, SessionsUnshared
    <2>3. QED BY <1>2, <1>6, <2>1, <2>2
  <1>14. QED BY <1>8, <1>9, <1>10, <1>11, <1>12, <1>13 DEF Inv

\* A call's session is looked up.
LEMMA FindStep ==
    ASSUME Inv, NEW h \in handlers, Find(h)
    PROVE  Inv'
  <1> DEFINE g == [h EXCEPT !.at = "lock"]
  <1>1. /\ sessions' \in [1 .. next_session_id - 1 -> Session] /\ MutexesOfOthers(h)
        /\ next_session_id' = next_session_id
    BY TableSame DEF Find
  <1>2. g \in Handler /\ g.id = h.id /\ g.sid = h.sid /\ g.at = "lock"
    BY CallerTyped DEF Handler, Place
  <1>3. ~AtEngine(g) /\ g.sid \in 1 .. next_session_id - 1
    BY <1>2 DEF AtEngine, Find, Inv, Located
  <1>4. To(h, g)
    BY DEF Find
  <1> HIDE DEF g
  <1>5. QED BY <1>1, <1>2, <1>3, <1>4, MoveKeeps

LEMMA LockSessionStep ==
    ASSUME Inv, NEW h \in handlers, LockSession(h)
    PROVE  Inv'
  <1> DEFINE g == [h EXCEPT !.at = h.kind]
             session == [sessions[h.sid] EXCEPT !.mtx = h.id,
                                                !.last_step_id = IF h.kind = "Draft" THEN h.step_id ELSE @]
  <1>1. /\ sessions[h.sid].mtx = Free
        /\ sessions' = [sessions EXCEPT ![h.sid] = session]
        /\ To(h, g)
        /\ next_session_id' = next_session_id
    BY DEF LockSession
  <1>2. h.sid \in 1 .. next_session_id - 1 /\ sessions \in [1 .. next_session_id - 1 -> Session]
    BY DEF LockSession, Inv, Located, Typed
  <1>3. g \in Handler /\ g.id = h.id /\ g.sid = h.sid
    BY CallerTyped DEF Handler, Place
  <1>4. session \in Session /\ session.mtx = h.id
    BY <1>2, CallerTyped DEF Session, Handler
  <1> HIDE DEF g, session
  <1>5. /\ sessions' \in [1 .. next_session_id - 1 -> Session]
        /\ sessions'[h.sid].mtx = h.id
        /\ \A i \in 1 .. next_session_id - 1 : i # h.sid => sessions'[i] = sessions[i]
    BY <1>1, <1>2, <1>4
  <1>6. MutexesOfOthers(h)
    BY <1>1, <1>5 DEF MutexesOfOthers
  <1>7. QED BY <1>1, <1>2, <1>3, <1>5, <1>6, MoveKeeps

LEMMA RefuseStep ==
    ASSUME Inv, NEW h \in handlers, Refuse(h)
    PROVE  Inv'
  <1>1. /\ sessions' \in [1 .. next_session_id - 1 -> Session] /\ MutexesOfOthers(h)
        /\ next_session_id' = next_session_id
    BY TableSame DEF Refuse, table
  <1>2. QED BY <1>1, CallerTyped, ReturnKeeps DEF Refuse

\* At the engine: Prefill before it, Draft behind it.
LEMMA AtEngineStep ==
    ASSUME Inv, NEW h \in handlers, Announce(h) \/ Judge(h)
    PROVE  Inv'
  <1>1. /\ sessions' = sessions /\ next_session_id' = next_session_id
        /\ AtEngine(h) /\ h.at \notin {"create", "insert"}
    BY DEF Announce, Judge, table, AtEngine
  <1>2. sessions' \in [1 .. next_session_id - 1 -> Session] /\ MutexesOfOthers(h)
    BY <1>1, TableSame
  <1>3. PICK g \in Handler : To(h, g) /\ g.id = h.id /\ g.sid = h.sid
    <2>1. CASE Announce(h)
      <3>1. [h EXCEPT !.at = "ingest"] \in Handler
        BY CallerTyped DEF Handler, Place
      <3>2. [h EXCEPT !.at = "ingest"].id = h.id /\ [h EXCEPT !.at = "ingest"].sid = h.sid
        BY CallerTyped DEF Handler
      <3>3. QED BY <2>1, <3>1, <3>2 DEF Announce
    <2>2. CASE Judge(h)
      <3>1. PICK block \in BoundedSeq(Token, BlockSize) :
               To(h, [h EXCEPT !.at = "preview", !.block = block])
        BY <2>2 DEF Judge
      <3>2. block \in Seq(Token)
        BY ServiceAssumption DEF BoundedSeq, SeqOf
      <3>3. /\ [h EXCEPT !.at = "preview", !.block = block] \in Handler
            /\ [h EXCEPT !.at = "preview", !.block = block].id = h.id
            /\ [h EXCEPT !.at = "preview", !.block = block].sid = h.sid
        BY <3>2, CallerTyped DEF Handler, Place
      <3>4. QED BY <3>1, <3>3
    <2>3. QED BY <2>1, <2>2
  <1>4. h.sid \in 1 .. next_session_id - 1 /\ sessions[h.sid].mtx = h.id
    BY <1>1 DEF Inv, Located, Holding
  <1>5. QED BY <1>1, <1>2, <1>3, <1>4, MoveKeeps

\* Leaving the engine.
LEMMA UnlockKeeps ==
    ASSUME Inv, NEW h \in handlers, AtEngine(h), NEW session \in Session,
           session.mtx = Free, sessions' = [sessions EXCEPT ![h.sid] = session]
    PROVE  sessions' \in [1 .. next_session_id - 1 -> Session] /\ MutexesOfOthers(h)
  <1>1. /\ h.sid \in 1 .. next_session_id - 1 /\ sessions[h.sid].mtx = h.id
        /\ sessions \in [1 .. next_session_id - 1 -> Session]
    BY DEF Inv, Located, Holding, Typed, AtEngine
  <1>2. QED BY <1>1 DEF MutexesOfOthers

LEMMA LeaveStep ==
    ASSUME Inv, NEW h \in handlers, Ingest(h) \/ Preview(h)
    PROVE  Inv'
  <1> DEFINE session == [sessions[h.sid] EXCEPT !.mtx = Free]
  <1>1. /\ AtEngine(h) /\ next_session_id' = next_session_id
        /\ sessions' = [sessions EXCEPT ![h.sid] = session]
    BY DEF Ingest, Preview, Unlock, AtEngine
  <1>2. sessions[h.sid] \in Session
    BY <1>1 DEF Inv, Located, Typed, AtEngine
  <1>3. session \in Session /\ session.mtx = Free
    BY <1>2 DEF Session
  <1> HIDE DEF session
  <1>4. sessions' \in [1 .. next_session_id - 1 -> Session] /\ MutexesOfOthers(h)
    BY <1>1, <1>3, UnlockKeeps
  <1>5. CASE Ingest(h)
    BY <1>1, <1>4, <1>5, CallerTyped, ReturnKeeps DEF Ingest
  <1>6. CASE Preview(h)
    <2> DEFINE server == [Caller(h) EXCEPT !.block = h.block]
    <2>1. Return(h, server) /\ server \in ServerState
      BY <1>6, CallerTyped DEF Preview
    <2>2. /\ server.sid = Caller(h).sid /\ server.next = Caller(h).next
          /\ server.calls = Caller(h).calls
      BY CallerTyped DEF ServerState
    <2> HIDE DEF server
    <2>3. QED BY <1>1, <1>4, <2>1, <2>2, ReturnKeeps
  <1>7. QED BY <1>5, <1>6

LEMMA ResetEngineStep ==
    ASSUME Inv, NEW h \in handlers, ResetEngine(h)
    PROVE  Inv'
  <1> DEFINE g == [h EXCEPT !.at = "signal"]
  <1>1. /\ AtEngine(h) /\ next_session_id' = next_session_id
        /\ sessions' = [sessions EXCEPT ![h.sid] = NewSession]
        /\ To(h, g)
    BY DEF ResetEngine, AtEngine
  <1>2. NewSession \in Session /\ NewSession.mtx = Free
    BY DEF NewSession, Session
  <1>3. sessions' \in [1 .. next_session_id - 1 -> Session] /\ MutexesOfOthers(h)
    BY <1>1, <1>2, UnlockKeeps
  <1>4. g \in Handler /\ g.id = h.id /\ g.sid = h.sid /\ g.at = "signal"
    BY CallerTyped DEF Handler, Place
  <1>5. ~AtEngine(g) /\ g.sid \in 1 .. next_session_id - 1
    BY <1>1, <1>4 DEF AtEngine, Inv, Located
  <1> HIDE DEF g
  <1>6. QED BY <1>1, <1>3, <1>4, <1>5, MoveKeeps

LEMMA SignalStep ==
    ASSUME Inv, NEW h \in handlers, Signal(h)
    PROVE  Inv'
  <1>1. /\ sessions' \in [1 .. next_session_id - 1 -> Session] /\ MutexesOfOthers(h)
        /\ next_session_id' = next_session_id
    BY TableSame DEF Signal
  <1>2. QED BY <1>1, CallerTyped, ReturnKeeps DEF Signal
\* A server that waits for nothing makes a call, under an id of its own.
LEMMA IssueKeeps ==
    ASSUME Inv, NEW s \in Server, NEW kind \in Kind, NEW tokens \in Seq(Token),
           NEW server \in ServerState, Issue(s, kind, tokens, server),
           server.sid = servers[s].sid, server.calls = servers[s].calls,
           kind # "InitSession" \/ server.next \in {"Prefill", "Draft"} => server.sid # 0
    PROVE  Inv'
  <1> DEFINE n == servers[s].calls + 1
             after == [server EXCEPT !.calls = @ + 1, !.waiting = TRUE, !.block = << >>]
             h == [id |-> <<s, n>>, kind |-> kind, sid |-> server.sid, step_id |-> server.step_id,
                   tokens |-> tokens, block |-> << >>,
                   at |-> IF kind = "InitSession" THEN "create" ELSE "find"]
  <1>1. /\ servers' = [servers EXCEPT ![s] = after]
        /\ handlers' = handlers \cup {h}
        /\ sessions' = sessions /\ next_session_id' = next_session_id
    BY DEF Issue, table
  <1>2. /\ next_session_id \in Nat \ {0} /\ sessions \in [1 .. next_session_id - 1 -> Session]
        /\ servers \in [Server -> ServerState] /\ handlers \subseteq Handler
    BY DEF Inv, Typed
  <1>3. servers[s].calls \in Nat /\ servers[s].sid \in Nat /\ servers[s].sid < next_session_id
    BY <1>2 DEF ServerState, Inv, Known
  <1>4. << >> \in Seq(Token)
    OBVIOUS
  <1>5. /\ after \in ServerState
        /\ after.sid = servers[s].sid /\ after.next = server.next /\ after.calls = n
    <2>1. n \in Nat /\ server.calls + 1 = n
      BY <1>3
    <2>2. after = [server EXCEPT !.calls = n, !.waiting = TRUE, !.block = << >>]
      BY <2>1
    <2> HIDE DEF n, after
    <2>3. QED BY <1>4, <2>1, <2>2 DEF ServerState
  <1>6. <<s, n>> \in CallId /\ <<s, n>>[1] = s /\ <<s, n>>[2] = n
    BY <1>3 DEF CallId
  <1>7. /\ h \in Handler /\ h.id = <<s, n>> /\ h.sid = servers[s].sid
        /\ h.at = IF kind = "InitSession" THEN "create" ELSE "find"
    BY <1>4, <1>6 DEF Handler, Place, Kind, ServerState
  <1>8. ~AtEngine(h) /\ (h.at \notin {"create", "insert"} => h.sid \in 1 .. next_session_id - 1)
    BY <1>3, <1>2, <1>7 DEF AtEngine
  <1> HIDE DEF after, h
  <1>9. \A t \in Server :
           /\ servers'[t].sid = servers[t].sid
           /\ IF t = s THEN servers'[t] = after ELSE servers'[t] = servers[t]
    BY <1>1, <1>2, <1>5
  <1>10. Typed'
    BY <1>1, <1>2, <1>5, <1>7 DEF Typed
  <1>11. Known'
    BY <1>1, <1>5, <1>9 DEF Inv, Known
  <1>12. SessionsUnshared'
    BY <1>9 DEF Inv, SessionsUnshared
  <1>13. \A g \in handlers : /\ g.id[1] \in Server /\ g.id[2] \in Nat
                             /\ g.id[2] <= servers'[g.id[1]].calls /\ g.id # <<s, n>>
    <2> SUFFICES ASSUME NEW g \in handlers
                 PROVE  /\ g.id[1] \in Server /\ g.id[2] \in Nat
                        /\ g.id[2] <= servers'[g.id[1]].calls /\ g.id # <<s, n>>
      OBVIOUS
    <2>1. g.id[1] \in Server /\ g.id[2] \in Nat /\ g.id[2] <= servers[g.id[1]].calls
      BY <1>2 DEF Handler, CallId, Inv, Numbered
    <2>2. QED BY <1>3, <1>5, <1>6, <1>9, <2>1
  <1>14. Numbered'
    <2>1. h.id[2] <= servers'[h.id[1]].calls
      BY <1>3, <1>5, <1>6, <1>7, <1>9
    <2>2. QED BY <1>1, <1>7, <1>13, <2>1 DEF Inv, Numbered
  <1>15. Located'
    BY <1>1, <1>8 DEF Inv, Located
  <1>16. Holding'
    <2> SUFFICES ASSUME NEW g \in handlers, AtEngine(g)
                 PROVE  sessions'[g.sid].mtx = g.id
      BY <1>1, <1>8 DEF Holding, AtEngine
    <2>1. QED BY <1>1 DEF Inv, Holding
  <1>17. QED BY <1>10, <1>11, <1>12, <1>14, <1>15, <1>16 DEF Inv

\* What a call is, whichever it is.
Issues(s, kind, tokens, server) ==
    /\ kind \in Kind /\ tokens \in Seq(Token) /\ server \in ServerState
    /\ Issue(s, kind, tokens, server)
    /\ server.sid = servers[s].sid /\ server.calls = servers[s].calls
    /\ kind # "InitSession" \/ server.next \in {"Prefill", "Draft"} => server.sid # 0
    /\ kind = "Prefill" => servers[s].next = "Prefill"
    /\ server.next = "Prefill" => kind = "Reset"

LEMMA CallIssues ==
    ASSUME Inv, NEW s \in Server, Call(s)
    PROVE  \E kind, tokens, server : Issues(s, kind, tokens, server)
  <1>1. /\ servers[s] \in ServerState
        /\ servers[s].next \in {"Prefill", "Draft"} => servers[s].sid # 0
    BY DEF Inv, Typed, Known
  <1>2. << >> \in Seq(Token) /\ \A t \in Token : <<t>> \in Seq(Token)
    OBVIOUS
  <1>3. CASE CallInit(s)
    <2> DEFINE server == [servers[s] EXCEPT !.next = "none"]
    <2>1. /\ server \in ServerState /\ server.sid = servers[s].sid
          /\ server.calls = servers[s].calls /\ server.next = "none"
      BY <1>1 DEF ServerState
    <2>2. Issue(s, "InitSession", << >>, server) /\ "InitSession" \in Kind
      BY <1>3 DEF CallInit, Kind
    <2> HIDE DEF server
    <2>3. Issues(s, "InitSession", << >>, server)
      BY <1>2, <2>1, <2>2 DEF Issues
    <2>4. QED BY <2>3
  <1>4. CASE CallReset(s)
    <2> DEFINE server == [servers[s] EXCEPT !.next = "Prefill", !.step_id = 0]
    <2>1. /\ server \in ServerState /\ server.sid = servers[s].sid
          /\ server.calls = servers[s].calls /\ servers[s].sid # 0
      BY <1>1, <1>4 DEF ServerState, Kind, CallReset
    <2>2. Issue(s, "Reset", << >>, server) /\ "Reset" \in Kind
      BY <1>4 DEF CallReset, Kind
    <2> HIDE DEF server
    <2>3. Issues(s, "Reset", << >>, server)
      BY <1>2, <2>1, <2>2 DEF Issues
    <2>4. QED BY <2>3
  <1>5. CASE CallPrefill(s)
    <2>1. PICK t \in Token, anchor \in Token :
             Issue(s, "Prefill", <<t>>, [servers[s] EXCEPT !.next = "Draft", !.anchor = <<anchor>>])
      BY <1>5 DEF CallPrefill
    <2> DEFINE server == [servers[s] EXCEPT !.next = "Draft", !.anchor = <<anchor>>]
    <2>2. /\ server \in ServerState /\ server.sid = servers[s].sid
          /\ server.calls = servers[s].calls /\ servers[s].sid # 0
          /\ servers[s].next = "Prefill" /\ server.next = "Draft"
      BY <1>1, <1>2, <1>5 DEF ServerState, Kind, CallPrefill
    <2>3. "Prefill" \in Kind /\ <<t>> \in Seq(Token)
      BY <1>2 DEF Kind
    <2>4. Issue(s, "Prefill", <<t>>, server)
      BY <2>1
    <2> HIDE DEF server
    <2>5. Issues(s, "Prefill", <<t>>, server)
      BY <2>2, <2>3, <2>4 DEF Issues
    <2>6. QED BY <2>5
  <1>6. CASE CallDraft(s)
    <2> DEFINE last == servers[s]
               block == last.block
    <2>1. "Draft" \in Kind /\ last.next = "Draft" /\ last.sid # 0
      BY <1>1, <1>6 DEF Kind, CallDraft
    <2>2. CASE last.step_id = 0
      <3> DEFINE server == [last EXCEPT !.step_id = 1]
      <3>1. Issue(s, "Draft", << >>, server)
        BY <1>6, <2>2 DEF CallDraft
      <3>2. /\ server \in ServerState /\ server.sid = last.sid /\ server.calls = last.calls
            /\ server.next = last.next
        BY <1>1 DEF ServerState
      <3> HIDE DEF server
      <3>3. Issues(s, "Draft", << >>, server)
        BY <1>2, <2>1, <3>1, <3>2 DEF Issues
      <3>4. QED BY <3>3
    <2>3. CASE last.step_id # 0
      <3>1. PICK k \in 0 .. Len(block), anchor \in Token :
               Issue(s, "Draft", last.anchor \o SubSeq(block, 1, k),
                     [last EXCEPT !.step_id = @ + 1, !.anchor = <<anchor>>])
        BY <1>6, <2>3 DEF CallDraft
      <3> DEFINE server == [last EXCEPT !.step_id = @ + 1, !.anchor = <<anchor>>]
                 tokens == last.anchor \o SubSeq(block, 1, k)
      <3>2. /\ server \in ServerState /\ server.sid = last.sid /\ server.calls = last.calls
            /\ server.next = last.next
        <4> DEFINE next == last.step_id + 1
        <4>1. next \in Nat /\ server = [last EXCEPT !.step_id = next, !.anchor = <<anchor>>]
          BY <1>1 DEF ServerState
        <4> HIDE DEF next, server
        <4>2. QED BY <1>1, <1>2, <4>1 DEF ServerState
      <3>3. tokens \in Seq(Token)
        <4>1. last.anchor \in Seq(Token) /\ block \in Seq(Token)
          BY <1>1 DEF ServerState
        <4>2. SubSeq(block, 1, k) \in Seq(Token)
          BY <4>1
        <4>3. QED BY <4>1, <4>2
      <3>4. Issue(s, "Draft", tokens, server)
        BY <3>1
      <3> HIDE DEF server, tokens
      <3>5. Issues(s, "Draft", tokens, server)
        BY <2>1, <3>2, <3>3, <3>4 DEF Issues
      <3>6. QED BY <3>5
    <2>4. QED BY <2>2, <2>3
  <1>7. QED BY <1>3, <1>4, <1>5, <1>6 DEF Call

LEMMA CallStep ==
    ASSUME Inv, NEW s \in Server, Call(s)
    PROVE  Inv'
  <1>1. PICK kind, tokens, server : Issues(s, kind, tokens, server)
    BY CallIssues
  <1>2. QED BY <1>1, IssueKeeps DEF Issues

\* A server that gives a call up only stops to wait.
LEMMA AbandonStep ==
    ASSUME Inv, NEW s \in Server, Abandon(s)
    PROVE  Inv'
  <1>1. /\ UNCHANGED <<sessions, next_session_id, handlers>>
        /\ servers' = [servers EXCEPT ![s].waiting = FALSE]
    BY DEF Abandon, table
  <1>2. servers \in [Server -> ServerState]
    BY DEF Inv, Typed
  <1>3. /\ servers' \in [Server -> ServerState]
        /\ \A t \in Server : /\ servers'[t].sid = servers[t].sid
                             /\ servers'[t].next = servers[t].next
                             /\ servers'[t].calls = servers[t].calls
    BY <1>1, <1>2 DEF ServerState
  <1>4. Typed' /\ Known' /\ SessionsUnshared' /\ Located' /\ Holding'
    BY <1>1, <1>3 DEF Inv, Typed, Known, SessionsUnshared, Located, Holding
  <1>5. Numbered'
    BY <1>1, <1>3 DEF Inv, Typed, Numbered, Handler, CallId
  <1>6. QED BY <1>4, <1>5 DEF Inv

\* What the locks, the handlers and the servers keep, they all keep.
LEMMA OtherStep ==
    ASSUME Inv, UNCHANGED <<sessions, next_session_id, handlers, servers>>
    PROVE  Inv'
  BY DEF Inv, Typed, Known, Numbered, Located, Holding, SessionsUnshared

LEMMA NextStep ==
    ASSUME Inv, [Next]_vars
    PROVE  Inv'
  <1>1. ASSUME NEW s \in Server, Call(s) \/ Abandon(s) PROVE Inv'
    BY <1>1, CallStep, AbandonStep
  <1>2. ASSUME NEW h \in handlers, Handle(h) PROVE Inv'
    BY <1>2, CreateStep, InsertStep, FindStep, LockSessionStep, RefuseStep, AtEngineStep,
       LeaveStep, ResetEngineStep, SignalStep DEF Handle
  <1>3. CASE Draw \/ UNCHANGED vars
    BY <1>3, OtherStep DEF Draw, vars, table, client
  <1>4. QED BY <1>1, <1>2, <1>3 DEF Next

LEMMA InitStep == Init => Inv
  <1> SUFFICES ASSUME Init PROVE Inv
    OBVIOUS
  <1>1. NewServer \in ServerState /\ NewServer.sid = 0 /\ NewServer.next = "InitSession"
    BY DEF NewServer, ServerState, Kind
  <1>2. /\ sessions = << >> /\ next_session_id = 1 /\ handlers = {}
        /\ servers = [s \in Server |-> NewServer]
    BY DEF Init
  <1>3. sessions \in [1 .. next_session_id - 1 -> Session]
    BY <1>2
  <1>4. Typed
    BY <1>1, <1>2, <1>3 DEF Typed
  <1>5. Known /\ SessionsUnshared
    BY <1>1, <1>2 DEF Known, SessionsUnshared
  <1>6. Numbered /\ Located /\ Holding
    BY <1>2 DEF Numbered, Located, Holding
  <1>7. QED BY <1>4, <1>5, <1>6 DEF Inv

-----------------------------------------------------------------------------
(* Theorems.                                                               *)

\* The invariant holds always.
THEOREM Inductive == Spec => []Inv
  <1>1. Init => Inv
    BY InitStep
  <1>2. Inv /\ [Next]_vars => Inv'
    BY NextStep
  <1>3. QED BY <1>1, <1>2, PTL DEF Spec

\* One handler at a time is at a session's engine, whatever calls are
\* abandoned and however many servers call (the mutexes of grpc_service.cpp).
THEOREM OneAtEngine == Spec => []EngineExclusive
  <1>1. Inv => EngineExclusive
    BY DEF Inv, Holding, Numbered, EngineExclusive
  <1>2. QED BY <1>1, Inductive, PTL

\* No two servers are given one session, however their handshakes interleave.
THEOREM SessionsApart == Spec => []SessionsUnshared
  <1>1. Inv => SessionsUnshared
    BY DEF Inv
  <1>2. QED BY <1>1, Inductive, PTL

-----------------------------------------------------------------------------
(* Nobody waits for ever: who holds a mutex is still here, and the one at  *)
(* an engine waits for nothing.                                            *)

\* A call that looks a session up or waits for it is not a handshake.
Called == \A h \in handlers : h.at \in {"find", "lock"} => h.kind # "InitSession"

\* Only a Reset keeps the table, until it has told the renderer.
KeepsTable(h) == h.kind = "Reset" /\ h.at \in {"lock", "Reset", "signal"}

\* Who holds a mutex is a call still being handled, at a place from which it
\* gives the mutex back.
TableHeld == sessions_mtx # Free => \E h \in handlers : h.id = sessions_mtx /\ KeepsTable(h)

SessionsHeld ==
    \A i \in 1 .. next_session_id - 1 :
       sessions[i].mtx # Free => \E h \in handlers : AtEngine(h) /\ h.sid = i /\ h.id = sessions[i].mtx

Held == Called /\ TableHeld /\ SessionsHeld

\* The mutex that the handler is about to take, if any, is free.  Nothing else
\* can keep a handler from its next step: engine and renderer wait for nobody.
MayGoOn(h) ==
    /\ h.at \in {"insert", "find"} => sessions_mtx = Free
    /\ h.at = "lock" => sessions[h.sid].mtx = Free

SomeoneGoesOn == handlers # {} => \E h \in handlers : MayGoOn(h)

\* h goes on as g and takes and gives back nothing.
LEMMA MoveHeld ==
    ASSUME Held, NEW h \in handlers, NEW g, To(h, g), g.id = h.id, g.sid = h.sid,
           UNCHANGED table, ~KeepsTable(h), AtEngine(h) => AtEngine(g),
           g.at \notin {"find", "lock"}
    PROVE  Held'
  <1>1. /\ handlers' = (handlers \ {h}) \cup {g}
        /\ sessions' = sessions /\ next_session_id' = next_session_id /\ sessions_mtx' = sessions_mtx
    BY DEF To, table
  <1>2. Called'
    BY <1>1 DEF Held, Called
  <1>3. TableHeld'
    BY <1>1 DEF Held, TableHeld, KeepsTable
  <1>4. SessionsHeld'
    <2> SUFFICES ASSUME NEW i \in 1 .. next_session_id - 1, sessions[i].mtx # Free
                 PROVE  \E f \in handlers' : AtEngine(f) /\ f.sid = i /\ f.id = sessions[i].mtx
      BY <1>1 DEF SessionsHeld, AtEngine
    <2>1. PICK f \in handlers : AtEngine(f) /\ f.sid = i /\ f.id = sessions[i].mtx
      BY DEF Held, SessionsHeld
    <2>2. CASE f = h
      BY <1>1, <2>1, <2>2
    <2>3. CASE f # h
      BY <1>1, <2>1, <2>3
    <2>4. QED BY <2>2, <2>3
  <1>5. QED BY <1>2, <1>3, <1>4 DEF Held

\* h returns and held nothing.
LEMMA ReturnHeld ==
    ASSUME Held, NEW h \in handlers, handlers' = handlers \ {h},
           UNCHANGED <<sessions, next_session_id, sessions_mtx>>, ~KeepsTable(h), ~AtEngine(h)
    PROVE  Held'
  <1>1. Called'
    BY DEF Held, Called
  <1>2. TableHeld'
    BY DEF Held, TableHeld, KeepsTable
  <1>3. SessionsHeld'
    <2> SUFFICES ASSUME NEW i \in 1 .. next_session_id - 1, sessions[i].mtx # Free
                 PROVE  \E f \in handlers' : AtEngine(f) /\ f.sid = i /\ f.id = sessions[i].mtx
      BY DEF SessionsHeld, AtEngine
    <2>1. PICK f \in handlers : AtEngine(f) /\ f.sid = i /\ f.id = sessions[i].mtx
      BY DEF Held, SessionsHeld
    <2>2. f # h
      BY <2>1
    <2>3. QED BY <2>1, <2>2
  <1>4. QED BY <1>1, <1>2, <1>3 DEF Held

LEMMA CreateHeld ==
    ASSUME Inv, Held, NEW h \in handlers, Create(h)
    PROVE  Held'
  <1>1. UNCHANGED table /\ ~AtEngine(h) /\ ~KeepsTable(h)
    BY DEF Create, AtEngine, KeepsTable
  <1>2. CASE To(h, [h EXCEPT !.at = "insert"])
    <2> DEFINE g == [h EXCEPT !.at = "insert"]
    <2>1. g.id = h.id /\ g.sid = h.sid /\ g.at = "insert"
      BY CallerTyped DEF Handler
    <2>2. To(h, g)
      BY <1>2
    <2> HIDE DEF g
    <2>3. QED BY <1>1, <2>1, <2>2, MoveHeld
  <1>3. CASE Return(h, Caller(h))
    BY <1>1, <1>3, ReturnHeld DEF Return, table
  <1>4. QED BY <1>2, <1>3 DEF Create

\* The new session is nobody's.
LEMMA InsertHeld ==
    ASSUME Inv, Held, NEW h \in handlers, Insert(h)
    PROVE  Held'
  <1> DEFINE n == next_session_id
  <1>1. /\ sessions' = [i \in DOMAIN sessions \cup {n} |-> IF i = n THEN NewSession ELSE sessions[i]]
        /\ next_session_id' = n + 1 /\ sessions_mtx' = sessions_mtx
        /\ handlers' = handlers \ {h} /\ ~AtEngine(h) /\ ~KeepsTable(h)
    BY DEF Insert, Stored, Return, AtEngine, KeepsTable
  <1>2. n \in Nat \ {0} /\ DOMAIN sessions = 1 .. n - 1
    BY DEF Inv, Typed
  <1>3. Called'
    BY <1>1 DEF Held, Called
  <1>4. TableHeld'
    BY <1>1 DEF Held, TableHeld, KeepsTable
  <1>5. SessionsHeld'
    <2> SUFFICES ASSUME NEW i \in 1 .. n, sessions'[i].mtx # Free
                 PROVE  \E f \in handlers' : AtEngine(f) /\ f.sid = i /\ f.id = sessions'[i].mtx
      <3>1. 1 .. next_session_id' - 1 = 1 .. n
        BY <1>1, <1>2
      <3> HIDE DEF n
      <3>2. QED BY <3>1 DEF SessionsHeld, AtEngine
    <2>1. sessions'[i] = IF i = n THEN NewSession ELSE sessions[i]
      BY <1>1, <1>2
    <2>2. i # n
      BY <2>1 DEF NewSession
    <2>3. i \in 1 .. n - 1 /\ sessions'[i] = sessions[i]
      BY <1>2, <2>1, <2>2
    <2>4. PICK f \in handlers : AtEngine(f) /\ f.sid = i /\ f.id = sessions[i].mtx
      BY <2>3 DEF Held, SessionsHeld
    <2>5. f # h
      BY <1>1, <2>4
    <2>6. QED BY <1>1, <2>3, <2>4, <2>5
  <1>6. QED BY <1>3, <1>4, <1>5 DEF Held

\* A Reset takes the table here.
LEMMA FindHeld ==
    ASSUME Inv, Held, NEW h \in handlers, Find(h)
    PROVE  Held'
  <1> DEFINE g == [h EXCEPT !.at = "lock"]
  <1>1. g.id = h.id /\ g.kind = h.kind /\ g.at = "lock"
    BY CallerTyped DEF Handler
  <1> HIDE DEF g
  <1>2. /\ handlers' = (handlers \ {h}) \cup {g}
        /\ sessions' = sessions /\ next_session_id' = next_session_id
        /\ sessions_mtx' = IF h.kind = "Reset" THEN h.id ELSE Free
        /\ h.at = "find" /\ ~AtEngine(h)
    BY DEF Find, To, g, AtEngine
  <1>3. Called'
    BY <1>1, <1>2 DEF Held, Called
  <1>4. TableHeld'
    <2>1. CASE h.kind = "Reset"
      BY <1>1, <1>2, <2>1 DEF TableHeld, KeepsTable
    <2>2. CASE h.kind # "Reset"
      BY <1>2, <2>2 DEF TableHeld
    <2>3. QED BY <2>1, <2>2
  <1>5. SessionsHeld'
    <2> SUFFICES ASSUME NEW i \in 1 .. next_session_id - 1, sessions[i].mtx # Free
                 PROVE  \E f \in handlers' : AtEngine(f) /\ f.sid = i /\ f.id = sessions[i].mtx
      BY <1>2 DEF SessionsHeld, AtEngine
    <2>1. PICK f \in handlers : AtEngine(f) /\ f.sid = i /\ f.id = sessions[i].mtx
      BY DEF Held, SessionsHeld
    <2>2. f # h
      BY <1>2, <2>1
    <2>3. QED BY <1>2, <2>1, <2>2
  <1>6. QED BY <1>3, <1>4, <1>5 DEF Held

\* A handler takes a session, a Reset also while it keeps the table.
LEMMA LockSessionHeld ==
    ASSUME Inv, Held, NEW h \in handlers, LockSession(h)
    PROVE  Held'
  <1> DEFINE g == [h EXCEPT !.at = h.kind]
             session == [sessions[h.sid] EXCEPT !.mtx = h.id,
                                                !.last_step_id = IF h.kind = "Draft" THEN h.step_id ELSE @]
  <1>1. /\ g.id = h.id /\ g.sid = h.sid /\ g.kind = h.kind /\ g.at = h.kind
        /\ h.kind \in Kind /\ h.kind # "InitSession"
    BY CallerTyped DEF Handler, LockSession, Held, Called
  <1>2. h.sid \in 1 .. next_session_id - 1 /\ sessions \in [1 .. next_session_id - 1 -> Session]
    BY DEF LockSession, Inv, Located, Typed
  <1>3. session.mtx = h.id
    BY <1>2 DEF Session
  <1> HIDE DEF g, session
  <1>4. /\ sessions' = [sessions EXCEPT ![h.sid] = session]
        /\ handlers' = (handlers \ {h}) \cup {g}
        /\ next_session_id' = next_session_id /\ sessions_mtx' = sessions_mtx
        /\ h.at = "lock"
    BY DEF LockSession, To, g, session
  <1>5. AtEngine(g) /\ ~AtEngine(h) /\ (KeepsTable(h) => KeepsTable(g))
    BY <1>1, <1>4 DEF AtEngine, KeepsTable, Kind
  <1>6. Called'
    BY <1>1, <1>4 DEF Held, Called, Kind
  <1>7. TableHeld'
    <2> SUFFICES ASSUME sessions_mtx # Free
                 PROVE  \E f \in handlers' : f.id = sessions_mtx /\ KeepsTable(f)
      BY <1>4 DEF TableHeld, KeepsTable
    <2>1. PICK f \in handlers : f.id = sessions_mtx /\ KeepsTable(f)
      BY DEF Held, TableHeld
    <2>2. CASE f = h
      BY <1>1, <1>4, <1>5, <2>1, <2>2
    <2>3. CASE f # h
      BY <1>4, <2>1, <2>3
    <2>4. QED BY <2>2, <2>3
  <1>8. SessionsHeld'
    <2> SUFFICES ASSUME NEW i \in 1 .. next_session_id - 1, sessions'[i].mtx # Free
                 PROVE  \E f \in handlers' : AtEngine(f) /\ f.sid = i /\ f.id = sessions'[i].mtx
      BY <1>4 DEF SessionsHeld, AtEngine
    <2>1. CASE i = h.sid
      <3>1. sessions'[i].mtx = h.id
        BY <1>2, <1>3, <1>4, <2>1
      <3>2. QED BY <1>1, <1>4, <1>5, <2>1, <3>1
    <2>2. CASE i # h.sid
      <3>1. sessions'[i] = sessions[i]
        BY <1>2, <1>4, <2>2
      <3>2. PICK f \in handlers : AtEngine(f) /\ f.sid = i /\ f.id = sessions[i].mtx
        BY <3>1 DEF Held, SessionsHeld
      <3>3. f # h
        BY <1>5, <3>2
      <3>4. QED BY <1>4, <3>1, <3>2, <3>3
    <2>3. QED BY <2>1, <2>2
  <1>9. QED BY <1>6, <1>7, <1>8 DEF Held

\* The holder of the table is a Reset, so a refused Draft is not.
LEMMA RefuseHeld ==
    ASSUME Held, NEW h \in handlers, Refuse(h)
    PROVE  Held'
  <1>1. /\ ~AtEngine(h) /\ ~KeepsTable(h) /\ handlers' = handlers \ {h}
        /\ UNCHANGED <<sessions, next_session_id, sessions_mtx>>
    BY DEF Refuse, Stale, Return, table, AtEngine, KeepsTable
  <1>2. QED BY <1>1, ReturnHeld

LEMMA AtEngineHeld ==
    ASSUME Inv, Held, NEW h \in handlers, Announce(h) \/ Judge(h)
    PROVE  Held'
  <1>1. UNCHANGED table /\ ~KeepsTable(h)
    BY DEF Announce, Judge, KeepsTable
  <1>2. CASE Announce(h)
    <2> DEFINE g == [h EXCEPT !.at = "ingest"]
    <2>1. g.id = h.id /\ g.sid = h.sid /\ g.at = "ingest"
      BY CallerTyped DEF Handler
    <2>2. To(h, g)
      BY <1>2 DEF Announce
    <2> HIDE DEF g
    <2>3. AtEngine(g) /\ g.at \notin {"find", "lock"}
      BY <2>1 DEF AtEngine
    <2>4. QED BY <1>1, <2>1, <2>2, <2>3, MoveHeld
  <1>3. CASE Judge(h)
    <2>1. PICK block \in BoundedSeq(Token, BlockSize) :
             To(h, [h EXCEPT !.at = "preview", !.block = block])
      BY <1>3 DEF Judge
    <2> DEFINE g == [h EXCEPT !.at = "preview", !.block = block]
    <2>2. g.id = h.id /\ g.sid = h.sid /\ g.at = "preview"
      BY CallerTyped DEF Handler
    <2>3. To(h, g)
      BY <2>1
    <2> HIDE DEF g
    <2>4. AtEngine(g) /\ g.at \notin {"find", "lock"}
      BY <2>2 DEF AtEngine
    <2>5. QED BY <1>1, <2>2, <2>3, <2>4, MoveHeld
  <1>4. QED BY <1>2, <1>3

\* A handler that gives its session back was the only one to hold it.
LEMMA UnlockHeld ==
    ASSUME Inv, Held, NEW h \in handlers, AtEngine(h), NEW session, session.mtx = Free,
           sessions' = [sessions EXCEPT ![h.sid] = session],
           next_session_id' = next_session_id, handlers \ {h} \subseteq handlers'
    PROVE  SessionsHeld'
  <1>1. h.sid \in 1 .. next_session_id - 1 /\ sessions \in [1 .. next_session_id - 1 -> Session]
    BY DEF Inv, Located, Typed, AtEngine
  <1> SUFFICES ASSUME NEW i \in 1 .. next_session_id - 1, sessions'[i].mtx # Free
               PROVE  \E f \in handlers' : AtEngine(f) /\ f.sid = i /\ f.id = sessions'[i].mtx
    BY DEF SessionsHeld, AtEngine
  <1>2. i # h.sid /\ sessions'[i] = sessions[i]
    BY <1>1
  <1>3. PICK f \in handlers : AtEngine(f) /\ f.sid = i /\ f.id = sessions[i].mtx
    BY <1>2 DEF Held, SessionsHeld
  <1>4. f # h
    BY <1>2, <1>3
  <1>5. QED BY <1>2, <1>3, <1>4

LEMMA LeaveHeld ==
    ASSUME Inv, Held, NEW h \in handlers, Ingest(h) \/ Preview(h)
    PROVE  Held'
  <1> DEFINE session == [sessions[h.sid] EXCEPT !.mtx = Free]
  <1>1. /\ AtEngine(h) /\ ~KeepsTable(h) /\ handlers' = handlers \ {h}
        /\ next_session_id' = next_session_id /\ sessions_mtx' = sessions_mtx
        /\ sessions' = [sessions EXCEPT ![h.sid] = session]
    BY DEF Ingest, Preview, Unlock, Return, AtEngine, KeepsTable
  <1>2. sessions[h.sid] \in Session
    BY <1>1 DEF Inv, Located, Typed, AtEngine
  <1>3. session.mtx = Free
    BY <1>2 DEF Session
  <1> HIDE DEF session
  <1>4. SessionsHeld'
    BY <1>1, <1>3, UnlockHeld
  <1>5. Called'
    BY <1>1 DEF Held, Called
  <1>6. TableHeld'
    BY <1>1 DEF Held, TableHeld, KeepsTable
  <1>7. QED BY <1>4, <1>5, <1>6 DEF Held

\* A Reset gives the session back before the table ...
LEMMA ResetEngineHeld ==
    ASSUME Inv, Held, NEW h \in handlers, ResetEngine(h)
    PROVE  Held'
  <1> DEFINE g == [h EXCEPT !.at = "signal"]
  <1>1. g.id = h.id /\ g.kind = h.kind /\ g.at = "signal"
    BY CallerTyped DEF Handler
  <1> HIDE DEF g
  <1>2. /\ AtEngine(h) /\ h.at = "Reset" /\ handlers' = (handlers \ {h}) \cup {g}
        /\ next_session_id' = next_session_id /\ sessions_mtx' = sessions_mtx
        /\ sessions' = [sessions EXCEPT ![h.sid] = NewSession] /\ NewSession.mtx = Free
    BY DEF ResetEngine, To, AtEngine, NewSession, g
  <1>3. SessionsHeld'
    BY <1>2, UnlockHeld
  <1>4. Called'
    BY <1>1, <1>2 DEF Held, Called
  <1>5. TableHeld'
    <2> SUFFICES ASSUME sessions_mtx # Free
                 PROVE  \E f \in handlers' : f.id = sessions_mtx /\ KeepsTable(f)
      BY <1>2 DEF TableHeld, KeepsTable
    <2>1. PICK f \in handlers : f.id = sessions_mtx /\ KeepsTable(f)
      BY DEF Held, TableHeld
    <2>2. CASE f = h
      BY <1>1, <1>2, <2>1, <2>2 DEF KeepsTable
    <2>3. CASE f # h
      BY <1>2, <2>1, <2>3
    <2>4. QED BY <2>2, <2>3
  <1>6. QED BY <1>3, <1>4, <1>5 DEF Held

\* ... and the table once it has told the renderer.
LEMMA SignalHeld ==
    ASSUME Held, NEW h \in handlers, Signal(h)
    PROVE  Held'
  <1>1. /\ ~AtEngine(h) /\ handlers' = handlers \ {h} /\ sessions_mtx' = Free
        /\ sessions' = sessions /\ next_session_id' = next_session_id
    BY DEF Signal, Return, AtEngine
  <1>2. Called' /\ TableHeld'
    BY <1>1 DEF Held, Called, TableHeld
  <1>3. SessionsHeld'
    <2> SUFFICES ASSUME NEW i \in 1 .. next_session_id - 1, sessions[i].mtx # Free
                 PROVE  \E f \in handlers' : AtEngine(f) /\ f.sid = i /\ f.id = sessions[i].mtx
      BY <1>1 DEF SessionsHeld, AtEngine
    <2>1. PICK f \in handlers : AtEngine(f) /\ f.sid = i /\ f.id = sessions[i].mtx
      BY DEF Held, SessionsHeld
    <2>2. f # h
      BY <1>1, <2>1
    <2>3. QED BY <1>1, <2>1, <2>2
  <1>4. QED BY <1>2, <1>3 DEF Held

\* A new call holds nothing yet.
LEMMA CallHeld ==
    ASSUME Inv, Held, NEW s \in Server, Call(s)
    PROVE  Held'
  <1>1. PICK kind, tokens, server : Issues(s, kind, tokens, server)
    BY CallIssues
  <1>2. PICK h : /\ handlers' = handlers \cup {h} /\ h.kind = kind
                 /\ h.at = IF kind = "InitSession" THEN "create" ELSE "find"
    <2> DEFINE h == [id |-> <<s, servers[s].calls + 1>>, kind |-> kind, sid |-> server.sid,
                     step_id |-> server.step_id, tokens |-> tokens, block |-> << >>,
                     at |-> IF kind = "InitSession" THEN "create" ELSE "find"]
    <2>1. handlers' = handlers \cup {h}
      BY <1>1 DEF Issues, Issue
    <2>2. h.kind = kind /\ h.at = IF kind = "InitSession" THEN "create" ELSE "find"
      OBVIOUS
    <2> HIDE DEF h
    <2>3. QED BY <2>1, <2>2
  <1>3. /\ sessions' = sessions /\ next_session_id' = next_session_id /\ sessions_mtx' = sessions_mtx
    BY <1>1 DEF Issues, Issue, table
  <1>4. Called'
    BY <1>2 DEF Held, Called
  <1>5. TableHeld'
    BY <1>2, <1>3 DEF Held, TableHeld, KeepsTable
  <1>6. SessionsHeld'
    BY <1>2, <1>3 DEF Held, SessionsHeld, AtEngine
  <1>7. QED BY <1>4, <1>5, <1>6 DEF Held

LEMMA HeldStep ==
    ASSUME Inv, Held, [Next]_vars
    PROVE  Held'
  <1>1. ASSUME NEW h \in handlers, Handle(h) PROVE Held'
    BY <1>1, CreateHeld, InsertHeld, FindHeld, LockSessionHeld, RefuseHeld, AtEngineHeld,
       LeaveHeld, ResetEngineHeld, SignalHeld DEF Handle
  <1>2. ASSUME UNCHANGED <<table, handlers>> PROVE Held'
    BY <1>2 DEF table, Held, Called, TableHeld, SessionsHeld, KeepsTable, AtEngine
  <1>3. ASSUME NEW s \in Server, Call(s) \/ Abandon(s) PROVE Held'
    BY <1>2, <1>3, CallHeld DEF Abandon
  <1>4. CASE Draw \/ UNCHANGED vars
    BY <1>2, <1>4 DEF Draw, vars
  <1>5. QED BY <1>1, <1>3, <1>4 DEF Next

\* A mutex of grpc_service.cpp is held only by a call that is still being
\* handled: a call that was refused, failed or given up keeps none.
THEOREM LocksGivenBack == Spec => [](TableHeld /\ SessionsHeld)
  <1>1. Init => Held
    BY DEF Init, Held, Called, TableHeld, SessionsHeld
  <1>2. Inv /\ Held /\ [Next]_vars => Held'
    BY HeldStep
  <1>3. Held => TableHeld /\ SessionsHeld
    BY DEF Held
  <1>4. QED BY <1>1, <1>2, <1>3, Inductive, PTL DEF Spec

\* No set of calls waits for one another's mutexes, although a Reset waits for
\* a session with the table locked (grpc_service.cpp:178, 186): as long as calls
\* are handled, one of them finds the mutex it needs free or needs none.
THEOREM NeverLockedUp == Spec => []SomeoneGoesOn
  <1>1. Inv /\ TableHeld /\ SessionsHeld => SomeoneGoesOn
    <2> SUFFICES ASSUME Inv, TableHeld, SessionsHeld, NEW h \in handlers,
                        \A f \in handlers : ~MayGoOn(f)
                 PROVE  FALSE
      BY DEF SomeoneGoesOn
    <2>1. \A f \in handlers : f.at \in {"insert", "find", "lock"}
      BY DEF MayGoOn
    <2>2. \A f \in handlers : f.at # "lock"
      <3> SUFFICES ASSUME NEW f \in handlers, f.at = "lock" PROVE FALSE
        OBVIOUS
      <3>1. sessions[f.sid].mtx # Free /\ f.sid \in 1 .. next_session_id - 1
        BY DEF MayGoOn, Inv, Located
      <3>2. PICK e \in handlers : AtEngine(e)
        BY <3>1 DEF SessionsHeld
      <3>3. QED BY <2>1, <3>2 DEF AtEngine
    <2>3. sessions_mtx # Free
      BY <2>1, <2>2 DEF MayGoOn
    <2>4. PICK f \in handlers : f.at \in {"lock", "Reset", "signal"}
      BY <2>3 DEF TableHeld, KeepsTable
    <2>5. QED BY <2>1, <2>2, <2>4
  <1>2. QED BY <1>1, Inductive, LocksGivenBack, PTL

-----------------------------------------------------------------------------
(* The preview's queue and transcript.                                     *)

Event == [type : {"accepted", "verdict", "draft", "reset"}, tokens : Seq(Token)]

Drawable ==
    /\ queue \in Seq(Event)
    /\ transcript \in Seq(RegionOf(Token))
    /\ pending_tokens \in Seq(Token)

\* No region is pending.
NoPending(regions) ==
    /\ \A i \in 1 .. Len(regions) : regions[i].st # "pending"
    /\ Text(regions, "pending") = << >>

\* The block that waits for its verdict is shown once, last.
PendingLast ==
    \E regions \in Seq(RegionOf(Token)) :
       NoPending(regions) /\ transcript = regions \o Region(pending_tokens, "pending")

\* No block waits for its verdict once i more events are drawn.
Clear(i) == IF i = 0 THEN pending_tokens = << >> ELSE queue[i].type # "draft"

\* Between two blocks there is a verdict or a reset.
Ordered == \A i \in 1 .. Len(queue) : queue[i].type \in {"draft", "accepted"} => Clear(i - 1)

\* The confirmed text after an event.
After(text, event) ==
    IF event.type = "reset" THEN << >>
    ELSE IF event.type = "draft" THEN text ELSE text \o event.tokens

\* text[i] will be the confirmed text once i more events are drawn.
Foretells(text) ==
    /\ text \in [0 .. Len(queue) -> Seq(Token)]
    /\ text[0] = Text(transcript, "confirmed")
    /\ \A i \in 1 .. Len(queue) : text[i] = After(text[i - 1], queue[i])

\* The confirmed text once every event is drawn.
Leads(last) == \E text : Foretells(text) /\ text[Len(queue)] = last

RendererInv == Drawable /\ PendingLast /\ Ordered /\ \E last \in Seq(Token) : Leads(last)

LEMMA NoPendingKept ==
    ASSUME NEW regions \in Seq(RegionOf(Token)), NoPending(regions),
           NEW tokens \in Seq(Token), NEW mark \in {"confirmed", "rejected"}
    PROVE  NoPending(regions \o Region(tokens, mark))
  <1> DEFINE longer == regions \o Region(tokens, mark)
  <1>1. Text(longer, "pending") = << >>
    <2>1. mark \in Mark /\ mark # "pending"
      BY DEF Mark
    <2>2. Text(longer, "pending") = Text(regions, "pending") \o IF mark = "pending" THEN tokens ELSE << >>
      BY <2>1, TextRegion
    <2>3. QED BY <2>1, <2>2 DEF NoPending
  <1>2. \A i \in 1 .. Len(longer) : longer[i].st # "pending"
    <2>1. CASE tokens = << >>
      BY <2>1 DEF Region, NoPending
    <2>2. CASE tokens # << >>
      <3> DEFINE r == [text |-> tokens, st |-> mark]
      <3>1. Region(tokens, mark) = <<r>> /\ r.st # "pending"
        BY <2>2 DEF Region
      <3> HIDE DEF r
      <3>2. Len(longer) = Len(regions) + 1 /\ longer[Len(regions) + 1] = r
            /\ \A i \in 1 .. Len(regions) : longer[i] = regions[i]
        BY <3>1
      <3> HIDE DEF longer
      <3>3. QED BY <3>1, <3>2 DEF NoPending
    <2>3. QED BY <2>1, <2>2
  <1>3. QED BY <1>1, <1>2 DEF NoPending

LEMMA OthersApart ==
    ASSUME NEW regions \in Seq(RegionOf(Token)), NEW tokens \in Seq(Token),
           NEW mark \in Mark, mark # "confirmed"
    PROVE  Text(regions \o Region(tokens, mark), "confirmed") = Text(regions, "confirmed")
  <1>1. Text(regions, "confirmed") \in Seq(Token)
    BY TextRegion
  <1>2. Text(regions \o Region(tokens, mark), "confirmed") = Text(regions, "confirmed") \o << >>
    BY TextRegion
  <1>3. QED BY <1>1, <1>2, ConcatEmptySeq

LEMMA RejectedApart ==
    ASSUME NEW regions \in Seq(RegionOf(Token)), NEW tokens \in Seq(Token)
    PROVE  Text(regions \o Region(tokens, "rejected"), "confirmed") = Text(regions, "confirmed")
  <1>1. PICK mark \in Mark : mark = "rejected"
    BY DEF Mark
  <1>2. mark # "confirmed"
    BY <1>1
  <1>3. Text(regions \o Region(tokens, mark), "confirmed") = Text(regions, "confirmed")
    BY <1>2, OthersApart
  <1>4. QED BY <1>1, <1>3, Zenon

\* c is a, followed by b.
Joined(a, b, c) == c = a \o b

LEMMA JoinedTwice ==
    ASSUME NEW a \in Seq(Token), NEW b \in Seq(Token), NEW c \in Seq(Token), NEW ab, NEW bc, NEW abc,
           Joined(a, b, ab), Joined(b, c, bc), Joined(ab, c, abc)
    PROVE  Joined(a, bc, abc)
  BY ConcatAssociative DEF Joined

\* What is confirmed is what the regions before the pending one say.
LEMMA PendingApart ==
    ASSUME NEW regions \in Seq(RegionOf(Token)), NoPending(regions), NEW tokens \in Seq(Token)
    PROVE  /\ Text(regions \o Region(tokens, "pending"), "confirmed") = Text(regions, "confirmed")
           /\ Text(regions \o Region(tokens, "pending"), "pending") = tokens
           /\ regions \o Region(tokens, "pending") \in Seq(RegionOf(Token))
  <1>1. PICK mark \in Mark : mark = "pending"
    BY DEF Mark
  <1>2. mark # "confirmed" /\ regions \o Region(tokens, mark) \in Seq(RegionOf(Token))
    BY <1>1, TextRegion
  <1>3. Text(regions \o Region(tokens, mark), "confirmed") = Text(regions, "confirmed")
    BY <1>2, OthersApart
  <1>4. Text(regions \o Region(tokens, mark), mark) = Text(regions, mark) \o tokens
    BY TextRegion
  <1>5. << >> \o tokens = tokens
    BY ConcatEmptySeq
  <1>6. Text(regions, mark) = << >>
    BY <1>1 DEF NoPending
  <1>7. Text(regions \o Region(tokens, mark), mark) = tokens
    BY <1>4, <1>5, <1>6
  <1>8. QED BY <1>1, <1>2, <1>3, <1>7, Zenon

LEMMA ConfirmedAdds ==
    ASSUME NEW regions \in Seq(RegionOf(Token)), NoPending(regions), NEW tokens \in Seq(Token)
    PROVE  /\ regions \o Region(tokens, "confirmed") \in Seq(RegionOf(Token))
           /\ NoPending(regions \o Region(tokens, "confirmed"))
           /\ Text(regions \o Region(tokens, "confirmed"), "confirmed") =
                 Text(regions, "confirmed") \o tokens
  <1>1. "confirmed" \in Mark
    BY DEF Mark
  <1>2. QED BY <1>1, TextRegion, NoPendingKept

\* A verdict confirms just the accepted tokens: the part that matches the block
\* and the rest.
LEMMA JudgedConfirms ==
    ASSUME NEW regions \in Seq(RegionOf(Token)), NoPending(regions),
           pending_tokens \in Seq(Token),
           transcript = regions \o Region(pending_tokens, "pending"),
           NEW accepted \in Seq(Token)
    PROVE  /\ Judged(accepted) \in Seq(RegionOf(Token))
           /\ NoPending(Judged(accepted))
           /\ Text(Judged(accepted), "confirmed") = Text(regions, "confirmed") \o accepted
  <1>1. PICK match \in Nat :
           /\ match = Match(pending_tokens, accepted)
           /\ match <= Len(pending_tokens) /\ match <= Len(accepted)
           /\ SubSeq(pending_tokens, 1, match) = SubSeq(accepted, 1, match)
    <2> DEFINE m == Match(pending_tokens, accepted)
    <2>1. m \in 0 .. Len(pending_tokens) /\ m <= Len(accepted)
          /\ SubSeq(pending_tokens, 1, m) = SubSeq(accepted, 1, m)
      BY MatchIs
    <2>2. m = Match(pending_tokens, accepted)
      OBVIOUS
    <2> HIDE DEF m
    <2>3. m \in Nat /\ m <= Len(pending_tokens)
      BY <2>1
    <2>4. QED BY <2>1, <2>2, <2>3, Zenon
  <1>2. Settled = regions
    BY SettledIs DEF NoPending
  <1>3. PICK agreed \in Seq(Token), rejected \in Seq(Token), rest \in Seq(Token) :
           /\ agreed = SubSeq(pending_tokens, 1, match)
           /\ rejected = SubSeq(From(pending_tokens, match + 1), 1,
                                IF match < Len(pending_tokens) THEN 1 ELSE 0)
           /\ rest = From(accepted, match + 1)
    <2>1. SubSeq(pending_tokens, 1, match) \in Seq(Token)
      BY <1>1
    <2>2. From(pending_tokens, match + 1) \in Seq(Token)
          /\ Len(From(pending_tokens, match + 1)) = Len(pending_tokens) - match
      BY <1>1 DEF From
    <2>3. SubSeq(From(pending_tokens, match + 1), 1,
                 IF match < Len(pending_tokens) THEN 1 ELSE 0) \in Seq(Token)
      BY <1>1, <2>2
    <2>4. From(accepted, match + 1) \in Seq(Token)
      BY <1>1 DEF From
    <2>5. QED BY <2>1, <2>3, <2>4, Zenon
  <1>4. agreed \o rest = accepted
    <2>1. agreed = SubSeq(accepted, 1, match) /\ rest = SubSeq(accepted, match + 1, Len(accepted))
      BY <1>1, <1>3 DEF From
    <2>2. SubSeq(accepted, 1, match) \o SubSeq(accepted, match + 1, Len(accepted)) = SubSeq(accepted, 1, Len(accepted))
      <3>1. /\ 1 \in 1 .. Len(accepted) + 1 /\ match \in 1 - 1 .. Len(accepted)
            /\ Len(accepted) \in match .. Len(accepted)
        BY <1>1
      <3>2. QED BY <3>1, ConcatAdjacentSubSeq, Zenon
    <2>3. QED BY <2>1, <2>2, SubSeqFull
  <1>5. PICK first \in Seq(RegionOf(Token)), second \in Seq(RegionOf(Token)), third \in Seq(RegionOf(Token)) :
           /\ first = regions \o Region(agreed, "confirmed")
           /\ second = first \o Region(rejected, "rejected")
           /\ third = second \o Region(rest, "confirmed")
    <2>1. {"confirmed", "rejected"} \subseteq Mark
      BY DEF Mark
    <2>2. PICK first \in Seq(RegionOf(Token)) : first = regions \o Region(agreed, "confirmed")
      BY <2>1, TextRegion
    <2>3. PICK second \in Seq(RegionOf(Token)) : second = first \o Region(rejected, "rejected")
      BY <2>1, TextRegion
    <2>4. PICK third \in Seq(RegionOf(Token)) : third = second \o Region(rest, "confirmed")
      BY <2>1, TextRegion
    <2>5. QED BY <2>2, <2>3, <2>4, Zenon
  <1>6. Judged(accepted) = third
    BY <1>1, <1>2, <1>3, <1>5, Zenon DEF Judged
  <1>7. NoPending(first) /\ Text(first, "confirmed") = Text(regions, "confirmed") \o agreed
    BY <1>5, ConfirmedAdds
  <1>8. NoPending(second) /\ Text(second, "confirmed") = Text(first, "confirmed")
    <2>1. NoPending(second)
      BY <1>5, <1>7, NoPendingKept
    <2>2. Text(first \o Region(rejected, "rejected"), "confirmed") = Text(first, "confirmed")
      BY RejectedApart
    <2>3. QED BY <1>5, <2>1, <2>2
  <1>9. NoPending(third) /\ Text(third, "confirmed") = Text(second, "confirmed") \o rest
    BY <1>5, <1>8, ConfirmedAdds
  <1>10. Text(regions, "confirmed") \in Seq(Token)
    BY TextRegion DEF Mark
  <1>11. Joined(Text(regions, "confirmed"), accepted, Text(third, "confirmed"))
    <2>1. /\ Joined(Text(regions, "confirmed"), agreed, Text(first, "confirmed"))
          /\ Joined(Text(first, "confirmed"), rest, Text(third, "confirmed"))
          /\ Joined(agreed, rest, accepted)
      BY <1>4, <1>7, <1>8, <1>9 DEF Joined
    <2>2. agreed \in Seq(Token) /\ rest \in Seq(Token) /\ Text(regions, "confirmed") \in Seq(Token)
      BY <1>3, <1>10
    <2>3. QED BY <2>1, <2>2, JoinedTwice, Zenon
  <1>12. QED BY <1>6, <1>9, <1>11 DEF Joined

\* What drawing the oldest event does.
LEMMA EventDrawn ==
    ASSUME RendererInv, Worker
    PROVE  /\ pending_tokens' \in Seq(Token)
           /\ transcript' \in Seq(RegionOf(Token))
           /\ PendingLast'
           /\ Text(transcript', "confirmed") = After(Text(transcript, "confirmed"), queue[1])
           /\ queue[1].type # "draft" => pending_tokens' = << >>
  <1>1. PICK regions \in Seq(RegionOf(Token)) :
           NoPending(regions) /\ transcript = regions \o Region(pending_tokens, "pending")
    BY DEF RendererInv, PendingLast
  <1>2. /\ pending_tokens \in Seq(Token) /\ queue \in Seq(Event) /\ queue # << >>
        /\ Head(queue) = queue[1]
    BY DEF RendererInv, Drawable, Worker
  <1>3. /\ 1 \in 1 .. Len(queue) /\ queue[1] \in Event /\ queue[1].tokens \in Seq(Token)
        /\ queue[1].type \in {"draft", "accepted"} => pending_tokens = << >>
    <2>1. 1 \in 1 .. Len(queue) /\ queue[1] \in Event
      BY <1>2
    <2>2. queue[1].type \in {"draft", "accepted"} => Clear(0)
      BY <2>1 DEF RendererInv, Ordered
    <2>3. QED BY <2>1, <2>2 DEF Clear, Event
  <1> DEFINE text == Text(regions, "confirmed")
             tokens == queue[1].tokens
  <1>4. Text(transcript, "confirmed") = text
    BY <1>1, <1>2, PendingApart
  <1>5. regions \o Region(<< >>, "pending") = regions
    BY DEF Region
  <1>6. ASSUME NEW longer \in Seq(RegionOf(Token)), NoPending(longer),
               transcript' = longer, pending_tokens' = << >>
        PROVE  transcript' \in Seq(RegionOf(Token)) /\ pending_tokens' \in Seq(Token) /\ PendingLast'
    <2>1. longer \o Region(<< >>, "pending") = longer
      BY DEF Region
    <2>2. NoPending(longer) /\ transcript' = longer \o Region(pending_tokens', "pending")
      BY <1>6, <2>1
    <2>3. PendingLast'
      BY <2>2 DEF PendingLast
    <2>4. QED BY <1>6, <2>3
  <1>7. CASE \/ queue[1].type = "accepted" /\ handle_accepted(tokens)
             \/ queue[1].type = "verdict" /\ handle_verdict(tokens) /\ pending_tokens = << >>
    <2>1. transcript = regions /\ pending_tokens = << >>
      BY <1>1, <1>3, <1>5, <1>7
    <2>2. transcript' = regions \o Region(tokens, "confirmed") /\ pending_tokens' = << >>
      BY <1>7, <2>1 DEF handle_accepted, handle_verdict
    <2>3. /\ regions \o Region(tokens, "confirmed") \in Seq(RegionOf(Token))
          /\ NoPending(regions \o Region(tokens, "confirmed"))
          /\ Text(regions \o Region(tokens, "confirmed"), "confirmed") = text \o tokens
      BY <1>1, <1>3, ConfirmedAdds
    <2>4. After(Text(transcript, "confirmed"), queue[1]) = text \o tokens
      BY <1>4, <1>7 DEF After
    <2>5. Text(transcript', "confirmed") = text \o tokens
      BY <2>2, <2>3
    <2> HIDE DEF text, tokens
    <2>6. QED BY <1>6, <2>2, <2>3, <2>4, <2>5
  <1>8. CASE queue[1].type = "verdict" /\ handle_verdict(tokens) /\ pending_tokens # << >>
    <2>1. transcript' = Judged(tokens) /\ pending_tokens' = << >>
      BY <1>8 DEF handle_verdict
    <2>2. /\ Judged(tokens) \in Seq(RegionOf(Token)) /\ NoPending(Judged(tokens))
          /\ Text(Judged(tokens), "confirmed") = text \o tokens
      BY <1>1, <1>2, <1>3, JudgedConfirms
    <2>3. After(Text(transcript, "confirmed"), queue[1]) = text \o tokens
      BY <1>4, <1>8 DEF After
    <2>4. Text(transcript', "confirmed") = text \o tokens
      BY <2>1, <2>2
    <2> HIDE DEF text, tokens
    <2>5. QED BY <1>6, <2>1, <2>2, <2>3, <2>4
  <1>9. CASE queue[1].type = "draft" /\ handle_draft(tokens)
    <2>1. transcript = regions /\ pending_tokens = << >>
      BY <1>1, <1>3, <1>5, <1>9
    <2>2. transcript' = regions \o Region(tokens, "pending") /\ pending_tokens' = tokens
      BY <1>9, <2>1 DEF handle_draft
    <2>3. /\ regions \o Region(tokens, "pending") \in Seq(RegionOf(Token))
          /\ Text(regions \o Region(tokens, "pending"), "confirmed") = text
      BY <1>1, <1>3, PendingApart
    <2>4. After(Text(transcript, "confirmed"), queue[1]) = text
      BY <1>4, <1>9 DEF After
    <2>5. Text(transcript', "confirmed") = text
      BY <2>2, <2>3
    <2>6. PendingLast'
      BY <1>1, <2>2 DEF PendingLast
    <2>7. transcript' \in Seq(RegionOf(Token)) /\ pending_tokens' \in Seq(Token)
      BY <1>3, <2>2, <2>3
    <2> HIDE DEF text, tokens
    <2>8. QED BY <1>9, <2>4, <2>5, <2>6, <2>7
  <1>10. CASE queue[1].type = "reset" /\ handle_reset
    <2>1. transcript' = << >> /\ pending_tokens' = << >>
      BY <1>10 DEF handle_reset
    <2>2. Text(<< >>, "confirmed") = << >> /\ Text(<< >>, "pending") = << >>
      BY TextEmpty
    <2>3. << >> \in Seq(RegionOf(Token)) /\ NoPending(<< >>)
      BY <2>2 DEF NoPending
    <2>4. After(Text(transcript, "confirmed"), queue[1]) = << >>
      BY <1>10 DEF After
    <2>5. Text(transcript', "confirmed") = << >>
      BY <2>1, <2>2
    <2> HIDE DEF text, tokens
    <2>6. QED BY <1>6, <2>1, <2>3, <2>4, <2>5
  <1>11. QED
    <2>1. \/ queue[1].type = "accepted" /\ handle_accepted(tokens)
          \/ queue[1].type = "draft" /\ handle_draft(tokens)
          \/ queue[1].type = "verdict" /\ handle_verdict(tokens)
          \/ queue[1].type = "reset" /\ handle_reset
      BY <1>2 DEF Worker
    <2> HIDE DEF text, tokens
    <2>2. QED BY <1>7, <1>8, <1>9, <1>10, <2>1

\* The worker keeps what the queue leads to.
LEMMA WorkerKeeps ==
    ASSUME RendererInv, Worker
    PROVE  /\ RendererInv'
           /\ Clear(Len(queue)) => Clear(Len(queue))'
           /\ \A last : Leads(last) => Leads(last)'
  <1>1. /\ queue \in Seq(Event) /\ queue # << >> /\ Len(queue) \in Nat \ {0}
        /\ queue' = Tail(queue)
    BY DEF RendererInv, Drawable, Worker
  <1>2. /\ queue' \in Seq(Event) /\ Len(queue') = Len(queue) - 1
        /\ \A i \in 1 .. Len(queue') : i + 1 \in 1 .. Len(queue) /\ queue'[i] = queue[i + 1]
    BY <1>1
  <1>3. Drawable'
    BY <1>2, EventDrawn DEF Drawable
  <1>4. ASSUME NEW i \in 1 .. Len(queue), Clear(i) PROVE Clear(i - 1)'
    <2>1. CASE i = 1
      BY <1>4, <2>1, EventDrawn DEF Clear
    <2>2. CASE i # 1
      <3>1. i - 1 \in 1 .. Len(queue') /\ i - 1 # 0 /\ (i - 1) + 1 = i /\ i # 0
        BY <1>1, <1>2, <2>2
      <3>2. queue'[i - 1] = queue[i]
        BY <1>2, <3>1
      <3>3. QED BY <1>4, <3>1, <3>2 DEF Clear
    <2>3. QED BY <2>1, <2>2
  <1>5. Ordered'
    <2> SUFFICES ASSUME NEW i \in 1 .. Len(queue'), queue'[i].type \in {"draft", "accepted"}
                 PROVE  Clear(i - 1)'
      BY DEF Ordered
    <2>1. i + 1 \in 1 .. Len(queue) /\ queue'[i] = queue[i + 1] /\ (i + 1) - 1 = i /\ i \in 1 .. Len(queue)
      BY <1>1, <1>2
    <2>2. Clear(i)
      BY <2>1 DEF RendererInv, Ordered
    <2>3. QED BY <1>4, <2>1, <2>2
  <1>6. Clear(Len(queue)) => Clear(Len(queue))'
    <2>1. PICK n \in 1 .. Len(queue) : n = Len(queue)
      BY <1>1
    <2>2. Clear(n) => Clear(n - 1)'
      BY <1>4
    <2>3. n - 1 = Len(queue')
      BY <1>2, <2>1
    <2>4. QED BY <2>1, <2>2, <2>3 DEF Clear
  <1>7. ASSUME NEW last, Leads(last) PROVE Leads(last)'
    <2>1. PICK text : Foretells(text) /\ text[Len(queue)] = last
      BY <1>7 DEF Leads
    <2> DEFINE rest == [i \in 0 .. Len(queue') |-> text[i + 1]]
    <2>2. \A i \in 0 .. Len(queue') : i + 1 \in 0 .. Len(queue) /\ rest[i] = text[i + 1]
      BY <1>1, <1>2
    <2>3. rest \in [0 .. Len(queue') -> Seq(Token)]
      BY <2>1, <2>2 DEF Foretells
    <2>4. rest[0] = Text(transcript', "confirmed")
      <3>1. 0 \in 0 .. Len(queue') /\ 1 \in 1 .. Len(queue)
        BY <1>1, <1>2
      <3>2. rest[0] = text[1]
        BY <3>1
      <3>3. text[1] = After(text[0], queue[1])
        BY <2>1, <3>1 DEF Foretells
      <3>4. text[0] = Text(transcript, "confirmed")
        BY <2>1 DEF Foretells
      <3> HIDE DEF rest
      <3>5. QED BY <3>2, <3>3, <3>4, EventDrawn
    <2>5. ASSUME NEW i \in 1 .. Len(queue') PROVE rest[i] = After(rest[i - 1], queue'[i])
      <3>1. /\ i + 1 \in 1 .. Len(queue) /\ (i + 1) - 1 = i /\ (i - 1) + 1 = i
            /\ i \in 0 .. Len(queue') /\ i - 1 \in 0 .. Len(queue')
        BY <1>1, <1>2
      <3>2. rest[i] = text[i + 1] /\ rest[i - 1] = text[i] /\ queue'[i] = queue[i + 1]
        BY <1>2, <2>2, <3>1
      <3>3. text[i + 1] = After(text[i], queue[i + 1])
        BY <2>1, <3>1 DEF Foretells
      <3> HIDE DEF rest
      <3>4. QED BY <3>2, <3>3
    <2>6. rest[Len(queue')] = last
      <3>1. Len(queue') \in 0 .. Len(queue') /\ Len(queue') + 1 = Len(queue)
        BY <1>1, <1>2
      <3>2. rest[Len(queue')] = text[Len(queue') + 1]
        BY <3>1
      <3> HIDE DEF rest
      <3>3. QED BY <2>1, <3>1, <3>2
    <2> HIDE DEF rest
    <2>7. QED BY <2>3, <2>4, <2>5, <2>6 DEF Leads, Foretells
  <1>8. \E last \in Seq(Token) : Leads(last)'
    <2>1. PICK last \in Seq(Token) : Leads(last)
      BY DEF RendererInv
    <2>2. QED BY <1>7, <2>1
  <1>9. QED BY <1>3, <1>5, <1>6, <1>7, <1>8, EventDrawn DEF RendererInv

\* An event adds itself to what the queue leads to.
LEMMA EnqueueKeeps ==
    ASSUME RendererInv, NEW type \in {"accepted", "verdict", "draft", "reset"},
           NEW tokens \in Seq(Token), Enqueue(type, tokens),
           type \in {"draft", "accepted"} => Clear(Len(queue))
    PROVE  /\ RendererInv'
           /\ type # "draft" => Clear(Len(queue))'
           /\ \A last \in Seq(Token) :
                 Leads(last) => Leads(After(last, [type |-> type, tokens |-> tokens]))'
  <1> DEFINE event == [type |-> type, tokens |-> tokens]
  <1>1. event \in Event /\ event.type = type /\ event.tokens = tokens
    BY DEF Event
  <1>2. queue' = Append(queue, event) /\ transcript' = transcript /\ pending_tokens' = pending_tokens
    BY DEF Enqueue
  <1>3. PICK n \in Nat : queue \in Seq(Event) /\ n = Len(queue)
    BY DEF RendererInv, Drawable
  <1>4. ASSUME NEW last \in Seq(Token) PROVE After(last, event) \in Seq(Token)
    BY <1>1 DEF After
  <1> HIDE DEF event
  <1>5. /\ queue' \in Seq(Event) /\ Len(queue') = n + 1 /\ queue'[n + 1] = event
        /\ \A i \in 1 .. n : queue'[i] = queue[i]
    BY <1>1, <1>2, <1>3
  <1>6. Drawable' /\ PendingLast'
    <2>1. PendingLast'
      BY <1>2 DEF RendererInv, PendingLast
    <2>2. QED BY <1>2, <1>5, <2>1 DEF RendererInv, Drawable
  <1>7. ASSUME NEW i \in 0 .. n, Clear(i) PROVE Clear(i)'
    BY <1>2, <1>3, <1>5, <1>7 DEF Clear
  <1>8. Clear(n) => Clear(n)'
    BY <1>3, <1>7
  <1>9. Ordered'
    <2> SUFFICES ASSUME NEW i \in 1 .. n + 1, queue'[i].type \in {"draft", "accepted"}
                 PROVE  Clear(i - 1)'
      BY <1>5 DEF Ordered
    <2>1. CASE i = n + 1
      <3>1. i - 1 = n /\ event.type \in {"draft", "accepted"}
        BY <1>3, <1>5, <2>1
      <3>2. Clear(n)
        BY <1>1, <1>3, <3>1
      <3>3. QED BY <1>8, <3>1, <3>2
    <2>2. CASE i # n + 1
      <3>1. i \in 1 .. n /\ i - 1 \in 0 .. n
        BY <1>3, <2>2
      <3>2. Clear(i - 1)
        BY <1>3, <1>5, <3>1 DEF RendererInv, Ordered
      <3>3. QED BY <1>7, <3>1, <3>2
    <2>3. QED BY <2>1, <2>2
  <1>10. type # "draft" => Clear(Len(queue))'
    <2>1. n + 1 # 0
      BY <1>3
    <2>2. QED BY <1>1, <1>5, <2>1 DEF Clear
  <1>11. ASSUME NEW last \in Seq(Token), Leads(last) PROVE Leads(After(last, event))'
    <2>1. PICK text : Foretells(text) /\ text[n] = last
      BY <1>3, <1>11 DEF Leads
    <2> DEFINE longer == [i \in 0 .. n + 1 |-> IF i = n + 1 THEN After(last, event) ELSE text[i]]
    <2>2. text \in [0 .. n -> Seq(Token)] /\ \A i \in 1 .. n : text[i] = After(text[i - 1], queue[i])
      BY <1>3, <2>1 DEF Foretells
    <2>3. longer[n + 1] = After(last, event) /\ \A i \in 0 .. n : longer[i] = text[i]
      BY <1>3
    <2>4. longer \in [0 .. n + 1 -> Seq(Token)]
      BY <1>3, <1>4, <2>2
    <2> HIDE DEF longer
    <2>5. longer[0] = Text(transcript', "confirmed")
      BY <1>2, <1>3, <2>1, <2>3 DEF Foretells
    <2>6. ASSUME NEW i \in 1 .. n + 1 PROVE longer[i] = After(longer[i - 1], queue'[i])
      <3>1. CASE i = n + 1
        <4>1. i - 1 = n /\ n \in 0 .. n
          BY <1>3, <3>1
        <4>2. QED BY <1>5, <2>1, <2>3, <3>1, <4>1
      <3>2. CASE i # n + 1
        <4>1. i \in 1 .. n /\ i \in 0 .. n /\ i - 1 \in 0 .. n
          BY <1>3, <3>2
        <4>2. QED BY <1>5, <2>2, <2>3, <4>1
      <3>3. QED BY <3>1, <3>2
    <2>7. QED BY <1>5, <2>3, <2>4, <2>5, <2>6 DEF Leads, Foretells
  <1>12. \E last \in Seq(Token) : Leads(last)'
    <2>1. PICK last \in Seq(Token) : Leads(last)
      BY DEF RendererInv
    <2>2. QED BY <1>4, <1>11, <2>1
  <1>13. RendererInv'
    BY <1>6, <1>9, <1>12 DEF RendererInv
  <1>14. QED BY <1>10, <1>11, <1>13 DEF event

-----------------------------------------------------------------------------
(* One server that gives no call up: what its only call means for the      *)
(* preview.                                                                *)

SingleServer == (\E s : Server = {s}) /\ MaxAbandoned = 0

\* A handler's server waits for it.
Awaited ==
    /\ abandoned = 0
    /\ \A h \in handlers : Caller(h).waiting /\ Caller(h).calls = h.id[2]

\* A handler is where its kind of call goes.
Placed ==
    \A h \in handlers :
       \/ h.kind = "InitSession" /\ h.at \in {"create", "insert"}
       \/ h.kind = "Prefill" /\ h.at \in {"find", "lock", "Prefill", "ingest"}
       \/ h.kind = "Draft" /\ h.at \in {"find", "lock", "Draft", "preview"}
       \/ h.kind = "Reset" /\ h.at \in {"find", "lock", "Reset", "signal"}

\* The handler is about to tell of a run or of a block.
Tells(h) == h.at = "preview" \/ (h.kind = "Prefill" /\ h.at \in {"find", "lock", "Prefill"})

\* It does so when no block waits for its verdict, and so does a Prefill that is
\* still to be called.
Cleared ==
    /\ \A h \in handlers : Tells(h) => Clear(Len(queue))
    /\ \A h \in handlers : Caller(h).next = "Prefill" => h.kind = "Reset"
    /\ handlers = {} => \A s \in Server : servers[s].next = "Prefill" => Clear(Len(queue))

\* The queue leads to what the engine was given, unless a Reset is still to tell.
Foretold ==
    Watch => IF \E h \in handlers : h.at = "signal" THEN given = << >> ELSE Leads(given)

\* Without --watch nothing is ever told.
Silent == ~Watch => queue = << >> /\ pending_tokens = << >>

PreviewInv ==
    /\ RendererInv /\ given \in Seq(Token)
    /\ Awaited /\ Placed /\ Cleared /\ Foretold /\ Silent

\* A server has one call at a time.
LEMMA OneHandler ==
    ASSUME SingleServer, Inv, Awaited, NEW h \in handlers
    PROVE  handlers = {h}
  <1> SUFFICES ASSUME NEW g \in handlers PROVE g = h
    OBVIOUS
  <1>1. /\ g.id \in CallId /\ h.id \in CallId
        /\ g.id[2] = servers[g.id[1]].calls /\ h.id[2] = servers[h.id[1]].calls
    BY DEF Inv, Typed, Handler, Awaited, Caller
  <1>2. g.id[1] = h.id[1]
    BY <1>1 DEF SingleServer, CallId
  <1>3. g.id = h.id
    BY <1>1, <1>2 DEF CallId
  <1>4. QED BY <1>3 DEF Inv, Numbered

\* What the next handler finds, given what the renderer is told before.
LEMMA MoveAwaited ==
    ASSUME SingleServer, Inv, PreviewInv, NEW h \in handlers, NEW g, To(h, g), g.id = h.id
    PROVE  /\ handlers' = {g} /\ Awaited'
           /\ servers' = servers /\ Caller(g)' = Caller(h)
  <1>1. handlers' = {g} /\ servers' = servers /\ abandoned' = abandoned
    BY OneHandler DEF To, client, PreviewInv
  <1>2. Caller(g)' = Caller(h)
    BY <1>1 DEF Caller
  <1>3. Awaited'
    BY <1>1, <1>2 DEF PreviewInv, Awaited
  <1>4. QED BY <1>1, <1>2, <1>3

\* A returning handler leaves its server without a call.
LEMMA ReturnAwaited ==
    ASSUME SingleServer, Inv, PreviewInv, NEW h \in handlers, NEW server \in ServerState,
           Return(h, server)
    PROVE  /\ handlers' = {} /\ Awaited' /\ Placed'
           /\ \A s \in Server : servers'[s].next = server.next
  <1>1. handlers' = {} /\ abandoned' = abandoned
    BY OneHandler DEF Return, PreviewInv
  <1>2. servers' = [servers EXCEPT ![h.id[1]] = [server EXCEPT !.waiting = FALSE]]
    BY DEF Return, PreviewInv, Awaited
  <1>3. /\ servers \in [Server -> ServerState] /\ h.id[1] \in Server
        /\ \A s \in Server : s = h.id[1]
    BY DEF Inv, Typed, Handler, CallId, SingleServer
  <1>4. [server EXCEPT !.waiting = FALSE].next = server.next
    BY DEF ServerState
  <1>5. \A s \in Server : servers'[s].next = server.next
    BY <1>2, <1>3, <1>4
  <1>6. Awaited' /\ Placed'
    BY <1>1 DEF PreviewInv, Awaited, Placed
  <1>7. QED BY <1>1, <1>5, <1>6

\* The renderer is told of an event, or nobody watches.
LEMMA Told ==
    ASSUME PreviewInv, NEW type \in {"accepted", "verdict", "draft", "reset"},
           NEW tokens \in Seq(Token), Tell(Enqueue(type, tokens)),
           type \in {"draft", "accepted"} => Clear(Len(queue))
    PROVE  /\ RendererInv' /\ Silent'
           /\ type # "draft" => Clear(Len(queue))'
           /\ Watch => \A last \in Seq(Token) :
                          Leads(last) => Leads(After(last, [type |-> type, tokens |-> tokens]))'
  <1>1. CASE Watch
    <2>1. Enqueue(type, tokens)
      BY <1>1 DEF Tell
    <2>2. RendererInv
      BY DEF PreviewInv
    <2>3. QED BY <1>1, <2>1, <2>2, EnqueueKeeps DEF Silent
  <1>2. CASE ~Watch
    <2>1. queue' = queue /\ transcript' = transcript /\ pending_tokens' = pending_tokens
      BY <1>2 DEF Tell, renderer
    <2>2. RendererInv' /\ Silent'
      BY <2>1 DEF PreviewInv, RendererInv, Drawable, PendingLast, Ordered, Clear, Leads, Foretells, Silent
    <2>3. Clear(Len(queue))'
      BY <1>2, <2>1 DEF PreviewInv, Silent, Clear
    <2>4. QED BY <1>2, <2>2, <2>3
  <1>3. QED BY <1>1, <1>2

\* The renderer is not told.
LEMMA NotTold ==
    ASSUME PreviewInv, UNCHANGED renderer
    PROVE  /\ RendererInv' /\ Silent'
           /\ Clear(Len(queue)) => Clear(Len(queue))'
           /\ \A last : Leads(last) => Leads(last)'
  BY DEF renderer, PreviewInv, RendererInv, Drawable, PendingLast, Ordered, Clear, Leads, Foretells, Silent

\* Handlers that tell nothing, or nobody who watches.
LEMMA QuietMove ==
    ASSUME SingleServer, Inv, PreviewInv, NEW h \in handlers, NEW g, To(h, g),
           g.id = h.id, g.kind = h.kind, h.at # "signal", g.at # "signal",
           UNCHANGED renderer, given' = given,
           Placed', Tells(g) => Tells(h)
    PROVE  PreviewInv'
  <1>1. /\ handlers' = {g} /\ Awaited' /\ servers' = servers /\ Caller(g)' = Caller(h)
    BY MoveAwaited
  <1>2. handlers = {h}
    BY OneHandler DEF PreviewInv
  <1>3. Cleared'
    BY <1>1, NotTold DEF PreviewInv, Cleared
  <1>4. Foretold'
    BY <1>1, <1>2, NotTold DEF PreviewInv, Foretold
  <1>5. QED BY <1>1, <1>3, <1>4, NotTold DEF PreviewInv

LEMMA QuietReturn ==
    ASSUME SingleServer, Inv, PreviewInv, NEW h \in handlers, NEW server \in ServerState,
           Return(h, server), server.next # "Prefill", h.at # "signal",
           UNCHANGED renderer, given' = given
    PROVE  PreviewInv'
  <1>1. handlers' = {} /\ Awaited' /\ Placed' /\ \A s \in Server : servers'[s].next = server.next
    BY ReturnAwaited
  <1>2. handlers = {h}
    BY OneHandler DEF PreviewInv
  <1>3. Cleared'
    BY <1>1 DEF Cleared
  <1>4. Foretold'
    BY <1>1, <1>2, NotTold DEF PreviewInv, Foretold
  <1>5. QED BY <1>1, <1>3, <1>4, NotTold DEF PreviewInv

LEMMA PreviewCall ==
    ASSUME SingleServer, Inv, PreviewInv, NEW s \in Server, Call(s)
    PROVE  PreviewInv'
  <1>1. PICK kind, tokens, server : Issues(s, kind, tokens, server)
    BY CallIssues
  <1> DEFINE n == servers[s].calls + 1
             after == [server EXCEPT !.calls = @ + 1, !.waiting = TRUE, !.block = << >>]
             made == [id |-> <<s, n>>, kind |-> kind, sid |-> server.sid,
                      step_id |-> server.step_id, tokens |-> tokens, block |-> << >>,
                      at |-> IF kind = "InitSession" THEN "create" ELSE "find"]
  <1>2. handlers = {}
    <2> SUFFICES ASSUME NEW g \in handlers PROVE FALSE
      OBVIOUS
    <2>1. g.id[1] \in Server /\ servers[g.id[1]].waiting
      BY DEF Inv, Typed, Handler, CallId, PreviewInv, Awaited, Caller
    <2>2. ~servers[s].waiting
      BY <1>1 DEF Issues, Issue
    <2>3. QED BY <2>1, <2>2 DEF SingleServer
  <1>3. /\ servers' = [servers EXCEPT ![s] = after] /\ handlers' = {made}
        /\ abandoned' = abandoned /\ given' = given /\ UNCHANGED renderer
    BY <1>1, <1>2 DEF Issues, Issue
  <1>4. /\ kind \in Kind /\ server \in ServerState /\ server.calls = servers[s].calls
        /\ kind = "Prefill" => servers[s].next = "Prefill"
        /\ server.next = "Prefill" => kind = "Reset"
    BY <1>1 DEF Issues
  <1>5. after.next = server.next /\ after.calls = n /\ after.waiting
    BY <1>4 DEF ServerState
  <1>6. PICK h : /\ handlers' = {h} /\ h.id[1] = s /\ h.id[2] = n /\ h.kind = kind
                 /\ h.at = IF kind = "InitSession" THEN "create" ELSE "find"
    <2>1. /\ made.id[1] = s /\ made.id[2] = n /\ made.kind = kind
          /\ made.at = IF kind = "InitSession" THEN "create" ELSE "find"
      OBVIOUS
    <2> HIDE DEF made, n
    <2>2. QED BY <1>3, <2>1
  <1> HIDE DEF after, made, n
  <1>7. servers'[s] = after
    BY <1>3 DEF Inv, Typed
  <1>8. Awaited'
    BY <1>3, <1>5, <1>6, <1>7 DEF PreviewInv, Awaited, Caller
  <1>9. Placed'
    BY <1>3, <1>4, <1>6 DEF Placed, Kind
  <1>10. Cleared'
    <2>1. Tells(h) => Clear(Len(queue))
      BY <1>2, <1>4, <1>6 DEF Tells, PreviewInv, Cleared
    <2>2. Tells(h) => Clear(Len(queue))'
      BY <2>1, <1>3, NotTold
    <2>3. Caller(h)' = after
      BY <1>6, <1>7 DEF Caller
    <2>4. QED BY <1>3, <1>4, <1>5, <1>6, <2>2, <2>3 DEF Cleared
  <1>11. Foretold'
    <2>1. h.at # "signal"
      BY <1>6
    <2>2. QED BY <1>2, <1>3, <1>6, <2>1, NotTold DEF PreviewInv, Foretold
  <1>12. QED BY <1>3, <1>8, <1>9, <1>10, <1>11, NotTold DEF PreviewInv

\* The handlers that tell nothing.
LEMMA PreviewQuiet ==
    ASSUME SingleServer, Inv, PreviewInv, NEW h \in handlers,
           \/ Create(h) \/ Insert(h) \/ Find(h) \/ LockSession(h) \/ Refuse(h) \/ Ingest(h)
    PROVE  PreviewInv'
  <1>1. /\ h \in Handler /\ Caller(h) \in ServerState
        /\ Caller(h).next = "Prefill" => h.kind = "Reset"
    BY CallerTyped DEF PreviewInv, Cleared
  <1>2. \/ h.kind = "InitSession" /\ h.at \in {"create", "insert"}
        \/ h.kind = "Prefill" /\ h.at \in {"find", "lock", "Prefill", "ingest"}
        \/ h.kind = "Draft" /\ h.at \in {"find", "lock", "Draft", "preview"}
        \/ h.kind = "Reset" /\ h.at \in {"find", "lock", "Reset", "signal"}
    BY DEF PreviewInv, Placed
  <1>3. UNCHANGED renderer /\ given' = given /\ h.at # "signal"
    BY DEF Create, Insert, Find, LockSession, Refuse, Ingest
  <1>4. ASSUME NEW at \in Place, To(h, [h EXCEPT !.at = at]),
               \/ h.at = "create" /\ at = "insert"
               \/ h.at = "find" /\ at = "lock"
               \/ h.at = "lock" /\ at = h.kind
        PROVE  PreviewInv'
    <2> DEFINE g == [h EXCEPT !.at = at]
    <2>1. g.id = h.id /\ g.kind = h.kind /\ g.at = at
      BY <1>1 DEF Handler
    <2>2. To(h, g)
      BY <1>4
    <2> HIDE DEF g
    <2>3. handlers' = {g}
      BY <2>1, <2>2, MoveAwaited
    <2>4. Placed'
      BY <1>2, <1>4, <2>1, <2>3 DEF Placed
    <2>5. g.at # "signal" /\ (Tells(g) => Tells(h))
      BY <1>2, <1>4, <2>1 DEF Tells
    <2>6. QED BY <1>3, <2>1, <2>2, <2>4, <2>5, QuietMove
  <1>5. ASSUME h.kind # "Reset", Return(h, Caller(h)) PROVE PreviewInv'
    BY <1>1, <1>3, <1>5, QuietReturn
  <1>6. {"insert", "lock"} \cup Kind \subseteq Place /\ h.kind \in Kind
    BY <1>1 DEF Place, Handler
  <1>7. CASE Create(h)
    <2>1. h.kind # "Reset" /\ h.at = "create"
      BY <1>2, <1>7 DEF Create
    <2>2. To(h, [h EXCEPT !.at = "insert"]) \/ Return(h, Caller(h))
      BY <1>7 DEF Create
    <2>3. QED BY <1>4, <1>5, <1>6, <2>1, <2>2
  <1>8. CASE Insert(h)
    <2> DEFINE server == [Caller(h) EXCEPT !.sid = next_session_id, !.next = "Reset"]
    <2>1. server \in ServerState /\ server.next = "Reset"
      BY <1>1 DEF ServerState, Kind, Inv, Typed
    <2>2. Return(h, server)
      BY <1>8 DEF Insert
    <2> HIDE DEF server
    <2>3. QED BY <1>3, <2>1, <2>2, QuietReturn
  <1>9. CASE Find(h)
    <2>1. h.at = "find" /\ To(h, [h EXCEPT !.at = "lock"])
      BY <1>9 DEF Find
    <2>2. QED BY <1>4, <1>6, <2>1
  <1>10. CASE LockSession(h)
    <2>1. h.at = "lock" /\ To(h, [h EXCEPT !.at = h.kind])
      BY <1>10 DEF LockSession
    <2>2. QED BY <1>4, <1>6, <2>1
  <1>11. CASE Refuse(h)
    <2>1. h.kind # "Reset" /\ Return(h, Caller(h))
      BY <1>11 DEF Refuse, Stale
    <2>2. QED BY <1>5, <2>1
  <1>12. CASE Ingest(h)
    <2>1. h.kind # "Reset" /\ Return(h, Caller(h))
      BY <1>2, <1>12 DEF Ingest
    <2>2. QED BY <1>5, <2>1
  <1>13. QED BY <1>7, <1>8, <1>9, <1>10, <1>11, <1>12

\* The handlers that tell of what they give the engine.
LEMMA PreviewGives ==
    ASSUME SingleServer, Inv, PreviewInv, NEW h \in handlers, Announce(h) \/ Judge(h)
    PROVE  PreviewInv'
  <1>1. /\ h \in Handler /\ h.tokens \in Seq(Token) /\ handlers = {h} /\ given \in Seq(Token)
        /\ Caller(h).next = "Prefill" => h.kind = "Reset"
    BY CallerTyped, OneHandler DEF PreviewInv, Cleared, Handler
  <1>2. PICK given1 : given1 = given \o h.tokens
    OBVIOUS
  <1>3. given1 \in Seq(Token) /\ given' = given1
    <2>1. given \o h.tokens \in Seq(Token)
      BY <1>1
    <2>2. given' = given \o h.tokens
      BY DEF Announce, Judge
    <2>3. QED BY <1>2, <2>1, <2>2
  <1>4. h.at # "signal" /\ (Watch => Leads(given))
    BY <1>1 DEF Announce, Judge, PreviewInv, Foretold
  <1>5. ASSUME NEW g, To(h, g), g.id = h.id, g.kind = h.kind, g.at # "signal",
               \/ g.kind = "Prefill" /\ g.at = "ingest"
               \/ g.kind = "Draft" /\ g.at = "preview" /\ Clear(Len(queue))',
               RendererInv', Silent', Watch => Leads(given1)'
        PROVE  PreviewInv'
    <2>1. handlers' = {g} /\ Awaited' /\ servers' = servers /\ Caller(g)' = Caller(h)
      BY <1>5, MoveAwaited
    <2>2. Placed'
      BY <1>5, <2>1 DEF Placed
    <2>3. Cleared'
      BY <1>1, <1>5, <2>1 DEF Cleared, Tells
    <2>4. Foretold'
      BY <1>3, <1>5, <2>1 DEF Foretold
    <2>5. QED BY <1>3, <1>5, <2>1, <2>2, <2>3, <2>4 DEF PreviewInv
  <1>6. CASE Announce(h)
    <2> DEFINE g == [h EXCEPT !.at = "ingest"]
    <2>1. h.kind = "Prefill" /\ h.at = "Prefill"
      BY <1>6 DEF Announce, PreviewInv, Placed
    <2>2. g.id = h.id /\ g.kind = h.kind /\ g.at = "ingest" /\ To(h, g)
      BY <1>1, <1>6 DEF Handler, Announce
    <2> HIDE DEF g
    <2>3. RendererInv' /\ Silent' /\ (Watch => Leads(given1)')
      <3>1. CASE h.tokens = << >>
        <4>1. UNCHANGED renderer
          BY <1>6, <3>1 DEF Announce, Tell, on_accepted
        <4>2. given1 = given
          BY <1>1, <1>2, <3>1
        <4>3. QED BY <1>4, <4>1, <4>2, NotTold
      <3>2. CASE h.tokens # << >>
        <4>1. Tell(Enqueue("accepted", h.tokens))
          BY <1>6, <3>2 DEF Announce, Tell, on_accepted
        <4>2. Clear(Len(queue))
          BY <2>1 DEF PreviewInv, Cleared, Tells
        <4>3. /\ RendererInv' /\ Silent'
              /\ Watch => \A last \in Seq(Token) :
                    Leads(last) => Leads(After(last, [type |-> "accepted", tokens |-> h.tokens]))'
          BY <1>1, <4>1, <4>2, Told
        <4>4. After(given, [type |-> "accepted", tokens |-> h.tokens]) = given1
          BY <1>2 DEF After
        <4>5. PICK last \in Seq(Token) : last = given
          BY <1>1
        <4>6. Watch => Leads(After(last, [type |-> "accepted", tokens |-> h.tokens]))'
          BY <1>4, <4>3, <4>5
        <4>7. QED BY <4>3, <4>4, <4>5, <4>6
      <3>3. QED BY <3>1, <3>2
    <2>4. QED BY <1>5, <2>1, <2>2, <2>3
  <1>7. CASE Judge(h)
    <2>1. h.kind = "Draft" /\ h.at = "Draft"
      BY <1>7 DEF Judge, PreviewInv, Placed
    <2>2. PICK block : To(h, [h EXCEPT !.at = "preview", !.block = block])
      BY <1>7 DEF Judge
    <2> DEFINE g == [h EXCEPT !.at = "preview", !.block = block]
    <2>3. g.id = h.id /\ g.kind = h.kind /\ g.at = "preview" /\ To(h, g)
      BY <1>1, <2>2 DEF Handler
    <2> HIDE DEF g
    <2>4. Tell(Enqueue("verdict", h.tokens))
      BY <1>7 DEF Judge, Tell, on_verdict
    <2>5. /\ RendererInv' /\ Silent' /\ Clear(Len(queue))'
          /\ Watch => \A last \in Seq(Token) :
                Leads(last) => Leads(After(last, [type |-> "verdict", tokens |-> h.tokens]))'
      BY <1>1, <2>4, Told
    <2>6. After(given, [type |-> "verdict", tokens |-> h.tokens]) = given1
      BY <1>2 DEF After
    <2>7. PICK last \in Seq(Token) : last = given
      BY <1>1
    <2>8. Watch => Leads(After(last, [type |-> "verdict", tokens |-> h.tokens]))'
      BY <1>4, <2>5, <2>7
    <2>9. Watch => Leads(given1)'
      BY <2>6, <2>7, <2>8
    <2>10. QED BY <1>5, <2>1, <2>3, <2>5, <2>9
  <1>8. QED BY <1>6, <1>7

\* A Draft tells of its block and returns.
LEMMA PreviewBlock ==
    ASSUME SingleServer, Inv, PreviewInv, NEW h \in handlers, Preview(h)
    PROVE  PreviewInv'
  <1>1. /\ h.at = "preview" /\ h.kind = "Draft" /\ h.block \in Seq(Token)
        /\ handlers = {h} /\ given \in Seq(Token) /\ given' = given
    BY CallerTyped, OneHandler DEF PreviewInv, Placed, Handler, Preview
  <1>2. Clear(Len(queue)) /\ Caller(h).next # "Prefill" /\ (Watch => Leads(given))
    BY <1>1 DEF PreviewInv, Cleared, Tells, Foretold
  <1>3. Tell(Enqueue("draft", h.block))
    BY DEF Preview, Tell, on_draft
  <1>4. /\ RendererInv' /\ Silent'
        /\ Watch => \A last \in Seq(Token) :
              Leads(last) => Leads(After(last, [type |-> "draft", tokens |-> h.block]))'
    BY <1>1, <1>2, <1>3, Told
  <1>5. Watch => Leads(given)'
    <2>1. PICK last \in Seq(Token) : last = given
      BY <1>1
    <2>2. After(last, [type |-> "draft", tokens |-> h.block]) = last
      BY DEF After
    <2>3. Watch => Leads(last)'
      BY <1>2, <1>4, <2>1, <2>2
    <2>4. QED BY <1>1, <2>1, <2>3
  <1> DEFINE server == [Caller(h) EXCEPT !.block = h.block]
  <1>6. server \in ServerState /\ server.next = Caller(h).next /\ Return(h, server)
    BY CallerTyped DEF ServerState, Preview
  <1> HIDE DEF server
  <1>7. handlers' = {} /\ Awaited' /\ Placed' /\ \A s \in Server : servers'[s].next = server.next
    BY <1>6, ReturnAwaited
  <1>8. Cleared'
    BY <1>2, <1>6, <1>7 DEF Cleared
  <1>9. Foretold'
    BY <1>5, <1>7 DEF Foretold
  <1>10. QED BY <1>1, <1>4, <1>7, <1>8, <1>9 DEF PreviewInv

\* A Reset clears the engine first and tells of it later.
LEMMA PreviewReset ==
    ASSUME SingleServer, Inv, PreviewInv, NEW h \in handlers, ResetEngine(h)
    PROVE  PreviewInv'
  <1> DEFINE g == [h EXCEPT !.at = "signal"]
  <1>1. h.kind = "Reset" /\ UNCHANGED renderer /\ given' = << >>
    BY DEF ResetEngine, PreviewInv, Placed
  <1>2. g.id = h.id /\ g.kind = h.kind /\ g.at = "signal" /\ To(h, g)
    BY CallerTyped DEF Handler, ResetEngine
  <1> HIDE DEF g
  <1>3. handlers' = {g} /\ Awaited' /\ servers' = servers /\ Caller(g)' = Caller(h)
    BY <1>2, MoveAwaited
  <1>4. Placed'
    BY <1>1, <1>2, <1>3 DEF Placed
  <1>5. Cleared'
    BY <1>1, <1>2, <1>3 DEF Cleared, Tells
  <1>6. Foretold' /\ given' \in Seq(Token)
    BY <1>1, <1>2, <1>3 DEF Foretold
  <1>7. QED BY <1>1, <1>3, <1>4, <1>5, <1>6, NotTold DEF PreviewInv

LEMMA PreviewSignal ==
    ASSUME SingleServer, Inv, PreviewInv, NEW h \in handlers, Signal(h)
    PROVE  PreviewInv'
  <1>1. h.at = "signal" /\ given' = given /\ (Watch => given = << >>)
    BY DEF Signal, PreviewInv, Foretold
  <1>2. Tell(Enqueue("reset", << >>)) /\ << >> \in Seq(Token)
    BY DEF Signal, Tell, on_reset
  <1>3. /\ RendererInv' /\ Silent' /\ Clear(Len(queue))'
        /\ Watch => \A last \in Seq(Token) :
              Leads(last) => Leads(After(last, [type |-> "reset", tokens |-> << >>]))'
    BY <1>2, Told
  <1>4. Watch => Leads(<< >>)'
    <2>1. PICK last \in Seq(Token) : Leads(last)
      BY DEF PreviewInv, RendererInv
    <2>2. After(last, [type |-> "reset", tokens |-> << >>]) = << >>
      BY DEF After
    <2>3. QED BY <1>3, <2>1, <2>2
  <1>5. Caller(h) \in ServerState /\ Return(h, Caller(h))
    BY CallerTyped DEF Signal
  <1>6. handlers' = {} /\ Awaited' /\ Placed'
    BY <1>5, ReturnAwaited
  <1>7. Cleared'
    BY <1>3, <1>6 DEF Cleared
  <1>8. Foretold'
    BY <1>1, <1>4, <1>6 DEF Foretold
  <1>9. QED BY <1>1, <1>3, <1>6, <1>7, <1>8 DEF PreviewInv

\* The worker draws.
LEMMA PreviewDraw ==
    ASSUME SingleServer, Inv, PreviewInv, Draw
    PROVE  PreviewInv'
  <1>1. /\ Worker /\ RendererInv
        /\ handlers' = handlers /\ servers' = servers /\ abandoned' = abandoned /\ given' = given
    BY DEF Draw, client, PreviewInv
  <1>2. Awaited' /\ Placed'
    BY <1>1 DEF PreviewInv, Awaited, Placed, Caller
  <1>3. /\ RendererInv' /\ (Clear(Len(queue)) => Clear(Len(queue))')
        /\ \A last : Leads(last) => Leads(last)'
    BY <1>1, WorkerKeeps
  <1>4. Cleared'
    BY <1>1, <1>3 DEF PreviewInv, Cleared, Caller, Tells
  <1>5. Foretold'
    BY <1>1, <1>3 DEF PreviewInv, Foretold
  <1>6. Silent'
    BY <1>1 DEF PreviewInv, Silent, Worker
  <1>7. QED BY <1>1, <1>2, <1>3, <1>4, <1>5, <1>6 DEF PreviewInv

LEMMA PreviewSame ==
    ASSUME PreviewInv, UNCHANGED vars
    PROVE  PreviewInv'
  <1>1. /\ UNCHANGED renderer /\ handlers' = handlers /\ servers' = servers
        /\ abandoned' = abandoned /\ given' = given
    BY DEF vars, client
  <1>2. Awaited' /\ Placed'
    BY <1>1 DEF PreviewInv, Awaited, Placed, Caller
  <1>3. Cleared'
    BY <1>1, NotTold DEF PreviewInv, Cleared, Caller, Tells
  <1>4. Foretold'
    BY <1>1, NotTold DEF PreviewInv, Foretold
  <1>5. QED BY <1>1, <1>2, <1>3, <1>4, NotTold DEF PreviewInv

LEMMA PreviewNext ==
    ASSUME SingleServer, Inv, PreviewInv, [Next]_vars
    PROVE  PreviewInv'
  <1>1. ASSUME NEW s \in Server, Call(s) PROVE PreviewInv'
    BY <1>1, PreviewCall
  <1>2. ASSUME NEW s \in Server, Abandon(s) PROVE PreviewInv'
    BY <1>2 DEF Abandon, PreviewInv, Awaited, SingleServer
  <1>3. ASSUME NEW h \in handlers, Handle(h) PROVE PreviewInv'
    BY <1>3, PreviewQuiet, PreviewGives, PreviewBlock, PreviewReset, PreviewSignal DEF Handle
  <1>4. CASE Draw
    BY <1>4, PreviewDraw
  <1>5. CASE UNCHANGED vars
    BY <1>5, PreviewSame
  <1>6. QED BY <1>1, <1>2, <1>3, <1>4, <1>5 DEF Next

LEMMA PreviewInit == Init => PreviewInv
  <1> SUFFICES ASSUME Init PROVE PreviewInv
    OBVIOUS
  <1>1. /\ queue = << >> /\ transcript = << >> /\ pending_tokens = << >>
        /\ handlers = {} /\ abandoned = 0 /\ given = << >>
        /\ servers = [s \in Server |-> NewServer] /\ NewServer.next # "Prefill"
    BY DEF Init, RendererInit, NewServer
  <1>2. /\ << >> \in Seq(Event) /\ << >> \in Seq(RegionOf(Token)) /\ << >> \in Seq(Token)
        /\ Len(<< >>) = 0
    OBVIOUS
  <1>3. Text(<< >>, "pending") = << >> /\ Text(<< >>, "confirmed") = << >>
    BY TextEmpty
  <1>4. PendingLast
    <2>1. NoPending(<< >>)
      BY <1>3 DEF NoPending
    <2>2. << >> \o Region(<< >>, "pending") = << >>
      BY DEF Region
    <2>3. QED BY <1>1, <1>2, <2>1, <2>2 DEF PendingLast
  <1>5. Leads(<< >>)
    <2> DEFINE text == [i \in 0 .. 0 |-> << >>]
    <2>1. text \in [0 .. 0 -> Seq(Token)] /\ text[0] = << >>
      BY <1>2
    <2> HIDE DEF text
    <2>2. Foretells(text)
      BY <1>1, <1>2, <1>3, <2>1 DEF Foretells
    <2>3. QED BY <1>1, <1>2, <2>1, <2>2 DEF Leads
  <1>6. RendererInv
    <2>1. Drawable
      BY <1>1, <1>2 DEF Drawable
    <2>2. Ordered
      BY <1>1, <1>2 DEF Ordered
    <2>3. QED BY <1>2, <1>4, <1>5, <2>1, <2>2 DEF RendererInv
  <1>7. Awaited /\ Placed /\ Silent /\ Foretold
    BY <1>1, <1>5 DEF Awaited, Placed, Silent, Foretold
  <1>8. Cleared
    BY <1>1 DEF Cleared
  <1>9. QED BY <1>1, <1>2, <1>6, <1>7, <1>8 DEF PreviewInv

\* With one server that gives no call up the preview's invariant holds always.
THEOREM PreviewInductive == SingleServer => (Spec => []PreviewInv)
  <1> SUFFICES ASSUME SingleServer PROVE Spec => []PreviewInv
    OBVIOUS
  <1>1. Init => PreviewInv
    BY PreviewInit
  <1>2. Inv /\ PreviewInv /\ [Next]_vars => PreviewInv'
    BY PreviewNext
  <1>3. QED BY <1>1, <1>2, Inductive, PTL DEF Spec

\* The preview shows as confirmed what its server's engine was given since the
\* last reset, once all events were drawn (watch_renderer.h:25, 31): whatever the
\* tokens, the number of calls and the speed of the worker.
THEOREM ShownIsGiven == SingleServer => (Spec => []ConfirmedIsGiven)
  <1> SUFFICES ASSUME SingleServer PROVE Spec => []ConfirmedIsGiven
    OBVIOUS
  <1>1. PreviewInv => ConfirmedIsGiven
    <2> SUFFICES ASSUME PreviewInv, Watch, queue = << >>, handlers = {}
                 PROVE  Shown("confirmed") = given
      BY DEF ConfirmedIsGiven, Quiet
    <2>1. Leads(given) /\ Len(queue) = 0
      BY DEF PreviewInv, Foretold
    <2>2. given = Text(transcript, "confirmed")
      BY <2>1 DEF Leads, Foretells
    <2>3. QED BY <2>2, Zenon DEF Shown, Text
  <1>2. QED BY <1>1, PreviewInductive, PTL

\* The preview shows as pending just the block that waits for its verdict, in
\* every state (watch_renderer.h:25, 31).
THEOREM ShownIsPending == SingleServer => (Spec => []PendingIsCurrent)
  <1> SUFFICES ASSUME SingleServer PROVE Spec => []PendingIsCurrent
    OBVIOUS
  <1>1. PreviewInv => PendingIsCurrent
    <2> SUFFICES ASSUME PreviewInv PROVE Shown("pending") = pending_tokens
      BY DEF PendingIsCurrent
    <2>1. PICK regions \in Seq(RegionOf(Token)) :
             NoPending(regions) /\ transcript = regions \o Region(pending_tokens, "pending")
      BY DEF PreviewInv, RendererInv, PendingLast
    <2>2. pending_tokens \in Seq(Token)
      BY DEF PreviewInv, RendererInv, Drawable
    <2>3. Text(transcript, "pending") = pending_tokens
      BY <2>1, <2>2, PendingApart
    <2>4. QED BY <2>3, Zenon DEF Shown, Text
  <1>2. QED BY <1>1, PreviewInductive, PTL
=============================================================================
