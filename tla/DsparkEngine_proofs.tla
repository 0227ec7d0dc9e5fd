------------------------ MODULE DsparkEngine_proofs -------------------------
(***************************************************************************)
(* Proofs about dspark_engine, for every vocabulary, context size, block   *)
(* size, chunk size and length of run.                                     *)
(*                                                                         *)
(* The inductive invariant is the conjunction of the three invariants of   *)
(* DsparkEngine.  None is inductive alone: an injected run stays clean     *)
(* because it continues at the mark, which needs ConfirmedHeld; the mark   *)
(* stays inside the cache because truncation spares it.                    *)
(***************************************************************************)
EXTENDS DsparkEngine, SequenceTheorems, TLAPS

\* The inductive invariant, of an engine state.
EngineInv(e) == WellTyped(e) /\ MarkHeld(e) /\ CleanUpToMark(e)

Inv == EngineInv(engine)

\* A run as inject_features receives it: packets of consecutive positions.
IsRun(tokens) ==
    /\ tokens \in Seq(Packet)
    /\ \A i \in 1 .. Len(tokens) : tokens[i].position = tokens[1].position + i - 1

-----------------------------------------------------------------------------
(* The cache operators.                                                    *)

\* Truncating a cache leaves a cache, with the cells below the cut as they were.
LEMMA SeqRmCache ==
    ASSUME NEW C, NEW kv, IsCache(kv, C), NEW p0 \in Nat, NEW r, r = SeqRm(kv, p0)
    PROVE  /\ IsCache(r, C)
           /\ r.last < p0
           /\ r = Empty \/ r.first = kv.first
           /\ \A p \in r.first .. r.last : p \in kv.first .. kv.last /\ r.cell[p] = kv.cell[p]
           /\ \A p \in kv.first .. kv.last : p < p0 => p \in r.first .. r.last
  <1>1. CASE p0 > kv.last
    <2>1. r = kv
      BY <1>1 DEF SeqRm
    <2>2. kv.first \in Int /\ kv.last \in Int
      BY DEF IsCache, Empty
    <2>3. QED BY <1>1, <2>1, <2>2
  <1>2. CASE ~(p0 > kv.last) /\ p0 <= kv.first
    <2>1. r = Empty
      BY <1>2 DEF SeqRm
    <2>2. kv.first \in Int
      BY DEF IsCache, Empty
    <2>3. QED BY <1>2, <2>1, <2>2 DEF IsCache, Empty
  <1>3. CASE ~(p0 > kv.last) /\ ~(p0 <= kv.first)
    <2>1. /\ kv.first \in Nat /\ kv.last \in Nat
          /\ kv.last - kv.first < NCtx
          /\ kv.cell \in [kv.first .. kv.last -> C]
          /\ kv.first < p0 /\ p0 <= kv.last
      BY <1>3 DEF IsCache, Empty
    <2>2. r = [first |-> kv.first, last |-> p0 - 1,
               cell |-> [p \in kv.first .. p0 - 1 |-> kv.cell[p]]]
      BY <1>3 DEF SeqRm, Restrict
    <2>3. /\ r.first = kv.first /\ r.last = p0 - 1
          /\ r.cell = [p \in kv.first .. p0 - 1 |-> kv.cell[p]]
      BY <2>2
    <2>4. IsCache(r, C)
      BY <2>1, <2>2, <2>3, NCtxAssumption DEF IsCache
    <2>5. QED BY <2>1, <2>3, <2>4
  <1>4. QED BY <1>1, <1>2, <1>3

\* A batch that the cache takes extends it by exactly its own cells.
LEMMA DecodeCache ==
    ASSUME NEW C, NEW kv, IsCache(kv, C), NEW f \in Nat, NEW cells \in Seq(C),
           CanDecode(kv, f, Len(cells)),
           NEW r, r = Decode(kv, f, cells)
    PROVE  /\ IsCache(r, C)
           /\ r # Empty
           /\ r.first = IF kv = Empty THEN f ELSE kv.first
           /\ r.last = f + Len(cells) - 1
           /\ \A p \in kv.first .. kv.last : p \in r.first .. r.last /\ r.cell[p] = kv.cell[p]
           /\ \A i \in 1 .. Len(cells) : r.cell[f + i - 1] = cells[i]
  <1> DEFINE n == Len(cells)
             start == IF kv = Empty THEN f ELSE kv.first
             last == f + n - 1
  <1>1. n \in Nat /\ n > 0 /\ cells \in [1 .. n -> C]
    BY DEF CanDecode
  <1>2. /\ start \in Nat /\ last \in Nat /\ start <= f /\ f <= last
        /\ kv # Empty => f = kv.last + 1
    BY <1>1 DEF CanDecode, IsCache, SeqPosMax
  <1>3. last - start < NCtx
    BY SMTT(20), <1>1, <1>2, NCtxAssumption DEF CanDecode, IsCache
  <1>4. r = [first |-> start, last |-> last,
             cell |-> [p \in start .. last |->
                         IF p < f THEN kv.cell[p] ELSE cells[p - f + 1]]]
    BY DEF Decode
  <1> HIDE DEF n, start, last
  <1>5. \A p \in start .. last : p < f => p \in kv.first .. kv.last /\ kv.cell[p] \in C
    <2> SUFFICES ASSUME NEW p \in start .. last, p < f
                 PROVE  p \in kv.first .. kv.last /\ kv.cell[p] \in C
      OBVIOUS
    <2>1. kv # Empty
      BY <1>2 DEF start
    <2>2. QED BY <2>1, <1>2 DEF start, IsCache
  <1>6. r.cell \in [start .. last -> C]
    <2>1. \A p \in start .. last : p >= f => cells[p - f + 1] \in C
      BY <1>1, <1>2 DEF last
    <2>2. r.cell = [p \in start .. last |->
                      IF p < f THEN kv.cell[p] ELSE cells[p - f + 1]]
      BY <1>4
    <2>3. \A p \in start .. last :
             (IF p < f THEN kv.cell[p] ELSE cells[p - f + 1]) \in C
      <3> TAKE p \in start .. last
      <3>1. CASE p < f
        BY <3>1, <1>5
      <3>2. CASE ~(p < f)
        BY <3>2, <2>1, <1>2
      <3>3. QED BY <3>1, <3>2
    <2>4. QED BY <2>2, <2>3
  <1>7. IsCache(r, C) /\ r # Empty /\ r.first = start /\ r.last = last
    BY <1>2, <1>3, <1>4, <1>6 DEF IsCache, Empty
  <1>8. \A p \in kv.first .. kv.last : p \in r.first .. r.last /\ r.cell[p] = kv.cell[p]
    <2>1. CASE kv = Empty
      BY <2>1 DEF Empty
    <2>2. CASE kv # Empty
      <3>1. kv.first \in Nat /\ kv.last \in Nat /\ start = kv.first /\ f = kv.last + 1
        BY <2>2, <1>2 DEF start, IsCache
      <3>2. \A p \in kv.first .. kv.last : p \in start .. last /\ p < f
        BY <3>1, <1>2
      <3>3. r.cell = [p \in start .. last |->
                        IF p < f THEN kv.cell[p] ELSE cells[p - f + 1]]
        BY <1>4
      <3>4. \A p \in kv.first .. kv.last : r.cell[p] = kv.cell[p]
        BY <3>2, <3>3
      <3>5. QED BY <3>2, <3>4, <1>7
    <2>3. QED BY <2>1, <2>2
  <1>9. \A i \in 1 .. n : r.cell[f + i - 1] = cells[i]
    BY <1>1, <1>2, <1>4 DEF last
  <1>10. QED BY <1>7, <1>8, <1>9 DEF n, start, last

\* Where a decoded batch makes the cache begin and end.
LEMMA DecodeEnds ==
    ASSUME NEW kv, NEW f, NEW cells
    PROVE  /\ Decode(kv, f, cells).first = IF kv = Empty THEN f ELSE kv.first
           /\ Decode(kv, f, cells).last = f + Len(cells) - 1
  BY DEF Decode

-----------------------------------------------------------------------------
(* Runs of packets, and their injection.                                   *)

\* RunFrom makes a run of its own contents.
LEMMA RunFromIsRun ==
    ASSUME NEW f \in Nat, NEW m \in Nat, NEW c \in BoundedSeq(Content, m)
    PROVE  LET t == RunFrom(f, c)
           IN  /\ IsRun(t)
               /\ Len(t) > 0 => t[1].position = f
  <1> DEFINE t == RunFrom(f, c)
  <1>1. PICK n \in Nat : c \in [1 .. n -> Content]
    BY DEF BoundedSeq, SeqOf
  <1>2. Len(c) = n /\ t = [i \in 1 .. n |-> [token    |-> c[i].token,
                                             position |-> f + i - 1,
                                             features |-> c[i].features]]
    BY <1>1 DEF RunFrom
  <1> HIDE DEF t
  <1>3. t \in [1 .. n -> Packet]
    BY <1>1, <1>2 DEF Packet, Content
  <1>4. t \in Seq(Packet) /\ Len(t) = n
    BY <1>3
  <1>5. \A i \in 1 .. n : t[i].position = f + i - 1
    BY <1>2
  <1>6. QED BY <1>4, <1>5 DEF IsRun, t

\* However far an injection got, what is in the cache is what one batch of
\* those packets would have put there: the chunks' own checks add up.
LEMMA InjectReach ==
    ASSUME NEW kv, IsCache(kv, Cell), NEW tokens, IsRun(tokens),
           NEW n \in InjectFeatures(kv, tokens)
    PROVE  /\ n \in 0 .. Len(tokens)
           /\ n > 0 => CanDecode(kv, tokens[1].position, n)
  <1> DEFINE len == Len(tokens)
             f   == tokens[1].position
  <1>1. len \in Nat /\ NUbatch \in Nat /\ NUbatch > 0
    BY EngineAssumption DEF IsRun
  <1>2. CASE n = 0
    BY <1>2, <1>1
  <1>3. CASE n # 0
    <2>1. PICK o \in Offsets(tokens) : n = ChunkEnd(tokens, o)
      BY <1>3 DEF InjectFeatures
    <2>2. o \in 0 .. len - 1 /\ n \in Int /\ o < n /\ n <= len
      BY <1>1, <2>1 DEF ChunkEnd, Offsets
    <2>3. ChunkFits(kv, tokens, o)
      BY <2>1, <2>2 DEF InjectFeatures
    <2>4. 0 \in Offsets(tokens)
      BY <1>1, <2>2 DEF Offsets
    <2>5. ChunkFits(kv, tokens, 0)
      BY <2>4, <2>2, <1>1 DEF InjectFeatures
    <2>6. kv = Empty \/ f = SeqPosMax(kv) + 1
      BY <2>5 DEF ChunkFits, CanDecode, After
    <2>7. f \in Nat /\ tokens[o + 1].position = f + o
      <3>1. \A i \in 1 .. len : tokens[i] \in Packet /\ tokens[i].position = f + i - 1
        BY ElementOfSeq DEF IsRun
      <3>2. 1 \in 1 .. len /\ o + 1 \in 1 .. len
        BY <2>2, <1>1
      <3>3. f \in Nat
        BY <3>1, <3>2 DEF Packet
      <3>4. tokens[o + 1].position = f + (o + 1) - 1
        BY <3>1, <3>2
      <3>5. QED BY <3>3, <3>4, <2>2
    <2>8. CASE o = 0
      <3>1. CanDecode(kv, tokens[0 + 1].position, n - 0)
        BY <2>1, <2>3, <2>8 DEF ChunkFits, After
      <3>2. QED BY <3>1, <2>2, <1>1
    <2>9. CASE o # 0
      <3> DEFINE a == After(kv, tokens, o)
      <3>1. Len(SubSeq(tokens, 1, o)) = o
        <4>1. \A i \in 1 .. o : tokens[i] \in Packet
          BY <2>2, <1>1, ElementOfSeq DEF IsRun
        <4>2. QED BY <4>1, <2>2, <2>9, SubSeqProperties
      <3>2. a = Decode(kv, f, SubSeq(tokens, 1, o))
        BY <2>9 DEF After
      <3> DEFINE head == SubSeq(tokens, 1, o)
      <3> HIDE DEF a, f, head
      <3>3. /\ a.first = IF kv = Empty THEN f ELSE kv.first
            /\ a.last = f + o - 1
        <4>1. a = Decode(kv, f, head) /\ Len(head) = o
          BY <3>1, <3>2 DEF head
        <4>2. QED BY <4>1, DecodeEnds
      <3> USE DEF f
      <3>4. a # Empty
        BY <3>3, <2>7, <2>2, <2>9 DEF Empty
      <3>5. a.last - a.first + 1 + (n - o) <= NCtx
        BY <2>1, <2>3, <3>4 DEF ChunkFits, CanDecode, a
      <3>6. IF kv = Empty THEN n <= NCtx ELSE kv.last - kv.first + 1 + n <= NCtx
        <4>1. CASE kv = Empty
          BY <4>1, <3>3, <3>5, <2>2, <2>7, NCtxAssumption
        <4>2. CASE kv # Empty
          <5>1. kv.first \in Nat /\ kv.last \in Nat /\ f = kv.last + 1
            BY <4>2, <2>6 DEF IsCache, SeqPosMax
          <5>2. a.first = kv.first /\ a.last = kv.last + o
            BY <4>2, <5>1, <3>3, <2>2
          <5> DEFINE lo == kv.first
                     hi == kv.last
          <5>3. (hi + o) - lo + 1 + (n - o) <= NCtx
            BY <5>2, <3>5
          <5>4. lo \in Nat /\ hi \in Nat /\ o \in Int /\ n \in Int
            BY <5>1, <2>2
          <5> HIDE DEF lo, hi
          <5>5. hi - lo + 1 + n <= NCtx
            BY <5>3, <5>4, NCtxAssumption
          <5>6. QED BY <4>2, <5>5 DEF lo, hi
        <4>3. QED BY <4>1, <4>2
      <3>7. CanDecode(kv, f, n)
        BY <3>6, <2>2, <2>6 DEF CanDecode
      <3>8. QED BY <3>7, <2>2, <1>1
    <2>10. QED BY <2>2, <2>8, <2>9, <1>1
  <1>4. QED BY <1>2, <1>3

\* The cache after n packets of a run: what it was, and then those packets.
LEMMA AfterCache ==
    ASSUME NEW kv, IsCache(kv, Cell), NEW tokens, IsRun(tokens),
           NEW n \in 1 .. Len(tokens), CanDecode(kv, tokens[1].position, n)
    PROVE  LET r == After(kv, tokens, n)
               f == tokens[1].position
           IN  /\ f \in Nat
               /\ IsCache(r, Cell)
               /\ r # Empty
               /\ r.first = IF kv = Empty THEN f ELSE kv.first
               /\ r.last = f + n - 1
               /\ \A p \in kv.first .. kv.last : p \in r.first .. r.last /\ r.cell[p] = kv.cell[p]
               /\ \A i \in 1 .. n : r.cell[f + i - 1] = tokens[i]
               /\ \A p \in f .. f + n - 1 : r.cell[p] \in Packet /\ r.cell[p].position = p
  <1> DEFINE r == After(kv, tokens, n)
             f == tokens[1].position
             head == SubSeq(tokens, 1, n)
  <1>1. \A i \in 1 .. Len(tokens) : tokens[i] \in Packet /\ tokens[i].position = f + i - 1
    BY ElementOfSeq DEF IsRun
  <1>2. Len(tokens) \in Nat /\ n \in Nat /\ n > 0 /\ f \in Nat
    <2>1. Len(tokens) \in Nat
      BY LenProperties DEF IsRun
    <2>2. n \in Nat /\ n > 0 /\ 1 \in 1 .. Len(tokens)
      BY <2>1
    <2>3. tokens[1] \in Packet
      BY <1>1, <2>2
    <2>4. QED BY <2>1, <2>2, <2>3 DEF Packet
  <1>3. \A i \in 1 .. n : tokens[i] \in Cell
    BY <1>1, <1>2 DEF Cell
  <1>4. head \in Seq(Cell) /\ Len(head) = n /\ \A i \in 1 .. n : head[i] = tokens[i]
    BY <1>2, <1>3, SubSeqProperties
  <1>5. r = Decode(kv, f, head)
    BY <1>2 DEF After
  <1> HIDE DEF r, f, head
  <1>6. /\ IsCache(r, Cell)
        /\ r # Empty
        /\ r.first = IF kv = Empty THEN f ELSE kv.first
        /\ r.last = f + n - 1
        /\ \A p \in kv.first .. kv.last : p \in r.first .. r.last /\ r.cell[p] = kv.cell[p]
        /\ \A i \in 1 .. n : r.cell[f + i - 1] = head[i]
    <2>1. CanDecode(kv, f, Len(head))
      BY <1>4 DEF f
    <2>2. IsCache(r, Cell) /\ r # Empty
      BY <2>1, <1>2, <1>4, <1>5, DecodeCache
    <2>3. r.first = IF kv = Empty THEN f ELSE kv.first
      BY <1>5, DecodeEnds
    <2>4. r.last = f + n - 1
      BY <1>4, <1>5, DecodeEnds
    <2>5. \A p \in kv.first .. kv.last : p \in r.first .. r.last /\ r.cell[p] = kv.cell[p]
      BY <2>1, <1>2, <1>4, <1>5, DecodeCache
    <2>6. \A i \in 1 .. n : r.cell[f + i - 1] = head[i]
      BY <2>1, <1>2, <1>4, <1>5, DecodeCache
    <2>7. QED BY <2>2, <2>3, <2>4, <2>5, <2>6
  <1>7. \A p \in f .. f + n - 1 : r.cell[p] \in Packet /\ r.cell[p].position = p
    <2> SUFFICES ASSUME NEW p \in f .. f + n - 1
                 PROVE  r.cell[p] \in Packet /\ r.cell[p].position = p
      OBVIOUS
    <2> DEFINE i == p - f + 1
    <2>1. i \in 1 .. n /\ i \in 1 .. Len(tokens) /\ f + i - 1 = p
      BY <1>2
    <2>2. r.cell[p] = tokens[i] /\ tokens[i] \in Packet /\ tokens[i].position = f + i - 1
      BY <2>1, <1>1, <1>4, <1>6
    <2>3. QED BY <2>1, <2>2
  <1>8. QED BY <1>2, <1>4, <1>6, <1>7 DEF r, f

\* An injection keeps the engine's invariant, however far it got, and never
\* lowers the mark: it starts from a cache that ends at the mark, or from
\* position 0, which only an empty cache takes.
LEMMA InjectedInv ==
    ASSUME NEW e, NEW kv, EngineInv(e), EngineInv([e EXCEPT !.kv = kv]),
           NEW tokens, IsRun(tokens), NEW n \in InjectFeatures(kv, tokens),
           \/ kv.last = e.kv_confirmed_max
           \/ tokens # << >> => tokens[1].position = 0
    PROVE  LET g == Injected(e, kv, tokens, n)
           IN  /\ EngineInv(g)
               /\ g.kv_confirmed_max >= e.kv_confirmed_max
               /\ tokens = << >> => g = [e EXCEPT !.kv = kv]
               /\ n = Len(tokens) => g.kv = Empty \/ g.kv.last = g.kv_confirmed_max
                                       \/ tokens = << >>
  <1> DEFINE len == Len(tokens)
             f   == tokens[1].position
             r   == After(kv, tokens, n)
             m   == e.kv_confirmed_max
             held == [e EXCEPT !.kv = r]
             g   == Injected(e, kv, tokens, n)
  <1>1. /\ len \in Nat
        /\ n \in 0 .. len
        /\ n > 0 => CanDecode(kv, f, n)
        /\ tokens = << >> <=> len = 0
    BY InjectReach, EmptySeq DEF IsRun, EngineInv, WellTyped
  <1>2. /\ e = [kv |-> e.kv, kv_confirmed_max |-> m, last_token_id |-> e.last_token_id]
        /\ m \in Nat \cup {-1}
        /\ e.last_token_id \in Token
    BY DEF EngineInv, WellTyped
  <1>3. /\ [e EXCEPT !.kv = kv] = [kv |-> kv, kv_confirmed_max |-> m,
                                   last_token_id |-> e.last_token_id]
        /\ held = [kv |-> r, kv_confirmed_max |-> m, last_token_id |-> e.last_token_id]
    BY <1>2
  <1>4. /\ IsCache(kv, Cell)
        /\ m >= 0 => m \in kv.first .. kv.last
        /\ \A p \in kv.first .. kv.last :
              p <= m => kv.cell[p] \in Packet /\ kv.cell[p].position = p
    BY <1>3 DEF EngineInv, WellTyped, MarkHeld, CleanUpToMark
  <1>5. CASE n = 0
    <2>1. r = kv
      BY <1>5 DEF After
    <2>2. g = [e EXCEPT !.kv = kv]
      BY <1>1, <1>5, <2>1 DEF Injected, Confirm
    <2>3. g.kv_confirmed_max = m
      BY <2>2, <1>3
    <2>4. QED BY <1>1, <1>2, <1>5, <2>2, <2>3
  <1>6. CASE n # 0
    <2>0. n \in 1 .. len /\ CanDecode(kv, f, n)
      BY <1>1, <1>6
    <2>1. /\ f \in Nat
          /\ IsCache(r, Cell)
          /\ r # Empty
          /\ r.first = IF kv = Empty THEN f ELSE kv.first
          /\ r.last = f + n - 1
          /\ \A p \in kv.first .. kv.last : p \in r.first .. r.last /\ r.cell[p] = kv.cell[p]
          /\ \A p \in f .. f + n - 1 : r.cell[p] \in Packet /\ r.cell[p].position = p
      BY <2>0, <1>4, AfterCache
    <2>2. kv = Empty => kv.first = 0 /\ kv.last = -1
      BY DEF Empty
    <2>3. /\ kv.first \in Nat /\ kv.last \in Nat \cup {-1}
          /\ kv # Empty => f = kv.last + 1
      BY <2>0, <2>2, <1>4 DEF IsCache, CanDecode, SeqPosMax
    <2> HIDE DEF r, f, m
    <2>4. EngineInv(held)
      <3>1. WellTyped(held)
        BY <1>2, <1>3, <2>1 DEF WellTyped
      <3>2. MarkHeld(held)
        BY <1>3, <1>4, <2>1 DEF MarkHeld
      <3>3. \A p \in r.first .. r.last : p <= m => p \in kv.first .. kv.last
        BY <1>2, <1>4, <2>1, <2>2, <2>3
      <3>4. CleanUpToMark(held)
        BY <3>3, <1>3, <1>4, <2>1 DEF CleanUpToMark
      <3>5. QED BY <3>1, <3>2, <3>4 DEF EngineInv
    <2>5. CASE n < len
      <3>1. g = held
        BY <2>0, <2>5, <1>1 DEF Injected, r
      <3> HIDE DEF g, held
      <3>2. g.kv_confirmed_max = m
        BY <3>1, <1>3
      <3>3. QED BY <3>1, <3>2, <2>0, <2>4, <2>5, <1>1, <1>2 DEF g, m
    <2>6. CASE n = len
      <3> DEFINE last == tokens[len]
      <3>1. /\ last \in Packet /\ last.position = f + n - 1
        BY <2>0, <2>6, <1>1, ElementOfSeq DEF IsRun, f
      <3>2. g = [kv |-> r, kv_confirmed_max |-> r.last, last_token_id |-> last.token]
        <4>1. g = [held EXCEPT !.last_token_id    = last.token,
                               !.kv_confirmed_max = last.position]
          BY <1>1, <2>0, <2>6 DEF Injected, Confirm, Last, r
        <4> HIDE DEF g, held, last
        <4>2. QED BY <4>1, <1>3, <2>1, <3>1
      <3> HIDE DEF g, last
      <3>3. last.token \in Token
        BY <3>1 DEF Packet
      <3>4. WellTyped(g)
        BY <2>0, <2>1, <3>2, <3>3 DEF WellTyped
      <3>5. MarkHeld(g)
        BY <2>1, <3>2 DEF MarkHeld, IsCache
      <3>6. \A p \in r.first .. r.last :
               r.cell[p] \in Packet /\ r.cell[p].position = p
        <4> SUFFICES ASSUME NEW p \in r.first .. r.last, p < f
                     PROVE  r.cell[p] \in Packet /\ r.cell[p].position = p
          BY <2>1, <2>3
        <4>1. kv # Empty /\ p \in kv.first .. kv.last
          BY <2>1, <2>3
        <4>2. kv.last = m
          <5>1. tokens # << >> /\ f # 0
            BY <2>0, <2>3, <1>1, <4>1, <1>4 DEF IsCache
          <5>2. QED BY <5>1 DEF f, m
        <4>3. QED BY <4>1, <4>2, <1>2, <1>4, <2>1, <2>3
      <3>7. CleanUpToMark(g)
        BY <3>2, <3>6 DEF CleanUpToMark
      <3>8. r.last >= m
        BY <1>2, <1>4, <2>0, <2>1, <2>3
      <3>9. QED BY <1>1, <2>0, <3>2, <3>4, <3>5, <3>7, <3>8 DEF EngineInv, g, m
    <2>7. QED BY <1>1, <2>5, <2>6
  <1>7. QED BY <1>5, <1>6

\* What draft() truncates to: the confirmed part, which ends at the mark.
LEMMA TruncatedInv ==
    ASSUME NEW e, EngineInv(e), NEW kv, kv = SeqRm(e.kv, e.kv_confirmed_max + 1)
    PROVE  /\ IsCache(kv, Cell)
           /\ EngineInv([e EXCEPT !.kv = kv])
           /\ kv.last = e.kv_confirmed_max
  <1> DEFINE m == e.kv_confirmed_max
             t == [e EXCEPT !.kv = kv]
  <1>1. /\ t = [kv |-> kv, kv_confirmed_max |-> m, last_token_id |-> e.last_token_id]
        /\ m \in Nat \cup {-1}
        /\ e.last_token_id \in Token
        /\ IsCache(e.kv, Cell)
        /\ m >= 0 => m \in e.kv.first .. e.kv.last
        /\ \A p \in e.kv.first .. e.kv.last :
              p <= m => e.kv.cell[p] \in Packet /\ e.kv.cell[p].position = p
    BY DEF EngineInv, WellTyped, MarkHeld, CleanUpToMark
  <1> HIDE DEF m, t
  <1>2. /\ IsCache(kv, Cell)
        /\ kv.last < m + 1
        /\ \A p \in kv.first .. kv.last : p \in e.kv.first .. e.kv.last /\ kv.cell[p] = e.kv.cell[p]
        /\ \A p \in e.kv.first .. e.kv.last : p < m + 1 => p \in kv.first .. kv.last
    <2> DEFINE p0 == m + 1
    <2>1. p0 \in Nat /\ kv = SeqRm(e.kv, p0)
      BY <1>1 DEF m
    <2> HIDE DEF p0
    <2>2. IsCache(kv, Cell) /\ kv.last < p0
      BY <2>1, <1>1, SeqRmCache
    <2>3. \A p \in kv.first .. kv.last : p \in e.kv.first .. e.kv.last /\ kv.cell[p] = e.kv.cell[p]
      BY <2>1, <1>1, SeqRmCache
    <2>4. \A p \in e.kv.first .. e.kv.last : p < p0 => p \in kv.first .. kv.last
      BY <2>1, <1>1, SeqRmCache
    <2>5. QED BY <2>2, <2>3, <2>4 DEF p0
  <1>3. kv.first \in Nat /\ kv.last \in Nat \cup {-1}
    BY <1>2 DEF IsCache, Empty
  <1>4. m >= 0 => m \in kv.first .. kv.last
    BY <1>1, <1>2
  <1>5. kv.last = m
    BY <1>1, <1>2, <1>3, <1>4
  <1>6. WellTyped(t)
    BY <1>1, <1>2 DEF WellTyped
  <1>7. MarkHeld(t)
    BY <1>1, <1>4 DEF MarkHeld
  <1>8. CleanUpToMark(t)
    BY <1>1, <1>2 DEF CleanUpToMark
  <1>9. QED BY <1>2, <1>5, <1>6, <1>7, <1>8 DEF EngineInv, m, t

\* The noise block goes behind everything held, so behind the mark.
LEMMA RunDraftInv ==
    ASSUME NEW e, EngineInv(e), NEW anchor, NEW max, max \in 0 .. BlockSize,
           NEW out \in RunDraft(e, anchor, max)
    PROVE  /\ EngineInv(out.engine)
           /\ out.engine.kv_confirmed_max = e.kv_confirmed_max
  <1> DEFINE n == IF max < BlockSize THEN max ELSE BlockSize
             first == SeqPosMax(e.kv) + 1
             noise == [i \in 1 .. n |-> Noise]
             r == Decode(e.kv, first, noise)
             m == e.kv_confirmed_max
  <1>1. \/ out.engine = e
        \/ /\ CanDecode(e.kv, first, n)
           /\ out.engine = [e EXCEPT !.kv = r]
    BY DEF RunDraft, Failure, BlockLength
  <1>2. CASE out.engine = e
    BY <1>2
  <1>3. CASE CanDecode(e.kv, first, n) /\ out.engine = [e EXCEPT !.kv = r]
    <2> DEFINE g == [e EXCEPT !.kv = r]
    <2>1. /\ g = [kv |-> r, kv_confirmed_max |-> m, last_token_id |-> e.last_token_id]
          /\ m \in Nat \cup {-1}
          /\ e.last_token_id \in Token
          /\ IsCache(e.kv, Cell)
          /\ m >= 0 => m \in e.kv.first .. e.kv.last
          /\ \A p \in e.kv.first .. e.kv.last :
                p <= m => e.kv.cell[p] \in Packet /\ e.kv.cell[p].position = p
      BY DEF EngineInv, WellTyped, MarkHeld, CleanUpToMark
    <2>2. first \in Nat /\ n \in Nat
      BY <2>1, EngineAssumption DEF IsCache, Empty, SeqPosMax
    <2>3. noise \in Seq(Cell) /\ Len(noise) = n
      BY <2>2 DEF Cell
    <2> HIDE DEF noise, n, first, g, m
    <2>4. CanDecode(e.kv, first, Len(noise))
      BY <1>3, <2>3
    <2> HIDE DEF r
    <2>5. r = Decode(e.kv, first, noise)
      BY DEF r
    <2>6. IsCache(r, Cell)
      <3>1. IsCache(e.kv, Cell) /\ first \in Nat /\ noise \in Seq(Cell)
        BY <2>1, <2>2, <2>3
      <3>2. QED BY ZenonT(40), <3>1, <2>4, <2>5, DecodeCache
    <2>7. r.first = IF e.kv = Empty THEN first ELSE e.kv.first
      BY <2>5, DecodeEnds
    <2>8. \A p \in e.kv.first .. e.kv.last : p \in r.first .. r.last /\ r.cell[p] = e.kv.cell[p]
      BY <2>1, <2>2, <2>3, <2>4, <2>5, DecodeCache
    <2>9. \A p \in r.first .. r.last : p <= m => p \in e.kv.first .. e.kv.last
      <3>1. CASE e.kv = Empty
        BY <3>1, <2>1, <2>2, <2>7 DEF Empty
      <3>2. CASE e.kv # Empty
        BY <3>2, <2>1, <2>7 DEF IsCache
      <3>3. QED BY <3>1, <3>2
    <2>10. WellTyped(g)
      BY <2>1, <2>6 DEF WellTyped
    <2>11. MarkHeld(g)
      BY <2>1, <2>8 DEF MarkHeld
    <2>12. CleanUpToMark(g)
      BY <2>1, <2>8, <2>9 DEF CleanUpToMark
    <2>13. QED BY <1>3, <2>1, <2>10, <2>11, <2>12 DEF EngineInv, g, m, r
  <1>4. QED BY <1>1, <1>2, <1>3

-----------------------------------------------------------------------------
(* The calls.                                                              *)

\* A new engine satisfies the invariant (dspark_engine.h:59).
LEMMA InitInv == Init => EngineInv(engine)
  <1> SUFFICES ASSUME Init PROVE EngineInv(engine)
    OBVIOUS
  <1>1. engine = [kv |-> Empty, kv_confirmed_max |-> -1, last_token_id |-> TokenZero]
    BY DEF Init, InitEngine
  <1>2. WellTyped(engine)
    BY <1>1, EngineAssumption DEF WellTyped, IsCache
  <1>3. QED BY <1>1, <1>2 DEF EngineInv, MarkHeld, CleanUpToMark, Empty

\* A prefill, successful or not, and however many chunks of it went in.
LEMMA PrefillStep ==
    ASSUME EngineInv(engine), Prefill
    PROVE  /\ EngineInv(engine')
           /\ engine'.kv_confirmed_max >= engine.kv_confirmed_max
  <1>1. PICK tokens \in Prompts : \E n \in InjectFeatures(engine.kv, tokens) :
           engine' = Injected(engine, engine.kv, tokens, n)
    BY DEF Prefill, PrefillOutcomes
  <1>2. IsRun(tokens) /\ (tokens # << >> => tokens[1].position = 0)
    BY SMTT(20), RunFromIsRun, EngineAssumption, EmptySeq DEF Prompts, IsRun
  <1>3. [engine EXCEPT !.kv = engine.kv] = engine
    BY DEF EngineInv, WellTyped
  <1>4. QED BY <1>1, <1>2, <1>3, InjectedInv

\* A draft: truncation, injection and noise block, each of which may fail.
LEMMA DraftStep ==
    ASSUME EngineInv(engine), Draft
    PROVE  /\ EngineInv(engine')
           /\ engine'.kv_confirmed_max >= engine.kv_confirmed_max
  <1> DEFINE kv == SeqRm(engine.kv, engine.kv_confirmed_max + 1)
  <1>1. PICK tokens \in Runs, a \in Token, max \in 0 .. BlockSize :
           \E o \in DraftOutcomes(engine, [accepted_tokens  |-> tokens,
                                           anchor_token     |-> a,
                                           max_draft_tokens |-> max]) :
              engine' = o.engine
    BY DEF Draft
  <1> DEFINE req == [accepted_tokens |-> tokens, anchor_token |-> a, max_draft_tokens |-> max]
  <1>a. PICK out \in DraftOutcomes(engine, req) : engine' = out.engine
    BY <1>1
  <1>2. PICK n \in InjectFeatures(kv, tokens) :
           \/ engine' = Injected(engine, kv, tokens, n)
           \/ \E anchor : out \in RunDraft(Injected(engine, kv, tokens, n), anchor, max)
    <2>1. PICK n \in InjectFeatures(kv, tokens) :
             LET e1 == Injected(engine, kv, tokens, n)
             IN  out = Failure(e1) \/ out \in RunDraft(e1, AnchorOf(e1, req), max)
      BY <1>a DEF DraftOutcomes, CutFrom
    <2>2. QED BY <2>1, <1>a DEF Failure
  <1>3. IsRun(tokens)
    BY RunFromIsRun, EngineAssumption DEF Runs
  <1> DEFINE g == Injected(engine, kv, tokens, n)
  <1>4. /\ EngineInv([engine EXCEPT !.kv = kv])
        /\ kv.last = engine.kv_confirmed_max
    BY TruncatedInv
  <1> HIDE DEF kv
  <1>5. EngineInv(g) /\ g.kv_confirmed_max >= engine.kv_confirmed_max
    BY <1>3, <1>4, InjectedInv
  <1> HIDE DEF g
  <1>6. CASE engine' = g
    BY <1>5, <1>6
  <1>7. CASE \E anchor : out \in RunDraft(g, anchor, max)
    BY <1>a, <1>5, <1>7, RunDraftInv
  <1>8. QED BY <1>2, <1>6, <1>7 DEF g

\* A reset engine is as a new one.
LEMMA ResetStep ==
    ASSUME Reset PROVE EngineInv(engine')
  <1>1. engine' = [kv |-> Empty, kv_confirmed_max |-> -1, last_token_id |-> TokenZero]
    BY DEF Reset, InitEngine
  <1>2. WellTyped(engine')
    BY <1>1, EngineAssumption DEF WellTyped, IsCache
  <1>3. QED BY <1>1, <1>2 DEF EngineInv, MarkHeld, CleanUpToMark, Empty

\* The invariant is inductive: one case per call.
LEMMA NextInv == Inv /\ [Next]_engine => Inv'
  <1> SUFFICES ASSUME Inv, [Next]_engine PROVE Inv'
    OBVIOUS
  <1> USE DEF Inv
  <1>1. CASE Prefill
    BY <1>1, PrefillStep
  <1>2. CASE Draft
    BY <1>2, DraftStep
  <1>3. CASE Reset
    BY <1>3, ResetStep
  <1>4. CASE UNCHANGED engine
    BY <1>4
  <1>5. QED BY <1>1, <1>2, <1>3, <1>4 DEF Next

\* So it holds of every engine, whatever calls it got.
LEMMA AlwaysInv == Spec => []Inv
  <1>1. Init => Inv
    BY InitInv DEF Inv
  <1>2. QED BY <1>1, NextInv, PTL DEF Spec

-----------------------------------------------------------------------------
\* The engine's fields stay of their types whatever is called and fails.
THEOREM TypeCorrect == Spec => []TypeOK
  <1>1. Inv => TypeOK
    BY DEF Inv, EngineInv, TypeOK
  <1>2. QED BY <1>1, AlwaysInv, PTL

\* The high-water mark always names a held position (dspark_engine.cpp:253).
THEOREM MarkInCache == Spec => []ConfirmedHeld
  <1>1. Inv => ConfirmedHeld
    BY DEF Inv, EngineInv, ConfirmedHeld
  <1>2. QED BY <1>1, AlwaysInv, PTL

\* No noise, and nothing at a wrong position, is ever below the mark.
THEOREM ConfirmedPrefixClean == Spec => []ConfirmedClean
  <1>1. Inv => ConfirmedClean
    BY DEF Inv, EngineInv, ConfirmedClean
  <1>2. QED BY <1>1, AlwaysInv, PTL

\* Only a reset takes confirmed positions back.
THEOREM MarkMonotone == Spec => MarkRetreatsOnlyByReset
  <1>1. Inv /\ [Next]_engine =>
           [engine'.kv_confirmed_max < engine.kv_confirmed_max => engine' = InitEngine]_engine
    <2> SUFFICES ASSUME Inv, [Next]_engine,
                        engine'.kv_confirmed_max < engine.kv_confirmed_max
                 PROVE  engine' = InitEngine
      OBVIOUS
    <2>0. engine.kv_confirmed_max \in Int /\ engine'.kv_confirmed_max \in Int
      BY NextInv DEF Inv, EngineInv, WellTyped
    <2>1. CASE Prefill
      BY <2>0, <2>1, PrefillStep DEF Inv
    <2>2. CASE Draft
      BY <2>0, <2>2, DraftStep DEF Inv
    <2>3. CASE Reset
      BY <2>3 DEF Reset
    <2>4. CASE UNCHANGED engine
      BY <2>0, <2>4
    <2>5. QED BY <2>1, <2>2, <2>3, <2>4 DEF Next
  <1>2. QED BY <1>1, AlwaysInv, PTL DEF Spec, MarkRetreatsOnlyByReset

-----------------------------------------------------------------------------
(***************************************************************************)
(* Implementation of HeldPrefix.  What a call appends behind the mark is   *)
(* invisible once the cache is cut at the mark; a whole injected run is    *)
(* one step Grow.                                                          *)
(***************************************************************************)
HeldOf(e) == SeqRm(e.kv, e.kv_confirmed_max + 1)

\* Cells appended behind a cut do not change what the cut leaves.
LEMMA CutIgnoresAppended ==
    ASSUME NEW C, NEW kv, IsCache(kv, C), NEW f \in Nat, NEW cells \in Seq(C),
           CanDecode(kv, f, Len(cells)), NEW r, r = Decode(kv, f, cells),
           NEW p0 \in Nat, p0 <= kv.last + 1
    PROVE  SeqRm(r, p0) = SeqRm(kv, p0)
  <1>1. /\ IsCache(r, C) /\ r # Empty
        /\ r.last = f + Len(cells) - 1
    BY DecodeCache
  <1>2. r.first = IF kv = Empty THEN f ELSE kv.first
    BY DecodeEnds
  <1>3. \A p \in kv.first .. kv.last : p \in r.first .. r.last /\ r.cell[p] = kv.cell[p]
    BY DecodeCache
  <1>4. Len(cells) \in Nat /\ Len(cells) > 0
    BY DEF CanDecode
  <1>5. CASE kv = Empty
    <2>1. p0 = 0 /\ kv.last = -1
      BY <1>5 DEF Empty
    <2>2. SeqRm(kv, p0) = Empty
      BY <1>5, <2>1 DEF SeqRm
    <2>3. r.first >= p0 /\ r.last >= p0
      BY <1>1, <1>2, <1>4, <1>5, <2>1
    <2>4. SeqRm(r, p0) = Empty
      BY <2>3, <2>1, <1>1, <1>4 DEF SeqRm
    <2>5. QED BY <2>2, <2>4
  <1>6. CASE kv # Empty
    <2>1. /\ kv.first \in Nat /\ kv.last \in Nat /\ kv.first <= kv.last
          /\ f = kv.last + 1
          /\ kv.cell \in [kv.first .. kv.last -> C]
          /\ kv = [first |-> kv.first, last |-> kv.last, cell |-> kv.cell]
      BY <1>6 DEF IsCache, CanDecode, SeqPosMax
    <2>2. r.first = kv.first /\ r.last \in Int /\ ~(p0 > r.last)
      BY <1>1, <1>2, <1>4, <1>6, <2>1
    <2>3. CASE p0 <= kv.first
      <3>1. ~(p0 > kv.last)
        BY <2>1, <2>3
      <3>2. QED BY <2>2, <2>3, <3>1 DEF SeqRm
    <2>4. CASE ~(p0 <= kv.first)
      <3> DEFINE cut == [p \in kv.first .. p0 - 1 |-> kv.cell[p]]
      <3>1. \A p \in kv.first .. p0 - 1 : p \in kv.first .. kv.last
        BY <2>1
      <3>2. Restrict(r.cell, kv.first .. p0 - 1) = cut
        BY <3>1, <1>3 DEF Restrict
      <3>3. SeqRm(r, p0) = [first |-> kv.first, last |-> p0 - 1, cell |-> cut]
        BY <2>2, <2>4, <3>2 DEF SeqRm
      <3>4. CASE p0 > kv.last
        <4>1. p0 - 1 = kv.last /\ cut = kv.cell
          BY <3>4, <2>1
        <4>2. QED BY <3>3, <3>4, <4>1, <2>1 DEF SeqRm
      <3>5. CASE ~(p0 > kv.last)
        BY <3>3, <3>5, <2>4 DEF SeqRm, Restrict
      <3>6. QED BY <3>4, <3>5
    <2>5. QED BY <2>3, <2>4
  <1>7. QED BY <1>5, <1>6

\* The noise block is invisible.
LEMMA RunDraftHeld ==
    ASSUME NEW e, EngineInv(e), NEW anchor, NEW max, max \in 0 .. BlockSize,
           NEW out \in RunDraft(e, anchor, max)
    PROVE  HeldOf(out.engine) = HeldOf(e)
  <1> DEFINE n == IF max < BlockSize THEN max ELSE BlockSize
             first == SeqPosMax(e.kv) + 1
             noise == [i \in 1 .. n |-> Noise]
             r == Decode(e.kv, first, noise)
             p0 == e.kv_confirmed_max + 1
  <1>1. \/ out.engine = e
        \/ /\ CanDecode(e.kv, first, n)
           /\ out.engine = [e EXCEPT !.kv = r]
    BY DEF RunDraft, Failure, BlockLength
  <1>2. CASE out.engine = e
    BY <1>2
  <1>3. CASE CanDecode(e.kv, first, n) /\ out.engine = [e EXCEPT !.kv = r]
    <2>1. /\ IsCache(e.kv, Cell) /\ p0 \in Nat
          /\ e.kv_confirmed_max >= 0 => e.kv_confirmed_max \in e.kv.first .. e.kv.last
          /\ e = [kv |-> e.kv, kv_confirmed_max |-> e.kv_confirmed_max,
                  last_token_id |-> e.last_token_id]
      BY DEF EngineInv, WellTyped, MarkHeld
    <2>2. first \in Nat /\ n \in Nat /\ p0 <= e.kv.last + 1
      <3>1. e.kv.first \in Nat /\ e.kv.last \in Nat \cup {-1}
        BY <2>1 DEF IsCache, Empty
      <3>2. e.kv_confirmed_max \in Nat \cup {-1}
        BY DEF EngineInv, WellTyped
      <3>3. e.kv_confirmed_max <= e.kv.last
        BY <2>1, <3>1, <3>2
      <3>4. QED BY <3>1, <3>2, <3>3, EngineAssumption DEF SeqPosMax
    <2>3. noise \in Seq(Cell) /\ Len(noise) = n
      BY <2>2 DEF Cell
    <2>4. out.engine.kv = r /\ out.engine.kv_confirmed_max = e.kv_confirmed_max
      BY <1>3, <2>1
    <2> HIDE DEF noise, n, first, r, p0
    <2>5. CanDecode(e.kv, first, Len(noise)) /\ r = Decode(e.kv, first, noise)
      BY <1>3, <2>3 DEF r
    <2>6. SeqRm(r, p0) = SeqRm(e.kv, p0)
      BY <2>1, <2>2, <2>3, <2>5, CutIgnoresAppended
    <2>7. QED BY <2>4, <2>6 DEF HeldOf, p0
  <1>4. QED BY <1>1, <1>2, <1>3

\* Cutting a cache behind its last cell leaves it as it is.
LEMMA CutNothing == ASSUME NEW kv, kv.last \in Int PROVE SeqRm(kv, kv.last + 1) = kv
  BY DEF SeqRm

\* An injection into a cache that shows the confirmed prefix: all of the run is
\* one step of HeldPrefix, part of it is none.
LEMMA InjectedHeld ==
    ASSUME NEW e, NEW kv, EngineInv(e), IsCache(kv, Cell),
           NEW tokens \in Runs, IsRun(tokens), NEW n \in InjectFeatures(kv, tokens),
           SeqRm(kv, e.kv_confirmed_max + 1) = HeldOf(e),
           e.kv_confirmed_max <= kv.last,
           \/ kv = HeldOf(e)
           \/ tokens # << >> => tokens[1].position = 0
    PROVE  LET g == Injected(e, kv, tokens, n)
           IN  \/ HeldOf(g) = HeldOf(e)
               \/ \E run \in Runs :
                     /\ run # << >>
                     /\ CanDecode(HeldOf(e), run[1].position, Len(run))
                     /\ HeldOf(g) = Decode(HeldOf(e), run[1].position, run)
  <1> DEFINE len == Len(tokens)
             f   == tokens[1].position
             r   == After(kv, tokens, n)
             m   == e.kv_confirmed_max
             held == [e EXCEPT !.kv = r]
             g   == Injected(e, kv, tokens, n)
  <1>1. /\ len \in Nat
        /\ n \in 0 .. len
        /\ n > 0 => CanDecode(kv, f, n)
        /\ tokens = << >> <=> len = 0
    BY InjectReach, EmptySeq DEF IsRun
  <1>2. /\ e = [kv |-> e.kv, kv_confirmed_max |-> m, last_token_id |-> e.last_token_id]
        /\ m \in Nat \cup {-1}
        /\ held = [kv |-> r, kv_confirmed_max |-> m, last_token_id |-> e.last_token_id]
    BY DEF EngineInv, WellTyped
  <1>3. CASE n = 0
    <2>1. r = kv
      BY <1>3 DEF After
    <2>2. g = held
      BY <1>1, <1>3 DEF Injected, Confirm
    <2>3. g.kv = kv /\ g.kv_confirmed_max = m
      BY <1>2, <2>1, <2>2
    <2>4. QED BY <2>3 DEF HeldOf
  <1>4. CASE n # 0
    <2> DEFINE head == SubSeq(tokens, 1, n)
    <2>1. n \in 1 .. len /\ n \in Nat /\ CanDecode(kv, f, n) /\ tokens # << >>
      BY <1>1, <1>4
    <2>2. f \in Nat /\ IsCache(r, Cell) /\ r # Empty /\ r.last = f + n - 1
      BY <2>1, AfterCache
    <2>3. \A i \in 1 .. n : tokens[i] \in Cell
      BY <2>1, <1>1, ElementOfSeq DEF IsRun, Cell
    <2>4. head \in Seq(Cell) /\ Len(head) = n /\ \A i \in 1 .. n : head[i] = tokens[i]
      BY <2>1, <2>3, SubSeqProperties
    <2>5. r = Decode(kv, f, head)
      BY <2>1 DEF After
    <2>6. CASE n < len
      <3>1. g = held
        BY <1>1, <2>6 DEF Injected
      <3>2. g.kv = r /\ g.kv_confirmed_max = m
        BY <3>1, <1>2
      <3> DEFINE p0 == m + 1
      <3>3. p0 \in Nat /\ p0 <= kv.last + 1
        BY <1>2 DEF IsCache, Empty
      <3>4. CanDecode(kv, f, Len(head))
        BY <2>1, <2>4
      <3> HIDE DEF p0, r, head, f
      <3>5. SeqRm(r, p0) = SeqRm(kv, p0)
        BY <2>2, <2>4, <2>5, <3>3, <3>4, CutIgnoresAppended
      <3>6. QED BY <3>2, <3>5 DEF HeldOf, p0
    <2>7. CASE n = len
      <3>1. tokens[len].position = f + n - 1
        BY <2>1, <2>7 DEF IsRun
      <3>2. g = [held EXCEPT !.last_token_id    = tokens[len].token,
                             !.kv_confirmed_max = tokens[len].position]
        BY <1>1, <2>1, <2>7 DEF Injected, Confirm, Last
      <3>3. g.kv = r /\ g.kv_confirmed_max = r.last
        BY <1>2, <2>2, <3>1, <3>2
      <3>4. r.last \in Int
        BY <2>1, <2>2
      <3>5. HeldOf(g) = r
        BY <3>3, <3>4, CutNothing DEF HeldOf
      <3>6. head = tokens
        BY <1>1, <2>4, <2>7, SeqEqual, ElementOfSeq DEF IsRun, Cell
      <3>7. kv = HeldOf(e)
        <4> SUFFICES ASSUME f = 0 PROVE kv = HeldOf(e)
          BY <2>1
        <4>1. kv = Empty
          BY <2>1 DEF CanDecode, IsCache, SeqPosMax
        <4>2. kv.last = -1
          BY <4>1 DEF Empty
        <4>3. m + 1 = kv.last + 1
          BY <1>2, <4>2
        <4>4. QED BY <4>2, <4>3, CutNothing
      <3>8. QED BY <2>1, <2>5, <2>7, <3>5, <3>6, <3>7
    <2>8. QED BY <1>1, <2>1, <2>6, <2>7
  <1>5. QED BY <1>3, <1>4

\* The same, as a step of HeldPrefix.
LEMMA GrowStep ==
    ASSUME Held' = Held \/ \E run \in Runs :
              /\ run # << >>
              /\ CanDecode(Held, run[1].position, Len(run))
              /\ Held' = Decode(Held, run[1].position, run)
    PROVE  [Promise!Next]_Held
  <1>1. \A kv, f, n : Promise!CanDecode(kv, f, n) <=> CanDecode(kv, f, n)
    BY DEF CanDecode, Promise!CanDecode, SeqPosMax, Promise!SeqPosMax, Empty, Promise!Empty
  <1>2. \A kv, f, c : Promise!Decode(kv, f, c) = Decode(kv, f, c)
    BY DEF Decode, Promise!Decode, Empty, Promise!Empty
  <1>3. QED BY <1>1, <1>2 DEF Promise!Next, Promise!Grow

\* Prefill, Draft and Reset as steps of HeldPrefix.
LEMMA CallHeld == ASSUME Inv, Next PROVE [Promise!Next]_Held
  <1> USE DEF Inv
  <1> DEFINE h == HeldOf(engine)
             m == engine.kv_confirmed_max
  <1>0. /\ Held = HeldOf(engine)
        /\ Held' = HeldOf(engine')
        /\ IsCache(engine.kv, Cell)
        /\ m \in Nat \cup {-1}
        /\ m >= 0 => m \in engine.kv.first .. engine.kv.last
    BY DEF Held, HeldOf, EngineInv, WellTyped, MarkHeld
  <1>1. CASE Reset
    <2>1. engine' = [kv |-> Empty, kv_confirmed_max |-> -1, last_token_id |-> TokenZero]
      BY <1>1 DEF Reset, InitEngine
    <2>2. Held' = Empty
      BY <2>1, <1>0 DEF HeldOf, SeqRm, Empty
    <2>3. QED BY <2>2 DEF Promise!Next, Promise!Clear, Empty, Promise!Empty
  <1>2. CASE Prefill
    <2>1. PICK tokens \in Prompts : \E n \in InjectFeatures(engine.kv, tokens) :
             engine' = Injected(engine, engine.kv, tokens, n)
      BY <1>2 DEF Prefill, PrefillOutcomes
    <2>2. IsRun(tokens) /\ (tokens # << >> => tokens[1].position = 0) /\ tokens \in Runs
      BY SMTT(20), RunFromIsRun, EngineAssumption, EmptySeq DEF Prompts, IsRun, Runs
    <2>3. m <= engine.kv.last
      BY <1>0 DEF IsCache, Empty
    <2>4. SeqRm(engine.kv, m + 1) = h
      BY DEF HeldOf
    <2>5. \/ HeldOf(engine') = HeldOf(engine)
          \/ \E run \in Runs :
                /\ run # << >>
                /\ CanDecode(HeldOf(engine), run[1].position, Len(run))
                /\ HeldOf(engine') = Decode(HeldOf(engine), run[1].position, run)
      BY <1>0, <2>1, <2>2, <2>3, <2>4, InjectedHeld
    <2>6. QED BY <1>0, <2>5, GrowStep
  <1>3. CASE Draft
    <2> DEFINE kv == SeqRm(engine.kv, m + 1)
    <2>1. PICK tokens \in Runs, a \in Token, max \in 0 .. BlockSize :
             \E o \in DraftOutcomes(engine, [accepted_tokens  |-> tokens,
                                             anchor_token     |-> a,
                                             max_draft_tokens |-> max]) :
                engine' = o.engine
      BY <1>3 DEF Draft
    <2> DEFINE req == [accepted_tokens |-> tokens, anchor_token |-> a, max_draft_tokens |-> max]
    <2>2. PICK out \in DraftOutcomes(engine, req) : engine' = out.engine
      BY <2>1
    <2>3. PICK n \in InjectFeatures(kv, tokens) :
             LET e1 == Injected(engine, kv, tokens, n)
             IN  out = Failure(e1) \/ out \in RunDraft(e1, AnchorOf(e1, req), max)
      BY <2>2 DEF DraftOutcomes, CutFrom
    <2> DEFINE g == Injected(engine, kv, tokens, n)
    <2>4. IsRun(tokens)
      BY RunFromIsRun, EngineAssumption DEF Runs
    <2>5. /\ IsCache(kv, Cell) /\ kv.last = m
          /\ EngineInv([engine EXCEPT !.kv = kv])
      BY TruncatedInv
    <2>6. kv = HeldOf(engine) /\ SeqRm(kv, m + 1) = kv
      BY <2>5, <1>0, CutNothing DEF HeldOf
    <2> HIDE DEF kv
    <2>7. EngineInv(g)
      BY <2>4, <2>5, InjectedInv
    <2>8. \/ HeldOf(g) = HeldOf(engine)
          \/ \E run \in Runs :
                /\ run # << >>
                /\ CanDecode(HeldOf(engine), run[1].position, Len(run))
                /\ HeldOf(g) = Decode(HeldOf(engine), run[1].position, run)
      BY <1>0, <2>4, <2>5, <2>6, InjectedHeld
    <2> HIDE DEF g
    <2>9. HeldOf(engine') = HeldOf(g)
      <3>1. CASE out = Failure(g)
        BY <2>2, <3>1 DEF Failure
      <3>2. CASE out \in RunDraft(g, AnchorOf(g, req), max)
        BY <2>2, <2>7, <3>2, RunDraftHeld
      <3>3. QED BY <2>3, <3>1, <3>2 DEF g
    <2>10. QED BY <1>0, <2>8, <2>9, GrowStep
  <1>4. QED BY <1>1, <1>2, <1>3 DEF Next

\* Behind the noise, the failures and the half-injected chunks, the engine is a
\* session that grows by whole shipped runs and is otherwise given up as a whole.
THEOREM ImplementsHeldPrefix == Spec => HeldSpec
  <1>1. Init => Promise!Init
    BY DEF Init, InitEngine, Promise!Init, Held, SeqRm, Empty, Promise!Empty
  <1>2. Inv /\ [Next]_engine => [Promise!Next]_Held
    <2>1. CASE UNCHANGED engine
      BY <2>1 DEF Held
    <2>2. QED BY <2>1, CallHeld
  <1>3. QED BY <1>1, <1>2, AlwaysInv, PTL DEF Spec, HeldSpec, Promise!Spec-----------------------------------------------------------------------------
(***************************************************************************)
(* What the calls make of a session whose server ships s, a sequence that  *)
(* holds the packet of position p at p + 1.                                *)
(***************************************************************************)

\* Up to mark m the cache holds what was shipped.
Holds(kv, m, s) ==
    \A p \in kv.first .. kv.last : p <= m => p < Len(s) /\ kv.cell[p] = s[p + 1]

\* A run that is part of what was shipped.
PartOf(tokens, s) ==
    \A i \in 1 .. Len(tokens) :
        tokens[i].position < Len(s) /\ tokens[i] = s[tokens[i].position + 1]

LEMMA NewEngine ==
    /\ EngineInv(InitEngine)
    /\ InitEngine.kv = Empty /\ InitEngine.kv_confirmed_max = -1
  <1>1. InitEngine = [kv |-> Empty, kv_confirmed_max |-> -1, last_token_id |-> TokenZero]
    BY DEF InitEngine
  <1>2. WellTyped(InitEngine)
    BY <1>1, EngineAssumption DEF WellTyped, IsCache
  <1>3. QED BY <1>1, <1>2 DEF EngineInv, MarkHeld, CleanUpToMark, Empty

\* An injection in parts: nothing of it, or a prefix of the run that the cache
\* takes; the mark moves only with all of it.
LEMMA InjectedParts ==
    ASSUME NEW e, WellTyped(e), NEW kv, IsCache(kv, Cell), NEW tokens, IsRun(tokens),
           NEW n \in InjectFeatures(kv, tokens), NEW g, g = Injected(e, kv, tokens, n)
    PROVE  \/ n = 0 /\ g.kv = kv /\ g.kv_confirmed_max = e.kv_confirmed_max
           \/ /\ n \in 1 .. Len(tokens)
              /\ CanDecode(kv, tokens[1].position, n)
              /\ g.kv = After(kv, tokens, n)
              /\ g.kv_confirmed_max = IF n = Len(tokens) THEN tokens[1].position + n - 1
                                                        ELSE e.kv_confirmed_max
  <1> DEFINE r == After(kv, tokens, n)
             held == [e EXCEPT !.kv = r]
  <1>1. /\ Len(tokens) \in Nat
        /\ n \in 0 .. Len(tokens)
        /\ n > 0 => CanDecode(kv, tokens[1].position, n)
        /\ tokens = << >> <=> Len(tokens) = 0
    BY InjectReach, EmptySeq DEF IsRun
  <1>2. held = [kv |-> r, kv_confirmed_max |-> e.kv_confirmed_max,
                last_token_id |-> e.last_token_id]
    BY DEF WellTyped
  <1>3. CASE n = 0
    <2>1. r = kv
      BY <1>3 DEF After
    <2>2. g = held
      BY <1>1, <1>3 DEF Injected, Confirm
    <2>3. QED BY <1>2, <1>3, <2>1, <2>2
  <1>4. CASE n # 0 /\ n # Len(tokens)
    <2>1. g = held
      BY <1>1, <1>4 DEF Injected
    <2>2. QED BY <1>1, <1>2, <1>4, <2>1
  <1>5. CASE n # 0 /\ n = Len(tokens)
    <2> DEFINE last == tokens[n]
    <2>1. last.position = tokens[1].position + n - 1
      BY <1>1, <1>5 DEF IsRun
    <2>2. g = [held EXCEPT !.last_token_id    = last.token,
                           !.kv_confirmed_max = last.position]
      BY <1>1, <1>5 DEF Injected, Confirm, Last
    <2> HIDE DEF last, held, r
    <2>3. g.kv = r /\ g.kv_confirmed_max = last.position
      BY <1>2, <2>2
    <2>4. QED BY <1>1, <1>5, <2>1, <2>3 DEF r
  <1>6. QED BY <1>3, <1>4, <1>5

\* An injection of a part of what was shipped keeps what is held of it.
LEMMA InjectedHolds ==
    ASSUME NEW e, WellTyped(e), NEW kv, IsCache(kv, Cell), NEW tokens, IsRun(tokens),
           NEW n \in InjectFeatures(kv, tokens), NEW g, g = Injected(e, kv, tokens, n),
           \/ kv.last = e.kv_confirmed_max
           \/ tokens # << >> => tokens[1].position = 0,
           NEW s, Holds(kv, e.kv_confirmed_max, s), PartOf(tokens, s),
           e.kv_confirmed_max <= kv.last
    PROVE  Holds(g.kv, g.kv_confirmed_max, s)
  <1> DEFINE f == tokens[1].position
             r == After(kv, tokens, n)
             m == e.kv_confirmed_max
  <1>1. CASE n = 0 /\ g.kv = kv /\ g.kv_confirmed_max = m
    BY <1>1 DEF Holds
  <1>2. CASE /\ n \in 1 .. Len(tokens)
             /\ CanDecode(kv, f, n)
             /\ g.kv = r
             /\ g.kv_confirmed_max = IF n = Len(tokens) THEN f + n - 1 ELSE m
    <2>1. /\ f \in Nat
          /\ r.first = IF kv = Empty THEN f ELSE kv.first
          /\ r.last = f + n - 1
          /\ \A p \in kv.first .. kv.last : p \in r.first .. r.last /\ r.cell[p] = kv.cell[p]
          /\ \A i \in 1 .. n : r.cell[f + i - 1] = tokens[i]
      BY <1>2, AfterCache
    <2>2. /\ Len(tokens) \in Nat /\ n \in Nat /\ n > 0 /\ tokens # << >>
          /\ m \in Nat \cup {-1}
      BY <1>2, EmptySeq DEF IsRun, WellTyped
    <2>3. /\ kv = Empty => kv.first = 0 /\ kv.last = -1
          /\ kv.first \in Nat /\ kv.last \in Nat \cup {-1}
          /\ kv # Empty => f = kv.last + 1 /\ kv.last \in Nat
      BY <1>2 DEF Empty, IsCache, CanDecode, SeqPosMax
    <2> HIDE DEF f, r, m
    <2>4. ASSUME NEW p \in r.first .. r.last, p <= g.kv_confirmed_max
          PROVE  p < Len(s) /\ r.cell[p] = s[p + 1]
      <3>1. CASE p < f
        <4>1. kv # Empty /\ p \in kv.first .. kv.last /\ p <= m
          <5>1. kv # Empty /\ p \in kv.first .. kv.last
            BY <2>1, <2>3, <3>1
          <5>2. kv.last = m
            BY <2>2, <2>3, <5>1 DEF f, m
          <5>3. QED BY <5>1, <5>2, <2>3
        <4>2. p < Len(s) /\ kv.cell[p] = s[p + 1]
          BY <4>1 DEF Holds, m
        <4>3. QED BY <2>1, <4>1, <4>2
      <3>2. CASE p >= f
        <4> DEFINE i == p - f + 1
        <4>1. i \in 1 .. n /\ i \in 1 .. Len(tokens) /\ f + i - 1 = p /\ p \in Nat
          BY SMTT(20), <1>2, <2>1, <2>2, <2>3, <3>2
        <4> HIDE DEF i
        <4>2. r.cell[p] = tokens[i]
          BY <2>1, <4>1
        <4>3. tokens[i].position = f + i - 1
          BY <4>1 DEF IsRun, f
        <4>4. tokens[i].position < Len(s) /\ tokens[i] = s[tokens[i].position + 1]
          BY <4>1 DEF PartOf
        <4>5. tokens[i].position = p
          BY <4>1, <4>3
        <4>6. QED BY <4>2, <4>4, <4>5
      <3>3. p \in Int
        BY <2>1, <2>3
      <3>4. QED BY <2>1, <3>1, <3>2, <3>3
    <2>5. QED BY <1>2, <2>4 DEF Holds, r
  <1>3. QED BY <1>1, <1>2, InjectedParts
\* An injection that has room and does not fail by itself takes the whole run.
LEMMA InjectsAll ==
    ASSUME ~InferenceFaults, NEW tokens, IsRun(tokens), Len(tokens) <= NCtx,
           NEW n \in InjectFeatures(Empty, tokens)
    PROVE  n = Len(tokens)
  <1> DEFINE f == tokens[1].position
             len == Len(tokens)
             r == After(Empty, tokens, n)
  <1>0. IsCache(Empty, Cell)
    BY DEF IsCache
  <1>1. /\ len \in Nat /\ n \in 0 .. len
        /\ n > 0 => CanDecode(Empty, f, n)
    BY <1>0, InjectReach DEF IsRun
  <1>2. SUFFICES ASSUME n < len PROVE FALSE
    BY <1>1
  <1>3. ~ChunkFits(Empty, tokens, n)
    BY <1>2 DEF InjectFeatures
  <1> DEFINE end == ChunkEnd(tokens, n)
  <1>4. end \in Nat /\ n < end /\ end <= len
    BY <1>1, <1>2, EngineAssumption DEF ChunkEnd
  <1> HIDE DEF end
  <1>5. CASE n = 0
    <2>1. r = Empty
      BY <1>5 DEF After
    <2>2. CanDecode(r, tokens[n + 1].position, end - n)
      BY <1>1, <1>4, <1>5, <2>1, NCtxAssumption DEF CanDecode
    <2>3. QED BY <1>3, <2>2 DEF ChunkFits, end
  <1>6. CASE n > 0
    <2>1. /\ f \in Nat /\ r # Empty /\ r.first = f /\ r.last = f + n - 1
      BY <1>0, <1>1, <1>6, AfterCache
    <2>2. tokens[n + 1].position = f + n
      BY <1>1, <1>2 DEF IsRun
    <2> HIDE DEF f, r
    <2>3. CanDecode(r, tokens[n + 1].position, end - n)
      BY <1>1, <1>4, <2>1, <2>2, NCtxAssumption DEF CanDecode, SeqPosMax
    <2>4. QED BY <1>3, <2>3 DEF ChunkFits, end, r
  <1>7. QED BY <1>1, <1>5, <1>6

\* prefill() keeps the invariant and what is held of what was shipped.
LEMMA PrefillEffect ==
    ASSUME NEW e, EngineInv(e), NEW tokens, IsRun(tokens),
           tokens # << >> => tokens[1].position = 0,
           NEW s, Holds(e.kv, e.kv_confirmed_max, s), PartOf(tokens, s),
           NEW out \in PrefillOutcomes(e, tokens)
    PROVE  /\ EngineInv(out.engine)
           /\ Holds(out.engine.kv, out.engine.kv_confirmed_max, s)
  <1>1. PICK n \in InjectFeatures(e.kv, tokens) : out.engine = Injected(e, e.kv, tokens, n)
    BY DEF PrefillOutcomes
  <1>2. EngineInv([e EXCEPT !.kv = e.kv])
    <2>1. [e EXCEPT !.kv = e.kv] = e
      BY DEF EngineInv, WellTyped
    <2>2. QED BY <2>1
  <1>3. EngineInv(Injected(e, e.kv, tokens, n))
    BY <1>2, InjectedInv
  <1>4. /\ WellTyped(e) /\ IsCache(e.kv, Cell) /\ e.kv_confirmed_max <= e.kv.last
    BY DEF EngineInv, WellTyped, MarkHeld, IsCache, Empty
  <1> DEFINE g == out.engine
  <1>5. g = Injected(e, e.kv, tokens, n)
    BY <1>1
  <1> HIDE DEF g
  <1>6. Holds(g.kv, g.kv_confirmed_max, s)
    BY <1>4, <1>5, InjectedHolds
  <1>7. QED BY <1>1, <1>3, <1>6 DEF g

\* A new engine with room takes the whole of a prompt.
LEMMA PrefillTakesAll ==
    ASSUME ~InferenceFaults, NEW tokens, IsRun(tokens), tokens # << >>,
           tokens[1].position = 0, Len(tokens) <= NCtx,
           NEW out \in PrefillOutcomes(InitEngine, tokens)
    PROVE  /\ out.engine.kv_confirmed_max = Len(tokens) - 1
           /\ out.engine.kv.first = 0
  <1>1. PICK n \in InjectFeatures(Empty, tokens) :
           out.engine = Injected(InitEngine, Empty, tokens, n)
    BY NewEngine DEF PrefillOutcomes
  <1>2. n = Len(tokens) /\ Len(tokens) \in Nat /\ Len(tokens) > 0
    BY InjectsAll, EmptySeq DEF IsRun
  <1>3. WellTyped(InitEngine) /\ IsCache(Empty, Cell)
    BY NewEngine DEF EngineInv, IsCache
  <1> DEFINE g == out.engine
  <1>4. g = Injected(InitEngine, Empty, tokens, n)
    BY <1>1
  <1> HIDE DEF g
  <1>5. /\ CanDecode(Empty, tokens[1].position, n)
        /\ g.kv = After(Empty, tokens, n)
        /\ g.kv_confirmed_max = tokens[1].position + n - 1
    BY <1>2, <1>3, <1>4, InjectedParts
  <1>6. After(Empty, tokens, n).first = 0
    BY <1>2, <1>3, <1>5, AfterCache
  <1>7. QED BY <1>2, <1>5, <1>6 DEF g

\* The noise block leaves what is held, and a block is no longer than asked for.
LEMMA RunDraftEffect ==
    ASSUME NEW e, EngineInv(e), NEW anchor, NEW max, max \in 0 .. BlockSize,
           NEW out \in RunDraft(e, anchor, max)
    PROVE  /\ EngineInv(out.engine)
           /\ out.engine.kv_confirmed_max = e.kv_confirmed_max
           /\ e.kv_confirmed_max >= 0 => out.engine.kv.first = e.kv.first
           /\ \A s : Holds(e.kv, e.kv_confirmed_max, s)
                        => Holds(out.engine.kv, e.kv_confirmed_max, s)
           /\ out.ok => /\ out.draft_tokens \in BoundedSeq(Token, BlockLength(max))
                        /\ out.from.kv = e.kv
  <1> DEFINE n == BlockLength(max)
             first == SeqPosMax(e.kv) + 1
             noise == [i \in 1 .. n |-> Noise]
             r == Decode(e.kv, first, noise)
             m == e.kv_confirmed_max
  <1>1. EngineInv(out.engine) /\ out.engine.kv_confirmed_max = m
    BY RunDraftInv
  <1>2. \/ out.engine = e /\ ~out.ok
        \/ /\ CanDecode(e.kv, first, n)
           /\ out.engine = [e EXCEPT !.kv = r]
           /\ out.ok
           /\ out.draft_tokens \in BoundedSeq(Token, n)
           /\ out.from.kv = e.kv
    BY DEF RunDraft, Failure
  <1>3. CASE out.engine = e /\ ~out.ok
    BY <1>1, <1>3
  <1>4. CASE /\ CanDecode(e.kv, first, n)
             /\ out.engine = [e EXCEPT !.kv = r]
             /\ out.ok
             /\ out.draft_tokens \in BoundedSeq(Token, n)
             /\ out.from.kv = e.kv
    <2>1. /\ out.engine.kv = r
          /\ m \in Nat \cup {-1}
          /\ IsCache(e.kv, Cell)
          /\ m >= 0 => m \in e.kv.first .. e.kv.last
      BY <1>4 DEF EngineInv, WellTyped, MarkHeld
    <2>2. first \in Nat /\ n \in Nat
      BY <2>1, EngineAssumption DEF IsCache, Empty, SeqPosMax, BlockLength
    <2>3. noise \in Seq(Cell) /\ Len(noise) = n
      BY <2>2 DEF Cell
    <2> HIDE DEF noise, n, first, m
    <2>4. CanDecode(e.kv, first, Len(noise))
      BY <1>4, <2>3
    <2> HIDE DEF r
    <2>5. r = Decode(e.kv, first, noise)
      BY DEF r
    <2>6. \A p \in e.kv.first .. e.kv.last : p \in r.first .. r.last /\ r.cell[p] = e.kv.cell[p]
      BY <2>1, <2>2, <2>3, <2>4, <2>5, DecodeCache
    <2>7. r.first = IF e.kv = Empty THEN first ELSE e.kv.first
      BY <2>5, DecodeEnds
    <2>8. \A p \in r.first .. r.last : p <= m => p \in e.kv.first .. e.kv.last
      <3>1. CASE e.kv = Empty
        BY <3>1, <2>1, <2>2, <2>7 DEF Empty
      <3>2. CASE e.kv # Empty
        BY <3>2, <2>1, <2>7 DEF IsCache
      <3>3. QED BY <3>1, <3>2
    <2>9. m >= 0 => r.first = e.kv.first
      BY <2>1, <2>7 DEF Empty
    <2>10. \A s : Holds(e.kv, m, s) => Holds(r, m, s)
      BY <2>6, <2>8 DEF Holds
    <2>11. QED BY <1>1, <1>4, <2>1, <2>9, <2>10 DEF m, n
  <1>5. QED BY <1>2, <1>3, <1>4
\* Where a draft truncates to and what it keeps of what was shipped.
LEMMA TruncatedHolds ==
    ASSUME NEW e, EngineInv(e), NEW kv, kv = SeqRm(e.kv, CutFrom(e))
    PROVE  /\ IsCache(kv, Cell)
           /\ EngineInv([e EXCEPT !.kv = kv])
           /\ kv.last = e.kv_confirmed_max
           /\ e.kv_confirmed_max >= 0 => kv.first = e.kv.first
           /\ \A s : Holds(e.kv, e.kv_confirmed_max, s) => Holds(kv, e.kv_confirmed_max, s)
  <1> DEFINE p0 == CutFrom(e)
  <1>1. p0 \in Nat /\ p0 = e.kv_confirmed_max + 1 /\ IsCache(e.kv, Cell)
    BY DEF CutFrom, EngineInv, WellTyped
  <1>2. IsCache(kv, Cell) /\ EngineInv([e EXCEPT !.kv = kv]) /\ kv.last = e.kv_confirmed_max
    BY TruncatedInv DEF CutFrom
  <1>3. kv = SeqRm(e.kv, p0)
    OBVIOUS
  <1> HIDE DEF p0
  <1>4. /\ kv = Empty \/ kv.first = e.kv.first
        /\ \A p \in kv.first .. kv.last : p \in e.kv.first .. e.kv.last /\ kv.cell[p] = e.kv.cell[p]
    BY <1>1, <1>3, SeqRmCache
  <1>5. e.kv_confirmed_max >= 0 => kv.first = e.kv.first
    BY <1>2, <1>4 DEF Empty
  <1>6. \A s : Holds(e.kv, e.kv_confirmed_max, s) => Holds(kv, e.kv_confirmed_max, s)
    BY <1>4 DEF Holds
  <1>7. QED BY <1>2, <1>5, <1>6

\* draft() keeps the invariant and what is held of what was shipped; a block it
\* returns is no longer than asked for and comes from a cache that ends at the
\* last position of the accepted run.
LEMMA DraftEffect ==
    ASSUME NEW e, EngineInv(e), NEW req, IsRun(req.accepted_tokens),
           req.max_draft_tokens \in 0 .. BlockSize,
           NEW s, Holds(e.kv, e.kv_confirmed_max, s), PartOf(req.accepted_tokens, s),
           NEW out \in DraftOutcomes(e, req)
    PROVE  LET m == out.engine.kv_confirmed_max
               tokens == req.accepted_tokens
           IN  /\ EngineInv(out.engine)
               /\ Holds(out.engine.kv, m, s)
               /\ m >= e.kv_confirmed_max
               /\ e.kv_confirmed_max >= 0 => out.engine.kv.first = e.kv.first
               /\ out.ok /\ e.kv_confirmed_max >= 0 => out.from.kv.first = e.kv.first
               /\ out.ok =>
                     /\ out.draft_tokens \in BoundedSeq(Token, req.max_draft_tokens)
                     /\ IsCache(out.from.kv, Cell)
                     /\ out.from.kv.last = m
                     /\ Holds(out.from.kv, m, s)
                     /\ m = IF tokens = << >> THEN e.kv_confirmed_max
                            ELSE tokens[1].position + Len(tokens) - 1
  <1> DEFINE tokens == req.accepted_tokens
             max == req.max_draft_tokens
             kv == SeqRm(e.kv, CutFrom(e))
             m0 == e.kv_confirmed_max
  <1>1. PICK n \in InjectFeatures(kv, tokens) :
           LET g == Injected(e, kv, tokens, n)
           IN  \/ out = Failure(g)
               \/ n = Len(tokens) /\ out \in RunDraft(g, AnchorOf(g, req), max)
    BY DEF DraftOutcomes
  <1> DEFINE g == Injected(e, kv, tokens, n)
             m == g.kv_confirmed_max
  <1>2. /\ IsCache(kv, Cell)
        /\ EngineInv([e EXCEPT !.kv = kv])
        /\ kv.last = m0
        /\ m0 >= 0 => kv.first = e.kv.first
        /\ Holds(kv, m0, s)
    BY TruncatedHolds
  <1>3. IsRun(tokens) /\ PartOf(tokens, s) /\ WellTyped(e) /\ m0 \in Nat \cup {-1}
    BY DEF EngineInv, WellTyped
  <1> HIDE DEF kv, tokens, max
  <1>4. EngineInv(g) /\ m >= m0
    BY <1>2, <1>3, InjectedInv
  <1>5. g = Injected(e, kv, tokens, n)
    OBVIOUS
  <1> HIDE DEF g
  <1>6. Holds(g.kv, m, s)
    BY <1>2, <1>3, <1>5, InjectedHolds
  <1>7. \/ n = 0 /\ g.kv = kv /\ m = m0
        \/ /\ n \in 1 .. Len(tokens)
           /\ CanDecode(kv, tokens[1].position, n)
           /\ g.kv = After(kv, tokens, n)
           /\ m = IF n = Len(tokens) THEN tokens[1].position + n - 1 ELSE m0
    BY <1>2, <1>3, <1>5, InjectedParts
  <1>8. m0 >= 0 => g.kv.first = kv.first
    <2>1. CASE n = 0 /\ g.kv = kv
      BY <2>1
    <2>2. CASE /\ n \in 1 .. Len(tokens)
               /\ CanDecode(kv, tokens[1].position, n)
               /\ g.kv = After(kv, tokens, n)
      <3>1. g.kv.first = IF kv = Empty THEN tokens[1].position ELSE kv.first
        BY <1>2, <1>3, <2>2, AfterCache
      <3>2. m0 >= 0 => kv # Empty
        BY <1>2 DEF Empty
      <3>3. QED BY <3>1, <3>2
    <2>3. QED BY <1>7, <2>1, <2>2
  <1>9. CASE out = Failure(g)
    <2>1. out.engine = g /\ ~out.ok
      BY <1>9 DEF Failure
    <2>2. QED BY <1>2, <1>4, <1>6, <1>8, <2>1
  <1>10. CASE n = Len(tokens) /\ out \in RunDraft(g, AnchorOf(g, req), max)
    <2>0. max \in 0 .. BlockSize /\ out \in RunDraft(g, AnchorOf(g, req), max)
      BY <1>10 DEF max
    <2>1. /\ EngineInv(out.engine)
          /\ out.engine.kv_confirmed_max = m
          /\ m >= 0 => out.engine.kv.first = g.kv.first
          /\ out.ok => /\ out.draft_tokens \in BoundedSeq(Token, BlockLength(max))
                       /\ out.from.kv = g.kv
      BY <1>4, <2>0, RunDraftEffect
    <2>2. Holds(out.engine.kv, m, s)
      BY <1>4, <1>6, <2>0, RunDraftEffect
    <2>3. BlockLength(max) = max
      BY EngineAssumption DEF BlockLength, max
    <2>4. IsCache(g.kv, Cell)
      BY <1>4 DEF EngineInv, WellTyped
    <2>5. m = IF tokens = << >> THEN m0 ELSE tokens[1].position + Len(tokens) - 1
      BY <1>3, <1>7, <1>10, EmptySeq DEF IsRun
    <2>6. g.kv.last = m
      <3>1. CASE n = 0
        BY <1>2, <1>7, <3>1
      <3>2. CASE n # 0
        BY <1>2, <1>3, <1>7, <1>10, <3>2, AfterCache
      <3>3. QED BY <3>1, <3>2
    <2>7. m0 >= 0 => m >= 0
      BY <1>3, <1>4 DEF EngineInv, WellTyped
    <2>8. QED BY <1>2, <1>4, <1>6, <1>8, <2>1, <2>2, <2>3, <2>4, <2>5, <2>6, <2>7 DEF tokens, max
  <1>11. QED BY <1>1, <1>9, <1>10 DEF g, tokens, max, kv

\* ... a cache that starts where the engine's does,
LEMMA DraftStarts ==
    ASSUME NEW e, EngineInv(e), NEW req, IsRun(req.accepted_tokens),
           req.max_draft_tokens \in 0 .. BlockSize,
           NEW s, Holds(e.kv, e.kv_confirmed_max, s), PartOf(req.accepted_tokens, s),
           NEW out \in DraftOutcomes(e, req), out.ok, e.kv_confirmed_max >= 0
    PROVE  out.from.kv.first = e.kv.first
  BY ZenonT(40), DraftEffect

\* ... and ends where the accepted run does, if there is one.
LEMMA DraftEnds ==
    ASSUME NEW e, EngineInv(e), NEW req, IsRun(req.accepted_tokens),
           req.max_draft_tokens \in 0 .. BlockSize,
           NEW s, Holds(e.kv, e.kv_confirmed_max, s), PartOf(req.accepted_tokens, s),
           NEW out \in DraftOutcomes(e, req), out.ok
    PROVE  out.engine.kv_confirmed_max =
             IF req.accepted_tokens = << >> THEN e.kv_confirmed_max
             ELSE req.accepted_tokens[1].position + Len(req.accepted_tokens) - 1
  BY DraftEffect
=============================================================================
