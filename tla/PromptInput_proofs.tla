------------------------ MODULE PromptInput_proofs ------------------------
(***************************************************************************)
(* Proofs about the chat's input, for any limit, any number of files and   *)
(* texts, and any number of overlapping submissions and screenshots.       *)
(***************************************************************************)
EXTENDS PromptInput, FiniteSetTheorems, SequenceTheorems, TLAPS

-----------------------------------------------------------------------------
(* The inductive invariant                                                 *)

\* The live object URLs are the attached files, which are few enough, and those
\* that were made for an input that was gone.
Attached ==
    /\ made \in 0 .. MaxUrls /\ urls \subseteq 1 .. made
    /\ urls = files \cup late /\ files \cap late = {}
    /\ ~provider => Cardinality(files) <= MaxFiles

\* What a submission converts is still there, unless it was disturbed.
Reads(s) ==
    submits[s].at = "converting" =>
       /\ DOMAIN submits[s] = {"at", "of", "text", "pending", "kept", "disturbed"}
       /\ submits[s].text \in 0 .. typed /\ submits[s].pending \subseteq Url
       /\ submits[s].kept \in BOOLEAN /\ submits[s].disturbed \in BOOLEAN
       /\ ~submits[s].disturbed => submits[s].pending \subseteq urls /\ ~submits[s].kept

Submits ==
    /\ DOMAIN submits = Submission
    /\ \A s \in Submission :
          submits[s].at \in {"idle", "converting", "waiting"} /\ Reads(s)

Shots ==
    /\ DOMAIN shots = Shot
    /\ \A q \in Shot : /\ shots[q].at \in {"idle", "asking", "recording"}
                       /\ shots[q].at # "idle" => /\ DOMAIN shots[q] = {"at", "of", "room"}
                                                  /\ shots[q].room \in Nat
    /\ screens = {q \in Shot : shots[q].at = "recording"}

Tree ==
    /\ provider \in BOOLEAN /\ mounted \in BOOLEAN /\ alive \in BOOLEAN
    /\ mounted => alive
    /\ instance \in 1 .. MaxInstances

\* Where each text is: the submissions that carry it, and all places together.
Carriers(t) == {s \in Submission : submits[s].at = "converting" /\ submits[s].text = t}
Places(t) == (IF text = t THEN 1 ELSE 0) + Cardinality(Carriers(t)) + sent[t]

\* A text that was not typed yet is nowhere.
Texts ==
    /\ typed \in 0 .. MaxTexts /\ text \in 0 .. typed
    /\ sent \in [Text \ {0} -> 0 .. Often]
    /\ ~provider =>
          /\ \A t \in 1 .. typed : t \in dropped \/ Places(t) = 1
          /\ \A t \in typed + 1 .. MaxTexts : sent[t] = 0

Inv == Tree /\ Attached /\ Submits /\ Shots /\ Texts

-----------------------------------------------------------------------------
(* Attachments                                                             *)

LEMMA Bounds ==
    /\ MaxFiles \in Nat /\ MaxUrls \in Nat /\ MaxTexts \in Nat
    /\ IsFiniteSet(Submission) /\ MaxInstances \in Nat \ {0}
  BY InputAssumption

LEMMA IntervalFinite == \A n \in Nat : IsFiniteSet(1 .. n)
  BY FS_Interval

LEMMA SmallerOf ==
    ASSUME NEW a \in Nat, NEW b \in Nat
    PROVE  Min({a, b}) \in Nat /\ Min({a, b}) <= a /\ Min({a, b}) <= b
  <1>1. \E x \in {a, b} : \A y \in {a, b} : x <= y
    <2>1. CASE a <= b
      BY <2>1
    <2>2. CASE b <= a
      BY <2>2
    <2>3. QED BY <2>1, <2>2
  <1>2. Min({a, b}) \in {a, b} /\ \A y \in {a, b} : Min({a, b}) <= y
    BY <1>1 DEF Min
  <1>3. QED BY <1>2

LEMMA SmallerIs ==
    ASSUME NEW a \in Nat, NEW b \in Nat
    PROVE  Min({a, b}) \in {a, b}
  <1>1. \E x \in {a, b} : \A y \in {a, b} : x <= y
    <2>1. CASE a <= b
      BY <2>1
    <2>2. CASE b <= a
      BY <2>2
    <2>3. QED BY <2>1, <2>2
  <1>2. QED BY <1>1 DEF Min

\* The browser's URLs of an input are finitely many.
LEMMA FilesFinite ==
    ASSUME Attached
    PROVE  IsFiniteSet(files) /\ Cardinality(files) \in Nat
  <1>1. IsFiniteSet(1 .. made)
    BY FS_Interval DEF Attached
  <1>2. files \subseteq 1 .. made
    BY DEF Attached
  <1>3. IsFiniteSet(files)
    BY <1>1, <1>2, FS_Subset
  <1>4. QED BY <1>3, FS_CardinalityType

LEMMA RoomLeft ==
    ASSUME Attached
    PROVE  /\ Capacity \in Nat
           /\ ~provider => Cardinality(files) + Capacity <= MaxFiles
  <1>1. Cardinality(files) \in Nat /\ MaxFiles \in Nat
    BY FilesFinite, Bounds
  <1>2. CASE Cardinality(files) < MaxFiles
    BY <1>1, <1>2 DEF Capacity
  <1>3. CASE ~(Cardinality(files) < MaxFiles)
    <2>1. Capacity = 0
      BY <1>3 DEF Capacity
    <2>2. QED BY <1>1, <2>1 DEF Attached
  <1>4. QED BY <1>2, <1>3

\* New URLs are attached, and none that exists goes.
LEMMA Grows ==
    ASSUME Attached, NEW n \in Nat, AttachNew(n), provider' = provider,
           ~provider => n <= Capacity
    PROVE  Attached' /\ urls \subseteq urls'
  <1> DEFINE new == made + 1 .. made + n
  <1>1. /\ made \in Nat /\ MaxUrls \in Nat /\ made + n <= MaxUrls /\ made' = made + n
        /\ files' = files \cup new /\ urls' = urls \cup new /\ late' = late
    BY Bounds DEF Attached, AttachNew, createObjectURLs, NewUrls
  <1>2. /\ made' \in 0 .. MaxUrls /\ urls' \subseteq 1 .. made'
        /\ urls' = files' \cup late' /\ files' \cap late' = {}
    BY <1>1 DEF Attached
  <1>3. IsFiniteSet(new) /\ Cardinality(new) = n
    <2> DEFINE lo == made + 1
               hi == made + n
    <2>1. lo \in Int /\ hi \in Int /\ (lo > hi => n = 0) /\ (lo <= hi => hi - lo + 1 = n)
      BY <1>1
    <2> HIDE DEF lo, hi
    <2>2. IsFiniteSet(lo .. hi) /\ Cardinality(lo .. hi) = IF lo > hi THEN 0 ELSE hi - lo + 1
      BY <2>1, FS_Interval
    <2>3. QED BY <2>1, <2>2 DEF lo, hi
  <1>4. files \cap new = {}
    BY <1>1 DEF Attached
  <1> HIDE DEF new
  <1>5. Cardinality(files') = Cardinality(files) + n
    <2>1. Cardinality(files \cap new) = 0
      BY <1>4, FS_EmptySet
    <2>2. Cardinality(files \cup new) =
             Cardinality(files) + Cardinality(new) - Cardinality(files \cap new)
      BY <1>3, FilesFinite, FS_Union
    <2>3. QED BY <1>1, <1>3, <2>1, <2>2, FilesFinite
  <1>6. ~provider' => Cardinality(files') <= MaxFiles
    <2> SUFFICES ASSUME ~provider PROVE Cardinality(files') <= MaxFiles
      OBVIOUS
    <2>1. Cardinality(files) + Capacity <= MaxFiles /\ n <= Capacity /\ Capacity \in Nat
      BY RoomLeft
    <2> HIDE DEF Capacity
    <2>2. QED BY <1>5, <2>1, FilesFinite, Bounds
  <1>7. QED BY <1>1, <1>2, <1>6 DEF Attached

\* What is made for an input that is gone is not attached.
LEMMA GrowsUnseen ==
    ASSUME Attached, NEW n \in Nat, createObjectURLs(n), late' = late \cup NewUrls(n),
           UNCHANGED <<files, provider>>
    PROVE  Attached' /\ urls \subseteq urls'
  <1> DEFINE new == made + 1 .. made + n
  <1>1. /\ made \in Nat /\ MaxUrls \in Nat /\ made + n <= MaxUrls /\ made' = made + n
        /\ late' = late \cup new /\ urls' = urls \cup new
    BY Bounds DEF Attached, createObjectURLs, NewUrls
  <1>2. files \cap new = {}
    BY <1>1 DEF Attached
  <1>3. /\ made' \in 0 .. MaxUrls /\ urls' \subseteq 1 .. made'
        /\ urls' = files' \cup late' /\ files' \cap late' = {}
    BY <1>1, <1>2 DEF Attached
  <1>4. QED BY <1>1, <1>3 DEF Attached

\* Of what is offered some number of files is left over.
LEMMA SizedCounts ==
    ASSUME NEW batch, IsFiniteSet(DOMAIN batch)
    PROVE  Sized(batch) \in Nat
  <1> DEFINE kept == {i \in DOMAIN batch : matchesAccept(batch[i]) /\ withinSize(batch[i])}
  <1>1. kept \in SUBSET DOMAIN batch
    OBVIOUS
  <1> HIDE DEF kept
  <1>2. IsFiniteSet(kept)
    BY <1>1, FS_Subset
  <1>3. Cardinality(kept) \in Nat
    BY <1>2, FS_CardinalityType
  <1>4. QED BY <1>3 DEF Sized, kept

LEMMA Adds ==
    ASSUME Attached, NEW of, NEW batch, IsFiniteSet(DOMAIN batch), NEW room \in Nat,
           add(of, batch, room), provider' = provider
    PROVE  Attached' /\ urls \subseteq urls'
  <1>1. Sized(batch) \in Nat /\ Capacity \in Nat
    BY SizedCounts, RoomLeft
  <1>2. CASE addUnmounted(batch, room)
    <2> DEFINE most == Min({Sized(batch), IF provider THEN room ELSE MaxFiles})
    <2>1. most \in Nat
      <3>1. CASE provider
        BY <1>1, <3>1, SmallerOf
      <3>2. CASE ~provider
        BY <1>1, <3>2, SmallerOf, Bounds
      <3>3. QED BY <3>1, <3>2
    <2>2. PICK n \in 0 .. most : createObjectURLs(n) /\ late' = late \cup NewUrls(n)
                                 /\ UNCHANGED files
      BY <1>2 DEF addUnmounted
    <2> HIDE DEF most
    <2>3. n \in Nat
      BY <2>1, <2>2
    <2>4. QED BY <2>2, <2>3, GrowsUnseen
  <1>3. CASE provider /\ addWithProviderValidation(batch, room)
    <2>1. AttachNew(Min({Sized(batch), room}))
      BY <1>3 DEF addWithProviderValidation
    <2>2. Min({Sized(batch), room}) \in Nat
      BY <1>1, SmallerOf
    <2>3. QED BY <1>3, <2>1, <2>2, Grows
  <1>4. CASE ~provider /\ addLocal(batch, room)
    <2>1. AttachNew(Min({Sized(batch), Capacity}))
      BY <1>4 DEF addLocal
    <2>2. /\ Min({Sized(batch), Capacity}) \in Nat
          /\ Min({Sized(batch), Capacity}) <= Capacity
      BY <1>1, SmallerOf
    <2>3. QED BY <2>1, <2>2, Grows
  <1>5. QED BY <1>2, <1>3, <1>4 DEF add

LEMMA Shrinks ==
    ASSUME Attached, NEW taken, taken \subseteq files, Revoked(taken),
           UNCHANGED <<made, late, provider>>
    PROVE  Attached' /\ urls' = urls \ taken
  <1>1. files' = files \ taken /\ urls' = urls \ taken
    BY DEF Revoked
  <1>2. Cardinality(files') <= Cardinality(files) /\ Cardinality(files') \in Nat
    BY <1>1, FilesFinite, FS_Subset, FS_CardinalityType
  <1>3. ~provider => Cardinality(files') <= MaxFiles
    BY <1>2, FilesFinite, Bounds DEF Attached
  <1>4. urls' = files' \cup late /\ files' \cap late = {}
    BY <1>1 DEF Attached
  <1>5. QED BY <1>1, <1>3, <1>4 DEF Attached

-----------------------------------------------------------------------------
(* Submissions under changes of the files                                  *)

LEMMA IdleIs == Idle.at = "idle"
  BY DEF Idle

\* A submission is disturbed when a file it still converts is taken.
LEMMA DisturbedIs ==
    ASSUME Submits, NEW taken
    PROVE  /\ DOMAIN Disturbed(taken) = Submission
           /\ \A s \in Submission :
                 LET d == Disturbed(taken)[s]
                 IN  /\ d.at = submits[s].at
                     /\ d.at # "converting" => d = submits[s]
                     /\ d.at = "converting" =>
                           /\ DOMAIN d = DOMAIN submits[s]
                           /\ d.text = submits[s].text /\ d.pending = submits[s].pending
                           /\ d.kept = submits[s].kept
                           /\ d.disturbed \in BOOLEAN
                           /\ ~d.disturbed => /\ ~submits[s].disturbed
                                              /\ taken \cap submits[s].pending = {}
  <1>1. DOMAIN Disturbed(taken) = Submission
    BY DEF Disturbed
  <1>2. ASSUME NEW s \in Submission
        PROVE  LET d == Disturbed(taken)[s]
               IN  /\ d.at = submits[s].at
                   /\ d.at # "converting" => d = submits[s]
                   /\ d.at = "converting" =>
                         /\ DOMAIN d = DOMAIN submits[s]
                         /\ d.text = submits[s].text /\ d.pending = submits[s].pending
                         /\ d.kept = submits[s].kept
                         /\ d.disturbed \in BOOLEAN
                         /\ ~d.disturbed => /\ ~submits[s].disturbed
                                            /\ taken \cap submits[s].pending = {}
    <2> DEFINE d == Disturbed(taken)[s]
               old == submits[s]
               hit == old.at = "converting" /\ taken \cap old.pending # {}
    <2>1. d = IF hit THEN [old EXCEPT !.disturbed = TRUE] ELSE old
      BY DEF Disturbed
    <2>2. old.at = "converting" =>
             /\ DOMAIN old = {"at", "of", "text", "pending", "kept", "disturbed"}
             /\ old.disturbed \in BOOLEAN
      BY DEF Submits, Reads
    <2> HIDE DEF d
    <2>3. CASE hit
      <3> HIDE DEF old
      <3>1. d = [old EXCEPT !.disturbed = TRUE] /\ old.at = "converting"
        BY <2>1, <2>3
      <3>2. /\ d.at = old.at /\ DOMAIN d = DOMAIN old /\ d.text = old.text
            /\ d.pending = old.pending /\ d.kept = old.kept /\ d.disturbed = TRUE
        BY <2>2, <3>1
      <3>3. QED BY <3>1, <3>2 DEF d, old
    <2>4. CASE ~hit
      BY <2>1, <2>2, <2>4 DEF d
    <2>5. QED BY <2>3, <2>4
  <1>3. QED BY <1>1, <1>2

\* Where the texts are does not change with the files.
LEMMA SameCarriers ==
    ASSUME \A s \in Submission :
              /\ submits'[s].at = "converting" <=> submits[s].at = "converting"
              /\ submits[s].at = "converting" => submits'[s].text = submits[s].text
    PROVE  \A t : Carriers(t)' = Carriers(t)
  BY DEF Carriers

LEMMA TextsStay ==
    ASSUME Texts, UNCHANGED <<provider, text, sent, typed>>, dropped \subseteq dropped',
           \A t : Carriers(t)' = Carriers(t)
    PROVE  Texts'
  <1>1. \A t : Places(t)' = Places(t)
    BY DEF Places
  <1>2. QED BY <1>1 DEF Texts

\* Files are added, or nothing happens to them.
LEMMA ReadsStay ==
    ASSUME Submits, urls \subseteq urls', UNCHANGED <<submits, typed>>
    PROVE  Submits'
  BY DEF Submits, Reads

LEMMA FilesMove ==
    ASSUME Inv, Attached', urls \subseteq urls',
           UNCHANGED <<tree, text, submits, sent, typed, dropped>>, Shots'
    PROVE  Inv'
  <1>1. Tree'
    BY DEF Inv, Tree, tree
  <1>2. Submits'
    BY ReadsStay DEF Inv
  <1>3. \A t : Carriers(t)' = Carriers(t)
    BY DEF Carriers
  <1>4. Texts'
    BY <1>3, TextsStay DEF Inv, tree
  <1>5. QED BY <1>1, <1>2, <1>4 DEF Inv

\* What becomes of the submissions when files are taken.
LEMMA Taken ==
    ASSUME Attached, Submits, NEW taken, taken \subseteq files, Revoked(taken),
           submits' = Disturbed(taken),
           UNCHANGED <<made, late, provider, typed>>
    PROVE  Attached' /\ Submits' /\ \A t : Carriers(t)' = Carriers(t)
  <1>1. Attached' /\ urls' = urls \ taken
    BY Shrinks
  <1>2. \A s \in Submission :
           /\ submits'[s].at = submits[s].at
           /\ submits'[s].at = "converting" => submits'[s].text = submits[s].text
    BY DisturbedIs
  <1>3. \A t : Carriers(t)' = Carriers(t)
    BY <1>2, SameCarriers
  <1>4. DOMAIN submits' = Submission
    BY DisturbedIs
  <1>5. ASSUME NEW s \in Submission
        PROVE  submits'[s].at \in {"idle", "converting", "waiting"} /\ Reads(s)'
    <2>1. submits'[s].at \in {"idle", "converting", "waiting"}
      BY <1>2 DEF Submits
    <2>2. ASSUME submits'[s].at = "converting" PROVE Reads(s)'
      <3>1. /\ DOMAIN submits'[s] = DOMAIN submits[s]
            /\ submits'[s].text = submits[s].text /\ submits'[s].pending = submits[s].pending
            /\ submits'[s].kept = submits[s].kept
            /\ submits'[s].disturbed \in BOOLEAN
            /\ ~submits'[s].disturbed => /\ ~submits[s].disturbed
                                         /\ taken \cap submits[s].pending = {}
        BY <2>2, DisturbedIs
      <3>2. submits[s].at = "converting" /\ Reads(s)
        BY <1>2, <2>2 DEF Submits
      <3>3. QED BY <1>1, <3>1, <3>2 DEF Reads
    <2>3. QED BY <2>1, <2>2 DEF Reads
  <1>6. QED BY <1>1, <1>3, <1>4, <1>5 DEF Submits

-----------------------------------------------------------------------------
(* The user's steps with files and screenshots                             *)

LEMMA ShotsStay ==
    ASSUME Shots, UNCHANGED <<shots, screens>>
    PROVE  Shots'
  BY DEF Shots

LEMMA AttachStep ==
    ASSUME Inv, NEW batch, IsFiniteSet(DOMAIN batch), Attach(batch)
    PROVE  Inv'
  <1>1. Capacity \in Nat
    BY RoomLeft DEF Inv
  <1>2. /\ add(instance, batch, Capacity)
        /\ UNCHANGED <<tree, text, submits, shots, screens, sent, typed, dropped>>
    BY DEF Attach
  <1> HIDE DEF Capacity
  <1>3. Attached' /\ urls \subseteq urls'
    BY <1>1, <1>2, Adds DEF Inv, tree
  <1>4. Shots'
    BY <1>2, ShotsStay DEF Inv
  <1>5. QED BY <1>2, <1>3, <1>4, FilesMove

LEMMA OneElement ==
    ASSUME NEW Kind, NEW x \in Kind
    PROVE  <<x>> \in Seq(Kind)
  OBVIOUS

LEMMA OfferStep ==
    ASSUME Inv, NEW batch \in Batch,
           onDrop(batch) \/ handleChange(batch) \/ handlePaste(<<"no file">> \o batch)
    PROVE  Inv'
  <1> DEFINE Kind == {"good", "other type", "too large", "no file"}
             items == <<"no file">> \o batch
             pasted == {i \in DOMAIN items : items[i] # "no file"}
  <1>1. batch \in Seq(Kind) /\ items \in Seq(Kind)
    <2>1. batch \in Seq(Kind)
      BY InputAssumption
    <2>2. "no file" \in Kind
      OBVIOUS
    <2> HIDE DEF Kind
    <2>3. <<"no file">> \in Seq(Kind)
      BY <2>2, OneElement
    <2>4. QED BY <2>1, <2>3, ConcatProperties
  <1>2. IsFiniteSet(DOMAIN batch) /\ IsFiniteSet(DOMAIN items)
    <2> HIDE DEF items, Kind
    <2>1. DOMAIN batch = 1 .. Len(batch) /\ Len(batch) \in Nat
      BY <1>1, LenProperties
    <2>2. DOMAIN items = 1 .. Len(items) /\ Len(items) \in Nat
      BY <1>1, LenProperties
    <2>3. IsFiniteSet(1 .. Len(batch)) /\ IsFiniteSet(1 .. Len(items))
      BY <2>1, <2>2, IntervalFinite
    <2>4. QED BY <2>1, <2>2, <2>3
  <1>3. CASE onDrop(batch) \/ handleChange(batch)
    BY <1>2, <1>3, AttachStep DEF onDrop, handleChange
  <1>4. CASE handlePaste(items)
    <2>1. Attach(Restrict(items, pasted))
      BY <1>4 DEF handlePaste
    <2>2. DOMAIN Restrict(items, pasted) = pasted
      BY DEF Restrict
    <2>3. IsFiniteSet(pasted)
      <3>1. pasted \in SUBSET DOMAIN items
        OBVIOUS
      <3> HIDE DEF pasted, items
      <3>2. QED BY <1>2, <3>1, FS_Subset
    <2> HIDE DEF pasted, items
    <2>4. QED BY <2>1, <2>2, <2>3, AttachStep
  <1>5. QED BY <1>3, <1>4

LEMMA ProviderAddStep ==
    ASSUME Inv, ProviderAdd(1)
    PROVE  Inv'
  <1>1. /\ provider /\ AttachNew(1)
        /\ UNCHANGED <<tree, text, submits, shots, screens, sent, typed, dropped>>
    BY DEF ProviderAdd
  <1>2. Attached' /\ urls \subseteq urls'
    BY <1>1, Grows DEF Inv, tree
  <1>3. Shots'
    BY <1>1, ShotsStay DEF Inv
  <1>4. QED BY <1>1, <1>2, <1>3, FilesMove

LEMMA TakeAwayStep ==
    ASSUME Inv, TakeAway
    PROVE  Inv'
  <1>1. PICK url \in files : Revoked({url}) /\ submits' = Disturbed({url})
    BY DEF TakeAway, remove
  <1>2. UNCHANGED <<tree, text, made, late, shots, screens, sent, typed, dropped>>
    BY DEF TakeAway
  <1>3. Attached' /\ Submits' /\ \A t : Carriers(t)' = Carriers(t)
    BY <1>1, <1>2, Taken DEF Inv, tree
  <1>4. Tree' /\ Shots'
    BY <1>2, ShotsStay DEF Inv, Tree, tree
  <1>5. Texts'
    BY <1>2, <1>3, TextsStay DEF Inv, tree
  <1>6. QED BY <1>3, <1>4, <1>5 DEF Inv

LEMMA TakeScreenshotStep ==
    ASSUME Inv, NEW q \in Shot, TakeScreenshot(q)
    PROVE  Inv'
  <1> DEFINE r == [at |-> "asking", of |-> instance, room |-> Capacity]
  <1>1. /\ shots' = [shots EXCEPT ![q] = r] /\ shots[q] = Idle
        /\ UNCHANGED <<tree, box, urls, made, late, submits, screens, sent, typed, dropped>>
    BY DEF TakeScreenshot
  <1>2. Capacity \in Nat
    BY RoomLeft DEF Inv
  <1> HIDE DEF Capacity
  <1>3. r.at = "asking" /\ DOMAIN r = {"at", "of", "room"} /\ r.room \in Nat
    BY <1>2
  <1> HIDE DEF r
  <1>4. Shots'
    BY <1>1, <1>3, IdleIs DEF Inv, Shots
  <1>5. Attached' /\ urls' = urls
    BY <1>1 DEF Inv, Attached, box, tree
  <1>6. QED BY <1>1, <1>4, <1>5, FilesMove DEF box

LEMMA DisplayMediaStep ==
    ASSUME Inv, NEW q \in Shot, getDisplayMedia(q)
    PROVE  Inv'
  <1>1. /\ shots[q].at = "asking" /\ DOMAIN shots = Shot
        /\ UNCHANGED <<tree, box, urls, made, late, submits, sent, typed, dropped>>
    BY DEF getDisplayMedia, Inv, Shots
  <1>2. Shots'
    <2>1. CASE shots' = [shots EXCEPT ![q] = Idle] /\ UNCHANGED screens
      BY <1>1, <2>1, IdleIs DEF Inv, Shots
    <2>2. CASE shots' = [shots EXCEPT ![q].at = "recording"] /\ screens' = screens \cup {q}
      <3> DEFINE old == shots[q]
                 r == [old EXCEPT !.at = "recording"]
      <3>1. DOMAIN old = {"at", "of", "room"} /\ old.room \in Nat
        BY <1>1 DEF Inv, Shots
      <3>2. shots' = [shots EXCEPT ![q] = r]
        BY <2>2
      <3> HIDE DEF old
      <3>3. DOMAIN r = {"at", "of", "room"} /\ r.room \in Nat /\ r.at = "recording"
        BY <3>1
      <3> HIDE DEF r
      <3>4. QED BY <1>1, <2>2, <3>2, <3>3 DEF Inv, Shots
    <2>3. QED BY <2>1, <2>2 DEF getDisplayMedia
  <1>3. Attached' /\ urls' = urls
    BY <1>1 DEF Inv, Attached, box, tree
  <1>4. QED BY <1>1, <1>2, <1>3, FilesMove DEF box

LEMMA CaptureStep ==
    ASSUME Inv, NEW q \in Shot, captureScreenshot(q)
    PROVE  Inv'
  <1>1. /\ shots[q].at = "recording" /\ shots' = [shots EXCEPT ![q] = Idle]
        /\ screens' = screens \ {q}
        /\ add(shots[q].of, <<"good">>, shots[q].room) \/ UNCHANGED <<files, urls, made, late>>
        /\ UNCHANGED <<tree, text, submits, sent, typed, dropped>>
    BY DEF captureScreenshot
  <1>2. shots[q].room \in Nat
    BY <1>1 DEF Inv, Shots
  <1>3. IsFiniteSet(DOMAIN <<"good">>)
    <2>1. DOMAIN <<"good">> = {1}
      OBVIOUS
    <2>2. QED BY <2>1, FS_Singleton
  <1>4. Attached' /\ urls \subseteq urls'
    <2>1. CASE UNCHANGED <<files, urls, made, late>>
      BY <1>1, <2>1 DEF Inv, Attached, tree
    <2>2. CASE add(shots[q].of, <<"good">>, shots[q].room)
      BY <1>1, <1>2, <1>3, <2>2, Adds DEF Inv, tree
    <2>3. QED BY <1>1, <2>1, <2>2
  <1>5. Shots'
    BY <1>1, IdleIs DEF Inv, Shots
  <1>6. QED BY <1>1, <1>4, <1>5, FilesMove

-----------------------------------------------------------------------------
(* Texts and submissions                                                   *)

LEMMA CarriersFinite ==
    ASSUME NEW t
    PROVE  IsFiniteSet(Carriers(t)) /\ Cardinality(Carriers(t)) \in Nat
  <1>1. Carriers(t) \in SUBSET Submission
    BY DEF Carriers
  <1>2. IsFiniteSet(Carriers(t))
    BY <1>1, Bounds, FS_Subset
  <1>3. QED BY <1>2, FS_CardinalityType

LEMMA TypeStep ==
    ASSUME Inv, Type
    PROVE  Inv'
  <1>1. /\ text = 0 /\ typed < MaxTexts /\ text' = typed + 1 /\ typed' = typed + 1
        /\ UNCHANGED <<tree, files, urls, made, late, submits, shots, screens, sent, dropped>>
        /\ typed \in Nat
    BY Bounds DEF Type, Inv, Texts
  <1>2. Tree' /\ Attached' /\ Shots'
    BY <1>1, ShotsStay DEF Inv, Tree, Attached, tree
  <1>3. Submits'
    BY <1>1 DEF Inv, Submits, Reads
  <1>4. \A t : Carriers(t)' = Carriers(t)
    BY <1>1 DEF Carriers
  <1>5. ASSUME ~provider, NEW t \in 1 .. typed + 1
        PROVE  t \in dropped \/ Places(t)' = 1
    <2>1. CASE t \in 1 .. typed
      <3>1. text # t /\ text' # t
        BY <1>1, <2>1
      <3>2. Places(t)' = Places(t)
        BY <1>1, <1>4, <3>1 DEF Places
      <3>3. QED BY <1>5, <2>1, <3>2 DEF Inv, Texts
    <2>2. CASE t = typed + 1
      <3>1. Carriers(t) = {}
        BY <1>1, <2>2 DEF Carriers, Inv, Submits, Reads
      <3>2. Cardinality(Carriers(t)') = 0
        BY <1>4, <3>1, FS_EmptySet
      <3>3. sent[t] = 0 /\ text' = t
        BY <1>1, <1>5, <2>2, Bounds DEF Inv, Texts
      <3>4. QED BY <1>1, <3>2, <3>3 DEF Places
    <2>3. QED BY <1>1, <2>1, <2>2
  <1>6. Texts'
    <2>1. typed' \in 0 .. MaxTexts /\ text' \in 0 .. typed'
      BY <1>1, Bounds
    <2>2. sent' \in [Text \ {0} -> 0 .. Often]
      BY <1>1 DEF Inv, Texts
    <2>3. ~provider' => \A t \in 1 .. typed' : t \in dropped' \/ Places(t)' = 1
      BY <1>1, <1>5 DEF tree
    <2>4. ~provider' => \A t \in typed' + 1 .. MaxTexts : sent'[t] = 0
      BY <1>1, Bounds DEF tree, Inv, Texts
    <2>5. QED BY <2>1, <2>2, <2>3, <2>4 DEF Texts
  <1>7. QED BY <1>2, <1>3, <1>6 DEF Inv

LEMMA SubmitStep ==
    ASSUME Inv, NEW s \in Submission, Enter(s) \/ Click(s)
    PROVE  Inv'
  <1> DEFINE r == Converting
  <1>1. /\ submits[s] = Idle /\ submits' = [submits EXCEPT ![s] = r]
        /\ text' = IF provider THEN text ELSE 0
        /\ UNCHANGED <<files, urls, tree, made, late, shots, screens, sent, typed, dropped>>
    BY DEF Enter, Click, handleSubmit
  <1>2. /\ r.at = "converting" /\ r.text = text /\ r.pending = files
        /\ r.kept = FALSE /\ r.disturbed = FALSE
        /\ DOMAIN r = {"at", "of", "text", "pending", "kept", "disturbed"}
    BY DEF Converting
  <1> HIDE DEF r
  <1>3. Tree' /\ Attached' /\ Shots'
    BY <1>1, ShotsStay DEF Inv, Tree, Attached, tree
  <1>4. /\ DOMAIN submits' = Submission /\ submits'[s] = r
        /\ \A d \in Submission \ {s} : submits'[d] = submits[d]
    BY <1>1 DEF Inv, Submits
  <1>5. Submits'
    <2>1. Reads(s)'
      <3>1. files \subseteq Url /\ files \subseteq urls /\ text \in 0 .. typed
        BY Bounds DEF Inv, Attached, Texts, Url
      <3>2. QED BY <1>1, <1>2, <1>4, <3>1 DEF Reads
    <2>2. \A d \in Submission \ {s} : Reads(d)'
      BY <1>1, <1>4 DEF Inv, Submits, Reads
    <2>3. QED BY <1>2, <1>4, <2>1, <2>2 DEF Inv, Submits
  <1>6. \A t : Carriers(t)' = IF t = text THEN Carriers(t) \cup {s} ELSE Carriers(t)
    BY <1>1, <1>2, <1>4, IdleIs DEF Carriers
  <1>7. Texts'
    <2>1. /\ typed' \in 0 .. MaxTexts /\ text' \in 0 .. typed'
          /\ sent' \in [Text \ {0} -> 0 .. Often]
      BY <1>1 DEF Inv, Texts
    <2>2. ASSUME ~provider, NEW t \in 1 .. typed
          PROVE  Places(t)' = Places(t)
      <3>1. text' = 0 /\ t # 0 /\ sent'[t] = sent[t]
        BY <1>1, <2>2 DEF Inv, Texts
      <3>2. CASE t = text
        <4>1. s \notin Carriers(t) /\ Carriers(t)' = Carriers(t) \cup {s}
          BY <1>1, <1>6, <3>2, IdleIs DEF Carriers
        <4>2. Cardinality(Carriers(t)') = Cardinality(Carriers(t)) + 1
          BY <4>1, CarriersFinite, FS_AddElement
        <4>3. QED BY <3>1, <3>2, <4>2, CarriersFinite DEF Places
      <3>3. CASE t # text
        BY <1>6, <3>1, <3>3 DEF Places
      <3>4. QED BY <3>2, <3>3
    <2>3. ~provider => \A t \in 1 .. typed : t \in dropped \/ Places(t)' = 1
      BY <2>2 DEF Inv, Texts
    <2>4. ~provider => \A t \in typed + 1 .. MaxTexts : sent[t] = 0
      BY DEF Inv, Texts
    <2>5. QED BY <1>1, <2>1, <2>3, <2>4 DEF Texts, tree
  <1>8. QED BY <1>3, <1>5, <1>7 DEF Inv

LEMMA ConvertStep ==
    ASSUME Inv, NEW s \in Submission, NEW url, convertBlobUrlToDataUrl(s, url)
    PROVE  Inv'
  <1> DEFINE old == submits[s]
             missing == url \notin urls
             became(readable) ==
                 [[[old EXCEPT !.pending = old.pending \ {url}]
                       EXCEPT !.kept = old.kept \/ missing \/ ~readable]
                       EXCEPT !.disturbed = old.disturbed \/ ~readable]
  <1>0. PICK readable \in BOOLEAN : submits' = [submits EXCEPT ![s] = became(readable)]
    BY DEF convertBlobUrlToDataUrl
  <1> DEFINE r == became(readable)
  <1>1. /\ old.at = "converting" /\ url \in old.pending
        /\ submits' = [submits EXCEPT ![s] = r]
        /\ UNCHANGED <<tree, box, urls, made, late, shots, screens, sent, typed, dropped>>
    BY <1>0 DEF convertBlobUrlToDataUrl
  <1>2. /\ DOMAIN old = {"at", "of", "text", "pending", "kept", "disturbed"}
        /\ old.kept \in BOOLEAN /\ old.disturbed \in BOOLEAN /\ Reads(s)
    BY <1>1 DEF Inv, Submits, Reads
  <1>3. /\ DOMAIN submits' = Submission /\ submits'[s] = r
        /\ \A d \in Submission \ {s} : submits'[d] = submits[d]
    BY <1>1 DEF Inv, Submits
  <1> HIDE DEF old
  <1>4. /\ DOMAIN r = DOMAIN old /\ r.at = old.at /\ r.text = old.text
        /\ r.pending = old.pending \ {url}
    BY <1>2
  <1>5. /\ r.kept \in BOOLEAN /\ r.disturbed \in BOOLEAN
        /\ old.disturbed => r.disturbed
        /\ r.kept => old.kept \/ missing \/ r.disturbed
    BY <1>2
  <1> HIDE DEF r
  <1>6. Tree' /\ Attached' /\ Shots'
    BY <1>1, ShotsStay DEF Inv, Tree, Attached, tree, box
  <1>7. Submits'
    <2>1. Reads(s)'
      BY <1>1, <1>2, <1>3, <1>4, <1>5 DEF Reads, old
    <2>2. \A d \in Submission \ {s} : Reads(d)'
      BY <1>1, <1>3 DEF Inv, Submits, Reads
    <2>3. submits'[s].at = "converting"
      BY <1>1, <1>3, <1>4
    <2>4. QED BY <1>3, <2>1, <2>2, <2>3 DEF Inv, Submits
  <1>8. \A t : Carriers(t)' = Carriers(t)
    <2>1. \A d \in Submission :
             /\ submits'[d].at = "converting" <=> submits[d].at = "converting"
             /\ submits[d].at = "converting" => submits'[d].text = submits[d].text
      BY <1>1, <1>3, <1>4 DEF old
    <2>2. QED BY <2>1, SameCarriers
  <1>9. Texts'
    BY <1>1, <1>8, TextsStay DEF Inv, tree, box
  <1>10. QED BY <1>6, <1>7, <1>9 DEF Inv

-----------------------------------------------------------------------------
(* The ends of submissions                                                 *)

\* What clear() leaves: the files are gone, the submission is over, and the
\* others know when one of theirs was taken.
LEMMA ClearEffect ==
    ASSUME Attached, Submits, NEW s \in Submission, Clear(s),
           UNCHANGED <<made, late, provider, typed>>
    PROVE  /\ Attached' /\ Submits' /\ submits'[s] = Idle
           /\ \A d \in Submission \ {s} :
                 /\ submits'[d].at = submits[d].at
                 /\ submits[d].at = "converting" => submits'[d].text = submits[d].text
           /\ text' = IF provider /\ alive THEN 0 ELSE text
  <1> DEFINE cleared == IF Updates(submits[s].of) THEN files ELSE {}
             now == Disturbed(cleared)
  <1>1. /\ submits' = [now EXCEPT ![s] = Idle] /\ Revoked(cleared)
        /\ text' = IF provider /\ alive THEN 0 ELSE text
        /\ cleared \subseteq files
    BY DEF Clear
  <1> HIDE DEF cleared
  <1>2. Attached' /\ urls' = urls \ cleared
    BY <1>1, Shrinks
  <1>3. DOMAIN now = Submission
    BY DisturbedIs
  <1>4. \A d \in Submission :
           /\ now[d].at = submits[d].at
           /\ now[d].at = "converting" =>
                 /\ DOMAIN now[d] = DOMAIN submits[d]
                 /\ now[d].text = submits[d].text /\ now[d].pending = submits[d].pending
                 /\ now[d].kept = submits[d].kept
                 /\ now[d].disturbed \in BOOLEAN
                 /\ ~now[d].disturbed => /\ ~submits[d].disturbed
                                         /\ cleared \cap submits[d].pending = {}
    BY DisturbedIs
  <1> HIDE DEF now
  <1>5. /\ DOMAIN submits' = Submission /\ submits'[s] = Idle
        /\ \A d \in Submission \ {s} : submits'[d] = now[d]
    BY <1>1, <1>3
  <1>6. ASSUME NEW d \in Submission
        PROVE  submits'[d].at \in {"idle", "converting", "waiting"} /\ Reads(d)'
    <2>1. CASE d = s
      BY <1>5, <2>1, IdleIs DEF Reads
    <2>2. CASE d # s
      <3>1. submits'[d] = now[d] /\ now[d].at = submits[d].at
        BY <1>4, <1>5, <2>2
      <3>2. submits[d].at \in {"idle", "converting", "waiting"} /\ Reads(d)
        BY DEF Submits
      <3>3. ASSUME submits'[d].at = "converting" PROVE Reads(d)'
        <4>1. /\ DOMAIN submits'[d] = DOMAIN submits[d]
              /\ submits'[d].text = submits[d].text
              /\ submits'[d].pending = submits[d].pending
              /\ submits'[d].kept = submits[d].kept
              /\ submits'[d].disturbed \in BOOLEAN
              /\ ~submits'[d].disturbed => /\ ~submits[d].disturbed
                                           /\ cleared \cap submits[d].pending = {}
          BY <1>4, <3>1, <3>3
        <4>2. submits[d].at = "converting"
          BY <3>1, <3>3
        <4>3. QED BY <1>2, <3>2, <4>1, <4>2 DEF Reads
      <3>4. QED BY <3>1, <3>2, <3>3 DEF Reads
    <2>3. QED BY <2>1, <2>2
  <1>7. \A d \in Submission \ {s} :
           /\ submits'[d].at = submits[d].at
           /\ submits[d].at = "converting" => submits'[d].text = submits[d].text
    BY <1>4, <1>5
  <1>8. QED BY <1>1, <1>2, <1>5, <1>6, <1>7 DEF Submits

\* A submission ends or waits for onSubmit's promise; the others go on.
LEMMA EndEffect ==
    ASSUME Inv, NEW s \in Submission, UNCHANGED <<made, late, provider, typed>>,
           \/ Clear(s) \/ KeepForRetry(s)
           \/ submits' = [submits EXCEPT ![s] = [at |-> "waiting", of |-> @.of]]
              /\ UNCHANGED <<box, urls>>
    PROVE  /\ Attached' /\ Submits'
           /\ text' \in {0, text} /\ (~provider => text' = text)
           /\ \A t : Carriers(t)' = Carriers(t) \ {s}
  <1>1. CASE Clear(s)
    <2>1. /\ Attached' /\ Submits' /\ submits'[s] = Idle
          /\ \A d \in Submission \ {s} :
                /\ submits'[d].at = submits[d].at
                /\ submits[d].at = "converting" => submits'[d].text = submits[d].text
          /\ text' = IF provider /\ alive THEN 0 ELSE text
      BY <1>1, ClearEffect DEF Inv
    <2>2. \A t : Carriers(t)' = Carriers(t) \ {s}
      BY <2>1, IdleIs DEF Carriers
    <2>3. QED BY <2>1, <2>2
  <1>2. CASE ~Clear(s)
    <2>1. \E r : r.at \in {"idle", "waiting"} /\ submits' = [submits EXCEPT ![s] = r]
      BY <1>2, IdleIs DEF KeepForRetry
    <2>2. PICK r : r.at \in {"idle", "waiting"} /\ submits' = [submits EXCEPT ![s] = r]
      BY <2>1
    <2>3. UNCHANGED <<box, urls, made, late, provider, typed>>
      BY <1>2 DEF KeepForRetry
    <2>4. /\ DOMAIN submits' = Submission /\ submits'[s] = r
          /\ \A d \in Submission \ {s} : submits'[d] = submits[d]
      BY <2>2 DEF Inv, Submits
    <2>5. Attached' /\ text' = text
      BY <2>3 DEF Inv, Attached, box
    <2>6. \A d \in Submission : Reads(d)'
      BY <2>2, <2>3, <2>4 DEF Inv, Submits, Reads
    <2>7. Submits'
      BY <2>2, <2>4, <2>6 DEF Inv, Submits
    <2>8. \A t : Carriers(t)' = Carriers(t) \ {s}
      BY <2>2, <2>4 DEF Carriers
    <2>9. QED BY <2>5, <2>7, <2>8
  <1>3. QED BY <1>1, <1>2

\* A text that leaves a submission for the chat is counted there.
LEMMA SendsOnce ==
    ASSUME Inv, NEW s \in Submission, submits[s].at = "converting",
           sendMessage(submits[s].text), UNCHANGED <<provider, typed, dropped>>,
           text' \in {0, text}, ~provider => text' = text,
           \A t : Carriers(t)' = Carriers(t) \ {s}
    PROVE  Texts'
  <1> DEFINE m == submits[s].text
             more == Min({Often, sent[m] + 1})
  <1>1. m \in 0 .. typed /\ typed \in 0 .. MaxTexts /\ text \in 0 .. typed
        /\ sent \in [Text \ {0} -> 0 .. Often] /\ MaxTexts \in Nat
    BY Bounds DEF Inv, Submits, Reads, Texts
  <1>2. sent' = IF m = 0 THEN sent ELSE [sent EXCEPT ![m] = more]
    BY DEF sendMessage
  <1> HIDE DEF m, more
  <1>3. m # 0 => /\ m \in Text \ {0} /\ sent[m] \in 0 .. 2
                 /\ more \in 0 .. 2 /\ (sent[m] = 0 => more = 1)
    <2> SUFFICES ASSUME m # 0 PROVE /\ m \in Text \ {0} /\ sent[m] \in 0 .. 2
                                    /\ more \in 0 .. 2 /\ (sent[m] = 0 => more = 1)
      OBVIOUS
    <2>1. m \in Text \ {0} /\ sent[m] \in 0 .. 2
      BY <1>1 DEF Text, Often
    <2> DEFINE next == sent[m] + 1
    <2>2. next \in Nat /\ next >= 1 /\ (sent[m] = 0 => next = 1)
      BY <2>1
    <2>3. more = Min({2, next})
      BY DEF more, Often
    <2> HIDE DEF next
    <2>4. Min({2, next}) \in {2, next} /\ Min({2, next}) <= 2
      BY <2>2, SmallerOf, SmallerIs
    <2>5. QED BY <2>1, <2>2, <2>3, <2>4, SmallerOf
  <1>4. sent' \in [Text \ {0} -> 0 .. Often]
    BY <1>1, <1>2, <1>3 DEF Often
  <1>5. ASSUME ~provider, NEW t \in 1 .. typed, Places(t) = 1
        PROVE  Places(t)' = 1
    <2>1. t \in Text \ {0} /\ sent[t] \in Nat /\ text' = text
      BY <1>1, <1>5 DEF Text, Often
    <2>2. CASE t = m
      <3>1. s \in Carriers(t)
        BY <2>2 DEF Carriers, m
      <3>2. Carriers(t)' = Carriers(t) \ {s}
        OBVIOUS
      <3>3. Cardinality(Carriers(t)') = Cardinality(Carriers(t)) - 1
        BY <3>1, <3>2, CarriersFinite, FS_RemoveElement
      <3>4. Cardinality(Carriers(t)') \in Nat
        BY <3>2, CarriersFinite, FS_RemoveElement, FS_CardinalityType
      <3>5. sent[t] = 0 /\ Cardinality(Carriers(t)) = 1 /\ text # t
        BY <1>5, <2>1, <3>3, <3>4, CarriersFinite DEF Places
      <3>6. sent'[t] = 1
        BY <1>1, <1>2, <1>3, <2>1, <2>2, <3>5
      <3>7. QED BY <2>1, <3>3, <3>5, <3>6 DEF Places
    <2>3. CASE t # m
      <3>1. Carriers(t)' = Carriers(t)
        BY <2>3 DEF Carriers, m
      <3>2. sent'[t] = sent[t]
        BY <1>1, <1>2, <2>1, <2>3
      <3>3. QED BY <1>5, <2>1, <3>1, <3>2 DEF Places
    <2>4. QED BY <2>2, <2>3
  <1>6. ~provider' => \A t \in typed' + 1 .. MaxTexts : sent'[t] = 0
    <2> SUFFICES ASSUME ~provider, NEW t \in typed + 1 .. MaxTexts PROVE sent'[t] = 0
      OBVIOUS
    <2>1. sent[t] = 0 /\ t # m /\ t \in Text \ {0}
      BY <1>1 DEF Inv, Texts, Text
    <2>2. QED BY <1>1, <1>2, <2>1
  <1>7. ~provider' => \A t \in 1 .. typed' : t \in dropped' \/ Places(t)' = 1
    BY <1>5 DEF Inv, Texts
  <1>8. typed' \in 0 .. MaxTexts /\ text' \in 0 .. typed'
    BY <1>1
  <1>9. QED BY <1>4, <1>6, <1>7, <1>8 DEF Texts

LEMMA OnSubmitStep ==
    ASSUME Inv, NEW s \in Submission, OnSubmit(s)
    PROVE  Inv'
  <1>1. /\ submits[s].at = "converting" /\ sendMessage(submits[s].text)
        /\ UNCHANGED <<tree, made, late, shots, screens, typed, dropped>>
        /\ \/ Clear(s) \/ KeepForRetry(s)
           \/ submits' = [submits EXCEPT ![s] = [at |-> "waiting", of |-> @.of]]
              /\ UNCHANGED <<box, urls>>
    BY DEF OnSubmit
  <1>2. /\ Attached' /\ Submits'
        /\ text' \in {0, text} /\ (~provider => text' = text)
        /\ \A t : Carriers(t)' = Carriers(t) \ {s}
    BY <1>1, EndEffect DEF tree
  <1>3. Texts'
    BY <1>1, <1>2, SendsOnce DEF tree
  <1>4. Tree' /\ Shots'
    BY <1>1, ShotsStay DEF Inv, Tree, tree
  <1>5. QED BY <1>2, <1>3, <1>4 DEF Inv

LEMMA SettleStep ==
    ASSUME Inv, NEW s \in Submission, Settle(s)
    PROVE  Inv'
  <1>1. /\ submits[s].at = "waiting" /\ (Clear(s) \/ KeepForRetry(s))
        /\ UNCHANGED <<tree, made, late, shots, screens, sent, typed, dropped>>
    BY DEF Settle
  <1>2. /\ Attached' /\ Submits'
        /\ text' \in {0, text} /\ (~provider => text' = text)
        /\ \A t : Carriers(t)' = Carriers(t) \ {s}
    BY <1>1, EndEffect DEF tree
  <1>3. \A t : Carriers(t)' = Carriers(t)
    BY <1>1, <1>2 DEF Carriers
  <1>4. ~provider => \A t : Places(t)' = Places(t)
    BY <1>1, <1>2, <1>3 DEF Places
  <1>5. Texts'
    BY <1>1, <1>2, <1>4 DEF Inv, Texts, tree
  <1>6. Tree' /\ Shots'
    BY <1>1, ShotsStay DEF Inv, Tree, tree
  <1>7. QED BY <1>2, <1>5, <1>6 DEF Inv

-----------------------------------------------------------------------------
(* Mounting                                                                *)

LEMMA CleanupEffect ==
    ASSUME Inv, Cleanup, UNCHANGED <<made, late, provider, sent, typed>>
    PROVE  Attached' /\ Submits' /\ Texts'
  <1>1. /\ Revoked(files) /\ text' = 0 /\ submits' = Disturbed(files)
        /\ dropped' = dropped \cup ({text} \ {0})
    BY DEF Cleanup
  <1>2. Attached' /\ Submits' /\ \A t : Carriers(t)' = Carriers(t)
    BY <1>1, Taken DEF Inv
  <1>3. ASSUME ~provider, NEW t \in 1 .. typed
        PROVE  t \in dropped' \/ Places(t)' = 1
    <2>1. CASE t = text
      BY <1>1, <1>3, <2>1 DEF Inv, Texts
    <2>2. CASE t # text
      <3>1. Places(t)' = Places(t)
        BY <1>1, <1>2, <1>3, <2>2 DEF Places, Inv, Texts
      <3>2. QED BY <1>1, <1>3, <3>1 DEF Inv, Texts
    <2>3. QED BY <2>1, <2>2
  <1>4. Texts'
    BY <1>1, <1>3 DEF Inv, Texts
  <1>5. QED BY <1>2, <1>4

LEMMA TreeStep ==
    ASSUME Inv, UnmountInput \/ UnmountAll \/ MountInput
    PROVE  Inv'
  <1>1. UNCHANGED <<provider, made, late, shots, screens, sent, typed>>
    BY DEF UnmountInput, UnmountAll, MountInput
  <1>2. Shots'
    BY <1>1, ShotsStay DEF Inv
  <1>3. Tree'
    <2>1. mounted' \in BOOLEAN /\ alive' \in BOOLEAN /\ (mounted' => alive')
      BY DEF UnmountInput, UnmountAll, MountInput, Inv, Tree
    <2>2. instance' \in 1 .. MaxInstances
      BY Bounds DEF UnmountInput, UnmountAll, MountInput, Inv, Tree
    <2>3. QED BY <1>1, <2>1, <2>2 DEF Inv, Tree
  <1>4. CASE Cleanup
    BY <1>1, <1>2, <1>3, <1>4, CleanupEffect DEF Inv
  <1>5. CASE UNCHANGED <<box, urls, submits, dropped>>
    <2>1. Attached' /\ Submits'
      BY <1>1, <1>5 DEF Inv, Attached, Submits, Reads, box
    <2>2. \A t : Carriers(t)' = Carriers(t)
      BY <1>5 DEF Carriers
    <2>3. Texts'
      BY <1>1, <1>5, <2>2, TextsStay DEF Inv, box
    <2>4. QED BY <1>2, <1>3, <2>1, <2>3 DEF Inv
  <1>6. QED BY <1>4, <1>5 DEF UnmountInput, UnmountAll, MountInput

-----------------------------------------------------------------------------
(* The theorems                                                            *)

LEMMA InitStep == Init => Inv
  <1> SUFFICES ASSUME Init PROVE Inv
    OBVIOUS
  <1>1. Tree
    BY Bounds DEF Init, Tree
  <1>2. Attached
    <2>1. Cardinality(files) = 0
      BY FS_EmptySet DEF Init
    <2>2. QED BY <2>1, Bounds DEF Init, Attached
  <1>3. Submits /\ Shots
    BY IdleIs DEF Init, Submits, Reads, Shots
  <1>4. Texts
    BY Bounds DEF Init, Texts, Text, Often
  <1>5. QED BY <1>1, <1>2, <1>3, <1>4 DEF Inv

LEMMA NextStep == Inv /\ [Next]_vars => Inv'
  <1> SUFFICES ASSUME Inv, [Next]_vars PROVE Inv'
    OBVIOUS
  <1>1. CASE \E batch \in Batch :
                onDrop(batch) \/ handleChange(batch) \/ handlePaste(<<"no file">> \o batch)
    BY <1>1, OfferStep
  <1>2. CASE ProviderAdd(1) \/ TakeAway \/ Type
    BY <1>2, ProviderAddStep, TakeAwayStep, TypeStep
  <1>3. CASE \E q \in Shot : TakeScreenshot(q) \/ getDisplayMedia(q) \/ captureScreenshot(q)
    BY <1>3, TakeScreenshotStep, DisplayMediaStep, CaptureStep
  <1>4. CASE \E s \in Submission :
                \/ Enter(s) \/ Click(s) \/ OnSubmit(s) \/ Settle(s)
                \/ \E url \in Url : convertBlobUrlToDataUrl(s, url)
    BY <1>4, SubmitStep, OnSubmitStep, SettleStep, ConvertStep
  <1>5. CASE UnmountInput \/ UnmountAll \/ MountInput
    BY <1>5, TreeStep
  <1>6. CASE UNCHANGED vars
    <2>1. UNCHANGED <<tree, box, urls, made, late, submits, shots, screens, sent, typed, dropped>>
      BY <1>6 DEF vars
    <2>2. Attached' /\ urls' = urls
      BY <2>1 DEF Inv, Attached, box, tree
    <2>3. Shots'
      BY <2>1, ShotsStay DEF Inv
    <2>4. QED BY <2>1, <2>2, <2>3, FilesMove DEF box
  <1>7. QED BY <1>1, <1>2, <1>3, <1>4, <1>5, <1>6 DEF Next

\* Whatever overlaps and whatever ends meanwhile, files, submissions,
\* screenshots and texts stay consistent (PromptInput, PromptInputProvider).
THEOREM Inductive == Spec => []Inv
  <1>1. Init => Inv
    BY InitStep
  <1>2. Inv /\ [Next]_vars => Inv'
    BY NextStep
  <1>3. QED BY <1>1, <1>2, PTL DEF Spec

\* Object URLs and recorded screens are those in use (remove, clear, the cleanups,
\* captureScreenshot), but for the URLs of screenshots that came after their input
\* had gone, which nobody revokes.
THEOREM LeaksNothing == Spec => []NothingLeaks
  <1>1. Inv => NothingLeaks
    BY DEF Inv, Attached, Shots, NothingLeaks
  <1>2. QED BY <1>1, Inductive, PTL

\* maxFiles holds for an input of its own (addLocal), for any maxFiles.
THEOREM KeepsCapacity == Spec => []CapacityKept
  <1>1. Inv => CapacityKept
    BY DEF Inv, Attached, CapacityKept
  <1>2. QED BY <1>1, Inductive, PTL

\* A file reaches onSubmit as data unless it was taken from under the submission
\* or could not be read (handleSubmit, convertBlobUrlToDataUrl).
THEOREM HandsFilesOn == Spec => []FilesArrive
  <1>1. Inv => FilesArrive
    BY DEF Inv, Submits, Reads, FilesArrive
  <1>2. QED BY <1>1, Inductive, PTL

\* A text is never lost and never sent twice, with any number of submissions
\* under way (handleSubmit, ChatPanel's submit).
THEOREM HandsTextOn == Spec => []TextOnce
  <1>1. Inv => TextOnce
    BY DEF Inv, Texts, Places, Carriers, TextOnce
  <1>2. QED BY <1>1, Inductive, PTL

=============================================================================
