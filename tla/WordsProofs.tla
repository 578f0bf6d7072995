---------------------------- MODULE WordsProofs ----------------------------
(***************************************************************************)
(* What the vocabulary application keeps, for learning ranges, files,      *)
(* queues, quotas, days and faults of any number: what its pages are told  *)
(* is what its records say, a save leaves whole files, the pending card    *)
(* exists, and a shown card is rated once.                                 *)
(*                                                                         *)
(* The argument has four parts: the places of the slots in the files and   *)
(* what a start reads of them; the sum a count is, and how it follows one  *)
(* record; what a put of a record keeps; and the steps, those that leave   *)
(* the records alone before those that change them.                        *)
(***************************************************************************)
EXTENDS Words, Integers, SequenceTheorems, FiniteSetTheorems, FunctionTheorems, WellFoundedInduction, TLAPS

----------------------------------------------------------------------------
(* The invariant. *)

\* What the variables range over; a slot is 0 where there is none.
Slots == 0 .. Len(Scope)
Keyed == [phase : {"new", "seen"}, flags : SUBSET Flags]
Kinds == {"none", "read", "scope", "next", "rate"} \cup Flags
Jobs == [kind : Kinds, serial : Nat, slot : Slots, token : Nat, word : Words \cup {Scope[1]}, value : BOOLEAN]
Results == [serial : Nat, slot : Slots, token : Nat, ok : BOOLEAN, accepted : BOOLEAN]
PageStates == [kind : {"none", "between", "home", "study", "detail", "saving", "left"}, request : Nat,
               card : [slot : Slots, token : Nat]]
Configs == [cursor : Slots, pending : Slots]
Amounts == [day : 0 .. MaxDay + 1, added : Int, reviewed : Int, ratings : Int, collected : Int,
            made : {"whole", "half"}, clock : {"on", "back"}]

\* The jobs: one that marks a word without a slot names the word.
JobsTyped ==
  /\ job \in Jobs /\ queue \in Seq(Jobs) /\ Len(queue) <= JobCount /\ generation \in Nat
  /\ job.kind \in Flags /\ job.slot = 0 => job.word \in Words
  /\ \A i \in DOMAIN queue : queue[i].kind \in Flags /\ queue[i].slot = 0 => queue[i].word \in Words
ResultsTyped ==
  /\ res \in Results /\ completed \in Results
  /\ page \in PageStates
  /\ active_slot \in Slots /\ card_token \in Nat
StoreTyped ==
  /\ cfg \in Configs /\ saved_cfg \in Configs /\ daily \in Amounts
  /\ cache \in Seq(Records) /\ cached_chunk \in Chunks \cup {NoChunk}
  /\ index \in Seq(Keyed) /\ chunks \in [Chunks -> Seq(Records)]
  /\ day \in 0 .. MaxDay

\* The slot of a place in a file.
Slot(n, j) == ((n - 1) * ChunkRecords) + j
Places == 1 .. ChunkRecords

\* The files hold the first slots, each in its place,
Holds(files, count) == \A n \in Chunks : \A j \in Places : j \in DOMAIN files[n] <=> Slot(n, j) <= count
\* and no word twice.
OneWordEach(files, count) ==
  \A s, t \in 1 .. count : files[ChunkOf(s)][At(s)].word = files[ChunkOf(t)][At(t)].word => s = t

\* What the medium holds can always be read back, and its pending card is there.
FilesWhole ==
  /\ \A n \in Chunks : Len(chunks[n]) <= ChunkRecords
  /\ \E count \in Slots : Holds(chunks, count) /\ OneWordEach(chunks, count) /\ saved_cfg.pending <= count

\* Without a store nothing is in memory.
Empty == ~Running => index = <<>> /\ cache = <<>> /\ cached_chunk = NoChunk /\ daily.day = MaxDay + 1

\* The file in memory is at least what its file is, with the same words, and the same if
\* nothing is unsaved; every other file is on the medium.
InMemory ==
  /\ Len(index) <= Len(Scope) /\ Len(cache) <= ChunkRecords
  /\ \A n \in Chunks \ {cached_chunk} : \A j \in Places : j \in DOMAIN chunks[n] <=> Slot(n, j) <= Len(index)
  /\ IF cached_chunk \in Chunks
     THEN /\ \A j \in Places : j \in DOMAIN cache <=> Slot(cached_chunk, j) <= Len(index)
          /\ Len(chunks[cached_chunk]) <= Len(cache)
          /\ \A j \in DOMAIN chunks[cached_chunk] : chunks[cached_chunk][j].word = cache[j].word
          /\ ~dirty_chunk => chunks[cached_chunk] = cache
     ELSE cache = <<>> /\ ~dirty_chunk

\* The index says what the records say, the counts of the day are those of the records.
Truth ==
  /\ \A s \in DOMAIN index : index[s] = Key(Record(s))
  /\ \A s, t \in DOMAIN index : Record(s).word = Record(t).word => s = t
Counted ==
  daily.day <= MaxDay /\ daily.made = "whole" => [daily EXCEPT !.clock = "on"] = words_store_counts(daily.day)

\* The worker has the store open.
Working == Running /\ pc # "closed"

MemoryWhole == (Working => InMemory) /\ (Running => Truth /\ Counted)

\* Every slot that is named anywhere has a record.
WithinIndex ==
  /\ pc # "off" =>
       /\ job.slot <= Len(index) /\ res.slot <= Len(index) /\ completed.slot <= Len(index)
       /\ page.card.slot <= Len(index) /\ \A i \in DOMAIN queue : queue[i].slot <= Len(index)
  /\ Working => active_slot <= Len(index) /\ cfg.pending <= Len(index)
  /\ pc \in {"select", "show"} \/ (pc = "save" /\ after = "show") => res.slot # 0

\* Nothing is unsaved when a job begins, and the counts are of some day when it is done: while
\* the clock only goes on, never of a day that was counted by half.
Clean == pc \in {"exec", "do"} => ~dirty_chunk /\ ~dirty_config
DayKnown ==
  /\ pc = "do" \/ (pc = "save" /\ after = "do") => daily.day <= MaxDay
  /\ daily.clock = "on" => daily.day = MaxDay + 1 \/ daily.day <= day
  /\ daily.clock = "on" /\ daily.made = "half" => daily.day # day /\ ~UsesCounts
Stages == /\ pc \in {"off", "open", "unready", "top", "save", "exec", "do", "next", "scope", "select", "show", "publish",
                     "closed", "idle", "unsaved", "wait"}
          /\ after \in {"top", "exec", "do", "scope", "show", "closed", "idle"}
\* What is given up at the end was no larger.
Sized == pc = "closed" => Len(index) <= Len(Scope) /\ Len(cache) <= ChunkRecords
\* Without a worker nothing is asked or answered.
Asleep == pc = "off" => job = NoJob /\ res = NoResult /\ completed = NoResult /\ queue = <<>>
NoPageNoCard == page.kind = "none" => page = NoPage

\* A token that was used up is never the current one again.
Spent == \A t \in rated : t \in Nat /\ t < card_token

Typed == JobsTyped /\ ResultsTyped /\ StoreTyped /\ Stages
Whole == FilesWhole /\ Empty /\ MemoryWhole
Course == WithinIndex /\ Clean /\ DayKnown /\ Sized /\ Asleep /\ NoPageNoCard /\ Spent
WordsInv == Typed /\ Whole /\ Course

----------------------------------------------------------------------------
(* Slots and their places. *)

\* What the assumption says of the sizes.
LEMMA Sizes ==
  /\ ChunkRecords \in Nat \ {0} /\ JobCount \in Nat \ {0} /\ MaxDay \in Nat
  /\ Len(Scope) \in Nat /\ DOMAIN Scope = 1 .. Len(Scope) /\ Scope \in Seq(Words)
BY WordsAssumption DEF WordsAssumption, Words

\* Every slot has one place, and every place one slot.
LEMMA PlaceOfSlot ==
  ASSUME NEW s \in Nat \ {0}
  PROVE  ChunkOf(s) \in Nat \ {0} /\ At(s) \in Places /\ Slot(ChunkOf(s), At(s)) = s /\ ChunkOf(s) <= s
<1>1. ChunkRecords \in Nat \ {0}
  BY Sizes
<1>2. ChunkOf(s) \in Nat \ {0} /\ At(s) \in Places
  BY <1>1 DEF ChunkOf, At, Places
<1>3. Slot(ChunkOf(s), At(s)) = s
  BY <1>1 DEF ChunkOf, At, Slot
<1>4. ChunkOf(s) <= s
  BY <1>1 DEF ChunkOf
<1> QED  BY <1>2, <1>3, <1>4

\* The slot of a place has that place.
LEMMA SlotOfPlace ==
  ASSUME NEW n \in Nat \ {0}, NEW j \in Places
  PROVE  Slot(n, j) \in Nat \ {0} /\ ChunkOf(Slot(n, j)) = n /\ At(Slot(n, j)) = j
<1>1. ChunkRecords \in Nat \ {0} /\ j \in 1 .. ChunkRecords
  BY Sizes DEF Places
<1>2. Slot(n, j) \in Nat \ {0}
  BY <1>1 DEF Slot
<1>3. ChunkOf(Slot(n, j)) = n /\ At(Slot(n, j)) = j
  BY <1>1 DEF Slot, ChunkOf, At
<1> QED  BY <1>2, <1>3

\* Places are in the order of their slots.
LEMMA PlacesOrdered ==
  ASSUME NEW n \in Nat \ {0}, NEW i \in Places, NEW j \in Places
  PROVE  /\ Slot(n, i) <= Slot(n, j) <=> i <= j
         /\ Slot(n, j) = Slot(n, 1) + j - 1
BY Sizes DEF Slot, Places

\* Files are in the order of their slots.
LEMMA ChunksOrdered ==
  ASSUME NEW n \in Nat \ {0}, NEW m \in Nat \ {0}, n < m, NEW i \in Places, NEW j \in Places
  PROVE  Slot(n, i) < Slot(m, j)
<1>1. ChunkRecords \in Nat \ {0} /\ i <= ChunkRecords /\ j >= 1 /\ i \in Nat /\ j \in Nat
  BY Sizes DEF Places
<1> DEFINE a == (n - 1) * ChunkRecords
           b == (m - 1) * ChunkRecords
<1>2. a \in Int /\ b \in Int /\ a + ChunkRecords <= b
  <2>1. PICK k \in Nat : m = n + 1 + k
    <3>1. m - n - 1 \in Nat
      OBVIOUS
    <3> QED  BY <3>1
  <2>2. b = a + ChunkRecords + k * ChunkRecords /\ k * ChunkRecords \in Nat
    BY <1>1, <2>1
  <2>3. a \in Int
    BY <1>1
  <2> QED  BY <1>1, <2>2, <2>3
<1> HIDE DEF a, b
<1>3. Slot(n, i) = a + i /\ Slot(m, j) = b + j
  BY DEF a, b, Slot
<1> QED  BY <1>1, <1>2, <1>3

\* The slots of the scope have their files; UINT32_MAX is not the number of one.
LEMMA ChunksTyped ==
  /\ Chunks \subseteq Nat \ {0} /\ NoChunk \notin Chunks
  /\ \A s \in 1 .. Len(Scope) : ChunkOf(s) \in Chunks
<1>1. Len(Scope) \in Nat
  BY Sizes
<1>2. Chunks \subseteq Nat \ {0}
  BY DEF Chunks
<1>3. CASE Len(Scope) = 0
  <2>1. ChunkOf(0) <= 0 /\ ChunkOf(0) \in Int
    BY Sizes DEF ChunkOf
  <2> QED  BY <1>2, <1>3, <2>1 DEF Chunks, NoChunk
<1>4. CASE Len(Scope) # 0
  <2>1. ChunkOf(Len(Scope)) \in Nat /\ ChunkOf(Len(Scope)) <= Len(Scope)
    BY <1>1, <1>4, PlaceOfSlot
  <2>2. ASSUME NEW s \in 1 .. Len(Scope) PROVE ChunkOf(s) \in Chunks
    <3>1. s \in Nat \ {0} /\ s <= Len(Scope) /\ Len(Scope) \in Nat \ {0}
      BY <1>1, <1>4
    <3>2. ChunkOf(s) \in Nat \ {0} /\ At(s) \in Places /\ Slot(ChunkOf(s), At(s)) = s
      BY <3>1, PlaceOfSlot
    <3>3. /\ ChunkOf(Len(Scope)) \in Nat \ {0} /\ At(Len(Scope)) \in Places
          /\ Slot(ChunkOf(Len(Scope)), At(Len(Scope))) = Len(Scope)
      BY <3>1, PlaceOfSlot
    <3>4. ~(ChunkOf(Len(Scope)) < ChunkOf(s))
      <4> SUFFICES ASSUME ChunkOf(Len(Scope)) < ChunkOf(s) PROVE FALSE
        OBVIOUS
      <4>1. Slot(ChunkOf(Len(Scope)), At(Len(Scope))) < Slot(ChunkOf(s), At(s))
        BY <3>2, <3>3, ChunksOrdered
      <4> QED  BY <3>1, <3>2, <3>3, <4>1
    <3> QED  BY <3>2, <3>3, <3>4 DEF Chunks
  <2> QED  BY <1>1, <1>2, <2>1, <2>2 DEF Chunks, NoChunk
<1> QED  BY <1>3, <1>4

----------------------------------------------------------------------------
(* The files. *)

Files == [Chunks -> Seq(Records)]

\* What a file holds when the first `count` slots are in the files.
LEMMA FileOf ==
  ASSUME NEW files \in Files, \A n \in Chunks : Len(files[n]) <= ChunkRecords,
         NEW count \in Nat \ {0}, Holds(files, count), ChunkOf(count) \in Chunks
  PROVE  /\ Len(files[ChunkOf(count)]) = At(count)
         /\ \A n \in Chunks : n < ChunkOf(count) => Len(files[n]) = ChunkRecords
         /\ \A n \in Chunks : n > ChunkOf(count) => files[n] = <<>>
<1> DEFINE c == ChunkOf(count)
           a == At(count)
<1>1. c \in Chunks /\ a \in Places /\ Slot(c, a) = count
  BY PlaceOfSlot
<1>2. ChunkRecords \in Nat \ {0} /\ Chunks \subseteq Nat \ {0}
  BY Sizes, ChunksTyped
<1>3. \A n \in Chunks : files[n] \in Seq(Records) /\ Len(files[n]) \in Nat /\ DOMAIN files[n] = 1 .. Len(files[n])
                        /\ Len(files[n]) <= ChunkRecords
  BY DEF Files
<1>4. Places = 1 .. ChunkRecords
  BY DEF Places
<1> HIDE DEF c, a
<1>5. \A n \in Chunks : \A j \in Places : j <= Len(files[n]) <=> Slot(n, j) <= Slot(c, a)
  BY <1>1, <1>3, <1>4 DEF Holds
<1>6. Len(files[c]) = a
  <2>1. \A j \in Places : j <= Len(files[c]) <=> j <= a
    BY <1>1, <1>2, <1>5, PlacesOrdered
  <2>2. Len(files[c]) \in Nat /\ Len(files[c]) <= ChunkRecords
    BY <1>1, <1>3
  <2> QED
    BY <1>1, <1>2, <1>4, <2>1, <2>2
<1>7. ASSUME NEW n \in Chunks, n < c PROVE Len(files[n]) = ChunkRecords
  <2>1. ChunkRecords \in Places /\ n \in Nat \ {0} /\ c \in Nat \ {0}
    BY <1>1, <1>2, <1>4
  <2>2. Slot(n, ChunkRecords) < Slot(c, a) /\ Slot(n, ChunkRecords) \in Nat /\ Slot(c, a) \in Nat
    BY <1>1, <1>7, <2>1, ChunksOrdered, SlotOfPlace
  <2>3. ChunkRecords <= Len(files[n])
    BY <1>5, <2>1, <2>2
  <2> QED  BY <1>2, <1>3, <2>3
<1>8. ASSUME NEW n \in Chunks, n > c PROVE files[n] = <<>>
  <2>1. 1 \in Places /\ n \in Nat \ {0} /\ c \in Nat \ {0}
    BY <1>1, <1>2, <1>4
  <2>2. Slot(c, a) < Slot(n, 1) /\ Slot(n, 1) \in Nat /\ Slot(c, a) \in Nat
    BY <1>1, <1>8, <2>1, ChunksOrdered, SlotOfPlace
  <2>3. ~(1 <= Len(files[n]))
    BY <1>5, <2>1, <2>2
  <2> QED  BY <1>3, <2>3
<1> QED
  BY <1>6, <1>7, <1>8 DEF c, a

\* A start reads the slots the files hold, each in its place.
LEMMA ScanReadsAll ==
  ASSUME NEW files \in Files, \A n \in Chunks : Len(files[n]) <= ChunkRecords,
         NEW count \in Slots, Holds(files, count)
  PROVE  /\ Cardinality(Scanned(files)) = IF count = 0 THEN 0 ELSE ChunkOf(count)
         /\ ScannedRecords(files) = [s \in 1 .. count |-> files[ChunkOf(s)][At(s)]]
<1>0. Slots = 0 .. Len(Scope) /\ Len(Scope) \in Nat /\ Chunks \subseteq Nat \ {0}
  BY Sizes, ChunksTyped DEF Slots
<1>1. CASE count = 0
  <2>1. \A n \in Chunks : files[n] = <<>>
    <3> TAKE n \in Chunks
    <3>1. 1 \in Places /\ n \in Nat \ {0}
      BY <1>0, Sizes DEF Places
    <3>2. Slot(n, 1) \in Nat \ {0}
      BY <3>1, SlotOfPlace
    <3>3. 1 \notin DOMAIN files[n]
      BY <1>1, <3>1, <3>2 DEF Holds
    <3>4. files[n] \in Seq(Records)
      BY DEF Files
    <3> QED  BY <3>3, <3>4
  <2>2. Scanned(files) = {}
    BY <2>1 DEF Scanned
  <2>3. Cardinality(Scanned(files)) = 0
    BY <2>2, FS_EmptySet
  <2> QED  BY <1>1, <2>3 DEF ScannedRecords
<1>2. CASE count # 0
  <2> DEFINE c == ChunkOf(count)
  <2>1. count \in Nat \ {0} /\ count \in 1 .. Len(Scope)
    BY <1>0, <1>2
  <2>2. c \in Chunks /\ At(count) \in Places /\ Slot(c, At(count)) = count
    BY <2>1, PlaceOfSlot, ChunksTyped
  <2>3. /\ Len(files[c]) = At(count)
        /\ \A n \in Chunks : n < c => Len(files[n]) = ChunkRecords
        /\ \A n \in Chunks : n > c => files[n] = <<>>
    BY <2>1, <2>2, FileOf
  <2> HIDE DEF c
  <2>4. \A n \in 1 .. c : n \in Chunks /\ files[n] # <<>>
    <3> TAKE n \in 1 .. c
    <3>1. n \in Chunks
      <4>1. ChunkOf(Len(Scope)) \in Nat
        BY <1>0, <2>1, PlaceOfSlot
      <4> QED  BY <2>2, <4>1 DEF Chunks
    <3>2. At(count) # 0 /\ ChunkRecords # 0 /\ Len(<<>>) = 0
      BY <2>2, Sizes DEF Places
    <3> QED  BY <1>0, <2>2, <2>3, <3>1, <3>2
  <2>5. Scanned(files) = 1 .. c
    <3>1. ASSUME NEW n \in Scanned(files) PROVE n \in 1 .. c
      <4>1. n \in Chunks /\ files[n] # <<>>
        BY <3>1 DEF Scanned
      <4>2. c \in Nat /\ n \in Nat \ {0}
        BY <1>0, <2>2, <4>1
      <4>3. ~(n > c)
        BY <2>3, <4>1
      <4> QED  BY <4>2, <4>3
    <3>2. ASSUME NEW n \in 1 .. c PROVE n \in Scanned(files)
      <4>1. \A m \in 1 .. n - 1 : m \in Chunks /\ m < c
        BY <1>0, <2>2, <2>4
      <4> QED  BY <2>3, <2>4, <4>1 DEF Scanned
    <3> QED  BY <3>1, <3>2
  <2>6. Cardinality(Scanned(files)) = c /\ c # 0
    BY <1>0, <2>2, <2>5, FS_Interval
  <2>7. ((c - 1) * ChunkRecords) + Len(files[c]) = count
    BY <2>2, <2>3 DEF Slot
  <2>8. ScannedRecords(files) = [s \in 1 .. count |-> files[ChunkOf(s)][At(s)]]
    BY <2>6, <2>7 DEF ScannedRecords
  <2> QED  BY <1>2, <2>6, <2>8 DEF c
<1> QED  BY <1>1, <1>2

----------------------------------------------------------------------------
(* The counts of a day. *)

\* The numbers up to v are v many.
LEMMA CountsToN ==
  ASSUME NEW v \in Nat
  PROVE  IsFiniteSet(1 .. v) /\ Cardinality(1 .. v) = v
<1>1. IsFiniteSet(1 .. v) /\ Cardinality(1 .. v) = IF 1 > v THEN 0 ELSE v - 1 + 1
  BY FS_Interval
<1> QED  BY <1>1

\* The units of the amounts at some of the indices.
Units(amounts, at) == UNION {{s} \X (1 .. amounts[s]) : s \in at}

\* They are finitely many.
LEMMA UnitsFinite ==
  ASSUME NEW m \in Nat, NEW f \in [1 .. m -> Nat], NEW at \in SUBSET (1 .. m)
  PROVE  IsFiniteSet(Units(f, at))
<1> DEFINE all == {{s} \X (1 .. f[s]) : s \in at}
           units == [s \in at |-> {s} \X (1 .. f[s])]
<1>1. IsFiniteSet(at)
  <2>1. IsFiniteSet(1 .. m)
    BY FS_Interval
  <2> QED  BY <2>1, FS_Subset
<1>2. units \in Surjection(at, all)
  BY DEF Surjection
<1>3. \A T \in all : IsFiniteSet(T)
  <2>1. ASSUME NEW s \in at PROVE IsFiniteSet({s} \X (1 .. f[s]))
    <3>1. f[s] \in Nat
      OBVIOUS
    <3>2. IsFiniteSet({s}) /\ IsFiniteSet(1 .. f[s])
      BY <3>1, FS_Singleton, CountsToN
    <3> QED  BY <3>2, FS_Product
  <2> QED  BY <2>1
<1>4. Units(f, at) = UNION all
  BY DEF Units
<1> HIDE DEF all, units
<1>5. IsFiniteSet(all)
  BY <1>1, <1>2, FS_Surjection
<1> QED  BY <1>3, <1>4, <1>5, FS_UNION

\* The units of one amount are as many as it says.
LEMMA UnitsOfOne ==
  ASSUME NEW s, NEW v \in Nat
  PROVE  IsFiniteSet({s} \X (1 .. v)) /\ Cardinality({s} \X (1 .. v)) = v
<1>1. /\ IsFiniteSet({s}) /\ Cardinality({s}) = 1
      /\ IsFiniteSet(1 .. v) /\ Cardinality(1 .. v) = v
  BY FS_Singleton, CountsToN
<1>2. /\ IsFiniteSet({s} \X (1 .. v))
      /\ Cardinality({s} \X (1 .. v)) = Cardinality({s}) * Cardinality(1 .. v)
  BY <1>1, FS_Product
<1> QED  BY <1>1, <1>2

\* One more index brings its own units.
LEMMA UnitsOfOneMore ==
  ASSUME NEW m \in Nat, NEW f \in [1 .. m -> Nat], NEW s \in 1 .. m
  PROVE  /\ Cardinality(Units(f, (1 .. m) \ {s})) \in Nat
         /\ Total(f) = Cardinality(Units(f, (1 .. m) \ {s})) + f[s]
<1> DEFINE rest == Units(f, (1 .. m) \ {s})
           own == {s} \X (1 .. f[s])
<1>0. f[s] \in Nat
  OBVIOUS
<1>1. IsFiniteSet(rest)
  BY UnitsFinite
<1>2. IsFiniteSet(own) /\ Cardinality(own) = f[s]
  BY <1>0, UnitsOfOne
<1>3. rest \cap own = {}
  BY DEF Units
<1>4. Total(f) = Cardinality(rest \cup own)
  <2>1. UNION {{t} \X (1 .. f[t]) : t \in DOMAIN f} = rest \cup own
    BY DEF Units
  <2> QED  BY <2>1 DEF Total
<1> HIDE DEF rest, own
<1>5. Cardinality(rest \cap own) = 0 /\ Cardinality(rest) \in Nat
  BY <1>1, <1>3, FS_EmptySet, FS_CardinalityType
<1>6. Cardinality(rest \cup own) = Cardinality(rest) + Cardinality(own) - Cardinality(rest \cap own)
  BY <1>1, <1>2, FS_Union
<1>7. Total(f) = Cardinality(rest) + f[s]
  BY <1>0, <1>2, <1>4, <1>5, <1>6
<1> QED  BY <1>5, <1>7 DEF rest

\* The total is a number.
LEMMA TotalTyped ==
  ASSUME NEW m \in Nat, NEW f \in [1 .. m -> Nat]
  PROVE  Total(f) \in Nat /\ Total(f) = Cardinality(Units(f, 1 .. m))
<1>1. Total(f) = Cardinality(Units(f, 1 .. m))
  BY DEF Total, Units
<1>2. IsFiniteSet(Units(f, 1 .. m))
  BY UnitsFinite
<1> QED  BY <1>1, <1>2, FS_CardinalityType

\* So is that of some of the amounts.
LEMMA TotalOfSome ==
  ASSUME NEW m \in Nat, NEW S \in SUBSET (1 .. m), NEW f \in [S -> Nat]
  PROVE  Total(f) \in Nat
<1> DEFINE g == [s \in 1 .. m |-> IF s \in S THEN f[s] ELSE 0]
<1>1. g \in [1 .. m -> Nat]
  OBVIOUS
<1>2. Total(g) = Total(f)
  <2>1. \A s \in 1 .. m : {s} \X (1 .. g[s]) = IF s \in S THEN {s} \X (1 .. f[s]) ELSE {}
    OBVIOUS
  <2>2. UNION {{s} \X (1 .. g[s]) : s \in 1 .. m} = UNION {{s} \X (1 .. f[s]) : s \in S}
    BY <2>1
  <2>3. DOMAIN g = 1 .. m /\ DOMAIN f = S
    OBVIOUS
  <2> QED  BY <2>2, <2>3 DEF Total
<1> HIDE DEF g
<1> QED  BY <1>1, <1>2, TotalTyped

\* The amounts differ at one index, that may be new.
DifferAt(s, f, m, g, n) ==
  /\ m \in Nat /\ n \in Nat /\ m <= n /\ s \in 1 .. n
  /\ f \in [1 .. m -> Nat] /\ g \in [1 .. n -> Nat]
  /\ \A i \in 1 .. n : i # s => i \in 1 .. m /\ g[i] = f[i]

\* What one slot changes in a count.
LEMMA TotalChanges ==
  ASSUME NEW s, NEW f, NEW m, NEW g, NEW n, DifferAt(s, f, m, g, n)
  PROVE  Total(g) = Total(f) + g[s] - (IF s \in 1 .. m THEN f[s] ELSE 0)
<1>0. /\ m \in Nat /\ n \in Nat /\ m <= n /\ s \in 1 .. n
      /\ f \in [1 .. m -> Nat] /\ g \in [1 .. n -> Nat]
      /\ \A i \in 1 .. n : i # s => i \in 1 .. m /\ g[i] = f[i]
  BY DEF DifferAt
<1>1. Units(g, (1 .. n) \ {s}) = Units(f, (1 .. m) \ {s})
  <2>1. (1 .. n) \ {s} = (1 .. m) \ {s}
    BY <1>0
  <2>2. \A i \in (1 .. n) \ {s} : g[i] = f[i]
    BY <1>0
  <2>3. Units(g, (1 .. n) \ {s}) = Units(f, (1 .. n) \ {s})
    BY <2>2 DEF Units
  <2> QED  BY <2>1, <2>3
<1>2. /\ Cardinality(Units(g, (1 .. n) \ {s})) \in Nat
      /\ Total(g) = Cardinality(Units(g, (1 .. n) \ {s})) + g[s]
  BY <1>0, UnitsOfOneMore
<1>3. g[s] \in Nat
  BY <1>0
<1>4. CASE s \in 1 .. m
  <2>1. Total(f) = Cardinality(Units(f, (1 .. m) \ {s})) + f[s] /\ f[s] \in Nat
    BY <1>0, <1>4, UnitsOfOneMore
  <2> QED  BY <1>1, <1>2, <1>3, <1>4, <2>1
<1>5. CASE s \notin 1 .. m
  <2>1. (1 .. m) \ {s} = 1 .. m
    BY <1>5
  <2>2. Total(f) = Cardinality(Units(f, (1 .. m) \ {s}))
    BY <1>0, <2>1, TotalTyped
  <2> QED  BY <1>1, <1>2, <1>3, <1>5, <2>2
<1> QED  BY <1>4, <1>5

\* Words that are in use are fewer than those of the scope as long as one is not.
LEMMA RoomForOneMore ==
  ASSUME NEW n \in Nat, NEW f \in [1 .. n -> Words], \A i, j \in 1 .. n : f[i] = f[j] => i = j,
         NEW word \in Words, \A i \in 1 .. n : f[i] # word
  PROVE  n < Len(Scope)
<1> DEFINE g == [i \in 1 .. n + 1 |-> IF i = n + 1 THEN word ELSE f[i]]
<1>1. Len(Scope) \in Nat /\ DOMAIN Scope = 1 .. Len(Scope)
  BY WordsAssumption DEF WordsAssumption
<1>2. g \in Injection(1 .. n + 1, Words)
  <2>1. g \in [1 .. n + 1 -> Words]
    OBVIOUS
  <2>2. \A i, j \in 1 .. n + 1 : g[i] = g[j] => i = j
    OBVIOUS
  <2> QED  BY <2>1, <2>2 DEF Injection, IsInjective
<1>3. Scope \in Surjection(1 .. Len(Scope), Words)
  BY <1>1, WordsAssumption DEF WordsAssumption, Surjection, Words, Range
<1>4. IsFiniteSet(1 .. Len(Scope)) /\ Cardinality(1 .. Len(Scope)) = Len(Scope)
  BY <1>1, CountsToN
<1>5. IsFiniteSet(Words) /\ Cardinality(Words) <= Len(Scope)
  BY <1>3, <1>4, FS_Surjection
<1>6. IsFiniteSet(1 .. n + 1) /\ Cardinality(1 .. n + 1) = n + 1
  BY CountsToN
<1> HIDE DEF g
<1>7. n + 1 <= Cardinality(Words)
  BY <1>2, <1>5, <1>6, FS_Injection
<1>8. Cardinality(Words) \in Nat
  BY <1>5, FS_CardinalityType
<1> QED  BY <1>1, <1>5, <1>7, <1>8

----------------------------------------------------------------------------
(* The records in memory. *)

\* Every slot of the index has a record, in memory or in its file.
LEMMA RecordHeld ==
  ASSUME StoreTyped, InMemory, NEW s \in DOMAIN index
  PROVE  /\ s \in Nat \ {0} /\ s <= Len(index) /\ Len(index) <= Len(Scope)
         /\ ChunkOf(s) \in Chunks /\ At(s) \in Places /\ Slot(ChunkOf(s), At(s)) = s
         /\ ChunkOf(s) = cached_chunk => At(s) \in DOMAIN cache /\ Record(s) = cache[At(s)]
         /\ ChunkOf(s) # cached_chunk =>
              At(s) \in DOMAIN chunks[ChunkOf(s)] /\ Record(s) = chunks[ChunkOf(s)][At(s)]
         /\ Record(s) \in Records
<1>1. s \in Nat \ {0} /\ s <= Len(index) /\ Len(index) <= Len(Scope) /\ s \in 1 .. Len(Scope)
  BY Sizes DEF StoreTyped, InMemory
<1>2. ChunkOf(s) \in Chunks /\ At(s) \in Places /\ Slot(ChunkOf(s), At(s)) = s
  BY <1>1, PlaceOfSlot, ChunksTyped
<1>3. CASE ChunkOf(s) = cached_chunk
  <2>1. At(s) \in DOMAIN cache
    BY <1>1, <1>2, <1>3 DEF InMemory
  <2>2. Record(s) = cache[At(s)] /\ cache[At(s)] \in Records
    BY <1>3, <2>1 DEF Record, StoreTyped
  <2> QED  BY <1>1, <1>2, <1>3, <2>1, <2>2
<1>4. CASE ChunkOf(s) # cached_chunk
  <2>1. At(s) \in DOMAIN chunks[ChunkOf(s)]
    BY <1>1, <1>2, <1>4 DEF InMemory
  <2>2. chunks[ChunkOf(s)] \in Seq(Records)
    BY <1>2 DEF StoreTyped
  <2>3. Record(s) = chunks[ChunkOf(s)][At(s)] /\ chunks[ChunkOf(s)][At(s)] \in Records
    BY <1>4, <2>1, <2>2 DEF Record
  <2> QED  BY <1>1, <1>2, <1>4, <2>1, <2>3
<1> QED  BY <1>3, <1>4

\* With nothing unsaved the files hold what is in memory.
LEMMA CleanHolds ==
  ASSUME StoreTyped, InMemory, ~dirty_chunk
  PROVE  /\ Holds(chunks, Len(index)) /\ Len(index) \in Slots
         /\ \A s \in DOMAIN index : Record(s) = chunks[ChunkOf(s)][At(s)]
<1>1. Holds(chunks, Len(index))
  BY DEF InMemory, Holds
<1>2. Len(index) \in Slots
  BY Sizes DEF StoreTyped, InMemory, Slots
<1>3. ASSUME NEW s \in DOMAIN index PROVE Record(s) = chunks[ChunkOf(s)][At(s)]
  BY RecordHeld DEF InMemory
<1> QED  BY <1>1, <1>2, <1>3

\* The record a put may be of: one that is there or the next, in the file in memory.
Puts(slot, record) ==
  /\ slot \in 1 .. Len(index) + 1 /\ slot <= Len(Scope) /\ ChunkOf(slot) = cached_chunk
  /\ record \in Records
  /\ slot \in DOMAIN index => record.word = Record(slot).word

\* What words_store_put leaves.
LEMMA PutKeeps ==
  ASSUME StoreTyped, InMemory, NEW slot, NEW record, Puts(slot, record), words_store_put(slot, record), UNCHANGED chunks
  PROVE  /\ cache' \in Seq(Records) /\ index' \in Seq(Keyed) /\ InMemory'
         /\ Len(index') = IF slot \in DOMAIN index THEN Len(index) ELSE slot
         /\ DOMAIN index \subseteq DOMAIN index' /\ slot \in DOMAIN index'
         /\ \A s \in DOMAIN index' : s = slot \/ s \in DOMAIN index
         /\ \A s \in DOMAIN index' : Record(s)' = IF s = slot THEN record ELSE Record(s)
         /\ \A s \in DOMAIN index' : index'[s] = IF s = slot THEN Key(record) ELSE index[s]
<1> DEFINE n == Len(index)
           at == At(slot)
<1>1. /\ n \in Nat /\ DOMAIN index = 1 .. n /\ slot \in Nat \ {0} /\ slot <= n + 1 /\ slot \in 1 .. Len(Scope)
      /\ Len(Scope) \in Nat /\ ChunkRecords \in Nat \ {0}
  BY Sizes DEF StoreTyped, Puts
<1>2. /\ cached_chunk \in Chunks /\ at \in Places /\ Slot(cached_chunk, at) = slot
      /\ cached_chunk \in Nat \ {0}
  BY <1>1, PlaceOfSlot, ChunksTyped DEF Puts
<1>3. /\ cache \in Seq(Records) /\ Len(cache) \in Nat /\ DOMAIN cache = 1 .. Len(cache) /\ Len(cache) <= ChunkRecords
      /\ \A j \in Places : j \in DOMAIN cache <=> Slot(cached_chunk, j) <= n
  BY <1>2 DEF StoreTyped, InMemory
<1>4. record \in Records /\ Key(record) \in Keyed
  BY DEF Puts, Records, Key, Keyed
<1>5. /\ cache' = IF at > Len(cache) THEN Append(cache, record) ELSE [cache EXCEPT ![at] = record]
      /\ index' = IF slot > n THEN Append(index, Key(record)) ELSE [index EXCEPT ![slot] = Key(record)]
      /\ dirty_chunk' = TRUE /\ cached_chunk' = cached_chunk /\ chunks' = chunks
  BY DEF words_store_put
<1>6. Places = 1 .. ChunkRecords
  BY DEF Places
<1>7. index \in Seq(Keyed)
  BY DEF StoreTyped
<1> HIDE DEF n, at
<1>8. /\ index' \in Seq(Keyed) /\ Len(index') = IF slot \in DOMAIN index THEN n ELSE slot
      /\ DOMAIN index' = 1 .. Len(index')
      /\ DOMAIN index \subseteq DOMAIN index' /\ slot \in DOMAIN index'
      /\ \A s \in DOMAIN index' : s = slot \/ s \in DOMAIN index
      /\ \A s \in DOMAIN index' : index'[s] = IF s = slot THEN Key(record) ELSE index[s]
  <2>1. CASE slot > n
    <3>1. index' = Append(index, Key(record)) /\ slot = n + 1 /\ slot \notin DOMAIN index
      BY <1>1, <1>5, <2>1
    <3>2. /\ index' \in Seq(Keyed) /\ Len(index') = n + 1
          /\ \A s \in 1 .. n : index'[s] = index[s]
          /\ index'[n + 1] = Key(record)
      BY <1>1, <1>4, <1>7, <3>1, AppendProperties DEF n
    <3>3. DOMAIN index' = 1 .. n + 1
      BY <3>2
    <3> QED  BY <1>1, <3>1, <3>2, <3>3
  <2>2. CASE ~(slot > n)
    <3>1. index' = [index EXCEPT ![slot] = Key(record)] /\ slot \in 1 .. n
      BY <1>1, <1>5, <2>2
    <3>2. index' \in Seq(Keyed) /\ Len(index') = n
      BY <1>1, <1>4, <1>7, <3>1, ExceptSeq DEF n
    <3> QED  BY <1>1, <1>7, <3>1, <3>2
  <2> QED  BY <2>1, <2>2
<1>9. slot \in DOMAIN index <=> at <= Len(cache)
  BY <1>1, <1>2, <1>3, <1>6
<1>10. ASSUME slot \notin DOMAIN index PROVE at = Len(cache) + 1 /\ slot = n + 1
  <2>1. slot = n + 1
    BY <1>1, <1>10
  <2>2. at > Len(cache)
    BY <1>2, <1>3, <1>6, <1>9, <1>10
  <2>3. CASE at = 1
    BY <1>3, <2>1, <2>2, <2>3
  <2>4. CASE at # 1
    <3>1. at - 1 \in Places /\ 1 \in Places /\ at \in Nat
      BY <1>1, <1>2, <1>6, <2>4
    <3>2. Slot(cached_chunk, at - 1) = slot - 1
      <4>1. Slot(cached_chunk, at) = Slot(cached_chunk, 1) + at - 1
        BY <1>2, <3>1, PlacesOrdered
      <4>2. Slot(cached_chunk, at - 1) = Slot(cached_chunk, 1) + (at - 1) - 1
        BY <1>2, <3>1, PlacesOrdered
      <4>3. Slot(cached_chunk, 1) \in Nat
        BY <1>2, <3>1, SlotOfPlace
      <4> QED  BY <1>2, <3>1, <4>1, <4>2, <4>3
    <3>3. at - 1 <= Len(cache)
      BY <1>1, <1>3, <2>1, <3>1, <3>2
    <3> QED  BY <1>3, <2>1, <2>2, <3>1, <3>3
  <2> QED  BY <2>3, <2>4
<1>11. /\ cache' \in Seq(Records) /\ Len(cache') = IF slot \in DOMAIN index THEN Len(cache) ELSE at
       /\ DOMAIN cache' = 1 .. Len(cache')
       /\ DOMAIN cache \subseteq DOMAIN cache' /\ at \in DOMAIN cache'
       /\ \A j \in DOMAIN cache' : j = at \/ j \in DOMAIN cache
       /\ \A j \in DOMAIN cache' : cache'[j] = IF j = at THEN record ELSE cache[j]
  <2>1. CASE slot \notin DOMAIN index
    <3>1. cache' = Append(cache, record) /\ at = Len(cache) + 1
      <4>1. at = Len(cache) + 1
        BY <1>10, <2>1
      <4>2. at > Len(cache)
        BY <1>3, <4>1
      <4> QED  BY <1>5, <4>1, <4>2
    <3>2. /\ cache' \in Seq(Records) /\ Len(cache') = Len(cache) + 1
          /\ \A s \in 1 .. Len(cache) : cache'[s] = cache[s]
          /\ cache'[Len(cache) + 1] = record
      BY <1>3, <1>4, <3>1, AppendProperties
    <3>3. DOMAIN cache' = 1 .. Len(cache) + 1
      BY <3>2
    <3> QED  BY <1>3, <2>1, <3>1, <3>2, <3>3
  <2>2. CASE slot \in DOMAIN index
    <3>1. cache' = [cache EXCEPT ![at] = record] /\ at \in 1 .. Len(cache)
      <4>1. at <= Len(cache)
        BY <1>9, <2>2
      <4>2. at \in 1 .. Len(cache) /\ ~(at > Len(cache))
        BY <1>2, <1>3, <1>6, <4>1
      <4> QED  BY <1>5, <4>2
    <3>2. cache' \in Seq(Records) /\ Len(cache') = Len(cache)
      BY <1>3, <1>4, <3>1, ExceptSeq
    <3> QED  BY <1>3, <2>2, <3>1, <3>2
  <2> QED  BY <2>1, <2>2
<1>12. \A s \in DOMAIN index' : Record(s)' = IF s = slot THEN record ELSE Record(s)
  <2> TAKE s \in DOMAIN index'
  <2>1. s \in 1 .. Len(Scope) /\ s \in Nat \ {0}
    <3>1. Len(index) <= Len(Scope)
      BY DEF InMemory
    <3> QED  BY <1>1, <1>8, <3>1 DEF n
  <2>2. ChunkOf(s) \in Chunks /\ At(s) \in Places /\ Slot(ChunkOf(s), At(s)) = s
    BY <2>1, PlaceOfSlot, ChunksTyped
  <2>3. CASE s = slot
    <3>1. ChunkOf(s) = cached_chunk /\ At(s) = at
      BY <2>3 DEF Puts, at
    <3> QED  BY <1>5, <1>11, <2>3, <3>1 DEF Record
  <2>4. CASE s # slot /\ ChunkOf(s) = cached_chunk
    <3>1. s \in DOMAIN index /\ At(s) # at
      BY <1>2, <1>8, <2>2, <2>4
    <3>2. At(s) \in DOMAIN cache
      BY <2>4, <3>1, RecordHeld
    <3> QED  BY <1>5, <1>11, <2>4, <3>1, <3>2 DEF Record
  <2>5. CASE ChunkOf(s) # cached_chunk
    <3>1. s # slot
      BY <2>5 DEF Puts
    <3> QED  BY <1>5, <2>5, <3>1 DEF Record
  <2> QED  BY <2>3, <2>4, <2>5
<1>13. InMemory'
  <2>1. Len(index') <= Len(Scope) /\ Len(cache') <= ChunkRecords /\ Len(index') \in Nat
    <3>1. Len(index) <= Len(Scope)
      BY DEF InMemory
    <3> QED  BY <1>1, <1>2, <1>3, <1>6, <1>8, <1>11, <3>1 DEF n
  <2>2. ASSUME NEW m \in Chunks \ {cached_chunk}, NEW j \in Places
        PROVE  j \in DOMAIN chunks[m] <=> Slot(m, j) <= Len(index')
    <3>1. j \in DOMAIN chunks[m] <=> Slot(m, j) <= n
      BY DEF InMemory, n
    <3>2. Slot(m, j) \in Nat \ {0} /\ ChunkOf(Slot(m, j)) = m
      BY ChunksTyped, SlotOfPlace
    <3>3. Slot(m, j) # slot
      BY <3>2 DEF Puts
    <3>4. Len(index') = n \/ (Len(index') = n + 1 /\ slot = n + 1)
      BY <1>1, <1>8
    <3> QED  BY <1>1, <3>1, <3>2, <3>3, <3>4
  <2>3. ASSUME NEW j \in Places
        PROVE  j \in DOMAIN cache' <=> Slot(cached_chunk, j) <= Len(index')
    <3>1. j \in DOMAIN cache <=> Slot(cached_chunk, j) <= n
      BY <1>3
    <3>2. CASE slot \in DOMAIN index
      BY <1>3, <1>8, <1>11, <3>1, <3>2
    <3>3. CASE slot \notin DOMAIN index
      <4>1. Slot(cached_chunk, j) <= slot <=> j <= at
        BY <1>2, PlacesOrdered
      <4>2. j \in DOMAIN cache' <=> j <= at
        BY <1>6, <1>11, <3>3
      <4> QED  BY <1>8, <3>3, <4>1, <4>2
    <3> QED  BY <3>2, <3>3
  <2>4. Len(chunks[cached_chunk]) <= Len(cache')
    <3>1. Len(chunks[cached_chunk]) <= Len(cache) /\ Len(chunks[cached_chunk]) \in Nat
      BY <1>2 DEF InMemory, StoreTyped
    <3>2. Len(cache') >= Len(cache)
      BY <1>3, <1>10, <1>11
    <3> QED  BY <1>2, <1>3, <1>6, <1>11, <3>1, <3>2
  <2>5. ASSUME NEW j \in DOMAIN chunks[cached_chunk] PROVE chunks[cached_chunk][j].word = cache'[j].word
    <3>1. j \in DOMAIN cache /\ chunks[cached_chunk][j].word = cache[j].word
      <4>1. chunks[cached_chunk] \in Seq(Records) /\ Len(chunks[cached_chunk]) <= Len(cache)
        BY <1>2 DEF InMemory, StoreTyped
      <4> QED  BY <1>2, <1>3, <4>1 DEF InMemory
    <3>2. CASE j # at
      BY <1>11, <3>1, <3>2
    <3>3. CASE j = at
      <4>1. slot \in DOMAIN index
        BY <1>3, <1>9, <3>1, <3>3
      <4>2. Record(slot) = cache[at]
        BY <4>1, RecordHeld DEF Puts, at
      <4> QED  BY <1>11, <3>1, <3>3, <4>1, <4>2 DEF Puts
    <3> QED  BY <3>2, <3>3
  <2>6. cached_chunk' = cached_chunk /\ cached_chunk \in Chunks /\ dirty_chunk' = TRUE /\ chunks' = chunks
    BY <1>2, <1>5
  <2> QED  BY <2>1, <2>2, <2>3, <2>4, <2>5, <2>6 DEF InMemory
<1> QED  BY <1>8, <1>11, <1>12, <1>13 DEF n

----------------------------------------------------------------------------
(* A put, the counts and the words. *)

\* What a record counts is numbers.
LEMMA CountTyped ==
  ASSUME NEW record \in Records, NEW d \in Nat
  PROVE  /\ Count(record, d).added \in Nat /\ Count(record, d).reviewed \in Nat
         /\ Count(record, d).ratings \in Nat /\ Count(record, d).collected \in Nat
BY DEF Count, Records

\* The counts are made of one amount for each slot.
LEMMA CountsTyped ==
  ASSUME StoreTyped, InMemory, NEW d \in Nat
  PROVE  /\ Len(index) \in Nat /\ DOMAIN index = 1 .. Len(index)
         /\ [s \in DOMAIN index |-> Count(Record(s), d).added] \in [1 .. Len(index) -> Nat]
         /\ [s \in DOMAIN index |-> Count(Record(s), d).reviewed] \in [1 .. Len(index) -> Nat]
         /\ [s \in DOMAIN index |-> Count(Record(s), d).ratings] \in [1 .. Len(index) -> Nat]
         /\ [s \in DOMAIN index |-> Count(Record(s), d).collected] \in [1 .. Len(index) -> Nat]
         /\ words_store_counts(d) \in [day : {d}, added : Nat, reviewed : Nat, ratings : Nat, collected : Nat,
                                     made : {"whole"}, clock : {"on"}]
<1>1. Len(index) \in Nat /\ DOMAIN index = 1 .. Len(index)
  BY DEF StoreTyped
<1>2. \A s \in DOMAIN index : Record(s) \in Records
  BY RecordHeld
<1>3. /\ [s \in DOMAIN index |-> Count(Record(s), d).added] \in [1 .. Len(index) -> Nat]
      /\ [s \in DOMAIN index |-> Count(Record(s), d).reviewed] \in [1 .. Len(index) -> Nat]
      /\ [s \in DOMAIN index |-> Count(Record(s), d).ratings] \in [1 .. Len(index) -> Nat]
      /\ [s \in DOMAIN index |-> Count(Record(s), d).collected] \in [1 .. Len(index) -> Nat]
  BY <1>1, <1>2, CountTyped
<1>4. /\ Total([s \in DOMAIN index |-> Count(Record(s), d).added]) \in Nat
      /\ Total([s \in DOMAIN index |-> Count(Record(s), d).reviewed]) \in Nat
      /\ Total([s \in DOMAIN index |-> Count(Record(s), d).ratings]) \in Nat
      /\ Total([s \in DOMAIN index |-> Count(Record(s), d).collected]) \in Nat
  BY <1>1, <1>3, TotalTyped
<1> QED  BY <1>1, <1>3, <1>4 DEF words_store_counts, CountsOf

\* Those of some of the slots are counts as well.
LEMMA CountsOfSome ==
  ASSUME StoreTyped, InMemory, NEW S \in SUBSET DOMAIN index, NEW d \in Nat
  PROVE  CountsOf(S, d) \in [day : {d}, added : Nat, reviewed : Nat, ratings : Nat, collected : Nat,
                              made : {"whole"}, clock : {"on"}]
<1>1. Len(index) \in Nat /\ S \in SUBSET (1 .. Len(index))
  BY CountsTyped
<1>2. \A s \in S : Record(s) \in Records
  BY RecordHeld
<1>3. /\ [s \in S |-> Count(Record(s), d).added] \in [S -> Nat]
      /\ [s \in S |-> Count(Record(s), d).reviewed] \in [S -> Nat]
      /\ [s \in S |-> Count(Record(s), d).ratings] \in [S -> Nat]
      /\ [s \in S |-> Count(Record(s), d).collected] \in [S -> Nat]
  BY <1>2, CountTyped
<1>4. /\ Total([s \in S |-> Count(Record(s), d).added]) \in Nat
      /\ Total([s \in S |-> Count(Record(s), d).reviewed]) \in Nat
      /\ Total([s \in S |-> Count(Record(s), d).ratings]) \in Nat
      /\ Total([s \in S |-> Count(Record(s), d).collected]) \in Nat
  BY <1>1, <1>3, TotalOfSome
<1> QED  BY <1>4 DEF CountsOf

\* What a put of one record changes in a count of the day.
LEMMA CountsMove ==
  ASSUME StoreTyped, InMemory, NEW slot, NEW record, Puts(slot, record), words_store_put(slot, record), UNCHANGED chunks,
         NEW d \in Nat
  PROVE  LET was == IF slot \in DOMAIN index THEN Count(Record(slot), d)
                    ELSE [added |-> 0, reviewed |-> 0, ratings |-> 0, collected |-> 0]
         IN words_store_counts(d)' =
              [day |-> d,
               added |-> words_store_counts(d).added + Count(record, d).added - was.added,
               reviewed |-> words_store_counts(d).reviewed + Count(record, d).reviewed - was.reviewed,
               ratings |-> words_store_counts(d).ratings + Count(record, d).ratings - was.ratings,
               collected |-> words_store_counts(d).collected + Count(record, d).collected - was.collected,
         made |-> "whole", clock |-> "on"]
<1> DEFINE n == Len(index)
           m == Len(index')
           added == [s \in DOMAIN index |-> Count(Record(s), d).added]
           reviewed == [s \in DOMAIN index |-> Count(Record(s), d).reviewed]
           ratings == [s \in DOMAIN index |-> Count(Record(s), d).ratings]
           collected == [s \in DOMAIN index |-> Count(Record(s), d).collected]
           New(s) == IF s = slot THEN record ELSE Record(s)
           added2 == [s \in DOMAIN index' |-> Count(New(s), d).added]
           reviewed2 == [s \in DOMAIN index' |-> Count(New(s), d).reviewed]
           ratings2 == [s \in DOMAIN index' |-> Count(New(s), d).ratings]
           collected2 == [s \in DOMAIN index' |-> Count(New(s), d).collected]
<1>1. /\ index' \in Seq(Keyed) /\ m \in Nat /\ DOMAIN index' = 1 .. m
      /\ DOMAIN index \subseteq DOMAIN index' /\ slot \in DOMAIN index'
      /\ \A s \in DOMAIN index' : s = slot \/ s \in DOMAIN index
      /\ \A s \in DOMAIN index' : Record(s)' = New(s)
  <2>1. /\ index' \in Seq(Keyed) /\ DOMAIN index \subseteq DOMAIN index' /\ slot \in DOMAIN index'
        /\ \A s \in DOMAIN index' : s = slot \/ s \in DOMAIN index
        /\ \A s \in DOMAIN index' : Record(s)' = New(s)
    BY PutKeeps
  <2> QED  BY <2>1
<1>2. /\ n \in Nat /\ DOMAIN index = 1 .. n
      /\ added \in [1 .. n -> Nat] /\ reviewed \in [1 .. n -> Nat]
      /\ ratings \in [1 .. n -> Nat] /\ collected \in [1 .. n -> Nat]
  BY CountsTyped
<1>3. n <= m
  BY <1>1, <1>2
<1>4. \A s \in DOMAIN index' : New(s) \in Records
  BY <1>1, RecordHeld DEF Puts
<1>5. /\ added2 \in [1 .. m -> Nat] /\ reviewed2 \in [1 .. m -> Nat]
      /\ ratings2 \in [1 .. m -> Nat] /\ collected2 \in [1 .. m -> Nat]
  BY <1>1, <1>4, CountTyped
<1>6. words_store_counts(d)' = [day |-> d, added |-> Total(added2), reviewed |-> Total(reviewed2),
                                ratings |-> Total(ratings2), collected |-> Total(collected2),
                                made |-> "whole", clock |-> "on"]
  <2>1. /\ [s \in DOMAIN index' |-> Count(Record(s)', d).added] = added2
        /\ [s \in DOMAIN index' |-> Count(Record(s)', d).reviewed] = reviewed2
        /\ [s \in DOMAIN index' |-> Count(Record(s)', d).ratings] = ratings2
        /\ [s \in DOMAIN index' |-> Count(Record(s)', d).collected] = collected2
    BY <1>1
  <2> QED  BY <2>1 DEF words_store_counts, CountsOf
<1>7. \A i \in 1 .. m : i # slot => i \in 1 .. n /\ added2[i] = added[i] /\ reviewed2[i] = reviewed[i]
                                    /\ ratings2[i] = ratings[i] /\ collected2[i] = collected[i]
  BY <1>1, <1>2
<1>8. /\ added2[slot] = Count(record, d).added /\ reviewed2[slot] = Count(record, d).reviewed
      /\ ratings2[slot] = Count(record, d).ratings /\ collected2[slot] = Count(record, d).collected
  BY <1>1
<1>9. ASSUME slot \in DOMAIN index
      PROVE  /\ added[slot] = Count(Record(slot), d).added /\ reviewed[slot] = Count(Record(slot), d).reviewed
             /\ ratings[slot] = Count(Record(slot), d).ratings /\ collected[slot] = Count(Record(slot), d).collected
  BY <1>9
<1>10. /\ words_store_counts(d).added = Total(added) /\ words_store_counts(d).reviewed = Total(reviewed)
       /\ words_store_counts(d).ratings = Total(ratings) /\ words_store_counts(d).collected = Total(collected)
  BY DEF words_store_counts, CountsOf
<1>11. slot \in 1 .. m /\ m \in Nat
  BY <1>1
<1> HIDE DEF added, reviewed, ratings, collected, added2, reviewed2, ratings2, collected2, n, m, New
<1>12. Total(added2) = Total(added) + added2[slot] - (IF slot \in 1 .. n THEN added[slot] ELSE 0)
  <2>1. DifferAt(slot, added, n, added2, m)
    BY <1>2, <1>3, <1>5, <1>7, <1>11 DEF DifferAt
  <2> QED  BY <2>1, TotalChanges
<1>13. Total(reviewed2) = Total(reviewed) + reviewed2[slot] - (IF slot \in 1 .. n THEN reviewed[slot] ELSE 0)
  <2>1. DifferAt(slot, reviewed, n, reviewed2, m)
    BY <1>2, <1>3, <1>5, <1>7, <1>11 DEF DifferAt
  <2> QED  BY <2>1, TotalChanges
<1>14. Total(ratings2) = Total(ratings) + ratings2[slot] - (IF slot \in 1 .. n THEN ratings[slot] ELSE 0)
  <2>1. DifferAt(slot, ratings, n, ratings2, m)
    BY <1>2, <1>3, <1>5, <1>7, <1>11 DEF DifferAt
  <2> QED  BY <2>1, TotalChanges
<1>15. Total(collected2) = Total(collected) + collected2[slot] - (IF slot \in 1 .. n THEN collected[slot] ELSE 0)
  <2>1. DifferAt(slot, collected, n, collected2, m)
    BY <1>2, <1>3, <1>5, <1>7, <1>11 DEF DifferAt
  <2> QED  BY <2>1, TotalChanges
<1>16. CASE slot \in DOMAIN index
  BY <1>2, <1>6, <1>8, <1>9, <1>10, <1>12, <1>13, <1>14, <1>15, <1>16
<1>17. CASE slot \notin DOMAIN index
  BY <1>2, <1>6, <1>8, <1>10, <1>12, <1>13, <1>14, <1>15, <1>17
<1> QED  BY <1>16, <1>17

\* A record nothing has been made of counts for nothing.
Untouched(record) == record.phase = "new" /\ record.n = 0 /\ "collected" \notin record.flags

\* It counts for nothing.
LEMMA UntouchedCounts ==
  ASSUME NEW record, Untouched(record), NEW d
  PROVE  Count(record, d) = [added |-> 0, reviewed |-> 0, ratings |-> 0, collected |-> 0]
BY DEF Untouched, Count

\* The counts of the day follow a record by what it changed; half counts stay half.
LEMMA CountsFollow ==
  ASSUME StoreTyped, InMemory, Counted, daily.day <= MaxDay,
         NEW slot, NEW old, NEW record, Puts(slot, record), put_record(slot, old, record), UNCHANGED chunks,
         IF slot \in DOMAIN index THEN old = Record(slot) ELSE Untouched(old)
  PROVE  /\ daily' \in Amounts /\ Counted'
         /\ daily'.day = daily.day /\ daily'.made = daily.made /\ daily'.clock = daily.clock
<1>1. PICK d \in 0 .. MaxDay : d = daily.day
  BY Sizes DEF StoreTyped, Amounts
<1>2. d \in Nat /\ MaxDay \in Nat /\ d \in 0 .. MaxDay + 1 /\ words_store_put(slot, record)
  BY Sizes DEF put_record
<1> DEFINE was == IF slot \in DOMAIN index THEN Count(Record(slot), d)
                  ELSE [added |-> 0, reviewed |-> 0, ratings |-> 0, collected |-> 0]
           now == Count(record, d)
<1>3. was = Count(old, d)
  BY UntouchedCounts
<1>4. /\ was.added \in Nat /\ was.reviewed \in Nat /\ was.ratings \in Nat /\ was.collected \in Nat
      /\ now.added \in Nat /\ now.reviewed \in Nat /\ now.ratings \in Nat /\ now.collected \in Nat
  <2>1. CASE slot \in DOMAIN index
    BY <1>2, <2>1, RecordHeld, CountTyped DEF Puts
  <2>2. CASE slot \notin DOMAIN index
    BY <1>2, <2>2, CountTyped DEF Puts
  <2> QED  BY <2>1, <2>2
<1>5. daily' = [daily EXCEPT !.added = (@ + now.added) - was.added,
                             !.reviewed = (@ + now.reviewed) - was.reviewed,
                             !.ratings = (@ + now.ratings) - was.ratings,
                             !.collected = (@ + now.collected) - was.collected]
  BY <1>1, <1>3 DEF put_record
<1>6. words_store_counts(d)' =
        [day |-> d,
         added |-> words_store_counts(d).added + now.added - was.added,
         reviewed |-> words_store_counts(d).reviewed + now.reviewed - was.reviewed,
         ratings |-> words_store_counts(d).ratings + now.ratings - was.ratings,
         collected |-> words_store_counts(d).collected + now.collected - was.collected,
         made |-> "whole", clock |-> "on"]
  BY <1>2, CountsMove
<1>7. words_store_counts(d) \in [day : {d}, added : Nat, reviewed : Nat, ratings : Nat, collected : Nat,
                                made : {"whole"}, clock : {"on"}]
  BY <1>2, CountsTyped
<1> HIDE DEF was, now
<1>8. daily \in Amounts
  BY DEF StoreTyped
<1>9. /\ daily' \in Amounts /\ daily'.day = daily.day /\ daily'.made = daily.made /\ daily'.clock = daily.clock
      /\ daily'.added = (daily.added + now.added) - was.added
      /\ daily'.reviewed = (daily.reviewed + now.reviewed) - was.reviewed
      /\ daily'.ratings = (daily.ratings + now.ratings) - was.ratings
      /\ daily'.collected = (daily.collected + now.collected) - was.collected
  <2>1. /\ daily.added \in Int /\ daily.reviewed \in Int /\ daily.ratings \in Int /\ daily.collected \in Int
        /\ daily.day \in 0 .. MaxDay + 1 /\ daily.made \in {"whole", "half"} /\ daily.clock \in {"on", "back"}
    BY <1>8 DEF Amounts
  <2> DEFINE a == (daily.added + now.added) - was.added
             b == (daily.reviewed + now.reviewed) - was.reviewed
             e == (daily.ratings + now.ratings) - was.ratings
             f == (daily.collected + now.collected) - was.collected
  <2>2. a \in Int /\ b \in Int /\ e \in Int /\ f \in Int
    BY <1>4, <2>1
  <2>3. daily' = [daily EXCEPT !.added = a, !.reviewed = b, !.ratings = e, !.collected = f]
    BY <1>5
  <2>4. daily' \in Amounts /\ daily'.day = daily.day /\ daily'.made = daily.made /\ daily'.clock = daily.clock
        /\ daily'.added = a /\ daily'.reviewed = b /\ daily'.ratings = e /\ daily'.collected = f
    <3> HIDE DEF a, b, e, f
    <3>1. daily' = [day |-> daily.day, added |-> a, reviewed |-> b, ratings |-> e, collected |-> f,
                    made |-> daily.made, clock |-> daily.clock]
      BY <1>8, <2>3 DEF Amounts
    <3> QED  BY <2>1, <2>2, <3>1 DEF Amounts
  <2> QED  BY <2>4
<1>10. ASSUME daily.made = "whole" PROVE [daily' EXCEPT !.clock = "on"] = words_store_counts(d)'
  <2>1. [daily EXCEPT !.clock = "on"] = words_store_counts(d)
    BY <1>1, <1>10 DEF Counted
  <2>2. /\ daily.added = words_store_counts(d).added /\ daily.reviewed = words_store_counts(d).reviewed
        /\ daily.ratings = words_store_counts(d).ratings /\ daily.collected = words_store_counts(d).collected
    BY <1>8, <2>1 DEF Amounts
  <2>3. [daily' EXCEPT !.clock = "on"] =
          [day |-> d, added |-> daily'.added, reviewed |-> daily'.reviewed, ratings |-> daily'.ratings,
           collected |-> daily'.collected, made |-> "whole", clock |-> "on"]
    BY <1>1, <1>8, <1>9, <1>10 DEF Amounts
  <2>4. /\ daily'.added = words_store_counts(d).added + now.added - was.added
        /\ daily'.reviewed = words_store_counts(d).reviewed + now.reviewed - was.reviewed
        /\ daily'.ratings = words_store_counts(d).ratings + now.ratings - was.ratings
        /\ daily'.collected = words_store_counts(d).collected + now.collected - was.collected
    BY <1>4, <1>7, <1>9, <2>2
  <2> QED  BY <1>6, <2>3, <2>4
<1>11. Counted'
  <2>1. daily'.day = d
    BY <1>1, <1>9
  <2>2. words_store_counts(daily.day)' = words_store_counts(d)'
    BY <2>1 DEF words_store_counts, CountsOf
  <2> QED  BY <1>9, <1>10, <2>2 DEF Counted
<1> QED  BY <1>9, <1>11

\* What a record says of itself is in the index, and its word stays its own.
LEMMA TruthFollows ==
  ASSUME StoreTyped, InMemory, Truth, NEW slot, NEW record, Puts(slot, record), words_store_put(slot, record),
         UNCHANGED chunks,
         slot \notin DOMAIN index => \A s \in DOMAIN index : Record(s).word # record.word
  PROVE  Truth'
<1>1. /\ \A s \in DOMAIN index' : s = slot \/ s \in DOMAIN index
      /\ \A s \in DOMAIN index' : Record(s)' = IF s = slot THEN record ELSE Record(s)
      /\ \A s \in DOMAIN index' : index'[s] = IF s = slot THEN Key(record) ELSE index[s]
  BY PutKeeps
<1>2. ASSUME NEW s \in DOMAIN index' PROVE index'[s] = Key(Record(s)')
  BY <1>1 DEF Truth
<1>3. ASSUME NEW s \in DOMAIN index', NEW t \in DOMAIN index', Record(s)'.word = Record(t)'.word PROVE s = t
  BY <1>1, <1>3 DEF Truth, Puts
<1> QED  BY <1>2, <1>3 DEF Truth, Key

\* A new card is counted with nothing.
LEMMA CountsStand ==
  ASSUME StoreTyped, InMemory, Counted, NEW slot, NEW record, Puts(slot, record), words_store_put(slot, record),
         UNCHANGED <<chunks, daily>>, slot \notin DOMAIN index, Untouched(record)
  PROVE  Counted'
<1> SUFFICES ASSUME daily.day <= MaxDay, daily.made = "whole"
             PROVE  [daily EXCEPT !.clock = "on"] = words_store_counts(daily.day)'
  BY DEF Counted, words_store_counts, CountsOf
<1>1. PICK d \in 0 .. MaxDay : d = daily.day
  BY Sizes DEF StoreTyped, Amounts
<1>2. d \in Nat /\ [daily EXCEPT !.clock = "on"] = words_store_counts(d)
  BY <1>1, Sizes DEF Counted
<1>3. words_store_counts(d)' =
        [day |-> d,
         added |-> words_store_counts(d).added + 0 - 0,
         reviewed |-> words_store_counts(d).reviewed + 0 - 0,
         ratings |-> words_store_counts(d).ratings + 0 - 0,
         collected |-> words_store_counts(d).collected + 0 - 0,
         made |-> "whole", clock |-> "on"]
  BY <1>2, CountsMove, UntouchedCounts
<1>4. words_store_counts(d) \in [day : {d}, added : Nat, reviewed : Nat, ratings : Nat, collected : Nat,
                                made : {"whole"}, clock : {"on"}]
  BY <1>2, CountsTyped
<1>5. words_store_counts(d)' = words_store_counts(d)
  BY <1>3, <1>4
<1> QED  BY <1>1, <1>2, <1>5

----------------------------------------------------------------------------
(* Steps that leave the store alone. *)

\* What the variables begin with is of their types.
LEMMA ConstantsTyped ==
  /\ NoJob \in Jobs /\ NoResult \in Results /\ NoCard \in [slot : Slots, token : Nat] /\ NoPage \in PageStates
  /\ NoDaily \in Amounts /\ 0 \in Slots /\ Len(Scope) \in Slots /\ Slots \subseteq Nat
  /\ <<>> \in Seq(Jobs) /\ <<>> \in Seq(Records) /\ <<>> \in Seq(Keyed)
<1>1. Len(Scope) \in Nat /\ MaxDay \in Nat
  BY Sizes
<1>2. 0 \in Slots /\ Len(Scope) \in Slots /\ Slots \subseteq Nat
  BY <1>1 DEF Slots
<1>3. NoJob \in Jobs
  BY <1>2 DEF NoJob, Jobs, Kinds
<1>4. NoResult \in Results
  BY <1>2 DEF NoResult, Results
<1>5. NoCard \in [slot : Slots, token : Nat]
  BY <1>2 DEF NoCard
<1>6. NoPage \in PageStates
  BY <1>5 DEF NoPage, PageStates
<1>7. NoDaily \in Amounts
  BY <1>1 DEF NoDaily, Amounts
<1> QED  BY <1>2, <1>3, <1>4, <1>5, <1>6, <1>7

\* The store is whole as long as nothing is done to it.
LEMMA WholeStays ==
  ASSUME Whole, UNCHANGED <<index, cache, cached_chunk, dirty_chunk, chunks, daily>>,
         saved_cfg'.pending = saved_cfg.pending,
         Running' <=> Running, Working' => Working
  PROVE  Whole'
<1>1. FilesWhole'
  BY DEF Whole, FilesWhole, Holds, OneWordEach
<1>2. Empty'
  BY DEF Whole, Empty
<1>3. InMemory => InMemory'
  BY DEF InMemory
<1>4. Truth => Truth'
  BY DEF Truth, Record
<1>5. Counted => Counted'
  BY DEF Counted, words_store_counts, CountsOf, Record
<1> QED  BY <1>1, <1>2, <1>3, <1>4, <1>5 DEF Whole, MemoryWhole

\* The types stay.
LEMMA StoreTypedStays ==
  ASSUME StoreTyped, UNCHANGED <<cfg, saved_cfg, daily, cache, cached_chunk, index, chunks, day>>
  PROVE  StoreTyped'
BY DEF StoreTyped

\* The slots stay within the index.
LEMMA WithinStays ==
  ASSUME WithinIndex, UNCHANGED <<index, job, res, queue, completed, active_slot>>, page'.card = page.card,
         cfg'.pending = cfg.pending, pc' # "off" => pc # "off", Working' => Working,
         pc' \in {"select", "show"} \/ (pc' = "save" /\ after' = "show")
           => pc \in {"select", "show"} \/ (pc = "save" /\ after = "show")
  PROVE  WithinIndex'
BY DEF WithinIndex

\* The worker waits, wakes and answers; a page waits for the answer; the system stops the
\* service; a day ends.
LEMMA Waits ==
  ASSUME WordsInv, Answer \/ Wake \/ Leave \/ FlushDone \/ Cancel \/ Midnight
  PROVE  WordsInv'
<1> USE DEF svcVars, cardVars, storeVars, diskVars, worldVars, NoFault, Fault
<1>1. /\ UNCHANGED <<job, res, queue, generation, completed, index, cache, cached_chunk, dirty_chunk, dirty_config,
                     chunks, daily, cfg, saved_cfg, active_slot, card_token, rated, after>>
      /\ pc' = pc \/ (pc \in {"idle", "unsaved", "wait"} /\ pc' \in {"wait", "top"})
  BY DEF Answer, Wake, Leave, FlushDone, Cancel, Midnight
<1>2. day' \in 0 .. MaxDay /\ day \in 0 .. MaxDay /\ day <= day' /\ MaxDay \in Nat /\ daily \in Amounts
  BY Sizes DEF WordsInv, Typed, StoreTyped, Answer, Wake, Leave, FlushDone, Cancel, Midnight
<1>3. /\ page' \in PageStates /\ page'.card = page.card
      /\ page'.kind = "none" => page' = NoPage
  <2>1. page \in PageStates /\ (page.kind = "none" => page = NoPage)
    BY DEF WordsInv, Typed, ResultsTyped, Course, NoPageNoCard
  <2>2. CASE UNCHANGED page
    BY <2>1, <2>2
  <2>3. CASE \E kind \in {"home", "left", "saving"} : page' = [page EXCEPT !.kind = kind]
    BY <2>1, <2>3 DEF PageStates
  <2> QED
    <3>1. CASE Leave
      <4>1. page.kind = "home"
        BY <3>1 DEF Leave
      <4> QED  BY <2>3, <3>1, <4>1 DEF Leave
    <3>2. CASE FlushDone
      BY <2>3, <3>2 DEF FlushDone
    <3>3. CASE Answer \/ Wake \/ Cancel \/ Midnight
      BY <2>2, <3>3 DEF Answer, Wake, Cancel, Midnight
    <3> QED  BY <3>1, <3>2, <3>3
<1>4. Typed'
  <2>1. JobsTyped' /\ ResultsTyped'
    BY <1>1, <1>3 DEF WordsInv, Typed, JobsTyped, ResultsTyped
  <2>2. StoreTyped'
    BY <1>1, <1>2 DEF WordsInv, Typed, StoreTyped
  <2>3. Stages'
    BY <1>1 DEF WordsInv, Typed, Stages
  <2> QED  BY <2>1, <2>2, <2>3 DEF Typed
<1>5. (Running' <=> Running) /\ (Working' => Working)
  BY <1>1 DEF Running, Working
<1>6. Whole'
  BY <1>1, <1>5, WholeStays DEF WordsInv
<1>7. WithinIndex'
  BY <1>1, <1>3, <1>5, WithinStays DEF WordsInv, Course
<1>8. DayKnown'
  <2>1. UsesCounts' => UsesCounts
    BY <1>1 DEF UsesCounts
  <2>2. ASSUME daily.clock = "on"
        PROVE  /\ daily.day = MaxDay + 1 \/ daily.day <= day'
               /\ daily.made = "half" => daily.day # day' /\ ~UsesCounts
    BY <1>2, <2>2 DEF WordsInv, Course, DayKnown, Amounts
  <2>3. pc' = "do" \/ (pc' = "save" /\ after' = "do") => daily.day <= MaxDay
    BY <1>1 DEF WordsInv, Course, DayKnown
  <2> QED  BY <1>1, <2>1, <2>2, <2>3 DEF DayKnown
<1>9. Clean' /\ Sized' /\ Asleep' /\ NoPageNoCard' /\ Spent'
  BY <1>1, <1>3 DEF WordsInv, Course, Clean, Sized, Asleep, NoPageNoCard, Spent
<1> QED  BY <1>4, <1>6, <1>7, <1>8, <1>9 DEF WordsInv, Course

\* A job joins the queue, or the service takes none.
LEMMA JobJoins ==
  ASSUME Typed, NEW request \in Jobs, request.kind \in Flags /\ request.slot = 0 => request.word \in Words,
         request.slot <= Len(index),
         IF pc = "off" \/ stopping \/ Len(queue) = JobCount
         THEN UNCHANGED queue
         ELSE queue' = Append(queue, [request EXCEPT !.serial = generation + 1]),
         \A i \in DOMAIN queue : queue[i].slot <= Len(index)
  PROVE  /\ queue' \in Seq(Jobs) /\ Len(queue') <= JobCount
         /\ \A i \in DOMAIN queue' : queue'[i].kind \in Flags /\ queue'[i].slot = 0 => queue'[i].word \in Words
         /\ \A i \in DOMAIN queue' : queue'[i].slot <= Len(index)
<1>1. /\ queue \in Seq(Jobs) /\ Len(queue) <= JobCount /\ generation \in Nat /\ JobCount \in Nat
      /\ \A i \in DOMAIN queue : queue[i].kind \in Flags /\ queue[i].slot = 0 => queue[i].word \in Words
  BY Sizes DEF Typed, JobsTyped
<1>2. CASE UNCHANGED queue
  BY <1>1, <1>2
<1>3. CASE Len(queue) # JobCount /\ queue' = Append(queue, [request EXCEPT !.serial = generation + 1])
  <2> DEFINE new == [request EXCEPT !.serial = generation + 1]
  <2>1. new \in Jobs /\ new.kind = request.kind /\ new.slot = request.slot /\ new.word = request.word
    BY <1>1 DEF Jobs
  <2> HIDE DEF new
  <2>2. /\ queue' \in Seq(Jobs) /\ Len(queue') = Len(queue) + 1
        /\ \A i \in 1 .. Len(queue) : queue'[i] = queue[i]
        /\ queue'[Len(queue) + 1] = new
    BY <1>1, <1>3, <2>1, AppendProperties DEF new
  <2>3. \A i \in DOMAIN queue' : i \in DOMAIN queue \/ queue'[i] = new
    BY <1>1, <2>2
  <2>4. Len(queue') <= JobCount
    BY <1>1, <1>3, <2>2
  <2> QED  BY <1>1, <2>1, <2>2, <2>3, <2>4
<1> QED  BY <1>2, <1>3

----------------------------------------------------------------------------
(* The pages. *)

\* A page's step is seen in the queue, the serials, the result and the page alone.
LEMMA PageStep ==
  ASSUME WordsInv,
         UNCHANGED <<pc, after, job, res, cardVars, storeVars, diskVars, day>>,
         generation' \in Nat,
         queue' \in Seq(Jobs) /\ Len(queue') <= JobCount,
         \A i \in DOMAIN queue' : queue'[i].kind \in Flags /\ queue'[i].slot = 0 => queue'[i].word \in Words,
         pc # "off" => \A i \in DOMAIN queue' : queue'[i].slot <= Len(index),
         pc = "off" => UNCHANGED queue,
         completed' \in {completed, NoResult},
         page' \in PageStates, page'.kind = "none" => page' = NoPage,
         pc # "off" => page'.card.slot <= Len(index)
  PROVE  WordsInv'
<1> USE DEF cardVars, storeVars, diskVars
<1>1. Typed'
  <2>1. JobsTyped'
    BY DEF WordsInv, Typed, JobsTyped
  <2>2. ResultsTyped'
    BY ConstantsTyped DEF WordsInv, Typed, ResultsTyped
  <2>3. StoreTyped' /\ Stages'
    BY StoreTypedStays DEF WordsInv, Typed, Stages
  <2> QED  BY <2>1, <2>2, <2>3 DEF Typed
<1>2. (Running' <=> Running) /\ (Working' => Working)
  BY DEF Running, Working
<1>3. Whole'
  BY <1>2, WholeStays DEF WordsInv
<1>4. WithinIndex'
  <2>1. pc # "off" => completed'.slot <= Len(index)
    <3>1. NoResult.slot = 0 /\ (pc # "off" => 0 <= Len(index))
      BY DEF NoResult, WordsInv, Typed, StoreTyped
    <3> QED  BY <3>1 DEF WordsInv, Course, WithinIndex
  <2> QED  BY <1>2, <2>1 DEF WordsInv, Course, WithinIndex
<1>5. Clean' /\ DayKnown' /\ Sized' /\ Asleep' /\ NoPageNoCard' /\ Spent'
  BY DEF WordsInv, Course, Clean, DayKnown, UsesCounts, Stretches, Sized, Asleep, NoPageNoCard, Spent
<1> QED  BY <1>1, <1>3, <1>4, <1>5 DEF WordsInv, Course

\* What PageStep asks of a queue that stays, or is joined.
LEMMA QueueStays ==
  ASSUME WordsInv, UNCHANGED queue
  PROVE  /\ queue' \in Seq(Jobs) /\ Len(queue') <= JobCount
         /\ \A i \in DOMAIN queue' : queue'[i].kind \in Flags /\ queue'[i].slot = 0 => queue'[i].word \in Words
         /\ pc # "off" => \A i \in DOMAIN queue' : queue'[i].slot <= Len(index)
         /\ pc = "off" => UNCHANGED queue
BY DEF WordsInv, Typed, JobsTyped, Course, WithinIndex

\* What PageStep asks of a queue that is joined.
LEMMA QueueJoined ==
  ASSUME WordsInv, NEW request \in Jobs, request.kind \in Flags /\ request.slot = 0 => request.word \in Words,
         pc # "off" => request.slot <= Len(index),
         IF pc = "off" \/ stopping \/ Len(queue) = JobCount
         THEN UNCHANGED queue
         ELSE queue' = Append(queue, [request EXCEPT !.serial = generation + 1])
  PROVE  /\ queue' \in Seq(Jobs) /\ Len(queue') <= JobCount
         /\ \A i \in DOMAIN queue' : queue'[i].kind \in Flags /\ queue'[i].slot = 0 => queue'[i].word \in Words
         /\ pc # "off" => \A i \in DOMAIN queue' : queue'[i].slot <= Len(index)
         /\ pc = "off" => UNCHANGED queue
<1>1. CASE pc = "off"
  BY <1>1, QueueStays
<1>2. CASE pc # "off"
  <2>1. \A i \in DOMAIN queue : queue[i].slot <= Len(index)
    BY <1>2 DEF WordsInv, Course, WithinIndex
  <2> QED  BY <1>2, <2>1, JobJoins DEF WordsInv
<1> QED  BY <1>1, <1>2

\* What the pages know of the page on top.
LEMMA PageKnown ==
  ASSUME WordsInv
  PROVE  /\ page \in PageStates /\ generation \in Nat
         /\ page.card \in [slot : Slots, token : Nat] /\ page.request \in Nat
         /\ page.kind = "none" => page = NoPage
         /\ pc # "off" => page.card.slot <= Len(index) /\ completed.slot <= Len(index) /\ 0 <= Len(index)
         /\ completed \in Results
BY DEF WordsInv, Typed, JobsTyped, ResultsTyped, StoreTyped, Course, NoPageNoCard, WithinIndex, PageStates

\* A request of the page is queued.
LEMMA Submits ==
  ASSUME WordsInv, NEW request \in Jobs, request.kind \in Flags /\ request.slot = 0 => request.word \in Words,
         pc # "off" => request.slot <= Len(index), page.kind # "none",
         words_submit(request),
         UNCHANGED <<pc, after, job, res, cardVars, storeVars, diskVars, day>>
  PROVE  WordsInv'
<1>1. /\ queue' \in Seq(Jobs) /\ Len(queue') <= JobCount
      /\ \A i \in DOMAIN queue' : queue'[i].kind \in Flags /\ queue'[i].slot = 0 => queue'[i].word \in Words
      /\ pc # "off" => \A i \in DOMAIN queue' : queue'[i].slot <= Len(index)
      /\ pc = "off" => UNCHANGED queue
  BY QueueJoined DEF words_submit
<1>2. generation' \in Nat /\ completed' \in {completed, NoResult}
  BY PageKnown DEF words_submit
<1>3. page' \in PageStates /\ page'.kind = page.kind /\ page'.card = page.card
  BY PageKnown DEF words_submit, PageStates
<1> QED
  BY <1>1, <1>2, <1>3, PageKnown, PageStep

\* A click queues a rating, a mark, the next card or another range.
LEMMA Clicks ==
  ASSUME WordsInv, Click
  PROVE  WordsInv'
<1> DEFINE Quiet == UNCHANGED <<pc, after, job, res, cardVars, storeVars, diskVars, day>>
<1>0. Quiet
  BY DEF Click, worldVars, storeVars, cardVars, diskVars
<1> HIDE DEF Quiet
<1>1. /\ page.card.slot \in Slots /\ page.card.token \in Nat
      /\ pc # "off" => page.card.slot <= Len(index) /\ 0 <= Len(index)
  BY PageKnown
<1>2. ASSUME NEW kind \in {"rate", "collected"}, NEW value \in BOOLEAN, page.kind = "study", page.card.slot # 0,
             words_submit([Request(kind) EXCEPT !.slot = page.card.slot, !.token = page.card.token, !.value = value])
      PROVE  WordsInv'
  <2> DEFINE request == [Request(kind) EXCEPT !.slot = page.card.slot, !.token = page.card.token, !.value = value]
  <2>1. request \in Jobs /\ request.slot = page.card.slot
    BY <1>1, ConstantsTyped DEF Request, NoJob, Jobs, Kinds, Flags
  <2> HIDE DEF request
  <2> QED  BY <1>0, <1>1, <1>2, <2>1, Submits DEF request, Quiet
<1>3. ASSUME NEW kind \in {"next", "scope"}, page.kind # "none", words_submit(Request(kind))
      PROVE  WordsInv'
  <2>1. Request(kind) \in Jobs /\ Request(kind).slot = 0 /\ Request(kind).kind \notin Flags
    BY ConstantsTyped DEF Request, NoJob, Jobs, Kinds, Flags
  <2> QED  BY <1>0, <1>1, <1>3, <2>1, Submits DEF Quiet
<1>4. ASSUME NEW flag \in Flags, NEW word \in Words, NEW value \in BOOLEAN, page.kind = "detail",
             words_submit([Request(flag) EXCEPT !.word = word, !.value = value])
      PROVE  WordsInv'
  <2> DEFINE request == [Request(flag) EXCEPT !.word = word, !.value = value]
  <2>1. request \in Jobs /\ request.slot = 0 /\ request.word \in Words
    BY ConstantsTyped DEF Request, NoJob, Jobs, Kinds, Flags
  <2> HIDE DEF request
  <2> QED  BY <1>0, <1>1, <1>4, <2>1, Submits DEF request, Quiet
<1>5. CASE /\ page.kind = "study" /\ page.card.slot # 0
           /\ words_submit([Request("rate") EXCEPT !.slot = page.card.slot, !.token = page.card.token])
  <2> DEFINE request == [Request("rate") EXCEPT !.slot = page.card.slot, !.token = page.card.token]
  <2>1. request \in Jobs /\ request.slot = page.card.slot /\ request.slot # 0
    BY <1>1, <1>5, ConstantsTyped DEF Request, NoJob, Jobs, Kinds, Flags
  <2> HIDE DEF request
  <2> QED  BY <1>0, <1>1, <1>5, <2>1, Submits DEF request, Quiet
<1> QED
  BY <1>2, <1>3, <1>4, <1>5 DEF Click

\* The page on top asks for its data.
LEMMA Resumes ==
  ASSUME WordsInv, NEW kind \in {"home", "study", "detail"}, Resume(kind)
  PROVE  WordsInv'
<1>0. UNCHANGED <<pc, after, job, res, cardVars, storeVars, diskVars, day>>
  BY DEF Resume, worldVars, storeVars, cardVars, diskVars
<1> DEFINE request == Request(IF kind = "study" THEN "next" ELSE "read")
           card == IF kind = "home" THEN NoCard ELSE page.card
<1>1. request \in Jobs /\ request.slot = 0 /\ request.kind \notin Flags
  BY ConstantsTyped DEF Request, NoJob, Jobs, Kinds, Flags
<1>2. card \in [slot : Slots, token : Nat] /\ (pc # "off" => card.slot <= Len(index))
  BY PageKnown, ConstantsTyped DEF NoCard
<1>3. IF pc = "off" \/ stopping \/ Len(queue) = JobCount
      THEN UNCHANGED queue
      ELSE queue' = Append(queue, [request EXCEPT !.serial = generation + 1])
  BY DEF Resume
<1>4. page' \in PageStates /\ page'.kind = kind /\ page'.card = card
  <2>1. \E number \in {page.request, generation + 1} : page' = [page EXCEPT !.kind = kind, !.card = card, !.request = number]
    <3>1. CASE page' = [page EXCEPT !.kind = kind, !.card = card]
      <4>1. page' = [page EXCEPT !.kind = kind, !.card = card, !.request = page.request]
        BY <3>1, PageKnown DEF PageStates
      <4> QED  BY <4>1
    <3>2. CASE page' = [page EXCEPT !.kind = kind, !.card = card, !.request = generation + 1]
      BY <3>2
    <3> QED  BY <3>1, <3>2 DEF Resume
  <2>2. PICK number \in {page.request, generation + 1} :
          page' = [page EXCEPT !.kind = kind, !.card = card, !.request = number]
    BY <2>1
  <2>3. number \in Nat
    BY PageKnown
  <2> HIDE DEF card
  <2> QED  BY <1>2, <2>2, <2>3, PageKnown DEF PageStates
<1>5. generation' \in Nat /\ completed' \in {completed, NoResult}
  BY PageKnown DEF Resume
<1> HIDE DEF request, card
<1>6. /\ queue' \in Seq(Jobs) /\ Len(queue') <= JobCount
      /\ \A i \in DOMAIN queue' : queue'[i].kind \in Flags /\ queue'[i].slot = 0 => queue'[i].word \in Words
      /\ pc # "off" => \A i \in DOMAIN queue' : queue'[i].slot <= Len(index)
      /\ pc = "off" => UNCHANGED queue
  BY <1>1, <1>3, PageKnown, QueueJoined
<1> QED
  BY <1>0, <1>2, <1>4, <1>5, <1>6, PageStep

\* A page is left, or the service is stopped: its request is cancelled.
LEMMA Pauses ==
  ASSUME WordsInv, Pause \/ Stop
  PROVE  WordsInv'
<1>0. UNCHANGED <<pc, after, job, res, queue, cardVars, storeVars, diskVars, day>>
  BY DEF Pause, Stop, worldVars, storeVars, cardVars, diskVars
<1>1. generation' \in Nat /\ completed' \in {completed, NoResult}
  BY PageKnown DEF Pause, Stop, words_cancel
<1>2. page' \in PageStates /\ (page'.kind = "none" => page' = NoPage) /\ (pc # "off" => page'.card.slot <= Len(index))
  <2>1. CASE Pause
    BY <2>1, PageKnown DEF Pause, PageStates
  <2>2. CASE Stop
    BY <2>2, PageKnown, ConstantsTyped DEF Stop, NoPage, NoCard
  <2> QED  BY <2>1, <2>2
<1> QED
  BY <1>0, <1>1, <1>2, QueueStays, PageStep

\* A page takes its result.
LEMMA Polls ==
  ASSUME WordsInv, Poll
  PROVE  WordsInv'
<1>0. UNCHANGED <<pc, after, job, res, queue, generation, cardVars, storeVars, diskVars, day>>
  BY DEF Poll, worldVars, storeVars, cardVars, diskVars
<1>1. generation' \in Nat /\ completed' \in {completed, NoResult}
  BY <1>0, PageKnown DEF Poll
<1>2. [slot |-> completed.slot, token |-> completed.token] \in [slot : Slots, token : Nat]
  BY PageKnown DEF Results
<1>3. \E card \in {page.card, NoCard, [slot |-> completed.slot, token |-> completed.token]} :
        page' = [page EXCEPT !.request = 0, !.card = card]
  <2>1. CASE page' = [page EXCEPT !.request = 0]
    <3>1. page' = [page EXCEPT !.request = 0, !.card = page.card]
      BY <2>1, PageKnown DEF PageStates
    <3> QED  BY <3>1
  <2>2. CASE page' = [page EXCEPT !.request = 0,
             !.card = IF page.kind # "study" THEN @
                      ELSE IF completed.ok THEN [slot |-> completed.slot, token |-> completed.token]
                      ELSE IF completed.accepted THEN NoCard ELSE @]
    BY <2>2
  <2> QED  BY <2>1, <2>2 DEF Poll
<1>4. /\ page' \in PageStates /\ page'.kind = page.kind
      /\ pc # "off" => page'.card.slot <= Len(index)
  <2>1. PICK card \in {page.card, NoCard, [slot |-> completed.slot, token |-> completed.token]} :
          page' = [page EXCEPT !.request = 0, !.card = card]
    BY <1>3
  <2>2. card \in [slot : Slots, token : Nat] /\ (pc # "off" => card.slot <= Len(index))
    BY <1>2, PageKnown, ConstantsTyped DEF NoCard
  <2> QED  BY <2>1, <2>2, PageKnown DEF PageStates
<1>5. page.kind # "none"
  BY DEF Poll
<1> QED
  BY <1>0, <1>1, <1>4, <1>5, QueueStays, PageStep

\* The service is started.
LEMMA Opens ==
  ASSUME WordsInv, Open
  PROVE  WordsInv'
<1>0. /\ pc = "off" /\ pc' = "open" /\ queue' = <<>> /\ page.kind = "none"
      /\ page' = [NoPage EXCEPT !.kind = "between"]
      /\ UNCHANGED <<after, job, res, generation, completed, cfg, dirty_chunk, dirty_config, cache, cached_chunk, index,
                     daily, chunks, saved_cfg, active_slot, card_token, rated, day>>
  BY DEF Open, worldVars, storeVars, cardVars, diskVars
<1>1. page' \in PageStates /\ page'.kind = "between" /\ page'.card.slot = 0
  BY <1>0, ConstantsTyped DEF NoPage, NoCard, PageStates
<1>2. Typed'
  <2>1. JobsTyped' /\ ResultsTyped'
    BY <1>0, <1>1, Sizes, ConstantsTyped DEF WordsInv, Typed, JobsTyped, ResultsTyped
  <2>2. StoreTyped' /\ Stages'
    BY <1>0, StoreTypedStays DEF WordsInv, Typed, Stages
  <2> QED  BY <2>1, <2>2 DEF Typed
<1>3. ~Running /\ ~Running' /\ ~Working /\ ~Working'
  BY <1>0 DEF Running, Working
<1>4. Whole'
  BY <1>0, <1>3, WholeStays DEF WordsInv
<1>5. WithinIndex'
  <2>1. Len(index') = 0
    BY <1>0, <1>3 DEF WordsInv, Whole, Empty
  <2>2. job'.slot = 0 /\ res'.slot = 0 /\ completed'.slot = 0 /\ DOMAIN queue' = {}
    BY <1>0 DEF WordsInv, Course, Asleep, NoJob, NoResult
  <2> QED  BY <1>0, <1>1, <1>3, <2>1, <2>2 DEF WithinIndex
<1>6. Clean' /\ DayKnown' /\ Sized' /\ Asleep' /\ NoPageNoCard' /\ Spent'
  BY <1>0, <1>1 DEF WordsInv, Course, Clean, DayKnown, UsesCounts, Stretches, Sized, Asleep, NoPageNoCard, Spent
<1> QED  BY <1>2, <1>4, <1>5, <1>6 DEF WordsInv, Course

----------------------------------------------------------------------------
(* The worker. *)

\* What the worker may do with the rest, whatever it does with the records.
LEMMA WorkerStep ==
  ASSUME WordsInv, Working, Whole', StoreTyped', Stages', Clean', DayKnown', pc' # "off",
         UNCHANGED <<generation, page>>, Len(index) <= Len(index'),
         UNCHANGED queue \/ (queue # <<>> /\ queue' = Tail(queue)),
         job' \in {job, NoJob} \/ (queue # <<>> /\ job' = Head(queue)),
         completed' \in {completed, res},
         res' \in Results, res'.slot <= Len(index'),
         active_slot' \in Slots, active_slot' <= Len(index'), cfg'.pending <= Len(index'),
         card_token' \in Nat, card_token <= card_token', Spent',
         pc' \in {"select", "show"} \/ (pc' = "save" /\ after' = "show") => res'.slot # 0,
         pc' = "closed" => UNCHANGED <<index, cache>>
  PROVE  WordsInv'
<1>1. /\ queue \in Seq(Jobs) /\ Len(queue) <= JobCount /\ job \in Jobs /\ generation \in Nat
      /\ JobCount \in Nat /\ Len(index) \in Nat /\ Len(index') \in Nat
      /\ \A i \in DOMAIN queue : queue[i].kind \in Flags /\ queue[i].slot = 0 => queue[i].word \in Words
      /\ job.kind \in Flags /\ job.slot = 0 => job.word \in Words
  BY Sizes DEF WordsInv, Typed, JobsTyped, StoreTyped
<1>2. /\ job.slot <= Len(index) /\ completed.slot <= Len(index) /\ res.slot <= Len(index)
      /\ page.card.slot <= Len(index) /\ \A i \in DOMAIN queue : queue[i].slot <= Len(index)
  BY DEF WordsInv, Course, WithinIndex, Working, Running
<1>3. /\ \A i \in DOMAIN queue' : \E k \in DOMAIN queue : queue'[i] = queue[k]
      /\ queue' \in Seq(Jobs) /\ Len(queue') <= JobCount
  <2>1. CASE UNCHANGED queue
    BY <1>1, <2>1
  <2>2. CASE queue # <<>> /\ queue' = Tail(queue)
    <3>1. /\ Tail(queue) \in Seq(Jobs) /\ Len(Tail(queue)) = Len(queue) - 1
          /\ \A i \in 1 .. Len(Tail(queue)) : Tail(queue)[i] = queue[i + 1]
          /\ Len(queue) \in Nat \ {0}
      BY <1>1, <2>2, HeadTailProperties
    <3>2. ASSUME NEW i \in DOMAIN queue' PROVE \E k \in DOMAIN queue : queue'[i] = queue[k]
      <4>1. i \in 1 .. Len(Tail(queue))
        <5>1. DOMAIN Tail(queue) = 1 .. Len(Tail(queue))
          BY <3>1
        <5> QED  BY <2>2, <5>1
      <4>2. i + 1 \in 1 .. Len(queue)
        BY <3>1, <4>1
      <4>3. i + 1 \in DOMAIN queue
        BY <1>1, <4>2
      <4> QED  BY <2>2, <3>1, <4>1, <4>3
    <3>3. Len(queue') <= JobCount
      <4>1. Len(Tail(queue)) <= JobCount
        BY <1>1, <3>1
      <4> QED  BY <2>2, <4>1
    <3> QED  BY <2>2, <3>1, <3>2, <3>3
  <2> QED  BY <2>1, <2>2
<1>4. job' \in Jobs /\ (job'.kind \in Flags /\ job'.slot = 0 => job'.word \in Words) /\ job'.slot <= Len(index)
  <2>1. CASE queue # <<>> /\ job' = Head(queue)
    <3>1. Head(queue) = queue[1] /\ 1 \in DOMAIN queue
      BY <1>1, <2>1
    <3> QED  BY <1>1, <1>2, <2>1, <3>1
  <2>2. CASE job' = NoJob
    <3>1. NoJob \in Jobs /\ NoJob.slot = 0 /\ NoJob.kind \notin Flags
      BY ConstantsTyped DEF NoJob, Flags
    <3> QED  BY <1>1, <2>2, <3>1
  <2> QED  BY <1>1, <1>2, <2>1, <2>2
<1>5. completed' \in Results /\ completed'.slot <= Len(index)
  BY <1>2 DEF WordsInv, Typed, ResultsTyped
<1>6. Typed'
  <2>1. JobsTyped'
    BY <1>1, <1>3, <1>4 DEF JobsTyped
  <2>2. ResultsTyped'
    BY <1>5 DEF WordsInv, Typed, ResultsTyped
  <2> QED  BY <2>1, <2>2 DEF Typed
<1>7. WithinIndex'
  <2>1. \A k \in Slots : k <= Len(index) => k <= Len(index')
    BY <1>1, ConstantsTyped
  <2>2. job'.slot \in Slots /\ completed'.slot \in Slots /\ page.card.slot \in Slots
    BY <1>4, <1>5, PageKnown DEF Jobs, Results
  <2>3. \A i \in DOMAIN queue' : queue'[i].slot <= Len(index')
    <3>1. \A k \in DOMAIN queue : queue[k].slot \in Slots /\ queue[k].slot <= Len(index)
      <4>1. \A k \in DOMAIN queue : queue[k] \in Jobs
        BY <1>1
      <4> QED  BY <1>2, <4>1 DEF Jobs
    <3> QED  BY <1>3, <2>1, <3>1
  <2>4. job'.slot <= Len(index') /\ completed'.slot <= Len(index') /\ page'.card.slot <= Len(index')
    BY <1>2, <1>4, <1>5, <2>1, <2>2
  <2> QED  BY <2>3, <2>4 DEF WithinIndex
<1>8. Sized' /\ Asleep' /\ NoPageNoCard'
  BY DEF WordsInv, Course, Sized, Asleep, NoPageNoCard, Whole, MemoryWhole, InMemory
<1> QED  BY <1>6, <1>7, <1>8 DEF WordsInv, Course

\* What is known while it works.
LEMMA WorkerKnown ==
  ASSUME WordsInv, Working
  PROVE  /\ StoreTyped /\ InMemory /\ Truth /\ Counted /\ Stages /\ JobsTyped
         /\ job \in Jobs /\ res \in Results /\ Len(index) \in Nat /\ DOMAIN index = 1 .. Len(index)
         /\ Len(index) <= Len(Scope) /\ DOMAIN index \subseteq Slots \ {0}
         /\ active_slot \in Slots /\ active_slot <= Len(index) /\ card_token \in Nat
         /\ cfg \in Configs /\ cfg.pending <= Len(index) /\ cfg.pending \in Slots
         /\ res.slot \in Slots /\ res.slot <= Len(index) /\ job.slot \in Slots /\ job.slot <= Len(index)
         /\ Spent /\ DayKnown /\ saved_cfg \in Configs
<1>1. /\ StoreTyped /\ InMemory /\ Truth /\ Counted /\ Stages /\ JobsTyped /\ ResultsTyped /\ Spent /\ WithinIndex
      /\ DayKnown
      /\ pc # "off" /\ Len(Scope) \in Nat
  BY Sizes DEF WordsInv, Typed, Whole, MemoryWhole, Course, Working, Running
<1>2. Len(index) \in Nat /\ DOMAIN index = 1 .. Len(index) /\ Len(index) <= Len(Scope)
  BY <1>1 DEF StoreTyped, InMemory
<1>3. DOMAIN index \subseteq Slots \ {0}
  BY <1>1, <1>2 DEF Slots
<1> QED  BY <1>1, <1>2, <1>3 DEF StoreTyped, JobsTyped, ResultsTyped, WithinIndex, Jobs, Results, Configs

\* The worker leaves the records as they are.
LEMMA RecordsStand ==
  ASSUME WordsInv, Working, UNCHANGED <<index, cache, cached_chunk, dirty_chunk, chunks, daily, saved_cfg, day>>,
         cfg' \in Configs, pc' \notin {"off", "open", "unready"}
  PROVE  Whole' /\ StoreTyped' /\ Len(index) <= Len(index')
<1>1. Whole'
  BY WholeStays DEF WordsInv, Working, Running
<1>2. StoreTyped' /\ Len(index) \in Nat
  BY DEF WordsInv, Typed, StoreTyped
<1> QED  BY <1>1, <1>2

\* Where a save leads.
LEMMA SavesThen ==
  ASSUME WordsInv, NEW step \in {"top", "exec", "closed", "idle"}, SaveThen(step)
  PROVE  /\ Stages' /\ pc' \in {"save", step}
         /\ pc' = "save" => after' = step
         /\ pc' = step => ~dirty_chunk /\ ~dirty_config
BY DEF SaveThen, WordsInv, Typed, Stages

\* The worker takes a job, or drops it.
LEMMA Takes ==
  ASSUME WordsInv, Take
  PROVE  WordsInv'
<1>1. /\ pc = "top" /\ Working
      /\ UNCHANGED <<generation, completed, active_slot, card_token, rated, cfg, cache, cached_chunk, dirty_chunk,
                     dirty_config, index, daily, chunks, saved_cfg, page, day>>
      /\ queue # <<>> /\ queue' = Tail(queue)
  BY DEF Take, Working, Running, cardVars, storeVars, diskVars
<1>2. /\ Stages' /\ pc' \in {"top", "save", "exec"}
      /\ pc' = "save" => after' \in {"exec"}
      /\ pc' = "exec" => ~dirty_chunk /\ ~dirty_config
      /\ \/ UNCHANGED <<job, res>>
         \/ job' = Head(queue) /\ res' = [NoResult EXCEPT !.serial = Head(queue).serial]
  <2>1. CASE UNCHANGED <<pc, after, job, res>>
    BY <1>1, <2>1, WorkerKnown DEF Stages
  <2>2. CASE job' = Head(queue) /\ res' = [NoResult EXCEPT !.serial = Head(queue).serial] /\ SaveThen("exec")
    BY <2>2, SavesThen
  <2> QED  BY <1>1, <2>1, <2>2 DEF Take
<1>3. res' \in Results /\ res'.slot <= Len(index')
  <2>1. Head(queue).serial \in Nat
    <3>1. queue \in Seq(Jobs)
      BY <1>1, WorkerKnown DEF JobsTyped
    <3>2. Head(queue) \in Jobs
      BY <1>1, <3>1, HeadTailProperties
    <3> QED  BY <3>2 DEF Jobs
  <2>2. NoResult \in Results /\ NoResult.slot = 0 /\ 0 <= Len(index)
    BY <1>1, ConstantsTyped, WorkerKnown DEF NoResult
  <2> QED  BY <1>1, <1>2, <2>1, <2>2, WorkerKnown DEF Results
<1>4. Whole' /\ StoreTyped' /\ Len(index) <= Len(index')
  BY <1>1, <1>2, WorkerKnown, RecordsStand
<1>5. Clean' /\ DayKnown' /\ Spent'
  BY <1>1, <1>2, WorkerKnown DEF Clean, DayKnown, UsesCounts, Stretches, Spent
<1> QED
  BY <1>1, <1>2, <1>3, <1>4, <1>5, WorkerKnown, WorkerStep

\* The worker has nothing to do, or is to end.
LEMMA Idles ==
  ASSUME WordsInv, Idle
  PROVE  WordsInv'
<1>1. /\ pc = "top" /\ Working
      /\ UNCHANGED <<job, res, queue, generation, completed, active_slot, card_token, rated, cfg, cache, cached_chunk,
                     dirty_chunk, dirty_config, index, daily, chunks, saved_cfg, page, day>>
  BY DEF Idle, Working, Running, svcVars, cardVars, storeVars, diskVars, worldVars
<1>2. Stages' /\ pc' \in {"closed", "idle", "save"} /\ (pc' = "save" => after' \in {"closed", "idle"})
  BY SavesThen DEF Idle
<1>3. Whole' /\ StoreTyped' /\ Len(index) <= Len(index')
  BY <1>1, <1>2, WorkerKnown, RecordsStand
<1>4. Clean' /\ DayKnown' /\ Spent'
  BY <1>1, <1>2, WorkerKnown DEF Clean, DayKnown, UsesCounts, Stretches, Spent
<1> QED
  BY <1>1, <1>2, <1>3, <1>4, WorkerKnown, WorkerStep

\* A result is published.
LEMMA Publishes ==
  ASSUME WordsInv, Publish
  PROVE  WordsInv'
<1>1. /\ pc = "publish" /\ Working
      /\ UNCHANGED <<queue, generation, active_slot, card_token, rated, cfg, cache, cached_chunk, dirty_chunk,
                     dirty_config, index, daily, chunks, saved_cfg, page, day>>
      /\ completed' \in {completed, res} /\ job' = NoJob /\ res' = NoResult
  BY DEF Publish, Working, Running, svcVars, cardVars, storeVars, diskVars, worldVars
<1>2. Stages' /\ pc' \in {"top", "save"} /\ (pc' = "save" => after' = "top")
  BY SavesThen DEF Publish
<1>3. Whole' /\ StoreTyped' /\ Len(index) <= Len(index')
  BY <1>1, <1>2, WorkerKnown, RecordsStand
<1>4. Clean' /\ DayKnown' /\ Spent'
  BY <1>1, <1>2, WorkerKnown DEF Clean, DayKnown, UsesCounts, Stretches, Spent
<1>5. res' \in Results /\ res'.slot <= Len(index')
  BY <1>1, WorkerKnown, ConstantsTyped DEF NoResult
<1> QED
  BY <1>1, <1>2, <1>3, <1>4, <1>5, WorkerKnown, WorkerStep

\* A set of natural numbers has a least element.
LEMMA LeastElement ==
  ASSUME NEW S, S \subseteq Nat, S # {}
  PROVE  \E x \in S : \A y \in S : x <= y
<1> DEFINE Initials == {0 .. s : s \in S}
<1>1. Initials \subseteq FiniteSubsetsOf(Nat)
  <2>1. \A s \in S : IsFiniteSet(0 .. s)
    BY FS_Interval
  <2> QED  BY <2>1 DEF FiniteSubsetsOf
<1>2. Initials # {}
  OBVIOUS
<1>3. PICK x \in Initials : \A y \in Initials : ~(<<y, x>> \in StrictSubsetOrdering(Nat))
  <2> HIDE DEF Initials
  <2> QED  BY <1>1, <1>2, FS_StrictSubsetOrderingWellFounded, WFMin
<1>4. PICK s \in S : x = 0 .. s
  OBVIOUS
<1>5. ASSUME NEW y \in S, y < s PROVE FALSE
  <2>1. 0 .. y \in Initials
    OBVIOUS
  <2>2. s \in 0 .. s /\ s \notin 0 .. y
    BY <1>5
  <2>3. <<0 .. y, x>> \in StrictSubsetOrdering(Nat)
    BY <1>4, <1>5, <2>2 DEF StrictSubsetOrdering
  <2> QED  BY <1>3, <2>1, <2>3
<1> QED  BY <1>4, <1>5

\* A card that is there is chosen.
LEMMA Chosen ==
  ASSUME WordsInv, Working, NEW slot \in DOMAIN index, Choose(slot)
  PROVE  res' \in Results /\ res'.slot <= Len(index) /\ res'.slot # 0 /\ pc' = "select"
<1>1. slot \in Slots /\ slot # 0 /\ slot <= Len(index)
  BY WorkerKnown
<1> QED  BY <1>1, WorkerKnown DEF Choose, Results

\* A collected word that is chosen is there.
LEMMA CollectedChosen ==
  ASSUME WordsInv, Working, collection_new # 0
  PROVE  collection_new \in DOMAIN index
<1> DEFINE new == {s \in DOMAIN index : index[s] = [phase |-> "new", flags |-> {"collected"}]}
<1>1. new # {} /\ collection_new = CHOOSE s \in new : \A t \in new : s <= t
  BY DEF collection_new
<1>2. DOMAIN index \subseteq Nat
  BY WorkerKnown, ConstantsTyped
<1>3. new \subseteq Nat
  BY <1>2
<1>4. \E s \in new : \A t \in new : s <= t
  <2> HIDE DEF new
  <2> QED  BY <1>1, <1>3, LeastElement
<1> QED  BY <1>1, <1>4

\* A result changes in its answer alone.
LEMMA Answered ==
  ASSUME WordsInv, Working, NEW ok \in BOOLEAN, res' = [res EXCEPT !.ok = ok]
  PROVE  res' \in Results /\ res'.slot <= Len(index) /\ res'.slot = res.slot
BY WorkerKnown DEF Results

\* No card is chosen.
LEMMA NoneChosen ==
  ASSUME WordsInv, Working, res' = [res EXCEPT !.slot = 0, !.ok = TRUE]
  PROVE  res' \in Results /\ res'.slot <= Len(index)
<1>1. res \in Results /\ Len(index) \in Nat /\ 0 \in Slots
  BY WorkerKnown, ConstantsTyped
<1>2. res' \in Results /\ res'.slot = 0
  BY <1>1 DEF Results
<1> QED  BY <1>1, <1>2

\* The jobs that need no record.
LEMMA Simples ==
  ASSUME WordsInv, Simple
  PROVE  WordsInv'
<1>1. /\ pc = "do" /\ Working /\ pc' \in {"publish", "next"}
      /\ UNCHANGED <<after, job, queue, generation, completed, active_slot, card_token, rated, cache, cached_chunk,
                     dirty_chunk, index, daily, chunks, saved_cfg, page, day>>
  BY DEF Simple, Finish, Working, Running, svcVars, cardVars, diskVars, worldVars
<1>2. res' \in Results /\ res'.slot <= Len(index')
  <2>1. CASE UNCHANGED res
    BY <1>1, <2>1, WorkerKnown
  <2>2. CASE res' = [res EXCEPT !.ok = TRUE]
    BY <1>1, <2>2, Answered
  <2>3. CASE res' = [res EXCEPT !.ok = TRUE, !.accepted = TRUE]
    BY <1>1, <2>3, WorkerKnown DEF Results
  <2> QED  BY <2>1, <2>2, <2>3 DEF Simple, Finish
<1>3. cfg' \in Configs /\ cfg'.pending = cfg.pending
  BY <1>1, WorkerKnown, ConstantsTyped DEF Simple, Configs
<1>4. Whole' /\ StoreTyped' /\ Len(index) <= Len(index')
  BY <1>1, <1>3, RecordsStand
<1>5. Stages' /\ Clean' /\ DayKnown' /\ Spent'
  BY <1>1, WorkerKnown DEF Stages, Clean, DayKnown, UsesCounts, Stretches, Spent
<1> QED
  BY <1>1, <1>2, <1>3, <1>4, <1>5, WorkerKnown, WorkerStep

\* The next card is chosen.
LEMMA Nexts ==
  ASSUME WordsInv, NextCard \/ ScopeEnd
  PROVE  WordsInv'
<1>1. /\ pc \in {"next", "scope"} /\ Working
      /\ UNCHANGED <<after, job, queue, generation, completed, card_token, rated, cfg, cache, cached_chunk,
                     dirty_chunk, dirty_config, index, daily, chunks, saved_cfg, page, day>>
  BY DEF NextCard, ScopeEnd, Working, Running, svcVars, storeVars, diskVars, worldVars
<1>2. active_slot' \in Slots /\ active_slot' <= Len(index')
  BY <1>1, WorkerKnown, ConstantsTyped DEF NextCard, ScopeEnd
<1>3. /\ pc' \in {"select", "scope", "publish"} /\ res' \in Results /\ res'.slot <= Len(index)
      /\ pc' = "select" => res'.slot # 0
  <2>1. CASE \E s \in DOMAIN index : Choose(s)
    BY <1>1, <2>1, Chosen
  <2>2. CASE pc' = "scope" /\ UNCHANGED res
    BY <1>1, <2>2, WorkerKnown
  <2>3. CASE pc' = "publish" /\ res' = [res EXCEPT !.slot = 0, !.ok = TRUE]
    BY <1>1, <2>3, NoneChosen
  <2>4. CASE collection_new # 0 /\ Choose(collection_new)
    BY <1>1, <2>1, <2>4, CollectedChosen
  <2>5. CASE NextCard
    BY <2>1, <2>2, <2>3, <2>4, <2>5 DEF NextCard
  <2>6. CASE ScopeEnd
    BY <2>1, <2>2, <2>3, <2>4, <2>6 DEF ScopeEnd
  <2> QED  BY <2>5, <2>6
<1>4. Whole' /\ StoreTyped' /\ Len(index) <= Len(index')
  BY <1>1, <1>3, WorkerKnown, RecordsStand
<1>5. Stages' /\ Clean' /\ DayKnown' /\ Spent'
  BY <1>1, <1>3, WorkerKnown DEF Stages, Clean, DayKnown, UsesCounts, Stretches, Spent
<1> QED
  BY <1>1, <1>2, <1>3, <1>4, <1>5, WorkerKnown, WorkerStep

\* The chosen card is pending.
LEMMA Selects ==
  ASSUME WordsInv, Select
  PROVE  WordsInv'
<1>1. /\ pc = "select" /\ Working /\ pc' = "show"
      /\ UNCHANGED <<after, job, res, queue, generation, completed, active_slot, card_token, rated, cache, cached_chunk,
                     dirty_chunk, index, daily, chunks, saved_cfg, page, day>>
  BY DEF Select, Working, Running, svcVars, cardVars, diskVars, worldVars
<1>2. cfg' \in Configs /\ cfg'.pending = res.slot
  BY <1>1, WorkerKnown DEF Select, Configs
<1>3. Whole' /\ StoreTyped' /\ Len(index) <= Len(index')
  BY <1>1, <1>2, RecordsStand
<1>4. Stages' /\ Clean' /\ DayKnown' /\ Spent' /\ res.slot # 0
  BY <1>1, WorkerKnown DEF Stages, Clean, DayKnown, UsesCounts, Stretches, Spent, WordsInv, Course, WithinIndex
<1> QED
  BY <1>1, <1>2, <1>3, <1>4, WorkerKnown, WorkerStep

\* A step that fails answers so, and nothing else is changed by it.
LEMMA Refusals ==
  ASSUME WordsInv, Working, Refuse,
         UNCHANGED <<after, job, queue, generation, completed, active_slot, card_token, rated, cfg, cache, cached_chunk,
                     dirty_chunk, index, daily, chunks, saved_cfg, page, day>>
  PROVE  WordsInv'
<1>1. pc' = "publish" /\ res' \in Results /\ res'.slot <= Len(index')
  BY Answered DEF Refuse
<1>2. Whole' /\ StoreTyped' /\ Len(index) <= Len(index')
  BY <1>1, WorkerKnown, RecordsStand
<1>3. ~res'.ok
  BY WorkerKnown DEF Refuse, Results
<1>4. Stages' /\ Clean' /\ DayKnown' /\ Spent'
  BY <1>1, <1>3, WorkerKnown DEF Stages, Clean, DayKnown, UsesCounts, Stretches, Spent
<1> QED
  BY <1>1, <1>2, <1>4, WorkerKnown, WorkerStep

\* The chosen card is shown.
LEMMA Shows ==
  ASSUME WordsInv, Show
  PROVE  WordsInv'
<1>1. /\ pc = "show" /\ Working
      /\ UNCHANGED <<after, job, queue, generation, completed, rated, cfg, cache, cached_chunk,
                     dirty_chunk, dirty_config, index, daily, chunks, saved_cfg, page, day>>
  BY DEF Show, Working, Running, svcVars, storeVars, diskVars
<1>2. CASE Fail /\ UNCHANGED <<active_slot, card_token>>
  BY <1>1, <1>2, Refusals DEF Fail
<1>3. CASE /\ card_token' = IF active_slot # res.slot \/ card_token = 0 THEN card_token + 1 ELSE card_token
           /\ active_slot' = res.slot
           /\ pc' = "publish"
           /\ res' = [res EXCEPT !.token = card_token', !.ok = TRUE]
  <2>1. card_token' \in Nat /\ card_token <= card_token'
    BY <1>1, <1>3, WorkerKnown
  <2>2. res' \in Results /\ res'.slot <= Len(index')
    BY <1>1, <1>3, <2>1, WorkerKnown DEF Results
  <2>3. Whole' /\ StoreTyped' /\ Len(index) <= Len(index')
    BY <1>1, <1>3, WorkerKnown, RecordsStand
  <2>4. Stages' /\ Clean' /\ DayKnown'
    BY <1>1, <1>3, WorkerKnown DEF Stages, Clean, DayKnown, UsesCounts, Stretches
  <2>5. Spent'
    <3>1. \A t \in rated : t \in Nat /\ t < card_token
      BY <1>1, WorkerKnown DEF Spent
    <3> QED  BY <1>1, <2>1, <3>1, WorkerKnown DEF Spent
  <2> QED
    BY <1>1, <1>3, <2>1, <2>2, <2>3, <2>4, <2>5, WorkerKnown, WorkerStep
<1> QED  BY <1>2, <1>3 DEF Show

----------------------------------------------------------------------------
(* The files. *)

\* Another file is read, or none is in memory: with nothing unsaved all records stay what they are.
LEMMA FileRead ==
  ASSUME WordsInv, Working, ~dirty_chunk, ~dirty_chunk', cached_chunk' \in Chunks \cup {NoChunk},
         cache' = IF cached_chunk' \in Chunks THEN chunks[cached_chunk'] ELSE <<>>,
         UNCHANGED <<index, chunks, saved_cfg, cfg, day>>
  PROVE  /\ InMemory' /\ Truth' /\ FilesWhole'
         /\ \A s \in DOMAIN index : Record(s)' = Record(s)
         /\ daily' \in Amounts => StoreTyped'
<1>1. StoreTyped /\ InMemory /\ Truth /\ FilesWhole
  BY WorkerKnown DEF WordsInv, Whole
<1>2. /\ Holds(chunks, Len(index)) /\ \A s \in DOMAIN index : Record(s) = chunks[ChunkOf(s)][At(s)]
  BY <1>1, CleanHolds
<1>3. /\ Len(index) <= Len(Scope) /\ \A n \in Chunks : chunks[n] \in Seq(Records) /\ Len(chunks[n]) <= ChunkRecords
      /\ Len(<<>>) = 0 /\ 0 <= ChunkRecords /\ <<>> \in Seq(Records)
  BY <1>1, Sizes, ConstantsTyped DEF StoreTyped, InMemory, FilesWhole
<1>4. FilesWhole'
  BY <1>1 DEF FilesWhole, Holds, OneWordEach
<1>5. \A s \in DOMAIN index : Record(s)' = Record(s)
  <2> TAKE s \in DOMAIN index
  <2>1. ChunkOf(s) \in Chunks
    BY <1>1, RecordHeld
  <2> QED  BY <1>2, <2>1 DEF Record
<1>6. InMemory'
  <2>1. Len(cache') <= ChunkRecords
    BY <1>3
  <2> QED  BY <1>2, <1>3, <2>1 DEF InMemory, Holds
<1>7. Truth'
  BY <1>1, <1>5 DEF Truth, Key
<1>8. daily' \in Amounts => StoreTyped'
  <2>1. cache' \in Seq(Records)
    BY <1>3
  <2> QED  BY <1>1, <2>1 DEF StoreTyped
<1> QED  BY <1>4, <1>5, <1>6, <1>7, <1>8

\* The same records make the same counts.
LEMMA CountsOfTheSame ==
  ASSUME UNCHANGED index, \A s \in DOMAIN index : Record(s)' = Record(s), NEW d
  PROVE  words_store_counts(d)' = words_store_counts(d)
<1>1. /\ [s \in DOMAIN index' |-> Count(Record(s)', d).added] = [s \in DOMAIN index |-> Count(Record(s), d).added]
      /\ [s \in DOMAIN index' |-> Count(Record(s)', d).reviewed] = [s \in DOMAIN index |-> Count(Record(s), d).reviewed]
      /\ [s \in DOMAIN index' |-> Count(Record(s)', d).ratings] = [s \in DOMAIN index |-> Count(Record(s), d).ratings]
      /\ [s \in DOMAIN index' |-> Count(Record(s)', d).collected] = [s \in DOMAIN index |-> Count(Record(s), d).collected]
  OBVIOUS
<1> QED  BY <1>1 DEF words_store_counts, CountsOf

\* The clock is set back: the counts stay what they are, of the day they were made for.
LEMMA SetsBack ==
  ASSUME WordsInv, ClockSetBack
  PROVE  WordsInv'
<1> USE DEF svcVars, cardVars, storeVars, diskVars, worldVars
<1>1. /\ UNCHANGED <<job, res, queue, generation, completed, index, cache, cached_chunk, dirty_chunk, dirty_config,
                     chunks, cfg, saved_cfg, active_slot, card_token, rated, after, pc, page>>
      /\ daily' = [daily EXCEPT !.clock = "back"] /\ day' \in 0 .. day - 1
  BY DEF ClockSetBack
<1>2. day' \in 0 .. MaxDay /\ daily \in Amounts
  BY <1>1, Sizes DEF WordsInv, Typed, StoreTyped
<1>3. daily' \in Amounts /\ daily'.day = daily.day /\ daily'.made = daily.made /\ daily'.clock = "back"
  BY <1>1, <1>2 DEF Amounts
<1>4. Typed'
  BY <1>1, <1>2, <1>3 DEF WordsInv, Typed, JobsTyped, ResultsTyped, StoreTyped, Stages
<1>5. Counted => Counted'
  <2>1. \A s \in DOMAIN index : Record(s)' = Record(s)
    BY <1>1 DEF Record
  <2>2. words_store_counts(daily.day)' = words_store_counts(daily.day)
    BY <1>1, <1>3, <2>1, CountsOfTheSame
  <2>3. [daily' EXCEPT !.clock = "on"] = [daily EXCEPT !.clock = "on"]
    BY <1>1, <1>2 DEF Amounts
  <2> QED  BY <1>3, <2>2, <2>3 DEF Counted
<1>6. Whole'
  BY <1>1, <1>3, <1>5 DEF WordsInv, Whole, FilesWhole, Holds, OneWordEach, Empty, MemoryWhole, InMemory, Truth, Record, Working, Running
<1>7. Course'
  BY <1>1, <1>3 DEF WordsInv, Course, WithinIndex, Clean, DayKnown, Sized, Asleep, NoPageNoCard, Spent, Working, Running
<1> QED  BY <1>4, <1>6, <1>7 DEF WordsInv

\* The slot a word has, or would have.
LEMMA FindsSlot ==
  ASSUME WordsInv, Working, NEW word \in Words
  PROVE  /\ SlotOrNew(word) \in 1 .. Len(index) + 1 /\ SlotOrNew(word) <= Len(Scope)
         /\ SlotOrNew(word) \in DOMAIN index => Record(SlotOrNew(word)).word = word
         /\ SlotOrNew(word) \notin DOMAIN index =>
              SlotOrNew(word) = Len(index) + 1 /\ \A s \in DOMAIN index : Record(s).word # word
<1> DEFINE found == {s \in DOMAIN index : Record(s).word = word}
<1>1. /\ Len(index) \in Nat /\ DOMAIN index = 1 .. Len(index) /\ Len(index) <= Len(Scope) /\ Len(Scope) \in Nat
      /\ StoreTyped /\ InMemory /\ Truth
  BY WorkerKnown, Sizes
<1>2. CASE found # {}
  <2>1. words_store_find(word) \in found /\ words_store_find(word) # 0
    BY <1>1, <1>2 DEF words_store_find
  <2>2. SlotOrNew(word) \in found
    BY <2>1 DEF SlotOrNew
  <2> QED  BY <1>1, <2>2
<1>3. CASE found = {}
  <2>1. SlotOrNew(word) = Len(index) + 1
    BY <1>3 DEF SlotOrNew, words_store_find
  <2>2. \A s \in DOMAIN index : Record(s).word # word
    BY <1>3
  <2>3. Len(index) < Len(Scope)
    <3> DEFINE f == [s \in 1 .. Len(index) |-> Record(s).word]
    <3>1. f \in [1 .. Len(index) -> Words]
      BY <1>1, RecordHeld DEF Records
    <3>2. \A i, j \in 1 .. Len(index) : f[i] = f[j] => i = j
      BY <1>1 DEF Truth
    <3>3. \A i \in 1 .. Len(index) : f[i] # word
      BY <1>1, <2>2
    <3> HIDE DEF f
    <3> QED  BY <1>1, <3>1, <3>2, <3>3, RoomForOneMore
  <2>4. SlotOrNew(word) \in 1 .. Len(index) + 1 /\ SlotOrNew(word) <= Len(Scope) /\ SlotOrNew(word) \notin DOMAIN index
    BY <1>1, <2>1, <2>3
  <2> QED  BY <2>1, <2>2, <2>4
<1> QED  BY <1>2, <1>3

\* The slot a stretch needs is there, or is the next and its word has none.
LEMMA NeededKnown ==
  ASSUME WordsInv, Working
  PROVE  /\ Needed # 0 => Needed \in 1 .. Len(index) + 1 /\ Needed <= Len(Scope)
         /\ pc = "do" /\ job.kind = "rate" /\ RateCurrent => Needed = job.slot /\ job.slot \in DOMAIN index
         /\ pc = "do" /\ Marks =>
              /\ Needed # 0
              /\ Needed \notin DOMAIN index =>
                   job.word \in Words /\ \A s \in DOMAIN index : Record(s).word # job.word
         /\ pc = "scope" /\ cfg.cursor < Len(Scope) /\ ~stale(job) =>
              /\ Needed # 0 /\ NextWord \in Words
              /\ Needed \notin DOMAIN index => \A s \in DOMAIN index : Record(s).word # NextWord
<1>1. /\ Len(index) \in Nat /\ DOMAIN index = 1 .. Len(index) /\ Len(index) <= Len(Scope) /\ Len(Scope) \in Nat
      /\ job.slot \in Nat /\ job.slot <= Len(index) /\ res.slot \in Nat /\ res.slot <= Len(index)
      /\ job.kind \in Flags /\ job.slot = 0 => job.word \in Words
      /\ cfg.cursor \in Nat
  BY WorkerKnown, Sizes, ConstantsTyped DEF JobsTyped, Configs
<1>2. CASE pc = "do" /\ job.kind = "rate" /\ RateCurrent
  <2>1. Needed = job.slot /\ job.slot \in DOMAIN index /\ ~Marks
    BY <1>1, <1>2 DEF Needed, RateCurrent, Marks, Flags
  <2> QED  BY <1>1, <1>2, <2>1
<1>3. CASE pc = "do" /\ Marks
  <2>1. Needed = IF job.slot # 0 THEN job.slot ELSE SlotOrNew(job.word)
    BY <1>3 DEF Needed, Marks, Flags
  <2>2. CASE job.slot # 0
    BY <1>1, <1>3, <2>1, <2>2 DEF Marks, Flags
  <2>3. CASE job.slot = 0
    <3>1. job.word \in Words
      BY <1>1, <1>3, <2>3 DEF Marks
    <3> QED  BY <1>1, <1>3, <2>1, <2>3, <3>1, FindsSlot DEF Marks, Flags
  <2> QED  BY <2>2, <2>3
<1>4. CASE pc = "scope" /\ cfg.cursor < Len(Scope) /\ ~stale(job)
  <2>1. NextWord \in Words
    <3>1. cfg.cursor + 1 \in 1 .. Len(Scope)
      BY <1>1, <1>4
    <3> QED  BY <3>1, Sizes DEF NextWord
  <2>2. Needed = SlotOrNew(NextWord)
    BY <1>4 DEF Needed
  <2> QED  BY <1>1, <1>4, <2>1, <2>2, FindsSlot
<1>5. CASE pc = "show"
  <2>1. Needed = res.slot
    BY <1>5 DEF Needed
  <2> QED  BY <1>1, <1>5, <2>1
<1>6. CASE ~(pc = "do" /\ job.kind = "rate" /\ RateCurrent) /\ ~(pc = "do" /\ Marks)
           /\ ~(pc = "scope" /\ cfg.cursor < Len(Scope) /\ ~stale(job)) /\ pc # "show"
  BY <1>6 DEF Needed
<1> QED  BY <1>2, <1>3, <1>4, <1>5, <1>6

\* A file is loaded.
LEMMA Loads ==
  ASSUME WordsInv, Load
  PROVE  WordsInv'
<1>1. /\ pc \in {"do", "scope", "show"} /\ Working /\ ~Loaded
      /\ UNCHANGED <<job, queue, generation, completed, active_slot, card_token, rated, cfg,
                     dirty_chunk, dirty_config, index, daily, chunks, saved_cfg, page, day>>
  BY DEF Load, Stretches, Working, Running, svcVars, cardVars, diskVars
<1>2. DayKnown /\ Clean /\ Spent' /\ (pc = "show" => res.slot # 0)
  BY <1>1, WorkerKnown DEF WordsInv, Course, Spent, WithinIndex
<1>3. CASE pc' = "save" /\ after' = pc /\ UNCHANGED <<res, cache, cached_chunk>>
  <2>1. Whole' /\ StoreTyped' /\ Len(index) <= Len(index')
    BY <1>1, <1>3, WorkerKnown, RecordsStand
  <2>2. Stages' /\ Clean' /\ DayKnown'
    BY <1>1, <1>2, <1>3 DEF Stages, Clean, DayKnown, UsesCounts, Stretches
  <2> QED
    BY <1>1, <1>2, <1>3, <2>1, <2>2, WorkerKnown, WorkerStep
<1>4. ASSUME ~dirty_chunk, cached_chunk' \in Chunks \cup {NoChunk},
             cache' = IF cached_chunk' \in Chunks THEN chunks[cached_chunk'] ELSE <<>>,
             pc' \notin {"off", "open", "unready"}
      PROVE  Whole' /\ StoreTyped' /\ Len(index) <= Len(index')
  <2>1. /\ InMemory' /\ Truth' /\ FilesWhole' /\ StoreTyped'
        /\ \A s \in DOMAIN index : Record(s)' = Record(s)
    BY <1>1, <1>4, FileRead, WorkerKnown DEF StoreTyped
  <2>2. Counted'
    BY <1>1, <2>1, CountsOfTheSame, WorkerKnown DEF Counted
  <2> QED  BY <1>1, <1>4, <2>1, <2>2, WorkerKnown DEF Whole, MemoryWhole, Empty, Running
<1>5. CASE /\ ~dirty_chunk /\ ~dirty_config
           /\ cached_chunk' = ChunkOf(Needed)
           /\ cache' = IF Needed > Len(index) /\ At(Needed) = 1 THEN <<>> ELSE chunks[ChunkOf(Needed)]
           /\ UNCHANGED <<pc, after, res>>
  <2>1. Needed \in 1 .. Len(index) + 1 /\ Needed <= Len(Scope) /\ Len(index) \in Nat /\ Len(Scope) \in Nat
    BY <1>1, NeededKnown, WorkerKnown, Sizes DEF Loaded
  <2>2. ChunkOf(Needed) \in Chunks /\ ChunkOf(Needed) \in Nat \ {0} /\ Slot(ChunkOf(Needed), At(Needed)) = Needed
        /\ At(Needed) \in Places
    <3>1. Needed \in Nat \ {0} /\ Needed \in 1 .. Len(Scope)
      BY <2>1
    <3> QED  BY <3>1, PlaceOfSlot, ChunksTyped
  <2>3. ASSUME Needed > Len(index), At(Needed) = 1 PROVE chunks[ChunkOf(Needed)] = <<>>
    <3>1. Holds(chunks, Len(index)) /\ chunks[ChunkOf(Needed)] \in Seq(Records)
      BY <1>1, <1>5, <2>2, CleanHolds, WorkerKnown DEF StoreTyped
    <3>2. 1 \in DOMAIN chunks[ChunkOf(Needed)] <=> Needed <= Len(index)
      BY <2>2, <2>3, <3>1 DEF Holds
    <3>3. 1 \notin DOMAIN chunks[ChunkOf(Needed)]
      BY <2>1, <2>3, <3>2
    <3> QED  BY <3>1, <3>3
  <2>4. cache' = chunks[cached_chunk'] /\ cached_chunk' \in Chunks
    BY <1>5, <2>2, <2>3
  <2>5. Whole' /\ StoreTyped' /\ Len(index) <= Len(index')
    BY <1>1, <1>4, <1>5, <2>4
  <2>6. Stages' /\ Clean' /\ DayKnown'
    BY <1>1, <1>2, <1>5, WorkerKnown DEF Stages, Clean, DayKnown, UsesCounts, Stretches
  <2> QED
    BY <1>1, <1>2, <1>5, <2>5, <2>6, WorkerKnown, WorkerStep
<1>6. CASE ~dirty_chunk /\ cached_chunk' = NoChunk /\ cache' = <<>> /\ Fail /\ UNCHANGED after
  <2>1. pc' = "publish" /\ res' \in Results /\ res'.slot <= Len(index')
    BY <1>1, <1>6, Answered DEF Fail, Refuse
  <2>2. Whole' /\ StoreTyped' /\ Len(index) <= Len(index')
    BY <1>4, <1>6, <2>1, ChunksTyped
  <2>3. Stages' /\ Clean' /\ DayKnown'
    BY <1>1, <1>6, <2>1, WorkerKnown DEF Stages, Clean, DayKnown, UsesCounts, Stretches
  <2> QED
    BY <1>1, <1>2, <1>6, <2>1, <2>2, <2>3, WorkerKnown, WorkerStep
<1> QED  BY <1>3, <1>5, <1>6 DEF Load

\* The counts are made again on a new day.
LEMMA Days ==
  ASSUME WordsInv, UpdateDay
  PROVE  WordsInv'
<1>1. /\ pc = "exec" /\ Working /\ ~dirty_chunk /\ ~dirty_config
      /\ UNCHANGED <<after, job, queue, generation, completed, active_slot, card_token, rated, cfg,
                     dirty_chunk, dirty_config, index, chunks, saved_cfg, page, day>>
  BY DEF UpdateDay, Working, Running, svcVars, cardVars, diskVars, WordsInv, Course, Clean
<1>2. /\ day \in 0 .. MaxDay /\ day \in Nat /\ MaxDay \in Nat /\ Spent' /\ daily \in Amounts
      /\ \A n \in Nat : n \in 0 .. MaxDay => n <= MaxDay
  BY <1>1, Sizes, WorkerKnown DEF StoreTyped, Spent
<1>3. CASE daily.day = day /\ pc' = "do" /\ UNCHANGED <<res, cache, cached_chunk, daily>>
  <2>1. Whole' /\ StoreTyped' /\ Len(index) <= Len(index')
    BY <1>1, <1>3, WorkerKnown, RecordsStand
  <2>2. Stages' /\ Clean' /\ DayKnown'
    BY <1>1, <1>2, <1>3, WorkerKnown DEF Stages, Clean, DayKnown, UsesCounts, Stretches
  <2> QED
    BY <1>1, <1>2, <1>3, <2>1, <2>2, WorkerKnown, WorkerStep
<1>4. CASE /\ daily' = words_store_counts(day)
           /\ cached_chunk' = IF index = <<>> THEN cached_chunk ELSE ChunkOf(Len(index))
           /\ cache' = IF cached_chunk' = cached_chunk THEN cache ELSE chunks[cached_chunk']
           /\ pc' = "do" /\ UNCHANGED res
  <2>1. cached_chunk' \in Chunks \cup {NoChunk}
    <3>1. CASE index = <<>>
      BY <1>1, <1>4, <3>1, WorkerKnown DEF StoreTyped
    <3>2. CASE index # <<>>
      <4>1. index \in Seq(Keyed) /\ Len(index) <= Len(Scope)
        BY <1>1, WorkerKnown DEF StoreTyped
      <4>2. Len(index) \in 1 .. Len(Scope)
        BY <3>2, <4>1, Sizes
      <4> QED  BY <1>4, <3>2, <4>2, ChunksTyped
    <3> QED  BY <3>1, <3>2
  <2>2. cache' = IF cached_chunk' \in Chunks THEN chunks[cached_chunk'] ELSE <<>>
    <3>1. cache = IF cached_chunk \in Chunks THEN chunks[cached_chunk] ELSE <<>>
      BY <1>1, WorkerKnown DEF InMemory
    <3>2. cached_chunk' = cached_chunk \/ cached_chunk' \in Chunks
      <4>1. CASE index # <<>>
        <5>1. Len(index) \in 1 .. Len(Scope)
          BY <1>1, <4>1, Sizes, WorkerKnown DEF StoreTyped
        <5> QED  BY <1>4, <4>1, <5>1, ChunksTyped
      <4> QED  BY <1>4, <4>1
    <3> QED  BY <1>4, <3>1, <3>2
  <2>3. daily' \in [day : {day}, added : Nat, reviewed : Nat, ratings : Nat, collected : Nat,
                                     made : {"whole"}, clock : {"on"}]
    BY <1>1, <1>2, <1>4, CountsTyped, WorkerKnown
  <2>4. daily' \in Amounts /\ daily'.day = day
    BY <1>2, <2>3 DEF Amounts
  <2>5. /\ InMemory' /\ Truth' /\ FilesWhole' /\ StoreTyped'
        /\ \A s \in DOMAIN index : Record(s)' = Record(s)
    BY <1>1, <2>1, <2>2, <2>4, FileRead
  <2>6. Counted'
    <3>1. words_store_counts(day)' = words_store_counts(day)
      BY <1>1, <2>5, CountsOfTheSame
    <3>2. words_store_counts(daily.day)' = words_store_counts(day)'
      BY <1>1, <2>4 DEF words_store_counts, CountsOf
    <3>3. daily' = words_store_counts(daily.day)'
      BY <1>4, <3>1, <3>2
    <3>4. [daily' EXCEPT !.clock = "on"] = daily'
      BY <2>3
    <3> QED  BY <3>3, <3>4 DEF Counted
  <2>7. Whole' /\ Len(index) <= Len(index')
    BY <1>1, <1>4, <2>5, <2>6, WorkerKnown DEF Whole, MemoryWhole, Empty, Running
  <2>8. Stages' /\ Clean' /\ DayKnown'
    <3>1. daily'.made = "whole" /\ daily'.day = day /\ day' = day
      BY <1>1, <2>3
    <3>2. DayKnown'
      BY <1>2, <1>4, <3>1 DEF DayKnown
    <3> QED  BY <1>1, <1>4, <3>2, WorkerKnown DEF Stages, Clean
  <2> QED
    BY <1>1, <1>2, <1>4, <2>5, <2>7, <2>8, WorkerKnown, WorkerStep
<1>5. CASE /\ daily.day # day /\ cached_chunk' = NoChunk /\ cache' = <<>> /\ Fail
           /\ \E n \in 1 .. ChunkOf(Len(index)) :
                daily' = [CountsOf({s \in DOMAIN index : ChunkOf(s) < n}, day)
                            EXCEPT !.day = daily.day, !.made = "half", !.clock = daily.clock]
  <2>1. pc' = "publish" /\ res' \in Results /\ res'.slot <= Len(index')
    BY <1>1, <1>5, Answered DEF Fail, Refuse
  <2>0. daily' \in Amounts /\ daily'.day = daily.day /\ daily'.made = "half" /\ daily'.clock = daily.clock
    <3>1. PICK n \in 1 .. ChunkOf(Len(index)) :
            daily' = [CountsOf({s \in DOMAIN index : ChunkOf(s) < n}, day)
                        EXCEPT !.day = daily.day, !.made = "half", !.clock = daily.clock]
      BY <1>5
    <3>2. CountsOf({s \in DOMAIN index : ChunkOf(s) < n}, day)
            \in [day : {day}, added : Nat, reviewed : Nat, ratings : Nat, collected : Nat,
                made : {"whole"}, clock : {"on"}]
      BY <1>1, <1>2, CountsOfSome, WorkerKnown
    <3>3. daily.day \in 0 .. MaxDay + 1 /\ daily.clock \in {"on", "back"}
      BY <1>2 DEF Amounts
    <3>4. PICK counts \in [day : {day}, added : Nat, reviewed : Nat, ratings : Nat, collected : Nat,
                           made : {"whole"}, clock : {"on"}] :
            daily' = [counts EXCEPT !.day = daily.day, !.made = "half", !.clock = daily.clock]
      BY <3>1, <3>2
    <3>5. /\ counts.added \in Int /\ counts.reviewed \in Int /\ counts.ratings \in Int /\ counts.collected \in Int
      BY <3>4
    <3>6. daily' = [day |-> daily.day, added |-> counts.added, reviewed |-> counts.reviewed,
                    ratings |-> counts.ratings, collected |-> counts.collected, made |-> "half",
                    clock |-> daily.clock]
      BY <3>4
    <3> QED  BY <3>3, <3>5, <3>6 DEF Amounts
  <2>2. /\ InMemory' /\ Truth' /\ FilesWhole' /\ StoreTyped'
        /\ \A s \in DOMAIN index : Record(s)' = Record(s)
    BY <1>1, <1>2, <1>5, <2>0, FileRead, ChunksTyped
  <2>3. Counted'
    BY <2>0 DEF Counted
  <2>4. Whole' /\ Len(index) <= Len(index')
    BY <1>1, <2>1, <2>2, <2>3, WorkerKnown DEF Whole, MemoryWhole, Empty, Running
  <2>5. Stages' /\ Clean' /\ DayKnown'
    <3>1. ~res'.ok
      BY <1>1, <1>5, WorkerKnown DEF Fail, Refuse, Results
    <3> QED
      BY <1>1, <1>5, <2>0, <2>1, <3>1, WorkerKnown DEF Stages, Clean, DayKnown, UsesCounts, Stretches
  <2> QED
    BY <1>1, <1>2, <2>1, <2>2, <2>4, <2>5, WorkerKnown, WorkerStep
<1> QED  BY <1>3, <1>4, <1>5 DEF UpdateDay

\* Where the worker is after a save.
LEMMA AfterASave ==
  ASSUME WordsInv, pc = "save", UNCHANGED <<after, daily, day>>,
         pc' = "publish" => ~res'.ok,
         pc' \in {"save", after, Failing}, pc' = after /\ pc' # Failing => ~dirty_chunk' /\ ~dirty_config',
         pc' = after => res'.slot = res.slot, pc' = "save" => res'.slot = res.slot
  PROVE  /\ Stages' /\ Clean' /\ DayKnown' /\ pc' \notin {"off", "open", "unready"}
         /\ pc' \in {"select", "show"} \/ (pc' = "save" /\ after' = "show") => res'.slot # 0
<1>1. after \in {"top", "exec", "do", "scope", "show", "closed", "idle"} /\ Failing \in {"closed", "unsaved", "top", "publish"}
  BY DEF WordsInv, Typed, Stages, Failing
<1>2. (after = "do" => daily.day <= MaxDay) /\ (after = "show" => res.slot # 0)
  BY DEF WordsInv, Course, DayKnown, WithinIndex
<1>3. UsesCounts' => UsesCounts
  BY <1>1 DEF UsesCounts, Stretches
<1>4. DayKnown'
  BY <1>1, <1>2, <1>3 DEF WordsInv, Course, DayKnown
<1> QED  BY <1>1, <1>2, <1>4 DEF Stages, Clean

\* A save that is refused changes nothing.
LEMMA SavesRefused ==
  ASSUME WordsInv, pc = "save", pc' = Failing, res' = [res EXCEPT !.ok = FALSE],
         UNCHANGED <<after, job, queue, generation, completed, active_slot, card_token, rated, cfg, cache, cached_chunk,
                     dirty_chunk, dirty_config, index, daily, chunks, saved_cfg, page, day>>
  PROVE  WordsInv'
<1>1. Working /\ pc' # "off"
  BY DEF Working, Running, Failing
<1>2. res' \in Results /\ res'.slot <= Len(index') /\ res'.slot = res.slot
  BY <1>1, Answered
<1>3. /\ Stages' /\ Clean' /\ DayKnown' /\ pc' \notin {"off", "open", "unready"}
      /\ pc' \in {"select", "show"} \/ (pc' = "save" /\ after' = "show") => res'.slot # 0
  BY <1>2, AfterASave
<1>4. Whole' /\ StoreTyped' /\ Len(index) <= Len(index')
  BY <1>1, <1>3, WorkerKnown, RecordsStand
<1>5. Spent'
  BY <1>1, WorkerKnown DEF Spent
<1> QED
  BY <1>1, <1>2, <1>3, <1>4, <1>5, WorkerKnown, WorkerStep

\* The records are saved: the files hold what is in memory.
LEMMA FileSaved ==
  ASSUME WordsInv, Working, dirty_chunk, chunks' = [chunks EXCEPT ![cached_chunk] = cache], dirty_chunk' = FALSE,
         UNCHANGED <<index, cache, cached_chunk, daily, saved_cfg, cfg, day>>
  PROVE  /\ StoreTyped' /\ InMemory' /\ Truth' /\ Counted' /\ FilesWhole'
         /\ Holds(chunks', Len(index)) /\ Len(index) \in Slots
         /\ \A s \in DOMAIN index : chunks'[ChunkOf(s)][At(s)] = Record(s)
<1>1. StoreTyped /\ InMemory /\ Truth /\ Counted /\ FilesWhole
  BY WorkerKnown DEF WordsInv, Whole
<1>2. /\ cached_chunk \in Chunks /\ cache \in Seq(Records) /\ Len(cache) <= ChunkRecords
      /\ chunks \in [Chunks -> Seq(Records)] /\ chunks' \in [Chunks -> Seq(Records)]
      /\ chunks'[cached_chunk] = cache /\ \A n \in Chunks \ {cached_chunk} : chunks'[n] = chunks[n]
  BY <1>1 DEF StoreTyped, InMemory
<1>3. StoreTyped'
  BY <1>1, <1>2 DEF StoreTyped
<1>4. Holds(chunks', Len(index)) /\ Len(index) \in Slots /\ Len(index) <= Len(Scope) /\ Len(index) \in Nat
  BY <1>1, <1>2, WorkerKnown, Sizes DEF InMemory, Holds, Slots
<1>5. \A s \in DOMAIN index : Record(s)' = Record(s) /\ chunks'[ChunkOf(s)][At(s)] = Record(s)
  <2> TAKE s \in DOMAIN index
  <2>1. ChunkOf(s) \in Chunks
    BY <1>1, RecordHeld
  <2> QED  BY <1>2, <2>1 DEF Record
<1>6. InMemory'
  BY <1>1, <1>2, <1>4 DEF InMemory, Holds
<1>7. Truth'
  BY <1>1, <1>5 DEF Truth, Key
<1>8. Counted'
  BY <1>1, <1>5, CountsOfTheSame DEF Counted
<1>9. FilesWhole'
  <2>1. \A n \in Chunks : Len(chunks'[n]) <= ChunkRecords
    BY <1>1, <1>2 DEF FilesWhole
  <2>2. OneWordEach(chunks', Len(index))
    BY <1>1, <1>5, WorkerKnown DEF OneWordEach, Truth
  <2>3. saved_cfg.pending <= Len(index)
    <3>1. PICK count \in Slots : Holds(chunks, count) /\ saved_cfg.pending <= count
      BY <1>1 DEF FilesWhole
    <3>2. count \in Nat /\ count <= Len(Scope) /\ saved_cfg.pending \in Nat /\ Len(Scope) \in Nat
      BY <1>1, Sizes, ConstantsTyped DEF StoreTyped, Configs, Slots
    <3>3. ASSUME count > Len(index) PROVE FALSE
      <4>1. Len(index) + 1 \in Nat \ {0} /\ Len(index) + 1 \in 1 .. Len(Scope) /\ Len(index) + 1 <= count
        BY <1>4, <3>2, <3>3
      <4> DEFINE n == ChunkOf(Len(index) + 1)
                 j == At(Len(index) + 1)
      <4>2. n \in Chunks /\ j \in Places /\ Slot(n, j) = Len(index) + 1
        BY <4>1, PlaceOfSlot, ChunksTyped
      <4> HIDE DEF n, j
      <4>3. j \in DOMAIN chunks[n]
        BY <3>1, <4>1, <4>2 DEF Holds
      <4>4. j \in DOMAIN chunks'[n]
        <5>1. CASE n = cached_chunk
          <6>1. Len(chunks[n]) <= Len(cache) /\ chunks[n] \in Seq(Records)
            BY <1>1, <1>2, <5>1 DEF InMemory
          <6> QED  BY <1>2, <4>3, <5>1, <6>1
        <5> QED  BY <1>2, <4>2, <4>3, <5>1
      <4> QED  BY <1>4, <4>2, <4>4 DEF Holds
    <3> QED  BY <1>4, <3>1, <3>2, <3>3
  <2> QED  BY <1>4, <2>1, <2>2, <2>3 DEF FilesWhole
<1> QED  BY <1>3, <1>4, <1>5, <1>6, <1>7, <1>8, <1>9

\* The records are saved, or refused.
LEMMA SavesChunk ==
  ASSUME WordsInv, SaveChunk
  PROVE  WordsInv'
<1>1. /\ pc = "save" /\ dirty_chunk /\ Working
      /\ UNCHANGED <<after, job, queue, generation, completed, active_slot, card_token, rated, cfg, cache, cached_chunk,
                     dirty_config, index, daily, saved_cfg, page, day>>
  BY DEF SaveChunk, Working, Running, svcVars, cardVars
<1>2. CASE pc' = Failing /\ res' = [res EXCEPT !.ok = FALSE] /\ UNCHANGED <<chunks, dirty_chunk>>
  BY <1>1, <1>2, SavesRefused
<1>3. CASE /\ chunks' = [chunks EXCEPT ![cached_chunk] = cache] /\ dirty_chunk' = FALSE
           /\ pc' = (IF dirty_config THEN pc ELSE after) /\ UNCHANGED res
  <2>1. StoreTyped' /\ InMemory' /\ Truth' /\ Counted' /\ FilesWhole'
    BY <1>1, <1>3, FileSaved
  <2>2. pc' = "save" \/ (pc' = after /\ ~dirty_config)
    BY <1>1, <1>3
  <2>3. /\ Stages' /\ Clean' /\ DayKnown' /\ pc' \notin {"off", "open", "unready"}
        /\ pc' \in {"select", "show"} \/ (pc' = "save" /\ after' = "show") => res'.slot # 0
    <3>1. after # "save"
      BY DEF WordsInv, Typed, Stages
    <3>2. pc' # "publish"
      BY <1>1, <2>2 DEF WordsInv, Typed, Stages
    <3> QED  BY <1>1, <1>3, <2>2, <3>1, <3>2, AfterASave
  <2>4. Whole' /\ Len(index) <= Len(index')
    BY <1>1, <2>1, <2>3, WorkerKnown DEF Whole, MemoryWhole, Empty, Running
  <2>5. Spent'
    BY <1>1, WorkerKnown DEF Spent
  <2> QED
    BY <1>1, <1>3, <2>1, <2>3, <2>4, <2>5, WorkerKnown, WorkerStep
<1> QED  BY <1>2, <1>3 DEF SaveChunk, Fault

\* The configuration is saved after the records, or refused.
LEMMA SavesConfig ==
  ASSUME WordsInv, SaveConfig
  PROVE  WordsInv'
<1>1. /\ pc = "save" /\ ~dirty_chunk /\ Working
      /\ UNCHANGED <<after, job, queue, generation, completed, active_slot, card_token, rated, cfg, cache, cached_chunk,
                     dirty_chunk, index, daily, chunks, page, day>>
  BY DEF SaveConfig, Working, Running, svcVars, cardVars
<1>2. CASE pc' = Failing /\ res' = [res EXCEPT !.ok = FALSE] /\ UNCHANGED <<saved_cfg, dirty_config>>
  BY <1>1, <1>2, SavesRefused
<1>3. CASE saved_cfg' = cfg /\ dirty_config' = FALSE /\ pc' = after /\ UNCHANGED res
  <2>1. /\ Stages' /\ Clean' /\ DayKnown' /\ pc' \notin {"off", "open", "unready"}
        /\ pc' \in {"select", "show"} \/ (pc' = "save" /\ after' = "show") => res'.slot # 0
    <3>1. pc' # "publish"
      BY <1>1, <1>3 DEF WordsInv, Typed, Stages
    <3> QED  BY <1>1, <1>3, <3>1, AfterASave
  <2>2. StoreTyped'
    BY <1>1, <1>3, WorkerKnown DEF StoreTyped
  <2>3. InMemory' /\ Truth' /\ Counted'
    BY <1>1, WorkerKnown, CountsOfTheSame DEF InMemory, Truth, Counted, Record
  <2>4. FilesWhole'
    <3>1. /\ Holds(chunks, Len(index)) /\ Len(index) \in Slots
          /\ \A s \in DOMAIN index : Record(s) = chunks[ChunkOf(s)][At(s)]
      BY <1>1, CleanHolds, WorkerKnown
    <3>2. OneWordEach(chunks, Len(index))
      BY <1>1, <3>1, WorkerKnown DEF OneWordEach, Truth
    <3> QED  BY <1>1, <1>3, <3>1, <3>2, WorkerKnown DEF FilesWhole, WordsInv, Whole
  <2>5. Whole' /\ Len(index) <= Len(index')
    BY <1>1, <2>1, <2>3, <2>4, WorkerKnown DEF Whole, MemoryWhole, Empty, Running
  <2>6. Spent'
    BY <1>1, WorkerKnown DEF Spent
  <2> QED
    BY <1>1, <1>3, <2>1, <2>2, <2>5, <2>6, WorkerKnown, WorkerStep
<1> QED  BY <1>2, <1>3 DEF SaveConfig, Fault

----------------------------------------------------------------------------
(* The records the jobs change. *)

\* A put, and what goes with it.
LEMMA PutWhole ==
  ASSUME WordsInv, Working, NEW slot, NEW record, Puts(slot, record), words_store_put(slot, record),
         slot \notin DOMAIN index => \A s \in DOMAIN index : Record(s).word # record.word,
         UNCHANGED <<chunks, saved_cfg, day>>, Counted', daily' \in Amounts, cfg' \in Configs,
         pc' \notin {"off", "open", "unready"}
  PROVE  Whole' /\ StoreTyped' /\ Len(index) <= Len(index') /\ slot <= Len(index')
<1>1. StoreTyped /\ InMemory /\ Truth /\ FilesWhole /\ Len(index) \in Nat /\ DOMAIN index = 1 .. Len(index)
  BY WorkerKnown DEF WordsInv, Whole
<1>2. /\ cache' \in Seq(Records) /\ index' \in Seq(Keyed) /\ InMemory'
      /\ Len(index') = IF slot \in DOMAIN index THEN Len(index) ELSE slot
  BY <1>1, PutKeeps
<1>3. slot \in 1 .. Len(index) + 1
  BY DEF Puts
<1>4. Len(index) <= Len(index') /\ slot <= Len(index')
  BY <1>1, <1>2, <1>3
<1>5. Truth'
  BY <1>1, TruthFollows
<1>6. FilesWhole'
  BY <1>1 DEF FilesWhole, Holds, OneWordEach
<1>7. StoreTyped'
  BY <1>1, <1>2 DEF StoreTyped, words_store_put
<1>8. Whole'
  BY <1>2, <1>5, <1>6 DEF Whole, MemoryWhole, Empty, Running
<1> QED  BY <1>4, <1>7, <1>8

\* A card is rated.
LEMMA Rates ==
  ASSUME WordsInv, Rate
  PROVE  WordsInv'
<1>1. /\ pc = "do" /\ Working /\ job.kind = "rate" /\ Loaded /\ daily.day <= MaxDay
      /\ UNCHANGED <<after, job, queue, generation, completed, chunks, saved_cfg, page, day>>
  BY DEF Rate, Working, Running, svcVars, diskVars, WordsInv, Course, DayKnown, UsesCounts, Stretches
<1>2. CASE Refuse /\ UNCHANGED <<cardVars, storeVars>>
  BY <1>1, <1>2, Refusals DEF cardVars, storeVars
<1> DEFINE new(old) == [old EXCEPT !.phase = "seen",
                                   !.first = IF old.phase = "new" THEN daily.day ELSE @,
                                   !.n = IF old.rated = daily.day THEN @ + 1 ELSE 1,
                                   !.rated = daily.day]
<1>3. CASE /\ RateCurrent
           /\ put_record(job.slot, Record(job.slot), new(Record(job.slot)))
           /\ card_token' = card_token + 1
           /\ active_slot' = 0
           /\ cfg' = [cfg EXCEPT !.pending = 0]
           /\ rated' = rated \cup {job.token}
           /\ pc' = IF stale(job) THEN "publish" ELSE "next"
           /\ res' = [res EXCEPT !.ok = TRUE, !.accepted = TRUE]
  <2>1. Needed = job.slot /\ job.slot \in DOMAIN index /\ Needed # 0 /\ Needed \in 1 .. Len(index) + 1
        /\ Needed <= Len(Scope)
    BY <1>1, <1>3, NeededKnown DEF RateCurrent
  <2>2. PICK slot \in DOMAIN index : slot = job.slot
    BY <2>1
  <2>3. PICK old \in Records : old = Record(slot)
    BY <1>1, <2>2, RecordHeld, WorkerKnown
  <2>4. daily.day \in 0 .. MaxDay + 1
    BY <1>1, WorkerKnown DEF StoreTyped, Amounts
  <2>5. new(old) \in Records /\ new(old).word = old.word
    <3>1. PICK first \in 0 .. MaxDay + 1 : first = IF old.phase = "new" THEN daily.day ELSE old.first
      BY <2>4 DEF Records
    <3>2. PICK n \in Nat : n = IF old.rated = daily.day THEN old.n + 1 ELSE 1
      BY DEF Records
    <3>3. new(old) = [old EXCEPT !.phase = "seen", !.first = first, !.n = n, !.rated = daily.day]
      BY <3>1, <3>2
    <3> HIDE DEF new
    <3> QED  BY <2>4, <3>3 DEF Records
  <2> HIDE DEF new
  <2>6. PICK record \in Records : record = new(old) /\ record.word = old.word
    BY <2>5
  <2>7. put_record(slot, old, record)
    BY <1>3, <2>2, <2>3, <2>6
  <2>8. Puts(slot, record)
    BY <1>1, <2>1, <2>2, <2>3, <2>6 DEF Puts, Loaded
  <2>9. /\ daily' \in Amounts /\ Counted'
        /\ daily'.day = daily.day /\ daily'.made = daily.made /\ daily'.clock = daily.clock
    BY <1>1, <2>2, <2>3, <2>7, <2>8, CountsFollow, WorkerKnown
  <2>10. pc' \in {"publish", "next"}
    BY <1>3
  <2>11. cfg' \in Configs /\ cfg'.pending = 0
    BY <1>1, <1>3, WorkerKnown, ConstantsTyped DEF Configs
  <2>12. Whole' /\ StoreTyped' /\ Len(index) <= Len(index')
    BY <1>1, <2>2, <2>7, <2>8, <2>9, <2>10, <2>11, PutWhole DEF put_record
  <2>13. res' \in Results /\ res'.slot = res.slot /\ Len(index') \in Nat
    <3>1. res \in Results
      BY <1>1, WorkerKnown
    <3>2. Len(index') \in Nat
      BY <2>12 DEF StoreTyped
    <3> QED  BY <1>3, <3>1, <3>2 DEF Results
  <2>14. res'.slot <= Len(index') /\ 0 <= Len(index')
    <3>1. res.slot \in Nat /\ Len(index) \in Nat /\ res.slot <= Len(index)
      BY <1>1, WorkerKnown, ConstantsTyped
    <3> QED  BY <2>12, <2>13, <3>1
  <2>15. card_token' \in Nat /\ card_token <= card_token' /\ Spent'
    <3>1. job.token = card_token /\ card_token \in Nat /\ (\A t \in rated : t \in Nat /\ t < card_token)
      BY <1>1, <1>3, WorkerKnown DEF RateCurrent, Spent
    <3> QED  BY <1>3, <3>1 DEF Spent
  <2>16. Stages' /\ Clean' /\ DayKnown'
    BY <1>1, <2>9, <2>10, WorkerKnown DEF Stages, Clean, DayKnown, UsesCounts, Stretches
  <2>17. active_slot' \in Slots /\ active_slot' <= Len(index') /\ cfg'.pending <= Len(index')
    BY <1>3, <2>11, <2>14, ConstantsTyped
  <2> QED
    BY <1>1, <2>10, <2>12, <2>13, <2>14, <2>15, <2>16, <2>17, WorkerStep
<1> QED  BY <1>2, <1>3 DEF Rate, Fail

\* A word is marked.
LEMMA Marked ==
  ASSUME WordsInv, Mark
  PROVE  WordsInv'
<1>1. /\ pc = "do" /\ Working /\ Marks /\ Loaded /\ daily.day <= MaxDay
      /\ UNCHANGED <<after, job, queue, generation, completed, card_token, rated, chunks, saved_cfg, page, day>>
  BY DEF Mark, Working, Running, svcVars, diskVars, WordsInv, Course, DayKnown, UsesCounts, Stretches
<1>2. CASE Fail /\ UNCHANGED <<active_slot, storeVars>>
  BY <1>1, <1>2, Refusals DEF Fail, storeVars
<1>3. CASE ~(Fail /\ UNCHANGED <<active_slot, storeVars>>)
  <2>1. /\ Needed \in 1 .. Len(index) + 1 /\ Needed <= Len(Scope) /\ Needed # 0
        /\ Needed \notin DOMAIN index => job.word \in Words /\ \A s \in DOMAIN index : Record(s).word # job.word
    BY <1>1, NeededKnown
  <2>2. PICK slot \in 1 .. Len(index) + 1 : slot = Needed
    BY <2>1
  <2>3. slot > Len(index) <=> slot \notin DOMAIN index
    BY <1>1, <2>2, WorkerKnown
  <2>4. (IF slot > Len(index) THEN NewRecord(job.word) ELSE Record(slot)) \in Records
    <3>1. CASE slot \in DOMAIN index
      BY <1>1, <2>3, <3>1, RecordHeld, WorkerKnown
    <3>2. CASE slot \notin DOMAIN index
      BY <2>1, <2>2, <2>3, <3>2, Sizes DEF NewRecord, Records
    <3> QED  BY <3>1, <3>2
  <2>5. PICK old \in Records : old = IF slot > Len(index) THEN NewRecord(job.word) ELSE Record(slot)
    BY <2>4
  <2> DEFINE flags == IF job.value THEN old.flags \cup {job.kind} ELSE old.flags \ {job.kind}
             reconsider == /\ job.kind = "collected" /\ ~job.value
                           /\ old.phase = "new" /\ cfg.pending = slot
  <2>6. /\ put_record(slot, old, [old EXCEPT !.flags = flags])
        /\ cfg' = IF reconsider THEN [cursor |-> 0, pending |-> 0] ELSE cfg
        /\ active_slot' = IF reconsider THEN 0 ELSE active_slot
        /\ pc' = IF reconsider /\ job.token # 0 THEN "next" ELSE "publish"
        /\ res' = [res EXCEPT !.slot = slot, !.ok = TRUE, !.accepted = TRUE,
                              !.token = IF slot = active_slot THEN card_token ELSE 0]
    BY <1>3, <2>2, <2>5 DEF Mark
  <2>7. [old EXCEPT !.flags = flags] \in Records /\ [old EXCEPT !.flags = flags].word = old.word
    <3>1. flags \in SUBSET Flags
      BY <1>1 DEF Marks, Records
    <3> HIDE DEF flags
    <3> QED  BY <3>1 DEF Records
  <2>8. PICK record \in Records : record = [old EXCEPT !.flags = flags] /\ record.word = old.word
    BY <2>7
  <2>9. /\ put_record(slot, old, record)
        /\ cfg' \in {cfg, [cursor |-> 0, pending |-> 0]} /\ active_slot' \in {active_slot, 0}
        /\ pc' \in {"next", "publish"}
    BY <2>6, <2>8
  <2> HIDE DEF flags, reconsider
  <2>10. Puts(slot, record)
    BY <1>1, <2>1, <2>2, <2>3, <2>5, <2>8 DEF Puts, Loaded
  <2>11. /\ daily' \in Amounts /\ Counted'
         /\ daily'.day = daily.day /\ daily'.made = daily.made /\ daily'.clock = daily.clock
    <3>1. IF slot \in DOMAIN index THEN old = Record(slot) ELSE Untouched(old)
      BY <2>3, <2>5 DEF Untouched, NewRecord
    <3> QED  BY <1>1, <2>9, <2>10, <3>1, CountsFollow, WorkerKnown
  <2>12. slot \notin DOMAIN index => \A s \in DOMAIN index : Record(s).word # record.word
    BY <2>1, <2>2, <2>3, <2>5, <2>8 DEF NewRecord
  <2>13. cfg' \in Configs /\ (cfg'.pending = 0 \/ cfg'.pending = cfg.pending)
    BY <1>1, <2>9, WorkerKnown, ConstantsTyped DEF Configs
  <2>14. Whole' /\ StoreTyped' /\ Len(index) <= Len(index') /\ slot <= Len(index')
    BY <1>1, <2>9, <2>10, <2>11, <2>12, <2>13, PutWhole DEF put_record
  <2>15. Len(index) \in Nat /\ Len(index') \in Nat /\ Len(Scope) \in Nat /\ slot \in Slots
    BY <1>1, <2>1, <2>2, <2>14, Sizes, WorkerKnown DEF StoreTyped, Slots
  <2>16. res' \in Results /\ res'.slot <= Len(index')
    BY <1>1, <2>6, <2>14, <2>15, WorkerKnown, ConstantsTyped DEF Results
  <2>17. active_slot' \in Slots /\ active_slot' <= Len(index') /\ cfg'.pending <= Len(index')
    <3>1. /\ active_slot \in Nat /\ active_slot <= Len(index) /\ active_slot \in Slots /\ 0 \in Slots
          /\ cfg.pending \in Nat /\ cfg.pending <= Len(index)
      BY <1>1, WorkerKnown, ConstantsTyped
    <3> QED  BY <2>9, <2>13, <2>14, <2>15, <3>1
  <2>18. Stages' /\ Clean' /\ DayKnown' /\ Spent'
    BY <1>1, <2>9, <2>11, WorkerKnown DEF Stages, Clean, DayKnown, UsesCounts, Stretches, Spent
  <2> QED
    BY <1>1, <2>9, <2>14, <2>16, <2>17, <2>18, WorkerKnown, WorkerStep
<1> QED  BY <1>2, <1>3

\* A word of the learning range is passed over or chosen.
LEMMA Scopes ==
  ASSUME WordsInv, ScopeWord
  PROVE  WordsInv'
<1>1. /\ pc = "scope" /\ Working /\ Loaded /\ cfg.cursor < Len(Scope) /\ ~stale(job)
      /\ UNCHANGED <<after, job, queue, generation, completed, active_slot, card_token, rated, chunks, saved_cfg, page, day>>
  BY DEF ScopeWord, Working, Running, svcVars, cardVars, diskVars
<1>2. CASE Fail /\ UNCHANGED storeVars
  BY <1>1, <1>2, Refusals DEF Fail, storeVars
<1>3. CASE ~(Fail /\ UNCHANGED storeVars)
  <2>1. /\ Needed \in 1 .. Len(index) + 1 /\ Needed <= Len(Scope) /\ Needed # 0 /\ NextWord \in Words
        /\ Needed \notin DOMAIN index => \A s \in DOMAIN index : Record(s).word # NextWord
    BY <1>1, NeededKnown
  <2>2. PICK slot \in 1 .. Len(index) + 1 : slot = Needed
    BY <2>1
  <2>3. /\ cfg' = [cfg EXCEPT !.cursor = @ + 1]
        /\ IF slot \in DOMAIN index THEN UNCHANGED <<cache, cached_chunk, dirty_chunk, index>>
           ELSE words_store_put(slot, NewRecord(NextWord))
        /\ UNCHANGED <<pc, res>> \/ Choose(slot)
        /\ slot \notin DOMAIN index => Choose(slot)
        /\ UNCHANGED daily
    BY <1>3, <2>2 DEF ScopeWord
  <2>4. cfg' \in Configs /\ cfg'.pending = cfg.pending /\ pc' \in {"scope", "select"}
    <3>1. cfg.cursor + 1 \in Slots
      <4>1. cfg.cursor \in Nat /\ Len(Scope) \in Nat
        BY <1>1, WorkerKnown, ConstantsTyped, Sizes DEF Configs
      <4> QED  BY <1>1, <4>1 DEF Slots
    <3>2. cfg' \in Configs /\ cfg'.pending = cfg.pending
      BY <1>1, <2>3, <3>1, WorkerKnown DEF Configs
    <3> QED  BY <1>1, <2>3, <3>2 DEF Choose
  <2>5. Whole' /\ StoreTyped' /\ Len(index) <= Len(index') /\ slot <= Len(index')
    <3>1. CASE slot \in DOMAIN index
      <4>1. Whole' /\ StoreTyped' /\ Len(index) <= Len(index')
        BY <1>1, <2>3, <2>4, <3>1, RecordsStand
      <4> QED  BY <1>1, <2>3, <3>1, <4>1, WorkerKnown
    <3>2. CASE slot \notin DOMAIN index
      <4>1. NewRecord(NextWord) \in Records /\ Untouched(NewRecord(NextWord)) /\ NewRecord(NextWord).word = NextWord
        BY <2>1, Sizes DEF NewRecord, Records, Untouched
      <4>2. PICK record \in Records : record = NewRecord(NextWord) /\ Untouched(record) /\ record.word = NextWord
        BY <4>1
      <4>3. words_store_put(slot, record)
        BY <2>3, <3>2, <4>2
      <4>4. Puts(slot, record)
        BY <1>1, <2>1, <2>2, <3>2 DEF Puts, Loaded
      <4>5. Counted'
        BY <1>1, <2>3, <3>2, <4>2, <4>3, <4>4, CountsStand, WorkerKnown
      <4>6. daily' \in Amounts
        BY <1>1, <2>3, WorkerKnown DEF StoreTyped
      <4>7. slot \notin DOMAIN index => \A s \in DOMAIN index : Record(s).word # record.word
        BY <2>1, <2>2, <4>2
      <4> QED
        BY <1>1, <2>4, <4>3, <4>4, <4>5, <4>6, <4>7, PutWhole
    <3> QED  BY <3>1, <3>2
  <2>6. Len(index) \in Nat /\ Len(index') \in Nat /\ Len(Scope) \in Nat /\ slot \in Slots /\ slot # 0
    BY <1>1, <2>1, <2>2, <2>5, Sizes, WorkerKnown DEF StoreTyped, Slots
  <2>7. res' \in Results /\ res'.slot <= Len(index') /\ (pc' = "select" => res'.slot # 0)
    <3>1. CASE UNCHANGED <<pc, res>>
      <4>1. res \in Results /\ res.slot \in Nat /\ res.slot <= Len(index)
        BY <1>1, WorkerKnown, ConstantsTyped
      <4> QED  BY <1>1, <2>5, <2>6, <3>1, <4>1
    <3>2. CASE Choose(slot)
      BY <1>1, <2>5, <2>6, <3>2, WorkerKnown DEF Choose, Results
    <3> QED  BY <2>3, <3>1, <3>2
  <2>8. active_slot' \in Slots /\ active_slot' <= Len(index') /\ cfg'.pending <= Len(index')
    <3>1. /\ active_slot \in Nat /\ active_slot <= Len(index) /\ active_slot \in Slots
          /\ cfg.pending \in Nat /\ cfg.pending <= Len(index)
      BY <1>1, WorkerKnown, ConstantsTyped
    <3> QED  BY <1>1, <2>4, <2>5, <2>6, <3>1
  <2>9. Stages' /\ Clean' /\ DayKnown' /\ Spent'
    BY <1>1, <2>3, <2>4, WorkerKnown DEF Stages, Clean, DayKnown, UsesCounts, Stretches, Spent
  <2> QED
    BY <1>1, <2>4, <2>5, <2>7, <2>8, <2>9, WorkerKnown, WorkerStep
<1> QED  BY <1>2, <1>3

----------------------------------------------------------------------------
(* The store is opened and closed, and the power fails. *)

\* Without a store no slot is named.
LEMMA UnopenedKnown ==
  ASSUME WordsInv, pc \in {"open", "unready"}
  PROVE  /\ index = <<>> /\ Len(index) = 0 /\ cache = <<>> /\ cached_chunk = NoChunk /\ daily.day = MaxDay + 1
         /\ job.slot = 0 /\ res.slot = 0 /\ completed.slot = 0 /\ page.card.slot = 0
         /\ \A i \in DOMAIN queue : queue[i].slot = 0
<1>1. index = <<>> /\ Len(index) = 0 /\ cache = <<>> /\ cached_chunk = NoChunk /\ daily.day = MaxDay + 1
  BY DEF WordsInv, Whole, Empty, Running
<1>2. /\ job.slot \in Nat /\ res.slot \in Nat /\ completed.slot \in Nat /\ page.card.slot \in Nat
      /\ \A i \in DOMAIN queue : queue[i].slot \in Nat
  <2>1. job \in Jobs /\ res \in Results /\ completed \in Results /\ \A i \in DOMAIN queue : queue[i] \in Jobs
    BY DEF WordsInv, Typed, JobsTyped, ResultsTyped
  <2> QED  BY <2>1, PageKnown, ConstantsTyped DEF Jobs, Results
<1> QED  BY <1>1, <1>2 DEF WordsInv, Course, WithinIndex

\* Some queue, that may have lost its head.
LEMMA QueueShrinks ==
  ASSUME WordsInv, UNCHANGED <<job, generation>>, UNCHANGED queue \/ (queue # <<>> /\ queue' = Tail(queue))
  PROVE  JobsTyped' /\ \A i \in DOMAIN queue' : \E k \in DOMAIN queue : queue'[i] = queue[k]
<1>1. queue \in Seq(Jobs) /\ Len(queue) <= JobCount /\ JobCount \in Nat
  BY Sizes DEF WordsInv, Typed, JobsTyped
<1>2. CASE UNCHANGED queue
  BY <1>2 DEF WordsInv, Typed, JobsTyped
<1>3. CASE queue # <<>> /\ queue' = Tail(queue)
  <2>1. /\ Tail(queue) \in Seq(Jobs) /\ Len(Tail(queue)) = Len(queue) - 1
        /\ \A i \in 1 .. Len(Tail(queue)) : Tail(queue)[i] = queue[i + 1]
        /\ Len(queue) \in Nat \ {0} /\ DOMAIN Tail(queue) = 1 .. Len(Tail(queue))
    BY <1>1, <1>3, HeadTailProperties
  <2>2. \A i \in DOMAIN queue' : i + 1 \in DOMAIN queue /\ queue'[i] = queue[i + 1]
    <3> TAKE i \in DOMAIN queue'
    <3>1. i \in 1 .. Len(Tail(queue))
      BY <1>3, <2>1
    <3>2. i + 1 \in 1 .. Len(queue)
      BY <2>1, <3>1
    <3>3. i + 1 \in DOMAIN queue
      BY <1>1, <3>2
    <3> QED  BY <1>3, <2>1, <3>1, <3>3
  <2>3. Len(Tail(queue)) <= JobCount
    BY <1>1, <2>1
  <2> QED  BY <1>3, <2>1, <2>2, <2>3 DEF WordsInv, Typed, JobsTyped
<1> QED  BY <1>2, <1>3

\* The service works without a store.
LEMMA Unreadies ==
  ASSUME WordsInv, Unready
  PROVE  WordsInv'
<1>1. /\ pc = "unready" /\ pc' \in {"unready", "closed"}
      /\ UNCHANGED <<after, job, res, generation, active_slot, card_token, rated, cfg, cache, cached_chunk, dirty_chunk,
                     dirty_config, index, daily, chunks, saved_cfg, page, day>>
      /\ UNCHANGED queue \/ (queue # <<>> /\ queue' = Tail(queue))
  BY DEF Unready, cardVars, storeVars, diskVars, worldVars
<1>2. completed' \in Results /\ completed'.slot = 0
  <2>1. CASE UNCHANGED completed
    BY <1>1, <2>1, UnopenedKnown, PageKnown
  <2>2. CASE queue # <<>> /\ completed' = [NoResult EXCEPT !.serial = Head(queue).serial]
    <3>1. queue \in Seq(Jobs)
      BY DEF WordsInv, Typed, JobsTyped
    <3>2. Head(queue) \in Jobs
      BY <2>2, <3>1, HeadTailProperties
    <3>3. Head(queue).serial \in Nat /\ NoResult \in Results /\ NoResult.slot = 0
      BY <3>2, ConstantsTyped DEF Jobs, NoResult
    <3> QED  BY <2>2, <3>3 DEF Results
  <2> QED  BY <2>1, <2>2 DEF Unready
<1>3. JobsTyped' /\ \A i \in DOMAIN queue' : \E k \in DOMAIN queue : queue'[i] = queue[k]
  BY <1>1, QueueShrinks
<1>4. Typed'
  <2>1. ResultsTyped'
    BY <1>1, <1>2 DEF WordsInv, Typed, ResultsTyped
  <2>2. StoreTyped' /\ Stages'
    BY <1>1, StoreTypedStays DEF WordsInv, Typed, Stages
  <2> QED  BY <1>3, <2>1, <2>2 DEF Typed
<1>5. Whole'
  <2>1. FilesWhole'
    BY <1>1 DEF WordsInv, Whole, FilesWhole, Holds, OneWordEach
  <2>2. Empty' /\ ~Working'
    BY <1>1, UnopenedKnown DEF Empty, Working, Running
  <2>3. Truth' /\ Counted'
    <3>1. DOMAIN index' = {} /\ ~(daily'.day <= MaxDay)
      BY <1>1, UnopenedKnown, Sizes
    <3> QED  BY <3>1 DEF Truth, Counted
  <2> QED  BY <2>1, <2>2, <2>3 DEF Whole, MemoryWhole
<1>6. WithinIndex'
  <2>1. \A i \in DOMAIN queue' : queue'[i].slot = 0
    BY <1>1, <1>3, UnopenedKnown
  <2> QED  BY <1>1, <1>2, <2>1, UnopenedKnown DEF WithinIndex, Working, Running
<1>7. Clean' /\ DayKnown' /\ Sized' /\ Asleep' /\ NoPageNoCard' /\ Spent'
  <2>1. Sized'
    BY <1>1, UnopenedKnown, Sizes DEF Sized
  <2> QED  BY <1>1, <2>1 DEF WordsInv, Course, Clean, DayKnown, UsesCounts, Stretches, Asleep, NoPageNoCard, Spent
<1> QED  BY <1>4, <1>5, <1>6, <1>7 DEF WordsInv, Course

\* What is read is what the files hold.
LEMMA StoreRead ==
  ASSUME WordsInv, pc = "open", pc' = "top",
         index' = [s \in 1 .. Len(ScannedRecords(chunks)) |-> Key(ScannedRecords(chunks)[s])],
         cached_chunk' = IF index' = <<>> THEN NoChunk ELSE Cardinality(Scanned(chunks)),
         cache' = IF index' = <<>> THEN <<>> ELSE chunks[cached_chunk'],
         cfg' = IF saved_cfg.pending > Len(index') THEN [saved_cfg EXCEPT !.pending = 0] ELSE saved_cfg,
         ~dirty_chunk', daily' = NoDaily, UNCHANGED <<chunks, saved_cfg, day>>
  PROVE  StoreTyped' /\ Whole' /\ cfg'.pending <= Len(index') /\ Len(index') \in Nat
<1>1. /\ StoreTyped /\ FilesWhole /\ chunks \in Files /\ \A n \in Chunks : Len(chunks[n]) <= ChunkRecords
  BY DEF WordsInv, Typed, Whole, FilesWhole, StoreTyped, Files
<1>2. PICK count \in Slots : Holds(chunks, count) /\ OneWordEach(chunks, count) /\ saved_cfg.pending <= count
  BY <1>1 DEF FilesWhole
<1>3. count \in Nat /\ count <= Len(Scope) /\ Len(Scope) \in Nat
  BY Sizes DEF Slots
<1>4. /\ Cardinality(Scanned(chunks)) = IF count = 0 THEN 0 ELSE ChunkOf(count)
      /\ ScannedRecords(chunks) = [s \in 1 .. count |-> chunks[ChunkOf(s)][At(s)]]
  BY <1>1, <1>2, ScanReadsAll
<1>5. \A s \in 1 .. count : /\ ChunkOf(s) \in Chunks /\ At(s) \in Places /\ At(s) \in DOMAIN chunks[ChunkOf(s)]
                           /\ chunks[ChunkOf(s)][At(s)] \in Records
  <2> TAKE s \in 1 .. count
  <2>1. s \in Nat \ {0} /\ s \in 1 .. Len(Scope) /\ s <= count
    BY <1>3
  <2>2. ChunkOf(s) \in Chunks /\ At(s) \in Places /\ Slot(ChunkOf(s), At(s)) = s
    BY <2>1, PlaceOfSlot, ChunksTyped
  <2>3. At(s) \in DOMAIN chunks[ChunkOf(s)] /\ chunks[ChunkOf(s)] \in Seq(Records)
    BY <1>1, <1>2, <2>1, <2>2 DEF Holds, StoreTyped
  <2> QED  BY <2>2, <2>3
<1>6. index' = [s \in 1 .. count |-> Key(chunks[ChunkOf(s)][At(s)])]
  <2>1. Len(ScannedRecords(chunks)) = count
    <3>1. ScannedRecords(chunks) \in Seq(Records)
      BY <1>3, <1>4, <1>5
    <3> QED  BY <1>3, <1>4, <3>1
  <2> QED  BY <1>4, <2>1
<1>7. index' \in Seq(Keyed) /\ Len(index') = count /\ DOMAIN index' = 1 .. count
  <2>1. \A s \in 1 .. count : Key(chunks[ChunkOf(s)][At(s)]) \in Keyed
    BY <1>5 DEF Records, Key, Keyed
  <2>2. index' \in Seq(Keyed)
    BY <1>3, <1>6, <2>1
  <2> QED  BY <1>3, <1>6, <2>2
<1>8. index' = <<>> <=> count = 0
  BY <1>3, <1>7
<1>9. CASE count = 0
  <2>1. cached_chunk' = NoChunk /\ cache' = <<>> /\ index' = <<>> /\ DOMAIN index' = {}
    BY <1>7, <1>8, <1>9
  <2>2. InMemory'
    <3>1. Len(index') <= Len(Scope) /\ Len(cache') <= ChunkRecords /\ NoChunk \notin Chunks
      BY <1>3, <1>7, <2>1, Sizes, ChunksTyped
    <3> QED  BY <1>2, <1>7, <2>1, <3>1 DEF InMemory, Holds
  <2>3. Truth'
    BY <2>1 DEF Truth
  <2>4. cache' \in Seq(Records) /\ cached_chunk' \in Chunks \cup {NoChunk}
    BY <2>1, ConstantsTyped
  <2>5. cfg' \in Configs /\ cfg'.pending <= count
    BY <1>1, <1>2, <1>3, <1>7, ConstantsTyped DEF StoreTyped, Configs
  <2> HIDE DEF Configs
  <2>6. StoreTyped'
    BY <1>1, <1>7, <2>4, <2>5, ConstantsTyped DEF StoreTyped
  <2>7. Counted' /\ FilesWhole' /\ Empty'
    <3>1. ~(daily'.day <= MaxDay)
      BY Sizes DEF NoDaily
    <3> QED  BY <1>1, <3>1 DEF Counted, FilesWhole, Holds, OneWordEach, Empty, Running
  <2> QED  BY <1>3, <1>7, <2>2, <2>3, <2>5, <2>6, <2>7 DEF Whole, MemoryWhole
<1>10. CASE count # 0
  <2>1. /\ cached_chunk' = ChunkOf(count) /\ cache' = chunks[cached_chunk'] /\ cached_chunk' \in Chunks
    BY <1>3, <1>4, <1>5, <1>8, <1>10
  <2>2. InMemory'
    <3>1. Len(index') <= Len(Scope) /\ Len(cache') <= ChunkRecords
      BY <1>1, <1>3, <1>7, <2>1
    <3>2. \A n \in Chunks : \A j \in Places : j \in DOMAIN chunks'[n] <=> Slot(n, j) <= Len(index')
      BY <1>2, <1>7 DEF Holds
    <3>3. cache' = chunks'[cached_chunk'] /\ Len(chunks'[cached_chunk']) <= Len(cache')
      <4>1. cache' \in Seq(Records)
        BY <1>1, <2>1 DEF StoreTyped
      <4> QED  BY <2>1, <4>1
    <3> QED  BY <2>1, <3>1, <3>2, <3>3 DEF InMemory
  <2>3. Truth'
    <3>1. \A s \in DOMAIN index' : Record(s)' = chunks[ChunkOf(s)][At(s)]
      BY <2>1 DEF Record
    <3> QED  BY <1>2, <1>6, <1>7, <3>1 DEF Truth, OneWordEach, Key
  <2>4. cache' \in Seq(Records) /\ cached_chunk' \in Chunks \cup {NoChunk}
    BY <1>1, <2>1 DEF StoreTyped
  <2>5. cfg' \in Configs /\ cfg'.pending <= count
    BY <1>1, <1>2, <1>3, <1>7, ConstantsTyped DEF StoreTyped, Configs
  <2>6. StoreTyped'
    BY <1>1, <1>7, <2>4, <2>5, ConstantsTyped DEF StoreTyped
  <2>7. Counted' /\ FilesWhole' /\ Empty'
    <3>1. ~(daily'.day <= MaxDay)
      BY Sizes DEF NoDaily
    <3> QED  BY <1>1, <3>1 DEF Counted, FilesWhole, Holds, OneWordEach, Empty, Running
  <2> QED  BY <1>3, <1>7, <2>2, <2>3, <2>5, <2>6, <2>7 DEF Whole, MemoryWhole
<1> QED  BY <1>9, <1>10

\* The store is opened, or not.
LEMMA OpensStore ==
  ASSUME WordsInv, words_store_open
  PROVE  WordsInv'
<1>1. /\ pc = "open" /\ active_slot' = 0 /\ ~dirty_chunk' /\ daily' = NoDaily
      /\ UNCHANGED <<after, job, res, queue, generation, completed, card_token, rated, chunks, saved_cfg, page, day>>
  BY DEF words_store_open, svcVars, diskVars
<1>2. /\ pc' = "top" \/ pc' = "unready"
      /\ StoreTyped' /\ Whole' /\ (pc' = "top" => cfg'.pending <= Len(index')) /\ Len(index') \in Nat
  <2>1. CASE /\ index' = [s \in 1 .. Len(ScannedRecords(chunks)) |-> Key(ScannedRecords(chunks)[s])]
             /\ cached_chunk' = IF index' = <<>> THEN NoChunk ELSE Cardinality(Scanned(chunks))
             /\ cache' = IF index' = <<>> THEN <<>> ELSE chunks[cached_chunk']
             /\ dirty_config' = (saved_cfg.pending > Len(index'))
             /\ cfg' = IF dirty_config' THEN [saved_cfg EXCEPT !.pending = 0] ELSE saved_cfg
             /\ pc' = "top"
    <3>1. cfg' = IF saved_cfg.pending > Len(index') THEN [saved_cfg EXCEPT !.pending = 0] ELSE saved_cfg
      BY <2>1
    <3> QED  BY <1>1, <2>1, <3>1, StoreRead
  <2>2. CASE pc' = "unready" /\ index' = <<>> /\ cached_chunk' = NoChunk /\ cache' = <<>> /\ UNCHANGED cfg
    <3>1. StoreTyped'
      BY <1>1, <2>2, ConstantsTyped DEF WordsInv, Typed, StoreTyped
    <3>2. FilesWhole'
      BY <1>1 DEF WordsInv, Whole, FilesWhole, Holds, OneWordEach
    <3>3. Empty' /\ ~Running' /\ ~Working' /\ Len(index') = 0
      BY <1>1, <2>2 DEF Empty, Running, Working, NoDaily
    <3> QED  BY <2>2, <3>1, <3>2, <3>3 DEF Whole, MemoryWhole
  <2> QED  BY <2>1, <2>2 DEF words_store_open
<1>3. Typed'
  <2>1. JobsTyped' /\ ResultsTyped' /\ Stages'
    BY <1>1, <1>2, ConstantsTyped DEF WordsInv, Typed, JobsTyped, ResultsTyped, Stages
  <2> QED  BY <1>2, <2>1 DEF Typed
<1>4. WithinIndex'
  BY <1>1, <1>2, UnopenedKnown DEF WithinIndex, Working, Running
<1>5. DayKnown'
  BY <1>1, <1>2 DEF DayKnown, UsesCounts, NoDaily
<1>6. Clean' /\ Sized' /\ Asleep' /\ NoPageNoCard' /\ Spent'
  BY <1>1, <1>2 DEF WordsInv, Course, Clean, Sized, Asleep, NoPageNoCard, Spent
<1> QED  BY <1>2, <1>3, <1>4, <1>5, <1>6 DEF WordsInv, Course

\* The service has ended, or never started: nothing is in memory, nothing is asked.
LEMMA Ends ==
  ASSUME pc' = "off", after' \in {"top", "exec", "do", "scope", "show", "closed", "idle"},
         job' = NoJob, res' = NoResult, completed' = NoResult, queue' = <<>>,
         index' = <<>>, cache' = <<>>, cached_chunk' = NoChunk, daily' = NoDaily, generation' \in Nat,
         page' \in PageStates, page'.kind = "none" => page' = NoPage,
         active_slot' \in Slots, card_token' \in Nat, \A t \in rated' : t \in Nat /\ t < card_token',
         cfg' \in Configs, saved_cfg' \in Configs, chunks' \in [Chunks -> Seq(Records)], day' \in 0 .. MaxDay, FilesWhole'
  PROVE  WordsInv'
<1>1. Typed'
  <2>1. JobsTyped'
    <3>1. NoJob \in Jobs /\ NoJob.kind \notin Flags /\ DOMAIN queue' = {} /\ Len(queue') = 0 /\ 0 <= JobCount
          /\ queue' \in Seq(Jobs)
      BY ConstantsTyped, Sizes DEF NoJob, Flags
    <3> QED  BY <3>1 DEF JobsTyped
  <2>2. ResultsTyped'
    BY ConstantsTyped DEF ResultsTyped
  <2>3. StoreTyped' /\ Stages'
    BY ConstantsTyped DEF StoreTyped, Stages
  <2> QED  BY <2>1, <2>2, <2>3 DEF Typed
<1>2. Whole'
  BY DEF Whole, MemoryWhole, Empty, Working, Running, NoDaily
<1>3. DayKnown'
  BY DEF DayKnown, UsesCounts, NoDaily
<1>4. Course'
  BY <1>3 DEF Course, WithinIndex, Working, Running, Clean, Sized, Asleep, NoPageNoCard, Spent
<1> QED  BY <1>1, <1>2, <1>4 DEF WordsInv

\* The service ends, or the power fails.
LEMMA Closes ==
  ASSUME WordsInv, Close \/ PowerFailure
  PROVE  WordsInv'
<1>1. /\ pc' = "off" /\ job' = NoJob /\ res' = NoResult /\ completed' = NoResult /\ queue' = <<>>
      /\ index' = <<>> /\ cache' = <<>> /\ cached_chunk' = NoChunk /\ daily' = NoDaily
      /\ UNCHANGED <<generation, chunks, saved_cfg, day>> /\ after' \in {after, "top"}
      /\ page' \in {page, NoPage} /\ active_slot' \in {active_slot, 0} /\ cfg' \in {cfg, [cursor |-> 0, pending |-> 0]}
      /\ UNCHANGED <<card_token, rated>> \/ (card_token' = 0 /\ rated' = {})
  BY DEF Close, PowerFailure, cardVars, diskVars, worldVars
<1>2. FilesWhole'
  BY <1>1 DEF WordsInv, Whole, FilesWhole, Holds, OneWordEach
<1>3. [cursor |-> 0, pending |-> 0] \in Configs
  BY ConstantsTyped DEF Configs
<1>4. \A t \in rated' : t \in Nat /\ t < card_token'
  BY <1>1 DEF WordsInv, Course, Spent
<1>5. /\ generation' \in Nat /\ active_slot' \in Slots /\ card_token' \in Nat /\ cfg' \in Configs
      /\ saved_cfg' \in Configs /\ chunks' \in [Chunks -> Seq(Records)] /\ day' \in 0 .. MaxDay
      /\ after' \in {"top", "exec", "do", "scope", "show", "closed", "idle"}
  BY <1>1, <1>3, ConstantsTyped DEF WordsInv, Typed, JobsTyped, ResultsTyped, StoreTyped, Stages
<1>6. page' \in PageStates /\ (page'.kind = "none" => page' = NoPage)
  BY <1>1, PageKnown, ConstantsTyped
<1> QED  BY <1>1, <1>2, <1>4, <1>5, <1>6, Ends

----------------------------------------------------------------------------
(* The specification. *)

\* The invariant holds at first.
LEMMA WordsStart == Init => WordsInv
<1> SUFFICES ASSUME Init PROVE WordsInv
  OBVIOUS
<1>1. Typed
  <2>1. JobsTyped
    <3>1. NoJob \in Jobs /\ NoJob.kind \notin Flags /\ DOMAIN queue = {} /\ Len(queue) = 0 /\ 0 <= JobCount
          /\ queue \in Seq(Jobs)
      BY ConstantsTyped, Sizes DEF Init, NoJob, Flags
    <3> QED  BY <3>1 DEF Init, JobsTyped
  <2>2. ResultsTyped
    BY ConstantsTyped DEF Init, ResultsTyped
  <2>3. StoreTyped /\ Stages
    <3>1. [cursor |-> 0, pending |-> 0] \in Configs /\ 0 \in 0 .. MaxDay
      BY ConstantsTyped, Sizes DEF Configs
    <3>2. chunks \in [Chunks -> Seq(Records)]
      <4>1. /\ Kept \in Nat /\ Kept <= Len(Scope) /\ Len(Scope) \in Nat /\ MaxDay + 1 \in 0 .. MaxDay + 1
            /\ Scope \in Seq(Words)
        BY Sizes, WordsAssumption DEF WordsAssumption
      <4>2. \A s \in 1 .. Kept : NewRecord(Scope[s]) \in Records
        BY <4>1 DEF NewRecord, Records
      <4>3. [s \in 1 .. Kept |-> NewRecord(Scope[s])] \in Seq(Records)
        BY <4>1, <4>2
      <4> QED  BY <4>3, ConstantsTyped DEF Init
    <3> QED  BY <3>1, <3>2, ConstantsTyped DEF Init, StoreTyped, Stages
  <2> QED  BY <2>1, <2>2, <2>3 DEF Typed
<1>2. Whole
  <2>1. FilesWhole
    <3>1. /\ Kept \in Slots /\ Kept \in Nat /\ Kept <= ChunkRecords /\ Len(<<>>) = 0 /\ ChunkRecords \in Nat \ {0}
          /\ Chunks \subseteq Nat \ {0}
      BY Sizes, ChunksTyped, WordsAssumption DEF WordsAssumption, Slots
    <3> DEFINE kept == [s \in 1 .. Kept |-> NewRecord(Scope[s])]
    <3>2. DOMAIN kept = 1 .. Kept /\ Len(kept) = Kept /\ \A s \in 1 .. Kept : kept[s].word = Scope[s]
      BY <3>1 DEF NewRecord
    <3>3. \A n \in Chunks : chunks[n] = IF n = 1 THEN kept ELSE <<>>
      BY DEF Init
    <3> HIDE DEF kept
    <3>4. \A n \in Chunks : Len(chunks[n]) <= ChunkRecords
      BY <3>1, <3>2, <3>3
    <3>5. Holds(chunks, Kept)
      <4>1. ASSUME NEW n \in Chunks, NEW j \in Places PROVE j \in DOMAIN chunks[n] <=> Slot(n, j) <= Kept
        <5>1. j \in Nat /\ j >= 1 /\ n \in Nat \ {0}
          BY <3>1 DEF Places
        <5>2. CASE n = 1
          <6>1. Slot(n, j) = j
            BY <3>1, <5>1, <5>2 DEF Slot
          <6> QED  BY <3>1, <3>2, <3>3, <5>1, <5>2, <6>1
        <5>3. CASE n # 1
          <6>1. ChunkRecords \in Places
            BY <3>1 DEF Places
          <6>2. Slot(1, ChunkRecords) < Slot(n, j) /\ Slot(1, ChunkRecords) = ChunkRecords /\ Slot(n, j) \in Nat
            <7>1. 1 < n /\ 1 \in Nat \ {0}
              BY <5>1, <5>3
            <7>2. Slot(1, ChunkRecords) = ChunkRecords
              BY <3>1 DEF Slot
            <7> QED  BY <5>1, <6>1, <7>1, <7>2, ChunksOrdered, SlotOfPlace
          <6>3. DOMAIN chunks[n] = {}
            BY <3>3, <5>3
          <6> QED  BY <3>1, <6>2, <6>3
        <5> QED  BY <5>2, <5>3
      <4> QED  BY <4>1 DEF Holds
    <3>6. OneWordEach(chunks, Kept)
      <4>1. ASSUME NEW s \in 1 .. Kept PROVE chunks[ChunkOf(s)][At(s)].word = Scope[s]
        <5>1. s \in Places /\ s \in Nat \ {0} /\ 1 \in Chunks
          <6>1. 1 \in 1 .. Len(Scope) /\ s \in Nat \ {0}
            BY <3>1, Sizes, WordsAssumption DEF WordsAssumption
          <6>2. 1 \in Places
            BY <3>1 DEF Places
          <6>3. ChunkOf(1) = 1
            BY <6>2, <3>1, SlotOfPlace DEF Slot
          <6> QED  BY <3>1, <6>1, <6>3, ChunksTyped DEF Places
        <5>2. ChunkOf(s) = 1 /\ At(s) = s
          <6>1. Slot(1, s) = s
            BY <3>1, <5>1 DEF Slot
          <6> QED  BY <5>1, <6>1, SlotOfPlace
        <5> QED  BY <3>2, <3>3, <5>1, <5>2
      <4>2. \A s, t \in 1 .. Kept : Scope[s] = Scope[t] => s = t
        BY <3>1, Sizes, WordsAssumption DEF WordsAssumption, IsInjective
      <4> QED  BY <4>1, <4>2 DEF OneWordEach
    <3>7. saved_cfg.pending <= Kept
      BY <3>1 DEF Init
    <3> QED  BY <3>1, <3>4, <3>5, <3>6, <3>7 DEF FilesWhole
  <2> QED  BY <2>1 DEF Init, Whole, MemoryWhole, Empty, Working, Running, NoDaily
<1>3. Course
  <2>1. DayKnown
    BY Sizes DEF Init, DayKnown, UsesCounts, NoDaily
  <2> QED  BY <2>1 DEF Init, Course, WithinIndex, Working, Running, Clean, Sized, Asleep, NoPageNoCard, Spent
<1> QED  BY <1>1, <1>2, <1>3 DEF WordsInv

\* Every step keeps it.
LEMMA WordsStep == WordsInv /\ [Next]_vars => WordsInv'
<1> SUFFICES ASSUME WordsInv, [Next]_vars PROVE WordsInv'
  OBVIOUS
<1>0. CASE ClockSetBack
  BY <1>0, SetsBack
<1>1. CASE Worker
  BY <1>1, OpensStore, Unreadies, Takes, Idles, SavesChunk, SavesConfig, Waits, Loads, Days, Simples, Rates, Marked,
     Nexts, Scopes, Selects, Shows, Publishes, Closes DEF Worker
<1>2. CASE Pages
  BY <1>2, Opens, Pauses, Resumes, Clicks, Polls, Waits DEF Pages
<1>3. CASE Midnight \/ PowerFailure
  BY <1>3, Waits, Closes
<1>4. CASE UNCHANGED vars
  <2>1. UNCHANGED <<pc, after, job, res, queue, generation, completed, active_slot, card_token, rated, cfg, cache,
                    cached_chunk, dirty_chunk, dirty_config, index, daily, chunks, saved_cfg, page, day>>
    BY <1>4 DEF vars, svcVars, cardVars, storeVars, diskVars, worldVars
  <2> QED
    BY <2>1, QueueStays, PageKnown, PageStep DEF cardVars, storeVars, diskVars
<1> QED  BY <1>0, <1>1, <1>2, <1>3, <1>4 DEF Next

\* It always holds.
LEMMA WordsInvariant == Spec => []WordsInv
BY WordsStart, WordsStep, PTL DEF Spec

\* Memory tells the truth: for every learning range, file size, queue, quota and number of
\* faults, the index and the counts of the day say what the records say, and no word has
\* two of them (index_set words_store.c:51, put_record words_service.c:128).  Counts that a
\* refused recount left half made (words_store.c:262) are excepted, but no job uses them
\* unless the clock was set back since (words_service.c:120).
THEOREM MemoryTellsTruth == Spec => []MemoryIsTruth
<1>1. ASSUME WordsInv PROVE MemoryIsTruth
  <2>1. TypeOK
    <3>1. /\ Len(queue) <= JobCount /\ cache \in Seq(Records) /\ cached_chunk \in Chunks \cup {NoChunk}
          /\ \A n \in Chunks : chunks[n] \in Seq(Records) /\ Len(chunks[n]) <= ChunkRecords
          /\ active_slot \in 0 .. Len(Scope)
          /\ cfg \in [cursor : 0 .. Len(Scope), pending : 0 .. Len(Scope)]
          /\ daily \in [day : 0 .. MaxDay + 1, added : Int, reviewed : Int, ratings : Int, collected : Int,
                        made : {"whole", "half"}, clock : {"on", "back"}]
      BY <1>1 DEF WordsInv, Typed, JobsTyped, ResultsTyped, StoreTyped, Whole, FilesWhole, Slots, Configs, Amounts
    <3>2. Len(cache) <= ChunkRecords /\ Len(index) <= Len(Scope)
      <4>1. CASE Working
        BY <1>1, <4>1, WorkerKnown DEF InMemory
      <4>2. CASE ~Working
        <5>1. CASE pc = "closed"
          BY <1>1, <5>1 DEF WordsInv, Course, Sized
        <5>2. CASE pc # "closed"
          <6>1. cache = <<>> /\ index = <<>>
            BY <1>1, <4>2, <5>2 DEF WordsInv, Whole, Empty, Working, Running
          <6> QED  BY <6>1, Sizes
        <5> QED  BY <5>1, <5>2
      <4> QED  BY <4>1, <4>2
    <3> QED  BY <3>1, <3>2 DEF TypeOK
  <2>2. ASSUME Running PROVE /\ \A s \in DOMAIN index : index[s] = Key(Record(s))
                             /\ daily.day <= MaxDay /\ daily.made = "whole" =>
                                  [daily EXCEPT !.clock = "on"] = words_store_counts(daily.day)
                             /\ IsInjective([s \in DOMAIN index |-> Record(s).word])
                             /\ daily.made = "half" /\ UsesCounts => daily.clock = "back"
    <3>1. Truth /\ Counted /\ DayKnown /\ daily \in Amounts
      BY <1>1, <2>2 DEF WordsInv, Whole, MemoryWhole, Course, Typed, StoreTyped
    <3>2. daily.clock \in {"on", "back"}
      BY <3>1 DEF Amounts
    <3>3. daily.made = "half" /\ UsesCounts => daily.clock = "back"
      BY <3>1, <3>2 DEF DayKnown
    <3> QED  BY <3>1, <3>3 DEF Truth, Counted, IsInjective
  <2> QED  BY <2>1, <2>2 DEF MemoryIsTruth
<1> QED  BY <1>1, WordsInvariant, PTL

\* What the medium holds is read by a start as it is: the files whole, the records in order.
LEMMA FilesRead ==
  ASSUME WordsInv
  PROVE  \E count \in Slots : Len(ScannedRecords(chunks)) = count /\ saved_cfg.pending <= count
<1>1. chunks \in Files /\ \A n \in Chunks : Len(chunks[n]) <= ChunkRecords
  BY DEF WordsInv, Typed, Whole, FilesWhole, StoreTyped, Files
<1>2. PICK count \in Slots : Holds(chunks, count) /\ saved_cfg.pending <= count
  BY DEF WordsInv, Whole, FilesWhole
<1>3. ScannedRecords(chunks) = [s \in 1 .. count |-> chunks[ChunkOf(s)][At(s)]]
  BY <1>1, <1>2, ScanReadsAll
<1>4. count \in Nat
  BY ConstantsTyped
<1>5. Len(ScannedRecords(chunks)) = count
  BY <1>3, <1>4
<1> QED  BY <1>2, <1>5

\* The pending card exists: whatever is refused or lost between the two saves, the
\* configuration on the medium names no card the files do not hold (words_store.c:57-75).
THEOREM PendingExists == Spec => []SavedPendingExists
<1>1. WordsInv => SavedPendingExists
  BY FilesRead DEF SavedPendingExists
<1> QED  BY <1>1, WordsInvariant, PTL

\* Only a save writes the records.
LEMMA OnlySaves ==
  ASSUME WordsInv, [Next]_vars, chunks' # chunks
  PROVE  /\ Working /\ dirty_chunk /\ chunks' = [chunks EXCEPT ![cached_chunk] = cache] /\ dirty_chunk' = FALSE
         /\ UNCHANGED <<index, cache, cached_chunk, daily, saved_cfg, cfg, day>>
<1>1. SaveChunk
  <2> USE DEF diskVars
  <2>1. CASE Worker
    BY <2>1 DEF Worker, words_store_open, Unready, Take, Idle, SaveConfig, Answer, Wake, Load, UpdateDay, Simple, Rate,
       Mark, NextCard, ScopeWord, ScopeEnd, Select, Show, Publish, Close
  <2>2. CASE Pages
    BY <2>2 DEF Pages, Open, Pause, Resume, Click, Poll, Leave, FlushDone, Stop, Cancel
  <2>3. CASE Midnight \/ ClockSetBack \/ PowerFailure \/ UNCHANGED vars
    BY <2>3 DEF Midnight, ClockSetBack, PowerFailure, vars
  <2> QED  BY <2>1, <2>2, <2>3 DEF Next
<1> QED  BY <1>1 DEF SaveChunk, Working, Running

\* A save is whole: the files it leaves, read as a start reads them, hold every record as
\* the pages have been told (words_store.c:57, load 77, open 122).
THEOREM SavesAreWhole == Spec => SavesWhole
<1>1. ASSUME WordsInv, [Next]_vars, chunks' # chunks
      PROVE  /\ Len(ScannedRecords(chunks')) = Len(index)
             /\ \A s \in DOMAIN index : Key(ScannedRecords(chunks')[s]) = index[s]
  <2>1. /\ StoreTyped' /\ FilesWhole' /\ Holds(chunks', Len(index)) /\ Len(index) \in Slots
        /\ \A s \in DOMAIN index : chunks'[ChunkOf(s)][At(s)] = Record(s)
    BY <1>1, OnlySaves, FileSaved
  <2>2. chunks' \in Files /\ \A n \in Chunks : Len(chunks'[n]) <= ChunkRecords
    BY <2>1 DEF StoreTyped, FilesWhole, Files
  <2>3. ScannedRecords(chunks') = [s \in 1 .. Len(index) |-> chunks'[ChunkOf(s)][At(s)]]
    BY <2>1, <2>2, ScanReadsAll
  <2>4. Len(index) \in Nat /\ DOMAIN index = 1 .. Len(index) /\ Truth
    BY <1>1, OnlySaves, WorkerKnown
  <2>5. Len(ScannedRecords(chunks')) = Len(index)
    BY <2>3, <2>4
  <2> QED  BY <2>1, <2>3, <2>4, <2>5 DEF Truth
<1> QED  BY <1>1, WordsInvariant, PTL DEF Spec, SavesWhole

\* A rating is accepted of the current card only.
LEMMA Accepts ==
  ASSUME WordsInv, [Next]_vars, job.kind = "rate", ~res.accepted, res'.accepted
  PROVE  RateCurrent
<1>1. res \in Results /\ job.kind \notin Flags
  BY DEF WordsInv, Typed, ResultsTyped, Flags
<1>2. ~(UNCHANGED res) /\ res' # NoResult
  BY DEF NoResult
<1>3. /\ \A ok : res' # [res EXCEPT !.ok = ok]
      /\ \A slot : res' # [res EXCEPT !.slot = slot]
      /\ \A slot, ok : res' # [res EXCEPT !.slot = slot, !.ok = ok]
      /\ \A token, ok : res' # [res EXCEPT !.token = token, !.ok = ok]
      /\ \A serial : res' # [NoResult EXCEPT !.serial = serial]
  BY <1>1 DEF Results, NoResult
<1>4. CASE words_store_open \/ Unready \/ Idle \/ Answer \/ Wake \/ Publish \/ Close \/ Select
  BY <1>2, <1>4 DEF words_store_open, Unready, Idle, Answer, Wake, Publish, Close, Select
<1>5. CASE Take \/ SaveChunk \/ SaveConfig
  BY <1>2, <1>3, <1>5 DEF Take, SaveChunk, SaveConfig
<1>6. CASE Load \/ UpdateDay \/ Simple
  BY <1>1, <1>2, <1>3, <1>6 DEF Load, UpdateDay, Simple, Fail, Refuse, Finish
<1>7. CASE NextCard \/ ScopeWord \/ ScopeEnd
  BY <1>2, <1>3, <1>7 DEF NextCard, ScopeWord, ScopeEnd, Fail, Refuse, Choose
<1>8. CASE Show
  BY <1>2, <1>3, <1>8 DEF Show, Fail, Refuse
<1>9. CASE Mark
  BY <1>1, <1>9 DEF Mark, Marks
<1>10. CASE Rate
  BY <1>3, <1>10 DEF Rate, Fail, Refuse
<1>11. CASE Pages \/ Midnight \/ ClockSetBack \/ PowerFailure \/ UNCHANGED vars
  BY <1>2, <1>11 DEF Pages, Open, Pause, Resume, Click, Poll, Leave, FlushDone, Stop, Cancel, Midnight, ClockSetBack,
     PowerFailure, vars
<1> QED
  BY <1>4, <1>5, <1>6, <1>7, <1>8, <1>9, <1>10, <1>11 DEF Next, Worker

\* A shown card is rated once: the token of a rated card is never current again, whatever is
\* queued, cancelled, refused or asked again (words_service.c:278, 359, 367).
THEOREM CardsRatedOnce == Spec => RatedOnce
<1>1. ASSUME WordsInv, [Next]_vars PROVE job.kind = "rate" /\ ~res.accepted /\ res'.accepted => job.token \notin rated
  <2> SUFFICES ASSUME job.kind = "rate", ~res.accepted, res'.accepted PROVE job.token \notin rated
    OBVIOUS
  <2>1. job.token = card_token
    BY <1>1, Accepts DEF RateCurrent
  <2>2. card_token \in Nat /\ \A t \in rated : t \in Nat /\ t < card_token
    BY <1>1 DEF WordsInv, Typed, ResultsTyped, Course, Spent
  <2>3. ~(card_token < card_token)
    BY <2>2
  <2> QED  BY <2>1, <2>2, <2>3
<1> QED  BY <1>1, WordsInvariant, PTL DEF Spec, RatedOnce
=============================================================================
