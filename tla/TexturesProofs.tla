--------------------------- MODULE TexturesProofs ---------------------------
(***************************************************************************)
(* Theorems about the memory that client data is migrated to, for every    *)
(* value of the constants: that of Textures, and the ring buffer that      *)
(* RingBuffer hands out pieces of for client-side indices.                 *)
(***************************************************************************)
EXTENDS Textures, RingBuffer, SequenceTheorems, TLAPS

(* A unit with a texture that has to be validated is flagged.               *)
UnitsFlagged == \A u \in Units : names[u] \in invalid => u \in invalid_textures

(* A texture that a waiting draw samples has a timestamp that does not pass *)
(* before the GPU has executed the draw.                                    *)
Covered == \A k \in 1 .. Len(fifo) : \A t \in fifo[k] : t \in Textures /\ k <= timestamp[t]

(* No draw waits for a texture that has to be validated.                    *)
InvalidIdle == \A t \in invalid : timestamp[t] = 0

(* The place that a texture is sampled from next has the latest of it.      *)
Latest ==
  \A t \in Textures \ lapsed :
    IF t \in invalid
    THEN \A l \in DOMAIN levels[t] : levels[t][l].age = "latest"
    ELSE \A l \in DOMAIN memory[t] : memory[t][l] = "latest"

(* Registers that no flag is set for have the texture of their unit.        *)
Follow == \A i \in Sampled \ (Needed \cup dropped) : registers[i] = Bound(i)

TexturesInv == TypeOK /\ UnitsFlagged /\ Covered /\ InvalidIdle /\ Latest /\ Follow

-----------------------------------------------------------------------------

(* The levels and the memory of a texture are functions on levels of it.    *)
LEMMA Typed ==
  ASSUME TypeOK, NEW t \in Textures
  PROVE  /\ levels[t] \in [DOMAIN levels[t] -> Level]
         /\ memory[t] \in [DOMAIN memory[t] -> Ages]
         /\ DOMAIN levels[t] \subseteq LevelsOf[t]
         /\ DOMAIN memory[t] \subseteq LevelsOf[t]
<1>1. levels[t] \in PerLevel(Level) /\ memory[t] \in PerLevel(Ages)
  BY DEF TypeOK
<1>2. ASSUME NEW S, NEW g \in PerLevel(S)
      PROVE  g \in [DOMAIN g -> S]
  BY <1>2 DEF PerLevel
<1>3. QED
  BY <1>1, <1>2 DEF TypeOK

(* A change to the levels, or to the memory, of one texture keeps the types.*)
LEMMA LevelsUpdate ==
  ASSUME TypeOK, NEW t \in Textures, NEW M \in SUBSET LevelsOf[t], NEW L \in [M -> Level],
         levels' = [levels EXCEPT ![t] = L]
  PROVE  /\ levels' \in [Textures -> PerLevel(Level)]
         /\ \A s \in Textures : DOMAIN levels'[s] \subseteq LevelsOf[s]
<1>1. M \in SUBSET UNION {LevelsOf[s] : s \in Textures}
  OBVIOUS
<1>2. L \in PerLevel(Level) /\ DOMAIN L = M
  BY <1>1 DEF PerLevel
<1>3. QED
  BY <1>2 DEF TypeOK

LEMMA MemoryUpdate ==
  ASSUME TypeOK, NEW t \in Textures, NEW M \in SUBSET LevelsOf[t], NEW L \in [M -> Ages],
         memory' = [memory EXCEPT ![t] = L]
  PROVE  /\ memory' \in [Textures -> PerLevel(Ages)]
         /\ \A s \in Textures : DOMAIN memory'[s] \subseteq LevelsOf[s]
<1>1. M \in SUBSET UNION {LevelsOf[s] : s \in Textures}
  OBVIOUS
<1>2. L \in PerLevel(Ages) /\ DOMAIN L = M
  BY <1>1 DEF PerLevel
<1>3. QED
  BY <1>2 DEF TypeOK

(* Nothing happens to the waiting draws when memory is freed or written of  *)
(* textures whose timestamps have passed.                                   *)
LEMMA Undisturbed ==
  ASSUME TypeOK, Covered, NEW S \in SUBSET Textures, \A t \in S : timestamp[t] = 0
  PROVE  Disturbed(S) = fifo
<1> DEFINE sampled == SUBSET (Textures \cup {NoTexture, Torn})
<1>1. fifo \in Seq(sampled) /\ Len(fifo) \in Nat
  BY LenProperties DEF TypeOK
<1>2. ASSUME NEW k \in 1 .. Len(fifo)
      PROVE  {IF t \in S THEN Torn ELSE t : t \in fifo[k]} = fifo[k]
  <2>1. \A t \in fifo[k] : t \notin S
    BY <1>1 DEF Covered
  <2>2. QED
    BY <2>1
<1>3. fifo = [k \in 1 .. Len(fifo) |-> fifo[k]]
  BY <1>1
<1>4. QED
  BY <1>2, <1>3 DEF Disturbed

(* So the steps of the CPU that wait for a timestamp leave the draws alone. *)
LEMMA PassedUndisturbed ==
  ASSUME TypeOK, Covered, NEW t \in Textures, Passed(t)
  PROVE  Disturbed({t}) = fifo
BY Undisturbed, {t} \in SUBSET Textures DEF Passed

(* A texture that is bound where an index samples, and has to be validated, *)
(* is validated by the next draw.                                           *)
LEMMA BoundRevalidated ==
  ASSUME TypeOK, UnitsFlagged, NEW i \in Indices, Bound(i) \in invalid
  PROVE  i \in Needed /\ Bound(i) \in Revalidated
BY DEF TypeOK, UnitsFlagged, Bound, Unit, Needed, Revalidated

(* The levels that a draw puts together have been specified.                *)
LEMMA NumLevelsSpecified ==
  ASSUME NEW t \in Textures
  PROVE  NumLevels(t) \subseteq LevelsOf[t] \cap DOMAIN levels[t]
<1>1. \A l \in LevelsOf[t] : l <= l
  BY TexturesAssumption
<1>2. QED
  BY <1>1 DEF NumLevels

-----------------------------------------------------------------------------
(* What the steps do to one texture at a time.                              *)

(* The levels after glTexImage.                                             *)
LEMMA SpecifiedTyped ==
  ASSUME TypeOK, NEW t \in Textures, NEW l \in LevelsOf[t], NEW f \in Formats
  PROVE  /\ Specified(t, l, f) \in [DOMAIN levels[t] \cup {l} -> Level]
         /\ Specified(t, l, f)[l].age = "latest"
         /\ \A m \in DOMAIN levels[t] \ {l} : Specified(t, l, f)[m] = levels[t][m]
<1>1. levels[t] \in [DOMAIN levels[t] -> Level]
  BY Typed
<1>2. FormatOf(t, f) \in Formats
  BY <1>1 DEF FormatOf, Level
<1>3. [format |-> FormatOf(t, f), age |-> "latest"] \in Level
  BY <1>2 DEF Level, Ages
<1>4. QED
  BY <1>1, <1>3 DEF Specified

LEMMA TypeOfSubImageInMemory ==
  ASSUME TypeOK, NEW t \in Textures, NEW l \in LevelsOf[t], SubImageInMemory(t, l), Covered
  PROVE  TypeOK'
<1> DEFINE M == [memory[t] EXCEPT ![l] = "latest"]
<1>1. /\ levels[t] \in [DOMAIN levels[t] -> Level]
      /\ memory[t] \in [DOMAIN memory[t] -> Ages]
      /\ DOMAIN levels[t] \in SUBSET LevelsOf[t]
      /\ DOMAIN memory[t] \in SUBSET LevelsOf[t]
  BY Typed
<1>2. memory' = [memory EXCEPT ![t] = M] /\ M \in [DOMAIN memory[t] -> Ages]
  BY <1>1 DEF SubImageInMemory, Ages
<1>3. levels' = [levels EXCEPT ![t] = LeftBehind(t, l)]
  BY DEF SubImageInMemory
<1>4. LeftBehind(t, l) \in [DOMAIN levels[t] -> Level]
  BY <1>1 DEF LeftBehind, Level, Ages
<1>5. /\ memory' \in [Textures -> PerLevel(Ages)]
      /\ \A s \in Textures : DOMAIN memory'[s] \subseteq LevelsOf[s]
  <2> HIDE DEF M
  <2>1. QED
    BY <1>1, <1>2, MemoryUpdate
<1>6. /\ levels' \in [Textures -> PerLevel(Level)]
      /\ \A s \in Textures : DOMAIN levels'[s] \subseteq LevelsOf[s]
  BY <1>1, <1>3, <1>4, LevelsUpdate
<1>7. fifo' = fifo
  BY PassedUndisturbed DEF SubImageInMemory
<1>8. /\ lapsed' \subseteq Textures
      /\ UNCHANGED <<names, invalid, immutable, texture_assignments, flagVars, registers,
                     timestamp, dropped>>
  BY DEF SubImageInMemory, TypeOK
<1>9. QED
  BY <1>5, <1>6, <1>7, <1>8 DEF TypeOK, flagVars

(* The memory that a draw makes of the levels.                              *)
LEMMA DrawMemory ==
  ASSUME TypeOK, NEW got, Draw(got), NEW t \in Textures
  PROVE  /\ memory'[t] \in PerLevel(Ages)
         /\ DOMAIN memory'[t] \subseteq LevelsOf[t]
         /\ t \notin Revalidated => memory'[t] = memory[t]
         /\ t \in Revalidated =>
              \A l \in DOMAIN memory'[t] :
                l \in DOMAIN levels[t] /\ memory'[t][l] = levels[t][l].age
<1> DEFINE M == [l \in NumLevels(t) |-> levels[t][l].age]
<1>1. memory'[t] = IF t \notin Revalidated THEN memory[t]
                   ELSE IF t \in got THEN M ELSE NoMemory
  BY DEF Draw
<1>2. NumLevels(t) \subseteq LevelsOf[t] \cap DOMAIN levels[t]
  BY NumLevelsSpecified
<1>3. levels[t] \in [DOMAIN levels[t] -> Level]
  BY Typed
<1>4. M \in [NumLevels(t) -> Ages]
  BY <1>2, <1>3 DEF Level
<1>5. /\ NumLevels(t) \in SUBSET UNION {LevelsOf[s] : s \in Textures}
      /\ {} \in SUBSET UNION {LevelsOf[s] : s \in Textures}
      /\ NoMemory \in [{} -> Ages]
  BY <1>2 DEF NoMemory
<1>6. M \in PerLevel(Ages) /\ NoMemory \in PerLevel(Ages)
  BY <1>4, <1>5 DEF PerLevel
<1>7. memory[t] \in PerLevel(Ages) /\ DOMAIN memory[t] \subseteq LevelsOf[t]
  BY DEF TypeOK
<1>8. DOMAIN NoMemory = {} /\ DOMAIN M = NumLevels(t)
  BY DEF NoMemory
<1>9. CASE t \notin Revalidated
  BY <1>1, <1>7, <1>9
<1>10. CASE t \in Revalidated /\ t \in got
  <2>1. memory'[t] = M
    BY <1>1, <1>10
  <2>2. QED
    BY <2>1, <1>10, <1>2, <1>6, <1>8
<1>11. CASE t \in Revalidated /\ t \notin got
  <2>1. memory'[t] = NoMemory
    BY <1>1, <1>11
  <2>2. QED
    BY <2>1, <1>11, <1>6, <1>8
<1>12. QED
  BY <1>9, <1>10, <1>11

(* A draw does not touch what the draws before it sample.                   *)
LEMMA DrawUndisturbed ==
  ASSUME TypeOK, Covered, InvalidIdle
  PROVE  Disturbed(Revalidated) = fifo
<1>1. Revalidated \subseteq invalid /\ Revalidated \in SUBSET Textures
  BY DEF Revalidated, TypeOK
<1>2. QED
  BY <1>1, Undisturbed DEF InvalidIdle

LEMMA TypeOfDraw ==
  ASSUME TypeOK, Covered, InvalidIdle, NEW got, Draw(got)
  PROVE  TypeOK'
<1> DEFINE sampled == Textures \cup {NoTexture, Torn}
           D == Indices \ dropped'
           G == {j \in D : Bound(j) # NoTexture /\ memory'[Bound(j)] # NoMemory}
<1>1. /\ memory' \in [Textures -> PerLevel(Ages)]
      /\ \A s \in Textures : DOMAIN memory'[s] \subseteq LevelsOf[s]
  <2>1. memory' = [s \in Textures |-> memory'[s]]
    BY DEF Draw
  <2>2. QED
    BY <2>1, DrawMemory
<1>2. registers' \in [Indices -> sampled]
  <2>1. ASSUME NEW i \in Indices
        PROVE  Bound(i) \in Textures \cup {NoTexture}
    BY DEF TypeOK, Bound, Unit
  <2>2. WithoutMemory(registers, Revalidated) \in [Indices -> sampled]
    BY DEF WithoutMemory, TypeOK
  <2>3. QED
    BY <2>1, <2>2 DEF Draw
<1>3. Len(fifo) \in Nat /\ Len(fifo) + 1 \in 0 .. FifoBound
  BY TexturesAssumption, LenProperties DEF TypeOK, Draw
<1>4. timestamp' \in [Textures -> 0 .. FifoBound]
  BY <1>3 DEF Draw, TypeOK
<1>5. fifo' \in Seq(SUBSET sampled)
  <2>1. fifo' = Append(fifo, {registers'[i] : i \in G})
    BY DrawUndisturbed DEF Draw
  <2>2. {registers'[i] : i \in G} \in SUBSET sampled
    BY <1>2
  <2>3. fifo \in Seq(SUBSET sampled)
    BY DEF TypeOK
  <2>4. QED
    BY <2>1, <2>2, <2>3, AppendProperties
<1>6. /\ invalid' \subseteq Textures
      /\ invalid_textures' \subseteq Units
      /\ invalid_texture_assignments' \subseteq Indices
      /\ dropped' \subseteq Indices
      /\ UNCHANGED <<names, levels, immutable, texture_assignments, lapsed>>
  BY DEF Draw, TypeOK
<1>7. QED
  BY <1>1, <1>2, <1>4, <1>5, <1>6 DEF TypeOK

LEMMA TypeOfExecute ==
  ASSUME TypeOK, Execute
  PROVE  TypeOK'
<1>1. fifo' \in Seq(SUBSET (Textures \cup {NoTexture, Torn}))
  BY HeadTailProperties DEF TypeOK, Execute
<1>2. timestamp' \in [Textures -> 0 .. FifoBound]
  BY TexturesAssumption DEF TypeOK, Execute
<1>3. UNCHANGED <<names, imageVars, texture_assignments, flagVars, registers, dropped>>
  BY DEF Execute
<1>4. QED
  BY <1>1, <1>2, <1>3 DEF TypeOK, imageVars, flagVars

LEMMA TypeOfDeleteTexture ==
  ASSUME TypeOK, Covered, NEW t \in Textures, DeleteTexture(t)
  PROVE  TypeOK'
<1>1. {} \in SUBSET LevelsOf[t] /\ NoLevels \in [{} -> Level] /\ NoMemory \in [{} -> Ages]
  BY DEF NoLevels, NoMemory
<1>2. levels' = [levels EXCEPT ![t] = NoLevels] /\ memory' = [memory EXCEPT ![t] = NoMemory]
  BY DEF DeleteTexture
<1>3. /\ levels' \in [Textures -> PerLevel(Level)]
      /\ \A s \in Textures : DOMAIN levels'[s] \subseteq LevelsOf[s]
  BY <1>1, <1>2, LevelsUpdate
<1>4. /\ memory' \in [Textures -> PerLevel(Ages)]
      /\ \A s \in Textures : DOMAIN memory'[s] \subseteq LevelsOf[s]
  BY <1>1, <1>2, MemoryUpdate
<1>5. /\ names' \in [Units -> Textures \cup {NoTexture}]
      /\ registers' \in [Indices -> Textures \cup {NoTexture, Torn}]
  BY DEF DeleteTexture, WithoutMemory, TypeOK
<1>6. fifo' = fifo
  BY PassedUndisturbed DEF DeleteTexture
<1>7. /\ invalid' \subseteq Textures /\ immutable' \subseteq Textures
      /\ lapsed' \subseteq Textures
      /\ UNCHANGED <<texture_assignments, flagVars, timestamp, dropped>>
  BY DEF DeleteTexture, TypeOK
<1>8. QED
  BY <1>3, <1>4, <1>5, <1>6, <1>7 DEF TypeOK, flagVars

LEMMA TypeOfTexStorage ==
  ASSUME TypeOK, Covered, NEW t \in Textures, NEW n, TexStorage(t, n)
  PROVE  TypeOK'
<1>1. PICK M \in SUBSET LevelsOf[t] :
        memory' = [memory EXCEPT ![t] = [l \in M |-> "latest"]]
  <2>1. \A M \in {{}, {l \in LevelsOf[t] : l < n}} : M \in SUBSET LevelsOf[t]
    OBVIOUS
  <2>2. QED
    BY <2>1 DEF TexStorage
<1>2. [l \in M |-> "latest"] \in [M -> Ages]
  BY DEF Ages
<1>3. {} \in SUBSET LevelsOf[t] /\ NoLevels \in [{} -> Level]
  BY DEF NoLevels
<1>4. /\ levels' \in [Textures -> PerLevel(Level)]
      /\ \A s \in Textures : DOMAIN levels'[s] \subseteq LevelsOf[s]
  <2>1. levels' = [levels EXCEPT ![t] = NoLevels]
    BY DEF TexStorage
  <2>2. QED
    BY <1>3, <2>1, LevelsUpdate
<1>5. /\ memory' \in [Textures -> PerLevel(Ages)]
      /\ \A s \in Textures : DOMAIN memory'[s] \subseteq LevelsOf[s]
  BY <1>1, <1>2, MemoryUpdate
<1>6. fifo' = fifo
  BY PassedUndisturbed DEF TexStorage
<1>7. registers' \in [Indices -> Textures \cup {NoTexture, Torn}]
  BY DEF TexStorage, WithoutMemory, TypeOK
<1>8. /\ invalid' \subseteq Textures /\ immutable' \subseteq Textures
      /\ lapsed' \subseteq Textures /\ invalid_textures' \subseteq Units
      /\ UNCHANGED <<names, texture_assignments, invalid_texture_assignments,
                     timestamp, dropped>>
  BY DEF TexStorage, TypeOK, BoundTo
<1>9. QED
  BY <1>4, <1>5, <1>6, <1>7, <1>8 DEF TypeOK

LEMMA TypeOfTexImage ==
  ASSUME TypeOK, NEW t \in Textures, NEW l \in LevelsOf[t], NEW f \in Formats,
         TexImage(t, l, f)
  PROVE  TypeOK'
<1>1. /\ memory[t] \in [DOMAIN memory[t] -> Ages]
      /\ DOMAIN memory[t] \in SUBSET LevelsOf[t]
      /\ DOMAIN levels[t] \cup {l} \in SUBSET LevelsOf[t]
  BY Typed
<1>2. Outdated(t, l) \in [DOMAIN memory[t] -> Ages]
  BY <1>1 DEF Outdated, Ages
<1>3. Specified(t, l, f) \in [DOMAIN levels[t] \cup {l} -> Level]
  BY SpecifiedTyped
<1>4. /\ levels' = [levels EXCEPT ![t] = Specified(t, l, f)]
      /\ memory' = [memory EXCEPT ![t] = Outdated(t, l)]
  BY DEF TexImage
<1>5. /\ levels' \in [Textures -> PerLevel(Level)]
      /\ \A s \in Textures : DOMAIN levels'[s] \subseteq LevelsOf[s]
  BY <1>1, <1>3, <1>4, LevelsUpdate
<1>6. /\ memory' \in [Textures -> PerLevel(Ages)]
      /\ \A s \in Textures : DOMAIN memory'[s] \subseteq LevelsOf[s]
  BY <1>1, <1>2, <1>4, MemoryUpdate
<1>7. /\ invalid' \subseteq Textures /\ lapsed' \subseteq Textures
      /\ invalid_textures' \subseteq Units
      /\ UNCHANGED <<names, immutable, texture_assignments, invalid_texture_assignments,
                     registers, gpuVars, dropped>>
  BY DEF TexImage, TakesOlder, BoundTo, TypeOK
<1>8. QED
  BY <1>5, <1>6, <1>7 DEF TypeOK, gpuVars

LEMMA TypeOfSubImageInLevel ==
  ASSUME TypeOK, NEW t \in Textures, NEW l \in LevelsOf[t], SubImageInLevel(t, l)
  PROVE  TypeOK'
<1> DEFINE L == [levels[t] EXCEPT ![l].age = "latest"]
<1>1. /\ levels[t] \in [DOMAIN levels[t] -> Level]
      /\ DOMAIN levels[t] \in SUBSET LevelsOf[t]
  BY Typed
<1>2. L \in [DOMAIN levels[t] -> Level]
  BY <1>1 DEF Level, Ages
<1>3. levels' = [levels EXCEPT ![t] = L]
  BY DEF SubImageInLevel
<1>4. /\ levels' \in [Textures -> PerLevel(Level)]
      /\ \A s \in Textures : DOMAIN levels'[s] \subseteq LevelsOf[s]
  <2> HIDE DEF L
  <2>1. QED
    BY <1>1, <1>2, <1>3, LevelsUpdate
<1>5. UNCHANGED <<names, invalid, immutable, memory, texture_assignments, flagVars,
                  registers, gpuVars, lapsed, dropped>>
  BY DEF SubImageInLevel
<1>6. QED
  BY <1>4, <1>5 DEF TypeOK, flagVars, gpuVars

LEMMA TypeStep ==
  ASSUME TypeOK, Covered, InvalidIdle, [Next]_vars
  PROVE  TypeOK'
<1>1. ASSUME NEW u \in Units, NEW t \in Textures \cup {NoTexture}, BindTexture(u, t)
      PROVE  TypeOK'
  BY <1>1 DEF TypeOK, BindTexture, imageVars, gpuVars
<1>2. ASSUME NEW i \in Indices, NEW u \in Units, SamplerUniform(i, u)
      PROVE  TypeOK'
  BY <1>2 DEF TypeOK, SamplerUniform, imageVars, gpuVars
<1>3. ASSUME NEW a \in [Indices -> Units], UseProgram(a)
      PROVE  TypeOK'
  BY <1>3 DEF TypeOK, UseProgram, imageVars, gpuVars
<1>4. CASE LinkProgram
  BY <1>4, TexturesAssumption DEF TypeOK, LinkProgram, imageVars, flagVars, gpuVars
<1>5. CASE Swap
  BY <1>5 DEF TypeOK, Swap, imageVars, gpuVars
<1>6. CASE UNCHANGED vars
  BY <1>6 DEF TypeOK, vars, imageVars, flagVars, gpuVars
<1>7. QED
  BY <1>1, <1>2, <1>3, <1>4, <1>5, <1>6, TypeOfDeleteTexture, TypeOfTexStorage,
     TypeOfTexImage, TypeOfSubImageInMemory, TypeOfSubImageInLevel, TypeOfDraw,
     TypeOfExecute DEF Next

-----------------------------------------------------------------------------
(* The other parts of the invariant, each over all steps.                   *)

(* Only a draw and the GPU change the queue and the timestamps.             *)
LEMMA CpuStep ==
  ASSUME TypeOK, Covered, [Next]_vars,
         ~Execute, \A got \in SUBSET Textures : ~Draw(got)
  PROVE  UNCHANGED gpuVars
<1>1. ASSUME NEW t \in Textures, Passed(t)
      PROVE  Disturbed({t}) = fifo
  BY <1>1, PassedUndisturbed
<1>2. ASSUME NEW t \in Textures, DeleteTexture(t)
      PROVE  UNCHANGED gpuVars
  BY <1>1, <1>2 DEF DeleteTexture, gpuVars
<1>3. ASSUME NEW t \in Textures, NEW n, TexStorage(t, n)
      PROVE  UNCHANGED gpuVars
  BY <1>1, <1>3 DEF TexStorage, gpuVars
<1>4. ASSUME NEW t \in Textures, NEW l, SubImageInMemory(t, l)
      PROVE  UNCHANGED gpuVars
  BY <1>1, <1>4 DEF SubImageInMemory, gpuVars
<1>5. ASSUME NEW t \in Textures, NEW l, SubImageInLevel(t, l)
      PROVE  UNCHANGED gpuVars
  BY <1>5 DEF SubImageInLevel
<1>6. ASSUME NEW t \in Textures, NEW l, NEW f, TexImage(t, l, f)
      PROVE  UNCHANGED gpuVars
  BY <1>6 DEF TexImage
<1>7. ASSUME NEW t, NEW u, BindTexture(u, t)
      PROVE  UNCHANGED gpuVars
  BY <1>7 DEF BindTexture
<1>8. ASSUME NEW i, NEW u, SamplerUniform(i, u)
      PROVE  UNCHANGED gpuVars
  BY <1>8 DEF SamplerUniform
<1>9. ASSUME NEW a, UseProgram(a)
      PROVE  UNCHANGED gpuVars
  BY <1>9 DEF UseProgram
<1>10. LinkProgram \/ Swap \/ UNCHANGED vars => UNCHANGED gpuVars
  BY DEF LinkProgram, Swap, vars
<1>11. ~ \E got \in SUBSET {t \in Revalidated : Complete(t)} : Draw(got)
  BY DEF Revalidated, TypeOK
<1>12. QED
  BY <1>2, <1>3, <1>4, <1>5, <1>6, <1>7, <1>8, <1>9, <1>10, <1>11 DEF Next

LEMMA UnitsFlaggedStep ==
  ASSUME TypeOK, UnitsFlagged, [Next]_vars
  PROVE  UnitsFlagged'
<1>1. ASSUME NEW t \in Textures, DeleteTexture(t)
      PROVE  UnitsFlagged'
  BY <1>1, TexturesAssumption DEF DeleteTexture, UnitsFlagged, TypeOK, flagVars
<1>2. ASSUME NEW t \in Textures, NEW n, TexStorage(t, n)
      PROVE  UnitsFlagged'
  BY <1>2 DEF TexStorage, UnitsFlagged
<1>3. ASSUME NEW t \in Textures, NEW l, SubImageInMemory(t, l) \/ SubImageInLevel(t, l)
      PROVE  UnitsFlagged'
  BY <1>3 DEF SubImageInMemory, SubImageInLevel, UnitsFlagged, flagVars
<1>4. ASSUME NEW t \in Textures, NEW l, NEW f, TexImage(t, l, f)
      PROVE  UnitsFlagged'
  BY <1>4 DEF TexImage, UnitsFlagged, BoundTo
<1>5. ASSUME NEW t, NEW u \in Units, BindTexture(u, t)
      PROVE  UnitsFlagged'
  BY <1>5 DEF BindTexture, UnitsFlagged, TypeOK, imageVars
<1>6. ASSUME NEW i, NEW u, SamplerUniform(i, u)
      PROVE  UnitsFlagged'
  BY <1>6 DEF SamplerUniform, UnitsFlagged, imageVars
<1>7. ASSUME NEW a, UseProgram(a)
      PROVE  UnitsFlagged'
  BY <1>7 DEF UseProgram, UnitsFlagged, imageVars
<1>8. LinkProgram \/ Swap \/ Execute \/ UNCHANGED vars => UnitsFlagged'
  BY DEF LinkProgram, Swap, Execute, UnitsFlagged, vars, imageVars, flagVars
<1>9. ASSUME NEW got, Draw(got)
      PROVE  UnitsFlagged'
  <2>1. /\ names' = names
        /\ invalid' = invalid \ Revalidated
        /\ invalid_textures' = invalid_textures \ {Unit(i) : i \in Needed}
    BY <1>9 DEF Draw
  <2>2. \A i \in Needed : names[Unit(i)] \in invalid => names[Unit(i)] \in Revalidated
    BY DEF Revalidated, Bound
  <2>3. QED
    BY <2>1, <2>2 DEF UnitsFlagged
<1>10. QED
  BY <1>1, <1>2, <1>3, <1>4, <1>5, <1>6, <1>7, <1>8, <1>9 DEF Next

LEMMA InvalidIdleStep ==
  ASSUME TypeOK, UnitsFlagged, Covered, InvalidIdle, [Next]_vars
  PROVE  InvalidIdle'
<1>1. ASSUME NEW got \in SUBSET Textures, Draw(got)
      PROVE  InvalidIdle'
  <2>1. ASSUME NEW t \in invalid', t \in Stamped
        PROVE  FALSE
    <3>1. PICK i \in Indices : t = Bound(i)
      BY <2>1 DEF Stamped
    <3>2. t \in invalid /\ t \notin Revalidated
      BY <1>1, <2>1 DEF Draw
    <3>3. QED
      BY <3>1, <3>2, BoundRevalidated
  <2>2. \A t \in invalid' : t \in Textures /\ timestamp[t] = 0
    BY <1>1 DEF Draw, InvalidIdle, TypeOK
  <2>3. QED
    BY <1>1, <2>1, <2>2 DEF Draw, InvalidIdle
<1>2. CASE Execute
  BY <1>2 DEF Execute, InvalidIdle, TypeOK, imageVars
<1>3. CASE ~Execute /\ \A got \in SUBSET Textures : ~Draw(got)
  <2>1. UNCHANGED gpuVars
    BY <1>3, CpuStep
  <2>2. ASSUME NEW t \in invalid' \ invalid
        PROVE  Passed(t)
    <3>1. ASSUME NEW s, NEW l, NEW f, TexImage(s, l, f)
          PROVE  Passed(t)
      BY <2>2, <3>1 DEF TexImage
    <3>2. ASSUME NEW s, NEW n, \/ DeleteTexture(s) \/ TexStorage(s, n)
                               \/ SubImageInMemory(s, n) \/ SubImageInLevel(s, n)
          PROVE  invalid' \subseteq invalid
      BY <3>2 DEF DeleteTexture, TexStorage, SubImageInMemory, SubImageInLevel
    <3>3. ASSUME NEW u, NEW s, \/ BindTexture(u, s) \/ SamplerUniform(s, u)
                               \/ UseProgram(s)
          PROVE  invalid' \subseteq invalid
      BY <3>3 DEF BindTexture, SamplerUniform, UseProgram, imageVars
    <3>4. LinkProgram \/ Swap \/ UNCHANGED vars => invalid' \subseteq invalid
      BY DEF LinkProgram, Swap, vars, imageVars
    <3>5. ~ \E got \in SUBSET {s \in Revalidated : Complete(s)} : Draw(got)
      BY <1>3 DEF Revalidated, TypeOK
    <3>6. QED
      BY <1>3, <2>2, <3>1, <3>2, <3>3, <3>4, <3>5 DEF Next
  <2>3. QED
    BY <2>1, <2>2 DEF InvalidIdle, Passed, gpuVars
<1>4. QED
  BY <1>1, <1>2, <1>3

(* After a draw, the GPU samples the texture of its unit for every index    *)
(* that has one with memory, but for the indices without a flag that lasted.*)
LEMMA DrawFollows ==
  ASSUME TypeOK, UnitsFlagged, Follow, NEW got, Draw(got),
         NEW i \in Indices, i \notin dropped', Bound(i) # NoTexture,
         memory'[Bound(i)] # NoMemory
  PROVE  registers'[i] = Bound(i)
<1>1. Bound(i) \in Textures
  BY DEF TypeOK, Bound, Unit
<1>2. registers'[i] = IF i \in Needed THEN Bound(i)
                      ELSE WithoutMemory(registers, Revalidated)[i]
  BY DEF Draw
<1>3. CASE i \notin Needed
  <2>1. Bound(i) \notin Revalidated
    BY <1>3, BoundRevalidated DEF Revalidated
  <2>2. i \in Sampled \ (Needed \cup dropped)
    BY <1>1, <1>3, <2>1, DrawMemory DEF Sampled, HasMemory, Draw
  <2>3. registers[i] = Bound(i)
    BY <2>2 DEF Follow
  <2>4. QED
    BY <1>2, <1>3, <2>1, <2>3 DEF WithoutMemory
<1>4. QED
  BY <1>2, <1>3

LEMMA CoveredStep ==
  ASSUME TypeOK, UnitsFlagged, Covered, InvalidIdle, Follow, [Next]_vars
  PROVE  Covered'
<1>1. fifo \in Seq(SUBSET (Textures \cup {NoTexture, Torn})) /\ Len(fifo) \in Nat
  BY LenProperties DEF TypeOK
<1>2. ASSUME NEW got \in SUBSET Textures, Draw(got)
      PROVE  Covered'
  <2> DEFINE G == {j \in Indices \ dropped' :
                     Bound(j) # NoTexture /\ memory'[Bound(j)] # NoMemory}
             S == {registers'[i] : i \in G}
  <2>1. fifo' = Append(fifo, S)
    BY <1>2, DrawUndisturbed DEF Draw
  <2>2. /\ Len(fifo') = Len(fifo) + 1
        /\ \A k \in 1 .. Len(fifo) : fifo'[k] = fifo[k]
        /\ fifo'[Len(fifo) + 1] = S
    <3> HIDE DEF S
    <3>1. QED
      BY <1>1, <2>1
  <2>3. \A t \in Textures : timestamp'[t] = IF t \in Stamped THEN Len(fifo) + 1
                                            ELSE timestamp[t]
    BY <1>2 DEF Draw
  <2>4. ASSUME NEW k \in 1 .. Len(fifo), NEW t \in fifo'[k]
        PROVE  t \in Textures /\ k <= timestamp'[t]
    <3>1. t \in Textures /\ k <= timestamp[t]
      BY <2>2, <2>4 DEF Covered
    <3>2. QED
      BY <1>1, <2>3, <3>1
  <2>5. ASSUME NEW t \in S
        PROVE  t \in Textures /\ Len(fifo) + 1 <= timestamp'[t]
    <3>1. PICK i \in G : t = registers'[i]
      OBVIOUS
    <3>2. t = Bound(i)
      BY <1>2, <3>1, DrawFollows
    <3>3. t \in Textures /\ t \in Stamped
      BY <3>1, <3>2, TexturesAssumption DEF TypeOK, Bound, Unit, Stamped
    <3>4. QED
      BY <1>1, <2>3, <3>3
  <2>6. QED
    <3> HIDE DEF S
    <3>1. QED
      BY <1>1, <2>2, <2>4, <2>5 DEF Covered
<1>3. CASE Execute
  <2>1. /\ Len(fifo') = Len(fifo) - 1
        /\ \A k \in 1 .. Len(fifo') : fifo'[k] = fifo[k + 1]
        /\ \A t \in Textures : timestamp'[t] = IF timestamp[t] = 0 THEN 0
                                               ELSE timestamp[t] - 1
    BY <1>1, <1>3, HeadTailProperties DEF Execute
  <2>2. ASSUME NEW k \in 1 .. Len(fifo'), NEW t \in fifo'[k]
        PROVE  t \in Textures /\ k <= timestamp'[t]
    <3>1. k + 1 \in 1 .. Len(fifo)
      BY <1>1, <2>1
    <3>2. t \in Textures /\ k + 1 <= timestamp[t]
      BY <2>1, <2>2, <3>1 DEF Covered
    <3>3. timestamp[t] \in Nat
      BY <3>2, TexturesAssumption DEF TypeOK
    <3>4. QED
      BY <2>1, <3>2, <3>3
  <2>3. QED
    BY <2>2 DEF Covered
<1>4. CASE ~Execute /\ \A got \in SUBSET Textures : ~Draw(got)
  BY <1>4, CpuStep DEF Covered, gpuVars
<1>5. QED
  BY <1>2, <1>3, <1>4

LEMMA LatestStep ==
  ASSUME TypeOK, Latest, [Next]_vars
  PROVE  Latest'
<1> DEFINE Up(t) == IF t \in invalid
                    THEN \A l \in DOMAIN levels[t] : levels[t][l].age = "latest"
                    ELSE \A l \in DOMAIN memory[t] : memory[t][l] = "latest"
<1>1. \A t \in Textures \ lapsed : Up(t)
  BY DEF Latest
<1>2. SUFFICES ASSUME NEW s \in Textures, s \notin lapsed'
               PROVE  Up(s)'
  BY DEF Latest
<1>3. UNCHANGED imageVars => Up(s)'
  BY <1>1, <1>2 DEF imageVars
<1>4. ASSUME NEW t \in Textures, DeleteTexture(t)
      PROVE  Up(s)'
  <2>1. CASE s = t
    BY <1>4, <2>1 DEF DeleteTexture, NoMemory, TypeOK
  <2>2. CASE s # t
    BY <1>1, <1>2, <1>4, <2>2 DEF DeleteTexture, TypeOK
  <2>3. QED
    BY <2>1, <2>2
<1>5. ASSUME NEW t \in Textures, NEW n, TexStorage(t, n)
      PROVE  Up(s)'
  <2>1. CASE s = t
    BY <1>5, <2>1 DEF TexStorage, TypeOK
  <2>2. CASE s # t
    BY <1>1, <1>2, <1>5, <2>2 DEF TexStorage, TypeOK
  <2>3. QED
    BY <2>1, <2>2
<1>6. ASSUME NEW t \in Textures, NEW l \in LevelsOf[t], NEW f \in Formats, TexImage(t, l, f)
      PROVE  Up(s)'
  <2>1. CASE s = t
    <3>1. /\ s \in invalid'
          /\ levels'[s] = Specified(t, l, f)
      BY <1>6, <2>1 DEF TexImage, TypeOK
    <3>2. /\ Specified(t, l, f) \in [DOMAIN levels[t] \cup {l} -> Level]
          /\ Specified(t, l, f)[l].age = "latest"
          /\ \A m \in DOMAIN levels[t] \ {l} : Specified(t, l, f)[m] = levels[t][m]
      BY SpecifiedTyped
    <3>3. \A m \in DOMAIN levels[t] \ {l} : levels[t][m].age # "older"
      BY <1>2, <1>6, <2>1 DEF TexImage, TakesOlder
    <3>4. levels[t] \in [DOMAIN levels[t] -> Level]
      BY Typed
    <3>5. \A m \in DOMAIN levels[t] \ {l} : levels[t][m].age = "latest"
      BY <3>3, <3>4 DEF Level, Ages
    <3>6. QED
      BY <3>1, <3>2, <3>5
  <2>2. CASE s # t
    BY <1>1, <1>2, <1>6, <2>2 DEF TexImage, TypeOK
  <2>3. QED
    BY <2>1, <2>2
<1>7. ASSUME NEW t \in Textures, NEW l \in LevelsOf[t], SubImageInMemory(t, l)
      PROVE  Up(s)'
  <2>1. CASE s = t
    <3>1. s \notin invalid /\ s \notin invalid' /\ s \notin lapsed
      BY <1>2, <1>7, <2>1 DEF SubImageInMemory
    <3>2. memory'[s] = [memory[s] EXCEPT ![l] = "latest"]
      BY <1>7, <2>1 DEF SubImageInMemory, TypeOK
    <3>3. QED
      BY <1>1, <3>1, <3>2
  <2>2. CASE s # t
    BY <1>1, <1>2, <1>7, <2>2 DEF SubImageInMemory, TypeOK
  <2>3. QED
    BY <2>1, <2>2
<1>8. ASSUME NEW t \in Textures, NEW l \in LevelsOf[t], SubImageInLevel(t, l)
      PROVE  Up(s)'
  <2>1. /\ levels' = [levels EXCEPT ![t] = [@ EXCEPT ![l].age = "latest"]]
        /\ invalid' = invalid /\ memory' = memory /\ lapsed' = lapsed
    BY <1>8 DEF SubImageInLevel
  <2>2. CASE s \in invalid
    <3>1. \A m \in DOMAIN levels[s] : levels[s][m].age = "latest"
      BY <1>1, <1>2, <2>1, <2>2
    <3>2. levels[s] \in [DOMAIN levels[s] -> Level] /\ DOMAIN levels = Textures
      BY Typed DEF TypeOK
    <3>3. DOMAIN levels'[s] = DOMAIN levels[s]
      BY <2>1, <3>2
    <3>4. \A m \in DOMAIN levels[s] : levels'[s][m].age = "latest"
      BY <2>1, <3>1, <3>2 DEF Level
    <3>5. QED
      BY <2>1, <2>2, <3>3, <3>4
  <2>3. QED
    BY <1>1, <1>2, <2>1, <2>2
<1>9. ASSUME NEW got, Draw(got)
      PROVE  Up(s)'
  <2>1. invalid' = invalid \ Revalidated /\ levels' = levels /\ lapsed' = lapsed
    BY <1>9 DEF Draw
  <2>2. /\ s \notin Revalidated => memory'[s] = memory[s]
        /\ s \in Revalidated =>
             \A l \in DOMAIN memory'[s] :
               l \in DOMAIN levels[s] /\ memory'[s][l] = levels[s][l].age
    BY <1>9, DrawMemory
  <2>3. CASE s \in Revalidated
    BY <1>1, <1>2, <2>1, <2>2, <2>3 DEF Revalidated
  <2>4. CASE s \notin Revalidated
    BY <1>1, <1>2, <2>1, <2>2, <2>4
  <2>5. QED
    BY <2>3, <2>4
<1>10. ASSUME NEW u, NEW a, BindTexture(u, a) \/ SamplerUniform(a, u) \/ UseProgram(a)
       PROVE  UNCHANGED imageVars
  BY <1>10 DEF BindTexture, SamplerUniform, UseProgram
<1>11. LinkProgram \/ Swap \/ Execute \/ UNCHANGED vars => UNCHANGED imageVars
  BY DEF LinkProgram, Swap, Execute, vars
<1>12. QED
  BY <1>3, <1>4, <1>5, <1>6, <1>7, <1>8, <1>9, <1>10, <1>11 DEF Next

(* An index whose texture, with its memory and registers, stays as it is    *)
(* keeps following it, when flags are only added.                           *)
LEMMA StillFollows ==
  ASSUME Follow, NEW i \in (Sampled \ (Needed \cup dropped))',
         Bound(i)' = Bound(i), memory'[Bound(i)] = memory[Bound(i)],
         i \notin Needed, i \notin dropped,
         registers[i] = Bound(i) => registers'[i] = Bound(i)
  PROVE  registers'[i] = Bound(i)'
<1>1. i \in Sampled
  BY DEF Sampled, HasMemory, Bound, Unit
<1>2. QED
  BY <1>1 DEF Follow

LEMMA FollowStep ==
  ASSUME TypeOK, UnitsFlagged, Follow, [Next]_vars
  PROVE  Follow'
<1> DEFINE Quiet == (Sampled \ (Needed \cup dropped))'
<1>1. SUFFICES ASSUME NEW i \in Quiet
               PROVE  registers'[i] = Bound(i)'
  BY DEF Follow
<1>2. /\ i \in Indices
      /\ i \notin invalid_texture_assignments'
      /\ texture_assignments'[i] \notin invalid_textures'
      /\ i \notin dropped'
      /\ Bound(i)' # NoTexture
      /\ memory'[names'[texture_assignments'[i]]] # NoMemory
  BY DEF Sampled, Needed, Bound, Unit, HasMemory, NoMemory
<1>3. texture_assignments[i] \in Units /\ Bound(i) \in Textures \cup {NoTexture}
  BY <1>2 DEF TypeOK, Bound, Unit
<1>4. ASSUME NEW u \in Units, NEW t \in Textures \cup {NoTexture}, BindTexture(u, t)
      PROVE  registers'[i] = Bound(i)'
  <2>1. Unit(i) # u
    BY <1>2, <1>4 DEF BindTexture, Unit
  <2>2. Bound(i)' = Bound(i)
    BY <1>3, <1>4, <2>1 DEF BindTexture, Bound, Unit, TypeOK
  <2>3. i \notin Needed /\ i \notin dropped
    BY <1>2, <1>4 DEF BindTexture, Needed, Unit
  <2>4. QED
    BY <1>4, <2>2, <2>3, StillFollows DEF BindTexture, imageVars
<1>5. ASSUME NEW t \in Textures, DeleteTexture(t)
      PROVE  registers'[i] = Bound(i)'
  <2>1. Bound(i)' = Bound(i) /\ Bound(i) \in Textures /\ Bound(i) # t
    BY <1>2, <1>3, <1>5 DEF DeleteTexture, Bound, Unit
  <2>2. i \notin Needed /\ i \notin dropped
    BY <1>2, <1>5 DEF DeleteTexture, Needed, Unit, flagVars
  <2>3. memory'[Bound(i)] = memory[Bound(i)]
    BY <1>5, <2>1 DEF DeleteTexture, TypeOK
  <2>4. registers[i] # t => registers'[i] = registers[i]
    BY <1>2, <1>5 DEF DeleteTexture, WithoutMemory
  <2>5. QED
    BY <2>1, <2>2, <2>3, <2>4, StillFollows
<1>6. ASSUME NEW t \in Textures, NEW n, TexStorage(t, n)
      PROVE  registers'[i] = Bound(i)'
  <2>1. Bound(i)' = Bound(i) /\ Bound(i) \in Textures /\ Bound(i) # t
    BY <1>2, <1>3, <1>6 DEF TexStorage, Bound, Unit, BoundTo
  <2>2. i \notin Needed /\ i \notin dropped
    BY <1>2, <1>6 DEF TexStorage, Needed, Unit
  <2>3. memory'[Bound(i)] = memory[Bound(i)]
    BY <1>6, <2>1 DEF TexStorage, TypeOK
  <2>4. registers[i] # t => registers'[i] = registers[i]
    BY <1>2, <1>6 DEF TexStorage, WithoutMemory
  <2>5. QED
    BY <2>1, <2>2, <2>3, <2>4, StillFollows
<1>7. ASSUME NEW t \in Textures, NEW l \in LevelsOf[t], NEW f \in Formats, TexImage(t, l, f)
      PROVE  registers'[i] = Bound(i)'
  <2>1. Bound(i)' = Bound(i) /\ Bound(i) \in Textures /\ Bound(i) # t
    BY <1>2, <1>3, <1>7 DEF TexImage, Bound, Unit, BoundTo
  <2>2. i \notin Needed /\ i \notin dropped
    BY <1>2, <1>7 DEF TexImage, Needed, Unit
  <2>3. memory'[Bound(i)] = memory[Bound(i)]
    BY <1>7, <2>1 DEF TexImage, TypeOK
  <2>4. QED
    BY <1>7, <2>1, <2>2, <2>3, StillFollows DEF TexImage
<1>8. ASSUME NEW t \in Textures, NEW l \in LevelsOf[t], SubImageInMemory(t, l)
      PROVE  registers'[i] = Bound(i)'
  <2>1. /\ Bound(i)' = Bound(i) /\ Bound(i) \in Textures
        /\ i \notin Needed /\ i \notin dropped /\ registers' = registers
    BY <1>2, <1>3, <1>8 DEF SubImageInMemory, Bound, Unit, Needed, flagVars
  <2>2. memory[t] # NoMemory
    BY <1>8 DEF SubImageInMemory, NoMemory
  <2>3. Bound(i) # t => memory'[Bound(i)] = memory[Bound(i)]
    BY <1>8, <2>1 DEF SubImageInMemory, TypeOK
  <2>4. i \in Sampled
    BY <1>2, <2>1, <2>2, <2>3 DEF Sampled, HasMemory, Bound, Unit
  <2>5. QED
    BY <2>1, <2>4 DEF Follow
<1>9. ASSUME NEW t \in Textures, NEW l \in LevelsOf[t], SubImageInLevel(t, l)
      PROVE  registers'[i] = Bound(i)'
  BY <1>2, <1>9, StillFollows DEF SubImageInLevel, Needed, Bound, Unit, flagVars
<1>10. ASSUME NEW j \in Indices, NEW u \in Units, SamplerUniform(j, u)
       PROVE  registers'[i] = Bound(i)'
  <2>1. i # j /\ i \notin invalid_texture_assignments
    BY <1>2, <1>10 DEF SamplerUniform
  <2>2. texture_assignments'[i] = texture_assignments[i]
    BY <1>2, <1>10, <2>1 DEF SamplerUniform, TypeOK
  <2>3. /\ Bound(i)' = Bound(i) /\ i \notin Needed /\ i \notin dropped
        /\ UNCHANGED <<memory, registers>>
    BY <1>2, <1>10, <2>1, <2>2 DEF SamplerUniform, Bound, Unit, Needed, imageVars
  <2>4. QED
    BY <2>3, StillFollows
<1>11. ASSUME NEW a \in [Indices -> Units], UseProgram(a)
       PROVE  registers'[i] = Bound(i)'
  <2>1. i \notin invalid_texture_assignments /\ i \notin dropped
    BY <1>2, <1>11 DEF UseProgram
  <2>2. texture_assignments'[i] = texture_assignments[i]
    BY <1>2, <1>11 DEF UseProgram
  <2>3. /\ Bound(i)' = Bound(i) /\ i \notin Needed
        /\ UNCHANGED <<memory, registers>>
    BY <1>2, <1>11, <2>1, <2>2 DEF UseProgram, Bound, Unit, Needed, imageVars
  <2>4. QED
    BY <2>1, <2>3, StillFollows
<1>12. CASE LinkProgram
  <2>1. texture_assignments'[i] = texture_assignments[i] /\ i \notin dropped
    BY <1>2, <1>12 DEF LinkProgram
  <2>2. /\ Bound(i)' = Bound(i) /\ i \notin Needed
        /\ UNCHANGED <<memory, registers>>
    BY <1>2, <1>12, <2>1 DEF LinkProgram, Bound, Unit, Needed, imageVars, flagVars
  <2>3. QED
    BY <2>1, <2>2, StillFollows
<1>13. CASE Swap
  BY <1>2, <1>3, <1>13 DEF Swap
<1>14. ASSUME NEW got, Draw(got)
       PROVE  registers'[i] = Bound(i)'
  <2>1. Bound(i)' = Bound(i)
    BY <1>14 DEF Draw, Bound, Unit
  <2>2. QED
    BY <1>2, <1>14, <2>1, DrawFollows DEF Bound, Unit
<1>15. CASE Execute \/ UNCHANGED vars
  <2>1. UNCHANGED <<names, imageVars, texture_assignments, flagVars, registers, dropped>>
    BY <1>15 DEF Execute, vars
  <2>2. QED
    BY <1>2, <2>1, StillFollows DEF Needed, Bound, Unit, imageVars, flagVars
<1>16. QED
  BY <1>4, <1>5, <1>6, <1>7, <1>8, <1>9, <1>10, <1>11, <1>12, <1>13, <1>14, <1>15 DEF Next

-----------------------------------------------------------------------------

(* The invariant holds at the start: there are no images, and no draws.     *)
LEMMA InvInit ==
  ASSUME Init
  PROVE  TexturesInv
<1>1. /\ {} \in SUBSET UNION {LevelsOf[s] : s \in Textures}
      /\ NoMemory \in [{} -> Ages] /\ NoLevels \in [{} -> Level]
      /\ DOMAIN NoMemory = {} /\ DOMAIN NoLevels = {}
  BY DEF NoMemory, NoLevels
<1>2. NoMemory \in PerLevel(Ages) /\ NoLevels \in PerLevel(Level)
  BY <1>1 DEF PerLevel
<1>3. TypeOK
  BY <1>1, <1>2, TexturesAssumption DEF Init, TypeOK
<1>4. UnitsFlagged /\ Covered /\ InvalidIdle
  BY DEF Init, UnitsFlagged, Covered, InvalidIdle
<1>5. Latest
  BY <1>1 DEF Init, Latest
<1>6. Follow
  BY TexturesAssumption DEF Init, Follow, Sampled, Bound, Unit
<1>7. QED
  BY <1>3, <1>4, <1>5, <1>6 DEF TexturesInv

(* In every state the units of textures that have to be validated are       *)
(* flagged, draws that wait sample textures that are stamped for them, no   *)
(* draw waits for a texture that has to be validated, the place a texture   *)
(* is sampled from next has the latest of it, and registers without a flag  *)
(* have the texture of their unit.  The parts need each other: that         *)
(* rsxgl_texture_validate frees memory without waiting is right because of  *)
(* InvalidIdle, and it stays right because a draw validates every texture   *)
(* that it stamps, which takes the flags.                                   *)
THEOREM TexturesInvariant == Spec => []TexturesInv
<1>1. Init => TexturesInv
  BY InvInit
<1>2. TexturesInv /\ [Next]_vars => TexturesInv'
  BY TypeStep, UnitsFlaggedStep, CoveredStep, InvalidIdleStep, LatestStep, FollowStep
     DEF TexturesInv
<1>3. QED
  BY <1>1, <1>2, PTL DEF Spec

(* The registers of an index follow the texture of its unit: if no flag     *)
(* says that they will be written by the next draw, they are right, but for *)
(* the flags that glUseProgram and glLinkProgram drop.                      *)
THEOREM TexturesRegistersFollow == Spec => []TexturesFollow
<1>1. ASSUME TexturesInv, NEW i \in Sampled \ (Needed \cup dropped)
      PROVE  registers[i] = Bound(i) /\ Bound(i) \notin invalid
  BY <1>1, BoundRevalidated DEF TexturesInv, Follow, Sampled
<1>2. TexturesInv => TexturesFollow
  BY <1>1 DEF TexturesInv, TexturesFollow
<1>3. QED
  BY <1>2, TexturesInvariant, PTL

(* No memory that a waiting draw samples for the texture of a unit is freed *)
(* or written by the CPU, however many draws are waiting.                   *)
THEOREM TexturesNothingTorn == Spec => []NothingTorn
<1>1. TexturesInv => NothingTorn
  BY DEF TexturesInv, Covered, NothingTorn
<1>2. QED
  BY <1>1, TexturesInvariant, PTL

(* What the GPU samples is in every level what the application last gave    *)
(* for it, unless a part of the texture was replaced where it gets lost.    *)
THEOREM TexturesSamplesLatest == Spec => []SamplesLatest
<1>1. ASSUME TexturesInv, NEW i \in Sampled \ (Needed \cup dropped), Bound(i) \notin lapsed
      PROVE  \A l \in DOMAIN memory[registers[i]] : memory[registers[i]][l] = "latest"
  <2>1. Bound(i) \in Textures /\ registers[i] = Bound(i)
    BY <1>1 DEF TexturesInv, Follow, Sampled, TypeOK, Bound, Unit
  <2>2. Bound(i) \notin invalid
    BY <1>1, BoundRevalidated DEF TexturesInv, Sampled
  <2>3. QED
    BY <1>1, <2>1, <2>2 DEF TexturesInv, Latest
<1>2. TexturesInv => SamplesLatest
  BY <1>1 DEF SamplesLatest
<1>3. QED
  BY <1>2, TexturesInvariant, PTL

-----------------------------------------------------------------------------
(* The ring buffer: of any size, with any alignment and any number of       *)
(* pieces that wait to be drawn.                                            *)

USE RingBufferAssumption

IsPiece(p) == p \in Piece /\ p.first < p.end /\ p.end <= Size /\ p.first % Align = 0

(* The end of every piece becomes the label, and then the head.             *)
PiecesInBounds == \A k \in 1 .. Len(pieces) : IsPiece(pieces[k])

(* What memalign has worked out is good for the buffer whatever the label   *)
(* will be.                                                                 *)
RequestInBounds ==
  call = "stall" =>
    /\ request.size \in 1 .. Size
    /\ request.offset \in Nat /\ request.offset % Align = 0
    /\ request.new_tail = request.offset + request.size
    /\ ~request.wrap => request.bump /\ request.new_tail <= Size

(* The pieces are in the order in which they were handed out.               *)
BelowTail ==
  ~wrapped =>
    /\ \A k \in 1 .. Len(pieces) : pieces[k].end <= tail
    /\ call = "fill" =>
         /\ piece.end = tail
         /\ \A k \in 1 .. Len(pieces) : pieces[k].end <= piece.first

RingInv ==
  /\ RingTypeOK
  /\ call = "fill" => IsPiece(piece)
  /\ PiecesInBounds
  /\ RequestInBounds
  /\ BelowTail

-----------------------------------------------------------------------------

(* An offset is rounded up to the next multiple of the alignment.           *)
LEMMA AlignedUpFacts ==
  ASSUME NEW t \in Nat
  PROVE  AlignedUp(t) \in Nat /\ AlignedUp(t) >= t /\ AlignedUp(t) % Align = 0
  <1>1. t % Align \in 0 .. Align - 1
    OBVIOUS
  <1>2. AlignedUp(t) \in Nat /\ AlignedUp(t) >= t
    BY <1>1 DEF AlignedUp
  <1>3. (t + Align - (t % Align)) % Align = 0
    <2>1. t = Align * (t \div Align) + (t % Align)
      OBVIOUS
    <2>2. t \div Align \in Nat
      OBVIOUS
    <2>3. t + Align - (t % Align) = Align * (t \div Align + 1)
      BY <1>1, <2>1, <2>2
    <2>4. \A n \in Nat : (Align * n) % Align = 0
      OBVIOUS
    <2> QED BY <2>2, <2>3, <2>4
  <1> QED BY <1>2, <1>3 DEF AlignedUp

LEMMA RequestFacts ==
  ASSUME tail \in Nat, NEW size \in 1 .. Size
  PROVE  /\ Request(size).size = size
         /\ Request(size).offset \in Nat
         /\ Request(size).offset % Align = 0
         /\ Request(size).offset >= tail
         /\ Request(size).new_tail = Request(size).offset + size
         /\ Request(size).wrap <=> Request(size).new_tail > Size
  <1> DEFINE offset == AlignedUp(tail)
  <1>1. /\ Request(size).size = size
        /\ Request(size).offset = offset
        /\ Request(size).new_tail = offset + size
        /\ Request(size).wrap <=> offset + size > Size
    BY Zenon DEF Request
  <1> QED BY <1>1, AlignedUpFacts

LEMMA HandOutFacts ==
  ASSUME NEW first \in Nat, NEW size \in 1 .. Size, HandOut(first, size),
         first % Align = 0, first + size <= Size
  PROVE  /\ call' = "fill"
         /\ piece' \in Piece
         /\ IsPiece(piece')
         /\ piece'.first = first
         /\ piece'.end = first + size
  BY DEF HandOut, IsPiece, Piece

LEMMA ZeroAligned == 0 % Align = 0
  OBVIOUS

LEMMA RingStep ==
  ASSUME RingInv, [RingNext]_ringVars
  PROVE  RingInv'
  <1> USE DEF RingInv, RingTypeOK, PiecesInBounds, RequestInBounds, BelowTail
  <1>1. ASSUME NEW size \in 1 .. Size, Memalign(size)
        PROVE  RingInv'
    <2> DEFINE r == Request(size)
    <2>1. /\ r.size = size /\ r.offset \in Nat /\ r.offset % Align = 0 /\ r.offset >= tail
          /\ r.new_tail = r.offset + size /\ (r.wrap <=> r.new_tail > Size)
      BY RequestFacts
    <2>2. /\ ~r.wrap
          /\ tail' = r.new_tail
          /\ HandOut(r.offset, size)
          /\ UNCHANGED <<head, label, pieces, put, request, wrapped>>
      BY <1>1, Zenon DEF Memalign, gpu
    <2> HIDE DEF r
    <2>3. /\ call' = "fill" /\ piece' \in Piece /\ IsPiece(piece')
          /\ piece'.first = r.offset /\ piece'.end = r.offset + size
      BY <2>1, <2>2, HandOutFacts
    <2>4. RingTypeOK' /\ PiecesInBounds' /\ RequestInBounds'
      BY <2>1, <2>2, <2>3
    <2>5. BelowTail'
      <3>1. \A k \in 1 .. Len(pieces) : pieces[k].end \in Nat
        <4>1. \A k \in 1 .. Len(pieces) : pieces[k] \in Piece
          BY DEF IsPiece
        <4> QED BY <4>1 DEF Piece
      <3>2. tail <= r.offset /\ tail <= tail' /\ piece'.end = tail'
        BY <2>1, <2>2, <2>3
      <3>3. ASSUME ~wrapped, NEW k \in 1 .. Len(pieces)
            PROVE  pieces[k].end <= tail' /\ pieces[k].end <= piece'.first
        <4>1. pieces[k].end <= tail
          BY <3>3
        <4>2. /\ pieces[k].end \in Nat /\ tail \in Nat /\ tail' \in Nat
              /\ r.offset \in Nat /\ piece'.first = r.offset
          BY <2>1, <2>3, <2>4, <3>1
        <4> QED BY <3>2, <4>1, <4>2
      <3> QED BY <2>2, <3>2, <3>3
    <2> QED BY <2>3, <2>4, <2>5
  <1>2. ASSUME NEW size \in 1 .. Size, MemalignStalls(size)
        PROVE  RingInv'
    <2> DEFINE r == Request(size)
    <2>1. /\ r.size = size /\ r.offset \in Nat /\ r.offset % Align = 0 /\ r.offset >= tail
          /\ r.new_tail = r.offset + size /\ (r.wrap <=> r.new_tail > Size)
      BY RequestFacts
    <2>2. /\ r.wrap \/ r.bump
          /\ request' = r
          /\ call' = "stall"
          /\ UNCHANGED <<head, tail, label, pieces, put, piece, wrapped>>
      BY <1>2, Zenon DEF MemalignStalls, ring, gpu
    <2> HIDE DEF r
    <2> QED BY <2>1, <2>2
  <1>3. CASE StallOver
    <2>1. /\ wrapped' = TRUE
          /\ call' = "fill"
          /\ UNCHANGED <<label, pieces, put>>
      BY <1>3, Zenon DEF StallOver, gpu, HandOut
    <2>2. /\ request.size \in 1 .. Size
          /\ request.offset \in Nat /\ request.offset % Align = 0
          /\ request.new_tail = request.offset + request.size
          /\ ~request.wrap => request.bump /\ request.new_tail <= Size
      BY <1>3 DEF StallOver
    <2>3. head' \in 0 .. Size /\ tail' \in Nat
      BY <1>3, <2>2 DEF StallOver
    <2>4. piece' \in Piece /\ IsPiece(piece')
      <3>1. CASE label = tail \/ request.wrap
        <4>1. HandOut(0, request.size)
          BY <1>3, <3>1, Zenon DEF StallOver
        <4> QED BY <2>2, <4>1, ZeroAligned, HandOutFacts
      <3>2. CASE label # tail /\ ~request.wrap
        <4>1. HandOut(request.offset, request.size)
          BY <1>3, <3>2, Zenon DEF StallOver
        <4> QED BY <2>2, <3>2, <4>1, HandOutFacts
      <3> QED BY <3>1, <3>2
    <2> QED BY <2>1, <2>3, <2>4
  <1>4. CASE Free
    <2>1. /\ pieces' = Append(pieces, piece)
          /\ call = "fill" /\ call' = "none"
          /\ piece' = NoPiece
          /\ UNCHANGED <<head, tail, label, put, wrapped>>
      BY <1>4, Zenon DEF Free, ring
    <2>2. /\ pieces' \in Seq(Piece) /\ Len(pieces') = Len(pieces) + 1
          /\ \A k \in 1 .. Len(pieces') :
               \/ k \in 1 .. Len(pieces) /\ pieces'[k] = pieces[k]
               \/ pieces'[k] = piece
      BY <2>1
    <2>3. piece' \in Piece
      BY <2>1 DEF NoPiece, Piece
    <2> QED BY <2>1, <2>2, <2>3
  <1>5. CASE Flush
    BY <1>5 DEF Flush, ring
  <1>6. CASE DrawPiece
    <2>1. /\ put > 0
          /\ label' = Head(pieces).end
          /\ pieces' = Tail(pieces)
          /\ put' = put - 1
          /\ UNCHANGED <<head, tail, call, request, piece, wrapped>>
      BY <1>6, Zenon DEF DrawPiece, ring
    <2>2. pieces # << >> /\ Head(pieces) = pieces[1] /\ 1 \in 1 .. Len(pieces)
      BY <2>1
    <2>3. label' \in 0 .. Size
      BY <2>1, <2>2 DEF IsPiece, Piece
    <2>4. /\ pieces' \in Seq(Piece) /\ Len(pieces') = Len(pieces) - 1
          /\ \A k \in 1 .. Len(pieces') :
               k + 1 \in 1 .. Len(pieces) /\ pieces'[k] = pieces[k + 1]
      BY <2>1, <2>2
    <2> QED BY <2>1, <2>3, <2>4
  <1>7. CASE UNCHANGED ringVars
    BY <1>7 DEF ringVars, ring, gpu
  <1> QED BY <1>1, <1>2, <1>3, <1>4, <1>5, <1>6, <1>7 DEF RingNext

-----------------------------------------------------------------------------

(* Every piece that waits to be drawn was handed out by memalign, whatever  *)
(* the label showed then.                                                   *)
THEOREM RingBufferInvariant == RingSpec => []RingInv
  <1>1. RingInit => RingInv
    <2> SUFFICES ASSUME RingInit PROVE RingInv
      OBVIOUS
    <2>1. RingTypeOK
      <3>1. piece \in Piece
        BY DEF RingInit, NoPiece, Piece
      <3>2. wrapped \in BOOLEAN
        BY Zenon DEF RingInit
      <3> QED BY <3>1, <3>2 DEF RingInit, RingTypeOK
    <2>2. PiecesInBounds /\ RequestInBounds /\ BelowTail
      BY DEF RingInit, PiecesInBounds, RequestInBounds, BelowTail
    <2> QED BY <2>1, <2>2 DEF RingInit, RingInv
  <1> QED BY <1>1, RingStep, PTL DEF RingSpec

(* No request, and no value of the label at any time, makes memalign hand   *)
(* out memory that is not in the buffer or not aligned.                     *)
THEOREM RingBufferInBounds == RingSpec => []InBounds
  <1>1. RingInv => InBounds
    BY DEF RingInv, InBounds, IsPiece
  <1> QED BY <1>1, RingBufferInvariant, PTL

(* Until memalign first stalls, however many pieces wait to be drawn, none  *)
(* of them is in the memory that is handed out.                             *)
THEOREM RingBufferNoOverlap == RingSpec => []NoOverlapAtFirst
  <1>1. RingInv => NoOverlapAtFirst
    <2> SUFFICES ASSUME RingInv, ~wrapped, call = "fill", NEW k \in 1 .. Len(pieces)
                 PROVE  ~Overlap(piece, pieces[k])
      BY DEF NoOverlapAtFirst
    <2>1. pieces[k].end <= piece.first /\ pieces[k] \in Piece /\ piece \in Piece
      BY DEF RingInv, BelowTail, RingTypeOK
    <2> QED BY <2>1 DEF Overlap, Piece
  <1> QED BY <1>1, RingBufferInvariant, PTL

=============================================================================
