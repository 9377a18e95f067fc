--------------------- MODULE PersistedGenerationsProofs ---------------------
(***************************************************************************)
(* Proofs about PersistedGenerations: whatever call of the file system     *)
(* fails or the process dies at, generation numbers stay unambiguous, what *)
(* an operation returned stays readable, and commits are atomic.           *)
(***************************************************************************)
EXTENDS PersistedGenerations, TLAPS

(***************************************************************************)
(* Files, and the newest of them.                                          *)
(***************************************************************************)
LEMMA FileFacts ==
  ASSUME NEW f \in File
  PROVE  f.gen \in Nat /\ f.gen <= MaxGeneration /\ (f.gen > 0 => f.content \in Contents)
BY GenerationsAssumption DEF GenerationsAssumption, File, Missing, Damaged

LEMMA PlainFiles == Missing \in File /\ Damaged \in File /\ Missing.gen = 0 /\ Damaged.gen = 0
BY DEF File, Missing, Damaged

LEMMA NewestFacts ==
  ASSUME NEW files \in [Slots -> File]
  PROVE  /\ NewestSlot(files) \in Slots
         /\ Newest(files) \in File
         /\ \A s \in Slots : files[s].gen <= Newest(files).gen
         /\ Newest(files).gen > 0 => files[NewestSlot(files)] = Newest(files)
         /\ Newest(files).gen = 0 => Newest(files) = Missing
<1>1. NewestSlot(files) \in Slots
  BY DEF NewestSlot, Slots
<1>2. \A s \in Slots : files[s].gen \in Nat /\ files[s].gen <= files[NewestSlot(files)].gen
  <2>1. \A s \in Slots : files[s].gen \in Nat
    BY FileFacts
  <2>2. {"primary", "backup", "temp"} = Slots
    BY DEF Slots
  <2> QED BY <2>1, <2>2 DEF NewestSlot, Slots
<1> QED BY <1>1, <1>2, PlainFiles DEF Newest

\* The newest file is any file with the largest number, numbers being unambiguous.
LEMMA NewestIs ==
  ASSUME NEW files \in [Slots -> File], NEW s \in Slots,
         files[s].gen > 0,
         \A t \in Slots : files[t].gen <= files[s].gen,
         \A t \in Slots : files[t].gen = files[s].gen => files[t] = files[s]
  PROVE  Newest(files) = files[s]
<1>1. \A t \in Slots : files[t].gen \in Nat
  BY FileFacts
<1>2. Newest(files).gen \in Nat
  BY NewestFacts, FileFacts
<1>3. Newest(files).gen > 0 /\ Newest(files) = files[NewestSlot(files)]
  BY <1>1, <1>2, NewestFacts
<1> QED BY <1>1, <1>2, <1>3, NewestFacts

(***************************************************************************)
(* The inductive invariant.                                                *)
(***************************************************************************)
LEMMA InvInit == Init => GenerationsInv
<1> SUFFICES ASSUME Init PROVE GenerationsInv
  OBVIOUS
<1>1. TypeOK
  <2>1. losses \in 0..MaxLosses /\ pc \in Steps
    BY GenerationsAssumption DEF GenerationsAssumption, Init, Steps
  <2>2. committing \in BOOLEAN /\ shelving \in BOOLEAN
    BY DEF Init
  <2>3. disk \in [Slots -> File] /\ placing \in File /\ returned \in File
    BY PlainFiles DEF Init
  <2> QED BY <2>1, <2>2, <2>3 DEF TypeOK, Init
<1>2. Newest(disk) = Missing
  <2>1. \A s \in Slots : disk[s].gen = 0
    BY PlainFiles DEF Init
  <2>2. NewestSlot(disk) \in Slots
    BY <1>1, NewestFacts DEF TypeOK
  <2> QED BY <2>1, <2>2 DEF Newest
<1>3. ReturnedSurvives
  BY <1>2, PlainFiles DEF Init, ReturnedSurvives
<1> QED BY <1>1, <1>3, PlainFiles DEF Init, GenerationsInv, NeverCollides, Collision, PlacingOK, CommittingOK

\* What the invariant says of the numbers of the files.
LEMMA Numbers ==
  ASSUME TypeOK
  PROVE  /\ \A s \in Slots : disk[s] \in File /\ disk[s].gen \in Nat
         /\ placing.gen \in Nat /\ returned.gen \in Nat /\ Newest(disk).gen \in Nat
BY FileFacts, NewestFacts DEF TypeOK

\* A step that leaves copies of files that were there, and the newest among them.
Shrinks ==
  /\ disk' \in [Slots -> File]
  /\ \A s \in Slots : disk'[s].gen = 0 \/ \E t \in Slots : disk'[s] = disk[t]
  /\ Newest(disk) = Missing \/ \E top \in Slots : disk'[top] = Newest(disk)

\* Such a step changes nothing in the register.
LEMMA ShrinkingIsSafe ==
  ASSUME TypeOK, NeverCollides, Shrinks
  PROVE  /\ NeverCollides'
         /\ Newest(disk') = Newest(disk)
         /\ ReturnedSurvives /\ returned' = returned => ReturnedSurvives'
<1>1. \A s \in Slots : disk[s].gen \in Nat /\ disk'[s].gen \in Nat
  BY FileFacts DEF TypeOK, Shrinks
<1>2. NeverCollides'
  BY <1>1 DEF NeverCollides, Collision, Shrinks
<1>3. Newest(disk).gen \in Nat /\ \A s \in Slots : disk[s].gen <= Newest(disk).gen
  BY NewestFacts, FileFacts DEF TypeOK
<1>4. \A s \in Slots : disk'[s].gen <= Newest(disk).gen
  BY <1>1, <1>3 DEF Shrinks
<1>5. ASSUME Newest(disk).gen = 0 PROVE Newest(disk') = Newest(disk)
  BY <1>1, <1>4, <1>5, NewestFacts, FileFacts DEF TypeOK, Shrinks
<1>6. ASSUME Newest(disk).gen > 0 PROVE Newest(disk') = Newest(disk)
  <2>1. PICK top \in Slots : disk'[top] = Newest(disk)
    BY <1>6, PlainFiles DEF Shrinks
  <2>2. \A s \in Slots : disk'[s].gen = disk'[top].gen => disk'[s] = disk'[top]
    <3> TAKE s \in Slots
    <3> HAVE disk'[s].gen = disk'[top].gen
    <3>1. disk'[s].content = disk'[top].content
      BY <1>2, <1>6, <2>1 DEF NeverCollides, Collision
    <3>2. /\ disk'[s] \in [gen : 1..MaxGeneration, content : Contents]
          /\ disk'[top] \in [gen : 1..MaxGeneration, content : Contents]
      BY <1>6, <2>1, PlainFiles DEF File, Shrinks
    <3> QED BY <3>1, <3>2
  <2> QED BY <1>4, <1>6, <2>1, <2>2, NewestIs DEF Shrinks
<1>7. Newest(disk') = Newest(disk)
  BY <1>3, <1>5, <1>6
<1>8. ASSUME ReturnedSurvives, returned' = returned PROVE ReturnedSurvives'
  BY <1>1, <1>7, <1>8 DEF ReturnedSurvives, Shrinks
<1> QED BY <1>2, <1>7, <1>8

\* While a generation is being placed it is the newest on disk, from the moment it
\* is on disk.
LEMMA PlacedIsNewest ==
  ASSUME TypeOK, NeverCollides, PlacingOK, NEW s \in Slots, disk[s] = placing,
         pc \in {"discard", "write", "vacate", "shelve", "promote", "erase"}
  PROVE  Newest(disk) = placing
<1>1. placing.gen > 0 /\ \A t \in Slots : disk[t].gen <= placing.gen
  BY DEF PlacingOK
<1>2. \A t \in Slots : disk[t].gen = placing.gen => disk[t] = placing
  <2> TAKE t \in Slots
  <2> HAVE disk[t].gen = placing.gen
  <2>1. disk[t].content = placing.content
    BY <1>1 DEF NeverCollides, Collision
  <2>2. /\ disk[t] \in [gen : 1..MaxGeneration, content : Contents]
        /\ placing \in [gen : 1..MaxGeneration, content : Contents]
    BY <1>1, PlainFiles DEF TypeOK, File
  <2> QED BY <2>1, <2>2
<1> QED BY <1>1, <1>2, NewestIs DEF TypeOK

LEMMA ReturningTheNewest ==
  ASSUME TypeOK', NeverCollides', returned' = Newest(disk')
  PROVE  ReturnedSurvives'
<1>1. disk' \in [Slots -> File] /\ \A s \in Slots : disk'[s].gen \in Nat
  BY FileFacts DEF TypeOK
<1>2. returned' \in File /\ returned'.gen \in Nat
  BY <1>1, NewestFacts, FileFacts
<1>3. ASSUME NEW s \in Slots, disk'[s].gen = returned'.gen, returned'.gen > 0
      PROVE  disk'[s] = returned'
  <2>1. disk'[NewestSlot(disk')] = returned' /\ NewestSlot(disk') \in Slots
    BY <1>1, <1>3, NewestFacts
  <2>2. disk'[s].content = returned'.content
    BY <1>3, <2>1 DEF NeverCollides, Collision
  <2>3. /\ disk'[s] \in [gen : 1..MaxGeneration, content : Contents]
        /\ returned' \in [gen : 1..MaxGeneration, content : Contents]
    BY <1>1, <1>2, <1>3, PlainFiles DEF File
  <2> QED BY <1>3, <2>2, <2>3
<1> QED BY <1>2, <1>3 DEF ReturnedSurvives

(***************************************************************************)
(* Each step preserves the invariant.                                      *)
(***************************************************************************)
LEMMA StoreType ==
  ASSUME TypeOK, NEW s \in Slots, NEW f \in File, Store(s, f)
  PROVE  disk' \in [Slots -> File] /\ disk'[s] = f /\ \A t \in Slots \ {s} : disk'[t] = disk[t]
BY DEF TypeOK, Store

LEMMA MoveType ==
  ASSUME TypeOK, NEW s \in Slots, NEW t \in Slots \ {s}, Move(s, t)
  PROVE  /\ disk' \in [Slots -> File] /\ disk'[t] = disk[s] /\ disk'[s] = Missing
         /\ \A u \in Slots \ {s, t} : disk'[u] = disk[u]
BY PlainFiles DEF TypeOK, Move

LEMMA SameFiles ==
  ASSUME GenerationsInv, disk' = disk
  PROVE  /\ NeverCollides' /\ (returned' = returned => ReturnedSurvives')
BY DEF GenerationsInv, NeverCollides, Collision, ReturnedSurvives

LEMMA StartInv ==
  ASSUME GenerationsInv, NEW content \in Contents \cup {NoContent}, Start(content)
  PROVE  GenerationsInv'
<1>1. TypeOK'
  BY DEF GenerationsInv, TypeOK, Start, Steps
<1>2. NeverCollides' /\ ReturnedSurvives'
  BY SameFiles DEF Start
<1>3. PlacingOK' /\ CommittingOK' /\ pc' = "inspect"
  BY DEF Start, PlacingOK, CommittingOK
<1> QED BY <1>1, <1>2, <1>3 DEF GenerationsInv

LEMMA InspectInv ==
  ASSUME GenerationsInv, Inspect
  PROVE  GenerationsInv'
<1>1. /\ Newest(disk) \in File /\ Newest(disk).gen \in Nat /\ Newest(disk).gen > 0
      /\ \A s \in Slots : disk[s].gen <= Newest(disk).gen
      /\ disk[NewestSlot(disk)] = Newest(disk) /\ NewestSlot(disk) \in Slots
  BY NewestFacts, FileFacts DEF GenerationsInv, TypeOK, Inspect
<1>2. TypeOK'
  <2>1. pc' \in {"discard", "write", "vacate"}
    BY DEF Inspect
  <2>2. shelving' \in BOOLEAN
    BY DEF Inspect, PrimaryIsPrior
  <2> QED BY <1>1, <2>1, <2>2 DEF GenerationsInv, TypeOK, Inspect, Steps
<1>3. NeverCollides' /\ ReturnedSurvives'
  BY SameFiles DEF Inspect
<1>4. PlacingOK'
  BY <1>1 DEF PlacingOK, Inspect, Slots
<1>5. ~committing'
  BY DEF GenerationsInv, TypeOK, CommittingOK, Inspect
<1>6. pc' # "shelve"
  BY DEF Inspect
<1> QED BY <1>2, <1>3, <1>4, <1>5, <1>6 DEF GenerationsInv, CommittingOK

LEMMA InspectNothingInv ==
  ASSUME GenerationsInv, InspectNothing
  PROVE  GenerationsInv'
<1>1. disk' = disk /\ \A s \in Slots : disk[s] = Missing /\ disk[s].gen = 0
  BY PlainFiles DEF InspectNothing
<1>2. CASE request = NoContent
  <2>1. Finish(Missing)
    BY <1>2 DEF InspectNothing
  <2>2. TypeOK' /\ pc' = "idle"
    BY <1>1, <2>1, PlainFiles DEF GenerationsInv, TypeOK, Finish, Steps
  <2>3. NeverCollides'
    BY <1>1, SameFiles
  <2>4. Newest(disk') = Missing
    BY <1>1, <2>2, NewestFacts DEF TypeOK, Newest
  <2>5. ReturnedSurvives'
    BY <2>1, <2>2, <2>3, <2>4, ReturningTheNewest DEF Finish
  <2> QED BY <2>2, <2>3, <2>5 DEF GenerationsInv, PlacingOK, CommittingOK
<1>3. CASE request # NoContent
  <2>1. Commit(0) /\ request \in Contents
    BY <1>3 DEF InspectNothing, GenerationsInv, TypeOK
  <2>2. placing' = [gen |-> 1, content |-> request] /\ 1 <= MaxGeneration
    BY <2>1, GenerationsAssumption DEF GenerationsAssumption, Commit
  <2>3. placing' \in File
    BY <2>1, <2>2, GenerationsAssumption DEF GenerationsAssumption, File
  <2>4. TypeOK'
    BY <1>1, <2>1, <2>3 DEF GenerationsInv, TypeOK, Commit, Steps
  <2>5. NeverCollides' /\ ReturnedSurvives'
    BY <1>1, <2>1, SameFiles DEF Commit
  <2>6. PlacingOK' /\ CommittingOK' /\ pc' = "write"
    BY <1>1, <2>1, <2>2 DEF PlacingOK, CommittingOK, Commit, Slots
  <2> QED BY <2>4, <2>5, <2>6 DEF GenerationsInv
<1> QED BY <1>2, <1>3

\* Steps that only move on to the next call.
LEMMA GoToType ==
  ASSUME GenerationsInv, disk' \in [Slots -> File], NEW step \in Steps, GoTo(step)
  PROVE  TypeOK' /\ pc' = step /\ returned' = returned
BY DEF GenerationsInv, TypeOK, GoTo

LEMMA DiscardTempInv ==
  ASSUME GenerationsInv, DiscardTemp
  PROVE  GenerationsInv'
<1>1. pc = "discard" /\ Store("temp", Missing) /\ GoTo("erase")
  BY DEF DiscardTemp
<1>2. /\ disk' \in [Slots -> File] /\ disk'["temp"] = Missing
      /\ disk'["primary"] = disk["primary"] /\ disk'["backup"] = disk["backup"]
  BY <1>1, PlainFiles, StoreType DEF GenerationsInv, Slots
<1>3. TypeOK' /\ pc' = "erase" /\ returned' = returned
  BY <1>1, <1>2, GoToType DEF Steps
<1>4. disk["primary"] = placing /\ Newest(disk) = placing
  BY <1>1, PlacedIsNewest DEF GenerationsInv, PlacingOK, Slots
<1>5. Shrinks
  BY <1>2, <1>4, PlainFiles DEF Shrinks, Slots
<1>6. NeverCollides' /\ ReturnedSurvives'
  BY <1>3, <1>5, ShrinkingIsSafe DEF GenerationsInv
<1>7. PlacingOK' /\ CommittingOK'
  <2>1. PlacingOK'
    BY <1>1, <1>2, <1>3, PlainFiles, Numbers DEF GenerationsInv, PlacingOK, GoTo, Slots
  <2>2. CommittingOK'
    BY <1>1, <1>2, <1>3, PlainFiles, Numbers DEF GenerationsInv, CommittingOK, GoTo, Slots, Steps
  <2> QED BY <2>1, <2>2
<1> QED BY <1>3, <1>6, <1>7 DEF GenerationsInv

LEMMA VacateInv ==
  ASSUME GenerationsInv, Vacate
  PROVE  GenerationsInv'
<1>1. pc = "vacate" /\ disk["temp"] = placing /\ Newest(disk) = placing
  BY PlacedIsNewest DEF GenerationsInv, Vacate, PlacingOK, Slots
<1>2. CASE shelving
  <2>1. Store("backup", Missing) /\ GoTo("shelve")
    BY <1>2 DEF Vacate
  <2>2. /\ disk' \in [Slots -> File] /\ disk'["backup"] = Missing
        /\ disk'["primary"] = disk["primary"] /\ disk'["temp"] = disk["temp"]
    BY <2>1, PlainFiles, StoreType DEF GenerationsInv, Slots
  <2>3. TypeOK' /\ pc' = "shelve" /\ returned' = returned /\ shelving'
    BY <1>2, <2>1, <2>2, GoToType DEF Steps, GoTo
  <2>4. Shrinks
    BY <1>1, <2>2, PlainFiles DEF Shrinks, Slots
  <2>5. NeverCollides' /\ ReturnedSurvives'
    BY <2>3, <2>4, ShrinkingIsSafe DEF GenerationsInv
  <2>6. PlacingOK' /\ CommittingOK'
    <3>1. PlacingOK'
      BY <1>1, <2>1, <2>2, <2>3, PlainFiles, Numbers DEF GenerationsInv, PlacingOK, GoTo, Slots
    <3>2. CommittingOK'
      BY <1>1, <2>1, <2>2, <2>3, PlainFiles, Numbers DEF GenerationsInv, CommittingOK, GoTo, Slots, Steps
    <3> QED BY <3>1, <3>2
  <2> QED BY <2>3, <2>5, <2>6 DEF GenerationsInv
<1>3. CASE ~shelving
  <2>1. Store("primary", Missing) /\ GoTo("promote")
    BY <1>3 DEF Vacate
  <2>2. /\ disk' \in [Slots -> File] /\ disk'["primary"] = Missing
        /\ disk'["backup"] = disk["backup"] /\ disk'["temp"] = disk["temp"]
    BY <2>1, PlainFiles, StoreType DEF GenerationsInv, Slots
  <2>3. TypeOK' /\ pc' = "promote" /\ returned' = returned
    BY <2>1, <2>2, GoToType DEF Steps
  <2>4. Shrinks
    BY <1>1, <2>2, PlainFiles DEF Shrinks, Slots
  <2>5. NeverCollides' /\ ReturnedSurvives'
    BY <2>3, <2>4, ShrinkingIsSafe DEF GenerationsInv
  <2>6. PlacingOK' /\ CommittingOK'
    <3>1. PlacingOK'
      BY <1>1, <1>3, <2>1, <2>2, <2>3, PlainFiles, Numbers DEF GenerationsInv, PlacingOK, GoTo, Slots
    <3>2. CommittingOK'
      BY <1>1, <1>3, <2>1, <2>2, <2>3, PlainFiles, Numbers DEF GenerationsInv, CommittingOK, GoTo, Slots, Steps
    <3> QED BY <3>1, <3>2
  <2> QED BY <2>3, <2>5, <2>6 DEF GenerationsInv
<1> QED BY <1>2, <1>3

LEMMA ShelveInv ==
  ASSUME GenerationsInv, Shelve
  PROVE  GenerationsInv'
<1>1. pc = "shelve" /\ disk["temp"] = placing /\ Newest(disk) = placing
  BY PlacedIsNewest DEF GenerationsInv, Shelve, PlacingOK, Slots
<1>2. Move("primary", "backup") /\ GoTo("promote")
  BY DEF Shelve
<1>3. /\ disk' \in [Slots -> File] /\ disk'["primary"] = Missing
      /\ disk'["backup"] = disk["primary"] /\ disk'["temp"] = disk["temp"]
  BY <1>2, MoveType DEF GenerationsInv, Slots
<1>4. TypeOK' /\ pc' = "promote" /\ returned' = returned
  BY <1>2, <1>3, GoToType DEF Steps
<1>5. Shrinks
  BY <1>1, <1>3, PlainFiles DEF Shrinks, Slots
<1>6. NeverCollides' /\ ReturnedSurvives'
  BY <1>4, <1>5, ShrinkingIsSafe DEF GenerationsInv
<1>7. PlacingOK' /\ CommittingOK'
  <2>1. PlacingOK'
    BY <1>1, <1>2, <1>3, <1>4, PlainFiles, Numbers DEF GenerationsInv, PlacingOK, GoTo, Slots
  <2>2. CommittingOK'
    BY <1>1, <1>2, <1>3, <1>4, PlainFiles, Numbers DEF GenerationsInv, CommittingOK, GoTo, Slots, Steps
  <2> QED BY <2>1, <2>2
<1> QED BY <1>4, <1>6, <1>7 DEF GenerationsInv

LEMMA PromoteInv ==
  ASSUME GenerationsInv, Promote
  PROVE  GenerationsInv'
<1>1. pc = "promote" /\ disk["temp"] = placing /\ Newest(disk) = placing
  BY PlacedIsNewest DEF GenerationsInv, Promote, PlacingOK, Slots
<1>2. Move("temp", "primary") /\ GoTo("erase")
  BY DEF Promote
<1>3. /\ disk' \in [Slots -> File] /\ disk'["temp"] = Missing
      /\ disk'["primary"] = disk["temp"] /\ disk'["backup"] = disk["backup"]
  BY <1>2, MoveType DEF GenerationsInv, Slots
<1>4. TypeOK' /\ pc' = "erase" /\ returned' = returned
  BY <1>2, <1>3, GoToType DEF Steps
<1>5. Shrinks
  BY <1>1, <1>3, PlainFiles DEF Shrinks, Slots
<1>6. NeverCollides' /\ ReturnedSurvives'
  BY <1>4, <1>5, ShrinkingIsSafe DEF GenerationsInv
<1>7. PlacingOK' /\ CommittingOK'
  <2>1. PlacingOK'
    BY <1>1, <1>2, <1>3, <1>4, PlainFiles, Numbers DEF GenerationsInv, PlacingOK, GoTo, Slots
  <2>2. CommittingOK'
    BY <1>1, <1>2, <1>3, <1>4, PlainFiles, Numbers DEF GenerationsInv, CommittingOK, GoTo, Slots, Steps
  <2> QED BY <2>1, <2>2
<1> QED BY <1>4, <1>6, <1>7 DEF GenerationsInv

\* The temp file of a recovery is one more copy of the newest file; that of a
\* commit is newer than every file.
LEMMA WriteTempInv ==
  ASSUME GenerationsInv, WriteTemp
  PROVE  GenerationsInv'
<1>1. pc = "write" /\ Store("temp", placing) /\ GoTo("vacate") /\ placing \in File
  BY DEF WriteTemp, GenerationsInv, TypeOK
<1>2. /\ disk' \in [Slots -> File] /\ disk'["temp"] = placing
      /\ disk'["primary"] = disk["primary"] /\ disk'["backup"] = disk["backup"]
  BY <1>1, StoreType DEF GenerationsInv, Slots
<1>3. TypeOK' /\ pc' = "vacate" /\ returned' = returned
  BY <1>1, <1>2, GoToType DEF Steps
<1>4. placing.gen > 0 /\ placing.gen \in Nat /\ \A s \in Slots : disk[s].gen <= placing.gen /\ disk[s].gen \in Nat
  BY <1>1, Numbers DEF GenerationsInv, PlacingOK
<1>5. ASSUME ~committing PROVE NeverCollides' /\ ReturnedSurvives'
  <2>1. disk["backup"] = placing /\ Newest(disk) = placing
    BY <1>1, <1>5, PlacedIsNewest DEF GenerationsInv, PlacingOK, Slots
  <2>2. Shrinks
    BY <1>2, <2>1, PlainFiles DEF Shrinks, Slots
  <2> QED BY <1>3, <2>2, ShrinkingIsSafe DEF GenerationsInv
<1>6. ASSUME committing PROVE NeverCollides' /\ ReturnedSurvives'
  <2>1. disk["primary"].gen < placing.gen /\ disk["backup"].gen < placing.gen
    BY <1>1, <1>4, <1>6 DEF GenerationsInv, CommittingOK, Steps, Slots
  <2>2. Newest(disk).gen < placing.gen /\ Newest(disk).gen \in Nat
    <3>1. disk["temp"].gen = 0
      BY <1>1, <1>6, PlainFiles DEF GenerationsInv, CommittingOK, Steps
    <3>2. \A s \in Slots : disk[s].gen < placing.gen
      BY <1>4, <2>1, <3>1 DEF Slots
    <3> QED BY <1>4, <3>2, NewestFacts, Numbers DEF GenerationsInv, TypeOK
  <2>3. NeverCollides'
    BY <1>2, <1>4, <2>1 DEF GenerationsInv, NeverCollides, Collision, Slots
  <2>4. Newest(disk') = placing
    BY <1>2, <1>4, <2>1, NewestIs DEF Slots
  <2>5. returned.gen < placing.gen /\ returned.gen \in Nat
    BY <2>2, <1>4, Numbers DEF GenerationsInv, ReturnedSurvives
  <2>6. ASSUME NEW s \in Slots, disk'[s].gen = returned'.gen, returned'.gen > 0 PROVE disk'[s] = returned'
    BY <1>2, <1>3, <2>5, <2>6 DEF GenerationsInv, ReturnedSurvives, Slots
  <2> QED BY <1>3, <1>4, <2>3, <2>4, <2>5, <2>6 DEF ReturnedSurvives
<1>7. PlacingOK'
  BY <1>1, <1>2, <1>3, <1>4 DEF GenerationsInv, PlacingOK, GoTo, Slots
<1>8. CommittingOK'
  BY <1>1, <1>2, <1>3, <1>4 DEF GenerationsInv, CommittingOK, GoTo, Slots, Steps
<1> QED BY <1>3, <1>5, <1>6, <1>7, <1>8 DEF GenerationsInv

\* The files once the older ones of a tombstone are erased.
LEMMA Erased ==
  ASSUME GenerationsInv, pc = "erase", EraseOlder
  PROVE  /\ disk' \in [Slots -> File] /\ Newest(disk') = placing /\ NeverCollides'
         /\ disk'["primary"] = placing /\ disk'["temp"] = Missing
         /\ (placing.content = Tombstone => disk'["backup"] = Missing)
         /\ (placing.content # Tombstone => disk'["backup"] = disk["backup"])
         /\ \A s \in Slots : disk'[s].gen \in Nat /\ disk'[s].gen <= placing.gen
         /\ placing \in File /\ placing.gen \in Nat /\ placing.gen > 0
<1>1. disk["primary"] = placing /\ disk["temp"] = Missing /\ Newest(disk) = placing
  BY PlacedIsNewest DEF GenerationsInv, PlacingOK, Slots
<1>2. /\ disk' \in [Slots -> File]
      /\ disk'["primary"] = placing /\ disk'["temp"] = Missing
      /\ (placing.content = Tombstone => disk'["backup"] = Missing)
      /\ (placing.content # Tombstone => disk'["backup"] = disk["backup"])
  <2>1. CASE placing.content = Tombstone
    BY <1>1, <2>1, PlainFiles, StoreType DEF EraseOlder, GenerationsInv, Slots
  <2>2. CASE placing.content # Tombstone
    BY <1>1, <2>2 DEF EraseOlder, GenerationsInv, TypeOK
  <2> QED BY <2>1, <2>2
<1>3. Shrinks
  BY <1>1, <1>2, PlainFiles DEF Shrinks, Slots
<1>4. NeverCollides' /\ Newest(disk') = placing
  BY <1>1, <1>3, ShrinkingIsSafe DEF GenerationsInv
<1>5. placing \in File /\ placing.gen \in Nat /\ placing.gen > 0
  BY Numbers DEF GenerationsInv, TypeOK, PlacingOK
<1>6. \A s \in Slots : disk'[s].gen \in Nat /\ disk'[s].gen <= placing.gen
  BY <1>2, <1>4, NewestFacts, FileFacts
<1> QED BY <1>2, <1>4, <1>5, <1>6

LEMMA SettleInv ==
  ASSUME GenerationsInv, Settle
  PROVE  GenerationsInv'
<1>1. pc = "erase" /\ EraseOlder
  BY DEF Settle
<1>2. CASE committing \/ request \in {NoContent, placing.content}
  <2>1. Finish(placing)
    BY <1>2 DEF Settle
  <2>2. TypeOK' /\ pc' = "idle"
    BY <1>1, <2>1, Erased DEF GenerationsInv, TypeOK, Finish, Steps
  <2>3. ReturnedSurvives'
    BY <1>1, <2>1, <2>2, Erased, ReturningTheNewest DEF Finish
  <2> QED BY <1>1, <2>2, <2>3, Erased DEF GenerationsInv, PlacingOK, CommittingOK
<1>3. CASE ~(committing \/ request \in {NoContent, placing.content})
  <2>1. Commit(placing.gen) /\ request \in Contents
    BY <1>3 DEF Settle, GenerationsInv, TypeOK
  <2>2. placing' = [gen |-> placing.gen + 1, content |-> request] /\ placing.gen < MaxGeneration
    BY <2>1 DEF Commit
  <2>3. placing' \in File
    BY <1>1, <2>1, <2>2, Erased, GenerationsAssumption DEF GenerationsAssumption, File
  <2>4. TypeOK' /\ pc' = "write" /\ returned' = returned /\ committing'
    BY <1>1, <2>1, <2>3, Erased DEF GenerationsInv, TypeOK, Commit, Steps
  <2>5. ReturnedSurvives'
    <3>1. Newest(disk) = placing
      BY <1>1, PlacedIsNewest DEF GenerationsInv, PlacingOK, Slots
    <3>2. Shrinks
      BY <1>1, <3>1, Erased, PlainFiles DEF Shrinks, Slots, GenerationsInv, PlacingOK
    <3> QED BY <2>4, <3>2, ShrinkingIsSafe DEF GenerationsInv
  <2>6. PlacingOK'
    BY <1>1, <2>2, <2>4, Erased DEF PlacingOK, Slots
  <2>7. CommittingOK'
    BY <1>1, <2>1, <2>2, <2>4, Erased DEF CommittingOK, Commit, Slots
  <2> QED BY <1>1, <2>4, <2>5, <2>6, <2>7, Erased DEF GenerationsInv
<1> QED BY <1>2, <1>3

LEMMA RereadInv ==
  ASSUME GenerationsInv, Reread
  PROVE  GenerationsInv'
<1>1. disk' = disk /\ Finish(Newest(disk))
  BY DEF Reread
<1>2. TypeOK' /\ pc' = "idle"
  BY <1>1, NewestFacts DEF GenerationsInv, TypeOK, Finish, Steps
<1>3. NeverCollides'
  BY <1>1, SameFiles
<1>4. ReturnedSurvives'
  BY <1>1, <1>2, <1>3, ReturningTheNewest DEF Finish
<1> QED BY <1>2, <1>3, <1>4 DEF GenerationsInv, PlacingOK, CommittingOK

\* A call that stops half-way never touches the only copy of the newest file.
LEMMA HalfDoneShrinks ==
  ASSUME GenerationsInv, HalfDone
  PROVE  Shrinks
<1>1. CASE pc = "write"
  <2>1. /\ disk' \in [Slots -> File] /\ disk'["temp"] = Damaged
        /\ disk'["primary"] = disk["primary"] /\ disk'["backup"] = disk["backup"]
    BY <1>1, PlainFiles, StoreType DEF HalfDone, GenerationsInv, Slots
  <2>2. CASE ~committing
    <3>1. disk["backup"] = placing /\ Newest(disk) = placing
      BY <1>1, <2>2, PlacedIsNewest DEF GenerationsInv, PlacingOK, Slots
    <3> QED BY <2>1, <3>1, PlainFiles DEF Shrinks, Slots
  <2>3. CASE committing
    <3>1. disk["temp"] = Missing
      BY <1>1, <2>3 DEF GenerationsInv, CommittingOK, Steps
    <3>2. Newest(disk) = Missing \/ Newest(disk) \in {disk["primary"], disk["backup"]}
      <4>1. ASSUME Newest(disk) # Missing PROVE NewestSlot(disk) \in Slots \ {"temp"}
        BY <3>1, <4>1, PlainFiles, NewestFacts DEF GenerationsInv, TypeOK, Newest
      <4> QED BY <4>1, NewestFacts DEF GenerationsInv, TypeOK, Newest, Slots
    <3> QED BY <2>1, <3>2, PlainFiles DEF Shrinks, Slots
  <2> QED BY <2>2, <2>3
<1>2. CASE pc = "shelve"
  <2>1. disk["temp"] = placing /\ Newest(disk) = placing
    BY <1>2, PlacedIsNewest DEF GenerationsInv, PlacingOK, Slots
  <2>2. PICK copy \in {Damaged, disk["primary"]} : Store("backup", copy)
    BY <1>2 DEF HalfDone
  <2>3. copy \in File
    BY PlainFiles DEF GenerationsInv, TypeOK, Slots
  <2>4. /\ disk' \in [Slots -> File] /\ disk'["backup"] = copy
        /\ disk'["primary"] = disk["primary"] /\ disk'["temp"] = disk["temp"]
    BY <2>2, <2>3, StoreType DEF GenerationsInv, Slots
  <2> QED BY <2>1, <2>2, <2>4, PlainFiles DEF Shrinks, Slots
<1>3. CASE pc = "promote"
  <2>1. disk["temp"] = placing /\ Newest(disk) = placing
    BY <1>3, PlacedIsNewest DEF GenerationsInv, PlacingOK, Slots
  <2>2. PICK copy \in {Damaged, disk["temp"]} : Store("primary", copy)
    BY <1>3 DEF HalfDone
  <2>3. copy \in File
    BY PlainFiles DEF GenerationsInv, TypeOK, Slots
  <2>4. /\ disk' \in [Slots -> File] /\ disk'["primary"] = copy
        /\ disk'["backup"] = disk["backup"] /\ disk'["temp"] = disk["temp"]
    BY <2>2, <2>3, StoreType DEF GenerationsInv, Slots
  <2> QED BY <2>1, <2>2, <2>4, PlainFiles DEF Shrinks, Slots
<1> QED BY <1>1, <1>2, <1>3 DEF HalfDone

LEMMA UnchangedShrinks == TypeOK /\ UNCHANGED disk => Shrinks
BY NewestFacts DEF TypeOK, Shrinks, Newest

\* Whether a call throws or the process dies at it.
LEMMA StopInv ==
  ASSUME GenerationsInv, UNCHANGED disk \/ HalfDone,
         NEW step \in {"idle", "reread"}, GoTo(step)
  PROVE  GenerationsInv' /\ Shrinks /\ returned' = returned
<1>1. Shrinks
  BY HalfDoneShrinks, UnchangedShrinks DEF GenerationsInv
<1>2. TypeOK' /\ pc' = step /\ returned' = returned
  BY <1>1, GoToType DEF Shrinks, Steps
<1>3. NeverCollides' /\ ReturnedSurvives'
  BY <1>1, <1>2, ShrinkingIsSafe DEF GenerationsInv
<1> QED BY <1>1, <1>2, <1>3 DEF GenerationsInv, PlacingOK, CommittingOK

LEMMA LoseInv ==
  ASSUME GenerationsInv, NEW s \in Slots, Lose(s)
  PROVE  GenerationsInv'
<1>1. /\ disk' \in [Slots -> File] /\ disk'[s] = Damaged /\ disk'[s].gen = 0
      /\ \A t \in Slots \ {s} : disk'[t] = disk[t]
  BY PlainFiles, StoreType DEF GenerationsInv, Lose
<1>2. Newest(disk') \in File /\ Newest(disk').gen \in Nat /\ returned.gen \in Nat
  BY <1>1, NewestFacts, FileFacts, Numbers DEF GenerationsInv
<1>3. TypeOK' /\ pc' = "idle"
  <2>1. losses' \in 0..MaxLosses
    BY GenerationsAssumption DEF GenerationsAssumption, GenerationsInv, TypeOK, Lose
  <2>2. returned' \in File
    BY <1>2 DEF Lose, GenerationsInv, TypeOK
  <2> QED BY <1>1, <2>1, <2>2 DEF GenerationsInv, TypeOK, Lose, operation
<1>4. NeverCollides'
  BY <1>1 DEF GenerationsInv, NeverCollides, Collision
<1>5. ReturnedSurvives'
  <2>1. CASE returned.gen <= Newest(disk').gen
    <3>1. returned' = returned
      BY <2>1 DEF Lose
    <3>2. ASSUME NEW t \in Slots, disk'[t].gen = returned'.gen, returned'.gen > 0
          PROVE  disk'[t] = returned'
      BY <1>1, <3>1, <3>2 DEF GenerationsInv, ReturnedSurvives
    <3> QED BY <2>1, <3>1, <3>2 DEF ReturnedSurvives
  <2>2. CASE ~(returned.gen <= Newest(disk').gen)
    BY <1>3, <1>4, <2>2, ReturningTheNewest DEF Lose
  <2> QED BY <2>1, <2>2
<1> QED BY <1>3, <1>4, <1>5 DEF GenerationsInv, PlacingOK, CommittingOK

LEMMA InvStep == GenerationsInv /\ [Next]_vars => GenerationsInv'
<1> SUFFICES ASSUME GenerationsInv, [Next]_vars PROVE GenerationsInv'
  OBVIOUS
<1>1. CASE UNCHANGED vars
  BY <1>1 DEF vars, operation, GenerationsInv, TypeOK, NeverCollides, Collision,
     ReturnedSurvives, PlacingOK, CommittingOK
<1>2. ASSUME NEW content \in Contents \cup {NoContent}, Start(content) PROVE GenerationsInv'
  BY <1>2, StartInv
<1>3. CASE Inspect \/ InspectNothing \/ DiscardTemp \/ WriteTemp
  BY <1>3, InspectInv, InspectNothingInv, DiscardTempInv, WriteTempInv
<1>4. CASE Vacate \/ Shelve \/ Promote
  BY <1>4, VacateInv, ShelveInv, PromoteInv
<1>5. CASE Settle \/ Reread
  BY <1>5, SettleInv, RereadInv
<1>6. CASE Fail \/ Crash
  BY <1>6, StopInv DEF Fail, Crash, AfterFailure
<1>7. ASSUME NEW s \in Slots, Lose(s) PROVE GenerationsInv'
  BY <1>7, LoseInv
<1> QED BY <1>1, <1>2, <1>3, <1>4, <1>5, <1>6, <1>7 DEF Next

\* The invariant of the generation files: at every call, whatever failed before,
\* for any payloads and any number of generations and damaged files.
THEOREM GenerationsInvariance == Spec => []GenerationsInv
BY InvInit, InvStep, PTL DEF Spec

\* Every file is a generation, damaged or missing.
THEOREM GenerationsTypeCorrectness == Spec => []TypeOK
<1>1. GenerationsInv => TypeOK
  BY DEF GenerationsInv
<1> QED BY <1>1, GenerationsInvariance, PTL

\* The operations themselves never bring a key into the collision that makes it
\* unreadable.
THEOREM NumbersAreUnambiguous == Spec => []NeverCollides
<1>1. GenerationsInv => NeverCollides
  BY DEF GenerationsInv
<1> QED BY <1>1, GenerationsInvariance, PTL

\* What an operation returned stays on disk until something newer is.
THEOREM Durability == Spec => []ReturnedSurvives
<1>1. GenerationsInv => ReturnedSurvives
  BY DEF GenerationsInv
<1> QED BY <1>1, GenerationsInvariance, PTL

(***************************************************************************)
(* What an operation leaves behind when it returns.                        *)
(***************************************************************************)
LEMMA ErasePlaced ==
  ASSUME GenerationsInv, [Next]_vars, pc = "erase", pc' = "idle"
  PROVE  \/ Settle /\ Finish(placing)
         \/ disk' = disk /\ returned' = returned
<1>1. CASE UNCHANGED vars
  BY <1>1 DEF vars
<1>2. ASSUME NEW content \in Contents \cup {NoContent}, Start(content) PROVE FALSE
  BY <1>2 DEF Start
<1>3. CASE Inspect \/ InspectNothing \/ DiscardTemp \/ WriteTemp \/ Vacate \/ Shelve \/ Promote \/ Reread
  BY <1>3 DEF Inspect, InspectNothing, DiscardTemp, WriteTemp, Vacate, Shelve, Promote, Reread
<1>4. CASE Settle
  BY <1>4 DEF Settle, Commit
<1>5. CASE Fail \/ Crash
  BY <1>5 DEF Fail, Crash, HalfDone, GoTo
<1>6. ASSUME NEW s \in Slots, Lose(s) PROVE FALSE
  BY <1>6 DEF Lose
<1> QED BY <1>1, <1>2, <1>3, <1>4, <1>5, <1>6 DEF Next

\* A successful replacement leaves its predecessor in the backup slot.
THEOREM PriorIsKept == Spec => CommitKeepsPrior
<1> DEFINE Kept == committing /\ pc = "erase" /\ pc' = "idle" /\ returned' = placing =>
                     /\ disk'["primary"] = placing
                     /\ placing.gen > 1 /\ placing.content # Tombstone =>
                          disk'["backup"].gen = placing.gen - 1
<1>1. GenerationsInv /\ [Next]_vars => Kept
  <2> SUFFICES ASSUME GenerationsInv, [Next]_vars, committing, pc = "erase", pc' = "idle"
               PROVE  /\ disk'["primary"] = placing
                      /\ placing.gen > 1 /\ placing.content # Tombstone =>
                           disk'["backup"].gen = placing.gen - 1
    OBVIOUS
  <2>1. disk["primary"] = placing
    BY DEF GenerationsInv, PlacingOK
  <2>2. placing.gen > 1 /\ placing.content # Tombstone => disk["backup"].gen = placing.gen - 1
    BY DEF GenerationsInv, CommittingOK, Steps
  <2>3. CASE Settle
    BY <2>2, <2>3, Erased DEF Settle
  <2> QED BY <2>1, <2>2, <2>3, ErasePlaced
<1> QED BY <1>1, GenerationsInvariance, PTL DEF Spec, CommitKeepsPrior

\* A removal that returns leaves no payload in any slot.
THEOREM RemovalIsComplete == Spec => RemovalErases
<1> DEFINE Gone == pc = "erase" /\ pc' = "idle" /\ returned' # returned
                     /\ returned'.content = Tombstone =>
                   \A s \in Slots : disk'[s].content \notin Payloads
<1>1. GenerationsInv /\ [Next]_vars => Gone
  <2> SUFFICES ASSUME GenerationsInv, [Next]_vars, pc = "erase", pc' = "idle",
                      returned' # returned, returned'.content = Tombstone
               PROVE  \A s \in Slots : disk'[s].content \notin Payloads
    OBVIOUS
  <2>1. EraseOlder /\ returned' = placing
    BY ErasePlaced DEF Settle, Finish
  <2>2. disk'["primary"] = placing /\ disk'["temp"] = Missing /\ disk'["backup"] = Missing
    BY <2>1, Erased
  <2>3. Tombstone \notin Payloads /\ Missing.content \notin Payloads
    BY GenerationsAssumption DEF GenerationsAssumption, Missing
  <2> QED BY <2>1, <2>2, <2>3 DEF Slots
<1> QED BY <1>1, GenerationsInvariance, PTL DEF Spec, RemovalErases

(***************************************************************************)
(* The files implement the register.                                       *)
(***************************************************************************)
RegisterStep == [Register!Next]_(Register!vars)

LEMMA Stuttering ==
  ASSUME GenerationsInv, Shrinks, returned' = returned
  PROVE  RegisterStep
BY ShrinkingIsSafe DEF GenerationsInv, RegisterStep, Register!vars

LEMMA Quiet ==
  ASSUME GenerationsInv, disk' = disk, returned' = returned
  PROVE  RegisterStep
BY Stuttering, UnchangedShrinks DEF GenerationsInv

LEMMA Returning ==
  ASSUME Newest(disk') = Newest(disk), returned' = Newest(disk)
  PROVE  RegisterStep
BY DEF RegisterStep, Register!Next, Register!Return

LEMMA WriteTempStep ==
  ASSUME GenerationsInv, WriteTemp
  PROVE  RegisterStep
<1>1. pc = "write" /\ Store("temp", placing) /\ GoTo("vacate") /\ placing \in File
  BY DEF WriteTemp, GenerationsInv, TypeOK
<1>2. /\ disk' \in [Slots -> File] /\ disk'["temp"] = placing /\ returned' = returned
      /\ disk'["primary"] = disk["primary"] /\ disk'["backup"] = disk["backup"]
  BY <1>1, StoreType DEF GenerationsInv, Slots, GoTo
<1>3. CASE ~committing
  <2>1. disk["backup"] = placing /\ Newest(disk) = placing
    BY <1>1, <1>3, PlacedIsNewest DEF GenerationsInv, PlacingOK, Slots
  <2>2. Shrinks
    BY <1>2, <2>1, PlainFiles DEF Shrinks, Slots
  <2> QED BY <1>2, <2>2, Stuttering
<1>4. CASE committing
  <2>1. /\ placing.content = request /\ request \in Contents
        /\ disk["temp"].gen = 0 /\ disk["backup"].gen < placing.gen
        /\ disk["primary"].gen = placing.gen - 1
    BY <1>1, <1>4, PlainFiles DEF GenerationsInv, CommittingOK, Steps
  <2>2. placing.gen \in Nat /\ placing.gen > 0 /\ \A s \in Slots : disk[s].gen \in Nat
    BY <1>1, Numbers DEF GenerationsInv, PlacingOK
  <2>3. Newest(disk).gen = placing.gen - 1
    <3>1. \A s \in Slots : disk[s].gen <= placing.gen - 1
      BY <2>1, <2>2 DEF Slots
    <3>2. disk["primary"].gen <= Newest(disk).gen /\ Newest(disk).gen \in Nat
      BY NewestFacts, Numbers DEF GenerationsInv, TypeOK, Slots
    <3>3. Newest(disk).gen <= placing.gen - 1
      BY <2>2, <3>1, <3>2, NewestFacts DEF GenerationsInv, TypeOK
    <3> QED BY <2>1, <2>2, <3>2, <3>3
  <2>4. Newest(disk') = placing
    BY <1>2, <2>1, <2>2, NewestIs DEF Slots
  <2>5. placing = [gen |-> placing.gen, content |-> request]
    BY <1>1, <2>1, <2>2, PlainFiles DEF File
  <2>6. placing = [gen |-> Newest(disk).gen + 1, content |-> request]
    BY <2>2, <2>3, <2>5
  <2>7. Register!Replace(request)
    BY <1>2, <2>4, <2>6 DEF Register!Replace
  <2> QED BY <2>1, <2>7 DEF RegisterStep, Register!Next, Contents
<1> QED BY <1>3, <1>4

LEMMA SettleStep ==
  ASSUME GenerationsInv, Settle
  PROVE  RegisterStep
<1>1. pc = "erase" /\ EraseOlder /\ Newest(disk) = placing
  BY PlacedIsNewest DEF Settle, GenerationsInv, PlacingOK, Slots
<1>2. Newest(disk') = Newest(disk)
  BY <1>1, Erased
<1>3. returned' \in {returned, placing}
  BY DEF Settle, Finish, Commit
<1>4. CASE returned' = placing
  BY <1>1, <1>2, <1>4, Returning
<1>5. CASE returned' = returned
  BY <1>2, <1>5 DEF RegisterStep, Register!vars
<1> QED BY <1>3, <1>4, <1>5

LEMMA LoseStep ==
  ASSUME GenerationsInv, NEW s \in Slots, Lose(s)
  PROVE  RegisterStep
<1>1. /\ disk' \in [Slots -> File] /\ disk'[s].gen = 0 /\ disk[s].gen > 0
      /\ \A t \in Slots \ {s} : disk'[t] = disk[t]
  BY PlainFiles, StoreType DEF GenerationsInv, Lose
<1>2. /\ Newest(disk).gen \in Nat /\ Newest(disk').gen \in Nat /\ returned.gen \in Nat
      /\ \A t \in Slots : disk[t].gen \in Nat /\ disk[t].gen <= Newest(disk).gen
  BY <1>1, NewestFacts, FileFacts, Numbers DEF GenerationsInv, TypeOK
<1>3. CASE \E t \in Slots : disk'[t] = Newest(disk)
  <2>1. Shrinks
    BY <1>1, <1>3 DEF Shrinks
  <2>2. Newest(disk') = Newest(disk)
    BY <2>1, ShrinkingIsSafe DEF GenerationsInv
  <2>3. returned' = returned
    BY <2>2 DEF Lose, GenerationsInv, ReturnedSurvives
  <2> QED BY <2>2, <2>3 DEF RegisterStep, Register!vars
<1>4. CASE ~\E t \in Slots : disk'[t] = Newest(disk)
  <2>1. PICK t \in Slots : disk'[t].gen = Newest(disk').gen /\ disk'[t].gen \in Nat
    <3>1. CASE Newest(disk').gen = 0
      BY <1>1, <3>1
    <3>2. CASE Newest(disk').gen > 0
      BY <1>1, <1>2, <3>2, NewestFacts
    <3> QED BY <1>2, <3>1, <3>2
  <2>2. Newest(disk').gen < Newest(disk).gen
    <3>1. CASE t = s
      BY <1>1, <1>2, <2>1, <3>1
    <3>2. CASE t # s
      <4>1. disk[t] = disk'[t] /\ disk[t].gen <= Newest(disk).gen
        BY <1>1, <1>2, <3>2
      <4>2. ASSUME disk[t].gen = Newest(disk).gen PROVE FALSE
        <5>1. Newest(disk).gen > 0 /\ disk[NewestSlot(disk)] = Newest(disk) /\ NewestSlot(disk) \in Slots
          BY <1>1, <1>2, NewestFacts DEF GenerationsInv, TypeOK
        <5>2. disk[t].content = Newest(disk).content
          BY <4>2, <5>1 DEF GenerationsInv, NeverCollides, Collision
        <5>3. /\ disk[t] \in [gen : 1..MaxGeneration, content : Contents]
              /\ Newest(disk) \in [gen : 1..MaxGeneration, content : Contents]
          BY <4>2, <5>1, PlainFiles DEF File, GenerationsInv, TypeOK
        <5>4. disk[t] = Newest(disk)
          BY <4>2, <5>2, <5>3
        <5> QED BY <1>4, <4>1, <5>4
      <4> QED BY <1>2, <2>1, <4>1, <4>2
    <3> QED BY <3>1, <3>2
  <2>3. returned' \in {returned, Newest(disk')} /\ returned'.gen <= Newest(disk').gen
    BY <1>2 DEF Lose
  <2> QED BY <2>2, <2>3 DEF RegisterStep, Register!Next, Register!Decay
<1> QED BY <1>3, <1>4

LEMMA EveryStep == GenerationsInv /\ [Next]_vars => RegisterStep
<1> SUFFICES ASSUME GenerationsInv, [Next]_vars PROVE RegisterStep
  OBVIOUS
<1>1. CASE UNCHANGED vars
  BY <1>1, Quiet DEF vars
<1>2. ASSUME NEW content \in Contents \cup {NoContent}, Start(content) PROVE RegisterStep
  BY <1>2, Quiet DEF Start
<1>3. CASE Inspect
  BY <1>3, Quiet DEF Inspect
<1>4. CASE InspectNothing
  <2>1. disk' = disk /\ Newest(disk) = Missing
    BY <1>4, NewestFacts, PlainFiles DEF InspectNothing, GenerationsInv, TypeOK, Newest
  <2>2. returned' = returned \/ returned' = Missing
    BY <1>4 DEF InspectNothing, Finish, Commit
  <2> QED BY <2>1, <2>2, Quiet, Returning
<1>5. CASE DiscardTemp \/ Vacate \/ Shelve \/ Promote
  <2>1. returned' = returned /\ GenerationsInv'
    BY <1>5, InvStep DEF DiscardTemp, Vacate, Shelve, Promote, GoTo, Next
  <2>2. pc \in {"discard", "vacate", "shelve", "promote"} /\ placing' = placing
        /\ pc' \in {"erase", "shelve", "promote"}
    BY <1>5 DEF DiscardTemp, Vacate, Shelve, Promote, GoTo
  <2>3. Newest(disk) = placing
    BY <2>2, PlacedIsNewest DEF GenerationsInv, PlacingOK, Slots
  <2>4. Newest(disk') = placing'
    <3>1. PICK t \in Slots : disk'[t] = placing'
      BY <2>1, <2>2 DEF GenerationsInv, PlacingOK, Slots
    <3>2. disk' \in [Slots -> File] /\ placing'.gen > 0 /\ \A u \in Slots : disk'[u].gen <= placing'.gen
      BY <2>1, <2>2 DEF GenerationsInv, PlacingOK, TypeOK
    <3>3. \A u \in Slots : disk'[u].gen = placing'.gen => disk'[u] = placing'
      <4> TAKE u \in Slots
      <4> HAVE disk'[u].gen = placing'.gen
      <4>1. disk'[u].content = placing'.content
        BY <2>1, <3>1, <3>2 DEF GenerationsInv, NeverCollides, Collision
      <4>2. /\ disk'[u] \in [gen : 1..MaxGeneration, content : Contents]
            /\ placing' \in [gen : 1..MaxGeneration, content : Contents]
        BY <3>1, <3>2, PlainFiles DEF File
      <4> QED BY <4>1, <4>2
    <3> QED BY <3>1, <3>2, <3>3, NewestIs
  <2> QED BY <2>1, <2>2, <2>3, <2>4 DEF RegisterStep, Register!vars
<1>6. CASE WriteTemp
  BY <1>6, WriteTempStep
<1>7. CASE Settle
  BY <1>7, SettleStep
<1>8. CASE Reread
  BY <1>8, Returning DEF Reread, Finish
<1>9. CASE Fail \/ Crash
  BY <1>9, StopInv, Stuttering DEF Fail, Crash, AfterFailure
<1>10. ASSUME NEW s \in Slots, Lose(s) PROVE RegisterStep
  BY <1>10, LoseStep
<1> QED BY <1>1, <1>2, <1>3, <1>4, <1>5, <1>6, <1>7, <1>8, <1>9, <1>10 DEF Next

\* Commits are atomic and reads return what was committed last, whatever call fails
\* and wherever the process dies: the three files are a numbered register.
THEOREM ImplementsTheRegister == Spec => ImplementsRegister
<1>1. Init => Register!Init
  <2> SUFFICES ASSUME Init PROVE Newest(disk) = Missing /\ returned = Missing
    BY DEF Register!Init
  <2>1. disk \in [Slots -> File] /\ \A s \in Slots : disk[s].gen = 0
    BY PlainFiles DEF Init
  <2>2. NewestSlot(disk) \in Slots
    BY <2>1, NewestFacts
  <2> QED BY <2>1, <2>2 DEF Newest, Init
<1>2. GenerationsInv /\ [Next]_vars => [Register!Next]_(Register!vars)
  BY EveryStep DEF RegisterStep
<1> QED BY <1>1, <1>2, GenerationsInvariance, PTL DEF Spec, ImplementsRegister, Register!Spec

=============================================================================
