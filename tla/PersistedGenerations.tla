------------------------ MODULE PersistedGenerations ------------------------
(***************************************************************************)
(* The file generations of one storage key (persistedFileGenerations.ts):  *)
(* readLatestPersistedGeneration, commitPersistedGeneration and            *)
(* commitPersistedTombstone over the slots primary, backup and temp.       *)
(*                                                                         *)
(* generationOperations runs the operations of a key one after the other,  *)
(* so one operation is under way at a time. Each call of the file system   *)
(* is one action. Before and after each of them the process may die, and   *)
(* each may throw, having taken effect or not; a write may stop half-way,  *)
(* and so may a move that copies the file and then deletes the source.     *)
(*                                                                         *)
(* Abstractions: a file is its generation number and its content; a file   *)
(* that does not parse, or whose checksum is wrong, is Damaged; a          *)
(* tombstone is one more content. The read that validates a file just      *)
(* written is no step of its own: it can only make the operation throw.    *)
(***************************************************************************)
EXTENDS Naturals

CONSTANTS
  Payloads,        \* the values a client may persist
  Tombstone,       \* the content that says the key was removed
  NoContent,       \* the content of no file, and the request of a read
  Garbage,         \* the content of a damaged file
  MaxGeneration,   \* the largest generation number (MAX_SAFE_INTEGER)
  MaxLosses        \* bound: how many files the storage damages by itself

ASSUME GenerationsAssumption ==
  /\ MaxGeneration \in Nat
  /\ MaxLosses \in Nat
  /\ Tombstone \notin Payloads
  /\ NoContent \notin Payloads \cup {Tombstone}

VARIABLES
  disk,         \* disk[s]: the file in slot s
  losses,       \* files the storage has damaged
  \* The operation under way: lost with the process.
  pc,           \* the call it makes next
  request,      \* the content to commit
  placing,      \* the generation it brings into the primary slot
  committing,   \* whether that is the requested one, or one it recovers first
  shelving,     \* whether the primary file becomes the backup
  \* What the callers know.
  returned      \* the generation an operation returned last

operation == <<pc, request, placing, committing, shelving>>
vars      == <<disk, losses, operation, returned>>

Contents == Payloads \cup {Tombstone}
Slots    == {"primary", "backup", "temp"}

Missing == [gen |-> 0, content |-> NoContent]
Damaged == [gen |-> 0, content |-> Garbage]
File    == [gen : 1..MaxGeneration, content : Contents] \cup {Missing, Damaged}

Steps == {"idle", "inspect", "discard", "write", "vacate", "shelve", "promote", "erase", "reread"}

Init ==
  /\ disk       = [s \in Slots |-> Missing]
  /\ losses     = 0
  /\ pc         = "idle"
  /\ request    = NoContent
  /\ placing    = Missing
  /\ committing = FALSE
  /\ shelving   = FALSE
  /\ returned   = Missing

(***************************************************************************)
(* What inspectGenerations and orderedDistinctGenerations find.            *)
(***************************************************************************)
Collision ==
  \E s, t \in Slots :
    disk[s].gen = disk[t].gen /\ disk[s].gen > 0 /\ disk[s].content # disk[t].content

\* The slot the newest generation is taken from: the primary if it is there, and
\* the temp file only if no other file holds it.
NewestSlot(files) ==
  CASE \A s \in Slots : files[s].gen <= files["primary"].gen -> "primary"
    [] files["primary"].gen < files["backup"].gen /\ files["temp"].gen <= files["backup"].gen
         -> "backup"
    [] OTHER -> "temp"

Newest(files) ==
  IF files[NewestSlot(files)].gen = 0 THEN Missing ELSE files[NewestSlot(files)]

\* The primary file holds the generation right before the newest one.
PrimaryIsPrior ==
  LET newest == Newest(disk).gen IN
  /\ disk["primary"].gen \in 1..(newest - 1)
  /\ \A s \in Slots : disk[s].gen < newest => disk[s].gen <= disk["primary"].gen

(***************************************************************************)
(* The operations.                                                         *)
(***************************************************************************)
Store(s, file) == disk' = [disk EXCEPT ![s] = file]

Move(from, to) == disk' = [disk EXCEPT ![to] = disk[from], ![from] = Missing]

GoTo(step) == pc' = step /\ UNCHANGED <<losses, request, placing, committing, shelving, returned>>

Start(content) ==
  /\ pc = "idle"
  /\ pc' = "inspect"
  /\ request' = content
  /\ committing' = FALSE
  /\ UNCHANGED <<disk, losses, placing, shelving, returned>>

Finish(file) ==
  /\ pc' = "idle"
  /\ returned' = file
  /\ UNCHANGED <<losses, request, placing, committing, shelving>>

\* Mutant of Commit: the number of the current generation is used again.
CommitUnderSameNumber(gen) ==
  /\ placing' = [gen |-> IF gen = 0 THEN 1 ELSE gen, content |-> request]
  /\ pc' = "write"
  /\ committing' = TRUE
  /\ shelving' = (gen > 0)
  /\ UNCHANGED <<losses, request, returned>>

\* The request becomes the generation after `gen`, the current one.
Commit(gen) ==
  /\ gen < MaxGeneration
  /\ placing' = [gen |-> gen + 1, content |-> request]
  /\ pc' = "write"
  /\ committing' = TRUE
  /\ shelving' = (gen > 0)
  /\ UNCHANGED <<losses, request, returned>>

\* Mutant of Inspect: a temp file is left over, whatever it holds.
InspectDiscardingTemp ==
  /\ pc = "inspect"
  /\ ~Collision
  /\ Newest(disk) # Missing
  /\ placing' = Newest(disk)
  /\ shelving' = PrimaryIsPrior
  /\ pc' = IF NewestSlot(disk) = "backup" THEN "write" ELSE "discard"
  /\ UNCHANGED <<disk, losses, request, committing, returned>>

\* recoverCanonicalGeneration: the newest generation belongs in the primary slot.
Inspect ==
  /\ pc = "inspect"
  /\ ~Collision
  /\ Newest(disk) # Missing
  /\ placing' = Newest(disk)
  /\ shelving' = PrimaryIsPrior
  /\ pc' = CASE NewestSlot(disk) = "primary" -> "discard"
             [] NewestSlot(disk) = "backup"  -> "write"
             [] OTHER                        -> "vacate"
  /\ UNCHANGED <<disk, losses, request, committing, returned>>

\* The key has no file: nothing to recover, and nothing for a read to return.
InspectNothing ==
  /\ pc = "inspect"
  /\ \A s \in Slots : disk[s] = Missing
  /\ IF request = NoContent THEN Finish(Missing) ELSE Commit(0)
  /\ UNCHANGED disk

\* The primary file is the newest: the temp file is a leftover.
DiscardTemp == pc = "discard" /\ Store("temp", Missing) /\ GoTo("erase")

WriteTemp == pc = "write" /\ Store("temp", placing) /\ GoTo("vacate")

\* Mutant of Vacate: the primary file makes room for the new one.
VacatePrimary == pc = "vacate" /\ Store("primary", Missing) /\ GoTo("promote")

\* Make room for the primary file in the backup slot, or else in the primary slot.
Vacate ==
  /\ pc = "vacate"
  /\ IF shelving THEN Store("backup", Missing) /\ GoTo("shelve")
                 ELSE Store("primary", Missing) /\ GoTo("promote")

Shelve == pc = "shelve" /\ Move("primary", "backup") /\ GoTo("promote")

Promote == pc = "promote" /\ Move("temp", "primary") /\ GoTo("erase")

\* Mutant of EraseOlder: the backup stays beside a tombstone.
KeepOlder == UNCHANGED disk

\* A tombstone in the primary slot takes the backup with it.
EraseOlder ==
  IF placing.content = Tombstone THEN Store("backup", Missing) ELSE UNCHANGED disk

\* The generation is in place: the operation returns it, or has recovered the
\* current generation and goes on to commit a different one.
Settle ==
  /\ pc = "erase"
  /\ EraseOlder
  /\ IF committing \/ request \in {NoContent, placing.content}
     THEN Finish(placing)
     ELSE Commit(placing.gen)

\* A read whose repair failed returns what survives.
Reread ==
  /\ pc = "reread"
  /\ ~Collision
  /\ Newest(disk) # Missing
  /\ Finish(Newest(disk))
  /\ UNCHANGED disk

(***************************************************************************)
(* Failures.                                                               *)
(***************************************************************************)
\* A write, or a move that copies, stopped half-way.
HalfDone ==
  \/ pc = "write" /\ Store("temp", Damaged)
  \/ pc = "shelve" /\ \E copy \in {Damaged, disk["primary"]} : Store("backup", copy)
  \/ pc = "promote" /\ \E copy \in {Damaged, disk["temp"]} : Store("primary", copy)

\* A read gets over a failure of its repair.
AfterFailure == IF request = NoContent /\ pc \notin {"inspect", "reread"} THEN "reread" ELSE "idle"

\* A call throws, an inspection finds a collision or no valid file among files, a
\* validation fails, or the generation numbers are exhausted.
Fail == pc # "idle" /\ (UNCHANGED disk \/ HalfDone) /\ GoTo(AfterFailure)

Crash == pc # "idle" /\ (UNCHANGED disk \/ HalfDone) /\ GoTo("idle")

\* The storage damages a file at rest. What the caller was told is promised only
\* as far as another file holds it.
Lose(s) ==
  /\ pc = "idle"
  /\ losses < MaxLosses
  /\ disk[s].gen > 0
  /\ Store(s, Damaged)
  /\ losses' = losses + 1
  /\ returned' = IF returned.gen <= Newest(disk').gen THEN returned ELSE Newest(disk')
  /\ UNCHANGED operation

Next ==
  \/ \E content \in Contents \cup {NoContent} : Start(content)
  \/ Inspect \/ InspectNothing \/ DiscardTemp \/ WriteTemp \/ Vacate \/ Shelve \/ Promote
  \/ Settle \/ Reread \/ Fail \/ Crash
  \/ \E s \in Slots : Lose(s)

Spec == Init /\ [][Next]_vars

(***************************************************************************)
(* Properties.                                                             *)
(***************************************************************************)
\* Every file is a generation, damaged or missing, and the operation under way
\* is at a step of the code.
TypeOK ==
  /\ disk       \in [Slots -> File]
  /\ losses     \in 0..MaxLosses
  /\ pc         \in Steps
  /\ request    \in Contents \cup {NoContent}
  /\ placing    \in File
  /\ committing \in BOOLEAN
  /\ shelving   \in BOOLEAN
  /\ returned   \in File

\* The operations never give one generation number to two contents, not after
\* any sequence of failures and retries: such a collision would make every later
\* read and commit of the key fail (persist_generation_collision).
NeverCollides == ~Collision

\* What an operation returned is on disk, or something newer is: no failure or
\* crash at any call of a later operation makes it unreadable, and no later
\* operation gives its number to something else.
ReturnedSurvives ==
  /\ returned.gen <= Newest(disk).gen
  /\ \A s \in Slots : disk[s].gen = returned.gen /\ returned.gen > 0 => disk[s] = returned

\* "a successful replacement retains the immediately prior generation": a commit
\* that returns a value leaves it in the primary slot and its predecessor as backup.
CommitKeepsPrior ==
  [][committing /\ pc = "erase" /\ pc' = "idle" /\ returned' = placing =>
       /\ disk'["primary"] = placing
       /\ placing.gen > 1 /\ placing.content # Tombstone => disk'["backup"].gen = placing.gen - 1
    ]_vars

\* A removal that returns has erased the payload bytes of every older generation,
\* also the ones an earlier, failed operation left behind.
RemovalErases ==
  [][pc = "erase" /\ pc' = "idle" /\ returned' # returned /\ returned'.content = Tombstone =>
       \A s \in Slots : disk'[s].content \notin Payloads]_vars

(***************************************************************************)
(* The inductive invariant.                                                *)
(***************************************************************************)
\* No file is newer than the one being placed, and once it is written it is in the
\* temp slot until it is in the primary slot.
PlacingOK ==
  pc \in {"discard", "write", "vacate", "shelve", "promote", "erase"} =>
    /\ placing.gen > 0
    /\ \A s \in Slots : disk[s].gen <= placing.gen
    /\ pc \in {"vacate", "shelve", "promote"} => disk["temp"] = placing
    /\ pc \in {"discard", "erase"} => disk["primary"] = placing
    /\ pc = "erase" => disk["temp"] = Missing
    /\ pc = "write" /\ ~committing => disk["backup"] = placing

\* A commit follows the recovery, numbers the request after the primary file, and
\* keeps that file.
CommittingOK ==
  committing /\ pc \in Steps \ {"idle", "reread"} =>
    /\ pc \notin {"inspect", "discard"}
    /\ placing.content = request /\ request \in Contents
    /\ shelving = (placing.gen > 1)
    /\ pc = "write" => disk["temp"] = Missing /\ disk["backup"].gen < placing.gen
    /\ pc \in {"write", "vacate", "shelve"} => disk["primary"].gen = placing.gen - 1
    /\ pc \in {"promote", "erase"} /\ placing.gen > 1 /\ placing.content # Tombstone =>
         disk["backup"].gen = placing.gen - 1

\* At every call of an operation the newest generation is on disk, numbered once
\* and no older than anything returned; the safety properties above follow.
GenerationsInv ==
  /\ TypeOK /\ NeverCollides /\ ReturnedSurvives /\ PlacingOK /\ CommittingOK
  /\ pc = "shelve" => shelving

(***************************************************************************)
(* The abstract register, and how the files implement it.                  *)
(***************************************************************************)
Register == INSTANCE PersistedRegister WITH newest <- Newest(disk), Nothing <- Missing

\* Commits are atomic: each takes effect when the temp file is complete, or never,
\* whatever call fails or the process dies at, and reads return what took effect.
ImplementsRegister == Register!Spec
=============================================================================
