----------------------- MODULE ThrottledStorageProofs -----------------------
(***************************************************************************)
(* Proofs about ThrottledStorage, for any drains and any bounds on calls   *)
(* and crashes: ThrottledInv is an invariant; no write is stranded, later  *)
(* calls win on disk, and a drain that resolves is a barrier.              *)
(***************************************************************************)
EXTENDS ThrottledStorage, TLAPS

(***************************************************************************)
(* Facts about the chain of mutations.                                     *)
(***************************************************************************)
\* enqueueStorageMutation puts a mutation behind the ones under way.
LEMMA Enqueued ==
  ASSUME NEW S, NEW q \in Seq(S), NEW m \in S
  PROVE  /\ Append(q, m) \in Seq(S)
         /\ DOMAIN Append(q, m) = 1..(Len(q) + 1)
         /\ DOMAIN q = 1..Len(q)
         /\ Len(q) \in Nat
         /\ \A i \in 1..Len(q) : Append(q, m)[i] = q[i]
         /\ Append(q, m)[Len(q) + 1] = m
  OBVIOUS

\* A mutation that settles leaves the others in their order.
LEMMA Dequeued ==
  ASSUME NEW S, NEW q \in Seq(S), q # <<>>
  PROVE  /\ Tail(q) \in Seq(S)
         /\ Head(q) \in S
         /\ Head(q) = q[1]
         /\ Len(q) \in Nat \ {0}
         /\ DOMAIN q = 1..Len(q)
         /\ DOMAIN Tail(q) = 1..(Len(q) - 1)
         /\ \A i \in 1..(Len(q) - 1) : Tail(q)[i] = q[i + 1]
  OBVIOUS

(***************************************************************************)
(* The callers.                                                            *)
(***************************************************************************)
\* The first state owes nothing to the disk.
LEMMA InitInv == Init => ThrottledInv
  <1> SUFFICES ASSUME Init PROVE ThrottledInv
    OBVIOUS
  <1>1. TypeOK
    BY ThrottlingAssumption DEF Init, TypeOK, DrainStates, Rests
  <1>2. ChainOK /\ PendingOK /\ NoStrandedWrite /\ DrainOK
    BY DEF Init, ChainOK, PendingOK, NoStrandedWrite, DrainOK
  <1> QED BY <1>1, <1>2 DEF ThrottledInv

\* A pending write is never mistaken for none.
LEMMA WritesAreWrites ==
  \A w : w \in Writes =>
    /\ w # NoWrite
    /\ w.revision \in Nat \ {0} /\ w.revision <= MaxCalls
    /\ w.armed \in BOOLEAN /\ w.flushing \in Nat
    /\ w = [revision |-> w.revision, armed |-> w.armed, flushing |-> w.flushing]
  <1> SUFFICES ASSUME NEW w \in Writes
               PROVE  /\ w # NoWrite
                      /\ w.revision \in Nat \ {0} /\ w.revision <= MaxCalls
                      /\ w.armed \in BOOLEAN /\ w.flushing \in Nat
                      /\ w = [revision |-> w.revision, armed |-> w.armed, flushing |-> w.flushing]
    OBVIOUS
  <1>1. w \in [revision : Nat, armed : BOOLEAN, flushing : Nat]
    BY ThrottlingAssumption DEF Writes, Revisions
  <1>2. w # NoWrite
    BY <1>1, ThrottlingAssumption
  <1>3. w.revision \in 1..MaxCalls /\ w.flushing \in 0..MaxCalls /\ w.armed \in BOOLEAN
    BY DEF Writes, Revisions
  <1> QED BY <1>1, <1>2, <1>3, ThrottlingAssumption

\* A newer value is pending and armed; what is being flushed is older.
LEMMA SetItemStep == ASSUME ThrottledInv, SetItem PROVE ThrottledInv'
  <1> USE DEF ThrottledInv, SetItem, Issue, QueueWrite
  <1>1. TypeOK' /\ pending' \in Writes
    BY ThrottlingAssumption DEF TypeOK, Writes, Revisions
  <1>2. pending' # NoWrite /\ pending'.revision = issued + 1 /\ pending'.armed /\ issued \in Nat
    <2>1. pending' # NoWrite
      BY <1>1, WritesAreWrites
    <2> QED BY <2>1 DEF TypeOK
  <1>3. /\ issued' = issued + 1
        /\ \A i \in DOMAIN chain : chain[i].revision \in Nat
        /\ \A o \in settled : o.revision \in Nat
    <2>1. \A i \in DOMAIN chain : chain[i] \in Mutations
      BY DEF TypeOK
    <2>2. \A o \in settled : o \in Outcomes
      BY DEF TypeOK
    <2> QED BY <2>1, <2>2 DEF Mutations, Outcomes, Revisions
  <1>4. ChainOK'
    BY <1>2, <1>3 DEF ChainOK, TypeOK
  <1>5. ~BeingFlushed(pending.revision)'
    BY <1>2, <1>3 DEF ChainOK, BeingFlushed
  <1>6. PendingOK'
    <2>1. \A i \in DOMAIN chain : chain[i].revision < issued + 1
      BY <1>2, <1>3 DEF ChainOK
    <2>2. durable <= issued + 1
      BY <1>2 DEF ChainOK, TypeOK
    <2>3. \A i \in DOMAIN chain : chain[i].revision <= issued + 1
      BY <2>1, <1>2, <1>3
    <2>4. pending'.flushing <= issued
      BY <1>2, WritesAreWrites DEF PendingOK, TypeOK
    <2>5. pending'.flushing # pending'.revision /\ pending'.flushing <= pending'.revision
      BY <1>1, <1>2, <2>4, WritesAreWrites
    <2> QED BY <1>2, <1>5, <2>1, <2>2, <2>3, <2>5 DEF PendingOK
  <1>7. NoStrandedWrite'
    BY <1>2 DEF NoStrandedWrite
  <1>8. DrainOK'
    <2>1. ASSUME pending # NoWrite PROVE pending.revision <= pending'.revision
      BY <2>1, <1>2 DEF PendingOK, TypeOK, Writes, Revisions
    <2>2. \A d \in Drains : goal[d] \in Nat
      BY DEF TypeOK
    <2> QED BY <1>2, <2>1, <2>2, WritesAreWrites DEF DrainOK, TypeOK
  <1> QED BY <1>1, <1>4, <1>6, <1>7, <1>8

\* A removal is newer than every mutation under way, and calls the goals off.
LEMMA RemoveItemStep == ASSUME ThrottledInv, RemoveItem PROVE ThrottledInv'
  <1> USE DEF ThrottledInv, RemoveItem, Issue
  <1> DEFINE m == [revision |-> issued + 1, removes |-> TRUE]
  <1>1. m \in Mutations /\ chain \in Seq(Mutations) /\ chain' = Append(chain, m)
    BY ThrottlingAssumption DEF TypeOK, Mutations, Revisions
  <1>2. /\ chain' \in Seq(Mutations)
        /\ DOMAIN chain = 1..Len(chain) /\ DOMAIN chain' = 1..(Len(chain) + 1)
        /\ Len(chain) \in Nat
        /\ \A i \in 1..Len(chain) : chain'[i] = chain[i]
        /\ chain'[Len(chain) + 1] = m
    BY <1>1, Enqueued
  <1>3. TypeOK'
    BY <1>2, ThrottlingAssumption DEF TypeOK
  <1>4. ChainOK'
    <2>1. \A i \in DOMAIN chain : chain[i] \in Mutations
      BY <1>1, <1>2
    <2>2. \A i, j \in DOMAIN chain' : i < j => chain'[i].revision < chain'[j].revision
      BY <1>2, <2>1 DEF ChainOK, TypeOK, Mutations, Revisions
    <2>3. \A i \in DOMAIN chain' : durable' <= chain'[i].revision /\ chain'[i].revision <= issued'
      BY <1>2, <2>1 DEF ChainOK, TypeOK, Mutations, Revisions
    <2>4. \A o \in settled : /\ o.revision <= issued'
                             /\ \A i \in DOMAIN chain' : chain'[i].revision # o.revision
      BY <1>2, <2>1 DEF ChainOK, TypeOK, Outcomes, Revisions
    <2> QED BY <2>2, <2>3, <2>4 DEF ChainOK, TypeOK
  <1>5. PendingOK' /\ NoStrandedWrite'
    BY DEF PendingOK, NoStrandedWrite
  <1>6. DrainOK'
    BY DEF DrainOK, TypeOK
  <1> QED BY <1>3, <1>4, <1>5, <1>6

(***************************************************************************)
(* Flushing.                                                               *)
(***************************************************************************)
\* What TypeOK says of a chain and of settled flushes, element by element.
LEMMA Elements ==
  ASSUME TypeOK
  PROVE  /\ \A i \in DOMAIN chain : /\ chain[i] \in Mutations
                                    /\ chain[i].revision \in Nat \ {0}
                                    /\ chain[i].revision <= MaxCalls
                                    /\ chain[i].removes \in BOOLEAN
         /\ \A o \in settled : o \in Outcomes /\ o.revision \in Nat /\ o.ok \in BOOLEAN
         /\ issued \in Nat /\ durable \in Nat /\ \A d \in Drains : goal[d] \in Nat
  <1>1. \A i \in DOMAIN chain : chain[i] \in Mutations
    BY DEF TypeOK
  <1>2. \A o \in settled : o \in Outcomes
    BY DEF TypeOK
  <1>3. issued \in Nat /\ durable \in Nat /\ \A d \in Drains : goal[d] \in Nat
    BY DEF TypeOK
  <1> QED BY <1>1, <1>2, <1>3, ThrottlingAssumption DEF Mutations, Outcomes, Revisions

\* flushWrite up to its await keeps everything but what a drain owes.
LEMMA StartFlushKeeps ==
  ASSUME ThrottledInv, NeedsFlush, StartFlush,
         UNCHANGED <<durable, settled, issued, crashes>>
  PROVE  /\ ChainOK' /\ PendingOK' /\ NoStrandedWrite'
         /\ pending' \in Writes /\ pending'.revision = pending.revision
         /\ chain' \in Seq(Mutations)
         /\ \A i \in DOMAIN chain : i \in DOMAIN chain' /\ chain'[i] = chain[i]
  <1> USE DEF ThrottledInv, NeedsFlush, StartFlush
  <1> DEFINE m == [revision |-> pending.revision, removes |-> FALSE]
             n == Len(chain) + 1
  <1>1. pending \in Writes /\ pending # NoWrite
    BY DEF TypeOK
  <1>2. /\ pending' \in Writes
        /\ pending' # NoWrite
        /\ pending'.revision = pending.revision
        /\ pending'.flushing = pending.revision
    <2> DEFINE r == pending.revision
    <2>0. pending = [revision |-> r, armed |-> pending.armed, flushing |-> pending.flushing]
      BY <1>1, WritesAreWrites
    <2>1. pending' = [revision |-> r, armed |-> FALSE, flushing |-> r]
      BY <2>0
    <2>2. r \in 1..MaxCalls /\ r \in 0..MaxCalls
      BY <1>1, ThrottlingAssumption DEF Writes, Revisions
    <2>3. pending' \in Writes
      BY <2>1, <2>2 DEF Writes, Revisions
    <2> QED BY <2>1, <2>3, WritesAreWrites
  <1>3. m \in Mutations /\ chain \in Seq(Mutations) /\ chain' = Append(chain, m)
    BY <1>1 DEF TypeOK, Mutations, Writes
  <1>4. /\ chain' \in Seq(Mutations)
        /\ DOMAIN chain = 1..Len(chain) /\ DOMAIN chain' = 1..n
        /\ Len(chain) \in Nat
        /\ \A i \in 1..Len(chain) : chain'[i] = chain[i]
        /\ chain'[n] = m
    BY <1>3, Enqueued
  <1>5. ~BeingFlushed(pending.revision)
    BY <1>1 DEF PendingOK
  <1>6. \A i \in DOMAIN chain : chain[i].revision < pending.revision
    <2> SUFFICES ASSUME NEW i \in DOMAIN chain PROVE chain[i].revision < pending.revision
      OBVIOUS
    <2>1. chain[i].revision \in Nat /\ chain[i].revision <= pending.revision /\ chain[i].removes \in BOOLEAN
      BY <1>1, Elements DEF PendingOK
    <2>2. CASE chain[i].removes
      BY <1>1, <2>2 DEF PendingOK
    <2>3. CASE ~chain[i].removes
      <3>1. chain[i].revision # pending.revision
        <4> SUFFICES ASSUME chain[i].revision = pending.revision PROVE FALSE
          OBVIOUS
        <4>1. chain[i] = [revision |-> pending.revision, removes |-> FALSE]
          BY <2>3, Elements DEF Mutations
        <4> QED BY <4>1, <1>5 DEF BeingFlushed
      <3> QED BY <2>1, <3>1, <1>1, WritesAreWrites
    <2> QED BY <2>1, <2>2, <2>3
  <1>7. \A o \in settled : o.revision # pending.revision
    BY <1>5 DEF BeingFlushed
  <1>8. pending.revision \in Nat /\ durable <= pending.revision /\ pending.revision <= issued
    BY <1>1, WritesAreWrites DEF PendingOK
  <1>9. ChainOK'
    <2>1. \A i, j \in DOMAIN chain' : i < j => chain'[i].revision < chain'[j].revision
      BY <1>4, <1>6 DEF ChainOK
    <2>2. \A i \in DOMAIN chain' : durable' <= chain'[i].revision /\ chain'[i].revision <= issued'
      BY <1>4, <1>8 DEF ChainOK
    <2>3. \A o \in settled : \A i \in DOMAIN chain' : chain'[i].revision # o.revision
      BY <1>4, <1>7 DEF ChainOK
    <2> QED BY <2>1, <2>2, <2>3 DEF ChainOK
  <1>10. BeingFlushed(pending.revision)'
    <2>1. n \in DOMAIN chain' /\ chain'[n] = [revision |-> pending'.revision, removes |-> FALSE]
      BY <1>2, <1>4
    <2> QED BY <2>1 DEF BeingFlushed
  <1>11. PendingOK'
    <2>1. \A i \in DOMAIN chain' : chain'[i].revision <= pending.revision
      BY <1>4, <1>6, <1>8, Elements
    <2>2. \A i \in DOMAIN chain' : chain'[i].removes => chain'[i].revision < pending.revision
      BY <1>4, <1>6
    <2> QED BY <1>2, <1>8, <1>10, <2>1, <2>2 DEF PendingOK
  <1>12. NoStrandedWrite'
    BY <1>2, <1>10 DEF NoStrandedWrite
  <1> QED BY <1>2, <1>4, <1>9, <1>11, <1>12

\* Without a flush to start, the timer is spent and nothing else changes.
LEMMA DisarmKeeps ==
  ASSUME ThrottledInv, ~NeedsFlush,
         pending' = IF pending = NoWrite THEN NoWrite ELSE [pending EXCEPT !.armed = FALSE],
         UNCHANGED <<durable, chain, settled, issued, crashes>>
  PROVE  /\ ChainOK' /\ PendingOK' /\ NoStrandedWrite'
         /\ pending' \in Writes \cup {NoWrite}
         /\ pending # NoWrite => pending' # NoWrite /\ pending'.revision = pending.revision
  <1> USE DEF ThrottledInv, NeedsFlush
  <1>1. ChainOK'
    BY DEF ChainOK
  <1>2. CASE pending = NoWrite
    BY <1>1, <1>2 DEF PendingOK, NoStrandedWrite
  <1>3. CASE pending # NoWrite
    <2>1. pending \in Writes /\ pending.flushing = pending.revision
      BY <1>3 DEF TypeOK
    <2>2. /\ pending' = [revision |-> pending.revision, armed |-> FALSE, flushing |-> pending.flushing]
          /\ pending' \in Writes
      BY <1>3, <2>1, WritesAreWrites DEF Writes, Revisions
    <2>3. pending' # NoWrite
      BY <2>2, WritesAreWrites
    <2>4. BeingFlushed(pending.revision)' <=> BeingFlushed(pending.revision)
      BY <2>2 DEF BeingFlushed
    <2>5. PendingOK'
      BY <1>3, <2>2, <2>4 DEF PendingOK
    <2>6. NoStrandedWrite'
      BY <1>3, <2>1, <2>2, <2>4, WritesAreWrites DEF NoStrandedWrite, PendingOK
    <2> QED BY <1>1, <2>2, <2>3, <2>5, <2>6
  <1> QED BY <1>2, <1>3

\* The timer starts a flush, or finds one under way.
LEMMA TimerFiresStep == ASSUME ThrottledInv, TimerFires PROVE ThrottledInv'
  <1> USE DEF ThrottledInv, TimerFires
  <1>1. CASE NeedsFlush
    <2>1. StartFlush /\ NeedsFlush /\ UNCHANGED <<durable, settled, issued, crashes, drain, goal>>
      BY <1>1
    <2>2. /\ ChainOK' /\ PendingOK' /\ NoStrandedWrite'
          /\ pending' \in Writes /\ pending'.revision = pending.revision
          /\ chain' \in Seq(Mutations)
          /\ \A i \in DOMAIN chain : i \in DOMAIN chain' /\ chain'[i] = chain[i]
      BY <2>1, StartFlushKeeps
    <2>3. TypeOK'
      BY <2>1, <2>2 DEF TypeOK
    <2>4. pending' # NoWrite
      BY <2>2, WritesAreWrites
    <2>5. DrainOK'
      BY <2>1, <2>2, <2>4 DEF DrainOK
    <2> QED BY <2>2, <2>3, <2>5
  <1>2. CASE ~NeedsFlush
    <2>1. /\ pending' = IF pending = NoWrite THEN NoWrite ELSE [pending EXCEPT !.armed = FALSE]
          /\ UNCHANGED <<durable, chain, settled, issued, crashes, drain, goal>>
      BY <1>2
    <2>2. /\ ChainOK' /\ PendingOK' /\ NoStrandedWrite'
          /\ pending' \in Writes \cup {NoWrite}
          /\ pending # NoWrite => pending' # NoWrite /\ pending'.revision = pending.revision
      BY <1>2, <2>1, DisarmKeeps
    <2>3. TypeOK'
      BY <2>1, <2>2 DEF TypeOK
    <2>4. DrainOK'
      BY <2>1, <2>2 DEF DrainOK
    <2> QED BY <2>2, <2>3, <2>4
  <1> QED BY <1>1, <1>2

\* Whoever awaits a mutation or a flush goes on or gives up.
LEMMA WokenAreDrains ==
  ASSUME TypeOK, NEW place \in {"flush", "mutation"}, NEW n, NEW ok, Wake(place, n, ok)
  PROVE  /\ drain' \in [Drains -> DrainStates]
         /\ \A d \in Drains : drain'[d] # Rests =>
              /\ drain[d] # Rests
              /\ \/ drain'[d] = drain[d] /\ drain[d] # Awaits(place, n)
                 \/ ok /\ drain[d] = Awaits(place, n)
  <1>1. /\ drain \in [Drains -> DrainStates]
        /\ drain' = [d \in Drains |-> IF drain[d] = Awaits(place, n)
                                      THEN IF ok THEN Loops ELSE Rests
                                      ELSE drain[d]]
    BY DEF TypeOK, Wake
  <1>2. Loops \in DrainStates /\ Rests \in DrainStates /\ Awaits(place, n) # Rests
    BY DEF DrainStates, Loops, Rests, Awaits
  <1> QED BY <1>1, <1>2

\* A mutation that settles takes the disk forward, or leaves it; its flush is left
\* to go on.
LEMMA MutateStep == ASSUME ThrottledInv, NEW ok \in BOOLEAN, Mutate(ok) PROVE ThrottledInv'
  <1> USE DEF ThrottledInv, Mutate
  <1> DEFINE h == Head(chain)
             o == [revision |-> h.revision, ok |-> ok]
  <1>1. chain # <<>> /\ chain \in Seq(Mutations) /\ chain' = Tail(chain)
    BY DEF TypeOK
  <1>2. /\ chain' \in Seq(Mutations)
        /\ h \in Mutations /\ h = chain[1]
        /\ Len(chain) \in Nat \ {0}
        /\ DOMAIN chain = 1..Len(chain)
        /\ DOMAIN chain' = 1..(Len(chain) - 1)
        /\ \A i \in 1..(Len(chain) - 1) : chain'[i] = chain[i + 1]
    BY <1>1, Dequeued
  <1>3. /\ h.revision \in Nat \ {0} /\ h.revision <= MaxCalls
        /\ durable <= h.revision /\ h.revision <= issued
        /\ durable \in Nat /\ issued \in Nat
    BY <1>2, Elements DEF ChainOK
  <1>4. /\ durable' \in {durable, h.revision}
        /\ ok => durable' = h.revision
        /\ durable <= durable' /\ durable' <= h.revision
    BY <1>3
  <1>5. \A i \in DOMAIN chain' :
          /\ i + 1 \in DOMAIN chain /\ chain'[i] = chain[i + 1]
          /\ h.revision < chain'[i].revision /\ chain'[i].revision \in Nat
    <2> SUFFICES ASSUME NEW i \in DOMAIN chain'
                 PROVE  /\ i + 1 \in DOMAIN chain /\ chain'[i] = chain[i + 1]
                        /\ h.revision < chain'[i].revision /\ chain'[i].revision \in Nat
      OBVIOUS
    <2>1. i + 1 \in DOMAIN chain /\ chain'[i] = chain[i + 1] /\ 1 \in DOMAIN chain /\ 1 < i + 1
      BY <1>2
    <2>2. chain[1].revision < chain[i + 1].revision
      BY <2>1 DEF ChainOK
    <2> QED BY <1>2, <2>1, <2>2, Elements
  <1>6. settled' \subseteq settled \cup {o} /\ settled \subseteq settled' /\ o \in Outcomes
    BY <1>2 DEF Outcomes, Mutations
  <1>7. TypeOK'
    <2>1. settled' \subseteq Outcomes
      BY <1>6 DEF TypeOK
    <2>2. durable' \in 0..MaxCalls
      BY <1>3, <1>4, ThrottlingAssumption
    <2>3. drain' \in [Drains -> DrainStates]
      BY WokenAreDrains
    <2> QED BY <1>2, <2>1, <2>2, <2>3 DEF TypeOK
  <1>8. ChainOK'
    <2>1. \A i, j \in DOMAIN chain' : i < j => chain'[i].revision < chain'[j].revision
      BY <1>2, <1>5 DEF ChainOK
    <2>2. \A i \in DOMAIN chain' : durable' <= chain'[i].revision /\ chain'[i].revision <= issued'
      <3> SUFFICES ASSUME NEW i \in DOMAIN chain'
                   PROVE  durable' <= chain'[i].revision /\ chain'[i].revision <= issued
        OBVIOUS
      <3>1. chain[i + 1].revision <= issued
        BY <1>5 DEF ChainOK
      <3> QED BY <3>1, <1>3, <1>4, <1>5
    <2>3. \A x \in settled' : /\ x.revision <= issued'
                              /\ x.ok => x.revision <= durable'
                              /\ \A i \in DOMAIN chain' : chain'[i].revision # x.revision
                              /\ \A other \in settled' : other.revision = x.revision => other = x
      <3>1. \A x \in settled : /\ x.revision <= issued
                               /\ x.ok => x.revision <= durable'
                               /\ x.revision # h.revision
                               /\ \A i \in DOMAIN chain' : chain'[i].revision # x.revision
                               /\ \A other \in settled : other.revision = x.revision => other = x
        <4> SUFFICES ASSUME NEW x \in settled
                     PROVE  /\ x.revision <= issued
                            /\ x.ok => x.revision <= durable'
                            /\ x.revision # h.revision
                            /\ \A i \in DOMAIN chain' : chain'[i].revision # x.revision
                            /\ \A other \in settled : other.revision = x.revision => other = x
          OBVIOUS
        <4>1. /\ x.revision <= issued
              /\ x.ok => x.revision <= durable
              /\ \A i \in DOMAIN chain : chain[i].revision # x.revision
              /\ \A other \in settled : other.revision = x.revision => other = x
          BY DEF ChainOK
        <4>2. x.ok => x.revision <= durable'
          BY <4>1, <1>3, <1>4, Elements
        <4>3. x.revision # h.revision
          BY <4>1, <1>2
        <4> QED BY <4>1, <4>2, <4>3, <1>5
      <3>2. /\ o.revision <= issued
            /\ o.ok => o.revision <= durable'
            /\ \A i \in DOMAIN chain' : chain'[i].revision # o.revision
        BY <1>3, <1>4, <1>5
      <3> QED BY <3>1, <3>2, <1>6
    <2>4. durable' <= issued'
      BY <1>3, <1>4
    <2> QED BY <2>1, <2>2, <2>3, <2>4 DEF ChainOK
  <1>9. PendingOK' /\ NoStrandedWrite'
    <2> SUFFICES ASSUME pending # NoWrite
                 PROVE  PendingOK' /\ NoStrandedWrite'
      BY DEF PendingOK, NoStrandedWrite
    <2>1. pending \in Writes /\ pending.revision \in Nat
      BY WritesAreWrites DEF TypeOK
    <2>2. BeingFlushed(pending.revision)' <=> BeingFlushed(pending.revision)
      <3>1. ASSUME BeingFlushed(pending.revision) PROVE BeingFlushed(pending.revision)'
        <4>1. CASE \E x \in settled : x.revision = pending.revision
          BY <4>1, <1>6 DEF BeingFlushed
        <4>2. CASE \E i \in DOMAIN chain : chain[i] = [revision |-> pending.revision, removes |-> FALSE]
          <5>1. PICK i \in DOMAIN chain : chain[i] = [revision |-> pending.revision, removes |-> FALSE]
            BY <4>2
          <5>2. CASE i = 1
            <6>1. ~h.removes /\ h.revision = pending.revision
              BY <5>1, <5>2, <1>2
            <6>2. o \in settled'
              BY <6>1
            <6> QED BY <6>1, <6>2 DEF BeingFlushed
          <5>3. CASE i # 1
            <6>1. i - 1 \in DOMAIN chain' /\ chain'[i - 1] = chain[i]
              BY <5>3, <1>2
            <6> QED BY <5>1, <6>1 DEF BeingFlushed
          <5> QED BY <5>2, <5>3
        <4> QED BY <3>1, <4>1, <4>2 DEF BeingFlushed
      <3>2. ASSUME BeingFlushed(pending.revision)' PROVE BeingFlushed(pending.revision)
        <4>1. CASE \E i \in DOMAIN chain' : chain'[i] = [revision |-> pending.revision, removes |-> FALSE]
          BY <4>1, <1>5 DEF BeingFlushed
        <4>2. CASE \E x \in settled' : x.revision = pending.revision
          <5>1. PICK x \in settled' : x.revision = pending.revision
            BY <4>2
          <5>2. CASE x \in settled
            BY <5>1, <5>2 DEF BeingFlushed
          <5>3. CASE x \notin settled
            <6>1. x = o /\ ~h.removes
              BY <5>3
            <6>2. h = [revision |-> pending.revision, removes |-> FALSE]
              BY <5>1, <6>1, <1>2 DEF Mutations
            <6>3. 1 \in DOMAIN chain
              BY <1>2
            <6>4. chain[1] = [revision |-> pending.revision, removes |-> FALSE]
              BY <6>2, <1>2
            <6> QED BY <6>3, <6>4 DEF BeingFlushed
          <5> QED BY <5>2, <5>3
        <4> QED BY <3>2, <4>1, <4>2 DEF BeingFlushed
      <3> QED BY <3>1, <3>2
    <2>3. durable' <= pending.revision
      BY <1>2, <1>3, <1>4, <2>1 DEF PendingOK
    <2> QED BY <1>5, <2>1, <2>2, <2>3 DEF PendingOK, NoStrandedWrite
  <1>10. DrainOK'
    <2> SUFFICES ASSUME NEW d \in Drains, drain'[d] # Rests, ~(goal[d] <= durable'),
                        ~(pending # NoWrite /\ goal[d] <= pending.revision)
                 PROVE  \E i \in DOMAIN chain' : /\ drain'[d] = Awaits("mutation", chain'[i].revision)
                                                 /\ goal[d] <= chain'[i].revision
      BY DEF DrainOK
    <2>1. ~(goal[d] <= durable)
      BY <1>3, <1>4, Elements
    <2>2. /\ drain[d] # Rests
          /\ \/ drain'[d] = drain[d] /\ drain[d] # Awaits("mutation", h.revision)
             \/ ok /\ drain[d] = Awaits("mutation", h.revision)
      BY WokenAreDrains
    <2>3. PICK i \in DOMAIN chain : /\ drain[d] = Awaits("mutation", chain[i].revision)
                                    /\ goal[d] <= chain[i].revision
      BY <2>1, <2>2 DEF DrainOK
    <2>4. chain[i].revision # h.revision
      <3> SUFFICES ASSUME chain[i].revision = h.revision PROVE FALSE
        OBVIOUS
      <3>1. ok /\ goal[d] <= h.revision
        BY <2>2, <2>3
      <3> QED BY <3>1, <1>4
    <2>5. i - 1 \in DOMAIN chain' /\ chain'[i - 1] = chain[i]
      <3>1. i # 1
        BY <1>2, <2>4
      <3>2. i \in 1..Len(chain)
        BY <1>2
      <3>3. i - 1 \in 1..(Len(chain) - 1) /\ (i - 1) + 1 = i
        BY <3>1, <3>2, <1>2
      <3> QED BY <3>3, <1>2
    <2>6. drain'[d] = drain[d]
      BY <2>2, <2>3, <2>4 DEF Awaits
    <2> QED BY <2>3, <2>5, <2>6
  <1> QED BY <1>7, <1>8, <1>9, <1>10

\* A flush that goes on forgets the write it has made durable, arms the one it has
\* not, and leaves a newer one to its own timer or flush.
LEMMA FinishFlushStep ==
  ASSUME ThrottledInv, NEW outcome \in settled, FinishFlush(outcome) PROVE ThrottledInv'
  <1> USE DEF ThrottledInv, FinishFlush
  <1>1. /\ \A i \in DOMAIN chain : chain[i].revision # outcome.revision
        /\ \A other \in settled' : other.revision # outcome.revision
        /\ outcome.ok => outcome.revision <= durable
        /\ outcome.revision \in Nat /\ outcome.ok \in BOOLEAN
    BY Elements DEF ChainOK
  <1>2. ~BeingFlushed(outcome.revision)'
    BY <1>1 DEF BeingFlushed
  <1>3. ChainOK'
    BY DEF ChainOK
  <1>4. /\ drain' \in [Drains -> DrainStates]
        /\ \A d \in Drains : drain'[d] # Rests =>
             /\ drain[d] # Rests
             /\ drain'[d] = drain[d] \/ drain[d] = Awaits("flush", outcome.revision)
    <2>1. Wake("flush", outcome.revision, outcome.ok) /\ TypeOK
      OBVIOUS
    <2> QED BY <2>1, WokenAreDrains
  <1>5. /\ pending' \in Writes \cup {NoWrite}
        /\ PendingOK' /\ NoStrandedWrite'
        /\ pending # NoWrite /\ pending.revision \in Nat =>
             \/ pending' # NoWrite /\ pending'.revision = pending.revision
             \/ pending.revision <= durable
    <2>1. CASE pending # NoWrite /\ pending.revision = outcome.revision /\ outcome.ok
      <3>1. pending' = NoWrite
        BY <2>1 DEF AfterFlush
      <3> QED BY <2>1, <3>1, <1>1 DEF PendingOK, NoStrandedWrite
    <2>2. CASE pending # NoWrite /\ pending.revision = outcome.revision /\ ~outcome.ok
      <3>0. pending \in Writes
        BY <2>2 DEF TypeOK
      <3> DEFINE b == Rearmed(outcome.ok)
      <3>1. pending' = [pending EXCEPT !.armed = b, !.flushing = 0]
        BY <2>2 DEF AfterFlush
      <3>2. pending' = [revision |-> pending.revision, armed |-> b, flushing |-> 0]
        <4>1. pending = [revision |-> pending.revision, armed |-> pending.armed,
                         flushing |-> pending.flushing]
          BY <3>0, WritesAreWrites
        <4> HIDE DEF b
        <4> QED BY <3>1, <4>1
      <3>b. b \in BOOLEAN /\ b
        BY <2>2 DEF Rearmed
      <3>3. pending' \in Writes
        <4> HIDE DEF b
        <4>1. pending.revision \in Revisions /\ 0 \in 0..MaxCalls
          BY <3>0, ThrottlingAssumption DEF Writes
        <4> QED BY <3>2, <3>b, <4>1 DEF Writes
      <3>4. pending' # NoWrite /\ pending'.armed /\ pending'.flushing = 0
            /\ pending'.revision = pending.revision /\ pending.revision \in Nat \ {0}
        <4> HIDE DEF b
        <4> QED BY <3>0, <3>2, <3>3, <3>b, WritesAreWrites
      <3>5. ~BeingFlushed(pending.revision)'
        BY <2>2, <3>4, <1>2 DEF BeingFlushed
      <3>6. PendingOK'
        BY <2>2, <3>4, <3>5 DEF PendingOK
      <3> QED BY <3>3, <3>4, <3>6 DEF NoStrandedWrite
    <2>3. CASE pending # NoWrite /\ pending.revision # outcome.revision /\ pending.flushing = outcome.revision
      <3>1. pending \in Writes /\ pending' = [pending EXCEPT !.flushing = 0]
        BY <2>3 DEF AfterFlush, TypeOK
      <3>2. pending' = [revision |-> pending.revision, armed |-> pending.armed, flushing |-> 0]
        BY <3>1, WritesAreWrites
      <3>3. pending' \in Writes
        BY <3>1, <3>2, ThrottlingAssumption DEF Writes
      <3>4. pending' # NoWrite /\ pending'.armed = pending.armed /\ pending'.flushing = 0
            /\ pending'.revision = pending.revision /\ pending.revision \in Nat \ {0}
        BY <3>1, <3>2, <3>3, WritesAreWrites
      <3>5. ~BeingFlushed(pending.revision) /\ pending.armed
        BY <2>3 DEF PendingOK, NoStrandedWrite
      <3>6. ~BeingFlushed(pending.revision)'
        BY <3>4, <3>5 DEF BeingFlushed
      <3>7. PendingOK'
        BY <2>3, <3>4, <3>6 DEF PendingOK
      <3> QED BY <3>3, <3>4, <3>5, <3>7 DEF NoStrandedWrite
    <2>4. CASE \/ pending = NoWrite
               \/ pending # NoWrite /\ pending.revision # outcome.revision /\ pending.flushing # outcome.revision
      <3>1. pending' = pending /\ pending \in Writes \cup {NoWrite}
        BY <2>4 DEF AfterFlush, TypeOK
      <3>2. pending # NoWrite => (BeingFlushed(pending.revision)' <=> BeingFlushed(pending.revision))
        BY <2>4, <3>1 DEF BeingFlushed
      <3>3. PendingOK'
        BY <3>1, <3>2 DEF PendingOK
      <3>4. NoStrandedWrite'
        BY <3>1, <3>2 DEF NoStrandedWrite
      <3> QED BY <3>1, <3>3, <3>4
    <2> QED BY <1>1, <2>1, <2>2, <2>3, <2>4
  <1>6. TypeOK'
    BY <1>4, <1>5 DEF TypeOK
  <1>7. DrainOK'
    <2> SUFFICES ASSUME NEW d \in Drains, drain'[d] # Rests
                 PROVE  \/ goal[d] <= durable
                        \/ pending' # NoWrite /\ goal[d] <= pending'.revision
                        \/ \E i \in DOMAIN chain : /\ drain'[d] = Awaits("mutation", chain[i].revision)
                                                   /\ goal[d] <= chain[i].revision
      BY DEF DrainOK
    <2>1. drain[d] # Rests
      BY <1>4
    <2>2. CASE goal[d] <= durable
      BY <2>2
    <2>3. CASE pending # NoWrite /\ goal[d] <= pending.revision
      <3>1. pending.revision \in Nat /\ durable \in Nat /\ goal[d] \in Nat
        BY <2>3, Elements, WritesAreWrites DEF TypeOK
      <3> QED BY <2>3, <3>1, <1>5
    <2>4. CASE \E i \in DOMAIN chain : /\ drain[d] = Awaits("mutation", chain[i].revision)
                                       /\ goal[d] <= chain[i].revision
      <3>1. drain[d].at = "mutation"
        BY <2>4 DEF Awaits
      <3>2. drain[d] # Awaits("flush", outcome.revision)
        BY <3>1 DEF Awaits
      <3> QED BY <1>4, <2>4, <3>2
    <2> QED BY <2>1, <2>2, <2>3, <2>4 DEF DrainOK
  <1> QED BY <1>3, <1>5, <1>6, <1>7

(***************************************************************************)
(* Draining, and the death of the process.                                 *)
(***************************************************************************)
\* A turn of a drain keeps everything, if the drain has something to see on disk
\* that is still pending or, when nothing is pending, newest under way.
LEMMA TurnKeeps ==
  ASSUME ThrottledInv, NEW d \in Drains, Turn(d),
         UNCHANGED <<durable, settled, issued, crashes>>,
         goal' \in [Drains -> 0..MaxCalls],
         \A e \in Drains \ {d} : goal'[e] = goal[e],
         \/ goal'[d] <= durable
         \/ pending # NoWrite /\ goal'[d] <= pending.revision
         \/ ~Drained /\ pending = NoWrite /\ chain # <<>> /\ goal'[d] = chain[Len(chain)].revision
  PROVE  ThrottledInv'
  <1> USE DEF ThrottledInv
  <1>1. drain \in [Drains -> DrainStates] /\ chain \in Seq(Mutations)
    BY DEF TypeOK
  <1>2. \A e \in Drains \ {d} : drain'[e] = drain[e]
    BY <1>1 DEF Turn
  <1>3. /\ ChainOK' /\ PendingOK' /\ NoStrandedWrite'
        /\ pending' \in Writes \cup {NoWrite}
        /\ pending # NoWrite => pending' # NoWrite /\ pending'.revision = pending.revision
        /\ chain' \in Seq(Mutations)
        /\ \A i \in DOMAIN chain : i \in DOMAIN chain' /\ chain'[i] = chain[i]
    <2>1. CASE NeedsFlush /\ StartFlush
      <3>1. /\ ChainOK' /\ PendingOK' /\ NoStrandedWrite'
            /\ pending' \in Writes /\ pending'.revision = pending.revision
            /\ chain' \in Seq(Mutations)
            /\ \A i \in DOMAIN chain : i \in DOMAIN chain' /\ chain'[i] = chain[i]
        BY <2>1, StartFlushKeeps
      <3> QED BY <3>1, WritesAreWrites
    <2>2. CASE /\ ~NeedsFlush /\ UNCHANGED chain
               /\ pending' = IF pending = NoWrite THEN NoWrite ELSE [pending EXCEPT !.armed = FALSE]
      <3>1. /\ ChainOK' /\ PendingOK' /\ NoStrandedWrite'
            /\ pending' \in Writes \cup {NoWrite}
            /\ pending # NoWrite => pending' # NoWrite /\ pending'.revision = pending.revision
        BY <2>2, DisarmKeeps
      <3> QED BY <3>1, <2>2, <1>1
    <2>3. CASE Drained /\ UNCHANGED <<pending, chain>>
      <3>1. pending = NoWrite /\ ~NeedsFlush
        BY <2>3 DEF Drained, NeedsFlush
      <3> QED BY <2>2, <2>3, <3>1
    <2> QED BY <2>1, <2>2, <2>3 DEF Turn
  <1>4. drain' \in [Drains -> DrainStates]
    <2>1. \A n \in Revisions : /\ Awaits("flush", n) \in DrainStates
                               /\ Awaits("mutation", n) \in DrainStates
      BY DEF Awaits, DrainStates
    <2>2. Rests \in DrainStates /\ Loops \in DrainStates
      BY DEF DrainStates
    <2>3. NeedsFlush => pending.revision \in Revisions
      BY DEF NeedsFlush, TypeOK, Writes
    <2>4. chain # <<>> => chain[Len(chain)].revision \in Revisions
      <3>1. chain # <<>> => Len(chain) \in DOMAIN chain
        BY <1>1
      <3>2. \A i \in DOMAIN chain : chain[i] \in Mutations
        BY <1>1
      <3> QED BY <3>1, <3>2 DEF Mutations
    <2> QED BY <1>1, <2>1, <2>2, <2>3, <2>4 DEF Turn
  <1>5. TypeOK'
    BY <1>3, <1>4 DEF TypeOK
  <1>6. DrainOK'
    <2> SUFFICES ASSUME NEW e \in Drains, drain'[e] # Rests
                 PROVE  \/ goal'[e] <= durable
                        \/ pending' # NoWrite /\ goal'[e] <= pending'.revision
                        \/ \E i \in DOMAIN chain' : /\ drain'[e] = Awaits("mutation", chain'[i].revision)
                                                    /\ goal'[e] <= chain'[i].revision
      BY DEF DrainOK
    <2>1. CASE e # d
      <3>1. drain'[e] = drain[e] /\ goal'[e] = goal[e]
        BY <2>1, <1>2
      <3> QED BY <3>1, <1>3 DEF DrainOK
    <2>2. CASE e = d /\ goal'[d] <= durable
      BY <2>2
    <2>3. CASE e = d /\ pending # NoWrite /\ goal'[d] <= pending.revision
      BY <2>3, <1>3
    <2>4. CASE /\ e = d /\ ~Drained /\ pending = NoWrite /\ chain # <<>>
               /\ goal'[d] = chain[Len(chain)].revision
      <3>1. drain'[d] = Awaits("mutation", chain[Len(chain)].revision)
        BY <2>4, <1>1 DEF Turn, NeedsFlush
      <3>2. Len(chain) \in DOMAIN chain /\ chain[Len(chain)].revision \in Nat
        BY <2>4, <1>1, Elements
      <3>3. Len(chain) \in DOMAIN chain' /\ chain'[Len(chain)] = chain[Len(chain)]
        BY <3>2, <1>3
      <3> QED BY <2>4, <3>1, <3>2, <3>3
    <2> QED BY <2>1, <2>2, <2>3, <2>4
  <1> QED BY <1>3, <1>5, <1>6

\* A drain that is called has to see the newest call that memory owes to the disk.
LEMMA CallDrainStep ==
  ASSUME ThrottledInv, NEW d \in Drains, CallDrain(d) PROVE ThrottledInv'
  <1> USE DEF CallDrain
  <1>1. goal \in [Drains -> 0..MaxCalls] /\ goal' = [goal EXCEPT ![d] = Owed]
    BY DEF ThrottledInv, TypeOK
  <1>2. pending # NoWrite => Owed = pending.revision /\ pending.revision \in 0..MaxCalls
    BY WritesAreWrites, ThrottlingAssumption DEF Owed, ThrottledInv, TypeOK
  <1>3. pending = NoWrite => chain # <<>>
    BY DEF Drained
  <1>4. pending = NoWrite => /\ Owed = chain[Len(chain)].revision
                             /\ chain[Len(chain)].revision \in 0..MaxCalls
    <2> SUFFICES ASSUME pending = NoWrite
                 PROVE  /\ Owed = chain[Len(chain)].revision
                        /\ chain[Len(chain)].revision \in 0..MaxCalls
      OBVIOUS
    <2>1. Owed = chain[Len(chain)].revision
      BY <1>3 DEF Owed
    <2>2. Len(chain) \in DOMAIN chain
      BY <1>3 DEF ThrottledInv, TypeOK
    <2> QED BY <2>1, <2>2, Elements, ThrottlingAssumption DEF ThrottledInv
  <1>5. goal' \in [Drains -> 0..MaxCalls] /\ goal'[d] = Owed /\ \A e \in Drains \ {d} : goal'[e] = goal[e]
    BY <1>1, <1>2, <1>4
  <1>6. \/ pending # NoWrite /\ goal'[d] <= pending.revision
        \/ ~Drained /\ pending = NoWrite /\ chain # <<>> /\ goal'[d] = chain[Len(chain)].revision
    BY <1>2, <1>3, <1>4, <1>5
  <1> QED BY <1>5, <1>6, TurnKeeps

\* A drain that turns again awaits nothing, so what it has to see is on disk or pending.
LEMMA TurnAgainStep ==
  ASSUME ThrottledInv, NEW d \in Drains, TurnAgain(d) PROVE ThrottledInv'
  <1> USE DEF TurnAgain
  <1>1. goal' = goal /\ goal \in [Drains -> 0..MaxCalls]
    BY DEF ThrottledInv, TypeOK
  <1>2. \/ goal[d] <= durable
        \/ pending # NoWrite /\ goal[d] <= pending.revision
    <2>1. drain[d] # Rests
      BY DEF Loops, Rests
    <2>2. \A i \in DOMAIN chain : drain[d] # Awaits("mutation", chain[i].revision)
      BY DEF Loops, Awaits
    <2> QED BY <2>1, <2>2 DEF ThrottledInv, DrainOK
  <1> QED BY <1>1, <1>2, TurnKeeps

\* A crash leaves the disk as it is, or with the mutation under way in effect.
LEMMA CrashStep == ASSUME ThrottledInv, Crash PROVE ThrottledInv'
  <1> USE DEF ThrottledInv, Crash
  <1>1. durable' \in 0..MaxCalls /\ durable' <= issued /\ issued \in Nat
    <2>1. CASE chain = <<>>
      BY <2>1, Elements DEF ChainOK, TypeOK
    <2>2. CASE chain # <<>>
      <3>1. Head(chain) = chain[1] /\ 1 \in DOMAIN chain
        BY <2>2 DEF TypeOK
      <3> QED BY <2>2, <3>1, Elements, ThrottlingAssumption DEF ChainOK, TypeOK
    <2> QED BY <2>1, <2>2
  <1>2. TypeOK'
    BY <1>1, ThrottlingAssumption DEF TypeOK, DrainStates
  <1>3. ChainOK' /\ PendingOK' /\ NoStrandedWrite' /\ DrainOK'
    BY <1>1 DEF ChainOK, PendingOK, NoStrandedWrite, DrainOK
  <1> QED BY <1>2, <1>3

(***************************************************************************)
(* The theorems.                                                           *)
(***************************************************************************)
\* ThrottledInv is inductive.
LEMMA NextKeeps == ThrottledInv /\ [Next]_vars => ThrottledInv'
  <1> SUFFICES ASSUME ThrottledInv, [Next]_vars PROVE ThrottledInv'
    OBVIOUS
  <1>1. CASE SetItem
    BY <1>1, SetItemStep
  <1>2. CASE RemoveItem
    BY <1>2, RemoveItemStep
  <1>3. CASE TimerFires
    BY <1>3, TimerFiresStep
  <1>4. CASE \E ok \in BOOLEAN : Mutate(ok)
    BY <1>4, MutateStep
  <1>5. CASE \E outcome \in settled : FinishFlush(outcome)
    BY <1>5, FinishFlushStep
  <1>6. CASE \E d \in Drains : CallDrain(d)
    BY <1>6, CallDrainStep
  <1>7. CASE \E d \in Drains : TurnAgain(d)
    BY <1>7, TurnAgainStep
  <1>8. CASE Crash
    BY <1>8, CrashStep
  <1>9. CASE UNCHANGED vars
    BY <1>9 DEF vars, memory, ThrottledInv, TypeOK, ChainOK, PendingOK, NoStrandedWrite, DrainOK,
                BeingFlushed
  <1> QED BY <1>1, <1>2, <1>3, <1>4, <1>5, <1>6, <1>7, <1>8, <1>9 DEF Next

\* The bookkeeping of timers, flushes and drains is sound in every reachable state.
THEOREM ThrottledInvariance == Spec => []ThrottledInv
  <1> QED BY InitInv, NextKeeps, PTL DEF Spec

\* A value that waits to be written has a timer or a flush of its own.
THEOREM NoWriteIsStranded == Spec => []NoStrandedWrite
  <1>1. ThrottledInv => NoStrandedWrite
    BY DEF ThrottledInv
  <1> QED BY <1>1, ThrottledInvariance, PTL

\* The disk follows the order of the calls.
THEOREM DiskFollowsCalls == Spec => LaterCallsWin
  <1>1. ThrottledInv /\ [Next]_vars => [durable' >= durable]_vars
    <2> SUFFICES ASSUME ThrottledInv, Next PROVE durable' >= durable
      OBVIOUS
    <2>0. durable \in Nat
      BY Elements DEF ThrottledInv
    <2>1. chain # <<>> => Head(chain).revision >= durable /\ Head(chain).revision \in Nat
      <3> SUFFICES ASSUME chain # <<>>
                   PROVE  Head(chain).revision >= durable /\ Head(chain).revision \in Nat
        OBVIOUS
      <3>1. Head(chain) = chain[1] /\ 1 \in DOMAIN chain
        BY DEF ThrottledInv, TypeOK
      <3> QED BY <3>1, <2>0, Elements DEF ThrottledInv, ChainOK
    <2>2. CASE \E ok \in BOOLEAN : Mutate(ok)
      BY <2>0, <2>1, <2>2 DEF Mutate
    <2>3. CASE Crash
      BY <2>0, <2>1, <2>3 DEF Crash
    <2>4. CASE \/ SetItem \/ RemoveItem \/ TimerFires
               \/ \E outcome \in settled : FinishFlush(outcome)
               \/ \E d \in Drains : CallDrain(d) \/ TurnAgain(d)
      BY <2>0, <2>4 DEF SetItem, RemoveItem, TimerFires, FinishFlush, CallDrain, TurnAgain
    <2> QED BY <2>2, <2>3, <2>4 DEF Next
  <1> QED BY <1>1, ThrottledInvariance, PTL DEF Spec, LaterCallsWin

\* A drain that resolves has made durable what it was called for.
THEOREM DrainsAreBarriers == Spec => DrainIsABarrier
  <1>1. ASSUME ThrottledInv, Next, NEW d \in Drains,
               drain[d] = Loops, drain'[d] = Rests, crashes' = crashes
        PROVE  durable >= goal[d]
    <2>1. drain \in [Drains -> DrainStates] /\ crashes \in Nat /\ durable \in Nat /\ goal[d] \in Nat
      BY <1>1, Elements, ThrottlingAssumption DEF ThrottledInv, TypeOK
    <2>2. Loops # Rests /\ \A n : Loops # Awaits("flush", n) /\ Loops # Awaits("mutation", n)
      BY DEF Loops, Rests, Awaits
    <2>3. \A n : Rests # Awaits("flush", n) /\ Rests # Awaits("mutation", n)
      BY DEF Rests, Awaits
    <2>4. TurnAgain(d) /\ Drained
      <3>1. ~SetItem /\ ~RemoveItem /\ ~TimerFires
        BY <1>1, <2>2 DEF SetItem, RemoveItem, TimerFires
      <3>2. ~\E ok \in BOOLEAN : Mutate(ok)
        BY <1>1, <2>1, <2>2 DEF Mutate, Wake
      <3>3. ~\E outcome \in settled : FinishFlush(outcome)
        BY <1>1, <2>1, <2>2 DEF FinishFlush, Wake
      <3>4. ~Crash
        BY <1>1, <2>1 DEF Crash
      <3>5. \A e \in Drains : CallDrain(e) => FALSE
        BY <1>1, <2>1, <2>2 DEF CallDrain, Turn
      <3>6. \A e \in Drains : TurnAgain(e) => e = d
        BY <1>1, <2>1, <2>2 DEF TurnAgain, Turn
      <3>7. TurnAgain(d)
        BY <1>1, <3>1, <3>2, <3>3, <3>4, <3>5, <3>6 DEF Next
      <3> QED BY <1>1, <2>1, <2>2, <2>3, <3>7 DEF TurnAgain, Turn
    <2>5. pending = NoWrite
      BY <2>4 DEF Drained
    <2>6. goal[d] <= durable
      BY <1>1, <2>2, <2>5 DEF ThrottledInv, DrainOK
    <2> QED BY <2>1, <2>6
  <1>2. ThrottledInv /\ [Next]_vars =>
          [\A d \in Drains : drain[d] = Loops /\ drain'[d] = Rests /\ crashes' = crashes =>
             durable >= goal[d]]_vars
    BY <1>1
  <1> QED BY <1>2, ThrottledInvariance, PTL DEF Spec, DrainIsABarrier
=============================================================================
