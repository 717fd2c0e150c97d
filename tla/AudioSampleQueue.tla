------------------------- MODULE AudioSampleQueue -------------------------
(***************************************************************************)
(* AudioSampleQueue: a ring buffer that doubles its storage when a burst   *)
(* does not fit and never shrinks. storage[i] of the source is storage     *)
(* [i + 1] here. Its callers hold the mutex of the worker, so one call is  *)
(* one step.                                                               *)
(***************************************************************************)
EXTENDS Sequences, Integers

CONSTANTS
  Samples,          \* what a sample may be
  Zero,             \* what fresh storage holds
  MinimumCapacity,  \* 4096 in the build
  Bursts,           \* the sequences of samples that are appended at once
  Requests,         \* how many samples copy_front and discard are asked for
  MaxQueued         \* bound: no append beyond this many queued samples

ASSUME QueueAssumption ==
  /\ Bursts \subseteq Seq(Samples)
  /\ Requests \subseteq Nat
  /\ MinimumCapacity \in Nat \ {0}
  /\ MaxQueued \in Nat

\* Arithmetic of ^, of which the provers know nothing: doubling n times is enough
\* for a capacity of n.
ASSUME PowersOfTwo == \A n \in 0 .. MaxQueued : 2 ^ n \in Nat /\ 2 ^ n > n

VARIABLES
  storage, head, count,
  destination,      \* the vector that copy_front fills
  call              \* the last call and its argument

vars == <<storage, head, count, destination, call>>

min(a, b) == IF a <= b THEN a ELSE b
max(a, b) == IF a <= b THEN b ELSE a

\* A part of a vector, and the vector with samples copied over it from index at.
Slice(vector, at, size) == SubSeq(vector, at + 1, at + size)
memcpy(vector, at, samples) ==
  [i \in DOMAIN vector |->
     IF i - at \in DOMAIN samples THEN samples[i - at] ELSE vector[i]]

Init ==
  /\ storage = <<>>
  /\ head = 0
  /\ count = 0
  /\ destination = <<>>
  /\ call = <<"clear">>
-----------------------------------------------------------------------------
\* The least doubling of the capacity that holds what is required.
Doublings(least, required) == {least * 2 ^ k : k \in 0 .. required}
ExpandedCapacity(required) ==
  LET enough == {c \in Doublings(max(Len(storage), MinimumCapacity), required) :
                   c >= required}
  IN  CHOOSE c \in enough : \A d \in enough : c <= d

\* The first requested samples of the ring, as two runs: up to the end of the
\* storage, and from its start.

\* Mutant: the second run is forgotten.
FrontUnwrapped(requested) ==
  LET first == min(requested, Len(storage) - head)
      fresh == [i \in 1 .. requested |-> Zero]
  IN  memcpy(fresh, 0, Slice(storage, head, first))

Front(requested) ==
  LET first == min(requested, Len(storage) - head)
  IN  Slice(storage, head, first) \o Slice(storage, 0, requested - first)

\* ensure_capacity: what storage and head are once it holds what is required.
ensure_capacity(required) ==
  IF required <= Len(storage)
  THEN [storage |-> storage, head |-> head]
  ELSE LET expanded == [i \in 1 .. ExpandedCapacity(required) |-> Zero]
       IN  [storage |-> memcpy(expanded, 0, Front(count)), head |-> 0]

\* Mutant: the write position is taken before the storage is expanded.
WritePositionStale(ring) == (head + count) % Len(ring.storage)

\* tail_index: where the next sample goes.
WritePosition(ring) == (ring.head + count) % Len(ring.storage)

append(values) ==
  /\ call' = <<"append", values>>
  /\ count + Len(values) <= MaxQueued
  /\ values # <<>>
  /\ LET ring  == ensure_capacity(count + Len(values))
         at    == WritePosition(ring)
         first == min(Len(values), Len(ring.storage) - at)
     IN  /\ storage' = memcpy(memcpy(ring.storage, at, Slice(values, 0, first)),
                              0, Slice(values, first, Len(values) - first))
         /\ head' = ring.head
  /\ count' = count + Len(values)
  /\ UNCHANGED destination

copy_front(requested) ==
  /\ call' = <<"copy_front", requested>>
  /\ destination' = Front(min(requested, count))
  /\ UNCHANGED <<storage, head, count>>

\* Mutant: more than is queued may be discarded from the ring.
DiscardedUnclamped(requested) == requested

Discarded(requested) == min(requested, count)

discard(requested) ==
  /\ call' = <<"discard", requested>>
  /\ head' = IF storage = <<>> THEN 0
             ELSE (head + Discarded(requested)) % Len(storage)
  /\ count' = count - Discarded(requested)
  /\ UNCHANGED <<storage, destination>>

clear ==
  /\ call' = <<"clear">>
  /\ head' = 0
  /\ count' = 0
  /\ UNCHANGED <<storage, destination>>

Next ==
  \/ \E values \in Bursts : append(values)
  \/ \E requested \in Requests : copy_front(requested) \/ discard(requested)
  \/ clear

Spec == Init /\ [][Next]_vars
-----------------------------------------------------------------------------
\* The ring is well formed: what is queued fits the storage, and head is an index
\* of it, so that both runs of every copy lie inside the vectors.
TypeOK ==
  /\ storage \in Seq(Samples \cup {Zero})
  /\ storage = <<>> \/ Len(storage) >= MinimumCapacity
  /\ head \in Nat
  /\ head < Len(storage) \/ (head = 0 /\ storage = <<>>)
  /\ count \in 0 .. Len(storage)
  /\ destination \in Seq(Samples)

\* The ring behaves as a first-in first-out queue, across every wrap-around and
\* every expansion of a wrapped ring.
Fifo == INSTANCE SampleFifo WITH items <- Front(count)
FifoOrder == Fifo!FifoSpec
===========================================================================
