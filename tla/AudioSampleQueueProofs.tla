----------------------- MODULE AudioSampleQueueProofs -----------------------
(***************************************************************************)
(* The ring buffer implements the queue, for all samples, bursts, requests *)
(* and capacities. Every argument is about At(i), the place in the ring of *)
(* the i-th queued sample: no call but discard changes which sample that   *)
(* is, and append puts the next ones behind the last.                      *)
(***************************************************************************)
EXTENDS AudioSampleQueue, SequenceTheorems, WellFoundedInduction, TLAPS

\* The i-th sample of a vector v from index h on, around its end.
From(v, h, i) == IF h + i <= Len(v) THEN v[h + i] ELSE v[h + i - Len(v)]

\* The sample at index i of a ring, counted from its head, from 1.
At(ring, i) == From(ring.storage, ring.head, i)

Ring == [storage |-> storage, head |-> head]

\* TypeOK without destination.
WellFormed ==
  /\ storage \in Seq(Samples \cup {Zero})
  /\ storage = <<>> \/ Len(storage) >= MinimumCapacity
  /\ head \in Nat
  /\ head < Len(storage) \/ (head = 0 /\ storage = <<>>)
  /\ count \in 0 .. Len(storage)

\* An index of at most twice the length wraps around once.
LEMMA WrapsOnce ==
  ASSUME NEW a \in Nat, NEW n \in Nat \ {0}, a < 2 * n
  PROVE  a % n = IF a < n THEN a ELSE a - n
<1>1. CASE a < n
  BY <1>1
<1>2. CASE a >= n
  BY <1>2
<1> QED
  BY <1>1, <1>2

\* A slice that lies inside of a vector.
LEMMA SliceProperties ==
  ASSUME NEW S, NEW v \in Seq(S), NEW at \in Nat, NEW size \in Nat, at + size <= Len(v)
  PROVE  /\ Slice(v, at, size) \in Seq(S)
         /\ Len(Slice(v, at, size)) = size
         /\ \A i \in 1 .. size : Slice(v, at, size)[i] = v[at + i]
<1>1. \A i \in at + 1 .. at + size : v[i] \in S
  BY ElementOfSeq
<1>2. /\ SubSeq(v, at + 1, at + size) \in Seq(S)
      /\ Len(SubSeq(v, at + 1, at + size)) =
           IF at + 1 <= at + size THEN at + size - (at + 1) + 1 ELSE 0
      /\ \A i \in 1 .. at + size - (at + 1) + 1 : SubSeq(v, at + 1, at + size)[i] = v[at + 1 + i - 1]
  BY <1>1, SubSeqProperties
<1> QED
  BY <1>2 DEF Slice

\* What a copy leaves, if it lies inside of the vector.
LEMMA CopyProperties ==
  ASSUME NEW S, NEW v \in Seq(S), NEW at \in Nat, NEW s \in Seq(S), at + Len(s) <= Len(v)
  PROVE  /\ memcpy(v, at, s) \in Seq(S)
         /\ Len(memcpy(v, at, s)) = Len(v)
         /\ \A i \in 1 .. Len(v) : memcpy(v, at, s)[i] =
              IF at < i /\ i <= at + Len(s) THEN s[i - at] ELSE v[i]
<1>1. /\ DOMAIN v = 1 .. Len(v) /\ DOMAIN s = 1 .. Len(s)
      /\ Len(v) \in Nat /\ Len(s) \in Nat
  BY LenProperties
<1>2. \A i \in 1 .. Len(v) : memcpy(v, at, s)[i] =
        IF at < i /\ i <= at + Len(s) THEN s[i - at] ELSE v[i]
  BY <1>1 DEF memcpy
<1>3. \A i \in 1 .. Len(v) : memcpy(v, at, s)[i] \in S
  BY <1>1, <1>2, ElementOfSeq
<1>4. memcpy(v, at, s) = [i \in 1 .. Len(v) |-> memcpy(v, at, s)[i]]
  BY <1>1 DEF memcpy
<1> QED
  BY <1>1, <1>2, <1>3, <1>4

\* The first queued samples are those at the first places of the ring.
LEMMA FrontProperties ==
  ASSUME WellFormed, NEW requested \in 0 .. count
  PROVE  /\ Front(requested) \in Seq(Samples \cup {Zero})
         /\ Len(Front(requested)) = requested
         /\ \A i \in 1 .. requested : Front(requested)[i] = At(Ring, i)
<1> DEFINE S     == Samples \cup {Zero}
           first == min(requested, Len(storage) - head)
<1>1. Len(storage) \in Nat /\ requested \in Nat /\ requested <= Len(storage)
  BY LenProperties DEF WellFormed
<1>2. /\ first \in Nat /\ first <= requested /\ head + first <= Len(storage)
      /\ requested - first \in Nat /\ requested - first <= Len(storage)
      /\ first < requested => first = Len(storage) - head
  BY <1>1, EmptySeq DEF WellFormed, min
<1>8. storage \in Seq(S)
  BY DEF WellFormed
<1>5. Front(requested) = Slice(storage, head, first) \o Slice(storage, 0, requested - first)
  BY DEF Front
<1>9. head \in Nat
  BY DEF WellFormed
<1> DEFINE rest == requested - first
<1> HIDE DEF first, S
<1>10. rest \in Nat /\ 0 + rest <= Len(storage)
  BY <1>1, <1>2
<1> HIDE DEF rest
<1>3. /\ Slice(storage, head, first) \in Seq(S)
      /\ Len(Slice(storage, head, first)) = first
      /\ \A i \in 1 .. first : Slice(storage, head, first)[i] = storage[head + i]
  BY <1>2, <1>8, <1>9, SliceProperties
<1>4. /\ Slice(storage, 0, rest) \in Seq(S)
      /\ Len(Slice(storage, 0, rest)) = rest
      /\ \A i \in 1 .. rest : Slice(storage, 0, rest)[i] = storage[0 + i]
  BY <1>8, <1>10, SliceProperties
<1>6. /\ Front(requested) \in Seq(S)
      /\ Len(Front(requested)) = first + rest
      /\ \A i \in 1 .. first + rest : Front(requested)[i] =
           IF i <= first THEN Slice(storage, head, first)[i]
           ELSE Slice(storage, 0, rest)[i - first]
  <2> DEFINE u == Slice(storage, head, first)
             v == Slice(storage, 0, rest)
  <2>1. Front(requested) = u \o v
    BY <1>5 DEF rest
  <2> HIDE DEF u, v
  <2>2. u \in Seq(S) /\ v \in Seq(S) /\ Len(u) = first /\ Len(v) = rest
    BY <1>3, <1>4 DEF u, v
  <2>3. /\ u \o v \in Seq(S)
        /\ Len(u \o v) = Len(u) + Len(v)
        /\ \A i \in 1 .. Len(u) + Len(v) : (u \o v)[i] =
             IF i <= Len(u) THEN u[i] ELSE v[i - Len(u)]
    BY <2>2, ConcatProperties
  <2> QED
    BY <2>1, <2>2, <2>3 DEF u, v
<1> USE DEF rest
<1>7. ASSUME NEW i \in 1 .. requested PROVE Front(requested)[i] = At(Ring, i)
  <2>1. CASE i <= first
    BY <1>1, <1>2, <1>3, <1>6, <2>1 DEF At, From, Ring, WellFormed
  <2>2. CASE i > first
    <3>1. first = Len(storage) - head /\ head + i > Len(storage)
      BY <1>1, <1>2, <2>2 DEF WellFormed
    <3>2. Front(requested)[i] = storage[i - first]
      BY <1>1, <1>2, <1>4, <1>6, <2>2
    <3> QED
      BY <1>1, <3>1, <3>2 DEF At, From, Ring, WellFormed
  <2> QED
    BY <1>1, <1>2, <2>1, <2>2
<1> QED
  BY <1>1, <1>2, <1>6, <1>7 DEF S

\* The least doubling of the capacity is one, and holds what is required.
LEMMA CapacitySuffices ==
  ASSUME WellFormed, NEW required \in 1 .. MaxQueued
  PROVE  /\ ExpandedCapacity(required) \in Nat
         /\ ExpandedCapacity(required) >= required
         /\ ExpandedCapacity(required) >= MinimumCapacity
<1> DEFINE least  == max(Len(storage), MinimumCapacity)
           enough == {c \in Doublings(least, required) : c >= required}
<1>1. least \in Nat \ {0} /\ least >= MinimumCapacity
  BY QueueAssumption, LenProperties DEF WellFormed, max
<1> HIDE DEF least
<1>2. \A k \in 0 .. required : 2 ^ k \in Nat /\ 2 ^ k > k
  BY PowersOfTwo, QueueAssumption
<1>3. \A c \in Doublings(least, required) : c \in Nat /\ c >= least
  <2>1. ASSUME NEW k \in 0 .. required PROVE least * 2 ^ k \in Nat /\ least * 2 ^ k >= least
    <3> DEFINE p == 2 ^ k
    <3>1. p \in Nat /\ p >= 1
      BY <1>2
    <3> HIDE DEF p
    <3>2. least * p \in Nat /\ least * p >= least
      BY <1>1, <3>1
    <3> QED
      BY <3>2 DEF p
  <2> QED
    BY <2>1 DEF Doublings
<1>4. enough # {} /\ enough \subseteq Nat
  <2> DEFINE p == 2 ^ required
  <2>1. p \in Nat /\ p >= required /\ least * p \in Doublings(least, required)
    BY <1>2 DEF Doublings
  <2> HIDE DEF p
  <2>2. least * p >= required
    BY <1>1, <2>1
  <2> QED
    BY <1>3, <2>1, <2>2
<1>5. \E c \in enough : \A d \in enough : c <= d
  <2>1. PICK c \in enough : \A d \in enough : ~ (<<d, c>> \in OpToRel(<, Nat))
    BY <1>4, NatLessThanWellFounded, WFMin
  <2>2. \A d \in enough : ~ (d < c)
    BY <1>4, <2>1 DEF OpToRel
  <2> QED
    BY <1>4, <2>2
<1>6. ExpandedCapacity(required) = CHOOSE c \in enough : \A d \in enough : c <= d
  BY DEF ExpandedCapacity, least
<1>7. ExpandedCapacity(required) \in enough
  BY <1>5, <1>6
<1> QED
  BY <1>1, <1>3, <1>7, QueueAssumption

\* FrontProperties as a formula, so that it can be said of the next state as well.
FrontIsRing ==
  WellFormed => \A requested \in 0 .. count :
    /\ Front(requested) \in Seq(Samples \cup {Zero})
    /\ Len(Front(requested)) = requested
    /\ \A i \in 1 .. requested : Front(requested)[i] = At(Ring, i)

\* It is true now and in the next state.
LEMMA FrontNow == FrontIsRing
BY FrontProperties DEF FrontIsRing

LEMMA FrontNext == FrontIsRing'
BY FrontNow, PTL

\* A ring with room for one more than is queued, where everything is where it was.
LEMMA EnsureCapacity ==
  ASSUME WellFormed, NEW required \in 1 .. MaxQueued, count <= required,
         NEW ring, ring = ensure_capacity(required)
  PROVE  /\ ring.storage \in Seq(Samples \cup {Zero})
         /\ Len(ring.storage) \in Nat
         /\ Len(ring.storage) >= required /\ Len(ring.storage) >= MinimumCapacity
         /\ ring.head \in Nat /\ ring.head < Len(ring.storage)
         /\ \A i \in 1 .. count : At(ring, i) = At(Ring, i)
<1> DEFINE S        == Samples \cup {Zero}
           capacity == ExpandedCapacity(required)
           expanded == [i \in 1 .. capacity |-> Zero]
<1>1. Len(storage) \in Nat /\ MinimumCapacity \in Nat \ {0}
  BY LenProperties, QueueAssumption DEF WellFormed
<1>2. CASE required <= Len(storage)
  <2>1. ring.storage = storage /\ ring.head = head
    BY <1>2 DEF ensure_capacity
  <2>2. storage # <<>>
    BY <1>1, <1>2, EmptySeq
  <2> QED
    BY <1>1, <1>2, <2>1, <2>2 DEF WellFormed, At, From, Ring
<1>3. CASE required > Len(storage)
  <2>1. ring.storage = memcpy(expanded, 0, Front(count)) /\ ring.head = 0
    BY <1>1, <1>3 DEF ensure_capacity
  <2>2. capacity \in Nat /\ capacity >= required /\ capacity >= MinimumCapacity
    BY CapacitySuffices
  <2> HIDE DEF capacity
  <2>3. expanded \in Seq(S) /\ Len(expanded) = capacity
    BY <2>2
  <2>4. /\ Front(count) \in Seq(S) /\ Len(Front(count)) = count
        /\ \A i \in 1 .. count : Front(count)[i] = At(Ring, i)
    BY FrontProperties DEF WellFormed
  <2>5. count \in Nat /\ 0 + count <= capacity
    BY <1>1, <2>2 DEF WellFormed
  <2> HIDE DEF expanded, S
  <2>6. /\ ring.storage \in Seq(S)
        /\ Len(ring.storage) = capacity
        /\ \A i \in 1 .. capacity : ring.storage[i] =
             IF 0 < i /\ i <= 0 + count THEN Front(count)[i - 0] ELSE expanded[i]
    BY <2>1, <2>3, <2>4, <2>5, CopyProperties
  <2>7. ASSUME NEW i \in 1 .. count PROVE At(ring, i) = At(Ring, i)
    <3>1. i <= capacity /\ ring.storage[i] = Front(count)[i]
      BY <2>5, <2>6
    <3> QED
      BY <2>1, <2>4, <2>6, <3>1 DEF At, From
  <2> QED
    BY <1>1, <2>1, <2>2, <2>6, <2>7 DEF S
<1> QED
  BY <1>1, <1>2, <1>3

\* A vector with values copied over it from index at on, and from the start when
\* the end is reached: the two copies of append.
Wrapped(v, at, values) ==
  LET first == min(Len(values), Len(v) - at)
  IN  memcpy(memcpy(v, at, Slice(values, 0, first)),
             0, Slice(values, first, Len(values) - first))

\* The values lie in the vector from index at on, the rest of them from its start on,
\* and nothing else has changed.
LEMMA TwoRuns ==
  ASSUME NEW S, NEW v \in Seq(S), NEW at \in Nat, at < Len(v),
         NEW values \in Seq(S), Len(values) <= Len(v)
  PROVE  /\ Wrapped(v, at, values) \in Seq(S) /\ Len(Wrapped(v, at, values)) = Len(v)
         /\ \A i \in 1 .. Len(v) : Wrapped(v, at, values)[i] =
              IF at < i /\ i <= at + Len(values) THEN values[i - at]
              ELSE IF i <= at + Len(values) - Len(v) THEN values[Len(v) - at + i]
              ELSE v[i]
<1> DEFINE first == min(Len(values), Len(v) - at)
           rest  == Len(values) - first
           one   == Slice(values, 0, first)
           two   == Slice(values, first, rest)
           once  == memcpy(v, at, one)
           twice == memcpy(once, 0, two)
<1>9. Wrapped(v, at, values) = twice
  BY DEF Wrapped
<1> HIDE DEF twice, once, one, two
<1>1. Len(v) \in Nat /\ Len(values) \in Nat
  BY LenProperties
<1>2. /\ first \in Nat /\ first <= Len(values) /\ rest \in Nat /\ first + rest = Len(values)
      /\ at + first <= Len(v) /\ (rest # 0 => at + first = Len(v))
      /\ 0 + first <= Len(values) /\ 0 + rest <= Len(v)
  BY <1>1 DEF min
<1> HIDE DEF first, rest
<1>4. /\ one \in Seq(S) /\ Len(one) = first
      /\ \A i \in 1 .. first : one[i] = values[0 + i]
  BY <1>2, SliceProperties DEF one
<1>5. /\ two \in Seq(S) /\ Len(two) = rest
      /\ \A i \in 1 .. rest : two[i] = values[first + i]
  BY <1>2, SliceProperties DEF two
<1>6. /\ once \in Seq(S) /\ Len(once) = Len(v)
      /\ \A i \in 1 .. Len(v) : once[i] =
           IF at < i /\ i <= at + Len(one) THEN one[i - at] ELSE v[i]
  BY <1>2, <1>4, CopyProperties DEF once
<1>7. /\ twice \in Seq(S) /\ Len(twice) = Len(once)
      /\ \A i \in 1 .. Len(once) : twice[i] =
           IF 0 < i /\ i <= 0 + Len(two) THEN two[i - 0] ELSE once[i]
  <2>1. 0 \in Nat /\ 0 + Len(two) <= Len(once)
    BY <1>2, <1>5, <1>6
  <2> QED
    BY <1>5, <1>6, <2>1, CopyProperties DEF twice
<1>8. ASSUME NEW i \in 1 .. Len(v)
      PROVE  twice[i] = IF at < i /\ i <= at + Len(values) THEN values[i - at]
                        ELSE IF i <= at + Len(values) - Len(v) THEN values[Len(v) - at + i]
                        ELSE v[i]
  <2>1. twice[i] = IF i <= rest THEN two[i] ELSE once[i]
    BY <1>1, <1>2, <1>5, <1>6, <1>7
  <2>2. once[i] = IF at < i /\ i <= at + first THEN one[i - at] ELSE v[i]
    BY <1>4, <1>6
  <2>3. i <= rest => two[i] = values[first + i]
    <3> SUFFICES ASSUME i <= rest PROVE two[i] = values[first + i]
      OBVIOUS
    <3>1. i \in 1 .. rest
      BY <1>2
    <3> QED
      BY <1>5, <3>1
  <2>4. at < i /\ i <= at + first => one[i - at] = values[i - at]
    <3> SUFFICES ASSUME at < i, i <= at + first PROVE one[i - at] = values[i - at]
      OBVIOUS
    <3> DEFINE j == i - at
    <3>1. j \in 1 .. first /\ 0 + j = j
      BY <1>2
    <3> HIDE DEF j
    <3>2. one[j] = values[j]
      BY <1>4, <3>1
    <3> QED
      BY <3>2 DEF j
  <2>5. rest = 0 \/ (first = Len(v) - at /\ rest = at + Len(values) - Len(v))
    BY <1>1, <1>2
  <2>6. rest = 0 => first = Len(values) /\ at + Len(values) <= Len(v)
    BY <1>1, <1>2
  <2>7. ~ (i <= rest /\ at < i)
    BY <1>1, <1>2, <2>5
  <2>8. CASE rest = 0
    BY <1>1, <1>2, <2>1, <2>2, <2>4, <2>6, <2>8
  <2>9. CASE rest # 0
    <3>1. first = Len(v) - at /\ rest = at + Len(values) - Len(v)
      BY <2>5, <2>9
    <3>2. i <= at + Len(values) - Len(v) <=> i <= rest
      BY <3>1
    <3>3. CASE i <= rest
      BY <2>1, <2>3, <2>7, <3>1, <3>2, <3>3
    <3>4. CASE i > rest
      <4>1. (at < i /\ i <= at + Len(values)) <=> (at < i /\ i <= at + first)
        BY <1>1, <1>2, <3>1
      <4> QED
        BY <1>2, <2>1, <2>2, <2>4, <3>2, <3>4, <4>1
    <3> QED
      BY <1>2, <3>3, <3>4
  <2> QED
    BY <2>8, <2>9
<1> QED
  BY <1>6, <1>7, <1>8, <1>9

\* A vector with values copied behind the n samples that it holds from index h on.
Behind(v, h, n, values) == Wrapped(v, (h + n) % Len(v), values)

\* Those n samples are where they were, and the values follow them.
LEMMA RingAppended ==
  ASSUME NEW S, NEW v \in Seq(S), NEW h \in Nat, h < Len(v),
         NEW n \in Nat, NEW values \in Seq(S), n + Len(values) <= Len(v), values # <<>>
  PROVE  /\ Behind(v, h, n, values) \in Seq(S) /\ Len(Behind(v, h, n, values)) = Len(v)
         /\ \A i \in 1 .. n : From(Behind(v, h, n, values), h, i) = From(v, h, i)
         /\ \A i \in 1 .. Len(values) : From(Behind(v, h, n, values), h, n + i) = values[i]
<1> DEFINE at    == (h + n) % Len(v)
           twice == Wrapped(v, at, values)
<1>1. Len(v) \in Nat \ {0} /\ Len(values) \in Nat \ {0}
  BY LenProperties, EmptySeq
<1>2. h + n \in Nat /\ h + n < 2 * Len(v)
  BY <1>1
<1>3. at = IF h + n < Len(v) THEN h + n ELSE h + n - Len(v)
  <2> DEFINE a == h + n
             m == Len(v)
  <2> HIDE DEF a, m
  <2>1. a \in Nat /\ m \in Nat \ {0} /\ a < 2 * m
    BY <1>1, <1>2 DEF a, m
  <2>2. a % m = IF a < m THEN a ELSE a - m
    BY <2>1, WrapsOnce
  <2> QED
    BY <2>2 DEF a, m
<1> HIDE DEF at
<1>4. at \in Nat /\ at < Len(v) /\ Len(values) <= Len(v)
  BY <1>1, <1>3
<1>5. /\ twice \in Seq(S) /\ Len(twice) = Len(v)
      /\ \A i \in 1 .. Len(v) : twice[i] =
           IF at < i /\ i <= at + Len(values) THEN values[i - at]
           ELSE IF i <= at + Len(values) - Len(v) THEN values[Len(v) - at + i]
           ELSE v[i]
  BY <1>4, TwoRuns
<1> HIDE DEF twice
<1>6. ASSUME NEW i \in 1 .. n PROVE From(twice, h, i) = From(v, h, i)
  <2> DEFINE j == IF h + i <= Len(v) THEN h + i ELSE h + i - Len(v)
  <2>1. From(twice, h, i) = twice[j] /\ From(v, h, i) = v[j]
    BY <1>5 DEF From
  <2>2. /\ j \in 1 .. Len(v)
        /\ ~ (at < j /\ j <= at + Len(values))
        /\ ~ (j <= at + Len(values) - Len(v))
    BY <1>1, <1>3, <1>4
  <2> HIDE DEF j
  <2> QED
    BY <1>5, <2>1, <2>2
<1>7. ASSUME NEW i \in 1 .. Len(values) PROVE From(twice, h, n + i) = values[i]
  <2> DEFINE j == IF h + (n + i) <= Len(v) THEN h + (n + i) ELSE h + (n + i) - Len(v)
  <2>1. From(twice, h, n + i) = twice[j]
    BY <1>5 DEF From
  <2>2. /\ j \in 1 .. Len(v)
        /\ \/ at < j /\ j <= at + Len(values) /\ j - at = i
           \/ j <= at + Len(values) - Len(v) /\ Len(v) - at + j = i /\ ~ at < j
    BY <1>1, <1>3, <1>4
  <2> HIDE DEF j
  <2> QED
    BY <1>5, <2>1, <2>2
<1> QED
  BY <1>5, <1>6, <1>7 DEF at, twice, Behind

\* After an append the queued samples are where they were, and the new ones follow.
LEMMA Appended ==
  ASSUME WellFormed, NEW values \in Bursts, append(values)
  PROVE  /\ WellFormed'
         /\ count' = count + Len(values) /\ Len(values) \in Nat
         /\ \A i \in 1 .. count : At(Ring', i) = At(Ring, i)
         /\ \A i \in 1 .. Len(values) : At(Ring', count + i) = values[i]
<1> DEFINE S     == Samples \cup {Zero}
           ring  == ensure_capacity(count + Len(values))
           v     == ring.storage
           h     == ring.head
<1>1. /\ values \in Seq(Samples) /\ values \in Seq(S) /\ values # <<>>
      /\ Len(values) \in Nat \ {0}
  BY QueueAssumption, SeqMonotonic, EmptySeq DEF append
<1>2. /\ count \in Nat /\ count + Len(values) \in 1 .. MaxQueued
  BY <1>1, QueueAssumption, LenProperties DEF WellFormed, append
<1>3. /\ head' = h /\ count' = count + Len(values)
      /\ storage' = Wrapped(v, (h + count) % Len(v), values)
  BY DEF append, WritePosition, Wrapped
<1>4. /\ v \in Seq(S)
      /\ Len(v) \in Nat /\ Len(v) >= count + Len(values) /\ Len(v) >= MinimumCapacity
      /\ h \in Nat /\ h < Len(v)
      /\ \A i \in 1 .. count : From(v, h, i) = At(Ring, i)
  BY <1>1, <1>2, EnsureCapacity DEF At
<1> HIDE DEF v, h, S
<1>5. /\ storage' \in Seq(S) /\ Len(storage') = Len(v)
      /\ \A i \in 1 .. count : From(storage', h, i) = From(v, h, i)
      /\ \A i \in 1 .. Len(values) : From(storage', h, count + i) = values[i]
  <2>1. /\ v \in Seq(S) /\ h \in Nat /\ h < Len(v) /\ count \in Nat
        /\ values \in Seq(S) /\ count + Len(values) <= Len(v) /\ values # <<>>
    BY <1>1, <1>2, <1>4
  <2> DEFINE new == Behind(v, h, count, values)
  <2>2. /\ new \in Seq(S) /\ Len(new) = Len(v)
        /\ \A i \in 1 .. count : From(new, h, i) = From(v, h, i)
        /\ \A i \in 1 .. Len(values) : From(new, h, count + i) = values[i]
    BY <2>1, RingAppended
  <2>3. storage' = new
    BY <1>3 DEF Behind
  <2> HIDE DEF new
  <2> QED
    BY <2>2, <2>3
<1>6. \A i \in Nat : At(Ring', i) = From(storage', h, i)
  BY <1>3 DEF At, Ring
<1>7. WellFormed'
  BY <1>1, <1>2, <1>3, <1>4, <1>5 DEF WellFormed, S
<1> QED
  BY <1>1, <1>2, <1>3, <1>4, <1>5, <1>6, <1>7

\* After a discard the samples that are left are those behind the discarded ones.
LEMMA DiscardedFront ==
  ASSUME WellFormed, NEW requested \in Requests, discard(requested)
  PROVE  /\ WellFormed'
         /\ Discarded(requested) \in 0 .. count
         /\ count' = count - Discarded(requested)
         /\ \A i \in 1 .. count' : At(Ring', i) = At(Ring, Discarded(requested) + i)
<1> DEFINE size == Len(storage)
           gone == Discarded(requested)
<1>1. /\ size \in Nat /\ count \in Nat /\ count <= size /\ requested \in Nat
      /\ storage = <<>> <=> size = 0
  BY QueueAssumption, LenProperties, EmptySeq DEF WellFormed
<1>2. gone \in Nat /\ gone <= count
  BY <1>1 DEF Discarded, min
<1>3. /\ count' = count - gone /\ storage' = storage
      /\ head' = IF storage = <<>> THEN 0 ELSE (head + gone) % size
  BY DEF discard
<1> HIDE DEF gone, size
<1>4. size # 0 => head' = IF head + gone < size THEN head + gone ELSE head + gone - size
  <2> SUFFICES ASSUME size # 0
               PROVE  head' = IF head + gone < size THEN head + gone ELSE head + gone - size
    OBVIOUS
  <2>1. size \in Nat \ {0} /\ head + gone \in Nat /\ head + gone < 2 * size
    BY <1>1, <1>2 DEF WellFormed, size
  <2> DEFINE a == head + gone
  <2> HIDE DEF a
  <2>2. a % size = IF a < size THEN a ELSE a - size
    BY <2>1, WrapsOnce DEF a
  <2>3. head' = a % size
    BY <1>1, <1>3 DEF a
  <2>4. head' = IF a < size THEN a ELSE a - size
    BY <2>2, <2>3
  <2> QED
    BY <1>2, <2>1, <2>4 DEF a, WellFormed
<1> USE DEF size
<1>5. WellFormed'
  BY <1>1, <1>2, <1>3, <1>4 DEF WellFormed
<1>6. ASSUME NEW i \in 1 .. count' PROVE At(Ring', i) = At(Ring, gone + i)
  <2>1. /\ At(Ring', i) = From(storage, head', i)
        /\ At(Ring, gone + i) = From(storage, head, gone + i)
    BY <1>3 DEF At, Ring
  <2>2. /\ size # 0 /\ i \in 1 .. size /\ i <= size - gone
        /\ head \in Nat /\ head < size
    BY <1>1, <1>2, <1>3 DEF WellFormed
  <2> DEFINE before == head + (gone + i)
             after  == head' + i
             Place(n) == IF n <= size THEN storage[n] ELSE storage[n - size]
  <2>3. size \in Nat /\ head' \in Nat /\ gone \in Nat /\ head \in Nat /\ i \in Nat
    BY <1>1, <1>2, <1>5, <2>2 DEF WellFormed
  <2> HIDE DEF gone
  <2>4. From(storage, head', i) = Place(after)
    BY <2>3 DEF From
  <2>5. From(storage, head, gone + i) = Place(before)
    BY <2>3 DEF From
  <2>6. At(Ring', i) = Place(after) /\ At(Ring, gone + i) = Place(before)
    BY <2>1, <2>4, <2>5, Zenon
  <2>7. CASE head + gone < size
    <3>1. before = after
      BY <1>2, <1>4, <2>2, <2>7
    <3> HIDE DEF before, after
    <3> QED
      BY <2>6, <3>1
  <2>8. CASE head + gone >= size
    <3>1. after = before - size /\ after <= size /\ ~ before <= size
      BY <1>1, <1>2, <1>4, <2>2, <2>8
    <3> HIDE DEF before, after
    <3> QED
      BY <2>6, <3>1
  <2> QED
    BY <1>1, <1>2, <2>2, <2>7, <2>8
<1> QED
  BY <1>1, <1>2, <1>3, <1>5, <1>6 DEF gone
-----------------------------------------------------------------------------
\* The ring is well formed, and what is queued in it are samples, not fresh storage.
Types ==
  /\ WellFormed
  /\ \A i \in 1 .. count : At(Ring, i) \in Samples
  /\ destination \in Seq(Samples)

\* A queue of which every place holds a sample has a sequence of samples in front.
LEMMA FrontIsSamples ==
  ASSUME Types, NEW requested \in 0 .. count
  PROVE  /\ Front(requested) \in Seq(Samples)
         /\ Len(Front(requested)) = requested
         /\ \A i \in 1 .. requested : Front(requested)[i] = At(Ring, i)
<1> DEFINE f == Front(requested)
<1>1. /\ f \in Seq(Samples \cup {Zero}) /\ Len(f) = requested
      /\ \A i \in 1 .. requested : f[i] = At(Ring, i)
  BY FrontProperties DEF Types
<1>2. requested \in Nat /\ requested <= count /\ count \in Nat
  BY LenProperties DEF Types, WellFormed
<1> HIDE DEF f
<1>3. \A i \in 1 .. requested : f[i] \in Samples
  BY <1>1, <1>2 DEF Types
<1>4. f = [i \in 1 .. requested |-> f[i]]
  BY <1>1, LenProperties
<1>5. f \in Seq(Samples)
  BY <1>2, <1>3, <1>4
<1> QED
  BY <1>1, <1>5 DEF f

\* A cleared ring is empty, wherever its head was.
LEMMA Cleared ==
  ASSUME WellFormed, clear
  PROVE  WellFormed' /\ count' = 0
<1>1. Len(storage) \in Nat /\ (storage # <<>> => Len(storage) > 0)
  BY LenProperties, EmptySeq DEF WellFormed
<1> QED
  BY <1>1 DEF clear, WellFormed

\* Every call keeps the types: nothing is copied from or to beyond the storage, and
\* fresh storage never counts as queued.
THEOREM TypesAreKept == Spec => []Types
<1>1. Init => Types
  BY EmptySeq DEF Init, Types, WellFormed
<1>2. Types /\ [Next]_vars => Types'
  <2> SUFFICES ASSUME Types, [Next]_vars PROVE Types'
    OBVIOUS
  <2>0. WellFormed /\ count \in Nat
    BY LenProperties DEF Types, WellFormed
  <2>1. ASSUME NEW values \in Bursts, append(values) PROVE Types'
    <3>1. /\ WellFormed' /\ count' = count + Len(values) /\ Len(values) \in Nat
          /\ \A i \in 1 .. count : At(Ring', i) = At(Ring, i)
          /\ \A i \in 1 .. Len(values) : At(Ring', count + i) = values[i]
      BY <2>0, <2>1, Appended
    <3>2. \A i \in 1 .. Len(values) : values[i] \in Samples
      BY QueueAssumption, ElementOfSeq
    <3>3. ASSUME NEW i \in 1 .. count' PROVE At(Ring', i) \in Samples
      <4>1. CASE i <= count
        BY <2>0, <3>1, <4>1 DEF Types
      <4>2. CASE i > count
        <5> DEFINE j == i - count
        <5>1. j \in 1 .. Len(values) /\ i = count + j
          BY <2>0, <3>1, <4>2
        <5> HIDE DEF j
        <5> QED
          BY <3>1, <3>2, <5>1
      <4> QED
        BY <2>0, <3>1, <4>1, <4>2
    <3>4. destination' \in Seq(Samples)
      BY <2>1 DEF append, Types
    <3> QED
      BY <3>1, <3>3, <3>4 DEF Types
  <2>2. ASSUME NEW requested \in Requests, copy_front(requested) PROVE Types'
    <3>1. min(requested, count) \in 0 .. count
      BY <2>0, QueueAssumption DEF min
    <3>2. destination' \in Seq(Samples)
      BY <2>2, <3>1, FrontIsSamples DEF copy_front
    <3> QED
      BY <2>2, <3>2 DEF copy_front, Types, WellFormed, Ring
  <2>3. ASSUME NEW requested \in Requests, discard(requested) PROVE Types'
    <3> DEFINE gone == Discarded(requested)
    <3>1. /\ WellFormed' /\ gone \in 0 .. count /\ count' = count - gone
          /\ \A i \in 1 .. count' : At(Ring', i) = At(Ring, gone + i)
      BY <2>0, <2>3, DiscardedFront
    <3> HIDE DEF gone
    <3>2. ASSUME NEW i \in 1 .. count' PROVE At(Ring', i) \in Samples
      <4> DEFINE j == gone + i
      <4>1. j \in 1 .. count
        BY <2>0, <3>1
      <4>2. At(Ring', i) = At(Ring, j)
        BY <3>1
      <4> HIDE DEF j
      <4> QED
        BY <4>1, <4>2 DEF Types
    <3>3. destination' \in Seq(Samples)
      BY <2>3 DEF discard, Types
    <3> QED
      BY <3>1, <3>2, <3>3 DEF Types
  <2>4. CASE clear
    <3>1. WellFormed' /\ count' = 0
      BY <2>0, <2>4, Cleared
    <3> QED
      BY <2>4, <3>1 DEF Types, clear
  <2>5. CASE UNCHANGED vars
    BY <2>5 DEF vars, Types, WellFormed, Ring
  <2> QED
    BY <2>1, <2>2, <2>3, <2>4, <2>5 DEF Next
<1> QED
  BY <1>1, <1>2, PTL DEF Spec

\* The queue is well formed: head is an index of the storage, what is queued fits
\* it, and what copy_front returns are samples that were appended.
THEOREM TypeCorrect == Spec => []TypeOK
<1>1. Types => TypeOK
  BY DEF Types, WellFormed, TypeOK
<1> QED
  BY <1>1, TypesAreKept, PTL

\* FrontIsSamples as a formula, now and in the next state.
SamplesInFront ==
  Types => \A requested \in 0 .. count :
    /\ Front(requested) \in Seq(Samples)
    /\ Len(Front(requested)) = requested
    /\ \A i \in 1 .. requested : Front(requested)[i] = At(Ring, i)

\* It is true now.
LEMMA SamplesNow == SamplesInFront
BY FrontIsSamples DEF SamplesInFront

\* It is true in the next state.
LEMMA SamplesNext == SamplesInFront'
BY SamplesNow, PTL

\* The whole queue, before and after a step.
LEMMA WholeQueue ==
  ASSUME Types, Types'
  PROVE  /\ count \in Nat /\ count' \in Nat
         /\ Front(count) \in Seq(Samples) /\ Len(Front(count)) = count
         /\ \A i \in 1 .. count : Front(count)[i] = At(Ring, i)
         /\ Front(count)' \in Seq(Samples) /\ Len(Front(count)') = count'
         /\ \A i \in 1 .. count' : Front(count)'[i] = At(Ring', i)
<1>1. count \in Nat
  BY LenProperties DEF Types, WellFormed
<1>2. count' \in Nat
  BY LenProperties DEF Types, WellFormed
<1>3. count \in 0 .. count /\ count' \in 0 .. count'
  BY <1>1, <1>2
<1>4. /\ Front(count) \in Seq(Samples) /\ Len(Front(count)) = count
      /\ \A i \in 1 .. count : Front(count)[i] = At(Ring, i)
  BY <1>3, SamplesNow DEF SamplesInFront
<1>5. /\ Front(count)' \in Seq(Samples) /\ Len(Front(count)') = count'
      /\ \A i \in 1 .. count' : Front(count)'[i] = At(Ring', i)
  BY <1>3, SamplesNext DEF SamplesInFront
<1> QED
  BY <1>1, <1>2, <1>4, <1>5
-----------------------------------------------------------------------------
\* An append puts the values behind the queue.
LEMMA AppendPuts ==
  ASSUME Types, Types', NEW values \in Bursts, append(values)
  PROVE  Fifo!Put(values)
<1> DEFINE f == Front(count)
           g == Front(count)'
           h == f \o values
<1>1. /\ count \in Nat /\ f \in Seq(Samples) /\ Len(f) = count
      /\ \A i \in 1 .. count : f[i] = At(Ring, i)
      /\ g \in Seq(Samples) /\ Len(g) = count'
      /\ \A i \in 1 .. count' : g[i] = At(Ring', i)
  BY WholeQueue
<1>2. /\ count' = count + Len(values) /\ Len(values) \in Nat
      /\ \A i \in 1 .. count : At(Ring', i) = At(Ring, i)
      /\ \A i \in 1 .. Len(values) : At(Ring', count + i) = values[i]
  BY Appended DEF Types
<1>3. values \in Seq(Samples)
  BY QueueAssumption
<1> HIDE DEF f, g
<1>4. /\ h \in Seq(Samples) /\ Len(h) = Len(f) + Len(values)
      /\ \A i \in 1 .. Len(f) + Len(values) :
           h[i] = IF i <= Len(f) THEN f[i] ELSE values[i - Len(f)]
  BY <1>1, <1>3, ConcatProperties
<1> HIDE DEF h
<1>5. ASSUME NEW i \in 1 .. Len(g) PROVE g[i] = h[i]
  <2>1. i \in 1 .. count + Len(values) /\ g[i] = At(Ring', i)
    BY <1>1, <1>2
  <2>2. CASE i <= count
    BY <1>1, <1>2, <1>4, <2>1, <2>2
  <2>3. CASE i > count
    <3> DEFINE j == i - count
    <3>1. j \in 1 .. Len(values) /\ i = count + j
      BY <1>1, <1>2, <2>1, <2>3
    <3>2. h[i] = values[j]
      BY <1>1, <1>4, <2>1, <2>3
    <3> HIDE DEF j
    <3> QED
      BY <1>2, <2>1, <3>1, <3>2
  <2> QED
    BY <1>1, <2>1, <2>2, <2>3
<1>6. Len(g) = Len(h)
  BY <1>1, <1>2, <1>4
<1>7. g = h
  BY <1>1, <1>4, <1>5, <1>6, SeqEqual
<1>8. call' = <<"append", values>> /\ UNCHANGED destination
  BY DEF append
<1> QED
  BY <1>7, <1>8 DEF Fifo!Put, f, g, h

\* A copy of the front shows the oldest of the queue, as many as there are.
LEMMA CopyPeeks ==
  ASSUME Types, Types', NEW requested \in Requests, copy_front(requested)
  PROVE  Fifo!Peek(requested)
<1> DEFINE f    == Front(count)
           some == min(requested, count)
           g    == Front(some)
           h    == SubSeq(f, 1, some)
<1>1. /\ count \in Nat /\ f \in Seq(Samples) /\ Len(f) = count
      /\ \A i \in 1 .. count : f[i] = At(Ring, i)
  BY WholeQueue
<1>2. some \in 0 .. count
  BY <1>1, QueueAssumption DEF min
<1>3. /\ destination' = g /\ Front(count)' = f /\ call' = <<"copy_front", requested>>
  BY DEF copy_front, Front
<1>4. some = Fifo!Least(requested, Len(f))
  BY <1>1 DEF min, Fifo!Least
<1> HIDE DEF f, some
<1>5. /\ g \in Seq(Samples) /\ Len(g) = some
      /\ \A i \in 1 .. some : g[i] = At(Ring, i)
  BY <1>2, FrontIsSamples
<1> HIDE DEF g
<1>6. /\ h \in Seq(Samples) /\ Len(h) = some
      /\ \A i \in 1 .. some : h[i] = f[i]
  <2>1. \A i \in 1 .. some : f[i] \in Samples
    BY <1>1, <1>2, ElementOfSeq
  <2>2. /\ h \in Seq(Samples)
        /\ Len(h) = IF 1 <= some THEN some - 1 + 1 ELSE 0
        /\ \A i \in 1 .. some - 1 + 1 : h[i] = f[1 + i - 1]
    BY <1>1, <1>2, <2>1, SubSeqProperties
  <2> QED
    BY <1>1, <1>2, <2>2
<1> HIDE DEF h
<1>7. g = h
  BY <1>1, <1>2, <1>5, <1>6, SeqEqual
<1> QED
  BY <1>3, <1>4, <1>7 DEF Fifo!Peek, f, h

\* A discard drops the oldest of the queue, as many as there are.
LEMMA DiscardDrops ==
  ASSUME Types, Types', NEW requested \in Requests, discard(requested)
  PROVE  Fifo!Drop(requested)
<1> DEFINE f    == Front(count)
           g    == Front(count)'
           gone == Discarded(requested)
           h    == SubSeq(f, gone + 1, Len(f))
<1>1. /\ count \in Nat /\ f \in Seq(Samples) /\ Len(f) = count
      /\ \A i \in 1 .. count : f[i] = At(Ring, i)
      /\ g \in Seq(Samples) /\ Len(g) = count'
      /\ \A i \in 1 .. count' : g[i] = At(Ring', i)
  BY WholeQueue
<1>2. /\ gone \in 0 .. count /\ count' = count - gone
      /\ \A i \in 1 .. count' : At(Ring', i) = At(Ring, gone + i)
  BY DiscardedFront DEF Types
<1>3. /\ UNCHANGED destination /\ call' = <<"discard", requested>>
  BY DEF discard
<1>4. gone = Fifo!Least(requested, Len(f))
  BY <1>1 DEF Discarded, min, Fifo!Least
<1> HIDE DEF f, g, gone
<1>5. /\ h \in Seq(Samples) /\ Len(h) = count - gone
      /\ \A i \in 1 .. count - gone : h[i] = f[gone + i]
  <2>1. \A i \in gone + 1 .. count : f[i] \in Samples
    BY <1>1, <1>2, ElementOfSeq
  <2>2. /\ h \in Seq(Samples)
        /\ Len(h) = IF gone + 1 <= count THEN count - (gone + 1) + 1 ELSE 0
        /\ \A i \in 1 .. count - (gone + 1) + 1 : h[i] = f[gone + 1 + i - 1]
    BY <1>1, <1>2, <2>1, SubSeqProperties
  <2> QED
    BY <1>1, <1>2, <2>2
<1> HIDE DEF h
<1>6. ASSUME NEW i \in 1 .. Len(g) PROVE g[i] = h[i]
  <2> DEFINE j == gone + i
  <2>1. i \in 1 .. count' /\ j \in 1 .. count
    BY <1>1, <1>2
  <2>2. g[i] = At(Ring, j) /\ h[i] = f[j]
    BY <1>1, <1>2, <1>5, <2>1
  <2> HIDE DEF j
  <2> QED
    BY <1>1, <2>1, <2>2
<1>7. g = h
  BY <1>1, <1>2, <1>5, <1>6, SeqEqual
<1> QED
  BY <1>3, <1>4, <1>7 DEF Fifo!Drop, f, g, h

\* The ring buffer is a first-in first-out queue: every call is the one of the same
\* name of the queue whose items are the front of the ring, across every wrap-around
\* and every expansion, for every capacity to begin with.
THEOREM ImplementsFifo == Spec => FifoOrder
<1>1. Init => Fifo!FifoInit
  <2> SUFFICES ASSUME Init PROVE Fifo!FifoInit
    OBVIOUS
  <2>1. WellFormed /\ count = 0 /\ 0 \in 0 .. count
    BY EmptySeq DEF Init, WellFormed
  <2>2. Front(0) \in Seq(Samples \cup {Zero}) /\ Len(Front(0)) = 0
    BY <2>1, FrontProperties
  <2>3. Front(count) = <<>>
    BY <2>1, <2>2, EmptySeq
  <2> QED
    BY <2>3 DEF Init, Fifo!FifoInit
<1>2. Types /\ Types' /\ [Next]_vars => [Fifo!FifoNext]_(Fifo!fifoVars)
  <2> SUFFICES ASSUME Types, Types', [Next]_vars
               PROVE  [Fifo!FifoNext]_(Fifo!fifoVars)
    OBVIOUS
  <2>1. ASSUME NEW values \in Bursts, append(values) PROVE Fifo!FifoNext
    BY <2>1, AppendPuts DEF Fifo!FifoNext
  <2>2. ASSUME NEW requested \in Requests, copy_front(requested) \/ discard(requested)
        PROVE  Fifo!FifoNext
    BY <2>2, CopyPeeks, DiscardDrops DEF Fifo!FifoNext
  <2>3. CASE clear
    <3>1. count' = 0
      BY <2>3 DEF clear
    <3>2. Front(count)' \in Seq(Samples) /\ Len(Front(count)') = 0
      BY <3>1, WholeQueue
    <3>3. Front(count)' = <<>>
      BY <3>2, EmptySeq
    <3> QED
      BY <2>3, <3>3 DEF clear, Fifo!Empty, Fifo!FifoNext
  <2>4. CASE UNCHANGED vars
    BY <2>4 DEF vars, Front, Fifo!fifoVars
  <2> QED
    BY <2>1, <2>2, <2>3, <2>4 DEF Next
<1> QED
  BY <1>1, <1>2, TypesAreKept, PTL DEF Spec, FifoOrder, Fifo!FifoSpec
=============================================================================
