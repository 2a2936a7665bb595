--------------------------- MODULE RingBufProofs ---------------------------
(* Proofs about the byte ring of RingBuf, for every size of the ring and    *)
(* every set of byte values.                                                *)
EXTENDS RingBuf, SequenceTheorems, TLAPS

\* The remainder by the ring's size is an index of its memory.
LEMMA CellInRange ==
    ASSUME NEW i \in Int
    PROVE  Cell(i) \in 0..(count_bytes - 1)
  BY CountAssumption DEF Cell

\* A chunk copied into the ring leaves a memory of the same size behind it.
LEMMA WriteKeepsMemory == RingTypeOK /\ InsideMappings /\ RingWrite => RingTypeOK' /\ InsideMappings'
<1> SUFFICES ASSUME RingTypeOK, InsideMappings, RingWrite PROVE RingTypeOK' /\ InsideMappings'
  OBVIOUS
<1> USE CountAssumption
<1>1. PICK m \in 1..ring_buffer_count_free_bytes : \E chunk \in [1..m -> RingBytes] :
         /\ memory' = [i \in DOMAIN memory |->
                         LET k == (i - write_offset_bytes) % count_bytes
                         IN  IF k < m THEN chunk[k + 1] ELSE memory[i]]
         /\ write_offset_bytes' = write_offset_bytes + m
         /\ UNCHANGED read_offset_bytes
  BY DEF RingWrite
<1>2. PICK chunk \in [1..m -> RingBytes] :
         memory' = [i \in DOMAIN memory |->
                      LET k == (i - write_offset_bytes) % count_bytes
                      IN  IF k < m THEN chunk[k + 1] ELSE memory[i]]
  BY <1>1
<1>3. m \in Nat /\ m <= count_bytes - (write_offset_bytes - read_offset_bytes)
  BY <1>1 DEF ring_buffer_count_free_bytes, ring_buffer_count_bytes, RingTypeOK
<1>4. memory' \in [0..(count_bytes - 1) -> RingBytes]
  <2>1. ASSUME NEW i \in 0..(count_bytes - 1)
        PROVE  (i - write_offset_bytes) % count_bytes \in 0..(count_bytes - 1)
    <3>1. i - write_offset_bytes \in Int
      BY DEF RingTypeOK
    <3> QED
      BY <3>1, CellInRange DEF Cell
  <2>2. DOMAIN memory = 0..(count_bytes - 1)
    BY DEF RingTypeOK
  <2>3. ASSUME NEW i \in 0..(count_bytes - 1), NEW k \in 0..(count_bytes - 1)
        PROVE  (IF k < m THEN chunk[k + 1] ELSE memory[i]) \in RingBytes
    <3>1. CASE k < m
      <4>1. k + 1 \in 1..m
        BY <1>3, <3>1
      <4> QED
        BY <3>1, <4>1
    <3>2. CASE ~(k < m)
      BY <3>2 DEF RingTypeOK
    <3> QED
      BY <3>1, <3>2
  <2> DEFINE New(i) == LET k == (i - write_offset_bytes) % count_bytes
                       IN  IF k < m THEN chunk[k + 1] ELSE memory[i]
  <2>4. ASSUME NEW i \in 0..(count_bytes - 1) PROVE New(i) \in RingBytes
    BY <2>1, <2>3
  <2>5. memory' = [i \in 0..(count_bytes - 1) |-> New(i)]
    BY <1>2, <2>2
  <2> HIDE DEF New
  <2> QED
    BY <2>4, <2>5
<1>5. write_offset_bytes' = write_offset_bytes + m /\ read_offset_bytes' = read_offset_bytes
  BY <1>1
<1> QED
  BY <1>3, <1>4, <1>5 DEF RingTypeOK, InsideMappings

\* Reading keeps the offsets in place: both are taken back, or none.
LEMMA ReadKeepsOffsets == RingTypeOK /\ InsideMappings /\ RingRead => RingTypeOK' /\ InsideMappings'
<1> SUFFICES ASSUME RingTypeOK, InsideMappings, RingRead PROVE RingTypeOK' /\ InsideMappings'
  OBVIOUS
<1>0. PICK m \in 1..ring_buffer_count_bytes :
        LET offset == read_offset_bytes + m
        IN  /\ read_offset_bytes' = IF Wraps(offset) THEN offset - count_bytes ELSE offset
            /\ write_offset_bytes' = WriteTakenBack(Wraps(offset))
            /\ UNCHANGED memory
  BY DEF RingRead
<1>1. m \in Nat /\ m >= 1 /\ m <= write_offset_bytes - read_offset_bytes
  BY <1>0 DEF ring_buffer_count_bytes, RingTypeOK
<1>2. CASE read_offset_bytes + m >= count_bytes
  BY <1>0, <1>1, <1>2, CountAssumption DEF RingTypeOK, InsideMappings, Wraps, WriteTakenBack
<1>3. CASE ~(read_offset_bytes + m >= count_bytes)
  BY <1>0, <1>1, <1>3, CountAssumption DEF RingTypeOK, InsideMappings, Wraps, WriteTakenBack
<1> QED
  BY <1>2, <1>3

\* The ring stays well formed, and a transfer stays inside the two mappings:
\* InsideMappings is inductive once the types are known.
THEOREM StaysInside == RingSpec => [](RingTypeOK /\ InsideMappings)
<1>1. RingInit => RingTypeOK /\ InsideMappings
  BY CountAssumption, RingBytesAssumption DEF RingInit, RingTypeOK, InsideMappings
<1>2. RingTypeOK /\ InsideMappings /\ [RingNext]_ringVars => RingTypeOK' /\ InsideMappings'
  <2> SUFFICES ASSUME RingTypeOK, InsideMappings, [RingNext]_ringVars PROVE RingTypeOK' /\ InsideMappings'
    OBVIOUS
  <2>1. CASE ring_buffer_clear
    BY <2>1, CountAssumption DEF ring_buffer_clear, RingTypeOK, InsideMappings
  <2>2. CASE UNCHANGED ringVars
    BY <2>2 DEF ringVars, RingTypeOK, InsideMappings
  <2> QED
    BY <2>1, <2>2, WriteKeepsMemory, ReadKeepsOffsets DEF RingNext
<1> QED
  BY <1>1, <1>2, PTL DEF RingSpec

\* The offsets and the memory of the ring keep their types.
THEOREM TypeCorrect == RingSpec => []RingTypeOK
  BY StaysInside, PTL

-----------------------------------------------------------------------------
(* The ring implements the queue of Fifo.                                   *)

LEMMA CellOf ==
    ASSUME NEW o \in Nat, o < 2 * count_bytes
    PROVE  Cell(o) = IF o < count_bytes THEN o ELSE o - count_bytes
<1>1. CASE o < count_bytes
  BY <1>1, CountAssumption DEF Cell
<1>2. CASE o >= count_bytes
  BY <1>2, CountAssumption DEF Cell
<1> QED
  BY <1>1, <1>2, CountAssumption

\* Offsets a lap apart are the same cell.
LEMMA SameCell ==
    ASSUME NEW a \in Nat, NEW b \in Nat, a < 2 * count_bytes, b = a \/ b = a - count_bytes
    PROVE  Cell(b) = Cell(a)
<1>1. CASE b = a
  BY <1>1
<1>2. CASE b = a - count_bytes
  <2>1. b < count_bytes /\ ~(a < count_bytes)
    BY <1>2, CountAssumption
  <2>2. Cell(a) = a - count_bytes
    BY <2>1, CellOf
  <2>3. Cell(b) = b
    BY <2>1, CellOf, CountAssumption
  <2> QED
    BY <1>2, <2>2, <2>3
<1> QED
  BY <1>1, <1>2

\* How far cell o lies behind the write offset w, going round the ring.
LEMMA Distance ==
    ASSUME NEW o \in Nat, NEW w \in Nat, o < 2 * count_bytes,
           w - count_bytes <= o, o < w + count_bytes
    PROVE  (Cell(o) - w) % count_bytes = IF o >= w THEN o - w ELSE o - w + count_bytes
<1> USE CountAssumption
<1> DEFINE d == o - w
<1>1. Cell(o) - w = d \/ Cell(o) - w = d - count_bytes
  BY CellOf
<1>2. d \in Int /\ -count_bytes <= d /\ d < count_bytes
  OBVIOUS
<1> HIDE DEF d
<1>3. CASE d >= 0
  <2>1. d % count_bytes = d
    BY <1>2, <1>3
  <2>2. (d - count_bytes) % count_bytes = d
    BY <1>2, <1>3
  <2> QED
    BY <1>1, <1>3, <2>1, <2>2 DEF d
<1>4. CASE d < 0
  <2>1. d % count_bytes = d + count_bytes
    BY <1>2, <1>4
  <2>2. (d - count_bytes) % count_bytes = d + count_bytes
    BY <1>2, <1>4
  <2> QED
    BY <1>1, <1>4, <2>1, <2>2 DEF d
<1> QED
  BY <1>2, <1>3, <1>4

LEMMA ContentIsSeq ==
    ASSUME RingTypeOK, InsideMappings
    PROVE  /\ ring_buffer_count_bytes \in 0..count_bytes
           /\ Content \in Seq(RingBytes) /\ Len(Content) = ring_buffer_count_bytes
<1>1. ring_buffer_count_bytes \in 0..count_bytes
  BY CountAssumption DEF RingTypeOK, InsideMappings, ring_buffer_count_bytes
<1>2. ASSUME NEW i \in 1..ring_buffer_count_bytes
      PROVE  memory[Cell(read_offset_bytes + i - 1)] \in RingBytes
  <2>1. read_offset_bytes + i - 1 \in Int
    BY <1>1 DEF RingTypeOK
  <2> QED
    BY <2>1, CellInRange DEF RingTypeOK
<1>3. Content \in [1..ring_buffer_count_bytes -> RingBytes]
  BY <1>2 DEF Content
<1> QED
  BY <1>1, <1>3

LEMMA WriteAppends ==
    ASSUME RingTypeOK, InsideMappings, RingTypeOK', InsideMappings', RingWrite
    PROVE  AbstractFifo!Write
<1> USE CountAssumption
<1> DEFINE n == ring_buffer_count_bytes
           r == read_offset_bytes
           w == write_offset_bytes
<1>1. PICK m \in 1..ring_buffer_count_free_bytes : \E chunk \in [1..m -> RingBytes] :
         /\ memory' = [i \in DOMAIN memory |->
                         LET k == (i - w) % count_bytes
                         IN  IF k < m THEN chunk[k + 1] ELSE memory[i]]
         /\ write_offset_bytes' = w + m
         /\ read_offset_bytes' = r
  BY DEF RingWrite
<1>2. PICK chunk \in [1..m -> RingBytes] :
         memory' = [i \in DOMAIN memory |->
                      LET k == (i - w) % count_bytes
                      IN  IF k < m THEN chunk[k + 1] ELSE memory[i]]
  BY <1>1
<1>3. /\ r \in Nat /\ w \in Nat /\ r < count_bytes /\ r <= w /\ n = w - r /\ n \in 0..count_bytes
      /\ m \in Nat /\ m >= 1 /\ m <= count_bytes - n
  BY ContentIsSeq DEF RingTypeOK, InsideMappings, ring_buffer_count_bytes, ring_buffer_count_free_bytes
<1>4. ring_buffer_count_bytes' = n + m
  BY <1>1, <1>3 DEF ring_buffer_count_bytes
<1>5. ASSUME NEW i \in 1..(n + m)
      PROVE  memory'[Cell(r + i - 1)] = IF i <= n THEN memory[Cell(r + i - 1)] ELSE chunk[i - n]
  <2> DEFINE o == r + i - 1
             k == (Cell(o) - w) % count_bytes
  <2>1. o \in Nat /\ o < 2 * count_bytes /\ w - count_bytes <= o /\ o < w + count_bytes
    BY <1>3
  <2> HIDE DEF o
  <2>2. Cell(o) \in DOMAIN memory
    <3>1. o \in Int
      BY <2>1
    <3> QED
      BY <3>1, CellInRange DEF RingTypeOK
  <2>3. memory'[Cell(o)] = IF k < m THEN chunk[k + 1] ELSE memory[Cell(o)]
    BY <1>2, <2>2
  <2>4. k = IF o >= w THEN o - w ELSE o - w + count_bytes
    BY <1>3, <2>1, Distance
  <2> HIDE DEF k
  <2>5. CASE i <= n
    <3>1. ~(k < m)
      BY <1>3, <2>4, <2>5 DEF o
    <3> QED
      BY <2>3, <2>5, <3>1 DEF o
  <2>6. CASE ~(i <= n)
    <3>1. k < m /\ k + 1 = i - n
      BY <1>3, <2>4, <2>6 DEF o
    <3> QED
      BY <2>3, <2>6, <3>1 DEF o
  <2> QED
    BY <2>5, <2>6
<1>6. Content' = [i \in 1..(n + m) |-> memory'[Cell(r + i - 1)]]
  BY <1>1, <1>4 DEF Content, Cell
<1>7. /\ Content \o chunk \in Seq(RingBytes) /\ Len(Content \o chunk) = n + m
      /\ \A i \in 1..(n + m) :
           (Content \o chunk)[i] = IF i <= n THEN Content[i] ELSE chunk[i - n]
  <2>1. chunk \in Seq(RingBytes) /\ Len(chunk) = m
    BY <1>3
  <2>2. Content \in Seq(RingBytes) /\ Len(Content) = n
    BY ContentIsSeq
  <2>3. /\ Content \o chunk \in Seq(RingBytes)
        /\ Len(Content \o chunk) = Len(Content) + Len(chunk)
        /\ \A i \in 1..(Len(Content) + Len(chunk)) :
             (Content \o chunk)[i] = IF i <= Len(Content) THEN Content[i]
                                     ELSE chunk[i - Len(Content)]
    BY <2>1, <2>2, ConcatProperties
  <2> QED
    BY <2>1, <2>2, <2>3
<1>8. \A i \in 1..(n + m) : i <= n => Content[i] = memory[Cell(r + i - 1)]
  BY <1>3 DEF Content
<1>9. Content' = Content \o chunk
  <2>1. Content \o chunk \in [1..(n + m) -> RingBytes]
    BY <1>7, LenProperties
  <2>2. Content \o chunk = [i \in 1..(n + m) |-> (Content \o chunk)[i]]
    BY <2>1, Zenon
  <2>3. \A i \in 1..(n + m) : memory'[Cell(r + i - 1)] = (Content \o chunk)[i]
    BY <1>5, <1>7, <1>8
  <2> QED
    BY <1>6, <2>2, <2>3
<1>10. m \in 1..(count_bytes - Len(Content))
  BY <1>3, ContentIsSeq
<1> QED
  BY <1>9, <1>10 DEF AbstractFifo!Write

LEMMA ReadDrops ==
    ASSUME RingTypeOK, InsideMappings, RingTypeOK', InsideMappings', RingRead
    PROVE  AbstractFifo!Read
<1> USE CountAssumption
<1> DEFINE n == ring_buffer_count_bytes
           r == read_offset_bytes
           w == write_offset_bytes
<1>1. PICK m \in 1..n :
        LET offset == r + m
        IN  /\ read_offset_bytes' = IF Wraps(offset) THEN offset - count_bytes ELSE offset
            /\ write_offset_bytes' = WriteTakenBack(Wraps(offset))
            /\ UNCHANGED memory
  BY DEF RingRead
<1>2. /\ r \in Nat /\ w \in Nat /\ r < count_bytes /\ r <= w /\ n = w - r /\ n \in 0..count_bytes
      /\ m \in Nat /\ m >= 1 /\ m <= n
  BY <1>1, ContentIsSeq DEF RingTypeOK, InsideMappings, ring_buffer_count_bytes
<1>3. ring_buffer_count_bytes' = n - m
  BY <1>1, <1>2 DEF ring_buffer_count_bytes, WriteTakenBack, RingTypeOK, InsideMappings
<1>4. PICK new : read_offset_bytes' = new
  OBVIOUS
<1>5. new \in Nat /\ (new = r + m \/ new = r + m - count_bytes)
  BY <1>1, <1>2, <1>4 DEF Wraps
<1>6. ASSUME NEW i \in 1..(n - m) PROVE Cell(new + i - 1) = Cell(r + (i + m) - 1)
  <2> DEFINE a == r + (i + m) - 1
             b == new + i - 1
  <2>1. i \in Nat /\ i >= 1 /\ i + m <= n
    BY <1>2
  <2>2. a \in Nat /\ a < 2 * count_bytes
    BY <1>2, <2>1
  <2>3. b = a \/ b = a - count_bytes
    BY <1>2, <1>5, <2>1
  <2>4. b \in Nat
    BY <1>5, <2>1
  <2> HIDE DEF a, b
  <2>5. Cell(b) = Cell(a)
    BY <2>2, <2>3, <2>4, SameCell
  <2> QED
    BY <2>5 DEF a, b
<1>7. Content' = [i \in 1..(n - m) |-> memory[Cell(new + i - 1)]]
  BY <1>1, <1>3, <1>4 DEF Content, Cell
<1>8. SubSeq(Content, m + 1, n) = [i \in 1..(n - m) |-> Content[i + m]]
  <2>1. SubSeq(Content, m + 1, n) = [i \in 1..(n - (m + 1) + 1) |-> Content[i + (m + 1) - 1]]
    BY <1>2, ContentIsSeq
  <2>2. n - (m + 1) + 1 = n - m /\ \A i \in 1..(n - m) : i + (m + 1) - 1 = i + m
    BY <1>2
  <2> QED
    BY <2>1, <2>2
<1>9. \A i \in 1..(n - m) : Content[i + m] = memory[Cell(r + (i + m) - 1)]
  BY <1>2 DEF Content
<1>10. Content' = SubSeq(Content, m + 1, n)
  BY <1>6, <1>7, <1>8, <1>9
<1>11. Len(Content) = n
  BY ContentIsSeq
<1> QED
  BY <1>1, <1>10, <1>11 DEF AbstractFifo!Read

\* Bytes come out in the order they went in: the ring implements the bounded
\* queue, for every size and every chunk.
THEOREM FifoImplemented == RingSpec => ImplementsFifo
<1>1. RingInit => AbstractFifo!Init
  <2> SUFFICES ASSUME RingInit PROVE Content = <<>>
    BY DEF AbstractFifo!Init
  <2>1. ring_buffer_count_bytes = 0
    BY DEF RingInit, ring_buffer_count_bytes
  <2> QED
    BY <2>1 DEF Content
<1>2. /\ RingTypeOK /\ InsideMappings
      /\ (RingTypeOK /\ InsideMappings)'
      /\ [RingNext]_ringVars
      => [AbstractFifo!Next]_Content
  <2> SUFFICES ASSUME RingTypeOK, InsideMappings, RingTypeOK', InsideMappings', [RingNext]_ringVars
               PROVE  AbstractFifo!Next \/ Content' = Content
    OBVIOUS
  <2>1. CASE RingWrite
    BY <2>1, WriteAppends DEF AbstractFifo!Next
  <2>2. CASE RingRead
    BY <2>2, ReadDrops DEF AbstractFifo!Next
  <2>3. CASE ring_buffer_clear
    <3>1. ring_buffer_count_bytes' = 0
      BY <2>3 DEF ring_buffer_clear, ring_buffer_count_bytes
    <3>2. Content' = <<>>
      BY <3>1 DEF Content
    <3> QED
      BY <3>2 DEF AbstractFifo!Next, AbstractFifo!Clear
  <2>4. CASE UNCHANGED ringVars
    BY <2>4 DEF ringVars, Content, ring_buffer_count_bytes, Cell
  <2> QED
    BY <2>1, <2>2, <2>3, <2>4 DEF RingNext
<1> QED
  BY <1>1, <1>2, StaysInside, PTL DEF RingSpec, ImplementsFifo, AbstractFifo!Spec

=============================================================================
