------------------------------ MODULE RingBuf ------------------------------
(* The byte ring of common/ringbuf.c.  Its memory is mapped twice, one copy *)
(* right after the other, so a client copies a chunk to or from one linear  *)
(* address and then advances the offset.  The offsets have no lock and      *)
(* ring_buffer_read_advance writes both, so a ring is used by one thread    *)
(* and a transfer (the copy and the advance) is one step.                   *)
EXTENDS Integers, Sequences

CONSTANTS
    RingBytes,     \* values of a byte
    count_bytes    \* the size of the ring, 1 << order

ASSUME CountAssumption == count_bytes \in Nat \ {0}

ASSUME RingBytesAssumption == 0 \in RingBytes

VARIABLES
    write_offset_bytes,
    read_offset_bytes,
    memory       \* the shared file behind both mappings

ringVars == <<write_offset_bytes, read_offset_bytes, memory>>

RingTypeOK ==
    /\ write_offset_bytes \in Nat
    /\ read_offset_bytes \in Nat
    /\ memory \in [0..(count_bytes - 1) -> RingBytes]

\* ring_buffer_create: the file behind the mappings is new, so it reads as zeroes.
RingInit ==
    /\ write_offset_bytes = 0
    /\ read_offset_bytes = 0
    /\ memory = [i \in 0..(count_bytes - 1) |-> 0]

\* The byte both mappings put at this offset from `address`.
Cell(offset) == offset % count_bytes

ring_buffer_count_bytes == write_offset_bytes - read_offset_bytes

\* Mutant: one byte of free space too many.
FreeBytesOneMore == count_bytes - ring_buffer_count_bytes + 1

ring_buffer_count_free_bytes == count_bytes - ring_buffer_count_bytes

\* A client copies a chunk that fits to ring_buffer_write_address and calls
\* ring_buffer_write_advance.
RingWrite ==
    \E m \in 1..ring_buffer_count_free_bytes : \E chunk \in [1..m -> RingBytes] :
      /\ memory' = [i \in DOMAIN memory |->
                      LET k == (i - write_offset_bytes) % count_bytes
                      IN  IF k < m THEN chunk[k + 1] ELSE memory[i]]
      /\ write_offset_bytes' = write_offset_bytes + m
      /\ UNCHANGED read_offset_bytes

\* Mutant: the offsets are taken back one byte too early.
WrapsEarly(offset) == offset >= count_bytes - 1

\* The reader has left the first mapping.
Wraps(offset) == offset >= count_bytes

\* Mutant: only the read offset is taken back.
WriteTakenBackNever(wraps) == write_offset_bytes

\* The write offset when the read offset is taken back, or not.
WriteTakenBack(wraps) == IF wraps THEN write_offset_bytes - count_bytes ELSE write_offset_bytes

\* ring_buffer_read_advance
RingRead ==
    \E m \in 1..ring_buffer_count_bytes :
      LET offset == read_offset_bytes + m
      IN  /\ read_offset_bytes' = IF Wraps(offset) THEN offset - count_bytes ELSE offset
          /\ write_offset_bytes' = WriteTakenBack(Wraps(offset))
          /\ UNCHANGED memory

ring_buffer_clear ==
    /\ write_offset_bytes' = 0
    /\ read_offset_bytes' = 0
    /\ UNCHANGED memory

RingNext == RingWrite \/ RingRead \/ ring_buffer_clear

RingSpec == RingInit /\ [][RingNext]_ringVars

-----------------------------------------------------------------------------
(* What the ring promises.                                                  *)

\* A chunk that fits is copied inside the two mappings: reading starts in the
\* first one, and the free space ends before the end of the second.
InsideMappings ==
    /\ read_offset_bytes < count_bytes
    /\ read_offset_bytes <= write_offset_bytes
    /\ write_offset_bytes <= read_offset_bytes + count_bytes

\* The bytes from ring_buffer_read_address on.
Content == [i \in 1..ring_buffer_count_bytes |-> memory[Cell(read_offset_bytes + i - 1)]]

AbstractFifo == INSTANCE Fifo WITH Bytes <- RingBytes, Capacity <- count_bytes, content <- Content

\* Bytes come out in the order they went in, none lost, none twice, none
\* overwritten before it is read.
ImplementsFifo == AbstractFifo!Spec

=============================================================================
