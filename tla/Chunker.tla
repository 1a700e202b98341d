------------------------------- MODULE Chunker -------------------------------
(***************************************************************************)
(* landro-chunker/src/chunker.rs: where the content of a file is cut into  *)
(* chunks.                                                                 *)
(*                                                                         *)
(* Positions are the code's, from 0.  The 64 bits of the hash, the window  *)
(* of 48 bytes and the sizes are parameters; the gear table, 256 fixed     *)
(* pseudo-random numbers in the code, is one as well.                      *)
(***************************************************************************)
EXTENDS FiniteSetsExt, Naturals, Sequences

CONSTANTS
    Gear,                           \* the table: a number for every byte
    Width,                          \* bits of the hash
    WINDOW_SIZE, mask_bits,
    min_size, avg_size, max_size,   \* ChunkerConfig
    MaxLength                       \* bytes of a stream (bound)

(* The sizes must be in order; the absolute limits are left out. *)
validate_config == min_size < avg_size /\ avg_size < max_size /\ mask_bits \in 1..32

ASSUME ChunkerAssumption ==
    /\ {min_size, avg_size, max_size, Width} \subseteq Nat
    /\ validate_config /\ WINDOW_SIZE \in 1..(Width - 1)

VARIABLE buffer   \* what chunk_stream has read

Word == 2^Width
rotate_left(x, k) == ((x * 2^k) % Word) + ((x * 2^k) \div Word)
wrapping_add(x, y) == (x + y) % Word
wrapping_sub(x, y) == (x + Word - y) % Word
Smaller(x, y) == Min({x, y})

-----------------------------------------------------------------------------
(* The hash of the first window from start on. *)
FirstHash(data, start) ==
    LET h[i \in 0..WINDOW_SIZE] ==
            IF i = 0 THEN 0
            ELSE wrapping_add(rotate_left(h[i - 1], 1), Gear[data[start + i]])
    IN  h[WINDOW_SIZE]

(* Takes the byte that leaves the window out and the new one in. *)
Roll(hash, old, new) ==
    wrapping_add(rotate_left(wrapping_sub(hash, rotate_left(Gear[old], WINDOW_SIZE)), 1), Gear[new])

(* The hash when the scan from start is at pos. *)
HashAt(data, start, position) ==
    LET first == start + WINDOW_SIZE - 1
        h[pos \in first..position] ==
            IF pos = first THEN FirstHash(data, start)
            ELSE Roll(h[pos - 1], data[pos - WINDOW_SIZE + 1], data[pos + 1])
    IN  h[position]

ScanWholeBuffer(data, start_pos, max_pos) ==
    LET hits == {pos \in (start_pos + WINDOW_SIZE)..(Len(data) - 1) :
                    HashAt(data, start_pos, pos) % 2^mask_bits = 0}
    IN  IF hits = {} THEN max_pos ELSE Min(hits) + 1

(* The first position with a hash that matches the mask; the limit if there
   is none, or no room for a window. *)
find_chunk_boundary(data, start_pos, max_pos) ==
    LET limit == Smaller(max_pos, Len(data))
        hits  == {pos \in (start_pos + WINDOW_SIZE)..(limit - 1) :
                    HashAt(data, start_pos, pos) % 2^mask_bits = 0}
    IN  IF hits = {} THEN limit ELSE Min(hits) + 1

(* Where the chunk that begins at start ends. *)
ChunkEnd(data, start) ==
    LET remaining == Len(data) - start
        least     == start + Smaller(min_size, remaining)
    IN  IF least < Len(data) /\ remaining > min_size
        THEN find_chunk_boundary(data, least, Smaller(start + max_size, Len(data)))
        ELSE least

Chunk(data, start, end) == [offset |-> start, data |-> SubSeq(data, start + 1, end)]
End(chunk) == chunk.offset + Len(chunk.data)

(* The loop of chunk_stream, which cuts at the end of the buffer once more. *)
Cut(data) ==
    LET from[start \in 0..Len(data)] ==
            IF start >= Len(data) THEN <<>>
            ELSE LET end == Smaller(ChunkEnd(data, start), Len(data))
                 IN  <<Chunk(data, start, end)>> \o from[end]
    IN  from[0]
(* The loop of chunk_bytes. *)
chunk_bytes(data) ==
    LET from[start \in 0..Len(data)] ==
            IF start >= Len(data) THEN <<>>
            ELSE <<Chunk(data, start, ChunkEnd(data, start))>> \o from[ChunkEnd(data, start)]
    IN  from[0]

-----------------------------------------------------------------------------
ChunkerInit == buffer = <<>>

(* chunk_stream reads until the end of the stream, and cuts then. *)
chunk_stream ==
    \E byte \in DOMAIN Gear :
        /\ Len(buffer) < MaxLength
        /\ buffer' = Append(buffer, byte)

-----------------------------------------------------------------------------
(* Both loops cut the content into consecutive chunks, none larger than    *)
(* max_size and none but the last smaller than min_size; and a chunk does  *)
(* not depend on what follows it: a chunk of the content that ends within  *)
(* a prefix is a chunk of the prefix (test_boundary_consistency checks one *)
(* content), so that a file that grows keeps its chunks but the last.      *)
CutsAreStable ==
    LET cut == chunk_bytes(buffer)
    IN  /\ Cut(buffer) = cut
        /\ \A i \in 1..Len(cut) :
            /\ cut[i].offset = IF i = 1 THEN 0 ELSE End(cut[i - 1])
            /\ Len(cut[i].data) \in 1..max_size
            /\ i < Len(cut) => Len(cut[i].data) >= min_size
            /\ i = Len(cut) => End(cut[i]) = Len(buffer)
            /\ \A n \in End(cut[i])..Len(buffer) : chunk_bytes(SubSeq(buffer, 1, n))[i] = cut[i]

=============================================================================
