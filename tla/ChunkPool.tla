----------------------------- MODULE ChunkPool ------------------------------
(***************************************************************************)
(* The pool of src/common/memory/pool_alloc.h: chunks of one size, the     *)
(* free ones linked through their first word.  A unit is such a word.      *)
(***************************************************************************)
EXTENDS BufferClient

CONSTANTS ChunkSize, ChunkAlign    (* of pool_init() *)

chunk_size == align_forward(ChunkSize, ChunkAlign)

(* pool_init() takes the way to the first aligned address off the length, yet
   keeps the buffer as it was given: where that is not aligned, no chunk need
   be.                                                                     *)
buf_len == Size - (align_forward(Base, ChunkAlign) - Base)

(* What it asserts: the buffer holds a chunk.  (A way longer than the buffer
   would make the length, which has no sign, a large number.)              *)
ASSUME ChunkAssumption ==
  /\ ChunkSize \in 1 .. Size /\ chunk_size <= buf_len
  /\ ChunkAlign \in {2 ^ k : k \in 0 .. Size}

Chunk == {Base + i * chunk_size : i \in 0 .. (buf_len \div chunk_size) - 1}

(* pool_free_all(): every chunk is pushed, the highest last, onto the list as
   it is.                                                                  *)
ChunksFreed(m) ==
  LET top == Base + ((buf_len \div chunk_size) - 1) * chunk_size
  IN  [head |-> top, next |-> [c \in Chunk |-> IF c = Base THEN m.head ELSE c - chunk_size]]

(* pool_init() *)
ChunkInit == mem = ChunksFreed([head |-> NULL])

(* pool_alloc(): the chunk is cleared, its link with it. *)
ChunkAlloc(v) ==
  /\ ~Live(v)
  /\ IF mem.head = NULL
     THEN fault' = "assert" /\ UNCHANGED <<mem, ptr, want>>
     ELSE /\ mem' = [mem EXCEPT !.head = mem.next[mem.head], !.next[mem.head] = NULL]
          /\ Keep(v, mem.head, ChunkSize, ChunkAlign)
          /\ UNCHANGED fault

(* pool_free() *)
ChunkFree(v) ==
  /\ Live(v)
  /\ mem' = [mem EXCEPT !.head = ptr[v], !.next[ptr[v]] = mem.head]
  /\ Forget({v})
  /\ UNCHANGED fault

(* pool_free_all() does not empty the list first.  The client calls it as the
   test does, when no chunk is on the list: else the list becomes a ring, and
   its chunks are given out for ever.                                      *)
ChunkFreeAll ==
  /\ mem.head = NULL
  /\ mem' = ChunksFreed(mem)
  /\ Forget(Var)
  /\ UNCHANGED fault

ChunkNext ==
  \/ \E v \in Var : ChunkAlloc(v) \/ ChunkFree(v)
  \/ ChunkFreeAll

(* The chunks on the list, reached in n steps or fewer. *)
ListedChunks ==
  LET upto[n \in 0 .. Size] ==
        IF n = 0 THEN {mem.head} \ {NULL}
        ELSE upto[n - 1] \cup ({mem.next[c] : c \in upto[n - 1]} \ {NULL})
  IN  upto[Size]

(* A chunk is on the list or in use, never both, and the list ends. *)
ChunkSound ==
  /\ ListedChunks = Chunk \ {ptr[v] : v \in Var}
  /\ ListedChunks # {} => \E c \in ListedChunks : mem.next[c] = NULL
=============================================================================
