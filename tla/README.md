# TLA+ models of scratch-pad

`scratch-pad` is a collection of memory allocators, containers and small
experiments in C and C++. This directory holds TLA+ modules that model its
stateful parts, TLC configurations that check them on small instances, and
proofs that TLAPS checks for every instance. Paths below are relative to `src/`.

## 1. Inventory

| Component | State | Operations | Hard behaviour | What makes it correct |
|---|---|---|---|---|
| **Thread-safe pool** `common/memory/sebi_pool.h` (`ThreadSafePool`, `ThreadSafePoolStack`) | free list `arr_`/`top_`, generations, batch of deferred deletes and its counter, a shared mutex | `allocate`, `recycle`, `get`, `cleanup` | all callers run at once under a *shared* lock, with one relaxed atomic per call; a timer thread sweeps | a slot is in one place; none is lost; handles in use are valid, recycled ones stale for ever |
| **Freelist2** `common/memory/freelist2_alloc.h` | free list inside the buffer, headers, counters, table from block start to pointer | `alloc_align`, `free`, `realloc`, `free_all`, `set_allocation_owner`, `defragment` | long sequences of split, merge, absorb and move; pointers corrected behind the client's back | blocks tile the buffer; list, counters and table agree; no call disturbs another block; defragmenting ends |
| **Lock-free stack** `common/containers/stack.hpp` (`LockFreeStackArray`) | one atomic word (count and pending bit), an array | `push`, `pop` | compare-exchange races, ABA, memory order | last in first out; nothing lost or popped twice; every call ends |
| Pool and Stack `sebi_pool.h`, `stack.hpp` | 16-bit capacity, generations, top | `allocate`, `recycle`, `get`; `push`, `pop` | growth at the 16-bit limit | handles name distinct slots |
| Hash table `common/containers/htable.h` | entries, count, tombstones | `add`, `get`, `remove`, `resize`, `clear` | tombstones under linear probing, shrink while removing | behaves like a map |
| TLSF `common/memory/tlsf.cpp` | nodes, class heads, two levels of bitmaps, store of node indices | `allocate`, `free` | bitmaps, lists and neighbour links agree | tiling, coalescing |
| Freelist (first version) `freelist_alloc.h` | as Freelist2 without table and owners | `alloc`, `free`, `realloc` | as Freelist2 | as Freelist2 |
| Managed handle `handle.h` (`Handle`, `ImmutableArray`) | one owner of a Freelist2 block; an array object that owns a second one | create, move, free | owners that lie in blocks that move | one handle per block; it follows the block |
| Arena, stack, pool, buddy, bitmap allocators `linear_alloc.h`, `stack_alloc_forward.h`, `pool_alloc.h`, `buddy_alloc.h`, `bitmapped_alloc.h` | one buffer and offsets, headers, links or masks in it | `alloc`, `free`, `resize`, `free_all`, temporary scopes | boundaries, roll-back, coalescing | blocks do not overlap, and bookkeeping agrees with them |
| Red-black and AVL trees `rb_tree.h`, `avl_tree.h` | nodes with colour or height | `insert`, `remove`, `rbt_validate_tree` | fixups | search order and balance |
| Queue, stack, dynamic array `queue.h`, `stack.h`, `darr.h` | ring or array with counters | `push`, `pop`, `peek`, `update`, `remove_at`, `clear` | growth and wrap, no memory | first or last in, first out |
| Strings `string_utils.h` | a text in the struct or in a block, capacity | `create`, `append`, `modify`, `dup`, `compare`, `free` | which of the two a text is in | a text fits where it lies |
| Maths, OO exercise, sockets, clock, tools, `main.cpp` | little or none | | | not modelled, see section 7 |

How they interact: `Freelist2` keeps its table in a hash table, and `handle.h`
owns `Freelist2` blocks; the hash table, the queue and the strings allocate
through the `alloc_api` record of function pointers (`memory.h`) that every
allocator fills in; `Pool` keeps its free indices in a `Stack`. Only the
thread-safe pool and the lock-free stack are written for more than one thread.
There is no persistence: nothing survives the process, so there is no crash
recovery to model.

The hazards of each part are listed in `PROJECT.json`, each at its line, with
the properties that would catch it.

## 2. Modules

| Module | What it is |
|---|---|
| `HandlePool` | abstract: a slot is free, owned, or retired; a sweep frees the retired ones and ages them |
| `ThreadSafePool` | the pool: state, constructor, one action per atomic step of each call |
| `PoolOwners` | the pool with the clients of `ConcurrentAllocationStress` and `RandomStress`: who allocated a handle recycles it, once |
| `PoolStorm` | the pool with the clients of `RecycleStorm`: everybody gets and recycles everybody's handles |
| `PoolOwners_proofs`, `PoolStorm_proofs` | proofs about the two |
| `Heap` | abstract: the block behind a pointer overlaps no other, and a call changes one block or hands it over |
| `Buffer` | what the allocators share: the buffer, `align_forward()`, `calc_padding_with_header()` |
| `FreeNodes` | the free list of both free-list allocators: insert, remove, merge, `free()` |
| `Freelist2` | the free-list allocator with its defragmenter, and handles among its clients |
| `FreeNodes_proofs` | lemmas about the free list, which know nothing of either allocator, and about sequences, sums and maps |
| `Freelist2_proofs` | proofs about `Freelist2`, from those lemmas |
| `Lifo` | abstract: a bounded stack shared by threads |
| `LockFreeStack` | the lock-free stack with the threads of its test, over a small memory model |
| `Map` | abstract: a map from keys to values |
| `HashTable` | the hash table with tombstones and resizes |
| `HashTable_proofs` | proofs about `HashTable` |
| `Tlsf` | the two-level segregated fit allocator |
| `BufferClient` | the client of a small allocator: variables, what each asked for, and what stops the program |
| `Arena`, `StackAllocator`, `ChunkPool`, `BitmapAllocator`, `BuddyAllocator`, `Freelist` | one allocator each; `Freelist` is the first version of the free list |
| `Allocators` | these and `Tlsf`, one of them chosen by `Init`, against `Heap` |
| `Tlsf_proofs` | numbers and recursive functions; `Tlsf` as a kind of `Allocators`: a lemma per function and per call |
| `Allocators_proofs` | the other kinds, and the theorems about all seven |
| `Collection` | abstract: a set, a first-in-first-out queue, a stack, an array, a pool of handles, two strings |
| `Container` | what the containers share: keys, items, cells, growth, and what stops the program |
| `RBTree`, `AvlTree`, `Queue`, `ArrayStack`, `DynArray`, `Strings`, `SlotPool` | one container each; `SlotPool` is `Pool` on its `Stack` |
| `Containers` | one of these chosen by `Init`, against `Collection` |
| `StackQueue_proofs` | proofs about `LockFreeStack`, and about the queue alone |

Definitions named `...` *Mutant of* are not part of a specification: each is a
plausible bug in the definition it stands before, and shows that a property is
able to fail.

### ThreadSafePool

A call is two steps: taking the shared lock together with its only atomic
operation (`fetch_sub` on `top_`, `fetch_add` on `batched_deletes_count_`), and
the access to the array together with the unlock. Nothing between them can be
seen by others, so finer steps would add no behaviour. `get()` changes nothing
and is one step. `cleanup()` is three steps (push, bump, reset) under the
exclusive lock. The lock is not a variable of its own: it is held shared by the
threads whose `pc` is not `"idle"`, exclusively while `cpc` is not `"idle"`.

`IdxMod` is the number of values of `IndexType` (65536 in the code). `top_`
wraps at it, `batch_index` and `gen_` are taken modulo it, and the batch array
has `IdxMod - 1` cells, the next one being cell 0 of the free list, as the
buffer is laid out. Generations and the batch counter have 64 bits in the code
and are unbounded here. An assert that fails sets `aborted`.

### Freelist2

Addresses and sizes count units of 8 bytes (the smallest alignment, and a common
divisor of the header's 48 and the node's 16 bytes); the client asks for whole
units. The buffer has room for one node (`NodeAssumption`), which `free_all()` writes
at its start without a test. `fl.list` is the free list from `head` on, `fl.header` the allocation
headers by the pointer they precede. Two fields are not in the code: `leaked`, the blocks that
`free()` put on no list, and `fault`, what stopped the program: `"assert"`,
`"null"` (a NULL was dereferenced), `"overwrite"` (`defragment()` would write a
free node over the next block; what follows is undefined, so the model stops) or
`"garbage"` (it would read a header where there is none, likewise).

The hash table is not the map it is meant to be. `free_all()` does not clear it, so a
later `alloc()` may push a start that is still a key, and `ht_add()` stores that a
second time if a tombstone lies in front of it; when a resize moves entries that had
wrapped around, either copy may come first. `fl.table` has, for the start of each block, the
pointer pushed last, and `stale` every other copy the table may hold, the overwritten
ones included. A lookup (`HtGet`) returns any copy of its key, a removal (`HtDel`) may leave one
of several, and what the code does with a wrong answer is in the actions:
`SetOwnerFails` is the assert of `set_allocation_owner()`, and a turn of `defragment()` goes
by whatever the lookup gave it. `stale` is larger than what any one table holds, since it
forgets nothing; `MaxStale` bounds it where the run calls `free_all()`.

Each allocator call is one step, since the allocator has one thread. Only
`defragment()` is one step per turn of its loop, so that the invariants hold in
the middle of it and its end is a liveness property.

Contents of blocks are not modelled: `Refinement` says that no call touches the
block of another pointer, and `PointersFollow` that a moved block keeps its
size, alignment and owner.

A variable lies outside the buffer or, as the data pointer of an
`ImmutableArray` does, in the first word of another variable's block: `home` says
where, and `Place` is its address. `SetInnerOwner` is the constructor of
`ImmutableArray`, `MoveHandle` the move of a `Handle`, `FreeHandle` the
destruction of a handle together with what its object owns. When a block moves,
`Related` tells its owner and its child; the variable itself moves with the
block it lies in, so that `PointersFollow` compares the place of each variable
with the `pOwner` its block has, and the `child_header` of a block with the
pointer of what it holds, after every turn. There is one level of nesting, and an object owns one
block, as in `handle.h`. `realloc()` updates neither the `child_header` of an
owner inside the buffer nor the `pOwner` of a child (line 527 copies only the
owner), so nothing that is inside or holds something is reallocated by this
client; nor is a block freed before what it holds. The assignment to a handle
that already manages a block, which leaks that block, is left out.

### LockFreeStack

One action per atomic operation and per access to the array. The memory is a
release/acquire model with the write history of each cell: a thread's `view`
says up to which write of each cell it has synchronised; a release store
publishes its view in `known`, an acquire load takes it over, a relaxed
compare-exchange takes over nothing (and keeps what is published, as a
read-modify-write does). Reading a cell may return any write from the view on.
`Fenced` says whether the exchange orders memory all the same, as on an x86.

### HashTable

`entries` is the C array (entry `i` is `entries[i + 1]`), its length the
capacity. A call is one step, except that the loop of `ht_resize()` is a step a
turn (`Rehash`), so that invariants hold while keys are on their way and the end
of the loop is a liveness property. An `ht_add()` that resizes is `AddGrows`, the
turns, `AddGrown`; a removal that shrinks is `Remove` and the turns. `ht_get()`
changes nothing: it is the operator `Get`, and the refinement of `Map` is stated
with it, so that what is shown is what a client would read. Where the code would
search for ever or fail its assert, the step has no successor. The hash function
is chosen by `Init`. Copying and freeing keys and values is left out; what
happens in a table of a capacity that is no power of two too (no caller makes
one), and a search in a destroyed table, which dereferences NULL.

### Tlsf

`tlsf` is the members of the class. A bitmap is the set of its bits, the index
of a list the pair of its levels, `m_emptyNodeStack` the sequence up to its top
(whose bottom `getFreenodeIndex()` never takes). `L2Log2` is 3 and `Bits` 32 in
the code; both are parameters here, `MIN_SIZE_ALLOWED` being `2^L2Log2`. The
operators `InsertNode`, `TakeHead`, `RemoveNode`, `Split`, `MergePrevious`,
`MergeNext` and `PutFree` are the code's functions and paragraphs; each call is
one step. An assert stops the program: `fault` says whether it was for want of
memory, for want of a node, or one about the structures, which never fails
(`TypeOK`). Clients ask for sizes that `indexRoundup()` does not wrap.

### The small allocators

`alloc_api` makes the allocators interchangeable for a client, so `Allocators` is
one specification in which `Init` chooses the `kind`; `mem` is the state of the
one it chose. A unit is a byte for the arena, the stack and TLSF's lengths, a
block for the bitmap, a machine word for the pool's links, a header for the buddy
allocator and 8 bytes for the free list, as each module says. Each call is one
step. A call that returns NULL leaves the client's variable as it was.

The client keeps to what the code asks of it, and each restriction is named in
the module: the arena's blocks are resized only within the scope they were
allocated in, scopes do not nest, and `arena_free_all()` is not called within one
(the end of a scope would restore offsets over it); `pool_free_all()` is called
when no chunk is on the list. `buddy_allocator_init()` asserts that
`sizeof` of its header, 16, is *not* a power of two, which stops every build with
asserts: the module is the allocator in a build without them. The code takes for
the buddy of a block the one behind it, if the sizes are the same; the module
does the same. Its loops are operators for one turn, and `Turns` repeats one as often
as there are blocks (a turn passes a block or joins two) or units (a turn of
`buddy_block_split()` halves a size); a turn of a loop that is over changes nothing.
What `init()` or the first call of an allocator takes for granted is an assumption on its
constants: a chunk fits into what is left of the pool's buffer (`ChunkAssumption`), and a node into the
free list's (`FlNodeAssumption`), where `freelist_free_all()` writes it without a test.
`pool_init()` computes the first aligned address of its buffer and takes the way there off
the length (`buf_len`), but then stores the buffer as it was given, so the chunks of a
buffer that is not aligned are not aligned either. The module does the same, the run has such
a buffer, and `Aligned` measures the pool's pointers from the beginning of the buffer.
`fault` is what stops the program: `"assert"`, `"null"`, or
`"overrun"`, a write past the end of the buffer or in front of an array, from where
the behaviour is undefined.

### The containers

`Containers` is built the same way: `Init` chooses the `kind`, `s` is the structure
and `out` what the last call returned. Keys are the nodes of the red-black tree,
since a key has at most one node; the AVL tree, whose code is recursive and
returns the new subtree, is a value with subtrees. A turn of a red-black fixup
loop is a step, so that its end is a liveness property; all other calls are
one step. Allocation may fail in every call that allocates
(`...NoMemory`). A cell that was never written is `Garbage`. The Pool's indices,
generations and capacities share a width, `IndexMod`; its client keeps all handles
it ever got and goes on using and recycling stale ones.

`rbt_remove_fixup_internal()` looks at `x->right->color` where it means its
sibling's (line 322). `misread` is a history variable: it becomes true when that
colour differs from the one meant, and `Sound` says what holds until then.
In `Strings` a text is a sequence of items and `room`, which the code does not keep,
the length of the block it is in. Writing past that block or over the pointer to it
stops the model (`"overrun"`); `StringsSound` says that this takes a block that is
longer than its text, which `string32_modify()` with a shorter text leaves, and
whose capacity a duplicate inherits without its length. `string32_modify()` copies
eight bytes into the struct, also from a shorter C string: nobody uses what lies behind
that string, but where reading it is not allowed the program stops
(`"overread"`). `Sso` is 8 in the code.

`Refinement` ties a call to what it was asked for: `AsAsked` says of each call with an
argument that it is the operation of `Collection` with the same key, item, index or text.

`rbt_validate_tree()` and the traversals under it are operators, and
`ValidatorAgrees` compares them with a definition of red-black trees in one line,
on every tree a call leaves and on all recolourings of it.

## 3. Runs that pass

| Run | Instance | Shows |
|---|---|---|
| `pool_owners` | 2 threads, 3 slots, `IdxMod` 4, 2 recycles a slot | types; `UniqueOwner`, `NoSlotLost`, `OwnedHandlesValid`; the pool implements `HandlePool`; every recycled slot is swept |
| `pool_storm` | 2 threads, 2 slots, `IdxMod` 6, 3 allocations and 3 recycles | even with handles recycled twice: no slot lost, a refused handle stays refused, a handle goes stale only in a cleanup after its recycle |
| `freelist2` | 3 variables, each outside the buffer or in another's block, 200 bytes, `free_all()` where it leaves at most one stale entry, requests of 8 and 72 bytes, alignments 16 and 32 | types, `Tiled`, `Ordered`, `Bookkeeping`, `PointersFollow`, implements `Heap`, `defragment()` ends |
| `lockfree_stack` | 2 pushers and 2 poppers, 2 calls each, 2 cells | types, the pending bit is a lock, implements `Lifo`, the test ends with an empty stack |
| `hash_table` | 3 keys with all hashes below 4, 2 values, capacities 0 to 8, loads 20 and 75 % | types, `count` is the number of keys, implements `Map`, every resize ends |
| `allocators` | 7 allocators; 3 variables, 16 units from address 5, requests 1 and 5, alignments 1 and 8; paddings of 3 bits, alignments capped at 4, chunks of 5 aligned to 2, one mask of 2 bits; TLSF with 15 units, 5 nodes, requests 1, 3, 6 | types, `Aligned`, `Sound` (each allocator's bookkeeping), `AssertsHold` of the free list, `FitsWell` of TLSF, all implement `Heap` |
| `containers` | 7 containers; 7 keys, 2 items, arrays from capacity 1 to 5 items, two strings of up to 4 characters with room for 2 in the struct, Pool from capacity 2 with indices modulo 8 and 2 recycles a slot | types, `Sound` (search order, balance, counters), `ValidatorAgrees`, all implement `Collection`, call by call, every fixup ends |

Why the bounds are enough. *Pool*: two threads are what an interleaving of two
calls under the shared lock needs; with `IdxMod` 4 and 3 slots the empty stack
is the value 3 of `top_`, next to the last slot, so wrapping is exercised by
every history that empties the pool; two recycles a slot give a handle a second
generation after its first became stale. The proofs remove these bounds.
*Freelist2*: a header takes 6 of the 25 units, so the buffer holds up to three
blocks, with free nodes in front of, between and behind them; a `free_all()` that leaves one
block's entry is followed by every history of three blocks, some of which get
the same start again; requests 1 and 9 make a
remainder fall on both sides of each threshold (a node's 2 units, a header's 6),
and the alignments 2 and 4 make paddings of 0 and 2 units. *Stack*: two calls a
thread bring `state_` back to an earlier value while a thread still holds it
(ABA), and two cells let the stack be full and empty. *Hash table*: three keys
fill a table of four as far as the load allows, so that probes of colliding keys
cross used entries and tombstones and wrap at the end; the capacities 0, 1, 2, 4
and 8 are all reached, by growing, shrinking and `ht_delete()`.
*Allocators*: with three variables a block has neighbours on both sides, free or
in use; the requests leave remainders that are too small and large enough for a
node or a header; the alignments are one that never pads and one that pads
differently at every offset, and the second is above the stack's cap. Two chunks
and two blocks of a bitmap run out with three variables; a buffer of 16 units is
split by the buddy allocator down to blocks of 2 and 8. TLSF's requests include one
below the minimum, its remainders are of several classes or none, and nodes and
memory both run out. Variables are interchangeable (`VarSymmetry`; the run has
no liveness property). *Containers*: seven keys make red-black trees of every
shape up to three full levels and AVL trees with all four rotations after
insertions and after removals of nodes with two children. Arrays double three
times, and a queue wraps before it doubles. With capacity 2 and indices modulo 8
the Pool doubles once and reaches the width of its index at the next growth. Texts of
length 0, 1 and 3, appended and modified, cross the boundary of the struct either way. With
seven keys a removal that misreads a colour always dereferences NULL first; the
fixup that misreads and goes on needs ten keys and is the subject of `rb_removal`.

`CHECK_DEADLOCK FALSE` stands where the program may really stop: `PoolStorm`,
`Freelist2`, `Allocators` and `Containers` stop when an assert fails or an access
is undefined, and `PoolStorm`'s threads finish. Which `fault`s are possible is part
of the type invariants.

Fairness. `PoolOwners`: a thread inside a call goes on (weak fairness of the
second steps), and the fixture's timer thread keeps calling `cleanup()`; nothing
makes a client call. Weak fairness of the sweep is enough because calls are
finitely many, so the shared lock is free at last; for clients that never stop
it would not be, as `std::shared_mutex` promises nobody a turn. `Freelist2`: the
loop of `defragment()` runs. `LockFreeStack`: every thread is scheduled, and a
weak compare-exchange whose value matches does not fail for ever for no reason;
no fairness among competing threads is assumed. `HashTable` and `Containers`: a
call that has begun (a resize, a fixup) goes on.

## 4. Runs that show a disagreement

| Run | The text | What the code does |
|---|---|---|
| `storm_handed_out_once` | "no two handles should point to the same index inside the pool" | a handle recycled twice before a cleanup is handed out twice |
| `freelist2_leak` | "Verify used + free memory equals total memory" | a block freed above every free node is on no list |
| `freelist2_defragment` | "continue while there are more freeblocks or we haven't reached the end" | with one node in front of the last block the loop reads a NULL node |
| `hash_table_duplicate` | the test's `assert(!ht_get_str_float(&table, &keys[i], NULL))` after a removal | `ht_add()` of a present key may store it a second time at a tombstone; removing it brings the old value back |
| `rb_removal` | "recolor and do rotations to make the tree a valid red-black tree again" | the fixup of a right child tests `x->right->color` for its sibling's and ends with paths of different black height |

The invariants of `Freelist2` hold around these: `Tiled` counts leaked blocks as
a third kind, and `DefragmentEnds` is stated for the heaps the tests prepare.
`hash_table` passes for clients that overwrite a key only while the table holds
no tombstone (`AnyAdd` is false). `Freelist2` is such a client until its first `free_all()`,
which leaves keys in the table that are pushed again later; what that does to it is part of
the module `Freelist2`, whose `Bookkeeping` confines wrong lookups to the starts that were in use
at a `free_all()`.
`Sound` of `containers` excepts the trees after a misread colour.

More disagreements were met and have no run of their own. Three are stated in the
modules, and TLC finds them violated when a configuration asks: `StaleRecycleReturns`
of `PoolStorm` (the assert before "[InvalidHandle] returning..." reads the wrong slot's
generation and stops the program); `ReadsNewest` of `LockFreeStack` with `Fenced` false
(the relaxed exchange lets a pop read an old cell on hardware that does not order
it, against "No pop will read from this slot while the pending bit is set");
`FreeCoalesces` of `Allocators` ("Keep looping until there are no more buddies to
coalesce", `buddy_alloc.h:161`: a pass that joins only the last two blocks ends the loop,
and free blocks of 8, 4 and 4 units stay apart). The others are the limits named
as restrictions of a client or as a fault: `freelist2_free_all()` leaves `fl->table`
as it is, so that after it a lookup may find a pointer of before
(`freelist2_set_allocation_owner()` then fails its assert, line 140, or `freelist2_defragment()`
reads a header at an old address; `SetOwnerFails` and `"garbage"`); `pool_init()` says "align
backing buffer to the specified chunk alignment" (`pool_alloc.h:40`), computes the aligned
start and does not use it (line 53), so that a buffer that is not aligned gives chunks that are
not (asked of the addresses, TLC finds `Aligned` violated by the pool's first call);
`string32_dup()` writes to the struct it allocated without a look at what it got;
`arena_resize()` in place does not look
where the buffer ends; `pool_free_all()` makes a ring of a list that is not empty;
`bitmap_allocator_alloc()` with every bit off, and `stack_peek()` of an empty stack,
read in front of an array; `buddy_block_size_required()` allows for a header of 16 bytes
where `buddy_allocator_alloc()` skips the alignment, so that with an alignment of 32 a
request of 16 bytes from a whole buffer of 32 returns its end (with `BuddyAlign` 2 TLC
finds `TypeOK` violated by the first call); `Pool::expand()` doubles a 16-bit capacity to 0;
`freelist2_realloc()` of an owned child leaves its owner's `child_header` behind;
`string32_append()` writes a short text over the pointer of a string that has a
block; `string32_dup_char()` claims a capacity it did not allocate; and
`string32_compare()` tells a short text in a block from the same one in its struct.

## 5. Proofs

`PoolOwners_proofs`, for every set of threads, capacity and index width:

| Theorem | Says |
|---|---|
| `TypeCorrect` | `Spec => []TypeOK`, for all clients |
| `UniqueOwnership` | `Disciplined => (Spec => []UniqueOwner)` |
| `NothingLost` | `Disciplined => (Spec => []NoSlotLost)` |
| `HandlesStayValid` | `Disciplined => (Spec => []OwnedHandlesValid)` |
| `PoolImplementsHandlePool` | `Disciplined => (Spec => Refinement)` |

Assumptions: `CapAssumption` (`0 < Cap < IdxMod`, the type of
`initial_capacity`), `ClientAssumption` (types of the bounds), and `Disciplined`:
no client allocates from an empty pool, and no slot is recycled as often as
`gen_` has values. Both are limits the code does not enforce: with `Overcommit`
true TLC finds `UniqueOwner` violated after three calls, as `pop()` of an empty
stack reads cell 65535, which holds 0.

Why `UniqueOwner` is not inductive, and what the invariant `IInv` adds: a slot
that `recycle()` has counted but not written is in nobody's array, so `BatchInv`
places it with the thread that is about to write its cell and says that the
cells of such threads differ; `LockInv` keeps the calls out of a sweep;
`StackInv` says that the stack and what was popped from it name slots, never
garbage; `SweepInv` that during a sweep the batch is complete and names no
handle in use; `GenInv` that a generation about to be bumped has room in
`gen_`. A counting argument (`AtMostCap`: distinct slots are at most `Cap`)
bounds the batch and the stack, so that neither index wraps. Each action has a
lemma that says both that `IInv` is kept and what the step does to the sets
`OnStack`, `Retired` and `Owned`; the refinement follows from those.

`PoolStorm_proofs`, for every set of threads, capacity, index width and bounds on the
calls:

| Theorem | Says |
|---|---|
| `TypeCorrect` | `Spec => []TypeOK` |
| `NeverRevived` | `Spec => StaleForEver` |
| `ReachableUntilCleanup` | `Spec => AccessibleUntilCleanup` |
| `NothingLost` | `Moderate => (Spec => []NoSlotLost)` |

`Moderate` is `Cap + MaxRecycles < IdxMod`. A slot recycled twice is pushed twice, so
nothing in the code keeps the stack within its array; the test does, whose slots and
recycles together are far fewer than 65536. The action properties need only that a
handle's generation is one its slot has had (`HandleInv`). `NoSlotLost` is not
inductive: a `recycle()` that has counted its slot has yet to store it, and a
`cleanup()` has pushed the batch but not yet bumped it. `IInv` adds that threads
that store have cells of their own (`StoreInv`), that calls and sweeps exclude each
other (`LockInv`), that a batch about to be bumped has reached the stack
(`BumpInv`), and that generations and the depth of the stack grow by at most one a
recycle (`CountInv`), which with `Moderate` means that no index wraps.

`Freelist2_proofs`, for every buffer, set of variables, requests and alignments:

| Theorem | Says |
|---|---|
| `TypeCorrect` | `Spec => []TypeOK` |
| `AlwaysTiled` | `Spec => []Tiled` |
| `AlwaysOrdered` | `Spec => []Ordered` |
| `AlwaysBooked` | `Spec => []Bookkeeping` |
| `AlwaysFollow` | `Spec => []PointersFollow` |
| `Implements` | `Spec => Refinement` |
| `BlocksDisjoint` | `Spec => []Abstract!HDisjoint`: no address is behind two pointers |

Assumptions: `HeapAssumption` (a buffer that does not begin at NULL and is not empty,
positive requests, alignments of 8 to 128 bytes), `OwnerAssumption` (a variable is neither an address of
the buffer nor NULL), `NodeAssumption`. None restricts the calls; the client is the
one section 2 describes.

None of the five invariants is inductive, because each is about one side of a
structure that every call changes on several: a split needs to know that the node
was in nobody's block, a merge that the nodes around the block are its neighbours, a
removal from the table that no other block has that start. `IInv` is the whole
correspondence, in two parts. `HeapInv` is about the struct: the list ascends and
its nodes fit and do not touch (`Linked`); every block lies in the buffer, is aligned
and has its entry in `fl.table` (`Placed`), a leaked one has none (`Adrift`), and there are
no other entries (`Keyed`), so that whatever else a lookup finds is in `stale`; every address is in
exactly one of the three (`Covered`, `Disjoint`); `used` is the number of addresses in
blocks. `ClientInv` is about the variables: `PointersFollow`, that a variable inside
another's block has an owner in use (`Nested`), and that the defragmenter does not go on
with an empty list unless it has stopped at a fault.

The argument goes through sets of addresses, so that no lemma about a call depends
on the shape of the list. `FreeNodes_proofs` says what inserting, removing, shrinking
and merging nodes do to the order of a list and to its set of free addresses.
`Rebuilt` carries `HeapInv` over any change that exchanges free addresses for those of one
block, and each of `alloc()`, `free()`, the branches of `realloc()`, and a
defragmenter's turn is shown to be such a change. The refinement follows from
`Spares`: a step touches no block but those of the variables it is called for.
Disjointness is a conjunct of `IInv`, so it is proved of the code's own structures,
not of `Heap`.

`HashTable_proofs`, for every set of keys and values, hash function, initial capacity
and load factors (`TableAssumption`, `ReservedKeys`):

| Theorem | Says |
|---|---|
| `TypeCorrect` | `Spec => []TypeOK`, for every client |
| `SearchesEnd` | `Spec => []NeverStuck`: the unbounded searches find an entry and `ht_resize()`'s assert holds, for every client |
| `CountCorrect` | `Careful => (Spec => []CountIsKeys)` |
| `Implements` | `Careful => (Spec => Refinement)` |
| `RemovedStaysGone` | `Careful => (Spec => RemovedIsGone)` |

`Careful` is `AnyAdd = FALSE`: the client overwrites a present key only while the table
holds no tombstone, as in the run `hash_table`. Without it the last three are false,
which is what the run `hash_table_duplicate` shows. `SizeInv` (the count is the number of
entries in use, and the table has room for those and for all that a resize
has still to move) is inductive with the types alone. `IInv` adds that each key is stored once, in the
table or among the entries to move (`Once`, `Apart`), that the probe sequence of each
stored key reaches its entry (`Reached`), and that a table being filled has no tombstones
(`Fresh`). `Reached` is the point of linear probing: it survives a removal because
the tombstone keeps the path, and an insertion because that takes the first
free entry of its own path. That two probe numbers below the capacity are two
entries is a lemma about remainders.

`StackQueue_proofs`, of the lock-free stack, for every set of threads, capacity and number of rounds:

| Theorem | Says |
|---|---|
| `TypeCorrect` | `Spec => []TypeOK`, for every memory order |
| `PendingExcludes` | `Spec => []PendingIsLock`, for every memory order |
| `StackImplementsLifo` | `Fenced => (Spec => Refinement)` |

Assumption: `StackAssumption` (no thread both pushes and pops, `Cap > 0`, the
types of the bounds). `IInv` adds to the lock that its owner was not refused
(so the count it stores is in range), that what is published or known was
written (`CellInv`), and when a thread has a result (`ResultInv`). `FInv` adds
what the ordering exchange gives: while nobody holds the lock `state_` publishes
all writes, and its holder knows them all (`PublishInv`); the cells below the
count hold items (`FilledInv`); a pop has read the newest (`NewestInv`). With
`Fenced` false TLC finds `ReadsNewest`, which the last implies, violated.

`Allocators_proofs`, for every buffer, set of variables, sizes and alignments, and every
width and count the allocators are built with:

| Theorem | Says |
|---|---|
| `AllocatorsTyped` | `Spec /\ Roomy => []TypeOK` |
| `AllocatorsAlign` | `Spec /\ Roomy => []Aligned` |
| `PoolAligns` | `Spec /\ Roomy => []PoolAligned`, where `Base % ChunkAlign = 0` |
| `AllocatorsAgree` | `Spec /\ Roomy => []Sound` |
| `AllocatorsImplementHeap` | `Spec /\ Roomy => Refinement` |
| `FreelistAsserts` | `Spec => []AssertsHold` |
| `TlsfFitsWell` | `Spec => FitsWell` |

Assumptions: `HeapAssumption`, and those of each allocator's constants (`StackAssumption`,
`ChunkAssumption`, `MaskAssumption`, `BuddyAssumption`, `FlNodeAssumption`,
`TlsfConstants`), which are what its `init()` asserts or its first call needs. `Roomy` asks
nothing but for the buddy allocator, where it is `BuddyRoom`: the sizes asked for are
multiples of its alignment in units of its header. It always holds for the alignment of a
header, the least `init()` allows and the one the tests use; for larger ones it is needed:
with an alignment of two headers TLC finds `TypeOK` violated by the first call
(`PROJECT.json`, the hazard at `buddy_alloc.h:147`). `kind` does not
change, so the invariant of each kind is proved apart, from its own actions.

`Client` is what all clients but TLSF's have in common: types, each block ends in the buffer and
its pointer is aligned, no two blocks overlap. A call does one of three things to it,
and each has a lemma that gives `Client` again and a step of `Heap`: it returns NULL
(`StayStep`), gives a block that lies beyond all others (`GiveStep`), or forgets pointers
(`ForgetStep`). What is left is to know that what a call gives lies
beyond the others, and there each allocator has its own invariant, from which its `Sound`
follows:

- `ArenaInv`: the blocks end below the offset, and those from before an open scope
  below the offset it goes back to; without that a roll-back would give out memory that
  is in use.
- `StackInv`: the headers lie before pointers that ascend, each with the padding that
  leads back to the offset before it, so that popping restores it exactly.
- `ChunkInv`: the list is without repetition, and a chunk is on it or in use.
- `BitmapInv`: a bit that is off belongs to the block of one variable, and one that is on
  to none.
- `BuddyInv`: the sizes are the alignment times powers of two and sum to the buffer
  (`Tiling`); the blocks in use are the clients', one to one (`Used`). The loops join and
  split, so each has an invariant over its turns: the blocks still tile the buffer, no
  block in use has changed its address or its size, and the one found is free and large
  enough. Powers of two have halves, so the sizes stay powers.
- `FreelistInv`: free nodes, blocks and leaked memory are each whole, disjoint and cover
  the buffer, as for `Freelist2`; from `FreeNodes_proofs`, since the list is the same.

TLSF's client knows nodes and not addresses, so it has an invariant of its own. `TlsfInv`
is, over `Tlsf_proofs`:

- `Chains`: a node on a list is on that of the class of its size, its neighbours there know
  it, the head of each list has no predecessor, a list is empty where its head is `NULL` and
  its bit is off, and along each list some number grows (`Ranked`). Without the last the
  neighbours could as well form a ring that the head never leads to, and a block in it would
  never be found.
- `Blocks`: the block behind and the one before each block name it as their neighbour, begin
  where it ends, and end where it begins; from one at 0 to one at the end.
- `Stored`, `Idle`: the nodes without a block are on the stack of nodes, once, and do not
  say that they are allocated.
- `NoPair`: no two neighbours are free. `free()` joins a block with both of its neighbours,
  so it breaks this in between, and what it says of the two sides is carried through each
  merge.
- `TlsfClient`: the variables hold the allocated nodes with their offsets, one to one.

Each function of the code has a lemma that says what it does to each part (`TakeHeadIs`,
`TakeInnerIs`, `InsertNodeIs`, `UniteIs` and `CutIs` for the links in memory, `MergeBeforeIs`,
`MergeBehindIs`, `PutFreeNodeIs`, `TakePartIs`). A property of one part is then kept through
a function that does not touch it without looking at the function (`SameLists`,
`SameBlocks`). `Sound` speaks of what a walk along a list visits, `Listed`, which stops when
it finds nothing new; that it then has found the whole list takes as many turns as there are
nodes, by counting (`ListedIs`). `TlsfFitsWell` rests on arithmetic: sizes and classes are
ordered alike, so a class not before the rounded one has only blocks that are large enough
(`RoundUpIs`), and `findSuitableFreelist()` returns the first of them whose bit is on
(`FindIs`), which is the first with a block.

An induction over the turns of a loop or the members of a list is written with
`LeastIndex` (a set of indices that is not empty has a least one), since the library's
induction theorems cannot be instantiated by the provers.

`StackQueue_proofs` again, of the queue, for every initial capacity, item type and length
(`ContainerAssumption`):

| Theorem | Says |
|---|---|
| `QueueStaysSound` | `QueueSpec => []QueueSound` |
| `QueueIsFifo` | `QueueSpec => QueueRefinement`: the queue's part of `Collection` |

`QueueInv` says that for some `c` the array has the cells `0 .. c - 1` and the `length`
cells from `front` on, around the ring, hold items (`Ring`). Three lemmas about rings
do the work, with no step in them: an item put behind the last is appended
(`PutBehind`), without the front the tail remains (`TakeFront`), and `queue_expand()`
keeps the items and their order (`ExpandedKeeps`). They rest on one fact about
remainders (`Turn`).

## 6. Only model-checked

`RecycledComesBack`, `DefragmentEnds`, `TestEnds`, `ResizeEnds` and `FixupEnds` are
liveness under fairness, which the prover cannot do. The properties of `Containers` are
checked on the instance above:
it reaches `RBTree`, `AvlTree` and `SlotPool`, which are written with `RECURSIVE`
operators, so no theorem can name it; what is proved of the queue is stated of the
part alone, with the same definitions. The properties of the trees, and
`ValidatorAgrees`, are inductions over data besides. What the runs of section 4
check is false of the code; only `RemovedIsGone` has a client for whom it is proved.

## 7. Not modelled, and why

Hashes and conversions of strings (pure functions), floating-point vectors and
matrices, the OO exercise (its `new()` looks for a constructor behind an object of
one word, so nothing is defined from its first call on), wrappers around sockets, clock and `cpuid`, the build scripts, and `main.cpp`,
which calls the tests in a row. `ThreadSafePoolStack::expand()` begins with a
failing assert and has no caller. Inside the modelled parts: allocation labels,
printing and drawing; the bytes of a block; the assignment to a handle that manages
a block; `queue_free()`, after which the queue is not used; the refusal of the key
`SINT32_MAX`, and the node that a red-black insertion of a present key allocates and
forgets; `operator==` of a Pool's handle, which holds already when either the index
or the generation is the same.

## 8. Plan

1. *done* Thread-safe pool: model, two kinds of clients, refinement, proofs.
2. *done* Freelist2 and its refinement of `Heap`.
3. *done* Lock-free stack and its refinement of `Lifo`.
4. *done* `HashTable` and its refinement of `Map`, for the clients that `Freelist2` is one of
   until its first `free_all()`; what its table holds after that, in `Freelist2`.
5. *done* `Tlsf` and its refinement of `Heap`.
6. *done* The small allocators and the first free list over `Heap`, the kind
   chosen initially, in one run with `Tlsf`.
7. *done* The trees, the arrays, the strings and `Pool` with `Stack` over `Collection`, likewise.
8. *done* Owners inside the buffer (`child_header`) and `handle.h`, in `Freelist2`.
9. *done* Proofs: the lock-free stack implements `Lifo` when the exchange orders
   memory, the small allocators implement `Heap`, the queue is first in first out, the pool
   under `RecycleStorm` loses nothing, the hash table implements `Map`, `Freelist2`
   tiles its buffer and implements `Heap`.
10. *done* Proofs: the first free list, over the lemmas of `FreeNodes_proofs`, and the
    headers, links, bits and blocks of the other small allocators.
11. *done* Proofs: the lists, bitmaps and blocks of `Tlsf`.
12. Proofs: the balance of the trees, if written without recursive operators.
