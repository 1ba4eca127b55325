# TLA+ models of the pmemobj memory-block layer

This directory holds TLA+ models of `src/src/libpmemobj/memblock.c`, the
memory-block abstraction of the libpmemobj persistent heap, and of
the C++ façade `src/src/include/libpmemobj/pool.hpp`. Every model is checked
with TLC. `PROJECT.json` lists the components, the runs, the mutants, and the
map from each definition to the source lines it models.

## 1. Inventory

### Components

| Component | Source | State it keeps | Operations |
|---|---|---|---|
| Layout tables | memblock.c 56-66 | none. `header_type_to_size` and `header_type_to_flag` are read-only tables. | - |
| Header flavours (legacy 64 B, compact 16 B, none) | memblock.c 85-383 | the allocation header at the start of each block | get_size, get_extra, get_flags, write, invalidate, reinit |
| Huge blocks | memblock.c 385-414, 491-550, 604-639, 669-687 | the chunk-header array: `(type, flags, size_idx)` per slot, with a footer in the last slot of a multi-chunk chunk | block_size, get_real_data, prep_hdr, get_lock (NULL), get_state, ensure_header_type |
| Run blocks | memblock.c 395-461, 552-602, 615-667, 689-701 | the run bitmap (set bit = allocated) and the run metadata (block_size, alignment) | block_size, get_real_data, prep_hdr (OR/AND redo entry), get_lock (per-run mutex), get_state, ensure_header_type (debug assert) |
| Generic block operations and dispatch | memblock.c 703-918 | the transient descriptor `memory_block` (zone_id, chunk_id, block_off, size_idx, header_type, type, m_ops) | get_real_size, get_user_size, write_header, invalidate, reinit_header, get_extra, get_flags, memblock_from_offset(_opt), memblock_rebuild_state, memblock_detect_type |
| C++ pool façade | pool.hpp | one raw `PMEMobjpool *pop` per pool object. The object is copyable and movable. | open, create, check, close, get_root, get_handle |

### External collaborators

These are not in this repository. The spec names them, and the models use them as their environment:

- The heap: zone and chunk storage, the per-run mutex registry, and bucket
  exclusion for huge chunks. The heap also splits and coalesces chunks, and it
  rebuilds the footers at boot.
- The operation context. Entries are `(addr, value, SET|OR|AND)`, and an entry
  is either persistent or transient. Processing the context makes the
  persistent entries durable all at once, as the redo log does. It then applies
  the transient entries as plain stores.
- The persistence primitives. `memcpy` writes with the flags WC, NODRAIN and
  RELAXED. `persist` flushes.

### How the parts interact

The heap resolves an offset, or builds a descriptor by hand, and then calls
`memblock_from_offset` or `memblock_rebuild_state`. These derive
`header_type` from the chunk flags and `type` from the chunk type, and bind
`m_ops`. Callers then go through `m_ops`. To allocate or free, the caller takes
`get_lock(m)`. It calls `prep_hdr(m, op, ctx)`, which adds redo entries or, for
huge blocks with `ctx == NULL`, stores and persists directly. The caller then
processes the context and unlocks. Header reads and writes go through the
flavour table, and the flavour's `get_size` calls back into the block's
`block_size`/`get_real_data`.

### What makes it hard

- **Concurrency on run bitmaps.** `run_prep_operation_hdr` computes a mask
  without reading the word. The word is changed when the context is
  processed, by a read-modify-write. Two callers may interleave between
  `get_state`, `prep_hdr` and the commit. Only the run mutex from
  `run_get_lock` prevents a double allocation or a lost update (the comment at
  lines 556-558, and spec section 5).
- **Crash consistency of huge headers.** Stores reach the media when they are
  persisted, or earlier at any moment by eviction. A crash can come between
  any two steps. The footer written by `huge_prep_operation_hdr` may overwrite
  the head of another live chunk, so it must come after the durable head
  update (lines 521-541). `huge_ensure_header_type` persists a flag outside
  any log.
- **Bit-exact decoding.** `memblock_from_offset_opt` peels zone, chunk, header
  and alignment padding off an offset. It corrects `chunk_id` for RUN_DATA
  chunks but keeps using the RUN_DATA header for the ALIGNED flag.
- **Numeric edges.** These are the full-word bitmap mask, the mask shift, the
  16-bit `block_off`, and the compact-header widening condition.

### Properties that make each part correct

- **Run blocks.**
  - No unit is held by two allocations.
  - The bitmap equals the union of the committed allocations.
  - `get_state` is exact.
  - Every bitmap change is one atomic whole-block allocate or free. This is the
    refinement to `RunAlloc`.
- **Huge blocks.**
  - After any crash the media headers can be walked.
  - Committed allocations are durable.
  - Runtime footers match their heads.
  - Every change of the persistent heads is one atomic allocate, free or
    merge. This is the refinement to `HugeHeap`.
  - `ensure_header_type` establishes the requested flavour.
- **Header flavours.**
  - `get_*` returns what `write` stored.
  - A widened compact write stays inside the allocation.
  - The size read through `size_idx` agrees with the size read through the
    header. This holds except for HEADER_NONE, where spec section 9
    documents one unit.
- **Dispatch.** `from_offset(get_user_data(m))` returns `m` for every block of a
  valid layout. This covers huge blocks, runs, aligned runs, and runs spanning
  several chunks.
- **Pool façade.** No pool is closed twice or used after it is closed.

## 2. Plan

The modules, in order of importance:

1. **RunBlock** + abstract **RunAlloc** (done). This is the concurrency core.
2. **HugeChunk** + abstract **HugeHeap** (done). This is crash consistency
   of chunk headers, footers and ensure_header_type.
3. **MemblockDecode** (done). It models `memblock_from_offset_opt`,
   `memblock_rebuild_state`, `memblock_detect_type`, run data addressing with
   alignment padding, and `block_get_real_size` over every layout of a small
   zone, including the RUN_DATA stale-header case.
4. **HeaderOps** (done). This covers the three flavours writing into a run's
   cells: the write/get round trip at a scaled `ALLOC_HDR_SIZE_SHIFT`, and
   the compact widening bound.
5. **PoolHandle** (done). This covers pool objects with copy and move, and
   close and get_root against the pool's real open/closed state.
6. **Composition** (done as an assume-guarantee argument, not as a module).
   The parts interact only through two things. The first is the header
   words: `block_write_header` writes them and the decode path reads them.
   The second is the chunk headers: HugeChunk writes them and the decode path
   reads them.
   - MemblockDecode's layouts *assume* that every header's size field holds
     `block_get_real_size` (`MkLayout`). HeaderOps *guarantees* this
     (`HeadersReadBack`, with `GetSize(b) = RealSize(b)`), after any
     interleaving of other allocations, widened writes, fills and frees.
   - MemblockDecode's layouts *assume* walkable chunk headers with the
     flavour flag set. HugeChunk *guarantees* the walk at every crash point
     (`CrashLeavesWalkableHeap`) and, between operations, the footers
     (`RuntimeFootersConsistent`). The flavour flag is the known exception
     (`huge_flavour`).
   - RunBlock's abstraction (`RunAlloc`) is what the decode model takes as
     the set of allocated blocks.

   A single module that multiplies these state spaces would find nothing the
   separate runs do not. The order in which palloc writes a header relative
   to the bitmap commit is in `palloc.c`, which is not in this repository.

What the plan has left:

- The pool façade's `get_root` on a NULL handle. It has no documented
  contract, so there is nothing to check it against.

## 3. Modules and runs so far

### RunBlock (runs `run_bitmap`)

This module covers `run_prep_operation_hdr`, `run_get_state` and
`run_get_lock`, together with the caller protocol of spec section 5.

- **State.** `bitmap` is `r->bitmap[]`. `mutex` is the run mutex. Each thread has:
  - `pc`, `blk` and `op`;
  - `redo`, the entry in its operation context;
  - `rd`, the word loaded by redo processing;
  - `owned`, its committed allocations (history).
- **Actions.** Each thread runs `GetLock` → `SelectAlloc`/`SelectFree` →
  `PrepHdr` → `ProcessRead` → `ProcessWrite` → `Unlock`. `Unlock` is also
  taken when there is nothing to allocate or free.
- **When the mask is applied.** The comment at memblock.c:591 says the
  mask is "applied immediately by the add entry operations". Spec section 5
  says it is applied when the context commits. Either way, the word is
  changed by a load and a store after `prep_hdr` and before `Unlock`.
  `ProcessRead` and `ProcessWrite` model that load and store, so both
  readings give the same interleavings.
- **Scaling.** The word is scaled from 64 to `BITS_PER_VALUE` = 4 bits, and all
  mask arithmetic (`UINT64_MAX`, `~bmask`, `<<`) is done at that width. `Shl`
  is a `uint64_t` shift as x86-64 executes it: the count is taken modulo the
  width and the result is truncated. `1ULL << 64` is undefined in C, and there
  it yields 1. This is what makes the `size_idx == BITS_PER_VALUE` special
  case necessary.
- **Bounds.** The run has 2 words, and the threads ask for sizes {1, 2, 4}.
  These bounds cover a shifted mask in both words, the full-word special case,
  and a second word (`bpos`). About 850k states are explored in 40 s.
- **Properties.**
  - `NoOverlappingAllocations`.
  - `BitmapMatchesAllocations`, checked when every thread is idle.
  - `RunGetStateCorrect`, which compares the loop with a set-based reference
    for every word value and block.
  - `RunRefinesAlloc`. It uses `INSTANCE RunAlloc WITH allocated <-
    SetUnits(bitmap)` and says every bitmap change is one atomic allocation of
    free units or one atomic free of allocated units.
- **Mutants.**
  - If runs get a NULL lock, as huge blocks do, TLC finds both the double
    allocation and the lost update.
  - If the full-word special case is dropped (`MaskNoFullWordCase`), a
    four-unit allocation sets no bits. `BitmapMatchesAllocations` then fails.

### HugeChunk (runs `huge_chunk`, `huge_flavour`)

This module covers one zone of `NChunks` = 4 header slots. The slots are split
between `media` (the persistence domain) and `cache` (stores not written back).

- **Actions.**
  - `StartAlloc` (it calls `huge_ensure_header_type`), `StartFree` and
    `StartCoalesce`.
  - `PrepHdr`. With `ctx == NULL`, the ordered stores and persists of
    `huge_prep_operation_hdr` are executed one per `MemStep`. With a context,
    its redo entries are processed by `ProcessCtx`.
  - `Finish`, `Evict` and `Crash`. `Crash` drops the cache, and heap boot
    rebuilds the footers.
- **Initial states.** Every split of the zone into free chunks, as heap init
  leaves it.
- **Bounds.** Four slots allow chunks of one to four units, and a coalesce
  whose footer lands on the head of a one-unit chunk. The run takes 356k
  states in under 10 s. A single run with five slots (8.2M states,
  2 min 39 s) found no violation either. It is too slow to keep as the
  regular run.
- **Properties.**
  - `CrashLeavesWalkableHeap`: the media can be walked at every instant.
  - `AllocationsDurable`.
  - `RuntimeFootersConsistent`.
  - `HugeRefinesHeap`. It uses `INSTANCE HugeHeap WITH chunks <- ...` and
    maps the heads that heap boot walks on media to the abstract partition
    of the zone. Each head becomes a chunk with its `size_idx` and whether
    it is used. Every media change is one whole abstract step, or no change:
    allocating a free chunk, freeing a used one, or merging two adjacent
    free chunks. This covers persisted heads, evicted stores, processed
    contexts and crashes. `HugeHeap` is the abstract specification.
- **Mutants.** A head that keeps the old `size_idx` (`HeadKeepsOldSize`)
  breaks the refinement after about 1,100 states. The footer written
  before the head, the footer one slot past the chunk, and the head never
  persisted break the other properties.
- **Findings.** `huge_flavour` adds a second flavour and finds
  `HeaderTypeAsEnsured` violated. Flags survive frees and crashes, and
  `huge_ensure_header_type` only ORs in a flag.

### MemblockDecode (runs `decode`, `decode_run_data`)

This module covers resolving an offset into a `memory_block` and building one
by hand.

- **State.** `layout` holds the chunk headers of one zone, the run metadata
  (`block_size`, `alignment`), and the size field of every allocation header,
  keyed by the address `block_write_header` wrote it at. `blocks` holds the
  descriptors of the allocations the heap made. Neither changes after Init.
  `desc` is the descriptor the last call returned, and `target` is the
  allocation it was asked about.
- **Initial states.** Every split of a 3-chunk zone into used huge chunks
  (1-3 chunks) and runs (1-3 chunks). Each segment can have any of the three
  flavours. A run has 8- or 16-byte units, may be ALIGNED to 8 or 16, and
  its allocations are 1 or 2 units. As the heap's allocation classes do, a
  run is ALIGNED only when its unit size is a multiple of the alignment.
  Every run also holds at least one allocation of its class. That gives
  12133 layouts (170,875 states, about 30 s).
- **Actions.**
  - `FromOffset(m, size)` calls `memblock_from_offset_opt` on
    `block_get_user_data(m)`. The operator follows the code subtraction by
    subtraction, in `uintptr_t` arithmetic modulo `ADDR_MOD`. It also records
    what its two ASSERTs test.
  - `RebuildState(m)` calls `memblock_rebuild_state` on a hand-built
    descriptor whose `header_type` and `type` hold garbage.
- **Scaling.**
  - `CHUNKSIZE` is 32, `RUN_METASIZE` 8, the zone header 6, and the zone0
    offset 2.
  - Headers are 4 bytes (legacy) and 1 byte (compact). Units are 8 or 16
    bytes, aligned to 8 or 16.
  - With these values the padding differs between flavours (4, 7 and 0 bytes
    at chunk 0 with alignment 8). With alignment 16 the padding is larger
    than the header (12 bytes, legacy). The alignment can be below the unit
    size. Units of a run spanning chunks fall in its RUN_DATA chunks.
  - When the unit-multiple rule is dropped (units of 12 bytes, alignment
    8), `UserDataAligned` fails in an initial state.
    `run_get_real_data` aligns only the first block, so the rule is a
    precondition the heap must keep (listed as a hazard).
  - Where a run keeps `block_size`, a huge chunk holds application data.
    The layouts put a unit of 1 there. A decode that takes a huge block
    for a run (a mutant of `memblock_header_type`) then reads garbage,
    as the code does, instead of dividing by zero.
- **Properties.**
  - `FromOffsetRoundTrip`: the decoded position, flavour and type equal the
    allocation's, and both ASSERTs hold.
  - `UserDataAligned`: in ALIGNED runs the user pointer is aligned and the
    block lies inside the run.
- **Findings.**
  - `decode_run_data` lets a RUN_DATA header lack its RUN's ALIGNED flag. The
    heap code that writes those headers is not in this repository.
    `from_offset` takes the padding from the RUN_DATA header it read before
    correcting `chunk_id` (line 882). The padding is then not subtracted.
    The padding is smaller than a unit, so `block_off` still comes out right.
    Only the leftover offset is wrong: 4 instead of 0 for a legacy block at
    `block_off` 2 with 8-byte units. A debug build fails `ASSERTeq(off, 0)`
    on a valid pointer, while a release build returns the right descriptor.
  - `memblock_rebuild_state` has no property of its own here. What it derives
    is what `FromOffsetRoundTrip` already checks for the same headers.
  - HEADER_NONE `get_size` reports one unit for any block (spec section 9),
    and `memblock_from_offset` callers must set `size_idx` themselves. This
    is documented behaviour, so it is not checked as a property.

### PoolHandle (run `pool_copies`)

This module covers `pool<T>` from `pool.hpp`.

- **State.**
  - `pop[o]`, the raw handle each pool object holds.
  - `live`, the pools pmemobj has open. Every successful open or create
    returns a fresh handle, up to `MaxOpens` = 3.
  - `last`, the last call and its outcome.
- **Actions.**
  - `Open` and `Create`. Either can fail, and then `pool_error` is thrown.
  - `Copy`. This stands for the four defaulted copy and move operations. A
    defaulted move copies a raw pointer and leaves the source unchanged.
  - `Close`. It throws `logic_error` on `nullptr`. Otherwise it calls
    `pmemobj_close` and sets `pop` to `nullptr`.
  - `GetRoot`, which has no check.
- **Run.** `pool_copies` uses two objects and finds the documented contract
  of `close` broken. After `q = p; p.close();`, `q.close()` closes the pool a
  second time.
- **No passing run.** With a single object, the contract of `close` only
  restates its `nullptr` check, so it shows nothing. The same trace also
  leaves `q` holding a closed handle for `get_root`. `get_root` documents no
  precondition, so that is listed as a hazard and not checked as a property.

### HeaderOps (runs `headers`, `header_padding`)

This module covers `memblock_header_ops` for one run whose data is 16 cells
of 8 bytes.

- **State.**
  - `run` is the flavour and the unit size, fixed at Init. The legacy run has
    64-byte units, and the compact and none runs have 32-byte units.
  - `mem` holds the cells. A header word is an integer, `JUNK` is an
    indeterminate value, and `USER` is application data.
  - `alloc` holds the allocated blocks.
- **Actions.**
  - `Alloc` writes the header via `block_write_header`. It writes the legacy
    image, or the compact image, which is widened to 64 bytes when
    `hdrp % CACHELINE_SIZE == 0 && size >= 64`. The uninitialised parts of
    the local image are 0 or `JUNK`.
  - `UserWrite` fills the user data: exactly the bytes from
    `block_get_user_data` for `block_get_user_size` (`BlockGetUserData`,
    `BlockGetUserSize`).
  - `Free`. `invalidate` and `reinit` only annotate for valgrind.
- **Scaling.** A header word is 16 bits with 12 size bits. The flags {0, 9}
  put a bit at the top of the 4-bit flags field.
- **Properties.**
  - `HeadersReadBack`: every allocated header reads back its size, extra and
    flags after any later activity.
  - `UserDataIntact`: no header write reaches another block's user data.
- **Findings.** `header_padding` finds the widened compact write copying
  uninitialised padding. Spec scenario 6 says that padding is zeroed.

### Fairness

No module states a liveness property, and no specification assumes
fairness. The subsystem has no thread of its own (spec section 5). Its
callers run get_lock, prep_hdr, process and unlock synchronously on one
thread. In `RunBlock`, a thread holding the mutex always has exactly one
enabled step. "The mutex is eventually released" would therefore follow
from weak fairness alone, whatever the code did, so it is not checked. The
huge, decode, header and pool operations are single steps with nothing to
wait for.

## 4. Not modelled

- Valgrind annotations. They are instrumentation only.
- The heap's split of huge chunks (`heap_split_block`). It is not in this
  repository and the spec does not describe it, so huge allocations take a
  whole free chunk.
- The inside of the redo log. Processing is taken as atomic for persistent
  entries, as the spec states.
- `pool<T>::check` and `get_handle`. They change no state.
- The exact byte layout of `struct allocation_header_legacy`. It is in
  `memblock.h`, which is not in the repository. The module follows the spec
  (size first, a 40-byte reserved region).
- Crashes in the run protocol. The bitmap changes only through the redo
  log, and its replay engine is outside this repository (a non-goal of the
  spec). The entries are OR and AND with a fixed mask, so they are
  idempotent: replaying one after a partial apply gives the same word.
- `get_state` on a descriptor with `size_idx == 0`, as
  `memblock_from_offset_opt(..., 0)` returns. For runs it reports FREE,
  because the bit range it scans is empty. No contract says whether
  callers may do this (listed as a hazard).
- Blocks crossing bitmap words. The callers that prevent them are outside the
  repository (listed as a hazard).

What is left of the code unmodelled:
- the licence and include lines;
- the Valgrind-only `invalidate` and `reinit` functions of the three
  flavours (memblock.c 255-333);
- the `mb_ops` and `memblock_header_ops` tables. They are modelled as the
  CASE dispatch of each operator.
- `pool<T>::check`, `get_handle`, and the empty `pool_base`.

None of these changes state that a property could tell apart. Every
operation that does is an action or an operator of a module above. The
remaining hazards without a property (memblock.c:582, 656 and pool.hpp:143)
depend on callers or contracts outside this repository.
