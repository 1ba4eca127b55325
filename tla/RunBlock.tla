------------------------------ MODULE RunBlock ------------------------------
(***************************************************************************)
(* Run memory blocks of src/src/libpmemobj/memblock.c.                    *)
(*                                                                         *)
(* A run is a chunk split into units of run->block_size bytes; unit u is   *)
(* tracked by bit (u % BITS_PER_VALUE) of bitmap word (u \div              *)
(* BITS_PER_VALUE), and a SET bit means ALLOCATED.  A memory block of a    *)
(* run is the pair (block_off, size_idx) and never crosses a bitmap word.  *)
(*                                                                         *)
(* Modelled from the code: run_prep_operation_hdr (the redo entry it adds  *)
(* to the operation context), run_get_state (the bitmap scan) and          *)
(* run_get_lock (the per-run mutex).                                       *)
(*                                                                         *)
(* Modelled from the spec (that code is not in this repository): the       *)
(* caller protocol of section 5 -- take the lock get_lock returns, pick a  *)
(* block, prep_hdr, process the context, unlock -- and the redo processing *)
(* of an OR/AND entry, which is a plain read-modify-write of the word.     *)
(*                                                                         *)
(* The word width is scaled from 64 to BITS_PER_VALUE; all mask arithmetic *)
(* is done at that width.                                                  *)
(***************************************************************************)
EXTENDS Integers, FiniteSets, Sequences, Bitwise

CONSTANTS
    Threads,         \* caller threads allocating from / freeing to the run
    BITS_PER_VALUE,  \* width of a bitmap word (64 in the code)
    NWords,          \* number of bitmap words of the run
    SizeIdxs,        \* size_idx values callers ask for
    RunChunkId,      \* chunk_id of the run (names its mutex)
    NoLock,          \* what a get_lock without a lock returns (NULL)
    NoOwner          \* owner of a free mutex

ASSUME BITS_PER_VALUE \in Nat \ {0} /\ NWords \in Nat \ {0}
ASSUME SizeIdxs \subseteq 1..BITS_PER_VALUE

VARIABLES
    bitmap,   \* r->bitmap[]: the persistent run bitmap
    mutex,    \* owner of the run mutex heap_get_run_lock(chunk_id)
    pc,       \* where each caller thread is in the protocol
    blk,      \* the memory block a thread is operating on
    op,       \* MEMBLOCK_ALLOCATED or MEMBLOCK_FREE
    lk,       \* the lock the thread got from get_lock
    redo,     \* the entry the thread's operation context holds
    rd,       \* word value read by the redo processing (read-modify-write)
    owned     \* blocks each thread holds as committed allocations

vars == <<bitmap, mutex, pc, blk, op, lk, redo, rd, owned>>

ALLOCATED == "MEMBLOCK_ALLOCATED"
FREE == "MEMBLOCK_FREE"
NoBlock == [block_off |-> 0, size_idx |-> 0]
NoEntry == [word |-> 0, value |-> 0, kind |-> "NONE"]

UINT_MAX == 2^BITS_PER_VALUE - 1
NUnits == NWords * BITS_PER_VALUE
Words == 0..NWords - 1
WordValues == 0..UINT_MAX

\* ~x at the width of a bitmap word
Complement(x) == UINT_MAX - x

\* uint64_t arithmetic wraps modulo 2^BITS_PER_VALUE.
Wrap(x) == x % 2^BITS_PER_VALUE

\* x << n on a uint64_t as x86-64 executes it: the shift count is taken
\* modulo the width and the result is truncated to the word.
Shl(x, n) == Wrap(x * 2^(n % BITS_PER_VALUE))

\* BIT_IS_CLR(value, i)
BitIsClr(value, i) == (value \div 2^i) % 2 = 0

\* The memory blocks a run caller may hand to the run operations: a block
\* never crosses a bitmap word (spec, section 3).
Blocks == {m \in [block_off : 0..NUnits - 1, size_idx : SizeIdxs] :
             (m.block_off % BITS_PER_VALUE) + m.size_idx <= BITS_PER_VALUE}

Units(m) == m.block_off .. (m.block_off + m.size_idx - 1)

\* The units whose bit is set in a bitmap.
SetUnits(bm) ==
    {u \in 0..NUnits - 1 : ~BitIsClr(bm[u \div BITS_PER_VALUE], u % BITS_PER_VALUE)}

-----------------------------------------------------------------------------
(* Faults the code could plausibly have; each must break a property.       *)
\* the FREE entry ANDs with bmask instead of ~bmask
PrepFreeWithoutInvert(m, o) ==
    [word |-> m.block_off \div BITS_PER_VALUE,
     value |-> IF m.size_idx = BITS_PER_VALUE THEN UINT_MAX
               ELSE (2^m.size_idx - 1) * 2^(m.block_off % BITS_PER_VALUE),
     kind |-> IF o = ALLOCATED THEN "OR" ELSE "AND"]

\* the scan stops one bit early: i < b_last - 1
GetStateLoopShort(bm, m) ==
    LET b == m.block_off % BITS_PER_VALUE
        value == bm[m.block_off \div BITS_PER_VALUE]
    IN  IF \E i \in b..(b + m.size_idx - 2) : (value \div 2^i) % 2 = 1
        THEN ALLOCATED ELSE FREE

\* the size_idx == BITS_PER_VALUE special case dropped: the full-word
\* block is masked by ((1ULL << 64) - 1ULL) << 0
MaskNoFullWordCase(m) ==
    Shl(Wrap(Shl(1, m.size_idx) - 1), m.block_off % BITS_PER_VALUE)

\* the bitmap element taken from the block's end, not its first unit
RunBitmapPosPastEnd(m) == (m.block_off + m.size_idx) \div BITS_PER_VALUE

\* runs treated like huge blocks: get_lock returns NULL
GetLockNull(m) == NoLock

-----------------------------------------------------------------------------
(* run_prep_operation_hdr: the mask that flips the bits of the block.      *)
(* Without the size_idx = BITS_PER_VALUE case, 1ULL << size_idx would be a *)
(* shift by the full width (undefined in C; x86-64 shl masks the count, so *)
(* 1 << 64 yields 1 and the mask becomes 0).                               *)
RunBlockMask(m) ==
    IF m.size_idx = BITS_PER_VALUE
    THEN UINT_MAX
    ELSE Shl(Wrap(Shl(1, m.size_idx) - 1), m.block_off % BITS_PER_VALUE)

(* run_prep_operation_hdr: the bitmap element holding the block.           *)
RunBitmapPos(m) == m.block_off \div BITS_PER_VALUE

(* run_prep_operation_hdr: the redo entry added for the operation.         *)
RunPrepOperationHdr(m, o) ==
    IF o = ALLOCATED
    THEN [word |-> RunBitmapPos(m), value |-> RunBlockMask(m), kind |-> "OR"]
    ELSE [word |-> RunBitmapPos(m), value |-> Complement(RunBlockMask(m)),
          kind |-> "AND"]

(* run_get_state: the loop over bits b .. b_last - 1 of the word.          *)
RECURSIVE AnyBitSet(_, _, _)
AnyBitSet(value, i, b_last) ==
    IF i >= b_last THEN FALSE
    ELSE ~BitIsClr(value, i) \/ AnyBitSet(value, i + 1, b_last)

RunGetState(bm, m) ==
    LET v == m.block_off \div BITS_PER_VALUE
        b == m.block_off % BITS_PER_VALUE
    IN  IF AnyBitSet(bm[v], b, b + m.size_idx) THEN ALLOCATED ELSE FREE

(* run_get_lock: the heap's mutex of the run's chunk.                      *)
RunGetLock(m) == RunChunkId

(* Redo processing of one OR/AND entry on the word value read.             *)
ApplyEntry(value, e) ==
    IF e.kind = "OR" THEN value | e.value ELSE value & e.value

-----------------------------------------------------------------------------
Init ==
    /\ bitmap = [w \in Words |-> 0]
    /\ mutex = NoOwner
    /\ pc = [t \in Threads |-> "idle"]
    /\ blk = [t \in Threads |-> NoBlock]
    /\ op = [t \in Threads |-> FREE]
    /\ lk = [t \in Threads |-> NoLock]
    /\ redo = [t \in Threads |-> NoEntry]
    /\ rd = [t \in Threads |-> 0]
    /\ owned = [t \in Threads |-> {}]

\* The caller asks get_lock for the block's lock and takes it, if any.
GetLock(t) ==
    /\ pc[t] = "idle"
    /\ LET l == RunGetLock(blk[t]) IN
         /\ l # NoLock => mutex = NoOwner
         /\ mutex' = IF l # NoLock THEN t ELSE mutex
         /\ lk' = [lk EXCEPT ![t] = l]
    /\ pc' = [pc EXCEPT ![t] = "locked"]
    /\ UNCHANGED <<bitmap, blk, op, redo, rd, owned>>

\* The caller picks a block run_get_state reports FREE, to allocate it.
SelectAlloc(t) ==
    /\ pc[t] = "locked"
    /\ \E m \in Blocks :
         /\ RunGetState(bitmap, m) = FREE
         /\ blk' = [blk EXCEPT ![t] = m]
    /\ op' = [op EXCEPT ![t] = ALLOCATED]
    /\ pc' = [pc EXCEPT ![t] = "selected"]
    /\ UNCHANGED <<bitmap, mutex, lk, redo, rd, owned>>

\* The caller picks one of its allocations, to free it.
SelectFree(t) ==
    /\ pc[t] = "locked"
    /\ \E m \in owned[t] :
         /\ blk' = [blk EXCEPT ![t] = m]
         /\ owned' = [owned EXCEPT ![t] = @ \ {m}]
    /\ op' = [op EXCEPT ![t] = FREE]
    /\ pc' = [pc EXCEPT ![t] = "selected"]
    /\ UNCHANGED <<bitmap, mutex, lk, redo, rd>>

\* run_prep_operation_hdr: the entry goes to the thread's context.
PrepHdr(t) ==
    /\ pc[t] = "selected"
    /\ redo' = [redo EXCEPT ![t] = RunPrepOperationHdr(blk[t], op[t])]
    /\ pc' = [pc EXCEPT ![t] = "prepared"]
    /\ UNCHANGED <<bitmap, mutex, blk, op, lk, rd, owned>>

\* Processing the context: load the bitmap word ...
ProcessRead(t) ==
    /\ pc[t] = "prepared"
    /\ rd' = [rd EXCEPT ![t] = bitmap[redo[t].word]]
    /\ pc' = [pc EXCEPT ![t] = "applying"]
    /\ UNCHANGED <<bitmap, mutex, blk, op, lk, redo, owned>>

\* ... and store it with the entry applied; the block is now the caller's
\* (ALLOCATED) or no longer (FREE).
ProcessWrite(t) ==
    /\ pc[t] = "applying"
    /\ bitmap' = [bitmap EXCEPT ![redo[t].word] = ApplyEntry(rd[t], redo[t])]
    /\ owned' = IF op[t] = ALLOCATED
                THEN [owned EXCEPT ![t] = @ \union {blk[t]}]
                ELSE owned
    /\ redo' = [redo EXCEPT ![t] = NoEntry]
    /\ pc' = [pc EXCEPT ![t] = "processed"]
    /\ UNCHANGED <<mutex, blk, op, lk, rd>>

\* The caller found nothing to allocate or free, or finished: it unlocks.
Unlock(t) ==
    /\ \/ pc[t] = "processed"
       \/ /\ pc[t] = "locked"
          /\ owned[t] = {}
          /\ \A m \in Blocks : RunGetState(bitmap, m) = ALLOCATED
    /\ mutex' = IF lk[t] # NoLock THEN NoOwner ELSE mutex
    /\ pc' = [pc EXCEPT ![t] = "idle"]
    /\ blk' = [blk EXCEPT ![t] = NoBlock]
    /\ lk' = [lk EXCEPT ![t] = NoLock]
    /\ op' = [op EXCEPT ![t] = FREE]
    /\ rd' = [rd EXCEPT ![t] = 0]
    /\ UNCHANGED <<bitmap, redo, owned>>

Next ==
    \E t \in Threads :
        \/ GetLock(t)
        \/ SelectAlloc(t)
        \/ SelectFree(t)
        \/ PrepHdr(t)
        \/ ProcessRead(t)
        \/ ProcessWrite(t)
        \/ Unlock(t)

Spec == Init /\ [][Next]_vars

-----------------------------------------------------------------------------
TypeOK ==
    /\ bitmap \in [Words -> WordValues]
    /\ mutex \in Threads \union {NoOwner}
    /\ pc \in [Threads -> {"idle", "locked", "selected", "prepared",
                           "applying", "processed"}]
    /\ blk \in [Threads -> Blocks \union {NoBlock}]
    /\ op \in [Threads -> {ALLOCATED, FREE}]
    /\ redo \in [Threads -> [word : Words, value : WordValues,
                             kind : {"OR", "AND"}] \union {NoEntry}]
    /\ rd \in [Threads -> WordValues]
    /\ owned \in [Threads -> SUBSET Blocks]

(* No unit of the run is held by two allocations at once: two callers     *)
(* never both find the same bits FREE in run_get_state and commit them,   *)
(* which needs the mutex run_get_lock returns to be held from the read    *)
(* until the context is processed.                                         *)
NoOverlappingAllocations ==
    \A t1, t2 \in Threads : \A m1 \in owned[t1], m2 \in owned[t2] :
        <<t1, m1>> # <<t2, m2>> => Units(m1) \cap Units(m2) = {}

(* Whenever no caller is inside an operation, the set bits of the run     *)
(* bitmap are exactly the units of the committed allocations: the OR and  *)
(* AND entries of run_prep_operation_hdr set and clear precisely the      *)
(* block's bits and nothing of a neighbour's.                              *)
BitmapMatchesAllocations ==
    (\A t \in Threads : pc[t] = "idle") =>
        SetUnits(bitmap) = UNION {Units(m) : m \in UNION {owned[t] : t \in Threads}}

(* run_get_state reports ALLOCATED exactly when some bit of the block is  *)
(* set, for every block and every bitmap the callers produce (the scan of  *)
(* the block's bit range inside its word).                                 *)
RunGetStateCorrect ==
    \A m \in Blocks :
        (RunGetState(bitmap, m) = ALLOCATED) <=> (Units(m) \cap SetUnits(bitmap) # {})

(* Abstract run: allocations and frees of whole blocks, atomically.        *)
Abstract == INSTANCE RunAlloc WITH allocated <- SetUnits(bitmap)

(* Every change the callers make to the run bitmap is one atomic           *)
(* allocation of free units or one atomic free of allocated units of a     *)
(* block: no processed redo entry loses a concurrent caller's update.      *)
RunRefinesAlloc == Abstract!Spec

=============================================================================
