----------------------------- MODULE HugeChunk -----------------------------
(***************************************************************************)
(* Huge memory blocks of src/src/libpmemobj/memblock.c over the chunk      *)
(* header array of one zone, with crashes.                                 *)
(*                                                                         *)
(* A chunk header is the 8-byte (type, flags, size_idx); flags is a set of *)
(* flag names.  Stores go to a volatile cache line; a cached header is     *)
(* written back to the persistence domain (media) when pmemops_persist     *)
(* flushes it, or at any moment by eviction.  A crash drops the cache and  *)
(* any operation in progress; heap boot rebuilds the footers in the        *)
(* cache from the heads on media (spec 4.2: footers are reconstructable).  *)
(*                                                                         *)
(* Modelled from the code: huge_prep_operation_hdr (both the ctx == NULL   *)
(* stores and the redo entries), chunk_get_chunk_hdr_value,                *)
(* huge_ensure_header_type, huge_get_state, memblock_header_type.          *)
(*                                                                         *)
(* Modelled from the spec (code not in this repository): the heap's use of *)
(* those operations under bucket exclusion -- allocate a free chunk        *)
(* (ensure_header_type, then prep_hdr ALLOCATED), free an allocation       *)
(* (prep_hdr FREE), coalesce two adjacent free chunks (prep_hdr FREE with  *)
(* ctx == NULL on the merged block) -- the redo processing, which makes    *)
(* the persistent entries durable at once and then applies the transient   *)
(* ones as plain stores, and heap boot.                                    *)
(***************************************************************************)
EXTENDS Integers, FiniteSets, Sequences

CONSTANTS
    NChunks,       \* chunk header slots in the zone
    HeaderTypes    \* header flavours allocation classes ask for

VARIABLES
    media,    \* chunk headers in the persistence domain
    cache,    \* stored but not yet written back headers (or Clean)
    pending,  \* memory operations of the running handler still to execute
    ctx,      \* the operation context of the running operation
    pc,       \* caller phase
    cur,      \* the memory block and operation in progress
    held,     \* chunk ids of the allocations the application holds
    ensured   \* header flavour the caller last asked ensure_header_type for

vars == <<media, cache, pending, ctx, pc, cur, held, ensured>>

Slots == 0..NChunks - 1

\* enum chunk_type; UNKNOWN is a zeroed header slot
UNKNOWN == "CHUNK_TYPE_UNKNOWN"
FOOTER == "CHUNK_TYPE_FOOTER"
CFREE == "CHUNK_TYPE_FREE"
USED == "CHUNK_TYPE_USED"
ChunkTypes == {UNKNOWN, FOOTER, CFREE, USED}

\* enum memblock_state
ALLOCATED == "MEMBLOCK_ALLOCATED"
FREE == "MEMBLOCK_FREE"
STATE_UNKNOWN == "MEMBLOCK_STATE_UNKNOWN"

\* enum header_type and header_type_to_flag[]
LEGACY == "HEADER_LEGACY"
COMPACT == "HEADER_COMPACT"
NONE == "HEADER_NONE"
HeaderTypeToFlag ==
    [t \in {LEGACY, COMPACT, NONE} |->
        CASE t = LEGACY -> {}
          [] t = COMPACT -> {"CHUNK_FLAG_COMPACT_HEADER"}
          [] t = NONE -> {"CHUNK_FLAG_HEADER_NONE"}]
ChunkFlags == {"CHUNK_FLAG_COMPACT_HEADER", "CHUNK_FLAG_HEADER_NONE"}

Clean == [type |-> "clean", flags |-> {}, size_idx |-> 0]
NoBlock == [chunk_id |-> 0, size_idx |-> 0, op |-> FREE, usectx |-> FALSE]

\* What the CPU sees: the cached store if any, else the persistent value.
View(i) == IF cache[i] # Clean THEN cache[i] ELSE media[i]
ViewAll == [i \in Slots |-> View(i)]

\* The heads of a header array, walked from slot 0 by size_idx as heap
\* boot does; Walkable says the walk lands exactly on the zone's end.
RECURSIVE HeadsFrom(_, _)
HeadsFrom(h, i) ==
    IF i >= NChunks \/ h[i].type \notin {CFREE, USED} \/ h[i].size_idx < 1
    THEN {}
    ELSE {i} \union HeadsFrom(h, i + h[i].size_idx)

RECURSIVE WalkEnd(_, _)
WalkEnd(h, i) ==
    IF i >= NChunks \/ h[i].type \notin {CFREE, USED} \/ h[i].size_idx < 1
    THEN i
    ELSE WalkEnd(h, i + h[i].size_idx)

Heads(h) == HeadsFrom(h, 0)
Walkable(h) == WalkEnd(h, 0) = NChunks

-----------------------------------------------------------------------------
(* memblock_header_type: flavour derived from the chunk header flags.      *)
MemblockHeaderType(hdr) ==
    IF "CHUNK_FLAG_COMPACT_HEADER" \in hdr.flags THEN COMPACT
    ELSE IF "CHUNK_FLAG_HEADER_NONE" \in hdr.flags THEN NONE
    ELSE LEGACY

(* chunk_get_chunk_hdr_value: the packed 8-byte header.                    *)
ChunkHdrValue(type, flags, size_idx) ==
    [type |-> type, flags |-> flags, size_idx |-> size_idx]

(* huge_get_state                                                          *)
HugeGetState(hdr) ==
    IF hdr.type = USED THEN ALLOCATED
    ELSE IF hdr.type = CFREE THEN FREE
    ELSE STATE_UNKNOWN

(* Faults the code could plausibly have; each must break a property.       *)
\* the head store is never followed by pmemops_persist
HeadNotPersisted(m, flags) ==
    LET head == ChunkHdrValue(IF m.op = ALLOCATED THEN USED ELSE CFREE,
                              flags, m.size_idx)
    IN  <<[do |-> IF m.usectx THEN "set" ELSE "store",
           slot |-> m.chunk_id, val |-> head]>>

\* the footer is only created for allocations
FooterOnlyOnAlloc(m) ==
    IF m.size_idx = 1 \/ m.op = FREE THEN <<>>
    ELSE <<[do |-> IF m.usectx THEN "set_transient" ELSE "store",
            slot |-> m.chunk_id + m.size_idx - 1,
            val |-> ChunkHdrValue(FOOTER, {}, m.size_idx)]>>

\* the footer pointer is one past the chunk: hdr + m->size_idx
FooterPastEnd(m) ==
    IF m.size_idx = 1 THEN <<>>
    ELSE <<[do |-> IF m.usectx THEN "set_transient" ELSE "store",
            slot |-> m.chunk_id + m.size_idx,
            val |-> ChunkHdrValue(FOOTER, {}, m.size_idx)]>>

(* Mutant: the new head keeps the size_idx the chunk header had.          *)
HeadKeepsOldSize(m, flags) ==
    LET head == ChunkHdrValue(IF m.op = ALLOCATED THEN USED ELSE CFREE,
                              flags, View(m.chunk_id).size_idx)
    IN  IF m.usectx
        THEN <<[do |-> "set", slot |-> m.chunk_id, val |-> head]>>
        ELSE <<[do |-> "store", slot |-> m.chunk_id, val |-> head],
               [do |-> "persist", slot |-> m.chunk_id, val |-> head]>>

(* huge_prep_operation_hdr, lines 505-516: the new head header; with      *)
(* ctx == NULL it is stored and persisted, else a SET entry is added.      *)
HugeHeadOps(m, flags) ==
    LET head == ChunkHdrValue(IF m.op = ALLOCATED THEN USED ELSE CFREE,
                              flags, m.size_idx)
    IN  IF m.usectx
        THEN <<[do |-> "set", slot |-> m.chunk_id, val |-> head]>>
        ELSE <<[do |-> "store", slot |-> m.chunk_id, val |-> head],
               [do |-> "persist", slot |-> m.chunk_id, val |-> head]>>

(* huge_prep_operation_hdr, lines 525-549: no footer for a one-chunk       *)
(* block; else the footer at hdr + size_idx - 1, stored without a persist  *)
(* (ctx == NULL) or added as a transient SET entry.                        *)
HugeFooterOps(m) ==
    IF m.size_idx = 1 THEN <<>>
    ELSE <<[do |-> IF m.usectx THEN "set_transient" ELSE "store",
            slot |-> m.chunk_id + m.size_idx - 1,
            val |-> ChunkHdrValue(FOOTER, {}, m.size_idx)]>>

\* the footer is written before the head
FooterFirst(m, flags) == HugeFooterOps(m) \o HugeHeadOps(m, flags)

(* huge_prep_operation_hdr: the head update, then the footer -- "created   *)
(* immediately AFTER the persistent state is safely updated".              *)
HugePrepOperationHdr(m, flags) == HugeHeadOps(m, flags) \o HugeFooterOps(m)

(* huge_ensure_header_type: OR the flavour's flag into a FREE chunk's      *)
(* header and persist it, unless the flag is already there.                *)
HugeEnsureHeaderType(c, t, hdr) ==
    IF hdr.flags \cap HeaderTypeToFlag[t] = {}
    THEN <<[do |-> "store", slot |-> c,
            val |-> [hdr EXCEPT !.flags = @ \union HeaderTypeToFlag[t]]],
           [do |-> "persist", slot |-> c, val |-> hdr]>>
    ELSE <<>>

(* Heap boot: footers of the heads on media recreated in the cache.        *)
Reboot(h) ==
    [i \in Slots |->
        LET ends == {c \in Heads(h) : h[c].size_idx > 1
                                       /\ i = c + h[c].size_idx - 1}
            foot(c) == ChunkHdrValue(FOOTER, {}, h[c].size_idx)
        IN  IF ends # {} /\ h[i] # foot(CHOOSE c \in ends : TRUE)
            THEN foot(CHOOSE c \in ends : TRUE)
            ELSE Clean]

-----------------------------------------------------------------------------
\* A zone as heap init leaves it: free chunks headed at the slots of H, each
\* with its footer, the slots in between zeroed.
ChunkEnd(H, c) == (CHOOSE n \in (H \union {NChunks}) \ (0..c) :
                      \A k \in (H \union {NChunks}) \ (0..c) : n <= k) - 1
Layout(H) ==
    [i \in Slots |->
        IF i \in H THEN ChunkHdrValue(CFREE, {}, ChunkEnd(H, i) - i + 1)
        ELSE IF \E c \in H : ChunkEnd(H, c) = i
             THEN ChunkHdrValue(FOOTER, {},
                      i - (CHOOSE c \in H : ChunkEnd(H, c) = i) + 1)
             ELSE ChunkHdrValue(UNKNOWN, {}, 0)]

Init ==
    /\ \E H \in SUBSET Slots : 0 \in H /\ media = Layout(H)
    /\ cache = Reboot(media)
    /\ pending = <<>>
    /\ ctx = <<>>
    /\ pc = "idle"
    /\ cur = NoBlock
    /\ held = {}
    /\ ensured = [c \in Slots |-> LEGACY]

\* The heap reserves free chunk c for an allocation with header flavour t
\* and calls ensure_header_type on it.
StartAlloc(c, t, usectx) ==
    /\ pc = "idle"
    /\ c \in Heads(ViewAll)
    /\ HugeGetState(View(c)) = FREE
    /\ pending' = HugeEnsureHeaderType(c, t, View(c))
    /\ cur' = [chunk_id |-> c, size_idx |-> View(c).size_idx,
               op |-> ALLOCATED, usectx |-> usectx]
    /\ ensured' = [ensured EXCEPT ![c] = t]
    /\ pc' = "ready"
    /\ UNCHANGED <<media, cache, ctx, held>>

\* The application frees its allocation at chunk c.
StartFree(c, usectx) ==
    /\ pc = "idle"
    /\ c \in held
    /\ held' = held \ {c}
    /\ ensured' = [ensured EXCEPT ![c] = LEGACY]
    /\ cur' = [chunk_id |-> c, size_idx |-> View(c).size_idx,
               op |-> FREE, usectx |-> usectx]
    /\ pc' = "ready"
    /\ UNCHANGED <<media, cache, pending, ctx>>

\* The heap merges free chunk c with the free chunk right after it.
StartCoalesce(c) ==
    /\ pc = "idle"
    /\ c \in Heads(ViewAll)
    /\ LET n == c + View(c).size_idx IN
         /\ n \in Heads(ViewAll)
         /\ HugeGetState(View(c)) = FREE
         /\ HugeGetState(View(n)) = FREE
         /\ cur' = [chunk_id |-> c, size_idx |-> View(c).size_idx + View(n).size_idx,
                    op |-> FREE, usectx |-> FALSE]
    /\ pc' = "ready"
    /\ UNCHANGED <<media, cache, pending, ctx, held, ensured>>

\* huge_prep_operation_hdr on the block in progress: with ctx == NULL its
\* stores start executing, else its entries go to the context.
PrepHdr ==
    /\ pc = "ready"
    /\ pending = <<>>
    /\ LET ops == HugePrepOperationHdr(cur, View(cur.chunk_id).flags) IN
         IF cur.usectx
         THEN /\ ctx' = ops
              /\ pc' = "commit"
              /\ UNCHANGED pending
         ELSE /\ pending' = ops
              /\ pc' = "finish"
              /\ UNCHANGED ctx
    /\ UNCHANGED <<media, cache, cur, held, ensured>>

\* Processing the context: the persistent entries take effect durably and
\* at once (redo log), then the transient ones are stored.
ProcessCtx ==
    /\ pc = "commit"
    /\ LET durable == SelectSeq(ctx, LAMBDA e : e.do = "set")
           transient == SelectSeq(ctx, LAMBDA e : e.do = "set_transient")
           setAt(i) == {e \in {durable[k] : k \in DOMAIN durable} : e.slot = i}
       IN  /\ media' = [i \in Slots |->
                          IF setAt(i) # {} THEN (CHOOSE e \in setAt(i) : TRUE).val
                          ELSE media[i]]
           /\ cache' = [i \in Slots |-> IF setAt(i) # {} THEN Clean ELSE cache[i]]
           /\ pending' = [k \in DOMAIN transient |-> [transient[k] EXCEPT !.do = "store"]]
    /\ ctx' = <<>>
    /\ pc' = "finish"
    /\ UNCHANGED <<cur, held, ensured>>

\* The CPU executes the next store or persist of the running handler.
MemStep ==
    /\ pending # <<>>
    /\ LET e == Head(pending) IN
         IF e.do = "store"
         THEN /\ cache' = [cache EXCEPT ![e.slot] = e.val]
              /\ UNCHANGED media
         ELSE /\ media' = [media EXCEPT ![e.slot] = View(e.slot)]
              /\ cache' = [cache EXCEPT ![e.slot] = Clean]
    /\ pending' = Tail(pending)
    /\ UNCHANGED <<ctx, pc, cur, held, ensured>>

\* The operation returns; an allocation is now the application's.
Finish ==
    /\ pc = "finish"
    /\ pending = <<>>
    /\ held' = IF cur.op = ALLOCATED THEN held \union {cur.chunk_id} ELSE held
    /\ pc' = "idle"
    /\ cur' = NoBlock
    /\ UNCHANGED <<media, cache, pending, ctx, ensured>>

\* A cached header is written back to the persistence domain.
Evict(i) ==
    /\ cache[i] # Clean
    /\ media' = [media EXCEPT ![i] = cache[i]]
    /\ cache' = [cache EXCEPT ![i] = Clean]
    /\ UNCHANGED <<pending, ctx, pc, cur, held, ensured>>

\* Power failure, then heap boot.
Crash ==
    /\ cache' = Reboot(media)
    /\ pending' = <<>>
    /\ ctx' = <<>>
    /\ pc' = "idle"
    /\ cur' = NoBlock
    /\ UNCHANGED <<media, held, ensured>>

Next ==
    \/ \E c \in Slots, t \in HeaderTypes, u \in BOOLEAN : StartAlloc(c, t, u)
    \/ \E c \in Slots, u \in BOOLEAN : StartFree(c, u)
    \/ \E c \in Slots : StartCoalesce(c)
    \/ PrepHdr
    \/ ProcessCtx
    \/ MemStep
    \/ Finish
    \/ \E i \in Slots : Evict(i)
    \/ Crash

Spec == Init /\ [][Next]_vars

-----------------------------------------------------------------------------
Header == [type : ChunkTypes, flags : SUBSET ChunkFlags, size_idx : 0..NChunks]
MemOp == [do : {"store", "persist", "set", "set_transient"}, slot : Slots, val : Header]

TypeOK ==
    /\ media \in [Slots -> Header]
    /\ cache \in [Slots -> Header \union {Clean}]
    /\ pending \in Seq(MemOp)
    /\ ctx \in Seq(MemOp)
    /\ pc \in {"idle", "ready", "commit", "finish"}
    /\ held \subseteq Slots
    /\ ensured \in [Slots -> {LEGACY, COMPACT, NONE}]

(* Whatever the moment of a crash, heap boot can walk the persistent chunk *)
(* headers from the first slot to the end of the zone: the footer that     *)
(* huge_prep_operation_hdr writes into what may still be another chunk's   *)
(* head never reaches the media before the new head does.                  *)
CrashLeavesWalkableHeap == Walkable(media)

(* Every allocation the application holds is, on the media, a USED chunk   *)
(* head reachable by the boot walk: once prep_hdr's operation has returned *)
(* no crash can lose the allocation.                                       *)
AllocationsDurable ==
    \A c \in held : c \in Heads(media) /\ media[c].type = USED

(* Between operations the runtime headers are walkable and every chunk of  *)
(* more than one unit ends in a FOOTER slot carrying its size_idx, as the  *)
(* runtime's backward walk needs, after allocations, frees, coalescing and *)
(* crashes alike.                                                          *)
RuntimeFootersConsistent ==
    pc = "idle" =>
        /\ Walkable(ViewAll)
        /\ \A h \in Heads(ViewAll) :
              View(h).size_idx > 1 =>
                  View(h + View(h).size_idx - 1) = ChunkHdrValue(FOOTER, {}, View(h).size_idx)

(* The header flavour memblock_header_type derives for an allocation is    *)
(* the flavour the allocator asked huge_ensure_header_type for.            *)
HeaderTypeAsEnsured ==
    \A c \in held : MemblockHeaderType(View(c)) = ensured[c]

(* The zone the persistent heads describe, walked as heap boot does.        *)
Abstract == INSTANCE HugeHeap WITH
    chunks <- [c \in Heads(media) |->
                  [size_idx |-> media[c].size_idx, used |-> media[c].type = USED]]

(* Every change the media sees -- a persisted head, an evicted store, a     *)
(* processed redo context, a crash -- is one whole allocation of a free     *)
(* chunk, free of a used chunk, or merge of two adjacent free chunks of     *)
(* HugeHeap, or none at all: the heap reached after any crash is one the    *)
(* atomic heap could be in.                                                 *)
HugeRefinesHeap == Abstract!Spec

=============================================================================
