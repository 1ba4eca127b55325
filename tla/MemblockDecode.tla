--------------------------- MODULE MemblockDecode ---------------------------
(***************************************************************************)
(* Resolving an offset into a memory block, and back, in                   *)
(* src/src/libpmemobj/memblock.c: memblock_from_offset_opt,                *)
(* memblock_rebuild_state, memblock_detect_type, memblock_header_type, the *)
(* data addressing of huge and run blocks (run_get_data_start with its     *)
(* alignment padding), block_get_user_data, block_get_real_size and the    *)
(* header flavours' get_size.                                              *)
(*                                                                         *)
(* One zone of NChunks chunks.  Sizes are scaled (CHUNKSIZE, RUN_METASIZE, *)
(* header sizes) and addresses are offsets from a heap base aligned more   *)
(* than any run alignment, taken modulo ADDR_MOD as uintptr_t arithmetic.  *)
(* The layouts are every split of the zone into used huge chunks and runs  *)
(* of every header flavour, aligned or not, with allocations of the run    *)
(* sizes in AllocSizes whose headers block_write_header wrote.             *)
(***************************************************************************)
EXTENDS Integers, FiniteSets, Sequences, TLC

CONSTANTS
    NChunks,                 \* chunks of the zone
    CHUNKSIZE,               \* bytes of a chunk
    RUN_METASIZE,            \* bytes of run metadata before run->data
    ZONE_HDR_SIZE,           \* sizeof(struct zone) before the first chunk
    ZONE0_OFF,               \* HEAP_PTR_TO_OFF(heap, &heap->layout->zone0)
    ALLOC_HDR_LEGACY_SIZE,   \* sizeof(struct allocation_header_legacy)
    ALLOC_HDR_COMPACT_SIZE,  \* sizeof(struct allocation_header_compact)
    ADDR_MOD,                \* 2^(bits of uintptr_t), scaled
    UnitSizes,               \* run->block_size values
    Alignments,              \* run->alignment of ALIGNED runs
    AllocSizes,              \* size_idx of run allocations
    RunDataFlagsCopied       \* does a RUN_DATA header carry its RUN's flags?

VARIABLES
    layout,   \* chunk headers, run metadata and allocation headers
    desc,     \* the descriptor the last resolution returned
    target    \* the allocation that resolution was about

vars == <<layout, desc, target>>

Chunks == 0..NChunks - 1
ZONE_MAX_SIZE == ZONE_HDR_SIZE + NChunks * CHUNKSIZE

FOOTER == "CHUNK_TYPE_FOOTER"
USED == "CHUNK_TYPE_USED"
RUN == "CHUNK_TYPE_RUN"
RUN_DATA == "CHUNK_TYPE_RUN_DATA"
UNKNOWN == "CHUNK_TYPE_UNKNOWN"
LEGACY == "HEADER_LEGACY"
COMPACT == "HEADER_COMPACT"
NONE == "HEADER_NONE"
Flavours == {LEGACY, COMPACT, NONE}
HUGE == "MEMORY_BLOCK_HUGE"
RUNB == "MEMORY_BLOCK_RUN"
F_COMPACT == "CHUNK_FLAG_COMPACT_HEADER"
F_NONE == "CHUNK_FLAG_HEADER_NONE"
F_ALIGNED == "CHUNK_FLAG_ALIGNED"
AllFlags == {F_COMPACT, F_NONE, F_ALIGNED}

\* uintptr_t arithmetic
Sub(a, b) == (a - b) % ADDR_MOD

\* ALIGN_UP(size, align): ((size + align - 1) & ~(align - 1))
AlignUp(x, a) == IF a = 0 THEN 0 ELSE ((x + a - 1) \div a) * a

\* CALC_SIZE_IDX(unit_size, size)
CalcSizeIdx(u, s) == IF s = 0 THEN 0 ELSE ((s - 1) \div u) + 1

-----------------------------------------------------------------------------
(* header_type_to_size[] and header_type_to_flag[]                         *)
HeaderTypeToSize(t) ==
    CASE t = LEGACY -> ALLOC_HDR_LEGACY_SIZE
      [] t = COMPACT -> ALLOC_HDR_COMPACT_SIZE
      [] t = NONE -> 0

HeaderTypeToFlag(t) ==
    CASE t = LEGACY -> {}
      [] t = COMPACT -> {F_COMPACT}
      [] t = NONE -> {F_NONE}

(* memblock_header_type                                                    *)
MemblockHeaderType(hdr) ==
    IF F_COMPACT \in hdr.flags THEN COMPACT
    ELSE IF F_NONE \in hdr.flags THEN NONE
    ELSE LEGACY

(* Mutant: CHUNK_TYPE_USED missing from the switch.                        *)
DetectTypeNoUsed(L, c) ==
    CASE L.hdr[c].type \in {RUN, RUN_DATA} -> RUNB
      [] L.hdr[c].type \in {"CHUNK_TYPE_FREE", FOOTER} -> HUGE
      [] OTHER -> "FATAL"

(* memblock_detect_type; any other chunk type is FATAL                     *)
MemblockDetectType(L, c) ==
    CASE L.hdr[c].type \in {RUN, RUN_DATA} -> RUNB
      [] L.hdr[c].type \in {"CHUNK_TYPE_FREE", USED, FOOTER} -> HUGE
      [] OTHER -> "FATAL"

(* heap_get_chunk(...)->data: start of chunk c of zone 0                   *)
ChunkData(c) == ZONE0_OFF + ZONE_HDR_SIZE + c * CHUNKSIZE

(* huge_block_size / run_block_size                                        *)
BlockSize(L, m) == IF m.type = HUGE THEN CHUNKSIZE ELSE L.run[m.chunk_id].block_size

(* Mutant: run->data itself aligned, the header size not taken into account *)
DataStartAlignsRaw(hdr, c, run, htype) ==
    LET data == ChunkData(c) + RUN_METASIZE IN
    IF F_ALIGNED \in hdr.flags THEN AlignUp(data, run.alignment) ELSE data

(* run_get_data_start: run->data, moved up so that the user data after a   *)
(* header of flavour htype is aligned when the chunk is ALIGNED.           *)
RunGetDataStart(hdr, c, run, htype) ==
    LET data == ChunkData(c) + RUN_METASIZE IN
    IF F_ALIGNED \in hdr.flags
    THEN Sub(AlignUp(data + HeaderTypeToSize(htype), run.alignment),
             HeaderTypeToSize(htype))
    ELSE data

(* Mutant: padding computed without the header size.                       *)
PaddingWithoutHeader(hdr, c, run, htype) ==
    LET data == ChunkData(c) + RUN_METASIZE IN
    IF F_ALIGNED \in hdr.flags THEN Sub(AlignUp(data, run.alignment), data) ELSE 0

(* run_get_alignment_padding                                               *)
RunGetAlignmentPadding(hdr, c, run, htype) ==
    Sub(RunGetDataStart(hdr, c, run, htype), ChunkData(c) + RUN_METASIZE)

(* huge_get_real_data / run_get_real_data                                  *)
GetRealData(L, m) ==
    IF m.type = HUGE
    THEN ChunkData(m.chunk_id)
    ELSE RunGetDataStart(L.hdr[m.chunk_id], m.chunk_id, L.run[m.chunk_id],
                         m.header_type)
         + L.run[m.chunk_id].block_size * m.block_off

(* block_get_user_data                                                     *)
BlockGetUserData(L, m) == GetRealData(L, m) + HeaderTypeToSize(m.header_type)

(* memblock_header_{legacy,compact,none}_get_size: the size field of the   *)
(* header at get_real_data (compact: masked), or one unit without header.  *)
HeaderGetSize(L, m) ==
    LET a == GetRealData(L, m) IN
    CASE m.header_type = NONE -> BlockSize(L, m)
      [] a \in DOMAIN L.size -> L.size[a]
      [] OTHER -> 0

(* block_get_real_size                                                     *)
BlockGetRealSize(L, m) ==
    IF m.size_idx # 0 THEN BlockSize(L, m) * m.size_idx
    ELSE HeaderGetSize(L, m)

-----------------------------------------------------------------------------
(* memblock_from_offset_opt.  `hdr` is the header of the chunk the offset  *)
(* falls in; chunk_id is moved back to the RUN for RUN_DATA, and           *)
(* header_type, block_size and the run metadata are those of the RUN, but  *)
(* the padding is computed from `hdr`.  The result also carries what the   *)
(* two ASSERTs test (the detected type and the residual offset).           *)
MemblockFromOffsetOpt(L, off0, size) ==
    LET o1 == Sub(off0, ZONE0_OFF)
        zone_id == o1 \div ZONE_MAX_SIZE
        o2 == Sub(o1, ZONE_MAX_SIZE * zone_id + ZONE_HDR_SIZE)
        c0 == o2 \div CHUNKSIZE
        hdr == L.hdr[c0]
        chunk_id == IF hdr.type = RUN_DATA THEN c0 - hdr.size_idx ELSE c0
        o3 == Sub(o2, CHUNKSIZE * chunk_id)
        header_type == MemblockHeaderType(L.hdr[chunk_id])
        o4 == Sub(o3, HeaderTypeToSize(header_type))
        type == IF o4 # 0 THEN RUNB ELSE HUGE
        m == [zone_id |-> zone_id, chunk_id |-> chunk_id, block_off |-> 0,
              size_idx |-> 0, header_type |-> header_type, type |-> type]
        unit_size == BlockSize(L, m)
        o5 == IF o4 # 0
              THEN Sub(Sub(o4, RunGetAlignmentPadding(hdr, chunk_id,
                                   L.run[chunk_id], header_type)), RUN_METASIZE)
              ELSE o4
        block_off == IF o4 # 0 THEN (o5 \div unit_size) % 65536 ELSE 0
        mb == [m EXCEPT !.block_off = block_off]
    IN [mb EXCEPT
          !.size_idx = IF size THEN CalcSizeIdx(unit_size, HeaderGetSize(L, mb))
                       ELSE 0]
       @@ [detected |-> MemblockDetectType(L, chunk_id),
           residual |-> Sub(o5, block_off * unit_size)]

(* memblock_rebuild_state on a descriptor built by hand                    *)
MemblockRebuildState(L, m) ==
    [m EXCEPT !.header_type = MemblockHeaderType(L.hdr[m.chunk_id]),
              !.type = MemblockDetectType(L, m.chunk_id)]

-----------------------------------------------------------------------------
(* The layouts.  A segment is a used huge chunk or a run, with the flavour *)
(* its blocks were written with; a run also has its block size, alignment  *)
(* (0: not ALIGNED), the size_idx of its allocations, and the flags its    *)
(* RUN_DATA headers carry.                                                 *)
RunFlags(s) == HeaderTypeToFlag(s.flav) \cup (IF s.align > 0 THEN {F_ALIGNED} ELSE {})

(* The heap code that writes RUN_DATA headers is not in this repository.   *)
(* Only their ALIGNED bit is ever read; either they copy the RUN's flags,  *)
(* or (RunDataFlagsCopied = FALSE) they may also lack ALIGNED.             *)
RunDataFlagChoices(s) ==
    IF RunDataFlagsCopied THEN {RunFlags(s)}
    ELSE {RunFlags(s), RunFlags(s) \ {F_ALIGNED}}

(* units of a run: what fits after the metadata and the padding            *)
RunUnits(s) ==
    LET pad == IF s.align > 0
               THEN AlignUp(ChunkData(s.start) + RUN_METASIZE + HeaderTypeToSize(s.flav),
                            s.align)
                    - HeaderTypeToSize(s.flav) - ChunkData(s.start) - RUN_METASIZE
               ELSE 0
    IN (s.len * CHUNKSIZE - RUN_METASIZE - pad) \div s.unit

\* The heap builds an ALIGNED run only for an allocation class whose unit
\* size is a multiple of its alignment (run_get_real_data aligns only the
\* first block; the others are block_size apart), and a run for a class
\* holds at least one allocation of that class.  What a huge chunk holds
\* where a run keeps block_size is application data; unit 1 stands for it.
SegChoices(i) ==
    LET huge == [start: {i}, len: 1..NChunks - i, kind: {"huge"}, flav: Flavours,
                 unit: {1}, align: {0}, asz: {0}, rdflags: {{}}]
        runs == UNION {{[start |-> i, len |-> n, kind |-> "run", flav |-> f,
                         unit |-> u, align |-> a, asz |-> z, rdflags |-> r] :
                        r \in RunDataFlagChoices([flav |-> f, align |-> a])} :
                       n \in 1..NChunks - i, f \in Flavours, u \in UnitSizes,
                       a \in {0} \cup Alignments, z \in AllocSizes}
    IN  huge \cup {s \in runs : (s.align = 0 \/ s.unit % s.align = 0)
                                /\ RunUnits(s) >= s.asz}

RECURSIVE SegsFrom(_)
SegsFrom(i) ==
    IF i >= NChunks THEN {<<>>}
    ELSE UNION {{<<s>> \o rest : rest \in SegsFrom(i + s.len)} : s \in SegChoices(i)}

SegOf(segs, c) ==
    CHOOSE s \in {segs[k] : k \in DOMAIN segs} : s.start <= c /\ c < s.start + s.len

(* The chunk header of slot c: heads, RUN_DATA back-pointers, and the      *)
(* footer the heap keeps in the last slot of a multi-chunk huge chunk.     *)
SlotHdr(s, c) ==
    CASE c = s.start /\ s.kind = "huge" ->
             [type |-> USED, flags |-> HeaderTypeToFlag(s.flav), size_idx |-> s.len]
      [] c = s.start ->
             [type |-> RUN, flags |-> RunFlags(s), size_idx |-> s.len]
      [] s.kind = "run" ->
             [type |-> RUN_DATA, flags |-> s.rdflags, size_idx |-> c - s.start]
      [] c = s.start + s.len - 1 ->
             [type |-> FOOTER, flags |-> {}, size_idx |-> s.len]
      [] OTHER -> [type |-> UNKNOWN, flags |-> {}, size_idx |-> 0]

(* The allocations of a segment, as the descriptors the heap built.        *)
SegBlocks(s) ==
    IF s.kind = "huge"
    THEN {[zone_id |-> 0, chunk_id |-> s.start, block_off |-> 0, size_idx |-> s.len,
           header_type |-> s.flav, type |-> HUGE]}
    ELSE {[zone_id |-> 0, chunk_id |-> s.start, block_off |-> k * s.asz,
           size_idx |-> s.asz, header_type |-> s.flav, type |-> RUNB] :
          k \in 0..((RunUnits(s) \div s.asz) - 1)}

Blocks(segs) == UNION {SegBlocks(segs[k]) : k \in DOMAIN segs}

(* A layout: chunk headers, run metadata, and the size field of every      *)
(* allocation header block_write_header wrote (block_get_real_size).       *)
MkLayout(segs) ==
    LET L0 == [hdr |-> [c \in Chunks |-> SlotHdr(SegOf(segs, c), c)],
               run |-> [c \in Chunks |-> [block_size |-> SegOf(segs, c).unit,
                                          alignment |-> SegOf(segs, c).align]],
               size |-> <<>>]
        W == {m \in Blocks(segs) : m.header_type # NONE}
    IN [L0 EXCEPT !.size = [a \in {GetRealData(L0, m) : m \in W} |->
                               BlockGetRealSize(L0, CHOOSE m \in W : GetRealData(L0, m) = a)]]

Layouts == {<<MkLayout(segs), Blocks(segs)>> : segs \in SegsFrom(0)}

-----------------------------------------------------------------------------
VARIABLE blocks   \* the allocations of the layout (fixed after Init)

(* MEMORY_BLOCK_NONE, before any resolution                                *)
NoBlock == [zone_id |-> 0, chunk_id |-> 0, block_off |-> 0, size_idx |-> 0,
            header_type |-> LEGACY, type |-> HUGE]

Init ==
    /\ \E segs \in SegsFrom(0) : /\ layout = MkLayout(segs)
                                 /\ blocks = Blocks(segs)
    /\ desc = NoBlock @@ [detected |-> "none", residual |-> 0, via |-> "none"]
    /\ target = NoBlock

(* memblock_from_offset (size = 1) and memblock_from_offset_opt with       *)
(* size = 0, on the user data pointer of an allocation.                    *)
FromOffset(m, size) ==
    /\ desc' = MemblockFromOffsetOpt(layout, BlockGetUserData(layout, m), size)
               @@ [via |-> IF size THEN "from_offset" ELSE "from_offset_opt"]
    /\ target' = m
    /\ UNCHANGED <<layout, blocks>>

(* memblock_rebuild_state on a descriptor whose position fields were set   *)
(* by hand and whose header_type and type are whatever they were.          *)
RebuildState(m) ==
    /\ \E ht \in Flavours, ty \in {HUGE, RUNB} :
         desc' = MemblockRebuildState(layout, [m EXCEPT !.header_type = ht, !.type = ty])
                 @@ [detected |-> "none", residual |-> 0, via |-> "rebuild"]
    /\ target' = m
    /\ UNCHANGED <<layout, blocks>>

Next ==
    \E m \in blocks :
        \/ FromOffset(m, TRUE)
        \/ FromOffset(m, FALSE)
        \/ RebuildState(m)

Spec == Init /\ [][Next]_<<vars, blocks>>

-----------------------------------------------------------------------------
Descriptor == [zone_id: Nat, chunk_id: Nat, block_off: Nat, size_idx: Nat,
               header_type: Flavours, type: {HUGE, RUNB}]

(* Type invariant: resolutions return descriptors, and memblock_detect_type *)
(* never reaches its FATAL branch on the chunk a resolution lands on.       *)
TypeOK ==
    /\ target \in Descriptor
    /\ [f \in DOMAIN target |-> desc[f]] \in Descriptor
    /\ desc.detected \in {HUGE, RUNB, "none"}

(* Round trip (spec section 8): memblock_from_offset_opt applied to        *)
(* block_get_user_data(m) gives back m's zone, chunk, block offset, header  *)
(* type and block type, for huge blocks, runs, aligned runs and blocks in   *)
(* the RUN_DATA chunks of a run, and both ASSERTs of the function hold.     *)
FromOffsetRoundTrip ==
    desc.via \in {"from_offset", "from_offset_opt"} =>
        /\ desc.zone_id = target.zone_id
        /\ desc.chunk_id = target.chunk_id
        /\ desc.block_off = target.block_off
        /\ desc.header_type = target.header_type
        /\ desc.type = target.type
        /\ desc.detected = desc.type
        /\ desc.residual = 0

(* In an ALIGNED run, the user data of every allocation (after its header  *)
(* of the run's flavour) is aligned to run->alignment, and lies inside the *)
(* run's chunks.                                                            *)
UserDataAligned ==
    \A m \in blocks :
        m.type = RUNB /\ F_ALIGNED \in layout.hdr[m.chunk_id].flags =>
            /\ BlockGetUserData(layout, m) % layout.run[m.chunk_id].alignment = 0
            /\ GetRealData(layout, m) + BlockGetRealSize(layout, m)
                   <= ChunkData(m.chunk_id + layout.hdr[m.chunk_id].size_idx)
=============================================================================
