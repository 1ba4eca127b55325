------------------------------ MODULE HeaderOps ------------------------------
(***************************************************************************)
(* The allocation-header flavours of src/src/libpmemobj/memblock.c         *)
(* (memblock_header_ops: legacy, compact, none) writing into the data of   *)
(* one run, through block_write_header, as the heap allocates, the         *)
(* application fills and the heap frees blocks.                            *)
(*                                                                         *)
(* Memory is NCells cells of 8 bytes starting on a cache line.  A header   *)
(* word packs size | flags << ALLOC_HDR_SIZE_SHIFT; the word is scaled to  *)
(* WORD_BITS bits with SIZE_SHIFT low bits of size.  An indeterminate      *)
(* value (uninitialised stack bytes copied by the write) is JUNK, and the  *)
(* application's data is USER; neither is a header word.                   *)
(***************************************************************************)
EXTENDS Integers, FiniteSets, Bitwise

CONSTANTS
    RunKinds,        \* header type and block_size (in cells) of a run
    NCells,          \* 8-byte cells of run data
    SizeIdxs,        \* size_idx of allocations
    Extras,          \* extra field values (type_num)
    FlagValues,      \* allocation flags
    WORD_BITS,       \* bits of a header word (64, scaled)
    SIZE_SHIFT       \* ALLOC_HDR_SIZE_SHIFT (48, scaled)

VARIABLES
    run,      \* the run: header flavour and block size, fixed at Init
    mem,      \* mem[i]: contents of cell i
    alloc     \* allocated blocks: offset, size_idx, extra, flags, used

vars == <<run, mem, alloc>>

CELL == 8
CACHELINE_SIZE == 64
LEGACY == "HEADER_LEGACY"
COMPACT == "HEADER_COMPACT"
NONE == "HEADER_NONE"
Cells == 0..NCells - 1
Flavour == run.flavour
UNIT_CELLS == run.unit
NUnits == NCells \div UNIT_CELLS
JUNK == -1
USER == -2
IsWord(x) == x \in 0..2^WORD_BITS - 1

ALLOC_HDR_FLAGS_MASK == 2^SIZE_SHIFT - 1
Shl(x) == (x * 2^SIZE_SHIFT) % 2^WORD_BITS
Shr(x) == x \div 2^SIZE_SHIFT
U16(x) == x % 2^(WORD_BITS - SIZE_SHIFT)   \* (uint16_t), at scale

(* bytes of each header: header_type_to_size                               *)
HdrBytes == CASE Flavour = LEGACY -> 64 [] Flavour = COMPACT -> 16 [] Flavour = NONE -> 0

(* cells of struct allocation_header_legacy: size first, a 40-byte         *)
(* reserved region, then root_size and type_num                            *)
L_SIZE == 0
L_UNUSED == 1..5
L_ROOT_SIZE == 6
L_TYPE_NUM == 7
(* cells of struct allocation_header_compact                               *)
C_SIZE == 0
C_EXTRA == 1

(* run_get_real_data / block_get_real_size, in cells and bytes             *)
RealData(b) == b.off * UNIT_CELLS
RealSize(b) == b.sidx * UNIT_CELLS * CELL

-----------------------------------------------------------------------------
(* get_size, get_extra, get_flags of the three flavours                    *)
GetSize(b) ==
    CASE Flavour = LEGACY -> mem[RealData(b) + L_SIZE]
      [] Flavour = COMPACT -> mem[RealData(b) + C_SIZE] % (ALLOC_HDR_FLAGS_MASK + 1)
      [] Flavour = NONE -> UNIT_CELLS * CELL

GetExtra(b) ==
    CASE Flavour = LEGACY -> mem[RealData(b) + L_TYPE_NUM]
      [] Flavour = COMPACT -> mem[RealData(b) + C_EXTRA]
      [] Flavour = NONE -> 0

(* Mutant: the compact flags read without the shift's full width.          *)
CompactFlagsShortShift(w) == U16(w \div 2^(SIZE_SHIFT - 1))

(* memblock_header_compact_get_flags on the header word                    *)
CompactGetFlags(w) == U16(Shr(w))

GetFlags(b) ==
    CASE Flavour = LEGACY -> U16(Shr(mem[RealData(b) + L_ROOT_SIZE]))
      [] Flavour = COMPACT -> CompactGetFlags(mem[RealData(b) + C_SIZE])
      [] Flavour = NONE -> 0

-----------------------------------------------------------------------------
(* The cells a write sets, as a function from cell to value.  `pad` is the *)
(* indeterminate content of the uninitialised parts of the local header    *)
(* image (legacy unused[], compact padding[]).                             *)

(* memblock_header_legacy_write                                            *)
LegacyWrite(b, size, extra, flags, pad) ==
    LET a == RealData(b) IN
    [i \in {a + L_SIZE, a + L_ROOT_SIZE, a + L_TYPE_NUM} \cup {a + k : k \in L_UNUSED} |->
        CASE i = a + L_SIZE -> size
          [] i = a + L_ROOT_SIZE -> Shl(flags)
          [] i = a + L_TYPE_NUM -> extra
          [] OTHER -> pad]

(* Mutant: the header widened whenever it is cache-line aligned.           *)
WidenWhenAligned(a, size) ==
    IF (a * CELL) % CACHELINE_SIZE = 0 THEN CACHELINE_SIZE ELSE 16

(* hdr_size of memblock_header_compact_write: a whole cache line when the  *)
(* header is cache-line aligned and size >= sizeof(padded).                *)
CompactHdrSize(a, size) ==
    IF (a * CELL) % CACHELINE_SIZE = 0 /\ size >= CACHELINE_SIZE
    THEN CACHELINE_SIZE ELSE 16

(* memblock_header_compact_write                                           *)
CompactWrite(b, size, extra, flags, pad) ==
    LET a == RealData(b) IN
    [i \in a..a + CompactHdrSize(a, size) \div CELL - 1 |->
        CASE i = a + C_SIZE -> size | Shl(flags)
          [] i = a + C_EXTRA -> extra
          [] OTHER -> pad]

(* block_write_header: the flavour's write with block_get_real_size        *)
BlockWriteHeader(b, pad) ==
    LET W == CASE Flavour = LEGACY -> LegacyWrite(b, RealSize(b), b.extra, b.flags, pad)
               [] Flavour = COMPACT -> CompactWrite(b, RealSize(b), b.extra, b.flags, pad)
               [] Flavour = NONE -> <<>>
    IN [i \in Cells |-> IF i \in DOMAIN W THEN W[i] ELSE mem[i]]

(* block_get_user_data and block_get_user_size, in bytes from the start  *)
(* of the run data: past the header, up to the end of the real size.       *)
BlockGetUserData(b) == RealData(b) * CELL + HdrBytes
BlockGetUserSize(b) == RealSize(b) - HdrBytes

Units(b) == b.off..b.off + b.sidx - 1
UserCells(b) ==
    {i \in Cells : i * CELL >= BlockGetUserData(b)
                  /\ i * CELL < BlockGetUserData(b) + BlockGetUserSize(b)}

Init ==
    /\ run \in RunKinds
    /\ mem = [i \in Cells |-> JUNK]
    /\ alloc = {}

(* The heap reserves free units of the run and writes the header           *)
(* (alloc_prep_block -> write_header) before publishing the block.        *)
Alloc(off, sidx, extra, flags) ==
    LET b == [off |-> off, sidx |-> sidx, extra |-> extra, flags |-> flags, used |-> FALSE]
    IN /\ off + sidx <= NUnits
       /\ \A c \in alloc : Units(c) \cap Units(b) = {}
       /\ \E pad \in {0, JUNK} : mem' = BlockWriteHeader(b, pad)
       /\ alloc' = alloc \cup {b}
       /\ UNCHANGED run

(* The application writes the user data of its block.                      *)
UserWrite(b) ==
    /\ ~b.used
    /\ mem' = [i \in Cells |-> IF i \in UserCells(b) THEN USER ELSE mem[i]]
    /\ alloc' = (alloc \ {b}) \cup {[b EXCEPT !.used = TRUE]}
    /\ UNCHANGED run

(* The heap frees the block; block_invalidate changes no byte (it only     *)
(* annotates for valgrind).                                                *)
Free(b) ==
    /\ alloc' = alloc \ {b}
    /\ UNCHANGED <<run, mem>>

Next ==
    \/ \E off \in 0..NUnits - 1, sidx \in SizeIdxs, e \in Extras, f \in FlagValues :
           Alloc(off, sidx, e, f)
    \/ \E b \in alloc : UserWrite(b) \/ Free(b)

Spec == Init /\ [][Next]_vars

-----------------------------------------------------------------------------
(* Every allocated block's header reads back, through get_size, get_extra  *)
(* and get_flags of its flavour, what block_write_header stored for it     *)
(* (the none flavour reports one unit and no extra or flags), whatever     *)
(* other blocks were written, widened, filled or freed since.              *)
HeadersReadBack ==
    \A b \in alloc :
        Flavour # NONE =>
            LET a == RealData(b) IN
            /\ \A k \in IF Flavour = LEGACY THEN {L_SIZE, L_ROOT_SIZE, L_TYPE_NUM}
                                            ELSE {C_SIZE, C_EXTRA} : IsWord(mem[a + k])
            /\ GetSize(b) = RealSize(b)
            /\ GetExtra(b) = b.extra
            /\ GetFlags(b) = b.flags

(* No header write (legacy, compact, or compact widened to a cache line)   *)
(* reaches into the user data another block's owner has written.           *)
UserDataIntact ==
    \A b \in alloc : b.used => \A i \in UserCells(b) : mem[i] = USER

(* Spec scenario 6: a widened compact write fills bytes 16..63 of the      *)
(* allocation with zeroed padding.                                         *)
CompactPaddingZeroed ==
    \A b \in alloc :
        Flavour = COMPACT /\ ~b.used /\ CompactHdrSize(RealData(b), RealSize(b)) = CACHELINE_SIZE =>
            \A i \in RealData(b) + 2..RealData(b) + 7 : mem[i] = 0
=============================================================================
