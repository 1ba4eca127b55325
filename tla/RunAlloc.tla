------------------------------ MODULE RunAlloc ------------------------------
(***************************************************************************)
(* What a run promises its callers (spec sections 4.3 and 5): the set of   *)
(* allocated units changes only by allocating all units of a free block,   *)
(* or by freeing all units of an allocated block, in one step.             *)
(***************************************************************************)
EXTENDS Integers

CONSTANTS BITS_PER_VALUE, NWords, SizeIdxs

VARIABLE allocated   \* the units of the run that are allocated

NUnits == NWords * BITS_PER_VALUE

\* The unit sets of the blocks a caller may allocate or free: a block lies
\* inside one bitmap word.
BlockUnits ==
    {(p[1] .. p[1] + p[2] - 1) :
        p \in {q \in (0..NUnits - 1) \X SizeIdxs :
                 (q[1] % BITS_PER_VALUE) + q[2] <= BITS_PER_VALUE}}

Init == allocated = {}

Alloc(S) ==
    /\ S \cap allocated = {}
    /\ allocated' = allocated \union S

Free(S) ==
    /\ S \subseteq allocated
    /\ allocated' = allocated \ S

Next == \E S \in BlockUnits : Alloc(S) \/ Free(S)

Spec == Init /\ [][Next]_allocated

=============================================================================
