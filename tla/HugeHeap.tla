------------------------------ MODULE HugeHeap ------------------------------
(***************************************************************************)
(* What the persistent chunk headers of a zone promise (spec sections 4.2  *)
(* and 5): the zone is a partition into chunks, each free or used, and it  *)
(* changes only by allocating a free chunk, freeing a used one, or merging *)
(* a free chunk with the free chunk right after it -- one whole step at a  *)
(* time, whatever the moment of a crash.                                   *)
(***************************************************************************)
EXTENDS Integers, FiniteSets

CONSTANT NChunks

VARIABLE chunks   \* chunks[c]: size_idx and state of the chunk headed at c

Slots == 0..NChunks - 1

\* The next head after c in a set of heads H, or the end of the zone.
NextHead(H, c) ==
    LET after == {h \in H \union {NChunks} : h > c}
    IN  CHOOSE n \in after : \A k \in after : n <= k

\* Heap init: any split of the zone into free chunks.
Init ==
    \E H \in SUBSET Slots :
        /\ 0 \in H
        /\ chunks = [c \in H |-> [size_idx |-> NextHead(H, c) - c, used |-> FALSE]]

Alloc(c) ==
    /\ ~chunks[c].used
    /\ chunks' = [chunks EXCEPT ![c].used = TRUE]

Free(c) ==
    /\ chunks[c].used
    /\ chunks' = [chunks EXCEPT ![c].used = FALSE]

Merge(c) ==
    LET n == c + chunks[c].size_idx IN
    /\ n \in DOMAIN chunks
    /\ ~chunks[c].used /\ ~chunks[n].used
    /\ chunks' = [h \in DOMAIN chunks \ {n} |->
                     IF h = c
                     THEN [size_idx |-> chunks[c].size_idx + chunks[n].size_idx,
                           used |-> FALSE]
                     ELSE chunks[h]]

Next == \E c \in DOMAIN chunks : Alloc(c) \/ Free(c) \/ Merge(c)

Spec == Init /\ [][Next]_chunks
=============================================================================
