------------------------------- MODULE MCHeap -------------------------------
(***************************************************************************)
(* Heap with the real proportions of header, alignment and smallest split, *)
(* four bytes to one, and a request that 32 bits cannot round up.          *)
(***************************************************************************)
EXTENDS Heap

MCRequests == {0, 1, 7, Wrap - 1}

(* The fingerprint of a state is what a later step can read of it: the     *)
(* blocks, and what kfree looks at behind an old pointer.  Every step is   *)
(* still checked with all of the state.                                    *)
Memory == <<list, [b \in Blocks |-> hdr[b].size], heapFree, heapUsed, held,
            [b \in given |-> <<hdr[b].magic, hdr[b].free>>]>>
=============================================================================
