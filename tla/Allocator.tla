----------------------------- MODULE Allocator -----------------------------
(***************************************************************************)
(* What the kernel heap promises its callers: blocks that lie in the heap, *)
(* do not overlap and are as long as asked for, and a refusal only when no *)
(* gap between the live blocks could hold the request.  How free memory is *)
(* remembered is not said.                                                 *)
(***************************************************************************)
EXTENDS Naturals

CONSTANTS HeapSize, Align, Hdr,
          Slack,      \* how much longer than asked for a block may be
          Requests,   \* the sizes that callers ask for
          MaxRequest  \* the largest of them that can be rounded up

VARIABLES live,       \* the live blocks: where their header is, and their size
          asked,      \* the last size asked for
          got         \* the header of the block it got, or HeapSize for none

(* A size that cannot be rounded up in the width of the machine is served  *)
(* as if it were 0.                                                        *)
Served(n) == IF n <= MaxRequest THEN ((n + Align - 1) \div Align) * Align ELSE 0

Places == {a \in 0 .. HeapSize - 1 : a % Align = 0}
Apart(b, c) == b.at + Hdr + b.size <= c.at \/ c.at + Hdr + c.size <= b.at
Fits(b) == b.at + Hdr + b.size <= HeapSize /\ \A c \in live : Apart(b, c)

Init == live = {} /\ asked = 0 /\ got = HeapSize

Alloc(n) ==
  /\ asked' = n
  /\ \E a \in Places, size \in Served(n) .. Served(n) + Slack :
       /\ Fits([at |-> a, size |-> size])
       /\ live' = live \cup {[at |-> a, size |-> size]} /\ got' = a

Refuse(n) ==
  /\ asked' = n /\ got' = HeapSize /\ live' = live
  /\ \/ n = 0
     \/ \A a \in Places : ~Fits([at |-> a, size |-> Served(n)])

Release == \E b \in live : live' = live \ {b} /\ UNCHANGED <<asked, got>>

Next == Release \/ \E n \in Requests : Alloc(n) \/ Refuse(n)

Spec == Init /\ [][Next]_<<live, asked, got>>
=============================================================================
