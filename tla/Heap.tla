-------------------------------- MODULE Heap --------------------------------
(***************************************************************************)
(* What kmalloc() and kfree_s() promise their callers: a request either    *)
(* fails or returns as many bytes of memory as asked for, which overlap    *)
(* nothing else that is in use; they stay the caller's until it frees      *)
(* them.  An extent is a pair <<first byte, last byte>>.                   *)
(***************************************************************************)
EXTENDS Integers

CONSTANTS
  Bytes,  \* the addresses of memory
  Lens    \* the lengths that are asked for

VARIABLE live  \* the extents handed out and not freed

Overlap(e, f) == e[1] <= f[2] /\ f[1] <= e[2]

HeapInit == live = {}

HeapAlloc ==
  \E len \in Lens : \E first, last \in Bytes :
    /\ last - first + 1 = len
    /\ \A e \in live : ~Overlap(e, <<first, last>>)
    /\ live' = live \cup {<<first, last>>}

HeapFree == \E e \in live : live' = live \ {e}

HeapSpec == HeapInit /\ [][HeapAlloc \/ HeapFree]_live
=============================================================================
