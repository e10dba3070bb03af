------------------------------- MODULE MCHeap -------------------------------
(* A scaled heap: headers of 2 addresses, 1 of padding, a few blocks, and   *)
(* RAM that goes on behind the heap's end.                                  *)
EXTENDS Heap

MCSizes == {0, 1, 2, 4}
=============================================================================
