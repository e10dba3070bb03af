------------------------------- MODULE Words -------------------------------
(***************************************************************************)
(* Memory as the clients of the heap see it, in words of 4 bytes, with     *)
(* malloc and free of src/memory/malloc.cc on it, each as one step.  Heap  *)
(* has their steps and their proofs; there the headers are apart and       *)
(* callers stay inside their blocks.  Here a header is two words of the    *)
(* same memory, and a caller that writes past its block changes them.      *)
(*                                                                         *)
(* A pointer is the number of the word it points to.  malloc and free      *)
(* write only the byte of the status, the low one of its word              *)
(* (malloc.cc:48,79); here they write the word.  The other three bytes of  *)
(* a header are never read; of an address that a client put there instead  *)
(* the code keeps them, and it is no longer that address either way.       *)
(***************************************************************************)
EXTENDS Integers

CONSTANTS
    Base,       \* heap_begin
    Top,        \* the last word there is
    LowByte     \* pointers whose low byte is 0 are the multiples of it, 64 in the code

VARIABLES
    word,       \* what each word of memory holds
    last_alloc

ASSUME WordsAssumption == {Base, Top, LowByte} \subseteq Nat \ {0, 1} /\ Base <= Top

HDR == 2            \* alloc_t: a word with the status in its low byte, and the size
PAD == 1

Memory == 0 .. Top
\* Memory that nothing has written yet is 0.
ReadWord(mem, p) == IF p \in Memory THEN mem[p] ELSE 0
InUse(mem, a) == mem[a] % LowByte # 0
SizeAt(mem, a) == mem[a + 1]
NextHeader(mem, a) == a + SizeAt(mem, a) + HDR + PAD

\* Where malloc's walk ends that is at header a: a free block of n words, or
\* the end of the chain.
Walk(mem, last, n) ==
    LET from[a \in Nat] ==
            IF a >= last \/ SizeAt(mem, a) = 0 THEN last
            ELSE IF ~InUse(mem, a) /\ SizeAt(mem, a) >= n THEN a
            ELSE from[NextHeader(mem, a)]
    IN from[Base]

\* malloc(n): the block's header and its memset; the size of a block that is
\* used again stays.
Malloc(mem, last, n) ==
    LET a == Walk(mem, last, n) IN
    [ptr  |-> a + HDR,
     mem  |-> [w \in Memory |-> IF w \in a + HDR .. a + HDR + n - 1 THEN 0
                                ELSE IF w = a THEN 1
                                ELSE IF w = a + 1 /\ a = last THEN n
                                ELSE mem[w]],
     last |-> IF a = last THEN a + n + HDR + PAD ELSE last]

FreePtr(mem, ptr) == [mem EXCEPT ![ptr - HDR] = 0]

\* The headers lead from the heap's beginning to its end, each to the next.
Whole(mem, last) ==
    LET chain[a \in Nat] == a = last \/ (a < last /\ SizeAt(mem, a) > 0 /\ chain[NextHeader(mem, a)])
    IN chain[Base]
=============================================================================
