-------------------------------- MODULE Heap --------------------------------
(***************************************************************************)
(* The kernel heap of src/memory/malloc.cc: mm_init, malloc and free.      *)
(*                                                                         *)
(* The heap is a chain of blocks, each an alloc_t header, the bytes handed *)
(* out and PAD bytes.  malloc walks the chain from heap_begin, one header  *)
(* per iteration, takes the first free block that is large enough and      *)
(* appends a block at last_alloc when there is none.  One step of the      *)
(* model is one iteration of that walk.                                    *)
(*                                                                         *)
(* Data is abstracted: of the heap's bytes only the headers are kept       *)
(* (hdr), and what the callers write into their blocks is not.  Callers    *)
(* pass to free only what malloc returned to them, once.                   *)
(***************************************************************************)
EXTENDS Integers

CONSTANTS
    HeapBegin,      \* kernel_end + 0x1000
    HeapEnd,        \* pheap_begin: 0x400000 - MAX_PAGE_ALIGNED_ALLOCS * 4096
    AddrMax,        \* the last address of RAM: bound on how far the chain grows
    HDR,            \* sizeof(alloc_t)
    PAD,            \* the 4 bytes that separate two blocks
    DescSize,       \* MAX_PAGE_ALIGNED_ALLOCS, what mm_init itself allocates
    Sizes,          \* the sizes callers ask for
    Modulus         \* 2^32: memory_used is a uint32_t

ASSUME HeapAssumption ==
    /\ HeapBegin \in Nat /\ HeapBegin > 0
    /\ HeapEnd \in Nat
    /\ AddrMax \in Nat
    /\ HDR \in Nat /\ HDR > 0
    /\ PAD \in Nat
    /\ DescSize \in Nat /\ DescSize > 0
    /\ Sizes \subseteq Nat
    /\ Modulus \in Nat /\ Modulus > 0
    /\ HeapBegin + DescSize + HDR + PAD <= AddrMax

VARIABLES
    last_alloc,     \* where the chain ends and the next block would start
    hdr,            \* the alloc_t at each address: [status, size]
    memory_used,    \* the counter mm_print_out reports
    pheap_desc,     \* the block mm_init keeps for itself
    pc,             \* "boot" before mm_init, "walk" inside malloc, else "idle"
    mem,            \* malloc's cursor
    req,            \* malloc's parameter
    ret,            \* what the last call returned, 0 while there is no result
    oom,            \* history: "Out of memory." has been printed
    live            \* history: header -> bytes asked for, 0 once freed

heap == <<last_alloc, hdr, memory_used>>
vars == <<last_alloc, hdr, memory_used, pheap_desc, pc, mem, req, ret, oom, live>>

Addr == HeapBegin .. AddrMax
Empty == [status |-> 0, size |-> 0]

(***************************************************************************)
(* The chain.                                                              *)
(***************************************************************************)
Blocks == {a \in Addr : hdr[a].size > 0}
Free(a) == hdr[a].status = 0

\* Mutant: the walk forgets the padding.
NextHdr_NoPad(a) == a + hdr[a].size + HDR
\* The next header, from the one at a.
NextHdr(a) == a + hdr[a].size + HDR + PAD

\* Mutants: the status test, or the size test, is missing.
Fits_IgnoresStatus(a, n) == hdr[a].size >= n
Fits_AnySize(a, n) == Free(a)
\* The block at a will do for n bytes.
Fits(a, n) == Free(a) /\ hdr[a].size >= n

\* The walk is over at last_alloc, or at a header without a size.
AtEnd(a) == a >= last_alloc \/ hdr[a].size = 0

\* The test in front of the "Out of memory." message.
NoRoom(n) == last_alloc + n + HDR >= HeapEnd

(***************************************************************************)
(* Behaviour.                                                              *)
(***************************************************************************)
Init ==
    /\ last_alloc = 0
    /\ hdr = [a \in Addr |-> Empty]
    /\ memory_used = 0
    /\ pheap_desc = 0
    /\ pc = "boot"
    /\ mem = 0
    /\ req = 0
    /\ ret = 0
    /\ oom = FALSE
    /\ live = [a \in Addr |-> 0]

\* Mutant: the walk starts where the chain ends, and reuses nothing.
Enter_AtEnd(n) ==
    /\ pc' = "walk"
    /\ req' = n
    /\ mem' = IF pc = "boot" THEN HeapBegin ELSE last_alloc
    /\ ret' = 0
\* malloc's entry: the walk starts at heap_begin.
Enter(n) ==
    /\ pc' = "walk"
    /\ req' = n
    /\ mem' = HeapBegin
    /\ ret' = 0

\* malloc's exit; mm_init stores what its own call, the first, returns.
Return(a) ==
    /\ pc' = "idle"
    /\ ret' = a + HDR
    /\ pheap_desc' = IF pheap_desc = 0 THEN a + HDR ELSE pheap_desc
    /\ live' = [live EXCEPT ![a] = req]
    /\ mem' = 0
    /\ req' = 0

MmInit ==
    /\ pc = "boot"
    /\ last_alloc' = HeapBegin
    /\ hdr' = [a \in Addr |-> Empty]
    /\ Enter(DescSize)
    /\ UNCHANGED <<memory_used, pheap_desc, oom, live>>

\* AddrMax bounds the chain: callers stop asking when RAM itself is full.
MallocEnter(n) ==
    /\ pc = "idle"
    /\ n > 0
    /\ last_alloc + n + HDR + PAD <= AddrMax
    /\ Enter(n)
    /\ UNCHANGED <<heap, pheap_desc, oom, live>>

MallocZero ==
    /\ pc = "idle"
    /\ 0 \in Sizes
    /\ ret' = 0
    /\ UNCHANGED <<heap, pheap_desc, pc, mem, req, oom, live>>

\* Mutant: the branch for a block in use continues without moving on.
Skip_Stuck ==
    /\ pc = "walk"
    /\ ~AtEnd(mem)
    /\ ~Fits(mem, req)
    /\ mem' = IF Free(mem) THEN NextHdr(mem) ELSE mem
    /\ UNCHANGED <<heap, pheap_desc, pc, req, ret, oom, live>>
\* A block in use, or a free one that is too small.
Skip ==
    /\ pc = "walk"
    /\ ~AtEnd(mem)
    /\ ~Fits(mem, req)
    /\ mem' = NextHdr(mem)
    /\ UNCHANGED <<heap, pheap_desc, pc, req, ret, oom, live>>

\* The size in the header stays what it was when the block was appended.
Reuse ==
    /\ pc = "walk"
    /\ ~AtEnd(mem)
    /\ Fits(mem, req)
    /\ hdr' = [hdr EXCEPT ![mem].status = 1]
    /\ memory_used' = (memory_used + req + HDR) % Modulus
    /\ Return(mem)
    /\ UNCHANGED <<last_alloc, oom>>

\* nalloc: the message is printed, and the block is appended all the same.
Append ==
    /\ pc = "walk"
    /\ AtEnd(mem)
    /\ oom' = (oom \/ NoRoom(req))
    /\ hdr' = [hdr EXCEPT ![last_alloc] = [status |-> 1, size |-> req]]
    /\ last_alloc' = last_alloc + req + HDR + PAD
    /\ memory_used' = (memory_used + req + PAD + HDR) % Modulus
    /\ Return(last_alloc)

\* pheap_desc is never given back.
FreeBlock(a) ==
    /\ pc = "idle"
    /\ live[a] > 0
    /\ a + HDR # pheap_desc
    /\ memory_used' = (memory_used - (hdr[a].size + HDR)) % Modulus
    /\ hdr' = [hdr EXCEPT ![a].status = 0]
    /\ live' = [live EXCEPT ![a] = 0]
    /\ ret' = 0
    /\ UNCHANGED <<last_alloc, pheap_desc, pc, mem, req, oom>>

Next ==
    \/ MmInit
    \/ \E n \in Sizes : MallocEnter(n)
    \/ MallocZero
    \/ Skip
    \/ Reuse
    \/ Append
    \/ \E a \in Addr : FreeBlock(a)

\* The kernel starts its heap, and a call of malloc keeps running; nobody is
\* obliged to call malloc or free.
Spec == Init /\ [][Next]_vars /\ WF_vars(MmInit \/ Skip \/ Reuse \/ Append)

(***************************************************************************)
(* Types.                                                                  *)
(***************************************************************************)
TypeOK ==
    /\ last_alloc \in Addr \union {0}
    /\ hdr \in [Addr -> [status : {0, 1}, size : Nat]]
    /\ memory_used \in 0 .. Modulus - 1
    /\ pheap_desc \in Nat
    /\ pc \in {"boot", "walk", "idle"}
    /\ mem \in Nat
    /\ req \in Nat
    /\ ret \in Nat
    /\ oom \in BOOLEAN
    /\ live \in [Addr -> Nat]

(***************************************************************************)
(* The inductive invariant.                                                *)
(***************************************************************************)
\* The headers tile the heap from HeapBegin to last_alloc.
Chain ==
    /\ pc = "boot" => Blocks = {}
    /\ pc # "boot" => /\ last_alloc >= HeapBegin
                      /\ last_alloc = HeapBegin \/ HeapBegin \in Blocks
    /\ \A a \in Blocks :
          /\ NextHdr(a) <= last_alloc
          /\ NextHdr(a) = last_alloc \/ NextHdr(a) \in Blocks
    /\ \A a, b \in Blocks : a < b => NextHdr(a) <= b

\* malloc's cursor is on the chain, and no block behind it would do.
Walk ==
    pc = "walk" =>
        /\ req \in Sizes \union {DescSize} /\ req > 0
        /\ last_alloc + req + HDR + PAD <= AddrMax
        /\ mem = last_alloc \/ mem \in Blocks
        /\ \A b \in Blocks : b < mem => ~Fits(b, req)

\* The status bytes tell exactly which blocks the callers hold.
Held ==
    /\ pc = "idle" => last_alloc > HeapBegin
    /\ \A a \in Addr :
          /\ live[a] > 0 <=> hdr[a].status = 1
          /\ live[a] <= hdr[a].size

\* Every block appended without the message ends below HeapEnd.
Inside == ~oom => \A a \in Blocks : a + HDR + hdr[a].size < HeapEnd

IInv == TypeOK /\ Chain /\ Walk /\ Held /\ Inside

(***************************************************************************)
(* Safety.                                                                 *)
(***************************************************************************)
\* What malloc handed out and has not got back: no two of these byte ranges
\* share a byte, and none of them covers a byte of any block's header, so a
\* caller that stays inside its block, and malloc's own memset of it, can
\* neither change another caller's data nor break the chain
\* (malloc.cc:51-110).
NoOverlap ==
    \A a \in Blocks, b \in Blocks :
        live[a] > 0 /\ a # b =>
            \/ a + HDR + live[a] <= b
            \/ b + HDR + live[b] <= a

\* As long as "Out of memory." was not printed, everything malloc handed out
\* lies below heap_end, outside the page heap (malloc.cc:96).
QuietMeansInside ==
    ~oom => \A a \in Addr : live[a] > 0 => a + HDR + live[a] <= HeapEnd

\* malloc returns the lowest block that fits: it passes over no free block
\* that is large enough, and the heap grows only when there is none
\* (malloc.cc:57-93).
FirstFit ==
    [][pc = "walk" /\ pc' = "idle" =>
          \A b \in Blocks : Fits(b, req) => ret' <= b + HDR]_vars

(***************************************************************************)
(* Liveness.                                                               *)
(***************************************************************************)
\* Every call of malloc returns: the walk over the headers reaches a block
\* that fits or the end of the chain.
MallocReturns == pc = "walk" ~> pc = "idle"

(***************************************************************************)
(* The heap is an arena.                                                   *)
(***************************************************************************)
Regions == {[lo |-> a + HDR, len |-> live[a]] : a \in {b \in Addr : live[b] > 0}}

A == INSTANCE Arena WITH
        Space <- HeapBegin .. AddrMax + HDR,
        Lengths <- Sizes \union {DescSize},
        regions <- Regions

\* Seen from its callers the heap is an arena: malloc hands out intervals
\* that touch nothing in use, and free gives back exactly one.
ImplementsArena == A!Spec

(***************************************************************************)
(* What a message of malloc.cc says.                                       *)
(***************************************************************************)
\* malloc.cc:98 "Cannot allocate %d bytes! Out of memory.": the call that
\* prints it does not allocate.
CannotAllocate == [][~oom /\ oom' => ret' = 0]_vars
=============================================================================
