----------------------------- MODULE HeapProofs -----------------------------
(***************************************************************************)
(* Proofs about Heap, for every heap position and size, every header and   *)
(* padding size and every set of requests.                                 *)
(***************************************************************************)
EXTENDS Heap, TLAPS

USE HeapAssumption

\* memory_used is a uint32_t: it wraps, in both directions.
LEMMA ModRange == \A x \in Int : x % Modulus \in 0 .. Modulus - 1
  OBVIOUS

\* The sizes in the headers are numbers, and so are the ends of the blocks.
LEMMA BlockFacts ==
  ASSUME TypeOK, NEW a \in Blocks
  PROVE  /\ a \in Addr /\ a \in Nat /\ a >= HeapBegin
         /\ hdr[a].size \in Nat /\ hdr[a].size > 0
         /\ NextHdr(a) \in Nat /\ a < NextHdr(a)
<1>1. a \in Addr /\ hdr[a] \in [status : {0, 1}, size : Nat]
  BY DEF Blocks, TypeOK
<1>2. a \in Nat /\ hdr[a].size \in Nat /\ hdr[a].size > 0
  BY <1>1 DEF Blocks, Addr
<1> QED
  BY <1>1, <1>2 DEF NextHdr, Addr

\* Appending at last_alloc or setting a status byte keeps hdr a table of
\* headers, so every step keeps the types of the variables.
LEMMA TypeInit == Init => TypeOK
<1> SUFFICES ASSUME Init PROVE TypeOK
  OBVIOUS
<1>1. hdr \in [Addr -> [status : {0, 1}, size : Nat]]
  BY DEF Init, Empty
<1>2. memory_used \in 0 .. Modulus - 1
  BY DEF Init
<1> QED
  BY <1>1, <1>2 DEF Init, TypeOK

LEMMA TypeNext == IInv /\ [Next]_vars => TypeOK'
<1> SUFFICES ASSUME IInv, [Next]_vars PROVE TypeOK'
  OBVIOUS
<1> USE DEF IInv, TypeOK, Addr, Empty
<1>1. CASE MmInit
  BY <1>1 DEF MmInit, Enter
<1>2. ASSUME NEW n \in Sizes, MallocEnter(n) PROVE TypeOK'
  BY <1>2 DEF MallocEnter, Enter, heap
<1>3. CASE MallocZero
  BY <1>3 DEF MallocZero, heap
<1>4. CASE Skip
  BY <1>4, SMTT(30) DEF Skip, heap, AtEnd, Walk, Blocks, NextHdr
<1>5. CASE Reuse
  <2>1. mem \in Addr
    <3>1. pc = "walk" /\ mem # last_alloc
      BY <1>5 DEF Reuse, AtEnd
    <3>2. mem \in Blocks
      BY <3>1 DEF Walk
    <3> QED
      BY <3>2 DEF Blocks
  <2>2. hdr' \in [Addr -> [status : {0, 1}, size : Nat]]
    BY <1>5, <2>1 DEF Reuse
  <2>3. memory_used' \in 0 .. Modulus - 1
    <3>1. memory_used + req + HDR \in Int
      OBVIOUS
    <3> QED
      BY <1>5, <3>1, ModRange DEF Reuse
  <2>4. /\ ret' \in Nat /\ pheap_desc' \in Nat
        /\ live' \in [Addr -> Nat]
        /\ pc' = "idle" /\ mem' = 0 /\ req' = 0
    <3>1. Return(mem)
      BY <1>5 DEF Reuse
    <3> QED
      BY <2>1, <3>1 DEF Return
  <2>5. last_alloc' = last_alloc /\ oom' = oom
    BY <1>5 DEF Reuse
  <2> QED
    BY <2>2, <2>3, <2>4, <2>5
<1>6. CASE Append
  <2>1. last_alloc \in Addr /\ last_alloc' \in Addr
    BY <1>6 DEF Append, Chain, Walk
  <2>2. memory_used' \in 0 .. Modulus - 1
    <3>1. memory_used + req + PAD + HDR \in Int
      OBVIOUS
    <3> QED
      BY <1>6, <3>1, ModRange DEF Append
  <2> QED
    BY <1>6, <2>1, <2>2 DEF Append, Return
<1>7. ASSUME NEW a \in Addr, FreeBlock(a) PROVE TypeOK'
  <2>1. memory_used' \in 0 .. Modulus - 1
    <3>1. memory_used - (hdr[a].size + HDR) \in Int
      OBVIOUS
    <3> QED
      BY <1>7, <3>1, ModRange DEF FreeBlock
  <2> QED
    BY <1>7, <2>1 DEF FreeBlock
<1>8. CASE UNCHANGED vars
  BY <1>8 DEF vars
<1> QED
  BY <1>1, <1>2, <1>3, <1>4, <1>5, <1>6, <1>7, <1>8 DEF Next

\* A walk over a chain in address order meets every block: what lies before
\* the header after mem is what lay before mem, and mem itself.
LEMMA NothingBetween ==
  ASSUME TypeOK, Chain, NEW m \in Blocks, NEW b \in Blocks, b < NextHdr(m)
  PROVE  b < m \/ b = m
  BY BlockFacts DEF Chain

LEMMA IndInit == Init => IInv
<1> SUFFICES ASSUME Init PROVE IInv
  OBVIOUS
<1>1. TypeOK
  BY TypeInit
<1>2. Blocks = {}
  BY DEF Init, Blocks, Empty
<1> QED
  BY <1>1, <1>2 DEF Init, IInv, Chain, Walk, Held, Inside, Empty

LEMMA IndNext == IInv /\ [Next]_vars => IInv'
<1> SUFFICES ASSUME IInv, [Next]_vars PROVE IInv'
  OBVIOUS
<1>t. TypeOK'
  BY TypeNext
<1>u. TypeOK /\ Chain /\ Walk /\ Held /\ Inside
  BY DEF IInv
<1>1. CASE MmInit
  <2>1. Blocks' = {}
    BY <1>1 DEF MmInit, Blocks, Empty
  <2>2. \A a \in Addr : hdr[a].size = 0
    BY <1>1, <1>u DEF MmInit, Chain, Blocks, TypeOK
  <2>3. \A a \in Addr : live[a] = 0
    BY <1>u, <2>2 DEF Held, TypeOK
  <2>4. Chain'
    BY <1>1, <2>1 DEF MmInit, Enter, Chain
  <2>5. Walk'
    BY <1>1, <2>1 DEF MmInit, Enter, Walk
  <2>6. Held'
    BY <1>1, <2>3 DEF MmInit, Enter, Held, Empty
  <2>7. Inside'
    BY <2>1 DEF Inside
  <2> QED
    BY <1>t, <2>4, <2>5, <2>6, <2>7 DEF IInv
<1>2. ASSUME NEW n \in Sizes, MallocEnter(n) PROVE IInv'
  <2>1. UNCHANGED <<last_alloc, hdr, live, oom>>
    BY <1>2 DEF MallocEnter, heap
  <2>2. Blocks' = Blocks /\ \A a : NextHdr(a)' = NextHdr(a)
    BY <2>1 DEF Blocks, NextHdr
  <2>3. Chain'
    BY <1>2, <1>u, <2>1, <2>2 DEF MallocEnter, Enter, Chain
  <2>4. Walk'
    <3>1. mem' = last_alloc' \/ mem' \in Blocks'
      BY <1>2, <1>u, <2>1, <2>2 DEF MallocEnter, Enter, Chain
    <3>2. \A b \in Blocks' : ~(b < mem')
      BY <1>2, <2>2 DEF MallocEnter, Enter, Blocks, Addr
    <3> QED
      BY <1>2, <2>1, <3>1, <3>2 DEF MallocEnter, Enter, Walk
  <2>5. Held' /\ Inside'
    BY <1>2, <1>u, <2>1, <2>2 DEF MallocEnter, Enter, Held, Inside
  <2> QED
    BY <1>t, <2>3, <2>4, <2>5 DEF IInv
<1>3. CASE MallocZero
  <2>1. UNCHANGED <<last_alloc, hdr, live, oom, pc, mem, req>>
    BY <1>3 DEF MallocZero, heap
  <2> QED
    BY <1>t, <1>u, <2>1
    DEF IInv, Chain, Walk, Held, Inside, Blocks, NextHdr, Fits, Free
<1>4. CASE Skip
  <2>1. UNCHANGED <<last_alloc, hdr, live, oom, pc, req>> /\ pc = "walk"
    BY <1>4 DEF Skip, heap
  <2>2. /\ Blocks' = Blocks
        /\ \A a : NextHdr(a)' = NextHdr(a)
        /\ \A a, n : Fits(a, n)' = Fits(a, n)
    BY <2>1 DEF Blocks, NextHdr, Fits, Free
  <2>3. Chain' /\ Held' /\ Inside'
    BY <1>u, <2>1, <2>2 DEF Chain, Held, Inside
  <2>4. Walk'
    <3>1. mem \in Blocks
      BY <1>4, <1>u, <2>1 DEF Skip, AtEnd, Walk, TypeOK
    <3>2. mem' = last_alloc' \/ mem' \in Blocks'
      BY <1>4, <1>u, <2>1, <2>2, <3>1 DEF Skip, Chain
    <3>3. \A b \in Blocks : b < NextHdr(mem) => ~Fits(b, req)
      BY <1>4, <1>u, <2>1, <3>1, NothingBetween DEF Skip, Walk
    <3> QED
      BY <1>4, <1>u, <2>1, <2>2, <3>2, <3>3 DEF Skip, Walk
  <2> QED
    BY <1>t, <2>3, <2>4 DEF IInv
<1>5. CASE Reuse
  <2>1. mem \in Addr /\ mem \in Blocks
    BY <1>5, <1>u DEF Reuse, AtEnd, Walk, Blocks, TypeOK
  <2>2. \A a \in Addr : /\ hdr'[a].size = hdr[a].size
                        /\ hdr'[a].status = IF a = mem THEN 1 ELSE hdr[a].status
                        /\ live'[a] = IF a = mem THEN req ELSE live[a]
    BY <1>5, <1>u, <2>1 DEF Reuse, Return, TypeOK
  <2>3. /\ UNCHANGED <<last_alloc, oom>>
        /\ pc = "walk" /\ pc' = "idle"
        /\ Fits(mem, req)
    BY <1>5 DEF Reuse, Return
  <2>4. Blocks' = Blocks
    BY <2>2 DEF Blocks
  <2>5. \A a \in Blocks : NextHdr(a)' = NextHdr(a)
    BY <2>2 DEF NextHdr, Blocks
  <2>6. Chain'
    BY <1>u, <2>3, <2>4, <2>5 DEF Chain
  <2>7. Held'
    <3>1. last_alloc > HeapBegin
      BY <1>u, <2>1 DEF Chain, Blocks, NextHdr, TypeOK, Addr
    <3>2. req > 0 /\ req <= hdr[mem].size
      BY <1>u, <2>3 DEF Walk, Fits
    <3> QED
      BY <1>u, <2>2, <2>3, <3>1, <3>2 DEF Held
  <2>8. Walk' /\ Inside'
    BY <1>u, <2>2, <2>3, <2>4 DEF Walk, Inside, Blocks
  <2> QED
    BY <1>t, <2>6, <2>7, <2>8 DEF IInv
<1>6. CASE Append
  <2> PICK e : e = last_alloc
    OBVIOUS
  <2>1. /\ e \in Addr /\ e \in Nat /\ e >= HeapBegin
        /\ pc = "walk" /\ pc' = "idle"
        /\ req \in Nat /\ req > 0
        /\ last_alloc' = e + req + HDR + PAD
    BY <1>6, <1>u DEF Append, Return, Walk, Chain, TypeOK, Addr
  <2>2. /\ hdr' = [hdr EXCEPT ![e] = [status |-> 1, size |-> req]]
        /\ live' = [live EXCEPT ![e] = req]
    BY <1>6 DEF Append, Return
  <2>3. /\ hdr'[e] = [status |-> 1, size |-> req]
        /\ live'[e] = req
        /\ \A a \in Addr : a # e => hdr'[a] = hdr[a] /\ live'[a] = live[a]
    BY <1>u, <2>1, <2>2 DEF TypeOK
  <2>4. \A a \in Blocks : /\ a < e /\ NextHdr(a) <= e
                          /\ a \in Addr /\ a \in Nat /\ NextHdr(a) \in Nat
    BY <1>u, <2>1, BlockFacts DEF Chain
  <2>5. Blocks' = Blocks \union {e}
    <3>1. hdr'[e].size > 0
      BY <2>1, <2>3
    <3> QED
      BY <2>1, <2>3, <2>4, <3>1, Zenon DEF Blocks
  <2>6. \A a \in Blocks : NextHdr(a)' = NextHdr(a)
    BY <2>3, <2>4 DEF NextHdr
  <2>7. NextHdr(e)' = last_alloc'
    BY <2>1, <2>3 DEF NextHdr
  <2>8. Chain'
    <3>1. \A a \in Blocks' : /\ NextHdr(a)' <= last_alloc'
                             /\ NextHdr(a)' = last_alloc' \/ NextHdr(a)' \in Blocks'
      BY <1>u, <2>1, <2>4, <2>5, <2>6, <2>7 DEF Chain
    <3>2. \A a, b \in Blocks' : a < b => NextHdr(a)' <= b
      BY <1>u, <2>1, <2>4, <2>5, <2>6, <2>7 DEF Chain
    <3>3. last_alloc' >= HeapBegin /\ HeapBegin \in Blocks'
      BY <1>u, <2>1, <2>5 DEF Chain
    <3> QED
      BY <2>1, <3>1, <3>2, <3>3 DEF Chain
  <2>9. Held'
    <3>1. last_alloc' > HeapBegin
      BY <2>1
    <3>2. /\ live'[e] > 0 <=> hdr'[e].status = 1
          /\ live'[e] <= hdr'[e].size
      BY <2>1, <2>3
    <3> QED
      BY <1>u, <2>3, <3>1, <3>2 DEF Held
  <2>10. Inside'
    <3>1. ~oom' => ~oom /\ ~NoRoom(req)
      BY <1>6, Zenon DEF Append
    <3>2. ~oom' => e + HDR + req < HeapEnd
      BY <2>1, <3>1 DEF NoRoom
    <3>3. ~oom' => \A a \in Blocks : a + HDR + hdr'[a].size < HeapEnd
      BY <1>u, <2>3, <2>4, <3>1 DEF Inside
    <3> QED
      BY <2>3, <2>5, <3>2, <3>3 DEF Inside
  <2>11. Walk'
    BY <2>1 DEF Walk
  <2> QED
    BY <1>t, <2>8, <2>9, <2>10, <2>11 DEF IInv
<1>7. ASSUME NEW a \in Addr, FreeBlock(a) PROVE IInv'
  <2>1. \A b \in Addr : /\ hdr'[b].size = hdr[b].size
                        /\ hdr'[b].status = IF b = a THEN 0 ELSE hdr[b].status
                        /\ live'[b] = IF b = a THEN 0 ELSE live[b]
    BY <1>7, <1>u DEF FreeBlock, TypeOK
  <2>2. UNCHANGED <<last_alloc, oom, pc>> /\ pc = "idle"
    BY <1>7 DEF FreeBlock
  <2>3. Blocks' = Blocks
    BY <2>1 DEF Blocks
  <2>4. \A b \in Blocks : NextHdr(b)' = NextHdr(b)
    BY <2>1 DEF NextHdr, Blocks
  <2>5. Chain'
    BY <1>u, <2>2, <2>3, <2>4 DEF Chain
  <2>6. Held'
    BY <1>u, <2>1, <2>2 DEF Held, TypeOK
  <2>7. Walk' /\ Inside'
    BY <1>u, <2>1, <2>2, <2>3 DEF Walk, Inside, Blocks
  <2> QED
    BY <1>t, <2>5, <2>6, <2>7 DEF IInv
<1>8. CASE UNCHANGED vars
  BY <1>t, <1>u, <1>8
  DEF vars, IInv, Chain, Walk, Held, Inside, Blocks, NextHdr, Fits, Free
<1> QED
  BY <1>1, <1>2, <1>3, <1>4, <1>5, <1>6, <1>7, <1>8 DEF Next

\* The chain, the cursor and the status bytes stay consistent in every
\* reachable state; everything below follows from it.
THEOREM HeapInvariant == Spec => []IInv
  BY IndInit, IndNext, PTL DEF Spec

\* Two blocks the callers hold share no byte, and cover nobody's header.
LEMMA IInvNoOverlap == IInv => NoOverlap
<1> SUFFICES ASSUME IInv, NEW a \in Blocks, NEW b \in Blocks,
                    live[a] > 0, a # b
             PROVE  a + HDR + live[a] <= b \/ b + HDR + live[b] <= a
  BY DEF NoOverlap
<1>1. /\ TypeOK /\ live[a] \in Nat /\ live[a] <= hdr[a].size
      /\ live[b] \in Nat /\ live[b] <= hdr[b].size
  BY BlockFacts DEF IInv, Held, TypeOK
<1>2. a < b \/ b < a
  BY <1>1, BlockFacts
<1>3. ASSUME a < b PROVE a + HDR + live[a] <= b
  <2>1. NextHdr(a) <= b
    BY <1>3 DEF IInv, Chain
  <2> QED
    BY <1>1, <2>1, BlockFacts DEF NextHdr
<1>4. ASSUME b < a PROVE b + HDR + live[b] <= a
  <2>1. NextHdr(b) <= a
    BY <1>4 DEF IInv, Chain
  <2> QED
    BY <1>1, <2>1, BlockFacts DEF NextHdr
<1> QED
  BY <1>2, <1>3, <1>4

THEOREM BlocksNeverOverlap == Spec => []NoOverlap
  BY HeapInvariant, IInvNoOverlap, PTL

\* A block handed out without the message lies below heap_end.
LEMMA IInvQuiet == IInv => QuietMeansInside
<1> SUFFICES ASSUME IInv, ~oom, NEW a \in Addr, live[a] > 0
             PROVE  a + HDR + live[a] <= HeapEnd
  BY DEF QuietMeansInside
<1>1. /\ hdr[a] \in [status : {0, 1}, size : Nat]
      /\ live[a] \in Nat /\ live[a] <= hdr[a].size
  BY DEF IInv, TypeOK, Held
<1>2. a \in Blocks
  BY <1>1 DEF Blocks
<1>3. a + HDR + hdr[a].size < HeapEnd
  BY <1>2 DEF IInv, Inside
<1> QED
  BY <1>1, <1>3 DEF Addr

\* Until malloc says that memory is out, it stays clear of the page heap.
THEOREM SilentHeapStaysInside == Spec => []QuietMeansInside
  BY HeapInvariant, IInvQuiet, PTL

\* malloc decides for the lowest block that fits, or for growing only when no
\* free block would do.
LEMMA StepFirstFit ==
  ASSUME IInv, [Next]_vars, pc = "walk", pc' = "idle",
         NEW b \in Blocks, Fits(b, req)
  PROVE  ret' <= b + HDR
<1>1. /\ TypeOK /\ b \in Nat /\ b \in Addr
  BY BlockFacts DEF IInv
<1>2. ~(b < mem)
  BY DEF IInv, Walk
<1>3. CASE Reuse
  <2>1. ret' = mem + HDR
    BY <1>3 DEF Reuse, Return
  <2> QED
    BY <1>1, <1>2, <2>1 DEF TypeOK
<1>4. CASE Append
  <2>1. mem = last_alloc \/ mem \in Blocks
    BY DEF IInv, Walk
  <2>2. mem \notin Blocks \/ mem >= last_alloc
    BY <1>4 DEF Append, AtEnd, Blocks
  <2>3. ASSUME NEW c \in Blocks PROVE c \in Nat /\ c < last_alloc
    <3>1. NextHdr(c) <= last_alloc
      BY DEF IInv, Chain
    <3> QED
      BY <1>1, <3>1, BlockFacts DEF TypeOK, Addr
  <2> QED
    BY <1>1, <1>2, <2>1, <2>2, <2>3 DEF TypeOK
<1>5. ~MmInit /\ ~MallocZero /\ ~Skip /\ ~UNCHANGED vars
  BY DEF MmInit, MallocZero, Skip, vars
<1>6. \A n \in Sizes : ~MallocEnter(n)
  BY DEF MallocEnter
<1>7. \A a \in Addr : ~FreeBlock(a)
  BY DEF FreeBlock
<1> QED
  BY <1>3, <1>4, <1>5, <1>6, <1>7 DEF Next

THEOREM MallocIsFirstFit == Spec => FirstFit
<1>1. IInv /\ [Next]_vars
        => [pc = "walk" /\ pc' = "idle" =>
              \A b \in Blocks : Fits(b, req) => ret' <= b + HDR]_vars
  BY StepFirstFit
<1> QED
  BY <1>1, HeapInvariant, PTL DEF Spec, FirstFit

(***************************************************************************)
(* The heap implements Arena: every step allocates one fresh interval,     *)
(* gives one back, or leaves the intervals alone.                          *)
(***************************************************************************)
LEMMA SameLive == live' = live => Regions' = Regions
  BY DEF Regions

\* A block that becomes live adds exactly its own interval, and NoOverlap in
\* the new state keeps it off all the others.
LEMMA Handout ==
  ASSUME IInv, IInv', NEW e \in Addr, NEW n \in Sizes \union {DescSize},
         n > 0, live[e] = 0, live' = [live EXCEPT ![e] = n]
  PROVE  A!Alloc
<1> DEFINE r == [lo |-> e + HDR, len |-> n]
<1>1. /\ live'[e] = n
      /\ \A b \in Addr : b # e => live'[b] = live[b]
  BY DEF IInv, TypeOK
<1>2. Regions' = Regions \union {r}
  <2>1. \A x \in Regions' : x \in Regions \union {r}
    BY <1>1 DEF Regions
  <2>2. \A x \in Regions : x \in Regions'
    BY <1>1 DEF Regions
  <2>3. r \in Regions'
    BY <1>1 DEF Regions
  <2> QED
    BY <2>1, <2>2, <2>3
<1>3. ASSUME NEW s \in Regions PROVE A!Disjoint(r, s)
  <2>1. PICK b \in Addr : live[b] > 0 /\ s = [lo |-> b + HDR, len |-> live[b]]
    BY DEF Regions
  <2>2. b # e /\ live'[b] = live[b] /\ live'[b] > 0 /\ live'[e] > 0
    BY <1>1, <2>1
  <2>3. b \in Blocks' /\ e \in Blocks'
    <3>1. /\ hdr'[b].size \in Nat /\ live'[b] \in Nat /\ live'[b] <= hdr'[b].size
          /\ hdr'[e].size \in Nat /\ live'[e] \in Nat /\ live'[e] <= hdr'[e].size
      BY DEF IInv, TypeOK, Held
    <3> QED
      BY <2>2, <3>1 DEF Blocks
  <2>4. NoOverlap'
    BY IInvNoOverlap, PTL
  <2>5. e + HDR + live'[e] <= b \/ b + HDR + live'[b] <= e
    BY <2>2, <2>3, <2>4 DEF NoOverlap
  <2>6. e \in Nat /\ b \in Nat /\ n \in Nat /\ live[b] \in Nat
    BY DEF Addr, IInv, TypeOK
  <2> QED
    BY <1>1, <2>1, <2>2, <2>5, <2>6 DEF A!Disjoint
<1>4. r.lo \in HeapBegin .. AddrMax + HDR
  BY DEF Addr
<1> QED
  BY <1>2, <1>3, <1>4 DEF A!Alloc

LEMMA StepImplements ==
  ASSUME IInv, IInv', [Next]_vars
  PROVE  [A!Next]_Regions
<1>1. CASE MmInit
  BY <1>1, SameLive DEF MmInit
<1>2. ASSUME NEW n \in Sizes, MallocEnter(n) PROVE [A!Next]_Regions
  BY <1>2, SameLive DEF MallocEnter
<1>3. CASE MallocZero
  BY <1>3, SameLive DEF MallocZero
<1>4. CASE Skip
  BY <1>4, SameLive DEF Skip
<1>5. CASE Reuse
  <2>1. /\ mem \in Addr /\ hdr[mem].status = 0
        /\ req \in Sizes \union {DescSize} /\ req > 0
    BY <1>5 DEF Reuse, AtEnd, Fits, Free, IInv, TypeOK, Walk, Blocks
  <2>2. live[mem] = 0
    <3>1. live[mem] \in Nat /\ ~(live[mem] > 0)
      BY <2>1 DEF IInv, TypeOK, Held
    <3> QED
      BY <3>1
  <2>3. live' = [live EXCEPT ![mem] = req]
    BY <1>5 DEF Reuse, Return
  <2>4. A!Alloc
    BY <2>1, <2>2, <2>3, Handout
  <2> QED
    BY <2>4 DEF A!Next
<1>6. CASE Append
  <2>1. /\ last_alloc \in Addr
        /\ req \in Sizes \union {DescSize} /\ req > 0
    BY <1>6 DEF Append, IInv, TypeOK, Chain, Walk, Addr
  <2>2. live[last_alloc] = 0
    <3>1. last_alloc \notin Blocks
      <4>1. \A c \in Blocks : NextHdr(c) <= last_alloc
        BY DEF IInv, Chain
      <4> QED
        BY <2>1, <4>1, BlockFacts DEF IInv, Addr
    <3>2. /\ live[last_alloc] \in Nat /\ hdr[last_alloc].size \in Nat
          /\ live[last_alloc] <= hdr[last_alloc].size
      BY <2>1 DEF IInv, TypeOK, Held
    <3> QED
      BY <2>1, <3>1, <3>2 DEF Blocks
  <2>3. live' = [live EXCEPT ![last_alloc] = req]
    BY <1>6 DEF Append, Return
  <2>4. A!Alloc
    BY <2>1, <2>2, <2>3, Handout
  <2> QED
    BY <2>4 DEF A!Next
<1>7. ASSUME NEW a \in Addr, FreeBlock(a) PROVE [A!Next]_Regions
  <2> DEFINE r == [lo |-> a + HDR, len |-> live[a]]
  <2>1. /\ live'[a] = 0
        /\ \A b \in Addr : b # a => live'[b] = live[b]
        /\ live[a] > 0
    BY <1>7 DEF FreeBlock, IInv, TypeOK
  <2>2. r \in Regions
    BY <2>1 DEF Regions
  <2>3. \A x \in Regions' : x \in Regions \ {r}
    <3>1. SUFFICES ASSUME NEW b \in Addr, live'[b] > 0
                   PROVE  [lo |-> b + HDR, len |-> live'[b]] \in Regions \ {r}
      BY DEF Regions
    <3>2. b # a /\ live'[b] = live[b]
      BY <2>1, <3>1
    <3>3. [lo |-> b + HDR, len |-> live[b]] \in Regions
      BY <3>1, <3>2 DEF Regions
    <3>4. b + HDR # a + HDR
      BY <3>2 DEF Addr
    <3> QED
      BY <3>2, <3>3, <3>4
  <2>4. \A x \in Regions \ {r} : x \in Regions'
    BY <2>1 DEF Regions
  <2>5. Regions' = Regions \ {r}
    BY <2>3, <2>4
  <2> QED
    BY <2>2, <2>5 DEF A!Next, A!Release
<1>8. CASE UNCHANGED vars
  BY <1>8, SameLive DEF vars
<1> QED
  BY <1>1, <1>2, <1>3, <1>4, <1>5, <1>6, <1>7, <1>8 DEF Next

\* The intervals a caller holds change as an arena's would.
THEOREM HeapImplementsArena == Spec => ImplementsArena
<1>1. Init => A!Init
  BY DEF Init, Regions, A!Init
<1>2. IInv /\ IInv' /\ [Next]_vars => [A!Next]_Regions
  BY StepImplements
<1> QED
  BY <1>1, <1>2, HeapInvariant, PTL DEF Spec, ImplementsArena, A!Spec
=============================================================================
