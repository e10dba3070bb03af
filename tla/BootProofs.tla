----------------------------- MODULE BootProofs -----------------------------
(***************************************************************************)
(* Proofs about Boot: for any bus and tables and images of any size, how   *)
(* far the device table may run over, that the decoder fills its block     *)
(* pixel by pixel, and that what is drawn stays on the screen.             *)
(***************************************************************************)
EXTENDS Boot, FiniteSetTheorems, TLAPS

(***************************************************************************)
(* The inductive invariant of the boot.  The layout of the heap: the block *)
(* of mm_init, the two tables, and a block for each device.                *)
(***************************************************************************)
Devices == Base + DescSize + HDR + PAD
Drivers == Devices + Room + HDR + PAD
Dev(k) == Drivers + DrvRoom + HDR + PAD + (k - 1) * (4 + HDR + PAD)
Ptr(k) == Dev(k) + HDR
Total == Buses * Slots * Functions

\* The headers with d devices in the table.  Two places behind its room and its
\* padding are the status and the size of the block of pci_drivers.
Headers(mem, d) ==
    /\ mem[Base] = 1 /\ mem[Base + 1] = DescSize
    /\ mem[Devices] = 1 /\ mem[Devices + 1] = Room
    /\ d # Room + 2 => InUse(mem, Drivers)
    /\ IF d <= Room + 2 THEN mem[Drivers + 1] = DrvRoom ELSE mem[Drivers + 1] >= Base
    /\ d <= Room + 2 => \A k \in 1 .. d : mem[Dev(k)] = 1 /\ mem[Dev(k) + 1] = 4

\* The places of the table proper and of the padding, and what they point to.
Entries(mem, d) ==
    d <= Room + DrvRoom + 2 * (PAD + HDR) =>
        \A k \in 1 .. d : k <= Room \/ d <= Room + PAD =>
            /\ mem[pci_devices + k - 1] = Ptr(k)
            /\ d <= Room + PAD => DeviceAt(mem, Ptr(k)) = DeviceOf(Found[k])

Types ==
    /\ word \in [Memory -> Nat] /\ last_alloc \in Nat
    /\ pciPc \in {"init", "probe", "dump", "done"}
    /\ there \in Answering /\ at \in 0 .. Total /\ devs \in Nat
    /\ img \in Images
    /\ tgaPc \in {"header", "rows", "packets", "done"}
    /\ data \in Nat /\ (data # NULL => data >= HDR /\ data + 1 + Pixels <= Top)
    /\ local \in [x : Nat, y : Nat, i : Int, m : Nat]
    /\ stream \in Seq(Nat)

Listed ==
    /\ devs = Len(Found)
    /\ Found \in Seq(there)
    /\ devs = Cardinality({Triple(n) : n \in 0 .. at - 1} \cap there)

Scanning ==
    /\ pciPc # "done" => tgaPc = "header"
    /\ pciPc = "init" =>
           /\ at = 0
           /\ last_alloc = Devices /\ word[Base] = 1 /\ word[Base + 1] = DescSize
    /\ pciPc # "init" => pci_devices = Devices + HDR
    /\ pciPc # "init" /\ tgaPc = "header" =>
           /\ Headers(word, devs)
           /\ Entries(word, devs)
           /\ IF devs <= Room + 2 THEN last_alloc = Dev(devs + 1)
              ELSE last_alloc \in Dev(Room + 3) .. Dev(devs + 1)
    /\ pciPc = "done" /\ devs <= Room + PAD => dumped = [k \in 1 .. devs |-> DeviceOf(Found[k])]

\* After the image has been decoded or refused.
Outlasts ==
    tgaPc # "header" /\ devs <= Room + PAD /\ Len(stream) <= Pixels =>
        /\ Headers(word, devs)
        /\ Entries(word, devs)
        /\ IF Pixels < 1 THEN last_alloc = Dev(devs + 1) /\ data = NULL
           ELSE /\ last_alloc = Dev(devs + 1) + Pixels + 2 + HDR + PAD
                /\ word[Dev(devs + 1) + 1] = Pixels + 2
                /\ data \in {NULL, Ptr(devs + 1)}

RowsTo(c) == IF c = 0 THEN 0 ELSE (c - 1) \div img.w + 1
At(c) == IF c = 0 THEN 0 ELSE Target(c) + 1
Decoding ==
    /\ tgaPc = "header" => data = NULL /\ stream = <<>> /\ local = [x |-> 0, y |-> 0, i |-> 0, m |-> 0]
    /\ tgaPc \in {"rows", "packets"} => data # NULL /\ Pixels > 0 /\ img.w > 0 /\ img.h > 0
    /\ tgaPc = "rows" => img.kind \in {1, 2} /\ stream = <<>> /\ local.m = HeaderLen
    /\ tgaPc = "packets" =>
           /\ img.kind \in {9, 10}
           /\ local.x = Len(stream) /\ local.y = RowsTo(Len(stream)) /\ local.i = At(Len(stream))
    /\ tgaPc = "done" /\ data # NULL => img.w > 0 /\ img.h > 0

BootIInv == Types /\ Listed /\ Scanning /\ Outlasts /\ Decoding /\ PictureIsTheFile

(***************************************************************************)
(* Numbers.                                                                *)
(***************************************************************************)
\* A set of natural numbers that is not empty has a least one: every induction
\* below takes the least number a statement is false for.
LEMMA Least ==
  ASSUME NEW T \in SUBSET Nat, T # {}
  PROVE  \E x \in T : \A y \in T : x <= y
<1> DEFINE R == {ss \in Nat \X Nat : ss[1] < ss[2]}
<1>1. IsWellFoundedOn(R, Nat)
  BY NatLessThanWellFounded DEF OpToRel
<1> HIDE DEF R
<1>2. PICK x \in T : \A y \in T : ~ (<<y, x>> \in R)
  BY <1>1, WFMin, Zenon
<1>3. ASSUME NEW y \in T PROVE x <= y
  <2>1. x \in Nat /\ y \in Nat /\ <<y, x>> \notin R
    BY <1>2
  <2>2. ~ (y < x)
    BY <2>1 DEF R
  <2> QED
    BY <2>1, <2>2
<1> QED
  BY <1>3

LEMMA Division ==
  ASSUME NEW n \in Int, NEW w \in Nat, w > 0
  PROVE  /\ n = (n \div w) * w + (n % w)
         /\ n \div w \in Int /\ n % w \in 0 .. w - 1
         /\ n >= 0 => n \div w >= 0
  OBVIOUS

LEMMA Divided ==
  ASSUME NEW n \in Int, NEW w \in Nat, w > 0, NEW q \in Int, NEW r \in Nat, r < w, n = q * w + r
  PROVE  n \div w = q /\ n % w = r
  OBVIOUS

(***************************************************************************)
(* malloc's walk, and the chain.  Both are recursive functions: first that *)
(* there is one that satisfies the equation.                               *)
(***************************************************************************)
WalkAt(f, mem, last, n, a) ==
    IF a >= last \/ SizeAt(mem, a) = 0 THEN last
    ELSE IF ~InUse(mem, a) /\ SizeAt(mem, a) >= n THEN a
    ELSE f[NextHeader(mem, a)]
WalkFrom(mem, last, n) == CHOOSE f : f = [a \in Nat |-> WalkAt(f, mem, last, n, a)]

ChainAt(f, mem, last, a) ==
    a = last \/ (a < last /\ SizeAt(mem, a) > 0 /\ f[NextHeader(mem, a)])
ChainFrom(mem, last) == CHOOSE f : f = [a \in Nat |-> ChainAt(f, mem, last, a)]

LEMMA WalkIs == \A mem, last, n : Walk(mem, last, n) = WalkFrom(mem, last, n)[Base]
  BY DEF Walk, WalkFrom, WalkAt

LEMMA WholeIs == \A mem, last : Whole(mem, last) = ChainFrom(mem, last)[Base]
  BY DEF Whole, ChainFrom, ChainAt

LEMMA NextIsNext ==
  ASSUME NEW mem \in [Memory -> Nat], NEW last \in 0 .. Top, NEW a \in Nat, a < last
  PROVE  NextHeader(mem, a) \in Nat /\ NextHeader(mem, a) > a /\ SizeAt(mem, a) \in Nat
<1>1. a + 1 \in Memory
  BY WordsAssumption DEF Memory
<1> QED
  BY <1>1 DEF NextHeader, SizeAt, HDR, PAD

LEMMA WalkExists ==
  ASSUME NEW mem \in [Memory -> Nat], NEW last \in 0 .. Top, NEW n \in Nat
  PROVE  \A a \in Nat : WalkFrom(mem, last, n)[a] = WalkAt(WalkFrom(mem, last, n), mem, last, n, a)
<1> DEFINE E(f, a) == WalkAt(f, mem, last, n, a)
           P(m) == \E f : f = [a \in Nat |-> f[a]] /\ \A a \in Nat : a + m >= last => f[a] = E(f, a)
           T == {m \in Nat : ~P(m)}
<1>1. P(0)
  <2> DEFINE f == [a \in Nat |-> last]
  <2>1. \A a \in Nat : a >= last => f[a] = E(f, a)
    BY DEF WalkAt
  <2> QED
    BY <2>1
<1>2. ASSUME NEW m \in Nat, P(m) PROVE P(m + 1)
  <2>1. PICK f : f = [a \in Nat |-> f[a]] /\ \A a \in Nat : a + m >= last => f[a] = E(f, a)
    BY <1>2
  <2> DEFINE g == [a \in Nat |-> IF a + m + 1 = last THEN E(f, a) ELSE f[a]]
  <2>2. ASSUME NEW a \in Nat, a + (m + 1) >= last PROVE g[a] = E(g, a)
    <3>1. g[a] = E(f, a)
      BY <2>1, <2>2
    <3>2. CASE a >= last
      BY <3>1, <3>2 DEF WalkAt
    <3>3. CASE a < last
      <4>1. NextHeader(mem, a) \in Nat /\ NextHeader(mem, a) > a
        BY <3>3, NextIsNext
      <4>2. g[NextHeader(mem, a)] = f[NextHeader(mem, a)]
        BY <2>2, <4>1
      <4> HIDE DEF g
      <4> QED
        BY <3>1, <4>2 DEF WalkAt
    <3> QED
      BY <3>2, <3>3
  <2>3. g = [a \in Nat |-> g[a]]
    OBVIOUS
  <2> HIDE DEF g, E
  <2> QED
    BY <2>2, <2>3
<1> HIDE DEF P
<1>3. T = {}
  <2> SUFFICES ASSUME T # {} PROVE FALSE
    OBVIOUS
  <2>1. PICK x \in T : \A y \in T : x <= y
    BY Least
  <2>2. x \in Nat \ {0} /\ x - 1 \in Nat /\ x - 1 + 1 = x
    BY <1>1, <2>1
  <2>3. P(x - 1)
    BY <2>1, <2>2
  <2> QED
    BY <1>2, <2>1, <2>2, <2>3
<1>4. P(last)
  BY <1>3
<1>5. PICK f : f = [a \in Nat |-> f[a]] /\ \A a \in Nat : a + last >= last => f[a] = E(f, a)
  BY <1>4 DEF P
<1>6. \A a \in Nat : f[a] = E(f, a)
  BY <1>5
<1>7. f = [a \in Nat |-> WalkAt(f, mem, last, n, a)]
  BY <1>5, <1>6
<1>8. WalkFrom(mem, last, n) = [a \in Nat |-> WalkAt(WalkFrom(mem, last, n), mem, last, n, a)]
  BY <1>7 DEF WalkFrom
<1> QED
  BY <1>8

LEMMA ChainExists ==
  ASSUME NEW mem \in [Memory -> Nat], NEW last \in 0 .. Top
  PROVE  \A a \in Nat : ChainFrom(mem, last)[a] = ChainAt(ChainFrom(mem, last), mem, last, a)
<1> DEFINE E(f, a) == ChainAt(f, mem, last, a)
           P(m) == \E f : f = [a \in Nat |-> f[a]] /\ \A a \in Nat : a + m >= last => f[a] = E(f, a)
           T == {m \in Nat : ~P(m)}
<1>1. P(0)
  <2> DEFINE f == [a \in Nat |-> a = last]
  <2>1. \A a \in Nat : a >= last => f[a] = E(f, a)
    BY DEF ChainAt
  <2>2. f = [a \in Nat |-> f[a]]
    OBVIOUS
  <2>3. \A a \in Nat : a + 0 >= last => f[a] = E(f, a)
    BY <2>1
  <2> HIDE DEF f, E
  <2> QED
    BY <2>2, <2>3
<1>2. ASSUME NEW m \in Nat, P(m) PROVE P(m + 1)
  <2>1. PICK f : f = [a \in Nat |-> f[a]] /\ \A a \in Nat : a + m >= last => f[a] = E(f, a)
    BY <1>2
  <2> DEFINE g == [a \in Nat |-> IF a + m + 1 = last THEN E(f, a) ELSE f[a]]
  <2>2. ASSUME NEW a \in Nat, a + (m + 1) >= last PROVE g[a] = E(g, a)
    <3>1. g[a] = E(f, a)
      BY <2>1, <2>2
    <3>2. CASE a >= last
      BY <3>1, <3>2 DEF ChainAt
    <3>3. CASE a < last
      <4>1. NextHeader(mem, a) \in Nat /\ NextHeader(mem, a) > a
        BY <3>3, NextIsNext
      <4>2. g[NextHeader(mem, a)] = f[NextHeader(mem, a)]
        BY <2>2, <4>1
      <4> HIDE DEF g
      <4> QED
        BY <3>1, <4>2 DEF ChainAt
    <3> QED
      BY <3>2, <3>3
  <2>3. g = [a \in Nat |-> g[a]]
    OBVIOUS
  <2> HIDE DEF g, E
  <2> QED
    BY <2>2, <2>3
<1> HIDE DEF P
<1>3. T = {}
  <2> SUFFICES ASSUME T # {} PROVE FALSE
    OBVIOUS
  <2>1. PICK x \in T : \A y \in T : x <= y
    BY Least
  <2>2. x \in Nat \ {0} /\ x - 1 \in Nat /\ x - 1 + 1 = x
    BY <1>1, <2>1
  <2>3. P(x - 1)
    BY <2>1, <2>2
  <2> QED
    BY <1>2, <2>1, <2>2, <2>3
<1>4. P(last)
  BY <1>3
<1>5. PICK f : f = [a \in Nat |-> f[a]] /\ \A a \in Nat : a + last >= last => f[a] = E(f, a)
  BY <1>4 DEF P
<1>6. \A a \in Nat : f[a] = E(f, a)
  BY <1>5
<1>7. f = [a \in Nat |-> ChainAt(f, mem, last, a)]
  BY <1>5, <1>6
<1>8. ChainFrom(mem, last) = [a \in Nat |-> ChainAt(ChainFrom(mem, last), mem, last, a)]
  BY <1>7 DEF ChainFrom
<1> QED
  BY <1>8

(***************************************************************************)
(* A set of headers that leads from the beginning of the heap to its end.  *)
(***************************************************************************)
Links(mem, last, S) ==
    /\ S \subseteq Nat
    /\ Base \in S
    /\ \A a \in S :
          /\ Base <= a /\ a < last /\ SizeAt(mem, a) > 0
          /\ NextHeader(mem, a) = last \/ NextHeader(mem, a) \in S
          /\ \A b \in S : a < b => NextHeader(mem, a) <= b
Fits(mem, a, n) == ~InUse(mem, a) /\ SizeAt(mem, a) >= n

\* malloc's walk ends at a free block that is large enough or at the end; such a
\* block is never passed over; and the chain is whole.
LEMMA WalkOnLinks ==
  ASSUME NEW mem \in [Memory -> Nat], NEW last \in 0 .. Top, NEW n \in Nat,
         NEW S, Links(mem, last, S)
  PROVE  /\ Walk(mem, last, n) = last \/ (Walk(mem, last, n) \in S /\ Fits(mem, Walk(mem, last, n), n))
         /\ (\E f \in S : Fits(mem, f, n)) => Walk(mem, last, n) \in S
<1> DEFINE walk == WalkFrom(mem, last, n)
           Good(a) == /\ walk[a] = last \/ (walk[a] \in S /\ Fits(mem, walk[a], n))
                      /\ (\E f \in S : a <= f /\ Fits(mem, f, n)) => walk[a] \in S
           T == {m \in Nat : \E a \in S : a + m = last /\ ~Good(a)}
<1>1. \A a \in Nat : walk[a] = WalkAt(walk, mem, last, n, a)
  BY WalkExists
<1> HIDE DEF walk
<1>2. T = {}
  <2> SUFFICES ASSUME T # {} PROVE FALSE
    OBVIOUS
  <2>1. PICK x \in T : \A y \in T : x <= y
    BY Least
  <2>2. PICK a \in S : a + x = last /\ ~Good(a)
    BY <2>1
  <2>3. a \in Nat /\ x \in Nat /\ a < last /\ SizeAt(mem, a) > 0
    BY <2>1, <2>2 DEF Links
  <2>4. NextHeader(mem, a) \in Nat /\ NextHeader(mem, a) > a
    BY <2>3, NextIsNext
  <2>5. walk[last] = last
    BY <1>1, <2>3 DEF WalkAt
  <2>6. CASE Fits(mem, a, n)
    <3>1. walk[a] = a
      BY <1>1, <2>3, <2>6 DEF WalkAt, Fits
    <3> QED
      BY <2>2, <2>6, <3>1
  <2>7. CASE ~Fits(mem, a, n)
    <3>1. walk[a] = walk[NextHeader(mem, a)]
      BY <1>1, <2>3, <2>7 DEF WalkAt, Fits
    <3>2. CASE NextHeader(mem, a) = last
      <4>1. \A f \in S : a <= f => f = a
        BY <2>3, <3>2 DEF Links
      <4> QED
        BY <2>2, <2>5, <2>7, <3>1, <3>2, <4>1
    <3>3. CASE NextHeader(mem, a) \in S
      <4>1. Good(NextHeader(mem, a))
        <5> DEFINE b == NextHeader(mem, a)
        <5>1. b < last /\ last - b \in Nat /\ last - b < x /\ b + (last - b) = last
          BY <2>2, <2>3, <2>4, <3>3 DEF Links
        <5> HIDE DEF b, Good
        <5> QED
          BY <2>1, <3>3, <5>1 DEF b
      <4>2. \A f \in S : a <= f => f = a \/ NextHeader(mem, a) <= f
        BY <2>3 DEF Links
      <4> QED
        BY <2>2, <2>7, <3>1, <4>1, <4>2
    <3> QED
      BY <3>2, <3>3, <2>2 DEF Links
  <2> QED
    BY <2>6, <2>7
<1>3. Base \in S /\ Base \in Nat /\ last - Base \in Nat /\ Base + (last - Base) = last
  BY WordsAssumption DEF Links
<1>4. Good(Base)
  BY <1>2, <1>3
<1>5. \A f \in S : Base <= f
  BY DEF Links
<1>6. Walk(mem, last, n) = walk[Base]
  BY WalkIs DEF walk
<1> QED
  BY <1>4, <1>5, <1>6

LEMMA LinksAreWhole ==
  ASSUME NEW mem \in [Memory -> Nat], NEW last \in 0 .. Top, NEW S, Links(mem, last, S)
  PROVE  Whole(mem, last)
<1> DEFINE chain == ChainFrom(mem, last)
           T == {m \in Nat : \E a \in S : a + m = last /\ ~chain[a]}
<1>1. \A a \in Nat : chain[a] = ChainAt(chain, mem, last, a)
  BY ChainExists
<1> HIDE DEF chain
<1>2. T = {}
  <2> SUFFICES ASSUME T # {} PROVE FALSE
    OBVIOUS
  <2>1. PICK x \in T : \A y \in T : x <= y
    BY Least
  <2>2. PICK a \in S : a + x = last /\ ~chain[a]
    BY <2>1
  <2> DEFINE b == NextHeader(mem, a)
  <2>3. a \in Nat /\ x \in Nat /\ a < last /\ SizeAt(mem, a) > 0 /\ (b = last \/ b \in S)
    BY <2>1, <2>2 DEF Links
  <2>4. b \in Nat /\ b > a
    BY <2>3, NextIsNext
  <2>5. ~chain[b]
    BY <1>1, <2>2, <2>3 DEF ChainAt
  <2>6. chain[last]
    <3>1. last \in Nat
      OBVIOUS
    <3>2. chain[last] = ChainAt(chain, mem, last, last)
      BY <1>1, <3>1
    <3>3. ChainAt(chain, mem, last, last)
      BY DEF ChainAt
    <3> QED
      BY <3>2, <3>3
  <2> HIDE DEF b
  <2>7. b \in S /\ b < last
    BY <2>3, <2>5, <2>6 DEF Links
  <2>8. last - b \in Nat /\ last - b < x /\ b + (last - b) = last
    BY <2>2, <2>3, <2>4, <2>7
  <2> QED
    BY <2>1, <2>5, <2>7, <2>8
<1>3. Base \in S /\ Base \in Nat /\ last - Base \in Nat /\ Base + (last - Base) = last
  BY WordsAssumption DEF Links
<1>4. chain[Base]
  BY <1>2, <1>3
<1> QED
  BY <1>4, WholeIs DEF chain

\* What malloc does to memory, with the walk's end at a.
LEMMA MallocIs ==
  ASSUME NEW mem \in [Memory -> Nat], NEW last \in Nat, NEW n \in Nat, NEW a \in Nat,
         a = Walk(mem, last, n)
  PROVE  LET m == Malloc(mem, last, n) IN
         /\ m.ptr = a + HDR
         /\ m.last = IF a = last THEN a + n + HDR + PAD ELSE last
         /\ m.mem \in [Memory -> Nat]
         /\ \A x \in Memory : m.mem[x] = IF x \in a + HDR .. a + HDR + n - 1 THEN 0
                                         ELSE IF x = a THEN 1
                                         ELSE IF x = a + 1 /\ a = last THEN n ELSE mem[x]
  BY DEF Malloc

LEMMA FreeIs ==
  ASSUME NEW mem \in [Memory -> Nat], NEW a \in Memory
  PROVE  /\ FreePtr(mem, a + HDR) \in [Memory -> Nat]
         /\ \A x \in Memory : FreePtr(mem, a + HDR)[x] = IF x = a THEN 0 ELSE mem[x]
<1>1. a \in Nat /\ (a + HDR) - HDR = a
  BY DEF HDR, Memory
<1>2. FreePtr(mem, a + HDR) = [mem EXCEPT ![(a + HDR) - HDR] = 0]
  BY DEF FreePtr
<1>3. FreePtr(mem, a + HDR) = [mem EXCEPT ![a] = 0]
  BY <1>1, <1>2, Zenon
<1>4. LET f == [mem EXCEPT ![a] = 0] IN
      f \in [Memory -> Nat] /\ \A x \in Memory : f[x] = IF x = a THEN 0 ELSE mem[x]
  OBVIOUS
<1> QED
  BY <1>3, <1>4, Zenon

LEMMA OneIsInUse ==
  ASSUME NEW mem, NEW a, mem[a] = 1
  PROVE  InUse(mem, a)
  BY WordsAssumption DEF InUse

(***************************************************************************)
(* The layout.                                                             *)
(***************************************************************************)
LEMMA Constants ==
  /\ Base \in Nat /\ Base >= 2 /\ Top \in Nat /\ Base <= Top /\ Top <= 2 * Base
  /\ DescSize \in Nat /\ DescSize > 0 /\ Room \in Nat /\ Room > 0 /\ DrvRoom \in Nat /\ DrvRoom >= 4
  /\ Buses \in 1 .. 256 /\ Slots \in 1 .. 32 /\ Functions \in 1 .. 8
  BY WordsAssumption, PciAssumption, BootAssumption

LEMMA Layout ==
  ASSUME NEW k \in Int
  PROVE  /\ Devices = Base + DescSize + 3 /\ Devices \in Nat
         /\ Drivers = Devices + Room + 3 /\ Drivers \in Nat
         /\ Dev(k) \in Int /\ Ptr(k) = Dev(k) + 2
         /\ Dev(k) = Drivers + DrvRoom + 3 + 7 * (k - 1)
         /\ k >= 1 => Dev(k) \in Nat /\ Ptr(k) \in Nat
         /\ Dev(k + 1) = Dev(k) + 7
  BY Constants DEF Devices, Drivers, Dev, Ptr, HDR, PAD


LEMMA BusIsFinite == ASSUME NEW bus \in Answering PROVE IsFiniteSet(bus) /\ Cardinality(bus) \in Nat
<1> DEFINE A == 0 .. Buses - 1
           B == 0 .. Slots - 1
           C == 0 .. Functions - 1
<1>1. IsFiniteSet(A) /\ IsFiniteSet(B) /\ IsFiniteSet(C)
  BY Constants, FS_Interval
<1>2. IsFiniteSet((A \X B) \X C)
  BY <1>1, FS_Product
<1> DEFINE f == [t \in (A \X B) \X C |-> <<t[1][1], t[1][2], t[2]>>]
<1>3. f \in Surjection((A \X B) \X C, A \X B \X C)
  <2>1. f \in [(A \X B) \X C -> A \X B \X C]
    OBVIOUS
  <2>2. ASSUME NEW u \in A \X B \X C
        PROVE  \E t \in (A \X B) \X C : f[t] = u
    <3>1. u = <<u[1], u[2], u[3]>> /\ u[1] \in A /\ u[2] \in B /\ u[3] \in C
      OBVIOUS
    <3>2. <<<<u[1], u[2]>>, u[3]>> \in (A \X B) \X C /\ f[<<<<u[1], u[2]>>, u[3]>>] = <<u[1], u[2], u[3]>>
      BY <3>1
    <3> QED
      BY <3>1, <3>2
  <2> HIDE DEF f
  <2> QED
    BY <2>1, <2>2 DEF Surjection
<1> HIDE DEF f
<1>4. IsFiniteSet(A \X B \X C)
  BY <1>2, <1>3, FS_Surjection
<1>5. bus \subseteq A \X B \X C
  BY PciAssumption
<1> QED
  BY <1>4, <1>5, FS_Subset, FS_CardinalityType

\* The blocks of the devices that have been found, and one for the image, fit.
LEMMA BlocksFit ==
  ASSUME there \in Answering, img \in Images, NEW d \in Nat, d <= Cardinality(there)
  PROVE  /\ Pixels \in Nat
         /\ Dev(d + 1) + Pixels + 5 <= Top
<1>1. there \in Answering /\ img \in Images
  OBVIOUS
<1>2. img.w \in Nat /\ img.h \in Nat
  BY <1>1, TgaAssumption
<1>3. Pixels \in Nat /\ Pixels = img.w * img.h
  BY <1>2 DEF Pixels
<1>4. Cardinality(there) \in Nat
  BY <1>1, BusIsFinite
<1>5. Base + (DescSize + 3) + (Room + 3) + (DrvRoom + 3) + Cardinality(there) * 7 + (Pixels + 5) <= Top
  <2>1. Base + (DescSize + HDR + PAD) + (Room + HDR + PAD) + (DrvRoom + HDR + PAD)
               + Cardinality(there) * (4 + HDR + PAD) + (img.w * img.h + 2 + HDR + PAD) <= Top
    BY <1>1, BootAssumption
  <2> QED
    BY <1>3, <1>4, <2>1, Constants DEF HDR, PAD
<1>6. Dev(d + 1) = Base + (DescSize + 3) + (Room + 3) + (DrvRoom + 3) + d * 7
  BY Layout, Constants
<1> QED
  BY <1>3, <1>4, <1>5, <1>6, Constants

(***************************************************************************)
(* The bus.                                                                *)
(***************************************************************************)
Functions3 == (0 .. Buses - 1) \X (0 .. Slots - 1) \X (0 .. Functions - 1)

LEMMA TotalIs == Total \in Nat /\ Slots * Functions \in Nat /\ Slots * Functions > 0
                 /\ Total = Buses * (Slots * Functions)
<1>1. \A a, b, c \in Nat : a * b * c \in Nat /\ b * c \in Nat /\ a * b * c = a * (b * c)
  OBVIOUS
<1>2. \A b, c \in Nat : b > 0 /\ c > 0 => b * c > 0
  OBVIOUS
<1> QED
  BY <1>1, <1>2, Constants DEF Total

\* probe_everything's three loops reach each function once.
LEMMA TripleIs ==
  ASSUME NEW n \in 0 .. Total - 1
  PROVE  /\ Triple(n) \in Functions3
         /\ n = Triple(n)[1] * (Slots * Functions) + Triple(n)[2] * Functions + Triple(n)[3]
<1> DEFINE q == n \div Functions
           c == n % Functions
           a == q \div Slots
           b == q % Slots
<1>0. n \in Nat /\ n < Total /\ Functions \in Nat /\ Functions > 0 /\ Slots \in Nat /\ Slots > 0
  BY TotalIs, Constants
<1>1. n = q * Functions + c /\ q \in Nat /\ c \in 0 .. Functions - 1
  BY <1>0, Division
<1>2. q = a * Slots + b /\ a \in Nat /\ b \in 0 .. Slots - 1
  BY <1>0, <1>1, Division
<1> HIDE DEF q, c, a, b
<1>3. n = a * (Slots * Functions) + (b * Functions + c)
  <2>1. (a * Slots + b) * Functions = a * (Slots * Functions) + b * Functions
    BY <1>0, <1>2
  <2>2. a * (Slots * Functions) \in Nat /\ b * Functions \in Nat
    BY <1>0, <1>2
  <2> QED
    BY <1>1, <1>2, <2>1, <2>2
<1>4. b * Functions + c \in Nat /\ b * Functions + c < Slots * Functions
  <2>1. PICK d \in Nat : Slots = b + 1 + d
    BY <1>0, <1>2, Slots - (b + 1) \in Nat, Slots = b + 1 + (Slots - (b + 1))
  <2>2. Slots * Functions = b * Functions + Functions + d * Functions
    BY <1>0, <1>2, <2>1
  <2>3. b * Functions \in Nat /\ d * Functions \in Nat
    BY <1>0, <1>2, <2>1
  <2> QED
    BY <1>0, <1>1, <2>2, <2>3
<1>5. n \div (Slots * Functions) = a
  <2> DEFINE z == Slots * Functions
             y == b * Functions + c
  <2>1. n \in Int /\ z \in Nat /\ z > 0 /\ a \in Int /\ y \in Nat /\ y < z /\ n = a * z + y
    BY <1>0, <1>2, <1>3, <1>4, TotalIs
  <2> HIDE DEF y, z
  <2>2. n \div z = a
    BY <2>1, Divided
  <2> QED
    BY <2>2 DEF z
<1>6. a \in 0 .. Buses - 1
  <2>1. CASE a >= Buses
    <3>1. PICK d \in Nat : a = Buses + d
      BY <2>1, <1>2, Constants, a - Buses \in Nat, a = Buses + (a - Buses)
    <3>2. a * (Slots * Functions) = Buses * (Slots * Functions) + d * (Slots * Functions)
      BY <3>1, TotalIs, Constants
    <3>3. d * (Slots * Functions) \in Nat
      BY <3>1, TotalIs
    <3> QED
      BY <1>0, <1>3, <1>4, <3>2, <3>3, TotalIs
  <2> QED
    BY <1>2, <2>1, Constants
<1>7. Triple(n) = <<a, b, c>>
  BY <1>5 DEF Triple, q, b, c
<1>8. a * (Slots * Functions) \in Nat /\ b * Functions \in Nat
  BY <1>0, <1>2
<1> QED
  BY <1>1, <1>2, <1>3, <1>6, <1>7, <1>8 DEF Functions3

LEMMA DistinctTriples ==
  ASSUME NEW m \in 0 .. Total - 1, NEW n \in 0 .. Total - 1, Triple(m) = Triple(n)
  PROVE  m = n
  BY TripleIs

LEMMA DecodeIs ==
  ASSUME NEW p \in Nat, NEW q \in Nat, q < 32, NEW r \in Nat, r < 8
  PROVE  LET a == p * 65536 + q * 2048 + r * 256 IN
         /\ a \div 65536 = p /\ (a \div 2048) % 32 = q /\ (a \div 256) % 8 = r /\ a % 256 = 0
<1> DEFINE a == p * 65536 + q * 2048 + r * 256
<1>0. a \in Int
  OBVIOUS
<1>1. a = p * 65536 + (q * 2048 + r * 256) /\ q * 2048 + r * 256 \in Nat /\ q * 2048 + r * 256 < 65536
  OBVIOUS
<1>2. a = (p * 32 + q) * 2048 + r * 256 /\ p * 32 + q \in Int /\ r * 256 \in Nat /\ r * 256 < 2048
  OBVIOUS
<1>3. a = (p * 256 + q * 8 + r) * 256 + 0 /\ p * 256 + q * 8 + r \in Int
  OBVIOUS
<1> HIDE DEF a
<1>4. a \div 65536 = p
  BY <1>0, <1>1, Divided
<1>5. a \div 2048 = p * 32 + q
  BY <1>0, <1>2, Divided
<1>6. a \div 256 = p * 256 + q * 8 + r /\ a % 256 = 0
  BY <1>0, <1>3, Divided
<1>7. (p * 32 + q) % 32 = q
  BY Divided
<1>8. p * 256 + q * 8 + r = (p * 32 + q) * 8 + r
  OBVIOUS
<1>9. (p * 256 + q * 8 + r) % 8 = r
  BY <1>8, Divided
<1> QED
  BY <1>4, <1>5, <1>6, <1>7, <1>9 DEF a

\* A function that is there answers with its vendor and its device, and no other
\* does: the address keeps bus, slot and function apart.
LEMMA BusAnswers ==
  ASSUME there \in Answering, NEW f \in Functions3
  PROVE  /\ getVendorID(f) = IF f \in there THEN Vendor(f) ELSE Nobody
         /\ f \in there => getDeviceID(f) = Device(f)
         /\ Vendor(f) \in Nat /\ Device(f) \in Nat /\ Vendor(f) # Nobody
         /\ f[3] \in Nat /\ getVendorID(f) \in Nat /\ getDeviceID(f) \in Nat
<1>1. PICK p \in Nat, q \in Nat, r \in Nat : f = <<p, q, r>> /\ p < 256 /\ q < 32 /\ r < 8
  <2>1. f = <<f[1], f[2], f[3]>> /\ f[1] \in 0 .. Buses - 1 /\ f[2] \in 0 .. Slots - 1 /\ f[3] \in 0 .. Functions - 1
    BY DEF Functions3
  <2>2. /\ Buses \in Nat /\ Buses <= 256 /\ Slots \in Nat /\ Slots <= 32
        /\ Functions \in Nat /\ Functions <= 8
    BY Constants
  <2>3. /\ f[1] \in Nat /\ f[2] \in Nat /\ f[3] \in Nat /\ f[1] < 256 /\ f[2] < 32 /\ f[3] < 8
    BY <2>1, <2>2
  <2> QED
    BY <2>1, <2>3
<1>2. 2 ^ 16 = 65536 /\ 2 ^ 11 = 2048 /\ 2 ^ 8 = 256
  OBVIOUS
<1> DEFINE a == p * 65536 + q * 2048 + r * 256
<1>3. Address(f, 0) = a /\ Address(f, 2) = a
  <2>1. Address(f, 0) = p * 2 ^ 16 + q * 2 ^ 11 + r * 2 ^ 8 + 0
    BY <1>1 DEF Address
  <2>2. Address(f, 2) = p * 2 ^ 16 + q * 2 ^ 11 + r * 2 ^ 8 + 0
    BY <1>1 DEF Address
  <2> QED
    BY <1>1, <1>2, <2>1, <2>2
<1>4. Decode(a) = f /\ a % 2 ^ 8 = 0
  <2>1. a \div 65536 = p /\ (a \div 2048) % 32 = q /\ (a \div 256) % 8 = r /\ a % 256 = 0
    BY <1>1, DecodeIs
  <2> HIDE DEF a
  <2> QED
    BY <1>1, <1>2, <2>1 DEF Decode
<1> HIDE DEF a
<1>5. Register(a) = IF f \in there THEN <<Vendor(f), Device(f)>> ELSE <<Nobody, Nobody>>
  BY <1>4 DEF Register
<1>6. /\ getVendorID(f) = Register(a)[1] /\ getDeviceID(f) = Register(a)[2]
  BY <1>3 DEF getVendorID, getDeviceID, pci_read_word
<1>7. Vendor(f) = 100 + 16 * p + 4 * q + r /\ Device(f) = 500 + Vendor(f) /\ Nobody = 65535
  BY <1>1 DEF Vendor, Device, Nobody
<1>8. Vendor(f) \in Nat /\ Device(f) \in Nat /\ Vendor(f) # Nobody /\ Nobody \in Nat
  BY <1>1, <1>7
<1> QED
  BY <1>1, <1>5, <1>6, <1>8

(***************************************************************************)
(* Found.                                                                  *)
(***************************************************************************)
FoundAt(f, n) ==
    IF n = 0 THEN <<>>
    ELSE IF Triple(n - 1) \in there THEN Append(f[n - 1], Triple(n - 1))
    ELSE f[n - 1]
FoundIn == CHOOSE f : f = [n \in 0 .. Total |-> FoundAt(f, n)]

LEMMA FoundIs == Found = FoundIn[at]
  BY DEF Found, FoundIn, FoundAt, Total

LEMMA FoundExists ==
  \A n \in 0 .. Total : FoundIn[n] = FoundAt(FoundIn, n)
<1> DEFINE P(m) == \E f : f = [n \in 0 .. m |-> FoundAt(f, n)]
           T == {m \in Nat : ~P(m)}
<1>1. P(0)
  <2> DEFINE f == [n \in 0 .. 0 |-> <<>>]
  <2>1. f = [n \in 0 .. 0 |-> FoundAt(f, n)]
    BY DEF FoundAt
  <2> QED
    BY <2>1
<1>2. ASSUME NEW m \in Nat, P(m) PROVE P(m + 1)
  <2>1. PICK f : f = [n \in 0 .. m |-> FoundAt(f, n)]
    BY <1>2
  <2> DEFINE g == [n \in 0 .. m + 1 |-> IF n = m + 1 THEN FoundAt(f, n) ELSE f[n]]
  <2>2. ASSUME NEW n \in 0 .. m + 1 PROVE g[n] = FoundAt(g, n)
    <3>1. g[n] = FoundAt(f, n)
      <4>1. CASE n = m + 1
        BY <4>1
      <4>2. CASE n # m + 1
        <5>1. n \in 0 .. m /\ g[n] = f[n]
          BY <4>2
        <5> HIDE DEF g
        <5> QED
          BY <2>1, <5>1
      <4> QED
        BY <4>1, <4>2
    <3>2. n # 0 => g[n - 1] = f[n - 1]
      OBVIOUS
    <3> HIDE DEF g
    <3> QED
      BY <3>1, <3>2 DEF FoundAt
  <2>3. g = [n \in 0 .. m + 1 |-> g[n]]
    OBVIOUS
  <2> HIDE DEF g
  <2>4. g = [n \in 0 .. m + 1 |-> FoundAt(g, n)]
    BY <2>2, <2>3
  <2> QED
    BY <2>4
<1> HIDE DEF P
<1>3. T = {}
  <2> SUFFICES ASSUME T # {} PROVE FALSE
    OBVIOUS
  <2>1. PICK x \in T : \A y \in T : x <= y
    BY Least
  <2>2. x \in Nat \ {0} /\ x - 1 \in Nat /\ x - 1 + 1 = x
    BY <1>1, <2>1
  <2>3. P(x - 1)
    BY <2>1, <2>2
  <2> QED
    BY <1>2, <2>1, <2>2, <2>3
<1>4. P(Total)
  BY <1>3, TotalIs
<1>5. FoundIn = [n \in 0 .. Total |-> FoundAt(FoundIn, n)]
  BY <1>4 DEF P, FoundIn
<1> QED
  BY <1>5

\* What one more function that is asked adds to Found.
LEMMA FoundNext ==
  ASSUME at \in 0 .. Total - 1, at' = at + 1, there' = there
  PROVE  Found' = IF Triple(at) \in there THEN Append(Found, Triple(at)) ELSE Found
<1>1. FoundIn' = FoundIn
  BY DEF FoundIn, FoundAt
<1>2. Found' = FoundIn[at + 1]
  <2>1. Found' = FoundIn'[at']
    BY DEF Found, FoundIn, FoundAt, Total
  <2> QED
    BY <1>1, <2>1
<1>3. FoundIn[at + 1] = FoundAt(FoundIn, at + 1) /\ (at + 1) - 1 = at /\ at + 1 # 0
  BY FoundExists, TotalIs
<1> QED
  BY <1>2, <1>3, FoundIs DEF FoundAt

(***************************************************************************)
(* The chain while the bus is scanned.                                     *)
(***************************************************************************)
Hdrs(d) == {Base, Devices, Drivers} \cup {Dev(k) : k \in 1 .. d}

LEMMA HeadersLink ==
  ASSUME NEW mem \in [Memory -> Nat], NEW d \in Nat, d <= Room + 2, Headers(mem, d)
  PROVE  /\ Links(mem, Dev(d + 1), Hdrs(d))
         /\ \A a \in Hdrs(d) : a # Drivers \/ d # Room + 2 => InUse(mem, a)
<1>1. /\ Base \in Nat /\ DescSize \in Nat /\ DescSize > 0 /\ Room \in Nat /\ Room > 0
      /\ DrvRoom \in Nat /\ DrvRoom >= 4
  BY Constants
<1>2. /\ Devices = Base + DescSize + 3 /\ Drivers = Devices + Room + 3
      /\ Devices \in Nat /\ Drivers \in Nat
      /\ \A k \in Int : Dev(k) \in Int /\ Dev(k) = Drivers + DrvRoom + 3 + 7 * (k - 1)
  <2>1. ASSUME NEW k \in Int PROVE Dev(k) \in Int /\ Dev(k) = Drivers + DrvRoom + 3 + 7 * (k - 1)
    BY Layout
  <2> QED
    BY <2>1, Layout
<1>3. /\ SizeAt(mem, Base) = DescSize /\ NextHeader(mem, Base) = Devices
      /\ SizeAt(mem, Devices) = Room /\ NextHeader(mem, Devices) = Drivers
      /\ SizeAt(mem, Drivers) = DrvRoom /\ NextHeader(mem, Drivers) = Dev(1)
      /\ \A k \in 1 .. d : SizeAt(mem, Dev(k)) = 4 /\ NextHeader(mem, Dev(k)) = Dev(k + 1)
  BY <1>1, <1>2 DEF Headers, SizeAt, NextHeader, HDR, PAD
<1>4. \A a \in Hdrs(d) : a # Drivers \/ d # Room + 2 => InUse(mem, a)
  BY OneIsInUse DEF Headers, Hdrs
<1>5. \A a \in Hdrs(d) : a \in Nat /\ Base <= a /\ a < Dev(d + 1)
  BY <1>1, <1>2 DEF Hdrs
<1>6. \A a \in Hdrs(d) : SizeAt(mem, a) > 0
  BY <1>1, <1>3 DEF Hdrs
<1>7. ASSUME NEW a \in Hdrs(d) PROVE NextHeader(mem, a) = Dev(d + 1) \/ NextHeader(mem, a) \in Hdrs(d)
  <2>1. CASE a \in {Base, Devices}
    BY <1>3, <2>1 DEF Hdrs
  <2>2. CASE a = Drivers
    <3>1. d = 0 \/ 1 \in 1 .. d
      OBVIOUS
    <3> QED
      BY <1>3, <2>2, <3>1 DEF Hdrs
  <2>3. CASE a \in {Dev(k) : k \in 1 .. d}
    <3>1. PICK k \in 1 .. d : a = Dev(k)
      BY <2>3
    <3>2. k = d \/ k + 1 \in 1 .. d
      OBVIOUS
    <3> QED
      BY <1>3, <3>1, <3>2 DEF Hdrs
  <2> QED
    BY <2>1, <2>2, <2>3 DEF Hdrs
<1>8. ASSUME NEW a \in Hdrs(d), NEW b \in Hdrs(d), a < b PROVE NextHeader(mem, a) <= b
  <2>1. CASE b \in {Base, Devices, Drivers}
    <3>1. Base < Devices /\ Devices < Drivers /\ Drivers < Dev(1) /\ Dev(1) \in Nat
      BY <1>1, <1>2
    <3>2. \A k \in 1 .. d : Dev(k) >= Dev(1) /\ Dev(k) \in Nat
      <4>1. ASSUME NEW k \in 1 .. d PROVE Dev(k) >= Dev(1) /\ Dev(k) \in Nat
        <5>1. Dev(k) = Drivers + DrvRoom + 3 + 7 * (k - 1) /\ Dev(1) = Drivers + DrvRoom + 3 + 7 * (1 - 1)
          BY <1>2
        <5> QED
          BY <1>1, <1>2, <5>1
      <4> QED
        BY <4>1
    <3>3. a \in {Base, Devices}
      BY <1>1, <1>2, <1>8, <2>1, <3>1, <3>2 DEF Hdrs
    <3>4. CASE a = Base
      BY <1>1, <1>2, <1>3, <1>8, <2>1, <3>1, <3>4
    <3>5. CASE a = Devices
      BY <1>1, <1>2, <1>3, <1>8, <2>1, <3>1, <3>5
    <3> QED
      BY <3>3, <3>4, <3>5
  <2>2. CASE b \in {Dev(k) : k \in 1 .. d}
    <3>1. PICK k \in 1 .. d : b = Dev(k)
      BY <2>2
    <3>0. /\ Dev(k) \in Nat /\ Dev(k) = Drivers + DrvRoom + 3 + 7 * (k - 1)
          /\ Dev(1) \in Nat /\ Dev(1) = Drivers + DrvRoom + 3 + 7 * (1 - 1) /\ k \in Nat /\ k >= 1
      <4>1. k \in Int /\ k >= 1 /\ 1 \in Int
        BY <3>1
      <4> HIDE <3>1
      <4>2. Dev(k) \in Int /\ Dev(k) = Drivers + DrvRoom + 3 + 7 * (k - 1) /\ Dev(1) \in Int /\ Dev(1) = Drivers + DrvRoom + 3 + 7 * (1 - 1)
        BY <1>2, <4>1
      <4> QED
        BY <1>1, <1>2, <4>1, <4>2
    <3>2. CASE a \in {Base, Devices, Drivers}
      <4>1. NextHeader(mem, a) \in {Devices, Drivers, Dev(1)}
        BY <1>3, <3>2
      <4>2. Devices <= Dev(k) /\ Drivers <= Dev(k) /\ Dev(1) <= Dev(k)
        BY <1>1, <1>2, <3>0
      <4> QED
        BY <3>1, <4>1, <4>2
    <3>3. CASE a \in {Dev(m) : m \in 1 .. d}
      <4>1. PICK m \in 1 .. d : a = Dev(m)
        BY <3>3
      <4>2. /\ Dev(m) \in Int /\ Dev(m) = Drivers + DrvRoom + 3 + 7 * (m - 1)
            /\ Dev(m + 1) \in Int /\ Dev(m + 1) = Drivers + DrvRoom + 3 + 7 * ((m + 1) - 1)
            /\ m \in Int /\ m + 1 \in Int
        BY <1>2
      <4>3. Dev(m) < Dev(k)
        BY <1>8, <3>1, <4>1
      <4>4. Dev(m + 1) <= Dev(k)
        BY <1>1, <1>2, <3>0, <4>2, <4>3
      <4> QED
        BY <1>3, <3>1, <4>1, <4>4
    <3> QED
      BY <3>2, <3>3 DEF Hdrs
  <2> QED
    BY <2>1, <2>2 DEF Hdrs
<1>9. Base \in Hdrs(d) /\ Hdrs(d) \subseteq Nat
  BY <1>5 DEF Hdrs
<1> QED
  BY <1>4, <1>5, <1>6, <1>7, <1>8, <1>9 DEF Links

\* malloc appends, but for the one request that finds an address in the status
\* of the block of pci_drivers, and takes it.
LEMMA WalkInScan ==
  ASSUME NEW mem \in [Memory -> Nat], NEW last \in 0 .. Top, NEW n \in Nat, NEW d \in Nat,
         Headers(mem, d),
         IF d <= Room + 2 THEN last = Dev(d + 1) ELSE last >= Dev(Room + 3)
  PROVE  \/ Walk(mem, last, n) = last
         \/ Walk(mem, last, n) = Drivers /\ d = Room + 2 /\ DrvRoom >= n
<1>1. CASE d <= Room + 2
  <2>1. Links(mem, last, Hdrs(d)) /\ \A a \in Hdrs(d) : a # Drivers \/ d # Room + 2 => InUse(mem, a)
    BY <1>1, HeadersLink
  <2>2. \/ Walk(mem, last, n) = last
        \/ Walk(mem, last, n) \in Hdrs(d) /\ Fits(mem, Walk(mem, last, n), n)
    BY <2>1, WalkOnLinks
  <2>3. SizeAt(mem, Drivers) = DrvRoom
    BY <1>1, Constants DEF SizeAt, Headers
  <2> QED
    BY <2>1, <2>2, <2>3 DEF Fits
<1>2. CASE d > Room + 2
  <2> DEFINE walk == WalkFrom(mem, last, n)
  <2>1. \A a \in Nat : walk[a] = WalkAt(walk, mem, last, n, a)
    BY WalkExists
  <2> HIDE DEF walk
  <2>2. /\ Base \in Nat /\ DescSize \in Nat /\ DescSize > 0 /\ Room \in Nat /\ Room > 0
        /\ DrvRoom \in Nat /\ Base <= Top /\ Top <= 2 * Base
    BY Constants
  <2>3. /\ Devices = Base + DescSize + 3 /\ Drivers = Devices + Room + 3
        /\ Devices \in Nat /\ Drivers \in Nat
        /\ Dev(Room + 3) = Drivers + DrvRoom + 3 + 7 * (Room + 2)
    BY <2>2, Layout
  <2>4. /\ InUse(mem, Base) /\ InUse(mem, Devices) /\ InUse(mem, Drivers)
    BY <1>2, <2>2, OneIsInUse DEF Headers
  <2>5. /\ SizeAt(mem, Base) = DescSize /\ NextHeader(mem, Base) = Devices
        /\ SizeAt(mem, Devices) = Room /\ NextHeader(mem, Devices) = Drivers
    BY <2>2, <2>3 DEF Headers, SizeAt, NextHeader, HDR, PAD
  <2>6. SizeAt(mem, Drivers) \in Nat /\ SizeAt(mem, Drivers) >= Base /\ Drivers < last
    <3>1. Drivers < last
      BY <1>2, <2>2, <2>3
    <3>2. SizeAt(mem, Drivers) \in Nat
      BY <2>3, <3>1, NextIsNext
    <3>3. mem[Drivers + 1] >= Base
      BY <1>2, <2>2 DEF Headers
    <3> QED
      BY <3>1, <3>2, <3>3 DEF SizeAt
  <2>7. walk[Base] = walk[Devices]
    BY <2>1, <2>2, <2>3, <2>4, <2>5, <2>6 DEF WalkAt
  <2>8. walk[Devices] = walk[Drivers]
    BY <2>1, <2>2, <2>3, <2>4, <2>5, <2>6 DEF WalkAt
  <2>9. walk[Drivers] = last
    <3>0. NextHeader(mem, Drivers) = Drivers + SizeAt(mem, Drivers) + 3
      BY <2>3, <2>6 DEF NextHeader, HDR, PAD
    <3>1. NextHeader(mem, Drivers) >= last /\ NextHeader(mem, Drivers) \in Nat
      <4>1. last \in Nat /\ last <= Top /\ Drivers >= Base
        BY <2>2, <2>3
      <4>2. \A p, q, r, s, t \in Nat : p <= t /\ t <= 2 * q /\ r >= q /\ s >= q => r + s + 3 >= p /\ r + s + 3 \in Nat
        OBVIOUS
      <4>3. Drivers \in Nat /\ Base \in Nat /\ Top \in Nat /\ Top <= 2 * Base
        BY <2>3, Constants
      <4> QED
        BY <2>6, <3>0, <4>1, <4>2, <4>3
    <3>2. walk[NextHeader(mem, Drivers)] = last
      BY <2>1, <3>1 DEF WalkAt
    <3>3. SizeAt(mem, Drivers) > 0
      BY <2>2, <2>6, WordsAssumption
    <3> QED
      BY <2>1, <2>3, <2>4, <2>6, <3>2, <3>3 DEF WalkAt
  <2> QED
    BY <2>7, <2>8, <2>9, WalkIs DEF walk
<1> QED
  BY <1>1, <1>2, Constants

(***************************************************************************)
(* The beginning: mm_init and the two tables.                              *)
(***************************************************************************)
LEMMA Begins ==
  ASSUME BootInit
  PROVE  BootIInv
<1> DEFINE zero == [w \in Memory |-> 0]
<1>1. /\ pciPc = "init" /\ there \in Answering /\ at = 0 /\ devs = 0 /\ img \in Images /\ tgaPc = "header"
      /\ data = NULL /\ local = [x |-> 0, y |-> 0, i |-> 0, m |-> 0] /\ stream = <<>>
      /\ word = Malloc(zero, Base, DescSize).mem /\ last_alloc = Malloc(zero, Base, DescSize).last
  BY DEF BootInit, MmInit, PciInit, TgaInit
<1>2. zero \in [Memory -> Nat] /\ Base \in Nat /\ DescSize \in Nat /\ Base \in 0 .. Top
  BY Constants
<1> HIDE DEF zero
<1>3. Walk(zero, Base, DescSize) = Base
  <2>1. WalkFrom(zero, Base, DescSize)[Base] = WalkAt(WalkFrom(zero, Base, DescSize), zero, Base, DescSize, Base)
    BY <1>2, WalkExists
  <2> QED
    BY <1>2, <2>1, WalkIs DEF WalkAt
<1>4. Base + 1 \in Memory /\ Base \in Memory
  <2>1. Cardinality(there) \in Nat
    BY <1>1, BusIsFinite
  <2>2. Pixels \in Nat /\ Dev(0 + 1) + Pixels + 5 <= Top
    BY <1>1, <2>1, BlocksFit
  <2>3. Dev(1) = Drivers + DrvRoom + 3 + 7 * (1 - 1) /\ Drivers = Devices + Room + 3 /\ Devices = Base + DescSize + 3
    BY Layout
  <2> QED
    BY <2>2, <2>3, Constants DEF Memory
<1>5. /\ word \in [Memory -> Nat] /\ word[Base] = 1 /\ word[Base + 1] = DescSize
      /\ last_alloc = Base + DescSize + HDR + PAD
  <2>1. LET m == Malloc(zero, Base, DescSize) IN
         /\ m.last = IF Base = Base THEN Base + DescSize + HDR + PAD ELSE Base
         /\ m.mem \in [Memory -> Nat]
         /\ \A x \in Memory : m.mem[x] = IF x \in Base + HDR .. Base + HDR + DescSize - 1 THEN 0
                                         ELSE IF x = Base THEN 1
                                         ELSE IF x = Base + 1 /\ Base = Base THEN DescSize ELSE zero[x]
    BY <1>2, <1>3, MallocIs
  <2>2. Base \notin Base + HDR .. Base + HDR + DescSize - 1 /\ Base + 1 \notin Base + HDR .. Base + HDR + DescSize - 1
        /\ Base + 1 # Base
    BY Constants DEF HDR
  <2> QED
    BY <1>1, <1>4, <2>1, <2>2
<1>6. last_alloc = Devices /\ Devices \in Nat
  BY <1>5, Constants DEF Devices, HDR, PAD
<1>7. Found = <<>>
  <2>1. at \in 0 .. Total
    BY <1>1, TotalIs
  <2> QED
    BY <1>1, <2>1, FoundIs, FoundExists DEF FoundAt
<1>8. Listed
  <2>1. {Triple(n) : n \in 0 .. at - 1} \cap there = {}
    BY <1>1
  <2> QED
    <3>1. Cardinality({}) = 0
      BY FS_EmptySet
    <3>2. <<>> \in Seq(there) /\ Len(<<>>) = 0
      OBVIOUS
    <3> QED
      BY <1>1, <1>7, <2>1, <3>1, <3>2 DEF Listed
<1>9. Types
  BY <1>1, <1>5, <1>6, TotalIs DEF Types, NULL
<1> QED
  BY <1>1, <1>5, <1>6, <1>8, <1>9 DEF BootIInv, Scanning, Outlasts, Decoding, PictureIsTheFile, NULL

LEMMA TablesFit ==
  ASSUME Types
  PROVE  /\ Dev(1) < Top /\ Dev(1) \in Nat
         /\ Dev(1) = Drivers + DrvRoom + 3 /\ Drivers = Devices + Room + 3 /\ Devices = Base + DescSize + 3
<1>1. there \in Answering /\ img \in Images
  BY DEF Types
<1>2. Cardinality(there) \in Nat
  BY <1>1, BusIsFinite
<1>3. Pixels \in Nat /\ Dev(0 + 1) + Pixels + 5 <= Top
  BY <1>1, <1>2, BlocksFit
<1>4. Dev(1) = Drivers + DrvRoom + 3 + 7 * (1 - 1) /\ Drivers = Devices + Room + 3 /\ Devices = Base + DescSize + 3
  BY Layout
<1> QED
  BY <1>3, <1>4, Constants

LEMMA TablesAllocated ==
  ASSUME BootIInv, PciInitTables
  PROVE  /\ word' \in [Memory -> Nat] /\ last_alloc' = Dev(1)
         /\ pci_devices' = Devices + HDR
         /\ Headers(word', 0)
<1>0. /\ Base \in Nat /\ Base >= 2 /\ DescSize \in Nat /\ DescSize > 0 /\ Room \in Nat /\ Room > 0
      /\ DrvRoom \in Nat /\ DrvRoom >= 4 /\ Top \in Nat
      /\ Dev(1) = Drivers + DrvRoom + 3 /\ Drivers = Devices + Room + 3 /\ Devices = Base + DescSize + 3
      /\ Devices \in Nat /\ Drivers \in Nat /\ Dev(1) \in Nat /\ Dev(1) < Top
  <2>1. Types
    BY DEF BootIInv
  <2> QED
    BY <2>1, Constants, TablesFit
<1>1. /\ pciPc = "init" /\ word \in [Memory -> Nat]
      /\ last_alloc = Devices /\ word[Base] = 1 /\ word[Base + 1] = DescSize
  BY DEF BootIInv, Types, Scanning, PciInitTables
<1> DEFINE one == Malloc(word, Devices, Room)
           two == Malloc(one.mem, one.last, DrvRoom)
<1>2. /\ pci_devices' = one.ptr /\ word' = two.mem /\ last_alloc' = two.last
  BY <1>1 DEF PciInitTables
<1>3. Links(word, Devices, {Base})
  BY <1>0, <1>1 DEF Links, SizeAt, NextHeader, HDR, PAD
<1>4. Walk(word, Devices, Room) = Devices
  <2>1. \/ Walk(word, Devices, Room) = Devices
        \/ Walk(word, Devices, Room) \in {Base} /\ Fits(word, Walk(word, Devices, Room), Room)
    BY <1>0, <1>1, <1>3, WalkOnLinks
  <2> QED
    BY <1>1, <2>1, OneIsInUse DEF Fits
<1>5. /\ one.ptr = Devices + HDR /\ one.last = Drivers /\ one.mem \in [Memory -> Nat]
      /\ one.mem[Base] = 1 /\ one.mem[Base + 1] = DescSize
      /\ one.mem[Devices] = 1 /\ one.mem[Devices + 1] = Room
  <2>1. /\ one.ptr = Devices + HDR
        /\ one.last = IF Devices = Devices THEN Devices + Room + HDR + PAD ELSE Devices
        /\ one.mem \in [Memory -> Nat]
        /\ \A x \in Memory : one.mem[x] = IF x \in Devices + HDR .. Devices + HDR + Room - 1 THEN 0
                                         ELSE IF x = Devices THEN 1
                                         ELSE IF x = Devices + 1 /\ Devices = Devices THEN Room ELSE word[x]
    BY <1>0, <1>1, <1>4, MallocIs
  <2> HIDE DEF one
  <2>2. /\ {Base, Base + 1, Devices, Devices + 1} \subseteq Memory
        /\ \A x \in {Base, Base + 1, Devices, Devices + 1} : x \notin Devices + HDR .. Devices + HDR + Room - 1
        /\ Base # Devices /\ Base + 1 # Devices /\ Base # Devices + 1 /\ Base + 1 # Devices + 1 /\ Devices + 1 # Devices
    BY <1>0 DEF Memory, HDR
  <2>3. Drivers = Devices + Room + HDR + PAD
    BY <1>0 DEF HDR, PAD
  <2> QED
    BY <1>1, <2>1, <2>2, <2>3
<1>6. /\ word' = Malloc(one.mem, Drivers, DrvRoom).mem /\ last_alloc' = Malloc(one.mem, Drivers, DrvRoom).last
  BY <1>2, <1>5
<1> DEFINE m == one.mem
<1>7. m \in [Memory -> Nat] /\ m[Base] = 1 /\ m[Base + 1] = DescSize /\ m[Devices] = 1 /\ m[Devices + 1] = Room
  BY <1>5
<1>8. word' = Malloc(m, Drivers, DrvRoom).mem /\ last_alloc' = Malloc(m, Drivers, DrvRoom).last
  BY <1>6
<1>9. pci_devices' = Devices + HDR
  BY <1>2, <1>5
<1> HIDE DEF m, one, two
<1>10. Links(m, Drivers, {Base, Devices})
  <2>1. /\ SizeAt(m, Base) = DescSize /\ NextHeader(m, Base) = Devices
        /\ SizeAt(m, Devices) = Room /\ NextHeader(m, Devices) = Drivers
    BY <1>0, <1>7 DEF SizeAt, NextHeader, HDR, PAD
  <2> QED
    BY <1>0, <2>1 DEF Links
<1>11. Walk(m, Drivers, DrvRoom) = Drivers
  <2>1. \/ Walk(m, Drivers, DrvRoom) = Drivers
        \/ Walk(m, Drivers, DrvRoom) \in {Base, Devices} /\ Fits(m, Walk(m, Drivers, DrvRoom), DrvRoom)
    BY <1>0, <1>7, <1>10, WalkOnLinks
  <2> QED
    BY <1>7, <2>1, OneIsInUse DEF Fits
<1>12. /\ last_alloc' = Drivers + DrvRoom + HDR + PAD
       /\ word' \in [Memory -> Nat]
       /\ \A x \in Memory : word'[x] = IF x \in Drivers + HDR .. Drivers + HDR + DrvRoom - 1 THEN 0
                                       ELSE IF x = Drivers THEN 1
                                       ELSE IF x = Drivers + 1 /\ Drivers = Drivers THEN DrvRoom ELSE m[x]
  <2>1. LET b == Malloc(m, Drivers, DrvRoom) IN
        /\ b.last = IF Drivers = Drivers THEN Drivers + DrvRoom + HDR + PAD ELSE Drivers
        /\ b.mem \in [Memory -> Nat]
        /\ \A x \in Memory : b.mem[x] = IF x \in Drivers + HDR .. Drivers + HDR + DrvRoom - 1 THEN 0
                                        ELSE IF x = Drivers THEN 1
                                        ELSE IF x = Drivers + 1 /\ Drivers = Drivers THEN DrvRoom ELSE m[x]
    BY <1>0, <1>7, <1>11, MallocIs, SMTT(30)
  <2> QED
    BY <1>8, <2>1
<1>13. /\ word'[Base] = 1 /\ word'[Base + 1] = DescSize /\ word'[Devices] = 1 /\ word'[Devices + 1] = Room
       /\ word'[Drivers] = 1 /\ word'[Drivers + 1] = DrvRoom
  <2>1. {Base, Base + 1, Devices, Devices + 1, Drivers, Drivers + 1} \subseteq Memory
    BY <1>0 DEF Memory
  <2>2. /\ \A x \in {Base, Base + 1, Devices, Devices + 1, Drivers, Drivers + 1} :
             x \notin Drivers + HDR .. Drivers + HDR + DrvRoom - 1
        /\ \A x \in {Base, Base + 1, Devices, Devices + 1} : x # Drivers /\ x # Drivers + 1
        /\ Drivers # Drivers + 1
    BY <1>0 DEF HDR
  <2> QED
    BY <1>7, <1>12, <2>1, <2>2
<1>14. InUse(word', Drivers)
  BY <1>13, OneIsInUse
<1>15. 0 # Room + 2 /\ 0 <= Room + 2 /\ 1 .. 0 = {}
  BY <1>0
<1>16. Headers(word', 0)
  BY <1>13, <1>14, <1>15 DEF Headers
<1>17. last_alloc' = Dev(1)
  BY <1>0, <1>12 DEF HDR, PAD
<1> QED
  BY <1>9, <1>12, <1>16, <1>17

LEMMA AppendIs ==
  ASSUME NEW S, NEW s \in Seq(S), NEW e \in S
  PROVE  /\ Append(s, e) \in Seq(S) /\ Len(Append(s, e)) = Len(s) + 1
         /\ Append(s, e)[Len(s) + 1] = e
         /\ \A k \in 1 .. Len(s) : Append(s, e)[k] = s[k]
OBVIOUS

LEMMA FoundSame ==
  ASSUME at' = at, there' = there
  PROVE  Found' = Found
BY DEF Found

\* The image is not touched before the scan is over.
LEMMA ImageWaits ==
  ASSUME BootIInv, pciPc # "done", UNCHANGED tgaVars
  PROVE  /\ Outlasts' /\ Decoding' /\ PictureIsTheFile' /\ tgaPc' = "header"
         /\ img' = img /\ data' = data /\ local' = local /\ stream' = stream
         /\ data = NULL /\ stream = <<>>
<1>1. img' = img /\ tgaPc' = tgaPc /\ data' = data /\ local' = local /\ stream' = stream
  BY DEF tgaVars
<1>2. tgaPc = "header" /\ data = NULL /\ stream = <<>> /\ local = [x |-> 0, y |-> 0, i |-> 0, m |-> 0]
  BY DEF BootIInv, Scanning, Decoding
<1>3. Outlasts'
  BY <1>1, <1>2 DEF Outlasts
<1>4. Decoding'
  BY <1>1, <1>2 DEF Decoding, NULL
<1>5. PictureIsTheFile'
  BY <1>1, <1>2 DEF PictureIsTheFile, NULL
<1> QED
  BY <1>1, <1>2, <1>3, <1>4, <1>5

LEMMA TypesKept ==
  ASSUME BootIInv, word' \in [Memory -> Nat], last_alloc' \in Nat,
         pciPc' \in {"init", "probe", "dump", "done"}, there' = there, at' \in 0 .. Total, devs' \in Nat,
         img' = img, tgaPc' = tgaPc, data' = data, local' = local, stream' = stream
  PROVE  Types'
<1>1. Types
  BY DEF BootIInv
<1>2. Memory' = Memory /\ Total' = Total /\ Pixels' = Pixels
  BY DEF Memory, Total, Pixels
<1> QED
  BY <1>1, <1>2 DEF Types, NULL

LEMMA TablesStep ==
  ASSUME BootIInv, PciInitTables, UNCHANGED tgaVars
  PROVE  BootIInv'
<1>1. /\ word' \in [Memory -> Nat] /\ last_alloc' = Dev(1) /\ pci_devices' = Devices + HDR /\ Headers(word', 0)
  BY TablesAllocated
<1>2. pciPc = "init" /\ pciPc' = "probe" /\ devs' = 0 /\ there' = there /\ at' = at /\ dumped' = dumped
  BY DEF PciInitTables
<1>3. /\ Outlasts' /\ Decoding' /\ PictureIsTheFile' /\ tgaPc' = "header"
      /\ img' = img /\ data' = data /\ local' = local /\ stream' = stream
  BY <1>2, ImageWaits
<1>4. at = 0 /\ tgaPc = "header" /\ at \in 0 .. Total
  BY <1>2 DEF BootIInv, Scanning, Types
<1>5. Found = <<>> /\ Found' = Found
  BY <1>2, <1>4, FoundIs, FoundExists, FoundSame DEF FoundAt
<1>6. Listed'
  <2>1. {Triple(n) : n \in 0 .. at' - 1} \cap there = {}
    BY <1>2, <1>4
  <2>2. ({Triple(n) : n \in 0 .. at - 1} \cap there)' = {}
    BY <1>2, <2>1 DEF Triple
  <2>3. Cardinality({}) = 0
    BY FS_EmptySet
  <2>4. <<>> \in Seq(there) /\ Len(<<>>) = 0
    OBVIOUS
  <2> QED
    BY <1>2, <1>5, <2>2, <2>3, <2>4 DEF Listed
<1>7. Types'
  <2>1. Dev(1) \in Nat
    BY TablesFit DEF BootIInv
  <2> QED
    BY <1>1, <1>2, <1>3, <1>4, <2>1, TypesKept
<1>8. Scanning'
  <2>3. Dev(devs' + 1) = Dev(1) /\ devs' <= Room + 2 /\ Headers(word', devs') /\ Entries(word', devs')
    BY <1>1, <1>2, Constants DEF Entries
  <2>4. Dev(devs + 1)' = Dev(devs' + 1) /\ Dev(Room + 3)' = Dev(Room + 3) /\ Devices' = Devices
    BY DEF Dev, Devices, Drivers
  <2>5. Headers(word, devs)' /\ Entries(word, devs)'
    <3>1. Headers(word, devs)' = Headers(word', devs')
      BY DEF Headers, Devices, Drivers, Dev, InUse
    <3> QED
      BY <1>2, <2>3, <3>1 DEF Entries
  <2> QED
    BY <1>1, <1>2, <1>3, <2>3, <2>4, <2>5 DEF Scanning
<1> QED
  BY <1>3, <1>6, <1>7, <1>8 DEF BootIInv

(***************************************************************************)
(* A function that is asked.                                               *)
(***************************************************************************)
LEMMA ListedNext ==
  ASSUME BootIInv, Probe
  PROVE  /\ at \in 0 .. Total - 1 /\ at' \in 0 .. Total /\ there' = there
         /\ Triple(at) \in Functions3
         /\ IF Triple(at) \in there
            THEN /\ Found' = Append(Found, Triple(at)) /\ devs' = devs + 1
                 /\ devs + 1 <= Cardinality(there)
            ELSE Found' = Found /\ devs' = devs
         /\ Listed'
<1>1. at \in 0 .. Total /\ there \in Answering /\ devs \in Nat
  BY DEF BootIInv, Types
<1>2. at \in 0 .. Total - 1 /\ at' = at + 1 /\ there' = there /\ at' \in 0 .. Total
  BY <1>1, TotalIs DEF Probe, Total
<1>3. Triple(at) \in Functions3
  BY <1>2, TripleIs
<1>4. Found' = IF Triple(at) \in there THEN Append(Found, Triple(at)) ELSE Found
  BY <1>2, FoundNext
<1>5. devs' = IF Triple(at) \in there THEN devs + 1 ELSE devs
  <2>1. /\ getVendorID(Triple(at)) = IF Triple(at) \in there THEN Vendor(Triple(at)) ELSE Nobody
        /\ Vendor(Triple(at)) # Nobody
    BY <1>1, <1>3, BusAnswers
  <2>2. devs' = IF getVendorID(Triple(at)) = Nobody THEN devs ELSE devs + 1
    BY DEF Probe
  <2> QED
    BY <2>1, <2>2
<1> DEFINE Old == {Triple(n) : n \in 0 .. at - 1} \cap there
           New == {Triple(n) : n \in 0 .. at} \cap there
<1>6. New = IF Triple(at) \in there THEN Old \cup {Triple(at)} ELSE Old
  <2>1. 0 .. at = (0 .. at - 1) \cup {at}
    BY <1>2
  <2>2. {Triple(n) : n \in 0 .. at} = {Triple(n) : n \in 0 .. at - 1} \cup {Triple(at)}
    BY <2>1
  <2> QED
    BY <2>2
<1>7. Triple(at) \notin Old
  <2> SUFFICES ASSUME NEW n \in 0 .. at - 1, Triple(n) = Triple(at) PROVE FALSE
    OBVIOUS
  <2>1. n \in 0 .. Total - 1 /\ at \in 0 .. Total - 1 /\ n # at
    BY <1>2, TotalIs
  <2> QED
    BY <2>1, DistinctTriples
<1>8. /\ devs = Len(Found) /\ Found \in Seq(there) /\ devs = Cardinality(Old)
  BY DEF BootIInv, Listed
<1>9. IsFiniteSet(there) /\ Old \subseteq there /\ New \subseteq there
  BY <1>1, BusIsFinite
<1>10. New = ({Triple(n) : n \in 0 .. at - 1} \cap there)'
  <2>1. ({Triple(n) : n \in 0 .. at - 1} \cap there)' = {Triple(n) : n \in 0 .. at' - 1} \cap there'
    BY DEF Triple
  <2>2. at' - 1 = at
    BY <1>2
  <2> QED
    BY <1>2, <2>1, <2>2
<1> HIDE DEF Old, New
<1>11. CASE Triple(at) \in there
  <2>1. Cardinality(New) = devs + 1
    <3>1. IsFiniteSet(Old)
      BY <1>9, FS_Subset
    <3> QED
      BY <1>6, <1>7, <1>8, <1>11, <3>1, FS_AddElement
  <2>2. devs + 1 <= Cardinality(there)
    BY <1>9, <2>1, FS_Subset
  <2>3. Found' \in Seq(there) /\ Len(Found') = devs + 1
    <3>1. Found' = Append(Found, Triple(at)) /\ Found \in Seq(there) /\ Len(Found) = devs
      BY <1>4, <1>8, <1>11
    <3> QED
      BY <1>11, <3>1, AppendIs
  <2>4. Listed'
    BY <1>2, <1>5, <1>10, <1>11, <2>1, <2>3 DEF Listed
  <2> QED
    BY <1>2, <1>3, <1>4, <1>5, <1>11, <2>2, <2>4
<1>12. CASE Triple(at) \notin there
  <2>1. Listed'
    BY <1>2, <1>4, <1>5, <1>6, <1>8, <1>10, <1>12 DEF Listed
  <2> QED
    BY <1>2, <1>3, <1>4, <1>5, <1>12, <2>1
<1> QED
  BY <1>11, <1>12

\* The heap while the bus is scanned.
LEMMA ScanFacts ==
  ASSUME BootIInv, pciPc # "init", tgaPc = "header"
  PROVE  /\ word \in [Memory -> Nat] /\ last_alloc \in Nat /\ devs \in Nat
         /\ there \in Answering /\ img \in Images /\ devs <= Cardinality(there)
         /\ pci_devices = Devices + 2 /\ Headers(word, devs) /\ Entries(word, devs)
         /\ IF devs <= Room + 2 THEN last_alloc = Dev(devs + 1)
            ELSE last_alloc >= Dev(Room + 3) /\ last_alloc <= Dev(devs + 1)
         /\ Dev(1) = Drivers + DrvRoom + 3 /\ Drivers = Devices + Room + 3 /\ Devices = Base + DescSize + 3
         /\ Devices \in Nat /\ Drivers \in Nat /\ Dev(1) \in Nat /\ Dev(devs + 1) \in Nat
         /\ Dev(devs + 1) = Dev(1) + 7 * devs
         /\ Dev(Room + 3) = Dev(1) + 7 * (Room + 2)
         /\ Pixels \in Nat /\ Dev(devs + 1) + Pixels + 5 <= Top
         /\ last_alloc <= Dev(devs + 1) /\ last_alloc >= Dev(1) /\ last_alloc \in 0 .. Top
<1>1. /\ word \in [Memory -> Nat] /\ last_alloc \in Nat /\ devs \in Nat /\ there \in Answering /\ img \in Images
  BY DEF BootIInv, Types
<1>2. devs <= Cardinality(there)
  <2>1. IsFiniteSet(there)
    BY <1>1, BusIsFinite
  <2>2. devs = Cardinality({Triple(n) : n \in 0 .. at - 1} \cap there)
    BY DEF BootIInv, Listed
  <2> QED
    BY <2>1, <2>2, FS_Subset
<1>3. /\ pci_devices = Devices + 2 /\ Headers(word, devs) /\ Entries(word, devs)
      /\ IF devs <= Room + 2 THEN last_alloc = Dev(devs + 1)
         ELSE last_alloc \in Dev(Room + 3) .. Dev(devs + 1)
  BY DEF BootIInv, Scanning, HDR
<1>4. Pixels \in Nat /\ Dev(devs + 1) + Pixels + 5 <= Top
  BY <1>1, <1>2, BlocksFit
<1>5. /\ Dev(1) = Drivers + DrvRoom + 3 /\ Drivers = Devices + Room + 3 /\ Devices = Base + DescSize + 3
  BY TablesFit DEF BootIInv
<1>6. /\ Devices \in Nat /\ Drivers \in Nat /\ Dev(1) \in Nat
  BY <1>5, Constants
<1>7. /\ Dev(devs + 1) = Dev(1) + 7 * devs /\ Dev(Room + 3) = Dev(1) + 7 * (Room + 2)
  <2>1. Dev(devs + 1) = Drivers + DrvRoom + 3 + 7 * ((devs + 1) - 1)
    BY <1>1, Layout
  <2>2. Dev(Room + 3) = Drivers + DrvRoom + 3 + 7 * ((Room + 3) - 1)
    BY Constants, Layout
  <2> QED
    BY <1>1, <1>5, <2>1, <2>2, Constants
<1>8. Dev(devs + 1) \in Nat /\ Dev(Room + 3) \in Nat
  BY <1>1, <1>6, <1>7, Constants
<1>9. last_alloc <= Dev(devs + 1) /\ last_alloc >= Dev(1)
      /\ (devs > Room + 2 => last_alloc >= Dev(Room + 3))
  BY <1>1, <1>3, <1>6, <1>7, <1>8, Constants
<1> QED
  BY <1>1, <1>2, <1>3, <1>4, <1>5, <1>6, <1>7, <1>8, <1>9, Constants

LEMMA ExceptIs ==
  ASSUME NEW g \in [Memory -> Nat], NEW z, NEW e \in Nat
  PROVE  /\ [g EXCEPT ![z] = e] \in [Memory -> Nat]
         /\ \A x \in Memory : [g EXCEPT ![z] = e][x] = IF x = z THEN e ELSE g[x]
OBVIOUS

\* Where the device's data go and what else a device writes.
LEMMA ProbeIs ==
  ASSUME BootIInv, Probe, Triple(at) \in there
  PROVE  \E a \in Nat :
           /\ a = Walk(word, last_alloc, 4)
           /\ a = last_alloc \/ (a = Drivers /\ devs = Room + 2)
           /\ last_alloc' = IF a = last_alloc THEN a + 7 ELSE last_alloc
           /\ word' \in [Memory -> Nat]
           /\ \A x \in Memory : x # Devices + 2 + devs /\ ~ (a <= x /\ x <= a + 5) => word'[x] = word[x]
           /\ Devices + 2 + devs \in Memory => word'[Devices + 2 + devs] = a + 2
           /\ a # Devices + 2 + devs => word'[a] = 1
           /\ a + 1 # Devices + 2 + devs => word'[a + 1] = IF a = last_alloc THEN 4 ELSE word[a + 1]
           /\ Devices + 2 + devs < a =>
                  DeviceAt(word', a + 2) = DeviceOf(Triple(at))
<1> DEFINE f == Triple(at)
           a == Walk(word, last_alloc, 4)
           m == Malloc(word, last_alloc, 4).mem
           z == Devices + 2 + devs
<1>1. pciPc = "probe" /\ tgaPc = "header" /\ f \in Functions3
  <2>1. pciPc = "probe"
    BY DEF Probe
  <2> QED
    BY <2>1, ListedNext DEF BootIInv, Scanning
<1>2. /\ word \in [Memory -> Nat] /\ last_alloc \in Nat /\ devs \in Nat
      /\ there \in Answering /\ img \in Images
      /\ pci_devices = Devices + 2 /\ Headers(word, devs)
      /\ IF devs <= Room + 2 THEN last_alloc = Dev(devs + 1) ELSE last_alloc >= Dev(Room + 3)
      /\ Dev(1) = Drivers + DrvRoom + 3 /\ Dev(1) \in Nat /\ Drivers \in Nat /\ Devices \in Nat
      /\ last_alloc \in 0 .. Top
      /\ last_alloc >= Dev(1)
  BY <1>1, ScanFacts
<1>2a. last_alloc + 5 \in Memory
  <2>1. /\ Dev(devs + 1) \in Nat /\ Dev(devs + 1) + Pixels + 5 <= Top /\ Pixels \in Nat
        /\ last_alloc <= Dev(devs + 1)
    BY <1>1, ScanFacts
  <2> QED
    BY <1>2, <2>1, Constants DEF Memory
<1>3. a = last_alloc \/ (a = Drivers /\ devs = Room + 2)
  BY <1>2, WalkInScan
<1>4. a \in Nat /\ a + 5 \in Memory
  <2> HIDE DEF a
  <2>1. CASE a = last_alloc
    BY <1>2, <1>2a, <2>1
  <2>2. CASE a = Drivers
    <3>1. DrvRoom \in Nat /\ Drivers + 5 <= last_alloc + 5 /\ Drivers + 5 \in Nat
      BY <1>2, Constants
    <3> QED
      BY <1>2, <1>2a, <2>2, <3>1, Constants DEF Memory
  <2> QED
    BY <1>3, <2>1, <2>2
<1>5. /\ Malloc(word, last_alloc, 4).ptr = a + 2
      /\ Malloc(word, last_alloc, 4).last = IF a = last_alloc THEN a + 7 ELSE last_alloc
      /\ m \in [Memory -> Nat]
      /\ \A x \in Memory : m[x] = IF x \in a + 2 .. a + 5 THEN 0
                                         ELSE IF x = a THEN 1
                                         ELSE IF x = a + 1 /\ a = last_alloc THEN 4 ELSE word[x]
  <2>1. LET mm == Malloc(word, last_alloc, 4) IN
        /\ mm.ptr = a + HDR
        /\ mm.last = IF a = last_alloc THEN a + 4 + HDR + PAD ELSE last_alloc
        /\ mm.mem \in [Memory -> Nat]
        /\ \A x \in Memory : mm.mem[x] = IF x \in a + HDR .. a + HDR + 4 - 1 THEN 0
                                         ELSE IF x = a THEN 1
                                         ELSE IF x = a + 1 /\ a = last_alloc THEN 4 ELSE word[x]
    BY <1>2, <1>4, MallocIs, SMTT(30)
  <2>2. a + HDR = a + 2 /\ a + HDR + 4 - 1 = a + 5 /\ a + 4 + HDR + PAD = a + 7
    BY <1>4 DEF HDR, PAD
  <2> QED
    BY <2>1, <2>2
<1>6. /\ getVendorID(f) = Vendor(f) /\ getDeviceID(f) = Device(f)
      /\ Vendor(f) \in Nat /\ Device(f) \in Nat /\ Vendor(f) # Nobody /\ f[3] \in Nat
  BY <1>1, <1>2, BusAnswers
<1>7. word' = [Filled(m, a + 2, f) EXCEPT ![Place] = a + 2]
      /\ last_alloc' = Malloc(word, last_alloc, 4).last
  BY <1>5, <1>6 DEF Probe
<1>8. Place = z /\ z \in Nat
  BY <1>2 DEF Place
<1>9. Filled(m, a + 2, f) = [m EXCEPT ![a + 2] = Vendor(f), ![a + 3] = Device(f), ![a + 4] = f[3], ![a + 5] = 0]
  <2>1. a + 2 + 1 = a + 3 /\ a + 2 + 2 = a + 4 /\ a + 2 + 3 = a + 5
    BY <1>4
  <2> QED
    BY <1>6, <2>1 DEF Filled
<1> DEFINE v == Vendor(f)
           w == Device(f)
           t == f[3]
           g == [m EXCEPT ![a + 2] = v, ![a + 3] = w, ![a + 4] = t, ![a + 5] = 0]
<1>10. word' = [g EXCEPT ![z] = a + 2]
  BY <1>7, <1>8, <1>9
<1>11. v \in Nat /\ w \in Nat /\ t \in Nat
  BY <1>6
<1>12. DeviceOf(f) = [vendor |-> v, device |-> w, func |-> t, driver |-> 0]
  BY DEF DeviceOf
<1> HIDE DEF f, v, w, t, a, m
<1>13. g \in [Memory -> Nat]
  BY <1>5, <1>11
<1>14. \A x \in Memory : g[x] = IF x = a + 5 THEN 0 ELSE IF x = a + 4 THEN t ELSE IF x = a + 3 THEN w
                                ELSE IF x = a + 2 THEN v ELSE m[x]
  BY <1>4, <1>5, <1>11
<1> HIDE DEF g
<1>15. word' \in [Memory -> Nat] /\ \A x \in Memory : word'[x] = IF x = z THEN a + 2 ELSE g[x]
  <2>1. a + 2 \in Nat
    BY <1>4
  <2> DEFINE b == a + 2
  <2> HIDE DEF b
  <2>2. b \in Nat /\ word' = [g EXCEPT ![z] = b]
    BY <1>10, <2>1 DEF b
  <2>3. word' \in [Memory -> Nat] /\ \A x \in Memory : word'[x] = IF x = z THEN b ELSE g[x]
    BY <1>13, <2>2, ExceptIs
  <2> QED
    BY <2>3 DEF b
<1> HIDE DEF z
<1>16. \A x \in Memory : x # z /\ ~ (a <= x /\ x <= a + 5) => word'[x] = word[x]
  <2> SUFFICES ASSUME NEW x \in Memory, x # z, ~ (a <= x /\ x <= a + 5) PROVE word'[x] = word[x]
    OBVIOUS
  <2>1. x \in Nat /\ x # a /\ x # a + 1 /\ x # a + 2 /\ x # a + 3 /\ x # a + 4 /\ x # a + 5 /\ x \notin a + 2 .. a + 5
    BY <1>4 DEF Memory
  <2> QED
    BY <1>5, <1>14, <1>15, <2>1
<1>17. {a, a + 1, a + 2, a + 3, a + 4, a + 5} \subseteq Memory
  <2>1. \A x \in Nat : x <= a + 5 => x \in Memory
    BY <1>4, Constants DEF Memory
  <2> QED
    BY <1>4, <2>1
<1>18. (a # z => word'[a] = 1) /\ (a + 1 # z => word'[a + 1] = IF a = last_alloc THEN 4 ELSE word[a + 1])
  <2>1. a \notin a + 2 .. a + 5 /\ a + 1 \notin a + 2 .. a + 5 /\ a # a + 1
        /\ \A x \in {a, a + 1} : x # a + 2 /\ x # a + 3 /\ x # a + 4 /\ x # a + 5
    BY <1>4
  <2> QED
    BY <1>5, <1>14, <1>15, <1>17, <2>1
<1>19. ASSUME z < a PROVE DeviceAt(word', a + 2) = DeviceOf(f)
  <2>1. a + 2 # z /\ a + 3 # z /\ a + 4 # z /\ a + 5 # z
    BY <1>4, <1>8, <1>19
  <2>2. g[a + 2] = v /\ g[a + 3] = w /\ g[a + 4] = t /\ g[a + 5] = 0
    BY <1>4, <1>14, <1>17
  <2>3. word'[a + 2] = v /\ word'[a + 3] = w /\ word'[a + 4] = t /\ word'[a + 5] = 0
    BY <1>15, <1>17, <2>1, <2>2
  <2>4. a + 2 + 1 = a + 3 /\ a + 2 + 2 = a + 4 /\ a + 2 + 3 = a + 5
    BY <1>4
  <2> QED
    BY <1>12, <1>17, <2>3, <2>4 DEF DeviceAt, ReadWord
<1>20. z \in Memory => word'[z] = a + 2
  BY <1>15
<1>21. last_alloc' = IF a = last_alloc THEN a + 7 ELSE last_alloc
  BY <1>5, <1>7
<1> QED
  BY <1>3, <1>4, <1>15, <1>16, <1>18, <1>19, <1>20, <1>21 DEF z, f, a

LEMMA HeadersIs ==
  ASSUME NEW mem, NEW d
  PROVE  Headers(mem, d) <=>
           /\ mem[Base] = 1 /\ mem[Base + 1] = DescSize
           /\ mem[Devices] = 1 /\ mem[Devices + 1] = Room
           /\ d # Room + 2 => InUse(mem, Drivers)
           /\ (d <= Room + 2 => mem[Drivers + 1] = DrvRoom)
           /\ (~ (d <= Room + 2) => mem[Drivers + 1] >= Base)
           /\ d <= Room + 2 => \A k \in 1 .. d : mem[Dev(k)] = 1 /\ mem[Dev(k) + 1] = 4
BY DEF Headers

LEMMA DevIs ==
  ASSUME Dev(1) \in Nat
  PROVE  \A k \in Nat : k >= 1 => Dev(k) = Dev(1) + 7 * (k - 1) /\ Dev(k) \in Nat /\ Dev(k) >= Dev(1) /\ Ptr(k) = Dev(k) + 2
<1> SUFFICES ASSUME NEW k \in Nat, k >= 1
             PROVE  Dev(k) = Dev(1) + 7 * (k - 1) /\ Dev(k) \in Nat /\ Dev(k) >= Dev(1) /\ Ptr(k) = Dev(k) + 2
  OBVIOUS
<1>1. Dev(k) = Drivers + DrvRoom + 3 + 7 * (k - 1) /\ Ptr(k) = Dev(k) + 2 /\ Drivers \in Nat
  <2>1. k \in Int
    OBVIOUS
  <2> QED
    BY <2>1, Layout
<1>2. Dev(1) = Drivers + DrvRoom + 3 + 7 * (1 - 1)
  BY Layout
<1> QED
  BY <1>1, <1>2, Constants

LEMMA HeadersNext ==
  ASSUME BootIInv, Probe, Triple(at) \in there
  PROVE  /\ Headers(word', devs + 1)
         /\ word' \in [Memory -> Nat] /\ last_alloc' \in Nat
         /\ IF devs + 1 <= Room + 2 THEN last_alloc' = Dev(devs + 2)
            ELSE last_alloc' \in Dev(Room + 3) .. Dev(devs + 2)
<1>1. pciPc = "probe" /\ tgaPc = "header"
  <2>1. pciPc = "probe"
    BY DEF Probe
  <2> QED
    BY <2>1 DEF BootIInv, Scanning
<1>2. /\ word \in [Memory -> Nat] /\ last_alloc \in Nat /\ devs \in Nat /\ Headers(word, devs)
      /\ IF devs <= Room + 2 THEN last_alloc = Dev(devs + 1)
         ELSE last_alloc >= Dev(Room + 3) /\ last_alloc <= Dev(devs + 1)
      /\ Dev(1) = Drivers + DrvRoom + 3 /\ Drivers = Devices + Room + 3 /\ Devices = Base + DescSize + 3
      /\ Devices \in Nat /\ Drivers \in Nat /\ Dev(1) \in Nat /\ Dev(devs + 1) \in Nat
      /\ Dev(devs + 1) = Dev(1) + 7 * devs
      /\ Dev(Room + 3) = Dev(1) + 7 * (Room + 2)
      /\ last_alloc >= Dev(1) /\ last_alloc \in 0 .. Top
  BY <1>1, ScanFacts
<1>3. Base \in Nat /\ DescSize \in Nat /\ DescSize > 0 /\ Room \in Nat /\ Room > 0 /\ DrvRoom \in Nat
      /\ DrvRoom >= 4 /\ Top \in Nat
  BY Constants
<1> DEFINE z == Devices + 2 + devs
<1>4. PICK a \in Nat :
           /\ a = Walk(word, last_alloc, 4)
           /\ a = last_alloc \/ (a = Drivers /\ devs = Room + 2)
           /\ last_alloc' = IF a = last_alloc THEN a + 7 ELSE last_alloc
           /\ word' \in [Memory -> Nat]
           /\ \A x \in Memory : x # z /\ ~ (a <= x /\ x <= a + 5) => word'[x] = word[x]
           /\ z \in Memory => word'[z] = a + 2
           /\ a # z => word'[a] = 1
           /\ a + 1 # z => word'[a + 1] = IF a = last_alloc THEN 4 ELSE word[a + 1]
  BY ProbeIs
<1>5. /\ z = Devices + 2 + devs /\ z \in Nat
  BY <1>2
<1> HIDE DEF z
<1>6. a >= Drivers
  BY <1>2, <1>3, <1>4
<1>7. \A x \in Nat : x < Dev(1) => x \in Memory
  BY <1>2, <1>3 DEF Memory
<1>8. word'[Base] = 1 /\ word'[Base + 1] = DescSize /\ word'[Devices] = 1 /\ word'[Devices + 1] = Room
  <2>1. \A x \in {Base, Base + 1, Devices, Devices + 1} : x \in Memory /\ x # z /\ ~ (a <= x /\ x <= a + 5)
    BY <1>2, <1>3, <1>5, <1>6, <1>7
  <2> QED
    BY <1>2, <1>4, <2>1, HeadersIs
<1>9. devs + 1 # Room + 2 => InUse(word', Drivers)
  <2> SUFFICES ASSUME devs + 1 # Room + 2 PROVE InUse(word', Drivers)
    OBVIOUS
  <2>1. z # Drivers
    BY <1>2, <1>3, <1>5
  <2>2. CASE a = Drivers
    BY <1>4, <2>1, <2>2, OneIsInUse
  <2>3. CASE a # Drivers
    <3>1. a = last_alloc /\ Drivers < a /\ Drivers \in Memory
      BY <1>2, <1>3, <1>4, <1>7, <2>3
    <3>2. word'[Drivers] = word[Drivers]
      BY <1>2, <1>4, <2>1, <3>1
    <3>3. InUse(word, Drivers)
      <4>1. CASE devs = Room + 2
        <5>1. Links(word, last_alloc, Hdrs(devs))
          BY <1>2, <1>3, <4>1, HeadersLink
        <5>2. SizeAt(word, Drivers) >= 4 /\ Drivers \in Hdrs(devs)
          BY <1>2, <1>3, <4>1, HeadersIs DEF SizeAt, Hdrs
        <5>3. last_alloc \notin Hdrs(devs)
          BY <5>1, <1>2 DEF Links
        <5>4. ~ (\E f \in Hdrs(devs) : Fits(word, f, 4))
          BY <1>2, <1>4, <3>1, <5>1, <5>3, WalkOnLinks
        <5> QED
          BY <5>2, <5>4 DEF Fits
      <4>2. CASE devs # Room + 2
        BY <1>2, <4>2, HeadersIs
      <4> QED
        BY <4>1, <4>2
    <3> QED
      BY <3>2, <3>3 DEF InUse
  <2> QED
    BY <2>2, <2>3
<1>10. devs + 1 <= Room + 2 => word'[Drivers + 1] = DrvRoom
  <2> SUFFICES ASSUME devs + 1 <= Room + 2 PROVE word'[Drivers + 1] = DrvRoom
    OBVIOUS
  <2>1. a = last_alloc /\ Drivers + 1 \in Memory /\ Drivers + 1 # z /\ Drivers + 1 < a /\ devs <= Room + 2
    BY <1>2, <1>3, <1>4, <1>5, <1>7
  <2> QED
    BY <1>2, <1>4, <2>1, HeadersIs
<1>11. ~ (devs + 1 <= Room + 2) => word'[Drivers + 1] >= Base
  <2> SUFFICES ASSUME devs >= Room + 2 PROVE word'[Drivers + 1] >= Base
    BY <1>2, <1>3
  <2>0. Drivers + 1 \in Memory
    BY <1>2, <1>3, <1>7
  <2>1. CASE devs = Room + 2
    <3>1. z = Drivers + 1
      BY <1>2, <1>3, <1>5, <2>1
    <3> QED
      BY <1>2, <1>3, <1>4, <1>6, <2>0, <3>1
  <2>2. CASE devs > Room + 2
    <3>1. a = last_alloc /\ Drivers + 1 # z /\ Drivers + 1 < a
      BY <1>2, <1>3, <1>4, <1>5, <2>2
    <3>2. word'[Drivers + 1] = word[Drivers + 1]
      BY <1>2, <1>4, <2>0, <3>1
    <3>3. ~ (devs <= Room + 2)
      BY <1>2, <1>3, <2>2
    <3> QED
      BY <1>2, <3>2, <3>3, HeadersIs
  <2> QED
    BY <1>2, <1>3, <2>1, <2>2
<1>12. devs + 1 <= Room + 2 => \A k \in 1 .. devs + 1 : word'[Dev(k)] = 1 /\ word'[Dev(k) + 1] = 4
  <2> SUFFICES ASSUME devs + 1 <= Room + 2, NEW k \in 1 .. devs + 1
               PROVE  word'[Dev(k)] = 1 /\ word'[Dev(k) + 1] = 4
    OBVIOUS
  <2>1. a = last_alloc /\ a = Dev(devs + 1) /\ z < Dev(1) /\ devs <= Room + 2
    BY <1>2, <1>3, <1>4, <1>5
  <2>2. k \in Nat /\ k >= 1 /\ k <= devs + 1
    BY <1>2
  <2>3. Dev(k) = Dev(1) + 7 * (k - 1) /\ Dev(k) \in Nat
    BY <1>2, <2>2, DevIs
  <2>4. CASE k = devs + 1
    <3>1. a # z /\ a + 1 # z
      BY <1>2, <1>5, <2>1
    <3> QED
      BY <1>4, <2>1, <2>4, <3>1
  <2>5. CASE k # devs + 1
    <3>1. k \in 1 .. devs /\ Dev(k) + 7 <= a
      BY <1>2, <2>1, <2>2, <2>3, <2>5
    <3>2. word[Dev(k)] = 1 /\ word[Dev(k) + 1] = 4
      BY <1>2, <2>1, <3>1, HeadersIs
    <3>3. /\ Dev(k) \in Memory /\ Dev(k) + 1 \in Memory /\ Dev(k) # z /\ Dev(k) + 1 # z
          /\ Dev(k) < a /\ Dev(k) + 1 < a
      <4>1. Dev(k) \in Nat /\ a \in Nat /\ Dev(k) + 7 <= a /\ Dev(k) >= Dev(1) /\ z < Dev(1) /\ a \in 0 .. Top
        BY <1>2, <1>4, <2>1, <2>2, <2>3, <3>1
      <4>2. Dev(1) \in Nat
        BY <1>2
      <4> QED
        BY <1>3, <1>5, <4>1, <4>2 DEF Memory
    <3>4. ~ (a <= Dev(k)) /\ ~ (a <= Dev(k) + 1)
      BY <2>3, <3>3
    <3> QED
      BY <1>4, <3>2, <3>3, <3>4
  <2> QED
    BY <2>4, <2>5
<1>13. Headers(word', devs + 1)
  BY <1>8, <1>9, <1>10, <1>11, <1>12, HeadersIs
<1>14. Dev(devs + 2) = Dev(1) + 7 * (devs + 1)
  <2>1. Dev(devs + 2) = Dev(1) + 7 * ((devs + 2) - 1)
    BY <1>2, DevIs
  <2> QED
    BY <1>2, <2>1
<1>15. IF devs + 1 <= Room + 2 THEN last_alloc' = Dev(devs + 2)
       ELSE last_alloc' \in Dev(Room + 3) .. Dev(devs + 2)
  <2>1. CASE devs + 1 <= Room + 2
    BY <1>2, <1>3, <1>4, <1>14, <2>1
  <2>2. CASE devs = Room + 2
    BY <1>2, <1>3, <1>4, <1>14, <2>2
  <2>3. CASE devs > Room + 2
    BY <1>2, <1>3, <1>4, <1>14, <2>3
  <2> QED
    BY <1>2, <1>3, <2>1, <2>2, <2>3
<1>16. last_alloc' \in Nat
  BY <1>2, <1>4
<1> QED
  BY <1>4, <1>13, <1>15, <1>16

LEMMA EntryKept ==
  ASSUME BootIInv, Probe, Triple(at) \in there, NEW k \in 1 .. devs,
         k <= Room \/ devs <= Room + 1, devs < Room + DrvRoom + 6
  PROVE  /\ word'[Devices + 1 + k] = word[Devices + 1 + k]
         /\ DeviceAt(word', Ptr(k)) = DeviceAt(word, Ptr(k))
<1>1. pciPc = "probe" /\ tgaPc = "header"
  <2>1. pciPc = "probe"
    BY DEF Probe
  <2> QED
    BY <2>1 DEF BootIInv, Scanning
<1>2. /\ last_alloc \in Nat /\ devs \in Nat
      /\ IF devs <= Room + 2 THEN last_alloc = Dev(devs + 1)
         ELSE last_alloc >= Dev(Room + 3) /\ last_alloc <= Dev(devs + 1)
      /\ Dev(1) = Drivers + DrvRoom + 3 /\ Drivers = Devices + Room + 3
      /\ Devices \in Nat /\ Drivers \in Nat /\ Dev(1) \in Nat /\ Dev(devs + 1) \in Nat
      /\ Dev(devs + 1) = Dev(1) + 7 * devs
      /\ Dev(Room + 3) = Dev(1) + 7 * (Room + 2)
      /\ last_alloc >= Dev(1) /\ last_alloc \in 0 .. Top
  BY <1>1, ScanFacts
<1>3. Room \in Nat /\ Room > 0 /\ DrvRoom \in Nat /\ DrvRoom >= 4 /\ Top \in Nat
  BY Constants
<1> DEFINE z == Devices + 2 + devs
<1>4. PICK a \in Nat :
           /\ a = last_alloc \/ (a = Drivers /\ devs = Room + 2)
           /\ \A x \in Memory : x # z /\ ~ (a <= x /\ x <= a + 5) => word'[x] = word[x]
  BY ProbeIs
<1>5. /\ z = Devices + 2 + devs /\ z \in Nat
  BY <1>2
<1> HIDE DEF z
<1>6. k \in Nat /\ k >= 1 /\ k <= devs /\ k <= Room + 1
  BY <1>2, <1>3
<1>7. word'[Devices + 1 + k] = word[Devices + 1 + k]
  <2>1. Devices + 1 + k \in Memory /\ Devices + 1 + k # z /\ Devices + 1 + k < a
    BY <1>2, <1>3, <1>4, <1>5, <1>6 DEF Memory
  <2> QED
    BY <1>2, <1>4, <2>1
<1>8. Dev(k) = Dev(1) + 7 * (k - 1) /\ Dev(k) \in Nat /\ Ptr(k) = Dev(k) + 2
  BY <1>2, <1>6, DevIs
<1>9. Dev(k) + 7 <= last_alloc
  <2>1. CASE devs <= Room + 2
    BY <1>2, <1>3, <1>6, <1>8, <2>1
  <2>2. CASE ~ (devs <= Room + 2)
    BY <1>2, <1>3, <1>6, <1>8, <2>2
  <2> QED
    BY <2>1, <2>2
<1>10. z < Ptr(k) /\ Ptr(k) \in Nat
  BY <1>2, <1>3, <1>5, <1>6, <1>8
<1>11. \A x \in Nat : Ptr(k) <= x /\ x <= Ptr(k) + 3 => x \in Memory /\ word'[x] = word[x]
  <2> SUFFICES ASSUME NEW x \in Nat, Ptr(k) <= x, x <= Ptr(k) + 3 PROVE x \in Memory /\ word'[x] = word[x]
    OBVIOUS
  <2>1. x \in Memory /\ x # z
    BY <1>2, <1>3, <1>5, <1>8, <1>9, <1>10 DEF Memory
  <2>2. CASE a = last_alloc
    BY <1>2, <1>4, <1>8, <1>9, <2>1, <2>2
  <2>3. CASE a = Drivers
    <3>1. a + 5 < x
      BY <1>2, <1>3, <1>6, <1>8, <2>3
    <3> QED
      BY <1>4, <2>1, <3>1
  <2> QED
    BY <1>4, <2>2, <2>3
<1>12. DeviceAt(word', Ptr(k)) = DeviceAt(word, Ptr(k))
  <2>1. \A x \in {Ptr(k), Ptr(k) + 1, Ptr(k) + 2, Ptr(k) + 3} : x \in Nat /\ Ptr(k) <= x /\ x <= Ptr(k) + 3
    BY <1>10
  <2>2. \A x \in {Ptr(k), Ptr(k) + 1, Ptr(k) + 2, Ptr(k) + 3} : ReadWord(word', x) = ReadWord(word, x)
    BY <1>11, <2>1 DEF ReadWord
  <2> QED
    BY <2>2 DEF DeviceAt
<1> QED
  BY <1>7, <1>12

LEMMA EntriesIs ==
  ASSUME pci_devices = Devices + 2, NEW mem, NEW d \in Nat
  PROVE  Entries(mem, d) <=>
           (d <= Room + DrvRoom + 6 =>
              \A k \in 1 .. d : k <= Room \/ d <= Room + 1 =>
                 /\ mem[Devices + 1 + k] = Ptr(k)
                 /\ d <= Room + 1 => DeviceAt(mem, Ptr(k)) = DeviceOf(Found[k]))
<1>1. Room + DrvRoom + 2 * (PAD + HDR) = Room + DrvRoom + 6 /\ Room + PAD = Room + 1
  BY Constants DEF PAD, HDR
<1>2. \A k \in 1 .. d : pci_devices + k - 1 = Devices + 1 + k
  BY Layout
<1> QED
  BY <1>1, <1>2 DEF Entries

LEMMA EntriesNext ==
  ASSUME BootIInv, Probe, Triple(at) \in there
  PROVE  Entries(word, devs)'
<1>1. pciPc = "probe" /\ tgaPc = "header" /\ pci_devices' = pci_devices
  <2>1. pciPc = "probe" /\ pci_devices' = pci_devices
    BY DEF Probe
  <2> QED
    BY <2>1 DEF BootIInv, Scanning
<1>2. /\ devs \in Nat /\ Entries(word, devs) /\ pci_devices = Devices + 2 /\ Devices \in Nat
      /\ Dev(1) \in Nat /\ Drivers = Devices + Room + 3
      /\ Dev(1) = Drivers + DrvRoom + 3
      /\ last_alloc >= Dev(1) /\ last_alloc \in 0 .. Top
      /\ (devs <= Room + 2 => last_alloc = Dev(devs + 1))
  BY <1>1, ScanFacts
<1>3. Found' = Append(Found, Triple(at)) /\ devs' = devs + 1 /\ there' = there
  BY ListedNext
<1>4. devs = Len(Found) /\ Found \in Seq(there)
  BY DEF BootIInv, Listed
<1>5. Found'[devs + 1] = Triple(at) /\ \A k \in 1 .. devs : Found'[k] = Found[k]
  BY <1>3, <1>4, AppendIs
<1>6. Room \in Nat /\ Room > 0 /\ DrvRoom \in Nat /\ DrvRoom >= 4 /\ Top \in Nat
  BY Constants
<1>7. ASSUME devs + 1 <= Room + DrvRoom + 6, NEW k \in 1 .. devs + 1, k <= Room \/ devs + 1 <= Room + 1
      PROVE  /\ word'[Devices + 1 + k] = Ptr(k)
             /\ devs + 1 <= Room + 1 => DeviceAt(word', Ptr(k)) = DeviceOf(Found'[k])
  <2>1. CASE k = devs + 1
    <3>1. devs <= Room
      BY <1>2, <1>6, <1>7, <2>1
    <3>2. last_alloc = Dev(devs + 1) /\ devs # Room + 2
      BY <1>2, <1>6, <3>1
    <3>3. PICK a \in Nat :
           /\ a = last_alloc \/ (a = Drivers /\ devs = Room + 2)
           /\ Devices + 2 + devs \in Memory => word'[Devices + 2 + devs] = a + 2
           /\ Devices + 2 + devs < a => DeviceAt(word', a + 2) = DeviceOf(Triple(at))
      BY ProbeIs
    <3>4. /\ Devices + 2 + devs \in Memory /\ Devices + 2 + devs < a
          /\ Devices + 2 + devs = Devices + 1 + k
      BY <1>2, <1>6, <2>1, <3>1, <3>2, <3>3 DEF Memory
    <3>5. Ptr(k) = a + 2
      BY <1>2, <2>1, <3>2, <3>3, DevIs
    <3> QED
      BY <1>5, <2>1, <3>3, <3>4, <3>5
  <2>2. CASE k # devs + 1
    <3>1. k \in 1 .. devs /\ (k <= Room \/ devs <= Room + 1) /\ devs < Room + DrvRoom + 6
      BY <1>2, <1>6, <1>7, <2>2
    <3>2. /\ word'[Devices + 1 + k] = word[Devices + 1 + k]
          /\ DeviceAt(word', Ptr(k)) = DeviceAt(word, Ptr(k))
      BY <3>1, EntryKept
    <3>3. /\ word[Devices + 1 + k] = Ptr(k)
          /\ devs <= Room + 1 => DeviceAt(word, Ptr(k)) = DeviceOf(Found[k])
      BY <1>2, <1>6, <3>1, EntriesIs
    <3>4. devs + 1 <= Room + 1 => devs <= Room + 1
      BY <1>2, <1>6
    <3> QED
      BY <1>5, <3>1, <3>2, <3>3, <3>4
  <2> QED
    BY <2>1, <2>2
<1>8. Entries(word, devs)' <=>
        (devs' <= Room + DrvRoom + 2 * (PAD + HDR) =>
            \A k \in 1 .. devs' : k <= Room \/ devs' <= Room + PAD =>
                /\ word'[pci_devices' + k - 1] = Ptr(k)
                /\ devs' <= Room + PAD => DeviceAt(word', Ptr(k)) = DeviceOf(Found'[k]))
  BY DEF Entries, Ptr, Dev, Drivers, Devices, DeviceAt, ReadWord, DeviceOf, Vendor, Device, Memory
<1>9. Room + DrvRoom + 2 * (PAD + HDR) = Room + DrvRoom + 6 /\ Room + PAD = Room + 1
  BY <1>6 DEF PAD, HDR
<1>10. \A k \in 1 .. devs' : pci_devices' + k - 1 = Devices + 1 + k
  BY <1>1, <1>2, <1>3
<1> QED
  BY <1>3, <1>7, <1>8, <1>9, <1>10

LEMMA ProbeStep ==
  ASSUME BootIInv, Probe, UNCHANGED tgaVars
  PROVE  BootIInv'
<1>1. pciPc = "probe" /\ pciPc' = "probe" /\ pci_devices' = pci_devices /\ dumped' = dumped /\ tgaPc = "header"
  <2>1. pciPc = "probe" /\ pciPc' = "probe" /\ pci_devices' = pci_devices /\ dumped' = dumped
    BY DEF Probe
  <2> QED
    BY <2>1 DEF BootIInv, Scanning
<1>2. /\ Outlasts' /\ Decoding' /\ PictureIsTheFile' /\ tgaPc' = "header"
      /\ img' = img /\ data' = data /\ local' = local /\ stream' = stream
  BY <1>1, ImageWaits
<1>3. at' \in 0 .. Total /\ there' = there /\ Triple(at) \in Functions3 /\ Listed'
      /\ (Triple(at) \in there => devs' = devs + 1) /\ (Triple(at) \notin there => Found' = Found /\ devs' = devs)
  BY ListedNext
<1>4. Types /\ Scanning
  BY DEF BootIInv
<1>5. pci_devices = Devices + HDR
  BY <1>1, <1>4 DEF Scanning
<1>6. Headers(word, devs)' = Headers(word', devs') /\ Dev(devs + 1)' = Dev(devs' + 1) /\ Dev(Room + 3)' = Dev(Room + 3)
      /\ Devices' = Devices
  BY DEF Headers, Devices, Drivers, Dev, InUse
<1>7. CASE Triple(at) \in there
  <2>1. /\ Headers(word', devs + 1)
        /\ word' \in [Memory -> Nat] /\ last_alloc' \in Nat
        /\ IF devs + 1 <= Room + 2 THEN last_alloc' = Dev(devs + 2)
           ELSE last_alloc' \in Dev(Room + 3) .. Dev(devs + 2)
    BY <1>7, HeadersNext
  <2>2. Entries(word, devs)'
    BY <1>7, EntriesNext
  <2>3. devs' \in Nat /\ devs' = devs + 1 /\ devs' + 1 = devs + 2
    BY <1>3, <1>4, <1>7 DEF Types
  <2>4. Types'
    BY <1>1, <1>2, <1>3, <2>1, <2>3, TypesKept
  <2>5. Scanning'
    BY <1>1, <1>2, <1>5, <1>6, <2>1, <2>2, <2>3 DEF Scanning
  <2> QED
    BY <1>2, <1>3, <2>4, <2>5 DEF BootIInv
<1>8. CASE Triple(at) \notin there
  <2>1. word' = word /\ last_alloc' = last_alloc
    <3>1. getVendorID(Triple(at)) = Nobody
      BY <1>3, <1>4, <1>8, BusAnswers DEF Types
    <3> QED
      BY <3>1 DEF Probe
  <2>2. Types'
    BY <1>1, <1>2, <1>3, <1>4, <1>8, <2>1, TypesKept DEF Types
  <2>3. Entries(word, devs)' = Entries(word, devs)
    BY <1>1, <1>3, <1>8, <2>1 DEF Entries, Ptr, Dev, Drivers, Devices, DeviceAt, ReadWord, DeviceOf, Vendor, Device, Memory
  <2>4. Scanning'
    BY <1>1, <1>2, <1>3, <1>4, <1>6, <1>8, <2>1, <2>3 DEF Scanning
  <2> QED
    BY <1>2, <1>3, <2>2, <2>4 DEF BootIInv
<1> QED
  BY <1>7, <1>8

(***************************************************************************)
(* The dump, and the steps that leave all of this alone.                   *)
(***************************************************************************)
LEMMA SameTable ==
  ASSUME word' = word, devs' = devs, there' = there, at' = at, pci_devices' = pci_devices
  PROVE  /\ Headers(word, devs)' = Headers(word, devs) /\ Entries(word, devs)' = Entries(word, devs)
         /\ Dev(devs + 1)' = Dev(devs + 1) /\ Dev(Room + 3)' = Dev(Room + 3) /\ Devices' = Devices
         /\ Found' = Found /\ Ptr(devs + 1)' = Ptr(devs + 1)
<1>1. Found' = Found
  BY FoundSame
<1> QED
  BY <1>1 DEF Headers, Entries, Ptr, Dev, Drivers, Devices, InUse, DeviceAt, ReadWord, DeviceOf, Vendor, Device, Memory

LEMMA ListedKept ==
  ASSUME BootIInv, devs' = devs, there' = there, at' = at
  PROVE  Listed'
<1>1. Found' = Found /\ Listed
  BY FoundSame DEF BootIInv
<1>2. ({Triple(n) : n \in 0 .. at - 1} \cap there)' = {Triple(n) : n \in 0 .. at - 1} \cap there
  BY DEF Triple
<1> QED
  BY <1>1, <1>2 DEF Listed

LEMMA DumpStep ==
  ASSUME BootIInv, Probed \/ Dump, UNCHANGED tgaVars
  PROVE  BootIInv'
<1>1. /\ word' = word /\ last_alloc' = last_alloc /\ devs' = devs /\ there' = there /\ at' = at
      /\ pci_devices' = pci_devices /\ pciPc \in {"probe", "dump"} /\ pciPc' \in {"dump", "done"}
      /\ pciPc' = "done" => pciPc = "dump" /\ dumped' = [k \in 1 .. devs |-> DeviceAt(word, word[pci_devices + k - 1])]
  BY DEF Probed, Dump
<1>2. /\ Outlasts' /\ Decoding' /\ PictureIsTheFile' /\ tgaPc' = "header"
      /\ img' = img /\ data' = data /\ local' = local /\ stream' = stream
  BY <1>1, ImageWaits
<1>3. Types /\ Scanning /\ tgaPc = "header"
  BY <1>1 DEF BootIInv, Scanning
<1>4. Types'
  BY <1>1, <1>2, <1>3, TypesKept DEF Types
<1>5. Listed'
  BY <1>1, ListedKept
<1>6. /\ Headers(word, devs)' = Headers(word, devs) /\ Entries(word, devs)' = Entries(word, devs)
      /\ Dev(devs + 1)' = Dev(devs + 1) /\ Dev(Room + 3)' = Dev(Room + 3) /\ Devices' = Devices /\ Found' = Found
  BY <1>1, SameTable
<1>7. pciPc' = "done" /\ devs' <= Room + PAD => dumped' = [k \in 1 .. devs |-> DeviceOf(Found[k])]
  <2> SUFFICES ASSUME pciPc' = "done", devs <= Room + PAD
               PROVE  dumped' = [k \in 1 .. devs |-> DeviceOf(Found[k])]
    BY <1>1
  <2>1. dumped' = [k \in 1 .. devs |-> DeviceAt(word, word[pci_devices + k - 1])]
    BY <1>1
  <2>2. Entries(word, devs) /\ devs \in Nat
    BY <1>1, <1>3 DEF Scanning, Types
  <2>3. devs <= Room + DrvRoom + 2 * (PAD + HDR)
    BY <2>2, Constants DEF PAD, HDR
  <2>4. \A k \in 1 .. devs : DeviceAt(word, word[pci_devices + k - 1]) = DeviceOf(Found[k])
    BY <2>2, <2>3 DEF Entries
  <2> QED
    BY <2>1, <2>4
<1>8. DeviceOf(Found[1])' = DeviceOf(Found[1]) /\ \A k \in 1 .. devs : DeviceOf(Found[k])' = DeviceOf(Found[k])
  BY <1>6 DEF DeviceOf, Vendor, Device
<1>9. [k \in 1 .. devs |-> DeviceOf(Found[k])]' = [k \in 1 .. devs |-> DeviceOf(Found[k])]
  BY <1>1, <1>6 DEF DeviceOf, Vendor, Device
<1>10. Scanning'
  BY <1>1, <1>2, <1>3, <1>6, <1>7, <1>9 DEF Scanning
<1> QED
  BY <1>2, <1>4, <1>5, <1>10 DEF BootIInv

\* Drawing, a tick, or nothing.
LEMMA OthersStep ==
  ASSUME BootIInv, UNCHANGED <<word, last_alloc, pciVars, tgaVars>>
  PROVE  BootIInv'
<1>1. /\ word' = word /\ last_alloc' = last_alloc /\ devs' = devs /\ there' = there /\ at' = at
      /\ pci_devices' = pci_devices /\ pciPc' = pciPc /\ dumped' = dumped
      /\ img' = img /\ tgaPc' = tgaPc /\ data' = data /\ local' = local /\ stream' = stream
  BY DEF pciVars, tgaVars
<1>2. Types /\ Scanning /\ Outlasts /\ Decoding /\ PictureIsTheFile
  BY DEF BootIInv
<1>3. Types'
  BY <1>1, <1>2, TypesKept DEF Types
<1>4. Listed'
  BY <1>1, ListedKept
<1>5. /\ Headers(word, devs)' = Headers(word, devs) /\ Entries(word, devs)' = Entries(word, devs)
      /\ Dev(devs + 1)' = Dev(devs + 1) /\ Dev(Room + 3)' = Dev(Room + 3) /\ Devices' = Devices /\ Found' = Found
      /\ Ptr(devs + 1)' = Ptr(devs + 1)
  BY <1>1, SameTable
<1>6. [k \in 1 .. devs |-> DeviceOf(Found[k])]' = [k \in 1 .. devs |-> DeviceOf(Found[k])]
  BY <1>1, <1>5 DEF DeviceOf, Vendor, Device
<1>7. Scanning'
  BY <1>1, <1>2, <1>5, <1>6 DEF Scanning
<1>8. Pixels' = Pixels
  BY <1>1 DEF Pixels
<1>9. Outlasts'
  BY <1>1, <1>2, <1>5, <1>8 DEF Outlasts, NULL
<1>10. Decoding'
  <2>1. RowsTo(Len(stream))' = RowsTo(Len(stream)) /\ At(Len(stream))' = At(Len(stream))
    BY <1>1 DEF RowsTo, At, Target
  <2> QED
    BY <1>1, <1>2, <1>8, <2>1 DEF Decoding, NULL
<1>11. PictureIsTheFile'
  BY <1>1, <1>2 DEF PictureIsTheFile, NULL, Pixels, Target, Whole, Malloc, Walk, Memory
<1> QED
  BY <1>3, <1>4, <1>7, <1>9, <1>10, <1>11 DEF BootIInv

(***************************************************************************)
(* The image's block.                                                      *)
(***************************************************************************)
\* What is written behind the last device's block leaves the table and the
\* chain in front of it as they are.
LEMMA KeptBelow ==
  ASSUME Types, NEW m1, NEW m2, NEW d \in Nat, d <= Room + 2, Dev(d + 1) <= Top,
         \A x \in Memory : x < Dev(d + 1) => m2[x] = m1[x]
  PROVE  /\ Headers(m1, d) => Headers(m2, d)
         /\ d <= Room + 1 /\ pci_devices = Devices + 2 /\ Entries(m1, d) => Entries(m2, d)
<1>1. /\ Base \in Nat /\ DescSize \in Nat /\ DescSize > 0 /\ Room \in Nat /\ Room > 0 /\ DrvRoom \in Nat
      /\ DrvRoom >= 4 /\ Top \in Nat
  BY Constants
<1>2. /\ Dev(1) = Drivers + DrvRoom + 3 /\ Drivers = Devices + Room + 3 /\ Devices = Base + DescSize + 3
      /\ Dev(1) \in Nat
  BY TablesFit
<1>3. Devices \in Nat /\ Drivers \in Nat
  BY <1>1, <1>2
<1>4. /\ Dev(d + 1) = Dev(1) + 7 * ((d + 1) - 1) /\ Dev(d + 1) \in Nat
      /\ \A k \in 1 .. d : Dev(k) = Dev(1) + 7 * (k - 1) /\ Dev(k) \in Nat /\ Ptr(k) = Dev(k) + 2
  BY <1>2, DevIs
<1>5. \A x \in Nat : x < Dev(d + 1) => x \in Memory /\ m2[x] = m1[x]
  BY <1>1, <1>4 DEF Memory
<1>6. ASSUME NEW k \in 1 .. d
      PROVE  /\ \A x \in Nat : x < Dev(k) + 7 => x < Dev(d + 1)
             /\ Dev(k) \in Nat /\ Dev(k) + 1 < Dev(k) + 7 /\ Dev(k) < Dev(k) + 7
             /\ Ptr(k) \in Nat /\ Ptr(k) + 3 < Dev(k) + 7
  BY <1>4
<1>7. ASSUME Headers(m1, d) PROVE Headers(m2, d)
  <2>1. \A x \in {Base, Base + 1, Devices, Devices + 1, Drivers, Drivers + 1} : x \in Nat /\ x < Dev(d + 1)
    BY <1>1, <1>2, <1>3, <1>4
  <2>2. \A x \in {Base, Base + 1, Devices, Devices + 1, Drivers, Drivers + 1} : m2[x] = m1[x]
    BY <1>5, <2>1
  <2>3. \A k \in 1 .. d : m2[Dev(k)] = m1[Dev(k)] /\ m2[Dev(k) + 1] = m1[Dev(k) + 1]
    <3> SUFFICES ASSUME NEW k \in 1 .. d PROVE m2[Dev(k)] = m1[Dev(k)] /\ m2[Dev(k) + 1] = m1[Dev(k) + 1]
      OBVIOUS
    <3>1. Dev(k) \in Nat /\ Dev(k) + 1 \in Nat /\ Dev(k) < Dev(d + 1) /\ Dev(k) + 1 < Dev(d + 1)
      BY <1>6
    <3> QED
      BY <1>5, <3>1
  <2>4. InUse(m2, Drivers) <=> InUse(m1, Drivers)
    BY <2>2 DEF InUse
  <2>5. d <= Room + 2
    OBVIOUS
  <2> QED
    BY <1>7, <2>2, <2>3, <2>4, <2>5, HeadersIs
<1>8. ASSUME d <= Room + 1, pci_devices = Devices + 2, Entries(m1, d) PROVE Entries(m2, d)
  <2> SUFFICES ASSUME NEW k \in 1 .. d, d <= Room + DrvRoom + 6, k <= Room \/ d <= Room + 1
               PROVE  /\ m2[Devices + 1 + k] = Ptr(k)
                      /\ d <= Room + 1 => DeviceAt(m2, Ptr(k)) = DeviceOf(Found[k])
    BY <1>8, EntriesIs
  <2>1. m1[Devices + 1 + k] = Ptr(k) /\ DeviceAt(m1, Ptr(k)) = DeviceOf(Found[k])
    BY <1>8, EntriesIs
  <2>2. Devices + 1 + k \in Nat /\ Devices + 1 + k < Dev(d + 1)
    BY <1>1, <1>2, <1>3, <1>4, <1>8
  <2>3. m2[Devices + 1 + k] = m1[Devices + 1 + k]
    BY <1>5, <2>2
  <2>4. \A x \in {Ptr(k), Ptr(k) + 1, Ptr(k) + 2, Ptr(k) + 3} : x \in Nat /\ x < Dev(d + 1)
    BY <1>6
  <2>5. DeviceAt(m2, Ptr(k)) = DeviceAt(m1, Ptr(k))
    BY <1>5, <2>4 DEF DeviceAt, ReadWord
  <2> QED
    BY <2>1, <2>3, <2>5
<1> QED
  BY <1>7, <1>8

LEMMA LinksExtend ==
  ASSUME NEW mem, NEW last \in Nat, NEW S, Links(mem, last, S),
         SizeAt(mem, last) \in Nat, SizeAt(mem, last) > 0
  PROVE  Links(mem, NextHeader(mem, last), S \cup {last})
<1>1. NextHeader(mem, last) = last + SizeAt(mem, last) + 3
  BY DEF NextHeader, HDR, PAD
<1>2. Base <= last
  BY WordsAssumption DEF Links
<1>3. \A a \in S : a \in Nat /\ Base <= a /\ a < last /\ SizeAt(mem, a) > 0
                   /\ (NextHeader(mem, a) = last \/ NextHeader(mem, a) \in S)
                   /\ \A b \in S : a < b => NextHeader(mem, a) <= b
  BY DEF Links
<1>4. \A a \in S : NextHeader(mem, a) <= last
  BY <1>3
<1> DEFINE next == NextHeader(mem, last)
<1>5. next \in Nat /\ last < next
  BY <1>1
<1> HIDE DEF next
<1>6. Base \in S \cup {last} /\ S \cup {last} \subseteq Nat
  BY <1>3 DEF Links
<1>7. ASSUME NEW a \in S \cup {last}
      PROVE  /\ Base <= a /\ a < next /\ SizeAt(mem, a) > 0
             /\ NextHeader(mem, a) = next \/ NextHeader(mem, a) \in S \cup {last}
             /\ \A b \in S \cup {last} : a < b => NextHeader(mem, a) <= b
  <2>1. CASE a = last
    <3>1. \A b \in S \cup {last} : ~ (a < b)
      BY <1>3, <2>1
    <3> QED
      BY <1>2, <1>5, <2>1, <3>1 DEF next
  <2>2. CASE a \in S
    <3>1. a \in Nat /\ a < next
      BY <1>3, <1>5, <2>2
    <3> QED
      BY <1>3, <1>4, <2>2, <3>1
  <2> QED
    BY <2>1, <2>2
<1>8. Links(mem, next, S \cup {last})
  BY <1>6, <1>7 DEF Links
<1> QED
  BY <1>8 DEF next

(***************************************************************************)
(* The places of the pixels.                                               *)
(***************************************************************************)
LEMMA ImageIs ==
  ASSUME img \in Images
  PROVE  /\ img.w \in Nat /\ img.h \in Nat /\ img.o \in {0, 1} /\ img.supported \in BOOLEAN
         /\ Pixels = img.w * img.h /\ Pixels \in Nat
<1>1. img.w \in Nat /\ img.h \in Nat /\ img.o \in {0, 1} /\ img.supported \in BOOLEAN
  BY TgaAssumption
<1>2. Pixels = img.w * img.h
  BY DEF Pixels
<1> QED
  BY <1>1, <1>2

Flip(r) == IF img.o = 0 THEN img.h - 1 - r ELSE r

LEMMA TargetIs ==
  ASSUME img \in Images, img.w > 0, NEW n \in Nat, n >= 1
  PROVE  LET r == (n - 1) \div img.w
             c == (n - 1) % img.w
         IN  /\ r \in Nat /\ c \in Nat /\ c < img.w /\ n - 1 = r * img.w + c
             /\ Flip(r) \in Int /\ Flip(Flip(r)) = r
             /\ Target(n) = Flip(r) * img.w + c /\ Target(n) \in Int
             /\ Target(n) \div img.w = Flip(r) /\ Target(n) % img.w = c
<1> DEFINE w == img.w
           r == (n - 1) \div w
           c == (n - 1) % w
<1>1. w \in Nat /\ w > 0 /\ img.h \in Int /\ n - 1 \in Nat
  BY ImageIs
<1> HIDE DEF w
<1>2. r \in Nat /\ c \in 0 .. w - 1 /\ n - 1 = r * w + c
  BY <1>1, Division
<1>3. Target(n) = Flip(r) * w + c
  BY DEF Target, Flip, w
<1> HIDE DEF r, c
<1>4. Flip(r) \in Int /\ Flip(Flip(r)) = r
  BY <1>1, <1>2 DEF Flip
<1> DEFINE q == Flip(r)
           t == q * w + c
<1>5. q \in Int /\ t \in Int /\ t = q * w + c /\ c \in Nat /\ c < w
  BY <1>1, <1>2, <1>4
<1> HIDE DEF q, t
<1>6. t \div w = q /\ t % w = c
  BY <1>1, <1>5, Divided
<1>7. Target(n) = t
  BY <1>3 DEF t, q
<1> QED
  BY <1>2, <1>3, <1>4, <1>5, <1>6, <1>7 DEF r, c, w, q

LEMMA TargetInside ==
  ASSUME img \in Images, img.w > 0, img.h > 0, NEW n \in 1 .. Pixels
  PROVE  Target(n) \in 0 .. Pixels - 1
<1> DEFINE w == img.w
           h == img.h
           r == (n - 1) \div w
           c == (n - 1) % w
<1>1. n \in Nat /\ n >= 1 /\ n - 1 < Pixels /\ w \in Nat /\ w > 0 /\ h \in Nat /\ h > 0 /\ Pixels = w * h /\ Pixels \in Nat
  BY ImageIs
<1>2. r \in Nat /\ c \in Nat /\ c < w /\ n - 1 = r * w + c /\ Target(n) = Flip(r) * w + c
  BY <1>1, TargetIs
<1>3. Flip(r) = IF img.o = 0 THEN h - 1 - r ELSE r
  BY DEF Flip
<1> HIDE DEF w, h, r, c
<1>4. r < h
  <2> SUFFICES ASSUME r >= h PROVE FALSE
    BY <1>1, <1>2
  <2>1. PICK d \in Nat : r = h + d
    BY <1>1, <1>2, r - h \in Nat, r = h + (r - h)
  <2>2. r * w = w * h + d * w /\ d * w \in Nat
    BY <1>1, <2>1
  <2> QED
    BY <1>1, <1>2, <2>2
<1>5. PICK e \in Nat : h = Flip(r) + 1 + e /\ Flip(r) \in Nat
  <2>1. Flip(r) \in Nat /\ h - (Flip(r) + 1) \in Nat /\ h = Flip(r) + 1 + (h - (Flip(r) + 1))
    BY <1>1, <1>2, <1>3, <1>4
  <2> QED
    BY <2>1
<1> DEFINE q == Flip(r)
<1>6. q \in Nat /\ h = q + 1 + e /\ Target(n) = q * w + c
  BY <1>2, <1>5
<1> HIDE DEF q
<1>7. w * h = q * w + w + e * w /\ q * w \in Nat /\ e * w \in Nat
  BY <1>1, <1>5, <1>6
<1> QED
  BY <1>1, <1>2, <1>6, <1>7

LEMMA TargetsDiffer ==
  ASSUME img \in Images, img.w > 0, NEW m \in Nat, NEW n \in Nat, m >= 1, n >= 1, Target(m) = Target(n)
  PROVE  m = n
<1> DEFINE r == (m - 1) \div img.w
           c == (m - 1) % img.w
           s == (n - 1) \div img.w
           d == (n - 1) % img.w
<1>1. /\ m - 1 = r * img.w + c /\ Flip(Flip(r)) = r
      /\ Target(m) \div img.w = Flip(r) /\ Target(m) % img.w = c
  BY TargetIs
<1>2. /\ n - 1 = s * img.w + d /\ Flip(Flip(s)) = s
      /\ Target(n) \div img.w = Flip(s) /\ Target(n) % img.w = d
  BY TargetIs
<1> HIDE DEF r, c, s, d
<1>3. Flip(r) = Flip(s) /\ c = d
  BY <1>1, <1>2
<1>4. r = s
  BY <1>1, <1>2, <1>3
<1>5. m - 1 = n - 1
  BY <1>1, <1>2, <1>3, <1>4
<1> QED
  BY <1>5

\* The place after the one of pixel c: further on in its row, or the first of
\* the row the decoder looks up next.
LEMMA NextPlace ==
  ASSUME img \in Images, img.w > 0, NEW c \in Nat
  PROVE  /\ At(c) \in Int /\ RowsTo(c) \in Nat
         /\ LET atRow == At(c) % img.w = 0 IN
            /\ (IF atRow THEN RowStart(RowsTo(c)) ELSE At(c)) = Target(c + 1)
            /\ (IF atRow THEN RowsTo(c) + 1 ELSE RowsTo(c)) = RowsTo(c + 1)
         /\ At(c + 1) = Target(c + 1) + 1
<1> DEFINE w == img.w
           n == c + 1
           r == (n - 1) \div w
           p == (n - 1) % w
<1>0. w \in Nat /\ w > 0 /\ img.h \in Nat
  BY ImageIs
<1>1. /\ n \in Nat /\ n >= 1 /\ n - 1 = c
      /\ r \in Nat /\ p \in Nat /\ p < w /\ c = r * w + p
      /\ Target(n) = Flip(r) * w + p /\ Target(n) \in Int /\ Flip(r) \in Int
  BY TargetIs
<1>2. RowStart(r) = Flip(r) * w
  BY <1>0, <1>1 DEF RowStart, Flip
<1>3. RowsTo(n) = r + 1 /\ At(n) = Target(n) + 1
  BY <1>1 DEF RowsTo, At
<1>4. CASE c = 0
  <2>1. At(c) = 0 /\ RowsTo(c) = 0 /\ At(c) % w = 0
    <3>1. 0 = 0 * w + 0 /\ 0 \in Int /\ 0 \in Nat
      BY <1>0
    <3>2. 0 % w = 0
      BY <1>0, <3>1, Divided
    <3> QED
      BY <1>4, <3>2 DEF At, RowsTo
  <2>2. r = 0 /\ p = 0
    <3>1. 0 \in Int /\ 0 \in Nat /\ 0 = 0 * w + 0
      BY <1>0
    <3>2. 0 \div w = 0 /\ 0 % w = 0
      BY <1>0, <3>1, Divided
    <3> QED
      BY <1>1, <1>4, <3>2
  <2>3. Target(n) = RowStart(0)
    <3>1. Target(n) = Flip(r) * w + 0 /\ Flip(r) * w \in Int /\ RowStart(0) = Flip(r) * w
      BY <1>0, <1>1, <1>2, <2>2
    <3> QED
      BY <3>1
  <2> QED
    BY <1>3, <2>1, <2>2, <2>3
<1>5. CASE c > 0
  <2> DEFINE s == (c - 1) \div w
             q == (c - 1) % w
  <2>1. /\ s \in Nat /\ q \in Nat /\ q < w /\ c - 1 = s * w + q
        /\ Target(c) = Flip(s) * w + q /\ Target(c) \in Int /\ Flip(s) \in Int
    BY <1>5, TargetIs
  <2>2. At(c) = Target(c) + 1 /\ RowsTo(c) = s + 1
    BY <1>5 DEF At, RowsTo
  <2> HIDE DEF s, q, r, p, n, w
  <2>3. CASE q = w - 1
    <3>1. s + 1 \in Int /\ 0 \in Nat /\ c = (s + 1) * w + 0 /\ c \in Int /\ 0 < w
      BY <1>0, <2>1, <2>3
    <3>2. c \div w = s + 1 /\ c % w = 0
      BY <1>0, <3>1, Divided
    <3>3. r = s + 1 /\ p = 0
      BY <1>1, <3>2 DEF r, p
    <3>4. At(c) = (Flip(s) + 1) * w + 0 /\ At(c) \in Int /\ Flip(s) + 1 \in Int
      BY <1>0, <2>1, <2>2, <2>3
    <3>5. At(c) % w = 0
      BY <1>0, <3>1, <3>4, Divided
    <3>6. Target(n) = RowStart(RowsTo(c))
      <4>1. Target(n) = Flip(r) * w + 0 /\ Flip(r) * w \in Int /\ RowStart(r) = Flip(r) * w /\ RowsTo(c) = r
        BY <1>0, <1>1, <1>2, <2>2, <3>3
      <4> QED
        BY <4>1
    <3> QED
      BY <1>3, <2>1, <2>2, <3>3, <3>4, <3>5, <3>6 DEF n, w
  <2>4. CASE q # w - 1
    <3>1. s \in Int /\ q + 1 \in Nat /\ q + 1 < w /\ c = s * w + (q + 1) /\ c \in Int
      BY <1>0, <2>1, <2>4
    <3>2. c \div w = s /\ c % w = q + 1
      BY <1>0, <3>1, Divided
    <3>3. r = s /\ p = q + 1
      BY <1>1, <3>2 DEF r, p
    <3>4. At(c) = Flip(s) * w + (q + 1) /\ At(c) \in Int /\ Flip(s) \in Int
      BY <1>0, <2>1, <2>2
    <3>5. At(c) % w = q + 1
      BY <1>0, <3>1, <3>4, Divided
    <3>6. Target(n) = At(c)
      BY <1>1, <3>3, <3>4
    <3>7. At(c) % w # 0
      BY <2>1, <3>5
    <3> QED
      BY <1>3, <2>1, <2>2, <3>3, <3>4, <3>6, <3>7 DEF n, w
  <2> QED
    BY <2>3, <2>4
<1> QED
  BY <1>4, <1>5

(***************************************************************************)
(* tga_parse's header.                                                     *)
(***************************************************************************)
LEMMA BlockIs ==
  ASSUME BootIInv, pciPc = "done", tgaPc = "header"
  PROVE  LET a == Walk(word, last_alloc, Pixels + 2)
             block == Malloc(word, last_alloc, Pixels + 2)
         IN  /\ a \in Nat /\ a >= Drivers /\ a + Pixels + 4 <= Top
             /\ a = last_alloc \/ (a = Drivers /\ devs = Room + 2 /\ DrvRoom >= Pixels + 2)
             /\ block.ptr = a + 2
             /\ block.last = IF a = last_alloc THEN a + Pixels + 5 ELSE last_alloc
             /\ block.mem \in [Memory -> Nat]
             /\ \A x \in Memory : block.mem[x] = IF x \in a + 2 .. a + Pixels + 3 THEN 0
                                                 ELSE IF x = a THEN 1
                                                 ELSE IF x = a + 1 /\ a = last_alloc THEN Pixels + 2 ELSE word[x]
<1> DEFINE a == Walk(word, last_alloc, Pixels + 2)
           block == Malloc(word, last_alloc, Pixels + 2)
<1>1. /\ word \in [Memory -> Nat] /\ last_alloc \in Nat /\ devs \in Nat /\ Headers(word, devs)
      /\ IF devs <= Room + 2 THEN last_alloc = Dev(devs + 1) ELSE last_alloc >= Dev(Room + 3)
      /\ Dev(1) = Drivers + DrvRoom + 3 /\ Drivers \in Nat /\ Dev(devs + 1) \in Nat
      /\ Pixels \in Nat /\ Dev(devs + 1) + Pixels + 5 <= Top
      /\ last_alloc <= Dev(devs + 1) /\ last_alloc >= Dev(1) /\ last_alloc \in 0 .. Top
  BY ScanFacts
<1>2. Pixels + 2 \in Nat /\ DrvRoom \in Nat /\ Top \in Nat
  BY <1>1, Constants
<1>3. a = last_alloc \/ (a = Drivers /\ devs = Room + 2 /\ DrvRoom >= Pixels + 2)
  BY <1>1, <1>2, WalkInScan
<1>4. a \in Nat /\ a >= Drivers /\ a + Pixels + 4 <= Top
  <2> HIDE DEF a
  <2>1. CASE a = last_alloc
    BY <1>1, <1>2, <2>1
  <2>2. CASE a = Drivers
    BY <1>1, <1>2, <2>2
  <2> QED
    BY <1>3, <2>1, <2>2
<1>5. /\ block.ptr = a + HDR
      /\ block.last = IF a = last_alloc THEN a + (Pixels + 2) + HDR + PAD ELSE last_alloc
      /\ block.mem \in [Memory -> Nat]
      /\ \A x \in Memory : block.mem[x] = IF x \in a + HDR .. a + HDR + (Pixels + 2) - 1 THEN 0
                                          ELSE IF x = a THEN 1
                                          ELSE IF x = a + 1 /\ a = last_alloc THEN Pixels + 2 ELSE word[x]
  <2> DEFINE n == Pixels + 2
             b == Walk(word, last_alloc, n)
  <2>1. n \in Nat /\ b \in Nat /\ b = Walk(word, last_alloc, n)
    BY <1>2, <1>4
  <2>2. a = b /\ n = Pixels + 2 /\ block = Malloc(word, last_alloc, n)
    OBVIOUS
  <2> HIDE DEF n, b, a, block
  <2>3. LET mm == Malloc(word, last_alloc, n) IN
        /\ mm.ptr = b + HDR
        /\ mm.last = IF b = last_alloc THEN b + n + HDR + PAD ELSE last_alloc
        /\ mm.mem \in [Memory -> Nat]
        /\ \A x \in Memory : mm.mem[x] = IF x \in b + HDR .. b + HDR + n - 1 THEN 0
                                          ELSE IF x = b THEN 1
                                          ELSE IF x = b + 1 /\ b = last_alloc THEN n ELSE word[x]
    BY <1>1, <2>1, MallocIs
  <2> QED
    BY <2>2, <2>3
<1>6. a + HDR = a + 2 /\ a + (Pixels + 2) + HDR + PAD = a + Pixels + 5 /\ a + HDR + (Pixels + 2) - 1 = a + Pixels + 3
  <2> HIDE DEF a
  <2> QED
    BY <1>1, <1>4 DEF HDR, PAD
<1> QED
  BY <1>3, <1>4, <1>5, <1>6

\* Nothing is left of the scan's conditions once the image has been read.
LEMMA ScanOver ==
  ASSUME BootIInv, pciPc = "done", UNCHANGED pciVars, tgaPc' # "header"
  PROVE  Scanning' /\ Listed' /\ pci_devices = Devices + HDR /\ pciPc' = "done"
<1>1. /\ pciPc' = "done" /\ devs' = devs /\ there' = there /\ at' = at
      /\ pci_devices' = pci_devices /\ dumped' = dumped
  BY DEF pciVars
<1>2. Scanning
  BY DEF BootIInv
<1>3. Found' = Found /\ Listed'
  BY <1>1, FoundSame, ListedKept
<1>4. [k \in 1 .. devs |-> DeviceOf(Found[k])]' = [k \in 1 .. devs |-> DeviceOf(Found[k])]
  BY <1>1, <1>3 DEF DeviceOf, Vendor, Device
<1>5. Devices' = Devices
  BY DEF Devices
<1> QED
  BY <1>1, <1>2, <1>3, <1>4, <1>5 DEF Scanning

\* Outlasts after a step of the image.
LEMMA OutlastsNext ==
  ASSUME UNCHANGED pciVars, img' = img,
         devs <= Room + PAD /\ Len(stream') <= Pixels =>
            /\ Headers(word', devs)
            /\ Entries(word', devs)
            /\ IF Pixels < 1 THEN last_alloc' = Dev(devs + 1) /\ data' = NULL
               ELSE /\ last_alloc' = Dev(devs + 1) + Pixels + 2 + HDR + PAD
                    /\ word'[Dev(devs + 1) + 1] = Pixels + 2
                    /\ data' \in {NULL, Ptr(devs + 1)}
  PROVE  Outlasts'
<1>1. /\ devs' = devs /\ there' = there /\ at' = at /\ pci_devices' = pci_devices
  BY DEF pciVars
<1>2. Found' = Found
  BY <1>1, FoundSame
<1>3. Headers(word, devs)' = Headers(word', devs)
  BY <1>1 DEF Headers, Devices, Drivers, Dev, InUse
<1>4. Entries(word, devs)' = Entries(word', devs)
  BY <1>1, <1>2 DEF Entries, Ptr, Dev, Drivers, Devices, DeviceAt, ReadWord, DeviceOf, Vendor, Device, Memory
<1>5. Pixels' = Pixels /\ Dev(devs + 1)' = Dev(devs + 1) /\ Ptr(devs + 1)' = Ptr(devs + 1) /\ NULL' = NULL
      /\ word[Dev(devs + 1) + 1]' = word'[Dev(devs + 1) + 1]
  BY <1>1 DEF Pixels, Dev, Ptr, Drivers, Devices, NULL
<1> QED
  BY <1>1, <1>3, <1>4, <1>5 DEF Outlasts

LEMMA TypesNext ==
  ASSUME BootIInv, UNCHANGED pciVars, img' = img, word' \in [Memory -> Nat], last_alloc' \in Nat,
         tgaPc' \in {"header", "rows", "packets", "done"},
         data' \in Nat, data' # NULL => data' >= HDR /\ data' + 1 + Pixels <= Top,
         local' \in [x : Nat, y : Nat, i : Int, m : Nat], stream' \in Seq(Nat)
  PROVE  Types'
<1>1. Types /\ pciPc' = pciPc /\ devs' = devs /\ there' = there /\ at' = at
  BY DEF pciVars, BootIInv
<1>2. Memory' = Memory /\ Total' = Total /\ Pixels' = Pixels
  BY DEF Memory, Total, Pixels
<1> QED
  BY <1>1, <1>2 DEF Types, NULL

LEMMA PictureNext ==
  ASSUME img' = img,
         data' # NULL /\ tgaPc' # "rows" /\ Len(stream') <= Pixels =>
            /\ \A n \in 1 .. Pixels :
                  word'[data' + 2 + Target(n)] =
                    IF n > Len(stream') THEN 0
                    ELSE IF img.kind = 2 THEN stream'[n] - HeaderLen ELSE stream'[n]
            /\ tgaPc' = "done" => word'[data'] = img.w /\ word'[data' + 1] = img.h,
         tgaPc' = "done" /\ data' = NULL /\ Pixels > 0 /\ Whole(word', last_alloc') =>
            Malloc(word', last_alloc', Pixels + 2).ptr < last_alloc'
  PROVE  PictureIsTheFile'
<1>1. /\ Pixels' = Pixels /\ NULL' = NULL /\ HeaderLen' = HeaderLen
      /\ Whole(word, last_alloc)' = Whole(word', last_alloc')
      /\ Malloc(word, last_alloc, Pixels + 2)' = Malloc(word', last_alloc', Pixels + 2)
  BY DEF Pixels, NULL, HeaderLen, Whole, Malloc, Walk, Memory, NextHeader, SizeAt, InUse
<1>2. (\A n \in 1 .. Pixels :
         word[data + 2 + Target(n)] = IF n > Len(stream) THEN 0
                    ELSE IF img.kind = 2 THEN stream[n] - HeaderLen ELSE stream[n])'
      <=> (\A n \in 1 .. Pixels :
             word'[data' + 2 + Target(n)] = IF n > Len(stream') THEN 0
                    ELSE IF img.kind = 2 THEN stream'[n] - HeaderLen ELSE stream'[n])
  BY <1>1 DEF Target
<1> QED
  BY <1>1, <1>2 DEF PictureIsTheFile

\* The block of an image that is refused is there for the next request of its
\* size, as long as the chain leads to it.
LEMMA RefusedIsFound ==
  ASSUME BootIInv, pciPc = "done", tgaPc = "header", Pixels > 0,
         NEW mem, NEW last, NEW block, block = Malloc(word, last_alloc, Pixels + 2),
         mem = FreePtr(block.mem, block.ptr), last = block.last, Whole(mem, last)
  PROVE  Malloc(mem, last, Pixels + 2).ptr < last
<1> DEFINE a == Walk(word, last_alloc, Pixels + 2)
           n == Pixels + 2
<1>1. /\ word \in [Memory -> Nat] /\ last_alloc \in Nat /\ devs \in Nat /\ Headers(word, devs)
      /\ IF devs <= Room + 2 THEN last_alloc = Dev(devs + 1) ELSE last_alloc >= Dev(Room + 3)
      /\ Dev(1) = Drivers + DrvRoom + 3 /\ Drivers = Devices + Room + 3 /\ Devices = Base + DescSize + 3
      /\ Drivers \in Nat /\ Devices \in Nat /\ Dev(devs + 1) \in Nat
      /\ Dev(1) \in Nat /\ Dev(devs + 1) = Dev(1) + 7 * devs /\ Dev(Room + 3) = Dev(1) + 7 * (Room + 2)
      /\ Pixels \in Nat /\ Dev(devs + 1) + Pixels + 5 <= Top
      /\ last_alloc <= Dev(devs + 1) /\ last_alloc >= Dev(1) /\ last_alloc \in 0 .. Top
  BY ScanFacts
<1>2. /\ Base \in Nat /\ DescSize \in Nat /\ DescSize > 0 /\ Room \in Nat /\ Room > 0 /\ DrvRoom \in Nat
      /\ DrvRoom >= 4 /\ Top \in Nat /\ Top <= 2 * Base
  BY Constants
<1>3. /\ a \in Nat /\ a >= Drivers /\ a + Pixels + 4 <= Top
      /\ a = last_alloc \/ (a = Drivers /\ devs = Room + 2 /\ DrvRoom >= n)
      /\ block.ptr = a + HDR
      /\ block.last = IF a = last_alloc THEN a + Pixels + 5 ELSE last_alloc
      /\ block.mem \in [Memory -> Nat]
      /\ \A x \in Memory : block.mem[x] = IF x \in a + 2 .. a + Pixels + 3 THEN 0
                                          ELSE IF x = a THEN 1
                                          ELSE IF x = a + 1 /\ a = last_alloc THEN n ELSE word[x]
  BY BlockIs DEF HDR
<1>3n. n \in Nat /\ n = Pixels + 2
  BY <1>1
<1> HIDE DEF a, n
<1>3m. \A x \in Nat : x <= a + 1 \/ x <= Dev(1) \/ x <= Dev(devs + 1) => x \in Memory
  <2>1. a + 1 <= Top /\ Dev(1) <= Top /\ Dev(devs + 1) <= Top
    BY <1>1, <1>2, <1>3
  <2>2. \A x \in Nat : x <= Top => x \in Memory
    BY <1>2 DEF Memory
  <2>3. a + 1 \in Nat /\ Dev(1) \in Nat /\ Dev(devs + 1) \in Nat /\ Top \in Nat
    BY <1>1, <1>2, <1>3
  <2> QED
    BY <2>1, <2>2, <2>3
<1>4. a \in Memory /\ a + 1 \in Memory
  BY <1>3, <1>3m
<1>5. /\ mem \in [Memory -> Nat]
      /\ \A x \in Memory : mem[x] = IF x = a THEN 0 ELSE block.mem[x]
  <2>1. mem = FreePtr(block.mem, a + HDR) /\ block.mem \in [Memory -> Nat]
    BY <1>3
  <2> QED
    BY <1>4, <2>1, FreeIs
<1>6. /\ mem[a] = 0 /\ (a = last_alloc => mem[a + 1] = n) /\ (a # last_alloc => mem[a + 1] = word[a + 1])
      /\ \A x \in Memory : x < a => mem[x] = word[x]
  <2>1. a + 1 \notin a + 2 .. a + Pixels + 3 /\ a + 1 # a
    BY <1>3
  <2>2. \A x \in Memory : x < a => x \notin a + 2 .. a + Pixels + 3 /\ x # a /\ x # a + 1
    BY <1>3 DEF Memory
  <2> QED
    BY <1>3, <1>4, <1>5, <2>1, <2>2
<1>7. ~ InUse(mem, a)
  <2>1. 0 % LowByte = 0
    <3>1. LowByte \in Nat /\ LowByte > 0 /\ 0 = 0 * LowByte + 0 /\ 0 \in Int /\ 0 \in Nat
      BY WordsAssumption
    <3> QED
      BY <3>1, Divided
  <2> QED
    BY <1>6, <2>1 DEF InUse
<1>8. last \in Nat /\ last <= Top /\ last \in 0 .. Top
  BY <1>1, <1>2, <1>3
<1>9. /\ Malloc(mem, last, n).ptr = Walk(mem, last, n) + HDR
  BY DEF Malloc
<1>10. CASE devs <= Room + 2
  <2>1. Headers(mem, devs)
    <3>1. CASE a = last_alloc
      <4>1. \A x \in Memory : x < Dev(devs + 1) => mem[x] = word[x]
        BY <1>1, <1>6, <1>10, <3>1
      <4>2. Dev(devs + 1) <= Top /\ Types
        BY <1>1, <1>2 DEF BootIInv
      <4> QED
        BY <1>1, <1>10, <4>1, <4>2, KeptBelow
    <3>2. CASE a = Drivers /\ devs = Room + 2 /\ DrvRoom >= n
      <4>0. a # last_alloc
        BY <1>1, <1>2, <3>2
      <4>1. \A x \in {Base, Base + 1, Devices, Devices + 1} : x \in Memory /\ x < a
        BY <1>1, <1>2, <1>3m, <3>2
      <4>2. mem[Base] = 1 /\ mem[Base + 1] = DescSize /\ mem[Devices] = 1 /\ mem[Devices + 1] = Room
        BY <1>1, <1>6, <4>1, HeadersIs
      <4>3. devs <= Room + 2 => mem[Drivers + 1] = DrvRoom
        BY <1>1, <1>6, <3>2, <4>0, HeadersIs
      <4>4. ASSUME NEW k \in 1 .. devs PROVE mem[Dev(k)] = 1 /\ mem[Dev(k) + 1] = 4
        <5>1. Dev(k) = Dev(1) + 7 * (k - 1) /\ Dev(k) \in Nat /\ k \in Nat /\ k >= 1 /\ k <= devs
          BY <1>1, DevIs
        <5>2. Dev(k) \in Memory /\ Dev(k) + 1 \in Memory
          <6>1. Dev(k) <= Dev(devs + 1) /\ Dev(k) + 1 <= Dev(devs + 1) /\ Dev(k) + 1 \in Nat
            BY <1>1, <5>1
          <6> QED
            BY <1>3m, <5>1, <6>1
        <5>3. Dev(k) > a + Pixels + 3 /\ Dev(k) + 1 > a + Pixels + 3 /\ a + Pixels + 3 \in Nat
          BY <1>1, <1>2, <1>3, <1>3n, <3>2, <5>1
        <5>4. \A x \in {Dev(k), Dev(k) + 1} : x \notin a + 2 .. a + Pixels + 3 /\ x # a
          BY <1>1, <1>3, <5>1, <5>3
        <5>5. mem[Dev(k)] = word[Dev(k)] /\ mem[Dev(k) + 1] = word[Dev(k) + 1]
          BY <1>3, <1>5, <4>0, <5>2, <5>4
        <5>6. word[Dev(k)] = 1 /\ word[Dev(k) + 1] = 4
          BY <1>1, <1>10, HeadersIs
        <5> QED
          BY <5>5, <5>6
      <4> QED
        BY <1>10, <3>2, <4>2, <4>3, <4>4, HeadersIs
    <3> QED
      BY <1>3, <3>1, <3>2
  <2>2. Links(mem, Dev(devs + 1), Hdrs(devs))
    BY <1>1, <1>5, <1>10, <2>1, HeadersLink
  <2>3. CASE a = last_alloc
    <3>1. a = Dev(devs + 1) /\ SizeAt(mem, a) = n /\ n \in Nat /\ n > 0 /\ last = a + Pixels + 5
      BY <1>1, <1>3, <1>3n, <1>6, <1>10, <2>3 DEF SizeAt
    <3>2. NextHeader(mem, a) = last
      BY <1>1, <1>3, <1>3n, <3>1 DEF NextHeader, HDR, PAD
    <3>3. Links(mem, last, Hdrs(devs) \cup {a})
      BY <1>3, <2>2, <3>1, <3>2, LinksExtend
    <3>4. Fits(mem, a, n)
      BY <1>7, <3>1 DEF Fits
    <3>5. Walk(mem, last, n) \in Hdrs(devs) \cup {a}
      BY <1>5, <1>8, <3>1, <3>3, <3>4, WalkOnLinks
    <3>6. \A b \in Hdrs(devs) \cup {a} : b \in Nat /\ b <= a
      <4>1. \A b \in Hdrs(devs) : b \in Nat /\ b < Dev(devs + 1)
        BY <2>2 DEF Links
      <4> QED
        BY <1>1, <1>3, <3>1, <4>1
    <3> QED
      BY <1>1, <1>3, <1>3n, <1>9, <3>1, <3>5, <3>6 DEF HDR
  <2>4. CASE a = Drivers /\ devs = Room + 2 /\ DrvRoom >= n
    <3>1. last = Dev(devs + 1) /\ a # last_alloc
      BY <1>1, <1>2, <1>3, <1>10, <2>4
    <3>2. Fits(mem, Drivers, n) /\ Drivers \in Hdrs(devs)
      <4>1. SizeAt(mem, Drivers) = DrvRoom
        BY <1>1, <1>6, <1>10, <2>4, <3>1, HeadersIs DEF SizeAt
      <4> QED
        BY <1>7, <2>4, <4>1 DEF Fits, Hdrs
    <3>3. Walk(mem, last, n) \in Hdrs(devs) /\ n \in Nat
      BY <1>1, <1>3n, <1>5, <1>8, <2>2, <3>1, <3>2, WalkOnLinks
    <3>4. \A b \in Hdrs(devs) : b \in Nat /\ b + 2 < last
      <4>1. \A b \in {Base, Devices, Drivers} : b \in Nat /\ b + 2 < last
        BY <1>1, <1>2, <3>1
      <4>2. ASSUME NEW k \in 1 .. devs PROVE Dev(k) \in Nat /\ Dev(k) + 2 < last
        <5>1. Dev(k) = Dev(1) + 7 * (k - 1) /\ Dev(k) \in Nat /\ k \in Nat /\ k >= 1 /\ k <= devs
          BY <1>1, DevIs
        <5> QED
          BY <1>1, <3>1, <5>1
      <4> QED
        BY <4>1, <4>2 DEF Hdrs
    <3> QED
      BY <1>3n, <1>9, <3>3, <3>4 DEF HDR
  <2> QED
    BY <1>3, <2>3, <2>4
<1>11. CASE ~ (devs <= Room + 2)
  <2>0. a = last_alloc /\ last = a + Pixels + 5
    BY <1>1, <1>2, <1>3, <1>11
  <2> DEFINE chain == ChainFrom(mem, last)
  <2>1. \A x \in Nat : chain[x] = ChainAt(chain, mem, last, x)
    BY <1>5, <1>8, ChainExists
  <2> HIDE DEF chain
  <2>2. \A x \in {Base, Base + 1, Devices, Devices + 1, Drivers, Drivers + 1} : x \in Memory /\ x < a
    BY <1>1, <1>2, <1>3m, <2>0
  <2>3. mem[Base + 1] = DescSize /\ mem[Devices + 1] = Room /\ mem[Drivers + 1] >= Base /\ mem[Drivers + 1] \in Nat
    BY <1>1, <1>5, <1>6, <1>11, <2>2, HeadersIs
  <2>4. /\ NextHeader(mem, Base) = Devices /\ NextHeader(mem, Devices) = Drivers
    BY <1>1, <1>2, <2>3 DEF NextHeader, SizeAt, HDR, PAD
  <2>5. NextHeader(mem, Drivers) \in Nat /\ NextHeader(mem, Drivers) > last
    <3>1. \A p, q, r, s, t \in Nat : p <= t /\ t <= 2 * q /\ r >= q /\ s >= q => r + s + 3 > p /\ r + s + 3 \in Nat
      OBVIOUS
    <3>2. NextHeader(mem, Drivers) = Drivers + mem[Drivers + 1] + 3
      BY <1>1, <2>3 DEF NextHeader, SizeAt, HDR, PAD
    <3>3. Drivers \in Nat /\ Drivers >= Base
      BY <1>1, <1>2
    <3> QED
      BY <1>2, <1>8, <2>3, <3>1, <3>2, <3>3
  <2>6. chain[Base] => chain[Devices]
    <3>1. chain[Base] = ChainAt(chain, mem, last, Base)
      BY <1>2, <2>1
    <3>2. Base # last
      BY <1>1, <1>2, <1>3, <2>0
    <3> QED
      BY <2>4, <3>1, <3>2 DEF ChainAt
  <2>7. chain[Devices] => chain[Drivers]
    <3>1. chain[Devices] = ChainAt(chain, mem, last, Devices)
      BY <1>1, <2>1
    <3>2. Devices # last
      BY <1>1, <1>2, <1>3, <2>0
    <3> QED
      BY <2>4, <3>1, <3>2 DEF ChainAt
  <2>8. chain[Drivers] => chain[NextHeader(mem, Drivers)]
    <3>1. chain[Drivers] = ChainAt(chain, mem, last, Drivers)
      BY <1>1, <2>1
    <3>2. Drivers # last
      BY <1>1, <1>2, <1>3, <2>0
    <3> QED
      BY <3>1, <3>2 DEF ChainAt
  <2>9. ~ chain[NextHeader(mem, Drivers)]
    <3> DEFINE y == NextHeader(mem, Drivers)
    <3>1. y \in Nat /\ y > last
      BY <2>5
    <3> HIDE DEF y
    <3>2. chain[y] = ChainAt(chain, mem, last, y)
      BY <2>1, <3>1
    <3>3. y # last /\ ~ (y < last)
      BY <1>8, <3>1
    <3>4. ~ chain[y]
      BY <3>2, <3>3 DEF ChainAt
    <3> QED
      BY <3>4 DEF y
  <2>10. chain[Base]
    BY WholeIs DEF chain
  <2> QED
    BY <2>6, <2>7, <2>8, <2>9, <2>10
<1> QED
  BY <1>10, <1>11

LEMMA HeaderStep ==
  ASSUME BootIInv, Header, pciPc = "done", UNCHANGED pciVars
  PROVE  BootIInv'
<1> DEFINE block == Malloc(word, last_alloc, Pixels + 2)
           a == Walk(word, last_alloc, Pixels + 2)
<1>1. /\ tgaPc = "header" /\ img' = img /\ stream' = stream /\ tgaPc' # "header"
      /\ data = NULL /\ stream = <<>> /\ local = [x |-> 0, y |-> 0, i |-> 0, m |-> 0]
  BY DEF Header, BootIInv, Decoding
<1>2. /\ word \in [Memory -> Nat] /\ last_alloc \in Nat /\ devs \in Nat /\ img \in Images
      /\ pci_devices = Devices + 2 /\ Headers(word, devs) /\ Entries(word, devs)
      /\ (devs <= Room + 2 => last_alloc = Dev(devs + 1))
      /\ Dev(devs + 1) \in Nat
      /\ Pixels \in Nat /\ Dev(devs + 1) + Pixels + 5 <= Top
      /\ last_alloc <= Dev(devs + 1)
  BY <1>1, ScanFacts
<1>3. Types /\ Room \in Nat /\ Top \in Nat
  BY Constants DEF BootIInv
<1>4. Scanning' /\ Listed'
  BY <1>1, ScanOver
<1>5. img.w \in Nat /\ img.h \in Nat /\ Pixels = img.w * img.h /\ img.supported \in BOOLEAN
  BY <1>2, ImageIs
<1>6. Pixels' = Pixels
  BY <1>1 DEF Pixels
<1>7. CASE img.w < 1 \/ img.h < 1
  <2>1. tgaPc' = "done" /\ data' = data /\ local' = local /\ word' = word /\ last_alloc' = last_alloc
    BY <1>7 DEF Header
  <2>2. Pixels = 0
    <3>1. \A u \in Nat : 0 * u = 0 /\ u * 0 = 0
      OBVIOUS
    <3>2. img.w = 0 \/ img.h = 0
      BY <1>5, <1>7
    <3> QED
      BY <1>5, <3>1, <3>2
  <2>3. Types'
    BY <1>1, <1>2, <1>3, <2>1, TypesNext DEF Types
  <2>4. Outlasts'
    <3>1. devs <= Room + PAD => devs <= Room + 2
      BY <1>2, <1>3 DEF PAD
    <3> QED
      BY <1>1, <1>2, <2>1, <2>2, <3>1, OutlastsNext
  <2>5. Decoding'
    BY <1>1, <2>1 DEF Decoding, NULL
  <2>6. PictureIsTheFile'
    BY <1>1, <2>1, <2>2, PictureNext DEF NULL
  <2> QED
    BY <1>4, <2>3, <2>4, <2>5, <2>6 DEF BootIInv
<1>8. CASE ~ (img.w < 1 \/ img.h < 1)
  <2>0. /\ last_alloc' = block.last
        /\ IF img.supported /\ img.kind \in {1, 2, 9, 10}
           THEN /\ word' = block.mem /\ data' = block.ptr
                /\ local' = [local EXCEPT !.m = HeaderLen]
                /\ tgaPc' = IF Compressed THEN "packets" ELSE "rows"
           ELSE /\ word' = FreePtr(block.mem, block.ptr) /\ tgaPc' = "done"
                /\ data' = data /\ local' = local
    BY <1>1, <1>8 DEF Header, Refuse
  <2>1. Pixels > 0 /\ img.w > 0 /\ img.h > 0
    <3>1. \A u, v \in Nat : u > 0 /\ v > 0 => u * v > 0
      OBVIOUS
    <3>2. img.w > 0 /\ img.h > 0
      BY <1>5, <1>8
    <3> QED
      BY <1>5, <3>1, <3>2
  <2>2. /\ a \in Nat /\ a >= Drivers /\ a + Pixels + 4 <= Top
        /\ a = last_alloc \/ (a = Drivers /\ devs = Room + 2 /\ DrvRoom >= Pixels + 2)
        /\ block.ptr = a + 2
        /\ block.last = IF a = last_alloc THEN a + Pixels + 5 ELSE last_alloc
        /\ block.mem \in [Memory -> Nat]
        /\ \A x \in Memory : block.mem[x] = IF x \in a + 2 .. a + Pixels + 3 THEN 0
                                            ELSE IF x = a THEN 1
                                            ELSE IF x = a + 1 /\ a = last_alloc THEN Pixels + 2 ELSE word[x]
    BY <1>1, BlockIs
  <2> HIDE DEF a
  <2>3. \A x \in Nat : x <= a + Pixels + 4 => x \in Memory
    BY <1>2, <1>3, <2>2 DEF Memory
  <2>4. last_alloc' \in Nat
    BY <1>2, <2>0, <2>2
  <2>5. ASSUME devs <= Room + 1
        PROVE  /\ a = last_alloc /\ a = Dev(devs + 1) /\ last_alloc' = Dev(devs + 1) + Pixels + 2 + HDR + PAD
               /\ \A mem : (\A x \in Memory : x < a => mem[x] = word[x]) => Headers(mem, devs) /\ Entries(mem, devs)
    <3>1. a = last_alloc /\ a = Dev(devs + 1) /\ devs <= Room + 2
      BY <1>2, <1>3, <2>2, <2>5
    <3>2. last_alloc' = Dev(devs + 1) + Pixels + 2 + HDR + PAD
      BY <1>2, <2>0, <2>2, <3>1 DEF HDR, PAD
    <3>3. ASSUME NEW mem, \A x \in Memory : x < a => mem[x] = word[x]
          PROVE  Headers(mem, devs) /\ Entries(mem, devs)
      <4>1. Dev(devs + 1) <= Top
        BY <1>2, <1>3
      <4> QED
        BY <1>2, <1>3, <2>5, <3>1, <3>3, <4>1, KeptBelow
    <3> QED
      BY <3>1, <3>2, <3>3
  <2>6. \A x \in Memory : x < a => block.mem[x] = word[x]
    BY <2>2 DEF Memory
  <2>7. a + 1 \in Memory /\ (a = last_alloc => block.mem[a + 1] = Pixels + 2)
    <3>1. a + 1 \in Memory /\ a + 1 \notin a + 2 .. a + Pixels + 3 /\ a + 1 # a
      BY <1>2, <2>2, <2>3
    <3> QED
      BY <2>2, <3>1
  <2>8. devs <= Room + PAD => devs <= Room + 1
    BY DEF PAD
  <2>9. Ptr(devs + 1) = Dev(devs + 1) + 2
    BY <1>2, Layout
  <2>10. CASE img.supported /\ img.kind \in {1, 2, 9, 10}
    <3>1. /\ word' = block.mem /\ data' = a + 2 /\ tgaPc' \in {"rows", "packets"}
          /\ local' = [x |-> 0, y |-> 0, i |-> 0, m |-> HeaderLen]
          /\ tgaPc' = "packets" => img.kind \in {9, 10}
          /\ tgaPc' = "rows" => img.kind \in {1, 2}
      BY <1>1, <2>0, <2>2, <2>10 DEF Compressed
    <3>2. Types'
      <4>1. data' \in Nat /\ data' >= HDR /\ data' + 1 + Pixels <= Top
        BY <1>2, <1>3, <2>2, <3>1 DEF HDR
      <4>2. local' \in [x : Nat, y : Nat, i : Int, m : Nat] /\ stream' \in Seq(Nat)
        BY <1>1, <3>1 DEF HeaderLen
      <4> QED
        BY <1>1, <2>2, <2>4, <3>1, <4>1, <4>2, TypesNext
    <3>3. Outlasts'
      <4>1. devs <= Room + 1 => /\ Headers(word', devs) /\ Entries(word', devs)
                                /\ last_alloc' = Dev(devs + 1) + Pixels + 2 + HDR + PAD
                                /\ word'[Dev(devs + 1) + 1] = Pixels + 2
                                /\ data' = Ptr(devs + 1)
        BY <2>5, <2>6, <2>7, <2>9, <3>1
      <4>2. ~ (Pixels < 1)
        BY <1>2, <2>1
      <4> QED
        BY <1>1, <2>8, <4>1, <4>2, OutlastsNext
    <3>4. Decoding'
      <4>1. Len(stream') = 0 /\ stream' = <<>>
        BY <1>1
      <4>2. RowsTo(Len(stream))' = 0 /\ At(Len(stream))' = 0
        BY <4>1 DEF RowsTo, At
      <4>3. data' # NULL'
        BY <2>2, <3>1 DEF NULL
      <4>4. local'.x = 0 /\ local'.y = 0 /\ local'.i = 0 /\ local'.m = HeaderLen
        BY <3>1
      <4>5. tgaPc' # "header" /\ tgaPc' # "done"
        BY <3>1
      <4> QED
        BY <1>1, <1>6, <2>1, <3>1, <4>1, <4>2, <4>3, <4>4, <4>5 DEF Decoding, HeaderLen
    <3>5. PictureIsTheFile'
      <4>1. ASSUME NEW n \in 1 .. Pixels PROVE word'[data' + 2 + Target(n)] = 0 /\ n > Len(stream')
        <5>1. Target(n) \in 0 .. Pixels - 1
          BY <1>2, <2>1, TargetInside
        <5>2. data' + 2 + Target(n) \in a + 2 .. a + Pixels + 3 /\ data' + 2 + Target(n) \in Memory
          BY <1>2, <2>2, <2>3, <3>1, <5>1
        <5>3. Len(stream') = 0
          BY <1>1
        <5> QED
          BY <2>2, <3>1, <5>2, <5>3
      <4>2. tgaPc' # "done"
        BY <3>1
      <4> QED
        BY <1>1, <4>1, <4>2, PictureNext
    <3> QED
      BY <1>4, <3>2, <3>3, <3>4, <3>5 DEF BootIInv
  <2>11. CASE ~ (img.supported /\ img.kind \in {1, 2, 9, 10})
    <3>1. word' = FreePtr(block.mem, a + HDR) /\ tgaPc' = "done" /\ data' = NULL /\ local' = local
      <4>1. block.ptr = a + HDR
        BY <2>2 DEF HDR
      <4> QED
        BY <1>1, <2>0, <2>11, <4>1
    <3>2. word' \in [Memory -> Nat] /\ \A x \in Memory : word'[x] = IF x = a THEN 0 ELSE block.mem[x]
      <4>1. a \in Memory
        BY <1>2, <2>2, <2>3
      <4> QED
        BY <2>2, <3>1, <4>1, FreeIs
    <3>3. Types'
      BY <1>1, <1>3, <2>4, <3>1, <3>2, TypesNext DEF Types, NULL
    <3>4. Outlasts'
      <4>1. \A x \in Memory : x < a => word'[x] = word[x]
        BY <2>2, <2>6, <3>2
      <4>2. a = last_alloc => word'[a + 1] = Pixels + 2
        BY <2>2, <2>7, <3>2
      <4>3. devs <= Room + 1 => /\ Headers(word', devs) /\ Entries(word', devs)
                                /\ last_alloc' = Dev(devs + 1) + Pixels + 2 + HDR + PAD
                                /\ word'[Dev(devs + 1) + 1] = Pixels + 2
        BY <2>5, <4>1, <4>2
      <4>4. ~ (Pixels < 1)
        BY <1>2, <2>1
      <4> QED
        BY <1>1, <2>8, <3>1, <4>3, <4>4, OutlastsNext
    <3>5. Decoding'
      BY <1>1, <3>1 DEF Decoding, NULL
    <3>6. PictureIsTheFile'
      <4>1. word' = FreePtr(block.mem, block.ptr) /\ last_alloc' = block.last
        BY <2>0, <2>11
      <4>2. Whole(word', last_alloc') => Malloc(word', last_alloc', Pixels + 2).ptr < last_alloc'
        BY <1>1, <2>1, <4>1, RefusedIsFound
      <4> QED
        BY <1>1, <3>1, <4>2, PictureNext DEF NULL
    <3> QED
      BY <1>4, <3>3, <3>4, <3>5, <3>6 DEF BootIInv
  <2> QED
    BY <2>10, <2>11
<1> QED
  BY <1>7, <1>8

(***************************************************************************)
(* The pixels.                                                             *)
(***************************************************************************)
LEMMA DecodingFacts ==
  ASSUME BootIInv, tgaPc \in {"rows", "packets"}
  PROVE  /\ word \in [Memory -> Nat] /\ last_alloc \in Nat /\ img \in Images
         /\ img.w \in Nat /\ img.h \in Nat /\ img.w > 0 /\ img.h > 0 /\ Pixels \in Nat /\ Pixels > 0
         /\ data \in Nat /\ data >= 2 /\ data # NULL /\ data + 1 + Pixels <= Top /\ Top \in Nat
         /\ \A x \in Nat : x <= data + 1 + Pixels => x \in Memory
         /\ local \in [x : Nat, y : Nat, i : Int, m : Nat] /\ stream \in Seq(Nat) /\ Len(stream) \in Nat
<1>1. /\ word \in [Memory -> Nat] /\ last_alloc \in Nat /\ img \in Images
      /\ data \in Nat /\ (data # NULL => data >= 2 /\ data + 1 + Pixels <= Top)
      /\ local \in [x : Nat, y : Nat, i : Int, m : Nat] /\ stream \in Seq(Nat)
  BY DEF BootIInv, Types, HDR
<1>2. data # NULL /\ Pixels > 0 /\ img.w > 0 /\ img.h > 0
  BY DEF BootIInv, Decoding
<1>3. img.w \in Nat /\ img.h \in Nat /\ Pixels \in Nat
  BY <1>1, ImageIs
<1>4. \A x \in Nat : x <= data + 1 + Pixels => x \in Memory
  BY <1>1, <1>2, <1>3, Constants DEF Memory
<1>5. Len(stream) \in Nat
  BY <1>1
<1> QED
  BY <1>1, <1>2, <1>3, <1>4, <1>5, Constants

\* Nothing in front of the image's block changes as long as it does not overrun.
LEMMA WrittenInside ==
  ASSUME BootIInv, tgaPc \in {"rows", "packets"}, UNCHANGED pciVars,
         img' = img, data' = data, last_alloc' = last_alloc,
         Len(stream') <= Pixels => Len(stream) <= Pixels /\ \A x \in Memory : x < data => word'[x] = word[x]
  PROVE  Outlasts'
<1>1. /\ Pixels \in Nat /\ Pixels > 0 /\ data # NULL /\ data \in Nat /\ data + 1 + Pixels <= Top /\ Top \in Nat
  BY DecodingFacts
<1>2. ASSUME devs <= Room + PAD, Len(stream') <= Pixels
      PROVE  /\ Headers(word', devs) /\ Entries(word', devs)
             /\ last_alloc' = Dev(devs + 1) + Pixels + 2 + HDR + PAD
             /\ word'[Dev(devs + 1) + 1] = Pixels + 2
             /\ data' \in {NULL, Ptr(devs + 1)}
  <2>1. /\ Headers(word, devs) /\ Entries(word, devs) /\ data = Ptr(devs + 1)
        /\ last_alloc = Dev(devs + 1) + Pixels + 2 + HDR + PAD /\ word[Dev(devs + 1) + 1] = Pixels + 2
    BY <1>1, <1>2 DEF BootIInv, Outlasts
  <2>2. Types /\ devs \in Nat /\ devs <= Room + 1 /\ Room \in Nat
    BY <1>2, Constants DEF BootIInv, Types, PAD
  <2>3. Dev(1) \in Nat
    BY <2>2, TablesFit
  <2>4. Dev(devs + 1) \in Nat /\ data = Dev(devs + 1) + 2
    BY <2>1, <2>2, <2>3, DevIs
  <2>5. Dev(devs + 1) <= Top /\ Dev(devs + 1) + 1 \in Memory /\ Dev(devs + 1) + 1 < data
    BY <1>1, <2>4 DEF Memory
  <2>6. \A x \in Memory : x < Dev(devs + 1) => word'[x] = word[x]
    BY <1>2, <2>4 DEF Memory
  <2>7. pciPc = "done" /\ pci_devices = Devices + 2
    BY DEF BootIInv, Scanning, HDR
  <2>8. devs <= Room + 2
    BY <2>2
  <2>9. Headers(word', devs) /\ Entries(word', devs)
    BY <2>1, <2>2, <2>5, <2>6, <2>7, <2>8, KeptBelow
  <2>10. word'[Dev(devs + 1) + 1] = Pixels + 2
    BY <1>2, <2>1, <2>5
  <2> QED
    BY <2>1, <2>9, <2>10
<1> QED
  BY <1>1, <1>2, OutlastsNext

LEMMA FinishIs ==
  ASSUME NEW mem \in [Memory -> Nat], img.w \in Nat, img.h \in Nat, data \in Memory, data + 1 \in Memory, data \in Nat
  PROVE  /\ Finish(mem) \in [Memory -> Nat]
         /\ Finish(mem)[data] = img.w /\ Finish(mem)[data + 1] = img.h
         /\ \A x \in Memory : x # data /\ x # data + 1 => Finish(mem)[x] = mem[x]
  BY DEF Finish

LEMMA RowsStep ==
  ASSUME BootIInv, Rows, pciPc = "done", UNCHANGED pciVars
  PROVE  BootIInv'
<1>1. /\ tgaPc = "rows" /\ tgaPc' = "done" /\ img' = img /\ data' = data /\ local' = local
      /\ last_alloc' = last_alloc
      /\ stream' = [n \in 1 .. Pixels |-> local.m + (n - 1) * PixelLen]
  BY DEF Rows
<1>2. /\ word \in [Memory -> Nat] /\ last_alloc \in Nat /\ img \in Images
      /\ img.w \in Nat /\ img.h \in Nat /\ img.w > 0 /\ img.h > 0 /\ Pixels \in Nat /\ Pixels > 0
      /\ data \in Nat /\ data >= 2 /\ data # NULL /\ data + 1 + Pixels <= Top /\ Top \in Nat
      /\ \A x \in Nat : x <= data + 1 + Pixels => x \in Memory
      /\ local \in [x : Nat, y : Nat, i : Int, m : Nat]
  BY <1>1, DecodingFacts
<1>3. img.kind \in {1, 2} /\ stream = <<>> /\ local.m = HeaderLen /\ Types
  BY <1>1 DEF BootIInv, Decoding
<1>4. PixelLen \in Nat /\ local.m = 18 /\ PixelLen = (IF img.kind = 1 THEN 1 ELSE 3)
  BY <1>3 DEF PixelLen, HeaderLen
<1> DEFINE from(n) == (IF img.kind = 1 THEN local.m ELSE 0)
                        + (RowStart(n \div img.w) + (n % img.w)) * PixelLen
           filled == [w \in Memory |-> IF w \in data + 2 .. data + 1 + Pixels THEN from(w - data - 2) ELSE word[w]]
<1>5. word' = Finish(filled)
  BY <1>1 DEF Rows
<1>6. \A k \in 1 .. Pixels : from(Target(k)) = (IF img.kind = 1 THEN 18 ELSE 0) + (k - 1) * PixelLen
  <2> SUFFICES ASSUME NEW k \in 1 .. Pixels
               PROVE  from(Target(k)) = (IF img.kind = 1 THEN 18 ELSE 0) + (k - 1) * PixelLen
    OBVIOUS
  <2> DEFINE r == (k - 1) \div img.w
             c == (k - 1) % img.w
  <2>1. /\ r \in Nat /\ c \in Nat /\ k - 1 = r * img.w + c /\ Flip(Flip(r)) = r /\ Flip(r) \in Int
        /\ Target(k) \div img.w = Flip(r) /\ Target(k) % img.w = c
    <3>1. k \in Nat /\ k >= 1
      BY <1>2
    <3> QED
      BY <1>2, <3>1, TargetIs
  <2> HIDE DEF r, c
  <2>2. RowStart(Flip(r)) = r * img.w
    <3>1. RowStart(Flip(r)) = Flip(Flip(r)) * img.w
      BY <1>2, <2>1 DEF RowStart, Flip
    <3> QED
      BY <2>1, <3>1
  <2>3. RowStart(Target(k) \div img.w) + (Target(k) % img.w) = k - 1
    BY <2>1, <2>2
  <2> QED
    BY <1>4, <2>3
\* Every place is the target of some pixel, so all of them are numbers.
<1>7. \A t \in 0 .. Pixels - 1 : from(t) \in Nat
  <2> SUFFICES ASSUME NEW t \in 0 .. Pixels - 1 PROVE from(t) \in Nat
    OBVIOUS
  <2> DEFINE w == img.w
             h == img.h
             r == t \div w
             c == t % w
  <2>1. t \in Nat /\ t < w * h /\ w \in Nat /\ w > 0 /\ h \in Nat
    BY <1>2, ImageIs
  <2> HIDE DEF w, h
  <2>2. r \in Nat /\ c \in 0 .. w - 1 /\ t = r * w + c
    BY <2>1, Division
  <2> HIDE DEF r, c
  <2>3. r < h
    <3> SUFFICES ASSUME r >= h PROVE FALSE
      BY <2>1, <2>2
    <3>1. PICK d \in Nat : r = h + d
      BY <2>1, <2>2, r - h \in Nat, r = h + (r - h)
    <3>2. r * w = w * h + d * w /\ d * w \in Nat /\ w * h \in Nat
      BY <2>1, <3>1
    <3> QED
      BY <2>1, <2>2, <3>2
  <2>4. RowStart(r) \in Nat
    <3>1. RowStart(r) = (IF img.o = 0 THEN h - r - 1 ELSE r) * w
      BY DEF RowStart, w, h
    <3>2. h - r - 1 \in Nat
      BY <2>1, <2>2, <2>3
    <3>3. \A u \in Nat : u * w \in Nat
      BY <2>1
    <3> QED
      BY <2>2, <3>1, <3>2, <3>3
  <2>5. from(t) = (IF img.kind = 1 THEN local.m ELSE 0) + (RowStart(r) + c) * PixelLen
    BY DEF r, c, w
  <2>6. \A u, v, x \in Nat : x + (u + v) * PixelLen \in Nat
    BY <1>4
  <2>7. c \in Nat /\ (IF img.kind = 1 THEN local.m ELSE 0) \in Nat
    BY <1>4, <2>1, <2>2
  <2> QED
    BY <2>4, <2>5, <2>6, <2>7
<1>8. /\ filled \in [Memory -> Nat]
      /\ \A x \in Memory : filled[x] = IF x \in data + 2 .. data + 1 + Pixels THEN from(x - data - 2) ELSE word[x]
  <2> HIDE DEF from
  <2>1. \A x \in Memory : x \in data + 2 .. data + 1 + Pixels => from(x - data - 2) \in Nat
    <3> SUFFICES ASSUME NEW x \in data + 2 .. data + 1 + Pixels PROVE from(x - data - 2) \in Nat
      OBVIOUS
    <3>1. x - data - 2 \in 0 .. Pixels - 1
      BY <1>2
    <3> QED
      BY <1>7, <3>1
  <2> QED
    BY <1>2, <2>1
<1> HIDE DEF filled, from
<1>9. data \in Memory /\ data + 1 \in Memory
  BY <1>2
<1>10. /\ word' \in [Memory -> Nat] /\ word'[data] = img.w /\ word'[data + 1] = img.h
       /\ \A x \in Memory : x # data /\ x # data + 1 => word'[x] = filled[x]
  BY <1>2, <1>5, <1>8, <1>9, FinishIs
<1>11. stream' \in Seq(Nat) /\ Len(stream') = Pixels
  <2>1. \A n \in 1 .. Pixels : local.m + (n - 1) * PixelLen \in Nat
    <3>1. \A u \in Nat : 18 + u * PixelLen \in Nat
      BY <1>4
    <3>2. \A n \in 1 .. Pixels : n - 1 \in Nat
      BY <1>2
    <3> QED
      BY <1>4, <3>1, <3>2
  <2> DEFINE g == [n \in 1 .. Pixels |-> local.m + (n - 1) * PixelLen]
  <2>2. g \in [1 .. Pixels -> Nat]
    BY <2>1
  <2>3. stream' = g
    BY <1>1
  <2> HIDE DEF g
  <2> QED
    BY <1>2, <2>2, <2>3
<1>12. Types'
  BY <1>1, <1>2, <1>3, <1>10, <1>11, TypesNext DEF Types, NULL
<1>13. Outlasts'
  <2>1. \A x \in Memory : x < data => word'[x] = word[x]
    <3> SUFFICES ASSUME NEW x \in Memory, x < data PROVE word'[x] = word[x]
      OBVIOUS
    <3>1. x \notin data + 2 .. data + 1 + Pixels /\ x # data /\ x # data + 1
      BY <1>2 DEF Memory
    <3> QED
      BY <1>8, <1>10, <3>1
  <2>2. Len(stream) <= Pixels
    BY <1>2, <1>3
  <2> QED
    BY <1>1, <2>1, <2>2, WrittenInside
<1>14. Decoding'
  BY <1>1, <1>2 DEF Decoding
<1>15. PictureIsTheFile'
  <2>1. ASSUME NEW n \in 1 .. Pixels
        PROVE  word'[data + 2 + Target(n)] = IF img.kind = 2 THEN stream'[n] - HeaderLen ELSE stream'[n]
    <3>1. Target(n) \in 0 .. Pixels - 1
      BY <1>2, TargetInside
    <3> DEFINE t == Target(n)
               p == data + 2 + t
    <3>2. /\ p \in data + 2 .. data + 1 + Pixels /\ p \in Memory /\ p # data /\ p # data + 1
          /\ p - data - 2 = t
      <4>1. t \in 0 .. Pixels - 1
        BY <3>1
      <4> HIDE DEF t
      <4> QED
        BY <1>2, <4>1
    <3> HIDE DEF p
    <3>3. word'[p] = from(t)
      BY <1>8, <1>10, <3>2
    <3>4. stream'[n] = 18 + (n - 1) * PixelLen
      BY <1>1, <1>4
    <3>5. (n - 1) * PixelLen \in Nat
      BY <1>2, <1>4
    <3>6. from(Target(n)) = (IF img.kind = 1 THEN 18 ELSE 0) + (n - 1) * PixelLen
      BY <1>6
    <3> QED
      BY <1>3, <3>3, <3>4, <3>5, <3>6 DEF HeaderLen, p
  <2>2. \A n \in 1 .. Pixels : ~ (n > Len(stream'))
    BY <1>11
  <2> QED
    BY <1>1, <1>2, <1>10, <2>1, <2>2, PictureNext
<1>16. Scanning' /\ Listed'
  BY <1>1, ScanOver
<1> QED
  BY <1>12, <1>13, <1>14, <1>15, <1>16 DEF BootIInv

LEMMA PackedStep ==
  ASSUME BootIInv, Packed, pciPc = "done", UNCHANGED pciVars
  PROVE  BootIInv'
<1>1. /\ tgaPc = "packets" /\ tgaPc' = "done" /\ img' = img /\ data' = data /\ local' = local
      /\ last_alloc' = last_alloc /\ stream' = stream /\ word' = Finish(word)
  BY DEF Packed
<1>2. /\ word \in [Memory -> Nat] /\ last_alloc \in Nat /\ img \in Images
      /\ img.w \in Nat /\ img.h \in Nat /\ img.w > 0 /\ img.h > 0 /\ Pixels \in Nat /\ Pixels > 0
      /\ data \in Nat /\ data >= 2 /\ data # NULL /\ data + 1 + Pixels <= Top /\ Top \in Nat
      /\ \A x \in Nat : x <= data + 1 + Pixels => x \in Memory
      /\ Len(stream) \in Nat
  BY <1>1, DecodingFacts
<1>3. Types /\ PictureIsTheFile
  BY DEF BootIInv
<1>4. data \in Memory /\ data + 1 \in Memory
  BY <1>2
<1>5. /\ word' \in [Memory -> Nat] /\ word'[data] = img.w /\ word'[data + 1] = img.h
      /\ \A x \in Memory : x # data /\ x # data + 1 => word'[x] = word[x]
  BY <1>1, <1>2, <1>4, FinishIs
<1>6. Types'
  BY <1>1, <1>3, <1>5, TypesNext DEF Types
<1>7. Outlasts'
  <2>1. \A x \in Memory : x < data => word'[x] = word[x]
    BY <1>2, <1>5 DEF Memory
  <2> QED
    BY <1>1, <2>1, WrittenInside
<1>8. Decoding'
  BY <1>1, <1>2 DEF Decoding
<1>9. PictureIsTheFile'
  <2>1. ASSUME NEW n \in 1 .. Pixels, Len(stream) <= Pixels
        PROVE  word'[data + 2 + Target(n)] = IF n > Len(stream) THEN 0
                 ELSE IF img.kind = 2 THEN stream[n] - HeaderLen ELSE stream[n]
    <3> DEFINE p == data + 2 + Target(n)
    <3>1. Target(n) \in 0 .. Pixels - 1
      BY <1>2, TargetInside
    <3>2. p \in Memory /\ p # data /\ p # data + 1
      BY <1>2, <3>1
    <3>3. word'[p] = word[p]
      BY <1>5, <3>2
    <3> QED
      BY <1>1, <1>2, <1>3, <2>1, <3>3 DEF PictureIsTheFile
  <2> QED
    BY <1>1, <1>2, <1>5, <2>1, PictureNext
<1>10. Scanning' /\ Listed'
  BY <1>1, ScanOver
<1> QED
  BY <1>6, <1>7, <1>8, <1>9, <1>10 DEF BootIInv

(***************************************************************************)
(* A packet.                                                               *)
(***************************************************************************)
PixelFrom(run, n) == local.m + 1 + (IF run THEN 0 ELSE n - 1) * PixelLen
AfterAt(f, run, n) ==
    IF n = 0 THEN [mem |-> word, i |-> local.i, y |-> local.y] ELSE Stored(f[n - 1], PixelFrom(run, n))
AfterIn(run, k) == CHOOSE f : f = [n \in 0 .. k |-> AfterAt(f, run, n)]

LEMMA PacketIs ==
  ASSUME Packet
  PROVE  \E k \in Runs, run \in BOOLEAN :
            /\ word' = AfterIn(run, k)[k].mem
            /\ local' = [x |-> local.x + k, y |-> AfterIn(run, k)[k].y, i |-> AfterIn(run, k)[k].i,
                         m |-> local.m + 1 + (IF run THEN 1 ELSE k) * PixelLen]
            /\ stream' = stream \o [n \in 1 .. k |-> PixelFrom(run, n)]
  BY DEF Packet, AfterIn, AfterAt, PixelFrom

LEMMA AfterExists ==
  ASSUME NEW run \in BOOLEAN, NEW k \in Nat
  PROVE  \A n \in 0 .. k : AfterIn(run, k)[n] = AfterAt(AfterIn(run, k), run, n)
<1> DEFINE E(f, n) == AfterAt(f, run, n)
           P(m) == \E f : f = [n \in 0 .. m |-> E(f, n)]
           T == {m \in Nat : ~P(m)}
<1>1. P(0)
  <2> DEFINE f == [n \in 0 .. 0 |-> [mem |-> word, i |-> local.i, y |-> local.y]]
  <2>1. f = [n \in 0 .. 0 |-> E(f, n)]
    BY DEF AfterAt
  <2> QED
    BY <2>1
<1>2. ASSUME NEW m \in Nat, P(m) PROVE P(m + 1)
  <2>1. PICK f : f = [n \in 0 .. m |-> E(f, n)]
    BY <1>2
  <2> DEFINE g == [n \in 0 .. m + 1 |-> IF n = m + 1 THEN E(f, n) ELSE f[n]]
  <2>2. ASSUME NEW n \in 0 .. m + 1 PROVE g[n] = E(g, n)
    <3>1. g[n] = E(f, n)
      <4>1. CASE n = m + 1
        BY <4>1
      <4>2. CASE n # m + 1
        <5>1. n \in 0 .. m /\ g[n] = f[n]
          BY <4>2
        <5> HIDE DEF g
        <5> QED
          BY <2>1, <5>1
      <4> QED
        BY <4>1, <4>2
    <3>2. n # 0 => g[n - 1] = f[n - 1]
      OBVIOUS
    <3> HIDE DEF g
    <3> QED
      BY <3>1, <3>2 DEF AfterAt
  <2>3. g = [n \in 0 .. m + 1 |-> g[n]]
    OBVIOUS
  <2> HIDE DEF g, E
  <2>4. g = [n \in 0 .. m + 1 |-> E(g, n)]
    BY <2>2, <2>3
  <2> QED
    BY <2>4
<1> HIDE DEF P
<1>3. T = {}
  <2> SUFFICES ASSUME T # {} PROVE FALSE
    OBVIOUS
  <2>1. PICK x \in T : \A y \in T : x <= y
    BY Least
  <2>2. x \in Nat \ {0} /\ x - 1 \in Nat /\ x - 1 + 1 = x
    BY <1>1, <2>1
  <2>3. P(x - 1)
    BY <2>1, <2>2
  <2> QED
    BY <1>2, <2>1, <2>2, <2>3
<1>4. P(k)
  BY <1>3
<1>5. AfterIn(run, k) = [n \in 0 .. k |-> AfterAt(AfterIn(run, k), run, n)]
  BY <1>4 DEF P, AfterIn
<1> QED
  BY <1>5

LEMMA StoredIs ==
  ASSUME img \in Images, img.w > 0, NEW mem, NEW c \in Nat, NEW from
  PROVE  Stored([mem |-> mem, i |-> At(c), y |-> RowsTo(c)], from) =
           [mem |-> [mem EXCEPT ![data + 2 + Target(c + 1)] = from], i |-> At(c + 1), y |-> RowsTo(c + 1)]
<1> DEFINE s == [mem |-> mem, i |-> At(c), y |-> RowsTo(c)]
           atRow == At(c) % img.w = 0
           place == IF atRow THEN RowStart(RowsTo(c)) ELSE At(c)
<1>1. /\ place = Target(c + 1)
      /\ (IF atRow THEN RowsTo(c) + 1 ELSE RowsTo(c)) = RowsTo(c + 1)
      /\ At(c + 1) = Target(c + 1) + 1
  BY NextPlace
<1>2. s.mem = mem /\ s.i = At(c) /\ s.y = RowsTo(c)
  OBVIOUS
<1> HIDE DEF s
<1>3. Stored(s, from) = [mem |-> [mem EXCEPT ![data + 2 + place] = from], i |-> place + 1,
                         y |-> IF atRow THEN RowsTo(c) + 1 ELSE RowsTo(c)]
  BY <1>2 DEF Stored
<1> HIDE DEF place, atRow
<1>4. Stored(s, from) = [mem |-> [mem EXCEPT ![data + 2 + Target(c + 1)] = from], i |-> Target(c + 1) + 1,
                         y |-> RowsTo(c + 1)]
  BY <1>1, <1>3, Zenon DEF atRow
<1> QED
  BY <1>1, <1>4, Zenon DEF s

\* After n pixels of a packet that begins behind pixel c: each is at its place,
\* nothing else has been written, and i and y are where pixel c + n leaves them.
LEMMA PixelsOfPacket ==
  ASSUME img \in Images, img.w > 0, word \in [Memory -> Nat], data \in Nat, NEW c \in Nat,
         local.i = At(c), local.y = RowsTo(c), local.m \in Nat,
         NEW run \in BOOLEAN, NEW k \in Nat
  PROVE  LET A == AfterIn(run, k)[k] IN
         /\ A.mem \in [Memory -> Nat] /\ A.i = At(c + k) /\ A.y = RowsTo(c + k)
         /\ \A x \in Memory : (\A q \in 1 .. k : x # data + 2 + Target(c + q)) => A.mem[x] = word[x]
         /\ \A q \in 1 .. k : data + 2 + Target(c + q) \in Memory =>
                 A.mem[data + 2 + Target(c + q)] = PixelFrom(run, q)
<1> DEFINE A == AfterIn(run, k)
           Claim(n) ==
             /\ A[n] = [mem |-> A[n].mem, i |-> At(c + n), y |-> RowsTo(c + n)]
             /\ A[n].mem \in [Memory -> Nat]
             /\ \A x \in Memory : (\A q \in 1 .. n : x # data + 2 + Target(c + q)) => A[n].mem[x] = word[x]
             /\ \A q \in 1 .. n : data + 2 + Target(c + q) \in Memory =>
                   A[n].mem[data + 2 + Target(c + q)] = PixelFrom(run, q)
           T == {n \in 0 .. k : ~Claim(n)}
<1>1. \A n \in 0 .. k : A[n] = AfterAt(A, run, n)
  BY AfterExists
<1> HIDE DEF A
<1>2. Claim(0)
  <2>1. A[0] = [mem |-> word, i |-> local.i, y |-> local.y]
    BY <1>1 DEF AfterAt
  <2>2. A[0] = [mem |-> word, i |-> At(c + 0), y |-> RowsTo(c + 0)]
    BY <2>1
  <2> QED
    BY <2>2
<1>3. ASSUME NEW n \in 1 .. k, Claim(n - 1) PROVE Claim(n)
  <2> DEFINE b == A[n - 1].mem
             from == PixelFrom(run, n)
             p == data + 2 + Target(c + n)
             d == c + (n - 1)
  <2>1. n \in Nat /\ n - 1 \in Nat /\ n \in 0 .. k /\ n # 0 /\ d \in Nat /\ d + 1 = c + n
    OBVIOUS
  <2>2. A[n - 1] = [mem |-> b, i |-> At(d), y |-> RowsTo(d)] /\ b \in [Memory -> Nat]
    BY <1>3
  <2>3. A[n] = Stored([mem |-> b, i |-> At(d), y |-> RowsTo(d)], from)
    <3>1. A[n] = Stored(A[n - 1], from)
      BY <1>1, <2>1 DEF AfterAt
    <3> QED
      BY <2>2, <3>1, Zenon
  <2>4. from \in Nat
    <3>1. PixelLen \in Nat
      BY DEF PixelLen
    <3>2. \A u \in Nat : local.m + 1 + u * PixelLen \in Nat
      BY <3>1
    <3> QED
      BY <2>1, <3>2 DEF PixelFrom
  <2>5. A[n] = [mem |-> [b EXCEPT ![p] = from], i |-> At(c + n), y |-> RowsTo(c + n)]
    <3> HIDE DEF b, from, d
    <3>1. A[n] = [mem |-> [b EXCEPT ![data + 2 + Target(d + 1)] = from], i |-> At(d + 1), y |-> RowsTo(d + 1)]
      BY <2>1, <2>3, StoredIs
    <3> QED
      BY <2>1, <3>1
  <2>6. A[n].mem = [b EXCEPT ![p] = from]
    BY <2>5
  <2> HIDE DEF from
  <2>7. /\ A[n].mem \in [Memory -> Nat]
        /\ \A x \in Memory : A[n].mem[x] = IF x = p THEN from ELSE b[x]
    <3> HIDE DEF b, p
    <3> QED
      BY <2>2, <2>4, <2>6, ExceptIs
  <2>8. ASSUME NEW x \in Memory, \A q \in 1 .. n : x # data + 2 + Target(c + q)
        PROVE  A[n].mem[x] = word[x]
    <3>1. x # p
      BY <2>8
    <3>2. \A q \in 1 .. n - 1 : x # data + 2 + Target(c + q)
      BY <2>8
    <3>3. b[x] = word[x]
      BY <1>3, <3>2
    <3> QED
      BY <2>7, <3>1, <3>3
  <2>9. ASSUME NEW q \in 1 .. n, data + 2 + Target(c + q) \in Memory
        PROVE  A[n].mem[data + 2 + Target(c + q)] = PixelFrom(run, q)
    <3>1. CASE q = n
      BY <2>7, <2>9, <3>1 DEF from
    <3>2. CASE q # n
      <4>1. q \in 1 .. n - 1 /\ c + q \in Nat /\ c + q >= 1 /\ c + n \in Nat /\ c + n >= 1 /\ c + q # c + n
        BY <3>2
      <4>2. Target(c + q) # Target(c + n) /\ Target(c + q) \in Int /\ Target(c + n) \in Int
        BY <4>1, TargetsDiffer, TargetIs
      <4>3. data + 2 + Target(c + q) # p
        BY <4>2
      <4>4. b[data + 2 + Target(c + q)] = PixelFrom(run, q)
        BY <1>3, <2>9, <4>1
      <4> QED
        BY <2>7, <2>9, <4>3, <4>4
    <3> QED
      BY <3>1, <3>2
  <2>10. A[n] = [mem |-> A[n].mem, i |-> At(c + n), y |-> RowsTo(c + n)]
    BY <2>5, <2>6
  <2> QED
    BY <2>7, <2>8, <2>9, <2>10
<1>4. T = {}
  <2> HIDE DEF Claim
  <2> SUFFICES ASSUME T # {} PROVE FALSE
    OBVIOUS
  <2>0. T \in SUBSET Nat
    OBVIOUS
  <2>1. PICK x \in T : \A y \in T : x <= y
    BY <2>0, Least
  <2>2. x \in 1 .. k /\ x - 1 \in 0 .. k /\ ~ (x <= x - 1)
    BY <1>2, <2>1
  <2>3. Claim(x - 1)
    BY <2>1, <2>2
  <2> QED
    BY <1>3, <2>1, <2>2, <2>3
<1>5. Claim(k)
  <2> HIDE DEF Claim
  <2> QED
    BY <1>4
<1>6. A[k].i = At(c + k) /\ A[k].y = RowsTo(c + k)
  BY <1>5
<1> QED
  BY <1>5, <1>6 DEF A

LEMMA ConcatIs ==
  ASSUME NEW s \in Seq(Nat), NEW k \in Nat, NEW f \in [1 .. k -> Nat]
  PROVE  /\ s \o f \in Seq(Nat) /\ Len(s \o f) = Len(s) + k
         /\ \A n \in 1 .. Len(s) : (s \o f)[n] = s[n]
         /\ \A n \in Len(s) + 1 .. Len(s) + k : (s \o f)[n] = f[n - Len(s)]
<1>1. f \in Seq(Nat) /\ Len(f) = k
  OBVIOUS
<1>2. s \o f \in Seq(Nat) /\ Len(s \o f) = Len(s) + k
  BY <1>1
<1>3. \A n \in 1 .. Len(s) : (s \o f)[n] = s[n]
  BY <1>1
<1>4. \A n \in Len(s) + 1 .. Len(s) + k : (s \o f)[n] = f[n - Len(s)]
  <2> SUFFICES ASSUME NEW n \in Len(s) + 1 .. Len(s) + k PROVE (s \o f)[n] = f[n - Len(s)]
    OBVIOUS
  <2>1. n \in 1 .. Len(s) + Len(f) /\ ~ (n <= Len(s)) /\ n \in Nat /\ Len(s) \in Nat
    BY <1>1
  <2> HIDE <1>2, <1>3
  <2> QED
    BY <1>1, <2>1
<1> QED
  BY <1>2, <1>3, <1>4

\* What a packet does to memory and to the pixels decoded.
LEMMA PacketWrites ==
  ASSUME BootIInv, Packet
  PROVE  LET c == Len(stream) IN
         \E k \in Nat :
            /\ c < Pixels /\ local.x = c
            /\ word' \in [Memory -> Nat]
            /\ stream' \in Seq(Nat) /\ Len(stream') = c + k
            /\ \A n \in 1 .. c : stream'[n] = stream[n]
            /\ local' = [x |-> c + k, y |-> RowsTo(c + k), i |-> At(c + k), m |-> local'.m] /\ local'.m \in Nat
            /\ \A x \in Memory : (\A n \in c + 1 .. c + k : x # data + 2 + Target(n)) => word'[x] = word[x]
            /\ \A n \in c + 1 .. c + k : data + 2 + Target(n) \in Memory =>
                  word'[data + 2 + Target(n)] = stream'[n]
<1> DEFINE c == Len(stream)
<1>1. tgaPc = "packets" /\ local.x < Pixels
  BY DEF Packet
<1>2. /\ word \in [Memory -> Nat] /\ img \in Images /\ img.w > 0 /\ data \in Nat
      /\ local \in [x : Nat, y : Nat, i : Int, m : Nat] /\ stream \in Seq(Nat) /\ c \in Nat
  BY <1>1, DecodingFacts
<1>3. local.x = c /\ local.y = RowsTo(c) /\ local.i = At(c) /\ local.m \in Nat
  BY <1>1, <1>2 DEF BootIInv, Decoding
<1>4. PICK k \in Runs, run \in BOOLEAN :
            /\ word' = AfterIn(run, k)[k].mem
            /\ local' = [x |-> local.x + k, y |-> AfterIn(run, k)[k].y, i |-> AfterIn(run, k)[k].i,
                         m |-> local.m + 1 + (IF run THEN 1 ELSE k) * PixelLen]
            /\ stream' = stream \o [n \in 1 .. k |-> PixelFrom(run, n)]
  BY PacketIs
<1>5. k \in Nat /\ k >= 1 /\ run \in BOOLEAN
  BY <1>4, TgaAssumption
<1> HIDE DEF c
<1>6. /\ word' \in [Memory -> Nat] /\ AfterIn(run, k)[k].i = At(c + k) /\ AfterIn(run, k)[k].y = RowsTo(c + k)
      /\ \A x \in Memory : (\A q \in 1 .. k : x # data + 2 + Target(c + q)) => word'[x] = word[x]
      /\ \A q \in 1 .. k : data + 2 + Target(c + q) \in Memory =>
              word'[data + 2 + Target(c + q)] = PixelFrom(run, q)
  <2> DEFINE A == AfterIn(run, k)[k]
  <2>1. /\ A.mem \in [Memory -> Nat] /\ A.i = At(c + k) /\ A.y = RowsTo(c + k)
        /\ \A x \in Memory : (\A q \in 1 .. k : x # data + 2 + Target(c + q)) => A.mem[x] = word[x]
        /\ \A q \in 1 .. k : data + 2 + Target(c + q) \in Memory =>
                 A.mem[data + 2 + Target(c + q)] = PixelFrom(run, q)
    <3>1. /\ img \in Images /\ img.w > 0 /\ word \in [Memory -> Nat] /\ data \in Nat /\ c \in Nat
          /\ local.i = At(c) /\ local.y = RowsTo(c) /\ local.m \in Nat /\ run \in BOOLEAN /\ k \in Nat
      BY <1>2, <1>3, <1>5
    <3> QED
      BY <3>1, PixelsOfPacket, Zenon
  <2>2. word' = A.mem
    BY <1>4
  <2> QED
    BY <2>1, <2>2
<1>7. PixelLen \in Nat
  BY DEF PixelLen
<1>8. [n \in 1 .. k |-> PixelFrom(run, n)] \in [1 .. k -> Nat]
  <2>1. \A u \in Nat : local.m + 1 + u * PixelLen \in Nat
    BY <1>3, <1>7
  <2>2. \A n \in 1 .. k : (IF run THEN 0 ELSE n - 1) \in Nat
    BY <1>5
  <2> QED
    BY <2>1, <2>2 DEF PixelFrom
<1>9. /\ stream' \in Seq(Nat) /\ Len(stream') = c + k
      /\ \A n \in 1 .. c : stream'[n] = stream[n]
      /\ \A n \in c + 1 .. c + k : stream'[n] = PixelFrom(run, n - c)
  <2> DEFINE f == [n \in 1 .. k |-> PixelFrom(run, n)]
  <2>1. \A q \in 1 .. k : f[q] = PixelFrom(run, q)
    OBVIOUS
  <2>2. f \in [1 .. k -> Nat] /\ stream' = stream \o f
    BY <1>4, <1>8
  <2> HIDE DEF f
  <2>3. /\ stream' \in Seq(Nat) /\ Len(stream') = c + k
        /\ \A n \in 1 .. c : stream'[n] = stream[n]
        /\ \A n \in c + 1 .. c + k : stream'[n] = f[n - c]
    BY <1>2, <1>5, <2>2, ConcatIs DEF c
  <2>4. \A n \in c + 1 .. c + k : n - c \in 1 .. k
    BY <1>2, <1>5
  <2> QED
    BY <2>1, <2>3, <2>4
<1>10. \A n \in c + 1 .. c + k : n - c \in 1 .. k /\ c + (n - c) = n
  BY <1>2, <1>5
<1>11. \A q \in 1 .. k : c + q \in c + 1 .. c + k
  BY <1>2, <1>5
<1>12. \A x \in Memory : (\A n \in c + 1 .. c + k : x # data + 2 + Target(n)) => word'[x] = word[x]
  BY <1>6, <1>11
<1>13. \A n \in c + 1 .. c + k : data + 2 + Target(n) \in Memory => word'[data + 2 + Target(n)] = stream'[n]
  <2> SUFFICES ASSUME NEW n \in c + 1 .. c + k, data + 2 + Target(n) \in Memory
               PROVE  word'[data + 2 + Target(n)] = stream'[n]
    OBVIOUS
  <2>1. n - c \in 1 .. k /\ c + (n - c) = n
    BY <1>10
  <2>2. word'[data + 2 + Target(c + (n - c))] = PixelFrom(run, n - c)
    BY <1>6, <2>1
  <2> QED
    BY <1>9, <2>1, <2>2
<1>14. local' = [x |-> c + k, y |-> RowsTo(c + k), i |-> At(c + k), m |-> local'.m] /\ local'.m \in Nat
  <2>1. \A u \in Nat : local.m + 1 + u * PixelLen \in Nat
    BY <1>3, <1>7
  <2>2. (IF run THEN 1 ELSE k) \in Nat
    BY <1>5
  <2>3. local'.m \in Nat
    BY <1>4, <2>1, <2>2
  <2> QED
    BY <1>3, <1>4, <1>6, <2>3
<1> QED
  BY <1>1, <1>3, <1>5, <1>6, <1>9, <1>12, <1>13, <1>14 DEF c

LEMMA PacketStep ==
  ASSUME BootIInv, Packet, pciPc = "done", UNCHANGED pciVars
  PROVE  BootIInv'
<1> DEFINE c == Len(stream)
<1>1. /\ tgaPc = "packets" /\ tgaPc' = "packets" /\ img' = img /\ data' = data /\ last_alloc' = last_alloc
  BY DEF Packet
<1>2. /\ word \in [Memory -> Nat] /\ last_alloc \in Nat /\ img \in Images
      /\ img.w \in Nat /\ img.h \in Nat /\ img.w > 0 /\ img.h > 0 /\ Pixels \in Nat /\ Pixels > 0
      /\ data \in Nat /\ data >= 2 /\ data # NULL /\ data + 1 + Pixels <= Top /\ Top \in Nat
      /\ \A x \in Nat : x <= data + 1 + Pixels => x \in Memory
      /\ c \in Nat
  BY <1>1, DecodingFacts
<1>3. Types /\ PictureIsTheFile /\ img.kind \in {9, 10}
  BY <1>1 DEF BootIInv, Decoding
<1>4. PICK k \in Nat :
            /\ c < Pixels
            /\ word' \in [Memory -> Nat]
            /\ stream' \in Seq(Nat) /\ Len(stream') = c + k
            /\ \A n \in 1 .. c : stream'[n] = stream[n]
            /\ local' = [x |-> c + k, y |-> RowsTo(c + k), i |-> At(c + k), m |-> local'.m] /\ local'.m \in Nat
            /\ \A x \in Memory : (\A n \in c + 1 .. c + k : x # data + 2 + Target(n)) => word'[x] = word[x]
            /\ \A n \in c + 1 .. c + k : data + 2 + Target(n) \in Memory =>
                  word'[data + 2 + Target(n)] = stream'[n]
  BY PacketWrites
<1> HIDE DEF c
<1>5. \A n \in Nat : n >= 1 => Target(n) \in Int
  BY <1>2, TargetIs
<1>6. \A n \in 1 .. Pixels : /\ Target(n) \in 0 .. Pixels - 1 /\ data + 2 + Target(n) \in Memory
                             /\ data + 2 + Target(n) >= data + 2
  <2> SUFFICES ASSUME NEW n \in 1 .. Pixels
               PROVE  /\ Target(n) \in 0 .. Pixels - 1 /\ data + 2 + Target(n) \in Memory
                      /\ data + 2 + Target(n) >= data + 2
    OBVIOUS
  <2>1. Target(n) \in 0 .. Pixels - 1
    BY <1>2, TargetInside
  <2> QED
    BY <1>2, <2>1
<1>7. RowsTo(c + k) \in Nat /\ At(c + k) \in Int
  <2>1. c + k \in Nat
    BY <1>2
  <2> QED
    BY <1>2, <2>1, NextPlace
<1>8. Types'
  <2>1. local' \in [x : Nat, y : Nat, i : Int, m : Nat]
    <3>1. c + k \in Nat
      BY <1>2
    <3> DEFINE lm == local'.m
               yy == RowsTo(c + k)
               ii == At(c + k)
    <3>2. local' = [x |-> c + k, y |-> yy, i |-> ii, m |-> lm] /\ lm \in Nat /\ yy \in Nat /\ ii \in Int
      BY <1>4, <1>7
    <3> HIDE DEF lm, yy, ii
    <3> QED
      BY <3>1, <3>2
  <2> QED
    BY <1>1, <1>2, <1>3, <1>4, <2>1, TypesNext DEF Types
<1>9. Outlasts'
  <2>1. Len(stream') <= Pixels => Len(stream) <= Pixels /\ \A x \in Memory : x < data => word'[x] = word[x]
    <3> SUFFICES ASSUME c + k <= Pixels PROVE c <= Pixels /\ \A x \in Memory : x < data => word'[x] = word[x]
      BY <1>4 DEF c
    <3>1. ASSUME NEW x \in Memory, x < data PROVE word'[x] = word[x]
      <4>1. ASSUME NEW n \in c + 1 .. c + k PROVE x # data + 2 + Target(n)
        <5>1. n \in 1 .. Pixels
          BY <1>2
        <5>2. data + 2 + Target(n) >= data + 2 /\ Target(n) \in Int
          BY <1>5, <1>6, <5>1
        <5> QED
          BY <1>2, <3>1, <5>2 DEF Memory
      <4> QED
        BY <1>4, <4>1
    <3> QED
      BY <1>2, <1>4, <3>1
  <2>2. UNCHANGED pciVars
    OBVIOUS
  <2> QED
    BY <1>1, <2>1, WrittenInside
<1>10. Decoding'
  <2>1. RowsTo(Len(stream))' = RowsTo(c + k) /\ At(Len(stream))' = At(c + k)
    <3>1. RowsTo(Len(stream))' = RowsTo(Len(stream')) /\ At(Len(stream))' = At(Len(stream'))
      BY <1>1 DEF RowsTo, At, Target
    <3> QED
      BY <1>4, <3>1
  <2>2. local'.x = c + k /\ local'.y = RowsTo(c + k) /\ local'.i = At(c + k)
    BY <1>4
  <2>3. Pixels' = Pixels
    BY <1>1 DEF Pixels
  <2> QED
    BY <1>1, <1>2, <1>3, <1>4, <2>1, <2>2, <2>3 DEF Decoding, NULL
<1>11. PictureIsTheFile'
  <2>1. ASSUME NEW n \in 1 .. Pixels, c + k <= Pixels
        PROVE  word'[data + 2 + Target(n)] = IF n > c + k THEN 0 ELSE stream'[n]
    <3>1. CASE n \in c + 1 .. c + k
      BY <1>2, <1>4, <1>6, <3>1
    <3>2. CASE n \notin c + 1 .. c + k
      <4>1. ASSUME NEW q \in c + 1 .. c + k PROVE data + 2 + Target(n) # data + 2 + Target(q)
        <5>1. q \in Nat /\ q >= 1 /\ n \in Nat /\ n >= 1 /\ q # n
          BY <1>2, <3>2
        <5>2. Target(n) # Target(q) /\ Target(n) \in Int /\ Target(q) \in Int
          BY <1>2, <1>5, <5>1, TargetsDiffer
        <5> QED
          BY <1>2, <5>2
      <4>2. word'[data + 2 + Target(n)] = word[data + 2 + Target(n)]
        BY <1>4, <1>6, <4>1
      <4>3. word[data + 2 + Target(n)] = IF n > c THEN 0 ELSE stream[n]
        <5>1. data # NULL /\ tgaPc # "rows" /\ Len(stream) <= Pixels /\ img.kind # 2 /\ c = Len(stream)
          BY <1>1, <1>2, <1>3, <1>4 DEF c
        <5> QED
          BY <1>3, <5>1 DEF PictureIsTheFile
      <4>4. n <= c \/ n > c + k
        BY <1>2, <3>2
      <4> QED
        BY <1>2, <1>4, <4>2, <4>3, <4>4
    <3> QED
      BY <3>1, <3>2
  <2>2. Len(stream') = c + k /\ img.kind # 2
    BY <1>3, <1>4
  <2> QED
    BY <1>1, <2>1, <2>2, PictureNext
<1>12. Scanning' /\ Listed'
  BY <1>1, ScanOver
<1> QED
  BY <1>8, <1>9, <1>10, <1>11, <1>12 DEF BootIInv

(***************************************************************************)
(* The boot.                                                               *)
(***************************************************************************)
LEMMA BootStep ==
  ASSUME BootIInv, [BootNext]_bootVars
  PROVE  BootIInv'
<1>1. CASE ScanBus
  <2>1. UNCHANGED tgaVars
    BY <1>1 DEF ScanBus
  <2>2. CASE PciInitTables
    BY <2>1, <2>2, TablesStep
  <2>3. CASE Probe
    BY <2>1, <2>3, ProbeStep
  <2>4. CASE Probed \/ Dump
    BY <2>1, <2>4, DumpStep
  <2> QED
    BY <1>1, <2>2, <2>3, <2>4 DEF ScanBus, PciNext
<1>2. CASE DecodeImage
  <2>1. pciPc = "done" /\ UNCHANGED pciVars
    BY <1>2 DEF DecodeImage
  <2>2. CASE Header
    BY <2>1, <2>2, HeaderStep
  <2>3. CASE Rows
    BY <2>1, <2>3, RowsStep
  <2>4. CASE Packet
    BY <2>1, <2>4, PacketStep
  <2>5. CASE Packed
    BY <2>1, <2>5, PackedStep
  <2> QED
    BY <1>2, <2>2, <2>3, <2>4, <2>5 DEF DecodeImage, TgaNext
<1>3. CASE DrawImage \/ TickWhileDrawing \/ UNCHANGED bootVars
  <2>1. UNCHANGED <<word, last_alloc, pciVars, tgaVars>>
    BY <1>3 DEF DrawImage, TickWhileDrawing, bootVars
  <2> QED
    BY <2>1, OthersStep
<1> QED
  BY <1>1, <1>2, <1>3 DEF BootNext

\* The layout of the heap, the table's entries and the place the decoder has
\* reached, through the scan, the dump, the image and the drawing
\* (pci.cc:26-93, tga.cc:5-84, malloc.cc:30-110).
THEOREM BootInvariant == BootSpec => []BootIInv
<1>1. BootInit => BootIInv
  BY Begins
<1>2. BootIInv /\ [BootNext]_bootVars => BootIInv'
  BY BootStep
<1> QED
  BY <1>1, <1>2, PTL DEF BootSpec

\* The chain while no more than Room + PAD devices are in the table.
LEMMA TableHolds ==
  ASSUME BootIInv, pciPc \in {"probe", "dump", "done"}, devs <= Room + PAD,
         tgaPc # "header" => pciPc = "done" /\ Len(stream) <= Pixels
  PROVE  TableIntact
<1>1. /\ Types /\ devs \in Nat /\ devs <= Room + 1 /\ word \in [Memory -> Nat] /\ last_alloc \in Nat
      /\ devs = Len(Found) /\ pci_devices = Devices + 2 /\ img \in Images /\ there \in Answering
  BY DEF BootIInv, Types, Listed, Scanning, PAD, HDR
<1>2. Pixels \in Nat /\ Room \in Nat /\ DrvRoom \in Nat /\ Top \in Nat
  BY <1>1, ImageIs, Constants
<1>3. devs <= Cardinality(there)
  <2>1. IsFiniteSet(there)
    BY <1>1, BusIsFinite
  <2>2. devs = Cardinality({Triple(n) : n \in 0 .. at - 1} \cap there)
    BY DEF BootIInv, Listed
  <2> QED
    BY <2>1, <2>2, FS_Subset
<1>4. Dev(devs + 1) + Pixels + 5 <= Top
  BY <1>1, <1>3, BlocksFit
<1>5. Dev(devs + 1) \in Nat
  <2>1. Dev(1) \in Nat
    BY <1>1, TablesFit
  <2>2. devs + 1 \in Nat /\ devs + 1 >= 1
    BY <1>1
  <2> QED
    BY <2>1, <2>2, DevIs
<1>6. Headers(word, devs) /\ Entries(word, devs)
  BY DEF BootIInv, Scanning, Outlasts
<1>7. \A k \in 1 .. devs : DeviceAt(word, word[pci_devices + k - 1]) = DeviceOf(Found[k])
  <2>1. devs <= Room + DrvRoom + 2 * (PAD + HDR)
    BY <1>1, <1>2 DEF PAD, HDR
  <2> QED
    BY <1>6, <2>1 DEF Entries
<1>8. Links(word, Dev(devs + 1), Hdrs(devs))
  <2>1. devs <= Room + 2
    BY <1>1, <1>2
  <2> QED
    BY <1>1, <1>6, <2>1, HeadersLink
<1>9. \E S : Links(word, last_alloc, S)
  <2>1. CASE last_alloc = Dev(devs + 1)
    BY <1>8, <2>1
  <2>2. CASE last_alloc # Dev(devs + 1)
    <3>1. tgaPc # "header" /\ ~ (Pixels < 1)
      BY <1>1, <1>2, <2>2 DEF BootIInv, Scanning, Outlasts
    <3>2. last_alloc = Dev(devs + 1) + Pixels + 2 + HDR + PAD /\ word[Dev(devs + 1) + 1] = Pixels + 2
      BY <3>1 DEF BootIInv, Outlasts
    <3>3. SizeAt(word, Dev(devs + 1)) = Pixels + 2 /\ Pixels + 2 \in Nat /\ Pixels + 2 > 0
      BY <1>2, <3>2 DEF SizeAt
    <3>4. NextHeader(word, Dev(devs + 1)) = last_alloc
      BY <1>2, <1>5, <3>2, <3>3 DEF NextHeader, HDR, PAD
    <3> QED
      BY <1>5, <1>8, <3>3, <3>4, LinksExtend
  <2> QED
    BY <2>1, <2>2
<1>10. last_alloc \in 0 .. Top
  <2>1. CASE tgaPc = "header"
    <3>1. last_alloc = Dev(devs + 1)
      BY <1>1, <1>2, <2>1 DEF BootIInv, Scanning
    <3> QED
      BY <1>1, <1>2, <1>4, <1>5, <3>1
  <2>2. CASE tgaPc # "header"
    <3>1. last_alloc = Dev(devs + 1) \/ last_alloc = Dev(devs + 1) + Pixels + 2 + HDR + PAD
      BY <2>2 DEF BootIInv, Outlasts
    <3> QED
      BY <1>1, <1>2, <1>4, <1>5, <3>1 DEF HDR, PAD
  <2> QED
    BY <2>1, <2>2
<1>11. Whole(word, last_alloc)
  BY <1>1, <1>9, <1>10, LinksAreWhole
<1> QED
  BY <1>1, <1>7, <1>11 DEF TableIntact

\* The table of devices is the bus, it is what is dumped, and neither it nor the
\* chain is touched by the image (pci.cc:73-93, tga.cc:11-80).
THEOREM TableOutlasts == BootSpec => []TableOutlastsImage
<1>1. BootIInv => TableOutlastsImage
  <2> SUFFICES ASSUME BootIInv PROVE TableOutlastsImage
    OBVIOUS
  <2>1. TableIsTheBus
    <3> SUFFICES ASSUME devs <= Room + PAD
                 PROVE  /\ pciPc \in {"probe", "dump"} => TableIntact
                        /\ pciPc = "done" => dumped = [k \in 1 .. devs |-> DeviceOf(Found[k])]
      BY DEF TableIsTheBus
    <3>1. pciPc = "done" => dumped = [k \in 1 .. devs |-> DeviceOf(Found[k])]
      BY DEF BootIInv, Scanning
    <3>2. pciPc \in {"probe", "dump"} => TableIntact
      <4>1. pciPc \in {"probe", "dump"} => tgaPc = "header"
        BY DEF BootIInv, Scanning
      <4> QED
        BY <4>1, TableHolds
    <3> QED
      BY <3>1, <3>2
  <2>2. tgaPc # "header" /\ devs <= Room + PAD /\ Len(stream) <= Pixels => TableIntact
    <3>1. tgaPc # "header" => pciPc = "done"
      BY DEF BootIInv, Scanning
    <3> QED
      BY <3>1, TableHolds
  <2> QED
    BY <2>1, <2>2 DEF TableOutlastsImage
<1> QED
  BY <1>1, BootInvariant, PTL

\* However its pixels are spread over packets the picture is the file's, and the
\* block of a refused image is free (tga.cc:9-80).
THEOREM PictureDecoded == BootSpec => []PictureIsTheFile
<1>1. BootIInv => PictureIsTheFile
  BY DEF BootIInv
<1> QED
  BY <1>1, BootInvariant, PTL

\* A device that is found after the table is full leaves those in the table
\* their places and their data (pci.cc:36, malloc.cc:57-110).
THEOREM DevicesStay == BootSpec => DevicesKept
<1> DEFINE Kept == pciPc = "probe" /\ devs < Room + DrvRoom + 2 * (PAD + HDR) =>
                     \A k \in 1 .. (IF devs < Room THEN devs ELSE Room) :
                        LET p == word[pci_devices + k - 1] IN
                        /\ word'[pci_devices + k - 1] = p
                        /\ DeviceAt(word', p) = DeviceAt(word, p)
<1>1. BootIInv /\ [BootNext]_bootVars => Kept
  <2> SUFFICES ASSUME BootIInv, [BootNext]_bootVars, pciPc = "probe", devs < Room + DrvRoom + 2 * (PAD + HDR)
               PROVE  Kept
    OBVIOUS
  <2>1. CASE word' = word
    BY <2>1
  <2>2. CASE word' # word
    <3>1. Probe
      BY <2>2 DEF BootNext, ScanBus, PciNext, PciInitTables, Probed, Dump, DecodeImage, DrawImage, TickWhileDrawing, bootVars
    <3>2. Triple(at) \in there
      <4> SUFFICES ASSUME Triple(at) \notin there PROVE FALSE
        OBVIOUS
      <4>1. getVendorID(Triple(at)) = Nobody
        BY <3>1, ListedNext, BusAnswers DEF BootIInv, Types
      <4> QED
        BY <2>2, <3>1, <4>1 DEF Probe
    <3>3. tgaPc = "header" /\ pciPc # "init"
      BY DEF BootIInv, Scanning
    <3>4. devs \in Nat /\ Entries(word, devs) /\ pci_devices = Devices + 2 /\ Devices \in Nat
      BY <3>3, ScanFacts
    <3>5. devs < Room + DrvRoom + 6 /\ Room \in Nat /\ DrvRoom \in Nat
      BY Constants DEF PAD, HDR
    <3>6. ASSUME NEW k \in 1 .. (IF devs < Room THEN devs ELSE Room)
          PROVE  LET p == word[pci_devices + k - 1] IN
                 /\ word'[pci_devices + k - 1] = p
                 /\ DeviceAt(word', p) = DeviceAt(word, p)
      <4>1. k \in 1 .. devs /\ k <= Room /\ pci_devices + k - 1 = Devices + 1 + k /\ devs <= Room + DrvRoom + 6
        BY <3>4, <3>5
      <4>2. word[Devices + 1 + k] = Ptr(k)
        BY <3>4, <4>1, EntriesIs
      <4>3. /\ word'[Devices + 1 + k] = word[Devices + 1 + k]
            /\ DeviceAt(word', Ptr(k)) = DeviceAt(word, Ptr(k))
        BY <3>1, <3>2, <3>5, <4>1, EntryKept
      <4> QED
        BY <4>1, <4>2, <4>3
    <3> QED
      BY <3>6
  <2> QED
    BY <2>1, <2>2
<1>2. DevicesKept <=> [][Kept]_<<word, pciVars>>
  BY DEF DevicesKept
<1>3. BootIInv /\ [BootNext]_bootVars => [Kept]_<<word, pciVars>>
  BY <1>1
<1> HIDE DEF Kept
<1> QED
  BY <1>2, <1>3, BootInvariant, PTL DEF BootSpec

\* Only the packet that runs past the last pixel writes outside the image's
\* block, and there only its pixels (tga.cc:38-54,60-76).
THEOREM LastOverruns == BootSpec => OnlyTheLastOverruns
<1> DEFINE Inside == tgaPc = "packets" =>
                       \A w \in Memory : word'[w] # word[w] =>
                         \/ w \in data .. data + 1 + Pixels
                         \/ /\ Len(stream) < Pixels
                            /\ \E n \in Pixels + 1 .. Len(stream') : w = data + 2 + Target(n)
<1>1. BootIInv /\ [BootNext]_bootVars => Inside
  <2> SUFFICES ASSUME BootIInv, [BootNext]_bootVars, tgaPc = "packets", NEW w \in Memory, word'[w] # word[w]
               PROVE  \/ w \in data .. data + 1 + Pixels
                      \/ /\ Len(stream) < Pixels
                         /\ \E n \in Pixels + 1 .. Len(stream') : w = data + 2 + Target(n)
    OBVIOUS
  <2>1. pciPc = "done"
    BY DEF BootIInv, Scanning
  <2>2. Packet \/ Packed
    BY <2>1 DEF BootNext, ScanBus, PciNext, PciInitTables, Probe, Probed, Dump, DecodeImage, TgaNext,
                Header, Rows, DrawImage, TickWhileDrawing, bootVars
  <2>3. /\ word \in [Memory -> Nat] /\ img \in Images
        /\ img.w \in Nat /\ img.h \in Nat /\ img.w > 0 /\ img.h > 0 /\ Pixels \in Nat /\ Pixels > 0
        /\ data \in Nat
        /\ \A x \in Nat : x <= data + 1 + Pixels => x \in Memory
        /\ Len(stream) \in Nat
    BY DecodingFacts
  <2>4. CASE Packed
    <3>1. data \in Memory /\ data + 1 \in Memory
      BY <2>3
    <3>2. \A x \in Memory : x # data /\ x # data + 1 => word'[x] = word[x]
      BY <2>3, <2>4, <3>1, FinishIs DEF Packed
    <3>3. w = data \/ w = data + 1
      BY <3>2
    <3> QED
      BY <2>3, <3>3
  <2>5. CASE Packet
    <3> DEFINE c == Len(stream)
    <3>1. PICK k \in Nat :
            /\ c < Pixels /\ Len(stream') = c + k
            /\ \A x \in Memory : (\A n \in c + 1 .. c + k : x # data + 2 + Target(n)) => word'[x] = word[x]
      BY <2>5, PacketWrites
    <3>2. PICK n \in c + 1 .. c + k : w = data + 2 + Target(n)
      BY <3>1
    <3>3. CASE n <= Pixels
      <4>1. Target(n) \in 0 .. Pixels - 1
        BY <2>3, <3>3, TargetInside
      <4>2. \A a, b \in Nat : \A m \in 0 .. b - 1 : a + 2 + m \in a .. a + 1 + b
        OBVIOUS
      <4>3. data + 2 + Target(n) \in data .. data + 1 + Pixels
        <5>1. data \in Nat /\ Pixels \in Nat
          BY <2>3
        <5> QED
          BY <4>1, <4>2, <5>1
      <4> QED
        BY <3>2, <4>3
    <3>4. CASE ~ (n <= Pixels)
      <4>1. n \in Pixels + 1 .. Len(stream') /\ Len(stream) < Pixels
        BY <2>3, <3>1, <3>4
      <4> QED
        BY <3>2, <4>1
    <3> QED
      BY <3>3, <3>4
  <2> QED
    BY <2>2, <2>4, <2>5
<1>2. OnlyTheLastOverruns <=> [][Inside]_<<word, tgaVars>>
  BY DEF OnlyTheLastOverruns
<1>3. BootIInv /\ [BootNext]_bootVars => [Inside]_<<word, tgaVars>>
  BY <1>1
<1> HIDE DEF Inside
<1> QED
  BY <1>2, <1>3, BootInvariant, PTL DEF BootSpec

(***************************************************************************)
(* The drawing: for an image of any size, drawn anywhere, and any number   *)
(* of ticks, no pixel is lost on the screen.                               *)
(***************************************************************************)
LEMMA RowStep ==
  ASSUME NEW n \in Nat, NEW w \in Nat
  PROVE  n * w \in Nat /\ (n + 1) * w = n * w + w
  OBVIOUS

LEMMA RowBelow ==
  ASSUME NEW n \in Nat, NEW h \in Nat, NEW w \in Nat, n < h
  PROVE  n * w + w <= w * h
<1>1. PICK d \in Nat : h = n + 1 + d
  BY n + 1 <= h, h - (n + 1) \in Nat, h = n + 1 + (h - (n + 1))
<1>2. w * h = n * w + w + d * w
  BY <1>1
<1>3. d * w >= 0
  OBVIOUS
<1> QED
  BY <1>2, <1>3

\* Two places are two bytes of the graphics memory, since the image is not
\* higher than a line of it is long.
LEMMA Distinct ==
  ASSUME NEW c \in Nat, NEW d \in Nat, NEW r \in 0 .. H - 1, NEW s \in 0 .. H - 1, c < d
  PROVE  write_pixel8x(X + c, Y + r) # write_pixel8x(X + d, Y + s)
<1> USE DrawAssumption
<1>1. PICK e \in Nat : d = c + 1 + e
  BY c + 1 <= d, d - (c + 1) \in Nat, d = c + 1 + (d - (c + 1))
<1>2. Pitch * (X + d) = Pitch * (X + c) + Pitch + Pitch * e
  BY <1>1
<1>3. Pitch * e \in Nat /\ Pitch * (X + c) \in Nat
  OBVIOUS
<1>4. r < Pitch + s
  OBVIOUS
<1> QED
  BY <1>2, <1>3, <1>4 DEF write_pixel8x

\* What the loops have shown stays where a step leaves it, when the step writes
\* nothing, moves no column back and leaves no row that is not passed.
LEMMA StillShown ==
  ASSUME DrawIInv, DrawTypeOK',
         vram' = vram, ticks <= ticks', Drawn' = Drawn,
         \A row \in 0 .. H - 1, column \in Nat : Passed(row, column) => Passed(row, column)'
  PROVE  \A p \in 0 .. Drawn' - 1 : \E row \in 0 .. H - 1, column \in 0 .. W + ticks' - 1 :
             Shows(p, row, column)' /\ Passed(row, column)'
<1> USE DrawAssumption
<1> SUFFICES ASSUME NEW p \in 0 .. Drawn - 1
             PROVE  \E row \in 0 .. H - 1, column \in 0 .. W + ticks' - 1 :
                        Shows(p, row, column)' /\ Passed(row, column)'
  OBVIOUS
<1>1. PICK row \in 0 .. H - 1, column \in 0 .. W + ticks - 1 : Shows(p, row, column) /\ Passed(row, column)
  BY DEF DrawIInv
<1>2. column \in 0 .. W + ticks' - 1 /\ column \in Nat
  BY DEF DrawIInv, DrawTypeOK
<1>3. Passed(row, column)'
  BY <1>1, <1>2
<1>4. row * W + column <= p + ticks' /\ p <= row * W + column
  <2>1. row * W \in Nat
    BY RowStep
  <2> QED
    BY <1>1, <1>2, <2>1 DEF Shows, DrawIInv, DrawTypeOK
<1>5. Shows(p, row, column)'
  BY <1>1, <1>4 DEF Shows, write_pixel8x
<1> QED
  BY <1>2, <1>3, <1>5

LEMMA DrawInitIInv == DrawInit => DrawIInv
  BY DrawAssumption DEF DrawInit, DrawIInv, DrawTypeOK, Counted, InRow, Drawn

LEMMA DrawNextIInv == DrawIInv /\ [DrawNext]_drawVars => DrawIInv'
<1> SUFFICES ASSUME DrawIInv, [DrawNext]_drawVars PROVE DrawIInv'
  OBVIOUS
<1> USE DrawAssumption
<1>0. DrawTypeOK /\ Counted
  BY DEF DrawIInv
<1>r. l * W \in Nat /\ (l + 1) * W = l * W + W
  BY <1>0, RowStep DEF DrawTypeOK
<1>1. CASE Draw
  <2>1. DrawTypeOK'
    BY <1>0, <1>1 DEF Draw, DrawTypeOK
  <2>2. Counted'
    BY <1>0, <1>1 DEF Draw, DrawTypeOK, Counted, InRow
  <2>3. Drawn' = 0
    BY <1>1 DEF Draw, Drawn
  <2> QED
    BY <2>1, <2>2, <2>3 DEF DrawIInv
<1>2. CASE Row
  <2>1. DrawTypeOK'
    BY <1>0, <1>2 DEF Row, DrawTypeOK
  <2>2. Counted'
    BY <1>0, <1>2, <1>r DEF Row, DrawTypeOK, Counted, InRow, Column
  <2>3. Drawn' = Drawn /\ vram' = vram /\ ticks <= ticks'
    BY <1>0, <1>2 DEF Row, Drawn, DrawTypeOK
  <2>4. \A row \in 0 .. H - 1, column \in Nat : Passed(row, column) => Passed(row, column)'
    BY <1>2 DEF Row, Passed, InRow
  <2> QED
    BY <2>1, <2>2, <2>3, <2>4, StillShown DEF DrawIInv
<1>3. CASE Test
  <2>1. DrawTypeOK'
    BY <1>0, <1>3 DEF Test, DrawTypeOK, Counted, InRow
  <2>2. Counted'
    BY <1>0, <1>3, <1>r DEF Test, DrawTypeOK, Counted, InRow, Column
  <2>3. Drawn' = Drawn /\ vram' = vram /\ ticks <= ticks'
    BY <1>0, <1>3 DEF Test, Drawn, DrawTypeOK
  <2>4. \A row \in 0 .. H - 1, column \in Nat : Passed(row, column) => Passed(row, column)'
    BY <1>0, <1>3 DEF Test, Passed, InRow, DrawTypeOK
  <2> QED
    BY <2>1, <2>2, <2>3, <2>4, StillShown DEF DrawIInv
<1>4. CASE Put
  <2>1. DrawTypeOK'
    BY <1>0, <1>4 DEF Put, DrawTypeOK
  <2>2. Counted'
    BY <1>0, <1>4 DEF Put, DrawTypeOK, Counted, InRow, Column
  <2>3. ASSUME NEW p \in 0 .. Drawn' - 1
        PROVE  \E row \in 0 .. H - 1, column \in 0 .. W + ticks' - 1 : Shows(p, row, column)' /\ Passed(row, column)'
    <3> DEFINE location == write_pixel8x(X + i, Y + l)
    <3>1. /\ vram' = [m \in DOMAIN vram \union {location} |-> IF m = location THEN j ELSE vram[m]]
          /\ ticks' = ticks /\ l' = l /\ i' = i /\ drawPc' = "load" /\ drawPc = "put"
      BY <1>4 DEF Put
    <3>2. CASE p = j
      <4>1. l \in 0 .. H - 1 /\ i \in 0 .. W + ticks - 1
        BY <1>0, <3>1 DEF DrawTypeOK, Counted, InRow
      <4>2. j <= l * W + i /\ l * W + i <= j + ticks
        BY <1>0, <3>1 DEF Counted, InRow, Column
      <4>3. Shows(p, l, i)'
        BY <3>1, <3>2, <4>2 DEF Shows, write_pixel8x
      <4>4. Passed(l, i)'
        BY <1>0, <3>1 DEF Passed, InRow, Column, DrawTypeOK
      <4> QED
        BY <3>1, <4>1, <4>3, <4>4
    <3>3. CASE p # j
      <4>1. p \in 0 .. Drawn - 1
        BY <1>0, <1>4, <3>3 DEF Put, Drawn, DrawTypeOK
      <4>2. PICK row \in 0 .. H - 1, column \in 0 .. W + ticks - 1 : Shows(p, row, column) /\ Passed(row, column)
        BY <4>1 DEF DrawIInv
      <4>3. row < l \/ (row = l /\ column < i)
        BY <3>1, <4>2 DEF Passed
      <4>4. write_pixel8x(X + column, Y + row) # location
        <5>1. l \in 0 .. H - 1 /\ i \in Nat /\ column \in Nat
          BY <1>0, <3>1 DEF DrawTypeOK, Counted, InRow
        <5>2. CASE column < i
          BY <5>1, <5>2, Distinct
        <5>3. CASE i < column
          BY <5>1, <5>3, Distinct
        <5>4. CASE i = column
          <6>1. row # l
            BY <4>3, <5>1, <5>4
          <6>2. Pitch * (X + i) \in Nat
            BY <5>1
          <6> QED
            BY <5>1, <5>4, <6>1, <6>2 DEF write_pixel8x
        <5> QED
          BY <5>1, <5>2, <5>3, <5>4
      <4>5. Shows(p, row, column)'
        BY <3>1, <4>2, <4>4 DEF Shows, write_pixel8x
      <4>6. Passed(row, column)'
        BY <1>0, <3>1, <4>3 DEF Passed, InRow, Column, DrawTypeOK
      <4> QED
        BY <3>1, <4>5, <4>6
    <3> QED
      BY <3>2, <3>3
  <2> QED
    BY <2>1, <2>2, <2>3 DEF DrawIInv
<1>5. CASE Load
  <2>1. DrawTypeOK'
    BY <1>0, <1>5 DEF Load, DrawTypeOK
  <2>2. Counted'
    BY <1>0, <1>5 DEF Load, DrawTypeOK, Counted, InRow, Column
  <2>3. Drawn' = Drawn /\ vram' = vram /\ ticks <= ticks'
    BY <1>0, <1>5 DEF Load, Drawn, DrawTypeOK
  <2>4. \A row \in 0 .. H - 1, column \in Nat : Passed(row, column) => Passed(row, column)'
    BY <1>5 DEF Load, Passed, InRow, Column
  <2> QED
    BY <2>1, <2>2, <2>3, <2>4, StillShown DEF DrawIInv
<1>6. CASE Store
  <2>1. DrawTypeOK'
    BY <1>0, <1>6 DEF Store, DrawTypeOK
  <2>2. Counted'
    BY <1>0, <1>6, <1>r DEF Store, DrawTypeOK, Counted, InRow, Column
  <2>3. Drawn' = Drawn /\ vram' = vram /\ ticks <= ticks'
    BY <1>0, <1>6 DEF Store, Drawn, DrawTypeOK
  <2>4. \A row \in 0 .. H - 1, column \in Nat : Passed(row, column) => Passed(row, column)'
    BY <1>0, <1>6 DEF Store, Passed, InRow, Column, DrawTypeOK
  <2> QED
    BY <2>1, <2>2, <2>3, <2>4, StillShown DEF DrawIInv
<1>7. CASE Tick
  <2>1. DrawTypeOK'
    BY <1>0, <1>7 DEF Tick, DrawTypeOK
  <2>2. Counted'
    BY <1>0, <1>7, <1>r DEF Tick, DrawTypeOK, Counted, InRow, Column
  <2>3. Drawn' = Drawn /\ vram' = vram /\ ticks <= ticks'
    BY <1>0, <1>7 DEF Tick, Drawn, DrawTypeOK
  <2>4. \A row \in 0 .. H - 1, column \in Nat : Passed(row, column) => Passed(row, column)'
    BY <1>0, <1>7 DEF Tick, Passed, InRow, Column, DrawTypeOK
  <2> QED
    BY <2>1, <2>2, <2>3, <2>4, StillShown DEF DrawIInv
<1>8. CASE UNCHANGED drawVars
  <2>1. DrawTypeOK' /\ Counted'
    BY <1>0, <1>8 DEF drawVars, DrawTypeOK, Counted, InRow, Column
  <2>2. Drawn' = Drawn /\ vram' = vram /\ ticks <= ticks'
    BY <1>0, <1>8 DEF drawVars, Drawn, DrawTypeOK
  <2>3. \A row \in 0 .. H - 1, column \in Nat : Passed(row, column) => Passed(row, column)'
    BY <1>8 DEF drawVars, Passed, InRow, Column
  <2> QED
    BY <2>1, <2>2, <2>3, StillShown DEF DrawIInv
<1> QED
  BY <1>1, <1>2, <1>3, <1>4, <1>5, <1>6, <1>7, <1>8 DEF DrawNext, DrawStep

LEMMA IInvShifted == DrawIInv => ShiftedByTicks
<1> SUFFICES ASSUME DrawIInv PROVE ShiftedByTicks
  OBVIOUS
<1>1. ASSUME drawPc = "put" PROVE j < W * H
  <2>1. l < H /\ j < l * W + W /\ l \in Nat /\ j \in Nat
    BY <1>1 DEF DrawIInv, DrawTypeOK, Counted, InRow
  <2>2. l * W + W <= W * H /\ l * W \in Nat
    BY <2>1, RowBelow, RowStep, DrawAssumption
  <2> QED
    BY <2>1, <2>2, DrawAssumption
<1> QED
  BY <1>1 DEF DrawIInv, ShiftedByTicks

\* The inductive invariant of draw_icon and the clock's tick: how many pixels
\* the loops have drawn, and where each of them is (main.cc:203,341-348).
THEOREM DrawInvariant == DrawSpec => []DrawIInv
<1>1. DrawInit => DrawIInv
  BY DrawInitIInv
<1>2. DrawIInv /\ [DrawNext]_drawVars => DrawIInv'
  BY DrawNextIInv
<1> QED
  BY <1>1, <1>2, PTL DEF DrawSpec

\* For an image of any size and any number of ticks: every pixel drawn stays on
\* the screen, shifted by as many columns as there were ticks at most, and none
\* behind the image is read (main.cc:203,341-348, vga.cc:342-358).
THEOREM EveryPixelStays == DrawSpec => []ShiftedByTicks
<1>1. DrawIInv => ShiftedByTicks
  BY IInvShifted
<1> QED
  BY <1>1, DrawInvariant, PTL

\* kernel_main's drawing of its picture, after the scan and the decoding and
\* under the clock's ticks, is a run of draw_icon (main.cc:203,341-348).
THEOREM BootDraws == BootSpec => DrawSpec
<1>1. BootInit => DrawInit
  BY DEF BootInit
<1>2. [BootNext]_bootVars => [DrawNext]_drawVars
  BY DEF BootNext, ScanBus, DecodeImage, DrawImage, TickWhileDrawing, DrawNext, bootVars
<1> QED
  BY <1>1, <1>2, PTL DEF BootSpec, DrawSpec

\* In the whole boot every pixel that was drawn stays on the screen, and none
\* behind the image is read (main.cc:203,341-348, vga.cc:342-358).
THEOREM DrawnAtBoot == BootSpec => []ShiftedByTicks
  BY BootDraws, EveryPixelStays, PTL
=============================================================================
