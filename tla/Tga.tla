-------------------------------- MODULE Tga --------------------------------
(***************************************************************************)
(* tga_parse of src/common/tga.cc: an image file is decoded into a block   *)
(* of the heap, its size in two words and then a word for every pixel, the *)
(* rows from the top.  A step is the header, a packet of a compressed      *)
(* image, or the whole of another one.                                     *)
(*                                                                         *)
(* Of the file only its shape is kept.  A pixel is known by the offset in  *)
(* the file of the bytes it is taken from.                                 *)
(***************************************************************************)
EXTENDS Words, Sequences

CONSTANTS
    Images,     \* the headers: [kind, supported, w, h, o]
    Runs,       \* the counts of a packet, 1 to 128
    FileLimit   \* the parameter size, 1000 in the call

ASSUME TgaAssumption ==
    /\ Images \subseteq [kind : Nat, supported : BOOLEAN, w : Nat, h : Nat, o : {0, 1}]
    /\ Runs \subseteq Nat \ {0}

VARIABLES
    img,        \* the image's header
    tgaPc,      \* "header", "packets" or "done"
    data,       \* the block, NULL before and when the image is refused
    local,      \* its x, y, i and m
    stream      \* history: the pixels in the order they were decoded

tgaVars == <<img, tgaPc, data, local, stream>>

NULL == 0
HeaderLen == 18
Pixels == img.w * img.h
Compressed == img.kind \in {9, 10}
\* The bytes of a pixel: an index of a palette, or three colours.
PixelLen == IF img.kind \in {1, 9} THEN 1 ELSE 3

\* Mutants: the origin is taken the other way round; a row too far up.
RowStart_Flipped(r) == (IF img.o = 0 THEN r ELSE img.h - r - 1) * img.w
RowStart_TooFar(r) == (IF img.o = 0 THEN img.h - r - 2 ELSE r) * img.w
\* (!o ? h-y-1 : y) * w
RowStart(r) == (IF img.o = 0 THEN img.h - r - 1 ELSE r) * img.w

Refuse(block) == word' = FreePtr(block.mem, block.ptr)

\* The header.  An image without pixels is refused before malloc.
Header ==
    /\ tgaPc = "header"
    /\ UNCHANGED <<img, stream>>
    /\ IF img.w < 1 \/ img.h < 1
       THEN tgaPc' = "done" /\ UNCHANGED <<data, local, word, last_alloc>>
       ELSE LET block == Malloc(word, last_alloc, Pixels + 2) IN
            /\ last_alloc' = block.last
            /\ IF img.supported /\ img.kind \in {1, 2, 9, 10}
               THEN /\ word' = block.mem
                    /\ data' = block.ptr
                    /\ local' = [local EXCEPT !.m = HeaderLen]
                    /\ tgaPc' = IF Compressed THEN "packets" ELSE "rows"
               ELSE /\ Refuse(block)
                    /\ tgaPc' = "done"
                    /\ UNCHANGED <<data, local>>

Finish(mem) == [mem EXCEPT ![data] = img.w, ![data + 1] = img.h]

\* Types 1 and 2: data is filled in order from the rows of the file; type 2
\* counts the bytes of its pixels from the beginning of the file.
Rows ==
    /\ tgaPc = "rows"
    /\ LET from(n) == (IF img.kind = 1 THEN local.m ELSE 0)
                        + (RowStart(n \div img.w) + (n % img.w)) * PixelLen
       IN  /\ word' = Finish([w \in Memory |-> IF w \in data + 2 .. data + 1 + Pixels
                                               THEN from(w - data - 2) ELSE word[w]])
           /\ stream' = [n \in 1 .. Pixels |-> local.m + (n - 1) * PixelLen]
    /\ tgaPc' = "done"
    /\ UNCHANGED <<img, data, local, last_alloc>>

\* One pixel of a packet, decoded from offset from: at the end of a row the
\* next one is looked up.
Stored(s, from) ==
    LET atRow == s.i % img.w = 0
        place == IF atRow THEN RowStart(s.y) ELSE s.i
    IN  [mem |-> [s.mem EXCEPT ![data + 2 + place] = from],
         i |-> place + 1,
         y |-> IF atRow THEN s.y + 1 ELSE s.y]

\* A packet: a run of one pixel, or k pixels of their own.
Packet ==
    /\ tgaPc = "packets"
    /\ local.x < Pixels /\ local.m < FileLimit
    /\ \E k \in Runs, run \in BOOLEAN :
        LET from(n) == local.m + 1 + (IF run THEN 0 ELSE n - 1) * PixelLen
            after[n \in 0 .. k] ==
                IF n = 0 THEN [mem |-> word, i |-> local.i, y |-> local.y] ELSE Stored(after[n - 1], from(n))
        IN  /\ word' = after[k].mem
            /\ local' = [x |-> local.x + k, y |-> after[k].y, i |-> after[k].i,
                          m |-> local.m + 1 + (IF run THEN 1 ELSE k) * PixelLen]
            /\ stream' = stream \o [n \in 1 .. k |-> from(n)]
    /\ UNCHANGED <<img, tgaPc, data, last_alloc>>

\* The loop over the packets is over: data[0] and data[1].
Packed ==
    /\ tgaPc = "packets"
    /\ ~(local.x < Pixels /\ local.m < FileLimit)
    /\ word' = Finish(word)
    /\ tgaPc' = "done"
    /\ UNCHANGED <<img, data, local, stream, last_alloc>>

TgaInit ==
    /\ img \in Images
    /\ tgaPc = "header"
    /\ data = NULL
    /\ local = [x |-> 0, y |-> 0, i |-> 0, m |-> 0]
    /\ stream = <<>>

TgaNext == Header \/ Rows \/ Packet \/ Packed

(***************************************************************************)
(* Properties.                                                             *)
(***************************************************************************)
\* Where the n-th pixel of the file belongs, counted from the top left.
Target(n) ==
    LET r == (n - 1) \div img.w
    IN (IF img.o = 0 THEN img.h - 1 - r ELSE r) * img.w + ((n - 1) % img.w)

\* However the pixels are spread over the packets, the n-th pixel of the file
\* ends up at its place in the picture, also when a packet ends or begins
\* within a row, and those the file does not reach stay 0.  Type 2 alone takes
\* each pixel HeaderLen bytes too early.  The block of an image that is refused
\* is freed: the next request of its size finds it (tga.cc:9-16,25-36,38-80).
PictureIsTheFile ==
    /\ data # NULL /\ tgaPc # "rows" /\ Len(stream) <= Pixels =>
          /\ \A n \in 1 .. Pixels :
                word[data + 2 + Target(n)] =
                  IF n > Len(stream) THEN 0
                  ELSE IF img.kind = 2 THEN stream[n] - HeaderLen ELSE stream[n]
          /\ tgaPc = "done" => word[data] = img.w /\ word[data + 1] = img.h
    /\ tgaPc = "done" /\ data = NULL /\ Pixels > 0 /\ Whole(word, last_alloc) =>
          Malloc(word, last_alloc, Pixels + 2).ptr < last_alloc

\* What is written outside the block is written by the one packet that runs
\* past the last pixel, and by no more than its pixels: in a picture from the
\* top behind the block, in one from the bottom, whose next row would be the
\* one before the first, in front of the pixels, which is the size, the block's
\* header and the blocks before (tga.cc:38-54,60-76).
OnlyTheLastOverruns ==
    [][tgaPc = "packets" =>
        \A w \in Memory : word'[w] # word[w] =>
            \/ w \in data .. data + 1 + Pixels
            \/ /\ Len(stream) < Pixels
               /\ \E n \in Pixels + 1 .. Len(stream') : w = data + 2 + Target(n)]_<<word, tgaVars>>
=============================================================================
