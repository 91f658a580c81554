--------------------------- MODULE LoadImageProofs ---------------------------
(***************************************************************************)
(* Proofs about LoadImage, for images of any size: bmp_img_read stays in   *)
(* its memory and takes each byte from its place, and a file that was      *)
(* finished arrives as it was written.                                     *)
(***************************************************************************)
EXTENDS LoadImage, SequenceTheorems, TLAPS

Writes == [dims : Dims, n : 0 .. MaxWrites]

(* Products: the only facts that are not linear. *)
LEMMA NextMultiple ==
  ASSUME NEW c \in Nat, NEW x \in Nat, NEW y \in Nat, x < y
  PROVE  x * c + c <= y * c
<1>1. PICK k \in Nat : y = x + 1 + k
  <2>1. y - x - 1 \in Nat /\ y = x + 1 + (y - x - 1)
    OBVIOUS
  <2> QED BY <2>1
<1>2. y * c = x * c + c + k * c
  BY <1>1
<1>3. k * c \in Nat /\ x * c \in Nat
  BY <1>1
<1> QED BY <1>2, <1>3

LEMMA Quotient ==
  ASSUME NEW c \in Nat \ {0}, NEW n \in Nat
  PROVE  n \div c \in Nat /\ n % c \in 0 .. c - 1 /\ n = (n \div c) * c + (n % c)
<1>1. n \div c \in Nat /\ n % c \in 0 .. c - 1 /\ n = c * (n \div c) + (n % c)
  OBVIOUS
<1>2. c * (n \div c) = (n \div c) * c
  BY <1>1
<1> QED BY <1>1, <1>2

LEMMA Digits ==
  ASSUME NEW c \in Nat \ {0}, NEW y \in Nat, NEW b \in 0 .. c - 1
  PROVE  (y * c + b) \div c = y /\ (y * c + b) % c = b
<1> DEFINE n == y * c + b
           q == n \div c
           m == n % c
<1>1. y * c \in Nat /\ n \in Nat
  OBVIOUS
<1>2. q \in Nat /\ m \in 0 .. c - 1 /\ n = q * c + m
  BY <1>1, Quotient
<1>3. q * c \in Nat
  BY <1>2
<1> HIDE DEF q, m
<1>4. ~(q < y)
  <2> SUFFICES ASSUME q < y PROVE FALSE
    OBVIOUS
  <2>1. q * c + c <= y * c
    BY <1>2, NextMultiple
  <2> QED BY <1>1, <1>2, <1>3, <2>1
<1>5. ~(y < q)
  <2> SUFFICES ASSUME y < q PROVE FALSE
    OBVIOUS
  <2>1. y * c + c <= q * c
    BY <1>2, NextMultiple
  <2> QED BY <1>1, <1>2, <1>3, <2>1
<1>6. q = y
  BY <1>2, <1>4, <1>5
<1>7. m = b
  BY <1>1, <1>2, <1>6
<1> QED BY <1>6, <1>7 DEF q, m

-----------------------------------------------------------------------------
(* The shape of an image. *)
LEMMA Shape ==
  ASSUME NEW d \in Dims
  PROVE  /\ Width(d) \in Nat \ {0} /\ Height(d) \in Int \ {0}
         /\ Abs(Height(d)) \in Nat \ {0}
         /\ RowBytes(d) \in Nat \ {0} /\ RowBytes(d) = 3 * Width(d)
         /\ Padding(Width(d)) \in Nat
         /\ Stride(d) \in Nat \ {0} /\ Stride(d) = RowBytes(d) + Padding(Width(d))
<1>1. Width(d) \in Nat \ {0} /\ Height(d) \in Int \ {0}
  BY DimsAssumption DEF Width, Height
<1>2. Abs(Height(d)) \in Nat \ {0}
  BY <1>1 DEF Abs
<1>3. RowBytes(d) \in Nat \ {0} /\ RowBytes(d) = 3 * Width(d)
  BY <1>1 DEF RowBytes
<1>4. Padding(Width(d)) \in Nat
  BY <1>1 DEF Padding
<1> QED BY <1>1, <1>2, <1>3, <1>4 DEF Stride

(* The rows of the file are those of the image, each once.                 *)
LEMMA RowIndexInvolution ==
  ASSUME NEW d \in Dims, NEW y \in Rows(d)
  PROVE  /\ RowIndex(Height(d), y) \in Rows(d)
         /\ RowIndex(Height(d), RowIndex(Height(d), y)) = y
<1>1. Height(d) \in Int \ {0}
  BY Shape
<1> QED BY <1>1 DEF RowIndex, Rows, Abs

LEMMA RowStartNext ==
  ASSUME NEW d \in Dims, NEW y \in Nat
  PROVE  /\ RowStart(d, y) \in Nat /\ RowStart(d, y) >= 2
         /\ RowStart(d, y + 1) = RowStart(d, y) + Stride(d)
         /\ RowStart(d, 0) = 2
<1>1. Stride(d) \in Nat
  BY Shape
<1>2. y * Stride(d) \in Nat /\ (y + 1) * Stride(d) = y * Stride(d) + Stride(d)
  BY <1>1
<1> QED BY <1>1, <1>2 DEF RowStart

LEMMA RowStartGrows ==
  ASSUME NEW d \in Dims, NEW x \in Nat, NEW y \in Nat, x < y
  PROVE  RowStart(d, x) + Stride(d) <= RowStart(d, y)
<1>1. Stride(d) \in Nat /\ x * Stride(d) \in Nat /\ y * Stride(d) \in Nat
  BY Shape
<1>2. x * Stride(d) + Stride(d) <= y * Stride(d)
  BY <1>1, NextMultiple
<1> QED BY <1>1, <1>2 DEF RowStart

(* A cell of the file is a byte of one row, or of its padding. *)
LEMMA CellOfRow ==
  ASSUME NEW i \in Writes, NEW y \in Nat, NEW k \in 1 .. Stride(i.dims)
  PROVE  Cell(i, RowStart(i.dims, y) + k) = RowCell(i, y, k)
<1> DEFINE s == Stride(i.dims)
           c == RowStart(i.dims, y) + k
<1>1. i.dims \in Dims
  BY DEF Writes
<1>2. s \in Nat \ {0} /\ y * s \in Nat
  BY <1>1, Shape
<1>3. c - 3 = y * s + (k - 1) /\ k - 1 \in 0 .. s - 1 /\ c \in Nat /\ c > 2
  BY <1>2 DEF RowStart
<1>4. (c - 3) \div s = y /\ (c - 3) % s = k - 1
  BY <1>2, <1>3, Digits
<1>5. Cell(i, c) = RowCell(i, (c - 3) \div s, 1 + ((c - 3) % s))
  BY <1>3 DEF Cell
<1> QED BY <1>4, <1>5

LEMMA CellOfHead == ASSUME NEW i PROVE Cell(i, 1) = Magic /\ Cell(i, 2) = Header(i.dims)
BY DEF Cell

(* What bmp_img_write writes for one row. *)
LEMMA RowTyped ==
  ASSUME NEW i \in Writes, i.n > 0, NEW y \in Rows(i.dims)
  PROVE  LET r == ImageRow(i, RowIndex(Height(i.dims), y))
                    \o [k \in 1 .. Padding(Width(i.dims)) |-> Pad]
         IN  /\ r \in Seq(Cells) /\ Len(r) = Stride(i.dims)
             /\ \A k \in 1 .. Stride(i.dims) : r[k] = RowCell(i, y, k)
<1> DEFINE x == RowIndex(Height(i.dims), y)
           a == ImageRow(i, x)
           p == [k \in 1 .. Padding(Width(i.dims)) |-> Pad]
<1>1. i.dims \in Dims /\ i.n \in 1 .. MaxWrites
  BY BoundAssumption DEF Writes
<1>2. /\ RowBytes(i.dims) \in Nat /\ Padding(Width(i.dims)) \in Nat
      /\ Stride(i.dims) = RowBytes(i.dims) + Padding(Width(i.dims))
  BY <1>1, Shape
<1>3. x \in Rows(i.dims)
  BY <1>1, RowIndexInvolution
<1>4. \A k \in 1 .. RowBytes(i.dims) : Byte(i.n, x, k) \in Cells
  BY <1>1, <1>3 DEF Cells
<1>5. a \in Seq(Cells) /\ Len(a) = RowBytes(i.dims)
        /\ \A k \in 1 .. RowBytes(i.dims) : a[k] = Byte(i.n, x, k)
  BY <1>2, <1>4 DEF ImageRow
<1>6. Pad \in Cells
  BY DEF Cells
<1>7. p \in Seq(Cells) /\ Len(p) = Padding(Width(i.dims))
        /\ \A k \in 1 .. Padding(Width(i.dims)) : p[k] = Pad
  BY <1>2, <1>6
<1> HIDE DEF x, a, p
<1>8. /\ a \o p \in Seq(Cells)
      /\ Len(a \o p) = Len(a) + Len(p)
      /\ \A k \in 1 .. Len(a) + Len(p) : (a \o p)[k] = IF k <= Len(a) THEN a[k] ELSE p[k - Len(a)]
  BY <1>5, <1>7, ConcatProperties
<1>9. ASSUME NEW k \in 1 .. Stride(i.dims)
      PROVE  (a \o p)[k] = RowCell(i, y, k)
  <2>1. CASE k <= RowBytes(i.dims)
    <3>1. (a \o p)[k] = Byte(i.n, x, k)
      BY <1>2, <1>5, <1>7, <1>8, <2>1
    <3> QED BY <2>1, <3>1 DEF RowCell, x
  <2>2. CASE ~(k <= RowBytes(i.dims))
    <3>1. (a \o p)[k] = Pad
      BY <1>2, <1>5, <1>7, <1>8, <2>2
    <3> QED BY <2>2, <3>1 DEF RowCell
  <2> QED BY <2>1, <2>2
<1>10. a \o p \in Seq(Cells) /\ Len(a \o p) = Stride(i.dims)
  BY <1>2, <1>5, <1>7, <1>8
<1>11. QED BY <1>9, <1>10 DEF a, p, x

LEMMA InitIInv == Init => IInv
<1> SUFFICES ASSUME Init PROVE IInv
  OBVIOUS
<1> USE DEF Init
<1>1. img \in Writes /\ img.n = 0 /\ img.dims \in Dims
  BY BoundAssumption DEF Writes
<1>2. TypeOK
  <2>1. Abs(Height(img.dims)) \in Nat /\ Abs(Height(header)) \in Nat
    BY <1>1, Shape
  <2>2. Pad \in Cells
    BY DEF Cells
  <2>3. file \in Seq(Cells) /\ buffer \in Seq(Cells)
    <3>1. <<>> \in Seq(Cells) /\ <<Pad>> \in Seq(Cells)
      BY <2>2
    <3>2. (file = <<>> \/ file = <<Pad>>) /\ buffer = <<>>
      OBVIOUS
    <3> QED BY <3>1, <3>2
  <2>4. region \in Seq(Seq(Cells))
    OBVIOUS
  <2>5. wrow \in 0 .. Abs(Height(img.dims)) /\ row \in 0 .. Abs(Height(header))
    BY <2>1
  <2>6. exists \in BOOLEAN
    OBVIOUS
  <2>7. whole \in BOOLEAN /\ rewritten \in BOOLEAN
    OBVIOUS
  <2> QED BY <1>1, <2>3, <2>4, <2>5, <2>6, <2>7 DEF TypeOK, Writes
<1>3. FileInv
  BY <1>1 DEF FileInv
<1>4. LoaderInv /\ PixelsInv /\ WholeInv
  BY DEF LoaderInv, PixelsInv, WholeInv
<1> QED BY <1>2, <1>3, <1>4 DEF IInv
-----------------------------------------------------------------------------
(* The types of what the writer uses, and of what the loader uses. *)
WriterTyped ==
  /\ file \in Seq(Cells) /\ buffer \in Seq(Cells) /\ img \in Writes
  /\ wpc \in {"idle", "header", "rows", "stopped"}
  /\ wrow \in 0 .. Abs(Height(img.dims))

LoaderTyped ==
  /\ lpc \in {"start", "header", "rows", "size", "sent", "refused", "crashed"}
  /\ pos \in Nat /\ header \in Dims
  /\ row \in 0 .. Abs(Height(header))
  /\ pixels # <<>> => /\ DOMAIN pixels = Rows(header)
                      /\ \A r \in Rows(header) : /\ pixels[r] \in Seq(Cells)
                                                 /\ Len(pixels[r]) = RowBytes(header)
  /\ err \in {"none", "BMP_OK", "BMP_ERROR", "BMP_INVALID_FILE", "BMP_FILE_NOT_OPENED"}
  /\ region \in Seq(Seq(Cells))

Flags == exists \in BOOLEAN /\ whole \in BOOLEAN /\ rewritten \in BOOLEAN

LEMMA TypeParts == /\ TypeOK <=> WriterTyped /\ LoaderTyped /\ Flags
                   /\ TypeOK' <=> WriterTyped' /\ LoaderTyped' /\ Flags'
BY DEF TypeOK, WriterTyped, LoaderTyped, Flags, Writes

(* What the loader knows does not change while an image is written. *)
LEMMA LoaderWaits ==
  ASSUME IInv, UNCHANGED <<img, loader, rewritten>>, whole /\ ~rewritten => UNCHANGED wpc
  PROVE  LoaderTyped' /\ LoaderInv' /\ PixelsInv' /\ WholeInv'
<1>1. LoaderTyped'
  BY TypeParts DEF IInv, LoaderTyped, loader
<1>2. LoaderInv'
  BY DEF IInv, LoaderInv, loader
<1>3. PixelsInv'
  BY DEF IInv, PixelsInv, loader
<1>4. WholeInv'
  BY DEF IInv, WholeInv, loader
<1> QED BY <1>1, <1>2, <1>3, <1>4

LEMMA OpenWriteIInv == ASSUME IInv, OpenWrite PROVE IInv'
<1> USE DEF OpenWrite
<1>1. img' \in Writes /\ img'.n > 0 /\ img'.dims \in Dims
  <2>1. PICK d \in Dims : img' = [dims |-> d, n |-> img.n + 1]
    OBVIOUS
  <2>2. img.n \in 0 .. MaxWrites /\ img.n < MaxWrites
    BY TypeParts DEF IInv, WriterTyped, Writes
  <2> QED BY <2>1, <2>2, BoundAssumption DEF Writes
<1>2. TypeOK'
  <2>1. WriterTyped'
    <3>1. Abs(Height(img'.dims)) \in Nat
      BY <1>1, Shape
    <3>2. file' \in Seq(Cells) /\ buffer' \in Seq(Cells)
      OBVIOUS
    <3> QED BY <1>1, <3>1, <3>2 DEF WriterTyped
  <2>2. LoaderTyped'
    BY TypeParts DEF IInv, LoaderTyped, loader
  <2>3. Flags'
    BY TypeParts DEF IInv, Flags, loader
  <2> QED BY <2>1, <2>2, <2>3, TypeParts
<1>3. FileInv'
  BY <1>1 DEF FileInv
<1>4. LoaderInv'
  <2>1. lpc = "start" => ~whole' /\ ~rewritten'
    BY DEF IInv, LoaderInv, loader
  <2> QED BY <2>1 DEF IInv, LoaderInv, loader
<1>5. PixelsInv' /\ WholeInv'
  <2>1. ~rewritten' => lpc = "start"
    OBVIOUS
  <2>2. lpc = "start" => pixels' = <<>>
    BY DEF IInv, LoaderInv, loader
  <2>3. lpc = "start" => ~whole'
    BY DEF IInv, LoaderInv, loader
  <2>4. PixelsInv'
    BY <2>1, <2>2 DEF PixelsInv
  <2>5. WholeInv'
    BY <2>1, <2>3 DEF WholeInv
  <2> QED BY <2>4, <2>5
<1> QED BY <1>2, <1>3, <1>4, <1>5 DEF IInv

(* Whenever the writer is at work, the loader's file is not a finished one. *)
LEMMA NotWhole == ASSUME IInv, wpc # "idle" PROVE ~ (whole /\ ~rewritten)
BY DEF IInv, WholeInv

LEMMA WriteHeaderIInv == ASSUME IInv, WriteHeader PROVE IInv'
<1> USE DEF WriteHeader
<1>1. img \in Writes /\ img.dims \in Dims /\ img.n > 0
  BY TypeParts DEF IInv, WriterTyped, FileInv, Writes
<1>2. buffer' = <<Magic, Header(img.dims)>> /\ file = <<>>
  BY DEF IInv, FileInv
<1>3. LoaderTyped' /\ LoaderInv' /\ PixelsInv' /\ WholeInv'
  BY NotWhole, LoaderWaits
<1>4. TypeOK'
  <2>1. Magic \in Cells /\ Header(img.dims) \in Cells
    BY <1>1 DEF Cells
  <2>2. buffer' \in Seq(Cells)
    <3>1. \A a, b \in Cells : <<a, b>> \in Seq(Cells)
      OBVIOUS
    <3> QED BY <1>2, <2>1, <3>1
  <2>3. WriterTyped'
    BY <2>2, TypeParts DEF IInv, WriterTyped
  <2>4. Flags'
    BY TypeParts DEF IInv, Flags, loader
  <2> QED BY <1>3, <2>3, <2>4, TypeParts
<1>5. FileInv'
  <2>1. \A c \in 1 .. 2 : buffer'[c] = Cell(img, c)
    BY <1>2, CellOfHead
  <2>2. Len(buffer') = 2 /\ Len(file) = 0
    BY <1>2
  <2>3. wrow = 0 /\ RowStart(img.dims, 0) = 2
    BY <1>1, RowStartNext DEF IInv, FileInv
  <2> QED BY <1>1, <1>2, <2>1, <2>2, <2>3 DEF IInv, FileInv
<1> QED BY <1>3, <1>4, <1>5 DEF IInv

LEMMA WriteRowIInv == ASSUME IInv, WriteRow PROVE IInv'
<1> DEFINE r == ImageRow(img, RowIndex(Height(img.dims), wrow))
                  \o [k \in 1 .. Padding(Width(img.dims)) |-> Pad]
           d == img.dims
<1>0. WriterTyped /\ FileInv
  BY TypeParts DEF IInv
<1>1. img \in Writes /\ d \in Dims /\ img.n > 0 /\ wpc = "rows" /\ wpc' = "rows"
  BY <1>0 DEF WriteRow, WriterTyped, FileInv, Writes
<1>2. /\ Abs(Height(d)) \in Nat /\ wrow \in Rows(d) /\ wrow \in Nat
      /\ wrow' = wrow + 1 /\ wrow' \in 0 .. Abs(Height(d))
  BY <1>0, <1>1, Shape DEF WriteRow, WriterTyped, Rows
<1>3. r \in Seq(Cells) /\ Len(r) = Stride(d) /\ \A k \in 1 .. Stride(d) : r[k] = RowCell(img, wrow, k)
  BY <1>1, <1>2, RowTyped
<1>4. buffer \in Seq(Cells) /\ Len(buffer) \in Nat /\ Len(file) \in Nat /\ Stride(d) \in Nat
        /\ Len(file) + Len(buffer) = RowStart(d, wrow)
  BY <1>0, <1>1, Shape DEF WriterTyped, FileInv
<1>5. buffer' = buffer \o r /\ UNCHANGED <<img, wpc, file, exists, loader, rewritten>>
  <2>1. \A a, b, c \in Seq(Cells) : (a \o b) \o c = a \o (b \o c)
    BY ConcatAssociative
  <2>2. ImageRow(img, RowIndex(Height(d), wrow)) \in Seq(Cells)
    <3>1. RowIndex(Height(d), wrow) \in Rows(d)
      BY <1>1, <1>2, RowIndexInvolution
    <3>2. img.n \in 1 .. MaxWrites /\ RowBytes(d) \in Nat
      BY <1>1, Shape, BoundAssumption DEF Writes
    <3>3. \A k \in 1 .. RowBytes(d) : Byte(img.n, RowIndex(Height(d), wrow), k) \in Cells
      BY <1>1, <3>1, <3>2 DEF Cells
    <3> QED BY <3>2, <3>3 DEF ImageRow
  <2>3. [k \in 1 .. Padding(Width(d)) |-> Pad] \in Seq(Cells)
    <3>1. Pad \in Cells /\ Padding(Width(d)) \in Nat
      BY <1>1, Shape DEF Cells
    <3> QED BY <3>1
  <2> QED BY <1>4, <2>1, <2>2, <2>3 DEF WriteRow
<1> HIDE DEF r
<1>6. /\ buffer' \in Seq(Cells) /\ Len(buffer') = Len(buffer) + Len(r)
      /\ \A c \in 1 .. Len(buffer) + Len(r) :
           buffer'[c] = IF c <= Len(buffer) THEN buffer[c] ELSE r[c - Len(buffer)]
  BY <1>3, <1>4, <1>5, ConcatProperties
<1>7. LoaderTyped' /\ LoaderInv' /\ PixelsInv' /\ WholeInv'
  BY <1>5, LoaderWaits
<1>8. TypeOK'
  <2>1. WriterTyped'
    BY <1>0, <1>1, <1>2, <1>5, <1>6 DEF WriterTyped
  <2>2. Flags'
    BY <1>5, TypeParts DEF IInv, Flags, loader
  <2> QED BY <1>7, <2>1, <2>2, TypeParts
<1>9. FileInv'
  <2>1. ASSUME NEW c \in 1 .. Len(buffer')
        PROVE  buffer'[c] = Cell(img, Len(file) + c)
    <3>1. CASE c <= Len(buffer)
      <4>1. c \in 1 .. Len(buffer) /\ buffer'[c] = buffer[c]
        BY <1>3, <1>4, <1>6, <3>1
      <4> QED BY <1>0, <4>1 DEF FileInv
    <3>2. CASE ~(c <= Len(buffer))
      <4> DEFINE k == c - Len(buffer)
      <4>1. k \in 1 .. Stride(d) /\ buffer'[c] = r[k]
        BY <1>3, <1>4, <1>6, <3>2
      <4>2. Len(file) + c = RowStart(d, wrow) + k
        BY <1>4, <4>1
      <4>3. Cell(img, RowStart(d, wrow) + k) = RowCell(img, wrow, k)
        BY <1>1, <1>2, <4>1, CellOfRow
      <4> QED BY <1>3, <4>1, <4>2, <4>3
    <3> QED BY <3>1, <3>2
  <2>2. Len(file) + Len(buffer') = RowStart(d, wrow')
    <3>1. RowStart(d, wrow + 1) = RowStart(d, wrow) + Stride(d)
      BY <1>1, <1>2, RowStartNext
    <3> QED BY <1>2, <1>3, <1>4, <1>6, <3>1
  <2> QED BY <1>0, <1>1, <1>5, <2>1, <2>2 DEF FileInv
<1> QED BY <1>7, <1>8, <1>9 DEF IInv

(* A part of the buffer, or all of it, is appended to the file. *)
LEMMA Flushed ==
  ASSUME IInv, NEW n \in 0 .. Len(buffer),
         file' = file \o SubSeq(buffer, 1, n),
         buffer' = SubSeq(buffer, n + 1, Len(buffer)),
         UNCHANGED img
  PROVE  /\ file' \in Seq(Cells) /\ buffer' \in Seq(Cells)
         /\ Len(file') = Len(file) + n /\ Len(buffer') = Len(buffer) - n
         /\ img.n > 0 => \A c \in 1 .. Len(file') : file'[c] = Cell(img, c)
         /\ \A c \in 1 .. Len(buffer') : buffer'[c] = Cell(img, Len(file') + c)
<1> DEFINE a == SubSeq(buffer, 1, n)
           b == SubSeq(buffer, n + 1, Len(buffer))
<1>1. /\ file \in Seq(Cells) /\ buffer \in Seq(Cells)
      /\ Len(file) \in Nat /\ Len(buffer) \in Nat /\ n \in Nat
  BY TypeParts DEF IInv, WriterTyped
<1>2. FileInv
  BY DEF IInv
<1>3. \A c \in 1 .. Len(buffer) : buffer[c] \in Cells
  BY <1>1, ElementOfSeq
<1>4. a \in Seq(Cells) /\ Len(a) = n /\ \A c \in 1 .. n : a[c] = buffer[c]
  <2>1. \A c \in 1 .. n : buffer[c] \in Cells
    BY <1>1, <1>3
  <2> QED BY <1>1, <2>1, SubSeqProperties
<1>5. /\ b \in Seq(Cells) /\ Len(b) = Len(buffer) - n
      /\ \A c \in 1 .. Len(buffer) - n : b[c] = buffer[n + c]
  <2>1. \A c \in n + 1 .. Len(buffer) : buffer[c] \in Cells
    BY <1>1, <1>3
  <2> QED BY <1>1, <2>1, SubSeqProperties
<1> HIDE DEF a, b
<1>6. /\ file \o a \in Seq(Cells) /\ Len(file \o a) = Len(file) + n
      /\ \A c \in 1 .. Len(file) + n :
           (file \o a)[c] = IF c <= Len(file) THEN file[c] ELSE a[c - Len(file)]
  BY <1>1, <1>4, ConcatProperties
<1>7. file' = file \o a /\ buffer' = b
  BY DEF a, b
<1>8. ASSUME img.n > 0, NEW c \in 1 .. Len(file) + n
      PROVE  file'[c] = Cell(img, c)
  <2>1. CASE c <= Len(file)
    BY <1>1, <1>2, <1>6, <1>7, <1>8, <2>1 DEF FileInv
  <2>2. CASE ~(c <= Len(file))
    <3>1. c - Len(file) \in 1 .. n /\ file'[c] = buffer[c - Len(file)]
      BY <1>1, <1>4, <1>6, <1>7, <2>2
    <3>2. buffer[c - Len(file)] = Cell(img, Len(file) + (c - Len(file)))
      BY <1>1, <1>2, <3>1 DEF FileInv
    <3>3. Len(file) + (c - Len(file)) = c
      BY <1>1
    <3> QED BY <3>1, <3>2, <3>3
  <2> QED BY <2>1, <2>2
<1>9. ASSUME NEW c \in 1 .. Len(buffer) - n
      PROVE  buffer'[c] = Cell(img, (Len(file) + n) + c)
  <2>1. n + c \in 1 .. Len(buffer) /\ Len(file) + (n + c) = (Len(file) + n) + c
    BY <1>1
  <2>2. buffer[n + c] = Cell(img, Len(file) + (n + c))
    BY <1>2, <2>1 DEF FileInv
  <2> QED BY <1>5, <1>7, <2>1, <2>2
<1> QED BY <1>5, <1>6, <1>7, <1>8, <1>9

LEMMA FlushIInv == ASSUME IInv, Flush PROVE IInv'
<1>1. PICK n \in 1 .. Len(buffer) : /\ file' = file \o SubSeq(buffer, 1, n)
                                    /\ buffer' = SubSeq(buffer, n + 1, Len(buffer))
  BY DEF Flush
<1>2. UNCHANGED <<img, wpc, wrow, exists, loader, rewritten>>
  BY DEF Flush
<1>3. /\ WriterTyped /\ FileInv /\ img \in Writes
      /\ Len(file) \in Nat /\ Len(buffer) \in Nat /\ n \in 0 .. Len(buffer) /\ n > 0
  BY TypeParts DEF IInv, WriterTyped
<1>4. /\ file' \in Seq(Cells) /\ buffer' \in Seq(Cells)
      /\ Len(file') = Len(file) + n /\ Len(buffer') = Len(buffer) - n
      /\ img.n > 0 => \A c \in 1 .. Len(file') : file'[c] = Cell(img, c)
      /\ \A c \in 1 .. Len(buffer') : buffer'[c] = Cell(img, Len(file') + c)
  BY <1>1, <1>2, <1>3, Flushed
<1>5. wpc = "rows" /\ img.n > 0
  <2>1. buffer # <<>>
    BY <1>3
  <2>2. wpc = "rows"
    BY <1>3, <2>1 DEF FileInv
  <2> QED BY <1>3, <2>2 DEF FileInv, Writes
<1>6. LoaderTyped' /\ LoaderInv' /\ PixelsInv' /\ WholeInv'
  BY <1>2, LoaderWaits
<1>7. TypeOK'
  <2>1. WriterTyped'
    BY <1>2, <1>3, <1>4 DEF WriterTyped
  <2>2. Flags'
    BY <1>2, TypeParts DEF IInv, Flags, loader
  <2> QED BY <1>6, <2>1, <2>2, TypeParts
<1>8. FileInv'
  <2>1. Len(file') + Len(buffer') = Len(file) + Len(buffer)
    BY <1>3, <1>4
  <2> QED BY <1>2, <1>3, <1>4, <1>5, <2>1 DEF FileInv
<1> QED BY <1>6, <1>7, <1>8 DEF IInv

LEMMA CloseWriteIInv == ASSUME IInv, CloseWrite PROVE IInv'
<1>1. /\ wpc = "rows" /\ wpc' = "idle" /\ wrow = Abs(Height(img.dims))
      /\ file' = file \o buffer /\ buffer' = <<>>
      /\ UNCHANGED <<img, wrow, exists, loader, rewritten>>
  BY DEF CloseWrite
<1>2. /\ WriterTyped /\ FileInv /\ img \in Writes /\ buffer \in Seq(Cells)
      /\ Len(file) \in Nat /\ Len(buffer) \in 0 .. Len(buffer)
  BY TypeParts DEF IInv, WriterTyped
<1>3. SubSeq(buffer, 1, Len(buffer)) = buffer /\ SubSeq(buffer, Len(buffer) + 1, Len(buffer)) = <<>>
  <2>1. SubSeq(buffer, 1, Len(buffer)) = buffer
    BY <1>2, SubSeqFull
  <2>2. Len(buffer) + 1 \in Int /\ Len(buffer) \in Int /\ Len(buffer) < Len(buffer) + 1
    BY <1>2
  <2>3. SubSeq(buffer, Len(buffer) + 1, Len(buffer)) = <<>>
    BY <2>2, SubSeqEmpty
  <2> QED BY <2>1, <2>3
<1>4. /\ file' \in Seq(Cells) /\ Len(file') = Len(file) + Len(buffer)
      /\ img.n > 0 => \A c \in 1 .. Len(file') : file'[c] = Cell(img, c)
  <2>1. /\ file' = file \o SubSeq(buffer, 1, Len(buffer))
        /\ buffer' = SubSeq(buffer, Len(buffer) + 1, Len(buffer))
    BY <1>1, <1>3
  <2> QED BY <1>1, <1>2, <2>1, Flushed
<1>5. LoaderTyped' /\ LoaderInv' /\ PixelsInv' /\ WholeInv'
  BY <1>1, LoaderWaits, NotWhole
<1>6. TypeOK'
  <2>1. buffer' \in Seq(Cells)
    BY <1>1
  <2>2. WriterTyped'
    BY <1>1, <1>2, <1>4, <2>1 DEF WriterTyped
  <2>3. Flags'
    BY <1>1, TypeParts DEF IInv, Flags, loader
  <2> QED BY <1>5, <2>2, <2>3, TypeParts
<1>7. FileInv'
  <2>1. Len(file') = RowStart(img.dims, Abs(Height(img.dims)))
    BY <1>1, <1>2, <1>4 DEF FileInv
  <2>2. img.n # 0
    BY <1>1, <1>2 DEF FileInv
  <2> QED BY <1>1, <1>4, <2>1, <2>2 DEF FileInv
<1> QED BY <1>5, <1>6, <1>7 DEF IInv

LEMMA StopIInv == ASSUME IInv, Stop PROVE IInv'
<1>1. /\ wpc \in {"header", "rows"} /\ wpc' = "stopped" /\ buffer' = <<>>
      /\ UNCHANGED <<img, wrow, file, exists, loader, rewritten>>
  BY DEF Stop
<1>2. WriterTyped /\ FileInv
  BY TypeParts DEF IInv
<1>3. LoaderTyped' /\ LoaderInv' /\ PixelsInv' /\ WholeInv'
  BY <1>1, LoaderWaits, NotWhole
<1>4. TypeOK'
  <2>1. buffer' \in Seq(Cells)
    BY <1>1
  <2>2. WriterTyped'
    BY <1>1, <1>2, <2>1 DEF WriterTyped
  <2>3. Flags'
    BY <1>1, TypeParts DEF IInv, Flags, loader
  <2> QED BY <1>3, <2>2, <2>3, TypeParts
<1>5. FileInv'
  BY <1>1, <1>2 DEF FileInv
<1> QED BY <1>3, <1>4, <1>5 DEF IInv

-----------------------------------------------------------------------------
(* What the writer knows does not change while the image is loaded. *)
LEMMA WriterWaits ==
  ASSUME IInv, UNCHANGED <<file, writer>>
  PROVE  WriterTyped' /\ FileInv'
<1>1. WriterTyped'
  BY TypeParts DEF IInv, WriterTyped, writer
<1>2. FileInv'
  BY DEF IInv, FileInv, writer
<1> QED BY <1>1, <1>2

LEMMA OpenReadIInv == ASSUME IInv, OpenRead PROVE IInv'
<1>1. /\ lpc = "start" /\ (whole' = (wpc = "idle" /\ img.n > 0))
      /\ UNCHANGED <<file, exists, writer, pos, row, header, pixels, region, rewritten>>
  BY DEF OpenRead
<1>2. \/ lpc' = "header" /\ err' = err
      \/ lpc' = "size" /\ err' = "BMP_FILE_NOT_OPENED"
  BY DEF OpenRead
<1>3. pixels = <<>> /\ row = 0 /\ err = "none"
  BY <1>1 DEF IInv, LoaderInv
<1>4. WriterTyped' /\ FileInv'
  BY <1>1, WriterWaits
<1>5. TypeOK'
  <2>1. LoaderTyped'
    BY <1>1, <1>2, TypeParts DEF IInv, LoaderTyped
  <2>2. exists \in BOOLEAN /\ rewritten \in BOOLEAN
    BY TypeParts DEF IInv, Flags
  <2>3. whole' \in BOOLEAN
    BY <1>1
  <2>4. exists' \in BOOLEAN /\ rewritten' \in BOOLEAN
    BY <1>1, <2>2
  <2> QED BY <1>4, <2>1, <2>3, <2>4, TypeParts DEF Flags
<1>6. LoaderInv'
  <2>1. lpc' # "start"
    BY <1>2
  <2> QED BY <1>1, <1>2, <1>3, <2>1 DEF LoaderInv
<1>7. PixelsInv'
  BY <1>1, <1>3 DEF PixelsInv
<1>8. WholeInv'
  <2>1. whole' => wpc' = "idle" /\ img'.n > 0
    BY <1>1 DEF writer
  <2> QED BY <1>2, <1>3, <2>1 DEF WholeInv
<1> QED BY <1>4, <1>5, <1>6, <1>7, <1>8 DEF IInv

(* A finished file is as long as its header says, and begins as it should. *)
LEMMA WholeFile ==
  ASSUME IInv, whole, ~rewritten
  PROVE  /\ img.n > 0 /\ img.dims \in Dims
         /\ Len(file) = RowStart(img.dims, Abs(Height(img.dims)))
         /\ Len(file) \in Nat /\ Len(file) > 1 /\ IsBmp
<1>1. /\ img.n > 0 /\ wpc = "idle"
  BY DEF IInv, WholeInv
<1>2. img.dims \in Dims /\ Len(file) \in Nat /\ Abs(Height(img.dims)) \in Nat
  <2>1. img.dims \in Dims /\ Len(file) \in Nat
    BY TypeParts DEF IInv, WriterTyped, Writes
  <2> QED BY <2>1, Shape
<1>3. Len(file) = RowStart(img.dims, Abs(Height(img.dims)))
  BY <1>1 DEF IInv, FileInv
<1>4. Len(file) > 1
  BY <1>2, <1>3, RowStartNext
<1>5. file[1] = Cell(img, 1)
  BY <1>1, <1>2, <1>4 DEF IInv, FileInv
<1> QED BY <1>1, <1>2, <1>3, <1>4, <1>5, CellOfHead DEF IsBmp

LEMMA Allocated ==
  ASSUME NEW d \in Dims
  PROVE  LET p == Uninitialised(d)
         IN  /\ p # <<>> /\ DOMAIN p = Rows(d)
             /\ \A r \in Rows(d) : p[r] \in Seq(Cells) /\ Len(p[r]) = RowBytes(d)
             /\ \A r \in Rows(d), k \in 1 .. RowBytes(d) : p[r][k] = Garbage
<1> DEFINE u == [k \in 1 .. RowBytes(d) |-> Garbage]
<1>1. RowBytes(d) \in Nat /\ 0 \in Rows(d)
  BY Shape DEF Rows
<1>2. Garbage \in Cells
  BY DEF Cells
<1>3. u \in Seq(Cells) /\ Len(u) = RowBytes(d) /\ \A k \in 1 .. RowBytes(d) : u[k] = Garbage
  BY <1>1, <1>2
<1> HIDE DEF u
<1>4. Uninitialised(d) = [r \in Rows(d) |-> u]
  BY DEF Uninitialised, u
<1>5. Uninitialised(d) # <<>>
  <2>1. 0 \in DOMAIN Uninitialised(d)
    BY <1>1, <1>4
  <2>2. 0 \notin DOMAIN <<>>
    OBVIOUS
  <2> QED BY <2>1, <2>2
<1> QED BY <1>3, <1>4, <1>5

LEMMA MoreThanOne == \A n \in Nat : n > 1 => n # 0 /\ n # 1
OBVIOUS

LEMMA ReadHeaderIInv == ASSUME IInv, ReadHeader PROVE IInv'
<1>1. lpc = "header" /\ UNCHANGED <<file, exists, writer, row, region, whole, rewritten>>
  BY DEF ReadHeader
<1>2. pixels = <<>> /\ row = 0 /\ err = "none"
  BY <1>1 DEF IInv, LoaderInv
<1>3. WriterTyped' /\ FileInv' /\ LoaderTyped
  BY <1>1, WriterWaits, TypeParts DEF IInv
<1>4. Flags'
  BY <1>1, TypeParts DEF IInv, Flags
<1>5. CASE ~IsBmp \/ (IsBmp /\ Len(file) = 1)
  <2>1. /\ err' \in {"BMP_INVALID_FILE", "BMP_ERROR"} /\ lpc' = "size"
        /\ header' \in Dims /\ UNCHANGED <<pos, pixels>>
    BY <1>3, <1>5 DEF ReadHeader, LoaderTyped
  <2>2. Abs(Height(header')) \in Nat
    BY <2>1, Shape
  <2>3. LoaderTyped'
    BY <1>1, <1>2, <1>3, <2>1, <2>2 DEF LoaderTyped
  <2>4. LoaderInv'
    BY <1>1, <1>2, <2>1 DEF LoaderInv
  <2>5. PixelsInv'
    BY <1>2, <2>1 DEF PixelsInv
  <2>6. ~ (whole' /\ ~rewritten')
    <3>1. ASSUME whole, ~rewritten PROVE IsBmp /\ Len(file) # 1
      <4>1. Len(file) \in Nat /\ Len(file) > 1 /\ IsBmp
        BY <3>1, WholeFile
      <4>2. Len(file) \in Nat /\ Len(file) > 1
        BY <4>1
      <4>3. Len(file) # 1
        BY <4>2, MoreThanOne, Zenon
      <4> QED BY <4>1, <4>3
    <3>2. ~ (whole /\ ~rewritten)
      BY <1>5, <3>1, Zenon
    <3> QED BY <1>1, <3>2
  <2>7. WholeInv'
    BY <2>6 DEF WholeInv
  <2> QED BY <1>3, <1>4, <2>3, <2>4, <2>5, <2>7, TypeParts DEF IInv
<1>6. CASE IsBmp /\ Len(file) > 1
  <2>1. /\ header' = file[2][2] /\ pixels' = Uninitialised(header')
        /\ pos' = 2 /\ lpc' = "rows" /\ err' = err
    BY <1>6 DEF ReadHeader
  <2>2. img.n > 0 /\ img.dims \in Dims /\ Len(file) \in Nat
    <3>1. img \in Writes /\ Len(file) \in Nat
      BY TypeParts DEF IInv, WriterTyped
    <3>2. img.n # 0
      <4>1. Len(<<>>) = 0 /\ Len(<<Pad>>) = 1
        OBVIOUS
      <4>2. img.n = 0 => file = <<>> \/ file = <<Pad>>
        BY DEF IInv, FileInv
      <4>3. file # <<>> /\ file # <<Pad>>
        <5>1. Len(file) \in Nat /\ Len(file) > 1
          BY <1>6, <3>1
        <5>2. Len(file) # 0 /\ Len(file) # 1
          BY <5>1, MoreThanOne, Zenon
        <5> QED BY <4>1, <5>2
      <4> QED BY <4>2, <4>3
    <3> QED BY <3>1, <3>2, BoundAssumption DEF Writes
  <2>3. header' = img.dims
    <3>1. file[2] = Cell(img, 2)
      BY <1>6, <2>2 DEF IInv, FileInv
    <3> QED BY <2>1, <3>1, CellOfHead DEF Header
  <2>4. /\ pixels' # <<>> /\ DOMAIN pixels' = Rows(header')
        /\ \A r \in Rows(header') : pixels'[r] \in Seq(Cells) /\ Len(pixels'[r]) = RowBytes(header')
        /\ \A r \in Rows(header'), k \in 1 .. RowBytes(header') : pixels'[r][k] = Garbage
    BY <2>1, <2>2, <2>3, Allocated
  <2>5. LoaderTyped'
    <3>1. Abs(Height(header')) \in Nat
      BY <2>2, <2>3, Shape
    <3> QED BY <1>1, <1>2, <1>3, <2>1, <2>2, <2>3, <2>4, <3>1 DEF LoaderTyped
  <2>6. LoaderInv'
    <3>1. pos' = RowStart(header', row')
      BY <1>1, <1>2, <2>1, <2>2, <2>3, RowStartNext
    <3> QED BY <1>1, <1>2, <2>1, <2>4, <3>1 DEF LoaderInv
  <2>7. PixelsInv'
    <3>1. img' = img /\ row' = 0
      BY <1>1, <1>2 DEF writer
    <3>2. ASSUME NEW y \in Rows(header'), NEW k \in 1 .. RowBytes(header')
          PROVE  pixels'[RowIndex(Height(header'), y)][k] = Garbage /\ 0 <= y
      <4>1. RowIndex(Height(header'), y) \in Rows(header') /\ 0 <= y
        BY <2>2, <2>3, RowIndexInvolution DEF Rows
      <4> QED BY <2>4, <4>1
    <3> QED BY <2>2, <2>3, <3>1, <3>2 DEF PixelsInv
  <2>8. WholeInv'
    <3>1. whole' /\ ~rewritten' => wpc' = "idle"
      BY <1>1 DEF IInv, WholeInv, writer
    <3>2. img'.n > 0
      BY <1>1, <2>2 DEF writer
    <3> QED BY <1>2, <2>1, <3>1, <3>2 DEF WholeInv
  <2> QED BY <1>3, <1>4, <2>5, <2>6, <2>7, <2>8, TypeParts DEF IInv
<1>7. IsBmp => Len(file) = 1 \/ Len(file) > 1
  <2>1. Len(file) \in Nat
    BY TypeParts DEF IInv, WriterTyped
  <2> QED BY <2>1 DEF IsBmp
<1> QED BY <1>5, <1>6, <1>7

(* What fread finds in the file for the row. *)
LEMMA Readable ==
  ASSUME IInv, lpc = "rows", row < Abs(Height(header))
  PROVE  /\ header \in Dims /\ row \in Rows(header) /\ row \in Nat
         /\ RowBytes(header) \in Nat /\ pos \in Nat /\ pos = RowStart(header, row)
         /\ Available \in 0 .. RowBytes(header)
         /\ \A k \in 1 .. Available : pos + k \in 1 .. Len(file)
         /\ RowIndex(Height(header), row) \in Rows(header)
<1>1. LoaderTyped /\ file \in Seq(Cells) /\ Len(file) \in Nat
  BY TypeParts DEF IInv, WriterTyped
<1>2. /\ header \in Dims /\ row \in Rows(header) /\ row \in Nat
      /\ RowBytes(header) \in Nat /\ pos \in Nat
  BY <1>1, Shape DEF LoaderTyped, Rows
<1>3. pos = RowStart(header, row)
  BY DEF IInv, LoaderInv
<1>4. /\ Available \in 0 .. RowBytes(header)
      /\ \A k \in 1 .. Available : pos + k \in 1 .. Len(file)
  BY <1>1, <1>2 DEF Available, Smaller
<1> QED BY <1>2, <1>3, <1>4, RowIndexInvolution

(* The row that is read, and the others, which stay as they are. *)
LEMMA RowRead ==
  ASSUME IInv, ReadRow
  PROVE  LET i == RowIndex(Height(header), row)
         IN  /\ pixels' # <<>> /\ DOMAIN pixels' = Rows(header)
             /\ \A r \in Rows(header) : r # i => pixels'[r] = pixels[r]
             /\ pixels'[i] \in Seq(Cells) /\ Len(pixels'[i]) = RowBytes(header)
             /\ \A k \in 1 .. RowBytes(header) :
                  pixels'[i][k] = IF k <= Available THEN file[pos + k] ELSE pixels[i][k]
<1> DEFINE i == RowIndex(Height(header), row)
           new == [k \in 1 .. RowBytes(header) |->
                     IF k <= Available THEN file[pos + k] ELSE pixels[i][k]]
<1>1. lpc = "rows" /\ row < Abs(Height(header))
  BY DEF ReadRow
<1>2. /\ header \in Dims /\ i \in Rows(header) /\ RowBytes(header) \in Nat
      /\ Available \in 0 .. RowBytes(header)
      /\ \A k \in 1 .. Available : pos + k \in 1 .. Len(file)
  BY <1>1, Readable
<1>3. /\ pixels # <<>> /\ DOMAIN pixels = Rows(header)
      /\ pixels[i] \in Seq(Cells) /\ Len(pixels[i]) = RowBytes(header)
  <2>1. pixels # <<>>
    BY <1>1 DEF IInv, LoaderInv
  <2> QED BY <1>2, <2>1, TypeParts DEF IInv, LoaderTyped
<1>4. pixels' = [r \in DOMAIN pixels \cup {i} |-> IF r = i THEN new ELSE pixels[r]]
  BY <1>2, <1>3 DEF ReadRow
<1>5. DOMAIN pixels \cup {i} = Rows(header)
  BY <1>2, <1>3
<1>6. new \in Seq(Cells) /\ Len(new) = RowBytes(header)
  <2>1. ASSUME NEW k \in 1 .. RowBytes(header)
        PROVE  (IF k <= Available THEN file[pos + k] ELSE pixels[i][k]) \in Cells
    <3>1. file \in Seq(Cells)
      BY TypeParts DEF IInv, WriterTyped
    <3>2. CASE k <= Available
      <4>1. pos + k \in 1 .. Len(file)
        BY <1>2, <3>2
      <4> QED BY <3>1, <3>2, <4>1, ElementOfSeq
    <3>3. CASE ~(k <= Available)
      <4>1. k \in 1 .. Len(pixels[i])
        BY <1>3
      <4> QED BY <1>3, <3>3, <4>1, ElementOfSeq
    <3> QED BY <3>2, <3>3
  <2> QED BY <1>2, <2>1
<1>7. \A k \in 1 .. RowBytes(header) :
        new[k] = IF k <= Available THEN file[pos + k] ELSE pixels[i][k]
  OBVIOUS
<1> HIDE DEF new
<1>8. pixels' # <<>>
  <2>1. i \in DOMAIN pixels'
    BY <1>2, <1>4, <1>5
  <2>2. i \notin DOMAIN <<>>
    OBVIOUS
  <2> QED BY <2>1, <2>2
<1>9. DOMAIN pixels' = Rows(header) /\ pixels'[i] = new
        /\ \A r \in Rows(header) : r # i => pixels'[r] = pixels[r]
  BY <1>2, <1>4, <1>5
<1> QED BY <1>6, <1>7, <1>8, <1>9

LEMMA ReadRowIInv == ASSUME IInv, ReadRow PROVE IInv'
<1> DEFINE i == RowIndex(Height(header), row)
<1>1. /\ lpc = "rows" /\ row < Abs(Height(header))
      /\ UNCHANGED <<file, exists, writer, header, region, whole, rewritten>>
  BY DEF ReadRow
<1>2. \/ RowIsThere /\ pos' = AfterPadding /\ row' = row + 1 /\ lpc' = lpc /\ err' = err
      \/ ~RowIsThere /\ err' = "BMP_ERROR" /\ lpc' = "size" /\ pos' = pos /\ row' = row
  BY DEF ReadRow
<1>3. /\ header \in Dims /\ row \in Rows(header) /\ row \in Nat
      /\ RowBytes(header) \in Nat /\ pos \in Nat /\ pos = RowStart(header, row)
      /\ Available \in 0 .. RowBytes(header)
      /\ \A k \in 1 .. Available : pos + k \in 1 .. Len(file)
      /\ i \in Rows(header)
  BY <1>1, Readable
<1>4. /\ pixels' # <<>> /\ DOMAIN pixels' = Rows(header)
      /\ \A r \in Rows(header) : r # i => pixels'[r] = pixels[r]
      /\ pixels'[i] \in Seq(Cells) /\ Len(pixels'[i]) = RowBytes(header)
      /\ \A k \in 1 .. RowBytes(header) :
           pixels'[i][k] = IF k <= Available THEN file[pos + k] ELSE pixels[i][k]
  BY RowRead
<1>5. WriterTyped' /\ FileInv' /\ LoaderTyped
  BY <1>1, WriterWaits, TypeParts DEF IInv
<1>6. pixels # <<>> /\ err = "none"
  BY <1>1 DEF IInv, LoaderInv
<1>7. RowIsThere => pos' = RowStart(header, row')
  <2>1. RowStart(header, row + 1) = RowStart(header, row) + Stride(header)
    BY <1>3, RowStartNext
  <2>2. Stride(header) = RowBytes(header) + Padding(Width(header)) /\ Padding(Width(header)) \in Nat
    BY <1>3, Shape
  <2> QED BY <1>2, <1>3, <2>1, <2>2 DEF AfterPadding
<1>8. pos' \in Nat /\ row' \in 0 .. Abs(Height(header))
  <2>1. Padding(Width(header)) \in Nat /\ Abs(Height(header)) \in Nat
    BY <1>3, Shape
  <2> QED BY <1>1, <1>2, <1>3, <2>1 DEF AfterPadding
<1>9. LoaderTyped'
  <2>1. \A r \in Rows(header) : pixels'[r] \in Seq(Cells) /\ Len(pixels'[r]) = RowBytes(header)
    BY <1>4, <1>5, <1>6 DEF LoaderTyped
  <2> QED BY <1>1, <1>2, <1>4, <1>5, <1>8, <2>1 DEF LoaderTyped
<1>10. LoaderInv'
  BY <1>1, <1>2, <1>4, <1>6, <1>7 DEF LoaderInv
<1>11. ASSUME ~rewritten, NEW y \in Rows(header), NEW k \in 1 .. RowBytes(header)
       PROVE  LET r == RowIndex(Height(header), y)
              IN  \/ pixels'[r][k] = Byte(img.n, r, k)
                  \/ pixels'[r][k] = Garbage /\ row' <= y
  <2> DEFINE r == RowIndex(Height(header), y)
  <2>1. img.n > 0 /\ header = img.dims /\ img \in Writes
    BY <1>6, <1>11, TypeParts DEF IInv, PixelsInv, WriterTyped
  <2>2. pixels[r][k] = Byte(img.n, r, k) \/ (pixels[r][k] = Garbage /\ row <= y)
    BY <1>6, <1>11 DEF IInv, PixelsInv
  <2>3. r \in Rows(header) /\ y \in Nat /\ (r = i => y = row)
    BY <1>3, RowIndexInvolution DEF Rows
  <2>4. CASE y # row
    <3>1. r # i
      BY <2>3, <2>4
    <3>2. pixels'[r] = pixels[r]
      BY <1>4, <2>3, <3>1
    <3>3. row <= y => row' <= y
      BY <1>2, <1>3, <2>3, <2>4
    <3> QED BY <2>2, <3>2, <3>3
  <2>5. CASE y = row /\ k <= Available
    <3>1. pixels'[r][k] = file[pos + k]
      BY <1>4, <2>5
    <3>2. file[pos + k] = Cell(img, pos + k)
      BY <1>3, <2>1, <2>5 DEF IInv, FileInv
    <3>3. k \in 1 .. Stride(img.dims)
      BY <1>3, <2>1, Shape
    <3>4. Cell(img, RowStart(img.dims, row) + k) = RowCell(img, row, k)
      BY <1>3, <2>1, <3>3, CellOfRow
    <3>5. RowCell(img, row, k) = Byte(img.n, r, k)
      BY <2>1, <2>5 DEF RowCell
    <3> QED BY <1>3, <2>1, <3>1, <3>2, <3>4, <3>5
  <2>6. CASE y = row /\ ~(k <= Available)
    <3>1. pixels'[r][k] = pixels[r][k]
      BY <1>4, <2>6
    <3>2. row' = row
      BY <1>2, <1>3, <2>6 DEF RowIsThere
    <3> QED BY <2>2, <3>1, <3>2
  <2> QED BY <2>4, <2>5, <2>6
<1>12. PixelsInv'
  <2> SUFFICES ASSUME ~rewritten' PROVE PixelsInv'
    BY DEF PixelsInv
  <2>1. ~rewritten /\ header' = header /\ img' = img
    BY <1>1 DEF writer
  <2>2. img.n > 0 /\ header = img.dims
    BY <1>6, <2>1 DEF IInv, PixelsInv
  <2> QED BY <1>11, <2>1, <2>2 DEF PixelsInv
<1>13. ASSUME whole, ~rewritten PROVE RowIsThere
  <2>1. header = img.dims
    BY <1>6, <1>13 DEF IInv, PixelsInv
  <2>2. Len(file) = RowStart(header, Abs(Height(header))) /\ Len(file) \in Nat
    BY <1>13, <2>1, WholeFile
  <2>3. Abs(Height(header)) \in Nat /\ Stride(header) \in Nat /\ RowBytes(header) <= Stride(header)
    BY <1>3, Shape
  <2>4. RowStart(header, row) + Stride(header) <= RowStart(header, Abs(Height(header)))
    BY <1>1, <1>3, <2>3, RowStartGrows
  <2>5. Len(file) - pos >= RowBytes(header)
    BY <1>3, <2>2, <2>3, <2>4
  <2> QED BY <1>3, <2>2, <2>5 DEF RowIsThere, Available, Smaller
<1>14. WholeInv'
  <2> SUFFICES ASSUME whole', ~rewritten' PROVE WholeInv'
    BY DEF WholeInv
  <2>1. whole /\ ~rewritten
    BY <1>1
  <2>2. lpc' = "rows" /\ err' = "none"
    BY <1>1, <1>2, <1>6, <1>13, <2>1
  <2>3. wpc' = "idle" /\ img'.n > 0
    BY <1>1, <2>1 DEF IInv, WholeInv, writer
  <2> QED BY <2>2, <2>3 DEF WholeInv
<1>15. Flags'
  BY <1>1, TypeParts DEF IInv, Flags
<1> QED BY <1>5, <1>9, <1>10, <1>12, <1>14, <1>15, TypeParts DEF IInv

LEMMA AllRowsReadIInv == ASSUME IInv, AllRowsRead PROVE IInv'
<1>1. /\ lpc = "rows" /\ row = Abs(Height(header)) /\ err' = "BMP_OK" /\ lpc' = "size"
      /\ UNCHANGED <<file, exists, writer, pos, row, header, pixels, region, whole, rewritten>>
  BY DEF AllRowsRead
<1>2. WriterTyped' /\ FileInv'
  BY <1>1, WriterWaits
<1>3. LoaderTyped'
  BY <1>1, TypeParts DEF IInv, LoaderTyped
<1>4. LoaderInv'
  BY <1>1 DEF IInv, LoaderInv
<1>5. PixelsInv'
  BY <1>1 DEF IInv, PixelsInv, writer
<1>6. WholeInv'
  <2>1. whole' /\ ~rewritten' => wpc' = "idle" /\ img'.n > 0
    BY <1>1 DEF IInv, WholeInv, writer
  <2> QED BY <1>1, <2>1 DEF WholeInv
<1>7. Flags'
  BY <1>1, TypeParts DEF IInv, Flags
<1> QED BY <1>2, <1>3, <1>4, <1>5, <1>6, <1>7, TypeParts DEF IInv

-----------------------------------------------------------------------------
(* Pixel x of row y is at y * width + x of what is sent, for every pixel. *)
LEMMA RegionOf ==
  ASSUME NEW d \in Dims, NEW p,
         \A r \in Rows(d) : p[r] \in Seq(Cells) /\ Len(p[r]) = RowBytes(d),
         NEW i \in 1 .. Width(d) * Height(d)
  PROVE  LET x == (i - 1) % Width(d)  y == (i - 1) \div Width(d)
         IN  /\ y \in Rows(d) /\ LoadRegion(d, p)[i] \in Seq(Cells)
             /\ LoadRegion(d, p)[i] = SubSeq(p[y], 3 * x + 1, 3 * x + 3)
             /\ Len(LoadRegion(d, p)[i]) = 3
             /\ \A c \in 1 .. 3 : /\ 3 * x + c \in 1 .. RowBytes(d)
                                  /\ LoadRegion(d, p)[i][c] = p[y][3 * x + c]
<1> DEFINE w == Width(d)
           x == (i - 1) % w
           y == (i - 1) \div w
<1>1. /\ w \in Nat \ {0} /\ Height(d) \in Int \ {0} /\ Abs(Height(d)) \in Nat
      /\ RowBytes(d) = 3 * w /\ i - 1 \in Nat
  BY Shape
<1>2. y \in Nat /\ x \in 0 .. w - 1 /\ i - 1 = y * w + x
  BY <1>1, Quotient
<1> HIDE DEF x, y
<1>3. Height(d) > 0 /\ w * Height(d) = Height(d) * w /\ Height(d) * w \in Nat
  <2>1. CASE Height(d) > 0
    BY <1>1, <2>1
  <2>2. CASE ~(Height(d) > 0)
    <3>1. - Height(d) \in Nat
      BY <1>1, <2>2
    <3>2. w * (- Height(d)) \in Nat /\ w * Height(d) = - (w * (- Height(d)))
      BY <1>1, <3>1
    <3> QED BY <1>1, <3>2
  <2> QED BY <2>1, <2>2
<1>4. y < Height(d)
  <2> SUFFICES ASSUME ~(y < Height(d)) PROVE FALSE
    OBVIOUS
  <2>1. Height(d) * w <= y * w
    <3>1. CASE Height(d) = y
      BY <1>1, <1>2, <3>1
    <3>2. CASE Height(d) < y
      <4>1. Height(d) * w + w <= y * w
        BY <1>1, <1>2, <1>3, <3>2, NextMultiple
      <4> QED BY <1>1, <1>2, <1>3, <4>1
    <3> QED BY <1>1, <1>2, <3>1, <3>2
  <2> QED BY <1>1, <1>2, <1>3, <2>1
<1>5. y \in Rows(d)
  BY <1>1, <1>2, <1>3, <1>4 DEF Rows, Abs
<1>6. \A c \in 1 .. 3 : 3 * x + c \in 1 .. RowBytes(d)
  BY <1>1, <1>2
<1>7. LoadRegion(d, p)[i] = SubSeq(p[y], 3 * x + 1, 3 * x + 3)
  BY DEF LoadRegion, x, y
<1>8. /\ SubSeq(p[y], 3 * x + 1, 3 * x + 3) \in Seq(Cells)
      /\ Len(SubSeq(p[y], 3 * x + 1, 3 * x + 3)) = 3
      /\ \A c \in 1 .. 3 : SubSeq(p[y], 3 * x + 1, 3 * x + 3)[c] = p[y][3 * x + c]
  <2>1. p[y] \in Seq(Cells) /\ Len(p[y]) = RowBytes(d)
    BY <1>5
  <2>2. ASSUME NEW j \in 3 * x + 1 .. 3 * x + 3 PROVE p[y][j] \in Cells
    <3>1. j \in 1 .. Len(p[y])
      BY <1>1, <1>2, <2>1
    <3> QED BY <2>1, <3>1, ElementOfSeq
  <2>3. 3 * x + 1 \in Int /\ 3 * x + 3 \in Int /\ 3 * x + 1 <= 3 * x + 3
          /\ (3 * x + 3) - (3 * x + 1) + 1 = 3
    BY <1>2
  <2>4. \A c \in 1 .. 3 : (3 * x + 1) + c - 1 = 3 * x + c
    BY <1>2
  <2>5. /\ SubSeq(p[y], 3 * x + 1, 3 * x + 3) \in Seq(Cells)
        /\ Len(SubSeq(p[y], 3 * x + 1, 3 * x + 3)) = 3
    BY <2>2, <2>3, SubSeqProperties
  <2>6. \A c \in 1 .. (3 * x + 3) - (3 * x + 1) + 1 :
          SubSeq(p[y], 3 * x + 1, 3 * x + 3)[c] = p[y][(3 * x + 1) + c - 1]
    BY <2>2, <2>3, SubSeqProperties
  <2> QED BY <2>3, <2>4, <2>5, <2>6
<1> QED BY <1>5, <1>6, <1>7, <1>8 DEF x, y

LEMMA SeqOf ==
  ASSUME NEW S, NEW g, NEW m \in Nat, \A i \in 1 .. m : g[i] \in S
  PROVE  [i \in 1 .. m |-> g[i]] \in Seq(S)
OBVIOUS

LEMMA RegionTyped ==
  ASSUME NEW d \in Dims, NEW p,
         \A r \in Rows(d) : p[r] \in Seq(Cells) /\ Len(p[r]) = RowBytes(d)
  PROVE  /\ LoadRegion(d, p) \in Seq(Seq(Cells))
         /\ DOMAIN LoadRegion(d, p) = 1 .. Width(d) * Height(d)
<1>1. \A i \in 1 .. Width(d) * Height(d) : LoadRegion(d, p)[i] \in Seq(Cells)
  BY RegionOf
<1>2. Width(d) * Height(d) \in Int
  BY Shape
<1>3. DOMAIN LoadRegion(d, p) = 1 .. Width(d) * Height(d)
  BY DEF LoadRegion
<1>4. LoadRegion(d, p) = [i \in 1 .. Width(d) * Height(d) |-> LoadRegion(d, p)[i]]
  BY DEF LoadRegion
<1> DEFINE n == Width(d) * Height(d)
           m == IF n < 0 THEN 0 ELSE n
           g == LoadRegion(d, p)
<1> HIDE DEF g, n
<1>5. m \in Nat /\ 1 .. n = 1 .. m
  BY <1>2 DEF n
<1>6. g = [i \in 1 .. m |-> g[i]] /\ \A i \in 1 .. m : g[i] \in Seq(Cells)
  BY <1>1, <1>4, <1>5 DEF g, n
<1>7. [i \in 1 .. m |-> g[i]] \in Seq(Seq(Cells))
  BY <1>5, <1>6, SeqOf
<1> QED BY <1>3, <1>6, <1>7 DEF g

LEMMA LoadIInv == ASSUME IInv, Load PROVE IInv'
<1>1. /\ lpc = "size"
      /\ UNCHANGED <<file, exists, writer, pos, row, header, pixels, err, whole, rewritten>>
  BY DEF Load
<1>2. \/ MallocFails(header) /\ lpc' = "refused" /\ region' = region
      \/ ~MallocFails(header) /\ pixels = <<>> /\ lpc' = "crashed" /\ region' = region
      \/ /\ ~MallocFails(header) /\ pixels = <<>> /\ lpc' = "sent"
         /\ region' = LoadRegion(header, Uninitialised(header))
      \/ /\ ~MallocFails(header) /\ pixels # <<>> /\ lpc' = "sent"
         /\ region' = LoadRegion(header, pixels)
  BY DEF Load
<1>3. WriterTyped' /\ FileInv' /\ LoaderTyped
  BY <1>1, WriterWaits, TypeParts DEF IInv
<1>4. region' \in Seq(Seq(Cells))
  <2>1. header \in Dims /\ region \in Seq(Seq(Cells))
    BY <1>3 DEF LoaderTyped
  <2>2. LoadRegion(header, Uninitialised(header)) \in Seq(Seq(Cells))
    <3>1. \A r \in Rows(header) : /\ Uninitialised(header)[r] \in Seq(Cells)
                                  /\ Len(Uninitialised(header)[r]) = RowBytes(header)
      BY <2>1, Allocated
    <3> QED BY <2>1, <3>1, RegionTyped
  <2>3. pixels # <<>> => LoadRegion(header, pixels) \in Seq(Seq(Cells))
    <3>1. pixels # <<>> =>
            \A r \in Rows(header) : pixels[r] \in Seq(Cells) /\ Len(pixels[r]) = RowBytes(header)
      BY <1>3 DEF LoaderTyped
    <3> QED BY <2>1, <3>1, RegionTyped
  <2> QED BY <1>2, <2>1, <2>2, <2>3
<1>5. LoaderTyped'
  <2>1. lpc' \in {"sent", "refused", "crashed"}
    BY <1>2
  <2> QED BY <1>1, <1>3, <1>4, <2>1 DEF LoaderTyped
<1>6. LoaderInv'
  BY <1>1, <1>2 DEF IInv, LoaderInv
<1>7. PixelsInv'
  BY <1>1 DEF IInv, PixelsInv, writer
<1>8. WholeInv'
  <2> SUFFICES ASSUME whole', ~rewritten' PROVE WholeInv'
    BY DEF WholeInv
  <2>1. wpc' = "idle" /\ img'.n > 0 /\ err' \in {"none", "BMP_OK", "BMP_FILE_NOT_OPENED"}
          /\ err' # "none"
    BY <1>1 DEF IInv, WholeInv, writer
  <2>2. err' = "BMP_OK" => pixels # <<>>
    BY <1>1 DEF IInv, LoaderInv
  <2>3. MallocFails(header)' <=> MallocFails(header)
    BY <1>1 DEF MallocFails, Width, Height
  <2>4. err' = "BMP_OK" => lpc' = IF MallocFails(header') THEN "refused" ELSE "sent"
    BY <1>1, <1>2, <2>2
  <2>5. lpc' \notin {"header", "rows"}
    BY <1>2
  <2> QED BY <2>1, <2>4, <2>5 DEF WholeInv
<1>9. Flags'
  BY <1>1, TypeParts DEF IInv, Flags
<1> QED BY <1>3, <1>5, <1>6, <1>7, <1>8, <1>9, TypeParts DEF IInv

-----------------------------------------------------------------------------
LEMMA NextIInv == IInv /\ [Next]_vars => IInv'
<1> SUFFICES ASSUME IInv, [Next]_vars PROVE IInv'
  OBVIOUS
<1>1. CASE Writer
  BY <1>1, OpenWriteIInv, WriteHeaderIInv, WriteRowIInv, FlushIInv, CloseWriteIInv, StopIInv
     DEF Writer
<1>2. CASE Loader
  BY <1>2, OpenReadIInv, ReadHeaderIInv, ReadRowIInv, AllRowsReadIInv, LoadIInv DEF Loader
<1>3. CASE UNCHANGED vars
  <2>1. UNCHANGED <<file, exists, writer, img, wpc, loader, rewritten>>
    BY <1>3 DEF vars, writer
  <2>2. WriterTyped' /\ FileInv'
    BY <2>1, WriterWaits
  <2>3. LoaderTyped' /\ LoaderInv' /\ PixelsInv' /\ WholeInv'
    BY <2>1, LoaderWaits
  <2>4. Flags'
    BY <2>1, TypeParts DEF IInv, Flags, loader
  <2> QED BY <2>2, <2>3, <2>4, TypeParts DEF IInv
<1> QED BY <1>1, <1>2, <1>3 DEF Next

(* The inductive invariant: file and buffer are what bmp_img_write makes   *)
(* of the image, and the loader has read of it what its position says.     *)
THEOREM Invariance == Spec => []IInv
BY InitIInv, NextIInv, PTL DEF Spec

(* Whatever the file holds and whenever it changes, bmp_img_read stores to  *)
(* no row but those that bmp_img_alloc has set up.                          *)
THEOREM TypeCorrect == Spec => []TypeOK
<1>1. IInv => TypeOK
  BY DEF IInv
<1> QED BY <1>1, Invariance, PTL

(* A pixel that was sent comes from its place in the image, or is           *)
(* uninitialised because the rows were not all read.                        *)
LEMMA PixelSent ==
  ASSUME IInv, lpc = "sent", ~rewritten, pixels # <<>>,
         NEW i \in 1 .. Width(header) * Height(header), NEW c \in 1 .. 3
  PROVE  /\ header = img.dims
         /\ \/ region[i][c] = Original(img)[i][c]
            \/ region[i][c] = Garbage /\ err # "BMP_OK"
<1> DEFINE w == Width(header)
           x == (i - 1) % w
           y == (i - 1) \div w
           z == RowIndex(Height(header), y)
           k == 3 * x + c
<1>1. header \in Dims /\ region = LoadRegion(header, pixels) /\ header = img.dims
  BY TypeParts DEF IInv, LoaderTyped, LoaderInv, PixelsInv
<1>2. \A r \in Rows(header) : pixels[r] \in Seq(Cells) /\ Len(pixels[r]) = RowBytes(header)
  BY TypeParts DEF IInv, LoaderTyped
<1>3. y \in Rows(header) /\ k \in 1 .. RowBytes(header) /\ region[i][c] = pixels[y][k]
  BY <1>1, <1>2, RegionOf
<1>4. Original(img)[i][c] = Byte(img.n, y, k)
  BY <1>1 DEF Original
<1> HIDE DEF x, y, k
<1>5. z \in Rows(header) /\ RowIndex(Height(header), z) = y
  BY <1>1, <1>3, RowIndexInvolution
<1> HIDE DEF z
<1>6. \/ pixels[y][k] = Byte(img.n, y, k)
      \/ pixels[y][k] = Garbage /\ row <= z
  BY <1>3, <1>5 DEF IInv, PixelsInv
<1>7. row <= z => err # "BMP_OK"
  <2>1. z < Abs(Height(header)) /\ z \in Nat /\ Abs(Height(header)) \in Nat
    BY <1>1, <1>5, Shape DEF Rows
  <2>2. err = "BMP_OK" => row = Abs(Height(header))
    BY DEF IInv, LoaderInv
  <2> QED BY <2>1, <2>2
<1> QED BY <1>1, <1>3, <1>4, <1>6, <1>7

(* However a load and one writing of the file interleave, each byte that   *)
(* reaches the application is the one written at its place, unless reading *)
(* failed, and then it is uninitialised memory.                            *)
THEOREM OnlyItsOwnBytes == Spec => []SentAsWritten
<1>1. IInv => SentAsWritten
  <2> SUFFICES ASSUME IInv, lpc = "sent", ~rewritten, pixels # <<>>
               PROVE  /\ header = img.dims
                      /\ \A i \in DOMAIN region, c \in 1 .. 3 :
                           \/ region[i][c] = Original(img)[i][c]
                           \/ region[i][c] = Garbage /\ err # "BMP_OK"
    BY DEF SentAsWritten
  <2>1. header = img.dims
    BY DEF IInv, PixelsInv
  <2>2. DOMAIN region = 1 .. Width(header) * Height(header)
    BY DEF IInv, LoaderInv, LoadRegion
  <2> QED BY <2>1, <2>2, PixelSent
<1> QED BY <1>1, Invariance, PTL

(* An image whose size is in range is refused for one reason only: its     *)
(* height is negative, and so is its size, which is then a huge size_t.    *)
LEMMA OnlyTopDownFails ==
  ASSUME SizesFit, NEW d \in Dims
  PROVE  MallocFails(d) <=> Height(d) < 0
<1> DEFINE m == MaxObject + 1
           s == 3 * Width(d) * Abs(Height(d))
           p == 3 * Width(d) * Height(d)
<1>1. m \in Nat \ {0} /\ 2 * m \in Nat \ {0}
  BY BoundAssumption
<1>2. Width(d) \in Nat \ {0} /\ Height(d) \in Int \ {0} /\ Abs(Height(d)) \in Nat \ {0}
  BY Shape
<1>3. s \in Nat \ {0}
  BY <1>2
<1>4. s < m
  BY <1>3, BoundAssumption DEF SizesFit
<1>5. CASE Height(d) > 0
  <2>1. p = s
    BY <1>2, <1>5 DEF Abs
  <2>2. s = 0 * (2 * m) + s /\ s \in 0 .. 2 * m - 1
    BY <1>1, <1>3, <1>4
  <2>3. (0 * (2 * m) + s) % (2 * m) = s
    BY <1>1, <2>2, Digits
  <2>4. p % (2 * m) = s
    <3>1. 0 * (2 * m) + s = s
      BY <1>1, <1>3
    <3> QED BY <2>1, <2>3, <3>1
  <2>5. ~ (s > MaxObject) /\ ~ (Height(d) < 0)
    BY <1>2, <1>3, <1>4, <1>5, BoundAssumption
  <2> QED BY <2>4, <2>5 DEF MallocFails
<1>6. CASE Height(d) < 0
  <2>1. p = - s
    BY <1>2, <1>6 DEF Abs
  <2>2. p % (2 * m) = 2 * m - s
    <3> DEFINE b == 2 * m
               q == p \div b
               r == p % b
    <3>1. p \in Int /\ b \in Nat \ {0}
      BY <1>1, <1>3, <2>1
    <3>2. q \in Int /\ r \in 0 .. b - 1 /\ p = b * q + r
      BY <3>1
    <3> HIDE DEF q, r, b
    <3>3. 0 < s /\ s < b /\ s \in Nat
      BY <1>1, <1>3, <1>4 DEF b
    <3>4. ~(q >= 0)
      <4> SUFFICES ASSUME q >= 0 PROVE FALSE
        OBVIOUS
      <4>1. b * q \in Nat
        BY <3>1, <3>2
      <4> QED BY <2>1, <3>2, <3>3, <4>1
    <3>5. ~(q <= -2)
      <4> SUFFICES ASSUME q <= -2 PROVE FALSE
        OBVIOUS
      <4>1. - q - 2 \in Nat
        BY <3>2
      <4>2. b * (- q - 2) \in Nat /\ b * q = - (2 * b) - b * (- q - 2)
        BY <3>1, <3>2, <4>1
      <4>3. r \in Nat /\ r < b
        BY <3>1, <3>2
      <4> QED BY <2>1, <3>1, <3>2, <3>3, <4>2, <4>3
    <3>6. q = -1
      BY <3>2, <3>4, <3>5
    <3>7. b * q = - b
      BY <3>1, <3>6
    <3> QED BY <2>1, <3>1, <3>2, <3>3, <3>7 DEF b, r
  <2>3. 2 * m - s > MaxObject
    BY <1>1, <1>3, <1>4, BoundAssumption
  <2> QED BY <1>6, <2>2, <2>3 DEF MallocFails
<1> QED BY <1>2, <1>5, <1>6

(* What was finished before it was opened arrives, if malloc can give its  *)
(* size and its rows are stored from the bottom up.                        *)
THEOREM FinishedImageLoads == ASSUME SizesFit PROVE Spec => []WholeImageLoads
<1>1. IInv => WholeImageLoads
  <2> SUFFICES ASSUME IInv, whole, ~rewritten, lpc \in {"sent", "refused", "crashed"},
                      err # "BMP_FILE_NOT_OPENED"
               PROVE  /\ err = "BMP_OK"
                      /\ IF Height(img.dims) > 0 THEN lpc = "sent" /\ region = Original(img)
                                                 ELSE lpc = "refused"
    BY DEF WholeImageLoads
  <2>1. err \in {"none", "BMP_OK", "BMP_FILE_NOT_OPENED"} /\ err # "none"
    BY DEF IInv, WholeInv
  <2>2. err = "BMP_OK"
    BY <2>1
  <2>3. pixels # <<>> /\ header = img.dims /\ header \in Dims
    BY <2>2, TypeParts DEF IInv, LoaderInv, PixelsInv, LoaderTyped
  <2>4. lpc = IF MallocFails(header) THEN "refused" ELSE "sent"
    BY <2>2 DEF IInv, WholeInv
  <2>5. MallocFails(header) <=> Height(header) < 0
    BY <2>3, OnlyTopDownFails
  <2>6. Height(header) \in Int \ {0}
    BY <2>3, Shape
  <2>7. CASE Height(header) < 0
    BY <2>2, <2>3, <2>4, <2>5, <2>6, <2>7
  <2>8. CASE Height(header) > 0
    <3> DEFINE n == Width(header) * Height(header)
    <3>1. lpc = "sent"
      BY <2>4, <2>5, <2>6, <2>8
    <3>2. region = LoadRegion(header, pixels)
      BY <2>3, <3>1 DEF IInv, LoaderInv
    <3>3. ASSUME NEW i \in 1 .. n
          PROVE  region[i] = Original(img)[i]
      <4>1. \A r \in Rows(header) : pixels[r] \in Seq(Cells) /\ Len(pixels[r]) = RowBytes(header)
        BY <2>3, TypeParts DEF IInv, LoaderTyped
      <4>2. region[i] \in Seq(Cells) /\ Len(region[i]) = 3
        BY <2>3, <3>2, <4>1, RegionOf
      <4>3. \A c \in 1 .. 3 : region[i][c] = Original(img)[i][c]
        BY <2>2, <2>3, <3>1, PixelSent
      <4>4. region[i] = [c \in 1 .. 3 |-> region[i][c]]
        BY <4>2
      <4>5. Original(img)[i] = [c \in 1 .. 3 |-> Original(img)[i][c]]
        BY <2>3 DEF Original
      <4> QED BY <4>3, <4>4, <4>5
    <3>4. region = [i \in 1 .. n |-> region[i]]
      BY <3>2 DEF LoadRegion
    <3>5. Original(img) = [i \in 1 .. n |-> Original(img)[i]]
      BY <2>3 DEF Original
    <3>6. region = Original(img)
      BY <3>3, <3>4, <3>5
    <3> QED BY <2>2, <2>3, <2>8, <3>1, <3>6
  <2> QED BY <2>6, <2>7, <2>8
<1> QED BY <1>1, Invariance, PTL
=============================================================================
