----------------------------- MODULE LoadImage -----------------------------
(***************************************************************************)
(* How a BMP image gets from a file into the video_tee program: load_img   *)
(* of videoTEE/host/main.c with bmp.c and libbmp.c, while a process writes *)
(* the file with bmp_img_write.  The program can be started before the     *)
(* writer has finished, the writer can stop anywhere (and what it still    *)
(* has in its stdio buffer is lost), and it can begin again.               *)
(*                                                                         *)
(* A file is a sequence of cells: one for the magic number, one for the    *)
(* header, then one per byte of the rows and of their padding.             *)
(***************************************************************************)
EXTENDS Integers, Sequences, FiniteSets

CONSTANTS
  Dims,              \* <<width, height>>; the height of a top-down image is negative
  MaxWrites,         \* bound: how often the file is written
  MaxObject          \* PTRDIFF_MAX, the most that malloc gives: size_t has twice the range

ASSUME DimsAssumption == Dims \subseteq (Nat \ {0}) \X (Int \ {0})
ASSUME BoundAssumption == MaxWrites \in Nat /\ MaxObject \in Nat

VARIABLES
  file, exists,      \* the cells that are in the file, and whether there is one
  img,               \* the image that is written: its dimensions and the number of the write
  wpc, buffer, wrow, \* writer: next step, stdio buffer, rows that are done
  lpc, pos, row,     \* loader: next step, position in the file, rows that are done
  header, pixels,    \* loader: img_handle; pixels is empty while it is uninitialised
  err, region,       \* loader: result of bmp_img_read, image for the application
  whole,             \* history: the writer had finished when the file was opened
  rewritten          \* history: the file was written anew since

writer == <<img, wpc, buffer, wrow>>
loader == <<lpc, pos, row, header, pixels, err, region, whole>>
vars == <<file, exists, writer, loader, rewritten>>

-----------------------------------------------------------------------------
Magic == <<"magic">>                       \* BMP_MAGIC
Pad == <<"pad">>
Garbage == <<"garbage">>                   \* uninitialised memory
Header(d) == <<"header", d>>
Byte(n, r, k) == <<"byte", n, r, k>>       \* byte k of row r of the image of write n

Width(d) == d[1]
Height(d) == d[2]
Abs(n) == IF n < 0 THEN -n ELSE n
Rows(d) == 0 .. Abs(Height(d)) - 1
RowBytes(d) == 3 * Width(d)                \* sizeof(bmp_pixel) * biWidth
Smaller(m, n) == IF m < n THEN m ELSE n

(* BMP_GET_PADDING *)
Padding(w) == w % 4

(* img_pixels[abs(offset - y)]: the row that is the y-th in the file. *)
BugIndexFromH(h, y) == IF h > 0 THEN Abs(h - y) ELSE y
RowIndex(h, y) == Abs((IF h > 0 THEN h - 1 ELSE 0) - y)

ImageRow(i, r) == [k \in 1 .. RowBytes(i.dims) |-> Byte(i.n, r, k)]

Uninitialised(d) == [r \in Rows(d) |-> [k \in 1 .. RowBytes(d) |-> Garbage]]

Cells == {Magic, Pad, Garbage} \cup {Header(d) : d \in Dims}
           \cup {Byte(n, r, k) : n \in 1 .. MaxWrites,
                                 r \in UNION {Rows(d) : d \in Dims},
                                 k \in UNION {1 .. RowBytes(d) : d \in Dims}}

(* Every variable keeps its type: in particular bmp_img_read fills rows    *)
(* only inside the memory that bmp_img_alloc has set up for the image.     *)
TypeOK ==
  /\ file \in Seq(Cells) /\ exists \in BOOLEAN /\ buffer \in Seq(Cells)
  /\ img \in [dims : Dims, n : 0 .. MaxWrites]
  /\ wpc \in {"idle", "header", "rows", "stopped"}
  /\ wrow \in 0 .. Abs(Height(img.dims))
  /\ lpc \in {"start", "header", "rows", "size", "sent", "refused", "crashed"}
  /\ pos \in Nat /\ header \in Dims
  /\ row \in 0 .. Abs(Height(header))
  /\ pixels # <<>> => /\ DOMAIN pixels = Rows(header)
                      /\ \A r \in Rows(header) : /\ pixels[r] \in Seq(Cells)
                                                 /\ Len(pixels[r]) = RowBytes(header)
  /\ err \in {"none", "BMP_OK", "BMP_ERROR", "BMP_INVALID_FILE", "BMP_FILE_NOT_OPENED"}
  /\ region \in Seq(Seq(Cells))
  /\ whole \in BOOLEAN /\ rewritten \in BOOLEAN

(* There is no file yet, or one that is no image; img_handle is on the     *)
(* stack and not initialised.                                              *)
Init ==
  /\ \/ file = <<>> /\ exists = FALSE
     \/ file = <<Pad>> /\ exists = TRUE
  /\ img \in [dims : Dims, n : {0}] /\ wpc = "idle" /\ buffer = <<>> /\ wrow = 0
  /\ lpc = "start" /\ pos = 0 /\ row = 0 /\ pixels = <<>>
  /\ header \in Dims
  /\ err = "none" /\ region = <<>> /\ whole = FALSE /\ rewritten = FALSE

-----------------------------------------------------------------------------
(* bmp_img_write: fopen(filename, "wb") *)
OpenWrite ==
  /\ wpc \in {"idle", "stopped"} /\ img.n < MaxWrites
  /\ \E d \in Dims : img' = [dims |-> d, n |-> img.n + 1]
  /\ wpc' = "header" /\ buffer' = <<>> /\ wrow' = 0
  /\ file' = <<>> /\ exists' = TRUE
  /\ rewritten' = (lpc # "start")
  /\ UNCHANGED loader

(* bmp_header_write *)
WriteHeader ==
  /\ wpc = "header"
  /\ buffer' = buffer \o <<Magic, Header(img.dims)>>
  /\ wpc' = "rows"
  /\ UNCHANGED <<img, wrow, file, exists, loader, rewritten>>

WriteRow ==
  /\ wpc = "rows" /\ wrow < Abs(Height(img.dims))
  /\ buffer' = buffer \o ImageRow(img, RowIndex(Height(img.dims), wrow))
                      \o [k \in 1 .. Padding(Width(img.dims)) |-> Pad]
  /\ wrow' = wrow + 1
  /\ UNCHANGED <<img, wpc, file, exists, loader, rewritten>>

(* stdio writes its buffer when it is full: any part of it, at any time. *)
Flush ==
  /\ \E n \in 1 .. Len(buffer) :
       /\ file' = file \o SubSeq(buffer, 1, n)
       /\ buffer' = SubSeq(buffer, n + 1, Len(buffer))
  /\ UNCHANGED <<img, wpc, wrow, exists, loader, rewritten>>

CloseWrite ==        \* fclose
  /\ wpc = "rows" /\ wrow = Abs(Height(img.dims))
  /\ file' = file \o buffer /\ buffer' = <<>>
  /\ wpc' = "idle"
  /\ UNCHANGED <<img, wrow, exists, loader, rewritten>>

(* The writer is killed, or the file system is full: fwrite is not checked. *)
Stop ==
  /\ wpc \in {"header", "rows"}
  /\ wpc' = "stopped" /\ buffer' = <<>>
  /\ UNCHANGED <<img, wrow, file, exists, loader, rewritten>>

-----------------------------------------------------------------------------
(* load_img opens the file; a NULL is passed on to bmp_img_read. *)
OpenRead ==
  /\ lpc = "start"
  /\ whole' = (wpc = "idle" /\ img.n > 0)
  /\ \/ exists /\ lpc' = "header" /\ UNCHANGED err
     \/ lpc' = "size" /\ err' = "BMP_FILE_NOT_OPENED"
  /\ UNCHANGED <<file, exists, writer, pos, row, header, pixels, region, rewritten>>

IsBmp == Len(file) > 0 /\ file[1] = Magic

(* bmp_header_read and bmp_img_alloc *)
ReadHeader ==
  /\ lpc = "header"
  /\ \/ /\ ~IsBmp
        /\ err' = "BMP_INVALID_FILE" /\ lpc' = "size"
        /\ UNCHANGED <<pos, header, pixels>>
     \/ /\ IsBmp /\ Len(file) = 1
        /\ err' = "BMP_ERROR" /\ lpc' = "size"
        /\ \E d \in Dims : header' = d     \* a part of it is read
        /\ UNCHANGED <<pos, pixels>>
     \/ /\ IsBmp /\ Len(file) > 1
        /\ header' = file[2][2]
        /\ pixels' = Uninitialised(header')
        /\ pos' = 2 /\ lpc' = "rows"
        /\ UNCHANGED err
  /\ UNCHANGED <<file, exists, writer, row, region, whole, rewritten>>

(* Bytes of the next row that can be read. *)
Available == Smaller(RowBytes(header), IF Len(file) < pos THEN 0 ELSE Len(file) - pos)

(* The whole row is there: fread returns items. *)
BugSomeBytes == Available > 0
RowIsThere == Available = RowBytes(header)

(* fseek over the padding *)
BugNoSeek == pos + RowBytes(header)
AfterPadding == pos + RowBytes(header) + Padding(Width(header))

(* fread into a row and its error return.  A row that is outside of        *)
(* img_pixels would show as a change of its domain.                        *)
ReadRow ==
  /\ lpc = "rows" /\ row < Abs(Height(header))
  /\ LET i == RowIndex(Height(header), row)
         old == IF i \in DOMAIN pixels THEN pixels[i] ELSE Uninitialised(header)[0]
         new == [k \in 1 .. RowBytes(header) |->
                   IF k <= Available THEN file[pos + k] ELSE old[k]]
     IN  pixels' = [r \in DOMAIN pixels \cup {i} |-> IF r = i THEN new ELSE pixels[r]]
  /\ \/ /\ RowIsThere
        /\ pos' = AfterPadding
        /\ row' = row + 1 /\ UNCHANGED <<lpc, err>>
     \/ /\ ~RowIsThere
        /\ err' = "BMP_ERROR" /\ lpc' = "size" /\ UNCHANGED <<pos, row>>
  /\ UNCHANGED <<file, exists, writer, header, region, whole, rewritten>>

AllRowsRead ==
  /\ lpc = "rows" /\ row = Abs(Height(header))
  /\ err' = "BMP_OK" /\ lpc' = "size"
  /\ UNCHANGED <<file, exists, writer, pos, row, header, pixels, region, whole, rewritten>>

(* malloc(sizeof(RGB) * width * height): the product is a size_t.  It fails *)
(* by its size only; a plain shortage of memory, left out, ends the same.   *)
MallocFails(d) == (3 * Width(d) * Height(d)) % (2 * (MaxObject + 1)) > MaxObject

(* LoadRegion: pixel x of row y goes to y * width + x. *)
LoadRegion(d, p) ==
  [i \in 1 .. Width(d) * Height(d) |->
     LET x == (i - 1) % Width(d)  y == (i - 1) \div Width(d)
     IN  SubSeq(p[y], 3 * x + 1, 3 * x + 3)]

(* GetSize, malloc and LoadRegion follow whatever bmp_img_read returned.   *)
(* When it has not read the header, img_pixels is not initialised either:  *)
(* the program crashes, or finds something where the pointers lead.        *)
Load ==
  /\ lpc = "size"
  /\ \/ /\ MallocFails(header)
        /\ lpc' = "refused" /\ UNCHANGED region
     \/ /\ ~MallocFails(header) /\ pixels = <<>>
        /\ \/ lpc' = "crashed" /\ UNCHANGED region
           \/ lpc' = "sent" /\ region' = LoadRegion(header, Uninitialised(header))
     \/ /\ ~MallocFails(header) /\ pixels # <<>>
        /\ region' = LoadRegion(header, pixels) /\ lpc' = "sent"
  /\ UNCHANGED <<file, exists, writer, pos, row, header, pixels, err, whole, rewritten>>

Writer == OpenWrite \/ WriteHeader \/ WriteRow \/ Flush \/ CloseWrite \/ Stop
Loader == OpenRead \/ ReadHeader \/ ReadRow \/ AllRowsRead \/ Load

Next == Writer \/ Loader

Spec == Init /\ [][Next]_vars

-----------------------------------------------------------------------------
(* The image that is written, pixel by pixel from its upper left corner. *)
Original(i) ==
  [p \in 1 .. Width(i.dims) * Height(i.dims) |->
     [c \in 1 .. 3 |-> Byte(i.n, (p - 1) \div Width(i.dims), 3 * ((p - 1) % Width(i.dims)) + c)]]

(* What the trusted application is given of a file that is not written     *)
(* anew meanwhile: an error of bmp_img_read is the only way to a byte that *)
(* is not the one written at its place, and such a byte is uninitialised   *)
(* memory, never a byte of padding or of another place.                    *)
SentAsWritten ==
  lpc = "sent" /\ ~rewritten /\ pixels # <<>> =>
    /\ header = img.dims
    /\ \A i \in DOMAIN region, c \in 1 .. 3 :
         \/ region[i][c] = Original(img)[i][c]
         \/ region[i][c] = Garbage /\ err # "BMP_OK"

(* A file that was finished before it was opened, and is not written anew, *)
(* is read without error and arrives exactly as it was written; only an    *)
(* image with its rows top-down is refused, as its size is no size_t.      *)
WholeImageLoads ==
  whole /\ ~rewritten /\ lpc \in {"sent", "refused", "crashed"} /\ err # "BMP_FILE_NOT_OPENED" =>
    /\ err = "BMP_OK"
    /\ IF Height(img.dims) > 0 THEN lpc = "sent" /\ region = Original(img)
                               ELSE lpc = "refused"

-----------------------------------------------------------------------------
(* The inductive invariant behind these.  The file and what the writer     *)
(* still has in its buffer are cell for cell what bmp_img_write makes of   *)
(* the image.                                                              *)
Stride(d) == RowBytes(d) + Padding(Width(d))
RowStart(d, y) == 2 + y * Stride(d)

RowCell(i, y, k) ==
  IF k <= RowBytes(i.dims) THEN Byte(i.n, RowIndex(Height(i.dims), y), k) ELSE Pad

Cell(i, c) ==
  CASE c = 1 -> Magic
    [] c = 2 -> Header(i.dims)
    [] c > 2 -> RowCell(i, (c - 3) \div Stride(i.dims), 1 + ((c - 3) % Stride(i.dims)))

FileInv ==
  /\ img.n = 0 => wpc = "idle" /\ (file = <<>> \/ file = <<Pad>>)
  /\ img.n > 0 => \A c \in 1 .. Len(file) : file[c] = Cell(img, c)
  /\ \A c \in 1 .. Len(buffer) : buffer[c] = Cell(img, Len(file) + c)
  /\ wpc # "rows" => buffer = <<>>
  /\ wpc = "header" => file = <<>> /\ wrow = 0
  /\ wpc = "rows" => Len(file) + Len(buffer) = RowStart(img.dims, wrow)
  /\ wpc = "idle" /\ img.n > 0 => Len(file) = RowStart(img.dims, Abs(Height(img.dims)))

(* The loader is where the row it reads begins; the rows before it are     *)
(* those of the image, and what is not yet read is uninitialised.          *)
LoaderInv ==
  /\ lpc = "start" => ~whole /\ ~rewritten
  /\ lpc \in {"start", "header"} => pixels = <<>> /\ row = 0 /\ err = "none"
  /\ lpc = "rows" => pixels # <<>> /\ err = "none" /\ pos = RowStart(header, row)
  /\ err = "BMP_OK" => pixels # <<>> /\ row = Abs(Height(header))
  /\ lpc = "sent" /\ pixels # <<>> => region = LoadRegion(header, pixels)

PixelsInv ==
  pixels # <<>> /\ ~rewritten =>
    /\ img.n > 0 /\ header = img.dims
    /\ \A y \in Rows(header), k \in 1 .. RowBytes(header) :
         LET r == RowIndex(Height(header), y)
         IN  \/ pixels[r][k] = Byte(img.n, r, k)
             \/ pixels[r][k] = Garbage /\ row <= y

WholeInv ==
  whole /\ ~rewritten =>
    /\ wpc = "idle" /\ img.n > 0
    /\ err \in {"none", "BMP_OK", "BMP_FILE_NOT_OPENED"}
    /\ err = "none" <=> lpc \in {"header", "rows"}
    /\ err = "BMP_OK" /\ lpc # "size" =>
         lpc = IF MallocFails(header) THEN "refused" ELSE "sent"

IInv == TypeOK /\ FileInv /\ LoaderInv /\ PixelsInv /\ WholeInv

(* The size of an image is one that malloc can give. *)
SizesFit == \A d \in Dims : 3 * Width(d) * Abs(Height(d)) <= MaxObject
=============================================================================
