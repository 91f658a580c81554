-------------------------- MODULE GreyKernelProofs --------------------------
(***************************************************************************)
(* Proofs about GreyKernel, for images and blocks of any size: a thread of *)
(* the grid is inside the image, no two threads store to one element, and  *)
(* the pixels of the whole blocks are those that have a thread.            *)
(***************************************************************************)
EXTENDS GreyKernel, TLAPS

(* Products: the only facts that are not linear. *)
LEMMA NextMultiple ==
  ASSUME NEW c \in Nat, NEW x \in Nat, NEW y \in Nat, x < y
  PROVE  x * c + c <= y * c
<1>1. PICK k \in Nat : y = x + 1 + k
  <2>1. y - x - 1 \in Nat /\ y = x + 1 + (y - x - 1)
    OBVIOUS
  <2> QED BY <2>1
<1>2. y * c = x * c + c + k * c
  BY <1>1
<1>3. k * c \in Nat /\ x * c \in Nat
  BY <1>1
<1> QED BY <1>2, <1>3

(* A number has one representation as a row and a column.                  *)
LEMMA UniqueDigits ==
  ASSUME NEW c \in Nat, NEW x \in Nat, NEW y \in Nat,
         NEW a \in 0 .. c - 1, NEW b \in 0 .. c - 1,
         x * c + a = y * c + b
  PROVE  x = y /\ a = b
<1>1. x * c \in Nat /\ y * c \in Nat
  OBVIOUS
<1>2. ~(x < y)
  <2> SUFFICES ASSUME x < y PROVE FALSE
    OBVIOUS
  <2>1. x * c + c <= y * c
    BY NextMultiple
  <2> QED BY <1>1, <2>1
<1>3. ~(y < x)
  <2> SUFFICES ASSUME y < x PROVE FALSE
    OBVIOUS
  <2>1. y * c + c <= x * c
    BY NextMultiple
  <2> QED BY <1>1, <2>1
<1>4. x = y
  BY <1>2, <1>3
<1> QED BY <1>1, <1>4

LEMMA Division ==
  ASSUME NEW n \in Nat, NEW b \in Nat \ {0}
  PROVE  /\ n \div b \in Nat
         /\ (n \div b) * b \in Nat
         /\ (n \div b) * b <= n /\ n < (n \div b) * b + b
<1>1. n \div b \in Nat /\ n % b \in 0 .. b - 1
  OBVIOUS
<1>2. n = b * (n \div b) + (n % b)
  OBVIOUS
<1>3. b * (n \div b) = (n \div b) * b /\ (n \div b) * b \in Nat
  BY <1>1
<1> QED BY <1>1, <1>2, <1>3

(* The columns of a row of whole blocks, and likewise the rows.            *)
LEMMA InWholeBlocks ==
  ASSUME NEW n \in Nat, Block \in Nat \ {0},
         NEW b \in 0 .. (n \div Block) - 1, NEW i \in 0 .. Block - 1
  PROVE  i + b * Block \in Nat /\ i + b * Block < (n \div Block) * Block /\ i + b * Block < n
<1>1. /\ n \div Block \in Nat /\ (n \div Block) * Block \in Nat
      /\ (n \div Block) * Block <= n
  BY Division
<1>2. b * Block + Block <= (n \div Block) * Block
  BY <1>1, NextMultiple
<1>3. b * Block \in Nat
  OBVIOUS
<1> QED BY <1>1, <1>2, <1>3

(* A thread of the grid has a pixel of the image: the test of the kernel   *)
(* never fails, and it stores inside of the array.                         *)
LEMMA ThreadInImage ==
  ASSUME Block \in Nat \ {0}, NEW r \in Nat, NEW c \in Nat, NEW t \in Threads(DimGrid(r, c))
  PROVE  /\ Row(t) \in Nat /\ Col(t) \in Nat
         /\ InImage(r, c, t)
         /\ GreyOffset(r, c, t) \in 0 .. r * c - 1
<1>1. /\ t[1] \in 0 .. (c \div Block) - 1 /\ t[2] \in 0 .. (r \div Block) - 1
      /\ t[3] \in 0 .. Block - 1 /\ t[4] \in 0 .. Block - 1
  BY DEF Threads, DimGrid
<1>2. Col(t) \in Nat /\ Col(t) < c
  BY <1>1, InWholeBlocks DEF Col
<1>3. Row(t) \in Nat /\ Row(t) < r
  BY <1>1, InWholeBlocks DEF Row
<1>4. GreyOffset(r, c, t) \in 0 .. r * c - 1
  <2>1. Row(t) * c + c <= r * c
    BY <1>3, NextMultiple
  <2>2. Row(t) * c \in Nat /\ r * c \in Nat
    BY <1>3
  <2> QED BY <1>2, <2>1, <2>2 DEF GreyOffset
<1> QED BY <1>2, <1>3, <1>4 DEF InImage

(* Two threads of the grid store to different elements.                    *)
LEMMA ThreadsDisjoint ==
  ASSUME Block \in Nat \ {0}, NEW r \in Nat, NEW c \in Nat,
         NEW s \in Threads(DimGrid(r, c)), NEW t \in Threads(DimGrid(r, c)),
         GreyOffset(r, c, s) = GreyOffset(r, c, t)
  PROVE  s = t
<1>1. /\ Row(s) \in Nat /\ Col(s) \in 0 .. c - 1
      /\ Row(t) \in Nat /\ Col(t) \in 0 .. c - 1
  BY ThreadInImage DEF InImage
<1>2. Row(s) = Row(t) /\ Col(s) = Col(t)
  BY <1>1, UniqueDigits DEF GreyOffset
<1>3. /\ s[1] \in Nat /\ s[2] \in Nat /\ s[3] \in 0 .. Block - 1 /\ s[4] \in 0 .. Block - 1
      /\ t[1] \in Nat /\ t[2] \in Nat /\ t[3] \in 0 .. Block - 1 /\ t[4] \in 0 .. Block - 1
      /\ s = <<s[1], s[2], s[3], s[4]>> /\ t = <<t[1], t[2], t[3], t[4]>>
  BY DEF Threads
<1>4. /\ s[1] * Block + s[3] = t[1] * Block + t[3]
      /\ s[2] * Block + s[4] = t[2] * Block + t[4]
  <2>1. /\ s[1] * Block \in Nat /\ s[2] * Block \in Nat
        /\ t[1] * Block \in Nat /\ t[2] * Block \in Nat
    BY <1>3
  <2> QED BY <1>2, <1>3, <2>1 DEF Row, Col
<1>5. s[1] = t[1] /\ s[3] = t[3] /\ s[2] = t[2] /\ s[4] = t[4]
  BY <1>3, <1>4, UniqueDigits
<1> QED BY <1>3, <1>5

-----------------------------------------------------------------------------
Grid == Threads(DimGrid(rows, cols))
Element(t) == GreyOffset(rows, cols, t)

(* The kernel was launched and has run, or still runs. *)
Launched == pc \in {"copy", "output", "done"} /\ failed \cap {"launch", "kernel"} = {}

(* An element has been stored to once when its thread has run, and else    *)
(* not at all; an element without a thread never is.                       *)
StoreInv ==
  /\ \A t \in Grid : /\ d_grey_image[Element(t)] <= 1
                     /\ t \in todo => d_grey_image[Element(t)] = 0
                     /\ Launched /\ t \notin todo => d_grey_image[Element(t)] = 1
  /\ \A o \in Elements : d_grey_image[o] > 0 => \E t \in Grid : Element(t) = o
  /\ pc # "copy" => todo = {}
  /\ pc \in {"load", "prepare", "launch"} => d_grey_image = Zeros

(* The host has uninitialised memory until the device's is copied to it. *)
DeviceImage == [o \in Elements |-> DeviceValue(o)]

CopyInv ==
  /\ pc \in {"load", "prepare", "launch", "copy"} =>
       h_grey_image = Uninitialised /\ "copy to host" \notin failed
  /\ pc \in {"output", "done"} =>
       h_grey_image = IF "copy to host" \in failed THEN Uninitialised ELSE DeviceImage

Inv == TypeOK /\ StoreInv /\ CopyInv

Positive == Block \in Nat \ {0} /\ MaxRows \in Nat /\ MaxCols \in Nat

LEMMA SizeTyped == Positive /\ TypeOK => rows \in Nat /\ cols \in Nat
<1>1. \A m \in Nat : 0 .. m \subseteq Nat
  OBVIOUS
<1>2. TypeOK => rows \in 0 .. MaxRows /\ cols \in 0 .. MaxCols
  BY DEF TypeOK
<1>3. Positive => MaxRows \in Nat /\ MaxCols \in Nat
  BY DEF Positive
<1> QED BY <1>1, <1>2, <1>3

LEMMA InitInv == ASSUME Positive PROVE Init => Inv
<1> SUFFICES ASSUME Init PROVE Inv
  OBVIOUS
<1>1. Elements = {} /\ Grid = {}
  <2>1. 0 \div Block = 0 /\ 0 * 0 = 0
    BY DEF Positive
  <2>2. \A t : t \notin Grid
    BY <2>1 DEF Init, Grid, Threads, DimGrid
  <2> QED BY <2>1, <2>2 DEF Init, Elements
<1>2. TypeOK
  BY DEF Init, TypeOK, Zeros, Uninitialised, Positive
<1> QED BY <1>1, <1>2 DEF Init, Inv, StoreInv, CopyInv

LEMMA LoadInv == ASSUME Positive, Inv, LoadImageFile PROVE Inv'
<1>1. /\ rows' \in 0 .. MaxRows /\ cols' \in 0 .. MaxCols
      /\ todo' = {} /\ pc' \in {"prepare", "no image"}
      /\ failed' = failed /\ failed \subseteq Calls /\ "copy to host" \notin failed
  <2>1. /\ rows \in 0 .. MaxRows /\ cols \in 0 .. MaxCols /\ todo = {}
        /\ failed \subseteq Calls /\ "copy to host" \notin failed
    BY DEF LoadImageFile, Inv, TypeOK, StoreInv, CopyInv
  <2>2. \/ /\ rows' \in 1 .. MaxRows /\ cols' \in 1 .. MaxCols
           /\ pc' \in {"prepare", "no image"}
        \/ UNCHANGED <<rows, cols>> /\ pc' = "prepare"
    BY DEF LoadImageFile
  <2>3. UNCHANGED <<failed, todo>>
    BY DEF LoadImageFile
  <2>4. \A m \in Nat : 1 .. m \subseteq 0 .. m
    OBVIOUS
  <2> QED BY <2>1, <2>2, <2>3, <2>4 DEF Positive
<1>2. /\ d_grey_image' = Zeros' /\ h_grey_image' = Uninitialised'
      /\ Zeros' \in [Elements' -> Nat]
      /\ Uninitialised' \in [Elements' -> {"garbage", "black", "pixel"}]
  BY DEF LoadImageFile, Zeros, Uninitialised
<1>3. TypeOK'
  BY <1>1, <1>2 DEF TypeOK
<1>4. \A o \in Elements' : d_grey_image'[o] = 0
  BY <1>2 DEF Zeros
<1>5. \A t \in Grid' : Element(t)' \in Elements'
  <2>1. rows' \in Nat /\ cols' \in Nat
    <3>1. \A m \in Nat : 0 .. m \subseteq Nat
      OBVIOUS
    <3> QED BY <1>1, <3>1 DEF Positive
  <2> QED BY <2>1, ThreadInImage DEF Grid, Element, Elements, Positive
<1>6. StoreInv'
  <2>1. ~Launched'
    BY <1>1 DEF Launched
  <2>2. \A t \in Grid' : d_grey_image'[Element(t)'] = 0
    BY <1>4, <1>5
  <2>3. \A t \in Grid' : /\ d_grey_image'[Element(t)'] <= 1
                          /\ ~(d_grey_image'[Element(t)'] = 1)
    BY <2>2
  <2>4. \A o \in Elements' : ~(d_grey_image'[o] > 0)
    BY <1>4
  <2> QED BY <1>1, <1>2, <2>1, <2>2, <2>3, <2>4 DEF StoreInv
<1>7. CopyInv'
  BY <1>1, <1>2 DEF CopyInv
<1> QED BY <1>3, <1>6, <1>7 DEF Inv

LEMMA LaunchInv == ASSUME Positive, Inv, Launch PROVE Inv'
<1>1. /\ UNCHANGED <<rows, cols, d_grey_image, h_grey_image>>
      /\ pc = "launch" /\ pc' = "copy" /\ d_grey_image = Zeros
      /\ \/ todo' = Grid /\ failed' = failed
         \/ todo' = {} /\ failed' = failed \cup {"launch"}
  BY DEF Launch, Inv, StoreInv, Grid
<1>2. TypeOK'
  <2>1. failed' \subseteq Calls /\ todo' \subseteq Grid
    BY <1>1 DEF Inv, TypeOK, Calls
  <2> QED BY <1>1, <2>1 DEF Inv, TypeOK, Grid, Elements
<1>3. Grid' = Grid /\ Elements' = Elements /\ \A t \in Grid : Element(t)' = Element(t)
  BY <1>1 DEF Grid, Element, Elements
<1>4. \A t \in Grid : Element(t) \in Elements
  BY SizeTyped, ThreadInImage DEF Grid, Element, Elements, Positive, Inv
<1>5. StoreInv'
  <2>1. \A o \in Elements : d_grey_image'[o] = 0
    BY <1>1 DEF Zeros
  <2>2. \A t \in Grid : d_grey_image'[Element(t)'] = 0
    BY <1>3, <1>4, <2>1
  <2>3. Launched' => todo' = Grid
    BY <1>1 DEF Launched
  <2> QED BY <1>1, <1>3, <2>1, <2>2, <2>3 DEF StoreInv
<1>6. CopyInv'
  BY <1>1 DEF CopyInv, Inv, Uninitialised, Elements
<1> QED BY <1>2, <1>5, <1>6 DEF Inv

LEMMA KernelInv ==
  ASSUME Positive, Inv, NEW t \in todo, colorConvertToGrey(t)
  PROVE  Inv'
<1> DEFINE o == Element(t)
<1>1. rows \in Nat /\ cols \in Nat /\ t \in Grid
  BY SizeTyped DEF Inv, TypeOK, Grid
<1>2. o \in Elements /\ InImage(rows, cols, t)
  BY <1>1, ThreadInImage DEF Grid, Elements, Element, Positive
<1>3. d_grey_image[o] = 0 /\ d_grey_image \in [Elements -> Nat] /\ pc = "copy"
  BY <1>1 DEF Inv, StoreInv, TypeOK
<1>4. d_grey_image' = [d_grey_image EXCEPT ![o] = 1]
  <2>1. DOMAIN d_grey_image \cup {o} = Elements
    BY <1>2, <1>3
  <2>2. d_grey_image' = [e \in Elements |-> IF e = o THEN 1 ELSE d_grey_image[e]]
    BY <1>2, <1>3, <2>1 DEF colorConvertToGrey, Element
  <2> QED BY <1>3, <2>2
<1>5. todo' = todo \ {t} /\ UNCHANGED <<rows, cols, pc, failed, h_grey_image>>
  BY DEF colorConvertToGrey
<1>6. /\ Grid' = Grid /\ Elements' = Elements
      /\ \A s \in Grid : Element(s)' = Element(s) /\ Element(s) \in Elements
  BY <1>1, <1>5, ThreadInImage DEF Grid, Elements, Element, Positive
<1>7. TypeOK'
  <2>1. d_grey_image' \in [Elements -> Nat]
    BY <1>2, <1>3, <1>4
  <2> QED BY <1>5, <1>6, <2>1 DEF Inv, TypeOK, Grid
<1>8. StoreInv'
  <2>1. ASSUME NEW s \in Grid
        PROVE  /\ d_grey_image'[Element(s)] <= 1
               /\ s \in todo' => d_grey_image'[Element(s)] = 0
               /\ Launched /\ s \notin todo' => d_grey_image'[Element(s)] = 1
    <3>1. CASE s = t
      BY <1>2, <1>3, <1>4, <1>5, <3>1
    <3>2. CASE s # t
      <4>1. Element(s) # o
        BY <1>1, <3>2, ThreadsDisjoint DEF Grid, Element, Positive
      <4>2. d_grey_image'[Element(s)] = d_grey_image[Element(s)]
        BY <1>3, <1>4, <1>6, <4>1
      <4> QED BY <1>5, <3>2, <4>2 DEF Inv, StoreInv
    <3> QED BY <3>1, <3>2
  <2>2. ASSUME NEW e \in Elements, d_grey_image'[e] > 0
        PROVE  \E s \in Grid : Element(s) = e
    <3>1. CASE e = o
      BY <1>1, <3>1
    <3>2. CASE e # o
      BY <1>3, <1>4, <2>2, <3>2 DEF Inv, StoreInv
    <3> QED BY <3>1, <3>2
  <2>3. Launched' = Launched
    BY <1>5 DEF Launched
  <2>4. pc' = "copy"
    BY <1>3, <1>5
  <2> QED BY <1>6, <2>1, <2>2, <2>3, <2>4 DEF StoreInv
<1>9. CopyInv'
  BY <1>3, <1>5, <1>6 DEF CopyInv, Inv, Uninitialised
<1> QED BY <1>7, <1>8, <1>9 DEF Inv

LEMMA FaultInv ==
  ASSUME Inv, NEW t \in todo, IllegalAddress(t)
  PROVE  Inv'
<1>1. /\ pc = "copy" /\ todo' = {} /\ failed' = failed \cup {"kernel"}
      /\ UNCHANGED <<rows, cols, pc, d_grey_image, h_grey_image>>
  BY DEF IllegalAddress, Inv, StoreInv
<1>2. TypeOK'
  BY <1>1 DEF Inv, TypeOK, Elements, Calls
<1>3. ~Launched'
  BY <1>1 DEF Launched
<1>4. StoreInv'
  BY <1>1, <1>3 DEF Inv, StoreInv, Grid, Element, Elements
<1>5. CopyInv'
  BY <1>1 DEF Inv, CopyInv, Uninitialised, Elements
<1> QED BY <1>2, <1>4, <1>5 DEF Inv

LEMMA HostInv ==
  ASSUME Inv, Prepare \/ CopyBack \/ OutputImage \/ UNCHANGED vars
  PROVE  Inv'
<1>1. /\ UNCHANGED <<rows, cols, todo, d_grey_image>>
      /\ pc' \in {"load", "prepare", "launch", "copy", "output", "done", "no image"}
      /\ pc' # "copy" => pc # "copy" \/ todo = {}
      /\ pc' \in {"load", "prepare", "launch"} => pc \in {"load", "prepare", "launch"}
  BY DEF Prepare, CopyBack, OutputImage, vars, Inv, TypeOK
<1>2. failed' \subseteq Calls /\ (Launched' => Launched)
  <2>1. CASE Prepare
    BY <2>1 DEF Prepare, Preparations, Calls, Launched
  <2>2. CASE CopyBack
    BY <2>2 DEF CopyBack, Launched, Inv, TypeOK, Calls
  <2>3. CASE OutputImage \/ UNCHANGED vars
    BY <2>3 DEF OutputImage, vars, Launched, Inv, TypeOK
  <2> QED BY <2>1, <2>2, <2>3
<1>3. Elements' = Elements /\ Uninitialised' = Uninitialised /\ Grid' = Grid
      /\ \A t : Element(t)' = Element(t)
  BY <1>1 DEF Elements, Uninitialised, Grid, Element
<1>4. CopyInv' /\ h_grey_image' \in [Elements -> {"garbage", "black", "pixel"}]
  <2>0. h_grey_image \in [Elements -> {"garbage", "black", "pixel"}]
    BY DEF Inv, TypeOK
  <2>1. CASE Prepare
    BY <1>3, <2>0, <2>1 DEF Prepare, Preparations, Inv, CopyInv
  <2>2. CASE CopyBack
    <3>1. pc' = "output" /\ "copy to host" \notin failed /\ h_grey_image = Uninitialised
      BY <2>2 DEF CopyBack, Inv, CopyInv
    <3>2. CASE failed' = failed /\ h_grey_image' = [e \in DOMAIN h_grey_image |-> DeviceValue(e)]
      <4>1. h_grey_image' = DeviceImage
        BY <2>0, <3>2 DEF DeviceImage
      <4>2. DeviceImage' = DeviceImage
        BY <1>1, <1>3, <3>2 DEF DeviceImage, DeviceValue
      <4>3. DeviceImage \in [Elements -> {"garbage", "black", "pixel"}]
        BY DEF DeviceImage, DeviceValue
      <4> QED BY <3>1, <3>2, <4>1, <4>2, <4>3 DEF CopyInv
    <3>3. CASE failed' = failed \cup {"copy to host"} /\ h_grey_image' = h_grey_image
      BY <1>3, <2>0, <3>1, <3>3 DEF CopyInv
    <3> QED BY <2>2, <3>2, <3>3 DEF CopyBack
  <2>3. CASE OutputImage \/ UNCHANGED vars
    <3>1. failed' = failed /\ h_grey_image' = h_grey_image
          /\ \/ pc' = pc
             \/ pc = "output" /\ pc' \in {"done", "no image"}
      <4>1. CASE OutputImage
        BY <4>1 DEF OutputImage
      <4>2. CASE UNCHANGED vars
        <5>1. UNCHANGED <<failed, h_grey_image, pc>>
          BY <4>2 DEF vars
        <5> QED BY <5>1
      <4> QED BY <2>3, <4>1, <4>2
    <3>2. DeviceImage' = DeviceImage
      BY <1>1, <1>3, <3>1 DEF DeviceImage, DeviceValue
    <3> QED BY <1>3, <2>0, <3>1, <3>2 DEF Inv, CopyInv
  <2> QED BY <2>1, <2>2, <2>3
<1>5. TypeOK'
  BY <1>1, <1>2, <1>3, <1>4 DEF Inv, TypeOK
<1>6. StoreInv'
  <2>1. Zeros' = Zeros
    BY <1>3 DEF Zeros
  <2> QED BY <1>1, <1>2, <1>3, <2>1 DEF Inv, StoreInv
<1> QED BY <1>4, <1>5, <1>6 DEF Inv

LEMMA SpecInv == ASSUME Positive PROVE Spec => []Inv
<1>1. Inv /\ [Next]_vars => Inv'
  BY LoadInv, LaunchInv, KernelInv, FaultInv, HostInv DEF Next
<1> QED BY <1>1, InitInv, PTL DEF Spec

(* Every variable keeps its type: no thread of the kernel stores outside   *)
(* of the array, whatever the size of the image and whichever calls fail.  *)
THEOREM StoresInside == ASSUME Positive PROVE Spec => []TypeOK
<1>1. Inv => TypeOK
  BY DEF Inv
<1> QED BY <1>1, SpecInv, PTL

(* No two threads of the kernel store to one element, for images and       *)
(* blocks of any size.                                                     *)
THEOREM RaceFree == ASSUME Positive PROVE Spec => []NoRace
<1>1. Inv => NoRace
  <2> SUFFICES ASSUME Inv, NEW o \in Elements PROVE d_grey_image[o] <= 1
    BY DEF NoRace
  <2>1. d_grey_image[o] \in Nat
    BY DEF Inv, TypeOK
  <2> QED BY <2>1 DEF Inv, StoreInv
<1> QED BY <1>1, SpecInv, PTL

(* A pixel has a thread of the grid exactly when it is in a whole block.   *)
LEMMA ThreadOfPixel ==
  ASSUME Positive, rows \in Nat, cols \in Nat, NEW r \in 0 .. rows - 1, NEW c \in 0 .. cols - 1
  PROVE  (\E t \in Grid : Element(t) = r * cols + c)
           <=> r < Covered(rows) /\ c < Covered(cols)
<1>0. Block \in Nat \ {0} /\ r \in Nat /\ c \in Nat
  BY DEF Positive
<1>1. /\ Covered(rows) = (rows \div Block) * Block /\ rows \div Block \in Nat
      /\ Covered(cols) = (cols \div Block) * Block /\ cols \div Block \in Nat
  BY <1>0, Division DEF Covered
<1>2. ASSUME NEW t \in Grid, Element(t) = r * cols + c
      PROVE  r < Covered(rows) /\ c < Covered(cols)
  <2>1. Row(t) \in Nat /\ Col(t) \in 0 .. cols - 1
    BY <1>0, ThreadInImage DEF Grid, InImage
  <2>2. Row(t) = r /\ Col(t) = c
    <3>1. Row(t) * cols + Col(t) = r * cols + c
      BY <1>2 DEF Element, GreyOffset
    <3>2. \A x, y \in Nat : \A a, b \in 0 .. cols - 1 :
            x * cols + a = y * cols + b => x = y /\ a = b
      BY UniqueDigits
    <3> QED BY <1>0, <2>1, <3>1, <3>2
  <2>3. /\ t[1] \in 0 .. (cols \div Block) - 1 /\ t[2] \in 0 .. (rows \div Block) - 1
        /\ t[3] \in 0 .. Block - 1 /\ t[4] \in 0 .. Block - 1
    BY DEF Grid, Threads, DimGrid
  <2>4. Col(t) < (cols \div Block) * Block
    BY <1>0, <2>3, InWholeBlocks DEF Col
  <2>5. Row(t) < (rows \div Block) * Block
    BY <1>0, <2>3, InWholeBlocks DEF Row
  <2> QED BY <1>1, <2>2, <2>4, <2>5
<1>3. ASSUME NEW n \in Nat, NEW i \in Nat, i < (n \div Block) * Block
      PROVE  /\ i \div Block \in 0 .. (n \div Block) - 1 /\ i % Block \in 0 .. Block - 1
             /\ (i % Block) + (i \div Block) * Block = i
  <2>1. i \div Block \in Nat /\ i % Block \in 0 .. Block - 1 /\ n \div Block \in Nat
    BY <1>0
  <2>2. i = Block * (i \div Block) + (i % Block)
    BY <1>0
  <2>3. Block * (i \div Block) = (i \div Block) * Block /\ (i \div Block) * Block \in Nat
        /\ (i \div Block) * Block <= i
    BY <1>0, <2>1, Division
  <2>4. i \div Block < n \div Block
    <3> SUFFICES ASSUME ~(i \div Block < n \div Block) PROVE FALSE
      OBVIOUS
    <3>1. (n \div Block) * Block <= (i \div Block) * Block
      <4>1. CASE n \div Block = i \div Block
        BY <2>3, <4>1
      <4>2. CASE n \div Block < i \div Block
        <5>1. (n \div Block) * Block + Block <= (i \div Block) * Block
          BY <1>0, <2>1, <4>2, NextMultiple
        <5>2. (n \div Block) * Block \in Nat
          BY <1>0, <2>1
        <5> QED BY <1>0, <2>3, <5>1, <5>2
      <4> QED BY <2>1, <4>1, <4>2
    <3>2. (n \div Block) * Block \in Nat
      BY <1>0, <2>1
    <3> QED BY <1>3, <2>3, <3>1, <3>2
  <2> QED BY <2>1, <2>2, <2>3, <2>4
<1>4. ASSUME r < Covered(rows), c < Covered(cols)
      PROVE  \E t \in Grid : Element(t) = r * cols + c
  <2> DEFINE t == <<c \div Block, r \div Block, c % Block, r % Block>>
  <2>1. /\ c \div Block \in 0 .. (cols \div Block) - 1 /\ c % Block \in 0 .. Block - 1
        /\ (c % Block) + (c \div Block) * Block = c
    BY <1>0, <1>1, <1>3, <1>4
  <2>2. /\ r \div Block \in 0 .. (rows \div Block) - 1 /\ r % Block \in 0 .. Block - 1
        /\ (r % Block) + (r \div Block) * Block = r
    BY <1>0, <1>1, <1>3, <1>4
  <2>3. t \in Grid
    BY <2>1, <2>2 DEF Grid, Threads, DimGrid
  <2>4. Col(t) = c /\ Row(t) = r
    BY <2>1, <2>2 DEF Col, Row
  <2>5. Element(t) = r * cols + c
    BY <2>4 DEF Element, GreyOffset
  <2> QED BY <2>3, <2>5
<1> QED BY <1>2, <1>4

(* Of an image of any size, whichever calls fail, no pixel is converted    *)
(* but those of the whole blocks, and without a failure these all are; the *)
(* rest is black, or uninitialised memory after one of three failures.     *)
THEOREM ExactlyWholeBlocks == ASSUME Positive PROVE Spec => []WholeBlocksConverted
<1>1. ASSUME Inv, pc = "done", NEW r \in 0 .. rows - 1, NEW c \in 0 .. cols - 1
      PROVE  LET value == h_grey_image[r * cols + c]
                 whole == r < Covered(rows) /\ c < Covered(cols)
             IN  /\ value = "pixel" => whole
                 /\ whole /\ failed = {} => value = "pixel"
                 /\ ~whole => (value = "black" <=> failed \cap {"cudaMemset", "copy to host"} = {})
                 /\ value = "garbage" =>
                      failed \cap {"cudaMemset", "copy to device", "copy to host"} # {}
  <2> DEFINE o == r * cols + c
             whole == r < Covered(rows) /\ c < Covered(cols)
  <2>1. rows \in Nat /\ cols \in Nat
    BY <1>1, SizeTyped DEF Inv
  <2>2. o \in Elements
    <3>1. r * cols + cols <= rows * cols
      BY <2>1, NextMultiple
    <3>2. r * cols \in Nat /\ rows * cols \in Nat
      BY <2>1
    <3> QED BY <2>1, <3>1, <3>2 DEF Elements
  <2>3. /\ d_grey_image[o] > 0 => \E t \in Grid : Element(t) = o
        /\ failed = {} => \A t \in Grid : d_grey_image[Element(t)] = 1
    BY <1>1, <2>2 DEF Inv, StoreInv, Launched
  <2>4. whole <=> \E t \in Grid : Element(t) = o
    BY <2>1, ThreadOfPixel
  <2>5. /\ d_grey_image[o] > 0 => whole
        /\ whole /\ failed = {} => d_grey_image[o] = 1
    BY <2>3, <2>4
  <2>6. h_grey_image[o] = IF "copy to host" \in failed THEN "garbage" ELSE DeviceValue(o)
    BY <1>1, <2>2 DEF Inv, CopyInv, Uninitialised, DeviceImage
  <2> HIDE DEF whole
  <2>7. CASE "copy to host" \in failed
    BY <2>6, <2>7 DEF whole
  <2>8. CASE "copy to host" \notin failed
    <3>1. h_grey_image[o] = DeviceValue(o)
      BY <2>6, <2>8
    <3>2. CASE d_grey_image[o] > 0
      <4>1. whole
        BY <2>5, <3>2
      <4>2. h_grey_image[o] = IF "copy to device" \in failed THEN "garbage" ELSE "pixel"
        BY <3>1, <3>2 DEF DeviceValue
      <4> QED BY <4>1, <4>2 DEF whole
    <3>3. CASE ~(d_grey_image[o] > 0)
      <4>1. ~(whole /\ failed = {})
        BY <2>5, <3>3
      <4>2. h_grey_image[o] = IF "cudaMemset" \in failed THEN "garbage" ELSE "black"
        BY <3>1, <3>3 DEF DeviceValue
      <4> QED BY <2>8, <4>1, <4>2 DEF whole
    <3> QED BY <3>2, <3>3
  <2> QED BY <2>7, <2>8
<1>2. Inv => WholeBlocksConverted
  BY <1>1 DEF WholeBlocksConverted
<1> QED BY <1>2, SpecInv, PTL
=============================================================================
