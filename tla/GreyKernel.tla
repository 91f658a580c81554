----------------------------- MODULE GreyKernel -----------------------------
(***************************************************************************)
(* processing/cuda/main.cu: an image is converted to grey scale by a grid  *)
(* of blocks of threads on the graphics card.  The threads run in any      *)
(* order; the copy back to the host waits for all of them.  Any call of    *)
(* the CUDA library may fail, and the program looks at no result.          *)
(***************************************************************************)
EXTENDS Integers

CONSTANTS
  Block,             \* side of a block of threads, 16 in the code
  MaxRows, MaxCols   \* bounds: size of an image

VARIABLES
  rows, cols,        \* the image
  pc,                \* host: next step
  failed,            \* the calls that have failed, named by array or by function
  todo,              \* threads of the kernel that have not run
  d_grey_image,      \* device: for each element, how often a pixel was stored there
  h_grey_image       \* host: for each element, what is written to the output file

vars == <<rows, cols, pc, failed, todo, d_grey_image, h_grey_image>>

(* The calls between the load and the launch: fopen, malloc, two           *)
(* cudaMallocs, cudaMemset and the cudaMemcpy to the device.               *)
Preparations ==
  {"fopen", "h_grey_image", "d_rgb_image", "d_grey_image", "cudaMemset", "copy to device"}

Calls == Preparations \cup {"launch", "kernel", "copy to host"}

(* A thread: column and row of its block, column and row in the block. *)
Threads(grid) ==
  (0 .. grid[1] - 1) \X (0 .. grid[2] - 1) \X (0 .. Block - 1) \X (0 .. Block - 1)

(* dimGrid: (int)ceil(cols / 16) divides before it rounds, so it rounds    *)
(* down.                                                                   *)
DimGrid(r, c) == <<c \div Block, r \div Block>>

Col(t) == t[3] + t[1] * Block              \* threadIdx.x + blockIdx.x * blockDim.x
Row(t) == t[4] + t[2] * Block

BugStride(r, c, t) == Row(t) * r + Col(t)
BugFromOne(r, c, t) == Row(t) * c + Col(t) + 1
GreyOffset(r, c, t) == Row(t) * c + Col(t)

InImage(r, c, t) == Col(t) < c /\ Row(t) < r

(* Elements are numbered row by row from 0. *)
Elements == 0 .. rows * cols - 1
Zeros == [o \in Elements |-> 0]

Uninitialised == [o \in Elements |-> "garbage"]

(* Every variable keeps its type; no thread stores outside of the array.   *)
TypeOK ==
  /\ rows \in 0 .. MaxRows /\ cols \in 0 .. MaxCols
  /\ pc \in {"load", "prepare", "launch", "copy", "output", "done", "no image"}
  /\ failed \subseteq Calls
  /\ todo \subseteq Threads(DimGrid(rows, cols))
  /\ d_grey_image \in [Elements -> Nat]
  /\ h_grey_image \in [Elements -> {"garbage", "black", "pixel"}]

Init ==
  /\ rows = 0 /\ cols = 0 /\ pc = "load" /\ failed = {} /\ todo = {}
  /\ d_grey_image = Zeros /\ h_grey_image = Uninitialised

-----------------------------------------------------------------------------
(* loadImageFile.  An image that cannot be read has no rows, which is      *)
(* reported but not acted upon; without memory for h_rgb_image the program *)
(* stores through a null pointer.                                          *)
LoadImageFile ==
  /\ pc = "load"
  /\ \/ rows' \in 1 .. MaxRows /\ cols' \in 1 .. MaxCols /\ pc' \in {"prepare", "no image"}
     \/ UNCHANGED <<rows, cols>> /\ pc' = "prepare"
  /\ d_grey_image' = Zeros' /\ h_grey_image' = Uninitialised'
  /\ UNCHANGED <<failed, todo>>

(* An array that was not allocated is not set or copied to either. *)
Prepare ==
  /\ pc = "prepare" /\ pc' = "launch"
  /\ failed' \in SUBSET Preparations
  /\ "d_grey_image" \in failed' => "cudaMemset" \in failed'
  /\ "d_rgb_image" \in failed' => "copy to device" \in failed'
  /\ UNCHANGED <<rows, cols, todo, d_grey_image, h_grey_image>>

(* The launch does not wait.  A grid without blocks is refused. *)
Launch ==
  /\ pc = "launch" /\ pc' = "copy"
  /\ \/ /\ Threads(DimGrid(rows, cols)) # {}
        /\ todo' = Threads(DimGrid(rows, cols)) /\ UNCHANGED failed
     \/ failed' = failed \cup {"launch"} /\ UNCHANGED todo
  /\ UNCHANGED <<rows, cols, d_grey_image, h_grey_image>>

DeviceArrays == {"d_rgb_image", "d_grey_image"}

(* A thread that reads or stores through a pointer that cudaMalloc has not *)
(* set: the kernel is stopped and the device is lost.                      *)
IllegalAddress(t) ==
  /\ t \in todo /\ InImage(rows, cols, t) /\ failed \cap DeviceArrays # {}
  /\ todo' = {} /\ failed' = failed \cup {"kernel"}
  /\ UNCHANGED <<rows, cols, pc, d_grey_image, h_grey_image>>

(* A store outside of the array would show as a change of its domain. *)
colorConvertToGrey(t) ==
  /\ t \in todo /\ todo' = todo \ {t}
  /\ InImage(rows, cols, t) => failed \cap DeviceArrays = {}
  /\ LET o == GreyOffset(rows, cols, t)
         stored == IF o \in Elements THEN d_grey_image[o] + 1 ELSE 1
     IN  d_grey_image' = IF InImage(rows, cols, t)
                           THEN [e \in DOMAIN d_grey_image \cup {o} |->
                                   IF e = o THEN stored ELSE d_grey_image[e]]
                           ELSE d_grey_image
  /\ UNCHANGED <<rows, cols, pc, failed, h_grey_image>>

(* What a thread has stored is a pixel if it could read one, and the rest  *)
(* is black if it was set so.                                              *)
DeviceValue(o) ==
  IF d_grey_image[o] > 0
    THEN IF "copy to device" \in failed THEN "garbage" ELSE "pixel"
    ELSE IF "cudaMemset" \in failed THEN "garbage" ELSE "black"

(* cudaMemcpy back to the host waits for the kernel. *)
BugNoWait ==
  /\ pc = "copy" /\ pc' = "output"
  /\ h_grey_image' = [o \in DOMAIN h_grey_image |-> DeviceValue(o)]
  /\ UNCHANGED <<rows, cols, failed, todo, d_grey_image>>

CopyBack ==
  /\ pc = "copy" /\ todo = {} /\ pc' = "output"
  /\ \/ /\ failed \cap {"kernel", "d_grey_image", "h_grey_image"} = {}
        /\ h_grey_image' = [o \in DOMAIN h_grey_image |-> DeviceValue(o)]
        /\ UNCHANGED failed
     \/ failed' = failed \cup {"copy to host"} /\ UNCHANGED h_grey_image
  /\ UNCHANGED <<rows, cols, todo, d_grey_image>>

(* outputImage, after a line in the file of timings.  Without that file,   *)
(* without h_grey_image or without pixels the program is ended; imwrite    *)
(* may fail too, which is ignored.                                         *)
OutputImage ==
  /\ pc = "output"
  /\ \/ pc' = "no image"
     \/ pc' = "done" /\ rows > 0 /\ failed \cap {"fopen", "h_grey_image"} = {}
  /\ UNCHANGED <<rows, cols, failed, todo, d_grey_image, h_grey_image>>

Next ==
  \/ LoadImageFile \/ Prepare \/ Launch \/ CopyBack \/ OutputImage
  \/ \E t \in todo : colorConvertToGrey(t) \/ IllegalAddress(t)

Spec == Init /\ [][Next]_vars

-----------------------------------------------------------------------------
(* No two threads store to the same element: their order does not matter.  *)
NoRace == \A o \in Elements : d_grey_image[o] <= 1

(* The part of a dimension that is covered by whole blocks. *)
Covered(n) == Block * (n \div Block)

(* In the image that is written only pixels of whole blocks are converted, *)
(* and all of them unless a call has failed; the rest, up to Block - 1     *)
(* rows below and columns to the right, is black.  Uninitialised memory is *)
(* written only if one of three calls has failed, unnoticed: the copy back *)
(* to the host, or one of those that should have filled the device's       *)
(* arrays.                                                                 *)
WholeBlocksConverted ==
  pc = "done" =>
    \A r \in 0 .. rows - 1, c \in 0 .. cols - 1 :
      LET value == h_grey_image[r * cols + c]
          whole == r < Covered(rows) /\ c < Covered(cols)
      IN  /\ value = "pixel" => whole
          /\ whole /\ failed = {} => value = "pixel"
          /\ ~whole => (value = "black" <=> failed \cap {"cudaMemset", "copy to host"} = {})
          /\ value = "garbage" =>
               failed \cap {"cudaMemset", "copy to device", "copy to host"} # {}

(* What the comment at the kernel says of it, and what the ceil of the     *)
(* grid's size is for: the image is converted, with all its pixels.        *)
GreyScaleImage ==
  pc = "done" /\ failed = {} => \A o \in Elements : h_grey_image[o] = "pixel"
=============================================================================
