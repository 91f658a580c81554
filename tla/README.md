# SecureFUSEStream in TLA+

A verification project for SecureFUSEStream: a FUSE file system that hands each
BMP image stored in it to a trusted application, which converts it to grey scale,
hashes and signs it, and keeps it in secure storage. The modules model the code
under `src/`; the configurations check them with TLC on small instances; the
proofs are checked with TLAPS for every value of the constants.

## The system

| Component | State it keeps | Operations | What makes it correct |
|---|---|---|---|
| FUSE daemon (`src/fuse/src/passthrough.rs`, on fuse_mt) | open descriptors, inode table, queue of the thread pool, list of processed files | create, open, read, write, flush, release, unlink, rename, and pass-through calls without state | every file is processed once; every descriptor is closed once; no call hangs |
| job thread and `video_tee` (`src/videoTEE/host/main.c`) | the image, one session with the trusted application | load, open session, invoke, close, exit | success is reported only for what was stored and signed |
| trusted application (`src/videoTEE/ta/video_tee_ta.c`) | session (operation and key handles, result), heap | one command: convert, hash, sign, store | the stored image, the digest, the signature and the reply agree; nothing is freed twice |
| secure storage example (`src/secure_storage`) | persistent objects | WRITE_RAW, READ_RAW, DELETE; a program that uses them | reads return what was written; failed calls leave nothing behind |
| BMP library (`src/videoTEE/lib`) | an image in memory, a position in a file | read and write header, rows, padding | a file that was written is read back; what could not be read is not taken for an image |
| CUDA converter (`src/processing/cuda`) | three arrays | copy, one thread per pixel, copy back | no two threads store to one element; the image that is written is the converted one, also when a call fails |
| frame extraction (`src/processing/c`) | demuxer, decoder, one packet | setup, then read, send, receive, release | every frame has its line, every packet is released; where the code misses that, by how much |
| scripts and plots | none | drive the programs above | not modelled |

How they interact: a process that closes a file in the mount makes the kernel send a
flush, which close() waits for, and later a release, which nobody waits for. fuse_mt
handles most requests on its session thread, but puts read, write, flush, fsync and
release into the queue of a thread pool, to which `main.rs` gives one thread. The
release hook decides on that thread whether to start `video_tee`. The program it
starts opens the file *through the same mount*, so its reads and its close are served
by the same thread, and its own release runs the hook again. Several programs may run
at once; the trusted application has a single instance and accepts one session, so all
but one are refused. The storage is shared by all of them and survives crashes.

What is hard to test: the order of releases and other requests, the window between
lookup and insertion in the list, the pool thread serving the reader it has itself
caused, panics of pool threads, failures in the middle of the command, a crash between
creating and writing an object, what earlier runs leave in the storage, a seek and a
transfer on a shared descriptor, a file that is loaded while it is written, the order of
the threads of a kernel, library calls that fail unnoticed, and a decoder that gives no
frame, or several, when it is asked for one. The list
`hazards` of `PROJECT.json` names each at its line.

## The modules

**`Passthrough`** models the daemon on one mount. Processes are the applications and
the `video_tee` programs; each holds at most one handle. `Create`, `Open`, `Unlink` and
`Rename` are steps of the session thread. `RequestIO`, `Close`, `Dispatch` put a
request into `queue` with the path the inode has at that moment (`lastPath` is
fuse_mt's inode table: rename changes it, unlink does not). `Take` gives a request
to the pool thread, whose steps are those of the `release` function: `PathPanic`
(line 274), `Check` (277-279), `Add` (281), `Spawn`/`SpawnPanic` (290), `CloseFd`
(325); other requests are one step, `Answer`. `check_is_processed` and
`add_processed_file` are separate steps because each takes the lock of the list on its
own. `JobOpen`, `JobNotStarted`, `JobOutcome` and the I/O actions are the life of a
program and of the thread that waits for it. `leaked` is a history variable: it records
the descriptors that were lost in a panic or a failed create, so that `FdOwnership` can
say that no other descriptor is. Data are left out. The job opens the path by name, when
it gets to it, as the code does.

**`ProcessOnce`** is what the hook promises, without list, queue or threads: each file
goes from fresh through claimed and running to done or abandoned, once.
`Passthrough` implements it under the mapping `PhaseOf`.

**`PassthroughIO`** is the data path, on one file: `read`, `write`, `flush` and `fsync`
are a `Seek` and a `Transfer` by a pool thread, on a position that belongs to the
descriptor and is shared by all who use it; `truncate` does not go through the pool.
A write may be short, a read is short only at the end of the file, either system call
may fail, and `Filled` is the
`set_len(n)` of the code: what was read, not what was asked for. A process writes its own
name, so that whose data lies where can be told.

**`PositionalIO`** is what those calls promise: each acts at one moment, at the offset
the caller gave. It has no position, queue or thread. `PassthroughIO` implements it.

**`VideoTEE`** models hosts and the trusted application with one action per call of the
TEE API that can fail, in the order of `inc_and_sign`. Where the code returns on an
error the action has the disjunct that returns; where it only logs (`sign_digest`) the
disjunct goes on. `Hash` is the digest of the first four bytes, which is what line 290
passes to the hash. `Panic` and `PowerLoss` can happen between any two calls; `store`
survives them. Creating an object with the overwrite flag first replaces it by an empty
one. The result of CloseAndDelete is ignored by the code, so `DeleteObject` may leave
the object; `torn` records this, and crashes, for `NoTornObject`. Freeing a freed
operation when the session is closed is undefined; whatever it does ends with the
instance, which goes away with its only session, so `CloseSession` has one outcome, and
`HandleTracksOperation` states the problem itself.

**`TeeService`** is what the application promises its hosts: one session, an outcome for
each host, and the session free again before another host gets it. `VideoTEE` implements
it; the host's outcome is read off its program counter (`Outcome`).

**`SecureFUSEStream`** composes `Passthrough` with `TeeService`. A `video_tee` program
opens its file through the mount, asks for the session, is told an outcome, closes the
file, which waits for the pool thread, and only then closes the session, as `main` does
and as `exit` does on an error. `GoBlind` is the program that goes on although `fopen`
gave NULL. The job of `Passthrough` succeeds exactly when the outcome is success.

**`LoadImage`** models an image on its way into `video_tee`, together with the process
that writes the file: `bmp_img_write` through a stdio buffer that is written in any
pieces, `bmp_img_read` row by row, then `GetSize`, the allocation and `LoadRegion`, which
follow whatever the read returned. Cells of the file are named by their place in the
image, so that a row in the wrong place, a byte of padding or uninitialised memory can be
told from what should be there. Reading one row is one step.

**`ExtractFrames`** models `extract_frames.c` and `video.c`, which differ in the file they
write. FFmpeg is a demuxer that ends somewhere and a decoder that promises what its
interface does and no more: a packet gives it any number of frames up to `MaxFrames`, it may
refuse any packet, and when it is asked for a frame it may have none to give, also for a
packet that never gives one. The history variables `frames`, `accepted`, `rejected`,
`starved` and `leaked` count what has happened, so that the properties can say what is lost.
The two `Exit`s with -1 leave everything to the end of the process.

**`GreyKernel`** models `main.cu`: loading, the calls up to the launch (`Prepare`), the
grid, its threads in any order, the launch that returns at once, the copy that waits, and
what is written. Any of those calls may fail, and `failed` records which have, since the
program looks at no result: it goes on with an array that was not allocated
(`IllegalAddress` stops the kernel), not set or not copied to, and with `h_grey_image` as
`malloc` gave it. The device's array counts the stores to each element.

**`Processing`** only puts the two side by side for a run: its `PSpec` is one
or the other.

**`SecureStorage`** models the example's commands and its program over any number of
runs. A run depends on what earlier runs left; the run after a crash must cope.

**`MCPassthrough`**, **`MCPassthroughIO`**, **`MCVideoTEE`** and **`MCLoadImage`** hold
the definitions that only model checking needs. A module whose name ends in `Proofs` holds
the proofs about the module it is named after, and nothing that the model needs; the
proofs about `ExtractFrames` are in **`ProcessingProofs`**. The inductive invariant of a
module is its `IInv`, next to the properties that follow from it, so that TLC checks it
too; where a property and the type invariant suffice, or little more, as in
`PassthroughIO` and `GreyKernel`, it is in the module of the proofs.

Definitions whose names begin with `Bug` are mutated forms of the definition that follows
them: plausible mistakes that the properties are shown to detect. They are part of no
specification.

## What the runs check

A run also checks the inductive invariant of its module, if that has one.

| Run | Instance | What it shows |
|---|---|---|
| `passthrough` | 2 applications, up to 2 programs, three names (one in .bmp, one not, one not UTF-8), 2 descriptors, 2 inodes; symmetry | `AtMostOneJobPerPath`, `FdOwnership`, and that every step is a step of `ProcessOnce` |
| `passthrough_live` | `SecureFUSEStream` with 1 application, 1 program, a BMP name and a non-UTF-8 name, 2 descriptors, 1 inode, no symmetry | every call returns, every claimed file is settled, every release is served, the session comes free; the composition satisfies `Passthrough` with its fairness |
| `passthrough_skipped` | 1 application | *violated*: a file is skipped as "already processed" although its program failed |
| `passthrough_finished_writing` | 2 applications | *violated*: the hook reports "Finished writing" and starts `video_tee` while another process has the file open for writing |
| `video_tee` | 2 hosts, 3 images of which 2 share their first pixels, 1 crash | success means stored, failed writes leave nothing, what each return path leaves in the heap, the session is always freed; every step is one of `TeeService` |
| `video_tee_unsigned` | the same | *violated*: success without a signature |
| `video_tee_handle` | the same | *violated*: the handle of a freed operation is kept and freed again |
| `secure_storage` | any number of runs, 2 crashes | what is read back is what was written, commands clean up, object 2 toggles |
| `passthrough_io` | 2 processes, 1 shared descriptor, offsets 0 and 1, 1 or 2 bytes; symmetry | a position is still where the thread has put it when the transfer begins; every step is one of `PositionalIO` |
| `load_image` | 3 images: 1 by 2 and 3 by 2 pixels, and 2 by 2 top-down, with 1, 3 and 2 bytes of padding; up to 2 writes | what is sent is what was written, or uninitialised memory after an error; a finished image arrives whole |
| `processing` | up to 5 packets of up to 2 frames, 2 streams; images up to 3 by 5 with blocks of 2 by 2, any set of failing calls | the lost frames and the leaked packets are those that the decoder's answers account for; no race, only whole blocks are converted, and memory that nobody has set is written only after a failed call |
| `grey_scale` | images up to 2 by 3 with blocks of 2 by 2 | *violated*: the grey-scale image has pixels that no thread has converted |

Bounds. Two descriptors are enough for two releases of one path to meet, for a program
to read while an application writes, and for a descriptor to be used again; the two runs
that are violated have three, so that two applications and a program hold a file at
once. The three names, and renaming between them, exercise every branch of the hook. One program per BMP name suffices
for the code as it is; the second is there so that a second job would be seen. For
`VideoTEE`, two hosts suffice: one to hold the session or to be interrupted, one to be
refused or to find what the other has left; one crash leaves every state a second one
could start from. `SecureStorage` is finite without a bound on the runs.

The live run has one program, so no second one takes the session from it; being refused
is part of it all the same, since `Refuse` is always possible, and so is the wait behind
the application's requests. The instance with two programs, two BMP names and one
descriptor was checked too, but takes four minutes. In `PassthroughIO`
two calls on one descriptor are what it takes to mix offsets, and an offset beyond the end
makes a hole. The dimensions of `LoadImage` are those with each amount of padding that a
row can have beside none, one of them with negative height; a second write covers
the file that is written anew under the reader. `MaxObject` is 2^7 - 1 for the 2^63 - 1 of
the code: it matters only that a negative product, as a `size_t`, is larger. A block of 2 for the 16 of the code
has images with no, one and two whole blocks and with a rest in each direction.
Five packets of no, one or two frames are enough for the decoder to fall behind, to be
late, to refuse and to catch up in one video.

Deadlock is not checked where the system may stop: applications need not do anything,
and when every descriptor has leaked nothing can be opened; every host of `VideoTEE`
runs once.

Fairness. The kernel sends every release, the pool thread keeps working, and the
programs and the trusted application make progress: all are running threads, and no
step of theirs waits for an application. An application may stop anywhere except inside
close(), once the flush is answered. In `VideoTEE` a host may never be started.
`SecureFUSEStream` assumes of a program only that it takes its next step, and of the
trusted application that its calls return; that the fairness of `Passthrough` follows is
the property `ImplementsPassthrough`. The other modules state no fairness.

## Findings

1. A file is listed as processed before its program has run, and a failure is never
   retried (`passthrough.rs:281`, run `passthrough_skipped`). With one session in the
   trusted application, files closed in quick succession are enough to cause it.
2. "Finished writing to file." (`passthrough.rs:268`) is reported for each handle, and
   `video_tee` is started at the release of one while another process has the file open
   for writing (run `passthrough_finished_writing`).
3. A failure to sign is only logged (`video_tee_ta.c:298`): the host succeeds with a
   zero signature, although the result is declared as "Signed digest".
4. The sign operation is freed in the command (`video_tee_ta.c:317`) and again when the
   session is closed.
5. The grid of `main.cu:91` has whole blocks only, since the integers are divided before
   `ceil` is applied: up to 15 rows below and columns to the right stay black, and of a
   smaller image nothing is converted (run `grey_scale`).

Read in the code and not run: the digest covers four bytes of the image
(`video_tee_ta.c:290`), where the comment says a hash of the image, and it is the identifier
under which the image is stored, so that an image replaces another with the same first
pixels (the model has it so, as `Hash`); the key pair is made anew for each invocation
(`video_tee_ta.c:132`), where comments speak of the hardware key; the header of the
secure storage example describes READ_RAW with the words of WRITE_RAW; `readdir` panics
when an entry goes away under it on a file system without entry types
(`passthrough.rs:220`); `WriteRegion` passes a path where a `FILE *` is expected, but is
never called.

Limits of the code that the properties state as they are:

- `load_img` ignores the result of `bmp_img_read` (`host/main.c:55`): a file that is cut
  off, or still being written, is sent with uninitialised memory in it
  (`SentAsWritten`). Nothing in the repository says otherwise.
- an image stored top-down is refused, since its size is negative (`WholeImageLoads`).
- the converter ignores every CUDA error: after a failed cudaMalloc, cudaMemset or copy it
  writes out memory that nobody has set (`WholeBlocksConverted` names the calls).
- one frame is received per packet and the decoder is not drained at the end: what a packet
  gives beyond one frame, and what comes late, is lost (`LostFramesAccounted`).
- `continue` passes by the release of a packet (`extract_frames.c:80` and `:85`): one leaks
  for each refusal and for each time the decoder had no frame to give, so that a long video
  can leak all of its packets (`LeaksAccounted`).
- the command forgets the image, and on some paths the digest operation or the identifier,
  until the session is closed (`LeaksPerInvocation`).

## What is proved

Every safety property that a passing run checks is also a theorem, for all values of the
constants, and so are the refinements without fairness. The assumptions are those that the
modules state of their constants: sets that are meant to be different kinds are disjoint,
null values are not values, `Hash` is a function from images to digests, sizes and bounds
are natural numbers, the dimensions of an image are not zero. The bounds are arbitrary
natural numbers in the proofs. Two results have a hypothesis of their own, `Positive` and
`SizesFit` (see below). A proof of invariance has one lemma per action, and a refinement
shows that the initial states map to initial states and each step to a step or a stutter.

`PassthroughProofs`, for any sets of processes, names, inodes and descriptors:

- `AtMostOneJobPerPath` is not inductive. It needs to know that a program's path is
  listed, that a thread about to add a path has not found it in the list, and that a
  thread about to spawn is the first for its path (`ListInv`). Those survive the steps of
  other threads only because there are none: `OneWorker` is where the proof uses
  `NumThreads = 1`, and with two threads TLC refutes the property. Type correctness in
  turn needs that a request waiting in the queue belongs to a process that still holds
  the handle and waits for that one answer (`HandleInv`, `CallInv`, `WorkerInv`).
- `FdOwnership` is inductive relative to `IInv`. The proof restates it without the set of
  owners (`FdInv`): a descriptor is open exactly when it has an owner, no kind of owner has
  it twice, and no two kinds have it at once. An action hands a descriptor from one owner
  to the next, or opens or closes it together with what its owner keeps.
- The refinement of `ProcessOnce`. A path is fresh until it is listed, claimed from there
  to the start of its program, running while a program has it as its target, and then done
  or abandoned. That each step moves one path by one phase needs that a path has at most
  one thread and one program, which are `ListInv` and `AtMostOneJobPerPath`.

`PassthroughIOProofs`, for any number of processes and descriptors and any offsets and
sizes: between a seek and its transfer nobody moves the position (`IOInv`); a reader is
given only what was in the file (`TypeOK`); the refinement of `PositionalIO`. `Seek` and
`Take` map to a stutter, `Transfer` to the call as a whole, and that this is right is
`IOInv`: the position is the offset of the call that is served. It survives a `Seek`
because the pool has one thread; with `NumThreads = 2` TLC refutes both.

`VideoTEEProofs`, for any hosts, images, digests and any hash:

- `SuccessMeansStored` is about a host that still has its session, after any failures,
  refusals and crashes of others before it; once the session is closed another host may
  replace the object of the same digest. What it and `NoTornObject` need is that the
  application serves exactly the host whose session it has (`SessionInv`), and what is known
  at each step of the command: the digest in `res` is the one of the image being served,
  the output has been copied, the object is complete before it is closed (`ResultInv`).
  Together these are `CoreInv`. A failing call is the same case in every action that has
  one, so `ReturningError` is proved once.
- `LeaksPerInvocation` says what is in the heap when the command has returned. It is not
  inductive: `HeapInv` says what has been allocated at each step of the command and which
  operation the handle of the session refers to, from which the close of the session frees
  it.
- The refinement of `TeeService`: every step of the command before the reply is a stutter
  (`GoingIsInternal`), the reply gives the outcome, a panic or a power failure gives a
  failure to the host that was served and frees the session.

`SecureStorageProofs`, for any number of runs and power failures. `ReadsBackWhatItWrote`
and `RunToggles` are about a run of five commands, so the invariant says what each command
has achieved when it returns (`AchievedInv`) and what the program knows of the storage
between commands (`MainInv`); `CommandsCleanUp` follows from `CommandInv`, which relates
the step of the command to its open object and the heap. An object that could not be
deleted stays, and `undeleted` makes the statements hold of later runs.

`LoadImageProofs`, for images of any width, height and orientation:

- `TypeOK`: `bmp_img_read` stores to no row but those that were allocated, although the
  file changes under it. It needs `RowIndex` to map the rows of the file to those of the
  image, which it does one to one, being its own inverse (`RowIndexInvolution`).
- `SentAsWritten` and `WholeImageLoads`. The file and the writer's buffer together are a
  prefix of the file that the image should become, cell by cell (`FileInv`); the loader is
  at the beginning of the row it reads, and a byte of a row is the written one, or
  uninitialised and then the row has not been read (`LoaderInv`, `PixelsInv`); a file that
  was finished has the length its header implies (`WholeInv`). That a row of the file and
  its padding are a digit of the position, and a pixel and its row one of the index in the
  region, is `Digits`, which needs that the next multiple is a whole step away
  (`NextMultiple`).
- `WholeImageLoads` is proved under `SizesFit`: the bytes of an image are not more than
  `malloc` can give. Without it a large image can be refused as well. `MCLoadImage` asserts it
  of its images. `OnlyTopDownFails` does the arithmetic of the `size_t`.

`GreyKernelProofs`, for images and blocks of any size (the hypothesis `Positive`): no
thread stores outside of the array, no two store to one element, and exactly the pixels in
whole blocks are converted. A thread is a pair of a block and a place in it. The argument
is that `blockIdx * blockDim + threadIdx` is a bijection between the threads and the
covered pixels, and `row * width + column` is one between pixels and elements: both are
the uniqueness of digits (`UniqueDigits`). The inductive invariant says that an element
has been stored to exactly when its thread is done, and of a kernel that was stopped that
the call is in `failed`; after the copy the host has what the device had, or the copy has
failed and it has what `malloc` gave it.

`ProcessingProofs` carries that over to the specification which the run checks, where
`Positive` is an assumption on the constants (`BlockAssumption`), and proves for videos of
any length and any number of streams, and a decoder that gives any number of frames for a
packet, which frames are lost and which packets leak. Neither is inductive. `PacketInv`
accounts for each packet that was read: accepted, refused or of another stream. `FrameInv`
says that a frame is in the decoder or has its line, and that an accepted packet got a line
or found no frame. `LeakInv` says that the packet in hand is not counted before it is left.

`SecureFUSEStreamProofs` proves that the whole, seen from the file system, is
`Passthrough`, and seen from the trusted application is `TeeService`; so `FdOwnership`,
`AtMostOneJobPerPath` and the refinement of `ProcessOnce` hold of the whole. Together with
`VideoTEE => TeeService` this is the chain from the release of a file to what is stored.

Only model-checked: the liveness properties (`EveryCallReturns`, `EveryClaimSettled`,
`EveryHandleReleased`, `SessionComesFree`, `SessionFreed`) and the fairness part of
`ImplementsPassthrough`, which are out of the prover's reach. Its safety part is the
theorem `WholeIsPassthrough`.

## Not modelled

- The operations of the daemon that pass one system call on and keep no state (getattr,
  readdir, chmod, mkdir, symlink, link, xattr, statfs).
- Restarts of the daemon: its list is not persisted, and each behaviour is one mount.
- Descriptors opened for appending, where the system ignores the position.
- `write_img`, `WriteRegion` and `CreateBMP`, which `video_tee` does not call; allocations
  of the host other than that of the image; short buffers in the secure storage example,
  whose program never passes one.
- The grey value of a pixel, the CUDA events (a failure of theirs only makes a wrong time),
  and the wording of the timing log and of the lines on frames. A device pointer that was
  never set is taken to fault when a thread uses it. The converter's `malloc` of the colour
  image, when it fails, ends the program.
- A shortage of memory in `load_img`: its `malloc` fails in `LoadImage` by the size that is
  asked for and not otherwise (the error path, `host/main.c:62-64`, is the same).
- What becomes of an image whose header could not be read: `SentAsWritten` excludes it,
  since with uninitialised dimensions there is nothing to compare the bytes with.
- Scripts and plots.

## Plan

The models and the runs are complete as described, and the safety properties are proved.
What could follow, in this order:

1. That `NumThreads = 1` is needed only where `OneWorker` is cited: the lemmas about the
   other actions for any number of threads.
2. More of the composition: which image a program sends, with `LoadImage` in the place of
   the reads that `Passthrough` leaves without data.
