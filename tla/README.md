# Verification of the aesdchar driver, the aesdsocket server and the example libraries

This directory holds TLA+ models of the programs of this repository that keep state or
run concurrently: the `aesdchar` character device (`aesd-char-driver/`), the scripts that
load and unload it, the `aesdsocket` server (`server/aesdsocket.c`) that stores its
clients' packets in that device, and the two libraries under `examples/` that create
processes and threads. TLC checks the models on small instances; TLAPS proves the
safety properties for every value of the constants.

## Inventory

| Component | State | Operations | What is hard | What makes it correct |
|---|---|---|---|---|
| Circular buffer, `aesd-circular-buffer.c` | `entry[10]`, `in_offs`, `out_offs`, `full`, four `uint32_t` counters, the file-static `tmp_entry` | `init`, `add_entry`, `raed`, the two searches, `get_bytes_to_ofs` | lines counted in three places; a search that counts from slot 0 and a copy that starts at `start_abs % N`; an eviction that adds the wrong size; a dangling pointer; counters that wrap; unchecked `kmalloc` | the last N lines are kept, pending bytes are not lost, reads return the right bytes, no index leaves the array |
| File operations, `main.c` | `f_pos` of each open file, the shared buffer | `open`, `release`, `read`, `write`, `llseek`, `unlocked_ioctl` | positions that outlive the window; two files on one buffer; a failed `copy_to_user` after the buffer was read; unchecked seek operands; the lock is commented out, so calls overlap inside the buffer code | a position selects the byte asked for; the reads of a file continue one another; overlapping calls do each other no harm |
| Module load and unload, `main.c`, `aesdchar_load`, `aesdchar_unload` | module state, device numbers, the device node, allocated blocks | `aesd_init_module`, `aesd_setup_cdev`, `aesd_cleanup_module`, the two scripts | error paths that leave something behind; scripts that run at the same time; open files | an open file has a device; the node leads to the loaded device; leaks are bounded |
| Server, `aesdsocket.c` | `quit_sig`, `mutex`, the accepted descriptor, one thread per connection and its `err`, the descriptor table | accept loop, `create_thread_and_run`, `proc_new_connection`, `write_to_out_file`, `parse_seek_command`, `sig_handler` | early returns with the mutex held or descriptors open; signals between a test and a blocking call; clients that vanish; a string without its terminator | packets stored whole, in order, answered only when stored and with the right bytes; every connection ends; a signal ends the server |
| Server timer, `aesdsocket.c` | POSIX timer | `write_prdc_to_file`, `write_time_to_file` | none: its call is commented out (line 57) | |
| `examples/systemcalls` | processes, one descriptor | `do_system`, `do_exec`, `do_exec_redirect` | a child that returns into its caller; a wait that fails; a descriptor never closed | the result says whether the command succeeded; every child is collected; a call returns, and once; its file is closed |
| `examples/threading` | `thread_data`, a mutex | `start_thread_obtaining_mutex`, `threadfunc` | several threads and the caller on one mutex | who is told true gets the lock and gives it back |
| `finder-app` | files | `finder.sh`, `writer.c`, `writer.sh` | none concurrent | counts, file content |
| scripts, CI, validation examples | none | | | |

The server talks to the device with system calls only (`open`, `write`, `ioctl`,
`read` of `/dev/aesdchar`). Clients talk to the server over TCP. The main thread and
a connection's thread share the mutex, the device and the descriptor table, and
`pthread_join` passes the result. The driver's callers share one buffer with no lock.
The shell scripts and the module share the kernel's list of device numbers and the node
`/dev/aesdchar`.

## Modules

| Module | Models | Notes |
|---|---|---|
| `AesdCircularBuffer` | `aesd-circular-buffer.c` | one call is one action |
| `LineHistory` | abstract: the N last lines and the unfinished one | implemented by `AesdCircularBuffer` |
| `AesdAllocFaults` | the same file when `kmalloc` fails | extends the buffer |
| `AesdCharDriver` | `main.c`, file operations | extends the buffer; one system call is one action |
| `AesdCharReads` | the driver with a history of what each open file was given | extends `AesdCharDriver` |
| `AesdCharRace` | `aesd_write` and `aesd_read` without the lock | one statement on shared memory is one action |
| `AesdModule` | `main.c`, load and unload; the two scripts | one script step or one step of the init function is one action |
| `AesdSocket` | `aesdsocket.c`, main thread, connection threads, signals | a step is what a thread does up to its next call that blocks, fails or is visible |
| `AesdSystem` | the server on the device | extends `AesdSocket`, instantiates `AesdCharDriver` |
| `SeekCommand` | `parse_seek_command` and the copy it is given | input bytes arrive one at a time |
| `SystemCalls`, `Threading` | `examples/systemcalls`, `examples/threading` | one system call or library call is one action |
| `AesdCircularBufferProofs`, `AesdAllocFaultsProofs`, `AesdCharDriverProofs`, `AesdCharRaceProofs`, `AesdModuleProofs`, `SystemCallsProofs` | theorems about the module each is named for | checked by TLAPS |
| `AesdSystemProofs` | theorems about `AesdSocket`, `AesdSystem` and `SeekCommand` | checked by TLAPS |
| `SharedLemmas` | lemmas about sums over sets, concatenations, ring slots and least elements | used by the proofs |
| `MC...` | instances for TLC | three put two models that share nothing into one run, a behaviour being one of either: `MCExamples` the two libraries, `MCDriverFailures` failed allocations and failed loads, `MCSystem` the server and a packet with its copy |

### `AesdCircularBuffer`

Variables have the names of the C fields. Bytes are abstracted to their number in the
stream of all bytes ever handed to `add_entry`, so a read shows exactly which bytes it
returned; memory nobody wrote is `Garbage`. `entry[i]` is the sequence of bytes of a
slot, `<<>>` for a slot never filled. `tmp_entry` records besides bytes and size whether
its block is live, freed or NULL, because `aesd_init_entry` frees without clearing the
pointer. `accepted` and `log` are history: they record what was written and committed,
and no guard or assignment of a code variable reads `log`; `accepted` only names the
bytes of the next chunk.

* `AddPartial`, `AddLine`: `aesd_circular_buffer_add_entry` for a chunk without and
  with a final newline. In `AddLine` the assignments happen in the code's order:
  `start_abs` is advanced before it is used to look up the size added to
  `start_char_abs` (`EvictedSize` is applied to `entry'` and `start_abs'`).
* `FindIndex`: the search of reads, with its array order (`PhysicalPrefix`), its end
  conditions (`SearchHits`, `SearchEnds`) and the value it returns past the last line.
* `FindEntry`: the search of the unit-test interface.
* `aesd_circular_buffer_raed`: the read; `RaedData`/`RaedResult` are what it returns,
  the action is what it does to `out_offs` and `full`. A negative remaining length
  compared as `size_t` copies from behind a line (`Copied`).
* Counters are taken modulo `U32` and offsets modulo 256. Line number 2^31 turns
  negative as an `int` and so leaves the array: what happens to `out_offs` then is
  chosen freely (`LeavesArray`).

### `AesdAllocFaults`

The results of `kmalloc` at lines 131 and 156 are not tested. A failure ends the calling
process at the `memset` or `memcpy` that follows, in the kernel, and every other process
goes on with the buffer as the call left it. `GrowFails` leaves the accumulator's size
with a NULL block; `StoreFails` leaves the line in the accumulator and the slot, whose old
block is already freed, without a block but with its old size. `lost` is the set of such
slots, `spoiled` (history) the bytes that went with a lost accumulator. A read that meets
a lost slot ends there (`ReadLost`); all others are the reads of `AesdCircularBuffer`.

### `AesdCharDriver`

`opened` and `f_pos` stand for the kernel's `struct file`s. A read moves the caller's
position only when it returns a count (the kernel passes a copy of the position and
discards it on error); `aesd_read_fault` is the read whose `copy_to_user` fails after
the buffer was read. `llseek` checks nothing. The seek ioctl with a command number
above N adds up memory behind the array: the position is chosen freely
(`aesd_unlocked_ioctl_beyond`). `MoveTo` keeps positions inside the bound `Positions`.

`AesdCharReads` adds `delivered[h]`, the last byte the reads of file `h` gave since its
position was set by `open`, `llseek` or the ioctl. It is written by the calls that return
data or set a position and read by none, so it restricts nothing.

### `AesdCharRace`

`mutex_lock` and `mutex_unlock` are commented out in `aesd_read` and `aesd_write`, so
calls interleave inside the buffer code. `write[w]` and `read[r]` are the calls, with
their local variables; each statement that touches the shared buffer is a step, in the
code's order (`After` for the second half of `add_entry`); `memset`, too, goes through the
shared pointer and is a step of its own (`ClearTmp`). `heap` holds the blocks, so
that a block freed or outgrown under another call is visible. Where the compiler may use
`start_abs` from a register or load it again, both are allowed (`Probe`). Touching memory
that is not one's own is undefined in C: the behaviour ends there, and `broken` says what
it was. `in_offs`, `out_offs` and `full` are left out; nothing but themselves reads them.

### `AesdModule`

The buffer is reduced to the blocks it owns: `lines` slots of `MaxLines` (the buffer's N), and
the accumulator's `tmp_block`. `AllocRegion`, `AllocBuffer`, `AddCdev` are
the parts of `aesd_init_module` and `aesd_setup_cdev`, each with its error path; `Rmmod` is
`aesd_cleanup_module`. `ReadMajor`, `RemoveOldNode` and `MakeNode` are the rest of
`aesdchar_load`: `awk` prints every region of that name, and `mknod` with more than one
major fails (`Operands`). Two scripts may run at once; `overlap` remembers that they did.
`Write` counts blocks: a chunk that continues a line leaves the block it replaces behind.

### `AesdSocket`

`main` is the main thread's place in the accept loop, `worker[k].pc` that of the thread
of connection `k` in `proc_new_connection` and `write_to_out_file`; `err`, `out` and the
range `from`..`to` of pieces in `buffer` are its local variables that decide what
happens. `fds[k]` holds the descriptors open on behalf of `k`: the socket, the temporary
file, `out_fd`, and the descriptor `write_to_out_file` opens into a local variable
(`"lent"`) and nobody closes. A signal that kills the process (`DieOfSignal`: the SIGPIPE
of a client that has gone, or the fault of the main thread on a NULL result) closes them
all. Clients, the kernel's connection queue, the descriptor
table and the outcome of library calls are the environment. `EnterAccept` separates the
test of `quit_sig` from the moment `accept` sleeps; a signal taken in between only
sets the flag. A signal goes to the main thread or to the thread of a connection; it
interrupts `accept` when no connection waits and the client's `read` when nothing has
arrived.

### `AesdSystem`

Every step of `AesdSocket` that touches the device is taken together with the step of
`AesdCharDriver` it stands for, and its outcome, free in `AesdSocket`, is the driver's:
`OpenDevice` (`aesd_open`), `UseDevice` (`aesd_write`, or the ioctl for a seek),
`ReadDevice` (`aesd_read` with `BUF_SIZE`), `CloseDevice` and the end of the process
(`aesd_release`). `Elsewhere` lists the others. A piece that a client sends is one byte and
the last piece of a packet is the newline. `reply` is what a thread read back, `target`
where its ioctl put the position.

### `SeekCommand`

`write_to_out_file` copies the packet to a block of exactly its size and parses it as a C
string. `packet` and `tail` (the memory behind the block up to its first NUL) range over
all sequences of an alphabet that tells apart what the parser does: the two halves of the
command word, so that a cut can divide it (`"AESD"`, `"CHAR"`), a comma, a line end, a blank,
and a digit, `"1"` in the packet and `"2"` behind it, so that an operand shows where its digits
came from. A half of the word out of its place stands for any other byte. `Number` is what `%u`
takes, leading white space and then digits; `Commas` are the ways the whole string matches.

### `SystemCalls` and `Threading`

Processes are explicit in `SystemCalls`: a child of `do_exec_redirect` whose `dup2` or
`execv` fails returns into its caller's program, and is from then on a second copy of it
(`Return` in `Redirect` and `Exec`). `kind` is the function a process is in, `born` the one
that forked it, `lost` remembers that the wait for the process failed, and `fds` counts
the output files it has open. `fork` fails by a fault, and when every process of `Process` is
in use. In `Threading` the mutex belongs to the calling program, which may take it
too. How long a sleep lasts is not modelled, only that it ends.

## Runs

| Run | Constants | What it shows |
|---|---|---|
| `buffer` | 3 slots, counters modulo 8, 11 bytes in chunks of 1 or 2, reads of 1 to 3 at every position | what the slots and the accumulator hold and how far the window's start is off, until a counter wraps; types and that the search stays inside the array, also after; the unit-test search is exact while `out_offs` is the oldest slot |
| `driver` | 2 slots, 2 files, 6 bytes, positions -1..7 | the device implements `LineHistory`; when reads are exact and when those of one file continue one another, also after a failed `copy_to_user`; when the seek ioctl works although the start position has drifted; a fresh open fails to read exactly once a line has been evicted |
| `driver_seekto` | as `driver` | disagreement, below |
| `race` | 1 writer, 1 reader, 2 slots, 5 bytes | a reader never harms the writer; until a slot is used again it reads exact bytes, or goes wrong in one place only, at the end of the text; later, a block is freed under it or its search leaves the array only when what it reads has been evicted |
| `race_writers` | 2 writers, no reader | disagreement, below |
| `driver_failures` | allocations: 2 slots, 6 bytes, 2 failures; loads: 2 scripts, 3 majors, 2 failures, 1 open file, 4 writes, 2 unloads | one retained line at most is lost, the oldest; later bytes stay in place; while it is lost it hides the lines behind it. An open file has its device; sequential scripts keep node and device together unless a load failed before, which is final; how many blocks are leaked |
| `server` | 3 connections with packets of 2 bytes or a seek, 4 descriptors, 1 failure, a device of 2 lines, reads of 2 bytes | what leaks and when the server stops unasked; which bytes each client is sent before and after the device forgets a line; where a cut packet ends up; for packets of up to 6 bytes and one byte behind them, that a seek keeps its own operands |
| `server_live` | 2 connections, 5 descriptors, 1 failure, fairness | packets reach the device in accept order and are answered only when carried out; every connection ends unless the lock leaked; a leaked lock stops the device for good; the server ends after a signal once its main thread is awake |
| `server_stop` | 2 connections, no failure, fairness | disagreement, below |
| `seek_text` | packets of up to 6 bytes, one byte behind them | disagreement, below |
| `examples` | 3 processes, 1 spare descriptor, 1 failure; 3 threads, the program takes the mutex up to twice; fairness | results, what becomes of each child, who returns and who may wait for long; who is told true gets the mutex and lets it go |
| `redirect_file` | as `examples` | disagreement, below |

Why the bounds are enough. In `buffer` up to 11 lines of one byte are written, so the ring
wraps three times and every counter once; with chunks of 2 lines of different sizes meet at
each eviction, which is what decides drift, search order and negative remainders; the
properties about contents hold up to the first wrap (`NoWrap`), that is for 7 bytes and up to
as many lines, one more than twice round the ring. Reads at every position up to one
past the last byte, with lengths that end inside a line, at its end and past it, reach every
branch of the copy loop. In the other runs `U32` is far above the byte bound. Two files
are enough for one to evict what the other is reading. In `race` five bytes let a slot be
used again while a read is under way; one writer is enough there because a second one
already breaks the accumulator (`race_writers`). Two failed allocations let one hit what
the other left; with 6 bytes the ring is full before and after. For loads two scripts are
enough to overlap in every order, and two failures for a second failure after a first. Three
connections are enough in `server` for a waiting one behind a failing one behind a served
one, to forget a line of a device of two, and to use up four descriptors, the listening
socket and three more. In `server_live` there is a descriptor for everything, so that a
thread can return with the mutex held and the next one reach it, and packets have one
piece. `Seeks` is one position, the second byte of the second line, which depending on what
is stored lies inside or behind the text. Six bytes of a packet hold the shortest
whole command (both halves of the word, a digit, the comma, a digit) and its line end, and one
byte behind them is enough to extend an operand or to spoil the match; the theorem
`SeeksKeepTheirOperands` has no bound. In `examples` a child that became a copy of the program
can fork again, and one spare descriptor is used up by one call. The last fork of a behaviour finds no
process left.

Connections in `server`, the files in `driver` and the scripts and majors in
`driver_failures` are symmetry sets; no liveness is checked there. Deadlock is not checked because every model really ends: the byte
bound is used up, the server has exited, the inputs are complete, or memory was touched
that is not the program's own.

Fairness. `SockFairness` is weak fairness of the main thread and of each connection's
thread, which the kernel's scheduler gives, and an assumption about clients: one that is
connected does not stay idle for ever, but sends, takes what is sent to it, or closes. The
fairness of a thread leaves out the `write` to a client that is connected (`AwaitsReader`): if the
client does not read, `write_all` can sleep there for ever (`aesdsocket.c:185`), as the thread can
in `read` while the client sends nothing. Without the assumption one such client holds the server
for ever, with the main thread in `pthread_join`; the code has no timeout.
No fairness is assumed of signals or of connections that are never made.
`SysFairness`: a process that is inside a library function goes on, and a command ends;
nothing is assumed of the calling program, which is why `do_exec`, whose children
never are the program, is shown to return, and `do_exec_redirect` unless its child is a copy
of the program. `ThrFairness`: threads go on, and the program
unlocks what it locked; weak fairness of `Lock` says nothing of the order in which
waiting threads get the mutex, and suffices because the program takes it a bounded number of
times (`MaxLocks`) and each thread once.

## Disagreements between the code and its documentation

Each of these is a run that ends in a counterexample.

* `driver_seekto`: after evictions of lines of different sizes `AESDCHAR_IOCSEEKTO` does
  not reach the write command it names (`aesd_ioctl.h:27`). `SeektoErrorsCancel` says
  when it still does.
* `race_writers`: two overlapping writes overrun or doubly free the accumulator they share;
  "any necessary locking must be handled by the caller" (`aesd-circular-buffer.c:112`), and
  the caller's lock is commented out. `RingQuiet` says what one writer may rely on.
* `server_stop`: SIGTERM between the test of `quit_sig` and `accept` leaves the server
  asleep. `TerminatesOnceAwake` says what holds.
* `seek_text`: the copy of a packet has no NUL, and a byte behind it can make a whole seek
  command be written to the device as text; `parse_seek_command` "returns 0 if not a match"
  (`aesdsocket.c:437`), and the disabled function after it terminated the string first (459).
  `SeekKeepsItsOperands` says what holds: a seek that is carried out has its own operands.
* `redirect_file`: `do_exec_redirect` returns with the output file open; it "will be closed at
  completion of the function call" (`systemcalls.c:101`).

Other behaviour that differs from what a reader of the comments expects is part of the
models, and the properties say what holds in spite of it:

* the search of reads counts sizes from array element 0 and not from the oldest line
  (`aesd-circular-buffer.c:26`, "if all buffer strings were concatenated end to end"):
  `ReadExactWhenAligned` gives the states in which that is no difference;
* the unit-test search starts at `out_offs`, which writes do not move (line 110 says they
  do): `FindEntryExactFromOldest` holds while reads have left it at the oldest slot;
* `start_char_abs` grows by the size of the wrong line: `StartCharDrift` gives the error
  exactly;
* a read beside a writer may use an offset that was never set or, once a slot is used
  again, a block that was freed: `ReadsBesideWriter`, `EarlyFaultsAtEnd` and
  `LateFaultsFromEviction`;
* once the device has forgotten a line, text is stored but never answered
  (`TextIsAnsweredUntilForgotten`), and a packet whose newline came too late becomes the
  beginning of another client's line (`CutPacketsJoinTheNextLine`);
* `do_exec_redirect` returns true whatever the command's exit status is, and may return in the
  child, too: `ResultTellsSuccess` and `ExecReturnsOnce` hold of the other functions.
  `EveryChildAccountedFor` says when such a copy runs beside its caller, and `ExecReturns` that
  nothing else makes a call last.

## Theorems

Each theorem holds for every value of the constants that its module's `ASSUME`s allow:

* `BufferAssumption`: N between 1 and 255, the counters' modulus above 2N + 1, positive
  bounds. `OopsAssumption`: any number of failures, and fewer than half of the counters'
  modulus of bytes (line numbers are `int`s in a read). `DriverAssumption`: position 0 is a position, fewer than 2^31 bytes.
* `RaceAssumption`, `CountersFit`: N between 1 and 255, no process both reads and writes,
  and fewer bytes than make a counter wrap or a line number negative.
* `ModuleAssumption`: `MaxLines` is positive and the bounds are numbers. Scripts and majors are any sets.
* `SocketAssumption`: finitely many connections, a queue and packets of at least one
  element, at least two descriptors. `SystemAssumption` of `AesdSystem`: those of the
  driver for the server's device, read buffers of at least one byte.
* `SystemAssumption` of `SystemCalls`: the root is a process.
* `SeekAssumption`: the bounds are numbers.

### Sums and concatenations

What a search returns is a sum of line sizes, what a read returns is a concatenation of
lines, so proofs about them need induction over the number of lines. The induction
theorems of the library take a predicate as a parameter; `SharedLemmas` states
induction over the *set* of the numbers a predicate holds of (`NatSetInduction`, from the
well-foundedness of `<`) and derives from it what the community modules' folds compute
whatever order they choose: how a sum changes with one summand, that it is bounded and
monotonic, and where the bytes of a concatenation are. Two numbers less than N apart have
different slots (`SlotInjective`), and a set of naturals has a least element (`MinNat`).

### The buffer, `AesdCircularBufferProofs`

| Theorem | Statement |
|---|---|
| `TypeCorrect`, `PendingAlwaysIntact`, `RingAlwaysHoldsRecentLines`, `StartCharDriftExact` | `Spec => []TypeOK`, `[]PendingIntact`, `[]RingHoldsRecentLines`, `[]StartCharDrift` |
| `BufferImplementsHistory` | if fewer than `U32` bytes are written, `Spec => ImplementsHistory`: the refinement of `LineHistory` |
| `SearchAlwaysInArray` | `Spec => []SearchStaysInArray` |
| `WholeReadAlwaysExact`, `ReadsExactWhenAligned` | `Spec => []WholeReadExact`, `[]ReadExactWhenAligned` |
| `FindAlwaysExactFromOldest` | `Spec => []FindEntryExactFromOldest` |

The properties are not inductive one by one. The invariant `IInv` adds three facts:
`TmpSized` (a live accumulator has as many bytes as its size says, and a freed one has
size 0), without which `Carried` is not the pending bytes; `LogPartitions` (the committed
lines partition the stream: each begins where the one before ends and is not empty),
which bounds the number of lines by the number of bytes, so that `NoWrap` excludes a
wrap of every counter; and `StartAtZero` (the window starts at 0 until the first
eviction). `StartCharDrift` needs `RingHoldsRecentLines` of the step's start, to know
whose size `EvictedSize` reads. The proof has one lemma per action and one step per
conjunct; reads change only `out_offs` and `full`, and need only the type part.

*Refinement.* While no counter wraps each step maps to a step of `LineHistory`: a chunk
without a newline extends `PartialLine`, one with a newline appends a line to
`RetainedLines` and drops the first when there are N; a read is a stutter.

*The search* stays in the array after a wrap too, when `NoWrap` gives nothing. `WindowWidth`
carries it: modulo `U32`, `w_abs` is at most N lines ahead of `start_abs`, and not
0 ahead once a line has been evicted, so the end condition of the loop holds at
the last slot at the latest.

*Reads* need `UnusedEmpty` (before the ring has filled, the slots from `w_abs` on are
empty) and follow the copy loop. The lines from the oldest on, read as a sequence,
flatten to the retained bytes of the stream (`LogPartitions`); the window and the length
select from it a run of whole lines with a cut first and a cut last one; a cut of a
concatenation is an interval of the stream. When a search counts in array order the
sums of the two orders agree in exactly the cases `ReadExactWhenAligned` names: `Slot(start_abs)
= 0`, or all lines of one size.

### Failed allocations, `AesdAllocFaultsProofs`

`OnlyOldestIsLost`, `LaterBytesStayInPlace` and `LostLineHides`, from `OopsInvariant`. The
buffer's own invariant is false here: after `GrowFails` the accumulator is not the
pending bytes. The argument is a comparison. `IntactEntry` and `IntactTmp` are the slots
and the accumulator that would have been, read off the log; `Intact` instantiates the
proofs of the buffer with them, and `OopsInv` says that `Intact!IInv` holds and that the real
slots and the real accumulator have the sizes of the intact ones and, at every place, the
intact byte or zero (`SameButLost`).

* A call of `add_entry` on the real buffer is the same call on the intact one
  (`PartialKeeps`, `LineKeeps`), since the code looks only at sizes and counters:
  `EvictedSize` is a size. So `Intact!IInv` is preserved by the buffer's own lemmas.
* A lost accumulator leaves the intact buffer alone. It spoils bytes behind the
  last committed one, and no retained line has any of those (`RetainedBelow`).
* A slot loses its block only if it had one, which for the slot of the next line means
  that the ring is full and the slot is the oldest line's (`OnlyFullLoses`,
  `FullTakesOldest`); the next line stored refills it.
* What is proved of the cuts between lines and of the window's start holds of the
  intact buffer (`IntactReads`), and the search depends on sizes alone, so a read from the
  window's start begins at the oldest line (`StartsAtOldest`) and meets all of them in order
  (`LinesTogether`).

### The device, `AesdCharDriverProofs`

* `DriverUsesBuffer`, a lemma: `DevSpec => Spec`. Every system call is written as a buffer
  action or leaves the buffer alone, so the theorems above hold of the device,
  `DriverImplementsHistory` among them;
* `DevTypeCorrect`: `DevSpec => []DevTypeOK`, by way of `DevInv`;
* `FreshReadFails`: until a counter wraps a file just opened is unreadable exactly when
  a line has been evicted. It rests on `StartCharDrift` and `RingHoldsRecentLines`;
* `SeektoErrorsAlwaysCancel`: the ioctl's sum over `entry[0]`, ..., `entry[cmd - 1]` and the
  search of the read stop at the same slot `cmd`, and the copy loop takes that number
  as a distance from the oldest line, which is what the caller meant;
* `ReadsAlwaysContinue`: `ReadsSpec => []ReadsContinue`. The property says where the next read
  begins, the invariant `ReadsInv` that the position of a file is the byte it was given last
  (`Continues`). That this survives a read rests on reads being exact (`ReadExactWhenAligned`), and
  that it survives everything else on positions being those of the stream as long as no lines of
  different sizes are evicted (`SteadyStart`); a history that has lines of two sizes never
  becomes one of a single size again (`SteadyBefore`).

### Calls that overlap, `AesdCharRaceProofs`

The theorems are about one writer and any number of readers, none of which takes the lock
(`ASSUME NEW w \in Writer, Writer = {w}`); that a second writer is too many is the run
`race_writers`. There is no call to take as a step here, so the invariant `RaceInv` says what
holds at every statement:

* `Cuts`: the committed lines cut the stream, and the call under way has added its chunk to
  the end of it;
* `Counters`: how far each counter is, by the place of the writer. The sets of places
  `Growing`, `Whole`, `Taking`, `Stored`, `Moved`, `Counted` follow the order of the
  assignments in `add_entry`, so each counter is a number of lines plus 0 or 1;
* `Ring`: the slots hold the last lines in live blocks, but for the slot that has been taken
  and not yet filled;
* `Accumulator`: what `tmp_entry` and its old block hold while the new one is allocated,
  filled and exchanged;
* `Owners`: no block has two owners. It counts dangling pointers too: `add_entry` frees the
  accumulator and leaves its pointer, and the block of the next line must not be that one.

| Theorem | Statement |
|---|---|
| `RaceInvariant` | `RaceSpec => []RaceInv(w)` |
| `RingAlwaysQuiet` | `RaceSpec => []RingQuiet` |
| `OneWriterIsSafe` | `RaceSpec => []WritersKeepApart`: what the second writer breaks |
| `ReadsExactBesideWriter` | `RaceSpec => []ReadsBesideWriter` |
| `FaultsOnlyAtEnd` | `RaceSpec => []EarlyFaultsAtEnd` |
| `LateFaultsAreEvictions` | `RaceSpec => []LateFaultsFromEviction` |

*Readers never harm the writer*: they write no shared memory that the writer reads, and the
first five conjuncts are preserved by a reader's step because it leaves all their variables
alone. What has to be proved of them is the converse, and only while no slot has been
taken a second time (`FirstRound`): then `start_abs` and `start_char_abs` are 0, lines are
added and never replaced, and what a reader has found stays true under every statement of
the writer (`SharedKept`, `ReaderStepKeeps`). `Searching`, `Found` and `Copying` are the
three stretches of `aesd_circular_buffer_raed`: so many lines are behind the position;
the position is so far into line i; the bytes copied are those from the position on. `Found` has
one gap, and it is the code's: when the position is at the end of the text the search may end
without having set the offset, and the copy that uses it is the one fault `Faults` admits in
the first round. A read whose position is before the end of the text when it starts is outside
that gap, however many lines are added while it runs.

*Once slots are used again* a read keeps less, and `LateInv` says what: the line it is at is one
that had been stored, and the pointer it has loaded is that of its slot for as long as the writer
has not come round to it (`LateRead`, `NotOvertaken`). The writer takes the slots in turn,
so it frees the block under a read only after N more lines have begun (`LateCopy`); and a probe
starts at `base` and only goes up, so its index is below the array only when `start_abs` has passed
`base` (`LateProbe`).

### Loading and unloading, `AesdModuleProofs`

`OpenFilesKeepDevice`, `LeaksBounded`, `NodeLeadsToDevice` and the action property
`FailedLoadsAreFinal`. The invariant `ModInv` relates the module to the place of the
shell that loads it: `Ownership` (one shell at most is inside `aesd_init_module`, and
its place says what the module owns) and `Alone` (while no two scripts have overlapped, a
shell's place says whether the node exists, which majors `awk` has printed and whether
the module is live). `NodeMatchesDevice` speaks of idle shells only; `Alone` is what it
becomes in between.

### The server, `AesdSystemProofs`

`SockTypeCorrect`, `DeviceOrderCorrect`, `AnswersCorrect`, `LeaksCorrect`,
`UnaskedStopCorrect` and the action property `LeakedLockCorrect`, from `SockInv`
(`SockInvariant`):

* `Arrivals`: a connection is queued or accepted once, and `cur` is the one accepted last;
* `OneThread`: only the thread of `cur` is under way, because the main thread joins it;
* `WrittenOnce`, `DeviceOrder`: a packet on the device belongs to a thread past its write,
  and accept order is device order. A new packet is that of `cur`, so it is last in both;
* `DidBeforeAnswer`: a thread that reads back has carried out its packet;
* `LockHeld`: from `Lock` to `Unlock` the thread owns the mutex; so a mutex whose owner is
  done is not owned by a thread that could write or release it;
* `FdsByPlace`: which descriptors are open for a connection, by its thread's place, while
  the process runs.

`UnaskedStopCorrect` counts. While nothing but clients failed (`Faultless`), a connection
that went well has nothing open and one that failed has one descriptor, so `OpenFds`, a sum
over connections, is at most 1 plus the failed ones, and `accept` is out of descriptors
only when it reaches `MaxFd`.

### The server on the device, `AesdSystemProofs`

* `SystemImplementsServer` (`SystemSpec => SockSpec`) carries over what is proved of the
  server: `SystemLeaksCorrect`, `SystemStopsForDescriptors`;
* `SystemKeepsRing` and `SystemImplementsHistory` do the same for the driver. They rest on
  `SystemInv`, in which a connection has a file of the driver exactly while it has
  the descriptor (`FilesAreDescriptors`), and so on `SystemUsesOpenFiles`: the server
  never uses a file the driver does not have open;
* `CutPacketsCorrect`: the bytes accepted and those committed are the sums of the sizes of
  the packets on the device, up to the last packet and up to the last that ended a line
  (`CutInv`);
* `SystemTypeCorrect`, `TextAnswersCorrect`, `SeekAnswersCorrect`: `ReplyInv` says for each
  place of a thread what its reply is so far. While it is answered (`Answering`) the
  position is where its reading began plus what it has read, and the reply is that
  interval of the stream (`Progress`); the reads that follow each other are exact because
  nothing is evicted yet (`ReadExactWhenAligned` with `start_abs = 0`), and nobody else
  moves the text because the other threads are done (`OneThread`). After an eviction position
  0 is before the window and the first read fails (`Refusal`, from `FreshReadFails`).

### The seek command, `AesdSystemProofs`

`SeeksKeepTheirOperands`: `SeekSpec => []SeekKeepsItsOperands`, for packets, and memory behind
their copies, of any length. The invariant says only that both are bytes; the property
follows in every such state. A number has no comma in it and nothing but digits behind its first
digit (`NumberBytes`), so a string that matches has one comma and ends in a digit
(`CommaBytes`). Line ends behind the packet are trimmed together with its own
(`BlankTailIsTrimmed`). Anything else behind it leaves the packet's line end inside the string,
behind the digits of the second number, and then nothing matches (`TextBehindSpoils`). A packet
that comes to match through what is behind it has given the string its first byte
(`SeekBeginsAsOne`).

### The examples, `SystemCallsProofs`

`ResultIsSuccess`, `ExecReturnsToCaller`, `ChildrenAccountedFor`. `SysInv` says of each process
what its record implies about its past (`History`), that only children of `do_exec_redirect`
reach the calling program (`Returned`), that a call of `do_exec_redirect` has its descriptor from its
open on (`Kept`), and that a process waits for a child of its own (`WaitsForOwn`); with these
`Accounted` is inductive.

### Only model-checked

* The liveness properties `ConnectionEnds`, `TerminatesOnceAwake`, `ExecReturns` and
  `TrueMeansSuccess`: the prover does not handle fairness and ENABLED.
* The five disagreements: each run ends in a counterexample.

Every other property of a passing run is a theorem.

## Not modelled, and why

* Logging, and the `%s` debug prints of the driver, which read lines that have no NUL.
* Calls of length 0: on that input the code reads before a buffer or through a zero-size
  allocation (`main.c:152`, `aesd-circular-buffer.c:146` and `:224`), and the outcome is not
  a state of the buffer.
* `aesd_circular_buffer_free`, which nothing calls, and a kernel that panics on an oops,
  which has no state after a failed allocation.
* `llseek` and the ioctl overlapping other calls (`AesdCharRace` interleaves reads and
  writes), and failures of the driver's own bounce buffers inside `AesdSystem`, which
  `AesdSocket` covers as failed writes and reads. Seeks with a command above N are in
  `AesdCharDriver`, not in `AesdSystem`.
* Bytes that `trim_crlf` may overwrite behind the copy of a packet, white space other than
  blanks, tabs and line ends, and a sign before the
  digits of a seek command, which `%u` takes.
* The timer, which is never started; socket set-up before `listen`, whose failures end the
  program before anything happens.
* `chgrp`, `chmod` and the Makefile of the driver; the init script beyond its SIGTERM.
* Durations in `examples/threading`, with the `int` overflow of the microseconds from
  2147484 ms on.
* The finder utilities, one-shot passes over files without state of their own; build, test
  and CI scripts; the validation examples, which compare constants.
