# Verification of linux-multiarch-asm

TLA+ models of the programs of this repository in which processes, threads,
pipes, files and connections meet, and of its C++ libraries (containers, noise);
the TLC runs that check them, and TLAPS proofs about all of the process programs, the
containers and the noise libraries.

Most of the repository is assembly programs for Linux, x86-64 NASM under
`src/archive`: examples, snippets and projects of 50 to 350 lines each, built and run
one by one. There is no common program; what they share is the layer of system call
macros and a few habits, one of which matters everywhere: several of them jump on the
processor's flags right after `syscall`, which leaves the flags as they were. The models
take the jumps the machine takes, not those the comments mention. Its largest
programs by far are C++, under `src/archive/todo`: the container classes of a collection of
optimization examples, and two libraries that compute noise for graphics, one of which is
written once for the vector instructions of five processors.

All paths below are relative to `src/archive/examples` unless they start with `src/`;
the C++ files are named without their directories, `src/archive/todo/optimization-examples/cppexamples`
and `src/archive/todo/fastnoise`.

## 1. Inventory

### Programs of several processes, modelled

| Component | State | Operations | What is hard | What makes it correct |
|---|---|---|---|---|
| **PipeDemo6** `ipc/PipeDemo6` | two pipes and who holds their four ends; each process's next call; the child's place in the message; the parent's one-byte buffer; the screen | pipe, fork, close, write and read byte by byte, the hand-back byte, wait4, exit | two processes and two blocking pipes; a descriptor kept open hangs a reader; refused pipe or fork; a process killed at any point, SIGPIPE | no byte lost, repeated or reordered; the child ends after the parent has finished; nobody hangs; no unreaped child |
| **Threads** `ipc/Threads` | a shared counter, each thread's place, lines printed | mmap of a stack, clone, `lock xadd`, write, exit of a thread | three threads decide on one counter; nobody joins anybody; refused mmap or clone | exactly MAX_LINES lines, in every interleaving; all threads end |
| **HTTPServer** `networking/HTTPServer` | listening socket and queue, the accepted connection (r12), the server's open connections, worker processes from fork to wait4, clients, TIME_WAIT | socket, bind (retried), listen, accept, two non-blocking waits, fork, close; in a worker read, write, close, exit | concurrent workers, full process table, clients that leave, kills with orphaned workers that keep the port, restarts | a connection is served once and always ends; none is kept; zombies do not pile up; the server comes back |
| **PipeDemo2**, **PipeDemo3**, **PipeDemo5** `ipc/PipeDemo*` | one pipe, two processes, buffers, screen | pipe, fork, write of whole messages, read of what is there, wait4 | how much one read returns; ends that are not closed; jumps never taken; refused calls, kills | what appears is the message in order; the processes end |
| **ForkDemo** `ipc/ForkDemo` | three processes, their loop counters, a terminal line each | fork, write, sleep, wait4 twice | order of the ends of two children; a refused second fork; kills | "all childs are done" is true when said; all end |
| **ExtXTerm** `ipc/ExtXTerm` | the file under a fixed name, program, xterm and its shell | mknod, fork, execve, open, read, close, unlink, redirect | program and shell share a FIFO by name; a killed or failed run leaves its file and its shell to the next | messages appear in the terminal of their own run; the file is removed |

PipeDemo2, 3, 5, ForkDemo and ExtXTerm are composed in one module (section 2). The programs
do not call each other; within a program the processes interact through the
kernel only: pipes, the process table, the file system, the terminal, TCP.

### C++ libraries, modelled

| Component | State | Operations | What is hard | What makes it correct |
|---|---|---|---|---|
| **Containers** DynamicQueue, FIFOlist, FILOlist, SafeArray, DynamicArray, AlignedArray, MixedPool, SortedList | a block of memory, its size, indices and counts of what is in it | put, get, push, pop, index, reserve, search, remove, align | rings that wrap around and are replaced; an object passed by reference out of the block that is being replaced or moved; full, empty, out of range; memory that was never written | each is the collection its name says, in any order of calls; records stay in order |
| **String pools** StringPoolS, StringPoolW, StringPoolL | a buffer of texts, an offset for every index, the used part, the garbage, the last string | set, concatenate, substring, printf, read, set a character, clear, reserve | strings move whenever the buffer grows, are written in place, at the end or after all others; texts of the pool itself as arguments | every index reads the text it was last given |
| **FastNoise** `Noise/FastNoise.*` | settings, one of them computed from others; two tables shuffled by the seed | setters, noise of a point (value, Perlin, cubic, simplex, cellular, white; single or summed to fractals), warps of a point | floors of negative numbers, ties between distances, corners of simplices, indices of sorted distances | noise without seams, within its bounds, of the nearest points; what is computed from settings agrees with them |
| **FastNoiseSIMD** `FastNoiseSIMD/*` | the level of instructions, settings, a set of vectors, sets of noise | choice of a level, setters, making and filling of sets by blocks, by samples, from vectors | a lane goes over rows and planes that are shorter than a vector; masks in the place of branches; the same function for 1, 4, 8 and 16 lanes, with and without an instruction that rounds | every cell has the noise of its own place; all levels compute alike |

The containers are templates or classes for single-threaded use and do not call each other. FastNoiseSIMD
is a rewriting of FastNoise, and shares no code with it; the model lets both use the same
geometry (`NoiseGeometry`) only where their code is the same, and checks against each other what
they compute in different ways.

### Parts not modelled (yet)

`PROJECT.json` lists them with their sources and the reason for each.

| Component | State and operations | Where it could go wrong |
|---|---|---|
| PipeDemo1, PipeDemo4 | one process writes a pipe and reads it back | nothing interleaves |
| Program starters: Exeapp1-4, Notify, Zip, Unzip | fork, execve, wait4 of a fixed command | a failed execve, the order of output |
| SIGFPE | a signal handler that changes the interrupted context | resuming at the right instruction |
| HTTPSocket, SSLSocket | request and receive loop with a time-out | partial reads, a late answer |
| Terminal programs: keyfilter, waitforkeypress, ... | terminal mode saved, changed, restored | a mode that is not restored; order of save and change |
| readfile, palindrome, other file and text programs | size read first, bytes afterwards | the empty file, a file that changes |
| Conversions (`src/archive/snippets/convert`), dates, strings | registers | carries, digits, values at the boundary |
| Factorial, Fibonacci, MinMax, josephus, modulo97, bubblesort, rotatebits | registers and small arrays | overflow, zero, off-by-one |
| Parity and Hamming codes, generators | registers, tables | one-bit errors, intervals that overflow |
| Bits and Databus objects, `src/architectures/include/oop.h` | a bit, its handlers; a bus of bits, which nothing sets as a whole yet | a bit's handler that changes the bit: bit.class reads the value again after it |
| CGI programs | environment and standard input | length of the body |
| Databases, Python, Qt, GTK, X11 | calls of libraries | the libraries' own behaviour; left out |
| Boot loaders, kernels, vector code, self-modifying code | processor modes, registers | the hardware's behaviour; left out |
| FastNoiseSIMD for ARM: NEON macros, `cpu-features.c` | as on x86; what the kernel says of the processor | left out: the second is the NDK's code, the first is the same source with other instructions |
| System call macros, build files, generators, vendored headers, the rest of `src/archive/todo` | none at run time, or others' code | left out |

The hazards of the code, each at its line, are in `PROJECT.json` under
`hazards`, with the properties that would catch them; those of programs that are
not modelled say so.

## 2. Modules

An action is a system call with the register code around it, in the order of
the code, including the error paths the machine takes. A process's `pc` names
the call it makes next. Between two calls of one process any other process may
take any number of steps, and a signal may end it. A few calls in a row are one action, where
neither another process nor a property can tell how many of them have been made: the sleep of
ForkDemo with the line before it; an error message with the refused call before or the exit after it; in ExtXTerm open, close, dup and
close of the redirection, and the two messages written to the terminal.

| Module | What it models |
|---|---|
| `UnixPipe` | what the pipe programs ask of the kernel: pipes with the sets of processes holding each end, blocking, end of file, SIGPIPE; processes from fork to wait4, zombies and orphans. Not code of the repository: modelled from how the programs use it, and instantiated by each |
| `Transfer`, `Stream`, `Quota` | abstract specifications: what a user who sees only the screen and the ends of the processes is promised |
| `PipeDemo6`, `MCPipeDemo6`, `PipeDemo6_proofs` | the two-pipe handshake; implements `Transfer` |
| `Threads`, `Threads_proofs` | the shared counter; implements `Quota` |
| `HTTPServer`, `MCHTTPServer`, `HTTPServer_proofs` | server, workers, clients, port |
| `PipeDemo2`, `PipeDemo3`, `PipeDemo5`, `ForkDemo` | the small process programs; `PipeDemo3` and `PipeDemo5` implement `Stream` |
| `ExtXTerm` | successive runs of the program, the shells of their terminals, the file system under the FIFO's name |
| `IpcDemos`, `MCIpcDemos`, `IpcDemos_proofs` | puts these five side by side on one kernel state: the user starts one of them, and one run explores each from its own start |
| `Memory` | what the C++ code takes from its language: blocks of memory that hold junk until written, memcpy, texts at offsets. Not code of the repository |
| `Collection` | abstract specification of the arrays, queues, stacks and pools: a sequence of items, and what each call does to it and returns |
| `DynamicQueue`, `FIFOlist`, `FILOlist`, `SafeArray`, `DynamicArray`, `AlignedArray`, `MixedPool` | one class each, with the refinement of `Collection` |
| `SortedList`, `SortedList_proofs` | records sorted by name, binary search |
| `StringPool`, `StringPool_proofs`, `StringPoolW`, `StringPoolL` | StringPoolS.cpp, and what the other two do differently; the proofs are about the buffer and the calls that all three share |
| `Containers`, `MCContainers`, `Containers_proofs` | an object of one of the eleven classes and its client; `DynamicQueue` and the other queues, stacks and arrays, MixedPool and what is particular to StringPoolW and StringPoolL are proved about here, with the variables of the object |
| `NoiseGeometry` | floating-point numbers as rational ones (not code of the repository); interpolation, simplices and nearest cells, as both libraries have them |
| `NoiseSettings`, `NoiseKinds`, `FastNoise` | the object of FastNoise, its kinds of noise, and its calls |
| `FastNoiseSIMD` | what one lane computes; levels, settings and sets |
| `Noise`, `MCNoise`, `Noise_proofs` | an object of one of the two libraries; the proofs about both |

`MC*` modules hold instances for TLC (`Threads` needs none), `*_proofs` modules the theorems.
Operators introduced by a comment "Mutant:" are wrong versions of an action next
to the right one, each a plausible slip in the code; `PROJECT.json` pairs every
checked property with a mutant that breaks it. They occur in no specification.

### How the state corresponds to the code

* *Registers and memory.* Kept where a later decision or output depends on them:
  `sent` is the child's rsi in PipeDemo6, `left` is rcx in ForkDemo, `r12` the
  accepted connection, `count` the shared counter of Threads, `buffer` and
  `inbuf` the read buffers. A worker's copy of r12 after fork is `worker[s].conn`.
* *Flags.* `pipe` followed by `js errorpipe` (pipedemo6.asm:62) tests the flags of
  an older instruction; at that point SF is clear, so `CreatePipe` always goes on. The
  same holds for the jumps at pipedemo2.asm:45, pipedemo3.asm:53 and after the
  `unlink` of ExtXTerm. Where the code does test rax first, the error path is an action.
* *Descriptors.* A descriptor is the membership of a process in `readers[p]` or
  `writers[p]`. The pair of words of a pipe that was refused stays zero, so closing
  one of its halves closes stdin, and using the other then gives EBADF; `opened`
  says which pipes have descriptors. PipeDemo2's writer has closed nothing by then, and writes its messages to stdin: a terminal
  may show them, which is not what the reader prints and is left out.
* *Messages.* Bytes are members of a small set, in a sequence; PipeDemo2's messages
  are units, as each is written by one call of less than PIPE_BUF bytes.
  PipeDemo3's screen is the bytes printed (`shown`) and, for each line, how many they were when it was ended (`ends`). Bytes, line
  end and fsync are three calls: a killed reader may leave a line that is not ended.
* *The kernel's other answers.* A write of at most PIPE_BUF bytes is whole. A read
  returns what is there. A close does not fail. A terminal accepts all output.

* *Members, references and blocks (C++).* The variables are the members, with their names. A block is a function
  on 0..n-1, null is the empty one, and a pointer into a block is its offset. A reference to an object
  of the container is its index, read where the code reads it: after the move, or from the old block where
  the class keeps it for that purpose (`PutOwn`, `PushOwn`, SortedList's `Put`). Error() ends the program: `failed`.
* *Strings.* A buffer maps offsets to the texts that start there; a text written over others destroys them.
  `spoilt` names what has happened to a pool that it does not survive (section 5), and the model stops there.
* *Numbers.* `FN_DECIMAL` is a rational number: rounding is left out. Square roots in the constants of skewing are replaced
  by fractions of about their size; jitter and the default frequency likewise. Simplex falloffs t^4 are kept by sign and
  growth. Hashes and tables are kept by what depends on them, with permutations of length 4 instead of 256.
* *Sets of noise.* Of the number in a cell the model keeps what it is computed from: the point, after its warps, and
  the octaves. Lanes, vectors and the ways from cell to cell are those of the code, with vectors of 1, 4, 8 and 16.

### Faults

`PipeMayFail`, `ForkMayFail`, `MapMayFail`, `CloneMayFail`, `ExecMayFail`,
`SetupMayFail` let the kernel refuse a call; `Killable` lets a signal from outside
end a process between any two of its calls. In HTTPServer a full process table
is the normal case rather than a switch: `Slot` is finite and fork fails when no slot
is free. `Kill` ends the server and leaves its workers as orphans, `Interrupt` is
ctrl-C and ends all of them, `Restart` starts it again.

## 3. Runs

| Run | Instance | What it asks |
|---|---|---|
| `pipe6_faults` | 4 bytes (one repeated), pipes of 2, every refusal and kill | `Delivery`: the screen is a prefix of the message, and complete when the end is announced unless the child was killed. `ChildEndsLast`: an unharmed child ends after the parent closed its pipe. `Termination`: nobody hangs once the first pipe exists |
| `pipe6_plain` | 10 bytes, pipes of 4, no faults | `TypeOK`; `NoLeftovers`: no unreaped child and no stray SIGPIPE; `ImplementsTransfer` with its liveness |
| `pipe6_pipe_error` | refused pipes | *violation*: "on error inform user and exit program" (lines 62, 65): the jump is never taken, and the program forks without a pipe |
| `threads` | 6 lines, 3 threads, refusals of mmap and clone | `TypeOK`, `Accounted`, `NoLineAfterExit`, `PrintsAll`, `ImplementsQuota` |
| `ipc_demos` | PipeDemo2: 3 messages; PipeDemo3 and 5: a message of 5 bytes, read by 2 in PipeDemo3, pipes of 7; ForkDemo: 3, 2 and 3 iterations; ExtXTerm: 2 runs; all refusals and kills | `TypeOK` of the five, `PrefixShown`, `NeverBroken` (PipeDemo2), `Chopped` (PipeDemo3: the lines, also one that was not ended, and `OnItsWay`, that what "Child finished" comes too early for is not lost), `DoneIsLast` (PipeDemo5), `AllDoneIsTrue` (ForkDemo), `OwnTerminalUnlessKilled`, `NothingLeft`, `EndsOrStarves` (ExtXTerm), `Ends` (the others), `ImplementsStream` (PipeDemo3, 5) |
| `ipc_display` | the same, no faults | *violation*: pipedemo2.asm:7-8 says that the parent displays the messages; its one read returns when the first is written, and zero bytes are printed in the place of the others |
| `http_serve` | 4 clients (one remote), 2 processes, queue of 2, kills, refusals | `TypeOK`, `NoneKept`, `OnePlace`, `DropsOnlyWhenBusy`, `AnswersFollowRequests` |
| `http_restart` | 2 clients, 2 processes, queue of 1, kills and restarts | `ZombiesSubside`, `ConnectionsEnd`, `ServesAgain` |
| `http_noreap` | 1 client, 1 process | *violation*: "two waits to prevent zombie processes" (line 158): the last worker stays a zombie until another client comes |
| `containers` | rings and arrays of up to 4 objects, lists of 3, pools of up to 9 (18) units with 2 strings | `TypeOK`; `ImplementsCollection`: each class is its collection; `KeepsRecordsInOrder`: SortedList; `StringsKept`: the pools |
| `containers_index` | the same | *violation*: "This is last in Buffer. Can grow without overwriting other strings" (StringPoolS.cpp:471): ReserveBuf has made another string the last one |
| `noise` | permutations of 4, 3 (FastNoise) or 2 (FastNoiseSIMD) changed settings, blocks of up to 32 cells, four levels | `SettingsAgree`; `CellsMeet`: noise of a point is the same from every cell of the lattice at whose border it is; `Bounded`: fractals of both libraries and warps of FastNoise; `NearestPoints`: simplex noise is made of the corners around a point, cellular noise of the nearest cells; `SetsFilled`: every cell of a set; `TablesAgree`: branches, masks, tables, levels and both libraries |

Together the passing runs explore about 420,000 distinct states, and fire every
action of every module.

### Why the bounds are enough

* PipeDemo6: the message is longer than a pipe, so that the child blocks on a full
  pipe and the parent on an empty one; it repeats a byte, so that printing one twice
  in place of another shows. Without a pipe the parent prints its buffer for ever,
  and `MaxScreen` bounds what the model keeps of it; every property speaks of a first pipe
  that exists, or of the child, and is not touched by the bound. The safety properties are proved
  for every message and capacity.
* Threads: 6 lines for three threads let each print several and find the counter
  exhausted first, second or last; proved for every number. The counter has 64 bits and
  ends at most three below zero.
* IpcDemos: an odd length with pieces of two makes the last piece short; three
  messages make one read return one, two or three; iteration counts of two and
  three make one digit end on either value. Messages in the programs are far below PIPE_BUF and the pipe's
  capacity, as in the instances. The safety properties are proved without these bounds.
* HTTPServer: two processes for up to four clients fill the process table, so that
  forks fail while zombies exist and while they do not. `listen` with 0 gives a queue of one
  connection (`http_restart`); the larger queue in `http_serve` lets connections wait behind one
  another. Local clients and slots are interchangeable, and TLC uses that only in the run
  without liveness properties. The proofs need no bound.
* ExtXTerm: what a run can meet is what runs before it left under the name, which is no
  file, a FIFO or a regular file, and at most a shell that still waits: two runs reach all of these.
  A second run starts when the first is over, as from one terminal. The safety properties are proved for any set of runs.

* Containers: a ring of 4 wraps around, is replaced while wrapped, full or empty, and wraps again. All sizes are
  constants, and what is proved needs no bound. Two values tell an object from its neighbour, and junk from both. Lists of 3 have
  a first, a middle and a last record. Two strings are the least of which one is last and the other is not, or is moved before
  it; texts of up to three characters in steps of one let strings shrink, fit exactly and outgrow their place;
  `LengthMax` of 3 lets the stored length overflow.
* Noise: the points are on both sides of zero, on borders of cells and within; halves are where rounding and
  ties are decided. `MaxChanges` settings differ from the constructor's at a time: no function reads more than a few of them, and what is
  computed is computed from two. Blocks are shorter than, as long as and longer than vectors in every
  axis, and the last vector may reach beyond them; `FilledChanges` are the settings that may differ while a set is filled, as
  where a cell is does not depend on the others. Sets are filled by the levels 0, 1, 3 and 4 (level 2 has the vectors of 1).

### Fairness

Weak fairness per process (or thread, or worker): the kernel runs every process
that can run, sooner or later. A blocked call is a disabled action, so weak
fairness is all that is needed. Nobody is owed a kill, a refusal, a restart or a
client that connects. In HTTPServer a client that has connected sends its request or sees
the end of its connection, and TIME_WAIT ends (the kernel's timer); in ExtXTerm the
user closes the window in the end. Without a client that acts, a worker would
wait in `read` for ever: the program has no time-out, and this assumption is the
price of `ConnectionsEnd`.

The containers and the noise libraries are called, and owe nobody a call: they have no liveness properties and no
fairness.

`CHECK_DEADLOCK FALSE` appears for HTTPServer (every client may be refused and the server
may have exited), for Containers (an error has ended the program) and for Noise (a client may be content); the other modules have a
`Terminating` step for the states in which the program is over, and every other stop is an error.

## 4. What is proved

TLAPS checks every proof to its leaves; the only assumptions are the named `ASSUME`s
on the constants (types of the constants, a capacity and a queue length of at least one,
`MaxScreen` no shorter than the message; for the demos, what `InstanceAssumption` collects; for the noise libraries,
`NoiseAssumption`, below), which the runs evaluate.

**PipeDemo6** (`PipeDemo6_proofs`), for every message, capacity and combination of faults:
`TypeCorrect`, `DeliveryCorrect`, `ChildEndsLastCorrect`, `NoLeftoversCorrect`, and, when
nothing fails, `TransferImplemented`: each step is a step of Transfer or a stutter.
`Delivery` is not inductive: that an end of file means the end of the message depends on who holds
the write end. `DeliveryInv` adds

* `StreamInv`: the screen, the byte in hand and the pipe, in this order, are exactly what
  the child has sent;
* `HolderInv`: whoever may still write, or will fork such a child, holds the write end, so
  that there is no early end of file;
* `ForkInv`, `ChildInv`: nothing is sent before the fork, and a child past its loop has sent everything.

`HandshakeIInv` adds who holds which other end (`EndsInv`) and what each process has done when the
byte of the second pipe is there (`HandshakeInv`). From it follow the order of the ends and that no
SIGPIPE strikes a process whose peer was not killed. The refinement uses both and `CreatedInv`.

**Threads** (`Threads_proofs`), for every MaxLines and whatever is refused: `TypeCorrect`,
`AccountedCorrect`, `NoLineAfterExitCorrect`, `QuotaImplemented`. The inductive invariant is the account of the lines
(`Accounted`) with `Overdraft`: below zero the counter is minus the number of threads that have
ended. Without it nothing bounds the counter, and a thread that ends could leave lines unprinted.

**HTTPServer** (`HTTPServer_proofs`), for any sets of clients and processes (also infinite ones), any
queue length and all faults: `TypeCorrect`, `NoneKeptCorrect`, `OnePlaceCorrect`,
`DropsOnlyWhenBusyCorrect`, `AnswersFollowRequestsCorrect`. The inductive invariant says where connections are: the server
process holds r12 between accept and close and nothing else (`HeldInv`); queued connections are
distinct (`Distinct`) and neither held nor served (`Apart`); the accepted one has no worker until fork
(`Fresh`); no connection has two workers (`Single`); and, what is needed when a client comes back, one that
may connect again, or was refused, has no open connection (`Clear`). `AnswersFollowRequests` needs more: a worker serves
a client, and one about to reply serves a client no longer silent (`Asked`); with `Clear` that client is connected, so it
has asked or left. The lemma `Fewer` covers all steps that
only give connections up; accept, fork and connect have lemmas of their own.

**The five demos** (`IpcDemos_proofs`), for every number of messages, every message and
number of bytes asked for, any numbers of iterations, any set of runs of ExtXTerm, and all refusals and kills.
The assumptions are those of the programs: the message of PipeDemo3 and 5 fits into a pipe (they are far below
its capacity), PipeDemo5's sentence fits into the 1022 bytes of its .bss buffer, counts are at least one. `Invariant` says that
each program's `Inv`, at the end of its module, always holds; `TypeCorrect`, `PrefixShownCorrect`, `NeverBrokenCorrect`,
`ChoppedCorrect`, `DoneIsLastCorrect`, `AllDoneCorrect`, `OwnTerminalCorrect` and `NothingLeftCorrect` follow from it, and
`StreamImplemented` uses it for every step of PipeDemo3 and PipeDemo5. None of the properties is inductive:

* PipeDemo2: what the reader prints depends on what is in the pipe, and there on how far the writer is: `Flow` says
  where the messages are at each place of the reader, `Progress` how far each process is; `Held`, that the writer holds
  both ends as long as it runs, is `NeverBroken` made inductive.
* PipeDemo3: `Flow` says that the message is either nowhere yet (`Unwritten`) or on the screen, in the reader and in the pipe,
  in this order (`Written`). `Chopped` is of the lines that were ended and of the rest that was not; `OnItsWay` says that the report
  of the writer, which waits for nobody, comes when what is not on the screen is in the pipe or the reader. That a short piece is the last needs that the pipe is then empty; that an end of file
  means all was read needs who holds the write end (`Held`), and which of the two processes can have been killed by then (`Progress`).
* PipeDemo5: `Flow` follows the sentence from the child to the buffer, `Output` says which lines are on the screen
  by each place of the two processes, `Progress` that the parent passes its wait only when the child is gone.
* ForkDemo: that two waits mean two ended children rests on `Waits` (one child is gone before the second wait) and
  `Ended` (an ended child has written "done", or was killed); `Counts` keeps the loops' counters off zero, where `loop` would wrap.
* ExtXTerm: one run goes on at a time (`OneAtATime`), files are opened before they are used (`Opened`), and, as long as nobody is killed,
  the shell of every terminal is at a place that the program's allows (`InStep`), the name stands for an empty FIFO
  or none except between the shell's write and the program's read (`EmptyFifo`), and what a run works on is its own (`OwnFifo`).
  The last three fail after a kill, which is why the two properties are stated without one.

**DynamicQueue** (`Containers_proofs`, of the object `Queue` of `Containers`), for every set of values, increment and
size of the ring. The inductive invariant `QueueInv` adds to the types that the head (`last`) is the slot after the last entry,
counted from the tail (`first`) around the ring (`QueueRing`), which is what tells a full ring from an empty one, and that every entry
has been written (`QueueStored`), without which a queue could hand out junk. The lemma `QueueReAllocated` says that
copying in one block or two leaves the same objects in the same order and starts the ring anew; `QueuePutInBlock` that
what is put, by value or by a reference into the old block, becomes the last entry and leaves the others. From
these each call is the call of `Collection` (`QueueStep`), which is the whole refinement, as neither specification has fairness.

**The other containers** (`Containers_proofs`), for all sizes, increments, alignments and sets of values: `BlocksSound`,
`CollectionImplemented`, `TypeCorrect`, `RecordsKept` for SortedList and `TextsKept` for the string pools. Each class has an invariant that the refinement
needs, since what a call returns or copies would otherwise be junk: what was put lies in the block from its beginning on, as far as
the count says, and has been written (`Has`), the ends agree with the count (`FifoInv`: the head is n places behind
the tail around the ring), the aligned array begins at a multiple of the vector within its block (`AlignedInv`), and MixedPool's unused
end is zero (`Extends`), which is why data that grow by SetDataSize or AlignPush are zero. A block and what is in it are spoken of by
`Segment`, the sequence of n objects from an offset on; a lemma for each kind of change (`SegmentPushed`, `SegmentPopped`,
`SegmentResized`, `SegmentAssigned`, `SegmentMoved`, `SegmentRead`) says what it does to that sequence, and the classes' steps are
proved from these. That FIFOlist, FILOlist and SafeArray never return memory that was not written needs no invariant: their contents are
equal to the collection's, and `Collection` gives only what was put. The lemmas of SortedList and the string pools are
taken over by instances of their proof modules.

**SortedList** (`SortedList_proofs`). `Sound` says that the first num places hold records in the order of their names. Put
keeps it only if the binary search returns the first place with no smaller name: `SearchFinds`. `Search` is a recursive function over the
pairs of its two ends; that it has a value where its ends meet or apart is proved by induction over how far they are
(`SearchDefined`, `SearchNarrows`). The library's induction theorems are out of reach for the provers (they take an operator), so
induction is done over a set: the numbers for which the statement fails have no least element (`LeastNumber`, from the library's
well-foundedness of < on Nat), so there are none (`AllNumbers`). `InsertInserts` and `RemoveRemoves` follow the block through
memmove, also where the record is one of the list's own that the move has displaced; `CountedInserting` and `CountedRemoving` turn
this into the numbers of copies of each record that `DoesWhatItSays` compares.

**String pools** (`StringPool_proofs`; `TextsKept` in `Containers_proofs`), for all texts over any characters, sizes of the first buffers,
widths of the stored length and bounds of what is asked. That a string reads back what it was given depends on where all the others
are, so the inductive invariant is about the buffer: until a call the pool does not survive, it is `Sound`, which is

* `Packed`: the strings that are not empty lie behind the empty one at offset 0 and within the used part (`Within`), no two
  overlap (`Apart`), and the one at `Top`, if there still is one there, ends where the used part does (`LastAtTop`);
* `Accounted`: the units of these strings, of the empty one and of the counted garbage are no more than the used part. The
  set of units (`Used`) is counted with the library's theorems on finite sets. From this ReserveBuf's new buffer, which it makes of the size
  of what is *not* garbage, is large enough for what it moves there (`ReserveFits`);
* `Holds`: every index reads the text it was given.

A text is written in one of the three ways of Allocate: as the last string, in the place of a longer one, or behind all
others; `LastSet`, `InPlaceSet` and `BehindSet` say that each leaves the pool packed and accounted for and the others unchanged, and each rests on
`OtherKept`: writing a text changes no text that lies beside it. ReserveBuf moves the strings one after the other; that each is whole after n
moves, and still is after the next (`MovedOne`), is induction over the numbers as in SortedList (`AllMoved`). StringPoolW, and
StringPoolL with a length before each text, lay out their buffers by the same operators: `TextCallsSame`, `WideCallsSame`
and `LongCallsSame` say so, and `PoolSStep`, `PoolWStep`, `PoolLStep` take their steps apart.
The theorem says no more than the invariant the run checks: the calls after which `spoilt` is not empty are those of section 5.

**The noise libraries** (`Noise_proofs`), for tables of any length and with any contents, any processor and set of compiled
instruction sets, any blocks, starts, scales, offsets and points, any order of setters, and any number of settings that differ from
the defaults: `SettingsAgreeCorrect`, `SetsFilledCorrect`, `ComputedAlike`, `TablesAgreeCorrect`, `CellsMeetCorrect`. `NoiseAssumption`
says what the code takes for granted: gains are not negative, the shuffle's draws are at least their place and at most the table's length
(FastNoise.cpp:210), blocks have cells, SSE2 is compiled in where SSE4.1 is (FastNoiseSIMD.h:41-42), and the fractions that stand for the
floating-point numbers of tables, points, frequencies and scales are in lowest terms.

* *Settings.* `SettingsInv` says of the members what each setter can keep by itself: `fractalBounding` is what
  CalculateFractalBounding makes of the gain and the octaves of now, the indices are ordered, and for FastNoise the tables are
  shuffled (`FastAgreeing`), for FastNoiseSIMD also the warps' members have their types (`Agreeing`). That the amplitudes then add up to one needs
  the fractions: Euclid's algorithm ends and divides both (`GcdIs`, `GcdBounds`), a sum that begins with one and has no negative
  terms is positive (`SumIs`, `BoundingScales`), and its reciprocal times itself is one (`ReciprocalTimes`). No two seeds are the same because
  octaves' go up from the object's and warps' go down (`SeedsDiffer`). The shuffle is a loop: after j rounds the first j places
  agree in both halves (`PlacesDone`, kept by `NextPlaceDone`) except in perm's place N, which a draw of N spoils.
* *Sets.* A lane's cell has a number, counted in the block from its start (`Linear`); `ResetOnce` keeps it while it takes the
  cell closer to the block (`ResetOnceKeeps`), and as many rounds as AxisReset makes are enough to bring it there (`RoundsSuffice`, `AxisResetKeeps`).
  So the k-th vector's lane j is at the place of the number it is stored at (`LaneCellsAt`, for whole rows `RowCellsAt`), also where a row is
  shorter than a vector. Sampled sets follow through the eight samples around a cell (`InterpolatedAt`). The inductive invariant `Filling` says that the
  object's class is the level and compiled in, which is why the sets that the static functions align fit it (`ClassAligned`), that the set of vectors is one that
  FillVectorSet or FillSamplingVectorSet made (`VectorsOf`), and that the set of noise is the one asked for (`Right`).
* *Alike.* TLC compares the two libraries and the levels at a few numbers; `ComputedAlike` says it of all. The greatest common divisor is a
  combination of the two numbers (`GcdCommon`), so a fraction in lowest terms is determined by its value (`LowestSame`, `IsSame`), and sums
  and products in other orders, reduced at other places, are the same pair (`PlusGrouped`, `TimesGrouped`, `Distributed`): the quintic and cubic
  polynomials agree. The masks, the branches and the 64 rows of SIMPLEX_4D agree because comparisons are total and transitive, which leaves
  24 of the 64 codes (`CodesSuffice`), and each is one order of the four (`RanksInOrder`). Floors and directions agree for every number and hash.
  `TablesAgreeCorrect` is the case that the run looks at.
* *Cells.* Between two points of an axis, what is blended, linearly, smoothed or by cubic interpolation, is the first point's number where
  the distance is zero and the next one's where it is one (`LerpEnds`, `WeightEnds`, `CubicLerpEnds`). A position has two cells only where it is
  the point between them (`InTwo`), so both give that point's number (`OnMeets`); the plane and space follow axis by axis (`On2Meets`, `On3Meets`),
  as a corner's number depends on the corner alone, by the tables (`Values3`, `Grads3`) or by the hash (`SimdValues`, `SimdGrads`). Each kind of
  noise of both libraries is such a blend (`FastValueIn`, `FastPerlinIn`, `FastCubicIn`, `SimdBlends`). `PlacedInv` keeps the frequency, the scales and
  the way of smoothing what the setters allow.

**Only model-checked**: all liveness properties (`Termination`, `PrintsAll`, `Ends`,
`ZombiesSubside`, `ConnectionsEnd`, `ServesAgain`, `EndsOrStarves`) and the fairness part of the
refinement of Transfer, which the prover cannot reach; of the noise libraries `Bounded`, which would need bounds of the tables' numbers as assumptions, that a blend lies between the numbers
it is of, for polynomials of the third and the fifth degree (an inequality of fractions, nonlinear in every variable), and induction over the octaves (section 6);
and `NearestPoints`, whose simplex part is about corners whose falloff is zero at the run's points (the constants of skewing are
fractions near the code's roots, so it would not hold of every point) and whose cellular part needs that all distances are below the code's 999999.

## 5. Where the code and its comments part

The four violation runs show the first four; the others were met while modelling. The models do what the code
does, except where it says that something is left out.

* pipedemo6.asm:62, 65, httpserver.asm:158, pipedemo2.asm:7-8 and StringPoolS.cpp:471: section 3.
* pipedemo3.asm: the labels are swapped (`jnz child` after fork), so that the started process
  reads and its child writes. The `wait4` of the writer (line 104) finds no child and returns at once:
  "Child finished" may appear while the other process still prints. The comment at line 110 notices the symptom. `OnItsWay` is what
  still holds then; that the processes end (`Ends`) and that the message is complete when both have (`ImplementsStream`) say nothing of the report.
* pipedemo2.asm:60-61: the comment says that the read end is closed, but rdi does not hold it. It is
  what keeps the writer from SIGPIPE (`NeverBroken`).
* pipedemo5.asm:92: rdi is still stdout, so that the program exits with status 1.
* forkdemo.asm:7-8: the description lets the first child fork the second; at line 112 the parent does.
* httpserver.asm:115-116: a failed `socket` is looked for with `jz`; an error is negative and is noticed by `bind`.
  Lines 119-129 speak of INADDR_ANY "so anyone can bind"; line 121 sets the loopback address, so that remote
  clients are refused (`Bound`).
* extxterm.asm:89: "if fifo already exists on disk so we can continue". After a run that was killed the shell of its
  terminal may still wait in the FIFO, and the next run may get that terminal's name:
  `OwnTerminalUnlessKilled` holds only as long as nobody is killed. Line 112 opens read-write: the
  program is a writer of its own FIFO and waits for ever if the xterm never started (`EndsOrStarves`).
* String pools: after Clear the used part is zero units long, and the next string goes to offset 0, which stands for
  empty strings. Reading before anything was written dereferences a null buffer. A string appended to itself, or replaced by
  an overlapping part of itself, is copied with memcpy. Printf of exactly FormatLength characters loses the last one
  (S and L). In StringPoolL a length beyond the 16 bits of LengthType is stored cut off, and Concatenate reads the length before it
  checks the index. These are the values of `spoilt`, or errors, in the model.
* SortedList.cpp: Put reads its argument after memmove: a record of the list itself, passed by reference, may have become its
  neighbour. MixedPool.cpp: the index operator checks only that the beginning of an object is within the data.
* FastNoise.cpp:210: a draw may be 256, and `m_perm[256]` is then what was there before (in the constructor, nothing):
  the table is no permutation. `SettingsAgree` leaves that place aside. FastNoise.cpp:1352 G4 is (5-sqrt 5)/2 where the inverse
  of the skew has /20: noise of four dimensions is not seamless, and neither is that of three with its falloff of 0.6; `TrianglesMeet`, the simplex part of `NearestPoints`,
  does not ask it of them. Negative gains may make the bounding divide by zero; octaves beyond 512 read past the
  table; a lookup object that leads back to itself recurses for ever. FastNoise.cpp:1569 multiplies where 1912 adds for the distance Natural.
* FastNoiseSIMD, warps: FastNoiseSIMD.h:215 calls the amplitude "the maximum distance the input position can be perturbed", with
  a default of 1.0. It bounds the way along each axis (the hash's ten bits, about their middle, times the amplitude over 511.5), so that
  a point may move by the square root of 3 times as much; and m_perturbAmp begins as 1.0 undivided (316), where SetPerturbAmp divides by
  511.5 (217): without a call of it points move by hundreds. internal.cpp:1091 scales several warps by the octaves' bounding
  in place of their own, so that they exceed the amplitude or fall short of it, and `perturbFractalBounding`, of which `SettingsAgree` says
  that it agrees with its settings, is used nowhere. `Bounded` therefore asks nothing of these warps; those of FastNoise, whose
  directions have the length one, keep the distance that FastNoise.h:157 names
  (asked of several warps where they are two at most and smoothed linearly, as the fractions of more outgrow TLC's integers).
* FastNoiseSIMD, sets: internal.cpp:2148 computes where the samples are wrongly unless they are two cells apart or the block starts at one, and
  sets sampled by vectors are half a cell away from those sampled by blocks; white noise of a vector set is not that of the
  same block. Blocks of no cells write a vector. Line 1745 leaves the result of a lookup of some kinds unset.
  `SetSIMDLevel` after objects exist is undefined by its comment (FastNoiseSIMD.h:130) and no action of the model.
  InitSIMDValues (609) is not synchronised; sets by several threads are not modelled.

## 6. Plan

Done: the kernel (`UnixPipe`), the abstract specifications, PipeDemo6, Threads, HTTPServer and the small
process programs composed in IpcDemos, all with proofs; the C++ containers, with the refinement
of Collection and the sorted list proved; FastNoise and FastNoiseSIMD, with their settings, sets, cells and their agreement proved.

Next, in this order:

1. **More programs on the kernel of IpcDemos**: PipeDemo1 and 4, the starters (fork, a failing execve, wait4),
   SIGFPE's handler. Property: what a starter prints last comes after its program.
2. **Arithmetic** (one module, recursive functions, no RECURSIVE): binary to BCD in four widths, leap year and
   days of a month, josephus, modulo97, parity and Hamming codes, rotation, bubble sort, each instruction sequence as an operator on
   words `% 2^w`, against a reference definition over all small inputs. Theorems: josephus and modulo97
   per step, and sortedness of what one pass of bubble sort leaves at the end.
3. **Terminal and files**: keyfilter and waitforkeypress (save, change, restore of the mode, with a signal between two
   calls), readfile (a file that is empty or changes while it is read). Property: the mode at the end is the mode at the start.
4. **Objects with events**: the object model and the bits of `bit.class`, with handlers that change the bit they are called for.
5. **HTTPSocket** as a client of HTTPServer: partial reads, the time-out against a late answer.
6. **Proofs**: `Bounded`, from a blend's lying between the numbers it is of, with bounds of the tables as assumptions.

The bounds planned for these are of the size of those above: single words of 4 to 8 bits for conversions, one
terminal with two programs, two bits with handlers.
