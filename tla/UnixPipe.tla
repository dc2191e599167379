------------------------------ MODULE UnixPipe ------------------------------
(***************************************************************************)
(* What the examples of src/archive/examples/ipc ask of the Linux kernel:  *)
(* pipes whose two ends are held by processes, and the life of a process   *)
(* from fork to wait4.  The kernel is not part of the repository; this     *)
(* module says what the programs rely on, and each of them instantiates it *)
(* with its own processes and pipes.                                       *)
(*                                                                         *)
(* A descriptor is modelled by who holds the end it names: no program here *)
(* duplicates a pipe descriptor, so a process holds an end at most once.   *)
(* An action below constrains the primed variables its comment names and   *)
(* leaves the others to its user.                                          *)
(***************************************************************************)
EXTENDS Naturals, Sequences

CONSTANTS
    Process,    \* the processes a program may consist of
    Pipes,      \* the pipes it may create
    Capacity    \* bytes a pipe holds before a writer blocks (65536 on Linux)

VARIABLES
    data,       \* data[p]: the bytes written to pipe p and not yet read
    readers,    \* readers[p]: the processes with the read end of p open
    writers,    \* writers[p]: the processes with its write end open
    life        \* life[q]: how far process q is from fork to wait4

Life == {"unborn", "running", "zombie", "gone"}

-----------------------------------------------------------------------------
(* Pipes.  What a system call on pipe p answers now.                       *)

CanRead(p)   == data[p] # <<>>
\* read returns 0: the pipe is empty and no process can ever write to it.
AtEOF(p)     == data[p] = <<>> /\ writers[p] = {}
CanWrite(p)  == readers[p] # {} /\ Len(data[p]) < Capacity
\* write raises SIGPIPE: no process can ever read what is written.
Broken(p)    == readers[p] = {}

\* pipe(2) by process q (readers, writers).
Open(q, p) ==
    /\ readers' = [readers EXCEPT ![p] = {q}]
    /\ writers' = [writers EXCEPT ![p] = {q}]

\* close(2) by process q of one end (readers, writers); it stays closed.
CloseRead(q, p)  == readers' = [readers EXCEPT ![p] = @ \ {q}] /\ UNCHANGED writers
CloseWrite(q, p) == writers' = [writers EXCEPT ![p] = @ \ {q}] /\ UNCHANGED readers

\* write(2) of one byte, when CanWrite(p) (data).
Put(p, byte) == data' = [data EXCEPT ![p] = Append(@, byte)]

\* read(2) of one byte, when CanRead(p) (data).
Take(p) == data' = [data EXCEPT ![p] = Tail(@)]

\* write(2) of no more than PIPE_BUF bytes puts all of them in or blocks (data).
HasRoom(p, bytes) == readers[p] # {} /\ Len(data[p]) + Len(bytes) <= Capacity
PutAll(p, bytes) == data' = [data EXCEPT ![p] = @ \o bytes]

\* read(2) of at most n bytes, when CanRead(p), returns what is there (data).
Got(p, n) == SubSeq(data[p], 1, IF n < Len(data[p]) THEN n ELSE Len(data[p]))
TakeUpTo(p, n) == data' = [data EXCEPT ![p] = SubSeq(@, Len(Got(p, n)) + 1, Len(@))]

-----------------------------------------------------------------------------
(* Processes.                                                              *)

Inherited(ends, q, child) == IF q \in ends THEN ends \union {child} ELSE ends

\* fork(2): the child holds every end its parent holds (readers, writers, life).
Fork(q, child) ==
    /\ life' = [life EXCEPT ![child] = "running"]
    /\ readers' = [p \in Pipes |-> Inherited(readers[p], q, child)]
    /\ writers' = [p \in Pipes |-> Inherited(writers[p], q, child)]

\* The end of process q, by exit(2) or by a signal: its descriptors are
\* closed; it stays a zombie while its parent may still wait for it, and init
\* reaps it, and the zombies q leaves behind, otherwise (readers, writers,
\* life).
Die(q, parent) ==
    /\ readers' = [p \in Pipes |-> readers[p] \ {q}]
    /\ writers' = [p \in Pipes |-> writers[p] \ {q}]
    /\ life' = [r \in Process |->
                  CASE r = q -> IF q # parent /\ life[parent] = "running"
                                THEN "zombie" ELSE "gone"
                    [] r # q /\ q = parent /\ life[r] = "zombie" -> "gone"
                    [] OTHER -> life[r]]

\* wait4(2) returns: some child has ended and its entry is freed (life).
Reap(child) ==
    /\ life[child] = "zombie"
    /\ life' = [life EXCEPT ![child] = "gone"]
=============================================================================
