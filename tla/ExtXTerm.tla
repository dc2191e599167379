------------------------------ MODULE ExtXTerm ------------------------------
(***************************************************************************)
(* src/archive/examples/ipc/ExtXTerm/extxterm.asm (and its twin in         *)
(* projects/extxterm): the program makes a FIFO of a fixed name, starts an *)
(* xterm whose shell writes the name of its terminal into it, reads that   *)
(* name, deletes the FIFO, and redirects its stderr to that terminal.      *)
(*                                                                         *)
(* A run is one start of the program.  What is read is the sequence of the *)
(* runs whose terminals are named in it.                                   *)
(***************************************************************************)
EXTENDS Naturals, Sequences

CONSTANTS
    Run,            \* the starts of the program
    ForkMayFail,    \* whether the kernel may refuse the fork
    ExecMayFail,    \* whether /usr/bin/xterm may be missing
    Killable        \* whether a signal may kill the program alone

Assumption ==
    ForkMayFail \in BOOLEAN /\ ExecMayFail \in BOOLEAN /\ Killable \in BOOLEAN

VARIABLES
    files,      \* the files ever made under the name: kind, content, who reads
    path,       \* the one the name /tmp/xterm_fifo stands for, 0 for none
    pc,         \* pc[r]: what the program does next
    fdfifo,     \* fdfifo[r]: the file the program reads
    buffer,     \* buffer[r]: what it has read
    stderr,     \* stderr[r]: where its error output goes
    xterm,      \* xterm[r]: what the shell of its terminal does next
    target,     \* target[r]: the file that shell writes to
    seen        \* seen[t]: the runs whose message has appeared in t's terminal

program == <<pc, fdfifo, buffer, stderr>>
vars == <<files, path, pc, fdfifo, buffer, stderr, xterm, target, seen>>

Goto(r, label) == pc' = [pc EXCEPT ![r] = label]

NewFile(kind) == [kind |-> kind, content |-> <<>>, readers |-> {}]

Ended == {"idle", "ended", "failed", "killed"}

Init ==
    /\ files = <<>> /\ path = 0
    /\ pc = [r \in Run |-> "idle"]
    /\ fdfifo = [r \in Run |-> 0]
    /\ buffer = [r \in Run |-> <<>>]
    /\ stderr = [r \in Run |-> "terminal"]
    /\ xterm = [r \in Run |-> "unborn"]
    /\ target = [r \in Run |-> 0]
    /\ seen = [r \in Run |-> {}]

-----------------------------------------------------------------------------
(* The program.                                                            *)

\* The user starts the program when the run before is over.
Start(r) ==
    /\ pc[r] = "idle" /\ \A q \in Run : pc[q] \in Ended
    /\ Goto(r, "mknod")
    /\ UNCHANGED <<files, path, fdfifo, buffer, stderr, xterm, target, seen>>

\* Mutant: without S_IFIFO mknod makes a regular file.
MknodRegular(r) ==
    /\ pc[r] = "mknod" /\ Goto(r, "fork")
    /\ IF path = 0
       THEN files' = Append(files, NewFile("regular")) /\ path' = Len(files) + 1
       ELSE UNCHANGED <<files, path>>
    /\ UNCHANGED <<fdfifo, buffer, stderr, xterm, target, seen>>

\* A file that is there already is taken for the FIFO.
Mknod(r) ==
    /\ pc[r] = "mknod" /\ Goto(r, "fork")
    /\ IF path = 0
       THEN files' = Append(files, NewFile("fifo")) /\ path' = Len(files) + 1
       ELSE UNCHANGED <<files, path>>
    /\ UNCHANGED <<fdfifo, buffer, stderr, xterm, target, seen>>

\* The error exit leaves the FIFO behind.
Fork(r) ==
    /\ pc[r] = "fork"
    /\ \/ Goto(r, "open") /\ xterm' = [xterm EXCEPT ![r] = "exec"]
       \/ ForkMayFail /\ Goto(r, "failed") /\ UNCHANGED xterm
    /\ UNCHANGED <<files, path, fdfifo, buffer, stderr, target, seen>>

\* Mutant: the FIFO is deleted as soon as it is open.
OpenUnlinks(r) ==
    /\ pc[r] = "open" /\ path # 0
    /\ files' = [files EXCEPT ![path].readers = @ \cup {r}]
    /\ fdfifo' = [fdfifo EXCEPT ![r] = path]
    /\ Goto(r, "read")
    /\ path' = 0
    /\ UNCHANGED <<buffer, stderr, xterm, target, seen>>

\* The flags 666o hold O_RDWR: open does not wait for the writer, and the
\* program is a writer of its FIFO itself.
Open(r) ==
    /\ pc[r] = "open"
    /\ IF path = 0 THEN Goto(r, "failed") /\ UNCHANGED <<files, fdfifo>>
       ELSE /\ files' = [files EXCEPT ![path].readers = @ \cup {r}]
            /\ fdfifo' = [fdfifo EXCEPT ![r] = path]
            /\ Goto(r, "read")
    /\ UNCHANGED <<path, buffer, stderr, xterm, target, seen>>

\* A FIFO nobody has open forgets what was written to it.
Closed(f, r) ==
    LET left == f.readers \ {r}
    IN  [f EXCEPT !.readers = left,
                  !.content = IF f.kind = "fifo" /\ left = {} THEN <<>> ELSE @]

\* A FIFO blocks the reader until there is something to read; a regular file
\* that is empty is a communication error.
Read(r) ==
    /\ pc[r] = "read"
    /\ LET f == files[fdfifo[r]]
       IN  /\ f.kind = "fifo" => f.content # <<>>
           /\ buffer' = [buffer EXCEPT ![r] = f.content]
           /\ \/ /\ f.content # <<>> /\ Goto(r, "close")
                 /\ files' = IF f.kind = "fifo" THEN [files EXCEPT ![fdfifo[r]].content = <<>>]
                            ELSE files
              \/ /\ f.content = <<>> /\ Goto(r, "failed")
                 /\ files' = [files EXCEPT ![fdfifo[r]] = Closed(@, r)]
    /\ UNCHANGED <<path, fdfifo, stderr, xterm, target, seen>>

Close(r) ==
    /\ pc[r] = "close" /\ Goto(r, "unlink")
    /\ files' = [files EXCEPT ![fdfifo[r]] = Closed(@, r)]
    /\ UNCHANGED <<path, fdfifo, buffer, stderr, xterm, target, seen>>

\* Mutant: the FIFO is left for the next run.
UnlinkOmitted(r) ==
    /\ pc[r] = "unlink" /\ Goto(r, "open_term")
    /\ UNCHANGED <<files, path, fdfifo, buffer, stderr, xterm, target, seen>>

\* The name goes, whatever it stands for; that it is gone already is not seen
\* ("js" reads the flags of the close before).
Unlink(r) ==
    /\ pc[r] = "unlink" /\ Goto(r, "open_term")
    /\ path' = 0
    /\ UNCHANGED <<files, fdfifo, buffer, stderr, xterm, target, seen>>

\* Is the buffer, with its last character cut off, the path of a terminal?
Opens(names) == Len(names) = 1 /\ xterm[names[1]] # "closed"

\* That open fails is not seen either: stderr is closed all the same, and dup
\* fails in its turn.
OpenTerminal(r) ==
    /\ pc[r] = "open_term" /\ Goto(r, "write")
    /\ stderr' = [stderr EXCEPT ![r] = IF Opens(buffer[r]) THEN buffer[r][1] ELSE "closed"]
    /\ UNCHANGED <<files, path, fdfifo, buffer, xterm, target, seen>>

Write(r) ==
    /\ pc[r] = "write" /\ Goto(r, "wait")
    /\ seen' = IF stderr[r] \in Run THEN [seen EXCEPT ![stderr[r]] = @ \cup {r}] ELSE seen
    /\ UNCHANGED <<files, path, fdfifo, buffer, stderr, xterm, target>>

\* wait4: until the xterm it started is closed.
Wait(r) ==
    /\ pc[r] = "wait" /\ xterm[r] = "closed"
    /\ Goto(r, "ended")
    /\ UNCHANGED <<files, path, fdfifo, buffer, stderr, xterm, target, seen>>

Program(r) ==
    \/ Mknod(r) \/ Fork(r) \/ Open(r) \/ Read(r) \/ Close(r) \/ Unlink(r)
    \/ OpenTerminal(r) \/ Write(r) \/ Wait(r)

\* The xterm goes on without the program that started it.
Kill(r) ==
    /\ Killable /\ pc[r] \notin Ended
    /\ Goto(r, "killed")
    /\ files' = IF fdfifo[r] = 0 THEN files ELSE [files EXCEPT ![fdfifo[r]] = Closed(@, r)]
    /\ UNCHANGED <<path, fdfifo, buffer, stderr, xterm, target, seen>>

-----------------------------------------------------------------------------
(* The child, the xterm it becomes, and the shell command                  *)
(* "tty > /tmp/xterm_fifo; ..." run in it.                                 *)

\* execve fails: the child ends with the error.
Exec(r) ==
    /\ xterm[r] = "exec"
    /\ \/ xterm' = [xterm EXCEPT ![r] = "redirect"]
       \/ ExecMayFail /\ xterm' = [xterm EXCEPT ![r] = "closed"]
    /\ UNCHANGED <<files, path, program, target, seen>>

\* The shell opens the name to write: it makes a regular file where there is
\* none, empties one there is, and waits in the open of a FIFO for a reader.
Redirect(r) ==
    /\ xterm[r] = "redirect" /\ xterm' = [xterm EXCEPT ![r] = "tty"]
    /\ IF path = 0
       THEN files' = Append(files, NewFile("regular")) /\ path' = Len(files) + 1
       ELSE /\ files' = [files EXCEPT ![path].content = IF files[path].kind = "fifo" THEN @ ELSE <<>>]
            /\ UNCHANGED path
    /\ target' = [target EXCEPT ![r] = path']
    /\ UNCHANGED <<program, seen>>

\* tty writes the terminal's name; then the shell sleeps.
Tty(r) ==
    /\ xterm[r] = "tty" /\ xterm' = [xterm EXCEPT ![r] = "sleep"]
    /\ files[target[r]].kind = "fifo" => files[target[r]].readers # {}
    /\ files' = [files EXCEPT ![target[r]].content = Append(@, r)]
    /\ UNCHANGED <<path, program, target, seen>>

\* The user closes the window, in the end, when the program has no use for it.
CloseWindow(r) ==
    /\ xterm[r] \in {"redirect", "tty", "sleep"} /\ pc[r] \in {"wait", "killed", "failed"}
    /\ xterm' = [xterm EXCEPT ![r] = "closed"]
    /\ UNCHANGED <<files, path, program, target, seen>>

XTerm(r) == Exec(r) \/ Redirect(r) \/ Tty(r) \/ CloseWindow(r)

\* Every run is over, or reads for ever.
Over(r) == pc[r] \in Ended
Starves(r) == pc[r] = "read" /\ xterm[r] = "closed" /\ buffer[r] = <<>>

Terminating == (\A r \in Run : Over(r) \/ Starves(r)) /\ UNCHANGED vars

Next ==
    \/ \E r \in Run : Start(r) \/ Program(r) \/ Kill(r) \/ XTerm(r)
    \/ Terminating
-----------------------------------------------------------------------------
Labels ==
    Ended \cup {"mknod", "fork", "open", "read", "close", "unlink", "open_term", "write", "wait"}
XTermLabels == {"unborn", "exec", "redirect", "tty", "sleep", "closed"}
File == [kind : {"fifo", "regular"}, content : Seq(Run), readers : SUBSET Run]

\* Types; a file is open where a program is between open and close.
TypeOK ==
    /\ files \in Seq(File)
    /\ \A i \in DOMAIN files :
         files[i].readers = {r \in Run : fdfifo[r] = i /\ pc[r] \in {"read", "close"}}
    /\ path \in 0..Len(files)
    /\ pc \in [Run -> Labels]
    /\ fdfifo \in [Run -> 0..Len(files)] /\ target \in [Run -> 0..Len(files)]
    /\ buffer \in [Run -> Seq(Run)]
    /\ stderr \in [Run -> Run \cup {"terminal", "closed"}]
    /\ xterm \in [Run -> XTermLabels]
    /\ seen \in [Run -> SUBSET Run]

NoneKilled == \A r \in Run : pc[r] # "killed"

\* "if fifo already exists on disk so we can continue": the message of a run
\* appears in the terminal that it started, and nowhere else.
OwnTerminal ==
    /\ \A t \in Run : seen[t] \subseteq {t}
    /\ \A r \in Run : pc[r] \in {"wait", "ended"} => r \in seen[r]

\* It does as long as no run is killed, also after runs that failed and left
\* their FIFO behind.
OwnTerminalUnlessKilled == NoneKilled => OwnTerminal

\* Then, too, nothing is left under the name when a run has come to its message,
\* and no run fails whose fork has succeeded, whatever an earlier one left.
NothingLeft ==
    NoneKilled =>
        \A r \in Run :
            /\ pc[r] \in {"write", "wait"} => path = 0
            /\ pc[r] = "failed" => xterm[r] = "unborn"
-----------------------------------------------------------------------------
\* The user starts one run after the other.
OneAtATime == \A q, r \in Run : pc[q] \notin Ended /\ pc[r] \notin Ended => q = r

\* A file that is read or written is one that was opened.
Opened ==
    \A r \in Run :
        /\ pc[r] \in {"read", "close"} => fdfifo[r] # 0
        /\ xterm[r] = "tty" => target[r] # 0

\* How far an xterm is when its program is there: in the windows of runs that
\* are over nobody writes.
InStep(r) ==
    /\ pc[r] \in {"idle", "mknod", "fork", "failed"} => xterm[r] = "unborn"
    /\ pc[r] = "open" => xterm[r] \in {"exec", "redirect", "tty", "closed"}
    /\ pc[r] = "read" => xterm[r] \in {"exec", "redirect", "tty", "sleep", "closed"}
    /\ pc[r] \in {"close", "unlink", "open_term", "write"} => xterm[r] = "sleep"
    /\ pc[r] = "wait" => xterm[r] \in {"sleep", "closed"}
    /\ pc[r] = "ended" => xterm[r] = "closed"

\* The name stands for an empty FIFO, also before a run has made it, but between
\* the shell's write and the program's read.
EmptyFifo ==
    path # 0 =>
        /\ files[path].kind = "fifo"
        /\ (\A r \in Run : pc[r] # "read") => files[path].content = <<>>

\* What a run works on: its FIFO, then the name of its terminal.
OwnFifo(r) ==
    /\ pc[r] \in {"fork", "open", "read"} => path # 0
    /\ xterm[r] = "tty" => target[r] = path
    /\ pc[r] = "read" =>
         /\ fdfifo[r] = path
         /\ files[path].content = IF xterm[r] = "sleep" THEN <<r>> ELSE <<>>
    /\ pc[r] \in {"close", "unlink", "open_term"} => buffer[r] = <<r>>
    /\ pc[r] \in {"open_term", "write", "wait"} => path = 0
    /\ pc[r] = "write" => stderr[r] = r

\* The inductive invariant.
Inv ==
    /\ TypeOK /\ OneAtATime /\ Opened
    /\ NoneKilled => EmptyFifo /\ OwnTerminal /\ \A r \in Run : InStep(r) /\ OwnFifo(r)
=============================================================================
