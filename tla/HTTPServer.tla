----------------------------- MODULE HTTPServer -----------------------------
(***************************************************************************)
(* src/archive/examples/networking/HTTPServer/httpserver.asm: a server     *)
(* that accepts a connection, forks a worker to read the request and to    *)
(* write the reply, closes its own end and accepts again.  Before each     *)
(* fork it reaps at most two of the workers that have ended.               *)
(*                                                                         *)
(* The user may kill the server alone, which leaves its workers running    *)
(* with the listening socket, or interrupt all of it from the terminal,    *)
(* and starts it again; bind is retried until the port is free.  The       *)
(* request and the reply are one segment each.                             *)
(***************************************************************************)
EXTENDS Integers, Sequences, FiniteSets

CONSTANTS
    Client,         \* who connects
    Remote,         \* those of them on another host
    Slot,           \* the processes the system allows the server to fork
    Backlog,        \* connections the listening socket queues (listen's 0: one)
    Killable,       \* whether the server is killed and started again
    SetupMayFail    \* whether socket or listen may be refused

ASSUME ClientAssumption == Remote \subseteq Client
ASSUME BacklogAssumption == Backlog \in Nat \ {0}
ASSUME FaultAssumption == Killable \in BOOLEAN /\ SetupMayFail \in BOOLEAN

None == "none"

ASSUME NoneAssumption == None \notin Client

VARIABLES
    pc,         \* what the server does next
    sockfd,     \* whether its socket was created
    r12,        \* the connection it accepted last
    held,       \* the connections the server process has open
    queue,      \* the connections the listening socket holds
    worker,     \* worker[s]: what the process in slot s does next, and for whom
    client,     \* client[c]: what client c knows of its connection
    lingering   \* whether an old connection still occupies the port

serverVars == <<pc, sockfd, r12, held>>
vars == <<pc, sockfd, r12, held, queue, worker, client, lingering>>

Free == [state |-> "free", conn |-> None, orphan |-> FALSE]

Init ==
    /\ pc = "socket" /\ sockfd = FALSE /\ r12 = None /\ held = {}
    /\ queue = <<>>
    /\ worker = [s \in Slot |-> Free]
    /\ client = [c \in Client |-> "away"]
    /\ lingering = FALSE

-----------------------------------------------------------------------------
\* What the kernel derives from the processes' descriptors.
AtWork(s) == worker[s].state \in {"read", "reply", "close", "exit"}
Zombies == {s \in Slot : worker[s].state = "zombie"}
Vacant == {s \in Slot : worker[s].state = "free"}

Holds(s, c) == worker[s].conn = c /\ worker[s].state \in {"read", "reply", "close"}
Queued == {queue[i] : i \in DOMAIN queue}
IsOpen(c) == c \in held \/ c \in Queued \/ \E s \in Slot : Holds(s, c)

Serving == {"accept", "wait1", "wait2", "fork", "close"}

\* Workers never close the listening socket they inherit.
Listening == pc \in Serving \/ \E s \in Slot : AtWork(s)

PortBusy == Listening \/ lingering

\* The next state of a slot whose process ends: without a parent that is to
\* wait for it, init reaps it at once.
Ended(w) == IF w.orphan THEN Free ELSE [Free EXCEPT !.state = "zombie"]

\* With nobody left listening the queued connections are reset.
KeepQueue == queue' = IF Listening' THEN queue ELSE <<>>

-----------------------------------------------------------------------------
\* A failed socket call is not noticed: "jz" tests for a descriptor of zero.
Socket ==
    /\ pc = "socket"
    /\ sockfd' \in IF SetupMayFail THEN BOOLEAN ELSE {TRUE}
    /\ pc' = "bind"
    /\ UNCHANGED <<r12, held, queue, worker, client, lingering>>

\* Mutant: an address in use ends the program.
BindOnce ==
    /\ pc = "bind" /\ sockfd
    /\ pc' = IF PortBusy THEN "exited" ELSE "listen"
    /\ UNCHANGED <<sockfd, r12, held, queue, worker, client, lingering>>

\* bind is tried again for as long as the address is in use (a step back to
\* itself).
Bind ==
    /\ pc = "bind" /\ sockfd /\ ~PortBusy
    /\ pc' = "listen"
    /\ UNCHANGED <<sockfd, r12, held, queue, worker, client, lingering>>

\* Any other error of bind, like that of the missing socket, ends the program.
BindError ==
    /\ pc = "bind" /\ ~sockfd
    /\ pc' = "exited"
    /\ UNCHANGED <<sockfd, r12, held, queue, worker, client, lingering>>

Listen ==
    /\ pc = "listen"
    /\ pc' \in IF SetupMayFail THEN {"accept", "exited"} ELSE {"accept"}
    /\ UNCHANGED <<sockfd, r12, held, queue, worker, client, lingering>>

\* Mutant: a failed accept is not noticed.
AcceptUnchecked ==
    /\ pc = "accept"
    /\ \/ /\ queue # <<>>
          /\ r12' = Head(queue) /\ held' = held \cup {Head(queue)} /\ queue' = Tail(queue)
       \/ r12' = "error" /\ UNCHANGED <<held, queue>>
    /\ pc' = "wait1"
    /\ UNCHANGED <<sockfd, worker, client, lingering>>

\* accept blocks while the queue is empty, and is tried again when it fails (a
\* step back to itself).
Accept ==
    /\ pc = "accept" /\ queue # <<>>
    /\ r12' = Head(queue) /\ held' = held \cup {Head(queue)} /\ queue' = Tail(queue)
    /\ pc' = "wait1"
    /\ UNCHANGED <<sockfd, worker, client, lingering>>

\* wait4(-1, 0, WNOHANG, 0): one of the workers that have ended, if any.
Wait(here, next) ==
    /\ pc = here /\ pc' = next
    /\ IF Zombies = {} THEN UNCHANGED worker
       ELSE \E s \in Zombies : worker' = [worker EXCEPT ![s] = Free]
    /\ UNCHANGED <<sockfd, r12, held, queue, client, lingering>>

Wait1 == Wait("wait1", "wait2")

\* Mutant: there is one wait only.
NoWait2 ==
    /\ pc = "wait2" /\ pc' = "fork"
    /\ UNCHANGED <<sockfd, r12, held, queue, worker, client, lingering>>

Wait2 == Wait("wait2", "fork")

\* Mutant: the failure sends the server back to accept, the connection open.
ForkLeaks ==
    /\ pc = "fork"
    /\ IF Vacant = {} THEN pc' = "accept" /\ UNCHANGED worker
       ELSE \E s \in Vacant :
              /\ worker' = [worker EXCEPT ![s] = [Free EXCEPT !.state = "read", !.conn = r12]]
              /\ pc' = "close"
    /\ UNCHANGED <<sockfd, r12, held, queue, client, lingering>>

\* Only zero is looked at: a fork that fails goes on like the parent of one
\* that succeeded, and closes the connection.
Fork ==
    /\ pc = "fork" /\ pc' = "close"
    /\ IF Vacant = {} THEN UNCHANGED worker
       ELSE \E s \in Vacant :
              worker' = [worker EXCEPT ![s] = [Free EXCEPT !.state = "read", !.conn = r12]]
    /\ UNCHANGED <<sockfd, r12, held, queue, client, lingering>>

\* Mutant: the server leaves the connection to its worker.
CloseOmitted ==
    /\ pc = "close" /\ pc' = "accept"
    /\ UNCHANGED <<sockfd, r12, held, queue, worker, client, lingering>>

\* Mutant: the jump goes back to the fork, the connection open.
CloseForksAgain ==
    /\ pc = "close" /\ pc' = "wait1"
    /\ UNCHANGED <<sockfd, r12, held, queue, worker, client, lingering>>

\* The port remembers a connection the server's side is the first to close.
CloseConnection ==
    /\ pc = "close" /\ pc' = "accept"
    /\ held' = held \ {r12}
    /\ lingering' \in {lingering, TRUE}
    /\ UNCHANGED <<sockfd, r12, queue, worker, client>>

Server ==
    \/ Socket \/ Bind \/ BindError \/ Listen
    \/ Accept \/ Wait1 \/ Wait2 \/ Fork \/ CloseConnection

-----------------------------------------------------------------------------
\* The worker blocks until its client has sent the request or left.
Read(s) ==
    /\ worker[s].state = "read" /\ client[worker[s].conn] # "connected"
    /\ worker' = [worker EXCEPT ![s].state = "reply"]
    /\ UNCHANGED <<serverVars, queue, client, lingering>>

\* Mutant: workers share r12 with the server, as threads would a variable.
ReplyToLatest(s) ==
    /\ worker[s].state = "reply" /\ r12 # None
    /\ worker' = [worker EXCEPT ![s].state = "close"]
    /\ client' = [client EXCEPT ![r12] = IF @ = "gone" THEN @ ELSE "answered"]
    /\ UNCHANGED <<serverVars, queue, lingering>>

\* Writing to a client that has left may end the worker with SIGPIPE.
Reply(s) ==
    /\ worker[s].state = "reply"
    /\ UNCHANGED <<serverVars, lingering>>
    /\ \/ /\ worker' = [worker EXCEPT ![s].state = "close"]
          /\ client' = [client EXCEPT ![worker[s].conn] = IF @ = "gone" THEN @ ELSE "answered"]
          /\ UNCHANGED queue
       \/ /\ client[worker[s].conn] = "gone"
          /\ worker' = [worker EXCEPT ![s] = Ended(@)]
          /\ KeepQueue
          /\ UNCHANGED client

WorkerClose(s) ==
    /\ worker[s].state = "close"
    /\ worker' = [worker EXCEPT ![s].state = "exit", ![s].conn = None]
    /\ lingering' \in {lingering, TRUE}
    /\ UNCHANGED <<serverVars, queue, client>>

WorkerExit(s) ==
    /\ worker[s].state = "exit"
    /\ worker' = [worker EXCEPT ![s] = Ended(@)]
    /\ UNCHANGED <<serverVars, client, lingering>>
    /\ KeepQueue

Worker(s) == Read(s) \/ Reply(s) \/ WorkerClose(s) \/ WorkerExit(s)

-----------------------------------------------------------------------------
\* The server is bound to the loopback address: to other hosts nothing listens.
Bound(c) == c \notin Remote

Connect(c) ==
    /\ client[c] = "away"
    /\ \/ /\ Listening /\ Bound(c) /\ Len(queue) < Backlog
          /\ queue' = Append(queue, c)
          /\ client' = [client EXCEPT ![c] = "connected"]
       \/ /\ Listening /\ ~Bound(c)
          /\ client' = [client EXCEPT ![c] = "refused"]
          /\ UNCHANGED queue
    /\ UNCHANGED <<serverVars, worker, lingering>>

Send(c) ==
    /\ client[c] = "connected"
    /\ client' = [client EXCEPT ![c] = "sent"]
    /\ UNCHANGED <<serverVars, queue, worker, lingering>>

Leave(c) ==
    /\ client[c] \in {"connected", "sent", "answered"}
    /\ client' = [client EXCEPT ![c] = "gone"]
    /\ UNCHANGED <<serverVars, queue, worker, lingering>>

\* The connection is over for a client when nobody has its other end open.
EndOfConnection(c) ==
    /\ client[c] \in {"connected", "sent", "answered", "gone"} /\ ~IsOpen(c)
    /\ client' = [client EXCEPT ![c] = "away"]
    /\ UNCHANGED <<serverVars, queue, worker, lingering>>

Expire ==
    /\ lingering /\ lingering' = FALSE
    /\ UNCHANGED <<serverVars, queue, worker, client>>

-----------------------------------------------------------------------------
ServerDies ==
    /\ pc' = "down" /\ sockfd' = FALSE /\ r12' = None /\ held' = {}
    /\ lingering' \in {lingering, TRUE}
    /\ UNCHANGED client

\* "kill [pid]": the workers are orphans now, and init reaps the zombies.
Kill ==
    /\ Killable /\ pc \notin {"down", "exited"}
    /\ ServerDies
    /\ worker' = [s \in Slot |-> IF AtWork(s) THEN [worker[s] EXCEPT !.orphan = TRUE] ELSE Free]
    /\ KeepQueue

\* "ctrl-C" reaches every process of the terminal.
Interrupt ==
    /\ Killable /\ pc \notin {"down", "exited"}
    /\ ServerDies
    /\ worker' = [s \in Slot |-> Free]
    /\ queue' = <<>>

Restart ==
    /\ Killable /\ pc \in {"down", "exited"}
    /\ pc' = "socket"
    /\ UNCHANGED <<sockfd, r12, held, queue, worker, client, lingering>>

Next ==
    \/ Server
    \/ \E s \in Slot : Worker(s)
    \/ \E c \in Client : Connect(c) \/ Send(c) \/ Leave(c) \/ EndOfConnection(c)
    \/ Expire \/ Kill \/ Interrupt \/ Restart

\* Processes run; a client that has connected sends its request or leaves, and
\* sees the end of its connection; the kernel frees the port in the end.
\* Nobody has to connect, to kill or to restart.
Fairness ==
    /\ WF_vars(Server) /\ WF_vars(Expire)
    /\ \A s \in Slot : WF_vars(Worker(s))
    /\ \A c \in Client : WF_vars(Send(c) \/ EndOfConnection(c))

Spec == Init /\ [][Next]_vars /\ Fairness

-----------------------------------------------------------------------------
TypeOK ==
    /\ pc \in Serving \cup {"socket", "bind", "listen", "down", "exited"}
    /\ sockfd \in BOOLEAN
    /\ r12 \in Client \cup {None}
    /\ held \in SUBSET Client
    /\ queue \in Seq(Client) /\ Len(queue) <= Backlog
    /\ worker \in [Slot -> [state : {"free", "read", "reply", "close", "exit", "zombie"},
                            conn : Client \cup {None}, orphan : BOOLEAN]]
    /\ client \in [Client -> {"away", "connected", "sent", "answered", "gone", "refused"}]
    /\ lingering \in BOOLEAN

\* The server waits for connections with none open, whatever happened to the
\* last one: it never runs out of descriptors.
NoneKept == pc = "accept" => held = {}

\* A connection is in one place: the queue, the server that has just accepted
\* it, or the one worker that answers it (with the server until it closes).
OnePlace ==
    \A c \in Client :
        /\ Cardinality({s \in Slot : Holds(s, c)}) <= 1
        /\ Cardinality({i \in DOMAIN queue : queue[i] = c}) <= 1
        /\ c \in Queued => c \notin held /\ \A s \in Slot : ~Holds(s, c)

\* Nobody is answered who has not sent a request.
AnswersFollowRequests ==
    [][\A c \in Client :
         client'[c] = "answered" => client[c] \in {"sent", "answered"}]_vars

\* The server drops a connection for want of a process only if it has just
\* found every one of its children still at work.
DropsOnlyWhenBusy ==
    [][pc = "wait2" /\ pc' = "fork" /\ Vacant' = {} => Zombies' = {}]_vars

\* Two waits for one fork: the zombies of a burst are worked off by later
\* connections that come one by one, down to the worker of the last of them.
ZombiesSubside ==
    ([]<>(pc = "fork") /\ <>[](pc = "fork" => \A s \in Slot : ~AtWork(s)))
        => <>[](Cardinality(Zombies) <= 1)

\* Every connection ends, answered or dropped, through kills and restarts.
ConnectionsEnd ==
    \A c \in Client :
        client[c] \in {"connected", "sent", "answered", "gone"} ~> client[c] = "away"

\* The server keeps trying until it may bind again: once started it serves
\* unless it is killed first, however many workers an earlier one left.
ServesAgain == pc = "bind" /\ sockfd ~> pc \in {"accept", "down"}

\* "two waits to prevent zombie processes": a worker that has ended is reaped.
ZombiesPrevented == \A s \in Slot : worker[s].state = "zombie" ~> worker[s].state # "zombie"

=============================================================================
