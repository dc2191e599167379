-------------------------- MODULE HTTPServer_proofs --------------------------
(***************************************************************************)
(* The connections of HTTPServer are in one place each and none is kept,   *)
(* and only requests are answered, for any clients, processes, queue       *)
(* length and faults.                                                      *)
(***************************************************************************)
EXTENDS HTTPServer, FiniteSetTheorems, TLAPS

States == {"free", "read", "reply", "close", "exit", "zombie"}
Serves == {"read", "reply", "close"}
Outside == {"away", "refused"}
Entry == [state : States, conn : Client \cup {None}, orphan : BOOLEAN]

-----------------------------------------------------------------------------
(* The inductive invariant.                                                *)

ServerTyped ==
    /\ pc \in Serving \cup {"socket", "bind", "listen", "down", "exited"}
    /\ sockfd \in BOOLEAN /\ lingering \in BOOLEAN
    /\ r12 \in Client \cup {None}
    /\ held \in SUBSET Client

QueueTyped == queue \in Seq(Client) /\ Len(queue) <= Backlog

WorkerTyped == worker \in [Slot -> Entry]

ClientTyped ==
    client \in [Client -> {"away", "connected", "sent", "answered", "gone", "refused"}]

\* The server process holds the connection it has accepted last from accept
\* to close, and no other.
HeldInv ==
    held = IF pc \in {"wait1", "wait2", "fork", "close"} THEN {r12} ELSE {}

\* No connection is queued twice.
Distinct == \A i, j \in 1..Len(queue) : queue[i] = queue[j] => i = j

\* What is queued is neither with the server nor with a worker.
Apart ==
    \A i \in 1..Len(queue) :
        queue[i] \notin held /\ \A s \in Slot : ~Holds(s, queue[i])

\* The server has a connection to itself until it forks.
Fresh == pc \in {"wait1", "wait2", "fork"} => \A s \in Slot : ~Holds(s, r12)

\* No two workers serve one connection.
Single == \A s, t \in Slot : \A c \in Client : Holds(s, c) /\ Holds(t, c) => s = t

\* A client that may connect, or was refused, has no open connection.
Clear ==
    \A c \in Client : client[c] \in Outside =>
        /\ c \notin held
        /\ \A i \in 1..Len(queue) : queue[i] # c
        /\ \A s \in Slot : ~Holds(s, c)

Types == ServerTyped /\ QueueTyped /\ WorkerTyped /\ ClientTyped

IInv ==
    /\ Types
    /\ HeldInv /\ Distinct /\ Apart /\ Fresh /\ Single /\ Clear

-----------------------------------------------------------------------------
(* Types.                                                                  *)

\* What each step makes of a worker's entry.
LEMMA EntryTyped ==
  ASSUME NEW w \in Entry
  PROVE  /\ Free \in Entry /\ Ended(w) \in Entry
         /\ \A state \in States : [w EXCEPT !.state = state] \in Entry
         /\ \A state \in States : [w EXCEPT !.state = state, !.conn = None] \in Entry
         /\ [w EXCEPT !.orphan = TRUE] \in Entry
         /\ \A c \in Client \cup {None} :
              [Free EXCEPT !.state = "read", !.conn = c] \in Entry
BY DEF Entry, Free, Ended, States

\* The queue loses its head.
LEMMA TailTyped ==
  ASSUME QueueTyped, queue # <<>>
  PROVE  /\ Head(queue) \in Client /\ Head(queue) = queue[1]
         /\ Tail(queue) \in Seq(Client) /\ Len(Tail(queue)) = Len(queue) - 1
         /\ \A i \in 1..Len(Tail(queue)) : Tail(queue)[i] = queue[i + 1]
         /\ Len(queue) \in Nat /\ 1 <= Len(queue) /\ Len(Tail(queue)) <= Backlog
<1>1. Len(queue) \in Nat /\ 1 <= Len(queue)
  BY DEF QueueTyped
<1>2. Head(queue) \in Client /\ Head(queue) = queue[1]
  BY DEF QueueTyped
<1>3. Tail(queue) \in Seq(Client) /\ Len(Tail(queue)) = Len(queue) - 1
  BY DEF QueueTyped
<1>4. \A i \in 1..Len(Tail(queue)) : Tail(queue)[i] = queue[i + 1]
  BY DEF QueueTyped
<1>5. Len(Tail(queue)) <= Backlog
  BY <1>1, <1>3, BacklogAssumption DEF QueueTyped
<1> QED
  BY <1>1, <1>2, <1>3, <1>4, <1>5

LEMMA EmptyTyped == <<>> \in Seq(Client) /\ Len(<<>>) = 0 /\ 0 <= Backlog
BY BacklogAssumption

LEMMA InitHolds == Init => IInv
<1> SUFFICES ASSUME Init PROVE IInv
  OBVIOUS
<1>1. Types
  <2>1. ServerTyped /\ QueueTyped /\ ClientTyped
    BY EmptyTyped DEF Init, ServerTyped, QueueTyped, ClientTyped
  <2>2. WorkerTyped
    BY DEF Init, WorkerTyped, Entry, Free, States
  <2> QED
    BY <2>1, <2>2 DEF Types
<1>2. \A s \in Slot : \A c : ~Holds(s, c)
  BY DEF Init, Holds, Free
<1>3. Distinct /\ Apart
  BY EmptyTyped DEF Init, Distinct, Apart
<1> QED
  BY <1>1, <1>2, <1>3, EmptyTyped DEF Init, IInv, HeldInv, Fresh, Single, Clear

\* The entry of one worker changes, if it changes to a typed one.
LEMMA WorkerStep ==
  ASSUME WorkerTyped, NEW s \in Slot, NEW w \in Entry, worker' = [worker EXCEPT ![s] = w]
  PROVE  /\ WorkerTyped' /\ worker'[s] = w
         /\ \A t \in Slot : t # s => worker'[t] = worker[t]
BY DEF WorkerTyped

\* A step after which the workers and the server hold no connection they did
\* not hold before, and the queue is as it was or lost, keeps the invariant.
LEMMA Fewer ==
  ASSUME IInv, Types', HeldInv', held' \subseteq held,
         \A s \in Slot : \A c \in Client : Holds(s, c)' => Holds(s, c),
         queue' = queue \/ queue' = <<>>,
         pc' \in {"wait1", "wait2", "fork"} =>
            pc \in {"wait1", "wait2", "fork"} /\ r12' = r12,
         \A c \in Client : client'[c] \in Outside => client[c] \in Outside
  PROVE  IInv'
<1>1. \A i \in 1..Len(queue') : i \in 1..Len(queue) /\ queue'[i] = queue[i] /\ queue[i] \in Client
  <2>1. CASE queue' = queue
    BY <2>1 DEF IInv, Types, QueueTyped
  <2>2. CASE queue' = <<>>
    BY <2>2, EmptyTyped
  <2> QED
    BY <2>1, <2>2
<1>2. Distinct'
  BY <1>1 DEF IInv, Distinct
<1>3. Apart'
  BY <1>1 DEF IInv, Apart
<1>4. Fresh'
  <2> SUFFICES ASSUME pc' \in {"wait1", "wait2", "fork"}, NEW s \in Slot PROVE ~Holds(s, r12)'
    BY DEF Fresh
  <2>1. r12' = r12 /\ ~Holds(s, r12)
    BY DEF IInv, Fresh
  <2>2. r12' \in Client
    BY DEF HeldInv, Types, ServerTyped
  <2> QED
    BY <2>1, <2>2 DEF Holds
<1>5. Single'
  BY DEF IInv, Single
<1>6. Clear'
  BY <1>1 DEF IInv, Clear
<1> QED
  BY <1>2, <1>3, <1>4, <1>5, <1>6 DEF IInv

-----------------------------------------------------------------------------
(* The steps.                                                              *)

\* What an entry serves.
LEMMA EntryHolds ==
  ASSUME NEW s \in Slot, NEW c \in Client
  PROVE  /\ worker'[s] = Free => ~Holds(s, c)'
         /\ worker'[s] = Ended(worker[s]) => ~Holds(s, c)'
         /\ worker'[s] = worker[s] => (Holds(s, c)' <=> Holds(s, c))
BY DEF Holds, Free, Ended

\* The server between socket and listen, with no connections yet.
LEMMA SetUpStep ==
  ASSUME IInv, Socket \/ Bind \/ BindError \/ Listen
  PROVE  IInv'
<1>1. UNCHANGED <<r12, held, queue, worker, client, lingering>>
  BY DEF Socket, Bind, BindError, Listen
<1>2. /\ pc \in {"socket", "bind", "listen"}
      /\ pc' \in {"bind", "listen", "accept", "exited"} /\ sockfd' \in BOOLEAN
  BY FaultAssumption DEF Socket, Bind, BindError, Listen, IInv, Types, ServerTyped
<1>3. Types'
  BY <1>1, <1>2 DEF IInv, Types, ServerTyped, QueueTyped, WorkerTyped, ClientTyped, Serving
<1>4. HeldInv'
  BY <1>1, <1>2 DEF IInv, HeldInv
<1> QED
  BY <1>1, <1>2, <1>3, <1>4, Fewer DEF Holds

\* accept moves a connection from the queue to the server.
LEMMA AcceptStep ==
  ASSUME IInv, Accept
  PROVE  IInv'
<1>1. /\ QueueTyped /\ Distinct /\ Apart /\ Clear /\ Types
      /\ pc = "accept" /\ pc' = "wait1" /\ held = {} /\ queue # <<>>
      /\ r12' = Head(queue) /\ held' = {Head(queue)} /\ queue' = Tail(queue)
      /\ UNCHANGED <<sockfd, worker, client, lingering>>
  BY DEF IInv, HeldInv, Types, Accept
<1>2. /\ Head(queue) \in Client /\ Head(queue) = queue[1] /\ 1 \in 1..Len(queue)
      /\ \A i \in 1..Len(queue') : /\ queue'[i] = queue[i + 1] /\ i + 1 \in 1..Len(queue)
                                   /\ i + 1 # 1
  BY <1>1, TailTyped
<1>3. Types'
  BY <1>1, <1>2, TailTyped
     DEF Types, ServerTyped, QueueTyped, WorkerTyped, ClientTyped, Serving
<1>4. \A s \in Slot : \A c : Holds(s, c)' <=> Holds(s, c)
  BY <1>1 DEF Holds
<1>5. HeldInv' /\ Fresh'
  BY <1>1, <1>2, <1>4 DEF HeldInv, Fresh, Apart, Holds
<1>6. Distinct'
  <2> SUFFICES ASSUME NEW i \in 1..Len(queue'), NEW j \in 1..Len(queue'), queue'[i] = queue'[j]
               PROVE  i = j
    BY DEF Distinct
  <2>1. i + 1 = j + 1
    BY <1>1, <1>2 DEF Distinct
  <2> QED
    BY <2>1
<1>7. Apart'
  BY <1>1, <1>2, <1>4 DEF Apart, Distinct, Holds
<1>8. Single'
  BY <1>4 DEF IInv, Single, Holds
<1>9. Clear'
  BY <1>1, <1>2, <1>4 DEF Clear, Holds
<1> QED
  BY <1>3, <1>5, <1>6, <1>7, <1>8, <1>9 DEF IInv

\* A wait frees the entry of a zombie, which serves nobody, or of nobody.
LEMMA WaitStep ==
  ASSUME IInv, NEW here, NEW next, Wait(here, next),
         \/ here = "wait1" /\ next = "wait2"
         \/ here = "wait2" /\ next = "fork"
  PROVE  IInv'
<1>1. /\ UNCHANGED <<sockfd, r12, held, queue, client, lingering>>
      /\ pc = here /\ pc' = next
      /\ WorkerTyped /\ ServerTyped /\ QueueTyped /\ ClientTyped /\ HeldInv
  BY DEF Wait, IInv, Types
<1>2. WorkerTyped' /\ \A s \in Slot : \A c \in Client : Holds(s, c)' => Holds(s, c)
  <2>1. CASE UNCHANGED worker
    BY <1>1, <2>1 DEF WorkerTyped, Holds
  <2>2. CASE \E s \in Zombies : worker' = [worker EXCEPT ![s] = Free]
    <3>1. PICK s \in Slot : worker' = [worker EXCEPT ![s] = Free]
      BY <2>2 DEF Zombies
    <3>2. Free \in Entry
      BY <1>1 DEF Entry, Free, States
    <3>3. /\ WorkerTyped' /\ worker'[s] = Free
          /\ \A t \in Slot : t # s => worker'[t] = worker[t]
      BY <1>1, <3>1, <3>2, WorkerStep
    <3> QED
      BY <3>3, EntryHolds
  <2> QED
    BY <2>1, <2>2 DEF Wait
<1>3. Types'
  BY <1>1, <1>2 DEF Types, ServerTyped, QueueTyped, ClientTyped, Serving
<1>4. HeldInv'
  BY <1>1 DEF HeldInv
<1> QED
  BY <1>1, <1>2, <1>3, <1>4, Fewer

\* fork gives the connection of the server to one worker, or to none.
LEMMA ForkStep ==
  ASSUME IInv, Fork
  PROVE  IInv'
<1>1. /\ UNCHANGED <<sockfd, r12, held, queue, client, lingering>>
      /\ pc = "fork" /\ pc' = "close" /\ Types /\ HeldInv /\ WorkerTyped
      /\ held = {r12} /\ r12 \in Client
  BY DEF Fork, IInv, Types, HeldInv, ServerTyped
<1>2. HeldInv'
  BY <1>1 DEF HeldInv
<1>3. CASE UNCHANGED worker
  <2>1. Types'
    BY <1>1, <1>3
       DEF Types, ServerTyped, QueueTyped, WorkerTyped, ClientTyped, Serving
  <2> QED
    BY <1>1, <1>2, <1>3, <2>1, Fewer DEF Holds
<1>4. CASE \E s \in Vacant :
             worker' = [worker EXCEPT ![s] = [Free EXCEPT !.state = "read", !.conn = r12]]
  <2> DEFINE w == [Free EXCEPT !.state = "read", !.conn = r12]
  <2>1. PICK s \in Slot : worker' = [worker EXCEPT ![s] = w]
    BY <1>4 DEF Vacant
  <2>2. w \in Entry
    BY <1>1 DEF Entry, Free, States
  <2>3. w.conn = r12
    BY DEF Free
  <2> HIDE DEF w
  <2>4. /\ WorkerTyped' /\ worker'[s] = w
        /\ \A t \in Slot : t # s => worker'[t] = worker[t]
    BY <1>1, <2>1, <2>2, WorkerStep
  <2>5. Types'
    BY <1>1, <2>4 DEF Types, ServerTyped, QueueTyped, ClientTyped, Serving
  \* Only the new worker has gained a connection, and it had no worker yet.
  <2>6. \A t \in Slot : \A c \in Client :
          Holds(t, c)' => Holds(t, c) \/ (t = s /\ c = r12)
    BY <2>3, <2>4, EntryHolds DEF Holds
  <2>7. \A t \in Slot : ~Holds(t, r12)
    BY <1>1 DEF IInv, Fresh
  <2>8. Single'
    BY <2>6, <2>7 DEF IInv, Single
  <2>9. Apart'
    <3> SUFFICES ASSUME NEW i \in 1..Len(queue')
                 PROVE  queue[i] \notin held' /\ \A t \in Slot : ~Holds(t, queue[i])'
      BY <1>1 DEF Apart, Holds
    <3>1. i \in 1..Len(queue) /\ queue[i] \in Client
      BY <1>1 DEF Types, QueueTyped
    <3>2. queue[i] \notin held /\ \A t \in Slot : ~Holds(t, queue[i])
      BY <3>1 DEF IInv, Apart
    <3> QED
      BY <1>1, <2>6, <3>1, <3>2
  <2>10. Clear'
    BY <1>1, <2>6 DEF IInv, Clear
  <2>11. Distinct' /\ Fresh'
    BY <1>1 DEF IInv, Distinct, Fresh
  <2> QED
    BY <1>2, <2>5, <2>8, <2>9, <2>10, <2>11 DEF IInv
<1> QED
  BY <1>3, <1>4 DEF Fork

\* The server closes its descriptor of the connection, its only one.
LEMMA CloseStep ==
  ASSUME IInv, CloseConnection
  PROVE  IInv'
<1>1. /\ UNCHANGED <<sockfd, r12, queue, worker, client>>
      /\ pc = "close" /\ pc' = "accept" /\ Types /\ held = {r12} /\ held' = {}
      /\ lingering' \in BOOLEAN
  BY DEF CloseConnection, IInv, HeldInv, Types, ServerTyped
<1>2. Types'
  BY <1>1 DEF Types, ServerTyped, QueueTyped, WorkerTyped, ClientTyped, Serving
<1>3. HeldInv'
  BY <1>1 DEF HeldInv
<1> QED
  BY <1>1, <1>2, <1>3, Fewer DEF Holds

\* A worker goes on with the connection it has, or without it.
LEMMA WorkersStep ==
  ASSUME IInv, NEW s \in Slot, Worker(s)
  PROVE  IInv'
<1> DEFINE w == worker[s]
<1>1. /\ Types /\ HeldInv /\ ServerTyped /\ QueueTyped /\ WorkerTyped /\ ClientTyped
      /\ w \in Entry
  BY DEF IInv, Types, WorkerTyped
<1>2. UNCHANGED serverVars /\ lingering' \in BOOLEAN
  BY <1>1 DEF Worker, Read, Reply, WorkerClose, WorkerExit, serverVars, ServerTyped
<1>3. queue' = queue \/ queue' = <<>>
  BY DEF Worker, Read, Reply, WorkerClose, WorkerExit, KeepQueue
<1>4. ClientTyped' /\ \A c \in Client : client'[c] \in Outside => client[c] \in Outside
  <2>1. CASE Reply(s)
    BY <1>1, <2>1 DEF Reply, ClientTyped, Outside
  <2>2. CASE UNCHANGED client
    BY <1>1, <2>2 DEF ClientTyped
  <2> QED
    BY <2>1, <2>2 DEF Worker, Read, WorkerClose, WorkerExit
<1>5. \/ \E state \in {"reply", "close"} :
           worker' = [worker EXCEPT ![s] = [w EXCEPT !.state = state]] /\ w.state \in Serves
      \/ worker' = [worker EXCEPT ![s] = [w EXCEPT !.state = "exit", !.conn = None]]
      \/ worker' = [worker EXCEPT ![s] = Ended(w)]
  BY <1>1 DEF Worker, Read, Reply, WorkerClose, WorkerExit, WorkerTyped, Serves
<1>6. WorkerTyped' /\ \A t \in Slot : \A c \in Client : Holds(t, c)' => Holds(t, c)
  <2>1. ASSUME NEW state \in {"reply", "close"}, w.state \in Serves,
               worker' = [worker EXCEPT ![s] = [w EXCEPT !.state = state]]
        PROVE  WorkerTyped' /\ \A t \in Slot : \A c \in Client : Holds(t, c)' => Holds(t, c)
    <3> DEFINE new == [w EXCEPT !.state = state]
    <3>1. new \in Entry /\ new.conn = w.conn
      BY <1>1 DEF Entry, States
    <3> HIDE DEF new
    <3>2. /\ WorkerTyped' /\ worker'[s] = new
          /\ \A t \in Slot : t # s => worker'[t] = worker[t]
      BY <1>1, <2>1, <3>1, WorkerStep DEF new
    <3> QED
      BY <2>1, <3>1, <3>2, EntryHolds DEF Holds, Serves
  <2>2. CASE worker' = [worker EXCEPT ![s] = [w EXCEPT !.state = "exit", !.conn = None]]
    <3> DEFINE new == [w EXCEPT !.state = "exit", !.conn = None]
    <3>1. new \in Entry /\ new.state = "exit"
      BY <1>1 DEF Entry, States
    <3> HIDE DEF new
    <3>2. /\ WorkerTyped' /\ worker'[s] = new
          /\ \A t \in Slot : t # s => worker'[t] = worker[t]
      BY <1>1, <2>2, <3>1, WorkerStep DEF new
    <3> QED
      BY <3>1, <3>2, EntryHolds DEF Holds
  <2>3. CASE worker' = [worker EXCEPT ![s] = Ended(w)]
    <3>1. Ended(w) \in Entry
      BY <1>1, EntryTyped
    <3>2. /\ WorkerTyped' /\ worker'[s] = Ended(w)
          /\ \A t \in Slot : t # s => worker'[t] = worker[t]
      BY <1>1, <2>3, <3>1, WorkerStep
    <3> QED
      BY <3>2, EntryHolds
  <2> QED
    BY <1>5, <2>1, <2>2, <2>3
<1>7. Types'
  <2>1. ServerTyped'
    BY <1>1, <1>2 DEF ServerTyped, serverVars, Serving
  <2>2. QueueTyped'
    BY <1>1, <1>3, EmptyTyped DEF QueueTyped
  <2> QED
    BY <1>4, <1>6, <2>1, <2>2 DEF Types
<1>8. HeldInv'
  BY <1>1, <1>2 DEF HeldInv, serverVars
<1> QED
  BY <1>2, <1>3, <1>4, <1>6, <1>7, <1>8, Fewer DEF serverVars

\* A client that may connect has no open connection: queueing it keeps every
\* connection in one place.
LEMMA ConnectStep ==
  ASSUME IInv, NEW c \in Client, Connect(c)
  PROVE  IInv'
<1>1. /\ UNCHANGED <<pc, sockfd, r12, held, worker, lingering>> /\ client[c] = "away"
      /\ Types /\ ServerTyped /\ QueueTyped /\ WorkerTyped /\ ClientTyped
      /\ HeldInv /\ Distinct /\ Apart /\ Fresh /\ Single /\ Clear
  BY DEF Connect, serverVars, IInv, Types
<1>2. /\ ClientTyped' /\ client[c] \in Outside
      /\ \A d \in Client : d # c => client'[d] = client[d]
  BY <1>1 DEF Connect, ClientTyped, Outside
<1>3. ServerTyped' /\ WorkerTyped' /\ HeldInv'
  BY <1>1 DEF ServerTyped, WorkerTyped, HeldInv, Serving
<1>4. CASE UNCHANGED queue
  <2>1. Types'
    BY <1>1, <1>2, <1>3, <1>4 DEF Types, QueueTyped
  <2>2. \A d \in Client : client'[d] \in Outside => client[d] \in Outside
    BY <1>2
  <2> QED
    BY <1>1, <1>3, <1>4, <2>1, <2>2, Fewer DEF Holds
<1>5. CASE /\ Len(queue) < Backlog /\ queue' = Append(queue, c)
           /\ client' = [client EXCEPT ![c] = "connected"]
  <2>1. /\ Len(queue) \in Nat /\ queue' \in Seq(Client) /\ Len(queue') = Len(queue) + 1
        /\ \A i \in 1..Len(queue) : queue'[i] = queue[i]
        /\ queue'[Len(queue) + 1] = c
    BY <1>1, <1>5 DEF QueueTyped
  <2>2. QueueTyped'
    BY <1>5, <2>1, BacklogAssumption DEF QueueTyped
  <2>3. \A i \in 1..Len(queue') : i \in 1..Len(queue) \/ (i = Len(queue) + 1 /\ queue'[i] = c)
    BY <2>1
  <2>4. /\ c \notin held /\ \A i \in 1..Len(queue) : queue[i] # c
        /\ \A s \in Slot : ~Holds(s, c)
    BY <1>1, <1>2 DEF Clear
  <2>5. Distinct'
    BY <1>1, <2>1, <2>3, <2>4 DEF Distinct
  <2>6. Apart'
    BY <1>1, <2>1, <2>3, <2>4 DEF Apart, Holds
  <2>7. Fresh' /\ Single'
    BY <1>1 DEF Fresh, Single, Holds
  <2>8. Clear'
    <3> SUFFICES ASSUME NEW d \in Client, client'[d] \in Outside
                 PROVE  /\ d \notin held' /\ \A i \in 1..Len(queue') : queue'[i] # d
                        /\ \A s \in Slot : ~Holds(s, d)'
      BY DEF Clear
    <3>1. d # c /\ client[d] \in Outside
      BY <1>1, <1>2, <1>5 DEF ClientTyped, Outside
    <3>2. /\ d \notin held /\ \A i \in 1..Len(queue) : queue[i] # d
          /\ \A s \in Slot : ~Holds(s, d)
      BY <1>1, <3>1 DEF Clear
    <3> QED
      BY <1>1, <2>1, <2>3, <3>1, <3>2 DEF Holds
  <2> QED
    BY <1>2, <1>3, <2>2, <2>5, <2>6, <2>7, <2>8 DEF IInv, Types
<1> QED
  BY <1>4, <1>5 DEF Connect

\* A client that sends, leaves or sees the end of its connection.
LEMMA ClientStep ==
  ASSUME IInv, NEW c \in Client, Send(c) \/ Leave(c) \/ EndOfConnection(c)
  PROVE  IInv'
<1>1. /\ UNCHANGED <<pc, sockfd, r12, held, queue, worker, lingering>>
      /\ Types /\ ClientTyped /\ HeldInv
  BY DEF Send, Leave, EndOfConnection, serverVars, IInv, Types
<1>2. Types'
  <2>1. ClientTyped'
    BY <1>1 DEF Send, Leave, EndOfConnection, ClientTyped
  <2> QED
    BY <1>1, <2>1 DEF Types, ServerTyped, QueueTyped, WorkerTyped, Serving
<1>3. HeldInv'
  BY <1>1 DEF HeldInv
<1>4. CASE EndOfConnection(c)
  <2>1. \A d \in Client : client'[d] \in Outside => client[d] \in Outside \/ d = c
    BY <1>1, <1>4 DEF EndOfConnection, ClientTyped
  <2>2. /\ c \notin held /\ \A s \in Slot : ~Holds(s, c)
        /\ \A i \in 1..Len(queue) : queue[i] # c
    BY <1>1, <1>4 DEF EndOfConnection, IsOpen, Queued, Types, QueueTyped
  <2>3. Clear'
    BY <1>1, <2>1, <2>2 DEF IInv, Clear, Holds
  <2>4. Distinct' /\ Apart' /\ Fresh' /\ Single'
    BY <1>1 DEF IInv, Distinct, Apart, Fresh, Single, Holds
  <2> QED
    BY <1>2, <1>3, <2>3, <2>4 DEF IInv
<1>5. CASE Send(c) \/ Leave(c)
  <2>1. \A d \in Client : client'[d] \in Outside => client[d] \in Outside
    BY <1>1, <1>5 DEF Send, Leave, ClientTyped, Outside
  <2> QED
    BY <1>1, <1>2, <1>3, <2>1, Fewer DEF Holds
<1> QED
  BY <1>4, <1>5

\* The end of the server process, its restart, and the port.
LEMMA FaultStep ==
  ASSUME IInv, Kill \/ Interrupt \/ Restart \/ Expire
  PROVE  IInv'
<1>1. Types /\ ServerTyped /\ QueueTyped /\ WorkerTyped /\ ClientTyped /\ HeldInv
  BY DEF IInv, Types
<1>2. CASE Kill \/ Interrupt
  <2>1. /\ pc' = "down" /\ sockfd' = FALSE /\ r12' = None /\ held' = {}
        /\ lingering' \in BOOLEAN /\ UNCHANGED client /\ (queue' = queue \/ queue' = <<>>)
    BY <1>1, <1>2 DEF Kill, Interrupt, ServerDies, KeepQueue, ServerTyped
  <2>2. \A s \in Slot : /\ worker'[s] \in Entry
                        /\ worker'[s] = Free \/ worker'[s].conn = worker[s].conn
                        /\ worker'[s] = Free \/ worker'[s].state = worker[s].state
    <3> SUFFICES ASSUME NEW s \in Slot
                 PROVE  /\ worker'[s] \in Entry
                        /\ worker'[s] = Free \/ worker'[s].conn = worker[s].conn
                        /\ worker'[s] = Free \/ worker'[s].state = worker[s].state
      OBVIOUS
    <3>1. worker[s] \in Entry
      BY <1>1 DEF WorkerTyped
    <3>2. worker'[s] = Free \/ worker'[s] = [worker[s] EXCEPT !.orphan = TRUE]
      BY <1>1, <1>2 DEF Kill, Interrupt, WorkerTyped
    <3>3. CASE worker'[s] = Free
      BY <3>1, <3>3, EntryTyped
    <3>4. CASE worker'[s] = [worker[s] EXCEPT !.orphan = TRUE]
      <4> DEFINE w == worker[s]
                 new == [w EXCEPT !.orphan = TRUE]
      <4>1. w \in Entry
        BY <3>1
      <4> HIDE DEF w
      <4>2. new \in Entry /\ new.conn = w.conn /\ new.state = w.state
        BY <4>1 DEF Entry
      <4> QED
        BY <3>4, <4>2 DEF w
    <3> QED
      BY <3>2, <3>3, <3>4
  <2>3. \A s \in Slot : \A c \in Client : Holds(s, c)' => Holds(s, c)
    BY <2>2 DEF Holds, Free
  <2>4. WorkerTyped'
    <3>1. worker' = [s \in Slot |-> worker'[s]]
      BY <1>2 DEF Kill, Interrupt
    <3> QED
      BY <2>2, <3>1 DEF WorkerTyped
  <2>5. Types'
    BY <1>1, <2>1, <2>4, EmptyTyped DEF Types, ServerTyped, QueueTyped, ClientTyped
  <2>6. HeldInv'
    BY <2>1 DEF HeldInv
  <2> QED
    BY <2>1, <2>3, <2>5, <2>6, Fewer
<1>3. CASE Restart \/ Expire
  <2>1. /\ UNCHANGED <<sockfd, r12, held, queue, worker, client>>
        /\ UNCHANGED <<pc, held>> \/ (pc' = "socket" /\ pc \in {"down", "exited"})
        /\ lingering' \in BOOLEAN
    BY <1>1, <1>3 DEF Restart, Expire, serverVars, ServerTyped
  <2>2. Types'
    BY <1>1, <2>1 DEF Types, ServerTyped, QueueTyped, WorkerTyped, ClientTyped, Serving
  <2>3. HeldInv'
    BY <1>1, <2>1 DEF HeldInv
  <2> QED
    BY <2>1, <2>2, <2>3, Fewer DEF Holds
<1> QED
  BY <1>2, <1>3

LEMMA Invariant == Spec => []IInv
<1>1. ASSUME IInv, [Next]_vars PROVE IInv'
  <2>1. CASE UNCHANGED vars
    BY <1>1, <2>1
       DEF vars, IInv, Types, ServerTyped, QueueTyped, WorkerTyped, ClientTyped, HeldInv,
           Distinct, Apart, Fresh, Single, Clear, Holds
  <2>2. CASE Server
    BY <1>1, <2>2, SetUpStep, AcceptStep, WaitStep, ForkStep, CloseStep
       DEF Server, Wait1, Wait2
  <2> QED
    BY <1>1, <2>1, <2>2, WorkersStep, ConnectStep, ClientStep, FaultStep DEF Next
<1> QED
  BY <1>1, InitHolds, PTL DEF Spec

-----------------------------------------------------------------------------
(* The theorems.                                                           *)

\* The variables keep their types: in particular no more than Backlog
\* connections are queued, and no failed accept is taken for a connection.
THEOREM TypeCorrect == Spec => []TypeOK
<1>1. IInv => TypeOK
  BY DEF IInv, Types, ServerTyped, QueueTyped, WorkerTyped, ClientTyped, TypeOK, Entry, States
<1> QED
  BY <1>1, Invariant, PTL

\* The server waits for the next connection with none open, whether or not the
\* fork for the last one succeeded: however many connections come, it does not
\* run out of descriptors.
THEOREM NoneKeptCorrect == Spec => []NoneKept
<1>1. IInv => NoneKept
  BY DEF IInv, HeldInv, NoneKept
<1> QED
  BY <1>1, Invariant, PTL

\* A set with at most one member.
LEMMA AtMostOne ==
  ASSUME NEW S, \A x, y \in S : x = y
  PROVE  Cardinality(S) <= 1
<1>1. CASE S = {}
  BY <1>1, FS_EmptySet
<1>2. CASE S # {}
  <2>1. PICK x \in S : S = {x}
    BY <1>2
  <2> QED
    BY <2>1, FS_Singleton
<1> QED
  BY <1>1, <1>2

\* Every connection is in one place at a time, for any number of clients and
\* worker processes, through kills and restarts: no connection is answered
\* twice or queued again while it is served.
THEOREM OnePlaceCorrect == Spec => []OnePlace
<1>1. ASSUME IInv PROVE OnePlace
  <2> SUFFICES ASSUME NEW c \in Client
               PROVE  /\ Cardinality({s \in Slot : Holds(s, c)}) <= 1
                      /\ Cardinality({i \in DOMAIN queue : queue[i] = c}) <= 1
                      /\ c \in Queued => c \notin held /\ \A s \in Slot : ~Holds(s, c)
    BY DEF OnePlace
  <2>1. DOMAIN queue = 1..Len(queue)
    BY <1>1 DEF IInv, Types, QueueTyped
  <2>2. Cardinality({s \in Slot : Holds(s, c)}) <= 1
    BY <1>1, AtMostOne DEF IInv, Single
  <2>3. Cardinality({i \in DOMAIN queue : queue[i] = c}) <= 1
    BY <1>1, <2>1, AtMostOne DEF IInv, Distinct
  <2>4. c \in Queued => c \notin held /\ \A s \in Slot : ~Holds(s, c)
    BY <1>1, <2>1 DEF IInv, Apart, Queued
  <2> QED
    BY <2>2, <2>3, <2>4
<1> QED
  BY <1>1, Invariant, PTL

\* The second wait leaves a process to fork or no zombie: a connection is dropped
\* only when every process the server may have is at work.
THEOREM DropsOnlyWhenBusyCorrect == Spec => DropsOnlyWhenBusy
<1> DEFINE Drop == pc = "wait2" /\ pc' = "fork" /\ Vacant' = {} => Zombies' = {}
<1>1. ASSUME IInv, [Next]_vars PROVE Drop
  <2> SUFFICES ASSUME pc = "wait2", pc' = "fork", Vacant' = {} PROVE Zombies' = {}
    OBVIOUS
  <2>1. Wait2
    BY <1>1 DEF Next, vars, serverVars, Server, Socket, Bind, BindError, Listen, Accept,
       Wait1, Wait, Fork, CloseConnection, Worker, Read, Reply, WorkerClose, WorkerExit,
       Connect, Send, Leave, EndOfConnection, Expire, Kill, Interrupt, ServerDies, Restart
  <2>2. CASE Zombies = {}
    BY <2>1, <2>2 DEF Wait2, Wait, Zombies
  <2>3. CASE Zombies # {}
    <3>1. PICK s \in Slot : worker' = [worker EXCEPT ![s] = Free]
      BY <2>1, <2>3 DEF Wait2, Wait, Zombies
    <3>2. worker'[s].state = "free"
      BY <1>1, <3>1 DEF IInv, Types, WorkerTyped, Free
    <3> QED
      BY <3>2 DEF Vacant
  <2> QED
    BY <2>2, <2>3
<1>2. Spec => [][Drop]_vars
  BY <1>1, Invariant, PTL DEF Spec
<1> QED
  BY <1>2 DEF DropsOnlyWhenBusy

-----------------------------------------------------------------------------
(* Answers follow requests.                                                *)

\* A worker serves a client, and is about to reply only after that client has
\* sent its request or left.
Asked ==
    \A s \in Slot :
        /\ worker[s].state \in Serves => worker[s].conn \in Client
        /\ worker[s].state = "reply" => client[worker[s].conn] # "connected"

\* A process that serves after a step served the same client before it, and
\* replies only if it was to reply or found the request.
Continues(s) ==
    worker'[s].state \in Serves =>
        /\ worker[s].state \in Serves /\ worker'[s].conn = worker[s].conn
        /\ worker'[s].state = "reply" =>
             worker[s].state = "reply" \/ client[worker[s].conn] # "connected"

LEMMA AskedRemains ==
  ASSUME Asked, \A s \in Slot : Continues(s),
         \A c \in Client : client'[c] = "connected" => client[c] = "connected"
  PROVE  Asked'
BY DEF Asked, Continues, Serves

LEMMA SameContinues ==
  ASSUME NEW s \in Slot,
         worker'[s] \in {worker[s], Free, Ended(worker[s])}
  PROVE  Continues(s)
BY DEF Continues, Free, Ended, Serves

\* fork is the only step that gives a process a client: the one the server
\* has accepted.
LEMMA AskedServer ==
  ASSUME IInv, Asked, Server
  PROVE  Asked'
<1>1. UNCHANGED client /\ WorkerTyped
  BY DEF Server, Socket, Bind, BindError, Listen, Accept, Wait1, Wait2, Wait, Fork,
         CloseConnection, IInv, Types
<1>2. CASE UNCHANGED worker
  BY <1>1, <1>2, SameContinues, AskedRemains
<1>3. CASE \E s \in Slot : worker' = [worker EXCEPT ![s] = Free]
  <2>1. \A t \in Slot : worker'[t] = worker[t] \/ worker'[t] = Free
    BY <1>1, <1>3 DEF WorkerTyped
  <2> QED
    BY <1>1, <2>1, SameContinues, AskedRemains
<1>4. CASE Fork /\ Vacant # {}
  <2> DEFINE w == [Free EXCEPT !.state = "read", !.conn = r12]
  <2>1. PICK s \in Slot : worker' = [worker EXCEPT ![s] = w]
    BY <1>4 DEF Fork, Vacant
  <2>2. w.conn \in Client /\ w.state = "read"
    BY <1>4 DEF IInv, Types, ServerTyped, HeldInv, Fork, Free
  <2> HIDE DEF w
  <2>3. \A t \in Slot : worker'[t] = IF t = s THEN w ELSE worker[t]
    BY <1>1, <2>1 DEF WorkerTyped
  <2> QED
    BY <1>1, <2>2, <2>3 DEF Asked
<1>5. \/ UNCHANGED worker
      \/ \E s \in Slot : worker' = [worker EXCEPT ![s] = Free]
      \/ Fork /\ Vacant # {}
  BY DEF Server, Socket, Bind, BindError, Listen, Accept, Wait1, Wait2, Wait, Fork,
         CloseConnection, Zombies
<1> QED
  BY <1>2, <1>3, <1>4, <1>5

\* A worker goes on to reply when its client is no longer silent.
LEMMA AskedWorker ==
  ASSUME IInv, Asked, NEW s \in Slot, Worker(s)
  PROVE  Asked'
<1>1. WorkerTyped /\ ClientTyped /\ worker[s] \in Entry
  BY DEF IInv, Types, WorkerTyped
<1>2. \A c \in Client : client'[c] = "connected" => client[c] = "connected"
  BY <1>1 DEF Worker, Read, Reply, WorkerClose, WorkerExit, ClientTyped
<1>3. \A t \in Slot : t # s => worker'[t] = worker[t]
  BY <1>1 DEF Worker, Read, Reply, WorkerClose, WorkerExit, WorkerTyped
<1>4. Continues(s)
  <2>1. CASE Read(s)
    BY <1>1, <2>1 DEF Read, Continues, WorkerTyped, Entry, Serves
  <2>2. CASE Reply(s) /\ worker' = [worker EXCEPT ![s].state = "close"]
    BY <1>1, <2>2 DEF Reply, Continues, WorkerTyped, Entry, Serves
  <2>3. CASE WorkerClose(s)
    BY <1>1, <2>3 DEF WorkerClose, Continues, WorkerTyped, Entry, Serves
  <2>4. CASE worker' = [worker EXCEPT ![s] = Ended(@)]
    <3>1. worker'[s] = Ended(worker[s])
      BY <1>1, <2>4 DEF WorkerTyped
    <3> QED
      BY <3>1, SameContinues
  <2> QED
    BY <2>1, <2>2, <2>3, <2>4 DEF Worker, Reply, WorkerExit
<1> QED
  BY <1>2, <1>3, <1>4, SameContinues, AskedRemains

\* Only who is outside connects, and no worker serves it.
LEMMA AskedClient ==
  ASSUME IInv, Asked, NEW c \in Client,
         Connect(c) \/ Send(c) \/ Leave(c) \/ EndOfConnection(c)
  PROVE  Asked'
<1>1. UNCHANGED worker /\ ClientTyped
  BY DEF Connect, Send, Leave, EndOfConnection, IInv, Types
<1>2. CASE client'[c] # "connected"
  <2>1. \A d \in Client : client'[d] = "connected" => client[d] = "connected"
    BY <1>1, <1>2 DEF Connect, Send, Leave, EndOfConnection, ClientTyped
  <2> QED
    BY <1>1, <2>1, SameContinues, AskedRemains
<1>3. CASE client'[c] = "connected"
  <2>1. client[c] \in Outside /\ \A d \in Client : d # c => client'[d] = client[d]
    BY <1>1, <1>3 DEF Connect, Send, Leave, EndOfConnection, ClientTyped, Outside
  <2>2. \A s \in Slot : ~Holds(s, c)
    BY <2>1 DEF IInv, Clear
  <2> QED
    BY <1>1, <2>1, <2>2 DEF Asked, Holds, Serves
<1> QED
  BY <1>2, <1>3

\* The end of the server process leaves the workers as they are, or ends them.
LEMMA AskedFault ==
  ASSUME IInv, Asked, Kill \/ Interrupt \/ Restart \/ Expire
  PROVE  Asked'
<1>1. UNCHANGED client /\ WorkerTyped
  BY DEF Kill, Interrupt, ServerDies, Restart, Expire, IInv, Types
<1>2. CASE Kill \/ Interrupt
  <2> SUFFICES ASSUME NEW s \in Slot PROVE Continues(s)
    BY <1>1, AskedRemains
  <2> DEFINE w == worker[s]
  <2>1. worker'[s] = Free \/ worker'[s] = [w EXCEPT !.orphan = TRUE]
    BY <1>2 DEF Kill, Interrupt
  <2>2. w \in Entry
    BY <1>1 DEF WorkerTyped
  <2> HIDE DEF w
  <2>3. [w EXCEPT !.orphan = TRUE].conn = w.conn /\ [w EXCEPT !.orphan = TRUE].state = w.state
    BY <2>2 DEF Entry
  <2>4. CASE worker'[s] = Free
    BY <2>4, SameContinues
  <2>5. CASE worker'[s].conn = w.conn /\ worker'[s].state = w.state
    BY <2>5 DEF w, Continues, Serves
  <2> QED
    BY <2>1, <2>3, <2>4, <2>5
<1>3. CASE Restart \/ Expire
  <2>1. UNCHANGED worker
    BY <1>3 DEF Restart, Expire
  <2> QED
    BY <1>1, <2>1, SameContinues, AskedRemains
<1> QED
  BY <1>2, <1>3

LEMMA AskedInvariant == Spec => []Asked
<1>1. Init => Asked
  BY DEF Init, Asked, Free, Serves
<1>2. ASSUME IInv, Asked, [Next]_vars PROVE Asked'
  <2>1. CASE UNCHANGED vars
    BY <1>2, <2>1 DEF vars, Asked
  <2> QED
    BY <1>2, <2>1, AskedServer, AskedWorker, AskedClient, AskedFault DEF Next
<1> QED
  BY <1>1, <1>2, Invariant, PTL DEF Spec

\* Nobody is answered who has not sent a request, though requests, replies,
\* departures and the end of the server come in any order: the worker that
\* replies serves a client that is connected, and has waited for its request.
THEOREM AnswersFollowRequestsCorrect == Spec => AnswersFollowRequests
<1> DEFINE Answer == \A c \in Client :
                       client'[c] = "answered" => client[c] \in {"sent", "answered"}
<1>1. ASSUME IInv, Asked, [Next]_vars PROVE Answer
  <2>1. ClientTyped
    BY <1>1 DEF IInv, Types
  <2>2. ASSUME NEW s \in Slot, Reply(s) PROVE Answer
    <3>1. CASE UNCHANGED client
      BY <3>1
    <3>2. CASE client' = [client EXCEPT ![worker[s].conn] = IF @ = "gone" THEN @ ELSE "answered"]
      <4>1. /\ worker[s].conn \in Client /\ client[worker[s].conn] # "connected"
            /\ Holds(s, worker[s].conn)
        BY <1>1, <2>2 DEF Reply, Asked, Serves, Holds
      <4>2. client[worker[s].conn] \notin Outside
        BY <1>1, <4>1 DEF IInv, Clear
      <4>3. client[worker[s].conn] \in {"sent", "answered", "gone"}
        BY <2>1, <4>1, <4>2 DEF ClientTyped, Outside
      <4> QED
        BY <2>1, <3>2, <4>1, <4>3 DEF ClientTyped
    <3> QED
      BY <2>2, <3>1, <3>2 DEF Reply
  <2>3. ASSUME NEW c \in Client, Connect(c) \/ Send(c) \/ Leave(c) \/ EndOfConnection(c)
        PROVE  Answer
    BY <2>1, <2>3 DEF Connect, Send, Leave, EndOfConnection, ClientTyped
  <2>4. CASE UNCHANGED client
    BY <2>4
  <2> QED
    BY <1>1, <2>2, <2>3, <2>4
       DEF Next, vars, Server, Socket, Bind, BindError, Listen, Accept, Wait1, Wait2, Wait,
           Fork, CloseConnection, Worker, Read, WorkerClose, WorkerExit, Expire, Kill,
           Interrupt, ServerDies, Restart
<1>2. Spec => [][Answer]_vars
  BY <1>1, Invariant, AskedInvariant, PTL DEF Spec
<1> QED
  BY <1>2 DEF AnswersFollowRequests

=============================================================================
