-------------------------- MODULE PipeDemo6_proofs --------------------------
(***************************************************************************)
(* Safety of PipeDemo6 for every message, every pipe capacity and every    *)
(* combination of the faults.                                              *)
(***************************************************************************)
EXTENDS PipeDemo6, TLAPS

Byte == 0..255

PipesTyped == data \in [Pipes -> Seq(Byte)] /\ \A p \in Pipes : Len(data[p]) <= Capacity
EndsTyped == readers \in [Pipes -> SUBSET Process] /\ writers \in [Pipes -> SUBSET Process]

-----------------------------------------------------------------------------
(* What the kernel's operators preserve.                                   *)

\* A write that does not block keeps the pipe within its capacity.
LEMMA PutTyped ==
  ASSUME PipesTyped, NEW p \in Pipes, NEW byte \in Byte, CanWrite(p), Put(p, byte)
  PROVE  PipesTyped'
<1>1. data' = [data EXCEPT ![p] = Append(data[p], byte)]
  BY DEF Put
<1>2. Append(data[p], byte) \in Seq(Byte) /\ Len(Append(data[p], byte)) = Len(data[p]) + 1
  BY DEF PipesTyped
<1>3. Len(Append(data[p], byte)) <= Capacity
  <2>1. data[p] \in Seq(Byte)
    BY DEF PipesTyped
  <2>2. Len(data[p]) \in Nat
    BY <2>1
  <2> QED
    BY <1>2, <2>2, CapacityAssumption DEF CanWrite
<1> QED
  BY <1>1, <1>2, <1>3 DEF PipesTyped

\* A read takes the oldest byte.
LEMMA TakeTyped ==
  ASSUME PipesTyped, NEW p \in Pipes, CanRead(p), Take(p)
  PROVE  PipesTyped' /\ Head(data[p]) \in Byte
<1>1. data' = [data EXCEPT ![p] = Tail(data[p])]
  BY DEF Take
<1>2. data[p] \in Seq(Byte) /\ data[p] # <<>>
  BY DEF PipesTyped, CanRead
<1>3. Tail(data[p]) \in Seq(Byte) /\ Len(Tail(data[p])) = Len(data[p]) - 1 /\ Head(data[p]) \in Byte
  BY <1>2
<1>4. Len(Tail(data[p])) <= Capacity
  <2>1. Len(data[p]) \in Nat /\ Len(data[p]) <= Capacity
    BY <1>2 DEF PipesTyped
  <2> QED
    BY <1>3, <2>1, CapacityAssumption
<1> QED
  BY <1>1, <1>3, <1>4 DEF PipesTyped

\* The end of a process closes its descriptors and changes nobody's to an
\* impossible state.
LEMMA DieTyped ==
  ASSUME EndsTyped, life \in [Process -> Life], NEW q, Die(q, "parent")
  PROVE  EndsTyped' /\ life' \in [Process -> Life]
BY DEF EndsTyped, Die, Life

\* close changes one end of one pipe.
LEMMA CloseEndTyped ==
  ASSUME EndsTyped, NEW q, NEW p \in Pipes, NEW d, NEW label, NEW next,
         CloseEnd(q, p, d, label, next)
  PROVE  EndsTyped'
<1>1. CASE d = "read"
  BY <1>1 DEF EndsTyped, CloseEnd, CloseRead
<1>2. CASE d # "read"
  BY <1>2 DEF EndsTyped, CloseEnd, CloseWrite
<1> QED
  BY <1>1, <1>2

LEMMA MessageBytes == \A i \in 1..Len(Message) : Message[i] \in Byte
<1> DEFINE Printable == 1..255
<1>1. Message \in Seq(Printable)
  BY MessageAssumption
<1>2. \A b \in Printable : b \in Byte
  BY DEF Byte
<1> HIDE DEF Printable
<1>3. \A i \in 1..Len(Message) : Message[i] \in Printable
  BY <1>1
<1> QED
  BY <1>2, <1>3

-----------------------------------------------------------------------------
(* Type correctness.                                                       *)

LabelsTyped ==
    /\ pc \in [Process -> ParentLabels \union ChildLabels]
    /\ pc["parent"] \in ParentLabels /\ pc["child"] \in ChildLabels

RestTyped ==
    /\ opened \subseteq Pipes
    /\ sent \in 0..Len(Message)
    /\ buffer \in Byte
    /\ screen \in Seq(Byte)
    /\ slain \subseteq Process

LEMMA TypeParts ==
  TypeOK <=> /\ PipesTyped /\ EndsTyped /\ life \in [Process -> Life]
             /\ LabelsTyped /\ RestTyped
BY DEF TypeOK, PipesTyped, EndsTyped, LabelsTyped, RestTyped, Byte

LEMMA TypePartsPrimed ==
  TypeOK' <=> /\ PipesTyped' /\ EndsTyped' /\ life' \in [Process -> Life]
              /\ LabelsTyped' /\ RestTyped'
BY DEF TypeOK, PipesTyped, EndsTyped, LabelsTyped, RestTyped, Byte

\* A step of the parent or the child moves it to one of its own labels.
LEMMA GotoTyped ==
  ASSUME LabelsTyped,
         NEW label,
         \/ label \in ParentLabels /\ Goto("parent", label)
         \/ label \in ChildLabels /\ Goto("child", label)
  PROVE  LabelsTyped'
BY DEF LabelsTyped, Goto, Process, ParentLabels, ChildLabels

LEMMA TypeStep == ASSUME TypeOK, [Next]_vars PROVE TypeOK'
<1>a. /\ PipesTyped /\ EndsTyped /\ life \in [Process -> Life]
      /\ LabelsTyped /\ RestTyped
  BY TypeParts
<1> SUFFICES /\ PipesTyped' /\ EndsTyped' /\ life' \in [Process -> Life]
             /\ LabelsTyped' /\ RestTyped'
  BY TypePartsPrimed
<1> USE <1>a
<1> DEFINE Rest == <<opened, sent, buffer, screen, slain>>
<1>p. UNCHANGED data => PipesTyped'
  BY DEF PipesTyped
<1>e. UNCHANGED <<readers, writers>> => EndsTyped'
  BY DEF EndsTyped
<1>l. UNCHANGED pc => LabelsTyped'
  BY DEF LabelsTyped
<1>r. UNCHANGED Rest => RestTyped'
  BY DEF RestTyped
<1>c. ASSUME NEW p \in Pipes, NEW label, NEW next \in ParentLabels,
             CreatePipe(p, label, next)
      PROVE  /\ PipesTyped' /\ EndsTyped' /\ life' \in [Process -> Life]
             /\ LabelsTyped' /\ RestTyped'
  <2>1. EndsTyped' /\ opened' \subseteq Pipes
    BY <1>c DEF CreatePipe, Open, EndsTyped, RestTyped, Process
  <2>2. UNCHANGED <<data, life, sent, buffer, screen, slain>> /\ Goto("parent", next)
    BY <1>c DEF CreatePipe
  <2> QED
    BY <1>p, <2>1, <2>2, GotoTyped DEF RestTyped
<1>d. ASSUME NEW q, NEW p \in Pipes, NEW d, NEW label, NEW next,
             CloseEnd(q, p, d, label, next),
             \/ q = "parent" /\ next \in ParentLabels
             \/ q = "child" /\ next \in ChildLabels
      PROVE  /\ PipesTyped' /\ EndsTyped' /\ life' \in [Process -> Life]
             /\ LabelsTyped' /\ RestTyped'
  <2>1. UNCHANGED data /\ UNCHANGED life /\ UNCHANGED Rest /\ Goto(q, next)
    BY <1>d DEF CloseEnd
  <2> QED
    BY <1>d, <1>p, <1>r, <2>1, CloseEndTyped, GotoTyped
<1>s. ASSUME NEW q \in Process, Slay(q)
      PROVE  /\ PipesTyped' /\ EndsTyped' /\ life' \in [Process -> Life]
             /\ LabelsTyped' /\ RestTyped'
  BY <1>s, <1>p, <1>l, DieTyped DEF Slay, RestTyped
<1>x. ASSUME NEW q \in Process, Exit(q)
      PROVE  /\ PipesTyped' /\ EndsTyped' /\ life' \in [Process -> Life]
             /\ LabelsTyped' /\ RestTyped'
  <2>1. UNCHANGED data /\ UNCHANGED Rest /\ Die(q, "parent") /\ Goto(q, "done")
    BY <1>x DEF Exit
  <2> QED
    BY <1>p, <1>r, <2>1, DieTyped, GotoTyped
       DEF Process, ParentLabels, ChildLabels
<1>1. CASE CreatePipe0
  BY <1>1, <1>c DEF CreatePipe0, Pipes, ParentLabels
<1>2. CASE CreatePipe1
  BY <1>2, <1>c DEF CreatePipe1, Pipes, ParentLabels
<1>3. CASE ForkChild
  <2>1. EndsTyped' /\ life' \in [Process -> Life]
    BY <1>3 DEF ForkChild, Fork, Inherited, EndsTyped, Process, Life
  <2> QED
    BY <1>3, <2>1, <1>p, <1>r, GotoTyped DEF ForkChild, ParentLabels
<1>4. CASE ForkFails
  BY <1>4, <1>p, <1>r, DieTyped, GotoTyped DEF ForkFails, ParentLabels
<1>5. CASE ParentCloseWrite0
  BY <1>5, <1>d DEF ParentCloseWrite0, Pipes, ParentLabels
<1>6. CASE ParentCloseRead1
  BY <1>6, <1>d DEF ParentCloseRead1, Pipes, ParentLabels
<1>7. CASE ParentRead
  <2>1. PipesTyped' /\ buffer' \in Byte
    BY <1>7, <1>p, TakeTyped DEF ParentRead, RestTyped, Pipes
  <2>2. LabelsTyped'
    BY <1>7, GotoTyped DEF ParentRead, ParentLabels
  <2> QED
    BY <1>7, <1>e, <2>1, <2>2 DEF ParentRead, RestTyped
<1>8. CASE ParentPrint
  <2>1. screen' \in Seq(Byte)
    BY <1>8 DEF ParentPrint, RestTyped
  <2> QED
    BY <1>8, <2>1, <1>p, <1>e, GotoTyped DEF ParentPrint, RestTyped, ParentLabels
<1>9. CASE ParentAnnounce
  BY <1>9, <1>p, <1>e, <1>r, GotoTyped DEF ParentAnnounce, ParentLabels
<1>10. CASE ParentCloseRead0
  BY <1>10, <1>d DEF ParentCloseRead0, Pipes, ParentLabels
<1>11. CASE ParentSignal
  <2>1. PipesTyped'
    BY <1>11, <1>p, PutTyped DEF ParentSignal, RestTyped, Pipes
  <2> QED
    BY <1>11, <2>1, <1>e, <1>r, GotoTyped DEF ParentSignal, ParentLabels
<1>12. CASE ParentBrokenPipe
  BY <1>12, <1>s DEF ParentBrokenPipe, Process
<1>13. CASE ParentWait
  <2>1. life' \in [Process -> Life]
    BY <1>13 DEF ParentWait, Reap, Life, Process
  <2> QED
    BY <1>13, <2>1, <1>p, <1>e, <1>r, GotoTyped DEF ParentWait, ParentLabels
<1>14. CASE ParentExit
  BY <1>14, <1>x DEF ParentExit, Process
<1>15. CASE ChildCloseRead0
  BY <1>15, <1>d DEF ChildCloseRead0, Pipes, ChildLabels
<1>16. CASE ChildCloseWrite1
  BY <1>16, <1>d DEF ChildCloseWrite1, Pipes, ChildLabels
<1>17. CASE ChildWrite
  <2>1. sent + 1 \in 1..Len(Message)
    BY <1>17, MessageAssumption DEF ChildWrite, RestTyped
  <2>2. Message[sent + 1] \in Byte
    BY <2>1, MessageBytes
  <2>3. PipesTyped'
    BY <1>17, <2>2, <1>p, PutTyped DEF ChildWrite, Pipes
  <2> QED
    BY <1>17, <2>1, <2>3, <1>e, <1>l DEF ChildWrite, RestTyped
<1>18. CASE ChildBrokenPipe
  BY <1>18, <1>s DEF ChildBrokenPipe, Process
<1>19. CASE ChildCloseWrite0
  BY <1>19, <1>d DEF ChildCloseWrite0, Pipes, ChildLabels
<1>20. CASE ChildAwait
  <2>1. PipesTyped'
    BY <1>20, <1>p, TakeTyped DEF ChildAwait, Pipes
  <2> QED
    BY <1>20, <2>1, <1>e, <1>r, GotoTyped DEF ChildAwait, ChildLabels
<1>21. CASE ChildExit
  BY <1>21, <1>x DEF ChildExit, Process
<1>22. CASE \E q \in Killable : Kill(q)
  BY <1>22, <1>s, FaultAssumption DEF Kill, Process
<1>23. CASE UNCHANGED vars
  BY <1>23, <1>p, <1>e, <1>l, <1>r DEF vars
<1> QED
  BY <1>1, <1>2, <1>3, <1>4, <1>5, <1>6, <1>7, <1>8, <1>9, <1>10, <1>11,
     <1>12, <1>13, <1>14, <1>15, <1>16, <1>17, <1>18, <1>19, <1>20, <1>21,
     <1>22, <1>23 DEF Next, ParentStep, ChildStep, Terminating

LEMMA InitTyped == Init => TypeOK
BY MessageAssumption, CapacityAssumption
   DEF Init, TypeOK, Process, Pipes, Life, ParentLabels, ChildLabels

\* The variables keep their types: in particular the child never reads past
\* the message's NUL and no pipe is filled beyond its capacity.
THEOREM TypeCorrect == Spec => []TypeOK
<1>1. Init => TypeOK
  BY InitTyped
<1>2. TypeOK /\ [Next]_vars => TypeOK'
  BY TypeStep
<1> QED
  BY <1>1, <1>2, PTL DEF Spec

-----------------------------------------------------------------------------
(* Delivery.                                                               *)

\* The byte read from p0 and not printed yet.
InHand == IF pc["parent"] = "print" THEN 1 ELSE 0

\* The child may still write: it has neither closed p0 nor ended.
Writing == life["child"] = "running" /\ pc["child"] \in {"close_r0", "close_w1", "write"}

Early == {"pipe0", "pipe1", "fork", "failed"}

\* The parent forks when it leaves its early labels, and nothing is sent before.
ForkInv ==
    /\ pc["parent"] \in Early <=> life["child"] = "unborn"
    /\ pc["parent"] \in Early =>
           /\ sent = 0 /\ screen = <<>> /\ data["p0"] = <<>>
           /\ pc["child"] = "close_r0"
    /\ pc["parent"] = "pipe0" => opened = {}

\* Whoever may write to p0, or will fork such a child, holds its write end.
HolderInv ==
    "p0" \in opened =>
        /\ life["parent"] = "running" /\ pc["parent"] \in {"pipe1", "fork"} =>
               "parent" \in writers["p0"]
        /\ Writing => "child" \in writers["p0"]

\* A child past its loop has sent everything, and one that has ended is past
\* its loop or was killed.
ChildInv ==
    /\ pc["child"] \in {"read", "exit", "done"} => sent = Len(Message)
    /\ life["child"] \in {"zombie", "gone"} => pc["child"] = "done" \/ "child" \in slain

\* Screen, hand and pipe, in this order, hold what has been sent.
StreamInv ==
    "p0" \in opened =>
        /\ sent = Len(screen) + InHand + Len(data["p0"])
        /\ \A k \in 1..Len(screen) : screen[k] = Message[k]
        /\ pc["parent"] = "print" => buffer = Message[Len(screen) + 1]
        /\ \A k \in 1..Len(data["p0"]) :
               data["p0"][k] = Message[Len(screen) + InHand + k]
        /\ SawEnd => Len(screen) = Len(Message) \/ "child" \in slain

DeliveryInv == TypeOK /\ ForkInv /\ HolderInv /\ ChildInv /\ StreamInv

LEMMA DeliveryStep ==
  ASSUME DeliveryInv, [Next]_vars
  PROVE  ForkInv' /\ HolderInv' /\ ChildInv' /\ StreamInv'
<1> USE DEF DeliveryInv, TypeOK, Process, Pipes, At, Goto
<1> USE DEF ForkInv, HolderInv, ChildInv, InHand, Writing, Early, SawEnd, StreamInv
<1>1. CASE CreatePipe0
  BY <1>1 DEF CreatePipe0, CreatePipe, Open
<1>2. CASE CreatePipe1
  BY <1>2 DEF CreatePipe1, CreatePipe, Open
<1>3. CASE ForkChild
  BY <1>3 DEF ForkChild, Fork, Inherited
<1>4. CASE ForkFails
  BY <1>4 DEF ForkFails, Die
<1>5. CASE ParentCloseWrite0
  BY <1>5 DEF ParentCloseWrite0, CloseEnd, CloseRead, CloseWrite
<1>6. CASE ParentCloseRead1
  BY <1>6 DEF ParentCloseRead1, CloseEnd, CloseRead, CloseWrite
<1>7. CASE ParentRead
  <2>1. /\ UNCHANGED <<readers, writers, life, opened, sent, screen, slain>>
        /\ pc["parent"] = "read" /\ life["parent"] = "running"
        /\ pc'["child"] = pc["child"]
    BY <1>7 DEF ParentRead
  <2>2. CASE "p0" \in opened /\ CanRead("p0")
    <3> DEFINE pipe == data["p0"]
    <3>1. pipe \in Seq(0..255) /\ pipe # <<>>
      BY <2>2 DEF CanRead
    <3>2. /\ data'["p0"] = Tail(pipe) /\ buffer' = Head(pipe)
          /\ pc'["parent"] = "print"
      BY <1>7, <2>2 DEF ParentRead, Take, AtEOF, CanRead
    <3>3. ForkInv' /\ HolderInv' /\ ChildInv'
      BY <2>1, <3>2
    <3>4. /\ Len(Tail(pipe)) = Len(pipe) - 1 /\ Len(pipe) \in Nat
          /\ Head(pipe) = pipe[1] /\ 1 \in 1..Len(pipe)
          /\ \A k \in 1..Len(Tail(pipe)) : Tail(pipe)[k] = pipe[k + 1] /\ k + 1 \in 1..Len(pipe)
      BY <3>1
    <3>5. InHand = 0 /\ InHand' = 1 /\ Len(screen) \in Nat /\ sent \in Nat
      BY <2>1, <3>2, MessageAssumption
    <3>6. /\ sent = Len(screen) + Len(pipe)
          /\ \A k \in 1..Len(pipe) : pipe[k] = Message[Len(screen) + k]
          /\ \A k \in 1..Len(screen) : screen[k] = Message[k]
      BY <2>2, <3>5
    <3>7. sent' = Len(screen') + InHand' + Len(data'["p0"])
      <4>1. sent' = sent /\ screen' = screen /\ data'["p0"] = Tail(pipe)
        BY <2>1, <3>2
      <4>2. Len(data'["p0"]) = Len(pipe) - 1 /\ Len(pipe) \in Nat
        BY <3>4, <4>1
      <4>3. sent = Len(screen) + Len(pipe)
        BY <3>6
      <4>4. Len(screen) \in Nat /\ InHand' = 1
        BY <3>5
      <4>5. sent = Len(screen) + 1 + Len(data'["p0"])
        <5> HIDE DEF pipe
        <5> QED
          BY <4>2, <4>3, <4>4
      <4> QED
        BY <4>1, <4>4, <4>5
    <3>8. buffer' = Message[Len(screen') + 1]
      BY <2>1, <3>2, <3>4, <3>6
    <3>9. \A k \in 1..Len(data'["p0"]) :
             data'["p0"][k] = Message[Len(screen') + InHand' + k]
      <4> TAKE k \in 1..Len(data'["p0"])
      <4>1. screen' = screen /\ data'["p0"] = Tail(pipe) /\ k \in Nat
        BY <2>1, <3>2, <3>4
      <4> HIDE DEF pipe, InHand
      <4>2. Tail(pipe)[k] = pipe[k + 1] /\ k + 1 \in 1..Len(pipe)
        BY <3>4, <4>1
      <4>3. pipe[k + 1] = Message[Len(screen) + (k + 1)]
        BY <3>6, <4>2
      <4>4. Len(screen) + (k + 1) = Len(screen') + InHand' + k
        BY <3>5, <4>1
      <4> QED
        BY <4>1, <4>2, <4>3, <4>4
    <3> QED
      BY <2>1, <3>2, <3>3, <3>6, <3>7, <3>8, <3>9
  <2>3. CASE "p0" \in opened /\ AtEOF("p0")
    <3>1. /\ UNCHANGED <<data, buffer>> /\ pc'["parent"] = "all_received"
      BY <1>7, <2>3 DEF ParentRead, CanRead, AtEOF
    <3>2. ForkInv' /\ HolderInv' /\ ChildInv'
      BY <2>1, <3>1
    <3>3. ~Writing
      BY <2>3 DEF AtEOF
    <3>4. sent = Len(Message) \/ "child" \in slain
      BY <2>1, <3>3 DEF Life, ChildLabels
    <3>5. data["p0"] = <<>> /\ InHand = 0 /\ InHand' = 0
      BY <2>1, <2>3, <3>1 DEF AtEOF
    <3>6. Len(screen) = Len(Message) \/ "child" \in slain
      BY <2>3, <3>4, <3>5
    <3> QED
      BY <2>1, <2>3, <3>1, <3>2, <3>5, <3>6
  <2>4. CASE "p0" \notin opened
    BY <1>7, <2>1, <2>4 DEF ParentRead
  <2> QED
    BY <1>7, <2>2, <2>3, <2>4 DEF ParentRead
<1>8. CASE ParentPrint
  <2>1. /\ UNCHANGED <<data, readers, writers, life, opened, sent, buffer, slain>>
        /\ pc["parent"] = "print" /\ pc'["parent"] = "read"
        /\ life["parent"] = "running"
        /\ pc'["child"] = pc["child"]
    BY <1>8 DEF ParentPrint
  <2>2. ForkInv' /\ HolderInv' /\ ChildInv'
    BY <2>1
  <2>3. CASE "p0" \in opened
    <3>1. /\ Len(screen) \in Nat /\ Len(data["p0"]) \in Nat
          /\ InHand = 1 /\ InHand' = 0
      BY <2>1
    <3>2. Len(screen) < MaxScreen
      BY <2>3, <3>1, MessageAssumption, ScreenAssumption
    <3>3. screen' = Append(screen, buffer)
      BY <1>8, <3>2 DEF ParentPrint
    <3>4. /\ Len(screen') = Len(screen) + 1
          /\ screen'[Len(screen) + 1] = buffer
          /\ \A k \in 1..Len(screen) : screen'[k] = screen[k]
      BY <3>3
    <3>5. sent' = Len(screen') + InHand' + Len(data'["p0"])
      BY <2>1, <2>3, <3>1, <3>4
    <3>6. \A k \in 1..Len(screen') : screen'[k] = Message[k]
      <4> TAKE k \in 1..Len(screen')
      <4>1. k \in 1..Len(screen) \/ k = Len(screen) + 1
        BY <3>1, <3>4
      <4> QED
        BY <2>1, <2>3, <3>4, <4>1
    <3>7. \A k \in 1..Len(data'["p0"]) :
             data'["p0"][k] = Message[Len(screen') + InHand' + k]
      <4>1. Len(screen') + InHand' = Len(screen) + InHand
        BY <3>1, <3>4
      <4> QED
        BY <2>1, <2>3, <4>1
    <3> QED
      BY <2>1, <2>2, <3>5, <3>6, <3>7
  <2> QED
    BY <2>1, <2>2, <2>3
<1>9. CASE ParentAnnounce
  BY <1>9 DEF ParentAnnounce
<1>10. CASE ParentCloseRead0
  BY <1>10 DEF ParentCloseRead0, CloseEnd, CloseRead, CloseWrite
<1>11. CASE ParentSignal
  BY <1>11 DEF ParentSignal, CanWrite, Put
<1>12. CASE ParentBrokenPipe
  BY <1>12 DEF ParentBrokenPipe, Slay, Die
<1>13. CASE ParentWait
  BY <1>13 DEF ParentWait, Reap
<1>14. CASE ParentExit
  BY <1>14 DEF ParentExit, Exit, Die
<1>15. CASE ChildCloseRead0
  BY <1>15 DEF ChildCloseRead0, CloseEnd, CloseRead, CloseWrite
<1>16. CASE ChildCloseWrite1
  BY <1>16 DEF ChildCloseWrite1, CloseEnd, CloseRead, CloseWrite
<1>17. CASE ChildWrite
  <2>1. /\ UNCHANGED <<readers, writers, life, pc, opened, buffer, screen, slain>>
        /\ sent < Len(Message) /\ sent' = sent + 1
        /\ pc["child"] = "write" /\ life["child"] = "running"
    BY <1>17 DEF ChildWrite
  <2>2. ForkInv' /\ HolderInv' /\ ChildInv'
    BY <2>1
  <2>3. CASE "p0" \in opened
    <3> DEFINE pipe == data["p0"]
    <3>1. /\ pipe \in Seq(0..255) /\ Len(pipe) \in Nat /\ Len(screen) \in Nat
          /\ InHand' = InHand /\ InHand \in Nat /\ sent \in Nat
      BY <2>1, MessageAssumption
    <3>2. data'["p0"] = Append(pipe, Message[sent + 1])
      BY <1>17, <2>3 DEF ChildWrite, Put
    <3>3. /\ Len(data'["p0"]) = Len(pipe) + 1
          /\ data'["p0"][Len(pipe) + 1] = Message[sent + 1]
          /\ \A k \in 1..Len(pipe) : data'["p0"][k] = pipe[k]
      BY <3>1, <3>2
    <3>4. sent = Len(screen) + InHand + Len(pipe)
      BY <2>3
    <3>5. sent' = Len(screen') + InHand' + Len(data'["p0"])
      <4>1. sent' = sent + 1 /\ screen' = screen
        BY <2>1
      <4> HIDE DEF pipe, InHand
      <4> QED
        BY <3>1, <3>3, <3>4, <4>1
    <3>6. \A k \in 1..Len(data'["p0"]) :
             data'["p0"][k] = Message[Len(screen') + InHand' + k]
      <4> TAKE k \in 1..Len(data'["p0"])
      <4>1. CASE k \in 1..Len(pipe)
        BY <2>1, <2>3, <3>1, <3>3, <4>1
      <4>2. CASE k = Len(pipe) + 1
        <5>1. screen' = screen
          BY <2>1
        <5> HIDE DEF pipe, InHand
        <5>2. Len(screen) + InHand + k = sent + 1
          BY <3>1, <3>4, <4>2
        <5> QED
          BY <3>1, <3>3, <4>2, <5>1, <5>2
      <4> QED
        BY <3>1, <3>3, <4>1, <4>2
    <3>7. SawEnd' => Len(screen') = Len(Message) \/ "child" \in slain'
      BY <2>1, <2>3
    <3> QED
      BY <2>1, <2>2, <2>3, <3>5, <3>6, <3>7
  <2> QED
    BY <2>1, <2>2, <2>3
<1>18. CASE ChildBrokenPipe
  BY <1>18 DEF ChildBrokenPipe, Slay, Die
<1>19. CASE ChildCloseWrite0
  BY <1>19 DEF ChildCloseWrite0, CloseEnd, CloseRead, CloseWrite
<1>20. CASE ChildAwait
  <2>1. /\ UNCHANGED <<readers, writers, life, opened, sent, buffer, screen, slain>>
        /\ pc'["parent"] = pc["parent"] /\ life["child"] = "running"
        /\ pc["child"] = "read" /\ pc'["child"] = "exit"
    BY <1>20 DEF ChildAwait
  <2>2. data'["p0"] = data["p0"]
    BY <1>20 DEF ChildAwait, Take
  <2> QED
    BY <2>1, <2>2
<1>21. CASE ChildExit
  BY <1>21 DEF ChildExit, Exit, Die
<1>22. CASE \E q \in Killable : Kill(q)
  BY <1>22, FaultAssumption DEF Kill, Slay, Die
<1>23. CASE UNCHANGED vars
  BY <1>23 DEF vars
<1> QED
  BY <1>1, <1>2, <1>3, <1>4, <1>5, <1>6, <1>7, <1>8, <1>9, <1>10, <1>11, <1>12, <1>13, <1>14, <1>15, <1>16, <1>17, <1>18, <1>19, <1>20, <1>21, <1>22, <1>23 DEF Next, ParentStep, ChildStep, Terminating

LEMMA DeliveryInit == Init => DeliveryInv
BY InitTyped, MessageAssumption
   DEF Init, DeliveryInv, ForkInv, HolderInv, ChildInv, StreamInv, InHand,
       Writing, Early, SawEnd, Process, Pipes

LEMMA DeliveryHolds == DeliveryInv => Delivery
<1> SUFFICES ASSUME DeliveryInv, "p0" \in opened
             PROVE  /\ IsPrefix(screen, Message)
                    /\ SawEnd => screen = Message \/ "child" \in slain
  BY DEF Delivery
<1> USE DEF DeliveryInv, StreamInv
<1>1. /\ screen \in Seq(0..255) /\ Message \in Seq(0..255)
      /\ Len(screen) <= Len(Message)
      /\ \A k \in 1..Len(screen) : screen[k] = Message[k]
  <2>1. screen \in Seq(0..255) /\ Message \in Seq(0..255)
    BY MessageAssumption, MessageBytes DEF TypeOK, Byte
  <2>2. Len(data["p0"]) \in Nat /\ InHand \in Nat /\ sent <= Len(Message) /\ sent \in Nat
    BY MessageAssumption DEF TypeOK, InHand, Pipes
  <2>3. sent = Len(screen) + InHand + Len(data["p0"])
    OBVIOUS
  <2>4. Len(screen) \in Nat /\ Len(Message) \in Nat
    BY <2>1
  <2>5. Len(screen) <= Len(Message)
    <3> DEFINE queued == Len(data["p0"])
    <3>1. queued \in Nat /\ sent = Len(screen) + InHand + queued
      BY <2>2, <2>3
    <3> HIDE DEF queued
    <3> QED
      BY <2>2, <2>4, <3>1
  <2> QED
    BY <2>1, <2>5
<1>2. IsPrefix(screen, Message)
  BY <1>1 DEF IsPrefix
<1>3. Len(screen) = Len(Message) => screen = Message
  BY <1>1
<1> QED
  BY <1>2, <1>3

\* Nothing printed is lost, repeated or out of order, and the end of the
\* message is taken for its end, whatever the faults, the message and the
\* capacity of the pipes.
THEOREM DeliveryCorrect == Spec => []Delivery
<1>1. Init => DeliveryInv
  BY DeliveryInit
<1>2. DeliveryInv /\ [Next]_vars => DeliveryInv'
  BY TypeStep, DeliveryStep DEF DeliveryInv
<1>3. DeliveryInv => Delivery
  BY DeliveryHolds
<1> QED
  BY <1>1, <1>2, <1>3, PTL DEF Spec

-----------------------------------------------------------------------------
(* The handshake.                                                          *)

Signalled == pc["parent"] \in {"wait", "exit", "done"}

\* Who holds which end of which pipe, as long as it matters.
EndsInv ==
    /\ "p0" \in opened /\ life["parent"] = "running"
       /\ pc["parent"] \notin {"pipe0", "signal", "wait", "exit", "done", "failed"} =>
           "parent" \in readers["p0"]
    /\ "p1" \in opened /\ life["parent"] = "running"
       /\ pc["parent"] \notin {"pipe0", "pipe1", "failed"} /\ ~Signalled =>
           "parent" \in writers["p1"]
    /\ "p1" \in opened /\ life["parent"] = "running" /\ pc["parent"] = "fork" =>
           "parent" \in readers["p1"]
    /\ "p1" \in opened /\ life["child"] = "running" => "child" \in readers["p1"]

HandshakeInv ==
    /\ life["parent"] # "running" =>
           pc["parent"] \in {"done", "failed"} \/ "parent" \in slain
    /\ "p0" \in opened /\ SawEnd => ~Writing
    /\ data["p1"] # <<>> => Signalled
    /\ pc["parent"] \in {"exit", "done"} => life["child"] = "gone"
    /\ pc["parent"] \in {"pipe0", "pipe1"} => "p1" \notin opened

HandshakeIInv ==
    DeliveryInv /\ EndsInv /\ HandshakeInv /\ ChildEndsLast /\ NoLeftovers

LEMMA HandshakeStep ==
  ASSUME HandshakeIInv, [Next]_vars
  PROVE  EndsInv' /\ HandshakeInv' /\ ChildEndsLast' /\ NoLeftovers'
<1> USE DEF HandshakeIInv, DeliveryInv, TypeOK, Process, Pipes, At, Goto
<1> USE DEF ForkInv, HolderInv, ChildInv, Writing, Early, SawEnd, Signalled,
            EndsInv, HandshakeInv, ChildEndsLast, NoLeftovers
<1>1. CASE CreatePipe0
  BY <1>1 DEF CreatePipe0, CreatePipe, Open
<1>2. CASE CreatePipe1
  <2>1. /\ UNCHANGED <<data, life, sent, buffer, screen, slain>>
        /\ pc["parent"] = "pipe1" /\ pc'["parent"] = "fork"
        /\ pc'["child"] = pc["child"] /\ life["parent"] = "running"
    BY <1>2 DEF CreatePipe1, CreatePipe
  <2>2. /\ readers'["p0"] = readers["p0"]
        /\ "p0" \in opened' => "p0" \in opened
    BY <1>2 DEF CreatePipe1, CreatePipe, Open
  <2>3. "p1" \in opened' => "parent" \in readers'["p1"] /\ "parent" \in writers'["p1"]
    BY <1>2, <2>1 DEF CreatePipe1, CreatePipe, Open
  <2> QED
    BY <2>1, <2>2, <2>3
<1>3. CASE ForkChild
  BY <1>3 DEF ForkChild, Fork, Inherited
<1>4. CASE ForkFails
  BY <1>4 DEF ForkFails, Die
<1>5. CASE ParentCloseWrite0
  BY <1>5 DEF ParentCloseWrite0, CloseEnd, CloseRead, CloseWrite
<1>6. CASE ParentCloseRead1
  BY <1>6 DEF ParentCloseRead1, CloseEnd, CloseRead, CloseWrite
<1>7. CASE ParentRead
  <2>1. /\ UNCHANGED <<readers, writers, life, opened, sent, screen, slain>>
        /\ pc["parent"] = "read" /\ life["parent"] = "running"
        /\ pc'["child"] = pc["child"] /\ pc'["parent"] \in {"print", "all_received"}
        /\ data'["p1"] = data["p1"]
    BY <1>7 DEF ParentRead, Take
  <2>2. "p0" \in opened /\ pc'["parent"] = "all_received" => ~Writing
    BY <1>7, <2>1 DEF ParentRead, AtEOF
  <2> QED
    BY <2>1, <2>2
<1>8. CASE ParentPrint
  BY <1>8 DEF ParentPrint
<1>9. CASE ParentAnnounce
  BY <1>9 DEF ParentAnnounce
<1>10. CASE ParentCloseRead0
  BY <1>10 DEF ParentCloseRead0, CloseEnd, CloseRead, CloseWrite
<1>11. CASE ParentSignal
  BY <1>11 DEF ParentSignal, CanWrite, Put
<1>12. CASE ParentBrokenPipe
  <2>1. /\ pc["parent"] = "signal" /\ "p1" \in opened /\ readers["p1"] = {}
        /\ UNCHANGED <<data, pc, opened, sent, buffer, screen>>
        /\ slain' = slain \union {"parent"}
        /\ life'["parent"] = "gone"
        /\ life'["child"] = IF life["child"] = "zombie" THEN "gone" ELSE life["child"]
    BY <1>12 DEF ParentBrokenPipe, Broken, Slay, Die
  <2>2. life["child"] \in {"zombie", "gone"}
    BY <2>1 DEF Life
  <2>3. slain # {}
    BY <2>1, <2>2
  <2>4. NoLeftovers'
    BY <2>1, <2>3
  <2>5. ChildEndsLast' /\ HandshakeInv'
    BY <2>1, <2>2
  <2>6. EndsInv'
    BY <2>1, <2>2
  <2> QED
    BY <2>4, <2>5, <2>6
<1>13. CASE ParentWait
  BY <1>13 DEF ParentWait, Reap
<1>14. CASE ParentExit
  BY <1>14 DEF ParentExit, Exit, Die
<1>15. CASE ChildCloseRead0
  BY <1>15 DEF ChildCloseRead0, CloseEnd, CloseRead, CloseWrite
<1>16. CASE ChildCloseWrite1
  BY <1>16 DEF ChildCloseWrite1, CloseEnd, CloseRead, CloseWrite
<1>17. CASE ChildWrite
  <2>1. /\ UNCHANGED <<readers, writers, life, pc, opened, buffer, screen, slain>>
        /\ data'["p1"] = data["p1"]
    BY <1>17 DEF ChildWrite, Put
  <2> QED
    BY <2>1
<1>18. CASE ChildBrokenPipe
  BY <1>18 DEF ChildBrokenPipe, Broken, Slay, Die
<1>19. CASE ChildCloseWrite0
  BY <1>19 DEF ChildCloseWrite0, CloseEnd, CloseRead, CloseWrite
<1>20. CASE ChildAwait
  BY <1>20 DEF ChildAwait, CanRead, AtEOF, Take
<1>21. CASE ChildExit
  BY <1>21 DEF ChildExit, Exit, Die
<1>22. CASE \E q \in Killable : Kill(q)
  BY <1>22, FaultAssumption DEF Kill, Slay, Die
<1>23. CASE UNCHANGED vars
  BY <1>23 DEF vars
<1> QED
  BY <1>1, <1>2, <1>3, <1>4, <1>5, <1>6, <1>7, <1>8, <1>9, <1>10, <1>11, <1>12, <1>13, <1>14, <1>15, <1>16, <1>17, <1>18, <1>19, <1>20, <1>21, <1>22, <1>23 DEF Next, ParentStep, ChildStep, Terminating

LEMMA HandshakeInvariant == Spec => []HandshakeIInv
<1>1. Init => HandshakeIInv
  BY DeliveryInit
     DEF Init, HandshakeIInv, EndsInv, HandshakeInv, ChildEndsLast, NoLeftovers,
         SawEnd, Signalled, Process, Pipes
<1>2. HandshakeIInv /\ [Next]_vars => HandshakeIInv'
  <2> SUFFICES ASSUME HandshakeIInv, [Next]_vars PROVE HandshakeIInv'
    OBVIOUS
  <2>1. DeliveryInv'
    BY TypeStep, DeliveryStep DEF HandshakeIInv, DeliveryInv
  <2> QED
    BY <2>1, HandshakeStep DEF HandshakeIInv
<1> QED
  BY <1>1, <1>2, PTL DEF Spec

\* A child that ends by itself ends after the parent has shown everything and
\* said so, for every message, capacity and combination of the faults.
THEOREM ChildEndsLastCorrect == Spec => []ChildEndsLast
<1>1. HandshakeIInv => ChildEndsLast
  BY DEF HandshakeIInv
<1> QED
  BY <1>1, HandshakeInvariant, PTL

\* The parent reaps its child, and a broken pipe only ends a process whose peer
\* was killed.
THEOREM NoLeftoversCorrect == Spec => []NoLeftovers
<1>1. HandshakeIInv => NoLeftovers
  BY DEF HandshakeIInv
<1> QED
  BY <1>1, HandshakeInvariant, PTL

-----------------------------------------------------------------------------
(* Refinement.                                                             *)

NoFaults == PipeMayFail = {} /\ ForkMayFail = FALSE /\ Killable = {}

Created == pc["parent"] \notin {"pipe0", "pipe1"} => "p0" \in opened /\ "p1" \in opened
CreatedInv == Created /\ (pc["parent"] = "pipe1" => "p0" \in opened)

LEMMA CreatedStep ==
  ASSUME NoFaults, TypeOK, CreatedInv, [Next]_vars
  PROVE  CreatedInv'
<1> USE DEF NoFaults, CreatedInv, Created, TypeOK, Process, At, Goto
<1>1. CASE CreatePipe0
  BY <1>1 DEF CreatePipe0, CreatePipe
<1>2. CASE CreatePipe1
  BY <1>2 DEF CreatePipe1, CreatePipe
<1>3. ASSUME UNCHANGED opened,
             \/ pc["parent"] \notin {"pipe0", "pipe1"} /\ pc'["parent"] \notin {"pipe0", "pipe1"}
             \/ pc'["parent"] = pc["parent"]
      PROVE  CreatedInv'
  BY <1>3
<1>4. CASE ForkChild \/ ForkFails \/ ParentCloseWrite0 \/ ParentCloseRead1
  BY <1>3, <1>4 DEF ForkChild, ForkFails, ParentCloseWrite0, ParentCloseRead1, CloseEnd
<1>5. CASE ParentRead \/ ParentPrint \/ ParentAnnounce \/ ParentCloseRead0
  BY <1>3, <1>5 DEF ParentRead, ParentPrint, ParentAnnounce, ParentCloseRead0, CloseEnd
<1>6. CASE ParentSignal \/ ParentBrokenPipe \/ ParentWait \/ ParentExit
  BY <1>3, <1>6 DEF ParentSignal, ParentBrokenPipe, ParentWait, ParentExit, Exit, Slay
<1>7. CASE ChildStep
  BY <1>3, <1>7
     DEF ChildStep, ChildCloseRead0, ChildCloseWrite1, ChildWrite, ChildBrokenPipe,
         ChildCloseWrite0, ChildAwait, ChildExit, CloseEnd, Exit, Slay
<1>8. CASE (\E q \in Killable : Kill(q)) \/ UNCHANGED vars
  BY <1>3, <1>8 DEF Kill, vars
<1> QED
  BY <1>1, <1>2, <1>4, <1>5, <1>6, <1>7, <1>8 DEF Next, ParentStep, Terminating

\* A step that moves neither the screen nor the two processes' ends is none of
\* Transfer's steps.
LEMMA TransferStep ==
  ASSUME NoFaults, HandshakeIInv, HandshakeIInv', CreatedInv, [Next]_vars
  PROVE  [Abstract!Next]_(Abstract!vars)
<1> USE DEF TypeOK, Process, Pipes, At, Goto, SawEnd
<1>t. TypeOK /\ TypeOK'
  BY DEF HandshakeIInv, DeliveryInv
<1>s. slain = {} /\ slain' = {}
  BY DEF NoFaults, HandshakeIInv, NoLeftovers
<1>1. ASSUME UNCHANGED screen, SawEnd' = SawEnd,
             (life'["child"] \in {"zombie", "gone"}) = (life["child"] \in {"zombie", "gone"}),
             (pc'["parent"] = "done") = (pc["parent"] = "done")
      PROVE  UNCHANGED Abstract!vars
  BY <1>1 DEF Abstract!vars
<1>2. CASE CreatePipe0 \/ CreatePipe1
  BY <1>t, <1>1, <1>2 DEF CreatePipe0, CreatePipe1, CreatePipe
<1>2b. CASE ForkChild
  <2>1. life["child"] = "unborn" /\ life'["child"] = "running"
    BY <1>t, <1>2b
       DEF ForkChild, Fork, HandshakeIInv, DeliveryInv, ForkInv, Early
  <2> QED
    BY <1>t, <1>1, <1>2b, <2>1 DEF ForkChild
<1>3. CASE ForkFails
  BY <1>3 DEF ForkFails, NoFaults
<1>4. CASE ParentCloseWrite0 \/ ParentCloseRead1 \/ ParentCloseRead0
  BY <1>t, <1>1, <1>4 DEF ParentCloseWrite0, ParentCloseRead1, ParentCloseRead0, CloseEnd
<1>5. CASE ParentRead
  <2>1. CASE pc'["parent"] = "print"
    BY <1>t, <1>1, <1>5, <2>1 DEF ParentRead
  <2>2. CASE pc'["parent"] # "print"
    <3>1. /\ UNCHANGED <<screen, life>> /\ "p0" \in opened'
          /\ pc["parent"] = "read" /\ pc'["parent"] = "all_received"
      BY <1>t, <1>5, <2>2 DEF ParentRead, CreatedInv, Created
    <3>2. Delivery'
      <4>1. DeliveryInv' => Delivery'
        BY DeliveryHolds, PTL
      <4> QED
        BY <4>1 DEF HandshakeIInv
    <3>3. screen = Message
      BY <3>1, <3>2, <1>s DEF Delivery
    <3>4. Abstract!Tell
      BY <3>1, <3>3 DEF Abstract!Tell
    <3> QED
      BY <3>4 DEF Abstract!Next
  <2> QED
    BY <2>1, <2>2
<1>6. CASE ParentPrint
  <2>1. /\ UNCHANGED <<life, data, opened, sent, buffer>>
        /\ pc["parent"] = "print" /\ pc'["parent"] = "read"
    BY <1>t, <1>6 DEF ParentPrint
  <2>2. StreamInv /\ StreamInv' /\ "p0" \in opened
    BY <2>1 DEF HandshakeIInv, DeliveryInv, CreatedInv, Created
  <2>3. buffer = Message[Len(screen) + 1]
    BY <2>1, <2>2 DEF StreamInv
  <2>4. Len(screen) < Len(Message)
    <3> DEFINE queued == Len(data["p0"])
    <3>1. queued \in Nat /\ Len(screen) \in Nat /\ Len(Message) \in Nat
      BY <1>t, MessageAssumption
    <3>2. sent = Len(screen) + 1 + queued /\ sent <= Len(Message)
      BY <1>t, <2>1, <2>2, MessageAssumption DEF StreamInv, InHand
    <3> HIDE DEF queued
    <3> QED
      BY <3>1, <3>2
  <2>5. screen' = Append(screen, Message[Len(screen) + 1])
    <3>1. Len(screen) < MaxScreen
      BY <1>t, <2>4, MessageAssumption, ScreenAssumption
    <3> QED
      BY <1>6, <2>3, <3>1 DEF ParentPrint
  <2>6. Abstract!Show
    BY <2>1, <2>4, <2>5 DEF Abstract!Show
  <2> QED
    BY <2>6 DEF Abstract!Next
<1>7. CASE ParentAnnounce \/ ParentSignal
  BY <1>t, <1>1, <1>7 DEF ParentAnnounce, ParentSignal
<1>8. CASE ParentBrokenPipe \/ ChildBrokenPipe
  BY <1>s, <1>8 DEF ParentBrokenPipe, ChildBrokenPipe, Slay
<1>9. CASE ParentWait
  BY <1>t, <1>1, <1>9 DEF ParentWait, Reap
<1>10. CASE ParentExit
  <2>1. /\ UNCHANGED screen /\ pc["parent"] = "exit" /\ pc'["parent"] = "done"
        /\ life["child"] = "gone" /\ life'["child"] = "gone"
    BY <1>t, <1>10 DEF ParentExit, Exit, Die, HandshakeIInv, HandshakeInv
  <2>2. Abstract!EndReceiver
    BY <2>1 DEF Abstract!EndReceiver
  <2> QED
    BY <2>2 DEF Abstract!Next
<1>11. CASE ChildCloseRead0 \/ ChildCloseWrite1 \/ ChildWrite \/ ChildCloseWrite0 \/ ChildAwait
  BY <1>t, <1>1, <1>11
     DEF ChildCloseRead0, ChildCloseWrite1, ChildWrite, ChildCloseWrite0, ChildAwait, CloseEnd
<1>12. CASE ChildExit
  <2>1. /\ UNCHANGED screen /\ pc["child"] = "exit" /\ pc'["parent"] = pc["parent"]
        /\ life["child"] = "running" /\ life'["child"] \in {"zombie", "gone"}
    BY <1>t, <1>12 DEF ChildExit, Exit, Die
  <2>2. pc["parent"] \in {"wait", "exit", "done"}
    <3>1. pc["parent"] \notin {"pipe0", "pipe1"}
      BY <2>1 DEF HandshakeIInv, DeliveryInv, ForkInv, Early
    <3> QED
      BY <1>s, <2>1, <3>1 DEF HandshakeIInv, ChildEndsLast, CreatedInv, Created
  <2>3. Abstract!EndSender
    BY <2>1, <2>2 DEF Abstract!EndSender
  <2> QED
    BY <2>3 DEF Abstract!Next
<1>13. CASE (\E q \in Killable : Kill(q)) \/ UNCHANGED vars
  BY <1>1, <1>13 DEF NoFaults, vars
<1> QED
  BY <1>2, <1>2b, <1>3, <1>4, <1>5, <1>6, <1>7, <1>8, <1>9, <1>10, <1>11, <1>12, <1>13
     DEF Next, ParentStep, ChildStep, Terminating

\* When nothing fails, the two processes and their two pipes implement the
\* transfer their user sees, for every message and capacity (its fairness is
\* left to TLC).
THEOREM TransferImplemented ==
  ASSUME NoFaults
  PROVE  Spec => Abstract!Init /\ [][Abstract!Next]_(Abstract!vars)
<1>1. Init => Abstract!Init
  BY DEF Init, Abstract!Init, SawEnd, Process
<1>2. Init => CreatedInv
  BY DEF Init, CreatedInv, Created, Process
<1>3. TypeOK /\ CreatedInv /\ [Next]_vars => CreatedInv'
  BY CreatedStep
<1>4. HandshakeIInv => TypeOK
  BY DEF HandshakeIInv, DeliveryInv
<1>5. HandshakeIInv /\ HandshakeIInv' /\ CreatedInv /\ [Next]_vars =>
        [Abstract!Next]_(Abstract!vars)
  BY TransferStep
<1> QED
  BY <1>1, <1>2, <1>3, <1>4, <1>5, HandshakeInvariant, PTL DEF Spec
=============================================================================
