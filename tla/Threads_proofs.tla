--------------------------- MODULE Threads_proofs ---------------------------
(***************************************************************************)
(* The threads print exactly MaxLines lines, for every MaxLines and        *)
(* whatever stacks and threads the kernel refuses.                         *)
(***************************************************************************)
EXTENDS Threads, FiniteSetTheorems, TLAPS

Exited == {t \in Thread : pc[t] = "exited"}

Typed ==
    /\ count \in Int /\ count <= MaxLines
    /\ pc \in [Thread -> Labels]
    /\ lines \in Nat
    /\ crashed \in BOOLEAN

\* Below zero the counter counts the threads that have ended; none has before.
Overdraft ==
    /\ count >= 0 => Exited = {}
    /\ count < 0 => count = -Cardinality(Exited)

\* A thread does not exist before main creates it.
Spawned ==
    /\ pc["main"] \in {"stack1", "clone1"} => pc["thread1"] = "unborn"
    /\ pc["main"] \in {"stack1", "clone1", "stack2", "clone2"} => pc["thread2"] = "unborn"

IInv == Typed /\ Spawned /\ Overdraft /\ Accounted

LEMMA ThreadsFinite == \A S \in SUBSET Thread :
  IsFiniteSet(S) /\ Cardinality(S) \in Nat /\ Cardinality(S) <= Cardinality(Thread)
<1>1. IsFiniteSet(Thread)
  <2>1. IsFiniteSet({"main"})
    BY FS_Singleton
  <2>2. IsFiniteSet({"main"} \union {"thread1"})
    BY <2>1, FS_AddElement
  <2>3. IsFiniteSet(({"main"} \union {"thread1"}) \union {"thread2"})
    BY <2>2, FS_AddElement
  <2>4. Thread = ({"main"} \union {"thread1"}) \union {"thread2"}
    BY DEF Thread
  <2> QED
    BY <2>3, <2>4
<1>2. TAKE S \in SUBSET Thread
<1>3. IsFiniteSet(S) /\ Cardinality(S) <= Cardinality(Thread)
  BY <1>1, FS_Subset
<1>4. Cardinality(S) \in Nat
  BY <1>3, FS_CardinalityType
<1> QED
  BY <1>3, <1>4

LEMMA InitHolds == Init => IInv
<1> SUFFICES ASSUME Init PROVE IInv
  OBVIOUS
<1> USE MaxLinesAssumption DEF Init
<1>1. Typed /\ Spawned
  <2>1. count \in Int /\ count <= MaxLines /\ lines \in Nat
    BY MaxLinesAssumption
  <2>3. crashed \in BOOLEAN
    OBVIOUS
  <2>2. pc \in [Thread -> Labels] /\ Spawned
    BY DEF Spawned, Thread, Labels
  <2> QED
    BY <2>1, <2>2, <2>3 DEF Typed
<1>2. Exited = {} /\ Printing = {}
  BY DEF Exited, Printing, Thread
<1>3. Overdraft
  BY <1>2 DEF Overdraft
<1>4. Accounted
  BY <1>2, FS_EmptySet DEF Accounted
<1> QED
  BY <1>1, <1>3, <1>4 DEF IInv

\* A step that leaves the counter alone, and the threads that print or have
\* ended, keeps the account.
LEMMA Frame ==
  ASSUME IInv, Typed', Spawned', UNCHANGED <<count, lines>>,
         Exited' = Exited, Printing' = Printing
  PROVE  IInv'
BY DEF IInv, Overdraft, Accounted

LEMMA CreateStep == ASSUME IInv, CreateThread PROVE IInv'
<1> USE DEF IInv, Typed, Spawned, At, Goto, Exited, Printing, Labels, Thread
<1>1. CASE CreateStack("stack1", "clone1")
  <2>1. Typed' /\ Spawned' /\ UNCHANGED <<count, lines>>
    BY <1>1 DEF CreateStack
  <2>2. Exited' = Exited /\ Printing' = Printing
    BY <1>1 DEF CreateStack
  <2> QED
    BY <2>1, <2>2, Frame
<1>2. CASE CreateStack("stack2", "clone2")
  <2>1. Typed' /\ Spawned' /\ UNCHANGED <<count, lines>>
    BY <1>2 DEF CreateStack
  <2>2. Exited' = Exited /\ Printing' = Printing
    BY <1>2 DEF CreateStack
  <2> QED
    BY <2>1, <2>2, Frame
<1>3. CASE Clone("thread1", "clone1", "stack2")
  <2>1. Typed' /\ Spawned' /\ UNCHANGED <<count, lines>>
    BY <1>3 DEF Clone
  <2>2. Exited' = Exited /\ Printing' = Printing
    BY <1>3 DEF Clone
  <2> QED
    BY <2>1, <2>2, Frame
<1>4. CASE Clone("thread2", "clone2", "check")
  <2>1. Typed' /\ Spawned' /\ UNCHANGED <<count, lines>>
    BY <1>4 DEF Clone
  <2>2. Exited' = Exited /\ Printing' = Printing
    BY <1>4 DEF Clone
  <2> QED
    BY <2>1, <2>2, Frame
<1> QED
  BY <1>1, <1>2, <1>3, <1>4 DEF CreateThread

LEMMA CheckStep ==
  ASSUME IInv, NEW t \in Thread, CheckCount(t)
  PROVE  IInv'
<1> USE DEF IInv
<1>1. /\ pc \in [Thread -> Labels] /\ pc[t] = "check"
      /\ count \in Int /\ lines \in Nat
      /\ count' = count - 1 /\ lines' = lines
      /\ pc' = [pc EXCEPT ![t] = IF count - 1 < 0 THEN "exited" ELSE "puts"]
  BY DEF CheckCount, At, Goto, Typed
<1>2. Typed' /\ Spawned'
  <2>1. count' \in Int /\ count' <= MaxLines
    BY <1>1, MaxLinesAssumption DEF Typed
  <2>2. pc' \in [Thread -> Labels] /\ crashed' = crashed
    BY <1>1 DEF CheckCount, Labels
  <2>3. Spawned'
    BY <1>1 DEF Spawned, Thread
  <2> QED
    BY <1>1, <2>1, <2>2, <2>3 DEF Typed
<1>3. /\ Printing \in SUBSET Thread /\ Exited \in SUBSET Thread
      /\ t \notin Printing /\ t \notin Exited
  BY <1>1 DEF Printing, Exited
<1>4. /\ IsFiniteSet(Printing) /\ Cardinality(Printing) \in Nat
      /\ IsFiniteSet(Exited) /\ Cardinality(Exited) \in Nat
  BY <1>3, ThreadsFinite
<1>5. CASE count > 0
  <2>1. Exited' = Exited /\ Printing' = Printing \union {t}
    BY <1>1, <1>5 DEF Exited, Printing
  <2>2. Cardinality(Printing') = Cardinality(Printing) + 1
    BY <1>3, <1>4, <2>1, FS_AddElement
  <2>3. Overdraft'
    BY <1>1, <1>5, <2>1 DEF Overdraft
  <2>4. Accounted'
    BY <1>1, <1>4, <1>5, <2>2 DEF Accounted
  <2> QED
    BY <1>2, <2>3, <2>4
<1>6. CASE count <= 0
  <2>1. Printing' = Printing /\ Exited' = Exited \union {t}
    BY <1>1, <1>6 DEF Exited, Printing
  <2>2. Cardinality(Exited') = Cardinality(Exited) + 1
    BY <1>3, <1>4, <2>1, FS_AddElement
  <2>3. count = -Cardinality(Exited)
    BY <1>1, <1>6, FS_EmptySet DEF Overdraft
  <2>4. Overdraft'
    BY <1>1, <1>4, <1>6, <2>2, <2>3 DEF Overdraft
  <2>5. Accounted'
    BY <1>1, <1>4, <1>6, <2>1 DEF Accounted
  <2> QED
    BY <1>2, <2>4, <2>5
<1> QED
  BY <1>1, <1>5, <1>6

LEMMA PutsStep ==
  ASSUME IInv, NEW t \in Thread, Puts(t)
  PROVE  IInv'
<1> USE DEF IInv
<1>1. /\ pc \in [Thread -> Labels] /\ pc[t] = "puts"
      /\ count \in Int /\ lines \in Nat
      /\ count' = count /\ lines' = lines + 1
      /\ pc' = [pc EXCEPT ![t] = "check"]
  BY DEF Puts, At, Goto, Typed
<1>2. Typed' /\ Spawned'
  BY <1>1 DEF Typed, Spawned, Puts, Labels, Thread
<1>3. Exited' = Exited /\ Printing' = Printing \ {t} /\ t \in Printing
  BY <1>1 DEF Exited, Printing
<1>4. IsFiniteSet(Printing) /\ Cardinality(Printing) \in Nat
  BY ThreadsFinite DEF Printing
<1>5. Cardinality(Printing') = Cardinality(Printing) - 1
  BY <1>3, <1>4, FS_RemoveElement
<1>6. Overdraft'
  BY <1>1, <1>3 DEF Overdraft
<1>7. Accounted'
  BY <1>1, <1>4, <1>5 DEF Accounted
<1> QED
  BY <1>2, <1>6, <1>7

LEMMA Invariant == Spec => []IInv
<1>1. IInv /\ [Next]_vars => IInv'
  <2> SUFFICES ASSUME IInv, [Next]_vars PROVE IInv'
    OBVIOUS
  <2>1. CASE UNCHANGED vars
    BY <2>1 DEF vars, IInv, Typed, Spawned, Overdraft, Accounted, Exited, Printing
  <2> QED
    BY <2>1, CreateStep, CheckStep, PutsStep DEF Next, Step, Terminating
<1> QED
  BY <1>1, InitHolds, PTL DEF Spec

\* Types, and with them the bounds of the counter and of the number of lines.
THEOREM TypeCorrect == Spec => []TypeOK
<1>1. IInv => TypeOK
  <2> SUFFICES ASSUME IInv PROVE TypeOK
    OBVIOUS
  <2>1. /\ Cardinality(Exited) \in Nat /\ Cardinality(Exited) <= Cardinality(Thread)
        /\ Cardinality(Printing) \in Nat /\ Cardinality(Thread) \in Nat
    BY ThreadsFinite DEF Exited, Printing
  <2>2. count \in -Cardinality(Thread)..MaxLines
    BY <2>1, MaxLinesAssumption DEF IInv, Typed, Overdraft
  <2>3. lines \in 0..MaxLines
    BY <2>1, MaxLinesAssumption DEF IInv, Typed, Accounted
  <2> QED
    BY <2>2, <2>3 DEF TypeOK, IInv, Typed
<1> QED
  BY <1>1, Invariant, PTL

\* The account of the lines is right at every moment, however the threads
\* interleave: in the end there are MaxLines of them.
THEOREM AccountedCorrect == Spec => []Accounted
<1>1. IInv => Accounted
  BY DEF IInv
<1> QED
  BY <1>1, Invariant, PTL

\* No line begins after the first thread has ended.
THEOREM NoLineAfterExitCorrect == Spec => NoLineAfterExit
<1>1. IInv /\ [Next]_vars =>
        [\A t, u \in Thread :
           pc[t] = "exited" /\ pc[u] # "puts" => pc'[u] # "puts"]_vars
  <2> SUFFICES ASSUME IInv, Next, NEW t \in Thread, NEW u \in Thread,
                      pc[t] = "exited", pc[u] # "puts"
               PROVE  pc'[u] # "puts"
    BY DEF vars
  <2>1. count < 0 /\ count \in Int /\ pc \in [Thread -> Labels]
    BY DEF IInv, Typed, Overdraft, Exited
  <2>2. CASE CreateThread
    BY <2>1, <2>2 DEF CreateThread, CreateStack, Clone, Goto, Thread
  <2>3. CASE \E v \in Thread : Step(v)
    BY <2>1, <2>3 DEF Step, CheckCount, Puts, At, Goto
  <2>4. CASE UNCHANGED vars
    BY <2>4 DEF vars
  <2> QED
    BY <2>2, <2>3, <2>4 DEF Next, Terminating
<1> QED
  BY <1>1, Invariant, PTL DEF Spec, NoLineAfterExit

-----------------------------------------------------------------------------
(* Refinement.                                                             *)

AllEnded == (\A t \in Thread : pc[t] \in {"unborn", "exited"}) /\ pc["main"] = "exited"
AllOut == lines = MaxLines
MainBorn == pc["main"] # "unborn"

\* The end of the last thread finds every line printed.
LEMMA AllPrinted == IInv /\ AllEnded => AllOut
<1> SUFFICES ASSUME IInv, AllEnded PROVE AllOut
  OBVIOUS
<1>1. Printing = {} /\ "main" \in Exited
  BY DEF Printing, Exited, Thread, AllEnded
<1>2. count < 0 /\ count \in Int /\ lines \in Nat
  BY <1>1 DEF IInv, Typed, Overdraft
<1> QED
  BY <1>1, <1>2, FS_EmptySet DEF IInv, Accounted, AllOut

LEMMA QuotaStep ==
  ASSUME IInv, IInv', MainBorn, [Next]_vars
  PROVE  [Abstract!Next]_(Abstract!vars)
<1>t. pc \in [Thread -> Labels]
  BY DEF IInv, Typed
<1>p. Ended' = (\A t \in Thread : pc'[t] \in {"unborn", "exited"})
  BY Zenon DEF Ended
<1>1. CASE CreateThread
  <2>1. /\ pc["main"] \in {"stack1", "clone1", "stack2", "clone2"}
        /\ pc'["main"] \in {"stack1", "clone1", "stack2", "clone2", "check"}
        /\ UNCHANGED lines
    BY <1>1, <1>t DEF CreateThread, CreateStack, Clone, At, Goto, Thread, Labels
  <2>2. Ended = FALSE /\ Ended' = FALSE
    BY <1>p, <2>1 DEF Ended, Thread
  <2> QED
    BY <2>1, <2>2 DEF Abstract!vars
<1>2. ASSUME NEW t \in Thread, CheckCount(t)
      PROVE  [Abstract!Next]_(Abstract!vars)
  <2>1. /\ UNCHANGED lines /\ pc[t] = "check"
    BY <1>2 DEF CheckCount, At
  <2>2. Ended = FALSE
    BY <2>1 DEF Ended
  <2>3. CASE Ended' = FALSE
    BY <2>1, <2>2, <2>3 DEF Abstract!vars
  <2>4. CASE Ended' = TRUE
    <3>1. AllEnded'
      BY <1>2, <1>t, <1>p, <2>4 DEF AllEnded, MainBorn, CheckCount, Goto, Thread
    <3>2. IInv' /\ AllEnded' => AllOut'
      BY AllPrinted, PTL
    <3>3. lines = MaxLines
      BY <2>1, <3>1, <3>2 DEF AllOut
    <3> QED
      BY <2>1, <2>2, <2>4, <3>3 DEF Abstract!Next, Abstract!Stop
  <2> QED
    BY <1>p, <2>3, <2>4
<1>3. ASSUME NEW t \in Thread, Puts(t)
      PROVE  [Abstract!Next]_(Abstract!vars)
  <2>1. /\ lines' = lines + 1 /\ pc[t] = "puts" /\ pc' = [pc EXCEPT ![t] = "check"]
    BY <1>3 DEF Puts, At, Goto
  <2>2. Ended = FALSE /\ Ended' = FALSE
    BY <1>t, <1>p, <2>1 DEF Ended
  <2>3. Cardinality(Printing) \in Nat /\ Cardinality(Printing) # 0
    <3>1. t \in Printing /\ Printing \in SUBSET Thread
      BY <2>1 DEF Printing
    <3> QED
      BY <3>1, ThreadsFinite, FS_EmptySet
  <2>4. lines < MaxLines
    <3> DEFINE printing == Cardinality(Printing)
               left == IF count < 0 THEN 0 ELSE count
    <3>1. lines + printing + left = MaxLines
      BY DEF IInv, Accounted
    <3>2. lines \in Nat /\ left \in Nat /\ printing \in Nat /\ printing # 0
      BY <2>3 DEF IInv, Typed
    <3> HIDE DEF printing, left
    <3> QED
      BY <3>1, <3>2, MaxLinesAssumption
  <2>5. Abstract!Line
    BY <2>1, <2>2, <2>4 DEF Abstract!Line
  <2> QED
    BY <2>5 DEF Abstract!Next
<1>4. CASE UNCHANGED vars
  BY <1>4, <1>p DEF vars, Ended, Abstract!vars
<1> QED
  BY <1>1, <1>2, <1>3, <1>4 DEF Next, Step, Terminating

\* Whatever the kernel refuses, the threads together print one quota of lines
\* at most and have ended only when it is out.
THEOREM QuotaImplemented == Spec => ImplementsQuota
<1>1. Init => Abstract!Init
  BY DEF Init, Ended, Thread, Abstract!Init
<1>2. Init => MainBorn
  BY DEF Init, MainBorn, Thread
<1>3. IInv /\ MainBorn /\ [Next]_vars => MainBorn'
  BY DEF MainBorn, IInv, Typed, Next, CreateThread, CreateStack, Clone, Step,
         CheckCount, Puts, Terminating, vars, Goto, Thread
<1>4. IInv /\ IInv' /\ MainBorn /\ [Next]_vars => [Abstract!Next]_(Abstract!vars)
  BY QuotaStep
<1> QED
  BY <1>1, <1>2, <1>3, <1>4, Invariant, PTL DEF Spec, ImplementsQuota
=============================================================================
