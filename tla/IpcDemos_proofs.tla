--------------------------- MODULE IpcDemos_proofs ---------------------------
(***************************************************************************)
(* Proofs about IpcDemos.                                                  *)
(*                                                                         *)
(* The lemmas whose names end in 2, 3, 5, F and X are about PipeDemo2,     *)
(* PipeDemo3, PipeDemo5, ForkDemo and ExtXTerm.  They say that a program's *)
(* inductive invariant (Inv in its module) holds at the start and is kept  *)
(* by every step, and that PipeDemo3 and PipeDemo5 take the steps of a     *)
(* Stream.  In ExtXTerm a run is alone with its FIFO, and what one leaves  *)
(* to the next is an empty FIFO at most.  The theorems at the end say what *)
(* follows whichever program is run.                                       *)
(***************************************************************************)
EXTENDS IpcDemos, SequenceTheorems, TLAPS

-----------------------------------------------------------------------------
(* ForkDemo.                                                               *)

\* What is asked of the constants.
LEMMA ConstantsF == /\ Iterations \in [F!Process -> Nat]
                    /\ \A q \in F!Process : Iterations[q] \in Nat /\ Iterations[q] # 0
  BY InstanceAssumption DEF F!Assumption

\* The processes are the parent and the two children.
LEMMA ProcessesF ==
  /\ "Parent" \in F!Process /\ "Parent" \notin F!Children
  /\ F!Children \subseteq F!Process /\ \A q \in F!Process : q = "Parent" \/ q \in F!Children
  BY DEF F!Process, F!Children

\* The typing of the variables, to be cited.
LEMMA TypesF ==
  ASSUME F!Inv
  PROVE  /\ life \in [F!Process -> F!Kernel!Life] /\ pc \in [F!Process -> F!Labels]
         /\ parentOf \in [F!Children -> F!Process \cup {"nobody"}]
         /\ left \in [F!Process -> Nat] /\ \A q \in F!Process : left[q] <= Iterations[q]
         /\ line \in [F!Process -> {"", "0", "1", "done"}]
         /\ header \in {"", "error", "waiting", "all done"}
  BY DEF F!Inv, F!TypeOK

\* The inductive invariant holds when ForkDemo starts.
LEMMA InitF == ASSUME F!Init PROVE F!Inv
  <1>1. /\ life \in [F!Process -> F!Kernel!Life] /\ pc \in [F!Process -> F!Labels]
        /\ parentOf \in [F!Children -> F!Process \cup {"nobody"}]
        /\ line \in [F!Process -> {"", "0", "1", "done"}]
        /\ header \in {"", "error", "waiting", "all done"}
    BY DEF F!Init, F!Process, F!Children, F!Labels, F!Kernel!Life
  <1>2. left = Iterations
    BY DEF F!Init
  <1>3. left \in [F!Process -> Nat] /\ \A q \in F!Process : left[q] <= Iterations[q]
    BY <1>2, ConstantsF
  <1>4. F!TypeOK
    BY <1>1, <1>3 DEF F!TypeOK
  <1>5. F!Counts
    BY <1>2, ConstantsF DEF F!Counts
  <1>6. F!Ended /\ F!Waits /\ F!AllDoneIsTrue
    BY DEF F!Init, F!Ended, F!Waits, F!AllDoneIsTrue, F!Process, F!Children
  <1>. QED
    BY <1>4, <1>5, <1>6 DEF F!Inv

\* The parent forks, or fails to.
LEMMA ForkF ==
  ASSUME F!Inv, NEW child \in F!Children, NEW here \in {"fork1", "fork2"},
         NEW next \in {"fork2", "repeat"}, F!Fork(child, here, next)
  PROVE  F!Inv'
  <1>1. /\ life["Parent"] = "running" /\ pc["Parent"] = here /\ left' = left /\ line' = line
        /\ child \in F!Process /\ child # "Parent" /\ "Parent" \in F!Process
        /\ here \in {"fork1", "fork2"}
    BY ProcessesF DEF F!Fork, F!At
  <1>2. /\ life' \in [F!Process -> F!Kernel!Life]
        /\ life'[child] \in {life[child], "running"}
        /\ \A q \in F!Process : q # child => life'[q] = life[q]
    BY <1>1, TypesF DEF F!Fork, F!Kernel!Fork, F!Kernel!Life
  <1>3. parentOf' \in [F!Children -> F!Process \cup {"nobody"}]
    BY <1>1, TypesF DEF F!Fork
  <1>4. PICK label \in {"fork2", "repeat", "exit"} :
          /\ pc' = [pc EXCEPT !["Parent"] = label]
          /\ label = "exit" => header' = "error"
          /\ label # "exit" => header' = header
    BY DEF F!Fork, F!Goto
  <1>5. /\ pc' \in [F!Process -> F!Labels] /\ pc'["Parent"] = label
        /\ \A q \in F!Process : q # "Parent" => pc'[q] = pc[q]
    BY <1>1, <1>4, TypesF DEF F!Labels
  <1>6. header # "all done"
    BY <1>1 DEF F!Inv, F!Waits
  <1>7. header' \in {"", "error", "waiting", "all done"} /\ header' # "all done"
    BY <1>4, <1>6, TypesF
  <1>8. F!TypeOK'
    BY <1>1, <1>2, <1>3, <1>5, <1>7, TypesF DEF F!TypeOK
  <1>9. F!Counts'
    BY <1>1, <1>5 DEF F!Inv, F!Counts
  <1>10. F!Ended'
    BY <1>1, <1>2, <1>5, ProcessesF DEF F!Inv, F!Ended
  <1>11. F!Waits' /\ F!AllDoneIsTrue'
    BY <1>5, <1>7 DEF F!Waits, F!AllDoneIsTrue
  <1>. QED
    BY <1>8, <1>9, <1>10, <1>11 DEF F!Inv

\* A process writes its digit.
LEMMA RepeatF == ASSUME F!Inv, NEW q \in F!Process, F!Repeat(q) PROVE F!Inv'
  <1>1. /\ life[q] = "running" /\ pc[q] = "repeat" /\ UNCHANGED <<life, parentOf, header>>
        /\ left' = [left EXCEPT ![q] = left[q] - 1] /\ line' = [line EXCEPT ![q] = F!Digit(q)]
        /\ pc' = [pc EXCEPT ![q] = IF left[q] = 1 THEN "done" ELSE "repeat"]
    BY DEF F!Repeat, F!At, F!Goto
  <1>2. left[q] \in Nat \ {0} /\ left[q] <= Iterations[q] /\ Iterations[q] \in Nat
    BY <1>1, TypesF, ConstantsF DEF F!Inv, F!Counts
  <1>3. /\ left' \in [F!Process -> Nat] /\ left'[q] = left[q] - 1
        /\ \A r \in F!Process : r # q => left'[r] = left[r]
    <2>1. left[q] - 1 \in Nat
      BY <1>2
    <2>. QED
      BY <1>1, <2>1, TypesF
  <1>4. \A r \in F!Process : left'[r] <= Iterations[r]
    <2>1. left[q] - 1 <= Iterations[q]
      BY <1>2
    <2>2. left'[q] <= Iterations[q]
      BY <1>3, <2>1
    <2>3. \A r \in F!Process : left[r] <= Iterations[r]
      BY TypesF
    <2>4. ASSUME NEW r \in F!Process, r # q PROVE left'[r] <= Iterations[r]
      <3>1. left'[r] = left[r] /\ left[r] <= Iterations[r]
        BY <1>3, <2>3, <2>4
      <3>. QED
        BY <3>1
    <2>. QED
      BY <2>2, <2>4
  <1>5. /\ pc' \in [F!Process -> F!Labels]
        /\ pc'[q] \in {"repeat", "done"} /\ (pc'[q] = "repeat" => left[q] # 1)
        /\ \A r \in F!Process : r # q => pc'[r] = pc[r]
    BY <1>1, TypesF DEF F!Labels
  <1>6. /\ line' \in [F!Process -> {"", "0", "1", "done"}]
        /\ \A r \in F!Process : r # q => line'[r] = line[r]
    <2>1. F!Digit(q) \in {"", "0", "1", "done"}
      BY DEF F!Digit
    <2>. QED
      BY <1>1, <2>1, TypesF
  <1>7. F!TypeOK'
    BY <1>1, <1>3, <1>4, <1>5, <1>6, TypesF DEF F!TypeOK
  <1>8. F!Counts'
    <2>1. pc'[q] = "repeat" => left'[q] # 0
      BY <1>2, <1>3, <1>5
    <2>. QED
      BY <1>3, <1>5, <2>1 DEF F!Inv, F!Counts
  <1>9. F!Ended'
    BY <1>1, <1>5, <1>6, ProcessesF DEF F!Inv, F!Ended
  <1>10. F!Waits' /\ F!AllDoneIsTrue'
    <2>1. F!Waits /\ F!AllDoneIsTrue /\ F!Ended
      BY DEF F!Inv
    <2>2. CASE q = "Parent"
      <3>1. pc'["Parent"] \in {"repeat", "done"} /\ header # "all done"
        BY <1>1, <1>5, <2>1, <2>2 DEF F!Waits
      <3>. QED
        BY <1>1, <3>1 DEF F!Waits, F!AllDoneIsTrue
    <2>3. CASE q # "Parent"
      <3>1. life[q] # "gone" /\ q \in F!Children /\ header # "all done"
        BY <1>1, <2>1, <2>3, ProcessesF DEF F!AllDoneIsTrue
      <3>2. pc'["Parent"] = pc["Parent"] /\ line'["Parent"] = line["Parent"]
        BY <1>5, <1>6, <2>3, ProcessesF
      <3>. QED
        BY <1>1, <2>1, <3>1, <3>2 DEF F!Waits, F!AllDoneIsTrue
    <2>. QED
      BY <2>2, <2>3
  <1>. QED
    BY <1>7, <1>8, <1>9, <1>10 DEF F!Inv

\* A process writes "done".
LEMMA DoneF == ASSUME F!Inv, NEW q \in F!Process, F!Done(q) PROVE F!Inv'
  <1>1. /\ life[q] = "running" /\ pc[q] = "done" /\ UNCHANGED <<life, parentOf, left, header>>
        /\ line' = [line EXCEPT ![q] = "done"]
        /\ pc' = [pc EXCEPT ![q] = IF q = "Parent" THEN "waiting" ELSE "exit"]
    BY DEF F!Done, F!At, F!Goto
  <1>2. /\ pc' \in [F!Process -> F!Labels]
        /\ pc'[q] = (IF q = "Parent" THEN "waiting" ELSE "exit")
        /\ \A r \in F!Process : r # q => pc'[r] = pc[r]
    BY <1>1, TypesF DEF F!Labels
  <1>3. /\ line' \in [F!Process -> {"", "0", "1", "done"}] /\ line'[q] = "done"
        /\ \A r \in F!Process : r # q => line'[r] = line[r]
    BY <1>1, TypesF
  <1>4. F!TypeOK'
    BY <1>1, <1>2, <1>3, TypesF DEF F!TypeOK
  <1>5. F!Counts'
    BY <1>1, <1>2 DEF F!Inv, F!Counts
  <1>6. F!Ended'
    BY <1>1, <1>2, <1>3, ProcessesF DEF F!Inv, F!Ended
  <1>7. F!Waits' /\ F!AllDoneIsTrue'
    <2>1. F!Waits /\ F!AllDoneIsTrue
      BY DEF F!Inv
    <2>2. header # "all done"
      BY <1>1, <2>1, ProcessesF DEF F!Waits, F!AllDoneIsTrue
    <2>3. CASE q = "Parent"
      BY <1>1, <1>2, <1>3, <2>2, <2>3 DEF F!Waits, F!AllDoneIsTrue
    <2>4. CASE q # "Parent"
      <3>1. pc'["Parent"] = pc["Parent"] /\ line'["Parent"] = line["Parent"]
        BY <1>2, <1>3, <2>4, ProcessesF
      <3>. QED
        BY <1>1, <2>1, <2>2, <3>1 DEF F!Waits, F!AllDoneIsTrue
    <2>. QED
      BY <2>3, <2>4
  <1>. QED
    BY <1>4, <1>5, <1>6, <1>7 DEF F!Inv

\* A process ends, by itself or by a signal, and who it leaves behind is reaped.
LEMMA DieF ==
  ASSUME F!Inv, NEW q \in F!Process, F!Exit(q) \/ F!Kill(q)
  PROVE  F!Inv'
  <1>1. /\ life[q] = "running" /\ UNCHANGED <<parentOf, left, line, header>>
        /\ \/ pc[q] = "exit" /\ pc' = pc
           \/ pc' = [pc EXCEPT ![q] = "killed"]
        /\ F!Kernel!Die(q, "Parent")
    BY DEF F!Exit, F!Kill, F!At, F!Goto
  <1>2. /\ life' \in [F!Process -> F!Kernel!Life] /\ life'[q] \in {"zombie", "gone"}
        /\ \A r \in F!Process :
             /\ r # q /\ life[r] # "zombie" => life'[r] = life[r]
             /\ r # q /\ life[r] = "zombie" => life'[r] \in {"zombie", "gone"}
    BY <1>1, TypesF DEF F!Kernel!Die, F!Kernel!Life
  <1>3. /\ pc' \in [F!Process -> F!Labels] /\ pc'[q] \in {"exit", "killed"}
        /\ pc'[q] = "exit" => pc[q] = "exit"
        /\ \A r \in F!Process : r # q => pc'[r] = pc[r]
    BY <1>1, TypesF DEF F!Labels
  <1>4. F!TypeOK'
    BY <1>1, <1>2, <1>3, TypesF DEF F!TypeOK
  <1>5. F!Counts'
    BY <1>1, <1>3 DEF F!Inv, F!Counts
  <1>6. F!Ended'
    BY <1>1, <1>2, <1>3, ProcessesF DEF F!Inv, F!Ended
  <1>7. \A c \in F!Children : life[c] = "gone" => life'[c] = "gone" /\ pc'[c] = pc[c]
    BY <1>1, <1>2, <1>3, ProcessesF
  <1>8. pc'["Parent"] \in {"exit", "killed"} \/ pc'["Parent"] = pc["Parent"]
    BY <1>3, ProcessesF
  <1>9. header = "all done" => pc'["Parent"] \in {"exit", "killed"}
    BY <1>8 DEF F!Inv, F!Waits
  <1>10. F!Waits'
    BY <1>1, <1>7, <1>8, <1>9 DEF F!Inv, F!Waits
  <1>11. F!AllDoneIsTrue'
    BY <1>1, <1>7 DEF F!Inv, F!AllDoneIsTrue
  <1>. QED
    BY <1>4, <1>5, <1>6, <1>10, <1>11 DEF F!Inv

\* The parent reaps a child.
LEMMA WaitF == ASSUME F!Inv, F!WaitForChild PROVE F!Inv'
  <1>1. PICK child \in F!Children : F!Kernel!Reap(child)
    BY DEF F!WaitForChild, F!ChildrenOf
  <1>2. /\ life[child] = "zombie" /\ life' = [life EXCEPT ![child] = "gone"]
        /\ UNCHANGED <<parentOf, left, line, header>>
        /\ life["Parent"] = "running"
        /\ \/ pc["Parent"] = "wait1" /\ pc' = [pc EXCEPT !["Parent"] = "wait2"]
           \/ pc["Parent"] = "wait2" /\ pc' = [pc EXCEPT !["Parent"] = "all_done"]
    BY <1>1 DEF F!WaitForChild, F!Kernel!Reap, F!At, F!Goto
  <1>3. /\ life' \in [F!Process -> F!Kernel!Life] /\ life'[child] = "gone"
        /\ \A q \in F!Process : q # child => life'[q] = life[q]
    BY <1>2, TypesF, ProcessesF DEF F!Kernel!Life
  <1>4. /\ pc' \in [F!Process -> F!Labels]
        /\ \/ pc["Parent"] = "wait1" /\ pc'["Parent"] = "wait2"
           \/ pc["Parent"] = "wait2" /\ pc'["Parent"] = "all_done"
        /\ \A q \in F!Process : q # "Parent" => pc'[q] = pc[q]
    <2>1. "wait2" \in F!Labels /\ "all_done" \in F!Labels
      BY DEF F!Labels
    <2>2. /\ pc \in [F!Process -> F!Labels] /\ "Parent" \in F!Process
      BY TypesF, ProcessesF
    <2>3. PICK label \in {"wait2", "all_done"} :
            /\ pc' = [pc EXCEPT !["Parent"] = label]
            /\ \/ pc["Parent"] = "wait1" /\ label = "wait2"
               \/ pc["Parent"] = "wait2" /\ label = "all_done"
      BY <1>2
    <2>. QED
      BY <2>1, <2>2, <2>3
  <1>5. F!TypeOK'
    <2>1. /\ parentOf' \in [F!Children -> F!Process \cup {"nobody"}]
          /\ left' \in [F!Process -> Nat] /\ \A q \in F!Process : left'[q] <= Iterations[q]
          /\ line' \in [F!Process -> {"", "0", "1", "done"}]
          /\ header' \in {"", "error", "waiting", "all done"}
      BY <1>2, TypesF
    <2>. QED
      BY <1>3, <1>4, <2>1 DEF F!TypeOK
  <1>6. F!Counts'
    BY <1>2, <1>4 DEF F!Inv, F!Counts
  <1>7. F!Ended'
    BY <1>2, <1>3, <1>4, ProcessesF DEF F!Inv, F!Ended
  <1>8. header # "all done" /\ line["Parent"] = "done"
    BY <1>4 DEF F!Inv, F!Waits
  <1>9. pc["Parent"] = "wait2" => \A c \in F!Children : life'[c] = "gone"
    <2>1. SUFFICES ASSUME pc["Parent"] = "wait2" PROVE \A c \in F!Children : life'[c] = "gone"
      OBVIOUS
    <2>2. PICK first \in F!Children : life[first] = "gone"
      BY <2>1 DEF F!Inv, F!Waits
    <2>3. first # child /\ life'[first] = "gone"
      BY <1>2, <1>3, <2>2, ProcessesF
    <2>4. \A c \in F!Children : c = child \/ c = first
      BY <2>3 DEF F!Children
    <2>. QED
      BY <1>3, <2>3, <2>4
  <1>10. F!Waits'
    BY <1>2, <1>3, <1>4, <1>8, <1>9 DEF F!Waits
  <1>11. F!AllDoneIsTrue'
    BY <1>2, <1>8 DEF F!AllDoneIsTrue
  <1>. QED
    BY <1>5, <1>6, <1>7, <1>10, <1>11 DEF F!Inv

\* The parent says that it waits, and that all is done.
LEMMA SayF == ASSUME F!Inv, F!ParentWaiting \/ F!ParentAllDone PROVE F!Inv'
  <1>1. /\ UNCHANGED <<life, parentOf, left, line>>
        /\ \/ /\ pc["Parent"] = "waiting" /\ pc' = [pc EXCEPT !["Parent"] = "wait1"]
              /\ header' = "waiting"
           \/ /\ pc["Parent"] = "all_done" /\ pc' = [pc EXCEPT !["Parent"] = "exit"]
              /\ header' = "all done"
        /\ life["Parent"] = "running"
    BY DEF F!ParentWaiting, F!ParentAllDone, F!ParentSays, F!At, F!Goto
  <1>2. /\ pc' \in [F!Process -> F!Labels]
        /\ \/ pc["Parent"] = "waiting" /\ pc'["Parent"] = "wait1" /\ header' = "waiting"
           \/ pc["Parent"] = "all_done" /\ pc'["Parent"] = "exit" /\ header' = "all done"
        /\ \A q \in F!Process : q # "Parent" => pc'[q] = pc[q]
    <2>1. PICK label \in {"wait1", "exit"} :
            /\ pc' = [pc EXCEPT !["Parent"] = label]
            /\ \/ pc["Parent"] = "waiting" /\ label = "wait1" /\ header' = "waiting"
               \/ pc["Parent"] = "all_done" /\ label = "exit" /\ header' = "all done"
      BY <1>1
    <2>2. /\ pc' \in [F!Process -> F!Labels] /\ pc'["Parent"] = label
          /\ \A q \in F!Process : q # "Parent" => pc'[q] = pc[q]
      BY <2>1, TypesF, ProcessesF DEF F!Labels
    <2>. QED
      BY <2>1, <2>2
  <1>3. F!TypeOK'
    BY <1>1, <1>2, TypesF DEF F!TypeOK
  <1>4. F!Counts'
    BY <1>1, <1>2 DEF F!Inv, F!Counts
  <1>5. F!Ended'
    BY <1>1, <1>2, ProcessesF DEF F!Inv, F!Ended
  <1>6. /\ line["Parent"] = "done"
        /\ (pc["Parent"] = "all_done" => \A c \in F!Children : life[c] = "gone")
    BY <1>2 DEF F!Inv, F!Waits
  <1>7. F!Waits'
    BY <1>1, <1>2, <1>6 DEF F!Waits
  <1>8. \A c \in F!Children : life[c] = "gone" /\ pc[c] # "killed" => line[c] = "done"
    BY ProcessesF DEF F!Inv, F!Ended
  <1>9. F!AllDoneIsTrue'
    BY <1>1, <1>2, <1>6, <1>8, ProcessesF DEF F!AllDoneIsTrue
  <1>. QED
    BY <1>3, <1>4, <1>5, <1>7, <1>9 DEF F!Inv

\* Every step of ForkDemo keeps the inductive invariant.
LEMMA StepF == ASSUME F!Inv, [F!Next]_(F!vars) PROVE F!Inv'
  <1>1. CASE F!ForkChild1 \/ F!ForkChild2
    <2>1. "Child1" \in F!Children /\ "Child2" \in F!Children
      BY DEF F!Children
    <2>. QED
      BY <1>1, <2>1, ForkF DEF F!ForkChild1, F!ForkChild2
  <1>2. ASSUME NEW q \in F!Process, F!Steps(q) PROVE F!Inv'
    BY <1>2, RepeatF, DoneF, DieF DEF F!Steps
  <1>3. ASSUME NEW q \in F!Process, F!Kill(q) PROVE F!Inv'
    BY <1>3, DieF
  <1>4. CASE UNCHANGED F!vars
    BY <1>4 DEF F!vars, F!Inv, F!TypeOK, F!Counts, F!Ended, F!Waits, F!AllDoneIsTrue
  <1>. QED
    BY <1>1, <1>2, <1>3, <1>4, WaitF, SayF
    DEF F!Next, F!Parent, F!Child1, F!Child2, F!Terminating, F!Process, F!Kill

-----------------------------------------------------------------------------
(* ExtXTerm.                                                               *)

\* The typing of the variables, to be cited.
LEMMA TypesX ==
  ASSUME X!Inv
  PROVE  /\ files \in Seq(X!File) /\ Len(files) \in Nat /\ DOMAIN files = 1..Len(files)
         /\ \A i \in 1..Len(files) :
              files[i].readers = {r \in Run : fdfifo[r] = i /\ pc[r] \in {"read", "close"}}
         /\ \A i \in 1..Len(files) : files[i] \in X!File
         /\ path \in Nat /\ path <= Len(files)
         /\ pc \in [Run -> X!Labels] /\ xterm \in [Run -> X!XTermLabels]
         /\ fdfifo \in [Run -> 0..Len(files)] /\ target \in [Run -> 0..Len(files)]
         /\ buffer \in [Run -> Seq(Run)]
         /\ stderr \in [Run -> Run \cup {"terminal", "closed"}]
         /\ seen \in [Run -> SUBSET Run]
  <1>1. X!TypeOK
    BY DEF X!Inv
  <1>2. files \in Seq(X!File) /\ Len(files) \in Nat /\ DOMAIN files = 1..Len(files)
    BY <1>1 DEF X!TypeOK
  <1>3. \A i \in 1..Len(files) : files[i] \in X!File
    BY <1>2
  <1>4. path \in Nat /\ path <= Len(files)
    BY <1>1, <1>2 DEF X!TypeOK
  <1>. QED
    BY <1>1, <1>2, <1>3, <1>4 DEF X!TypeOK

\* One of the files is replaced.
LEMMA ChangedX ==
  ASSUME X!Inv, NEW i \in 1..Len(files), NEW f \in X!File, files' = [files EXCEPT ![i] = f]
  PROVE  /\ files' \in Seq(X!File) /\ Len(files') = Len(files) /\ DOMAIN files' = 1..Len(files)
         /\ files'[i] = f
         /\ \A j \in 1..Len(files) : j # i => files'[j] = files[j]
  <1>1. files \in Seq(X!File) /\ DOMAIN files = 1..Len(files)
    BY TypesX
  <1>. QED
    BY <1>1

\* A file is made.
LEMMA AddedX ==
  ASSUME X!Inv, NEW kind \in {"fifo", "regular"}, files' = Append(files, X!NewFile(kind))
  PROVE  /\ files' \in Seq(X!File) /\ Len(files') = Len(files) + 1
         /\ DOMAIN files' = 1..Len(files) + 1
         /\ files'[Len(files) + 1] = X!NewFile(kind)
         /\ \A j \in 1..Len(files) : files'[j] = files[j]
  <1>1. files \in Seq(X!File)
    BY TypesX
  <1>2. X!NewFile(kind) \in X!File
    BY DEF X!NewFile, X!File
  <1>. QED
    BY <1>1, <1>2, AppendProperties

\* A new file is empty, and nobody has it open.
LEMMA NewFileX ==
  ASSUME NEW kind
  PROVE  /\ X!NewFile(kind).kind = kind /\ X!NewFile(kind).content = <<>>
         /\ X!NewFile(kind).readers = {}
  BY DEF X!NewFile

\* What a close leaves of a file.
LEMMA ClosedX ==
  ASSUME NEW f \in X!File, NEW r \in Run
  PROVE  /\ X!Closed(f, r) \in X!File /\ X!Closed(f, r).kind = f.kind
         /\ X!Closed(f, r).readers = f.readers \ {r}
         /\ X!Closed(f, r).content \in {<<>>, f.content}
  <1>1. /\ f.kind \in {"fifo", "regular"} /\ f.content \in Seq(Run) /\ f.readers \in SUBSET Run
        /\ <<>> \in Seq(Run) /\ f.readers \ {r} \in SUBSET Run
    BY DEF X!File
  <1>. QED
    BY <1>1 DEF X!Closed, X!File

\* Who runs is alone.
LEMMA AloneX ==
  ASSUME X!Inv, NEW r \in Run, pc[r] \notin X!Ended, NEW q \in Run, q # r
  PROVE  pc[q] \in X!Ended
  BY DEF X!Inv, X!OneAtATime

\* The runs that are over have no part in what a run and its xterm do.
LEMMA OverX ==
  ASSUME X!Inv, X!NoneKilled, NEW q \in Run, pc[q] \in X!Ended,
         pc'[q] = pc[q], xterm'[q] = xterm[q]
  PROVE  pc'[q] # "read" /\ X!InStep(q)' /\ X!OwnFifo(q)'
  <1>1. pc[q] \in {"idle", "ended", "failed"}
    BY DEF X!Ended, X!NoneKilled
  <1>2. X!InStep(q)
    BY DEF X!Inv
  <1>3. xterm[q] # "tty"
    BY <1>1, <1>2 DEF X!InStep
  <1>4. X!InStep(q)'
    BY <1>2 DEF X!InStep
  <1>5. X!OwnFifo(q)'
    BY <1>1, <1>3 DEF X!OwnFifo
  <1>. QED
    BY <1>1, <1>4, <1>5

\* In particular those beside the run that is active.
LEMMA OthersX ==
  ASSUME X!Inv, X!NoneKilled, NEW r \in Run, pc[r] \notin X!Ended,
         \A q \in Run : q # r => pc'[q] = pc[q] /\ xterm'[q] = xterm[q]
  PROVE  \A q \in Run : q # r => pc'[q] # "read" /\ X!InStep(q)' /\ X!OwnFifo(q)'
  BY AloneX, OverX

\* A step of the run that is active, or of the first to be, keeps the runs apart.
LEMMA OneX ==
  ASSUME X!Inv, NEW r \in Run, pc[r] \notin X!Ended \/ \A q \in Run : pc[q] \in X!Ended,
         \A q \in Run : q # r => pc'[q] = pc[q]
  PROVE  X!OneAtATime'
  BY DEF X!Inv, X!OneAtATime

\* A killed run stays killed.
LEMMA KilledX ==
  ASSUME X!Inv, NEW r \in Run, pc[r] # "killed",
         \A q \in Run : q # r => pc'[q] = pc[q],
         X!NoneKilled'
  PROVE  X!NoneKilled
  BY DEF X!NoneKilled

\* The inductive invariant holds before any run of ExtXTerm.
LEMMA InitX == ASSUME X!Init PROVE X!Inv
  <1>1. X!TypeOK
    BY DEF X!Init, X!TypeOK, X!Labels, X!XTermLabels, X!Ended
  <1>2. X!OneAtATime /\ X!Opened
    BY DEF X!Init, X!OneAtATime, X!Opened, X!Ended
  <1>3. X!EmptyFifo /\ X!OwnTerminal
    BY DEF X!Init, X!EmptyFifo, X!OwnTerminal
  <1>4. ASSUME NEW r \in Run PROVE X!InStep(r) /\ X!OwnFifo(r)
    BY DEF X!Init, X!InStep, X!OwnFifo
  <1>. QED
    BY <1>1, <1>2, <1>3, <1>4 DEF X!Inv

\* Nothing is opened or closed, nothing is written to a file.
LEMMA FrameX ==
  ASSUME X!Inv, UNCHANGED <<files, fdfifo>>, path' \in {0, path},
         pc' \in [Run -> X!Labels], xterm' \in [Run -> X!XTermLabels],
         \A q \in Run : pc'[q] \in {"read", "close"} <=> pc[q] \in {"read", "close"},
         target' \in [Run -> 0..Len(files)], buffer' \in [Run -> Seq(Run)],
         stderr' \in [Run -> Run \cup {"terminal", "closed"}], seen' \in [Run -> SUBSET Run]
  PROVE  X!TypeOK'
  <1>1. \A i \in 1..Len(files) :
           files[i].readers = {q \in Run : fdfifo[q] = i /\ pc'[q] \in {"read", "close"}}
    <2>1. SUFFICES ASSUME NEW i \in 1..Len(files)
                   PROVE  files[i].readers =
                            {q \in Run : fdfifo[q] = i /\ pc'[q] \in {"read", "close"}}
      OBVIOUS
    <2>2. {q \in Run : fdfifo[q] = i /\ pc'[q] \in {"read", "close"}} =
            {q \in Run : fdfifo[q] = i /\ pc[q] \in {"read", "close"}}
      OBVIOUS
    <2>. QED
      BY <2>1, <2>2, TypesX
  <1>2. path' \in 0..Len(files)
    BY TypesX
  <1>. QED
    BY <1>1, <1>2, TypesX DEF X!TypeOK

\* A file is made under the name; nothing is opened or closed.
LEMMA MadeX ==
  ASSUME X!Inv, NEW kind \in {"fifo", "regular"}, files' = Append(files, X!NewFile(kind)),
         path' = Len(files) + 1, UNCHANGED <<fdfifo, buffer, stderr, seen>>,
         pc' \in [Run -> X!Labels], xterm' \in [Run -> X!XTermLabels],
         \A q \in Run : pc'[q] \in {"read", "close"} <=> pc[q] \in {"read", "close"},
         target' \in [Run -> 0..Len(files) + 1]
  PROVE  X!TypeOK'
  <1>1. /\ files' \in Seq(X!File) /\ Len(files') = Len(files) + 1
        /\ DOMAIN files' = 1..Len(files) + 1 /\ files'[Len(files) + 1] = X!NewFile(kind)
        /\ \A i \in 1..Len(files) : files'[i] = files[i]
    BY AddedX
  <1>2. ASSUME NEW i \in 1..Len(files) + 1
        PROVE  files'[i].readers = {q \in Run : fdfifo'[q] = i /\ pc'[q] \in {"read", "close"}}
    <2>1. CASE i \in 1..Len(files)
      BY <1>1, <2>1, TypesX
    <2>2. CASE i = Len(files) + 1
      <3>1. \A q \in Run : fdfifo'[q] # i
        BY <2>2, TypesX
      <3>. QED
        BY <1>1, <2>2, <3>1, NewFileX
    <2>. QED
      BY <2>1, <2>2, TypesX
  <1>3. \A i \in 0..Len(files) : i \in 0..Len(files')
    BY <1>1, TypesX
  <1>4. fdfifo' \in [Run -> 0..Len(files')] /\ target' \in [Run -> 0..Len(files')]
    BY <1>1, <1>3, TypesX
  <1>5. path' \in 0..Len(files')
    BY <1>1, TypesX
  <1>. QED
    BY <1>1, <1>2, <1>4, <1>5, TypesX DEF X!TypeOK

\* A file is read, written, opened or closed.
LEMMA UsedX ==
  ASSUME X!Inv, NEW i \in 1..Len(files), NEW f \in X!File, files' = [files EXCEPT ![i] = f],
         f.readers = {q \in Run : fdfifo'[q] = i /\ pc'[q] \in {"read", "close"}},
         \A q \in Run, j \in 1..Len(files) : j # i =>
           (fdfifo'[q] = j /\ pc'[q] \in {"read", "close"} <=>
              fdfifo[q] = j /\ pc[q] \in {"read", "close"}),
         UNCHANGED <<path, seen, stderr>>, buffer' \in [Run -> Seq(Run)],
         pc' \in [Run -> X!Labels], xterm' \in [Run -> X!XTermLabels],
         fdfifo' \in [Run -> 0..Len(files)], target' \in [Run -> 0..Len(files)]
  PROVE  X!TypeOK'
  <1>1. /\ files' \in Seq(X!File) /\ Len(files') = Len(files) /\ DOMAIN files' = 1..Len(files)
        /\ files'[i] = f
        /\ \A j \in 1..Len(files) : j # i => files'[j] = files[j]
    BY ChangedX
  <1>2. ASSUME NEW j \in 1..Len(files)
        PROVE  files'[j].readers = {q \in Run : fdfifo'[q] = j /\ pc'[q] \in {"read", "close"}}
    <2>1. CASE j = i
      BY <1>1, <2>1
    <2>2. CASE j # i
      <3>1. {q \in Run : fdfifo'[q] = j /\ pc'[q] \in {"read", "close"}} =
              {q \in Run : fdfifo[q] = j /\ pc[q] \in {"read", "close"}}
        BY <2>2
      <3>. QED
        BY <1>1, <2>2, <3>1, TypesX
    <2>. QED
      BY <2>1, <2>2
  <1>3. path' \in 0..Len(files')
    BY <1>1, TypesX
  <1>. QED
    BY <1>1, <1>2, <1>3, TypesX DEF X!TypeOK

\* A run starts when the others are over: what they left is an empty FIFO at most.
LEMMA StartX == ASSUME X!Inv, NEW r \in Run, X!Start(r) PROVE X!Inv'
  <1>1. /\ pc[r] = "idle" /\ \A q \in Run : pc[q] \in X!Ended
        /\ pc' = [pc EXCEPT ![r] = "mknod"]
        /\ UNCHANGED <<files, path, fdfifo, buffer, stderr, xterm, target, seen>>
    BY DEF X!Start, X!Goto
  <1>2. /\ pc' \in [Run -> X!Labels] /\ pc'[r] = "mknod"
        /\ \A q \in Run : q # r => pc'[q] = pc[q]
    BY <1>1, TypesX DEF X!Labels
  <1>3. \A q \in Run : pc[q] \notin {"read", "close"} /\ pc'[q] \notin {"read", "close"}
    BY <1>1, <1>2 DEF X!Ended
  <1>4. X!TypeOK'
    BY <1>1, <1>2, <1>3, TypesX, FrameX
  <1>5. X!OneAtATime' /\ X!Opened'
    <2>1. X!Opened'
      BY <1>1, <1>3 DEF X!Inv, X!Opened
    <2>. QED
      BY <1>1, <1>2, <2>1, OneX
  <1>6. ASSUME X!NoneKilled'
        PROVE  X!EmptyFifo' /\ X!OwnTerminal' /\ \A q \in Run : X!InStep(q)' /\ X!OwnFifo(q)'
    <2>1. X!NoneKilled
      BY <1>1, <1>2, <1>6, KilledX
    <2>2. X!EmptyFifo'
      BY <1>1, <1>3, <2>1 DEF X!Inv, X!EmptyFifo
    <2>3. X!OwnTerminal'
      BY <1>1, <1>2, <2>1 DEF X!Inv, X!OwnTerminal
    <2>4. ASSUME NEW q \in Run, q # r PROVE X!InStep(q)' /\ X!OwnFifo(q)'
      BY <1>1, <1>2, <2>1, <2>4, OverX
    <2>5. X!InStep(r)' /\ X!OwnFifo(r)'
      BY <1>1, <1>2, <2>1 DEF X!Inv, X!InStep, X!OwnFifo
    <2>. QED
      BY <2>2, <2>3, <2>4, <2>5
  <1>. QED
    BY <1>4, <1>5, <1>6 DEF X!Inv

\* What a step of a run's program or xterm has to keep, the runs that are over aside.
LEMMA KeptX ==
  ASSUME X!Inv, NEW r \in Run, pc[r] # "killed", X!TypeOK', X!Opened',
         pc[r] \notin X!Ended,
         \A q \in Run : q # r => pc'[q] = pc[q] /\ xterm'[q] = xterm[q],
         X!NoneKilled /\ X!NoneKilled' =>
           X!EmptyFifo' /\ X!OwnTerminal' /\ X!InStep(r)' /\ X!OwnFifo(r)'
  PROVE  X!Inv'
  <1>1. X!OneAtATime'
    BY OneX
  <1>2. ASSUME X!NoneKilled'
        PROVE  X!EmptyFifo' /\ X!OwnTerminal' /\ \A q \in Run : X!InStep(q)' /\ X!OwnFifo(q)'
    <2>1. X!NoneKilled
      BY <1>2, KilledX
    <2>. QED
      BY <1>2, <2>1, OthersX
  <1>. QED
    BY <1>1, <1>2 DEF X!Inv

\* The name stands for an empty FIFO after mknod, a new one or the one that was there.
LEMMA MknodX == ASSUME X!Inv, NEW r \in Run, X!Mknod(r) PROVE X!Inv'
  <1>1. /\ pc[r] = "mknod" /\ pc' = [pc EXCEPT ![r] = "fork"]
        /\ path = 0 => files' = Append(files, X!NewFile("fifo")) /\ path' = Len(files) + 1
        /\ path # 0 => UNCHANGED <<files, path>>
        /\ UNCHANGED <<fdfifo, buffer, stderr, xterm, target, seen>>
    BY DEF X!Mknod, X!Goto
  <1>2. /\ pc' \in [Run -> X!Labels] /\ pc'[r] = "fork"
        /\ \A q \in Run : q # r => pc'[q] = pc[q]
    BY <1>1, TypesX DEF X!Labels
  <1>3. \A q \in Run : pc'[q] \in {"read", "close"} <=> pc[q] \in {"read", "close"}
    BY <1>1, <1>2
  <1>4. X!TypeOK'
    <2>1. CASE path = 0
      <3>1. target' \in [Run -> 0..Len(files) + 1]
        BY <1>1, TypesX
      <3>. QED
        BY <1>1, <1>2, <1>3, <2>1, <3>1, TypesX, MadeX
    <2>2. CASE path # 0
      BY <1>1, <1>2, <1>3, <2>2, TypesX, FrameX
    <2>. QED
      BY <2>1, <2>2
  <1>5. X!Opened'
    BY <1>1, <1>3 DEF X!Inv, X!Opened
  <1>6. ASSUME X!NoneKilled
        PROVE  X!EmptyFifo' /\ X!OwnTerminal' /\ X!InStep(r)' /\ X!OwnFifo(r)'
    <2>1. path' # 0
      BY <1>1, TypesX
    <2>2. X!EmptyFifo'
      <3>1. CASE path = 0
        <4>1. files'[path'] = X!NewFile("fifo")
          BY <1>1, <3>1, AddedX
        <4>. QED
          BY <4>1, NewFileX DEF X!EmptyFifo
      <3>2. CASE path # 0
        BY <1>1, <1>2, <1>6, <3>2 DEF X!Inv, X!EmptyFifo
      <3>. QED
        BY <3>1, <3>2
    <2>3. X!OwnTerminal'
      BY <1>1, <1>2, <1>6 DEF X!Inv, X!OwnTerminal
    <2>4. X!InStep(r)' /\ X!OwnFifo(r)'
      BY <1>1, <1>2, <1>6, <2>1 DEF X!Inv, X!InStep, X!OwnFifo
    <2>. QED
      BY <2>2, <2>3, <2>4
  <1>. QED
    BY <1>1, <1>2, <1>4, <1>5, <1>6, KeptX DEF X!Ended

\* The fork, also when it fails and leaves the FIFO.
LEMMA ForkX == ASSUME X!Inv, NEW r \in Run, X!Fork(r) PROVE X!Inv'
  <1>1. /\ pc[r] = "fork"
        /\ UNCHANGED <<files, path, fdfifo, buffer, stderr, target, seen>>
    BY DEF X!Fork
  <1>2. PICK label \in {"open", "failed"} :
          /\ pc' = [pc EXCEPT ![r] = label]
          /\ label = "open" => xterm' = [xterm EXCEPT ![r] = "exec"]
          /\ label = "failed" => xterm' = xterm
    BY DEF X!Fork, X!Goto
  <1>3. /\ pc' \in [Run -> X!Labels] /\ pc'[r] = label
        /\ \A q \in Run : q # r => pc'[q] = pc[q]
    BY <1>2, TypesX DEF X!Labels, X!Ended
  <1>4. /\ xterm' \in [Run -> X!XTermLabels] /\ (label = "open" => xterm'[r] = "exec")
        /\ \A q \in Run : q # r => xterm'[q] = xterm[q]
    BY <1>2, TypesX DEF X!XTermLabels
  <1>5. \A q \in Run : pc'[q] \in {"read", "close"} <=> pc[q] \in {"read", "close"}
    BY <1>1, <1>3
  <1>6. X!TypeOK'
    BY <1>1, <1>3, <1>4, <1>5, TypesX, FrameX
  <1>7. X!Opened'
    BY <1>1, <1>2, <1>4, <1>5 DEF X!Inv, X!Opened
  <1>8. ASSUME X!NoneKilled
        PROVE  X!EmptyFifo' /\ X!OwnTerminal' /\ X!InStep(r)' /\ X!OwnFifo(r)'
    <2>1. X!EmptyFifo'
      BY <1>1, <1>3, <1>8 DEF X!Inv, X!EmptyFifo
    <2>2. X!OwnTerminal'
      BY <1>1, <1>3, <1>8 DEF X!Inv, X!OwnTerminal
    <2>3. xterm[r] = "unborn" /\ path # 0
      BY <1>1, <1>8 DEF X!Inv, X!InStep, X!OwnFifo
    <2>4. X!InStep(r)'
      BY <1>2, <1>3, <1>4, <2>3 DEF X!InStep
    <2>5. X!OwnFifo(r)'
      BY <1>1, <1>2, <1>3, <1>4, <2>3 DEF X!OwnFifo
    <2>. QED
      BY <2>1, <2>2, <2>4, <2>5
  <1>. QED
    BY <1>1, <1>3, <1>4, <1>6, <1>7, <1>8, KeptX DEF X!Ended

\* The program has the FIFO open before its shell can have written.
LEMMA OpenX == ASSUME X!Inv, NEW r \in Run, X!Open(r) PROVE X!Inv'
  <1>1. /\ pc[r] = "open" /\ UNCHANGED <<path, buffer, stderr, xterm, target, seen>>
    BY DEF X!Open
  <1>2. CASE path = 0
    <2>1. pc' = [pc EXCEPT ![r] = "failed"] /\ UNCHANGED <<files, fdfifo>>
      BY <1>2 DEF X!Open, X!Goto
    <2>2. /\ pc' \in [Run -> X!Labels] /\ pc'[r] = "failed"
          /\ \A q \in Run : q # r => pc'[q] = pc[q]
      BY <2>1, TypesX DEF X!Labels, X!Ended
    <2>3. \A q \in Run : pc'[q] \in {"read", "close"} <=> pc[q] \in {"read", "close"}
      BY <1>1, <2>2
    <2>4. X!TypeOK'
      BY <1>1, <2>1, <2>2, <2>3, TypesX, FrameX
    <2>5. X!Opened'
      BY <1>1, <2>1, <2>3 DEF X!Inv, X!Opened
    <2>6. ~X!NoneKilled
      BY <1>1, <1>2 DEF X!Inv, X!OwnFifo
    <2>. QED
      BY <1>1, <2>2, <2>4, <2>5, <2>6, KeptX DEF X!Ended
  <1>3. CASE path # 0
    <2>. DEFINE f == [files[path] EXCEPT !.readers = @ \cup {r}]
    <2>1. /\ files' = [files EXCEPT ![path] = f]
          /\ fdfifo' = [fdfifo EXCEPT ![r] = path] /\ pc' = [pc EXCEPT ![r] = "read"]
      BY <1>3 DEF X!Open, X!Goto
    <2>2. /\ pc' \in [Run -> X!Labels] /\ pc'[r] = "read"
          /\ \A q \in Run : q # r => pc'[q] = pc[q]
      BY <2>1, TypesX DEF X!Labels
    <2>3. path \in 1..Len(files) /\ files[path] \in X!File
      BY <1>3, TypesX
    <2>4. /\ fdfifo' \in [Run -> 0..Len(files)] /\ fdfifo'[r] = path
          /\ \A q \in Run : q # r => fdfifo'[q] = fdfifo[q]
      BY <2>1, <2>3, TypesX
    <2>5. /\ f \in X!File /\ f.readers = files[path].readers \cup {r}
          /\ f.kind = files[path].kind /\ f.content = files[path].content
      BY <2>3 DEF X!File
    <2>6. files[path].readers = {q \in Run : fdfifo[q] = path /\ pc[q] \in {"read", "close"}}
      BY <2>3, TypesX
    <2>. HIDE DEF f
    <2>7. X!TypeOK'
      <3>1. f.readers = {q \in Run : fdfifo'[q] = path /\ pc'[q] \in {"read", "close"}}
        BY <1>1, <2>2, <2>4, <2>5, <2>6
      <3>2. \A q \in Run, j \in 1..Len(files) : j # path =>
              (fdfifo'[q] = j /\ pc'[q] \in {"read", "close"} <=>
                 fdfifo[q] = j /\ pc[q] \in {"read", "close"})
        BY <1>1, <2>2, <2>4
      <3>3. /\ buffer' \in [Run -> Seq(Run)] /\ xterm' \in [Run -> X!XTermLabels]
            /\ fdfifo' \in [Run -> 0..Len(files)] /\ target' \in [Run -> 0..Len(files)]
            /\ UNCHANGED <<path, seen, stderr>>
        BY <1>1, <2>4, TypesX
      <3>. QED
        BY <2>1, <2>2, <2>3, <2>5, <3>1, <3>2, <3>3, UsedX, ZenonT(40)
    <2>8. X!Opened'
      BY <1>1, <1>3, <2>2, <2>4 DEF X!Inv, X!Opened
    <2>9. ASSUME X!NoneKilled
          PROVE  X!EmptyFifo' /\ X!OwnTerminal' /\ X!InStep(r)' /\ X!OwnFifo(r)'
      <3>1. files'[path] = f
        BY <2>1, <2>3, <2>5, ChangedX
      <3>2. \A q \in Run : pc[q] # "read"
        BY <1>1, AloneX DEF X!Ended
      <3>3. files[path].kind = "fifo" /\ files[path].content = <<>>
        BY <1>3, <2>9, <3>2 DEF X!Inv, X!EmptyFifo
      <3>4. X!EmptyFifo'
        BY <1>1, <2>2, <2>5, <3>1, <3>3 DEF X!EmptyFifo
      <3>5. X!OwnTerminal'
        BY <1>1, <2>2, <2>9 DEF X!Inv, X!OwnTerminal
      <3>6. X!InStep(r) /\ X!OwnFifo(r)
        BY <2>9 DEF X!Inv
      <3>7. X!InStep(r)'
        BY <1>1, <2>2, <3>6 DEF X!InStep
      <3>8. X!OwnFifo(r)'
        BY <1>1, <1>3, <2>2, <2>4, <2>5, <3>1, <3>3, <3>6 DEF X!InStep, X!OwnFifo
      <3>. QED
        BY <3>4, <3>5, <3>7, <3>8
    <2>. QED
      BY <1>1, <2>2, <2>7, <2>8, <2>9, KeptX DEF X!Ended
  <1>. QED
    BY <1>2, <1>3

\* The name is deleted.
LEMMA UnlinkX == ASSUME X!Inv, NEW r \in Run, X!Unlink(r) PROVE X!Inv'
  <1>1. /\ pc[r] = "unlink" /\ pc' = [pc EXCEPT ![r] = "open_term"] /\ path' = 0
        /\ UNCHANGED <<files, fdfifo, buffer, stderr, xterm, target, seen>>
    BY DEF X!Unlink, X!Goto
  <1>2. /\ pc' \in [Run -> X!Labels] /\ pc'[r] = "open_term"
        /\ \A q \in Run : q # r => pc'[q] = pc[q]
    BY <1>1, TypesX DEF X!Labels
  <1>3. \A q \in Run : pc'[q] \in {"read", "close"} <=> pc[q] \in {"read", "close"}
    BY <1>1, <1>2
  <1>4. X!TypeOK'
    BY <1>1, <1>2, <1>3, TypesX, FrameX
  <1>5. X!Opened'
    BY <1>1, <1>3 DEF X!Inv, X!Opened
  <1>6. ASSUME X!NoneKilled
        PROVE  X!EmptyFifo' /\ X!OwnTerminal' /\ X!InStep(r)' /\ X!OwnFifo(r)'
    <2>1. X!EmptyFifo'
      BY <1>1 DEF X!EmptyFifo
    <2>2. X!OwnTerminal'
      BY <1>1, <1>2, <1>6 DEF X!Inv, X!OwnTerminal
    <2>3. X!InStep(r) /\ X!OwnFifo(r)
      BY <1>6 DEF X!Inv
    <2>4. X!InStep(r)'
      BY <1>1, <1>2, <2>3 DEF X!InStep
    <2>5. X!OwnFifo(r)'
      BY <1>1, <1>2, <2>3 DEF X!InStep, X!OwnFifo
    <2>. QED
      BY <2>1, <2>2, <2>4, <2>5
  <1>. QED
    BY <1>1, <1>2, <1>4, <1>5, <1>6, KeptX DEF X!Ended

\* The terminal that is opened is the own one.
LEMMA OpenTerminalX == ASSUME X!Inv, NEW r \in Run, X!OpenTerminal(r) PROVE X!Inv'
  <1>1. /\ pc[r] = "open_term" /\ pc' = [pc EXCEPT ![r] = "write"]
        /\ stderr' = [stderr EXCEPT ![r] =
                        IF X!Opens(buffer[r]) THEN buffer[r][1] ELSE "closed"]
        /\ UNCHANGED <<files, path, fdfifo, buffer, xterm, target, seen>>
    BY DEF X!OpenTerminal, X!Goto
  <1>2. /\ pc' \in [Run -> X!Labels] /\ pc'[r] = "write"
        /\ \A q \in Run : q # r => pc'[q] = pc[q]
    BY <1>1, TypesX DEF X!Labels
  <1>3. \A q \in Run : pc'[q] \in {"read", "close"} <=> pc[q] \in {"read", "close"}
    BY <1>1, <1>2
  <1>4. stderr' \in [Run -> Run \cup {"terminal", "closed"}]
    <2>1. X!Opens(buffer[r]) => buffer[r][1] \in Run
      <3>1. buffer[r] \in Seq(Run)
        BY TypesX
      <3>. QED
        BY <3>1 DEF X!Opens
    <2>. QED
      BY <1>1, <2>1, TypesX
  <1>5. X!TypeOK'
    BY <1>1, <1>2, <1>3, <1>4, TypesX, FrameX
  <1>6. X!Opened'
    BY <1>1, <1>3 DEF X!Inv, X!Opened
  <1>7. ASSUME X!NoneKilled
        PROVE  X!EmptyFifo' /\ X!OwnTerminal' /\ X!InStep(r)' /\ X!OwnFifo(r)'
    <2>1. X!InStep(r) /\ X!OwnFifo(r)
      BY <1>7 DEF X!Inv
    <2>2. path = 0 /\ buffer[r] = <<r>> /\ xterm[r] = "sleep"
      BY <1>1, <2>1 DEF X!InStep, X!OwnFifo
    <2>3. X!Opens(buffer[r])
      <3>1. Len(<<r>>) = 1 /\ <<r>>[1] = r
        OBVIOUS
      <3>. QED
        BY <2>2, <3>1 DEF X!Opens
    <2>4. stderr'[r] = r
      <3>1. buffer[r][1] = r
        BY <2>2
      <3>. QED
        BY <1>1, <2>3, <3>1, TypesX
    <2>5. X!EmptyFifo'
      BY <1>1, <2>2 DEF X!EmptyFifo
    <2>6. X!OwnTerminal'
      BY <1>1, <1>2, <1>7 DEF X!Inv, X!OwnTerminal
    <2>7. X!InStep(r)'
      BY <1>1, <1>2, <2>2 DEF X!InStep
    <2>8. X!OwnFifo(r)'
      BY <1>1, <1>2, <2>2, <2>4 DEF X!OwnFifo
    <2>. QED
      BY <2>5, <2>6, <2>7, <2>8
  <1>. QED
    BY <1>1, <1>2, <1>5, <1>6, <1>7, KeptX DEF X!Ended

\* The message appears there.
LEMMA WriteX == ASSUME X!Inv, NEW r \in Run, X!Write(r) PROVE X!Inv'
  <1>1. /\ pc[r] = "write" /\ pc' = [pc EXCEPT ![r] = "wait"]
        /\ seen' = IF stderr[r] \in Run THEN [seen EXCEPT ![stderr[r]] = @ \cup {r}] ELSE seen
        /\ UNCHANGED <<files, path, fdfifo, buffer, stderr, xterm, target>>
    BY DEF X!Write, X!Goto
  <1>2. /\ pc' \in [Run -> X!Labels] /\ pc'[r] = "wait"
        /\ \A q \in Run : q # r => pc'[q] = pc[q]
    BY <1>1, TypesX DEF X!Labels
  <1>3. \A q \in Run : pc'[q] \in {"read", "close"} <=> pc[q] \in {"read", "close"}
    BY <1>1, <1>2
  <1>4. seen' \in [Run -> SUBSET Run]
    BY <1>1, TypesX
  <1>5. X!TypeOK'
    BY <1>1, <1>2, <1>3, <1>4, TypesX, FrameX
  <1>6. X!Opened'
    BY <1>1, <1>3 DEF X!Inv, X!Opened
  <1>7. ASSUME X!NoneKilled
        PROVE  X!EmptyFifo' /\ X!OwnTerminal' /\ X!InStep(r)' /\ X!OwnFifo(r)'
    <2>1. X!InStep(r) /\ X!OwnFifo(r)
      BY <1>7 DEF X!Inv
    <2>2. path = 0 /\ stderr[r] = r /\ xterm[r] = "sleep"
      BY <1>1, <2>1 DEF X!InStep, X!OwnFifo
    <2>3. seen'[r] = seen[r] \cup {r} /\ \A q \in Run : q # r => seen'[q] = seen[q]
      BY <1>1, <2>2, TypesX
    <2>4. X!EmptyFifo'
      BY <1>1, <2>2 DEF X!EmptyFifo
    <2>5. X!OwnTerminal'
      BY <1>2, <1>7, <2>3 DEF X!Inv, X!OwnTerminal
    <2>6. X!InStep(r)'
      BY <1>1, <1>2, <2>2 DEF X!InStep
    <2>7. X!OwnFifo(r)'
      BY <1>1, <1>2, <2>2 DEF X!OwnFifo
    <2>. QED
      BY <2>4, <2>5, <2>6, <2>7
  <1>. QED
    BY <1>1, <1>2, <1>5, <1>6, <1>7, KeptX DEF X!Ended

\* The run ends after its window.
LEMMA WaitX == ASSUME X!Inv, NEW r \in Run, X!Wait(r) PROVE X!Inv'
  <1>1. /\ pc[r] = "wait" /\ xterm[r] = "closed" /\ pc' = [pc EXCEPT ![r] = "ended"]
        /\ UNCHANGED <<files, path, fdfifo, buffer, stderr, xterm, target, seen>>
    BY DEF X!Wait, X!Goto
  <1>2. /\ pc' \in [Run -> X!Labels] /\ pc'[r] = "ended"
        /\ \A q \in Run : q # r => pc'[q] = pc[q]
    BY <1>1, TypesX DEF X!Labels, X!Ended
  <1>3. \A q \in Run : pc'[q] \in {"read", "close"} <=> pc[q] \in {"read", "close"}
    BY <1>1, <1>2
  <1>4. X!TypeOK'
    BY <1>1, <1>2, <1>3, TypesX, FrameX
  <1>5. X!Opened'
    BY <1>1, <1>3 DEF X!Inv, X!Opened
  <1>6. ASSUME X!NoneKilled
        PROVE  X!EmptyFifo' /\ X!OwnTerminal' /\ X!InStep(r)' /\ X!OwnFifo(r)'
    <2>1. X!EmptyFifo'
      BY <1>1, <1>2, <1>6 DEF X!Inv, X!EmptyFifo
    <2>2. X!OwnTerminal'
      BY <1>1, <1>2, <1>6 DEF X!Inv, X!OwnTerminal
    <2>3. X!InStep(r)' /\ X!OwnFifo(r)'
      BY <1>1, <1>2 DEF X!InStep, X!OwnFifo
    <2>. QED
      BY <2>1, <2>2, <2>3
  <1>. QED
    BY <1>1, <1>2, <1>4, <1>5, <1>6, KeptX DEF X!Ended

\* What is read is the name of the own terminal; nothing is left in the FIFO.
LEMMA ReadX == ASSUME X!Inv, NEW r \in Run, X!Read(r) PROVE X!Inv'
  <1>. DEFINE i == fdfifo[r]
              f == files[i]
  <1>1. /\ pc[r] = "read" /\ (f.kind = "fifo" => f.content # <<>>)
        /\ buffer' = [buffer EXCEPT ![r] = f.content]
        /\ \/ /\ f.content # <<>> /\ pc' = [pc EXCEPT ![r] = "close"]
              /\ files' = IF f.kind = "fifo" THEN [files EXCEPT ![i].content = <<>>] ELSE files
           \/ /\ f.content = <<>> /\ pc' = [pc EXCEPT ![r] = "failed"]
              /\ files' = [files EXCEPT ![i] = X!Closed(f, r)]
        /\ UNCHANGED <<path, fdfifo, stderr, xterm, target, seen>>
    BY DEF X!Read, X!Goto
  <1>2. i \in 1..Len(files) /\ f \in X!File /\ f.content \in Seq(Run)
    <2>1. i # 0
      BY <1>1 DEF X!Inv, X!Opened
    <2>2. i \in 1..Len(files)
      BY <2>1, TypesX
    <2>. QED
      BY <2>2, TypesX DEF X!File
  <1>3. f.readers = {q \in Run : fdfifo[q] = i /\ pc[q] \in {"read", "close"}}
    BY <1>2, TypesX
  <1>4. buffer' \in [Run -> Seq(Run)] /\ buffer'[r] = f.content
    BY <1>1, <1>2, TypesX
  <1>. HIDE DEF i, f
  <1>5. CASE f.content # <<>>
    <2>. DEFINE g == IF f.kind = "fifo" THEN [f EXCEPT !.content = <<>>] ELSE f
    <2>1. pc' = [pc EXCEPT ![r] = "close"] /\ files' = [files EXCEPT ![i] = g]
      <3>1. files = [files EXCEPT ![i] = f]
        BY <1>2, TypesX DEF f
      <3>. QED
        BY <1>1, <1>5, <3>1 DEF f
    <2>2. /\ pc' \in [Run -> X!Labels] /\ pc'[r] = "close"
          /\ \A q \in Run : q # r => pc'[q] = pc[q]
      BY <2>1, TypesX DEF X!Labels
    <2>3. \A q \in Run : pc'[q] \in {"read", "close"} <=> pc[q] \in {"read", "close"}
      BY <1>1, <2>2
    <2>4. /\ g \in X!File /\ g.readers = f.readers /\ g.kind = f.kind
          /\ f.kind = "fifo" => g.content = <<>>
      <3>1. <<>> \in Seq(Run)
        OBVIOUS
      <3>. QED
        BY <1>2, <3>1 DEF X!File
    <2>. HIDE DEF g
    <2>5. X!TypeOK'
      <3>1. g.readers = {q \in Run : fdfifo'[q] = i /\ pc'[q] \in {"read", "close"}}
        BY <1>1, <1>3, <2>3, <2>4
      <3>2. \A q \in Run, j \in 1..Len(files) : j # i =>
              (fdfifo'[q] = j /\ pc'[q] \in {"read", "close"} <=>
                 fdfifo[q] = j /\ pc[q] \in {"read", "close"})
        BY <1>1, <2>3
      <3>. QED
        BY <1>1, <1>2, <1>4, <2>1, <2>2, <2>4, <3>1, <3>2, TypesX, UsedX
    <2>6. X!Opened'
      BY <1>1, <2>3 DEF X!Inv, X!Opened
    <2>7. ASSUME X!NoneKilled
          PROVE  X!EmptyFifo' /\ X!OwnTerminal' /\ X!InStep(r)' /\ X!OwnFifo(r)'
      <3>1. X!InStep(r) /\ X!OwnFifo(r) /\ X!EmptyFifo
        BY <2>7 DEF X!Inv
      <3>2. i = path /\ path # 0 /\ f.kind = "fifo"
        BY <1>1, <3>1 DEF X!OwnFifo, X!EmptyFifo, i, f
      <3>3. xterm[r] = "sleep" /\ f.content = <<r>>
        BY <1>1, <1>5, <3>1, <3>2 DEF X!OwnFifo, f
      <3>4. files'[path] = g
        BY <1>2, <2>1, <2>4, <3>2, ChangedX
      <3>5. X!EmptyFifo'
        BY <1>1, <2>4, <3>2, <3>4 DEF X!EmptyFifo
      <3>6. X!OwnTerminal'
        BY <1>1, <2>2, <2>7 DEF X!Inv, X!OwnTerminal
      <3>7. X!InStep(r)' /\ X!OwnFifo(r)'
        BY <1>1, <1>4, <2>2, <3>3 DEF X!InStep, X!OwnFifo
      <3>. QED
        BY <3>5, <3>6, <3>7
    <2>. QED
      BY <1>1, <2>2, <2>5, <2>6, <2>7, KeptX DEF X!Ended
  <1>6. CASE f.content = <<>>
    <2>1. pc' = [pc EXCEPT ![r] = "failed"] /\ files' = [files EXCEPT ![i] = X!Closed(f, r)]
      BY <1>1, <1>6
    <2>2. /\ pc' \in [Run -> X!Labels] /\ pc'[r] = "failed"
          /\ \A q \in Run : q # r => pc'[q] = pc[q]
      BY <2>1, TypesX DEF X!Labels, X!Ended
    <2>3. X!TypeOK'
      <3>1. X!Closed(f, r) \in X!File /\ X!Closed(f, r).readers = f.readers \ {r}
        BY <1>2, ClosedX
      <3>2. X!Closed(f, r).readers =
              {q \in Run : fdfifo'[q] = i /\ pc'[q] \in {"read", "close"}}
        BY <1>1, <1>3, <2>2, <3>1
      <3>3. \A q \in Run, j \in 1..Len(files) : j # i =>
              (fdfifo'[q] = j /\ pc'[q] \in {"read", "close"} <=>
                 fdfifo[q] = j /\ pc[q] \in {"read", "close"})
        BY <1>1, <2>2 DEF i
      <3>4. /\ buffer' \in [Run -> Seq(Run)] /\ xterm' \in [Run -> X!XTermLabels]
            /\ fdfifo' \in [Run -> 0..Len(files)] /\ target' \in [Run -> 0..Len(files)]
            /\ UNCHANGED <<path, seen, stderr>>
        BY <1>1, <1>4, TypesX
      <3>. QED
        BY <1>2, <2>1, <2>2, <3>1, <3>2, <3>3, <3>4, UsedX
    <2>4. X!Opened'
      BY <1>1, <2>2 DEF X!Inv, X!Opened
    <2>5. ~X!NoneKilled
      <3>1. f.kind # "fifo"
        BY <1>1, <1>6
      <3>. QED
        BY <1>1, <3>1 DEF X!Inv, X!OwnFifo, X!EmptyFifo, i, f
    <2>. QED
      BY <1>1, <2>2, <2>3, <2>4, <2>5, KeptX DEF X!Ended
  <1>. QED
    BY <1>5, <1>6

\* The FIFO is closed, empty.
LEMMA CloseX == ASSUME X!Inv, NEW r \in Run, X!Close(r) PROVE X!Inv'
  <1>. DEFINE i == fdfifo[r]
              f == files[i]
  <1>1. /\ pc[r] = "close" /\ pc' = [pc EXCEPT ![r] = "unlink"]
        /\ files' = [files EXCEPT ![i] = X!Closed(f, r)]
        /\ UNCHANGED <<path, fdfifo, buffer, stderr, xterm, target, seen>>
    BY DEF X!Close, X!Goto
  <1>2. i \in 1..Len(files) /\ f \in X!File
    <2>1. i # 0
      BY <1>1 DEF X!Inv, X!Opened
    <2>2. i \in 1..Len(files)
      BY <2>1, TypesX
    <2>. QED
      BY <2>2, TypesX
  <1>3. f.readers = {q \in Run : fdfifo[q] = i /\ pc[q] \in {"read", "close"}}
    BY <1>2, TypesX
  <1>4. /\ pc' \in [Run -> X!Labels] /\ pc'[r] = "unlink"
        /\ \A q \in Run : q # r => pc'[q] = pc[q]
    BY <1>1, TypesX DEF X!Labels
  <1>5. /\ X!Closed(f, r) \in X!File /\ X!Closed(f, r).kind = f.kind
        /\ X!Closed(f, r).readers = f.readers \ {r}
        /\ X!Closed(f, r).content \in {<<>>, f.content}
    BY <1>2, ClosedX
  <1>. HIDE DEF i, f
  <1>6. X!TypeOK'
    <2>1. X!Closed(f, r).readers =
            {q \in Run : fdfifo'[q] = i /\ pc'[q] \in {"read", "close"}}
      BY <1>1, <1>3, <1>4, <1>5
    <2>2. \A q \in Run, j \in 1..Len(files) : j # i =>
            (fdfifo'[q] = j /\ pc'[q] \in {"read", "close"} <=>
               fdfifo[q] = j /\ pc[q] \in {"read", "close"})
      BY <1>1, <1>4 DEF i
    <2>. QED
      BY <1>1, <1>2, <1>4, <1>5, <2>1, <2>2, TypesX, UsedX
  <1>7. X!Opened'
    BY <1>1, <1>4 DEF X!Inv, X!Opened
  <1>8. ASSUME X!NoneKilled
        PROVE  X!EmptyFifo' /\ X!OwnTerminal' /\ X!InStep(r)' /\ X!OwnFifo(r)'
    <2>1. X!InStep(r) /\ X!OwnFifo(r) /\ X!EmptyFifo
      BY <1>8 DEF X!Inv
    <2>2. \A q \in Run : pc[q] # "read"
      BY <1>1, AloneX DEF X!Ended
    <2>3. X!EmptyFifo'
      <3>1. CASE path = i
        <4>1. files'[path] = X!Closed(f, r)
          BY <1>1, <1>2, <1>5, <3>1, ChangedX
        <4>2. path # 0 => f.kind = "fifo" /\ f.content = <<>>
          BY <2>1, <2>2, <3>1 DEF X!EmptyFifo, f
        <4>. QED
          BY <1>1, <1>5, <4>1, <4>2 DEF X!EmptyFifo
      <3>2. CASE path # i /\ path # 0
        <4>1. path \in 1..Len(files)
          BY <3>2, TypesX
        <4>2. files'[path] = files[path]
          BY <1>1, <1>2, <1>5, <3>2, <4>1, ChangedX
        <4>. QED
          BY <1>1, <2>1, <2>2, <4>2 DEF X!EmptyFifo
      <3>3. CASE path = 0
        BY <1>1, <3>3 DEF X!EmptyFifo
      <3>. QED
        BY <3>1, <3>2, <3>3
    <2>4. X!OwnTerminal'
      BY <1>1, <1>4, <1>8 DEF X!Inv, X!OwnTerminal
    <2>5. X!InStep(r)' /\ X!OwnFifo(r)'
      BY <1>1, <1>4, <2>1 DEF X!InStep, X!OwnFifo
    <2>. QED
      BY <2>3, <2>4, <2>5
  <1>. QED
    BY <1>1, <1>4, <1>6, <1>7, <1>8, KeptX DEF X!Ended

\* After a kill only the typing is promised.
LEMMA KillX == ASSUME X!Inv, NEW r \in Run, X!Kill(r) PROVE X!Inv'
  <1>. DEFINE i == fdfifo[r]
              f == files[i]
  <1>1. /\ pc[r] \notin X!Ended /\ pc' = [pc EXCEPT ![r] = "killed"]
        /\ files' = IF i = 0 THEN files ELSE [files EXCEPT ![i] = X!Closed(f, r)]
        /\ UNCHANGED <<path, fdfifo, buffer, stderr, xterm, target, seen>>
    BY DEF X!Kill, X!Goto
  <1>2. /\ pc' \in [Run -> X!Labels] /\ pc'[r] = "killed"
        /\ \A q \in Run : q # r => pc'[q] = pc[q]
    BY <1>1, TypesX DEF X!Labels, X!Ended
  <1>3. X!TypeOK'
    <2>1. CASE i = 0
      <3>1. pc[r] \notin {"read", "close"}
        BY <2>1 DEF X!Inv, X!Opened
      <3>2. \A q \in Run : pc'[q] \in {"read", "close"} <=> pc[q] \in {"read", "close"}
        BY <1>2, <3>1
      <3>. QED
        <4>1. files' = files
          BY <1>1, <2>1
        <4>. QED
          BY <1>1, <1>2, <3>2, <4>1, TypesX, FrameX
    <2>2. CASE i # 0
      <3>1. i \in 1..Len(files)
        BY <2>2, TypesX
      <3>2. f \in X!File /\ f.readers = {q \in Run : fdfifo[q] = i /\ pc[q] \in {"read", "close"}}
        BY <3>1, TypesX
      <3>3. X!Closed(f, r) \in X!File /\ X!Closed(f, r).readers = f.readers \ {r}
        BY <3>2, ClosedX
      <3>4. files' = [files EXCEPT ![i] = X!Closed(f, r)]
        BY <1>1, <2>2
      <3>. HIDE DEF i, f
      <3>5. X!Closed(f, r).readers =
              {q \in Run : fdfifo'[q] = i /\ pc'[q] \in {"read", "close"}}
        BY <1>1, <1>2, <3>2, <3>3
      <3>6. \A q \in Run, j \in 1..Len(files) : j # i =>
              (fdfifo'[q] = j /\ pc'[q] \in {"read", "close"} <=>
                 fdfifo[q] = j /\ pc[q] \in {"read", "close"})
        BY <1>1, <1>2 DEF i
      <3>7. UNCHANGED <<path, fdfifo, buffer, stderr, xterm, target, seen>>
        BY <1>1
      <3>. QED
        BY <1>2, <3>1, <3>3, <3>4, <3>5, <3>6, <3>7, TypesX, UsedX
    <2>. QED
      BY <2>1, <2>2
  <1>4. X!Opened'
    BY <1>1, <1>2 DEF X!Inv, X!Opened
  <1>5. X!OneAtATime' /\ ~X!NoneKilled'
    <2>1. X!OneAtATime'
      BY <1>1, <1>2, OneX
    <2>. QED
      BY <1>2, <2>1 DEF X!NoneKilled
  <1>. QED
    BY <1>3, <1>4, <1>5 DEF X!Inv

\* What a step of an xterm has to keep.
LEMMA WindowX ==
  ASSUME X!Inv, NEW r \in Run, X!TypeOK', X!Opened', pc' = pc,
         \A q \in Run : q # r => xterm'[q] = xterm[q],
         X!NoneKilled =>
           /\ pc[r] \notin X!Ended
           /\ X!EmptyFifo' /\ X!OwnTerminal' /\ X!InStep(r)' /\ X!OwnFifo(r)'
  PROVE  X!Inv'
  <1>1. X!OneAtATime'
    BY DEF X!Inv, X!OneAtATime
  <1>2. ASSUME X!NoneKilled'
        PROVE  X!EmptyFifo' /\ X!OwnTerminal' /\ \A q \in Run : X!InStep(q)' /\ X!OwnFifo(q)'
    <2>1. X!NoneKilled
      BY <1>2 DEF X!NoneKilled
    <2>. QED
      BY <2>1, OthersX
  <1>. QED
    BY <1>1, <1>2 DEF X!Inv

\* Where the program is when the xterm starts, or its shell redirects or writes.
LEMMA ShellX ==
  ASSUME X!Inv, X!NoneKilled, NEW r \in Run, xterm[r] \in {"exec", "redirect", "tty"}
  PROVE  pc[r] \in {"open", "read"} /\ pc[r] \notin X!Ended
  BY TypesX DEF X!Inv, X!InStep, X!NoneKilled, X!Labels, X!Ended

\* The xterm starts, or cannot.
LEMMA ExecX == ASSUME X!Inv, NEW r \in Run, X!Exec(r) PROVE X!Inv'
  <1>1. /\ xterm[r] = "exec"
        /\ UNCHANGED <<files, path, pc, fdfifo, buffer, stderr, target, seen>>
    BY DEF X!Exec, X!program
  <1>2. PICK label \in {"redirect", "closed"} : xterm' = [xterm EXCEPT ![r] = label]
    BY DEF X!Exec
  <1>3. /\ xterm' \in [Run -> X!XTermLabels] /\ xterm'[r] = label
        /\ \A q \in Run : q # r => xterm'[q] = xterm[q]
    BY <1>2, TypesX DEF X!XTermLabels
  <1>4. X!TypeOK'
    BY <1>1, <1>3, TypesX, FrameX
  <1>5. X!Opened'
    BY <1>1, <1>3 DEF X!Inv, X!Opened
  <1>6. ASSUME X!NoneKilled
        PROVE  /\ pc[r] \notin X!Ended
               /\ X!EmptyFifo' /\ X!OwnTerminal' /\ X!InStep(r)' /\ X!OwnFifo(r)'
    <2>1. pc[r] \in {"open", "read"} /\ pc[r] \notin X!Ended
      BY <1>1, <1>6, ShellX
    <2>2. X!InStep(r) /\ X!OwnFifo(r) /\ X!EmptyFifo /\ X!OwnTerminal
      BY <1>6 DEF X!Inv
    <2>3. X!EmptyFifo' /\ X!OwnTerminal'
      BY <1>1, <2>2 DEF X!EmptyFifo, X!OwnTerminal
    <2>4. X!InStep(r)'
      BY <1>1, <1>2, <1>3, <2>1 DEF X!InStep
    <2>5. X!OwnFifo(r)'
      BY <1>1, <1>2, <1>3, <2>1, <2>2 DEF X!OwnFifo
    <2>. QED
      BY <2>1, <2>3, <2>4, <2>5
  <1>. QED
    BY <1>1, <1>3, <1>4, <1>5, <1>6, WindowX

\* The shell opens the FIFO of its own run,
LEMMA RedirectX == ASSUME X!Inv, NEW r \in Run, X!Redirect(r) PROVE X!Inv'
  <1>1. /\ xterm[r] = "redirect" /\ xterm' = [xterm EXCEPT ![r] = "tty"]
        /\ target' = [target EXCEPT ![r] = path']
        /\ UNCHANGED <<pc, fdfifo, buffer, stderr, seen>>
    BY DEF X!Redirect, X!program
  <1>2. /\ xterm' \in [Run -> X!XTermLabels] /\ xterm'[r] = "tty"
        /\ \A q \in Run : q # r => xterm'[q] = xterm[q]
    BY <1>1, TypesX DEF X!XTermLabels
  <1>3. CASE path = 0
    <2>1. files' = Append(files, X!NewFile("regular")) /\ path' = Len(files) + 1
      BY <1>3 DEF X!Redirect
    <2>2. target' \in [Run -> 0..Len(files) + 1] /\ target'[r] # 0
      BY <1>1, <2>1, TypesX
    <2>3. X!TypeOK'
      BY <1>1, <1>2, <2>1, <2>2, TypesX, MadeX
    <2>4. X!Opened'
      BY <1>1, <1>2, <2>2, TypesX DEF X!Inv, X!Opened
    <2>5. ~X!NoneKilled
      <3>1. SUFFICES ASSUME X!NoneKilled PROVE FALSE
        OBVIOUS
      <3>2. pc[r] \in {"open", "read"}
        BY <1>1, <3>1, ShellX
      <3>. QED
        BY <1>3, <3>1, <3>2 DEF X!Inv, X!OwnFifo
    <2>. QED
      BY <1>1, <1>2, <2>3, <2>4, <2>5, WindowX
  <1>4. CASE path # 0
    <2>. DEFINE f == [files[path] EXCEPT !.content = IF files[path].kind = "fifo" THEN @ ELSE <<>>]
    <2>1. files' = [files EXCEPT ![path] = f] /\ path' = path
      BY <1>4 DEF X!Redirect
    <2>2. path \in 1..Len(files) /\ files[path] \in X!File
      BY <1>4, TypesX
    <2>3. /\ f \in X!File /\ f.readers = files[path].readers /\ f.kind = files[path].kind
          /\ f.kind = "fifo" => f.content = files[path].content
      <3>1. <<>> \in Seq(Run)
        OBVIOUS
      <3>. QED
        BY <2>2, <3>1 DEF X!File
    <2>. HIDE DEF f
    <2>4. target' \in [Run -> 0..Len(files)] /\ target'[r] = path
      BY <1>1, <2>1, <2>2, TypesX
    <2>5. X!TypeOK'
      <3>1. f.readers = {q \in Run : fdfifo'[q] = path /\ pc'[q] \in {"read", "close"}}
        BY <1>1, <2>2, <2>3, TypesX
      <3>. QED
        BY <1>1, <1>2, <2>1, <2>2, <2>3, <2>4, <3>1, TypesX, UsedX
    <2>6. X!Opened'
      BY <1>1, <1>2, <1>4, <2>4, TypesX DEF X!Inv, X!Opened
    <2>7. ASSUME X!NoneKilled
          PROVE  /\ pc[r] \notin X!Ended
                 /\ X!EmptyFifo' /\ X!OwnTerminal' /\ X!InStep(r)' /\ X!OwnFifo(r)'
      <3>1. pc[r] \in {"open", "read"} /\ pc[r] \notin X!Ended
        BY <1>1, <2>7, ShellX
      <3>2. X!InStep(r) /\ X!OwnFifo(r) /\ X!EmptyFifo /\ X!OwnTerminal
        BY <2>7 DEF X!Inv
      <3>3. files'[path] = f
        BY <2>1, <2>2, <2>3, ChangedX
      <3>4. f.kind = "fifo" /\ f.content = files[path].content
        BY <1>4, <2>3, <3>2 DEF X!EmptyFifo
      <3>5. X!EmptyFifo'
        BY <1>1, <2>1, <3>2, <3>3, <3>4 DEF X!EmptyFifo
      <3>6. X!OwnTerminal'
        BY <1>1, <3>2 DEF X!OwnTerminal
      <3>7. X!InStep(r)'
        BY <1>1, <1>2, <3>1 DEF X!InStep
      <3>8. X!OwnFifo(r)'
        BY <1>1, <1>2, <1>4, <2>1, <2>4, <3>1, <3>2, <3>3, <3>4 DEF X!OwnFifo
      <3>. QED
        BY <3>1, <3>5, <3>6, <3>7, <3>8
    <2>. QED
      BY <1>1, <1>2, <2>5, <2>6, <2>7, WindowX
  <1>. QED
    BY <1>3, <1>4

\* and writes to it when the program of its run has it open.
LEMMA TtyX == ASSUME X!Inv, NEW r \in Run, X!Tty(r) PROVE X!Inv'
  <1>. DEFINE i == target[r]
              f == [files[i] EXCEPT !.content = Append(@, r)]
  <1>1. /\ xterm[r] = "tty" /\ xterm' = [xterm EXCEPT ![r] = "sleep"]
        /\ files[i].kind = "fifo" => files[i].readers # {}
        /\ files' = [files EXCEPT ![i] = f]
        /\ UNCHANGED <<path, pc, fdfifo, buffer, stderr, target, seen>>
    BY DEF X!Tty, X!program
  <1>2. /\ xterm' \in [Run -> X!XTermLabels] /\ xterm'[r] = "sleep"
        /\ \A q \in Run : q # r => xterm'[q] = xterm[q]
    BY <1>1, TypesX DEF X!XTermLabels
  <1>3. i \in 1..Len(files) /\ files[i] \in X!File
    <2>1. i # 0
      BY <1>1 DEF X!Inv, X!Opened
    <2>2. i \in 1..Len(files)
      BY <2>1, TypesX
    <2>. QED
      BY <2>2, TypesX
  <1>4. /\ f \in X!File /\ f.readers = files[i].readers /\ f.kind = files[i].kind
        /\ f.content = Append(files[i].content, r)
    <2>1. Append(files[i].content, r) \in Seq(Run)
      BY <1>3 DEF X!File
    <2>. QED
      BY <1>3, <2>1 DEF X!File
  <1>. HIDE DEF f
  <1>5. X!TypeOK'
    <2>1. f.readers = {q \in Run : fdfifo'[q] = i /\ pc'[q] \in {"read", "close"}}
      BY <1>1, <1>3, <1>4, TypesX
    <2>. QED
      BY <1>1, <1>2, <1>3, <1>4, <2>1, TypesX, UsedX
  <1>6. X!Opened'
    BY <1>1, <1>2 DEF X!Inv, X!Opened
  <1>7. ASSUME X!NoneKilled
        PROVE  /\ pc[r] \notin X!Ended
               /\ X!EmptyFifo' /\ X!OwnTerminal' /\ X!InStep(r)' /\ X!OwnFifo(r)'
    <2>1. pc[r] \in {"open", "read"} /\ pc[r] \notin X!Ended
      BY <1>1, <1>7, ShellX
    <2>2. X!InStep(r) /\ X!OwnFifo(r) /\ X!EmptyFifo /\ X!OwnTerminal
      BY <1>7 DEF X!Inv
    <2>3. i = path /\ path # 0 /\ files[path].kind = "fifo"
      BY <1>1, <2>1, <2>2 DEF X!OwnFifo, X!EmptyFifo
    <2>4. pc[r] = "read"
      <3>1. files[i].readers = {q \in Run : fdfifo[q] = i /\ pc[q] \in {"read", "close"}}
        BY <1>3, TypesX
      <3>2. PICK q \in Run : pc[q] \in {"read", "close"}
        BY <1>1, <2>3, <3>1
      <3>3. q = r
        BY <2>1, <3>2, AloneX DEF X!Ended
      <3>. QED
        BY <2>1, <3>2, <3>3
    <2>5. files'[path] = f /\ f.content = <<r>>
      <3>1. files[path].content = <<>>
        BY <1>1, <2>2, <2>4 DEF X!OwnFifo
      <3>2. files'[path] = f
        BY <1>1, <1>3, <1>4, <2>3, ChangedX
      <3>3. Append(<<>>, r) = <<r>>
        OBVIOUS
      <3>. QED
        BY <1>4, <2>3, <3>1, <3>2, <3>3
    <2>6. X!EmptyFifo'
      BY <1>1, <1>4, <2>3, <2>4, <2>5 DEF X!EmptyFifo
    <2>7. X!OwnTerminal'
      BY <1>1, <2>2 DEF X!OwnTerminal
    <2>8. X!InStep(r)'
      BY <1>1, <1>2, <2>4 DEF X!InStep
    <2>9. X!OwnFifo(r)'
      BY <1>1, <1>2, <2>2, <2>4, <2>5 DEF X!OwnFifo
    <2>. QED
      BY <2>1, <2>6, <2>7, <2>8, <2>9
  <1>. QED
    BY <1>1, <1>2, <1>5, <1>6, <1>7, WindowX

\* A window is closed when its message is there.
LEMMA CloseWindowX == ASSUME X!Inv, NEW r \in Run, X!CloseWindow(r) PROVE X!Inv'
  <1>1. /\ xterm[r] \in {"redirect", "tty", "sleep"} /\ pc[r] \in {"wait", "killed", "failed"}
        /\ xterm' = [xterm EXCEPT ![r] = "closed"]
        /\ UNCHANGED <<files, path, pc, fdfifo, buffer, stderr, target, seen>>
    BY DEF X!CloseWindow, X!program
  <1>2. /\ xterm' \in [Run -> X!XTermLabels] /\ xterm'[r] = "closed"
        /\ \A q \in Run : q # r => xterm'[q] = xterm[q]
    BY <1>1, TypesX DEF X!XTermLabels
  <1>3. X!TypeOK'
    BY <1>1, <1>2, TypesX, FrameX
  <1>4. X!Opened'
    BY <1>1, <1>2 DEF X!Inv, X!Opened
  <1>5. ASSUME X!NoneKilled
        PROVE  /\ pc[r] \notin X!Ended
               /\ X!EmptyFifo' /\ X!OwnTerminal' /\ X!InStep(r)' /\ X!OwnFifo(r)'
    <2>1. X!InStep(r) /\ X!OwnFifo(r) /\ X!EmptyFifo /\ X!OwnTerminal
      BY <1>5 DEF X!Inv
    <2>2. pc[r] = "wait"
      BY <1>1, <1>5, <2>1 DEF X!InStep, X!NoneKilled
    <2>3. X!EmptyFifo' /\ X!OwnTerminal'
      BY <1>1, <2>1 DEF X!EmptyFifo, X!OwnTerminal
    <2>4. X!InStep(r)' /\ X!OwnFifo(r)'
      BY <1>1, <1>2, <2>1, <2>2 DEF X!InStep, X!OwnFifo
    <2>. QED
      BY <2>2, <2>3, <2>4 DEF X!Ended
  <1>. QED
    BY <1>1, <1>2, <1>3, <1>4, <1>5, WindowX

\* Every step of a run, its xterm or the user keeps the inductive invariant.
LEMMA StepX == ASSUME X!Inv, [X!Next]_(X!vars) PROVE X!Inv'
  <1>1. ASSUME NEW r \in Run, X!Start(r) \/ X!Program(r) \/ X!Kill(r) \/ X!XTerm(r)
        PROVE  X!Inv'
    BY <1>1, StartX, MknodX, ForkX, OpenX, ReadX, CloseX, UnlinkX, OpenTerminalX, WriteX, WaitX,
       KillX, ExecX, RedirectX, TtyX, CloseWindowX
    DEF X!Program, X!XTerm
  <1>2. CASE UNCHANGED X!vars
    BY <1>2 DEF X!vars, X!program, X!Inv, X!TypeOK, X!OneAtATime, X!Opened, X!NoneKilled,
       X!EmptyFifo, X!OwnTerminal, X!InStep, X!OwnFifo
  <1>. QED
    BY <1>1, <1>2 DEF X!Next, X!Terminating

\* What the runs check follows.
LEMMA PromisesX == ASSUME X!Inv PROVE X!OwnTerminalUnlessKilled /\ X!NothingLeft
  BY DEF X!Inv, X!OwnTerminalUnlessKilled, X!NothingLeft, X!InStep, X!OwnFifo


-----------------------------------------------------------------------------
(* Sequences.                                                              *)

\* The messages 1 to n, and one more of them.
LEMMA CountOneMore ==
  ASSUME NEW n \in Nat
  PROVE  [i \in 1..n |-> i] \o <<n + 1>> = [i \in 1..n + 1 |-> i]
  <1>1. [i \in 1..n |-> i] \in Seq(Nat) /\ Len([i \in 1..n |-> i]) = n
    OBVIOUS
  <1>2. [i \in 1..n + 1 |-> i] \in Seq(Nat) /\ Len([i \in 1..n + 1 |-> i]) = n + 1
    OBVIOUS
  <1>3. /\ [i \in 1..n |-> i] \o <<n + 1>> \in Seq(Nat)
        /\ Len([i \in 1..n |-> i] \o <<n + 1>>) = n + 1
    BY <1>1
  <1>4. ASSUME NEW j \in 1..n + 1
        PROVE  ([i \in 1..n |-> i] \o <<n + 1>>)[j] = [i \in 1..n + 1 |-> i][j]
    BY <1>1, <1>4
  <1>5. QED
    BY <1>2, <1>3, <1>4, SeqEqual

\* A buffer of m zeroes whose beginning the messages 1 to n have replaced.
LEMMA CountOverZeroes ==
  ASSUME NEW m \in Nat, NEW n \in 0..m
  PROVE  [i \in 1..n |-> i] \o SubSeq([i \in 1..m |-> 0], n + 1, m)
           = [i \in 1..m |-> IF i <= n THEN i ELSE 0]
  <1>. DEFINE count == [i \in 1..n |-> i]
              rest == SubSeq([i \in 1..m |-> 0], n + 1, m)
              both == [i \in 1..m |-> IF i <= n THEN i ELSE 0]
  <1>1. count \in Seq(Nat) /\ Len(count) = n /\ \A i \in 1..n : count[i] = i
    OBVIOUS
  <1>2. [i \in 1..m |-> 0] \in Seq(Nat) /\ Len([i \in 1..m |-> 0]) = m
    OBVIOUS
  <1>3. rest \in Seq(Nat) /\ Len(rest) = m - n /\ \A i \in 1..m - n : rest[i] = 0
    BY <1>2
  <1>4. both \in Seq(Nat) /\ Len(both) = m
    OBVIOUS
  <1>. HIDE DEF count, rest
  <1>5. count \o rest \in Seq(Nat) /\ Len(count \o rest) = m
    BY <1>1, <1>3
  <1>6. ASSUME NEW j \in 1..m PROVE (count \o rest)[j] = both[j]
    BY <1>1, <1>3, <1>6
  <1>. HIDE DEF both
  <1>7. count \o rest = both
    BY <1>4, <1>5, <1>6, SeqEqual
  <1>8. QED
    BY <1>7 DEF count, rest, both

\* A sequence is what was taken from its front, then what is left.
LEMMA Split ==
  ASSUME NEW S, NEW s \in Seq(S), NEW n \in 0..Len(s)
  PROVE  /\ SubSeq(s, 1, n) \in Seq(S) /\ SubSeq(s, n + 1, Len(s)) \in Seq(S)
         /\ Len(SubSeq(s, 1, n)) = n /\ Len(SubSeq(s, n + 1, Len(s))) = Len(s) - n
         /\ SubSeq(s, 1, n) \o SubSeq(s, n + 1, Len(s)) = s
  <1>1. /\ Len(s) \in Nat /\ 1 \in 1..Len(s) + 1
        /\ n \in 1 - 1..Len(s) /\ Len(s) \in n..Len(s)
    BY LenProperties
  <1>2. SubSeq(s, 1, n) \o SubSeq(s, n + 1, Len(s)) = SubSeq(s, 1, Len(s))
    BY <1>1, ConcatAdjacentSubSeq, Zenon
  <1>3. SubSeq(s, 1, Len(s)) = s
    BY SubSeqFull
  <1>4. SubSeq(s, 1, n) \in Seq(S) /\ Len(SubSeq(s, 1, n)) = n
    BY <1>1
  <1>5. /\ SubSeq(s, n + 1, Len(s)) \in Seq(S)
        /\ Len(SubSeq(s, n + 1, Len(s))) = Len(s) - n
    BY <1>1
  <1>. QED
    BY <1>2, <1>3, <1>4, <1>5

\* What is in front of a sequence is its prefix.
LEMMA PrefixOfConcat ==
  ASSUME NEW S, NEW s \in Seq(S), NEW t \in Seq(S)
  PROVE  P3!IsPrefix(s, s \o t) /\ SubSeq(s \o t, 1, Len(s)) = s
  <1>1. /\ s \o t \in Seq(S) /\ Len(s \o t) = Len(s) + Len(t)
        /\ \A i \in 1..Len(s) : (s \o t)[i] = s[i]
    OBVIOUS
  <1>2. /\ SubSeq(s \o t, 1, Len(s)) \in Seq(S) /\ Len(SubSeq(s \o t, 1, Len(s))) = Len(s)
        /\ \A i \in 1..Len(s) : SubSeq(s \o t, 1, Len(s))[i] = s[i]
    BY <1>1
  <1>3. SubSeq(s \o t, 1, Len(s)) = s
    BY <1>2, SeqEqual
  <1>4. SubSeq(s, 1, Len(s)) = s
    BY SubSeqFull
  <1>. QED
    BY <1>1, <1>3, <1>4 DEF P3!IsPrefix

-----------------------------------------------------------------------------
(* PipeDemo2.                                                              *)

\* What is asked of the constants.
LEMMA Constants2 == Messages \in Nat \ {0} /\ Capacity \in Nat \ {0}
  BY InstanceAssumption DEF P2!Assumption

\* The inductive invariant holds when PipeDemo2 starts,
LEMMA Init2 == ASSUME P2!Init PROVE P2!Inv
  <1>1. opened \in BOOLEAN
    BY Zenon DEF P2!Init
  <1>2. P2!TypeOK
    BY <1>1, Constants2
    DEF P2!Init, P2!TypeOK, P2!Pipes, P2!Process, P2!Life, P2!WriterLabels, P2!ReaderLabels
  <1>3. P2!Progress /\ P2!Held /\ P2!Flow
    BY Constants2
    DEF P2!Init, P2!Progress, P2!Held, P2!Flow, P2!PrefixShown, P2!Pipes, P2!Process
  <1>4. QED
    BY <1>2, <1>3 DEF P2!Inv

\* The flag says yes or no, whatever the step.
LEMMA Opened2 == ASSUME P2!TypeOK, [P2!Next]_(P2!vars) PROVE opened' \in BOOLEAN
  BY Zenon DEF P2!TypeOK, P2!Next, P2!Writer, P2!CreatePipe, P2!ForkReader,
     P2!WriterCloseNothing, P2!WriterWrite, P2!WriterExit, P2!Reader,
     P2!ReaderCloseWrite, P2!ReaderRead, P2!ReaderSay, P2!ReaderPrint, P2!ReaderWait, P2!ReaderExit,
     P2!Kill,
     P2!Terminating, P2!vars, P2!program

\* and every step keeps it.
LEMMA Step2 == ASSUME P2!Inv, [P2!Next]_(P2!vars) PROVE P2!Inv'
  <1>. USE Constants2, Opened2
       DEF P2!Inv, P2!TypeOK, P2!Progress, P2!Held, P2!Flow, P2!PrefixShown, P2!Shows,
           P2!Pipes, P2!Process, P2!Life, P2!WriterLabels, P2!ReaderLabels,
           P2!At, P2!Goto, P2!kernel, P2!program
  <1>1. CASE P2!CreatePipe
    BY <1>1 DEF P2!CreatePipe, P2!Open
  <1>2. CASE P2!ForkReader
    BY <1>2 DEF P2!ForkReader, P2!Fork, P2!Inherited
  <1>3. CASE P2!WriterCloseNothing
    <2>. USE <1>3 DEF P2!WriterCloseNothing
    <2>1. P2!TypeOK'
      OBVIOUS
    <2>2. P2!Progress' /\ P2!Held'
      OBVIOUS
    <2>3. P2!Flow'
      OBVIOUS
    <2>. QED
      BY <2>1, <2>2, <2>3
  <1>4. CASE P2!WriterWrite
    <2>. USE <1>4 DEF P2!WriterWrite, P2!HasRoom, P2!PutAll
    <2>1. P2!Progress' /\ P2!Held'
      OBVIOUS
    <2>2. CASE opened
      <3>1. data' = [data EXCEPT !["p"] = @ \o <<sent + 1>>]
        BY <2>2
      <3>2. /\ data["p"] \o <<sent + 1>> \in Seq(1..Messages)
            /\ Len(data["p"] \o <<sent + 1>>) <= Capacity
        BY <2>2
      <3>3. P2!TypeOK'
        BY <3>1, <3>2
      <3>4. data["p"] = [i \in 1..sent |-> i] => data'["p"] = [i \in 1..sent' |-> i]
        BY <3>1, CountOneMore
      <3>5. /\ pc'["reader"] = pc["reader"] /\ UNCHANGED <<opened, inbuf, printed>>
            /\ pc["writer"] # "killed"
        OBVIOUS
      <3>6. P2!PrefixShown' /\ (pc'["reader"] \in {"say", "print", "wait", "exit"} => P2!Shows(inbuf)')
        BY <2>2, <3>5
      <3>7. P2!Flow'
        BY <3>4, <3>5, <3>6
      <3>. QED
        BY <2>1, <3>3, <3>7
    <2>3. CASE ~opened
      <3>1. P2!TypeOK'
        <4>1. UNCHANGED <<data, readers, writers, life, inbuf, printed>>
          BY <2>3
        <4>2. sent' \in 0..Messages
          OBVIOUS
        <4>3. pc' \in [P2!Process -> P2!WriterLabels \cup P2!ReaderLabels]
              /\ pc'["writer"] \in P2!WriterLabels /\ pc'["reader"] \in P2!ReaderLabels
          OBVIOUS
        <4>. QED
          BY <4>1, <4>2, <4>3
      <3>2. P2!Flow'
        BY <2>3
      <3>. QED
        BY <2>1, <3>1, <3>2
    <2>. QED
      BY <2>2, <2>3
  <1>5. CASE P2!WriterExit
    BY <1>5 DEF P2!WriterExit, P2!Die
  <1>6. CASE P2!ReaderCloseWrite
    BY <1>6 DEF P2!ReaderCloseWrite, P2!CloseWrite
  <1>7. CASE P2!ReaderRead
    <2>. USE <1>7 DEF P2!ReaderRead, P2!CanRead, P2!TakeUpTo, P2!Got, P2!AtEOF
    <2>1. P2!Progress' /\ P2!Held'
      OBVIOUS
    <2>2. CASE opened /\ data["p"] # <<>>
      <3>1. data["p"] = [i \in 1..sent |-> i] /\ sent \in 1..Messages
        BY <2>2
      <3>2. P2!Got("p", Messages) = data["p"] /\ Len(data["p"]) = sent
        BY <3>1
      <3>3. data' = [data EXCEPT !["p"] = SubSeq(@, sent + 1, sent)]
        BY <2>2, <3>2
      <3>4. inbuf' = [i \in 1..Messages |-> IF i <= sent THEN i ELSE 0]
        <4>. HIDE DEF P2!Got
        <4>1. inbuf' = data["p"] \o SubSeq(inbuf, sent + 1, Messages)
          BY <2>2, <3>2
        <4>2. inbuf = [i \in 1..Messages |-> 0]
          OBVIOUS
        <4>3. [i \in 1..sent |-> i] \o SubSeq([i \in 1..Messages |-> 0], sent + 1, Messages)
                = [i \in 1..Messages |-> IF i <= sent THEN i ELSE 0]
          BY CountOverZeroes
        <4>. QED
          BY <3>1, <4>1, <4>2, <4>3
      <3>5. SubSeq(data["p"], sent + 1, sent) \in Seq(1..Messages)
            /\ Len(SubSeq(data["p"], sent + 1, sent)) = 0
        BY <3>2
      <3>6. P2!TypeOK'
        BY <3>3, <3>4, <3>5
      <3>7. P2!Shows(inbuf)'
        <4>1. sent \in 0..Messages /\ sent # 0
          BY <3>1
        <4>. QED
          BY <3>4, <4>1 DEF P2!Shows
      <3>8. P2!Flow'
        BY <3>7
      <3>. QED
        BY <2>1, <3>6, <3>8
    <2>3. CASE ~opened \/ data["p"] = <<>>
      <3>1. UNCHANGED <<data, inbuf>> /\ (~opened \/ writers["p"] = {})
        BY <2>3
      <3>2. P2!TypeOK'
        BY <3>1
      <3>3. P2!Shows(inbuf)'
        <4>1. ~opened \/ pc["writer"] = "killed"
          <5>1. SUFFICES ASSUME opened, pc["writer"] # "killed" PROVE FALSE
            OBVIOUS
          <5>2. life["writer"] # "running"
            BY <3>1, <5>1
          <5>3. pc["writer"] = "exit" /\ sent = Messages
            BY <5>1, <5>2
          <5>4. data["p"] = [i \in 1..Messages |-> i] /\ data["p"] = <<>>
            BY <2>3, <5>1, <5>3
          <5>. QED
            BY <5>4
        <4>2. inbuf = [i \in 1..Messages |-> IF i <= 0 THEN i ELSE 0]
          OBVIOUS
        <4>3. 0 \in 0..Messages
          OBVIOUS
        <4>. QED
          BY <3>1, <4>1, <4>2, <4>3
      <3>4. P2!Flow'
        BY <3>3
      <3>. QED
        BY <2>1, <3>2, <3>4
    <2>. QED
      BY <2>2, <2>3
  <1>8. CASE P2!ReaderPrint
    BY <1>8 DEF P2!ReaderPrint
  <1>9. CASE P2!ReaderExit
    BY <1>9 DEF P2!ReaderExit, P2!Die
  <1>13. CASE P2!ReaderSay
    BY <1>13 DEF P2!ReaderSay
  <1>14. CASE P2!ReaderWait
    BY <1>14 DEF P2!ReaderWait
  <1>10. ASSUME NEW q \in P2!Process, P2!Kill(q) PROVE P2!Inv'
    <2>. USE <1>10 DEF P2!Kill, P2!Die
    <2>1. P2!TypeOK'
      OBVIOUS
    <2>2. P2!Progress' /\ P2!Held'
      OBVIOUS
    <2>3. P2!Flow'
      OBVIOUS
    <2>. QED
      BY <2>1, <2>2, <2>3
  <1>11. CASE UNCHANGED P2!vars
    BY <1>11 DEF P2!vars
  <1>. QED
    BY <1>1, <1>2, <1>3, <1>4, <1>5, <1>6, <1>7, <1>8, <1>9, <1>10, <1>11, <1>13, <1>14
    DEF P2!Next, P2!Writer, P2!Reader, P2!Terminating

-----------------------------------------------------------------------------
(* PipeDemo3.                                                              *)

\* What is asked of the constants.
LEMMA Constants3 ==
  /\ Message \in Seq(1..255) /\ Message # <<>> /\ Len(Message) \in Nat \ {0}
  /\ CharsToRead \in Nat \ {0}
  /\ Capacity \in Nat /\ Len(Message) <= Capacity
  BY InstanceAssumption DEF P3!Assumption

\* The inductive invariant holds when PipeDemo3 starts.
LEMMA Init3 == ASSUME P3!Init PROVE P3!Inv
  <1>1. opened \in BOOLEAN /\ flooded \in BOOLEAN /\ reported \in BOOLEAN
    BY Zenon DEF P3!Init
  <1>2. P3!TypeOK
    BY <1>1
    DEF P3!Init, P3!TypeOK, P3!Pipes, P3!Process, P3!Life, P3!WriterLabels, P3!ReaderLabels
  <1>3. P3!Progress /\ P3!Held /\ P3!Flow
    BY Constants3
    DEF P3!Init, P3!Progress, P3!Held, P3!Flow, P3!Unwritten, P3!Chopped, P3!Rest, P3!IsPrefix,
        P3!Pending, P3!Pipes, P3!Process
  <1>4. QED
    BY <1>2, <1>3 DEF P3!Inv

\* The flags say yes or no, whatever the step.
LEMMA Booleans3 ==
  ASSUME P3!TypeOK, [P3!Next]_(P3!vars)
  PROVE  opened' \in BOOLEAN /\ flooded' \in BOOLEAN /\ reported' \in BOOLEAN
  BY Zenon DEF P3!TypeOK, P3!Next, P3!Reader, P3!CreatePipe, P3!ForkWriter,
     P3!ReaderCloseWrite, P3!ReaderRead, P3!ReaderReadFails, P3!ReaderPrint, P3!ReaderEndLine, P3!ReaderSync,
     P3!ReaderCloseRead, P3!ReaderExit,
     P3!Writer, P3!WriterCloseRead, P3!WriterWrite, P3!WriterBrokenPipe, P3!WriterCloseWrite,
     P3!WriterReport, P3!WriterExit, P3!Kill, P3!Terminating, P3!vars, P3!program

\* How much of the last line has not been ended is a number.
LEMMA Rest3 ==
  ASSUME P3!TypeOK
  PROVE  /\ P3!Rest \in Int
         /\ ends # <<>> => Len(ends) \in 1..Len(ends) /\ ends[Len(ends)] \in Nat
         /\ ends \in Seq(0..Len(shown)) /\ Len(shown) \in Nat /\ Len(ends) \in Nat
         /\ \A i \in 1..Len(ends) : P3!LineLength(i) \in Int
  <1>1. /\ ends \in Seq(0..Len(shown)) /\ Len(shown) \in Nat /\ Len(ends) \in Nat
        /\ \A i \in 1..Len(ends) : ends[i] \in Nat
    BY DEF P3!TypeOK
  <1>2. ends # <<>> => Len(ends) \in 1..Len(ends) /\ ends[Len(ends)] \in Nat
    BY <1>1
  <1>3. \A i \in 1..Len(ends) : i # 1 => ends[i - 1] \in Nat
    BY <1>1
  <1>. QED
    BY <1>1, <1>2, <1>3 DEF P3!Rest, P3!LineLength

\* A step that prints nothing leaves the lines as they are, and a line that is not
\* ended waits for its end.
LEMMA Kept3 ==
  ASSUME P3!Chopped, UNCHANGED <<shown, ends>>,
         P3!Rest = 0 \/ (pc["reader"] \in {"eol", "killed"} => pc'["reader"] \in {"eol", "killed"})
  PROVE  P3!Chopped' /\ P3!Rest' = P3!Rest
  <1>1. /\ P3!Rest' = P3!Rest /\ \A i : P3!LineLength(i)' = P3!LineLength(i)
        /\ \A length, last : P3!Fits(length, last)' <=> P3!Fits(length, last)
    BY DEF P3!Rest, P3!LineLength, P3!Fits
  <1>. QED
    BY <1>1 DEF P3!Chopped

\* The parts of the invariant that do not speak of the text.
LEMMA Control3 ==
  ASSUME P3!Inv, P3!ReaderRead \/ P3!ReaderPrint \/ P3!ReaderEndLine \/ P3!WriterWrite
  PROVE  P3!Progress' /\ P3!Held'
  <1>. USE DEF P3!Inv, P3!TypeOK, P3!Progress, P3!Held, P3!Pipes, P3!Process, P3!Life,
           P3!WriterLabels, P3!ReaderLabels, P3!At, P3!Goto, P3!kernel, P3!program
  <1>1. CASE P3!ReaderRead
    BY <1>1 DEF P3!ReaderRead, P3!TakeUpTo, P3!Got, P3!CanRead
  <1>2. CASE P3!ReaderPrint
    BY <1>2 DEF P3!ReaderPrint
  <1>3. CASE P3!WriterWrite
    BY <1>3 DEF P3!WriterWrite, P3!PutAll
  <1>4. CASE P3!ReaderEndLine
    BY <1>4 DEF P3!ReaderEndLine
  <1>. QED
    BY <1>1, <1>2, <1>3, <1>4

\* A read takes the next piece out of the pipe.
LEMMA Piece3 ==
  ASSUME P3!TypeOK, P3!ReaderRead, data["p"] # <<>>
  PROVE  /\ buffer' \in Seq(1..255) /\ data'["p"] \in Seq(1..255)
         /\ buffer' # <<>> /\ Len(buffer') <= CharsToRead
         /\ Len(buffer') = CharsToRead \/ data'["p"] = <<>>
         /\ buffer' \o data'["p"] = data["p"]
         /\ data' = [data EXCEPT !["p"] = data'["p"]]
         /\ pc' = [pc EXCEPT !["reader"] = "print"] /\ pc["reader"] = "read" /\ opened
         /\ UNCHANGED <<readers, writers, life, opened, shown, ends, flooded, reported>>
  <1>1. data["p"] \in Seq(1..255) /\ data = [data EXCEPT !["p"] = data["p"]] /\ DOMAIN data = {"p"}
    BY DEF P3!TypeOK, P3!Pipes
  <1>. DEFINE n == IF CharsToRead < Len(data["p"]) THEN CharsToRead ELSE Len(data["p"])
  <1>2. /\ n \in 1..Len(data["p"]) /\ n \in 0..Len(data["p"]) /\ n <= CharsToRead
        /\ n = CharsToRead \/ n = Len(data["p"])
    BY <1>1, Constants3
  <1>. DEFINE front == SubSeq(data["p"], 1, n)
              rest == SubSeq(data["p"], n + 1, Len(data["p"]))
  <1>3. P3!Got("p", CharsToRead) = front
    BY DEF P3!Got
  <1>. HIDE DEF n
  <1>4. /\ front \in Seq(1..255) /\ rest \in Seq(1..255)
        /\ Len(front) = n /\ Len(rest) = Len(data["p"]) - n /\ front \o rest = data["p"]
    <2>1. data["p"] \in Seq(1..255) /\ n \in 0..Len(data["p"])
      BY <1>1, <1>2
    <2>. QED
      BY <2>1, Split, Zenon
  <1>5. /\ buffer' = front /\ data' = [data EXCEPT !["p"] = rest]
        /\ pc' = [pc EXCEPT !["reader"] = "print"] /\ pc["reader"] = "read" /\ opened
        /\ UNCHANGED <<readers, writers, life, opened, shown, ends, flooded, reported>>
    BY <1>3, <1>4 DEF P3!ReaderRead, P3!AtEOF, P3!TakeUpTo, P3!At, P3!Goto
  <1>. HIDE DEF front, rest
  <1>6. data'["p"] = rest
    BY <1>1, <1>5
  <1>. QED
    BY <1>1, <1>2, <1>4, <1>5, <1>6

\* Reading a piece, or the end of the file, keeps the invariant.
LEMMA Read3 == ASSUME P3!Inv, P3!ReaderRead PROVE P3!Inv'
  <1>. USE DEF P3!Inv
  <1>1. P3!Progress' /\ P3!Held'
    BY Control3
  <1>b. opened' \in BOOLEAN /\ flooded' \in BOOLEAN /\ reported' \in BOOLEAN
    BY Booleans3 DEF P3!Next, P3!Reader
  <1>2. CASE data["p"] # <<>>
    <2>1. P3!TypeOK'
      BY <1>b, <1>2, Piece3 DEF P3!TypeOK, P3!Pipes, P3!Process, P3!ReaderLabels
    <2>2. P3!Written /\ shown \o data["p"] = Message
      <3>1. P3!Written
        BY <1>2, Piece3 DEF P3!Flow, P3!Unwritten
      <3>2. P3!Pending = <<>> /\ shown \in Seq(1..255)
        BY <1>2, Piece3 DEF P3!Pending, P3!TypeOK
      <3>. QED
        BY <3>1, <3>2, ConcatEmptySeq DEF P3!Written
    <2>3. P3!Written'
      <3>1. P3!Pending' = buffer'
        BY <1>2, Piece3 DEF P3!Pending, P3!TypeOK, P3!Process
      <3>2. (shown \o buffer') \o data'["p"] = shown \o (buffer' \o data'["p"])
        <4>1. /\ shown \in Seq(1..255) /\ buffer' \in Seq(1..255)
              /\ data'["p"] \in Seq(1..255)
          BY <1>2, Piece3 DEF P3!TypeOK
        <4>2. \A s, t, u \in Seq(1..255) : (s \o t) \o u = s \o (t \o u)
          BY ConcatAssociative
        <4>. QED
          BY ONLY <4>1, <4>2, ZenonT(40)
      <3>3. pc'["writer"] = pc["writer"] /\ opened' /\ shown' = shown
        BY <1>2, Piece3 DEF P3!TypeOK, P3!Process
      <3>. QED
        BY <1>2, <2>2, <3>1, <3>2, <3>3, Piece3 DEF P3!Written
    <2>4. P3!Chopped' /\ pc'["reader"] = "print"
      <3>1. shown' = shown /\ ends' = ends /\ pc' = [pc EXCEPT !["reader"] = "print"]
        BY <1>2, Piece3
      <3>2. pc'["reader"] = "print"
        BY <3>1 DEF P3!TypeOK, P3!Process
      <3>. QED
        BY <1>2, <3>1, <3>2, Piece3, Kept3 DEF P3!Flow
    <2>5. /\ buffer' # <<>> /\ Len(buffer') <= CharsToRead
          /\ Len(buffer') = CharsToRead \/ data'["p"] = <<>>
      BY <1>2, Piece3
    <2>6. P3!Flow'
      BY <2>3, <2>4, <2>5 DEF P3!Flow
    <2>. QED
      BY <1>1, <2>1, <2>6
  <1>3. CASE data["p"] = <<>>
    <2>1. /\ pc["reader"] = "read" /\ opened /\ writers["p"] = {}
          /\ pc' = [pc EXCEPT !["reader"] = "close_r"]
          /\ UNCHANGED <<data, buffer, readers, writers, life, opened, shown, ends, flooded,
                         reported>>
      BY <1>3 DEF P3!ReaderRead, P3!CanRead, P3!AtEOF, P3!At, P3!Goto
    <2>2. P3!TypeOK'
      BY <1>b, <2>1 DEF P3!TypeOK, P3!Process, P3!ReaderLabels
    <2>3. shown = Message \/ life["writer"] = "unborn" \/ pc["writer"] = "killed"
      <3>1. CASE P3!Written
        <4>1. P3!Pending = <<>> /\ shown \in Seq(1..255)
          BY <2>1 DEF P3!Pending, P3!TypeOK
        <4>. QED
          BY <1>3, <3>1, <4>1, ConcatEmptySeq DEF P3!Written
      <3>2. CASE P3!Unwritten
        BY <2>1, <3>2 DEF P3!Unwritten, P3!Progress, P3!Held
      <3>. QED
        BY <2>1, <3>1, <3>2 DEF P3!Flow
    <2>4. P3!Chopped' /\ pc'["reader"] = "close_r" /\ pc'["writer"] = pc["writer"]
      BY <2>1, Kept3 DEF P3!Flow, P3!TypeOK, P3!Process
    <2>5. P3!Flow'
      BY <2>1, <2>3, <2>4 DEF P3!Flow, P3!Unwritten, P3!Written, P3!Pending
    <2>. QED
      BY <1>1, <2>2, <2>5
  <1>. QED
    BY <1>2, <1>3

\* Printing a piece keeps it: what is on the screen of the new line is the piece.
LEMMA Print3 == ASSUME P3!Inv, P3!ReaderPrint PROVE P3!Inv'
  <1>. USE DEF P3!Inv
  <1>1. P3!Progress' /\ P3!Held'
    BY Control3
  <1>b. opened' \in BOOLEAN /\ flooded' \in BOOLEAN /\ reported' \in BOOLEAN
    BY Booleans3 DEF P3!Next, P3!Reader
  <1>2. /\ shown' = (IF opened THEN shown \o buffer ELSE shown)
        /\ pc["reader"] = "print" /\ pc' = [pc EXCEPT !["reader"] = "eol"]
        /\ UNCHANGED <<data, readers, writers, life, opened, buffer, ends, flooded, reported>>
    BY DEF P3!ReaderPrint, P3!At, P3!Goto, P3!kernel
  <1>3. /\ data["p"] \in Seq(1..255) /\ shown \in Seq(1..255) /\ buffer \in Seq(1..255)
        /\ ends \in Seq(0..Len(shown))
        /\ pc \in [{"reader", "writer"} -> P3!ReaderLabels \cup P3!WriterLabels]
    BY DEF P3!TypeOK, P3!Pipes, P3!Process
  <1>4. pc'["reader"] = "eol" /\ pc'["writer"] = pc["writer"]
    BY <1>2, <1>3
  <1>5. P3!Rest = 0
    BY <1>2 DEF P3!Flow, P3!Chopped
  <1>6. CASE ~opened
    <2>1. shown' = shown /\ ends' = ends /\ opened' = opened /\ ~opened'
      BY <1>2, <1>6, Zenon
    <2>2. P3!TypeOK'
      BY <1>b, <1>2, <2>1 DEF P3!TypeOK, P3!Process, P3!ReaderLabels
    <2>3. P3!Chopped'
      BY <1>5, <2>1, Kept3 DEF P3!Flow
    <2>4. P3!Unwritten'
      <3>1. P3!Unwritten
        BY <1>2, <1>6 DEF P3!Flow, P3!Written
      <3>2. shown' = <<>> /\ data'["p"] = <<>>
        BY <1>2, <2>1, <3>1 DEF P3!Unwritten
      <3>3. P3!Pending' = <<>>
        BY <1>4 DEF P3!Pending
      <3>. QED
        BY <2>1, <3>2, <3>3 DEF P3!Unwritten
    <2>5. P3!Flow'
      BY <1>4, <1>6, <2>1, <2>3, <2>4 DEF P3!Flow
    <2>. QED
      BY <1>1, <2>2, <2>5
  <1>7. CASE opened
    <2>1. /\ P3!Written /\ (shown \o buffer) \o data["p"] = Message
          /\ buffer # <<>> /\ Len(buffer) <= CharsToRead
          /\ Len(buffer) = CharsToRead \/ data["p"] = <<>>
      BY <1>2, <1>7 DEF P3!Flow, P3!Unwritten, P3!Written, P3!Pending
    <2>2. shown' = shown \o buffer /\ shown' \in Seq(1..255) /\ opened'
      <3>1. shown' = shown \o buffer /\ opened'
        BY <1>2, <1>7, Zenon
      <3>. QED
        BY <1>3, <3>1
    <2>3. /\ Len(shown') = Len(shown) + Len(buffer)
          /\ Len(buffer) \in Nat /\ Len(buffer) # 0 /\ Len(shown) \in Nat /\ Len(data["p"]) \in Nat
      BY <1>3, <2>1, <2>2
    <2>4. P3!TypeOK'
      <3>1. ends' \in Seq(0..Len(shown'))
        <4>1. 0..Len(shown) \subseteq 0..Len(shown')
          BY <2>3
        <4>. QED
          BY <1>2, <1>3, <4>1, SeqMonotonic
      <3>. QED
        BY <1>b, <1>2, <2>2, <3>1 DEF P3!TypeOK, P3!Process, P3!ReaderLabels
    <2>5. P3!Written'
      <3>1. P3!Pending' = <<>>
        BY <1>4 DEF P3!Pending
      <3>2. shown' \o <<>> = shown'
        BY <2>2, ConcatEmptySeq
      <3>3. shown' \o data'["p"] = Message /\ pc'["writer"] \notin {"close_r", "write"}
        BY <1>2, <1>4, <2>1, <2>2 DEF P3!Written
      <3>. QED
        BY <2>2, <3>1, <3>2, <3>3 DEF P3!Written
    <2>6. P3!Rest' = Len(buffer)
      <3>1. P3!Rest' = P3!Rest + Len(buffer)
        BY <1>2, <2>3, Rest3 DEF P3!Rest
      <3>. QED
        BY <1>5, <2>3, <3>1
    <2>7. P3!Chopped'
      <3>1. P3!IsPrefix(shown', Message)
        BY <1>3, <2>1, <2>2, PrefixOfConcat
      <3>2. data["p"] = <<>> => shown' = Message
        BY <2>1, <2>2, ConcatEmptySeq
      <3>3. shown # Message
        <4>1. Len(Message) = Len(shown') + Len(data["p"])
          <5>1. shown' \o data["p"] = Message
            BY <2>1, <2>2
          <5>2. \A s, t \in Seq(1..255) : Len(s \o t) = Len(s) + Len(t)
            OBVIOUS
          <5>3. shown' \in Seq(1..255) /\ data["p"] \in Seq(1..255)
            BY <1>3, <2>2
          <5>. QED
            BY ONLY <5>1, <5>2, <5>3
        <4>2. Len(shown') > Len(shown) /\ Len(shown') \in Nat
          BY <2>3
        <4>3. Len(Message) > Len(shown)
          <5>1. Len(data["p"]) \in Nat
            BY <1>3
          <5>2. Len(shown) \in Nat
            BY <2>3
          <5>. QED
            BY ONLY <4>1, <4>2, <5>1, <5>2
        <4>. QED
          BY <2>3, <4>3
      <3>4. ASSUME NEW i \in DOMAIN ends'
            PROVE  P3!Fits(P3!LineLength(i), i = Len(ends) /\ P3!Rest = 0)'
        <4>1. i \in DOMAIN ends /\ P3!LineLength(i)' = P3!LineLength(i)
          BY <1>2 DEF P3!LineLength
        <4>2. P3!LineLength(i) \in 1..CharsToRead /\ P3!LineLength(i) = CharsToRead
          BY <3>3, <4>1 DEF P3!Flow, P3!Chopped, P3!Fits
        <4>. QED
          BY <4>1, <4>2 DEF P3!Fits
      <3>5. P3!Fits(P3!Rest, TRUE)'
        <4>1. Len(buffer) \in 1..CharsToRead
          BY <2>1, <2>3, Constants3
        <4>. QED
          BY <2>1, <2>6, <3>2, <4>1 DEF P3!Fits
      <3>. QED
        BY <1>4, <3>1, <3>4, <3>5 DEF P3!Chopped
    <2>8. P3!Flow'
      BY <1>4, <2>3, <2>5, <2>6, <2>7 DEF P3!Flow
    <2>. QED
      BY <1>1, <2>4, <2>8
  <1>. QED
    BY <1>6, <1>7

\* Ending the line keeps it: the line is as long as what was on the screen of it.
LEMMA EndLine3 == ASSUME P3!Inv, P3!ReaderEndLine PROVE P3!Inv'
  <1>. USE DEF P3!Inv
  <1>1. P3!Progress' /\ P3!Held'
    BY Control3
  <1>b. opened' \in BOOLEAN /\ flooded' \in BOOLEAN /\ reported' \in BOOLEAN
    BY Booleans3 DEF P3!Next, P3!Reader
  <1>2. /\ pc["reader"] = "eol" /\ pc' = [pc EXCEPT !["reader"] = "sync"]
        /\ UNCHANGED <<data, readers, writers, life, opened, buffer, shown, reported>>
        /\ opened => ends' = Append(ends, Len(shown))
        /\ ~opened => ends' = ends
    BY DEF P3!ReaderEndLine, P3!At, P3!Goto, P3!kernel
  <1>3. pc'["reader"] = "sync" /\ pc'["writer"] = pc["writer"]
    BY <1>2 DEF P3!TypeOK, P3!Process
  <1>4. /\ P3!Unwritten => P3!Unwritten'
        /\ P3!Written => P3!Written'
    BY <1>2, <1>3 DEF P3!Unwritten, P3!Written, P3!Pending
  <1>5. CASE ~opened
    <2>1. P3!Rest = 0
      <3>1. shown = <<>> /\ ends = <<>>
        BY <1>2, <1>5 DEF P3!Flow, P3!Unwritten, P3!Written, P3!Held
      <3>. QED
        BY <3>1 DEF P3!Rest
    <2>2. P3!Chopped'
      BY <1>2, <1>5, <2>1, Kept3 DEF P3!Flow
    <2>3. P3!TypeOK'
      BY <1>b, <1>2, <1>5 DEF P3!TypeOK, P3!Process, P3!ReaderLabels
    <2>4. P3!Flow'
      BY <1>2, <1>3, <1>4, <2>2 DEF P3!Flow
    <2>. QED
      BY <1>1, <2>3, <2>4
  <1>6. CASE opened
    <2>1. /\ ends' \in Seq(0..Len(shown)) /\ Len(ends') = Len(ends) + 1
          /\ ends'[Len(ends) + 1] = Len(shown) /\ DOMAIN ends' = 1..Len(ends) + 1
          /\ DOMAIN ends = 1..Len(ends)
          /\ \A i \in 1..Len(ends) : ends'[i] = ends[i]
      <3>1. ends \in Seq(0..Len(shown)) /\ Len(shown) \in 0..Len(shown)
        BY Rest3
      <3>. QED
        BY <1>2, <1>6, <3>1, AppendProperties
    <2>2. P3!TypeOK'
      BY <1>b, <1>2, <2>1 DEF P3!TypeOK, P3!Process, P3!ReaderLabels
    <2>3. P3!Rest # 0 /\ P3!Fits(P3!Rest, TRUE)
      BY <1>2, <1>6 DEF P3!Flow, P3!Chopped
    <2>4. P3!Rest' = 0
      BY <1>2, <2>1, Rest3 DEF P3!Rest
    <2>5. ASSUME NEW i, i = Len(ends) + 1 PROVE P3!LineLength(i)' = P3!Rest
      <3>1. CASE Len(ends) = 0
        <4>1. i = 1 /\ ends = <<>> /\ ends'[i] = Len(shown)
          BY <2>1, <2>5, <3>1, Rest3
        <4>. QED
          BY <4>1 DEF P3!LineLength, P3!Rest
      <3>2. CASE Len(ends) # 0
        <4>1. /\ i # 1 /\ i - 1 = Len(ends) /\ Len(ends) \in 1..Len(ends) /\ ends # <<>>
              /\ ends'[i] = Len(shown)
          BY <2>1, <2>5, <3>2, Rest3
        <4>2. ends'[i - 1] = ends[Len(ends)]
          BY <2>1, <4>1
        <4>. QED
          BY <4>1, <4>2 DEF P3!LineLength, P3!Rest
      <3>. QED
        BY <3>1, <3>2
    <2>6. ASSUME NEW i \in DOMAIN ends'
          PROVE  P3!Fits(P3!LineLength(i), i = Len(ends) /\ P3!Rest = 0)'
      <3>1. CASE i = Len(ends) + 1
        <4>1. P3!LineLength(i)' = P3!Rest /\ i = Len(ends')
          BY <2>1, <2>5, <3>1
        <4>. QED
          BY <1>2, <2>3, <2>4, <4>1 DEF P3!Fits
      <3>2. CASE i # Len(ends) + 1
        <4>1. i \in 1..Len(ends) /\ (i # 1 => i - 1 \in 1..Len(ends))
          BY <2>1, <3>2, Rest3
        <4>2. P3!LineLength(i)' = P3!LineLength(i)
          BY <2>1, <4>1 DEF P3!LineLength
        <4>3. P3!LineLength(i) \in 1..CharsToRead /\ P3!LineLength(i) = CharsToRead
          BY <2>1, <2>3, <4>1 DEF P3!Flow, P3!Chopped, P3!Fits
        <4>. QED
          BY <4>2, <4>3 DEF P3!Fits
      <3>. QED
        BY <3>1, <3>2
    <2>7. P3!Chopped'
      BY <1>2, <2>4, <2>6 DEF P3!Flow, P3!Chopped
    <2>8. P3!Flow'
      BY <1>2, <1>3, <1>4, <2>7 DEF P3!Flow
    <2>. QED
      BY <1>1, <2>2, <2>8
  <1>. QED
    BY <1>5, <1>6

\* Writing the message keeps it.
LEMMA Write3 == ASSUME P3!Inv, P3!WriterWrite PROVE P3!Inv'
  <1>. USE DEF P3!Inv
  <1>1. P3!Progress' /\ P3!Held'
    BY Control3
  <1>b. opened' \in BOOLEAN /\ flooded' \in BOOLEAN /\ reported' \in BOOLEAN
    BY Booleans3 DEF P3!Next, P3!Writer
  <1>2. /\ pc["writer"] = "write" /\ pc' = [pc EXCEPT !["writer"] = "close_w"]
        /\ UNCHANGED <<readers, writers, life, opened, buffer, shown, ends, flooded, reported>>
        /\ \/ opened /\ data' = [data EXCEPT !["p"] = @ \o Message]
           \/ ~opened /\ data' = data
    BY DEF P3!WriterWrite, P3!PutAll, P3!At, P3!Goto, P3!program
  <1>3. /\ data["p"] \in Seq(1..255) /\ data \in [{"p"} -> Seq(1..255)]
        /\ pc \in [{"reader", "writer"} -> P3!ReaderLabels \cup P3!WriterLabels]
    BY DEF P3!TypeOK, P3!Pipes, P3!Process
  <1>4. data["p"] \o Message \in Seq(1..255)
    BY <1>3, Constants3
  <1>5. P3!TypeOK'
    <2>1. data' \in [P3!Pipes -> Seq(1..255)]
      BY <1>2, <1>3, <1>4 DEF P3!Pipes
    <2>. QED
      BY <1>b, <1>2, <2>1 DEF P3!TypeOK, P3!Process, P3!WriterLabels
  <1>6. pc["reader"] # "killed" => P3!Unwritten
    BY <1>2 DEF P3!Flow, P3!Written
  <1>7. CASE opened
    <2>1. pc["reader"] # "killed" => P3!Written'
      <3>1. SUFFICES ASSUME pc["reader"] # "killed" PROVE P3!Written'
        OBVIOUS
      <3>2. /\ shown' = <<>> /\ P3!Pending' = <<>> /\ data["p"] = <<>> /\ pc'["writer"] = "close_w"
            /\ pc'["reader"] = pc["reader"]
        BY <1>2, <1>3, <1>6, <3>1 DEF P3!Unwritten, P3!Pending
      <3>3. data'["p"] = Message
        BY <1>2, <1>3, <1>7, <3>2, Constants3
      <3>4. <<>> \o <<>> \o Message = Message
        BY Constants3
      <3>. QED
        BY <1>2, <1>7, <3>2, <3>3, <3>4 DEF P3!Written
    <2>2. pc["reader"] # "print"
      BY <1>6, <1>7 DEF P3!Flow, P3!Unwritten, P3!Pending
    <2>3. P3!Chopped' /\ P3!Rest' = P3!Rest
      BY <1>2, <1>3, Kept3 DEF P3!Flow
    <2>4. P3!Flow'
      BY <1>2, <1>3, <2>1, <2>2, <2>3 DEF P3!Flow
    <2>. QED
      BY <1>1, <1>5, <2>4
  <1>8. CASE ~opened
    <2>2. P3!Chopped' /\ P3!Rest' = P3!Rest
      BY <1>2, <1>3, Kept3 DEF P3!Flow
    <2>1. P3!Flow'
      BY <1>2, <1>3, <1>6, <1>8, <2>2 DEF P3!Flow, P3!Unwritten, P3!Pending
    <2>. QED
      BY <1>1, <1>5, <2>1
  <1>. QED
    BY <1>7, <1>8

\* Every step of PipeDemo3 keeps the inductive invariant.
LEMMA Step3 == ASSUME P3!Inv, [P3!Next]_(P3!vars) PROVE P3!Inv'
  <1>. USE Constants3, Booleans3, Kept3
       DEF P3!Inv, P3!TypeOK, P3!Progress, P3!Held, P3!Pipes, P3!Process, P3!Life,
           P3!WriterLabels, P3!ReaderLabels, P3!At, P3!Goto, P3!kernel, P3!program
  <1>1. CASE P3!CreatePipe
    BY <1>1 DEF P3!CreatePipe, P3!Open,
       P3!Flow, P3!Unwritten, P3!Written, P3!Pending
  <1>2. CASE P3!ForkWriter
    BY <1>2 DEF P3!ForkWriter, P3!Fork, P3!Inherited,
       P3!Flow, P3!Unwritten, P3!Written, P3!Pending
  <1>3. CASE P3!ReaderCloseWrite
    BY <1>3 DEF P3!ReaderCloseWrite, P3!CloseWrite,
       P3!Flow, P3!Unwritten, P3!Written, P3!Pending
  <1>4. CASE P3!ReaderRead
    BY <1>4, Read3
  <1>5. CASE P3!ReaderReadFails
    BY <1>5 DEF P3!ReaderReadFails,
       P3!Flow, P3!Unwritten, P3!Written, P3!Pending
  <1>6. CASE P3!ReaderPrint
    BY <1>6, Print3
  <1>17. CASE P3!ReaderEndLine
    BY <1>17, EndLine3
  <1>18. CASE P3!ReaderSync
    BY <1>18 DEF P3!ReaderSync,
       P3!Flow, P3!Unwritten, P3!Written, P3!Pending
  <1>7. CASE P3!ReaderCloseRead
    BY <1>7 DEF P3!ReaderCloseRead, P3!CloseRead,
       P3!Flow, P3!Unwritten, P3!Written, P3!Pending
  <1>8. CASE P3!ReaderExit
    <2>. USE <1>8 DEF P3!ReaderExit, P3!Die
    <2>1. P3!TypeOK'
      OBVIOUS
    <2>2. P3!Progress' /\ P3!Held'
      OBVIOUS
    <2>3. P3!Flow'
      BY DEF P3!Flow, P3!Unwritten, P3!Written, P3!Pending
    <2>. QED
      BY <2>1, <2>2, <2>3
  <1>9. CASE P3!WriterCloseRead
    BY <1>9 DEF P3!WriterCloseRead, P3!CloseRead,
       P3!Flow, P3!Unwritten, P3!Written, P3!Pending
  <1>10. CASE P3!WriterWrite
    BY <1>10, Write3
  <1>11. CASE P3!WriterBrokenPipe
    <2>. USE <1>11 DEF P3!WriterBrokenPipe, P3!Broken, P3!Die
    <2>1. pc["reader"] = "killed"
      BY DEF P3!Flow, P3!Unwritten, P3!Written
    <2>2. P3!TypeOK'
      OBVIOUS
    <2>3. P3!Progress' /\ P3!Held'
      BY <2>1
    <2>4. P3!Flow'
      BY <2>1 DEF P3!Flow
    <2>. QED
      BY <2>2, <2>3, <2>4
  <1>12. CASE P3!WriterCloseWrite
    <2>. USE <1>12 DEF P3!WriterCloseWrite, P3!CloseWrite
    <2>1. P3!TypeOK'
      OBVIOUS
    <2>2. P3!Progress' /\ P3!Held'
      OBVIOUS
    <2>3. P3!Flow'
      BY DEF P3!Flow, P3!Unwritten, P3!Written, P3!Pending
    <2>. QED
      BY <2>1, <2>2, <2>3
  <1>13. CASE P3!WriterReport
    <2>. USE <1>13 DEF P3!WriterReport
    <2>1. P3!TypeOK'
      OBVIOUS
    <2>2. P3!Progress' /\ P3!Held'
      OBVIOUS
    <2>3. P3!Flow'
      BY DEF P3!Flow, P3!Unwritten, P3!Written, P3!Pending
    <2>. QED
      BY <2>1, <2>2, <2>3
  <1>14. CASE P3!WriterExit
    <2>. USE <1>14 DEF P3!WriterExit, P3!Die
    <2>1. P3!TypeOK'
      OBVIOUS
    <2>2. P3!Progress' /\ P3!Held'
      OBVIOUS
    <2>3. P3!Flow'
      BY DEF P3!Flow, P3!Unwritten, P3!Written, P3!Pending
    <2>. QED
      BY <2>1, <2>2, <2>3
  <1>15. ASSUME NEW q \in P3!Process, P3!Kill(q) PROVE P3!Inv'
    <2>. USE <1>15 DEF P3!Kill, P3!Die
    <2>1. P3!TypeOK'
      OBVIOUS
    <2>2. P3!Progress' /\ P3!Held'
      OBVIOUS
    <2>3. P3!Chopped'
      BY DEF P3!Flow
    <2>4. P3!Flow'
      BY <2>3 DEF P3!Flow, P3!Unwritten, P3!Written, P3!Pending
    <2>. QED
      BY <2>1, <2>2, <2>4
  <1>16. CASE UNCHANGED P3!vars
    <2>. USE <1>16 DEF P3!vars
    <2>1. P3!TypeOK'
      OBVIOUS
    <2>2. P3!Progress' /\ P3!Held'
      OBVIOUS
    <2>3. P3!Flow'
      BY DEF P3!Flow, P3!Unwritten, P3!Written, P3!Pending
    <2>. QED
      BY <2>1, <2>2, <2>3
  <1>. QED
    BY <1>1, <1>2, <1>3, <1>4, <1>5, <1>6, <1>7, <1>8, <1>9, <1>10, <1>11, <1>12, <1>13,
       <1>14, <1>15, <1>16, <1>17, <1>18
    DEF P3!Next, P3!Writer, P3!Reader, P3!Terminating

\* What is on the screen changes when a piece is printed, by a process that runs.
LEMMA Screen3 ==
  ASSUME P3!Inv, P3!Next, ~(P3!ReaderPrint /\ opened)
  PROVE  UNCHANGED shown
  BY DEF P3!Next, P3!Reader, P3!ReaderPrint, P3!CreatePipe, P3!ForkWriter,
     P3!ReaderCloseWrite, P3!ReaderRead, P3!ReaderReadFails, P3!ReaderEndLine, P3!ReaderSync,
     P3!ReaderCloseRead, P3!ReaderExit,
     P3!Writer, P3!WriterCloseRead, P3!WriterWrite, P3!WriterBrokenPipe, P3!WriterCloseWrite,
     P3!WriterReport, P3!WriterExit, P3!Kill, P3!Terminating, P3!vars, P3!program

\* When all processes have ended nothing happens any more.
LEMMA Still3 ==
  ASSUME P3!Over, P3!Next
  PROVE  UNCHANGED P3!vars
  BY DEF P3!Over, P3!Process, P3!At, P3!Next, P3!Reader, P3!CreatePipe, P3!ForkWriter,
     P3!ReaderCloseWrite, P3!ReaderRead, P3!ReaderReadFails, P3!ReaderPrint, P3!ReaderEndLine, P3!ReaderSync,
     P3!ReaderCloseRead, P3!ReaderExit,
     P3!Writer, P3!WriterCloseRead, P3!WriterWrite, P3!WriterBrokenPipe, P3!WriterCloseWrite,
     P3!WriterReport, P3!WriterExit, P3!Kill, P3!Terminating

\* A piece printed is a step of the stream.
LEMMA Show3 ==
  ASSUME P3!Inv, P3!ReaderPrint, opened, P3!Inv'
  PROVE  /\ ~P3!Over /\ ~P3!Over'
         /\ \E n \in Len(shown) + 1..Len(Message) : shown' = SubSeq(Message, 1, n)
  <1>1. /\ shown' = shown \o buffer /\ life["reader"] = "running" /\ life' = life
        /\ pc["reader"] = "print"
    BY DEF P3!ReaderPrint, P3!At, P3!kernel
  <1>2. ~P3!Over /\ ~P3!Over'
    BY <1>1 DEF P3!Over, P3!Process
  <1>3. shown \in Seq(1..255) /\ buffer \in Seq(1..255) /\ shown' \in Seq(1..255)
    BY DEF P3!Inv, P3!TypeOK
  <1>4. P3!IsPrefix(shown', Message)
    BY DEF P3!Inv, P3!Flow, P3!Chopped
  <1>5. Len(shown') \in Len(shown) + 1..Len(Message)
    <2>1. \A s, t \in Seq(1..255) : Len(s \o t) = Len(s) + Len(t)
      OBVIOUS
    <2>2. buffer # <<>>
      BY <1>1 DEF P3!Inv, P3!Flow
    <2>3. Len(shown') = Len(shown) + Len(buffer) /\ Len(buffer) \in Nat \ {0} /\ Len(shown) \in Nat
      BY <1>1, <1>3, <2>1, <2>2
    <2>4. Len(shown') <= Len(Message) /\ Len(Message) \in Nat
      BY <1>4, Constants3 DEF P3!IsPrefix
    <2>. QED
      BY <2>3, <2>4
  <1>6. shown' = SubSeq(Message, 1, Len(shown'))
    <2>1. SubSeq(shown', 1, Len(shown')) = shown'
      BY <1>3, SubSeqFull
    <2>. QED
      BY <1>4, <2>1 DEF P3!IsPrefix
  <1>. QED
    BY <1>2, <1>5, <1>6

\* PipeDemo3 starts as a stream does.
LEMMA StreamInit3 == ASSUME P3!Init PROVE P3!StreamInit
  <1>1. ~P3!Over /\ shown = <<>>
    BY DEF P3!Init, P3!Over, P3!Process
  <1>. QED
    BY <1>1 DEF P3!StreamInit, P3!Abstract!Init

\* Every step of PipeDemo3 is a step of the stream, or changes nothing in it.
LEMMA StreamStep3 == ASSUME P3!Inv, [P3!Next]_(P3!vars), P3!Inv' PROVE P3!StreamStep
  <1>. DEFINE over == P3!Over /\ P3!Unharmed
  <1>1. CASE UNCHANGED P3!vars
    <2>1. over' = over /\ shown' = shown
      BY <1>1 DEF P3!vars, P3!Over, P3!Unharmed
    <2>. QED
      BY <2>1 DEF P3!StreamStep, P3!Abstract!vars
  <1>2. CASE P3!ReaderPrint /\ opened
    <2>1. over = FALSE /\ over' = FALSE
      BY <1>2, Show3
    <2>. QED
      BY <1>2, <2>1, Show3 DEF P3!StreamStep, P3!Abstract!Next, P3!Abstract!Show
  <1>3. CASE P3!Next /\ ~(P3!ReaderPrint /\ opened) /\ ~(UNCHANGED P3!vars)
    <2>1. over = FALSE /\ shown' = shown
      BY <1>3, Still3, Screen3
    <2>2. CASE over'
      <3>1. shown' = Message
        BY <2>2 DEF P3!Inv, P3!Progress, P3!Flow, P3!Over, P3!Unharmed, P3!Process
      <3>. QED
        BY <2>1, <2>2, <3>1 DEF P3!StreamStep, P3!Abstract!Next, P3!Abstract!End
    <2>3. CASE ~over'
      <3>1. over' = over
        BY <2>1, <2>3
      <3>. QED
        BY <2>1, <3>1 DEF P3!StreamStep, P3!Abstract!vars
    <2>. QED
      BY <2>2, <2>3
  <1>. QED
    BY <1>1, <1>2, <1>3

-----------------------------------------------------------------------------
(* PipeDemo5.                                                              *)

Items == [line : P5!Lines] \cup [text : {<<>>, Message}]
DoneLine == P5!Line("done.")
WritingLine == P5!Line("Child - writing to pipe")
ExitingLine == P5!Line("Child - exiting")
ReadingLine == P5!Line("Parent - reading from pipe...")
ReadsLine == P5!Line("Parent - reads: ")
WaitingLine == P5!Line("waiting for child")

\* What is asked of the constants.
LEMMA Constants5 ==
  /\ Message \in Seq(1..255) /\ Message # <<>> /\ Len(Message) \in Nat \ {0} /\ Len(Message) <= 1022
  /\ Capacity \in Nat /\ Len(Message) <= Capacity
  <1>1. /\ Message \in Seq(1..255) /\ Message # <<>> /\ Len(Message) <= 1022
        /\ Capacity \in Nat /\ Len(Message) <= Capacity
    BY InstanceAssumption DEF P5!Assumption
  <1>2. \A s \in Seq(1..255) : s # <<>> => Len(s) \in Nat \ {0}
    BY EmptySeq
  <1>3. Len(Message) \in Nat \ {0}
    BY <1>1, <1>2
  <1>. QED
    BY <1>1, <1>3

\* The inductive invariant holds when PipeDemo5 starts.
LEMMA Init5 == ASSUME P5!Init PROVE P5!Inv
  <1>1. P5!TypeOK
    BY DEF P5!Init, P5!TypeOK, P5!Pipes, P5!Process, P5!Life, P5!ParentLabels, P5!ChildLabels
  <1>2. screen = <<>> /\ DOMAIN screen = {}
    BY DEF P5!Init
  <1>3. P5!Output
    BY <1>2 DEF P5!Init, P5!Output, P5!Said, P5!DoneIsLast, P5!HasRead, P5!Process
  <1>4. P5!Progress /\ P5!Flow
    BY DEF P5!Init, P5!Progress, P5!Flow, P5!HasRead, P5!Process, P5!Pipes
  <1>. QED
    BY <1>1, <1>3, <1>4 DEF P5!Inv

\* What is said is on the screen from then on, last.
LEMMA Appended5 ==
  ASSUME P5!TypeOK, NEW what \in Items, screen' = Append(screen, what)
  PROVE  /\ screen' \in Seq(Items) /\ Len(screen') = Len(screen) + 1
         /\ screen'[Len(screen')] = what
         /\ DOMAIN screen = 1..Len(screen) /\ Len(screen) \in Nat
         /\ DOMAIN screen' = 1..Len(screen')
         /\ \A i \in DOMAIN screen : screen'[i] = screen[i]
         /\ \A item \in Items : P5!Said(item)' <=> P5!Said(item) \/ item = what
  <1>1. screen \in Seq(Items)
    BY DEF P5!TypeOK, Items
  <1>2. /\ screen' \in Seq(Items) /\ Len(screen') = Len(screen) + 1
        /\ screen'[Len(screen')] = what /\ DOMAIN screen' = 1..Len(screen')
        /\ DOMAIN screen = 1..Len(screen) /\ Len(screen) \in Nat
        /\ \A i \in 1..Len(screen) : screen'[i] = screen[i]
    BY <1>1, AppendProperties
  <1>3. ASSUME NEW item PROVE P5!Said(item)' <=> P5!Said(item) \/ item = what
    <2>1. P5!Said(item)' <=> \E i \in 1..Len(screen) + 1 : screen'[i] = item
      BY <1>2 DEF P5!Said
    <2>2. P5!Said(item) <=> \E i \in 1..Len(screen) : screen[i] = item
      BY <1>2 DEF P5!Said
    <2>. QED
      BY <1>2, <2>1, <2>2
  <1>. QED
    BY <1>1, <1>2, <1>3

\* The lines differ from each other and from the sentence.
LEMMA Spoken5 ==
  /\ \A said \in P5!Lines : P5!Line(said) \in Items
  /\ P5!Text(Message) \in Items /\ P5!Text(<<>>) \in Items
  /\ \A line1, line2 \in P5!Lines : P5!Line(line1) = P5!Line(line2) => line1 = line2
  /\ \A said \in P5!Lines, text \in {<<>>, Message} : P5!Line(said) # P5!Text(text)
  /\ {"pipe error", "fork error", "Parent - reading from pipe...", "Parent - reads: ",
      "waiting for child", "done.", "Child - writing to pipe", "Child - exiting"} = P5!Lines
  <1>1. ASSUME NEW said, NEW text PROVE P5!Line(said) # P5!Text(text)
    <2>1. /\ P5!Line(said).line = said
          /\ DOMAIN P5!Line(said) = {"line"} /\ DOMAIN P5!Text(text) = {"text"}
      BY DEF P5!Line, P5!Text
    <2>. QED
      BY <2>1
  <1>2. \A line1, line2 \in P5!Lines : P5!Line(line1) = P5!Line(line2) => line1 = line2
    BY DEF P5!Line
  <1>. QED
    BY <1>1, <1>2 DEF Items, P5!Line, P5!Text, P5!Lines

\* Nothing more is said after "done.".
LEMMA Say5 ==
  ASSUME P5!Inv, NEW q \in P5!Process, NEW here, NEW what \in Items,
         NEW next \in IF q = "parent" THEN P5!ParentLabels ELSE P5!ChildLabels,
         P5!Say(q, here, what, next), here \notin {"exit", "failed", "killed"}
  PROVE  /\ ~P5!Said(DoneLine)
         /\ P5!TypeOK'
         /\ \A item \in {P5!Text(Message), WritingLine, ExitingLine, DoneLine} :
              P5!Said(item)' <=> P5!Said(item) \/ what = item
         /\ what # DoneLine => P5!DoneIsLast'
         /\ pc[q] = here /\ pc'[q] = next /\ life[q] = "running"
         /\ \A r \in P5!Process \ {q} : pc'[r] = pc[r]
         /\ UNCHANGED <<data, life, buffer>>
  <1>1. /\ screen' = Append(screen, what)
        /\ pc[q] = here /\ pc' = [pc EXCEPT ![q] = next] /\ life[q] = "running"
        /\ UNCHANGED <<data, readers, writers, life, buffer>>
    BY DEF P5!Say, P5!At, P5!Goto, P5!kernel
  <1>2. ~P5!Said(DoneLine)
    BY <1>1 DEF P5!Inv, P5!Output, P5!Process, DoneLine
  <1>3. /\ screen' \in Seq(Items)
        /\ \A item \in Items : P5!Said(item)' <=> P5!Said(item) \/ item = what
    BY <1>1, Appended5 DEF P5!Inv
  <1>4. P5!TypeOK'
    BY <1>1, <1>3 DEF P5!Inv, P5!TypeOK, Items, P5!Process
  <1>5. \A item \in {P5!Text(Message), WritingLine, ExitingLine, DoneLine} :
              P5!Said(item)' <=> P5!Said(item) \/ what = item
    BY <1>3, Spoken5 DEF WritingLine, ExitingLine, DoneLine
  <1>6. ASSUME what # DoneLine PROVE P5!DoneIsLast'
    <2>1. ~P5!Said(DoneLine)'
      BY <1>2, <1>5, <1>6
    <2>. QED
      BY <2>1 DEF P5!DoneIsLast, P5!Said, DoneLine
  <1>7. pc'[q] = next /\ \A r \in P5!Process \ {q} : pc'[r] = pc[r]
    BY <1>1 DEF P5!Inv, P5!TypeOK
  <1>. QED
    BY <1>1, <1>2, <1>4, <1>5, <1>6, <1>7

\* What the parent says,
LEMMA SayParent5 ==
  ASSUME P5!Inv, NEW here, NEW what \in Items, NEW next \in P5!ParentLabels,
         P5!Say("parent", here, what, next), here \notin {"exit", "failed", "killed"}
  PROVE  /\ ~P5!Said(DoneLine) /\ P5!TypeOK'
         /\ \A item \in {P5!Text(Message), WritingLine, ExitingLine, DoneLine} :
              P5!Said(item)' <=> P5!Said(item) \/ what = item
         /\ what # DoneLine => P5!DoneIsLast'
         /\ pc["parent"] = here /\ pc'["parent"] = next /\ pc'["child"] = pc["child"]
         /\ life["parent"] = "running" /\ UNCHANGED <<data, life, buffer>>
  <1>1. "parent" \in P5!Process /\ "child" \in P5!Process \ {"parent"}
    BY DEF P5!Process
  <1>2. next \in IF "parent" = "parent" THEN P5!ParentLabels ELSE P5!ChildLabels
    OBVIOUS
  <1>. QED
    BY <1>1, <1>2, Say5

\* and what the child says.
LEMMA SayChild5 ==
  ASSUME P5!Inv, NEW here, NEW what \in Items, NEW next \in P5!ChildLabels,
         P5!Say("child", here, what, next), here \notin {"exit", "failed", "killed"}
  PROVE  /\ ~P5!Said(DoneLine) /\ P5!TypeOK'
         /\ \A item \in {P5!Text(Message), WritingLine, ExitingLine, DoneLine} :
              P5!Said(item)' <=> P5!Said(item) \/ what = item
         /\ what # DoneLine => P5!DoneIsLast'
         /\ pc["child"] = here /\ pc'["child"] = next /\ pc'["parent"] = pc["parent"]
         /\ life["child"] = "running" /\ UNCHANGED <<data, life, buffer>>
  <1>1. "child" \in P5!Process /\ "parent" \in P5!Process \ {"child"}
    BY DEF P5!Process
  <1>2. next \in IF "child" = "parent" THEN P5!ParentLabels ELSE P5!ChildLabels
    OBVIOUS
  <1>3. /\ ~P5!Said(DoneLine) /\ P5!TypeOK'
        /\ what # DoneLine => P5!DoneIsLast'
        /\ pc["child"] = here /\ pc'["child"] = next /\ life["child"] = "running"
        /\ \A q \in P5!Process \ {"child"} : pc'[q] = pc[q]
        /\ UNCHANGED <<data, life, buffer>>
    BY <1>1, <1>2, Say5, ZenonT(60)
  <1>4. \A item \in {P5!Text(Message), WritingLine, ExitingLine, DoneLine} :
          P5!Said(item)' <=> P5!Said(item) \/ what = item
    BY <1>1, <1>2, Say5, SMTT(40)
  <1>. QED
    BY <1>1, <1>3, <1>4

\* Every line said keeps the invariant; "done." comes when both lines of the child are there.
LEMMA StepSay5 ==
  ASSUME P5!Inv,
         \/ P5!ParentSayReading \/ P5!ParentSayReads \/ P5!ParentPrint
         \/ P5!ParentSayWaiting \/ P5!ParentSayDone
         \/ P5!ChildSayWrite \/ P5!ChildSayExit
  PROVE  P5!Inv'
  <1>1. /\ "read" \in P5!ParentLabels /\ "print" \in P5!ParentLabels
        /\ "say_waiting" \in P5!ParentLabels
        /\ "wait" \in P5!ParentLabels /\ "exit" \in P5!ParentLabels
        /\ "write" \in P5!ChildLabels /\ "exit" \in P5!ChildLabels
    BY DEF P5!ParentLabels, P5!ChildLabels
  <1>2. /\ WritingLine \in Items /\ ExitingLine \in Items /\ DoneLine \in Items
        /\ ReadingLine \in Items /\ ReadsLine \in Items /\ WaitingLine \in Items
        /\ P5!Text(Message) \in Items
    BY Spoken5 DEF WritingLine, ExitingLine, DoneLine, ReadingLine, ReadsLine, WaitingLine
  <1>3. /\ WritingLine # DoneLine /\ ExitingLine # DoneLine /\ P5!Text(Message) # DoneLine
        /\ ReadingLine # DoneLine /\ ReadsLine # DoneLine /\ WaitingLine # DoneLine
    BY Spoken5 DEF WritingLine, ExitingLine, DoneLine, ReadingLine, ReadsLine, WaitingLine
  <1>4. CASE P5!ParentSayReading
    <2>1. P5!Say("parent", "say_reading", ReadingLine, "read")
      BY <1>4 DEF P5!ParentSayReading, ReadingLine
    <2>2. "read" \in P5!ParentLabels
      BY <1>1
    <2>3. ReadingLine \in Items
      BY <1>2
    <2>4. ~P5!Said(DoneLine) /\ P5!TypeOK'
      BY <2>1, <2>2, <2>3, SayParent5
    <2>5. \A item \in {P5!Text(Message), WritingLine, ExitingLine, DoneLine} :
            P5!Said(item)' <=> P5!Said(item) \/ ReadingLine = item
      BY <2>1, <2>2, <2>3, SayParent5
    <2>6. /\ pc["parent"] = "say_reading" /\ pc'["parent"] = "read" /\ pc'["child"] = pc["child"]
          /\ life["parent"] = "running" /\ UNCHANGED <<data, life, buffer>>
      BY <2>1, <2>2, <2>3, SayParent5
    <2>7. P5!DoneIsLast'
      <3>1. ReadingLine # DoneLine
        BY <1>3
      <3>. QED
        BY <2>1, <2>2, <2>3, <3>1, SayParent5
    <2>8. P5!Progress' /\ P5!Flow'
      BY <2>6 DEF P5!Inv, P5!Progress, P5!Flow, P5!HasRead, P5!Process
    <2>9. P5!Output'
      BY <1>3, <2>4, <2>5, <2>6, <2>7
      DEF P5!Inv, P5!Output, P5!HasRead, P5!Progress, WritingLine, ExitingLine, DoneLine
    <2>. QED
      BY <2>4, <2>7, <2>8, <2>9 DEF P5!Inv
  <1>5. CASE P5!ParentPrint
    <2>1. P5!Say("parent", "print", P5!Text(Message), "say_waiting")
      <3>1. buffer = Message
        BY <1>5 DEF P5!ParentPrint, P5!Say, P5!At, P5!Inv, P5!Flow, P5!HasRead
      <3>. QED
        BY <1>5, <3>1 DEF P5!ParentPrint
    <2>2. "say_waiting" \in P5!ParentLabels
      BY <1>1
    <2>3. P5!Text(Message) \in Items
      BY <1>2
    <2>4. ~P5!Said(DoneLine) /\ P5!TypeOK'
      BY <2>1, <2>2, <2>3, SayParent5
    <2>5. \A item \in {P5!Text(Message), WritingLine, ExitingLine, DoneLine} :
            P5!Said(item)' <=> P5!Said(item) \/ P5!Text(Message) = item
      BY <2>1, <2>2, <2>3, SayParent5
    <2>6. /\ pc["parent"] = "print" /\ pc'["parent"] = "say_waiting" /\ pc'["child"] = pc["child"]
          /\ life["parent"] = "running" /\ UNCHANGED <<data, life, buffer>>
      BY <2>1, <2>2, <2>3, SayParent5
    <2>7. P5!DoneIsLast'
      <3>1. P5!Text(Message) # DoneLine
        BY <1>3
      <3>. QED
        BY <2>1, <2>2, <2>3, <3>1, SayParent5
    <2>8. P5!Progress' /\ P5!Flow'
      BY <2>6 DEF P5!Inv, P5!Progress, P5!Flow, P5!HasRead, P5!Process
    <2>9. P5!Output'
      BY <1>3, <2>4, <2>5, <2>6, <2>7
      DEF P5!Inv, P5!Output, P5!HasRead, P5!Progress, WritingLine, ExitingLine, DoneLine
    <2>. QED
      BY <2>4, <2>7, <2>8, <2>9 DEF P5!Inv
  <1>6. CASE P5!ParentSayWaiting
    <2>1. P5!Say("parent", "say_waiting", WaitingLine, "wait")
      BY <1>6 DEF P5!ParentSayWaiting, WaitingLine
    <2>2. "wait" \in P5!ParentLabels
      BY <1>1
    <2>3. WaitingLine \in Items
      BY <1>2
    <2>4. ~P5!Said(DoneLine) /\ P5!TypeOK'
      BY <2>1, <2>2, <2>3, SayParent5
    <2>5. \A item \in {P5!Text(Message), WritingLine, ExitingLine, DoneLine} :
            P5!Said(item)' <=> P5!Said(item) \/ WaitingLine = item
      BY <2>1, <2>2, <2>3, SayParent5
    <2>6. /\ pc["parent"] = "say_waiting" /\ pc'["parent"] = "wait" /\ pc'["child"] = pc["child"]
          /\ life["parent"] = "running" /\ UNCHANGED <<data, life, buffer>>
      BY <2>1, <2>2, <2>3, SayParent5
    <2>7. P5!DoneIsLast'
      <3>1. WaitingLine # DoneLine
        BY <1>3
      <3>. QED
        BY <2>1, <2>2, <2>3, <3>1, SayParent5
    <2>8. P5!Progress' /\ P5!Flow'
      BY <2>6 DEF P5!Inv, P5!Progress, P5!Flow, P5!HasRead, P5!Process
    <2>9. P5!Output'
      BY <1>3, <2>4, <2>5, <2>6, <2>7
      DEF P5!Inv, P5!Output, P5!HasRead, P5!Progress, WritingLine, ExitingLine, DoneLine
    <2>. QED
      BY <2>4, <2>7, <2>8, <2>9 DEF P5!Inv
  <1>7. CASE P5!ParentSayDone
    <2>1. P5!Say("parent", "say_done", DoneLine, "exit")
      BY <1>7 DEF P5!ParentSayDone, DoneLine
    <2>2. "exit" \in P5!ParentLabels
      BY <1>1
    <2>3. DoneLine \in Items
      BY <1>2
    <2>4. ~P5!Said(DoneLine) /\ P5!TypeOK'
      BY <2>1, <2>2, <2>3, SayParent5
    <2>5. \A item \in {P5!Text(Message), WritingLine, ExitingLine, DoneLine} :
            P5!Said(item)' <=> P5!Said(item) \/ DoneLine = item
      BY <2>1, <2>2, <2>3, SayParent5
    <2>6. /\ pc["parent"] = "say_done" /\ pc'["parent"] = "exit" /\ pc'["child"] = pc["child"]
          /\ life["parent"] = "running" /\ UNCHANGED <<data, life, buffer>>
      BY <2>1, <2>2, <2>3, SayParent5
    <2>7. P5!DoneIsLast'
      <3>1. /\ screen' = Append(screen, DoneLine) /\ P5!TypeOK
        BY <2>1 DEF P5!Say, P5!Inv
      <3>2. /\ Len(screen') = Len(screen) + 1 /\ DOMAIN screen = 1..Len(screen)
            /\ DOMAIN screen' = 1..Len(screen') /\ Len(screen) \in Nat
            /\ \A i \in DOMAIN screen : screen'[i] = screen[i]
        BY <2>3, <3>1, Appended5
      <3>3. ASSUME NEW i \in DOMAIN screen', screen'[i] = DoneLine PROVE i = Len(screen')
        BY <2>4, <3>2, <3>3 DEF P5!Said
      <3>4. /\ P5!Said(P5!Text(Message))'
            /\ pc'["child"] # "killed" => P5!Said(WritingLine)' /\ P5!Said(ExitingLine)'
        BY <2>5, <2>6 DEF P5!Inv, P5!Progress, P5!Output, P5!HasRead, WritingLine, ExitingLine
      <3>. QED
        BY <3>3, <3>4 DEF P5!DoneIsLast, DoneLine, WritingLine, ExitingLine
    <2>8. P5!Progress' /\ P5!Flow'
      BY <2>6 DEF P5!Inv, P5!Progress, P5!Flow, P5!HasRead, P5!Process
    <2>9. P5!Output'
      BY <1>3, <2>4, <2>5, <2>6, <2>7
      DEF P5!Inv, P5!Output, P5!HasRead, P5!Progress, WritingLine, ExitingLine, DoneLine
    <2>. QED
      BY <2>4, <2>7, <2>8, <2>9 DEF P5!Inv
  <1>8. CASE P5!ChildSayWrite
    <2>1. P5!Say("child", "say_write", WritingLine, "write")
      BY <1>8 DEF P5!ChildSayWrite, WritingLine
    <2>2. "write" \in P5!ChildLabels
      BY <1>1
    <2>3. WritingLine \in Items
      BY <1>2
    <2>4. ~P5!Said(DoneLine) /\ P5!TypeOK'
      BY <2>1, <2>2, <2>3, SayChild5
    <2>5. \A item \in {P5!Text(Message), WritingLine, ExitingLine, DoneLine} :
            P5!Said(item)' <=> P5!Said(item) \/ WritingLine = item
      BY <2>1, <2>2, <2>3, SayChild5
    <2>6. /\ pc["child"] = "say_write" /\ pc'["child"] = "write" /\ pc'["parent"] = pc["parent"]
          /\ life["child"] = "running" /\ UNCHANGED <<data, life, buffer>>
      BY <2>1, <2>2, <2>3, SayChild5
    <2>7. P5!DoneIsLast'
      <3>1. WritingLine # DoneLine
        BY <1>3
      <3>. QED
        BY <2>1, <2>2, <2>3, <3>1, SayChild5
    <2>8. P5!Progress' /\ P5!Flow'
      BY <2>6 DEF P5!Inv, P5!Progress, P5!Flow, P5!HasRead, P5!Process
    <2>9. P5!Output'
      BY <1>3, <2>4, <2>5, <2>6, <2>7
      DEF P5!Inv, P5!Output, P5!HasRead, P5!Progress, WritingLine, ExitingLine, DoneLine
    <2>. QED
      BY <2>4, <2>7, <2>8, <2>9 DEF P5!Inv
  <1>9. CASE P5!ChildSayExit
    <2>1. P5!Say("child", "say_exit", ExitingLine, "exit")
      BY <1>9 DEF P5!ChildSayExit, ExitingLine
    <2>2. "exit" \in P5!ChildLabels
      BY <1>1
    <2>3. ExitingLine \in Items
      BY <1>2
    <2>4. ~P5!Said(DoneLine) /\ P5!TypeOK'
      BY <2>1, <2>2, <2>3, SayChild5
    <2>5. \A item \in {P5!Text(Message), WritingLine, ExitingLine, DoneLine} :
            P5!Said(item)' <=> P5!Said(item) \/ ExitingLine = item
      BY <2>1, <2>2, <2>3, SayChild5
    <2>6. /\ pc["child"] = "say_exit" /\ pc'["child"] = "exit" /\ pc'["parent"] = pc["parent"]
          /\ life["child"] = "running" /\ UNCHANGED <<data, life, buffer>>
      BY <2>1, <2>2, <2>3, SayChild5
    <2>7. P5!DoneIsLast'
      <3>1. ExitingLine # DoneLine
        BY <1>3
      <3>. QED
        BY <2>1, <2>2, <2>3, <3>1, SayChild5
    <2>8. P5!Progress' /\ P5!Flow'
      BY <2>6 DEF P5!Inv, P5!Progress, P5!Flow, P5!HasRead, P5!Process
    <2>9. P5!Output'
      BY <1>3, <2>4, <2>5, <2>6, <2>7
      DEF P5!Inv, P5!Output, P5!HasRead, P5!Progress, WritingLine, ExitingLine, DoneLine
    <2>. QED
      BY <2>4, <2>7, <2>8, <2>9 DEF P5!Inv
  <1>10. CASE P5!ParentSayReads
    <2>1. P5!Say("parent", "say_reads", ReadsLine, "print")
      BY <1>10 DEF P5!ParentSayReads, ReadsLine
    <2>2. "print" \in P5!ParentLabels
      BY <1>1
    <2>3. ReadsLine \in Items
      BY <1>2
    <2>4. ~P5!Said(DoneLine) /\ P5!TypeOK'
      BY <2>1, <2>2, <2>3, SayParent5
    <2>5. \A item \in {P5!Text(Message), WritingLine, ExitingLine, DoneLine} :
            P5!Said(item)' <=> P5!Said(item) \/ ReadsLine = item
      BY <2>1, <2>2, <2>3, SayParent5
    <2>6. /\ pc["parent"] = "say_reads" /\ pc'["parent"] = "print" /\ pc'["child"] = pc["child"]
          /\ life["parent"] = "running" /\ UNCHANGED <<data, life, buffer>>
      BY <2>1, <2>2, <2>3, SayParent5
    <2>7. P5!DoneIsLast'
      <3>1. ReadsLine # DoneLine
        BY <1>3
      <3>. QED
        BY <2>1, <2>2, <2>3, <3>1, SayParent5
    <2>8. P5!Progress' /\ P5!Flow'
      BY <2>6 DEF P5!Inv, P5!Progress, P5!Flow, P5!HasRead, P5!Process
    <2>9. P5!Output'
      BY <1>3, <2>4, <2>5, <2>6, <2>7
      DEF P5!Inv, P5!Output, P5!HasRead, P5!Progress, WritingLine, ExitingLine, DoneLine
    <2>. QED
      BY <2>4, <2>7, <2>8, <2>9 DEF P5!Inv
  <1>. QED
    BY <1>4, <1>5, <1>6, <1>7, <1>8, <1>9, <1>10

\* The bytes the child writes and the parent reads at once.
LEMMA Bytes5 ==
  /\ <<>> \o Message = Message /\ SubSeq(Message, 1, Len(Message)) = Message
  /\ SubSeq(Message, Len(Message) + 1, Len(Message)) = <<>>
  <1>1. Message \in Seq(1..255) /\ Len(Message) \in Nat
    BY Constants5
  <1>2. <<>> \o Message = Message
    BY <1>1, ConcatEmptySeq
  <1>3. SubSeq(Message, 1, Len(Message)) = Message
    BY <1>1, SubSeqFull
  <1>4. SubSeq(Message, Len(Message) + 1, Len(Message)) = <<>>
    <2>1. Len(Message) + 1 \in Int /\ Len(Message) \in Int /\ Len(Message) < Len(Message) + 1
      BY <1>1
    <2>. QED
      BY <2>1, SubSeqEmpty, Zenon
  <1>. QED
    BY <1>2, <1>3, <1>4

\* A program that fails says nothing after that.
LEMMA Fail5 ==
  ASSUME P5!Inv, NEW said \in {"pipe error", "fork error"}, P5!Fail(said),
         life["parent"] = "running", pc["parent"] \in {"pipe", "fork"}
  PROVE  P5!Inv'
  <1>1. /\ screen' = Append(screen, P5!Line(said)) /\ P5!Line(said) \in Items
        /\ P5!Line(said) \notin {DoneLine, P5!Text(Message), WritingLine, ExitingLine}
    BY Spoken5 DEF P5!Fail, P5!Lines, DoneLine, WritingLine, ExitingLine
  <1>2. screen' \in Seq(Items)
    BY <1>1, Appended5 DEF P5!Inv
  <1>3. DoneLine \in Items
    BY Spoken5 DEF DoneLine
  <1>4. ~P5!Said(DoneLine)'
    <2>1. ~P5!Said(DoneLine)
      BY DEF P5!Inv, P5!Output, DoneLine
    <2>2. P5!Said(DoneLine)' <=> P5!Said(DoneLine) \/ DoneLine = P5!Line(said)
      BY <1>1, <1>3, Appended5 DEF P5!Inv
    <2>. QED
      BY <1>1, <2>1, <2>2
  <1>5. /\ life["child"] = "unborn" /\ pc["child"] = "say_write"
        /\ pc' = [pc EXCEPT !["parent"] = "failed"] /\ UNCHANGED <<data, buffer>>
        /\ P5!Die("parent", "parent")
    BY DEF P5!Inv, P5!Progress, P5!Fail, P5!Goto
  <1>6. P5!TypeOK'
    BY <1>2, <1>5 DEF P5!Inv, P5!TypeOK, P5!Die, P5!Process, P5!Pipes, P5!Life,
       P5!ParentLabels, Items
  <1>7. /\ pc'["parent"] = "failed" /\ pc'["child"] = "say_write"
        /\ life'["parent"] = "gone" /\ life'["child"] = "unborn"
    BY <1>5 DEF P5!Inv, P5!TypeOK, P5!Die, P5!Process
  <1>8. P5!Progress' /\ P5!Flow'
    BY <1>5, <1>7 DEF P5!Inv, P5!Progress, P5!Flow, P5!HasRead, P5!Process
  <1>9. P5!DoneIsLast'
    BY <1>4 DEF P5!DoneIsLast, P5!Said, DoneLine
  <1>10. P5!Output'
    BY <1>4, <1>7, <1>9 DEF P5!Output, P5!HasRead, DoneLine
  <1>. QED
    BY <1>6, <1>8, <1>9, <1>10 DEF P5!Inv

\* Every step of PipeDemo5 keeps the inductive invariant.
LEMMA Step5 == ASSUME P5!Inv, [P5!Next]_(P5!vars) PROVE P5!Inv'
  <1>. USE DEF P5!Inv, P5!TypeOK, P5!Progress, P5!Flow, P5!HasRead, P5!Pipes, P5!Process, P5!Life,
           P5!ParentLabels, P5!ChildLabels, P5!At, P5!Goto, P5!kernel
  <1>1. CASE P5!CreatePipe
    BY <1>1 DEF P5!CreatePipe, P5!Open, P5!Output, P5!Said, P5!DoneIsLast
  <1>2. CASE P5!CreatePipeFails \/ P5!ForkFails
    BY <1>2, Fail5 DEF P5!CreatePipeFails, P5!ForkFails
  <1>3. CASE P5!ForkChild
    <2>. USE <1>3 DEF P5!ForkChild, P5!Fork, P5!Inherited
    <2>1. P5!TypeOK' /\ P5!Progress' /\ P5!Flow'
      OBVIOUS
    <2>2. P5!Output'
      BY DEF P5!Output, P5!Said, P5!DoneIsLast
    <2>. QED
      BY <2>1, <2>2
  <1>4. CASE P5!ParentRead
    <2>1. /\ data["p"] = Message /\ life["parent"] = "running" /\ pc["parent"] = "read"
      BY <1>4 DEF P5!ParentRead, P5!CanRead
    <2>2. P5!Got("p", 1024) = Message
      BY <2>1, Bytes5, Constants5 DEF P5!Got
    <2>3. data' = [data EXCEPT !["p"] = <<>>] /\ buffer' = Message
      <3>. DEFINE rest == SubSeq(data["p"], Len(P5!Got("p", 1024)) + 1, Len(data["p"]))
      <3>1. data' = [data EXCEPT !["p"] = rest] /\ buffer' = P5!Got("p", 1024)
        BY <1>4 DEF P5!ParentRead, P5!TakeUpTo
      <3>2. rest = <<>>
        BY <2>1, <2>2, Bytes5
      <3>. HIDE DEF rest
      <3>3. data' = [data EXCEPT !["p"] = <<>>]
        BY ONLY <3>1, <3>2
      <3>4. buffer' = Message
        BY ONLY <2>2, <3>1
      <3>. QED
        BY ONLY <3>3, <3>4
    <2>4. /\ pc' = [pc EXCEPT !["parent"] = "say_reads"]
          /\ UNCHANGED <<readers, writers, life, screen>>
      BY <1>4 DEF P5!ParentRead
    <2>5. P5!TypeOK'
      BY <2>3, <2>4
    <2>6. life["child"] # "unborn" /\ pc["child"] \notin {"say_write", "write"}
      BY <2>1, Constants5
    <2>7. P5!Progress' /\ P5!Flow'
      BY <2>1, <2>3, <2>4, <2>6
    <2>8. P5!Output'
      BY <2>1, <2>4 DEF P5!Output, P5!Said, P5!DoneIsLast
    <2>. QED
      BY <2>5, <2>7, <2>8
  <1>5. CASE P5!ParentWait
    <2>. USE <1>5 DEF P5!ParentWait, P5!Reap
    <2>1. P5!TypeOK' /\ P5!Progress' /\ P5!Flow'
      OBVIOUS
    <2>2. P5!Output'
      BY DEF P5!Output, P5!Said, P5!DoneIsLast
    <2>. QED
      BY <2>1, <2>2
  <1>6. CASE P5!ParentExit
    <2>. USE <1>6 DEF P5!ParentExit, P5!Die
    <2>1. P5!TypeOK' /\ P5!Progress' /\ P5!Flow'
      OBVIOUS
    <2>2. P5!Output'
      BY DEF P5!Output, P5!Said, P5!DoneIsLast
    <2>. QED
      BY <2>1, <2>2
  <1>7. CASE P5!ChildWrite
    <2>1. /\ data["p"] = <<>> /\ life["child"] = "running" /\ pc["child"] = "write"
          /\ pc["parent"] \notin P5!HasRead
      BY <1>7 DEF P5!ChildWrite
    <2>2. data' = [data EXCEPT !["p"] = Message]
      BY <1>7, <2>1, Bytes5 DEF P5!ChildWrite, P5!PutAll
    <2>3. /\ pc' = [pc EXCEPT !["child"] = "say_exit"]
          /\ UNCHANGED <<readers, writers, life, buffer, screen>>
      BY <1>7 DEF P5!ChildWrite
    <2>4. P5!TypeOK'
      BY <2>2, <2>3
    <2>5. P5!Progress' /\ P5!Flow'
      BY <2>1, <2>2, <2>3
    <2>6. P5!Output'
      BY <2>1, <2>3 DEF P5!Output, P5!Said, P5!DoneIsLast
    <2>. QED
      BY <2>4, <2>5, <2>6
  <1>8. CASE P5!ChildExit
    <2>. USE <1>8 DEF P5!ChildExit, P5!Die
    <2>1. P5!TypeOK' /\ P5!Progress' /\ P5!Flow'
      OBVIOUS
    <2>2. P5!Output'
      BY DEF P5!Output, P5!Said, P5!DoneIsLast
    <2>. QED
      BY <2>1, <2>2
  <1>9. ASSUME NEW q \in P5!Process, P5!Kill(q) PROVE P5!Inv'
    <2>. USE <1>9 DEF P5!Kill, P5!Die
    <2>1. P5!TypeOK'
      OBVIOUS
    <2>2. P5!Progress' /\ P5!Flow'
      OBVIOUS
    <2>3. P5!Output'
      BY DEF P5!Output, P5!Said, P5!DoneIsLast
    <2>. QED
      BY <2>1, <2>2, <2>3
  <1>10. CASE UNCHANGED P5!vars
    <2>. USE <1>10 DEF P5!vars
    <2>1. P5!TypeOK' /\ P5!Progress' /\ P5!Flow'
      OBVIOUS
    <2>2. P5!Output'
      BY DEF P5!Output, P5!Said, P5!DoneIsLast
    <2>. QED
      BY <2>1, <2>2
  <1>. QED
    BY <1>1, <1>2, <1>3, <1>4, <1>5, <1>6, <1>7, <1>8, <1>9, <1>10, StepSay5
    DEF P5!Next, P5!Parent, P5!Child, P5!Terminating, P5!Kill

\* PipeDemo5 starts as a stream does.
LEMMA StreamInit5 == ASSUME P5!Init PROVE P5!StreamInit
  <1>1. screen = <<>> /\ DOMAIN screen = {}
    BY DEF P5!Init
  <1>2. ~P5!Said(P5!Text(Message)) /\ ~P5!Said(P5!Line("done."))
    BY <1>1 DEF P5!Said
  <1>. QED
    BY <1>2 DEF P5!StreamInit, P5!Abstract!Init

\* When both processes have ended nothing happens any more.
LEMMA Still5 == ASSUME P5!Over, P5!Next PROVE UNCHANGED P5!vars
  <1>1. /\ \A q \in P5!Process : life[q] # "running"
        /\ \A q \in P5!Process : \A label : ~P5!At(q, label)
    BY DEF P5!Over, P5!At
  <1>2. ~P5!Parent
    <2>1. \A label : ~P5!At("parent", label)
      BY <1>1 DEF P5!Process
    <2>2. ~(P5!CreatePipe \/ P5!CreatePipeFails \/ P5!ForkChild \/ P5!ForkFails)
      BY <2>1 DEF P5!CreatePipe, P5!CreatePipeFails, P5!ForkChild, P5!ForkFails
    <2>3. ~(\/ P5!ParentSayReading \/ P5!ParentSayReads \/ P5!ParentPrint
           \/ P5!ParentSayWaiting \/ P5!ParentSayDone)
      BY <2>1 DEF P5!ParentSayReading, P5!ParentSayReads, P5!ParentPrint, P5!ParentSayWaiting,
         P5!ParentSayDone, P5!Say
    <2>4. ~(P5!ParentRead \/ P5!ParentWait \/ P5!ParentExit)
      BY <2>1 DEF P5!ParentRead, P5!ParentWait, P5!ParentExit
    <2>. QED
      BY <2>2, <2>3, <2>4 DEF P5!Parent
  <1>3. ~P5!Child
    <2>1. \A label : ~P5!At("child", label)
      BY <1>1 DEF P5!Process
    <2>. QED
      BY <2>1 DEF P5!Child, P5!ChildSayWrite, P5!ChildWrite, P5!ChildSayExit, P5!ChildExit,
         P5!Say
  <1>4. \A q \in {"parent", "child"} : ~P5!Kill(q)
    BY <1>1 DEF P5!Kill, P5!Process
  <1>. QED
    BY <1>2, <1>3, <1>4 DEF P5!Next, P5!Terminating

\* The sentence is said by the parent's print, and "done." after it.
LEMMA Sentence5 ==
  ASSUME P5!Inv, P5!Next
  PROVE  P5!Said(P5!Text(Message))' <=> P5!Said(P5!Text(Message)) \/ P5!ParentPrint
  <1>1. P5!Text(Message) \in Items
    BY Spoken5
  <1>2. CASE UNCHANGED screen /\ ~P5!ParentPrint
    BY <1>2 DEF P5!Said
  <1>3. CASE P5!ParentPrint
    <2>1. screen' = Append(screen, P5!Text(Message))
      BY <1>3 DEF P5!ParentPrint, P5!Say, P5!At, P5!Inv, P5!Flow, P5!HasRead
    <2>. QED
      BY <1>1, <1>3, <2>1, Appended5 DEF P5!Inv
  <1>4. ASSUME NEW said \in P5!Lines, screen' = Append(screen, P5!Line(said))
        PROVE  P5!Said(P5!Text(Message))' <=> P5!Said(P5!Text(Message))
    <2>1. P5!Line(said) \in Items /\ P5!Text(Message) # P5!Line(said)
      BY Spoken5
    <2>2. P5!Said(P5!Text(Message))' <=>
            P5!Said(P5!Text(Message)) \/ P5!Text(Message) = P5!Line(said)
      BY <1>1, <1>4, <2>1, Appended5 DEF P5!Inv
    <2>. QED
      BY <2>1, <2>2
  <1>5. \/ UNCHANGED screen \/ P5!ParentPrint
        \/ \E said \in P5!Lines : screen' = Append(screen, P5!Line(said))
    <2>1. ASSUME P5!Parent
          PROVE  \/ UNCHANGED screen \/ P5!ParentPrint
                 \/ \E said \in P5!Lines : screen' = Append(screen, P5!Line(said))
      <3>1. CASE P5!CreatePipeFails \/ P5!ForkFails
        BY <3>1 DEF P5!CreatePipeFails, P5!ForkFails, P5!Fail, P5!Lines
      <3>2. CASE \/ P5!ParentSayReading \/ P5!ParentSayReads
                 \/ P5!ParentSayWaiting \/ P5!ParentSayDone
        BY <3>2 DEF P5!ParentSayReading, P5!ParentSayReads, P5!ParentSayWaiting, P5!ParentSayDone,
           P5!Say, P5!Lines
      <3>3. ASSUME P5!CreatePipe \/ P5!ForkChild \/ P5!ParentRead \/ P5!ParentWait
                     \/ P5!ParentExit
            PROVE  UNCHANGED screen
        BY <3>3 DEF P5!CreatePipe, P5!ForkChild, P5!ParentRead, P5!ParentWait, P5!ParentExit
      <3>. QED
        BY <2>1, <3>1, <3>2, <3>3 DEF P5!Parent
    <2>2. ASSUME P5!Child
          PROVE  \/ UNCHANGED screen \/ P5!ParentPrint
                 \/ \E said \in P5!Lines : screen' = Append(screen, P5!Line(said))
      BY <2>2 DEF P5!Lines, P5!Say, P5!Child, P5!ChildSayWrite, P5!ChildWrite,
         P5!ChildSayExit, P5!ChildExit
    <2>3. ASSUME NEW q, P5!Kill(q) PROVE UNCHANGED screen
      BY <2>3 DEF P5!Kill
    <2>. QED
      BY <2>1, <2>2, <2>3 DEF P5!Next, P5!Terminating, P5!vars
  <1>. QED
    BY <1>2, <1>3, <1>4, <1>5

\* Every step of PipeDemo5 is a step of the stream, or changes nothing in it.
LEMMA StreamStep5 == ASSUME P5!Inv, [P5!Next]_(P5!vars), P5!Inv' PROVE P5!StreamStep
  <1>. DEFINE over == P5!Over /\ P5!Said(P5!Line("done."))
  <1>1. CASE UNCHANGED P5!vars
    <2>1. (P5!Over' = P5!Over) /\ (\A item : P5!Said(item)' = P5!Said(item))
      BY <1>1 DEF P5!vars, P5!Over, P5!Said
    <2>. QED
      BY <2>1 DEF P5!StreamStep, P5!Abstract!vars
  <1>2. CASE P5!ParentPrint
    <2>1. ~P5!Over /\ ~P5!Over'
      BY <1>2 DEF P5!ParentPrint, P5!Say, P5!At, P5!Over, P5!Process, P5!kernel
    <2>2. P5!Said(P5!Text(Message))'
      BY <1>2, Sentence5 DEF P5!Next, P5!Parent
    <2>3. CASE P5!Said(P5!Text(Message))
      BY <2>1, <2>2, <2>3 DEF P5!StreamStep, P5!Abstract!vars
    <2>4. CASE ~P5!Said(P5!Text(Message))
      <3>1. /\ Len(Message) \in Len(<<>>) + 1..Len(Message)
            /\ SubSeq(Message, 1, Len(Message)) = Message
        BY Constants5, Bytes5
      <3>. QED
        BY <2>1, <2>2, <2>4, <3>1 DEF P5!StreamStep, P5!Abstract!Next, P5!Abstract!Show
    <2>. QED
      BY <2>3, <2>4
  <1>3. CASE P5!Next /\ ~P5!ParentPrint /\ ~(UNCHANGED P5!vars)
    <2>1. ~P5!Over
      BY <1>3, Still5
    <2>2. P5!Said(P5!Text(Message))' <=> P5!Said(P5!Text(Message))
      BY <1>3, Sentence5
    <2>3. CASE over'
      <3>1. P5!Said(P5!Text(Message))'
        BY <2>3 DEF P5!Inv, P5!Output, P5!DoneIsLast, P5!Said
      <3>. QED
        BY <2>1, <2>2, <2>3, <3>1 DEF P5!StreamStep, P5!Abstract!Next, P5!Abstract!End
    <2>4. CASE ~over'
      BY <2>1, <2>2, <2>4 DEF P5!StreamStep, P5!Abstract!vars
    <2>. QED
      BY <2>3, <2>4
  <1>. QED
    BY <1>1, <1>2, <1>3

-----------------------------------------------------------------------------
(* The program that is run.                                                *)

\* What the inductive invariants say of what the runs check.
LEMMA Promises ==
  /\ P2!Inv => P2!TypeOK /\ P2!PrefixShown /\ P2!NeverBroken
  /\ P3!Inv => P3!TypeOK /\ P3!Chopped /\ P3!OnItsWay
  /\ P5!Inv => P5!TypeOK /\ P5!DoneIsLast
  /\ F!Inv => F!TypeOK /\ F!AllDoneIsTrue
  /\ X!Inv => X!TypeOK
  <1>1. P2!Inv => P2!NeverBroken
    BY DEF P2!Inv, P2!Held, P2!NeverBroken, P2!Broken, P2!At
  <1>2. P3!Inv => P3!OnItsWay
    BY DEF P3!Inv, P3!Flow, P3!OnItsWay, P3!Unwritten, P3!Written
  <1>. QED
    BY <1>1, <1>2 DEF P2!Inv, P2!Flow, P3!Inv, P3!Flow, P5!Inv, P5!Output, F!Inv, X!Inv

\* The inductive invariant of the program that is run holds when it starts,
LEMMA InitInv == Init => Inv
  BY Init2, Init3, Init5, InitF, InitX DEF Init, Inv

\* and is kept by every step.
LEMMA StepInv == Inv /\ [Next]_vars => Inv'
  <1>. SUFFICES ASSUME Inv, [Next]_vars PROVE Inv'
    OBVIOUS
  <1>1. CASE Run2(P2!Next)
    BY <1>1, Step2 DEF Run2, Inv
  <1>2. CASE Run3(P3!Next)
    BY <1>2, Step3 DEF Run3, Inv
  <1>3. CASE Run5(P5!Next)
    BY <1>3, Step5 DEF Run5, Inv
  <1>4. CASE RunF(F!Next)
    BY <1>4, StepF DEF RunF, Inv
  <1>5. CASE RunX(X!Next)
    BY <1>5, StepX DEF RunX, Inv
  <1>6. CASE UNCHANGED vars
    <2>1. /\ UNCHANGED demo /\ UNCHANGED P2!vars /\ UNCHANGED P3!vars /\ UNCHANGED P5!vars
          /\ UNCHANGED F!vars /\ UNCHANGED X!vars
      BY <1>6 DEF vars, pipes, pipe2, pipe3, forks, fifos, P2!vars, P2!program,
         P3!vars, P3!program, P5!vars, F!vars, X!vars
    <2>. QED
      BY <2>1, Step2, Step3, Step5, StepF, StepX DEF Inv
  <1>. QED
    BY <1>1, <1>2, <1>3, <1>4, <1>5, <1>6 DEF Next

\* The inductive invariant of the program that is run always holds.
THEOREM Invariant == Spec => []Inv
  BY InitInv, StepInv, PTL DEF Spec

\* The variables of the program that is run keep their types, whatever fails and
\* whoever is killed: a pipe never holds more than its capacity, and each file of
\* ExtXTerm is open in the programs between their open and their close, no other.
THEOREM TypeCorrect == Spec => []TypeOK
  <1>1. Inv => TypeOK
    BY Promises DEF Inv, TypeOK
  <1>. QED
    BY <1>1, Invariant, PTL

\* PipeDemo2 prints the first messages, in order, over the zeroes of its buffer;
\* nothing but zeroes only when the pipe was refused or the writer killed.
THEOREM PrefixShownCorrect == Spec => []PrefixShown
  <1>1. Inv => PrefixShown
    BY Promises DEF Inv, PrefixShown
  <1>. QED
    BY <1>1, Invariant, PTL

\* PipeDemo2's writer, which leaves its own read end open, never gets a SIGPIPE.
THEOREM NeverBrokenCorrect == Spec => []NeverBroken
  <1>1. Inv => NeverBroken
    BY Promises DEF Inv, NeverBroken
  <1>. QED
    BY <1>1, Invariant, PTL

\* PipeDemo3 chops every message into pieces of every length asked for: what is
\* shown is its beginning, only the piece that completes it is shorter, and a line
\* lacks its end only where the reader is about to write it, or was killed.  What
\* "Child finished" comes too early for is in the pipe or in the reader.
THEOREM ChoppedCorrect == Spec => []Chopped
  <1>1. Inv => Chopped
    BY Promises DEF Inv, Chopped
  <1>. QED
    BY <1>1, Invariant, PTL

\* PipeDemo5 says "done." last, after the sentence and what the child says.
THEOREM DoneIsLastCorrect == Spec => []DoneIsLast
  <1>1. Inv => DoneIsLast
    BY Promises DEF Inv, DoneIsLast
  <1>. QED
    BY <1>1, Invariant, PTL

\* ForkDemo says that all is done when both children are reaped and whoever was
\* not killed has written "done", however often they write their digits.
THEOREM AllDoneCorrect == Spec => []AllDoneIsTrue
  <1>1. Inv => AllDoneIsTrue
    BY Promises DEF Inv, AllDoneIsTrue
  <1>. QED
    BY <1>1, Invariant, PTL

\* ExtXTerm: however many times the program is run, each run writes into its own
\* terminal and no other, as long as none is killed.
THEOREM OwnTerminalCorrect == Spec => []OwnTerminalUnlessKilled
  <1>1. Inv => OwnTerminalUnlessKilled
    BY PromisesX DEF Inv, OwnTerminalUnlessKilled
  <1>. QED
    BY <1>1, Invariant, PTL

\* ExtXTerm: then, too, a run that could fork does not fail, and the FIFO's name
\* is free when it has come to its message.
THEOREM NothingLeftCorrect == Spec => []NothingLeft
  <1>1. Inv => NothingLeft
    BY PromisesX DEF Inv, NothingLeft
  <1>. QED
    BY <1>1, Invariant, PTL

\* PipeDemo3 and PipeDemo5 implement Stream: every step either leaves what is
\* shown alone, shows more of the message, or ends the program when all is shown.
THEOREM StreamImplemented == Spec => ImplementsStream
  <1>1. Init => /\ demo = "pipedemo3" => P3!StreamInit
                /\ demo = "pipedemo5" => P5!StreamInit
    BY StreamInit3, StreamInit5 DEF Init
  <1>2. Inv /\ Inv' /\ [Next]_vars =>
          [/\ demo = "pipedemo3" => P3!StreamStep
           /\ demo = "pipedemo5" => P5!StreamStep]_vars
    <2>. SUFFICES ASSUME Inv, Inv', Next
                  PROVE  /\ demo = "pipedemo3" => P3!StreamStep
                         /\ demo = "pipedemo5" => P5!StreamStep
      OBVIOUS
    <2>1. ASSUME demo = "pipedemo3" PROVE P3!StreamStep
      <3>1. P3!Next /\ demo' = demo
        BY <2>1 DEF Next, Run2, Run3, Run5, RunF, RunX
      <3>2. P3!Inv /\ P3!Inv'
        BY <2>1, <3>1 DEF Inv
      <3>. QED
        BY <3>1, <3>2, StreamStep3
    <2>2. ASSUME demo = "pipedemo5" PROVE P5!StreamStep
      <3>1. P5!Next /\ demo' = demo
        BY <2>2 DEF Next, Run2, Run3, Run5, RunF, RunX
      <3>2. P5!Inv /\ P5!Inv'
        BY <2>2, <3>1 DEF Inv
      <3>. QED
        BY <3>1, <3>2, StreamStep5
    <2>. QED
      BY <2>1, <2>2
  <1>. QED
    BY <1>1, <1>2, Invariant, PTL DEF Spec, ImplementsStream
=============================================================================
