----------------------------- MODULE Containers -----------------------------
(***************************************************************************)
(* The container classes of optimization-examples/cppexamples: a client    *)
(* uses an object of one of them, in any order of calls that its sizes     *)
(* allow.  The classes do not interact; this module puts their state       *)
(* machines side by side, so that one model-checking run explores each of  *)
(* them.  The object's variables have names common to the classes.         *)
(***************************************************************************)
EXTENDS Integers, Sequences

CONSTANTS
    Junk, Zero,                     \* memory as new[] leaves it, and zeroed
    Values, Few,                    \* what clients put; Few where there are more calls
    ListSize,                       \* of the classes of fixed size
    Increment, Limit,               \* of the blocks that grow, in objects
    AlignBy,                        \* objects to a vector
    MaxSize, Round, PoolLimit,      \* units of memory in MixedPool
    Names,                          \* keys of SortedList
    Texts, LongTexts,               \* texts, and some that are too long for LengthType
    Chars, Parts,                   \* characters, and parts of texts
    AllocateSpace1, AllocateSpace2, \* of the string pools
    FormatLength, Prefix, LengthMax,
    MaxIndex, MaxLen,               \* bounds of what is asked of a string pool
    BufferLimit, LongBufferLimit    \* and of its buffer

VARIABLES
    class,                          \* the class of the object
    block, size, count,             \* its memory, and how many objects are in it
    first, last,                    \* where they begin and end
    call, out,                      \* the last call, and what it returned
    pool, strings, spoilt,          \* of the string pools
    failed                          \* the program has been ended by an error

places == <<first, last>>
object == <<block, size, count, places, call, out>>
texts == <<pool, strings, spoilt>>
vars == <<class, object, texts, failed>>

Queue == INSTANCE DynamicQueue WITH
    Buffer <- block, head <- last, tail <- first, MaxNum <- size, NumEntries <- count

Fifo == INSTANCE FIFOlist WITH
    list <- block, head <- last, tail <- first, n <- count, MAXSIZE <- ListSize

Filo == INSTANCE FILOlist WITH
    list <- block, top <- last, n <- count, MAXSIZE <- ListSize

Safe == INSTANCE SafeArray WITH a <- block, N <- ListSize

Array == INSTANCE DynamicArray WITH
    Buffer <- block, MaxNum <- size, NumEntries <- count, Values <- Few

Aligned == INSTANCE AlignedArray WITH
    bufferU <- first, bufferA <- last, MaxNum <- size, NumEntries <- count,
    Values <- Few

Mixed == INSTANCE MixedPool WITH
    buffer <- block, BufferSize <- size, DataSize <- last, NumEntries <- count,
    Values <- Few, AllocateSpace <- Increment, Limit <- PoolLimit

Sorted == INSTANCE SortedList WITH
    list <- block, num <- count, Addresses <- Values, MAXSIZE <- ListSize

PoolS == INSTANCE StringPool WITH Prefix <- 0, Limit <- BufferLimit

PoolW == INSTANCE StringPoolW WITH Limit <- BufferLimit

PoolL == INSTANCE StringPoolL WITH
    Limit <- LongBufferLimit, Texts <- Texts \cup LongTexts

ASSUME InstanceAssumption ==
    /\ Queue!Assumption /\ Fifo!Assumption /\ Filo!Assumption /\ Safe!Assumption
    /\ Array!Assumption /\ Aligned!Assumption /\ Mixed!Assumption /\ Sorted!Assumption
    /\ PoolS!Assumption /\ PoolL!Pool!Assumption
-----------------------------------------------------------------------------
\* The variables that a class does not have stay empty.
NoTexts == pool = "" /\ strings = "" /\ spoilt = ""
NoObject ==
    /\ block = "" /\ size = "" /\ count = "" /\ first = "" /\ last = ""
    /\ call = "" /\ out = ""

Init ==
    \/ class = "DynamicQueue" /\ Queue!Init /\ NoTexts
    \/ class = "FIFOlist" /\ Fifo!Init /\ size = "" /\ NoTexts
    \/ class = "FILOlist" /\ Filo!Init /\ size = "" /\ first = "" /\ NoTexts
    \/ /\ class = "SafeArray" /\ Safe!Init
       /\ size = "" /\ count = "" /\ first = "" /\ last = "" /\ NoTexts
    \/ class = "DynamicArray" /\ Array!Init /\ first = "" /\ last = "" /\ NoTexts
    \/ class = "AlignedArray" /\ Aligned!Init /\ NoTexts
    \/ class = "MixedPool" /\ Mixed!Init /\ first = "" /\ NoTexts
    \/ /\ class = "SortedList" /\ Sorted!Init
       /\ size = "" /\ first = "" /\ last = "" /\ NoTexts
    \/ class \in {"StringPoolS", "StringPoolW", "StringPoolL"} /\ PoolS!Init /\ NoObject

Next ==
    /\ UNCHANGED class
    /\ \/ /\ class = "DynamicQueue" /\ Queue!Next /\ UNCHANGED texts
       \/ /\ class = "FIFOlist" /\ Fifo!Next /\ UNCHANGED <<size, texts>>
       \/ /\ class = "FILOlist" /\ Filo!Next /\ UNCHANGED <<size, first, texts>>
       \/ /\ class = "SafeArray" /\ Safe!Next
          /\ UNCHANGED <<size, count, places, texts>>
       \/ /\ class = "DynamicArray" /\ Array!Next /\ UNCHANGED <<places, texts>>
       \/ /\ class = "AlignedArray" /\ Aligned!Next /\ UNCHANGED texts
       \/ /\ class = "MixedPool" /\ Mixed!Next /\ UNCHANGED <<first, texts>>
       \/ /\ class = "SortedList" /\ Sorted!Next /\ UNCHANGED <<size, places, texts>>
       \/ /\ class = "StringPoolS" /\ PoolS!Next /\ UNCHANGED object
       \/ /\ class = "StringPoolW" /\ PoolW!Next /\ UNCHANGED object
       \/ /\ class = "StringPoolL" /\ PoolL!Next /\ UNCHANGED object

Spec == Init /\ [][Next]_vars
-----------------------------------------------------------------------------
\* The type invariants of the classes that state one.
TypeOK ==
    /\ class = "DynamicQueue" => Queue!TypeOK
    /\ class = "DynamicArray" => Array!TypeOK
    /\ class = "SortedList" => Sorted!TypeOK

\* The queues, stacks, arrays and pools are what Collection says, whatever the
\* order of the calls and whatever is passed by reference: nothing is lost,
\* added or read from another place when blocks wrap around and are replaced.
ImplementsCollection ==
    /\ class = "DynamicQueue" => Queue!AbstractInit
    /\ class = "FIFOlist" => Fifo!AbstractInit
    /\ class = "FILOlist" => Filo!AbstractInit
    /\ class = "SafeArray" => Safe!AbstractInit
    /\ class = "DynamicArray" => Array!AbstractInit
    /\ class = "AlignedArray" => Aligned!AbstractInit
    /\ class = "MixedPool" => Mixed!AbstractInit
    /\ [][/\ class = "DynamicQueue" => Queue!AbstractStep
          /\ class = "FIFOlist" => Fifo!AbstractStep
          /\ class = "FILOlist" => Filo!AbstractStep
          /\ class = "SafeArray" => Safe!AbstractStep
          /\ class = "DynamicArray" => Array!AbstractStep
          /\ class = "AlignedArray" => Aligned!AbstractStep
          /\ class = "MixedPool" => Mixed!AbstractStep]_vars

\* SortedList: the records are in the order of their names, whatever is put, by
\* reference or not, and removed; each call adds, removes or finds the record it
\* names and keeps the others.
KeepsRecordsInOrder ==
    /\ [](class = "SortedList" => Sorted!InOrder)
    /\ [][class = "SortedList" => Sorted!DoesWhatItSays]_vars

\* The string pools: every index reads back the text it was last given, and the
\* strings are apart, until one of the calls the pools do not survive; also where
\* the texts follow their lengths.
StringsKept ==
    /\ class \in {"StringPoolS", "StringPoolW"} => PoolS!StringsKept
    /\ class = "StringPoolL" => PoolL!Pool!StringsKept
-----------------------------------------------------------------------------
\* StringPoolS.cpp:69: "All strings should be identified by their index".  They
\* are not where the last string outgrows the buffer.
FoundByIndex == class = "StringPoolS" => PoolS!FoundByIndex
=============================================================================
