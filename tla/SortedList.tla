----------------------------- MODULE SortedList -----------------------------
(***************************************************************************)
(* SortedList.cpp: records in the order of their keys in an array of fixed *)
(* size.  Only operator < of the records is used; it compares the names    *)
(* and ignores the addresses.  What is put may be a record of the list     *)
(* itself, passed by reference and read after the others have moved.       *)
(***************************************************************************)
EXTENDS Memory, FiniteSets

CONSTANTS
    Names, Addresses,   \* Names: numbers, in the order of strcmp
    MAXSIZE

Assumption == MAXSIZE \in Nat \ {0} /\ Names \subseteq Int

SRecord == [name : Names, address : Addresses]

VARIABLES list, num, failed, call, out

vars == <<list, num, failed, call, out>>

\* The records start with empty strings for name and address, which no client
\* of this model puts: they are Junk here.
Init ==
    /\ list = New(MAXSIZE)
    /\ num = 0
    /\ failed = FALSE
    /\ call = <<>> /\ out = Junk

Less(r, s) == r.name < s.name

\* Mutant: the middle is left out of both halves.
SearchBesideMiddle(x) ==
    LET narrow[w \in (0 .. num) \X (0 .. num)] ==
            LET a == w[1]  b == w[2]  c == (a + b) \div 2
            IN  IF a >= b THEN a
                ELSE IF Less(list[c], x) THEN narrow[<<c + 1, b>>]
                ELSE narrow[<<a, IF c > a THEN c - 1 ELSE c>>]
    IN  narrow[<<0, num>>]

\* The binary search, from the interval a .. b-1 on.
Search(x) ==
    LET narrow[w \in (0 .. num) \X (0 .. num)] ==
            LET a == w[1]  b == w[2]  c == (a + b) \div 2
            IN  IF a >= b THEN a
                ELSE IF Less(list[c], x) THEN narrow[<<c + 1, b>>]
                ELSE narrow[<<a, c>>]
    IN  narrow[<<0, num>>]

\* memmove(list+a+1, list+a, (num-a) * sizeof(OBJTYPE))
MovedUp(a) == Copied(list, a + 1, list, a, num - a)

\* x, or where k is an index of the list, whatever is there when it is read.
Insert(x, k) ==
    LET a == Search(x)
        moved == MovedUp(a)
        obj == IF k \in 0 .. num-1 THEN moved[k] ELSE x
    IN  /\ list' = [moved EXCEPT ![a] = obj]
        /\ num' = num + 1
        /\ out' = TRUE
        /\ UNCHANGED failed

Put(x, k) ==
    /\ call' = <<"Put", x>>
    /\ \/ num >= MAXSIZE /\ out' = FALSE /\ UNCHANGED <<list, num, failed>>
       \/ num < MAXSIZE /\ Insert(x, k)

PutUnique(x, k) ==
    LET a == Search(x)
    IN  /\ call' = <<"PutUnique", x>>
        /\ \/ /\ num >= MAXSIZE
              /\ out' = FALSE
              /\ UNCHANGED <<list, num, failed>>
           \/ /\ num < MAXSIZE /\ a < num /\ ~Less(x, list[a])
              /\ out' = TRUE
              /\ UNCHANGED <<list, num, failed>>
           \/ /\ num < MAXSIZE /\ ~(a < num /\ ~Less(x, list[a]))
              /\ Insert(x, k)

Remove(i) ==
    /\ call' = <<"Remove", i>>
    /\ \/ i >= num /\ UNCHANGED <<list, num>>
       \/ /\ i < num
          /\ list' = Copied(list, i, list, i + 1, num - i - 1)
          /\ num' = num - 1
    /\ UNCHANGED <<failed, out>>

\* Returns the index it found, which the code passes through Index.
Exists(x) ==
    LET i == Search(x)
    IN  /\ call' = <<"Exists", x>>
        /\ out' = IF i >= num THEN FALSE
                  ELSE IF Less(x, list[i]) THEN FALSE ELSE i
        /\ UNCHANGED <<list, num, failed>>

\* list[i], read by the client; a null reference ends the program.
At(i) ==
    /\ call' = <<"[]", i>>
    /\ \/ i >= num /\ failed' = TRUE /\ UNCHANGED out
       \/ i < num /\ out' = list[i] /\ UNCHANGED failed
    /\ UNCHANGED <<list, num>>

Next ==
    /\ ~failed
    /\ \/ \E x \in SRecord : Put(x, -1) \/ PutUnique(x, -1) \/ Exists(x)
       \/ \E k \in 0 .. MAXSIZE-1 :
             k < num /\ (Put(list[k], k) \/ PutUnique(list[k], k))
       \/ \E i \in 0 .. MAXSIZE : Remove(i) \/ At(i)
-----------------------------------------------------------------------------
TypeOK ==
    /\ num \in 0 .. MAXSIZE
    /\ list \in [0 .. MAXSIZE-1 -> SRecord \cup {Junk}]
    /\ \A i \in 0 .. num-1 : list[i] \in SRecord

\* The records stay in order, whatever is put, by reference or not.
InOrder == \A i, j \in 0 .. num-1 : i <= j => ~Less(list[j], list[i])

Records(l, n) == [r \in SRecord |-> Cardinality({i \in 0 .. n-1 : l[i] = r})]
Named(l, n, name) == Cardinality({i \in 0 .. n-1 : l[i].name = name})

\* Each call does to the records what it says: a record put is there once more,
\* and before the records of its name that were there; PutUnique leaves a name
\* that is there alone; Remove takes away one record; Exists finds the first
\* record of the name; records of other names are neither lost nor changed.
\* (A record of the list that is put again adds a record of its name, not
\* always the record itself: it is read after the move.)
DoesWhatItSays ==
    /\ call'[1] \in {"Put", "PutUnique"} =>
        LET x == call'[2]
            there == Named(list, num, x.name)
        IN  IF num = MAXSIZE \/ (call'[1] = "PutUnique" /\ there > 0)
            THEN UNCHANGED <<list, num>> /\ out' = (num < MAXSIZE)
            ELSE /\ out' = TRUE
                 /\ Named(list', num', x.name) = there + 1
                 /\ \A r \in SRecord : r.name # x.name =>
                        Records(list', num')[r] = Records(list, num)[r]
                 /\ there = 0 \/ (\A i \in 0 .. num-1 : list[i] # x) =>
                        \E i \in 0 .. num :
                            /\ list'[i] = x
                            /\ \A j \in 0 .. i-1 : list'[j].name < x.name
    /\ call'[1] = "Remove" =>
        LET i == call'[2]
        IN  IF i >= num THEN UNCHANGED <<list, num>>
            ELSE \A r \in SRecord : Records(list', num')[r] =
                    Records(list, num)[r] - (IF r = list[i] THEN 1 ELSE 0)
    /\ call'[1] = "Exists" =>
        IF Named(list, num, call'[2].name) = 0 THEN out' = FALSE
        ELSE /\ list[out'].name = call'[2].name
             /\ \A j \in 0 .. out'-1 : list[j].name < call'[2].name
=============================================================================
