------------------------------- MODULE Memory -------------------------------
(***************************************************************************)
(* Blocks of memory as the containers of                                   *)
(* src/archive/todo/optimization-examples/cppexamples use them: a block of *)
(* n objects is a function on 0..n-1, and a null pointer is the block of   *)
(* no objects.  new[] does not initialise: reading Junk is reading         *)
(* whatever the memory held before.                                        *)
(*                                                                         *)
(* The string pools' memory is seen text by text: a buffer maps offsets to *)
(* the texts that start there.  A text takes up some units before its      *)
(* characters, one for each of them, and one for the zero that ends it.    *)
(***************************************************************************)
EXTENDS Integers, Sequences

CONSTANT Junk

Null == [k \in {} |-> Junk]

\* new TX[n]
New(n) == [k \in 0 .. n-1 |-> Junk]

\* memcpy(dst + d, src + s, n) and memmove: n objects of src from s on.
Copied(dst, d, src, s, n) ==
    [k \in DOMAIN dst |-> IF k \in d .. d+n-1 THEN src[k - d + s] ELSE dst[k]]

\* memset(dst + d, 0, n)
Filled(dst, d, n, zero) ==
    [k \in DOMAIN dst |-> IF k \in d .. d+n-1 THEN zero ELSE dst[k]]

-----------------------------------------------------------------------------
NoBuffer == [k \in {} |-> <<>>]

\* The units a text at offset k occupies.
Extent(k, t, prefix) == k .. k + prefix + Len(t)

\* A text written at offset k destroys those that it overlaps.
Written(buf, k, t, prefix) ==
    LET kept == {j \in DOMAIN buf :
                    Extent(j, buf[j], prefix) \cap Extent(k, t, prefix) = {}}
    IN  [j \in kept \cup {k} |-> IF j = k THEN t ELSE buf[j]]

\* What is read at offset k: no text where none starts.
TextAt(buf, k) == IF k \in DOMAIN buf THEN buf[k] ELSE <<Junk>>

\* A text with one character replaced.
WithChar(t, k, c) == [t EXCEPT ![k + 1] = c]
=============================================================================
