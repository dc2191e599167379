---------------------------- MODULE MCContainers ----------------------------
(***************************************************************************)
(* An instance of Containers for TLC.  A text that replaces another may be *)
(* shorter or longer; three characters are what Printf takes, and four are *)
(* more than the length LengthType holds.                                  *)
(***************************************************************************)
EXTENDS Containers

CONSTANTS Obj1, Obj2        \* objects, and characters of the texts

MCTexts == {<<>>, <<Obj1>>, <<Obj2, Obj2>>}
MCLongTexts == {<<Obj1, Obj2, Obj1, Obj2>>}
MCParts == {<<1, 2>>, <<0, 1>>}
=============================================================================
