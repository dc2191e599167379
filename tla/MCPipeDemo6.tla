---------------------------- MODULE MCPipeDemo6 ----------------------------
(***************************************************************************)
(* Instances of PipeDemo6 for TLC: a message longer than the pipe, with a  *)
(* repeated byte, so that the child blocks on a full pipe, the parent on   *)
(* an empty one, and a byte printed twice would go unnoticed only if it    *)
(* also replaced another.                                                  *)
(***************************************************************************)
EXTENDS PipeDemo6

MCMessage == <<1, 1, 2, 3>>
MCLongMessage == <<1, 1, 2, 3, 1, 1, 2, 2, 3, 1>>
=============================================================================
