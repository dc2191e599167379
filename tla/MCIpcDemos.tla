----------------------------- MODULE MCIpcDemos -----------------------------
(***************************************************************************)
(* An instance of IpcDemos for TLC.  Five bytes read by two (the last      *)
(* piece is short), and an even and an odd number of iterations are the    *)
(* least that tell the orders of the steps apart.  Of two runs of ExtXTerm *)
(* the second meets what any end of the first has left: a FIFO, a file or  *)
(* a shell that still waits.                                               *)
(***************************************************************************)
EXTENDS IpcDemos

MCMessage == <<1, 2, 3, 4, 5>>
MCIterations == [q \in {"Parent", "Child1", "Child2"} |-> IF q = "Child1" THEN 2 ELSE 3]
=============================================================================
