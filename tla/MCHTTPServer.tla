---------------------------- MODULE MCHTTPServer ----------------------------
(* Instances of HTTPServer for TLC.  Local clients are interchangeable, and so *)
(* are process slots: the run of the safety properties uses it.             *)
EXTENDS HTTPServer, TLC

Interchangeable == Permutations(Client \ Remote) \cup Permutations(Slot)
=============================================================================
