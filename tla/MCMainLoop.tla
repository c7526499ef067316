----------------------------- MODULE MCMainLoop -----------------------------
(* MainLoop with runs of one piece, of two, and of none. *)
EXTENDS MainLoop

MCRuns == { << >>, <<1>>, <<1026, 2>> }
=============================================================================
