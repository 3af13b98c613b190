---------------------------- MODULE MCAsyncQueue ----------------------------
(* AsyncQueue with two consumers and four pushes. *)
EXTENDS AsyncQueue
=============================================================================
