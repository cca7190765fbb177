---------------------------- MODULE MCReplWorker ----------------------------
(***************************************************************************)
(* Model-checking instance of ReplWorker: the .cfg file gives the bounds.  *)
(***************************************************************************)
EXTENDS ReplWorker
=============================================================================
