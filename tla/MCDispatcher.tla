---------------------------- MODULE MCDispatcher ----------------------------
(***************************************************************************)
(* Dispatcher for model checking: nothing tells two dispatchers apart, and   *)
(* the run checks safety only, so their permutations are one state.          *)
(***************************************************************************)
EXTENDS Dispatcher, TLC

WorkerSymmetry == Permutations(Workers)

=============================================================================
