------------------------------- MODULE MCApply -------------------------------
(***************************************************************************)
(* OutputsManager for a client that applies whole configurations: with an  *)
(* output and its processor, and without the output.                       *)
(***************************************************************************)
EXTENDS OutputsManager

Bodies == {[outs |-> ("o1" :> {"p1"}), procs |-> {"p1"}], [outs |-> <<>>, procs |-> {"p1"}]}
=============================================================================
