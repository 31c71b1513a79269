------------------------------ MODULE MCEvents ------------------------------
(***************************************************************************)
(* EventPipeline for two outputs whose processors change what they get in  *)
(* place: one deletes a value, the other one adds a tag.                   *)
(***************************************************************************)
EXTENDS EventPipeline

Cases == INSTANCE EventCases
Chains == Cases!ChangingChains
Batches == Cases!Batches
=============================================================================
