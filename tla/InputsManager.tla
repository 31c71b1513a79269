---------------------------- MODULE InputsManager ----------------------------
(***************************************************************************)
(* The inputs manager: its event loop is the only goroutine that changes   *)
(* the inputs, so that an event is handled in one step; the API (and apply)*)
(* only write the config store.  An input's config is the set of its       *)
(* processors.                                                             *)
(***************************************************************************)
EXTENDS Naturals, Sequences, FiniteSets, TLC, Functions

CONSTANTS Ins,     \* names of inputs
          Procs,   \* names of processors
          MaxOps   \* bound: requests to the API

VARIABLES
  conf,    \* Config store, "inputs": a map to sets of processors
  evq,     \* the watch channel of "inputs"
  ins,     \* mgr.inputs: a map to Cfg
  inUse,   \* mgr.processorsInUse
  state,   \* State store, "inputs"
  open,    \* started implementations that were not closed, by name
  stuck,   \* history: inputs whose Close failed
  ops

vars == <<conf, evq, ins, inUse, state, open, stuck, ops>>

Put(f, k, v) == [x \in DOMAIN f \cup {k} |-> IF x = k THEN v ELSE f[x]]
Drop(f, k) == Restrict(f, DOMAIN f \ {k})

Init ==
  /\ conf = <<>> /\ evq = <<>> /\ ins = <<>> /\ ops = 0 /\ stuck = {}
  /\ inUse = [p \in Procs |-> {}]
  /\ state = [i \in Ins |-> "none"]
  /\ open = [i \in Ins |-> 0]

Track(u, i, ps) == [p \in Procs |-> IF p \in ps THEN u[p] \cup {i} ELSE u[p]]
Untrack(u, i, ps) == [p \in Procs |-> IF p \in ps THEN u[p] \ {i} ELSE u[p]]

\* impl.Start of an unknown type, or one that fails, leaves no input behind.
CreateInput(i, c) ==
  \/ /\ inUse' = Track(inUse, i, c)
     /\ ins' = Put(ins, i, c)
     /\ state' = [state EXCEPT ![i] = "running"]
     /\ open' = [open EXCEPT ![i] = @ + 1]
     /\ UNCHANGED <<conf, stuck>>
  \/ /\ state' = [state EXCEPT ![i] = "failed"]
     /\ UNCHANGED <<inUse, ins, open, conf, stuck>>

UpdateInput(i, c) ==
  IF i \notin DOMAIN ins THEN CreateInput(i, c)
  ELSE \/ /\ inUse' = Track(Untrack(inUse, i, ins[i]), i, c)
          /\ ins' = [ins EXCEPT ![i] = c]
          /\ UNCHANGED <<conf, state, open, stuck>>
       \/ UNCHANGED <<inUse, ins, conf, state, open, stuck>>   \* Impl.Update fails

\* Mutant: the processors of the input stay in the index.
DeleteInputIndexed(i) ==
  \/ /\ i \in DOMAIN ins
     /\ ins' = Drop(ins, i)
     /\ open' = [open EXCEPT ![i] = @ - 1]
     /\ state' = [state EXCEPT ![i] = "none"]
     /\ conf' = Drop(conf, i)
     /\ UNCHANGED <<inUse, stuck>>
  \/ i \notin DOMAIN ins /\ UNCHANGED <<inUse, ins, open, state, conf, stuck>>

\* The config is deleted with the input, though it may have been set again.
DeleteInput(i) ==
  \/ /\ i \in DOMAIN ins
     /\ inUse' = Untrack(inUse, i, ins[i])
     /\ ins' = Drop(ins, i)
     /\ open' = [open EXCEPT ![i] = @ - 1]
     /\ state' = [state EXCEPT ![i] = "none"]
     /\ conf' = Drop(conf, i)
     /\ UNCHANGED stuck
  \/ /\ i \in DOMAIN ins    \* Impl.Close fails
     /\ state' = [state EXCEPT ![i] = "stopping"]
     /\ stuck' = stuck \cup {i}
     /\ UNCHANGED <<inUse, ins, open, conf>>
  \/ /\ i \notin DOMAIN ins
     /\ state' = [state EXCEPT ![i] = "none"]
     /\ UNCHANGED <<inUse, ins, open, conf, stuck>>

HandleEvent ==
  /\ evq # <<>>
  /\ LET e == Head(evq) IN
     /\ \/ e.type = "create" /\ CreateInput(e.name, e.cfg)
        \/ e.type = "update" /\ UpdateInput(e.name, e.cfg)
        \/ e.type = "delete" /\ DeleteInput(e.name)
     /\ evq' = IF e.name \in DOMAIN conf \ DOMAIN conf'
               THEN Append(Tail(evq), [type |-> "delete", name |-> e.name]) ELSE Tail(evq)
  /\ UNCHANGED ops

\* handleConfigInputsPost: the checks of processors and outputs read a []string.
PostInput ==
  /\ ops < MaxOps /\ ops' = ops + 1
  /\ \E i \in Ins, c \in SUBSET Procs :
       /\ conf' = Put(conf, i, c)
       /\ evq' = Append(evq, [type |-> IF i \in DOMAIN conf THEN "update" ELSE "create", name |-> i, cfg |-> c])
  /\ UNCHANGED <<ins, inUse, state, open, stuck>>

DeleteInputApi ==
  /\ ops < MaxOps /\ ops' = ops + 1
  /\ \E i \in DOMAIN conf : conf' = Drop(conf, i) /\ evq' = Append(evq, [type |-> "delete", name |-> i])
  /\ UNCHANGED <<ins, inUse, state, open, stuck>>

Next == HandleEvent \/ PostInput \/ DeleteInputApi
Spec == Init /\ [][Next]_vars

\* No started input is lost: what runs and can still write to the pipeline is what the
\* manager knows and can close, unless a Close failed.
NoLostInput == \A i \in Ins \ stuck : open[i] = IF i \in DOMAIN ins THEN 1 ELSE 0

\* The index names an input for exactly the processors of its config, unless a Close
\* failed: a processor nobody uses can be deleted.
IndexExact == \A i \in Ins \ stuck, p \in Procs : i \in inUse[p] <=> i \in DOMAIN ins /\ p \in ins[i]
InputsTracked == NoLostInput /\ IndexExact
=============================================================================
