------------------------------- MODULE Adapter -------------------------------
(***************************************************************************)
(* A command and the adapter: it makes one call, or runs one feed.         *)
(***************************************************************************)
EXTENDS HostCall, StreamPipeline

Init == (CallInit /\ PipeOff) \/ (CallOff /\ PipeInit)

Next == \/ CallNext /\ UNCHANGED pipeVars
        \/ PipeNext /\ UNCHANGED callVars

vars == <<callVars, pipeVars>>

Spec == Init /\ [][Next]_vars /\ CallFairness /\ PipeFairness

AdapterTypeOK == CallTypeOK /\ PipeTypeOK
=============================================================================
