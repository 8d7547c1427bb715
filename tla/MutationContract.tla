-------------------------- MODULE MutationContract --------------------------
(***************************************************************************)
(* What the adapter promises of one call (the contracts podman-client.md,  *)
(* image-client.md and container-client.md under specs): the host is asked *)
(* once for each stage of the call, in order, and never again; an invalid  *)
(* request has no stage; a success means that every stage was done; a      *)
(* partial result names a container that exists; a call reported as never  *)
(* sent changes nothing, not even later.  A call that fails or is          *)
(* cancelled on its way may still have, or come to have, the effect of the *)
(* stage it had reached.                                                   *)
(***************************************************************************)
EXTENDS Naturals

VARIABLES
    stages,         \* how many host requests the call makes
    effects,        \* how many of them the host has carried out
    asked,          \* how many it has been sent
    report          \* what the caller has been told, or "none"

Ask == /\ report = "none" /\ asked < stages
       /\ effects = asked
       /\ asked' = asked + 1
       /\ UNCHANGED <<stages, effects, report>>

Perform == /\ effects < asked
           /\ effects' = effects + 1
           /\ UNCHANGED <<stages, asked, report>>

Tell(r) == /\ report = "none" /\ report' = r
           /\ UNCHANGED <<stages, effects, asked>>

Next == \/ Ask \/ Perform
        \/ Tell("done") /\ stages > 0 /\ effects = stages
        \/ Tell("partial") /\ effects > 0
        \/ Tell("unsent") /\ asked = 0
        \/ Tell("failed")

Init == stages \in 0..2 /\ effects = 0 /\ asked = 0 /\ report = "none"

Spec == Init /\ [][Next]_<<stages, effects, asked, report>>
=============================================================================
