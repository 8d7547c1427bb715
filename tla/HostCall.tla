------------------------------ MODULE HostCall ------------------------------
(***************************************************************************)
(* One request of a command, seen from inside (bindingsClient in           *)
(* internal/podman/bindings.go): checks, the operation context, the HTTP   *)
(* requests it makes and what it returns.  The operator, or a newer        *)
(* request, may cancel the command's context at any moment; the operation  *)
(* context follows in a goroutine of its own (context.AfterFunc).  The     *)
(* host and the network are external: a request may be carried out,        *)
(* refused, or lost, and one that was given up may still be carried out.   *)
(* A request is one call of the bindings, with whatever they do by         *)
(* themselves to deliver it over a connection that breaks.                 *)
(***************************************************************************)
EXTENDS Naturals

VARIABLES
    call,           \* the call and how far it has come
    wire,           \* the request that was sent last, and what became of it
    effects         \* how many of the call's requests the host carried out

callVars == <<call, wire, effects>>

Reads == {"containers", "inspect", "images", "inspectImage"}
Lifecycle == {"start", "stop", "restart", "remove"}
Kinds == Reads \cup Lifecycle \cup {"removeImage", "create"}

\* The calls that look at their context before anything else.
Checked == {"images", "inspectImage", "removeImage", "create"}

\* The calls that refuse an empty identity or an invalid request; the other
\* calls always pass.
Validated == {"removeImage", "create"}

\* RunContainer makes two requests, create and start; the others make one.
\* One that is not valid may make none.
Stages == IF ~call.valid THEN 0 ELSE IF call.kind = "create" THEN 2 ELSE 1

Points == {"entered", "checked", "ready", "waiting", "between", "returned"}
Reports == {"none", "unsent", "failed", "partial", "done"}

CallTypeOK ==
    /\ call \in [kind : Kinds \cup {"none"}, valid : BOOLEAN,
                 cancelled : BOOLEAN, opCancelled : BOOLEAN, at : Points,
                 asked : 0..2, id : BOOLEAN, report : Reports]
    /\ wire \in {"none", "sent", "done", "refused"}
    /\ effects \in 0..2

NoCall == [kind |-> "none", valid |-> TRUE, cancelled |-> FALSE,
           opCancelled |-> FALSE, at |-> "returned", asked |-> 0, id |-> FALSE,
           report |-> "none"]

\* A command runs some time after its handler has made it: its context may
\* have been cancelled meanwhile.
CallInit ==
    /\ \E k \in Kinds, v, c \in BOOLEAN :
          /\ k \notin Validated => v
          /\ call = [NoCall EXCEPT !.kind = k, !.valid = v, !.cancelled = c,
                                   !.at = "entered"]
    /\ wire = "none" /\ effects = 0

CallOff == call = NoCall /\ wire = "none" /\ effects = 0

At(p) == call.at = p
Goes(p) == call' = [call EXCEPT !.at = p]
Returns(r) == call' = [call EXCEPT !.at = "returned", !.report = r]

\* requestCancel, from the operator or a newer request.
Cancel ==
    /\ call.kind # "none" /\ ~call.cancelled
    /\ call' = [call EXCEPT !.cancelled = TRUE]
    /\ UNCHANGED <<wire, effects>>

-----------------------------------------------------------------------------
(* operationContext *)

\* Defect: the operation context does not follow the caller's.
PropagatesNever == FALSE

\* Its goroutine runs between the call's entry and its return.
Propagates == At("ready") \/ At("waiting") \/ At("between")

AfterFunc ==
    /\ Propagates /\ call.cancelled /\ ~call.opCancelled
    /\ call' = [call EXCEPT !.opCancelled = TRUE]
    /\ UNCHANGED <<wire, effects>>

-----------------------------------------------------------------------------
(* The call *)

Validate ==
    /\ At("entered")
    /\ IF call.valid THEN Goes("checked") ELSE Returns("unsent")
    /\ UNCHANGED <<wire, effects>>

CheckContext ==
    /\ At("checked")
    /\ IF call.kind \in Checked /\ call.cancelled
       THEN Returns("unsent") ELSE Goes("ready")
    /\ UNCHANGED <<wire, effects>>

\* Whatever goes wrong once the container has an id is a partial result.
Failure == Returns(IF call.id THEN "partial" ELSE "failed")

\* A request whose context is cancelled is not sent.
Send ==
    /\ At("ready") /\ ~call.opCancelled
    /\ call' = [call EXCEPT !.at = "waiting", !.asked = @ + 1]
    /\ wire' = "sent"
    /\ UNCHANGED effects

SendRefused ==
    /\ At("ready") /\ call.opCancelled
    /\ Failure
    /\ UNCHANGED <<wire, effects>>

\* Defect: a request that failed is made again.
RequestRetried ==
    /\ At("waiting")
    /\ Goes("ready")
    /\ UNCHANGED <<wire, effects>>

\* The host refuses, the answer is lost, or the context ends the wait.
RequestFails ==
    /\ At("waiting")
    /\ Failure
    /\ UNCHANGED <<wire, effects>>

GiveUp ==
    /\ At("waiting") /\ call.opCancelled
    /\ Failure
    /\ UNCHANGED <<wire, effects>>

Created == call.kind = "create" /\ call.asked = 1

\* The answer to the last request.  RemoveImage returns an error for a
\* context that was cancelled meanwhile, whatever the host has done.
Answered ==
    /\ At("waiting") /\ wire = "done" /\ ~Created
    /\ IF call.kind = "removeImage" /\ call.opCancelled
       THEN Returns("failed") ELSE Returns("done")
    /\ UNCHANGED <<wire, effects>>

\* CreateWithSpec has answered, with an id unless the response is empty.
CreateAnswered ==
    /\ At("waiting") /\ wire = "done" /\ Created
    /\ \/ call' = [call EXCEPT !.at = "between", !.id = TRUE]
       \/ Returns("failed")
    /\ UNCHANGED <<wire, effects>>

\* Defect: a cancelled start loses the id that create has returned.
StartOrForget ==
    /\ At("between")
    /\ IF call.opCancelled THEN Returns("failed") ELSE Goes("ready")
    /\ UNCHANGED <<wire, effects>>

StartOrKeep ==
    /\ At("between")
    /\ IF call.opCancelled THEN Returns("partial") ELSE Goes("ready")
    /\ UNCHANGED <<wire, effects>>

-----------------------------------------------------------------------------
(* The host (external) *)

HostPerforms ==
    /\ wire = "sent"
    /\ wire' = "done" /\ effects' = effects + 1
    /\ UNCHANGED call

HostRefuses ==
    /\ wire = "sent"
    /\ wire' = "refused"
    /\ UNCHANGED <<call, effects>>

Client ==
    \/ Validate \/ CheckContext \/ Send \/ SendRefused \/ RequestFails
    \/ GiveUp \/ Answered \/ CreateAnswered \/ StartOrKeep

CallNext == Cancel \/ AfterFunc \/ Client \/ HostPerforms \/ HostRefuses

\* The Go scheduler runs the call and the context's goroutine, and the HTTP
\* client gives up when the context is cancelled.  Nothing is assumed of the
\* host or of the network.
CallFairness ==
    /\ WF_callVars(AfterFunc) /\ WF_callVars(GiveUp)
    /\ WF_callVars(Validate \/ CheckContext \/ Send \/ SendRefused
                     \/ StartOrKeep)

-----------------------------------------------------------------------------
(* Properties *)

Contract == INSTANCE MutationContract WITH
    stages <- Stages, asked <- call.asked, report <- call.report

\* Each call keeps the adapter's contract, whenever it is cancelled and
\* whatever the host and the network do (RunContainer, lifecycle,
\* RemoveImage).
KeepsContract == Contract!Spec

\* An id that create has returned is told to the operator, in a success or in
\* a partial result: the container is not left behind unnamed (RunContainer).
IdIsTold == At("returned") /\ call.id => call.report \in {"done", "partial"}

\* A cancelled call returns even if the host never answers (operationContext).
CancelReturns == call.cancelled ~> At("returned")
=============================================================================
