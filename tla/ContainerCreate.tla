--------------------------- MODULE ContainerCreate ---------------------------
(***************************************************************************)
(* Creating a container from a local image: the form, its confirmation,    *)
(* the create-and-start request and the refresh of both inventories that   *)
(* ends it.                                                                *)
(***************************************************************************)
EXTENDS AppState

OnlyCreate == UNCHANGED <<loop, bookVars, linkVars, filter, stream, pull, gone>>

\* containerCreateImageIsCurrent: the inventory still lists the image's id.
ImageIsCurrent ==
    create.image # None /\ \E i \in gallery.images : i.id = create.image.id

CreateBusy == create.running \/ create.refreshing

CreateFails ==
    create' = [create EXCEPT !.status = "failed"] /\ err' = "other"

-----------------------------------------------------------------------------
(* The form *)

OpenContainerCreate ==
    /\ InScreen("new", {"images", "imageDetails"})
    /\ LET image == IF screen = "imageDetails" /\ gallery.details # None
                    THEN gallery.details ELSE gallery.selected IN
       \/ /\ None \notin {client, image}
          /\ create' = [create EXCEPT !.previous = screen, !.image = image,
                          !.imageGeneration = generation, !.result = None,
                          !.status = "editing", !.running = FALSE,
                          !.refreshing = FALSE]
          /\ screen' = "containerCreate" /\ err' = None
          /\ OnlyCreate
          /\ UNCHANGED <<mode, requestVars, inventoryVars, gallery, pending,
                         cmds>>
       \/ None \in {client, image} /\ Refuse

LeaveContainerCreate ==
    /\ InCreate("esc") /\ ~CreateBusy
    /\ screen' = create.previous
    /\ create' = [create EXCEPT !.status = "idle"]
    /\ OnlyCreate
    /\ UNCHANGED <<mode, err, requestVars, inventoryVars, gallery, pending, cmds>>

\* esc while the host works: end the request's context and wait for the reply.
CancelContainerCreate ==
    /\ InCreate("esc") /\ CreateBusy
    /\ cmds' = Cancelled(cmds, RequestKinds, requestCancel)
    /\ OnlyCreate
    /\ UNCHANGED <<viewVars, requestVars, inventoryVars, gallery, pending, create>>

\* enter: the dialog captures the generation the form was opened under.
SubmitContainerCreate ==
    /\ InCreate("accept") /\ ~CreateBusy /\ client # None
    /\ \/ /\ create.imageGeneration = generation /\ ImageIsCurrent
          /\ pending' = [action |-> "run", target |-> create.image,
                         generation |-> create.imageGeneration,
                         connection |-> profile]
          /\ create' = [create EXCEPT !.status = "confirming"]
          /\ err' = None /\ mode' = "confirm"
       \/ /\ ~(create.imageGeneration = generation /\ ImageIsCurrent)
          /\ create' = [create EXCEPT !.status = "failed"]
          /\ UNCHANGED <<pending, err, mode>>
    /\ OnlyCreate
    /\ UNCHANGED <<screen, requestVars, inventoryVars, gallery, cmds>>

\* The name or the command does not parse or validate.
RejectContainerCreate ==
    /\ InCreate("invalid") /\ ~CreateBusy /\ client # None
    /\ create.imageGeneration = generation /\ ImageIsCurrent
    /\ create' = [create EXCEPT !.status = "editing"]
    /\ OnlyCreate
    /\ UNCHANGED <<viewVars, requestVars, inventoryVars, gallery, pending, cmds>>

QuitContainerCreate ==
    /\ \/ InCreate("ctrl+c")
       \/ InCreate("quit") /\ CreateBusy
    /\ QuitNow

\* runContainerCreate, with the image of the confirmed dialog.  What has to be
\* listed still is the image of the form, which may have changed since.
RunContainerCreate(image) ==
    \/ /\ client = None \/ ~ImageIsCurrent
       /\ CreateFails
       /\ UNCHANGED <<requestVars, cmds>>
    \/ /\ client # None /\ ImageIsCurrent /\ CreateBusy
       /\ UNCHANGED <<create, err, requestVars, cmds>>
    \/ /\ client # None /\ ImageIsCurrent /\ ~CreateBusy
       /\ create' = [create EXCEPT !.status = "creating", !.running = TRUE,
                       !.image = image, !.result = None, !.target = profile,
                       !.generation = generation + 1]
       /\ err' = None
       /\ BeginRequest(cmds, requestCancel, {Request("run", image)})

-----------------------------------------------------------------------------
(* ContainerRunFinishedMsg.  Unlike the other replies it is compared with  *)
(* the generation and the connection the create flow remembers.            *)

\* Defect: the reply is compared with the latest request, like the others.
LatestRun(c) == Answers(c, {"run"}) /\ c.connection = create.target

CurrentRun(c) ==
    /\ Delivered(c) /\ c.kind = "run"
    /\ c.gen = create.generation /\ c.connection = create.target

RunReply(c) ==
    /\ CurrentRun(c)
    /\ OnlyCreate /\ UNCHANGED <<screen, mode, details, containers, selected,
                                 detailLoading, pending>>

Ended(c, status, result) ==
    [create EXCEPT !.running = FALSE, !.image = c.target, !.status = status,
                   !.result = result]

\* refreshAfterContainerCreate: read both inventories under a new generation.
RefreshAfterCreate(c, status, result) ==
    \/ /\ client = None
       /\ create' = [Ended(c, "failed", result) EXCEPT !.refreshing = FALSE]
       /\ err' = "other"
       /\ NoRequest(cmds \ {c}, None)
       /\ UNCHANGED <<loading, gallery>>
    \/ /\ client # None
       /\ create' = [Ended(c, status, result) EXCEPT
                       !.refreshing = TRUE, !.generation = generation + 1]
       /\ loading' = TRUE /\ gallery' = [gallery EXCEPT !.loading = TRUE]
       /\ UNCHANGED err
       /\ BeginRequest(cmds \ {c}, None, {Request("createRefresh", None)})

\* The host created and started a container, or created it only: the start
\* failed, or the context ended between the two calls.
ContainerStarted(c) ==
    /\ RunReply(c)
    /\ \E id \in ContainersOf(c.host) \ c.gone :
          RefreshAfterCreate(c, "refreshing", id)

ContainerCreatedOnly(c) ==
    /\ RunReply(c)
    /\ \E id \in ContainersOf(c.host) \ c.gone :
          RefreshAfterCreate(c, "partial", id)

ContainerCreateCancelled(c) ==
    /\ RunReply(c) /\ ~c.live
    /\ create' = Ended(c, "cancelled", None) /\ err' = None
    /\ NoRequest(cmds \ {c}, None)
    /\ UNCHANGED <<loading, gallery>>

ContainerCreateFailed(c) ==
    /\ RunReply(c)
    /\ create' = Ended(c, "failed", None) /\ err' = "other"
    /\ NoRequest(cmds \ {c}, None)
    /\ UNCHANGED <<loading, gallery>>

DropRunReply(c) ==
    /\ Delivered(c) /\ c.kind = "run" /\ ~CurrentRun(c)
    /\ cmds' = cmds \ {c}
    /\ OnlyCreate
    /\ UNCHANGED <<viewVars, requestVars, inventoryVars, gallery, pending, create>>

-----------------------------------------------------------------------------
(* ContainerCreateRefreshMsg.  Each listing succeeds or fails by itself.   *)

CurrentCreateRefresh(c) ==
    /\ Delivered(c) /\ c.kind = "createRefresh"
    /\ create.refreshing /\ c.gen = generation /\ c.gen = create.generation

\* Defect: a listing that failed leaves the screen waiting.
RefreshedOnSuccess(complete) ==
    [create EXCEPT !.refreshing = ~complete,
                   !.status = IF complete /\ @ # "partial" THEN "succeeded" ELSE @]

Refreshed(complete) ==
    [create EXCEPT !.refreshing = FALSE,
                   !.status = IF complete /\ @ # "partial" THEN "succeeded" ELSE @]

CreateRefreshed(c) ==
    /\ CurrentCreateRefresh(c)
    /\ NoRequest(cmds \ {c}, None)
    /\ loading' = FALSE /\ details' = None
    /\ screen' = "inventory" /\ mode' = "normal"
    /\ \E listed, imagesListed \in BOOLEAN :
          /\ (listed \/ imagesListed) => c.host # None
          /\ IF listed
             THEN /\ containers' \in SUBSET (ContainersOf(c.host) \ c.gone)
                  /\ LET visible == VisibleIn(containers', filter.matching)
                     IN  selected' \in IF create.result \in visible
                                       THEN {create.result}
                                       ELSE Selections(visible)
             ELSE UNCHANGED <<containers, selected>>
          /\ IF imagesListed
             THEN \E list \in SUBSET ImagesOf(c.host) :
                  \E i \in Selections(VisibleIn(list, gallery.matching)) :
                     gallery' = [gallery EXCEPT !.images = list,
                                   !.selected = i, !.loading = FALSE]
             ELSE gallery' = [gallery EXCEPT !.loading = FALSE]
          /\ err' = IF listed /\ imagesListed THEN None ELSE "other"
          /\ create' = Refreshed(listed /\ imagesListed)
    /\ OnlyCreate /\ UNCHANGED <<detailLoading, pending>>

DropCreateRefresh(c) ==
    /\ Delivered(c) /\ c.kind = "createRefresh" /\ ~CurrentCreateRefresh(c)
    /\ cmds' = cmds \ {c}
    /\ OnlyCreate
    /\ UNCHANGED <<viewVars, requestVars, inventoryVars, gallery, pending, create>>
=============================================================================
