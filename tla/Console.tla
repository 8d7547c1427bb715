------------------------------- MODULE Console -------------------------------
(***************************************************************************)
(* The whole application: the confirmation dialog, which dispatches to the *)
(* operations of several components, and the next-state relation over keys *)
(* and messages.  One step is one call of Update.                          *)
(***************************************************************************)
EXTENDS Connection, Containers, ImagePull, ContainerCreate, Streams

\* A dialog is stale once a request was sent, or the target changed, after it
\* opened; a create also needs its image still listed under its generation.
DialogIsStale ==
    \/ pending.generation # generation
    \/ pending.connection # profile
    \/ /\ pending.action = "run"
       /\ ~ImageIsCurrent \/ create.imageGeneration # generation

\* The dialog goes away (resetPendingConfirmation).
DialogCloses ==
    /\ mode' = "normal" /\ pending' = None
    /\ UNCHANGED <<loop, bookVars, linkVars, screen, containers, selected,
                   details, detailLoading, filter, gallery, stream, pull, gone>>

ConfirmStale ==
    /\ InDialog("confirm") /\ DialogIsStale
    /\ DialogCloses
    /\ IF pending.action = "run" THEN CreateFails
       ELSE err' = "other" /\ UNCHANGED create
    /\ UNCHANGED <<requestVars, loading, cmds>>

\* Defect: the mutation applies to what is selected when it is confirmed.
ConfirmSelected ==
    /\ InDialog("confirm") /\ ~DialogIsStale /\ MayRequest
    /\ pending.action # "run"
    /\ DialogCloses
    /\ RunOperation(pending.action,
         IF pending.action = "imageRemove" THEN gallery.selected ELSE selected)
    /\ UNCHANGED create

ConfirmOperation ==
    /\ InDialog("confirm") /\ ~DialogIsStale /\ MayRequest
    /\ pending.action # "run"
    /\ DialogCloses
    /\ RunOperation(pending.action, pending.target)
    /\ UNCHANGED create

\* Defect: the container is created from the image the form has now.
ConfirmFormImage ==
    /\ InDialog("confirm") /\ ~DialogIsStale /\ MayRequest
    /\ pending.action = "run"
    /\ DialogCloses
    /\ RunContainerCreate(create.image)
    /\ UNCHANGED loading

ConfirmCreate ==
    /\ InDialog("confirm") /\ ~DialogIsStale /\ MayRequest
    /\ pending.action = "run"
    /\ DialogCloses
    /\ RunContainerCreate(pending.target)
    /\ UNCHANGED loading

CancelDialog ==
    /\ InDialog("cancel")
    /\ DialogCloses
    /\ create' = IF pending.action = "run"
                 THEN [create EXCEPT !.status = "editing"] ELSE create
    /\ UNCHANGED <<err, requestVars, loading, cmds>>

QuitKey == InScreen("quit", Screens) /\ QuitNow

-----------------------------------------------------------------------------
ConnectionKeys ==
    \/ OpenSelector \/ CloseSelector \/ MoveCursor \/ QuitSelector
    \/ NewProfile \/ EditProfile \/ CloseForm \/ CursorPanic
    \/ SaveProfile \/ SaveProfileFails \/ RemoveProfile \/ RemoveProfileFails
    \/ OpenProfile

ContainerKeys ==
    \/ RefreshKey \/ RefreshDetails \/ MoveSelection
    \/ OpenDetails \/ OpenDetailsRefused \/ CloseDetails
    \/ StartKey
    \/ \E action \in Lifecycle \ {"start"} : RequestConfirmation(action)
    \/ OpenFilter \/ TypeFilter \/ AcceptFilter \/ LeaveFilter
    \/ \E kind \in StreamKinds : OpenStream(kind)
    \/ CloseStream

ImageKeys ==
    \/ OpenImages \/ RefreshImagesKey \/ RefreshImageDetails
    \/ OpenImageDetails \/ OpenImageDetailsRefused \/ BackFromImages
    \/ MoveImageSelection \/ FilterImages \/ RequestImageConfirmation
    \/ OpenImagePull \/ LeaveImagePull \/ StartImagePull \/ CancelImagePull
    \/ QuitPull
    \/ OpenContainerCreate \/ LeaveContainerCreate \/ CancelContainerCreate
    \/ SubmitContainerCreate \/ RejectContainerCreate \/ QuitContainerCreate

DialogKeys == ConfirmStale \/ ConfirmOperation \/ ConfirmCreate \/ CancelDialog

UserStep == ConnectionKeys \/ ContainerKeys \/ ImageKeys \/ DialogKeys \/ QuitKey

ConnectionMessage(c) ==
    \/ ConfigUnreadable(c) \/ ConfigLoaded(c)
    \/ ProfileRefused(c) \/ ProfileConnectedUnlisted(c) \/ ProfileConnected(c)

ContainerMessage(c) ==
    \/ InventoryLoaded(c) \/ InventoryFailed(c)
    \/ DetailsLoaded(c) \/ DetailsFailed(c)
    \/ OperationSucceeded(c) \/ OperationFailed(c) \/ OperationStale(c)

ImageMessage(c) ==
    \/ ImageInventoryLoaded(c) \/ ImageInventoryFailed(c)
    \/ ImageDetailsLoaded(c) \/ ImageDetailsFailed(c) \/ ImageDetailsClosed(c)
    \/ ImageRemoved(c) \/ ImageRemoveStale(c) \/ ImageRemoveFailed(c)

PullMessage(c) ==
    \/ \E status \in {"failed", "cancelled"} :
          PullEvent(c, status) \/ PullFailed(c, status)
    \/ PullDone(c) \/ DropPullEvent(c)

CreateMessage(c) ==
    \/ ContainerStarted(c) \/ ContainerCreatedOnly(c)
    \/ ContainerCreateCancelled(c) \/ ContainerCreateFailed(c)
    \/ DropRunReply(c) \/ CreateRefreshed(c) \/ DropCreateRefresh(c)

StreamMessage(c) ==
    \/ StatsSample(c) \/ DropStreamEvent(c)
    \/ \E e \in {err, "other"} : StreamEnded(c, e)

Deliver(c) ==
    \/ DropStaleReply(c)
    \/ ConnectionMessage(c) \/ ContainerMessage(c) \/ ImageMessage(c)
    \/ PullMessage(c) \/ CreateMessage(c) \/ StreamMessage(c)

\* The program has ended: nothing happens any more.
Terminated == loop # "running" /\ UNCHANGED vars

Next == UserStep \/ (\E c \in cmds : Deliver(c)) \/ Terminated

Spec == Init /\ [][Next]_vars

\* Every command runs in a goroutine of its own and Bubble Tea handles each
\* message; that a request ends is the host's part, for nothing times out.  Only
\* the requests that a screen waits for need to end.
Answered(kind) == WF_vars(\E c \in cmds : c.kind = kind /\ Deliver(c))
PullEnds ==
    WF_vars(\E c \in cmds : \/ PullDone(c) \/ DropPullEvent(c)
                            \/ PullFailed(c, "failed"))
FairSpec == Spec /\ Answered("run") /\ Answered("createRefresh") /\ PullEnds
=============================================================================
