------------------------------- MODULE Images -------------------------------
(***************************************************************************)
(* The image inventory, image details and image removal, and the pull that *)
(* runs beside them with a context and a generation of its own.            *)
(***************************************************************************)
EXTENDS AppState

\* refreshImages, after a caller that has changed the gallery to g and err to e.
RefreshImages(g, e, cs, held) ==
    \/ /\ client = None
       /\ err' = "other" /\ gallery' = g
       /\ NoRequest(cs, held)
    \/ /\ client # None
       /\ err' = e /\ gallery' = [g EXCEPT !.loading = TRUE]
       /\ BeginRequest(cs, held, {Request("listImages", None)})

\* The gallery with no image open.
ClosedImage == [gallery EXCEPT !.details = None, !.target = None]

ImageScreens == {"images", "imageDetails"}

\* Actions that leave everything but the gallery, the view and the requests.
OnlyGallery == UNCHANGED <<loop, bookVars, linkVars, inventoryVars, filter,
                           stream, create, gone>>

-----------------------------------------------------------------------------
(* Keys *)

OpenImages ==
    /\ InScreen("images", Screens \ {"logs", "stats"}) /\ MayRequest
    /\ screen' = "images"
    /\ RefreshImages([ClosedImage EXCEPT !.filtering = FALSE, !.feedback = None],
                     None, cmds, requestCancel)
    /\ OnlyGallery /\ UNCHANGED <<mode, pending, pull>>

RefreshImagesKey ==
    /\ InScreen("refresh", {"images"}) /\ MayRequest
    /\ RefreshImages(gallery, err, cmds, requestCancel)
    /\ OnlyGallery /\ UNCHANGED <<screen, mode, pending, pull>>

RefreshImageDetails ==
    /\ InScreen("refresh", {"imageDetails"})
    /\ gallery.details # None /\ client # None /\ MayRequest
    /\ gallery' = [gallery EXCEPT !.detailLoading = TRUE]
    /\ BeginRequest(cmds, requestCancel,
                    {Request("inspectImage", gallery.details)})
    /\ OnlyGallery /\ UNCHANGED <<viewVars, pending, pull>>

OpenImageDetails ==
    /\ InScreen("open", {"images"}) /\ MayRequest
    /\ None \notin {gallery.selected, client}
    /\ screen' = "imageDetails" /\ err' = None
    /\ gallery' = [gallery EXCEPT !.details = None, !.detailLoading = TRUE,
                                  !.target = gallery.selected]
    /\ BeginRequest(cmds, requestCancel,
                    {Request("inspectImage", gallery.selected)})
    /\ OnlyGallery /\ UNCHANGED <<mode, pending, pull>>

OpenImageDetailsRefused ==
    /\ InScreen("open", {"images"})
    /\ None \in {gallery.selected, client}
    /\ Refuse

BackFromImages ==
    /\ \/ /\ InScreen("back", {"imageDetails"})
          /\ screen' = "images" /\ gallery' = ClosedImage
       \/ /\ InScreen("back", {"images"})
          /\ screen' = "inventory" /\ UNCHANGED gallery
    /\ OnlyGallery
    /\ UNCHANGED <<mode, err, requestVars, pending, pull, cmds>>

MoveImageSelection ==
    /\ InScreen("move", {"images"})
    /\ \E i \in Selections(visibleImages) :
          gallery' = [gallery EXCEPT !.selected = i]
    /\ OnlyGallery /\ UNCHANGED <<viewVars, requestVars, pending, pull, cmds>>

\* The image an image screen acts on: the one displayed, or the selected one.
ImageInView ==
    IF screen = "imageDetails" /\ gallery.details # None
    THEN gallery.details ELSE gallery.selected

RequestImageConfirmation ==
    /\ InScreen("remove", ImageScreens)
    /\ \/ /\ ImageInView # None
          /\ pending' = [action |-> "imageRemove", target |-> ImageInView,
                         generation |-> generation, connection |-> profile]
          /\ mode' = "confirm" /\ err' = None
          /\ OnlyGallery
          /\ UNCHANGED <<screen, requestVars, gallery, pull, cmds>>
       \/ ImageInView = None /\ Refuse

\* The image filter; unlike the other one it is edited with literal keys.
InImageFilter(key) ==
    /\ Pressed(key) /\ mode \in {"normal", "profiles"}
    /\ gallery.filtering /\ ~filter.editing

FilterImages ==
    /\ \/ /\ InScreen("filter", {"images"})
          /\ gallery' = [gallery EXCEPT !.filtering = TRUE]
       \/ /\ InImageFilter("filter")
          /\ \E matching \in SUBSET ImageIds :
             \E i \in Selections(VisibleIn(gallery.images, matching)) :
                gallery' = [gallery EXCEPT !.matching = matching, !.selected = i]
       \/ /\ InImageFilter("accept")
          /\ \E i \in Selections(visibleImages) :
                gallery' = [gallery EXCEPT !.filtering = FALSE, !.selected = i]
       \/ /\ InImageFilter("back")
          /\ gallery' = [gallery EXCEPT !.filtering = FALSE]
    /\ OnlyGallery /\ UNCHANGED <<viewVars, requestVars, pending, pull, cmds>>

-----------------------------------------------------------------------------
(* ImageInventoryLoadedMsg.  The same reply ends a pull that waits for it. *)

ImageInventoryReply(c) ==
    /\ Answers(c, {"listImages"})
    /\ NoRequest(cmds \ {c}, None)
    /\ OnlyGallery /\ UNCHANGED <<mode, pending>>

\* Defect: the reply clears the displayed error, like the other replies.
ShowNoFeedback == err' = None

ShowFeedback == err' = gallery.feedback

ImageInventoryLoaded(c) ==
    /\ ImageInventoryReply(c) /\ c.host # None
    /\ \E list \in SUBSET ImagesOf(c.host) :
       \E i \in Selections(VisibleIn(list, gallery.matching)) :
          gallery' = [gallery EXCEPT !.images = list, !.selected = i,
                                     !.loading = FALSE, !.feedback = None]
    /\ ShowFeedback
    /\ IF gallery.feedback = None /\ pull.status = "refreshing"
       THEN /\ screen' = "images"
            /\ pull' = [pull EXCEPT !.status = "succeeded", !.pulling = FALSE]
       ELSE UNCHANGED <<screen, pull>>

ImageInventoryFailed(c) ==
    /\ ImageInventoryReply(c)
    /\ gallery' = [gallery EXCEPT !.loading = FALSE]
    /\ err' = "other"
    /\ pull' = IF pull.status = "refreshing"
               THEN [pull EXCEPT !.status = "failed"] ELSE pull
    /\ UNCHANGED screen

-----------------------------------------------------------------------------
(* ImageDetailsLoadedMsg: dropped too when its image is no longer open *)

\* Images are compared by id: TargetID against imageDetailTarget.
StillOpen(image) == gallery.target # None /\ image.id = gallery.target.id

ImageDetailsReply(c) ==
    /\ Answers(c, {"inspectImage"})
    /\ StillOpen(c.target)
    /\ NoRequest(cmds \ {c}, None)
    /\ OnlyGallery /\ UNCHANGED <<screen, mode, pending, pull>>

ImageDetailsLoaded(c) ==
    /\ ImageDetailsReply(c)
    /\ \E i \in ImagesOf(c.host) :
          /\ i.id = c.target.id
          /\ gallery' = [gallery EXCEPT !.details = i, !.detailLoading = FALSE]
    /\ err' = None

ImageDetailsFailed(c) ==
    /\ ImageDetailsReply(c)
    /\ gallery' = [gallery EXCEPT !.detailLoading = FALSE]
    /\ err' = "other"

ImageDetailsClosed(c) ==
    /\ Answers(c, {"inspectImage"})
    /\ ~StillOpen(c.target)
    /\ cmds' = cmds \ {c}
    /\ OnlyGallery /\ UNCHANGED <<viewVars, requestVars, gallery, pending, pull>>

-----------------------------------------------------------------------------
(* OperationFinishedMsg of an image removal *)

ImageRemoveFinished(c) ==
    /\ Answers(c, {"imageRemove"})
    /\ loading' = FALSE
    /\ UNCHANGED <<loop, bookVars, linkVars, mode, containers, selected,
                   details, detailLoading, filter, pending, stream, pull,
                   create, gone>>

ImageRemoved(c) ==
    /\ ImageRemoveFinished(c)
    /\ screen' = "images"
    /\ RefreshImages([ClosedImage EXCEPT !.feedback = None], None,
                     cmds \ {c}, None)

\* The explanation survives the refresh: the reply displays the feedback.
ImageRemoveStale(c) ==
    /\ ImageRemoveFinished(c)
    /\ screen' = "images"
    /\ RefreshImages([ClosedImage EXCEPT !.feedback = "stale"], "stale",
                     cmds \ {c}, None)

ImageRemoveFailed(c) ==
    /\ ImageRemoveFinished(c)
    /\ err' = "other"
    /\ NoRequest(cmds \ {c}, None)
    /\ UNCHANGED <<screen, gallery>>
=============================================================================
