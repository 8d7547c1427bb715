---------------------------- MODULE ScreenProofs -----------------------------
(***************************************************************************)
(* What the screens show belongs to the connected host, and what a dialog  *)
(* shows is what its confirmation sends.  The reason is that a reply that  *)
(* is accepted is of the latest request, which the connected host got, and *)
(* that a dialog is refused once a request followed it.                    *)
(***************************************************************************)
EXTENDS RequestProofs

USE DEF bookVars, linkVars, viewVars, requestVars, inventoryVars, featureVars

-----------------------------------------------------------------------------
(* What each step does to the screens *)

Displayed(g) == g.images \cup ({g.selected, g.details} \ {None})

\* The gallery shows no other images than before, and waits for a list only
\* where there is a session.
GalleryKept ==
    /\ Displayed(gallery') \subseteq Displayed(gallery)
    /\ gallery.loading => gallery'.loading
    /\ gallery'.loading => gallery.loading \/ client # None
    /\ client' \in {client, None}

\* The gallery shows what the latest request has read.
GalleryRead(c) ==
    /\ c \in Requests /\ c.kind # "connect" /\ c.gen = generation
    /\ Displayed(gallery') \subseteq Displayed(gallery) \cup ImagesOf(c.host)
    /\ gallery'.loading => gallery.loading
    /\ err' = gallery.feedback \/ gallery'.feedback = gallery.feedback
    /\ UNCHANGED <<client, generation>>

\* The reply of a connection attempt, which may empty the gallery.
GalleryOfTarget(c) ==
    /\ c \in Requests /\ c.kind = "connect" /\ c.gen = generation
    /\ Requests' = Requests \ {c} /\ UNCHANGED <<generation, mode, pending>>
    /\ \/ UNCHANGED gallery
       \/ Displayed(gallery') = {} /\ ~gallery'.loading
    /\ ~loading'

\* A dialog opens on what is displayed, and sends nothing yet.
DialogOpens ==
    /\ pending'.generation = generation /\ mode # "confirm"
    /\ UNCHANGED <<generation, client, cmds, gallery>>
    /\ pending'.action = "imageRemove" => pending'.target \in Displayed(gallery)

DialogKept == mode' = "confirm" => UNCHANGED <<mode, pending>> \/ DialogOpens

\* A reply of another request than a connection is accepted.
OtherReply == \E c \in Requests : c.kind # "connect" /\ c.gen = generation

\* While connecting nothing is sent, and nothing else claims to load.
LinkKept ==
    profile' # None /\ client' = None =>
        /\ UNCHANGED <<profile, client>>
        /\ \/ OtherReply
           \/ (loading' => loading) /\ UNCHANGED generation

ScreenStep ==
    \/ /\ DialogKept /\ LinkKept
       /\ GalleryKept \/ \E c : GalleryRead(c)
    \/ \E c : GalleryOfTarget(c)
    \/ \E p \in Profiles : TargetBegins(p)

LEMMA SameGallery ==
    ASSUME UNCHANGED <<gallery, client>>
    PROVE  GalleryKept
BY DEF GalleryKept

LEMMA FewerImages ==
    ASSUME UNCHANGED client, Displayed(gallery') \subseteq Displayed(gallery),
           gallery'.loading = gallery.loading
    PROVE  GalleryKept
BY DEF GalleryKept

LEMMA ContainerKeysScreen ==
    ASSUME TypeOK, ContainerKeys
    PROVE  ScreenStep
<1>1. UNCHANGED <<linkVars, gallery>>
  <2>1. UNCHANGED gallery
    BY DEF ContainerKeys, RefreshKey, RefreshDetails, MoveSelection,
           OpenDetails, OpenDetailsRefused, CloseDetails, StartKey,
           RequestConfirmation, OpenFilter, TypeFilter, AcceptFilter,
           LeaveFilter, Filtering, OpenStream, CloseStream, OnlyStream, Refuse
  <2> QED BY <2>1, OthersKeepTargets
<1>2. GalleryKept BY <1>1, SameGallery
<1>3. client = None => UNCHANGED <<loading, generation>>
  BY DEF ContainerKeys, RefreshKey, Refresh, NoRequest, RefreshDetails,
         MoveSelection, OpenDetails, OpenDetailsRefused, CloseDetails, StartKey,
         RunOperation, RequestConfirmation, OpenFilter, TypeFilter, AcceptFilter,
         LeaveFilter, Filtering, OpenStream, CloseStream, OnlyStream, Refuse
<1>4. LinkKept BY <1>1, <1>3 DEF LinkKept
<1>5. DialogKept
  <2>1. ASSUME NEW action \in Lifecycle \ {"start"}, RequestConfirmation(action)
        PROVE  DialogKept
    <3>1. CASE Refuse BY <3>1 DEF Refuse, DialogKept
    <3>2. CASE ~Refuse
      <4>1. /\ pending'.generation = generation /\ pending'.action = action
            /\ mode = "normal" /\ UNCHANGED <<generation, client, cmds, gallery>>
        BY <1>1, <2>1, <3>2 DEF RequestConfirmation, Confirming, InScreen
      <4>2. action # "imageRemove" BY DEF Lifecycle
      <4> QED BY <4>1, <4>2 DEF DialogOpens, DialogKept
    <3> QED BY <3>1, <3>2
  <2>2. CASE \/ RefreshKey \/ RefreshDetails \/ MoveSelection
             \/ OpenDetails \/ OpenDetailsRefused \/ CloseDetails
             \/ StartKey \/ OpenFilter \/ TypeFilter \/ AcceptFilter
             \/ LeaveFilter \/ (\E kind \in StreamKinds : OpenStream(kind))
             \/ CloseStream
    BY <2>2 DEF RefreshKey, RefreshDetails, MoveSelection,
           OpenDetails, OpenDetailsRefused, CloseDetails, StartKey,
           OpenFilter, TypeFilter, AcceptFilter, LeaveFilter, Filtering,
           OpenStream, CloseStream, OnlyStream, Refuse, DialogKept
  <2> QED BY <2>1, <2>2 DEF ContainerKeys
<1> QED BY <1>2, <1>4, <1>5 DEF ScreenStep

LEMMA RefreshImagesScreen ==
    ASSUME NEW g \in Gallery, NEW e, NEW cs, NEW held,
           Displayed(g) \subseteq Displayed(gallery), g.loading = gallery.loading,
           RefreshImages(g, e, cs, held), UNCHANGED client
    PROVE  GalleryKept /\ (client = None => UNCHANGED generation)
<1>1. CASE client = None /\ gallery' = g /\ NoRequest(cs, held)
  BY <1>1, FewerImages DEF NoRequest
<1>2. CASE client # None /\ gallery' = [g EXCEPT !.loading = TRUE]
  <2>1. Displayed(gallery') = Displayed(g) /\ gallery'.loading
    BY <1>2 DEF Displayed, Gallery
  <2> QED BY <1>2, <2>1 DEF GalleryKept
<1> QED BY <1>1, <1>2 DEF RefreshImages

\* Closing an image shows fewer.
LEMMA ClosedImageScreen ==
    ASSUME gallery \in Gallery, NEW f \in BOOLEAN, NEW e \in Errors
    PROVE  \A g \in {ClosedImage, [ClosedImage EXCEPT !.feedback = e],
                     [ClosedImage EXCEPT !.filtering = f, !.feedback = e]} :
             /\ g \in Gallery /\ g.loading = gallery.loading
             /\ Displayed(g) \subseteq Displayed(gallery)
<1>1. ClosedImage \in Gallery BY DEF ClosedImage, Gallery
<1>2. /\ ClosedImage.images = gallery.images
      /\ ClosedImage.selected = gallery.selected
      /\ ClosedImage.details = None /\ ClosedImage.loading = gallery.loading
  BY DEF ClosedImage, Gallery
<1> QED BY <1>1, <1>2 DEF Gallery, Displayed

LEMMA ImageKeysScreen ==
    ASSUME TypeOK, ImageKeys
    PROVE  ScreenStep
<1> USE DEF OnlyGallery, OnlyPull, OnlyCreate
<1>0. /\ gallery \in Gallery /\ UNCHANGED linkVars
      /\ None \in Errors /\ FALSE \in BOOLEAN
  BY OthersKeepTargets DEF TypeOK, Errors
<1>1. ASSUME GalleryKept, UNCHANGED loading, client = None => UNCHANGED generation,
             UNCHANGED <<mode, pending>>
      PROVE  ScreenStep
  BY <1>0, <1>1 DEF ScreenStep, DialogKept, LinkKept
<1>2. UNCHANGED gallery => GalleryKept BY <1>0, SameGallery
<1>3. CASE OpenImages
  <2> DEFINE g == [ClosedImage EXCEPT !.filtering = FALSE, !.feedback = None]
  <2>1. RefreshImages(g, None, cmds, requestCancel)
        /\ UNCHANGED <<loading, mode, pending>>
    BY <1>3 DEF OpenImages
  <2>2. /\ g \in Gallery /\ g.loading = gallery.loading
        /\ Displayed(g) \subseteq Displayed(gallery)
    BY <1>0, ClosedImageScreen
  <2> HIDE DEF g
  <2> QED BY <1>0, <1>1, <2>1, <2>2, RefreshImagesScreen
<1>4. CASE RefreshImagesKey
  BY <1>0, <1>1, <1>4, RefreshImagesScreen DEF RefreshImagesKey
<1>5. CASE RefreshImageDetails \/ OpenImageDetails
  <2>1. /\ Displayed(gallery') \subseteq Displayed(gallery)
        /\ gallery'.loading = gallery.loading
    BY <1>0, <1>5 DEF RefreshImageDetails, OpenImageDetails, Gallery, Displayed
  <2>2. GalleryKept BY <1>0, <2>1, FewerImages
  <2> QED BY <1>1, <1>5, <2>2 DEF RefreshImageDetails, OpenImageDetails
<1>6. CASE BackFromImages \/ MoveImageSelection \/ FilterImages
  <2>1. /\ Displayed(gallery') \subseteq Displayed(gallery)
        /\ gallery'.loading = gallery.loading
    <3>1. CASE gallery' = ClosedImage BY <1>0, <3>1, ClosedImageScreen
    <3>2. CASE UNCHANGED gallery BY <3>2
    <3>3. ASSUME NEW matching, NEW i \in Selections(VisibleIn(gallery.images, matching)),
                 \/ gallery' = [gallery EXCEPT !.selected = i]
                 \/ gallery' = [gallery EXCEPT !.matching = matching, !.selected = i]
                 \/ gallery' = [gallery EXCEPT !.filtering = FALSE, !.selected = i]
          PROVE  /\ Displayed(gallery') \subseteq Displayed(gallery)
                 /\ gallery'.loading = gallery.loading
      <4>1. i \in gallery.images \cup {None}
        BY VisibleInType, SelectionsType
      <4> QED BY <1>0, <3>3, <4>1 DEF Gallery, Displayed
    <3>4. CASE \E f \in BOOLEAN : gallery' = [gallery EXCEPT !.filtering = f]
      BY <1>0, <3>4 DEF Gallery, Displayed
    <3> QED BY <1>6, <3>1, <3>2, <3>3, <3>4
            DEF BackFromImages, MoveImageSelection, FilterImages, visibleImages
  <2>2. GalleryKept BY <1>0, <2>1, FewerImages
  <2> QED BY <1>1, <1>6, <2>2 DEF BackFromImages, MoveImageSelection, FilterImages
<1>7. CASE CancelImagePull
  <2>1. RefreshImages(gallery, err, WithoutPull(cmds), requestCancel)
        /\ UNCHANGED <<loading, mode, pending>>
    BY <1>7 DEF CancelImagePull
  <2> QED BY <1>0, <1>1, <2>1, RefreshImagesScreen
<1>8. CASE \/ OpenImageDetailsRefused \/ OpenImagePull \/ LeaveImagePull
           \/ StartImagePull \/ QuitPull \/ OpenContainerCreate
           \/ LeaveContainerCreate \/ CancelContainerCreate
           \/ RejectContainerCreate \/ QuitContainerCreate
  BY <1>1, <1>2, <1>8
     DEF OpenImageDetailsRefused, OpenImagePull, LeaveImagePull, StartImagePull,
         QuitPull, OpenContainerCreate, LeaveContainerCreate,
         CancelContainerCreate, RejectContainerCreate, QuitContainerCreate,
         QuitNow, Refuse
<1>9. CASE RequestImageConfirmation \/ SubmitContainerCreate
  <2>1. UNCHANGED <<gallery, loading, generation>>
    BY <1>9 DEF RequestImageConfirmation, SubmitContainerCreate, Refuse
  <2>2. DialogKept
    <3>1. CASE UNCHANGED <<mode, pending>> BY <3>1 DEF DialogKept
    <3>2. CASE RequestImageConfirmation /\ ~Refuse
      <4>1. /\ ImageInView \in Displayed(gallery)
            /\ pending' = [action |-> "imageRemove", target |-> ImageInView,
                           generation |-> generation, connection |-> profile]
            /\ mode = "normal" /\ UNCHANGED cmds
        BY <3>2 DEF RequestImageConfirmation, ImageInView, Displayed, InScreen
      <4> QED BY <1>0, <2>1, <4>1 DEF DialogOpens, DialogKept
    <3>3. CASE SubmitContainerCreate /\ mode' = "confirm"
               /\ ~UNCHANGED <<mode, pending>>
      <4>1. /\ pending' = [action |-> "run", target |-> create.image,
                           generation |-> generation, connection |-> profile]
            /\ UNCHANGED cmds
        BY <3>3 DEF SubmitContainerCreate
      <4>2. mode \in {"normal", "profiles"}
        BY <3>3 DEF SubmitContainerCreate, InCreate, Foreground
      <4> QED BY <1>0, <2>1, <4>1, <4>2 DEF DialogOpens, DialogKept
    <3> QED BY <1>9, <3>1, <3>2, <3>3 DEF Refuse, DialogKept
  <2> QED BY <1>0, <1>2, <2>1, <2>2 DEF LinkKept, ScreenStep
<1> QED BY <1>3, <1>4, <1>5, <1>6, <1>7, <1>8, <1>9 DEF ImageKeys

LEMMA DialogKeysScreen ==
    ASSUME TypeOK, DialogKeys
    PROVE  ScreenStep
<1>0. UNCHANGED linkVars BY OthersKeepTargets
<1>1. mode' = "normal" /\ UNCHANGED gallery
  BY DEF DialogKeys, ConfirmStale, ConfirmOperation, ConfirmCreate, CancelDialog,
         DialogCloses
<1>2. client = None => UNCHANGED <<loading, generation>>
  BY DEF DialogKeys, ConfirmStale, ConfirmOperation, ConfirmCreate, CancelDialog,
         DialogCloses, RunOperation, RunContainerCreate, CreateFails
<1>3. GalleryKept BY <1>0, <1>1, SameGallery
<1> QED BY <1>0, <1>1, <1>2, <1>3 DEF DialogKept, LinkKept, ScreenStep

\* The replies about containers, the feeds' events, and what is dropped.
LEMMA OtherMessageScreen ==
    ASSUME TypeOK, NEW c \in cmds,
           \/ DropStaleReply(c) \/ ContainerMessage(c) \/ StreamMessage(c)
    PROVE  ScreenStep
<1>0. UNCHANGED linkVars BY OthersKeepTargets
<1>1. UNCHANGED <<gallery, mode, pending>>
  BY DEF DropStaleReply, ContainerMessage, InventoryLoaded, InventoryFailed,
         InventoryReply, DetailsLoaded, DetailsFailed, DetailsReply,
         OperationSucceeded, OperationFailed, OperationStale, Finished,
         StreamMessage, StatsSample, StreamEnded, DropStreamEvent, CurrentStream,
         OnlyStream
<1>2. GalleryKept BY <1>0, <1>1, SameGallery
<1>3. OtherReply \/ UNCHANGED <<loading, generation>>
  <2>1. CASE ContainerMessage(c)
    <3>1. c.kind \in {"list", "inspect"} \cup Lifecycle /\ c.gen = generation
      BY <2>1 DEF ContainerMessage, InventoryLoaded, InventoryFailed,
             InventoryReply, DetailsLoaded, DetailsFailed, DetailsReply,
             OperationSucceeded, OperationFailed, OperationStale, Finished, Answers
    <3>2. c.kind \in RequestKinds \ {"connect"}
      BY <3>1 DEF RequestKinds, Reads, Mutations, Lifecycle
    <3> QED BY <3>1, <3>2 DEF OtherReply, Requests, Of
  <2>2. CASE DropStaleReply(c) \/ StreamMessage(c)
    BY <2>2 DEF DropStaleReply, StreamMessage, StatsSample, StreamEnded,
                DropStreamEvent, CurrentStream, OnlyStream
  <2> QED BY <2>1, <2>2
<1> QED BY <1>0, <1>1, <1>2, <1>3 DEF DialogKept, LinkKept, ScreenStep

LEMMA ImageMessageScreen ==
    ASSUME TypeOK, NEW c \in cmds, ImageMessage(c)
    PROVE  ScreenStep
<1>0. UNCHANGED linkVars /\ gallery \in Gallery /\ "stale" \in Errors
  BY OthersKeepTargets DEF TypeOK, Errors
<1>1. UNCHANGED <<mode, pending>>
  BY DEF ImageMessage, ImageInventoryLoaded, ImageInventoryFailed,
         ImageInventoryReply, ImageDetailsLoaded, ImageDetailsFailed,
         ImageDetailsReply, ImageDetailsClosed, ImageRemoved, ImageRemoveStale,
         ImageRemoveFailed, ImageRemoveFinished, OnlyGallery
<1>2. c \in Requests /\ c.kind # "connect" /\ c.gen = generation
  <2>1. /\ c.kind \in {"listImages", "inspectImage", "imageRemove"}
        /\ c.gen = generation
    BY DEF ImageMessage, ImageInventoryLoaded, ImageInventoryFailed,
           ImageInventoryReply, ImageDetailsLoaded, ImageDetailsFailed,
           ImageDetailsReply, ImageDetailsClosed, ImageRemoved, ImageRemoveStale,
           ImageRemoveFailed, ImageRemoveFinished, Answers
  <2>2. c.kind \in RequestKinds /\ c.kind # "connect"
    BY <2>1 DEF RequestKinds, Reads, Mutations
  <2> QED BY <2>1, <2>2 DEF Requests, Of
<1>3. DialogKept /\ LinkKept
  BY <1>0, <1>1, <1>2 DEF DialogKept, LinkKept, OtherReply
<1>4. CASE ImageInventoryLoaded(c)
  <2>0. PICK list \in SUBSET ImagesOf(c.host) :
          \E i \in Selections(VisibleIn(list, gallery.matching)) :
          gallery' = [gallery EXCEPT !.images = list, !.selected = i,
                                     !.loading = FALSE, !.feedback = None]
    BY <1>4 DEF ImageInventoryLoaded
  <2>1. PICK i \in Selections(VisibleIn(list, gallery.matching)) :
          gallery' = [gallery EXCEPT !.images = list, !.selected = i,
                                     !.loading = FALSE, !.feedback = None]
    BY <2>0
  <2>2. i \in list \cup {None} BY VisibleInType, SelectionsType
  <2>3. /\ Displayed(gallery') \subseteq Displayed(gallery) \cup ImagesOf(c.host)
        /\ gallery'.loading = FALSE
    BY <1>0, <2>1, <2>2 DEF Gallery, Displayed
  <2>4. err' = gallery.feedback /\ UNCHANGED <<client, generation>>
    BY <1>0, <1>4 DEF ImageInventoryLoaded, ShowFeedback, ImageInventoryReply,
                      NoRequest
  <2> QED BY <1>2, <1>3, <2>3, <2>4 DEF GalleryRead, ScreenStep
<1>5. CASE ImageInventoryFailed(c) \/ ImageDetailsFailed(c) \/ ImageDetailsLoaded(c)
  <2>1. \/ gallery' = [gallery EXCEPT !.loading = FALSE]
        \/ gallery' = [gallery EXCEPT !.detailLoading = FALSE]
        \/ \E i \in ImagesOf(c.host) :
              gallery' = [gallery EXCEPT !.details = i, !.detailLoading = FALSE]
    BY <1>5 DEF ImageInventoryFailed, ImageDetailsFailed, ImageDetailsLoaded
  <2>2. /\ Displayed(gallery') \subseteq Displayed(gallery) \cup ImagesOf(c.host)
        /\ gallery'.loading \in {FALSE, gallery.loading}
        /\ gallery'.feedback = gallery.feedback
    BY <1>0, <2>1 DEF Gallery, Displayed
  <2>3. UNCHANGED <<client, generation>>
    BY <1>0, <1>5 DEF ImageInventoryFailed, ImageDetailsFailed, ImageDetailsLoaded,
                      ImageInventoryReply, ImageDetailsReply, NoRequest
  <2> QED BY <1>2, <1>3, <2>2, <2>3 DEF GalleryRead, ScreenStep
<1>6. CASE ImageDetailsClosed(c) \/ ImageRemoveFailed(c)
  <2>1. UNCHANGED gallery BY <1>6 DEF ImageDetailsClosed, ImageRemoveFailed
  <2>2. GalleryKept BY <1>0, <2>1, SameGallery
  <2> QED BY <1>3, <2>2 DEF ScreenStep
<1>7. CASE ImageRemoved(c) \/ ImageRemoveStale(c)
  <2>1. PICK e \in {None, "stale"} :
          RefreshImages([ClosedImage EXCEPT !.feedback = e], e, cmds \ {c}, None)
    BY <1>7 DEF ImageRemoved, ImageRemoveStale
  <2> DEFINE g == [ClosedImage EXCEPT !.feedback = e]
  <2>2. /\ g \in Gallery /\ g.loading = gallery.loading
        /\ Displayed(g) \subseteq Displayed(gallery)
    <3>1. e \in Errors BY <1>0 DEF Errors
    <3> QED BY <1>0, <3>1, ClosedImageScreen
  <2>3. RefreshImages(g, e, cmds \ {c}, None) BY <2>1
  <2> HIDE DEF g
  <2>4. GalleryKept BY <1>0, <2>2, <2>3, RefreshImagesScreen
  <2> QED BY <1>3, <2>4 DEF ScreenStep
<1> QED BY <1>4, <1>5, <1>6, <1>7 DEF ImageMessage

LEMMA PullMessageScreen ==
    ASSUME TypeOK, NEW c \in cmds, PullMessage(c)
    PROVE  ScreenStep
<1>0. /\ UNCHANGED linkVars /\ gallery \in Gallery
      /\ UNCHANGED <<mode, pending, loading>>
  BY OthersKeepTargets DEF TypeOK, PullMessage, PullEvent, PullFailed, PullDone,
                           DropPullEvent, OnlyPull
<1>1. ASSUME GalleryKept, client = None => UNCHANGED generation
      PROVE  ScreenStep
  BY <1>0, <1>1 DEF DialogKept, LinkKept, ScreenStep
<1>2. CASE UNCHANGED <<gallery, generation>> BY <1>0, <1>1, <1>2, SameGallery
<1>3. CASE RefreshImages(gallery, err, cmds \ {c}, requestCancel)
  BY <1>0, <1>1, <1>3, RefreshImagesScreen
<1> QED BY <1>2, <1>3
        DEF PullMessage, PullEvent, PullFailed, PullDone, DropPullEvent

LEMMA CreateMessageScreen ==
    ASSUME TypeOK, NEW c \in cmds, CreateMessage(c)
    PROVE  ScreenStep
<1>0. UNCHANGED linkVars /\ gallery \in Gallery
  BY OthersKeepTargets DEF TypeOK
<1>1. ASSUME GalleryKept, client = None => UNCHANGED <<loading, generation>>,
             UNCHANGED <<mode, pending>>
      PROVE  ScreenStep
  BY <1>0, <1>1 DEF DialogKept, LinkKept, ScreenStep
<1>2. CASE UNCHANGED <<gallery, loading, generation, mode, pending>>
  BY <1>0, <1>1, <1>2, SameGallery
<1>3. CASE ContainerStarted(c) \/ ContainerCreatedOnly(c)
  <2>1. CASE UNCHANGED <<gallery, loading, generation>>
    BY <1>2, <1>3, <2>1 DEF ContainerStarted, ContainerCreatedOnly, RunReply
  <2>2. CASE client # None /\ gallery' = [gallery EXCEPT !.loading = TRUE]
    <3>1. Displayed(gallery') = Displayed(gallery) /\ gallery'.loading
      BY <1>0, <2>2 DEF Displayed, Gallery
    <3>2. GalleryKept BY <1>0, <2>2, <3>1 DEF GalleryKept
    <3> QED BY <1>1, <1>3, <2>2, <3>2
            DEF ContainerStarted, ContainerCreatedOnly, RunReply
  <2> QED BY <1>3, <2>1, <2>2
          DEF ContainerStarted, ContainerCreatedOnly, RefreshAfterCreate, NoRequest
<1>4. CASE \/ ContainerCreateCancelled(c) \/ ContainerCreateFailed(c)
           \/ DropRunReply(c) \/ DropCreateRefresh(c)
  BY <1>2, <1>4 DEF ContainerCreateCancelled, ContainerCreateFailed, RunReply,
                    NoRequest, DropRunReply, DropCreateRefresh
<1>5. CASE CreateRefreshed(c)
  <2>1. /\ c \in Requests /\ c.kind # "connect" /\ c.gen = generation
        /\ mode' = "normal" /\ UNCHANGED generation
    BY <1>5 DEF CreateRefreshed, CurrentCreateRefresh, NoRequest, Requests, Of,
                RequestKinds, Reads
  <2>2. \/ gallery' = [gallery EXCEPT !.loading = FALSE]
        \/ \E list \in SUBSET ImagesOf(c.host) :
           \E i \in Selections(VisibleIn(list, gallery.matching)) :
              gallery' = [gallery EXCEPT !.images = list, !.selected = i,
                                         !.loading = FALSE]
    BY <1>5 DEF CreateRefreshed
  <2>3. /\ Displayed(gallery') \subseteq Displayed(gallery) \cup ImagesOf(c.host)
        /\ gallery'.loading = FALSE /\ gallery'.feedback = gallery.feedback
    <3>1. CASE gallery' = [gallery EXCEPT !.loading = FALSE]
      BY <1>0, <3>1 DEF Gallery, Displayed
    <3>2. ASSUME NEW list \in SUBSET ImagesOf(c.host),
                 NEW i \in Selections(VisibleIn(list, gallery.matching)),
                 gallery' = [gallery EXCEPT !.images = list, !.selected = i,
                                            !.loading = FALSE]
          PROVE  /\ Displayed(gallery') \subseteq ImagesOf(c.host) \cup Displayed(gallery)
                 /\ gallery'.loading = FALSE /\ gallery'.feedback = gallery.feedback
      <4>1. i \in list \cup {None} BY VisibleInType, SelectionsType
      <4> QED BY <1>0, <3>2, <4>1 DEF Gallery, Displayed
    <3> QED BY <2>2, <3>1, <3>2
  <2>4. GalleryRead(c) BY <1>0, <2>1, <2>3 DEF GalleryRead
  <2>5. DialogKept /\ LinkKept
    BY <1>0, <2>1 DEF DialogKept, LinkKept, OtherReply
  <2> QED BY <2>4, <2>5 DEF ScreenStep
<1> QED BY <1>3, <1>4, <1>5 DEF CreateMessage

\* What a target that begins leaves of the console.
LEMMA TargetBegun ==
    ASSUME TypeOK, NEW p \in Profiles, TargetBegins(p)
    PROVE  /\ generation' = generation + 1
           /\ profile' = p /\ client' = None /\ mode' = "normal"
           /\ Displayed(gallery') = {} /\ gallery'.loading = FALSE
           /\ Requests' = Cancelled(Requests, RequestKinds, requestCancel)
                            \cup {Cmd("connect", p, None, generation + 1)}
<1> DEFINE sent == Cmd("connect", p, None, generation + 1)
<1>1. PICK cs \in SUBSET Command :
        Of(cs, RequestKinds) = Requests /\ BeginProfile(p, cs)
  BY DEF TargetBegins
<1> DEFINE ds == WithoutPull(WithoutStream(cs))
<1>2. WithoutStream(cs) \subseteq Command BY <1>1, StoppedType
<1>3. ds \subseteq Command BY <1>2, StoppedType
<1>4. Of(ds, RequestKinds) = Requests BY <1>1, <1>2, RequestsOf
<1>5. /\ generation' = generation + 1
      /\ cmds' = Cancelled(ds, RequestKinds, requestCancel) \cup {sent}
      /\ profile' = p /\ client' = None /\ mode' = "normal"
      /\ gallery' = EmptyGallery
  BY <1>1 DEF BeginProfile, BeginRequest, Target
<1>6. sent.kind \in RequestKinds BY DEF Cmd, RequestKinds, Reads
<1> HIDE DEF sent, ds
<1>7. Requests' = Of(Cancelled(ds, RequestKinds, requestCancel), RequestKinds)
                    \cup {sent}
  BY <1>5, <1>6 DEF Requests, Of
<1>8. Requests' = Cancelled(Requests, RequestKinds, requestCancel) \cup {sent}
  BY <1>3, <1>4, <1>7, RequestsOf
<1>9. Displayed(gallery') = {} /\ gallery'.loading = FALSE
  BY <1>5 DEF EmptyGallery, Displayed, TypeOK, Gallery
<1> QED BY <1>5, <1>8, <1>9 DEF sent

\* A step that sends nothing to a target that has just changed.
LEMMA ProfileScreen ==
    ASSUME UNCHANGED <<gallery, generation>>, mode' # "confirm",
           \/ UNCHANGED <<linkVars, loading>>
           \/ profile' = None /\ client' \in {client, None}
    PROVE  ScreenStep
<1>1. GalleryKept BY DEF GalleryKept
<1> QED BY <1>1 DEF DialogKept, LinkKept, ScreenStep

LEMMA ConnectionKeysScreen ==
    ASSUME TypeOK, ConnectionKeys
    PROVE  ScreenStep
<1>0. cmds \in SUBSET Command /\ Of(cmds, RequestKinds) = Requests
  BY DEF TypeOK, Requests
<1>1. ASSUME NEW p \in Profiles, BeginProfile(p, cmds)
      PROVE  ScreenStep
  BY <1>0, <1>1 DEF TargetBegins, ScreenStep
<1>2. CASE SaveProfile \/ OpenProfile \/ RemoveProfile
  <2>1. Untargeted(cmds) /\ client' = None => ScreenStep
    BY ProfileScreen DEF Untargeted
  <2> QED BY <1>1, <1>2, <2>1, SelectorOpens DEF TargetStep
<1>3. CASE \/ OpenSelector \/ CloseSelector \/ MoveCursor \/ QuitSelector
           \/ NewProfile \/ EditProfile \/ CloseForm \/ CursorPanic
           \/ SaveProfileFails \/ RemoveProfileFails
  <2>1. UNCHANGED <<gallery, generation, linkVars, loading>> /\ mode' # "confirm"
    BY <1>3 DEF OpenSelector, CloseSelector, MoveCursor, QuitSelector, QuitNow,
         NewProfile, EditProfile, CloseForm, OnlyMode, CursorPanic,
         SaveProfileFails, RemoveProfileFails, InSelector, InForm
  <2> QED BY <2>1, ProfileScreen
<1> QED BY <1>2, <1>3 DEF ConnectionKeys

LEMMA ConnectionMessageScreen ==
    ASSUME TypeOK, NEW c \in cmds, ConnectionMessage(c)
    PROVE  ScreenStep
<1>0. cmds \in SUBSET Command BY DEF TypeOK
<1>1. CASE ConfigUnreadable(c)
  BY <1>1, ProfileScreen DEF ConfigUnreadable
<1>2. CASE ConfigLoaded(c)
  <2>1. Of(cmds \ {c}, RequestKinds) = Requests
    BY <1>2 DEF ConfigLoaded, Of, Requests, RequestKinds, Reads, Mutations,
                Lifecycle
  <2>2. ASSUME NEW p \in Profiles, BeginProfile(p, cmds \ {c})
        PROVE  ScreenStep
    BY <1>0, <2>1, <2>2 DEF TargetBegins, ScreenStep
  <2>3. Untargeted(cmds \ {c}) => ScreenStep
    BY ProfileScreen DEF Untargeted
  <2>4. TargetStep(cmds \ {c}) BY <1>2, ConfigOpens
  <2> QED BY <2>2, <2>3, <2>4 DEF TargetStep
<1>3. CASE \/ ProfileRefused(c) \/ ProfileConnectedUnlisted(c)
           \/ ProfileConnected(c)
  <2>1. /\ Answers(c, {"connect"}) /\ cmds' = WithoutPull(cmds \ {c})
        /\ loading' = FALSE /\ UNCHANGED <<generation, mode, pending>>
        /\ \/ UNCHANGED gallery
           \/ gallery' = [EmptyGallery EXCEPT !.feedback = None]
    BY <1>3 DEF ProfileRefused, ProfileConnectedUnlisted, ProfileConnected,
                Connected
  <2>2. c \in Requests /\ c.kind = "connect" /\ c.gen = generation
    BY <2>1 DEF Answers, Requests, Of, RequestKinds, Reads
  <2>3. Requests' = Requests \ {c}
    <3>1. cmds \ {c} \subseteq Command BY <1>0
    <3>2. Of(WithoutPull(cmds \ {c}), RequestKinds) = Of(cmds \ {c}, RequestKinds)
      BY <3>1, RequestsOf
    <3> QED BY <2>1, <3>2 DEF Requests, Of
  <2>4. gallery' = [EmptyGallery EXCEPT !.feedback = None] =>
          Displayed(gallery') = {} /\ gallery'.loading = FALSE
    BY DEF EmptyGallery, Displayed, TypeOK, Gallery
  <2>5. GalleryOfTarget(c) BY <2>1, <2>2, <2>3, <2>4 DEF GalleryOfTarget
  <2> QED BY <2>5 DEF ScreenStep
<1> QED BY <1>1, <1>2, <1>3 DEF ConnectionMessage

LEMMA EveryScreenStep ==
    ASSUME TypeOK, [Next]_vars
    PROVE  ScreenStep
<1>1. CASE QuitKey \/ UNCHANGED vars
  <2>1. UNCHANGED <<gallery, generation, linkVars, loading, mode, pending>>
    BY <1>1 DEF QuitKey, QuitNow, vars
  <2>2. GalleryKept BY <2>1, SameGallery
  <2> QED BY <2>1, <2>2 DEF DialogKept, LinkKept, ScreenStep
<1>2. CASE UserStep
  BY <1>1, <1>2, ConnectionKeysScreen, ContainerKeysScreen, ImageKeysScreen,
     DialogKeysScreen DEF UserStep
<1>3. ASSUME NEW c \in cmds, Deliver(c)
      PROVE  ScreenStep
  BY <1>3, ConnectionMessageScreen, OtherMessageScreen, ImageMessageScreen,
     PullMessageScreen, CreateMessageScreen DEF Deliver
<1> QED BY <1>1, <1>2, <1>3 DEF Next, Terminated

-----------------------------------------------------------------------------
(* The inductive invariant                                                 *)

\* The dialog offers to remove an image, and a confirmation would be accepted.
DialogIsFresh ==
    /\ mode = "confirm" /\ pending.action = "imageRemove"
    /\ pending.generation = generation

\* While the latest request connects, there is nothing to show or to confirm.
ConnectsBlank ==
    \A c \in Requests : c.kind = "connect" /\ c.gen = generation =>
        /\ client = None /\ Displayed(gallery) = {} /\ ~gallery.loading
        /\ ~DialogIsFresh

\* The latest request of any other kind went to the connected host, and a
\* target that is not connected has none.
AsksHost ==
    \A c \in Requests : c.kind # "connect" /\ c.gen = generation =>
        /\ client # None => c.host = client
        /\ profile = None \/ client # None

\* A dialog follows no request that has not been sent, and shows an image of
\* the connected host.
DialogFromHost ==
    mode = "confirm" =>
        /\ pending.generation <= generation
        /\ DialogIsFresh /\ client # None => pending.target.host = client

HostIsShown ==
    /\ ConnectsBlank /\ AsksHost /\ DialogFromHost
    /\ ImagesFromHost /\ ImagesStayHome /\ ConnectionIsAnswered

Known == TypeOK /\ RequestsAreNumbered /\ RunIsKnown

\* What is in flight after a step was in flight before, or has just been sent.
LEMMA InFlightAfter ==
    ASSUME Known, [Next]_vars
    PROVE  /\ generation' \in {generation, generation + 1}
           /\ \A d \in Requests' :
                 \/ Fresh(d) /\ generation' = generation + 1
                 \/ /\ d.gen <= generation
                    /\ \E c \in Requests : SameCommand(c, d)
           /\ loop' = "running" => loop = "running"
<1>0. TypeOK /\ RequestsAreNumbered /\ RunIsKnown BY DEF Known
<1>1. ASSUME NEW rs, rs \subseteq Requests, NEW held,
             NEW d \in Cancelled(rs, RequestKinds, held)
      PROVE  d.gen <= generation /\ \E c \in Requests : SameCommand(c, d)
  <2>1. PICK c \in rs : SameCommand(c, d) BY <1>0, <1>1, EndedRequests
  <2> QED BY <1>0, <1>1, <2>1 DEF SameCommand, RequestsAreNumbered
<1>2. ASSUME NEW c \in Requests
      PROVE  c.gen <= generation /\ SameCommand(c, c)
  BY <1>0 DEF SameCommand, RequestsAreNumbered
<1>3. CASE ProgramEnds BY <1>3 DEF ProgramEnds, Requests, Of
<1>4. CASE RequestsKept BY <1>2, <1>4 DEF RequestsKept
<1>5. CASE ContextEnds BY <1>1, <1>5 DEF ContextEnds
<1>6. ASSUME NEW c, ReplyHeard(c)
      PROVE  /\ UNCHANGED <<loop, generation>>
             /\ Requests' \subseteq Requests
  BY <1>6 DEF ReplyHeard
<1>7. CASE RequestsSent
  <2>1. PICK new :
          /\ \A d \in new : Fresh(d)
          /\ generation' = generation + 1 /\ UNCHANGED loop
          /\ \/ Requests' = Cancelled(Requests, RequestKinds, requestCancel)
                               \cup new
             \/ \E c : Requests' = Cancelled(Requests \ {c}, RequestKinds, None)
                                      \cup new
    BY <1>7 DEF RequestsSent
  <2>2. PICK rs, held : /\ rs \subseteq Requests
                        /\ Requests' = Cancelled(rs, RequestKinds, held) \cup new
    <3>1. \A c : Requests \ {c} \subseteq Requests OBVIOUS
    <3> QED BY <2>1, <3>1
  <2> QED BY <1>1, <2>1, <2>2
<1> QED BY <1>0, <1>2, <1>3, <1>4, <1>5, <1>6, <1>7, EveryStepIsTraffic DEF Traffic

\* The attempt that is displayed stays in flight until its reply is handled,
\* which ends the display.
LEMMA AttemptStays ==
    ASSUME Known, [Next]_vars, UNCHANGED generation, loading', loop' = "running",
           NEW c \in Requests, c.kind = "connect", c.gen = generation
    PROVE  \E d \in Requests' : SameCommand(c, d)
<1>0. /\ TypeOK /\ generation \in Nat /\ c \in Requests
      /\ SameCommand(c, c)
  BY DEF Known, TypeOK, SameCommand
<1>1. CASE ProgramEnds BY <1>1 DEF ProgramEnds
<1>2. CASE RequestsKept BY <1>0, <1>2 DEF RequestsKept
<1>3. CASE ContextEnds BY <1>0, <1>3, EndedRequests DEF ContextEnds
<1>4. ASSUME NEW d, ReplyHeard(d)
      PROVE  c \in Requests'
  BY <1>4 DEF ReplyHeard, Accepted
<1>5. ~RequestsSent BY <1>0 DEF RequestsSent
<1> QED BY <1>0, <1>1, <1>2, <1>3, <1>4, <1>5, EveryStepIsTraffic DEF Traffic

\* A connection attempt and another request are not both the latest.
LEMMA LatestIsOne ==
    ASSUME Known, NEW c \in Requests, c.kind = "connect", c.gen = generation,
           NEW d \in Requests, d.gen = generation
    PROVE  c = d
BY DEF Known, RequestsAreNumbered, Distinct

\* The latest request after a step was the latest before, or has just been
\* sent.
LEMMA LatestAfter ==
    ASSUME Known, [Next]_vars, NEW d \in Requests', d.gen = generation'
    PROVE  \/ Fresh(d) /\ generation' = generation + 1
           \/ /\ UNCHANGED generation
              /\ \E c \in Requests : SameCommand(c, d) /\ c.gen = generation
<1>1. generation \in Nat BY DEF Known, TypeOK
<1>2. CASE Fresh(d) /\ generation' = generation + 1 BY <1>2
<1>3. ASSUME d.gen <= generation, NEW c \in Requests, SameCommand(c, d)
      PROVE  UNCHANGED generation /\ c.gen = generation
  BY <1>1, <1>3, InFlightAfter DEF SameCommand
<1> QED BY <1>2, <1>3, InFlightAfter

LEMMA ConnectsBlankInductive ==
    ASSUME Known, HostIsShown, [Next]_vars
    PROVE  ConnectsBlank'
<1> SUFFICES ASSUME NEW d \in Requests', d.kind = "connect", d.gen = generation'
             PROVE  /\ client' = None /\ Displayed(gallery') = {}
                    /\ ~gallery'.loading /\ ~DialogIsFresh'
  BY DEF ConnectsBlank, Displayed
<1>1. TypeOK /\ generation \in Nat /\ generation + 1 # generation
  BY DEF Known, TypeOK
<1>2. CASE Fresh(d)
  BY <1>1, <1>2, TargetBegun DEF Fresh, DialogIsFresh
<1>3. ASSUME NEW c \in Requests, SameCommand(c, d), c.gen = generation,
             UNCHANGED generation
      PROVE  /\ client' = None /\ Displayed(gallery') = {}
             /\ ~gallery'.loading /\ ~DialogIsFresh'
  <2>1. /\ c.kind = "connect" /\ client = None /\ Displayed(gallery) = {}
        /\ ~gallery.loading /\ ~DialogIsFresh
    BY <1>3 DEF SameCommand, HostIsShown, ConnectsBlank
  <2>2. ASSUME DialogKept, GalleryKept
        PROVE  /\ client' = None /\ Displayed(gallery') = {}
               /\ ~gallery'.loading /\ ~DialogIsFresh'
    BY <1>3, <2>1, <2>2 DEF DialogKept, DialogOpens, DialogIsFresh, GalleryKept
  <2>3. ASSUME NEW e, GalleryRead(e)
        PROVE  FALSE
    BY <1>3, <2>1, <2>3, LatestIsOne DEF GalleryRead
  <2>4. ASSUME NEW e, GalleryOfTarget(e)
        PROVE  FALSE
    <3>1. e = c BY <1>3, <2>1, <2>4, LatestIsOne DEF GalleryOfTarget
    <3>2. d \in Requests /\ d # c BY <2>4, <3>1 DEF GalleryOfTarget
    <3>3. d.gen = generation BY <1>3
    <3> QED BY <1>3, <2>1, <3>2, <3>3, LatestIsOne
  <2>5. ASSUME NEW p \in Profiles, TargetBegins(p)
        PROVE  FALSE
    BY <1>1, <1>3, <2>5, TargetBegun
  <2> QED BY <1>1, <2>2, <2>3, <2>4, <2>5, EveryScreenStep DEF ScreenStep
<1> QED BY <1>2, <1>3, LatestAfter

LEMMA AsksHostInductive ==
    ASSUME Known, HostIsShown, [Next]_vars
    PROVE  AsksHost'
<1> SUFFICES ASSUME NEW d \in Requests', d.kind # "connect", d.gen = generation'
             PROVE  /\ client' # None => d.host = client'
                    /\ profile' = None \/ client' # None
  BY DEF AsksHost
<1>1. /\ TypeOK /\ generation \in Nat /\ generation + 1 # generation
      /\ Requests \subseteq Command
  BY DEF Known, TypeOK, Requests, Of
<1>2. ASSUME DialogKept, LinkKept, GalleryKept \/ \E e : GalleryRead(e)
      PROVE  /\ client' # None => d.host = client'
             /\ profile' = None \/ client' # None
  <2>1. client' \in {client, None} BY <1>2 DEF GalleryKept, GalleryRead
  <2>2. client' # None => d.host = client'
    <3>1. CASE Fresh(d) BY <2>1, <3>1 DEF Fresh
    <3>2. ASSUME NEW c \in Requests, SameCommand(c, d), c.gen = generation
          PROVE  client' # None => d.host = client'
      BY <2>1, <3>2 DEF SameCommand, HostIsShown, AsksHost
    <3> QED BY <3>1, <3>2, LatestAfter
  <2>3. ASSUME profile' # None, client' = None
        PROVE  FALSE
    <3>1. UNCHANGED <<profile, client>> BY <1>2, <2>3 DEF LinkKept
    <3>2. ~OtherReply BY <2>3, <3>1 DEF HostIsShown, AsksHost, OtherReply
    <3>3. UNCHANGED generation BY <1>2, <2>3, <3>2 DEF LinkKept
    <3>4. PICK c \in Requests : SameCommand(c, d) /\ c.gen = generation
      BY <1>1, <3>3, LatestAfter
    <3> QED BY <3>2, <3>4 DEF OtherReply, SameCommand
  <2> QED BY <2>2, <2>3
<1>3. ASSUME NEW e, GalleryOfTarget(e)
      PROVE  FALSE
  <2>1. d \in Requests /\ d.gen = generation BY <1>3 DEF GalleryOfTarget
  <2> QED BY <1>3, <2>1, LatestIsOne DEF GalleryOfTarget
<1>4. ASSUME NEW p \in Profiles, TargetBegins(p)
      PROVE  FALSE
  <2> DEFINE sent == Cmd("connect", p, None, generation + 1)
  <2>1. /\ Requests' = Cancelled(Requests, RequestKinds, requestCancel) \cup {sent}
        /\ generation' = generation + 1
    BY <1>1, <1>4, TargetBegun
  <2>2. sent.kind = "connect" BY DEF Cmd
  <2> HIDE DEF sent
  <2>3. PICK c \in Requests : SameCommand(c, d)
    BY <1>1, <2>1, <2>2, EndedRequests
  <2>4. c.gen <= generation BY DEF Known, RequestsAreNumbered
  <2> QED BY <1>1, <2>1, <2>3, <2>4 DEF SameCommand
<1> QED BY <1>1, <1>2, <1>3, <1>4, EveryScreenStep DEF ScreenStep

LEMMA DialogFromHostInductive ==
    ASSUME Known, HostIsShown, [Next]_vars
    PROVE  DialogFromHost'
<1>1. /\ TypeOK /\ generation \in Nat /\ generation' \in {generation, generation + 1}
      /\ mode = "confirm" => pending.generation \in Nat
  BY InFlightAfter DEF Known, TypeOK, Dialog
<1> SUFFICES ASSUME mode' = "confirm"
             PROVE  /\ pending'.generation <= generation'
                    /\ DialogIsFresh' /\ client' # None =>
                          pending'.target.host = client'
  BY DEF DialogFromHost
<1>2. CASE UNCHANGED <<mode, pending>> /\ client' \in {client, None}
  <2>1. pending.generation <= generation BY <1>2 DEF HostIsShown, DialogFromHost
  <2>2. DialogIsFresh' => DialogIsFresh
    BY <1>1, <1>2, <2>1 DEF DialogIsFresh
  <2> QED BY <1>1, <1>2, <2>1, <2>2 DEF HostIsShown, DialogFromHost
<1>3. CASE DialogOpens
  <2>1. pending'.generation <= generation' BY <1>1, <1>3 DEF DialogOpens
  <2>2. client # None => \A i \in Displayed(gallery) : i.host = client
    BY DEF HostIsShown, ImagesFromHost, Displayed
  <2> QED BY <1>3, <2>1, <2>2 DEF DialogOpens, DialogIsFresh
<1>4. ASSUME NEW e, GalleryOfTarget(e)
      PROVE  /\ pending'.generation <= generation' /\ ~DialogIsFresh'
  <2>1. ~DialogIsFresh BY <1>4 DEF GalleryOfTarget, HostIsShown, ConnectsBlank
  <2>2. UNCHANGED <<generation, mode, pending>> BY <1>4 DEF GalleryOfTarget
  <2> QED BY <2>1, <2>2 DEF DialogIsFresh, HostIsShown, DialogFromHost
<1>5. ~\E p \in Profiles : TargetBegins(p) BY <1>1, TargetBegun
<1> QED BY <1>1, <1>2, <1>3, <1>4, <1>5, EveryScreenStep
        DEF ScreenStep, DialogKept, GalleryKept, GalleryRead

LEMMA ImagesFromHostInductive ==
    ASSUME Known, HostIsShown, [Next]_vars
    PROVE  ImagesFromHost'
<1>0. TypeOK BY DEF Known
<1> SUFFICES ASSUME client' # None
             PROVE  \A i \in Displayed(gallery') : i.host = client'
  BY DEF ImagesFromHost, Displayed
<1>1. client # None => \A i \in Displayed(gallery) : i.host = client
  BY DEF HostIsShown, ImagesFromHost, Displayed
<1>2. CASE GalleryKept BY <1>1, <1>2 DEF GalleryKept
<1>3. ASSUME NEW c, GalleryRead(c)
      PROVE  \A i \in Displayed(gallery') : i.host = client'
  <2>1. c.host = client' /\ client = client'
    BY <1>3 DEF GalleryRead, HostIsShown, AsksHost
  <2> QED BY <1>1, <1>3, <2>1 DEF GalleryRead, ImagesOf
<1>4. ASSUME NEW c, GalleryOfTarget(c)
      PROVE  Displayed(gallery') = {}
  BY <1>4 DEF GalleryOfTarget, HostIsShown, ConnectsBlank
<1>5. ~\E p \in Profiles : TargetBegins(p) BY <1>0, TargetBegun
<1> QED BY <1>0, <1>2, <1>3, <1>4, <1>5, EveryScreenStep DEF ScreenStep

LEMMA ImagesStayHomeInductive ==
    ASSUME Known, HostIsShown, [Next]_vars
    PROVE  ImagesStayHome'
<1>1. ASSUME NEW d \in Requests', d.kind = "imageRemove"
      PROVE  d.target.host = d.host
  <2>1. CASE Fresh(d)
    <3>1. Confirms(d) /\ d.host = client
      BY <1>1, <2>1 DEF Fresh, MutationKinds, Mutations, Lifecycle
    <3>2. DialogIsFresh /\ client # None /\ d.target = pending.target
      BY <1>1, <3>1 DEF Confirms, DialogIsFresh
    <3> QED BY <3>1, <3>2 DEF HostIsShown, DialogFromHost, DialogIsFresh
  <2>2. ASSUME NEW c \in Requests, SameCommand(c, d)
        PROVE  d.target.host = d.host
    BY <1>1, <2>2 DEF SameCommand, HostIsShown, ImagesStayHome, InFlight,
                      Requests, Of
  <2> QED BY <2>1, <2>2, InFlightAfter
<1> QED BY <1>1 DEF ImagesStayHome, InFlight, Requests, Of, RequestKinds, Mutations

LEMMA ConnectionIsAnsweredInductive ==
    ASSUME Known, HostIsShown, [Next]_vars
    PROVE  ConnectionIsAnswered'
<1>0. /\ TypeOK
      /\ InFlight({"connect"}) = {c \in Requests : c.kind = "connect"}
      /\ InFlight({"connect"})' = {c \in Requests' : c.kind = "connect"}
  BY DEF Known, InFlight, Requests, Of, RequestKinds, Reads
<1> SUFFICES ASSUME profile' # None, client' = None, loading', loop' = "running"
             PROVE  \E c \in Requests' : /\ c.kind = "connect" /\ c.gen = generation'
                                        /\ c.host = profile'
  BY <1>0 DEF ConnectionIsAnswered
<1>1. CASE LinkKept
  <2>1. UNCHANGED <<profile, client>> BY <1>1 DEF LinkKept
  <2>2. ~OtherReply BY <2>1 DEF HostIsShown, AsksHost, OtherReply
  <2>3. UNCHANGED generation /\ loading BY <1>1, <2>2 DEF LinkKept
  <2>4. PICK c \in Requests : /\ c.kind = "connect" /\ c.gen = generation
                              /\ c.host = profile
    BY <1>0, <2>1, <2>3, InFlightAfter DEF HostIsShown, ConnectionIsAnswered
  <2>5. PICK d \in Requests' : SameCommand(c, d) BY <2>3, <2>4, AttemptStays
  <2> QED BY <2>1, <2>3, <2>4, <2>5 DEF SameCommand
<1>2. ~\E c : GalleryOfTarget(c) BY DEF GalleryOfTarget
<1>3. ASSUME NEW p \in Profiles, TargetBegins(p)
      PROVE  \E c \in Requests' : /\ c.kind = "connect" /\ c.gen = generation'
                                 /\ c.host = profile'
  <2> DEFINE sent == Cmd("connect", p, None, generation + 1)
  <2>1. /\ sent \in Requests' /\ generation' = generation + 1 /\ profile' = p
    BY <1>0, <1>3, TargetBegun
  <2>2. sent.kind = "connect" /\ sent.gen = generation + 1 /\ sent.host = p
    BY DEF Cmd
  <2> HIDE DEF sent
  <2> QED BY <2>1, <2>2
<1> QED BY <1>0, <1>1, <1>2, <1>3, EveryScreenStep DEF ScreenStep

LEMMA HostAlwaysShown == Spec => []HostIsShown
<1>1. Init => HostIsShown
  <2>1. ASSUME Init
        PROVE  /\ Requests = {} /\ InFlight({"imageRemove"}) = {}
               /\ mode = "normal" /\ client = None /\ profile = None
    BY <2>1 DEF Init, Requests, Of, InFlight, RequestKinds, Reads, Mutations,
                Lifecycle
  <2> QED BY <2>1 DEF HostIsShown, ConnectsBlank, AsksHost, DialogFromHost,
             ImagesFromHost, ImagesStayHome, ConnectionIsAnswered
<1>2. Known /\ HostIsShown /\ [Next]_vars => HostIsShown'
  BY ConnectsBlankInductive, AsksHostInductive, DialogFromHostInductive,
     ImagesFromHostInductive, ImagesStayHomeInductive,
     ConnectionIsAnsweredInductive DEF HostIsShown
<1>3. Spec => []Known BY TypeCorrect, RequestsAlwaysKnown, PTL DEF Known
<1> QED BY <1>1, <1>2, <1>3, PTL DEF Spec

-----------------------------------------------------------------------------
(* Theorems                                                                *)

\* What the image screens show while connected comes from the connected host.
THEOREM ShownImagesAreOfHost == Spec => []ImagesFromHost
<1>1. HostIsShown => ImagesFromHost BY DEF HostIsShown
<1> QED BY <1>1, HostAlwaysShown, PTL

\* An image is only removed from the host that listed it, whatever was in
\* flight when the target changed.
THEOREM RemovalsStayHome == Spec => []ImagesStayHome
<1>1. HostIsShown => ImagesStayHome BY DEF HostIsShown
<1> QED BY <1>1, HostAlwaysShown, PTL

\* While the console displays that it is connecting to the target, that
\* target's connection is in flight and its reply will be accepted.
THEOREM AttemptsAreAnswered == Spec => []ConnectionIsAnswered
<1>1. HostIsShown => ConnectionIsAnswered BY DEF HostIsShown
<1> QED BY <1>1, HostAlwaysShown, PTL

\* The refresh that follows a removal displays the explanation it found.
THEOREM ExplanationsStay == Spec => ImageExplanationStays
<1> DEFINE Stays ==
      gallery.feedback = "stale" /\ gallery.loading /\ ~gallery'.loading
        => err' = "stale" \/ gallery'.feedback = "stale" \/ client' = None
<1>1. ASSUME Known, HostIsShown, [Next]_vars
      PROVE  Stays
  <2>1. TypeOK BY <1>1 DEF Known
  <2>2. CASE GalleryKept BY <2>2 DEF GalleryKept
  <2>3. ASSUME NEW c, GalleryRead(c)
        PROVE  Stays
    BY <2>3 DEF GalleryRead
  <2>4. ASSUME NEW c, GalleryOfTarget(c)
        PROVE  Stays
    BY <1>1, <2>4 DEF GalleryOfTarget, HostIsShown, ConnectsBlank
  <2>5. ASSUME NEW p \in Profiles, TargetBegins(p)
        PROVE  Stays
    BY <2>1, <2>5, TargetBegun
  <2> QED BY <1>1, <2>1, <2>2, <2>3, <2>4, <2>5, EveryScreenStep DEF ScreenStep
<1>2. Known /\ HostIsShown /\ [Next]_vars => [Stays]_vars BY <1>1
<1> HIDE DEF Stays
<1>3. Spec => [][Stays]_vars
  BY <1>2, TypeCorrect, RequestsAlwaysKnown, HostAlwaysShown, PTL DEF Spec, Known
<1> QED BY <1>3 DEF ImageExplanationStays, Stays

-----------------------------------------------------------------------------
(* Mutations are confirmed                                                 *)

Results(rs) == {Result(c) : c \in Of(rs, MutationKinds)}

\* The outstanding mutations are requests; ending a context answers none.
LEMMA OutstandingResults ==
    ASSUME TypeOK
    PROVE  /\ Outstanding = Results(Requests) /\ Outstanding' = Results(Requests')
           /\ \A rs, held : rs \subseteq Requests =>
                Results(Cancelled(rs, RequestKinds, held)) = Results(rs)
<1>1. MutationKinds \subseteq RequestKinds
  BY DEF MutationKinds, RequestKinds
<1>2. Outstanding = Results(Requests) /\ Outstanding' = Results(Requests')
  BY <1>1 DEF Outstanding, InFlight, Results, Requests, Of
<1>3. ASSUME NEW rs, NEW held, rs \subseteq Requests
      PROVE  Results(Cancelled(rs, RequestKinds, held)) = Results(rs)
  <2> DEFINE ended == Cancelled(rs, RequestKinds, held)
  <2>1. /\ \A d \in ended : \E c \in rs : SameCommand(c, d)
        /\ \A c \in rs : \E d \in ended : SameCommand(c, d)
    BY <1>3, EndedRequests
  <2> HIDE DEF ended
  <2>2. \A c, d : SameCommand(c, d) => Result(d) = Result(c) /\ d.kind = c.kind
    BY DEF SameCommand, Result
  <2>3. Results(ended) = Results(rs) BY <2>1, <2>2 DEF Results, Of
  <2> QED BY <2>3 DEF ended
<1> QED BY <1>2, <1>3

\* What a dialog displays.
LEMMA DialogIsDisplayed ==
    ASSUME NEW d \in Dialog
    PROVE  [action |-> d.action, target |-> d.target, connection |-> d.connection]
             \in Guard!Displayed
<1>1. /\ d.action \in MutationKinds \ {"start"}
      /\ d.target \in Container \cup Image
      /\ d.connection \in Profiles \cup {None}
  BY DEF Dialog, MutationKinds
<1> QED BY <1>1 DEF Guard!Displayed

\* Results arrive, or the dialog goes away.
LEMMA FinishOrDismiss ==
    ASSUME Outstanding' \subseteq Outstanding,
           \/ UNCHANGED DialogShown
           \/ DialogShown' = None /\ UNCHANGED Outstanding
    PROVE  Guard!Next
BY DEF Guard!Next, Guard!Finish, Guard!Dismiss

\* A mutation is sent alone.
LEMMA MutationSent ==
    ASSUME Known, NEW d \in Command, d.kind \in MutationKinds, d.gen = generation + 1,
           Requests' = Cancelled(Requests, RequestKinds, requestCancel) \cup {d}
    PROVE  Guard!Send(d.kind, d.target, d.connection)
<1>1. TypeOK /\ generation \in Nat BY DEF Known, TypeOK
<1>2. Outstanding' = Outstanding \cup {Result(d)}
  <2>1. Outstanding' = Results(Cancelled(Requests, RequestKinds, requestCancel))
                         \cup {Result(d)}
    BY <1>1, OutstandingResults DEF Results, Of
  <2> QED BY <1>1, <2>1, OutstandingResults
<1>3. Result(d) \notin Outstanding
  <2>1. \A c \in Requests : c.gen # generation + 1
    <3>1. \A c \in Requests : c.gen <= generation /\ c.gen \in Nat
      BY <1>1 DEF Known, RequestsAreNumbered, Requests, Of, TypeOK, Command
    <3> QED BY <1>1, <3>1
  <2>2. \A c : Result(c).number = c.gen BY DEF Result
  <2>3. \A c \in Requests : Result(c) # Result(d) BY <2>1, <2>2
  <2> QED BY <1>1, <2>3, OutstandingResults DEF Results, Of
<1>4. /\ Result(d).action = d.kind /\ Result(d).target = d.target
      /\ Result(d).connection = d.connection
  BY DEF Result
<1> QED BY <1>2, <1>3, <1>4 DEF Guard!Send

LEMMA StepIsGuarded ==
    ASSUME Known, [Next]_vars
    PROVE  Guard!Next
<1>0. TypeOK /\ TypeOK' BY TypeIsInductive DEF Known
<1>1. CASE mode' = "confirm" /\ ~UNCHANGED <<mode, pending>>
  <2>1. ~\E c : GalleryOfTarget(c) BY <1>1 DEF GalleryOfTarget
  <2>2. ~\E p \in Profiles : TargetBegins(p) BY <1>0, <1>1, TargetBegun
  <2>3. DialogOpens BY <1>0, <1>1, <2>1, <2>2, EveryScreenStep DEF ScreenStep, DialogKept
  <2>4. /\ DialogShown = None /\ UNCHANGED Outstanding
    BY <2>3 DEF DialogOpens, DialogShown, Outstanding, InFlight
  <2>5. DialogShown' \in Guard!Displayed
    <3>1. pending' \in Dialog BY <1>0, <1>1 DEF TypeOK
    <3>2. DialogShown' = [action |-> pending'.action, target |-> pending'.target,
                          connection |-> pending'.connection]
      BY <1>1 DEF DialogShown
    <3> QED BY <3>1, <3>2, DialogIsDisplayed
  <2> QED BY <2>4, <2>5 DEF Guard!Next, Guard!Show
<1> SUFFICES ASSUME UNCHANGED <<mode, pending>> \/ mode' # "confirm"
             PROVE  Guard!Next
  BY <1>1
<1>2. /\ UNCHANGED <<mode, pending>> => UNCHANGED DialogShown
      /\ UNCHANGED DialogShown \/ DialogShown' = None
  BY DEF DialogShown
<1>3. ASSUME NEW rs, rs \subseteq Requests, Outstanding' = Results(rs),
             \/ UNCHANGED <<mode, pending>>
             \/ rs = Requests
             \/ \E c : c.kind \notin MutationKinds /\ rs = Requests \ {c}
      PROVE  Guard!Next
  <2>1. Outstanding' \subseteq Outstanding
    BY <1>0, <1>3, OutstandingResults DEF Results, Of
  <2>2. CASE UNCHANGED <<mode, pending>> BY <1>2, <2>1, <2>2, FinishOrDismiss
  <2>3. CASE ~UNCHANGED <<mode, pending>>
    <3>1. Results(rs) = Results(Requests) BY <1>3, <2>3 DEF Results, Of
    <3>2. UNCHANGED Outstanding BY <1>0, <1>3, <3>1, OutstandingResults
    <3> QED BY <1>2, <2>1, <3>2, FinishOrDismiss
  <2> QED BY <2>2, <2>3
<1>4. CASE ProgramEnds
  <2>1. UNCHANGED <<mode, pending>> /\ Requests' = {}
    BY <1>4 DEF ProgramEnds, Requests, Of
  <2>2. Outstanding' = Results({}) BY <1>0, <2>1, OutstandingResults
  <2> QED BY <1>3, <2>1, <2>2
<1>5. CASE RequestsKept
  <2>1. /\ Requests' \subseteq Requests
        /\ Requests' = Requests \/ UNCHANGED <<mode, pending>>
    BY <1>5 DEF RequestsKept
  <2>2. Outstanding' = Results(Requests') BY <1>0, OutstandingResults
  <2> QED BY <1>3, <2>1, <2>2
<1>6. CASE ContextEnds
  <2>1. Outstanding' = Results(Requests)
    BY <1>0, <1>6, OutstandingResults DEF ContextEnds
  <2> QED BY <1>3, <2>1
<1>7. ASSUME NEW c, Accepted(c), Outstanding' = Results(Requests \ {c})
      PROVE  Guard!Next
  <2>1. UNCHANGED <<mode, pending>> \/ c.kind \notin MutationKinds
    BY <1>7 DEF Accepted
  <2> QED BY <1>3, <1>7, <2>1
<1>8. ASSUME NEW c, ReplyHeard(c)
      PROVE  Guard!Next
  BY <1>0, <1>7, <1>8, OutstandingResults DEF ReplyHeard
<1>9. CASE RequestsSent
  <2>1. PICK new :
          /\ \A d \in new : Fresh(d)
          /\ \A c, d \in new : c = d \/ c.kind \in {"list", "inspect"}
          /\ \/ Requests' = Cancelled(Requests, RequestKinds, requestCancel)
                               \cup new
             \/ \E c : /\ Accepted(c)
                       /\ Requests' = Cancelled(Requests \ {c}, RequestKinds, None)
                                         \cup new
                       /\ \A d \in new : d.kind \in PlainKinds
    BY <1>9 DEF RequestsSent
  <2>2. ASSUME \A d \in new : d.kind \notin MutationKinds,
               NEW rs, rs \subseteq Requests, NEW held,
               Requests' = Cancelled(rs, RequestKinds, held) \cup new
        PROVE  Outstanding' = Results(rs)
    <3>1. Outstanding' = Results(Cancelled(rs, RequestKinds, held))
      BY <1>0, <2>2, OutstandingResults DEF Results, Of
    <3> QED BY <1>0, <2>2, <3>1, OutstandingResults
  <2>3. ASSUME NEW c, Accepted(c), \A d \in new : d.kind \in PlainKinds,
               Requests' = Cancelled(Requests \ {c}, RequestKinds, None) \cup new
        PROVE  Guard!Next
    <3>1. \A d \in new : d.kind \notin MutationKinds BY <2>3, PlainKindsList
    <3>2. Requests \ {c} \subseteq Requests OBVIOUS
    <3> QED BY <1>7, <2>2, <2>3, <3>1, <3>2
  <2>4. ASSUME Requests' = Cancelled(Requests, RequestKinds, requestCancel) \cup new,
               \A d \in new : d.kind \notin MutationKinds
        PROVE  Guard!Next
    BY <1>3, <2>2, <2>4
  <2>5. ASSUME Requests' = Cancelled(Requests, RequestKinds, requestCancel) \cup new,
               NEW d \in new, d.kind \in MutationKinds
        PROVE  Guard!Next
    <3>1. new = {d}
      BY <2>1, <2>5 DEF MutationKinds, Mutations, Lifecycle
    <3>2. d \in Command /\ d.gen = generation + 1 BY <2>1 DEF Fresh
    <3>3. Guard!Send(d.kind, d.target, d.connection)
      BY <2>5, <3>1, <3>2, MutationSent
    <3>4. CASE d.kind = "start"
      <4>1. mode # "confirm" /\ mode' # "confirm" /\ d.target \in Container
        BY <2>1, <3>4 DEF Fresh
      <4>2. DialogShown = None /\ DialogShown' = None BY <4>1 DEF DialogShown
      <4>3. d.connection \in Profiles \cup {None} BY <3>2 DEF Command
      <4> QED BY <3>3, <3>4, <4>1, <4>2, <4>3 DEF Guard!Next, Guard!Start
    <3>5. CASE d.kind # "start"
      <4>1. Confirms(d) BY <2>1, <2>5, <3>5 DEF Fresh
      <4>2. /\ DialogShown \in Guard!Displayed /\ DialogShown' = None
            /\ DialogShown.action = d.kind /\ DialogShown.target = d.target
            /\ DialogShown.connection = d.connection
        <5>1. pending \in Dialog BY <1>0, <4>1 DEF TypeOK, Confirms
        <5>2. DialogShown = [action |-> pending.action, target |-> pending.target,
                             connection |-> pending.connection]
          BY <4>1 DEF Confirms, DialogShown
        <5>3. DialogShown \in Guard!Displayed BY <5>1, <5>2, DialogIsDisplayed
        <5> QED BY <4>1, <5>2, <5>3 DEF Confirms, DialogShown
      <4>3. DialogShown # None BY <4>2, NoDialogAssumption
      <4> QED BY <3>3, <4>2, <4>3 DEF Guard!Next, Guard!Confirm
    <3> QED BY <3>4, <3>5
  <2> QED BY <2>1, <2>3, <2>4, <2>5
<1> QED BY <1>0, <1>4, <1>5, <1>6, <1>8, <1>9, EveryStepIsTraffic DEF Traffic

\* The keys and messages of every component together send a destructive
\* mutation only by confirming a dialog that displays it, once per dialog.
THEOREM MutationsAreConfirmed == Spec => ConfirmedMutations
<1>1. Init => Guard!Init
  <2>1. ASSUME Init PROVE InFlight(MutationKinds) = {}
    BY <2>1 DEF Init, InFlight, MutationKinds, Mutations, Lifecycle
  <2> QED BY <2>1 DEF Init, Guard!Init, DialogShown, Outstanding
<1>2. Known /\ [Next]_vars => [Guard!Next]_<<DialogShown, Outstanding>>
  BY StepIsGuarded
<1> QED BY <1>1, <1>2, TypeCorrect, RequestsAlwaysKnown, PTL
        DEF Spec, Known, ConfirmedMutations, Guard!Spec
-----------------------------------------------------------------------------
(* The refresh that ends a create yields to the end of a pull only         *)

\* A dialog over the create screen asks for a create.
DialogOnCreate ==
    mode = "confirm" /\ screen = "containerCreate" => pending.action = "run"

\* Such a dialog was there before, or the form has just opened it.
DialogOverForm ==
    mode' = "confirm" /\ screen' = "containerCreate" =>
        \/ UNCHANGED <<mode, pending>> /\ screen = "containerCreate"
        \/ pending'.action = "run"

LEMMA KeysOverForm ==
    ASSUME TypeOK, UserStep
    PROVE  DialogOverForm
<1>1. CASE ConnectionKeys
  <2>1. CASE SaveProfile \/ OpenProfile \/ RemoveProfile
    <3>1. TargetStep(cmds) => mode' # "confirm"
      BY DEF TargetStep, Untargeted, BeginProfile
    <3> QED BY <2>1, <3>1, SelectorOpens DEF DialogOverForm
  <2>2. CASE \/ OpenSelector \/ CloseSelector \/ MoveCursor \/ QuitSelector
             \/ NewProfile \/ EditProfile \/ CloseForm \/ CursorPanic
             \/ SaveProfileFails \/ RemoveProfileFails
    BY <2>2 DEF OpenSelector, CloseSelector, MoveCursor, QuitSelector, QuitNow,
         NewProfile, EditProfile, CloseForm, OnlyMode, CursorPanic,
         SaveProfileFails, RemoveProfileFails, InSelector, InForm, DialogOverForm
  <2> QED BY <1>1, <2>1, <2>2 DEF ConnectionKeys
<1>2. CASE ContainerKeys
  BY <1>2 DEF ContainerKeys, RefreshKey, RefreshDetails, MoveSelection,
       OpenDetails, OpenDetailsRefused, CloseDetails, StartKey,
       RequestConfirmation, Confirming, OpenFilter, TypeFilter, AcceptFilter,
       LeaveFilter, Filtering, OpenStream, CloseStream, OnlyStream, Refuse,
       InScreen, Foreground, DialogOverForm
<1>3. CASE ImageKeys
  <2>1. CASE RequestImageConfirmation
    <3>1. screen # "containerCreate"
      BY <2>1 DEF RequestImageConfirmation, InScreen
    <3>2. UNCHANGED screen BY <2>1 DEF RequestImageConfirmation, Refuse
    <3> QED BY <3>1, <3>2 DEF DialogOverForm
  <2>2. CASE SubmitContainerCreate
    BY <2>2 DEF SubmitContainerCreate, InCreate, Foreground, DialogOverForm
  <2>3. CASE \/ OpenImages \/ RefreshImagesKey \/ RefreshImageDetails
             \/ OpenImageDetails \/ OpenImageDetailsRefused \/ BackFromImages
             \/ MoveImageSelection \/ OpenImagePull \/ LeaveImagePull
             \/ StartImagePull \/ CancelImagePull \/ QuitPull
             \/ OpenContainerCreate \/ LeaveContainerCreate
             \/ CancelContainerCreate \/ RejectContainerCreate
             \/ QuitContainerCreate
    <3>1. UNCHANGED mode
      BY <2>3 DEF OpenImages, RefreshImagesKey, RefreshImageDetails,
         OpenImageDetails, OpenImageDetailsRefused, BackFromImages,
         MoveImageSelection, OpenImagePull, LeaveImagePull,
         StartImagePull, CancelImagePull, QuitPull, OpenContainerCreate,
         LeaveContainerCreate, CancelContainerCreate, RejectContainerCreate,
         QuitContainerCreate, QuitNow, OnlyGallery, OnlyPull, OnlyCreate, Refuse
    <3>2. mode # "confirm"
      BY <2>3 DEF OpenImages, RefreshImagesKey, RefreshImageDetails,
         OpenImageDetails, OpenImageDetailsRefused, BackFromImages,
         MoveImageSelection, OpenImagePull, LeaveImagePull,
         StartImagePull, CancelImagePull, QuitPull, OpenContainerCreate,
         LeaveContainerCreate, CancelContainerCreate, RejectContainerCreate,
         QuitContainerCreate, InScreen, InPull, InCreate, Foreground
    <3> QED BY <3>1, <3>2 DEF DialogOverForm
  <2>4. CASE FilterImages
    BY <2>4 DEF FilterImages, OnlyGallery, DialogOverForm
  <2> QED BY <1>3, <2>1, <2>2, <2>3, <2>4 DEF ImageKeys
<1>4. CASE DialogKeys
  BY <1>4 DEF DialogKeys, ConfirmStale, ConfirmOperation, ConfirmCreate,
              CancelDialog, DialogCloses, DialogOverForm
<1>5. CASE QuitKey BY <1>5 DEF QuitKey, QuitNow, DialogOverForm
<1> QED BY <1>1, <1>2, <1>3, <1>4, <1>5 DEF UserStep

LEMMA MessagesOverForm ==
    ASSUME TypeOK, NEW c \in cmds, Deliver(c)
    PROVE  DialogOverForm
<1>1. CASE ConnectionMessage(c)
  <2>1. CASE ConfigLoaded(c)
    <3>1. TargetStep(cmds \ {c}) BY <2>1, ConfigOpens
    <3> QED BY <3>1 DEF TargetStep, Untargeted, BeginProfile, DialogOverForm
  <2>2. CASE ~ConfigLoaded(c)
    BY <1>1, <2>2 DEF ConnectionMessage, ConfigUnreadable, ProfileRefused,
         ProfileConnectedUnlisted, ProfileConnected, Connected, DialogOverForm
  <2> QED BY <2>1, <2>2
<1>2. CASE DropStaleReply(c) \/ ContainerMessage(c) \/ StreamMessage(c)
  BY <1>2 DEF DropStaleReply, ContainerMessage, InventoryLoaded, InventoryFailed,
       InventoryReply, DetailsLoaded, DetailsFailed, DetailsReply,
       OperationSucceeded, OperationFailed, OperationStale, Finished,
       StreamMessage, StatsSample, StreamEnded, DropStreamEvent, CurrentStream,
       OnlyStream, DialogOverForm
<1>3. CASE ImageMessage(c)
  BY <1>3 DEF ImageMessage, ImageInventoryLoaded, ImageInventoryFailed,
       ImageInventoryReply, ImageDetailsLoaded, ImageDetailsFailed,
       ImageDetailsReply, ImageDetailsClosed, ImageRemoved, ImageRemoveStale,
       ImageRemoveFailed, ImageRemoveFinished, OnlyGallery, DialogOverForm
<1>4. CASE PullMessage(c)
  BY <1>4 DEF PullMessage, PullEvent, PullFailed, PullDone, DropPullEvent,
              OnlyPull, DialogOverForm
<1>5. CASE CreateMessage(c)
  BY <1>5 DEF CreateMessage, ContainerStarted, ContainerCreatedOnly,
       ContainerCreateCancelled, ContainerCreateFailed, RunReply, DropRunReply,
       CreateRefreshed, DropCreateRefresh, DialogOverForm
<1> QED BY <1>1, <1>2, <1>3, <1>4, <1>5 DEF Deliver

LEMMA DialogAlwaysOnCreate == Spec => []DialogOnCreate
<1>1. Init => DialogOnCreate BY DEF Init, DialogOnCreate
<1>2. ASSUME TypeOK, DialogOnCreate, [Next]_vars
      PROVE  DialogOnCreate'
  <2>1. DialogOverForm => DialogOnCreate' BY <1>2 DEF DialogOverForm, DialogOnCreate
  <2>2. CASE Next
    BY <1>2, <2>1, <2>2, KeysOverForm, MessagesOverForm
       DEF Next, Terminated, vars, DialogOnCreate
  <2> QED BY <1>2, <2>2 DEF vars, DialogOnCreate
<1> QED BY <1>1, <1>2, TypeCorrect, PTL DEF Spec

\* The step supersedes the awaited refresh, and the create flow stays with it.
Overtaken == RefreshAwaited /\ create'.refreshing /\ generation' # create'.generation

LEMMA BegunIsNotOvertaken ==
    ASSUME TypeOK, NEW cs, TargetStep(cs)
    PROVE  ~Overtaken
BY DEF TypeOK, Create, TargetStep, Untargeted, BeginProfile, RefreshAwaited, Overtaken

LEMMA KeysYield ==
    ASSUME TypeOK, DialogOnCreate, UserStep, screen = "containerCreate"
    PROVE  ~Overtaken
<1>1. ASSUME UNCHANGED generation, create \in Create,
             \/ UNCHANGED create
             \/ create'.generation = create.generation \/ ~create'.refreshing
      PROVE  ~Overtaken
  BY <1>1 DEF RefreshAwaited, Overtaken
<1>2. create \in Create BY DEF TypeOK
<1>3. CASE ConnectionKeys
  <2>1. CASE SaveProfile \/ OpenProfile \/ RemoveProfile
    BY <2>1, SelectorOpens, BegunIsNotOvertaken
  <2>2. CASE \/ OpenSelector \/ CloseSelector \/ MoveCursor \/ QuitSelector
             \/ NewProfile \/ EditProfile \/ CloseForm \/ CursorPanic
             \/ SaveProfileFails \/ RemoveProfileFails
    BY <1>1, <1>2, <2>2
       DEF OpenSelector, CloseSelector, MoveCursor, QuitSelector, QuitNow,
         NewProfile, EditProfile, CloseForm, OnlyMode, CursorPanic,
         SaveProfileFails, RemoveProfileFails
  <2> QED BY <1>3, <2>1, <2>2 DEF ConnectionKeys
<1>4. CASE ContainerKeys
  BY <1>1, <1>2, <1>4
     DEF ContainerKeys, RefreshKey, RefreshDetails, MoveSelection,
       OpenDetails, OpenDetailsRefused, CloseDetails, StartKey,
       RequestConfirmation, OpenFilter, TypeFilter, AcceptFilter, LeaveFilter,
       Filtering, OpenStream, CloseStream, OnlyStream, Refuse, InScreen
<1>5. CASE ImageKeys
  BY <1>1, <1>2, <1>5
     DEF ImageKeys, OpenImages, RefreshImagesKey, RefreshImageDetails,
       OpenImageDetails, OpenImageDetailsRefused, BackFromImages,
       MoveImageSelection, FilterImages, RequestImageConfirmation, OpenImagePull,
       LeaveImagePull, StartImagePull, CancelImagePull, QuitPull,
       OpenContainerCreate, LeaveContainerCreate, CancelContainerCreate,
       SubmitContainerCreate, RejectContainerCreate, QuitContainerCreate, QuitNow,
       OnlyGallery, OnlyPull, OnlyCreate, Refuse, InScreen, InPull, Create
<1>6. CASE DialogKeys
  <2>1. ~ConfirmOperation BY DEF ConfirmOperation, InDialog, DialogOnCreate
  <2>2. RefreshAwaited => CreateBusy BY DEF RefreshAwaited, CreateBusy
  <2>3. CASE ConfirmStale \/ CancelDialog
    <3>1. UNCHANGED generation
      BY <2>3 DEF ConfirmStale, CancelDialog
    <3>2. \/ UNCHANGED create
          \/ \E status : create' = [create EXCEPT !.status = status]
      BY <2>3 DEF ConfirmStale, CancelDialog, CreateFails
    <3>3. create'.generation = create.generation BY <1>2, <3>2 DEF Create
    <3> QED BY <1>1, <1>2, <3>1, <3>3
  <2>4. CASE ConfirmCreate
    BY <1>1, <1>2, <2>2, <2>4
       DEF ConfirmCreate, RunContainerCreate, CreateFails, Create, Overtaken
  <2> QED BY <1>6, <2>1, <2>3, <2>4 DEF DialogKeys
<1>7. CASE QuitKey BY <1>1, <1>2, <1>7 DEF QuitKey, QuitNow
<1> QED BY <1>3, <1>4, <1>5, <1>6, <1>7 DEF UserStep

\* No other request is as late as the refresh that is awaited.
LEMMA RefreshIsLatest ==
    ASSUME Known, RefreshIsKnown, RefreshAwaited, loop = "running",
           NEW c \in Requests, c.gen = generation
    PROVE  c.kind = "createRefresh"
<1>1. PICK d \in Requests : CurrentCreateRefresh(d) BY DEF RefreshIsKnown
<1>2. d.gen = generation /\ d.kind = "createRefresh"
  BY <1>1 DEF CurrentCreateRefresh
<1> QED BY <1>2 DEF Known, RequestsAreNumbered, Distinct

LEMMA MessagesYield ==
    ASSUME Known, RefreshIsKnown, NEW c \in cmds, Deliver(c), ~PullDone(c)
    PROVE  ~Overtaken
<1>1. /\ TypeOK /\ create \in Create /\ generation \in Nat
      /\ UNCHANGED <<generation, create>> => ~Overtaken
  BY DEF Known, TypeOK, RefreshAwaited, Overtaken
<1>2. ASSUME loop = "running",
             c.kind \in RequestKinds \ {"createRefresh"}, c.gen = generation
      PROVE  ~Overtaken
  BY <1>2, RefreshIsLatest DEF Requests, Of, Overtaken
<1>3. CASE ConnectionMessage(c)
  <2>1. CASE ConfigLoaded(c)
    BY <1>1, <2>1, ConfigOpens, BegunIsNotOvertaken
  <2>2. CASE ~ConfigLoaded(c)
    BY <1>1, <1>3, <2>2 DEF ConnectionMessage, ConfigUnreadable, ProfileRefused,
         ProfileConnectedUnlisted, ProfileConnected, Connected
  <2> QED BY <2>1, <2>2
<1>4. CASE ContainerMessage(c) \/ ImageMessage(c)
  <2>1. /\ loop = "running" /\ c.gen = generation
        /\ c.kind \in {"list", "inspect", "listImages", "inspectImage", "imageRemove"}
                        \cup Lifecycle
    BY <1>4 DEF ContainerMessage, InventoryLoaded, InventoryFailed,
         InventoryReply, DetailsLoaded, DetailsFailed, DetailsReply,
         OperationSucceeded, OperationFailed, OperationStale, Finished,
         ImageMessage, ImageInventoryLoaded, ImageInventoryFailed,
         ImageInventoryReply, ImageDetailsLoaded, ImageDetailsFailed,
         ImageDetailsReply, ImageDetailsClosed, ImageRemoved, ImageRemoveStale,
         ImageRemoveFailed, ImageRemoveFinished, Answers, Delivered
  <2>2. c.kind \in RequestKinds \ {"createRefresh"}
    BY <2>1 DEF RequestKinds, Reads, Mutations, Lifecycle
  <2> QED BY <1>2, <2>1, <2>2
<1>5. CASE DropStaleReply(c) \/ StreamMessage(c)
  BY <1>1, <1>5 DEF DropStaleReply, StreamMessage, StatsSample, StreamEnded,
                    DropStreamEvent, CurrentStream, OnlyStream
<1>6. CASE PullMessage(c)
  BY <1>1, <1>6 DEF PullMessage, PullEvent, PullFailed, DropPullEvent, OnlyPull
<1>7. CASE CreateMessage(c)
  <2>1. CASE ContainerStarted(c) \/ ContainerCreatedOnly(c)
    <3>1. PICK id, status : RefreshAfterCreate(c, status, id)
      BY <2>1 DEF ContainerStarted, ContainerCreatedOnly
    <3>2. \/ ~create'.refreshing
          \/ /\ generation' = generation + 1
             /\ create'.generation = generation + 1
      BY <1>1, <3>1 DEF RefreshAfterCreate, Ended, BeginRequest, Create
    <3> QED BY <3>2 DEF Overtaken
  <2>2. CASE ContainerCreateCancelled(c) \/ ContainerCreateFailed(c)
    <3>1. UNCHANGED generation /\ create'.generation = create.generation
      BY <1>1, <2>2 DEF ContainerCreateCancelled, ContainerCreateFailed, Ended,
                        NoRequest, Create
    <3> QED BY <3>1 DEF RefreshAwaited, Overtaken
  <2>3. CASE DropRunReply(c) \/ DropCreateRefresh(c)
    BY <1>1, <2>3 DEF DropRunReply, DropCreateRefresh
  <2>4. CASE CreateRefreshed(c)
    BY <1>1, <2>4 DEF CreateRefreshed, Refreshed, Create, Overtaken
  <2> QED BY <1>7, <2>1, <2>2, <2>3, <2>4 DEF CreateMessage
<1> QED BY <1>3, <1>4, <1>5, <1>6, <1>7 DEF Deliver

\* No key of the create screen, no late reply and no other feed than a pull's
\* takes away the refresh that the screen waits for.
THEOREM RefreshYields == Spec => RefreshYieldsToPull
<1>1. ASSUME Known, RefreshIsKnown, DialogOnCreate, [Next]_vars
      PROVE  Overtaken => \/ \E c \in cmds : PullDone(c)
                          \/ UserStep /\ screen # "containerCreate"
  <2>1. TypeOK BY <1>1 DEF Known
  <2>2. CASE UserStep BY <1>1, <2>1, <2>2, KeysYield
  <2>3. ASSUME NEW c \in cmds, Deliver(c), ~PullDone(c)
        PROVE  ~Overtaken
    BY <1>1, <2>3, MessagesYield
  <2>4. CASE UNCHANGED vars BY <2>4 DEF vars, RefreshAwaited, Overtaken
  <2> QED BY <1>1, <2>2, <2>3, <2>4 DEF Next, Terminated
<1> DEFINE Yields == Overtaken => \/ \E c \in cmds : PullDone(c)
                                  \/ UserStep /\ screen # "containerCreate"
<1>2. Known /\ RefreshIsKnown /\ DialogOnCreate /\ [Next]_vars => [Yields]_vars
  BY <1>1
<1> HIDE DEF Yields
<1>3. Spec => [][Yields]_vars
  BY <1>2, TypeCorrect, RequestsAlwaysKnown, RefreshAlwaysKnown,
     DialogAlwaysOnCreate, PTL DEF Spec, Known
<1> QED BY <1>3 DEF RefreshYieldsToPull, Yields, Overtaken
=============================================================================
