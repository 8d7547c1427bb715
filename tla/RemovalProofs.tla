---------------------------- MODULE RemovalProofs ----------------------------
(***************************************************************************)
(* A container whose removal the host has confirmed never comes back to    *)
(* the list.  The reason is the generation that every request starts: a    *)
(* reply is accepted only if its request is the latest, and the latest     *)
(* request was sent after every removal the console knows of.              *)
(***************************************************************************)
EXTENDS ConsoleProofs

USE DEF bookVars, linkVars, viewVars, requestVars, inventoryVars, featureVars

-----------------------------------------------------------------------------
(* The inductive invariant *)

KnowsGone(c, g, removed) ==
    c.kind \in RequestKinds => c.gen <= g /\ (c.gen = g => removed \subseteq c.gone)

\* A request of the current generation was sent after every removal, and none
\* belongs to a generation to come.
RequestsKnowGone == \A c \in cmds : KnowsGone(c, generation, gone)

\* The commands cs are commands in flight, some of them cancelled, and others
\* that are no requests.
Derived(cs) ==
    /\ cs \subseteq Command
    /\ \A d \in cs : d.kind \in RequestKinds =>
          \E c \in cmds : <<c.kind, c.gen, c.gone>> = <<d.kind, d.gen, d.gone>>

\* Cancelling keeps commands derived from those in flight.
LEMMA CancelledDerived ==
    ASSUME NEW cs, Derived(cs), NEW kinds, NEW g
    PROVE  Derived(Cancelled(cs, kinds, g))
<1>1. Cancelled(cs, kinds, g) \subseteq Command BY CancelledType DEF Derived
<1>2. ASSUME NEW d \in Cancelled(cs, kinds, g)
      PROVE  \E e \in cs : <<e.kind, e.gen, e.gone>> = <<d.kind, d.gen, d.gone>>
  <2>1. PICK e \in cs :
          d = [e EXCEPT !.live = @ /\ ~(e.kind \in kinds /\ e.gen = g)]
    BY DEF Cancelled
  <2>2. e \in Command BY DEF Derived
  <2> QED BY <2>1, <2>2 DEF Command
<1> QED BY <1>1, <1>2 DEF Derived

LEMMA StoppedDerived ==
    ASSUME NEW cs, Derived(cs)
    PROVE  Derived(WithoutStream(cs)) /\ Derived(WithoutPull(cs))
BY CancelledDerived DEF WithoutStream, WithoutPull

LEMMA InFlightDerived ==
    ASSUME TypeOK
    PROVE  Derived(cmds) /\ \A c : Derived(cmds \ {c})
BY DEF Derived, TypeOK

\* The steps that start no request keep the invariant.
LEMMA QuietStep ==
    ASSUME TypeOK, RequestsKnowGone, Derived(cmds'),
           UNCHANGED <<generation, gone>>
    PROVE  RequestsKnowGone'
<1> SUFFICES ASSUME NEW d \in cmds', d.kind \in RequestKinds
             PROVE  KnowsGone(d, generation, gone)
  BY DEF RequestsKnowGone, KnowsGone
<1>1. PICK c \in cmds : <<c.kind, c.gen, c.gone>> = <<d.kind, d.gen, d.gone>>
  BY DEF Derived
<1>2. KnowsGone(c, generation, gone) BY DEF RequestsKnowGone
<1> QED BY <1>1, <1>2 DEF KnowsGone

\* The steps that start one keep it too: whatever was in flight is of an
\* earlier generation than the new requests.
LEMMA RequestStep ==
    ASSUME TypeOK, RequestsKnowGone, NEW cs, Derived(cs), NEW held, NEW new,
           BeginRequest(cs, held, new),
           \A d \in new : d.gen = generation + 1 /\ gone' \subseteq d.gone
    PROVE  RequestsKnowGone'
<1>1. generation \in Nat /\ cmds \subseteq Command BY DEF TypeOK
<1>2. generation' = generation + 1 BY DEF BeginRequest
<1> SUFFICES ASSUME NEW d \in cmds', d.kind \in RequestKinds
             PROVE  KnowsGone(d, generation', gone')
  BY DEF RequestsKnowGone, KnowsGone
<1>3. CASE d \in new BY <1>1, <1>2, <1>3 DEF KnowsGone
<1>4. CASE d \in Cancelled(cs, RequestKinds, held)
  <2>1. PICK c \in cmds : <<c.kind, c.gen, c.gone>> = <<d.kind, d.gen, d.gone>>
    BY <1>4, CancelledDerived DEF Derived
  <2>2. c.gen <= generation BY <2>1 DEF RequestsKnowGone, KnowsGone
  <2>3. c.gen \in Nat BY <1>1 DEF Command
  <2> QED BY <1>1, <1>2, <2>1, <2>2, <2>3 DEF KnowsGone
<1> QED BY <1>3, <1>4 DEF BeginRequest

\* The usual request, of one command.
LEMMA OneRequestStep ==
    ASSUME TypeOK, RequestsKnowGone, NEW cs, Derived(cs), NEW held,
           NEW kind, NEW target,
           BeginRequest(cs, held, {Request(kind, target)}), UNCHANGED gone
    PROVE  RequestsKnowGone'
<1>1. /\ Request(kind, target).gen = generation + 1
      /\ Request(kind, target).gone = gone
  BY DEF Request, Cmd
<1> QED BY <1>1, RequestStep

-----------------------------------------------------------------------------
(* The helpers that start requests *)

LEMMA NoRequestKnows ==
    ASSUME TypeOK, RequestsKnowGone, NEW cs, Derived(cs), NEW held,
           NoRequest(cs, held), UNCHANGED gone
    PROVE  RequestsKnowGone'
BY QuietStep DEF NoRequest

LEMMA RefreshKnows ==
    ASSUME TypeOK, RequestsKnowGone, NEW cs, Derived(cs), NEW held,
           NEW l, NEW e, Refresh(l, e, cs, held), UNCHANGED gone
    PROVE  RequestsKnowGone'
BY NoRequestKnows, OneRequestStep DEF Refresh

LEMMA RefreshImagesKnows ==
    ASSUME TypeOK, RequestsKnowGone, NEW cs, Derived(cs), NEW held,
           NEW g, NEW e, RefreshImages(g, e, cs, held), UNCHANGED gone
    PROVE  RequestsKnowGone'
BY NoRequestKnows, OneRequestStep DEF RefreshImages

LEMMA RunOperationKnows ==
    ASSUME TypeOK, RequestsKnowGone, NEW action, NEW target,
           RunOperation(action, target), UNCHANGED gone
    PROVE  RequestsKnowGone'
<1>1. CASE UNCHANGED <<requestVars, cmds>>
  BY <1>1, InFlightDerived, QuietStep
<1>2. CASE BeginRequest(cmds, requestCancel, {Request(action, target)})
  BY <1>2, InFlightDerived, OneRequestStep
<1> QED BY <1>1, <1>2 DEF RunOperation

LEMMA RunContainerCreateKnows ==
    ASSUME TypeOK, RequestsKnowGone, NEW image, RunContainerCreate(image),
           UNCHANGED gone
    PROVE  RequestsKnowGone'
<1>1. CASE UNCHANGED <<requestVars, cmds>>
  BY <1>1, InFlightDerived, QuietStep
<1>2. CASE BeginRequest(cmds, requestCancel, {Request("run", image)})
  BY <1>2, InFlightDerived, OneRequestStep
<1> QED BY <1>1, <1>2 DEF RunContainerCreate

LEMMA RefreshAfterCreateKnows ==
    ASSUME TypeOK, RequestsKnowGone, NEW c, NEW status, NEW result,
           RefreshAfterCreate(c, status, result), UNCHANGED gone
    PROVE  RequestsKnowGone'
<1>1. CASE NoRequest(cmds \ {c}, None)
  BY <1>1, InFlightDerived, NoRequestKnows
<1>2. CASE BeginRequest(cmds \ {c}, None, {Request("createRefresh", None)})
  BY <1>2, InFlightDerived, OneRequestStep
<1> QED BY <1>1, <1>2 DEF RefreshAfterCreate

LEMMA BeginProfileKnows ==
    ASSUME TypeOK, RequestsKnowGone, NEW p, NEW cs, Derived(cs),
           BeginProfile(p, cs)
    PROVE  RequestsKnowGone'
<1> DEFINE new == {Cmd("connect", p, None, generation + 1)}
<1>1. BeginRequest(WithoutPull(WithoutStream(cs)), requestCancel, new)
      /\ UNCHANGED gone
  BY DEF BeginProfile
<1>2. Derived(WithoutPull(WithoutStream(cs))) BY StoppedDerived
<1>3. \A d \in new : d.gen = generation + 1 /\ d.gone = gone BY DEF Cmd
<1> QED BY <1>1, <1>2, <1>3, RequestStep

-----------------------------------------------------------------------------
(* Every step *)

LEMMA ConnectionKnows ==
    ASSUME TypeOK, RequestsKnowGone,
           ConnectionKeys \/ \E c \in cmds : ConnectionMessage(c)
    PROVE  RequestsKnowGone'
<1>1. CASE ConnectionKeys
  <2>1. CASE SaveProfile
    BY <2>1, InFlightDerived, BeginProfileKnows DEF SaveProfile
  <2>2. CASE OpenProfile
    BY <2>2, InFlightDerived, BeginProfileKnows DEF OpenProfile
  <2>3. CASE RemoveProfile
    BY <2>3, InFlightDerived, BeginProfileKnows, QuietStep DEF RemoveProfile
  <2>4. CASE QuitSelector \/ CursorPanic
    BY <2>4 DEF QuitSelector, QuitNow, CursorPanic, RequestsKnowGone
  <2>5. CASE \/ OpenSelector \/ CloseSelector \/ MoveCursor
             \/ NewProfile \/ EditProfile \/ CloseForm
             \/ SaveProfileFails \/ RemoveProfileFails
    <3>1. UNCHANGED <<generation, gone, cmds>>
      BY <2>5 DEF OpenSelector, CloseSelector, MoveCursor, NewProfile,
                  EditProfile, CloseForm, OnlyMode, SaveProfileFails,
                  RemoveProfileFails
    <3> QED BY <3>1, InFlightDerived, QuietStep
  <2> QED BY <1>1, <2>1, <2>2, <2>3, <2>4, <2>5 DEF ConnectionKeys
<1>2. ASSUME NEW c \in cmds, ConnectionMessage(c)
      PROVE  RequestsKnowGone'
  <2>0. Derived(cmds) /\ Derived(cmds \ {c}) BY InFlightDerived
  <2>1. CASE ConfigUnreadable(c)
    BY <2>0, <2>1, QuietStep DEF ConfigUnreadable
  <2>2. CASE ConfigLoaded(c)
    BY <2>0, <2>2, QuietStep, BeginProfileKnows DEF ConfigLoaded
  <2>3. CASE \/ ProfileRefused(c) \/ ProfileConnectedUnlisted(c)
             \/ ProfileConnected(c)
    <3>1. cmds' = WithoutPull(cmds \ {c}) /\ UNCHANGED <<generation, gone>>
      BY <2>3 DEF ProfileRefused, ProfileConnectedUnlisted, ProfileConnected,
                  Connected
    <3> QED BY <2>0, <3>1, StoppedDerived, QuietStep
  <2> QED BY <1>2, <2>1, <2>2, <2>3 DEF ConnectionMessage
<1> QED BY <1>1, <1>2

LEMMA ContainerKeysKnow ==
    ASSUME TypeOK, RequestsKnowGone, ContainerKeys
    PROVE  RequestsKnowGone'
<1>0. Derived(cmds) BY InFlightDerived
<1>1. CASE RefreshKey BY <1>0, <1>1, RefreshKnows DEF RefreshKey
<1>2. CASE RefreshDetails BY <1>0, <1>2, OneRequestStep DEF RefreshDetails
<1>3. CASE OpenDetails BY <1>0, <1>3, OneRequestStep DEF OpenDetails
<1>4. CASE StartKey BY <1>4, RunOperationKnows DEF StartKey
<1>5. CASE \/ MoveSelection \/ OpenDetailsRefused \/ CloseDetails
           \/ \E action \in Lifecycle \ {"start"} : RequestConfirmation(action)
           \/ OpenFilter \/ TypeFilter \/ AcceptFilter \/ LeaveFilter
  <2>1. UNCHANGED <<generation, gone, cmds>>
    BY <1>5 DEF MoveSelection, OpenDetailsRefused, CloseDetails, Refuse,
                RequestConfirmation, OpenFilter, TypeFilter, AcceptFilter,
                LeaveFilter, Filtering
  <2> QED BY <1>0, <2>1, QuietStep
<1>6. ASSUME NEW kind \in StreamKinds, OpenStream(kind)
      PROVE  RequestsKnowGone'
  <2>1. CASE Refuse BY <1>0, <2>1, QuietStep DEF Refuse
  <2>2. CASE ~Refuse
    <3> DEFINE sent == Cmd(kind, client, selectedID, stream.generation + 2)
    <3>1. cmds' = WithoutStream(cmds) \cup {sent} /\ OnlyStream
      BY <1>6, <2>2 DEF OpenStream
    <3>2. sent.kind \notin RequestKinds
      BY DEF Cmd, StreamKinds, RequestKinds, Reads, Mutations, Lifecycle
    <3>3. cmds' \subseteq Command
      BY <1>6, StreamKeysType DEF TypeOK
    <3>4. Derived(cmds')
      <4> HIDE DEF sent
      <4> QED BY <1>0, <3>1, <3>2, <3>3, StoppedDerived DEF Derived
    <3> QED BY <3>1, <3>4, QuietStep DEF OnlyStream
  <2> QED BY <2>1, <2>2
<1>7. CASE CloseStream
  BY <1>0, <1>7, StoppedDerived, QuietStep DEF CloseStream, OnlyStream
<1> QED BY <1>1, <1>2, <1>3, <1>4, <1>5, <1>6, <1>7 DEF ContainerKeys

LEMMA ImageKeysKnow ==
    ASSUME TypeOK, RequestsKnowGone, ImageKeys
    PROVE  RequestsKnowGone'
<1>0. Derived(cmds) BY InFlightDerived
<1>1. CASE OpenImages
  BY <1>0, <1>1, RefreshImagesKnows DEF OpenImages, OnlyGallery
<1>2. CASE RefreshImagesKey
  BY <1>0, <1>2, RefreshImagesKnows DEF RefreshImagesKey, OnlyGallery
<1>3. CASE RefreshImageDetails
  BY <1>0, <1>3, OneRequestStep DEF RefreshImageDetails, OnlyGallery
<1>4. CASE OpenImageDetails
  BY <1>0, <1>4, OneRequestStep DEF OpenImageDetails, OnlyGallery
<1>5. CASE CancelImagePull
  BY <1>0, <1>5, StoppedDerived, RefreshImagesKnows DEF CancelImagePull, OnlyPull
<1>6. CASE StartImagePull
  <2> DEFINE sent == Cmd("pull", client, None, pull.generation + 2)
  <2>1. cmds' = WithoutPull(cmds) \cup {sent} /\ OnlyPull
        /\ UNCHANGED requestVars
    BY <1>6 DEF StartImagePull
  <2>2. sent.kind \notin RequestKinds
    BY DEF Cmd, RequestKinds, Reads, Mutations, Lifecycle
  <2>3. cmds' \subseteq Command BY <1>6, PullKeysType DEF TypeOK
  <2>4. Derived(cmds')
    <3> HIDE DEF sent
    <3> QED BY <1>0, <2>1, <2>2, <2>3, StoppedDerived DEF Derived
  <2> QED BY <2>1, <2>4, QuietStep DEF OnlyPull
<1>7. CASE \/ OpenImageDetailsRefused \/ BackFromImages \/ MoveImageSelection
           \/ FilterImages \/ RequestImageConfirmation
           \/ OpenImagePull \/ LeaveImagePull
           \/ OpenContainerCreate \/ LeaveContainerCreate
           \/ SubmitContainerCreate \/ RejectContainerCreate
  <2>1. UNCHANGED <<generation, gone, cmds>>
    BY <1>7 DEF OpenImageDetailsRefused, BackFromImages, MoveImageSelection,
                FilterImages, RequestImageConfirmation, OpenImagePull,
                LeaveImagePull, OpenContainerCreate, LeaveContainerCreate,
                SubmitContainerCreate, RejectContainerCreate, Refuse,
                OnlyGallery, OnlyPull, OnlyCreate
  <2> QED BY <1>0, <2>1, QuietStep
<1>8. CASE CancelContainerCreate
  BY <1>0, <1>8, CancelledDerived, QuietStep DEF CancelContainerCreate, OnlyCreate
<1>9. CASE QuitPull \/ QuitContainerCreate
  BY <1>9 DEF QuitPull, QuitContainerCreate, QuitNow, RequestsKnowGone
<1> QED BY <1>1, <1>2, <1>3, <1>4, <1>5, <1>6, <1>7, <1>8, <1>9 DEF ImageKeys

LEMMA DialogKnows ==
    ASSUME TypeOK, RequestsKnowGone, DialogKeys
    PROVE  RequestsKnowGone'
<1>0. Derived(cmds) BY InFlightDerived
<1>1. CASE ConfirmStale \/ CancelDialog
  BY <1>0, <1>1, QuietStep DEF ConfirmStale, CancelDialog, DialogCloses
<1>2. CASE ConfirmOperation
  BY <1>2, RunOperationKnows DEF ConfirmOperation, DialogCloses
<1>3. CASE ConfirmCreate
  BY <1>3, RunContainerCreateKnows DEF ConfirmCreate, DialogCloses
<1> QED BY <1>1, <1>2, <1>3 DEF DialogKeys

LEMMA ContainerMessageKnows ==
    ASSUME TypeOK, RequestsKnowGone, NEW c \in cmds, ContainerMessage(c)
    PROVE  RequestsKnowGone'
<1>0. Derived(cmds \ {c}) BY InFlightDerived
<1>1. CASE \/ InventoryLoaded(c) \/ InventoryFailed(c)
           \/ DetailsLoaded(c) \/ DetailsFailed(c) \/ OperationFailed(c)
  <2>1. NoRequest(cmds \ {c}, None) /\ UNCHANGED gone
    BY <1>1 DEF InventoryLoaded, InventoryFailed, InventoryReply,
                DetailsLoaded, DetailsFailed, DetailsReply, OperationFailed
  <2> QED BY <1>0, <2>1, NoRequestKnows
<1>2. CASE OperationStale(c)
  BY <1>0, <1>2, RefreshKnows DEF OperationStale
<1>3. CASE OperationSucceeded(c)
  <2> DEFINE read(kind, target) == [Request(kind, target) EXCEPT !.gone = gone']
             new == {read("list", None)} \cup
                    (IF screen' = "details" THEN {read("inspect", c.target)} ELSE {})
  <2>1. BeginRequest(cmds \ {c}, None, new)
    BY <1>3 DEF OperationSucceeded
  <2>2. \A d \in new : d.gen = generation + 1 /\ gone' \subseteq d.gone
    BY DEF Request, Cmd
  <2> HIDE DEF new
  <2> QED BY <1>0, <2>1, <2>2, RequestStep
<1> QED BY <1>1, <1>2, <1>3 DEF ContainerMessage

LEMMA OtherMessageKnows ==
    ASSUME TypeOK, RequestsKnowGone, NEW c \in cmds,
           \/ DropStaleReply(c) \/ ImageMessage(c) \/ PullMessage(c)
           \/ CreateMessage(c) \/ StreamMessage(c)
    PROVE  RequestsKnowGone'
<1>0. Derived(cmds) /\ Derived(cmds \ {c}) BY InFlightDerived
<1>1. CASE DropStaleReply(c)
  BY <1>0, <1>1, QuietStep DEF DropStaleReply
<1>2. CASE ImageMessage(c)
  <2>1. CASE ImageRemoved(c) \/ ImageRemoveStale(c)
    BY <1>0, <2>1, RefreshImagesKnows
       DEF ImageRemoved, ImageRemoveStale, ImageRemoveFinished
  <2>2. CASE ImageInventoryLoaded(c) \/ ImageInventoryFailed(c)
    <3>1. ImageInventoryReply(c)
      BY <2>2 DEF ImageInventoryLoaded, ImageInventoryFailed
    <3> QED BY <1>0, <3>1, NoRequestKnows DEF ImageInventoryReply, OnlyGallery
  <2>3. CASE ImageDetailsLoaded(c) \/ ImageDetailsFailed(c)
    <3>1. ImageDetailsReply(c)
      BY <2>3 DEF ImageDetailsLoaded, ImageDetailsFailed
    <3> QED BY <1>0, <3>1, NoRequestKnows DEF ImageDetailsReply, OnlyGallery
  <2>4. CASE ImageDetailsClosed(c)
    BY <1>0, <2>4, QuietStep DEF ImageDetailsClosed, OnlyGallery
  <2>5. CASE ImageRemoveFailed(c)
    BY <1>0, <2>5, NoRequestKnows DEF ImageRemoveFailed, ImageRemoveFinished
  <2> QED BY <1>2, <2>1, <2>2, <2>3, <2>4, <2>5 DEF ImageMessage
<1>3. CASE PullMessage(c)
  <2>1. ASSUME NEW status, PullEvent(c, status) \/ PullFailed(c, status)
        PROVE  RequestsKnowGone'
    BY <1>0, <2>1, QuietStep DEF PullEvent, PullFailed, OnlyPull
  <2>2. CASE PullDone(c)
    <3>1. UNCHANGED gone BY <2>2 DEF PullDone, OnlyPull
    <3>2. \/ cmds' = cmds \ {c} /\ UNCHANGED requestVars
          \/ RefreshImages(gallery, err, cmds \ {c}, requestCancel)
      BY <2>2 DEF PullDone
    <3> QED BY <1>0, <3>1, <3>2, QuietStep, RefreshImagesKnows
  <2>3. CASE DropPullEvent(c)
    BY <1>0, <2>3, QuietStep DEF DropPullEvent, OnlyPull
  <2> QED BY <1>3, <2>1, <2>2, <2>3 DEF PullMessage
<1>4. CASE CreateMessage(c)
  <2>1. CASE ContainerStarted(c) \/ ContainerCreatedOnly(c)
    BY <2>1, RefreshAfterCreateKnows
       DEF ContainerStarted, ContainerCreatedOnly, RunReply, OnlyCreate
  <2>2. CASE ContainerCreateCancelled(c) \/ ContainerCreateFailed(c)
    <3>1. NoRequest(cmds \ {c}, None) /\ UNCHANGED gone
      BY <2>2 DEF ContainerCreateCancelled, ContainerCreateFailed, RunReply,
                  OnlyCreate
    <3> QED BY <1>0, <3>1, NoRequestKnows
  <2>3. CASE DropRunReply(c) \/ DropCreateRefresh(c)
    BY <1>0, <2>3, QuietStep DEF DropRunReply, DropCreateRefresh, OnlyCreate
  <2>4. CASE CreateRefreshed(c)
    <3>1. NoRequest(cmds \ {c}, None) /\ UNCHANGED gone
      BY <2>4 DEF CreateRefreshed, OnlyCreate
    <3> QED BY <1>0, <3>1, NoRequestKnows
  <2> QED BY <1>4, <2>1, <2>2, <2>3, <2>4 DEF CreateMessage
<1>5. CASE StreamMessage(c)
  <2>1. (cmds' = cmds \/ cmds' = cmds \ {c}) /\ UNCHANGED <<generation, gone>>
    BY <1>5 DEF StreamMessage, StatsSample, DropStreamEvent, StreamEnded,
                CurrentStream, OnlyStream
  <2> QED BY <1>0, <2>1, QuietStep
<1> QED BY <1>1, <1>2, <1>3, <1>4, <1>5

LEMMA RequestsKnowGoneInductive ==
    ASSUME TypeOK, RequestsKnowGone, [Next]_vars
    PROVE  RequestsKnowGone'
<1>1. CASE UserStep
  <2>1. CASE QuitKey
    BY <2>1 DEF QuitKey, QuitNow, RequestsKnowGone
  <2> QED BY <1>1, <2>1, ConnectionKnows, ContainerKeysKnow, ImageKeysKnow,
             DialogKnows DEF UserStep
<1>2. ASSUME NEW c \in cmds, Deliver(c)
      PROVE  RequestsKnowGone'
  BY <1>2, ConnectionKnows, ContainerMessageKnows, OtherMessageKnows DEF Deliver
<1>3. CASE UNCHANGED vars
  BY <1>3 DEF vars, RequestsKnowGone, KnowsGone
<1> QED BY <1>1, <1>2, <1>3 DEF Next, Terminated

-----------------------------------------------------------------------------
(* What the list shows *)

\* A reply that is accepted lists no container known to be gone.
LEMMA AcceptedReply ==
    ASSUME TypeOK, RequestsKnowGone, NEW c \in cmds,
           c.kind \in RequestKinds, c.gen = generation,
           containers' \subseteq ContainersOf(c.host) \ c.gone
    PROVE  containers' \cap gone \subseteq containers
BY DEF RequestsKnowGone, KnowsGone

LEMMA NoResurrection ==
    ASSUME TypeOK, RequestsKnowGone, [Next]_vars
    PROVE  containers' \cap gone \subseteq containers
<1>1. CASE UNCHANGED containers BY <1>1
<1>2. CASE ContainerKeys
  BY <1>1, <1>2
     DEF ContainerKeys, RefreshKey, RefreshDetails, MoveSelection, OpenDetails,
         OpenDetailsRefused, CloseDetails, StartKey, RequestConfirmation,
         OpenFilter, TypeFilter, AcceptFilter, LeaveFilter, Filtering,
         OpenStream, CloseStream, OnlyStream, Refuse
<1>3. CASE ImageKeys
  <2>1. CASE \/ OpenImages \/ RefreshImagesKey \/ RefreshImageDetails
             \/ OpenImageDetails \/ OpenImageDetailsRefused \/ BackFromImages
             \/ MoveImageSelection \/ FilterImages \/ RequestImageConfirmation
    BY <1>1, <2>1
       DEF OnlyGallery, OpenImages, RefreshImagesKey, RefreshImageDetails,
           OpenImageDetails, OpenImageDetailsRefused, BackFromImages,
           MoveImageSelection, FilterImages, RequestImageConfirmation, Refuse
  <2>2. CASE \/ OpenImagePull \/ LeaveImagePull \/ StartImagePull
             \/ CancelImagePull \/ QuitPull
    BY <1>1, <2>2 DEF OnlyPull, OpenImagePull, LeaveImagePull, StartImagePull,
                      CancelImagePull, QuitPull, QuitNow, Refuse
  <2>3. CASE \/ OpenContainerCreate \/ LeaveContainerCreate
             \/ CancelContainerCreate \/ SubmitContainerCreate
             \/ RejectContainerCreate \/ QuitContainerCreate
    BY <1>1, <2>3 DEF OpenContainerCreate, LeaveContainerCreate,
                      CancelContainerCreate, SubmitContainerCreate,
                      RejectContainerCreate, QuitContainerCreate, QuitNow, Refuse
  <2> QED BY <1>3, <2>1, <2>2, <2>3 DEF ImageKeys
<1>4. CASE DialogKeys \/ QuitKey
  BY <1>1, <1>4 DEF DialogKeys, ConfirmStale, ConfirmOperation, ConfirmCreate,
                    CancelDialog, DialogCloses, QuitKey, QuitNow
<1>5. ASSUME NEW p, NEW cs, BeginProfile(p, cs)
      PROVE  UNCHANGED containers
  BY <1>5 DEF BeginProfile
<1>6. CASE ConnectionKeys
  BY <1>1, <1>5, <1>6
     DEF ConnectionKeys, OpenSelector, CloseSelector, MoveCursor, QuitSelector,
         QuitNow, NewProfile, EditProfile, CloseForm, OnlyMode, CursorPanic,
         SaveProfile, SaveProfileFails, RemoveProfile, RemoveProfileFails,
         OpenProfile
<1>7. ASSUME NEW c \in cmds, ConnectionMessage(c)
      PROVE  containers' \cap gone \subseteq containers
  <2>1. CASE ProfileConnected(c)
    <3>1. c.kind \in RequestKinds /\ c.gen = generation
      BY <2>1 DEF ProfileConnected, Connected, Answers, RequestKinds, Reads
    <3>2. containers' \subseteq ContainersOf(c.host) \ c.gone
      BY <2>1 DEF ProfileConnected
    <3> QED BY <3>1, <3>2, AcceptedReply
  <2>2. CASE \/ ConfigUnreadable(c) \/ ConfigLoaded(c)
             \/ ProfileRefused(c) \/ ProfileConnectedUnlisted(c)
    BY <1>1, <1>5, <2>2 DEF ConfigUnreadable, ConfigLoaded, ProfileRefused,
                            ProfileConnectedUnlisted
  <2> QED BY <1>7, <2>1, <2>2 DEF ConnectionMessage
<1>8. ASSUME NEW c \in cmds, ContainerMessage(c)
      PROVE  containers' \cap gone \subseteq containers
  <2>1. CASE InventoryLoaded(c)
    <3>1. c.kind \in RequestKinds /\ c.gen = generation
      BY <2>1 DEF InventoryLoaded, InventoryReply, Answers, RequestKinds, Reads
    <3>2. containers' \subseteq ContainersOf(c.host) \ c.gone
      BY <2>1 DEF InventoryLoaded
    <3> QED BY <3>1, <3>2, AcceptedReply
  <2>2. CASE \/ InventoryFailed(c) \/ DetailsLoaded(c) \/ DetailsFailed(c)
             \/ OperationSucceeded(c) \/ OperationFailed(c) \/ OperationStale(c)
    BY <1>1, <2>2 DEF InventoryFailed, DetailsLoaded, DetailsFailed,
                      DetailsReply, OperationSucceeded, OperationFailed,
                      OperationStale, Finished
  <2> QED BY <1>8, <2>1, <2>2 DEF ContainerMessage
<1>9. ASSUME NEW c \in cmds, CreateMessage(c)
      PROVE  containers' \cap gone \subseteq containers
  <2>1. CASE CreateRefreshed(c)
    <3>1. c.kind \in RequestKinds /\ c.gen = generation
      BY <2>1 DEF CreateRefreshed, CurrentCreateRefresh, RequestKinds, Reads
    <3>2. \/ containers' \subseteq ContainersOf(c.host) \ c.gone
          \/ UNCHANGED containers
      BY <2>1 DEF CreateRefreshed
    <3> QED BY <1>1, <3>1, <3>2, AcceptedReply
  <2>2. CASE \/ ContainerStarted(c) \/ ContainerCreatedOnly(c)
             \/ ContainerCreateCancelled(c) \/ ContainerCreateFailed(c)
             \/ DropRunReply(c) \/ DropCreateRefresh(c)
    BY <1>1, <2>2 DEF ContainerStarted, ContainerCreatedOnly,
                      ContainerCreateCancelled, ContainerCreateFailed,
                      RunReply, DropRunReply, DropCreateRefresh
  <2> QED BY <1>9, <2>1, <2>2 DEF CreateMessage
<1>10. ASSUME NEW c \in cmds,
              DropStaleReply(c) \/ ImageMessage(c) \/ PullMessage(c)
       PROVE  UNCHANGED containers
  BY <1>10 DEF DropStaleReply,
         ImageMessage, ImageInventoryLoaded, ImageInventoryFailed,
         ImageInventoryReply, ImageDetailsLoaded, ImageDetailsFailed,
         ImageDetailsReply, ImageDetailsClosed, ImageRemoved, ImageRemoveStale,
         ImageRemoveFailed, ImageRemoveFinished, OnlyGallery,
         PullMessage, PullEvent, PullFailed, PullDone, DropPullEvent, OnlyPull
<1>11. ASSUME NEW c \in cmds, StreamMessage(c)
       PROVE  UNCHANGED containers
  BY <1>11 DEF StreamMessage, StatsSample, DropStreamEvent, StreamEnded,
               CurrentStream, OnlyStream
<1>12. CASE UNCHANGED vars BY <1>1, <1>12 DEF vars
<1> QED BY <1>1, <1>2, <1>3, <1>4, <1>6, <1>7, <1>8, <1>9, <1>10, <1>11, <1>12
        DEF Next, UserStep, Deliver, Terminated

\* Once the host has confirmed a removal and the list no longer shows the
\* container, no reply that was late brings it back.
THEOREM RemovedContainersStayGone == Spec => RemovedStaysGone
<1>1. Init => RequestsKnowGone
  BY DEF Init, RequestsKnowGone, KnowsGone, RequestKinds, Reads, Mutations,
         Lifecycle
<1>2. TypeOK /\ RequestsKnowGone /\ [Next]_vars => RequestsKnowGone'
  BY RequestsKnowGoneInductive
<1>3. TypeOK /\ RequestsKnowGone /\ [Next]_vars
        => [containers' \cap gone \subseteq containers]_vars
  BY NoResurrection
<1> QED BY <1>1, <1>2, <1>3, TypeCorrect, PTL DEF Spec, RemovedStaysGone
=============================================================================
