------------------------------ MODULE FeedProofs ------------------------------
(***************************************************************************)
(* The streams and the pull: whoever is still fed is the one on display,   *)
(* and a view or a pull that does not say it ended is fed.  The reason is  *)
(* the generation that every stream and every pull has to itself: what is  *)
(* stopped is of an older generation than what starts next, so one context *)
(* at most is live, and an event is heard only if it is of that one.       *)
(***************************************************************************)
EXTENDS ConsoleProofs

USE DEF bookVars, linkVars, viewVars, requestVars, inventoryVars, featureVars

FeedKinds == StreamKinds \cup {"pull"}

LEMMA FeedsAreNoRequests ==
    /\ FeedKinds \cap RequestKinds = {}
    /\ StreamKinds \cap RequestKinds = {}
    /\ StreamKinds \cap {"pull"} = {}
BY DEF FeedKinds, StreamKinds, RequestKinds, Reads, Mutations, Lifecycle

-----------------------------------------------------------------------------
(* What each step does to feeds *)

\* A step that neither starts, stops nor hears a feed.  It may leave a stream's
\* view or the target, and never enters a stream's view.
FeedsKept ==
    /\ Of(cmds', FeedKinds) = Of(cmds, FeedKinds)
    /\ UNCHANGED <<loop, stream, pull>>
    /\ client' \in {client, None}
    /\ screen' \in StreamKinds => screen' = screen
    /\ create'.previous \in {create.previous, "images", "imageDetails"}

\* The end of the program.
ProgramEnds ==
    /\ loop' # "running" /\ cmds' = {}
    /\ UNCHANGED <<linkVars, viewVars, requestVars, inventoryVars, featureVars>>

\* Requests are no feeds.
LEMMA RequestKeepsFeeds ==
    ASSUME TypeOK, NEW cs, cs \subseteq cmds, NEW held, NEW kind \in RequestKinds,
           NEW target, BeginRequest(cs, held, {Request(kind, target)})
    PROVE  Of(cmds', FeedKinds) = Of(cs, FeedKinds)
<1>1. cs \subseteq Command BY DEF TypeOK
<1>2. \A d \in {Request(kind, target)} : d.kind \notin FeedKinds
  BY FeedsAreNoRequests DEF Request, Cmd
<1> QED BY <1>1, <1>2, OfBeginRequest, FeedsAreNoRequests

LEMMA RequestKindsList ==
    {"list", "inspect", "listImages", "inspectImage", "createRefresh", "connect",
     "run"} \cup Mutations \subseteq RequestKinds
BY DEF RequestKinds, Reads

\* The helpers that start requests keep the feeds of the commands they are
\* given.
LEMMA HelpersKeepFeeds ==
    ASSUME TypeOK, NEW cs, cs \subseteq cmds, NEW held
    PROVE  /\ NoRequest(cs, held) => Of(cmds', FeedKinds) = Of(cs, FeedKinds)
           /\ \A l, e : Refresh(l, e, cs, held)
                 => Of(cmds', FeedKinds) = Of(cs, FeedKinds)
           /\ \A g, e : RefreshImages(g, e, cs, held)
                 => Of(cmds', FeedKinds) = Of(cs, FeedKinds)
<1>1. NoRequest(cs, held) => Of(cmds', FeedKinds) = Of(cs, FeedKinds)
  BY DEF NoRequest
<1>2. ASSUME NEW l, NEW e, Refresh(l, e, cs, held)
      PROVE  Of(cmds', FeedKinds) = Of(cs, FeedKinds)
  BY <1>1, <1>2, RequestKeepsFeeds, RequestKindsList DEF Refresh
<1>3. ASSUME NEW g, NEW e, RefreshImages(g, e, cs, held)
      PROVE  Of(cmds', FeedKinds) = Of(cs, FeedKinds)
  BY <1>1, <1>3, RequestKeepsFeeds, RequestKindsList DEF RefreshImages
<1> QED BY <1>1, <1>2, <1>3

\* A reply that is no event of a feed leaves the feeds when it is handled.
LEMMA ReplyIsNoFeed ==
    ASSUME NEW c, c.kind \notin FeedKinds
    PROVE  Of(cmds \ {c}, FeedKinds) = Of(cmds, FeedKinds)
BY DEF Of

LEMMA ContainerKeysKeepFeeds ==
    ASSUME TypeOK,
           \/ RefreshKey \/ RefreshDetails \/ MoveSelection
           \/ OpenDetails \/ OpenDetailsRefused \/ CloseDetails
           \/ StartKey
           \/ \E action \in Lifecycle \ {"start"} : RequestConfirmation(action)
           \/ OpenFilter \/ TypeFilter \/ AcceptFilter \/ LeaveFilter
    PROVE  FeedsKept
<1>1. CASE RefreshKey
  BY <1>1, HelpersKeepFeeds DEF RefreshKey, FeedsKept
<1>2. CASE RefreshDetails
  BY <1>2, RequestKeepsFeeds, RequestKindsList DEF RefreshDetails, FeedsKept
<1>3. CASE OpenDetails
  <2>1. screen' \notin StreamKinds BY <1>3 DEF OpenDetails, StreamKinds
  <2> QED BY <1>3, <2>1, RequestKeepsFeeds, RequestKindsList
          DEF OpenDetails, FeedsKept
<1>4. CASE StartKey
  <2>1. "start" \in RequestKinds BY RequestKindsList DEF Mutations, Lifecycle
  <2>2. Of(cmds', FeedKinds) = Of(cmds, FeedKinds)
    BY <1>4, <2>1, RequestKeepsFeeds DEF StartKey, RunOperation
  <2> QED BY <1>4, <2>2 DEF StartKey, FeedsKept
<1>5. CASE CloseDetails
  BY <1>5 DEF CloseDetails, FeedsKept, StreamKinds
<1>6. CASE \/ MoveSelection \/ OpenDetailsRefused
           \/ \E action \in Lifecycle \ {"start"} : RequestConfirmation(action)
           \/ OpenFilter \/ TypeFilter \/ AcceptFilter \/ LeaveFilter
  BY <1>6 DEF MoveSelection, OpenDetailsRefused, Refuse, RequestConfirmation,
              OpenFilter, TypeFilter, AcceptFilter, LeaveFilter, Filtering,
              FeedsKept
<1> QED BY <1>1, <1>2, <1>3, <1>4, <1>5, <1>6

LEMMA ImageKeysKeepFeeds ==
    ASSUME TypeOK, create.previous \notin StreamKinds,
           \/ OpenImages \/ RefreshImagesKey \/ RefreshImageDetails
           \/ OpenImageDetails \/ OpenImageDetailsRefused \/ BackFromImages
           \/ MoveImageSelection \/ FilterImages \/ RequestImageConfirmation
           \/ OpenImagePull \/ LeaveImagePull
           \/ OpenContainerCreate \/ LeaveContainerCreate
           \/ CancelContainerCreate \/ SubmitContainerCreate
           \/ RejectContainerCreate
    PROVE  FeedsKept
<1> USE DEF OnlyGallery
<1>0. /\ "images" \notin StreamKinds /\ "imageDetails" \notin StreamKinds
      /\ "inventory" \notin StreamKinds /\ "imagePull" \notin StreamKinds
      /\ "containerCreate" \notin StreamKinds
  BY DEF StreamKinds
<1>1. CASE OpenImages
  BY <1>0, <1>1, HelpersKeepFeeds DEF OpenImages, FeedsKept
<1>2. CASE RefreshImagesKey
  BY <1>2, HelpersKeepFeeds DEF RefreshImagesKey, FeedsKept
<1>3. CASE RefreshImageDetails
  BY <1>3, RequestKeepsFeeds, RequestKindsList DEF RefreshImageDetails, FeedsKept
<1>4. CASE OpenImageDetails
  BY <1>0, <1>4, RequestKeepsFeeds, RequestKindsList DEF OpenImageDetails, FeedsKept
<1>5. CASE \/ OpenImageDetailsRefused \/ BackFromImages \/ MoveImageSelection
           \/ FilterImages \/ RequestImageConfirmation
  BY <1>0, <1>5 DEF OpenImageDetailsRefused, BackFromImages, MoveImageSelection,
                    FilterImages, RequestImageConfirmation, Refuse, FeedsKept
<1>6. CASE OpenImagePull \/ LeaveImagePull
  BY <1>0, <1>6 DEF OpenImagePull, LeaveImagePull, OnlyPull, Refuse, FeedsKept
<1>7. CASE OpenContainerCreate
  <2>1. CASE Refuse BY <2>1 DEF Refuse, FeedsKept
  <2>2. CASE ~Refuse
    <3>1. /\ create \in Create /\ screen \in {"images", "imageDetails"}
      BY <1>7 DEF OpenContainerCreate, InScreen, TypeOK
    <3>2. create'.previous = screen
      BY <1>7, <2>2, <3>1 DEF OpenContainerCreate, Create
    <3> QED BY <1>0, <1>7, <2>2, <3>1, <3>2
            DEF OpenContainerCreate, OnlyCreate, FeedsKept
  <2> QED BY <2>1, <2>2
<1>8. CASE LeaveContainerCreate
  <2>1. create \in Create BY DEF TypeOK
  <2>2. create'.previous = create.previous
    BY <1>8, <2>1 DEF LeaveContainerCreate, Create
  <2> QED BY <1>8, <2>2 DEF LeaveContainerCreate, OnlyCreate, FeedsKept
<1>9. CASE CancelContainerCreate
  <2>1. Of(cmds', FeedKinds) = Of(cmds, FeedKinds)
    BY <1>9, OfCancelled, FeedsAreNoRequests DEF CancelContainerCreate, TypeOK
  <2> QED BY <1>9, <2>1 DEF CancelContainerCreate, OnlyCreate, FeedsKept
<1>10. CASE SubmitContainerCreate \/ RejectContainerCreate
  <2>1. create \in Create BY DEF TypeOK
  <2>2. create'.previous = create.previous
    BY <1>10, <2>1 DEF SubmitContainerCreate, RejectContainerCreate, Create
  <2> QED BY <1>10, <2>2
          DEF SubmitContainerCreate, RejectContainerCreate, OnlyCreate, FeedsKept
<1> QED BY <1>1, <1>2, <1>3, <1>4, <1>5, <1>6, <1>7, <1>8, <1>9, <1>10

LEMMA DialogKeysKeepFeeds ==
    ASSUME TypeOK, DialogKeys
    PROVE  FeedsKept
<1>0. create \in Create BY DEF TypeOK
<1>1. CASE ConfirmStale \/ CancelDialog
  <2>1. create'.previous = create.previous
    BY <1>0, <1>1 DEF ConfirmStale, CancelDialog, CreateFails, Create
  <2> QED BY <1>1, <2>1 DEF ConfirmStale, CancelDialog, DialogCloses, FeedsKept
<1>2. CASE ConfirmOperation
  <2>1. pending.action \in RequestKinds
    BY <1>2, RequestKindsList DEF ConfirmOperation, InDialog, TypeOK, Dialog
  <2>2. Of(cmds', FeedKinds) = Of(cmds, FeedKinds)
    BY <1>2, <2>1, RequestKeepsFeeds DEF ConfirmOperation, RunOperation
  <2> QED BY <1>2, <2>2 DEF ConfirmOperation, DialogCloses, FeedsKept
<1>3. CASE ConfirmCreate
  <2>1. RunContainerCreate(pending.target) BY <1>3 DEF ConfirmCreate
  <2>2. create'.previous = create.previous
    BY <1>0, <2>1 DEF RunContainerCreate, CreateFails, Create
  <2>3. Of(cmds', FeedKinds) = Of(cmds, FeedKinds)
    BY <2>1, RequestKeepsFeeds, RequestKindsList DEF RunContainerCreate
  <2> QED BY <1>3, <2>2, <2>3 DEF ConfirmCreate, DialogCloses, FeedsKept
<1> QED BY <1>1, <1>2, <1>3 DEF DialogKeys

\* The message of a request, or the configuration, is no event of a feed.
LEMMA RepliesKeepFeeds ==
    ASSUME TypeOK, NEW c \in cmds,
           \/ DropStaleReply(c) \/ ConfigUnreadable(c) \/ ContainerMessage(c)
           \/ ImageDetailsLoaded(c) \/ ImageDetailsFailed(c)
           \/ ImageDetailsClosed(c)
           \/ ImageRemoved(c) \/ ImageRemoveStale(c) \/ ImageRemoveFailed(c)
           \/ CreateMessage(c)
    PROVE  FeedsKept
<1> USE DEF OnlyGallery, OnlyCreate
<1>0. c.kind \in RequestKinds \cup {"load"} =>
        Of(cmds \ {c}, FeedKinds) = Of(cmds, FeedKinds)
  BY ReplyIsNoFeed, FeedsAreNoRequests DEF FeedKinds, StreamKinds
<1>a. create \in Create BY DEF TypeOK
<1>b. "inventory" \notin StreamKinds /\ "images" \notin StreamKinds
  BY DEF StreamKinds
<1>1. CASE DropStaleReply(c)
  <2>1. c.kind \in RequestKinds BY <1>1 DEF DropStaleReply, RequestKinds
  <2> QED BY <1>0, <1>1, <2>1 DEF DropStaleReply, FeedsKept
<1>2. CASE ConfigUnreadable(c)
  BY <1>0, <1>2 DEF ConfigUnreadable, FeedsKept
<1>3. CASE ContainerMessage(c)
  <2>1. c.kind \in RequestKinds
    BY <1>3 DEF ContainerMessage, InventoryLoaded, InventoryFailed,
                InventoryReply, DetailsLoaded, DetailsFailed, DetailsReply,
                OperationSucceeded, OperationFailed, OperationStale, Finished,
                Answers, RequestKinds, Reads, Mutations
  <2>2. Of(cmds \ {c}, FeedKinds) = Of(cmds, FeedKinds) BY <1>0, <2>1
  <2>3. CASE \/ InventoryLoaded(c) \/ InventoryFailed(c) \/ DetailsLoaded(c)
             \/ DetailsFailed(c) \/ OperationFailed(c)
    BY <2>2, <2>3 DEF InventoryLoaded, InventoryFailed, InventoryReply,
                      DetailsLoaded, DetailsFailed, DetailsReply, NoRequest,
                      OperationFailed, Finished, FeedsKept
  <2>4. CASE OperationStale(c)
    BY <2>2, <2>4, HelpersKeepFeeds DEF OperationStale, Finished, FeedsKept
  <2>5. CASE OperationSucceeded(c)
    <3> DEFINE read(kind, target) ==
                 [Request(kind, target) EXCEPT !.gone = gone']
               new == {read("list", None)} \cup
                 (IF screen' = "details" THEN {read("inspect", c.target)} ELSE {})
    <3>1. BeginRequest(cmds \ {c}, None, new) BY <2>5 DEF OperationSucceeded
    <3>2. \A d \in new : d.kind \in {"list", "inspect"} BY DEF Request, Cmd
    <3>3. \A d \in new : d.kind \notin FeedKinds
      BY <3>2, FeedsAreNoRequests, RequestKindsList
    <3>4. Of(cmds', FeedKinds) = Of(cmds \ {c}, FeedKinds)
      <4> HIDE DEF new
      <4> QED BY <3>1, <3>3, OfBeginRequest, FeedsAreNoRequests DEF TypeOK
    <3>5. screen' \in StreamKinds => screen' = screen
      BY <1>b, <2>5 DEF OperationSucceeded
    <3>6. UNCHANGED <<loop, linkVars, stream, pull, create>>
      BY <2>5 DEF OperationSucceeded, Finished
    <3> QED BY <2>2, <3>4, <3>5, <3>6 DEF FeedsKept
  <2> QED BY <1>3, <2>3, <2>4, <2>5 DEF ContainerMessage
<1>4. CASE ImageDetailsLoaded(c) \/ ImageDetailsFailed(c) \/ ImageDetailsClosed(c)
  <2>1. c.kind \in RequestKinds
    BY <1>4 DEF ImageDetailsLoaded, ImageDetailsFailed, ImageDetailsReply,
                ImageDetailsClosed, Answers, RequestKinds, Reads
  <2> QED BY <1>0, <1>4, <2>1
          DEF ImageDetailsLoaded, ImageDetailsFailed, ImageDetailsReply,
              ImageDetailsClosed, NoRequest, FeedsKept
<1>5. CASE ImageRemoved(c) \/ ImageRemoveStale(c) \/ ImageRemoveFailed(c)
  <2>1. c.kind \in RequestKinds
    BY <1>5 DEF ImageRemoved, ImageRemoveStale, ImageRemoveFailed,
                ImageRemoveFinished, Answers, RequestKinds, Mutations
  <2>2. Of(cmds', FeedKinds) = Of(cmds \ {c}, FeedKinds)
    BY <1>5, HelpersKeepFeeds
       DEF ImageRemoved, ImageRemoveStale, ImageRemoveFailed
  <2> QED BY <1>0, <1>b, <1>5, <2>1, <2>2
          DEF ImageRemoved, ImageRemoveStale, ImageRemoveFailed,
              ImageRemoveFinished, FeedsKept
<1>6. CASE \/ ContainerStarted(c) \/ ContainerCreatedOnly(c)
           \/ ContainerCreateCancelled(c) \/ ContainerCreateFailed(c)
           \/ DropRunReply(c)
  <2>1. c.kind \in RequestKinds
    BY <1>6, RequestKindsList
       DEF ContainerStarted, ContainerCreatedOnly, ContainerCreateCancelled,
           ContainerCreateFailed, RunReply, CurrentRun, DropRunReply
  <2>2. ASSUME NEW status, NEW result, RefreshAfterCreate(c, status, result)
        PROVE  /\ Of(cmds', FeedKinds) = Of(cmds \ {c}, FeedKinds)
               /\ create'.previous = create.previous
    BY <1>a, <2>2, HelpersKeepFeeds, RequestKeepsFeeds, RequestKindsList
       DEF RefreshAfterCreate, Ended, Create
  <2>3. CASE ContainerStarted(c) \/ ContainerCreatedOnly(c)
    BY <1>0, <2>1, <2>2, <2>3
       DEF ContainerStarted, ContainerCreatedOnly, RunReply, FeedsKept
  <2>4. CASE ContainerCreateCancelled(c) \/ ContainerCreateFailed(c)
    <3>1. create'.previous = create.previous
      BY <1>a, <2>4 DEF ContainerCreateCancelled, ContainerCreateFailed, Ended,
                        Create
    <3> QED BY <1>0, <2>1, <2>4, <3>1
            DEF ContainerCreateCancelled, ContainerCreateFailed, RunReply,
                NoRequest, FeedsKept
  <2>5. CASE DropRunReply(c)
    BY <1>0, <2>1, <2>5 DEF DropRunReply, FeedsKept
  <2> QED BY <1>6, <2>3, <2>4, <2>5
<1>7. CASE CreateRefreshed(c) \/ DropCreateRefresh(c)
  <2>1. c.kind \in RequestKinds
    BY <1>7, RequestKindsList
       DEF CreateRefreshed, CurrentCreateRefresh, DropCreateRefresh
  <2>2. create'.previous = create.previous
    BY <1>a, <1>7 DEF CreateRefreshed, Refreshed, DropCreateRefresh, Create
  <2> QED BY <1>0, <1>b, <1>7, <2>1, <2>2
          DEF CreateRefreshed, DropCreateRefresh, NoRequest, FeedsKept
<1> QED BY <1>1, <1>2, <1>3, <1>4, <1>5, <1>6, <1>7 DEF CreateMessage

\* The selector and the form, as long as they open no profile.
LEMMA SelectorKeepsFeeds ==
    ASSUME TypeOK,
           \/ OpenSelector \/ CloseSelector \/ MoveCursor
           \/ NewProfile \/ EditProfile \/ CloseForm
           \/ SaveProfileFails \/ RemoveProfileFails
    PROVE  FeedsKept
BY DEF OpenSelector, CloseSelector, MoveCursor, NewProfile, EditProfile,
       CloseForm, OnlyMode, SaveProfileFails, RemoveProfileFails, FeedsKept

\* Quitting ends every stream and pull with the program.
LEMMA QuittingEnds ==
    ASSUME QuitSelector \/ CursorPanic \/ QuitPull \/ QuitContainerCreate \/ QuitKey
    PROVE  ProgramEnds
BY DEF QuitSelector, CursorPanic, QuitPull, QuitContainerCreate, QuitKey, QuitNow,
       ProgramEnds

\* beginProfile, of whatever handler, leaves the feeds to end as they were.
TargetChanges ==
    \E p \in Profiles : \E cs \in SUBSET cmds :
        BeginProfile(p, cs) /\ Of(cs, FeedKinds) = Of(cmds, FeedKinds)

LEMMA SelectorChangesTarget ==
    ASSUME TypeOK, SaveProfile \/ OpenProfile \/ RemoveProfile
    PROVE  TargetChanges \/ FeedsKept
<1>1. ASSUME NEW p \in Profiles, BeginProfile(p, cmds)
      PROVE  TargetChanges
  BY <1>1 DEF TargetChanges
<1>2. Untargeted(cmds) /\ client' = None => FeedsKept
  BY DEF Untargeted, FeedsKept
<1> QED BY <1>1, <1>2, SelectorOpens DEF TargetStep

LEMMA ConfigChangesTarget ==
    ASSUME TypeOK, NEW c \in cmds, ConfigLoaded(c)
    PROVE  TargetChanges \/ FeedsKept
<1>1. c.kind = "load" BY DEF ConfigLoaded
<1>2. Of(cmds \ {c}, FeedKinds) = Of(cmds, FeedKinds)
  BY <1>1, ReplyIsNoFeed DEF FeedKinds, StreamKinds
<1>3. ASSUME NEW p \in Profiles, BeginProfile(p, cmds \ {c})
      PROVE  TargetChanges
  BY <1>2, <1>3 DEF TargetChanges
<1>4. Untargeted(cmds \ {c}) => FeedsKept
  BY <1>2 DEF Untargeted, FeedsKept
<1> QED BY <1>3, <1>4, ConfigOpens DEF TargetStep

\* The steps that start, stop or hear a feed.
FeedSteps ==
    \/ ProgramEnds \/ TargetChanges
    \/ \E kind \in StreamKinds : OpenStream(kind)
    \/ CloseStream \/ StartImagePull \/ CancelImagePull
    \/ \E c \in cmds :
          \/ Connected(c, None) \/ Connected(c, c.host)
          \/ ImageInventoryLoaded(c) \/ ImageInventoryFailed(c)
          \/ PullMessage(c) \/ StreamMessage(c)

LEMMA EveryStep ==
    ASSUME TypeOK, create.previous \notin StreamKinds, [Next]_vars
    PROVE  FeedsKept \/ FeedSteps
<1>1. CASE ConnectionKeys
  BY <1>1, SelectorKeepsFeeds, SelectorChangesTarget, QuittingEnds
     DEF ConnectionKeys, FeedSteps
<1>2. CASE ContainerKeys
  BY <1>2, ContainerKeysKeepFeeds DEF ContainerKeys, FeedSteps
<1>3. CASE ImageKeys
  BY <1>3, ImageKeysKeepFeeds, QuittingEnds DEF ImageKeys, FeedSteps
<1>4. CASE DialogKeys \/ QuitKey
  BY <1>4, DialogKeysKeepFeeds, QuittingEnds DEF FeedSteps
<1>5. ASSUME NEW c \in cmds, Deliver(c)
      PROVE  FeedsKept \/ FeedSteps
  <2>1. CASE ConnectionMessage(c)
    BY <2>1, RepliesKeepFeeds, ConfigChangesTarget
       DEF ConnectionMessage, ProfileRefused, ProfileConnectedUnlisted,
           ProfileConnected, FeedSteps
  <2>2. CASE ~ConnectionMessage(c)
    BY <1>5, <2>2, RepliesKeepFeeds DEF Deliver, ImageMessage, FeedSteps
  <2> QED BY <2>1, <2>2
<1>6. CASE UNCHANGED vars BY <1>6 DEF vars, FeedsKept
<1> QED BY <1>1, <1>2, <1>3, <1>4, <1>5, <1>6 DEF Next, UserStep, Terminated

-----------------------------------------------------------------------------
(* Feeds that are numbered                                                 *)

\* No two feeds have the same number, and none a number to come.
Numbered(feeds, g) ==
    /\ \A c \in feeds : c.gen <= g
    /\ \A c, d \in feeds : c.gen = d.gen => c = d

\* Ending the only context that may be live leaves nobody to feed.
LEMMA Stopping ==
    ASSUME NEW cs, cs \subseteq Command, NEW kinds, NEW k, NEW g \in Nat,
           Numbered(Of(cs, kinds), g),
           \A c \in Of(cs, kinds) : c.live => c.gen = k
    PROVE  /\ \A c \in Of(Cancelled(cs, kinds, k), kinds) : ~c.live
           /\ Numbered(Of(Cancelled(cs, kinds, k), kinds), g)
           /\ Numbered(Of(Cancelled(cs, kinds, k), kinds), g + 1)
<1> DEFINE after(c) == [c EXCEPT !.live = @ /\ ~(c.kind \in kinds /\ c.gen = k)]
           rest == Of(Cancelled(cs, kinds, k), kinds)
<1>1. ASSUME NEW c \in cs
      PROVE  /\ after(c).kind = c.kind /\ after(c).gen = c.gen /\ c.gen \in Nat
             /\ after(c).live = (c.live /\ ~(c.kind \in kinds /\ c.gen = k))
  BY DEF Command
<1>2. \A d \in rest : \E c \in Of(cs, kinds) : d = after(c)
  <2>1. Cancelled(cs, kinds, k) = {after(c) : c \in cs} BY DEF Cancelled
  <2> HIDE DEF after
  <2> QED BY <1>1, <2>1 DEF Of
<1>3. \A d \in rest : \E c \in Of(cs, kinds) :
        /\ d = after(c) /\ d.gen = c.gen /\ c.gen \in Nat
        /\ d.live = (c.live /\ ~(c.kind \in kinds /\ c.gen = k))
        /\ c.kind \in kinds
  <2> HIDE DEF after, rest
  <2> QED BY <1>1, <1>2 DEF Of
<1> HIDE DEF after, rest
<1>4. \A d \in rest : ~d.live BY <1>3
<1>5. Numbered(rest, g) /\ Numbered(rest, g + 1) BY <1>3 DEF Numbered
<1> QED BY <1>4, <1>5 DEF rest

\* A number never given before numbers the next feed.
LEMMA Starting ==
    ASSUME NEW feeds, feeds \subseteq Command, NEW g \in Nat, Numbered(feeds, g),
           NEW h \in Nat, h > g, NEW sent, sent.gen = h
    PROVE  Numbered(feeds \cup {sent}, h)
<1>1. \A c \in feeds : c.gen \in Nat BY DEF Command
<1> QED BY <1>1 DEF Numbered

LEMMA Fewer ==
    ASSUME NEW feeds, NEW g, Numbered(feeds, g), NEW less, less \subseteq feeds
    PROVE  Numbered(less, g)
BY DEF Numbered

-----------------------------------------------------------------------------
(* The streams                                                             *)

Streaming == Of(cmds, StreamKinds)

\* The stream that is live is the one the view remembers: its number, which
\* nothing later has taken, its target and its screen.
StreamIsKnown ==
    /\ Numbered(Streaming, stream.generation)
    /\ \A c \in Streaming : c.live =>
          /\ c.gen = stream.cancel /\ c.gen = stream.generation
          /\ c.target = stream.target /\ c.host = stream.host
          /\ screen \in StreamKinds => c.kind = screen
    /\ screen \in StreamKinds /\ ~stream.stopped /\ loop = "running" =>
          \E c \in Streaming : c.live
    /\ {stream.back, create.previous} \cap StreamKinds = {}

\* The steps that concern no stream.
StreamsKept ==
    /\ Of(cmds', StreamKinds) = Of(cmds, StreamKinds)
    /\ UNCHANGED <<loop, stream>>
    /\ screen' \in StreamKinds => screen' = screen
    /\ create'.previous \in {create.previous, "images", "imageDetails"}

LEMMA KeptStreamIsKnown ==
    ASSUME StreamIsKnown, StreamsKept
    PROVE  StreamIsKnown'
<1>1. "images" \notin StreamKinds /\ "imageDetails" \notin StreamKinds
  BY DEF StreamKinds
<1>2. Streaming' = Streaming BY DEF Streaming, StreamsKept
<1> QED BY <1>1, <1>2 DEF StreamIsKnown, StreamsKept

LEMMA StoppingStream ==
    ASSUME TypeOK, StreamIsKnown, NEW cs \in SUBSET cmds,
           Of(cs, StreamKinds) = Of(cmds, StreamKinds)
    PROVE  LET rest == Of(WithoutStream(cs), StreamKinds) IN
           /\ \A c \in rest : ~c.live
           /\ Numbered(rest, stream.generation)
           /\ Numbered(rest, StoppedStream.generation)
           /\ WithoutStream(cs) \subseteq Command
<1>1. stream \in Stream /\ cs \subseteq Command BY DEF TypeOK
<1>2. stream.generation \in Nat BY <1>1 DEF Stream
<1>3. StoppedStream.generation = stream.generation + 1
  BY <1>1 DEF StoppedStream, Stream
<1>4. /\ Numbered(Of(cs, StreamKinds), stream.generation)
      /\ \A c \in Of(cs, StreamKinds) : c.live => c.gen = stream.cancel
  BY DEF StreamIsKnown, Streaming
<1>5. WithoutStream(cs) \subseteq Command BY <1>1, StoppedType
<1> QED BY <1>1, <1>2, <1>3, <1>4, <1>5, Stopping DEF WithoutStream

\* The steps of the feeds that concern no stream.
LEMMA PullsKeepStreams ==
    ASSUME TypeOK,
           \/ FeedsKept
           \/ StartImagePull \/ CancelImagePull
           \/ \E c \in cmds :
                 \/ Connected(c, None) \/ Connected(c, c.host)
                 \/ ImageInventoryLoaded(c) \/ ImageInventoryFailed(c)
                 \/ PullMessage(c)
    PROVE  StreamsKept
<1> USE DEF StreamsKept
<1>1. CASE FeedsKept
  <2>1. Of(cmds', StreamKinds) = Of(cmds, StreamKinds)
    BY <1>1, OfFewer DEF FeedsKept, FeedKinds
  <2> QED BY <1>1, <2>1 DEF FeedsKept
<1>2. /\ cmds \subseteq Command
      /\ \A cs : cs \subseteq Command =>
            Of(WithoutPull(cs), StreamKinds) = Of(cs, StreamKinds)
  BY OfCancelled, FeedsAreNoRequests DEF TypeOK, WithoutPull
<1>3. ASSUME NEW cs, cs \subseteq Command, NEW held, NEW g, NEW e,
             RefreshImages(g, e, cs, held)
      PROVE  Of(cmds', StreamKinds) = Of(cs, StreamKinds)
  <2>1. Request("listImages", None).kind \notin StreamKinds
    BY DEF Request, Cmd, StreamKinds
  <2>2. BeginRequest(cs, held, {Request("listImages", None)})
          => Of(cmds', StreamKinds) = Of(cs, StreamKinds)
    BY <1>3, <2>1, OfBeginRequest, FeedsAreNoRequests
  <2> QED BY <1>3, <2>2 DEF RefreshImages, NoRequest
<1>4. ASSUME NEW c, c.kind \notin StreamKinds
      PROVE  Of(cmds \ {c}, StreamKinds) = Of(cmds, StreamKinds)
  BY <1>4 DEF Of
<1>5. CASE StartImagePull
  <2> DEFINE sent == Cmd("pull", client, None, pull.generation + 2)
  <2>1. cmds' = WithoutPull(cmds) \cup {sent} /\ OnlyPull /\ UNCHANGED screen
    BY <1>5 DEF StartImagePull
  <2>2. sent.kind \notin StreamKinds BY DEF Cmd, StreamKinds
  <2>3. Of(cmds', StreamKinds) = Of(WithoutPull(cmds), StreamKinds)
    <3> HIDE DEF sent
    <3> QED BY <2>1, <2>2 DEF Of
  <2> QED BY <1>2, <2>1, <2>3 DEF OnlyPull
<1>6. CASE CancelImagePull
  <2>1. WithoutPull(cmds) \subseteq Command BY <1>2, StoppedType
  <2> QED BY <1>2, <1>3, <1>6, <2>1 DEF CancelImagePull, OnlyPull
<1>7. ASSUME NEW c \in cmds, Connected(c, None) \/ Connected(c, c.host)
      PROVE  StreamsKept
  <2>1. c.kind \notin StreamKinds
    BY <1>7 DEF Connected, Answers, StreamKinds
  <2>2. Of(cmds', StreamKinds) = Of(cmds, StreamKinds)
    BY <1>2, <1>4, <1>7, <2>1 DEF Connected
  <2> QED BY <1>7, <2>2 DEF Connected
<1>8. ASSUME NEW c \in cmds, ImageInventoryLoaded(c) \/ ImageInventoryFailed(c)
      PROVE  StreamsKept
  <2>1. ImageInventoryReply(c)
    BY <1>8 DEF ImageInventoryLoaded, ImageInventoryFailed
  <2>2. c.kind \notin StreamKinds
    BY <2>1 DEF ImageInventoryReply, Answers, StreamKinds
  <2>3. screen' \in {screen, "images"}
    BY <1>8 DEF ImageInventoryLoaded, ImageInventoryFailed
  <2> QED BY <1>4, <2>1, <2>2, <2>3
          DEF ImageInventoryReply, NoRequest, OnlyGallery, StreamKinds
<1>9. ASSUME NEW c \in cmds, PullMessage(c)
      PROVE  StreamsKept
  <2>1. c.kind \notin StreamKinds
    BY <1>9 DEF PullMessage, PullEvent, PullFailed, PullDone, DropPullEvent,
                CurrentFeed, StreamKinds
  <2>2. OnlyPull /\ UNCHANGED screen
    BY <1>9 DEF PullMessage, PullEvent, PullFailed, PullDone, DropPullEvent
  <2>3. CASE PullDone(c)
    <3>1. \/ cmds' = cmds \ {c}
          \/ RefreshImages(gallery, err, cmds \ {c}, requestCancel)
      BY <2>3 DEF PullDone
    <3> QED BY <1>2, <1>3, <1>4, <2>1, <2>2, <3>1 DEF OnlyPull
  <2>4. CASE ~PullDone(c)
    <3>1. cmds' \in {cmds, cmds \ {c}}
      BY <1>9, <2>4 DEF PullMessage, PullEvent, PullFailed, DropPullEvent
    <3> QED BY <1>4, <2>1, <2>2, <3>1 DEF OnlyPull
  <2> QED BY <2>3, <2>4
<1> QED BY <1>1, <1>5, <1>6, <1>7, <1>8, <1>9

LEMMA StreamIsKnownInductive ==
    ASSUME TypeOK, StreamIsKnown, [Next]_vars
    PROVE  StreamIsKnown'
<1>0. stream \in Stream /\ create \in Create /\ cmds \subseteq Command
  BY DEF TypeOK
<1>1. stream.generation \in Nat BY <1>0 DEF Stream
<1>2. /\ stream.back \notin StreamKinds /\ create.previous \notin StreamKinds
      /\ StoppedStream = [StoppedStream EXCEPT !.back = stream.back]
      /\ StoppedStream.generation = stream.generation + 1
  BY <1>0 DEF StreamIsKnown, StoppedStream, Stream
<1>3. CASE ProgramEnds
  BY <1>3 DEF ProgramEnds, StreamIsKnown, Streaming, Of, Numbered
<1>4. CASE TargetChanges
  <2>1. PICK p \in Profiles, cs \in SUBSET cmds :
          BeginProfile(p, cs) /\ Of(cs, FeedKinds) = Of(cmds, FeedKinds)
    BY <1>4 DEF TargetChanges
  <2>2. Of(cs, StreamKinds) = Of(cmds, StreamKinds)
    BY <2>1, OfFewer DEF FeedKinds
  <2> DEFINE ds == WithoutStream(cs)
             sent == Cmd("connect", p, None, generation + 1)
  <2>3. /\ \A c \in Of(ds, StreamKinds) : ~c.live
        /\ Numbered(Of(ds, StreamKinds), StoppedStream.generation)
        /\ ds \subseteq Command
    BY <2>2, StoppingStream
  <2>4. Of(cmds', StreamKinds) = Of(ds, StreamKinds)
    <3>1. BeginRequest(WithoutPull(ds), requestCancel, {sent})
      BY <2>1 DEF BeginProfile
    <3>2. sent.kind \notin StreamKinds BY DEF Cmd, StreamKinds
    <3> HIDE DEF ds, sent
    <3>3. /\ Of(WithoutPull(ds), StreamKinds) = Of(ds, StreamKinds)
          /\ WithoutPull(ds) \subseteq Command
      BY <2>3, OfCancelled, StoppedType, FeedsAreNoRequests DEF WithoutPull
    <3> QED BY <3>1, <3>2, <3>3, OfBeginRequest, FeedsAreNoRequests
  <2>5. /\ stream' = StoppedStream /\ screen' = "inventory"
        /\ create'.previous = create.previous
    BY <1>0, <2>1 DEF BeginProfile, Create
  <2>6. "inventory" \notin StreamKinds /\ stream'.back = stream.back
    BY <1>0, <2>5 DEF StreamKinds, StoppedStream, Stream
  <2> HIDE DEF ds
  <2> QED BY <1>2, <2>3, <2>4, <2>5, <2>6 DEF StreamIsKnown, Streaming
<1>5. ASSUME NEW kind \in StreamKinds, OpenStream(kind)
      PROVE  StreamIsKnown'
  <2>1. CASE Refuse
    <3>1. UNCHANGED <<cmds, loop, stream, screen, create>> BY <2>1 DEF Refuse
    <3> QED BY <3>1 DEF StreamIsKnown, Streaming
  <2>2. CASE ~Refuse
    <3> DEFINE g == stream.generation + 2
               sent == Cmd(kind, client, selectedID, g)
               rest == Of(WithoutStream(cmds), StreamKinds)
    <3>1. /\ stream' = [generation |-> g, cancel |-> g, back |-> screen,
                        target |-> selectedID, host |-> client,
                        stopped |-> FALSE]
          /\ cmds' = WithoutStream(cmds) \cup {sent}
          /\ screen' = kind /\ screen \in {"inventory", "details"}
          /\ OnlyStream
      BY <1>5, <2>2 DEF OpenStream, InScreen
    <3>2. /\ \A c \in rest : ~c.live
          /\ Numbered(rest, stream.generation)
          /\ WithoutStream(cmds) \subseteq Command
      BY StoppingStream
    <3>3. /\ sent.gen = g /\ sent.live /\ sent.kind = kind
          /\ sent.target = selectedID /\ sent.host = client
      BY DEF Cmd
    <3>4. g \in Nat /\ g > stream.generation BY <1>1
    <3>5. rest \subseteq Command BY <3>2 DEF Of
    <3> HIDE DEF sent, rest, g
    <3>6. Numbered(rest \cup {sent}, g)
      BY <1>1, <3>2, <3>3, <3>4, <3>5, Starting
    <3>7. Streaming' = rest \cup {sent} BY <3>1, <3>3 DEF Streaming, Of, rest
    <3>8. {"inventory", "details"} \cap StreamKinds = {} BY DEF StreamKinds
    <3>9. stream'.generation = g BY <3>1
    <3>10. Numbered(Streaming', stream'.generation) BY <3>6, <3>7, <3>9
    <3>11. /\ \A c \in Streaming' : c.live =>
                /\ c.gen = stream'.cancel /\ c.gen = stream'.generation
                /\ c.target = stream'.target /\ c.host = stream'.host
                /\ c.kind = screen'
           /\ \E c \in Streaming' : c.live
      BY <3>1, <3>2, <3>3, <3>7
    <3>12. {stream'.back, create'.previous} \cap StreamKinds = {}
      BY <1>2, <3>1, <3>8 DEF OnlyStream
    <3> QED BY <3>10, <3>11, <3>12 DEF StreamIsKnown
  <2> QED BY <2>1, <2>2
<1>6. CASE CloseStream
  <2>1. /\ stream' = [StoppedStream EXCEPT !.stopped = FALSE]
        /\ cmds' = WithoutStream(cmds)
        /\ screen' = stream.back /\ UNCHANGED create
    BY <1>6 DEF CloseStream, OnlyStream
  <2>2. /\ stream'.generation = StoppedStream.generation
        /\ stream'.back = stream.back
    BY <1>0, <2>1 DEF StoppedStream, Stream
  <2>3. /\ \A c \in Streaming' : ~c.live
        /\ Numbered(Streaming', stream'.generation)
    BY <2>1, <2>2, StoppingStream DEF Streaming
  <2> QED BY <1>2, <2>1, <2>2, <2>3 DEF StreamIsKnown
<1>7. ASSUME NEW c \in cmds, StreamMessage(c)
      PROVE  StreamIsKnown'
  <2>1. CASE StatsSample(c)
    <3>1. UNCHANGED <<cmds, loop, stream, screen, create>>
      BY <2>1 DEF StatsSample, CurrentStream, OnlyStream
    <3> QED BY <3>1 DEF StreamIsKnown, Streaming
  <2>2. ASSUME NEW e, StreamEnded(c, e)
        PROVE  StreamIsKnown'
    <3>1. /\ stream' = [stream EXCEPT !.stopped = TRUE, !.cancel = None]
          /\ cmds' = cmds \ {c} /\ c \in Streaming
          /\ c.gen = stream.generation
          /\ UNCHANGED <<loop, screen, create>>
      BY <2>2 DEF StreamEnded, CurrentStream, OnlyStream, Streaming, Of
    <3>2. Streaming' = Streaming \ {c} BY <3>1 DEF Streaming, Of
    <3>3. \A d \in Streaming' : ~d.live
      BY <3>1, <3>2 DEF StreamIsKnown, Numbered
    <3>4. stream'.generation = stream.generation /\ stream'.back = stream.back
          /\ stream'.stopped
      BY <1>0, <3>1 DEF Stream
    <3>5. Numbered(Streaming', stream'.generation)
      BY <3>2, <3>4, Fewer DEF StreamIsKnown
    <3> QED BY <1>2, <3>1, <3>3, <3>4, <3>5 DEF StreamIsKnown
  <2>3. CASE DropStreamEvent(c)
    <3>1. /\ cmds' = cmds \ {c} /\ c \in Streaming
          /\ c.gen # stream.generation
          /\ UNCHANGED <<loop, stream, screen, create>>
      BY <2>3 DEF DropStreamEvent, OnlyStream, Streaming, Of
    <3>2. Streaming' = Streaming \ {c} BY <3>1 DEF Streaming, Of
    <3>3. ~c.live BY <3>1 DEF StreamIsKnown
    <3>4. Numbered(Streaming', stream.generation)
      BY <3>2, Fewer DEF StreamIsKnown
    <3> QED BY <3>1, <3>2, <3>3, <3>4 DEF StreamIsKnown
  <2> QED BY <1>7, <2>1, <2>2, <2>3 DEF StreamMessage
<1> QED BY <1>2, <1>3, <1>4, <1>5, <1>6, <1>7, EveryStep, PullsKeepStreams,
           KeptStreamIsKnown
        DEF FeedSteps

\* A stream that is still fed is the one the view was opened for, and an open
\* view that does not say it stopped is fed.
THEOREM OpenViewsAreFed == Spec => []ViewIsFed
<1>1. Init => StreamIsKnown
  BY DEF Init, StreamIsKnown, Streaming, Of, Numbered, StreamKinds
<1>2. TypeOK /\ StreamIsKnown /\ [Next]_vars => StreamIsKnown'
  BY StreamIsKnownInductive
<1>3. StreamIsKnown => ViewIsFed
  BY DEF StreamIsKnown, Streaming, Of, ViewIsFed, InFlight
<1> QED BY <1>1, <1>2, <1>3, TypeCorrect, PTL DEF Spec

-----------------------------------------------------------------------------
(* The pull                                                                *)

Pulling == Of(cmds, {"pull"})

\* The feed that is live is the one of the pull in progress: its number, which
\* nothing later has taken, its target and the connected host.
PullIsKnown ==
    /\ Numbered(Pulling, pull.generation)
    /\ \A c \in Pulling : c.live =>
          /\ pull.pulling /\ c.gen = pull.cancel /\ c.gen = pull.generation
          /\ c.connection = pull.target
          /\ client # None => c.host = client
    /\ pull.pulling /\ loop = "running" => \E c \in Pulling : c.live
    /\ pull.status = "refreshing" => ~pull.pulling

\* The steps that concern no pull.
PullsKept ==
    /\ Of(cmds', {"pull"}) = Of(cmds, {"pull"})
    /\ UNCHANGED <<loop, pull>>
    /\ client' \in {client, None}

LEMMA KeptPullIsKnown ==
    ASSUME PullIsKnown, PullsKept
    PROVE  PullIsKnown'
<1>1. Pulling' = Pulling BY DEF Pulling, PullsKept
<1> QED BY <1>1 DEF PullIsKnown, PullsKept

\* After stopImagePull nobody pulls, whatever stopped it.
StoppedBy(status) ==
    /\ \A c \in Pulling' : ~c.live
    /\ Numbered(Pulling', StoppedPull.generation)
    /\ pull' = [StoppedPull EXCEPT !.status = status]
    /\ status = "refreshing" => pull.status = "refreshing"

LEMMA StoppedPullIsKnown ==
    ASSUME TypeOK, NEW status, StoppedBy(status)
    PROVE  PullIsKnown'
<1>1. pull \in Pull BY DEF TypeOK
<1>2. /\ pull'.generation = StoppedPull.generation
      /\ ~pull'.pulling
  BY <1>1 DEF StoppedBy, StoppedPull, Pull
<1> QED BY <1>2 DEF PullIsKnown, StoppedBy

LEMMA StoppingPull ==
    ASSUME TypeOK, PullIsKnown, NEW cs, cs \subseteq Command,
           Of(cs, {"pull"}) = Of(cmds, {"pull"})
    PROVE  LET rest == Of(WithoutPull(cs), {"pull"}) IN
           /\ \A c \in rest : ~c.live
           /\ Numbered(rest, pull.generation)
           /\ Numbered(rest, StoppedPull.generation)
           /\ WithoutPull(cs) \subseteq Command
<1>1. pull \in Pull BY DEF TypeOK
<1>2. pull.generation \in Nat BY <1>1 DEF Pull
<1>3. StoppedPull.generation = pull.generation + 1
  BY <1>1 DEF StoppedPull, Pull
<1>4. /\ Numbered(Of(cs, {"pull"}), pull.generation)
      /\ \A c \in Of(cs, {"pull"}) : c.live => c.gen = pull.cancel
  BY DEF PullIsKnown, Pulling
<1>5. WithoutPull(cs) \subseteq Command BY StoppedType
<1> QED BY <1>2, <1>3, <1>4, <1>5, Stopping DEF WithoutPull

\* The steps of the feeds that concern no pull.
LEMMA StreamsKeepPulls ==
    ASSUME TypeOK,
           \/ FeedsKept
           \/ \E kind \in StreamKinds : OpenStream(kind)
           \/ CloseStream
           \/ \E c \in cmds : StreamMessage(c)
    PROVE  PullsKept
<1> USE DEF PullsKept
<1>1. CASE FeedsKept
  <2>1. Of(cmds', {"pull"}) = Of(cmds, {"pull"})
    BY <1>1, OfFewer DEF FeedsKept, FeedKinds
  <2> QED BY <1>1, <2>1 DEF FeedsKept
<1>2. Of(WithoutStream(cmds), {"pull"}) = Of(cmds, {"pull"})
  BY OfCancelled, FeedsAreNoRequests DEF TypeOK, WithoutStream
<1>3. ASSUME NEW kind \in StreamKinds, OpenStream(kind)
      PROVE  PullsKept
  <2> DEFINE sent == Cmd(kind, client, selectedID, stream.generation + 2)
  <2>1. CASE Refuse BY <2>1 DEF Refuse
  <2>2. CASE ~Refuse
    <3>1. cmds' = WithoutStream(cmds) \cup {sent} /\ OnlyStream
      BY <1>3, <2>2 DEF OpenStream
    <3>2. sent.kind # "pull" BY DEF Cmd, StreamKinds
    <3> HIDE DEF sent
    <3>3. Of(cmds', {"pull"}) = Of(WithoutStream(cmds), {"pull"})
      BY <3>1, <3>2 DEF Of
    <3> QED BY <1>2, <3>1, <3>3 DEF OnlyStream
  <2> QED BY <2>1, <2>2
<1>4. CASE CloseStream BY <1>2, <1>4 DEF CloseStream, OnlyStream
<1>5. ASSUME NEW c \in cmds, StreamMessage(c)
      PROVE  PullsKept
  <2>1. /\ c.kind # "pull" /\ cmds' \in {cmds, cmds \ {c}} /\ OnlyStream
    BY <1>5 DEF StreamMessage, StatsSample, StreamEnded, DropStreamEvent,
                CurrentStream, StreamKinds
  <2>2. Of(cmds', {"pull"}) = Of(cmds, {"pull"}) BY <2>1 DEF Of
  <2> QED BY <2>1, <2>2 DEF OnlyStream
<1> QED BY <1>1, <1>3, <1>4, <1>5

LEMMA PullIsKnownInductive ==
    ASSUME TypeOK, PullIsKnown, create.previous \notin StreamKinds, [Next]_vars
    PROVE  PullIsKnown'
<1>0. pull \in Pull /\ cmds \subseteq Command BY DEF TypeOK
<1>1. /\ pull.generation \in Nat
      /\ StoppedPull = [StoppedPull EXCEPT !.status = pull.status]
      /\ StoppedPull.generation = pull.generation + 1
  BY <1>0 DEF StoppedPull, Pull
<1>2. ASSUME NEW cs, cs \subseteq Command, NEW held, NEW g, NEW e,
             RefreshImages(g, e, cs, held)
      PROVE  Of(cmds', {"pull"}) = Of(cs, {"pull"})
  <2>1. Request("listImages", None).kind # "pull" BY DEF Request, Cmd
  <2>2. {"pull"} \cap RequestKinds = {}
    BY DEF RequestKinds, Reads, Mutations, Lifecycle
  <2>3. BeginRequest(cs, held, {Request("listImages", None)})
          => Of(cmds', {"pull"}) = Of(cs, {"pull"})
    BY <1>2, <2>1, <2>2, OfBeginRequest
  <2> QED BY <1>2, <2>3 DEF RefreshImages, NoRequest
<1>3. CASE ProgramEnds
  <2>1. pull' = pull /\ cmds' = {} /\ loop' # "running" BY <1>3 DEF ProgramEnds
  <2> QED BY <2>1 DEF PullIsKnown, Pulling, Of, Numbered
<1>4. CASE TargetChanges
  <2>1. PICK p \in Profiles, cs \in SUBSET cmds :
          BeginProfile(p, cs) /\ Of(cs, FeedKinds) = Of(cmds, FeedKinds)
    BY <1>4 DEF TargetChanges
  <2>2. Of(cs, {"pull"}) = Of(cmds, {"pull"})
    BY <2>1, OfFewer DEF FeedKinds
  <2> DEFINE ds == WithoutStream(cs)
             sent == Cmd("connect", p, None, generation + 1)
  <2>3. /\ Of(ds, {"pull"}) = Of(cmds, {"pull"})
        /\ ds \subseteq Command
    <3>1. cs \subseteq Command BY <1>0
    <3> QED BY <2>2, <3>1, OfCancelled, StoppedType, FeedsAreNoRequests
            DEF WithoutStream
  <2>4. /\ \A c \in Of(WithoutPull(ds), {"pull"}) : ~c.live
        /\ Numbered(Of(WithoutPull(ds), {"pull"}), StoppedPull.generation)
        /\ WithoutPull(ds) \subseteq Command
    BY <2>3, StoppingPull
  <2>5. Of(cmds', {"pull"}) = Of(WithoutPull(ds), {"pull"})
    <3>1. BeginRequest(WithoutPull(ds), requestCancel, {sent})
      BY <2>1 DEF BeginProfile
    <3>2. sent.kind # "pull" BY DEF Cmd
    <3>3. {"pull"} \cap RequestKinds = {}
      BY DEF RequestKinds, Reads, Mutations, Lifecycle
    <3> HIDE DEF ds, sent
    <3> QED BY <2>4, <3>1, <3>2, <3>3, OfBeginRequest
  <2>6. pull' = [StoppedPull EXCEPT !.status = "idle"]
    BY <2>1 DEF BeginProfile
  <2>7. StoppedBy("idle")
    BY <2>4, <2>5, <2>6 DEF StoppedBy, Pulling
  <2> QED BY <2>7, StoppedPullIsKnown
<1>5. ASSUME NEW c \in cmds, Connected(c, None) \/ Connected(c, c.host)
      PROVE  PullIsKnown'
  <2>1. /\ c.kind = "connect" /\ pull' = StoppedPull
        /\ cmds' = WithoutPull(cmds \ {c})
    BY <1>5 DEF Connected, Answers
  <2>2. /\ Of(cmds \ {c}, {"pull"}) = Of(cmds, {"pull"})
        /\ cmds \ {c} \subseteq Command
    BY <1>0, <2>1 DEF Of
  <2>3. /\ \A d \in Pulling' : ~d.live
        /\ Numbered(Pulling', StoppedPull.generation)
    BY <2>1, <2>2, StoppingPull DEF Pulling
  <2>4. StoppedBy(pull.status) BY <1>1, <2>1, <2>3 DEF StoppedBy
  <2> QED BY <2>4, StoppedPullIsKnown
<1>6. CASE CancelImagePull
  <2>1. WithoutPull(cmds) \subseteq Command BY <1>0, StoppedType
  <2>2. /\ Of(cmds', {"pull"}) = Of(WithoutPull(cmds), {"pull"})
        /\ pull' = [StoppedPull EXCEPT !.status = "cancelled"]
    BY <1>2, <1>6, <2>1 DEF CancelImagePull
  <2>3. StoppedBy("cancelled")
    BY <1>0, <2>2, StoppingPull DEF StoppedBy, Pulling
  <2> QED BY <2>3, StoppedPullIsKnown
<1>7. CASE StartImagePull
  <2> DEFINE g == pull.generation + 2
             sent == Cmd("pull", client, None, g)
             rest == Of(WithoutPull(cmds), {"pull"})
  <2>1. /\ pull' = [status |-> "running", pulling |-> TRUE, generation |-> g,
                    target |-> profile, cancel |-> g]
        /\ cmds' = WithoutPull(cmds) \cup {sent}
        /\ UNCHANGED <<loop, client>>
    BY <1>7 DEF StartImagePull, OnlyPull
  <2>2. /\ \A c \in rest : ~c.live
        /\ Numbered(rest, pull.generation)
        /\ WithoutPull(cmds) \subseteq Command
    BY <1>0, StoppingPull
  <2>3. /\ sent.gen = g /\ sent.live /\ sent.kind = "pull"
        /\ sent.connection = profile /\ sent.host = client
    BY DEF Cmd
  <2>4. g \in Nat /\ g > pull.generation BY <1>1
  <2>5. rest \subseteq Command BY <2>2 DEF Of
  <2> HIDE DEF sent, rest, g
  <2>6. Numbered(rest \cup {sent}, g)
    BY <1>1, <2>2, <2>3, <2>4, <2>5, Starting
  <2>7. Pulling' = rest \cup {sent} BY <2>1, <2>3 DEF Pulling, Of, rest
  <2>8. /\ \A c \in Pulling' : c.live =>
              /\ pull'.pulling /\ c.gen = pull'.cancel
              /\ c.gen = pull'.generation
              /\ c.connection = pull'.target
              /\ c.host = client'
        /\ \E c \in Pulling' : c.live
        /\ pull'.status # "refreshing" /\ pull'.generation = g
    BY <2>1, <2>2, <2>3, <2>7
  <2> QED BY <2>6, <2>7, <2>8 DEF PullIsKnown
<1>8. ASSUME NEW c \in cmds, PullMessage(c)
      PROVE  PullIsKnown'
  <2>1. UNCHANGED <<loop, client>>
    BY <1>8 DEF PullMessage, PullEvent, PullFailed, PullDone, DropPullEvent,
                OnlyPull
  <2>2. ASSUME NEW status \in {"failed", "cancelled"}, PullEvent(c, status)
        PROVE  PullIsKnown'
    <3>1. pull' = [pull EXCEPT !.status = status] /\ cmds' = cmds
      BY <2>2 DEF PullEvent
    <3>2. /\ pull'.generation = pull.generation /\ pull'.cancel = pull.cancel
          /\ pull'.pulling = pull.pulling /\ pull'.target = pull.target
          /\ pull'.status # "refreshing"
      BY <1>0, <3>1 DEF Pull
    <3> QED BY <2>1, <3>1, <3>2 DEF PullIsKnown, Pulling
  \* The last event of the feed in progress leaves nobody to feed.
  <2>3. ASSUME CurrentFeed(c), Of(cmds', {"pull"}) = Of(cmds \ {c}, {"pull"}),
               pull'.generation = pull.generation, ~pull'.pulling
        PROVE  PullIsKnown'
    <3>1. c \in Pulling /\ c.gen = pull.generation
      BY <2>3 DEF CurrentFeed, Pulling, Of
    <3>2. Pulling' = Pulling \ {c} BY <2>3 DEF Pulling, Of
    <3>3. \A d \in Pulling' : ~d.live
      BY <3>1, <3>2 DEF PullIsKnown, Numbered
    <3>4. Numbered(Pulling', pull'.generation)
      BY <2>3, <3>2, Fewer DEF PullIsKnown
    <3> QED BY <2>3, <3>3, <3>4 DEF PullIsKnown
  <2>4. ASSUME NEW status \in {"failed", "cancelled"}, PullFailed(c, status)
        PROVE  PullIsKnown'
    <3>1. pull'.generation = pull.generation /\ ~pull'.pulling
      BY <1>0, <2>4 DEF PullFailed, Pull
    <3> QED BY <2>3, <2>4, <3>1 DEF PullFailed
  <2>5. CASE PullDone(c)
    <3>1. pull'.generation = pull.generation /\ ~pull'.pulling
      BY <1>0, <2>5 DEF PullDone, Pull
    <3>2. \/ cmds' = cmds \ {c}
          \/ RefreshImages(gallery, err, cmds \ {c}, requestCancel)
      BY <2>5 DEF PullDone
    <3>3. cmds \ {c} \subseteq Command BY <1>0
    <3>4. Of(cmds', {"pull"}) = Of(cmds \ {c}, {"pull"})
      BY <1>2, <3>2, <3>3
    <3> QED BY <2>3, <2>5, <3>1, <3>4 DEF PullDone
  <2>6. CASE DropPullEvent(c)
    <3>1. /\ cmds' = cmds \ {c} /\ c \in Pulling /\ UNCHANGED pull
          /\ c.gen = pull.generation => c.connection # pull.target
      BY <2>6 DEF DropPullEvent, CurrentFeed, Pulling, Of
    <3>2. Pulling' = Pulling \ {c} BY <3>1 DEF Pulling, Of
    <3>3. ~c.live BY <3>1 DEF PullIsKnown
    <3>4. Numbered(Pulling', pull.generation) BY <3>2, Fewer DEF PullIsKnown
    <3> QED BY <2>1, <3>1, <3>2, <3>3, <3>4 DEF PullIsKnown
  <2> QED BY <1>8, <2>2, <2>4, <2>5, <2>6 DEF PullMessage
<1>9. ASSUME NEW c \in cmds, ImageInventoryLoaded(c) \/ ImageInventoryFailed(c)
      PROVE  PullIsKnown'
  <2>1. ImageInventoryReply(c)
    BY <1>9 DEF ImageInventoryLoaded, ImageInventoryFailed
  <2>2. /\ c.kind # "pull" /\ cmds' = cmds \ {c} /\ UNCHANGED <<loop, client>>
    BY <2>1 DEF ImageInventoryReply, Answers, NoRequest, OnlyGallery
  <2>3. Pulling' = Pulling BY <2>2 DEF Pulling, Of
  <2>4. \/ UNCHANGED pull
        \/ /\ pull.status = "refreshing"
           /\ \/ pull' = [pull EXCEPT !.status = "failed"]
              \/ pull' = [pull EXCEPT !.status = "succeeded", !.pulling = FALSE]
    BY <1>9 DEF ImageInventoryLoaded, ImageInventoryFailed
  <2>5. CASE UNCHANGED pull BY <2>2, <2>3, <2>5 DEF PullIsKnown
  <2>6. CASE pull' # pull
    <3>1. ~pull.pulling BY <2>4, <2>6 DEF PullIsKnown
    <3>2. pull'.generation = pull.generation /\ ~pull'.pulling
      BY <1>0, <2>4, <2>6, <3>1 DEF Pull
    <3> QED BY <2>3, <3>1, <3>2 DEF PullIsKnown
  <2> QED BY <2>5, <2>6
<1> QED BY <1>3, <1>4, <1>5, <1>6, <1>7, <1>8, <1>9, EveryStep,
           StreamsKeepPulls, KeptPullIsKnown
        DEF FeedSteps

\* A pull that is displayed as running has exactly one listener, on the
\* connected host, and a pull nobody displays has been cancelled.
THEOREM PullsAreListenedTo == Spec => []FeedIsCurrent
<1>1. Init => PullIsKnown /\ StreamIsKnown
  BY DEF Init, PullIsKnown, Pulling, StreamIsKnown, Streaming, Of, Numbered,
         StreamKinds
<1>2. TypeOK /\ StreamIsKnown /\ [Next]_vars => StreamIsKnown'
  BY StreamIsKnownInductive
<1>3. TypeOK /\ StreamIsKnown /\ PullIsKnown /\ [Next]_vars => PullIsKnown'
  BY PullIsKnownInductive DEF StreamIsKnown
<1>4. PullIsKnown => FeedIsCurrent
  <2> SUFFICES ASSUME PullIsKnown PROVE FeedIsCurrent OBVIOUS
  <2> DEFINE feeds == InFlight({"pull"})
  <2>1. feeds = Pulling BY DEF InFlight, Pulling, Of
  <2>2. \A c \in feeds : c.live =>
          /\ pull.pulling /\ c.gen = pull.generation
          /\ c.connection = pull.target
          /\ client # None => c.host = client
    BY <2>1 DEF PullIsKnown
  <2>3. ASSUME pull.pulling, loop = "running"
        PROVE  \E c \in feeds : {d \in feeds : d.live} = {c}
    <3>1. PICK c \in feeds : c.live BY <2>1, <2>3 DEF PullIsKnown
    <3>2. \A d \in feeds : d.live => d = c
      BY <2>1, <2>2, <3>1 DEF PullIsKnown, Numbered
    <3> QED BY <3>1, <3>2
  <2> QED BY <2>2, <2>3 DEF FeedIsCurrent
<1> QED BY <1>1, <1>2, <1>3, <1>4, TypeCorrect, PTL DEF Spec
=============================================================================
