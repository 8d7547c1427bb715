-------------------------- MODULE ConsoleProperties --------------------------
(***************************************************************************)
(* What makes the console correct.  The instances that check each property *)
(* press the keys that could break it.                                     *)
(***************************************************************************)
EXTENDS Console

InFlight(kinds) == {c \in cmds : c.kind \in kinds}
Sent == cmds' \ cmds

-----------------------------------------------------------------------------
(* Mutations *)

MutationKinds == Mutations \cup {"run"}

\* What the dialog displays, and the mutations whose results are still to come.
DialogShown ==
    IF mode = "confirm"
    THEN [action |-> pending.action, target |-> pending.target,
          connection |-> pending.connection]
    ELSE None

Result(c) == [action |-> c.kind, target |-> c.target,
              connection |-> c.connection, number |-> c.gen]
Outstanding == {Result(c) : c \in InFlight(MutationKinds)}

Guard == INSTANCE GuardedMutations WITH
    Guarded <- MutationKinds \ {"start"},
    Targets <- Container \cup Image,
    Connections <- Profiles \cup {None},
    NoDialog <- None,
    dialog <- DialogShown,
    outstanding <- Outstanding

\* A dialog that is displayed is no absent one.
ASSUME NoDialogAssumption == None \notin Guard!Displayed

\* The keys and messages of every component together send a destructive
\* mutation only by confirming a dialog that displays it, once per dialog
\* (requestConfirmation, handleKey, runOperation, runContainerCreate).
ConfirmedMutations == Guard!Spec

\* The target on display is the host that operations reach: connecting,
\* switching and removing profiles never leave a session of another host
\* behind the displayed name (beginProfile, ProfileConnectedMsg,
\* removeProfile).
SessionIsTarget == client # None => profile \in {client, None}

\* An image is only removed from the host that listed it, whatever was in
\* flight when the target changed: hosts share image digests, so another host
\* would accept the request.  (Creates are not included: the late reply that
\* FormKeepsItsImage is about may carry the image of another host.)
ImagesStayHome ==
    \A c \in InFlight({"imageRemove"}) : c.target.host = c.host

\* What the image screens show while connected comes from the connected host.
ImagesFromHost ==
    client # None =>
        \A i \in gallery.images \cup ({gallery.selected, gallery.details} \ {None}) :
            i.host = client

\* Once the host has confirmed a removal and the list no longer shows the
\* container, no reply that was late brings it back.
RemovedStaysGone == [][containers' \cap gone \subseteq containers]_vars

-----------------------------------------------------------------------------
(* Targets *)

\* Whatever edits were made, refused or not saved, the name that memory calls
\* active is one that File.Profile finds: no rename, replacement or removal
\* leaves the console with a target it cannot open (File.Upsert, File.Remove,
\* saveProfile, removeProfile, beginProfile).
ActiveIsSaved == active # None => Spelled(saved, active) # {}

\* Memory that Validate accepts stays so until the form says that it refuses
\* the edit, and that edit opens no target; removals, failed saves and whatever
\* is read late do not spoil it (saveProfile, removeProfile, File.Validate).
OnlyRefusedEditsSpoil ==
    [][Valid(saved, active) /\ ~Valid(saved', active')
         => mode = "profileForm" /\ UNCHANGED <<mode, linkVars, generation>>]_vars

\* While the console displays that it is connecting to the target, that
\* target's connection is in flight and its reply will be accepted: no late
\* reply or other request takes the attempt's place (beginProfile,
\* beginRequest, ProfileConnectedMsg).
ConnectionIsAnswered ==
    profile # None /\ client = None /\ loading /\ loop = "running" =>
        \E c \in InFlight({"connect"}) : c.gen = generation /\ c.host = profile

-----------------------------------------------------------------------------
(* Explanations *)

\* The step that ends the refresh after the removal of an image that was
\* already gone displays the explanation, or keeps it for the next list, unless
\* it ends the session (handleOperation, ImageInventoryLoadedMsg).
ImageExplanationStays ==
    [][gallery.feedback = "stale" /\ gallery.loading /\ ~gallery'.loading
         => err' = "stale" \/ gallery'.feedback = "stale" \/ client' = None]_vars

-----------------------------------------------------------------------------
(* Pulls *)

\* A pull that is displayed as running has exactly one listener, on the
\* connected host, and a pull nobody displays has been cancelled
\* (startImagePull, stopImagePull, handleImagePullEvent).
FeedIsCurrent ==
    LET listens(c) == /\ c.live /\ c.gen = pull.generation
                      /\ c.connection = pull.target
                      /\ client # None => c.host = client
        feeds == InFlight({"pull"})
    IN  /\ \A c \in feeds : c.live => pull.pulling /\ listens(c)
        /\ pull.pulling /\ loop = "running" =>
              \E c \in feeds : {d \in feeds : d.live} = {c}

\* A pull does not stay in progress once its feed ends: every event is
\* followed by a wait for the next, and the last one settles the pull
\* (handleImagePullEvent, waitImagePullStream).
PullSettles == pull.pulling ~> ~pull.pulling \/ loop # "running"

-----------------------------------------------------------------------------
(* Container creation *)

\* A create that still runs is the one that esc ends: whatever pull, refresh or
\* second form came in between, no create goes on that nothing can cancel, and
\* no two go on at once (beginRequest, runContainerCreate, and the replies that
\* forget requestCancel).
CreateIsCancellable == \A c \in InFlight({"run"}) : c.live => requestCancel = c.gen

\* The create-and-start request, and the refresh after it as long as no other
\* request has followed, are in flight while the screen waits for them, and
\* their replies will be accepted (runContainerCreate, beginRequest,
\* refreshAfterContainerCreate).
RefreshAwaited == create.refreshing /\ create.generation = generation

RunIsAnswered ==
    loop = "running" =>
        /\ create.running => \E c \in InFlight({"run"}) : CurrentRun(c)
        /\ RefreshAwaited =>
              \E c \in InFlight({"createRefresh"}) : CurrentCreateRefresh(c)

\* Once the host answers, the create screen leaves the state in which it refuses
\* every key but esc and quit, or its refresh was superseded: the reply of that
\* is dropped and nothing clears the refreshing flag (handleContainerCreateKey,
\* handleContainerRunFinished, handleContainerCreateRefresh).
CreateSettles ==
    CreateBusy ~> \/ ~CreateBusy
                  \/ create.refreshing /\ ~RefreshAwaited
                  \/ loop # "running"

\* Only the end of a pull, or a key on another screen, supersedes the awaited
\* refresh: no key of the create screen, no late reply and no other feed does
\* (handleKey, handleContainerCreateKey, handleImagePullEvent, beginRequest).
RefreshYieldsToPull ==
    [][RefreshAwaited /\ create'.refreshing /\ generation' # create'.generation
         => \/ \E c \in cmds : PullDone(c)
            \/ UserStep /\ screen # "containerCreate"]_vars

-----------------------------------------------------------------------------
(* Streams *)

\* A stream that is still fed is the one the view was opened for, and an open
\* view that does not say it stopped is fed (openLogs, openStats, stopStream).
ViewIsFed ==
    LET feeds == {c \in InFlight(StreamKinds) : c.live} IN
    /\ \A c \in feeds :
          /\ c.gen = stream.generation
          /\ c.target = stream.target /\ c.host = stream.host
          /\ screen \in StreamKinds => c.kind = screen
    /\ screen \in StreamKinds /\ ~stream.stopped /\ loop = "running" => feeds # {}

-----------------------------------------------------------------------------
(* Statements of the documentation that the code does not keep *)

\* "MUST list containers for the active host": the list that lifecycle keys
\* act on is never one of another host.
InventoryOfTarget == client # None => \A c \in containers : c.host = client

\* "MUST display the result of every requested operation": no reply of a
\* mutation is dropped.
ResultsAreShown ==
    [][\A c \in InFlight(Mutations) :
         c.gen # generation /\ loop' = "running" =>
             \E d \in cmds' : d.gen = c.gen /\ d.kind = c.kind]_vars

\* "A late message cannot change another image selection, connection, or
\* form": the image of a form that is being edited never changes.
FormKeepsItsImage ==
    [][screen = "containerCreate" /\ create.status = "editing"
         /\ screen' = "containerCreate" => create'.image = create.image]_vars

\* "MUST allow the operator to create, select, rename, and remove connection
\* profiles": no sequence of keys of the selector ends the program.
NoPanic == loop # "panicked"
=============================================================================
