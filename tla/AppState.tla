------------------------------ MODULE AppState ------------------------------
(***************************************************************************)
(* The state of the Bubble Tea model (internal/app/model.go, type Model)   *)
(* and the helpers its handlers share: requests and their contexts, the    *)
(* container stream and the image pull a handler stops on its way, and the *)
(* selections that follow an inventory.                                    *)
(*                                                                         *)
(* Bubble Tea runs Update sequentially, so every action of the modules     *)
(* that extend this one is one whole call of Update.  A tea.Cmd runs in    *)
(* its own goroutine and ends in one message: cmds holds the goroutines    *)
(* whose message has not been handled, in no order.                        *)
(*                                                                         *)
(* Wording, layout, the text fields' contents and the order of what hosts  *)
(* list are left out.                                                      *)
(***************************************************************************)
EXTENDS Naturals, Sequences

CONSTANTS
    Profiles,       \* connection identities: name, URI and identity path
    Names,          \* names profiles are saved under
    Name,           \* Name[p], the name of profile p
    Trimmed,        \* strings.TrimSpace
    Lowered,        \* strings.ToLower
    Folded,         \* what strings.EqualFold compares of a name
    ContainerIds,   \* ids a host may list
    ImageIds,       \* image ids (content digests: hosts may share them)
    Keys,           \* the key bindings pressed in this instance
    MaxGeneration,  \* no key starts a request beyond this generation
    MaxPulls,       \* no key starts a pull beyond this pull generation
    MaxStreams,     \* no key opens a stream beyond this stream generation
    None            \* a nil pointer, an empty id, no selection

ASSUME ProfilesAssumption == Name \in [Profiles -> Names]
\* Letter case and the space around a name have nothing to do with each other.
ASSUME NamesAssumption ==
    /\ {Trimmed, Lowered, Folded} \subseteq [Names -> Names]
    /\ \A n, m \in Names : Folded[n] = Folded[m] =>
                            Folded[Trimmed[n]] = Folded[Trimmed[m]]
ASSUME NoneAssumption == None \notin Profiles \cup Names \cup Nat
ASSUME BoundsAssumption == {MaxGeneration, MaxPulls, MaxStreams} \subseteq Nat

VARIABLES
    loop,               \* whether the event loop runs, or how it ended
    saved,              \* file.Profiles
    active,             \* file.Active
    cursor,             \* profileCursor, an index that starts at 0
    editing,            \* editingProfile, the name of the profile edited
    profile,            \* the target: its fields are connectionIdentity()
    client,             \* the profile whose session client is, or None
    screen,
    mode,
    err,                \* the kind of error displayed
    generation,
    requestCancel,      \* the generation whose context requestCancel ends
    containers, selected, details, loading, detailLoading,
    filter,             \* filtering, and what filterInput matches
    gallery,            \* the images, their selection, details and filter
    pending,            \* the confirmation dialog's captured target
    stream,             \* the log or statistics stream of the view
    pull,               \* the image pull
    create,             \* the container create flow
    cmds,               \* commands in flight
    gone                \* containers a host has confirmed removing

bookVars == <<saved, active, cursor, editing>>
linkVars == <<profile, client>>
viewVars == <<screen, mode, err>>
requestVars == <<generation, requestCancel>>
inventoryVars == <<containers, selected, details, loading, detailLoading>>
featureVars == <<gallery, pending, stream, pull, create>>
vars == <<loop, bookVars, linkVars, viewVars, requestVars, inventoryVars,
          filter, featureVars, cmds, gone>>

-----------------------------------------------------------------------------
(* Data.  A container or an image remembers the host that listed it.  Two  *)
(* profiles stand for two hosts.                                           *)

Container == [host : Profiles, id : ContainerIds]
Image == [host : Profiles, id : ImageIds]
ContainersOf(h) == {c \in Container : c.host = h}
ImagesOf(h) == {i \in Image : i.host = h}

Screens == {"inventory", "details", "images", "imageDetails", "imagePull",
            "containerCreate", "logs", "stats"}
Modes == {"normal", "profiles", "profileForm", "confirm"}
Errors == {"stale", "other", None}

Reads == {"connect", "list", "inspect", "listImages", "inspectImage",
          "createRefresh"}
Lifecycle == {"start", "stop", "restart", "remove"}
Mutations == Lifecycle \cup {"imageRemove"}
StreamKinds == {"logs", "stats"}
RequestKinds == Reads \cup Mutations \cup {"run"}
CommandKinds == RequestKinds \cup StreamKinds \cup {"load", "pull"}

\* A command in flight: what it asks of which host about which target, the
\* connection identity and the generation it captured, whether its context is
\* still live, and the containers that were already gone when it was sent.
Command ==
    {c \in [kind : CommandKinds, host : Profiles \cup {None},
            target : Container \cup Image \cup {None},
            connection : Profiles \cup {None},
            gen : Nat, live : BOOLEAN, gone : SUBSET Container] :
        c.kind = "run" => c.target \in Image}

Cmd(kind, host, target, gen) ==
    [kind |-> kind, host |-> host, target |-> target,
     connection |-> profile, gen |-> gen, live |-> TRUE, gone |-> gone]

-----------------------------------------------------------------------------
(* Contexts.  cs is the set of commands the caller leaves in flight.       *)

\* The commands cs once the context of generation g of some kinds ends.
Cancelled(cs, kinds, g) ==
    {[c EXCEPT !.live = @ /\ ~(c.kind \in kinds /\ c.gen = g)] : c \in cs}

WithoutStream(cs) == Cancelled(cs, StreamKinds, stream.cancel)
\* Defect: stopImagePull forgets to call the cancel function.
PullGoesOn(cs) == cs

WithoutPull(cs) == Cancelled(cs, {"pull"}, pull.cancel)

\* Defect: the context of the previous request is not ended.
BeginAnotherRequest(cs, held, new) ==
    /\ generation' = generation + 1
    /\ requestCancel' = generation + 1
    /\ cmds' = cs \cup new

\* beginRequest: end the previous request if its cancel function is still
\* held, and send the new commands under the next generation.
BeginRequest(cs, held, new) ==
    /\ generation' = generation + 1
    /\ requestCancel' = generation + 1
    /\ cmds' = Cancelled(cs, RequestKinds, held) \cup new

Request(kind, target) == Cmd(kind, client, target, generation + 1)

\* No request follows the reply that a handler consumed.
NoRequest(cs, held) ==
    /\ requestCancel' = held
    /\ cmds' = cs
    /\ UNCHANGED generation

\* stopStream and stopImagePull, on the stream's and the pull's state.
StoppedStream == [stream EXCEPT !.generation = @ + 1, !.cancel = None]
StoppedPull ==
    [pull EXCEPT !.generation = @ + 1, !.cancel = None, !.pulling = FALSE]

-----------------------------------------------------------------------------
(* Selections.  An index is clamped to the visible list, so after a list   *)
(* changes any visible element may be the selected one.                    *)

VisibleIn(list, matching) == {c \in list : c.id \in matching}
Selections(visible) == IF visible = {} THEN {None} ELSE visible

visibleContainers == VisibleIn(containers, filter.matching)
visibleImages == VisibleIn(gallery.images, gallery.matching)

\* selectedID on the inventory and detail screens, the only ones that call
\* it: the displayed container's details win over the selection.
selectedID ==
    IF screen = "details" /\ details # None THEN details ELSE selected

-----------------------------------------------------------------------------
(* Keys.  handleKey tries the dialog, the profile form, the two filters,   *)
(* the pull and create screens and the profile selector, in that order,    *)
(* and only then the bindings of the screens.                              *)

Typing == filter.editing \/ gallery.filtering
Pressed(key) == loop = "running" /\ key \in Keys

InDialog(key) == Pressed(key) /\ mode = "confirm"
InForm(key) == Pressed(key) /\ mode = "profileForm"
Foreground(key) ==
    Pressed(key) /\ mode \in {"normal", "profiles"} /\ ~Typing
InPull(key) == Foreground(key) /\ screen = "imagePull"
InCreate(key) == Foreground(key) /\ screen = "containerCreate"
InSelector(key) ==
    /\ Foreground(key)
    /\ mode = "profiles"
    /\ screen \notin {"imagePull", "containerCreate"}
\* Defect: what the pull and create screens do not bind goes on to the bindings.
InAnyScreen(key, screens) ==
    Foreground(key) /\ mode = "normal" /\ screen \in screens

InScreen(key, screens) ==
    /\ Foreground(key)
    /\ mode = "normal"
    /\ screen \in screens \ {"imagePull", "containerCreate"}

MayRequest == generation < MaxGeneration

\* The message of command c reaches Update.
Delivered(c) == loop = "running" /\ c \in cmds

\* Defect: a late answer is taken for the one awaited.
AnswersEver(c, kinds) == Delivered(c) /\ c.kind \in kinds

\* A reply handler starts by comparing generations, and drops a late answer.
Answers(c, kinds) == Delivered(c) /\ c.kind \in kinds /\ c.gen = generation

DropStaleReply(c) ==
    /\ Delivered(c)
    /\ c.kind \in (Reads \ {"createRefresh"}) \cup Mutations
    /\ c.gen # generation
    /\ cmds' = cmds \ {c}
    /\ UNCHANGED <<loop, bookVars, linkVars, viewVars, requestVars,
                   inventoryVars, filter, featureVars, gone>>

\* tea.Quit: the process ends, and its goroutines with it.
QuitNow ==
    /\ loop' = "quit"
    /\ cmds' = {}
    /\ UNCHANGED <<bookVars, linkVars, viewVars, requestVars, inventoryVars,
                   filter, featureVars, gone>>

\* A refusal: the handler only displays an error.
Refuse ==
    /\ err' = "other"
    /\ UNCHANGED <<loop, bookVars, linkVars, screen, mode, requestVars,
                   inventoryVars, filter, featureVars, cmds, gone>>

\* The gallery of a target that has just changed, or just been connected.
EmptyGallery ==
    [gallery EXCEPT !.images = {}, !.selected = None, !.details = None,
                    !.target = None, !.loading = FALSE, !.detailLoading = FALSE]

-----------------------------------------------------------------------------
Gallery ==
    [images : SUBSET Image, selected : Image \cup {None},
     details : Image \cup {None}, target : Image \cup {None},
     loading : BOOLEAN, detailLoading : BOOLEAN,
     feedback : Errors, filtering : BOOLEAN, matching : SUBSET ImageIds]

PullStates ==
    {"idle", "running", "refreshing", "succeeded", "failed", "cancelled"}
Pull ==
    [status : PullStates, pulling : BOOLEAN, generation : Nat,
     target : Profiles \cup {None}, cancel : Nat \cup {None}]

Stream ==
    [generation : Nat, cancel : Nat \cup {None}, back : Screens,
     target : Container \cup {None}, host : Profiles \cup {None},
     stopped : BOOLEAN]

CreateStates ==
    {"idle", "editing", "confirming", "creating", "refreshing", "succeeded",
     "partial", "failed", "cancelled"}
Create ==
    [status : CreateStates, image : Image \cup {None}, previous : Screens,
     imageGeneration : Nat, running : BOOLEAN, refreshing : BOOLEAN,
     generation : Nat, target : Profiles \cup {None},
     result : Container \cup {None}]

Dialog ==
    {d \in [action : (Mutations \ {"start"}) \cup {"run"},
            target : Container \cup Image, generation : Nat,
            connection : Profiles \cup {None}] :
        d.action = "run" => d.target \in Image}

TypeOK ==
    /\ loop \in {"running", "quit", "panicked"}
    /\ saved \in Seq(Profiles)
    /\ active \in Names \cup {None}
    /\ cursor \in Nat
    /\ editing \in Names \cup {None}
    /\ {profile, client} \subseteq Profiles \cup {None}
    /\ screen \in Screens /\ mode \in Modes /\ err \in Errors
    /\ generation \in Nat /\ requestCancel \in Nat \cup {None}
    /\ containers \subseteq Container
    /\ {selected, details} \subseteq Container \cup {None}
    /\ {loading, detailLoading} \subseteq BOOLEAN
    /\ filter \in [editing : BOOLEAN, matching : SUBSET ContainerIds]
    /\ gallery \in Gallery
    /\ pending \in Dialog \cup {None} /\ (mode = "confirm" => pending \in Dialog)
    /\ stream \in Stream
    /\ pull \in Pull
    /\ create \in Create
    /\ cmds \subseteq Command
    /\ gone \subseteq Container

\* New: before the configuration has been read, with loadConfigCmd running.
Init ==
    /\ loop = "running"
    /\ saved = <<>> /\ active = None /\ cursor = 0 /\ editing = None
    /\ profile = None /\ client = None
    /\ screen = "inventory" /\ mode = "normal" /\ err = None
    /\ generation = 0 /\ requestCancel = None
    /\ containers = {} /\ selected = None /\ details = None
    /\ loading = FALSE /\ detailLoading = FALSE
    /\ filter = [editing |-> FALSE, matching |-> ContainerIds]
    /\ gallery = [images |-> {}, selected |-> None, details |-> None,
                  target |-> None, loading |-> FALSE, detailLoading |-> FALSE,
                  feedback |-> None, filtering |-> FALSE,
                  matching |-> ImageIds]
    /\ pending = None
    /\ stream = [generation |-> 0, cancel |-> None, back |-> "inventory",
                 target |-> None, host |-> None, stopped |-> FALSE]
    /\ pull = [status |-> "idle", pulling |-> FALSE, generation |-> 0,
               target |-> None, cancel |-> None]
    /\ create = [status |-> "idle", image |-> None, previous |-> "inventory",
                 imageGeneration |-> 0, running |-> FALSE,
                 refreshing |-> FALSE, generation |-> 0, target |-> None,
                 result |-> None]
    /\ gone = {}
    /\ cmds = {[kind |-> "load", host |-> None, target |-> None,
                connection |-> None, gen |-> 0, live |-> TRUE, gone |-> {}]}
=============================================================================
