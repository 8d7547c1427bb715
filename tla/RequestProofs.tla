---------------------------- MODULE RequestProofs ----------------------------
(***************************************************************************)
(* The requests: at most one generation of them can be answered, it belongs *)
(* to the connected host, and a create that still runs is the one whose    *)
(* cancel function is held.  The reasons are that requests are numbered,   *)
(* that beginRequest ends the request before it, and that a handler forgets *)
(* the cancel function only when it consumes the reply it belongs to.  The *)
(* refresh after a create waits for a reply that is in flight until it is   *)
(* superseded.                                                             *)
(***************************************************************************)
EXTENDS RemovalProofs, FeedProofs

USE DEF bookVars, linkVars, viewVars, requestVars, inventoryVars, featureVars

Requests == Of(cmds, RequestKinds)

-----------------------------------------------------------------------------
(* What each step does to requests *)

\* The create flow waits for the same reply as before, or for none.
CreateKept ==
    /\ create'.generation = create.generation
    /\ create'.target = create.target
    /\ create'.running => create.running
    /\ create'.refreshing => create.refreshing

\* The handler of c accepts the reply.
Accepted(c) ==
    /\ c \in Requests
    /\ \/ c.kind # "run" /\ c.gen = generation
       \/ CurrentRun(c) /\ ~create'.running
    /\ c.kind = "connect" => ~loading'
    /\ c.kind = "createRefresh" => ~create'.refreshing
    /\ c.kind \in MutationKinds => UNCHANGED <<mode, pending>>

\* Nothing is sent; a reply that comes too late may be dropped.
RequestsKept ==
    /\ UNCHANGED <<loop, requestVars>> /\ CreateKept
    /\ Requests' \subseteq Requests
    /\ Requests' # Requests => UNCHANGED <<mode, pending>>
    /\ \A c \in Requests \ Requests' :
          /\ ~CurrentRun(c) /\ ~CurrentCreateRefresh(c)
          /\ c.kind = "connect" => c.gen # generation

\* esc while the host works on a create.
ContextEnds ==
    /\ UNCHANGED <<loop, requestVars, create, linkVars, mode, pending>>
    /\ Requests' = Cancelled(Requests, RequestKinds, requestCancel)

\* A reply is accepted and nothing is sent.
ReplyHeard(c) ==
    /\ Accepted(c) /\ CreateKept
    /\ UNCHANGED <<loop, generation>> /\ requestCancel' = None
    /\ Requests' = Requests \ {c}

\* beginProfile, whatever its caller leaves in flight besides the requests.
TargetBegins(p) ==
    \E cs \in SUBSET Command : Of(cs, RequestKinds) = Requests /\ BeginProfile(p, cs)

\* One request of the usual kinds.
PlainKinds == Reads \ {"connect"}

\* Mutation d is the one that the dialog displays, which goes away.
Confirms(d) ==
    /\ mode = "confirm" /\ mode' # "confirm"
    /\ pending.generation = generation /\ client # None
    /\ d.kind = pending.action /\ d.target = pending.target
    /\ d.connection = pending.connection

\* The commands that are sent at once belong to the connected host, or are the
\* connection of a target that has just changed.
Fresh(d) ==
    /\ d \in Command /\ d.kind \in RequestKinds /\ d.gen = generation + 1
    /\ IF d.kind = "connect" THEN d.host \in Profiles /\ TargetBegins(d.host)
                             ELSE d.host = client
    /\ d.kind = "start" =>
          mode # "confirm" /\ UNCHANGED mode /\ d.target \in Container
    /\ d.kind \in MutationKinds \ {"start"} => Confirms(d)

\* Requests are sent, by a key or by the handler of a reply.
RequestsSent ==
    \E new :
      /\ \A d \in new : Fresh(d)
      /\ \A c, d \in new : c = d \/ c.kind \in {"list", "inspect"}
      /\ generation' = generation + 1 /\ requestCancel' = generation + 1
      /\ UNCHANGED loop
      /\ \/ Requests' = Cancelled(Requests, RequestKinds, requestCancel) \cup new
         \/ \E c : /\ Accepted(c)
                   /\ Requests' = Cancelled(Requests \ {c}, RequestKinds, None)
                                     \cup new
                   /\ \A d \in new : d.kind \in PlainKinds
      /\ \/ CreateKept /\ \A d \in new : d.kind # "run"
         \/ /\ create'.generation = generation + 1
            /\ create'.running => \E d \in new : /\ d.kind = "run"
                                                 /\ d.connection = create'.target
            /\ create'.refreshing => \E d \in new : d.kind = "createRefresh"

Traffic ==
    \/ ProgramEnds \/ RequestsKept \/ ContextEnds \/ RequestsSent
    \/ \E c : ReplyHeard(c)

\* Ending contexts and dropping commands commute with looking at requests only.
LEMMA RequestsOf ==
    ASSUME NEW cs, cs \subseteq Command
    PROVE  /\ Of(WithoutPull(cs), RequestKinds) = Of(cs, RequestKinds)
           /\ Of(WithoutStream(cs), RequestKinds) = Of(cs, RequestKinds)
           /\ \A held : Of(Cancelled(cs, RequestKinds, held), RequestKinds)
                          = Cancelled(Of(cs, RequestKinds), RequestKinds, held)
           /\ \A c : Of(cs \ {c}, RequestKinds) = Of(cs, RequestKinds) \ {c}
<1>1. /\ Of(WithoutPull(cs), RequestKinds) = Of(cs, RequestKinds)
      /\ Of(WithoutStream(cs), RequestKinds) = Of(cs, RequestKinds)
  <2>1. {"pull"} \cap RequestKinds = {} /\ StreamKinds \cap RequestKinds = {}
    BY FeedsAreNoRequests DEF FeedKinds
  <2> QED BY <2>1, OfCancelled DEF WithoutPull, WithoutStream
<1>2. ASSUME NEW held
      PROVE  Of(Cancelled(cs, RequestKinds, held), RequestKinds)
               = Cancelled(Of(cs, RequestKinds), RequestKinds, held)
  <2> DEFINE after(c) ==
         [c EXCEPT !.live = @ /\ ~(c.kind \in RequestKinds /\ c.gen = held)]
  <2>1. \A c \in cs : after(c).kind = c.kind BY DEF Command
  <2>2. \A ds : Cancelled(ds, RequestKinds, held) = {after(c) : c \in ds}
    BY DEF Cancelled
  <2> HIDE DEF after
  <2> QED BY <2>1, <2>2 DEF Of
<1>3. \A c : Of(cs \ {c}, RequestKinds) = Of(cs, RequestKinds) \ {c} BY DEF Of
<1> QED BY <1>1, <1>2, <1>3

LEMMA PlainKindsList ==
    /\ {"list", "inspect", "listImages", "inspectImage", "createRefresh"}
         \subseteq PlainKinds
    /\ PlainKinds \subseteq RequestKinds
    /\ PlainKinds \cap ({"connect"} \cup MutationKinds) = {}
BY DEF PlainKinds, RequestKinds, Reads, MutationKinds, Mutations, Lifecycle

LEMMA PlainIsFresh ==
    ASSUME TypeOK, NEW kind \in PlainKinds,
           NEW target \in Container \cup Image \cup {None}
    PROVE  /\ Fresh(Request(kind, target))
           /\ Request(kind, target).kind = kind
<1>1. Request(kind, target) \in Command
  <2>1. kind \in CommandKinds /\ kind # "run"
    BY PlainKindsList DEF CommandKinds, MutationKinds
  <2> QED BY <2>1, RequestType
<1>2. kind \in RequestKinds /\ kind \notin {"connect"} \cup MutationKinds
  BY PlainKindsList
<1>3. kind # "start" BY <1>2 DEF MutationKinds, Mutations, Lifecycle
<1> QED BY <1>1, <1>2, <1>3 DEF Request, Cmd, Fresh

\* A key, or an event that concerns no request, sends or does not.
LEMMA KeyTraffic ==
    ASSUME TypeOK, NEW cs, cs \subseteq Command,
           Of(cs, RequestKinds) = Requests, UNCHANGED loop, CreateKept
    PROVE  /\ NoRequest(cs, requestCancel) => RequestsKept
           /\ \A kind \in PlainKinds :
              \A target \in Container \cup Image \cup {None} :
                 BeginRequest(cs, requestCancel, {Request(kind, target)})
                   => RequestsSent
           /\ \A l, e : Refresh(l, e, cs, requestCancel)
                => RequestsKept \/ RequestsSent
           /\ \A g, e : RefreshImages(g, e, cs, requestCancel)
                => RequestsKept \/ RequestsSent
<1>1. NoRequest(cs, requestCancel) => RequestsKept
  BY DEF NoRequest, RequestsKept, Requests
<1>2. ASSUME NEW kind \in PlainKinds,
             NEW target \in Container \cup Image \cup {None},
             BeginRequest(cs, requestCancel, {Request(kind, target)})
      PROVE  RequestsSent
  <2> DEFINE sent == Request(kind, target)
  <2>1. Fresh(sent) /\ sent.kind = kind BY PlainIsFresh
  <2>2. kind \in RequestKinds /\ kind # "run"
    BY PlainKindsList DEF MutationKinds
  <2>3. cmds' = Cancelled(cs, RequestKinds, requestCancel) \cup {sent}
    BY <1>2 DEF BeginRequest
  <2> HIDE DEF sent
  <2>4. Requests' = Cancelled(Requests, RequestKinds, requestCancel) \cup {sent}
    <3>1. Requests' = Of(Cancelled(cs, RequestKinds, requestCancel), RequestKinds)
                        \cup {sent}
      BY <2>1, <2>2, <2>3 DEF Requests, Of
    <3> QED BY <3>1, RequestsOf
  <2> DEFINE new == {sent}
  <2>5. \A d \in new : Fresh(d) /\ d.kind # "run" BY <2>1, <2>2
  <2>6. \A c, d \in new : c = d OBVIOUS
  <2>7. generation' = generation + 1 /\ requestCancel' = generation + 1
    BY <1>2 DEF BeginRequest
  <2>8. Requests' = Cancelled(Requests, RequestKinds, requestCancel) \cup new
    BY <2>4
  <2> HIDE DEF new
  <2> QED BY <2>5, <2>6, <2>7, <2>8 DEF RequestsSent
<1>3. {"list", "listImages"} \subseteq PlainKinds BY PlainKindsList
<1>4. ASSUME NEW l, NEW e, Refresh(l, e, cs, requestCancel)
      PROVE  RequestsKept \/ RequestsSent
  BY <1>1, <1>2, <1>3, <1>4 DEF Refresh
<1>5. ASSUME NEW g, NEW e, RefreshImages(g, e, cs, requestCancel)
      PROVE  RequestsKept \/ RequestsSent
  BY <1>1, <1>2, <1>3, <1>5 DEF RefreshImages
<1> QED BY <1>1, <1>2, <1>4, <1>5

\* The handler of a reply sends or does not.
LEMMA ReplyTraffic ==
    ASSUME TypeOK, NEW c, Accepted(c), UNCHANGED loop
    PROVE  /\ NoRequest(cmds \ {c}, None) /\ CreateKept => ReplyHeard(c)
           /\ \A new :
                /\ BeginRequest(cmds \ {c}, None, new)
                /\ \A d \in new : Fresh(d) /\ d.kind \in PlainKinds
                /\ \A e, d \in new : e = d \/ e.kind \in {"list", "inspect"}
                /\ \/ CreateKept
                   \/ /\ create'.generation = generation + 1
                      /\ ~create'.running
                      /\ \E d \in new : d.kind = "createRefresh"
                => RequestsSent
<1>1. Of(cmds \ {c}, RequestKinds) = Requests \ {c}
  BY RequestsOf DEF Requests, TypeOK
<1>2. NoRequest(cmds \ {c}, None) /\ CreateKept => ReplyHeard(c)
  BY <1>1 DEF NoRequest, ReplyHeard, Requests
<1>3. ASSUME NEW new, BeginRequest(cmds \ {c}, None, new),
             \A d \in new : Fresh(d)
      PROVE  Requests' = Cancelled(Requests \ {c}, RequestKinds, None) \cup new
  <2>1. cmds' = Cancelled(cmds \ {c}, RequestKinds, None) \cup new
    BY <1>3 DEF BeginRequest
  <2>2. Requests' = Of(Cancelled(cmds \ {c}, RequestKinds, None), RequestKinds)
                      \cup new
    BY <1>3, <2>1 DEF Requests, Of, Fresh
  <2>3. cmds \ {c} \subseteq Command BY DEF TypeOK
  <2>4. Of(Cancelled(cmds \ {c}, RequestKinds, None), RequestKinds)
          = Cancelled(Of(cmds \ {c}, RequestKinds), RequestKinds, None)
    BY <2>3, RequestsOf
  <2> QED BY <1>1, <2>2, <2>4
<1>4. ASSUME NEW new, BeginRequest(cmds \ {c}, None, new),
             \A d \in new : Fresh(d) /\ d.kind \in PlainKinds,
             \A e, d \in new : e = d \/ e.kind \in {"list", "inspect"},
             \/ CreateKept
             \/ /\ create'.generation = generation + 1
                /\ ~create'.running
                /\ \E d \in new : d.kind = "createRefresh"
      PROVE  RequestsSent
  <2>1. Requests' = Cancelled(Requests \ {c}, RequestKinds, None) \cup new
    BY <1>3, <1>4
  <2>2. generation' = generation + 1 /\ requestCancel' = generation + 1
    BY <1>4 DEF BeginRequest
  <2>3. \A d \in new : d.kind # "run"
    BY <1>4, PlainKindsList DEF MutationKinds
  <2> QED BY <1>4, <2>1, <2>2, <2>3 DEF RequestsSent
<1> QED BY <1>2, <1>4

\* What a key sends, of whatever kind.
LEMMA SentByKey ==
    ASSUME TypeOK, NEW cs, cs \subseteq Command,
           Of(cs, RequestKinds) = Requests, UNCHANGED loop,
           NEW sent, BeginRequest(cs, requestCancel, {sent}), Fresh(sent),
           \/ CreateKept /\ sent.kind # "run"
           \/ /\ create'.generation = generation + 1
              /\ sent.kind = "run" /\ sent.connection = create'.target
              /\ ~create'.refreshing
    PROVE  RequestsSent
<1> DEFINE new == {sent}
<1>1. cmds' = Cancelled(cs, RequestKinds, requestCancel) \cup new
      /\ generation' = generation + 1 /\ requestCancel' = generation + 1
  BY DEF BeginRequest
<1>2. sent.kind \in RequestKinds BY DEF Fresh
<1>3. Requests' = Cancelled(Requests, RequestKinds, requestCancel) \cup new
  <2>1. Requests' = Of(Cancelled(cs, RequestKinds, requestCancel), RequestKinds)
                      \cup new
    BY <1>1, <1>2 DEF Requests, Of
  <2> QED BY <2>1, RequestsOf
<1>4. /\ \A d \in new : Fresh(d)
      /\ \A c, d \in new : c = d
      /\ \/ CreateKept /\ \A d \in new : d.kind # "run"
         \/ /\ create'.generation = generation + 1
            /\ \E d \in new : d.kind = "run" /\ d.connection = create'.target
            /\ ~create'.refreshing
  OBVIOUS
<1> HIDE DEF new
<1> QED BY <1>1, <1>3, <1>4 DEF RequestsSent

LEMMA BeginProfileTraffic ==
    ASSUME TypeOK, NEW p \in Profiles, NEW cs, cs \subseteq cmds,
           Of(cs, RequestKinds) = Requests, BeginProfile(p, cs)
    PROVE  RequestsSent
<1> DEFINE sent == Cmd("connect", p, None, generation + 1)
           ds == WithoutPull(WithoutStream(cs))
<1>1. cs \subseteq Command /\ create \in Create /\ generation \in Nat
  BY DEF TypeOK
<1>2. WithoutStream(cs) \subseteq Command BY <1>1, StoppedType
<1>3. ds \subseteq Command BY <1>2, StoppedType
<1>4. Of(ds, RequestKinds) = Requests BY <1>1, <1>2, RequestsOf
<1>5. BeginRequest(ds, requestCancel, {sent}) /\ UNCHANGED loop
  BY DEF BeginProfile
<1>6. CreateKept BY <1>1 DEF BeginProfile, Create, CreateKept
<1>7. sent \in Command BY <1>1, CmdType DEF CommandKinds, RequestKinds, Reads
<1>8. Fresh(sent) /\ sent.kind # "run"
  <2>1. TargetBegins(p) BY <1>1 DEF TargetBegins
  <2> QED BY <1>7, <2>1
          DEF Fresh, Cmd, RequestKinds, Reads, MutationKinds, Mutations, Lifecycle
<1> HIDE DEF sent, ds
<1> QED BY <1>3, <1>4, <1>5, <1>6, <1>8, SentByKey

\* A step that changes neither the requests nor the create flow.
LEMMA QuietTraffic ==
    ASSUME Requests' = Requests, UNCHANGED <<loop, requestVars>>, CreateKept
    PROVE  RequestsKept
BY DEF RequestsKept

LEMMA ConnectionTraffic ==
    ASSUME TypeOK, ConnectionKeys \/ \E c \in cmds : ConnectionMessage(c)
    PROVE  Traffic
<1>0. cmds \subseteq Command /\ Of(cmds, RequestKinds) = Requests
  BY DEF TypeOK, Requests
<1>1. ASSUME NEW p \in Profiles, BeginProfile(p, cmds)
      PROVE  Traffic
  BY <1>0, <1>1, BeginProfileTraffic DEF Traffic
<1>2. ASSUME UNCHANGED <<loop, requestVars, create, cmds>>
      PROVE  Traffic
  BY <1>2, QuietTraffic DEF Traffic, CreateKept, Requests
<1>3. CASE ConnectionKeys
  <2>1. CASE SaveProfile \/ OpenProfile \/ RemoveProfile
    <3>1. Untargeted(cmds) => UNCHANGED <<loop, requestVars, create, cmds>>
      BY DEF Untargeted
    <3> QED BY <1>1, <1>2, <2>1, <3>1, SelectorOpens DEF TargetStep
  <2>2. CASE QuitSelector \/ CursorPanic
    BY <2>2, QuittingEnds DEF Traffic
  <2>3. CASE \/ OpenSelector \/ CloseSelector \/ MoveCursor
             \/ NewProfile \/ EditProfile \/ CloseForm
             \/ SaveProfileFails \/ RemoveProfileFails
    BY <1>2, <2>3
       DEF OpenSelector, CloseSelector, MoveCursor, NewProfile, EditProfile,
           CloseForm, OnlyMode, SaveProfileFails, RemoveProfileFails
  <2> QED BY <1>3, <2>1, <2>2, <2>3 DEF ConnectionKeys
<1>4. ASSUME NEW c \in cmds, ConnectionMessage(c)
      PROVE  Traffic
  <2>1. CASE ConfigUnreadable(c) \/ ConfigLoaded(c)
    <3>1. c.kind \notin RequestKinds
      BY <2>1 DEF ConfigUnreadable, ConfigLoaded, RequestKinds, Reads, Mutations,
                  Lifecycle
    <3>2. Of(cmds \ {c}, RequestKinds) = Requests BY <3>1 DEF Of, Requests
    <3>3. ASSUME cmds' = cmds \ {c}, UNCHANGED <<loop, requestVars, create>>
          PROVE  Traffic
      BY <3>2, <3>3, QuietTraffic DEF Traffic, CreateKept, Requests
    <3>4. CASE ConfigUnreadable(c) BY <3>3, <3>4 DEF ConfigUnreadable
    <3>5. CASE ConfigLoaded(c)
      <4>1. ASSUME NEW p \in Profiles, BeginProfile(p, cmds \ {c})
            PROVE  Traffic
        BY <3>2, <4>1, BeginProfileTraffic DEF Traffic
      <4>2. Untargeted(cmds \ {c}) => Traffic BY <3>3 DEF Untargeted
      <4> QED BY <3>5, <4>1, <4>2, ConfigOpens DEF TargetStep
    <3> QED BY <2>1, <3>4, <3>5
  <2>2. CASE \/ ProfileRefused(c) \/ ProfileConnectedUnlisted(c)
             \/ ProfileConnected(c)
    <3>1. /\ Answers(c, {"connect"}) /\ cmds' = WithoutPull(cmds \ {c})
          /\ requestCancel' = None /\ loading' = FALSE
          /\ UNCHANGED <<loop, generation, create>>
      BY <2>2 DEF ProfileRefused, ProfileConnectedUnlisted, ProfileConnected,
                  Connected
    <3>2. Accepted(c)
      BY <3>1 DEF Accepted, Answers, Requests, Of, RequestKinds, Reads,
                  MutationKinds, Mutations, Lifecycle
    <3>3. Requests' = Requests \ {c}
      <4>1. cmds \ {c} \subseteq Command BY <1>0
      <4>2. Of(WithoutPull(cmds \ {c}), RequestKinds) = Of(cmds \ {c}, RequestKinds)
        BY <4>1, RequestsOf
      <4> QED BY <3>1, <4>2 DEF Requests, Of
    <3> QED BY <3>1, <3>2, <3>3 DEF ReplyHeard, CreateKept, Traffic
  <2> QED BY <1>4, <2>1, <2>2 DEF ConnectionMessage
<1> QED BY <1>3, <1>4

LEMMA ContainerKeysTraffic ==
    ASSUME TypeOK, ContainerKeys
    PROVE  Traffic
<1>0. /\ cmds \subseteq Command /\ Of(cmds, RequestKinds) = Requests
      /\ details \in Container \cup {None} /\ selectedID \in Container \cup {None}
  BY selectedIDType DEF TypeOK, Requests
<1>1. UNCHANGED create => CreateKept BY DEF CreateKept
<1>2. {"list", "inspect"} \subseteq PlainKinds BY PlainKindsList
<1>3. ASSUME UNCHANGED <<loop, requestVars, create, cmds>>
      PROVE  Traffic
  BY <1>1, <1>3, QuietTraffic DEF Traffic, Requests
<1>4. CASE RefreshKey
  BY <1>0, <1>1, <1>4, KeyTraffic DEF RefreshKey, Traffic
<1>5. CASE RefreshDetails
  <2>1. BeginRequest(cmds, requestCancel, {Request("inspect", details)})
        /\ UNCHANGED <<loop, create>>
    BY <1>5 DEF RefreshDetails
  <2> QED BY <1>0, <1>1, <1>2, <2>1, KeyTraffic DEF Traffic
<1>6. CASE OpenDetails
  <2>1. BeginRequest(cmds, requestCancel, {Request("inspect", selectedID)})
        /\ UNCHANGED <<loop, create>>
    BY <1>6 DEF OpenDetails
  <2> QED BY <1>0, <1>1, <1>2, <2>1, KeyTraffic DEF Traffic
<1>7. CASE StartKey
  <2> DEFINE sent == Request("start", selectedID)
  <2>1. /\ \/ UNCHANGED <<requestVars, cmds>>
           \/ selectedID # None /\ BeginRequest(cmds, requestCancel, {sent})
        /\ UNCHANGED <<loop, create, mode>> /\ mode = "normal"
    BY <1>7 DEF StartKey, RunOperation, InScreen
  <2>2. sent.kind = "start" /\ sent.target = selectedID
        /\ sent.host = client /\ sent.gen = generation + 1
    BY DEF Request, Cmd
  <2>3. "start" \in RequestKinds BY DEF RequestKinds, Mutations, Lifecycle
  <2>4. sent \in Command BY <1>0, <2>3, RequestType DEF CommandKinds
  <2> HIDE DEF sent
  <2>5. selectedID # None => Fresh(sent) BY <1>0, <2>1, <2>2, <2>3, <2>4 DEF Fresh
  <2>6. CASE UNCHANGED <<requestVars, cmds>> BY <1>3, <2>1, <2>6
  <2>7. CASE selectedID # None /\ BeginRequest(cmds, requestCancel, {sent})
    BY <1>0, <1>1, <2>1, <2>2, <2>5, <2>7, SentByKey DEF Traffic
  <2> QED BY <2>1, <2>6, <2>7
<1>8. CASE \/ MoveSelection \/ OpenDetailsRefused \/ CloseDetails
           \/ \E action \in Lifecycle \ {"start"} : RequestConfirmation(action)
           \/ OpenFilter \/ TypeFilter \/ AcceptFilter \/ LeaveFilter
  BY <1>3, <1>8
     DEF MoveSelection, OpenDetailsRefused, CloseDetails, Refuse,
         RequestConfirmation, OpenFilter, TypeFilter, AcceptFilter,
         LeaveFilter, Filtering
<1>9. ASSUME Of(cmds', RequestKinds) = Requests,
             UNCHANGED <<loop, requestVars, create>>
      PROVE  Traffic
  BY <1>1, <1>9, QuietTraffic DEF Traffic, Requests
<1>10. ASSUME NEW kind \in StreamKinds, OpenStream(kind)
       PROVE  Traffic
  <2>1. CASE Refuse BY <1>3, <2>1 DEF Refuse
  <2>2. CASE ~Refuse
    <3> DEFINE sent == Cmd(kind, client, selectedID, stream.generation + 2)
    <3>1. cmds' = WithoutStream(cmds) \cup {sent} /\ OnlyStream
      BY <1>10, <2>2 DEF OpenStream
    <3>2. sent.kind \notin RequestKinds
      BY FeedsAreNoRequests DEF Cmd, FeedKinds
    <3> HIDE DEF sent
    <3>3. Of(cmds', RequestKinds) = Of(WithoutStream(cmds), RequestKinds)
      BY <3>1, <3>2 DEF Of
    <3> QED BY <1>0, <1>9, <3>1, <3>3, RequestsOf DEF OnlyStream
  <2> QED BY <2>1, <2>2
<1>11. CASE CloseStream
  <2>1. cmds' = WithoutStream(cmds) /\ OnlyStream BY <1>11 DEF CloseStream
  <2> QED BY <1>0, <1>9, <2>1, RequestsOf DEF OnlyStream
<1> QED BY <1>4, <1>5, <1>6, <1>7, <1>8, <1>10, <1>11 DEF ContainerKeys

LEMMA ImageKeysTraffic ==
    ASSUME TypeOK, ImageKeys
    PROVE  Traffic
<1> USE DEF OnlyGallery, OnlyPull
<1>0. /\ cmds \subseteq Command /\ Of(cmds, RequestKinds) = Requests
      /\ gallery \in Gallery /\ create \in Create
  BY DEF TypeOK, Requests
<1>1. UNCHANGED create => CreateKept BY DEF CreateKept
<1>2. {"listImages", "inspectImage"} \subseteq PlainKinds BY PlainKindsList
<1>3. ASSUME Of(cmds', RequestKinds) = Requests, CreateKept,
             UNCHANGED <<loop, requestVars>>
      PROVE  Traffic
  BY <1>3, QuietTraffic DEF Traffic, Requests
<1>4. CASE OpenImages
  BY <1>0, <1>1, <1>4, KeyTraffic DEF OpenImages, Traffic
<1>5. CASE RefreshImagesKey
  BY <1>0, <1>1, <1>5, KeyTraffic DEF RefreshImagesKey, Traffic
<1>6. CASE RefreshImageDetails
  <2>1. BeginRequest(cmds, requestCancel, {Request("inspectImage", gallery.details)})
        /\ UNCHANGED <<loop, create>>
    BY <1>6 DEF RefreshImageDetails
  <2>2. gallery.details \in Container \cup Image \cup {None} BY <1>0 DEF Gallery
  <2> QED BY <1>0, <1>1, <1>2, <2>1, <2>2, KeyTraffic DEF Traffic
<1>7. CASE OpenImageDetails
  <2>1. BeginRequest(cmds, requestCancel, {Request("inspectImage", gallery.selected)})
        /\ UNCHANGED <<loop, create>>
    BY <1>7 DEF OpenImageDetails
  <2>2. gallery.selected \in Container \cup Image \cup {None} BY <1>0 DEF Gallery
  <2> QED BY <1>0, <1>1, <1>2, <2>1, <2>2, KeyTraffic DEF Traffic
<1>8. CASE CancelImagePull
  <2>1. RefreshImages(gallery, err, WithoutPull(cmds), requestCancel)
        /\ UNCHANGED <<loop, create>>
    BY <1>8 DEF CancelImagePull
  <2>2. /\ WithoutPull(cmds) \subseteq Command
        /\ Of(WithoutPull(cmds), RequestKinds) = Requests
    BY <1>0, StoppedType, RequestsOf
  <2> QED BY <1>1, <2>1, <2>2, KeyTraffic DEF Traffic
<1>9. CASE StartImagePull
  <2> DEFINE sent == Cmd("pull", client, None, pull.generation + 2)
  <2>1. cmds' = WithoutPull(cmds) \cup {sent}
        /\ UNCHANGED <<loop, requestVars, create>>
    BY <1>9 DEF StartImagePull
  <2>2. sent.kind \notin RequestKinds BY FeedsAreNoRequests DEF Cmd, FeedKinds
  <2> HIDE DEF sent
  <2>3. Of(cmds', RequestKinds) = Of(WithoutPull(cmds), RequestKinds)
    BY <2>1, <2>2 DEF Of
  <2> QED BY <1>0, <1>1, <1>3, <2>1, <2>3, RequestsOf
<1>10. CASE \/ OpenImageDetailsRefused \/ BackFromImages \/ MoveImageSelection
            \/ FilterImages \/ RequestImageConfirmation
            \/ OpenImagePull \/ LeaveImagePull
  <2>1. UNCHANGED <<loop, requestVars, create, cmds>>
    BY <1>10 DEF OpenImageDetailsRefused, BackFromImages, MoveImageSelection,
                 FilterImages, RequestImageConfirmation, OpenImagePull,
                 LeaveImagePull, Refuse
  <2> QED BY <1>0, <1>1, <1>3, <2>1
<1>11. CASE \/ OpenContainerCreate \/ LeaveContainerCreate
            \/ SubmitContainerCreate \/ RejectContainerCreate
  <2>1. UNCHANGED <<loop, requestVars, cmds>>
    BY <1>11 DEF OpenContainerCreate, LeaveContainerCreate,
                 SubmitContainerCreate, RejectContainerCreate, OnlyCreate, Refuse
  <2>2. CreateKept
    BY <1>0, <1>11 DEF OpenContainerCreate, LeaveContainerCreate,
                 SubmitContainerCreate, RejectContainerCreate, Refuse, Create,
                 CreateKept
  <2> QED BY <1>0, <1>3, <2>1, <2>2
<1>12. CASE CancelContainerCreate
  <2>1. /\ cmds' = Cancelled(cmds, RequestKinds, requestCancel)
        /\ UNCHANGED <<loop, requestVars, create, linkVars, mode, pending>>
    BY <1>12 DEF CancelContainerCreate, OnlyCreate
  <2>2. Requests' = Cancelled(Requests, RequestKinds, requestCancel)
    BY <1>0, <2>1, RequestsOf DEF Requests
  <2> QED BY <2>1, <2>2 DEF ContextEnds, Traffic
<1>13. CASE QuitPull \/ QuitContainerCreate
  BY <1>13, QuittingEnds DEF Traffic
<1> QED BY <1>4, <1>5, <1>6, <1>7, <1>8, <1>9, <1>10, <1>11, <1>12, <1>13
        DEF ImageKeys

LEMMA DialogTraffic ==
    ASSUME TypeOK, DialogKeys
    PROVE  Traffic
<1>0. /\ cmds \subseteq Command /\ Of(cmds, RequestKinds) = Requests
      /\ create \in Create /\ generation \in Nat
      /\ mode = "confirm" => pending \in Dialog
  BY DEF TypeOK, Requests
<1>1. ASSUME UNCHANGED <<loop, requestVars, cmds>>, CreateKept
      PROVE  Traffic
  BY <1>1, QuietTraffic DEF Traffic, Requests
<1>2. CASE ConfirmStale \/ CancelDialog
  <2>1. CreateKept
    BY <1>0, <1>2 DEF ConfirmStale, CancelDialog, CreateFails, Create, CreateKept
  <2> QED BY <1>1, <1>2, <2>1 DEF ConfirmStale, CancelDialog, DialogCloses
<1>3. CASE ConfirmOperation
  <2> DEFINE sent == Request(pending.action, pending.target)
  <2>1. pending \in Dialog BY <1>0, <1>3 DEF ConfirmOperation, InDialog
  <2>2. /\ mode = "confirm" /\ pending.generation = generation
        /\ pending.action \in Mutations /\ pending.connection = profile
        /\ mode' = "normal" /\ UNCHANGED <<loop, create>>
        /\ \/ UNCHANGED <<requestVars, cmds>>
           \/ client # None /\ BeginRequest(cmds, requestCancel, {sent})
    BY <1>3, <2>1 DEF ConfirmOperation, InDialog, DialogIsStale, DialogCloses,
                      RunOperation, Dialog
  <2>3. CreateKept BY <2>2 DEF CreateKept
  <2>4. CASE UNCHANGED <<requestVars, cmds>> BY <1>1, <2>2, <2>3, <2>4
  <2>5. CASE client # None /\ BeginRequest(cmds, requestCancel, {sent})
    <3>1. /\ sent.kind = pending.action /\ sent.target = pending.target
          /\ sent.connection = profile
          /\ sent.host = client /\ sent.gen = generation + 1
      BY DEF Request, Cmd
    <3>2. pending.action \in RequestKinds /\ pending.action \notin {"run", "connect"}
      BY <2>2 DEF RequestKinds, Mutations, Lifecycle
    <3>3. sent \in Command
      BY <2>1, <3>2, RequestType DEF CommandKinds, Dialog
    <3> HIDE DEF sent
    <3>4. Confirms(sent) BY <2>2, <2>5, <3>1 DEF Confirms
    <3>5. sent.kind # "start" BY <2>1, <3>1 DEF Dialog
    <3>6. Fresh(sent) /\ sent.kind # "run"
      BY <2>2, <2>5, <3>1, <3>2, <3>3, <3>4, <3>5 DEF Fresh
    <3> QED BY <1>0, <2>2, <2>3, <2>5, <3>6, SentByKey DEF Traffic
  <2> QED BY <2>2, <2>4, <2>5
<1>4. CASE ConfirmCreate
  <2> DEFINE sent == Request("run", pending.target)
  <2>1. pending \in Dialog /\ pending.action = "run"
    BY <1>0, <1>4 DEF ConfirmCreate, InDialog
  <2>2. /\ RunContainerCreate(pending.target) /\ UNCHANGED loop
        /\ mode = "confirm" /\ mode' = "normal"
        /\ pending.generation = generation /\ pending.connection = profile
    BY <1>4 DEF ConfirmCreate, DialogCloses, InDialog, DialogIsStale
  <2>3. CASE UNCHANGED <<requestVars, cmds>> /\ (CreateFails \/ UNCHANGED create)
    <3>1. CreateKept BY <1>0, <2>3 DEF CreateFails, Create, CreateKept
    <3> QED BY <1>1, <2>2, <2>3, <3>1
  <2>4. CASE ~(UNCHANGED <<requestVars, cmds>> /\ (CreateFails \/ UNCHANGED create))
    <3>1. /\ client # None /\ BeginRequest(cmds, requestCancel, {sent})
          /\ create' = [create EXCEPT !.status = "creating", !.running = TRUE,
                       !.image = pending.target, !.result = None,
                       !.target = profile, !.generation = generation + 1]
      BY <2>2, <2>4 DEF RunContainerCreate
    <3>2. sent \in Command
      BY <2>1, RequestType DEF Dialog, CommandKinds, RequestKinds
    <3>3. Confirms(sent) BY <2>1, <2>2, <3>1 DEF Confirms, Request, Cmd
    <3>5. Fresh(sent) /\ sent.kind = "run" /\ sent.connection = profile
      BY <3>2, <3>3 DEF Fresh, Request, Cmd, RequestKinds
    <3>6. ~create.refreshing
      BY <2>2, <2>4 DEF RunContainerCreate, CreateBusy
    <3>4. /\ create'.generation = generation + 1 /\ create'.target = profile
          /\ ~create'.refreshing
      BY <1>0, <3>1, <3>6 DEF Create
    <3> HIDE DEF sent
    <3> QED BY <1>0, <2>2, <3>1, <3>4, <3>5, SentByKey DEF Traffic
  <2> QED BY <2>3, <2>4
<1> QED BY <1>2, <1>3, <1>4 DEF DialogKeys

\* The handlers of replies start one plain request.
LEMMA ReplySends ==
    ASSUME TypeOK, NEW c, Accepted(c), UNCHANGED loop,
           NEW kind \in PlainKinds,
           NEW target \in Container \cup Image \cup {None},
           BeginRequest(cmds \ {c}, None, {Request(kind, target)}),
           \/ CreateKept
           \/ /\ create'.generation = generation + 1 /\ ~create'.running
              /\ kind = "createRefresh"
    PROVE  RequestsSent
<1> DEFINE sent == Request(kind, target)
           new == {sent}
<1>1. Fresh(sent) /\ sent.kind = kind BY PlainIsFresh
<1>2. /\ BeginRequest(cmds \ {c}, None, new)
      /\ \A d \in new : Fresh(d) /\ d.kind \in PlainKinds
      /\ \A e, d \in new : e = d
      /\ \E d \in new : d.kind = kind
  BY <1>1
<1> HIDE DEF sent, new
<1> QED BY <1>2, ReplyTraffic

LEMMA ContainerMessageTraffic ==
    ASSUME TypeOK, NEW c \in cmds, ContainerMessage(c)
    PROVE  Traffic
<1>0. UNCHANGED create => CreateKept BY DEF CreateKept
<1>1. /\ Accepted(c) /\ UNCHANGED <<loop, create>>
      /\ c.target \in Container \cup Image \cup {None}
  <2>1. /\ c.kind \in {"list", "inspect"} \cup Lifecycle /\ c.gen = generation
        /\ UNCHANGED <<loop, create, mode, pending>>
    BY DEF ContainerMessage, InventoryLoaded, InventoryFailed, InventoryReply,
           DetailsLoaded, DetailsFailed, DetailsReply, OperationSucceeded,
           OperationFailed, OperationStale, Finished, Answers
  <2>2. c.kind \in RequestKinds
        /\ c.kind \notin {"connect", "run", "createRefresh"}
    BY <2>1 DEF RequestKinds, Reads, Mutations, Lifecycle
  <2>3. c \in Command BY DEF TypeOK
  <2> QED BY <2>1, <2>2, <2>3 DEF Accepted, Requests, Of, Command
<1>2. CASE NoRequest(cmds \ {c}, None)
  BY <1>0, <1>1, <1>2, ReplyTraffic DEF Traffic
<1>3. CASE OperationStale(c)
  <2>1. Refresh(FALSE, "stale", cmds \ {c}, None) BY <1>3 DEF OperationStale
  <2>2. CASE NoRequest(cmds \ {c}, None) BY <1>2, <2>2
  <2>3. CASE BeginRequest(cmds \ {c}, None, {Request("list", None)})
    <3>1. "list" \in PlainKinds BY PlainKindsList
    <3> QED BY <1>0, <1>1, <2>3, <3>1, ReplySends DEF Traffic
  <2> QED BY <2>1, <2>2, <2>3 DEF Refresh
<1>4. CASE OperationSucceeded(c)
  <2> DEFINE read(kind, target) == [Request(kind, target) EXCEPT !.gone = gone']
             new == {read("list", None)} \cup
                    (IF screen' = "details" THEN {read("inspect", c.target)} ELSE {})
  <2>1. BeginRequest(cmds \ {c}, None, new) BY <1>4 DEF OperationSucceeded
  <2>2. ASSUME NEW kind \in {"list", "inspect"},
               NEW target \in Container \cup Image \cup {None}
        PROVE  Fresh(read(kind, target)) /\ read(kind, target).kind = kind
    <3>1. kind \in PlainKinds BY PlainKindsList
    <3>2. Fresh(Request(kind, target)) /\ Request(kind, target).kind = kind
      BY <3>1, PlainIsFresh
    <3>3. gone' \subseteq Container
      BY <1>4, ContainerMessageType DEF ContainerMessage, TypeOK
    <3>4. Request(kind, target) \in Command BY <3>2 DEF Fresh
    <3>5. /\ read(kind, target) \in Command
          /\ read(kind, target).kind = kind
          /\ read(kind, target).gen = Request(kind, target).gen
          /\ read(kind, target).host = Request(kind, target).host
      BY <3>2, <3>3, <3>4 DEF Command
    <3>6. kind \notin {"connect", "start"} \cup MutationKinds
      BY <3>1, PlainKindsList DEF MutationKinds, Mutations, Lifecycle
    <3> HIDE DEF read
    <3> QED BY <3>2, <3>5, <3>6 DEF Fresh
  <2>3. \A d \in new : \E kind \in {"list", "inspect"} :
            \E target \in Container \cup Image \cup {None} : d = read(kind, target)
    BY <1>1
  <2> HIDE DEF read, new
  <2>4. \A d \in new : Fresh(d) /\ d.kind \in {"list", "inspect"} \cap PlainKinds
    BY <2>2, <2>3, PlainKindsList
  <2> QED BY <1>0, <1>1, <2>1, <2>4, ReplyTraffic DEF Traffic
<1> QED BY <1>2, <1>3, <1>4
        DEF ContainerMessage, InventoryLoaded, InventoryFailed, InventoryReply,
            DetailsLoaded, DetailsFailed, DetailsReply, OperationFailed

LEMMA ImageMessageTraffic ==
    ASSUME TypeOK, NEW c \in cmds, ImageMessage(c)
    PROVE  Traffic
<1>0. UNCHANGED create => CreateKept BY DEF CreateKept
<1>1. /\ c.kind \in {"listImages", "inspectImage", "imageRemove"}
      /\ Accepted(c) /\ UNCHANGED <<loop, create>>
  <2>1. /\ c.kind \in {"listImages", "inspectImage", "imageRemove"}
        /\ c.gen = generation
        /\ UNCHANGED <<loop, create, mode, pending>>
    BY DEF ImageMessage, ImageInventoryLoaded, ImageInventoryFailed,
           ImageInventoryReply, ImageDetailsLoaded, ImageDetailsFailed,
           ImageDetailsReply, ImageDetailsClosed, ImageRemoved,
           ImageRemoveStale, ImageRemoveFailed, ImageRemoveFinished, OnlyGallery,
           Answers
  <2>2. c.kind \in RequestKinds /\ c.kind # "run"
    BY <2>1 DEF RequestKinds, Reads, Mutations
  <2> QED BY <2>1, <2>2 DEF Accepted, Requests, Of
<1>2. CASE NoRequest(cmds \ {c}, None)
  BY <1>0, <1>1, <1>2, ReplyTraffic DEF Traffic
<1>3. ASSUME NEW g, NEW e, RefreshImages(g, e, cmds \ {c}, None)
      PROVE  Traffic
  <2>1. CASE BeginRequest(cmds \ {c}, None, {Request("listImages", None)})
    <3>1. "listImages" \in PlainKinds BY PlainKindsList
    <3> QED BY <1>0, <1>1, <2>1, <3>1, ReplySends DEF Traffic
  <2> QED BY <1>2, <1>3, <2>1 DEF RefreshImages
<1>4. CASE ImageDetailsClosed(c)
  <2>1. /\ cmds' = cmds \ {c} /\ UNCHANGED requestVars /\ c.kind = "inspectImage"
    BY <1>4 DEF ImageDetailsClosed, Answers
  <2>2. Requests' = Requests \ {c} BY <2>1 DEF Requests, Of
  <2>3. UNCHANGED <<mode, pending>> BY <1>4 DEF ImageDetailsClosed, OnlyGallery
  <2> QED BY <1>0, <1>1, <2>1, <2>2, <2>3
          DEF RequestsKept, CurrentRun, CurrentCreateRefresh, Traffic
<1> QED BY <1>2, <1>3, <1>4
        DEF ImageMessage, ImageInventoryLoaded, ImageInventoryFailed,
            ImageInventoryReply, ImageDetailsLoaded, ImageDetailsFailed,
            ImageDetailsReply, ImageRemoved, ImageRemoveStale, ImageRemoveFailed

LEMMA FeedMessageTraffic ==
    ASSUME TypeOK, NEW c \in cmds, PullMessage(c) \/ StreamMessage(c)
    PROVE  Traffic
<1>0. /\ cmds \subseteq Command /\ Of(cmds, RequestKinds) = Requests
      /\ UNCHANGED create => CreateKept
  BY DEF TypeOK, Requests, CreateKept
<1>1. /\ c.kind \in FeedKinds /\ UNCHANGED <<loop, create>>
  BY DEF PullMessage, PullEvent, PullFailed, PullDone, DropPullEvent, CurrentFeed,
         StreamMessage, StatsSample, StreamEnded, DropStreamEvent, CurrentStream,
         OnlyPull, OnlyStream, FeedKinds
<1>2. Of(cmds \ {c}, RequestKinds) = Requests
  BY <1>1, FeedsAreNoRequests DEF Of, Requests
<1>3. CASE cmds' \in {cmds, cmds \ {c}} /\ UNCHANGED requestVars
  BY <1>0, <1>1, <1>2, <1>3, QuietTraffic DEF Traffic, Requests
<1>4. CASE RefreshImages(gallery, err, cmds \ {c}, requestCancel)
  <2>1. cmds \ {c} \subseteq Command BY <1>0
  <2> QED BY <1>0, <1>1, <1>2, <1>4, <2>1, KeyTraffic DEF Traffic
<1> QED BY <1>3, <1>4
        DEF PullMessage, PullEvent, PullFailed, PullDone, DropPullEvent,
            StreamMessage, StatsSample, StreamEnded, DropStreamEvent,
            CurrentStream, OnlyStream

LEMMA CreateMessageTraffic ==
    ASSUME TypeOK, NEW c \in cmds, CreateMessage(c)
    PROVE  Traffic
<1>0. create \in Create /\ c \in Command BY DEF TypeOK
<1>1. UNCHANGED loop
  BY DEF CreateMessage, ContainerStarted, ContainerCreatedOnly,
         ContainerCreateCancelled, ContainerCreateFailed, RunReply, DropRunReply,
         CreateRefreshed, DropCreateRefresh, OnlyCreate
<1>2. ASSUME RunReply(c), ~create'.running
      PROVE  Accepted(c)
  BY <1>2 DEF Accepted, RunReply, CurrentRun, Requests, Of, RequestKinds
<1>3. ASSUME NEW status, NEW result, RunReply(c),
             RefreshAfterCreate(c, status, result)
      PROVE  Traffic
  <2>1. CASE NoRequest(cmds \ {c}, None)
             /\ create' = [Ended(c, "failed", result) EXCEPT !.refreshing = FALSE]
    <3>1. CreateKept /\ ~create'.running
      BY <1>0, <2>1 DEF Ended, Create, CreateKept
    <3> QED BY <1>1, <1>2, <1>3, <2>1, <3>1, ReplyTraffic DEF Traffic
  <2>2. CASE /\ BeginRequest(cmds \ {c}, None, {Request("createRefresh", None)})
             /\ create' = [Ended(c, status, result) EXCEPT
                       !.refreshing = TRUE, !.generation = generation + 1]
    <3>1. create'.generation = generation + 1 /\ ~create'.running
      BY <1>0, <2>2 DEF Ended, Create
    <3>2. "createRefresh" \in PlainKinds BY PlainKindsList
    <3> QED BY <1>1, <1>2, <1>3, <2>2, <3>1, <3>2, ReplySends DEF Traffic
  <2> QED BY <1>3, <2>1, <2>2 DEF RefreshAfterCreate
<1>4. CASE ContainerStarted(c) \/ ContainerCreatedOnly(c)
  BY <1>3, <1>4 DEF ContainerStarted, ContainerCreatedOnly
<1>5. CASE ContainerCreateCancelled(c) \/ ContainerCreateFailed(c)
  <2>1. /\ NoRequest(cmds \ {c}, None) /\ RunReply(c)
        /\ create' \in {Ended(c, "cancelled", None), Ended(c, "failed", None)}
    BY <1>5 DEF ContainerCreateCancelled, ContainerCreateFailed
  <2>2. CreateKept /\ ~create'.running
    BY <1>0, <2>1 DEF Ended, Create, CreateKept
  <2> QED BY <1>1, <1>2, <2>1, <2>2, ReplyTraffic DEF Traffic
<1>6. CASE DropRunReply(c) \/ DropCreateRefresh(c)
  <2>1. /\ cmds' = cmds \ {c} /\ UNCHANGED <<requestVars, create, mode, pending>>
        /\ c.kind \in {"run", "createRefresh"}
        /\ ~CurrentRun(c) /\ ~CurrentCreateRefresh(c)
    BY <1>6 DEF DropRunReply, DropCreateRefresh, CurrentRun,
                CurrentCreateRefresh
  <2>2. Requests' = Requests \ {c} BY <2>1 DEF Requests, Of
  <2> QED BY <1>1, <2>1, <2>2 DEF RequestsKept, CreateKept, Traffic
<1>7. CASE CreateRefreshed(c)
  <2>1. NoRequest(cmds \ {c}, None) /\ c.kind = "createRefresh"
        /\ c.gen = generation
    BY <1>7 DEF CreateRefreshed, CurrentCreateRefresh
  <2>2. create' \in {Refreshed(TRUE), Refreshed(FALSE)}
    BY <1>7 DEF CreateRefreshed
  <2>3. CreateKept /\ ~create'.refreshing
    BY <1>0, <2>2 DEF Refreshed, Create, CreateKept
  <2>4. Accepted(c)
    BY <2>1, <2>3 DEF Accepted, Requests, Of, RequestKinds, Reads,
                      MutationKinds, Mutations, Lifecycle
  <2> QED BY <1>1, <2>1, <2>3, <2>4, ReplyTraffic DEF Traffic
<1> QED BY <1>4, <1>5, <1>6, <1>7 DEF CreateMessage

LEMMA EveryStepIsTraffic ==
    ASSUME TypeOK, [Next]_vars
    PROVE  Traffic
<1>1. CASE UserStep
  BY <1>1, ConnectionTraffic, ContainerKeysTraffic, ImageKeysTraffic,
     DialogTraffic, QuittingEnds DEF UserStep, Traffic
<1>2. ASSUME NEW c \in cmds, Deliver(c)
      PROVE  Traffic
  <2>1. CASE DropStaleReply(c)
    <3>1. /\ cmds' = cmds \ {c} /\ c.gen # generation /\ c.kind # "run"
          /\ UNCHANGED <<loop, requestVars, create, mode, pending>>
      BY <2>1 DEF DropStaleReply, Reads, Mutations, Lifecycle
    <3>2. Requests' \subseteq Requests /\ Requests \ Requests' \subseteq {c}
      BY <3>1 DEF Requests, Of
    <3> QED BY <3>1, <3>2 DEF RequestsKept, CreateKept, CurrentRun,
         CurrentCreateRefresh, Traffic
  <2> QED BY <1>2, <2>1, ConnectionTraffic, ContainerMessageTraffic,
             ImageMessageTraffic, FeedMessageTraffic, CreateMessageTraffic
          DEF Deliver
<1>3. CASE UNCHANGED vars
  BY <1>3, QuietTraffic DEF vars, CreateKept, Requests, Traffic
<1> QED BY <1>1, <1>2, <1>3 DEF Next, Terminated

-----------------------------------------------------------------------------
(* Requests are numbered, and the latest can be ended                      *)

\* Only the list and the details that a lifecycle operation reads again share
\* a number.
Distinct(rs) ==
    \A c, d \in rs : c.gen = d.gen /\ c.kind \notin {"list", "inspect"} => c = d

RequestsAreNumbered ==
    /\ requestCancel \in {None, generation}
    /\ \A c \in Requests : c.gen <= generation
    /\ Distinct(Requests)

\* A create that runs is the latest request, and the create flow waits for the
\* latest create.
RunIsKnown ==
    /\ create.generation <= generation
    /\ \A c \in Requests : c.kind = "run" =>
          /\ c.gen <= create.generation
          /\ c.live => requestCancel = c.gen
    /\ create.running /\ loop = "running" => \E c \in Requests : CurrentRun(c)

\* The context of c may have ended, and nothing else of it has changed.
SameCommand(c, d) ==
    /\ d.kind = c.kind /\ d.host = c.host /\ d.target = c.target
    /\ d.connection = c.connection /\ d.gen = c.gen
    /\ d.live => c.live

\* beginRequest and esc leave every request in flight.
LEMMA EndedRequests ==
    ASSUME NEW rs, rs \subseteq Requests, TypeOK, NEW g
    PROVE  LET ended == Cancelled(rs, RequestKinds, g) IN
           /\ \A d \in ended : \E c \in rs :
                 SameCommand(c, d) /\ (d.live => c.gen # g)
           /\ \A c \in rs : \E d \in ended : SameCommand(c, d)
           /\ Distinct(rs) => Distinct(ended)
<1> DEFINE after(c) ==
              [c EXCEPT !.live = @ /\ ~(c.kind \in RequestKinds /\ c.gen = g)]
           ended == Cancelled(rs, RequestKinds, g)
<1>1. \A c \in rs : /\ SameCommand(c, after(c))
                    /\ after(c).live => c.gen # g
  <2> SUFFICES ASSUME NEW c \in rs
               PROVE  SameCommand(c, after(c)) /\ (after(c).live => c.gen # g)
    OBVIOUS
  <2>1. c \in Command /\ c.kind \in RequestKinds BY DEF Requests, Of, TypeOK
  <2> QED BY <2>1 DEF Command, SameCommand
<1>2. ended = {after(c) : c \in rs} BY DEF Cancelled
<1> HIDE DEF after, ended
<1>3. Distinct(rs) => Distinct(ended) BY <1>1, <1>2 DEF Distinct, SameCommand
<1>4. \A d \in ended : \E c \in rs : SameCommand(c, d) /\ (d.live => c.gen # g)
  BY <1>1, <1>2
<1>5. \A c \in rs : \E d \in ended : SameCommand(c, d) BY <1>1, <1>2
<1> QED BY <1>3, <1>4, <1>5 DEF ended

\* The handler that forgets the cancel function has consumed the only request
\* it could have ended.
LEMMA AcceptedIsLatest ==
    ASSUME TypeOK, RequestsAreNumbered, RunIsKnown, NEW c, Accepted(c),
           NEW e \in Requests, e.kind = "run", e.live
    PROVE  e = c
<1>1. /\ e \in Command /\ c \in Command
      /\ create.generation \in Nat /\ generation \in Nat
  BY DEF TypeOK, Requests, Of, Accepted, Create
<1>2. e.gen \in Nat /\ c.gen \in Nat /\ e.gen # None
  BY <1>1, NoneAssumption DEF Command
<1>3. e.gen = generation BY <1>2 DEF RequestsAreNumbered, RunIsKnown
<1>4. CASE c.gen = generation
  BY <1>3, <1>4 DEF RequestsAreNumbered, Distinct, Accepted
<1>5. CASE CurrentRun(c)
  <2>1. c.gen = create.generation BY <1>5 DEF CurrentRun
  <2>2. e.gen <= create.generation /\ create.generation <= generation
    BY DEF RunIsKnown
  <2>3. e.gen = c.gen BY <1>1, <1>2, <1>3, <2>1, <2>2
  <2> QED BY <2>3 DEF RequestsAreNumbered, Distinct, Accepted
<1> QED BY <1>4, <1>5 DEF Accepted

LEMMA KeptRequests ==
    ASSUME TypeOK, RequestsAreNumbered, RunIsKnown, CreateKept,
           UNCHANGED <<loop, generation>>, Requests' \subseteq Requests,
           requestCancel' \in {None, generation},
           \A c \in Requests' : c.kind = "run" /\ c.live
                => requestCancel' = requestCancel,
           create'.running => \A c \in Requests \ Requests' : ~CurrentRun(c)
    PROVE  RequestsAreNumbered' /\ RunIsKnown'
<1>1. RequestsAreNumbered' BY DEF RequestsAreNumbered, Distinct
<1>2. ASSUME create'.running, loop' = "running"
      PROVE  \E c \in Requests' : CurrentRun(c)'
  <2>1. PICK c \in Requests : CurrentRun(c) BY <1>2 DEF RunIsKnown, CreateKept
  <2>2. c \in Requests' BY <1>2, <2>1
  <2>3. c \in cmds' BY <2>2 DEF Requests, Of
  <2> QED BY <1>2, <2>1, <2>2, <2>3 DEF CurrentRun, Delivered, CreateKept
<1>3. ASSUME NEW c \in Requests', c.kind = "run"
      PROVE  /\ c.gen <= create'.generation
             /\ c.live => requestCancel' = c.gen
  BY <1>3 DEF RunIsKnown, CreateKept
<1>4. create'.generation <= generation' BY DEF RunIsKnown, CreateKept
<1> QED BY <1>1, <1>2, <1>3, <1>4 DEF RunIsKnown

LEMMA RequestsInductive ==
    ASSUME TypeOK, RequestsAreNumbered, RunIsKnown, [Next]_vars
    PROVE  RequestsAreNumbered' /\ RunIsKnown'
<1>0. /\ generation \in Nat /\ create.generation \in Nat
      /\ Requests \subseteq Command
  BY DEF TypeOK, Create, Requests, Of
<1>1. CASE ProgramEnds
  <2>1. /\ Requests' = {} /\ loop' # "running"
        /\ UNCHANGED <<requestVars, create>>
    BY <1>1 DEF ProgramEnds, Requests, Of
  <2> QED BY <2>1 DEF RequestsAreNumbered, RunIsKnown, Distinct
<1>2. CASE RequestsKept
  BY <1>2, KeptRequests DEF RequestsKept, RequestsAreNumbered
<1>3. ASSUME NEW c, ReplyHeard(c)
      PROVE  RequestsAreNumbered' /\ RunIsKnown'
  <2>1. \A e \in Requests' : ~(e.kind = "run" /\ e.live)
    BY <1>3, AcceptedIsLatest DEF ReplyHeard
  <2>2. create'.running => \A d \in Requests \ Requests' : ~CurrentRun(d)
    BY <1>3 DEF ReplyHeard, Accepted, CurrentRun
  <2> QED BY <1>3, <2>1, <2>2, KeptRequests DEF ReplyHeard
<1>4. CASE ContextEnds
  <2>1. /\ UNCHANGED <<loop, requestVars, create>>
        /\ Requests' = Cancelled(Requests, RequestKinds, requestCancel)
    BY <1>4 DEF ContextEnds
  <2>2. /\ \A d \in Requests' : \E c \in Requests : SameCommand(c, d)
        /\ \A c \in Requests : \E d \in Requests' : SameCommand(c, d)
        /\ Distinct(Requests')
    BY <2>1, EndedRequests DEF RequestsAreNumbered
  <2>3. RequestsAreNumbered'
    BY <2>1, <2>2 DEF RequestsAreNumbered, SameCommand, Distinct
  <2>4. ASSUME create'.running, loop' = "running"
        PROVE  \E d \in Requests' : CurrentRun(d)'
    <3>1. PICK c \in Requests : CurrentRun(c) BY <2>1, <2>4 DEF RunIsKnown
    <3>2. PICK d \in Requests' : SameCommand(c, d) BY <2>2
    <3>3. d \in cmds' BY DEF Requests, Of
    <3> QED BY <2>1, <2>4, <3>1, <3>2, <3>3 DEF CurrentRun, Delivered, SameCommand
  <2> QED BY <2>1, <2>2, <2>3, <2>4 DEF RunIsKnown, SameCommand
<1>5. CASE RequestsSent
  <2>1. PICK new :
          /\ \A d \in new : Fresh(d)
          /\ \A c, d \in new : c = d \/ c.kind \in {"list", "inspect"}
          /\ generation' = generation + 1 /\ requestCancel' = generation + 1
          /\ UNCHANGED loop
          /\ \/ Requests' = Cancelled(Requests, RequestKinds, requestCancel) \cup new
             \/ \E c : /\ Accepted(c)
                       /\ Requests' = Cancelled(Requests \ {c}, RequestKinds, None)
                                         \cup new
          /\ \/ CreateKept /\ \A d \in new : d.kind # "run"
             \/ /\ create'.generation = generation + 1
                /\ create'.running => \E d \in new :
                      d.kind = "run" /\ d.connection = create'.target
    BY <1>5 DEF RequestsSent
  \* What is left in flight of the requests before.
  <2> DEFINE Left(rs, held) ==
               /\ rs \subseteq Requests
               /\ Requests' = Cancelled(rs, RequestKinds, held) \cup new
               /\ \A e \in rs : e.kind = "run" /\ e.live => e.gen = held
               /\ create'.running => \A e \in Requests \ rs : ~CurrentRun(e)
  <2>2. \E rs, held : Left(rs, held)
    <3>1. CASE Requests' = Cancelled(Requests, RequestKinds, requestCancel) \cup new
      <4>1. \A e \in Requests : e.kind = "run" /\ e.live => e.gen = requestCancel
        BY DEF RunIsKnown
      <4>2. Left(Requests, requestCancel) BY <3>1, <4>1
      <4> QED BY <4>2
    <3>2. ASSUME NEW c, Accepted(c),
                 Requests' = Cancelled(Requests \ {c}, RequestKinds, None) \cup new
          PROVE  \E rs, held : Left(rs, held)
      <4>1. \A e \in Requests \ {c} : ~(e.kind = "run" /\ e.live)
        BY <3>2, AcceptedIsLatest
      <4>2. create'.running => ~CurrentRun(c)
        BY <3>2 DEF Accepted, CurrentRun
      <4>3. Left(Requests \ {c}, None) BY <3>2, <4>1, <4>2
      <4> QED BY <4>3
    <3> QED BY <2>1, <3>1, <3>2
  <2>3. PICK rs, held : Left(rs, held) BY <2>2
  <2> DEFINE ended == Cancelled(rs, RequestKinds, held)
  <2>4. /\ \A d \in ended : \E c \in rs :
              SameCommand(c, d) /\ (d.live => c.gen # held)
        /\ \A c \in rs : \E d \in ended : SameCommand(c, d)
        /\ Distinct(ended)
    <3>1. Distinct(rs) BY <2>3 DEF RequestsAreNumbered, Distinct
    <3> QED BY <2>3, <3>1, EndedRequests
  <2>5. Requests' = ended \cup new BY <2>3
  <2> HIDE DEF ended
  <2>6. \A d \in ended : /\ d.gen \in Nat /\ d.gen <= generation
                         /\ ~(d.kind = "run" /\ d.live)
                         /\ d.kind = "run" => d.gen <= create.generation
    <3> SUFFICES ASSUME NEW d \in ended
                 PROVE  /\ d.gen \in Nat /\ d.gen <= generation
                        /\ ~(d.kind = "run" /\ d.live)
                        /\ d.kind = "run" => d.gen <= create.generation
      OBVIOUS
    <3>1. PICK c \in rs : SameCommand(c, d) /\ (d.live => c.gen # held) BY <2>4
    <3>2. c \in Requests /\ c.gen \in Nat BY <1>0, <2>3 DEF Command
    <3> QED BY <2>3, <3>1, <3>2 DEF SameCommand, RequestsAreNumbered, RunIsKnown
  <2>7. \A d \in new : d.gen = generation + 1 BY <2>1 DEF Fresh
  <2>8. Distinct(Requests')
    BY <1>0, <2>1, <2>4, <2>5, <2>6, <2>7 DEF Distinct
  <2>9. RequestsAreNumbered'
    BY <1>0, <2>1, <2>5, <2>6, <2>7, <2>8 DEF RequestsAreNumbered
  <2>10. create'.generation <= generation'
    BY <1>0, <2>1 DEF RunIsKnown, CreateKept
  <2>11. create.generation <= create'.generation
    BY <1>0, <2>1 DEF RunIsKnown, CreateKept
  <2>12. ASSUME NEW c \in Requests', c.kind = "run"
         PROVE  /\ c.gen <= create'.generation
                /\ c.live => requestCancel' = c.gen
    <3>1. CASE c \in ended
      <4>1. create'.generation \in Nat BY TypeIsInductive DEF TypeOK, Create
      <4> QED BY <1>0, <2>6, <2>11, <2>12, <3>1, <4>1
    <3>2. CASE c \in new
      BY <1>0, <2>1, <2>7, <2>12, <3>2
    <3> QED BY <2>5, <2>12, <3>1, <3>2
  <2>13. ASSUME create'.running, loop' = "running"
         PROVE  \E d \in Requests' : CurrentRun(d)'
    <3>1. CASE CreateKept
      <4>1. PICK c \in Requests : CurrentRun(c)
        BY <2>1, <2>13, <3>1 DEF RunIsKnown, CreateKept
      <4>2. c \in rs BY <2>3, <2>13, <4>1
      <4>3. PICK d \in ended : SameCommand(c, d) BY <2>4, <4>2
      <4>4. d \in Requests' /\ d \in cmds' BY <2>5 DEF Requests, Of
      <4> QED BY <2>13, <3>1, <4>1, <4>3, <4>4
              DEF CurrentRun, Delivered, SameCommand, CreateKept
    <3>2. CASE ~CreateKept
      <4>1. PICK d \in new : d.kind = "run" /\ d.connection = create'.target
        BY <2>1, <2>13, <3>2
      <4>2. d \in Requests' /\ d \in cmds' BY <2>5 DEF Requests, Of
      <4> QED BY <2>1, <2>7, <2>13, <3>2, <4>1, <4>2 DEF CurrentRun, Delivered
    <3> QED BY <3>1, <3>2
  <2> QED BY <2>9, <2>10, <2>12, <2>13 DEF RunIsKnown
<1> QED BY <1>1, <1>2, <1>3, <1>4, <1>5, EveryStepIsTraffic DEF Traffic

LEMMA InitRequests ==
    ASSUME Init
    PROVE  RequestsAreNumbered /\ RunIsKnown
<1>1. Requests = {}
  BY DEF Init, Requests, Of, RequestKinds, Reads, Mutations, Lifecycle
<1> QED BY <1>1 DEF Init, RequestsAreNumbered, RunIsKnown, Distinct

LEMMA RequestsAlwaysKnown == Spec => [](RequestsAreNumbered /\ RunIsKnown)
<1>1. Init => RequestsAreNumbered /\ RunIsKnown BY InitRequests
<1>2. TypeOK /\ RequestsAreNumbered /\ RunIsKnown /\ [Next]_vars
        => (RequestsAreNumbered /\ RunIsKnown)'
  BY RequestsInductive
<1> QED BY <1>1, <1>2, TypeCorrect, PTL DEF Spec

\* A create that still runs is the one that esc ends: no create goes on that
\* nothing can cancel, and no two go on at once.
THEOREM RunningCreatesAreCancellable == Spec => []CreateIsCancellable
<1>1. RunIsKnown => CreateIsCancellable
  BY DEF RunIsKnown, CreateIsCancellable, InFlight, Requests, Of, RequestKinds
<1> QED BY <1>1, RequestsAlwaysKnown, PTL

-----------------------------------------------------------------------------
(* The refresh that ends a create                                          *)

RefreshIsKnown ==
    loop = "running" /\ RefreshAwaited =>
        \E c \in Requests : CurrentCreateRefresh(c)

\* A refresh that is awaited after a step that sent nothing was so before, and
\* its request is still in flight.
LEMMA RefreshKept ==
    ASSUME RefreshIsKnown, CreateKept, UNCHANGED <<loop, generation>>,
           \A c \in Requests : CurrentCreateRefresh(c) /\ create'.refreshing =>
              \E d \in Requests' : SameCommand(c, d)
    PROVE  RefreshIsKnown'
<1> SUFFICES ASSUME loop' = "running", RefreshAwaited'
             PROVE  (\E c \in Requests : CurrentCreateRefresh(c))'
  BY DEF RefreshIsKnown
<1>1. loop = "running" /\ RefreshAwaited BY DEF RefreshAwaited, CreateKept
<1>2. PICK c \in Requests : CurrentCreateRefresh(c)
  BY <1>1 DEF RefreshIsKnown
<1>3. PICK d \in Requests' : SameCommand(c, d)
  BY <1>2 DEF RefreshAwaited
<1>4. d \in cmds' BY DEF Requests, Of
<1> QED BY <1>2, <1>3, <1>4
        DEF CurrentCreateRefresh, Delivered, SameCommand, RefreshAwaited,
            CreateKept

LEMMA RefreshIsKnownInductive ==
    ASSUME TypeOK, RunIsKnown, RefreshIsKnown, [Next]_vars
    PROVE  RefreshIsKnown'
<1>0. create.generation <= generation /\ generation \in Nat
      /\ create.generation \in Nat
  BY DEF RunIsKnown, TypeOK, Create
<1>1. \A c : SameCommand(c, c) BY DEF SameCommand
<1>2. CASE ProgramEnds BY <1>2 DEF ProgramEnds, RefreshIsKnown
<1>3. CASE RequestsKept
  BY <1>1, <1>3, RefreshKept DEF RequestsKept
<1>4. CASE ContextEnds
  <2>1. CreateKept BY <1>4 DEF ContextEnds, CreateKept
  <2>2. \A c \in Requests : \E d \in Requests' : SameCommand(c, d)
    BY <1>4, EndedRequests DEF ContextEnds
  <2> QED BY <1>4, <2>1, <2>2, RefreshKept DEF ContextEnds
<1>5. ASSUME NEW c, ReplyHeard(c)
      PROVE  RefreshIsKnown'
  <2>1. create'.refreshing => ~CurrentCreateRefresh(c)
    BY <1>5 DEF ReplyHeard, Accepted, CurrentCreateRefresh
  <2> QED BY <1>1, <1>5, <2>1, RefreshKept DEF ReplyHeard
<1>6. CASE RequestsSent
  <2> SUFFICES ASSUME loop' = "running", RefreshAwaited'
               PROVE  (\E c \in Requests : CurrentCreateRefresh(c))'
    BY DEF RefreshIsKnown
  <2>1. PICK new :
          /\ \A d \in new : Fresh(d)
          /\ generation' = generation + 1 /\ UNCHANGED loop
          /\ new \subseteq Requests'
          /\ \/ CreateKept
             \/ /\ create'.generation = generation + 1
                /\ create'.refreshing => \E d \in new : d.kind = "createRefresh"
    BY <1>6 DEF RequestsSent
  <2>2. ~CreateKept BY <1>0, <2>1 DEF CreateKept, RefreshAwaited
  <2>3. PICK d \in new : d.kind = "createRefresh"
    BY <2>1, <2>2 DEF RefreshAwaited
  <2>4. d \in Requests' /\ d \in cmds' /\ d.gen = generation + 1
    BY <2>1 DEF Fresh, Requests, Of
  <2> QED BY <2>1, <2>2, <2>3, <2>4
          DEF CurrentCreateRefresh, Delivered, RefreshAwaited
<1> QED BY <1>2, <1>3, <1>4, <1>5, <1>6, EveryStepIsTraffic DEF Traffic

LEMMA RefreshAlwaysKnown == Spec => []RefreshIsKnown
<1>1. Init => RefreshIsKnown BY DEF Init, RefreshIsKnown, RefreshAwaited
<1> QED BY <1>1, RefreshIsKnownInductive, TypeCorrect, RequestsAlwaysKnown, PTL
        DEF Spec

\* While the create screen waits for the host and refuses every other key, the
\* reply it waits for is in flight and will be accepted: that of the create,
\* and that of the refresh unless another request has superseded it.
THEOREM AwaitedRunsAreAnswered == Spec => []RunIsAnswered
<1>1. RunIsKnown /\ RefreshIsKnown => RunIsAnswered
  <2>1. RunIsKnown => (loop = "running" /\ create.running =>
                         \E c \in InFlight({"run"}) : CurrentRun(c))
    BY DEF RunIsKnown, InFlight, Requests, Of, CurrentRun, Delivered
  <2>2. RefreshIsKnown => (loop = "running" /\ RefreshAwaited =>
           \E c \in InFlight({"createRefresh"}) : CurrentCreateRefresh(c))
    BY DEF RefreshIsKnown, InFlight, Requests, Of, CurrentCreateRefresh, Delivered
  <2> QED BY <2>1, <2>2 DEF RunIsAnswered
<1> QED BY <1>1, RequestsAlwaysKnown, RefreshAlwaysKnown, PTL
=============================================================================
