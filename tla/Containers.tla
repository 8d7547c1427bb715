----------------------------- MODULE Containers -----------------------------
(***************************************************************************)
(* The container inventory and its detail screen: listing, inspecting,     *)
(* filtering, the lifecycle operations and the dialog that guards them.    *)
(***************************************************************************)
EXTENDS AppState

\* Defect: the client is not tested.
RefreshUnconnected(l, e, cs, held) ==
    /\ err' = e /\ loading' = TRUE
    /\ BeginRequest(cs, held, {Request("list", None)})

\* refresh, after a caller that has set loading to l and err to e.
Refresh(l, e, cs, held) ==
    \/ /\ client = None
       /\ err' = "other" /\ loading' = l
       /\ NoRequest(cs, held)
    \/ /\ client # None
       /\ err' = e /\ loading' = TRUE
       /\ BeginRequest(cs, held, {Request("list", None)})

\* runOperation.  Its callers guard nothing: it refuses without a target.
RunOperation(action, target) ==
    \/ /\ None \in {target, client}
       /\ err' = "other"
       /\ UNCHANGED <<loading, requestVars, cmds>>
    \/ /\ None \notin {target, client}
       /\ err' = None /\ loading' = TRUE
       /\ BeginRequest(cmds, requestCancel, {Request(action, target)})

-----------------------------------------------------------------------------
(* Keys of the inventory and detail screens *)

ContainerScreens == {"inventory", "details"}

RefreshKey ==
    /\ InScreen("refresh", ContainerScreens \cup {"imageDetails"})
    /\ ~(screen = "imageDetails" /\ gallery.details # None /\ client # None)
    /\ ~(screen = "details" /\ details # None /\ client # None)
    /\ MayRequest
    /\ Refresh(loading, err, cmds, requestCancel)
    /\ UNCHANGED <<loop, bookVars, linkVars, screen, mode, containers, selected,
                   details, detailLoading, filter, featureVars, gone>>

RefreshDetails ==
    /\ InScreen("refresh", {"details"})
    /\ details # None /\ client # None /\ MayRequest
    /\ detailLoading' = TRUE
    /\ BeginRequest(cmds, requestCancel, {Request("inspect", details)})
    /\ UNCHANGED <<loop, bookVars, linkVars, viewVars, containers, selected,
                   details, loading, filter, featureVars, gone>>

MoveSelection ==
    /\ InScreen("move", ContainerScreens)
    /\ selected' \in Selections(visibleContainers)
    /\ UNCHANGED <<loop, bookVars, linkVars, viewVars, requestVars, containers,
                   details, loading, detailLoading, filter, featureVars, cmds,
                   gone>>

OpenDetails ==
    /\ InScreen("open", {"inventory"}) /\ MayRequest
    /\ None \notin {selectedID, client}
    /\ screen' = "details" /\ err' = None
    /\ details' = None /\ detailLoading' = TRUE
    /\ BeginRequest(cmds, requestCancel, {Request("inspect", selectedID)})
    /\ UNCHANGED <<loop, bookVars, linkVars, mode, containers, selected,
                   loading, filter, featureVars, gone>>

OpenDetailsRefused ==
    /\ InScreen("open", {"inventory"})
    /\ None \in {selectedID, client}
    /\ Refuse

CloseDetails ==
    /\ InScreen("back", {"details"})
    /\ screen' = "inventory" /\ details' = None
    /\ UNCHANGED <<loop, bookVars, linkVars, mode, err, requestVars, containers,
                   selected, loading, detailLoading, filter, featureVars, cmds,
                   gone>>

\* Start needs no confirmation.
StartKey ==
    /\ InScreen("start", ContainerScreens) /\ MayRequest
    /\ RunOperation("start", selectedID)
    /\ UNCHANGED <<loop, bookVars, linkVars, screen, mode, containers, selected,
                   details, detailLoading, filter, featureVars, gone>>

\* requestConfirmation: the dialog captures the target, the connection
\* identity and the generation.
Confirming(action, target) ==
    /\ pending' = [action |-> action, target |-> target,
                   generation |-> generation, connection |-> profile]
    /\ mode' = "confirm" /\ err' = None

\* Defect: an empty selection is not refused.
RequestAnyConfirmation(action) ==
    /\ InScreen(action, ContainerScreens)
    /\ Confirming(action, selectedID)
    /\ UNCHANGED <<loop, bookVars, linkVars, screen, requestVars, inventoryVars,
                   filter, gallery, stream, pull, create, cmds, gone>>

RequestConfirmation(action) ==
    /\ InScreen(action, ContainerScreens)
    /\ \/ /\ selectedID # None
          /\ Confirming(action, selectedID)
          /\ UNCHANGED <<loop, bookVars, linkVars, screen, requestVars,
                         inventoryVars, filter, gallery, stream, pull, create,
                         cmds, gone>>
       \/ selectedID = None /\ Refuse

-----------------------------------------------------------------------------
(* InventoryLoadedMsg and DetailsLoadedMsg *)

InventoryReply(c) ==
    /\ Answers(c, {"list"})
    /\ loading' = FALSE
    /\ NoRequest(cmds \ {c}, None)
    /\ UNCHANGED <<loop, bookVars, linkVars, screen, mode, details,
                   detailLoading, filter, featureVars, gone>>

InventoryLoaded(c) ==
    /\ InventoryReply(c) /\ c.host # None
    /\ containers' \in SUBSET (ContainersOf(c.host) \ c.gone)
    /\ selected' \in Selections(VisibleIn(containers', filter.matching))
    /\ err' = None

InventoryFailed(c) ==
    /\ InventoryReply(c)
    /\ err' = "other"
    /\ UNCHANGED <<containers, selected>>

DetailsReply(c) ==
    /\ Answers(c, {"inspect"})
    /\ detailLoading' = FALSE
    /\ NoRequest(cmds \ {c}, None)
    /\ UNCHANGED <<loop, bookVars, linkVars, screen, mode, containers, selected,
                   loading, filter, featureVars, gone>>

\* Container ids are unique: only the host that has it describes one.
DetailsLoaded(c) ==
    /\ DetailsReply(c)
    /\ c.target \in ContainersOf(c.host) \ c.gone
    /\ details' = c.target /\ err' = None

DetailsFailed(c) ==
    /\ DetailsReply(c)
    /\ err' = "other"
    /\ UNCHANGED details

-----------------------------------------------------------------------------
(* OperationFinishedMsg of a lifecycle operation *)

Finished(c) ==
    /\ Answers(c, Lifecycle)
    /\ UNCHANGED <<loop, bookVars, linkVars, mode, containers, selected,
                   detailLoading, filter, featureVars>>

\* The inventory is read again, and the details if they are on screen.
OperationSucceeded(c) ==
    /\ Finished(c)
    /\ c.target \in ContainersOf(c.host)
    /\ IF c.kind = "remove"
       THEN /\ screen' = "inventory" /\ details' = None
            /\ gone' = gone \cup {c.target}
       ELSE UNCHANGED <<screen, details, gone>>
    /\ err' = None /\ loading' = TRUE
    /\ LET read(kind, target) ==
             [Request(kind, target) EXCEPT !.gone = gone']
       IN  BeginRequest(cmds \ {c}, None,
             {read("list", None)} \cup
             (IF screen' = "details" THEN {read("inspect", c.target)} ELSE {}))

OperationFailed(c) ==
    /\ Finished(c)
    /\ err' = "other" /\ loading' = FALSE
    /\ NoRequest(cmds \ {c}, None)
    /\ UNCHANGED <<screen, details, gone>>

\* The host no longer has the target (isStaleTarget): explain and refresh.
OperationStale(c) ==
    /\ Finished(c)
    /\ Refresh(FALSE, "stale", cmds \ {c}, None)
    /\ UNCHANGED <<screen, details, gone>>

-----------------------------------------------------------------------------
(* The filter.  While it is edited it takes every key; esc leaves the      *)
(* query as typed, enter selects the first match.                          *)

InFilter(key) ==
    Pressed(key) /\ mode \in {"normal", "profiles"} /\ filter.editing

Filtering(editing2, matching, choice) ==
    /\ filter' = [editing |-> editing2, matching |-> matching]
    /\ selected' \in choice
    /\ UNCHANGED <<loop, bookVars, linkVars, viewVars, requestVars, containers,
                   details, loading, detailLoading, featureVars, cmds, gone>>

OpenFilter ==
    /\ InScreen("filter", {"inventory", "details", "imageDetails"})
    /\ Filtering(TRUE, filter.matching, {selected})

TypeFilter ==
    /\ InFilter("filter")
    /\ \E matching \in SUBSET ContainerIds :
          Filtering(TRUE, matching, Selections(VisibleIn(containers, matching)))

AcceptFilter ==
    /\ InFilter("accept")
    /\ Filtering(FALSE, filter.matching, Selections(visibleContainers))

LeaveFilter ==
    /\ InFilter("back")
    /\ Filtering(FALSE, filter.matching, {selected})
=============================================================================
