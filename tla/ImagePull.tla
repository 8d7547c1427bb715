----------------------------- MODULE ImagePull ------------------------------
(***************************************************************************)
(* Pulling an image: the screen, the feed of progress events, and the      *)
(* cancellation.  The feed's waiting command is re-issued after every      *)
(* event but the last, so it stays in cmds while its generation is current.*)
(***************************************************************************)
EXTENDS Images

OnlyPull == UNCHANGED <<loop, bookVars, linkVars, mode, inventoryVars, filter,
                        pending, stream, create, gone>>

OpenImagePull ==
    /\ InScreen("pull", ImageScreens)
    /\ \/ /\ client # None
          /\ screen' = "imagePull" /\ err' = None
          /\ OnlyPull /\ UNCHANGED <<requestVars, gallery, pull, cmds>>
       \/ client = None /\ Refuse

LeaveImagePull ==
    /\ InPull("esc") /\ ~pull.pulling
    /\ screen' = "images"
    /\ OnlyPull /\ UNCHANGED <<err, requestVars, gallery, pull, cmds>>

\* startImagePull with a reference.  Without a client it only displays an
\* error of the pull.
StartImagePull ==
    /\ InPull("accept") /\ ~pull.pulling /\ pull.generation < MaxPulls
    /\ client # None
    /\ LET g == pull.generation + 2 IN
       /\ pull' = [status |-> "running", pulling |-> TRUE, generation |-> g,
                   target |-> profile, cancel |-> g]
       /\ cmds' = WithoutPull(cmds) \cup {Cmd("pull", client, None, g)}
    /\ err' = None
    /\ OnlyPull /\ UNCHANGED <<screen, requestVars, gallery>>

CancelImagePull ==
    /\ InPull("esc") /\ pull.pulling /\ MayRequest
    /\ pull' = [StoppedPull EXCEPT !.status = "cancelled"]
    /\ RefreshImages(gallery, err, WithoutPull(cmds), requestCancel)
    /\ OnlyPull /\ UNCHANGED screen

\* The pull's own quit binding is tried before its text field.
QuitPull == InPull("quit") /\ QuitNow

-----------------------------------------------------------------------------
(* imagePullStreamEvent *)

CurrentFeed(c) ==
    /\ Delivered(c) /\ c.kind = "pull"
    /\ c.gen = pull.generation /\ c.connection = pull.target

\* Defect: no command waits for the event after an error.
PullEventUnfollowed(c, status) ==
    /\ CurrentFeed(c)
    /\ pull' = [pull EXCEPT !.status = status]
    /\ cmds' = cmds \ {c}
    /\ OnlyPull /\ UNCHANGED <<screen, err, requestVars, gallery>>

\* An observation.  Progress and success change nothing but the displayed
\* events, so only errors and cancellations are steps.
PullEvent(c, status) ==
    /\ CurrentFeed(c)
    /\ pull' = [pull EXCEPT !.status = status]
    /\ OnlyPull /\ UNCHANGED <<screen, err, requestVars, gallery, cmds>>

\* The last event, after an error.
PullFailed(c, status) ==
    /\ CurrentFeed(c)
    /\ pull' = [pull EXCEPT !.status = status, !.pulling = FALSE,
                            !.cancel = None]
    /\ cmds' = cmds \ {c}
    /\ OnlyPull /\ UNCHANGED <<screen, err, requestVars, gallery>>

\* The last event, without an error: the inventory is read again, unless an
\* event before it has reported a failure.
PullDone(c) ==
    /\ CurrentFeed(c)
    /\ LET ended(status) == [pull EXCEPT !.status = status, !.pulling = FALSE,
                                         !.cancel = None] IN
       \/ /\ pull.status \in {"failed", "cancelled"}
          /\ pull' = ended(pull.status)
          /\ cmds' = cmds \ {c}
          /\ UNCHANGED <<err, requestVars, gallery>>
       \/ /\ pull.status \notin {"failed", "cancelled"}
          /\ pull' = ended("refreshing")
          /\ RefreshImages(gallery, err, cmds \ {c}, requestCancel)
    /\ OnlyPull /\ UNCHANGED screen

\* An event of a superseded pull is dropped, and nobody waits for the next.
DropPullEvent(c) ==
    /\ Delivered(c) /\ c.kind = "pull" /\ ~CurrentFeed(c)
    /\ cmds' = cmds \ {c}
    /\ OnlyPull /\ UNCHANGED <<screen, err, requestVars, gallery, pull>>
=============================================================================
