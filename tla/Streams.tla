------------------------------- MODULE Streams -------------------------------
(***************************************************************************)
(* The log and statistics screens: opening a stream, following its events  *)
(* and leaving.  As for a pull, the waiting command stays in cmds after an *)
(* event that is not the last.                                             *)
(***************************************************************************)
EXTENDS AppState

OnlyStream == UNCHANGED <<loop, bookVars, linkVars, mode, requestVars,
                          inventoryVars, filter, gallery, pending, pull,
                          create, gone>>

\* openLogs and openStats.
OpenStream(kind) ==
    /\ InScreen(kind, {"inventory", "details"})
    /\ \/ /\ None \notin {selectedID, client} /\ stream.generation < MaxStreams
          /\ LET g == stream.generation + 2 IN
             /\ stream' = [generation |-> g, cancel |-> g, back |-> screen,
                           target |-> selectedID, host |-> client,
                           stopped |-> FALSE]
             /\ cmds' = WithoutStream(cmds)
                          \cup {Cmd(kind, client, selectedID, g)}
          /\ screen' = kind
          /\ UNCHANGED err /\ OnlyStream
       \/ None \in {selectedID, client} /\ Refuse

CloseStream ==
    /\ InScreen("back", StreamKinds)
    /\ stream' = [StoppedStream EXCEPT !.stopped = FALSE]
    /\ cmds' = WithoutStream(cmds)
    /\ screen' = stream.back
    /\ UNCHANGED err /\ OnlyStream

-----------------------------------------------------------------------------
(* logStreamEvent and statsStreamEvent *)

\* Defect: an event of a stream that was left counts for the next one.
AnyStream(c) ==
    /\ Delivered(c) /\ c.kind \in StreamKinds
    /\ OnlyStream /\ UNCHANGED screen

CurrentStream(c) ==
    /\ Delivered(c) /\ c.kind \in StreamKinds /\ c.gen = stream.generation
    /\ OnlyStream /\ UNCHANGED screen

\* A sample replaces the displayed error; a line changes only the log.
StatsSample(c) ==
    /\ CurrentStream(c) /\ c.kind = "stats"
    /\ err' = None
    /\ UNCHANGED <<stream, cmds>>

\* The last event.  A cancellation, or an end without an error, displays none.
StreamEnded(c, e) ==
    /\ CurrentStream(c)
    /\ stream' = [stream EXCEPT !.stopped = TRUE, !.cancel = None]
    /\ err' = e
    /\ cmds' = cmds \ {c}

DropStreamEvent(c) ==
    /\ Delivered(c) /\ c.kind \in StreamKinds /\ c.gen # stream.generation
    /\ cmds' = cmds \ {c}
    /\ OnlyStream /\ UNCHANGED <<screen, err, stream>>
=============================================================================
