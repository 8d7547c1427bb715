--------------------------- MODULE StreamPipeline ---------------------------
(***************************************************************************)
(* The inside of a feed that Streams and ImagePull have as one command:    *)
(* the host's side, the producer's goroutine with its loop in the adapter  *)
(* (StreamLogs, StreamStats, PullImage), the channel of capacity one, the  *)
(* command that waits on it, and the handler that shows an event and waits *)
(* again (internal/app/messages.go).  Leaving the view cancels the context *)
(* and starts another generation, in one handler.                          *)
(*                                                                         *)
(* An item is a log line, a sample or a progress text, numbered as sent.   *)
(***************************************************************************)
EXTENDS Naturals, Sequences

CONSTANT MaxItems   \* bound on what the host sends

ASSUME MaxItemsAssumption == MaxItems \in Nat

VARIABLES
    kind,           \* "logs", "stats" or "pull"
    source,         \* the host's side, or the bindings' goroutine that reads it
    made,           \* how many items it has sent
    outcome,        \* how it ended
    producer,       \* the point the producer has reached
    item,           \* the item it holds
    result,         \* what the adapter returned
    channel, closed,
    waiter,         \* the waiting command, or the event it brings
    cancelled,      \* the context
    current,        \* the view has not been left: its generation is current
    shown, ended    \* what the view shows

hostVars == <<source, made, outcome>>
producerVars == <<producer, item, result, channel, closed>>
viewVars == <<cancelled, current, shown, ended>>
pipeVars == <<kind, hostVars, producerVars, waiter, viewVars>>

Item(n) == [type |-> "item", item |-> n, result |-> "none"]
Done(r) == [type |-> "done", item |-> 0, result |-> r]
Waiting == [type |-> "waiting", item |-> 0, result |-> "none"]
Gone == [type |-> "gone", item |-> 0, result |-> "none"]

Results == {"ok", "error", "cancelled"}
Items == 1..(MaxItems + 1)
Events == {Item(n) : n \in Items} \cup {Done(r) : r \in Results}

PipeTypeOK ==
    /\ kind \in {"none", "logs", "stats", "pull"}
    /\ source \in {"open", "offering", "over"}
    /\ made \in 0..(MaxItems + 1) /\ outcome \in {"none", "ok", "error"}
    /\ producer \in {"start", "select", "emit", "verdict", "last", "closing", "over"}
    /\ item \in 0..(MaxItems + 1) /\ result \in Results \cup {"none"}
    /\ channel \in Seq(Events) /\ Len(channel) <= 1 /\ closed \in BOOLEAN
    /\ waiter \in Events \cup {Waiting, Gone}
    /\ cancelled \in BOOLEAN /\ current \in BOOLEAN
    /\ shown \in Seq(Items) /\ ended \in Results \cup {"none"}

PipeState(k, p, w, c) ==
    /\ kind = k /\ source = "open" /\ made = 0 /\ outcome = "none"
    /\ producer = p /\ item = 0 /\ result = "none"
    /\ channel = <<>> /\ closed = FALSE /\ waiter = w
    /\ cancelled = FALSE /\ current = c /\ shown = <<>> /\ ended = "none"

PipeInit == \E k \in {"logs", "stats", "pull"} : 
    PipeState(k, "start", Waiting, TRUE)
PipeOff == PipeState("none", "over", Gone, FALSE)

-----------------------------------------------------------------------------
(* The host, and the bindings (external): one item after the other, each   *)
(* handed over before the next.                                            *)

\* The adapter has made its request.
Connected == kind # "none" /\ producer # "start"

HostSends ==
    /\ Connected /\ source = "open" /\ made < MaxItems
    /\ source' = "offering" /\ made' = made + 1
    /\ UNCHANGED <<kind, outcome, producerVars, waiter, viewVars>>

HostEnds ==
    /\ Connected /\ source = "open"
    /\ source' = "over" /\ outcome' \in {"ok", "error"}
    /\ UNCHANGED <<kind, made, producerVars, waiter, viewVars>>

\* The operation context follows the caller's, and ends when the adapter
\* returns.  The statistics' channel is then closed, with or without an
\* error.
HostCutOff ==
    /\ Connected /\ source = "open" /\ (cancelled \/ result # "none")
    /\ source' = "over" /\ outcome' \in {"ok", "error"}
    /\ UNCHANGED <<kind, made, producerVars, waiter, viewVars>>

-----------------------------------------------------------------------------
(* The adapter: consumeLogStream, the loop of StreamStats, images.Pull     *)

\* PullImage alone looks at its context before the request.
Enter ==
    /\ producer = "start"
    /\ IF kind = "pull" /\ cancelled
       THEN producer' = "last" /\ result' = "cancelled"
       ELSE producer' = "select" /\ UNCHANGED result
    /\ UNCHANGED <<kind, hostVars, item, channel, closed, waiter, viewVars>>

AtSelect == producer = "select"

TakeItem ==
    /\ AtSelect /\ source = "offering"
    /\ source' = "open" /\ producer' = "emit" /\ item' = made
    /\ UNCHANGED <<kind, made, outcome, result, channel, closed, waiter,
                   viewVars>>

\* The adapter returns.  PullImage emits a closing event of its own first.
AdapterReturns(r) ==
    /\ result' = r
    /\ IF kind = "pull" THEN producer' = "verdict" /\ made' = made + 1
                        ELSE producer' = "last" /\ UNCHANGED made
    /\ UNCHANGED <<kind, source, outcome, item, channel, closed, waiter,
                   viewVars>>

\* PullImage looks at the operation context, which follows the caller's in
\* its own time; the error of a context that was cancelled is a cancellation.
TakeEnd ==
    /\ AtSelect /\ source = "over"
    /\ \/ outcome = "ok" /\ AdapterReturns("ok")
       \/ outcome = "error" /\ AdapterReturns("error")
       \/ cancelled /\ (kind = "pull" \/ outcome = "error")
             /\ AdapterReturns("cancelled")

\* Both loops also wait for the caller's context.
TakeCancel ==
    /\ AtSelect /\ cancelled /\ kind # "pull"
    /\ AdapterReturns("cancelled")

-----------------------------------------------------------------------------
(* startLogStreamCmd, startStatsStreamCmd, startImagePullCmd               *)

\* Defect: a producer never waits for room.
RoomAlways == TRUE

HasRoom == Len(channel) < 1

\* Defect: a producer waits for room whether or not anybody reads.
OfferOnly(event, next) ==
    /\ HasRoom /\ channel' = Append(channel, event)
    /\ producer' = next
    /\ UNCHANGED <<kind, hostVars, item, result, closed, waiter, viewVars>>

\* select: the channel takes the event, or the context is cancelled and the
\* event is dropped.
Offer(event, next) ==
    /\ \/ HasRoom /\ channel' = Append(channel, event)
       \/ cancelled /\ UNCHANGED channel
    /\ producer' = next
    /\ UNCHANGED <<kind, hostVars, item, result, closed, waiter, viewVars>>

Emit == producer = "emit" /\ Offer(Item(item), "select")

EmitVerdict ==
    /\ producer = "verdict"
    /\ Offer(Item(made), "last")

\* Defect: the last event is dropped when there is no room for it.
SendLastIfRoom ==
    /\ producer = "last"
    /\ channel' = IF HasRoom THEN Append(channel, Done(result)) ELSE channel
    /\ producer' = "closing"
    /\ UNCHANGED <<kind, hostVars, item, result, closed, waiter, viewVars>>

\* The last event.  A producer whose context is cancelled tries once more,
\* with the context's error, and does not wait for room.
SendLast ==
    /\ producer = "last"
    /\ \/ HasRoom /\ channel' = Append(channel, Done(result))
       \/ /\ cancelled
          /\ channel' = IF HasRoom THEN Append(channel, Done("cancelled"))
                                   ELSE channel
    /\ producer' = "closing"
    /\ UNCHANGED <<kind, hostVars, item, result, closed, waiter, viewVars>>

Close ==
    /\ producer = "closing"
    /\ closed' = TRUE /\ producer' = "over"
    /\ UNCHANGED <<kind, hostVars, item, result, channel, waiter, viewVars>>

-----------------------------------------------------------------------------
(* waitLogStream, waitStatsStream, waitImagePullStream                     *)

\* A closed channel reads as an end without an error.
Receive ==
    /\ waiter = Waiting
    /\ \/ /\ channel # <<>>
          /\ waiter' = Head(channel) /\ channel' = Tail(channel)
       \/ /\ channel = <<>> /\ closed
          /\ waiter' = Done("ok") /\ UNCHANGED channel
    /\ UNCHANGED <<kind, hostVars, producer, item, result, closed, viewVars>>

-----------------------------------------------------------------------------
(* handleLogEvent, handleStatsEvent, handleImagePullEvent                  *)

CurrentEvent == waiter \in Events /\ current

\* Defect: an item is shown and the next is not waited for.
HandleOnce ==
    /\ CurrentEvent
    /\ IF waiter.type = "item"
       THEN shown' = Append(shown, waiter.item) /\ UNCHANGED ended
       ELSE ended' = waiter.result /\ UNCHANGED shown
    /\ waiter' = Gone
    /\ UNCHANGED <<kind, hostVars, producerVars, cancelled, current>>

Handle ==
    /\ CurrentEvent
    /\ IF waiter.type = "item"
       THEN /\ shown' = Append(shown, waiter.item)
            /\ waiter' = Waiting /\ UNCHANGED ended
       ELSE /\ ended' = waiter.result
            /\ waiter' = Gone /\ UNCHANGED shown
    /\ UNCHANGED <<kind, hostVars, producerVars, cancelled, current>>

Drop ==
    /\ waiter \in Events /\ ~current
    /\ waiter' = Gone
    /\ UNCHANGED <<kind, hostVars, producerVars, viewVars>>

\* stopStream and stopImagePull.  The context of a feed that has ended is
\* not cancelled any more.
Leave ==
    /\ current
    /\ current' = FALSE
    /\ cancelled' = (ended = "none")
    /\ UNCHANGED <<kind, hostVars, producerVars, waiter, shown, ended>>

-----------------------------------------------------------------------------
Producer == Enter \/ TakeItem \/ TakeEnd \/ TakeCancel \/ Emit \/ EmitVerdict
              \/ SendLast \/ Close

PipeNext == HostSends \/ HostEnds \/ HostCutOff \/ Producer \/ Receive
              \/ Handle \/ Drop \/ Leave

\* Goroutines are scheduled, messages are handled, and the bindings give up
\* when their context ends.  Nothing is assumed of the host.
PipeFairness ==
    /\ WF_pipeVars(HostCutOff) /\ WF_pipeVars(Producer)
    /\ WF_pipeVars(Receive) /\ WF_pipeVars(Handle \/ Drop)

-----------------------------------------------------------------------------
(* Properties *)

\* A pull ends with the closing event of the adapter.
ViewOutcome == IF kind = "pull" /\ producer \notin {"last", "closing", "over"}
               THEN "none" ELSE outcome

View == INSTANCE Feed WITH outcome <- ViewOutcome, open <- current

\* A view shows what the host sends and its outcome, in spite of dropped
\* events, of the closed channel that reads as success, and of cancellations:
\* none of these is ever taken for the current feed's.
ShowsTheFeed == View!Spec

\* A feed that is left ends: its producer returns and closes the channel,
\* whether or not the host goes on sending, and whether or not anybody reads.
LeftFeedEnds == cancelled ~> producer = "over"

\* The goroutine that reads the host for a cancelled log stream ends
\* (StreamLogs).  It does not if a cancellation comes while it hands over a
\* line: nobody takes the line any more.
ReaderEnds == (kind = "logs" /\ cancelled) ~> source = "over"

\* An end of the feed reaches the view, unless it is left.
EndIsShown == (source = "over" /\ current) ~> (ended # "none" \/ ~current)
=============================================================================
