---------------------------- MODULE AdapterProofs ----------------------------
(***************************************************************************)
(* For every call, and for feeds of any length: the adapter keeps its      *)
(* contract, tells every id that create has returned, and a view shows     *)
(* what the host sends.                                                    *)
(***************************************************************************)
EXTENDS Adapter, TLAPS

-----------------------------------------------------------------------------
(* Calls *)

\* What was sent, and what the host has made of it.
WireMatches ==
    /\ wire = "none" => call.asked = 0 /\ effects = 0
    /\ wire \in {"sent", "refused"} => call.asked = effects + 1
    /\ wire = "done" => call.asked = effects /\ effects > 0

\* Only create returns an id, once it is done; then start may be asked.
IdIsCreated ==
    /\ call.id => call.kind = "create" /\ effects > 0
    /\ call.asked = 2 => call.id

\* The call goes on only after an answer, and asks for its own stages only.
CallProceeds ==
    /\ call.at \in {"entered", "checked"} => wire = "none" /\ ~call.id
    /\ At("ready") => IF call.id THEN wire = "done" /\ call.asked = 1
                                 ELSE wire = "none"
    /\ At("waiting") => /\ wire # "none"
                        /\ call.id <=> call.asked = 2
    /\ At("between") => wire = "done" /\ call.id /\ call.asked = 1
    /\ ~call.valid => call.at \in {"entered", "returned"} /\ wire = "none"
    /\ call.report # "none" => At("returned")
    /\ call.kind = "none" => At("returned")

CallInv == CallTypeOK /\ WireMatches /\ IdIsCreated /\ CallProceeds /\ IdIsTold

\* A call at its entry, or none.
NewCall(k, v, c, at) ==
    [kind |-> k, valid |-> v, cancelled |-> c, opCancelled |-> FALSE, at |-> at,
     asked |-> 0, id |-> FALSE, report |-> "none"]

LEMMA CallStarts ==
    ASSUME CallInit \/ CallOff
    PROVE  /\ wire = "none" /\ effects = 0
           /\ \E k \in Kinds \cup {"none"}, v, c \in BOOLEAN,
                at \in {"entered", "returned"} :
                /\ k = "none" => at = "returned"
                /\ call = NewCall(k, v, c, at)
<1> USE DEF NewCall, NoCall
<1>1. CASE CallOff BY <1>1 DEF CallOff
<1>2. CASE CallInit
  <2> PICK k \in Kinds, v, c \in BOOLEAN :
        call = [NoCall EXCEPT !.kind = k, !.valid = v, !.cancelled = c,
                              !.at = "entered"]
    BY <1>2 DEF CallInit
  <2>1. k # "none" BY DEF Kinds, Reads, Lifecycle
  <2>2. call = NewCall(k, v, c, "entered") OBVIOUS
  <2> QED BY <1>2, <2>1, <2>2 DEF CallInit
<1> QED BY <1>1, <1>2

LEMMA CallInitInv == ASSUME CallInit \/ CallOff PROVE CallInv
<1> PICK k \in Kinds \cup {"none"}, v, c \in BOOLEAN,
         at \in {"entered", "returned"} :
           (k = "none" => at = "returned") /\ call = NewCall(k, v, c, at)
  BY CallStarts
<1> USE CallStarts DEF NewCall
<1>1. CallTypeOK BY DEF CallTypeOK, Points, Reports
<1> QED
  BY <1>1
  DEF CallInv, WireMatches, IdIsCreated, CallProceeds, IdIsTold, At

LEMMA CallStep == ASSUME CallInv, CallNext PROVE CallInv'
<1> USE DEF CallInv, CallTypeOK, WireMatches, IdIsCreated, CallProceeds,
            IdIsTold, At, Goes, Returns, Points, Reports, Created, Failure
<1>1. CASE Cancel \/ AfterFunc BY <1>1 DEF Cancel, AfterFunc
<1>2. CASE Validate \/ CheckContext
  <2>1. CASE call' = [call EXCEPT !.at = "returned", !.report = "unsent"]
    BY <1>2, <2>1 DEF Validate, CheckContext
  <2>2. CASE call' \in {[call EXCEPT !.at = "checked"], [call EXCEPT !.at = "ready"]}
    BY <1>2, <2>2 DEF Validate, CheckContext
  <2> QED BY <1>2, <2>1, <2>2 DEF Validate, CheckContext
<1>3. CASE Send
  <2>1. call.asked \in {0, 1} BY <1>3 DEF Send
  <2>2. call.asked + 1 \in 1..2 BY <2>1
  <2> DEFINE n == call.asked + 1
  <2>3. n \in 0..2 /\ call' = [call EXCEPT !.at = "waiting", !.asked = n]
    BY <1>3, <2>2 DEF Send
  <2> HIDE DEF n
  <2>4. CallTypeOK' BY <1>3, <2>3 DEF Send
  <2> QED BY <1>3, <2>1, <2>4 DEF Send
<1>4. CASE SendRefused \/ RequestFails \/ GiveUp
  BY <1>4 DEF SendRefused, RequestFails, GiveUp
<1>5. CASE Answered BY <1>5 DEF Answered
<1>6. CASE CreateAnswered
  <2>1. CASE call' = [call EXCEPT !.at = "between", !.id = TRUE]
    BY <1>6, <2>1 DEF CreateAnswered
  <2>2. CASE Returns("failed")
    <3>1. ~call.id /\ UNCHANGED <<wire, effects>> BY <1>6 DEF CreateAnswered
    <3> QED BY <2>2, <3>1
  <2> QED BY <1>6, <2>1, <2>2 DEF CreateAnswered
<1>7. CASE StartOrKeep
  <2>1. CASE call.opCancelled BY <1>7, <2>1 DEF StartOrKeep
  <2>2. CASE ~call.opCancelled BY <1>7, <2>2 DEF StartOrKeep
  <2> QED BY <2>1, <2>2
<1>8. CASE HostPerforms \/ HostRefuses BY <1>8 DEF HostPerforms, HostRefuses
<1> QED BY <1>1, <1>2, <1>3, <1>4, <1>5, <1>6, <1>7, <1>8 DEF CallNext, Client

contractVars == <<Stages, effects, call.asked, call.report>>

LEMMA CallRefines ==
    ASSUME CallInv, CallNext
    PROVE  Contract!Next \/ UNCHANGED contractVars
<1> USE DEF CallInv, CallTypeOK, WireMatches, IdIsCreated, CallProceeds,
            At, Goes, Returns, Created, Failure, contractVars, Stages
<1>1. CASE Cancel \/ AfterFunc BY <1>1 DEF Cancel, AfterFunc
<1>2. CASE Validate \/ CheckContext
  BY <1>2 DEF Validate, CheckContext, Contract!Next, Contract!Tell
<1>3. CASE Send BY <1>3 DEF Send, Contract!Next, Contract!Ask
<1>4. CASE SendRefused \/ RequestFails \/ GiveUp
  BY <1>4 DEF SendRefused, RequestFails, GiveUp, Contract!Next, Contract!Tell
<1>5. CASE Answered
  <2>1. call.asked = Stages /\ effects = Stages /\ Stages > 0
    BY <1>5 DEF Answered
  <2>2. CASE Returns("failed")
    BY <1>5, <2>2 DEF Answered, Contract!Next, Contract!Tell
  <2>3. CASE Returns("done")
    BY <1>5, <2>1, <2>3 DEF Answered, Contract!Next, Contract!Tell
  <2> QED BY <1>5, <2>2, <2>3 DEF Answered
<1>6. CASE CreateAnswered
  BY <1>6 DEF CreateAnswered, Contract!Next, Contract!Tell
<1>7. CASE StartOrKeep
  <2>1. CASE call.opCancelled
    BY <1>7, <2>1 DEF StartOrKeep, Contract!Next, Contract!Tell
  <2>2. CASE ~call.opCancelled BY <1>7, <2>2 DEF StartOrKeep
  <2> QED BY <2>1, <2>2
<1>8. CASE HostPerforms BY <1>8 DEF HostPerforms, Contract!Next, Contract!Perform
<1>9. CASE HostRefuses BY <1>9 DEF HostRefuses
<1> QED BY <1>1, <1>2, <1>3, <1>4, <1>5, <1>6, <1>7, <1>8, <1>9
        DEF CallNext, Client

\* While a feed runs there is no call to step.
LEMMA CallHolds == Spec => []CallInv
<1>1. Init => CallInv BY CallInitInv DEF Init
<1>2. CallInv /\ [Next]_vars => CallInv'
  <2>1. ASSUME CallInv, UNCHANGED callVars PROVE CallInv'
    BY <2>1 DEF callVars, CallInv, CallTypeOK, WireMatches, IdIsCreated,
                CallProceeds, IdIsTold, At
  <2> QED BY <2>1, CallStep DEF Next, vars
<1> QED BY <1>1, <1>2, PTL DEF Spec

\* Whenever a call is cancelled, and whatever the host and the network do, an
\* id that create has returned is told (RunContainer).
THEOREM IdIsToldHolds == Spec => []IdIsTold
BY CallHolds, PTL DEF CallInv

\* Every call asks the host for each of its stages at most once, in order,
\* and what it reports is what the host has done (bindingsClient).
THEOREM KeepsContractHolds == Spec => KeepsContract
<1>1. Init => Contract!Init
  <2> SUFFICES ASSUME CallInit \/ CallOff PROVE Contract!Init
    BY DEF Init
  <2> QED BY CallStarts DEF NewCall, Contract!Init, Stages
<1>2. CallInv /\ [Next]_vars => [Contract!Next]_contractVars
  <2>1. ASSUME UNCHANGED callVars PROVE UNCHANGED contractVars
    BY <2>1 DEF callVars, contractVars, Stages
  <2> QED BY <2>1, CallRefines DEF Next, vars
<1> QED BY <1>1, <1>2, CallHolds, PTL
        DEF Spec, KeepsContract, Contract!Spec, contractVars

-----------------------------------------------------------------------------
(* Feeds *)

Ending == {"verdict", "last", "closing", "over"}
Offered == channel # <<>>
OfferedType(t) == Offered /\ Head(channel).type = t

\* How the points that the host, the producer and the view have reached fit.
PipeControl ==
    /\ current => ~cancelled /\ kind # "none"
    /\ kind = "none" => producer = "over"
    /\ outcome = "none" <=> source # "over"
    /\ source = "offering" => made >= 1
    /\ producer = "start" => source = "open"
    /\ producer \in {"start", "select", "emit"} => made <= MaxItems
    /\ producer = "emit" => item >= 1
    /\ producer = "verdict" => kind = "pull" /\ source = "over" /\ made >= 1
    /\ producer \in {"verdict", "last"} => result # "none"
    /\ closed => producer = "over"

\* 1 if b holds: an item is at that place.
One(b) == IF b THEN 1 ELSE 0

Brought == One(waiter.type = "item")
Queued == One(OfferedType("item"))
Held == One(producer \in {"emit", "verdict"})
Ahead == One(source = "offering")

\* Every item that was sent and is not shown is in one place of the pipeline,
\* and they lie there in order.
InOrder ==
    /\ Len(shown) + Brought + Queued + Held + Ahead = made
    /\ waiter.type = "item" => waiter.item = Len(shown) + 1
    /\ OfferedType("item") => Head(channel).item = Len(shown) + Brought + 1
    /\ producer = "emit" => item = Len(shown) + Brought + Queued + 1

\* The last event carries the outcome and follows every item.
EndsInOrder ==
    /\ waiter.type # "gone"
    /\ producer \in Ending => source = "over" /\ result = outcome
    /\ producer \in {"closing", "over"} => waiter.type = "done" \/ OfferedType("done")
    /\ waiter.type = "done" => /\ waiter.result = outcome /\ ~Offered
                              /\ producer \in {"closing", "over"}
    /\ OfferedType("done") => /\ Head(channel).result = outcome
                             /\ producer \in {"closing", "over"}

FeedInv == current => IF ended = "none" THEN InOrder /\ EndsInOrder
                                        ELSE waiter = Gone

PipeInv == PipeTypeOK /\ PipeControl /\ FeedInv

\* An event is an item or an end.
LEMMA EventTypes ==
    /\ \A n \in Items : Item(n) \in Events /\ Item(n).type = "item" /\ Item(n).item = n
    /\ \A q \in Results : Done(q) \in Events /\ Done(q).type = "done" /\ Done(q).result = q
    /\ \A e \in Events : \/ e.type = "item" /\ e.item \in Items
                         \/ e.type = "done" /\ e.result \in Results
    /\ Waiting.type = "waiting" /\ Gone.type = "gone"
<1>1. \A n : Item(n).type = "item" /\ Item(n).item = n BY DEF Item
<1>2. \A q : Done(q).type = "done" /\ Done(q).result = q BY DEF Done
<1>3. Waiting.type = "waiting" /\ Gone.type = "gone" BY DEF Waiting, Gone
<1> QED BY <1>1, <1>2, <1>3 DEF Events

LEMMA AppendOne ==
    ASSUME NEW e \in Events, channel \in Seq(Events), HasRoom,
           channel' = Append(channel, e)
    PROVE  /\ channel = <<>> /\ channel' \in Seq(Events) /\ Len(channel') = 1
           /\ channel' # <<>> /\ Head(channel') = e
BY DEF HasRoom

LEMMA TakeOne ==
    ASSUME channel \in Seq(Events), Len(channel) <= 1, channel # <<>>,
           channel' = Tail(channel)
    PROVE  channel' = <<>> /\ channel' \in Seq(Events) /\ Head(channel) \in Events
OBVIOUS

LEMMA PipeInitInv == ASSUME PipeInit \/ PipeOff PROVE PipeInv
<1>1. PICK k \in {"none", "logs", "stats", "pull"}, p \in {"start", "over"},
           w \in {Waiting, Gone}, c \in BOOLEAN :
        /\ PipeState(k, p, w, c)
        /\ IF k = "none" THEN p = "over" /\ w = Gone /\ ~c
                         ELSE p = "start" /\ w = Waiting /\ c
  BY DEF PipeInit, PipeOff
<1>2. channel = <<>> /\ shown = <<>> BY <1>1 DEF PipeState
<1>3. /\ Len(channel) = 0 /\ channel \in Seq(Events)
      /\ Len(shown) = 0 /\ shown \in Seq(Items)
  BY <1>2
<1>4. 0 \in 0..(MaxItems + 1) BY MaxItemsAssumption
<1>5. PipeTypeOK
  <2>1. cancelled \in BOOLEAN /\ current \in BOOLEAN /\ closed \in BOOLEAN
    BY <1>1 DEF PipeState
  <2> QED BY <1>1, <1>3, <1>4, <2>1 DEF PipeState, PipeTypeOK
<1>6. PipeControl BY <1>1, MaxItemsAssumption DEF PipeState, PipeControl
<1>7. FeedInv
  BY <1>1, <1>2, <1>3, EventTypes
  DEF PipeState, FeedInv, InOrder, EndsInOrder, Ending, Brought, Queued, Held,
      Ahead, One, OfferedType, Offered
<1> QED BY <1>5, <1>6, <1>7 DEF PipeInv

\* Each kind of step keeps the state well-formed and the control consistent.
LEMMA HostControls ==
    ASSUME PipeInv, HostSends \/ HostEnds \/ HostCutOff
    PROVE  PipeTypeOK' /\ PipeControl'
<1> USE MaxItemsAssumption
    DEF PipeInv, PipeTypeOK, PipeControl, Connected, producerVars, viewVars
<1>1. CASE HostSends
  <2>1. made + 1 \in 1..MaxItems BY <1>1 DEF HostSends
  <2> QED BY <1>1, <2>1 DEF HostSends
<1>2. CASE HostEnds BY <1>2 DEF HostEnds
<1>3. CASE HostCutOff BY <1>3 DEF HostCutOff
<1> QED BY <1>1, <1>2, <1>3

LEMMA AdapterControls ==
    ASSUME PipeInv, Enter \/ TakeItem \/ TakeEnd \/ TakeCancel
    PROVE  PipeTypeOK' /\ PipeControl'
<1> USE MaxItemsAssumption
    DEF PipeInv, PipeTypeOK, PipeControl, AtSelect, Results, hostVars, viewVars
<1>1. CASE Enter BY <1>1 DEF Enter
<1>2. CASE TakeItem BY <1>2 DEF TakeItem
<1>3. ASSUME AtSelect, NEW q \in Results, AdapterReturns(q),
             kind = "pull" => source = "over"
      PROVE  PipeTypeOK' /\ PipeControl'
  <2>1. made + 1 \in 1..(MaxItems + 1) BY <1>3
  <2> QED BY <1>3, <2>1 DEF AdapterReturns
<1> QED BY <1>1, <1>2, <1>3 DEF TakeEnd, TakeCancel

\* What an offer does: the event is queued, or dropped after a cancellation.
Offers(e) ==
    \/ /\ channel = <<>> /\ channel' \in Seq(Events) /\ Len(channel') = 1
       /\ channel' # <<>> /\ Head(channel') = e
    \/ cancelled /\ UNCHANGED channel

LEMMA CommandOffers ==
    ASSUME PipeInv, Emit \/ EmitVerdict \/ SendLast
    PROVE  \/ producer = "emit" /\ Offers(Item(item)) /\ producer' = "select"
           \/ producer = "verdict" /\ Offers(Item(made)) /\ producer' = "last"
           \/ /\ producer = "last" /\ producer' = "closing"
              /\ Offers(Done(result)) \/ (cancelled /\ Offers(Done("cancelled")))
<1> USE MaxItemsAssumption, EventTypes, AppendOne
    DEF PipeInv, PipeTypeOK, PipeControl, Items, Offers, Offer, Results
<1>1. CASE Emit BY <1>1 DEF Emit
<1>2. CASE EmitVerdict BY <1>2 DEF EmitVerdict
<1>3. CASE SendLast
  <2>1. Done(result) \in Events /\ Done("cancelled") \in Events
    BY <1>3 DEF SendLast
  <2> QED BY <1>3, <2>1 DEF SendLast
<1> QED BY <1>1, <1>2, <1>3

LEMMA CommandControls ==
    ASSUME PipeInv, Emit \/ EmitVerdict \/ SendLast \/ Close
    PROVE  PipeTypeOK' /\ PipeControl'
<1> USE MaxItemsAssumption DEF PipeInv, PipeTypeOK, PipeControl, hostVars, viewVars
<1>1. CASE Emit \/ EmitVerdict \/ SendLast
  BY <1>1, CommandOffers DEF Offers, Offer, Emit, EmitVerdict, SendLast
<1>2. CASE Close BY <1>2 DEF Close
<1> QED BY <1>1, <1>2

LEMMA ViewControls ==
    ASSUME PipeInv, Receive \/ Handle \/ Drop \/ Leave
    PROVE  PipeTypeOK' /\ PipeControl'
<1> USE MaxItemsAssumption, EventTypes
    DEF PipeInv, PipeTypeOK, PipeControl, hostVars, producerVars, viewVars
<1>1. CASE Receive
  <2>1. CASE channel # <<>>
    BY <1>1, <2>1, TakeOne DEF Receive
  <2>2. CASE channel = <<>>
    BY <1>1, <2>2 DEF Receive, Results
  <2> QED BY <2>1, <2>2
<1>2. CASE Handle
  <2>1. CASE waiter.type = "item"
    <3>1. waiter.item \in Items BY <1>2, <2>1 DEF Handle, CurrentEvent
    <3>2. Append(shown, waiter.item) \in Seq(Items) BY <3>1
    <3> QED BY <1>2, <2>1, <3>2 DEF Handle
  <2>2. CASE waiter.type # "item"
    BY <1>2, <2>2 DEF Handle, CurrentEvent
  <2> QED BY <2>1, <2>2
<1>3. CASE Drop BY <1>3 DEF Drop
<1>4. CASE Leave
  <2>1. /\ cancelled' \in BOOLEAN /\ current' = FALSE
        /\ UNCHANGED <<kind, hostVars, producerVars, waiter, shown, ended>>
    BY <1>4 DEF Leave
  <2>2. PipeTypeOK' BY <2>1
  <2>3. PipeControl' BY <2>1
  <2> QED BY <2>2, <2>3
<1> QED BY <1>1, <1>2, <1>3, <1>4

\* Each kind of step keeps what the view will show in order, and appears to
\* the operator as a step of a feed.
feedVars == <<made, ViewOutcome, shown, ended, current>>

Appears == FeedInv' /\ (View!Next \/ UNCHANGED feedVars)

\* Every item is somewhere, whatever the view has come to.
LEMMA Places ==
    ASSUME PipeTypeOK
    PROVE  /\ Len(shown) \in Nat
           /\ Brought \in {0, 1} /\ Queued \in {0, 1} /\ Held \in {0, 1} /\ Ahead \in {0, 1}
BY DEF PipeTypeOK, Brought, Queued, Held, Ahead, One

LEMMA HostAppears ==
    ASSUME PipeInv, HostSends \/ HostEnds \/ HostCutOff
    PROVE  Appears
<1> USE MaxItemsAssumption, Places
    DEF PipeInv, PipeTypeOK, PipeControl, Appears, FeedInv, feedVars,
        Connected, producerVars, viewVars, ViewOutcome
<1>0. UNCHANGED <<Brought, Queued, Held>>
  BY DEF HostSends, HostEnds, HostCutOff, Brought, Queued, Held, OfferedType,
         Offered
<1>1. CASE HostSends
  <2>1. View!Make BY <1>1 DEF HostSends, View!Make
  <2>2. Ahead = 0 /\ Ahead' = 1 BY <1>1 DEF HostSends, Ahead, One
  <2>3. FeedInv'
    BY <1>0, <1>1, <2>2
    DEF HostSends, InOrder, EndsInOrder, Ending, OfferedType, Offered
  <2> QED BY <2>1, <2>3 DEF View!Next
<1>2. CASE HostEnds \/ HostCutOff
  <2>1. Ahead = 0 /\ Ahead' = 0
    BY <1>2 DEF HostEnds, HostCutOff, Ahead, One
  <2>2. FeedInv'
    BY <1>0, <1>2, <2>1
    DEF HostEnds, HostCutOff, InOrder, EndsInOrder, Ending, OfferedType, Offered
  <2>3. View!Finish \/ UNCHANGED feedVars
    BY <1>2 DEF HostEnds, HostCutOff, View!Finish
  <2> QED BY <2>2, <2>3 DEF View!Next
<1> QED BY <1>1, <1>2

LEMMA AdapterAppears ==
    ASSUME PipeInv, Enter \/ TakeItem \/ TakeEnd \/ TakeCancel
    PROVE  Appears
<1> USE MaxItemsAssumption, Places
    DEF PipeInv, PipeTypeOK, PipeControl, Appears, FeedInv, feedVars,
        AtSelect, hostVars, viewVars, ViewOutcome
<1>0. UNCHANGED <<Brought, Queued>>
  BY DEF Enter, TakeItem, TakeEnd, TakeCancel, AdapterReturns, Brought, Queued,
         OfferedType, Offered
<1>1. CASE Enter
  <2>1. UNCHANGED <<Held, Ahead>> BY <1>1 DEF Enter, Held, Ahead, One
  <2>2. FeedInv'
    BY <1>0, <1>1, <2>1
    DEF Enter, InOrder, EndsInOrder, Ending, OfferedType, Offered
  <2>3. UNCHANGED feedVars BY <1>1 DEF Enter
  <2> QED BY <2>2, <2>3
<1>2. CASE TakeItem
  <2>1. Held = 0 /\ Held' = 1 /\ Ahead = 1 /\ Ahead' = 0
    BY <1>2 DEF TakeItem, Held, Ahead, One
  <2>2. FeedInv'
    BY <1>0, <1>2, <2>1
    DEF TakeItem, InOrder, EndsInOrder, Ending, OfferedType, Offered
  <2>3. UNCHANGED feedVars BY <1>2 DEF TakeItem
  <2> QED BY <2>2, <2>3
<1>3. ASSUME AtSelect, NEW q \in Results, AdapterReturns(q),
             current => source = "over" /\ q = outcome
      PROVE  Appears
  <2>1. CASE kind = "pull"
    <3>1. Held = 0 /\ Held' = 1 /\ UNCHANGED Ahead
      BY <1>3, <2>1 DEF AdapterReturns, Held, Ahead, One
    <3>2. View!Make BY <1>3, <2>1 DEF AdapterReturns, View!Make
    <3>3. FeedInv'
      BY <1>0, <1>3, <2>1, <3>1
      DEF AdapterReturns, InOrder, EndsInOrder, Ending, OfferedType, Offered
    <3> QED BY <3>2, <3>3 DEF View!Next
  <2>2. CASE kind # "pull"
    <3>1. UNCHANGED <<Held, Ahead>>
      BY <1>3, <2>2 DEF AdapterReturns, Held, Ahead, One
    <3>2. UNCHANGED feedVars BY <1>3, <2>2 DEF AdapterReturns
    <3>3. FeedInv'
      BY <1>0, <1>3, <2>2, <3>1
      DEF AdapterReturns, InOrder, EndsInOrder, Ending, OfferedType, Offered
    <3> QED BY <3>2, <3>3
  <2> QED BY <2>1, <2>2
<1> QED BY <1>1, <1>2, <1>3 DEF TakeEnd, TakeCancel, Results

LEMMA CommandAppears ==
    ASSUME PipeInv, Emit \/ EmitVerdict \/ SendLast \/ Close
    PROVE  Appears
<1> USE MaxItemsAssumption, Places, EventTypes
    DEF PipeInv, PipeTypeOK, PipeControl, Appears, FeedInv, feedVars,
        hostVars, viewVars, ViewOutcome
<1>0. UNCHANGED <<Brought, Ahead>>
  BY DEF Emit, EmitVerdict, SendLast, Close, Offer, Brought, Ahead
<1>1. ASSUME Emit \/ EmitVerdict,
             NEW n \in Items, Offers(Item(n)),
             n = IF producer = "emit" THEN item ELSE made
      PROVE  FeedInv'
  <2>1. CASE current
    <3>1. Held = 1 /\ Held' = 0
      BY <1>1 DEF Emit, EmitVerdict, Offer, Held, One
    <3>2. Queued = 0 /\ Queued' = 1 /\ ~Offered
            /\ OfferedType("item")' /\ ~OfferedType("done")' /\ Head(channel').item = n
      BY <1>1, <2>1 DEF Offers, Queued, One, OfferedType, Offered
    <3>3. ended = "none" => n = Len(shown) + Brought + 1
      <4>1. CASE producer = "emit" BY <1>1, <2>1, <3>2, <4>1 DEF InOrder, Emit, EmitVerdict
      <4>2. CASE producer = "verdict"
        <5>1. Ahead = 0 BY <4>2 DEF Ahead, One
        <5> QED BY <1>1, <2>1, <3>1, <3>2, <4>2, <5>1 DEF InOrder, Emit, EmitVerdict
      <4> QED BY <1>1, <4>1, <4>2 DEF Emit, EmitVerdict
    <3>4. /\ UNCHANGED <<kind, hostVars, item, result, closed, waiter, viewVars>>
          /\ \/ producer = "emit" /\ producer' = "select"
             \/ producer = "verdict" /\ producer' = "last"
      BY <1>1 DEF Emit, EmitVerdict, Offer
    <3>5. ended = "none" => InOrder'
      BY <1>0, <2>1, <3>1, <3>2, <3>3, <3>4 DEF InOrder
    <3>6. ended = "none" => EndsInOrder'
      BY <1>0, <2>1, <3>2, <3>4 DEF EndsInOrder, Ending
    <3> QED BY <2>1, <3>4, <3>5, <3>6
  <2>2. CASE ~current BY <1>1, <2>2 DEF Emit, EmitVerdict, Offer
  <2> QED BY <2>1, <2>2
<1>2. CASE Emit
  <2>1. item \in Items BY <1>2 DEF Emit, Items
  <2>2. UNCHANGED feedVars BY <1>2 DEF Emit, Offer
  <2> QED BY <1>1, <1>2, <2>1, <2>2, CommandOffers DEF Emit
<1>3. CASE EmitVerdict
  <2>1. made \in Items BY <1>3 DEF EmitVerdict, Items
  <2>2. View!Finish BY <1>3 DEF EmitVerdict, Offer, View!Finish
  <2>3. Offers(Item(made)) BY <1>3, CommandOffers DEF EmitVerdict
  <2> QED BY <1>1, <1>3, <2>1, <2>2, <2>3 DEF EmitVerdict, View!Next
<1>4. CASE SendLast
  <2>1. UNCHANGED feedVars BY <1>4 DEF SendLast
  <2>2. CASE current
    <3>1. Held = 0 /\ Held' = 0 BY <1>4 DEF SendLast, Held, One
    <3>2. Queued = 0 /\ Queued' = 0 /\ ~Offered
            /\ OfferedType("done")' /\ ~OfferedType("item")'
            /\ Head(channel').result = result
      BY <1>4, <2>2, CommandOffers
      DEF SendLast, Offers, Queued, One, OfferedType, Offered
    <3> QED BY <1>0, <1>4, <2>1, <2>2, <3>1, <3>2
            DEF SendLast, InOrder, EndsInOrder, Ending
  <2>3. CASE ~current BY <1>4, <2>1, <2>3 DEF SendLast
  <2> QED BY <2>2, <2>3
<1>5. CASE Close
  <2>1. UNCHANGED <<Held, Queued>>
    BY <1>5 DEF Close, Held, One, Queued, OfferedType, Offered
  <2>2. UNCHANGED feedVars BY <1>5 DEF Close
  <2> QED BY <1>0, <1>5, <2>1, <2>2
          DEF Close, InOrder, EndsInOrder, Ending, OfferedType, Offered
<1> QED BY <1>2, <1>3, <1>4, <1>5

LEMMA ViewAppears ==
    ASSUME PipeInv, Receive \/ Handle \/ Drop \/ Leave
    PROVE  Appears
<1> USE MaxItemsAssumption, Places, EventTypes
    DEF PipeInv, PipeTypeOK, PipeControl, Appears, FeedInv, feedVars,
        hostVars, producerVars, viewVars, ViewOutcome
<1>0. UNCHANGED <<Held, Ahead>>
  BY DEF Receive, Handle, Drop, Leave, Held, Ahead
<1>1. CASE Receive
  <2>1. UNCHANGED feedVars BY <1>1 DEF Receive
  <2>2. ASSUME current PROVE FeedInv'
    <3>1. ended = "none" /\ InOrder /\ EndsInOrder BY <1>1, <2>2 DEF Receive
    <3>2. waiter = Waiting /\ Offered
      BY <1>1, <3>1 DEF Receive, EndsInOrder, OfferedType, Offered
    <3>3. waiter' = Head(channel) /\ channel' = <<>> /\ waiter' \in Events
      BY <1>1, <3>2, TakeOne DEF Receive, Offered
    <3>4. /\ Brought = 0 /\ Queued' = 0 /\ ~Offered'
          /\ Brought' = Queued /\ UNCHANGED <<shown, made, ended, producer, item>>
      BY <1>1, <3>2, <3>3
      DEF Receive, Brought, Queued, One, OfferedType, Offered
    <3>5. InOrder'
      BY <1>0, <3>1, <3>2, <3>3, <3>4 DEF InOrder, OfferedType
    <3>6. EndsInOrder'
      BY <1>1, <3>1, <3>2, <3>3, <3>4
      DEF Receive, EndsInOrder, OfferedType, Ending
    <3> QED BY <2>1, <3>4, <3>1, <3>5, <3>6
  <2> QED BY <1>1, <2>1, <2>2 DEF Receive
<1>2. CASE Handle
  <2>1. current /\ waiter \in Events /\ ended = "none" /\ InOrder /\ EndsInOrder
    BY <1>2 DEF Handle, CurrentEvent
  <2>2. CASE waiter.type = "item"
    <3>1. /\ Len(shown') = Len(shown) + 1
          /\ shown' = Append(shown, Len(shown) + 1)
      BY <1>2, <2>1, <2>2 DEF Handle, InOrder
    <3>2. Brought = 1 /\ Brought' = 0 /\ UNCHANGED Queued
      BY <1>2, <2>2 DEF Handle, Brought, One, Queued, OfferedType, Offered
    <3>3. View!Show
      BY <1>2, <2>1, <2>2, <3>1, <3>2 DEF Handle, InOrder, View!Show
    <3>4. InOrder'
      BY <1>0, <1>2, <2>1, <2>2, <3>1, <3>2
      DEF Handle, InOrder, OfferedType, Offered
    <3>5. EndsInOrder'
      BY <1>2, <2>1, <2>2 DEF Handle, EndsInOrder, OfferedType, Offered, Ending
    <3> QED BY <1>2, <2>1, <2>2, <3>3, <3>4, <3>5 DEF Handle, View!Next
  <2>3. CASE waiter.type = "done"
    <3>1. /\ waiter.result = outcome /\ ~Offered /\ source = "over"
          /\ producer \in {"closing", "over"}
      BY <2>1, <2>3 DEF EndsInOrder, Ending
    <3>2. Len(shown) = made
      BY <2>1, <2>3, <3>1
      DEF InOrder, Brought, Queued, Held, Ahead, One, OfferedType
    <3>3. View!End
      BY <1>2, <2>1, <2>3, <3>1, <3>2 DEF Handle, View!End
    <3>4. FeedInv' BY <1>2, <2>1, <2>3, <3>1 DEF Handle
    <3> QED BY <3>3, <3>4 DEF View!Next
  <2> QED BY <2>1, <2>2, <2>3
<1>3. CASE Drop
  <2>1. UNCHANGED feedVars /\ ~current' BY <1>3 DEF Drop
  <2> QED BY <2>1
<1>4. CASE Leave
  <2>1. View!Leave /\ ~current' BY <1>4 DEF Leave, View!Leave
  <2> QED BY <2>1 DEF View!Next
<1> QED BY <1>1, <1>2, <1>3, <1>4

LEMMA PipeStep == ASSUME PipeInv, PipeNext PROVE PipeInv' /\ Appears
BY HostControls, AdapterControls, CommandControls, ViewControls,
   HostAppears, AdapterAppears, CommandAppears, ViewAppears
DEF PipeNext, Producer, PipeInv, Appears

\* While a call runs there is no feed to step.
LEMMA PipeHolds == Spec => []PipeInv
<1>1. Init => PipeInv BY PipeInitInv DEF Init
<1>2. PipeInv /\ [Next]_vars => PipeInv'
  <2>1. ASSUME PipeInv, UNCHANGED pipeVars PROVE PipeInv'
    BY <2>1
    DEF pipeVars, hostVars, producerVars, viewVars, PipeInv, PipeTypeOK,
        PipeControl, FeedInv, InOrder, EndsInOrder, Brought, Queued, Held,
        Ahead, OfferedType, Offered
  <2> QED BY <2>1, PipeStep DEF Next, vars
<1> QED BY <1>1, <1>2, PTL DEF Spec

\* The state of every call and of every feed stays well-formed; the channel
\* never holds more than one event.
THEOREM AdapterTypeCorrect == Spec => []AdapterTypeOK
BY CallHolds, PipeHolds, PTL DEF CallInv, PipeInv, AdapterTypeOK

\* However many items the host sends, and whenever the view is left: an open
\* view shows them all, in order, each once, and then the host's outcome; the
\* events that are dropped and the closed channel that reads as success only
\* ever belong to a feed that was left (startLogStreamCmd,
\* startStatsStreamCmd, startImagePullCmd and what waits on them).
THEOREM ShowsTheFeedHolds == Spec => ShowsTheFeed
<1>1. Init => View!Init
  BY DEF Init, PipeInit, PipeOff, PipeState, View!Init, ViewOutcome
<1>2. PipeInv /\ [Next]_vars => [View!Next]_feedVars
  <2>1. ASSUME UNCHANGED pipeVars PROVE UNCHANGED feedVars
    BY <2>1 DEF pipeVars, hostVars, viewVars, producerVars, feedVars, ViewOutcome
  <2> QED BY <2>1, PipeStep DEF Next, vars, Appears
<1> QED BY <1>1, <1>2, PipeHolds, PTL
        DEF Spec, ShowsTheFeed, View!Spec, View!feedVars, feedVars
=============================================================================
