# Podman Console in TLA+

Podman Console is a terminal application (Go, Bubble Tea) that connects to Podman
hosts and lists, starts, stops, removes and creates containers, pulls and removes
images, and follows logs and statistics. This directory holds its formal model: TLA+
modules translated from the code, configurations that check them with TLC, and
theorems proved with TLAPS.

## 1. The system

### Components

| Component | Code | State | Operations |
|---|---|---|---|
| Event loop and dispatch | `internal/app/model.go` `Update`, `handleKey`; `internal/ui/keys.go` | screen, mode, error, generation, `requestCancel` | one handler per message, one branch per key |
| Profiles and connecting | `handleConfigLoaded`, `handleProfilesKey`, `handleProfileFormKey`, `saveProfile`, `removeProfile`, `beginProfile`; `internal/config/model.go` | `file`, `profileCursor`, `editingProfile`, `profile`, `client` | load, select, add, rename, remove, connect |
| Containers | `refresh`, `openDetails`, `runOperation`, `handleOperation` | containers, selection, details, filter, loading flags | list, inspect, filter, start, stop, restart, remove |
| Confirmation dialog | `requestConfirmation`, `requestImageConfirmation`, `submitContainerCreateForm`, `resetPendingConfirmation` | `pending*` | open, confirm, find stale, cancel |
| Images | `openImages`, `refreshImages`, `openImageDetails` | images, selection, details, filter, `imageFeedback` | list, inspect, filter, remove |
| Image pull | `startImagePull`, `cancelImagePull`, `handleImagePullEvent` | `imagePull*` | start, follow, cancel, refresh at the end |
| Container creation | `openContainerCreate` … `handleContainerCreateRefresh` | `containerCreate*` | form, confirm, create and start, cancel, refresh both lists |
| Streams | `openLogs`, `openStats`, `handleLogEvent`, `handleStatsEvent` | `stream*`, lines, sample | open, follow, end, leave |
| Commands | `internal/app/messages.go` | goroutines, contexts, channels of capacity one | one message per command; streams re-issue their waiter |
| Configuration store | `internal/config/store.go` | a JSON file, shared by every console of the user | load, save through a temporary file |
| Podman adapter | `internal/podman/bindings.go`, `errors.go` | a connection; per call an operation context | the host calls, stream loops, error classification |
| Rendering, domain values, start-up | `internal/ui`, `internal/domain`, `cmd` | none | pure functions and wiring |

### How they interact

Bubble Tea calls `Update` for one message at a time: keys, and the replies of commands.
A command is a closure that runs in a goroutine of its own, holds a context and a
generation captured when it was created, and sends one message when it ends. So the
handlers are atomic, and the concurrency of the program is in *which* replies are in
flight and the order in which they come back, between any two keys.

Three counters tell a late message from the awaited one: `generation` for requests
(every request increments it and cancels the one before), `imagePullGeneration` and
`streamGeneration`. The container create remembers its own generation and connection
instead, so that it survives requests that others start.

Beside the event loop run: the start-up read of the configuration, the goroutine of each
call, one more that cancels its operation context, and per feed the bindings' reader, the
producer and the waiter, joined by channels. Saving the configuration blocks the loop, but
other consoles may save the same file at the same time.

### What is hard

Replies out of order; a host switch with requests in flight; a dialog that outlives what
it was opened on; a pull in the background whose end starts a request, and so supersedes
one that is running; `requestCancel`, one field shared by every request; saves that fail
after memory has changed; an index into a list that shrinks; a file that is read late and
written by several processes; a process that stops inside a save; a cancellation at any
point of a call that makes two requests, or of a feed that three goroutines carry. `PROJECT.json` lists each
with its line.

### What makes each component correct

* *Dialog and mutations*: a destructive operation is sent only by confirming a dialog that
  displays it, once (`ConfirmedMutations`).
* *Connecting*: the session in use is the displayed target's (`SessionIsTarget`), and a
  console that says it is connecting will be told the outcome (`ConnectionIsAnswered`).
* *Profiles*: the active name is always one that is found (`ActiveIsSaved`), and a file that
  can be saved stays so until the form refuses an edit (`OnlyRefusedEditsSpoil`).
* *Inventories*: what is shown comes from the connected host (`ImagesFromHost`), and
  removals are not undone by late lists (`RemovedStaysGone`); an image is never removed from a
  host that did not list it (`ImagesStayHome`).
* *Pull and streams*: exactly the feed on display is live (`FeedIsCurrent`, `ViewIsFed`),
  and a pull settles (`PullSettles`).
* *Creation*: a create can be cancelled, has a reply to wait for, and settles
  (`CreateIsCancellable`, `RunIsAnswered`, `CreateSettles`), and its refresh is superseded by
  nothing but the end of a pull or a key on another screen (`RefreshYieldsToPull`).
* *Store*: a save happens at one moment or not at all (`SaveIsAtomic`); memory is the file
  unless the console is known to be apart from it (`MemoryIsFile`); nothing is lost
  unasked but by such a console (`NoSilentLoss`).
* *Adapter calls*: the contract of the specification documents (`KeepsContract`, `IdIsTold`),
  and a cancelled call returns (`CancelReturns`).
* *Feeds*: one ordered feed, for all the goroutines it is made of (`ShowsTheFeed`,
  `EndIsShown`), and none left behind (`LeftFeedEnds`).

## 2. The modules

| Module | Contents |
|---|---|
| `AppState` | constants and their assumptions, all variables, data, contexts and requests (`beginRequest`, `stopStream`, `stopImagePull`), key guards, `TypeOK`, `Init` |
| `Connection` | configuration, selector, form, `beginProfile`, connection replies |
| `Containers` | container keys, filter, dialog opening, list/inspect/operation replies |
| `Images` | image keys, filter, dialog opening, list/inspect/removal replies |
| `ImagePull` | pull screen and feed; extends `Images`, whose list it reads again |
| `ContainerCreate` | form, run, replies and final refresh |
| `Streams` | logs and statistics |
| `Console` | composition: the dialog's confirmation, `UserStep`, `Deliver`, `Next`, `Spec`, `FairSpec` |
| `GuardedMutations` | abstract specification: dialogs and outstanding mutations, nothing else |
| `ConsoleProperties` | the properties, and `GuardedMutations` instantiated with its refinement mapping |
| `MCConsole` | finite instances of the console |
| `ConfigStore` | the file, `Load`, the steps of `Save`, and the handlers of the consoles that share it |
| `AtomicSave` | abstract specification of `Save`: a register written at one moment |
| `HostCall` | one call of the adapter: checks, operation context, its requests, the host |
| `MutationContract` | abstract specification of a call: the contract documents |
| `StreamPipeline` | one feed: host, adapter loop, producer, channel, waiter, handler |
| `Feed` | abstract specification of a feed: items in order, then one end |
| `Adapter` | composition: a command makes one call or runs one feed |
| `MCConfigStore`, `MCAdapter` | finite instances of the store and of the adapter |
| `ComponentProofs` | lemmas on the helpers; each component preserves the type invariant |
| `ConsoleProofs` | `TypeCorrect`, `SessionFollowsTarget`, `ActiveStaysSaved`, `OnlyTheFormSpoils` |
| `RemovalProofs` | `RemovedContainersStayGone` |
| `FeedProofs` | `OpenViewsAreFed`, `PullsAreListenedTo` |
| `RequestProofs` | `RunningCreatesAreCancellable`, `AwaitedRunsAreAnswered` |
| `ScreenProofs` | `ShownImagesAreOfHost`, `RemovalsStayHome`, `AttemptsAreAnswered`, `ExplanationsStay`, `MutationsAreConfirmed`, `RefreshYields` |
| `ConfigStoreProofs` | `StoreTypeCorrect`, `MemoryFollowsFile`, `NoSilentLossHolds`, `SaveIsAtomicHolds` |
| `AdapterProofs` | `AdapterTypeCorrect`, `IdIsToldHolds`, `KeepsContractHolds`, `ShowsTheFeedHolds` |

The component modules share one state, because the code does: `Model` is one struct, and a
handler of one component calls helpers of another (`beginProfile` stops the stream and the
pull; a finished pull lists images).

The store and the adapter are models of their own, each with the part of the console that
it meets, because they look inside what the console's model takes as one step. The three
meet in their abstractions: `Connection` takes a save to succeed or fail with nothing in
between, which `AtomicSave` grants; the replies of `ContainerCreate`, `Containers` and
`Images` are the reports of `MutationContract`; the one command that a feed is in `Streams`
and `ImagePull` is a `Feed`.

### Correspondence with the code

* A step of `Next` is one call of `Update`. A key's guard repeats the order of `handleKey`
  (`InDialog`, `InForm`, `InFilter`, `InImageFilter`, `InPull`, `InCreate`, `InSelector`,
  `InScreen`). The members of `Keys` are the bindings of `keys.go`; `"esc"` and `"ctrl+c"` are the
  literal keys that the pull and create screens compare with, beside their bindings.
* `cmds` is the set of commands whose message has not been handled. A record holds the
  host asked, the target, the connection identity and generation captured, and `live`,
  whether its context has been cancelled. A cancelled command still answers, with any
  outcome: the host may have finished first.
* The feed of a stream or of a pull is *one* command: the goroutine, its channel and the
  waiter that is issued again after each event. It leaves `cmds` with its last event, or
  when an event finds the generation changed.
* Hosts answer nondeterministically: any subset of what they own for a list, success or
  failure for the rest. A container's id belongs to one host; image ids are digests, so
  two hosts may list the same. The model tags both with the host that listed them, which
  the code does not see: it compares ids only, and so do the definitions
  (`ImageIsCurrent`, `StillOpen`).
* `gone` is a history variable: the containers whose removal a host has confirmed. A
  command carries what was gone when it was sent, so a list requested afterwards
  cannot contain it and one requested before can.
* Selections are indices clamped into the visible list; the model keeps the selected element
  and lets it become any visible one whenever the list changes. Filters are the
  set of ids that match.
* The profiles in memory are a sequence, and `profileCursor` is kept as the index it is: saving
  and removing move profiles under it, and only some handlers clamp it.
* Names of profiles are compared in three ways, and so they are in `Connection`: edits look a
  profile up by `EqualFold` of the names as they are (`SameName`), `File.Profile` by `EqualFold` of
  the trimmed names (`Spelled`), and `Validate` looks for duplicates by the trimmed name in lower
  case (`Key`). `Trimmed`, `Lowered` and `Folded` are constants, the functions of package `strings`.
* `err` keeps three values: none, a stale target, another.
* `ConfigStore`: `step` is the call that `Save` has reached; a step is one call to the operating
  system. Two history variables say what a console cannot know: `apart`, its memory may
  not be the file, and `late`, its read found what has been replaced since. `apart` is
  set and cleared by the events that the comment of `MemoryIsFile` lists, never by comparing.
  Of a profile the model keeps that it is in the file, not its texts.
* `HostCall`: `call.at` is the point between two statements of the call that matter, `wire`
  the request sent last. `cancelled` is the caller's context and `opCancelled` the operation
  context, which follows in its own time. The host may carry out a request that was given
  up, refuse it, or never answer.
* `StreamPipeline`: items are numbered as sent. `source` is the host's side with the
  bindings' goroutine: `offering` means that it waits for the adapter to take an item. Leaving
  a view cancels the context and outdates the generation in one step, as `stopStream` and
  `stopImagePull` do. A pull's closing event is an item the adapter sends itself.

### Bounds

`MaxGeneration`, `MaxPulls` and `MaxStreams` stop *keys* from starting a request, pull or
stream beyond a generation (`MayRequest` and the guards of `StartImagePull` and
`OpenStream`). Replies may still start requests, so every chain of handlers is followed to
its end. `MaxItems` bounds what a host sends over one feed. `Keys` is the set of keys an instance presses: each run presses those that can break
its properties.

## 3. The runs

Passing runs. Deadlock is checked in all of them but `Adapter` (a console that has ended
stutters; a command that has ended really stops).

| Run | Instance | Shows |
|---|---|---|
| `Mutations` | 2 hosts, 1 container id, no images, 4 generations; 679,570 states | `TypeOK`, `SessionIsTarget`, `ConnectionIsAnswered`, `ConfirmedMutations`, `RemovedStaysGone` |
| `ImagesAndPulls` | 2 hosts sharing 1 image digest, 4 request and 4 pull generations; 696,236 states | `ImagesStayHome`, `ImagesFromHost`, `FeedIsCurrent`, `ImageExplanationStays` |
| `Create` | 1 host, 2 images, 5 request and 5 pull generations, fair; 530,477 states | `CreateIsCancellable`, `RunIsAnswered`, `ConfirmedMutations`, `CreateSettles`, `PullSettles`, `RefreshYieldsToPull` |
| `Streams` | 1 host, 1 container, both filters, 3 request and 5 stream generations; about 181,000 states | `ViewIsFed` |
| `Book` | 3 profiles, named `a`, `b` and `" A"`, failing saves; 302,964 states | `ActiveIsSaved`, `OnlyRefusedEditsSpoil` |
| `Store` | 2 consoles, one of which edits, 2 profiles that are interchangeable, both platforms; 80,930 states | `TypeOK`, `MemoryIsFile`, `SaveIsAtomic`, `NoSilentLoss` |
| `Adapter` | every kind of call, every kind of feed with up to 3 items, fair; 5,785 states | `AdapterTypeOK`, `IdIsTold`, `KeepsContract`, `CancelReturns`, `ShowsTheFeed`, `LeftFeedEnds`, `EndIsShown` |

Why these bounds: the hazards are about one late message against the current one. Four
generations allow a request, one that supersedes it, a third that is confused with
the first, and the refresh a reply starts. Pull and stream generations advance by two per
start (stop, then start), so 4 and 5 give two pulls and two streams, and `Create` needs 5 to reach
a second pull that runs, and ends, beside a create and its refresh. Two hosts are enough for
a message of "another" host; two images distinguish the image of a form, of a dialog and of a
running create; of the three profiles `a` and `" A"` differ for edits and not for `Validate`,
and `" A"` is one that only a file can hold, since the form trims. For
the store two consoles are one that edits and one that only reads, opens and saves at
start-up; more of each only repeats what two do to each other, and the proofs cover any number. A
feed of three items fills every place of the pipeline: one shown, one in the channel or with
the waiter, one with the producer.

Each of the other runs checks one sentence of the documentation and finds the
behaviour that contradicts it:

| Run | Property | What happens |
|---|---|---|
| `OtherHostInventory` | `InventoryOfTarget` | switching hosts keeps the old host's containers until a list succeeds; a reply with a session but a failed list leaves them, connected |
| `LostResult` | `ResultsAreShown` | `r` after a confirmed stop supersedes it; its outcome is dropped |
| `FormImage` | `FormKeepsItsImage` | the late reply of a create replaces the image of the form opened since |
| `SelectorCursor` | `NoPanic` | with the cursor on the last profile, which `down` reaches and where the selector opens if that profile is the active one: removal with a failed save, then `e`: index out of range |
| `Reader` | `ReaderEnds` | a log view is left while the bindings hand over a line: nobody takes it any more, and their goroutine waits for ever, under fairness too |

Other disagreements met while modelling and not kept as runs.

In the console:

* A profile saved before the configuration has been read is connected, and the late
  `ConfigLoadedMsg` then clears the target but not the session, which is why `SessionIsTarget`
  allows an empty target.
* A connection reply that arrives after its profile, the last one, was removed opens its
  session (`docs/connections.md:15-16`).
* A file with a profile `" a "` is valid, and a new profile `a` is not the same to `Upsert`, which
  compares untrimmed: it is appended, and `Validate`, which trims, refuses the list. The form
  says so, but the list stays in memory, and every later save is refused until one of
  the two is removed or renamed (`specs/001-podman-console-mvp/data-model.md:9`: "unique within
  the config, trimmed"). `OnlyRefusedEditsSpoil` says that such a refusal is the only way.
* A pull that completes supersedes the refresh that follows a create: the reply is dropped
  (`model.go:494`) and `containerCreateRefreshing` stays set. If that happens while the create screen
  is shown, the screen then refuses all keys but `esc`, which cancels something else, and quit, for
  ever. `CreateSettles` and `RunIsAnswered` except this refresh, and `RefreshYieldsToPull` says that
  on the create screen nothing else supersedes it. The `Create` instance reaches it from the
  pull screen; with the create screen shown it takes an image removal whose reply leaves the pull
  screen while the pull runs, and `Create` presses no removal: the theorem covers that case.
* A removal that completes under an open log view goes to the inventory without
  `stopStream`: the stream runs on behind it.
* A container that is gone is explained and the list refreshed; the refresh's reply clears the
  explanation (images keep theirs in `imageFeedback`).
* A loading flag stays set when its request is superseded.
* A second create may be confirmed while one whose form was left still runs, and cancels it.
* Letters are taken for bindings in text fields: `n` closes the profile form and the filter,
  `y` ends the filter, saves the form from its last field and starts a pull, `q` quits from
  the pull's field and `?` toggles its help
  (`specs/001-podman-console-mvp/contracts/keyboard-and-safety.md:7` excepts text fields).

In the store, each of them a way to be `apart`:

* A profile saved before `ConfigLoadedMsg` is handled replaces the whole file, unread; and the
  late message then discards the profile from memory, though it is on disk.
* A file that could not be read is replaced by the next save.
* `beginProfile` ignores a save that fails, and another console that starts meanwhile
  saves back what it has read: an edit that was reported saved is undone.
* On Windows, if the second rename fails, `Save` has removed the old file and its deferred
  clean-up removes the new one. `SaveIsAtomic` admits that there is then no file.

In the adapter:

* A lifecycle call that was cancelled before it began is still sent if the operation
  context has not followed yet: only images and `RunContainer` look at `ctx.Err()`, and that
  too leaves a moment (`specs/003-container-creation/contracts/container-client.md:35` says
  cancellation before the request means no mutation).
* `RemoveImage` reports a cancellation when the host has already removed the image.

## 4. Fairness

Safety needs none. `FairSpec` adds weak fairness on the delivery of a create's reply, of the
reply of its refresh, and on the end of a pull's feed. The first two are the Bubble Tea runtime (each command has
its own goroutine and every message is handled) *plus* an assumption about the
environment: the code sets no deadline, so that a host answers at all is the host's part.
The third likewise, by `startImagePullCmd`, which sends or closes when `PullImage` returns. No
fairness is assumed of keys. `CreateSettles` and `PullSettles` are therefore: if the
host answers, the console leaves the waiting state, whatever else the operator does. A refresh that
another request has superseded ends `CreateSettles`'s obligation without ending the wait: that is
the defect of section 3.

`Store` needs none. `Adapter` states what the Go runtime and the HTTP client give, and
nothing about the host. `CallFairness`: the call's goroutine goes on, the operation context
follows the caller's (`context.AfterFunc`), and a request whose context is cancelled gives up.
`PipeFairness`: the producer and the waiter run, messages are handled, and the host's side ends
once its context does, *unless it is handing over an item*: that is a channel send without a
`select`. So `CancelReturns`, `LeftFeedEnds` and `EndIsShown` hold with a host that
never answers, and `ReaderEnds` does not hold.

## 5. The proofs

Every theorem holds for all values of the constants that satisfy the assumptions of
`AppState` (each profile has a name; trimming and folding map names to names, and two names that
are equal but for case are so trimmed; `None` is no profile, name or number; the bounds are
natural numbers), or of `StreamPipeline` (`MaxItems` is a natural number); `ConfigStore` assumes
nothing of its constants. `ScreenProofs` adds that `None` is not what a dialog displays
(`NoDialogAssumption`), without which the refinement mapping could not say that none is open.
TLC evaluates these assumptions in every run.

* **`TypeCorrect`** (`Spec => []TypeOK`). One lemma per component and kind of step
  (`ConnectionKeysType`, `ConnectionMessageType`, `ContainerKeysType`, …) on top of lemmas
  about the shared helpers (`BeginRequestType`, `CancelledType`, `BeginProfileType`,
  `RefreshType`, …). `TypeIsInductive` combines them. `TypeOK` carries one conjunct a type does
  not need: a dialog on display has a target; confirming one would otherwise send an
  ill-typed command. Another is that no dialog offers a start: `s` sends it at once.
* **`SessionFollowsTarget`** (`Spec => []SessionIsTarget`). Inductive relative to the type:
  only `Connected` and `Target` and the removal of the last profile write `profile` or
  `client`, and `OthersKeepLink` shows that for every other action.
* **`RemovedContainersStayGone`** (`Spec => RemovedStaysGone`). The property is not
  inductive: a late list could contain a removed container. The strengthening is
  `RequestsKnowGone`: every request in flight has a generation at most the current one, and
  one of the current generation was sent knowing every removal so far. It holds because a
  removal is only learnt by a reply whose handler starts the next generation at once.
  `Derived` describes what handlers leave in flight (old commands, perhaps cancelled), so
  that each action is either a `QuietStep` (no new request) or a `RequestStep`. Then
  `AcceptedReply` says that any reply that is accepted knows every removal, and
  `NoResurrection` goes through the handlers that write `containers`.
* **`ActiveStaysSaved`, `OnlyTheFormSpoils`** (`Spec => []ActiveIsSaved`,
  `Spec => OnlyRefusedEditsSpoil`). `ActiveIsSaved` is not inductive, because `File.Profile` trims and
  `File.Remove` does not: a removal might take the one profile that only the trimmed comparison
  finds and leave the active name. `ActiveHeld` is: there is a profile by the very name that is
  active, compared as edits compare names. That is more than `File.Profile` needs
  (`HeldActiveIsSaved`), and `File.Remove` moves the active name exactly when it takes that profile.
  `UpsertHolds` and `RemoveHolds` say it of the two edits, `EditHolds` of a rename, which
  is both. For the second, `RemoveKeepsKeys` shows that a removal makes no duplicates, so that
  `BookSteps` leaves `SaveProfileFails` as the only step that can.
* **`OpenViewsAreFed`, `PullsAreListenedTo`** (`FeedProofs`). First, what each action does to
  feeds, one lemma per component: most change none (`FeedsKept`), so that a dozen actions are
  left to look at (`FeedSteps`, `EveryStep`). The invariants `StreamIsKnown` and `PullIsKnown` add
  to the properties what they rest on: no feed has a number above the current one (`Numbered`),
  so that what starts next is told from all of them; the live one is the one whose cancel
  function is held; and no screen that one goes back to is a stream's.
* **`RunningCreatesAreCancellable`, `AwaitedRunsAreAnswered`** (`RequestProofs`). `Traffic` says
  what a step may do to the requests, for every action (`EveryStepIsTraffic`): drop late replies,
  end the current context, accept the awaited reply, or begin a request, alone or by the
  handler of an accepted reply. On top of it `RequestsAreNumbered` (one request per generation,
  except the two reads after an operation; `requestCancel` is the current one or none) and
  `RunIsKnown` (a create that runs has the number that the form remembers, and so is the one
  `requestCancel` ends) are inductive together. `RefreshIsKnown`, for the refresh half of
  `RunIsAnswered`, is inductive on top of them.
* **`RefreshYields`** (`Spec => RefreshYieldsToPull`, in `ScreenProofs`). The awaited refresh has the
  latest number, so every other reply is late (`RefreshIsLatest`, `MessagesYield`); and no key of
  the create screen starts a request (`KeysYield`), for a dialog over that screen asks for a create
  (`DialogOnCreate`), which is not sent while the refresh runs.
* **What is shown is the host's** (`ScreenProofs`). `ScreenStep` says the same of the gallery, the
  dialog and the target. None of `ImagesFromHost`, `ImagesStayHome` and `ConnectionIsAnswered` is
  inductive; `HostIsShown` is, with three conjuncts more. While the latest request
  connects there is nothing to show or to confirm (`ConnectsBlank`); the latest request of any
  other kind went to the connected host (`AsksHost`); and a dialog that would still be
  accepted displays an image of that host (`DialogFromHost`). Together they say that any
  switch of targets starts a request and so makes every open dialog stale. From the
  same invariant follows the action property `ExplanationsStay`.
* **`MutationsAreConfirmed`** (`Spec => ConfirmedMutations`), the refinement of
  `GuardedMutations`. `OutstandingResults` shows that ending contexts changes no outstanding
  mutation, so each kind of `Traffic` maps to `Finish`, `Dismiss` or a stutter; a dialog opens
  without sending (`DialogOpens`), and a mutation is sent alone (`MutationSent`), with a number
  that no other has, and with what the dialog displayed (`Confirms`) unless it is a start.
* **The store** (`ConfigStoreProofs`), for any number of consoles. `MemoryIsFile` is not
  inductive: a save about to return must have written what memory holds (`SavedIsOnDisk`), a
  read that is not late must have found what is on disk (`FoundIsOnDisk`), the second rename only
  comes on a platform that needs it (`RemovesOnTwoSteps`), and a save drops from the file
  only what was asked (`DropsWhatIsAsked`). From the same invariant follow `NoSilentLossHolds`
  and, by a map of each step to a step of `AtomicSave` or a stutter, `SaveIsAtomicHolds`.
* **Calls** (`AdapterProofs`). `CallInv` adds to the type what was sent against what
  was carried out (`WireMatches`), that an id means a created container (`IdIsCreated`), and how
  far each point of the call has come (`CallProceeds`). `KeepsContractHolds` maps each step to
  one of `MutationContract`.
* **Feeds**. `PipeInv` says where every item is: an item sent lies in exactly one of the host's
  hand, the producer's, the channel, the waiter's, or on the screen, in this order
  (`InOrder`), and the last event carries the host's outcome (`EndsInOrder`), as long as the
  view has not been left. `AdapterTypeCorrect` needs it too: the channel's capacity.
  `ShowsTheFeedHolds` maps each step to one of `Feed`.

Two properties had to be corrected for this: the runs had found no fault with them only
because of the keys and hosts of their instances. `FeedIsCurrent` said that the pull's target is the
connected profile; a late `ConfigLoadedMsg` can clear the target while the session stays (section
3), and the property now speaks of the session. `ImagesStayHome` included creates; the late
reply that `FormKeepsItsImage` is about, which replaces the form's image, may come from a host
that is no longer connected, and the next create then names an image that the new host has not
listed. It now speaks of removals only.

Every invariant, action property and refinement of the passing runs is proved. Only
model-checked are the liveness properties (`CreateSettles`, `PullSettles`, `CancelReturns`,
`LeftFeedEnds`, `EndIsShown`): fairness is out of the prover's reach. Their safety halves are
proved: `RunIsAnswered` says that the reply a create or its refresh waits for is there to be delivered,
`FeedIsCurrent` that the feed of a pull in progress is.

## 6. Not modelled

* Text: contents of fields, filters and commands, validation, wording, log lines, samples,
  rendering, and the parsing of commands. One consequence is lost: which letters typed in a
  field are taken for bindings (section 3).
* The classification of errors (`errors.go`), a list of phrases searched in a message:
  what follows from it for control, a stale target, a cancellation or another error, is an
  outcome that every reply may have.
* The conversion of what a host answers to domain records.
* The help toggle, window size, scrolling and log following: they touch nothing the
  properties read.
* A power failure. A stop of the process is modelled between any two calls of `Save`; what a
  file that was not synced holds after the machine stops is not.
* The network below a request. A request is one call of the bindings, with whatever they do
  themselves to deliver it over a connection that breaks.
* The store and the adapter are not composed with the console: one instance of all three
  is out of TLC's reach. They meet in their abstract specifications (section 2).
* Deadlines: the code has none.

## 7. Plan

Done: the application (`AppState` … `Console`) and its abstract specification; the store and its
register; the adapter's calls and feeds and their contracts; seven passing runs and five for
documentation; every safety property, action property and refinement of the passing runs as
a theorem.

Next, in this order:

1. Text fields: which keys each takes, with the bindings that letters are taken for.
2. What can be proved of the code that contradicts its documentation: under which condition
   each of the sentences of section 3 does hold (an inventory is the target's once a list of
   the session has succeeded; a form keeps its image while no create that it does not await
   is in flight).
