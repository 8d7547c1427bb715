---------------------------- MODULE ConsoleProofs ----------------------------
(***************************************************************************)
(* The console is type-correct, never keeps the session of one target      *)
(* behind the name of another, and edits its file of profiles without      *)
(* losing the active one, for any profiles, hosts, keys and bounds.        *)
(***************************************************************************)
EXTENDS ConsoleProperties, ComponentProofs

USE DEF bookVars, linkVars, viewVars, requestVars, inventoryVars, featureVars

-----------------------------------------------------------------------------
(* Type correctness *)

LEMMA InitType ==
    ASSUME Init
    PROVE  TypeOK
<1>1. /\ gallery \in Gallery /\ stream \in Stream /\ pull \in Pull
      /\ create \in Create
  BY DEF Init, Gallery, Stream, Pull, PullStates, Create, CreateStates, Errors,
         Screens
<1>2. cmds \subseteq Command BY DEF Init, Command, CommandKinds
<1>3. \A S : <<>> \in Seq(S) OBVIOUS
<1> QED BY <1>1, <1>2, <1>3 DEF Init, TypeOK, Screens, Modes, Errors

\* The keys of the dialog.
LEMMA DialogKeysType ==
    ASSUME TypeOK, DialogKeys
    PROVE  TypeOK'
<1>0. /\ cmds \subseteq Command /\ create \in Create /\ err \in Errors
      /\ pending \in Dialog \cup {None} /\ mode \in Modes
  BY DEF TypeOK
<1>1. CASE ConfirmStale
  <2>1. create' \in Create /\ err' \in Errors
    BY <1>0, <1>1 DEF ConfirmStale, CreateFails, Create, CreateStates, Errors
  <2> QED BY <1>1, <2>1 DEF ConfirmStale, DialogCloses, Modes, TypeOK
<1>2. CASE ConfirmOperation
  <2>1. pending \in Dialog
    BY <1>2 DEF ConfirmOperation, InDialog, TypeOK
  <2>2. pending.action \in Mutations
    BY <1>2, <2>1 DEF ConfirmOperation, Dialog
  <2>3. pending.target \in Container \cup Image \cup {None} BY <2>1 DEF Dialog
  <2>4. RunOperation(pending.action, pending.target)
    BY <1>2 DEF ConfirmOperation
  <2>5. /\ err' \in Errors /\ loading' \in BOOLEAN
        /\ generation' \in Nat /\ requestCancel' \in Nat \cup {None}
        /\ cmds' \subseteq Command
    BY <2>2, <2>3, <2>4, RunOperationType
  <2> QED BY <1>2, <2>5 DEF ConfirmOperation, DialogCloses, Modes, TypeOK
<1>3. CASE ConfirmCreate
  <2>0. pending.target \in Image
    BY <1>3 DEF ConfirmCreate, InDialog, TypeOK, Dialog
  <2>1. RunContainerCreate(pending.target) BY <1>3 DEF ConfirmCreate
  <2>2. /\ create' \in Create /\ err' \in Errors
        /\ generation' \in Nat /\ requestCancel' \in Nat \cup {None}
        /\ cmds' \subseteq Command
    BY <2>0, <2>1, RunContainerCreateType
  <2> QED BY <1>3, <2>2 DEF ConfirmCreate, DialogCloses, Modes, TypeOK
<1>4. CASE CancelDialog
  <2>1. create' \in Create BY <1>0, <1>4 DEF CancelDialog, Create, CreateStates
  <2> QED BY <1>4, <2>1 DEF CancelDialog, DialogCloses, Modes, TypeOK
<1> QED BY <1>1, <1>2, <1>3, <1>4 DEF DialogKeys

LEMMA TypeIsInductive ==
    ASSUME TypeOK, [Next]_vars
    PROVE  TypeOK'
<1>1. CASE UserStep
  <2>1. CASE ConnectionKeys BY <2>1, ConnectionKeysType DEF ConnectionKeys
  <2>2. CASE ContainerKeys
    BY <2>2, ContainerKeysType, FilterKeysType, StreamKeysType DEF ContainerKeys
  <2>3. CASE ImageKeys
    BY <2>3, ImageKeysType, PullKeysType, CreateKeysType DEF ImageKeys
  <2>4. CASE DialogKeys BY <2>4, DialogKeysType
  <2>5. CASE QuitKey BY <2>5 DEF QuitKey, QuitNow, TypeOK
  <2> QED BY <1>1, <2>1, <2>2, <2>3, <2>4, <2>5 DEF UserStep
<1>2. ASSUME NEW c \in cmds, Deliver(c)
      PROVE  TypeOK'
  <2>1. CASE DropStaleReply(c) BY <2>1 DEF DropStaleReply, TypeOK
  <2>2. CASE ConnectionMessage(c)
    BY <2>2, ConnectionMessageType DEF ConnectionMessage
  <2>3. CASE ContainerMessage(c)
    BY <2>3, ContainerMessageType DEF ContainerMessage
  <2>4. CASE ImageMessage(c) BY <2>4, ImageMessageType DEF ImageMessage
  <2>5. CASE PullMessage(c) BY <2>5, PullMessageType DEF PullMessage
  <2>6. CASE CreateMessage(c) BY <2>6, CreateMessageType DEF CreateMessage
  <2>7. CASE StreamMessage(c) BY <2>7, StreamMessageType DEF StreamMessage
  <2> QED BY <1>2, <2>1, <2>2, <2>3, <2>4, <2>5, <2>6, <2>7 DEF Deliver
<1>3. CASE UNCHANGED vars BY <1>3 DEF vars, TypeOK
<1> QED BY <1>1, <1>2, <1>3 DEF Next, Terminated

\* Every variable stays in its type, a displayed dialog always names an
\* existing action and target, and a create in flight has an image.
THEOREM TypeCorrect == Spec => []TypeOK
BY InitType, TypeIsInductive, PTL DEF Spec

-----------------------------------------------------------------------------
(* Targets *)

\* Only connecting, reading the configuration and the selector's keys change
\* the profiles, the target or its session.
LEMMA OthersKeepTargets ==
    ASSUME \/ ContainerKeys \/ ImageKeys \/ DialogKeys \/ QuitKey
           \/ \E c \in cmds :
                 \/ DropStaleReply(c) \/ ContainerMessage(c) \/ ImageMessage(c)
                 \/ PullMessage(c) \/ CreateMessage(c) \/ StreamMessage(c)
           \/ UNCHANGED vars
    PROVE  UNCHANGED <<bookVars, linkVars>>
<1> USE DEF Refuse, QuitNow
<1>1. CASE ContainerKeys
  <2> USE DEF Filtering, OnlyStream
  <2> QED BY <1>1 DEF ContainerKeys, RefreshKey, RefreshDetails, MoveSelection,
             OpenDetails, OpenDetailsRefused, CloseDetails, StartKey,
             RequestConfirmation, OpenFilter, TypeFilter, AcceptFilter,
             LeaveFilter, OpenStream, CloseStream
<1>2. CASE ImageKeys
  <2>1. CASE \/ OpenImages \/ RefreshImagesKey \/ RefreshImageDetails
             \/ OpenImageDetails \/ OpenImageDetailsRefused \/ BackFromImages
             \/ MoveImageSelection \/ FilterImages \/ RequestImageConfirmation
    BY <2>1 DEF OnlyGallery, OpenImages, RefreshImagesKey, RefreshImageDetails,
                OpenImageDetails, OpenImageDetailsRefused, BackFromImages,
                MoveImageSelection, FilterImages, RequestImageConfirmation
  <2>2. CASE \/ OpenImagePull \/ LeaveImagePull \/ StartImagePull
             \/ CancelImagePull \/ QuitPull
    BY <2>2 DEF OnlyPull, OpenImagePull, LeaveImagePull, StartImagePull,
                CancelImagePull, QuitPull
  <2>3. CASE \/ OpenContainerCreate \/ LeaveContainerCreate
             \/ CancelContainerCreate \/ SubmitContainerCreate
             \/ RejectContainerCreate \/ QuitContainerCreate
    BY <2>3 DEF OnlyCreate, OpenContainerCreate, LeaveContainerCreate,
                CancelContainerCreate, SubmitContainerCreate,
                RejectContainerCreate, QuitContainerCreate
  <2> QED BY <1>2, <2>1, <2>2, <2>3 DEF ImageKeys
<1>3. CASE DialogKeys
  BY <1>3 DEF DialogKeys, ConfirmStale, ConfirmOperation, ConfirmCreate,
              CancelDialog, DialogCloses
<1>4. CASE QuitKey BY <1>4 DEF QuitKey
<1>5. ASSUME NEW c \in cmds, DropStaleReply(c) \/ ContainerMessage(c)
      PROVE  UNCHANGED <<bookVars, linkVars>>
  BY <1>5 DEF DropStaleReply, ContainerMessage, InventoryLoaded, InventoryFailed,
              InventoryReply, DetailsLoaded, DetailsFailed, DetailsReply,
              OperationSucceeded, OperationFailed, OperationStale, Finished
<1>6. ASSUME NEW c \in cmds, ImageMessage(c)
      PROVE  UNCHANGED <<bookVars, linkVars>>
  BY <1>6 DEF ImageMessage, ImageInventoryLoaded, ImageInventoryFailed,
              ImageInventoryReply, ImageDetailsLoaded, ImageDetailsFailed,
              ImageDetailsReply, ImageDetailsClosed, ImageRemoved,
              ImageRemoveStale, ImageRemoveFailed, ImageRemoveFinished,
              OnlyGallery
<1>7. ASSUME NEW c \in cmds, PullMessage(c)
      PROVE  UNCHANGED <<bookVars, linkVars>>
  BY <1>7 DEF PullMessage, PullEvent, PullFailed, PullDone, DropPullEvent,
              OnlyPull
<1>8. ASSUME NEW c \in cmds, CreateMessage(c)
      PROVE  UNCHANGED <<bookVars, linkVars>>
  BY <1>8 DEF CreateMessage, ContainerStarted, ContainerCreatedOnly,
              ContainerCreateCancelled, ContainerCreateFailed, RunReply,
              DropRunReply, CreateRefreshed, DropCreateRefresh, OnlyCreate
<1>9. ASSUME NEW c \in cmds, StreamMessage(c)
      PROVE  UNCHANGED <<bookVars, linkVars>>
  BY <1>9 DEF StreamMessage, StatsSample, DropStreamEvent, StreamEnded,
              CurrentStream, OnlyStream
<1>10. CASE UNCHANGED vars BY <1>10 DEF vars
<1> QED BY <1>1, <1>2, <1>3, <1>4, <1>5, <1>6, <1>7, <1>8, <1>9, <1>10

LEMMA SessionIsTargetInductive ==
    ASSUME SessionIsTarget, [Next]_vars
    PROVE  SessionIsTarget'
<1>1. CASE UNCHANGED linkVars BY <1>1 DEF SessionIsTarget
<1>2. ASSUME NEW p, NEW cs, BeginProfile(p, cs)
      PROVE  SessionIsTarget'
  BY <1>2 DEF BeginProfile, Target, SessionIsTarget
<1>3. CASE ConnectionKeys
  <2>1. CASE SaveProfile BY <1>2, <2>1 DEF SaveProfile
  <2>2. CASE OpenProfile BY <1>2, <2>2 DEF OpenProfile
  <2>3. CASE RemoveProfile
    BY <1>2, <2>3 DEF RemoveProfile, SessionIsTarget
  <2>4. CASE \/ OpenSelector \/ CloseSelector \/ MoveCursor \/ QuitSelector
             \/ NewProfile \/ EditProfile \/ CloseForm \/ CursorPanic
             \/ SaveProfileFails \/ RemoveProfileFails
    BY <1>1, <2>4 DEF OpenSelector, CloseSelector, MoveCursor, QuitSelector,
                      QuitNow, NewProfile, EditProfile, CloseForm, OnlyMode,
                      CursorPanic, SaveProfileFails, RemoveProfileFails
  <2> QED BY <1>3, <2>1, <2>2, <2>3, <2>4 DEF ConnectionKeys
<1>4. ASSUME NEW c \in cmds, ConnectionMessage(c)
      PROVE  SessionIsTarget'
  <2>1. CASE ConfigUnreadable(c) BY <1>1, <2>1 DEF ConfigUnreadable
  <2>2. CASE ConfigLoaded(c)
    BY <1>2, <2>2 DEF ConfigLoaded, SessionIsTarget
  <2>3. CASE \/ ProfileRefused(c) \/ ProfileConnectedUnlisted(c)
             \/ ProfileConnected(c)
    BY <2>3 DEF ProfileRefused, ProfileConnectedUnlisted, ProfileConnected,
                Connected, SessionIsTarget
  <2> QED BY <1>4, <2>1, <2>2, <2>3 DEF ConnectionMessage
<1> QED BY <1>1, <1>3, <1>4, OthersKeepTargets
        DEF Next, UserStep, Deliver, Terminated

\* Whatever was in flight when the target changed, operations reach the host
\* that is displayed, or none.
THEOREM SessionFollowsTarget == Spec => []SessionIsTarget
<1>1. Init => SessionIsTarget BY DEF Init, SessionIsTarget
<1> QED BY <1>1, SessionIsTargetInductive, PTL DEF Spec

-----------------------------------------------------------------------------
(* The file in memory.  Validate may refuse it, so what the edits promise   *)
(* of every file is the argument: they keep a profile by the very name that *)
(* is active (ActiveHeld), which is more than File.Profile needs to find    *)
(* one, and Remove makes no two profiles duplicates.                        *)

ActiveHeld == active # None => At(saved, active) # {}

Holds(book, name) == name # None => \E i \in 1 .. Len(book) : SameName(Name[book[i]], name)

LEMMA HoldsIsHeld ==
    ASSUME NEW book \in Seq(Profiles), NEW name
    PROVE  Holds(book, name) <=> (name # None => At(book, name) # {})
<1>1. DOMAIN book = 1 .. Len(book) OBVIOUS
<1> QED BY <1>1 DEF Holds, At

\* What Upsert and Remove find, File.Profile finds too.
LEMMA HeldIsSpelled ==
    ASSUME NEW book \in Seq(Profiles), NEW name \in Names \cup {None},
           name # None => At(book, name) # {}
    PROVE  name # None => Spelled(book, name) # {}
<1>1. ASSUME NEW i \in At(book, name)
      PROVE  i \in Spelled(book, name)
  <2>1. /\ i \in DOMAIN book /\ {Name[book[i]], name} \subseteq Names
        /\ Folded[Name[book[i]]] = Folded[name]
    BY <1>1 DEF At, SameName
  <2>2. Folded[Trimmed[Name[book[i]]]] = Folded[Trimmed[name]]
    BY <2>1, NamesAssumption
  <2> QED BY <2>1, <2>2 DEF Spelled
<1> QED BY <1>1

\* A profile of the file is one by its own name.
LEMMA OwnNameIsHeld ==
    ASSUME NEW book \in Seq(Profiles), NEW i \in 1 .. Len(book)
    PROVE  Holds(book, Name[book[i]])
<1>1. Name[book[i]] \in Names BY ProfilesAssumption
<1> QED BY <1>1 DEF Holds, SameName

\* File.Upsert: whatever name had a profile still has one.
LEMMA UpsertHolds ==
    ASSUME NEW book \in Seq(Profiles), NEW p \in Profiles, NEW name
    PROVE  /\ Holds(Upsert(book, p), Name[p])
           /\ Holds(book, name) => Holds(Upsert(book, p), name)
<1> DEFINE new == Upsert(book, p)
<1>0. new \in Seq(Profiles) BY UpsertAt
<1>1. PICK i \in 1 .. Len(new) :
        /\ new[i] = p
        /\ \A j \in 1 .. Len(book) : j # i => new[j] = book[j]
        /\ Len(book) <= Len(new)
        /\ i \in 1 .. Len(book) => SameName(Name[book[i]], Name[p])
  BY UpsertAt
<1> HIDE DEF new
<1>2. Holds(new, Name[p]) BY <1>0, <1>1, OwnNameIsHeld
<1>3. ASSUME NEW j \in 1 .. Len(book), SameName(Name[book[j]], name)
      PROVE  \E k \in 1 .. Len(new) : SameName(Name[new[k]], name)
  <2>1. CASE j = i
    <3>1. SameName(Name[p], name) BY <1>1, <1>3, <2>1 DEF SameName
    <3> QED BY <1>1, <3>1
  <2>2. CASE j # i
    <3>1. j \in 1 .. Len(new) BY <1>0, <1>1
    <3> QED BY <1>1, <1>3, <2>2, <3>1
  <2> QED BY <2>1, <2>2
<1> QED BY <1>2, <1>3 DEF Holds, new

\* File.Remove: the name that is active next has a profile that is left.
LEMMA RemoveHolds ==
    ASSUME TypeOK, ActiveHeld, NEW name
    PROVE  Holds(Without(saved, name), ActiveAfterRemove(name))
<1> DEFINE rest == Without(saved, name)
<1>0. saved \in Seq(Profiles) BY DEF TypeOK
<1>1. rest \in Seq(Profiles) BY <1>0, BookTypes
<1>2. Holds(saved, active) BY <1>0, HoldsIsHeld DEF ActiveHeld
<1>3. CASE At(saved, name) = {}
  BY <1>2, <1>3 DEF Without, ActiveAfterRemove
<1>4. CASE At(saved, name) # {} /\ SameName(active, name)
  <2>1. ActiveAfterRemove(name) = IF rest = <<>> THEN None ELSE Name[rest[1]]
    BY <1>4 DEF ActiveAfterRemove
  <2> HIDE DEF rest
  <2>2. CASE rest = <<>> BY <2>1, <2>2 DEF Holds, rest
  <2>3. CASE rest # <<>>
    <3>1. 1 \in 1 .. Len(rest) BY <1>1, <2>3
    <3> QED BY <1>1, <2>1, <2>3, <3>1, OwnNameIsHeld DEF rest
  <2> QED BY <2>2, <2>3
<1>5. CASE At(saved, name) # {} /\ ~SameName(active, name)
  <2> DEFINE i == Min(At(saved, name))
  <2>1. i \in At(saved, name) \cap 1 .. Len(saved) BY <1>0, <1>5, FirstAt
  <2>2. rest = RemoveAt(saved, i) BY <1>5 DEF Without
  <2>3. SameName(Name[saved[i]], name) BY <2>1 DEF At
  <2> HIDE DEF i, rest
  <2>4. /\ Len(rest) = Len(saved) - 1
        /\ \A j \in 1 .. Len(saved) - 1 :
              rest[j] = saved[IF j < i THEN j ELSE j + 1]
    BY <1>0, <2>1, <2>2, RemovedAt
  <2>5. ASSUME NEW j \in 1 .. Len(saved), SameName(Name[saved[j]], active)
        PROVE  \E k \in 1 .. Len(rest) : rest[k] = saved[j]
    <3>1. j # i BY <1>5, <2>3, <2>5 DEF SameName
    <3>2. CASE j < i
      <4>1. j \in 1 .. Len(rest) BY <1>0, <2>1, <2>4, <3>2
      <4> QED BY <2>4, <3>2, <4>1
    <3>3. CASE j > i
      <4>1. j - 1 \in 1 .. Len(rest) /\ ~(j - 1 < i) BY <1>0, <2>1, <2>4, <3>3
      <4> QED BY <2>4, <4>1
    <3> QED BY <2>1, <3>1, <3>2, <3>3
  <2>6. ActiveAfterRemove(name) = active BY <1>5 DEF ActiveAfterRemove
  <2>7. Holds(rest, active)
    <3> SUFFICES ASSUME active # None
                 PROVE  \E k \in 1 .. Len(rest) : SameName(Name[rest[k]], active)
      BY DEF Holds
    <3>1. PICK j \in 1 .. Len(saved) : SameName(Name[saved[j]], active)
      BY <1>2 DEF Holds
    <3>2. PICK k \in 1 .. Len(rest) : rest[k] = saved[j] BY <2>5, <3>1
    <3> QED BY <3>1, <3>2
  <2> QED BY <2>6, <2>7 DEF rest
<1> QED BY <1>3, <1>4, <1>5

\* saveProfile, accepted or not.
LEMMA EditHolds ==
    ASSUME TypeOK, ActiveHeld, NEW p \in Profiles
    PROVE  Holds(EditedBook(p), Name[p]) /\ Holds(EditedBook(p), EditedActive(p))
<1> DEFINE base == IF Renames(p) THEN Without(saved, editing) ELSE saved
           kept == IF Renames(p) THEN ActiveAfterRemove(editing) ELSE active
<1>1. saved \in Seq(Profiles) BY DEF TypeOK
<1>2. base \in Seq(Profiles) BY <1>1, BookTypes
<1>3. Holds(base, kept)
  <2>1. Holds(saved, active) BY <1>1, HoldsIsHeld DEF ActiveHeld
  <2> QED BY <2>1, RemoveHolds
<1>4. EditedBook(p) = Upsert(base, p) BY DEF EditedBook
<1>5. EditedActive(p) = IF kept = None THEN Name[p] ELSE kept
  BY DEF EditedActive
<1> HIDE DEF base, kept
<1> QED BY <1>2, <1>3, <1>4, <1>5, UpsertHolds

\* Removing a profile makes no two others duplicates.
LEMMA RemoveKeepsKeys ==
    ASSUME NEW book \in Seq(Profiles), UniqueKeys(book), NEW name
    PROVE  UniqueKeys(Without(book, name))
<1>1. CASE At(book, name) = {} BY <1>1 DEF Without
<1>2. CASE At(book, name) # {}
  <2> DEFINE i == Min(At(book, name))
             rest == RemoveAt(book, i)
  <2>1. i \in 1 .. Len(book) BY <1>2, FirstAt
  <2>2. Without(book, name) = rest BY <1>2 DEF Without
  <2> HIDE DEF i
  <2>3. /\ rest \in Seq(Profiles) /\ Len(rest) = Len(book) - 1
        /\ \A j \in 1 .. Len(book) - 1 :
              rest[j] = book[IF j < i THEN j ELSE j + 1]
    BY <2>1, RemovedAt
  <2> HIDE DEF rest
  <2>4. DOMAIN rest = 1 .. Len(book) - 1 /\ DOMAIN book = 1 .. Len(book)
    BY <2>3
  <2>5. ASSUME NEW j \in DOMAIN rest, NEW k \in DOMAIN rest,
               Key(Name[rest[j]]) = Key(Name[rest[k]])
        PROVE  j = k
    <3> DEFINE old(n) == IF n < i THEN n ELSE n + 1
    <3>1. old(j) \in DOMAIN book /\ old(k) \in DOMAIN book BY <2>1, <2>4
    <3>2. rest[j] = book[old(j)] /\ rest[k] = book[old(k)] BY <2>3, <2>4
    <3>3. old(j) = old(k)
      <4> HIDE DEF old
      <4> QED BY <2>5, <3>1, <3>2 DEF UniqueKeys
    <3> QED BY <2>1, <2>4, <3>3
  <2> QED BY <2>2, <2>5 DEF UniqueKeys
<1> QED BY <1>1, <1>2

\* What a step does to the file: read one, open a profile of it, remove one,
\* or fail to save an edit.
LEMMA BookSteps ==
    ASSUME TypeOK, ActiveHeld, [Next]_vars
    PROVE  /\ saved' \in Seq(Profiles)
           /\ Holds(saved', active')
           /\ UniqueKeys(saved) /\ ~UniqueKeys(saved') =>
                /\ mode = "profileForm"
                /\ UNCHANGED <<mode, linkVars, generation>>
<1> DEFINE Goal ==
          /\ saved' \in Seq(Profiles)
          /\ Holds(saved', active')
          /\ UniqueKeys(saved) /\ ~UniqueKeys(saved') =>
               /\ mode = "profileForm"
               /\ UNCHANGED <<mode, linkVars, generation>>
<1>0. saved \in Seq(Profiles) BY DEF TypeOK
<1>1. CASE UNCHANGED <<saved, active>>
  BY <1>0, <1>1, HoldsIsHeld DEF ActiveHeld
<1>2. ASSUME NEW cs, saved' \in Seq(Profiles),
             NEW i \in 1 .. Len(saved'), BeginProfile(saved'[i], cs)
      PROVE  Holds(saved', active')
  <2>1. active' = Name[saved'[i]] BY <1>2 DEF BeginProfile, Target
  <2> QED BY <1>2, <2>1, OwnNameIsHeld
<1>3. ASSUME NEW n
      PROVE  /\ Without(saved, n) \in Seq(Profiles)
             /\ UniqueKeys(saved) => UniqueKeys(Without(saved, n))
  BY <1>0, BookTypes, RemoveKeepsKeys
<1>4. CASE ConnectionKeys
  <2>1. CASE SaveProfile
    <3>1. PICK p \in Profiles :
            /\ EditIsValid(p) /\ saved' = EditedBook(p) /\ BeginProfile(p, cmds)
      BY <2>1 DEF SaveProfile, FormProfiles
    <3>2. active' = Name[p] BY <3>1 DEF BeginProfile, Target
    <3>3. UniqueKeys(saved') BY <3>1 DEF EditIsValid, Valid
    <3> QED BY <3>1, <3>2, <3>3, EditTypes, EditHolds
  <2>2. CASE SaveProfileFails
    <3>1. PICK p \in Profiles :
            /\ saved' = EditedBook(p)
            /\ active' \in {Name[p], EditedActive(p)}
      BY <2>2 DEF SaveProfileFails, FormProfiles
    <3>2. mode = "profileForm" /\ UNCHANGED <<mode, linkVars, generation>>
      BY <2>2 DEF SaveProfileFails, InForm
    <3> QED BY <3>1, <3>2, EditTypes, EditHolds
  <2>3. CASE OpenProfile
    <3>1. saved' = saved /\ CursorInRange /\ BeginProfile(saved[cursor + 1], cmds)
      BY <2>3 DEF OpenProfile, UnderCursor
    <3>2. cursor + 1 \in 1 .. Len(saved) BY <1>0, <3>1 DEF CursorInRange, TypeOK
    <3> QED BY <1>0, <1>2, <3>1, <3>2
  <2>4. CASE RemoveProfile
    <3>1. saved' = Without(saved, Name[UnderCursor]) BY <2>4, RemoveOpens
    <3>2. Holds(saved', active')
      BY <1>2, <2>4, <3>1, RemoveOpens, RemoveHolds
    <3> QED BY <1>3, <3>1, <3>2
  <2>5. CASE RemoveProfileFails
    <3>1. /\ saved' = Without(saved, Name[UnderCursor])
          /\ active' = ActiveAfterRemove(Name[UnderCursor])
      BY <2>5 DEF RemoveProfileFails
    <3>2. Holds(saved', active') BY <3>1, RemoveHolds
    <3> QED BY <1>3, <3>1, <3>2
  <2>6. CASE \/ OpenSelector \/ CloseSelector \/ MoveCursor \/ QuitSelector
             \/ NewProfile \/ EditProfile \/ CloseForm \/ CursorPanic
    BY <1>1, <2>6 DEF OpenSelector, CloseSelector, MoveCursor, QuitSelector,
                      QuitNow, NewProfile, EditProfile, CloseForm, OnlyMode,
                      CursorPanic
  <2> QED BY <1>4, <2>1, <2>2, <2>3, <2>4, <2>5, <2>6 DEF ConnectionKeys
<1>5. ASSUME NEW c \in cmds, ConnectionMessage(c)
      PROVE  Goal
  <2>1. CASE ConfigUnreadable(c) BY <1>1, <2>1 DEF ConfigUnreadable
  <2>2. CASE ConfigLoaded(c)
    <3>1. saved' \in Seq(Profiles) /\ UniqueKeys(saved') BY <2>2, ConfigOpens
    <3>2. Holds(saved', None) BY DEF Holds
    <3>3. Holds(saved', active') BY <1>2, <2>2, <3>1, <3>2, ConfigOpens
    <3> QED BY <3>1, <3>3
  <2>3. CASE \/ ProfileRefused(c) \/ ProfileConnectedUnlisted(c)
             \/ ProfileConnected(c)
    BY <1>1, <2>3 DEF ProfileRefused, ProfileConnectedUnlisted, ProfileConnected,
                      Connected
  <2> QED BY <1>5, <2>1, <2>2, <2>3 DEF ConnectionMessage
<1> QED BY <1>1, <1>4, <1>5, OthersKeepTargets
        DEF Next, UserStep, Deliver, Terminated

LEMMA ActiveHeldInductive ==
    ASSUME TypeOK, ActiveHeld, [Next]_vars
    PROVE  ActiveHeld'
<1>1. saved' \in Seq(Profiles) /\ Holds(saved', active') BY BookSteps
<1> QED BY <1>1, HoldsIsHeld DEF ActiveHeld

LEMMA ActiveIsAlwaysHeld == Spec => []ActiveHeld
<1>1. Init => ActiveHeld BY DEF Init, ActiveHeld
<1> QED BY <1>1, TypeCorrect, ActiveHeldInductive, PTL DEF Spec

LEMMA HeldActiveIsSaved ==
    ASSUME TypeOK, ActiveHeld
    PROVE  ActiveIsSaved
<1>1. saved \in Seq(Profiles) /\ active \in Names \cup {None} BY DEF TypeOK
<1> QED BY <1>1, HeldIsSpelled DEF ActiveHeld, ActiveIsSaved

\* Whatever is typed, renamed onto another profile, removed, refused or fails
\* to be saved, the active name of memory is that of a profile of memory.
THEOREM ActiveStaysSaved == Spec => []ActiveIsSaved
BY TypeCorrect, ActiveIsAlwaysHeld, HeldActiveIsSaved, PTL

\* Only an edit that the form goes on showing makes memory a file that Validate
\* refuses: no removal, failed or not, and nothing that is opened does.
THEOREM OnlyTheFormSpoils == Spec => OnlyRefusedEditsSpoil
<1> DEFINE Spoils ==
          Valid(saved, active) /\ ~Valid(saved', active')
            => mode = "profileForm" /\ UNCHANGED <<mode, linkVars, generation>>
<1>1. ASSUME TypeOK, ActiveHeld, [Next]_vars
      PROVE  [Spoils]_vars
  <2>1. TypeOK' BY <1>1, TypeIsInductive
  <2>2. saved' \in Seq(Profiles) /\ active' \in Names \cup {None}
    BY <2>1 DEF TypeOK
  <2>3. active' # None => At(saved', active') # {}
    BY <1>1, ActiveHeldInductive DEF ActiveHeld
  <2>4. active' # None => Spelled(saved', active') # {}
    BY <2>2, <2>3, HeldIsSpelled
  <2>5. UniqueKeys(saved) /\ ~UniqueKeys(saved') =>
          mode = "profileForm" /\ UNCHANGED <<mode, linkVars, generation>>
    BY <1>1, BookSteps
  <2> QED BY <2>4, <2>5 DEF Valid
<1> QED BY <1>1, TypeCorrect, ActiveIsAlwaysHeld, PTL
        DEF Spec, OnlyRefusedEditsSpoil
=============================================================================
