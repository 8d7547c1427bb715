--------------------------- MODULE ComponentProofs ---------------------------
(***************************************************************************)
(* What the helpers of the components return, and that the keys and the    *)
(* messages of each component keep every variable in its type, for every   *)
(* value of the constants.                                                 *)
(***************************************************************************)
EXTENDS Connection, Containers, ImagePull, ContainerCreate, Streams, TLAPS,
        WellFoundedInduction, SequenceTheorems

USE DEF bookVars, linkVars, viewVars, requestVars, inventoryVars, featureVars

-----------------------------------------------------------------------------
(* The helpers of AppState                                                 *)

\* clamp: a selection is an element of the visible list, or there is none.
LEMMA SelectionsType ==
    ASSUME NEW S, NEW V, V \subseteq S, NEW x \in Selections(V)
    PROVE  x \in S \cup {None}
BY DEF Selections

\* A filter hides elements of the list and adds none.
LEMMA VisibleInType ==
    ASSUME NEW list, NEW matching
    PROVE  VisibleIn(list, matching) \subseteq list
BY DEF VisibleIn

\* Ending a context leaves every command in flight a command, of the same
\* kind, target and generation.
LEMMA CancelledType ==
    ASSUME NEW cs, cs \subseteq Command, NEW kinds, NEW g
    PROVE  Cancelled(cs, kinds, g) \subseteq Command
<1>1. ASSUME NEW c \in cs
      PROVE  [c EXCEPT !.live = @ /\ ~(c.kind \in kinds /\ c.gen = g)] \in Command
  <2>1. c \in Command OBVIOUS
  <2>2. (c.live /\ ~(c.kind \in kinds /\ c.gen = g)) \in BOOLEAN OBVIOUS
  <2> QED BY <2>1, <2>2 DEF Command
<1> QED BY <1>1 DEF Cancelled

\* A handler sends well-formed commands.
LEMMA CmdType ==
    ASSUME TypeOK, NEW kind \in CommandKinds,
           NEW host \in Profiles \cup {None},
           NEW target \in Container \cup Image \cup {None}, NEW gen \in Nat,
           kind = "run" => target \in Image
    PROVE  Cmd(kind, host, target, gen) \in Command
BY DEF Cmd, Command, TypeOK

LEMMA RequestType ==
    ASSUME TypeOK, NEW kind \in CommandKinds,
           NEW target \in Container \cup Image \cup {None},
           kind = "run" => target \in Image
    PROVE  Request(kind, target) \in Command
<1>1. client \in Profiles \cup {None} /\ generation + 1 \in Nat BY DEF TypeOK
<1> QED BY <1>1, CmdType DEF Request

\* beginRequest starts the next generation and keeps its cancel function.
LEMMA BeginRequestType ==
    ASSUME TypeOK, NEW cs, cs \subseteq Command, NEW held,
           NEW new, new \subseteq Command, BeginRequest(cs, held, new)
    PROVE  /\ generation' \in Nat /\ requestCancel' \in Nat \cup {None}
           /\ cmds' \subseteq Command
<1>1. generation \in Nat BY DEF TypeOK
<1>2. Cancelled(cs, RequestKinds, held) \subseteq Command BY CancelledType
<1> QED BY <1>1, <1>2 DEF BeginRequest

\* Streams and pulls are stopped without being forgotten.
LEMMA StoppedType ==
    ASSUME TypeOK
    PROVE  /\ StoppedStream \in Stream
           /\ StoppedPull \in Pull
           /\ \A cs : cs \subseteq Command =>
                /\ WithoutStream(cs) \subseteq Command
                /\ WithoutPull(cs) \subseteq Command
<1>1. stream \in Stream /\ pull \in Pull BY DEF TypeOK
<1>2. StoppedStream \in Stream
  <2>1. stream.generation + 1 \in Nat BY <1>1 DEF Stream
  <2> QED BY <1>1, <2>1 DEF StoppedStream, Stream
<1>3. StoppedPull \in Pull
  <2>1. pull.generation + 1 \in Nat BY <1>1 DEF Pull
  <2> QED BY <1>1, <2>1 DEF StoppedPull, Pull
<1>4. \A cs : cs \subseteq Command =>
        /\ WithoutStream(cs) \subseteq Command
        /\ WithoutPull(cs) \subseteq Command
  BY CancelledType DEF WithoutStream, WithoutPull
<1> QED BY <1>2, <1>3, <1>4

LEMMA EmptyGalleryType ==
    ASSUME TypeOK
    PROVE  EmptyGallery \in Gallery
<1>1. gallery \in Gallery BY DEF TypeOK
<1> QED BY <1>1 DEF EmptyGallery, Gallery

\* The containers and images listed by a host are containers and images.
LEMMA HostListsType ==
    ASSUME NEW h
    PROVE  ContainersOf(h) \subseteq Container /\ ImagesOf(h) \subseteq Image
BY DEF ContainersOf, ImagesOf

-----------------------------------------------------------------------------
(* The commands of some kinds, and what cancelling others leaves of them   *)

Of(cs, kinds) == {c \in cs : c.kind \in kinds}

\* Ending a context leaves the commands of the other kinds as they are.
LEMMA OfCancelled ==
    ASSUME NEW cs, cs \subseteq Command, NEW kinds, NEW others, NEW g,
           kinds \cap others = {}
    PROVE  Of(Cancelled(cs, others, g), kinds) = Of(cs, kinds)
<1> DEFINE after(c) == [c EXCEPT !.live = @ /\ ~(c.kind \in others /\ c.gen = g)]
<1>1. ASSUME NEW c \in cs
      PROVE  /\ after(c).kind = c.kind
             /\ c.kind \in kinds => after(c) = c
  <2>1. c \in Command OBVIOUS
  <2>2. CASE c.kind \in kinds
    <3>1. (c.live /\ ~(c.kind \in others /\ c.gen = g)) = c.live
      BY <2>1, <2>2 DEF Command
    <3> QED BY <2>1, <3>1 DEF Command
  <2> QED BY <2>1, <2>2 DEF Command
<1>2. Cancelled(cs, others, g) = {after(c) : c \in cs} BY DEF Cancelled
<1> HIDE DEF after
<1> QED BY <1>1, <1>2 DEF Of

\* A request leaves the commands that are no requests as they are.
LEMMA OfBeginRequest ==
    ASSUME NEW cs, cs \subseteq Command, NEW kinds, NEW held, NEW new,
           BeginRequest(cs, held, new), kinds \cap RequestKinds = {},
           \A d \in new : d.kind \notin kinds
    PROVE  Of(cmds', kinds) = Of(cs, kinds)
<1>1. Of(Cancelled(cs, RequestKinds, held), kinds) = Of(cs, kinds)
  BY OfCancelled
<1> QED BY <1>1 DEF BeginRequest, Of

\* What a handler changes of the commands of some kinds, it changes of fewer.
LEMMA OfFewer ==
    ASSUME NEW cs, NEW ds, NEW kinds, NEW fewer, fewer \subseteq kinds,
           Of(cs, kinds) = Of(ds, kinds)
    PROVE  Of(cs, fewer) = Of(ds, fewer)
BY DEF Of

-----------------------------------------------------------------------------
(* Connection                                                              *)

\* Every set of positions has a first one.
LEMMA LessThanIsWellFounded ==
    IsWellFoundedOn({ss \in Nat \X Nat : ss[1] < ss[2]}, Nat)
<1>1. OpToRel(<, Nat) = {ss \in Nat \X Nat : ss[1] < ss[2]} BY DEF OpToRel
<1> QED BY <1>1, NatLessThanWellFounded, Zenon

LEMMA FirstOf ==
    ASSUME NEW S \in SUBSET Nat, S # {}
    PROVE  Min(S) \in S
<1> DEFINE R == {ss \in Nat \X Nat : ss[1] < ss[2]}
<1>1. IsWellFoundedOn(R, Nat) BY LessThanIsWellFounded
<1>2. S \subseteq Nat OBVIOUS
<1>3. \E x \in S : \A y \in S : ~ (<<y, x>> \in R)
  <2> HIDE DEF R
  <2> QED BY <1>1, <1>2, WFMin, Zenon
<1>4. ASSUME NEW x \in S, NEW y \in S, ~ (<<y, x>> \in R)
      PROVE  x <= y
  BY <1>4
<1>5. \E x \in S : \A y \in S : x <= y
  <2> HIDE DEF R
  <2> QED BY <1>3, <1>4
<1> QED BY <1>5 DEF Min

\* A look-up finds one of the positions that have the name.
LEMMA FirstAt ==
    ASSUME NEW book \in Seq(Profiles), NEW name
    PROVE  /\ At(book, name) # {} =>
                Min(At(book, name)) \in At(book, name) \cap 1 .. Len(book)
           /\ Spelled(book, name) # {} =>
                Min(Spelled(book, name)) \in Spelled(book, name) \cap 1 .. Len(book)
<1>1. DOMAIN book = 1 .. Len(book) /\ 1 .. Len(book) \subseteq Nat OBVIOUS
<1>2. /\ At(book, name) \subseteq 1 .. Len(book)
      /\ Spelled(book, name) \subseteq 1 .. Len(book)
  BY <1>1 DEF At, Spelled
<1> QED BY <1>1, <1>2, FirstOf

\* File.Remove keeps the other profiles, and their order.
LEMMA RemovedAt ==
    ASSUME NEW book \in Seq(Profiles), NEW i \in 1 .. Len(book)
    PROVE  /\ RemoveAt(book, i) \in Seq(Profiles)
           /\ Len(RemoveAt(book, i)) = Len(book) - 1
           /\ \A j \in 1 .. Len(book) - 1 :
                RemoveAt(book, i)[j] = book[IF j < i THEN j ELSE j + 1]
<1> DEFINE before == SubSeq(book, 1, i - 1)
           after == SubSeq(book, i + 1, Len(book))
<1>1. /\ before \in Seq(Profiles) /\ Len(before) = i - 1
      /\ \A j \in 1 .. i - 1 : before[j] = book[j]
  OBVIOUS
<1>2. /\ after \in Seq(Profiles) /\ Len(after) = Len(book) - i
      /\ \A j \in 1 .. Len(book) - i : after[j] = book[j + i]
  OBVIOUS
<1>3. RemoveAt(book, i) = before \o after BY DEF RemoveAt
<1> HIDE DEF before, after
<1>4. before \o after \in Seq(Profiles) /\ Len(before \o after) = Len(book) - 1
  BY <1>1, <1>2
<1>5. ASSUME NEW j \in 1 .. Len(book) - 1
      PROVE  (before \o after)[j] = book[IF j < i THEN j ELSE j + 1]
  <2>1. (before \o after)[j] =
          IF j <= Len(before) THEN before[j] ELSE after[j - Len(before)]
    BY <1>1, <1>2, ConcatProperties
  <2>2. CASE j < i BY <1>1, <2>1, <2>2
  <2>3. CASE ~(j < i)
    <3>1. j - Len(before) \in 1 .. Len(book) - i BY <1>1, <2>3
    <3> QED BY <1>1, <1>2, <2>1, <2>3, <3>1
  <2> QED BY <2>2, <2>3
<1> QED BY <1>3, <1>4, <1>5

\* File.Upsert replaces in place or appends.
LEMMA UpsertAt ==
    ASSUME NEW book \in Seq(Profiles), NEW p \in Profiles
    PROVE  /\ Upsert(book, p) \in Seq(Profiles)
           /\ \E i \in 1 .. Len(Upsert(book, p)) :
                /\ Upsert(book, p)[i] = p
                /\ \A j \in 1 .. Len(book) : j # i => Upsert(book, p)[j] = book[j]
                /\ Len(book) <= Len(Upsert(book, p))
                /\ i \in 1 .. Len(book) => SameName(Name[book[i]], Name[p])
<1>1. CASE At(book, Name[p]) = {}
  <2>1. Upsert(book, p) = Append(book, p) BY <1>1 DEF Upsert
  <2>2. /\ Append(book, p) \in Seq(Profiles)
        /\ Len(Append(book, p)) = Len(book) + 1
        /\ Append(book, p)[Len(book) + 1] = p
        /\ \A j \in 1 .. Len(book) : Append(book, p)[j] = book[j]
    OBVIOUS
  <2>3. Len(book) + 1 \in 1 .. Len(Append(book, p)) BY <2>2
  <2> QED BY <2>1, <2>2, <2>3
<1>2. CASE At(book, Name[p]) # {}
  <2> DEFINE first == Min(At(book, Name[p]))
  <2>1. Upsert(book, p) = [book EXCEPT ![first] = p]
    BY <1>2 DEF Upsert, ReplaceAt
  <2>2. first \in At(book, Name[p]) \cap 1 .. Len(book) BY <1>2, FirstAt
  <2>3. SameName(Name[book[first]], Name[p]) BY <2>2 DEF At
  <2> HIDE DEF first
  <2>4. /\ [book EXCEPT ![first] = p] \in Seq(Profiles)
        /\ Len([book EXCEPT ![first] = p]) = Len(book)
        /\ [book EXCEPT ![first] = p][first] = p
        /\ \A j \in 1 .. Len(book) :
              j # first => [book EXCEPT ![first] = p][j] = book[j]
    BY <2>2
  <2> QED BY <2>1, <2>2, <2>3, <2>4
<1> QED BY <1>1, <1>2

\* The edits keep a file of profiles.
LEMMA BookTypes ==
    ASSUME NEW book \in Seq(Profiles), NEW name
    PROVE  /\ \A p \in Profiles : Upsert(book, p) \in Seq(Profiles)
           /\ Without(book, name) \in Seq(Profiles)
           /\ ActiveProfile(book, name) \in Profiles \cup {None}
           /\ IndexOf(book, name) \in Nat
           /\ ActiveProfile(book, name) # None =>
                \E i \in 1 .. Len(book) : ActiveProfile(book, name) = book[i]
<1>1. \A p \in Profiles : Upsert(book, p) \in Seq(Profiles) BY UpsertAt
<1>2. Without(book, name) \in Seq(Profiles)
  BY FirstAt, RemovedAt DEF Without
<1>3. \A i \in 1 .. Len(book) : book[i] \in Profiles OBVIOUS
<1>4. ActiveProfile(book, name) # None =>
         \E i \in 1 .. Len(book) : ActiveProfile(book, name) = book[i]
  BY FirstAt DEF ActiveProfile
<1>5. IndexOf(book, name) \in Nat
  BY FirstAt DEF IndexOf
<1> QED BY <1>1, <1>2, <1>3, <1>4, <1>5

LEMMA ActiveAfterRemoveType ==
    ASSUME TypeOK, NEW name
    PROVE  ActiveAfterRemove(name) \in Names \cup {None}
<1>1. Without(saved, name) \in Seq(Profiles) BY BookTypes DEF TypeOK
<1>2. Without(saved, name) # <<>> => Without(saved, name)[1] \in Profiles
  BY <1>1
<1> QED BY <1>2, ProfilesAssumption DEF ActiveAfterRemove, TypeOK

LEMMA EditTypes ==
    ASSUME TypeOK, NEW p \in Profiles
    PROVE  /\ EditedBook(p) \in Seq(Profiles)
           /\ EditedActive(p) \in Names
           /\ Name[p] \in Names
<1>1. saved \in Seq(Profiles) /\ active \in Names \cup {None} BY DEF TypeOK
<1>2. EditedBook(p) \in Seq(Profiles) BY <1>1, BookTypes DEF EditedBook
<1>3. Name[p] \in Names BY ProfilesAssumption
<1>4. EditedActive(p) \in Names
  BY <1>1, <1>3, ActiveAfterRemoveType DEF EditedActive
<1> QED BY <1>2, <1>3, <1>4

LEMMA CursorTypes ==
    ASSUME TypeOK
    PROVE  /\ CursorInRange => UnderCursor \in Profiles
           /\ \A i \in Nat, n \in Nat : Clamped(i, n) \in Nat
<1>1. saved \in Seq(Profiles) /\ cursor \in Nat BY DEF TypeOK
<1>2. CursorInRange => UnderCursor \in Profiles
  BY <1>1 DEF CursorInRange, UnderCursor
<1> QED BY <1>2 DEF Clamped

\* beginProfile, for callers that keep the file and the cursor well-typed.
LEMMA BeginProfileType ==
    ASSUME TypeOK, NEW p \in Profiles, NEW cs, cs \subseteq Command,
           BeginProfile(p, cs),
           saved' \in Seq(Profiles), cursor' \in Nat,
           editing' \in Names \cup {None}
    PROVE  TypeOK'
<1>1. stream' \in Stream /\ pull' \in Pull
  <2>1. stream' = StoppedStream /\ pull' = [StoppedPull EXCEPT !.status = "idle"]
    BY DEF BeginProfile
  <2> QED BY <2>1, StoppedType DEF Pull, PullStates
<1>2. create' \in Create
  <2>1. create \in Create BY DEF TypeOK
  <2>2. 0 \in Nat OBVIOUS
  <2> QED BY <2>1, <2>2 DEF BeginProfile, Create, CreateStates
<1>3. gallery' \in Gallery BY EmptyGalleryType DEF BeginProfile
<1>4. generation' \in Nat /\ requestCancel' \in Nat \cup {None} /\ cmds' \subseteq Command
  <2>1. Cmd("connect", p, None, generation + 1) \in Command
    <3>1. generation + 1 \in Nat BY DEF TypeOK
    <3> QED BY <3>1, CmdType DEF CommandKinds, RequestKinds, Reads
  <2>2. WithoutPull(WithoutStream(cs)) \subseteq Command BY StoppedType
  <2> QED BY <2>1, <2>2, BeginRequestType DEF BeginProfile
<1>5. active' \in Names \cup {None} /\ {profile, client}' \subseteq Profiles \cup {None}
  BY ProfilesAssumption DEF BeginProfile, Target
<1> QED BY <1>1, <1>2, <1>3, <1>4, <1>5
    DEF BeginProfile, TypeOK, Screens, Modes, Errors

\* The three ways to a target open one of the profiles, or leave the console
\* without a target and change nothing else of the session's features.
Untargeted(cs) ==
    /\ profile' = None /\ client' \in {client, None} /\ mode' = "profiles"
    /\ cmds' = cs
    /\ UNCHANGED <<loop, screen, err, requestVars, inventoryVars, filter,
                   featureVars, gone>>

TargetStep(cs) == Untargeted(cs) \/ \E p \in Profiles : BeginProfile(p, cs)

LEMMA ConfigOpens ==
    ASSUME NEW c, ConfigLoaded(c)
    PROVE  /\ TargetStep(cmds \ {c})
           /\ saved' \in Seq(Profiles) /\ UniqueKeys(saved')
           /\ UNCHANGED <<cursor, editing>>
           /\ \/ \E i \in 1 .. Len(saved') : BeginProfile(saved'[i], cmds \ {c})
              \/ /\ active' = None /\ UNCHANGED client
                 /\ Untargeted(cmds \ {c})
<1> DEFINE left(name) ==
          /\ active' = name
          /\ profile' = None /\ mode' = "profiles"
          /\ cmds' = cmds \ {c}
          /\ UNCHANGED <<loop, client, screen, err, requestVars,
                         inventoryVars, filter, featureVars, gone>>
       Openable(book, name) ==
          {ActiveProfile(book, name)} \cup
             (IF name = None THEN Range(book) ELSE {})
<1>1. PICK n \in 0 .. Cardinality(Profiles) :
        \E book \in [1 .. n -> Profiles], name \in Names \cup {None} :
           /\ Valid(book, name)
           /\ saved' = book
           /\ UNCHANGED <<cursor, editing>>
           /\ \E p \in Openable(book, name) :
                 IF p # None THEN BeginProfile(p, cmds \ {c}) ELSE left(name)
  BY DEF ConfigLoaded
<1>2. PICK book \in [1 .. n -> Profiles], name \in Names \cup {None} :
         /\ Valid(book, name)
         /\ saved' = book
         /\ UNCHANGED <<cursor, editing>>
         /\ \E p \in Openable(book, name) :
               IF p # None THEN BeginProfile(p, cmds \ {c}) ELSE left(name)
  BY <1>1
<1>3. PICK p \in Openable(book, name) :
         IF p # None THEN BeginProfile(p, cmds \ {c}) ELSE left(name)
  BY <1>2
<1>4. book \in Seq(Profiles) /\ DOMAIN book = 1 .. Len(book)
  <2>1. n \in Nat BY <1>1
  <2> QED BY <2>1
<1>5. CASE p # None
  <2>1. \E i \in 1 .. Len(book) : p = book[i]
    <3>1. CASE p = ActiveProfile(book, name) BY <1>4, <1>5, <3>1, BookTypes
    <3>2. CASE p \in Range(book) BY <1>4, <3>2 DEF Range
    <3> QED BY <1>3, <3>1, <3>2
  <2>2. \A i \in 1 .. Len(book) : book[i] \in Profiles BY <1>4
  <2>3. BeginProfile(p, cmds \ {c}) BY <1>3, <1>5
  <2> QED BY <1>2, <1>4, <2>1, <2>2, <2>3 DEF TargetStep, Valid
<1>6. CASE p = None
  <2>1. left(name) BY <1>3, <1>6
  <2>2. name = None
    <3> SUFFICES ASSUME name # None PROVE FALSE OBVIOUS
    <3>1. Spelled(book, name) # {} BY <1>2 DEF Valid
    <3>2. Min(Spelled(book, name)) \in 1 .. Len(book) BY <1>4, <3>1, FirstAt
    <3>3. ActiveProfile(book, name) = book[Min(Spelled(book, name))]
      BY <3>1 DEF ActiveProfile
    <3>4. p \in Profiles BY <1>2, <1>3, <1>4, <3>2, <3>3
    <3> QED BY <1>6, <3>4, NoneAssumption
  <2> QED BY <1>2, <1>4, <2>1, <2>2 DEF TargetStep, Untargeted, Valid
<1> QED BY <1>5, <1>6

LEMMA RemoveOpens ==
    ASSUME TypeOK, RemoveProfile
    PROVE  /\ CursorInRange
           /\ saved' = Without(saved, Name[UnderCursor])
           /\ Valid(saved', ActiveAfterRemove(Name[UnderCursor]))
           /\ cursor' \in Nat /\ UNCHANGED editing
           /\ saved' \in Seq(Profiles)
           /\ \/ \E i \in 1 .. Len(saved') : BeginProfile(saved'[i], cmds)
              \/ /\ active' = ActiveAfterRemove(Name[UnderCursor])
                 /\ client' = None /\ Untargeted(cmds)
<1> DEFINE name == Name[UnderCursor]
           rest == Without(saved, name)
           next == ActiveAfterRemove(name)
<1>1. /\ CursorInRange /\ saved' = rest /\ Valid(saved', next)
      /\ cursor' = Clamped(cursor, Len(saved')) /\ UNCHANGED editing
  BY DEF RemoveProfile
<1>2. rest \in Seq(Profiles)
  <2>1. saved \in Seq(Profiles) BY DEF TypeOK
  <2> QED BY <2>1, BookTypes
<1>3. cursor' \in Nat
  <2>1. cursor \in Nat /\ Len(saved') \in Nat BY <1>1, <1>2 DEF TypeOK
  <2> QED BY <1>1, <2>1, CursorTypes
<1>4. LET p == ActiveProfile(saved', next)
      IN  IF p # None THEN BeginProfile(p, cmds)
          ELSE active' = next /\ client' = None /\ Untargeted(cmds)
  BY DEF RemoveProfile, Untargeted
<1> HIDE DEF rest, next, name
<1>5. ActiveProfile(saved', next) # None =>
         \E i \in 1 .. Len(saved') : ActiveProfile(saved', next) = saved'[i]
  BY <1>1, <1>2, BookTypes
<1>6. \/ \E i \in 1 .. Len(saved') : BeginProfile(saved'[i], cmds)
      \/ active' = next /\ client' = None /\ Untargeted(cmds)
  BY <1>4, <1>5
<1>7. saved' \in Seq(Profiles) BY <1>1, <1>2
<1> QED BY <1>1, <1>3, <1>6, <1>7 DEF rest, next, name

LEMMA SelectorOpens ==
    ASSUME TypeOK, SaveProfile \/ OpenProfile \/ RemoveProfile
    PROVE  /\ TargetStep(cmds)
           /\ (~\E p \in Profiles : BeginProfile(p, cmds)) => client' = None
<1>1. CASE SaveProfile BY <1>1 DEF SaveProfile, FormProfiles, TargetStep
<1>2. CASE OpenProfile
  BY <1>2, CursorTypes DEF OpenProfile, TargetStep
<1>3. CASE RemoveProfile
  <2>1. \A i \in 1 .. Len(saved') : saved'[i] \in Profiles
    BY <1>3, RemoveOpens
  <2> QED BY <1>3, <2>1, RemoveOpens DEF TargetStep
<1> QED BY <1>1, <1>2, <1>3

\* The messages: ConfigLoadedMsg and ProfileConnectedMsg.
LEMMA ConnectionMessageType ==
    ASSUME TypeOK, NEW c \in cmds,
           \/ ConfigUnreadable(c) \/ ConfigLoaded(c)
           \/ ProfileRefused(c) \/ ProfileConnectedUnlisted(c)
           \/ ProfileConnected(c)
    PROVE  TypeOK'
<1>1. c \in Command /\ cmds \ {c} \subseteq Command BY DEF TypeOK
<1>2. CASE ConfigUnreadable(c)
  BY <1>1, <1>2 DEF ConfigUnreadable, TypeOK, Modes, Errors
<1>3. CASE ConfigLoaded(c)
  <2>1. /\ saved' \in Seq(Profiles) /\ cursor' \in Nat
        /\ editing' \in Names \cup {None}
    BY <1>3, ConfigOpens DEF TypeOK
  <2>2. ASSUME NEW p \in Profiles, BeginProfile(p, cmds \ {c})
        PROVE  TypeOK'
    BY <1>1, <2>1, <2>2, BeginProfileType
  <2>3. CASE Untargeted(cmds \ {c}) /\ active' = None
    BY <1>1, <2>1, <2>3 DEF Untargeted, TypeOK, Modes
  <2>4. \A i \in 1 .. Len(saved') : saved'[i] \in Profiles BY <2>1
  <2> QED BY <1>3, <2>2, <2>3, <2>4, ConfigOpens
<1>4. ASSUME NEW session \in {None, c.host}, Connected(c, session)
      PROVE  /\ pull' \in Pull /\ cmds' \subseteq Command
             /\ requestCancel' = None /\ loading' = FALSE
             /\ {profile, client}' \subseteq Profiles \cup {None}
             /\ UNCHANGED <<loop, bookVars, screen, mode, generation, details,
                            detailLoading, filter, pending, stream, create, gone>>
  BY <1>1, <1>4, StoppedType DEF Connected, Command
<1>5. CASE ProfileRefused(c)
  <2>1. Connected(c, None) BY <1>5 DEF ProfileRefused
  <2> QED BY <1>4, <1>5, <2>1 DEF ProfileRefused, TypeOK, Errors
<1>6. CASE ProfileConnectedUnlisted(c)
  <2>1. Connected(c, c.host) BY <1>6 DEF ProfileConnectedUnlisted
  <2> QED BY <1>4, <1>6, <2>1 DEF ProfileConnectedUnlisted, TypeOK, Errors
<1>7. CASE ProfileConnected(c)
  <2>1. Connected(c, c.host) BY <1>7 DEF ProfileConnected
  <2>2. containers' \subseteq Container /\ selected' \in Container \cup {None}
    BY <1>7 DEF ProfileConnected, ContainersOf, Selections, VisibleIn
  <2>3. gallery' \in Gallery
    BY <1>7, EmptyGalleryType DEF ProfileConnected, Gallery, Errors
  <2> QED BY <1>4, <1>7, <2>1, <2>2, <2>3 DEF ProfileConnected, TypeOK, Errors
<1> QED BY <1>2, <1>3, <1>5, <1>6, <1>7

\* The keys of the selector and of the profile form.
LEMMA ConnectionKeysType ==
    ASSUME TypeOK,
           \/ OpenSelector \/ CloseSelector \/ MoveCursor \/ QuitSelector
           \/ NewProfile \/ EditProfile \/ CloseForm \/ CursorPanic
           \/ SaveProfile \/ SaveProfileFails \/ RemoveProfile
           \/ RemoveProfileFails \/ OpenProfile
    PROVE  TypeOK'
<1> USE DEF TypeOK
<1>1. CASE OpenSelector
  <2>1. cursor' \in Nat BY <1>1, BookTypes DEF OpenSelector
  <2> QED BY <1>1, <2>1 DEF OpenSelector, Modes
<1>2. CASE CloseSelector BY <1>2 DEF CloseSelector, OnlyMode, Modes
<1>3. CASE MoveCursor
  <2>1. cursor \in Nat /\ Len(saved) \in Nat OBVIOUS
  <2>2. cursor' \in Nat
    <3>1. CASE cursor' = Clamped(cursor + 1, Len(saved))
      <4>1. cursor + 1 \in Nat BY <2>1
      <4> QED BY <2>1, <3>1, <4>1, CursorTypes
    <3>2. CASE cursor' = IF cursor = 0 THEN 0 ELSE Clamped(cursor - 1, Len(saved))
      <4>1. cursor # 0 => cursor - 1 \in Nat BY <2>1
      <4> QED BY <2>1, <3>2, <4>1, CursorTypes
    <3> QED BY <1>3, <3>1, <3>2 DEF MoveCursor
  <2> QED BY <1>3, <2>2 DEF MoveCursor
<1>4. CASE QuitSelector BY <1>4 DEF QuitSelector, QuitNow
<1>5. CASE NewProfile BY <1>5 DEF NewProfile, OnlyMode, Modes
<1>6. CASE EditProfile
  <2>1. Name[UnderCursor] \in Names
    BY <1>6, CursorTypes, ProfilesAssumption DEF EditProfile
  <2> QED BY <1>6, <2>1 DEF EditProfile, OnlyMode, Modes
<1>7. CASE CloseForm BY <1>7 DEF CloseForm, OnlyMode, Modes
<1>8. CASE CursorPanic BY <1>8 DEF CursorPanic
<1>9. CASE SaveProfile
  <2>1. PICK p \in Profiles :
          /\ saved' = EditedBook(p) /\ cursor' = IndexOf(EditedBook(p), Name[p])
          /\ BeginProfile(p, cmds) /\ UNCHANGED editing
    BY <1>9 DEF SaveProfile, FormProfiles
  <2>2. EditedBook(p) \in Seq(Profiles) BY EditTypes
  <2>3. IndexOf(EditedBook(p), Name[p]) \in Nat BY <2>2, BookTypes
  <2> QED BY <2>1, <2>2, <2>3, BeginProfileType
<1>10. CASE SaveProfileFails
  <2>1. PICK p \in Profiles :
          /\ saved' = EditedBook(p)
          /\ active' = IF EditIsValid(p) THEN Name[p] ELSE EditedActive(p)
    BY <1>10 DEF SaveProfileFails, FormProfiles
  <2>2. EditedBook(p) \in Seq(Profiles) /\ {EditedActive(p), Name[p]} \subseteq Names
    BY EditTypes
  <2> QED BY <1>10, <2>1, <2>2 DEF SaveProfileFails
<1>11. CASE RemoveProfile
  <2>1. /\ saved' = Without(saved, Name[UnderCursor])
        /\ cursor' \in Nat /\ UNCHANGED editing
    BY <1>11, RemoveOpens
  <2>2. saved' \in Seq(Profiles) BY <2>1, BookTypes
  <2>3. ASSUME NEW p \in Profiles, BeginProfile(p, cmds)
        PROVE  TypeOK'
    BY <2>1, <2>2, <2>3, BeginProfileType
  <2>4. CASE /\ active' = ActiveAfterRemove(Name[UnderCursor])
             /\ Untargeted(cmds)
    <3>1. active' \in Names \cup {None} BY <2>4, ActiveAfterRemoveType
    <3> QED BY <2>1, <2>2, <2>4, <3>1 DEF Untargeted, Modes
  <2>5. \A i \in 1 .. Len(saved') : saved'[i] \in Profiles BY <2>2
  <2> QED BY <1>11, <2>3, <2>4, <2>5, RemoveOpens
<1>12. CASE RemoveProfileFails
  <2>1. /\ saved' = Without(saved, Name[UnderCursor])
        /\ active' = ActiveAfterRemove(Name[UnderCursor])
    BY <1>12 DEF RemoveProfileFails
  <2>2. saved' \in Seq(Profiles) BY <2>1, BookTypes
  <2>3. active' \in Names \cup {None} BY <2>1, ActiveAfterRemoveType
  <2> QED BY <1>12, <2>2, <2>3 DEF RemoveProfileFails, Errors
<1>13. CASE OpenProfile
  <2>1. UnderCursor \in Profiles BY <1>13, CursorTypes DEF OpenProfile
  <2> QED BY <1>13, <2>1, BeginProfileType DEF OpenProfile
<1> QED BY <1>1, <1>2, <1>3, <1>4, <1>5, <1>6, <1>7, <1>8, <1>9, <1>10, <1>11,
           <1>12, <1>13

-----------------------------------------------------------------------------
(* Containers and streams                                                  *)

LEMMA selectedIDType ==
    ASSUME TypeOK
    PROVE  selectedID \in Container \cup {None}
BY DEF selectedID, TypeOK

\* refresh and runOperation, on what they may change.
LEMMA RefreshType ==
    ASSUME TypeOK, NEW l \in BOOLEAN, NEW e \in Errors,
           NEW cs, cs \subseteq Command, NEW held \in Nat \cup {None},
           Refresh(l, e, cs, held)
    PROVE  /\ err' \in Errors /\ loading' \in BOOLEAN
           /\ generation' \in Nat /\ requestCancel' \in Nat \cup {None}
           /\ cmds' \subseteq Command
<1>1. CASE client = None /\ err' = "other" /\ loading' = l /\ NoRequest(cs, held)
  BY <1>1 DEF NoRequest, Errors, TypeOK
<1>2. CASE err' = e /\ loading' = TRUE
           /\ BeginRequest(cs, held, {Request("list", None)})
  <2>1. Request("list", None) \in Command
    BY RequestType DEF CommandKinds, RequestKinds, Reads
  <2> QED BY <1>2, <2>1, BeginRequestType
<1> QED BY <1>1, <1>2 DEF Refresh

LEMMA RunOperationType ==
    ASSUME TypeOK, NEW action \in Mutations, NEW target,
           target \in Container \cup Image \cup {None},
           RunOperation(action, target)
    PROVE  /\ err' \in Errors /\ loading' \in BOOLEAN
           /\ generation' \in Nat /\ requestCancel' \in Nat \cup {None}
           /\ cmds' \subseteq Command
<1>1. CASE err' = "other" /\ UNCHANGED <<loading, requestVars, cmds>>
  BY <1>1 DEF Errors, TypeOK
<1>2. CASE err' = None /\ loading' = TRUE
           /\ BeginRequest(cmds, requestCancel, {Request(action, target)})
  <2>1. Request(action, target) \in Command
    BY RequestType DEF CommandKinds, RequestKinds, Mutations, Lifecycle
  <2>2. cmds \subseteq Command BY DEF TypeOK
  <2> QED BY <1>2, <2>1, <2>2, BeginRequestType DEF Errors
<1> QED BY <1>1, <1>2 DEF RunOperation

\* A dialog opened on a target is a dialog.
LEMMA ConfirmingType ==
    ASSUME TypeOK, NEW action \in Mutations \ {"start"},
           NEW target \in Container \cup Image,
           Confirming(action, target)
    PROVE  pending' \in Dialog /\ mode' \in Modes /\ err' \in Errors
<1>1. generation \in Nat /\ profile \in Profiles \cup {None} BY DEF TypeOK
<1> QED BY <1>1 DEF Confirming, Dialog, Mutations, Lifecycle, Modes, Errors

-----------------------------------------------------------------------------
\* The keys of the inventory and of the details.
LEMMA ContainerKeysType ==
    ASSUME TypeOK,
           \/ RefreshKey \/ RefreshDetails \/ MoveSelection
           \/ OpenDetails \/ OpenDetailsRefused \/ CloseDetails
           \/ StartKey
           \/ \E action \in Lifecycle \ {"start"} : RequestConfirmation(action)
    PROVE  TypeOK'
<1>0. cmds \subseteq Command BY DEF TypeOK
<1>1. CASE RefreshKey
  <2>1. Refresh(loading, err, cmds, requestCancel) BY <1>1 DEF RefreshKey
  <2>2. /\ loading \in BOOLEAN /\ err \in Errors
        /\ requestCancel \in Nat \cup {None} BY DEF TypeOK
  <2> QED BY <1>0, <1>1, <2>1, <2>2, RefreshType DEF RefreshKey, TypeOK
<1>2. ASSUME NEW target \in Container,
             BeginRequest(cmds, requestCancel, {Request("inspect", target)})
      PROVE  /\ generation' \in Nat /\ requestCancel' \in Nat \cup {None}
             /\ cmds' \subseteq Command
  <2>1. Request("inspect", target) \in Command
    BY RequestType DEF CommandKinds, RequestKinds, Reads
  <2> QED BY <1>0, <1>2, <2>1, BeginRequestType
<1>3. CASE RefreshDetails
  <2>1. details \in Container BY <1>3 DEF RefreshDetails, TypeOK
  <2> QED BY <1>2, <1>3, <2>1 DEF RefreshDetails, TypeOK
<1>4. CASE MoveSelection
  <2>1. selected' \in Container \cup {None}
    BY <1>4 DEF MoveSelection, Selections, visibleContainers, VisibleIn, TypeOK
  <2> QED BY <1>4, <2>1 DEF MoveSelection, TypeOK
<1>5. CASE OpenDetails
  <2>1. selectedID \in Container BY <1>5, selectedIDType DEF OpenDetails
  <2>2. screen' \in Screens /\ err' \in Errors BY <1>5 DEF OpenDetails, Screens, Errors
  <2> QED BY <1>2, <1>5, <2>1, <2>2 DEF OpenDetails, TypeOK
<1>6. CASE OpenDetailsRefused
  BY <1>6 DEF OpenDetailsRefused, Refuse, Errors, TypeOK
<1>7. CASE CloseDetails BY <1>7 DEF CloseDetails, Screens, TypeOK
<1>8. CASE StartKey
  <2>1. RunOperation("start", selectedID) BY <1>8 DEF StartKey
  <2> HIDE DEF selectedID
  <2> QED BY <1>8, <2>1, selectedIDType, RunOperationType
          DEF StartKey, TypeOK, Mutations, Lifecycle
<1>9. ASSUME NEW action \in Lifecycle \ {"start"}, RequestConfirmation(action)
      PROVE  TypeOK'
  <2>1. CASE selectedID = None /\ Refuse BY <2>1 DEF Refuse, Errors, TypeOK
  <2>2. CASE selectedID # None /\ Confirming(action, selectedID)
    <3>1. selectedID \in Container BY <2>2, selectedIDType
    <3>2. pending' \in Dialog /\ mode' \in Modes /\ err' \in Errors
      BY <2>2, <3>1, ConfirmingType DEF Mutations
    <3>3. UNCHANGED <<loop, bookVars, linkVars, screen, requestVars,
                      inventoryVars, filter, gallery, stream, pull, create,
                      cmds, gone>>
      BY <1>9, <2>2 DEF RequestConfirmation
    <3> QED BY <3>2, <3>3 DEF TypeOK
  <2> QED BY <1>9, <2>1, <2>2 DEF RequestConfirmation
<1> QED BY <1>1, <1>3, <1>4, <1>5, <1>6, <1>7, <1>8, <1>9

\* The filter, and the streams' keys.
LEMMA FilterKeysType ==
    ASSUME TypeOK, OpenFilter \/ TypeFilter \/ AcceptFilter \/ LeaveFilter
    PROVE  TypeOK'
<1>1. ASSUME NEW editing2 \in BOOLEAN, NEW matching \in SUBSET ContainerIds,
             NEW choice, choice \subseteq Container \cup {None},
             Filtering(editing2, matching, choice)
      PROVE  TypeOK'
  BY <1>1 DEF Filtering, TypeOK
<1>2. filter.matching \in SUBSET ContainerIds /\ selected \in Container \cup {None}
  BY DEF TypeOK
<1>3. \A matching : Selections(VisibleIn(containers, matching))
                      \subseteq Container \cup {None}
  BY DEF Selections, VisibleIn, TypeOK
<1>4. CASE OpenFilter
  BY <1>1, <1>2, <1>4 DEF OpenFilter
<1>5. CASE TypeFilter
  BY <1>1, <1>3, <1>5 DEF TypeFilter
<1>6. CASE AcceptFilter
  BY <1>1, <1>2, <1>3, <1>6 DEF AcceptFilter, visibleContainers
<1>7. CASE LeaveFilter
  BY <1>1, <1>2, <1>7 DEF LeaveFilter
<1> QED BY <1>4, <1>5, <1>6, <1>7

LEMMA StreamKeysType ==
    ASSUME TypeOK, (\E kind \in StreamKinds : OpenStream(kind)) \/ CloseStream
    PROVE  TypeOK'
<1>0. cmds \subseteq Command /\ stream \in Stream BY DEF TypeOK
<1>1. ASSUME NEW kind \in StreamKinds, OpenStream(kind)
      PROVE  TypeOK'
  <2>1. CASE None \in {selectedID, client}
    BY <1>1, <2>1 DEF OpenStream, Refuse, Errors, TypeOK
  <2>2. CASE None \notin {selectedID, client}
    <3> DEFINE g == stream.generation + 2
    <3>1. /\ stream' = [generation |-> g, cancel |-> g, back |-> screen,
                        target |-> selectedID, host |-> client,
                        stopped |-> FALSE]
          /\ cmds' = WithoutStream(cmds) \cup {Cmd(kind, client, selectedID, g)}
          /\ screen' = kind
          /\ UNCHANGED err /\ OnlyStream
      BY <1>1, <2>2 DEF OpenStream
    <3>2. g \in Nat BY <1>0 DEF Stream
    <3>3. selectedID \in Container \cup {None} /\ client \in Profiles \cup {None}
          /\ screen \in Screens
      BY selectedIDType DEF TypeOK
    <3>4. stream' \in Stream
      <4> HIDE DEF g
      <4> QED BY <3>1, <3>2, <3>3 DEF Stream
    <3>5. Cmd(kind, client, selectedID, g) \in Command
      <4> HIDE DEF g
      <4>1. kind \in CommandKinds /\ kind # "run"
        BY DEF CommandKinds, StreamKinds
      <4>2. selectedID \in Container \cup Image \cup {None} BY <3>3
      <4> QED BY <3>2, <3>3, <4>1, <4>2, CmdType
    <3>6. cmds' \subseteq Command BY <1>0, <3>1, <3>5, StoppedType
    <3>7. screen' \in Screens BY <3>1 DEF StreamKinds, Screens
    <3> QED BY <3>1, <3>4, <3>6, <3>7 DEF OnlyStream, TypeOK
  <2> QED BY <2>1, <2>2
<1>2. CASE CloseStream
  <2>1. stream' \in Stream BY <1>2, StoppedType DEF CloseStream, Stream
  <2>2. cmds' \subseteq Command BY <1>0, <1>2, StoppedType DEF CloseStream
  <2>3. screen' \in Screens BY <1>0, <1>2 DEF CloseStream, Stream
  <2> QED BY <1>2, <2>1, <2>2, <2>3 DEF CloseStream, OnlyStream, TypeOK
<1> QED BY <1>1, <1>2

-----------------------------------------------------------------------------
\* Replies.
LEMMA ContainerMessageType ==
    ASSUME TypeOK, NEW c \in cmds,
           \/ InventoryLoaded(c) \/ InventoryFailed(c)
           \/ DetailsLoaded(c) \/ DetailsFailed(c)
           \/ OperationSucceeded(c) \/ OperationFailed(c) \/ OperationStale(c)
    PROVE  TypeOK'
<1>0. c \in Command /\ cmds \ {c} \subseteq Command BY DEF TypeOK
<1>1. CASE InventoryLoaded(c)
  <2>1. containers' \subseteq Container /\ selected' \in Container \cup {None}
    BY <1>1 DEF InventoryLoaded, ContainersOf, Selections, VisibleIn
  <2> QED BY <1>0, <1>1, <2>1
          DEF InventoryLoaded, InventoryReply, NoRequest, Errors, TypeOK
<1>2. CASE InventoryFailed(c)
  BY <1>0, <1>2 DEF InventoryFailed, InventoryReply, NoRequest, Errors, TypeOK
<1>3. CASE DetailsLoaded(c)
  BY <1>0, <1>3 DEF DetailsLoaded, DetailsReply, NoRequest, ContainersOf,
                    Errors, TypeOK
<1>4. CASE DetailsFailed(c)
  BY <1>0, <1>4 DEF DetailsFailed, DetailsReply, NoRequest, Errors, TypeOK
<1>5. CASE OperationSucceeded(c)
  <2> DEFINE read(kind, target) ==
               [Request(kind, target) EXCEPT !.gone = gone']
             new == {read("list", None)} \cup
                    (IF screen' = "details" THEN {read("inspect", c.target)} ELSE {})
  <2>1. c.target \in Container
    BY <1>5 DEF OperationSucceeded, ContainersOf
  <2>2. gone' \subseteq Container
    BY <1>5, <2>1 DEF OperationSucceeded, TypeOK
  <2>3. \A kind \in {"list", "inspect"}, target \in Container \cup {None} :
          read(kind, target) \in Command
    <3>1. \A kind \in {"list", "inspect"}, target \in Container \cup {None} :
            Request(kind, target) \in Command
      BY RequestType DEF CommandKinds, RequestKinds, Reads
    <3> QED BY <2>2, <3>1 DEF Command
  <2>4. new \subseteq Command BY <2>1, <2>3
  <2>5. BeginRequest(cmds \ {c}, None, new) BY <1>5 DEF OperationSucceeded
  <2>6. /\ generation' \in Nat /\ requestCancel' \in Nat \cup {None}
        /\ cmds' \subseteq Command
    <3> HIDE DEF new
    <3> QED BY <1>0, <2>4, <2>5, BeginRequestType
  <2>7. screen' \in Screens /\ details' \in Container \cup {None}
    BY <1>5 DEF OperationSucceeded, Screens, TypeOK
  <2> QED BY <1>5, <2>2, <2>6, <2>7 DEF OperationSucceeded, Finished, Errors, TypeOK
<1>6. CASE OperationFailed(c)
  BY <1>0, <1>6 DEF OperationFailed, Finished, NoRequest, Errors, TypeOK
<1>7. CASE OperationStale(c)
  <2>1. Refresh(FALSE, "stale", cmds \ {c}, None) BY <1>7 DEF OperationStale
  <2>2. /\ err' \in Errors /\ loading' \in BOOLEAN
        /\ generation' \in Nat /\ requestCancel' \in Nat \cup {None}
        /\ cmds' \subseteq Command
    BY <1>0, <2>1, RefreshType DEF Errors
  <2> QED BY <1>7, <2>2 DEF OperationStale, Finished, TypeOK
<1> QED BY <1>1, <1>2, <1>3, <1>4, <1>5, <1>6, <1>7

LEMMA StreamMessageType ==
    ASSUME TypeOK, NEW c \in cmds,
           \/ StatsSample(c) \/ DropStreamEvent(c)
           \/ \E e \in {err, "other"} : StreamEnded(c, e)
    PROVE  TypeOK'
<1>0. cmds \ {c} \subseteq Command /\ stream \in Stream BY DEF TypeOK
<1>1. CASE StatsSample(c)
  BY <1>1 DEF StatsSample, CurrentStream, OnlyStream, Errors, TypeOK
<1>2. CASE DropStreamEvent(c)
  BY <1>0, <1>2 DEF DropStreamEvent, OnlyStream, TypeOK
<1>3. ASSUME NEW e \in {err, "other"}, StreamEnded(c, e)
      PROVE  TypeOK'
  <2>1. stream' \in Stream BY <1>0, <1>3 DEF StreamEnded, Stream
  <2> QED BY <1>0, <1>3, <2>1 DEF StreamEnded, CurrentStream, OnlyStream,
                                 Errors, TypeOK
<1> QED BY <1>1, <1>2, <1>3

-----------------------------------------------------------------------------
(* Images, pulls and container creation                                    *)

\* refreshImages, on what it may change.
LEMMA RefreshImagesType ==
    ASSUME TypeOK, NEW g \in Gallery, NEW e \in Errors,
           NEW cs, cs \subseteq Command, NEW held \in Nat \cup {None},
           RefreshImages(g, e, cs, held)
    PROVE  /\ err' \in Errors /\ gallery' \in Gallery
           /\ generation' \in Nat /\ requestCancel' \in Nat \cup {None}
           /\ cmds' \subseteq Command
<1>1. CASE client = None /\ err' = "other" /\ gallery' = g /\ NoRequest(cs, held)
  BY <1>1 DEF NoRequest, Errors, TypeOK
<1>2. CASE err' = e /\ gallery' = [g EXCEPT !.loading = TRUE]
           /\ BeginRequest(cs, held, {Request("listImages", None)})
  <2>1. Request("listImages", None) \in Command
    BY RequestType DEF CommandKinds, RequestKinds, Reads
  <2>2. gallery' \in Gallery BY <1>2 DEF Gallery
  <2> QED BY <1>2, <2>1, <2>2, BeginRequestType
<1> QED BY <1>1, <1>2 DEF RefreshImages

\* Opening, closing and refreshing details, and moving the selection, keep the
\* gallery one.
LEMMA GalleryTypes ==
    ASSUME TypeOK
    PROVE  /\ gallery \in Gallery /\ ClosedImage \in Gallery
           /\ ImageInView \in Image \cup {None}
           /\ \A e \in Errors : [ClosedImage EXCEPT !.feedback = e] \in Gallery
           /\ \A matching : Selections(VisibleIn(gallery.images, matching))
                              \subseteq Image \cup {None}
<1>1. gallery \in Gallery BY DEF TypeOK
<1>2. ClosedImage \in Gallery BY <1>1 DEF ClosedImage, Gallery
<1>3. ImageInView \in Image \cup {None} BY <1>1 DEF ImageInView, Gallery
<1>4. \A e \in Errors : [ClosedImage EXCEPT !.feedback = e] \in Gallery
  BY <1>2 DEF Gallery
<1>5. \A matching : Selections(VisibleIn(gallery.images, matching))
                      \subseteq Image \cup {None}
  BY <1>1 DEF Gallery, Selections, VisibleIn
<1> QED BY <1>1, <1>2, <1>3, <1>4, <1>5

-----------------------------------------------------------------------------
\* The keys of the image inventory and of the image details.
LEMMA ImageKeysType ==
    ASSUME TypeOK,
           \/ OpenImages \/ RefreshImagesKey \/ RefreshImageDetails
           \/ OpenImageDetails \/ OpenImageDetailsRefused \/ BackFromImages
           \/ MoveImageSelection \/ FilterImages \/ RequestImageConfirmation
    PROVE  TypeOK'
<1>0. /\ cmds \subseteq Command /\ requestCancel \in Nat \cup {None}
      /\ err \in Errors
  BY DEF TypeOK
<1>1. CASE OpenImages
  <2> DEFINE g == [ClosedImage EXCEPT !.filtering = FALSE, !.feedback = None]
  <2>1. g \in Gallery BY GalleryTypes DEF Gallery, Errors
  <2>2. RefreshImages(g, None, cmds, requestCancel) BY <1>1 DEF OpenImages
  <2>3. None \in Errors BY DEF Errors
  <2> HIDE DEF g
  <2>4. /\ err' \in Errors /\ gallery' \in Gallery
        /\ generation' \in Nat /\ requestCancel' \in Nat \cup {None}
        /\ cmds' \subseteq Command
    BY <1>0, <2>1, <2>2, <2>3, RefreshImagesType
  <2> QED BY <1>1, <2>4 DEF OpenImages, OnlyGallery, Screens, TypeOK
<1>2. CASE RefreshImagesKey
  <2>1. RefreshImages(gallery, err, cmds, requestCancel)
    BY <1>2 DEF RefreshImagesKey
  <2>2. /\ err' \in Errors /\ gallery' \in Gallery
        /\ generation' \in Nat /\ requestCancel' \in Nat \cup {None}
        /\ cmds' \subseteq Command
    BY <1>0, <2>1, GalleryTypes, RefreshImagesType
  <2> QED BY <1>2, <2>2 DEF RefreshImagesKey, OnlyGallery, TypeOK
<1>3. ASSUME NEW target \in Image,
             BeginRequest(cmds, requestCancel, {Request("inspectImage", target)})
      PROVE  /\ generation' \in Nat /\ requestCancel' \in Nat \cup {None}
             /\ cmds' \subseteq Command
  <2>1. Request("inspectImage", target) \in Command
    BY RequestType DEF CommandKinds, RequestKinds, Reads
  <2> QED BY <1>0, <1>3, <2>1, BeginRequestType
<1>4. CASE RefreshImageDetails
  <2>1. gallery.details \in Image
    BY <1>4, GalleryTypes DEF RefreshImageDetails, Gallery
  <2>2. gallery' \in Gallery
    BY <1>4, GalleryTypes DEF RefreshImageDetails, Gallery
  <2> QED BY <1>3, <1>4, <2>1, <2>2 DEF RefreshImageDetails, OnlyGallery, TypeOK
<1>5. CASE OpenImageDetails
  <2>1. gallery.selected \in Image
    BY <1>5, GalleryTypes DEF OpenImageDetails, Gallery
  <2>2. gallery' \in Gallery
    BY <1>5, <2>1, GalleryTypes DEF OpenImageDetails, Gallery
  <2> QED BY <1>3, <1>5, <2>1, <2>2
          DEF OpenImageDetails, OnlyGallery, Screens, Errors, TypeOK
<1>6. CASE OpenImageDetailsRefused
  BY <1>6 DEF OpenImageDetailsRefused, Refuse, Errors, TypeOK
<1>7. CASE BackFromImages
  BY <1>7, GalleryTypes DEF BackFromImages, OnlyGallery, Screens, TypeOK
<1>8. CASE MoveImageSelection
  <2>1. gallery' \in Gallery
    <3>1. PICK i \in Selections(visibleImages) :
            gallery' = [gallery EXCEPT !.selected = i]
      BY <1>8 DEF MoveImageSelection
    <3>2. i \in Image \cup {None} BY GalleryTypes DEF visibleImages
    <3> QED BY <3>1, <3>2, GalleryTypes DEF Gallery
  <2> QED BY <1>8, <2>1 DEF MoveImageSelection, OnlyGallery, TypeOK
<1>9. CASE FilterImages
  <2>1. CASE gallery' = [gallery EXCEPT !.filtering = TRUE]
             \/ gallery' = [gallery EXCEPT !.filtering = FALSE]
    <3>1. gallery' \in Gallery BY <2>1, GalleryTypes DEF Gallery
    <3> QED BY <1>9, <3>1 DEF FilterImages, OnlyGallery, TypeOK
  <2>2. CASE \E matching \in SUBSET ImageIds :
             \E i \in Selections(VisibleIn(gallery.images, matching)) :
                gallery' = [gallery EXCEPT !.matching = matching, !.selected = i]
    <3>1. gallery' \in Gallery
      <4>1. PICK matching \in SUBSET ImageIds :
             \E i \in Selections(VisibleIn(gallery.images, matching)) :
                gallery' = [gallery EXCEPT !.matching = matching, !.selected = i]
        BY <2>2
      <4>2. PICK i \in Selections(VisibleIn(gallery.images, matching)) :
                gallery' = [gallery EXCEPT !.matching = matching, !.selected = i]
        BY <4>1
      <4>3. i \in Image \cup {None} BY GalleryTypes
      <4> QED BY <4>2, <4>3, GalleryTypes DEF Gallery
    <3> QED BY <1>9, <3>1 DEF FilterImages, OnlyGallery, TypeOK
  <2>3. CASE \E i \in Selections(visibleImages) :
                gallery' = [gallery EXCEPT !.filtering = FALSE, !.selected = i]
    <3>1. gallery' \in Gallery
      <4>1. PICK i \in Selections(visibleImages) :
                gallery' = [gallery EXCEPT !.filtering = FALSE, !.selected = i]
        BY <2>3
      <4>2. i \in Image \cup {None} BY GalleryTypes DEF visibleImages
      <4> QED BY <4>1, <4>2, GalleryTypes DEF Gallery
    <3> QED BY <1>9, <3>1 DEF FilterImages, OnlyGallery, TypeOK
  <2> QED BY <1>9, <2>1, <2>2, <2>3 DEF FilterImages
<1>10. CASE RequestImageConfirmation
  <2>1. CASE ImageInView = None
    BY <1>10, <2>1 DEF RequestImageConfirmation, Refuse, Errors, TypeOK
  <2>2. CASE ImageInView # None
    <3>1. /\ pending' = [action |-> "imageRemove", target |-> ImageInView,
                         generation |-> generation, connection |-> profile]
          /\ mode' = "confirm" /\ err' = None
          /\ OnlyGallery
          /\ UNCHANGED <<screen, requestVars, gallery, pull, cmds>>
      BY <1>10, <2>2 DEF RequestImageConfirmation
    <3>2. ImageInView \in Image BY <2>2, GalleryTypes
    <3>3. pending' \in Dialog
      BY <3>1, <3>2 DEF Dialog, Mutations, TypeOK
    <3> QED BY <3>1, <3>3 DEF OnlyGallery, Modes, Errors, TypeOK
  <2> QED BY <2>1, <2>2
<1> QED BY <1>1, <1>2, <1>4, <1>5, <1>6, <1>7, <1>8, <1>9, <1>10

-----------------------------------------------------------------------------
\* The keys of the pull screen.
LEMMA PullKeysType ==
    ASSUME TypeOK,
           \/ OpenImagePull \/ LeaveImagePull \/ StartImagePull \/ CancelImagePull
           \/ QuitPull
    PROVE  TypeOK'
<1>0. /\ cmds \subseteq Command /\ requestCancel \in Nat \cup {None}
      /\ err \in Errors /\ pull \in Pull
  BY DEF TypeOK
<1>1. CASE OpenImagePull
  BY <1>1 DEF OpenImagePull, OnlyPull, Refuse, Screens, Errors, TypeOK
<1>2. CASE LeaveImagePull
  BY <1>2 DEF LeaveImagePull, OnlyPull, Screens, TypeOK
<1>3. CASE StartImagePull
  <2> DEFINE g == pull.generation + 2
  <2>1. /\ pull' = [status |-> "running", pulling |-> TRUE, generation |-> g,
                    target |-> profile, cancel |-> g]
        /\ cmds' = WithoutPull(cmds) \cup {Cmd("pull", client, None, g)}
        /\ client # None /\ err' = None
    BY <1>3 DEF StartImagePull
  <2>2. g \in Nat BY <1>0 DEF Pull
  <2> HIDE DEF g
  <2>3. profile \in Profiles \cup {None} /\ client \in Profiles \cup {None}
    BY DEF TypeOK
  <2>4. pull' \in Pull BY <2>1, <2>2, <2>3 DEF Pull, PullStates
  <2>5. Cmd("pull", client, None, g) \in Command
    BY <2>2, <2>3, CmdType DEF CommandKinds
  <2>6. cmds' \subseteq Command BY <1>0, <2>1, <2>5, StoppedType
  <2> QED BY <1>3, <2>1, <2>4, <2>6 DEF StartImagePull, OnlyPull, Errors, TypeOK
<1>4. CASE CancelImagePull
  <2>1. RefreshImages(gallery, err, WithoutPull(cmds), requestCancel)
    BY <1>4 DEF CancelImagePull
  <2>2. /\ err' \in Errors /\ gallery' \in Gallery
        /\ generation' \in Nat /\ requestCancel' \in Nat \cup {None}
        /\ cmds' \subseteq Command
    BY <1>0, <2>1, GalleryTypes, StoppedType, RefreshImagesType
  <2>3. pull' \in Pull
    BY <1>4, StoppedType DEF CancelImagePull, Pull, PullStates
  <2> QED BY <1>4, <2>2, <2>3 DEF CancelImagePull, OnlyPull, TypeOK
<1>5. CASE QuitPull BY <1>5 DEF QuitPull, QuitNow, TypeOK
<1> QED BY <1>1, <1>2, <1>3, <1>4, <1>5

\* Replies about images.
LEMMA ImageMessageType ==
    ASSUME TypeOK, NEW c \in cmds,
           \/ ImageInventoryLoaded(c) \/ ImageInventoryFailed(c)
           \/ ImageDetailsLoaded(c) \/ ImageDetailsFailed(c)
           \/ ImageDetailsClosed(c)
           \/ ImageRemoved(c) \/ ImageRemoveStale(c) \/ ImageRemoveFailed(c)
    PROVE  TypeOK'
<1>0. /\ c \in Command /\ cmds \ {c} \subseteq Command
      /\ pull \in Pull /\ gallery \in Gallery
  BY DEF TypeOK
<1>1. CASE ImageInventoryLoaded(c)
  <2>1. gallery' \in Gallery
    <3>1. PICK list \in SUBSET ImagesOf(c.host) :
            \E i \in Selections(VisibleIn(list, gallery.matching)) :
              gallery' = [gallery EXCEPT !.images = list, !.selected = i,
                                         !.loading = FALSE, !.feedback = None]
      BY <1>1 DEF ImageInventoryLoaded
    <3>2. PICK i \in Selections(VisibleIn(list, gallery.matching)) :
              gallery' = [gallery EXCEPT !.images = list, !.selected = i,
                                         !.loading = FALSE, !.feedback = None]
      BY <3>1
    <3>3. list \subseteq Image BY HostListsType
    <3>4. i \in Image \cup {None} BY <3>3 DEF Selections, VisibleIn
    <3> QED BY <1>0, <3>2, <3>3, <3>4 DEF Gallery, Errors
  <2>2. pull' \in Pull /\ screen' \in Screens
    <3>1. /\ screen' \in {screen, "images"}
          /\ \/ pull' = pull
             \/ pull' = [pull EXCEPT !.status = "succeeded", !.pulling = FALSE]
      BY <1>1 DEF ImageInventoryLoaded
    <3>2. [pull EXCEPT !.status = "succeeded", !.pulling = FALSE] \in Pull
      BY <1>0 DEF Pull, PullStates
    <3> QED BY <1>0, <3>1, <3>2 DEF Screens, TypeOK
  <2>3. err' \in Errors
    BY <1>0, <1>1 DEF ImageInventoryLoaded, ShowFeedback, Gallery
  <2>4. ImageInventoryReply(c) BY <1>1 DEF ImageInventoryLoaded
  <2> QED BY <1>0, <2>1, <2>2, <2>3, <2>4
          DEF ImageInventoryReply, OnlyGallery, NoRequest, TypeOK
<1>2. CASE ImageInventoryFailed(c)
  <2>1. gallery' \in Gallery BY <1>0, <1>2 DEF ImageInventoryFailed, Gallery
  <2>2. pull' \in Pull
    BY <1>0, <1>2 DEF ImageInventoryFailed, Pull, PullStates
  <2> QED BY <1>0, <1>2, <2>1, <2>2
          DEF ImageInventoryFailed, ImageInventoryReply, OnlyGallery, NoRequest,
              Errors, TypeOK
<1>3. CASE ImageDetailsLoaded(c)
  <2>1. PICK i \in ImagesOf(c.host) :
          gallery' = [gallery EXCEPT !.details = i, !.detailLoading = FALSE]
    BY <1>3 DEF ImageDetailsLoaded
  <2>2. gallery' \in Gallery BY <1>0, <2>1, HostListsType DEF Gallery
  <2> QED BY <1>0, <1>3, <2>2
          DEF ImageDetailsLoaded, ImageDetailsReply, OnlyGallery, NoRequest,
              Errors, TypeOK
<1>4. CASE ImageDetailsFailed(c)
  <2>1. gallery' \in Gallery BY <1>0, <1>4 DEF ImageDetailsFailed, Gallery
  <2> QED BY <1>0, <1>4, <2>1
          DEF ImageDetailsFailed, ImageDetailsReply, OnlyGallery, NoRequest,
              Errors, TypeOK
<1>5. CASE ImageDetailsClosed(c)
  BY <1>0, <1>5 DEF ImageDetailsClosed, OnlyGallery, TypeOK
<1>6. ASSUME NEW g \in Gallery, NEW e \in Errors,
             ImageRemoveFinished(c), screen' = "images",
             RefreshImages(g, e, cmds \ {c}, None)
      PROVE  TypeOK'
  <2>1. /\ err' \in Errors /\ gallery' \in Gallery
        /\ generation' \in Nat /\ requestCancel' \in Nat \cup {None}
        /\ cmds' \subseteq Command
    BY <1>0, <1>6, RefreshImagesType
  <2> QED BY <1>6, <2>1 DEF ImageRemoveFinished, Screens, TypeOK
<1>7. CASE ImageRemoved(c)
  BY <1>6, <1>7, GalleryTypes DEF ImageRemoved, Errors
<1>8. CASE ImageRemoveStale(c)
  BY <1>6, <1>8, GalleryTypes DEF ImageRemoveStale, Errors
<1>9. CASE ImageRemoveFailed(c)
  BY <1>0, <1>9 DEF ImageRemoveFailed, ImageRemoveFinished, NoRequest, Errors,
                    TypeOK
<1> QED BY <1>1, <1>2, <1>3, <1>4, <1>5, <1>7, <1>8, <1>9

\* Events of pulls.
LEMMA PullMessageType ==
    ASSUME TypeOK, NEW c \in cmds,
           \/ \E status \in {"failed", "cancelled"} :
                 PullEvent(c, status) \/ PullFailed(c, status)
           \/ PullDone(c) \/ DropPullEvent(c)
    PROVE  TypeOK'
<1>0. /\ cmds \ {c} \subseteq Command /\ pull \in Pull
      /\ requestCancel \in Nat \cup {None} /\ err \in Errors
  BY DEF TypeOK
<1>1. ASSUME NEW status \in {"failed", "cancelled"}, PullEvent(c, status)
      PROVE  TypeOK'
  <2>1. pull' \in Pull BY <1>0, <1>1 DEF PullEvent, Pull, PullStates
  <2> QED BY <1>1, <2>1 DEF PullEvent, OnlyPull, TypeOK
<1>2. ASSUME NEW status \in {"failed", "cancelled"}, PullFailed(c, status)
      PROVE  TypeOK'
  <2>1. pull' \in Pull BY <1>0, <1>2 DEF PullFailed, Pull, PullStates
  <2> QED BY <1>0, <1>2, <2>1 DEF PullFailed, OnlyPull, TypeOK
<1>3. CASE PullDone(c)
  <2> DEFINE ended(status) == [pull EXCEPT !.status = status, !.pulling = FALSE,
                                           !.cancel = None]
  <2>1. \A status \in PullStates : ended(status) \in Pull BY <1>0 DEF Pull
  <2>2. CASE /\ pull' = ended(pull.status)
             /\ cmds' = cmds \ {c}
             /\ UNCHANGED <<err, requestVars, gallery>>
    <3>1. pull' \in Pull BY <1>0, <2>1, <2>2 DEF Pull
    <3>2. OnlyPull /\ UNCHANGED screen BY <1>3 DEF PullDone
    <3> QED BY <1>0, <2>2, <3>1, <3>2 DEF OnlyPull, TypeOK
  <2>3. CASE /\ pull' = ended("refreshing")
             /\ RefreshImages(gallery, err, cmds \ {c}, requestCancel)
    <3>1. pull' \in Pull BY <2>1, <2>3 DEF PullStates
    <3>2. /\ err' \in Errors /\ gallery' \in Gallery
          /\ generation' \in Nat /\ requestCancel' \in Nat \cup {None}
          /\ cmds' \subseteq Command
      BY <1>0, <2>3, GalleryTypes, RefreshImagesType
    <3>3. OnlyPull /\ UNCHANGED screen BY <1>3 DEF PullDone
    <3> QED BY <3>1, <3>2, <3>3 DEF OnlyPull, TypeOK
  <2> QED BY <1>3, <2>2, <2>3 DEF PullDone
<1>4. CASE DropPullEvent(c)
  BY <1>0, <1>4 DEF DropPullEvent, OnlyPull, TypeOK
<1> QED BY <1>1, <1>2, <1>3, <1>4

-----------------------------------------------------------------------------
\* The keys of the create form.
LEMMA CreateKeysType ==
    ASSUME TypeOK,
           \/ OpenContainerCreate \/ LeaveContainerCreate
           \/ CancelContainerCreate \/ SubmitContainerCreate
           \/ RejectContainerCreate \/ QuitContainerCreate
    PROVE  TypeOK'
<1>0. /\ cmds \subseteq Command /\ create \in Create /\ screen \in Screens
      /\ generation \in Nat /\ profile \in Profiles \cup {None}
  BY DEF TypeOK
<1>1. CASE OpenContainerCreate
  <2>1. CASE Refuse BY <2>1 DEF Refuse, Errors, TypeOK
  <2>2. CASE ~Refuse
    <3> DEFINE image == IF screen = "imageDetails" /\ gallery.details # None
                        THEN gallery.details ELSE gallery.selected
    <3>1. /\ image # None
          /\ create' = [create EXCEPT !.previous = screen, !.image = image,
                          !.imageGeneration = generation, !.result = None,
                          !.status = "editing", !.running = FALSE,
                          !.refreshing = FALSE]
          /\ screen' = "containerCreate" /\ err' = None
          /\ OnlyCreate
          /\ UNCHANGED <<mode, requestVars, inventoryVars, gallery, pending,
                         cmds>>
      BY <1>1, <2>2 DEF OpenContainerCreate
    <3>2. image \in Image \cup {None} BY GalleryTypes DEF Gallery
    <3>3. create' \in Create
      <4> HIDE DEF image
      <4> QED BY <1>0, <3>1, <3>2 DEF Create, CreateStates
    <3> QED BY <3>1, <3>3 DEF OnlyCreate, Screens, Errors, TypeOK
  <2> QED BY <2>1, <2>2
<1>2. CASE LeaveContainerCreate
  <2>1. create' \in Create /\ screen' \in Screens
    BY <1>0, <1>2 DEF LeaveContainerCreate, Create, CreateStates
  <2> QED BY <1>2, <2>1 DEF LeaveContainerCreate, OnlyCreate, TypeOK
<1>3. CASE CancelContainerCreate
  <2>1. cmds' \subseteq Command
    BY <1>0, <1>3, CancelledType DEF CancelContainerCreate
  <2> QED BY <1>3, <2>1 DEF CancelContainerCreate, OnlyCreate, TypeOK
<1>4. CASE SubmitContainerCreate
  <2>1. create' \in Create
    BY <1>0, <1>4 DEF SubmitContainerCreate, Create, CreateStates
  <2>2. /\ pending' \in Dialog \cup {None}
        /\ mode' = "confirm" => pending' \in Dialog
    <3>1. ImageIsCurrent => create.image \in Image
      BY <1>0 DEF ImageIsCurrent, Create
    <3>2. create.imageGeneration \in Nat BY <1>0 DEF Create
    <3>3. CASE pending' = [action |-> "run", target |-> create.image,
                           generation |-> create.imageGeneration,
                           connection |-> profile]
               /\ ImageIsCurrent
      BY <1>0, <3>1, <3>2, <3>3 DEF Dialog
    <3>4. CASE UNCHANGED <<pending, mode>>
      BY <3>4 DEF TypeOK
    <3> QED BY <1>4, <3>3, <3>4 DEF SubmitContainerCreate
  <2>3. err' \in Errors /\ mode' \in Modes
    BY <1>4 DEF SubmitContainerCreate, Errors, Modes, TypeOK
  <2> QED BY <1>4, <2>1, <2>2, <2>3 DEF SubmitContainerCreate, OnlyCreate, TypeOK
<1>5. CASE RejectContainerCreate
  <2>1. create' \in Create
    BY <1>0, <1>5 DEF RejectContainerCreate, Create, CreateStates
  <2> QED BY <1>5, <2>1 DEF RejectContainerCreate, OnlyCreate, TypeOK
<1>6. CASE QuitContainerCreate
  BY <1>6 DEF QuitContainerCreate, QuitNow, TypeOK
<1> QED BY <1>1, <1>2, <1>3, <1>4, <1>5, <1>6

\* Confirming a create.
LEMMA RunContainerCreateType ==
    ASSUME TypeOK, NEW image \in Image, RunContainerCreate(image)
    PROVE  /\ create' \in Create /\ err' \in Errors
           /\ generation' \in Nat /\ requestCancel' \in Nat \cup {None}
           /\ cmds' \subseteq Command
<1>0. /\ cmds \subseteq Command /\ create \in Create /\ err \in Errors
      /\ generation \in Nat /\ profile \in Profiles \cup {None}
      /\ requestCancel \in Nat \cup {None}
  BY DEF TypeOK
<1>1. CASE CreateFails /\ UNCHANGED <<requestVars, cmds>>
  <2>1. create' \in Create BY <1>0, <1>1 DEF CreateFails, Create, CreateStates
  <2> QED BY <1>0, <1>1, <2>1 DEF CreateFails, Errors
<1>2. CASE UNCHANGED <<create, err, requestVars, cmds>>
  BY <1>0, <1>2
<1>3. CASE /\ create' = [create EXCEPT !.status = "creating", !.running = TRUE,
                           !.image = image, !.result = None, !.target = profile,
                           !.generation = generation + 1]
           /\ err' = None
           /\ BeginRequest(cmds, requestCancel, {Request("run", image)})
  <2>2. Request("run", image) \in Command
    BY RequestType DEF CommandKinds, RequestKinds
  <2>3. generation + 1 \in Nat BY <1>0
  <2>4. create' \in Create BY <1>0, <1>3, <2>3 DEF Create, CreateStates
  <2> QED BY <1>0, <1>3, <2>2, <2>4, BeginRequestType DEF Errors
<1> QED BY <1>1, <1>2, <1>3 DEF RunContainerCreate

\* Replies to a create and to the refresh that follows it.
LEMMA CreateMessageType ==
    ASSUME TypeOK, NEW c \in cmds,
           \/ ContainerStarted(c) \/ ContainerCreatedOnly(c)
           \/ ContainerCreateCancelled(c) \/ ContainerCreateFailed(c)
           \/ DropRunReply(c) \/ CreateRefreshed(c) \/ DropCreateRefresh(c)
    PROVE  TypeOK'
<1>0. /\ c \in Command /\ cmds \ {c} \subseteq Command
      /\ create \in Create /\ gallery \in Gallery /\ generation \in Nat
  BY DEF TypeOK
<1>1. ASSUME RunReply(c)
      PROVE  /\ c.target \in Image
             /\ \A status \in CreateStates, result \in Container \cup {None} :
                   Ended(c, status, result) \in Create
  <2>1. c.target \in Image BY <1>0, <1>1 DEF RunReply, CurrentRun, Command
  <2> QED BY <1>0, <2>1 DEF Ended, Create
<1>2. ASSUME NEW status \in CreateStates, NEW result \in Container,
             RunReply(c), RefreshAfterCreate(c, status, result)
      PROVE  TypeOK'
  <2>1. /\ create' \in Create /\ gallery' \in Gallery
        /\ err' \in Errors /\ loading' \in BOOLEAN
        /\ generation' \in Nat /\ requestCancel' \in Nat \cup {None}
        /\ cmds' \subseteq Command
    <3>1. CASE /\ create' = [Ended(c, "failed", result) EXCEPT !.refreshing = FALSE]
               /\ err' = "other"
               /\ NoRequest(cmds \ {c}, None)
               /\ UNCHANGED <<loading, gallery>>
      <4>1. Ended(c, "failed", result) \in Create BY <1>1, <1>2 DEF CreateStates
      <4>2. create' \in Create BY <3>1, <4>1 DEF Create
      <4> QED BY <1>0, <3>1, <4>2 DEF NoRequest, Errors, TypeOK
    <3>2. CASE /\ create' = [Ended(c, status, result) EXCEPT
                              !.refreshing = TRUE, !.generation = generation + 1]
               /\ loading' = TRUE /\ gallery' = [gallery EXCEPT !.loading = TRUE]
               /\ UNCHANGED err
               /\ BeginRequest(cmds \ {c}, None, {Request("createRefresh", None)})
      <4>1. Ended(c, status, result) \in Create BY <1>1, <1>2
      <4>2. generation + 1 \in Nat BY <1>0
      <4>3. create' \in Create BY <3>2, <4>1, <4>2 DEF Create
      <4>4. gallery' \in Gallery BY <1>0, <3>2 DEF Gallery
      <4>5. Request("createRefresh", None) \in Command
        BY RequestType DEF CommandKinds, RequestKinds, Reads
      <4> QED BY <1>0, <3>2, <4>3, <4>4, <4>5, BeginRequestType DEF TypeOK
    <3> QED BY <1>2, <3>1, <3>2 DEF RefreshAfterCreate
  <2> QED BY <1>2, <2>1 DEF RunReply, OnlyCreate, TypeOK
<1>3. CASE ContainerStarted(c)
  <2>1. PICK id \in ContainersOf(c.host) \ c.gone :
          RefreshAfterCreate(c, "refreshing", id)
    BY <1>3 DEF ContainerStarted
  <2>2. id \in Container BY HostListsType
  <2> QED BY <1>2, <1>3, <2>1, <2>2 DEF ContainerStarted, CreateStates
<1>4. CASE ContainerCreatedOnly(c)
  <2>1. PICK id \in ContainersOf(c.host) \ c.gone :
          RefreshAfterCreate(c, "partial", id)
    BY <1>4 DEF ContainerCreatedOnly
  <2>2. id \in Container BY HostListsType
  <2> QED BY <1>2, <1>4, <2>1, <2>2 DEF ContainerCreatedOnly, CreateStates
<1>5. CASE ContainerCreateCancelled(c)
  <2>1. create' \in Create
    BY <1>1, <1>5 DEF ContainerCreateCancelled, CreateStates
  <2> QED BY <1>0, <1>5, <2>1
          DEF ContainerCreateCancelled, RunReply, OnlyCreate, NoRequest, Errors,
              TypeOK
<1>6. CASE ContainerCreateFailed(c)
  <2>1. create' \in Create BY <1>1, <1>6 DEF ContainerCreateFailed, CreateStates
  <2> QED BY <1>0, <1>6, <2>1
          DEF ContainerCreateFailed, RunReply, OnlyCreate, NoRequest, Errors,
              TypeOK
<1>7. CASE DropRunReply(c)
  BY <1>0, <1>7 DEF DropRunReply, OnlyCreate, TypeOK
<1>8. CASE CreateRefreshed(c)
  <2>1. PICK listed, imagesListed \in BOOLEAN :
          /\ IF listed
             THEN /\ containers' \in SUBSET (ContainersOf(c.host) \ c.gone)
                  /\ LET visible == VisibleIn(containers', filter.matching)
                     IN  selected' \in IF create.result \in visible
                                       THEN {create.result}
                                       ELSE Selections(visible)
             ELSE UNCHANGED <<containers, selected>>
          /\ IF imagesListed
             THEN \E list \in SUBSET ImagesOf(c.host) :
                  \E i \in Selections(VisibleIn(list, gallery.matching)) :
                     gallery' = [gallery EXCEPT !.images = list,
                                   !.selected = i, !.loading = FALSE]
             ELSE gallery' = [gallery EXCEPT !.loading = FALSE]
          /\ err' = IF listed /\ imagesListed THEN None ELSE "other"
          /\ create' = [create EXCEPT !.refreshing = FALSE,
                          !.status = IF listed /\ imagesListed /\ @ # "partial"
                                     THEN "succeeded" ELSE @]
    BY <1>8 DEF CreateRefreshed, Refreshed
  <2>2. containers' \subseteq Container /\ selected' \in Container \cup {None}
    BY <2>1, HostListsType DEF VisibleIn, Selections, TypeOK
  <2>3. gallery' \in Gallery
    <3>1. CASE gallery' = [gallery EXCEPT !.loading = FALSE]
      BY <1>0, <3>1 DEF Gallery
    <3>2. ASSUME NEW list \in SUBSET ImagesOf(c.host),
                 NEW i \in Selections(VisibleIn(list, gallery.matching)),
                 gallery' = [gallery EXCEPT !.images = list,
                               !.selected = i, !.loading = FALSE]
          PROVE  gallery' \in Gallery
      <4>1. list \subseteq Image BY HostListsType
      <4>2. i \in Image \cup {None} BY <4>1 DEF Selections, VisibleIn
      <4> QED BY <1>0, <3>2, <4>1, <4>2 DEF Gallery
    <3> QED BY <2>1, <3>1, <3>2
  <2>4. create' \in Create BY <1>0, <2>1 DEF Create, CreateStates
  <2>5. err' \in Errors BY <2>1 DEF Errors
  <2>6. /\ NoRequest(cmds \ {c}, None)
        /\ loading' = FALSE /\ details' = None
        /\ screen' = "inventory" /\ mode' = "normal"
        /\ OnlyCreate /\ UNCHANGED <<detailLoading, pending>>
    BY <1>8 DEF CreateRefreshed
  <2> QED BY <1>0, <2>2, <2>3, <2>4, <2>5, <2>6
          DEF NoRequest, OnlyCreate, Screens, Modes, TypeOK
<1>9. CASE DropCreateRefresh(c)
  BY <1>0, <1>9 DEF DropCreateRefresh, OnlyCreate, TypeOK
<1> QED BY <1>3, <1>4, <1>5, <1>6, <1>7, <1>8, <1>9
=============================================================================
