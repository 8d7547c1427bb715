----------------------------- MODULE Connection -----------------------------
(***************************************************************************)
(* Targets: reading the configuration, the profile selector and its form   *)
(* (handleProfilesKey, handleProfileFormKey), the edits of config.File they *)
(* make, and connecting to the selected profile.                           *)
(***************************************************************************)
EXTENDS AppState, SequencesExt

(***************************************************************************)
(* The file in memory.  Its code compares names in three ways: edits look  *)
(* a profile up by strings.EqualFold, File.Profile trims both names first, *)
(* and Validate looks for duplicates by the trimmed name in lower case.    *)
(***************************************************************************)

SameName(n, m) == {n, m} \subseteq Names /\ Folded[n] = Folded[m]
At(book, name) == {i \in DOMAIN book : SameName(Name[book[i]], name)}

Spelled(book, name) ==
    {i \in DOMAIN book : Folded[Trimmed[Name[book[i]]]] = Folded[Trimmed[name]]}

Key(name) == Lowered[Trimmed[name]]

UniqueKeys(book) ==
    \A i, j \in DOMAIN book : Key(Name[book[i]]) = Key(Name[book[j]]) => i = j

\* File.Validate: no duplicates, and the active profile exists.
Valid(book, name) ==
    UniqueKeys(book) /\ (name # None => Spelled(book, name) # {})

\* File.ActiveProfile: the profile called active; without one, the default
\* profile, which only a file being loaded may still have, or the only one.
ActiveProfile(book, name) ==
    IF name # None
    THEN IF Spelled(book, name) = {} THEN None ELSE book[Min(Spelled(book, name))]
    ELSE IF Len(book) = 1 THEN book[1] ELSE None

\* File.Upsert and File.Remove: the first profile of that name is the one.
Upsert(book, p) ==
    IF At(book, Name[p]) = {} THEN Append(book, p)
    ELSE ReplaceAt(book, Min(At(book, Name[p])), p)

Without(book, name) ==
    IF At(book, name) = {} THEN book ELSE RemoveAt(book, Min(At(book, name)))

\* Defect: an active profile that is removed stays active.
ActiveKept(name) == active

\* File.Remove reassigns an active profile it removes to the first one left.
ActiveAfterRemove(name) ==
    IF At(saved, name) # {} /\ SameName(active, name)
    THEN IF Without(saved, name) = <<>> THEN None
         ELSE Name[Without(saved, name)[1]]
    ELSE active

\* indexOfProfile: 0 also stands for a name that nobody has.
IndexOf(book, name) ==
    IF At(book, name) = {} THEN 0 ELSE Min(At(book, name)) - 1

\* clamp to the indices of a list of n, 0 if it is empty.
Clamped(i, n) == IF n = 0 THEN 0 ELSE IF i < n THEN i ELSE n - 1

\* file.Profiles[profileCursor]
CursorInRange == cursor < Len(saved)
UnderCursor == saved[cursor + 1]

\* Defect: the session of the previous target is kept.
TargetKeepingSession(p) ==
    profile' = p /\ active' = Name[p] /\ UNCHANGED client

\* The displayed target changes before its session exists.
Target(p) == profile' = p /\ active' = Name[p] /\ client' = None

\* beginProfile.  cs are the commands the caller leaves in flight.
BeginProfile(p, cs) ==
    /\ stream' = StoppedStream
    /\ pull' = [StoppedPull EXCEPT !.status = "idle"]
    /\ create' = [create EXCEPT !.running = FALSE, !.refreshing = FALSE,
                                !.status = "idle", !.result = None,
                                !.image = None, !.imageGeneration = 0]
    /\ Target(p)
    /\ screen' = "inventory" /\ mode' = "normal" /\ err' = None
    /\ details' = None /\ loading' = TRUE
    /\ gallery' = EmptyGallery
    /\ BeginRequest(WithoutPull(WithoutStream(cs)), requestCancel,
                    {Cmd("connect", p, None, generation + 1)})
    /\ UNCHANGED <<loop, containers, selected, detailLoading, filter, pending,
                   gone>>

-----------------------------------------------------------------------------
(* ConfigLoadedMsg *)

ConfigUnreadable(c) ==
    /\ Delivered(c) /\ c.kind = "load"
    /\ mode' = "profiles" /\ err' = "other"
    /\ cmds' = cmds \ {c}
    /\ UNCHANGED <<loop, bookVars, linkVars, screen, requestVars,
                   inventoryVars, filter, featureVars, gone>>

\* Any file that Validate accepts, with any default profile.
ConfigLoaded(c) ==
    /\ Delivered(c) /\ c.kind = "load"
    /\ \E n \in 0 .. Cardinality(Profiles) :
       \E book \in [1 .. n -> Profiles], name \in Names \cup {None} :
          /\ Valid(book, name)
          /\ saved' = book
          /\ UNCHANGED <<cursor, editing>>
          /\ \E p \in {ActiveProfile(book, name)} \cup
                      (IF name = None THEN Range(book) ELSE {}) :
                IF p # None
                THEN BeginProfile(p, cmds \ {c})
                ELSE /\ active' = name
                     /\ profile' = None /\ mode' = "profiles"
                     /\ cmds' = cmds \ {c}
                     /\ UNCHANGED <<loop, client, screen, err, requestVars,
                                    inventoryVars, filter, featureVars, gone>>

-----------------------------------------------------------------------------
(* ProfileConnectedMsg.  connectProfileCmd connects and lists: the reply   *)
(* carries no client when Connect failed, and a client with an error when  *)
(* only the listing did.                                                   *)

Connected(c, session) ==
    /\ Answers(c, {"connect"})
    /\ pull' = StoppedPull
    /\ cmds' = WithoutPull(cmds \ {c})
    /\ requestCancel' = None
    /\ loading' = FALSE
    /\ profile' = c.host /\ client' = session
    /\ UNCHANGED <<loop, bookVars, screen, mode, generation, details,
                   detailLoading, filter, pending, stream, create, gone>>

ProfileRefused(c) ==
    /\ Connected(c, None)
    /\ err' = "other"
    /\ UNCHANGED <<containers, selected, gallery>>

ProfileConnectedUnlisted(c) ==
    /\ Connected(c, c.host)
    /\ err' = "other"
    /\ UNCHANGED <<containers, selected, gallery>>

ProfileConnected(c) ==
    /\ Connected(c, c.host)
    /\ containers' \in SUBSET (ContainersOf(c.host) \ c.gone)
    /\ selected' \in Selections(VisibleIn(containers', filter.matching))
    /\ gallery' = [EmptyGallery EXCEPT !.feedback = None]
    /\ err' = None

-----------------------------------------------------------------------------
(* The selector and the form *)

OpenSelector ==
    /\ InScreen("profiles", Screens \ {"logs", "stats"})
    /\ mode' = "profiles"
    /\ cursor' = IndexOf(saved, active)
    /\ UNCHANGED <<loop, saved, active, editing, linkVars, screen, err,
                   requestVars, inventoryVars, filter, featureVars, cmds, gone>>

OnlyMode(m) ==
    /\ mode' = m
    /\ UNCHANGED <<loop, saved, active, cursor, linkVars, screen, err,
                   requestVars, inventoryVars, filter, featureVars, cmds, gone>>

CloseSelector == InSelector("back") /\ OnlyMode("normal") /\ UNCHANGED editing

MoveCursor ==
    /\ InSelector("move")
    /\ \/ cursor' = Clamped(cursor + 1, Len(saved))
       \/ cursor' = IF cursor = 0 THEN 0 ELSE Clamped(cursor - 1, Len(saved))
    /\ UNCHANGED <<loop, saved, active, editing, linkVars, viewVars,
                   requestVars, inventoryVars, filter, featureVars, cmds, gone>>

NewProfile == InSelector("new") /\ OnlyMode("profileForm") /\ editing' = None

EditProfile ==
    /\ InSelector("edit") /\ CursorInRange
    /\ OnlyMode("profileForm")
    /\ editing' = Name[UnderCursor]

CloseForm == InForm("cancel") /\ OnlyMode("profiles") /\ UNCHANGED editing

OpenProfile ==
    /\ InSelector("open") /\ CursorInRange /\ MayRequest
    /\ BeginProfile(UnderCursor, cmds)
    /\ UNCHANGED <<saved, cursor, editing>>

\* edit, remove and open index file.Profiles with profileCursor, unchecked.
CursorPanic ==
    /\ \E key \in {"edit", "remove", "open"} : InSelector(key)
    /\ saved # <<>> /\ ~CursorInRange
    /\ loop' = "panicked"
    /\ cmds' = {}
    /\ UNCHANGED <<bookVars, linkVars, viewVars, requestVars, inventoryVars,
                   filter, featureVars, gone>>

\* saveProfile: the form trims the name it is given.  Renaming a profile
\* removes the one it replaces first, and an edit without an active profile
\* makes its own active.
FormProfiles == {p \in Profiles : Trimmed[Name[p]] = Name[p]}

Renames(p) == editing # None /\ ~SameName(editing, Name[p])

EditedBook(p) ==
    Upsert(IF Renames(p) THEN Without(saved, editing) ELSE saved, p)

EditedActive(p) ==
    LET kept == IF Renames(p) THEN ActiveAfterRemove(editing) ELSE active
    IN  IF kept = None THEN Name[p] ELSE kept

EditIsValid(p) == Valid(EditedBook(p), EditedActive(p))

\* Defect: the edited file is opened without having been validated.
SaveUnvalidated ==
    /\ InForm("save") /\ MayRequest
    /\ \E p \in FormProfiles :
          /\ saved' = EditedBook(p)
          /\ cursor' = IndexOf(EditedBook(p), Name[p])
          /\ BeginProfile(p, cmds)
    /\ UNCHANGED editing

\* The file changes in memory, is saved, and the profile opened.
SaveProfile ==
    /\ InForm("save") /\ MayRequest
    /\ \E p \in FormProfiles :
          /\ EditIsValid(p)
          /\ saved' = EditedBook(p)
          /\ cursor' = IndexOf(EditedBook(p), Name[p])
          /\ BeginProfile(p, cmds)
    /\ UNCHANGED editing

\* Upsert's Validate refuses the file, or the store does not save it: the
\* form shows the error, and memory keeps the edit.
SaveProfileFails ==
    /\ InForm("save")
    /\ \E p \in FormProfiles :
          /\ saved' = EditedBook(p)
          /\ active' = IF EditIsValid(p) THEN Name[p] ELSE EditedActive(p)
    /\ UNCHANGED <<loop, cursor, editing, linkVars, viewVars, requestVars,
                   inventoryVars, filter, featureVars, cmds, gone>>

\* removeProfile: open what is active now, or be left without a target.
RemoveProfile ==
    /\ InSelector("remove") /\ CursorInRange /\ MayRequest
    /\ LET name == Name[UnderCursor]
           p == ActiveProfile(saved', ActiveAfterRemove(name))
       IN /\ saved' = Without(saved, name)
          /\ Valid(saved', ActiveAfterRemove(name))
          /\ cursor' = Clamped(cursor, Len(saved'))
          /\ UNCHANGED editing
          /\ IF p # None
             THEN BeginProfile(p, cmds)
             ELSE /\ active' = ActiveAfterRemove(name)
                  /\ profile' = None /\ client' = None /\ mode' = "profiles"
                  /\ UNCHANGED <<loop, screen, err, requestVars,
                                 inventoryVars, filter, featureVars, cmds, gone>>

\* The save failed, or Validate refused it: the profile is gone from memory
\* and the cursor may now lie beyond the last profile.
RemoveProfileFails ==
    /\ InSelector("remove") /\ CursorInRange
    /\ saved' = Without(saved, Name[UnderCursor])
    /\ active' = ActiveAfterRemove(Name[UnderCursor])
    /\ err' = "other"
    /\ UNCHANGED <<loop, cursor, editing, linkVars, screen, mode, requestVars,
                   inventoryVars, filter, featureVars, cmds, gone>>

QuitSelector == InSelector("quit") /\ QuitNow
=============================================================================
