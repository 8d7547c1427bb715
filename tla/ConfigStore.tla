----------------------------- MODULE ConfigStore -----------------------------
(***************************************************************************)
(* The configuration file (internal/config/store.go) and the files in the  *)
(* memory of the consoles that edit it (saveProfile, removeProfile,        *)
(* beginProfile and handleConfigLoaded in internal/app/model.go).          *)
(*                                                                         *)
(* A step is one call to the operating system, or the part of a handler    *)
(* between two of them.  Saving blocks a console's event loop; its         *)
(* start-up read runs beside it (loadConfigCmd), and so do other consoles. *)
(* A console may stop between any two steps.  Of a file the model keeps    *)
(* which profiles it has; the texts, and which one is active, do not       *)
(* matter here.                                                            *)
(***************************************************************************)
CONSTANTS
    Consoles,       \* the processes that use the file
    Editors,        \* those at which an operator edits it, not only selects
    Profiles        \* the names of profiles

VARIABLES
    twoStep,        \* Windows: Rename may refuse to replace a file
    disk,           \* what is found under Store.path
    up,             \* the consoles that run
    memory,         \* Model.file: the profiles in it
    reply,          \* of the start-up read: what it found, once it has
    step,           \* the call that Store.Save has reached, or "none"
    why,            \* the handler that saves
    asked,          \* history: the profiles its operator asked it to drop
    apart,          \* history: the consoles whose memory may not be the file
    late            \* history: those whose read found what is no longer there

diskVars == <<twoStep, disk>>
saveVars == <<step, why, asked>>
vars == <<diskVars, up, memory, reply, saveVars, apart, late>>

Content(kind, profiles) == [kind |-> kind, profiles |-> profiles]
Absent == Content("absent", {})
Unreadable == Content("unreadable", {})
File(profiles) == Content("file", profiles)
Files == {File(profiles) : profiles \in SUBSET Profiles}
Contents == Files \cup {Absent, Unreadable}

\* The start-up read has not found anything yet, or has been handled.
Reading == Content("reading", {})
Handled == Content("handled", {})

Steps == {"none", "write", "rename", "remove", "renameAgain", "replaced"}

TypeOK ==
    /\ twoStep \in BOOLEAN
    /\ disk \in Contents
    /\ up \subseteq Consoles
    /\ memory \in [Consoles -> SUBSET Profiles]
    /\ reply \in [Consoles -> Contents \cup {Reading, Handled}]
    /\ step \in [Consoles -> Steps]
    /\ why \in [Consoles -> {"form", "removal", "begin"}]
    /\ asked \in [Consoles -> SUBSET Profiles]
    /\ apart \in SUBSET Consoles /\ late \in SUBSET Consoles
    /\ \A c \in Consoles \ up : step[c] = "none"

Found(c) == reply[c] \in Contents
Free(c) == c \in up /\ step[c] = "none"

Set(f, c, v) == f' = [f EXCEPT ![c] = v]

\* Handler w saves memory, from which its operator dropped some profiles.
BeginSave(c, w, dropped) ==
    Set(step, c, "write") /\ Set(why, c, w) /\ Set(asked, c, dropped)

EndSave(c) == Set(step, c, "none") /\ Set(why, c, "begin") /\ Set(asked, c, {})

Init ==
    /\ twoStep \in BOOLEAN
    /\ disk \in Contents
    /\ up = {}
    /\ memory = [c \in Consoles |-> {}]
    /\ reply = [c \in Consoles |-> Handled]
    /\ step = [c \in Consoles |-> "none"]
    /\ why = [c \in Consoles |-> "begin"]
    /\ asked = [c \in Consoles |-> {}]
    /\ apart = {} /\ late = {}

-----------------------------------------------------------------------------
(* Start and stop *)

\* New: memory holds config.Default() until the file has been read.
Start(c) ==
    /\ c \notin up
    /\ up' = up \cup {c}
    /\ Set(memory, c, {}) /\ Set(reply, c, Reading)
    /\ apart' = apart \cup {c}
    /\ UNCHANGED <<diskVars, saveVars, late>>

\* Quitting, or a crash between any two calls.  A temporary file stays
\* behind under a name that is not used again.
Stop(c) ==
    /\ c \in up
    /\ up' = up \ {c}
    /\ Set(memory, c, {}) /\ Set(reply, c, Handled)
    /\ EndSave(c)
    /\ apart' = apart \ {c} /\ late' = late \ {c}
    /\ UNCHANGED diskVars

-----------------------------------------------------------------------------
(* Store.Load *)

\* The file is read as it is, or cannot be read.
Load(c) ==
    /\ reply[c] = Reading
    /\ \E found \in {disk, Unreadable} : Set(reply, c, found)
    /\ UNCHANGED <<diskVars, up, memory, saveVars, apart, late>>

-----------------------------------------------------------------------------
(* Store.Save *)

Reaches(c, from, to) ==
    /\ step[c] = from /\ Set(step, c, to)
    /\ UNCHANGED <<twoStep, up, memory, reply, why, asked>>

\* Validate, which never refuses (BookIsValid of ConsoleProperties), MkdirAll,
\* Chmod, CreateTemp, Chmod, Write, Close.
WriteTemp(c) ==
    /\ Reaches(c, "write", "rename")
    /\ UNCHANGED <<disk, apart, late>>

TempFile(c) == IF step[c] = "write" THEN Unreadable ELSE File(memory[c])

\* A change of the file outdates what other consoles know of it, and what
\* reads have found.
Outdates(c) == late' = late \cup {d \in Consoles : Found(d)}

\* Rename, from one of two places.
RenameFrom(c, from) ==
    /\ Reaches(c, from, "replaced")
    /\ disk' = TempFile(c)
    /\ apart' = up \ {c}
    /\ Outdates(c)

\* Defect: the file is moved into place before it is complete.
RenameEarly(c) == RenameFrom(c, "write") \/ RenameFrom(c, "rename")

Rename(c) == RenameFrom(c, "rename")
RenameAgain(c) == RenameFrom(c, "renameAgain")

\* Windows: the file exists, or somebody has it open.
RenameRefused(c) ==
    /\ twoStep
    /\ Reaches(c, "rename", "remove")
    /\ UNCHANGED <<disk, apart, late>>

RemoveOld(c) ==
    /\ Reaches(c, "remove", "renameAgain")
    /\ disk' = Absent
    /\ apart' = up
    /\ Outdates(c)

\* A call fails: Save removes its temporary file, and the handler returns.
\* beginProfile ignores the error, and the others change nothing more.
FailSave(c) ==
    /\ step[c] \notin {"none", "replaced"}
    /\ step[c] = "rename" => ~twoStep
    /\ EndSave(c)
    /\ apart' = apart \cup {c}
    /\ UNCHANGED <<diskVars, up, memory, reply, late>>

\* Save has succeeded.  saveProfile, and removeProfile if one of the profiles
\* left is active, go on with beginProfile, which saves the same file again.
SaveReturns(c) ==
    /\ step[c] = "replaced"
    /\ \/ /\ why[c] = "form" \/ (why[c] = "removal" /\ memory[c] # {})
          /\ BeginSave(c, "begin", {})
       \/ why[c] # "form" /\ EndSave(c)
    /\ UNCHANGED <<diskVars, up, memory, reply, apart, late>>

-----------------------------------------------------------------------------
(* Handlers *)

\* handleConfigLoaded, with an error.
ConfigRefused(c) ==
    /\ Free(c) /\ reply[c] = Unreadable
    /\ Set(reply, c, Handled)
    /\ late' = late \ {c}
    /\ UNCHANGED <<diskVars, up, memory, saveVars, apart>>

\* Defect: what was edited before the file was read is added to it.
MergeLoaded(c) == memory[c] \cup reply[c].profiles

TakeLoaded(c) == reply[c].profiles

\* Defect: a file that cannot be read counts as none.
LoadedOrNot == Contents

Loaded == Files \cup {Absent}

\* What was read replaces memory, edited or not.  If a profile of it is
\* active, beginProfile saves.
ConfigLoaded(c) ==
    /\ Free(c) /\ reply[c] \in Loaded
    /\ Set(reply, c, Handled)
    /\ Set(memory, c, TakeLoaded(c))
    /\ apart' = (apart \ {c}) \cup (late \cap {c})
    /\ late' = late \ {c}
    /\ \/ reply[c].profiles # {} /\ BeginSave(c, "begin", {})
       \/ UNCHANGED saveVars
    /\ UNCHANGED <<diskVars, up>>

\* Defect: a key is handled while the loop is still in a save, or has ended.
MayEditAnyTime(c) == c \in Editors

MayEdit(c) == Free(c) /\ c \in Editors

Edit(c, profiles, w) ==
    /\ Set(memory, c, profiles)
    /\ BeginSave(c, w, memory[c] \ profiles)
    /\ UNCHANGED <<diskVars, up, reply, apart, late>>

\* saveProfile: p is new or edited, and may replace old, which is renamed.
SaveProfile(c) ==
    \E p \in Profiles, old \in SUBSET memory[c] :
        /\ MayEdit(c) /\ \A q, r \in old : q = r
        /\ Edit(c, (memory[c] \ old) \cup {p}, "form")

RemoveProfile(c) ==
    MayEdit(c) /\ \E p \in memory[c] : Edit(c, memory[c] \ {p}, "removal")

\* handleProfilesKey, Open.
OpenProfile(c) == Free(c) /\ memory[c] # {} /\ Edit(c, memory[c], "begin")

-----------------------------------------------------------------------------
Saves(c) ==
    \/ WriteTemp(c) \/ Rename(c) \/ RenameRefused(c) \/ RemoveOld(c)
    \/ RenameAgain(c) \/ FailSave(c) \/ SaveReturns(c)

Handles(c) ==
    \/ ConfigRefused(c) \/ ConfigLoaded(c)
    \/ SaveProfile(c) \/ RemoveProfile(c) \/ OpenProfile(c)

Next == \E c \in Consoles :
    Start(c) \/ Stop(c) \/ Load(c) \/ Saves(c) \/ Handles(c)

Spec == Init /\ [][Next]_vars

-----------------------------------------------------------------------------
(* Properties *)

Phase(c) == CASE step[c] = "renameAgain" -> "gone"
              [] step[c] = "replaced" -> "taken"
              [] OTHER -> "open"

SaveOf(c) == IF step[c] = "none" THEN [phase |-> "idle", file |-> Absent]
             ELSE [phase |-> Phase(c), file |-> File(memory[c])]

Saving == INSTANCE AtomicSave WITH saving <- [c \in Consoles |-> SaveOf(c)]

\* However the saves of several consoles interleave, fail or are cut short,
\* readers find what one of them saved as a whole, and what a save reports
\* is what it did (Store.Save).
SaveIsAtomic == Saving!Spec

\* The file that memory c came from, or went to, is the one on disk.
Agrees(c) == disk = File(memory[c]) \/ (disk = Absent /\ memory[c] = {})

\* A console that is not saving holds what is on disk, unless it is apart: it
\* has not read the file yet, could not, or read what was replaced since; its
\* last save failed; another console has written (saveProfile,
\* removeProfile, beginProfile, handleConfigLoaded).
MemoryIsFile == \A c \in Consoles : Free(c) /\ c \notin apart => Agrees(c)

\* The file loses a profile only when an operator asks for it, or by the save
\* of a console that is apart.  On Windows a save may also take the whole
\* file away, for a moment (Store.Save, and the handlers that save).
NoSilentLoss ==
    [][\A p \in disk.profiles \ disk'.profiles :
          \E c \in Consoles :
             \/ step[c] = "remove" /\ step'[c] = "renameAgain"
             \/ /\ step[c] # "replaced" /\ step'[c] = "replaced"
                /\ p \in asked[c] \/ c \in apart]_vars
=============================================================================
