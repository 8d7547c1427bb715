-------------------------- MODULE ConfigStoreProofs --------------------------
(***************************************************************************)
(* For any number of consoles: the store saves atomically, and a console   *)
(* that is not apart from the others holds what the file holds.            *)
(***************************************************************************)
EXTENDS ConfigStore, TLAPS

USE DEF diskVars, saveVars

-----------------------------------------------------------------------------
(* The inductive invariant *)

\* A save that has taken effect, and that no other console has overwritten,
\* left its console's memory on disk.
SavedIsOnDisk ==
    \A c \in Consoles :
        step[c] = "replaced" /\ c \notin apart => disk = File(memory[c])

\* What the start-up read has found is on disk until somebody writes.
FoundIsOnDisk ==
    \A c \in Consoles :
        reply[c] \in Loaded /\ c \notin late => disk = reply[c]

\* The old file is removed only where a rename cannot replace it.
RemovesOnTwoSteps == \A c \in Consoles : step[c] = "remove" => twoStep

\* A console that saves, and is not apart, drops only what it was asked to.
DropsWhatIsAsked ==
    \A c \in Consoles :
        step[c] \in {"write", "rename", "remove", "renameAgain"} /\ c \notin apart =>
            disk.profiles \subseteq memory[c] \cup asked[c]

IInv == TypeOK /\ MemoryIsFile /\ SavedIsOnDisk /\ FoundIsOnDisk
          /\ RemovesOnTwoSteps /\ DropsWhatIsAsked

-----------------------------------------------------------------------------
(* Type correctness of each kind of step *)

\* What is found on disk is a file, nothing, or something unreadable.
LEMMA ContentsType ==
    /\ \A ps \in SUBSET Profiles : File(ps) \in Files
    /\ Absent \in Contents /\ Unreadable \in Contents
    /\ Files \subseteq Contents /\ Loaded \subseteq Contents
    /\ \A x \in Loaded : x.profiles \in SUBSET Profiles
BY DEF File, Files, Contents, Content, Loaded, Absent

\* What the console has not found yet, or has handled, is none of these.
LEMMA FoundContents ==
    /\ Handled \notin Contents /\ Reading \notin Contents
    /\ Unreadable \notin Loaded
<1>1. \A x \in Contents : x.kind \in {"absent", "unreadable", "file"}
  BY DEF File, Files, Contents, Content, Absent, Unreadable
<1>2. \A x \in Loaded : x.kind \in {"absent", "file"}
  BY DEF File, Files, Loaded, Content, Absent
<1>3. Handled.kind = "handled" /\ Reading.kind = "reading"
        /\ Unreadable.kind = "unreadable"
  BY DEF Handled, Reading, Unreadable, Content
<1> QED BY <1>1, <1>2, <1>3

LEMMA ProfilesOfFile == Absent.profiles = {} /\ \A ps : File(ps).profiles = ps
BY DEF Absent, File, Content

LEMMA InitIInv == ASSUME Init PROVE IInv
<1>1. TypeOK BY DEF Init, TypeOK, Steps
<1>2. FoundIsOnDisk
  BY ContentsType, FoundContents DEF Init, FoundIsOnDisk
<1> QED
  BY <1>1, <1>2 DEF Init, IInv, MemoryIsFile, SavedIsOnDisk, RemovesOnTwoSteps,
                 DropsWhatIsAsked, Free

LEMMA SaveKeepsType ==
    ASSUME TypeOK, NEW c \in Consoles, Saves(c)
    PROVE  TypeOK'
<1> USE ContentsType DEF TypeOK, Set, Steps
<1>1. CASE WriteTemp(c) BY <1>1 DEF WriteTemp, Reaches
<1>2. CASE Rename(c)
  BY <1>2 DEF Rename, RenameFrom, Reaches, TempFile, Outdates
<1>3. CASE RenameRefused(c) BY <1>3 DEF RenameRefused, Reaches
<1>4. CASE RemoveOld(c) BY <1>4 DEF RemoveOld, Reaches, Outdates
<1>5. CASE RenameAgain(c)
  BY <1>5 DEF RenameAgain, RenameFrom, Reaches, TempFile, Outdates
<1>6. CASE FailSave(c) BY <1>6 DEF FailSave, EndSave
<1>7. CASE SaveReturns(c) BY <1>7 DEF SaveReturns, BeginSave, EndSave
<1> QED BY <1>1, <1>2, <1>3, <1>4, <1>5, <1>6, <1>7 DEF Saves

\* What the operator's edits have in common: memory changes, and is saved.
Edits(c) ==
    /\ Free(c)
    /\ \E ps, dropped \in SUBSET Profiles, w \in {"form", "removal", "begin"} :
          /\ memory[c] \subseteq ps \cup dropped
          /\ memory' = [memory EXCEPT ![c] = ps]
          /\ step' = [step EXCEPT ![c] = "write"]
          /\ why' = [why EXCEPT ![c] = w]
          /\ asked' = [asked EXCEPT ![c] = dropped]
    /\ UNCHANGED <<diskVars, up, reply, apart, late>>

LEMMA OperatorEdits ==
    ASSUME TypeOK, NEW c \in Consoles,
           SaveProfile(c) \/ RemoveProfile(c) \/ OpenProfile(c)
    PROVE  Edits(c)
<1> USE DEF Edits, Edit, BeginSave, Set
<1>0. memory[c] \in SUBSET Profiles BY DEF TypeOK
<1>1. CASE SaveProfile(c)
  <2> PICK p \in Profiles, old \in SUBSET memory[c] :
        MayEdit(c) /\ Edit(c, (memory[c] \ old) \cup {p}, "form")
    BY <1>1 DEF SaveProfile
  <2> DEFINE ps == (memory[c] \ old) \cup {p}
  <2>1. ps \in SUBSET Profiles /\ memory[c] \ ps \in SUBSET Profiles BY <1>0
  <2> QED BY <2>1 DEF MayEdit
<1>2. CASE RemoveProfile(c)
  <2> PICK p \in memory[c] : MayEdit(c) /\ Edit(c, memory[c] \ {p}, "removal")
    BY <1>2 DEF RemoveProfile
  <2> DEFINE ps == memory[c] \ {p}
  <2>1. ps \in SUBSET Profiles /\ memory[c] \ ps \in SUBSET Profiles BY <1>0
  <2> QED BY <2>1 DEF MayEdit
<1>3. CASE OpenProfile(c)
  <2>1. memory[c] \ memory[c] \in SUBSET Profiles OBVIOUS
  <2> QED BY <1>0, <1>3, <2>1 DEF OpenProfile
<1> QED BY <1>1, <1>2, <1>3

LEMMA HandlerKeepsType ==
    ASSUME TypeOK, NEW c \in Consoles, Handles(c)
    PROVE  TypeOK'
<1>1. CASE ConfigRefused(c) BY <1>1 DEF TypeOK, ConfigRefused, Set
<1>2. CASE ConfigLoaded(c)
  BY <1>2, ContentsType
  DEF TypeOK, ConfigLoaded, TakeLoaded, Free, Set, BeginSave, Steps
<1>3. CASE Edits(c) BY <1>3 DEF TypeOK, Edits, Free, Steps
<1> QED BY <1>1, <1>2, <1>3, OperatorEdits DEF Handles

LEMMA NextKeepsType == ASSUME TypeOK, [Next]_vars PROVE TypeOK'
<1>1. CASE UNCHANGED vars BY <1>1 DEF vars, TypeOK
<1>2. ASSUME NEW c \in Consoles, Start(c) PROVE TypeOK'
  BY <1>2 DEF TypeOK, Start, Set
<1>3. ASSUME NEW c \in Consoles, Stop(c) PROVE TypeOK'
  BY <1>3 DEF TypeOK, Stop, EndSave, Set, Steps
<1>4. ASSUME NEW c \in Consoles, Load(c) PROVE TypeOK'
  BY <1>4, ContentsType DEF TypeOK, Load, Set
<1> QED BY <1>1, <1>2, <1>3, <1>4, SaveKeepsType, HandlerKeepsType DEF Next

-----------------------------------------------------------------------------
(* The invariant *)

\* How a step on one console's save affects what all of them know.
LEMMA SaveKeepsIInv ==
    ASSUME IInv, NEW c \in Consoles, Saves(c)
    PROVE  IInv'
<1> USE ContentsType, FoundContents
    DEF IInv, MemoryIsFile, SavedIsOnDisk, FoundIsOnDisk, RemovesOnTwoSteps,
        DropsWhatIsAsked, Free, Agrees
<1>0. TypeOK' BY SaveKeepsType
<1>1. CASE WriteTemp(c) BY <1>0, <1>1 DEF TypeOK, WriteTemp, Reaches, Set
<1>2. ASSUME NEW from \in {"rename", "renameAgain"}, RenameFrom(c, from)
      PROVE  IInv'
  BY <1>0, <1>2 DEF TypeOK, RenameFrom, Reaches, Set, TempFile, Outdates, Found
<1>3. CASE RenameRefused(c) BY <1>0, <1>3 DEF TypeOK, RenameRefused, Reaches, Set
<1>4. CASE RemoveOld(c)
  BY <1>0, <1>4 DEF TypeOK, RemoveOld, Reaches, Set, Outdates, Found
<1>5. CASE FailSave(c) BY <1>0, <1>5 DEF TypeOK, FailSave, EndSave, Set
<1>6. CASE SaveReturns(c)
  <2>1. c \notin apart => disk.profiles = memory[c]
    BY <1>6, ProfilesOfFile DEF SaveReturns
  <2>2. CASE BeginSave(c, "begin", {})
    BY <1>0, <1>6, <2>1, <2>2 DEF TypeOK, SaveReturns, BeginSave, Set
  <2>3. CASE EndSave(c)
    BY <1>0, <1>6, <2>3 DEF TypeOK, SaveReturns, EndSave, Set
  <2> QED BY <1>6, <2>2, <2>3 DEF SaveReturns
<1> QED BY <1>1, <1>2, <1>3, <1>4, <1>5, <1>6 DEF Saves, Rename, RenameAgain

LEMMA HandlerKeepsIInv ==
    ASSUME IInv, NEW c \in Consoles, Handles(c)
    PROVE  IInv'
<1> USE ContentsType, FoundContents
    DEF IInv, MemoryIsFile, SavedIsOnDisk, FoundIsOnDisk, RemovesOnTwoSteps,
        DropsWhatIsAsked, Free, Agrees
<1>0. TypeOK' BY HandlerKeepsType
<1>1. CASE ConfigRefused(c) BY <1>0, <1>1 DEF TypeOK, ConfigRefused, Set
<1>2. CASE ConfigLoaded(c)
  <2>1. c \notin apart' => Agrees(c)'
    BY <1>2 DEF TypeOK, ConfigLoaded, TakeLoaded, Set, Loaded, Files, File,
                Content, Absent
  <2>2. c \notin apart' => disk'.profiles = memory'[c]
    BY <2>1, ProfilesOfFile DEF Agrees
  <2>3. CASE BeginSave(c, "begin", {})
    BY <1>0, <1>2, <2>2, <2>3 DEF TypeOK, ConfigLoaded, Set, BeginSave
  <2>4. CASE UNCHANGED saveVars
    BY <1>0, <1>2, <2>1, <2>4 DEF TypeOK, ConfigLoaded, Set
  <2> QED BY <1>2, <2>3, <2>4 DEF ConfigLoaded
<1>3. CASE Edits(c)
  <2>1. c \notin apart => disk.profiles = memory[c]
    BY <1>3, ProfilesOfFile DEF Edits
  <2> QED BY <1>0, <1>3, <2>1 DEF TypeOK, Edits
<1> QED BY <1>1, <1>2, <1>3, OperatorEdits DEF Handles

LEMMA NextKeepsIInv == ASSUME IInv, [Next]_vars PROVE IInv'
<1> USE ContentsType, FoundContents
    DEF IInv, MemoryIsFile, SavedIsOnDisk, FoundIsOnDisk, RemovesOnTwoSteps,
        DropsWhatIsAsked, Free, Agrees
<1>0. TypeOK' BY NextKeepsType
<1>1. CASE UNCHANGED vars BY <1>0, <1>1 DEF vars
<1>2. ASSUME NEW c \in Consoles, Start(c) PROVE IInv'
  BY <1>0, <1>2 DEF TypeOK, Start, Set
<1>3. ASSUME NEW c \in Consoles, Stop(c) PROVE IInv'
  BY <1>0, <1>3 DEF TypeOK, Stop, EndSave, Set
<1>4. ASSUME NEW c \in Consoles, Load(c) PROVE IInv'
  BY <1>0, <1>4 DEF TypeOK, Load, Set
<1> QED BY <1>1, <1>2, <1>3, <1>4, SaveKeepsIInv, HandlerKeepsIInv DEF Next

LEMMA InvariantHolds == Spec => []IInv
BY InitIInv, NextKeepsIInv, PTL DEF Spec

\* Any number of consoles, editing, saving, failing and stopping in any
\* order: the state stays well-formed.
THEOREM StoreTypeCorrect == Spec => []TypeOK
BY InvariantHolds, PTL DEF IInv

\* A console that is not saving and not apart holds what is on disk
\* (handleConfigLoaded, saveProfile, removeProfile, beginProfile).
THEOREM MemoryFollowsFile == Spec => []MemoryIsFile
BY InvariantHolds, PTL DEF IInv

\* What a step takes out of the file.
NothingIsLost ==
    \A p \in disk.profiles \ disk'.profiles :
        \E c \in Consoles :
           \/ step[c] = "remove" /\ step'[c] = "renameAgain"
           \/ /\ step[c] # "replaced" /\ step'[c] = "replaced"
              /\ p \in asked[c] \/ c \in apart

LEMMA StepLosesNothing == ASSUME IInv, [Next]_vars PROVE NothingIsLost
<1> USE DEF IInv, TypeOK, Reaches, Set
<1>1. CASE disk' = disk BY <1>1 DEF NothingIsLost
<1>2. ASSUME NEW c \in Consoles, RemoveOld(c) PROVE NothingIsLost
  BY <1>2 DEF RemoveOld, NothingIsLost
<1>3. ASSUME NEW c \in Consoles, NEW from \in {"rename", "renameAgain"},
             RenameFrom(c, from)
      PROVE  NothingIsLost
  <2>1. step[c] = from /\ step'[c] = "replaced" BY <1>3 DEF RenameFrom
  <2>2. disk'.profiles = memory[c]
    BY <1>3, <2>1, ProfilesOfFile DEF RenameFrom, TempFile
  <2>3. c \notin apart => disk.profiles \subseteq memory[c] \cup asked[c]
    BY <2>1 DEF DropsWhatIsAsked
  <2> QED BY <2>1, <2>2, <2>3 DEF NothingIsLost
<1>4. ASSUME NEW c \in Consoles, Handles(c) PROVE disk' = disk
  BY <1>4, OperatorEdits DEF Handles, ConfigRefused, ConfigLoaded, Edits
<1>5. ASSUME NEW c \in Consoles, Saves(c) PROVE NothingIsLost
  BY <1>1, <1>2, <1>3, <1>5
  DEF Saves, WriteTemp, Rename, RenameRefused, RenameAgain, FailSave, SaveReturns
<1> QED BY <1>1, <1>4, <1>5 DEF Next, vars, Start, Stop, Load

\* The file loses a profile only on request, by the save of a console that
\* is apart, or, where a rename cannot replace it, with the whole file.
THEOREM NoSilentLossHolds == Spec => NoSilentLoss
<1>1. IInv /\ [Next]_vars => NothingIsLost BY StepLosesNothing
<1> QED BY <1>1, InvariantHolds, PTL DEF Spec, NoSilentLoss, NothingIsLost

-----------------------------------------------------------------------------
(* The refinement *)

Abstract == [c \in Consoles |-> SaveOf(c)]
abstractVars == <<twoStep, disk, Abstract>>

\* A step of console c alone changes, in the abstract, at most what it saves.
LEMMA OneMoves ==
    ASSUME NEW c \in Consoles,
           \A d \in Consoles \ {c} : UNCHANGED <<step[d], memory[d]>>
    PROVE  Abstract' = [Abstract EXCEPT ![c] = SaveOf(c)']
BY DEF Abstract, SaveOf, Phase

\* Between saves, memory does not matter.
LEMMA IdleStutters ==
    ASSUME NEW c \in Consoles, step[c] = "none", step'[c] = "none",
           \A d \in Consoles \ {c} : UNCHANGED <<step[d], memory[d]>>
    PROVE  Abstract' = Abstract
BY DEF Abstract, SaveOf, Phase

LEMMA InitRefines == ASSUME Init PROVE Saving!Init
BY DEF Init, Saving!Init, Saving!Idle, SaveOf

LEMMA SaveRefines ==
    ASSUME IInv, NEW c \in Consoles, Saves(c)
    PROVE  Saving!Next \/ UNCHANGED abstractVars
<1> USE DEF IInv, TypeOK, Reaches, Set, abstractVars
<1>0. /\ \A d \in Consoles \ {c} : UNCHANGED <<step[d], memory[d]>>
      /\ memory' = memory /\ twoStep' = twoStep
  BY DEF Saves, WriteTemp, Rename, RenameFrom, RenameRefused, RemoveOld,
         RenameAgain, FailSave, SaveReturns, BeginSave, EndSave
<1>1. Abstract' = [Abstract EXCEPT ![c] = SaveOf(c)'] BY <1>0, OneMoves
<1>2. Abstract[c] = SaveOf(c) /\ Abstract \in [Consoles -> {SaveOf(d) : d \in Consoles}]
  BY DEF Abstract
<1>3. CASE WriteTemp(c) \/ RenameRefused(c)
  <2>1. SaveOf(c)' = SaveOf(c) /\ disk' = disk
    BY <1>3 DEF WriteTemp, RenameRefused, SaveOf, Phase
  <2> QED BY <1>0, <1>1, <1>2, <2>1
<1>4. CASE RemoveOld(c)
  <2>1. /\ SaveOf(c).phase = "open" /\ disk' = Absent /\ twoStep
        /\ SaveOf(c)' = [SaveOf(c) EXCEPT !.phase = "gone"]
    BY <1>4 DEF RemoveOld, SaveOf, Phase, RemovesOnTwoSteps
  <2>2. Saving!TakeAway(c)
    BY <1>0, <1>1, <1>2, <2>1 DEF Saving!TakeAway, Saving!Moves, Abstract
  <2> QED BY <2>2 DEF Saving!Next
<1>5. CASE Rename(c) \/ RenameAgain(c)
  <2>1. /\ SaveOf(c).phase \in {"open", "gone"} /\ disk' = SaveOf(c).file
        /\ SaveOf(c)' = [SaveOf(c) EXCEPT !.phase = "taken"]
    BY <1>5 DEF Rename, RenameAgain, RenameFrom, TempFile, SaveOf, Phase
  <2>2. Saving!Take(c)
    BY <1>0, <1>1, <1>2, <2>1 DEF Saving!Take, Saving!Moves, Abstract
  <2> QED BY <2>2 DEF Saving!Next
<1>6. CASE FailSave(c)
  <2>1. /\ SaveOf(c).phase \in {"open", "gone"} /\ disk' = disk
        /\ SaveOf(c)' = Saving!Idle
    BY <1>6 DEF FailSave, EndSave, SaveOf, Phase, Steps, Saving!Idle
  <2>2. Saving!Fail(c)
    BY <1>0, <1>1, <1>2, <2>1 DEF Saving!Fail, Saving!Moves, Abstract
  <2> QED BY <2>2 DEF Saving!Next
<1>7. CASE SaveReturns(c)
  <2>1. /\ SaveOf(c).phase = "taken" /\ disk' = disk
        /\ \/ SaveOf(c)' = Saving!Idle
           \/ SaveOf(c)' = Saving!Open(SaveOf(c).file)
    BY <1>7 DEF SaveReturns, BeginSave, EndSave, SaveOf, Phase, Saving!Idle,
                Saving!Open
  <2>2. Saving!Succeed(c)
    BY <1>0, <1>1, <1>2, <2>1 DEF Saving!Succeed, Saving!Moves, Abstract
  <2> QED BY <2>2 DEF Saving!Next
<1> QED BY <1>3, <1>4, <1>5, <1>6, <1>7 DEF Saves

LEMMA BeginRefines ==
    ASSUME IInv, IInv', NEW c \in Consoles,
           step[c] = "none", step'[c] = "write",
           \A d \in Consoles \ {c} : UNCHANGED <<step[d], memory[d]>>,
           UNCHANGED diskVars
    PROVE  Saving!Next
<1>1. Abstract' = [Abstract EXCEPT ![c] = SaveOf(c)'] BY OneMoves
<1>2. Abstract[c] = SaveOf(c) BY DEF Abstract
<1>3. SaveOf(c).phase = "idle" BY DEF SaveOf
<1>4. SaveOf(c)' = Saving!Open(File(memory'[c])) BY DEF SaveOf, Phase, Saving!Open
<1>5. File(memory'[c]) \in Files BY DEF IInv, TypeOK, Files
<1>6. Saving!Begin(c)
  BY <1>1, <1>2, <1>3, <1>4, <1>5 DEF Saving!Begin, Saving!Moves, Abstract
<1> QED BY <1>6 DEF Saving!Next

LEMMA HandlerRefines ==
    ASSUME IInv, IInv', NEW c \in Consoles, Handles(c)
    PROVE  Saving!Next \/ UNCHANGED abstractVars
<1> USE DEF IInv, TypeOK, Set, Free
<1>1. CASE ConfigRefused(c)
  BY <1>1 DEF ConfigRefused, abstractVars, Abstract, SaveOf, Phase
<1>2. CASE ConfigLoaded(c)
  <2>1. /\ step[c] = "none" /\ UNCHANGED diskVars
        /\ \A d \in Consoles \ {c} : UNCHANGED <<step[d], memory[d]>>
    BY <1>2 DEF ConfigLoaded, BeginSave
  <2>2. CASE step'[c] = "write" BY <2>1, <2>2, BeginRefines
  <2>3. CASE step'[c] = "none"
    BY <2>1, <2>3, IdleStutters DEF abstractVars
  <2> QED BY <1>2, <2>2, <2>3 DEF ConfigLoaded, BeginSave
<1>3. CASE Edits(c)
  <2>1. /\ step[c] = "none" /\ step'[c] = "write" /\ UNCHANGED diskVars
        /\ \A d \in Consoles \ {c} : UNCHANGED <<step[d], memory[d]>>
    BY <1>3 DEF Edits
  <2> QED BY <2>1, BeginRefines
<1> QED BY <1>1, <1>2, <1>3, OperatorEdits DEF Handles

LEMMA NextRefines ==
    ASSUME IInv, IInv', [Next]_vars
    PROVE  Saving!Next \/ UNCHANGED abstractVars
<1> USE DEF IInv, TypeOK, Set, abstractVars
<1>1. CASE UNCHANGED vars BY <1>1 DEF vars, Abstract, SaveOf, Phase
<1>2. ASSUME NEW c \in Consoles, Start(c) PROVE UNCHANGED abstractVars
  BY <1>2 DEF Start, Abstract, SaveOf, Phase
<1>3. ASSUME NEW c \in Consoles, Stop(c)
      PROVE  Saving!Next \/ UNCHANGED abstractVars
  <2>1. /\ UNCHANGED diskVars /\ step'[c] = "none"
        /\ \A d \in Consoles \ {c} : UNCHANGED <<step[d], memory[d]>>
    BY <1>3 DEF Stop, EndSave
  <2>2. Abstract' = [Abstract EXCEPT ![c] = SaveOf(c)'] BY <2>1, OneMoves
  <2>3. Abstract[c] = SaveOf(c) /\ SaveOf(c)' = Saving!Idle
    BY <2>1 DEF Abstract, SaveOf, Saving!Idle
  <2>4. CASE step[c] = "none"
    BY <2>1, <2>4, IdleStutters
  <2>5. CASE step[c] # "none"
    <3>1. SaveOf(c).phase \in {"open", "gone", "taken"}
      BY <2>5 DEF SaveOf, Phase
    <3>2. Saving!Stop(c)
      BY <2>1, <2>2, <2>3, <3>1 DEF Saving!Stop, Saving!Moves, Abstract
    <3> QED BY <3>2 DEF Saving!Next
  <2> QED BY <2>4, <2>5
<1>4. ASSUME NEW c \in Consoles, Load(c) PROVE UNCHANGED abstractVars
  BY <1>4 DEF Load, Abstract, SaveOf, Phase
<1> QED BY <1>1, <1>2, <1>3, <1>4, SaveRefines, HandlerRefines DEF Next

\* A save, the rename of a complete temporary file and the two steps that
\* replace it on Windows included, is one atomic change of the file, reported
\* as what it was, however many consoles save, fail and stop (Store.Save).
THEOREM SaveIsAtomicHolds == Spec => SaveIsAtomic
<1>1. Init => Saving!Init BY InitRefines
<1>2. IInv /\ IInv' /\ [Next]_vars => [Saving!Next]_abstractVars
  BY NextRefines
<1> QED BY <1>1, <1>2, InvariantHolds, PTL
        DEF Spec, SaveIsAtomic, Saving!Spec, abstractVars, Abstract
=============================================================================
