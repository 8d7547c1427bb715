----------------------------- MODULE AtomicSave -----------------------------
(***************************************************************************)
(* What Store.Save promises to the consoles that share a configuration     *)
(* file: a save takes effect at one moment, with everything it writes;     *)
(* it reports success if and only if it took effect; and stopping a        *)
(* console never leaves half a file.  Where a rename does not replace the  *)
(* file, a save may take the old one away first: then, and only then, a    *)
(* save that fails or stops leaves no file.                                *)
(***************************************************************************)
CONSTANTS
    Consoles,
    Files,          \* what a save may write
    Absent          \* there is no file

VARIABLES
    twoStep,        \* the platform's rename does not replace
    disk,           \* what a reader finds
    saving          \* of each console: the phase of its save, and the file saved

Idle == [phase |-> "idle", file |-> Absent]
Open(f) == [phase |-> "open", file |-> f]

\* The save of a console leaves one of the given phases for another state.
Moves(c, from, to) ==
    /\ saving[c].phase \in from
    /\ saving' = [saving EXCEPT ![c] = to]
    /\ UNCHANGED twoStep

Begin(c) == \E f \in Files : Moves(c, {"idle"}, Open(f)) /\ UNCHANGED disk

TakeAway(c) ==
    /\ twoStep
    /\ Moves(c, {"open"}, [saving[c] EXCEPT !.phase = "gone"])
    /\ disk' = Absent

Take(c) ==
    /\ Moves(c, {"open", "gone"}, [saving[c] EXCEPT !.phase = "taken"])
    /\ disk' = saving[c].file

\* After a success the same file may be saved again at once.
Succeed(c) ==
    /\ \/ Moves(c, {"taken"}, Idle)
       \/ Moves(c, {"taken"}, Open(saving[c].file))
    /\ UNCHANGED disk

Fail(c) == Moves(c, {"open", "gone"}, Idle) /\ UNCHANGED disk

Stop(c) == Moves(c, {"open", "gone", "taken"}, Idle) /\ UNCHANGED disk

Init ==
    /\ twoStep \in BOOLEAN
    /\ saving = [c \in Consoles |-> Idle]

Next == \E c \in Consoles :
    Begin(c) \/ TakeAway(c) \/ Take(c) \/ Succeed(c) \/ Fail(c) \/ Stop(c)

Spec == Init /\ [][Next]_<<twoStep, disk, saving>>
=============================================================================
