-------------------------------- MODULE Feed --------------------------------
(***************************************************************************)
(* What a log, statistics or pull view promises while it is open: it shows *)
(* what the host sends, in order, each once and none left out; it says     *)
(* that the feed ended only when the host has ended it and everything is   *)
(* shown, with the host's outcome; and once it is left it shows nothing    *)
(* more.                                                                   *)
(***************************************************************************)
EXTENDS Naturals, Sequences

VARIABLES
    made,           \* how many items the host has sent
    outcome,        \* how the host has ended the feed, or "none"
    shown,          \* the items shown
    ended,          \* how the view says it ended, or "none"
    open            \* the operator has not left

feedVars == <<made, outcome, shown, ended, open>>

Make == /\ outcome = "none"
        /\ made' = made + 1
        /\ UNCHANGED <<outcome, shown, ended, open>>

Finish == /\ outcome = "none" /\ outcome' \in {"ok", "error"}
          /\ UNCHANGED <<made, shown, ended, open>>

Show == /\ open /\ ended = "none"
        /\ Len(shown) < made /\ shown' = Append(shown, Len(shown) + 1)
        /\ UNCHANGED <<made, outcome, ended, open>>

End == /\ open /\ ended = "none"
       /\ outcome # "none" /\ Len(shown) = made
       /\ ended' = outcome
       /\ UNCHANGED <<made, outcome, shown, open>>

Leave == /\ open /\ open' = FALSE
         /\ UNCHANGED <<made, outcome, shown, ended>>

Init == /\ made = 0 /\ outcome = "none"
        /\ shown = <<>> /\ ended = "none" /\ open \in BOOLEAN

Next == Make \/ Finish \/ Show \/ End \/ Leave

Spec == Init /\ [][Next]_feedVars
=============================================================================
