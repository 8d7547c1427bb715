-------------------------- MODULE GuardedMutations --------------------------
(***************************************************************************)
(* What the application promises of mutations (docs/containers.md,         *)
(* docs/images.md and the keyboard and safety contract): a container is    *)
(* started at once, any other mutation is sent only by confirming a dialog *)
(* that displays the same action, target and connection, and a dialog,     *)
(* once answered, authorises nothing more.                                 *)
(***************************************************************************)
CONSTANTS
    Guarded,        \* the actions that need a confirmation
    Targets,        \* what mutations apply to
    Connections,    \* the connection identities displayed
    NoDialog

VARIABLES
    dialog,         \* what the dialog displays, or NoDialog
    outstanding     \* the mutations sent, whose result is still to come

Displayed == [action : Guarded, target : Targets, connection : Connections]

\* One mutation more, distinct from every other.
Send(action, target, connection) ==
    \E m \in outstanding' \ outstanding :
        /\ <<m.action, m.target, m.connection>> = <<action, target, connection>>
        /\ outstanding' = outstanding \cup {m}

Show == /\ dialog = NoDialog
        /\ dialog' \in Displayed
        /\ UNCHANGED outstanding

Dismiss == /\ dialog # NoDialog
           /\ dialog' = NoDialog
           /\ UNCHANGED outstanding

Confirm == /\ dialog # NoDialog
           /\ dialog' = NoDialog
           /\ Send(dialog.action, dialog.target, dialog.connection)

Start == /\ dialog = NoDialog
         /\ \E t \in Targets, h \in Connections : Send("start", t, h)
         /\ UNCHANGED dialog

\* Results arrive; when the program ends, nobody waits for the others.
Finish == /\ outstanding' \subseteq outstanding
          /\ UNCHANGED dialog

Init == dialog = NoDialog /\ outstanding = {}

Next == Show \/ Dismiss \/ Confirm \/ Start \/ Finish

Spec == Init /\ [][Next]_<<dialog, outstanding>>
=============================================================================
