----------------------------- MODULE MCConsole ------------------------------
(***************************************************************************)
(* Finite instances of the console.                                        *)
(***************************************************************************)
EXTENDS ConsoleProperties, TLC

CONSTANTS a, b, upper, spaced

\* Every profile is saved under its own name: upper is a in capitals, spaced
\* is upper with a space before it.
OwnName == [p \in Profiles |-> p]
Case == [n \in Names |-> IF n = upper THEN a ELSE n]
Space == [n \in Names |-> IF n = spaced THEN upper ELSE n]
=============================================================================
