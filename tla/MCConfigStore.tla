---------------------------- MODULE MCConfigStore ----------------------------
(***************************************************************************)
(* Two consoles on one configuration file.                                 *)
(***************************************************************************)
EXTENDS ConfigStore, TLC

Alike == Permutations(Profiles)
=============================================================================
