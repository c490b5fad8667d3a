----------------------------- MODULE MCLauncher -----------------------------
(* Launcher with three launchers and three versions. *)
EXTENDS Launcher, TLC

Symmetry == Permutations(Launchers) \cup Permutations(Versions)
=============================================================================
