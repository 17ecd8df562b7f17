----------------------------- MODULE MCDesktop ------------------------------
(* Small instances of Desktop for TLC. *)
EXTENDS DesktopProps, TLC

Interchangeable == Permutations(Runs) \cup Permutations(Syncs)
=============================================================================
