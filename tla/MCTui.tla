-------------------------------- MODULE MCTui --------------------------------
(* A list of two torrents, a page full, and two commands at once. *)
EXTENDS Tui

CONSTANTS a, b, s1, s2, active, dead

MCListing == <<a, b>>
Symmetry == Permutations(Slots)

=============================================================================
