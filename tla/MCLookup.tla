------------------------------ MODULE MCLookup ------------------------------
(* Nodes enough to fill the shortlist, be trimmed from it and come back. *)
EXTENDS Lookup

CONSTANTS p1, p2

=============================================================================
