------------------------ MODULE MCAllocationsTracker ------------------------
(***************************************************************************)
(* Two regions that touch and one that does not.                           *)
(* Only their lengths are multiples of the chunk size.                     *)
(***************************************************************************)
EXTENDS AllocationsTracker, TLC

TouchingAndApart == (1 :> 6) @@ (7 :> 8) @@ (18 :> 4)
=============================================================================
