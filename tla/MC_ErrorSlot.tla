--------------------------- MODULE MC_ErrorSlot ----------------------------
(***************************************************************************)
(* Instances of ErrorSlot for TLC: PluginInstance values are model values *)
(* declared in the .cfg files.                                             *)
(***************************************************************************)
EXTENDS ErrorSlot, TLC

CONSTANTS p1, p2, p3

\* Swapping two plugin instances changes nothing.
Sym == Permutations({p1, p2})

=============================================================================
