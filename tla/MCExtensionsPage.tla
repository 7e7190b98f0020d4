-------------------------- MODULE MCExtensionsPage --------------------------
(* The small instance of the extensions page: extensions are interchangeable. *)
EXTENDS ExtensionsPage, TLC

MCSymmetry == Permutations(Ext)

=============================================================================
