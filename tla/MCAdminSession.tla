--------------------------- MODULE MCAdminSession ---------------------------
(* An instance of AdminSession for TLC: all tabs belong to one browser.     *)
EXTENDS AdminSession

CONSTANT b1

MCBrowser == {b1}
MCBrowserOf == [t \in Tab |-> b1]

=============================================================================
