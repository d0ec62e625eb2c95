--------------------------- MODULE MCLayoutEditor ---------------------------
(* Small boards for LayoutEditor. *)
EXTENDS LayoutEditor
CONSTANTS w1, w2, w3, ann, bob
=============================================================================
