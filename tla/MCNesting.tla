----------------------------- MODULE MCNesting -----------------------------
(* Nested paths of up to three components.                                 *)
EXTENDS Nesting

Places == {<<3>>, <<1>>, <<3, 6>>, <<1, 11>>, <<3, 6, 8>>, <<3, 12>>}
=============================================================================
