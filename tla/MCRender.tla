------------------------------ MODULE MCRender ------------------------------
EXTENDS Render

(* Page 2 is over the limit at the higher resolution. *)
FitsAt(p, r) == p = 1 \/ r = 150
=============================================================================
