--------------------------- MODULE MCHttpSession ---------------------------
(***************************************************************************)
(* HttpSession on small instances.                                         *)
(***************************************************************************)
EXTENDS HttpSession
=============================================================================
