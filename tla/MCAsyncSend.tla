---------------------------- MODULE MCAsyncSend ----------------------------
(***************************************************************************)
(* AsyncSend with a few messages of different lengths, the empty one       *)
(* included.                                                               *)
(***************************************************************************)
EXTENDS AsyncSend, TLC

CONSTANTS m0, m1, m2, m3

Lengths == m0 :> 0 @@ m1 :> 1 @@ m2 :> 2 @@ m3 :> 3
=============================================================================
