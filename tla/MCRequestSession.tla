--------------------------- MODULE MCRequestSession ---------------------------
(* Two requests between two terminals. *)
EXTENDS RequestSession, TLC

CONSTANTS r1, r2

MCRequests == {r1, r2}
MCMessages == r1 :> 2 @@ r2 :> 1
===============================================================================
