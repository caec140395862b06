--------------------------- MODULE MCHostDirectory ---------------------------
(* Two terminals, one of which may reconnect, before or after               *)
(* the host has noticed that its old socket is gone.                        *)
EXTENDS HostDirectory, TLC

CONSTANTS t1, t2, c1, c2, c3, i1, i2

MCTerminals == {t1, t2}
MCConns == {c1, c2, c3}
MCOwner == c1 :> t1 @@ c2 :> t1 @@ c3 :> t2
MCInfos == {i1, i2}
=============================================================================
