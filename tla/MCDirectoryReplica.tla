-------------------------- MODULE MCDirectoryReplica --------------------------
(* One terminal and the host, whose own infos change too; the terminal may   *)
(* lose its connection once.                                                 *)
EXTENDS DirectoryReplica, TLC

CONSTANTS t1, c1, c2, i1

MCTerminals == {t1}
MCConns == {c1, c2}
MCOwner == c1 :> t1 @@ c2 :> t1
MCInfos == {i1}
=============================================================================
