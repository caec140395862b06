------------------------- MODULE MCTransferController -------------------------
(* Small instances of TransferController. *)
EXTENDS TransferController

CONSTANT o1

MCOrder == {o1}
MCRoutes == {<<>>, <<"instant", "chain">>, <<"chain", "instant">>, <<"chain", "chain">>}
MCAmount == [o \in Order |-> 10]
===============================================================================
