-------------------------- MODULE MCQuoteScheduler --------------------------
(* A service that has two fields of two products, one product at a time, and *)
(* two services of another group that have the first field of both products. *)
EXTENDS QuoteScheduler, TLC

CONSTANTS p1, p2, f1, f2, s1, s2, s3, g1, g2

MCProduct == {p1, p2}
MCField == {f1, f2}
MCService == {s1, s2, s3}
MCGroup == {g1, g2}
MCGroupOf == (s1 :> g1) @@ (s2 :> g2) @@ (s3 :> g2)
MCProducts == [g \in MCGroup |-> MCProduct]
MCFields == (g1 :> {f1, f2}) @@ (g2 :> {f1})
MCMaxProducts == (g1 :> 1) @@ (g2 :> 2)
MCQueries == {<<<<p1, f1>>>>, <<<<p1, f2>>>>, <<<<p1, f1>>, <<p2, f1>>>>}
MCLists == {<<s1, s2>>, <<s2, s3, s1>>, <<s2, s3>>}
=============================================================================
