------------------------------- MODULE MCCatalog -------------------------------
(* Two projects, three episodes (two of the first project), and one of the  *)
(* rest.                                                                     *)
EXTENDS Catalog

CONSTANTS p1, p2, e1, e2, e3, d1, v1, k1, j1

MCProjectOf == (e1 :> p1) @@ (e2 :> p1) @@ (e3 :> p2)
MCSizeOf == (e1 :> 1) @@ (e2 :> 2) @@ (e3 :> 4)
MCRefLists == {<<>>, <<e1>>, <<e1, e1>>, <<e2, e1>>, <<e1, e3>>}
===============================================================================
