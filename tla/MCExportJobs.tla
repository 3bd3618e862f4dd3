----------------------------- MODULE MCExportJobs -----------------------------
(* Two jobs and two replicas.  One version has two stored episodes, which     *)
(* need two shards, and a bare one, whose sidecar fills the first shard       *)
(* beyond its limit.  The other one has a stored episode that the caller      *)
(* spells in a way of its own, the bare one, and one whose object the loader  *)
(* misses unless its row was deleted before.  Every job has its default       *)
(* target_prefix.                                                             *)
EXTENDS ExportJobs

CONSTANTS j1, j2, w1, w2, e1, e2, e3, e4, spelt2, own1, own2

MCJobs == {j1, j2}
MCWorkers == {w1, w2}
MCOrders == {[version |-> <<e1, e3, e2>>, format |-> "webdataset"],
             [version |-> <<spelt2, e3, e4>>, format |-> "raw"]}
MCCanonical == [ref \in Refs |-> IF ref = spelt2 THEN e2 ELSE ref]
MCStored == {e1, e2, e4}
MCLoadable == {e1, e2}
MCSize == [e \in Episodes |-> CASE e = e1 -> 3 [] e = e3 -> 0 [] OTHER -> 1]
MCTargetPrefixes == {own1, own2}
MCDefaultPrefix == (j1 :> own1) @@ (j2 :> own2)
NoneLoadable == {}
=============================================================================
