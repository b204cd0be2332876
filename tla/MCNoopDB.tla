------------------------------ MODULE MCNoopDB ------------------------------
(* NoopDB for TLC: a cluster whose first node is not a TiDB node and that  *)
(* has more than one TiDB node.                                            *)
EXTENDS NoopDB

MCCluster ==
    << [name |-> "pd-0",   component |-> "pd"],
       [name |-> "tikv-0", component |-> "tikv"],
       [name |-> "tidb-0", component |-> TiDB],
       [name |-> "tidb-1", component |-> TiDB],
       [name |-> "tidb-2", component |-> TiDB] >>
=============================================================================
