---------------------------- MODULE MCUnitOfWork ----------------------------
(* UnitOfWork for TLC: what each of three transactions may do; every pair of *)
(* operations that meet in a table is among them.                            *)
EXTENDS UnitOfWork

CONSTANTS t1, t2, t3

MCMayCall == [t \in Transactions |->
    CASE t = t1 -> {"create_many", "delete"}
      [] t = t2 -> {"create", "create_many", "delete", "insert_many"}
      [] OTHER -> {"get_list"}]
=============================================================================
