----------------------------- MODULE MCDbProxy ------------------------------
(***************************************************************************)
(* DbProxy for TLC: two users in the database and one that may be created, *)
(* two threads in the pool, and always one job that may throw.  Either two *)
(* rows change, of one table or of both and one of them twice, or one row  *)
(* changes while the owner makes two calls, or one row changes three       *)
(* times, once more than the width of a cached version can hold.           *)
(***************************************************************************)
EXTENDS DbProxy

SomeExist == {1, 2}

Changes(n, m, k) ==
    [r \in {"user", "account"} \X Users |->
        CASE r = <<"user", 1>> -> n [] r = <<"user", 2>> -> m [] r = <<"account", 1>> -> k [] OTHER -> 0]

SomeBudgets == {[versions |-> Changes(2, 1, 0), calls |-> 0, failures |-> 1],
                [versions |-> Changes(2, 0, 1), calls |-> 0, failures |-> 1],
                [versions |-> Changes(3, 0, 0), calls |-> 0, failures |-> 1],
                [versions |-> Changes(1, 0, 0), calls |-> 2, failures |-> 1]}
=============================================================================
