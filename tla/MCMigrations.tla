---------------------------- MODULE MCMigrations ----------------------------
(* Instances of Migrations for TLC *)
EXTENDS Migrations

TwoStores == {"s1", "s2"}
OwnerOf == [s \in TwoStores |-> IF s = "s1" THEN 1 ELSE 2]
(* A statement on tables that its transaction has for itself is executed   *)
(* before anything else happens: nobody can see the difference.            *)
Private(q) ==
    /\ q.at = "run"
    /\ ~AtVersion(q)
    /\ \A x \in LocksOf(Script(q)[q.k]) : <<x[1], "alone">> \in q.locks
MCNext ==
    \/ \E j \in Jobs : Private(job[j]) /\ Execute(j)
    \/ (\A j \in Jobs : ~Private(job[j])) /\ Next
MCSpec == Init /\ [][MCNext]_vars

RunDown == {<<5, 0>>, <<5, 4>>, <<7, 6>>, <<13, 6>>, <<13, 10>>}
Symmetric == Permutations(Jobs)
=============================================================================
