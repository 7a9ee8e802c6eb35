---------------------------- MODULE MCFileStore -----------------------------
(***************************************************************************)
(* Definitions for TLC: a process that writes, removes and counts, beside  *)
(* one that reads; and two processes of which one writes and one removes.  *)
(***************************************************************************)
EXTENDS FileStore, TLC

CONSTANTS p1, p2, c1, c2, c3

MCHome == c1 :> p1 @@ c2 :> p1 @@ c3 :> p2

MCKinds ==
    c1 :> {"upsert", "stats"} @@ c2 :> {"delete"} @@ c3 :> {"get"}

MCTwoHome  == c1 :> p1 @@ c2 :> p2
MCTwoKinds == c1 :> {"get", "upsert"} @@ c2 :> {"delete"}

MCSessions == {[expires |-> NoExpiry], [expires |-> 1]}
MCLifetimes == {[expires |-> 1], [expires |-> 2]}
=============================================================================
