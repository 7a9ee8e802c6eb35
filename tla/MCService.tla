----------------------------- MODULE MCService ------------------------------
(***************************************************************************)
(* Definitions for TLC: a machine, a later edition of it that has lost its *)
(* first state and advances by itself, and one the validator refuses.      *)
(***************************************************************************)
EXTENDS Service, TLC

MCStateNames == {"", "a", "b", "error", "exit"}
MCExitNames  == {"exit"}

To(targets, auto) ==
    [action |-> FALSE, autoAdvance |-> auto, executeOnFrom |-> FALSE,
     transitions |-> [k \in DOMAIN targets |->
         [condition |-> TRUE, action |-> FALSE, target |-> targets[k]]]]

First ==
    [initial |-> "a", errorState |-> "error",
     states |-> ("a" :> To(<<"b">>, FALSE) @@ "b" :> To(<<"exit">>, FALSE) @@
                 "error" :> To(<<"a">>, FALSE) @@ "exit" :> To(<< >>, FALSE))]

Second ==
    [initial |-> "b", errorState |-> "error",
     states |-> ("b" :> To(<<"exit", "b">>, TRUE) @@
                 "error" :> To(<<"exit">>, FALSE) @@
                 "exit" :> To(<< >>, FALSE))]

Broken == [Second EXCEPT !.initial = "a"]

MCMachineFiles == {First, Second, Broken}
MCOneMachine   == {First}

(* A lifetime, and one an operator has set to end sessions at once. *)
MCRuntimeFiles == [ttl : {1, -1}, maxSteps : {2}]

(* Requests differ in nothing but their names.  *)
Symmetry == Permutations(Workers)
=============================================================================
