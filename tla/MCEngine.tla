------------------------------ MODULE MCEngine ------------------------------
(***************************************************************************)
(* Definitions for TLC: a family of small machines that between them have  *)
(* every feature the engine tests for.                                     *)
(***************************************************************************)
EXTENDS Engine, TLC

MCStateNames == {"", "work", "error", "exit", "Exit", "old"}
MCExitNames  == {"exit", "Exit"}

Tr(c, a, to) == [condition |-> c, action |-> a, target |-> to]

Def(a, trs, auto, onFrom) ==
    [action |-> a, transitions |-> trs, autoAdvance |-> auto,
     executeOnFrom |-> onFrom]

Final == Def(FALSE, << >>, FALSE, FALSE)

(* "work" loops to itself or leaves; "error" recovers or leaves.           *)
WorkTransitions ==
    { << Tr(TRUE, TRUE, "work"), Tr(FALSE, FALSE, "exit") >>,
      << Tr(TRUE, FALSE, "exit"), Tr(TRUE, TRUE, "error") >> }

ErrorTransitions == { << Tr(FALSE, FALSE, "work") >> }

Looping ==
    { [initial |-> "work", errorState |-> "error",
       states |-> ("work"  :> Def(aw, tw, autow, onw) @@
                   "error" :> Def(ae, te, autoe, FALSE) @@
                   "exit"  :> Final)] :
        aw \in {TRUE}, tw \in WorkTransitions, autow \in BOOLEAN,
        onw \in BOOLEAN, ae \in BOOLEAN, te \in ErrorTransitions,
        autoe \in BOOLEAN }

(* Exit spelt in another case, an exit state as the error state, an exit   *)
(* state with an action, a state of an earlier edition, and definitions    *)
(* the validator refuses.                                                  *)
Others ==
    { [initial |-> "old", errorState |-> "exit",
       states |-> ("old"  :> Def(TRUE, <<Tr(TRUE, TRUE, "Exit")>>, TRUE, TRUE) @@
                   "Exit" :> Def(TRUE, <<Tr(FALSE, FALSE, "old")>>, TRUE, TRUE) @@
                   "exit" :> Def(TRUE, << >>, TRUE, FALSE))],
      [initial |-> "work", errorState |-> "error",
       states |-> ("work" :> Def(TRUE, <<Tr(FALSE, FALSE, "work")>>, TRUE, FALSE))],
      [initial |-> "old", errorState |-> "old",
       states |-> ("old" :> Def(FALSE, <<Tr(TRUE, FALSE, "work")>>, FALSE, FALSE))],
      [initial |-> "Exit", errorState |-> "Exit",
       states |-> ("Exit" :> Final)] }

MCMachines == { m \in Looping \cup Others : Validate(m) }

MCMaxStepsArgs == {0, 2}
=============================================================================
