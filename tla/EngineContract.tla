--------------------------- MODULE EngineContract ---------------------------
(***************************************************************************)
(* The outcome of one call of Steps (internal/engine/engine.go), as a      *)
(* function of the definition and of the state the call finds the session  *)
(* in: what module MachineWalk allows from beginning to end.  The engine   *)
(* is shown to stay within it (Engine!AnswerAllowed), and the service is   *)
(* built on it.                                                            *)
(***************************************************************************)
EXTENDS StateMachine

(* The states a call can begin a step from: the members of every set that  *)
(* holds the first and the states it advances from by itself.              *)
Begins(m, name) ==
    LET closed == {S \in SUBSET StateNames :
                     /\ name \in S
                     /\ \A x \in S : \A y \in StepsFrom(m, x) :
                          Waits(m, y) \/ y \in S}
    IN  {x \in StateNames : \A S \in closed : x \in S}

(* The states in which a call can end, having begun in this one.           *)
Ends(m, name) == UNION {StepsFrom(m, x) : x \in Begins(m, name)}

Steps(m, name) ==
    IF IsExit(name) THEN {[state |-> name, err |-> TRUE]}
    ELSE {[state |-> x, err |-> FALSE] :
             x \in {y \in Ends(m, name) : Waits(m, y)}}
         \cup
         {[state |-> x, err |-> TRUE] :
             x \in {y \in Ends(m, name) : y = m.errorState \/ ~Waits(m, y)}}

=============================================================================
