---------------------------- MODULE StateMachine ----------------------------
(***************************************************************************)
(* A machine definition as the engine reads it (internal/domain/model.go)  *)
(* and the validator every loaded definition passes before it is run       *)
(* (internal/validation/validator.go).                                     *)
(*                                                                         *)
(* Names are members of StateNames.  Plugins (actions, conditions) are     *)
(* looked up by name in registries the engine does not own, so a           *)
(* definition keeps only whether a name was given: the engine tests for    *)
(* the empty string and nothing else.                                      *)
(***************************************************************************)
EXTENDS Naturals, Sequences

CONSTANTS
    StateNames,     \* every string a definition uses as the name of a state
    NoName,         \* the empty string
    ExitState,      \* domain.ExitState, the string "exit"
    ExitNames       \* the spellings of ExitState that differ only in case

ASSUME NamesAssumption ==
    /\ NoName \in StateNames
    /\ ExitState \in ExitNames
    /\ ExitNames \subseteq StateNames \ {NoName}

-----------------------------------------------------------------------------
TransitionDefinition ==
    [condition : BOOLEAN, action : BOOLEAN, target : StateNames]

StateDefinition ==
    [action : BOOLEAN, transitions : Seq(TransitionDefinition),
     autoAdvance : BOOLEAN, executeOnFrom : BOOLEAN]

(* A Go map read at a key it does not hold yields this value. *)
ZeroState ==
    [action |-> FALSE, transitions |-> << >>,
     autoAdvance |-> FALSE, executeOnFrom |-> FALSE]

IsStateMachine(m) ==
    /\ DOMAIN m = {"initial", "errorState", "states"}
    /\ m.initial \in StateNames
    /\ m.errorState \in StateNames
    /\ DOMAIN m.states \subseteq StateNames
    /\ m.states \in [DOMAIN m.states -> StateDefinition]

(* machine.States[name], for any name. *)
StateOf(m, name) ==
    IF name \in DOMAIN m.states THEN m.states[name] ELSE ZeroState

(* The engine's test, which ignores case: "Exit" and "EXIT" end a session. *)
IsExit(name) == name \in ExitNames

Targets(m, name) ==
    {StateOf(m, name).transitions[k].target :
        k \in DOMAIN StateOf(m, name).transitions}

(* A session in this state is left there until the next request.           *)
Waits(m, name) == IsExit(name) \/ ~StateOf(m, name).autoAdvance

(* Where a step from this state can leave a session: the target of a       *)
(* transition, the error state, or the state itself when its own action is *)
(* executed first and may end the step.                                    *)
StepsFrom(m, name) ==
    LET def == StateOf(m, name)
    IN  Targets(m, name) \cup {m.errorState}
          \cup (IF def.executeOnFrom /\ def.action THEN {name} ELSE {})

-----------------------------------------------------------------------------
(* The validator accepts a definition when none of its checks reports.     *)
(* Unlike the engine it exempts only the lower-case "exit" from having a   *)
(* transition.  A map key may be the empty string, so a state may be named *)
(* NoName; no transition can lead to it.                                   *)
ValidState(m, name) ==
    LET trs == m.states[name].transitions
    IN  /\ name # ExitState => trs # << >>
        /\ \A k \in DOMAIN trs : /\ trs[k].target # NoName
                                 /\ trs[k].target \in DOMAIN m.states

Validate(m) ==
    /\ m.initial # NoName
    /\ m.errorState # NoName
    /\ {m.initial, m.errorState} \subseteq DOMAIN m.states
    /\ \A name \in DOMAIN m.states : ValidState(m, name)

=============================================================================
