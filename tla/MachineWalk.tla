---------------------------- MODULE MachineWalk -----------------------------
(***************************************************************************)
(* What the engine promises its caller, without saying how: a call walks   *)
(* a session along the edges of the machine it was given.  A call that     *)
(* finds the session in an exit state refuses and leaves it there.  Any    *)
(* other takes one step, to a state the definition allows, and goes on     *)
(* only while the state it is in advances by itself.  It answers without   *)
(* an error where the session has to wait for the next call, and with an   *)
(* error in the error state or where it runs out of steps.                 *)
(***************************************************************************)
EXTENDS StateMachine

CONSTANT Machines        \* the validated definitions a call may be given

VARIABLES
    machine,    \* the definition the current call was given
    state,      \* session.State
    call        \* "refused", "running", "stepped", or answered "ok", "error"

walkVars == <<machine, state, call>>

Received(s) == IF IsExit(s) THEN "refused" ELSE "running"

Init ==
    /\ machine \in Machines
    /\ state = machine.initial
    /\ call = Received(state)

Call ==
    /\ call \in {"ok", "error"}
    /\ machine' \in Machines
    /\ call' = Received(state)
    /\ UNCHANGED state

TakeStep ==
    /\ call = "running"
    /\ ~IsExit(state)
    /\ state' \in StepsFrom(machine, state)
    /\ call' = "stepped"
    /\ UNCHANGED machine

(* The action of the state just entered fails.                             *)
Fail ==
    /\ call = "stepped"
    /\ ~IsExit(state)
    /\ state' = machine.errorState
    /\ UNCHANGED <<machine, call>>

GoOn ==
    /\ call = "stepped"
    /\ ~Waits(machine, state)
    /\ call' = "running"
    /\ UNCHANGED <<machine, state>>

AnswerOk ==
    /\ call = "stepped"
    /\ Waits(machine, state)
    /\ call' = "ok"
    /\ UNCHANGED <<machine, state>>

AnswerError ==
    /\ \/ call = "refused"
       \/ call = "stepped" /\ state = machine.errorState
       \/ call = "running" /\ ~Waits(machine, state)
    /\ call' = "error"
    /\ UNCHANGED <<machine, state>>

Next == Call \/ TakeStep \/ Fail \/ GoOn \/ AnswerOk \/ AnswerError

Spec == Init /\ [][Next]_walkVars
=============================================================================
