------------------------------- MODULE Engine -------------------------------
(***************************************************************************)
(* internal/engine/engine.go: Steps, and the Step it repeats, over one     *)
(* session that is carried from one request to the next.                   *)
(*                                                                         *)
(* A step calls plugins: the action of the state it starts from, the       *)
(* conditions of that state's transitions, the action of the transition it *)
(* selects, and the action of the state it enters.  Each call is an action *)
(* of the specification and may go any way a plugin may go; everything     *)
(* between two calls belongs to the one before.  Every request is given a  *)
(* definition and a bound of its own, because the service loads both again *)
(* for each request.                                                       *)
(***************************************************************************)
EXTENDS Integers, EngineContract

CONSTANTS
    Machines,                \* the definitions a request may be given
    MaxStepsArgs,            \* the bounds a request may be given
    DefaultMaxAutoAdvances   \* domain.DefaultMaxAutoAdvances (1000)

ASSUME MachinesAssumption ==
    \A m \in Machines : IsStateMachine(m) /\ Validate(m)

ASSUME BoundsAssumption ==
    /\ MaxStepsArgs \subseteq Int
    /\ DefaultMaxAutoAdvances \in Nat \ {0}

VARIABLES
    \* The arguments of Steps and the session it works on.
    machine, maxSteps, state,
    \* Where the goroutine is, and the local variables of Steps and Step.
    pc, i, fromState, t, selected, success, err, out, output,
    \* What the request has shown to the outside: the events an observer
    \* saw, and the outputs its actions produced.
    events, ran,
    \* History of the request: the state it found the session in, whether a
    \* plugin has failed, whether an action has asked to finish.
    start, failed, finished

arguments == <<machine, maxSteps>>
loop      == <<i, output>>
scan      == <<fromState, t>>
chosen    == <<selected, success>>
seen      == <<events, ran>>
history   == <<start, failed, finished>>
vars == <<machine, maxSteps, state, pc, i, fromState, t, selected, success,
          err, out, output, events, ran, start, failed, finished>>

-----------------------------------------------------------------------------
Selection == [action : BOOLEAN, target : StateNames]
Event     == [from : StateNames, to : StateNames, success : BOOLEAN]

(* One token for each action a request may run: the step, and the place in *)
(* the step the engine calls it from.                                      *)
Token  == Nat \X {"from", "transition", "state"}

Places == {"loop", "onFrom", "transitions", "transitionAction", "enter",
           "stateAction", "stepped", "returned"}

(* The errors of Step and Steps, by what caused them; "none" is nil.       *)
Errors == {"none", "exit", "limit", "condition", "action"}

Limit == IF maxSteps <= 0 THEN DefaultMaxAutoAdvances ELSE maxSteps

Current == StateOf(machine, fromState)

(* selected before a transition is found, and a transition made up for it. *)
NoSelection  == [action |-> FALSE, target |-> NoName]
ToErrorState == [action |-> FALSE, target |-> machine.errorState]

TypeOK ==
    /\ machine \in Machines
    /\ maxSteps \in MaxStepsArgs
    /\ state \in StateNames
    /\ pc \in Places
    /\ i \in Nat
    /\ fromState \in StateNames
    /\ t \in Nat \ {0}
    /\ selected \in Selection
    /\ success \in BOOLEAN
    /\ err \in Errors
    /\ out \in Seq(Token)
    /\ output \in Seq(Token)
    /\ events \in Seq(Event)
    /\ ran \in Seq(Token)
    /\ start \in StateNames
    /\ failed \in BOOLEAN
    /\ finished \in BOOLEAN

Running == pc # "returned"

-----------------------------------------------------------------------------
(* A request that names no session yet starts in the definition's initial  *)
(* state.                                                                  *)
Init ==
    /\ machine \in Machines
    /\ maxSteps \in MaxStepsArgs
    /\ state = machine.initial
    /\ pc = "loop"
    /\ i = 0
    /\ fromState = state
    /\ t = 1
    /\ selected = NoSelection
    /\ success = TRUE
    /\ err = "none"
    /\ out = << >>
    /\ output = << >>
    /\ events = << >>
    /\ ran = << >>
    /\ start = state
    /\ failed = FALSE
    /\ finished = FALSE

(* The next request for the same session, with whatever definition the     *)
(* configuration holds by then.                                            *)
Request ==
    /\ pc = "returned"
    /\ machine' \in Machines
    /\ maxSteps' \in MaxStepsArgs
    /\ pc' = "loop"
    /\ i' = 0
    /\ fromState' = state
    /\ t' = 1
    /\ selected' = NoSelection
    /\ success' = TRUE
    /\ err' = "none"
    /\ out' = << >>
    /\ output' = << >>
    /\ events' = << >>
    /\ ran' = << >>
    /\ start' = state
    /\ failed' = FALSE
    /\ finished' = FALSE
    /\ UNCHANGED state

-----------------------------------------------------------------------------
(* The head of Steps' loop and of Step.                                    *)

(* Mutant: the loop runs once more than its bound allows. *)
InBoundsOffByOne == i <= Limit

InBounds == i < Limit

LimitExceeded ==
    /\ pc = "loop"
    /\ ~InBounds
    /\ err' = "limit"
    /\ pc' = "returned"
    /\ UNCHANGED <<arguments, loop, scan, chosen, seen, history, state, out>>

(* Mutant: Step runs from an exit state too. *)
RefusedNever == FALSE

Refused == IsExit(state)

RefuseExit ==
    /\ pc = "loop"
    /\ InBounds
    /\ Refused
    /\ err' = "exit"
    /\ out' = << >>
    /\ pc' = "stepped"
    /\ UNCHANGED <<arguments, loop, scan, chosen, seen, history, state>>

BeginStep ==
    /\ pc = "loop"
    /\ InBounds
    /\ ~Refused
    /\ fromState' = state
    /\ t' = 1
    /\ selected' = NoSelection
    /\ success' = TRUE
    /\ err' = "none"
    /\ out' = << >>
    /\ LET def == StateOf(machine, state)
       IN  pc' = IF def.executeOnFrom /\ def.action THEN "onFrom"
                                                    ELSE "transitions"
    /\ UNCHANGED <<arguments, loop, seen, history, state>>

-----------------------------------------------------------------------------
(* What the calls of plugins have in common.                               *)

(* Mutant: the output of one call replaces that of the call before. *)
ProducesAnew(place) ==
    /\ ran' = Append(ran, <<i, place>>)
    /\ out' = << <<i, place>> >>

(* An action has run, and what it returned joins the output of the step.   *)
Produces(place) ==
    /\ ran' = Append(ran, <<i, place>>)
    /\ out' = Append(out, <<i, place>>)

(* Mutant: only moves that succeed are shown to the observers. *)
NotifySuccess(event) ==
    events' = IF event.success THEN Append(events, event) ELSE events

Notify(event) == events' = Append(events, event)

(* Mutant: the session stays in the state whose action failed. *)
RuntimeErrorInPlace(from) ==
    /\ Notify([from |-> from, to |-> machine.errorState, success |-> FALSE])
    /\ err' = "action"
    /\ out' = << >>
    /\ failed' = TRUE
    /\ pc' = "stepped"
    /\ UNCHANGED state

(* The action of a state has failed: Step returns nil and the error.       *)
RuntimeError(from) ==
    /\ state' = machine.errorState
    /\ Notify([from |-> from, to |-> machine.errorState, success |-> FALSE])
    /\ err' = "action"
    /\ out' = << >>
    /\ failed' = TRUE
    /\ pc' = "stepped"

(* A condition or the action of a transition has failed: Step goes on, to  *)
(* the error state.                                                        *)
Divert(cause) ==
    /\ state' = machine.errorState
    /\ selected' = ToErrorState
    /\ success' = FALSE
    /\ err' = cause
    /\ failed' = TRUE
    /\ pc' = "enter"

-----------------------------------------------------------------------------
(* The action of the state the step starts from, if it is executed there.  *)

OnFromOk ==
    /\ pc = "onFrom"
    /\ Produces("from")
    /\ pc' = "transitions"
    /\ UNCHANGED <<arguments, loop, scan, chosen, history, state, err, events>>

(* domain.FinishExecutionError: Step returns the output and no error.      *)
OnFromFinishes ==
    /\ pc = "onFrom"
    /\ Produces("from")
    /\ finished' = TRUE
    /\ pc' = "stepped"
    /\ UNCHANGED <<arguments, loop, scan, chosen, state, err, events, start,
                   failed>>

OnFromFails ==
    /\ pc = "onFrom"
    /\ RuntimeError(fromState)
    /\ UNCHANGED <<arguments, loop, scan, chosen, ran, start, finished>>

-----------------------------------------------------------------------------
(* The transitions are tried in their order; the first whose condition     *)
(* holds is taken.  An empty condition holds and cannot fail.              *)

Matches ==
    /\ pc = "transitions"
    /\ t <= Len(Current.transitions)
    /\ LET tr == Current.transitions[t]
       IN  /\ selected' = [action |-> tr.action, target |-> tr.target]
           /\ pc' = IF tr.action THEN "transitionAction" ELSE "enter"
    /\ UNCHANGED <<arguments, loop, scan, seen, history, state, success, err,
                   out>>

(* Mutant: the scan runs the wrong way. *)
TryNextBackwards == t' = t - 1

(* Mutant: behind the last transition comes the first. *)
TryNextRound == t' = (t % Len(Current.transitions)) + 1

TryNext == t' = t + 1

DoesNotMatch ==
    /\ pc = "transitions"
    /\ t <= Len(Current.transitions)
    /\ Current.transitions[t].condition
    /\ TryNext
    /\ UNCHANGED <<arguments, loop, chosen, seen, history, state, pc,
                   fromState, err, out>>

ConditionFails ==
    /\ pc = "transitions"
    /\ t <= Len(Current.transitions)
    /\ Current.transitions[t].condition
    /\ Divert("condition")
    /\ UNCHANGED <<arguments, loop, scan, seen, start, finished, out>>

NoTransitionMatched ==
    /\ pc = "transitions"
    /\ t > Len(Current.transitions)
    /\ state' = machine.errorState
    /\ selected' = ToErrorState
    /\ success' = FALSE
    /\ pc' = "enter"
    /\ UNCHANGED <<arguments, loop, scan, seen, history, err, out>>

-----------------------------------------------------------------------------
(* The action of the selected transition.  What it returns is kept even    *)
(* when it fails.                                                          *)

TransitionActionOk ==
    /\ pc = "transitionAction"
    /\ Produces("transition")
    /\ pc' = "enter"
    /\ UNCHANGED <<arguments, loop, scan, chosen, history, state, err, events>>

TransitionActionFails ==
    /\ pc = "transitionAction"
    /\ Produces("transition")
    /\ Divert("action")
    /\ UNCHANGED <<arguments, loop, scan, events, start, finished>>

-----------------------------------------------------------------------------
(* The session moves, the observers are told, and the action of the state  *)
(* it is now in runs.  That action's result replaces err, whatever err was.*)

Enter ==
    /\ pc = "enter"
    /\ state' = selected.target
    /\ Notify([from |-> fromState, to |-> selected.target,
               success |-> success])
    /\ pc' = IF ~IsExit(selected.target)
                /\ StateOf(machine, selected.target).action
             THEN "stateAction" ELSE "stepped"
    /\ UNCHANGED <<arguments, loop, scan, chosen, history, ran, err, out>>

StateActionOk ==
    /\ pc = "stateAction"
    /\ Produces("state")
    /\ err' = "none"
    /\ pc' = "stepped"
    /\ UNCHANGED <<arguments, loop, scan, chosen, history, state, events>>

(* Mutant: the event names the state the step started from. *)
StateActionFailsAtStart ==
    /\ pc = "stateAction"
    /\ RuntimeError(fromState)
    /\ UNCHANGED <<arguments, loop, scan, chosen, ran, start, finished>>

StateActionFails ==
    /\ pc = "stateAction"
    /\ RuntimeError(selected.target)
    /\ UNCHANGED <<arguments, loop, scan, chosen, ran, start, finished>>

-----------------------------------------------------------------------------
(* Step has returned to Steps.                                             *)

(* Mutant: the flag is read from the state the step has left. *)
MustContinueFrom ==
    /\ err = "none"
    /\ ~IsExit(state)
    /\ Current.autoAdvance

MustContinue ==
    /\ err = "none"
    /\ ~IsExit(state)
    /\ StateOf(machine, state).autoAdvance

CountStep == i' = i + 1

StepReturns ==
    /\ pc = "stepped"
    /\ output' = output \o out
    /\ IF MustContinue THEN pc' = "loop" /\ CountStep
                       ELSE pc' = "returned" /\ i' = i
    /\ UNCHANGED <<arguments, scan, chosen, seen, history, state, err, out>>

-----------------------------------------------------------------------------
Step ==
    \/ LimitExceeded \/ RefuseExit \/ BeginStep
    \/ OnFromOk \/ OnFromFinishes \/ OnFromFails
    \/ Matches \/ DoesNotMatch \/ ConditionFails \/ NoTransitionMatched
    \/ TransitionActionOk \/ TransitionActionFails
    \/ Enter \/ StateActionOk \/ StateActionFails
    \/ StepReturns

Next == Step \/ Request

(* A request runs on a goroutine of its own and the plugins return, so a   *)
(* step that can be taken is taken.  Nobody owes the session a request.    *)
Spec == Init /\ [][Next]_vars /\ WF_vars(Step)

-----------------------------------------------------------------------------
(* Properties. *)

(* The events es join up, and lead from one state to another.              *)
IsPath(es, from, to) ==
    IF es = << >> THEN from = to
    ELSE /\ es[1].from = from
         /\ es[Len(es)].to = to
         /\ \A k \in 1..(Len(es) - 1) : es[k].to = es[k + 1].from

(* What observers are told is the path the session took: between steps,    *)
(* and when the request is answered, the events lead to the state the      *)
(* session is in (the notify calls of Step, engine.go 126 to 134, 237 and  *)
(* 246 to 254).                                                            *)
EventsTraceSession ==
    pc \in {"loop", "stepped", "returned"} => IsPath(events, start, state)

(* Nothing fails unseen: a request in which a plugin failed has told the   *)
(* observers of a move that did not succeed, and every such move was into  *)
(* the error state.                                                        *)
FailuresObserved ==
    /\ pc = "returned" /\ failed => \E k \in DOMAIN events : ~events[k].success
    /\ \A k \in DOMAIN events :
         ~events[k].success => events[k].to = machine.errorState

(* A request that reports the failure of a condition or an action leaves   *)
(* the session in the machine's error state, whichever of the four places  *)
(* the failure came from.                                                  *)
FailureLandsInErrorState ==
    pc = "returned" /\ err \in {"condition", "action"} =>
        state = machine.errorState

(* A request that reports success leaves the session where it waits: in an *)
(* exit state or in a state that does not advance by itself.  One that     *)
(* runs out of steps leaves it where it would have gone on.                *)
AnswersAtRest ==
    /\ pc = "returned" /\ err = "none" => Waits(machine, state)
    /\ pc = "returned" /\ err = "limit" => ~Waits(machine, state)

(* "Output produced across auto-advanced steps is appended in order": a    *)
(* request that succeeds or runs out of steps returns all that its actions *)
(* produced, in the order they ran; a failing one returns a prefix of it.  *)
OutputInOrder ==
    pc = "returned" =>
        /\ Len(output) <= Len(ran)
        /\ output = SubSeq(ran, 1, Len(output))
        /\ err \in {"none", "limit"} => output = ran

(* The bound on automatic advances bounds the moves of one request: one    *)
(* for each step, and one more when the action of the last entered state   *)
(* fails.                                                                  *)
MovesBounded == Len(events) <= Limit + 1

(* The answer to a request, and the state it leaves the session in, are an *)
(* outcome the contract allows from the state it found.                    *)
AnswerAllowed ==
    pc = "returned" =>
        [state |-> state, err |-> err # "none"] \in Steps(machine, start)

(* Every request is answered: no definition can hold a request in the      *)
(* loop of Steps for ever.                                                 *)
RequestsAnswered == Running ~> ~Running

(* The engine implements the walk.  A step of the walk is taken when the   *)
(* session moves: on entering a target, or on a failure before that.       *)
WalkCall ==
    IF pc = "returned" THEN IF err = "none" THEN "ok" ELSE "error"
    ELSE IF IsExit(start) THEN "refused"
    ELSE IF pc \in {"stateAction", "stepped"} \/ (pc = "enter" /\ ~success)
         THEN "stepped" ELSE "running"

Walk == INSTANCE MachineWalk WITH call <- WalkCall

Walks == Walk!Spec

-----------------------------------------------------------------------------
(* Statements of the repository's texts that the engine does not keep.     *)

(* README.md 170 to 173: the engine goes on automatically until "an error  *)
(* occurs".  No step begins once a plugin of the request has failed.       *)
AutoAdvanceStopsOnError == [][BeginStep => ~failed]_vars

(* engine.go 122: when an action returns a FinishExecutionError "we stop   *)
(* processing and return the output so far".  No further step begins.      *)
FinishStopsProcessing == [][BeginStep => ~finished]_vars

=============================================================================
