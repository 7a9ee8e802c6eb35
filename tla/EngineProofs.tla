---------------------------- MODULE EngineProofs ----------------------------
(***************************************************************************)
(* Theorems about the engine, for every set of validated definitions and   *)
(* every bound on automatic advances.                                      *)
(***************************************************************************)
EXTENDS Engine, SequenceTheorems, TLAPS

(* What a map lookup of an absent state yields is a state definition.      *)
LEMMA ZeroStateType == ZeroState \in StateDefinition
  BY DEF ZeroState, StateDefinition

(* So StateOf is a state definition whatever name it is given.             *)
LEMMA StateOfType ==
  ASSUME NEW m \in Machines, NEW name
  PROVE  StateOf(m, name) \in StateDefinition
  BY ZeroStateType, MachinesAssumption DEF StateOf, IsStateMachine

(* A definition names its states with state names.                         *)
LEMMA ErrorStateType ==
  ASSUME NEW m \in Machines
  PROVE  /\ m.initial \in StateNames
         /\ m.errorState \in StateNames
  BY MachinesAssumption DEF IsStateMachine

(* The selection before any is made has the type of selections.            *)
LEMMA NoSelectionType == NoSelection \in Selection
  BY NamesAssumption DEF NoSelection, Selection

(* The empty sequence has the type of outputs and of events.               *)
LEMMA EmptyType == << >> \in Seq(Token) /\ << >> \in Seq(Event)
  OBVIOUS

(* The type invariant.                                                     *)
LEMMA TypeInit == Init => TypeOK
<1> SUFFICES ASSUME Init PROVE TypeOK
  OBVIOUS
<1>1. success \in BOOLEAN /\ failed \in BOOLEAN /\ finished \in BOOLEAN
  BY Zenon DEF Init
<1>2. /\ machine \in Machines /\ maxSteps \in MaxStepsArgs
      /\ selected \in Selection
  BY NoSelectionType DEF Init
<1>3. state \in StateNames /\ fromState \in StateNames /\ start \in StateNames
  BY ErrorStateType DEF Init
<1>4. /\ out \in Seq(Token) /\ output \in Seq(Token) /\ ran \in Seq(Token)
      /\ events \in Seq(Event)
  BY EmptyType DEF Init
<1>5. pc \in Places /\ err \in Errors /\ i \in Nat /\ t \in Nat \ {0}
  BY DEF Init, Places, Errors
<1> QED
  BY <1>1, <1>2, <1>3, <1>4, <1>5 DEF TypeOK

(* Every action keeps every variable in its type.                          *)
LEMMA TypeStep == TypeOK /\ [Next]_vars => TypeOK'
<1> SUFFICES ASSUME TypeOK, [Next]_vars
             PROVE  TypeOK'
  OBVIOUS
<1> USE DEF TypeOK, Places, Errors
<1>e. machine.errorState \in StateNames /\ ToErrorState \in Selection
  BY ErrorStateType DEF ToErrorState, Selection
<1>o. \A place \in {"from", "transition", "state"} :
        Append(ran, <<i, place>>) \in Seq(Token)
        /\ Append(out, <<i, place>>) \in Seq(Token)
  BY DEF Token
<1>n. \A f, g \in StateNames, b \in BOOLEAN :
        Append(events, [from |-> f, to |-> g, success |-> b]) \in Seq(Event)
  BY DEF Event
<1>f. \A f \in StateNames :
        Append(events, [from |-> f, to |-> machine.errorState,
                        success |-> FALSE]) \in Seq(Event)
  BY <1>e, <1>n
<1>c. ASSUME t <= Len(Current.transitions)
      PROVE  /\ Current.transitions[t].action \in BOOLEAN
             /\ Current.transitions[t].target \in StateNames
  <2>1. Current \in StateDefinition
    BY StateOfType DEF Current
  <2>2. Current.transitions \in Seq(TransitionDefinition)
    BY <2>1 DEF StateDefinition
  <2>3. t \in 1..Len(Current.transitions)
    BY <1>c, <2>2
  <2>4. Current.transitions[t] \in TransitionDefinition
    BY <2>2, <2>3
  <2> QED
    BY <2>4 DEF TransitionDefinition
<1>1. CASE Request
  <2>1. out' \in Seq(Token) /\ output' \in Seq(Token)
          /\ ran' \in Seq(Token)
    BY <1>1, EmptyType DEF Request
  <2>2. events' \in Seq(Event)
    BY <1>1, EmptyType DEF Request
  <2>3. selected' \in Selection
    BY <1>1, NoSelectionType DEF Request
  <2>4. /\ machine' \in Machines
        /\ maxSteps' \in MaxStepsArgs
    BY <1>1 DEF Request
  <2>5. /\ state' \in StateNames
        /\ fromState' \in StateNames
        /\ start' \in StateNames
    BY <1>1 DEF Request
  <2>6. pc' \in Places /\ err' \in Errors /\ i' \in Nat /\ t' \in Nat \ {0}
    BY <1>1 DEF Request
  <2>7. success' \in BOOLEAN /\ failed' \in BOOLEAN /\ finished' \in BOOLEAN
    BY <1>1, Zenon DEF Request
  <2> QED
    BY <2>1, <2>2, <2>3, <2>4, <2>5, <2>6, <2>7
<1>2. CASE LimitExceeded
  BY <1>2 DEF LimitExceeded, arguments, loop, scan, chosen, seen, history
<1>3. CASE RefuseExit
  BY <1>3 DEF RefuseExit, arguments, loop, scan, chosen, seen, history
<1>4. CASE BeginStep
  BY <1>4, NoSelectionType, EmptyType
  DEF BeginStep, arguments, loop, seen, history
<1>5. CASE OnFromOk
  BY <1>5, <1>o DEF OnFromOk, Produces, arguments, loop, scan, chosen, history
<1>6. CASE OnFromFinishes
  BY <1>6, <1>o DEF OnFromFinishes, Produces, arguments, loop, scan, chosen
<1>7. CASE OnFromFails
  BY <1>7, <1>e, <1>f, EmptyType
  DEF OnFromFails, RuntimeError, Notify, arguments, loop, scan, chosen
<1>8. CASE Matches
  BY <1>8, <1>c
  DEF Matches, Selection, arguments, loop, scan, seen, history
<1>9. CASE DoesNotMatch
  BY <1>9 DEF DoesNotMatch, TryNext, arguments, loop, chosen, seen, history
<1>10. CASE ConditionFails
  BY <1>10, <1>e DEF ConditionFails, Divert, arguments, loop, scan, seen
<1>11. CASE NoTransitionMatched
  BY <1>11, <1>e
  DEF NoTransitionMatched, arguments, loop, scan, seen, history
<1>12. CASE TransitionActionOk
  BY <1>12, <1>o
  DEF TransitionActionOk, Produces, arguments, loop, scan, chosen, history
<1>13. CASE TransitionActionFails
  BY <1>13, <1>o, <1>e
  DEF TransitionActionFails, Produces, Divert, arguments, loop, scan
<1>14. CASE Enter
  BY <1>14, <1>n
  DEF Enter, Notify, Selection, arguments, loop, scan, chosen, history
<1>15. CASE StateActionOk
  BY <1>15, <1>o
  DEF StateActionOk, Produces, arguments, loop, scan, chosen, history
<1>16. CASE StateActionFails
  BY <1>16, <1>e, <1>f, EmptyType
  DEF StateActionFails, RuntimeError, Notify, Selection, arguments, loop,
      scan, chosen
<1>17. CASE StepReturns
  BY <1>17
  DEF StepReturns, CountStep, arguments, scan, chosen, seen, history
<1>18. CASE UNCHANGED vars
  BY <1>18 DEF vars
<1> QED
  BY <1>1, <1>2, <1>3, <1>4, <1>5, <1>6, <1>7, <1>8, <1>9, <1>10, <1>11,
     <1>12, <1>13, <1>14, <1>15, <1>16, <1>17, <1>18
  DEF Next, Step

(* Every variable of the engine stays within its type, whatever the        *)
(* definitions are.                                                        *)
THEOREM TypeCorrect == Spec => []TypeOK
  BY TypeInit, TypeStep, PTL DEF Spec

-----------------------------------------------------------------------------
(* The inductive invariant: at each place, how the session, the locals of  *)
(* the step and the error stand to one another.                            *)

(* The places of a step before a transition has been carried out.          *)
Before == {"onFrom", "transitions", "transitionAction"}

StateInv ==
    /\ pc \in Before => /\ state = fromState
                        /\ ~IsExit(state)
                        /\ success
                        /\ err = "none"
    /\ pc = "onFrom" => Current.executeOnFrom /\ Current.action
    /\ pc = "transitionAction" => selected.target \in Targets(machine, state)
    /\ pc = "enter" /\ success =>
          /\ state = fromState
          /\ ~IsExit(state)
          /\ err = "none"
          /\ selected.target \in Targets(machine, state)
    /\ pc = "enter" /\ ~success =>
          /\ state = machine.errorState
          /\ selected.target = machine.errorState
    /\ pc = "stateAction" => state = selected.target /\ ~IsExit(state)

Goes == ~Waits(machine, state)

ErrInv ==
    /\ pc = "loop" => err = "none" /\ (i > 0 => Goes)
    /\ err \in {"condition", "action"} => state = machine.errorState
    /\ err = "limit" => pc = "returned" /\ Goes
    /\ err = "exit" => pc \in {"stepped", "returned"}
    /\ pc = "returned" /\ err = "none" => ~Goes

(* How far the request has come along the contract.                        *)
ReachInv ==
    /\ pc = "loop" => state \in Begins(machine, start)
    /\ pc \in Before \cup {"enter", "stateAction"} =>
          fromState \in Begins(machine, start)
    /\ \/ pc = "stateAction"
       \/ pc = "enter" /\ ~success
       \/ pc \in {"stepped", "returned"} /\ err # "exit"
       \/ pc = "loop" /\ i > 0
       => state \in Ends(machine, start)

(* An exit state is refused at once, and nothing else is.                  *)
StartInv ==
    /\ pc = "loop" /\ i = 0 => state = start
    /\ IsExit(start) => /\ state = start
                        /\ pc \in {"loop", "stepped", "returned"}
                        /\ pc # "loop" => err = "exit"
    /\ err = "exit" => IsExit(start)

EventInv ==
    IsPath(events, start, IF pc = "enter" THEN fromState ELSE state)

BoundInv ==
    /\ pc \notin {"loop", "returned"} => i < Limit
    /\ pc = "loop" => i <= Limit
    /\ pc \in Before \cup {"loop", "enter"} => Len(events) <= i
    /\ pc = "stateAction" => Len(events) <= i + 1
    /\ pc = "stepped" => /\ Len(events) <= i + 2
                         /\ err = "none" => Len(events) <= i + 1
    /\ pc = "returned" => Len(events) <= Limit + 1

-----------------------------------------------------------------------------
(* The bound is a positive number, and the loop that has reached it has    *)
(* run.                                                                    *)
LEMMA LimitPositive ==
  ASSUME TypeOK
  PROVE  Limit \in Nat /\ Limit > 0 /\ (~InBounds => i > 0)
  BY BoundsAssumption DEF TypeOK, Limit, InBounds

(* What is known of the state between the calls of a step is kept.         *)
LEMMA StateStep == TypeOK /\ StateInv /\ [Next]_vars => StateInv'
<1> SUFFICES ASSUME TypeOK, StateInv, [Next]_vars
             PROVE  StateInv'
  OBVIOUS
<1> USE DEF StateInv, Before, arguments, loop, scan, chosen, seen, history
<1>1. CASE Request
  BY <1>1 DEF Request
<1>2. CASE LimitExceeded
  BY <1>2 DEF LimitExceeded, InBounds
<1>3. CASE RefuseExit
  BY <1>3 DEF RefuseExit, InBounds, Refused
<1>4. CASE BeginStep
  BY <1>4 DEF BeginStep, InBounds, Refused, Current
<1>5. CASE OnFromOk
  BY <1>5 DEF OnFromOk, Produces
<1>6. CASE OnFromFinishes
  BY <1>6 DEF OnFromFinishes, Produces
<1>7. CASE OnFromFails
  BY <1>7 DEF OnFromFails, RuntimeError, Notify
<1>8. CASE Matches
  <2>1. t \in 1..Len(StateOf(machine, fromState).transitions)
    BY <1>8, StateOfType DEF Matches, Current, TypeOK, StateDefinition
  <2>2. t \in DOMAIN StateOf(machine, fromState).transitions
    BY <2>1, StateOfType DEF TypeOK, StateDefinition
  <2>3. /\ state = fromState /\ ~IsExit(state) /\ success /\ err = "none"
        /\ selected'.target = StateOf(machine, state).transitions[t].target
    BY <1>8 DEF Matches, Current
  <2>4. selected'.target \in Targets(machine, state)
    BY <2>2, <2>3 DEF Targets
  <2> QED
    BY <1>8, <2>3, <2>4 DEF Matches
<1>9. CASE DoesNotMatch
  BY <1>9 DEF DoesNotMatch, TryNext
<1>10. CASE ConditionFails
  BY <1>10 DEF ConditionFails, Divert, ToErrorState
<1>11. CASE NoTransitionMatched
  BY <1>11 DEF NoTransitionMatched, ToErrorState
<1>12. CASE TransitionActionOk
  BY <1>12 DEF TransitionActionOk, Produces
<1>13. CASE TransitionActionFails
  BY <1>13 DEF TransitionActionFails, Produces, Divert, ToErrorState
<1>14. CASE Enter
  BY <1>14 DEF Enter, Notify
<1>15. CASE StateActionOk
  BY <1>15 DEF StateActionOk, Produces
<1>16. CASE StateActionFails
  BY <1>16 DEF StateActionFails, RuntimeError, Notify
<1>17. CASE StepReturns
  BY <1>17 DEF StepReturns, MustContinue, CountStep
<1>18. CASE UNCHANGED vars
  BY <1>18 DEF vars, Current
<1> QED
  BY <1>1, <1>2, <1>3, <1>4, <1>5, <1>6, <1>7, <1>8, <1>9, <1>10,
     <1>11, <1>12, <1>13, <1>14, <1>15, <1>16, <1>17, <1>18
  DEF Next, Step

(* What err says of the state and of the step is kept.                     *)
LEMMA ErrStep == TypeOK /\ StateInv /\ ErrInv /\ [Next]_vars => ErrInv'
<1> SUFFICES ASSUME TypeOK, StateInv, ErrInv, [Next]_vars
             PROVE  ErrInv'
  OBVIOUS
<1> USE DEF ErrInv, Goes, Waits, StateInv, Before, arguments, loop, scan,
      chosen, seen, history
<1>1. CASE Request
  BY <1>1 DEF Request
<1>2. CASE LimitExceeded
  BY <1>2, LimitPositive DEF LimitExceeded, InBounds
<1>3. CASE RefuseExit
  BY <1>3 DEF RefuseExit, InBounds, Refused
<1>4. CASE BeginStep
  BY <1>4 DEF BeginStep, InBounds, Refused
<1>5. CASE OnFromOk
  BY <1>5 DEF OnFromOk, Produces
<1>6. CASE OnFromFinishes
  BY <1>6 DEF OnFromFinishes, Produces
<1>7. CASE OnFromFails
  BY <1>7 DEF OnFromFails, RuntimeError, Notify
<1>8. CASE Matches
  BY <1>8 DEF Matches
<1>9. CASE DoesNotMatch
  BY <1>9 DEF DoesNotMatch, TryNext
<1>10. CASE ConditionFails
  BY <1>10 DEF ConditionFails, Divert, ToErrorState
<1>11. CASE NoTransitionMatched
  BY <1>11 DEF NoTransitionMatched, ToErrorState
<1>12. CASE TransitionActionOk
  BY <1>12 DEF TransitionActionOk, Produces
<1>13. CASE TransitionActionFails
  BY <1>13 DEF TransitionActionFails, Produces, Divert, ToErrorState
<1>14. CASE Enter
  BY <1>14 DEF Enter, Notify
<1>15. CASE StateActionOk
  BY <1>15 DEF StateActionOk, Produces
<1>16. CASE StateActionFails
  BY <1>16 DEF StateActionFails, RuntimeError, Notify
<1>17. CASE StepReturns
  BY <1>17 DEF StepReturns, MustContinue, CountStep
<1>18. CASE UNCHANGED vars
  BY <1>18 DEF vars
<1> QED
  BY <1>1, <1>2, <1>3, <1>4, <1>5, <1>6, <1>7, <1>8, <1>9, <1>10,
     <1>11, <1>12, <1>13, <1>14, <1>15, <1>16, <1>17, <1>18
  DEF Next, Step

(* A request that has not begun a step is where it started.                *)
LEMMA StartStep == TypeOK /\ ErrInv /\ StartInv /\ [Next]_vars => StartInv'
<1> SUFFICES ASSUME TypeOK, ErrInv, StartInv, [Next]_vars
             PROVE  StartInv'
  OBVIOUS
<1> USE DEF StartInv, ErrInv, Goes, Waits, arguments, loop, scan, chosen,
      seen, history
<1>i. i \in Nat
  BY DEF TypeOK
<1>1. CASE Request
  BY <1>1 DEF Request
<1>2. CASE LimitExceeded
  BY <1>2, LimitPositive DEF LimitExceeded, InBounds
<1>3. CASE RefuseExit
  BY <1>3, <1>i DEF RefuseExit, InBounds, Refused
<1>4. CASE BeginStep
  BY <1>4 DEF BeginStep, InBounds, Refused
<1>5. CASE OnFromOk
  BY <1>5 DEF OnFromOk, Produces
<1>6. CASE OnFromFinishes
  BY <1>6 DEF OnFromFinishes, Produces
<1>7. CASE OnFromFails
  BY <1>7 DEF OnFromFails, RuntimeError, Notify
<1>8. CASE Matches
  BY <1>8 DEF Matches
<1>9. CASE DoesNotMatch
  BY <1>9 DEF DoesNotMatch, TryNext
<1>10. CASE ConditionFails
  BY <1>10 DEF ConditionFails, Divert, ToErrorState
<1>11. CASE NoTransitionMatched
  BY <1>11 DEF NoTransitionMatched, ToErrorState
<1>12. CASE TransitionActionOk
  BY <1>12 DEF TransitionActionOk, Produces
<1>13. CASE TransitionActionFails
  BY <1>13 DEF TransitionActionFails, Produces, Divert, ToErrorState
<1>14. CASE Enter
  BY <1>14 DEF Enter, Notify
<1>15. CASE StateActionOk
  BY <1>15 DEF StateActionOk, Produces
<1>16. CASE StateActionFails
  BY <1>16 DEF StateActionFails, RuntimeError, Notify
<1>17. CASE StepReturns
  BY <1>17, <1>i DEF StepReturns, MustContinue, CountStep
<1>18. CASE UNCHANGED vars
  BY <1>18 DEF vars
<1> QED
  BY <1>1, <1>2, <1>3, <1>4, <1>5, <1>6, <1>7, <1>8, <1>9, <1>10,
     <1>11, <1>12, <1>13, <1>14, <1>15, <1>16, <1>17, <1>18
  DEF Next, Step

(* One event more makes the sequence of events longer by one.              *)
LEMMA LenAppend ==
  ASSUME TypeOK, NEW f \in StateNames, NEW g \in StateNames, NEW b \in BOOLEAN
  PROVE  LET e == [from |-> f, to |-> g, success |-> b]
         IN  /\ Len(Append(events, e)) = Len(events) + 1
             /\ Append(events, e) # << >>
             /\ Append(events, e)[Len(events) + 1] = e
             /\ \A k \in 1..Len(events) : Append(events, e)[k] = events[k]
<1> DEFINE e == [from |-> f, to |-> g, success |-> b]
<1>1. e \in Event
  BY DEF Event
<1>2. events \in Seq(Event)
  BY DEF TypeOK
<1> QED
  BY <1>1, <1>2, AppendProperties

(* The events counted against the passes of the loop.                      *)
LEMMA BoundStep ==
  TypeOK /\ StateInv /\ ErrInv /\ BoundInv /\ [Next]_vars => BoundInv'
<1> SUFFICES ASSUME TypeOK, StateInv, ErrInv, BoundInv, [Next]_vars
             PROVE  BoundInv'
  OBVIOUS
<1> USE DEF BoundInv, Before, arguments, loop, scan, chosen, seen, history
<1>a. /\ i \in Nat /\ Limit \in Nat /\ Limit > 0 /\ Len(events) \in Nat
      /\ pc \in Places /\ err \in Errors
  BY LimitPositive DEF TypeOK
<1>b. UNCHANGED arguments => Limit' = Limit
  BY DEF arguments, Limit
<1>c. TypeOK'
  BY TypeStep
<1>d. Limit' \in Nat /\ Limit' > 0
  BY <1>c, BoundsAssumption DEF TypeOK, Limit
<1>n. \A f, g \in StateNames, b \in BOOLEAN :
        Len(Append(events, [from |-> f, to |-> g, success |-> b]))
          = Len(events) + 1
  BY LenAppend
<1>f. machine.errorState \in StateNames /\ fromState \in StateNames
        /\ selected.target \in StateNames /\ success \in BOOLEAN
  BY ErrorStateType DEF TypeOK, Selection
<1>1. CASE Request
  BY <1>1, <1>a, <1>b, <1>d DEF Request
<1>2. CASE LimitExceeded
  BY <1>2, <1>a, <1>b DEF LimitExceeded, InBounds
<1>3. CASE RefuseExit
  BY <1>3, <1>a, <1>b DEF RefuseExit, InBounds, Refused
<1>4. CASE BeginStep
  BY <1>4, <1>a, <1>b DEF BeginStep, InBounds, Refused
<1>5. CASE OnFromOk
  BY <1>5, <1>a, <1>b DEF OnFromOk, Produces
<1>6. CASE OnFromFinishes
  BY <1>6, <1>a, <1>b DEF OnFromFinishes, Produces
<1>7. CASE OnFromFails
  BY <1>7, <1>a, <1>b, <1>n, <1>f DEF OnFromFails, RuntimeError, Notify
<1>8. CASE Matches
  BY <1>8, <1>a, <1>b DEF Matches
<1>9. CASE DoesNotMatch
  BY <1>9, <1>a, <1>b DEF DoesNotMatch, TryNext
<1>10. CASE ConditionFails
  BY <1>10, <1>a, <1>b DEF ConditionFails, Divert, ToErrorState
<1>11. CASE NoTransitionMatched
  BY <1>11, <1>a, <1>b DEF NoTransitionMatched, ToErrorState
<1>12. CASE TransitionActionOk
  BY <1>12, <1>a, <1>b DEF TransitionActionOk, Produces
<1>13. CASE TransitionActionFails
  BY <1>13, <1>a, <1>b
  DEF TransitionActionFails, Produces, Divert, ToErrorState
<1>14. CASE Enter
  BY <1>14, <1>a, <1>b, <1>n, <1>f DEF Enter, Notify
<1>15. CASE StateActionOk
  BY <1>15, <1>a, <1>b DEF StateActionOk, Produces
<1>16. CASE StateActionFails
  BY <1>16, <1>a, <1>b, <1>n, <1>f DEF StateActionFails, RuntimeError, Notify
<1>17. CASE StepReturns
  BY <1>17, <1>a, <1>b DEF StepReturns, MustContinue, CountStep, ErrInv
<1>18. CASE UNCHANGED vars
  BY <1>18, <1>a, <1>b DEF vars
<1> QED
  BY <1>1, <1>2, <1>3, <1>4, <1>5, <1>6, <1>7, <1>8, <1>9, <1>10,
     <1>11, <1>12, <1>13, <1>14, <1>15, <1>16, <1>17, <1>18
  DEF Next, Step

(* A path goes on with an event that starts where it ends. *)
LEMMA PathExtends ==
  ASSUME NEW es \in Seq(Event), NEW a, NEW e \in Event,
         IsPath(es, a, e.from)
  PROVE  IsPath(Append(es, e), a, e.to)
<1> DEFINE fs == Append(es, e)
<1>1. /\ Len(es) \in Nat
      /\ fs # << >>
      /\ Len(fs) = Len(es) + 1
      /\ fs[Len(es) + 1] = e
      /\ \A k \in 1..Len(es) : fs[k] = es[k]
  BY AppendProperties
<1>2. CASE es = << >>
  BY <1>1, <1>2 DEF IsPath
<1>3. CASE es # << >>
  <2>1. Len(es) >= 1
    BY <1>3, <1>1, EmptySeq
  <2>2. fs[1].from = a
    BY <2>1, <1>1, <1>3 DEF IsPath
  <2>3. ASSUME NEW k \in 1..(Len(fs) - 1)
        PROVE  fs[k].to = fs[k + 1].from
    <3>1. CASE k < Len(es)
      <4>1. fs[k] = es[k] /\ fs[k + 1] = es[k + 1]
        BY <3>1, <1>1
      <4>2. es[k].to = es[k + 1].from
        BY <3>1, <1>1, <1>3 DEF IsPath
      <4> QED
        BY <4>1, <4>2
    <3>2. CASE k = Len(es)
      <4>1. fs[k] = es[Len(es)] /\ fs[k + 1] = e
        BY <3>2, <2>1, <1>1
      <4> QED
        BY <4>1, <1>3 DEF IsPath
    <3> QED
      BY <3>1, <3>2, <1>1
  <2> QED
    BY <2>2, <2>3, <1>1 DEF IsPath
<1> QED
  BY <1>2, <1>3

(* Each action that moves the session shows the move, and no other does.   *)
LEMMA EventStep == TypeOK /\ StateInv /\ EventInv /\ [Next]_vars => EventInv'
<1> SUFFICES ASSUME TypeOK, StateInv, EventInv, [Next]_vars
             PROVE  EventInv'
  OBVIOUS
<1> USE DEF EventInv, StateInv, Before, arguments, loop, scan, chosen, seen,
      history
<1>t. /\ events \in Seq(Event)
      /\ machine.errorState \in StateNames /\ fromState \in StateNames
      /\ selected.target \in StateNames /\ success \in BOOLEAN
      /\ pc \in Places
  BY ErrorStateType DEF TypeOK, Selection
<1>p. \A f, g \in StateNames, b \in BOOLEAN :
        IsPath(events, start, f) =>
          IsPath(Append(events, [from |-> f, to |-> g, success |-> b]),
                 start, g)
  <2> SUFFICES ASSUME NEW f \in StateNames, NEW g \in StateNames,
                      NEW b \in BOOLEAN, IsPath(events, start, f)
               PROVE  IsPath(Append(events, [from |-> f, to |-> g,
                                             success |-> b]), start, g)
    OBVIOUS
  <2> DEFINE e == [from |-> f, to |-> g, success |-> b]
  <2>1. e \in Event /\ e.from = f /\ e.to = g
    BY DEF Event
  <2> HIDE DEF e
  <2>2. IsPath(Append(events, e), start, e.to)
    BY <2>1, <1>t, PathExtends
  <2> QED
    BY <2>1, <2>2 DEF e
<1>1. CASE Request
  BY <1>1 DEF Request, IsPath
<1>2. CASE LimitExceeded
  BY <1>2 DEF LimitExceeded, InBounds
<1>3. CASE RefuseExit
  BY <1>3 DEF RefuseExit, InBounds, Refused
<1>4. CASE BeginStep
  BY <1>4 DEF BeginStep, InBounds, Refused
<1>5. CASE OnFromOk
  BY <1>5 DEF OnFromOk, Produces
<1>6. CASE OnFromFinishes
  BY <1>6 DEF OnFromFinishes, Produces
<1>7. CASE OnFromFails
  BY <1>7, <1>t, <1>p DEF OnFromFails, RuntimeError, Notify
<1>8. CASE Matches
  BY <1>8 DEF Matches
<1>9. CASE DoesNotMatch
  BY <1>9 DEF DoesNotMatch, TryNext
<1>10. CASE ConditionFails
  BY <1>10 DEF ConditionFails, Divert, ToErrorState
<1>11. CASE NoTransitionMatched
  BY <1>11 DEF NoTransitionMatched, ToErrorState
<1>12. CASE TransitionActionOk
  BY <1>12 DEF TransitionActionOk, Produces
<1>13. CASE TransitionActionFails
  BY <1>13 DEF TransitionActionFails, Produces, Divert, ToErrorState
<1>14. CASE Enter
  BY <1>14, <1>t, <1>p DEF Enter, Notify
<1>15. CASE StateActionOk
  BY <1>15 DEF StateActionOk, Produces
<1>16. CASE StateActionFails
  BY <1>16, <1>t, <1>p DEF StateActionFails, RuntimeError, Notify
<1>17. CASE StepReturns
  BY <1>17 DEF StepReturns, MustContinue, CountStep
<1>18. CASE UNCHANGED vars
  BY <1>18 DEF vars
<1> QED
  BY <1>1, <1>2, <1>3, <1>4, <1>5, <1>6, <1>7, <1>8, <1>9, <1>10,
     <1>11, <1>12, <1>13, <1>14, <1>15, <1>16, <1>17, <1>18
  DEF Next, Step

(* A call can begin a step in the state it finds.                          *)
LEMMA BeginsFirst ==
  ASSUME NEW m, NEW name \in StateNames
  PROVE  name \in Begins(m, name)
  BY DEF Begins

(* From a state a step begins in, one that advances by itself is another.  *)
LEMMA BeginsNext ==
  ASSUME NEW m, NEW name, NEW y \in Ends(m, name), y \in StateNames,
         ~Waits(m, y)
  PROVE  y \in Begins(m, name)
<1>1. PICK x \in Begins(m, name) : y \in StepsFrom(m, x)
  BY DEF Ends
<1> QED
  BY <1>1 DEF Begins

(* Where a step from a state that is begun in leads is where a call can    *)
(* end.                                                                    *)
LEMMA EndsOfStep ==
  ASSUME NEW m, NEW name, NEW x \in Begins(m, name)
  PROVE  /\ m.errorState \in Ends(m, name)
         /\ Targets(m, x) \subseteq Ends(m, name)
         /\ StateOf(m, x).executeOnFrom /\ StateOf(m, x).action
              => x \in Ends(m, name)
<1>1. StepsFrom(m, x) \subseteq Ends(m, name)
  BY DEF Ends
<1> QED
  BY <1>1 DEF StepsFrom

(* The session stays among the states its call can begin or end a step in. *)
LEMMA ReachStep ==
  TypeOK /\ StateInv /\ ErrInv /\ ReachInv /\ [Next]_vars => ReachInv'
<1> SUFFICES ASSUME TypeOK, StateInv, ErrInv, ReachInv, [Next]_vars
             PROVE  ReachInv'
  OBVIOUS
<1> USE DEF ReachInv, Before, arguments, loop, scan, chosen, seen, history
<1>i. i \in Nat /\ state \in StateNames
  BY DEF TypeOK
<1>1. CASE Request
  BY <1>1, <1>i, BeginsFirst DEF Request
<1>2. CASE LimitExceeded
  BY <1>2, LimitPositive DEF LimitExceeded, InBounds
<1>3. CASE RefuseExit
  BY <1>3 DEF RefuseExit, InBounds, Refused
<1>4. CASE BeginStep
  BY <1>4 DEF BeginStep, InBounds, Refused
<1>5. CASE OnFromOk
  BY <1>5 DEF OnFromOk, Produces
<1>6. CASE OnFromFinishes
  BY <1>6, EndsOfStep DEF OnFromFinishes, Produces, StateInv, Current
<1>7. CASE OnFromFails
  BY <1>7, EndsOfStep DEF OnFromFails, RuntimeError, Notify
<1>8. CASE Matches
  BY <1>8 DEF Matches, StateInv
<1>9. CASE DoesNotMatch
  BY <1>9 DEF DoesNotMatch, TryNext
<1>10. CASE ConditionFails
  BY <1>10, EndsOfStep DEF ConditionFails, Divert, ToErrorState
<1>11. CASE NoTransitionMatched
  BY <1>11, EndsOfStep DEF NoTransitionMatched, ToErrorState
<1>12. CASE TransitionActionOk
  BY <1>12 DEF TransitionActionOk, Produces, StateInv
<1>13. CASE TransitionActionFails
  BY <1>13, EndsOfStep
  DEF TransitionActionFails, Produces, Divert, ToErrorState
<1>14. CASE Enter
  BY <1>14, EndsOfStep DEF Enter, Notify, StateInv
<1>15. CASE StateActionOk
  BY <1>15 DEF StateActionOk, Produces, ErrInv
<1>16. CASE StateActionFails
  BY <1>16, EndsOfStep DEF StateActionFails, RuntimeError, Notify
<1>17. CASE StepReturns
  BY <1>17, <1>i, BeginsNext DEF StepReturns, MustContinue, CountStep, Waits
<1>18. CASE UNCHANGED vars
  BY <1>18 DEF vars
<1> QED
  BY <1>1, <1>2, <1>3, <1>4, <1>5, <1>6, <1>7, <1>8, <1>9, <1>10,
     <1>11, <1>12, <1>13, <1>14, <1>15, <1>16, <1>17, <1>18
  DEF Next, Step

-----------------------------------------------------------------------------
(* The invariant as a whole, and what follows from it.                     *)
IInv == TypeOK /\ StateInv /\ ErrInv /\ StartInv /\ ReachInv
          /\ EventInv /\ BoundInv

(* The invariant holds at first, is kept by every step, and so always      *)
(* holds.                                                                  *)
LEMMA IInvInit == Init => IInv
<1> SUFFICES ASSUME Init PROVE IInv
  OBVIOUS
<1>1. TypeOK
  BY TypeInit
<1>2. /\ pc = "loop" /\ i = 0 /\ err = "none" /\ events = << >>
      /\ start = state /\ success
  BY Zenon DEF Init
<1>3. StateInv /\ ErrInv /\ StartInv
  BY <1>2 DEF StateInv, ErrInv, StartInv, Before
<1>r. ReachInv
  BY <1>1, <1>2, BeginsFirst DEF ReachInv, Before, TypeOK
<1>4. EventInv
  BY <1>2 DEF EventInv, IsPath
<1>5. BoundInv
  BY <1>1, <1>2, LimitPositive DEF BoundInv, Before
<1> QED
  BY <1>1, <1>3, <1>r, <1>4, <1>5 DEF IInv

LEMMA IInvStep == IInv /\ [Next]_vars => IInv'
  BY TypeStep, StateStep, ErrStep, StartStep, ReachStep, EventStep,
     BoundStep
  DEF IInv

LEMMA IInvHolds == Spec => []IInv
  BY IInvInit, IInvStep, PTL DEF Spec

(* The events observers were shown during a request lead, without a gap,   *)
(* from where the request found the session to where it left it.           *)
THEOREM EventsTrace == Spec => []EventsTraceSession
<1>1. IInv => EventsTraceSession
  BY DEF IInv, EventInv, EventsTraceSession
<1> QED
  BY <1>1, IInvHolds, PTL

(* A request that reports a failed plugin leaves the session in the error  *)
(* state.                                                                  *)
THEOREM FailureLands == Spec => []FailureLandsInErrorState
<1>1. IInv => FailureLandsInErrorState
  BY DEF IInv, ErrInv, FailureLandsInErrorState
<1> QED
  BY <1>1, IInvHolds, PTL

(* A request that reports success leaves the session where it waits, one   *)
(* that runs out of steps leaves it where it would go on.                  *)
THEOREM AnswersRest == Spec => []AnswersAtRest
<1>1. IInv => AnswersAtRest
  BY DEF IInv, ErrInv, Goes, AnswersAtRest
<1> QED
  BY <1>1, IInvHolds, PTL

(* No request moves the session more often than its bound and once more.   *)
THEOREM MovesAreBounded == Spec => []MovesBounded
<1>1. IInv => MovesBounded
  <2> SUFFICES ASSUME IInv PROVE MovesBounded
    OBVIOUS
  <2>1. /\ i \in Nat /\ Limit \in Nat /\ Len(events) \in Nat /\ pc \in Places
    BY LimitPositive DEF IInv, TypeOK
  <2> QED
    BY <2>1 DEF IInv, BoundInv, Before, Places, MovesBounded
<1> QED
  BY <1>1, IInvHolds, PTL

(* Every answer, with the state it leaves the session in, is one that the  *)
(* contract allows from the state the request found.                       *)
THEOREM AnswersAllowed == Spec => []AnswerAllowed
<1>1. IInv => AnswerAllowed
  <2> SUFFICES ASSUME IInv, pc = "returned"
               PROVE  [state |-> state, err |-> err # "none"]
                        \in Steps(machine, start)
    BY DEF AnswerAllowed
  <2>1. CASE IsExit(start)
    BY <2>1 DEF IInv, StartInv, Steps
  <2>2. CASE ~IsExit(start)
    <3>1. err # "exit" /\ state \in Ends(machine, start)
      BY <2>2 DEF IInv, StartInv, ReachInv
    <3>2. CASE err = "none"
      <4>1. Waits(machine, state)
        BY <3>2 DEF IInv, ErrInv, Goes
      <4> QED
        BY <2>2, <3>1, <3>2, <4>1 DEF Steps
    <3>3. CASE err # "none"
      <4>1. state = machine.errorState \/ ~Waits(machine, state)
        BY <3>1, <3>3 DEF IInv, ErrInv, Goes, TypeOK, Errors
      <4> QED
        BY <2>2, <3>1, <3>3, <4>1 DEF Steps
    <3> QED
      BY <3>2, <3>3
  <2> QED
    BY <2>1, <2>2
<1> QED
  BY <1>1, IInvHolds, PTL

-----------------------------------------------------------------------------
(* The engine implements the walk.                                         *)

(* The walk's operators on definitions are the engine's.                   *)
LEMMA WalkOperators ==
  ASSUME NEW m, NEW name
  PROVE  /\ Walk!IsExit(name) = IsExit(name)
         /\ Walk!Waits(m, name) = Waits(m, name)
         /\ Walk!StepsFrom(m, name) = StepsFrom(m, name)
  BY DEF Walk!IsExit, IsExit, Walk!StateOf, StateOf, Walk!ZeroState, ZeroState,
         Walk!Targets, Targets, Walk!Waits, Waits, Walk!StepsFrom, StepsFrom

(* Every step of the engine is a step of the walk, or none.                *)
LEMMA WalkStep == IInv /\ [Next]_vars => [Walk!Next]_(Walk!walkVars)
<1> SUFFICES ASSUME IInv, [Next]_vars
             PROVE  [Walk!Next]_(Walk!walkVars)
  OBVIOUS
<1> USE DEF arguments, loop, scan, chosen, seen, history
<1> DEFINE Keeps == UNCHANGED <<machine, state>> /\ WalkCall' = WalkCall
           Takes == /\ WalkCall = "running" /\ WalkCall' = "stepped"
                    /\ ~IsExit(state) /\ machine' = machine
                    /\ state' \in StepsFrom(machine, state)
<1>k. Keeps => UNCHANGED Walk!walkVars
  BY DEF Walk!walkVars
<1>t. Takes => Walk!Next
  BY WalkOperators DEF Walk!Next, Walk!TakeStep
<1>s. /\ Targets(machine, state) \subseteq StepsFrom(machine, state)
      /\ machine.errorState \in StepsFrom(machine, state)
  BY DEF StepsFrom
<1>1. CASE Request
  BY <1>1, WalkOperators
  DEF Request, WalkCall, Walk!Next, Walk!Call, Walk!Received
<1>2. CASE LimitExceeded
  <2>1. ~IsExit(start) /\ ~Waits(machine, state)
    BY <1>2, LimitPositive
    DEF LimitExceeded, IInv, ErrInv, Goes, StartInv, TypeOK, Waits
  <2> QED
    BY <1>2, <2>1, WalkOperators
    DEF LimitExceeded, WalkCall, Walk!Next, Walk!AnswerError
<1>3. CASE RefuseExit
  <2>1. IsExit(start)
    BY <1>3 DEF RefuseExit, Refused, IInv, TypeOK, ErrInv, Goes, StartInv,
         Waits
  <2>2. Keeps
    BY <1>3, <2>1 DEF RefuseExit, WalkCall
  <2> QED
    BY <2>2, <1>k
<1>4. CASE BeginStep \/ OnFromOk \/ Matches \/ DoesNotMatch
            \/ TransitionActionOk \/ StateActionOk
  <2>1. Keeps
    BY <1>4 DEF BeginStep, OnFromOk, Matches, DoesNotMatch,
         TransitionActionOk, StateActionOk, WalkCall, IInv, StateInv, Before
  <2> QED
    BY <2>1, <1>k
<1>5. CASE OnFromFinishes
  <2>1. state \in StepsFrom(machine, state) /\ ~IsExit(state) /\ ~IsExit(start)
    BY <1>5 DEF OnFromFinishes, IInv, StateInv, StartInv, Before, Current,
         StepsFrom
  <2>2. Takes
    BY <1>5, <2>1 DEF OnFromFinishes, WalkCall
  <2> QED
    BY <2>2, <1>t
<1>6. CASE OnFromFails \/ ConditionFails \/ NoTransitionMatched
            \/ TransitionActionFails
  <2>1. ~IsExit(state) /\ ~IsExit(start)
    BY <1>6 DEF OnFromFails, ConditionFails, NoTransitionMatched,
         TransitionActionFails, IInv, StateInv, StartInv, Before
  <2>2. Takes
    BY <1>6, <2>1, <1>s DEF OnFromFails, ConditionFails, NoTransitionMatched,
         TransitionActionFails, RuntimeError, Divert, WalkCall
  <2> QED
    BY <2>2, <1>t
<1>7. CASE Enter
  <2>1. ~IsExit(start)
    BY <1>7 DEF Enter, IInv, StartInv
  <2>2. CASE success
    <3>1. Takes
      BY <1>7, <2>1, <2>2, <1>s DEF Enter, WalkCall, IInv, StateInv
    <3> QED
      BY <3>1, <1>t
  <2>3. CASE ~success
    <3>1. Keeps
      BY <1>7, <2>1, <2>3 DEF Enter, WalkCall, IInv, StateInv
    <3> QED
      BY <3>1, <1>k
  <2> QED
    BY <2>2, <2>3
<1>8. CASE StateActionFails
  <2>1. ~IsExit(start) /\ ~IsExit(state)
    BY <1>8 DEF StateActionFails, IInv, StateInv, StartInv
  <2> QED
    BY <1>8, <2>1, WalkOperators
    DEF StateActionFails, RuntimeError, WalkCall, Walk!Next, Walk!Fail
<1>9. CASE StepReturns
  <2>1. CASE IsExit(start)
    <3>1. err = "exit"
      BY <1>9, <2>1 DEF StepReturns, IInv, StartInv
    <3> QED
      BY <1>9, <2>1, <3>1
      DEF StepReturns, MustContinue, WalkCall, Walk!Next, Walk!AnswerError
  <2>2. CASE ~IsExit(start) /\ err = "none" /\ MustContinue
    BY <1>9, <2>2, WalkOperators
    DEF StepReturns, MustContinue, WalkCall, Waits, Walk!Next, Walk!GoOn
  <2>3. CASE ~IsExit(start) /\ err = "none" /\ ~MustContinue
    BY <1>9, <2>3, WalkOperators
    DEF StepReturns, MustContinue, WalkCall, Waits, Walk!Next, Walk!AnswerOk
  <2>4. CASE ~IsExit(start) /\ err # "none"
    <3>1. state = machine.errorState
      BY <1>9, <2>4 DEF StepReturns, IInv, TypeOK, Errors, ErrInv, StartInv
    <3> QED
      BY <1>9, <2>4, <3>1
      DEF StepReturns, MustContinue, WalkCall, Walk!Next, Walk!AnswerError
  <2> QED
    BY <2>1, <2>2, <2>3, <2>4
<1>10. CASE UNCHANGED vars
  BY <1>10 DEF vars, WalkCall, Walk!walkVars
<1> QED
  BY <1>1, <1>2, <1>3, <1>4, <1>5, <1>6, <1>7, <1>8, <1>9, <1>10
  DEF Next, Step

(* Whatever the plugins do, a request walks the session along declared     *)
(* transitions or to the error state, never out of an exit state, and      *)
(* answers without an error only where the session can wait.               *)
THEOREM ImplementsWalk == Spec => Walks
<1>1. Init => Walk!Init
  BY WalkOperators DEF Init, Walk!Init, Walk!Received, WalkCall
<1> QED
  BY <1>1, IInvHolds, WalkStep, PTL DEF Spec, Walks, Walk!Spec

=============================================================================
