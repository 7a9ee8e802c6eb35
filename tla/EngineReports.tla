---------------------------- MODULE EngineReports ----------------------------
(***************************************************************************)
(* Theorems about what a request reports: the failures its observers are   *)
(* shown, and the output it returns; and about how far it has still to go. *)
(***************************************************************************)
EXTENDS EngineProofs

-----------------------------------------------------------------------------
(* Failures.                                                               *)

SomeFailureShown == \E k \in DOMAIN events : ~events[k].success

(* A move that did not succeed led to the error state, and a failure has   *)
(* been shown or is about to be.                                           *)
FailInv ==
    /\ \A k \in DOMAIN events :
         ~events[k].success => events[k].to = machine.errorState
    /\ failed => SomeFailureShown \/ (pc = "enter" /\ ~success)

(* A move is shown.                                                        *)
LEMMA ShownEvent ==
  ASSUME TypeOK, FailInv, machine' = machine,
         NEW from \in StateNames, NEW to \in StateNames, NEW good \in BOOLEAN,
         Notify([from |-> from, to |-> to, success |-> good]),
         ~good => to = machine.errorState
  PROVE  /\ \A k \in DOMAIN events' :
              ~events'[k].success => events'[k].to = machine'.errorState
         /\ SomeFailureShown \/ ~good => SomeFailureShown'
<1> DEFINE e == [from |-> from, to |-> to, success |-> good]
<1>1. events \in Seq(Event) /\ e \in Event
  BY DEF TypeOK, Event
<1>2. /\ events' = Append(events, e)
      /\ DOMAIN events' = 1..(Len(events) + 1)
      /\ DOMAIN events = 1..Len(events) /\ Len(events) \in Nat
      /\ events'[Len(events) + 1] = e
      /\ \A k \in 1..Len(events) : events'[k] = events[k]
  BY <1>1 DEF Notify
<1>3. \A k \in DOMAIN events' : k \in DOMAIN events \/ k = Len(events) + 1
  BY <1>2
<1>4. \A k \in DOMAIN events' :
         ~events'[k].success => events'[k].to = machine'.errorState
  BY <1>2, <1>3 DEF FailInv
<1>5. ~good => SomeFailureShown'
  <2>1. Len(events) + 1 \in DOMAIN events'
    BY <1>2
  <2> QED
    BY <1>2, <2>1 DEF SomeFailureShown
<1>6. SomeFailureShown => SomeFailureShown'
  <2>1. \A k \in DOMAIN events : k \in DOMAIN events'
    BY <1>2
  <2> QED
    BY <1>2, <2>1 DEF SomeFailureShown
<1> QED
  BY <1>4, <1>5, <1>6

(* Every action shows the failures it knows of.                            *)
LEMMA FailStep == IInv /\ FailInv /\ [Next]_vars => FailInv'
<1> SUFFICES ASSUME IInv, FailInv, [Next]_vars
             PROVE  FailInv'
  OBVIOUS
<1> USE DEF arguments, loop, scan, chosen, seen, history
<1>t. /\ TypeOK /\ StateInv /\ fromState \in StateNames
      /\ selected.target \in StateNames /\ machine.errorState \in StateNames
      /\ success \in BOOLEAN
  BY ErrorStateType DEF IInv, TypeOK, Selection
<1>1. CASE Request
  BY <1>1 DEF Request, FailInv
<1>2. CASE OnFromFails \/ StateActionFails
  <2>1. PICK from \in StateNames :
          /\ Notify([from |-> from, to |-> machine.errorState,
                     success |-> FALSE])
          /\ machine' = machine
    BY <1>2, <1>t DEF OnFromFails, StateActionFails, RuntimeError
  <2>2. /\ \A k \in DOMAIN events' :
             ~events'[k].success => events'[k].to = machine'.errorState
        /\ SomeFailureShown'
    BY <2>1, <1>t, ShownEvent
  <2> QED
    BY <2>2 DEF FailInv
<1>3. CASE Enter
  <2>1. /\ Notify([from |-> fromState, to |-> selected.target,
                   success |-> success])
        /\ UNCHANGED <<machine, failed>>
        /\ ~success => selected.target = machine.errorState
    BY <1>3, <1>t DEF Enter, StateInv
  <2>2. /\ \A k \in DOMAIN events' :
             ~events'[k].success => events'[k].to = machine'.errorState
        /\ SomeFailureShown \/ ~success => SomeFailureShown'
    BY <2>1, <1>t, ShownEvent
  <2> QED
    BY <2>1, <2>2 DEF FailInv
<1>4. CASE ConditionFails \/ TransitionActionFails
  BY <1>4
  DEF ConditionFails, TransitionActionFails, Divert, Produces, FailInv,
      SomeFailureShown
<1>5. ASSUME UNCHANGED <<machine, events, failed>>, pc # "enter"
      PROVE  FailInv'
  BY <1>5 DEF FailInv, SomeFailureShown
<1>6. CASE LimitExceeded \/ RefuseExit \/ BeginStep
  BY <1>5, <1>6 DEF LimitExceeded, RefuseExit, BeginStep
<1>7. CASE OnFromOk \/ OnFromFinishes \/ Matches \/ DoesNotMatch
           \/ NoTransitionMatched
  BY <1>5, <1>7 DEF OnFromOk, OnFromFinishes, Matches, DoesNotMatch,
                    NoTransitionMatched
<1>8. CASE TransitionActionOk \/ StateActionOk \/ StepReturns
  BY <1>5, <1>8 DEF TransitionActionOk, StateActionOk, StepReturns
<1>9. CASE UNCHANGED vars
  BY <1>9 DEF vars, FailInv, SomeFailureShown
<1> QED
  BY <1>1, <1>2, <1>3, <1>4, <1>6, <1>7, <1>8, <1>9 DEF Next, Step

(* No failure of a plugin goes unseen: the observers are told of a move    *)
(* that did not succeed, and every such move is into the error state, also *)
(* when the error itself is overwritten by the error state's action.       *)
THEOREM FailuresAreObserved == Spec => []FailuresObserved
<1>1. Init => FailInv
  <2> SUFFICES ASSUME Init
               PROVE  FailInv
    OBVIOUS
  <2>1. events = << >> /\ DOMAIN events = {} /\ failed = FALSE
    BY DEF Init
  <2> QED
    BY <2>1 DEF FailInv
<1>2. IInv /\ FailInv => FailuresObserved
  BY DEF FailInv, FailuresObserved, SomeFailureShown
<1> QED
  BY <1>1, <1>2, FailStep, IInvHolds, PTL DEF Spec

-----------------------------------------------------------------------------
(* Output.                                                                 *)

(* s is a prefix of what the actions produced.                             *)
Begun(s, whole) == Len(s) <= Len(whole) /\ s = SubSeq(whole, 1, Len(s))

OutInv ==
    /\ pc = "loop" => output = ran
    /\ pc \in Before \cup {"enter", "stateAction"} => output \o out = ran
    /\ pc = "stepped" => /\ Begun(output \o out, ran)
                         /\ err = "none" => output \o out = ran
    /\ pc = "returned" => /\ Begun(output, ran)
                          /\ err \in {"none", "limit"} => output = ran

(* A sequence begins with itself, and with the first part of two.          *)
LEMMA Prefixes ==
  ASSUME NEW s \in Seq(Token), NEW u \in Seq(Token)
  PROVE  /\ Begun(s, s) /\ Begun(s, s \o u)
         /\ s \o << >> = s
<1>1. /\ s \o u \in Seq(Token) /\ Len(s \o u) = Len(s) + Len(u)
      /\ \A k \in 1..Len(s) : (s \o u)[k] = s[k]
  OBVIOUS
<1>2. Len(s) \in Nat /\ Len(u) \in Nat /\ Len(s) <= Len(s \o u)
  BY <1>1
<1>3. SubSeq(s \o u, 1, Len(s)) = s
  BY <1>1, <1>2
<1>4. SubSeq(s, 1, Len(s)) = s
  BY <1>2
<1>5. s \o << >> = s
  OBVIOUS
<1> QED
  BY <1>2, <1>3, <1>4, <1>5 DEF Begun

(* Appending to the second of two sequences appends to both together.      *)
LEMMA AppendLast ==
  ASSUME NEW S, NEW s \in Seq(S), NEW u \in Seq(S), NEW e \in S
  PROVE  s \o Append(u, e) = Append(s \o u, e)
<1> DEFINE l == s \o Append(u, e)
           r == Append(s \o u, e)
<1>1. l \in Seq(S) /\ r \in Seq(S) /\ Len(l) = Len(r)
  OBVIOUS
<1>2. \A k \in 1..Len(l) : l[k] = r[k]
  OBVIOUS
<1>3. l = r
  <2> HIDE DEF l, r
  <2> QED
    BY <1>1, <1>2
<1> QED
  BY <1>3

(* What an action returns is appended to both.                             *)
LEMMA ProducesBoth ==
  ASSUME TypeOK, output \o out = ran,
         NEW place \in {"from", "transition", "state"}, Produces(place),
         output' = output
  PROVE  output' \o out' = ran'
<1>1. /\ output \in Seq(Token) /\ out \in Seq(Token)
      /\ <<i, place>> \in Token
  BY DEF TypeOK, Token
<1>2. output \o Append(out, <<i, place>>) = Append(output \o out, <<i, place>>)
  BY <1>1, AppendLast
<1> QED
  BY <1>2 DEF Produces

(* Every action keeps the output what the actions produced.                *)
LEMMA OutStep == IInv /\ OutInv /\ [Next]_vars => OutInv'
<1> SUFFICES ASSUME IInv, OutInv, [Next]_vars
             PROVE  OutInv'
  OBVIOUS
<1> USE DEF arguments, loop, scan, chosen, seen, history, Before
<1>t. /\ TypeOK /\ output \in Seq(Token) /\ out \in Seq(Token)
      /\ ran \in Seq(Token) /\ << >> \in Seq(Token)
  BY DEF IInv, TypeOK
<1>p. /\ Begun(output, output) /\ Begun(output, output \o out)
      /\ output \o << >> = output /\ Begun(ran, ran)
  BY <1>t, Prefixes
<1>1. CASE Request
  BY <1>1 DEF Request, OutInv
<1>2. CASE LimitExceeded
  BY <1>2, <1>p DEF LimitExceeded, OutInv
<1>3. CASE RefuseExit
  BY <1>3, <1>p DEF RefuseExit, OutInv
<1>4. CASE BeginStep
  BY <1>4, <1>p DEF BeginStep, OutInv
<1>5. CASE OnFromFails \/ StateActionFails
  <2>1. /\ output \o out = ran /\ pc' = "stepped" /\ out' = << >>
        /\ UNCHANGED <<output, ran>> /\ err' = "action"
    BY <1>5 DEF OnFromFails, StateActionFails, RuntimeError, OutInv
  <2> QED
    BY <2>1, <1>p DEF OutInv
<1>6. CASE OnFromOk \/ OnFromFinishes \/ TransitionActionOk
           \/ TransitionActionFails \/ StateActionOk
  <2>1. /\ output \o out = ran /\ output' = output
        /\ \E place \in {"from", "transition", "state"} : Produces(place)
        /\ pc' \in Before \cup {"enter", "stepped"}
    BY <1>6 DEF OnFromOk, OnFromFinishes, TransitionActionOk,
                TransitionActionFails, StateActionOk, Divert, OutInv
  <2>2. output' \o out' = ran'
    BY <2>1, <1>t, ProducesBoth
  <2>3. Begun(ran', ran')
    <3>1. TypeOK'
      BY TypeStep, <1>t
    <3> QED
      BY <3>1, Prefixes DEF TypeOK
  <2> QED
    BY <2>1, <2>2, <2>3 DEF OutInv
<1>7. CASE Matches \/ DoesNotMatch \/ ConditionFails \/ NoTransitionMatched
           \/ Enter
  <2>1. /\ output \o out = ran /\ UNCHANGED <<output, out, ran>>
        /\ pc' \in Before \cup {"enter", "stateAction", "stepped"}
    BY <1>7 DEF Matches, DoesNotMatch, ConditionFails, NoTransitionMatched,
                Enter, Divert, OutInv
  <2> QED
    BY <2>1, <1>p DEF OutInv
<1>8. CASE StepReturns
  <2>1. /\ output' = output \o out /\ UNCHANGED <<ran, err>>
        /\ (pc' = "loop" /\ err = "none") \/ pc' = "returned"
        /\ Begun(output \o out, ran)
        /\ err = "none" => output \o out = ran
        /\ err # "limit"
    BY <1>8 DEF StepReturns, MustContinue, OutInv, IInv, ErrInv
  <2> QED
    BY <2>1 DEF OutInv
<1>9. CASE UNCHANGED vars
  BY <1>9 DEF vars, OutInv
<1> QED
  BY <1>1, <1>2, <1>3, <1>4, <1>5, <1>6, <1>7, <1>8, <1>9 DEF Next, Step

(* Output is all that the actions produced, in the order in which they     *)
(* ran, and for a request that fails the beginning of it.                  *)
THEOREM OutputsInOrder == Spec => []OutputInOrder
<1>1. Init => OutInv
  BY DEF Init, OutInv, Before
<1>2. OutInv => OutputInOrder
  BY DEF OutInv, OutputInOrder, Begun
<1> QED
  BY <1>1, <1>2, OutStep, IInvHolds, PTL DEF Spec

-----------------------------------------------------------------------------
(* Progress.                                                               *)

(* The order in which a step comes to its places.                          *)
Phase ==
    [loop |-> 0, onFrom |-> 1, transitions |-> 2, transitionAction |-> 3,
     enter |-> 4, stateAction |-> 5, stepped |-> 6, returned |-> 7]

(* Another step, which the bound still allows.                             *)
NextStep == pc' = "loop" /\ i' = i + 1 /\ i < Limit

(* A later place of the same step.                                         *)
LaterPlace == i' = i /\ Phase[pc'] > Phase[pc]

(* The next transition of the same state.                                  *)
NextTransition ==
    /\ pc = "transitions" /\ pc' = pc
    /\ UNCHANGED <<i, fromState>>
    /\ t' = t + 1 /\ t <= Len(Current.transitions)

(* What a request does takes it on, and it keeps its definition and bound. *)
GoesOn ==
    Running => /\ NextStep \/ LaterPlace \/ NextTransition
               /\ UNCHANGED arguments

(* No request can stay in the loop of Steps: everything it does is a later *)
(* place of the step it is in, a later transition of a state's list, or a  *)
(* further one of at most Limit steps (the loops of engine.go 68 and 145). *)
(* With the fairness of Spec, which TLC checks, it is answered.            *)
THEOREM RequestsComeToAnEnd ==
    Spec => [][GoesOn]_vars /\ [](Running => i <= Limit)
<1> USE DEF arguments, loop, scan, chosen, seen, history
<1>1. IInv /\ [Next]_vars => [GoesOn]_vars
  <2> SUFFICES ASSUME IInv, Next, Running
               PROVE  GoesOn
    BY DEF GoesOn
  <2>1. CASE LimitExceeded \/ RefuseExit \/ BeginStep
    BY <2>1 DEF LimitExceeded, RefuseExit, BeginStep, GoesOn, LaterPlace,
                Phase
  <2>2. CASE OnFromOk \/ OnFromFinishes \/ OnFromFails
    BY <2>2 DEF OnFromOk, OnFromFinishes, OnFromFails, RuntimeError, GoesOn,
                LaterPlace, Phase
  <2>3. CASE Matches \/ ConditionFails \/ NoTransitionMatched
    BY <2>3 DEF Matches, ConditionFails, NoTransitionMatched, Divert,
                GoesOn, LaterPlace, Phase
  <2>4. CASE DoesNotMatch
    BY <2>4 DEF DoesNotMatch, TryNext, GoesOn, NextTransition
  <2>5. CASE TransitionActionOk \/ TransitionActionFails
    BY <2>5 DEF TransitionActionOk, TransitionActionFails, Divert, GoesOn,
                LaterPlace, Phase
  <2>6. CASE Enter \/ StateActionOk \/ StateActionFails
    BY <2>6 DEF Enter, StateActionOk, StateActionFails, RuntimeError,
                GoesOn, LaterPlace, Phase
  <2>7. CASE StepReturns
    BY <2>7 DEF StepReturns, CountStep, IInv, BoundInv, GoesOn, NextStep,
                LaterPlace, Phase
  <2>8. CASE Request
    BY <2>8 DEF Request, Running
  <2> QED
    BY <2>1, <2>2, <2>3, <2>4, <2>5, <2>6, <2>7, <2>8 DEF Next, Step
<1>2. IInv => (Running => i <= Limit)
  <2> SUFFICES ASSUME IInv, Running PROVE i <= Limit
    OBVIOUS
  <2>1. i \in Nat /\ Limit \in Nat
    BY LimitPositive DEF IInv, TypeOK
  <2> QED
    BY <2>1 DEF IInv, BoundInv, Running
<1> QED
  BY <1>1, <1>2, IInvHolds, PTL DEF Spec

=============================================================================
