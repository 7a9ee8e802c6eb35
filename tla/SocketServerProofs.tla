------------------------- MODULE SocketServerProofs -------------------------
(***************************************************************************)
(* Theorems about the socket server, for any number of servers and calls.  *)
(***************************************************************************)
EXTENDS SocketServer, TLAPS

(* The operator starts one server at a time.                               *)
OneAtATime == "overlap" \notin Circumstances

-----------------------------------------------------------------------------
(* The path.                                                               *)

PathType ==
    /\ socket \in Servers \cup {NoSocket, Stale}
    /\ pc \in [Servers -> Starting \cup {"down", "refused", "serving", "draining"}]

(* Between the dial that found nobody and the new listener nobody else     *)
(* starts or serves; this is what makes the removal by name safe, and what *)
(* two starts at once break.                                               *)
Undisturbed ==
    \A s \in Servers : pc[s] \in {"remove", "listen"} =>
        \A t \in Servers \ {s} : pc[t] \notin Starting \cup {"serving"}

AtMostOneStarts ==
    \A s, t \in Servers : pc[s] \in Starting /\ pc[t] \in Starting => s = t

PathInv == PathType /\ Reachable /\ Undisturbed /\ AtMostOneStarts

(* The path is in order at the start, ...                                  *)
LEMMA PathInit == Init => PathInv
  BY SocketServerAssumption
  DEF Init, PathInv, PathType, Reachable, Undisturbed, AtMostOneStarts, Starting

(* ... and every action of a server keeps it so.                           *)
LEMMA PathStep == OneAtATime /\ PathInv /\ [Next]_vars => PathInv'
<1> SUFFICES ASSUME OneAtATime, PathInv, [Next]_vars PROVE PathInv'
  OBVIOUS
<1> USE SocketServerAssumption DEF PathInv, PathType, Starting, Goto
<1>1. ASSUME NEW s \in Servers, Start(s)
      PROVE  PathInv'
  BY <1>1 DEF Start, OneAtATime, Reachable, Undisturbed, AtMostOneStarts
<1>2. ASSUME NEW s \in Servers, Dial(s)
      PROVE  PathInv'
  BY <1>2 DEF Dial, Listening, Reachable, Undisturbed, AtMostOneStarts
<1>3. ASSUME NEW s \in Servers, RemoveStale(s)
      PROVE  PathInv'
  BY <1>3 DEF RemoveStale, Reachable, Undisturbed, AtMostOneStarts
<1>4. ASSUME NEW s \in Servers, Listen(s)
      PROVE  PathInv'
  BY <1>4 DEF Listen, Reachable, Undisturbed, AtMostOneStarts
<1>5. ASSUME NEW s \in Servers, StartFails(s) \/ Leave(s)
      PROVE  PathInv'
  BY <1>5 DEF StartFails, Leave, Reachable, Undisturbed, AtMostOneStarts
<1>6. ASSUME NEW s \in Servers, Signal(s) \/ ServeFails(s)
      PROVE  PathInv'
  BY <1>6 DEF Signal, ServeFails, Reachable, Undisturbed, AtMostOneStarts
<1>7. ASSUME NEW s \in Servers, Kill(s)
      PROVE  PathInv'
  BY <1>7 DEF Kill, Reachable, Undisturbed, AtMostOneStarts
<1>8. ASSUME UNCHANGED <<socket, pc>>
      PROVE  PathInv'
  BY <1>8 DEF Reachable, Undisturbed, AtMostOneStarts
<1> QED
  BY <1>1, <1>2, <1>3, <1>4, <1>5, <1>6, <1>7, <1>8
  DEF Next, Timed, Connect, ConnectFails, Timeout, Accept, Reject,
      CallService, ServiceReturns, Answer, vars

(* It always is.                                                           *)
LEMMA PathHolds == ASSUME OneAtATime PROVE Spec => []PathInv
<1>1. PathInv /\ [Next]_vars => PathInv'
  BY PathStep, OneAtATime
<1> QED
  BY <1>1, PathInit, PTL DEF Spec

(* Whoever serves can be reached, and nobody else is.                      *)
THEOREM ServersReachable == ASSUME OneAtATime PROVE Spec => []Reachable
<1>1. PathInv => Reachable
  BY DEF PathInv
<1> QED
  BY <1>1, PathHolds, OneAtATime, PTL

(* No two servers serve, if they are not started at once.                  *)
THEOREM AtMostOneServes == ASSUME OneAtATime PROVE Spec => []OneServer
<1>1. PathInv => OneServer
  BY DEF PathInv, Reachable, OneServer
<1> QED
  BY <1>1, PathHolds, OneAtATime, PTL

(* A start is refused for another server, and never for a stale file.      *)
THEOREM Refused == ASSUME OneAtATime PROVE Spec => RefusedForAServer
<1>1. PathInv /\ [Next]_vars =>
        [\A s \in Servers : pc'[s] = "refused" /\ pc[s] # "refused" =>
            \E t \in Servers \ {s} : pc[t] = "serving"]_vars
  <2> SUFFICES ASSUME PathInv, Next, NEW s \in Servers,
                      pc'[s] = "refused", pc[s] # "refused"
               PROVE  \E t \in Servers \ {s} : pc[t] = "serving"
    OBVIOUS
  <2>1. Dial(s)
    BY DEF Next, Timed, Start, Dial, RemoveStale, Listen, StartFails, Leave,
           Signal, ServeFails, Kill, Connect, ConnectFails, Timeout, Accept,
           Reject, CallService, ServiceReturns, Answer, Goto, PathInv, PathType
  <2>2. socket \in Servers
    BY <2>1 DEF Dial, Listening, Goto, PathInv, PathType
  <2> QED
    BY <2>1, <2>2 DEF Dial, PathInv, Reachable
<1> QED
  BY <1>1, PathHolds, OneAtATime, PTL DEF Spec, RefusedForAServer

-----------------------------------------------------------------------------
(* The calls.                                                              *)

CallsType ==
    /\ waits \in [Calls -> BOOLEAN]
    /\ told \in [Calls -> Answers \cup {"nothing", "broken"}]
    /\ at \in [Calls -> Servers \cup {NoServer}]
    /\ stage \in [Calls -> {"none", "queued", "reading", "running"} \cup Answers]
    /\ ran \in [Calls -> {"no", "begun", "done", "error"}]

(* The path leads to a server that serves, also when starts overlap.       *)
Owned == \A s \in Servers : socket = s => pc[s] = "serving"

(* A handler belongs to a server that is there, a queue to one that serves,*)
(* and a client that waits to a handler.                                   *)
Attended ==
    \A k \in Calls :
        /\ stage[k] # "none" => /\ at[k] \in Servers
                                /\ pc[at[k]] \in {"serving", "draining"}
        /\ stage[k] = "queued" => pc[at[k]] = "serving"
        /\ waits[k] => stage[k] # "none"

(* What the handler is at goes with what the service has done, and nothing *)
(* happens any more for a client that has its answer.                      *)
HandlersTrue ==
    \A k \in Calls :
        /\ stage[k] \in {"queued", "reading", "rejected"} => ran[k] = "no"
        /\ stage[k] = "ok" => ran[k] = "done"
        /\ stage[k] = "failed" => ran[k] = "error"
        /\ told[k] \in Answers => stage[k] = "none"

CallsInv ==
    PathType /\ Owned /\ CallsType /\ Attended /\ HandlersTrue /\ AnswersTrue

(* At the start nobody calls.                                              *)
LEMMA CallsInit == Init => CallsInv
  BY SocketServerAssumption
  DEF Init, CallsInv, PathType, Owned, CallsType, Attended, HandlersTrue,
      AnswersTrue, Answers, Starting

(* The connections of the server that ends, or those in its queue, break.  *)
LEMMA Breaks ==
  ASSUME CallsInv, NEW s \in Servers, NEW ks \in SUBSET Calls, Break(ks),
         PathType', Owned', \A t \in Servers \ {s} : pc'[t] = pc[t],
         \A k \in Calls \ ks :
             /\ at[k] = s /\ stage[k] # "none" => pc'[s] = "draining"
             /\ at[k] = s => stage[k] # "queued"
  PROVE  CallsInv'
<1>1. CallsType'
  BY DEF CallsInv, CallsType, Break
<1>2. Attended'
  BY DEF CallsInv, CallsType, Attended, Break
<1>3. HandlersTrue' /\ AnswersTrue'
  BY DEF CallsInv, CallsType, HandlersTrue, AnswersTrue, Break, Answers
<1> QED
  BY <1>1, <1>2, <1>3 DEF CallsInv

(* Every action keeps calls, handlers and answers in order.                *)
LEMMA CallsStep == CallsInv /\ [Next]_vars => CallsInv'
<1> SUFFICES ASSUME CallsInv, [Next]_vars PROVE CallsInv'
  OBVIOUS
<1> USE SocketServerAssumption DEF PathType, Starting, Goto
<1>0. PathType
  BY DEF CallsInv
<1>1. ASSUME NEW s \in Servers, Signal(s)
      PROVE  CallsInv'
  <2>1. PathType' /\ Owned' /\ \A t \in Servers \ {s} : pc'[t] = pc[t]
    BY <1>0, <1>1 DEF Signal, CallsInv, Owned
  <2>2. PICK ks \in SUBSET Calls : ks = Of(s, {"queued"})
    BY DEF Of
  <2> QED
    BY <1>0, <1>1, <2>1, <2>2, Breaks DEF Signal, Of
<1>2. ASSUME NEW s \in Servers, Leave(s) \/ ServeFails(s) \/ Kill(s)
      PROVE  CallsInv'
  <2>1. PathType' /\ Owned' /\ \A t \in Servers \ {s} : pc'[t] = pc[t]
    BY <1>0, <1>2 DEF Leave, ServeFails, Kill, CallsInv, Owned
  <2>2. PICK ks \in SUBSET Calls : Break(ks) /\ ks =
          Of(s, IF Leave(s) THEN Handling ELSE Handling \cup {"queued"})
    BY <1>2 DEF Leave, ServeFails, Kill, Of
  <2>3. Leave(s) => \A k \in Calls : at[k] = s => stage[k] # "queued"
    BY DEF Leave, CallsInv, Attended
  <2>4. \A k \in Calls : at[k] = s /\ stage[k] # "none" => k \in ks
    BY <2>2, <2>3 DEF Of, Handling, CallsInv, CallsType
  <2>5. \A k \in Calls \ ks : at[k] = s => stage[k] = "none"
    BY <2>4
  <2> QED
    BY <2>1, <2>2, <2>5, Breaks
<1>3. ASSUME NEW s \in Servers,
             Start(s) \/ Dial(s) \/ RemoveStale(s) \/ Listen(s) \/ StartFails(s)
      PROVE  CallsInv'
  <2>1. PathType' /\ Owned' /\ UNCHANGED calls
    BY <1>0, <1>3
    DEF Start, Dial, RemoveStale, Listen, StartFails, CallsInv, Owned
  <2>2. \A t \in Servers : pc[t] \in {"serving", "draining"} => pc'[t] = pc[t]
    BY <1>0, <1>3 DEF Start, Dial, RemoveStale, Listen, StartFails
  <2> QED
    BY <2>1, <2>2
    DEF CallsInv, CallsType, Attended, HandlersTrue, AnswersTrue, calls
<1>4. ASSUME NEW k \in Calls, Connect(k)
      PROVE  CallsInv'
  BY <1>4 DEF Connect, Listening, Idle, CallsInv, Owned, CallsType,
              Attended, HandlersTrue, AnswersTrue, Answers
<1>5. ASSUME NEW k \in Calls, ConnectFails(k)
      PROVE  CallsInv'
  BY <1>5 DEF ConnectFails, Idle, CallsInv, Owned, CallsType,
              Attended, HandlersTrue, AnswersTrue, Answers
<1>6. ASSUME NEW k \in Calls, Timeout(k)
      PROVE  CallsInv'
  BY <1>6 DEF Timeout, CallsInv, Owned, CallsType,
              Attended, HandlersTrue, AnswersTrue, Answers
<1>7. ASSUME NEW k \in Calls, Accept(k) \/ Reject(k) \/ CallService(k)
      PROVE  CallsInv'
  BY <1>7 DEF Accept, Reject, CallService, At, CallsInv, Owned, CallsType,
              Attended, HandlersTrue, AnswersTrue, Answers
<1>8. ASSUME NEW k \in Calls, ServiceReturns(k)
      PROVE  CallsInv'
  BY <1>8 DEF ServiceReturns, At, CallsInv, Owned, CallsType,
              Attended, HandlersTrue, AnswersTrue, Answers
<1>9. ASSUME NEW k \in Calls, Answer(k)
      PROVE  CallsInv'
  BY <1>9 DEF Answer, At, CallsInv, Owned, CallsType,
              Attended, HandlersTrue, AnswersTrue, Answers
<1>10. CASE UNCHANGED vars
  BY <1>10 DEF vars, calls, CallsInv, Owned, CallsType, Attended, HandlersTrue,
              AnswersTrue
<1> QED
  BY <1>1, <1>2, <1>3, <1>4, <1>5, <1>6, <1>7, <1>8, <1>9, <1>10
  DEF Next, Timed

(* They always are.                                                        *)
LEMMA CallsHold == Spec => []CallsInv
  BY CallsInit, CallsStep, PTL DEF Spec

(* Every variable stays within its type.                                   *)
THEOREM TypeCorrect == Spec => []TypeOK
<1>1. CallsInv => TypeOK
  BY DEF CallsInv, PathType, CallsType, Attended, TypeOK
<1> QED
  BY <1>1, CallsHold, PTL

(* What a client is told is what became of its request.                    *)
THEOREM AnswersAreTrue == Spec => []AnswersTrue
<1>1. CallsInv => AnswersTrue
  BY DEF CallsInv
<1> QED
  BY <1>1, CallsHold, PTL

=============================================================================
