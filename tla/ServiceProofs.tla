---------------------------- MODULE ServiceProofs ----------------------------
(***************************************************************************)
(* Theorems about the service: its types, the bound on what it keeps, and  *)
(* for clients that wait for their answers what becomes of a conversation. *)
(***************************************************************************)
EXTENDS Service, TLAPS

-----------------------------------------------------------------------------
(* Types.                                                                  *)

(* The engine leaves a session in a state that has a name, and one that    *)
(* was in an exit state where it was.                                      *)
LEMMA StepsOutcome ==
  ASSUME NEW m, IsStateMachine(m), Validate(m),
         NEW s \in StateNames \ {NoName}, NEW o \in Steps(m, s)
  PROVE  /\ o.state \in StateNames \ {NoName}
         /\ o.err \in BOOLEAN
         /\ IsExit(s) => o.state = s
<1> DEFINE Named == StateNames \ {NoName}
<1>1. ASSUME NEW x \in Named
      PROVE  StepsFrom(m, x) \subseteq Named
  <2>1. Targets(m, x) \subseteq Named
    <3>1. CASE x \in DOMAIN m.states
      BY <3>1 DEF Validate, ValidState, IsStateMachine, Targets, StateOf
    <3>2. CASE x \notin DOMAIN m.states
      BY <3>2 DEF Targets, StateOf, ZeroState
    <3> QED
      BY <3>1, <3>2
  <2>2. m.errorState \in Named
    BY DEF Validate, IsStateMachine
  <2> QED
    BY <2>1, <2>2 DEF StepsFrom
<1>2. Begins(m, s) \subseteq Named
  <2>1. /\ Named \in SUBSET StateNames
        /\ s \in Named
        /\ \A x \in Named : \A y \in StepsFrom(m, x) :
             Waits(m, y) \/ y \in Named
    BY <1>1
  <2> QED
    BY <2>1 DEF Begins
<1>3. Ends(m, s) \subseteq Named
  BY <1>1, <1>2 DEF Ends
<1>4. CASE IsExit(s)
  <2>1. o = [state |-> s, err |-> TRUE]
    BY <1>4 DEF Steps
  <2> QED
    BY <2>1
<1>5. CASE ~IsExit(s)
  <2>1. PICK x \in Ends(m, s), e \in BOOLEAN : o = [state |-> x, err |-> e]
    BY <1>5 DEF Steps
  <2>2. o.state = x /\ o.err = e
    BY <2>1
  <2> QED
    BY <2>1, <2>2, <1>3, <1>5
<1> QED
  BY <1>4, <1>5

(* Put changes the one session.                                            *)
LEMMA PutOne ==
  ASSUME NEW id \in SessionIDs, NEW s \in Session, TypeOK
  PROVE  /\ DOMAIN Put(id, s) = DOMAIN stored \cup {id}
         /\ DOMAIN Put(id, s) \subseteq SessionIDs
         /\ Put(id, s) \in [DOMAIN Put(id, s) -> Session]
         /\ Put(id, s)[id] = s
         /\ \A x \in DOMAIN stored \ {id} : Put(id, s)[x] = stored[x]
  BY DEF Put, TypeOK

(* A request works with a definition the validator has accepted.           *)
MachineInv ==
    \A w \in Workers :
        pc[w] \in {"config", "get", "admit", "run"} => Validate(req[w].machine)

TypeInv == TypeOK /\ MachineInv

(* A lifetime is a number.                                                 *)
LEMMA LifetimeType == Lifetimes \subseteq Int /\ 0 \in Lifetimes
  BY ServiceAssumption DEF Lifetimes

(* The numbers in a request, and in a session.                             *)
LEMMA RequestNumbers ==
  ASSUME NEW r \in Requests
  PROVE  /\ r.now \in Int
         /\ r.ttl \in Lifetimes /\ r.ttl \in Int
         /\ r.session.expires \in Int /\ r.session.given \in Int
<1>1. /\ r.ttl \in Lifetimes /\ r.now \in 0..MaxTime
      /\ r.session \in Session \cup {NoSession}
  BY DEF Requests
<1>2. r.session.expires \in Int /\ r.session.given \in Lifetimes
  BY <1>1, LifetimeType DEF Session, NoSession, NoExpiry
<1>3. r.now \in Int
  BY <1>1
<1>4. r.ttl \in Int
  BY <1>1, LifetimeType
<1>5. r.session.given \in Int
  BY <1>2, LifetimeType
<1> QED
  BY <1>1, <1>2, <1>3, <1>4, <1>5

(* The record of a request that is not under way is a request.             *)
LEMMA IdleType == Idle \in Requests
<1>1. (CHOOSE id \in SessionIDs : TRUE) \in SessionIDs
  BY ServiceAssumption
<1>2. (CHOOSE m \in MachineFiles : TRUE) \in MachineFiles
  BY ServiceAssumption
<1>3. 0 \in 0..MaxTime
  BY ServiceAssumption
<1> QED
  BY <1>1, <1>2, <1>3, LifetimeType DEF Idle, Requests

(* The types hold at first.                                                *)
LEMMA TypeInit == Init => TypeInv
<1> SUFFICES ASSUME Init PROVE TypeInv
  OBVIOUS
<1>1. Idle \in Requests /\ clock \in StartTime..MaxTime
  BY IdleType, ServiceAssumption DEF Init
<1> QED
  BY <1>1 DEF Init, TypeInv, TypeOK, MachineInv, Places, Nothing, Session

(* What the configuration gives.                                           *)
LEMMA ConfigType ==
  ASSUME NEW f \in RuntimeFiles
  PROVE  /\ LoadRuntimeConfig(f).ttl \in Lifetimes
         /\ LoadRuntimeConfig(f).maxSteps \in Int
  BY ServiceAssumption DEF LoadRuntimeConfig, Lifetimes

(* A session with a new expiry is a session.                               *)
LEMMA ExtensionType ==
  ASSUME NEW r \in Requests, r.session \in Session
  PROVE  /\ Extension(r) \in Session
         /\ Extension(r).state = r.session.state
         /\ Extension(r).expires = r.now + r.ttl
         /\ Extension(r).given = r.ttl
<1>1. r.now \in Int /\ r.ttl \in Int /\ r.ttl \in Lifetimes
  BY RequestNumbers
<1>2. r.now + r.ttl \in Int
  BY <1>1
<1> QED
  BY <1>1, <1>2 DEF Extension, Session

(* A request that ends leaves the types as they are.                       *)
LEMMA AnswerType ==
  ASSUME TypeInv, NEW w \in Workers, NEW k, Answer(w, k),
         k \in [told : {"nothing", "session", "uncertain"},
                session : Session \cup {NoSession}],
         clock' = clock, patient' = patient,
         DOMAIN stored' \subseteq SessionIDs,
         stored' \in [DOMAIN stored' -> Session]
  PROVE  TypeInv'
<1>1. Idle \in Requests
  BY IdleType
<1> QED
  BY <1>1 DEF TypeInv, TypeOK, MachineInv, Answer, Goto, Places

(* Every action keeps the types.                                           *)
LEMMA TypeStep == TypeInv /\ [Next]_vars => TypeInv'
<1> SUFFICES ASSUME TypeInv, [Next]_vars
             PROVE  TypeInv'
  OBVIOUS
<1> USE DEF TypeInv
<1>i. Idle \in Requests
  BY IdleType
<1>k. ASSUME NEW w \in Workers, NEW s \in Session
      PROVE  /\ \A k \in {Unmoved(w), Told(s), Uncertain} :
                  k \in [told : {"nothing", "session", "uncertain"},
                         session : Session \cup {NoSession}]
             /\ req[w].id \in SessionIDs
  BY DEF TypeOK, Unmoved, Told, Uncertain, Requests
<1>1. ASSUME NEW w \in Workers, Receive(w)
      PROVE  TypeInv'
  <2>1. PICK id \in SessionIDs :
          req' = [req EXCEPT ![w] = [Idle EXCEPT !.id = id]]
    BY <1>1 DEF Receive
  <2> DEFINE r == [Idle EXCEPT !.id = id]
  <2>2. r \in Requests
    BY <1>i DEF Requests
  <2> HIDE DEF r
  <2> QED
    BY <1>1, <2>1, <2>2 DEF Receive, Goto, TypeOK, MachineInv, Places, r
<1>2. ASSUME NEW w \in Workers, Load(w)
      PROVE  TypeInv'
  <2>1. PICK m \in MachineFiles :
          Validate(m) /\ req' = [req EXCEPT ![w].machine = m]
    BY <1>2 DEF Load
  <2> DEFINE r == [req[w] EXCEPT !.machine = m]
  <2>2. r \in Requests /\ r.machine = m /\ r.session = req[w].session
    BY DEF TypeOK, Requests
  <2>3. req' = [req EXCEPT ![w] = r]
    BY <2>1 DEF TypeOK
  <2> HIDE DEF r
  <2> QED
    BY <1>2, <2>1, <2>2, <2>3
    DEF Load, Goto, TypeOK, MachineInv, Places
<1>c. ASSUME NEW w \in Workers, LoadConfig(w)
      PROVE  TypeInv'
  <2>1. PICK f \in RuntimeFiles :
          req' = [req EXCEPT ![w].ttl = LoadRuntimeConfig(f).ttl,
                             ![w].maxSteps = LoadRuntimeConfig(f).maxSteps]
    BY <1>c DEF LoadConfig
  <2> DEFINE r == [req[w] EXCEPT !.ttl = LoadRuntimeConfig(f).ttl,
                                 !.maxSteps = LoadRuntimeConfig(f).maxSteps]
  <2>2. /\ r \in Requests /\ r.machine = req[w].machine
        /\ r.session = req[w].session
    BY ConfigType DEF TypeOK, Requests
  <2>3. req' = [req EXCEPT ![w] = r]
    BY <2>1 DEF TypeOK
  <2> HIDE DEF r
  <2> QED
    BY <1>c, <2>2, <2>3
    DEF LoadConfig, Goto, TypeOK, MachineInv, Places
<1>3. ASSUME NEW w \in Workers, LoadFails(w) \/ GetFails(w) \/ Reject(w)
      PROVE  TypeInv'
  <2>1. /\ Answer(w, Unmoved(w)) /\ UNCHANGED <<clock, stored, patient>>
        /\ Unmoved(w) \in [told : {"nothing", "session", "uncertain"},
                           session : Session \cup {NoSession}]
    BY <1>3 DEF LoadFails, GetFails, Reject, TypeOK, Unmoved, Requests
  <2> QED
    BY <2>1, AnswerType DEF TypeOK
<1>4. ASSUME NEW w \in Workers, Get(w)
      PROVE  TypeInv'
  <2>1. /\ IsStateMachine(req[w].machine) /\ Validate(req[w].machine)
        /\ req[w] \in Requests
    BY <1>4, ServiceAssumption DEF Get, MachineInv, TypeOK, Requests
  <2>2. LookUp(req[w]) \in Session
    BY <2>1, LifetimeType
    DEF LookUp, Found, Created, TypeOK, Session, Validate, IsStateMachine,
        NoExpiry, NoSession
  <2>3. Found(req[w].id) \in BOOLEAN
    BY DEF Found
  <2> DEFINE r == [req[w] EXCEPT !.session = LookUp(req[w]),
                                 !.fresh = ~Found(req[w].id)]
  <2>4. /\ r \in Requests /\ r.machine = req[w].machine
        /\ r.session \in Session
    BY <2>1, <2>2, <2>3 DEF Requests
  <2>5. req' = [req EXCEPT ![w] = r]
    BY <1>4 DEF Get, TypeOK
  <2> HIDE DEF r
  <2> QED
    BY <1>4, <2>1, <2>4, <2>5 DEF Get, Goto, TypeOK, MachineInv, Places
<1>5. ASSUME NEW w \in Workers, Admit(w)
      PROVE  TypeInv'
  <2>1. clock \in 0..MaxTime
    BY ServiceAssumption DEF TypeOK
  <2> DEFINE r == [req[w] EXCEPT !.now = clock]
  <2>2. /\ r \in Requests /\ r.machine = req[w].machine
        /\ r.session = req[w].session
    BY <2>1 DEF TypeOK, Requests
  <2>3. req' = [req EXCEPT ![w] = r]
    BY <1>5 DEF Admit, TypeOK
  <2> HIDE DEF r
  <2> QED
    BY <1>5, <2>2, <2>3 DEF Admit, Goto, TypeOK, MachineInv, Places
<1>6. ASSUME NEW w \in Workers, Run(w)
      PROVE  TypeInv'
  <2>1. /\ IsStateMachine(req[w].machine) /\ Validate(req[w].machine)
        /\ req[w].session.state \in StateNames \ {NoName}
    BY <1>6, ServiceAssumption
    DEF Run, MachineInv, TypeOK, Requests, Session
  <2>2. PICK o \in Steps(req[w].machine, req[w].session.state) :
          req' = [req EXCEPT ![w].session.state = o.state, ![w].err = o.err]
    BY <1>6 DEF Run
  <2>3. o.state \in StateNames \ {NoName} /\ o.err \in BOOLEAN
    BY <2>1, StepsOutcome
  <2> DEFINE r == [req[w] EXCEPT !.session.state = o.state, !.err = o.err]
  <2> DEFINE s == [req[w].session EXCEPT !.state = o.state]
  <2>s. s \in Session
    BY <1>6, <2>3 DEF Run, TypeOK, Session
  <2>4. r \in Requests /\ r.session \in Session
    <3>1. r = [req[w] EXCEPT !.session = s, !.err = o.err]
      BY DEF TypeOK, Requests
    <3>2. req[w] \in Requests
      BY DEF TypeOK
    <3> HIDE DEF s, r
    <3> QED
      BY <3>1, <3>2, <2>3, <2>s DEF Requests
  <2>5. req' = [req EXCEPT ![w] = r]
    BY <2>2 DEF TypeOK
  <2> HIDE DEF r
  <2> QED
    BY <1>6, <2>4, <2>5 DEF Run, Goto, TypeOK, MachineInv, Places
<1>7. ASSUME NEW w \in Workers,
             Save(w) \/ SaveFails(w) \/ Extend(w) \/ ExtendFails(w)
      PROVE  TypeInv'
  <2>1. /\ req[w].session \in Session /\ Extension(req[w]) \in Session
        /\ req[w].id \in SessionIDs
    <3>1. req[w] \in Requests /\ req[w].session \in Session
      BY <1>7 DEF Save, SaveFails, Extend, ExtendFails, TypeOK
    <3> QED
      BY <3>1, ExtensionType DEF Requests
  <2>p. /\ \E f \in {stored, Put(req[w].id, req[w].session),
                     Put(req[w].id, Extension(req[w]))} : stored' = f
        /\ UNCHANGED <<clock, patient>>
    BY <1>7 DEF Save, SaveFails, Extend, ExtendFails
  <2>2. /\ DOMAIN stored' \subseteq SessionIDs
        /\ stored' \in [DOMAIN stored' -> Session]
        /\ UNCHANGED <<clock, patient>>
    <3>1. CASE stored' = stored
      BY <3>1, <2>p DEF TypeOK
    <3>2. ASSUME NEW s \in Session, stored' = Put(req[w].id, s)
          PROVE  /\ DOMAIN stored' \subseteq SessionIDs
                 /\ stored' \in [DOMAIN stored' -> Session]
      BY <3>2, <2>1, PutOne
    <3> QED
      BY <2>p, <2>1, <3>1, <3>2
  <2>3. CASE \E k \in {Told(req[w].session), Told(Extension(req[w])),
                       Uncertain} : Answer(w, k)
    BY <2>1, <2>2, <2>3, <1>k, AnswerType
  <2>4. CASE /\ pc[w] = "save" /\ Goto(w, "extend")
             /\ UNCHANGED <<req, known>>
    BY <2>1, <2>2, <2>4 DEF Goto, TypeOK, MachineInv, Places
  <2> QED
    BY <1>7, <2>3, <2>4 DEF Save, SaveFails, Extend, ExtendFails
<1>8. CASE Tick
  <2>1. clock' \in StartTime..MaxTime
    BY <1>8, ServiceAssumption DEF Tick, TypeOK
  <2> QED
    BY <1>8, <2>1 DEF Tick, TypeOK, MachineInv
<1>9. CASE DeleteExpired
  BY <1>9 DEF DeleteExpired, TypeOK, MachineInv
<1>11. CASE Restart
  BY <1>11, <1>i DEF Restart, TypeOK, MachineInv, Uncertain, Places
<1>12. CASE UNCHANGED vars
  BY <1>12 DEF vars, TypeOK, MachineInv
<1> QED
  BY <1>1, <1>2, <1>c, <1>3, <1>4, <1>5, <1>6, <1>7, <1>8, <1>9, <1>11,
     <1>12
  DEF Next, Proceed

(* They always hold.                                                       *)
LEMMA TypesHold == Spec => []TypeInv
  BY TypeInit, TypeStep, PTL DEF Spec

(* Every variable of the service stays within its type: no request runs    *)
(* in a state that has no name, and none is stored.                        *)
THEOREM TypeCorrect == Spec => []TypeOK
<1>1. TypeInv => TypeOK
  BY DEF TypeInv
<1> QED
  BY <1>1, TypesHold, PTL

-----------------------------------------------------------------------------
(* Lifetimes, whether or not clients wait for their answers.               *)

(* No request has a time that is still to come, and no lifetime it has at  *)
(* hand counts from a time that is - nor, once it is admitted, from a time *)
(* after its own.                                                          *)
LifetimeInv ==
    /\ LifetimeBounded
    /\ \A w \in Workers :
         /\ req[w].now <= clock
         /\ req[w].session.expires <= clock + req[w].session.given
         /\ pc[w] \in {"run", "save", "extend"} =>
              req[w].session.expires <= req[w].now + req[w].session.given

(* What a request does to the store is to put its session there.           *)
LEMMA StoresItsSession ==
  ASSUME TypeOK, NEW w \in Workers, Proceed(w), NEW id \in DOMAIN stored'
  PROVE  \/ id \in DOMAIN stored /\ stored'[id] = stored[id]
         \/ /\ pc[w] = "save"
            /\ stored'[id] = req[w].session
         \/ /\ pc[w] = "extend"
            /\ stored'[id] = Extension(req[w])
<1>1. CASE stored' = stored
  BY <1>1
<1>2. ASSUME NEW s, stored' = Put(req[w].id, s)
      PROVE  \/ id \in DOMAIN stored /\ stored'[id] = stored[id]
             \/ stored'[id] = s
  BY <1>2 DEF Put
<1>3. \/ stored' = stored
      \/ pc[w] = "save" /\ stored' = Put(req[w].id, req[w].session)
      \/ pc[w] = "extend" /\ stored' = Put(req[w].id, Extension(req[w]))
  BY DEF Proceed, Load, LoadConfig, LoadFails, Get, GetFails, Admit, Reject, Run,
         Save, SaveFails, Extend, ExtendFails
<1> QED
  BY <1>1, <1>2, <1>3

(* What a request takes with it counts from no time that is to come.       *)
LEMMA TakesInTime ==
  ASSUME TypeInv, LifetimeInv, NEW w \in Workers, Proceed(w)
  PROVE  \A v \in Workers :
            /\ req'[v].now <= clock
            /\ req'[v].session.expires <= clock + req'[v].session.given
            /\ pc'[v] \in {"run", "save", "extend"} =>
                 req'[v].session.expires
                     <= req'[v].now + req'[v].session.given
<1> DEFINE InTime(v) ==
            /\ req'[v].now <= clock
            /\ req'[v].session.expires <= clock + req'[v].session.given
            /\ pc'[v] \in {"run", "save", "extend"} =>
                 req'[v].session.expires
                     <= req'[v].now + req'[v].session.given
<1> SUFFICES ASSUME NEW v \in Workers
             PROVE  InTime(v)
  OBVIOUS
<1>t. /\ clock \in Nat /\ NoExpiry = 0
      /\ req \in [Workers -> Requests] /\ pc \in [Workers -> Places]
      /\ Idle.now = 0 /\ Idle.session = NoSession
      /\ NoSession.expires = NoExpiry /\ NoSession.given = 0
  BY ServiceAssumption DEF TypeInv, TypeOK, NoExpiry, Idle, NoSession
<1>1. CASE /\ req'[v] = req[v]
           /\ pc'[v] \in {"run", "save", "extend"} =>
                pc[v] \in {"run", "save", "extend"}
  BY <1>1 DEF LifetimeInv
<1>2. CASE req'[v] = Idle /\ pc'[v] = "idle"
  BY <1>2, <1>t
<1>3. CASE v = w /\ (Load(w) \/ LoadConfig(w))
  <2>1. /\ req'[w].now = req[w].now /\ req'[w].session = req[w].session
        /\ pc'[w] \in {"config", "get"}
    <3>1. CASE Load(w)
      BY <1>t, <3>1 DEF Load, Goto, Requests
    <3>2. CASE LoadConfig(w)
      BY <1>t, <3>2 DEF LoadConfig, Goto, Requests
    <3> QED
      BY <1>3, <3>1, <3>2
  <2> QED
    BY <1>3, <2>1 DEF LifetimeInv
<1>4. CASE v = w /\ Get(w)
  <2>1. /\ req'[w].now = req[w].now /\ req'[w].session = LookUp(req[w])
        /\ pc'[w] = "admit"
    BY <1>4, <1>t DEF Get, Goto, Requests
  <2>2. LookUp(req[w]).expires <= clock + LookUp(req[w]).given
    <3>1. CASE Found(req[w].id)
      BY <3>1 DEF LookUp, Found, LifetimeInv, LifetimeBounded
    <3>2. CASE ~Found(req[w].id)
      <4>1. LookUp(req[w]) = Created(req[w].machine)
        BY <3>2 DEF LookUp
      <4>2. /\ Created(req[w].machine).expires = 0
            /\ Created(req[w].machine).given = 0
        BY DEF Created, NoSession, NoExpiry
      <4> QED
        BY <1>t, <4>1, <4>2
    <3> QED
      BY <3>1, <3>2
  <2> QED
    BY <1>4, <2>1, <2>2 DEF LifetimeInv
<1>5. CASE v = w /\ Admit(w)
  <2>1. req'[w].now = clock /\ req'[w].session = req[w].session
    BY <1>5, <1>t DEF Admit, Requests
  <2> QED
    BY <1>5, <1>t, <2>1 DEF LifetimeInv
<1>6. CASE v = w /\ Run(w)
  <2>1. PICK o : req' = [req EXCEPT ![w].session.state = o.state,
                                    ![w].err = o.err]
    BY <1>6 DEF Run
  <2>2. /\ req'[w].now = req[w].now
        /\ req'[w].session.expires = req[w].session.expires
        /\ req'[w].session.given = req[w].session.given
        /\ pc[w] = "run"
    BY <1>6, <1>t, <2>1 DEF Run, Requests, TypeInv, TypeOK, Session
  <2> QED
    BY <1>6, <2>2 DEF LifetimeInv
<1>7. CASE v # w
  <2>1. req'[v] = req[v] /\ pc'[v] = pc[v]
    BY <1>7, <1>t
    DEF Proceed, Load, LoadConfig, LoadFails, Get, GetFails, Admit, Reject,
        Run, Save, SaveFails, Extend, ExtendFails, Answer, Goto
  <2> QED
    BY <1>1, <2>1
<1>8. CASE v = w /\ (LoadFails(w) \/ GetFails(w) \/ Reject(w) \/ Save(w)
                      \/ SaveFails(w) \/ Extend(w) \/ ExtendFails(w))
  <2>1. \/ req'[w] = Idle /\ pc'[w] = "idle"
        \/ req'[w] = req[w] /\ pc[w] = "save"
    BY <1>8, <1>t
    DEF LoadFails, GetFails, Reject, Save, SaveFails, Extend, ExtendFails,
        Answer, Goto
  <2> QED
    BY <1>1, <1>2, <1>8, <2>1
<1> QED
  BY <1>3, <1>4, <1>5, <1>6, <1>7, <1>8 DEF Proceed

(* Every action keeps the bound on lifetimes.                              *)
LEMMA LifetimeStep == TypeInv /\ LifetimeInv /\ [Next]_vars => LifetimeInv'
<1> SUFFICES ASSUME TypeInv, LifetimeInv, [Next]_vars
             PROVE  LifetimeInv'
  OBVIOUS
<1>t. /\ clock \in Nat /\ NoExpiry = 0
      /\ req \in [Workers -> Requests] /\ pc \in [Workers -> Places]
      /\ Idle.now = 0 /\ Idle.session = NoSession
      /\ NoSession.expires = NoExpiry /\ NoSession.given = 0
  BY ServiceAssumption DEF TypeInv, TypeOK, NoExpiry, Idle, NoSession
<1>1. ASSUME NEW w \in Workers, Proceed(w)
      PROVE  LifetimeInv'
  <2>1. clock' = clock
    BY <1>1
    DEF Proceed, Load, LoadConfig, LoadFails, Get, GetFails, Admit, Reject,
        Run, Save, SaveFails, Extend, ExtendFails
  <2>2. ASSUME NEW id \in DOMAIN stored'
        PROVE  stored'[id].expires <= clock + stored'[id].given
    <3>1. CASE id \in DOMAIN stored /\ stored'[id] = stored[id]
      BY <3>1 DEF LifetimeInv, LifetimeBounded
    <3>2. CASE stored'[id] = req[w].session
      BY <3>2 DEF LifetimeInv
    <3>3. CASE pc[w] = "extend" /\ stored'[id] = Extension(req[w])
      <4>1. /\ Extension(req[w]).expires = req[w].now + req[w].ttl
            /\ Extension(req[w]).given = req[w].ttl
        BY <3>3, ExtensionType DEF TypeInv, TypeOK
      <4>2. /\ req[w].now \in Int /\ req[w].ttl \in Int
            /\ req[w].now <= clock
        BY <1>t, RequestNumbers DEF LifetimeInv
      <4> QED
        BY <1>t, <3>3, <4>1, <4>2
    <3> QED
      BY <1>1, <2>2, <3>1, <3>2, <3>3, StoresItsSession DEF TypeInv
  <2> QED
    BY <1>1, <2>1, <2>2, TakesInTime DEF LifetimeInv, LifetimeBounded
<1>2. ASSUME NEW w \in Workers, Receive(w)
      PROVE  LifetimeInv'
  <2>1. PICK id \in SessionIDs : req' = [req EXCEPT ![w] =
                                            [Idle EXCEPT !.id = id]]
    BY <1>2 DEF Receive
  <2>2. /\ [Idle EXCEPT !.id = id].now = 0
        /\ [Idle EXCEPT !.id = id].session = NoSession
    BY <1>t DEF Idle
  <2>3. /\ req'[w].now = 0 /\ req'[w].session = NoSession
        /\ pc'[w] = "load" /\ UNCHANGED <<clock, stored>>
        /\ \A v \in Workers \ {w} : req'[v] = req[v] /\ pc'[v] = pc[v]
    BY <1>2, <1>t, <2>1, <2>2 DEF Receive, Goto
  <2> QED
    BY <1>t, <2>3 DEF LifetimeInv, LifetimeBounded
<1>3. CASE Tick
  <2>1. \A id \in DOMAIN stored :
           stored[id].expires \in Int /\ stored[id].given \in Int
    BY LifetimeType DEF TypeInv, TypeOK, Session
  <2>2. \A w \in Workers :
           /\ req[w].now \in Int
           /\ req[w].session.expires \in Int /\ req[w].session.given \in Int
    BY <1>t, RequestNumbers
  <2> QED
    BY <1>3, <1>t, <2>1, <2>2 DEF Tick, LifetimeInv, LifetimeBounded
<1>4. CASE DeleteExpired
  BY <1>4 DEF DeleteExpired, LifetimeInv, LifetimeBounded
<1>5. CASE Restart
  BY <1>5, <1>t DEF Restart, LifetimeInv, LifetimeBounded
<1>6. CASE UNCHANGED vars
  BY <1>6 DEF vars, LifetimeInv, LifetimeBounded
<1> QED
  BY <1>1, <1>2, <1>3, <1>4, <1>5, <1>6 DEF Next

(* At first nothing is stored and no request is under way.                 *)
LEMMA LifetimeInit == Init => LifetimeInv
  BY ServiceAssumption
  DEF Init, LifetimeInv, LifetimeBounded, Idle, NoSession, NoExpiry

(* No session is kept for longer than one lifetime from now - the one its  *)
(* expiry was set with - for any number of requests at once, any order of  *)
(* their upserts and any edits of the runtime file.                        *)
THEOREM LifetimesBounded == Spec => []LifetimeBounded
<1>1. LifetimeInv => LifetimeBounded
  BY DEF LifetimeInv
<1> QED
  BY <1>1, LifetimeInit, LifetimeStep, TypesHold, PTL DEF Spec

-----------------------------------------------------------------------------
(* Conversations.  No two requests of a patient client are under way.      *)

Serial ==
    \A w, v \in Workers :
        /\ pc[w] # "idle" /\ pc[v] # "idle"
        /\ req[w].id = req[v].id /\ req[w].id \in patient
        => w = v

Holds(id, s) == id \in DOMAIN stored => stored[id] = s

(* What a request knows of the store: a session that was not there still   *)
(* is not, and one that was is as the request read it, or gone.            *)
Current(w) ==
    LET r == req[w]
    IN  /\ pc[w] \in {"admit", "run", "save"} /\ r.fresh =>
             r.id \notin DOMAIN stored
        /\ pc[w] \in {"admit", "run"} /\ ~r.fresh => Holds(r.id, r.session)
        /\ pc[w] = "save" /\ ~r.fresh /\ r.id \in DOMAIN stored =>
             /\ stored[r.id].expires = r.session.expires
             /\ stored[r.id].given = r.session.given
             /\ IsExit(stored[r.id].state) => IsExit(r.session.state)
        /\ pc[w] = "extend" => Holds(r.id, r.session)

(* A request runs from what its client was told.                           *)
Resumes(w) ==
    LET r == req[w]  k == known[r.id]
    IN  pc[w] \in {"admit", "run"} =>
          /\ k.told = "nothing" => r.fresh
          /\ k.told = "session" =>
               \/ r.session = k.session
               \/ /\ r.fresh /\ k.session.expires # NoExpiry
                  /\ k.session.expires <= (IF pc[w] = "run" THEN r.now
                                                            ELSE clock)

(* What a client was told is what is stored, unless it has been removed or *)
(* a request of it has just saved.                                         *)
OnFile(id) ==
    LET k == known[id]
    IN  (\A w \in Workers : pc[w] = "extend" => req[w].id # id) =>
          /\ k.told = "nothing" => id \notin DOMAIN stored
          /\ k.told = "session" =>
               \/ id \in DOMAIN stored /\ stored[id] = k.session
               \/ /\ id \notin DOMAIN stored /\ k.session.expires # NoExpiry
                  /\ k.session.expires <= clock

RequestInv(w) == req[w].id \in patient => Current(w) /\ Resumes(w)
SessionInv(id) == id \in patient => OnFile(id)

SerialInv ==
    /\ TypeInv
    /\ LifetimeInv
    /\ Serial
    /\ \A w \in Workers : RequestInv(w)
    /\ \A id \in SessionIDs : SessionInv(id)

(* An action of a request concerns that request and its session.           *)
LEMMA Frame ==
  ASSUME TypeInv, NEW w \in Workers, Proceed(w)
  PROVE  /\ pc[w] # "idle" /\ req[w].id \in SessionIDs
         /\ pc'[w] # "idle" => req'[w].id = req[w].id
         /\ \A v \in Workers \ {w} : pc'[v] = pc[v] /\ req'[v] = req[v]
         /\ \A id \in SessionIDs \ {req[w].id} :
              /\ id \in DOMAIN stored' <=> id \in DOMAIN stored
              /\ id \in DOMAIN stored => stored'[id] = stored[id]
              /\ known'[id] = known[id]
         /\ UNCHANGED <<clock, patient>>
<1> USE DEF TypeInv, Goto, Answer
<1>t. /\ req \in [Workers -> Requests] /\ pc \in [Workers -> Places]
      /\ req[w] \in Requests /\ req[w].id \in SessionIDs
      /\ known \in [SessionIDs ->
                      [told : {"nothing", "session", "uncertain"},
                       session : Session \cup {NoSession}]]
  BY DEF TypeOK, Requests
<1>1. CASE Load(w) \/ LoadConfig(w) \/ Get(w) \/ Admit(w) \/ Run(w)
  <2>1. req'[w].id = req[w].id
    <3>1. CASE Load(w)
      BY <1>t, <3>1 DEF Load, Requests
    <3>c. CASE LoadConfig(w)
      BY <1>t, <3>c DEF LoadConfig, Requests
    <3>2. CASE Get(w)
      BY <1>t, <3>2 DEF Get, Requests
    <3>3. CASE Admit(w)
      BY <1>t, <3>3 DEF Admit, Requests
    <3>4. CASE Run(w)
      BY <1>t, <3>4 DEF Run, Requests
    <3> QED
      BY <1>1, <3>1, <3>c, <3>2, <3>3, <3>4
  <2>2. /\ pc[w] # "idle" /\ UNCHANGED <<clock, stored, patient, known>>
        /\ \A v \in Workers \ {w} : pc'[v] = pc[v] /\ req'[v] = req[v]
    BY <1>t, <1>1 DEF Load, LoadConfig, Get, Admit, Run
  <2> QED
    BY <1>t, <2>1, <2>2
<1>2. CASE LoadFails(w) \/ GetFails(w) \/ Reject(w)
  BY <1>t, <1>2 DEF LoadFails, GetFails, Reject
<1>3. CASE Save(w) \/ SaveFails(w) \/ Extend(w) \/ ExtendFails(w)
  <2>1. /\ pc[w] # "idle"
        /\ pc'[w] # "idle" => req'[w].id = req[w].id
        /\ \A v \in Workers \ {w} : pc'[v] = pc[v] /\ req'[v] = req[v]
        /\ \A id \in SessionIDs \ {req[w].id} : known'[id] = known[id]
        /\ UNCHANGED <<clock, patient>>
    BY <1>t, <1>3 DEF Save, SaveFails, Extend, ExtendFails
  <2>2. \E s \in {req[w].session, Extension(req[w])} :
           stored' = stored \/ stored' = Put(req[w].id, s)
    BY <1>3 DEF Save, SaveFails, Extend, ExtendFails
  <2>3. \A id \in SessionIDs \ {req[w].id} :
           /\ id \in DOMAIN stored' <=> id \in DOMAIN stored
           /\ id \in DOMAIN stored => stored'[id] = stored[id]
    BY <2>2 DEF Put
  <2> QED
    BY <1>t, <2>1, <2>3
<1> QED
  BY <1>1, <1>2, <1>3 DEF Proceed

(* So the others are not affected, ...                                     *)
LEMMA OthersKeep ==
  ASSUME SerialInv, NEW w \in Workers, Proceed(w)
  PROVE  /\ Serial'
         /\ \A v \in Workers \ {w} : RequestInv(v)'
         /\ \A id \in SessionIDs \ {req[w].id} : SessionInv(id)'
<1> USE DEF SerialInv
<1>1. Serial'
  BY Frame DEF Serial
<1>2. ASSUME NEW v \in Workers \ {w}
      PROVE  RequestInv(v)'
  <2>1. CASE pc[v] = "idle" \/ req[v].id \notin patient
    BY <2>1, Frame DEF RequestInv, Current, Resumes
  <2>2. CASE pc[v] # "idle" /\ req[v].id \in patient
    <3>1. req[v].id \in SessionIDs \ {req[w].id}
      BY <2>2, Frame DEF Serial, TypeInv, TypeOK, Requests
    <3>2. /\ pc'[v] = pc[v] /\ req'[v] = req[v] /\ clock' = clock
          /\ known'[req[v].id] = known[req[v].id] /\ patient' = patient
          /\ req[v].id \in DOMAIN stored' <=> req[v].id \in DOMAIN stored
          /\ req[v].id \in DOMAIN stored =>
               stored'[req[v].id] = stored[req[v].id]
      BY <3>1, Frame
    <3> QED
      BY <3>2 DEF RequestInv, Current, Resumes, Holds
  <2> QED
    BY <2>1, <2>2
<1>3. ASSUME NEW id \in SessionIDs \ {req[w].id}
      PROVE  SessionInv(id)'
  <2>1. /\ id \in DOMAIN stored' <=> id \in DOMAIN stored
        /\ id \in DOMAIN stored => stored'[id] = stored[id]
        /\ known'[id] = known[id] /\ clock' = clock /\ patient' = patient
        /\ pc[w] # "idle"
    BY Frame
  <2>2. (\A v \in Workers : pc'[v] = "extend" => req'[v].id # id) =>
          \A v \in Workers : pc[v] = "extend" => req[v].id # id
    BY Frame
  <2> QED
    BY <2>1, <2>2 DEF SessionInv, OnFile
<1> QED
  BY <1>1, <1>2, <1>3

(* ... and nothing is kept of a request that has ended.                    *)
LEMMA EndedKeeps ==
  ASSUME NEW w \in Workers, pc'[w] = "idle"
  PROVE  RequestInv(w)'
  BY DEF RequestInv, Current, Resumes

(* A request that reads, is checked or runs keeps its own part.            *)
LEMMA ReaderKeeps ==
  ASSUME SerialInv, NEW w \in Workers, NEW id \in SessionIDs, id = req[w].id,
         Load(w) \/ LoadConfig(w) \/ Get(w) \/ Admit(w) \/ Run(w)
  PROVE  RequestInv(w)' /\ SessionInv(id)'
<1> USE DEF SerialInv
<1>t. /\ req \in [Workers -> Requests] /\ pc \in [Workers -> Places]
      /\ req[w] \in Requests /\ clock \in Nat
      /\ UNCHANGED <<clock, stored, patient, known>>
  BY ServiceAssumption
  DEF TypeInv, TypeOK, Load, LoadConfig, Get, Admit, Run
<1>s. SessionInv(id)'
  <2>1. pc[w] # "extend"
    BY DEF Load, LoadConfig, Get, Admit, Run
  <2>2. (\A v \in Workers : pc'[v] = "extend" => req'[v].id # id) =>
          \A v \in Workers : pc[v] = "extend" => req[v].id # id
    BY <2>1, Frame DEF Proceed
  <2> QED
    BY <1>t, <2>2 DEF SessionInv, OnFile
<1>1. CASE Load(w) \/ LoadConfig(w)
  <2>1. pc'[w] \in {"config", "get"}
    BY <1>1, <1>t DEF Load, LoadConfig, Goto
  <2> QED
    BY <1>s, <2>1 DEF RequestInv, Current, Resumes
<1>2. CASE Get(w)
  <2> DEFINE r == req'[w]
  <2>1. /\ pc'[w] = "admit" /\ pc[w] = "get"
        /\ r.id = id /\ r.session = LookUp(req[w]) /\ r.fresh = ~Found(id)
    BY <1>2, <1>t DEF Get, Goto, Requests
  <2>2. id \in patient => \A v \in Workers : pc[v] = "extend" => req[v].id # id
    BY <2>1 DEF Serial
  <2>3. /\ id \in DOMAIN stored => r.session = stored[id] /\ ~r.fresh
        /\ id \notin DOMAIN stored => r.fresh
    BY <2>1 DEF LookUp, Found
  <2>4. SessionInv(id)
    OBVIOUS
  <2>5. Current(w)'
    BY <1>t, <2>1, <2>3 DEF Current, Holds
  <2>6. id \in patient => Resumes(w)'
    BY <1>t, <2>1, <2>2, <2>3, <2>4 DEF Resumes, SessionInv, OnFile
  <2> QED
    BY <1>s, <1>t, <2>1, <2>5, <2>6 DEF RequestInv
<1>3. CASE Admit(w)
  <2> DEFINE r == req'[w]
  <2>1. /\ pc'[w] = "run" /\ pc[w] = "admit" /\ r.id = id /\ r.now = clock
        /\ r.session = req[w].session /\ r.fresh = req[w].fresh
    BY <1>3, <1>t DEF Admit, Goto, Requests
  <2>2. RequestInv(w)
    OBVIOUS
  <2> QED
    BY <1>s, <1>t, <2>1, <2>2 DEF RequestInv, Current, Resumes, Holds
<1>4. CASE Run(w)
  <2> DEFINE r == req'[w]
  <2>1. PICK o \in Steps(req[w].machine, req[w].session.state) :
          req' = [req EXCEPT ![w].session.state = o.state, ![w].err = o.err]
    BY <1>4 DEF Run
  <2>2. /\ pc'[w] = "save" /\ pc[w] = "run" /\ r.id = id
        /\ r.session.state = o.state
        /\ r.session.expires = req[w].session.expires
        /\ r.session.given = req[w].session.given
        /\ r.now = req[w].now /\ r.fresh = req[w].fresh
    BY <1>4, <1>t, <2>1 DEF Run, Goto, Requests, TypeInv, TypeOK, Session
  <2>3. IsExit(req[w].session.state) => IsExit(r.session.state)
    <3>1. /\ IsStateMachine(req[w].machine) /\ Validate(req[w].machine)
          /\ req[w].session.state \in StateNames \ {NoName}
      BY <1>4, ServiceAssumption
      DEF Run, TypeInv, MachineInv, TypeOK, Requests, Session
    <3> QED
      BY <2>2, <3>1, StepsOutcome
  <2>4. RequestInv(w)
    OBVIOUS
  <2> QED
    BY <1>s, <1>t, <2>2, <2>3, <2>4
    DEF RequestInv, Current, Resumes, Holds
<1> QED
  BY <1>1, <1>2, <1>3, <1>4

(* What a request that writes has at hand.                                 *)
LEMMA WriterHas ==
  ASSUME TypeInv, LifetimeInv, NEW w \in Workers, pc[w] \in {"save", "extend"}
  PROVE  /\ req[w].session \in Session /\ Extension(req[w]) \in Session
         /\ req[w].id \in SessionIDs
         /\ req[w].session.expires - req[w].session.given
              <= Extension(req[w]).expires - Extension(req[w]).given
         /\ Extension(req[w]).state = req[w].session.state
<1>1. req[w] \in Requests /\ req[w].session \in Session
  BY DEF TypeInv, TypeOK
<1>2. /\ Extension(req[w]) \in Session
      /\ Extension(req[w]).expires = req[w].now + req[w].ttl
      /\ Extension(req[w]).given = req[w].ttl
      /\ Extension(req[w]).state = req[w].session.state
  BY <1>1, ExtensionType
<1>3. req[w].session.expires <= req[w].now + req[w].session.given
  BY DEF LifetimeInv
<1>4. /\ req[w].now \in Int /\ req[w].ttl \in Int
      /\ req[w].session.expires \in Int /\ req[w].session.given \in Int
  BY <1>1, RequestNumbers
<1>5. req[w].id \in SessionIDs
  BY <1>1 DEF Requests
<1> QED
  BY <1>1, <1>2, <1>3, <1>4, <1>5

(* A request that writes or gives up keeps its own part.                   *)
LEMMA WriterKeeps ==
  ASSUME SerialInv, NEW w \in Workers, NEW id \in SessionIDs, id = req[w].id,
         \/ LoadFails(w) \/ GetFails(w) \/ Reject(w)
         \/ Save(w) \/ SaveFails(w) \/ Extend(w) \/ ExtendFails(w)
  PROVE  RequestInv(w)' /\ SessionInv(id)'
<1> USE DEF SerialInv
<1>t. /\ req \in [Workers -> Requests] /\ pc \in [Workers -> Places]
      /\ known \in [SessionIDs ->
                      [told : {"nothing", "session", "uncertain"},
                       session : Session \cup {NoSession}]]
      /\ UNCHANGED <<clock, patient>>
  BY DEF TypeInv, TypeOK, LoadFails, GetFails, Reject, Save, SaveFails, Extend,
         ExtendFails
<1>1. CASE LoadFails(w) \/ GetFails(w) \/ Reject(w)
  <2>1. /\ pc'[w] = "idle" /\ UNCHANGED stored /\ known'[id] = known[id]
        /\ pc[w] # "extend"
    BY <1>t, <1>1 DEF LoadFails, GetFails, Reject, Answer, Goto, Unmoved
  <2>2. (\A v \in Workers : pc'[v] = "extend" => req'[v].id # id) =>
          \A v \in Workers : pc[v] = "extend" => req[v].id # id
    BY <1>1, <2>1, Frame DEF Proceed
  <2> QED
    BY <1>t, <2>1, <2>2, EndedKeeps DEF SessionInv, OnFile
<1>2. CASE Save(w) /\ ~req[w].err
  <2>1. /\ pc'[w] = "extend" /\ req'[w] = req[w]
        /\ stored' = Put(id, req[w].session) /\ pc[w] = "save"
    BY <1>t, <1>2 DEF Save, Goto
  <2>2. stored'[id] = req[w].session
    <3>1. req[w].session \in Session
      BY <2>1, WriterHas
    <3>2. Put(id, req[w].session)[id] = req[w].session
      BY <3>1, PutOne DEF TypeInv
    <3> QED
      BY <2>1, <3>2
  <2>3. SessionInv(id)'
    BY <2>1 DEF SessionInv, OnFile
  <2>4. RequestInv(w)'
    BY <1>t, <2>1, <2>2 DEF RequestInv, Current, Resumes, Holds
  <2> QED
    BY <2>3, <2>4
<1>3. ASSUME NEW s \in {req[w].session, Extension(req[w])},
             stored' = Put(id, s), Answer(w, Told(s)),
             pc[w] \in {"save", "extend"}
      PROVE  RequestInv(w)' /\ SessionInv(id)'
  <2>1. stored'[id] = s /\ id \in DOMAIN stored'
    <3>1. s \in Session
      BY <1>3, WriterHas
    <3>2. Put(id, s)[id] = s /\ DOMAIN Put(id, s) = DOMAIN stored \cup {id}
      BY <3>1, PutOne DEF TypeInv
    <3> QED
      BY <1>3, <3>1, <3>2
  <2>2. /\ pc'[w] = "idle"
        /\ id \in patient => known'[id] = Told(s)
    BY <1>t, <1>3 DEF Answer, Goto
  <2> QED
    BY <1>t, <2>1, <2>2, EndedKeeps DEF SessionInv, OnFile, Told
<1>4. CASE SaveFails(w) \/ ExtendFails(w)
  <2>1. /\ pc'[w] = "idle"
        /\ id \in patient => known'[id].told = "uncertain"
    BY <1>t, <1>4 DEF SaveFails, ExtendFails, Answer, Goto, Uncertain
  <2> QED
    BY <1>t, <2>1, EndedKeeps DEF SessionInv, OnFile
<1> QED
  BY <1>1, <1>2, <1>3, <1>4 DEF Save, Extend

(* A request that begins, ...                                              *)
LEMMA ReceiveKeeps ==
  ASSUME SerialInv, NEW w \in Workers, Receive(w)
  PROVE  /\ Serial'
         /\ \A v \in Workers : RequestInv(v)'
         /\ \A id \in SessionIDs : SessionInv(id)'
<1> USE DEF SerialInv
<1>1. PICK id \in SessionIDs :
        /\ id \in patient => InFlight(id) = {}
        /\ req' = [req EXCEPT ![w] = [Idle EXCEPT !.id = id]]
  BY DEF Receive
<1>2. /\ pc[w] = "idle" /\ pc' = [pc EXCEPT ![w] = "load"]
      /\ UNCHANGED <<clock, stored, patient, known>>
  BY DEF Receive, Goto
<1>3. /\ pc'[w] = "load" /\ req'[w].id = id
      /\ \A v \in Workers \ {w} : pc'[v] = pc[v] /\ req'[v] = req[v]
  BY <1>1, <1>2 DEF TypeInv, TypeOK, Idle
<1>4. Serial'
  <2>1. ASSUME NEW v \in Workers \ {w}, pc'[v] # "idle", id \in patient
        PROVE  req'[v].id # id
    BY <1>1, <1>3, <2>1 DEF InFlight
  <2> QED
    BY <1>2, <1>3, <2>1 DEF Serial
<1>5. ASSUME NEW v \in Workers
      PROVE  RequestInv(v)'
  BY <1>2, <1>3 DEF RequestInv, Current, Resumes, Holds
<1>6. ASSUME NEW x \in SessionIDs
      PROVE  SessionInv(x)'
  <2>1. (\A v \in Workers : pc'[v] = "extend" => req'[v].id # x) =>
          \A v \in Workers : pc[v] = "extend" => req[v].id # x
    BY <1>2, <1>3
  <2> QED
    BY <1>2, <2>1 DEF SessionInv, OnFile
<1> QED
  BY <1>4, <1>5, <1>6

(* ... the clock ...                                                       *)
LEMMA WorldKeeps ==
  ASSUME SerialInv, Tick \/ UNCHANGED vars
  PROVE  /\ Serial'
         /\ \A v \in Workers : RequestInv(v)'
         /\ \A id \in SessionIDs : SessionInv(id)'
<1> USE DEF SerialInv
<1>1. /\ UNCHANGED <<stored, pc, req, patient, known>>
      /\ clock \in Int /\ clock' \in Int /\ clock <= clock'
  BY ServiceAssumption DEF Tick, vars, TypeInv, TypeOK
<1>2. Serial'
  BY <1>1 DEF Serial
<1>3. ASSUME NEW v \in Workers
      PROVE  RequestInv(v)'
  <2>1. req[v] \in Requests /\ known[req[v].id].session.expires \in Int
    BY DEF TypeInv, TypeOK, Requests, Session, NoSession, NoExpiry
  <2>2. RequestInv(v)
    OBVIOUS
  <2>3. req[v].id \in patient => Current(v)'
    BY <1>1, <2>2 DEF RequestInv, Current, Holds
  <2>4. req[v].id \in patient => Resumes(v)'
    BY <1>1, <2>1, <2>2 DEF RequestInv, Resumes
  <2> QED
    BY <1>1, <2>3, <2>4 DEF RequestInv
<1>4. ASSUME NEW id \in SessionIDs
      PROVE  SessionInv(id)'
  <2>1. known[id].session.expires \in Int
    BY DEF TypeInv, TypeOK, Session, NoSession, NoExpiry
  <2>2. SessionInv(id)
    OBVIOUS
  <2> QED
    BY <1>1, <2>1, <2>2 DEF SessionInv, OnFile
<1> QED
  BY <1>2, <1>3, <1>4

(* ... the removal of expired sessions ...                                 *)
LEMMA DeleteKeeps ==
  ASSUME SerialInv, DeleteExpired
  PROVE  /\ Serial'
         /\ \A v \in Workers : RequestInv(v)'
         /\ \A id \in SessionIDs : SessionInv(id)'
<1> USE DEF SerialInv
<1>1. /\ UNCHANGED <<clock, pc, req, patient, known>>
      /\ \A id \in DOMAIN stored' :
           id \in DOMAIN stored /\ stored'[id] = stored[id]
      /\ \A id \in DOMAIN stored \ DOMAIN stored' :
           stored[id].expires # NoExpiry /\ stored[id].expires <= clock
  BY DEF DeleteExpired, Removable
<1>2. Serial'
  BY <1>1 DEF Serial
<1>3. ASSUME NEW v \in Workers
      PROVE  RequestInv(v)'
  <2>1. RequestInv(v)
    OBVIOUS
  <2> QED
    BY <1>1, <2>1 DEF RequestInv, Current, Resumes, Holds
<1>4. ASSUME NEW id \in SessionIDs
      PROVE  SessionInv(id)'
  <2>1. SessionInv(id)
    OBVIOUS
  <2> QED
    BY <1>1, <2>1 DEF SessionInv, OnFile
<1> QED
  BY <1>2, <1>3, <1>4

(* ... and a restart keep it too.                                          *)
LEMMA RestartKeeps ==
  ASSUME SerialInv, Restart
  PROVE  /\ Serial'
         /\ \A v \in Workers : RequestInv(v)'
         /\ \A id \in SessionIDs : SessionInv(id)'
<1> USE DEF SerialInv
<1>1. /\ \A v \in Workers : pc'[v] = "idle"
      /\ UNCHANGED <<clock, stored, patient>>
  BY DEF Restart
<1>2. Serial' /\ \A v \in Workers : RequestInv(v)'
  BY <1>1, EndedKeeps DEF Serial
<1>3. ASSUME NEW id \in SessionIDs
      PROVE  SessionInv(id)'
  <2>1. CASE id \in patient /\ \E w \in InFlight(id) : pc[w] = "extend"
    <3>1. known'[id].told = "uncertain"
      BY <2>1 DEF Restart, Uncertain
    <3> QED
      BY <1>1, <3>1 DEF SessionInv, OnFile
  <2>2. CASE id \in patient /\ ~\E w \in InFlight(id) : pc[w] = "extend"
    <3>1. /\ known'[id] = known[id]
          /\ \A v \in Workers : pc[v] = "extend" => req[v].id # id
      BY <2>2 DEF Restart, InFlight
    <3> QED
      BY <1>1, <3>1 DEF SessionInv, OnFile
  <2> QED
    BY <1>1, <2>1, <2>2 DEF SessionInv
<1> QED
  BY <1>2, <1>3

(* The invariant holds at first, and every action keeps it.                *)
LEMMA SerialInit == Init => SerialInv
<1> SUFFICES ASSUME Init PROVE SerialInv
  OBVIOUS
<1>1. /\ \A w \in Workers : pc[w] = "idle"
      /\ DOMAIN stored = {}
      /\ \A id \in SessionIDs : known[id] = Nothing
  BY DEF Init
<1>2. /\ Serial
      /\ \A w \in Workers : RequestInv(w)
      /\ \A id \in SessionIDs : SessionInv(id)
  BY <1>1 DEF Serial, RequestInv, Current, Resumes, SessionInv, OnFile, Nothing
<1> QED
  BY <1>2, TypeInit, LifetimeInit DEF SerialInv

(* Clients that wait for their answers keep the invariant.                 *)
LEMMA SerialStep == SerialInv /\ [Next]_vars => SerialInv'
<1> SUFFICES ASSUME SerialInv, [Next]_vars
             PROVE  SerialInv'
  OBVIOUS
<1>1. TypeInv' /\ LifetimeInv'
  BY TypeStep, LifetimeStep DEF SerialInv
<1>2. ASSUME NEW w \in Workers, Proceed(w)
      PROVE  SerialInv'
  <2>1. RequestInv(w)'
    <3>1. PICK id \in SessionIDs : id = req[w].id
      BY <1>2, Frame DEF SerialInv
    <3> QED
      BY <1>2, <3>1, ReaderKeeps, WriterKeeps DEF Proceed
  <2>2. ASSUME NEW id \in SessionIDs, id = req[w].id
        PROVE  SessionInv(id)'
    BY <1>2, <2>2, ReaderKeeps, WriterKeeps DEF Proceed
  <2>3. \A v \in Workers : RequestInv(v)'
    BY <1>2, <2>1, OthersKeep
  <2>4. \A id \in SessionIDs : SessionInv(id)'
    BY <1>2, <2>2, OthersKeep
  <2> QED
    BY <1>1, <1>2, <2>3, <2>4, OthersKeep DEF SerialInv
<1>3. ASSUME NEW w \in Workers, Receive(w)
      PROVE  SerialInv'
  BY <1>1, <1>3, ReceiveKeeps DEF SerialInv
<1>4. CASE Tick \/ UNCHANGED vars
  BY <1>1, <1>4, WorldKeeps DEF SerialInv
<1>5. CASE DeleteExpired
  BY <1>1, <1>5, DeleteKeeps DEF SerialInv
<1>6. CASE Restart
  BY <1>1, <1>6, RestartKeeps DEF SerialInv
<1> QED
  BY <1>2, <1>3, <1>4, <1>5, <1>6 DEF Next

(* So it always holds.                                                     *)
LEMMA SerialHolds == Spec => []SerialInv
  BY SerialInit, SerialStep, PTL DEF Spec

(* The conversation of a client that waits for its answers goes on where   *)
(* it was left.                                                            *)
THEOREM ConversationsContinue == Spec => []Continues
<1>1. SerialInv => Continues
  BY DEF SerialInv, RequestInv, Resumes, Continues
<1> QED
  BY <1>1, SerialHolds, PTL

-----------------------------------------------------------------------------
(* What a step does to a stored session.                                   *)
LEMMA StoredStep ==
  ASSUME SerialInv, [Next]_vars,
         NEW id \in patient, id \in DOMAIN stored, id \in DOMAIN stored'
  PROVE  /\ stored'[id].expires - stored'[id].given
              >= stored[id].expires - stored[id].given
         /\ IsExit(stored[id].state) => IsExit(stored'[id].state)
<1> USE DEF SerialInv
<1>t. /\ id \in SessionIDs /\ stored[id] \in Session
      /\ stored[id].expires \in Int /\ stored[id].given \in Int
  BY LifetimeType DEF TypeInv, TypeOK, Session
<1>1. CASE stored'[id] = stored[id]
  BY <1>t, <1>1
<1>2. ASSUME NEW w \in Workers, req[w].id = id, pc[w] \in {"save", "extend"},
             NEW s \in {req[w].session, Extension(req[w])},
             stored' = Put(id, s)
      PROVE  /\ stored'[id].expires - stored'[id].given
                  >= stored[id].expires - stored[id].given
             /\ IsExit(stored[id].state) => IsExit(stored'[id].state)
  <2>1. /\ s \in Session /\ s.state = req[w].session.state
        /\ s.expires - s.given
             >= req[w].session.expires - req[w].session.given
    <3>1. req[w].session.expires \in Int /\ req[w].session.given \in Int
      BY RequestNumbers DEF TypeInv, TypeOK
    <3>2. s = req[w].session \/ s = Extension(req[w])
      BY <1>2
    <3>3. Extension(req[w]).expires \in Int /\ Extension(req[w]).given \in Int
      BY <1>2, WriterHas, LifetimeType DEF Session
    <3> QED
      BY <1>2, <3>1, <3>2, <3>3, WriterHas
  <2>2. stored'[id] = s
    <3>1. Put(id, s)[id] = s
      BY <1>t, <2>1, PutOne DEF TypeInv
    <3> QED
      BY <1>2, <3>1
  <2>3. /\ stored[id].expires = req[w].session.expires
        /\ stored[id].given = req[w].session.given
        /\ IsExit(stored[id].state) => IsExit(req[w].session.state)
    BY <1>2 DEF RequestInv, Current, Holds
  <2> QED
    BY <2>1, <2>2, <2>3
<1>3. ASSUME NEW w \in Workers, Proceed(w)
      PROVE  \/ stored'[id] = stored[id]
             \/ /\ req[w].id = id /\ pc[w] \in {"save", "extend"}
                /\ \E s \in {req[w].session, Extension(req[w])} :
                     stored' = Put(id, s)
  <2>1. CASE req[w].id # id
    BY <1>t, <1>3, <2>1, Frame
  <2>2. CASE req[w].id = id
    BY <1>3, <2>2
    DEF Proceed, Load, LoadConfig, LoadFails, Get, GetFails, Admit, Reject,
        Run, Save, SaveFails, Extend, ExtendFails
  <2> QED
    BY <2>1, <2>2
<1>4. ASSUME ~\E w \in Workers : Proceed(w)
      PROVE  stored'[id] = stored[id]
  BY <1>4 DEF Next, Receive, Tick, DeleteExpired, Restart, vars
<1> QED
  BY <1>1, <1>2, <1>3, <1>4

(* The time a stored session's lifetime counts from only ever advances,    *)
(* for a client that waits: its expiry moves back by no more than an edit  *)
(* of the runtime file has shortened the lifetime.                         *)
THEOREM LifetimesAdvance == Spec => ExpiryAdvances
<1>1. SerialInv /\ [Next]_vars =>
        [\A id \in patient \cap DOMAIN stored \cap DOMAIN stored' :
            stored'[id].expires - stored'[id].given
                >= stored[id].expires - stored[id].given]_vars
  BY StoredStep
<1> QED
  BY <1>1, SerialHolds, PTL DEF Spec, ExpiryAdvances

(* A session that has reached an exit state stays in one, for a client     *)
(* that waits.                                                             *)
THEOREM ExitsAreFinal == Spec => ExitIsFinal
<1>1. SerialInv /\ [Next]_vars =>
        [\A id \in patient \cap DOMAIN stored \cap DOMAIN stored' :
            IsExit(stored[id].state) => IsExit(stored'[id].state)]_vars
  BY StoredStep
<1> QED
  BY <1>1, SerialHolds, PTL DEF Spec, ExitIsFinal

=============================================================================
