------------------------------- MODULE Service ------------------------------
(***************************************************************************)
(* internal/app/services.go: ProcessRequest, run by any number of requests *)
(* at once over one session store, beside the clock, the removal of        *)
(* expired sessions and restarts of the process.                           *)
(*                                                                         *)
(* A request is the sequence of its calls to the other parts, one action   *)
(* each: nothing holds a session between them.  The engine's part is one   *)
(* step to any of the outcomes of module EngineContract; the store is the  *)
(* map with atomic operations of module SessionStore, which the file store *)
(* is shown to be (FileStore!Atomic) and the memory store is by its mutex. *)
(* The two configuration files are read anew by every request, and may be  *)
(* edited at any time: a read finds any of the contents they may have.     *)
(* The checks of size, session id and JSON at the head of ProcessRequest   *)
(* answer before anything is read, so a request here has passed them.      *)
(***************************************************************************)
EXTENDS Integers, EngineContract

CONSTANTS
    Workers,         \* the requests that can be under way at the same time
    SessionIDs,
    MachineFiles,    \* what the machine file may hold, valid or not
    RuntimeFiles,    \* what the runtime file may hold: [ttl, maxSteps]
    DefaultMaxAutoAdvances,
    StartTime,       \* what the clock shows first
    MaxTime,         \* bound on the clock
    Faults           \* which of "load", "get", "upsert", "restart" may happen

NoExpiry == 0       \* the zero time.Time

(* A lifetime is a time.Duration, which may be negative and is 292 years   *)
(* at most: no time it is added to comes near the zero time, of the year 1.*)
ASSUME ServiceAssumption ==
    /\ SessionIDs # {} /\ MachineFiles # {}
    /\ \A m \in MachineFiles : IsStateMachine(m)
    /\ RuntimeFiles \subseteq [ttl : Int, maxSteps : Int]
    /\ \A f \in RuntimeFiles : StartTime + f.ttl > NoExpiry
    /\ DefaultMaxAutoAdvances \in Nat \ {0}
    /\ StartTime \in Nat \ {0} /\ MaxTime \in Nat /\ StartTime <= MaxTime
    /\ Faults \subseteq {"load", "get", "upsert", "restart"}

VARIABLES
    clock,
    stored,   \* the session store: a function on the ids it holds
    pc,       \* where each request is
    req,      \* the local variables of each request
    patient,  \* the sessions whose client waits for each answer
    known     \* history: what a patient client was last told

vars == <<clock, stored, pc, req, patient, known>>

-----------------------------------------------------------------------------
(* The lifetimes the runtime file may hold, and none.                      *)
Lifetimes == {0} \cup {f.ttl : f \in RuntimeFiles}

(* given is history: the lifetime with which expires was set, which the    *)
(* program does not keep and no action looks at.                           *)
Session ==
    [state : StateNames \ {NoName}, expires : Int, given : Lifetimes]

NoSession == [state |-> NoName, expires |-> NoExpiry, given |-> 0]

(* The record of a request that is not under way.                          *)
Idle ==
    [id |-> CHOOSE id \in SessionIDs : TRUE,
     machine |-> CHOOSE m \in MachineFiles : TRUE, ttl |-> 0,
     maxSteps |-> 0, session |-> NoSession, fresh |-> FALSE, now |-> 0,
     err |-> FALSE]

Requests ==
    [id : SessionIDs, machine : MachineFiles, ttl : Lifetimes, maxSteps : Int,
     session : Session \cup {NoSession}, fresh : BOOLEAN, now : 0..MaxTime,
     err : BOOLEAN]

Places == {"idle", "load", "config", "get", "admit", "run", "save", "extend"}

(* A client has been told nothing yet, or the session it should find, or   *)
(* was left without an answer that says.                                   *)
Nothing   == [told |-> "nothing", session |-> NoSession]
Uncertain == [told |-> "uncertain", session |-> NoSession]
Told(s)   == [told |-> "session", session |-> s]

TypeOK ==
    /\ clock \in StartTime..MaxTime
    /\ DOMAIN stored \subseteq SessionIDs
    /\ stored \in [DOMAIN stored -> Session]
    /\ pc \in [Workers -> Places]
    /\ req \in [Workers -> Requests]
    /\ \A w \in Workers : pc[w] \in {"admit", "run", "save", "extend"} =>
                             req[w].session \in Session
    /\ patient \subseteq SessionIDs
    /\ known \in [SessionIDs ->
                    [told : {"nothing", "session", "uncertain"},
                     session : Session \cup {NoSession}]]

-----------------------------------------------------------------------------
(* The configuration.  LoadRuntimeConfig builds the engine's part of the   *)
(* result from nothing and then fills in the default; the value of the     *)
(* file is never copied.                                                   *)
LoadRuntimeConfig(f) ==
    LET copied == 0
    IN  [ttl |-> f.ttl,
         maxSteps |-> IF copied <= 0 THEN DefaultMaxAutoAdvances ELSE copied]

(* The two readings of an expiry: ProcessRequest asks whether now is after *)
(* it, DeleteExpired whether it is not after now.                          *)
Expired(s, now)   == s.expires # NoExpiry /\ now > s.expires
Removable(s, now) == s.expires # NoExpiry /\ s.expires <= now

Put(id, s) ==
    [x \in DOMAIN stored \cup {id} |-> IF x = id THEN s ELSE stored[x]]

-----------------------------------------------------------------------------
Init ==
    /\ clock = StartTime
    /\ stored = [x \in {} |-> NoSession]
    /\ pc = [w \in Workers |-> "idle"]
    /\ req = [w \in Workers |-> Idle]
    /\ patient \in SUBSET SessionIDs
    /\ known = [id \in SessionIDs |-> Nothing]

InFlight(id) == {w \in Workers : pc[w] # "idle" /\ req[w].id = id}

Goto(w, place) == pc' = [pc EXCEPT ![w] = place]

(* The request is over, and its client is left with k.                     *)
Answer(w, k) ==
    /\ Goto(w, "idle")
    /\ req' = [req EXCEPT ![w] = Idle]
    /\ known' = [known EXCEPT ![req[w].id] =
                     IF req[w].id \in patient THEN k ELSE @]

Unmoved(w) == known[req[w].id]

Receive(w) ==
    /\ pc[w] = "idle"
    /\ \E id \in SessionIDs :
         /\ id \in patient => InFlight(id) = {}
         /\ req' = [req EXCEPT ![w] = [Idle EXCEPT !.id = id]]
    /\ Goto(w, "load")
    /\ UNCHANGED <<clock, stored, patient, known>>

Load(w) ==
    /\ pc[w] = "load"
    /\ \E m \in MachineFiles :
         Validate(m) /\ req' = [req EXCEPT ![w].machine = m]
    /\ Goto(w, "config")
    /\ UNCHANGED <<clock, stored, patient, known>>

LoadConfig(w) ==
    /\ pc[w] = "config"
    /\ \E f \in RuntimeFiles :
         LET c == LoadRuntimeConfig(f)
         IN  req' = [req EXCEPT ![w].ttl = c.ttl, ![w].maxSteps = c.maxSteps]
    /\ Goto(w, "get")
    /\ UNCHANGED <<clock, stored, patient, known>>

(* Either file may be unreadable or not decode, and the definition that is *)
(* read may not be valid.                                                  *)
LoadFails(w) ==
    /\ \/ pc[w] = "load" /\ \E m \in MachineFiles : ~Validate(m)
       \/ pc[w] \in {"load", "config"} /\ "load" \in Faults
    /\ Answer(w, Unmoved(w))
    /\ UNCHANGED <<clock, stored, patient>>

(* Mutant: a session without an expiry is not recognised. *)
FoundWithExpiry(id) == id \in DOMAIN stored /\ stored[id].expires # NoExpiry

(* Mutant: an expired session is passed over. *)
FoundLive(id) == id \in DOMAIN stored /\ ~Expired(stored[id], clock)

Found(id) == id \in DOMAIN stored

(* Mutant: the new session is given no state. *)
CreatedBlank(m) == NoSession

Created(m) == [NoSession EXCEPT !.state = m.initial]

(* Mutant: the expiry of a stored session is not read back. *)
LookUpState(r) ==
    IF Found(r.id) THEN [stored[r.id] EXCEPT !.expires = NoExpiry]
                   ELSE Created(r.machine)

LookUp(r) == IF Found(r.id) THEN stored[r.id] ELSE Created(r.machine)

Get(w) ==
    /\ pc[w] = "get"
    /\ req' = [req EXCEPT ![w].session = LookUp(req[w]),
                          ![w].fresh = ~Found(req[w].id)]
    /\ Goto(w, "admit")
    /\ UNCHANGED <<clock, stored, patient, known>>

GetFails(w) ==
    /\ "get" \in Faults
    /\ pc[w] = "get"
    /\ Answer(w, Unmoved(w))
    /\ UNCHANGED <<clock, stored, patient>>

Admit(w) ==
    /\ pc[w] = "admit"
    /\ ~Expired(req[w].session, clock)
    /\ req' = [req EXCEPT ![w].now = clock]
    /\ Goto(w, "run")
    /\ UNCHANGED <<clock, stored, patient, known>>

Reject(w) ==
    /\ pc[w] = "admit"
    /\ Expired(req[w].session, clock)
    /\ Answer(w, Unmoved(w))
    /\ UNCHANGED <<clock, stored, patient>>

Run(w) ==
    /\ pc[w] = "run"
    /\ \E o \in Steps(req[w].machine, req[w].session.state) :
         req' = [req EXCEPT ![w].session.state = o.state, ![w].err = o.err]
    /\ Goto(w, "save")
    /\ UNCHANGED <<clock, stored, patient, known>>

(* The session is saved whether or not the engine has reported an error;   *)
(* an error is answered at once, with the state the session is now in.     *)
Save(w) ==
    /\ pc[w] = "save"
    /\ stored' = Put(req[w].id, req[w].session)
    /\ IF req[w].err
       THEN Answer(w, Told(req[w].session))
       ELSE Goto(w, "extend") /\ UNCHANGED <<req, known>>
    /\ UNCHANGED <<clock, patient>>

(* Mutant: each request adds a lifetime to what is left of the last one. *)
ExtensionOfExpiry(r) ==
    [r.session EXCEPT !.expires =
        (IF @ > r.now THEN @ ELSE r.now) + r.ttl, !.given = r.ttl]

Extension(r) == [r.session EXCEPT !.expires = r.now + r.ttl, !.given = r.ttl]

Extend(w) ==
    /\ pc[w] = "extend"
    /\ stored' = Put(req[w].id, Extension(req[w]))
    /\ Answer(w, Told(Extension(req[w])))
    /\ UNCHANGED <<clock, patient>>

(* An upsert that fails may already have replaced the session: the file    *)
(* store can still fail after it has renamed the new file into place.      *)
SaveFails(w) ==
    /\ "upsert" \in Faults
    /\ pc[w] = "save"
    /\ stored' \in {stored, Put(req[w].id, req[w].session)}
    /\ Answer(w, Uncertain)
    /\ UNCHANGED <<clock, patient>>

ExtendFails(w) ==
    /\ "upsert" \in Faults
    /\ pc[w] = "extend"
    /\ stored' \in {stored, Put(req[w].id, Extension(req[w]))}
    /\ Answer(w, Uncertain)
    /\ UNCHANGED <<clock, patient>>

-----------------------------------------------------------------------------
(* The world around the requests.                                          *)

Tick ==
    /\ clock < MaxTime
    /\ clock' = clock + 1
    /\ UNCHANGED <<stored, pc, req, patient, known>>

(* A removal whose context ends part-way has removed some.                 *)
DeleteExpired ==
    /\ \E gone \in SUBSET {x \in DOMAIN stored : Removable(stored[x], clock)} :
         /\ gone # {}
         /\ stored' = [id \in DOMAIN stored \ gone |-> stored[id]]
    /\ UNCHANGED <<clock, pc, req, patient, known>>

(* The process stops and is started again over the same file store.  A     *)
(* client whose request may have been saved has no answer to go by.        *)
Restart ==
    /\ "restart" \in Faults
    /\ \E w \in Workers : pc[w] # "idle"
    /\ known' = [id \in SessionIDs |->
                   IF id \in patient /\ \E w \in InFlight(id) : pc[w] = "extend"
                   THEN Uncertain ELSE known[id]]
    /\ pc' = [w \in Workers |-> "idle"]
    /\ req' = [w \in Workers |-> Idle]
    /\ UNCHANGED <<clock, stored, patient>>

-----------------------------------------------------------------------------
Proceed(w) ==
    \/ Load(w) \/ LoadConfig(w) \/ LoadFails(w)
    \/ Get(w) \/ GetFails(w)
    \/ Admit(w) \/ Reject(w)
    \/ Run(w)
    \/ Save(w) \/ SaveFails(w)
    \/ Extend(w) \/ ExtendFails(w)

Next ==
    \/ \E w \in Workers : Receive(w) \/ Proceed(w)
    \/ Tick \/ DeleteExpired \/ Restart

Spec == Init /\ [][Next]_vars

-----------------------------------------------------------------------------
(* Properties. *)

(* A conversation goes on where it was left: a request runs from the       *)
(* session its client was last told of, or from a new one when that        *)
(* session's lifetime was over; a client that was told of none gets a new  *)
(* one.  This holds for clients that wait for their answers, across        *)
(* failed steps, failing stores, clean-ups, edits and restarts.            *)
Continues ==
    \A w \in Workers :
        LET r == req[w]  k == known[r.id]
        IN  pc[w] = "run" /\ r.id \in patient =>
              /\ k.told = "nothing" => r.fresh
              /\ k.told = "session" =>
                   \/ r.session = k.session
                   \/ /\ r.fresh
                      /\ k.session.expires # NoExpiry
                      /\ k.session.expires <= r.now

(* The time from which the lifetime of a stored session counts only ever   *)
(* advances (services.go 132), for clients that wait: an expiry moves back *)
(* by no more than an edit of the runtime file has shortened the lifetime, *)
(* and what was given once is never lost.                                  *)
ExpiryAdvances ==
    [][\A id \in patient \cap DOMAIN stored \cap DOMAIN stored' :
           stored'[id].expires - stored'[id].given
               >= stored[id].expires - stored[id].given]_vars

(* No session is kept for longer than one lifetime from now - the one the  *)
(* runtime file held when the expiry was set - whatever its clients have   *)
(* asked for and however their requests overlap: a burst of requests does  *)
(* not add up, nor does an older upsert that comes last (services.go 132). *)
LifetimeBounded ==
    \A id \in DOMAIN stored :
        stored[id].expires <= clock + stored[id].given

(* A stored session that has reached an exit state stays in one, for       *)
(* clients that wait: "cannot continue from exit state" (engine.go 104).   *)
ExitIsFinal ==
    [][\A id \in patient \cap DOMAIN stored \cap DOMAIN stored' :
           IsExit(stored[id].state) => IsExit(stored'[id].state)]_vars

-----------------------------------------------------------------------------
(* Statements of the repository's texts that the service does not keep.    *)

(* engine.go 104: "cannot continue from exit state", whatever clients do.  *)
NeverLeavesExit ==
    [][\A id \in DOMAIN stored \cap DOMAIN stored' :
           IsExit(stored[id].state) => IsExit(stored'[id].state)]_vars

(* services.go 131: the expiry is there "for cleanup purposes in case the  *)
(* session is abandoned".  A session no request is working on has one.     *)
AbandonedSessionsExpire ==
    \A id \in DOMAIN stored :
        InFlight(id) = {} => stored[id].expires # NoExpiry

=============================================================================
