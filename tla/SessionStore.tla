---------------------------- MODULE SessionStore ----------------------------
(***************************************************************************)
(* What a session store promises (the SessionStore interface of            *)
(* internal/domain/ports.go, as module Service uses it): it is a map, and  *)
(* every call takes effect on it at one moment between its beginning and   *)
(* its end.  An upsert that reports success survives a power loss; what a  *)
(* power loss takes away was never reported.  DeleteExpired removes        *)
(* nothing but expired sessions, and every session that had expired when   *)
(* it was called.                                                          *)
(***************************************************************************)
EXTENDS StoreCalls

CONSTANTS Callers, NoCall, MaxTime

VARIABLES
    store,      \* the session held under each id, or NoSession
    recent,     \* what a power loss may leave under each id
    clock,
    calls       \* the call each caller has under way, or NoCall

storeVars == <<store, recent, clock, calls>>

-----------------------------------------------------------------------------
Held == {id \in SessionIDs : store[id] # NoSession}

Snapshot == {<<id, store[id]>> : id \in Held}

Init ==
    /\ store = [id \in SessionIDs |-> NoSession]
    /\ recent = [id \in SessionIDs |-> {NoSession}]
    /\ clock = 0
    /\ calls = [c \in Callers |-> NoCall]

Call(c) ==
    /\ calls[c] = NoCall
    /\ \E a \in Arguments : calls' = [calls EXCEPT ![c] = Begun(a, clock)]
    /\ UNCHANGED <<store, recent, clock>>

Pending(c, kind) ==
    calls[c] # NoCall /\ calls[c].kind = kind /\ calls[c].answer = "pending"

Answers(c, answer, found) ==
    calls' = [calls EXCEPT ![c].answer = answer, ![c].found = found]

Get(c) ==
    /\ Pending(c, "get")
    /\ Answers(c, "ok", {p \in Snapshot : p[1] = calls[c].id})
    /\ UNCHANGED <<store, recent, clock>>

Stats(c) ==
    /\ Pending(c, "stats")
    /\ Answers(c, "ok", Snapshot)
    /\ UNCHANGED <<store, recent, clock>>

Upsert(c) ==
    LET call == calls[c]
    IN  /\ Pending(c, "upsert")
        /\ store' = [store EXCEPT ![call.id] = call.session]
        /\ recent' = [recent EXCEPT ![call.id] = @ \cup {call.session}]
        /\ Answers(c, "applied", {})
        /\ UNCHANGED clock

Settle(ids) ==
    recent' = [id \in SessionIDs |-> IF id \in ids THEN {store[id]}
                                                   ELSE recent[id]]

(* Success is reported once nothing older can come back.                   *)
UpsertOk(c) ==
    LET call == calls[c]
    IN  /\ call # NoCall
        /\ call.answer = "applied"
        /\ store[call.id] = call.session
        /\ \E ids \in SUBSET SessionIDs : call.id \in ids /\ Settle(ids)
        /\ Answers(c, "ok", {})
        /\ UNCHANGED <<store, clock>>

Remove(c) ==
    /\ Pending(c, "delete")
    /\ \E id \in Held :
         /\ Removable(store[id], clock)
         /\ store' = [store EXCEPT ![id] = NoSession]
         /\ recent' = [recent EXCEPT ![id] = @ \cup {NoSession}]
         /\ Answers(c, "pending", calls[c].found \cup {<<id, store[id]>>})
    /\ UNCHANGED clock

DeleteOk(c) ==
    /\ Pending(c, "delete")
    /\ \A id \in Held : ~Removable(store[id], calls[c].since)
    /\ Answers(c, "ok", calls[c].found)
    /\ UNCHANGED <<store, recent, clock>>

(* An upsert may report a failure although it has taken effect.            *)
Fail(c) ==
    /\ calls[c] # NoCall
    /\ calls[c].answer \in {"pending", "applied"}
    /\ Answers(c, "error", calls[c].found)
    /\ UNCHANGED <<store, recent, clock>>

Return(c) ==
    /\ calls[c] # NoCall
    /\ calls[c].answer \in {"ok", "error"}
    /\ calls' = [calls EXCEPT ![c] = NoCall]
    /\ UNCHANGED <<store, recent, clock>>

Tick ==
    /\ clock < MaxTime
    /\ clock' = clock + 1
    /\ UNCHANGED <<store, recent, calls>>

(* Processes stop, and nobody waits for their calls any more.              *)
Crash ==
    /\ \E cs \in SUBSET Callers :
         calls' = [c \in Callers |-> IF c \in cs THEN NoCall ELSE calls[c]]
    /\ UNCHANGED <<store, recent, clock>>

PowerLoss ==
    /\ \A id \in SessionIDs : store'[id] \in recent[id]
    /\ store' = [id \in SessionIDs |-> store'[id]]
    /\ recent' = [id \in SessionIDs |-> {store'[id]}]
    /\ calls' = [c \in Callers |-> NoCall]
    /\ UNCHANGED clock

Next ==
    \/ \E c \in Callers :
         \/ Call(c) \/ Get(c) \/ Stats(c) \/ Upsert(c) \/ UpsertOk(c)
         \/ Remove(c) \/ DeleteOk(c) \/ Fail(c) \/ Return(c)
    \/ Tick \/ Crash \/ PowerLoss

Spec == Init /\ [][Next]_storeVars

=============================================================================
