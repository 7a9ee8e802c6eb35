----------------------------- MODULE StoreCalls -----------------------------
(***************************************************************************)
(* The calls of a session store and the reading of an expiry: what the     *)
(* promise (SessionStore) and the file store (FileStore) have in common.   *)
(***************************************************************************)
EXTENDS Integers

CONSTANTS
    SessionIDs,
    Sessions,       \* the sessions that are written, with their expiry
    NoSession

NoExpiry == -1      \* the zero time.Time

(* The reading of an expiry in DeleteExpired and Stats.                    *)
Removable(s, now) == s.expires # NoExpiry /\ s.expires <= now

Arguments ==
    [kind : {"get"}, id : SessionIDs, session : {NoSession}]
    \cup [kind : {"upsert"}, id : SessionIDs, session : Sessions]
    \cup [kind : {"delete", "stats"}, id : {"all"}, session : {NoSession}]

(* A call made at a time.  since is when a removal began, found is what    *)
(* the call has read or removed.                                           *)
Begun(a, now) ==
    [kind |-> a.kind, id |-> a.id, session |-> a.session,
     since |-> IF a.kind = "delete" THEN now ELSE 0,
     answer |-> "pending", found |-> {}]

=============================================================================
