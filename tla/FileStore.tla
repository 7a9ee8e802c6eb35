------------------------------ MODULE FileStore -----------------------------
(***************************************************************************)
(* adapters/session/file/store.go: sessions kept one to a file by any      *)
(* number of processes that share a directory.                             *)
(*                                                                         *)
(* Within a process a sync.RWMutex orders the calls.  Between processes    *)
(* Get and Upsert hold a lock file beside the session's file; DeleteExpired*)
(* and Stats do not.  An upsert writes a temporary file, syncs it, renames *)
(* it over the session's file and syncs the directory.  Each call of the   *)
(* operating system is an action.  Any of them may fail, a context may be  *)
(* cancelled, a process may stop between any two of them and leave its     *)
(* lock files behind, and a power loss may undo what no sync has covered.  *)
(* The file a stopped upsert has not renamed stays under a name nobody     *)
(* reads, and is left out.                                                 *)
(***************************************************************************)
EXTENDS StoreCalls

CONSTANTS
    Processes,
    Callers,        \* goroutines that call the store
    Home,           \* the process of each caller
    Kinds,          \* the kinds of call each caller makes
    Torn,           \* a file whose bytes did not all reach the disk
    NoCall,
    NoCaller,
    MaxTime,        \* bound on the clock
    Faults          \* which of "io", "crash", "power" may happen

ASSUME FileStoreAssumption ==
    /\ Home \in [Callers -> Processes]
    /\ Kinds \in [Callers -> SUBSET {"get", "upsert", "delete", "stats"}]
    /\ \A s \in Sessions : s.expires \in Int
    /\ NoSession \notin Sessions
    /\ Torn \notin Sessions \cup {NoSession}
    /\ NoCaller \notin Callers
    /\ MaxTime \in Nat
    /\ Faults \subseteq {"io", "crash", "power"}

VARIABLES
    \* The directory: session files and lock files as they can be seen, and
    \* for each what a power loss may leave.
    file, fileAfter, lock, lockAfter,
    clock,
    \* Each process' RWMutex: the writer that holds or has announced itself,
    \* the readers inside, the readers that arrived behind the writer.
    mu,
    \* Each caller: where it is, its call, and the locals of that call.
    pc, calls, local

vars == <<file, fileAfter, lock, lockAfter, clock, mu, pc, calls, local>>
disk == <<file, fileAfter, lock, lockAfter>>

-----------------------------------------------------------------------------
Contents == Sessions \cup {NoSession, Torn}

Free == [writer |-> NoCaller, readers |-> {}, behind |-> {}]

(* synced: the temporary file is on disk.                                  *)
(* now, todo, at: of DeleteExpired and Stats, the time they compare with,  *)
(* the directory entries they have still to visit, and the one they are to *)
(* remove.                                                                 *)
NoLocal ==
    [synced |-> FALSE, now |-> 0, todo |-> {}, at |-> {}]

Places == {"idle", "called", "mutex", "drain", "behind", "lock", "read",
           "write", "rename", "syncDir", "unlock",
           "list", "scan", "remove", "release"}

(* Between the creation of a lock file and its removal.                    *)
Locked == {"read", "write", "rename", "syncDir", "unlock"}

Writes(c) == calls[c].kind \in {"upsert", "delete"}

CallRecords ==
    [kind : {"get", "upsert", "delete", "stats"},
     id : SessionIDs \cup {"all"}, session : Sessions \cup {NoSession},
     since : 0..MaxTime, answer : {"pending", "applied", "ok", "error"},
     found : SUBSET (SessionIDs \X Contents)]

ASSUME NoCallAssumption == NoCall \notin CallRecords

TypeOK ==
    /\ file \in [SessionIDs -> Contents]
    /\ fileAfter \in [SessionIDs -> SUBSET Contents]
    /\ lock \in [SessionIDs -> BOOLEAN]
    /\ lockAfter \in [SessionIDs -> SUBSET BOOLEAN]
    /\ \A id \in SessionIDs : /\ file[id] \in fileAfter[id]
                              /\ lock[id] \in lockAfter[id]
    /\ clock \in 0..MaxTime
    /\ mu \in [Processes -> [writer : Callers \cup {NoCaller},
                             readers : SUBSET Callers,
                             behind : SUBSET Callers]]
    /\ pc \in [Callers -> Places]
    /\ calls \in [Callers -> CallRecords \cup {NoCall}]
    /\ \A c \in Callers : (calls[c] = NoCall) <=> (pc[c] = "idle")
    /\ \A c \in Callers : pc[c] # "idle" =>
         /\ calls[c].kind \in Kinds[c]
         /\ calls[c].kind \in {"get", "upsert"} => calls[c].id \in SessionIDs
         /\ calls[c].kind = "upsert" => calls[c].session \in Sessions
         /\ calls[c].kind = "get" =>
                calls[c].found \subseteq SessionIDs \X Sessions
    /\ local \in [Callers -> [synced : BOOLEAN, now : 0..MaxTime,
                              todo : SUBSET SessionIDs,
                              at : SUBSET SessionIDs]]

-----------------------------------------------------------------------------
Init ==
    /\ file = [id \in SessionIDs |-> NoSession]
    /\ fileAfter = [id \in SessionIDs |-> {NoSession}]
    /\ lock = [id \in SessionIDs |-> FALSE]
    /\ lockAfter = [id \in SessionIDs |-> {FALSE}]
    /\ clock = 0
    /\ mu = [p \in Processes |-> Free]
    /\ pc = [c \in Callers |-> "idle"]
    /\ calls = [c \in Callers |-> NoCall]
    /\ local = [c \in Callers |-> NoLocal]

Goto(c, place) == pc' = [pc EXCEPT ![c] = place]

Forget(c) == local' = [local EXCEPT ![c] = NoLocal]

SetAnswer(c, answer) == calls' = [calls EXCEPT ![c].answer = answer]

Call(c) ==
    /\ pc[c] = "idle"
    /\ \E a \in Arguments :
         /\ a.kind \in Kinds[c]
         /\ calls' = [calls EXCEPT ![c] = Begun(a, clock)]
    /\ Goto(c, "called")
    /\ UNCHANGED <<disk, clock, mu, local>>

-----------------------------------------------------------------------------
(* The head of each operation: the context, then the mutex.                *)

(* The context is asked once.  If it has ended, the call returns without   *)
(* the mutex.  If not, a writer waits for the mutex however long that      *)
(* takes and whatever becomes of its context; a reader has its place in    *)
(* the mutex at once (RLock).                                              *)
PassContext(c) ==
    /\ pc[c] = "called"
    /\ Writes(c)
    /\ Goto(c, "mutex")
    /\ UNCHANGED <<disk, clock, mu, calls, local>>

Refuse(c) ==
    /\ pc[c] = "called"
    /\ SetAnswer(c, "error")
    /\ Goto(c, "release")
    /\ UNCHANGED <<disk, clock, mu, local>>

Inside(c) == IF calls[c].kind \in {"get", "upsert"} THEN "lock" ELSE "list"

(* sync.RWMutex.  A writer announces itself, then waits for the readers    *)
(* inside to leave; readers that come after it wait until it unlocks, and  *)
(* then all enter.                                                         *)
RLock(c) ==
    LET m == mu[Home[c]]
    IN  /\ pc[c] = "called"
        /\ ~Writes(c)
        /\ IF m.writer = NoCaller
           THEN /\ mu' = [mu EXCEPT ![Home[c]].readers = @ \cup {c}]
                /\ Goto(c, Inside(c))
           ELSE /\ mu' = [mu EXCEPT ![Home[c]].behind = @ \cup {c}]
                /\ Goto(c, "behind")
        /\ UNCHANGED <<disk, clock, calls, local>>

Announce(c) ==
    /\ pc[c] = "mutex"
    /\ mu[Home[c]].writer = NoCaller
    /\ mu' = [mu EXCEPT ![Home[c]].writer = c]
    /\ Goto(c, "drain")
    /\ UNCHANGED <<disk, clock, calls, local>>

Lock(c) ==
    /\ pc[c] = "drain"
    /\ mu[Home[c]].readers = {}
    /\ Goto(c, Inside(c))
    /\ UNCHANGED <<disk, clock, mu, calls, local>>

(* The mutex is unlocked and the call returns.                             *)
Release(c) ==
    LET p == Home[c]  m == mu[p]
    IN  /\ pc[c] = "release"
        /\ IF m.writer = c
           THEN /\ mu' = [mu EXCEPT ![p] = [Free EXCEPT !.readers = m.behind]]
                /\ pc' = [d \in Callers |->
                            IF d = c THEN "idle"
                            ELSE IF d \in m.behind THEN Inside(d) ELSE pc[d]]
           ELSE /\ mu' = [mu EXCEPT ![p].readers = @ \ {c}]
                /\ Goto(c, "idle")
        /\ calls' = [calls EXCEPT ![c] = NoCall]
        /\ UNCHANGED <<disk, clock, local>>

-----------------------------------------------------------------------------
(* acquireFileLock: the lock file is created if it is not there, and       *)
(* otherwise tried again later, for as long as the context lives.          *)

SetLock(id, there) ==
    /\ lock' = [lock EXCEPT ![id] = there]
    /\ lockAfter' = [lockAfter EXCEPT ![id] = @ \cup {there}]

(* Mutant: a lock file that is there is opened too. *)
LockFreeAlways(id) == TRUE

LockFree(id) == ~lock[id]

AcquireFileLock(c) ==
    LET id == calls[c].id
    IN  /\ pc[c] = "lock"
        /\ LockFree(id)
        /\ SetLock(id, TRUE)
        /\ Goto(c, IF calls[c].kind = "get" THEN "read" ELSE "write")
        /\ UNCHANGED <<file, fileAfter, clock, mu, calls, local>>

(* Mutant: the wait for the lock file does not ask the context. *)
GiveUpScan(c) ==
    /\ pc[c] = "scan" /\ local[c].todo # {}
    /\ SetAnswer(c, "error")
    /\ Goto(c, "release")
    /\ Forget(c)
    /\ UNCHANGED <<disk, clock, mu>>

(* A context may end at any time, and is asked again only while the call   *)
(* waits for the lock file and between two entries of the directory.  It   *)
(* is found to have ended here.                                            *)
GiveUp(c) ==
    /\ \/ pc[c] = "lock"
       \/ pc[c] = "scan" /\ local[c].todo # {}
    /\ SetAnswer(c, "error")
    /\ Goto(c, "release")
    /\ Forget(c)
    /\ UNCHANGED <<disk, clock, mu>>

(* The lock file is removed, and nobody asks whether that succeeded.       *)
Unlock(c) ==
    /\ pc[c] = "unlock"
    /\ \/ SetLock(calls[c].id, FALSE)
       \/ "io" \in Faults /\ UNCHANGED <<lock, lockAfter>>
    /\ Goto(c, "release")
    /\ UNCHANGED <<file, fileAfter, clock, mu, calls, local>>

-----------------------------------------------------------------------------
SetFile(id, content, after) ==
    /\ file' = [file EXCEPT ![id] = content]
    /\ fileAfter' = [fileAfter EXCEPT ![id] = @ \cup after]

(* Mutant: a file that does not exist is taken for a session. *)
FoundAnyway(id) == {<<id, file[id]>>}

Found(id) == IF file[id] \in Sessions THEN {<<id, file[id]>>} ELSE {}

(* A torn file is no JSON, and the read fails.                             *)
Read(c) ==
    LET id == calls[c].id
    IN  /\ pc[c] = "read"
        /\ calls' = [calls EXCEPT
             ![c].answer = IF file[id] = Torn THEN "error" ELSE "ok",
             ![c].found = Found(id)]
        /\ Goto(c, "unlock")
        /\ UNCHANGED <<disk, clock, mu, local>>

(* Mutant: the temporary file is closed without a sync. *)
WriteTmpUnsynced(c) ==
    /\ pc[c] = "write"
    /\ Goto(c, "rename")
    /\ UNCHANGED <<disk, clock, mu, calls, local>>

(* The temporary file is created under a name of its own, written, synced  *)
(* and closed.                                                             *)
WriteTmp(c) ==
    /\ pc[c] = "write"
    /\ local' = [local EXCEPT ![c].synced = TRUE]
    /\ Goto(c, "rename")
    /\ UNCHANGED <<disk, clock, mu, calls>>

Rename(c) ==
    LET s == calls[c].session
    IN  /\ pc[c] = "rename"
        /\ SetFile(calls[c].id, s, IF local[c].synced THEN {s} ELSE {s, Torn})
        /\ local' = [local EXCEPT ![c].synced = FALSE]
        /\ SetAnswer(c, "applied")
        /\ Goto(c, "syncDir")
        /\ UNCHANGED <<lock, lockAfter, clock, mu>>

(* Mutant: the directory is not synced. *)
SettledNot == UNCHANGED <<fileAfter, lockAfter>>

(* Every entry of the directory is on disk, the lock files' too.           *)
Settled ==
    /\ fileAfter' = [id \in SessionIDs |-> {file[id]}]
    /\ lockAfter' = [id \in SessionIDs |-> {lock[id]}]

SyncDir(c) ==
    /\ pc[c] = "syncDir"
    /\ Settled
    /\ SetAnswer(c, "ok")
    /\ Goto(c, "unlock")
    /\ UNCHANGED <<file, lock, clock, mu, local>>

-----------------------------------------------------------------------------
(* DeleteExpired and Stats visit the files the directory lists, one after  *)
(* the other, under the mutex alone.                                       *)

List(c) ==
    /\ pc[c] = "list"
    /\ local' = [local EXCEPT
         ![c].todo = {id \in SessionIDs : file[id] # NoSession},
         ![c].now = IF Writes(c) THEN clock ELSE 0]
    /\ Goto(c, "scan")
    /\ UNCHANGED <<disk, clock, mu, calls>>

Visited(c, id) ==
    local' = [local EXCEPT ![c].todo = @ \ {id}, ![c].at = {}]

Add(c, id) ==
    calls' = [calls EXCEPT ![c].found = @ \cup {<<id, file[id]>>}]

Scan(c) ==
    /\ pc[c] = "scan"
    /\ \E id \in local[c].todo :
         /\ file[id] \in Sessions
         /\ IF calls[c].kind = "stats"
            THEN Add(c, id) /\ Visited(c, id) /\ UNCHANGED pc
            ELSE IF Removable(file[id], local[c].now)
            THEN /\ local' = [local EXCEPT ![c].at = {id}]
                 /\ Goto(c, "remove")
                 /\ UNCHANGED calls
            ELSE Visited(c, id) /\ UNCHANGED <<pc, calls>>
    /\ UNCHANGED <<disk, clock, mu>>

(* A file that another process has removed by now is counted all the same. *)
Remove(c) ==
    /\ pc[c] = "remove"
    /\ \E id \in local[c].at :
         /\ SetFile(id, NoSession, {NoSession})
         /\ Add(c, id)
         /\ Visited(c, id)
    /\ Goto(c, "scan")
    /\ UNCHANGED <<lock, lockAfter, clock, mu>>

(* Mutant: the scan stops before it has visited every entry. *)
ScanEndsEarly(c) ==
    /\ pc[c] = "scan"
    /\ SetAnswer(c, "ok")
    /\ Goto(c, "release")
    /\ Forget(c)
    /\ UNCHANGED <<disk, clock, mu>>

ScanEnds(c) ==
    /\ pc[c] = "scan"
    /\ local[c].todo = {}
    /\ SetAnswer(c, "ok")
    /\ Goto(c, "release")
    /\ Forget(c)
    /\ UNCHANGED <<disk, clock, mu>>

-----------------------------------------------------------------------------
(* What can go wrong. *)

Unreadable(c) ==
    pc[c] = "scan" /\ \E id \in local[c].todo : file[id] \notin Sessions

(* A call of the operating system fails, or a listed file cannot be read   *)
(* any more: the operation returns the error by way of its defers.         *)
Fails(c) ==
    /\ \/ "io" \in Faults
       \/ Unreadable(c)
    /\ pc[c] \in (Locked \ {"unlock"}) \cup {"lock", "list", "scan", "remove"}
    /\ SetAnswer(c, "error")
    /\ Goto(c, IF pc[c] \in Locked THEN "unlock" ELSE "release")
    /\ Forget(c)
    /\ UNCHANGED <<disk, clock, mu>>

(* The callers in cs are no more, and with them their processes' memory.   *)
Gone(cs, ps) ==
    /\ pc' = [c \in Callers |-> IF c \in cs THEN "idle" ELSE pc[c]]
    /\ calls' = [c \in Callers |-> IF c \in cs THEN NoCall ELSE calls[c]]
    /\ local' = [c \in Callers |-> IF c \in cs THEN NoLocal ELSE local[c]]
    /\ mu' = [p \in Processes |-> IF p \in ps THEN Free ELSE mu[p]]

Crash(p) ==
    /\ "crash" \in Faults
    /\ Gone({c \in Callers : Home[c] = p}, {p})
    /\ UNCHANGED <<disk, clock>>

PowerLoss ==
    /\ "power" \in Faults
    /\ file' \in [SessionIDs -> Contents]
    /\ lock' \in [SessionIDs -> BOOLEAN]
    /\ \A id \in SessionIDs : /\ file'[id] \in fileAfter[id]
                              /\ lock'[id] \in lockAfter[id]
    /\ fileAfter' = [id \in SessionIDs |-> {file'[id]}]
    /\ lockAfter' = [id \in SessionIDs |-> {lock'[id]}]
    /\ Gone(Callers, Processes)
    /\ UNCHANGED clock

Tick ==
    /\ clock < MaxTime
    /\ clock' = clock + 1
    /\ UNCHANGED <<disk, mu, pc, calls, local>>

-----------------------------------------------------------------------------
Proceed(c) ==
    \/ PassContext(c) \/ Refuse(c) \/ RLock(c) \/ Lock(c)
    \/ AcquireFileLock(c) \/ GiveUp(c)
    \/ Read(c) \/ WriteTmp(c) \/ Rename(c) \/ SyncDir(c)
    \/ List(c) \/ Scan(c) \/ Remove(c) \/ ScanEnds(c)
    \/ Unlock(c) \/ Release(c)

Next ==
    \/ \E c \in Callers :
         Call(c) \/ Proceed(c) \/ Announce(c) \/ Fails(c)
    \/ \E p \in Processes : Crash(p)
    \/ PowerLoss \/ Tick

(* A goroutine that can go on does; sync.Mutex hands itself to a waiting   *)
(* writer in the end; and every context ends, as the ones of the socket    *)
(* server do with their clients' connections.                              *)
Spec ==
    /\ Init /\ [][Next]_vars
    /\ \A c \in Callers :
         WF_vars(Proceed(c)) /\ SF_vars(Announce(c))

-----------------------------------------------------------------------------
(* Properties. *)

(* Between processes: whoever works on a session's file has its lock file  *)
(* there, and is alone with it ("Multiprocess-safe through file locking",  *)
(* store.go 40 and 82), also after crashes, power losses and calls that    *)
(* gave up waiting.                                                        *)
LockExclusive ==
    \A c \in Callers : pc[c] \in Locked =>
        /\ lock[calls[c].id]
        /\ \A d \in Callers \ {c} :
             pc[d] \in Locked => calls[d].id # calls[c].id

(* Whenever the power goes, each session file that is found afterwards is  *)
(* whole: the sync of the temporary file comes before its rename.          *)
Intact == \A id \in SessionIDs : Torn \notin fileAfter[id]

(* No caller stays in a call for ever: each call returns once its context  *)
(* has ended, whatever was left behind in the directory, also the calls    *)
(* that wait for the mutex behind one that waits for a lock file nobody    *)
(* will remove.                                                            *)
Returns == \A c \in Callers : []<>(pc[c] = "idle")

(* Stats shows what it has counted only at its end.                        *)
Shown ==
    [c \in Callers |->
        IF pc[c] # "idle" /\ calls[c].kind = "stats" /\ calls[c].answer # "ok"
        THEN [calls[c] EXCEPT !.found = {}] ELSE calls[c]]

Promise == INSTANCE SessionStore
             WITH store <- file, recent <- fileAfter, calls <- Shown

(* The store is the atomic, durable map of module SessionStore, as long as *)
(* DeleteExpired and Stats run in the process that writes.                 *)
Atomic == Promise!Spec

(* store.go 158: "DeleteExpired removes expired sessions".  With a writer  *)
(* in another process it also removes a session that is not.               *)
DeletesOnlyExpired ==
    [][\A id \in SessionIDs :
           file[id] \in Sessions /\ file'[id] = NoSession =>
               Removable(file[id], clock) \/ PowerLoss]_vars

=============================================================================
