-------------------------- MODULE FileStoreAtomic ---------------------------
(***************************************************************************)
(* The file store implements the atomic, durable map of SessionStore, for  *)
(* any number of sessions, processes and callers and under every fault, if *)
(* DeleteExpired and Stats are called in the one process that writes; and  *)
(* what is left of that promise, its durability, if they are not.          *)
(***************************************************************************)
EXTENDS FileStoreProofs

(* Whoever scans the directory shares its mutex with whoever changes it.   *)
OneWriter ==
    \A c, d \in Callers :
        /\ Kinds[c] \cap {"delete", "stats"} # {}
        /\ Kinds[d] \cap {"upsert", "delete"} # {}
        => Home[c] = Home[d]

-----------------------------------------------------------------------------
(* The mutex excludes.                                                     *)

Working == Locked \cup {"lock", "list", "scan", "remove"}

(* What the mutex of its process says of a caller at a place.              *)
Holds(c, m, place, writes) ==
    /\ place \in {"mutex", "drain"} => writes
    /\ place = "behind" => ~writes
    /\ place \in {"drain"} \cup Working /\ writes => m.writer = c
    /\ place \in Working /\ ~writes => c \in m.readers
    /\ m.writer = c => place \in {"drain", "release"} \cup Working
    /\ m.writer = c /\ place # "drain" => m.readers = {}

MutexInv == \A c \in Callers : Holds(c, mu[Home[c]], pc[c], Writes(c))

(* A writer at work is alone in its process.                               *)
LEMMA WriterAlone ==
  ASSUME MutexInv, NEW c \in Callers, NEW d \in Callers, c # d,
         Home[c] = Home[d], pc[c] \in Working, Writes(c)
  PROVE  pc[d] \notin Working
  BY DEF MutexInv, Holds, Working, Locked

(* What an action of one caller leaves alone.                              *)
LEMMA Others ==
  ASSUME CallsInv, NEW c \in Callers,
         Call(c) \/ Proceed(c) \/ Announce(c) \/ Fails(c), ~Release(c)
  PROVE  \A d \in Callers \ {c} :
            pc'[d] = pc[d] /\ calls'[d] = calls[d] /\ local'[d] = local[d]
<1> USE DEF CallsInv, CallersType
<1>1. CASE Call(c)
  BY <1>1 DEF Call, Goto
<1>2. CASE Refuse(c) \/ PassContext(c) \/ RLock(c) \/ Lock(c)
           \/ AcquireFileLock(c)
  BY <1>2 DEF Refuse, PassContext, RLock, Lock, AcquireFileLock, Goto,
              SetAnswer
<1>3. CASE GiveUp(c) \/ Read(c) \/ WriteTmp(c) \/ Rename(c) \/ SyncDir(c)
  BY <1>3 DEF GiveUp, Read, WriteTmp, Rename, SyncDir, Goto, SetAnswer, Forget
<1>4. CASE List(c) \/ Scan(c) \/ Remove(c) \/ ScanEnds(c)
  BY <1>4 DEF List, Scan, Remove, ScanEnds, Add, Visited, Goto, SetAnswer, Forget
<1>5. CASE Unlock(c) \/ Announce(c) \/ Fails(c)
  BY <1>5 DEF Unlock, Announce, Fails, Goto, SetAnswer, Forget
<1> QED
  BY <1>1, <1>2, <1>3, <1>4, <1>5 DEF Proceed

(* Those who waited behind a writer that releases the mutex enter.         *)
LEMMA Releases ==
  ASSUME MuInv, CallsInv, NEW c \in Callers, Release(c), NEW d \in Callers
  PROVE  \/ d = c /\ pc'[d] = "idle" /\ calls'[d] = NoCall
         \/ d # c /\ pc'[d] = pc[d] /\ calls'[d] = calls[d]
         \/ /\ d # c /\ pc[d] = "behind" /\ pc'[d] \in {"lock", "list"}
            /\ calls'[d] = calls[d]
<1>1. calls'[d] = IF d = c THEN NoCall ELSE calls[d]
  BY DEF Release, CallsInv, CallersType
<1>2. CASE mu[Home[c]].writer = c
  <2>1. \A b \in mu[Home[c]].behind : pc[b] = "behind"
    BY FileStoreAssumption DEF MuInv, BehindInv
  <2>2. pc'[d] = IF d = c THEN "idle"
                 ELSE IF d \in mu[Home[c]].behind THEN Inside(d) ELSE pc[d]
    BY <1>2 DEF Release
  <2> QED
    BY <1>1, <2>1, <2>2 DEF Inside
<1>3. CASE mu[Home[c]].writer # c
  <2>1. pc'[d] = IF d = c THEN "idle" ELSE pc[d]
    BY <1>3 DEF Release, Goto, CallsInv, CallersType
  <2> QED
    BY <1>1, <2>1
<1> QED
  BY <1>2, <1>3

(* Crashes, power losses and time leave a call as it is or end it.         *)
LEMMA Quiet ==
  ASSUME CallsInv,
         (\E p \in Processes : Crash(p)) \/ PowerLoss \/ Tick \/ UNCHANGED vars,
         NEW d \in Callers
  PROVE  \/ pc'[d] = "idle"
         \/ pc'[d] = pc[d] /\ calls'[d] = calls[d] /\ local'[d] = local[d]
<1>1. ASSUME NEW p \in Processes, Crash(p)
      PROVE  \/ pc'[d] = "idle"
             \/ pc'[d] = pc[d] /\ calls'[d] = calls[d] /\ local'[d] = local[d]
  BY <1>1 DEF Crash, Gone
<1>2. CASE PowerLoss
  BY <1>2 DEF PowerLoss, Gone
<1>3. CASE Tick \/ UNCHANGED vars
  BY <1>3 DEF Tick, vars
<1> QED
  BY <1>1, <1>2, <1>3

(* A call keeps its kind, its id and its session until it returns.         *)
LEMMA SameCall ==
  ASSUME CallsInv, CallsInv', NEW c \in Callers,
         Proceed(c) \/ Announce(c) \/ Fails(c), ~Release(c)
  PROVE  /\ pc[c] # "idle" /\ pc'[c] # "idle"
         /\ calls[c] \in CallRecords /\ calls'[c] \in CallRecords
         /\ calls'[c].kind = calls[c].kind /\ calls'[c].id = calls[c].id
         /\ calls'[c].session = calls[c].session
         /\ calls'[c].since = calls[c].since
<1>1. /\ pc[c] # "idle" /\ pc'[c] # "idle"
      /\ \/ UNCHANGED calls
         \/ \E answer, found : calls' = [calls EXCEPT
              ![c].answer = answer, ![c].found = found]
         \/ \E answer : calls' = [calls EXCEPT ![c].answer = answer]
         \/ \E found : calls' = [calls EXCEPT ![c].found = found]
  <2> USE DEF CallsInv, CallersType, Goto
  <2>1. CASE Refuse(c) \/ GiveUp(c) \/ Fails(c) \/ Rename(c) \/ SyncDir(c)
             \/ ScanEnds(c)
    BY <2>1 DEF Refuse, GiveUp, Fails, Rename, SyncDir, ScanEnds, SetAnswer,
                Locked
  <2>2. CASE Read(c) \/ Scan(c) \/ Remove(c)
    BY <2>2 DEF Read, Scan, Remove, Add
  <2>3. CASE PassContext(c) \/ RLock(c) \/ Lock(c) \/ AcquireFileLock(c)
             \/ WriteTmp(c) \/ List(c) \/ Unlock(c) \/ Announce(c)
    BY <2>3 DEF PassContext, RLock, Lock, AcquireFileLock, WriteTmp, List,
                Unlock, Announce, Inside
  <2> QED
    BY <2>1, <2>2, <2>3 DEF Proceed
<1>2. calls[c] \in CallRecords /\ calls'[c] \in CallRecords
  BY <1>1, Calling, CallsInv' DEF CallsInv, CallersType, Fits, CallFits
<1> DEFINE Kept ==
      /\ calls'[c].kind = calls[c].kind /\ calls'[c].id = calls[c].id
      /\ calls'[c].session = calls[c].session
      /\ calls'[c].since = calls[c].since
<1>3. ASSUME NEW answer, NEW found, calls' = [calls EXCEPT 
             ![c].answer = answer, ![c].found = found]
      PROVE  Kept
  <2>1. calls'[c] = [calls[c] EXCEPT !.answer = answer, !.found = found]
    BY <1>3 DEF CallsInv, CallersType
  <2> QED
    BY <1>2, <2>1 DEF CallRecords
<1>4. ASSUME NEW answer, calls' = [calls EXCEPT ![c].answer = answer]
      PROVE  Kept
  <2>1. calls'[c] = [calls[c] EXCEPT !.answer = answer]
    BY <1>4 DEF CallsInv, CallersType
  <2> QED
    BY <1>2, <2>1 DEF CallRecords
<1>5. ASSUME NEW found, calls' = [calls EXCEPT ![c].found = found]
      PROVE  Kept
  <2>1. calls'[c] = [calls[c] EXCEPT !.found = found]
    BY <1>5 DEF CallsInv, CallersType
  <2> QED
    BY <1>2, <2>1 DEF CallRecords
<1>6. Kept
  BY <1>1, <1>3, <1>4, <1>5
<1> QED
  BY <1>1, <1>2, <1>6

-----------------------------------------------------------------------------
(* The mutexes are respected.                                              *)

(* At the start nobody holds one.                                          *)
LEMMA MutexInit == Init => MutexInv
  BY FileStoreAssumption DEF Init, MutexInv, Holds, Working, Locked, Free

(* One caller moves, and no mutex of another process changes.              *)
LEMMA MutexMoves ==
  ASSUME CallsInv, CallsInv', MutexInv, NEW c \in Callers,
         Proceed(c) \/ Announce(c) \/ Fails(c), ~Release(c),
         Holds(c, mu'[Home[c]], pc'[c], Writes(c)),
         \A d \in Callers \ {c} :
             Holds(d, mu[Home[d]], pc[d], Writes(d)) =>
                 Holds(d, mu'[Home[d]], pc[d], Writes(d))
  PROVE  MutexInv'
<1>1. Writes(c)' <=> Writes(c)
  BY SameCall DEF Writes
<1>2. \A d \in Callers \ {c} : pc'[d] = pc[d] /\ (Writes(d)' <=> Writes(d))
  BY Others DEF Writes
<1> QED
  BY <1>1, <1>2, Zenon DEF MutexInv, Holds

(* The operations never work without the mutex.                            *)
LEMMA MutexStep ==
  MuInv /\ CallsInv /\ CallsInv' /\ MutexInv /\ [Next]_vars => MutexInv'
<1> SUFFICES ASSUME MuInv, CallsInv, CallsInv', MutexInv, [Next]_vars
             PROVE  MutexInv'
  OBVIOUS
<1>h. \A c \in Callers : Home[c] \in Processes /\ c # NoCaller
  BY FileStoreAssumption
<1>1. ASSUME NEW c \in Callers,
             PassContext(c) \/ Refuse(c) \/ Lock(c) \/ AcquireFileLock(c)
             \/ GiveUp(c) \/ Read(c) \/ WriteTmp(c) \/ Rename(c) \/ SyncDir(c)
             \/ List(c) \/ Scan(c) \/ Remove(c) \/ ScanEnds(c) \/ Unlock(c)
             \/ Fails(c)
      PROVE  MutexInv'
  <2>1. UNCHANGED mu /\ ~Release(c)
    BY <1>1
    DEF PassContext, Refuse, Lock, AcquireFileLock, GiveUp, Read, WriteTmp,
        Rename, SyncDir, List, Scan, Remove, ScanEnds, Unlock, Fails, Release,
        Locked
  <2>2. \/ pc[c] = "called" /\ pc'[c] = "mutex" /\ Writes(c)
        \/ pc[c] = "called" /\ pc'[c] = "release"
        \/ pc[c] = "drain" /\ pc'[c] \in Working /\ mu[Home[c]].readers = {}
        \/ pc[c] \in Working /\ pc'[c] \in Working \cup {"release"}
    BY <1>1
    DEF PassContext, Refuse, Lock, AcquireFileLock, GiveUp, Read, WriteTmp,
        Rename, SyncDir, List, Scan, Remove, ScanEnds, Unlock, Fails, Locked,
        Working, Inside, Goto, CallsInv, CallersType
  <2>3. Holds(c, mu[Home[c]], pc[c], Writes(c))
    BY DEF MutexInv
  <2>4. Holds(c, mu[Home[c]], pc'[c], Writes(c))
    BY <2>2, <2>3 DEF Holds, Working, Locked
  <2> QED
    BY <1>1, <2>1, <2>4, MutexMoves DEF Proceed
<1>2. ASSUME NEW c \in Callers, RLock(c)
      PROVE  MutexInv'
  <2> DEFINE p == Home[c]
  <2>1. /\ ~Release(c) /\ ~Writes(c) /\ pc[c] = "called"
        /\ \A d \in Callers : Home[d] # p => mu'[Home[d]] = mu[Home[d]]
    BY <1>2, <1>h DEF RLock, Release, MuInv
  <2>2. CASE mu[p].writer = NoCaller
    <3>1. mu'[p] = [mu[p] EXCEPT !.readers = @ \cup {c}] /\ pc'[c] = Inside(c)
      BY <1>2, <1>h, <2>2 DEF RLock, Goto, MuInv, CallsInv, CallersType
    <3>2. /\ mu'[p].writer = NoCaller
          /\ mu'[p].readers = mu[p].readers \cup {c}
      BY <3>1, <1>h, <2>2 DEF MuInv, Mutex
    <3>3. Holds(c, mu'[p], pc'[c], Writes(c))
      BY <2>1, <3>1, <3>2, <1>h DEF Holds, Inside, Working, Locked
    <3> QED
      BY <1>2, <1>h, <2>1, <2>2, <3>2, <3>3, MutexMoves DEF Proceed, Holds
  <2>3. CASE mu[p].writer # NoCaller
    <3>1. /\ mu'[p] = [mu[p] EXCEPT !.behind = @ \cup {c}]
          /\ pc'[c] = "behind"
      BY <1>2, <1>h, <2>3 DEF RLock, Goto, MuInv, CallsInv, CallersType
    <3>2. mu'[p].writer = mu[p].writer /\ mu'[p].readers = mu[p].readers
      BY <3>1, <1>h DEF MuInv, Mutex
    <3>3. mu[p].writer # c
      BY <2>1 DEF MutexInv, Holds, Working, Locked
    <3>4. Holds(c, mu'[p], pc'[c], Writes(c))
      BY <2>1, <3>1, <3>2, <3>3 DEF Holds, Working, Locked
    <3> QED
      BY <1>2, <2>1, <3>2, <3>4, MutexMoves DEF Proceed, Holds
  <2> QED
    BY <2>2, <2>3
<1>3. ASSUME NEW c \in Callers, Announce(c)
      PROVE  MutexInv'
  <2> DEFINE p == Home[c]
  <2>1. /\ ~Release(c) /\ Writes(c) /\ mu[p].writer = NoCaller
        /\ mu'[p] = [mu[p] EXCEPT !.writer = c] /\ pc'[c] = "drain"
        /\ \A d \in Callers : Home[d] # p => mu'[Home[d]] = mu[Home[d]]
    BY <1>3, <1>h
    DEF Announce, Release, Goto, MuInv, CallsInv, CallersType, MutexInv, Holds
  <2>2. mu'[p].writer = c /\ mu'[p].readers = mu[p].readers
    BY <2>1, <1>h DEF MuInv, Mutex
  <2>3. Holds(c, mu'[p], pc'[c], Writes(c))
    BY <2>1, <2>2 DEF Holds, Working, Locked
  <2> QED
    BY <1>3, <1>h, <2>1, <2>2, <2>3, MutexMoves DEF Holds
<1>4. ASSUME NEW c \in Callers, Release(c)
      PROVE  MutexInv'
  <2> DEFINE p == Home[c]
  <2>1. /\ pc[c] = "release" /\ pc'[c] = "idle"
        /\ \A d \in Callers \ {c} : calls'[d] = calls[d]
        /\ \A d \in Callers : Home[d] # p => mu'[Home[d]] = mu[Home[d]]
    BY <1>4, <1>h DEF Release, Goto, MuInv, CallsInv, CallersType
  <2>2. CASE mu[p].writer = c
    <3>1. mu'[p] = [Free EXCEPT !.readers = mu[p].behind]
      BY <1>4, <1>h, <2>2 DEF Release, MuInv
    <3>2. mu'[p].writer = NoCaller /\ mu'[p].readers = mu[p].behind
      BY <3>1 DEF Free
    <3>3. \A d \in Callers \ {c} :
            pc'[d] = IF d \in mu[p].behind THEN Inside(d) ELSE pc[d]
      BY <1>4, <2>2 DEF Release
    <3>4. ASSUME NEW d \in Callers \ {c}, d \in mu[p].behind
          PROVE  Holds(d, mu'[Home[d]], pc'[d], Writes(d))
      <4>1. Home[d] = p /\ pc[d] = "behind"
        BY <3>4, <1>h DEF MuInv, BehindInv
      <4>2. ~Writes(d)
        BY <4>1 DEF MutexInv, Holds
      <4> QED
        BY <3>2, <3>3, <3>4, <4>1, <4>2, <1>h DEF Holds, Inside, Working, Locked
    <3>5. ASSUME NEW d \in Callers \ {c}, d \notin mu[p].behind
          PROVE  Holds(d, mu'[Home[d]], pc'[d], Writes(d))
      <4>1. pc'[d] = pc[d] /\ Holds(d, mu[Home[d]], pc[d], Writes(d))
        BY <3>3, <3>5 DEF MutexInv
      <4>2. CASE Home[d] = p
        <5>1. mu[p].readers = {} /\ mu[p].writer # d
          BY <2>1, <2>2 DEF MutexInv, Holds
        <5> QED
          BY <4>1, <4>2, <5>1, <3>2, <1>h DEF Holds
      <4>3. CASE Home[d] # p
        BY <4>1, <4>3, <2>1
      <4> QED
        BY <4>2, <4>3
    <3>6. Holds(c, mu'[p], "idle", FALSE) /\ Holds(c, mu'[p], "idle", TRUE)
      BY <3>2, <1>h DEF Holds, Working, Locked
    <3>7. Holds(c, mu'[p], pc'[c], Writes(c)')
      BY <3>6, <2>1, <3>2, <1>h DEF Holds, Working, Locked
    <3>8. \A d \in Callers \ {c} : Writes(d)' <=> Writes(d)
      BY <2>1 DEF Writes
    <3> QED
      BY <3>4, <3>5, <3>7, <3>8 DEF MutexInv, Holds
  <2>3. CASE mu[p].writer # c
    <3>1. mu'[p] = [mu[p] EXCEPT !.readers = @ \ {c}]
      BY <1>4, <1>h, <2>3 DEF Release, MuInv
    <3>2. /\ mu'[p].writer = mu[p].writer
          /\ mu'[p].readers = mu[p].readers \ {c}
      BY <3>1, <1>h DEF MuInv, Mutex
    <3>3. \A d \in Callers \ {c} :
            pc'[d] = pc[d] /\ (Writes(d)' <=> Writes(d))
      BY <1>4, <2>1, <2>3 DEF Release, Goto, CallsInv, CallersType, Writes
    <3>4. Holds(c, mu'[p], pc'[c], Writes(c)')
      BY <2>1, <2>3, <3>2 DEF Holds, Working, Locked
    <3>5. \A d \in Callers \ {c} :
            Holds(d, mu'[Home[d]], pc[d], Writes(d))
      BY <2>1, <3>2 DEF MutexInv, Holds
    <3> QED
      BY <3>3, <3>4, <3>5 DEF MutexInv, Holds
  <2> QED
    BY <2>2, <2>3
<1>5. ASSUME NEW p \in Processes, Crash(p)
      PROVE  MutexInv'
  <2>1. \A d \in Callers :
          /\ mu'[Home[d]] = IF Home[d] = p THEN Free ELSE mu[Home[d]]
          /\ pc'[d] = IF Home[d] = p THEN "idle" ELSE pc[d]
          /\ Home[d] # p => calls'[d] = calls[d]
    BY <1>5, <1>h DEF Crash, Gone
  <2> QED
    BY <2>1, <1>h DEF MutexInv, Holds, Working, Locked, Free, Writes
<1>6. ASSUME PowerLoss
      PROVE  MutexInv'
  BY <1>6, <1>h DEF PowerLoss, Gone, MutexInv, Holds, Working, Locked, Free
<1>7. ASSUME UNCHANGED <<mu, pc, calls>>
      PROVE  MutexInv'
  BY <1>7 DEF MutexInv, Writes
<1>8. ASSUME NEW c \in Callers, Call(c)
      PROVE  MutexInv'
  <2>1. /\ pc[c] = "idle" /\ pc'[c] = "called" /\ UNCHANGED mu
        /\ \A d \in Callers \ {c} : pc'[d] = pc[d] /\ calls'[d] = calls[d]
    BY <1>8 DEF Call, Goto, CallsInv, CallersType
  <2> QED
    BY <2>1 DEF MutexInv, Holds, Working, Locked, Writes
<1> QED
  BY <1>1, <1>2, <1>3, <1>4, <1>5, <1>6, <1>7, <1>8
  DEF Next, Proceed, Tick, vars

-----------------------------------------------------------------------------
(* The answers.                                                            *)

(* What a call knows of its answer at a place.                             *)
AnswerFits(place, call) ==
    /\ place \in {"called", "mutex", "drain", "behind", "lock", "read",
                  "write", "rename", "list", "scan", "remove"} =>
           call.answer = "pending"
    /\ place = "syncDir" => call.answer = "applied"
    /\ place \in {"unlock", "release"} => call.answer \in {"ok", "error"}
    /\ place # "idle" /\ call.kind = "upsert" => call.found = {}
    /\ place # "idle" /\ call.kind = "get" /\ call.answer = "pending" =>
           call.found = {}
    /\ place \in {"called", "mutex", "drain", "behind", "list"} =>
           call.found = {}
    /\ place = "remove" => call.kind = "delete"

AnswerInv == \A c \in Callers : AnswerFits(pc[c], calls[c])

(* At the start nobody awaits an answer.                                   *)
LEMMA AnswerInit == Init => AnswerInv
  BY DEF Init, AnswerInv, AnswerFits

(* One caller moves.                                                       *)
LEMMA AnswerMoves ==
  ASSUME CallsInv, AnswerInv, NEW c \in Callers,
         Call(c) \/ Proceed(c) \/ Announce(c) \/ Fails(c), ~Release(c),
         AnswerFits(pc'[c], calls'[c])
  PROVE  AnswerInv'
  BY Others DEF AnswerInv

(* Every action keeps the answers where they belong.                       *)
LEMMA AnswerStep ==
  MuInv /\ CallsInv /\ CallsInv' /\ AnswerInv /\ [Next]_vars => AnswerInv'
<1> SUFFICES ASSUME MuInv, CallsInv, CallsInv', AnswerInv, [Next]_vars
             PROVE  AnswerInv'
  OBVIOUS
<1>f. \A c \in Callers : pc[c] # "idle" =>
         calls[c] \in CallRecords /\ PlaceFits(pc[c], calls[c], local[c])
  BY Calling DEF Fits
<1>1. ASSUME NEW c \in Callers, Call(c)
      PROVE  AnswerInv'
  <2>1. PICK a \in Arguments : calls'[c] = Begun(a, clock)
    BY <1>1 DEF Call, CallsInv, CallersType
  <2>2. pc'[c] = "called" /\ ~Release(c)
    BY <1>1 DEF Call, Release, Goto, CallsInv, CallersType
  <2>3. AnswerFits(pc'[c], calls'[c])
    BY <2>1, <2>2 DEF AnswerFits, Begun
  <2> QED
    BY <1>1, <2>2, <2>3, AnswerMoves
<1>2. ASSUME NEW c \in Callers,
             PassContext(c) \/ RLock(c) \/ Lock(c) \/ Announce(c)
             \/ WriteTmp(c) \/ AcquireFileLock(c) \/ List(c) \/ Unlock(c)
      PROVE  AnswerInv'
  <2>1. UNCHANGED calls /\ ~Release(c)
    BY <1>2 DEF PassContext, RLock, Lock, Announce, WriteTmp, AcquireFileLock,
                List, Unlock, Release
  <2>2. \/ /\ pc[c] \in {"called", "mutex"}
           /\ pc'[c] \in {"mutex", "behind", "drain", "lock", "list"}
        \/ pc[c] = "drain" /\ pc'[c] \in {"lock", "list"}
        \/ pc[c] = "lock" /\ pc'[c] \in {"read", "write"}
        \/ pc[c] = "write" /\ pc'[c] = "rename"
        \/ pc[c] = "list" /\ pc'[c] = "scan"
        \/ pc[c] = "unlock" /\ pc'[c] = "release"
    BY <1>2 DEF PassContext, RLock, Lock, Announce, WriteTmp, AcquireFileLock,
                List, Unlock, Goto, Inside, CallsInv, CallersType
  <2>3. AnswerFits(pc'[c], calls'[c])
    BY <2>1, <2>2 DEF AnswerInv, AnswerFits
  <2> QED
    BY <1>2, <2>1, <2>3, AnswerMoves DEF Proceed
<1>3. ASSUME NEW c \in Callers, Refuse(c) \/ GiveUp(c) \/ ScanEnds(c) \/ Fails(c)
             \/ SyncDir(c)
      PROVE  AnswerInv'
  <2>1. /\ pc[c] # "idle" /\ ~Release(c)
        /\ \E answer \in {"ok", "error"} :
             calls'[c] = [calls[c] EXCEPT !.answer = answer]
        /\ pc'[c] \in {"unlock", "release"}
    BY <1>3 DEF Refuse, GiveUp, ScanEnds, Fails, SyncDir, Release, Goto,
                SetAnswer, Locked, CallsInv, CallersType
  <2>2. calls[c] \in CallRecords
    BY <1>f, <2>1
  <2>3. /\ calls'[c].answer \in {"ok", "error"}
        /\ calls'[c].kind = calls[c].kind /\ calls'[c].found = calls[c].found
    BY <2>1, <2>2 DEF CallRecords
  <2>4. AnswerFits(pc'[c], calls'[c])
    BY <2>1, <2>3 DEF AnswerInv, AnswerFits
  <2> QED
    BY <1>3, <2>1, <2>4, AnswerMoves DEF Proceed
<1>4. ASSUME NEW c \in Callers, Rename(c)
      PROVE  AnswerInv'
  <2>1. /\ pc[c] = "rename" /\ ~Release(c) /\ pc'[c] = "syncDir"
        /\ calls'[c] = [calls[c] EXCEPT !.answer = "applied"]
    BY <1>4 DEF Rename, Release, Goto, SetAnswer, CallsInv, CallersType
  <2>2. calls[c] \in CallRecords /\ calls[c].kind = "upsert"
    BY <1>f, <2>1 DEF PlaceFits
  <2>3. /\ calls'[c].answer = "applied"
        /\ calls'[c].kind = calls[c].kind /\ calls'[c].found = calls[c].found
    BY <2>1, <2>2 DEF CallRecords
  <2>4. AnswerFits(pc'[c], calls'[c])
    BY <2>1, <2>2, <2>3 DEF AnswerInv, AnswerFits
  <2> QED
    BY <1>4, <2>1, <2>4, AnswerMoves DEF Proceed
<1>5. ASSUME NEW c \in Callers, Read(c)
      PROVE  AnswerInv'
  <2>1. /\ pc[c] = "read" /\ ~Release(c) /\ pc'[c] = "unlock"
        /\ \E answer \in {"ok", "error"} : calls'[c] =
             [calls[c] EXCEPT !.answer = answer, !.found = Found(calls[c].id)]
    BY <1>5 DEF Read, Release, Goto, CallsInv, CallersType
  <2>2. calls[c] \in CallRecords /\ calls[c].kind = "get"
    BY <1>f, <2>1 DEF PlaceFits, Locked
  <2>3. calls'[c].answer \in {"ok", "error"} /\ calls'[c].kind = "get"
    BY <2>1, <2>2 DEF CallRecords
  <2>4. AnswerFits(pc'[c], calls'[c])
    BY <2>1, <2>3 DEF AnswerFits
  <2> QED
    BY <1>5, <2>1, <2>4, AnswerMoves DEF Proceed
<1>6. ASSUME NEW c \in Callers, Scan(c) \/ Remove(c)
      PROVE  AnswerInv'
  <2>1. /\ pc[c] \in {"scan", "remove"} /\ ~Release(c)
        /\ pc'[c] \in {"scan", "remove"}
        /\ \/ calls'[c] = calls[c]
           \/ \E found : calls'[c] = [calls[c] EXCEPT !.found = found]
        /\ pc'[c] = "remove" => calls'[c] = calls[c] /\ calls[c].kind # "stats"
    BY <1>6 DEF Scan, Remove, Add, Release, Goto, CallsInv, CallersType
  <2>2. calls[c] \in CallRecords /\ calls[c].kind \in {"delete", "stats"}
    BY <1>f, <2>1 DEF PlaceFits
  <2>3. calls'[c].answer = calls[c].answer /\ calls'[c].kind = calls[c].kind
    BY <2>1, <2>2 DEF CallRecords
  <2>4. AnswerFits(pc'[c], calls'[c])
    BY <2>1, <2>2, <2>3 DEF AnswerInv, AnswerFits
  <2> QED
    BY <1>6, <2>1, <2>4, AnswerMoves DEF Proceed
<1>7. ASSUME NEW c \in Callers, Release(c)
      PROVE  AnswerInv'
  BY <1>7, Releases DEF AnswerInv, AnswerFits
<1>8. ASSUME \A d \in Callers :
               pc'[d] = "idle" \/ (pc'[d] = pc[d] /\ calls'[d] = calls[d])
      PROVE  AnswerInv'
  BY <1>8 DEF AnswerInv, AnswerFits
<1>9. ASSUME (\E p \in Processes : Crash(p)) \/ PowerLoss \/ Tick
             \/ UNCHANGED vars
      PROVE  AnswerInv'
  <2>1. ASSUME NEW d \in Callers
        PROVE  \/ pc'[d] = "idle"
               \/ pc'[d] = pc[d] /\ calls'[d] = calls[d]
    BY <1>9, Quiet
  <2> QED
    BY <2>1, <1>8
<1> QED
  BY <1>1, <1>2, <1>3, <1>4, <1>5, <1>6, <1>7, <1>9 DEF Next, Proceed

-----------------------------------------------------------------------------
(* What a scan has seen is so.                                             *)

(* The entries a removal has left behind had not expired, a count has the  *)
(* sessions it went by, and an upsert between its rename and its answer    *)
(* still finds its session.                                                *)
ScanFits(place, call, loc, files, now) ==
    /\ place # "idle" /\ call.kind = "delete" => call.since <= now
    /\ place \in {"scan", "remove"} /\ call.kind = "delete" =>
         /\ call.since <= loc.now /\ loc.now <= now
         /\ \A id \in SessionIDs \ loc.todo :
              files[id] # NoSession => ~Removable(files[id], call.since)
    /\ place = "scan" /\ call.kind = "stats" =>
         \A p : p \in call.found <=>
            \E id \in SessionIDs \ loc.todo :
                files[id] # NoSession /\ p = <<id, files[id]>>
    /\ place = "remove" =>
         \A id \in loc.at : /\ id \in loc.todo
                            /\ files[id] # NoSession
                            /\ Removable(files[id], loc.now)
    /\ place = "syncDir" => files[call.id] = call.session

ScanInv == \A c \in Callers : ScanFits(pc[c], calls[c], local[c], file, clock)

StoreInv == IInv /\ MutexInv /\ AnswerInv /\ ScanInv

(* A session file that is there holds a session.                           *)
LEMMA Whole ==
  ASSUME DiskType, Intact, NEW id \in SessionIDs
  PROVE  file[id] \in Sessions \cup {NoSession}
  BY DEF DiskType, Intact, Contents

(* At the start nobody scans.                                              *)
LEMMA ScanInit == Init => ScanInv
  BY DEF Init, ScanInv, ScanFits

(* While one caller scans, or is about to answer for its upsert, no other  *)
(* changes the files it relies on.                                         *)
LEMMA FilesStay ==
  ASSUME OneWriter, IInv, MutexInv, NEW c \in Callers, NEW d \in Callers, c # d,
         Rename(d) \/ (Remove(d) /\ calls[d].kind = "delete")
  PROVE  /\ pc[c] \notin {"scan", "remove"}
         /\ pc[c] = "syncDir" => file'[calls[c].id] = file[calls[c].id]
<1>1. /\ pc[d] \in Working /\ Writes(d) /\ calls[d].kind \in Kinds[d]
      /\ Rename(d) => pc[d] = "rename" /\ calls[d].kind = "upsert"
                      /\ calls[d].id \in SessionIDs
      /\ Remove(d) => calls[d].kind = "delete"
  BY Calling DEF Rename, Remove, Working, Locked, Writes, IInv, Fits, CallFits,
                 PlaceFits
<1>2. Home[c] = Home[d] => pc[c] \notin Working
  BY <1>1, WriterAlone
<1>3. pc[c] \in {"scan", "remove"} =>
        calls[c].kind \in Kinds[c] \cap {"delete", "stats"}
  BY Calling DEF IInv, Fits, CallFits, PlaceFits
<1>4. pc[c] \notin {"scan", "remove"}
  BY <1>1, <1>2, <1>3 DEF OneWriter, Working, Writes
<1>5. ASSUME pc[c] = "syncDir"
      PROVE  file'[calls[c].id] = file[calls[c].id]
  <2>1. calls[c].kind \in Kinds[c] /\ calls[c].kind = "upsert"
        /\ calls[c].id \in SessionIDs
    BY <1>5, Calling DEF IInv, Fits, CallFits, PlaceFits
  <2>2. ~Remove(d)
    BY <1>1, <1>2, <1>5, <2>1 DEF OneWriter, Working, Locked
  <2>3. Rename(d) /\ calls[d].id # calls[c].id
    BY <1>1, <1>5, <2>2 DEF IInv, LockExclusive, Locked
  <2> QED
    BY <1>1, <2>1, <2>3 DEF Rename, SetFile, IInv, DiskType
<1> QED
  BY <1>4, <1>5

(* One caller moves, and the files its neighbours rely on stay.            *)
LEMMA ScanMoves ==
  ASSUME CallsInv, ScanInv, NEW c \in Callers, UNCHANGED clock,
         Call(c) \/ Proceed(c) \/ Announce(c) \/ Fails(c), ~Release(c),
         \A d \in Callers \ {c} :
             \/ file' = file
             \/ /\ pc[d] \notin {"scan", "remove"}
                /\ pc[d] = "syncDir" => file'[calls[d].id] = file[calls[d].id],
         ScanFits(pc'[c], calls'[c], local'[c], file', clock)
  PROVE  ScanInv'
<1>1. ASSUME NEW d \in Callers \ {c}
      PROVE  ScanFits(pc'[d], calls'[d], local'[d], file', clock)
  <2>1. pc'[d] = pc[d] /\ calls'[d] = calls[d] /\ local'[d] = local[d]
    BY Others
  <2>2. ScanFits(pc[d], calls[d], local[d], file, clock)
    BY DEF ScanInv
  <2> QED
    BY <2>1, <2>2 DEF ScanFits
<1> QED
  BY <1>1 DEF ScanInv

(* Every action keeps what the scans have seen true.                       *)
LEMMA ScanStep ==
  OneWriter /\ StoreInv /\ IInv' /\ [Next]_vars => ScanInv'
<1> SUFFICES ASSUME OneWriter, StoreInv, IInv', [Next]_vars
             PROVE  ScanInv'
  OBVIOUS
<1>i. /\ DiskType /\ Intact /\ MuInv /\ CallsInv /\ CallsInv' /\ IInv
      /\ MutexInv /\ AnswerInv /\ ScanInv
  BY DEF StoreInv, IInv
<1>t. /\ clock \in Int /\ NoExpiry \in Int
      /\ \A s \in Sessions : s.expires \in Int
      /\ \A c \in Callers : pc[c] # "idle" =>
            /\ calls[c] \in CallRecords /\ local[c] \in LocalType
            /\ calls[c].since \in Int /\ local[c].now \in Int
            /\ PlaceFits(pc[c], calls[c], local[c])
  BY <1>i, Calling, FileStoreAssumption
  DEF CallsInv, CallersType, CallRecords, LocalType, Fits, NoExpiry
<1>1. ASSUME NEW c \in Callers, Call(c)
      PROVE  ScanInv'
  <2>1. PICK a \in Arguments : calls'[c] = Begun(a, clock)
    BY <1>1, <1>i DEF Call, CallsInv, CallersType
  <2>2. pc'[c] = "called" /\ ~Release(c) /\ UNCHANGED <<file, clock>>
    BY <1>1, <1>i DEF Call, Release, Goto, CallsInv, CallersType, disk
  <2>3. ScanFits(pc'[c], calls'[c], local'[c], file', clock)
    BY <2>1, <2>2, <1>t DEF ScanFits, Begun
  <2> QED
    BY <1>1, <1>i, <2>2, <2>3, ScanMoves
<1>2. ASSUME NEW c \in Callers,
             Refuse(c) \/ PassContext(c) \/ RLock(c) \/ Announce(c) \/ Lock(c)
             \/ AcquireFileLock(c) \/ GiveUp(c) \/ Read(c) \/ WriteTmp(c)
             \/ SyncDir(c) \/ ScanEnds(c) \/ Unlock(c) \/ Fails(c)
      PROVE  ScanInv'
  <2>1. /\ ~Release(c) /\ UNCHANGED <<file, clock>>
        /\ pc'[c] \notin {"scan", "remove", "syncDir"}
    BY <1>2, <1>i
    DEF Refuse, PassContext, RLock, Announce, Lock, AcquireFileLock, GiveUp,
        Read, WriteTmp, SyncDir, ScanEnds, Unlock, Fails, Release, Locked,
        Goto, Inside, disk, CallsInv, CallersType
  <2>2. /\ pc[c] # "idle" /\ calls'[c].kind = calls[c].kind
        /\ calls'[c].since = calls[c].since
    BY <1>2, <1>i, <2>1, SameCall DEF Proceed
  <2>3. ScanFits(pc'[c], calls'[c], local'[c], file', clock)
    BY <1>i, <2>1, <2>2 DEF ScanInv, ScanFits
  <2> QED
    BY <1>2, <1>i, <2>1, <2>3, ScanMoves DEF Proceed
<1>3. ASSUME NEW c \in Callers, Rename(c)
      PROVE  ScanInv'
  <2>1. /\ ~Release(c) /\ UNCHANGED clock /\ pc'[c] = "syncDir"
        /\ pc[c] = "rename" /\ calls[c].kind = "upsert"
        /\ file' = [file EXCEPT ![calls[c].id] = calls[c].session]
    BY <1>3, <1>i, <1>t
    DEF Rename, SetFile, Release, Goto, CallsInv, CallersType, PlaceFits
  <2>2. /\ calls'[c].kind = calls[c].kind /\ calls'[c].id = calls[c].id
        /\ calls'[c].session = calls[c].session
        /\ calls'[c].since = calls[c].since
    BY <1>3, <1>i, <2>1, SameCall DEF Proceed
  <2>3. calls[c].id \in SessionIDs
    BY <1>i, <2>1, Calling DEF Fits, CallFits
  <2>4. ScanFits(pc'[c], calls'[c], local'[c], file', clock)
    BY <1>i, <2>1, <2>2, <2>3 DEF ScanFits, DiskType
  <2>5. ASSUME NEW d \in Callers \ {c}
        PROVE  /\ pc[d] \notin {"scan", "remove"}
               /\ pc[d] = "syncDir" => file'[calls[d].id] = file[calls[d].id]
    BY <1>3, <1>i, FilesStay
  <2> QED
    BY <1>3, <1>i, <2>1, <2>4, <2>5, ScanMoves DEF Proceed
<1>4. ASSUME NEW c \in Callers, List(c)
      PROVE  ScanInv'
  <2>1. /\ ~Release(c) /\ UNCHANGED <<file, clock, calls>> /\ pc'[c] = "scan"
        /\ pc[c] = "list" /\ calls[c].found = {}
        /\ local'[c] = [local[c] EXCEPT
             !.todo = {id \in SessionIDs : file[id] # NoSession},
             !.now = IF Writes(c) THEN clock ELSE 0]
    BY <1>4, <1>i
    DEF List, Release, Goto, disk, CallsInv, CallersType, AnswerInv, AnswerFits
  <2>2. /\ local'[c].todo = {id \in SessionIDs : file[id] # NoSession}
        /\ calls[c].kind = "delete" => local'[c].now = clock
    BY <1>t, <2>1 DEF LocalType, Writes
  <2>3. calls[c].kind = "delete" => calls[c].since <= clock
    BY <1>i, <2>1 DEF ScanInv, ScanFits
  <2>4. ScanFits(pc'[c], calls'[c], local'[c], file', clock)
    BY <1>t, <2>1, <2>2, <2>3 DEF ScanFits
  <2> QED
    BY <1>4, <1>i, <2>1, <2>4, ScanMoves DEF Proceed
<1>5. ASSUME NEW c \in Callers, Scan(c)
      PROVE  ScanInv'
  <2>1. /\ ~Release(c) /\ UNCHANGED <<file, clock>> /\ pc[c] = "scan"
        /\ ScanFits(pc[c], calls[c], local[c], file, clock)
        /\ calls[c].kind \in {"delete", "stats"}
    BY <1>5, <1>i, <1>t DEF Scan, Release, disk, ScanInv, PlaceFits
  <2>2. PICK id \in local[c].todo :
          /\ file[id] \in Sessions
          /\ IF calls[c].kind = "stats"
             THEN Add(c, id) /\ Visited(c, id) /\ UNCHANGED pc
             ELSE IF Removable(file[id], local[c].now)
             THEN /\ local' = [local EXCEPT ![c].at = {id}]
                  /\ Goto(c, "remove")
                  /\ UNCHANGED calls
             ELSE Visited(c, id) /\ UNCHANGED <<pc, calls>>
    BY <1>5 DEF Scan
  <2>3. id \in SessionIDs /\ NoSession \notin Sessions
    BY <1>t, <2>1, FileStoreAssumption DEF LocalType
  <2>4. CASE calls[c].kind = "stats"
    <3>1. /\ local'[c].todo = local[c].todo \ {id} /\ pc'[c] = "scan"
          /\ calls'[c] = [calls[c] EXCEPT !.found = @ \cup {<<id, file[id]>>}]
      BY <1>i, <1>t, <2>1, <2>2, <2>4
      DEF Add, Visited, CallsInv, CallersType, LocalType
    <3>2. /\ calls'[c].kind = "stats"
          /\ calls'[c].found = calls[c].found \cup {<<id, file[id]>>}
      BY <1>t, <2>1, <2>4, <3>1 DEF CallRecords
    <3>3. ScanFits(pc'[c], calls'[c], local'[c], file', clock)
      BY <2>1, <2>2, <2>3, <2>4, <3>1, <3>2 DEF ScanFits
    <3> QED
      BY <1>5, <1>i, <2>1, <3>3, ScanMoves DEF Proceed
  <2>5. CASE calls[c].kind = "delete" /\ Removable(file[id], local[c].now)
    <3>1. /\ pc'[c] = "remove" /\ UNCHANGED calls
          /\ local'[c] = [local[c] EXCEPT !.at = {id}]
      BY <1>i, <2>2, <2>5 DEF Goto, CallsInv, CallersType
    <3>2. /\ local'[c].todo = local[c].todo /\ local'[c].at = {id}
          /\ local'[c].now = local[c].now
      BY <1>t, <2>1, <3>1 DEF LocalType
    <3>3. ScanFits(pc'[c], calls'[c], local'[c], file', clock)
      BY <2>1, <2>2, <2>3, <2>5, <3>1, <3>2 DEF ScanFits
    <3> QED
      BY <1>5, <1>i, <2>1, <3>3, ScanMoves DEF Proceed
  <2>6. CASE calls[c].kind = "delete" /\ ~Removable(file[id], local[c].now)
    <3>1. /\ pc'[c] = "scan" /\ UNCHANGED calls
          /\ local'[c] = [local[c] EXCEPT !.todo = @ \ {id}, !.at = {}]
      BY <1>i, <2>1, <2>2, <2>6 DEF Visited, CallsInv, CallersType
    <3>2. /\ local'[c].todo = local[c].todo \ {id}
          /\ local'[c].now = local[c].now
      BY <1>t, <2>1, <3>1 DEF LocalType
    <3>3. ~Removable(file[id], calls[c].since)
      BY <1>t, <2>1, <2>2, <2>6 DEF Removable, ScanFits
    <3>4. ScanFits(pc'[c], calls'[c], local'[c], file', clock)
      BY <2>1, <2>2, <2>3, <2>6, <3>1, <3>2, <3>3 DEF ScanFits
    <3> QED
      BY <1>5, <1>i, <2>1, <3>4, ScanMoves DEF Proceed
  <2> QED
    BY <2>1, <2>4, <2>5, <2>6
<1>6. ASSUME NEW c \in Callers, Remove(c)
      PROVE  ScanInv'
  <2>1. /\ ~Release(c) /\ UNCHANGED clock /\ pc[c] = "remove"
        /\ ScanFits(pc[c], calls[c], local[c], file, clock)
        /\ calls[c].kind = "delete" /\ pc'[c] = "scan"
    BY <1>6, <1>i
    DEF Remove, Release, Goto, ScanInv, AnswerInv, AnswerFits, CallsInv,
        CallersType
  <2>2. PICK id \in local[c].at :
          /\ file' = [file EXCEPT ![id] = NoSession]
          /\ Visited(c, id)
    BY <1>6 DEF Remove, SetFile
  <2>3. id \in SessionIDs
    BY <1>t, <2>1 DEF LocalType
  <2>4. /\ local'[c].todo = local[c].todo \ {id}
        /\ local'[c].now = local[c].now
    BY <1>i, <1>t, <2>1, <2>2 DEF Visited, CallsInv, CallersType, LocalType
  <2>5. calls'[c].kind = "delete" /\ calls'[c].since = calls[c].since
    BY <1>6, <1>i, <2>1, SameCall DEF Proceed
  <2>6. ScanFits(pc'[c], calls'[c], local'[c], file', clock)
    BY <1>i, <2>1, <2>2, <2>3, <2>4, <2>5 DEF ScanFits, DiskType
  <2>7. ASSUME NEW d \in Callers \ {c}
        PROVE  /\ pc[d] \notin {"scan", "remove"}
               /\ pc[d] = "syncDir" => file'[calls[d].id] = file[calls[d].id]
    BY <1>6, <1>i, <2>1, FilesStay
  <2> QED
    BY <1>6, <1>i, <2>1, <2>6, <2>7, ScanMoves DEF Proceed
<1>7. ASSUME NEW c \in Callers, Release(c)
      PROVE  ScanInv'
  <2>1. UNCHANGED <<file, clock, local>>
    BY <1>7 DEF Release, disk
  <2>2. \A d \in Callers :
          \/ pc'[d] = "idle"
          \/ pc'[d] = pc[d] /\ calls'[d] = calls[d]
          \/ /\ pc[d] = "behind" /\ pc'[d] \in {"lock", "list"}
             /\ calls'[d] = calls[d]
    BY <1>7, <1>i, Releases
  <2> QED
    BY <1>i, <2>1, <2>2 DEF ScanInv, ScanFits
<1>8. ASSUME (\E p \in Processes : Crash(p)) \/ Tick \/ UNCHANGED vars
      PROVE  ScanInv'
  <2>1. UNCHANGED file /\ clock' \in Int /\ clock <= clock'
    <3>1. CASE \E p \in Processes : Crash(p)
      BY <3>1, <1>t DEF Crash, disk
    <3>2. CASE Tick
      BY <3>2, <1>t DEF Tick, disk
    <3>3. CASE UNCHANGED vars
      BY <3>3, <1>t DEF vars
    <3> QED
      BY <1>8, <3>1, <3>2, <3>3
  <2>2. \A d \in Callers :
          \/ pc'[d] = "idle"
          \/ pc'[d] = pc[d] /\ calls'[d] = calls[d] /\ local'[d] = local[d]
    BY <1>8, <1>i, Quiet
  <2>3. \A d \in Callers : ScanFits(pc[d], calls[d], local[d], file, clock)
    BY <1>i DEF ScanInv
  <2>4. \A d \in Callers : pc[d] # "idle" =>
           calls[d].since \in Int /\ local[d].now \in Int
    BY <1>t
  <2> QED
    BY <1>t, <2>1, <2>2, <2>3, <2>4 DEF ScanInv, ScanFits
<1>9. ASSUME PowerLoss
      PROVE  ScanInv'
  BY <1>9 DEF PowerLoss, Gone, ScanInv, ScanFits
<1> QED
  BY <1>1, <1>2, <1>3, <1>4, <1>5, <1>6, <1>7, <1>8, <1>9 DEF Next, Proceed

(* All of it together is inductive.                                        *)
LEMMA StoreInvHolds == ASSUME OneWriter PROVE Spec => []StoreInv
<1>1. Init => StoreInv
  BY IInvInit, MutexInit, AnswerInit, ScanInit DEF StoreInv
<1>2. StoreInv /\ [Next]_vars => StoreInv'
  BY IInvStep, MutexStep, AnswerStep, ScanStep, OneWriter DEF StoreInv, IInv
<1> QED
  BY <1>1, <1>2, PTL DEF Spec

-----------------------------------------------------------------------------
(* Steps of the store as steps of its promise.                             *)

(* A call as the promise shows it.                                         *)
ShownOf(place, call) ==
    IF place # "idle" /\ call.kind = "stats" /\ call.answer # "ok"
    THEN [call EXCEPT !.found = {}] ELSE call

(* The call of each caller, and what an unchanged one looks like.          *)
LEMMA ShownDef ==
  /\ Shown = [c \in Callers |-> ShownOf(pc[c], calls[c])]
  /\ Shown' = [c \in Callers |-> ShownOf(pc'[c], calls'[c])]
  BY DEF Shown, ShownOf

(* A call under way shows what it is.                                      *)
LEMMA ShownCall ==
  ASSUME CallsInv, NEW c \in Callers, pc[c] # "idle"
  PROVE  /\ Shown[c] = ShownOf(pc[c], calls[c])
         /\ Shown[c] \in CallRecords /\ Shown[c] # NoCall
         /\ Shown[c].kind = calls[c].kind /\ Shown[c].id = calls[c].id
         /\ Shown[c].session = calls[c].session
         /\ Shown[c].since = calls[c].since
         /\ Shown[c].answer = calls[c].answer
         /\ calls[c].kind # "stats" => Shown[c] = calls[c]
<1>1. calls[c] \in CallRecords
  BY Calling
<1>2. Shown[c] = ShownOf(pc[c], calls[c])
  BY ShownDef
<1>3. [calls[c] EXCEPT !.found = {}] \in CallRecords
  BY <1>1 DEF CallRecords
<1>4. Shown[c] \in CallRecords
  BY <1>1, <1>2, <1>3 DEF ShownOf
<1> QED
  BY <1>1, <1>2, <1>4, NoCallAssumption DEF ShownOf, CallRecords

(* Nobody's call shows a difference.                                       *)
LEMMA ShownSame ==
  ASSUME \A d \in Callers : ShownOf(pc'[d], calls'[d]) = ShownOf(pc[d], calls[d])
  PROVE  UNCHANGED Shown
  BY ShownDef

(* One caller's call shows an answer.                                      *)
LEMMA ShownAnswers ==
  ASSUME CallsInv, NEW c \in Callers, NEW answer, NEW found,
         Proceed(c) \/ Announce(c) \/ Fails(c), ~Release(c),
         ShownOf(pc'[c], calls'[c]) =
             [Shown[c] EXCEPT !.answer = answer, !.found = found]
  PROVE  Promise!Answers(c, answer, found)
<1>1. \A d \in Callers \ {c} : ShownOf(pc'[d], calls'[d]) = Shown[d]
  BY Others, ShownDef
<1>2. Shown' = [Shown EXCEPT ![c] =
                  [Shown[c] EXCEPT !.answer = answer, !.found = found]]
  BY <1>1, ShownDef
<1> QED
  BY <1>2 DEF Promise!Answers

(* The store starts as its promise does.                                   *)
LEMMA PromiseInit == Init => Promise!Init
  BY ShownDef DEF Init, Promise!Init, ShownOf

(* An operation that fails.                                                *)
LEMMA FailStep ==
  ASSUME StoreInv, StoreInv', NEW c \in Callers,
         Refuse(c) \/ GiveUp(c) \/ Fails(c)
  PROVE  Promise!Fail(c)
<1>i. CallsInv /\ CallsInv' /\ AnswerInv
  BY DEF StoreInv, IInv
<1>1. /\ pc[c] # "idle" /\ pc'[c] # "idle" /\ ~Release(c)
      /\ calls[c].answer \in {"pending", "applied"}
      /\ calls'[c] = [calls[c] EXCEPT !.answer = "error"]
      /\ UNCHANGED <<file, fileAfter, clock>>
  BY <1>i DEF Refuse, GiveUp, Fails, Release, Goto, SetAnswer, Locked, disk,
              CallsInv, CallersType, AnswerInv, AnswerFits
<1>2. calls[c] \in CallRecords
  BY <1>i, <1>1, Calling
<1>3. ShownOf(pc'[c], calls'[c]) =
        [Shown[c] EXCEPT !.answer = "error", !.found = Shown[c].found]
  <2>1. Shown[c] = ShownOf(pc[c], calls[c])
    BY ShownDef
  <2>2. CASE calls[c].kind = "stats"
    BY <1>1, <1>2, <2>1, <2>2 DEF ShownOf, CallRecords
  <2>3. CASE calls[c].kind # "stats"
    BY <1>1, <1>2, <2>1, <2>3 DEF ShownOf, CallRecords
  <2> QED
    BY <2>2, <2>3
<1>4. Promise!Answers(c, "error", Shown[c].found)
  BY <1>i, <1>1, <1>3, ShownAnswers DEF Proceed
<1> QED
  BY <1>i, <1>1, <1>4, ShownCall DEF Promise!Fail

(* A step the promise does not see.                                        *)
LEMMA HiddenStep ==
  ASSUME StoreInv, StoreInv', NEW c \in Callers,
         PassContext(c) \/ RLock(c) \/ Announce(c) \/ Lock(c)
         \/ AcquireFileLock(c) \/ WriteTmp(c) \/ List(c) \/ Scan(c) \/ Unlock(c)
  PROVE  UNCHANGED Promise!storeVars
<1>i. CallsInv /\ CallsInv' /\ AnswerInv
  BY DEF StoreInv, IInv
<1>1. /\ pc[c] # "idle" /\ pc'[c] # "idle" /\ ~Release(c)
      /\ UNCHANGED <<file, fileAfter, clock>>
      /\ \/ calls'[c] = calls[c]
         \/ /\ calls[c].kind = "stats" /\ calls[c].answer = "pending"
            /\ \E found : calls'[c] = [calls[c] EXCEPT !.found = found]
  BY <1>i DEF PassContext, RLock, Announce, Lock, AcquireFileLock, WriteTmp,
              List, Scan, Unlock, Release, Goto, Inside, Add, disk, CallsInv,
              CallersType, AnswerInv, AnswerFits
<1>2. calls[c] \in CallRecords
  BY <1>i, <1>1, Calling
<1>3. ShownOf(pc'[c], calls'[c]) = ShownOf(pc[c], calls[c])
  BY <1>1, <1>2 DEF ShownOf, CallRecords
<1>4. \A d \in Callers \ {c} :
         ShownOf(pc'[d], calls'[d]) = ShownOf(pc[d], calls[d])
  BY <1>i, <1>1, Others DEF Proceed
<1> QED
  BY <1>1, <1>3, <1>4, ShownSame DEF Promise!storeVars

(* A call begins.                                                          *)
LEMMA CallStep ==
  ASSUME StoreInv, StoreInv', NEW c \in Callers, Call(c)
  PROVE  Promise!Call(c)
<1>i. CallsInv /\ CallsInv'
  BY DEF StoreInv, IInv
<1>1. PICK a \in Arguments : calls' = [calls EXCEPT ![c] = Begun(a, clock)]
  BY DEF Call
<1>2. /\ pc[c] = "idle" /\ pc'[c] = "called" /\ ~Release(c)
      /\ calls'[c] = Begun(a, clock) /\ UNCHANGED <<file, fileAfter, clock>>
      /\ calls[c] = NoCall
  BY <1>1, <1>i DEF Call, Release, Goto, disk, CallsInv, CallersType, Fits, CallFits
<1>3. ShownOf(pc'[c], calls'[c]) = Begun(a, clock)
  BY <1>2 DEF ShownOf, Begun
<1>4. \A d \in Callers \ {c} : ShownOf(pc'[d], calls'[d]) = Shown[d]
  BY <1>i, <1>2, Others, ShownDef
<1>5. Shown' = [Shown EXCEPT ![c] = Begun(a, clock)]
  BY <1>3, <1>4, ShownDef
<1>6. Shown[c] = NoCall
  BY <1>2, ShownDef DEF ShownOf
<1> QED
  BY <1>2, <1>5, <1>6
  DEF Promise!Call, Promise!Arguments, Arguments, Promise!Begun, Begun

(* A get reads the session's file.                                         *)
LEMMA ReadStep ==
  ASSUME StoreInv, StoreInv', NEW c \in Callers, Read(c)
  PROVE  Promise!Get(c)
<1> DEFINE id == calls[c].id
<1>i. CallsInv /\ CallsInv' /\ AnswerInv /\ DiskType /\ Intact
  BY DEF StoreInv, IInv
<1>1. /\ pc[c] = "read" /\ pc'[c] = "unlock" /\ ~Release(c)
      /\ calls'[c] = [calls[c] EXCEPT
           !.answer = IF file[id] = Torn THEN "error" ELSE "ok",
           !.found = Found(id)]
      /\ UNCHANGED <<file, fileAfter, clock>>
  BY <1>i DEF Read, Release, Goto, disk, CallsInv, CallersType
<1>2. /\ calls[c] \in CallRecords /\ calls[c].kind = "get" /\ id \in SessionIDs
      /\ calls[c].answer = "pending"
  BY <1>i, <1>1, Calling
  DEF Fits, CallFits, PlaceFits, AnswerInv, AnswerFits
<1>3. file[id] \in Sessions \cup {NoSession} /\ file[id] # Torn
  BY <1>i, <1>2, Whole, FileStoreAssumption
<1>4. Found(id) = {p \in Promise!Snapshot : p[1] = id}
  BY <1>2, <1>3, FileStoreAssumption DEF Found, Promise!Snapshot, Promise!Held
<1>5. Shown[c] = calls[c]
  BY <1>i, <1>1, <1>2, ShownCall
<1>6. ShownOf(pc'[c], calls'[c]) =
        [Shown[c] EXCEPT !.answer = "ok",
                         !.found = {p \in Promise!Snapshot : p[1] = id}]
  BY <1>1, <1>2, <1>3, <1>4, <1>5 DEF ShownOf, CallRecords
<1>7. Promise!Answers(c, "ok", {p \in Promise!Snapshot : p[1] = id})
  BY <1>i, <1>1, <1>6, ShownAnswers DEF Proceed
<1>8. Promise!Pending(c, "get")
  BY <1>i, <1>1, <1>2, ShownCall DEF Promise!Pending
<1> QED
  BY <1>1, <1>5, <1>7, <1>8 DEF Promise!Get

(* An upsert takes effect when its file is renamed.                        *)
LEMMA RenameStep ==
  ASSUME StoreInv, StoreInv', NEW c \in Callers, Rename(c)
  PROVE  Promise!Upsert(c)
<1>i. CallsInv /\ CallsInv' /\ AnswerInv /\ DiskType
  BY DEF StoreInv, IInv
<1>1. /\ pc[c] = "rename" /\ pc'[c] = "syncDir" /\ ~Release(c)
      /\ calls'[c] = [calls[c] EXCEPT !.answer = "applied"]
      /\ UNCHANGED clock
  BY <1>i DEF Rename, Release, Goto, SetAnswer, CallsInv, CallersType
<1>2. /\ calls[c] \in CallRecords /\ calls[c].kind = "upsert"
      /\ calls[c].answer = "pending" /\ calls[c].found = {} /\ local[c].synced
  BY <1>i, <1>1, Calling
  DEF Fits, CallFits, PlaceFits, AnswerInv, AnswerFits
<1>3. /\ file' = [file EXCEPT ![calls[c].id] = calls[c].session]
      /\ fileAfter' = [fileAfter EXCEPT
                         ![calls[c].id] = @ \cup {calls[c].session}]
  BY <1>2 DEF Rename, SetFile
<1>4. Shown[c] = calls[c]
  BY <1>i, <1>1, <1>2, ShownCall
<1>5. ShownOf(pc'[c], calls'[c]) =
        [Shown[c] EXCEPT !.answer = "applied", !.found = {}]
  BY <1>1, <1>2, <1>4 DEF ShownOf, CallRecords
<1>6. Promise!Answers(c, "applied", {})
  BY <1>i, <1>1, <1>5, ShownAnswers DEF Proceed
<1>7. Promise!Pending(c, "upsert")
  BY <1>i, <1>1, <1>2, ShownCall DEF Promise!Pending
<1> QED
  BY <1>1, <1>3, <1>4, <1>6, <1>7 DEF Promise!Upsert

(* It is reported once the directory is on disk.                           *)
LEMMA SyncDirStep ==
  ASSUME StoreInv, StoreInv', NEW c \in Callers, SyncDir(c)
  PROVE  Promise!UpsertOk(c)
<1>i. CallsInv /\ CallsInv' /\ AnswerInv /\ ScanInv
  BY DEF StoreInv, IInv
<1>1. /\ pc[c] = "syncDir" /\ pc'[c] = "unlock" /\ ~Release(c)
      /\ calls'[c] = [calls[c] EXCEPT !.answer = "ok"]
      /\ fileAfter' = [id \in SessionIDs |-> {file[id]}]
      /\ UNCHANGED <<file, clock>>
  BY <1>i DEF SyncDir, Settled, Release, Goto, SetAnswer, CallsInv, CallersType
<1>2. /\ calls[c] \in CallRecords /\ calls[c].kind = "upsert"
      /\ calls[c].answer = "applied" /\ calls[c].found = {}
      /\ calls[c].id \in SessionIDs /\ file[calls[c].id] = calls[c].session
  BY <1>i, <1>1, Calling
  DEF Fits, CallFits, PlaceFits, AnswerInv, AnswerFits, ScanInv, ScanFits
<1>3. Shown[c] = calls[c] /\ Shown[c] # NoCall
  BY <1>i, <1>1, <1>2, ShownCall
<1>4. ShownOf(pc'[c], calls'[c]) =
        [Shown[c] EXCEPT !.answer = "ok", !.found = {}]
  BY <1>1, <1>2, <1>3 DEF ShownOf, CallRecords
<1>5. Promise!Answers(c, "ok", {})
  BY <1>i, <1>1, <1>4, ShownAnswers DEF Proceed
<1>6. Promise!Settle(SessionIDs)
  BY <1>1 DEF Promise!Settle
<1>7. \E ids \in SUBSET SessionIDs : calls[c].id \in ids /\ Promise!Settle(ids)
  BY <1>2, <1>6
<1> QED
  BY <1>1, <1>2, <1>3, <1>5, <1>7 DEF Promise!UpsertOk

(* A removal takes an expired session, which nobody has replaced since.    *)
LEMMA RemoveStep ==
  ASSUME StoreInv, StoreInv', NEW c \in Callers, Remove(c)
  PROVE  Promise!Remove(c)
<1>i. CallsInv /\ CallsInv' /\ AnswerInv /\ ScanInv /\ DiskType
  BY DEF StoreInv, IInv
<1>1. PICK id \in local[c].at :
        /\ file' = [file EXCEPT ![id] = NoSession]
        /\ fileAfter' = [fileAfter EXCEPT ![id] = @ \cup {NoSession}]
        /\ calls' = [calls EXCEPT ![c].found = @ \cup {<<id, file[id]>>}]
  BY DEF Remove, SetFile, Add
<1>2. /\ pc[c] = "remove" /\ pc'[c] = "scan" /\ ~Release(c) /\ UNCHANGED clock
      /\ calls'[c] = [calls[c] EXCEPT !.found = @ \cup {<<id, file[id]>>}]
  BY <1>i, <1>1 DEF Remove, Release, Goto, CallsInv, CallersType
<1>3. /\ calls[c] \in CallRecords /\ calls[c].kind = "delete"
      /\ calls[c].answer = "pending" /\ local[c] \in LocalType
      /\ id \in SessionIDs
  BY <1>i, <1>2, Calling
  DEF AnswerInv, AnswerFits, CallsInv, CallersType, LocalType
<1>4. /\ file[id] # NoSession /\ Removable(file[id], local[c].now)
      /\ local[c].now <= clock
  BY <1>i, <1>2, <1>3 DEF ScanInv, ScanFits
<1>5. file[id] \in Sessions
  BY <1>i, <1>3, <1>4, Whole DEF StoreInv, IInv
<1>6. Promise!Removable(file[id], clock) /\ id \in Promise!Held
  <2>1. /\ clock \in Int /\ local[c].now \in Int /\ file[id].expires \in Int
        /\ NoExpiry \in Int
    BY <1>i, <1>3, <1>5, FileStoreAssumption
    DEF CallsInv, CallersType, LocalType, NoExpiry
  <2> QED
    BY <1>3, <1>4, <2>1
    DEF Removable, Promise!Removable, Promise!Held, NoExpiry, Promise!NoExpiry
<1>7. Shown[c] = calls[c]
  BY <1>i, <1>2, <1>3, ShownCall
<1>8. ShownOf(pc'[c], calls'[c]) =
        [Shown[c] EXCEPT !.answer = "pending",
                         !.found = calls[c].found \cup {<<id, file[id]>>}]
  BY <1>2, <1>3, <1>7 DEF ShownOf, CallRecords
<1>9. Promise!Answers(c, "pending", Shown[c].found \cup {<<id, file[id]>>})
  BY <1>i, <1>2, <1>7, <1>8, ShownAnswers DEF Proceed
<1>10. Promise!Pending(c, "delete")
  BY <1>i, <1>2, <1>3, ShownCall DEF Promise!Pending
<1> QED
  BY <1>1, <1>2, <1>6, <1>9, <1>10 DEF Promise!Remove

(* A scan that ends has seen the whole directory.                          *)
LEMMA ScanEndsStep ==
  ASSUME StoreInv, StoreInv', NEW c \in Callers, ScanEnds(c)
  PROVE  Promise!Stats(c) \/ Promise!DeleteOk(c)
<1>i. CallsInv /\ CallsInv' /\ AnswerInv /\ ScanInv
  BY DEF StoreInv, IInv
<1>1. /\ pc[c] = "scan" /\ pc'[c] = "release" /\ ~Release(c)
      /\ local[c].todo = {}
      /\ calls'[c] = [calls[c] EXCEPT !.answer = "ok"]
      /\ UNCHANGED <<file, fileAfter, clock>>
  BY <1>i DEF ScanEnds, Release, Goto, SetAnswer, disk, CallsInv, CallersType
<1>2. /\ calls[c] \in CallRecords /\ calls[c].kind \in {"delete", "stats"}
      /\ calls[c].answer = "pending"
      /\ ScanFits(pc[c], calls[c], local[c], file, clock)
  BY <1>i, <1>1, Calling
  DEF Fits, PlaceFits, AnswerInv, AnswerFits, ScanInv
<1>3. CASE calls[c].kind = "stats"
  <2>1. \A p : p \in calls[c].found <=> p \in Promise!Snapshot
    BY <1>1, <1>2, <1>3 DEF ScanFits, Promise!Snapshot, Promise!Held
  <2>2. calls[c].found = Promise!Snapshot
    BY <2>1
  <2>3. ShownOf(pc'[c], calls'[c]) =
          [Shown[c] EXCEPT !.answer = "ok", !.found = Promise!Snapshot]
    <3>1. Shown[c] = [calls[c] EXCEPT !.found = {}]
      BY <1>1, <1>2, <1>3, ShownDef DEF ShownOf
    <3> QED
      BY <1>1, <1>2, <1>3, <2>2, <3>1 DEF ShownOf, CallRecords
  <2>4. Promise!Answers(c, "ok", Promise!Snapshot)
    BY <1>i, <1>1, <2>3, ShownAnswers DEF Proceed
  <2>5. Promise!Pending(c, "stats")
    BY <1>i, <1>1, <1>2, <1>3, ShownCall DEF Promise!Pending
  <2> QED
    BY <1>1, <2>4, <2>5 DEF Promise!Stats
<1>4. CASE calls[c].kind = "delete"
  <2>1. Shown[c] = calls[c]
    BY <1>i, <1>1, <1>4, ShownCall
  <2>2. \A id \in Promise!Held : ~Promise!Removable(file[id], Shown[c].since)
    BY <1>1, <1>2, <1>4, <2>1
    DEF ScanFits, Promise!Held, Removable, Promise!Removable, NoExpiry,
        Promise!NoExpiry
  <2>3. ShownOf(pc'[c], calls'[c]) =
          [Shown[c] EXCEPT !.answer = "ok", !.found = Shown[c].found]
    BY <1>1, <1>2, <1>4, <2>1 DEF ShownOf, CallRecords
  <2>4. Promise!Answers(c, "ok", Shown[c].found)
    BY <1>i, <1>1, <2>3, ShownAnswers DEF Proceed
  <2>5. Promise!Pending(c, "delete")
    BY <1>i, <1>1, <1>2, <1>4, ShownCall DEF Promise!Pending
  <2> QED
    BY <1>1, <2>2, <2>4, <2>5 DEF Promise!DeleteOk
<1> QED
  BY <1>2, <1>3, <1>4

(* A call returns; those it lets in show nothing of it.                    *)
LEMMA ReleaseStep ==
  ASSUME StoreInv, NEW c \in Callers, Release(c)
  PROVE  Promise!Return(c)
<1>i. CallsInv /\ AnswerInv /\ MuInv
  BY DEF StoreInv, IInv
<1>1. /\ pc[c] = "release" /\ UNCHANGED <<file, fileAfter, clock>>
      /\ calls[c].answer \in {"ok", "error"}
  BY <1>i DEF Release, disk, AnswerInv, AnswerFits
<1>2. \A d \in Callers : ShownOf(pc'[d], calls'[d]) =
                           IF d = c THEN NoCall ELSE ShownOf(pc[d], calls[d])
  <2>1. ASSUME NEW d \in Callers
        PROVE  ShownOf(pc'[d], calls'[d]) =
                 IF d = c THEN NoCall ELSE ShownOf(pc[d], calls[d])
    BY <1>i, Releases DEF ShownOf
  <2> QED
    BY <2>1
<1>3. Shown' = [Shown EXCEPT ![c] = NoCall]
  BY <1>2, ShownDef
<1>4. Shown[c] # NoCall /\ Shown[c].answer \in {"ok", "error"}
  BY <1>i, <1>1, ShownCall
<1> QED
  BY <1>1, <1>3, <1>4 DEF Promise!Return

(* Crashes, power losses and time are the promise's.                       *)
LEMMA QuietStep ==
  ASSUME StoreInv,
         (\E p \in Processes : Crash(p)) \/ PowerLoss \/ Tick \/ UNCHANGED vars
  PROVE  [Promise!Next]_(Promise!storeVars)
<1>1. ASSUME NEW p \in Processes, Crash(p)
      PROVE  Promise!Crash
  <2> DEFINE cs == {c \in Callers : Home[c] = p}
  <2>1. \A d \in Callers : ShownOf(pc'[d], calls'[d]) =
                             IF d \in cs THEN NoCall ELSE ShownOf(pc[d], calls[d])
    BY <1>1 DEF Crash, Gone, ShownOf
  <2>2. Shown' = [d \in Callers |-> IF d \in cs THEN NoCall ELSE Shown[d]]
    BY <2>1, ShownDef
  <2>3. cs \in SUBSET Callers
    OBVIOUS
  <2>4. \E gone \in SUBSET Callers :
          Shown' = [d \in Callers |-> IF d \in gone THEN NoCall ELSE Shown[d]]
    BY <2>2, <2>3
  <2>5. UNCHANGED <<file, fileAfter, clock>>
    BY <1>1 DEF Crash, disk
  <2> QED
    BY <2>4, <2>5 DEF Promise!Crash
<1>2. ASSUME PowerLoss
      PROVE  Promise!PowerLoss
  <2>1. \A d \in Callers : ShownOf(pc'[d], calls'[d]) = NoCall
    BY <1>2 DEF PowerLoss, Gone, ShownOf
  <2>2. Shown' = [d \in Callers |-> NoCall]
    BY <2>1, ShownDef
  <2>3. /\ file' = [id \in SessionIDs |-> file'[id]]
        /\ \A id \in SessionIDs : file'[id] \in fileAfter[id]
        /\ fileAfter' = [id \in SessionIDs |-> {file'[id]}]
        /\ UNCHANGED clock
    BY <1>2 DEF PowerLoss
  <2> QED
    BY <2>2, <2>3 DEF Promise!PowerLoss
<1>3. ASSUME Tick
      PROVE  Promise!Tick
  <2>1. UNCHANGED Shown
    BY <1>3, ShownSame DEF Tick
  <2> QED
    BY <1>3, <2>1 DEF Tick, Promise!Tick, disk
<1>4. ASSUME UNCHANGED vars
      PROVE  UNCHANGED Promise!storeVars
  <2>1. UNCHANGED Shown
    BY <1>4, ShownSame DEF vars
  <2> QED
    BY <1>4, <2>1 DEF vars, Promise!storeVars
<1> QED
  BY <1>1, <1>2, <1>3, <1>4 DEF Promise!Next

(* Every step of the store is a step of its promise, or none.              *)
LEMMA NextStep ==
  StoreInv /\ StoreInv' /\ [Next]_vars => [Promise!Next]_(Promise!storeVars)
<1> SUFFICES ASSUME StoreInv, StoreInv', [Next]_vars
             PROVE  [Promise!Next]_(Promise!storeVars)
  OBVIOUS
<1>1. ASSUME NEW c \in Callers,
             PassContext(c) \/ RLock(c) \/ Announce(c) \/ Lock(c)
             \/ AcquireFileLock(c) \/ WriteTmp(c) \/ List(c) \/ Scan(c)
             \/ Unlock(c)
      PROVE  UNCHANGED Promise!storeVars
  BY <1>1, HiddenStep
<1>2. ASSUME NEW c \in Callers,
             Call(c) \/ Refuse(c) \/ GiveUp(c) \/ Fails(c) \/ Read(c) \/ Rename(c)
             \/ SyncDir(c) \/ Remove(c) \/ ScanEnds(c) \/ Release(c)
      PROVE  Promise!Next
  <2>1. \/ Promise!Call(c) \/ Promise!Fail(c) \/ Promise!Get(c)
        \/ Promise!Upsert(c) \/ Promise!UpsertOk(c) \/ Promise!Remove(c)
        \/ Promise!Stats(c) \/ Promise!DeleteOk(c) \/ Promise!Return(c)
    BY <1>2, CallStep, FailStep, ReadStep, RenameStep, SyncDirStep, RemoveStep,
       ScanEndsStep, ReleaseStep
  <2> QED
    BY <2>1 DEF Promise!Next
<1>3. CASE (\E p \in Processes : Crash(p)) \/ PowerLoss \/ Tick \/ UNCHANGED vars
  BY <1>3, QuietStep
<1> QED
  BY <1>1, <1>2, <1>3 DEF Next, Proceed

(* The store is the atomic, durable map its interface promises             *)
(* (internal/domain/ports.go, SessionStore), for every number of sessions, *)
(* processes and callers, and whatever fails, as long as whoever scans the *)
(* directory shares its mutex with whoever changes it.                     *)
THEOREM ImplementsStore == ASSUME OneWriter PROVE Spec => Atomic
<1>1. Init => Promise!Init
  BY PromiseInit
<1>2. StoreInv /\ StoreInv' /\ [Next]_vars => [Promise!Next]_(Promise!storeVars)
  BY NextStep
<1>3. Spec => []StoreInv
  BY StoreInvHolds, OneWriter
<1> QED
  BY <1>1, <1>2, <1>3, PTL DEF Spec, Atomic, Promise!Spec

-----------------------------------------------------------------------------
(* Sessions on disk, without OneWriter: any process may do anything.       *)

(* Between its rename and its answer, an upsert still finds its session,   *)
(* unless a removal has taken it; when it answers, nothing else is left    *)
(* for a power loss to bring back.                                         *)
DurableFits(place, call, files, after) ==
    /\ place = "syncDir" => files[call.id] \in {call.session, NoSession}
    /\ place = "unlock" /\ call.kind = "upsert" /\ call.answer = "ok" =>
           after[call.id] \subseteq {call.session, NoSession}

DurableInv == \A c \in Callers : DurableFits(pc[c], calls[c], file, fileAfter)

(* Whoever has reported its upsert has left nothing older on disk.         *)
ReportedIsDurable ==
    \A c \in Callers :
        pc[c] = "unlock" /\ calls[c].kind = "upsert" /\ calls[c].answer = "ok"
        => fileAfter[calls[c].id] \subseteq {calls[c].session, NoSession}

(* What a power loss may bring back is what has been there: it is added to *)
(* by the rename of an upsert and by a removal.                            *)
NothingComesBack ==
    [][\A id \in SessionIDs : \A s \in fileAfter'[id] \ fileAfter[id] :
           \/ s = NoSession
           \/ \E c \in Callers : /\ Rename(c)
                                 /\ calls[c].id = id
                                 /\ calls[c].session = s]_vars

(* A file changes by a removal, or becomes the session of an upsert that   *)
(* renames it; a power loss brings back what it may.                       *)
LEMMA FileMoves ==
  ASSUME IInv, [Next]_vars, ~PowerLoss, NEW id \in SessionIDs
  PROVE  \/ /\ file'[id] \in {file[id], NoSession}
            /\ fileAfter'[id] \subseteq fileAfter[id] \cup {NoSession}
         \/ \E c \in Callers :
              /\ Rename(c) /\ calls[c].id = id
              /\ file'[id] = calls[c].session
              /\ fileAfter'[id] = fileAfter[id] \cup {calls[c].session}
<1>i. DiskType /\ CallsInv
  BY DEF IInv
<1>1. ASSUME NEW c \in Callers, Rename(c)
      PROVE  \/ UNCHANGED <<file[id], fileAfter[id]>>
             \/ /\ calls[c].id = id
                /\ file'[id] = calls[c].session
                /\ fileAfter'[id] = fileAfter[id] \cup {calls[c].session}
  <2>1. pc[c] = "rename" /\ local[c].synced
    BY <1>1, <1>i, Calling DEF Rename, Fits, PlaceFits
  <2> QED
    BY <1>1, <1>i, <2>1 DEF Rename, SetFile, DiskType
<1>2. ASSUME NEW c \in Callers, Remove(c)
      PROVE  /\ file'[id] \in {file[id], NoSession}
             /\ fileAfter'[id] \subseteq fileAfter[id] \cup {NoSession}
  BY <1>2, <1>i DEF Remove, SetFile, DiskType
<1>3. ASSUME NEW c \in Callers, SyncDir(c)
      PROVE  UNCHANGED file /\ fileAfter'[id] \subseteq fileAfter[id]
  BY <1>3, <1>i DEF SyncDir, Settled, DiskType
<1>4. ASSUME NEW c \in Callers,
             Call(c) \/ Proceed(c) \/ Announce(c) \/ Fails(c),
             ~Rename(c), ~Remove(c), ~SyncDir(c)
      PROVE  UNCHANGED <<file, fileAfter>>
  BY <1>4
  DEF Call, Proceed, Announce, Fails, Refuse, PassContext, RLock, Lock,
      AcquireFileLock, GiveUp, Read, WriteTmp, List, Scan, ScanEnds, Unlock,
      Release, disk
<1>5. ASSUME (\E p \in Processes : Crash(p)) \/ Tick \/ UNCHANGED vars
      PROVE  UNCHANGED <<file, fileAfter>>
  BY <1>5 DEF Crash, Tick, vars, disk
<1> QED
  BY <1>1, <1>2, <1>3, <1>4, <1>5 DEF Next

(* An upsert that waits for its directory, or has answered, finds what it  *)
(* left: whoever else would rename the file needs its lock.                *)
LEMMA DurableStays ==
  ASSUME IInv, [Next]_vars, ~PowerLoss, NEW d \in Callers,
         DurableFits(pc[d], calls[d], file, fileAfter), ~Rename(d),
         pc'[d] = pc[d], calls'[d] = calls[d]
  PROVE  DurableFits(pc'[d], calls'[d], file', fileAfter')
<1> DEFINE id == calls[d].id
<1>1. SUFFICES ASSUME pc[d] \in {"syncDir", "unlock"}
               PROVE  DurableFits(pc[d], calls[d], file', fileAfter')
  BY DEF DurableFits
<1>2. id \in SessionIDs
  BY <1>1, Calling DEF IInv, Fits, CallFits, PlaceFits, Locked
<1>3. ASSUME NEW c \in Callers, Rename(c)
      PROVE  calls[c].id # id
  BY <1>1, <1>3 DEF Rename, IInv, LockExclusive, Locked
<1>4. /\ file'[id] \in {file[id], NoSession}
      /\ fileAfter'[id] \subseteq fileAfter[id] \cup {NoSession}
  BY <1>2, <1>3, FileMoves
<1> QED
  BY <1>4 DEF DurableFits

(* Every action keeps what has been reported on disk.                      *)
LEMMA DurableStep ==
  IInv /\ IInv' /\ AnswerInv /\ DurableInv /\ [Next]_vars => DurableInv'
<1> SUFFICES ASSUME IInv, IInv', AnswerInv, DurableInv, [Next]_vars,
                    NEW d \in Callers
             PROVE  DurableFits(pc'[d], calls'[d], file', fileAfter')
  BY DEF DurableInv, DurableFits
<1>i. CallsInv /\ CallsInv' /\ MuInv /\ DiskType
  BY DEF IInv
<1>d. DurableFits(pc[d], calls[d], file, fileAfter)
  BY DEF DurableInv
<1>1. ASSUME Rename(d)
      PROVE  DurableFits(pc'[d], calls'[d], file', fileAfter')
  <2>1. /\ pc[d] = "rename" /\ pc'[d] = "syncDir" /\ ~Release(d)
        /\ calls[d].id \in SessionIDs
    BY <1>1, <1>i, Calling
    DEF Rename, Release, Goto, CallsInv, CallersType, Fits, CallFits, PlaceFits
  <2>2. calls'[d].id = calls[d].id /\ calls'[d].session = calls[d].session
    BY <1>1, <1>i, <2>1, SameCall DEF Proceed
  <2>3. file'[calls[d].id] = calls[d].session
    BY <1>1, <1>i, <2>1 DEF Rename, SetFile, DiskType
  <2> QED
    BY <2>1, <2>2, <2>3 DEF DurableFits
<1>2. ASSUME SyncDir(d)
      PROVE  DurableFits(pc'[d], calls'[d], file', fileAfter')
  <2>1. /\ pc[d] = "syncDir" /\ pc'[d] = "unlock" /\ ~Release(d)
        /\ calls[d].id \in SessionIDs
    BY <1>2, <1>i, Calling
    DEF SyncDir, Release, Goto, CallsInv, CallersType, Fits, CallFits, PlaceFits
  <2>2. calls'[d].id = calls[d].id /\ calls'[d].session = calls[d].session
    BY <1>2, <1>i, <2>1, SameCall DEF Proceed
  <2>3. fileAfter'[calls[d].id] = {file[calls[d].id]}
    BY <1>2, <2>1 DEF SyncDir, Settled
  <2> QED
    BY <1>d, <2>1, <2>2, <2>3 DEF DurableFits
<1>3. ASSUME Call(d) \/ Proceed(d) \/ Announce(d) \/ Fails(d),
             ~Rename(d), ~SyncDir(d), ~Unlock(d), ~Release(d)
      PROVE  DurableFits(pc'[d], calls'[d], file', fileAfter')
  <2>1. CASE Fails(d)
    <3>1. pc'[d] # "syncDir" /\ calls'[d] = [calls[d] EXCEPT !.answer = "error"]
      BY <1>i, <2>1 DEF Fails, SetAnswer, Goto, CallsInv, CallersType
    <3>2. calls[d] \in CallRecords
      BY <1>i, <2>1, Calling DEF Fails, Locked
    <3> QED
      BY <3>1, <3>2 DEF DurableFits, CallRecords
  <2>2. CASE Read(d)
    <3>1. pc[d] = "read" /\ pc'[d] = "unlock" /\ calls[d].kind = "get"
      BY <1>i, <2>2, Calling
      DEF Read, Goto, CallsInv, CallersType, Fits, PlaceFits
    <3>2. calls'[d].kind = "get"
      BY <1>i, <1>3, <2>2, <3>1, SameCall DEF Proceed
    <3> QED
      BY <3>1, <3>2 DEF DurableFits
  <2>3. CASE ~Fails(d) /\ ~Read(d)
    <3>1. pc'[d] \notin {"syncDir", "unlock"}
      BY <1>i, <1>3, <2>3
      DEF Call, Proceed, Announce, Refuse, PassContext, RLock, Lock,
          AcquireFileLock, GiveUp, WriteTmp, List, Scan, Remove, ScanEnds,
          Goto, Inside, CallsInv, CallersType
    <3> QED
      BY <3>1 DEF DurableFits
  <2> QED
    BY <2>1, <2>2, <2>3
<1>4. ASSUME Unlock(d) \/ Release(d)
      PROVE  pc'[d] \in {"release", "idle"}
  BY <1>4, <1>i, Releases DEF Unlock, Goto, CallsInv, CallersType
<1>5. ASSUME NEW c \in Callers, c # d,
             Call(c) \/ Proceed(c) \/ Announce(c) \/ Fails(c)
      PROVE  \/ pc'[d] \in {"lock", "list"}
             \/ pc'[d] = pc[d] /\ calls'[d] = calls[d]
  BY <1>5, <1>i, Others, Releases
<1>6. ASSUME (\E p \in Processes : Crash(p)) \/ PowerLoss \/ Tick
             \/ UNCHANGED vars
      PROVE  \/ pc'[d] = "idle"
             \/ pc'[d] = pc[d] /\ calls'[d] = calls[d]
  BY <1>6, <1>i, Quiet
<1>7. PowerLoss => pc'[d] = "idle"
  BY DEF PowerLoss, Gone
<1>8. pc'[d] \in {"idle", "release", "lock", "list"} =>
         DurableFits(pc'[d], calls'[d], file', fileAfter')
  BY DEF DurableFits
<1>9. pc'[d] = pc[d] /\ calls'[d] = calls[d] /\ ~PowerLoss /\ ~Rename(d) =>
         DurableFits(pc'[d], calls'[d], file', fileAfter')
  BY <1>d, DurableStays
<1> QED
  BY <1>1, <1>2, <1>3, <1>4, <1>5, <1>6, <1>7, <1>8, <1>9 DEF Next

(* "fsync directory for rename durability" (store.go 140), whoever else    *)
(* uses the directory, removals by other processes included: when an       *)
(* upsert reports success, a power loss leaves its session, or finds it    *)
(* removed, and nothing older comes back afterwards.                       *)
THEOREM NothingOlderReturns ==
  Spec => []ReportedIsDurable /\ NothingComesBack
<1>1. Init => IInv /\ AnswerInv /\ DurableInv
  BY IInvInit, AnswerInit DEF Init, DurableInv, DurableFits
<1>2. IInv /\ AnswerInv /\ DurableInv /\ [Next]_vars
        => IInv' /\ AnswerInv' /\ DurableInv'
  BY IInvStep, AnswerStep, DurableStep DEF IInv
<1>3. DurableInv => ReportedIsDurable
  BY DEF DurableInv, DurableFits, ReportedIsDurable
<1>4. IInv /\ [Next]_vars =>
        [\A id \in SessionIDs : \A s \in fileAfter'[id] \ fileAfter[id] :
           \/ s = NoSession
           \/ \E c \in Callers : /\ Rename(c)
                                 /\ calls[c].id = id
                                 /\ calls[c].session = s]_vars
  <2>1. PowerLoss => \A id \in SessionIDs : fileAfter'[id] \subseteq fileAfter[id]
    BY DEF PowerLoss
  <2> QED
    BY <2>1, FileMoves
<1> QED
  BY <1>1, <1>2, <1>3, <1>4, PTL DEF Spec, NothingComesBack

=============================================================================
