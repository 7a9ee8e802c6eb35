-------------------------- MODULE FileStoreProofs ---------------------------
(***************************************************************************)
(* Theorems about the file store, for any number of processes, callers,    *)
(* sessions and values, under every fault.                                 *)
(***************************************************************************)
EXTENDS FileStore, TLAPS

(* The parts of TypeOK.                                                    *)
DiskType ==
    /\ file \in [SessionIDs -> Contents]
    /\ fileAfter \in [SessionIDs -> SUBSET Contents]
    /\ lock \in [SessionIDs -> BOOLEAN]
    /\ lockAfter \in [SessionIDs -> SUBSET BOOLEAN]
    /\ \A id \in SessionIDs : /\ file[id] \in fileAfter[id]
                              /\ lock[id] \in lockAfter[id]

Mutex == [writer : Callers \cup {NoCaller},
          readers : SUBSET Callers, behind : SUBSET Callers]

LocalType == [synced : BOOLEAN, now : 0..MaxTime,
              todo : SUBSET SessionIDs, at : SUBSET SessionIDs]

(* What a call is, for the place its caller is at: a place belongs to      *)
(* certain kinds of call, and a temporary file that is about to be renamed *)
(* is on disk.                                                             *)
CallFits(kinds, place, call) ==
    /\ (call = NoCall) <=> (place = "idle")
    /\ place # "idle" =>
         /\ call.kind \in kinds
         /\ call.kind \in {"get", "upsert"} => call.id \in SessionIDs
         /\ call.kind = "upsert" => call.session \in Sessions
         /\ call.kind = "get" => call.found \subseteq SessionIDs \X Sessions

PlaceFits(place, call, loc) ==
    /\ place \in {"lock"} \cup Locked => call.kind \in {"get", "upsert"}
    /\ place = "read" => call.kind = "get"
    /\ place \in {"write", "rename", "syncDir"} => call.kind = "upsert"
    /\ place \in {"list", "scan", "remove"} => call.kind \in {"delete", "stats"}
    /\ place = "rename" => loc.synced

Fits(kinds, place, call, loc) ==
    CallFits(kinds, place, call) /\ PlaceFits(place, call, loc)

CallersType ==
    /\ clock \in 0..MaxTime
    /\ pc \in [Callers -> Places]
    /\ calls \in [Callers -> CallRecords \cup {NoCall}]
    /\ local \in [Callers -> LocalType]

(* Who is counted as waiting behind a writer does wait.                    *)
BehindInv ==
    \A p \in Processes : \A c \in mu[p].behind :
        c \in Callers /\ Home[c] = p /\ pc[c] = "behind"

CallsInv ==
    CallersType /\ \A c \in Callers : Fits(Kinds[c], pc[c], calls[c], local[c])

MuInv == mu \in [Processes -> Mutex] /\ BehindInv

(* A caller, its call and its place; together the type invariant.          *)
LEMMA TypeParts == DiskType /\ MuInv /\ CallsInv => TypeOK
  BY DEF TypeOK, DiskType, MuInv, Mutex, CallsInv, CallersType, Fits, CallFits,
     LocalType

-----------------------------------------------------------------------------
(* What happens to the disk.                                               *)

(* The empty directory has its type and nothing torn.                      *)
LEMMA DiskInit == Init => DiskType /\ Intact
  BY FileStoreAssumption DEF Init, DiskType, Contents, Intact

(* A lock file comes or goes.                                              *)
LEMMA SetLockDisk ==
  ASSUME DiskType, Intact, UNCHANGED <<file, fileAfter>>,
         NEW id \in SessionIDs, NEW there \in BOOLEAN, SetLock(id, there)
  PROVE  DiskType' /\ Intact'
<1>1. lock' \in [SessionIDs -> BOOLEAN]
  BY Zenon DEF SetLock, DiskType
<1>2. lockAfter' \in [SessionIDs -> SUBSET BOOLEAN]
  BY DEF SetLock, DiskType
<1>3. ASSUME NEW x \in SessionIDs PROVE lock'[x] \in lockAfter'[x]
  <2>1. lock'[x] = IF x = id THEN there ELSE lock[x]
    BY Zenon DEF SetLock, DiskType
  <2>2. lockAfter'[x] = IF x = id THEN lockAfter[x] \cup {there}
                                  ELSE lockAfter[x]
    BY Zenon DEF SetLock, DiskType
  <2> QED
    BY Zenon, <2>1, <2>2 DEF DiskType
<1> QED
  BY <1>1, <1>2, <1>3 DEF DiskType, Intact

(* Every action keeps the directory in its type and untorn.                *)
LEMMA DiskStep ==
  DiskType /\ Intact /\ CallsInv /\ [Next]_vars => DiskType' /\ Intact'
<1> SUFFICES ASSUME DiskType, Intact, CallsInv, [Next]_vars
             PROVE  DiskType' /\ Intact'
  OBVIOUS
<1>t. Torn \notin Sessions \cup {NoSession}
  BY FileStoreAssumption
<1>c. \A c \in Callers :
         /\ pc[c] \in {"lock", "unlock"} => calls[c].id \in SessionIDs
         /\ pc[c] = "rename" => /\ calls[c].id \in SessionIDs
                                /\ calls[c].session \in Sessions
                                /\ local[c].synced
         /\ local[c].at \subseteq SessionIDs
  BY DEF CallsInv, CallersType, LocalType, Fits, CallFits, PlaceFits, Locked
<1>1. ASSUME NEW c \in Callers, AcquireFileLock(c) \/ Unlock(c)
      PROVE  DiskType' /\ Intact'
  <2>1. CASE AcquireFileLock(c)
    BY <2>1, <1>c, SetLockDisk DEF AcquireFileLock
  <2>2. CASE Unlock(c)
    BY <2>2, <1>c, SetLockDisk DEF Unlock, DiskType, Intact
  <2> QED
    BY <1>1, <2>1, <2>2
<1>2. ASSUME NEW c \in Callers, Rename(c)
      PROVE  DiskType' /\ Intact'
  BY <1>2, <1>c, <1>t DEF Rename, SetFile, DiskType, Intact, Contents
<1>3. ASSUME NEW c \in Callers, SyncDir(c)
      PROVE  DiskType' /\ Intact'
  BY <1>3, <1>t DEF SyncDir, Settled, DiskType, Intact, Contents
<1>4. ASSUME NEW c \in Callers, Remove(c)
      PROVE  DiskType' /\ Intact'
  BY <1>4, <1>c, <1>t DEF Remove, SetFile, DiskType, Intact, Contents
<1>5. ASSUME PowerLoss
      PROVE  DiskType' /\ Intact'
  BY <1>5 DEF PowerLoss, DiskType, Intact, Contents
<1>6. ASSUME UNCHANGED disk
      PROVE  DiskType' /\ Intact'
  BY <1>6 DEF disk, DiskType, Intact
<1>7. ASSUME NEW c \in Callers, Call(c) \/ Proceed(c) \/ Announce(c) \/ Fails(c)
      PROVE  DiskType' /\ Intact'
  BY <1>7, <1>1, <1>2, <1>3, <1>4, <1>6
  DEF Call, Announce, Fails, Proceed, Refuse, PassContext, RLock, Lock,
      GiveUp, Read, WriteTmp, List, Scan, ScanEnds, Release
<1> QED
  BY <1>5, <1>6, <1>7 DEF Next, Crash, Tick, vars, disk

-----------------------------------------------------------------------------
(* What happens to the mutexes.                                            *)

(* A mutex nobody holds is a mutex.                                        *)
LEMMA FreeType == Free \in Mutex
  BY DEF Free, Mutex

(* At the start nobody holds or awaits a mutex.                            *)
LEMMA MuInit == Init => MuInv
<1> SUFFICES ASSUME Init PROVE MuInv
  OBVIOUS
<1>1. mu \in [Processes -> Mutex]
  BY FreeType DEF Init
<1>2. BehindInv
  BY DEF Init, BehindInv, Free
<1> QED
  BY <1>1, <1>2 DEF MuInv

(* A caller that is not waiting moves, and no mutex changes.               *)
LEMMA MuSame ==
  ASSUME MuInv, CallsInv, NEW c \in Callers, NEW place,
         pc[c] # "behind", Goto(c, place), UNCHANGED mu
  PROVE  MuInv'
  BY DEF MuInv, BehindInv, CallsInv, CallersType, Goto

(* Every action keeps the mutexes, and who waits for them, in order.       *)
LEMMA MuStep == MuInv /\ CallsInv /\ [Next]_vars => MuInv'
<1> SUFFICES ASSUME MuInv, CallsInv, [Next]_vars
             PROVE  MuInv'
  OBVIOUS
<1>h. \A c \in Callers : Home[c] \in Processes
  BY FileStoreAssumption
<1>1. ASSUME NEW c \in Callers, RLock(c)
      PROVE  MuInv'
  <2> DEFINE p == Home[c]
  <2>1. CASE mu[p].writer = NoCaller
    <3>1. mu' \in [Processes -> Mutex]
      BY <1>1, <1>h, <2>1 DEF RLock, MuInv, Mutex
    <3>2. \A q \in Processes : mu'[q].behind = mu[q].behind
      BY <1>1, <1>h, <2>1 DEF RLock, MuInv, Mutex
    <3>3. \A d \in Callers : pc[d] = "behind" => pc'[d] = "behind"
      BY <1>1, <2>1 DEF RLock, Goto, CallsInv, CallersType
    <3> QED
      BY <3>1, <3>2, <3>3 DEF MuInv, BehindInv
  <2>2. CASE mu[p].writer # NoCaller
    <3>1. mu' \in [Processes -> Mutex]
      BY <1>1, <1>h, <2>2 DEF RLock, MuInv, Mutex
    <3>2. \A q \in Processes :
            mu'[q].behind \subseteq mu[q].behind \cup (IF q = p THEN {c} ELSE {})
      BY <1>1, <1>h, <2>2 DEF RLock, MuInv, Mutex
    <3>3. \A d \in Callers : pc[d] = "behind" \/ d = c => pc'[d] = "behind"
      BY <1>1, <2>2 DEF RLock, Goto, CallsInv, CallersType
    <3> QED
      BY <3>1, <3>2, <3>3 DEF MuInv, BehindInv
  <2> QED
    BY <2>1, <2>2
<1>2. ASSUME NEW c \in Callers, Announce(c)
      PROVE  MuInv'
  <2>1. mu' \in [Processes -> Mutex]
    BY <1>2, <1>h DEF Announce, MuInv, Mutex
  <2>2. \A q \in Processes : mu'[q].behind = mu[q].behind
    BY <1>2, <1>h DEF Announce, MuInv, Mutex
  <2>3. \A d \in Callers : pc[d] = "behind" => pc'[d] = "behind"
    BY <1>2 DEF Announce, Goto, CallsInv, CallersType
  <2> QED
    BY <2>1, <2>2, <2>3 DEF MuInv, BehindInv
<1>3. ASSUME NEW c \in Callers, Release(c)
      PROVE  MuInv'
  <2> DEFINE p == Home[c]
  <2>1. CASE mu[p].writer = c
    <3>1. mu' = [mu EXCEPT ![p] = [Free EXCEPT !.readers = mu[p].behind]]
      BY <1>3, <2>1 DEF Release
    <3>2. [Free EXCEPT !.readers = mu[p].behind] \in Mutex
      BY <1>h DEF Free, Mutex, MuInv
    <3>3. mu' \in [Processes -> Mutex]
      BY <3>1, <3>2 DEF MuInv
    <3>4. \A q \in Processes :
            mu'[q].behind = IF q = p THEN {} ELSE mu[q].behind
      BY <3>1, <1>h DEF MuInv, Mutex, Free
    <3>5. \A d \in Callers :
            pc[d] = "behind" /\ d \notin mu[p].behind => pc'[d] = "behind"
      BY <1>3, <2>1 DEF Release, CallsInv, CallersType
    <3>6. \A q \in Processes : q # p => mu[q].behind \cap mu[p].behind = {}
      BY <1>h DEF MuInv, BehindInv
    <3> QED
      BY <3>3, <3>4, <3>5, <3>6 DEF MuInv, BehindInv
  <2>2. CASE mu[p].writer # c
    <3>1. mu' \in [Processes -> Mutex]
      BY <1>3, <1>h, <2>2 DEF Release, MuInv, Mutex
    <3>2. \A q \in Processes : mu'[q].behind = mu[q].behind
      BY <1>3, <1>h, <2>2 DEF Release, MuInv, Mutex
    <3>3. \A d \in Callers : pc[d] = "behind" => pc'[d] = "behind"
      BY <1>3, <2>2 DEF Release, Goto, CallsInv, CallersType
    <3> QED
      BY <3>1, <3>2, <3>3 DEF MuInv, BehindInv
  <2> QED
    BY <2>1, <2>2
<1>4. ASSUME NEW p \in Processes, Crash(p)
      PROVE  MuInv'
  <2>1. mu' \in [Processes -> Mutex]
    BY <1>4, FreeType DEF Crash, Gone, MuInv
  <2>2. \A q \in Processes : mu'[q].behind = IF q = p THEN {} ELSE mu[q].behind
    BY <1>4 DEF Crash, Gone, Free
  <2>3. \A d \in Callers : Home[d] # p => pc'[d] = pc[d]
    BY <1>4 DEF Crash, Gone
  <2> QED
    BY <2>1, <2>2, <2>3 DEF MuInv, BehindInv
<1>5. ASSUME PowerLoss
      PROVE  MuInv'
  BY <1>5, FreeType DEF PowerLoss, Gone, Free, MuInv, BehindInv
<1>6. ASSUME NEW c \in Callers, Call(c) \/ Proceed(c) \/ Announce(c) \/ Fails(c)
      PROVE  MuInv'
  <2>1. CASE Call(c)
    BY <2>1, MuSame DEF Call
  <2>2. CASE PassContext(c) \/ Refuse(c) \/ Lock(c)
    BY <2>2, MuSame DEF PassContext, Refuse, Lock
  <2>3. CASE AcquireFileLock(c) \/ GiveUp(c) \/ Unlock(c)
    BY <2>3, MuSame DEF AcquireFileLock, GiveUp, Unlock
  <2>4. CASE Read(c) \/ WriteTmp(c) \/ Rename(c) \/ SyncDir(c)
    BY <2>4, MuSame DEF Read, WriteTmp, Rename, SyncDir
  <2>5. CASE List(c) \/ Remove(c) \/ ScanEnds(c)
    BY <2>5, MuSame DEF List, Remove, ScanEnds
  <2>6. CASE Scan(c)
    <3>1. UNCHANGED pc \/ Goto(c, "remove")
      BY <2>6 DEF Scan
    <3>2. CASE UNCHANGED pc
      BY <2>6, <3>2 DEF Scan, MuInv, BehindInv
    <3>3. CASE Goto(c, "remove")
      BY <2>6, <3>3, MuSame DEF Scan
    <3> QED
      BY <3>1, <3>2, <3>3
  <2>7. CASE Fails(c)
    BY <2>7, MuSame DEF Fails, Locked
  <2> QED
    BY <1>1, <1>2, <1>3, <1>6, <2>1, <2>2, <2>3, <2>4, <2>5, <2>6, <2>7
    DEF Proceed
<1> QED
  BY <1>4, <1>5, <1>6 DEF Next, Tick, vars, MuInv, BehindInv

-----------------------------------------------------------------------------
(* What happens to the callers.                                            *)

(* The locals of no call have the type of locals.                          *)
LEMMA NoLocalType == NoLocal \in LocalType
  BY FileStoreAssumption DEF NoLocal, LocalType

(* At the start nobody calls.                                              *)
LEMMA CallsInit == Init => CallsInv
<1> SUFFICES ASSUME Init PROVE CallsInv
  OBVIOUS
<1>1. CallersType
  BY NoLocalType, FileStoreAssumption DEF Init, CallersType, Places
<1>2. \A c \in Callers : pc[c] = "idle" /\ calls[c] = NoCall
  BY DEF Init
<1> QED
  BY <1>1, <1>2 DEF CallsInv, Fits, CallFits, PlaceFits, Locked

(* One caller moves to a place, a call and locals that fit.                *)
LEMMA Moves ==
  ASSUME CallsInv, NEW c \in Callers, NEW place \in Places,
         NEW call \in CallRecords \cup {NoCall}, NEW loc \in LocalType,
         Fits(Kinds[c], place, call, loc),
         pc' = [pc EXCEPT ![c] = place],
         calls' = [calls EXCEPT ![c] = call],
         local' = [local EXCEPT ![c] = loc],
         UNCHANGED clock
  PROVE  CallsInv'
<1>1. CallersType'
  BY DEF CallsInv, CallersType
<1>2. ASSUME NEW d \in Callers
      PROVE  Fits(Kinds[d], pc'[d], calls'[d], local'[d])
  <2>1. CASE d = c
    BY <2>1 DEF CallsInv, CallersType
  <2>2. CASE d # c
    BY <2>2 DEF CallsInv, CallersType
  <2> QED
    BY <2>1, <2>2
<1> QED
  BY <1>1, <1>2 DEF CallsInv, Fits, CallFits, PlaceFits

(* A call that has just been made fits its place.                          *)
LEMMA BegunType ==
  ASSUME NEW a \in Arguments, clock \in 0..MaxTime
  PROVE  /\ Begun(a, clock) \in CallRecords
         /\ CallFits({a.kind}, "called", Begun(a, clock))
<1>1. Begun(a, clock) \in CallRecords
  BY FileStoreAssumption DEF Arguments, Begun, CallRecords
<1>2. Begun(a, clock) # NoCall
  BY <1>1, NoCallAssumption
<1> QED
  BY <1>1, <1>2 DEF Arguments, Begun, CallFits

(* A caller that has a call under way, what it is at a place.              *)
LEMMA Calling ==
  ASSUME CallsInv, NEW c \in Callers, pc[c] # "idle"
  PROVE  /\ calls[c] \in CallRecords
         /\ local[c] \in LocalType
         /\ Fits(Kinds[c], pc[c], calls[c], local[c])
  BY DEF CallsInv, CallersType, Fits, CallFits

(* It goes to a place that fits its call.                                  *)
LEMMA MovesOn ==
  ASSUME CallsInv, NEW c \in Callers, NEW place \in Places \ {"idle"},
         NEW loc \in LocalType, pc[c] # "idle",
         PlaceFits(place, calls[c], loc),
         Goto(c, place), UNCHANGED <<calls, clock>>,
         local' = [local EXCEPT ![c] = loc]
  PROVE  CallsInv'
<1>1. calls' = [calls EXCEPT ![c] = calls[c]]
  BY DEF CallsInv, CallersType
<1>2. calls[c] \in CallRecords /\ Fits(Kinds[c], place, calls[c], loc)
  BY Calling DEF Fits, CallFits
<1> QED
  BY <1>1, <1>2, Moves DEF Goto

(* It learns its answer and goes to a place that fits.                     *)
LEMMA MovesAnswered ==
  ASSUME CallsInv, NEW c \in Callers, NEW place \in Places \ {"idle"},
         NEW loc \in LocalType, pc[c] # "idle",
         PlaceFits(place, calls[c], loc),
         NEW answer \in {"pending", "applied", "ok", "error"},
         NEW found \in SUBSET (SessionIDs \X Contents),
         calls[c].kind = "get" => found \subseteq SessionIDs \X Sessions,
         Goto(c, place), UNCHANGED clock,
         calls' = [calls EXCEPT ![c] =
                     [calls[c] EXCEPT !.answer = answer, !.found = found]],
         local' = [local EXCEPT ![c] = loc]
  PROVE  CallsInv'
<1> DEFINE call == [calls[c] EXCEPT !.answer = answer, !.found = found]
<1>1. /\ call \in CallRecords
      /\ call.kind = calls[c].kind /\ call.id = calls[c].id
      /\ call.session = calls[c].session /\ call.found = found
  <2>1. calls[c] \in CallRecords
    BY Calling
  <2> QED
    BY <2>1 DEF CallRecords
<1>2. call # NoCall
  BY <1>1, NoCallAssumption
<1> HIDE DEF call
<1>3. Fits(Kinds[c], place, call, loc)
  BY <1>1, <1>2, Calling DEF Fits, CallFits, PlaceFits
<1> QED
  BY <1>1, <1>3, Moves DEF Goto, call

(* The same when only the answer is new, ...                               *)
LEMMA MovesAnswer ==
  ASSUME CallsInv, NEW c \in Callers, NEW place \in Places \ {"idle"},
         NEW loc \in LocalType, pc[c] # "idle",
         PlaceFits(place, calls[c], loc),
         NEW answer \in {"pending", "applied", "ok", "error"},
         Goto(c, place), SetAnswer(c, answer), UNCHANGED clock,
         local' = [local EXCEPT ![c] = loc]
  PROVE  CallsInv'
<1>1. /\ calls[c] \in CallRecords
      /\ calls[c].found \in SUBSET (SessionIDs \X Contents)
      /\ calls[c].kind = "get" => calls[c].found \subseteq SessionIDs \X Sessions
  BY Calling DEF CallRecords, Fits, CallFits
<1>2. calls' = [calls EXCEPT ![c] =
        [calls[c] EXCEPT !.answer = answer, !.found = calls[c].found]]
  <2>1. [calls[c] EXCEPT !.answer = answer, !.found = calls[c].found]
        = [calls[c] EXCEPT !.answer = answer]
    BY <1>1 DEF CallRecords
  <2> QED
    BY <2>1 DEF SetAnswer
<1> QED
  BY <1>1, <1>2, MovesAnswered

(* ... or only what was found.                                             *)
LEMMA MovesAdd ==
  ASSUME CallsInv, DiskType, NEW c \in Callers, NEW id \in SessionIDs,
         NEW place \in Places \ {"idle"}, NEW loc \in LocalType,
         pc[c] \in {"scan", "remove"},
         PlaceFits(place, calls[c], loc),
         Goto(c, place), Add(c, id), UNCHANGED clock,
         local' = [local EXCEPT ![c] = loc]
  PROVE  CallsInv'
<1> DEFINE found == calls[c].found \cup {<<id, file[id]>>}
<1>1. /\ calls[c] \in CallRecords
      /\ found \in SUBSET (SessionIDs \X Contents)
      /\ calls[c].kind # "get"
  BY Calling DEF CallRecords, Fits, PlaceFits, DiskType
<1>2. calls' = [calls EXCEPT ![c] =
        [calls[c] EXCEPT !.answer = calls[c].answer, !.found = found]]
  <2>1. [calls[c] EXCEPT !.answer = calls[c].answer, !.found = found]
        = [calls[c] EXCEPT !.found = found]
    BY <1>1 DEF CallRecords
  <2> QED
    BY <2>1 DEF Add
<1>3. calls[c].answer \in {"pending", "applied", "ok", "error"}
  BY <1>1 DEF CallRecords
<1> QED
  BY <1>1, <1>2, <1>3, MovesAnswered

(* Every action leaves every caller with a call that fits its place.       *)
LEMMA CallsStep ==
  DiskType /\ MuInv /\ CallsInv /\ [Next]_vars => CallsInv'
<1> SUFFICES ASSUME DiskType, MuInv, CallsInv, [Next]_vars
             PROVE  CallsInv'
  OBVIOUS
<1> DEFINE Same(c) == local' = [local EXCEPT ![c] = local[c]]
<1>s. ASSUME NEW c \in Callers, UNCHANGED local PROVE Same(c)
  BY <1>s DEF CallsInv, CallersType
<1>p. {"called", "mutex", "drain", "behind", "lock", "read", "write", "rename",
       "syncDir", "unlock", "list", "scan", "remove", "release"}
      \subseteq Places \ {"idle"}
  BY DEF Places
<1>1. ASSUME NEW c \in Callers, Call(c)
      PROVE  CallsInv'
  <2>1. PICK a \in Arguments :
          a.kind \in Kinds[c] /\ calls' = [calls EXCEPT ![c] = Begun(a, clock)]
    BY <1>1 DEF Call
  <2>2. /\ Begun(a, clock) \in CallRecords
        /\ CallFits(Kinds[c], "called", Begun(a, clock))
    BY <2>1, BegunType DEF CallsInv, CallersType, CallFits
  <2>3. Fits(Kinds[c], "called", Begun(a, clock), local[c])
    BY <2>2 DEF Fits, PlaceFits, Locked
  <2>4. local[c] \in LocalType /\ Same(c)
    BY <1>1, <1>s DEF Call, CallsInv, CallersType
  <2> QED
    BY <1>1, <1>p, <2>1, <2>2, <2>3, <2>4, Moves DEF Call, Goto
<1>2. ASSUME NEW c \in Callers,
             PassContext(c) \/ RLock(c) \/ Lock(c) \/ Announce(c)
             \/ AcquireFileLock(c) \/ Unlock(c)
      PROVE  CallsInv'
  <2>1. PICK place \in Places \ {"idle"} :
          Goto(c, place) /\ PlaceFits(place, calls[c], local[c])
    <3>1. CASE RLock(c)
      <4>1. Goto(c, Inside(c)) \/ Goto(c, "behind")
        BY <3>1 DEF RLock
      <4>2. PlaceFits("behind", calls[c], local[c])
        BY DEF PlaceFits, Locked
      <4>3. pc[c] # "idle"
        BY <3>1 DEF RLock
      <4>4. PlaceFits(Inside(c), calls[c], local[c])
        BY <4>3, Calling DEF Inside, PlaceFits, Locked, CallRecords
      <4> QED
        BY <1>p, <4>1, <4>2, <4>4 DEF Inside
    <3>2. CASE Lock(c)
      <4>1. Goto(c, Inside(c)) /\ pc[c] # "idle"
        BY <3>2 DEF Lock
      <4>2. PlaceFits(Inside(c), calls[c], local[c])
        BY <4>1, Calling DEF Inside, PlaceFits, Locked, CallRecords
      <4> QED
        BY <1>p, <4>1, <4>2 DEF Inside
    <3>c. CASE PassContext(c)
      BY <1>p, <3>c DEF PassContext, PlaceFits, Locked
    <3>3. CASE Announce(c)
      BY <1>p, <3>3 DEF Announce, PlaceFits, Locked
    <3>4. CASE AcquireFileLock(c)
      <4>1. calls[c].kind \in {"get", "upsert"}
        BY <3>4, Calling DEF AcquireFileLock, Fits, PlaceFits
      <4> QED
        BY <1>p, <3>4, <4>1 DEF AcquireFileLock, PlaceFits, Locked
    <3>5. CASE Unlock(c)
      BY <1>p, <3>5 DEF Unlock, PlaceFits, Locked
    <3> QED
      BY <1>2, <3>c, <3>1, <3>2, <3>3, <3>4, <3>5
  <2>2. UNCHANGED <<calls, clock, local>> /\ pc[c] # "idle"
    BY <1>2 DEF PassContext, RLock, Lock, Announce, AcquireFileLock, Unlock
  <2>3. local[c] \in LocalType /\ Same(c)
    BY <1>s, <2>2 DEF CallsInv, CallersType
  <2> QED
    BY <2>1, <2>2, <2>3, MovesOn
<1>3. ASSUME NEW c \in Callers, WriteTmp(c) \/ List(c)
      PROVE  CallsInv'
  <2>1. \E place \in Places \ {"idle"}, loc \in LocalType :
          /\ Goto(c, place) /\ local' = [local EXCEPT ![c] = loc]
          /\ PlaceFits(place, calls[c], loc)
    <3>1. CASE WriteTmp(c)
      <4>1. local' = [local EXCEPT ![c] = [local[c] EXCEPT !.synced = TRUE]]
        BY <3>1 DEF WriteTmp
      <4>2. /\ [local[c] EXCEPT !.synced = TRUE] \in LocalType
            /\ [local[c] EXCEPT !.synced = TRUE].synced
        BY DEF CallsInv, CallersType, LocalType
      <4>3. calls[c].kind = "upsert"
        BY <3>1, Calling DEF WriteTmp, Fits, PlaceFits
      <4> QED
        BY <1>p, <3>1, <4>1, <4>2, <4>3 DEF WriteTmp, PlaceFits, Locked
    <3>2. CASE List(c)
      <4> DEFINE loc == [local[c] EXCEPT
                   !.todo = {id \in SessionIDs : file[id] # NoSession},
                   !.now = IF Writes(c) THEN clock ELSE 0]
      <4>1. local' = [local EXCEPT ![c] = loc]
        BY <3>2 DEF List
      <4>2. loc \in LocalType
        <5>1. (IF Writes(c) THEN clock ELSE 0) \in 0..MaxTime
          BY FileStoreAssumption DEF CallsInv, CallersType
        <5>2. local[c] \in LocalType
          BY DEF CallsInv, CallersType
        <5> QED
          BY <5>1, <5>2 DEF LocalType
      <4>3. calls[c].kind \in {"delete", "stats"}
        BY <3>2, Calling DEF List, Fits, PlaceFits
      <4> QED
        BY <1>p, <3>2, <4>1, <4>2, <4>3 DEF List, PlaceFits, Locked
    <3> QED
      BY <1>3, <3>1, <3>2
  <2>2. UNCHANGED <<calls, clock>> /\ pc[c] # "idle"
    BY <1>3 DEF WriteTmp, List
  <2> QED
    BY <2>1, <2>2, MovesOn
<1>4. ASSUME NEW c \in Callers, Release(c)
      PROVE  CallsInv'
  <2>1. CallersType'
    <3>1. \A d \in Callers : Inside(d) \in Places
      BY DEF Inside, Places
    <3>2. pc' \in [Callers -> Places]
      BY <1>4, <3>1 DEF Release, Goto, CallsInv, CallersType, Places
    <3> QED
      BY <1>4, <3>2 DEF Release, CallsInv, CallersType
  <2>2. ASSUME NEW d \in Callers
        PROVE  Fits(Kinds[d], pc'[d], calls'[d], local'[d])
    <3>1. UNCHANGED local /\ calls'[d] = IF d = c THEN NoCall ELSE calls[d]
      BY <1>4 DEF Release, CallsInv, CallersType
    <3>2. CASE d = c
      <4>1. pc'[d] = "idle"
        BY <1>4, <3>2 DEF Release, Goto, CallsInv, CallersType
      <4> QED
        BY <3>1, <3>2, <4>1 DEF Fits, CallFits, PlaceFits, Locked
    <3>3. CASE d # c /\ pc'[d] = pc[d]
      BY <3>1, <3>3 DEF CallsInv
    <3>4. CASE d # c /\ pc'[d] # pc[d]
      <4>1. d \in mu[Home[c]].behind /\ pc'[d] = Inside(d)
        BY <1>4, <3>4 DEF Release, Goto, CallsInv, CallersType
      <4>2. pc[d] = "behind"
        BY <4>1, FileStoreAssumption DEF MuInv, BehindInv
      <4>3. calls[d] \in CallRecords /\ Fits(Kinds[d], pc[d], calls[d], local[d])
        BY <4>2, Calling
      <4>4. PlaceFits(Inside(d), calls[d], local[d]) /\ Inside(d) # "idle"
        BY <4>3 DEF Inside, PlaceFits, Locked, CallRecords
      <4>5. CallFits(Kinds[d], Inside(d), calls[d])
        BY <4>2, <4>3, <4>4 DEF Fits, CallFits
      <4> QED
        BY <3>1, <3>4, <4>1, <4>4, <4>5 DEF Fits
    <3> QED
      BY <3>2, <3>3, <3>4
  <2> QED
    BY <2>1, <2>2 DEF CallsInv, Fits, CallFits, PlaceFits
<1>5. ASSUME NEW c \in Callers, Refuse(c) \/ SyncDir(c)
      PROVE  CallsInv'
  <2>1. /\ UNCHANGED <<clock, local>> /\ pc[c] # "idle"
        /\ \/ Goto(c, "release") /\ SetAnswer(c, "error")
           \/ Goto(c, "unlock") /\ SetAnswer(c, "ok") /\ pc[c] = "syncDir"
    BY <1>5 DEF Refuse, SyncDir
  <2>2. local[c] \in LocalType /\ Same(c)
    BY <1>s, <2>1 DEF CallsInv, CallersType
  <2>3. PlaceFits("release", calls[c], local[c])
    BY DEF PlaceFits, Locked
  <2>4. pc[c] = "syncDir" => PlaceFits("unlock", calls[c], local[c])
    BY Calling DEF Fits, PlaceFits, Locked
  <2> QED
    BY <1>p, <2>1, <2>2, <2>3, <2>4, MovesAnswer
<1>6. ASSUME NEW c \in Callers, GiveUp(c) \/ ScanEnds(c) \/ Fails(c)
      PROVE  CallsInv'
  <2>1. /\ UNCHANGED clock /\ Forget(c) /\ pc[c] # "idle"
        /\ SetAnswer(c, "error") \/ SetAnswer(c, "ok")
        /\ \/ Goto(c, "release")
           \/ Goto(c, "unlock") /\ pc[c] \in Locked
    BY <1>6 DEF GiveUp, ScanEnds, Fails, Locked
  <2>2. PlaceFits("release", calls[c], NoLocal)
    BY DEF PlaceFits, Locked
  <2>3. pc[c] \in Locked => PlaceFits("unlock", calls[c], NoLocal)
    BY <2>1, Calling DEF Fits, PlaceFits, Locked
  <2> QED
    BY <1>p, <2>1, <2>2, <2>3, NoLocalType, MovesAnswer DEF Forget
<1>7. ASSUME NEW c \in Callers, Read(c)
      PROVE  CallsInv'
  <2> DEFINE id == calls[c].id
  <2>1. /\ calls[c] \in CallRecords /\ local[c] \in LocalType
        /\ calls[c].kind = "get" /\ id \in SessionIDs
    BY <1>7, Calling DEF Read, Fits, CallFits, PlaceFits
  <2>2. /\ Found(id) \subseteq SessionIDs \X Sessions
        /\ Found(id) \subseteq SessionIDs \X Contents
    BY <2>1 DEF Found, Contents
  <2>3. (IF file[id] = Torn THEN "error" ELSE "ok")
          \in {"pending", "applied", "ok", "error"}
    OBVIOUS
  <2>4. calls' = [calls EXCEPT ![c] = [calls[c] EXCEPT
          !.answer = IF file[id] = Torn THEN "error" ELSE "ok",
          !.found = Found(id)]]
    BY <1>7 DEF Read
  <2>5. PlaceFits("unlock", calls[c], local[c])
    BY <2>1 DEF PlaceFits, Locked
  <2>6. Goto(c, "unlock") /\ Same(c) /\ UNCHANGED clock /\ pc[c] # "idle"
    BY <1>7, <1>s DEF Read
  <2> QED
    BY <1>p, <2>1, <2>2, <2>3, <2>4, <2>5, <2>6, MovesAnswered
<1>8. ASSUME NEW c \in Callers, Rename(c)
      PROVE  CallsInv'
  <2> DEFINE loc == [local[c] EXCEPT !.synced = FALSE]
  <2>1. loc \in LocalType /\ calls[c].kind = "upsert"
    BY <1>8, Calling DEF Rename, Fits, PlaceFits, LocalType
  <2>2. PlaceFits("syncDir", calls[c], loc)
    BY <2>1 DEF PlaceFits, Locked
  <2>3. /\ Goto(c, "syncDir") /\ SetAnswer(c, "applied") /\ UNCHANGED clock
        /\ local' = [local EXCEPT ![c] = loc] /\ pc[c] # "idle"
    BY <1>8 DEF Rename
  <2> QED
    BY <1>p, <2>1, <2>2, <2>3, MovesAnswer
<1>9. ASSUME NEW c \in Callers, Scan(c) \/ Remove(c)
      PROVE  CallsInv'
  <2>1. /\ calls[c].kind \in {"delete", "stats"} /\ local[c] \in LocalType
        /\ pc[c] \in {"scan", "remove"} /\ UNCHANGED clock
    BY <1>9, Calling DEF Scan, Remove, Fits, PlaceFits
  <2>2. ASSUME NEW loc PROVE /\ PlaceFits("scan", calls[c], loc)
                             /\ PlaceFits("remove", calls[c], loc)
    BY <2>1 DEF PlaceFits, Locked
  <2>3. PICK id \in SessionIDs :
          \/ Add(c, id) /\ Visited(c, id) /\ Goto(c, "scan")
          \/ Visited(c, id) /\ Goto(c, "scan") /\ UNCHANGED calls
          \/ /\ local' = [local EXCEPT ![c].at = {id}]
             /\ Goto(c, "remove") /\ UNCHANGED calls
    <3>1. CASE Scan(c)
      <4>1. local[c].todo \subseteq SessionIDs
        BY <2>1 DEF LocalType
      <4>2. UNCHANGED pc => Goto(c, "scan")
        BY <3>1 DEF Scan, Goto, CallsInv, CallersType
      <4> QED
        BY <3>1, <4>1, <4>2 DEF Scan
    <3>2. CASE Remove(c)
      <4>1. local[c].at \subseteq SessionIDs
        BY <2>1 DEF LocalType
      <4> QED
        BY <3>2, <4>1 DEF Remove
    <3> QED
      BY <1>9, <3>1, <3>2
  <2> DEFINE visited == [local[c] EXCEPT !.todo = @ \ {id}, !.at = {}]
             chosen == [local[c] EXCEPT !.at = {id}]
  <2>4. visited \in LocalType /\ chosen \in LocalType
    BY <2>1 DEF LocalType
  <2>5. CASE Add(c, id) /\ Visited(c, id) /\ Goto(c, "scan")
    <3>1. local' = [local EXCEPT ![c] = visited]
      BY <2>5 DEF Visited
    <3> QED
      BY <1>p, <2>1, <2>2, <2>4, <2>5, <3>1, MovesAdd
  <2>6. CASE Visited(c, id) /\ Goto(c, "scan") /\ UNCHANGED calls
    <3>1. local' = [local EXCEPT ![c] = visited]
      BY <2>6 DEF Visited
    <3> QED
      BY <1>p, <2>1, <2>2, <2>4, <2>6, <3>1, MovesOn
  <2>7. CASE /\ local' = [local EXCEPT ![c].at = {id}]
             /\ Goto(c, "remove") /\ UNCHANGED calls
    <3>1. local' = [local EXCEPT ![c] = chosen]
      BY <2>7
    <3> QED
      BY <1>p, <2>1, <2>2, <2>4, <2>7, <3>1, MovesOn
  <2> QED
    BY <2>3, <2>5, <2>6, <2>7
<1>10. ASSUME NEW cs, NEW ps, Gone(cs, ps), UNCHANGED clock
       PROVE  CallsInv'
  <2>1. CallersType'
    BY <1>10, NoLocalType DEF Gone, CallsInv, CallersType, Places
  <2>2. ASSUME NEW d \in Callers
        PROVE  Fits(Kinds[d], pc'[d], calls'[d], local'[d])
    <3>1. CASE d \in cs
      <4>1. pc'[d] = "idle" /\ calls'[d] = NoCall
        BY <1>10, <3>1 DEF Gone
      <4> QED
        BY <4>1 DEF Fits, CallFits, PlaceFits, Locked
    <3>2. CASE d \notin cs
      BY <1>10, <3>2 DEF Gone, CallsInv
    <3> QED
      BY <3>1, <3>2
  <2> QED
    BY <2>1, <2>2 DEF CallsInv, Fits, CallFits, PlaceFits
<1>11. ASSUME Tick
       PROVE  CallsInv'
  BY <1>11, FileStoreAssumption
  DEF Tick, CallsInv, CallersType, Fits, CallFits, PlaceFits
<1>12. ASSUME UNCHANGED vars
       PROVE  CallsInv'
  BY <1>12 DEF vars, CallsInv, CallersType, Fits, CallFits, PlaceFits
<1>13. ASSUME PowerLoss \/ \E p \in Processes : Crash(p)
       PROVE  CallsInv'
  BY <1>10, <1>13 DEF PowerLoss, Crash
<1> QED
  BY <1>1, <1>2, <1>3, <1>4, <1>5, <1>6, <1>7, <1>8, <1>9, <1>11, <1>12, <1>13
  DEF Next, Proceed

-----------------------------------------------------------------------------
(* What happens to the lock files.                                         *)

(* Nobody begins to work on a file, and no lock file goes.                 *)
LEMMA LockFrame ==
  ASSUME LockExclusive, UNCHANGED lock,
         \A d \in Callers : pc'[d] \in Locked =>
             pc[d] \in Locked /\ calls'[d].id = calls[d].id
  PROVE  LockExclusive'
  BY DEF LockExclusive

(* One caller moves, and remains outside or works on.                      *)
LEMMA LockMoves ==
  ASSUME LockExclusive, CallsInv, UNCHANGED lock,
         NEW c \in Callers, NEW place, Goto(c, place),
         place \in Locked => pc[c] \in Locked,
         \A d \in Callers : pc[d] \in Locked => calls'[d].id = calls[d].id
  PROVE  LockExclusive'
<1>1. \A d \in Callers : pc'[d] = IF d = c THEN place ELSE pc[d]
  BY DEF Goto, CallsInv, CallersType
<1> QED
  BY <1>1, LockFrame

(* An answer leaves every call the id it has.                              *)
LEMMA IdsStay ==
  ASSUME CallsInv, NEW c \in Callers, pc[c] # "idle",
         NEW answer, NEW found,
         calls' = [calls EXCEPT ![c] =
                     [calls[c] EXCEPT !.answer = answer, !.found = found]]
  PROVE  \A d \in Callers : calls'[d].id = calls[d].id
<1>1. calls[c] \in CallRecords
  BY Calling
<1> QED
  BY <1>1 DEF CallRecords, CallsInv, CallersType

(* Every action keeps the lock files exclusive.                            *)
LEMMA LockStep ==
  DiskType /\ MuInv /\ CallsInv /\ LockExclusive /\ [Next]_vars
      => LockExclusive'
<1> SUFFICES ASSUME DiskType, MuInv, CallsInv, LockExclusive, [Next]_vars
             PROVE  LockExclusive'
  OBVIOUS
<1> DEFINE IdsUnchanged == \A d \in Callers :
             pc[d] \in Locked => calls'[d].id = calls[d].id
<1>1. ASSUME NEW c \in Callers, AcquireFileLock(c)
      PROVE  LockExclusive'
  <2> DEFINE id == calls[c].id
  <2>1. id \in SessionIDs
    BY <1>1, Calling DEF AcquireFileLock, Fits, CallFits, PlaceFits
  <2>2. lock[id] = FALSE
    BY <1>1, <2>1 DEF AcquireFileLock, LockFree, DiskType
  <2>3. \A d \in Callers : pc[d] \in Locked => calls[d].id # id
    BY <2>2 DEF LockExclusive
  <2>4. lock' = [lock EXCEPT ![id] = TRUE] /\ lock \in [SessionIDs -> BOOLEAN]
    BY <1>1 DEF AcquireFileLock, SetLock, DiskType
  <2>5. lock'[id] /\ \A x \in SessionIDs : lock[x] => lock'[x]
    BY <2>1, <2>4, Zenon
  <2>6. \A d \in Callers : d # c => pc'[d] = pc[d]
    BY <1>1 DEF AcquireFileLock, Goto, CallsInv, CallersType
  <2>7. \A d \in Callers : pc[d] \in Locked => calls[d].id \in SessionIDs
    BY Calling DEF Fits, CallFits, PlaceFits, Locked
  <2>8. UNCHANGED calls
    BY <1>1 DEF AcquireFileLock
  <2> QED
    BY <2>3, <2>5, <2>6, <2>7, <2>8 DEF LockExclusive
<1>2. ASSUME NEW c \in Callers, Unlock(c)
      PROVE  LockExclusive'
  <2> DEFINE id == calls[c].id
  <2>1. /\ pc[c] \in Locked /\ UNCHANGED calls
        /\ \A d \in Callers : pc'[d] = IF d = c THEN "release" ELSE pc[d]
    BY <1>2 DEF Unlock, Goto, Locked, CallsInv, CallersType
  <2>2. \A d \in Callers : pc'[d] \in Locked =>
           d # c /\ pc[d] \in Locked /\ calls[d].id # id
    BY <2>1 DEF LockExclusive, Locked
  <2>3. \A d \in Callers : pc[d] \in Locked =>
           calls[d].id \in SessionIDs /\ lock[calls[d].id]
    BY Calling DEF Fits, CallFits, PlaceFits, Locked, LockExclusive
  <2>4. lock' = [lock EXCEPT ![id] = FALSE] \/ lock' = lock
    BY <1>2 DEF Unlock, SetLock
  <2>5. \A x \in SessionIDs : x # id /\ lock[x] => lock'[x]
    BY <2>4, Zenon DEF DiskType
  <2> QED
    BY <2>1, <2>2, <2>3, <2>5 DEF LockExclusive
<1>3. ASSUME NEW c \in Callers, Call(c)
      PROVE  LockExclusive'
  <2>1. IdsUnchanged
    BY <1>3 DEF Call, Locked, CallsInv, CallersType
  <2> QED
    BY <1>3, <2>1, LockMoves DEF Call, Locked, disk
<1>4. ASSUME NEW c \in Callers,
             PassContext(c) \/ RLock(c) \/ Lock(c) \/ Announce(c)
      PROVE  LockExclusive'
  <2>1. PICK place : Goto(c, place) /\ place \notin Locked
    BY <1>4 DEF PassContext, RLock, Lock, Announce, Inside, Locked
  <2>2. UNCHANGED lock /\ IdsUnchanged
    BY <1>4 DEF PassContext, RLock, Lock, Announce, disk
  <2> QED
    BY <2>1, <2>2, LockMoves
<1>5. ASSUME NEW c \in Callers, WriteTmp(c) \/ List(c)
      PROVE  LockExclusive'
  <2>1. UNCHANGED lock /\ IdsUnchanged
    BY <1>5 DEF WriteTmp, List, disk
  <2> QED
    BY <1>5, <2>1, LockMoves DEF WriteTmp, List, Locked
<1>6. ASSUME NEW c \in Callers, Release(c)
      PROVE  LockExclusive'
  <2>1. \A d \in Callers : pc'[d] \in {"idle", "lock", "list", pc[d]}
    BY <1>6 DEF Release, Goto, Inside, CallsInv, CallersType
  <2>2. /\ UNCHANGED lock /\ pc[c] = "release"
        /\ \A d \in Callers : d # c => calls'[d] = calls[d]
    BY <1>6 DEF Release, disk, CallsInv, CallersType
  <2> QED
    BY <2>1, <2>2, LockFrame DEF Locked
<1>7. ASSUME NEW c \in Callers,
             Refuse(c) \/ GiveUp(c) \/ ScanEnds(c) \/ Fails(c)
             \/ Rename(c) \/ SyncDir(c)
      PROVE  LockExclusive'
  <2>1. /\ UNCHANGED lock /\ pc[c] # "idle"
        /\ \E answer : SetAnswer(c, answer)
        /\ \E place : Goto(c, place) /\ (place \in Locked => pc[c] \in Locked)
    BY <1>7
    DEF Refuse, GiveUp, ScanEnds, Fails, Rename, SyncDir, SetFile, Settled,
        Locked, disk
  <2>2. calls[c] \in CallRecords
    BY <2>1, Calling
  <2>3. IdsUnchanged
    BY <2>1, <2>2 DEF SetAnswer, CallRecords, CallsInv, CallersType
  <2> QED
    BY <2>1, <2>3, LockMoves
<1>8. ASSUME NEW c \in Callers, Read(c)
      PROVE  LockExclusive'
  <2>1. IdsUnchanged
    BY <1>8, IdsStay DEF Read
  <2> QED
    BY <1>8, <2>1, LockMoves DEF Read, Locked, disk
<1>9. ASSUME NEW c \in Callers, Scan(c) \/ Remove(c)
      PROVE  LockExclusive'
  <2>1. /\ UNCHANGED lock /\ pc[c] \in {"scan", "remove"}
        /\ UNCHANGED calls \/ \E id : Add(c, id)
        /\ UNCHANGED pc \/ \E place : Goto(c, place) /\ place \notin Locked
    BY <1>9 DEF Scan, Remove, SetFile, Locked, disk
  <2>2. IdsUnchanged
    BY <2>1 DEF Add, Locked, CallsInv, CallersType
  <2> QED
    BY <2>1, <2>2, LockMoves, LockFrame
<1>10. ASSUME NEW p \in Processes, Crash(p)
       PROVE  LockExclusive'
  BY <1>10, LockFrame DEF Crash, Gone, disk, Locked
<1>11. ASSUME PowerLoss
       PROVE  LockExclusive'
  BY <1>11 DEF PowerLoss, Gone, LockExclusive, Locked
<1>12. ASSUME UNCHANGED <<disk, pc, calls>>
       PROVE  LockExclusive'
  BY <1>12 DEF LockExclusive, disk
<1> QED
  BY <1>1, <1>2, <1>3, <1>4, <1>5, <1>6, <1>7, <1>8, <1>9, <1>10, <1>11, <1>12
  DEF Next, Proceed, Tick, vars, disk

-----------------------------------------------------------------------------
(* All of it together is inductive.                                        *)
IInv == DiskType /\ Intact /\ MuInv /\ CallsInv /\ LockExclusive

(* The inductive invariant holds at the start, ...                         *)
LEMMA IInvInit == Init => IInv
<1>1. Init => LockExclusive
  BY DEF Init, LockExclusive, Locked
<1> QED
  BY <1>1, DiskInit, MuInit, CallsInit DEF IInv

(* ... every action keeps it, ...                                          *)
LEMMA IInvStep == IInv /\ [Next]_vars => IInv'
  BY DiskStep, MuStep, CallsStep, LockStep DEF IInv

(* ... and so it always holds.                                             *)
LEMMA IInvHolds == Spec => []IInv
  BY IInvInit, IInvStep, PTL DEF Spec

(* Every variable of the store stays within its type.                      *)
THEOREM TypeCorrect == Spec => []TypeOK
<1>1. IInv => TypeOK
  BY TypeParts DEF IInv
<1> QED
  BY <1>1, IInvHolds, PTL

(* The lock files exclude, whatever crashes, power losses and impatient    *)
(* callers leave behind.                                                   *)
THEOREM LocksExclude == Spec => []LockExclusive
<1>1. IInv => LockExclusive
  BY DEF IInv
<1> QED
  BY <1>1, IInvHolds, PTL

(* A power loss never leaves a torn session file.                          *)
THEOREM FilesIntact == Spec => []Intact
<1>1. IInv => Intact
  BY DEF IInv
<1> QED
  BY <1>1, IInvHolds, PTL

=============================================================================
