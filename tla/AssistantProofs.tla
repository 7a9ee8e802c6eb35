--------------------------- MODULE AssistantProofs ---------------------------
(***************************************************************************)
(* Theorems about the assistant: its types, whose turn it is to speak, and *)
(* what is in the files it says it has written.                            *)
(***************************************************************************)
EXTENDS Assistant, TLAPS

(* The content a file may have.                                            *)
LEMMA PutType ==
  ASSUME TypeOK, NEW a \in Assistants, dir[a] \in Seconds,
         NEW m \in Machines, NEW content \in Machines \cup {NoFile, Empty},
         Put(a, m, content)
  PROVE  /\ file' \in [Seconds -> [Bases -> Machines \cup {NoFile, Empty}]]
         /\ file'[dir[a]][Base[m]] = content
         /\ \A d \in Seconds, b \in Bases :
              d # dir[a] \/ b # Base[m] => file'[d][b] = file[d][b]
<1>1. Base[m] \in Bases
  BY DEF Bases
<1> QED
  BY <1>1 DEF TypeOK, Put

(* What the user is told of a write is about the file that was written.    *)
LEMMA ReportType ==
  ASSUME TypeOK, NEW a \in Assistants, pc[a] = "write",
         NEW content \in Machines \cup {NoFile}, Report(a, content)
  PROVE  /\ writing[a] \in Machines /\ dir[a] \in Seconds
         /\ told' \in [Assistants -> [Bases -> Machines \cup {NoFile}]]
         /\ told'[a][Base[writing[a]]] = content
         /\ \A b \in Assistants, x \in Bases :
              b # a \/ x # Base[writing[a]] => told'[b][x] = told[b][x]
<1>1. writing[a] \in Machines /\ dir[a] \in Seconds
  BY DEF TypeOK
<1>2. Base[writing[a]] \in Bases
  BY <1>1 DEF Bases
<1> QED
  BY <1>1, <1>2 DEF TypeOK, Report

(* The types hold at first.                                                *)
LEMMA TypeInit == Init => TypeOK
<1> SUFFICES ASSUME Init PROVE TypeOK
  OBVIOUS
<1>1. 0 \in Seconds
  BY AssistantAssumption DEF Seconds
<1> QED
  BY <1>1 DEF Init, TypeOK

(* Every action keeps the types.                                           *)
LEMMA TypeStep == TypeOK /\ [Next]_vars => TypeOK'
<1> SUFFICES ASSUME TypeOK, [Next]_vars
             PROVE  TypeOK'
  OBVIOUS
<1> USE DEF Goto, Append
<1>1. ASSUME NEW a \in Assistants, PrepareTargetNamespace(a)
      PROVE  TypeOK'
  BY <1>1 DEF PrepareTargetNamespace, TypeOK
<1>2. ASSUME NEW a \in Assistants, ReadString(a) \/ End(a)
      PROVE  TypeOK'
  BY <1>2 DEF ReadString, End, TypeOK
<1>3. ASSUME NEW a \in Assistants, CutOff(a)
      PROVE  TypeOK'
  BY <1>3 DEF CutOff, TypeOK
<1>4. ASSUME NEW a \in Assistants, Talk(a) \/ ToolFails(a)
      PROVE  TypeOK'
  BY <1>4 DEF Talk, ToolFails, TypeOK
<1>5. ASSUME NEW a \in Assistants, WriteStateMachineToFile(a)
      PROVE  TypeOK'
  <2>1. PICK m \in Machines : /\ writing' = [writing EXCEPT ![a] = m]
                              /\ Put(a, m, Empty)
    BY <1>5 DEF WriteStateMachineToFile
  <2>2. dir[a] \in Seconds /\ m # NoFile
    BY <1>5, AssistantAssumption DEF WriteStateMachineToFile, TypeOK
  <2>3. file' \in [Seconds -> [Bases -> Machines \cup {NoFile, Empty}]]
    BY <2>1, <2>2, PutType
  <2> QED
    BY <1>5, <2>1, <2>2, <2>3 DEF WriteStateMachineToFile, TypeOK
<1>6. ASSUME NEW a \in Assistants, WriteEnds(a) \/ WriteFails(a)
      PROVE  TypeOK'
  <2>1. /\ pc[a] = "write" /\ writing[a] \in Machines /\ dir[a] \in Seconds
        /\ Report(a, writing[a]) \/ Report(a, NoFile)
    BY <1>6 DEF WriteEnds, WriteFails, TypeOK
  <2>2. told' \in [Assistants -> [Bases -> Machines \cup {NoFile}]]
    BY <2>1, ReportType
  <2>3. file' \in [Seconds -> [Bases -> Machines \cup {NoFile, Empty}]]
    <3>1. \/ UNCHANGED file
          \/ Put(a, writing[a], writing[a]) \/ Put(a, writing[a], Empty)
      BY <1>6 DEF WriteEnds, WriteFails
    <3>2. CASE UNCHANGED file
      BY <3>2 DEF TypeOK
    <3> QED
      BY <2>1, <3>1, <3>2, PutType
  <2> QED
    BY <2>1, <2>2, <2>3 DEF Report, TypeOK
<1>7. CASE Tick
  BY <1>7, AssistantAssumption DEF Tick, TypeOK, Seconds
<1>8. CASE UNCHANGED vars
  BY <1>8 DEF vars, TypeOK
<1> QED
  BY <1>1, <1>2, <1>3, <1>4, <1>5, <1>6, <1>7, <1>8 DEF Next

(* Every variable of the assistants stays within its type.                 *)
THEOREM TypeCorrect == Spec => []TypeOK
  BY TypeInit, TypeStep, PTL DEF Spec

-----------------------------------------------------------------------------
(* Every request to the language model ends with the user's words or with  *)
(* what became of a tool.                                                  *)
THEOREM RequestsEnd == Spec => []RequestsEndWithUser
<1>1. Init => RequestsEndWithUser
  BY DEF Init, RequestsEndWithUser
<1>2. TypeOK /\ RequestsEndWithUser /\ [Next]_vars => RequestsEndWithUser'
  BY DEF Next, PrepareTargetNamespace, ReadString, End, CutOff, Talk,
         ToolFails, WriteStateMachineToFile, WriteEnds, WriteFails, Report,
         Tick, vars, Goto, Append, TypeOK, RequestsEndWithUser
<1> QED
  BY <1>1, <1>2, TypeCorrect, PTL DEF Spec

-----------------------------------------------------------------------------
(* A process that has no directory has written nothing, one that has one   *)
(* is past its start, and only a write has a file open.  The file a        *)
(* process has open is empty, and what it was last told of any other is    *)
(* true, as long as it is alone.                                           *)
Placed(a) ==
    /\ pc[a] = "start" => dir[a] = NoDir
    /\ pc[a] \notin {"write", "ended"} => writing[a] = NoFile
    /\ dir[a] = NoDir => /\ writing[a] = NoFile
                         /\ \A b \in Bases : told[a][b] = NoFile

Kept(a) ==
    dir[a] # NoDir /\ Alone(a) =>
        /\ pc[a] = "write" => file[dir[a]][Base[writing[a]]] = Empty
        /\ \A m \in Machines :
             /\ told[a][Base[m]] = m
             /\ writing[a] = NoFile \/ Base[writing[a]] # Base[m]
             => file[dir[a]][Base[m]] = m

FilesInv == TypeOK /\ \A a \in Assistants : Placed(a) /\ Kept(a)

(* A machine is no missing file, and its file has a name.                  *)
LEMMA MachineFile ==
  ASSUME NEW m \in Machines
  PROVE  m # NoFile /\ m # Empty /\ Base[m] \in Bases /\ NoDir \notin Seconds
  BY AssistantAssumption DEF Bases, NoDir, Seconds

(* A write that one process ends leaves its own file as it says, ...       *)
LEMMA WriterKeeps ==
  ASSUME FilesInv, NEW a \in Assistants, WriteEnds(a) \/ WriteFails(a)
  PROVE  Kept(a)'
<1> SUFFICES ASSUME dir[a] # NoDir, Alone(a)
             PROVE  Kept(a)'
  BY DEF Kept, Alone, WriteEnds, WriteFails, Report
<1>1. /\ pc[a] = "write" /\ writing[a] \in Machines /\ dir[a] \in Seconds
      /\ TypeOK /\ Kept(a)
  BY DEF WriteEnds, WriteFails, TypeOK, FilesInv
<1>2. /\ pc'[a] = "chat" /\ writing'[a] = NoFile /\ dir' = dir
  BY <1>1 DEF WriteEnds, WriteFails, Report, Goto, TypeOK
<1> DEFINE w == writing[a]
<1>3. CASE WriteFails(a)
  <2>1. /\ file' = file /\ told'[a][Base[w]] = NoFile
        /\ \A x \in Bases : x # Base[w] => told'[a][x] = told[a][x]
    BY <1>1, <1>3, ReportType DEF WriteFails
  <2> QED
    BY <1>1, <1>2, <2>1, MachineFile DEF Kept
<1>4. CASE WriteEnds(a)
  <2>1. /\ told'[a][Base[w]] = w
        /\ \A x \in Bases : x # Base[w] => told'[a][x] = told[a][x]
    BY <1>1, <1>4, ReportType DEF WriteEnds
  <2>2. ~Disturbed(a)
    BY <1>1 DEF Disturbed, Alone, Kept
  <2>3. /\ file'[dir[a]][Base[w]] = w
        /\ \A b \in Bases : b # Base[w] => file'[dir[a]][b] = file[dir[a]][b]
    BY <1>1, <1>4, <2>2, PutType DEF WriteEnds
  <2> QED
    BY <1>1, <1>2, <2>1, <2>3, MachineFile DEF Kept
<1> QED
  BY <1>3, <1>4

(* ... and one that opens a file has emptied it.                           *)
LEMMA OpenerKeeps ==
  ASSUME FilesInv, NEW a \in Assistants, WriteStateMachineToFile(a)
  PROVE  Kept(a)'
<1>1. PICK m \in Machines : /\ writing' = [writing EXCEPT ![a] = m]
                            /\ Put(a, m, Empty)
  BY DEF WriteStateMachineToFile
<1>2. /\ dir[a] \in Seconds /\ pc[a] = "chat" /\ dir' = dir /\ told' = told
      /\ TypeOK /\ writing'[a] = m
  BY <1>1 DEF WriteStateMachineToFile, TypeOK, FilesInv
<1>3. /\ file'[dir[a]][Base[m]] = Empty
      /\ \A b \in Bases : b # Base[m] => file'[dir[a]][b] = file[dir[a]][b]
  BY <1>1, <1>2, PutType
<1>4. Alone(a)' => Alone(a)
  BY <1>2 DEF Alone
<1> QED
  BY <1>2, <1>3, <1>4, MachineFile DEF Kept, Placed, FilesInv

(* What one process does is nothing to another that is alone.              *)
LEMMA OthersKeep ==
  ASSUME FilesInv, NEW a \in Assistants, NEW b \in Assistants \ {a},
         \/ WriteStateMachineToFile(a)
         \/ WriteEnds(a) \/ WriteFails(a)
  PROVE  Kept(b)'
<1> SUFFICES ASSUME dir[b] # NoDir, Alone(b)
             PROVE  Kept(b)'
  BY DEF Kept, Alone, WriteStateMachineToFile, WriteEnds, WriteFails, Report
<1>1. /\ TypeOK /\ Kept(b) /\ dir[a] \in Seconds /\ dir[b] \in Seconds
      /\ dir[a] # dir[b] /\ dir' = dir
  BY DEF WriteStateMachineToFile, WriteEnds, WriteFails, Report, TypeOK,
         FilesInv, Alone
<1>2. pc'[b] = pc[b] /\ writing'[b] = writing[b]
  BY <1>1 DEF WriteStateMachineToFile, WriteEnds, WriteFails, Report, Goto,
              TypeOK
<1>3. \A x \in Bases : told'[b][x] = told[b][x]
  <2>1. CASE WriteStateMachineToFile(a)
    BY <2>1 DEF WriteStateMachineToFile
  <2>2. CASE WriteEnds(a) \/ WriteFails(a)
    <3>1. /\ pc[a] = "write" /\ writing[a] \in Machines
          /\ Report(a, writing[a]) \/ Report(a, NoFile)
      BY <1>1, <2>2 DEF WriteEnds, WriteFails, TypeOK
    <3> QED
      BY <1>1, <3>1, ReportType
  <2> QED
    BY <2>1, <2>2
<1>4. \A x \in Bases : file'[dir[b]][x] = file[dir[b]][x]
  <2>1. \/ file' = file
        \/ \E m \in Machines, c \in Machines \cup {NoFile, Empty} :
             Put(a, m, c)
    BY <1>1 DEF WriteStateMachineToFile, WriteEnds, WriteFails, TypeOK
  <2> QED
    BY <1>1, <2>1, PutType
<1>5. pc[b] = "write" => writing[b] \in Machines
  BY <1>1 DEF TypeOK
<1> QED
  BY <1>1, <1>2, <1>3, <1>4, <1>5, MachineFile DEF Kept

(* Every action keeps the files as they were told of.                      *)
LEMMA FilesStep == FilesInv /\ [Next]_vars => FilesInv'
<1> SUFFICES ASSUME FilesInv, [Next]_vars
             PROVE  FilesInv'
  OBVIOUS
<1>t. TypeOK /\ TypeOK'
  BY TypeStep DEF FilesInv
<1>1. ASSUME NEW a \in Assistants, PrepareTargetNamespace(a)
      PROVE  FilesInv'
  <2>1. /\ dir' = [dir EXCEPT ![a] = clock] /\ pc[a] = "start"
        /\ dir[a] = NoDir /\ clock # NoDir /\ writing[a] = NoFile
        /\ pc' = [pc EXCEPT ![a] = "first"]
        /\ \A b \in Bases : told[a][b] = NoFile
        /\ UNCHANGED <<file, told, writing>>
    BY <1>1, <1>t, AssistantAssumption
    DEF PrepareTargetNamespace, Goto, FilesInv, Placed, NoDir, TypeOK, Seconds
  <2>2. ASSUME NEW b \in Assistants
        PROVE  Placed(b)'
    BY <1>t, <2>1 DEF FilesInv, Placed, TypeOK
  <2>3. Kept(a)'
    BY <1>t, <2>1, MachineFile DEF Kept, TypeOK
  <2>4. ASSUME NEW b \in Assistants \ {a}
        PROVE  Kept(b)'
    <3>1. dir'[b] = dir[b] /\ pc'[b] = pc[b]
      BY <1>t, <2>1 DEF TypeOK
    <3>2. dir[b] # NoDir /\ Alone(b)' => Alone(b)
      BY <1>t, <2>1 DEF Alone, TypeOK
    <3> QED
      BY <2>1, <3>1, <3>2 DEF FilesInv, Kept
  <2> QED
    BY <1>t, <2>2, <2>3, <2>4 DEF FilesInv
<1>2. ASSUME NEW a \in Assistants,
             ReadString(a) \/ End(a) \/ CutOff(a) \/ Talk(a) \/ ToolFails(a)
      PROVE  FilesInv'
  <2>1. /\ UNCHANGED <<dir, file, told, writing>>
        /\ pc' \in [Assistants -> {"start", "first", "chat", "write", "ask",
                                  "ended"}]
        /\ \A b \in Assistants \ {a} : pc'[b] = pc[b]
        /\ \/ pc[a] # "write" /\ pc'[a] \in {"chat", "ask"} /\ pc[a] # "ended"
              /\ pc[a] # "start"
           \/ pc'[a] = "ended"
    BY <1>2, <1>t DEF ReadString, End, CutOff, Talk, ToolFails, Goto, TypeOK
  <2>2. ASSUME NEW b \in Assistants
        PROVE  Placed(b)' /\ Kept(b)'
    BY <2>1 DEF FilesInv, Placed, Kept, Alone
  <2> QED
    BY <1>t, <2>2 DEF FilesInv
<1>3. ASSUME NEW a \in Assistants,
             \/ WriteStateMachineToFile(a)
             \/ WriteEnds(a) \/ WriteFails(a)
      PROVE  FilesInv'
  <2>1. \A b \in Assistants : Kept(b)'
    BY <1>3, OpenerKeeps, WriterKeeps, OthersKeep
  <2>2. /\ dir' = dir /\ dir[a] \in Seconds
        /\ \A b \in Assistants \ {a} : /\ pc'[b] = pc[b]
                                       /\ writing'[b] = writing[b]
                                       /\ told'[b] = told[b]
        /\ \/ pc'[a] = "write"
           \/ pc'[a] = "chat" /\ writing'[a] = NoFile
    BY <1>3, <1>t DEF WriteStateMachineToFile, WriteEnds, WriteFails, Report,
                      Goto, TypeOK
  <2>3. ASSUME NEW b \in Assistants
        PROVE  Placed(b)'
    BY <2>2, AssistantAssumption DEF FilesInv, Placed, NoDir, Seconds
  <2> QED
    BY <1>t, <2>1, <2>3 DEF FilesInv
<1>4. CASE Tick \/ UNCHANGED vars
  BY <1>4, <1>t DEF Tick, vars, FilesInv, Placed, Kept, Alone
<1> QED
  BY <1>1, <1>2, <1>3, <1>4 DEF Next

(* What was last said to be in a file is in it, for a process that shares  *)
(* its second with no other.                                               *)
THEOREM FilesAsTold == Spec => []ToldIsOnFile
<1>1. Init => FilesInv
  <2> SUFFICES ASSUME Init PROVE FilesInv
    OBVIOUS
  <2> QED
    BY TypeInit DEF Init, FilesInv, Placed, Kept
<1>2. FilesInv => ToldIsOnFile
  BY MachineFile DEF FilesInv, Placed, Kept, ToldIsOnFile
<1> QED
  BY <1>1, <1>2, FilesStep, PTL DEF Spec

=============================================================================
