------------------------------ MODULE Assistant -----------------------------
(***************************************************************************)
(* internal/bootstrap/config/assistant.go, tools.go and the writing half   *)
(* of adapters/config/json/json.go: processes in which a user talks to a   *)
(* language model, which may answer with a call of the one tool there is   *)
(* and so write a machine definition to a file.                            *)
(*                                                                         *)
(* Of the conversation the model keeps whose the last message is.  Text of *)
(* an answer that never came to its end is joined to the next one; what    *)
(* the two make together is as open as what an answer makes alone: prose   *)
(* or a call of the tool.                                                  *)
(***************************************************************************)
EXTENDS Integers

CONSTANTS
    Assistants,     \* processes
    Machines,       \* definitions the language model may send
    Base,           \* the file name sanitizeFileBase makes of their names
    Empty,          \* a file without all of its bytes
    NoFile,
    MaxTime         \* bound on the clock, in seconds

ASSUME AssistantAssumption ==
    /\ Empty # NoFile
    /\ {Empty, NoFile} \cap Machines = {}
    /\ DOMAIN Base = Machines
    /\ MaxTime \in Nat

VARIABLES
    clock,
    file,       \* by directory and file name
    pc,
    dir,        \* the directory of each process, named by its second
    last,       \* the role of the last message
    writing,    \* the machine the file of which is open
    told        \* by file name, what the language model was told is in it

vars == <<clock, file, pc, dir, last, writing, told>>

-----------------------------------------------------------------------------
Bases == {Base[m] : m \in Machines}

Seconds == 0..MaxTime

NoDir == -1

TypeOK ==
    /\ clock \in Seconds
    /\ file \in [Seconds -> [Bases -> Machines \cup {NoFile, Empty}]]
    /\ pc \in [Assistants ->
                 {"start", "first", "chat", "write", "ask", "ended"}]
    /\ dir \in [Assistants -> Seconds \cup {NoDir}]
    /\ last \in [Assistants -> {"system", "user", "assistant"}]
    /\ writing \in [Assistants -> Machines \cup {NoFile}]
    /\ told \in [Assistants -> [Bases -> Machines \cup {NoFile}]]
    /\ \A a \in Assistants : pc[a] = "write" => writing[a] # NoFile
    /\ \A a \in Assistants :
         pc[a] \in {"first", "chat", "write", "ask"} => dir[a] \in Seconds

Init ==
    /\ clock = 0
    /\ file = [d \in Seconds |-> [b \in Bases |-> NoFile]]
    /\ pc = [a \in Assistants |-> "start"]
    /\ dir = [a \in Assistants |-> NoDir]
    /\ last = [a \in Assistants |-> "system"]
    /\ writing = [a \in Assistants |-> NoFile]
    /\ told = [a \in Assistants |-> [b \in Bases |-> NoFile]]

Goto(a, place) == pc' = [pc EXCEPT ![a] = place]

Append(a, role) == last' = [last EXCEPT ![a] = role]

-----------------------------------------------------------------------------
(* Mutant: the error of MkdirAll is dropped. *)
PrepareTargetNamespaceFails(a) ==
    /\ pc[a] = "start"
    /\ Goto(a, "first")
    /\ UNCHANGED <<clock, file, dir, last, writing, told>>

(* A directory that is there already is taken too.                         *)
PrepareTargetNamespace(a) ==
    /\ pc[a] = "start"
    /\ dir' = [dir EXCEPT ![a] = clock]
    /\ Goto(a, "first")
    /\ UNCHANGED <<clock, file, last, writing, told>>

(* The first line goes to the language model whatever it says; the others  *)
(* do unless they begin with exit or quit.                                 *)
ReadString(a) ==
    /\ pc[a] \in {"first", "ask"}
    /\ Append(a, "user")
    /\ Goto(a, "chat")
    /\ UNCHANGED <<clock, file, dir, writing, told>>

(* The user's exit after the first line, an input that ends, a directory   *)
(* that cannot be made, a request to the language model that fails         *)
(* (log.Fatal), a process that is killed.                                  *)
End(a) ==
    /\ pc[a] # "ended"
    /\ Goto(a, "ended")
    /\ UNCHANGED <<clock, file, dir, last, writing, told>>

-----------------------------------------------------------------------------
(* SendChat, and respFunc with the answer. *)

(* No answer, or one that is not Done.                                     *)
CutOff(a) ==
    /\ pc[a] = "chat"
    /\ Goto(a, "ask")
    /\ UNCHANGED <<clock, file, dir, last, writing, told>>

(* Anything checkRunTools does not handle: prose, other tools, and a call  *)
(* that text left behind has made unreadable.                              *)
Talk(a) ==
    /\ pc[a] = "chat"
    /\ Append(a, "assistant")
    /\ Goto(a, "ask")
    /\ UNCHANGED <<clock, file, dir, writing, told>>

(* Mutant: a failing call of the tool is not reported. *)
ToolFailsSilently(a) ==
    /\ pc[a] = "chat"
    /\ Append(a, "assistant")
    /\ UNCHANGED <<clock, file, pc, dir, writing, told>>

(* A call of the tool with arguments that are no machine, or a directory   *)
(* or file that cannot be opened: the error is sent back at once.          *)
ToolFails(a) ==
    /\ pc[a] = "chat"
    /\ Append(a, "user")
    /\ UNCHANGED <<clock, file, pc, dir, writing, told>>

Put(a, m, content) == file' = [file EXCEPT ![dir[a]][Base[m]] = content]

(* os.WriteFile empties the file first.                                    *)
WriteStateMachineToFile(a) ==
    /\ pc[a] = "chat"
    /\ \E m \in Machines :
         /\ writing' = [writing EXCEPT ![a] = m]
         /\ Put(a, m, Empty)
    /\ Append(a, "assistant")
    /\ Goto(a, "write")
    /\ UNCHANGED <<clock, dir, told>>

(* The outcome goes back to the language model at once.                    *)
Report(a, content) ==
    /\ told' = [told EXCEPT ![a][Base[writing[a]]] = content]
    /\ writing' = [writing EXCEPT ![a] = NoFile]
    /\ Append(a, "user")
    /\ Goto(a, "chat")
    /\ UNCHANGED <<clock, dir>>

(* Another process has the same file open, or has written to it since.     *)
Disturbed(a) ==
    \/ file[dir[a]][Base[writing[a]]] # Empty
    \/ \E b \in Assistants \ {a} :
         /\ pc[b] = "write"
         /\ dir[b] = dir[a]
         /\ Base[writing[b]] = Base[writing[a]]

WriteEnds(a) ==
    LET m == writing[a]
    IN  /\ pc[a] = "write"
        /\ \/ Put(a, m, m)
           \/ Disturbed(a) /\ Put(a, m, Empty)
        /\ Report(a, m)

(* Mutant: the error of the write is dropped. *)
WriteFailsUnseen(a) ==
    /\ pc[a] = "write"
    /\ Report(a, writing[a])
    /\ UNCHANGED file

(* The old content is lost, and the language model hears of an error.      *)
WriteFails(a) ==
    /\ pc[a] = "write"
    /\ Report(a, NoFile)
    /\ UNCHANGED file

Tick ==
    /\ clock < MaxTime
    /\ clock' = clock + 1
    /\ UNCHANGED <<file, pc, dir, last, writing, told>>

-----------------------------------------------------------------------------
Next ==
    \/ \E a \in Assistants :
         \/ PrepareTargetNamespace(a) \/ ReadString(a) \/ End(a)
         \/ CutOff(a) \/ Talk(a) \/ ToolFails(a)
         \/ WriteStateMachineToFile(a) \/ WriteEnds(a) \/ WriteFails(a)
    \/ Tick

Spec == Init /\ [][Next]_vars

-----------------------------------------------------------------------------
(* Properties. *)

(* Every request ends with a message of the user's role, typed or made of  *)
(* a tool's outcome: the language model is never asked to go on from its   *)
(* own words, in whatever order answers, cut-off answers and tools come    *)
(* (assistant.go 155 to 190 and 226 to 231).                               *)
RequestsEndWithUser ==
    \A a \in Assistants : pc[a] = "chat" => last[a] = "user"

Alone(a) == \A b \in Assistants \ {a} : dir[b] # dir[a]

(* What the language model, and by it the user, was last told to be in a   *)
(* file is in it, unless the file is being written anew or the process     *)
(* ended while it was: for a process that shares its second with no other  *)
(* (tools.go 77: "executed successfully; file written to").                *)
ToldIsOnFile ==
    \A a \in Assistants : Alone(a) =>
        \A m \in Machines :
            /\ told[a][Base[m]] = m
            /\ writing[a] = NoFile \/ Base[writing[a]] # Base[m]
            => file[dir[a]][Base[m]] = m

=============================================================================
