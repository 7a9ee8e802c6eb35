---------------------------- MODULE SocketServer ----------------------------
(***************************************************************************)
(* adapters/servers/unix.go: processes that run "serve" on one socket path *)
(* and processes that each send one request to it.                         *)
(*                                                                         *)
(* A server dials the path and gives up if somebody answers; otherwise it  *)
(* removes the file and listens.  A signal closes the listener, which      *)
(* unlinks the path whatever file is there, and leaves five seconds to the *)
(* requests under way.  A killed server leaves its file behind.  A client  *)
(* waits thirty seconds; the handler of its request does not notice that   *)
(* it has gone.  The sessions are in the memory of the server              *)
(* (default_runtime.go), so that two servers on one path are two services. *)
(***************************************************************************)
EXTENDS Integers

CONSTANTS
    Servers,        \* processes, each started any number of times
    Calls,          \* requests under way at once
    NoServer,
    NoSocket,       \* no file at the path
    Stale,          \* a file nobody listens on
    Circumstances   \* which of "overlap" (servers are started at once),
                    \* "kill", "io" (calls of the system fail) may happen

ASSUME SocketServerAssumption ==
    /\ NoSocket # Stale
    /\ {NoSocket, Stale, NoServer} \cap Servers = {}
    /\ Circumstances \subseteq {"overlap", "kill", "io"}

VARIABLES
    socket,         \* the file at the path, by the server that listens on it
    pc,             \* where each server is
    \* Of each call: whether its client waits, what it was told, the server
    \* it is connected to, how far the handler is, what the service has done.
    waits, told, at, stage, ran

calls == <<waits, told, at, stage, ran>>
vars == <<socket, pc, calls>>

-----------------------------------------------------------------------------
Starting == {"dial", "remove", "listen"}

Answers == {"ok", "rejected", "failed"}

TypeOK ==
    /\ socket \in Servers \cup {NoSocket, Stale}
    /\ pc \in [Servers -> Starting \cup {"down", "refused", "serving", "draining"}]
    /\ waits \in [Calls -> BOOLEAN]
    /\ told \in [Calls -> Answers \cup {"nothing", "broken"}]
    /\ at \in [Calls -> Servers \cup {NoServer}]
    /\ stage \in [Calls -> {"none", "queued", "reading", "running"} \cup Answers]
    /\ ran \in [Calls -> {"no", "begun", "done", "error"}]
    /\ \A k \in Calls : stage[k] # "none" =>
         /\ at[k] \in Servers
         /\ pc[at[k]] \in {"serving", "draining"}
    /\ \A k \in Calls : waits[k] => stage[k] # "none"

Init ==
    /\ socket \in {NoSocket, Stale}
    /\ pc = [s \in Servers |-> "down"]
    /\ waits = [k \in Calls |-> FALSE]
    /\ told = [k \in Calls |-> "nothing"]
    /\ at = [k \in Calls |-> NoServer]
    /\ stage = [k \in Calls |-> "none"]
    /\ ran = [k \in Calls |-> "no"]

-----------------------------------------------------------------------------
(* StartAndListen *)

Goto(s, place) == pc' = [pc EXCEPT ![s] = place]

Start(s) ==
    /\ pc[s] \in {"down", "refused"}
    /\ "overlap" \in Circumstances \/ \A t \in Servers : pc[t] \notin Starting
    /\ Goto(s, "dial")
    /\ UNCHANGED <<socket, calls>>

(* Mutant: a file at the path is taken for a server. *)
Exists == socket # NoSocket

Listening == socket \in Servers

Dial(s) ==
    /\ pc[s] = "dial"
    /\ Goto(s, IF Listening THEN "refused" ELSE "remove")
    /\ UNCHANGED <<socket, calls>>

(* os.Remove asks only for the path: by now it may be another's socket.    *)
RemoveStale(s) ==
    /\ pc[s] = "remove"
    /\ socket' = NoSocket
    /\ Goto(s, "listen")
    /\ UNCHANGED calls

Listen(s) ==
    /\ pc[s] = "listen"
    /\ socket = NoSocket
    /\ socket' = s
    /\ Goto(s, "serving")
    /\ UNCHANGED calls

(* The file cannot be removed, or the path not bound (again taken, too).   *)
StartFails(s) ==
    /\ \/ pc[s] \in {"remove", "listen"} /\ "io" \in Circumstances
       \/ pc[s] = "listen" /\ socket # NoSocket
    /\ Goto(s, "down")
    /\ UNCHANGED <<socket, calls>>

-----------------------------------------------------------------------------
(* The end of a server. *)

Of(s, stages) == {k \in Calls : at[k] = s /\ stage[k] \in stages}

Handling == {"reading", "running"} \cup Answers

(* The connections of the calls in ks are closed without an answer.        *)
Break(ks) ==
    /\ stage' = [k \in Calls |-> IF k \in ks THEN "none" ELSE stage[k]]
    /\ waits' = [k \in Calls |-> waits[k] /\ k \notin ks]
    /\ told' = [k \in Calls |->
                  IF k \in ks /\ waits[k] THEN "broken" ELSE told[k]]
    /\ UNCHANGED <<at, ran>>

(* Mutant: the listener is closed last. *)
SignalFirst(s) ==
    /\ pc[s] = "serving"
    /\ Goto(s, "draining")
    /\ UNCHANGED <<socket, calls>>

(* Shutdown closes the listener: the path is unlinked by its name, and     *)
(* connections nobody has accepted are reset.                              *)
Signal(s) ==
    /\ pc[s] = "serving"
    /\ socket' = NoSocket
    /\ Break(Of(s, {"queued"}))
    /\ Goto(s, "draining")

(* Mutant: only the requests that run are waited for, and for ever. *)
DrainedOnly(s) ==
    /\ pc[s] = "draining"
    /\ Of(s, {"running"}) = {}
    /\ Break(Of(s, Handling))
    /\ Goto(s, "down")
    /\ UNCHANGED socket

(* The last handler has returned, or five seconds have passed and the      *)
(* process ends under those that have not.                                 *)
Leave(s) ==
    /\ pc[s] = "draining"
    /\ Break(Of(s, Handling))
    /\ Goto(s, "down")
    /\ UNCHANGED socket

(* Serve returns an error; its listener is closed on the way.              *)
ServeFails(s) ==
    /\ "io" \in Circumstances
    /\ pc[s] = "serving"
    /\ socket' = NoSocket
    /\ Break(Of(s, Handling \cup {"queued"}))
    /\ Goto(s, "down")

(* Also a signal between Listen and NotifyContext.                         *)
Kill(s) ==
    /\ "kill" \in Circumstances
    /\ pc[s] \notin {"down", "refused"}
    /\ socket' = IF socket = s THEN Stale ELSE socket
    /\ Break(Of(s, Handling \cup {"queued"}))
    /\ Goto(s, "down")

-----------------------------------------------------------------------------
(* RunClient *)

Idle(k) == ~waits[k] /\ stage[k] = "none"

Connect(k) ==
    /\ Idle(k)
    /\ Listening
    /\ at' = [at EXCEPT ![k] = socket]
    /\ stage' = [stage EXCEPT ![k] = "queued"]
    /\ waits' = [waits EXCEPT ![k] = TRUE]
    /\ told' = [told EXCEPT ![k] = "nothing"]
    /\ ran' = [ran EXCEPT ![k] = "no"]
    /\ UNCHANGED <<socket, pc>>

ConnectFails(k) ==
    /\ Idle(k)
    /\ ~Listening
    /\ at' = [at EXCEPT ![k] = NoServer]
    /\ told' = [told EXCEPT ![k] = "broken"]
    /\ ran' = [ran EXCEPT ![k] = "no"]
    /\ UNCHANGED <<socket, pc, waits, stage>>

(* Thirty seconds: the client closes the connection, which a server that   *)
(* has the request already, in its queue even, does not mind.              *)
Timeout(k) ==
    /\ waits[k]
    /\ waits' = [waits EXCEPT ![k] = FALSE]
    /\ told' = [told EXCEPT ![k] = "broken"]
    /\ UNCHANGED <<socket, pc, at, stage, ran>>

-----------------------------------------------------------------------------
(* Serve, and the handlers: the request is read, given to the service, and *)
(* answered with the status the service's error asks for.                  *)

At(k, place) == stage' = [stage EXCEPT ![k] = place]

Accept(k) ==
    /\ stage[k] = "queued"
    /\ At(k, "reading")
    /\ UNCHANGED <<socket, pc, waits, told, at, ran>>

(* Mutant: the handler goes on after it has written the error. *)
RejectAndRun(k) ==
    /\ stage[k] = "reading"
    /\ At(k, "rejected")
    /\ ran' = [ran EXCEPT ![k] = "begun"]
    /\ UNCHANGED <<socket, pc, waits, told, at>>

(* A body that cannot be read or is no request.                            *)
Reject(k) ==
    /\ stage[k] = "reading"
    /\ At(k, "rejected")
    /\ UNCHANGED <<socket, pc, waits, told, at, ran>>

CallService(k) ==
    /\ stage[k] = "reading"
    /\ At(k, "running")
    /\ ran' = [ran EXCEPT ![k] = "begun"]
    /\ UNCHANGED <<socket, pc, waits, told, at>>

ServiceReturns(k) ==
    /\ stage[k] = "running"
    /\ \E err \in BOOLEAN :
         /\ ran' = [ran EXCEPT ![k] = IF err THEN "error" ELSE "done"]
         /\ At(k, IF err THEN "failed" ELSE "ok")
    /\ UNCHANGED <<socket, pc, waits, told, at>>

Answer(k) ==
    /\ stage[k] \in Answers
    /\ told' = [told EXCEPT ![k] = IF waits[k] THEN stage[k] ELSE @]
    /\ waits' = [waits EXCEPT ![k] = FALSE]
    /\ At(k, "none")
    /\ UNCHANGED <<socket, pc, at, ran>>

-----------------------------------------------------------------------------
(* What goes on by itself, however long the service takes.                 *)
Timed(s) ==
    Dial(s) \/ RemoveStale(s) \/ Listen(s) \/ StartFails(s) \/ Leave(s)

Next ==
    \/ \E s \in Servers :
         Start(s) \/ Timed(s) \/ Signal(s) \/ ServeFails(s) \/ Kill(s)
    \/ \E k \in Calls :
         \/ Connect(k) \/ ConnectFails(k) \/ Timeout(k)
         \/ Accept(k) \/ Reject(k) \/ CallService(k) \/ ServiceReturns(k)
         \/ Answer(k)

(* The calls of the system return and the timers fire.  Nothing is assumed *)
(* of the service, whose actions may hang, nor of the accept loop.         *)
Spec ==
    /\ Init /\ [][Next]_vars
    /\ \A s \in Servers : WF_vars(Timed(s))
    /\ \A k \in Calls : WF_vars(Timeout(k))

-----------------------------------------------------------------------------
(* Properties. *)

(* Whoever serves is the one the path leads to, and the path never leads   *)
(* to a server that has ended or is ending: also after kills that left a   *)
(* file, while an old server drains and a new one starts ("unix sockets    *)
(* should be cleaned up on termination", unix.go 56).                      *)
Reachable == \A s \in Servers : pc[s] = "serving" <=> socket = s

(* unix.go 28: "Refuse to start if another server is already listening".   *)
OneServer ==
    \A s, t \in Servers : pc[s] = "serving" /\ pc[t] = "serving" => s = t

(* A start is refused only while another server serves: what a killed one  *)
(* has left never keeps the next from starting ("clean up a stale socket   *)
(* otherwise", unix.go 28).                                                *)
RefusedForAServer ==
    [][\A s \in Servers : pc'[s] = "refused" /\ pc[s] # "refused" =>
           \E t \in Servers \ {s} : pc[t] = "serving"]_vars

(* What a client is told, however its wait and the end of its server fall  *)
(* together, is what became of its request: a success was carried out, a   *)
(* failure was the service's, and what was rejected has not been run.      *)
AnswersTrue ==
    \A k \in Calls :
        /\ told[k] = "ok" => ran[k] = "done"
        /\ told[k] = "failed" => ran[k] = "error"
        /\ told[k] = "rejected" => ran[k] = "no"

(* However long the service takes: every client returns, every start comes *)
(* to an end, and a server that was told to stop does.                     *)
Ends ==
    /\ \A k \in Calls : waits[k] ~> ~waits[k]
    /\ \A s \in Servers :
         pc[s] \in Starting \cup {"draining"} ~>
             pc[s] \notin Starting \cup {"draining"}

=============================================================================
