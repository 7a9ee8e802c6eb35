# A verification of state-machine-engine

TLA+ modules that model state-machine-engine, TLC configurations that check
them on small instances, and theorems about them with proofs for TLAPS. File
names in parentheses are paths of the repository; line numbers are those of the
commit beside which this directory is kept.

## 1. The system

A *machine definition* names states, their transitions (condition, action,
target), an initial state and an error state. A client sends a request with a
session id; the service finds the session or makes one, lets the engine step it
through the definition, saves it and answers.

```
 client --unix socket--> server --> service --+--> JSON provider  (files, read per request)
                                     |        +--> validator      (pure)
                                     |        +--> session store  (memory | files)
                                     +--> engine --> conditions, actions, observers (plugins)
```

| part | state it keeps | operations | what is hard |
|---|---|---|---|
| engine (`internal/engine`) | none of its own; moves the session it is given | `Steps`, `Step`, `notify` | four places where a plugin may fail, before and after the session has moved; auto-advance and its bound; output and events gathered along the way |
| validator (`internal/validation`) | none | `Validate` | what the engine relies on and the validator does not say (spellings of `exit`, the stored session's state) |
| service (`internal/app`) | none; one request is a sequence of calls | `ProcessRequest`, `Stats`, `DeleteExpired` | overlapping requests, two saves per request, expiry, definitions that change under stored sessions |
| memory store (`adapters/session/memory`) | a map under an RWMutex | `Get`, `Upsert`, `DeleteExpired`, `Stats` | sharing of session data |
| file store (`adapters/session/file`) | a directory, lock files, an RWMutex per process | the same | processes that share a directory, cancelled calls, crashes, power loss |
| JSON provider (`adapters/config/json`) | two files; the directory of an assistant | load, write | loaded anew for each request; a write that fails half way |
| condition evaluators (`adapters/conditions`) | a registry under an RWMutex | `Register`, `Evaluate` | `\|\|` and `&&` decided from left to right, with errors |
| action registry (`adapters/actions`) | a registry under an RWMutex | `Register`, `Execute` | - |
| observer (`adapters/observers`) | a writer | `OnTransition` | - |
| socket server and client (`adapters/servers`) | socket file, listener | start, serve, shut down; send a request | live and stale sockets, shutdown with requests under way, clients that give up |
| assistant (`internal/bootstrap/config`) | a conversation | `Run`, the write tool | user, answers, cut-off answers and tool results decide together what is sent next; a loop that a model's answers keep going |
| wiring (`internal/bootstrap`, `cmd`, `internal/logging`, `sample`) | none | - | - |

What makes each part correct:

- *engine*: a session moves only along declared transitions or to the error
  state, and never out of an exit state; the answer says what happened; what
  observers are told is the path taken; output is complete and in order; every
  request ends.
- *service*: a conversation goes on where it was left, whatever failed in
  between; a lifetime once given is not lost, and lifetimes never add up; a
  session that has ended stays ended.
- *stores*: an atomic map; clean-up removes expired sessions and nothing else;
  for files also: durable once reported, never torn, exclusive between
  processes, and no call waits for ever.
- *evaluators*: the result is that of the expression, whatever the order.
- *server*: whoever serves is the one the path leads to, and a start is refused
  for a live server only; what a client is told is what became of its request;
  clients, starts and stops come to an end however long a request takes.
- *assistant*: the language model is asked to go on from a message of the user or
  a tool, never from its own words; what it was told is saved is on file.

The hazards behind these, each at its line, are the `hazards` of
`PROJECT.json`, with the properties that watch them or the reason why none does.

## 2. Modules

| module | models | kind |
|---|---|---|
| `StateMachine` | definitions, lookup, `Validate` | operators |
| `MachineWalk` | what the engine promises: a walk on the definition | abstract specification |
| `EngineContract` | the outcomes one call of `Steps` can have | operators |
| `Engine` | `Steps` and `Step` | specification, refines `MachineWalk` |
| `EngineProofs` | theorems about `Engine` | proofs |
| `EngineReports` | theorems about what `Engine` shows and returns | proofs |
| `Service` | `ProcessRequest`, clean-up, restarts, edited configuration | specification, uses `EngineContract` |
| `ServiceProofs` | theorems about `Service` | proofs |
| `StoreCalls` | the calls of a store, and when a session may be removed | operators |
| `SessionStore` | what a store promises; the memory store is it as it stands | abstract specification |
| `FileStore` | the file store | specification, refines `SessionStore` |
| `FileStoreProofs` | theorems about `FileStore` | proofs |
| `FileStoreAtomic` | the refinement of `SessionStore` by `FileStore`, and its durability | proofs |
| `Conditions` | one evaluation of a condition, with the expressions of `input_equals` | specification |
| `ConditionsProofs` | theorems about `Conditions` | proofs |
| `SocketServer` | servers and clients on one socket path | specification |
| `SocketServerProofs` | theorems about `SocketServer` | proofs |
| `Assistant` | assistants and the definitions they write | specification |
| `AssistantProofs` | theorems about `Assistant` | proofs |
| `MCEngine`, `MCService`, `MCFileStore`, `MCConditions`, `MCSocketServer`, `MCAssistant` | instances for TLC | - |

The layers meet at two contracts. The engine is shown to answer within
`EngineContract!Steps` (`AnswerAllowed`), and `Service` takes its engine step
from that operator, so the service is checked against every engine the contract
allows. The file store is shown to implement `SessionStore` (`Atomic`), whose
atomic operations are the ones `Service` performs.

### Engine

`state`, `i`, `fromState`, `selected`, `success`, `err`, `out` and `output` are
the variables of `Step` and `Steps`; `t` is the index of the range loop; `pc`
says where the goroutine is. Each call of a plugin is an action per outcome
(`OnFromOk`, `OnFromFinishes`, `OnFromFails`, `Matches`, `DoesNotMatch`,
`ConditionFails`, ...), and everything the code does up to the next call is part
of it. `events` holds what `notify` was given and `ran` what actions produced, in
order; `start`, `failed` and `finished` are history. Output is a sequence of
tokens, one for each action that ran (pass of the loop, place in the step). An
error is the cause of an error. A request (`Request`) brings any definition and
any bound, since the service loads both each time: so the session may be in a
state the definition does not have, as it can in the program.

### Service

A worker is a goroutine of the server in `ProcessRequest`: `pc` is the call it
makes next and `req` its local variables. `stored` is the session store and
`clock` the time. Every request reads the machine file and the runtime file anew
(`Load`, services.go 77; `LoadConfig`, 85), and each of them may have been edited
since the last request, or since the other was read: so neither is a variable,
and a read finds any of the contents the file may have (`MachineFiles`,
`RuntimeFiles`) or fails (`LoadFails`). A lifetime is a `time.Duration` as
`time.ParseDuration` gives it, zero and negative ones included. `Save` and
`Extend` are the two upserts. An upsert that fails may have taken effect
(`SessionStore!Fail` after `Upsert`), so its client is left `Uncertain`.
`DeleteExpired` may be cut short and then has removed some. `Restart` is the
process stopping anywhere and starting again over a store that keeps its
sessions.

`patient` are the sessions whose client sends no request before it has the answer
to the last, chosen at the start in every way; requests for the other sessions
overlap as they like. Two things are history, which no action looks at: `known`,
what a patient client was last told, and the field `given` of a session, the
lifetime its expiry was set with. With it the two properties of lifetimes say
what the code keeps although the lifetime changes: an expiry moves back by no more
than an edit has shortened the lifetime (`ExpiryAdvances`), and no session is
kept longer than the one lifetime it was given last (`LifetimeBounded`).

### FileStore

`file` and `lock` are the directory as processes see it, `fileAfter` and
`lockAfter` what a power loss may leave of it: everything since the last sync of
the directory. `mu` is the RWMutex of each process, as Go's has it: a writer
announces itself and waits for the readers inside, later readers wait behind
it. `pc`, `calls` and `local` are each caller's place, call and locals. A
context may end at any time; it shows where the code asks: once before the mutex
(`Refuse`; `PassContext` and `RLock` are the other outcome), while the call waits
for a lock file, and between two entries of a directory (`GiveUp`). A caller that
waits for the mutex, at "mutex", "drain" or "behind", waits until it is free,
whatever becomes of its context.
`Fails` is an error of the operating system at any call, `Crash` the death of a
process, `PowerLoss` of all. The temporary file is private to its call until the
rename, so its creation, write, sync and close are one action; whether its bytes
are on disk when it is renamed is `local.synced`. Temporary files that a dead
process leaves have names nobody reads, and are left out.

### Conditions

`condition` and `input` are what is evaluated. A text is a sequence of tokens:
clauses, malformed clauses, `||` and `&&`; blanks are dropped, and the optional
prefixes of a clause (`input:`) with them. A part of a text is a pair of places,
its first token and its last, and `Parts` is what `splitLogicalParts` cuts a text
into; a blank part is one whose last place is before its first. `alternative` is
the operand of `||` in hand and `clause` the operand of `&&` in it, so the
recursion of `evalInputEqualsExpr`, which is three levels deep, is a walk
through the text. `Shown` is how `fmt` shows a value, to be compared with a text.
A blank condition has the name "" and is true; one that has nothing before its
colon has the name ":", which is as unknown as any name nobody registered.
`Satisfied`, the reference the evaluation is checked against, looks for a
stretch of the tokens from one `||` to the next in which clauses that hold and
`&&` alternate; it cuts nothing.

### SocketServer

`socket` is the file at the path: none, one nobody listens on, or the socket of
a server. `pc` is where each server is: the dial, the removal and the listen of
`StartAndListen` (unix.go 29, 33, 38) are steps of their own, since another
process may act between them; `Signal` is the start of `Shutdown`, which closes
the listener and with it unlinks the path by its name, `Leave` its return, with
handlers done or five seconds over. `at` and `stage` follow each request from
the queue of the listener to its answer, `waits` and `told` are its client,
`ran` is what the service has done for it. A client that gives up (`Timeout`)
does not take its request with it, unless nobody has its connection yet. The
three handlers are one: they read, call the service, and answer 200 or 500; a
request that cannot be read or decoded, or that has no route, is `Reject`ed. The
server process keeps its sessions in its own memory (default_runtime.go 31), so
what a second server on the path would mean is two services.

### Assistant

`pc` is the place in `Run`, `last` the role of the last message. An answer, with
whatever `assistantText` still holds of one that was cut off before it, is prose
(`Talk`), a call of the tool that fails (`ToolFails`) or one that writes
(`WriteStateMachineToFile`): texts are left out, so any answer may be any of
these. `dir` is the directory of each process, named by the second it was
started in; `file` what is in it. `os.WriteFile` empties the file, then writes:
two actions, between which the process may end, the write may fail, and another
process that shares the directory may write the same file. `told` is history:
what the language model was told of each file.

## 3. What the runs check

| run | question | result |
|---|---|---|
| `engine` | does every request, over all definitions, bounds and plugin outcomes, keep events, errors, output, bound and contract in order, walk the definition, and end? | holds, 7951 states |
| `engine_error_stops` | does auto-advance stop when an error occurs (README.md 170)? | violated |
| `engine_finish_stops` | does a FinishExecutionError stop processing (engine.go 122)? | violated |
| `service` | do clients that wait for their answers keep their sessions and lifetimes, across failures, clean-ups, edits of both files and restarts, and does no lifetime add up, for any client? | holds, 938854 states |
| `service_overlap` | is exit final when requests for one session overlap? | violated |
| `service_abandoned` | does every abandoned session expire (services.go 131)? | violated |
| `file_store` | is the file store of two processes a durable atomic map under lock files, with failing calls, crashes and power losses, and does every call return? | holds, 103439 states |
| `file_store_two_processes` | does DeleteExpired remove nothing but expired sessions (store.go 158) when another process writes? | violated |
| `conditions` | does the evaluation from left to right give what an expression says, malformed parts included? | holds, 43426 states |
| `socket_server` | servers started one at a time, with kills, failures, stops and clients that give up: is whoever serves reached, is a start refused only for a live server, are clients told the truth, does everything end? | holds, 26360 states |
| `socket_server_overlap` | is a start refused when another server listens (unix.go 28), if two start at once? | violated |
| `assistant` | is the language model asked from the user's or a tool's words only, and is what it was told is saved on file? | holds, 70484 states |

What the violated runs show is told in the `findings` of `PROJECT.json`. In
short: an error state whose action succeeds turns a failure into a success;
a FinishExecutionError does not end auto-advance; overlapping requests overwrite
each other, exit states included; a session whose first request fails never
expires; DeleteExpired of one process can remove a session another has just
prolonged; and of two servers started at once the later takes the path from the
first. Two divergences are modelled and need no run: sessions outlive the
definition that named their state (`StateOf` yields the zero state, although
engine.go 107 says the state is guaranteed to exist), and the configured bound on
automatic advances is never used (`LoadRuntimeConfig`; README.md 204 documents it).

### Bounds

- *engine*: up to five states with self-loops and loops between two states, all
  combinations of auto-advance, execute-on-from, actions and conditions on the
  looping state and the error state, the bounds 0 (which becomes the default,
  here 3) and 2. Two passes of the loop are enough for an event of one pass to
  meet one of the next, and a third to pass the bound. Requests follow one
  another without end; the session's state is the only thing they hand on, so
  every pair of definitions meets over every state.
- *service*: two workers and one session, whose client waits or does not: an
  overlap needs two requests, and sessions do not touch one another. The clock
  goes from 2 to 4, and the runtime file gives a lifetime of 1 or of -1: begin,
  expiry, an expiry behind it, and a new lifetime, longer or shorter than the
  last, or over at once. The definitions are two editions and one the validator
  refuses; the later edition has lost the first state of the other and advances
  by itself. Workers differ in nothing but their names, so
  `MCService.cfg` declares them symmetric; its properties name no worker.
- *file store*: two processes and three callers: one that writes or counts, one
  that removes, one in a process of its own that reads; one session, with and
  without a lifetime; the clock goes to 1, the moment of expiry. Calls,
  crashes and power losses are not bounded in number. What one session cannot
  show, a scan over several files in any order, is covered by the proof of
  `ImplementsStore`, which is for any number of sessions.
- *socket server*: two servers, which is what a start needs to meet another, each
  started any number of times from an empty path or a stale file; two requests,
  so that one may be queued while another runs, each sent again any number of
  times. With starts one at a time in the passing run, at once in the violated.
- *assistant*: two processes, two seconds (the same directory or not), two
  editions of one machine and a machine of another name. Conversations are not
  bounded: only the last message counts for what comes next.
- *conditions*: expressions of up to five tokens hold three clauses with two
  operators, the least in which precedence shows (`a || b && c`), and every
  place a part can be blank or malformed in. Two keys with two values each, and
  inputs that lack either or are no object.

Deadlock is checked in every run but `conditions`, where an evaluation ends, and
`assistant`, where every process may.

### Fairness

- *engine*: `WF(Step)`. A request runs on a goroutine of its own and plugins are
  taken to return; a plugin that never returns holds its request for ever, and
  nothing in the code limits it.
- *service* and *conditions*: none, and no liveness is claimed. A request is a
  straight line of calls that return, and an evaluation two loops over finite
  lists; what could keep a request from its end is in the engine and in the
  stores, and checked there.
- *socket server*: `WF` for each server's own steps at start and for its return
  from a shutdown, which a five-second timer ends at the latest (unix.go 71), and
  for each client's timeout (241). Nothing is assumed of the service: an action
  may hang, and `Ends` holds all the same.
- *assistant*: none. The code limits neither turns nor the time an answer takes
  (`max_turns` and `timeout_seconds` are read and never used), so there is no
  liveness to claim.
- *file store*: weak fairness for each caller's own steps, which includes that a
  waiter for a lock file that stays finds its context ended (`GiveUp`): the contexts
  of the socket server end with the client's connection, whose client gives up
  after 30 seconds (unix.go 241). A caller that passes a context without end can
  wait for ever behind a lock file left by a crash, and with it its process.
  A call that waits for the mutex has no such way out: it gets the mutex because
  every call before it gives up in the end, and that is what `Returns` shows.
  Strong fairness for `Announce`: Go's mutex hands itself to a writer that has
  waited long. No fairness makes a free lock file go to a particular waiter.

## 4. What is proved

`EngineProofs` proves, for every set of validated definitions, every set of
bounds and every default bound, with no assumption but the named ones of
`StateMachine` and `Engine` (`NamesAssumption`, `MachinesAssumption`,
`BoundsAssumption`):

| theorem | states |
|---|---|
| `TypeCorrect` | `TypeOK` |
| `EventsTrace` | `EventsTraceSession` |
| `FailureLands` | `FailureLandsInErrorState` |
| `AnswersRest` | `AnswersAtRest` |
| `MovesAreBounded` | `MovesBounded` |
| `AnswersAllowed` | `AnswerAllowed` |
| `ImplementsWalk` | `Walks`, the refinement of `MachineWalk` |

None of these is inductive by itself, because each speaks of the end of a
request. `IInv` strengthens them together: `StateInv` (between two plugin calls
the session is where `fromState`, `selected` and `success` say), `ErrInv` (what
`err` says of the state and of going on), `StartInv` (a request that has not begun
a step is where it started, and one that starts in an exit state stays),
`ReachInv` (the session is among the states the contract lets a call begin or
end a step in), `EventInv` (the events lead to the place the session is in, or
to the place it is about to leave) and `BoundInv` (events counted against the
passes of the loop). Each has a lemma that every action keeps it, from the ones
before; the theorems follow from `IInv` by temporal steps.

`EngineReports` proves three more from `IInv`:

| theorem | states |
|---|---|
| `FailuresAreObserved` | `FailuresObserved` |
| `OutputsInOrder` | `OutputInOrder` |
| `RequestsComeToAnEnd` | each step of a request takes it on, and no pass is begun beyond the bound |

`FailInv`: a failure has been shown, or the step that shows it comes next (the
error is known before `Enter` notifies of the move), and whatever was shown as a
failure went to the error state of this definition. `OutInv`: between two plugin
calls the output of the request and that of the step in hand are together what
the actions produced; an error drops the output of its step, and what is left is
the beginning. `RequestsComeToAnEnd` is the safety half of `RequestsAnswered`: every
step that is not the last goes to a later place of its pass, to a later transition
of a state's list, or to the next of at most `Limit` passes, so that a request
cannot go round in the loop of `Steps` whatever its plugins answer.

`ServiceProofs` proves, for any requests, sessions, definitions, contents of the
runtime file and faults, from `NamesAssumption` and `ServiceAssumption`:

| theorem | states | for |
|---|---|---|
| `TypeCorrect` | `TypeOK` | every client |
| `LifetimesBounded` | `LifetimeBounded` | every client |
| `ConversationsContinue` | `Continues` | clients that wait for their answers (`patient`) |
| `LifetimesAdvance` | `ExpiryAdvances` | clients that wait |
| `ExitsAreFinal` | `ExitIsFinal` | clients that wait |

That they wait is needed: `service_overlap` shows an exit state left by a client
that does not. `LifetimesBounded` needs none of it: however many requests for a
session overlap and however the lifetime changes between them, each extends it
from the time it read, which is not to come, by the one lifetime it read
(`LifetimeInv`), so their extensions never add up. None of the theorems assumes
that a lifetime is positive or stays the same. `TypeOK` rests on `StepsOutcome`:
an engine that keeps the contract never leaves a session without a named state,
although a definition may have a state with the empty name, since nothing
validated leads to it. `SerialInv` is about pairs: each request in flight
against the store (`Current`: a session it did not find is still absent, one it
found is as it was read, or removed) and against its client (`Resumes`); and
each session against what its client was told (`OnFile`, suspended between the
two upserts of a request, where the client has not heard yet). One lemma says
that an action of a request concerns that request and its session only
(`Frame`), so each action needs to be looked at for its own request and session.

`FileStoreProofs` proves, for any processes, callers, session ids, sessions and
faults, from `FileStoreAssumption` and `NoCallAssumption`:

| theorem | states |
|---|---|
| `TypeCorrect` | `TypeOK` |
| `LocksExclude` | `LockExclusive` |
| `FilesIntact` | `Intact` |

`LockExclusive` and `Intact` need to know what a caller at each place is doing:
`CallsInv` says which kinds of call each place belongs to, and that a temporary
file about to be renamed is on disk (without it a rename could tear a file); and
`MuInv` says that whoever is counted as waiting behind a writer does wait there,
since `Release` sends all of them on at once. A lock file is removed only by the
one caller that is between its creation and its removal, so callers that crash
or give up cannot take another's away: that is the step `Unlock` of `LockStep`.

`FileStoreAtomic` proves `ImplementsStore`: `Spec => Atomic` from `OneWriter`,
which says that whoever removes or counts shares its process with whoever
writes. (Without it `file_store_two_processes` shows the refinement to fail.)
`StoreInv` adds three parts to the invariant above. `MutexInv`: the RWMutex
excludes, a writer at work is alone in its process, readers that waited behind
it included. `AnswerInv`: what a call knows of its answer at each place.
`ScanInv`: what a scan has seen stays so until it ends - the entries a removal
left behind had not expired when it was called, a count holds the sessions it
went by, and an upsert between its rename and its answer still finds its session.
`ScanInv` needs the mutex and `OneWriter`, since nothing else keeps a file from
changing under a scan. Then each action is matched with one of `SessionStore`
(`RenameStep` is where an upsert takes effect, `SyncDirStep` where it may be
reported, `ScanEndsStep` where a count or a removal is complete), and the rest
change nothing the promise sees (`HiddenStep`); a count is shown only at its end
(`Shown`), because what it has counted so far is no snapshot.

Without `OneWriter` the store still keeps what it has reported, and
`NothingOlderReturns` proves it for any processes that do anything: when an
upsert reports success, a power loss finds its session or, if a removal of
another process came in between, none (`ReportedIsDurable`), and what a power
loss may find later is only added to by later renames and removals
(`NothingComesBack`). `DurableInv` follows an upsert from its rename to its
answer; the lock file is why no other rename comes between. TLC has checked both
on two processes of which both write and one removes.

`SocketServerProofs` proves, for any servers and requests, from
`SocketServerAssumption`:

| theorem | states | for |
|---|---|---|
| `TypeCorrect` | `TypeOK` | every circumstance |
| `AnswersAreTrue` | `AnswersTrue` | every circumstance |
| `ServersReachable` | `Reachable` | starts one at a time (`OneAtATime`) |
| `AtMostOneServes` | `OneServer` | starts one at a time |
| `Refused` | `RefusedForAServer` | starts one at a time |

`Reachable` is not inductive: a start that has found nobody must still find
nobody when it removes the file and when it listens. `Undisturbed` says so, and
`AtMostOneStarts` is why; an old server that drains has already given up the path.
`AnswersTrue` follows from what a handler at each stage has done
(`HandlersTrue`) and from the fact that nobody is connected to a server that has
ended (`Attended`): a client cannot be told anything by a handler that is gone.

`AssistantProofs` proves, for any processes and definitions, from
`AssistantAssumption`, `TypeCorrect` (`TypeOK`), `RequestsEnd`
(`RequestsEndWithUser`) and `FilesAsTold` (`ToldIsOnFile`). The last needs that a
file being written is empty until the write ends, that nothing is said before
there is a directory, and that a process never gets rid of one it shares its
directory with (`Placed`, `Kept`).

`ConditionsProofs` proves, for texts of any length over any clauses and for any
input, from `ConditionsAssumption`:

| theorem | states |
|---|---|
| `TypeCorrect` | `TypeOK` |
| `ExpressionsMeanWhatTheySay` | `MeansWhatItSays` |
| `FirstTrueAlwaysWins` | `FirstTrueWins` |
| `EvaluationEnds` | there is always a part to go on with, and each step takes the evaluation on |

The two in the middle follow from `EvaluationIsRight`, the inductive invariant:
no alternative behind the one in hand is satisfied (`NoneBefore`), the operands of
`&&` behind the clause in hand hold (`HeldSoFar`), and each result says of the
expression what it should (`ResultIsRight`): true that it is satisfied, false
that it is not, an error that it is malformed and that no well-formed beginning
of it, up to the end of an alternative, is satisfied. The work is in three
lemmas: a clause that does not hold rules out every alternative up to the end of
its own (`NotThisOne`), nothing in hand is wrong before the end of a well-formed
beginning (`NothingWrongWithin`), and a part begins at the start of a text and
behind each operator (`PartFrom`, by the well-foundedness of the numbers). The
assumption that two clauses with no operator between them are one clause is
about the tokens: it is how the text is read.

Only model-checked: liveness (`RequestsAnswered`, `Returns`, `Ends`), which is
out of the prover's reach and stays with TLC, as do the violated statements. Of
`RequestsAnswered` the part that is safety is proved (`RequestsComeToAnEnd`):
what fairness has to add is that a step which can be taken is taken. That
evaluations end is not run at all but follows from `EvaluationEnds` for any
text. `Service` is not shown to refine `SessionStore`: one of its actions stands
for several steps of a store (the call, its effect, its answer).

## 5. What is not modelled

- Data: session data, input, output beyond its order, messages, names beyond
  what tells states apart. So sharing of slices between a store, the engine and
  an action is not seen.
- Plugins: they succeed, fail or ask to finish in any way, and return. A panic
  ends the request in the HTTP server and is a client's lost answer.
- Observers' failures: `notify` is taken to reach its observers.
- A server that listens but is too busy to take a connection within a second
  (unix.go 29) is not distinguished from one that takes it.
- Texts of the assistant, and with them whether a call of the tool is still one
  when older text is joined to it (assistant.go 154); the mapping of output to
  JSON (unix.go 182 to 221).
- Contents of the runtime file but the lifetime of sessions: the
  assistant's settings, and the directory of a file store, which the sample reads
  once at its start.
- A file that cannot be decoded ends `DeleteExpired` and `Stats` of the file store
  at every call (store.go 187): a failing call is modelled, a file that stays bad
  is not, and the promise of `SessionStore` allows the error.
- The simple evaluator is used by nothing. Logging, observers, the registries and
  the sample hold no behaviour of their own; of the wiring and the command line
  only what makes a server or a client is modelled.

## 6. Plan

1. *Done*: `StateMachine`, `Engine` with its contract, abstract walk and
   proofs; `Service`; `SessionStore` and `FileStore`.
2. *Done*: `Conditions`; `SocketServer` with its proofs; `Assistant`; the proof
   that `FileStore` implements `SessionStore`.
3. *Done*: proofs of all safety properties of `Engine`, `Service` and
   `Assistant`.
4. *Done*: proofs of the properties of `Conditions`; that requests and
   evaluations cannot go round; lifetimes of the service for every client;
   durability of the file store for any processes.
5. Left: a promise for removals and counts of a file store whose processes all
   write (a removal takes what was expired when it was read, and two removals may
   both count it); what `Service` promises when the requests of a session
   overlap, beyond types and lifetimes: a slower request sets an older expiry and
   an older state over a newer one, and what is kept all the same is not stated.
