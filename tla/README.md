# Easy-gRPC in TLA+

Easy-gRPC is a header-only C++ library over gRPC's completion-queue API. An
application makes rpcs through `Client::AsyncClient` and serves them through
`Server::AsyncServer`; threads inside the library poll completion queues and run the
continuation of each operation. Most of the code's difficulty is in what
those threads and the application's threads do to each other. This directory models
that, checks it with TLC, and proves the main results with TLAPS.

Paths below are relative to `src/EasyGRPC/include/ShuHai/gRPC/`.

## 1. The system

| Component | Code | State | Operations |
|---|---|---|---|
| Action queue | `AsyncActionQueue.h`, `IAsyncAction.h`, `CustomAsyncAction.h` | the gRPC queue, `_nextStatus` | `asyncNext`, `finalizeResult`, `shutdown`, the destructor's `waitForShutdown` |
| Client | `Client/AsyncClient.h` | `_asyncActionQueue` and its thread, `_streamingCalls` and its mutex | `call`, `addStreamingCall`, `onCallDead`, construction, destruction |
| Unary call | `Client/AsyncUnaryCall.h`, `AsyncCall.h`, `AsyncCallError.h` | promise, response, status, weak self pointer | constructor (starts the rpc and `Finish`), `finalizeFinished` |
| Client stream call | `Client/AsyncClientStreamCall.h` | two promises, `_streamWriter` | constructor, `markStreamWriterReady`, `onStreamWriterFinish` |
| Client stream writer | `Client/AsyncClientStreamWriter.h`, `AsyncAction.h` | `_actions` with `_actionsMutex`, `_state` with `_stateMutex` | `write`, `finish`, `tryPerformAction`, `finalizeWrite`, `finalizeFinish` |
| Server | `Server/AsyncServer.h` | `_server`, `_started`, the queues and their threads | `registerCallHandler`, `start`, `stop`, destruction |
| Server's queue | `Server/AsyncActionQueue.h` | `_callHandlers` | `newCallHandler`, `shutdown`, `deleteAllCallHandlers` |
| Unary call handler | `Server/AsyncUnaryCallHandler.h` | one `Call` per rpc or outstanding request | `newCallRequest`, `finalizeCallRequest`, `finalizeCallHandling`, `finalizeCallFinish` |
| Client-stream handler | `Server/AsyncClientStreamCallHandler.h` | `_streamReaders` | asks for rpcs, `onNewStreamReaderReady`; stops there, the source is unfinished |
| Client-stream reader | `Server/AsyncClientStreamReader.h` | the stream, `_current` | `moveNext`, `onFinalizeRead`; nothing hands a reader to a caller yet |
| Type traits | `TypeTraits.h`, `Client/TypeTraits.h`, `Server/TypeTraits.h`, `RpcType.h`, and the look-ups in `AsyncClient.h` and `AsyncServer.h` | none: compile time | which generated functions `call` and `registerCallHandler` take, with which types, on which stub or service |
| Examples | `src/examples/` | one process with a server and a client | `HelloWorld`, `SimpleCall`, `Streaming` |
| Code generation | `src/cmake/` | none | build scripts |

How they interact:

- **Threads.** A client owns one queue thread. A server owns a thread per queue. Any
  number of application threads call into both. `asio::dispatch` to the associated
  executor of an `asio::execution_context&` goes to the default `system_executor`,
  which runs the function there and then; so response callbacks and handler functions
  run *on the queue thread*, whatever context the application passes.
- **Callbacks.** `asyncNext` calls `finalizeResult` of the tag; that calls into the
  call, handler or writer, which may start the next operation on the same queue.
- **Ownership.** Actions are raw heap objects that delete themselves after
  `finalizeResult`. A client call is shared by the application, `_streamingCalls` and
  the argument of `onCallDead`. A server `Call` is handed from one action to the next
  and deleted by the last.
- **Shared state.** Only the stream writer and `_streamingCalls` have mutexes.
  `AsyncClientStreamWriter.h:161` reads `_state` without its mutex.

What is hard, and what makes each part correct:

| Part | Hard behaviour | Correct when |
|---|---|---|
| Action queue | events in any order; a destructor that spins on a status only `asyncNext` stores; `_nextStatus` uninitialised | each action is finalised once; the destructor returns, and only when nothing is outstanding |
| Client, unary calls | an rpc may end before its call's constructor has returned; users drop calls early; destruction with rpcs under way | no call is freed in use; each is answered, its callback run, and let go, once and in that order |
| Stream writer | callers race with each other and with the queue thread that drains the queue; two nested mutexes; a failed write starts a `finish` of its own | push order kept; nothing stranded or lost; one operation at a time; futures tell the truth; the response arrives |
| Client stream call | its constructor races with the queue thread; the client may be destroyed while operations are out; only the server can end the rpc | the call outlives its operations; a `Finish` always delivers the response; the destructor waits for nothing but an rpc that is still open |
| Server | `stop()` races with rpcs under way and with clients that cancel; the handlers are deleted before the queue is drained | every accepted rpc is handled and answered once; no `Call` leaked or freed twice; `stop()` returns |
| Type traits | the client's templates list request and response in another order than the server's; a function is known by its type alone | both sides deduce the same rpc from a method; the object found is that of the method |
| Examples | two processes' worth of threads, a connection that may fail at either end first, destructors that wait for each other's threads | a handler runs at most once for each rpc, a value means it ran; `main` returns and leaves nothing behind |

`PROJECT.json` lists the single hazards, each at its line, with the properties that
are about it.

## 2. Modules

| Module | Models | |
|---|---|---|
| `StreamWriter` | the client stream writer | |
| `LossyFifo` | what the writer promises at the least | abstract |
| `ActionQueue` | completion queue, `asyncNext`, shutdown and destruction | extended by the client, stream-call and server modules |
| `AsyncClient` | client and unary calls over `ActionQueue` | composition |
| `UnaryCalls` | what the client promises | abstract |
| `ClientStreamCall` | a client-streaming call, its writer and its client over `ActionQueue` | composition |
| `UnaryServer` | server, unary and client-stream handlers over `ActionQueue` | composition |
| `UnaryService` | what the server promises | abstract |
| `MC*` | model values for TLC | |
| `RpcTypes` | the type traits, the overloads and the look-ups, as operators on types | pure |
| `ExamplePrograms` | `HelloWorld` and `SimpleCall`: `AsyncClient` and an instance of `UnaryServer` with the connection between them | composition |
| `AtMostOnce` | what client and server promise together | abstract |
| `StreamWriterProofs`, `ActionQueueProofs`, `AsyncClientProofs`, `UnaryServerProofs`, `ClientStreamCallProofs`, `RpcTypesProofs`, `ExampleProgramsProofs` | theorems | |

`map` in `PROJECT.json` gives the lines of the source each definition stands for.

**StreamWriter.** A streaming action is a number, in push order; `actions` is
`_actions`, `hand` the action popped and not yet performed, `started` and `inflight`
what the gRPC stream was given and still has. `write()` and `finish()` are `Call`
followed by `TryEmpty`, `TryReady` + `Perform`, or `TryRefuse`, one for each path through
`tryPerformAction`. `finalizeResult` is `SetResult` (the future becomes ready) and
`Release` (`_state` becomes Ready): two steps, since a caller that waited for the future
can look at `_state` in between. `finalizeWrite` is `AutoFinish`, or `DrainStart`, a
`DrainRefuse` or `DrainPerform` per turn of its loop, and `DrainDone`. The unlocked
read of `_state`, formally a data race, is a read of either value that is current at that
moment: a store to a one-word enum is seen whole on every platform gRPC builds for.
`Asserts` chooses a debug build, where `assert(_state == Ready)` stops the process.
The stream aborts the process on a second outstanding write, a second last message (half-close) or a second `Finish`, as
gRPC does. A write given to it after the last message comes back with `ok` false, though the rpc be alive (`OkOf`, `InTime`); a `Finish`
comes back for sure only when the last message was given or a write has failed (`FinishReturns`).

**ActionQueue.** `pending` are operations begun, `events` those completed, `polling`
is the program counter of the thread in `asyncNext`, `owner` that of whoever destroys the
queue. `Inline` chooses between a looping thread (client, server) and an owner that
calls `asyncNext` itself with a deadline (`AsyncActionQueueTest.cpp`). The
uninitialised `_nextStatus` starts with any value of its type. Such an owner may enter the destructor without
`shutdown()`, and without ever having called `asyncNext`: then the destructor spins, or an accidental SHUTDOWN lets it go.

**AsyncClient.** A tag is a call. `Construct`, `MakeShared`, `AddStreamingCall`, `Drop` are
the caller's thread; `Settle`, `RunResponseCallback`, `DeadCallback` (or `BadWeakPtr`),
`RemoveStreamingCall`, `Finalized` are `finalizeFinished` on the queue thread.
`BadWeakPtr` is `shared_from_this()` on a call that `make_shared` has not finished: it throws on
a thread that catches nothing. `CallInCallback` is a response callback that makes a call of its own.
It is one step, since the queue thread cannot finalise the new call before the callback has returned; and it may
come after the destructor has shut the queue down, which the library does not prevent.

**ClientStreamCall.** A tag is an operation of a call: `"call"` (the `CallAction`), the
application's `"write"`, `"last"` (a write with `is_last_message`) and `"finish"`, each at most once, and the
finish that the writer itself makes after a failed write. `Construct` starts the
`CallAction`, `NewStreamWriter` assigns `_streamWriter`; if the queue thread comes
between them `StreamWriterOf` is an indeterminate pointer, and
`UseWildWriter` is the application following it. `WriteFails` says when a write comes back with `ok` false: the rpc is over,
or the write came after the last message, which the code lets pass. `Ask` and `Try` are the two halves of
`write()` and `finish()`; `Release` and `FinalizeWriteOk`, `FinalizeWriteFailed` or
`FinalizeFinish` those of `finalizeResult`. Each of these holds `_actionsMutex` or `_stateMutex`
from end to end in the code, except `FinalizeWriteFailed`, whose push and try are merged: with
one user thread every interleaving of the two performs and drops the same operations. Several user
threads, and the futures of single operations, are `StreamWriter`'s subject.

**UnaryServer.** A tag is a pair of kind (request, handling, finish) and `Call`, so it is
visible that the three share one `Call`. `responses` counts the runs of `handleFunc` for a `Call`, so that a second one
shows. gRPC is assumed to hand each rpc to one request only (`Match`, `RpcArrives`). `stop()` is `ShutdownServer`, `ServerDown`,
`DeleteAllCallHandlers`, `ShutdownQueue`, `JoinThread`, `DestroyQueue`, in the order of the
code. For a handler in `StreamHandler` a `Call` is the `StreamReader`: it gets as far as the code does,
`OnNewStreamReaderReady`, and stays. `DestroyUnstarted` is `~AsyncServer` without `start()`: `stop()` returns at
once, and the destructor of a queue waits for a SHUTDOWN that nobody asked for, or reads one in the uninitialised
`_nextStatus`. `UseDeletedHandler` is the undefined behaviour of a queue thread that
reads a deleted handler: it may work (the other actions stay enabled) or kill the process.

**RpcTypes.** A type is a tuple, the name of a template and its arguments; a pointer to a member function is a record
of class, result and parameters, these in the order of their declaration. `Async`, `PrepareAsync` and `RequestRpcOf` are what protoc generates for a
method, taken from how the templates match them. A class template is the set of its specialisations that
match a function (`AsyncCallTraits`, `AsyncRequestTraits`), so that "no specialisation" and "ambiguous" are
the sets that are not singletons.

**ExamplePrograms.** The client's state is that of `AsyncClient`, which the module extends, the
server's that of an instance `S` of `UnaryServer` (taken through `UnaryServerProofs`, for the lemmas about it), its variables prefixed with `s` where the two share a name. A record `program` says
what the `main` in question registers, calls and drops, and in which order its services are listed.
`MainNext` is `main`; `RpcArrives`, `ClientEnds` and `ServerGivesUp` are the connection, which ties the
rpc of a client's call to a `Call` of the server's, and may fail the rpc before the server saw it, under its handler or after the
answer, with the two ends learning it in either order. The steps of both libraries are those of their
own modules.

**Mutants.** Next to some definitions stands a second one with a plausible slip in it
(`PopNewest`, `KeepNextStatus`, `ShutsQueuesAtOnce`, ...). No specification uses them; `mutants`
in `PROJECT.json` says which property fails when one replaces the definition after it.

## 3. What TLC checks

| Run | Result | Bounds | States |
|---|---|---|---|
| `writer_release` | pass | 2 threads, 4 operations, release build, call may die | 62 349 |
| `writer_one_caller` | pass | 2 threads that wait for all futures, 5 operations, debug build | 23 468 |
| `writer_overlap` | `OneAtATime` violated | 1 thread, 3 operations | |
| `writer_lost` | `NothingLost` violated | 1 thread, 2 operations | |
| `queue_inline` | pass | 3 actions | 1 859 |
| `queue_test` | `DestructorReturns` violated | 1 action | |
| `client_calls` | pass | 2 calls, one with a callback that may make the other | 8 914 |
| `client_bad_weak_ptr` | `CallReturnsInstance` violated | 2 calls | |
| `server_rpcs` | pass | a unary and a client-stream handler, 4 `Call`s | 157 284 |
| `stream_call` | pass | 1 call with a write, a last write and a finish | 5 083 |
| `stream_status` | `ErrorThrows` violated | 1 call | |
| `example_programs` | pass | both programs, one call of each kind, one failed rpc, 9 methods | 355 075 |

What the passing runs show:

- **Writer.** In any build, with any callers: operations reach the stream in push order,
  each at most once (`PushOrder`, `ImplementsLossyFifo`); a queued operation always has a
  thread about to look at the queue (`NoStrandedAction`; the writer has no thread of its own to
  come back for it); a future holds a result exactly when the stream returned the operation, and an
  exception only if the stream never saw it (`FutureTellsFate`); a refused operation came behind a finish or, a write, behind the
  last message (`RefusedWithReason`; the converse fails, see the hazards); the nested mutexes
  never block (`CallReturns`); every operation asked for settles its future in the end, unless it is lost
  (`NothingLost` below), or is a finish that waits for a server that was not sent the last message (`CallSettles`); and a finish
  that must come back delivers the response (`FinishAnswered`). For callers
  that wait for every future (`writer_one_caller`, a debug build) `_state` tells whether the stream is
  busy, and the process aborts only if somebody finishes twice, which includes the finish the
  writer starts by itself after a failed write, or writes a last message twice (`OnlySecondEndAborts`): the code stops neither.
- **Queue.** An action has one holder at a time and SHUTDOWN is final (`QueueIInv`); the destructor returns
  only when nothing is outstanding and nobody polls (`DestroyedWhenDrained`), except that of an owner who never called `asyncNext`:
  what it reads in `_nextStatus` is indeterminate.
- **Client.** `CallAlive`, `DestroyedAnswered`, `ImplementsUnaryCalls`; every call is answered
  unless the process dies of `BadWeakPtr`; the destructor returns unless a callback under it makes a call, and
  that is the only operation that can come too late (`LateCallInCallback`); a call that ended after
  `addStreamingCall` is forgotten. One that ended *before* it is kept until the client is
  destroyed, since `onCallDead` finds nothing to erase.
- **Client stream call.** The call, its writer and its buffers exist as long as an operation of
  theirs is out, whatever the application drops (`StreamCallAlive`; it is `_streamingCalls` that keeps
  them, until the client is destroyed). Destroying the client begins nothing on the queue it
  has shut down unless a write failed, because the rpc had ended or it came after the last message (`BegunTooLate`): then the writer's
  own `finish()` comes too late and gRPC aborts the process. A `Finish`
  always delivers the response (`FinishDelivers`, `ResponseArrives`). The
  destructor returns, unless the process dies or an rpc was finished without its last message
  and its server waits for that (`DestructorReturnsOrWaits`): `finish()` does not half-close
  the stream, and `examples/Streaming/src/Main.cpp` is such a client.
- **Server.** Each `Call` has exactly one outstanding action until it is deleted
  (`CallHasOneAction`; the readers of client-streaming rpcs are the exception, they leak); a listening handler has exactly one request out
  (`KeepsListening`); `handleFunc` never runs twice for a `Call`, and an rpc is answered once, after that, or cancelled by its client
  (`ImplementsUnaryService`); it ends (`EveryRpcOver`), and `stop()` returns unless a client keeps
  a client-streaming rpc open, which the server never ends (`StopReturns`). Both are about a server that was started. `HandlerAlive` and `NothingBegunAfterShutdown` (a conjunct of `ServerIInv`) except cancelled rpcs:
  `Server::Shutdown` waits for rpcs to be over and not for the queue thread to have
  seen them, so when a client gives up an rpc whose request event is still
  queued, `stop()` deletes the handler and shuts the queue down under it. No document of
  the repository speaks of that case, so it is a hazard here and not a finding.
- **Types** (`TypesFit`, part of `example_programs`). Client and server deduce the same request, response and kind
  from the two functions of a method of any kind; what one end of a stream writes the other reads; a method can be called
  exactly if it can be handled; and whatever the order of stubs and services, each method finds its own. The
  one `PrepareAsync` function that `call()` takes is the unary one, whose rpc nobody would start.
- **Examples.** A handler function never runs twice for an rpc (which gRPC hands to the server once), and a future holds a value only if it ran
  (`ImplementsAtMostOnce`); when `main` has returned every response was delivered, every callback has run and
  neither end has a call left (`NothingLeft`); `main` does return (`MainReturns`). The process dies in two
  ways only (`DiesOfLostRpc`): an rpc that fails or ends before `make_shared` does, and
  an rpc the server was told to give up that is still in its queue when `~AsyncServer` runs. `ProgramsIInv` is the inductive
  invariant behind these.

What the violated ones show (`findings` in `PROJECT.json`, with the lines they contradict):

1. A caller can perform between the moment the writer is released (line 98) and the loop of `finalizeWrite` (line 187), which
   then performs the next write all the same: the stream has two.
2. `tryPerformAction` loses the action it popped when the stream is busy.
3. The response of a client-streaming rpc that failed is delivered as a value.
4. The flow of the repository's own test ends in a destructor that spins for ever.
5. A unary call that ends during `make_shared` terminates the process.

Two more are visible in the code without a run, and are listed as hazards: nothing ever sets
`State::Finished`, so a finished stream accepts writes; a stopped server still says
`started()`, so it cannot start again, and its destructor goes through a null pointer
(`StopAgain`). And one more: `call()` takes an `execution_context&` for response callbacks (`Client/AsyncClient.h:58`),
of which `Client/AsyncUnaryCall.h:97` takes the associated executor: the default one, on the queue thread.

**Bounds.** `MaxCalls` is the number of operations asked of a writer (its own
`finish` operations come on top of the bound for futures, `2 * MaxCalls`); four are one in flight, two queued and one
being pushed by the other thread, which is what the loop, the refusal and the race of
two callers need. Two client calls are enough for one to be under construction while the other is
finalised, and for a callback to make another call. Three actions show every order of
completion around an action being finalised. The number of `Call`s bounds the rpcs of the
server: each rpc accepted uses one and leaves one request out, so four give three rpcs at once. One
handler of each type is enough: handlers share nothing but the loop that deletes them. Calls of
one client share the queue thread alone, so one client-streaming call shows what can
happen to it; each operation once gives a failed write behind which others are queued, an automatic finish
next to the application's, and a shutdown at any of these moments. Each program makes two rpcs, one after the other; three
`Call`s of the server are those two and the request left over. `MaxFailed` is 1: which of the two rpcs
fails, and where, is free, and the other shows that the programs go on. The handlers of `SimpleCall` that get no calls
are left out, and `_nextStatus` of both queues starts as TIMEOUT, since `queue_inline` and `server_rpcs` have it start with anything.
Nine methods are all of the examples' `.proto` files, and a bidirectional stream. `ThreadSymmetry` (`MCStreamWriter`) and `TagSymmetry` are used
in safety runs only.

**Fairness.** `WF` on the steps of threads that exist (they are scheduled); on
the completion of operations given to gRPC (gRPC returns every tag; a unary rpc ends by its deadline or a
broken connection at the latest; a client-streaming rpc ends for sure only when the server has the last
message, since the library sets no deadline and the server's own side may wait: so a write comes back always, in `StreamWriter` and
`ClientStreamCall` alike, and a `Finish` only when the last message was given or the rpc is over); on the steps of a `call()`, `stop()` or destructor that has been
entered. On the server the completions share one `WF`, and in `ExamplePrograms` all steps that must
go on do: this is weaker than one for each thread, and enough, because no thread and no rpc there
goes on for ever, so none can starve another. A server is assumed to be started. Nothing obliges an application
to call (but for the programs, whose `main` is known), a client to send, or an owner to destroy. Callbacks and handler
functions are assumed to return.

Deadlock is checked in every run: an idle system stutters by an explicit action (`Quiescent`, `QueueStopped`, ...), so
a thread stuck at a mutex is reported.

## 4. What is proved

For every number of threads, operations, actions and calls, from the `ASSUME`s of the modules
only (constants of the right kind; the process names are distinct; threads are a finite set). Type correctness is
a conjunct of each inductive invariant, and the runs check these invariants as they stand (of `IInv` the part
about callers that wait is TRUE in `writer_release`, whose callers do not; `writer_one_caller` checks the two properties it
is there for). Every safety property that a passing run checks, and each of the four refinements, is also a theorem.

**Writer** (`StreamWriterProofs`). `Spec => []IInv`, and from it `TypeOK`, `PushOrder`,
`NoStrandedAction`, `FutureTellsFate`, `RefusedWithReason`, and that `StreamWriter` implements `LossyFifo`; in a debug
build, or in any build if the callers wait for every future before their next call, `OneAtATime` and
`StateTracksStream`; and for such callers `OnlySecondEndAborts`. The invariant `IInv` adds to what it proves:

- `MutexInv`: who holds `_actionsMutex` by where each thread is. Without it nothing rules out two
  operations in hand.
- `OrderInv`: numbers increase along started, hand, queue. `PushOrder` alone says nothing of
  what is performed next.
- `QueueCovered`: the queue is no longer than the set of threads between push and
  `tryPerformAction`. "Some thread" is not inductive: one that leaves with the first
  of two operations must leave another behind. It needs the cardinality lemmas.
- `FateInv`: `FutureTellsFate` with `inflight` part of `started`.
- `LoopInv`: what the loop of `finalizeWrite` remembers (a finish was performed, a last message was
  finalised) was given to the stream before. Without it a refusal has no reason the state shows.
- `OneInFlight`, if `Asserts \/ Sequential`: `_state` tracks the stream, which holds one operation at most, and none while
  `finalizeResult` releases the last one.
- `WaitingInv`, if `Sequential`. At most one operation is awaited, and the writer finishes by itself only when a write
  failed, after which every later one does; so a loop that found its write delivered has nothing of the writer's to perform, and what it performs
  meets an idle stream. `OnlySecondEndAborts` alone is not inductive: it does not
  say why a write never meets a write.

**Queue** (`ActionQueueProofs`). `QueueSpec => []QueueIInv`, and from it `QueueTypeOK`,
`OneHolder`, `DestroyedWhenDrained`. `OwnerInv` ties the owner's place to `down` and
`polling`; `StatusInv` says that SHUTDOWN, once seen, is final and that a stopped poller stored
what it last saw, which is what makes reading `_nextStatus` after the join enough (an owner who never polled has stored nothing:
the exception in `DestroyedWhenDrained`).

**Client** (`AsyncClientProofs`). A step of the client is a step of the queue or leaves it
alone (`ClientQueueStep`), which carries `QueueIInv` over. `MadeIsBegun` (a call has its
action from construction on), `RegisteredIsKept` (once `call()` returned, `_streamingCalls` holds a
call in use), `SettledInOrder` (promise, then callback, then deletion) and `NoneUnderWay` (nobody is inside
`call()` once the queue is shut down) complete the invariant. From it: `ClientTypeOK`, `CallAlive`, `DestroyedAnswered`,
`LateCallInCallback`, and that `AsyncClient` implements `UnaryCalls`.

**Server** (`UnaryServerProofs`). `ServerSpec => []ServerIInv`, for any set of handlers and `Call`s. Again a step of
the server is a step of its queue or leaves it alone. The invariant speaks of one `Call` at a time (`CallInv`), and its
proof is a case analysis of what a step does to that one:

- `ActionsInOrder`, `HandledInOrder`: request, handling and finish action follow each other, and `handleFunc` and the answer come
  between the right two. `CallHasOneAction` is not inductive without the order.
- `OkIfMatched`, `CallsAreUsed`: an event says `ok` only for an rpc, and a deleted `Call` has spent its actions. This is
  what tells a failed request, whose `Call` goes, from one that goes on to the alarm.
- `DownInOrder`: how far `stop()` has come, against the queue and the handlers; `HandlerAlive` and
  `NothingBegunAfterShutdown` come from it and from what `Server::Shutdown` waits for.
- `ListensOnce`: a handler that listens has one request out, or the queue thread is about to make it.

From it: `HandlerAlive`, `NothingBegunAfterShutdown`, `KeepsListening`, `CallHasOneAction`, and that `UnaryServer`
implements `UnaryService`.

**Client stream call** (`ClientStreamCallProofs`). `StreamSpec => []StreamIInv`, for any set of calls. A step
begins the operations of a set of at most one, after finalising an action or not, or is a step of the queue.

- `QueueIsShort`: with one user thread `_actions` holds one operation at the most, since whoever pushes one pops one. It makes
  the loop of `finalizeWrite` a step that performs one operation.
- `OpsInOrder`: an operation is performed once, an application's after it was asked for, the writer's finish while the write
  before it is being finalised. It is what keeps a tag from beginning twice, which the queue's invariant needs.
- `KeptAndLeft`: a registered call is kept, and nobody is inside `write()` when the queue is shut down.
- `FailedWithReason`: a write that comes back with `ok` false means that the rpc is over, or that the last message was begun before it. `BegunTooLate` needs it for the one
  operation that does come too late.
- `Delivered`: responses and deleted finishes are the same calls.

From it: `StreamCallAlive`, `BegunTooLate`, `FinishDelivers`.

**Types** (`RpcTypesProofs`). For every finite set of methods: each of the two functions generated for a method matches one
specialisation, with one pair of messages (eight lemmas, a kind and a side each), and a `PrepareAsync` function that is not unary
matches none. `BothSidesAgree` and `CallableIffHandled` follow by cases of the kind; `LookupFinds` from the fact that a list
of all services without repetition is onto, since its length is their number.

**Example programs** (`ExampleProgramsProofs`). `Spec => []ProgramsIInv`, for any number of calls, rpcs of the server and failures of
the connection, and any set of methods. A step of a program is a step of the client, of the server, or (an rpc that arrives) of the server and
the connection, so the invariants of the two are carried over by their own lemmas (`ClientIInvStep`, and
`ServerIInvStep` of the instance `S`); `ProgramsAreOfComponents` says the same of whole behaviours. What joins them:

- `RpcLink`: each `Call` of the server's that took an rpc took that of one call. Without it the answer of one call could be
  taken for another's.
- `AnswerComesBack`: an rpc is OK only if the server answered it, and a promise holds a value only if its rpc is OK. With
  `HandledInOrder` of the server (answered means handled) this gives the refinement of `AtMostOnce`.
- `MainInOrder`: `main` leaves the client when it has dropped all calls, and the server when the client is destroyed. With it
  nothing begins too late on either queue, and nobody is left to come when the server goes down.
- `DiesOfLostRpc` is inductive with these.

From it: `DiesOfLostRpc`, `NothingLeft`, and that client and server together implement `AtMostOnce`. That no
handler runs twice for an rpc comes from `HandledOnce`, which is the step of `UnaryServer` to `UnaryService` again.

Only model-checked: all liveness (`CallReturns`, `CallSettles`, `FinishAnswered`, `EveryCallAnswered`,
`AnsweredIsForgotten`, the destructors' returns, `EveryRpcOver`, `StopReturns`, `ResponseArrives`, `MainReturns`), which with `ENABLED` is outside what the
proof system supports, and the violations.

## 5. Not modelled

- **Server client-stream reader**: `moveNext` is public, but the handler that owns the readers never
  calls the handler function they would be given to, though `src/README.md:15` announces
  "Arbitrary RPC types support". Its hazards are listed.
- **Errors of the server's constructor** (no address, a `BuildAndStart` that fails): they throw before there is a server.
- **Several server queues**: they share `grpc::Server` alone; `stop()` treats them in loops, one after the other. **Registration
  while `stop()` runs**, **callbacks that throw or wait** (hazards).
- **Contents** of messages and statuses (a status is OK or error), the memory of refused
  writer actions (they leak).
- **`examples/Streaming`**: its server never answers, since the handler it needs is unfinished; what its client does is in
  `ClientStreamCall` (`DestructorReturnsOrWaits`).
- **`ShuHai/FunctionTraits.h`, `ShuHai/TypeTraits.h`**: nothing in the library uses them. **CMake**: no behaviour in time. Two
  things noticed in passing: `src/README.md:62` and `:65` name the CMake options `GENERATOR_TARGET` and `OUTPUT_DIR`, which
  `cmake/gRPC.cmake` calls `CODEGEN_TARGET` and `OUTPUT_DIRECTORY`; and `src/README.md:180` calls with
  `PrepareAsyncSayHello`, which `call()` takes (`CallableIffHandled`) but whose rpc needs a `StartCall` that the client never makes.

## 6. Plan

Order of the work, the most important behaviour first; the first twelve steps are done.

1. `StreamWriter`, `LossyFifo`, proofs.
2. `ActionQueue`, proofs.
3. `AsyncClient`, `UnaryCalls`, proofs.
4. `UnaryServer`, `UnaryService`.
5. `ClientStreamCall`, and the client-stream handler in `UnaryServer`.
6. Callbacks that make further calls, during destruction too; destruction of a server without `start()`.
7. `RpcTypes`; `ExamplePrograms` and `AtMostOnce`, the composition of client and server over a connection that fails.
8. `UnaryServerProofs`.
9. `ClientStreamCallProofs`.
10. Proofs of the writer for callers that wait and for debug builds (`OneAtATime`, `StateTracksStream`, `OnlySecondEndAborts`).
11. `ExampleProgramsProofs`: the invariant that joins client and server, and the refinement of `AtMostOnce`.
12. `RpcTypesProofs`.
13. An abstract specification of a client-streaming call, and `ClientStreamCall` proved to implement it.
14. Several queues, and registration during `stop()`.
15. `StreamReader`: reads that race with the end of the stream, once a reader can be had.

Each later proof is to start from an inductive invariant checked by TLC.
