---------------------------- MODULE AsyncClient ----------------------------
(***************************************************************************)
(* Client::AsyncClient and its unary calls.  A thread of the application   *)
(* makes a call (make_shared<AsyncUnaryCall>, addStreamingCall); the       *)
(* client's one queue thread finalises its CallFinishAction: it settles    *)
(* the promise, invokes the response callback and lets go of the call; the *)
(* client's destructor shuts the queue down and joins the thread.          *)
(*                                                                         *)
(* A Tag of ActionQueue is a call: each has one action, CallFinishAction.  *)
(***************************************************************************)
EXTENDS ActionQueue

CONSTANT HasCallback  \* the calls made with a response callback

CallStep == {"none", "constructing", "constructed", "registered", "dropped"}

ASSUME AsyncClientAssumption ==
  /\ HasCallback \subseteq Tag
  /\ ~Inline

VARIABLES
  step,            \* step[c]: where the thread that makes call c is
  rpc,             \* rpc[c]: the grpc::Status the rpc ended with
  promise,         \* promise[c]: what _responsePromise holds
  called,          \* the calls whose response callback has run
  streamingCalls,  \* _streamingCalls
  finalizing,      \* where finalizeFinished of the current call is
  terminated       \* std::terminate was called

callVars == <<step, rpc, promise, called, streamingCalls, finalizing>>
clientVars == <<queueVars, callVars, terminated>>

ClientInit ==
  /\ QueueInit
  /\ step = [c \in Tag |-> "none"]
  /\ rpc = [c \in Tag |-> "none"]
  /\ promise = [c \in Tag |-> "none"]
  /\ called = {} /\ streamingCalls = {}
  /\ finalizing = "begin"
  /\ terminated = FALSE

\* gRPC aborts the process that begins an operation on a queue that was shut down.
Running == ~terminated /\ ~misused

\* call() has returned.
Returned(c) == step[c] \in {"registered", "dropped"}

-----------------------------------------------------------------------------
(* A thread of the application: AsyncClient::call.                         *)

Goes(c, from, to) == Running /\ step[c] = from /\ step' = [step EXCEPT ![c] = to]

\* The constructor starts the rpc, and Finish with the CallFinishAction as tag.
Construct(c) ==
  /\ owner = "running"
  /\ Goes(c, "none", "constructing")
  /\ Begin({c})
  /\ UNCHANGED <<events, down, pollVars, owner, rpc, promise, called,
                 streamingCalls, finalizing, terminated>>

\* make_shared makes shared_from_this() of the constructed call work.
MakeShared(c) ==
  /\ Goes(c, "constructing", "constructed")
  /\ UNCHANGED <<queueVars, rpc, promise, called, streamingCalls, finalizing,
                 terminated>>

KeepNoCall(c) == UNCHANGED streamingCalls

KeepCall(c) == streamingCalls' = streamingCalls \cup {c}

\* addStreamingCall, under _streamingCallsMutex; call() returns.
AddStreamingCall(c) ==
  /\ Goes(c, "constructed", "registered")
  /\ KeepCall(c)
  /\ UNCHANGED <<queueVars, rpc, promise, called, finalizing, terminated>>

\* The application drops the call instance it was returned.
Drop(c) ==
  /\ Goes(c, "registered", "dropped")
  /\ UNCHANGED <<queueVars, rpc, promise, called, streamingCalls, finalizing,
                 terminated>>

-----------------------------------------------------------------------------
(* gRPC.                                                                   *)

\* The rpc ends, perhaps before call() is done.  Finish always completes with ok.
RpcEnds(c) ==
  /\ Running
  /\ Complete({c}, TRUE)
  /\ \E s \in {"OK", "error"} : rpc' = [rpc EXCEPT ![c] = s]
  /\ UNCHANGED <<step, promise, called, streamingCalls, finalizing, terminated>>

-----------------------------------------------------------------------------
(* The queue thread: asyncNext, and finalizeFinished of the current call.  *)

OnQueueThread(from, to) ==
  /\ Running /\ polling = "finalize"
  /\ finalizing = from /\ finalizing' = to

PromiseIfOk ==
  IF rpc[current] = "OK" THEN [promise EXCEPT ![current] = "value"] ELSE promise

ValueAlways == [promise EXCEPT ![current] = "value"]

\* set_value, or set_exception with an AsyncCallError of the status.
Settled ==
  [promise EXCEPT ![current] = IF rpc[current] = "OK" THEN "value" ELSE "error"]

Settle ==
  /\ OnQueueThread("begin", "settled")
  /\ promise' = Settled
  /\ UNCHANGED <<queueVars, step, rpc, called, streamingCalls, terminated>>

NotCalled == called

Called == IF current \in HasCallback THEN called \cup {current} ELSE called

\* The callback makes call c of the same client, perhaps under its destructor.  It
\* is on the queue thread, so nothing finalises c before call() returns.
CallInCallback(c) ==
  /\ OnQueueThread("settled", "settled") /\ current \in HasCallback
  /\ Goes(c, "none", "registered")
  /\ Begin({c})
  /\ KeepCall(c)
  /\ UNCHANGED <<events, down, pollVars, owner, rpc, promise, called, terminated>>

\* The callback returns.  It goes through asio::dispatch to the executor associated with an
\* execution_context, the default one (system_executor) for want of an own: that
\* one runs it here and now, whatever the context.
RunResponseCallback ==
  /\ OnQueueThread("settled", "called")
  /\ called' = Called
  /\ UNCHANGED <<queueVars, step, rpc, promise, streamingCalls, terminated>>

\* As if only the code after make_shared made the shared_ptr.
WeakThisLate == step[current] \notin {"constructing", "constructed"}

\* shared_from_this() works.
WeakThisSet == step[current] # "constructing"

\* _deadCallback(shared_from_this()): before make_shared is done this throws
\* bad_weak_ptr, which nothing on the queue thread catches.
DeadCallback ==
  /\ OnQueueThread("called", "dead") /\ WeakThisSet
  /\ UNCHANGED <<queueVars, step, rpc, promise, called, streamingCalls, terminated>>

BadWeakPtr ==
  /\ Running /\ polling = "finalize" /\ finalizing = "called" /\ ~WeakThisSet
  /\ terminated' = TRUE
  /\ UNCHANGED <<queueVars, callVars>>

RemoveNothing == UNCHANGED streamingCalls

RemoveCurrent == streamingCalls' = streamingCalls \ {current}

\* removeStreamingCall, under _streamingCallsMutex; the shared_ptr made for the
\* dead callback goes away.
RemoveStreamingCall ==
  /\ OnQueueThread("dead", "removed")
  /\ RemoveCurrent
  /\ UNCHANGED <<queueVars, step, rpc, promise, called, terminated>>

\* AsyncActionQueue::finalizeResult deletes the action; asyncNext goes on.
Finalized ==
  /\ OnQueueThread("removed", "begin")
  /\ FinalizeOne
  /\ UNCHANGED <<step, rpc, promise, called, streamingCalls, terminated>>

Polls ==
  /\ Running
  /\ GotEvent \/ SawShutdown \/ Store
  /\ UNCHANGED <<callVars, terminated>>

QueueThread ==
  \/ Polls \/ Settle \/ RunResponseCallback \/ DeadCallback \/ BadWeakPtr
  \/ RemoveStreamingCall \/ Finalized

-----------------------------------------------------------------------------
(* The client's constructor and destructor.                                *)

StartThread == Running /\ StartPolling /\ UNCHANGED <<callVars, terminated>>

\* No call() is under way when the application destroys the client.
ShutdownClient ==
  /\ Running
  /\ \A c \in Tag : step[c] \notin {"constructing", "constructed"}
  /\ Shutdown
  /\ UNCHANGED <<callVars, terminated>>

JoinThread == Running /\ Joined /\ UNCHANGED <<callVars, terminated>>

\* _asyncActionQueue = nullptr; then the members, _streamingCalls among them.
DestroyClient ==
  /\ Running /\ Destroyed
  /\ streamingCalls' = {}
  /\ UNCHANGED <<step, rpc, promise, called, finalizing, terminated>>

\* The process died, or the client is gone and nothing is left to do.
ClientStopped ==
  /\ ~Running \/ owner = "destroyed"
  /\ UNCHANGED clientVars

CallerNext(c) == Construct(c) \/ MakeShared(c) \/ AddStreamingCall(c) \/ Drop(c)

ClientNext ==
  \/ \E c \in Tag : CallerNext(c) \/ CallInCallback(c) \/ RpcEnds(c)
  \/ StartThread \/ QueueThread
  \/ ShutdownClient \/ JoinThread \/ DestroyClient
  \/ ClientStopped

ClientSpec == ClientInit /\ [][ClientNext]_clientVars

\* Threads run, a call() that began goes on, an rpc ends (by its deadline at the
\* latest), and a destructor that was entered goes on.
ClientFairSpec ==
  /\ ClientSpec
  /\ WF_clientVars(StartThread)
  /\ WF_clientVars(QueueThread)
  /\ WF_clientVars(JoinThread \/ DestroyClient)
  /\ \A c \in Tag :
       /\ WF_clientVars(MakeShared(c) \/ AddStreamingCall(c))
       /\ WF_clientVars(RpcEnds(c))

-----------------------------------------------------------------------------
(* Properties.                                                             *)

\* Every variable holds a value of its kind.
ClientTypeOK ==
  /\ QueueTypeOK
  /\ step \in [Tag -> CallStep]
  /\ rpc \in [Tag -> {"none", "OK", "error"}]
  /\ promise \in [Tag -> {"none", "value", "error"}]
  /\ called \subseteq HasCallback
  /\ streamingCalls \subseteq Tag
  /\ finalizing \in {"begin", "settled", "called", "dead", "removed"}
  /\ finalizing # "begin" => polling = "finalize"

\* The thread that makes the call, its user, the client, or the argument of the
\* dead callback keeps call c alive.
CallHeld(c) ==
  \/ step[c] \in {"constructing", "constructed", "registered"}
  \/ c \in streamingCalls
  \/ current = c /\ finalizing = "dead"

\* gRPC may write to the response and the status of call c, or finalizeFinished of
\* c may run.
InUse(c) ==
  \/ c \in pending
  \/ \E e \in events : e.tag = c
  \/ current = c /\ finalizing # "removed"

\* Whatever the application drops and when, a call exists as long as it is
\* in use: nobody touches a call that was freed.
CallAlive ==
  \A c \in Tag : InUse(c) => CallHeld(c)

\* A call that was made has its action, and only such a call has.
MadeIsBegun == \A c \in Tag : step[c] # "none" <=> Begun(c)

\* Once call() has returned, the client itself keeps a call that is in use.
RegisteredIsKept ==
  \A c \in Tag : Returned(c) /\ InUse(c) => c \in streamingCalls

\* The promise is settled and the callback invoked by finalizeFinished only, in
\* this order, and before the action is deleted.
SettledInOrder ==
  /\ finalizing # "begin" => promise[current] # "none"
  /\ finalizing \in {"called", "dead", "removed"} /\ current \in HasCallback =>
       current \in called
  /\ \A c \in finalized : promise[c] # "none" /\ (c \in HasCallback => c \in called)
  /\ \A c \in Tag : promise[c] # "none" =>
       c \in finalized \/ (c = current /\ finalizing # "begin")
  /\ \A c \in called :
       c \in finalized \/ (c = current /\ finalizing \in {"called", "dead", "removed"})

\* No call() of an application thread is under way once the destructor began.
NoneUnderWay ==
  owner # "running" => \A c \in Tag : step[c] \notin {"constructing", "constructed"}

\* What begins on the shut-down queue is the call of a response callback, and even
\* then the call it answers got its answer and no call is lost from the client.
LateCallInCallback ==
  misused =>
    /\ owner = "joining"
    /\ current \in HasCallback \ called /\ promise[current] # "none"
    /\ \A c \in Tag : InUse(c) => c \in streamingCalls

\* The inductive invariant.
ClientIInv ==
  /\ QueueIInv /\ ClientTypeOK /\ MadeIsBegun /\ RegisteredIsKept /\ SettledInOrder
  /\ NoneUnderWay /\ LateCallInCallback

\* ~AsyncClient waits for every call made: when it returns no future of the client
\* is still to be settled and no callback is still to come.
DestroyedAnswered ==
  owner = "destroyed" =>
    \A c \in Tag : step[c] # "none" =>
      /\ promise[c] # "none"
      /\ c \in HasCallback => c \in called

\* The calls that the queue thread has let go: their action is deleted, or about
\* to be.
ForgottenCalls ==
  finalized \cup IF finalizing = "removed" THEN {current} ELSE {}

\* AsyncClient answers, notifies and forgets each call once, and in that order.
Abstract ==
  INSTANCE UnaryCalls WITH
    Call <- Tag, issued <- {c \in Tag : step[c] # "none"}, answer <- promise,
    notified <- called, forgotten <- ForgottenCalls

ImplementsUnaryCalls == Abstract!Spec

\* call() returns the call instance (AsyncClient.h:61) once it has begun.
CallReturnsInstance ==
  \A c \in Tag : step[c] = "constructing" ~> Returned(c)

\* The future of every call made becomes ready, and its callback runs; unless the
\* process dies (of BadWeakPtr or a call that came too late).
EveryCallAnswered ==
  \A c \in Tag : step[c] # "none" ~>
    \/ promise[c] # "none" /\ (c \in HasCallback => c \in called)
    \/ ~Running

\* A destructor that was entered returns, unless a callback makes a call under it.
ClientDestructorReturns == owner = "joining" ~> owner = "destroyed" \/ misused

\* The client does not keep a call that ended after addStreamingCall.  (It keeps
\* one that ended before for as long as it lives.)
AnsweredIsForgotten ==
  \A c \in Tag :
    Returned(c) /\ c \in pending ~> [](c \notin streamingCalls) \/ ~Running

=============================================================================
