-------------------------- MODULE ClientStreamCall --------------------------
(***************************************************************************)
(* Client::AsyncClientStreamCall on the queue of its AsyncClient: the rpc   *)
(* is started with a CallAction, the future of its stream writer becomes   *)
(* ready when that comes back, the application writes and finishes, and    *)
(* the writer's last Finish delivers the response.  The client may be      *)
(* destroyed at any time.                                                  *)
(*                                                                         *)
(* Here write() and finish() are a push and a try, finalizeResult releases *)
(* the writer and then goes on in one step, and one thread uses a writer:  *)
(* what more threads and finer steps bring is StreamWriter's subject.  The *)
(* build is one without assert().                                          *)
(***************************************************************************)
EXTENDS ActionQueue, Sequences

CONSTANT Call

\* The operations of one call: its CallAction; a write, a write of the last
\* message and a finish by the application; and the finish with which the writer
\* answers a failed write.
AppOp == {"write", "last", "finish"}
Op == AppOp \cup {"call", "finish after write", "finish after last"}
WriteOp == {"write", "last"}
FinishOp == Op \ (WriteOp \cup {"call"})

ASSUME ClientStreamCallAssumption == Tag = Op \X Call /\ ~Inline

VARIABLES
  step,            \* step[c]: where the thread that makes call c is
  writerFuture,    \* writerFuture[c]: what the future of the stream writer holds
  trying,          \* the calls whose user is between newAction and tryPerformAction
  asked,           \* asked[c]: what the user of c has asked for
  actions,         \* actions[c]: _actions of the writer of c
  state,           \* state[c]: its _state
  released,        \* finalizeResult of the current stream action made it Ready
  rpc,             \* rpc[c]: the status rpc c ended with
  response,        \* the calls whose response promise has its value
  streamingCalls,  \* _streamingCalls
  dead             \* the process died

writerVars == <<trying, asked, actions, state, released>>
streamVars == <<queueVars, step, writerFuture, writerVars, rpc, response,
                streamingCalls, dead>>

StreamInit ==
  /\ QueueInit
  /\ step = [c \in Call |-> "none"]
  /\ writerFuture = [c \in Call |-> "none"]
  /\ trying = {} /\ asked = [c \in Call |-> {}]
  /\ actions = [c \in Call |-> <<>>]
  /\ state = [c \in Call |-> "Ready"] /\ released = FALSE
  /\ rpc = [c \in Call |-> "none"]
  /\ response = {} /\ streamingCalls = {}
  /\ dead = FALSE

\* gRPC aborts the process that begins an operation on a queue that was shut down.
Running == ~dead /\ ~misused

\* The action of operation o of call c (its CallAction, where o is the call).
StreamAction(o, c) == <<o, c>>

-----------------------------------------------------------------------------
(* The application: AsyncClient::call, then write() and finish().          *)

Goes(c, from, to) == Running /\ step[c] = from /\ step' = [step EXCEPT ![c] = to]

\* The constructor: the CallAction starts the rpc ...
Construct(c) ==
  /\ owner = "running"
  /\ Goes(c, "none", "constructing")
  /\ Begin({StreamAction("call", c)})
  /\ UNCHANGED <<events, down, pollVars, owner, writerFuture, writerVars, rpc,
                 response, streamingCalls, dead>>

\* ... and then _streamWriter gets its value.
NewStreamWriter(c) ==
  /\ Goes(c, "constructing", "constructed")
  /\ UNCHANGED <<queueVars, writerFuture, writerVars, rpc, response,
                 streamingCalls, dead>>

KeepNoCall(c) == UNCHANGED streamingCalls

KeepCall(c) == streamingCalls' = streamingCalls \cup {c}

\* addStreamingCall.  Nothing removes a client-streaming call again.
AddStreamingCall(c) ==
  /\ Goes(c, "constructed", "registered")
  /\ KeepCall(c)
  /\ UNCHANGED <<queueVars, writerFuture, writerVars, rpc, response, dead>>

\* write() or finish(): newAction.
Ask(c, o) ==
  /\ Running /\ owner = "running" /\ step[c] = "registered"
  /\ writerFuture[c] = "writer"
  /\ c \notin trying /\ o \in AppOp \ asked[c]
  /\ asked' = [asked EXCEPT ![c] = @ \cup {o}]
  /\ actions' = [actions EXCEPT ![c] = Append(@, o)]
  /\ trying' = trying \cup {c}
  /\ UNCHANGED <<queueVars, step, writerFuture, state, released, rpc, response,
                 streamingCalls, dead>>

\* gRPC aborts the process that begins a write while one is under way, or finishes a
\* call twice.  (Or writes a last message twice, which nobody does here.)
StreamMisuse(c, ops) ==
  \/ \E o \in ops \cap WriteOp, p \in WriteOp :
       StreamAction(p, c) \in pending \/ (p \in ops /\ p # o)
  \/ \E o \in ops \cap FinishOp, p \in FinishOp :
       Begun(StreamAction(p, c)) \/ (p \in ops /\ p # o)

\* perform() of the operations in ops.
Perform(c, ops) ==
  /\ Begin({StreamAction(o, c) : o \in ops})
  /\ state' = [state EXCEPT ![c] = IF ops = {} THEN @ ELSE "Processing"]
  /\ dead' = StreamMisuse(c, ops)

PerformsAlways(q, s) == IF q # <<>> THEN {Head(q)} ELSE {}

LeavesAll(q) == q

\* What tryPerformAction performs of queue q in state s: its head, which it pops
\* whether it performs it or not.
TryPerforms(q, s) == IF q # <<>> /\ s = "Ready" THEN {Head(q)} ELSE {}
TryLeaves(q) == IF q = <<>> THEN q ELSE Tail(q)

\* write() or finish(): tryPerformAction.
Try(c) ==
  /\ Running /\ c \in trying
  /\ trying' = trying \ {c}
  /\ Perform(c, TryPerforms(actions[c], state[c]))
  /\ actions' = [actions EXCEPT ![c] = TryLeaves(@)]
  /\ UNCHANGED <<events, down, pollVars, owner, step, writerFuture, asked, released,
                 rpc, response, streamingCalls>>

\* The future of the writer gave an indeterminate pointer, and the user follows it.
UseWildWriter(c) ==
  /\ Running /\ owner = "running" /\ step[c] = "registered"
  /\ writerFuture[c] = "wild"
  /\ dead' = TRUE
  /\ UNCHANGED <<queueVars, step, writerFuture, writerVars, rpc, response,
                 streamingCalls>>

-----------------------------------------------------------------------------
(* gRPC.                                                                   *)

\* The server has seen the last message, and answers with a status of its own.
ServerAnswers(c) ==
  /\ Running /\ rpc[c] = "none" /\ Begun(StreamAction("last", c))
  /\ \E s \in {"OK", "error"} : rpc' = [rpc EXCEPT ![c] = s]
  /\ UNCHANGED <<queueVars, step, writerFuture, writerVars, response,
                 streamingCalls, dead>>

\* The rpc ends without the last message: the server answers early, the connection
\* breaks, or the deadline, if the application set one, expires.
EndsEarly(c) ==
  /\ Running /\ rpc[c] = "none"
  /\ Begun(StreamAction("call", c)) /\ ~Begun(StreamAction("last", c))
  /\ \E s \in {"OK", "error"} : rpc' = [rpc EXCEPT ![c] = s]
  /\ UNCHANGED <<queueVars, step, writerFuture, writerVars, response,
                 streamingCalls, dead>>

\* A write fails when its rpc has ended, and if it came after the last message.  (Two
\* are never under way: the last message was begun before a write that still is.)
WriteFails(c, o) ==
  rpc[c] # "none" \/ (o = "write" /\ Begun(StreamAction("last", c)))

\* The start of the rpc (its ok is not looked at) or a write comes back, or a Finish,
\* when the rpc has ended.
Returns(c, o) ==
  /\ Running
  /\ o \in FinishOp => rpc[c] # "none"
  /\ Complete({StreamAction(o, c)}, ~(o \in WriteOp /\ WriteFails(c, o)))
  /\ UNCHANGED <<step, writerFuture, writerVars, rpc, response, streamingCalls,
                 dead>>

-----------------------------------------------------------------------------
(* The queue thread: asyncNext, and finalizeResult of the current action.  *)

Current(c, ops) ==
  Running /\ polling = "finalize" /\ \E o \in ops : current = StreamAction(o, c)

\* StreamAction::finalizeResult: the writer is ready for another thread at once.
Release(c) ==
  /\ Current(c, Op \ {"call"}) /\ ~released
  /\ state' = [state EXCEPT ![c] = "Ready"]
  /\ released' = TRUE
  /\ UNCHANGED <<queueVars, step, writerFuture, trying, asked, actions, rpc, response,
                 streamingCalls, dead>>

\* The rest of finalizeResult.
Finalizing(c, ops) ==
  /\ Current(c, ops) /\ (released \/ ops = {"call"})
  /\ released' = FALSE
  /\ FinalizeResult
  /\ UNCHANGED <<events, down, owner, step, trying, asked, rpc, streamingCalls>>

\* What the read of _streamWriter gives.
StreamWriterOf(c) == IF step[c] = "constructing" THEN "wild" ELSE "writer"

\* CallAction: markStreamWriterReady.
FinalizeReady(c) ==
  /\ Finalizing(c, {"call"})
  /\ writerFuture' = [writerFuture EXCEPT ![c] = StreamWriterOf(c)]
  /\ UNCHANGED <<pending, misused, actions, state, response, dead>>

\* What the loop of finalizeWrite performs of queue q after operation o came back.
LoopPerforms(q, o) ==
  {q[i] : i \in {k \in 1 .. Len(q) :
     /\ q[k] \in WriteOp => o # "last"
     /\ \A j \in 1 .. k - 1 : q[j] \notin FinishOp}}

\* WriteAction, ok: the loop empties the queue.
FinalizeWriteOk(c) ==
  /\ Finalizing(c, WriteOp) /\ currentOk
  /\ Perform(c, LoopPerforms(actions[c], current[1]))
  /\ actions' = [actions EXCEPT ![c] = <<>>]
  /\ UNCHANGED <<writerFuture, response>>

FinishAfter(o) == IF o = "write" THEN "finish after write" ELSE "finish after last"

\* newAction in finish() called by finalizeWrite.
WithFinish(q, o) == Append(q, FinishAfter(o))

\* WriteAction, not ok: finish() pushes a finish and tries the queue.
FinalizeWriteFailed(c) ==
  /\ Finalizing(c, WriteOp) /\ ~currentOk
  /\ LET q == WithFinish(actions[c], current[1])
     IN  /\ Perform(c, TryPerforms(q, state[c]))
         /\ actions' = [actions EXCEPT ![c] = TryLeaves(q)]
  /\ UNCHANGED <<writerFuture, response>>

ResponseIfOk(c) == IF rpc[c] = "OK" THEN response \cup {c} ELSE response

\* onStreamWriterFinish: set_value, whatever the status is.
Responded(c) == response \cup {c}

\* FinishAction: finalizeFinish.
FinalizeFinish(c) ==
  /\ Finalizing(c, FinishOp)
  /\ response' = Responded(c)
  /\ UNCHANGED <<pending, misused, writerFuture, actions, state, dead>>

Polls ==
  /\ Running
  /\ GotEvent \/ SawShutdown \/ Store
  /\ UNCHANGED <<step, writerFuture, writerVars, rpc, response, streamingCalls, dead>>

FinalizeNext(c) ==
  \/ Release(c) \/ FinalizeReady(c) \/ FinalizeWriteOk(c) \/ FinalizeWriteFailed(c)
  \/ FinalizeFinish(c)

QueueThread == Polls \/ \E c \in Call : FinalizeNext(c)

-----------------------------------------------------------------------------
(* The client's constructor and destructor.                                *)

ClientOnly ==
  UNCHANGED <<step, writerFuture, writerVars, rpc, response, dead>>

StartThread == Running /\ StartPolling /\ ClientOnly /\ UNCHANGED streamingCalls

\* No thread is inside call(), write() or finish() when the application destroys the
\* client; operations may be outstanding.
ShutdownClient ==
  /\ Running /\ trying = {}
  /\ \A c \in Call : step[c] \notin {"constructing", "constructed"}
  /\ Shutdown
  /\ ClientOnly /\ UNCHANGED streamingCalls

JoinThread == Running /\ Joined /\ ClientOnly /\ UNCHANGED streamingCalls

\* The queue goes, then the members, _streamingCalls among them.
DestroyClient == Running /\ Destroyed /\ ClientOnly /\ streamingCalls' = {}

StreamStopped == (~Running \/ owner = "destroyed") /\ UNCHANGED streamVars

CallerNext(c) ==
  \/ Construct(c) \/ NewStreamWriter(c) \/ AddStreamingCall(c)
  \/ Try(c) \/ UseWildWriter(c)
  \/ \E o \in AppOp : Ask(c, o)

GrpcNext(c) == ServerAnswers(c) \/ EndsEarly(c) \/ \E o \in Op : Returns(c, o)

StreamNext ==
  \/ \E c \in Call : CallerNext(c) \/ GrpcNext(c)
  \/ StartThread \/ QueueThread
  \/ ShutdownClient \/ JoinThread \/ DestroyClient
  \/ StreamStopped

StreamSpec == StreamInit /\ [][StreamNext]_streamVars

\* Threads run, what was entered goes on, gRPC returns operations, and a server that
\* has seen the last message answers.  An rpc without it need never end.
StreamFairSpec ==
  /\ StreamSpec
  /\ WF_streamVars(StartThread)
  /\ WF_streamVars(QueueThread)
  /\ WF_streamVars(JoinThread \/ DestroyClient)
  /\ \A c \in Call :
       /\ WF_streamVars(NewStreamWriter(c) \/ AddStreamingCall(c) \/ Try(c))
       /\ WF_streamVars(ServerAnswers(c))
       /\ \A o \in Op : WF_streamVars(Returns(c, o))

-----------------------------------------------------------------------------
(* Properties.                                                             *)

\* Every variable holds a value of its kind.
StreamTypeOK ==
  /\ QueueTypeOK
  /\ step \in [Call -> {"none", "constructing", "constructed", "registered"}]
  /\ writerFuture \in [Call -> {"none", "wild", "writer"}]
  /\ trying \subseteq Call
  /\ asked \in [Call -> SUBSET AppOp]
  /\ actions \in [Call -> Seq(Op \ {"call"})]
  /\ state \in [Call -> {"Ready", "Processing"}] /\ released \in BOOLEAN
  /\ rpc \in [Call -> {"none", "OK", "error"}]
  /\ response \subseteq Call /\ streamingCalls \subseteq Call
  /\ dead \in BOOLEAN

\* An operation of call c was begun and is not finalised.
Outstanding(o, c) ==
  LET a == StreamAction(o, c)
  IN  a \in pending \/ a = current \/ \E e \in events : e.tag = a

\* A call, its writer and its response buffer exist as long as one of its operations
\* is outstanding, whatever the user does with the shared_ptr.
StreamCallAlive ==
  \A c \in Call : (\E o \in Op : Outstanding(o, c)) =>
    step[c] \in {"constructing", "constructed"} \/ c \in streamingCalls

\* All that begins on a queue that was shut down is the writer's own finish, after a
\* write that failed because its rpc had ended or it came after the last message:
\* whatever the application asked for is off the queue by then.
BegunTooLate ==
  misused =>
    /\ owner = "joining"
    /\ \E c \in Call, o \in WriteOp :
         StreamAction(FinishAfter(o), c) \in pending /\ WriteFails(c, o)
    /\ \A c \in Call : actions[c] = <<>>

\* A response is delivered only when a Finish came back, and when the client is
\* destroyed every Finish that was started has delivered its response.
FinishDelivers ==
  /\ \A c \in response : \E o \in FinishOp : StreamAction(o, c) \in finalized
  /\ owner = "destroyed" =>
       \A c \in Call : (\E o \in FinishOp : Begun(StreamAction(o, c))) => c \in response

\* Everybody who pushes an operation pops one: what is queued is the operation of
\* the user inside write() or finish(), or the writer's finish in its place.
QueueIsShort ==
  \A c \in Call :
    actions[c] = <<>> \/ (c \in trying /\ \E o \in Op \ {"call"} : actions[c] = <<o>>)

\* Operation o of call c was performed, or is queued.
Made(o, c) == Begun(StreamAction(o, c)) \/ actions[c] = <<o>>

\* No operation is made twice: the user's where he asks for it, the writer's finish
\* where the write that failed is finalised.
OpsInOrder ==
  \A c \in Call :
    /\ Begun(StreamAction("call", c)) => step[c] # "none"
    /\ \A o \in AppOp : Made(o, c) => o \in asked[c]
    /\ \A o \in WriteOp : Made(FinishAfter(o), c) => StreamAction(o, c) \in finalized
    /\ \A o \in Op : actions[c] = <<o>> => ~Begun(StreamAction(o, c))
    /\ asked[c] # {} => step[c] = "registered"

\* A registered call is kept until the client is destroyed, and nobody is inside
\* call(), write() or finish() once its queue is shut down.
KeptAndLeft ==
  /\ \A c \in Call : step[c] = "registered" /\ owner # "destroyed" => c \in streamingCalls
  /\ owner # "running" => trying = {} /\ \A c \in Call : step[c] \in {"none", "registered"}

\* No write comes back failed but those that must.
FailedWithReason ==
  \A c \in Call, o \in WriteOp :
    /\ \A e \in events : e.tag = StreamAction(o, c) /\ ~e.ok => WriteFails(c, o)
    /\ current = StreamAction(o, c) /\ ~currentOk => WriteFails(c, o)

\* A response is delivered with each Finish that came back, and only then.
Delivered ==
  /\ \A c \in response : \E o \in FinishOp : StreamAction(o, c) \in finalized
  /\ \A c \in Call, o \in FinishOp : StreamAction(o, c) \in finalized => c \in response

\* The inductive invariant.
StreamIInv ==
  /\ QueueIInv /\ StreamTypeOK /\ QueueIsShort /\ OpsInOrder /\ KeptAndLeft
  /\ FailedWithReason /\ Delivered /\ BegunTooLate

\* "Throws when a call finished with error" (AsyncCallError.h:10): the future of the
\* response has no value if the status of the rpc is not OK.
ErrorThrows == \A c \in response : rpc[c] = "OK"

\* Whoever wrote the last message and started a finish gets the response, unless the
\* process dies.
ResponseArrives ==
  \A c \in Call :
    (\E o \in FinishOp : Outstanding(o, c)) /\ Begun(StreamAction("last", c)) ~>
      c \in response \/ ~Running

\* The client's destructor returns, unless the process dies, or the server still
\* waits for the last message of a call that was finished without one.
DestructorReturnsOrWaits ==
  owner = "joining" ~>
    \/ owner = "destroyed" \/ ~Running
    \/ \E c \in Call : /\ \E o \in FinishOp : Outstanding(o, c)
                       /\ rpc[c] = "none" /\ ~Begun(StreamAction("last", c))

=============================================================================
