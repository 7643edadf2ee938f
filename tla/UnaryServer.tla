---------------------------- MODULE UnaryServer ----------------------------
(***************************************************************************)
(* Server::AsyncServer with one AsyncActionQueue and the handlers          *)
(* registered with it.  A handler keeps a request for the next rpc         *)
(* outstanding.  Each rpc that an AsyncUnaryCallHandler is given goes      *)
(* through three actions on the queue (request, handling, finish) that     *)
(* share one Call.  An AsyncClientStreamCallHandler, whose code stops      *)
(* there, only keeps the StreamReader of the rpc: it is a Call below.      *)
(* stop() shuts the grpc::Server down, deletes the handlers, shuts the     *)
(* completion queue down, and joins the queue thread.                      *)
(***************************************************************************)
EXTENDS ActionQueue

CONSTANTS
  Handler,        \* the handlers the application registers
  NoHandler,
  StreamHandler,  \* those that are AsyncClientStreamCallHandlers
  Call            \* the Calls that are ever made (a bound on the rpcs)

ASSUME UnaryServerAssumption ==
  /\ NoHandler \notin Handler /\ StreamHandler \subseteq Handler
  /\ Tag = {"request", "handling", "finish"} \X Call
  /\ ~Inline

VARIABLES
  handler,       \* handler[h]: is handler h made, in _callHandlers, deleted
  handlerOf,     \* the handler a Call was made for
  calls,         \* the Calls that exist
  rpc,           \* rpc[c]: what became of the rpc that was matched to Call c
  responses,     \* responses[c]: how often handleFunc has run for Call c
  finalizing,    \* where finalizeResult of the current action is
  server,        \* the grpc::Server
  started,       \* _started
  crashed        \* a deleted handler, or the null _server, was used

handlerVars == <<handler, handlerOf, calls, responses>>
serverVars == <<queueVars, handlerVars, rpc, finalizing, server, started, crashed>>

ServerInit ==
  /\ QueueInit
  /\ handler = [h \in Handler |-> "none"]
  /\ handlerOf = [c \in Call |-> NoHandler]
  /\ calls = {} /\ responses = [c \in Call |-> 0]
  /\ rpc = [c \in Call |-> "none"]
  /\ finalizing = "begin"
  /\ server = "listening"
  /\ started = FALSE
  /\ crashed = FALSE

\* gRPC aborts the process that begins an operation on a queue that was shut down.
Running == ~crashed /\ ~misused

\* The actions of Call c.  (For a StreamReader the first is a RequestStreamAction.)
ServiceRequestAction(c) == <<"request", c>>
CallHandlingAction(c) == <<"handling", c>>
CallFinishAction(c) == <<"finish", c>>

Requests == {c \in Call : ServiceRequestAction(c) \in pending}

Fresh == {c \in Call : handlerOf[c] = NoHandler}

\* Bound: a request is made, and an rpc comes in, only if a Call is left for the
\* request that each rpc already matched is still to make.
CallLeft ==
  Cardinality(Fresh) > Cardinality({c \in Call :
    \/ [tag |-> ServiceRequestAction(c), ok |-> TRUE] \in events
    \/ current = ServiceRequestAction(c) /\ currentOk /\ finalizing = "begin"})

\* Call c is of a handler whose request function is one of a client-streaming rpc.
OfStream(c) == handlerOf[c] \in StreamHandler

\* A new Call of handler h, and an action that asks gRPC for the next rpc.
RequestRpc(h) ==
  LET c == CHOOSE c \in Fresh : TRUE
  IN  /\ Fresh # {}  \* bound: CallLeft has kept one
      /\ handlerOf' = [handlerOf EXCEPT ![c] = h]
      /\ calls' = calls \cup {c}
      /\ Begin({ServiceRequestAction(c)})

\* newCallRequest: new Call, new ServiceRequestAction.
NewCallRequest(h) == h \notin StreamHandler /\ RequestRpc(h)

\* new RequestStreamAction, which makes the StreamReader.
NewRequestStreamAction(h) == h \in StreamHandler /\ RequestRpc(h)

-----------------------------------------------------------------------------
(* The application: registerCallHandler, start.                            *)

\* The application calls registerCallHandler before it stops the server.
RegisterCallHandler(h) ==
  Running /\ owner = "running" /\ server = "listening" /\ handler[h] = "none"

\* newCallHandler: the constructor already asks for the first rpc.
NewCallHandler(h) ==
  /\ RegisterCallHandler(h) /\ CallLeft
  /\ handler' = [handler EXCEPT ![h] = "made"]
  /\ NewCallRequest(h) \/ NewRequestStreamAction(h)
  /\ UNCHANGED <<events, down, pollVars, owner, responses, rpc, finalizing,
                 server, started, crashed>>

\* ... and only then is the handler inserted.
EmplaceCallHandler(h) ==
  /\ Running /\ handler[h] = "made"
  /\ handler' = [handler EXCEPT ![h] = "registered"]
  /\ UNCHANGED <<queueVars, handlerOf, calls, responses, rpc, finalizing, server,
                 started, crashed>>

\* start(): the queue thread.
Start ==
  /\ Running /\ server = "listening" /\ ~started /\ StartPolling
  /\ started' = TRUE
  /\ UNCHANGED <<handlerVars, rpc, finalizing, server, crashed>>

-----------------------------------------------------------------------------
(* gRPC.                                                                   *)

\* An incoming rpc is matched to an outstanding request.
Match(c) ==
  /\ Running /\ server \in {"listening", "abandoned"} /\ CallLeft
  /\ Complete({ServiceRequestAction(c)}, TRUE)
  /\ rpc' = [rpc EXCEPT ![c] = "open"]
  /\ UNCHANGED <<handlerVars, finalizing, server, started, crashed>>

\* The server is shut down: requests fail.
FailRequest(c) ==
  /\ Running /\ server \notin {"listening", "abandoned"}
  /\ Complete({ServiceRequestAction(c)}, FALSE)
  /\ UNCHANGED <<handlerVars, rpc, finalizing, server, started, crashed>>

\* The alarm fires.
AlarmFires(c) ==
  /\ Running /\ Complete({CallHandlingAction(c)}, TRUE)
  /\ UNCHANGED <<handlerVars, rpc, finalizing, server, started, crashed>>

\* Finish completes: the answer went to the wire, unless the call is dead.
RpcFinishes(c) ==
  /\ Running /\ Complete({CallFinishAction(c)}, rpc[c] = "open")
  /\ rpc' = [rpc EXCEPT ![c] = IF rpc[c] = "open" THEN "answered" ELSE rpc[c]]
  /\ UNCHANGED <<handlerVars, finalizing, server, started, crashed>>

\* The client cancels, or its deadline expires, or it drops the channel.
RpcCancelled(c) ==
  /\ Running /\ rpc[c] = "open"
  /\ rpc' = [rpc EXCEPT ![c] = "cancelled"]
  /\ UNCHANGED <<queueVars, handlerVars, finalizing, server, started, crashed>>

-----------------------------------------------------------------------------
(* The queue thread: finalizeResult of the three actions of a Call.        *)

\* The queue thread is in finalizeResult of action a.
Finalizing(a, from, to) ==
  /\ Running /\ polling = "finalize" /\ current = a
  /\ finalizing = from /\ finalizing' = to

RequestNoMore(c) ==
  /\ Finalizing(ServiceRequestAction(c), "begin", "requested") /\ currentOk /\ ~OfStream(c)
  /\ UNCHANGED <<queueVars, handlerVars, rpc, server, started, crashed>>

\* finalizeCallRequest, the rpc has started: first the next request.
FinalizeCallRequest(c) ==
  /\ Finalizing(ServiceRequestAction(c), "begin", "requested") /\ currentOk
  /\ NewCallRequest(handlerOf[c])
  /\ UNCHANGED <<events, down, pollVars, owner, handler, responses, rpc, server,
                 started, crashed>>

\* onNewStreamReaderReady: the next request; the reader goes to _streamReaders, and
\* nothing takes it from there: handleFunc is not called, the rpc not finished.
OnNewStreamReaderReady(c) ==
  /\ Finalizing(ServiceRequestAction(c), "begin", "done") /\ currentOk
  /\ NewRequestStreamAction(handlerOf[c])
  /\ UNCHANGED <<events, down, pollVars, owner, handler, responses, rpc, server,
                 started, crashed>>

\* new CallHandlingAction: dispatch runs perform() here and now (see AsyncClient,
\* RunResponseCallback), which runs handleFunc ...
HandleFunc(c) ==
  /\ Finalizing(ServiceRequestAction(c), "requested", "handled")
  /\ responses' = [responses EXCEPT ![c] = @ + 1]
  /\ UNCHANGED <<queueVars, handler, handlerOf, calls, rpc, server, started, crashed>>

SetNoAlarm(c) ==
  /\ Finalizing(ServiceRequestAction(c), "handled", "done")
  /\ UNCHANGED <<queueVars, handlerVars, rpc, server, started, crashed>>

\* ... and sets the alarm.
SetAlarm(c) ==
  /\ Finalizing(ServiceRequestAction(c), "handled", "done")
  /\ Begin({CallHandlingAction(c)})
  /\ UNCHANGED <<events, down, pollVars, owner, handlerVars, rpc, server, started,
                 crashed>>

\* The actions above go through the handler (_this).  If stop() has deleted it the
\* behaviour is undefined: they find the members as they were, or the process dies.
UseDeletedHandler(c) ==
  /\ Running /\ polling = "finalize" /\ current = ServiceRequestAction(c)
  /\ currentOk /\ finalizing # "done"
  /\ handler[handlerOf[c]] = "deleted"
  /\ crashed' = TRUE
  /\ UNCHANGED <<queueVars, handlerVars, rpc, finalizing, server, started>>

\* delete call, at the end of an rpc or where none has started.
DeleteCall(c) == calls' = calls \ {c}

RequestFailedKeepsCall(c) ==
  /\ Finalizing(ServiceRequestAction(c), "begin", "done") /\ ~currentOk /\ ~OfStream(c)
  /\ UNCHANGED <<queueVars, handlerVars, rpc, server, started, crashed>>

\* finalizeCallRequest, no rpc has started.
RequestFailed(c) ==
  /\ Finalizing(ServiceRequestAction(c), "begin", "done") /\ ~currentOk /\ ~OfStream(c)
  /\ DeleteCall(c)
  /\ UNCHANGED <<queueVars, handler, handlerOf, responses, rpc, server, started,
                 crashed>>

\* RequestStreamAction::finalizeResult, no rpc has started: delete _streamReader.
RequestStreamFailed(c) ==
  /\ Finalizing(ServiceRequestAction(c), "begin", "done") /\ ~currentOk /\ OfStream(c)
  /\ DeleteCall(c)
  /\ UNCHANGED <<queueVars, handler, handlerOf, responses, rpc, server, started,
                 crashed>>

FinishNothing(c) ==
  /\ Finalizing(CallHandlingAction(c), "begin", "done")
  /\ DeleteCall(c)
  /\ UNCHANGED <<queueVars, handler, handlerOf, responses, rpc, server, started,
                 crashed>>

HandleAgain(c) ==
  /\ Finalizing(CallHandlingAction(c), "begin", "done")
  /\ Begin({CallFinishAction(c)})
  /\ responses' = [responses EXCEPT ![c] = @ + 1]
  /\ UNCHANGED <<events, down, pollVars, owner, handler, handlerOf, calls, rpc, server,
                 started, crashed>>

\* finalizeCallHandling: new CallFinishAction, with the response.  (An alarm that
\* nobody cancels completes with ok.)
FinalizeCallHandling(c) ==
  /\ Finalizing(CallHandlingAction(c), "begin", "done")
  /\ Begin({CallFinishAction(c)})
  /\ UNCHANGED <<events, down, pollVars, owner, handlerVars, rpc, server, started,
                 crashed>>

\* finalizeCallFinish: whatever ok says.
FinalizeCallFinish(c) ==
  /\ Finalizing(CallFinishAction(c), "begin", "done")
  /\ DeleteCall(c)
  /\ UNCHANGED <<queueVars, handler, handlerOf, responses, rpc, server, started,
                 crashed>>

\* AsyncActionQueue::finalizeResult deletes the action; asyncNext goes on.
Finalized ==
  /\ Running /\ finalizing = "done" /\ finalizing' = "begin"
  /\ FinalizeOne
  /\ UNCHANGED <<handlerVars, rpc, server, started, crashed>>

Polls ==
  /\ Running
  /\ GotEvent \/ SawShutdown \/ Store
  /\ UNCHANGED <<handlerVars, rpc, finalizing, server, started, crashed>>

FinalizeNext(c) ==
  \/ OnNewStreamReaderReady(c) \/ FinalizeCallRequest(c) \/ HandleFunc(c) \/ SetAlarm(c)
  \/ UseDeletedHandler(c) \/ RequestFailed(c) \/ RequestStreamFailed(c)
  \/ FinalizeCallHandling(c) \/ FinalizeCallFinish(c)

QueueThread == Polls \/ Finalized \/ \E c \in Call : FinalizeNext(c)

-----------------------------------------------------------------------------
(* stop(), from the destructor or before it.                               *)

\* _server->Shutdown() is called; no registerCallHandler is under way.
ShutdownServer ==
  /\ Running /\ owner = "running" /\ started /\ server = "listening"
  /\ \A h \in Handler : handler[h] # "made"
  /\ server' = "shutting"
  /\ UNCHANGED <<queueVars, handlerVars, rpc, finalizing, started, crashed>>

\* What it waits for: that the rpcs matched are over, and the requests failed.
RpcsOver == Requests = {} /\ \A c \in Call : rpc[c] # "open"

\* It returns.
ServerDown ==
  /\ Running /\ server = "shutting" /\ RpcsOver
  /\ server' = "down"
  /\ UNCHANGED <<queueVars, handlerVars, rpc, finalizing, started, crashed>>

ShutsQueuesAtOnce == {"shutting", "down"}

\* The queues are shut down after the server.
ShutsQueuesFrom == {"down"}

\* AsyncActionQueue::shutdown: deleteAllCallHandlers ...
DeleteAllCallHandlers ==
  /\ Running /\ owner = "running" /\ server \in ShutsQueuesFrom
  /\ \E h \in Handler : handler[h] = "registered"
  /\ handler' = [h \in Handler |->
                   IF handler[h] = "registered" THEN "deleted" ELSE handler[h]]
  /\ UNCHANGED <<queueVars, handlerOf, calls, responses, rpc, finalizing, server,
                 started, crashed>>

\* ... then the completion queue.
ShutdownQueue ==
  /\ Running /\ server \in ShutsQueuesFrom
  /\ \A h \in Handler : handler[h] # "registered"
  /\ Shutdown
  /\ UNCHANGED <<handlerVars, rpc, finalizing, server, started, crashed>>

JoinThread ==
  /\ Running /\ Joined
  /\ UNCHANGED <<handlerVars, rpc, finalizing, server, started, crashed>>

\* _server = nullptr; _asyncActionQueues.clear().  _started stays as it is.
DestroyQueue ==
  /\ Running /\ Destroyed
  /\ server' = "null"
  /\ UNCHANGED <<handlerVars, rpc, finalizing, started, crashed>>

\* ~AsyncServer after a stop() of the application's: stop() goes past
\* if (!started()) and calls Shutdown through the null _server.
StopAgain ==
  /\ Running /\ owner = "destroyed" /\ started
  /\ crashed' = TRUE
  /\ UNCHANGED <<queueVars, handlerVars, rpc, finalizing, server, started>>

\* ~AsyncServer of a server that was not started: stop() returns at once, and the
\* queue's destructor waits for a SHUTDOWN that nobody asks for, unless the
\* uninitialised _nextStatus says so: then it destroys a queue that gRPC still uses.
DestroyUnstarted ==
  /\ Running /\ owner = "running" /\ ~started /\ server = "listening"
  /\ \A h \in Handler : handler[h] # "made"
  /\ server' = "abandoned" /\ crashed' = (nextStatus = "SHUTDOWN")
  /\ UNCHANGED <<queueVars, handlerVars, rpc, finalizing, started>>

\* The server is gone, or the process; or its destructor spins (StopReturns tells
\* the two apart).
ServerStopped ==
  /\ owner = "destroyed" \/ server = "abandoned" \/ ~Running
  /\ UNCHANGED serverVars

StopNext ==
  ServerDown \/ DeleteAllCallHandlers \/ ShutdownQueue \/ JoinThread \/ DestroyQueue

GrpcNext(c) == Match(c) \/ FailRequest(c) \/ AlarmFires(c) \/ RpcFinishes(c)

ServerNext ==
  \/ \E h \in Handler : NewCallHandler(h) \/ EmplaceCallHandler(h)
  \/ \E c \in Call : GrpcNext(c) \/ RpcCancelled(c)
  \/ Start \/ QueueThread
  \/ ShutdownServer \/ StopNext \/ StopAgain \/ DestroyUnstarted \/ ServerStopped

ServerSpec == ServerInit /\ [][ServerNext]_serverVars

\* The application starts the server, the queue thread runs (and handleFunc
\* returns), gRPC completes what was begun, in any order (a Call has finitely many
\* actions, so it gets to each), and a stop() that was entered goes on.
\* No rpc need ever come in, and nobody need ever call stop().
ServerFairSpec ==
  /\ ServerSpec
  /\ WF_serverVars(Start)
  /\ WF_serverVars(QueueThread)
  /\ WF_serverVars(StopNext)
  /\ WF_serverVars(\E c \in Call : FailRequest(c) \/ AlarmFires(c) \/ RpcFinishes(c))

-----------------------------------------------------------------------------
(* Properties.                                                             *)

\* Every variable holds a value of its kind.
ServerTypeOK ==
  /\ QueueTypeOK
  /\ handler \in [Handler -> {"none", "made", "registered", "deleted"}]
  /\ handlerOf \in [Call -> Handler \cup {NoHandler}]
  /\ calls \subseteq {c \in Call : handlerOf[c] # NoHandler}
  /\ responses \in [Call -> Nat]
  /\ rpc \in [Call -> {"none", "open", "answered", "cancelled"}]
  /\ finalizing \in {"begin", "requested", "handled", "done"}
  /\ finalizing # "begin" => polling = "finalize"
  /\ server \in {"listening", "shutting", "down", "null", "abandoned"}
  /\ started \in BOOLEAN /\ crashed \in BOOLEAN

\* The actions whose completion is an event.
Completed == {e.tag : e \in events}

\* The actions that exist: begun, and not finalised to the end.
Outstanding == pending \cup Completed \cup {current}

\* Those whose finalizeResult has still something to do.
Live == pending \cup Completed \cup (IF finalizing = "done" THEN {} ELSE {current})

\* The queue thread has still to read a member of the handler of Call c: the rpc
\* has started, and its CallFinishAction has not.
NeedsHandler(c) ==
  \/ [tag |-> ServiceRequestAction(c), ok |-> TRUE] \in events
  \/ current = ServiceRequestAction(c) /\ currentOk /\ finalizing # "done"

\* stop() deletes no handler whose members the queue thread has still to read for
\* an rpc that is not cancelled: such an rpc is over before Server::Shutdown
\* returns.  (A cancelled one may be over before the queue thread has seen it.)
HandlerAlive ==
  \A c \in Call :
    NeedsHandler(c) /\ handler[handlerOf[c]] = "deleted" => rpc[c] = "cancelled"

\* No request, alarm or Finish begins once the completion queue is shut down, except
\* for an rpc that its client cancelled.
NothingBegunAfterShutdown == misused => rpc[current[2]] = "cancelled"

\* The reader of a client-streaming rpc that was accepted.
KeptReader(c) == OfStream(c) /\ rpc[c] # "none"

\* A Call exists as long as one action of it is outstanding, and is deleted with
\* the last one: none is deleted twice, or used after that, or left behind; but for
\* the stream readers, which are kept.
CallHasOneAction ==
  \A c \in Call :
    LET actions == {a \in Outstanding : a # NoTag /\ a[2] = c}
    IN  IF KeptReader(c) THEN c \in calls
        ELSE IF finalizing = "done" /\ current \in actions
        THEN c \in calls <=> actions # {current}
        ELSE Cardinality(actions) = IF c \in calls THEN 1 ELSE 0

\* The Calls whose request is outstanding for handler h.
Listening(h) ==
  {c \in Call :
     /\ handlerOf[c] = h
     /\ ServiceRequestAction(c) \in Outstanding
     /\ ~(current = ServiceRequestAction(c) /\ finalizing # "begin")}

\* While the server listens, every handler has one request for the next rpc
\* outstanding, or is about to make it: it neither stops listening nor asks twice.
KeepsListening ==
  server = "listening" =>
    \A h \in Handler : handler[h] # "none" => Cardinality(Listening(h)) = 1

\* A Call goes through its actions in order: the next is begun by the one before, at
\* its end.
ActionsInOrder ==
  \A c \in Call :
    /\ handlerOf[c] # NoHandler <=> Begun(ServiceRequestAction(c))
    /\ Begun(CallHandlingAction(c)) =>
         responses[c] = 1 /\ ServiceRequestAction(c) \notin Live
    /\ Begun(CallFinishAction(c)) =>
         Begun(CallHandlingAction(c)) /\ CallHandlingAction(c) \notin Live
    /\ rpc[c] = "answered" => Begun(CallFinishAction(c))

\* handleFunc runs once, in the middle of finalizeResult of the request.
HandledInOrder ==
  /\ \A c \in Call : responses[c] # 0 =>
       /\ responses[c] = 1 /\ ~OfStream(c) /\ rpc[c] # "none"
       /\ ServiceRequestAction(c) \in Live =>
            current = ServiceRequestAction(c) /\ finalizing = "handled"
  /\ finalizing \in {"requested", "handled"} =>
       \E c \in Call : /\ current = ServiceRequestAction(c) /\ rpc[c] # "none" /\ ~OfStream(c)
                       /\ responses[c] = IF finalizing = "handled" THEN 1 ELSE 0

\* A request completes with ok exactly if an rpc was matched to it.
OkIfMatched ==
  \A c \in Call :
    /\ rpc[c] # "none" =>
         handlerOf[c] # NoHandler /\ ServiceRequestAction(c) \notin pending
    /\ \A e \in events : e.tag = ServiceRequestAction(c) => (e.ok <=> rpc[c] # "none")
    /\ current = ServiceRequestAction(c) => (currentOk <=> rpc[c] # "none")

\* The Calls that exist are those an action will still use, and the kept readers.
CallsAreUsed ==
  \A c \in Call :
    c \in calls <=>
      \/ KeptReader(c) \/ ServiceRequestAction(c) \in Live
      \/ CallHandlingAction(c) \in Live \/ CallFinishAction(c) \in Live

\* What is true once the grpc::Server has been shut down.
DownInOrder ==
  /\ down \/ (\E h \in Handler : handler[h] = "deleted") => server \in {"down", "null"}
  /\ server \in {"down", "null"} => \A c \in Call : rpc[c] # "open"
  /\ server = "null" <=> owner = "destroyed"

\* KeepsListening, with why: while the server listens no request fails.
ListensOnce ==
  /\ \A c \in Call : handlerOf[c] # NoHandler => handler[handlerOf[c]] # "none"
  /\ server = "listening" =>
       /\ \A h \in Handler : handler[h] # "none" => \E c \in Call : Listening(h) = {c}
       /\ \A c \in Call : ServiceRequestAction(c) \in Completed \cup {current} => rpc[c] # "none"

\* The inductive invariant.
ServerIInv ==
  /\ QueueIInv /\ ServerTypeOK /\ ActionsInOrder /\ HandledInOrder /\ OkIfMatched
  /\ CallsAreUsed /\ DownInOrder /\ ListensOnce /\ NothingBegunAfterShutdown

\* Each rpc accepted is handled once, and answered, if its client waits, once and
\* after that.
Abstract ==
  INSTANCE UnaryService WITH
    Rpc <- Call,
    accepted <- {c \in Call : rpc[c] # "none"},
    handled <- responses,
    answered <- {c \in Call : rpc[c] = "answered"},
    cancelled <- {c \in Call : rpc[c] = "cancelled"}

ImplementsUnaryService == Abstract!Spec

\* Every unary rpc the server accepts is answered or dead in the end, and its Call
\* is deleted; unless the process dies, or the server is never started: gRPC accepts
\* rpcs for it all the same.
EveryRpcOver ==
  \A c \in Call : rpc[c] = "open" /\ ~OfStream(c) ~>
    \/ rpc[c] \in {"answered", "cancelled"} /\ c \notin calls
    \/ ~Running \/ server = "abandoned"

\* stop() returns; unless the process dies, or a client keeps a client-streaming rpc
\* open: the server itself never ends one, and Server::Shutdown waits for it.  And
\* so does the destructor, if the server was started.
StopReturns ==
  server \in {"shutting", "abandoned"} ~>
    \/ owner = "destroyed" \/ ~Running \/ ~started
    \/ \E c \in Call : rpc[c] = "open" /\ OfStream(c)

=============================================================================
