-------------------------- MODULE ExamplePrograms --------------------------
(***************************************************************************)
(* The programs examples/HelloWorld and examples/SimpleCall: one process   *)
(* with a Server::AsyncServer and a Client::AsyncClient that calls it.     *)
(* main registers handlers and starts the server, calls with a callback,   *)
(* then calls and waits for the response, and leaves: the client is        *)
(* destroyed, then the server.                                             *)
(*                                                                         *)
(* The client's variables are those of AsyncClient, the server's those of  *)
(* UnaryServer, with an "s" where the two share a name.                    *)
(***************************************************************************)
EXTENDS AsyncClient, RpcTypes

CONSTANTS
  Incoming,   \* the Calls that the server ever makes (a bound on the rpcs)
  MaxFailed,  \* bound: the rpcs that the connection fails
  Unserved    \* "no Call"

ASSUME ProgramsAssumption ==
  /\ Tag # HasCallback /\ NoTag = Unserved
  /\ Unserved \notin Method \cup Incoming \cup ({"request", "handling", "finish"} \X Incoming)

VARIABLES
  program,    \* which of the programs this is
  served,     \* served[c]: the server's Call that took the rpc of call c
  sPending, sEvents, sDown, sMisused, sPolling, sCurrent, sCurrentOk, sStatus,
  sNextStatus, sFinalized, sOwner, handler, handlerOf, calls, responses, sRpc,
  sFinalizing, server, started, crashed

\* The server, with the lemmas about it (ExampleProgramsProofs needs them of this S).
S == INSTANCE UnaryServerProofs WITH
  Tag <- {"request", "handling", "finish"} \X Incoming, Call <- Incoming,
  Handler <- Method, NoHandler <- Unserved, StreamHandler <- {},
  pending <- sPending, events <- sEvents, down <- sDown, misused <- sMisused,
  polling <- sPolling, current <- sCurrent, currentOk <- sCurrentOk,
  status <- sStatus, nextStatus <- sNextStatus, finalized <- sFinalized,
  owner <- sOwner, rpc <- sRpc, finalizing <- sFinalizing

sVars ==
  <<sPending, sEvents, sDown, sMisused, sPolling, sCurrent, sCurrentOk, sStatus,
    sNextStatus, sFinalized, sOwner, handler, handlerOf, calls, responses, sRpc,
    sFinalizing, server, started, crashed>>
networkVars == <<program, served>>
vars == <<clientVars, sVars, networkVars>>

MethodNamed(service, name) == CHOOSE m \in Method : m.service = service /\ m.name = name

\* services: the order of the template arguments of AsyncServer and AsyncClient;
\* handles: the handlers that main registers, in order;
\* calls: the method it calls;
\* drops: whether it drops the call it was returned before it waits for the future.
HelloWorld ==
  [services |-> <<"Greeter">>,
   handles |-> <<MethodNamed("Greeter", "SayHello")>>,
   calls |-> MethodNamed("Greeter", "SayHello"),
   drops |-> FALSE]

\* Bound: the three handlers that get no calls are left out; each would be a request
\* more that fails at the end (UnaryServer has a handler more).
SimpleCall ==
  [services |-> <<"App", "Task">>,
   handles |-> <<MethodNamed("Task", "GetTarget")>>,
   calls |-> MethodNamed("Task", "GetTarget"),
   drops |-> TRUE]

\* Bound: the indeterminate _nextStatus of the queues is TIMEOUT (it makes no
\* difference: DestroyedWhenDrained of ActionQueue, for any).
Init ==
  /\ ClientInit /\ S!ServerInit
  /\ {nextStatus, sNextStatus} = {"TIMEOUT"}
  /\ program \in {HelloWorld, SimpleCall}
  /\ served = [c \in Tag |-> Unserved]

\* The methods main may pass to call() and registerCallHandler(), as far as the
\* compiler is concerned.
Callable == {m \in Method : CallTakes(Async(m))}
Handleable == {m \in Method : RegisterCallHandlerTakes(RequestRpcOf(m))}

\* The server object that the request function of m is called on is that of its service.
Serves(p, m) ==
  LET Services == [i \in DOMAIN p.services |-> AsyncService(p.services[i])]
  IN  /\ m \in Handleable
      /\ ServicesOf(RequestRpcOf(m), Services) # {}
      /\ ServiceUsed(RequestRpcOf(m), Services) = AsyncService(m.service)

Alive == Running /\ S!Running

-----------------------------------------------------------------------------
(* The thread of main.                                                     *)

OnServer(A) == Alive /\ A /\ UNCHANGED <<clientVars, networkVars>>
OnClient(A) == Alive /\ A /\ UNCHANGED <<sVars, networkVars>>

\* registerCallHandler for each handler, in order.
Register ==
  \E i \in DOMAIN program.handles :
    /\ program.handles[i] \in Handleable
    /\ \A j \in 1 .. i - 1 : handler[program.handles[j]] = "registered"
    /\ OnServer(S!NewCallHandler(program.handles[i])
                \/ S!EmplaceCallHandler(program.handles[i]))

StartServer ==
  /\ \A i \in DOMAIN program.handles : handler[program.handles[i]] = "registered"
  /\ OnServer(S!Start)

CallsNow(c) ==
  /\ started /\ program.calls \in Callable
  /\ \A d \in Tag \ {c} :
       \/ d \notin HasCallback /\ step[d] = "none"
       \/ step[d] = "dropped" /\ (d \notin HasCallback => promise[d] # "none")
       \/ c \in HasCallback /\ step[d] = "none"

\* The calls with a callback, then those to wait for: one at a time, as CallsNow says.
CallRpc(c) == CallsNow(c) /\ OnClient(Construct(c) \/ MakeShared(c) \/ AddStreamingCall(c))

\* Nobody keeps a call with a callback; HelloWorld keeps the other until handleResult
\* has its response, TaskRpcClient::GetTarget only returns the future.
DropCall(c) ==
  /\ c \in HasCallback \/ program.drops \/ promise[c] # "none"
  /\ OnClient(Drop(c))

\* main leaves: ~AsyncClient.
LeaveClient ==
  /\ \A c \in Tag : step[c] = "dropped" /\ (c \notin HasCallback => promise[c] # "none")
  /\ OnClient(ShutdownClient \/ JoinThread \/ DestroyClient)

\* Then ~AsyncServer.
LeaveServer ==
  /\ owner = "destroyed"
  /\ OnServer(S!ShutdownServer \/ S!StopNext)

MainNext ==
  \/ Register \/ StartServer \/ LeaveClient \/ LeaveServer
  \/ \E c \in Tag : CallRpc(c) \/ DropCall(c)

-----------------------------------------------------------------------------
(* The connection, and the queue threads.                                  *)

\* The rpc of call c reaches the server, which takes it for its Call k.  (Assumed of
\* gRPC: it matches an rpc to one request only.)
RpcArrives(c, k) ==
  /\ Alive /\ c \in pending /\ served[c] = Unserved
  /\ handlerOf[k] = program.calls /\ Serves(program, program.calls)
  /\ S!Match(k)
  /\ served' = [served EXCEPT ![c] = k]
  /\ UNCHANGED <<clientVars, program>>

Failed ==
  {c \in Tag : rpc[c] = "error" \/ (served[c] # Unserved /\ sRpc[served[c]] = "cancelled")}

\* What the client may be told: OK only if the server answered.
ClientEnds(c) ==
  /\ OnClient(RpcEnds(c))
  /\ rpc'[c] = "OK" => served[c] # Unserved /\ sRpc[served[c]] = "answered"
  /\ Cardinality(Failed') <= MaxFailed

\* The server learns that the connection broke, before or after the client does.
ServerGivesUp(c) ==
  /\ served[c] # Unserved /\ rpc[c] # "OK"
  /\ OnServer(S!RpcCancelled(served[c])) /\ Cardinality(Failed') <= MaxFailed

GrpcOfServer ==
  \E k \in Incoming : OnServer(S!FailRequest(k) \/ S!AlarmFires(k) \/ S!RpcFinishes(k))

ClientThread == started /\ OnClient(StartThread \/ QueueThread)

ServerThread == OnServer(S!QueueThread)

\* main has returned, or the process died.
Ended == (~Alive \/ sOwner = "destroyed") /\ UNCHANGED vars

Next ==
  \/ MainNext \/ ClientThread \/ ServerThread \/ GrpcOfServer
  \/ \E c \in Tag :
       ClientEnds(c) \/ ServerGivesUp(c) \/ \E k \in Incoming : RpcArrives(c, k)
  \/ Ended

Spec == Init /\ [][Next]_vars

\* The rpc of call c goes on: it arrives, and once the server is done with it the
\* client is told.  The client's rpc need not fail for want of an answer.
RpcGoesOn(c) ==
  \/ \E k \in Incoming : RpcArrives(c, k)
  \/ served[c] # Unserved /\ sRpc[served[c]] # "open" /\ ClientEnds(c)

\* As long as a thread can run, or gRPC deliver something, something does go on.  (No
\* thread and no rpc goes on for ever, so that none is starved by another.)
FairSpec ==
  /\ Spec
  /\ WF_vars(\/ ClientThread \/ ServerThread \/ GrpcOfServer
             \/ \E c \in Tag : RpcGoesOn(c)
             \/ MainNext)

-----------------------------------------------------------------------------
(* Properties.                                                             *)

\* In a program that compiles and whose server has started: client and server give
\* every rpc the same types, what can be called is what can be handled, and both find
\* the stub and the service of the method.
TypesFit == started => BothSidesAgree /\ CallableIffHandled /\ LookupFinds

\* A registered function runs at most once for each rpc, and a response() that gives
\* a value was produced by it.
AtMostOnceSpec ==
  INSTANCE AtMostOnce WITH
    Rpc <- Tag, outcome <- promise,
    handled <- [c \in Tag |-> IF served[c] = Unserved THEN 0 ELSE responses[served[c]]]

ImplementsAtMostOnce == AtMostOnceSpec!Spec

\* The process dies in two places only: in call(), of an rpc that ended before
\* make_shared (BadWeakPtr), and under ~AsyncServer, of an rpc that the server was told
\* to give up before its queue thread saw it.  If every response arrived main returns.
DiesOfLostRpc ==
  ~Alive =>
    \/ terminated /\ \E c \in Tag : step[c] = "constructing" /\ rpc[c] # "none"
    \/ /\ owner = "destroyed" /\ server = "down"
       /\ \E c \in Tag : served[c] # Unserved /\ sRpc[served[c]] = "cancelled"

\* What main's destructors leave behind: nothing.  Every response was delivered, every
\* callback has run, and neither client nor server has a call left.
NothingLeft ==
  sOwner = "destroyed" =>
    /\ called = HasCallback /\ \A c \in Tag : promise[c] # "none"
    /\ streamingCalls = {} /\ calls = {}

\* main returns, unless the process dies.
MainReturns == <>(~Alive \/ sOwner = "destroyed")

-----------------------------------------------------------------------------
(* The inductive invariant behind the safety properties                     *)
(* (ExampleProgramsProofs.tla).                                             *)

\* A Call of the server's that took an rpc took that of one call.
RpcLink ==
  /\ served \in [Tag -> Incoming \cup {Unserved}]
  /\ \A k \in Incoming : sRpc[k] # "none" <=> \E c \in Tag : served[c] = k
  /\ \A c, d \in Tag : served[c] = served[d] => c = d \/ served[c] = Unserved

\* How an answer comes back: from the server, to the rpc, to the promise.
AnswerComesBack ==
  \A c \in Tag :
    /\ rpc[c] # "none" <=> Begun(c) /\ c \notin pending
    /\ rpc[c] = "OK" => served[c] # Unserved /\ sRpc[served[c]] = "answered"
    /\ promise[c] = "value" => rpc[c] = "OK"

\* How far main is: it leaves the client after its calls, the server after the client.
MainInOrder ==
  /\ ~misused
  /\ owner # "running" => \A c \in Tag : step[c] = "dropped"
  /\ owner = "destroyed" => streamingCalls = {}
  /\ server # "listening" => owner = "destroyed"
  /\ server # "abandoned"

ProgramsIInv ==
  /\ ClientIInv /\ S!ServerIInv
  /\ RpcLink /\ AnswerComesBack /\ MainInOrder /\ DiesOfLostRpc

=============================================================================
