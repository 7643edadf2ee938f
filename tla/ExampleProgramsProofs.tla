----------------------- MODULE ExampleProgramsProofs -----------------------
(***************************************************************************)
(* What TLAPS proves of ExamplePrograms, for every number of calls and of  *)
(* rpcs, every set of methods, and however many rpcs the connection fails. *)
(***************************************************************************)
EXTENDS ExamplePrograms, AsyncClientProofs, RpcTypesProofs

-----------------------------------------------------------------------------
(* The server of the programs.                                             *)

\* It is one to which UnaryServerProofs applies.
LEMMA ServerConstants ==
  /\ NoTag \notin {"request", "handling", "finish"} \X Incoming
  /\ Inline \in BOOLEAN /\ ~Inline
  /\ Unserved \notin Method /\ {} \subseteq Method
BY ActionQueueAssumption, AsyncClientAssumption, ProgramsAssumption

-----------------------------------------------------------------------------
(* The steps of the programs.                                              *)

\* What the client may do: main makes its calls, and leaves after them; gRPC tells OK
\* only of an rpc that the server answered.
ClientMoves ==
  \/ \E c \in Tag : Construct(c) \/ MakeShared(c) \/ AddStreamingCall(c) \/ Drop(c)
  \/ \E c \in Tag :
       RpcEnds(c) /\ (rpc'[c] = "OK" => served[c] # Unserved /\ sRpc[served[c]] = "answered")
  \/ StartThread \/ QueueThread
  \/ /\ \A c \in Tag : step[c] = "dropped"
     /\ ShutdownClient \/ JoinThread \/ DestroyClient

\* What the server may do while no rpc comes in.
ServerMoves == S!Serving \/ (owner = "destroyed" /\ S!Stopping)

LEMMA ProgramCases ==
  ASSUME RpcLink, [Next]_vars
  PROVE  \/ UNCHANGED <<clientVars, sVars, networkVars>>
         \/ Alive /\ ClientMoves /\ UNCHANGED <<sVars, networkVars>>
         \/ Alive /\ ServerMoves /\ UNCHANGED <<clientVars, networkVars>>
         \/ \E c \in Tag, k \in Incoming : RpcArrives(c, k)
<1> USE DEF OnClient, OnServer
<1>1. CASE Ended \/ UNCHANGED vars BY <1>1 DEF Ended, vars
<1>2. CASE Register
  BY <1>2 DEF Register, Handleable, ServerMoves, S!Serving
<1>3. CASE StartServer BY <1>3 DEF StartServer, ServerMoves, S!Serving
<1>4. CASE LeaveClient BY <1>4 DEF LeaveClient, ClientMoves
<1>5. CASE LeaveServer BY <1>5 DEF LeaveServer, ServerMoves, S!Stopping
<1>6. ASSUME NEW c \in Tag, CallRpc(c) \/ DropCall(c)
      PROVE  Alive /\ ClientMoves /\ UNCHANGED <<sVars, networkVars>>
  BY <1>6 DEF CallRpc, DropCall, ClientMoves
<1>7. CASE ClientThread BY <1>7 DEF ClientThread, ClientMoves
<1>8. CASE ServerThread BY <1>8 DEF ServerThread, ServerMoves, S!Serving
<1>9. CASE GrpcOfServer BY <1>9 DEF GrpcOfServer, ServerMoves, S!Serving
<1>10. ASSUME NEW c \in Tag, ClientEnds(c)
       PROVE  Alive /\ ClientMoves /\ UNCHANGED <<sVars, networkVars>>
  BY <1>10 DEF ClientEnds, ClientMoves
<1>11. ASSUME NEW c \in Tag, ServerGivesUp(c)
       PROVE  Alive /\ ServerMoves /\ UNCHANGED <<clientVars, networkVars>>
  <2>1. served[c] \in Incoming BY <1>11 DEF ServerGivesUp, RpcLink
  <2> QED BY <1>11, <2>1 DEF ServerGivesUp, ServerMoves, S!Serving
<1> QED
  BY <1>1, <1>2, <1>3, <1>4, <1>5, <1>6, <1>7, <1>8, <1>9, <1>10, <1>11 DEF Next, MainNext

LEMMA ClientMovesIsNext == ClientMoves => ClientNext
BY DEF ClientMoves, ClientNext, CallerNext

LEMMA ServerMovesIsNext == ServerMoves => S!ServerNext
BY ServerConstants, S!ServingIsNext DEF ServerMoves

\* A step of the programs is a step of the client, or leaves it alone; and the same of
\* the server.
LEMMA ComponentSteps ==
  ASSUME RpcLink, [Next]_vars
  PROVE  [ClientNext]_clientVars /\ [S!ServerNext]_(S!serverVars)
<1>1. UNCHANGED sVars => UNCHANGED S!serverVars
  BY DEF sVars, S!serverVars, S!queueVars, S!grpcVars, S!pollVars, S!handlerVars
<1>2. ASSUME NEW c \in Tag, NEW k \in Incoming, RpcArrives(c, k)
      PROVE  UNCHANGED clientVars /\ S!ServerNext
  BY <1>2 DEF RpcArrives, S!ServerNext, S!GrpcNext
<1> QED BY <1>1, <1>2, ProgramCases, ClientMovesIsNext, ServerMovesIsNext

\* What the parts of the invariant that join client and server read.
LEMMA ClientKept ==
  ASSUME UNCHANGED clientVars
  PROVE  /\ UNCHANGED <<pending, events, current, finalized, polling, misused, owner, step, rpc,
                        promise, called, streamingCalls, finalizing, terminated>>
         /\ \A c : Begun(c)' <=> Begun(c)
         /\ Running' <=> Running
<1>1. UNCHANGED <<pending, events, current, finalized, polling, misused, owner, step, rpc,
                  promise, called, streamingCalls, finalizing, terminated>>
  BY DEF clientVars, callVars, queueVars, grpcVars, pollVars
<1> QED BY <1>1 DEF Begun, Running

LEMMA ServerKept ==
  ASSUME UNCHANGED sVars
  PROVE  /\ UNCHANGED <<sRpc, responses, calls, server, started, crashed, sOwner, sMisused>>
         /\ S!Running' <=> S!Running
BY DEF sVars, S!Running

LEMMA ArrivesEffect ==
  ASSUME S!ServerIInv, NEW c \in Tag, NEW k \in Incoming, RpcArrives(c, k)
  PROVE  /\ Alive /\ c \in pending /\ served[c] = Unserved
         /\ sRpc[k] = "none" /\ responses[k] = 0
         /\ served' = [served EXCEPT ![c] = k] /\ sRpc' = [sRpc EXCEPT ![k] = "open"]
         /\ UNCHANGED <<responses, server, started, crashed, sMisused, sOwner>>
         /\ UNCHANGED clientVars
<1>1. S!Match(k) BY DEF RpcArrives
<1>2. /\ sRpc[k] = "none" /\ responses[k] = 0
      /\ sRpc' = [sRpc EXCEPT ![k] = "open"]
      /\ UNCHANGED <<responses, server, started, crashed, sMisused, sOwner>>
  BY <1>1, ServerConstants, S!MatchIsFirst
<1> QED BY <1>2 DEF RpcArrives

-----------------------------------------------------------------------------
(* The parts of the inductive invariant.                                   *)

\* The server takes a rpc for a Call that took none before.
LEMMA RpcLinkStep ==
  S!ServerIInv /\ RpcLink /\ [Next]_vars => RpcLink'
<1> USE ProgramsAssumption DEF RpcLink
<1> SUFFICES ASSUME S!ServerIInv, RpcLink, [Next]_vars PROVE RpcLink'
  OBVIOUS
<1>1. ASSUME UNCHANGED served, \A k \in Incoming : sRpc'[k] # "none" <=> sRpc[k] # "none"
      PROVE  RpcLink'
  BY <1>1
<1>2. CASE UNCHANGED <<sVars, networkVars>>
  BY <1>1, <1>2, ServerKept DEF networkVars
<1>3. CASE ServerMoves /\ UNCHANGED networkVars
  <2>1. \A k \in Incoming : sRpc'[k] # "none" <=> sRpc[k] # "none"
    BY <1>3, ServerConstants, S!ServingRpcs DEF ServerMoves
  <2> QED BY <1>1, <1>3, <2>1 DEF networkVars
<1>4. ASSUME NEW c \in Tag, NEW k \in Incoming, RpcArrives(c, k) PROVE RpcLink'
  <2>1. /\ served[c] = Unserved /\ sRpc[k] = "none"
        /\ served' = [served EXCEPT ![c] = k] /\ sRpc' = [sRpc EXCEPT ![k] = "open"]
    BY <1>4, ArrivesEffect
  <2>2. sRpc \in [Incoming -> {"none", "open", "answered", "cancelled"}]
    BY DEF S!ServerIInv, S!ServerTypeOK
  <2>3. k # Unserved BY DEF RpcLink
  <2>4. \A d \in Tag : served[d] # k BY <2>1
  <2>5. \A d \in Tag : served'[d] = IF d = c THEN k ELSE served[d] BY <2>1
  <2>6. \A j \in Incoming : sRpc'[j] = IF j = k THEN "open" ELSE sRpc[j] BY <2>1, <2>2
  <2>7. served' \in [Tag -> Incoming \cup {Unserved}] BY <2>1
  <2>8. \A j \in Incoming : sRpc'[j] # "none" <=> \E d \in Tag : served'[d] = j
    BY <2>1, <2>4, <2>5, <2>6
  <2>9. \A d, e \in Tag : served'[d] = served'[e] => d = e \/ served'[d] = Unserved
    BY <2>4, <2>5
  <2> QED BY <2>7, <2>8, <2>9
<1> QED BY <1>2, <1>3, <1>4, ProgramCases

\* A step of the client that leaves the answers where they are.
LEMMA AnswerStays ==
  ASSUME AnswerComesBack, UNCHANGED <<pending, rpc, promise, served, sRpc>>,
         \A c \in Tag : Begun(c)' <=> Begun(c)
  PROVE  AnswerComesBack'
BY DEF AnswerComesBack

\* An answer goes from the server to the rpc, and on to the promise.
LEMMA AnswerClientStep ==
  ASSUME ClientIInv, AnswerComesBack, ClientMoves, UNCHANGED <<served, sRpc>>
  PROVE  AnswerComesBack'
<1> USE ActionQueueAssumption
<1>0. /\ QueueTypeOK /\ OneHolder /\ ClientTypeOK /\ MadeIsBegun
  BY DEF ClientIInv, QueueIInv
<1>1. ASSUME NEW c \in Tag, Construct(c) PROVE AnswerComesBack'
  <2>1. /\ step[c] = "none" /\ pending' = pending \cup {c}
        /\ UNCHANGED <<events, current, finalized, rpc, promise>>
    BY <1>1 DEF Construct, Goes, Begin, pollVars
  <2>2. ~Begun(c) BY <1>0, <2>1 DEF MadeIsBegun
  <2>3. \A d \in Tag : Begun(d)' <=> Begun(d) \/ d = c BY <2>1 DEF Begun
  <2> QED BY <2>1, <2>2, <2>3 DEF AnswerComesBack
<1>2. ASSUME NEW c \in Tag, MakeShared(c) \/ AddStreamingCall(c) \/ Drop(c)
      PROVE  AnswerComesBack'
  BY <1>2, AnswerStays DEF MakeShared, AddStreamingCall, Drop, queueVars, grpcVars, pollVars, Begun
<1>3. ASSUME NEW c \in Tag, RpcEnds(c),
             rpc'[c] = "OK" => served[c] # Unserved /\ sRpc[served[c]] = "answered"
      PROVE  AnswerComesBack'
  <2>1. /\ c \in pending /\ pending' = pending \ {c}
        /\ UNCHANGED <<promise, finalized, current>>
        /\ \E s \in {"OK", "error"} : rpc' = [rpc EXCEPT ![c] = s]
    BY <1>3 DEF RpcEnds, Complete, pollVars
  <2>2. events' = events \cup {[tag |-> c, ok |-> TRUE]} BY <1>3 DEF RpcEnds, Complete
  <2>3. \A d : d \in {e.tag : e \in events'} <=> d \in {e.tag : e \in events} \/ d = c
    <3>1. [tag |-> c, ok |-> TRUE].tag = c OBVIOUS
    <3> QED BY <2>2, <3>1
  <2>4. \A d \in Tag : Begun(d)' <=> Begun(d) BY <2>1, <2>3 DEF Begun
  <2>5. /\ rpc'[c] # "none" /\ \A d \in Tag \ {c} : rpc'[d] = rpc[d]
    BY <1>0, <2>1 DEF ClientTypeOK
  <2>6. rpc[c] = "none" /\ Begun(c) BY <2>1 DEF AnswerComesBack, Begun
  <2> QED BY <1>3, <2>1, <2>4, <2>5, <2>6 DEF AnswerComesBack
<1>4. CASE Polls
  <2>1. UNCHANGED <<pending, rpc, promise>>
    BY <1>4 DEF Polls, GotEvent, SawShutdown, Store, grpcVars, callVars
  <2>2. \A d \in Tag : Begun(d)' <=> Begun(d)
    BY <1>0, <1>4 DEF Polls, GotEvent, SawShutdown, Store, grpcVars, Begun, QueueTypeOK
  <2> QED BY <2>1, <2>2, AnswerStays
<1>5. CASE Settle
  <2>1. /\ promise' = Settled /\ current \in Tag /\ rpc' = rpc
        /\ UNCHANGED <<pending, events, finalized, current>>
    BY <1>0, <1>5 DEF Settle, OnQueueThread, QueueTypeOK, queueVars, grpcVars, pollVars
  <2>2. \A d \in Tag : promise'[d] = "value" => promise[d] = "value" \/ rpc[d] = "OK"
    BY <1>0, <2>1 DEF Settled, ClientTypeOK
  <2> QED BY <2>1, <2>2 DEF AnswerComesBack, Begun
<1>6. CASE RunResponseCallback \/ DeadCallback \/ BadWeakPtr \/ RemoveStreamingCall
  BY <1>6, AnswerStays DEF RunResponseCallback, DeadCallback, BadWeakPtr, RemoveStreamingCall,
     queueVars, grpcVars, pollVars, callVars, Begun
<1>7. CASE Finalized
  <2>1. /\ finalized' = finalized \cup {current} /\ current' = NoTag
        /\ UNCHANGED <<pending, events, rpc, promise>>
    BY <1>7 DEF Finalized, FinalizeOne, FinalizeResult, DeleteAction, grpcVars
  <2> QED BY <2>1, AnswerStays DEF Begun
<1>8. CASE StartThread \/ ShutdownClient \/ JoinThread \/ DestroyClient
  BY <1>8, AnswerStays DEF StartThread, StartPolling, ShutdownClient, Shutdown, JoinThread,
     Joined, DestroyClient, Destroyed, grpcVars, pollVars, callVars, Begun
<1> QED
  BY <1>1, <1>2, <1>3, <1>4, <1>5, <1>6, <1>7, <1>8 DEF ClientMoves, QueueThread

LEMMA AnswerStep ==
  ClientIInv /\ S!ServerIInv /\ RpcLink /\ AnswerComesBack /\ [Next]_vars => AnswerComesBack'
<1> SUFFICES ASSUME ClientIInv, S!ServerIInv, RpcLink, AnswerComesBack, [Next]_vars
             PROVE  AnswerComesBack'
  OBVIOUS
<1>1. CASE UNCHANGED <<clientVars, sVars, networkVars>>
  BY <1>1, ClientKept, ServerKept, AnswerStays DEF networkVars
<1>2. CASE ClientMoves /\ UNCHANGED <<sVars, networkVars>>
  BY <1>2, ServerKept, AnswerClientStep DEF networkVars
<1>3. CASE ServerMoves /\ UNCHANGED <<clientVars, networkVars>>
  <2>1. \A k \in Incoming : sRpc[k] = "answered" => sRpc'[k] = "answered"
    BY <1>3, ServerConstants, S!ServingRpcs DEF ServerMoves
  <2>2. \A c \in Tag : served[c] # Unserved => served[c] \in Incoming BY DEF RpcLink
  <2> QED BY <1>3, <2>1, <2>2, ClientKept DEF AnswerComesBack, networkVars
<1>4. ASSUME NEW c \in Tag, NEW k \in Incoming, RpcArrives(c, k) PROVE AnswerComesBack'
  <2>1. /\ c \in pending /\ sRpc[k] = "none"
        /\ served' = [served EXCEPT ![c] = k] /\ sRpc' = [sRpc EXCEPT ![k] = "open"]
        /\ UNCHANGED clientVars
    BY <1>4, ArrivesEffect
  <2>2. rpc[c] = "none" BY <2>1 DEF AnswerComesBack
  <2>3. sRpc \in [Incoming -> {"none", "open", "answered", "cancelled"}]
    BY DEF S!ServerIInv, S!ServerTypeOK
  <2>4. \A d \in Tag \ {c} : served[d] # Unserved /\ sRpc[served[d]] = "answered" =>
                               served'[d] # Unserved /\ sRpc'[served'[d]] = "answered"
    BY <2>1, <2>3 DEF RpcLink
  <2> QED BY <2>1, <2>2, <2>4, ClientKept DEF AnswerComesBack
<1> QED BY <1>1, <1>2, <1>3, <1>4, ProgramCases

\* main begins no call after it has left the client, which so keeps none.
LEMMA MainClientStep ==
  ASSUME ClientIInv, MainInOrder, ClientMoves, UNCHANGED server
  PROVE  MainInOrder'
<1> USE ActionQueueAssumption DEF MainInOrder
<1>0. /\ QueueTypeOK /\ ClientTypeOK /\ OwnerInv
  BY DEF ClientIInv, QueueIInv
<1>1. ASSUME NEW c \in Tag, Construct(c) PROVE MainInOrder'
  BY <1>0, <1>1 DEF Construct, Begin, OwnerInv
<1>2. ASSUME NEW c \in Tag, MakeShared(c) \/ AddStreamingCall(c) \/ Drop(c)
      PROVE  MainInOrder'
  <2>1. /\ UNCHANGED <<owner, misused>> /\ step[c] # "dropped"
        /\ \E s : step' = [step EXCEPT ![c] = s]
    BY <1>2 DEF MakeShared, AddStreamingCall, Drop, Goes, queueVars, grpcVars
  <2>2. owner = "running" BY <2>1
  <2> QED BY <2>1, <2>2
<1>3. ASSUME NEW c \in Tag, RpcEnds(c) PROVE MainInOrder'
  BY <1>3 DEF RpcEnds, Complete
<1>4. CASE RemoveStreamingCall
  <2>1. UNCHANGED <<owner, misused, step>> /\ streamingCalls' \subseteq streamingCalls
    BY <1>4 DEF RemoveStreamingCall, RemoveCurrent, queueVars, grpcVars
  <2> QED BY <2>1
<1>5. CASE Polls \/ Settle \/ RunResponseCallback \/ DeadCallback \/ BadWeakPtr \/ Finalized
           \/ StartThread
  BY <1>5 DEF Polls, GotEvent, SawShutdown, Store, Settle, RunResponseCallback, DeadCallback,
     BadWeakPtr, Finalized, FinalizeOne, FinalizeResult, StartThread, StartPolling, queueVars,
     grpcVars, callVars
<1>6. CASE (\A c \in Tag : step[c] = "dropped") /\ (ShutdownClient \/ JoinThread)
  <2>1. UNCHANGED <<step, misused>> /\ owner \in {"running", "joining"} /\ owner' # "destroyed"
    BY <1>6 DEF ShutdownClient, Shutdown, JoinThread, Joined, callVars, grpcVars
  <2> QED BY <1>6, <2>1
<1>7. CASE DestroyClient
  BY <1>7 DEF DestroyClient, Destroyed, grpcVars
<1> QED
  BY <1>1, <1>2, <1>3, <1>4, <1>5, <1>6, <1>7 DEF ClientMoves, QueueThread

LEMMA MainStep ==
  ClientIInv /\ S!ServerIInv /\ RpcLink /\ MainInOrder /\ [Next]_vars => MainInOrder'
<1> SUFFICES ASSUME ClientIInv, S!ServerIInv, RpcLink, MainInOrder, [Next]_vars
             PROVE  MainInOrder'
  OBVIOUS
<1>1. ASSUME UNCHANGED clientVars,
             \/ UNCHANGED server
             \/ owner = "destroyed" /\ server' # "abandoned"
      PROVE  MainInOrder'
  BY <1>1, ClientKept DEF MainInOrder
<1>2. CASE UNCHANGED <<clientVars, sVars>> BY <1>1, <1>2, ServerKept
<1>3. CASE ClientMoves /\ UNCHANGED sVars BY <1>3, ServerKept, MainClientStep
<1>4. CASE ServerMoves /\ UNCHANGED clientVars
  BY <1>1, <1>4, ServerConstants, S!ServingServer DEF ServerMoves, MainInOrder
<1>5. ASSUME NEW c \in Tag, NEW k \in Incoming, RpcArrives(c, k) PROVE MainInOrder'
  BY <1>1, <1>5, ArrivesEffect
<1> QED BY <1>2, <1>3, <1>4, <1>5, ProgramCases

\* The client dies of BadWeakPtr only, and then of a call whose rpc has ended.
LEMMA ClientDies ==
  ASSUME ClientIInv, AnswerComesBack, MainInOrder', ClientMoves, Running, ~Running'
  PROVE  terminated' /\ \E c \in Tag : step'[c] = "constructing" /\ rpc'[c] # "none"
<1>1. ~misused' /\ terminated' BY DEF MainInOrder, Running
<1>2. CASE BadWeakPtr
  <2>1. /\ step[current] = "constructing" /\ polling = "finalize"
        /\ UNCHANGED <<step, rpc>>
    BY <1>2 DEF BadWeakPtr, WeakThisSet, callVars
  <2>2. current \in Tag /\ Begun(current) /\ current \notin pending
    BY <2>1 DEF ClientIInv, QueueIInv, QueueTypeOK, OneHolder, Begun
  <2>3. rpc[current] # "none" BY <2>2 DEF AnswerComesBack
  <2> QED BY <1>1, <2>1, <2>2, <2>3
<1>3. CASE ~BadWeakPtr
  <2>1. UNCHANGED terminated
    BY <1>3 DEF ClientMoves, Construct, MakeShared, AddStreamingCall, Drop, RpcEnds, StartThread,
       QueueThread, Polls, Settle, RunResponseCallback, DeadCallback, RemoveStreamingCall,
       Finalized, ShutdownClient, JoinThread, DestroyClient
  <2> QED BY <1>1, <2>1 DEF Running
<1> QED BY <1>2, <1>3

LEMMA DiesStep ==
  ProgramsIInv /\ [Next]_vars /\ RpcLink' /\ MainInOrder' => DiesOfLostRpc'
<1> SUFFICES ASSUME ProgramsIInv, [Next]_vars, RpcLink', MainInOrder', ~Alive'
             PROVE  DiesOfLostRpc'
  BY DEF DiesOfLostRpc
<1>0. /\ ClientIInv /\ S!ServerIInv /\ RpcLink /\ AnswerComesBack /\ MainInOrder
      /\ DiesOfLostRpc
  BY DEF ProgramsIInv
<1>1. CASE UNCHANGED <<clientVars, sVars, networkVars>>
  <2>1. ~Alive BY <1>1, ClientKept, ServerKept DEF Alive
  <2>2. UNCHANGED <<terminated, step, rpc, owner, server, served, sRpc>>
    BY <1>1, ClientKept, ServerKept DEF networkVars
  <2> QED BY <1>0, <2>1, <2>2 DEF DiesOfLostRpc
<1>2. CASE Alive /\ ClientMoves /\ UNCHANGED <<sVars, networkVars>>
  <2>1. Running /\ ~Running' BY <1>2, ServerKept DEF Alive
  <2>2. terminated' /\ \E c \in Tag : step'[c] = "constructing" /\ rpc'[c] # "none"
    BY <1>0, <1>2, <2>1, ClientDies
  <2> QED BY <2>2 DEF DiesOfLostRpc
<1>3. CASE Alive /\ ServerMoves /\ UNCHANGED <<clientVars, networkVars>>
  <2>1. S!Running /\ ~S!Running' BY <1>3, ClientKept DEF Alive
  <2>2. server' = "down" /\ \E k \in Incoming : sRpc'[k] = "cancelled"
    BY <1>0, <1>3, <2>1, ServerConstants, S!DiesOfCancelled DEF ServerMoves
  <2>3. owner' = "destroyed" BY <2>2 DEF MainInOrder
  <2>4. \E c \in Tag : served'[c] # Unserved /\ sRpc'[served'[c]] = "cancelled"
    BY <2>2, ProgramsAssumption DEF RpcLink
  <2> QED BY <2>2, <2>3, <2>4 DEF DiesOfLostRpc
<1>4. ASSUME NEW c \in Tag, NEW k \in Incoming, RpcArrives(c, k) PROVE FALSE
  BY <1>0, <1>4, ArrivesEffect, ClientKept DEF Alive, S!Running
<1> QED BY <1>0, <1>1, <1>2, <1>3, <1>4, ProgramCases

LEMMA ProgramsIInvStep == ProgramsIInv /\ [Next]_vars => ProgramsIInv'
<1>1. ProgramsIInv /\ [Next]_vars => ClientIInv' /\ S!ServerIInv'
  BY ComponentSteps, ClientIInvStep, ServerConstants, S!ServerIInvStep DEF ProgramsIInv
<1> QED
  BY <1>1, RpcLinkStep, AnswerStep, MainStep, DiesStep DEF ProgramsIInv

LEMMA ProgramsIInvInit == Init => ProgramsIInv
<1> SUFFICES ASSUME Init PROVE ProgramsIInv
  OBVIOUS
<1> USE ProgramsAssumption DEF Init
<1>1. ClientIInv BY ClientIInvInit
<1>2. S!ServerIInv BY ServerConstants, S!ServerIInvInit
<1>3. RpcLink BY DEF RpcLink, S!ServerInit
<1>4. AnswerComesBack
  BY ActionQueueAssumption DEF AnswerComesBack, ClientInit, QueueInit, Begun
<1>5. MainInOrder BY DEF MainInOrder, ClientInit, QueueInit, S!ServerInit
<1>6. DiesOfLostRpc
  BY DEF DiesOfLostRpc, Alive, Running, S!Running, ClientInit, QueueInit, S!ServerInit, S!QueueInit
<1> QED BY <1>1, <1>2, <1>3, <1>4, <1>5, <1>6 DEF ProgramsIInv

-----------------------------------------------------------------------------
(* The theorems.                                                           *)

\* The inductive invariant of the programs: the client's, the server's, and how the two
\* are joined.
THEOREM ProgramsInvariance == Spec => []ProgramsIInv
BY ProgramsIInvInit, ProgramsIInvStep, PTL DEF Spec

\* What each program shows of its client is a behaviour of AsyncClient, of its server one
\* of UnaryServer: what is proved of these holds of the programs.
THEOREM ProgramsAreOfComponents == Spec => ClientSpec /\ S!ServerSpec
<1>1. Init => ClientInit /\ S!ServerInit BY DEF Init
<1>2. ProgramsIInv /\ [Next]_vars => [ClientNext]_clientVars /\ [S!ServerNext]_(S!serverVars)
  BY ComponentSteps DEF ProgramsIInv
<1> QED BY ProgramsInvariance, <1>1, <1>2, PTL DEF Spec, ClientSpec, S!ServerSpec

\* The types of client and server fit, whatever methods the .proto files declare and in
\* whatever order their stubs and services are listed.
THEOREM TypesFitHolds == Spec => []TypesFit
<1>1. TypesFit BY BothSidesAgreeHolds, CallableIffHandledHolds, LookupFindsHolds DEF TypesFit
<1> QED BY <1>1, PTL

\* The process dies in two places only, of a rpc that was over before somebody looked.
THEOREM DiesOfLostRpcHolds == Spec => []DiesOfLostRpc
<1>1. ProgramsIInv => DiesOfLostRpc BY DEF ProgramsIInv
<1> QED BY ProgramsInvariance, <1>1, PTL

\* When main returns every response was delivered and nothing is left behind, however
\* its thread, the two queue threads and the connection interleave.
THEOREM NothingLeftHolds == Spec => []NothingLeft
<1>1. ProgramsIInv => NothingLeft
  <2> SUFFICES ASSUME ProgramsIInv, sOwner = "destroyed"
               PROVE  /\ called = HasCallback /\ \A c \in Tag : promise[c] # "none"
                      /\ streamingCalls = {} /\ calls = {}
    BY DEF NothingLeft
  <2>1. /\ ClientIInv /\ ClientTypeOK /\ DestroyedAnswered /\ MainInOrder
    BY ClientIInvAnswered DEF ProgramsIInv, ClientIInv
  <2>2. /\ S!QueueIInv /\ S!ServerTypeOK /\ S!CallsAreUsed /\ S!DownInOrder
    BY DEF ProgramsIInv, S!ServerIInv
  <2>3. owner = "destroyed"
    BY <2>1, <2>2 DEF S!DownInOrder, MainInOrder
  <2>4. \A c \in Tag : step[c] = "dropped" BY <2>1, <2>3 DEF MainInOrder
  <2>5. \A c \in Tag : promise[c] # "none" /\ (c \in HasCallback => c \in called)
    BY <2>1, <2>3, <2>4 DEF DestroyedAnswered
  <2>6. called = HasCallback
    BY <2>1, <2>5, AsyncClientAssumption DEF ClientTypeOK
  <2>7. calls = {}
    <3>1. sPending = {} /\ sEvents = {} /\ sCurrent = NoTag
      BY <2>2, ServerConstants, S!QueueIInvDrained DEF S!DestroyedWhenDrained
    <3>2. \A a \in {"request", "handling", "finish"} \X Incoming : a \notin S!Live
      BY <3>1, ServerConstants DEF S!Live, S!Completed
    <3>3. \A k \in Incoming : k \notin calls
      BY <2>2, <3>2 DEF S!CallsAreUsed, S!KeptReader, S!OfStream, S!ServiceRequestAction,
                        S!CallHandlingAction, S!CallFinishAction
    <3> QED BY <2>2, <3>3 DEF S!ServerTypeOK
  <2> QED BY <2>1, <2>3, <2>5, <2>6, <2>7 DEF MainInOrder
<1> QED BY ProgramsInvariance, <1>1, PTL

-----------------------------------------------------------------------------
(* Client and server together implement AtMostOnce.                        *)

\* The client's steps settle the future of one call, or of none.
LEMMA ClientOutcome ==
  ASSUME ClientIInv, ClientMoves
  PROVE  \/ UNCHANGED promise
         \/ \E c \in Tag : /\ promise[c] = "none"
                           /\ promise' = [promise EXCEPT ![c] =
                                            IF rpc[c] = "OK" THEN "value" ELSE "error"]
<1>1. CASE Settle
  <2>1. /\ current \in Tag /\ polling = "finalize" /\ finalizing = "begin"
    BY <1>1 DEF Settle, OnQueueThread, ClientIInv, QueueIInv, QueueTypeOK
  <2>2. promise[current] = "none"
    BY <2>1 DEF ClientIInv, QueueIInv, SettledInOrder, OneHolder
  <2> QED BY <1>1, <2>1, <2>2 DEF Settle, Settled
<1>2. CASE ~Settle
  BY <1>2 DEF ClientMoves, Construct, MakeShared, AddStreamingCall, Drop, RpcEnds, StartThread,
     QueueThread, Polls, RunResponseCallback, DeadCallback, BadWeakPtr, RemoveStreamingCall,
     Finalized, ShutdownClient, JoinThread, DestroyClient, callVars
<1> QED BY <1>1, <1>2

LEMMA AtMostOnceStep ==
  ProgramsIInv /\ [Next]_vars => [AtMostOnceSpec!Next]_(AtMostOnceSpec!rpcVars)
<1> SUFFICES ASSUME ProgramsIInv, [Next]_vars
             PROVE  [AtMostOnceSpec!Next]_(AtMostOnceSpec!rpcVars)
  OBVIOUS
<1> DEFINE handled == [c \in Tag |-> IF served[c] = Unserved THEN 0 ELSE responses[served[c]]]
<1>0. /\ ClientIInv /\ S!ServerIInv /\ RpcLink /\ AnswerComesBack
      /\ responses \in [Incoming -> Nat] /\ Unserved \notin Incoming
  BY ProgramsAssumption DEF ProgramsIInv, S!ServerIInv, S!ServerTypeOK
\* A value comes of an rpc that was handled.
<1>1. ASSUME NEW c \in Tag, rpc[c] = "OK" PROVE handled[c] = 1
  <2>1. served[c] \in Incoming /\ sRpc[served[c]] = "answered"
    BY <1>0, <1>1 DEF AnswerComesBack, RpcLink
  <2> QED BY <1>0, <2>1, ServerConstants, S!AnsweredIsHandled
<1>2. CASE UNCHANGED <<promise, served, responses>>
  BY <1>2 DEF AtMostOnceSpec!rpcVars
<1>3. CASE ClientMoves /\ UNCHANGED <<served, responses>>
  <2>1. ASSUME NEW c \in Tag, promise[c] = "none", rpc[c] = "OK",
               promise' = [promise EXCEPT ![c] = "value"]
        PROVE  AtMostOnceSpec!Answer(c)
    BY <1>1, <1>3, <2>1 DEF AtMostOnceSpec!Answer
  <2>2. ASSUME NEW c \in Tag, promise[c] = "none",
               promise' = [promise EXCEPT ![c] = "error"]
        PROVE  AtMostOnceSpec!Fail(c)
    BY <1>3, <2>2 DEF AtMostOnceSpec!Fail
  <2>3. \/ UNCHANGED promise
        \/ \E c \in Tag : AtMostOnceSpec!Answer(c) \/ AtMostOnceSpec!Fail(c)
    BY <1>0, <1>3, <2>1, <2>2, ClientOutcome
  <2> QED BY <1>2, <1>3, <2>3 DEF AtMostOnceSpec!Next
<1>4. CASE ServerMoves /\ UNCHANGED <<promise, served>>
  <2>1. ASSUME NEW k \in Incoming, sRpc[k] # "none", responses[k] = 0,
               responses' = [responses EXCEPT ![k] = 1]
        PROVE  \E c \in Tag : AtMostOnceSpec!Handle(c)
    <3>1. PICK c \in Tag : served[c] = k BY <1>0, <2>1 DEF RpcLink
    <3>2. \A d \in Tag : served[d] = k => d = c BY <1>0, <3>1 DEF RpcLink
    <3>3. handled[c] = 0 /\ handled' = [handled EXCEPT ![c] = 1]
      <4>1. handled[c] = 0 BY <1>0, <2>1, <3>1
      <4>2. ASSUME NEW d \in Tag PROVE handled'[d] = IF d = c THEN 1 ELSE handled[d]
        BY <1>0, <1>4, <2>1, <3>1, <3>2 DEF RpcLink
      <4>3. handled' = [d \in Tag |-> IF d = c THEN 1 ELSE handled[d]] BY <4>2
      <4> QED BY <4>1, <4>3
    <3>4. promise[c] # "value" BY <1>0, <1>1, <3>3 DEF AnswerComesBack
    <3> QED BY <1>4, <3>3, <3>4 DEF AtMostOnceSpec!Handle
  <2>2. \/ responses' = responses
        \/ \E k \in Incoming : /\ sRpc[k] # "none" /\ responses[k] = 0
                               /\ responses' = [responses EXCEPT ![k] = 1]
    BY <1>0, <1>4, ServerConstants, S!HandledOnce DEF ServerMoves
  <2> QED BY <1>2, <1>4, <2>1, <2>2 DEF AtMostOnceSpec!Next
<1>5. ASSUME NEW c \in Tag, NEW k \in Incoming, RpcArrives(c, k)
      PROVE  UNCHANGED AtMostOnceSpec!rpcVars
  <2>1. /\ served[c] = Unserved /\ responses[k] = 0
        /\ served' = [served EXCEPT ![c] = k]
        /\ UNCHANGED <<responses, promise>>
    BY <1>0, <1>5, ArrivesEffect, ClientKept
  <2>2. handled' = handled BY <1>0, <2>1 DEF RpcLink
  <2> QED BY <2>1, <2>2 DEF AtMostOnceSpec!rpcVars
<1> QED
  BY <1>0, <1>2, <1>3, <1>4, <1>5, ProgramCases, ClientKept, ServerKept DEF networkVars

\* The registered function runs at most once for each rpc, and a response() that gives a
\* value was produced by it, whatever the connection and the destructors do.
THEOREM AtMostOnceHolds == Spec => ImplementsAtMostOnce
<1>1. Init => AtMostOnceSpec!Init
  BY ProgramsAssumption DEF Init, AtMostOnceSpec!Init, ClientInit, S!ServerInit
<1> QED
  BY <1>1, AtMostOnceStep, ProgramsInvariance, PTL
     DEF Spec, ImplementsAtMostOnce, AtMostOnceSpec!Spec
=============================================================================
