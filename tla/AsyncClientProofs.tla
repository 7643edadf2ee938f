------------------------- MODULE AsyncClientProofs -------------------------
(***************************************************************************)
(* What TLAPS proves of AsyncClient, for every set of calls, with and      *)
(* without response callbacks, however early an rpc ends.                  *)
(***************************************************************************)
EXTENDS AsyncClient, ActionQueueProofs

-----------------------------------------------------------------------------
(* The client's steps as steps of its queue.                               *)

\* A client step is a step of the queue, or leaves the queue alone.
LEMMA ClientQueueStep ==
  MadeIsBegun /\ ClientTypeOK /\ [ClientNext]_clientVars => [QueueNext]_queueVars
<1> SUFFICES ASSUME MadeIsBegun, ClientTypeOK, [ClientNext]_clientVars
             PROVE  [QueueNext]_queueVars
  OBVIOUS
<1>1. ASSUME NEW c \in Tag, Construct(c) \/ CallInCallback(c) PROVE BeginOne(c)
  BY <1>1 DEF Construct, CallInCallback, OnQueueThread, Goes, BeginOne, MadeIsBegun
<1>2. ASSUME NEW c \in Tag, MakeShared(c) \/ AddStreamingCall(c) \/ Drop(c)
      PROVE  UNCHANGED queueVars
  BY <1>2 DEF MakeShared, AddStreamingCall, Drop
<1>3. ASSUME NEW c \in Tag, RpcEnds(c) PROVE Complete({c}, TRUE)
  BY <1>3 DEF RpcEnds
<1>4. CASE QueueThread
  <2>1. Polls => PollNext BY DEF Polls, PollNext
  <2>2. Finalized => PollNext BY DEF Finalized, PollNext
  <2>3. Settle \/ RunResponseCallback \/ DeadCallback \/ BadWeakPtr \/ RemoveStreamingCall
          => UNCHANGED queueVars
    BY DEF Settle, RunResponseCallback, DeadCallback, BadWeakPtr, RemoveStreamingCall
  <2> QED BY <1>4, <2>1, <2>2, <2>3 DEF QueueThread, QueueNext
<1>5. StartThread => StartPolling BY DEF StartThread
<1>6. ShutdownClient \/ JoinThread \/ DestroyClient => OwnerNext
  BY DEF ShutdownClient, JoinThread, DestroyClient, OwnerNext
<1>7. ClientStopped \/ UNCHANGED clientVars => UNCHANGED queueVars
  BY DEF ClientStopped, clientVars
<1> QED
  BY <1>1, <1>2, <1>3, <1>4, <1>5, <1>6, <1>7
     DEF ClientNext, CallerNext, QueueNext

LEMMA QueueIInvStep == QueueIInv /\ [QueueNext]_queueVars => QueueIInv'
BY QueueTypeStep, OneHolderStep, ShutdownStep DEF QueueIInv

\* ... so the queue's invariant is the client's.
LEMMA ClientQueueIInvStep ==
  ClientIInv /\ [ClientNext]_clientVars => QueueIInv'
BY ClientQueueStep, QueueIInvStep DEF ClientIInv

-----------------------------------------------------------------------------
(* The parts of the inductive invariant.                                   *)

LEMMA ClientTypeStep == ClientIInv /\ [ClientNext]_clientVars => ClientTypeOK'
<1> USE AsyncClientAssumption DEF CallStep
<1> SUFFICES ASSUME ClientIInv, [ClientNext]_clientVars PROVE ClientTypeOK'
  OBVIOUS
<1>0. QueueTypeOK' /\ ClientTypeOK
  BY ClientQueueIInvStep DEF QueueIInv, ClientIInv
<1>1. ASSUME NEW c \in Tag, CallerNext(c) \/ CallInCallback(c) \/ RpcEnds(c)
      PROVE  ClientTypeOK'
  BY <1>0, <1>1 DEF CallerNext, Construct, MakeShared, AddStreamingCall, KeepCall, Drop,
                    CallInCallback, OnQueueThread, Goes, RpcEnds, Complete, pollVars,
                    queueVars, grpcVars, ClientTypeOK
<1>2. CASE QueueThread
  <2>1. CASE Polls
    BY <1>0, <2>1 DEF Polls, GotEvent, SawShutdown, Store, callVars, ClientTypeOK
  <2>2. CASE Settle
    BY <1>0, <2>2 DEF Settle, Settled, OnQueueThread, queueVars, pollVars, ClientTypeOK
  <2>3. CASE RunResponseCallback
    BY <1>0, <2>3 DEF RunResponseCallback, Called, OnQueueThread, queueVars, pollVars,
                      ClientTypeOK
  <2>4. CASE DeadCallback \/ BadWeakPtr
    BY <1>0, <2>4 DEF DeadCallback, BadWeakPtr, OnQueueThread, queueVars, pollVars,
                      callVars, ClientTypeOK
  <2>5. CASE RemoveStreamingCall
    BY <1>0, <2>5 DEF RemoveStreamingCall, RemoveCurrent, OnQueueThread, queueVars,
                      pollVars, ClientTypeOK
  <2>6. CASE Finalized
    BY <1>0, <2>6 DEF Finalized, OnQueueThread, ClientTypeOK
  <2> QED BY <1>2, <2>1, <2>2, <2>3, <2>4, <2>5, <2>6 DEF QueueThread
<1>3. CASE StartThread \/ ShutdownClient \/ JoinThread \/ DestroyClient
  BY <1>0, <1>3 DEF StartThread, StartPolling, ShutdownClient, Shutdown, JoinThread,
                    Joined, DestroyClient, Destroyed, callVars, pollVars, ClientTypeOK
<1>4. CASE ClientStopped \/ UNCHANGED clientVars
  BY <1>0, <1>4 DEF ClientStopped, clientVars, queueVars, pollVars, callVars, ClientTypeOK
<1> QED BY <1>1, <1>2, <1>3, <1>4 DEF ClientNext

\* Begun changes for the call that is made only.
LEMMA MadeIsBegunStep == ClientIInv /\ [ClientNext]_clientVars => MadeIsBegun'
<1> USE AsyncClientAssumption, ActionQueueAssumption DEF MadeIsBegun, Begun
<1> SUFFICES ASSUME ClientIInv, [ClientNext]_clientVars PROVE MadeIsBegun'
  OBVIOUS
<1>0. QueueTypeOK /\ ClientTypeOK /\ MadeIsBegun
  BY DEF QueueIInv, ClientIInv
<1>1. ASSUME NEW c \in Tag, Construct(c) \/ CallInCallback(c) PROVE MadeIsBegun'
  BY <1>0, <1>1 DEF Construct, CallInCallback, Goes, Begin, pollVars, ClientTypeOK
<1>2. ASSUME NEW c \in Tag, MakeShared(c) \/ AddStreamingCall(c) \/ Drop(c)
      PROVE  MadeIsBegun'
  BY <1>0, <1>2 DEF MakeShared, AddStreamingCall, Drop, Goes, queueVars, grpcVars,
                    pollVars, ClientTypeOK
<1>3. ASSUME NEW c \in Tag, RpcEnds(c) PROVE MadeIsBegun'
  <2>1. /\ c \in pending /\ pending' = pending \ {c}
        /\ events' = events \cup {[tag |-> c, ok |-> TRUE]}
        /\ UNCHANGED <<current, finalized, step>>
    BY <1>3 DEF RpcEnds, Complete, pollVars
  <2>2. PICK r : r.tag = c /\ events' = events \cup {r}
    <3>1. [tag |-> c, ok |-> TRUE].tag = c OBVIOUS
    <3> QED BY <2>1, <3>1
  <2> QED BY <1>0, <2>1, <2>2
<1>4. CASE QueueThread
  <2>1. CASE GotEvent /\ UNCHANGED step
    <3> PICK e \in events : events' = events \ {e} /\ current' = e.tag
      BY <2>1 DEF GotEvent
    <3>1. current = NoTag BY <1>0, <2>1 DEF GotEvent, QueueTypeOK
    <3> QED BY <1>0, <2>1, <3>1 DEF GotEvent
  <2>2. CASE SawShutdown \/ Store
    BY <1>0, <1>4, <2>2 DEF SawShutdown, Store, QueueThread, Polls, callVars, Settle,
         RunResponseCallback, DeadCallback, BadWeakPtr, RemoveStreamingCall, Finalized,
         FinalizeOne, FinalizeResult, OnQueueThread, grpcVars, queueVars, pollVars
  <2>3. CASE Finalized
    BY <1>0, <2>3 DEF Finalized, FinalizeOne, FinalizeResult, DeleteAction, QueueTypeOK,
                      grpcVars
  <2>4. CASE Settle \/ RunResponseCallback \/ DeadCallback \/ BadWeakPtr
             \/ RemoveStreamingCall
    BY <1>0, <2>4 DEF Settle, RunResponseCallback, DeadCallback, BadWeakPtr,
         RemoveStreamingCall, queueVars, grpcVars, pollVars, callVars
  <2> QED BY <1>4, <2>1, <2>2, <2>3, <2>4 DEF QueueThread, Polls, callVars
<1>5. CASE StartThread \/ ShutdownClient \/ JoinThread \/ DestroyClient
  BY <1>0, <1>5 DEF StartThread, StartPolling, ShutdownClient, Shutdown, JoinThread,
                    Joined, DestroyClient, Destroyed, callVars, pollVars, grpcVars
<1>6. CASE ClientStopped \/ UNCHANGED clientVars
  BY <1>0, <1>6 DEF ClientStopped, clientVars, queueVars, grpcVars, pollVars, callVars
<1> QED
  BY <1>1, <1>2, <1>3, <1>4, <1>5, <1>6 DEF ClientNext, CallerNext
-----------------------------------------------------------------------------
\* A call in use stays in _streamingCalls from addStreamingCall until its own
\* finalizeFinished takes it out.
LEMMA RegisteredIsKeptStep ==
  ClientIInv /\ [ClientNext]_clientVars => RegisteredIsKept'
<1> USE AsyncClientAssumption, ActionQueueAssumption DEF RegisteredIsKept, Returned, InUse
<1> SUFFICES ASSUME ClientIInv, [ClientNext]_clientVars PROVE RegisteredIsKept'
  OBVIOUS
<1>0. /\ QueueTypeOK /\ OneHolder /\ OwnerInv /\ StatusInv
      /\ ClientTypeOK /\ MadeIsBegun /\ RegisteredIsKept
  BY DEF QueueIInv, ClientIInv
<1>1. ASSUME NEW c \in Tag, Construct(c) \/ CallInCallback(c) PROVE RegisteredIsKept'
  <2>1. /\ pending' = pending \cup {c}
        /\ UNCHANGED <<events, current, finalizing>>
        /\ \/ step' = [step EXCEPT ![c] = "constructing"] /\ UNCHANGED streamingCalls
           \/ /\ step' = [step EXCEPT ![c] = "registered"]
              /\ streamingCalls' = streamingCalls \cup {c}
    BY <1>1 DEF Construct, CallInCallback, OnQueueThread, KeepCall, Goes, Begin, pollVars
  <2> QED BY <1>0, <2>1 DEF ClientTypeOK
<1>2. ASSUME NEW c \in Tag, MakeShared(c) \/ AddStreamingCall(c) \/ Drop(c)
      PROVE  RegisteredIsKept'
  <2>1. UNCHANGED <<pending, events, current, finalizing>>
    BY <1>2 DEF MakeShared, AddStreamingCall, Drop, queueVars, grpcVars, pollVars
  <2> QED
    BY <1>0, <1>2, <2>1 DEF MakeShared, AddStreamingCall, KeepCall, Drop, Goes,
                            ClientTypeOK
<1>3. ASSUME NEW c \in Tag, RpcEnds(c) PROVE RegisteredIsKept'
  <2>1. PICK r : /\ r.tag = c /\ events' = events \cup {r}
                 /\ c \in pending /\ pending' = pending \ {c}
                 /\ UNCHANGED <<current, finalizing, step, streamingCalls>>
    <3> DEFINE e == [tag |-> c, ok |-> TRUE]
    <3>1. e.tag = c OBVIOUS
    <3>2. Complete({c}, TRUE) /\ UNCHANGED <<step, streamingCalls, finalizing>>
      BY <1>3 DEF RpcEnds
    <3>3. {[tag |-> a, ok |-> TRUE] : a \in {c}} = {e} OBVIOUS
    <3>4. events' = events \cup {e} BY <3>2, <3>3 DEF Complete
    <3>5. c \in pending /\ pending' = pending \ {c} /\ UNCHANGED current
      BY <3>2 DEF Complete, pollVars
    <3> HIDE DEF e
    <3> QED BY <3>1, <3>2, <3>4, <3>5
  <2> QED BY <1>0, <2>1
<1>4. CASE GotEvent /\ UNCHANGED callVars
  <2> PICK e \in events : events' = events \ {e} /\ current' = e.tag
    BY <1>4 DEF GotEvent
  <2> QED BY <1>0, <1>4 DEF GotEvent, callVars
<1>5. CASE (SawShutdown \/ Store) /\ UNCHANGED callVars
  BY <1>0, <1>5 DEF SawShutdown, Store, callVars, grpcVars
<1>6. CASE Settle \/ RunResponseCallback \/ DeadCallback \/ BadWeakPtr
  <2>1. UNCHANGED <<pending, events, current, step, streamingCalls>>
    BY <1>6 DEF Settle, RunResponseCallback, DeadCallback, BadWeakPtr, queueVars,
                grpcVars, pollVars, callVars
  <2>2. finalizing # "removed"
    BY <1>6 DEF Settle, RunResponseCallback, DeadCallback, BadWeakPtr, OnQueueThread
  <2> QED BY <1>0, <2>1, <2>2
<1>7. CASE RemoveStreamingCall
  <2>1. /\ current \in Tag /\ current' = current /\ finalizing' = "removed"
        /\ streamingCalls' = streamingCalls \ {current}
        /\ UNCHANGED <<pending, events, step>>
    BY <1>0, <1>7 DEF RemoveStreamingCall, RemoveCurrent, OnQueueThread, queueVars,
                      grpcVars, pollVars, QueueTypeOK
  <2>2. \A e \in events : e.tag # current BY <1>0 DEF OneHolder
  <2> QED BY <1>0, <2>1, <2>2 DEF OneHolder
<1>8. CASE Finalized
  BY <1>0, <1>8 DEF Finalized, FinalizeOne, FinalizeResult, DeleteAction, grpcVars
<1>9. CASE StartThread \/ ShutdownClient \/ JoinThread
  BY <1>0, <1>9 DEF StartThread, StartPolling, ShutdownClient, Shutdown, JoinThread,
                    Joined, callVars, pollVars, grpcVars
<1>10. CASE DestroyClient
  \* Nothing is in use: asyncNext saw SHUTDOWN, and has stopped.
  <2>1. pending = {} /\ events = {} /\ current = NoTag
    BY <1>0, <1>10, AsyncClientAssumption, OwnerOfThread
       DEF DestroyClient, Destroyed, OwnerInv, StatusInv, Drained, QueueTypeOK
  <2> QED BY <1>10, <2>1 DEF DestroyClient, Destroyed, grpcVars, pollVars
<1>11. CASE ClientStopped \/ UNCHANGED clientVars
  BY <1>0, <1>11 DEF ClientStopped, clientVars, queueVars, grpcVars, pollVars, callVars
<1> QED
  BY <1>1, <1>2, <1>3, <1>4, <1>5, <1>6, <1>7, <1>8, <1>9, <1>10, <1>11
     DEF ClientNext, CallerNext, QueueThread, Polls

\* finalizeFinished settles, notifies and lets go in this order.
LEMMA SettledInOrderStep == ClientIInv /\ [ClientNext]_clientVars => SettledInOrder'
<1> USE AsyncClientAssumption, ActionQueueAssumption DEF SettledInOrder
<1> SUFFICES ASSUME ClientIInv, [ClientNext]_clientVars PROVE SettledInOrder'
  OBVIOUS
<1>0. /\ QueueTypeOK /\ OneHolder /\ ClientTypeOK /\ SettledInOrder
  BY DEF QueueIInv, ClientIInv
<1>1. ASSUME UNCHANGED <<promise, called, finalizing, finalized, current>>
      PROVE SettledInOrder'
  BY <1>0, <1>1
<1>2. ASSUME NEW c \in Tag, CallerNext(c) \/ CallInCallback(c) \/ RpcEnds(c)
      PROVE  SettledInOrder'
  BY <1>1, <1>2 DEF CallerNext, Construct, MakeShared, AddStreamingCall, Drop, RpcEnds,
                    CallInCallback, OnQueueThread, Complete, queueVars, pollVars
<1>3. CASE GotEvent /\ UNCHANGED callVars
  BY <1>0, <1>3 DEF GotEvent, callVars, ClientTypeOK
<1>4. CASE (SawShutdown \/ Store) /\ UNCHANGED callVars
  BY <1>1, <1>4 DEF SawShutdown, Store, callVars
<1>5. CASE Settle
  <2>1. current \in Tag /\ UNCHANGED <<current, finalized, called>>
    BY <1>0, <1>5 DEF Settle, OnQueueThread, queueVars, pollVars, QueueTypeOK
  <2>2. promise'[current] # "none" /\ \A c \in Tag \ {current} : promise'[c] = promise[c]
    BY <1>0, <1>5, <2>1 DEF Settle, Settled, ClientTypeOK
  <2>3. finalizing = "begin" /\ finalizing' = "settled" BY <1>5 DEF Settle, OnQueueThread
  <2>4. finalized \subseteq Tag BY <1>0 DEF QueueTypeOK
  <2> QED BY <1>0, <2>1, <2>2, <2>3, <2>4
<1>6. CASE RunResponseCallback
  <2>1. UNCHANGED <<current, finalized, promise>>
    BY <1>6 DEF RunResponseCallback, queueVars, pollVars
  <2> QED BY <1>0, <1>6, <2>1 DEF RunResponseCallback, Called, OnQueueThread
<1>7. CASE DeadCallback \/ RemoveStreamingCall
  BY <1>0, <1>7 DEF DeadCallback, RemoveStreamingCall, OnQueueThread, queueVars, pollVars
<1>8. CASE BadWeakPtr
  BY <1>1, <1>8 DEF BadWeakPtr, queueVars, pollVars, callVars
<1>9. CASE Finalized
  BY <1>0, <1>9 DEF Finalized, OnQueueThread, FinalizeOne, FinalizeResult, DeleteAction
<1>10. CASE StartThread \/ ShutdownClient \/ JoinThread \/ DestroyClient
  BY <1>1, <1>10 DEF StartThread, StartPolling, ShutdownClient, Shutdown, JoinThread,
                     Joined, DestroyClient, Destroyed, callVars, pollVars
<1>11. CASE ClientStopped \/ UNCHANGED clientVars
  BY <1>1, <1>11 DEF ClientStopped, clientVars, queueVars, pollVars, callVars
<1> QED
  BY <1>2, <1>3, <1>4, <1>5, <1>6, <1>7, <1>8, <1>9, <1>10, <1>11
     DEF ClientNext, QueueThread, Polls

\* The destructor begins when no call() is under way, and no call() begins after it.
LEMMA NoneUnderWayStep == ClientIInv /\ [ClientNext]_clientVars => NoneUnderWay'
<1> SUFFICES ASSUME ClientIInv, [ClientNext]_clientVars PROVE NoneUnderWay'
  OBVIOUS
<1>0. ClientTypeOK /\ NoneUnderWay
  BY DEF ClientIInv
<1>1. ASSUME NEW c \in Tag, CallerNext(c) \/ CallInCallback(c) PROVE NoneUnderWay'
  BY <1>0, <1>1 DEF CallerNext, Construct, MakeShared, AddStreamingCall, Drop,
                    CallInCallback, Goes, queueVars, NoneUnderWay, ClientTypeOK
<1>2. CASE ShutdownClient
  BY <1>2 DEF ShutdownClient, callVars, NoneUnderWay
<1>3. ASSUME UNCHANGED step, owner # "running" \/ UNCHANGED owner PROVE NoneUnderWay'
  BY <1>0, <1>3 DEF NoneUnderWay
<1>4. ASSUME NEW c \in Tag, RpcEnds(c) PROVE NoneUnderWay'
  BY <1>3, <1>4 DEF RpcEnds, Complete
<1>5. CASE QueueThread
  BY <1>3, <1>5 DEF QueueThread, Polls, GotEvent, SawShutdown, Store, Settle,
       RunResponseCallback, DeadCallback, BadWeakPtr, RemoveStreamingCall, Finalized,
       FinalizeOne, FinalizeResult, callVars, queueVars
<1>6. CASE StartThread \/ JoinThread \/ DestroyClient
  BY <1>3, <1>6, AsyncClientAssumption
     DEF StartThread, StartPolling, JoinThread, Joined, DestroyClient, Destroyed, callVars
<1>7. CASE ClientStopped \/ UNCHANGED clientVars
  BY <1>3, <1>7 DEF ClientStopped, clientVars, queueVars, callVars
<1> QED BY <1>1, <1>2, <1>4, <1>5, <1>6, <1>7 DEF ClientNext

\* The one step that begins an operation on the shut-down queue is CallInCallback,
\* and nothing moves after it.
LEMMA LateCallStep == ClientIInv /\ [ClientNext]_clientVars => LateCallInCallback'
<1> USE ActionQueueAssumption
<1> SUFFICES ASSUME ClientIInv, [ClientNext]_clientVars, misused'
             PROVE  LateCallInCallback'
  BY DEF LateCallInCallback
<1>0. /\ QueueTypeOK /\ OwnerInv /\ ClientTypeOK /\ SettledInOrder /\ OneHolder
      /\ NoneUnderWay /\ LateCallInCallback
  BY DEF ClientIInv, QueueIInv
<1>1. MadeIsBegun' /\ RegisteredIsKept' /\ NoneUnderWay' /\ ClientTypeOK'
  BY MadeIsBegunStep, RegisteredIsKeptStep, NoneUnderWayStep, ClientTypeStep
<1>2. CASE misused
  <2>1. UNCHANGED clientVars
    BY <1>2 DEF ClientNext, CallerNext, Construct, MakeShared, AddStreamingCall, Drop,
         CallInCallback, RpcEnds, StartThread, QueueThread, Polls, Settle,
         RunResponseCallback, DeadCallback, BadWeakPtr, RemoveStreamingCall, Finalized,
         OnQueueThread, Goes, ShutdownClient, JoinThread, DestroyClient, ClientStopped,
         Running
  <2> QED
    BY <1>0, <1>2, <2>1 DEF LateCallInCallback, InUse, clientVars, queueVars, grpcVars,
                            pollVars, callVars
<1>3. ASSUME ~misused, NEW c \in Tag, CallInCallback(c) PROVE LateCallInCallback'
  <2>1. /\ polling = "finalize" /\ finalizing = "settled" /\ current \in HasCallback
        /\ owner # "running"
        /\ UNCHANGED <<owner, current, finalizing, promise, called>>
    BY <1>0, <1>3 DEF CallInCallback, OnQueueThread, Begin, pollVars, OwnerInv
  <2>2. owner = "joining"
    BY <1>0, <2>1, AsyncClientAssumption, OwnerOfThread DEF QueueTypeOK
  <2>3. promise[current] # "none" /\ current \notin called
    BY <1>0, <2>1 DEF SettledInOrder, OneHolder, QueueTypeOK
  <2>4. \A d \in Tag : InUse(d)' => d \in streamingCalls'
    BY <1>1, <2>1, <2>2 DEF RegisteredIsKept, Returned, MadeIsBegun, Begun, InUse,
                            NoneUnderWay, ClientTypeOK, CallStep
  <2> QED BY <2>1, <2>2, <2>3, <2>4 DEF LateCallInCallback
<1>4. ASSUME NEW c \in Tag, CallerNext(c) \/ RpcEnds(c) PROVE misused
  <2>1. ~down \/ ~Construct(c) BY <1>0 DEF Construct, OwnerInv
  <2> QED
    BY <1>4, <2>1 DEF CallerNext, Construct, Begin, MakeShared, AddStreamingCall, Drop,
                      RpcEnds, Complete, queueVars, grpcVars
<1>5. CASE QueueThread
  BY <1>2, <1>5 DEF QueueThread, Polls, GotEvent, SawShutdown, Store, Settle,
       RunResponseCallback, DeadCallback, BadWeakPtr, RemoveStreamingCall, Finalized,
       FinalizeOne, queueVars, grpcVars
<1>6. CASE StartThread \/ ShutdownClient \/ JoinThread \/ DestroyClient
           \/ ClientStopped \/ UNCHANGED clientVars
  BY <1>2, <1>6 DEF StartThread, StartPolling, ShutdownClient, Shutdown, JoinThread,
       Joined, DestroyClient, Destroyed, ClientStopped, clientVars, queueVars, grpcVars
<1> QED BY <1>2, <1>3, <1>4, <1>5, <1>6 DEF ClientNext

LEMMA ClientIInvInit == ClientInit => ClientIInv
<1> SUFFICES ASSUME ClientInit PROVE ClientIInv
  OBVIOUS
<1>1. QueueIInv BY QueueIInvInit DEF ClientInit
<1>2. ClientTypeOK
  BY <1>1, AsyncClientAssumption DEF ClientInit, ClientTypeOK, QueueIInv, CallStep
<1>3. /\ MadeIsBegun /\ RegisteredIsKept /\ SettledInOrder
      /\ NoneUnderWay /\ LateCallInCallback
  BY ActionQueueAssumption
     DEF ClientInit, QueueInit, MadeIsBegun, Begun, RegisteredIsKept, Returned,
         SettledInOrder, NoneUnderWay, LateCallInCallback
<1> QED BY <1>1, <1>2, <1>3 DEF ClientIInv

LEMMA ClientIInvStep == ClientIInv /\ [ClientNext]_clientVars => ClientIInv'
BY ClientQueueIInvStep, ClientTypeStep, MadeIsBegunStep, RegisteredIsKeptStep,
   SettledInOrderStep, NoneUnderWayStep, LateCallStep DEF ClientIInv

\* What a client in ClientIInv was destroyed with.
LEMMA ClientIInvAnswered == ClientIInv => DestroyedAnswered
<1> SUFFICES ASSUME ClientIInv, owner = "destroyed", NEW c \in Tag, step[c] # "none"
             PROVE  promise[c] # "none" /\ (c \in HasCallback => c \in called)
  BY DEF DestroyedAnswered
<1>1. pending = {} /\ events = {} /\ current = NoTag
  BY QueueIInvDrained, AsyncClientAssumption DEF ClientIInv, DestroyedWhenDrained
<1>2. c \in finalized
  BY <1>1, ActionQueueAssumption DEF ClientIInv, MadeIsBegun, Begun
<1> QED BY <1>2 DEF ClientIInv, SettledInOrder

\* Every client step passes from one of UnaryCalls' states to the next.
LEMMA UnaryCallsStep ==
  ClientIInv /\ [ClientNext]_clientVars => [Abstract!Next]_(Abstract!callVars)
<1> USE AsyncClientAssumption, ActionQueueAssumption
<1> SUFFICES ASSUME ClientIInv, [ClientNext]_clientVars
             PROVE  [Abstract!Next]_(Abstract!callVars)
  OBVIOUS
<1>0. /\ QueueTypeOK /\ OneHolder /\ ClientTypeOK /\ MadeIsBegun /\ SettledInOrder
  BY DEF QueueIInv, ClientIInv
<1>1. ASSUME UNCHANGED <<step, promise, called, finalizing, finalized, current>>
      PROVE  UNCHANGED Abstract!callVars
  BY <1>1 DEF Abstract!callVars, ForgottenCalls
<1>2. ASSUME NEW c \in Tag, Construct(c) \/ CallInCallback(c) PROVE Abstract!Issue(c)
  <2>1. /\ UNCHANGED <<promise, called, finalizing, finalized, current>>
        /\ step[c] = "none"
        /\ \E s \in {"constructing", "registered"} : step' = [step EXCEPT ![c] = s]
    BY <1>2 DEF Construct, CallInCallback, OnQueueThread, Goes, pollVars
  <2>2. {d \in Tag : step'[d] # "none"} = {d \in Tag : step[d] # "none"} \cup {c}
    BY <1>0, <2>1 DEF ClientTypeOK
  <2> QED BY <2>1, <2>2 DEF Abstract!Issue, ForgottenCalls
<1>3. ASSUME NEW c \in Tag, MakeShared(c) \/ AddStreamingCall(c) \/ Drop(c)
      PROVE  UNCHANGED Abstract!callVars
  <2>1. UNCHANGED <<promise, called, finalizing, finalized, current>>
    BY <1>3 DEF MakeShared, AddStreamingCall, Drop, queueVars, pollVars
  <2>2. {d \in Tag : step'[d] # "none"} = {d \in Tag : step[d] # "none"}
    BY <1>0, <1>3 DEF MakeShared, AddStreamingCall, Drop, Goes, ClientTypeOK
  <2> QED BY <2>1, <2>2 DEF Abstract!callVars, ForgottenCalls
<1>4. ASSUME NEW c \in Tag, RpcEnds(c) PROVE UNCHANGED Abstract!callVars
  BY <1>1, <1>4 DEF RpcEnds, Complete, pollVars
<1>5. CASE GotEvent /\ UNCHANGED callVars
  BY <1>0, <1>5 DEF GotEvent, callVars, ClientTypeOK, Abstract!callVars, ForgottenCalls
<1>6. CASE (SawShutdown \/ Store) /\ UNCHANGED callVars
  BY <1>1, <1>6 DEF SawShutdown, Store, callVars
<1>7. CASE Settle
  <2>1. /\ current \in Tag /\ finalizing = "begin" /\ finalizing' = "settled"
        /\ UNCHANGED <<current, finalized, called, step>>
    BY <1>0, <1>7 DEF Settle, OnQueueThread, queueVars, pollVars, QueueTypeOK
  <2>2. promise[current] = "none" BY <1>0, <2>1 DEF SettledInOrder, OneHolder
  <2>3. step[current] # "none" BY <1>0, <2>1 DEF MadeIsBegun, Begun
  <2>4. \E r \in {"value", "error"} : promise' = [promise EXCEPT ![current] = r]
    BY <1>7 DEF Settle, Settled
  <2>5. Abstract!Answer(current)
    BY <2>1, <2>2, <2>3, <2>4 DEF Abstract!Answer, ForgottenCalls
  <2> QED BY <2>1, <2>5 DEF Abstract!Next
<1>8. CASE RunResponseCallback
  <2>1. /\ current \in Tag /\ finalizing = "settled" /\ finalizing' = "called"
        /\ UNCHANGED <<current, finalized, promise, step>>
    BY <1>0, <1>8 DEF RunResponseCallback, OnQueueThread, queueVars, pollVars,
                      QueueTypeOK
  <2>2. current \notin called /\ promise[current] # "none"
    BY <1>0, <2>1 DEF SettledInOrder, OneHolder
  <2>3. CASE current \in HasCallback
    <3>1. Abstract!Notify(current)
      BY <1>8, <2>1, <2>2, <2>3 DEF RunResponseCallback, Called, Abstract!Notify,
                                    ForgottenCalls
    <3> QED BY <2>1, <3>1 DEF Abstract!Next
  <2>4. CASE current \notin HasCallback
    BY <1>8, <2>1, <2>4 DEF RunResponseCallback, Called, Abstract!callVars,
                            ForgottenCalls
  <2> QED BY <2>3, <2>4
<1>9. CASE DeadCallback
  BY <1>9 DEF DeadCallback, OnQueueThread, queueVars, pollVars, Abstract!callVars,
              ForgottenCalls
<1>10. CASE RemoveStreamingCall
  <2>1. /\ current \in Tag /\ finalizing = "dead" /\ finalizing' = "removed"
        /\ UNCHANGED <<current, finalized, promise, called, step>>
    BY <1>0, <1>10 DEF RemoveStreamingCall, OnQueueThread, queueVars, pollVars,
                       QueueTypeOK
  <2>2. /\ current \notin finalized /\ promise[current] # "none"
        /\ current \in HasCallback => current \in called
    BY <1>0, <2>1 DEF SettledInOrder, OneHolder
  <2>3. Abstract!Forget(current)
    BY <2>1, <2>2 DEF Abstract!Forget, ForgottenCalls
  <2> QED BY <2>1, <2>3 DEF Abstract!Next
<1>11. CASE BadWeakPtr
  BY <1>1, <1>11 DEF BadWeakPtr, queueVars, pollVars, callVars
<1>12. CASE Finalized
  BY <1>12 DEF Finalized, OnQueueThread, FinalizeOne, FinalizeResult, DeleteAction,
               Abstract!callVars, ForgottenCalls
<1>13. CASE StartThread \/ ShutdownClient \/ JoinThread \/ DestroyClient
  BY <1>1, <1>13 DEF StartThread, StartPolling, ShutdownClient, Shutdown, JoinThread,
                     Joined, DestroyClient, Destroyed, callVars, pollVars
<1>14. CASE ClientStopped \/ UNCHANGED clientVars
  BY <1>1, <1>14 DEF ClientStopped, clientVars, queueVars, pollVars, callVars
<1> QED
  BY <1>2, <1>3, <1>4, <1>5, <1>6, <1>7, <1>8, <1>9, <1>10, <1>11, <1>12, <1>13, <1>14
     DEF ClientNext, CallerNext, QueueThread, Polls, Abstract!Next

-----------------------------------------------------------------------------
(* The theorems.                                                           *)

\* The inductive invariant of the client holds in every reachable state.
THEOREM ClientInvariance == ClientSpec => []ClientIInv
BY ClientIInvInit, ClientIInvStep, PTL DEF ClientSpec

\* Every variable keeps its type.
THEOREM ClientTypeCorrect == ClientSpec => []ClientTypeOK
<1>1. ClientIInv => ClientTypeOK BY DEF ClientIInv
<1> QED BY ClientInvariance, <1>1, PTL

\* No call is freed while gRPC or finalizeFinished may touch it, even if the
\* application drops it at once and the rpc ends before call() returns.
THEOREM CallAliveHolds == ClientSpec => []CallAlive
<1>1. ClientIInv => CallAlive
  <2> SUFFICES ASSUME ClientIInv, NEW c \in Tag, InUse(c) PROVE CallHeld(c)
    BY DEF CallAlive
  <2>1. step[c] # "none"
    BY DEF ClientIInv, MadeIsBegun, Begun, InUse
  <2> QED BY <2>1 DEF ClientIInv, ClientTypeOK, RegisteredIsKept, Returned, CallStep, CallHeld
<1> QED BY ClientInvariance, <1>1, PTL

\* ~AsyncClient leaves no call unanswered behind.
THEOREM DestroyedAnsweredHolds == ClientSpec => []DestroyedAnswered
BY ClientInvariance, ClientIInvAnswered, PTL

\* Only a response callback's call() comes too late for the queue, and it leaves
\* every call that is in use with the client.
THEOREM LateCallHolds == ClientSpec => []LateCallInCallback
<1>1. ClientIInv => LateCallInCallback BY DEF ClientIInv
<1> QED BY ClientInvariance, <1>1, PTL

\* AsyncClient implements UnaryCalls: each call answered, notified and forgotten
\* once and in this order.
THEOREM ClientRefinement == ClientSpec => ImplementsUnaryCalls
<1>1. ClientInit => Abstract!Init
  BY DEF ClientInit, QueueInit, Abstract!Init, ForgottenCalls
<1> QED
  BY <1>1, ClientInvariance, UnaryCallsStep, PTL
     DEF ClientSpec, ImplementsUnaryCalls, Abstract!Spec
=============================================================================
