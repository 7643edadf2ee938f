------------------------- MODULE UnaryServerProofs -------------------------
(***************************************************************************)
(* What TLAPS proves of UnaryServer, for every set of handlers and Calls,  *)
(* whenever clients cancel their rpcs and the server is stopped.           *)
(***************************************************************************)
EXTENDS UnaryServer, ActionQueueProofs, FiniteSetTheorems

\* What the actions and their Calls are about.
tagVars ==
  <<pending, events, current, currentOk, finalized, finalizing, handlerOf, calls,
    responses, rpc>>

-----------------------------------------------------------------------------
(* What the steps do, in terms of the places an action can be in.          *)

LEMMA TagFacts ==
  \A c, d \in Call :
    /\ ServiceRequestAction(c) \in Tag /\ ServiceRequestAction(c) # NoTag
    /\ CallHandlingAction(c) \in Tag /\ CallHandlingAction(c) # NoTag
    /\ CallFinishAction(c) \in Tag /\ CallFinishAction(c) # NoTag
    /\ ServiceRequestAction(c) # CallHandlingAction(d)
    /\ ServiceRequestAction(c) # CallFinishAction(d)
    /\ CallHandlingAction(c) # CallFinishAction(d)
    /\ ServiceRequestAction(c) = ServiceRequestAction(d) => c = d
    /\ CallHandlingAction(c) = CallHandlingAction(d) => c = d
    /\ CallFinishAction(c) = CallFinishAction(d) => c = d
BY ActionQueueAssumption, UnaryServerAssumption
   DEF ServiceRequestAction, CallHandlingAction, CallFinishAction

LEMMA BegunIs ==
  \A a : /\ Begun(a) <=> a \in pending \cup Completed \cup finalized \cup {current}
         /\ Begun(a)' <=> a \in pending' \cup Completed' \cup finalized' \cup {current'}
BY DEF Begun, Completed

LEMMA CompleteEffect ==
  ASSUME NEW a, NEW ok, Complete({a}, ok)
  PROVE  /\ a \in pending /\ pending' = pending \ {a}
         /\ events' = events \cup {[tag |-> a, ok |-> ok]}
         /\ Completed' = Completed \cup {a}
         /\ UNCHANGED <<down, misused, polling, current, currentOk, status, nextStatus,
                        finalized, owner>>
<1>1. events' = events \cup {[tag |-> a, ok |-> ok]}
  BY DEF Complete
<1>2. Completed' = Completed \cup {a}
  <2>1. [tag |-> a, ok |-> ok].tag = a OBVIOUS
  <2> QED BY <1>1, <2>1 DEF Completed
<1> QED BY <1>1, <1>2 DEF Complete, pollVars

LEMMA GotEventEffect ==
  ASSUME QueueTypeOK, OneHolder, GotEvent
  PROVE  \E e \in events :
           /\ e.tag \in Tag /\ e.tag \in Completed
           /\ e.tag \notin pending \cup finalized
           /\ events' = events \ {e} /\ Completed' = Completed \ {e.tag}
           /\ current = NoTag /\ current' = e.tag /\ currentOk' = e.ok
           /\ polling = "next" /\ polling' = "finalize"
           /\ UNCHANGED <<pending, down, misused, finalized, owner>>
<1>1. PICK e \in events : events' = events \ {e} /\ current' = e.tag /\ currentOk' = e.ok
  BY DEF GotEvent
<1>2. Completed' = Completed \ {e.tag}
  BY <1>1 DEF Completed, OneHolder
<1>3. e.tag \in Tag /\ e.tag \in Completed /\ e.tag \notin pending \cup finalized
  BY DEF QueueTypeOK, OneHolder, Completed
<1> QED BY <1>1, <1>2, <1>3 DEF GotEvent, QueueTypeOK

LEMMA RequestEffect ==
  ASSUME NEW h, RequestRpc(h)
  PROVE  \E d \in Call :
           /\ handlerOf[d] = NoHandler
           /\ handlerOf' = [handlerOf EXCEPT ![d] = h]
           /\ calls' = calls \cup {d}
           /\ Begin({ServiceRequestAction(d)})
<1> DEFINE d == CHOOSE d \in Fresh : TRUE
<1>1. d \in Fresh BY DEF RequestRpc
<1>2. /\ handlerOf' = [handlerOf EXCEPT ![d] = h] /\ calls' = calls \cup {d}
      /\ Begin({ServiceRequestAction(d)})
  BY DEF RequestRpc
<1> HIDE DEF d
<1> QED BY <1>1, <1>2 DEF Fresh

\* The steps that no action on the queue and no Call takes part in.
Aside ==
  \/ \E h \in Handler : EmplaceCallHandler(h)
  \/ \E c \in Call : UseDeletedHandler(c)
  \/ Start \/ (Polls /\ (SawShutdown \/ Store))
  \/ ShutdownServer \/ StopNext \/ StopAgain \/ DestroyUnstarted \/ ServerStopped
  \/ UNCHANGED serverVars

LEMMA AsideStep == Aside => UNCHANGED tagVars
BY DEF Aside, EmplaceCallHandler, UseDeletedHandler, Start, StartPolling, Polls,
       SawShutdown, Store, ShutdownServer, StopNext, ServerDown, DeleteAllCallHandlers,
       ShutdownQueue, Shutdown, JoinThread, Joined, DestroyQueue, Destroyed, StopAgain,
       DestroyUnstarted, ServerStopped, serverVars, queueVars, grpcVars, pollVars, handlerVars, tagVars

LEMMA StepCases ==
  ASSUME [ServerNext]_serverVars
  PROVE  \/ Aside
         \/ Finalized
         \/ Polls /\ GotEvent
         \/ \E h \in Handler : NewCallHandler(h)
         \/ \E c \in Call : GrpcNext(c) \/ RpcCancelled(c) \/ FinalizeNext(c)
<1>1. CASE QueueThread
  BY <1>1 DEF QueueThread, Polls, Aside
<1> QED BY <1>1 DEF ServerNext, Aside

-----------------------------------------------------------------------------
(* The server's steps as steps of its queue.                               *)

\* An action is begun by the one before it, so that it has not been begun before.
LEMMA BeginsOnce ==
  ASSUME QueueIInv, ServerTypeOK, ActionsInOrder, OkIfMatched, NEW c \in Call,
         \/ \E h \in Handler : NewCallHandler(h)
         \/ FinalizeCallRequest(c) \/ OnNewStreamReaderReady(c)
         \/ SetAlarm(c) \/ FinalizeCallHandling(c)
  PROVE  \E a \in Tag : BeginOne(a)
<1> USE DEF Finalizing
<1>1. ASSUME NEW h, RequestRpc(h) PROVE \E a \in Tag : Begin({a}) /\ ~Begun(a)
  <2> PICK d \in Call : handlerOf[d] = NoHandler /\ Begin({ServiceRequestAction(d)})
    BY <1>1, RequestEffect
  <2> QED BY TagFacts DEF ActionsInOrder
<1>2. CASE \E h \in Handler : NewCallHandler(h)
  <2> PICK h \in Handler : NewCallHandler(h) BY <1>2
  <2>1. RequestRpc(h) /\ owner = "running" /\ UNCHANGED <<events, down, pollVars, owner>>
    BY DEF NewCallHandler, RegisterCallHandler, NewCallRequest, NewRequestStreamAction
  <2> QED BY <1>1, <2>1 DEF BeginOne
<1>3. CASE FinalizeCallRequest(c) \/ OnNewStreamReaderReady(c)
  <2>1. /\ RequestRpc(handlerOf[c]) /\ polling = "finalize"
        /\ UNCHANGED <<events, down, pollVars, owner>>
    BY <1>3 DEF FinalizeCallRequest, OnNewStreamReaderReady, NewCallRequest,
                NewRequestStreamAction
  <2> QED BY <1>1, <2>1 DEF BeginOne
<1>4. CASE SetAlarm(c)
  <2>1. current = ServiceRequestAction(c) /\ finalizing = "handled"
    BY <1>4 DEF SetAlarm
  <2>2. ~Begun(CallHandlingAction(c))
    BY <2>1 DEF ActionsInOrder, Live
  <2> QED BY <1>4, <2>2, TagFacts DEF SetAlarm, BeginOne
<1>5. CASE FinalizeCallHandling(c)
  <2>1. current = CallHandlingAction(c) /\ finalizing = "begin"
    BY <1>5 DEF FinalizeCallHandling
  <2>2. ~Begun(CallFinishAction(c))
    BY <2>1 DEF ActionsInOrder, Live
  <2> QED BY <1>5, <2>2, TagFacts DEF FinalizeCallHandling, BeginOne
<1> QED BY <1>2, <1>3, <1>4, <1>5

\* A server step is a step of the queue, or leaves the queue alone.
LEMMA ServerQueueStep ==
  ServerIInv /\ [ServerNext]_serverVars => [QueueNext]_queueVars
<1> SUFFICES ASSUME ServerIInv, [ServerNext]_serverVars PROVE [QueueNext]_queueVars
  OBVIOUS
<1>0. QueueIInv /\ ServerTypeOK /\ ActionsInOrder /\ OkIfMatched BY DEF ServerIInv
<1>1. CASE Aside
  BY <1>1 DEF Aside, EmplaceCallHandler, UseDeletedHandler, Start, Polls, ShutdownServer,
       StopNext, ServerDown, DeleteAllCallHandlers, ShutdownQueue, JoinThread,
       DestroyQueue, StopAgain, DestroyUnstarted, ServerStopped, serverVars, QueueNext,
       PollNext, OwnerNext
<1>2. CASE Finalized BY <1>2 DEF Finalized, QueueNext, PollNext
<1>3. CASE GotEvent BY <1>3 DEF QueueNext, PollNext
<1>4. CASE \E h \in Handler : NewCallHandler(h)
  <2>1. CASE Call = {}
    <3>1. \A h : ~RequestRpc(h) BY <2>1 DEF RequestRpc, Fresh
    <3> QED BY <1>4, <3>1 DEF NewCallHandler, NewCallRequest, NewRequestStreamAction
  <2>2. CASE Call # {} BY <1>0, <1>4, <2>2, BeginsOnce DEF QueueNext
  <2> QED BY <2>1, <2>2
<1>5. ASSUME NEW c \in Call, GrpcNext(c) PROVE QueueNext
  <2>1. PICK a \in Tag, ok \in BOOLEAN : Complete({a}, ok)
    BY <1>5, TagFacts DEF GrpcNext, Match, FailRequest, AlarmFires, RpcFinishes
  <2> QED BY <2>1 DEF QueueNext
<1>6. ASSUME NEW c \in Call, RpcCancelled(c) PROVE UNCHANGED queueVars
  BY <1>6 DEF RpcCancelled
<1>7. ASSUME NEW c \in Call, FinalizeNext(c) PROVE [QueueNext]_queueVars
  <2>1. CASE HandleFunc(c) \/ UseDeletedHandler(c) \/ RequestFailed(c)
             \/ RequestStreamFailed(c) \/ FinalizeCallFinish(c)
    BY <2>1 DEF HandleFunc, UseDeletedHandler, RequestFailed, RequestStreamFailed,
                FinalizeCallFinish
  <2>2. CASE FinalizeCallRequest(c) \/ OnNewStreamReaderReady(c) \/ SetAlarm(c)
             \/ FinalizeCallHandling(c)
    BY <1>0, <2>2, BeginsOnce DEF QueueNext
  <2> QED BY <1>7, <2>1, <2>2 DEF FinalizeNext
<1> QED BY <1>1, <1>2, <1>3, <1>4, <1>5, <1>6, <1>7, StepCases

LEMMA ServerQueueIInvStep == ServerIInv /\ [ServerNext]_serverVars => QueueIInv'
<1>1. QueueIInv /\ [QueueNext]_queueVars => QueueIInv'
  BY QueueTypeStep, OneHolderStep, ShutdownStep DEF QueueIInv
<1> QED BY <1>1, ServerQueueStep DEF ServerIInv

-----------------------------------------------------------------------------
(* The parts of the inductive invariant.                                   *)

LEMMA ServerTypeStep == ServerIInv /\ [ServerNext]_serverVars => ServerTypeOK'
<1> USE UnaryServerAssumption
<1> SUFFICES ASSUME ServerIInv, [ServerNext]_serverVars PROVE ServerTypeOK'
  OBVIOUS
<1>0. QueueTypeOK' /\ ServerTypeOK
  BY ServerQueueIInvStep DEF QueueIInv, ServerIInv
<1>1. CASE Aside
  BY <1>0, <1>1, AsideStep DEF Aside, EmplaceCallHandler, UseDeletedHandler, Start,
       StartPolling, Polls, SawShutdown, Store, ShutdownServer, StopNext, ServerDown,
       DeleteAllCallHandlers, ShutdownQueue, Shutdown, JoinThread, Joined, DestroyQueue,
       Destroyed, StopAgain, DestroyUnstarted, ServerStopped, serverVars, queueVars,
       pollVars, handlerVars, tagVars, ServerTypeOK
<1>2. CASE Finalized
  BY <1>0, <1>2 DEF Finalized, handlerVars, ServerTypeOK
<1>3. CASE Polls /\ GotEvent
  BY <1>0, <1>3 DEF Polls, GotEvent, handlerVars, ServerTypeOK
<1>4. ASSUME NEW h \in Handler, RequestRpc(h)
      PROVE  /\ handlerOf' \in [Call -> Handler \cup {NoHandler}]
             /\ calls' \subseteq {c \in Call : handlerOf'[c] # NoHandler}
  <2> PICK d \in Call : /\ handlerOf' = [handlerOf EXCEPT ![d] = h]
                        /\ calls' = calls \cup {d}
    BY <1>4, RequestEffect
  <2> QED BY <1>0 DEF ServerTypeOK
<1>5. ASSUME NEW h \in Handler, NewCallHandler(h) PROVE ServerTypeOK'
  BY <1>0, <1>4, <1>5 DEF NewCallHandler, NewCallRequest, NewRequestStreamAction, pollVars,
                          ServerTypeOK
<1>6. ASSUME NEW c \in Call, GrpcNext(c) \/ RpcCancelled(c) PROVE ServerTypeOK'
  BY <1>0, <1>6 DEF GrpcNext, Match, FailRequest, AlarmFires, RpcFinishes, RpcCancelled,
                    Complete, handlerVars, queueVars, pollVars, ServerTypeOK
<1>7. ASSUME NEW c \in Call, FinalizeNext(c) PROVE ServerTypeOK'
  <2>1. CASE FinalizeCallRequest(c) \/ OnNewStreamReaderReady(c)
    <3>1. RequestRpc(handlerOf[c]) /\ finalizing' \in {"requested", "done"}
      BY <2>1 DEF FinalizeCallRequest, OnNewStreamReaderReady, NewCallRequest,
                  NewRequestStreamAction, Finalizing
    <3>2. current = ServiceRequestAction(c)
      BY <2>1 DEF FinalizeCallRequest, OnNewStreamReaderReady, Finalizing
    <3>3. handlerOf[c] \in Handler
      BY <1>0, <3>2, BegunIs DEF ServerIInv, ActionsInOrder, ServerTypeOK
    <3> QED
      BY <1>0, <1>4, <2>1, <3>1, <3>3 DEF FinalizeCallRequest, OnNewStreamReaderReady,
           Finalizing, pollVars, ServerTypeOK
  <2>2. CASE SetAlarm(c) \/ UseDeletedHandler(c) \/ FinalizeCallHandling(c)
    BY <1>0, <2>2 DEF SetAlarm, UseDeletedHandler, FinalizeCallHandling,
         Finalizing, handlerVars, queueVars, pollVars, ServerTypeOK
  <2>3. CASE HandleFunc(c)
    <3>1. responses' \in [Call -> Nat] BY <1>0, <2>3 DEF HandleFunc, ServerTypeOK
    <3> QED
      BY <1>0, <2>3, <3>1 DEF HandleFunc, Finalizing, queueVars, pollVars, ServerTypeOK
  <2>4. CASE RequestFailed(c) \/ RequestStreamFailed(c) \/ FinalizeCallFinish(c)
    BY <1>0, <2>4 DEF RequestFailed, RequestStreamFailed, FinalizeCallFinish, DeleteCall,
         Finalizing, queueVars, pollVars, ServerTypeOK
  <2> QED BY <1>7, <2>1, <2>2, <2>3, <2>4 DEF FinalizeNext
<1> QED BY <1>1, <1>2, <1>3, <1>5, <1>6, <1>7, StepCases

-----------------------------------------------------------------------------
(* The steps, as they change the actions and the state of each Call.       *)

\* How far Call c is.
RequestBegun(c) == Begun(ServiceRequestAction(c))
HandlingBegun(c) == Begun(CallHandlingAction(c))
FinishBegun(c) == Begun(CallFinishAction(c))
RequestLive(c) == ServiceRequestAction(c) \in Live
HandlingLive(c) == CallHandlingAction(c) \in Live
FinishLive(c) == CallFinishAction(c) \in Live
AtRequest(c) == current = ServiceRequestAction(c)
AtHandling(c) == current = CallHandlingAction(c)
AtFinish(c) == current = CallFinishAction(c)
RequestPending(c) == ServiceRequestAction(c) \in pending
EventsOk(c) ==
  \A e \in events : e.tag = ServiceRequestAction(c) => (e.ok <=> rpc[c] # "none")

\* What the parts of the inductive invariant that are about the Calls say of Call c.
CallAt(c) ==
  /\ handlerOf[c] # NoHandler <=> RequestBegun(c)
  /\ HandlingBegun(c) => responses[c] = 1 /\ ~RequestLive(c)
  /\ FinishBegun(c) => HandlingBegun(c) /\ ~HandlingLive(c)
  /\ rpc[c] = "answered" => FinishBegun(c)
  /\ responses[c] # 0 =>
       /\ responses[c] = 1 /\ ~OfStream(c) /\ rpc[c] # "none"
       /\ RequestLive(c) => AtRequest(c) /\ finalizing = "handled"
  /\ AtRequest(c) /\ finalizing \in {"requested", "handled"} =>
       /\ rpc[c] # "none" /\ ~OfStream(c)
       /\ responses[c] = IF finalizing = "handled" THEN 1 ELSE 0
  /\ rpc[c] # "none" => RequestBegun(c) /\ ~RequestPending(c)
  /\ EventsOk(c)
  /\ AtRequest(c) => (currentOk <=> rpc[c] # "none")
  /\ c \in calls <=> KeptReader(c) \/ RequestLive(c) \/ HandlingLive(c) \/ FinishLive(c)

CallInv == ActionsInOrder /\ HandledInOrder /\ OkIfMatched /\ CallsAreUsed

\* The middle of a finalizeResult is that of a request.
InRequest == finalizing \in {"requested", "handled"} => \E c \in Call : AtRequest(c)

LEMMA CallInvIs ==
  responses \in [Call -> Nat] => (CallInv <=> InRequest /\ \A c \in Call : CallAt(c))
<1> SUFFICES ASSUME responses \in [Call -> Nat]
             PROVE  CallInv <=> InRequest /\ \A c \in Call : CallAt(c)
  OBVIOUS
<1> USE DEF RequestBegun, HandlingBegun, FinishBegun, RequestLive, HandlingLive, FinishLive,
            AtRequest, RequestPending, EventsOk
<1>1. ASSUME CallInv PROVE InRequest /\ \A c \in Call : CallAt(c)
  <2> USE <1>1 DEF CallInv
  <2>1. InRequest BY DEF HandledInOrder, InRequest
  <2>2. ASSUME NEW c \in Call PROVE CallAt(c)
    <3>1. AtRequest(c) /\ finalizing \in {"requested", "handled"} =>
            /\ rpc[c] # "none" /\ ~OfStream(c)
            /\ responses[c] = IF finalizing = "handled" THEN 1 ELSE 0
      BY TagFacts DEF HandledInOrder
    <3>2. /\ handlerOf[c] # NoHandler <=> RequestBegun(c)
          /\ HandlingBegun(c) => responses[c] = 1 /\ ~RequestLive(c)
          /\ FinishBegun(c) => HandlingBegun(c) /\ ~HandlingLive(c)
          /\ rpc[c] = "answered" => FinishBegun(c)
      BY DEF ActionsInOrder
    <3>3. responses[c] # 0 =>
            /\ responses[c] = 1 /\ ~OfStream(c) /\ rpc[c] # "none"
            /\ RequestLive(c) => AtRequest(c) /\ finalizing = "handled"
      BY DEF HandledInOrder
    <3>4. /\ rpc[c] # "none" => RequestBegun(c) /\ ~RequestPending(c)
          /\ EventsOk(c) /\ (AtRequest(c) => (currentOk <=> rpc[c] # "none"))
      BY DEF OkIfMatched, ActionsInOrder
    <3>5. c \in calls <=>
            KeptReader(c) \/ RequestLive(c) \/ HandlingLive(c) \/ FinishLive(c)
      BY DEF CallsAreUsed
    <3> QED BY <3>1, <3>2, <3>3, <3>4, <3>5 DEF CallAt
  <2> QED BY <2>1, <2>2
<1>2. ASSUME InRequest, \A c \in Call : CallAt(c) PROVE CallInv
  <2>1. ActionsInOrder BY <1>2 DEF CallAt, ActionsInOrder
  <2>2. HandledInOrder BY <1>2 DEF CallAt, InRequest, HandledInOrder
  <2>3. OkIfMatched BY <1>2 DEF CallAt, OkIfMatched
  <2>4. CallsAreUsed BY <1>2 DEF CallAt, CallsAreUsed
  <2> QED BY <2>1, <2>2, <2>3, <2>4 DEF CallInv
<1> QED BY <1>1, <1>2

LEMMA CallInvIsNext ==
  (responses \in [Call -> Nat])' => (CallInv' <=> InRequest' /\ (\A c \in Call : CallAt(c))')
BY CallInvIs, PTL

\* Where an action can be at once.
LEMMA PlacesOfCall ==
  ASSUME QueueTypeOK, OneHolder, NEW c \in Call
  PROVE  /\ RequestLive(c) => RequestBegun(c)
         /\ HandlingLive(c) => HandlingBegun(c)
         /\ FinishLive(c) => FinishBegun(c)
         /\ RequestPending(c) => RequestLive(c) /\ ~AtRequest(c)
         /\ AtRequest(c) => RequestBegun(c) /\ (RequestLive(c) <=> finalizing # "done")
         /\ AtHandling(c) => HandlingBegun(c) /\ (HandlingLive(c) <=> finalizing # "done")
         /\ AtFinish(c) => FinishBegun(c) /\ (FinishLive(c) <=> finalizing # "done")
         /\ \A d \in Call : /\ AtRequest(c) /\ AtRequest(d) => c = d
                            /\ AtHandling(c) => ~AtRequest(d)
                            /\ AtFinish(c) => ~AtRequest(d)
                            /\ AtFinish(c) => ~AtHandling(d)
                            /\ AtHandling(c) /\ AtHandling(d) => c = d
                            /\ AtFinish(c) /\ AtFinish(d) => c = d
<1> USE DEF RequestBegun, HandlingBegun, FinishBegun, RequestLive, HandlingLive, FinishLive,
            AtRequest, AtHandling, AtFinish, RequestPending
<1>1. \A a : a \in Live => Begun(a) BY BegunIs DEF Live
<1>2. \A a : a \in pending => a \in Live /\ a # current BY DEF Live, OneHolder
<1>3. \A a : a = current => Begun(a) BY BegunIs
<1>4. ASSUME NEW a, a = current, a # NoTag PROVE a \in Live <=> finalizing # "done"
  BY <1>4 DEF Live, OneHolder, Completed
<1>5. /\ ServiceRequestAction(c) # NoTag /\ CallHandlingAction(c) # NoTag
      /\ CallFinishAction(c) # NoTag
  BY TagFacts
<1>6. \A d \in Call : /\ AtRequest(c) /\ AtRequest(d) => c = d
                      /\ AtHandling(c) => ~AtRequest(d)
                      /\ AtFinish(c) => ~AtRequest(d)
                      /\ AtFinish(c) => ~AtHandling(d)
                      /\ AtHandling(c) /\ AtHandling(d) => c = d
                      /\ AtFinish(c) /\ AtFinish(d) => c = d
  BY TagFacts
<1> QED BY <1>1, <1>2, <1>3, <1>4, <1>5, <1>6

\* A step neither begins an action nor finishes with one.
SameActions(c) ==
  /\ RequestBegun(c)' <=> RequestBegun(c)
  /\ HandlingBegun(c)' <=> HandlingBegun(c)
  /\ FinishBegun(c)' <=> FinishBegun(c)
  /\ RequestLive(c)' <=> RequestLive(c)
  /\ HandlingLive(c)' <=> HandlingLive(c)
  /\ FinishLive(c)' <=> FinishLive(c)

LEMMA ActionsUnchanged ==
  ASSUME \A a \in Tag : (Begun(a)' <=> Begun(a)) /\ (a \in Live' <=> a \in Live)
  PROVE  \A c \in Call : SameActions(c)
BY TagFacts DEF SameActions, RequestBegun, HandlingBegun, FinishBegun, RequestLive,
     HandlingLive, FinishLive

\* A step leaves what the Calls are and which requests are completed.
SameCalls(c) ==
  /\ UNCHANGED <<handlerOf, calls, responses, rpc>>
  /\ OfStream(c)' <=> OfStream(c)
  /\ KeptReader(c)' <=> KeptReader(c)

LEMMA CallsUnchanged ==
  ASSUME UNCHANGED <<handlerOf, calls, responses, rpc>>
  PROVE  \A c : SameCalls(c)
BY DEF SameCalls, OfStream, KeptReader

LEMMA FinalizedStep ==
  ASSUME Finalized
  PROVE  /\ Running /\ polling = "finalize"
         /\ finalizing = "done" /\ finalizing' = "begin"
         /\ finalized' = finalized \cup {current} /\ current' = NoTag
         /\ UNCHANGED <<pending, events, Completed, currentOk, handlerOf, calls, responses,
                        rpc, server, handler, down, misused, owner>>
BY DEF Finalized, FinalizeOne, FinalizeResult, DeleteAction, grpcVars, handlerVars, Completed

LEMMA FinalizedKeeps ==
  ASSUME QueueTypeOK, OneHolder, ServerTypeOK, CallInv, Finalized
  PROVE  InRequest' /\ \A c \in Call : CallAt(c)'
<1> USE FinalizedStep
<1>1. InRequest' BY DEF InRequest
<1> SUFFICES ASSUME NEW c \in Call PROVE CallAt(c)'
  BY <1>1
<1>2. CallAt(c) BY CallInvIs DEF ServerTypeOK
<1>3. SameActions(c)
  <2>1. \A a \in Tag : a \in Live' <=> a \in Live
    BY ActionQueueAssumption DEF Live
  <2>2. \A a \in Tag : Begun(a)' <=> Begun(a)
    BY ActionQueueAssumption, BegunIs
  <2> QED BY <2>1, <2>2, ActionsUnchanged
<1>4. SameCalls(c) BY CallsUnchanged
<1>5. ~AtRequest(c)' /\ ~(RequestLive(c) /\ AtRequest(c))
  BY TagFacts, PlacesOfCall DEF AtRequest
<1>6. (RequestPending(c)' <=> RequestPending(c)) /\ (EventsOk(c)' <=> EventsOk(c))
  BY DEF RequestPending, EventsOk
<1>7. finalizing = "done" BY FinalizedStep
<1> HIDE FinalizedStep
<1> QED BY <1>2, <1>3, <1>4, <1>5, <1>6, <1>7 DEF CallAt, SameActions, SameCalls

LEMMA GotEventKeeps ==
  ASSUME QueueTypeOK, OneHolder, ServerTypeOK, CallInv, Polls, GotEvent
  PROVE  InRequest' /\ \A c \in Call : CallAt(c)'
<1>1. UNCHANGED <<handlerOf, calls, responses, rpc>> BY DEF Polls, handlerVars
<1> PICK e \in events :
      /\ e.tag \in Tag /\ e.tag \in Completed /\ events' = events \ {e}
      /\ Completed' = Completed \ {e.tag}
      /\ current = NoTag /\ current' = e.tag /\ currentOk' = e.ok
      /\ polling = "next" /\ UNCHANGED <<pending, finalized>>
  BY GotEventEffect
<1>2. finalizing = "begin" /\ finalizing' = "begin" BY DEF ServerTypeOK, Polls
<1>3. InRequest' BY <1>2 DEF InRequest
<1> SUFFICES ASSUME NEW c \in Call PROVE CallAt(c)'
  BY <1>3
<1>4. CallAt(c) BY CallInvIs DEF ServerTypeOK
<1>5. SameActions(c)
  <2>1. \A a \in Tag : a \in Live' <=> a \in Live
    BY <1>2, ActionQueueAssumption DEF Live
  <2>2. \A a \in Tag : Begun(a)' <=> Begun(a)
    BY ActionQueueAssumption, BegunIs
  <2> QED BY <2>1, <2>2, ActionsUnchanged
<1>6. SameCalls(c) BY <1>1, CallsUnchanged
<1>7. (RequestPending(c)' <=> RequestPending(c)) /\ (EventsOk(c) => EventsOk(c)')
  BY <1>1 DEF RequestPending, EventsOk
<1>8. AtRequest(c)' /\ EventsOk(c) => (currentOk' <=> rpc[c] # "none")
  BY DEF AtRequest, EventsOk
<1> QED BY <1>2, <1>4, <1>5, <1>6, <1>7, <1>8 DEF CallAt, SameActions, SameCalls

LEMMA RpcCancelledKeeps ==
  ASSUME ServerTypeOK, CallInv, NEW d \in Call, RpcCancelled(d)
  PROVE  InRequest' /\ \A c \in Call : CallAt(c)'
<1>1. /\ rpc' = [rpc EXCEPT ![d] = "cancelled"] /\ rpc[d] = "open"
      /\ UNCHANGED <<pending, events, current, currentOk, finalized, finalizing, handlerOf,
                     calls, responses>>
  BY DEF RpcCancelled, queueVars, grpcVars, pollVars, handlerVars
<1>2. UNCHANGED <<Completed, Live>> BY <1>1 DEF Completed, Live
<1>3. InRequest' BY <1>1, CallInvIs DEF InRequest, AtRequest, ServerTypeOK
<1> SUFFICES ASSUME NEW c \in Call PROVE CallAt(c)'
  BY <1>3
<1>4. CallAt(c) BY CallInvIs DEF ServerTypeOK
<1>5. SameActions(c) BY <1>1, <1>2, ActionsUnchanged, BegunIs
<1>6. /\ rpc'[c] # "none" <=> rpc[c] # "none"
      /\ rpc'[c] = "answered" <=> rpc[c] = "answered"
  BY <1>1 DEF ServerTypeOK
<1>7. /\ OfStream(c)' <=> OfStream(c)
      /\ KeptReader(c)' <=> KeptReader(c)
      /\ AtRequest(c)' <=> AtRequest(c)
      /\ RequestPending(c)' <=> RequestPending(c)
      /\ EventsOk(c)' <=> EventsOk(c)
  BY <1>1, <1>6 DEF OfStream, KeptReader, AtRequest, RequestPending, EventsOk
<1> QED BY <1>1, <1>4, <1>5, <1>6, <1>7 DEF CallAt, SameActions

\* gRPC completes an action.
LEMMA CompleteActions ==
  ASSUME OneHolder, NEW a, NEW ok, Complete({a}, ok), finalizing' = finalizing
  PROVE  \A c \in Call :
           /\ SameActions(c) /\ (AtRequest(c)' <=> AtRequest(c))
           /\ RequestPending(c)' <=> RequestPending(c) /\ a # ServiceRequestAction(c)
           /\ a # ServiceRequestAction(c) /\ (rpc'[c] # "none" <=> rpc[c] # "none") =>
                (EventsOk(c)' <=> EventsOk(c))
           /\ a = ServiceRequestAction(c) => (EventsOk(c)' <=> (ok <=> rpc'[c] # "none"))
           /\ a = ServiceRequestAction(c) => RequestPending(c)
           /\ a = CallFinishAction(c) => FinishBegun(c)
<1>1. /\ a \in pending /\ pending' = pending \ {a}
      /\ events' = events \cup {[tag |-> a, ok |-> ok]}
      /\ Completed' = Completed \cup {a}
      /\ UNCHANGED <<current, finalized>>
  BY CompleteEffect
<1>2. \A b \in Tag : (b \in Live' <=> b \in Live) /\ (Begun(b)' <=> Begun(b))
  BY <1>1, BegunIs DEF Live
<1>3. \A c \in Call : SameActions(c) BY <1>2, ActionsUnchanged
<1>4. \A c \in Call : /\ AtRequest(c)' <=> AtRequest(c)
                      /\ RequestPending(c)' <=> RequestPending(c) /\ a # ServiceRequestAction(c)
                      /\ a = ServiceRequestAction(c) => RequestPending(c)
                      /\ a = CallFinishAction(c) => FinishBegun(c)
  BY <1>1, BegunIs DEF AtRequest, RequestPending, FinishBegun
<1>5. ASSUME NEW c \in Call, a # ServiceRequestAction(c), rpc'[c] # "none" <=> rpc[c] # "none"
      PROVE  EventsOk(c)' <=> EventsOk(c)
  BY <1>1, <1>5 DEF EventsOk
<1>6. ASSUME NEW c \in Call, a = ServiceRequestAction(c)
      PROVE  EventsOk(c)' <=> (ok <=> rpc'[c] # "none")
  <2> DEFINE x == [tag |-> a, ok |-> ok]
  <2>1. \A e \in events : e.tag # a BY <1>1 DEF OneHolder
  <2>2. x.tag = a /\ x.ok = ok OBVIOUS
  <2>3. events' = events \cup {x} BY <1>1
  <2> HIDE DEF x
  <2>4. EventsOk(c)' <=> (x.ok <=> rpc'[c] # "none")
    BY <1>6, <2>1, <2>2, <2>3 DEF EventsOk
  <2> QED BY <2>2, <2>4
<1> QED BY <1>3, <1>4, <1>5, <1>6

\* What such a step may do to the rpcs: it starts that of Call d, or ends it.
LEMMA GrpcKeeps ==
  ASSUME QueueTypeOK, OneHolder, ServerTypeOK, CallInv, NEW d \in Call, GrpcNext(d)
  PROVE  InRequest' /\ \A c \in Call : CallAt(c)'
<1>1. PICK a, ok :
        /\ Complete({a}, ok)
        /\ \/ /\ a = ServiceRequestAction(d) /\ ok = TRUE
              /\ rpc' = [rpc EXCEPT ![d] = "open"]
           \/ a = ServiceRequestAction(d) /\ ok = FALSE /\ rpc' = rpc
           \/ a = CallHandlingAction(d) /\ rpc' = rpc
           \/ /\ a = CallFinishAction(d)
              /\ rpc' = [rpc EXCEPT ![d] = IF rpc[d] = "open" THEN "answered" ELSE rpc[d]]
  <2>1. CASE Match(d) BY <2>1 DEF Match
  <2>2. CASE FailRequest(d) BY <2>2 DEF FailRequest
  <2>3. CASE AlarmFires(d) BY <2>3 DEF AlarmFires
  <2>4. CASE RpcFinishes(d)
    <3>1. Complete({CallFinishAction(d)}, rpc[d] = "open") BY <2>4 DEF RpcFinishes
    <3>2. rpc' = [rpc EXCEPT ![d] = IF rpc[d] = "open" THEN "answered" ELSE rpc[d]]
      BY <2>4 DEF RpcFinishes
    <3> DEFINE o == rpc[d] = "open"
    <3>3. Complete({CallFinishAction(d)}, o) BY <3>1
    <3> HIDE DEF o
    <3> QED BY <3>2, <3>3
  <2> QED BY <2>1, <2>2, <2>3, <2>4 DEF GrpcNext
<1>2. UNCHANGED <<currentOk, current, finalizing, handlerOf, calls, responses>>
  BY DEF GrpcNext, Match, FailRequest, AlarmFires, RpcFinishes, Complete, pollVars, handlerVars
<1>3. InRequest' BY <1>2, CallInvIs DEF InRequest, AtRequest, ServerTypeOK
<1> SUFFICES ASSUME NEW c \in Call PROVE CallAt(c)'
  BY <1>3
<1>4. CallAt(c) BY CallInvIs DEF ServerTypeOK
<1>5. /\ SameActions(c) /\ (AtRequest(c)' <=> AtRequest(c))
      /\ RequestPending(c)' <=> RequestPending(c) /\ a # ServiceRequestAction(c)
      /\ a # ServiceRequestAction(c) /\ (rpc'[c] # "none" <=> rpc[c] # "none") =>
           (EventsOk(c)' <=> EventsOk(c))
      /\ a = ServiceRequestAction(c) => (EventsOk(c)' <=> (ok <=> rpc'[c] # "none"))
      /\ a = ServiceRequestAction(c) => RequestPending(c)
      /\ a = CallFinishAction(c) => FinishBegun(c)
  BY <1>1, <1>2, CompleteActions
<1>6. /\ OfStream(c)' <=> OfStream(c)
      /\ KeptReader(c) <=> OfStream(c) /\ rpc[c] # "none"
      /\ KeptReader(c)' <=> OfStream(c) /\ rpc'[c] # "none"
      /\ RequestPending(c) => RequestLive(c) /\ RequestBegun(c) /\ ~AtRequest(c)
  BY <1>2, PlacesOfCall DEF OfStream, KeptReader
<1>7. CASE a = ServiceRequestAction(c)
  <2>1. c = d BY <1>1, <1>7, TagFacts
  <2>2. (ok = TRUE /\ rpc'[c] = "open") \/ (ok = FALSE /\ rpc'[c] = rpc[c])
    BY <1>1, <1>7, <2>1, TagFacts DEF ServerTypeOK
  <2>3. rpc[c] = "none" /\ ~AtRequest(c) /\ responses[c] = 0 /\ c \in calls
    BY <1>4, <1>5, <1>6, <1>7 DEF CallAt
  <2>4. EventsOk(c)' /\ rpc'[c] # "answered" BY <1>5, <1>7, <2>2, <2>3
  <2>5. /\ SameActions(c) /\ RequestLive(c) /\ RequestBegun(c)
        /\ ~AtRequest(c)' /\ ~RequestPending(c)'
    BY <1>5, <1>6, <1>7, <2>3
  <2> QED BY <1>2, <1>4, <1>6, <2>3, <2>4, <2>5 DEF CallAt, SameActions
<1>8. CASE a # ServiceRequestAction(c)
  <2>1. /\ rpc'[c] # "none" <=> rpc[c] # "none"
        /\ rpc'[c] = "answered" => rpc[c] = "answered" \/ a = CallFinishAction(c)
    BY <1>1, <1>8 DEF ServerTypeOK
  <2> QED BY <1>2, <1>4, <1>5, <1>6, <1>8, <2>1 DEF CallAt, SameActions
<1> QED BY <1>7, <1>8

\* A request for the next rpc is made: by a new handler, or at the start of an rpc.
Requested(d, h) ==
  /\ handlerOf[d] = NoHandler /\ handlerOf' = [handlerOf EXCEPT ![d] = h]
  /\ calls' = calls \cup {d}
  /\ pending' = pending \cup {ServiceRequestAction(d)}
  /\ UNCHANGED <<events, Completed, finalized, current, currentOk, responses, rpc, server,
                 down, owner>>

NewHandler(h) ==
  /\ handler[h] = "none" /\ handler' = [handler EXCEPT ![h] = "made"]
  /\ finalizing' = finalizing /\ ~misused'

NextRequest(c, h) ==
  /\ handler' = handler /\ h = handlerOf[c] /\ misused' = (misused \/ down)
  /\ AtRequest(c) /\ currentOk /\ finalizing = "begin"
  /\ finalizing' = IF OfStream(c) THEN "done" ELSE "requested"

RequestStarts ==
  \/ \E h \in Handler : NewCallHandler(h)
  \/ \E c \in Call : FinalizeCallRequest(c) \/ OnNewStreamReaderReady(c)

LEMMA RequestStartsStep ==
  ASSUME QueueIInv, ServerTypeOK, CallInv, RequestStarts
  PROVE  /\ Running
         /\ \E d \in Call, h \in Handler :
              /\ Requested(d, h)
              /\ NewHandler(h) \/ \E c \in Call : NextRequest(c, h)
<1>1. ASSUME NEW h \in Handler, NewCallHandler(h)
      PROVE  Running /\ NewHandler(h) /\ \E d \in Call : Requested(d, h)
  <2>1. /\ RequestRpc(h) /\ Running /\ owner = "running"
        /\ handler[h] = "none" /\ handler' = [handler EXCEPT ![h] = "made"]
        /\ UNCHANGED <<events, finalized, current, currentOk, finalizing, responses, rpc,
                       server, down, owner>>
    BY <1>1 DEF NewCallHandler, RegisterCallHandler, NewCallRequest, NewRequestStreamAction,
                pollVars
  <2>2. ~down /\ ~misused BY <2>1 DEF QueueIInv, OwnerInv, Running
  <2>3. PICK d \in Call : /\ handlerOf[d] = NoHandler
                          /\ handlerOf' = [handlerOf EXCEPT ![d] = h]
                          /\ calls' = calls \cup {d}
                          /\ Begin({ServiceRequestAction(d)})
    BY <2>1, RequestEffect
  <2>4. Completed' = Completed BY <2>1 DEF Completed
  <2>5. Requested(d, h) BY <2>1, <2>3, <2>4 DEF Requested, Begin
  <2> QED BY <2>1, <2>2, <2>3, <2>5 DEF NewHandler, Begin
<1>2. ASSUME NEW c \in Call, FinalizeCallRequest(c) \/ OnNewStreamReaderReady(c)
      PROVE  /\ Running /\ handlerOf[c] \in Handler /\ NextRequest(c, handlerOf[c])
             /\ \E d \in Call : Requested(d, handlerOf[c])
  <2>1. /\ RequestRpc(handlerOf[c]) /\ Running
        /\ AtRequest(c) /\ currentOk /\ finalizing = "begin"
        /\ finalizing' = IF OfStream(c) THEN "done" ELSE "requested"
        /\ UNCHANGED <<events, finalized, current, currentOk, responses, rpc, server,
                       handler, down, owner>>
    BY <1>2 DEF FinalizeCallRequest, OnNewStreamReaderReady, NewCallRequest,
         NewRequestStreamAction, Finalizing, OfStream, pollVars, AtRequest
  <2>2. handlerOf[c] \in Handler
    BY <2>1, PlacesOfCall, CallInvIs DEF ServerTypeOK, QueueIInv, CallAt
  <2>3. PICK d \in Call : /\ handlerOf[d] = NoHandler
                          /\ handlerOf' = [handlerOf EXCEPT ![d] = handlerOf[c]]
                          /\ calls' = calls \cup {d}
                          /\ Begin({ServiceRequestAction(d)})
    BY <2>1, RequestEffect
  <2>4. Completed' = Completed BY <2>1 DEF Completed
  <2>5. Requested(d, handlerOf[c]) BY <2>1, <2>3, <2>4 DEF Requested, Begin
  <2> QED BY <2>1, <2>2, <2>3, <2>5 DEF NextRequest, Begin
<1> QED BY <1>1, <1>2 DEF RequestStarts

\* The action b is begun, perhaps at the end of another one.
LEMMA BeginActions ==
  ASSUME NEW b, pending' = pending \cup {b}, UNCHANGED <<Completed, current, finalized>>
  PROVE  \A a \in Tag :
           /\ Begun(a)' <=> Begun(a) \/ a = b
           /\ a \in Live' <=> \/ a = b \/ a \in pending \cup Completed
                              \/ a = current /\ finalizing' # "done"
BY BegunIs DEF Live

LEMMA RequestKeeps ==
  ASSUME QueueIInv, ServerTypeOK, CallInv, RequestStarts
  PROVE  InRequest' /\ \A c \in Call : CallAt(c)'
<1>0. QueueTypeOK /\ OneHolder BY DEF QueueIInv
<1> PICK d \in Call, h \in Handler :
      /\ Requested(d, h)
      /\ NewHandler(h) \/ \E c \in Call : NextRequest(c, h)
  BY RequestStartsStep
<1>1. UNCHANGED <<events, current, currentOk, responses, rpc>> BY DEF Requested
<1>2. InRequest' BY <1>1, CallInvIs DEF InRequest, AtRequest, NewHandler, NextRequest, ServerTypeOK
<1> SUFFICES ASSUME NEW c \in Call PROVE CallAt(c)'
  BY <1>2
<1>3. CallAt(c) BY CallInvIs DEF ServerTypeOK
<1>4. /\ RequestBegun(c)' <=> RequestBegun(c) \/ c = d
      /\ HandlingBegun(c)' <=> HandlingBegun(c)
      /\ FinishBegun(c)' <=> FinishBegun(c)
      /\ RequestLive(c)' <=>
           c = d \/ (RequestLive(c) /\ ~(AtRequest(c) /\ finalizing' = "done"))
      /\ HandlingLive(c)' <=> HandlingLive(c)
      /\ FinishLive(c)' <=> FinishLive(c)
  <2>1. /\ pending' = pending \cup {ServiceRequestAction(d)}
        /\ UNCHANGED <<Completed, current, finalized>>
    BY DEF Requested
  <2>2. \A a \in Tag :
          /\ Begun(a)' <=> Begun(a) \/ a = ServiceRequestAction(d)
          /\ a \in Live' <=> \/ a = ServiceRequestAction(d) \/ a \in pending \cup Completed
                             \/ a = current /\ finalizing' # "done"
    BY <2>1, BeginActions
  <2>3. \A a : a \in Live <=>
          a \in pending \cup Completed \/ (a = current /\ finalizing # "done")
    BY DEF Live
  <2>4. AtRequest(c) => ServiceRequestAction(c) \notin pending \cup Completed
    BY <1>0 DEF AtRequest, OneHolder, Completed
  <2>5. \/ finalizing' = finalizing
        \/ finalizing # "done" /\ ~AtHandling(c) /\ ~AtFinish(c)
    BY <1>0, PlacesOfCall DEF NewHandler, NextRequest
  <2> QED
    BY <2>2, <2>3, <2>4, <2>5, TagFacts DEF RequestBegun, HandlingBegun, FinishBegun,
       RequestLive, HandlingLive, FinishLive, AtRequest, AtHandling, AtFinish
<1>5. /\ AtRequest(c)' <=> AtRequest(c)
      /\ RequestPending(c)' <=> RequestPending(c) \/ c = d
      /\ EventsOk(c)' <=> EventsOk(c)
      /\ c \in calls' <=> c \in calls \/ c = d
      /\ handlerOf'[c] # NoHandler <=> handlerOf[c] # NoHandler \/ c = d
      /\ c # d => handlerOf'[c] = handlerOf[c]
  BY <1>1, TagFacts, UnaryServerAssumption
     DEF AtRequest, RequestPending, EventsOk, Requested, ServerTypeOK
<1>6. /\ KeptReader(c) <=> OfStream(c) /\ rpc[c] # "none"
      /\ KeptReader(c)' <=> OfStream(c)' /\ rpc[c] # "none"
      /\ c # d => (OfStream(c)' <=> OfStream(c))
  BY <1>1, <1>5 DEF KeptReader, OfStream
<1>7. \/ finalizing' = finalizing
      \/ /\ finalizing = "begin" /\ currentOk
         /\ AtRequest(c) => finalizing' = IF OfStream(c) THEN "done" ELSE "requested"
  BY <1>0, PlacesOfCall DEF NewHandler, NextRequest
<1>8. /\ RequestLive(c) => RequestBegun(c)
      /\ HandlingLive(c) => HandlingBegun(c)
      /\ FinishLive(c) => FinishBegun(c)
      /\ AtRequest(c) => RequestBegun(c)
      /\ RequestPending(c) => RequestBegun(c)
      /\ AtRequest(c) => (RequestLive(c) <=> finalizing # "done")
  BY <1>0, PlacesOfCall
<1>9. CASE c = d
  <2>1. ~RequestBegun(c) /\ rpc[c] = "none" /\ responses[c] = 0
    BY <1>3, <1>9 DEF CallAt, Requested
  <2> QED BY <1>1, <1>3, <1>4, <1>5, <1>6, <1>8, <1>9, <2>1 DEF CallAt
<1>10. CASE c # d
  BY <1>1, <1>3, <1>4, <1>5, <1>6, <1>7, <1>8, <1>10 DEF CallAt
<1> QED BY <1>9, <1>10

\* The queue thread goes on in finalizeResult of the current action.
LEMMA HandleFuncKeeps ==
  ASSUME QueueTypeOK, OneHolder, ServerTypeOK, CallInv, NEW d \in Call, HandleFunc(d)
  PROVE  InRequest' /\ \A c \in Call : CallAt(c)'
<1>1. /\ AtRequest(d) /\ finalizing = "requested" /\ finalizing' = "handled"
      /\ responses' = [responses EXCEPT ![d] = @ + 1]
      /\ UNCHANGED <<pending, events, current, currentOk, finalized, handlerOf, calls, rpc>>
  BY DEF HandleFunc, Finalizing, AtRequest, queueVars, grpcVars, pollVars
<1>2. UNCHANGED <<Completed, Live>> BY <1>1 DEF Completed, Live
<1>3. InRequest' BY <1>1 DEF InRequest, AtRequest
<1> SUFFICES ASSUME NEW c \in Call PROVE CallAt(c)'
  BY <1>3
<1>4. CallAt(c) BY CallInvIs DEF ServerTypeOK
<1>5. SameActions(c) BY <1>1, <1>2, ActionsUnchanged, BegunIs
<1>6. /\ OfStream(c)' <=> OfStream(c)
      /\ KeptReader(c)' <=> KeptReader(c)
      /\ AtRequest(c)' <=> AtRequest(c)
      /\ RequestPending(c)' <=> RequestPending(c)
      /\ EventsOk(c)' <=> EventsOk(c)
      /\ AtRequest(c) <=> c = d
      /\ responses'[c] = IF c = d THEN responses[c] + 1 ELSE responses[c]
  BY <1>1, PlacesOfCall DEF OfStream, KeptReader, AtRequest, RequestPending, EventsOk,
                             ServerTypeOK
<1> QED BY <1>1, <1>4, <1>5, <1>6 DEF CallAt, SameActions

\* It begins the next action of the Call and is done.
LEMMA SetAlarmKeeps ==
  ASSUME QueueTypeOK, OneHolder, ServerTypeOK, CallInv, NEW d \in Call, SetAlarm(d)
  PROVE  InRequest' /\ \A c \in Call : CallAt(c)'
<1>1. /\ AtRequest(d) /\ finalizing = "handled" /\ finalizing' = "done"
      /\ pending' = pending \cup {CallHandlingAction(d)}
      /\ UNCHANGED <<events, current, currentOk, finalized, handlerOf, calls, responses, rpc>>
  BY DEF SetAlarm, Begin, Finalizing, AtRequest, pollVars, handlerVars
<1>2. Completed' = Completed BY <1>1 DEF Completed
<1>3. InRequest' BY <1>1 DEF InRequest
<1> SUFFICES ASSUME NEW c \in Call PROVE CallAt(c)'
  BY <1>3
<1>4. CallAt(c) BY CallInvIs DEF ServerTypeOK
<1>5. /\ RequestBegun(c)' <=> RequestBegun(c)
      /\ HandlingBegun(c)' <=> HandlingBegun(c) \/ c = d
      /\ FinishBegun(c)' <=> FinishBegun(c)
      /\ RequestLive(c)' <=> RequestLive(c) /\ c # d
      /\ HandlingLive(c)' <=> HandlingLive(c) \/ c = d
      /\ FinishLive(c)' <=> FinishLive(c)
  <2>1. \A a \in Tag :
          /\ Begun(a)' <=> Begun(a) \/ a = CallHandlingAction(d)
          /\ a \in Live' <=> \/ a = CallHandlingAction(d) \/ a \in pending \cup Completed
                             \/ a = current /\ finalizing' # "done"
    BY <1>1, <1>2, BeginActions
  <2>2. \A a \in Tag : a \in Live <=> a \in pending \cup Completed \/ a = current
    BY <1>1 DEF Live
  <2>3. current = ServiceRequestAction(d) /\ current \notin pending \cup Completed
    BY <1>1, TagFacts DEF AtRequest, OneHolder, Completed
  <2> QED
    BY <1>1, <2>1, <2>2, <2>3, TagFacts DEF RequestBegun, HandlingBegun, FinishBegun,
       RequestLive, HandlingLive, FinishLive
<1>6. /\ OfStream(c)' <=> OfStream(c)
      /\ KeptReader(c)' <=> KeptReader(c)
      /\ AtRequest(c)' <=> AtRequest(c)
      /\ RequestPending(c)' <=> RequestPending(c)
      /\ EventsOk(c)' <=> EventsOk(c)
      /\ AtRequest(c) <=> c = d
      /\ AtRequest(c) => RequestLive(c)
      /\ FinishLive(c) => FinishBegun(c)
  BY <1>1, PlacesOfCall, TagFacts
     DEF OfStream, KeptReader, AtRequest, RequestPending, EventsOk
<1> QED BY <1>1, <1>4, <1>5, <1>6 DEF CallAt

LEMMA FinalizeCallHandlingKeeps ==
  ASSUME QueueTypeOK, OneHolder, ServerTypeOK, CallInv, NEW d \in Call,
         FinalizeCallHandling(d)
  PROVE  InRequest' /\ \A c \in Call : CallAt(c)'
<1>1. /\ AtHandling(d) /\ finalizing = "begin" /\ finalizing' = "done"
      /\ pending' = pending \cup {CallFinishAction(d)}
      /\ UNCHANGED <<events, current, currentOk, finalized, handlerOf, calls, responses, rpc>>
  BY DEF FinalizeCallHandling, Begin, Finalizing, AtHandling, pollVars, handlerVars
<1>2. Completed' = Completed BY <1>1 DEF Completed
<1>3. InRequest' BY <1>1 DEF InRequest
<1> SUFFICES ASSUME NEW c \in Call PROVE CallAt(c)'
  BY <1>3
<1>4. CallAt(c) BY CallInvIs DEF ServerTypeOK
<1>5. /\ RequestBegun(c)' <=> RequestBegun(c)
      /\ HandlingBegun(c)' <=> HandlingBegun(c)
      /\ FinishBegun(c)' <=> FinishBegun(c) \/ c = d
      /\ RequestLive(c)' <=> RequestLive(c)
      /\ HandlingLive(c)' <=> HandlingLive(c) /\ c # d
      /\ FinishLive(c)' <=> FinishLive(c) \/ c = d
  <2>1. \A a \in Tag :
          /\ Begun(a)' <=> Begun(a) \/ a = CallFinishAction(d)
          /\ a \in Live' <=> \/ a = CallFinishAction(d) \/ a \in pending \cup Completed
                             \/ a = current /\ finalizing' # "done"
    BY <1>1, <1>2, BeginActions
  <2>2. \A a \in Tag : a \in Live <=> a \in pending \cup Completed \/ a = current
    BY <1>1 DEF Live
  <2>3. current = CallHandlingAction(d) /\ current \notin pending \cup Completed
    BY <1>1, TagFacts DEF AtHandling, OneHolder, Completed
  <2> QED
    BY <1>1, <2>1, <2>2, <2>3, TagFacts DEF RequestBegun, HandlingBegun, FinishBegun,
       RequestLive, HandlingLive, FinishLive
<1>6. /\ OfStream(c)' <=> OfStream(c)
      /\ KeptReader(c)' <=> KeptReader(c)
      /\ ~AtRequest(c)' /\ ~AtRequest(c)
      /\ RequestPending(c)' <=> RequestPending(c)
      /\ EventsOk(c)' <=> EventsOk(c)
      /\ c = d => HandlingBegun(c) /\ HandlingLive(c)
  BY <1>1, PlacesOfCall, TagFacts
     DEF OfStream, KeptReader, AtRequest, RequestPending, EventsOk
<1> QED BY <1>1, <1>4, <1>5, <1>6 DEF CallAt

\* It deletes the Call and is done.
Deletes(c) == RequestFailed(c) \/ RequestStreamFailed(c) \/ FinalizeCallFinish(c)

LEMMA DeleteKeeps ==
  ASSUME QueueTypeOK, OneHolder, ServerTypeOK, CallInv, NEW d \in Call, Deletes(d)
  PROVE  InRequest' /\ \A c \in Call : CallAt(c)'
<1>1. /\ (AtRequest(d) /\ ~currentOk) \/ AtFinish(d)
      /\ finalizing = "begin" /\ finalizing' = "done"
      /\ calls' = calls \ {d}
      /\ UNCHANGED <<pending, events, current, currentOk, finalized, handlerOf, responses, rpc>>
  BY DEF Deletes, RequestFailed, RequestStreamFailed, FinalizeCallFinish, DeleteCall,
         Finalizing, AtRequest, AtFinish, queueVars, grpcVars, pollVars
<1>2. InRequest' BY <1>1 DEF InRequest
<1> SUFFICES ASSUME NEW c \in Call PROVE CallAt(c)'
  BY <1>2
<1>3. CallAt(c) BY CallInvIs DEF ServerTypeOK
<1>4. /\ RequestBegun(c)' <=> RequestBegun(c)
      /\ HandlingBegun(c)' <=> HandlingBegun(c)
      /\ FinishBegun(c)' <=> FinishBegun(c)
      /\ RequestLive(c)' <=> RequestLive(c) /\ ~AtRequest(c)
      /\ HandlingLive(c)' <=> HandlingLive(c)
      /\ FinishLive(c)' <=> FinishLive(c) /\ ~AtFinish(c)
  <2>1. Completed' = Completed BY <1>1 DEF Completed
  <2>2. \A a \in Tag : a \in Live' <=> a \in Live /\ a # current
    BY <1>1, <2>1 DEF Live, OneHolder, Completed
  <2>3. \A a \in Tag : Begun(a)' <=> Begun(a) BY <1>1, <2>1, BegunIs
  <2>4. ~AtHandling(c) BY <1>1, PlacesOfCall
  <2> QED
    BY <2>2, <2>3, <2>4, TagFacts DEF RequestBegun, HandlingBegun, FinishBegun,
       RequestLive, HandlingLive, FinishLive, AtRequest, AtHandling, AtFinish
<1>5. /\ OfStream(c)' <=> OfStream(c)
      /\ KeptReader(c)' <=> KeptReader(c)
      /\ KeptReader(c) <=> OfStream(c) /\ rpc[c] # "none"
      /\ AtRequest(c)' <=> AtRequest(c)
      /\ RequestPending(c)' <=> RequestPending(c)
      /\ EventsOk(c)' <=> EventsOk(c)
      /\ AtRequest(c) => c = d /\ RequestLive(c)
      /\ AtFinish(c) => c = d /\ FinishBegun(c)
      /\ c = d => AtFinish(c) \/ (AtRequest(c) /\ ~currentOk)
      /\ FinishLive(c) => FinishBegun(c)
      /\ HandlingLive(c) => HandlingBegun(c)
  BY <1>1, PlacesOfCall DEF OfStream, KeptReader, AtRequest, RequestPending, EventsOk
<1> QED BY <1>1, <1>3, <1>4, <1>5 DEF CallAt

\* The other steps leave all of this alone.
LEMMA AsideKeeps ==
  ASSUME UNCHANGED tagVars, CallInv
  PROVE  CallInv'
<1> USE DEF CallInv
<1>1. UNCHANGED <<Completed, Live>> BY DEF tagVars, Completed, Live
<1>2. \A c : OfStream(c)' = OfStream(c) /\ KeptReader(c)' = KeptReader(c)
  BY DEF tagVars, OfStream, KeptReader
<1>3. ActionsInOrder' BY <1>1, BegunIs DEF tagVars, ActionsInOrder
<1>4. HandledInOrder' BY <1>1, <1>2 DEF tagVars, HandledInOrder
<1>5. OkIfMatched' BY DEF tagVars, OkIfMatched
<1>6. CallsAreUsed' BY <1>1, <1>2 DEF tagVars, CallsAreUsed
<1> QED BY <1>3, <1>4, <1>5, <1>6

\* Each step is one of those above.
LEMMA CallCases ==
  ASSUME [ServerNext]_serverVars
  PROVE  \/ Aside
         \/ Finalized
         \/ Polls /\ GotEvent
         \/ RequestStarts
         \/ \E c \in Call : \/ GrpcNext(c) \/ RpcCancelled(c)
                          \/ HandleFunc(c) \/ SetAlarm(c) \/ FinalizeCallHandling(c)
                          \/ Deletes(c)
BY StepCases DEF Aside, FinalizeNext, RequestStarts, Deletes

LEMMA CallInvStep == ServerIInv /\ [ServerNext]_serverVars => CallInv'
<1> SUFFICES ASSUME ServerIInv, [ServerNext]_serverVars PROVE CallInv'
  OBVIOUS
<1>1. QueueIInv /\ QueueTypeOK /\ OneHolder /\ ServerTypeOK /\ CallInv
  BY DEF ServerIInv, QueueIInv, CallInv
<1>2. CASE Aside BY <1>1, <1>2, AsideStep, AsideKeeps
<1>3. CASE ~Aside
  <2>1. InRequest' /\ \A c \in Call : CallAt(c)'
    BY <1>1, <1>3, CallCases, FinalizedKeeps, GotEventKeeps, RequestKeeps, GrpcKeeps,
       RpcCancelledKeeps, HandleFuncKeeps, SetAlarmKeeps, FinalizeCallHandlingKeeps,
       DeleteKeeps
  <2>2. (responses \in [Call -> Nat])' BY ServerTypeStep DEF ServerTypeOK
  <2> QED BY <2>1, <2>2, CallInvIsNext
<1> QED BY <1>2, <1>3

\* Server::Shutdown returns when no rpc is open, and what comes after it stays after it.
LEMMA DownInOrderStep == ServerIInv /\ [ServerNext]_serverVars => DownInOrder'
<1> SUFFICES ASSUME ServerIInv, [ServerNext]_serverVars PROVE DownInOrder'
  OBVIOUS
<1> USE DEF DownInOrder
<1>0. /\ ServerTypeOK /\ QueueTypeOK /\ OwnerInv /\ DownInOrder
  BY DEF ServerIInv, QueueIInv
<1>1. ASSUME UNCHANGED <<down, server, owner>>,
             \A h \in Handler : handler'[h] = "deleted" => handler[h] = "deleted",
             server \in {"down", "null"} => \A c \in Call : rpc'[c] = "open" => rpc[c] = "open"
      PROVE  DownInOrder'
  BY <1>0, <1>1
<1>2. CASE Aside
  <2> USE DEF handlerVars, queueVars, grpcVars, pollVars
  <2>1. rpc' = rpc BY <1>2, AsideStep DEF tagVars
  <2>2. CASE \E h \in Handler : EmplaceCallHandler(h)
    BY <1>0, <1>1, <2>1, <2>2 DEF EmplaceCallHandler, ServerTypeOK
  <2>3. CASE \/ \E c \in Call : UseDeletedHandler(c)
             \/ Start \/ (Polls /\ (SawShutdown \/ Store)) \/ StopAgain
             \/ ServerStopped \/ UNCHANGED serverVars
    BY <1>1, <2>1, <2>3 DEF UseDeletedHandler, Start, StartPolling, Polls, SawShutdown, Store,
         StopAgain, ServerStopped, serverVars
  <2>8. CASE JoinThread
    BY <1>0, <2>1, <2>8 DEF JoinThread, Joined
  <2>4. CASE ShutdownServer \/ DestroyUnstarted
    BY <1>0, <2>1, <2>4 DEF ShutdownServer, DestroyUnstarted
  <2>5. CASE ServerDown
    BY <1>0, <2>1, <2>5 DEF ServerDown, RpcsOver
  <2>6. CASE DeleteAllCallHandlers \/ ShutdownQueue
    BY <1>0, <2>1, <2>6 DEF DeleteAllCallHandlers, ShutdownQueue, Shutdown, ShutsQueuesFrom
  <2>7. CASE DestroyQueue
    <3>1. /\ owner = "destroying" /\ owner' = "destroyed" /\ server' = "null"
          /\ UNCHANGED <<down, handler>>
      BY <2>7 DEF DestroyQueue, Destroyed
    <3>2. down BY <1>0, <3>1, UnaryServerAssumption, OwnerOfThread
    <3> QED BY <1>0, <2>1, <3>1, <3>2
  <2> QED BY <1>2, <2>2, <2>3, <2>4, <2>5, <2>6, <2>7, <2>8 DEF Aside, StopNext
<1>3. CASE Finalized BY <1>1, <1>3, FinalizedStep
<1>4. CASE Polls /\ GotEvent
  BY <1>1, <1>4 DEF Polls, GotEvent, handlerVars
<1>5. CASE RequestStarts
  <2>1. ServerTypeOK /\ QueueIInv /\ CallInv BY DEF ServerIInv, CallInv
  <2>2. UNCHANGED <<down, server, rpc, owner>>
    BY <1>5, <2>1, RequestStartsStep DEF Requested
  <2>3. \A h \in Handler : handler'[h] = "deleted" => handler[h] = "deleted"
    BY <1>0, <1>5, <2>1, RequestStartsStep DEF NewHandler, NextRequest, ServerTypeOK
  <2> QED BY <1>1, <2>2, <2>3
<1>6. ASSUME NEW c \in Call, GrpcNext(c) PROVE DownInOrder'
  <2>1. UNCHANGED <<down, server, handler, owner>>
    BY <1>6 DEF GrpcNext, Match, FailRequest, AlarmFires, RpcFinishes, Complete, handlerVars
  <2>2. server \in {"down", "null"} => \A d \in Call : rpc'[d] = "open" => rpc[d] = "open"
    BY <1>0, <1>6 DEF GrpcNext, Match, FailRequest, AlarmFires, RpcFinishes, ServerTypeOK
  <2> QED BY <1>1, <2>1, <2>2
<1>7. ASSUME NEW c \in Call, RpcCancelled(c) PROVE DownInOrder'
  BY <1>0, <1>1, <1>7 DEF RpcCancelled, queueVars, grpcVars, handlerVars, ServerTypeOK
<1>8. ASSUME NEW c \in Call,
             HandleFunc(c) \/ SetAlarm(c) \/ FinalizeCallHandling(c) \/ Deletes(c)
      PROVE  DownInOrder'
  <2>1. UNCHANGED <<down, server, handler, rpc, owner>>
    BY <1>8 DEF HandleFunc, SetAlarm, FinalizeCallHandling, Deletes, RequestFailed,
       RequestStreamFailed, FinalizeCallFinish, queueVars, grpcVars, handlerVars
  <2> QED BY <1>1, <2>1
<1> QED BY <1>2, <1>3, <1>4, <1>5, <1>6, <1>7, <1>8, CallCases

\* What the queue thread begins after shutdown() it begins for an rpc that is over,
\* and not answered yet: its client cancelled it.
LEMMA NothingBegunStep == ServerIInv /\ [ServerNext]_serverVars => NothingBegunAfterShutdown'
<1> SUFFICES ASSUME ServerIInv, [ServerNext]_serverVars PROVE NothingBegunAfterShutdown'
  OBVIOUS
<1> USE DEF NothingBegunAfterShutdown
<1>0. /\ ServerTypeOK /\ QueueTypeOK /\ OneHolder /\ QueueIInv /\ CallInv /\ DownInOrder
      /\ NothingBegunAfterShutdown
  BY DEF ServerIInv, QueueIInv, CallInv
<1>1. CASE UNCHANGED <<misused, rpc, current>> BY <1>0, <1>1
<1>2. ASSUME Running, misused' = misused PROVE NothingBegunAfterShutdown'
  BY <1>2 DEF Running
<1>3. ASSUME Running, misused' = (misused \/ down), UNCHANGED <<rpc, current>>,
             NEW c \in Call,
             \/ AtRequest(c) /\ rpc[c] # "none" /\ RequestLive(c)
             \/ AtHandling(c) /\ HandlingLive(c)
      PROVE  NothingBegunAfterShutdown'
  <2>1. current[2] = c
    BY <1>3 DEF AtRequest, AtHandling, ServiceRequestAction, CallHandlingAction
  <2>2. CallAt(c) BY <1>0, CallInvIs DEF ServerTypeOK
  <2>3. AtHandling(c) => HandlingBegun(c) BY <1>0, PlacesOfCall
  <2>4. rpc[c] \notin {"none", "answered"} BY <1>3, <2>2, <2>3 DEF CallAt
  <2>5. down => rpc[c] # "open" BY <1>0 DEF DownInOrder
  <2>6. rpc[c] \in {"none", "open", "answered", "cancelled"} BY <1>0 DEF ServerTypeOK
  <2> QED BY <1>3, <2>1, <2>4, <2>5, <2>6 DEF Running
<1>4. CASE Aside
  <2>1. misused' = misused
    BY <1>4 DEF Aside, EmplaceCallHandler, UseDeletedHandler, Start, StartPolling, Polls,
       SawShutdown, Store, ShutdownServer, StopNext, ServerDown, DeleteAllCallHandlers,
       ShutdownQueue, Shutdown, JoinThread, Joined, DestroyQueue, Destroyed, StopAgain,
       DestroyUnstarted, ServerStopped, serverVars, queueVars, grpcVars, pollVars
  <2> QED BY <1>1, <1>4, <2>1, AsideStep DEF tagVars
<1>5. CASE Finalized BY <1>2, <1>5, FinalizedStep
<1>6. CASE Polls /\ GotEvent BY <1>2, <1>6 DEF Polls, GotEvent
<1>7. CASE RequestStarts
  <2> PICK d \in Call, h \in Handler :
        /\ Running /\ Requested(d, h)
        /\ NewHandler(h) \/ \E c \in Call : NextRequest(c, h)
    BY <1>0, <1>7, RequestStartsStep
  <2>1. CASE NewHandler(h) BY <2>1 DEF NewHandler
  <2>2. ASSUME NEW c \in Call, NextRequest(c, h) PROVE NothingBegunAfterShutdown'
    <3>1. rpc[c] # "none" /\ RequestLive(c)
      BY <1>0, <2>2, CallInvIs, PlacesOfCall DEF CallAt, NextRequest, ServerTypeOK
    <3> QED BY <1>3, <2>2, <3>1 DEF NextRequest, Requested
  <2> QED BY <2>1, <2>2
<1>8. ASSUME NEW c \in Call,
             GrpcNext(c) \/ RpcCancelled(c) \/ HandleFunc(c) \/ Deletes(c)
      PROVE  NothingBegunAfterShutdown'
  <2>1. Running /\ misused' = misused
    BY <1>8 DEF GrpcNext, Match, FailRequest, AlarmFires, RpcFinishes, Complete, RpcCancelled,
       HandleFunc, Deletes, RequestFailed, RequestStreamFailed, FinalizeCallFinish, Finalizing,
       queueVars, grpcVars
  <2> QED BY <1>2, <2>1
<1>9. ASSUME NEW c \in Call, SetAlarm(c) PROVE NothingBegunAfterShutdown'
  <2>1. /\ Running /\ misused' = (misused \/ down) /\ UNCHANGED <<rpc, current>>
        /\ AtRequest(c) /\ finalizing = "handled"
    BY <1>9 DEF SetAlarm, Begin, Finalizing, AtRequest, pollVars
  <2>2. rpc[c] # "none" /\ RequestLive(c)
    BY <1>0, <2>1, CallInvIs, PlacesOfCall DEF CallAt, ServerTypeOK
  <2> QED BY <1>3, <2>1, <2>2
<1>10. ASSUME NEW c \in Call, FinalizeCallHandling(c) PROVE NothingBegunAfterShutdown'
  <2>1. /\ Running /\ misused' = (misused \/ down) /\ UNCHANGED <<rpc, current>>
        /\ AtHandling(c) /\ finalizing = "begin"
    BY <1>10 DEF FinalizeCallHandling, Begin, Finalizing, AtHandling, pollVars
  <2> QED BY <1>0, <1>3, <2>1, PlacesOfCall
<1> QED BY <1>4, <1>5, <1>6, <1>7, <1>8, <1>9, <1>10, CallCases

-----------------------------------------------------------------------------
(* A handler keeps one request outstanding.                                *)

\* Call c is in Listening of its handler.
ListensAt(c) ==
  ServiceRequestAction(c) \in Outstanding /\ ~(AtRequest(c) /\ finalizing # "begin")

\* Its request is completed.
CompletedAt(c) == ServiceRequestAction(c) \in Completed \cup {current}

LEMMA ListeningIs ==
  \A h : /\ Listening(h) = {c \in Call : handlerOf[c] = h /\ ListensAt(c)}
         /\ Listening(h)' = {c \in Call : handlerOf'[c] = h /\ ListensAt(c)'}
BY DEF Listening, ListensAt, AtRequest

\* A step that changes neither the requests outstanding nor the handlers made.
LEMMA SameListening ==
  ASSUME ListensOnce, handlerOf' = handlerOf,
         server' = "listening" => server = "listening",
         \A h \in Handler : handler'[h] = "none" <=> handler[h] = "none",
         handlerOf \in [Call -> Handler \cup {NoHandler}],
         server' = "listening" =>
           \A c \in Call : /\ ListensAt(c)' <=> ListensAt(c)
                           /\ CompletedAt(c)' => rpc'[c] # "none"
  PROVE  ListensOnce'
<1>1. \A c \in Call : handlerOf'[c] # NoHandler => handler'[handlerOf'[c]] # "none"
  BY DEF ListensOnce
<1>2. ASSUME server' = "listening", NEW h \in Handler, handler'[h] # "none"
      PROVE  \E c \in Call : Listening(h)' = {c}
  <2>1. Listening(h)' = Listening(h) BY <1>2, ListeningIs
  <2>2. \E c \in Call : Listening(h) = {c} BY <1>2 DEF ListensOnce
  <2> QED BY <2>1, <2>2
<1> QED BY <1>1, <1>2 DEF ListensOnce, CompletedAt

LEMMA ListensOnceStep == ServerIInv /\ [ServerNext]_serverVars => ListensOnce'
<1> SUFFICES ASSUME ServerIInv, [ServerNext]_serverVars PROVE ListensOnce'
  OBVIOUS
<1>0. /\ ServerTypeOK /\ QueueTypeOK /\ OneHolder /\ QueueIInv /\ CallInv /\ ListensOnce
      /\ handlerOf \in [Call -> Handler \cup {NoHandler}]
      /\ handler \in [Handler -> {"none", "made", "registered", "deleted"}]
      /\ rpc \in [Call -> {"none", "open", "answered", "cancelled"}]
  BY DEF ServerIInv, QueueIInv, CallInv, ServerTypeOK
<1>1. server = "listening" => \A c \in Call : CompletedAt(c) => rpc[c] # "none"
  BY <1>0 DEF ListensOnce, CompletedAt
<1>2. CASE Aside
  <2>1. UNCHANGED tagVars BY <1>2, AsideStep
  <2>2. \A c \in Call : /\ ListensAt(c)' <=> ListensAt(c)
                        /\ CompletedAt(c)' <=> CompletedAt(c)
    BY <2>1 DEF tagVars, ListensAt, CompletedAt, AtRequest, Outstanding, Completed
  <2>3. /\ server' = "listening" => server = "listening"
        /\ \A h \in Handler : handler'[h] = "none" <=> handler[h] = "none"
    BY <1>0, <1>2 DEF Aside, EmplaceCallHandler, UseDeletedHandler, Start, Polls,
       ShutdownServer, StopNext, ServerDown, DeleteAllCallHandlers, ShutdownQueue, JoinThread,
       DestroyQueue, StopAgain, DestroyUnstarted, ServerStopped, serverVars, handlerVars
  <2> QED BY <1>0, <1>1, <2>1, <2>2, <2>3, SameListening DEF tagVars
<1>3. CASE Finalized
  <2>1. \A c \in Call : /\ ListensAt(c)' <=> ListensAt(c)
                        /\ CompletedAt(c)' => CompletedAt(c)
    BY <1>0, <1>3, FinalizedStep, TagFacts
       DEF ListensAt, CompletedAt, AtRequest, Outstanding, OneHolder, Completed
  <2> QED BY <1>0, <1>1, <1>3, <2>1, FinalizedStep, SameListening
<1>4. CASE Polls /\ GotEvent
  <2>1. UNCHANGED <<handlerOf, handler, rpc, server, finalizing>> /\ finalizing = "begin"
    BY <1>0, <1>4 DEF Polls, GotEvent, handlerVars, ServerTypeOK
  <2>2. PICK e \in events :
          /\ e.tag \in Completed /\ Completed' = Completed \ {e.tag}
          /\ current = NoTag /\ current' = e.tag /\ pending' = pending
    BY <1>0, <1>4, GotEventEffect
  <2>3. \A c \in Call : /\ ListensAt(c)' <=> ListensAt(c)
                        /\ CompletedAt(c)' <=> CompletedAt(c)
    BY <2>1, <2>2, TagFacts DEF ListensAt, CompletedAt, AtRequest, Outstanding
  <2> QED BY <1>0, <1>1, <2>1, <2>3, SameListening
<1>5. ASSUME NEW d \in Call, GrpcNext(d) PROVE ListensOnce'
  <2>1. /\ UNCHANGED <<handlerOf, handler, server, finalizing>>
        /\ \A c \in Call : rpc[c] # "none" => rpc'[c] # "none"
    BY <1>0, <1>5 DEF GrpcNext, Match, FailRequest, AlarmFires, RpcFinishes, handlerVars
  <2>2. PICK a, ok : Complete({a}, ok) /\ (server = "listening" /\ a = ServiceRequestAction(d)
                                             => rpc'[d] # "none")
                     /\ (\A c \in Call : a = ServiceRequestAction(c) => c = d)
    <3>1. CASE Match(d)
      <4>1. Complete({ServiceRequestAction(d)}, TRUE) /\ rpc'[d] # "none"
        BY <1>0, <3>1 DEF Match
      <4> QED BY <4>1, TagFacts
    <3>2. CASE FailRequest(d)
      <4>1. Complete({ServiceRequestAction(d)}, FALSE) /\ server # "listening"
        BY <3>2 DEF FailRequest
      <4> QED BY <4>1, TagFacts
    <3>3. CASE AlarmFires(d)
      <4>1. \E ok : Complete({CallHandlingAction(d)}, ok) BY <3>3 DEF AlarmFires
      <4>2. \A c \in Call : CallHandlingAction(d) # ServiceRequestAction(c) BY TagFacts
      <4> QED BY <4>1, <4>2
    <3>4. CASE RpcFinishes(d)
      <4>1. \E ok : Complete({CallFinishAction(d)}, ok) BY <3>4 DEF RpcFinishes
      <4>2. \A c \in Call : CallFinishAction(d) # ServiceRequestAction(c) BY TagFacts
      <4> QED BY <4>1, <4>2
    <3> QED BY <1>5, <3>1, <3>2, <3>3, <3>4 DEF GrpcNext
  <2>3. /\ a \in pending /\ pending' = pending \ {a} /\ Completed' = Completed \cup {a}
        /\ current' = current
    BY <2>2, CompleteEffect
  <2>4. \A c \in Call : /\ ListensAt(c)' <=> ListensAt(c)
                        /\ CompletedAt(c)' => CompletedAt(c) \/ a = ServiceRequestAction(c)
    BY <2>1, <2>3 DEF ListensAt, CompletedAt, AtRequest, Outstanding
  <2> QED BY <1>0, <1>1, <2>1, <2>2, <2>4, SameListening
<1>6. ASSUME NEW d \in Call, RpcCancelled(d) PROVE ListensOnce'
  <2>1. UNCHANGED <<pending, events, current, finalizing, handlerOf, handler, server>>
    BY <1>6 DEF RpcCancelled, queueVars, grpcVars, pollVars, handlerVars
  <2>2. \A c \in Call : rpc[c] # "none" => rpc'[c] # "none"
    BY <1>0, <1>6 DEF RpcCancelled
  <2>3. \A c \in Call : /\ ListensAt(c)' <=> ListensAt(c)
                        /\ CompletedAt(c)' <=> CompletedAt(c)
    BY <2>1 DEF ListensAt, CompletedAt, AtRequest, Outstanding, Completed
  <2> QED BY <1>0, <1>1, <2>1, <2>2, <2>3, SameListening
<1>7. ASSUME NEW d \in Call,
             HandleFunc(d) \/ SetAlarm(d) \/ FinalizeCallHandling(d) \/ Deletes(d)
      PROVE  ListensOnce'
  <2>1. /\ UNCHANGED <<events, current, rpc, handlerOf, handler, server>>
        /\ \A c \in Call : ServiceRequestAction(c) \in pending' <=>
                            ServiceRequestAction(c) \in pending
    BY <1>7, TagFacts DEF HandleFunc, SetAlarm, FinalizeCallHandling, Deletes, RequestFailed,
       RequestStreamFailed, FinalizeCallFinish, Begin, queueVars, grpcVars, pollVars, handlerVars
  <2>2. server = "listening" =>
          \/ finalizing # "begin" /\ finalizing' # "begin"
          \/ \A c \in Call : ~AtRequest(c)
    <3>1. CASE HandleFunc(d) \/ SetAlarm(d)
      BY <3>1 DEF HandleFunc, SetAlarm, Finalizing
    <3>2. CASE AtHandling(d) \/ AtFinish(d) BY <1>0, <3>2, PlacesOfCall
    <3>3. CASE AtRequest(d) /\ ~currentOk
      <4>1. rpc[d] = "none" BY <1>0, <3>3, CallInvIs DEF CallAt, ServerTypeOK
      <4> QED BY <1>1, <3>3, <4>1 DEF CompletedAt, AtRequest
    <3> QED
      BY <1>7, <3>1, <3>2, <3>3 DEF FinalizeCallHandling, Deletes, RequestFailed,
         RequestStreamFailed, FinalizeCallFinish, Finalizing, AtRequest, AtHandling, AtFinish
  <2>3. server = "listening" =>
          \A c \in Call : /\ ListensAt(c)' <=> ListensAt(c)
                          /\ CompletedAt(c)' <=> CompletedAt(c)
    BY <2>1, <2>2 DEF ListensAt, CompletedAt, AtRequest, Outstanding, Completed
  <2> QED BY <1>0, <1>1, <2>1, <2>3, SameListening
<1>8. CASE RequestStarts
  <2> PICK d \in Call, h \in Handler :
        /\ Requested(d, h)
        /\ NewHandler(h) \/ \E c \in Call : NextRequest(c, h)
    BY <1>0, <1>8, RequestStartsStep
  <2>1. /\ UNCHANGED <<Completed, current, rpc, server>>
        /\ pending' = pending \cup {ServiceRequestAction(d)}
        /\ handlerOf[d] = NoHandler /\ handlerOf' = [handlerOf EXCEPT ![d] = h]
    BY DEF Requested
  <2>2. h # NoHandler /\ \A g \in Handler : g # NoHandler
    BY UnaryServerAssumption
  <2>3. \A c \in Call : CompletedAt(c)' <=> CompletedAt(c)
    BY <2>1 DEF CompletedAt
  <2>4. CASE NewHandler(h)
    <3>1. /\ handler[h] = "none" /\ handler' = [handler EXCEPT ![h] = "made"]
          /\ finalizing' = finalizing
      BY <2>4 DEF NewHandler
    <3>2. \A c \in Call : ListensAt(c)' <=> ListensAt(c) \/ c = d
      <4>1. ~RequestBegun(d) /\ ~AtRequest(d)
        BY <1>0, <2>1, CallInvIs, PlacesOfCall DEF CallAt, ServerTypeOK
      <4> QED BY <2>1, <3>1, <4>1, TagFacts DEF ListensAt, AtRequest, Outstanding
    <3>3. \A c \in Call : handlerOf[c] # h BY <1>0, <2>2, <3>1 DEF ListensOnce
    <3>4. Listening(h)' = {d} BY <1>0, <2>1, <3>2, <3>3, ListeningIs
    <3>5. \A g \in Handler \ {h} : Listening(g)' = Listening(g)
      BY <1>0, <2>1, <2>2, <3>2, ListeningIs
    <3> QED BY <1>0, <1>1, <2>1, <2>2, <2>3, <3>1, <3>4, <3>5 DEF ListensOnce, CompletedAt
  <2>5. ASSUME NEW c \in Call, NextRequest(c, h) PROVE ListensOnce'
    <3>1. /\ h = handlerOf[c] /\ handler' = handler /\ AtRequest(c)
          /\ finalizing = "begin" /\ finalizing' # "begin"
      BY <2>5 DEF NextRequest
    <3>2. c # d BY <1>0, <2>1, <2>2, <3>1
    <3>3. \A e \in Call : ListensAt(e)' <=> (ListensAt(e) /\ e # c) \/ e = d
      BY <2>1, <3>1, <3>2, TagFacts DEF ListensAt, AtRequest, Outstanding
    <3>4. c \in Listening(h) BY <3>1, ListeningIs DEF ListensAt, AtRequest, Outstanding
    <3>5. server = "listening" /\ handler[h] # "none" => Listening(h)' = {d}
      <4>1. server = "listening" /\ handler[h] # "none" => Listening(h) = {c}
        BY <1>0, <3>4 DEF ListensOnce
      <4> QED BY <1>0, <2>1, <2>2, <3>2, <3>3, <4>1, ListeningIs
    <3>6. \A g \in Handler \ {h} : Listening(g)' = Listening(g)
      BY <1>0, <2>1, <2>2, <3>1, <3>3, ListeningIs
    <3> QED BY <1>0, <1>1, <2>1, <2>2, <2>3, <3>1, <3>5, <3>6 DEF ListensOnce, CompletedAt
  <2> QED BY <2>4, <2>5
<1> QED BY <1>2, <1>3, <1>4, <1>5, <1>6, <1>7, <1>8, CallCases

LEMMA ServerIInvInit == ServerInit => ServerIInv
<1> SUFFICES ASSUME ServerInit PROVE ServerIInv
  OBVIOUS
<1> USE ActionQueueAssumption, UnaryServerAssumption DEF ServerInit
<1>1. QueueIInv BY QueueIInvInit
<1>2. ServerTypeOK BY <1>1 DEF ServerTypeOK, QueueIInv, QueueInit
<1>3. Completed = {} /\ Live = {NoTag} BY DEF Completed, Live, QueueInit
<1>4. \A a \in Tag : ~Begun(a) BY <1>3, BegunIs DEF QueueInit
<1>5. ActionsInOrder BY <1>4, TagFacts DEF ActionsInOrder
<1>6. HandledInOrder BY DEF HandledInOrder
<1>7. OkIfMatched BY TagFacts DEF OkIfMatched, QueueInit
<1>8. CallsAreUsed BY <1>3, TagFacts DEF CallsAreUsed, KeptReader
<1>9. DownInOrder BY DEF DownInOrder, QueueInit
<1>10. ListensOnce BY <1>3, TagFacts DEF ListensOnce, QueueInit
<1>11. NothingBegunAfterShutdown BY DEF NothingBegunAfterShutdown, QueueInit
<1> QED
  BY <1>1, <1>2, <1>5, <1>6, <1>7, <1>8, <1>9, <1>10, <1>11 DEF ServerIInv

LEMMA ServerIInvStep == ServerIInv /\ [ServerNext]_serverVars => ServerIInv'
BY ServerQueueIInvStep, ServerTypeStep, CallInvStep, DownInOrderStep, ListensOnceStep,
   NothingBegunStep DEF ServerIInv, CallInv

-----------------------------------------------------------------------------
(* The theorems.                                                           *)

\* The inductive invariant of the server holds in every reachable state.
THEOREM ServerInvariance == ServerSpec => []ServerIInv
BY ServerIInvInit, ServerIInvStep, PTL DEF ServerSpec

LEMMA HandlerAliveIs == ServerIInv => HandlerAlive
<1> SUFFICES ASSUME ServerIInv, NEW c \in Call, NeedsHandler(c),
                    handler[handlerOf[c]] = "deleted"
             PROVE  rpc[c] = "cancelled"
  BY DEF HandlerAlive
<1>1. /\ ServerTypeOK /\ QueueTypeOK /\ OneHolder /\ CallAt(c) /\ DownInOrder
  BY CallInvIs DEF ServerIInv, QueueIInv, CallInv, ServerTypeOK
<1>2. RequestLive(c)
  <2>1. CASE [tag |-> ServiceRequestAction(c), ok |-> TRUE] \in events
    <3>1. [tag |-> ServiceRequestAction(c), ok |-> TRUE].tag = ServiceRequestAction(c)
      OBVIOUS
    <3>2. ServiceRequestAction(c) \in Completed BY <2>1, <3>1 DEF Completed
    <3> QED BY <3>2 DEF RequestLive, Live
  <2>2. CASE AtRequest(c) /\ finalizing # "done" BY <1>1, <2>2, PlacesOfCall
  <2> QED BY <2>1, <2>2 DEF NeedsHandler, AtRequest
<1>3. RequestBegun(c) BY <1>1, <1>2, PlacesOfCall
<1>4. handlerOf[c] \in Handler BY <1>1, <1>3 DEF CallAt, ServerTypeOK
<1>5. rpc[c] # "open" BY <1>1, <1>4 DEF DownInOrder
<1>6. rpc[c] # "answered" BY <1>1, <1>2 DEF CallAt
<1>7. rpc[c] # "none"
  <2>1. CASE AtRequest(c) /\ currentOk BY <1>1, <2>1 DEF CallAt
  <2>2. CASE [tag |-> ServiceRequestAction(c), ok |-> TRUE] \in events
    <3>1. PICK e \in events : e.tag = ServiceRequestAction(c) /\ e.ok = TRUE
      BY <2>2
    <3> QED BY <1>1, <3>1 DEF CallAt, EventsOk
  <2> QED BY <2>1, <2>2 DEF NeedsHandler, AtRequest
<1> QED BY <1>1, <1>5, <1>6, <1>7 DEF ServerTypeOK

\* stop() deletes no handler that the queue thread has still to read for an rpc whose
\* client waits, however it interleaves with the queue thread.
THEOREM HandlerAliveHolds == ServerSpec => []HandlerAlive
BY ServerInvariance, HandlerAliveIs, PTL

\* Nothing is begun on a queue that is shut down but for a cancelled rpc.
THEOREM NothingBegunHolds == ServerSpec => []NothingBegunAfterShutdown
<1>1. ServerIInv => NothingBegunAfterShutdown BY DEF ServerIInv
<1> QED BY ServerInvariance, <1>1, PTL

\* While the server listens each handler has exactly one request outstanding.
THEOREM KeepsListeningHolds == ServerSpec => []KeepsListening
<1>1. ServerIInv => KeepsListening
  <2> SUFFICES ASSUME ServerIInv, server = "listening", NEW h \in Handler, handler[h] # "none"
               PROVE  Cardinality(Listening(h)) = 1
    BY DEF KeepsListening
  <2>1. PICK c \in Call : Listening(h) = {c} BY DEF ServerIInv, ListensOnce
  <2> QED BY <2>1, FS_Singleton
<1> QED BY ServerInvariance, <1>1, PTL

\* The actions of a Call.
LEMMA ActionsOfCall ==
  ASSUME ServerTypeOK, NEW c \in Call
  PROVE  \A a : (a \in Outstanding /\ a # NoTag /\ a[2] = c) <=>
                  /\ a \in Outstanding
                  /\ \/ a = ServiceRequestAction(c) \/ a = CallHandlingAction(c)
                     \/ a = CallFinishAction(c)
<1>1. \A a \in Outstanding : a = NoTag \/ a \in Tag
  BY DEF ServerTypeOK, QueueTypeOK, Outstanding, Completed
<1>2. \A a \in Tag : a[2] = c <=> \/ a = ServiceRequestAction(c) \/ a = CallHandlingAction(c)
                                  \/ a = CallFinishAction(c)
  BY UnaryServerAssumption
     DEF ServiceRequestAction, CallHandlingAction, CallFinishAction
<1> QED BY <1>1, <1>2, TagFacts

\* A Call exists as long as one action of it, and only one, is outstanding.
THEOREM CallHasOneActionHolds == ServerSpec => []CallHasOneAction
<1>1. ServerIInv => CallHasOneAction
  <2> SUFFICES ASSUME ServerIInv PROVE CallHasOneAction
    OBVIOUS
  <2> SUFFICES ASSUME NEW c \in Call, ~KeptReader(c)
               PROVE  LET actions == {a \in Outstanding : a # NoTag /\ a[2] = c}
                      IN  IF finalizing = "done" /\ current \in actions
                          THEN c \in calls <=> actions # {current}
                          ELSE Cardinality(actions) = IF c \in calls THEN 1 ELSE 0
    <3>1. ASSUME NEW d \in Call, KeptReader(d) PROVE d \in calls
      BY <3>1 DEF ServerIInv, CallsAreUsed
    <3> QED BY <3>1 DEF CallHasOneAction
  <2> DEFINE actions == {a \in Outstanding : a # NoTag /\ a[2] = c}
             mine == {ServiceRequestAction(c), CallHandlingAction(c), CallFinishAction(c)}
  <2>1. /\ ServerTypeOK /\ QueueTypeOK /\ OneHolder /\ CallAt(c)
    BY CallInvIs DEF ServerIInv, QueueIInv, CallInv, ServerTypeOK
  <2>2. actions = Outstanding \cap mine BY <2>1, ActionsOfCall
  <2>3. \A a : a \in Outstanding <=> a \in Live \/ (a = current /\ finalizing = "done")
    BY DEF Outstanding, Live
  <2>4. finalizing = "done" => current \notin Live \/ current = NoTag
    BY <2>1 DEF Live, OneHolder, Completed
  <2>5. /\ ~(RequestLive(c) /\ HandlingLive(c))
        /\ ~(RequestLive(c) /\ FinishLive(c))
        /\ ~(HandlingLive(c) /\ FinishLive(c))
    BY <2>1, PlacesOfCall DEF CallAt
  <2>6. c \in calls <=> RequestLive(c) \/ HandlingLive(c) \/ FinishLive(c)
    BY <2>1 DEF CallAt
  <2>7. c \in calls => \E x : Live \cap mine = {x}
    BY <2>5, <2>6 DEF RequestLive, HandlingLive, FinishLive
  <2>8. c \notin calls => Live \cap mine = {}
    BY <2>6 DEF RequestLive, HandlingLive, FinishLive
  <2>9. current \in mine => current # NoTag BY TagFacts
  <2> HIDE DEF actions, mine
  <2>10. CASE finalizing = "done" /\ current \in actions
    <3>1. actions = (Live \cap mine) \cup {current} /\ current \notin Live \cap mine
      BY <2>2, <2>3, <2>4, <2>9, <2>10
    <3>2. c \in calls <=> actions # {current} BY <2>7, <2>8, <3>1
    <3> QED BY <2>10, <3>2 DEF actions
  <2>11. CASE ~(finalizing = "done" /\ current \in actions)
    <3>1. actions = Live \cap mine BY <2>2, <2>3, <2>11
    <3>2. Cardinality(actions) = IF c \in calls THEN 1 ELSE 0
      BY <2>7, <2>8, <3>1, FS_Singleton, FS_EmptySet
    <3> QED BY <2>11, <3>2 DEF actions
  <2> QED BY <2>10, <2>11
<1> QED BY ServerInvariance, <1>1, PTL

-----------------------------------------------------------------------------
(* The server implements UnaryService.                                     *)

LEMMA AbstractUnchanged ==
  ASSUME UNCHANGED <<rpc, responses>>
  PROVE  UNCHANGED Abstract!rpcVars
BY DEF Abstract!rpcVars

LEMMA UnaryServiceStep ==
  ServerIInv /\ [ServerNext]_serverVars => [Abstract!Next]_(Abstract!rpcVars)
<1> SUFFICES ASSUME ServerIInv, [ServerNext]_serverVars
             PROVE  [Abstract!Next]_(Abstract!rpcVars)
  OBVIOUS
<1>0. /\ ServerTypeOK /\ QueueIInv /\ QueueTypeOK /\ OneHolder /\ CallInv
      /\ rpc \in [Call -> {"none", "open", "answered", "cancelled"}]
  BY DEF ServerIInv, QueueIInv, CallInv, ServerTypeOK
<1>1. \A c \in Call : CallAt(c) BY <1>0, CallInvIs DEF ServerTypeOK
<1>2. CASE Aside BY <1>2, AsideStep, AbstractUnchanged DEF tagVars
<1>3. CASE Finalized \/ (Polls /\ GotEvent)
  BY <1>3, FinalizedStep, AbstractUnchanged DEF Polls, handlerVars
<1>4. CASE RequestStarts
  BY <1>0, <1>4, RequestStartsStep, AbstractUnchanged DEF Requested
<1>5. ASSUME NEW c \in Call, Match(c) PROVE Abstract!Accept(c)
  <2>1. rpc' = [rpc EXCEPT ![c] = "open"] /\ responses' = responses
    BY <1>5 DEF Match, handlerVars
  <2>2. RequestPending(c)
    <3>1. Complete({ServiceRequestAction(c)}, TRUE) BY <1>5 DEF Match
    <3> QED BY <3>1, CompleteEffect DEF RequestPending
  <2>3. rpc[c] = "none" BY <1>1, <2>2 DEF CallAt
  <2> QED BY <1>0, <2>1, <2>3 DEF Abstract!Accept
<1>6. ASSUME NEW c \in Call, FailRequest(c) \/ AlarmFires(c)
      PROVE  UNCHANGED Abstract!rpcVars
  BY <1>6, AbstractUnchanged DEF FailRequest, AlarmFires, handlerVars
<1>7. ASSUME NEW c \in Call, RpcFinishes(c)
      PROVE  Abstract!Answer(c) \/ UNCHANGED Abstract!rpcVars
  <2>1. /\ rpc' = [rpc EXCEPT ![c] = IF rpc[c] = "open" THEN "answered" ELSE rpc[c]]
        /\ responses' = responses
    BY <1>7 DEF RpcFinishes, handlerVars
  <2>2. FinishBegun(c)
    <3>1. PICK ok : Complete({CallFinishAction(c)}, ok) BY <1>7 DEF RpcFinishes
    <3> QED BY <3>1, CompleteEffect, BegunIs DEF FinishBegun
  <2>3. responses[c] = 1 BY <1>1, <2>2 DEF CallAt
  <2>4. CASE rpc[c] = "open"
    BY <1>0, <2>1, <2>3, <2>4 DEF Abstract!Answer
  <2>5. CASE rpc[c] # "open"
    <3>1. rpc' = rpc BY <1>0, <2>1, <2>5
    <3> QED BY <2>1, <3>1, AbstractUnchanged
  <2> QED BY <2>4, <2>5
<1>8. ASSUME NEW c \in Call, RpcCancelled(c) PROVE Abstract!Cancel(c)
  BY <1>0, <1>8 DEF RpcCancelled, handlerVars, Abstract!Cancel
<1>9. ASSUME NEW c \in Call, HandleFunc(c) PROVE Abstract!Handle(c)
  <2>1. AtRequest(c) /\ finalizing = "requested"
    BY <1>9 DEF HandleFunc, Finalizing, AtRequest
  <2>2. rpc[c] # "none" /\ responses[c] = 0 BY <1>1, <2>1 DEF CallAt
  <2> QED BY <1>0, <1>9, <2>2 DEF HandleFunc, Abstract!Handle, ServerTypeOK
<1>10. ASSUME NEW c \in Call, SetAlarm(c) \/ FinalizeCallHandling(c) \/ Deletes(c)
       PROVE  UNCHANGED Abstract!rpcVars
  BY <1>10, AbstractUnchanged DEF SetAlarm, FinalizeCallHandling, Deletes, RequestFailed,
     RequestStreamFailed, FinalizeCallFinish, handlerVars
<1> QED
  BY <1>2, <1>3, <1>4, <1>5, <1>6, <1>7, <1>8, <1>9, <1>10, CallCases
     DEF GrpcNext, Abstract!Next

\* handleFunc runs once for each rpc, which is answered once and after it, whatever
\* the clients, gRPC and stop() do meanwhile.
THEOREM ServerImplements == ServerSpec => ImplementsUnaryService
<1>1. ServerInit => Abstract!Init BY DEF ServerInit, Abstract!Init
<1> QED
  BY <1>1, UnaryServiceStep, ServerInvariance, PTL
     DEF ServerSpec, ImplementsUnaryService, Abstract!Spec

-----------------------------------------------------------------------------
(* What a program whose main stops the server once, after it has started   *)
(* it, relies on (ExampleProgramsProofs.tla).                              *)

\* The steps in which no rpc comes in and main keeps the server or destroys it.
Serving ==
  \/ \E h \in Handler : NewCallHandler(h) \/ EmplaceCallHandler(h)
  \/ Start \/ QueueThread
  \/ \E c \in Call : FailRequest(c) \/ AlarmFires(c) \/ RpcFinishes(c) \/ RpcCancelled(c)

Stopping == ShutdownServer \/ StopNext

LEMMA ServingIsNext == Serving \/ Stopping => ServerNext
BY DEF Serving, Stopping, ServerNext, GrpcNext

\* The rpc that comes in has not come in before, so that it was not handled.
LEMMA MatchIsFirst ==
  ASSUME ServerIInv, NEW c \in Call, Match(c)
  PROVE  /\ rpc[c] = "none" /\ responses[c] = 0
         /\ rpc' = [rpc EXCEPT ![c] = "open"]
         /\ UNCHANGED <<responses, server, started, crashed, misused, owner>>
<1>1. RequestPending(c)
  <2>1. Complete({ServiceRequestAction(c)}, TRUE) BY DEF Match
  <2> QED BY <2>1, CompleteEffect DEF RequestPending
<1>2. CallAt(c) BY CallInvIs DEF ServerIInv, CallInv, ServerTypeOK
<1> QED BY <1>1, <1>2 DEF CallAt, Match, Complete, handlerVars

\* The other steps let none come in, and take no answer back.
LEMMA ServingRpcs ==
  ASSUME ServerIInv, Serving \/ Stopping
  PROVE  \A c \in Call : /\ rpc'[c] # "none" <=> rpc[c] # "none"
                         /\ rpc[c] = "answered" => rpc'[c] = "answered"
<1>0. rpc \in [Call -> {"none", "open", "answered", "cancelled"}]
  BY DEF ServerIInv, ServerTypeOK
<1>1. CASE rpc' = rpc BY <1>1
<1>2. ASSUME NEW c \in Call, RpcFinishes(c) \/ RpcCancelled(c)
      PROVE  \E r \in {"answered", "cancelled"} :
               (rpc[c] = "open" /\ rpc' = [rpc EXCEPT ![c] = r]) \/ rpc' = rpc
  BY <1>0, <1>2 DEF RpcFinishes, RpcCancelled
<1>3. CASE Stopping
  BY <1>1, <1>3 DEF Stopping, ShutdownServer, StopNext, ServerDown, DeleteAllCallHandlers,
                    ShutdownQueue, JoinThread, DestroyQueue
<1>4. ASSUME NEW h \in Handler, NewCallHandler(h) \/ EmplaceCallHandler(h) PROVE rpc' = rpc
  BY <1>4 DEF NewCallHandler, EmplaceCallHandler
<1>5. CASE Start \/ QueueThread
  BY <1>1, <1>5 DEF Start, QueueThread, Polls, Finalized, FinalizeNext, OnNewStreamReaderReady,
     FinalizeCallRequest, HandleFunc, SetAlarm, UseDeletedHandler, RequestFailed,
     RequestStreamFailed, FinalizeCallHandling, FinalizeCallFinish
<1>6. ASSUME NEW c \in Call, FailRequest(c) \/ AlarmFires(c) PROVE rpc' = rpc
  BY <1>6 DEF FailRequest, AlarmFires
<1> QED BY <1>0, <1>1, <1>2, <1>3, <1>4, <1>5, <1>6 DEF Serving

\* handleFunc runs for an rpc that came in, and never again for it.
LEMMA HandledOnce ==
  ASSUME ServerIInv, Serving \/ Stopping
  PROVE  \/ responses' = responses
         \/ \E c \in Call : /\ rpc[c] # "none" /\ responses[c] = 0
                            /\ responses' = [responses EXCEPT ![c] = 1]
<1>1. [Abstract!Next]_(Abstract!rpcVars) BY ServingIsNext, UnaryServiceStep
<1> QED
  BY <1>1 DEF Abstract!Next, Abstract!Accept, Abstract!Handle, Abstract!Answer,
              Abstract!Cancel, Abstract!rpcVars

\* What was answered was handled.
LEMMA AnsweredIsHandled ==
  ASSUME ServerIInv, NEW c \in Call, rpc[c] = "answered"
  PROVE  responses[c] = 1
BY CallInvIs DEF ServerIInv, CallInv, ServerTypeOK, CallAt

\* Only main changes what the server is.
LEMMA ServingServer ==
  /\ Serving => UNCHANGED server
  /\ Stopping => server' # "abandoned" \/ UNCHANGED server
<1> USE DEF handlerVars
<1>1. ASSUME NEW h \in Handler, NewCallHandler(h) \/ EmplaceCallHandler(h) PROVE UNCHANGED server
  BY <1>1 DEF NewCallHandler, EmplaceCallHandler
<1>2. CASE Start \/ QueueThread
  BY <1>2 DEF Start, QueueThread, Polls, Finalized, FinalizeNext, OnNewStreamReaderReady,
     FinalizeCallRequest, HandleFunc, SetAlarm, UseDeletedHandler, RequestFailed,
     RequestStreamFailed, FinalizeCallHandling, FinalizeCallFinish
<1>3. ASSUME NEW c \in Call,
             FailRequest(c) \/ AlarmFires(c) \/ RpcFinishes(c) \/ RpcCancelled(c)
      PROVE  UNCHANGED server
  BY <1>3 DEF FailRequest, AlarmFires, RpcFinishes, RpcCancelled
<1>4. Stopping => server' # "abandoned" \/ UNCHANGED server
  BY DEF Stopping, ShutdownServer, StopNext, ServerDown, DeleteAllCallHandlers,
         ShutdownQueue, JoinThread, DestroyQueue
<1> QED BY <1>1, <1>2, <1>3, <1>4 DEF Serving

\* The process dies on the queue thread only, between Server::Shutdown and the end of
\* the destructor, of an rpc that was cancelled.
LEMMA DiesOfCancelled ==
  ASSUME ServerIInv, Serving \/ Stopping, Running, ~Running'
  PROVE  server' = "down" /\ \E c \in Call : rpc'[c] = "cancelled"
<1>0. /\ ServerTypeOK /\ QueueTypeOK /\ OneHolder /\ QueueIInv /\ OwnerInv /\ CallInv
      /\ DownInOrder /\ [ServerNext]_serverVars /\ ServerIInv'
  BY ServingIsNext, ServerIInvStep DEF ServerIInv, QueueIInv, CallInv
<1>1. ASSUME polling = "finalize", UNCHANGED <<server, rpc>>, server \in {"down", "null"},
             NEW c \in Call, rpc[c] = "cancelled"
      PROVE  server' = "down" /\ \E d \in Call : rpc'[d] = "cancelled"
  BY <1>0, <1>1, UnaryServerAssumption, OwnerOfThread DEF DownInOrder
<1>2. ASSUME UNCHANGED <<misused, crashed>> PROVE FALSE
  BY <1>2 DEF Running
<1>3. ASSUME down, misused', UNCHANGED <<server, rpc, current>>, polling = "finalize",
             NEW c \in Call, AtRequest(c) \/ AtHandling(c)
      PROVE  server' = "down" /\ \E d \in Call : rpc'[d] = "cancelled"
  <2>1. current[2] = c
    BY <1>3 DEF AtRequest, AtHandling, ServiceRequestAction, CallHandlingAction
  <2>2. rpc[c] = "cancelled" BY <1>0, <1>3, <2>1 DEF ServerIInv, NothingBegunAfterShutdown
  <2> QED BY <1>0, <1>1, <1>3, <2>2 DEF DownInOrder
<1>4. CASE RequestStarts
  <2> PICK d \in Call, h \in Handler :
        /\ Running /\ Requested(d, h)
        /\ NewHandler(h) \/ \E c \in Call : NextRequest(c, h)
    BY <1>0, <1>4, RequestStartsStep
  <2>1. UNCHANGED crashed
    BY <1>4 DEF RequestStarts, NewCallHandler, FinalizeCallRequest, OnNewStreamReaderReady
  <2>2. ~NewHandler(h) BY <2>1 DEF NewHandler, Running
  <2>3. PICK c \in Call : NextRequest(c, h) BY <2>2
  <2>4. misused' /\ down
    BY <1>0, <2>1, <2>3 DEF NextRequest, Running, QueueTypeOK
  <2>5. polling = "finalize" BY <1>0, <2>3, TagFacts DEF NextRequest, AtRequest, QueueTypeOK
  <2> QED BY <1>3, <2>3, <2>4, <2>5 DEF Requested, NextRequest
<1>5. ASSUME NEW c \in Call, SetAlarm(c) \/ FinalizeCallHandling(c)
      PROVE  server' = "down" /\ \E d \in Call : rpc'[d] = "cancelled"
  <2>1. /\ UNCHANGED <<server, rpc, current, crashed>> /\ polling = "finalize"
        /\ AtRequest(c) \/ AtHandling(c)
        /\ misused' = (misused \/ down)
    BY <1>5 DEF SetAlarm, FinalizeCallHandling, Begin, Finalizing, AtRequest, AtHandling, pollVars
  <2>2. misused' /\ down BY <1>0, <2>1 DEF Running, QueueTypeOK
  <2> QED BY <1>3, <2>1, <2>2
<1>6. ASSUME NEW c \in Call, UseDeletedHandler(c)
      PROVE  server' = "down" /\ \E d \in Call : rpc'[d] = "cancelled"
  <2>1. /\ UNCHANGED <<server, rpc>> /\ polling = "finalize"
        /\ NeedsHandler(c) /\ handler[handlerOf[c]] = "deleted"
    BY <1>6 DEF UseDeletedHandler, NeedsHandler
  <2>2. rpc[c] = "cancelled" BY <2>1, HandlerAliveIs DEF HandlerAlive
  <2>3. RequestBegun(c) BY <1>0, <1>6, PlacesOfCall DEF UseDeletedHandler, AtRequest
  <2>4. handlerOf[c] \in Handler BY <1>0, <2>3, CallInvIs DEF CallAt, ServerTypeOK
  <2> QED BY <1>0, <1>1, <2>1, <2>2, <2>4 DEF DownInOrder
<1>7. ASSUME NEW c \in Call,
             \/ FailRequest(c) \/ AlarmFires(c) \/ RpcFinishes(c) \/ RpcCancelled(c)
             \/ HandleFunc(c) \/ Deletes(c)
      PROVE  UNCHANGED <<misused, crashed>>
  BY <1>7 DEF FailRequest, AlarmFires, RpcFinishes, Complete, RpcCancelled, HandleFunc, Deletes,
     RequestFailed, RequestStreamFailed, FinalizeCallFinish, queueVars, grpcVars
<1>8. CASE Start \/ Polls \/ Finalized \/ Stopping \/ \E h \in Handler : EmplaceCallHandler(h)
  BY <1>2, <1>8 DEF Start, StartPolling, Polls, GotEvent, SawShutdown, Store, Finalized,
     FinalizeOne, Stopping, ShutdownServer, StopNext, ServerDown, DeleteAllCallHandlers,
     ShutdownQueue, Shutdown, JoinThread, Joined, DestroyQueue, Destroyed,
     EmplaceCallHandler, queueVars, grpcVars
<1> QED
  BY <1>2, <1>4, <1>5, <1>6, <1>7, <1>8
     DEF Serving, QueueThread, FinalizeNext, RequestStarts, Deletes
=============================================================================
