----------------------- MODULE ClientStreamCallProofs -----------------------
(***************************************************************************)
(* What TLAPS proves of ClientStreamCall, for every set of calls, whenever *)
(* their rpcs end and the client is destroyed.                             *)
(***************************************************************************)
EXTENDS ClientStreamCall, ActionQueueProofs, SequenceTheorems

-----------------------------------------------------------------------------
(* Operations, their actions and their queues.                             *)

LEMMA OpFacts ==
  /\ \A c \in Call, o \in Op : StreamAction(o, c) \in Tag /\ StreamAction(o, c) # NoTag
  /\ \A c, d, o, p : StreamAction(o, c) = StreamAction(p, d) => o = p /\ c = d
  /\ AppOp \subseteq Op /\ WriteOp \subseteq AppOp /\ FinishOp \subseteq Op \ {"call"}
  /\ WriteOp \cap FinishOp = {} /\ "call" \in Op /\ "call" \notin AppOp
  /\ \A o \in Op : o \in WriteOp \/ o \in FinishOp \/ o = "call"
  /\ \A o \in WriteOp : FinishAfter(o) \in FinishOp \ AppOp
  /\ \A o, p \in WriteOp : FinishAfter(o) = FinishAfter(p) => o = p
  /\ \A o \in Op \ AppOp : o = "call" \/ \E w \in WriteOp : o = FinishAfter(w)
<1>1. \A c \in Call, o \in Op : StreamAction(o, c) \in Tag /\ StreamAction(o, c) # NoTag
  <2> TAKE c \in Call, o \in Op
  <2>1. <<o, c>> \in Op \X Call OBVIOUS
  <2> QED BY <2>1, ActionQueueAssumption, ClientStreamCallAssumption DEF StreamAction
<1>2. \A c, d, o, p : StreamAction(o, c) = StreamAction(p, d) => o = p /\ c = d
  BY DEF StreamAction
<1>3. /\ AppOp \subseteq Op /\ WriteOp \subseteq AppOp /\ "call" \in Op
      /\ "call" \notin AppOp /\ FinishOp \subseteq Op \ {"call"}
      /\ WriteOp \cap FinishOp = {}
      /\ \A o \in Op : o \in WriteOp \/ o \in FinishOp \/ o = "call"
  BY DEF Op, AppOp, WriteOp, FinishOp
<1>4. FinishAfter("write") = "finish after write" /\ FinishAfter("last") = "finish after last"
  BY DEF FinishAfter
<1>5. \A o \in WriteOp : FinishAfter(o) \in FinishOp \ AppOp
  BY <1>4 DEF WriteOp, FinishOp, AppOp, Op
<1>6. \A o, p \in WriteOp : FinishAfter(o) = FinishAfter(p) => o = p
  BY <1>4 DEF WriteOp
<1>7. \A o \in Op \ AppOp : o = "call" \/ \E w \in WriteOp : o = FinishAfter(w)
  BY <1>4 DEF Op, WriteOp
<1> QED BY <1>1, <1>2, <1>3, <1>5, <1>6, <1>7

\* What is done with a queue of one operation, and one with a finish behind it.
LEMMA ShortQueues ==
  ASSUME NEW s, NEW o, NEW p \in Op, NEW f \in Op
  PROVE  /\ TryPerforms(<<>>, s) = {} /\ TryLeaves(<<>>) = <<>>
         /\ TryPerforms(<<p>>, s) \subseteq {p} /\ TryLeaves(<<p>>) = <<>>
         /\ TryPerforms(<<p, f>>, s) \subseteq {p} /\ TryLeaves(<<p, f>>) = <<f>>
         /\ LoopPerforms(<<>>, o) = {}
         /\ LoopPerforms(<<p>>, o) \subseteq {p}
         /\ Append(<<>>, p) = <<p>> /\ Append(<<p>>, f) = <<p, f>>
         /\ <<p>> # <<>> /\ (<<p>> = <<f>> => p = f)
<1>1. <<p>> # <<>> /\ Head(<<p>>) = p /\ Tail(<<p>>) = <<>>
  OBVIOUS
<1>2. <<p, f>> # <<>> /\ Head(<<p, f>>) = p
  OBVIOUS
<1>3. Tail(<<p, f>>) = <<f>>
  OBVIOUS
<1>4. Append(<<>>, p) = <<p>>
  OBVIOUS
<1>5. Append(<<p>>, f) = <<p, f>>
  <2> DEFINE t == Append(<<p>>, f)
             u == <<p, f>>
  <2>1. <<p>> \in Seq(Op) /\ Len(<<p>>) = 1 /\ <<p>>[1] = p OBVIOUS
  <2>2. t \in Seq(Op) /\ Len(t) = 2 /\ t[1] = p /\ t[2] = f
    BY <2>1, AppendProperties
  <2>3. u \in Seq(Op) /\ Len(u) = 2 /\ u[1] = p /\ u[2] = f OBVIOUS
  <2> HIDE DEF t, u
  <2>4. Len(t) = Len(u) /\ \A i \in 1 .. Len(t) : t[i] = u[i] BY <2>2, <2>3
  <2>5. t = u BY <2>2, <2>3, <2>4, SeqEqual, Zenon
  <2> QED BY <2>5 DEF t, u
<1>6. LoopPerforms(<<>>, o) = {} BY DEF LoopPerforms
<1>7. LoopPerforms(<<p>>, o) \subseteq {p} BY DEF LoopPerforms
<1>8. <<p>> = <<f>> => p = f
  OBVIOUS
<1> QED BY <1>1, <1>2, <1>3, <1>4, <1>5, <1>6, <1>7, <1>8 DEF TryPerforms, TryLeaves

-----------------------------------------------------------------------------
(* The queue of the client: a step may finalise one action and begin others. *)

LEMMA BeginKeepsQueue ==
  ASSUME QueueIInv, NEW A \in SUBSET Tag, \A a \in A : ~Begun(a),
         owner = "running" \/ polling = "finalize",
         Begin(A), UNCHANGED <<events, down, pollVars, owner>>
  PROVE  QueueIInv'
<1> USE ActionQueueAssumption DEF QueueIInv
<1>1. QueueTypeOK' BY DEF Begin, QueueTypeOK, pollVars
<1>2. OneHolder' BY DEF Begin, Begun, QueueTypeOK, OneHolder, pollVars
<1>3. OwnerInv' BY DEF OwnerInv, ThreadEnded, pollVars
<1>4. StatusInv' BY DEF Begin, OwnerInv, StatusInv, Drained, pollVars
<1> QED BY <1>1, <1>2, <1>3, <1>4

LEMMA FinalizeKeepsQueue ==
  ASSUME QueueIInv, NEW A \in SUBSET Tag, \A a \in A : ~Begun(a),
         FinalizeResult, Begin(A), UNCHANGED <<events, down, owner>>
  PROVE  QueueIInv'
<1> USE ActionQueueAssumption DEF QueueIInv, FinalizeResult, DeleteAction
<1>1. current \in Tag BY DEF QueueTypeOK
<1>2. QueueTypeOK' BY <1>1 DEF Begin, QueueTypeOK
<1>3. OneHolder' BY <1>1 DEF Begin, Begun, QueueTypeOK, OneHolder
<1>4. OwnerInv' BY DEF OwnerInv, ThreadEnded
<1>5. StatusInv' BY DEF Begin, OwnerInv, StatusInv, Drained
<1> QED BY <1>2, <1>3, <1>4, <1>5

LEMMA BegunAfterBegin ==
  ASSUME NEW A, Begin(A), UNCHANGED <<events, current, finalized>>
  PROVE  \A a : Begun(a)' <=> Begun(a) \/ a \in A
BY DEF Begin, Begun

LEMMA BegunAfterFinalize ==
  ASSUME NEW A, Begin(A), FinalizeResult, UNCHANGED events
  PROVE  \A a \in Tag : Begun(a)' <=> Begun(a) \/ a \in A
BY ActionQueueAssumption DEF Begin, Begun, FinalizeResult, DeleteAction

LEMMA BegunAfterReturn ==
  ASSUME QueueTypeOK,
         \/ UNCHANGED <<pending, events, current, finalized>>
         \/ GotEvent
         \/ \E a, ok : Complete({a}, ok)
  PROVE  \A a \in Tag : Begun(a)' <=> Begun(a)
<1>1. CASE UNCHANGED <<pending, events, current, finalized>> BY <1>1 DEF Begun
<1>2. CASE GotEvent
  <2> PICK e \in events : events' = events \ {e} /\ current' = e.tag
    BY <1>2 DEF GotEvent
  <2>1. current = NoTag /\ UNCHANGED <<pending, finalized>>
    BY <1>2 DEF GotEvent, QueueTypeOK
  <2> QED BY <2>1, ActionQueueAssumption DEF Begun
<1>3. CASE \E a, ok : Complete({a}, ok)
  <2> PICK a, ok : Complete({a}, ok) BY <1>3
  <2>1. /\ a \in pending /\ pending' = pending \ {a}
        /\ events' = events \cup {[tag |-> a, ok |-> ok]}
        /\ UNCHANGED <<current, finalized>>
    BY DEF Complete, pollVars
  <2> DEFINE x == [tag |-> a, ok |-> ok]
  <2>2. x.tag = a OBVIOUS
  <2>3. events' = events \cup {x} BY <2>1
  <2> HIDE DEF x
  <2> QED BY <2>1, <2>2, <2>3 DEF Begun
<1> QED BY <1>1, <1>2, <1>3

-----------------------------------------------------------------------------
(* The order of operations.                                                *)

\* The writer's finish after operation w cannot have been made while w is being
\* finalised.
LEMMA FinishIsNew ==
  ASSUME QueueIInv, OpsInOrder, NEW c \in Call, NEW w \in WriteOp,
         current = StreamAction(w, c)
  PROVE  ~Made(FinishAfter(w), c)
<1>1. current \notin finalized BY DEF QueueIInv, OneHolder
<1> QED BY <1>1 DEF OpsInOrder

\* Nothing begins, and no queue changes.
LEMMA OrderKept ==
  ASSUME OpsInOrder, UNCHANGED <<actions, asked>>, finalized \subseteq finalized',
         \A a \in Tag : Begun(a)' <=> Begun(a),
         \A c \in Call : /\ step[c] # "none" => step'[c] # "none"
                         /\ asked[c] # {} => step'[c] = "registered"
  PROVE  OpsInOrder'
<1> SUFFICES ASSUME NEW c \in Call
             PROVE  /\ (Begun(StreamAction("call", c)) => step[c] # "none")'
                    /\ (\A o \in AppOp : Made(o, c) => o \in asked[c])'
                    /\ (\A o \in WriteOp : Made(FinishAfter(o), c) =>
                                             StreamAction(o, c) \in finalized)'
                    /\ (\A o \in Op : actions[c] = <<o>> => ~Begun(StreamAction(o, c)))'
                    /\ (asked[c] # {} => step[c] = "registered")'
  BY DEF OpsInOrder
<1>1. \A o \in Op : Begun(StreamAction(o, c))' <=> Begun(StreamAction(o, c))
  BY OpFacts
<1>2. \A o \in Op : Made(o, c)' <=> Made(o, c) BY <1>1 DEF Made
<1> QED BY <1>1, <1>2, OpFacts DEF OpsInOrder

\* The operations of P begin: those were queued, or are new finishes of F.
LEMMA OrderPerformed ==
  ASSUME OpsInOrder, NEW c \in Call, NEW P \in SUBSET (Op \ {"call"}),
         NEW F \in SUBSET (FinishOp \ AppOp), NEW q,
         UNCHANGED <<asked, step>>, finalized \subseteq finalized',
         actions \in [Call -> Seq(Op \ {"call"})],
         actions' = [actions EXCEPT ![c] = q],
         q = <<>> \/ \E f \in F : f \notin P /\ ~Begun(StreamAction(f, c)) /\ q = <<f>>,
         \A a \in Tag : Begun(a)' <=> Begun(a) \/ a \in {StreamAction(o, c) : o \in P},
         \A o \in P : actions[c] = <<o>> \/ o \in F,
         \A w \in WriteOp : FinishAfter(w) \in F => StreamAction(w, c) \in finalized'
  PROVE  OpsInOrder'
<1> SUFFICES ASSUME NEW d \in Call
             PROVE  /\ (Begun(StreamAction("call", d)) => step[d] # "none")'
                    /\ (\A o \in AppOp : Made(o, d) => o \in asked[d])'
                    /\ (\A o \in WriteOp : Made(FinishAfter(o), d) =>
                                             StreamAction(o, d) \in finalized)'
                    /\ (\A o \in Op : actions[d] = <<o>> => ~Begun(StreamAction(o, d)))'
                    /\ (asked[d] # {} => step[d] = "registered")'
  BY DEF OpsInOrder
<1>1. CASE d # c
  <2>1. \A o \in Op : Begun(StreamAction(o, d))' <=> Begun(StreamAction(o, d))
    BY <1>1, OpFacts
  <2>2. actions'[d] = actions[d] BY <1>1
  <2>3. \A o \in Op : Made(o, d)' <=> Made(o, d) BY <2>1, <2>2 DEF Made
  <2> QED BY <2>1, <2>2, <2>3, OpFacts DEF OpsInOrder
<1>2. CASE d = c
  <2>1. \A o \in Op : Begun(StreamAction(o, c))' <=> Begun(StreamAction(o, c)) \/ o \in P
    BY OpFacts
  <2>2. actions'[c] = q OBVIOUS
  <2>3. \A o \in Op : actions'[c] = <<o>> => o \in F /\ o \notin P /\ ~Begun(StreamAction(o, c))
    <3> TAKE o \in Op
    <3> HAVE actions'[c] = <<o>>
    <3>1. q = <<o>> /\ q # <<>> BY <2>2, ShortQueues
    <3>2. PICK f \in F : f \notin P /\ ~Begun(StreamAction(f, c)) /\ q = <<f>> BY <3>1
    <3>3. f \in Op BY OpFacts
    <3>4. o = f BY <3>1, <3>2, <3>3, ShortQueues
    <3> QED BY <3>2, <3>4
  <2>4. \A o \in Op : Made(o, c)' => Made(o, c) \/ o \in F
    BY <2>1, <2>3 DEF Made
  <2>5. \A o \in Op : actions'[c] = <<o>> => ~Begun(StreamAction(o, c))'
    BY <2>1, <2>3
  <2>6. Begun(StreamAction("call", c))' => step'[c] # "none"
    BY <2>1, OpFacts DEF OpsInOrder
  <2> QED BY <1>2, <2>4, <2>5, <2>6, OpFacts DEF OpsInOrder
<1> QED BY <1>1, <1>2

\* The same, where the queue is left empty.
LEMMA OrderEmptied ==
  ASSUME OpsInOrder, NEW c \in Call, NEW P \in SUBSET (Op \ {"call"}),
         UNCHANGED <<asked, step>>, finalized \subseteq finalized',
         actions \in [Call -> Seq(Op \ {"call"})],
         actions' = [actions EXCEPT ![c] = <<>>],
         \A a \in Tag : Begun(a)' <=> Begun(a) \/ a \in {StreamAction(o, c) : o \in P},
         \A o \in P : actions[c] = <<o>>
  PROVE  OpsInOrder'
<1> DEFINE F == {}
           q == <<>>
<1>1. F \in SUBSET (FinishOp \ AppOp) OBVIOUS
<1>2. actions' = [actions EXCEPT ![c] = q] OBVIOUS
<1>3. q = <<>> \/ \E f \in F : f \notin P /\ ~Begun(StreamAction(f, c)) /\ q = <<f>>
  OBVIOUS
<1>4. \A o \in P : actions[c] = <<o>> \/ o \in F OBVIOUS
<1>5. \A w \in WriteOp : FinishAfter(w) \in F => StreamAction(w, c) \in finalized' OBVIOUS
<1> HIDE DEF F, q
<1> QED BY <1>1, <1>2, <1>3, <1>4, <1>5, OrderPerformed

-----------------------------------------------------------------------------
(* Steps that leave the completion queue alone.                            *)

LEMMA QueueSame ==
  ASSUME UNCHANGED queueVars
  PROVE  /\ QueueIInv => QueueIInv'
         /\ \A a : Begun(a)' <=> Begun(a)
<1>1. QueueIInv => QueueIInv'
  BY QueueTypeStep, OneHolderStep, ShutdownStep DEF QueueIInv
<1>2. \A a : Begun(a)' <=> Begun(a) BY DEF Begun, queueVars, grpcVars, pollVars
<1> QED BY <1>1, <1>2

LEMMA ReasonKept ==
  ASSUME \A c \in Call : rpc[c] # "none" => rpc'[c] # "none",
         \A a \in Tag : Begun(a) => Begun(a)'
  PROVE  \A c \in Call, o \in WriteOp : WriteFails(c, o) => WriteFails(c, o)'
<1>1. \A c \in Call : StreamAction("last", c) \in Tag BY OpFacts DEF WriteOp
<1> QED BY <1>1 DEF WriteFails

LEMMA FailedKept ==
  ASSUME FailedWithReason, UNCHANGED <<events, current, currentOk>>,
         \A c \in Call : rpc[c] # "none" => rpc'[c] # "none",
         \A a \in Tag : Begun(a) => Begun(a)'
  PROVE  FailedWithReason'
BY ReasonKept DEF FailedWithReason

\* A step of which only the parts on types and on who is inside need to be looked at.
LEMMA QuietStep ==
  ASSUME StreamIInv, Running, StreamTypeOK', KeptAndLeft',
         UNCHANGED <<queueVars, trying, actions, asked, response>>,
         \A c \in Call : /\ rpc[c] # "none" => rpc'[c] # "none"
                         /\ step[c] # "none" => step'[c] # "none"
                         /\ asked[c] # {} => step'[c] = "registered"
  PROVE  StreamIInv'
<1> USE DEF StreamIInv
<1>1. QueueIInv' BY QueueSame
<1>2. QueueIsShort' BY DEF QueueIsShort
<1>3. OpsInOrder' BY QueueSame, OrderKept DEF queueVars, pollVars
<1>4. FailedWithReason' BY QueueSame, FailedKept DEF queueVars, grpcVars, pollVars
<1>5. Delivered' BY DEF Delivered, queueVars, pollVars
<1>6. BegunTooLate' BY DEF BegunTooLate, Running, queueVars, grpcVars
<1> QED BY <1>1, <1>2, <1>3, <1>4, <1>5, <1>6

\* NewStreamWriter and AddStreamingCall; UseWildWriter; what gRPC does with the rpc;
\* Release.
LEMMA CallSteps ==
  ASSUME StreamIInv, NEW c \in Call, NewStreamWriter(c) \/ AddStreamingCall(c)
  PROVE  StreamIInv'
<1>1. QueueIInv' /\ Running /\ step[c] \in {"constructing", "constructed"}
      /\ UNCHANGED <<queueVars, trying, actions, asked, response, rpc>>
  BY QueueSame DEF StreamIInv, NewStreamWriter, AddStreamingCall, Goes, writerVars
<1>2. StreamTypeOK'
  BY <1>1 DEF StreamIInv, StreamTypeOK, QueueIInv, NewStreamWriter, AddStreamingCall,
              Goes, KeepCall, writerVars
<1>3. owner = "running" /\ owner' = "running" /\ asked[c] = {}
  BY <1>1 DEF StreamIInv, KeptAndLeft, OpsInOrder, queueVars
<1>4. KeptAndLeft'
  BY <1>3 DEF StreamIInv, StreamTypeOK, KeptAndLeft, NewStreamWriter, AddStreamingCall,
              Goes, KeepCall
<1>5. \A d \in Call : /\ step[d] # "none" => step'[d] # "none"
                      /\ asked[d] # {} => step'[d] = "registered"
  BY <1>3 DEF StreamIInv, StreamTypeOK, OpsInOrder, NewStreamWriter, AddStreamingCall, Goes
<1> QED BY <1>1, <1>2, <1>4, <1>5, QuietStep

LEMMA AsideSteps ==
  ASSUME StreamIInv, NEW c \in Call,
         UseWildWriter(c) \/ ServerAnswers(c) \/ EndsEarly(c) \/ Release(c)
  PROVE  StreamIInv'
<1>1. QueueIInv' /\ Running /\ UNCHANGED <<queueVars, step, streamingCalls>>
      /\ UNCHANGED <<trying, actions, asked, response>>
  BY QueueSame DEF StreamIInv, UseWildWriter, ServerAnswers, EndsEarly, Release,
                   Current, writerVars
<1>2. StreamTypeOK'
  BY <1>1 DEF StreamIInv, StreamTypeOK, QueueIInv, UseWildWriter, ServerAnswers, EndsEarly,
              Release, writerVars
<1>3. KeptAndLeft' BY <1>1 DEF StreamIInv, KeptAndLeft, queueVars
<1>4. \A d \in Call : /\ rpc[d] # "none" => rpc'[d] # "none"
                      /\ step[d] # "none" => step'[d] # "none"
                      /\ asked[d] # {} => step'[d] = "registered"
  BY <1>1 DEF StreamIInv, StreamTypeOK, OpsInOrder, UseWildWriter, ServerAnswers, EndsEarly,
              Release
<1> QED BY <1>1, <1>2, <1>3, <1>4, QuietStep

-----------------------------------------------------------------------------
(* Steps of the application that make an operation.                        *)

LEMMA ConstructStep ==
  ASSUME StreamIInv, NEW c \in Call, Construct(c)
  PROVE  StreamIInv'
<1> DEFINE a == StreamAction("call", c)
<1> USE DEF StreamIInv
<1>1. /\ owner = "running" /\ ~misused /\ ~down /\ step[c] = "none"
      /\ step' = [step EXCEPT ![c] = "constructing"] /\ Begin({a})
      /\ UNCHANGED <<events, down, pollVars, owner>>
      /\ UNCHANGED <<writerFuture, writerVars, rpc, response, streamingCalls, dead>>
  BY DEF Construct, Goes, Running, QueueIInv, OwnerInv
<1>2. a \in Tag /\ ~Begun(a) BY <1>1, OpFacts DEF OpsInOrder
<1>3. QueueIInv' BY <1>1, <1>2, BeginKeepsQueue
<1>4. StreamTypeOK' BY <1>1, <1>3 DEF StreamTypeOK, QueueIInv, writerVars
<1>5. QueueIsShort' BY <1>1 DEF QueueIsShort, writerVars
<1>6. \A b : Begun(b)' <=> Begun(b) \/ b = a
  BY <1>1, BegunAfterBegin DEF pollVars
<1>7. OpsInOrder'
  <2> SUFFICES ASSUME NEW d \in Call
               PROVE  /\ (Begun(StreamAction("call", d)) => step[d] # "none")'
                      /\ (\A o \in AppOp : Made(o, d) => o \in asked[d])'
                      /\ (\A o \in WriteOp : Made(FinishAfter(o), d) =>
                                               StreamAction(o, d) \in finalized)'
                      /\ (\A o \in Op : actions[d] = <<o>> => ~Begun(StreamAction(o, d)))'
                      /\ (asked[d] # {} => step[d] = "registered")'
    BY DEF OpsInOrder
  <2>1. \A o \in Op \ {"call"} : Begun(StreamAction(o, d))' <=> Begun(StreamAction(o, d))
    BY <1>6, OpFacts
  <2>2. \A o \in Op \ {"call"} : Made(o, d)' <=> Made(o, d)
    BY <1>1, <2>1 DEF Made, writerVars
  <2>3. actions'[d] # <<"call">>
    BY <1>1, ShortQueues, OpFacts DEF QueueIsShort, writerVars
  <2>4. Begun(StreamAction("call", d))' => step'[d] # "none"
    BY <1>1, <1>6, OpFacts DEF OpsInOrder, StreamTypeOK
  <2>5. asked'[d] # {} => step'[d] = "registered"
    BY <1>1 DEF OpsInOrder, StreamTypeOK, writerVars
  <2> QED BY <1>1, <2>1, <2>2, <2>3, <2>4, <2>5, OpFacts
      DEF OpsInOrder, writerVars, pollVars
<1>8. KeptAndLeft' BY <1>1 DEF KeptAndLeft, StreamTypeOK
<1>9. FailedWithReason' BY <1>1, <1>6, FailedKept DEF pollVars
<1>10. Delivered' BY <1>1 DEF Delivered, pollVars
<1>11. BegunTooLate' BY <1>1 DEF BegunTooLate, Begin
<1> QED BY <1>3, <1>4, <1>5, <1>7, <1>8, <1>9, <1>10, <1>11

LEMMA AskStep ==
  ASSUME StreamIInv, NEW c \in Call, NEW o \in AppOp, Ask(c, o)
  PROVE  StreamIInv'
<1> USE DEF StreamIInv
<1>1. /\ owner = "running" /\ ~misused /\ step[c] = "registered" /\ c \notin trying
      /\ o \notin asked[c] /\ o \in Op \ {"call"}
      /\ asked' = [asked EXCEPT ![c] = @ \cup {o}] /\ trying' = trying \cup {c}
      /\ actions' = [actions EXCEPT ![c] = Append(@, o)]
      /\ UNCHANGED <<queueVars, step, writerFuture, state, released, rpc, response,
                     streamingCalls, dead>>
  BY OpFacts DEF Ask, Running
<1>2. actions[c] = <<>> BY <1>1 DEF QueueIsShort
<1>3. actions' = [actions EXCEPT ![c] = <<o>>]
  BY <1>1, <1>2, ShortQueues DEF StreamTypeOK
<1>4. QueueIInv' BY <1>1, QueueSame
<1>5. StreamTypeOK'
  <2>1. <<o>> \in Seq(Op \ {"call"}) BY <1>1
  <2>2. actions' \in [Call -> Seq(Op \ {"call"})] BY <1>3, <2>1 DEF StreamTypeOK
  <2> QED BY <1>1, <1>4, <2>2 DEF StreamTypeOK, QueueIInv
<1>6. QueueIsShort'
  <2> SUFFICES ASSUME NEW d \in Call
               PROVE  \/ actions'[d] = <<>>
                      \/ d \in trying' /\ \E p \in Op \ {"call"} : actions'[d] = <<p>>
    BY DEF QueueIsShort
  <2> QED BY <1>1, <1>3 DEF QueueIsShort, StreamTypeOK
<1>7. OpsInOrder'
  <2> SUFFICES ASSUME NEW d \in Call
               PROVE  /\ (Begun(StreamAction("call", d)) => step[d] # "none")'
                      /\ (\A p \in AppOp : Made(p, d) => p \in asked[d])'
                      /\ (\A p \in WriteOp : Made(FinishAfter(p), d) =>
                                               StreamAction(p, d) \in finalized)'
                      /\ (\A p \in Op : actions[d] = <<p>> => ~Begun(StreamAction(p, d)))'
                      /\ (asked[d] # {} => step[d] = "registered")'
    BY DEF OpsInOrder
  <2>1. \A b : Begun(b)' <=> Begun(b) BY <1>1, QueueSame
  <2>2. \A p \in Op : actions'[d] = <<p>> => actions[d] = <<p>> \/ (d = c /\ p = o)
    <3>1. CASE d # c BY <1>3, <3>1
    <3>2. CASE d = c
      <4>1. actions'[d] = <<o>> BY <1>3, <3>2 DEF StreamTypeOK
      <4> QED BY <1>1, <3>2, <4>1, ShortQueues
    <3> QED BY <3>1, <3>2
  <2>3. \A p \in Op : Made(p, d)' => Made(p, d) \/ (d = c /\ p = o)
    BY <2>1, <2>2 DEF Made
  <2>4. ~Begun(StreamAction(o, c)) BY <1>1 DEF OpsInOrder, Made
  <2>5. /\ asked[d] \subseteq asked'[d] /\ (d = c => o \in asked'[d])
        /\ (asked'[d] # {} => step'[d] = "registered")
    BY <1>1 DEF OpsInOrder, StreamTypeOK
  <2>6. finalized' = finalized /\ step' = step BY <1>1 DEF queueVars, pollVars
  <2> QED BY <2>1, <2>2, <2>3, <2>4, <2>5, <2>6, OpFacts DEF OpsInOrder
<1>8. KeptAndLeft' BY <1>1 DEF KeptAndLeft, queueVars
<1>9. FailedWithReason' BY <1>1, QueueSame, FailedKept DEF queueVars, grpcVars, pollVars
<1>10. Delivered' BY <1>1 DEF Delivered, queueVars, pollVars
<1>11. BegunTooLate' BY <1>1 DEF BegunTooLate, queueVars, grpcVars
<1> QED BY <1>4, <1>5, <1>6, <1>7, <1>8, <1>9, <1>10, <1>11

-----------------------------------------------------------------------------
(* Steps that perform operations.                                          *)

\* A queue is emptied into at most one operation.
LEMMA PerformShape ==
  ASSUME StreamIInv, NEW c \in Call, NEW s, NEW P,
         P = TryPerforms(actions[c], s) \/ P = LoopPerforms(actions[c], s)
  PROVE  /\ P \in SUBSET (Op \ {"call"})
         /\ \A o \in P : actions[c] = <<o>>
         /\ TryLeaves(actions[c]) = <<>>
<1>1. CASE actions[c] = <<>> BY <1>1, ShortQueues, OpFacts
<1>2. CASE \E o \in Op \ {"call"} : actions[c] = <<o>>
  <2> PICK o \in Op \ {"call"} : actions[c] = <<o>> BY <1>2
  <2>1. P \subseteq {o} /\ TryLeaves(actions[c]) = <<>> BY ShortQueues
  <2> QED BY <2>1
<1> QED BY <1>1, <1>2 DEF StreamIInv, QueueIsShort

LEMMA NewActions ==
  ASSUME NEW c \in Call, NEW P \in SUBSET Op, NEW A,
         A = {StreamAction(o, c) : o \in P},
         \A o \in P : ~Begun(StreamAction(o, c))
  PROVE  A \in SUBSET Tag /\ \A a \in A : ~Begun(a)
BY OpFacts

LEMMA TryStep ==
  ASSUME StreamIInv, NEW c \in Call, Try(c)
  PROVE  StreamIInv'
<1> DEFINE P == TryPerforms(actions[c], state[c])
           A == {StreamAction(o, c) : o \in P}
<1> USE DEF StreamIInv
<1>1. /\ c \in trying /\ trying' = trying \ {c} /\ ~misused
      /\ Begin(A) /\ state' = [state EXCEPT ![c] = IF P = {} THEN @ ELSE "Processing"]
      /\ dead' = StreamMisuse(c, P)
      /\ actions' = [actions EXCEPT ![c] = TryLeaves(@)]
      /\ UNCHANGED <<events, down, pollVars, owner>>
      /\ UNCHANGED <<step, writerFuture, asked, released, rpc, response, streamingCalls>>
  BY DEF Try, Perform, Running
<1>2. P \in SUBSET (Op \ {"call"}) /\ (\A o \in P : actions[c] = <<o>>)
      /\ TryLeaves(actions[c]) = <<>>
  <2>1. P = TryPerforms(actions[c], state[c]) OBVIOUS
  <2> HIDE DEF P, StreamIInv
  <2> QED BY <2>1, PerformShape
<1>3. \A o \in P : ~Begun(StreamAction(o, c)) BY <1>2, OpFacts DEF OpsInOrder
<1>4. A \in SUBSET Tag /\ \A a \in A : ~Begun(a) BY <1>2, <1>3, NewActions
<1> HIDE DEF P
<1>5. owner = "running" /\ ~down BY <1>1 DEF KeptAndLeft, QueueIInv, OwnerInv
<1>6. QueueIInv' BY <1>1, <1>4, <1>5, BeginKeepsQueue
<1>7. actions' = [actions EXCEPT ![c] = <<>>] BY <1>1, <1>2
<1>8. StreamTypeOK'
  <2>1. dead' \in BOOLEAN BY <1>1 DEF StreamMisuse
  <2> QED BY <1>1, <1>6, <1>7, <2>1 DEF StreamTypeOK, QueueIInv
<1>9. QueueIsShort' BY <1>1, <1>7 DEF QueueIsShort, StreamTypeOK
<1>10. OpsInOrder'
  <2>1. \A a \in Tag : Begun(a)' <=> Begun(a) \/ a \in A
    BY <1>1, BegunAfterBegin DEF pollVars
  <2>2. finalized \subseteq finalized' /\ UNCHANGED <<asked, step>> BY <1>1 DEF pollVars
  <2>3. actions \in [Call -> Seq(Op \ {"call"})] BY DEF StreamTypeOK
  <2> QED BY <1>2, <1>7, <2>1, <2>2, <2>3, OrderEmptied
<1>11. KeptAndLeft' BY <1>1 DEF KeptAndLeft
<1>12. FailedWithReason' BY <1>1, BegunAfterBegin, FailedKept DEF pollVars
<1>13. Delivered' BY <1>1 DEF Delivered, pollVars
<1>14. BegunTooLate' BY <1>1, <1>5 DEF BegunTooLate, Begin
<1> QED BY <1>6, <1>8, <1>9, <1>10, <1>11, <1>12, <1>13, <1>14

-----------------------------------------------------------------------------
(* Steps of gRPC and of the owner, and the queue thread outside of           *)
(* finalizeResult.                                                         *)

\* What leaves the calls and their responses alone, and begins and finalises nothing.
LEMMA PassingStep ==
  ASSUME StreamIInv, Running, QueueIInv', FailedWithReason', KeptAndLeft',
         streamingCalls' \subseteq streamingCalls,
         UNCHANGED <<misused, finalized>>,
         \A a \in Tag : Begun(a)' <=> Begun(a),
         UNCHANGED <<step, writerFuture, writerVars, rpc, response, dead>>
  PROVE  StreamIInv'
<1> USE DEF StreamIInv
<1>1. StreamTypeOK' BY DEF StreamTypeOK, QueueIInv, writerVars
<1>2. QueueIsShort' BY DEF QueueIsShort, writerVars
<1>3. OpsInOrder'
  <2>1. UNCHANGED <<actions, asked, step, finalized>> BY DEF writerVars
  <2>2. \A c \in Call : asked[c] # {} => step[c] = "registered" BY DEF OpsInOrder
  <2> QED BY <2>1, <2>2, OrderKept
<1>4. Delivered' BY DEF Delivered
<1>5. BegunTooLate' BY DEF BegunTooLate, Running
<1> QED BY <1>1, <1>2, <1>3, <1>4, <1>5

LEMMA ReturnsStep ==
  ASSUME StreamIInv, NEW c \in Call, NEW o \in Op, Returns(c, o)
  PROVE  StreamIInv'
<1> DEFINE a == StreamAction(o, c)
           ok == ~(o \in WriteOp /\ WriteFails(c, o))
           x == [tag |-> a, ok |-> ok]
<1>1. /\ Running /\ Complete({a}, ok)
      /\ UNCHANGED <<step, writerFuture, writerVars, rpc, response, streamingCalls, dead>>
  BY DEF Returns
<1>2. a \in Tag /\ ok \in BOOLEAN BY OpFacts
<1>3. x.tag = a /\ x.ok = ok OBVIOUS
<1>4. events' = events \cup {x} /\ UNCHANGED <<down, misused, pollVars, owner>>
  BY <1>1 DEF Complete
<1>5. QueueNext
  <2> HIDE DEF a, ok
  <2> QED BY <1>1, <1>2 DEF QueueNext
<1>6. QueueIInv'
  BY <1>5, QueueTypeStep, OneHolderStep, ShutdownStep DEF StreamIInv, QueueIInv
<1>7. \A b \in Tag : Begun(b)' <=> Begun(b)
  <2>1. QueueTypeOK BY DEF StreamIInv, QueueIInv
  <2>2. \E b, k : Complete({b}, k) BY <1>1
  <2> QED BY <2>1, <2>2, BegunAfterReturn
<1>8. FailedWithReason'
  <2>1. ~ok => o \in WriteOp /\ WriteFails(c, o) OBVIOUS
  <2>2. FailedWithReason BY DEF StreamIInv
  <2>3. UNCHANGED <<current, currentOk, rpc>> BY <1>1, <1>4 DEF pollVars
  <2> HIDE DEF x, ok
  <2> SUFFICES ASSUME NEW d \in Call, NEW p \in WriteOp
               PROVE  /\ (\A e \in events : e.tag = StreamAction(p, d) /\ ~e.ok =>
                                              WriteFails(d, p))'
                      /\ (current = StreamAction(p, d) /\ ~currentOk => WriteFails(d, p))'
    BY DEF FailedWithReason
  <2>4. x.tag = StreamAction(p, d) => d = c /\ p = o BY <1>3, OpFacts
  <2>5. WriteFails(d, p) => WriteFails(d, p)' BY <1>1, <1>7, ReasonKept
  <2> QED BY <1>3, <1>4, <2>1, <2>2, <2>3, <2>4, <2>5 DEF FailedWithReason
<1>9. KeptAndLeft' BY <1>1, <1>4 DEF StreamIInv, KeptAndLeft, writerVars
<1> QED BY <1>1, <1>4, <1>6, <1>7, <1>8, <1>9, PassingStep DEF pollVars

LEMMA PollsStep ==
  ASSUME StreamIInv, Polls
  PROVE  StreamIInv'
<1>1. /\ Running /\ (GotEvent \/ SawShutdown \/ Store)
      /\ UNCHANGED <<step, writerFuture, writerVars, rpc, response, streamingCalls, dead>>
  BY DEF Polls
<1>2. QueueNext BY <1>1 DEF QueueNext, PollNext
<1>3. QueueIInv'
  BY <1>2, QueueTypeStep, OneHolderStep, ShutdownStep DEF StreamIInv, QueueIInv
<1>4. QueueTypeOK BY DEF StreamIInv, QueueIInv
<1>5. UNCHANGED <<misused, finalized, owner>>
  BY <1>1 DEF GotEvent, SawShutdown, Store, grpcVars
<1>6. /\ \A b \in Tag : Begun(b)' <=> Begun(b)
      /\ FailedWithReason'
  <2>1. CASE GotEvent
    <3>1. \A b \in Tag : Begun(b)' <=> Begun(b) BY <1>4, <2>1, BegunAfterReturn
    <3>2. FailedWithReason
      BY DEF StreamIInv
    <3>3. PICK e \in events : /\ events' = events \ {e}
                              /\ current' = e.tag /\ currentOk' = e.ok
      BY <2>1 DEF GotEvent
    <3>4. FailedWithReason' BY <1>1, <3>1, <3>2, <3>3, ReasonKept DEF FailedWithReason
    <3> QED BY <3>1, <3>4
  <2>2. CASE SawShutdown \/ Store
    <3>1. UNCHANGED <<pending, events, current, currentOk, finalized>>
      BY <2>2 DEF SawShutdown, Store, grpcVars
    <3>2. \A b \in Tag : Begun(b)' <=> Begun(b) BY <3>1 DEF Begun
    <3>3. FailedWithReason' BY <1>1, <3>1, <3>2, FailedKept DEF StreamIInv
    <3> QED BY <3>2, <3>3
  <2> QED BY <1>1, <2>1, <2>2
<1>7. KeptAndLeft' BY <1>1, <1>5 DEF StreamIInv, KeptAndLeft, writerVars
<1> QED BY <1>1, <1>3, <1>5, <1>6, <1>7, PassingStep

LEMMA OwnerSteps ==
  ASSUME StreamIInv, StartThread \/ ShutdownClient \/ JoinThread \/ DestroyClient
  PROVE  StreamIInv'
<1>1. /\ Running /\ (StartPolling \/ Shutdown \/ Joined \/ Destroyed)
      /\ UNCHANGED <<step, writerFuture, writerVars, rpc, response, dead>>
      /\ streamingCalls' \subseteq streamingCalls
  BY DEF StartThread, ShutdownClient, JoinThread, DestroyClient, ClientOnly
<1>2. QueueNext BY <1>1 DEF QueueNext, OwnerNext
<1>3. QueueIInv'
  BY <1>2, QueueTypeStep, OneHolderStep, ShutdownStep DEF StreamIInv, QueueIInv
<1>4. UNCHANGED <<pending, events, misused, current, currentOk, finalized>>
  BY <1>1 DEF StartPolling, Shutdown, Joined, Destroyed, grpcVars, pollVars
<1>5. \A b \in Tag : Begun(b)' <=> Begun(b) BY <1>4 DEF Begun
<1>6. FailedWithReason' BY <1>1, <1>4, <1>5, FailedKept DEF StreamIInv
<1>7. KeptAndLeft'
  <2> USE DEF StreamIInv, StreamTypeOK, KeptAndLeft, ClientOnly, writerVars
  <2>1. CASE StartThread BY <2>1 DEF StartThread, StartPolling
  <2>2. CASE ShutdownClient BY <2>2 DEF ShutdownClient, Shutdown
  <2>3. CASE JoinThread BY <2>3, ClientStreamCallAssumption DEF JoinThread, Joined
  <2>4. CASE DestroyClient BY <2>4 DEF DestroyClient, Destroyed
  <2> QED BY <2>1, <2>2, <2>3, <2>4
<1> QED BY <1>1, <1>3, <1>4, <1>5, <1>6, <1>7, PassingStep

-----------------------------------------------------------------------------
(* finalizeResult: an action is deleted, and the operations of P begin.    *)

LEMMA FinalizeShape ==
  ASSUME StreamIInv, NEW c \in Call, NEW ops \in SUBSET Op, Finalizing(c, ops),
         NEW P \in SUBSET Op, \A o \in P : ~Begun(StreamAction(o, c)),
         Begin({StreamAction(o, c) : o \in P})
  PROVE  /\ QueueIInv' /\ KeptAndLeft' /\ FailedWithReason' /\ ~misused
         /\ \A a \in Tag : Begun(a)' <=> Begun(a) \/ a \in {StreamAction(o, c) : o \in P}
         /\ finalized' = finalized \cup {current}
         /\ down => owner = "joining" /\ \A d \in Call : actions[d] = <<>>
<1> DEFINE A == {StreamAction(o, c) : o \in P}
<1>1. /\ FinalizeResult /\ Running
      /\ UNCHANGED <<events, down, owner, step, trying, asked, rpc, streamingCalls>>
  BY DEF Finalizing, Current
<1>2. A \in SUBSET Tag /\ \A a \in A : ~Begun(a) BY NewActions
<1>3. Begin(A) OBVIOUS
<1> HIDE DEF A
<1>4. QueueIInv' BY <1>1, <1>2, <1>3, FinalizeKeepsQueue DEF StreamIInv
<1>5. \A a \in Tag : Begun(a)' <=> Begun(a) \/ a \in A
  BY <1>1, <1>3, BegunAfterFinalize
<1>6. finalized' = finalized \cup {current} /\ current' = NoTag /\ polling = "finalize"
  BY <1>1 DEF FinalizeResult, DeleteAction
<1>7. KeptAndLeft' BY <1>1 DEF StreamIInv, KeptAndLeft
<1>8. FailedWithReason' BY <1>1, <1>5, <1>6, ReasonKept, OpFacts DEF StreamIInv, FailedWithReason
<1>9. down => owner = "joining" /\ \A d \in Call : actions[d] = <<>>
  BY <1>6, ClientStreamCallAssumption, OwnerOfThread
     DEF StreamIInv, QueueIInv, QueueTypeOK, KeptAndLeft, QueueIsShort
<1> QED BY <1>1, <1>4, <1>5, <1>6, <1>7, <1>8, <1>9 DEF A, Running

\* The CallAction and the finishes begin nothing.
LEMMA FinalizeQuietSteps ==
  ASSUME StreamIInv, NEW c \in Call, FinalizeReady(c) \/ FinalizeFinish(c)
  PROVE  StreamIInv'
<1>1. PICK ops \in {{"call"}, FinishOp} :
        /\ Finalizing(c, ops)
        /\ ops = {"call"} => response' = response
        /\ ops = FinishOp => response' = response \cup {c}
  BY OpFacts DEF FinalizeReady, FinalizeFinish, Responded
<1>2. UNCHANGED <<pending, misused, actions, state, dead>> /\ ops \in SUBSET Op
  BY <1>1, OpFacts DEF FinalizeReady, FinalizeFinish
<1> DEFINE P == {}
           A == {StreamAction(o, c) : o \in P}
<1>3. P \in SUBSET Op /\ (\A o \in P : ~Begun(StreamAction(o, c))) OBVIOUS
<1>4. A = {} OBVIOUS
<1>5. Begin(A)
  <2>1. misused \in BOOLEAN BY DEF StreamIInv, QueueIInv, QueueTypeOK
  <2> HIDE DEF A
  <2> QED BY <1>2, <1>4, <2>1 DEF Begin
<1> HIDE DEF P
<1>6. /\ QueueIInv' /\ KeptAndLeft' /\ FailedWithReason' /\ ~misused
      /\ \A a \in Tag : Begun(a)' <=> Begun(a) \/ a \in A
      /\ finalized' = finalized \cup {current}
  BY <1>1, <1>2, <1>3, <1>5, FinalizeShape
<1> HIDE DEF A
<1>7. UNCHANGED <<step, trying, asked, rpc, streamingCalls>> /\ released' = FALSE
  BY <1>1 DEF Finalizing
<1>8. PICK o \in ops : current = StreamAction(o, c) BY <1>1 DEF Finalizing, Current
<1> USE DEF StreamIInv
<1>9. StreamTypeOK'
  <2>1. writerFuture' \in [Call -> {"none", "wild", "writer"}]
    BY DEF StreamTypeOK, FinalizeReady, FinalizeFinish, StreamWriterOf
  <2> QED BY <1>1, <1>2, <1>6, <1>7, <2>1 DEF StreamTypeOK, QueueIInv
<1>10. QueueIsShort' BY <1>2, <1>7 DEF QueueIsShort
<1>11. OpsInOrder'
  <2>1. \A a \in Tag : Begun(a)' <=> Begun(a) BY <1>4, <1>6
  <2>2. \A d \in Call : asked[d] # {} => step[d] = "registered" BY DEF OpsInOrder
  <2> QED BY <1>2, <1>6, <1>7, <2>1, <2>2, OrderKept
<1>12. Delivered'
  <2>1. CASE ops = {"call"}
    BY <1>1, <1>6, <1>8, <2>1, OpFacts DEF Delivered
  <2>2. CASE ops = FinishOp
    BY <1>1, <1>6, <1>8, <2>2, OpFacts DEF Delivered
  <2> QED BY <1>1, <2>1, <2>2
<1>13. BegunTooLate' BY <1>2, <1>6 DEF BegunTooLate
<1> QED BY <1>6, <1>9, <1>10, <1>11, <1>12, <1>13

LEMMA FinalizeWriteOkStep ==
  ASSUME StreamIInv, NEW c \in Call, FinalizeWriteOk(c)
  PROVE  StreamIInv'
<1> DEFINE P == LoopPerforms(actions[c], current[1])
           A == {StreamAction(o, c) : o \in P}
<1>1. /\ Finalizing(c, WriteOp) /\ Begin(A)
      /\ state' = [state EXCEPT ![c] = IF P = {} THEN @ ELSE "Processing"]
      /\ dead' = StreamMisuse(c, P)
      /\ actions' = [actions EXCEPT ![c] = <<>>]
      /\ UNCHANGED <<writerFuture, response>>
  BY DEF FinalizeWriteOk, Perform
<1>2. P \in SUBSET (Op \ {"call"}) /\ (\A o \in P : actions[c] = <<o>>)
  <2> DEFINE o == current[1]
  <2>1. P = LoopPerforms(actions[c], o) OBVIOUS
  <2> HIDE DEF P, o
  <2> QED BY <2>1, PerformShape
<1> HIDE DEF P
<1>3. \A o \in P : ~Begun(StreamAction(o, c)) BY <1>2, OpFacts DEF StreamIInv, OpsInOrder
<1>4. WriteOp \in SUBSET Op /\ P \in SUBSET Op BY <1>2, OpFacts
<1>5. /\ QueueIInv' /\ KeptAndLeft' /\ FailedWithReason' /\ ~misused
      /\ \A a \in Tag : Begun(a)' <=> Begun(a) \/ a \in A
      /\ finalized' = finalized \cup {current}
      /\ down => owner = "joining" /\ \A d \in Call : actions[d] = <<>>
  BY <1>1, <1>3, <1>4, FinalizeShape
<1>6. UNCHANGED <<step, trying, asked, rpc, streamingCalls>> /\ released' = FALSE
  BY <1>1 DEF Finalizing
<1>7. PICK o \in WriteOp : current = StreamAction(o, c) BY <1>1 DEF Finalizing, Current
<1> USE DEF StreamIInv
<1>8. StreamTypeOK'
  <2>1. dead' \in BOOLEAN BY <1>1 DEF StreamMisuse
  <2>2. actions' \in [Call -> Seq(Op \ {"call"})] BY <1>1 DEF StreamTypeOK
  <2>3. state' \in [Call -> {"Ready", "Processing"}] BY <1>1 DEF StreamTypeOK
  <2> QED BY <1>1, <1>5, <1>6, <2>1, <2>2, <2>3 DEF StreamTypeOK, QueueIInv
<1>9. QueueIsShort' BY <1>1, <1>6 DEF QueueIsShort, StreamTypeOK
<1>10. OpsInOrder'
  <2>1. actions \in [Call -> Seq(Op \ {"call"})] BY DEF StreamTypeOK
  <2>2. finalized \subseteq finalized' BY <1>5
  <2> QED BY <1>1, <1>2, <1>5, <1>6, <2>1, <2>2, OrderEmptied
<1>11. Delivered' BY <1>1, <1>5, <1>7, OpFacts DEF Delivered
<1>12. BegunTooLate'
  <2>1. down => P = {} BY <1>2, <1>5, ShortQueues
  <2>2. down => A = {} BY <2>1
  <2> QED BY <1>1, <1>5, <2>2 DEF BegunTooLate, Begin
<1> QED BY <1>5, <1>8, <1>9, <1>10, <1>11, <1>12

\* The queue with the writer's finish behind it: what was in front of it begins, or,
\* where nothing was, the finish itself.
Shaped(c, P, q, f) ==
  /\ P \in SUBSET (Op \ {"call"}) /\ (\A p \in P : actions[c] = <<p>> \/ p = f)
  /\ f \in FinishOp \ AppOp /\ ~Made(f, c)
  /\ \/ actions[c] = <<>> /\ q = <<>> /\ P \subseteq {f}
     \/ c \in trying /\ q = <<f>> /\ f \notin P

LEMMA FinishShape ==
  ASSUME StreamIInv, NEW c \in Call, NEW o \in WriteOp, current = StreamAction(o, c)
  PROVE  \A s, P, q, f :
           /\ P = TryPerforms(WithFinish(actions[c], o), s)
           /\ q = TryLeaves(WithFinish(actions[c], o)) /\ f = FinishAfter(o)
           => Shaped(c, P, q, f)
<1> TAKE s, P, q, f
<1> HAVE /\ P = TryPerforms(WithFinish(actions[c], o), s)
         /\ q = TryLeaves(WithFinish(actions[c], o)) /\ f = FinishAfter(o)
<1>1. f \in FinishOp \ AppOp /\ f \in Op \ {"call"} /\ ~Made(f, c)
  BY FinishIsNew, OpFacts DEF StreamIInv
<1>2. WithFinish(actions[c], o) = Append(actions[c], f) BY DEF WithFinish
<1>3. CASE actions[c] = <<>>
  <2>1. WithFinish(actions[c], o) = <<f>> BY <1>1, <1>2, <1>3, ShortQueues
  <2>2. TryPerforms(<<f>>, s) \subseteq {f} /\ TryLeaves(<<f>>) = <<>>
    BY <1>1, ShortQueues
  <2> QED BY <1>1, <1>3, <2>1, <2>2 DEF Shaped
<1>4. CASE c \in trying /\ \E p \in Op \ {"call"} : actions[c] = <<p>>
  <2> PICK p \in Op \ {"call"} : actions[c] = <<p>> BY <1>4
  <2>1. p # f BY <1>1 DEF Made
  <2>2. P \subseteq {p} /\ q = <<f>> BY <1>1, <1>2, ShortQueues
  <2> QED BY <1>1, <1>4, <2>1, <2>2 DEF Shaped
<1> QED BY <1>3, <1>4 DEF StreamIInv, QueueIsShort

LEMMA FinalizeWriteFailedStep ==
  ASSUME StreamIInv, NEW c \in Call, FinalizeWriteFailed(c)
  PROVE  StreamIInv'
<1>1. PICK o \in WriteOp : current = StreamAction(o, c)
  BY DEF FinalizeWriteFailed, Finalizing, Current
<1>2. current[1] = o BY <1>1 DEF StreamAction
<1> DEFINE P == TryPerforms(WithFinish(actions[c], o), state[c])
           q == TryLeaves(WithFinish(actions[c], o))
           f == FinishAfter(o)
           F == {f}
           A == {StreamAction(p, c) : p \in P}
<1>3. /\ Finalizing(c, WriteOp) /\ ~currentOk /\ Begin(A)
      /\ state' = [state EXCEPT ![c] = IF P = {} THEN @ ELSE "Processing"]
      /\ dead' = StreamMisuse(c, P)
      /\ actions' = [actions EXCEPT ![c] = q]
      /\ UNCHANGED <<writerFuture, response>>
  BY <1>2 DEF FinalizeWriteFailed, Perform
<1>4. /\ P \in SUBSET (Op \ {"call"}) /\ (\A p \in P : actions[c] = <<p>> \/ p = f)
      /\ f \in FinishOp \ AppOp /\ ~Made(f, c)
      /\ \/ actions[c] = <<>> /\ q = <<>> /\ P \subseteq {f}
         \/ c \in trying /\ q = <<f>> /\ f \notin P
  <2>1. Shaped(c, P, q, f) BY <1>1, FinishShape, Zenon
  <2> QED BY <2>1 DEF Shaped
<1>5. f = FinishAfter(o) OBVIOUS
<1> HIDE DEF P, q, f
<1>6. ~Begun(StreamAction(f, c)) BY <1>4 DEF Made
<1>7. \A p \in P : ~Begun(StreamAction(p, c))
  BY <1>4, <1>6, OpFacts DEF StreamIInv, OpsInOrder
<1>8. WriteOp \in SUBSET Op /\ P \in SUBSET Op BY <1>4, OpFacts
<1>9. /\ QueueIInv' /\ KeptAndLeft' /\ FailedWithReason' /\ ~misused
      /\ \A a \in Tag : Begun(a)' <=> Begun(a) \/ a \in A
      /\ finalized' = finalized \cup {current}
      /\ down => owner = "joining" /\ \A d \in Call : actions[d] = <<>>
  BY <1>3, <1>7, <1>8, FinalizeShape
<1>10. UNCHANGED <<owner, step, trying, asked, rpc, streamingCalls>> /\ released' = FALSE
  BY <1>3 DEF Finalizing
<1> USE DEF StreamIInv
<1>11. StreamTypeOK'
  <2>1. dead' \in BOOLEAN BY <1>3 DEF StreamMisuse
  <2>2. q \in Seq(Op \ {"call"})
    <3>1. f \in Op \ {"call"} BY <1>4, OpFacts
    <3>2. <<>> \in Seq(Op \ {"call"}) OBVIOUS
    <3>3. <<f>> \in Seq(Op \ {"call"}) BY <3>1
    <3> QED BY <1>4, <3>2, <3>3
  <2>3. actions' \in [Call -> Seq(Op \ {"call"})] BY <1>3, <2>2 DEF StreamTypeOK
  <2> QED BY <1>3, <1>9, <1>10, <2>1, <2>3 DEF StreamTypeOK, QueueIInv
<1>12. QueueIsShort'
  <2> SUFFICES ASSUME NEW d \in Call
               PROVE  \/ actions'[d] = <<>>
                      \/ d \in trying' /\ \E p \in Op \ {"call"} : actions'[d] = <<p>>
    BY DEF QueueIsShort
  <2>1. CASE d = c
    <3>1. actions'[d] = q BY <1>3, <2>1 DEF StreamTypeOK
    <3> QED BY <1>4, <1>10, <2>1, <3>1, OpFacts
  <2>2. CASE d # c
    <3>1. actions'[d] = actions[d] BY <1>3, <2>2
    <3> QED BY <1>10, <3>1 DEF QueueIsShort
  <2> QED BY <2>1, <2>2
<1>13. OpsInOrder'
  <2>1. actions \in [Call -> Seq(Op \ {"call"})] BY DEF StreamTypeOK
  <2>2. finalized \subseteq finalized' /\ F \in SUBSET (FinishOp \ AppOp) BY <1>4, <1>9
  <2>3. q = <<>> \/ \E g \in F : g \notin P /\ ~Begun(StreamAction(g, c)) /\ q = <<g>>
    BY <1>4, <1>6
  <2>4. \A p \in P : actions[c] = <<p>> \/ p \in F BY <1>4
  <2>5. \A w \in WriteOp : FinishAfter(w) \in F => StreamAction(w, c) \in finalized'
    BY <1>1, <1>5, <1>9, OpFacts
  <2> HIDE DEF F
  <2> QED BY <1>3, <1>4, <1>9, <1>10, <2>1, <2>2, <2>3, <2>4, <2>5, OrderPerformed
<1>14. Delivered' BY <1>1, <1>3, <1>9, OpFacts DEF Delivered
<1>15. BegunTooLate'
  <2> SUFFICES ASSUME misused'
               PROVE  /\ owner' = "joining"
                      /\ \E d \in Call, p \in WriteOp :
                           StreamAction(FinishAfter(p), d) \in pending' /\ WriteFails(d, p)'
                      /\ \A d \in Call : actions'[d] = <<>>
    BY DEF BegunTooLate
  <2>1. down /\ A # {} BY <1>3, <1>9 DEF Begin
  <2>2. owner = "joining" /\ \A d \in Call : actions[d] = <<>> BY <1>9, <2>1
  <2>3. q = <<>> /\ P \subseteq {f}
    BY <1>4, <2>1, <2>2 DEF KeptAndLeft
  <2>4. f \in P BY <2>1, <2>3
  <2>5. StreamAction(f, c) \in pending' BY <1>3, <2>4 DEF Begin
  <2>6. WriteFails(c, o)' BY <1>1, <1>3, <1>9, <1>10, ReasonKept DEF FailedWithReason
  <2>7. \A d \in Call : actions'[d] = <<>> BY <1>3, <2>2, <2>3 DEF StreamTypeOK
  <2> QED BY <1>5, <1>10, <2>2, <2>5, <2>6, <2>7
<1> QED BY <1>9, <1>11, <1>12, <1>13, <1>14, <1>15

-----------------------------------------------------------------------------
(* The inductive invariant, and what follows from it.                      *)

LEMMA StreamInvInit == StreamInit => StreamIInv
<1> SUFFICES ASSUME StreamInit PROVE StreamIInv OBVIOUS
<1>1. QueueIInv BY QueueIInvInit DEF StreamInit
<1>2. \A c \in Call, o \in Op : ~Begun(StreamAction(o, c))
  BY OpFacts DEF StreamInit, QueueInit, Begun
<1>3. \A c \in Call, o \in Op : ~Made(o, c)
  BY <1>2, ShortQueues DEF StreamInit, Made
<1>4. <<>> \in Seq(Op \ {"call"}) OBVIOUS
<1>5. StreamTypeOK BY <1>1, <1>4 DEF StreamInit, StreamTypeOK, QueueIInv
<1>6. QueueIsShort BY DEF StreamInit, QueueIsShort
<1>7. OpsInOrder BY <1>2, <1>3, OpFacts DEF StreamInit, OpsInOrder
<1>8. KeptAndLeft BY DEF StreamInit, QueueInit, KeptAndLeft
<1>9. FailedWithReason BY OpFacts DEF StreamInit, QueueInit, FailedWithReason
<1>10. Delivered BY DEF StreamInit, QueueInit, Delivered
<1>11. BegunTooLate BY DEF StreamInit, QueueInit, BegunTooLate
<1> QED BY <1>1, <1>5, <1>6, <1>7, <1>8, <1>9, <1>10, <1>11 DEF StreamIInv

\* Nothing changes, as when the program is over.
LEMMA StutterStep ==
  ASSUME StreamIInv, UNCHANGED streamVars
  PROVE  StreamIInv'
<1>1. /\ UNCHANGED <<queueVars, step, writerFuture, rpc, response, streamingCalls, dead>>
      /\ UNCHANGED <<trying, asked, actions, state, released>>
  BY DEF streamVars, writerVars
<1>2. QueueIInv' /\ \A a : Begun(a)' <=> Begun(a) BY <1>1, QueueSame DEF StreamIInv
<1> USE DEF StreamIInv
<1>3. UNCHANGED <<pending, misused, events, current, currentOk, finalized, owner>>
  BY <1>1 DEF queueVars, grpcVars, pollVars
<1>4. StreamTypeOK' BY <1>1, <1>2 DEF StreamTypeOK, QueueIInv
<1>5. QueueIsShort' BY <1>1 DEF QueueIsShort
<1>6. OpsInOrder'
  <2>1. \A c \in Call : asked[c] # {} => step[c] = "registered" BY DEF OpsInOrder
  <2> QED BY <1>1, <1>2, <1>3, <2>1, OrderKept
<1>7. KeptAndLeft' BY <1>1, <1>3 DEF KeptAndLeft
<1>8. FailedWithReason' BY <1>1, <1>2, <1>3, FailedKept
<1>9. Delivered' BY <1>1, <1>3 DEF Delivered
<1>10. BegunTooLate'
  <2>1. \A c \in Call, o \in WriteOp : WriteFails(c, o) => WriteFails(c, o)'
    BY <1>1, <1>2, ReasonKept
  <2> QED BY <1>1, <1>3, <2>1 DEF BegunTooLate
<1> QED BY <1>2, <1>4, <1>5, <1>6, <1>7, <1>8, <1>9, <1>10

LEMMA StreamInvStep == StreamIInv /\ [StreamNext]_streamVars => StreamIInv'
<1> SUFFICES ASSUME StreamIInv, [StreamNext]_streamVars PROVE StreamIInv'
  OBVIOUS
<1>1. ASSUME NEW c \in Call, CallerNext(c) PROVE StreamIInv'
  BY <1>1, ConstructStep, CallSteps, TryStep, AsideSteps, AskStep DEF CallerNext
<1>2. ASSUME NEW c \in Call, GrpcNext(c) PROVE StreamIInv'
  BY <1>2, AsideSteps, ReturnsStep DEF GrpcNext
<1>3. ASSUME NEW c \in Call, FinalizeNext(c) PROVE StreamIInv'
  BY <1>3, AsideSteps, FinalizeQuietSteps, FinalizeWriteOkStep, FinalizeWriteFailedStep
     DEF FinalizeNext
<1>4. CASE QueueThread BY <1>3, <1>4, PollsStep DEF QueueThread
<1>5. CASE StartThread \/ ShutdownClient \/ JoinThread \/ DestroyClient
  BY <1>5, OwnerSteps
<1>6. CASE StreamStopped \/ UNCHANGED streamVars
  BY <1>6, StutterStep DEF StreamStopped
<1> QED BY <1>1, <1>2, <1>4, <1>5, <1>6 DEF StreamNext

\* The inductive invariant holds in every reachable state: the queue of actions of a
\* writer never grows past one operation, no operation begins twice, and a write fails
\* only when its rpc is over or it came after the last message.
THEOREM StreamInvariance == StreamSpec => []StreamIInv
BY StreamInvInit, StreamInvStep, PTL DEF StreamSpec

\* An operation that is outstanding finds its AsyncClientStreamCall alive.
THEOREM StreamCallAliveHolds == StreamSpec => []StreamCallAlive
<1>1. StreamIInv => StreamCallAlive
  <2> SUFFICES ASSUME StreamIInv, NEW c \in Call, NEW o \in Op, Outstanding(o, c)
               PROVE  step[c] \in {"constructing", "constructed"} \/ c \in streamingCalls
    BY DEF StreamCallAlive
  <2>1. Begun(StreamAction(o, c)) BY DEF Outstanding, Begun
  <2>2. \A p \in Op : StreamAction(p, c) \in finalized => Begun(StreamAction(p, c))
    BY DEF Begun
  <2>3. \A p \in AppOp : Begun(StreamAction(p, c)) => step[c] = "registered"
    BY DEF StreamIInv, OpsInOrder, Made
  <2>4. step[c] # "none"
    <3>1. CASE o = "call" BY <2>1, <3>1 DEF StreamIInv, OpsInOrder
    <3>2. CASE o \in AppOp BY <2>1, <2>3, <3>2
    <3>3. CASE \E w \in WriteOp : o = FinishAfter(w)
      BY <2>1, <2>2, <2>3, <3>3, OpFacts DEF StreamIInv, OpsInOrder, Made
    <3> QED BY <3>1, <3>2, <3>3, OpFacts
  <2>5. owner # "destroyed"
    BY OpFacts, QueueIInvDrained, ClientStreamCallAssumption
       DEF StreamIInv, DestroyedWhenDrained, Outstanding
  <2> QED BY <2>4, <2>5 DEF StreamIInv, StreamTypeOK, KeptAndLeft
<1> QED BY StreamInvariance, <1>1, PTL

\* The only operation that can begin on a queue that was shut down is the finish with
\* which the writer answers a write that failed.
THEOREM BegunTooLateHolds == StreamSpec => []BegunTooLate
<1>1. StreamIInv => BegunTooLate BY DEF StreamIInv
<1> QED BY StreamInvariance, <1>1, PTL

\* No response comes out of nothing, and the client's destructor does not return
\* before each Finish that was started has delivered one.
THEOREM FinishDeliversHolds == StreamSpec => []FinishDelivers
<1>1. StreamIInv => FinishDelivers
  <2> SUFFICES ASSUME StreamIInv, owner = "destroyed", NEW c \in Call, NEW o \in FinishOp,
                      Begun(StreamAction(o, c))
               PROVE  c \in response
    BY DEF StreamIInv, Delivered, FinishDelivers
  <2>1. StreamAction(o, c) \in finalized
    BY OpFacts, QueueIInvDrained, ClientStreamCallAssumption
       DEF StreamIInv, DestroyedWhenDrained, Begun
  <2> QED BY <2>1 DEF StreamIInv, Delivered
<1> QED BY StreamInvariance, <1>1, PTL
=============================================================================
