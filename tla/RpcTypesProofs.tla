--------------------------- MODULE RpcTypesProofs ---------------------------
(***************************************************************************)
(* What the compiler makes of the generated functions, for every set of    *)
(* methods.                                                                *)
(***************************************************************************)
EXTENDS RpcTypes, FiniteSetTheorems, TLAPS

\* The traits of m's functions, which differ in the class and the interface only.
TraitsOf(m, class, interface) ==
  [class |-> class, request |-> m.request, response |-> m.response,
   interface |-> interface, rpcType |-> m.kind]

LEMMA MessagesOf ==
  ASSUME NEW m \in Method
  PROVE  [request |-> m.request, response |-> m.response] \in Messages
BY DEF Message, Messages

-----------------------------------------------------------------------------
(* Which specialisation each generated function matches, and with which    *)
(* messages: one, and one pair.                                            *)

LEMMA UnaryCallTraits ==
  ASSUME NEW m \in Method, m.kind = "UnaryCall"
  PROVE  AsyncCallTraits(Async(m)) =
           {TraitsOf(m, Stub(m.service), <<"ClientAsyncResponseReader", m.response>>)}
<1> DEFINE F == AsyncUnaryCallFunc(Stub(m.service), m.request, m.response)
           T == {t \in Messages : F = AsyncUnaryCallFunc(F.of, t.request, t.response)}
<1>1. Async(m) = F
  BY DEF Async, GeneratedCall, AsyncUnaryCallFunc
<1>2. F.of = Stub(m.service)
  BY DEF AsyncUnaryCallFunc, Function
<1>3. T = {[request |-> m.request, response |-> m.response]}
  BY <1>2, MessagesOf DEF AsyncUnaryCallFunc, Function, ClientArgs, Messages
<1>4. \A class, q, r : /\ F # AsyncClientStreamFunc(class, q, r)
                       /\ F # AsyncServerStreamFunc(class, q, r)
                       /\ F # AsyncBidiStreamFunc(class, q, r)
  BY DEF AsyncUnaryCallFunc, AsyncClientStreamFunc, AsyncServerStreamFunc,
         AsyncBidiStreamFunc, Function, ClientArgs
<1> HIDE DEF F
<1>5. AsyncCallTraits(F) =
        {Specialised(F, t, <<"ClientAsyncResponseReader", t.response>>, "UnaryCall") : t \in T}
  BY <1>4 DEF AsyncCallTraits
<1> HIDE DEF T
<1> QED
  BY <1>1, <1>2, <1>3, <1>5 DEF Specialised, TraitsOf

LEMMA ClientStreamCallTraits ==
  ASSUME NEW m \in Method, m.kind = "ClientStream"
  PROVE  AsyncCallTraits(Async(m)) =
           {TraitsOf(m, Stub(m.service), <<"ClientAsyncWriter", m.request>>)}
<1> DEFINE F == AsyncClientStreamFunc(Stub(m.service), m.request, m.response)
           T == {t \in Messages : F = AsyncClientStreamFunc(F.of, t.request, t.response)}
<1>1. Async(m) = F
  BY DEF Async, GeneratedCall, AsyncClientStreamFunc
<1>2. F.of = Stub(m.service)
  BY DEF AsyncClientStreamFunc, Function
<1>3. T = {[request |-> m.request, response |-> m.response]}
  BY <1>2, MessagesOf DEF AsyncClientStreamFunc, Function, ClientArgs, Messages
<1>4. \A class, q, r : /\ F # AsyncUnaryCallFunc(class, q, r)
                       /\ F # AsyncServerStreamFunc(class, q, r)
                       /\ F # AsyncBidiStreamFunc(class, q, r)
  BY DEF AsyncClientStreamFunc, AsyncUnaryCallFunc, AsyncServerStreamFunc,
         AsyncBidiStreamFunc, Function, ClientArgs
<1> HIDE DEF F
<1>5. AsyncCallTraits(F) =
        {Specialised(F, t, <<"ClientAsyncWriter", t.request>>, "ClientStream") : t \in T}
  BY <1>4 DEF AsyncCallTraits
<1> HIDE DEF T
<1> QED
  BY <1>1, <1>2, <1>3, <1>5 DEF Specialised, TraitsOf

LEMMA ServerStreamCallTraits ==
  ASSUME NEW m \in Method, m.kind = "ServerStream"
  PROVE  AsyncCallTraits(Async(m)) =
           {TraitsOf(m, Stub(m.service), <<"ClientAsyncReader", m.response>>)}
<1> DEFINE F == AsyncServerStreamFunc(Stub(m.service), m.request, m.response)
           T == {t \in Messages : F = AsyncServerStreamFunc(F.of, t.request, t.response)}
<1>1. Async(m) = F
  BY DEF Async, GeneratedCall, AsyncServerStreamFunc
<1>2. F.of = Stub(m.service)
  BY DEF AsyncServerStreamFunc, Function
<1>3. T = {[request |-> m.request, response |-> m.response]}
  BY <1>2, MessagesOf DEF AsyncServerStreamFunc, Function, ClientArgs, Messages
<1>4. \A class, q, r : /\ F # AsyncUnaryCallFunc(class, q, r)
                       /\ F # AsyncClientStreamFunc(class, q, r)
                       /\ F # AsyncBidiStreamFunc(class, q, r)
  BY DEF AsyncServerStreamFunc, AsyncUnaryCallFunc, AsyncClientStreamFunc,
         AsyncBidiStreamFunc, Function, ClientArgs
<1> HIDE DEF F
<1>5. AsyncCallTraits(F) =
        {Specialised(F, t, <<"ClientAsyncReader", t.response>>, "ServerStream") : t \in T}
  BY <1>4 DEF AsyncCallTraits
<1> HIDE DEF T
<1> QED
  BY <1>1, <1>2, <1>3, <1>5 DEF Specialised, TraitsOf

LEMMA BidiStreamCallTraits ==
  ASSUME NEW m \in Method, m.kind = "BidiStream"
  PROVE  AsyncCallTraits(Async(m)) =
           {TraitsOf(m, Stub(m.service), <<"ClientAsyncReaderWriter", m.request, m.response>>)}
<1> DEFINE F == AsyncBidiStreamFunc(Stub(m.service), m.request, m.response)
           T == {t \in Messages : F = AsyncBidiStreamFunc(F.of, t.request, t.response)}
<1>1. Async(m) = F
  BY DEF Async, GeneratedCall, AsyncBidiStreamFunc
<1>2. F.of = Stub(m.service)
  BY DEF AsyncBidiStreamFunc, Function
<1>3. T = {[request |-> m.request, response |-> m.response]}
  BY <1>2, MessagesOf DEF AsyncBidiStreamFunc, Function, ClientArgs, Messages
<1>4. \A class, q, r : /\ F # AsyncUnaryCallFunc(class, q, r)
                       /\ F # AsyncClientStreamFunc(class, q, r)
                       /\ F # AsyncServerStreamFunc(class, q, r)
  BY DEF AsyncBidiStreamFunc, AsyncUnaryCallFunc, AsyncClientStreamFunc,
         AsyncServerStreamFunc, Function, ClientArgs
<1> HIDE DEF F
<1>5. AsyncCallTraits(F) =
        {Specialised(F, t, <<"ClientAsyncReaderWriter", t.request, t.response>>, "BidiStream") : t \in T}
  BY <1>4 DEF AsyncCallTraits
<1> HIDE DEF T
<1> QED
  BY <1>1, <1>2, <1>3, <1>5 DEF Specialised, TraitsOf

LEMMA UnaryRequestTraits ==
  ASSUME NEW m \in Method, m.kind = "UnaryCall"
  PROVE  AsyncRequestTraits(RequestRpcOf(m)) =
           {TraitsOf(m, WithAsyncMethod(m), <<"ServerAsyncResponseWriter", m.response>>)}
<1> DEFINE F == AsyncUnaryCallRequestFunc(WithAsyncMethod(m), m.request, m.response)
           T == {t \in Messages : F = AsyncUnaryCallRequestFunc(F.of, t.request, t.response)}
<1>1. RequestRpcOf(m) = F
  BY DEF RequestRpcOf, AsyncUnaryCallRequestFunc
<1>2. F.of = WithAsyncMethod(m)
  BY DEF AsyncUnaryCallRequestFunc, Function
<1>3. T = {[request |-> m.request, response |-> m.response]}
  BY <1>2, MessagesOf DEF AsyncUnaryCallRequestFunc, Function, ServerArgs, Messages
<1>4. \A class, q, r : /\ F # ClientStreamRequestFunc(class, q, r)
                       /\ F # ServerStreamRequestFunc(class, q, r)
                       /\ F # BidiStreamRequestFunc(class, q, r)
  BY DEF AsyncUnaryCallRequestFunc, ClientStreamRequestFunc, ServerStreamRequestFunc,
         BidiStreamRequestFunc, Function, ServerArgs
<1> HIDE DEF F
<1>5. AsyncRequestTraits(F) =
        {Specialised(F, t, <<"ServerAsyncResponseWriter", t.response>>, "UnaryCall") : t \in T}
  BY <1>4 DEF AsyncRequestTraits
<1> HIDE DEF T
<1> QED
  BY <1>1, <1>2, <1>3, <1>5 DEF Specialised, TraitsOf

LEMMA ClientStreamRequestTraits ==
  ASSUME NEW m \in Method, m.kind = "ClientStream"
  PROVE  AsyncRequestTraits(RequestRpcOf(m)) =
           {TraitsOf(m, WithAsyncMethod(m), <<"ServerAsyncReader", m.response, m.request>>)}
<1> DEFINE F == ClientStreamRequestFunc(WithAsyncMethod(m), m.request, m.response)
           T == {t \in Messages : F = ClientStreamRequestFunc(F.of, t.request, t.response)}
<1>1. RequestRpcOf(m) = F
  BY DEF RequestRpcOf, ClientStreamRequestFunc
<1>2. F.of = WithAsyncMethod(m)
  BY DEF ClientStreamRequestFunc, Function
<1>3. T = {[request |-> m.request, response |-> m.response]}
  BY <1>2, MessagesOf DEF ClientStreamRequestFunc, Function, ServerArgs, Messages
<1>4. \A class, q, r : /\ F # AsyncUnaryCallRequestFunc(class, q, r)
                       /\ F # ServerStreamRequestFunc(class, q, r)
                       /\ F # BidiStreamRequestFunc(class, q, r)
  BY DEF ClientStreamRequestFunc, AsyncUnaryCallRequestFunc, ServerStreamRequestFunc,
         BidiStreamRequestFunc, Function, ServerArgs
<1> HIDE DEF F
<1>5. AsyncRequestTraits(F) =
        {Specialised(F, t, <<"ServerAsyncReader", t.response, t.request>>, "ClientStream") : t \in T}
  BY <1>4 DEF AsyncRequestTraits
<1> HIDE DEF T
<1> QED
  BY <1>1, <1>2, <1>3, <1>5 DEF Specialised, TraitsOf

LEMMA ServerStreamRequestTraits ==
  ASSUME NEW m \in Method, m.kind = "ServerStream"
  PROVE  AsyncRequestTraits(RequestRpcOf(m)) =
           {TraitsOf(m, WithAsyncMethod(m), <<"ServerAsyncWriter", m.response>>)}
<1> DEFINE F == ServerStreamRequestFunc(WithAsyncMethod(m), m.request, m.response)
           T == {t \in Messages : F = ServerStreamRequestFunc(F.of, t.request, t.response)}
<1>1. RequestRpcOf(m) = F
  BY DEF RequestRpcOf, ServerStreamRequestFunc
<1>2. F.of = WithAsyncMethod(m)
  BY DEF ServerStreamRequestFunc, Function
<1>3. T = {[request |-> m.request, response |-> m.response]}
  BY <1>2, MessagesOf DEF ServerStreamRequestFunc, Function, ServerArgs, Messages
<1>4. \A class, q, r : /\ F # AsyncUnaryCallRequestFunc(class, q, r)
                       /\ F # ClientStreamRequestFunc(class, q, r)
                       /\ F # BidiStreamRequestFunc(class, q, r)
  BY DEF ServerStreamRequestFunc, AsyncUnaryCallRequestFunc, ClientStreamRequestFunc,
         BidiStreamRequestFunc, Function, ServerArgs
<1> HIDE DEF F
<1>5. AsyncRequestTraits(F) =
        {Specialised(F, t, <<"ServerAsyncWriter", t.response>>, "ServerStream") : t \in T}
  BY <1>4 DEF AsyncRequestTraits
<1> HIDE DEF T
<1> QED
  BY <1>1, <1>2, <1>3, <1>5 DEF Specialised, TraitsOf

LEMMA BidiStreamRequestTraits ==
  ASSUME NEW m \in Method, m.kind = "BidiStream"
  PROVE  AsyncRequestTraits(RequestRpcOf(m)) =
           {TraitsOf(m, WithAsyncMethod(m), <<"ServerAsyncReaderWriter", m.response, m.request>>)}
<1> DEFINE F == BidiStreamRequestFunc(WithAsyncMethod(m), m.request, m.response)
           T == {t \in Messages : F = BidiStreamRequestFunc(F.of, t.request, t.response)}
<1>1. RequestRpcOf(m) = F
  BY DEF RequestRpcOf, BidiStreamRequestFunc
<1>2. F.of = WithAsyncMethod(m)
  BY DEF BidiStreamRequestFunc, Function
<1>3. T = {[request |-> m.request, response |-> m.response]}
  BY <1>2, MessagesOf DEF BidiStreamRequestFunc, Function, ServerArgs, Messages
<1>4. \A class, q, r : /\ F # AsyncUnaryCallRequestFunc(class, q, r)
                       /\ F # ClientStreamRequestFunc(class, q, r)
                       /\ F # ServerStreamRequestFunc(class, q, r)
  BY DEF BidiStreamRequestFunc, AsyncUnaryCallRequestFunc, ClientStreamRequestFunc,
         ServerStreamRequestFunc, Function, ServerArgs
<1> HIDE DEF F
<1>5. AsyncRequestTraits(F) =
        {Specialised(F, t, <<"ServerAsyncReaderWriter", t.response, t.request>>, "BidiStream") : t \in T}
  BY <1>4 DEF AsyncRequestTraits
<1> HIDE DEF T
<1> QED
  BY <1>1, <1>2, <1>3, <1>5 DEF Specialised, TraitsOf

\* A PrepareAsync function is an Async one if it takes no tag; otherwise it matches none.
LEMMA PrepareTraits ==
  ASSUME NEW m \in Method
  PROVE  /\ m.kind = "UnaryCall" => PrepareAsync(m) = Async(m)
         /\ m.kind # "UnaryCall" => AsyncCallTraits(PrepareAsync(m)) = {}
<1>1. m.kind = "UnaryCall" => PrepareAsync(m) = Async(m)
  BY DEF PrepareAsync, Async, GeneratedCall
<1>2. ASSUME m.kind # "UnaryCall" PROVE AsyncCallTraits(PrepareAsync(m)) = {}
  <2> DEFINE F == PrepareAsync(m)
  <2>1. \A class, q, r : /\ F # AsyncUnaryCallFunc(class, q, r)
                         /\ F # AsyncClientStreamFunc(class, q, r)
                         /\ F # AsyncServerStreamFunc(class, q, r)
                         /\ F # AsyncBidiStreamFunc(class, q, r)
    BY <1>2, RpcTypesAssumption
       DEF RpcType, PrepareAsync, GeneratedCall, AsyncUnaryCallFunc, AsyncClientStreamFunc,
           AsyncServerStreamFunc, AsyncBidiStreamFunc, Function, ClientArgs
  <2> HIDE DEF F
  <2>2. AsyncCallTraits(F) = {} BY <2>1 DEF AsyncCallTraits, Specialised
  <2> QED BY <2>2 DEF F
<1> QED BY <1>1, <1>2

-----------------------------------------------------------------------------
(* The properties of TypesFit (ExamplePrograms).                           *)

\* The interfaces of the two ends of a method's stream.
CallInterface(m) ==
  CASE m.kind = "UnaryCall" -> <<"ClientAsyncResponseReader", m.response>>
    [] m.kind = "ClientStream" -> <<"ClientAsyncWriter", m.request>>
    [] m.kind = "ServerStream" -> <<"ClientAsyncReader", m.response>>
    [] m.kind = "BidiStream" -> <<"ClientAsyncReaderWriter", m.request, m.response>>

RequestInterface(m) ==
  CASE m.kind = "UnaryCall" -> <<"ServerAsyncResponseWriter", m.response>>
    [] m.kind = "ClientStream" -> <<"ServerAsyncReader", m.response, m.request>>
    [] m.kind = "ServerStream" -> <<"ServerAsyncWriter", m.response>>
    [] m.kind = "BidiStream" -> <<"ServerAsyncReaderWriter", m.response, m.request>>

\* Both functions of a method have one set of traits.
LEMMA TraitsAre ==
  ASSUME NEW m \in Method
  PROVE  /\ AsyncCallTraits(Async(m)) = {TraitsOf(m, Stub(m.service), CallInterface(m))}
         /\ AsyncRequestTraits(RequestRpcOf(m)) =
              {TraitsOf(m, WithAsyncMethod(m), RequestInterface(m))}
<1>1. CASE m.kind = "UnaryCall"
  BY <1>1, UnaryCallTraits, UnaryRequestTraits DEF CallInterface, RequestInterface
<1>2. CASE m.kind = "ClientStream"
  BY <1>2, ClientStreamCallTraits, ClientStreamRequestTraits
     DEF CallInterface, RequestInterface
<1>3. CASE m.kind = "ServerStream"
  BY <1>3, ServerStreamCallTraits, ServerStreamRequestTraits
     DEF CallInterface, RequestInterface
<1>4. CASE m.kind = "BidiStream"
  BY <1>4, BidiStreamCallTraits, BidiStreamRequestTraits DEF CallInterface, RequestInterface
<1> QED BY <1>1, <1>2, <1>3, <1>4, RpcTypesAssumption DEF RpcType

\* What one end writes the other reads.
LEMMA EndsMeet ==
  ASSUME NEW m \in Method
  PROVE  LET c == StreamingInterfaceTraits(CallInterface(m))
             s == StreamingInterfaceTraits(RequestInterface(m))
         IN  /\ c.reads \subseteq s.writes /\ c.writes \subseteq s.reads
             /\ c.rpcType = m.kind /\ s.rpcType = m.kind
<1>1. CASE m.kind = "UnaryCall"
  BY <1>1 DEF CallInterface, RequestInterface, StreamingInterfaceTraits
<1>2. CASE m.kind = "ClientStream"
  BY <1>2 DEF CallInterface, RequestInterface, StreamingInterfaceTraits
<1>3. CASE m.kind = "ServerStream"
  BY <1>3 DEF CallInterface, RequestInterface, StreamingInterfaceTraits
<1>4. CASE m.kind = "BidiStream"
  BY <1>4 DEF CallInterface, RequestInterface, StreamingInterfaceTraits
<1> QED BY <1>1, <1>2, <1>3, <1>4, RpcTypesAssumption DEF RpcType

\* Client and server take the same types of every rpc, and what one end of its stream
\* writes the other reads.
THEOREM BothSidesAgreeHolds == BothSidesAgree
<1> SUFFICES ASSUME NEW m \in Method
             PROVE  \E c \in AsyncCallTraits(Async(m)),
                       s \in AsyncRequestTraits(RequestRpcOf(m)) :
       LET reads(t) == StreamingInterfaceTraits(t.interface).reads
           writes(t) == StreamingInterfaceTraits(t.interface).writes
       IN  /\ {AsyncCallTraits(Async(m)), AsyncRequestTraits(RequestRpcOf(m))} = {{c}, {s}}
           /\ reads(c) \subseteq writes(s) /\ writes(c) \subseteq reads(s)
           /\ \A t \in {c, s} :
                /\ t.request = m.request /\ t.response = m.response
                /\ {t.rpcType, StreamingInterfaceTraits(t.interface).rpcType} = {m.kind}
  BY DEF BothSidesAgree
<1> DEFINE c == TraitsOf(m, Stub(m.service), CallInterface(m))
           s == TraitsOf(m, WithAsyncMethod(m), RequestInterface(m))
<1>1. /\ c.interface = CallInterface(m) /\ s.interface = RequestInterface(m)
      /\ \A t \in {c, s} :
           t.request = m.request /\ t.response = m.response /\ t.rpcType = m.kind
  BY DEF TraitsOf
<1>2. AsyncCallTraits(Async(m)) = {c} /\ AsyncRequestTraits(RequestRpcOf(m)) = {s}
  BY TraitsAre
<1> HIDE DEF c, s
<1> QED BY <1>1, <1>2, EndsMeet

\* A method can be called exactly if a handler can be registered for it.
THEOREM CallableIffHandledHolds == CallableIffHandled
<1> SUFFICES ASSUME NEW m \in Method
             PROVE  /\ CallTakes(Async(m)) <=> RegisterCallHandlerTakes(RequestRpcOf(m))
                    /\ CallTakes(PrepareAsync(m)) <=> m.kind = "UnaryCall"
  BY DEF CallableIffHandled
<1> DEFINE c == TraitsOf(m, Stub(m.service), CallInterface(m))
           s == TraitsOf(m, WithAsyncMethod(m), RequestInterface(m))
<1>1. \A x : Cardinality({x}) = 1 BY FS_Singleton
<1>2. Cardinality({}) = 0 BY FS_EmptySet
<1>3. AsyncCallTraits(Async(m)) = {c} /\ AsyncRequestTraits(RequestRpcOf(m)) = {s}
  BY TraitsAre
<1>4. c.rpcType = m.kind /\ s.rpcType = m.kind BY DEF TraitsOf
<1> HIDE DEF c, s
<1>5. CallTakes(Async(m)) <=> m.kind \in {"UnaryCall", "ClientStream"}
  BY <1>1, <1>3, <1>4 DEF CallTakes, EnableIfAnyRpcTypeMatch
<1>6. RegisterCallHandlerTakes(RequestRpcOf(m)) <=> m.kind \in {"UnaryCall", "ClientStream"}
  BY <1>1, <1>3, <1>4 DEF RegisterCallHandlerTakes, EnableIfAnyRpcTypeMatch
<1>7. CASE m.kind = "UnaryCall" BY <1>5, <1>6, <1>7, PrepareTraits
<1>8. CASE m.kind # "UnaryCall"
  <2>1. ~CallTakes(PrepareAsync(m))
    BY <1>2, <1>8, PrepareTraits DEF CallTakes, EnableIfAnyRpcTypeMatch
  <2> QED BY <1>5, <1>6, <1>8, <2>1
<1> QED BY <1>7, <1>8

\* A list of all services without repetition names each of them.
LEMMA OrderNamesAll ==
  ASSUME NEW f \in [1 .. Cardinality({m.service : m \in Method}) -> {m.service : m \in Method}],
         \A i, j \in DOMAIN f : f[i] = f[j] => i = j,
         NEW m \in Method
  PROVE  \E i \in DOMAIN f : f[i] = m.service
<1> DEFINE services == {n.service : n \in Method}
           g == [n \in Method |-> n.service]
           N == Cardinality(services)
<1>1. g \in Surjection(Method, services) BY DEF Surjection
<1>2. IsFiniteSet(services) BY <1>1, FS_Surjection, RpcTypesAssumption
<1>3. N \in Nat BY <1>2, FS_CardinalityType
<1> HIDE DEF services, g, N
<1>4. f \in Injection(1 .. N, services) BY DEF Injection, IsInjective, services, N
<1>5. Cardinality(1 .. N) = N BY <1>3, FS_Interval
<1>6. f \in Surjection(1 .. N, services) BY <1>2, <1>4, <1>5, FS_Injection DEF N
<1>7. m.service \in services BY DEF services
<1> QED BY <1>6, <1>7 DEF Surjection

LEMMA OnlyIndex ==
  ASSUME NEW i \in Int
  PROVE  Sets!Min({i}) = i
BY DEF Sets!Min

\* A call goes through the stub, and a handler is registered with the service object, of
\* its method, in whatever order they are listed.
THEOREM LookupFindsHolds == LookupFinds
<1> DEFINE services == {m.service : m \in Method}
           N == Cardinality(services)
<1> SUFFICES ASSUME NEW m \in Method, NEW f \in [1 .. N -> services],
                    \A i, j \in DOMAIN f : f[i] = f[j] => i = j
             PROVE  LET Stubs == [i \in DOMAIN f |-> Stub(f[i])]
                        Services == [i \in DOMAIN f |-> AsyncService(f[i])]
                    IN  /\ StubsOf(Async(m), Stubs) # {}
                        /\ StubUsed(Async(m), Stubs) = Stub(m.service)
                        /\ ServicesOf(RequestRpcOf(m), Services) # {}
                        /\ ServiceUsed(RequestRpcOf(m), Services) = AsyncService(m.service)
  BY DEF LookupFinds
<1> DEFINE Stubs == [i \in DOMAIN f |-> Stub(f[i])]
           Services == [i \in DOMAIN f |-> AsyncService(f[i])]
<1>1. PICK k \in DOMAIN f : f[k] = m.service BY OrderNamesAll
<1>2. \A i \in DOMAIN f : f[i] = m.service <=> i = k BY <1>1
<1>3. k \in Int BY <1>1
<1>4. Async(m).of = Stub(m.service)
  BY RpcTypesAssumption DEF Async, GeneratedCall, Function, RpcType
<1>5. RequestRpcOf(m).of = WithAsyncMethod(m) BY DEF RequestRpcOf, Function
<1>6. StubsOf(Async(m), Stubs) = {k}
  <2>1. \A s : Stub(s) = Stub(m.service) <=> s = m.service BY DEF Stub
  <2> QED BY <1>2, <1>4, <2>1 DEF StubsOf
<1>7. ServicesOf(RequestRpcOf(m), Services) = {k}
  <2>1. \A s : IsBaseOf(WithAsyncMethod(m), AsyncService(s)) <=> s = m.service
    BY DEF IsBaseOf, WithAsyncMethod, AsyncService
  <2> QED BY <1>2, <1>5, <2>1 DEF ServicesOf
<1> QED BY <1>1, <1>3, <1>6, <1>7, OnlyIndex DEF StubUsed, ServiceUsed
=============================================================================
