------------------------------ MODULE RpcTypes ------------------------------
(***************************************************************************)
(* The types by which the compiler decides which generated functions may   *)
(* be passed to AsyncClient::call and AsyncServer::registerCallHandler,    *)
(* what these take for the request and the response of the rpc, and which  *)
(* stub or service object they use.                                        *)
(*                                                                         *)
(* A type is a tuple: the name of a template, then its arguments.  A       *)
(* pointer to a member function is a record.  A class template is the set  *)
(* of its specialisations that match: it is complete if that is one.       *)
(***************************************************************************)
EXTENDS Naturals, FiniteSets
Sets == INSTANCE FiniteSetsExt

CONSTANT Method  \* the rpcs of the .proto files

RpcType == {"UnaryCall", "ClientStream", "ServerStream", "BidiStream"}

ASSUME RpcTypesAssumption ==
  /\ IsFiniteSet(Method)
  /\ \A m \in Method :
       /\ DOMAIN m = {"name", "service", "kind", "request", "response"}
       /\ m.kind \in RpcType

Message == {m.request : m \in Method} \cup {m.response : m \in Method}

Function(of, returns, takes) == [of |-> of, returns |-> returns, takes |-> takes]

\* The arguments in the order they are declared in: <<"ClientContext*">>, those of the
\* rpc, <<"CompletionQueue*">>, the tag if there is one.
ClientArgs(middle, tail) ==
  [context |-> "ClientContext*", rpc |-> middle, queue |-> "CompletionQueue*", tag |-> tail]

ServerArgs(middle) ==
  [context |-> "ServerContext*", rpc |-> middle, queue |-> "CompletionQueue*",
   notification |-> "ServerCompletionQueue*", tag |-> <<<<"void*">>>>]

-----------------------------------------------------------------------------
(* What protoc generates for a method: Stub::Async<Rpc>,                   *)
(* Stub::PrepareAsync<Rpc>, and <Rpc>'s Request function, which is that of *)
(* a base class of the AsyncService.                                       *)

Stub(s) == <<"Stub", s>>
AsyncService(s) == <<"AsyncService", s>>
WithAsyncMethod(m) == <<"WithAsyncMethod", m.service, m.name>>

\* std::is_base_of.
IsBaseOf(b, d) ==
  b = d \/ \E m \in Method : b = WithAsyncMethod(m) /\ d = AsyncService(m.service)

\* The tag of the operation that starts a stream; PrepareAsync<Rpc> takes none.
GeneratedCall(m, tag) ==
  LET arg == <<"const&", m.request>>
  IN  CASE m.kind = "UnaryCall" ->
             Function(Stub(m.service), <<"ClientAsyncResponseReader", m.response>>,
                      ClientArgs(<<arg>>, <<>>))
        [] m.kind = "ClientStream" ->
             Function(Stub(m.service), <<"ClientAsyncWriter", m.request>>,
                      ClientArgs(<<<<"*", m.response>>>>, tag))
        [] m.kind = "ServerStream" ->
             Function(Stub(m.service), <<"ClientAsyncReader", m.response>>,
                      ClientArgs(<<arg>>, tag))
        [] m.kind = "BidiStream" ->
             Function(Stub(m.service), <<"ClientAsyncReaderWriter", m.request, m.response>>,
                      ClientArgs(<<>>, tag))

Async(m) == GeneratedCall(m, <<<<"void*">>>>)
PrepareAsync(m) == GeneratedCall(m, <<>>)

RequestRpcOf(m) ==
  LET arg == <<"*", m.request>>
      middle ==
        CASE m.kind = "UnaryCall" -> <<arg, <<"ServerAsyncResponseWriter", m.response>>>>
          [] m.kind = "ClientStream" -> <<<<"ServerAsyncReader", m.response, m.request>>>>
          [] m.kind = "ServerStream" -> <<arg, <<"ServerAsyncWriter", m.response>>>>
          [] m.kind = "BidiStream" ->
               <<<<"ServerAsyncReaderWriter", m.response, m.request>>>>
  IN  Function(WithAsyncMethod(m), <<"void">>, ServerArgs(middle))

-----------------------------------------------------------------------------
(* The traits of a function: those of each specialisation it matches.      *)

\* What the traits give of F, if the messages of its specialisation are those of t.
Specialised(F, t, interface, rpcType) ==
  [class |-> F.of, request |-> t.request, response |-> t.response,
   interface |-> interface, rpcType |-> rpcType]

Messages == [request : Message, response : Message]

AsyncUnaryCallFunc(class, Request, Response) ==
  Function(class, <<"ClientAsyncResponseReader", Response>>,
           ClientArgs(<<<<"const&", Request>>>>, <<>>))

AsyncClientStreamFunc(class, Request, Response) ==
  Function(class, <<"ClientAsyncWriter", Request>>,
           ClientArgs(<<<<"*", Response>>>>, <<<<"void*">>>>))

AsyncServerStreamFunc(class, Request, Response) ==
  Function(class, <<"ClientAsyncReader", Response>>,
           ClientArgs(<<<<"const&", Request>>>>, <<<<"void*">>>>))

AsyncBidiStreamFunc(class, Request, Response) ==
  Function(class, <<"ClientAsyncReaderWriter", Request, Response>>,
           ClientArgs(<<>>, <<<<"void*">>>>))

AsyncCallTraits(F) ==
  {Specialised(F, t, <<"ClientAsyncResponseReader", t.response>>, "UnaryCall") :
     t \in {t \in Messages : F = AsyncUnaryCallFunc(F.of, t.request, t.response)}}
  \cup {Specialised(F, t, <<"ClientAsyncWriter", t.request>>, "ClientStream") :
          t \in {t \in Messages : F = AsyncClientStreamFunc(F.of, t.request, t.response)}}
  \cup {Specialised(F, t, <<"ClientAsyncReader", t.response>>, "ServerStream") :
          t \in {t \in Messages : F = AsyncServerStreamFunc(F.of, t.request, t.response)}}
  \cup {Specialised(F, t, <<"ClientAsyncReaderWriter", t.request, t.response>>, "BidiStream") :
          t \in {t \in Messages : F = AsyncBidiStreamFunc(F.of, t.request, t.response)}}

AsyncUnaryCallRequestFunc(class, Request, Response) ==
  Function(class, <<"void">>,
           ServerArgs(<<<<"*", Request>>, <<"ServerAsyncResponseWriter", Response>>>>))

ReaderInClientOrder(class, Request, Response) ==
  Function(class, <<"void">>, ServerArgs(<<<<"ServerAsyncReader", Request, Response>>>>))

ClientStreamRequestFunc(class, Request, Response) ==
  Function(class, <<"void">>, ServerArgs(<<<<"ServerAsyncReader", Response, Request>>>>))

ServerStreamRequestFunc(class, Request, Response) ==
  Function(class, <<"void">>,
           ServerArgs(<<<<"*", Request>>, <<"ServerAsyncWriter", Response>>>>))

BidiStreamRequestFunc(class, Request, Response) ==
  Function(class, <<"void">>,
           ServerArgs(<<<<"ServerAsyncReaderWriter", Response, Request>>>>))

AsyncRequestTraits(F) ==
  {Specialised(F, t, <<"ServerAsyncResponseWriter", t.response>>, "UnaryCall") :
     t \in {t \in Messages : F = AsyncUnaryCallRequestFunc(F.of, t.request, t.response)}}
  \cup {Specialised(F, t, <<"ServerAsyncReader", t.response, t.request>>, "ClientStream") :
          t \in {t \in Messages : F = ClientStreamRequestFunc(F.of, t.request, t.response)}}
  \cup {Specialised(F, t, <<"ServerAsyncWriter", t.response>>, "ServerStream") :
          t \in {t \in Messages : F = ServerStreamRequestFunc(F.of, t.request, t.response)}}
  \cup {Specialised(F, t, <<"ServerAsyncReaderWriter", t.response, t.request>>, "BidiStream") :
          t \in {t \in Messages : F = BidiStreamRequestFunc(F.of, t.request, t.response)}}

\* What a stream of this type reads and writes, and of which rpcs it is.
StreamingInterfaceTraits(I) ==
  LET Stream(reads, writes, rpcType) ==
        [reads |-> reads, writes |-> writes, rpcType |-> rpcType]
  IN  CASE I[1] \in {"ClientReader", "ClientAsyncReader"} ->
             Stream({I[2]}, {}, "ServerStream")
        [] I[1] \in {"ClientWriter", "ClientAsyncWriter"} ->
             Stream({}, {I[2]}, "ClientStream")
        [] I[1] = "ServerReader" -> Stream({I[2]}, {}, "ClientStream")
        [] I[1] \in {"ServerWriter", "ServerAsyncWriter"} ->
             Stream({}, {I[2]}, "ServerStream")
        [] I[1] = "ServerAsyncReader" -> Stream({I[3]}, {I[2]}, "ClientStream")
        [] I[1] = "ServerAsyncResponseWriter" -> Stream({}, {I[2]}, "UnaryCall")
        [] I[1] = "ClientAsyncResponseReader" -> Stream({I[2]}, {}, "UnaryCall")
        [] I[1] \in {"ClientAsyncReaderWriter", "ServerAsyncReaderWriter"} ->
             Stream({I[3]}, {I[2]}, "BidiStream")

-----------------------------------------------------------------------------
(* The overloads, and the object they use.                                 *)

EnableIfAnyRpcTypeMatch(traits, rpcTypes) ==
  Cardinality(traits) = 1 /\ \A t \in traits : t.rpcType \in rpcTypes

\* There is an overload of AsyncClient::call for the function F.
CallTakes(F) ==
  EnableIfAnyRpcTypeMatch(AsyncCallTraits(F), {"UnaryCall", "ClientStream"})

\* There is an overload of AsyncServer::registerCallHandler for F.
RegisterCallHandlerTakes(F) ==
  EnableIfAnyRpcTypeMatch(AsyncRequestTraits(F), {"UnaryCall", "ClientStream"})

\* The indices whose least one indexOfStub and indexOfService return, if the
\* static_assert of isSupported...Type lets them.
StubsOf(F, Stubs) == {i \in DOMAIN Stubs : Stubs[i] = F.of}

ServicesOf(F, Services) == {i \in DOMAIN Services : IsBaseOf(F.of, Services[i])}

StubUsed(F, Stubs) == Stubs[Sets!Min(StubsOf(F, Stubs))]

ServiceUsed(F, Services) == Services[Sets!Min(ServicesOf(F, Services))]

-----------------------------------------------------------------------------
(* Properties.                                                             *)

\* Client and server take the same request, response and kind from the two functions
\* generated for a method, and what one end of its stream writes the other
\* reads, although the templates list these types in different orders.
BothSidesAgree ==
  \A m \in Method :
    \E c \in AsyncCallTraits(Async(m)), s \in AsyncRequestTraits(RequestRpcOf(m)) :
      LET reads(t) == StreamingInterfaceTraits(t.interface).reads
          writes(t) == StreamingInterfaceTraits(t.interface).writes
      IN  /\ {AsyncCallTraits(Async(m)), AsyncRequestTraits(RequestRpcOf(m))} = {{c}, {s}}
          /\ reads(c) \subseteq writes(s) /\ writes(c) \subseteq reads(s)
          /\ \A t \in {c, s} :
               /\ t.request = m.request /\ t.response = m.response
               /\ {t.rpcType, StreamingInterfaceTraits(t.interface).rpcType} = {m.kind}

\* A method can be called exactly if a handler can be registered for it.  And call()
\* takes no PrepareAsync function, whose rpc it would not start, except a unary one.
CallableIffHandled ==
  \A m \in Method :
    /\ CallTakes(Async(m)) <=> RegisterCallHandlerTakes(RequestRpcOf(m))
    /\ CallTakes(PrepareAsync(m)) <=> m.kind = "UnaryCall"

\* In whatever order stubs and services are listed, a call goes through the stub, and
\* a handler is registered with the service object, of its method.
LookupFinds ==
  LET services == {m.service : m \in Method}
      orders == {f \in [1 .. Cardinality(services) -> services] :
                   \A i, j \in DOMAIN f : f[i] = f[j] => i = j}
  IN  \A m \in Method, f \in orders :
        LET Stubs == [i \in DOMAIN f |-> Stub(f[i])]
            Services == [i \in DOMAIN f |-> AsyncService(f[i])]
        IN  /\ StubsOf(Async(m), Stubs) # {}
            /\ StubUsed(Async(m), Stubs) = Stub(m.service)
            /\ ServicesOf(RequestRpcOf(m), Services) # {}
            /\ ServiceUsed(RequestRpcOf(m), Services) = AsyncService(m.service)

=============================================================================
