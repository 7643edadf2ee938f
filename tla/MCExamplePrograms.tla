------------------------- MODULE MCExamplePrograms -------------------------
(* ExamplePrograms for TLC: one call of each kind.  The methods are those of *)
(* the .proto files of the examples, and one bidirectional stream.           *)
EXTENDS ExamplePrograms

CONSTANTS c1, c2, k1, k2, k3

MCRpc(service, name, kind, request, response) ==
  [service |-> service, name |-> name, kind |-> kind,
   request |-> request, response |-> response]

MCMethod ==
  {MCRpc("Greeter", "SayHello", "UnaryCall", "HelloRequest", "HelloReply"),
   MCRpc("App", "Launch", "UnaryCall", "LaunchRequest", "LaunchReply"),
   MCRpc("App", "Shutdown", "UnaryCall", "ShutdownRequest", "ShutdownReply"),
   MCRpc("Task", "StartTask", "UnaryCall", "StartTaskRequest", "StartTaskReply"),
   MCRpc("Task", "GetTarget", "UnaryCall", "GetTargetRequest", "GetTargetReply"),
   MCRpc("Task", "GetTargets", "UnaryCall", "GetTargetsRequest", "GetTargetsReply"),
   MCRpc("Application", "SetFeatures", "ClientStream", "Feature", "SetFeaturesReply"),
   MCRpc("Application", "GetFeatures", "ServerStream", "GetFeaturesRequest", "Feature"),
   MCRpc("Chat", "Talk", "BidiStream", "Question", "Answer")}
=============================================================================
