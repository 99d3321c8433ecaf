---------------------------- MODULE RequestCodec ----------------------------
(***************************************************************************)
(* A request between the two conversions #[rpc] generates: a typed client  *)
(* turns a variant of the request enum into a JSON-RPC request, any other  *)
(* client sends what it likes, and the server layer turns what arrives     *)
(* into a variant again (render_server.rs, render_client.rs).              *)
(***************************************************************************)
EXTENDS RpcApi

CONSTANTS
  Apis,        \* the traits considered
  Variants(_), \* typed calls of an api
  Foreign      \* requests other clients send: [method, params, id]

ASSUME CodecAssumption ==
  /\ \A a \in Apis : IsApi(a) /\ \A v \in Variants(a) : WellTyped(a, v)
  /\ \A q \in Foreign : IsRequest(q)

VARIABLES
  api,         \* the trait both ends were generated from
  stage,       \* "start", "sent" or "parsed"
  intent,      \* what the call meant first, to its caller or to the first
               \* service that parsed it; NoVariant until then
  request,     \* the request on the wire
  parsed       \* what try_from made of it

vars == <<api, stage, intent, request, parsed>>

NoVariant == Variant(0, <<>>)
NoRequest == [method |-> <<>>, params |-> NoParams, id |-> 0]

CodecTypeOK ==
  /\ api \in Apis
  /\ stage \in {"start", "sent", "parsed"}
  /\ intent = NoVariant \/ WellTyped(api, intent)
  /\ stage # "start" =>
       /\ IsRequest(request)
       /\ Unambiguous(api) =>
            IF intent = NoVariant THEN request \in Foreign
            ELSE request = into_request(api, intent)
  /\ parsed.ok \in BOOLEAN

Init ==
  /\ api \in Apis
  /\ stage = "start"
  /\ intent = NoVariant
  /\ request = NoRequest
  /\ parsed = Err("none")

\* The generated client, or Request::from in a test or a middleware.
Build(v) ==
  /\ stage = "start"
  /\ intent' = v
  /\ request' = into_request(api, v)
  /\ stage' = "sent"
  /\ UNCHANGED <<api, parsed>>

\* A request no typed client made.
Arrive(q) ==
  /\ stage = "start"
  /\ request' = q
  /\ stage' = "sent"
  /\ UNCHANGED <<api, intent, parsed>>

\* Mutant of Parse: try_from takes the request, and nothing is left to forward.
ParseConsumes ==
  /\ stage = "sent"
  /\ parsed' = try_from(api, request)
  /\ stage' = "parsed"
  /\ request' = NoRequest
  /\ UNCHANGED <<api, intent>>

\* The server layer, or a middleware that looks at typed requests.
Parse ==
  /\ stage = "sent"
  /\ parsed' = try_from(api, request)
  /\ stage' = "parsed"
  /\ UNCHANGED <<api, intent, request>>

\* Who parsed the request calls on with the variant, through rpc_call.
Relay ==
  /\ stage = "parsed" /\ parsed.ok
  /\ intent' = IF intent = NoVariant THEN parsed.variant ELSE intent
  /\ request' = into_request(api, parsed.variant)
  /\ parsed' = Err("none")
  /\ stage' = "sent"
  /\ UNCHANGED api

\* The next request of the same api.
Reset ==
  /\ stage = "parsed"
  /\ stage' = "start"
  /\ intent' = NoVariant
  /\ request' = NoRequest
  /\ parsed' = Err("none")
  /\ UNCHANGED api

Next ==
  \/ \E v \in Variants(api) : Build(v)
  \/ \E q \in Foreign : Arrive(q)
  \/ Parse
  \/ Relay
  \/ Reset

Spec == Init /\ [][Next]_vars

-----------------------------------------------------------------------------
Arrived == stage = "parsed" /\ intent # NoVariant

\* What a typed client means is what the server understands, for every trait
\* whose names and parameter keys do not collide, and what every service after
\* it understands: however often a call is parsed and made again from the
\* variant, it stays what its caller meant or its first reader understood.
RoundTrips == Arrived /\ Unambiguous(api) => parsed = Ok(intent)

\* The same without the condition: every trait the macro accepts.
EveryCallArrives == Arrived => parsed = Ok(intent)

\* The names the server layer keeps from its inner service are those its
\* try_from knows: it never takes a request only to answer MethodNotFound.
TakenIsKnown ==
  stage = "parsed" =>
    (parsed = Err("MethodNotFound") <=> request.method \notin all_method_names(api))

\* A handler gets all its arguments and each of its type, whoever sent the
\* request and in whatever form.
HandlerArgsWellTyped ==
  stage = "parsed" /\ parsed.ok => WellTyped(api, parsed.variant)
=============================================================================
