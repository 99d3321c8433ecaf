------------------------- MODULE RequestCodecProofs -------------------------
(***************************************************************************)
(* RequestCodec for every set of apis, typed calls and foreign requests.   *)
(***************************************************************************)
EXTENDS RequestCodec, RpcApiProofs

\* A new request has no typed call yet, and what is parsed is what try_from
\* makes of the request that was sent.
CodecInv ==
  /\ CodecTypeOK
  /\ stage = "start" => intent = NoVariant
  /\ stage = "parsed" => parsed = try_from(api, request)

\* try_from answers Ok or Err.
LEMMA ResultHasFlag ==
  ASSUME NEW a, NEW q
  PROVE  try_from(a, q).ok \in BOOLEAN
BY DEF try_from, Ok, Err

\* A typed call is never mistaken for none, since items count from one.
LEMMA CallIsNotNone ==
  ASSUME NEW a \in Apis, NEW v, WellTyped(a, v)
  PROVE  v # NoVariant
<1>1. v.item \in DOMAIN Items(a) /\ IsSequence(Items(a))
  BY CodecAssumption DEF IsApi, WellTyped
<1>2. v.item # 0
  BY <1>1, SequenceFacts
<1> QED
  BY <1>2 DEF NoVariant, Variant

\* What is built is a request.
LEMMA BuiltIsRequest ==
  ASSUME NEW a, NEW v, WellTyped(a, v)
  PROVE  IsRequest(into_request(a, v))
BY DEF IsRequest, into_request, params_value, WellTyped,
       NoParams, ArrayParams, MapParams

\* What was parsed, whoever made the request, is a typed call.
LEMMA ParsedTypes ==
  ASSUME CodecInv, stage = "parsed", parsed.ok
  PROVE  WellTyped(api, parsed.variant)
<1>1. /\ api \in Apis /\ IsApi(api)
      /\ parsed = try_from(api, request)
  BY CodecAssumption DEF CodecInv, CodecTypeOK
<1>2. IsRequest(request)
  BY DEF CodecInv, CodecTypeOK
<1> QED
  BY <1>1, <1>2, ParsedIsTyped

\* Where names and keys do not collide, what is parsed is what was meant.
LEMMA ParsedIsMeant ==
  ASSUME CodecInv, Arrived, Unambiguous(api)
  PROVE  parsed = Ok(intent)
<1>1. /\ api \in Apis /\ WellTyped(api, intent)
      /\ request = into_request(api, intent)
      /\ parsed = try_from(api, request)
  BY DEF CodecInv, CodecTypeOK, Arrived
<1> QED
  BY <1>1, ParseAfterBuild, CodecAssumption

\* The invariant holds of every run of the codec.
THEOREM CodecInvariant == Spec => []CodecInv
<1>1. Init => CodecInv
  BY DEF Init, CodecInv, CodecTypeOK, Err
<1>2. CodecInv /\ [Next]_vars => CodecInv'
  <2> SUFFICES ASSUME CodecInv, [Next]_vars
               PROVE  CodecInv'
    OBVIOUS
  <2>1. CASE UNCHANGED vars
    BY <2>1 DEF CodecInv, CodecTypeOK, vars
  <2>2. ASSUME NEW v \in Variants(api), Build(v)
        PROVE  CodecInv'
    <3>1. WellTyped(api, v) /\ v # NoVariant
      BY CallIsNotNone, CodecAssumption DEF CodecInv, CodecTypeOK
    <3> QED
      BY <2>2, <3>1, BuiltIsRequest DEF Build, CodecInv, CodecTypeOK
  <2>3. ASSUME NEW q \in Foreign, Arrive(q)
        PROVE  CodecInv'
    BY <2>3, CodecAssumption DEF Arrive, CodecInv, CodecTypeOK
  <2>4. CASE Parse
    BY <2>4, ResultHasFlag DEF Parse, CodecInv, CodecTypeOK
  <2>5. CASE Relay
    <3>1. WellTyped(api, parsed.variant) /\ parsed.variant # NoVariant
      BY <2>5, ParsedTypes, CallIsNotNone DEF Relay, CodecInv, CodecTypeOK
    <3>2. Unambiguous(api) /\ intent # NoVariant => parsed.variant = intent
      BY <2>5, ParsedIsMeant DEF Relay, Arrived, Ok
    <3>3. IsRequest(into_request(api, parsed.variant))
      BY <3>1, BuiltIsRequest
    <3> QED
      BY <2>5, <3>1, <3>2, <3>3 DEF Relay, CodecInv, CodecTypeOK, Err
  <2>6. CASE Reset
    BY <2>6 DEF Reset, CodecInv, CodecTypeOK, Err
  <2> QED
    BY <2>1, <2>2, <2>3, <2>4, <2>5, <2>6 DEF Next
<1> QED
  BY <1>1, <1>2, PTL DEF Spec

\* The codec keeps its types: for a trait without collisions a request on the
\* wire is foreign, or the one that the call was built into at first.
THEOREM CodecTypes == Spec => []CodecTypeOK
<1>1. CodecInv => CodecTypeOK
  BY DEF CodecInv
<1> QED
  BY <1>1, CodecInvariant, PTL

\* For every trait without colliding names and keys, what the generated
\* client means is what the generated server layer understands, directly and
\* after any number of services that parse the request and call on with it.
THEOREM CallsRoundTrip == Spec => []RoundTrips
<1>1. CodecInv => RoundTrips
  BY ParsedIsMeant DEF RoundTrips
<1> QED
  BY <1>1, CodecInvariant, PTL

\* The server layer takes no request its try_from does not know, and leaves
\* none that it does.
THEOREM TakenNamesKnown == Spec => []TakenIsKnown
<1>1. CodecInv => TakenIsKnown
  BY UnknownIsForwarded DEF CodecInv, TakenIsKnown
<1> QED
  BY <1>1, CodecInvariant, PTL

\* Whatever a client sends, a handler is only called with all its arguments,
\* each of its type.
THEOREM HandlersGetTypedArgs == Spec => []HandlerArgsWellTyped
<1>1. CodecInv => HandlerArgsWellTyped
  BY ParsedTypes DEF HandlerArgsWellTyped
<1> QED
  BY <1>1, CodecInvariant, PTL
=============================================================================
