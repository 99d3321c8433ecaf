---------------------------- MODULE RpcApiProofs ----------------------------
(***************************************************************************)
(* What the two conversions of the request enum do with every api, request *)
(* and typed call: lemmas about the operators of RpcApi.                   *)
(***************************************************************************)
EXTENDS RpcApi, TLAPS, SequenceTheorems, WellFoundedInduction

\* The elements of a sequence are numbered from one, and its length says how
\* many they are.
LEMMA SequenceFacts ==
  ASSUME NEW s, IsSequence(s)
  PROVE  Len(s) \in Nat /\ DOMAIN s = 1..Len(s)
BY LenProperties DEF IsSequence

\* Sequences of the same length with the same elements are equal.
LEMMA SameSequence ==
  ASSUME NEW s, NEW t, IsSequence(s), IsSequence(t), Len(s) = Len(t),
         \A i \in 1..Len(s) : s[i] = t[i]
  PROVE  s = t
<1>1. DOMAIN s = DOMAIN t
  BY SequenceFacts
<1>2. {s[i] : i \in DOMAIN s} = {t[i] : i \in DOMAIN t}
  BY <1>1, SequenceFacts
<1> QED
  BY <1>2, SeqEqual DEF IsSequence

\* A function on 1..n is a sequence of length n.
LEMMA FunctionIsSequence ==
  ASSUME NEW n \in Nat, NEW f, f = [i \in 1..n |-> f[i]]
  PROVE  IsSequence(f) /\ Len(f) = n
<1> DEFINE S == {f[i] : i \in DOMAIN f}
<1>1. DOMAIN f = 1..n
  OBVIOUS
<1>2. f \in [1..n -> S]
  BY <1>1
<1> QED
  BY <1>1, <1>2 DEF IsSequence

\* A set of natural numbers that is not empty has a least element.
LEMMA LeastNumber ==
  ASSUME NEW T, T \subseteq Nat, T # {}
  PROVE  \E i \in T : \A j \in T : i <= j
<1> DEFINE R == OpToRel(<, Nat)
<1>1. IsWellFoundedOn(R, Nat)
  BY NatLessThanWellFounded
<1>2. \A i, j \in T : i > j => <<j, i>> \in R
  BY DEF OpToRel
<1> HIDE DEF R
<1>3. PICK i \in T : \A j \in T : ~ (<<j, i>> \in R)
  BY <1>1, WFMin
<1>4. ASSUME NEW j \in T
      PROVE  i <= j
  <2>1. ~(i > j)
    BY <1>2, <1>3
  <2> QED
    BY <2>1
<1> QED
  BY <1>4

-----------------------------------------------------------------------------
(* Which arm of the match takes a method *)

\* A method that fits an arm is taken by an arm it fits, the first of them.
LEMMA FirstArmFits ==
  ASSUME NEW api, IsApi(api), NEW method, Arms(api, method) # {}
  PROVE  /\ FirstArm(api, method) \in Arms(api, method)
         /\ \A j \in Arms(api, method) : FirstArm(api, method) <= j
<1>1. Arms(api, method) \subseteq Nat
  BY SequenceFacts DEF Arms, IsApi
<1> QED
  BY <1>1, LeastNumber DEF FirstArm

\* Where names are distinct, an item's primary name is taken by its own arm.
LEMMA OwnArm ==
  ASSUME NEW api, IsApi(api), DistinctNames(api), NEW n \in DOMAIN Items(api)
  PROVE  LET method == rpc_identifier(api, Items(api)[n].name) IN
         Arms(api, method) # {} /\ FirstArm(api, method) = n
<1> DEFINE method == rpc_identifier(api, Items(api)[n].name)
<1>1. n \in Arms(api, method)
  BY DEF Arms, names_with_aliases
<1>2. ASSUME NEW j \in Arms(api, method)
      PROVE  j \in Nat /\ n \in Nat /\ ~(j < n)
  BY SequenceFacts DEF Arms, IsApi, DistinctNames
<1>3. FirstArm(api, method) \in Arms(api, method) /\ FirstArm(api, method) <= n
  BY <1>1, FirstArmFits
<1> HIDE DEF method
<1>4. FirstArm(api, method) = n
  BY <1>2, <1>3
<1> QED
  BY <1>1, <1>4 DEF method

\* The names the server layer takes are those its match knows.
LEMMA TakenNames ==
  ASSUME NEW api, NEW method
  PROVE  method \in all_method_names(api) <=> Arms(api, method) # {}
BY DEF all_method_names, Arms

-----------------------------------------------------------------------------
(* What becomes of the arguments *)

\* Where keys are distinct, the map holds every argument under its key.
LEMMA KeyHoldsArgument ==
  ASSUME NEW item, NEW args, NEW i \in DOMAIN item.params,
         DOMAIN item.params \subseteq Nat,
         \A j, k \in DOMAIN item.params :
           item.params[j].key = item.params[k].key => j = k
  PROVE  Inserted(item, args)[item.params[i].key] = args[i]
<1> DEFINE key == item.params[i].key
           Last(n) == /\ item.params[n].key = key
                      /\ \A j \in DOMAIN item.params :
                           item.params[j].key = key => j <= n
<1>1. key \in Keys(item)
  BY DEF Keys
<1>2. Last(i)
  OBVIOUS
<1>3. \A n \in DOMAIN item.params : Last(n) => n = i
  OBVIOUS
<1>4. (CHOOSE n \in DOMAIN item.params : Last(n)) = i
  BY <1>2, <1>3
<1> QED
  BY <1>1, <1>4 DEF Inserted

\* The arguments of a typed call are accepted by the arm of their item, and
\* come out of it as they went in.
LEMMA ArgumentsReturn ==
  ASSUME NEW api, IsApi(api), DistinctKeys(api), NEW v, WellTyped(api, v)
  PROVE  LET item   == Items(api)[v.item]
             params == params_value(item, v.args)
         IN  Accepts(item, params) /\ Extracted(item, params) = v.args
<1> DEFINE item == Items(api)[v.item]
           n == Len(item.params)
<1>1. /\ n \in Nat
      /\ DOMAIN item.params = 1..n
      /\ IsSequence(v.args) /\ Len(v.args) = n /\ DOMAIN v.args = 1..n
      /\ \A i \in 1..n : v.args[i] \in item.params[i].ty
  BY SequenceFacts DEF WellTyped, IsApi
<1>2. CASE item.params = <<>>
  <2>1. IsSequence(<<>>) /\ Len(<<>>) = 0
    BY EmptySeq DEF IsSequence
  <2>2. v.args = <<>>
    BY <1>1, <1>2, <2>1, SameSequence
  <2> QED
    BY <1>2, <2>2 DEF Accepts, Extracted
<1>3. CASE item.params # <<>> /\ item.kind = "map"
  <2> DEFINE map == Inserted(item, v.args)
             out == [i \in 1..n |-> map[item.params[i].key]]
  <2>1. \A j, k \in DOMAIN item.params :
          item.params[j].key = item.params[k].key => j = k
    BY <1>3 DEF DistinctKeys, WellTyped
  <2>2. \A i \in 1..n : map[item.params[i].key] = v.args[i]
    <3> SUFFICES ASSUME NEW i \in 1..n
                 PROVE  map[item.params[i].key] = v.args[i]
      OBVIOUS
    <3>1. i \in DOMAIN item.params /\ DOMAIN item.params \subseteq Nat
      BY <1>1
    <3> HIDE DEF item
    <3> QED
      BY <2>1, <3>1, KeyHoldsArgument
  <2>3. \A i \in 1..n : item.params[i].key \in DOMAIN map
    BY <1>1 DEF Inserted, Keys
  <2> HIDE DEF map
  <2>4. IsSequence(out) /\ Len(out) = n
    BY <1>1, FunctionIsSequence
  <2>5. \A i \in 1..n : out[i] = v.args[i]
    BY <2>2
  <2> HIDE DEF out
  <2>6. out = v.args
    BY <1>1, <2>4, <2>5, SameSequence
  <2>7. params_value(item, v.args) = MapParams(map)
    BY <1>3 DEF params_value, map
  <2>8. Accepts(item, MapParams(map))
    BY <1>1, <1>3, <2>2, <2>3 DEF Accepts, MapParams
  <2>9. Extracted(item, MapParams(map)) = out
    BY <1>3 DEF Extracted, MapParams, out
  <2> QED
    BY <2>6, <2>7, <2>8, <2>9
<1>4. CASE item.params # <<>> /\ item.kind # "map"
  <2>1. params_value(item, v.args) = ArrayParams(v.args)
    BY <1>4 DEF params_value
  <2>2. Accepts(item, ArrayParams(v.args))
    BY <1>1, <1>4 DEF Accepts, ArrayParams
  <2>3. Extracted(item, ArrayParams(v.args)) = v.args
    BY <1>4 DEF Extracted, ArrayParams
  <2> QED
    BY <2>1, <2>2, <2>3
<1> QED
  BY <1>2, <1>3, <1>4

\* The fields an arm gives its variant are as many as the item's parameters
\* and of their types.
LEMMA FieldsTyped ==
  ASSUME NEW api, IsApi(api), NEW n \in DOMAIN Items(api), NEW request,
         IsRequest(request), Accepts(Items(api)[n], request.params)
  PROVE  WellTyped(api, Variant(n, Extracted(Items(api)[n], request.params)))
<1> DEFINE item == Items(api)[n]
           params == request.params
           fields == Extracted(item, params)
<1>1. Len(item.params) \in Nat /\ DOMAIN item.params = 1..Len(item.params)
  BY SequenceFacts DEF IsApi
<1>2. /\ IsSequence(fields) /\ Len(fields) = Len(item.params)
      /\ \A i \in DOMAIN item.params : fields[i] \in item.params[i].ty
  <2>1. CASE item.params = <<>>
    <3>1. IsSequence(<<>>) /\ Len(<<>>) = 0
      BY EmptySeq DEF IsSequence
    <3> QED
      BY <1>1, <2>1, <3>1 DEF Extracted
  <2>2. CASE item.params # <<>> /\ item.kind = "map"
    <3>1. fields = [i \in 1..Len(item.params) |-> params.map[item.params[i].key]]
      BY <2>2 DEF Extracted
    <3>2. \A i \in DOMAIN item.params :
            params.map[item.params[i].key] \in item.params[i].ty
      BY <2>2 DEF Accepts
    <3> HIDE DEF fields
    <3>3. \A i \in DOMAIN item.params : fields[i] \in item.params[i].ty
      BY <1>1, <3>1, <3>2
    <3>4. IsSequence(fields) /\ Len(fields) = Len(item.params)
      BY <1>1, <3>1, FunctionIsSequence
    <3> QED
      BY <3>3, <3>4
  <2>3. CASE item.params # <<>> /\ item.kind # "map"
    BY <2>3 DEF Extracted, Accepts, IsRequest
  <2> QED
    BY <2>1, <2>2, <2>3
<1> QED
  BY <1>2 DEF WellTyped, Variant

-----------------------------------------------------------------------------
(* The conversions together *)

\* Parsing what a typed call was built into gives the call back.
THEOREM ParseAfterBuild ==
  ASSUME NEW api, IsApi(api), Unambiguous(api), NEW v, WellTyped(api, v)
  PROVE  try_from(api, into_request(api, v)) = Ok(v)
<1> DEFINE item == Items(api)[v.item]
           request == into_request(api, v)
<1>1. /\ request.method = rpc_identifier(api, item.name)
      /\ request.params = params_value(item, v.args)
  BY DEF into_request
<1>2. v.item \in DOMAIN Items(api) /\ v = Variant(v.item, v.args)
  BY DEF WellTyped
<1>3. Arms(api, request.method) # {} /\ FirstArm(api, request.method) = v.item
  BY <1>1, <1>2, OwnArm DEF Unambiguous
<1>4. /\ Accepts(item, request.params)
      /\ Extracted(item, request.params) = v.args
  BY <1>1, ArgumentsReturn DEF Unambiguous
<1> QED
  BY <1>2, <1>3, <1>4 DEF try_from

\* try_from does not know a method exactly if the server layer does not take
\* it, and then says so.
THEOREM UnknownIsForwarded ==
  ASSUME NEW api, NEW request
  PROVE  try_from(api, request) = Err("MethodNotFound")
           <=> request.method \notin all_method_names(api)
BY TakenNames DEF try_from, Ok, Err

\* What try_from accepts it gives the handler complete and well typed.
THEOREM ParsedIsTyped ==
  ASSUME NEW api, IsApi(api), NEW request, IsRequest(request),
         try_from(api, request).ok
  PROVE  WellTyped(api, try_from(api, request).variant)
<1> DEFINE arm == FirstArm(api, request.method)
           v == Variant(arm, Extracted(Items(api)[arm], request.params))
<1>1. /\ Arms(api, request.method) # {}
      /\ Accepts(Items(api)[arm], request.params)
      /\ try_from(api, request) = Ok(v)
  BY DEF try_from, Err
<1>2. arm \in DOMAIN Items(api)
  BY <1>1, FirstArmFits DEF Arms
<1>3. WellTyped(api, v)
  BY <1>1, <1>2, FieldsTyped
<1> QED
  BY <1>1, <1>3 DEF Ok
=============================================================================
