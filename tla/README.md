# tower-json-rpc: specifications, checks and proofs

TLA+ models of the crate `tower-json-rpc` and of the code its macro
(`tower-json-rpc-derive`) generates, the TLC runs that check them on small
instances, and TLAPS proofs for instances of every size. Paths are relative to
the repository; `render_server.rs`, `render_client.rs`, `rpc_macro.rs`,
`attributes.rs` and `lib.rs` are in `tower-json-rpc-derive/src`, `tests/ui` is in
`tower-json-rpc-derive`, the other sources are in `tower-json-rpc/src`.

## 1. Inventory

| component | state | operations | correct when |
|---|---|---|---|
| server bridge, `JsonRpcServer` (server.rs) | the inner service | `poll_ready`, `clone`, `call` | a request that converts reaches the inner service once, its response comes back; any failure ends the request and frees what it held |
| client bridge, `JsonRpcClient` (client.rs) | the inner service | the same three | the same |
| generated server layer, `<Trait>ServerService` (render_server.rs:399-515) | the inner service, an `Arc` of the handler | the same three; dispatch by method name | a declared method is executed by this layer's handler or answered by this layer, and never forwarded; any other is forwarded untouched; answers carry the request's id |
| generated request enum (render_server.rs:52-325, render_client.rs:229-309) | none | `From<Enum> for Request`, `TryFrom<Request>`, `ServerRequest` | building and parsing are inverse; the handler gets complete and well-typed arguments; the layer's list of names and the parser's arms agree |
| `rpc_call` (client.rs:131-163) | a clone of the service | convert, poll until ready, call once | a call ends, answered or not, and leaves nothing reserved; a success is the handler's |
| generated client and response enum (render_client.rs:52-118, 311-413) | a clone of the service | one method per rpc method; `ServerResponse` | the caller gets the result of its own call, as the right variant |
| generated subscription client (render_client.rs:180-227) | jsonrpsee's client | one `subscribe` per subscription | the server sees the subscription's name and parameters |
| HTTP conversions (request.rs, client.rs:27-80) | none | body to request, response to body, and back | a failure is reported, at the step where it happens |
| WebSocket client (ws_client.rs) | an `Arc` of jsonrpsee's client | always ready; `call` | the server sees the caller's method and parameters; the response has the caller's id |
| macro front end (rpc_macro.rs, attributes.rs, lib.rs) | the description of one trait | parse, validate, collect, render | it refuses what it does not understand; every entry becomes the item its attribute asks for; what it generates compiles and what it gives back is the author's |
| errors (error.rs) | none | conversions | |

**How they interact.** Everything is a Tower service around another one. The
owner of the outermost service (an HTTP server, a test, `rpc_call`) has a handle
of its own, a clone of the whole stack. It polls the handle until all layers
are ready and then calls it. A library layer's `poll_ready` is its inner
service's; its `call` clones the inner service, leaves the polled one in the
handle, and returns a future that converts the request, decides who executes
it and calls the clone. Handles share only what the layers share: semaphores
of limiting layers, the handler's `Arc`. Callers share in the same way: every
clone of a `WsClient` is the same connection, while each HTTP call has an
exchange of its own.

**What is hard here.** Reservations made by `poll_ready` against calls made on
clones; concurrent requests in shared layers; futures dropped at any await;
several apis that declare overlapping names; two pieces of generated code that
must agree on the names of a trait; traits with colliding aliases, renames and
namespaced names; correlation of responses where every request has id 0; replies
that overtake one another or come when nobody waits; what of a reply passes for
a success; two halves of the macro's output that must fit one another.
`PROJECT.json` lists each hazard at its line with the properties against it.

## 2. The modules

| module | models | proofs in |
|---|---|---|
| `RpcApi` | what `#[rpc]` generates from a trait, as operators: names, parameter encoding, `into_request`, `try_from`, the server layer's list of names | `RpcApiProofs` |
| `RequestCodec` | one request between building and parsing, over a set of traits | `RequestCodecProofs` |
| `TowerStack` | a stack of layers, its handles, and concurrent requests that travel through it; uses `RpcApi` for each api layer | `TowerStackProofs`, `TowerStackReadyProofs`, `TowerStackDispatchProofs` |
| `FlatRouter` | what a stack promises: the abstract specification of one router | |
| `TowerStackFlat` | the refinement: a `TowerStack` as a `FlatRouter` | `TowerStackFlatProofs` |
| `ClientCall` | concurrent calls through every client the crate offers, over HTTP or a shared WebSocket, and what is made of the replies; uses `RpcApi` for building and parsing; the refinement: each caller as a `RemoteCall` | `ClientCallProofs` |
| `RemoteCall` | what the clients promise: the abstract specification of a caller with a server of its own | |
| `RpcMacro` | the expansion of `#[rpc]` on one trait, from attribute tokens to enums and matches | `RpcMacroProofs` |
| `MCRequestCodec`, `MCTowerStack`, `MCClientCall`, `MCRpcMacro` | the instances TLC checks | |

`RpcMacro` says which traits there are, `RpcApi` what a trait becomes; the two
sides of the wire, `ClientCall` and `TowerStack`, both stand on `RpcApi`.

### RpcApi

An api is the `RpcDescription` of one trait: an optional namespace, a separator,
methods and subscriptions in declaration order. A method string is a sequence of
pieces and `rpc_identifier` concatenates them, so `n` `_` `g` as an alias of one
method and `g` in namespace `n` are the same name, as in the code. `Accepts` and
`Extracted` are one arm of the generated match: the condition under which it
does not return `InvalidParams`, and the fields it fills. `FirstArm` is Rust's
match: the first arm that fits. `Inserted` is `map.insert` in a loop: the last
parameter with a key wins.

An argument is represented by the JSON value it serializes to, and a Rust type by
the set of JSON values it deserializes from: that serde's `Serialize` and
`Deserialize` of a user type agree is assumed, and the `unwrap`s of `to_value` on
arguments are taken to succeed.

### RequestCodec

`Build` (a typed client) or `Arrive` (any other client), then `Parse` (the server
layer or a typed middleware), then `Relay` (who parsed the request calls on with
the variant, through `rpc_call`) or `Reset`. It is small on purpose: the content
is in the operators, and the module says which requests meet which traits, and how
often.

### TowerStack

The layers are a sequence `Kind` of `"limit"`, `"bridge"` and `"api"`, the
innermost service is number `Inner`. The correspondence with the code:

| in the model | in the code |
|---|---|
| `serving[h]`, `polled[h]` | the owner's loop around `poll_ready`, and the nested `poll_ready` calls |
| `permit[h]` | the `Option<OwnedSemaphorePermit>` of each limit layer of a handle |
| `free[l]` | the semaphore that all clones of limit layer `l` share |
| `flight[r]` | permits moved into response futures |
| `pc[r]`, `pos[r]` | the await the request's future is suspended at, and in which layer |
| `ran[r]` | which handlers and inner services have begun to execute the request |
| `answer[r]` | the response, or why there is none |

`PollLayer`, `PollLimit`, `PollInner` are one `poll_ready` each, outside in.
`CallLimit` moves the permit from the handle to the future and, if there is none,
panics, as tower's `ConcurrencyLimit` does ("poll_ready must be called first").
`CallLayer` is a library layer's `call`: it clones, gives the handle back and
returns a future, whose steps are `ConvertFails`, `Forward`, `Reject`, `Stub`,
`Execute`, `HandlerReturns`. `Forward*` is the call on the clone; a clone never
has a permit, since `Clone` of `ConcurrencyLimit` starts without one. `Deliver`
converts the response outward. `Cancel`, `CancelPoll`, `DropHandle` and `Panic` are
what owners and handlers may do at any await.

Abstractions. `JsonRpcServer` and `JsonRpcClient` are one layer kind, because
`poll_ready` and `call` are the same in both. Only the outermost library layer
converts from or to a transport, inside it the conversions are the identity
(request.rs:41-55, 74-80), so only there can a request be unreadable. A handle
is polled or called for one request at a time (`&mut self`), but has as many
futures in flight as it made. `ConcurrencyLimit` represents the layers that
reserve in `poll_ready`; a permit granted to a waiter that has been dropped is not
modelled as a state of its own, it is back in the semaphore at once. The
innermost service may answer under any id, fail or panic; handlers may do
anything but change the stack. A panic ends the request it happens in.

### FlatRouter and TowerStackFlat

`FlatRouter` has no layers, handles or permits. It knows of everything that can
arrive which service it is for (`Owner`) and what becomes of it there
(`Verdict`): a request is asked, executed once by its owner or refused with the
refusal it deserves, answered under its id, and closed with its response or
without. A panic says that the request was executed, an unready service that it
was not. `TowerStackFlat` maps a stack to it: the owner is the outermost layer
that declares the method, or the innermost service; the verdict is `try_from`'s.
Every step of the stack is then a step of the router or none: polling, limits,
clones, forwarding through however many layers leave no trace. This is stronger
than the invariants about dispatch: it also says that the refusal is the right
one and that the order of the steps is.

### ClientCall

Callers are tasks with clones of the clients. A call has a *face* (a generated
method, `rpc_call` with the request enum, `rpc_call` with a `Request` of the
caller's own, a generated subscription method) and a transport. It is built in
full before anything is polled (`Begin`), polled for, sent (`Send`), carried out
or not by the other end (`Execute`, `Refuse`, `Accept`, `Spoil`), and its reply
read back (`Receive`). `Cancel` drops the future at either await: over HTTP the
connection goes with it, over a `WsClient` the request stays on the wire and its
reply is thrown away when it comes (`Discard`).

| in the model | in the code |
|---|---|
| `pc[c]`, `call[c]` | the await the call's future is suspended at, and what it owns |
| `wire[t]` | a request on the wire, or its reply; for a `WsClient` `t` is jsonrpsee's id |
| `ticket[c]` | hyper's response future, jsonrpsee's entry for a pending call |
| `OnWire` | what `WsClient::call` hands to jsonrpsee: method and parameters, without the id |
| `Read` | the way back: transport, `to_json_rpc_response`, and the face's own reading |

The other end serves the trait the clients were generated from, one request at a
time per exchange; `TowerStack` says what a stack does, so here it is `try_from`
and a handler that returns any of its values or an error. jsonrpsee's client is
modelled as what the crate relies on: it gives each request an id that no other
request under way has, and matches replies by it. Tickets are reused once
their exchange is over. `raw` calls over HTTP get an error object as a
`Response`, over a `WsClient` as an `Err`: the model has both, and no property
asks for either.

A return type is the set of JSON values it deserializes from, the set of those
the handler's successes serialize to, and whether it is spelled `Result<_, _>`,
which is all `ok_type` looks at.

### RemoteCall

`RemoteCall` has no ids, tickets, connections or transports. A caller asks, the
request is executed with a result the handler can return, or is not, and the
caller is told or gives up. What it will be told is settled once, and only its own
end takes that back. At the end of `ClientCall` the calls of any number of callers
are mapped to it: a call is asked from `Begin` on, its outcome is what `Read`
would make of the reply that has come for it, and what was executed must be
`try_from` of the very request the caller made, not of what `WsClient` made of it.
Polling, sending, losing late replies and everything that other callers do leave no
trace. It says what an invariant of one state cannot: an outcome is settled once,
and then neither lost nor changed before the caller ends. It does not say what the
caller is told at that end, which `End` hides; `OwnAnswer` and `OkIsServed` do, so
the run has all three.

### RpcMacro

The input is the tokens of `#[rpc(..)]` and the entries of a trait with their
attributes; parsing into tokens and types is syn's. `Arguments` is the cutter of
attribute arguments with its count of angle brackets, `retain` the check for
unknown and doubled arguments, `Fits` the forms an argument can have. The steps
are those of `RpcDescription::from_item`: the switches, then entry by entry, as
method or subscription, refused, or, for a subscription without an unsubscribe
name or with a pattern for a parameter, a panic of the macro. `Render` gives the
trait back rewritten, and says which enum and which matches over it are
generated. `PanicRender` is the other end: `to_variant_name` hands its text to
`syn::Ident::new` (render_server.rs:533, render_client.rs:381), which panics over
what is no identifier, as it does for the names `"1a"`, `"a.b"` and `""` and for
the identifiers `_1`, `__` and `r#type`; a trait for a client alone has no variants
for its subscriptions, so their names do no harm there. In a name, a character is
an element of a sequence and `subscribe` is one element, since only that prefix is
asked for; `Begins` and `Continues` are the characters an identifier may begin with
and go on with.

## 3. The runs

| run | asks | bounds and why they are enough |
|---|---|---|
| `stack_dispatch` | who executes a request, does its answer say so, is the stack a flat router | two handles, two requests at once, an input for each way through a stack of two limits, the bridge and two apis that share the name `hi`; 45 000 states |
| `stack_limits` | do permits survive everything, do the limits hold, is nothing called unready | three handles (one kept open, two one-shot), three requests for capacities 2 and 1: both limits are full and waited for; requests are symmetric; 67 000 states |
| `stack_progress` | does every request end, can someone always go on, does every step go forward | three one-shot handles, two requests that compete for the inner limit's one permit while holding the outer limit's; 13 000 states |
| `stack_inside` | with a limit layer between two apis, where calls on it end unready: do permits survive, and exactly which reservations outlive the call they were made for, pinned in idle handles | as `stack_limits`, capacities 2 outside and 1 between the apis; 90 000 states |
| `inner_limit` | a limit layer between the bridge and an api | one handle and one request already violate `NeverUnready` |
| `codec` | do build and parse agree, for which traits, also of a call that was made again from what was parsed | all traits of two items from two namespaces, four alias sets and four parameter shapes (none, array, map, map with equal keys); relaying leads back to states already seen, so there is no bound on it; 103 000 states |
| `codec_collision` | the same for every trait the macro accepts | violated by a trait with equal keys |
| `client` | whose reply does a caller get, what is made of it, is each caller served as if alone | two callers and three exchanges, so that replies overtake one another and one abandoned call's comes late; a trait with an array method, a map method whose results overlap the first's, and a subscription; own requests with an array and with an object; callers and exchanges are symmetric; 189 000 states |
| `client_map` | the same without the exception for named parameters over `WsClient` | violated by one call |
| `client_alias` | the same with a return type that is an alias of `Result` | violated by one call |
| `macro` | how are attributes cut, what is collected and recorded, which names make the macro panic, what goes back to rustc | four sound and ten unsound `#[rpc(..)]`; all traits of up to two entries out of 11 that are taken, 8 with odd names, most of which give no identifier, and 19 that are not taken, each for one reason: two are enough for order, for a refusal after an entry was taken and for two names to collide; item types of every nesting of up to five tokens; 35 000 states |
| `macro_exhaustive` | does every match cover its enum | violated by a subscription in a trait for a server and a client |

The five violations are disagreements of the code with its documentation:

* **A standard layer inside the crate's layers** (`inner_limit`). README.md:12
  promises composition with standard Tower layers and README.md:125 puts
  layers inside `JsonRpcLayer`. The crate's layers poll one service and call a
  clone of it (server.rs:65, render_server.rs:454, client.rs:215), so
  `ConcurrencyLimit` inside any of them panics at the first call, while the
  permit its poll took stays in the handle.
* **Traits with collisions** (`codec_collision`). README.md:276-277 shows that a
  typed request can be parsed back. With two parameters renamed to one key the
  first argument is overwritten (render_server.rs:106); with an alias equal to a
  later item's name the wrong variant is parsed (render_server.rs:174-175). The
  vendored case tests/ui/incorrect/rpc/rpc_name_conflict.rs:3 says "Names must be
  unique", but nothing compares names.
* **Named parameters over WebSocket** (`client_map`). README.md:289-290 offers
  maps without a restriction. `WsClient::call` reads the parameters as a list and
  takes the empty one if they are an object (ws_client.rs:72-73): the server
  refuses the call for want of its arguments.
* **Aliases of Result** (`client_alias`). The macro's own documentation uses
  `RpcResult<u16>` (lib.rs:265) and unwraps the value (lib.rs:398). The client
  looks for a type spelled `Result` (render_client.rs:398) and otherwise
  deserializes the value into the whole type, which fails after the call has
  been carried out.
* **Subscriptions in a trait for both sides** (`macro_exhaustive`). README.md:41
  and :284-286 list all three together. The request enum has a variant for the
  subscription, the client's `into_json_rpc_request` no arm
  (render_client.rs:261-292, 302-304), so the expansion does not compile.

The macro also differs from what is written about it in ways that have no run of
their own; the models do what the source does.

| written | the source |
|---|---|
| README.md:285, 289: `param_kind = "map"` | `parse_param_kind` takes the bare word only and refuses the string (attributes.rs:224), as tests/ui/correct/param_kind.rs:13 writes it |
| attributes.rs:67-69: a comma inside angle brackets does not end an argument | it does behind the arrow of a function type inside them, whose `>` counts as a bracket (attributes.rs:77): `Pair<fn() -> u8, u8>` is cut. `CutsAtOuterCommas` is about types without such arrows (`Bracketing`) |
| lib.rs:171 and tests/ui/incorrect/method/method_no_name.rs:3: a method must have a name | it gets one from its identifier |
| lib.rs:160: entries without an attribute must not be there | they are methods |
| lib.rs:204: subscriptions must be asynchronous | nobody asks |
| tests/ui/incorrect: rpc/rpc_name_conflict.rs, rpc/rpc_conflicting_alias.rs, sub/sub_dup_name_override.rs, sub/sub_conflicting_alias.rs are to be refused | names are never compared, within an entry or between entries |

A second `#[method(..)]` on one function is passed over with whatever it says
(`find_attr`, rpc_macro.rs:366), which nothing promises or forbids. The text of
lib.rs and the cases under tests/ui are jsonrpsee's, and no test runs the latter.

**Deadlock** is checked in every run except `macro` and `macro_exhaustive`, whose
expansions end.

**Fairness** is used by `stack_progress` only. Weak fairness of `PollStep`,
`CallStep`, `LayerStep` and `ReturnStep`: an executor polls what was woken, handlers
and the innermost service return. Strong fairness of `PollLimit`: tokio's
semaphore serves its waiters in turn, so one of them is not passed over for ever
although the permit is taken again and again. Weak fairness of `DropHandle` for
one-shot handles: `rpc_call` owns its clone and drops it when its future ends.
`Submit`, `Cancel` and `CancelPoll` are not fair. With kept handles `Resolves`
does not hold, and should not: an idle connection whose last poll failed or was
cancelled keeps the permits it got, which is a property of Tower's contract and
not of this crate.

## 4. What is proved

The theorems about stacks are about any number of handles and requests, any stack
of the three layer kinds, any capacities and any apis, those about clients about
any trait and any number of callers and exchanges, those about the macro about any
trait. They are proved under `StackAssumption` (the types of the constants, and at
least one of the crate's layers in the stack), `CodecAssumption` (apis list their
items and parameters in sequences, typed calls are well typed), `ClientAssumption`
(the same of the one api, and `None` is no ticket), `MacroAssumption` (a trait's
entries, their attributes and the tokens of these, parameters and identifiers are
sequences), `UpperAssumption` (underscore and dash have no case, and no two
characters share a capital, which is true of `to_ascii_uppercase`) and
`IdentAssumption` (an identifier may go on with what it may begin with, and a
capital may stand where its small letter may).

| theorem | statement | argument |
|---|---|---|
| `TypeCorrect` | `Spec => []TypeOK` | `TypeInv` adds `Placed`: a request that is converting or handled is in a library layer, one at `"inner"` is at `Inner`, one that responds has a reply |
| `PermitsConserved` | `Spec => []PermitConservation` | `PermitInv` adds `FlightExact`: a future holds exactly the permits of the limit layers its request has passed. Without it a future might release a permit it does not have |
| `LimitsHold` | `Spec => []InFlightWithinCap` | requests past a layer carry its permit (`FlightExact`), carriers are at most the capacity (`PermitConservation`) |
| `ReadyWhereLimitsOutside` | `LimitsOutside` implies `Spec => []NeverUnready` | `ReadyInv`: a busy handle serves one request alone, polling has reserved what it has passed, a call finds reserved what it has still to pass, and a forwarded request is inside a library layer and so past every limit |
| `NobodyStuck` | `CapsExceedKept` implies `Spec => []NeverStuck` | `OwnersInv`: who is under way has a handle to itself, a clone made for one call has reserved exactly what its polling has passed (`FreshClones`), and a call in progress has one of the crate's layers still ahead (`Enters`). If nobody could go on, every permit waited for would be in a handle (`PermitConservation`) and one of them in such a clone, which waits further inside (`HolderWaitsInside`); the innermost of those that wait contradicts this |
| `StepsAdvance` | `Spec => Advances` | `Ahead` counts the steps a request can still take; it is at most `3 * Inner + 2` (`AheadBounded`), each handler of an await lowers its own request's by at least one, and since who is under way has its handle to itself (`OwnersInv`), it leaves every other's alone. A state in which a call could run past the last layer would have no number, which is what `Enters` excludes. With `NobodyStuck` this is the part of `Resolves` that needs no fairness: steps can always be taken, and only so many |
| `CallsSpendReservations` | `Spec => CallSpendsReservation`, for any stack | during a call, what is reserved on its handle is what the call has still to pass; it leaves the handle at the outermost of the crate's layers, past every limit outside that one, which it spent, and short of every limit inside, whose reservations stay |
| `ExecutedOnce`, `AnswersTruthful` | `Spec => []DispatchedOnce`, `Spec => []AnswerExplained` | `DispatchInv`: layers a request has passed do not declare its method, nothing was executed or answered before handling, and the one element of `ran` is where the request is |
| `CodecTypes`, `CallsRoundTrip`, `TakenNamesKnown`, `HandlersGetTypedArgs` | the four invariants of `RequestCodec` | `CodecInv`: what is parsed is `try_from` of what was sent; then the theorems of `RpcApiProofs` |
| `StackImplementsFlat` | `Spec => StackIsFlat` | `DispatchInv` fixes where a request can be executed or refused; step by step, what the stack does there is what the router does, and any other step changes nothing the router sees |
| `RepliesAreOwn`, `IdsRestored` | `Spec => []OwnAnswer`, `Spec => []IdRestored` | `ClientInv`: a waiting caller's exchange carries its call under its own id (`Carried`), no two callers wait for one exchange (`Apart`), a reply repeats the id it was asked with (`Truthful`) |
| `TypedCallsServed`, `SuccessesServed`, `SuccessesReach`, `VariantsSound` | the four other invariants of `ClientCall`, if the trait is `Unambiguous` | the same invariant: what is on the wire is what was built, but for what `WsClient` drops, and what was built parses back (`ParseAfterBuild`), so what the server executed is what was called |
| `WaitersAreServed` | `Spec => []WaitersServed` | `Carried` again, and the id a reply repeats |
| `CallersServedAlone` | `Spec => CallersAreAlone` | `OutcomesAreOwn`: what a waiting caller would be told is a failure or an execution of its own request; step by step, asking, settling and ending are steps of `RemoteCall`, and an answer settles the one call that waits for it (`Apart`) or none |
| `EntriesCollected` | `Spec => []CollectsInOrder` | `MacroInv`: both lists are sequences, their items come from entries; taking the next entry keeps the list in order (`TakeKeepsOrder`) |
| `MatchesExhaustive` | `Spec => []ExhaustiveMatches` | the same invariant: what is out is rendered from what was collected |
| `ArgumentsCover` | the arguments of an attribute of any length overlap nowhere, hold all tokens but the separators, and no comma outside their own angle brackets | the code counts the brackets from 0 in each argument, the model once for the whole attribute; by induction over its tokens an argument's own count is the attribute's (`CountsAlone`), since both are 0 where it starts |
| `WrittenRecorded` | `Spec => []WrittenIsRecorded` | `Recorded`: an item is what the macro makes of the entry it is from. By `retain` no label is there twice, so the argument the macro picks for a label is the one the value is written in (`SaidIsValue`), and the attribute it picks is the first of its kind (`FirstAttr`) |
| `NamesRender` | `Spec => []DefaultNamesRender` | `PanicInv`: rendering panics only where some variant is no identifier. A snake-case identifier is not to blame: its camel case begins with the same character and has only characters an identifier goes on with, and so has the variant, which begins with a capital (`VariantIdent`) |
| `GoesOutClean` | `Spec => []OutputClean` | what `Omit` leaves of a list is exactly its other elements (`OmitElements`), by induction over its prefixes |
| `NamesKeptApart` | `Spec => []DefaultNamesDistinct` | two snake-case identifiers with the same camel case are told apart from the last character backwards: a capital means that an underscore stood before it, and nothing else does (`CamelInjective`) |
| `ClientTypes`, `MacroTypes` | the type invariants | from the same invariants |
| `ParseAfterBuild`, `UnknownIsForwarded`, `ParsedIsTyped` | about `try_from` and `into_request` alone | the match takes the first of the arms that fit, which is the item's own where names are distinct; the map has every argument under its key where keys are |

`LimitsOutside`, the hypothesis of `ReadyWhereLimitsOutside`, is the condition the
violated run shows to be needed.

`Unambiguous`, the hypothesis about names and keys, is the one `codec_collision`
shows to be needed. `CapsExceedKept`, that of `NobodyStuck`, is needed as well: TLC
finds everyone waiting if a handle that is kept open holds, idle, the one permit of
a limit. It holds where handles are clones made for one call, as in `rpc_call`.

The library's induction theorems take an operator and cannot be used. The proofs by
induction above instead take a least element of the set of numbers that fail,
which exists because `<` on the naturals is well founded (`NatsIn`, from
`WFMin`); recursive definitions are recursive functions, with one lemma for
a step of theirs.

Only model-checked: `Resolves`, as liveness under fairness is beyond the prover
(`NeverStuck` and `Advances` are its parts without fairness, and are proved), and
`CutsAtOuterCommas`: that the count of brackets finds the commas no pair encloses
is an induction over nestings, of which TLC checks all up to five tokens.
`ArgumentsCover` proves, for any length, that each argument keeps its own count. The
five violated properties are false.

## 5. Not modelled, and why

* Headers, uri and content type of HTTP messages, text of errors, logging: no
  property depends on them. (The generated `http` request has no uri,
  client.rs:35-39; whoever uses it has to put a layer around it that sets one.)
* The stream of notifications of a subscription, unsubscribing and reconnecting:
  jsonrpsee's client does all of it. The crate's server layer answers a
  subscription with a fixed error, which is modelled.
* Panics on arguments that do not serialize (render_server.rs:106, 114) and the
  `todo!()` of error.rs:35: nothing in the repository reaches them.
* What syn and rustc do: types, generics, bounds, the text of the generated code.
  A second attribute of one kind, `blocking`, and attributes of the trait itself are
  dropped by the macro without a word (see the hazards).
* The vendored cases under tests/ui, which no test runs: where they describe
  jsonrpsee's macro and not this one, the source decides.
* The examples: they build clients and stacks of the kinds modelled and keep no
  state of their own.

## 6. What could follow

1. `ClientCall` and `TowerStack` in one specification, with the exchange of the one
   as the request of the other, refining an end-to-end promise. Both are proved
   against `RpcApi` already; the composition would add the permits a client's
   cancellation releases on the server.
2. Liveness of `ClientCall`: it needs an assumption about the server's progress
   that nothing in this repository gives.
