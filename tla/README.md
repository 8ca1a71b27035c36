# TLA+ models of the centrifuge connection handlers

This directory holds TLA+ models of `src/handlers.go`, the TLC configurations
that model-check them, and TLAPS proofs about them.

## The system and its parts

`src/handlers.go` is the HTTP and real-time edge of a centrifuge server.

| Part | Lines | State and concurrency |
|---|---|---|
| `AdminHandler` (admin token auth) | 23-175 | stateless; HMAC tokens |
| `APIHandler` (HTTP API) | 180-478 | stateless per request; auth, then a command stream dispatched to `Node` |
| `sockjsTransport` | 486-559 | `closed`/`closeCh` under a mutex; `Send`, `write`, `Close` |
| `SockjsHandler` reader loop | 581-656 | one goroutine per session: `Recv`, `handleClientData`, deferred `c.Close(nil)` and `writer.close()` |
| `websocketTransport` | 665-808 | as sockjs, plus a ping timer (`ping`, `addPing`) |
| `WebsocketHandler` reader loop | 849-933 | as sockjs, over `conn.ReadMessage` |
| `writer` | 935-1044 | a byte-counted queue, drained by `runWriteRoutine` |
| `handleClientData` | 1069-1129 | decodes a frame's commands, hands them to the client, queues the replies |

Each connection runs several goroutines at once:

- the **reader** reads frames and queues replies;
- the **write routine** (`runWriteRoutine`) takes up to `maxMessagesInFrame` = 4 payloads per frame and calls the transport's `write`;
- any number of **hub goroutines** call `transport.Send`, which queues a payload and, on a slow queue, starts `go t.Close("slow")`;
- the **ping timer** (websocket only) writes a ping and re-arms itself.

Each of these goroutines may call `Close`.

The other sources need no connection model:

- `src/unnamed/part_001` is a `perChannelWriter` test plus generated protobuf code;
- `src/presence_redis_test.go` holds Redis integration tests;
- `src/unnamed/part_000` holds docker-compose files.

The Hub, Client session, PerChannelWriter, Broker, Presence, History, Node and `internal/queue` are described in `spec.md` but are not under `src/`.

## Modules

`Connection.tla` models one client connection as `handlers.go` drives it.

**Variables**

| Variable | Models |
|---|---|
| `queue`, `qsize`, `qclosed` | `writer.messages`: its payloads, `Size()` and `Closed()` |
| `nextId` | the number of payloads accepted so far |
| `wire` | the ids the peer received, in order |
| `closed`, `reason` | `transport.closed` / `closeCh`, and the disconnect it was closed with |
| `tearing` | the first `Close` has set `closed` and left the lock, but has not yet closed the socket |
| `connUp` | whether the socket still carries data |
| `werr` | gorilla's sticky write error, set when `Close` sends a close frame |
| `ping`, `pings` | the timer's state, and the number of pings written |
| `wr`, `batch`, `mcount` | the write routine's program counter, its `msgs`, and `messageCount` |
| `rd` | the reader's program counter |
| `pending[p]` | bytes producer `p` has added but not yet size-checked |
| `closers` | pending `go t.Close` goroutines |

A payload is an id (its position in the queue's acceptance order) and a size. A client frame is abstracted to the outcome `handleClientData` reaches on it.

**Actions**

| Action | Code |
|---|---|
| `ReadBadFrame` | an empty or undecodable frame, a zero command id, a disconnect from `c.Handle`, or an encoding error: `Close`, then return false |
| `ReadFrame`, `ReadCheckSize` | `writer.write` of the replies, split at the unlock between `Add` and `Size()` |
| `ReadFail` | `ReadMessage` / `Recv` fails on a dead socket |
| `ReaderCloseClient`, `ReaderCloseWriter` | the deferred `c.Close(nil)` and `writer.close()` |
| `SendAdd`, `SendCheckSize`, `AsyncClose` | `transport.Send` and the goroutine it starts |
| `WriterWait`, `WriterExit`, `WriterMerge` | `runWriteRoutine`: `Wait`, return on a closed queue, and the merge loop |
| `WriteCheckClosed` | the `closeCh` select in `write` |
| `WsNextWriter`, `WsFlush` | `conn.NextWriter`, then `Write` and `Close` of the frame; both failures close the transport |
| `SockjsSend` | `session.Send` per payload |
| `PingFire`, `PingWrite`, `PingRearm` | the timer fires, `ping`, `addPing` |
| `NetFail` | the peer or network goes away (environment) |

`CloseConn` and `StopPing` are the locked part of the two transports' `Close` (websocket 783-795, sockjs 541-549): the "already closed" early return, setting `closed` and `closeCh`, stopping the timer, and the conversion of `nil` to `DisconnectNormal` for sockjs. `Teardown` is the rest, which runs without the lock: websocket's close frame and `conn.Close` (796-807), sockjs's `session.Close` (550-558). Between the two, a `write` that already passed its `closeCh` check may still put its payloads on the wire, because the sockjs `write` takes no lock and the websocket `write` checks `closeCh` before `NextWriter`. The caller of `Close` continues independently of `Teardown`; in the code only the caller itself waits for its teardown, so the model allows a few more interleavings than the code has. A panic of the write routine (`wr = "panic"`) stops every goroutine, because it ends the process.

`MCConnection.tla` instantiates the model for TLC. It extends `Connection.tla` and gives the constants their values. `ConnectionProofs.tla`, `ConnectionRefinement.tla` and `ConnectionOrder.tla` hold the TLAPS proofs.

`ConnectionChannel.tla` is the abstract specification of what a transport promises: a FIFO channel from the server to one peer that may be closed at any time. Its state is `accepted` (payloads accepted), `delivered` (ids the peer received), `open`, and `limit`, the last id that may still be delivered. Its actions are:

- `Accept`: a payload is queued; while open it becomes deliverable (`limit` grows), after close it never does;
- `Deliver`: the next k >= 1 ids up to `limit` reach the peer in one write;
- `Close`: the channel closes, and `limit` may drop to any value between what was delivered and what was deliverable (the writes already under way);
- `Abandon`: after close, the writes under way give up (`limit` drops to what was delivered).

Its specification has weak fairness on delivery while open: while the channel is open, accepted payloads are eventually delivered. `Connection.tla` maps itself onto it with `accepted <- nextId`, `delivered <- wire`, `open <- ~closed`, and `limit <- IF closed THEN Len(wire) + Committed ELSE nextId`, where `Committed` is the size of `msgs` when the write routine is past its `closeCh` check. `ChannelSpec == Channel!Spec` is checked as a PROPERTY. A websocket frame maps to one `Deliver` of all the payloads of `msgs`, and a sockjs `Send` to a `Deliver` of one. The first `Close` maps to `Close`, a write that drops `msgs` on a closed transport to `Abandon`, and every other step to a stutter. So the property says what a reader of `write` would ask: after `Close`, only payloads a write took past its `closeCh` check still reach the peer, in order, and nothing accepted after `Close` does.

`HttpApi.tla` models the HTTP endpoints (`handlers.go` 23-478), with one request served at a time:

| Variable | Models |
|---|---|
| `cfg` | `APIConfig` and `AdminConfig`, fixed when the handlers are built; `Init` picks any of them, including unset keys, passwords and secrets (`NoValue`, Go's empty string) |
| `known` | the credential values clients can present: guesses, the configured API key, and tokens earlier logins returned |
| `pc`, `req`, `rest`, `replies`, `executed` | where `APIHandler.ServeHTTP` is, the request (endpoint, `strings.Fields` of the `Authorization` header, body), the commands not yet decoded, the replies encoded, and how many commands the node executed |
| `log` | every answered request: endpoint, credential, status, token, commands, executed, replies |

| Action | Code |
|---|---|
| `Login` (`AuthHandler`, `AuthReply`) | `authHandler`: the insecure token; 400 for an unset password or secret or a wrong password; a signed token, or 500 when `generateSecureAdminToken` fails |
| `Receive` | a request to `/api` or `/admin/api` |
| `Authorize` | `checkAuth` (`CheckAuth`); for `/admin/api`, `adminSecureTokenAuth` (`AdminTokenAuth`) in front of an insecure `APIHandler` |
| `ReadBody` | `ioutil.ReadAll` failing (500), or an empty body (400) |
| `DecodeEOF`, `DecodeError` | the decode loop ending (200 with the replies), or a decode error (400) |
| `HandleCommand` | `handleAPICommand` and the reply encoding for one command: unknown method, undecodable params, executed with an error, result or empty reply, or a result that cannot be encoded (500) |

The securecookie token is a value determined by the secret, the constant operator `TokenOf(_)`. `MCHttpApi` instantiates it as `"tok_" \o s`. `checkSecureAdminToken` accepts exactly that value for a non-empty secret. The named assumption `TokenAssumption` says that no signed token equals an API key, a guess (`"wrong"`), the insecure-mode token or the empty string. This stands for the HMAC signature: a client cannot forge a token without the secret. A command is abstracted to whether it decodes, whether its method is known, and whether its params decode.

## Properties and runs

| Run | Config | Expect | What it checks |
|---|---|---|---|
| `ws_connection` | `MCConnection_ws.cfg` | pass | all connection properties below, websocket with ping, one `Send` goroutine plus the reader |
| `sockjs_connection` | `MCConnection_sockjs.cfg` | pass | the same without the ping property, two `Send` goroutines plus the reader |
| `ws_nextwriter_panic` | `MCConnection_panic.cfg` | violation | `NoWriterPanic` |
| `http_api` | `MCHttpApi.cfg` | pass | `CredentialRequired`, `RepliesMatchCommands` |

The properties:

- **`MessagesInOrder`**: the ids on the path to the peer (`wire`, then `batch`, then `queue`) are strictly increasing. While the transport is open they are exactly `1..nextId`, so nothing is lost or duplicated. This is spec §5 "replies appear in command-ID order on the wire".
- **`WriterExitsOnlyWhenClosed`**: the write routine never ends on an open transport.
- **`PingNotArmedAfterClose`**: no timer stays armed after `Close`.
- **`SlowConsumerNoticed`**: a queue over `MaxQueueSize` always has a pending size check, a pending async close, or a closed transport.
- **`CloseIsFinal`** (action property): whichever of the reader, the write routine, a `Send` goroutine or the ping timer closes first, the transport stays closed and keeps that first disconnect; every later `Close` takes the "already closed" return.
- **`ConnectionReleased`** (liveness): once the transport is closed or the socket is lost, both goroutines end (or the process has panicked).
- **`ChannelSpec`** (refinement): the connection implements `ConnectionChannel`: payloads reach the peer in acceptance order, and after `Close` only those a write had committed to. This includes its liveness: while the transport stays open, every accepted payload reaches the peer.
- **`CredentialRequired`** (HTTP API): a request that made the node execute a command presented a credential the configuration issued. On `/api` this is the configured non-empty key, unless the API is insecure. On `/admin/api` it is a token that an *earlier* login obtained with the configured non-empty password, unless admin is insecure. The property ties `checkAuth`, `adminSecureTokenAuth` and `authHandler` together across requests.
- **`RepliesMatchCommands`** (HTTP API): a 200 answer has one reply per command of the body, and the commands the node executed are exactly those whose reply reports an `s.api` call.

Each property has a mutant in `PROJECT.json`: an operator defined just before the action it replaces, modelling a plausible slip in that code. Examples are a dropped "already closed" check, an off-by-one `messageCount`, a missing `writer.close()`, and an ignored disconnect from `Send`. TLC finds each mutant's property violated.

**Bounds of `http_api`.** The run uses:

- one API key, one password and one secret, with `NoValue` as the unset value of each, so all 32 configurations are covered;
- two requests, so that a login can precede an `/admin/api` call;
- up to two commands per body, so that a later command can fail after an earlier one has run.

The header schemes are `APIKey`, `token` and `bearer`. These exercise `strings.ToLower` and a wrong scheme. There is also a three-field header.

**Bounds of the connection runs.** The bounds are:

- two `Send` goroutines plus the reader for sockjs, and one for websocket, whose ping timer is a further goroutine (two senders there give the same branches in three times the states);
- 1-byte payloads with `MaxQueueSize = 2`, so a third queued payload makes the queue slow;
- at most 5 payloads in total, so the merge loop meets more than `maxMessagesInFrame` queued payloads;
- one ping.

These bounds reach every branch:

- the merge loop stopping at four payloads and at an empty queue;
- `Close` racing the writer in every phase;
- both slow-consumer paths;
- ping firing against `Close`.

Payload sizes of 2 multiply the state space about 20 times and exercise no further branch.

**Fairness.** The weak fairness in `Fairness` covers only the goroutines the Go runtime keeps scheduling:

- the reader, once the socket is dead;
- the write routine;
- the `go t.Close` goroutines, and the unlocked rest of `Close` (`Teardown`), which its caller runs next;
- the ping timer;
- each `Send` between its `Add` and its size check.

The client sending frames, the network failing, and the hub calling `Send` get no fairness.

## Finding: panic in `websocketTransport.write`

Run `ws_nextwriter_panic` shows a code bug. When `conn.NextWriter` fails, `write` calls `t.Close(...)` but does not return (`handlers.go:756-760`). It then calls `writer.Write(payload)` on a nil writer, which panics.

Gorilla's `NextWriter` fails once `Close` with a non-nil disconnect has written a close frame. Such a `Close` can come from:

- the reader, on a bad frame or a handler disconnect;
- a slow `Send`;
- a failed ping.

That `Close` only has to land between `write`'s `closeCh` check and `NextWriter`. TLC reaches this in 7 states. Spec §4.6 says a write error ends the loop.

## Proofs (`ConnectionProofs.tla`, `ConnectionRefinement.tla`, checked by `tlapm`)

The proofs use only the named assumption `ConnAssumption`.

- **`TypeCorrect`**: `Spec => []TypeOK` for every value of the constants. It is split into two lemmas:
  - `DataInvariant` covers queues, counters and `pending`. It is strengthened with `MergeBounded` (`wr = "merge" => mcount <= Len(queue)`), without which `Head(queue)` in the merge loop cannot be shown to be a payload. The invariant holds because only the write routine removes payloads.
  - `ControlTypeCorrect` covers the flags and program counters.
- **`SlowConsumerSafe`**: `Spec => []SlowConsumerNoticed`. It is inductive relative to `TypeOK` and `MergeBounded`:
  - every `Add` marks its producer as pending;
  - a size check either finds the queue within bounds, or closes the transport (reader) or starts a closer (`Send`);
  - a closer closes the transport;
  - `Close` always leaves the transport closed (lemma `CloseCloses`);
  - the write routine only shrinks the queue.

- **`PingStopsAfterClose`**: `Spec => []PingNotArmedAfterClose`. The invariant is inductive by itself:
  - `Close` turns an armed timer off and leaves any other timer state alone;
  - `ping` turns a timer off when it finds the transport closed, or when its own `WriteControl` fails;
  - `addPing` re-arms only when the transport is open.
- **`WriterExitSafe`**: `Spec => []WriterExitsOnlyWhenClosed`. It uses the strengthening `WriterClosedInv`, which adds two facts:
  - a closed queue implies a closed transport;
  - a reader past its deferred `c.Close(nil)` implies a closed transport.

  The strengthening is needed because `WriterExit` is guarded by the queue being closed, not by `closed`. It holds because `writer.close()` is deferred before `c.Close(nil)` and so runs after it.

- **`Refinement`** (`ConnectionRefinement.tla`): `Spec => Channel!Init /\ [][Channel!Next]_Channel!avars`, the safety part of `ChannelSpec`, for every value of the constants. It rests on the inductive invariant `OrderInv` (lemma `OrderInvariant`), which has four conjuncts:
  - `WaitEmpty`: `msgs` is empty when the routine waits;
  - `WirePrefix`: the peer received exactly 1, 2, ..., in order;
  - `InFlight`: while the transport is open, `msgs` and then the queue hold the following ids, in order, up to `nextId`;
  - `CommitNext`: once the write routine is past its `closeCh` check, `msgs` holds the ids that follow the wire, whether or not the transport has closed since.

  `CommitNext` is what the split `Close` needs: after `Close`, `InFlight` says nothing, yet a committed write still delivers, and only `CommitNext` says that it delivers the next ids and no more than `limit`. Each goroutine step has a lemma. Examples are `AddStep` (an `Add` appends `nextId + 1`), `MergeStep` (the merge loop moves the oldest payload), `CheckClosedStep` (passing the check commits `msgs`), and `FlushStep` and `SendStep` (a write delivers the next ids). `LimitBounds` places `limit` between the wire and `nextId`; `CloseMaps` shows that a first `Close` is a channel `Close` and a later one a stutter; `FlushMaps` and `SendMaps` show that a write is a channel `Deliver` of those ids, or an `Abandon` when it drops `msgs`.

## Proofs of the ordering and the HTTP API (`ConnectionOrder.tla`, `HttpApiProofs.tla`)

- **`MessagesInOrderSafe`** (`ConnectionOrder.tla`): `Spec => []MessagesInOrder` for every value of the constants. `OrderInv` alone is not enough for it. It only speaks while the transport is open, and after `Close` the writer may still drop `msgs` and the queue may still accept payloads. The strengthening `IdsOrdered` has five conjuncts:
  - the ids of `msgs` increase (`BatchSorted`);
  - the ids of the queue increase (`QueueSorted`);
  - the ids of `msgs` are below those of the queue (`BatchBelowQueue`);
  - every id not yet received is above `Len(wire)` and at most `nextId` (`BatchBounds`, `QueueBounds`).

  `OrderedStep` shows that every step keeps `IdsOrdered`, given `TypeOK`, `MergeBounded` and `OrderInv`. Each payload step has a lemma:
  - `OrderedAdd`: an `Add` appends `nextId + 1`, above every id;
  - `OrderedMerge`: the merge loop moves the queue's head behind `msgs`;
  - `OrderedFlush` and `OrderedSend`: a write moves the head of the path onto the wire, and `InFlight` then says the rest lies above it;
  - `OrderedDrop`: a write on a closed transport drops `msgs`.

  Then `PathShape` computes `InTransit` position by position, using `ConcatProperties` twice. `PathIncreasing` orders any two positions, and `PathOpen` numbers them `1..nextId` while the transport is open.
- **`CredentialSafe`** and **`RepliesAccounted`** (`HttpApiProofs.tla`): `Spec => []CredentialRequired` and `Spec => []RepliesMatchCommands`, for every configuration and every set of keys, secrets and commands. They assume `HttpAssumption` and `TokenAssumption`. Neither property is inductive, because both speak of log entries written at the end of a request, while what makes them true is established earlier, in `Authorize` and in each `HandleCommand`. The inductive invariant `IInv` adds these facts:
  - the type invariant `TypeOK`;
  - `TokenKnownIssued`: in secure admin mode, clients know the token signed with the configured secret only after an earlier 200 login with the configured, non-empty password returned it;
  - `RequestInv`: for the request in progress,
    - its credential is one clients know;
    - it passed `checkAuth` once it reads or decodes;
    - on `/admin/api` in secure mode its token was issued;
    - nothing is executed before decoding;
    - replies plus undecoded commands equal the body;
    - the replies that report an `s.api` call count the executed commands.

  There is one lemma per action (`LoginStep` ... `HandleCommandStep`), and `NExecAppend` counts the executed replies across an append. The lemma `Invariant` states `Spec => []IInv`, from which both theorems follow.

- **`CloseFinal`** (`ConnectionRefinement.tla`): `Spec => CloseIsFinal`, the action property. Its lemma `ClosedKept` goes through every action on a closed transport: each one that calls `Close` (the reader's bad frame and size check, `Send`'s goroutine, both writes' failures, the ping) takes the "already closed" return, and no other action touches `closed` or `reason`. It needs no invariant.

Only TLC checks the following:

- the liveness property `ConnectionReleased`, and the fairness part of `ChannelSpec`: fairness and `ENABLED` are out of the prover's reach;
- `NoWriterPanic`, which is violated.

## Not modelled, and plan

- What a failed API request means for the commands it already executed: `APIHandler.ServeHTTP` answers 400 or 500 for the whole request after earlier commands have run (`handlers.go:257`, 265, 271). Neither the spec nor a comment or test says what it should do (spec §7 is about the client session, and §1 leaves the HTTP API's semantics out), so no property states it; `PROJECT.json` lists it as a hazard.
- The static admin web interface (`WebPath`/`WebFS`) only serves files. JSON versus protobuf selection only picks codecs. Token expiry in securecookie is not modelled.
- The generated protobuf code of `part_001` (varint encode, size and skip) is planned as pure algorithms checked against a reference definition.
- Hub, Client, PerChannelWriter and the Node are not under `src/`. The hub's `Send` and the client's `Close` appear here only as the environment of one connection. A composition with a spec-modelled hub is planned.
- The following are configuration or output, not behaviour: compression, deadlines, read limits, pong handling, metrics and logging. The sync.Pool get/put of encoders is also in this group.
