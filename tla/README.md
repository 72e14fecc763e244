# edgehost: TLA+ models, model checking and proofs

edgehost is a small HTTP/WebSocket edge server in C. A sans-I/O core (`src/src/core`)
keeps buffers, events, configuration, a key-value state store, a table of pending
outbound requests and the authentication rules; a host (`src/src/host`) runs one
io_uring loop, serves HTTP/1.1, fans state changes out to WebSockets and calls
plugins (`src/src/plugins`). This directory models the parts that keep state,
checks them with TLC on small instances and proves every safety property of the passing
runs, the refinements, and what makes most of the findings exact, with TLAPS for every
instance.

## 1. Inventory

| Component (source) | State | Operations | Interacts with | What is hard | What makes it correct |
|---|---|---|---|---|---|
| edgecore (`core/edgecore.c`) | event ring, buffer table, id counter, configuration and its generation | request_alloc/realloc, provide, detach, apply_config, next_event | host: events out, buffers in | the ring overwrites its oldest event; a request and its service are two steps with others in between; ids wrap | an event still describes its slot when served; memory has one owner as long as no pointer is used that was given away; generations are announced in order; ring = FIFO |
| configuration (`core/edge_config.c`) | – | defaults, validate | edgecore, reload | – | only valid configurations become active |
| host allocator (`host/host_alloc.c`) | live blocks | alloc, realloc, free | edgecore's buffers | allocation fails | (with edgecore) |
| pending table (`core/pending_table.c`) | slots and a count | insert, find, release | plugin host | count and flags kept apart | count exact, both keys unique |
| plugin host (`host/plugin_host.c`), openai_proxy (`plugins/openai_proxy.c`) | pending table, last request, in_flight, rate window | dispatch, client request, complete, cancel, finish_pending_sync | HTTP server, outbound client, state store | late results, clients that leave, plugins that break the contract, no memory half-way | a settled request stays settled; parked connections have an entry and are answered; counts add up |
| state store (`core/state_store.c`) | entries and count per namespace, enabled flags | put, get, delete, enable | REST, NOTIFY, scraper, plugins | many writers, slots reused | the slot table is a bounded map |
| WebSocket hub (`host/ws_stream.c`) | subscription and bounded queue per connection slot | subscribe, unsubscribe, broadcast, take | loop, writers | overflow drops the oldest; slots are reused | subscribers converge to the store; nothing survives a connection |
| NOTIFY apply (`host/notify_apply.c`), scraper (`host/pq_sidecar.c`) | – | apply a payload, scrape | store, hub | store and broadcast are separate calls | (with the hub) |
| io_uring loop (`host/iouring_loop.c`) | connection table, pending flags, operations in the kernel | accept, recv, send, poll, timeout, exit | HTTP server, hub, TLS | completions in any order, after a close, after reuse; each path must re-arm exactly one operation | one operation per buffer; nobody forgotten; subscriptions and counts exact; frames go out; who waits for frames listens |
| HTTP server object (`host/edge_http1_serve.c`) | accumulator, header state, principal | feed, dispatch of all routes | auth, store, plugins | segmentation; headers and body at different times | bodies whole; complete requests answered |
| auth / RBAC (`core/auth_rbac.c`) | – (sessions are signed tokens) | issue, verify, proxy verify, check | HTTP server | expiry and skew at the boundary; several roles | access exactly when a credential in date allows it |
| SIGHUP reload (`host/config_hup.c`) | flag, shadow and active configuration | handler, take, load, apply | edgecore, main | a signal or an edit between any two steps | a broken file never becomes active; no signal is lost |
| YAML loader (`host/config_yaml.c`) | – | load a document into a configuration | main, reload | several paths set one field; checks after a wrap; the first error ends it | a document has the meaning of the last path that says something, or is refused |
| process (`host/main.c`, set-up of `host/iouring_loop.c`, `host/auth_host.c`) | what main and the loop have acquired, the stop flag | start, secrets, plugins, loop, cleanup | everything | some twelve acquisitions, each with its own early return; signals at any moment | nothing leaks or dangles; authentication ready before the first accept; SIGTERM obeyed |
| outbound client (`host/outbound_http.c`), TLS calls (`host/tls_server.c`) | buffers, descriptor, TLS objects, progress of the exchange | connect, handshake, write, read, parse | plugin host, scraper; blocks the loop | the upstream pauses, closes or resets anywhere; timeouts; interrupted polls | everything is given back; a success is the response; the exchange ends as far as timeouts can end it |
| static files, metrics, request handling of the slack and teams stubs, fuzz driver | – | – | – | – | not modelled, see section 8 |

`PROJECT.json` lists all components with their status, and under `hazards` each
place in the code that a test would hardly reach, with the properties aimed at it.

## 2. Modules

| Module | Models | Uses |
|---|---|---|
| `EdgeConfig` | validator and defaults, over the settings the validator reads | |
| `EventQueue` | abstract: a bounded FIFO that overwrites its oldest element on overflow | |
| `EdgeCore` | edgecore with the host that serves its events (heap of blocks) | `EdgeConfig`, refines `EventQueue` |
| `PluginHost` | pending table, plugin host, openai_proxy, an arbitrary second plugin | |
| `KvMap` | abstract: per namespace a bounded map | |
| `StateFanout` | state store, hub, all writers, subscribers that apply what they are sent | refines `KvMap` |
| `IoUringLoop` | the loop with its connection table, plain and TLS | abstracts the hub to a count per slot |
| `ConfigReload` | signal handler, flag, file, shadow, active configuration, main | |
| `ConfigYaml` | the loader: paths, fields, kinds of values, defaults (operators only) | `EdgeConfig` |
| `Startup` | main and edge_iouring_run from start to return; composes reload and loader | `ConfigReload`, `ConfigYaml` |
| `Outbound` | one upstream exchange after another, with the poll-driven TLS calls | |
| `AuthRbac` | sessions, proxy headers, roles, decisions (operators only) | |
| `HttpServe` | server objects of several connections, one stored key, the sessions issued, a clock | `AuthRbac` |
| `MCEdgeCore`, `MCStateFanout`, `MCHttpServe`, `MCStartup`, `MCOutbound` | instances for TLC | |
| `EdgeCoreProofs`, `PluginHostProofs`, `StateFanoutProofs`, `IoUringLoopProofs`, `ConfigReloadProofs`, `HttpServeProofs`, `OutboundProofs`, `StartupProofs` | theorems and proofs about the module of that name (section 5) | `StartupProofs` also uses `ConfigReloadProofs` |

Definitions carry the name of the C function they model. A handler that runs to
completion without giving up the thread is one action, with everything it calls; the
genuine interruptions in the program are the signal handlers, and `ConfigReload`
splits the test and the clearing of the flag accordingly; `Outbound` splits an exchange
at its system calls because the upstream acts between them. Definitions whose
comment begins with "Mutant" are deliberately wrong variants; `PROJECT.json`
pairs each property with one that must violate it.

### How state and actions correspond

* **EdgeCore.** `events, head, tail, cnt, dropped` are the ring; `bufs` the slot table,
  with state, id, requested size, pointer; `heap` the sizes of live blocks. Ids are
  taken modulo `IdMod` (2^32 in the code) and skip 0. A request that cannot queue its event
  rolls back as in the code; `emit_event` on a full ring overwrites the oldest event
  by QUEUE_OVERFLOW and reports failure. `ServeAlloc`, `ServeRealloc`, `ServeFails` and
  `Observe` are the host: take an event, do what it asks or fail. `edgecore_detach_buffer` takes a pending slot too, as the code
  does; the host frees the block it returns, and the slot's event stays queued. `abandoned`
  (ids detached while pending) and `stale` (the host was asked to realloc a block that was no longer
  its slot's) are history.
* **PluginHost.** `h` is `edge_plugin_host_t`. `parking` chooses, once and for all, between the host
  of ADR-008 (park the connection, complete later) and the shipped server, which runs
  the exchange inside the request (`ServeV1`). `fate`, `strays` and `unfinished` record
  history for the properties.
* **StateFanout.** `entries, count, enabled` are the store; `active, queue` the hub;
  `copy` what each client has made of its messages; `lost` the keys whose latest change
  the subscriber is not told of (overflow, no memory, a plugin's write); `phantom` keys
  announced but not stored. A client is taken to know the store when it subscribes (it can
  read it with GET); what is checked is that it then stays up to date.
* **IoUringLoop.** `conn[s]` is a table entry with its flags; `conn[s].k` counts operations
  the current connection has in the kernel, `late[s]` those of connections that are gone.
  Handlers map a connection to the set of connections they may leave, because peer, parser
  and TLS library choose freely. The WebSocket codec may refuse any message it is given: `Refused` is the
  connection after the -1 of `ws_try_send_pending`, in WS_RECV with the message taken and nothing
  re-armed; the field `refused` remembers it until the next send.
* **ConfigReload.** Versions of the file are numbers; some do not parse, some do not
  validate. `PollsHup` distinguishes main as it is from a host whose loop takes the flag
  as ADR-005 describes.
* **ConfigYaml.** libyaml is external: a document is a function from paths to scalars. `g_paths`
  has a row per path with the field and the kind of value `apply_scalar` gives it; a scalar is
  known by the number or truth value it spells and by whether it fits. Numbers keep their
  widths as constants, and `parse_size` wraps as `strtoull` does.
* **Startup.** `live` maps what is allocated to what it points to; `stage` is the next
  statement group of main or edge_iouring_run; a return writes the calls of its cleanup, in their
  order, into `todo`, which `Release` works off one by one, so that every free is checked by `CleanExit`
  (a call for something that may be NULL, and is, has no effect).
  The versions of ConfigReload's file are given contents here, and `StartupAssumption` (which TLC
  evaluates) says that "does not parse" and "is not valid" are what loader and
  validator make of them. The command-line overrides of host and port are left out. The run has
  `PollsHup = TRUE`: the polling host can do all that the shipped one does (a flag that is
  never tested is one of its behaviours), so the safety properties hold for both.
* **Outbound.** `pc` is the place in `edge_outbound_http_execute`, `wait` what the current
  poll waits for, `held` what must be given back. `up` is the upstream: what it still has to send,
  what has arrived, whether it closed or reset. The operators `edge_tls_handshake`,
  `edge_tls_read` and `edge_tls_write` give the set of results the call may have. The limit of
  a poll is per poll, not per exchange, as in the code, and `Chatter`, a TLS record without data, starts
  it anew as often as the upstream likes; a plain exchange has no limit. An early
  return gives 0 with `transport_err`, a failure after the connection -1.
* **HttpServe.** `mode` is chosen once; `acc` counts bytes, a request has the lengths of its headers and
  of its body, an announced length and a line-end width; signatures are the bit `genuine`.

## 3. Runs

| Run | Instance | Result |
|---|---|---|
| `EdgeCore` | ring 2, 2 slots, 2 blocks, ids mod 3, sizes 1..2, 2 requests, 3 configurations applied, 1 drop, 1 failed allocation | `NeedsMatchSlots`, `HeapOwned`, `UniqueIds`, `LostNeedsBounded`, `ConfigAnnounced` hold; the ring refines `EventQueue`; `PendingServed`: a host that drains serves every pending slot |
| `EdgeCoreStuck` | ids mod 4, 3 requests, size 1, 2 configurations | finding: `NoStuckPending` is violated |
| `PluginHost` | 3 inbound slots, table of 2, limits 2 and 3, 4 outbound ids | table sound, parked connections have entries, settled requests stay settled, `in_flight` accounts for entries and leaks, parked connections are answered, the blocking host leaves no entry |
| `StateFanout` | 3 keys over a namespace of 2, 2 values, queue of 2, one subscriber that comes and goes | subscribers converge, the table is sound and refines `KvMap` |
| `Loop` | plain and TLS listener; 2 slots, 5 accepts (so slots are reused), 3 broadcasts, 1 failed allocation | one operation of each kind, no HTTP connection forgotten, subscriptions and counts exact, only a recv outlives its connection; except after a refused message, queued means sending on a plain listener and a TLS WebSocket in WS_RECV listens; a plain listener sends the frames (`PlainFanoutSent`) |
| `LoopFanoutTls` | 1 slot, 1 broadcast, TLS | finding: `FanoutSent` is violated |
| `LoopDeaf` | 2 slots, plain | finding: `WsRecvListens` is violated |
| `Startup` | five versions of the file (defaults, TLS with all plugins, broken, unknown mode, proxy headers with one plugin), any usable set of secrets, 2 SIGHUPs, SIGTERM at any time; widths of 16, 32 and 64 bits scaled to 2, 3 and 4 | `CleanExit`, `AuthReady`, `StopObeyed`; no broken version active, no signal lost by a polling loop; `LoaderMeaning` compares the loader with a reference on every path with every scalar and every two paths of one field |
| `ReloadShipped` | 4 edits, one version unparsable, one invalid, 3 signals, main as it is | finding: `HupReloads` is violated |
| `Http` | lab_password: 2 connections, sessions of one tick, clock 1..2, 6 requests cut in every way; open and proxy_headers: 1 connection, all routes, methods and roles, skew 1, clock 1..4 under proxy_headers | access only with a credential in date and exactly as ADR-013's table says, credentials honoured to the end, bodies whole, complete requests answered |
| `Outbound` | request of 2 bytes, response buffer of 4, body room of 2; responses with headers of 1..2 and bodies of 0, 1 or 3 bytes; any number of TLS records without data | `NothingLeaks`, `BodyDelivered`, `ExchangeEnds` |
| `OutboundEof` | the same | finding: `ReadUntilEof` is violated |

### Why these bounds suffice

A ring and a table of two are full after two requests, and a growth or a configuration is the third event, so
overflow, rollback and reuse of a slot all happen; two requests take a counter modulo 3 to its end,
where 0 must be skipped. A buffer can grow, be detached while it does, and its block be given to the second one
before the event of the first is served. Ids that have come round are outside the properties (`NoWrap`).
Two keys fill the namespace, the third is refused. A queue of two overflows on the third
message; later messages repeat that case. Connections share nothing but the hub's
broadcast, the accept and the count, so two slots show every pair: HTTP and WebSocket, two WebSockets, and a connection with
the one whose slot it got; from the third accept on slots are reused. A body of two bytes with a third behind it, cut
anywhere, has all relations between segment ends, header end, body end and trailing bytes; one
of five bytes does not fit. A session of one tick is valid, at its end, and over within a
clock of two; the skew of one has both sides and both boundaries in a clock of four. Two
connections share only the store and the sessions, which matter under lab_password; the other modes
need one connection at a time. A response of one to five bytes against a buffer of four and a room of
two is smaller, equal and larger than each limit, in as many pieces as it has bytes; two empty
records let in as many pieces as it has bytes. Records
without data are not counted, so a state holds at most one that is not yet read and there may be any number. Widths of 2, 3 and 4
bits keep the order of the real ones, so -1, -14 and -20 are a size that wraps to the largest, one that
wraps into the range of u32, and one beyond the width. The five versions of the file take every branch
of main: each mode, each plugin, with and without TLS, both ways to be refused.

Runs say `CHECK_DEADLOCK FALSE` where the bounds, or a loop that has ended, stop the
system; `StateFanout` and `Outbound` have neither.

## 4. Fairness

* `EdgeCore`: weak fairness of the host's service (`Drain`). ADR-003 obliges the host to drain
  NEED_* events before other work; nothing else is obliged to happen. A failed allocation
  or a dropped event is exempted in `PendingServed`.
* `PluginHost`: weak fairness of each completion: every exchange a parking host started comes
  to a result. For TLS upstreams the outbound client enforces a time limit
  (`default_timeout_ms`) on each wait, though not on the exchange; for plain ones it has none, so there the
  upstream itself must answer or close. The blocking host needs no fairness.
* `IoUringLoop`: the kernel completes a send (weak); a TLS write that again and again finds
  room is not blocked for ever (strong, since a poll may alternate); the 200 ms timeout is
  taken when continuously possible (weak). No fairness on anything the peer sends.
* `ConfigReload`: the host keeps running (weak); nobody is obliged to edit or to signal.
* `Startup`: the process runs on (weak, `Process`); the wait of the loop returns after 200 ms. No
  upstream is obliged to answer, so `StopObeyed` has as its condition that exchanges end.
* `Outbound`: the client runs on (weak, `Client`): calls that can return do, polls time out, the kernel gives
  up connecting in the end. Nothing is asked of the upstream, hence what `ExchangeEnds` does not say:
  a plain exchange may last for ever, and so may a TLS exchange whose upstream sends records without data for ever
  (`RecordsForever`).

## 5. Proofs

Checked by `tlapm` to the last leaf, for every value of the constants that satisfies the
module's named assumption. Of the properties of the passing runs all but five are
theorems; the end of this section says why those five are not. Each invariant rests on an inductive
one, which was checked with TLC on the run's instance first; the lemmas go action by action.

**EdgeCoreProofs** (`CoreAssumption`: the sizes are numbers and not 0, ids have at least two values, NULL is no block).

* `TypeCorrect`: ring arithmetic (an index that wraps once), and the lookup of a slot, whose lowest
  member exists by well-foundedness of <.
* `IdsAreUnique`: uniqueness alone is not inductive, because a new id must be larger than all in use.
  `IdsInv` says that before the counter wraps it is one more than the ids minted and every id in use
  is below it.
* `RingImplementsQueue` (refinement of `EventQueue`): `Place` is the index of the i-th queued event and
  `RingShape` says that `tail` is `cnt` places behind `head`. Every call is one step of the
  queue (push, pop or overwrite, where the oldest goes and QUEUE_OVERFLOW comes) or none.
* `NeedsAreCurrent` and `HeapIsOwned`: one invariant, `CoreInv`, since an event is current because its slot is, and
  a slot's memory is owned because the service found the event current. An event whose slot was detached while
  pending is the exception: its id is `abandoned`, and no slot in use has it, so `edgecore_provide_buffer` refuses the answer.
  `HeapIsOwned` holds until a stale pointer is reallocated, and says that this takes such a detach. `SlotsClean` adds that a free slot
  has no block and that nobody waits for zero bytes.
* `LossIsBounded`: per action, the set of stranded slots grows by at most one, and then `dropped` or
  `oom` does too (`Strands`). `NeedsMatchSlots` tells which one slot an overwritten event stood for.
  `NothingStranded` is its case of no loss: every pending slot has its event queued.
* `FirstComeFirstServed` (an action property): while nothing is lost, no call moves the event of a waiting slot back, each
  event the host takes moves all of them forward, and the one at the head is served. With
  `NothingStranded` it is the safety part of `PendingServed`, which adds that the host goes on draining.
* `ConfigIsAnnounced`: `SeenInv` adds that as long as nothing was dropped the host is not ahead of the core; with the
  ring's shape, an announcement goes behind all the older ones.

**PluginHostProofs** (`PluginAssumption`). One invariant, `IInv`: the table (`TableInv`), types, what `fate` says of
ids and entries (`FateInv`) and the other three invariants themselves. The count is exact because a release
takes out exactly the entry found, and both keys are unique because an insert uses a new
outbound id and an inbound connection that is not parked. `FateIsFinal` is the action
property: with `FateInv`, an entry in the table is a request that is pending or the stray one of
a plugin that did not wait, so a late or second result finds nothing to change. `ParkedAreAwaited` and
`WaitsEndWithTheirAnswer` are about `Awaits(i, o)`, connection i waits for exchange o: every parked connection
awaits an exchange that is under way, and no step of others ends or redirects the wait, because both keys of the
table are unique. They are the safety part of `ParkedAnswered`.

**StateFanoutProofs** (`StateAssumption`). `StoreInv` and `HubInv`: types, used slots and counts agree, no key
twice, and a slot nobody subscribes has an empty queue. `SubscribersConverge`: the effect of a queue on a key is that
of its last message for it (`Settled`); pushing a message, trimming the oldest and taking one are lemmas about that
effect, and with the two invariants `CopyConverges` is inductive. `TableImplementsMap` (refinement of `KvMap`): the map is
what the used slots hold, and each store operation is the abstract one, or refused where
the abstract one is.

**IoUringLoopProofs** (`LoopAssumption`). `RestTyped` and `Held`: every connection is `Sound` (`Shape` by state, `Flags`, what is
`Armed`) and has messages queued only if it may (`Queued`), only recvs are late, and the counts fit. A handler takes the operation out of
the kernel, which leaves an `Idle` connection, and each way through it ends in a `Done` one: armed
again, or closed with what it had given back. All eight invariants of run `Loop` follow. A connection whose message the codec refused (`refused`) is
exempt from `QueuedIsSending` and `TlsWsListens` and from no other. Connections that
were given a completion of another (`foreign`) are exempt from what says that their own recv is in flight,
and from nothing else.

Two theorems make finding 3 exact. `SameRecv` compares a connection before and after each helper that
does not receive (send, flush, broadcast). `OnlyDropsAndRefusalsDeafen`: on a plain listener a WebSocket in WS_RECV
has `recv_pending` set unless the codec has just refused a message (`Hears`), so if no recv of it is in flight it is
`Deaf`, the recv was thrown away while it was sending, or it is `refused`, and there is no third way to lose it.
`DeafnessLasts`: a step leaves a deaf WebSocket deaf, closes it, or gives it the late recv of an earlier connection of
its slot. Over TLS only a refused message leaves WS_RECV unwatched (`TlsWsListens`).

Two more are the safety part of `PlainFanoutSent`, and where finding 2 does not apply: `FramesAreSubmitted` (on a plain listener
a connection that sends has a send in flight) and `FramesGoOut` (its completion takes one message from the queue or
ends the sending; only a broadcast adds one).

**ConfigReloadProofs** (`ReloadAssumption`).

* `NoSignalIsLost`: `SignalInv` says where the flag may be clear while a request is unanswered: only
  between the clearing and the reading of the file. A signal in that window sets the flag again.
* `ShadowProtects`: from the same invariant and what the shadow and the active version are at each
  place of the host.
* `ShippedNeverReloads`, under the hypothesis that the loop does not poll the flag, as in main:
  no step after the start changes what was read, the shadow or the active version.

**HttpServeProofs** (`ServeAssumption`). One invariant for the five theorems about behaviours (`IInv`), which relates a connection's principal
to its credential at the time its headers were complete, and its access to that principal (`ConnInv`).

* `AccessIsJustified`: `DispatchOK` shows that every answer of every route passed `require_rbac` for the resource
  it used. The policy is stated apart from the code's decision function; `RbacIsPolicy` compares
  the two for every principal and resource, and names the one case in which they differ.
* `AccessIsHonoured`: the other direction; a handler that guards a resource uses it or was refused by
  `require_rbac` (`DispatchGated`), and what it decided on is what the credential was worth at that time.
* `BodiesAreWhole`: a PUT is dispatched only when `wait_full_body` holds, and then `get_body` returns the
  announced length.
* `CompleteIsAnswered`: a connection goes on reading only where the code found something missing (`ReadsOn`).
* `ServerIsTyped`: no accumulator outgrows its buffer.

**OutboundProofs** (`OutboundAssumption`).

* `NothingIsLeaked`: `NothingLeaks` says nothing of the way; `HeldInv` adds what is held at each place up to
  the connection, where the early returns free by name, and that it is never more than what the label
  `done` frees.
* `BodyIsDelivered`: `BytesInv` is the account of the bytes (read, arrived, still to be sent) and says that only a
  reset loses any; `ResultInv` that the result says nothing before the end, and that a plain exchange reaches
  the parser only when the end was seen or the buffer is full (`EndSeen`); `WaitInv` that only TLS polls.
  The last step, `DeliveryDelivers`, is arithmetic on the three limits. `PlainReadsToEof` follows from
  `EndSeen`.
* `ExchangeProgresses` (an action property): a lexicographic measure (`Rank` of the place, bytes to go, an unread record
  without data, round of the poll loop) of natural numbers (`MeasureIsNatural`) decreases with every step
  of the client. The upstream and the network never increase it, with one exception: a TLS record without data
  undoes one round (`AnotherRound`), which is one more `timeout_ms`, and nothing counts them. `PollInv` says which waits
  a loop can be in and that no data is there before the handshake is over. `ExchangeEnds` adds that the client runs on.

**StartupProofs** (`StartupAssumption`, `YamlAssumption`, `ReloadAssumption`).

* `ExitIsClean`: `HeldInv` says what must be and what may be held at each stage; `PointsInv` that pointers go up in
  `Rank`, the order in which things are freed; `DownInv` that on the way down the calls that are
  left name all that is held, once, users first. Each cleanup is shown to be a list by rank
  (`Lists`, `ListsConcat`) of at least what its stage may hold. The one that is not by rank, the failure of
  `edge_plugin_host_create`, is safe because neither of its two things points to the other.
* `AuthIsReady`: from `HeldInv` (no ring before the stage of authentication is past) and `AuthInv`.
  That no loaded version has an empty `auth.mode` is `LoadedHasMode`, from the loader's meaning below.
* `LoaderMeans`: what the loop over the 65 paths computes, for every document, set of scalars and width. The
  loop is a recursive function; `StepsExist` shows that its equation has a solution and `LoopEquation` that `LoadLoop` is one, and
  `MeansTo(d, n)`, the statement about the first n rows, is shown by induction on n
  (`MeansBase`, `MeansStep`). Induction itself is `SetInduction`: the naturals for which a
  formula holds are a set, and the complement of one closed under successor has no lowest member. About the table only
  two facts are used, that its fields and kinds exist and that those the validator reads have a kind it accepts
  (`TableRows`, `TableKinds`).
* `StartupImplementsReload`: every behaviour of the process is one of `ConfigReload`; hence `ReloadIsSafeInProcess`.
  `ConfigInForceIsValid` says it in terms of the files: what is in force was loaded whole and passes the validator.
* `StopIsFinal` (an action property): after SIGTERM the stop flag stays set, `stage` only goes forward and `todo` only gets
  shorter, so that what `StopObeyed` adds is that the process runs on and exchanges end.

Only model-checked:

* `PendingServed`, `ParkedAnswered`, `PlainFanoutSent`, `StopObeyed`, `ExchangeEnds`: liveness under fairness, which is
  beyond the prover. For each of them a theorem above proves the part that is not about fairness: the order of
  service, whose result ends a wait, what a completed send does, the way down, the measure.

## 6. Findings

Each has a run that violates the documented property; `PROJECT.json` quotes the line.

1. `EdgeCoreStuck`: an overflow overwrites the oldest NEED_* event; its slot stays PENDING and
   nobody will serve it. The comment about the rollback promises that no such slot remains.
   `NothingStranded` proves the promise for as long as the ring has not overflowed, `LossIsBounded` bounds the damage.
2. `LoopFanoutTls`: with TLS, a WebSocket waiting in WS_RECV has a POLLIN pending;
   `submit_send` returns at once while a poll is pending, so a broadcast frame waits until
   the client sends something. On a plain listener it does not wait (`FramesAreSubmitted`).
3. `LoopDeaf`: a recv that completes while a WebSocket is in WS_SEND is dropped with
   `recv_pending` set; the connection never receives again (`DeafnessLasts`). On a plain listener only this and a
   refused message stop a WebSocket in WS_RECV from listening (`OnlyDropsAndRefusalsDeafen`).
4. `ReloadShipped`: main takes the SIGHUP flag once before the loop and the loop never looks
   at it. `ShippedNeverReloads` proves it for every file and any number of signals.
5. `OutboundEof`: a TLS read that has data waits 50 ms for more and then returns what it has as
   the whole response; so does a read whose poll is interrupted by a signal. The header says
   "read until EOF". The plain reader does (`PlainReadsToEof`).

Further behaviour the models contain, without a run of its own:

* `edgecore_detach_buffer`: a buffer that is detached while its growth is pending leaves its NEED_REALLOC in the ring, with
  the pointer. The host frees what the detach returned, as ADR-003 says, and is then asked to realloc it; the
  block may meanwhile be another buffer's. `NeedsAreCurrent` shows that the core refuses what the host brings for
  such an event, `HeapIsOwned` that no other path gives a stale pointer to `host_realloc`.
* `Refused`: `ws_try_send_pending` takes a message, the codec makes no frame of it, and it returns -1 with the
  connection in WS_RECV; `handle_send_complete` swallows that and re-arms nothing, plain or TLS. The connection is not
  heard, and what else is queued waits, until a broadcast or a timeout starts another send.
* `LateRecvCqe`: user_data has no generation and `close_conn` cancels nothing, so the recv of a
  closed connection that completes after its slot was reused is applied to the new
  connection. `OneOfEach` and `HttpNeverForgotten` exempt such a connection (`foreign`);
  `OnlyRecvOutlives` shows that no other operation can be late.
* `tls_drive_write`: a write that fails on a queued message is swallowed by
  `handle_send_complete` in WS_SEND, and nothing is in flight for the connection any more; a second
  reason why `FanoutSent` is shown for the plain listener only.
* `Chatter`: no limit of time covers a whole TLS exchange. A record without data (a key update, a part of a record)
  ends the poll it arrives in, and the next one waits for the whole of `timeout_ms` again, or for another 50 ms once there
  is data; an upstream that keeps sending them keeps the loop thread (`RecordsForever` in `ExchangeEnds`).
* `ScrapeDown`: a failed scrape broadcasts its value although the store refused it (`phantom`).
* `ServeV1` and `cancel_inbound`: an entry released without `on_http_complete` leaves
  openai_proxy's `in_flight` up for good (`unfinished` in `InFlightAccounted`).
* `edge_auth_rbac_check` decides on the first role it finds, so a principal with
  service_openai and ingest is refused the PUT that ingest allows (`AccessHonoured` exempts
  several roles; `RbacIsPolicy` proves that there is no other difference); `/auth/me` lists "employee" for every principal.
* `Parse`: no Content-Length is looked at, so an upstream that closes early is a success with a short
  body (`Cut` in `BodyDelivered`); a status line without a space is searched past its end.
* `CallUpstream`: while a plain upstream keeps its connection open the loop thread is in `read`; it
  serves nobody and does not see SIGTERM (`StopObeyed` is conditional).
* `Timeout`: scrapes are counted in idle timeouts of 200 ms, so a loop that always has a completion never
  scrapes; a plugin's `state_put` reaches the store and no subscriber (`api_state_put`).
* `parse_size`: a negative number is accepted and wraps (`LoaderMeaning` states it).
* `body_off_found`: a bare-LF request with a body of one byte is never recognised as
  complete (exempted in `CompleteAnswered`).

## 7. Plan

Done: the modules above, in the order EdgeCore, PluginHost, StateFanout, IoUringLoop,
ConfigReload, HttpServe with AuthRbac, Outbound, ConfigYaml and Startup, and the theorems of
section 5. Next:

1. Prove: the facts about `AuthRbac`'s sessions that `HttpServeProofs` uses inline, as lemmas of their own.
2. Model: a composition of loop and hub in which the queued messages are those of
   StateFanout; reload composed with `EdgeCore!edgecore_apply_config`; the fields of a NOTIFY payload.

## 8. Not modelled

* OpenSSL, libyaml, the HTTP parser and the WebSocket codec: libraries; their results are any
  they can be (`Outbound`, `IoUringLoop`), errors included, or abstracted to what they deliver (`ConfigYaml`).
* `static_files.c`: a pure mapping from path to file; `edge_metrics.c`: counters that only their
  text reads (`active_conns` is in IoUringLoop).
* slack and teams plugins: allocation, registration and shutdown are in `Startup`; feed and tick
  are stubs that the host never calls. `DispatchOther` covers a plugin that answers at once.
* The fuzz driver of `sim_main.c` beyond its use of edgecore; command line parsing.
* Getters, logging, message texts, cryptography (a credential is genuine or not), JSON and
  key syntax, the extraction of fields from a NOTIFY payload and from a scrape, the statistics of the allocator.

Assumptions of the models: to realloc a block that was freed is undefined behaviour, of which `ServeRealloc` has the outcomes
in which the allocator goes on, and after it nothing is claimed of the heap (`stale` in `HeapOwned`); a message that the
codec refuses leaves nothing behind in its output queue; the submission queue is never exhausted (256 entries by default,
a completion submits at most a few operations per connection); `max_value_bytes` is the default, for which
every STATE_CHANGED message fits its buffer; Content-Length is not negative; the
configuration generation does not overflow; SIGPIPE is ignored by whoever starts the process, as systemd
does (main installs no handler for it); a plugin that initialises also registers (the table has
sixteen entries, main registers three).
