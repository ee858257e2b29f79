# Verification of vey

TLA+ models of the concurrent parts of vey (the proxies, gateway and helper daemons of
this repository), their model checking with TLC and proofs with TLAPS. Paths below are
relative to `src/`. The models are written from the code; where the code and its
documentation or its own assertions disagree, a run shows it (see *Findings*).

## 1. The system and its parts

vey is a set of tokio daemons. Most of the code is sequential per connection (accept,
negotiate, relay) or pure (codecs, configuration). What is hard to test is the shared
machinery underneath: tasks that own a table and talk over channels, with timeouts,
reconnects and shutdown in between.

| part | where | state, operations, what makes it hard |
|---|---|---|
| effective cache | `lib/vey-io-ext/src/cache` | callers, a cache task and a query task over three FIFO channels; coalesces queries, refreshes expired records, forgets vanished ones. Timers and tables must agree; a key must be queried once and not be forgotten. |
| its users | `vey-proxy/src/escape/route_query`, `lib/vey-cert-agent` | query tasks over UDP: ids, late, duplicated and missing answers, send failures |
| IP locate | `lib/vey-ip-locate` | a cache and a query task with a runtime and a handle of their own, much like the effective cache, which also pass on answers nobody asked for |
| LDAP user group | `vey-proxy/src/auth/group/ldap` | a pool task, connection tasks, a bounded request queue, a bounded command channel; pipelined binds matched by message id, one retry on a new connection |
| caching resolver | `lib/vey-resolver` | a hand-written future on a thread of its own: wakers of three channels and a delay queue, stale answers from the trash, update and stop from outside |
| keyless backend | `vey-gateway/src/module/keyless/backend` | a pool of multiplexed connections, each a send and a receive task that share two rotating tables of requests; responses in any order, timeouts, graceful close |
| daemon quit and upgrade | `lib/vey-daemon` | the old process hands over to the new one over RPC: a control socket that changes its owner, requests of init, of the operator and of new processes in one channel, timeouts |
| reload | `vey-proxy/src/{signal,config,escape,serve}` | registries that are replaced piece by piece under three locks, while what is registered holds handles on each other |
| HTTP pipeline | `vey-proxy/src/serve/http_proxy` | a reader task queues requests for a writer task; the client stream is handed over and back |
| ICAP client | `lib/vey-icap-client` | a pool of kept connections, polled for closing while idle |
| peer health, site pools, limiters | `vey-proxy/src`, `vey-gateway/src`, `lib/vey-io-ext/src/limit` | small tables and counters changed by many tasks under locks or atomics |

Interactions: an escaper calls the effective cache, whose query task is the escaper's
own; servers call user groups (LDAP), resolvers and auditors (ICAP); the gateway's
keyless server calls the keyless backend. Configuration reloads replace any of these
objects while calls into the old one are going on, so every part must also end cleanly
when its last handle is dropped.

`PROJECT.json` lists all parts with their state of modelling and the hazards at the
lines where they bite.

## 2. Modules

| module | what it is |
|---|---|
| `SingleFlight` | abstract specification: at most one query per key on its way, joined by later calls, released together |
| `EffectiveCache` | the cache runtime, its callers, and the query handle used in any way its interface allows |
| `RouteQuery` | extends `EffectiveCache` with the complete query task of the route_query escaper and its datagrams |
| `LdapAuthPool` | the LDAP group's calls, pool task and connection tasks |
| `Resolver` | the resolver runtime with explicit wakers, its callers and its owner |
| `KeylessMultiplex` | the two tasks of a multiplexed keyless connection |
| `DaemonUpgrade` | the processes of a daemon group: main function, upgrade thread and quit loop of each, the control socket, init and the operator |
| `EscaperRegistry` | the reload of the proxy: configuration and running registry of the escapers, the servers that use them, the operations and locks |
| `EffectiveCacheProofs` | lemmas about FIFO channels, the theorems about `EffectiveCache`, and on top of those the ones about `RouteQuery` |
| `LdapAuthPoolProofs`, `ResolverProofs`, `KeylessMultiplexProofs` | the theorems about these modules |
| `DaemonUpgradeProofs`, `DaemonHandoverProofs` | the theorems about `DaemonUpgrade`; the second module has those that need every start to be heard of to its end |
| `EscaperRegistryProofs`, `EscaperLoadProofs` | lemmas about the types, handles and tasks of `EscaperRegistry`; the loading order and the theorems |
| `MC*` | instances for TLC |

A definition whose name ends in a suffix and that carries the comment *(mutant)* is the
definition after it with a plausible mistake. It is used nowhere; replacing the correct
definition by it must make TLC report the property it is listed for in `PROJECT.json`.

### Conventions

* Tables are total functions with the model value `None` for an absent entry. A channel
  is a sequence; a bounded one is bounded in its sender's guard. A oneshot is a state
  of the call that waits on it; dropping the sender is one of its values.
* A deadline is the number of ticks left; `Tick` takes one off everywhere. A timeout
  that nothing depends on in number (a caller's, an idle timer's) may fire at any time.
* A poll function is one action per step between two effects on shared state, with a
  program counter; `batch` counts what the code's loops count.
* `biased` selects appear as guards saying that the branches before are not ready.
* What a task owns is reset when it ends, so that states after the end are few.
* A call is used once: `Reqs` bounds the number of calls in a behaviour.

### SingleFlight, EffectiveCache, RouteQuery

State of `EffectiveCache` and the code: `req`, `handles`, `reqCh` are the calls of
`EffectiveCacheHandle::do_fetch`, the existence of handles and the request channel;
`pc`, `batch`, `cache`, `vanish`, `doing` are `EffectiveCacheRuntime` (where
`poll_loop` is, the batch counter, `cache`, the `DelayQueue` of records, `doing`);
`queryCh`, `rspCh` the channels to and from the query task; `queryUp`, `doingCache`,
`timeoutQ` the query task and `EffectiveQueryHandle`.

Actions: `do_fetch`, `FetchTimeout`, `DropHandles` (callers); `poll_loop` with
`handle_rsp`, `handle_req` and the ends of its three loops, `CacheStops` (future done or
panicked: everything it owns is dropped at once); `QueryReq`, `QueryReqFail`, `QueryRsp`,
`QueryExpired`, `QueryClosed`, `QuerySocketError` (query task). In `EffectiveCache` a raw
answer for any key may arrive at any time, and `send_rsp_data` drops it unless the key is
being queried. That is weaker than what a real query task does, so what is proved holds for
the users of this cache, route_query and the certificate agent. It does **not** hold for IP
locate: that has a cache runtime and a query handle of its own (`lib/vey-ip-locate/src/cache.rs`,
`handle.rs`), which passes answers on whether or not the key was asked for.

`RouteQuery` replaces the query task by `QueryRuntime::poll_loop` of route_query: `qpc`
is its place, `idKey`, `keyId`, `writeQ` its maps and write queue, `wire` the ids the
peer has seen. Its property `ImplementsEffectiveCache` says that every behaviour of the
composition is one of `EffectiveCache`, so the two levels form a chain RouteQuery =>
EffectiveCache => SingleFlight.

### LdapAuthPool

`caller`, `reply`, `retry`: the call of `check_username_password`, its oneshot and the
request's retry flag; `cache` the thread-local password cache; `queue`, `cmds` the two
bounded channels; `pool`, `expected` the pool task and `expected_idle_count`; `task`,
`pending`, `msgId`, `wire` one connection task each; `ending` counts tasks that have left
`run` and wait to send their last command. The code's atomic counter `idle_conn_count` is
the number of `task`s in use here.
`OverflowChecks` chooses cargo's dev or release arithmetic in `check`: a panic of the pool
task, or a result modulo `Word`. `binds` is a history variable.

### Resolver

`wakers` is the set of sources (control, response, expiry and request) that hold the
runtime's waker, `woken` says that a wake-up is due, and `Poll` is enabled only by it. So
a poll function that returns `Pending` without having left a waker is visible as a state
where nothing is enabled although work is queued. `cache`, `expired`, `doing`, `trash` are
the runtime's tables; `flying` counts driver queries per name; `owner` is the thread that
calls `update_config`, `shutdown` and joins. The runtime with its drivers implements
`SingleFlight` as well: a name with a driver query is *asked*, one with a response in the
channel *answered*, and the service is open until the runtime ends.

### KeylessMultiplex

`send`, `writing`, `count`, `msgId`: the send task; `recv`, `failed`, `partial`: the receive
task with its loops run_online, run_offline and recv_all_pending; `cur` and `old` the two
tables under the mutex; `queue`, `quit` the surroundings; `peer`, `wire`, `open` the server
and the stream. `out`, `got` are what a client of the backend sees; `age` is a history
variable. A response is taken in one step or in two (`RecvPartial`, `RecvRest`): in between
the receive task is inside a branch of its select and sees nothing else. The server
answers a request at most once and only requests it was sent. A request that finds no
live connection, or the queue closed, is refused at once (`keyless`).

### DaemonUpgrade

`main`, `thread`, `link`, `call` are the main function of a process from `config` to
`serve`, the thread of `connect_to_old_daemon`, the process it is connected to and what
`main` wants of it; `quit`, `chan`, `closed` are the quit loop with its command channel and
the sender that `trigger_force_shutdown` drops; `bound` and `path` are the daemon controllers
and the one socket file they share. `path.mine` are the controllers that take the file for
their own because its change time, in seconds, is theirs. Actions are named after the code
(`connect_run`, `start_daemon`, `load_and_spawn`, `resume_controller`, ...) or after the
command that the quit loop receives. `Start`, `Offline`, `CancelShutdown`,
`trigger_force_shutdown` and `Crash` are init, the operator and the machine, and come at any
moment, also during a start: the unit is of `Type=exec`, and the signal handlers and the
controller accept every command at any time. In daemon mode the process forks between the
start of the upgrade thread and its release call (`ConfigLoad`): the thread is `lost` then.

Two history variables record what the properties need. `told` are the processes with a
standing order to stop: from init, from the operator or from a new process that confirms; a
release or a cancellation that is handled after the order takes it back. `mishap` says that
some start met something the protocol has no answer to:

* another process started at the same time;
* the new process died or failed without a word after its release call;
* the old process took the control socket back before it had heard of the new one, because
  of `server_offline_delay` or of a cancel-shutdown command, or got that command while the
  new process was starting;
* the old process could not bind the socket again;
* two control sockets were created within the same second.

### EscaperRegistry

The section of an escaper has the set of escapers it may hand a task to, and says whether
the escaper is of a *comply* type. There are two relations: `Deps` is what a running escaper
depends on (`_depend_on_escaper`), while the check for loops and the order of `load_all` see
`dependent_escaper` through `build_topology_map`, for which comply escapers are leaves.
`conf` is the registry of
configurations, `run` that of running escapers (a name without configuration that is
used gets a `DummyDeny`, which depends on nothing); `fresh` says which of an escaper's
handles still are the registered escapers, `failed` which escapers could not be rebuilt.
`esc` and `current` are the same for the servers. `lock`, `work` are `ESCAPER_OPS_LOCK` and
what its holder has left to do: the recursion of `update_dependency_to_escaper` is the
stack `work`. `full`, `left`, `doc`, `plan`, `todo`, `dels` are the reload of everything, `one`
the reload of one escaper, `sop` the operation that holds `SERVER_OPS_LOCK`.

The topological order is kept as the code has it: `sorted_first` takes a name with the
fewest `all_children`, ties in any order. Where escapers run in a circle the recursion of
`update_dependency_to_escaper` has no end; the model stops it at `MaxWork`. Two history
variables: `applied` says that a reload of everything ended and nothing was read in vain
since, `blind` that something was loaded for which the check for loops could not vouch.

## 3. Runs

Passing runs (distinct states, 2 workers):

| run | states | checks |
|---|---|---|
| `effective_cache` | 85,990 | `TimersTrack`, `InFlightOnce`, `NoLostCall`, `WaitOnlyUncached`, `RecordKept`, `ImplementsSingleFlight`; liveness `EveryCallSettles`, `TasksEnd` |
| `route_query` | 207,927 | `MapsAgree`, `TtlBounded`, `ImplementsEffectiveCache`; liveness `RouteCallSettles` |
| `ldap_pool` | 2,166,848 | `IdleWithinMax`, `SuccessIsVerified`, `RetriedOnce` |
| `ldap_live` | 368,364 | liveness `KeepsTrying`, `EndsAfterExit` |
| `resolver` | 255,372 | `ExpiryMatches`, `OneQueryPerKey`, `CacheOrTrash`, `NoLostWakeup`, `StaleBeforeFailure`, `ImplementsSingleFlight`; liveness `EveryQuerySettles`, `ThreadStops` |
| `keyless` | 953,973 | `OwnResponse`, `WaitingIsHeld`, `ClosesGracefully`, `TimeoutNotEarly`; liveness `WaitsOnlyForServer` |
| `upgrade` | 347,642 | `NoOutage`, `ControllerReachable`, `OneServes`; liveness `StartSettles`, `OldDrains` |
| `registry` | REGSTATES | `NoLoop`, `HandlesCurrent`, `ServersCurrent`, `InSync`; liveness `OpsEnd` |

None takes more than about two and a half minutes. Four more runs must find a violation, one
per finding of section 6: `effective_cache_unreachable`, `ldap_wrap`, `keyless_stall`,
`registry_loop`.

What the less obvious properties say, and what they do not:

* `KeepsTrying`: while a call waits for a place in the queue, the pool again and again has a
  connection that is being opened or waits for an answer. It does not say that the wait ends:
  the server may be away for ever.
* `WaitsOnlyForServer`: a request waits for ever only when the server stops in the middle of
  a response, or does not read what the send task writes after the receive task has ended.
* `TimeoutNotEarly` counts ticks of the timer, two of them. Nothing is said of the time between.
* `NoOutage` is about processes without a standing order to stop. When init has ordered the
  old process to stop and the new one fails before its release call without a cancel
  (`vey-proxy/src/main.rs:82-123`), the order stands and the old process drains at its
  timeout; that is what the code does, and no property objects.
* `ControllerReachable` and `OneServes` say nothing after a `mishap`, `NoLoop` nothing once
  `blind`; section 7 has what happens then.
* `StartSettles` excepts starts that have forked, `OpsEnd` escapers that run in a loop.

Deadlock is not checked: every system here may stop, when all calls have returned, the
handles are gone, the processes have ended or the operator asks for nothing more. That
nothing stops too early is what the liveness properties say. No run uses symmetry.

### Bounds

* `effective_cache`: two keys, two calls, batches of two, all times one tick. Two calls
  are what it takes for one to join or overtake the other; two keys make the answer of
  one pass the query of the other. What depends on more is covered by the proofs.
* `route_query`: one key, two calls, two ids: a key can be queried twice, so a late answer
  to the first id can meet the second query. When both ids are used a further query
  can only fail to be encoded; uuids do not run out, so this loses behaviours but adds none.
  Raw ttls 0 and 3 lie on both sides of the maximum 2.
* `ldap_pool`: one to two connections, three slots (so that a third could be opened), two
  calls with a good and a bad pair, a queue of one, message ids that wrap after 2,
  one notification. `MaxEnding` = 0 lets the periodic check run only when no ended task
  still waits to report; the proofs do not need this. `ldap_wrap` uses 32 for 2^w and 32 slots: the
  wrapped count only has to exceed `max_idle_count`, and does so for every width.
* `ldap_live`: a pool of two connections, two calls, a queue of one, one message id and **no
  notifications**. With `MaxNotes` = 1 `EndsAfterExit` does not hold: after a notification
  the task sends its bind again under a new id, the answer to the first bind then has an
  unexpected id, so the bind is sent once more, and the next message is the answer to the
  second one. With a server that answers in order every round reads the answer to the round
  before. Nothing in the task bounds this; it ends when a bind stays unanswered or the
  connection breaks, and until then the connection takes no other request
  (`pool/task.rs:108`). No document promises otherwise, so it is a hazard of `PROJECT.json`
  and not a finding.
* `resolver`: one name, three calls, batches of one, one update, raw ttls on both sides of the
  limits. Names do not interact except through the batches and the wakers; the proofs, which
  are about any number of names, cover every safety property of the run.
* `keyless`: four requests on a connection that takes three, so the limit is reached with a
  request left in the queue, and requests are in both tables when one times out.
  `keyless_stall` needs two requests.
* `upgrade`: three processes, one request, one kill: a second start can begin during the first
  or while the process replaced by it is draining, and each may go wrong.
* `registry`: three escapers, one server, two operations (two reloads of everything, or one
  and a single reload during or after it), three files: two opposite chains, and one with a
  comply escaper that names an escaper without a section. `registry_loop` needs one reload and
  two files. `MaxWork` is more than any recursion without a loop needs here.

### Fairness

* Tasks and threads (`poll_loop`, `QueryRuntimePoll`, the pool and connection tasks,
  `Runtime`, both keyless tasks, quit loops and main functions, the holders of locks): weak
  fairness per task. tokio polls a woken task again, and a task that can go on has been
  woken; in `Resolver`, where this is in question, fairness applies to `Poll` only once
  `woken` holds.
* `Tick` and timers: weak fairness; time passes and delay queues fire.
* `DriverAnswer`: weak fairness; every driver query runs under a protective timeout.
* `graceful_shutdown` in `DaemonUpgrade`: weak fairness; the wait for tasks has a timeout.
* LDAP: a connection attempt ends, by success or by failure, each time as it likes; the
  server need not answer. A bind is written in the end (it fits into the socket's buffer).
* Keyless: `FairSpec` has the steps of both tasks but not the end of a write, which is the
  server's to allow; nothing of a response in part. `ReadingSpec`, of `keyless_stall`, adds that
  writes end.
* Nothing is assumed of callers, peers, raw answers, sockets, init, the operator, the
  beginning of reloads or the resolver owner's stop.

## 4. Proofs

All theorems hold for every value of the constants that the named assumptions of the
component's module allow: any number of keys, calls, processes, escapers or requests,
any times and limits.

| module | theorem | statement |
|---|---|---|
| `EffectiveCacheProofs` | `TypeCorrect` | `Spec => []TypeOK` |
| | `TimersAgree` | `Spec => []TimersTrack`: delay queues and tables agree |
| | `RecordsAreKept` | `Spec => RecordKept`: no record is dropped before the vanish time of its latest answer |
| | `NoCallIsLost` | `Spec => []NoLostCall` |
| | `NobodyWaitsForCached` | `Spec => []WaitOnlyUncached` |
| | `OneQueryPerKey` | `Spec => []InFlightOnce` |
| | `CacheIsSingleFlight` | `Spec => ImplementsSingleFlight`: the refinement |
| | `RouteTypeCorrect` | `RouteSpec => []RouteTypeOK` |
| | `MapsAlwaysAgree` | `RouteSpec => []MapsAgree` |
| | `TtlAlwaysBounded` | `RouteSpec => []TtlBounded` |
| | `RouteImplements` | `RouteSpec => ImplementsEffectiveCache`: the refinement |
| | `RouteInherits` | the escaper loses no call and is a single-flight cache |
| `ResolverProofs` | `ExpiryAlwaysMatches` | `Spec => []ExpiryMatches` |
| | `AlwaysOneQueryPerKey` | `Spec => []OneQueryPerKey` |
| | `AlwaysCacheOrTrash` | `Spec => []CacheOrTrash` |
| | `NeverLosesWakeup` | `Spec => []NoLostWakeup` |
| | `StaleServedFirst` | `Spec => StaleBeforeFailure` |
| | `ResolverIsSingleFlight` | `Spec => ImplementsSingleFlight`: the refinement |
| `KeylessMultiplexProofs` | `AnswersAreOwn` | `Spec => []OwnResponse` |
| | `WaitingIsAlwaysHeld` | `Spec => []WaitingIsHeld` |
| | `AlwaysClosesGracefully` | `Spec => []ClosesGracefully` |
| | `TimeoutIsNeverEarly` | `Spec => []TimeoutNotEarly` |
| `LdapAuthPoolProofs` | `RetriedOnceHolds` | `Spec => []RetriedOnce` |
| | `SuccessIsVerifiedHolds` | `SuccessIsVerified` holds throughout, if there are fewer notifications than message ids (`MaxNotes < MaxId`) |
| | `IdleWithinMaxHolds` | `IdleWithinMax` holds throughout, with overflow checks or with `MinIdle = MaxIdle` |
| `DaemonUpgradeProofs` | `ServiceSurvives` | `Spec => []NoOutage` |
| | `ShutdownReleases` | `Spec => []ReleasedFirst`: a process that stops its listeners has released its controller |
| `DaemonHandoverProofs` | `SocketLeadsToServer` | `Spec => []ControllerReachable` |
| | `OneProcessServes` | `Spec => []OneServes` |
| `EscaperLoadProofs` | `HandlesStayCurrent` | `Spec => []HandlesCurrent` |
| | `ServersStayCurrent` | `Spec => []ServersCurrent` |
| | `NeverLoops` | `Spec => []NoLoop` |
| | `AppliedIsRunning` | `Spec => []InSync` |

Assumptions. `ConstAssumption`, `RouteAssumption`, `TtlsFit`, `ResolverConstAssumption`,
`KeylessAssumption`, `PoolConstAssumption`, `UpgradeAssumption`, `RegistryAssumption`: numbers are naturals, batches
and limits are not zero, the resolver's minimum ttl is at most its maximum, the ttls that
route_query computes are among those of the cache, and `None` is none of the values it
stands in for. Only the names of escapers must be finitely many. TLC evaluates each
of them on the instances.

### The arguments

**EffectiveCache.** `TypeOK` is inductive only together with `BatchLeft` (the request loop is
never entered with an empty batch), because `handle_req` counts `batch` down. Given
`TypeOK`, each of `TimersTrack`, `NoLostCall`, `WaitOnlyUncached` and `InFlightOnce` is
inductive by itself. `RecordKept` is an action property: a running cache drops a record
only in the vanish loop, when the delay queue's entry has run out, and `TimersTrack` says
that the entry is the record's own. The heart is `InFlightOnce`: the keys queued to the
query task, the keys being queried and the keys answered are three disjoint sets without
duplicates which together are the domain of `doing`. Its proof moves a key from one set to
the next and needs that appending to a channel of distinct values a value it does not
contain keeps them distinct, and that taking the head removes just it.
For the refinement `FlightIsPlace` reads the abstract state of a key off these sets;
one lemma per abstract action (`ServiceAsk` ... `ServiceClose`) says when a step of the
cache is that action, and `ServiceStep` goes through the actions of `Next`.

**RouteQuery.** `RouteStep` shows that each action of the query task is an action of
`EffectiveCache` or leaves it alone; with it the lemmas about the cache apply to
`RouteNext`, and the theorems about the cache to `RouteSpec`. `MapsAgree` is inductive
together with `IdsDrawn` (an id in a map has been drawn, so a fresh id is in none) and the
cache's `TimersTrack` (only a key that is being queried times out). `RouteInv` is the
conjunction of all of these.

**Resolver.** The invariant `Inv` adds to the properties: `Keyed` (a call that is queued or
waits has the key it waits for), `NoFailedTrash` (failures have no vanish time, so they
never get into the trash: without it a stale failure could be served), `FreshAnswers`
(an address on its way expires within the limit and not after it vanishes), and `WakersLeft` (past the poll of a
channel the channel is empty and holds the waker, or the runtime has been woken), from
which `NoLostWakeup` follows for the place where the runtime parks. `ExpiryMatches` is inductive
as `Timed`, where the clock takes the timer of a record and its vanish time down together. Every step lemma proves
`Inv'` and that no call is told of a failure too early, which gives the action
property `StaleBeforeFailure`. For the refinement `OneQueryPerKey` tells the three places of a
name apart (`FlightCases`), and `ServiceStep` finds the step of the service for each action:
a request joins or starts a query, a driver's answer and its delivery are one step each.

**KeylessMultiplex.** `OneId` says that an id below the counter belongs to one request
wherever it is mentioned (in a table, in the write that is going on, at the server, on
the wire) and the next id is not mentioned at all; `Tabled` that the requests that
wait are those in the tables, in one of them each; `Ages` that a request in the current
table has seen no tick and one in the old table one; `Ends` what the places of the two
tasks say about each other and about what is left in the tables. `OwnResponse` is
preserved by `OneId`, the other three properties are read off the invariant.

**LdapAuthPool.** `Tracks` puts every request in one place, the queue or one connection, and
ties the number of times it was given to a connection to that place and to its `retry` flag;
`RetriedOnce` is read off it. For `SuccessIsVerified` one has to know that an answer with the id
of the last bind is the answer to that bind, although ids wrap. `WireInv` therefore gives
every answer on the wire an `Age` (how many binds ago its id was used) and says that its
place on the wire and its age together are at most the number of notifications plus one
(`Behind`): only a notification, taken for the answer of the bind that waits, puts the answers
behind. With fewer notifications than ids no id has come round while its answer is on its
way, so what
`RecvAwaited` accepts is the server's verdict on the request that waits (`Verified`).
`IdleWithinMax` is kept by `Limits` (what `check` expects lies between the minimum and the
maximum); the two alternatives of its assumption keep `check`'s subtraction from wrapping.

**DaemonUpgrade.** `StartInv` is what holds of every start: `CallsMatch` (main waits for what its
place calls for) and `EarlyUntouched` (nobody has reached the quit loop of a process before it
binds). `NoOutage` is read off `OrderInv`: a process that is not in `told` has no order in its
channel and its quit loop has not begun to obey one. The work is in the steps that take a
process out of `told`, which must be the last word in its channel. `ShutdownReleases` is
`HandoverReleased`, by going through the ways to a shutdown.

`ControllerReachable` and `OneServes` are about who is who after any number of hand-overs.
`Heard` says what holds as long as there was no mishap: starts come one at a time; a command
with a caller is the one its caller waits for, and the operator has not cancelled behind it
(`CallersWait`); a process that has released its controller has an order to stop, or the new
process has still to speak (`Released`); a quit loop that has not released its controller has
it, with the socket file (`LoopFits`); and a new process that goes on without asking anybody
leaves nobody who holds the socket unasked (`Knows`). A mishap is never forgotten, so
`HeardInv == mishap \/ Heard` is inductive. None of the theorems assumes anything of timing or
of init; the conditions are in the properties, and each kind of mishap is needed there.

**EscaperRegistry.** `Shape` gives the types, who holds which lock, and what `work` may
contain for each holder; `HandlesCurrent` and `ServersCurrent` are inductive with it.
`NoLoop` and `InSync` need `LoadInv`. During a load the configuration is still the one planned
with (`load_all` holds the lock under which single reloads change it), the names done run as
planned and, unless `blind`, depend only on names done (`FullInv`); a single reload is ahead of
what runs by exactly the section it has read, unless a reload of everything cleared the
registry meanwhile (`OneSync`, `TurnInv`). A circle in the mixture of old and new escapers would
have to pass from a name that is done to one that is not, or lie in the plan, or lie in what
ran before. That `sorted_first` takes a name only after what it depends on is a counting
argument on `all_children` (`Counting`), the only place where finiteness is used.

Only model-checked: liveness, which is out of reach of the prover, as is ENABLED. Every
invariant and every action property that a passing run checks is stated by a theorem.

## 5. Mutants

For every property of every passing run `PROJECT.json` names a definition and a wrong form
of it (a waiter that is not kept, a timeout that answers nobody, an id that is not
compared, a table copied instead of taken ...) under which TLC reports the property
violated.

## 6. Findings

1. `lib/vey-io-ext/src/cache/runtime.rs:92`: `send_req` treats a closed query channel as
   `unreachable!()`. A query task that ends on a socket error between the response
   loop and the request loop of a poll makes the cache task panic
   (`effective_cache_unreachable`). Calls are released all the same (`NoLostCall`).
2. `vey-proxy/src/auth/group/ldap/pool/mod.rs:173`: `check` subtracts the larger from the
   smaller count; after one growth of the pool it panics the pool task with overflow
   checks and opens connections far beyond `max_idle_count` without (`ldap_wrap`).
3. `vey-gateway/src/module/keyless/backend/multiplex/recv.rs:76`: the rest of a response that
   arrived in part is awaited outside the select, so that `response_recv_timeout` does not
   apply to any request of the connection until it comes (`keyless_stall`), unlike
   `sphinx/vey-gateway/configuration/backends/keyless_tcp.rst:64` says.
4. `vey-proxy/src/config/escaper/mod.rs:69`: the configurations of `ComplyAudit` and `ComplyContext`
   tell the check for loops and the order of `load_all` nothing of the escaper they depend on.
   A reload between two files without a loop, or one file with a loop through such escapers,
   makes running escapers depend on each other in a circle (`registry_loop`), and the recursion
   of `update_dependency_to_escaper` has no end.

## 7. What is abstracted or left out

* External code is modelled as it is used: tokio's and kanal's channels (FIFO, all or
  nothing), `DelayQueue`, oneshots, `time::timeout`. Spurious wake-ups and tokio's
  cooperative budget are left out; both only add polls.
* LDAP: connecting is one step; all calls share the password cache of one worker thread.
  With several threads each has its own, which only makes hits rarer.
* Resolver: the drivers' retries and the fail-over driver; a query answers exactly once. The
  configuration that an update brings is what new driver queries are made with and the size
  of the batches; `PollCtl` keeps the latter as it is.
* Keyless: the pool (a full queue asks it for another connection), the handshake, and the encoding of messages; the QUIC backend runs the same
  two tasks on another stream.
* Upgrade: unique controllers, the pid file and the RPC encoding; graceful_shutdown is one step.
* Reload: of a server only its escaper is modelled; user groups, site groups, resolvers
  and auditors appear only as the cause of a rebuild.
* route_query: the choice of a node from an answer.
* Not modelled: byte-level protocol work (codecs, TLS, inspection, ICAP adaptation), where
  the data is the behaviour; configuration; statistics and logs; servers and escapers that
  are one sequential task per connection; the command-line tools. `PROJECT.json` gives the
  reason for each.

What the properties except or the runs keep out, and what TLC finds when it is let in:

* `LdapAuthPool`: the wait for a place in the queue is outside `queue_wait_timeout`
  (`vey-proxy/src/auth/group/ldap/pool/mod.rs:73`), so a call waits as long as the server
  is away, although `sphinx/vey-proxy/configuration/auth/group/ldap.rst:135` speaks of a "Timeout
  while authenticating a client request against the LDAP server." An `Exit` that does not fit
  into the command channel is lost, and the pool task stays.
* `Resolver` without the condition `updates = 0` in `ThreadStops`: it fails. After an update the
  control channel holds no waker (`lib/vey-resolver/src/runtime.rs:346`), and a following
  quit is noticed only when something else wakes the thread. A negative answer keeps the ttl
  the server gave it, with no limit (`lib/vey-resolver/src/driver/hickory/client.rs:253`), so
  `ExpiryMatches` has a limit for addresses only.
* `DaemonUpgrade` with a kind of mishap left out of `mishap`: a cancel-shutdown command during a
  start, or two starts at once, lead to two processes that serve or to a process that serves
  without the socket; two sockets of the same second to one whose file another process
  unlinks. A start that outlasts `server_offline_delay` has its confirmation taken for an order
  of init; `sphinx/vey-proxy/configuration/runtime.rst:140` asks for a longer delay. Without the
  exception in `StartSettles`, a start in daemon mode that waits for its lost thread for ever.
* `EscaperRegistry` with `~applied` left out of `blind`: `NoLoop` fails. A single reload is
  checked for loops against a configuration registry that a whole reload has cleared and is
  filling, or has left half filled.

## 8. Plan

The parts of `PROJECT.json` that are not modelled and could be, in this order:

1. the keyless connection pool over an abstract connection (a promise that
   `KeylessMultiplex` implements: every taken request is settled, its end is announced):
   lossy notices, overshoot of the idle count, update of the peer set;
2. the HTTP pipeline: reader and writer task and the hand-over of the client stream;
3. IP locate: its own cache runtime and query handle, with answers for keys nobody asked for;
4. the ICAP pool, peer health, site pools, token buckets and the fail-over driver: smaller,
   mostly atomic updates by several tasks, each with a reference definition.

Runs are kept few: liveness and safety share a run where the state space allows it. A new
component gets one passing run, and a second only for a disagreement.
