# TLA+ models of gira's registries and gateway session

These modules model the concurrent parts of `src/`:

- the etcd-backed **player registry** (`src/registry/player.go`);
- the **service registry** (`src/registry/service.go`, including its prefix index `word_trie`);
- the gateway **client session forwarder** (`src/framework/smallgame/gateway/server/session.go`);
- the gateway **upstream pool** (`src/framework/smallgame/gateway/server/upstream.go`);
- the **service container** (`src/service/service.go`) and the game application shell that starts its hall in it (`src/framework/smallgame/game/app/app.go`);
- the **registry client**'s peer view (`src/registryclient/peer.go`).

Each model is checked with TLC. `PROJECT.json` lists every component, run, mutant, finding and hazard. Its `map` gives the source lines each definition translates.

## The system and how its parts interact

Every peer runs both registries against a shared etcd.

**Locking a user.** `LockLocalUser` claims a user in one etcd transaction:

1. It compares `CreateRevision(/peer_type/user/<type>/<uid>) == 0`.
2. If that holds, it puts `/user/<uid>`, the per-type key and `/peer/user/<self>/<uid>`.
3. Only after the commit does it store the user in the in-process `localPlayers` sync.Map.

**The watch goroutine.** A separate goroutine watches `/peer/user/<self>/` from snapshot+1. It applies PUT/DELETE events to the same map, through `onLocalKvAdd` and `onLocalKvDelete`.

**Services.** Services follow the same pattern, with the `/service/<name>` and `/peer/service/<self>/<name>` keys. The watch covers all of `/service/`, so every peer keeps a mirror (`services`) and its own set (`selfServices`). Each service name is also indexed in a word trie, which is locked per header.

**Shutdown and restart.** On orderly shutdown each registry deletes the keys it holds locally. None of these keys carries a lease, so a crashed peer's keys stay until it restarts. At restart `recoverSelfPeerPlayers` and `initServices` run.

**The gateway session.** The gateway runs one `client_session.serve` per client, made of three goroutines:

- **U** (hall to client) receives from the current hall stream. When the stream breaks, U suspends the client and reselects a hall every second.
- **W** cancels the current stream when the session ends.
- **C** (client to hall) receives client frames. It drains a `pending` queue of frames that could not be sent, and sends through `processClientMessage`, which reads `session.stream` without synchronisation.

**The upstream pool.** The gateway keeps one agent (`Upstream`) per hall peer. The peer registry's `OnPeerAdd` creates it; `OnPeerDelete` cancels it. Its `serve` goroutine dials, opens the gate stream (retrying every second), calls `Info` for the build time, and then publishes the client handle. A heartbeat goroutine refreshes the player count. `SelectPeer` reads these snapshots without locks: the freshest build, then the fewest players, then a health check.

**The service container.** A process's long-running services (the hall among them, started from `app.go`'s `OnFrameworkStart`) live in a `ServiceContainer`. `StartService` publishes the entry with `LoadOrStore`, then creates the service context, runs `OnStart`, sets the status and launches `Serve`+`OnStop` on an errgroup. `StopService` CASes the status and cancels that service's context. `Stop` cancels every entry and waits for the errgroup. Each service context derives from the container's, which derives from the context given to `NewContainer`. The game framework's hooks run in order on the application thread: `OnFrameworkConfigLoad`, `OnFrameworkCreate`, `OnFrameworkStart` (`StartService("hall", …)`) and `OnFrameworkStop` (`StopService`, with its error dropped).

**Lookups.** `WhereIsUser` answers from the local `localPlayers` map when it can, and otherwise from `/user/<uid>`. `WhereIsService` answers from the watch-fed `services` mirror. The registry client reads a peer's `/peer/attribute/<full_name>/…` keys directly from etcd.

## Modules

| Module | Models | State | Actions |
|---|---|---|---|
| `UserLock` | the abstract promise of a registry: at most one owner per (type, user), and a key never passes directly from one owner to another | `owner` | `Acquire`, `Release` |
| `PlayerRegistry` | player.go | etcd (`rev`, `userKey`, `typeKey`, `localKey`), per-peer `localPlayers`, watch queues, the txn-committed-but-not-stored steps, `up` | `LockLocalUser`→`LockStore`, `UnlockLocalUser`→`UnlockDelete`, `WatchEvent` (`OnLocalKvAdd`/`OnLocalKvDelete`), `Shutdown`, `Crash`, `Restart` |
| `ServiceRegistry` | service.go registry half | `svcKey`, `peerKey`, `services`, `selfServices`, `notified`, watch queues, `regPending` | `RegisterService`→`RegisterStore`, `UnregisterService`, `WatchEvent` (`OnKvAdd`/`OnKvDelete`), `Stop`, `Crash`, `Restart` |
| `WordTrie` | service.go `word_trie` | `headers` (trie.headers), per-header node sets and set-flags, per-caller program counter | add as `AddLookup`/`AddHeader`, delete as `DeleteLookup`/`DeleteHeader`/`DeletePrune`, split where the code changes locks; `NodeDelete` is RECURSIVE; `Search` is an operator |
| `UpstreamPool` | upstream.go | `pool` (upstream_map), `agent` slots (Upstream fields plus serve's dialled address, program counter and gate stream), `hall` processes, `registered`, `dupAdds` (duplicate adds delivered, a registry fault bounded by `MaxDupAdds`) | `OnPeerAdd`, `OnPeerDelete`, `OnPeerUpdate`, `Dial`, `GateStream`, `Info`, `Heartbeat`, `GateRecvFail`, `ServeExit`; hall crash, restart and load; `SelectPeer` is an operator |
| `ServiceContainer` | service/service.go | `stored`, `status`, `hasCancel`, `cancelled` per instance, `parentDone`, the StartService program counter and call count, the worker goroutine, `stopResult`, Stop's program counter and visited set, the container Serve's program counter | `StartLoadOrStore`, `StartCtx`, `StartOnStartFail`, `StartLaunch`, `WorkerExit`, `StopService`, `StopBegin`, `StopVisit`, `StopWait`, `ServeCtxDone`, `ServeWait`, `ParentCancel` |
| `GameApp` | app.go composed with `ServiceContainer` | `appPc` plus the container's state | `OnFrameworkConfigLoad`, `OnFrameworkCreate`, `OnFrameworkStart`→`OnFrameworkStartReturn`, `OnFrameworkStop`; every container step, with the hall instance started and stopped only by the hooks |
| `RegistryClient` | registryclient/peer.go | `store` (the `/peer/attribute/` keys as byte sequences) | `GetPeer`, `UnregisterPeer`, `ListPeerKvs` as operators; `ClientUnregisterPeer`, plus the peers' `PeerPublish` and `PeerLeaseExpire` (spec 4.2) |
| `SessionForwarder` | session.go | the stream table (`streams`), `session.stream` (`sessStream`), U's and C's program counters, `pending`, the frames delivered to halls, hall up/down, `peerChoice` (the halls `SelectPeer` may return now; empty is nil), `gatewayDone` | one action per step of U, C and W, plus client, hall, pool (`PoolChange`) and gateway actions |

`PlayerRegistry` and `ServiceRegistry` also define the lookups `WhereIsUser` and `WhereIsService` as operators.

Each registry instantiates `UserLock` with a refinement mapping (`Abs`, `ServiceLock`). The run checks the abstract `Spec` as a PROPERTY.

A step in which the code changes state between two synchronisation points is one action. A txn commit and the later sync.Map store are separate actions, because the watch goroutine and other callers run in between. A trailing store or delete that is part of one critical section stays inside the action.

## Runs

| Run | Expect | What it shows |
|---|---|---|
| `player_lock` | pass | The keys stay together; no user is on two peers' committed locks; it refines `UserLock` (2 peers, 2 users, revisions ≤ 6, symmetry on peers). |
| `player_relock_lost` | violation | A late `localPlayers.Delete` (player.go:298) wipes a re-lock. The etcd keys then stay forever. |
| `session_forwarding` | pass | FIFO conservation of client frames across two hall crashes with lossy sends. A suspended client is resumed once `SelectPeer` keeps returning a healthy hall. A hall that is merely up is not enough, as `upstream_stale_address` shows. |
| `session_nil_stream_panic` | violation | The race on `session.stream` makes Send run on nil. The recovered panic cancels the session during a failover. |
| `session_leak` | violation | A session cancelled during reselection (the client hangs up or is kicked, or C's recovered panic cancels it) connects again and never ends. A gateway stop does not leak, because it also cancels every upstream context. |
| `service_lock` | pass | Service keys stay paired; it refines `UserLock` as a name lock. |
| `service_stop_leak` | violation | A late DELETE of an old incarnation drops a live registration from `selfServices`, so stop leaves the key behind. |
| `trie_sequential` | pass | One caller: the contents equal the added paths and emptied nodes are pruned. `search` never returns a deleted path or one outside the prefix, in any state and for every prefix form `strings.Split` gives (`""`, `"/"`, `"a"`, `"a/"`, `"/a"`, `"a/x"`, `"b"`). Its completeness fails; see the divergences. |
| `trie_header_race` | violation | Two callers: delete removes a header outside `trie.mu`, and a concurrent add is lost. |
| `upstream_pool` | pass | Two halls crash, restart on another address or with a newer build, and are added, updated and deleted. Every agent cancelled by a peer delete leaves `serve`, whichever loop it is in. No `serve` goroutine outlives the map's reference to its agent. The registry's adds and deletes alternate, as spec 4.2 promises (`MaxDupAdds = 0`). |
| `container_lifecycle` | pass | `MCGameApp`: the application shell drives the hall instance, and any thread may start and stop a second one. A successful `StopService` ends its worker (`Serve` returns, `OnStop` runs). `Stop` returns. Cancelling the parent context ends every worker, one launched after the cancel included, and the container's `Serve` returns. The hall ends after `OnFrameworkStop` even though the hook drops `StopService`'s error. `TypeOK` also checks that `Stop`'s Range never meets an entry whose `cancelFunc` is unassigned. |
| `upstream_stale_address` | violation | A hall that restarts on another address under the same registration is never selected again. `serve` dials the address it captured, and `OnPeerUpdate` only sets the `Address` field. |

Each passing property has a mutant in `PROJECT.json`: a plausible bug in the mapped code that TLC must catch.

## Bounds

Revisions are capped by `MaxRev = 6`. That leaves room for:

- a lock, an unlock and a re-lock on another peer;
- a stop or crash with cleanup.

Every counterexample found needs five revisions or fewer.

For the violation runs:

- Two peers with one user or service are enough. The races involve one key and two actors.
- The session runs use two halls, up to three client frames and up to two hall crashes. That is enough for a failover during a drain and a second one during reselection.
- The trie uses four paths that share a header and a prefix. It enumerates every way to write a prefix: leading, trailing and doubled separators.
- The upstream runs use two halls, two addresses, two build times, player counts 0..1, at most two agents and one hall restart. That allows the following, which is what the selection policy and the address capture need:
  - a delete followed by a re-add of the same peer (two agents for one id);
  - a restart on a new address or with a newer build;
  - two live agents that differ in build or load.

  Every hall starts on the same address. Addresses are interchangeable, so this loses no case.

  The duplicate-add cfg for `SelectMatchesPolicy` needs four agents. One hall needs a delete and re-add to pick up a newer build, the other needs its own agent, and the duplicate add makes a fourth.
- The container run uses the hall and one other instance; the other may be started twice. The second call meets the stored entry ("already start"), and the two instances let one be mid-start while the other is stopped or serving. 8,820 states.
- The registry client cfgs use the peers `hall_1` and `hall_10` with the attributes `grpc` and `version`. These are the smallest full names where one is a byte prefix of the other.

## Fairness

- **SessionForwarder:** weak fairness on each of U, C and W and on the end of `serve`. These are goroutines that the Go scheduler runs, and U's retry is a 1 s timer. The client, the halls, the pool and the gateway are owed nothing. `SuspendEnds` takes as its premise that `SelectPeer` eventually keeps returning a healthy hall (`<>[]PeerSelectable`). The code does not promise this: `SelectPeer` has no fallback, and `upstream_stale_address` shows a hall that is up but never selectable.
- **UpstreamPool:** weak fairness on each agent's `serve` steps. Its goroutines are scheduled, and the gate-stream retry runs on a 1 s ticker. The halls and the peer registry are owed nothing. `SelectEventuallySucceeds` assumes, as its premise, that the registered halls eventually stay up.
- **ServiceContainer:** weak fairness on each in-progress `StartService` call, on each worker goroutine, on `Stop` once begun and on the container's `Serve`. Starting calls, `StopService`, beginning `Stop` and cancelling the parent context are the callers' choice and owed nothing. In `GameApp` the application thread also returns from `StartService` once the call has ended (weak fairness); when the framework calls a hook is its own choice.
- **The registries:** checked only for safety and refinement.
- **`CHECK_DEADLOCK FALSE`:** used only where the system really stops. A session ends, and the trie runs have a bounded number of calls.

## Not modelled

- **Inside the upstream pool:**
  - `NewClientStream` and `String`.
  - The dial-failure branch: `grpc.Dial` without `WithBlock` fails only on a malformed target.
  - The session model abstracts the pool to `SelectPeer`'s current answer (`peerChoice`), which the environment changes. Composing the two modules would multiply two state spaces that already take 20 to 50 s each.
- **`ServiceContainer` callers out of order.** The model lets `Stop` begin only when no `StartService` is in progress and makes none after it, the order of an application's start and stop phases. A `Stop` racing `StartService` (a nil `cancelFunc` call at line 94, or a worker launched after Range that `Wait` never sees cancelled) is not run. A handler's `Serve` returning on its own, with an error, is not modelled: nothing in the container reacts to it (`errCtx` is unused).
- **Registry client error paths.** `GetPeer` returns nil when `ParseAppFullName` (not in this repository) or the etcd read fails; these paths are left out.
- **The application shell's delegations.** `GetConfig`, `SessionCount`, `Push` and `MustPush` only call the hall service, which is not in this repository.
- **The peer registry**, whose code is not in this repository.
- **Admin, logging, JSON, platform SDK and code generators.** These are I/O or build-time text processing.
- **Handler callbacks.** They are not modelled beyond the `notified` counter.

## Divergences without a run of their own

There is a cap of twelve runs, so these disagreements found while modelling are recorded here rather than checked by a violation run. Each has a cfg; the command given reproduces its trace.

- **Two peers briefly hold one user** (player.go:298). `UnlockLocalUser` deletes its `localPlayers` entry after its txn. In between, another peer can lock and store the same user, so two peers briefly both report it as local. Spec §2 says at most one does. The same late delete is checked by `player_relock_lost`.
- **Pending frames wait for the next client frame** (session.go:164). Frames queued while a client is suspended, the login frame included, are drained only after `client.Recv` returns another frame, not on reconnect as spec 4.6 says. `tlc -config MCSessionForwarder_ReceivedEventuallyDelivered.cfg MCSessionForwarder` finds `ReceivedEventuallyDelivered` violated; it was a run of its own until the container took its place.
- **A user locked from two application types loses its `/user` key** (player.go:242, 285). The lock txn guards `/peer_type/user/<type>/<uid>` but also puts the global `/user/<uid>`, and a put keeps an existing key's CreateRevision. A hall peer locks u at revision 2; a world peer locks u, so `/user/u` names it with CreateRevision still 2; the hall peer's unlock passes its CreateRevision guard and deletes `/user/u`. `WhereIsUser` then reports the world peer's user as not found. `tlc -config MCPlayerRegistry_UserKeyNamesHolder.cfg MCPlayerRegistry` finds `UserKeyNamesHolder` violated.
- **A late lock store makes `WhereIsUser` answer for a user nobody holds** (player.go:256). The trace:
  1. p1's `LockLocalUser` commits.
  2. p1's watch stores u1.
  3. Another goroutine of p1 unlocks u1: the txn, then the delete.
  4. The watch applies the DELETE.
  5. The locking goroutine's `localPlayers.Store` finally runs and puts u1 back.

  p1 then answers `WhereIsUser(u1)` with itself, although etcd has no owner. `tlc -config MCPlayerRegistry_WhereIsUserAgrees.cfg MCPlayerRegistry` finds `WhereIsUserAgrees` violated.
- **A late service store leaves `WhereIsService` wrong for good** (service.go:564). The trace:
  1. p1 registers s1.
  2. p1 unregisters s1 before its `RegisterService` has stored the name locally.
  3. The watch applies the PUT and the DELETE.
  4. The late `LoadOrStore` puts s1 back.

  `onKvAdd` ignores a name already present, so a later owner's PUT never corrects p1's mirror. `tlc -config MCServiceRegistry_WhereIsServiceAgrees.cfg MCServiceRegistry` finds `WhereIsServiceAgrees` violated.
- **The registry client's prefix reads cross peers** (registryclient/peer.go:34-36, 59-61). `GetPeer` and `UnregisterPeer` use `/peer/attribute/<full_name>` with `WithPrefix()` and no trailing `/`, so `hall_1` also matches `hall_10`'s keys:
  - `GetPeer(hall_1)` returns `hall_10`'s address (its key sorts last): `MCRegistryClient_GetPeerAddressOwn.cfg` finds `GetPeerAddressOwn` violated.
  - `UnregisterPeer(hall_1)` deletes `hall_10`'s attributes: `MCRegistryClient_UnregisterPeerOwnKeys.cfg` finds `UnregisterPeerOwnKeys` violated.
  - `GetPeer` also fills `FullName` with the caller's own `r.appFullName` (line 43): `MCRegistryClient_GetPeerNamesPeer.cfg` finds `GetPeerNamesPeer` violated in the initial state.

  Run each with `tlc -config <cfg> MCRegistryClient`.
- **`search` misses live paths** (service.go:126-129, 230-232). Spec 4.1 and 8 say `search(p)` returns every added path that begins with `p`, with `p` itself included, and that an empty prefix enumerates all. The code differs in two ways:
  - `search("")` returns nothing.
  - `header.search` collects the children of the node it reaches, never the node itself, so after `add("b")` the call `search("b")` returns nothing.

  `tlc -config MCWordTrie_SearchComplete.cfg MCWordTrie` finds `SearchComplete` violated after one add.
- **A duplicate `OnPeerAdd` leaks an agent and can hide a healthy hall** (upstream.go:98-101). Spec 4.2 promises that the registry never delivers a duplicate add. If one comes anyway, `LoadOrStore`'s loaded branch closes the mapped agent but keeps it in the map. It then starts `serve` for the new agent, which is never stored and so can never be closed.
  - `tlc -config MCUpstreamPool_UnpooledAgentExits.cfg MCUpstreamPool` (`MaxDupAdds = 1`) finds `UnpooledAgentExits` violated.
  - While the closed agent still holds its client, `SelectPeer`'s first pass counts its build time and its second pass skips it. `SelectPeer` then returns nil although an older-build hall is healthy. `tlc -config MCUpstreamPool_SelectMatchesPolicy.cfg MCUpstreamPool` (four agents) finds `SelectMatchesPolicy` violated.

## Further work

1. Compose `UpstreamPool` with `SessionForwarder` in place of `peerChoice`, so that a session's reselection uses `SelectPeer`.
2. A `ServiceContainer` run with `Stop` racing `StartService` (nil `cancelFunc`, `Wait` missing a late worker), if a run slot frees up.
3. Duplicate-notification checks: `notified` ≤ 1 for services, and a counter for players.
4. Runs for the divergences above, if the run cap is raised.
5. A liveness run with a crashed peer that never restarts (no leases).
