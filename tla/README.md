# A TLA+ model of Kopilot

Kopilot tunnels Kubernetes API requests from a host cluster to member clusters.
An *agent* in the member cluster opens a WebSocket to a *hub* in the host
cluster; the connection is multiplexed with yamux and the hub opens one stream
on it per proxied request. The host cluster runs several hub replicas and the
member several agent replicas (two of each in the manifests), and a hub without
a session of the member forwards the request to its peers.

This directory holds the specifications, their TLC configurations and the
TLAPS proofs. Line numbers refer to the repository; `PROJECT.json` maps every
definition to the lines it models.

## Inventory

| Part | Source | State | Operations | Talks to |
|---|---|---|---|---|
| session manager | `pkg/hub/cluster/session_manager.go` | `sessionLists`, one mutex | `AddClusterSession`, `DialCluster` | yamux sessions; called by connect handlers and by the transports of requests |
| proxy handler | `pkg/hub/cluster/subresources.go` 140-203 | one goroutine per request, its body, the walk `peers`, `idx` | lookup of the Cluster, dial, round trip, `ErrorHandler` | host API server, session manager, peer manager |
| peer server and manager | `pkg/hub/peer/server.go` | none of its own | peer handler, `ListPeers`, `TryNextPeer` | Endpoints object, other hubs, session manager |
| connect subresource | `subresources.go` 94-138 | none | lookup, token check, upgrade, `AddClusterSession` | host API server, agent, session manager |
| agent subresource | `subresources.go` 55-92 | none | lookup, token check, manifest | host API server, user |
| agent | `cmd/kopilot-agent/main.go` | one session, one server | connect, accept and proxy, shutdown; any error is fatal and the kubelet restarts it | hub, member's kube-apiserver |
| webhooks | `pkg/webhook/cluster` | none | `Mutator.Handle` (fills in a token), `Validator.Handle` (requires one) | host API server |
| hub process | `cmd/kopilot-hub/main.go` | two servers | start, drain on a signal, exit on the second | all of the above |
| informer factory | `pkg/client/informers/externalversions/factory.go` | `informers`, `startedInformers`, one mutex | `InformerFor`, `Start`, `WaitForCacheSync` | informers of client-go |
| typed client, informer, lister, deep copies | `pkg/client` (`typed`, `informers`, `listers`), `zz_generated.deepcopy.go` | the informer's cache | the calls of `ClusterInterface`; `List` and `Get` on the cache; `DeepCopy` | host API server |
| clientset construction | `pkg/client/clientset/versioned/clientset.go`, `kopilot_client.go` | none | `NewForConfig`, `NewForConfigOrDie` | `rest`, discovery client |
| fake clientset | `pkg/client/clientset/versioned/fake`, `typed/.../fake` | object tracker, open watches | the same calls | tests, informers over it |

The clients under `pkg/client` are generated. The hub itself uses `NewForConfig`
and `Get`; the rest is the library that the repository offers to other programs
and to tests.

What is hard here: the goroutines of a hub share the session lists; `Open` is
called with the mutex held; sessions end at any time and are noticed late; a
request is repeated by code that cannot know how far it got; hubs crash between
the steps of a request that two of them serve; the list of peers is stale. What
makes the parts correct:

* session manager: an open session is never lost, doubled or used for another
  cluster; a dial fails only if there is no open session; every call returns;
* request routing: a request ends; it is not repeated without cause, and one
  with a body never; no hub serves it twice; answers are true; 502 is justified;
* registry: only holders of a token that was current during the connect call get
  a session; a stored token is never empty; a revoked token stays revoked; an
  agent with the current token gets connected, and again after every failure;
* peer routing: a walk reaches every other ready hub, at its peer port, with the
  path that the client asked for;
* hub life cycle: one signal drains both servers and then ends the process;
* streams: a request reaches its own cluster only, and only while its Cluster
  object exists;
* agent: it ends whenever it has no session or was told to, and leaves no
  request waiting;
* clients: informers are shared and run once; a cache is a state of the server
  and catches up; no accepted update is lost; what a test may rely on when it
  puts an informer over the fake client.

`PROJECT.json` lists the hazards at the lines where they bite, with the
properties that cover them.

## Modules

### `SessionPool` and `SessionManager`

`SessionPool` states what the `SessionManager` interface promises: per cluster
a set of sessions; filing a session, a successful dial, a failed dial and the
eviction of a session are one step each, and a failed dial needs an empty pool.

`SessionManager` is the code. `sessionLists` and `mutex` are the fields of the
struct. Each goroutine (`Threads`) has a program counter `pc` and the locals
`key`, `arg` (the session argument of an add), `ss`, `idx` and the result `ret`.

| Action | Code |
|---|---|
| `AddClusterSession` | the connect handler's call with a new session (`subresources.go` 128-134) |
| `AppendSession` | lines 47-56: lock, append, unlock; one step, since nothing in it blocks or is seen from outside |
| `DialCluster`, `DialLock` | the transport's call, then lines 60-64 |
| `NoSessionFound` | lines 66-68 |
| `PickSession` | line 70, `rand.Intn` as a choice |
| `OpenOK`, `OpenError` | line 72; enabled when `Open` does not wait |
| `DropSession` | lines 75-77: close, cut, store |
| `AgentAccept`, `SessionEnd` | the agent's accept loop; the end of a session for any reason |

A missing key and an empty list coincide, as they do for the code. yamux is
external: a session is new, open or closed; `Open` fails on a closed session,
may fail on an open one, and waits while `AcceptBacklog` streams are not yet
accepted. `owner` is history: the key a session was filed under.

### `HubProxy`

The way of requests for one member cluster through all the hubs. A hub's
sessions are the pool of `SessionPool` for one key. For each request, `front` is
the hub the client reached, `hop` the hub whose proxy handler works on it,
`peers` and `idx` the closure of `nextPeer`, `via` the session that carries it,
`body` whether there is a body and whether a round trip has already read or
closed it, `ans` the answer. `pc` runs through

    get -> dial -> sent -> executed -> done
            |       |         |
            +-------+---------+--> error (front)  -> next -> get (on a peer)
                               \-> next (from a peer that answers 502)

| Action | Code |
|---|---|
| `Arrive`, `GetCluster` | `NewProxySubresource`, `NewProxyHandler` up to line 164; on a peer, the handler of `StartServer` |
| `DialEvict`, `OpenStream`, `NoSession` | the transport's `Dial`, that is `DialCluster` |
| `StreamError`, `AbortResponse` | an error of the round trip before the response has begun, or of the copy after |
| `ErrorHandler` | lines 183-199 with `ListPeers`, or its error |
| `TryNextPeer` | `server.go` 141-181: no more peers, no certificate, a body that is gone, a peer that is gone, or a peer that takes over |
| `Execute`, `Respond`, `MemberBadGateway`, `AgentBadGateway` | the agent's reverse proxy and the member's kube-apiserver, which may answer 502 itself |
| `LateExecute` | a copy the hubs have given up reaches the member after all |
| `Connect`, `SessionBreak`, `SessionDetect` | a session is filed, breaks, is noticed to be broken |
| `HubCrash`, `HubStart`, `EndpointsSync`, `ClusterChange`, `ClientCancel` | the rest of the world |

A peer has no peer manager, so its failing round trip is a 502, and
`PassedOver` is the test of `ModifyResponse`. From `net/http` (Go 1.16) the
model takes that `RoundTrip` closes the request's body whatever happens, a
failed dial included, that a request whose body is closed cannot be sent again,
and that a transport which has opened its connection for this request does not
retry by itself. When such a sending is attempted the peer may see the header;
the member does not execute a request whose body is cut short, so the model lets
it fail at the front. The addresses of a list come in any order.

Status codes: 404 and 500 are those of the hubs, and "ok" is any answer of the
member's kube-apiserver other than a 502. A 502 is a hub's, the agent's
(`AgentBadGateway`: its round trip to kube-apiserver failed) or kube-apiserver's own
(`MemberBadGateway`: the backend of a service, pod or node proxy or an aggregated API
fails); `ModifyResponse` of `TryNextPeer` sees the number only and passes over any
of them that comes by a peer. "lost" is no answer: the front crashed, the client
left or the response was aborted, also by a crash of the peer that was passing it
on.

`execs`, `late`, `cuts`, `own502`, `stopped`, `tried` and `steady` are history;
`own502` counts the executions that the member itself answered with 502.

### `PeerRouting`

The data that `HubProxy` abstracts from: `ListPeers` on the Endpoints object
(`OtherAddresses`, `PortOf`) and the path of the request at each turn of a walk
(`JoinPath` of the target's prefix in `TryNextPeer`, `TrimPrefix` in the peer's
handler and, as `RestorePath`, in the front's error handler). Init ranges over
all Endpoints that the endpoints controller writes for the hub Service, whose
target ports are numbers (`deploy.yaml` 127-133), so that all pods have the same
ports: at most one subset, with both ports, its addresses and ports in any
order. That `ListPeers` looks at the first subset only, and its error for a
subset without ports, which the model has, are therefore never met. Paths are
sequences of segments; they are clean (no empty segment inside), since the
router of a peer redirects other ones.

### `Registry`

One Cluster object with its token. `Admit` is Mutator then Validator; a write is
`CreateCluster` or `UpdateCluster` with or without a token, and a webhook that is
down rejects it, which changes nothing; the operations and the failure policy
are those of `config/kopilot-webhook/manifests.yaml`. A user reads the token, fetches the
manifest (`AgentSubresource`) and applies it; `RollAgent` replaces a pod. An
agent starts with the token of its `-connect` argument, exits on any error and is
started again with the same one. Its connect call at the hub has separate steps:
`ConnectCheck` (Get and comparison: what is compared is what was read, so they
are one step), `ConnectUpgrade`, `AddClusterSession`. A call whose agent exits is
forgotten; the code would file a session that is already dead, which the session
manager drops. `since`, `gone`, `banned` and `used` are history; `used` also keeps
generated tokens new, which is what a UUID is taken to be.

### `HubLifecycle`

The end of a hub: `Signal` is the goroutine of `main.go` 68-73; `ShutdownBegins`,
`ServerClosed`, `ShutdownEnds` and `StartServerReturns` are the two goroutines of
`StartServer`; `ServerFails` is either `log.Fatalf`; `MainReturns` is `g.Wait()`.
The subresource server is a library; it is taken to drain in the same way.
Connections that a handler has taken over (agents' sessions, exec and
port-forward streams) are unknown to `Shutdown` and end with the process.

### `ProxyStreams`

Requests for several clusters on one hub, composed with the session manager as
`SessionPool` promises it (`Manager == INSTANCE SessionPool`, whose threads are
the handlers of requests and of connect calls): `GetCluster` is the lookup of
`subresources.go` 157-164, which may fail, and the start of the round trip, which
dials (`Manager!CallDial`) unless the transport has an idle stream; `DialOK`,
`DialFail` and `DialEvict` are steps of the pool; `Respond` leaves an idle stream
behind; `CreateCluster` and `DeleteCluster` leave the sessions alone. `Transport`
is who owns the transport: the request. It is what keeps apart the streams of
different clusters, since the address is 127.0.0.1 for all of them. The price is
that no stream is ever used again and that none is closed before its session
ends: neither transport nor agent has an idle timeout. `owner` and `seen` are
history.

### `AgentLifecycle`

One process of the agent. `main` runs through `Dial`, `ReadToken`,
`StartSignalHandler`, `Serve`, and ends by `SetupFails`, `AcceptError` and
`Fatal`; `sigs` is the goroutine of lines 99-109: `Notify`, `TakeSignal`,
`Shutdown`, `ShutdownReturns`. The session is the listener, so Shutdown closes it
and with it the streams of all requests; `Serve` then returns an error, and
`log.Fatalf` in line 113 ends the process: the wait in line 116 is never reached.
A signal before `Notify` ends the process by default. `cause` is history.

### `InformerFactory`, `ClusterCache`, `FakeClusters`

`InformerFactory`: goroutines that call `InformerFor` (through `Informer()`,
`Lister()` or `ForResource`), `Start` and `WaitForCacheSync`. Taking the mutex,
what is done under it and its release are separate steps where others can see
the difference. `asked` and `owed` are history: what a goroutine has been given
and has started before it waits.

`ClusterCache`: the server is a log of writes, the index of a write its resource
version; `List` and `Watch` are the typed client's calls with the namespace and
the selector that the informer's factory was made with; the reflector of
client-go lists, watches, loses the watch and lists again. Clients read with
`Get` or from a lister, change a copy (`Modify`), update, create, patch, delete.
An update carries the version that was read; the server refuses any other
(`UpdateError`), and the answer to an accepted one may be lost. `OtherUpdate` is
the accepted update of another program. `acc` is history.

`FakeClusters`: the calls of the fake client on client-go's object tracker
(v0.21), the watch reactor, and an informer. The tracker compares no versions,
has no reaction for the deletion of a collection, and a watch of it begins when
it is opened. `gap` is history: keys last written between list and watch.

How the modules fit together: `ProxyStreams` uses the actions of `SessionPool`;
`AgentLifecycle` is the `AgentExit` of `Registry` and the `SessionBreak` of
`HubProxy` in detail; `SessionManager` implements `SessionPool`, whose
pool of one key is a hub's `pool` in `HubProxy`; `Connect` of `HubProxy` is a
whole connect call of `Registry`; `PeerRouting` refines the data of
`ErrorHandler` and `TryNextPeer` of `HubProxy`; `HubCrash` of `HubProxy` is the
abort of `HubLifecycle`.

## Runs

| Run | Instance | States | Shows |
|---|---|---|---|
| `session_manager` | 2 clusters of one name in 2 namespaces, 2 sessions, 2 goroutines, backlog 1 | 21 000 | `TypeOK`, `NoOrphan`, `ListedOnce`, `DialsOwnCluster`, `FailsOnlyWhenNoneOpen`, `ImplementsPool`, `CallsReturn` |
| `hub_proxy` | 3 hubs, 2 sessions, 1 request, 2 faults | 824 000 (with symmetry) | `TypeOK`, `BodiedAtMostOnce`, `RepeatedOnlyAfterFailure`, `AnswerTruthful`, `EachHubTriedOnce`, `NoNeedless502` |
| `hub_proxy_live` | 3 hubs, 1 session, 1 request, 1 fault | 270 000 | `EveryRequestEnds` |
| `registry` | 1 agent, 3 tokens | 3 900 | `TypeOK`, `AdmittedTokenWasCurrent`, `RevokedStaysRevoked`, `Reconnects`, `StaleAgentsFade` |
| `proxy_streams` | 2 clusters, 3 sessions, 2 requests, 1 connect handler | 28 000 (with symmetry) | `TypeOK`, `ReachesOwnCluster`, `CarriedOnlyWithCluster` |
| `agent_lifecycle` | 2 requests | 700 | `TypeOK`, `CutHasCause`, `EndsForRestart`, `PendingEnds` |
| `informer_factory` | 1 type, 2 goroutines, 2 channels | 67 000 | `Shared`, `RunOnce`, `WaitTellsTruth`, `CallsReturn`, `WaitEnds` |
| `cluster_cache` | 2 namespaces, 1 name, 1 client, 3 writes, every scope | 154 000 | `CacheIsSnapshot`, `NoLostUpdate`, `CacheCatchesUp` |
| `fake_clusters` | 2 namespaces, 1 name, any initial objects, 4 writes | 64 000 | `MissesOnlyTheGap` |
| `hub_lifecycle` | 2 servers, 2 requests on each | 600 | `TypeOK`, `ExitIsDrained`, `SignalEnds` |
| `peer_routing` | 3 hubs, all Endpoints, all clean paths of up to 4 segments | 250 000 | `WalkReachesAllPeers`, `PathPreserved` |
| `hub_proxy_body` | 2 hubs, 1 session, no fault | stops at the counterexample | `AnyRequestIsProxied` is violated |

Why the bounds are enough. Session manager: two goroutines give every conflict
over the mutex (add against dial, dial against dial), two sessions a list with
a first and a last element to cut, two namespaces with one name
the clusters an id could confuse, and backlog 1 makes `Open` wait. The theorems
below remove these bounds. Hub proxy: three hubs are the least for which a walk
has a next peer after a failing one; two sessions put one on each of two hubs
or both on one; requests meet only in the pools, where they evict dead sessions,
which other actions do as well, so one request at a time suffices. `MaxFaults`
bounds crashes, breaks, gateway errors of the agent and evictions of healthy
sessions: two of them cut a request twice or crash a peer behind a cut. A 502 of
the member's own is no fault and is not bounded: each hub meets it once at most.

Registry: three tokens are one that was replaced, the one that replaced it and a
third; agents neither change what others see nor wait for each other, so one is
enough, and the theorems are about any number. The number of tokens bounds how
many the Mutator generates, not how often users write. Peer routing: the prefix
has three segments, so paths of four include one that begins with the prefix.

Streams: two clusters and two requests are what it takes for one to find the
stream of the other, the third session one that is filed while both are busy.
Agent: one request that is answered and one in flight. Informer factory: two
goroutines give every conflict over the mutex and the maps, two channels a start
and a wait with different ones, and Clusters are the one type the program has;
`runs` is counted up to 2, which is enough to see a second run. Cluster cache:
three writes create, change and remove an object, or change one in each
namespace; a create and two updates, the later one based on any earlier state, is
what it takes to lose an update. Of other writers only the accepted updates
matter, since a refused one changes nothing. Fake client: four writes reach one
key before the list, in the gap and twice after it.

`CHECK_DEADLOCK FALSE`: in the hub proxy runs requests are not used again, so
the model stops when all have ended and nothing is left to fail; an agent stops
when its process has ended.

What the results say about the code:

* `NoNeedless502` carries its exceptions with it: an unreachable or crashing
  peer ends the walk (`server.go` 174-176), a cut on the way excuses it, and the
  502 may be the member's own. It holds only for requests without a body.
* A 502 of the member's own kube-apiserver that comes by a peer is taken for that
  of a peer without a session (`server.go` 167-171): the front passes the response
  over and has the request executed again through the next peer, although no round
  trip failed, and the client gets 502 in the end if all answer so. On the front's
  own session it goes straight to the client. `RepeatedOnlyAfterFailure` and
  `AnswerTruthful` count these executions (`own502`) beside the cuts, and they hold
  because there is no third reason to repeat a request; `RepetitionsBounded` limits
  them to one for each hub.
* `hub_proxy_body` shows why: a request with a body can never be forwarded. In
  the counterexample, without any failure, the agent is connected to one of two
  replicas, the request reaches the other one, its dial fails and closes the
  body, and the forwarding ends in 502 although the peer has an open session.
  The changelog promises "Support for multiple hub replicas". With two agent
  replicas both may be connected to the same hub, so this is an ordinary state.
* `BodiedAtMostOnce` is the other side: since they cannot be forwarded,
  requests with a body are never executed twice. Whoever repairs the forwarding
  by buffering the body loses this unless `ErrorHandler` tells a failed dial
  from a failed round trip; the mutant of this property is just that repair.
* Shutting an agent down cuts the requests on it: `CutHasCause` and
  `EndsForRestart` hold because the process ends at once. Whoever makes `main`
  wait for `idleConnsClosed` on every return of `Serve` loses `EndsForRestart`
  for a lost session, where nobody closes that channel; it is the mutant.
* `MissesOnlyTheGap` says nothing of Clusters that the options do not select: the
  watch reactor (`clientset_generated.go` 47-55) looks at no selector, and `List`
  (`fake_cluster.go` 63) at labels only, so a test with a filtering informer over
  the fake client sees Clusters that the real one would not show. A test
  also has to wait until the watch is open before it writes.

### Fairness

`session_manager`: weak fairness of each goroutine's own steps (a goroutine
that can run does), strong fairness of taking the mutex (`sync.Mutex` hands the
lock to a waiter that has starved for 1 ms), and of each session, streams that
wait are accepted or the session ends: the agent's server accepts in a loop, and
yamux's keepalive ends the session of an agent that hangs. Without this last
assumption one agent blocks the dials and connects of all clusters, since
`Open` waits with the mutex held.

`hub_proxy_live`: weak fairness of the handlers of each request, of the member
(which answers what it has received: watches and other endless responses are
left out) and of the detection of broken sessions by the keepalive. Nothing is
assumed of crashes, endpoints, clients or agents that connect.

`registry`: the kubelet starts agents that have exited (weak fairness), and
each step of a connect call succeeds in the end if it is tried again and again
(strong fairness): the host's API, the network and the files may fail any number
of times but not every time. The property is about an agent whose token is and
stays current; nothing is assumed of users.

`StaleAgentsFade` of the same run needs an agent that exits again and again, as
its premise says: as long as an agent with a revoked token does not exit, its
session stays, and the hub never checks the token again.

`agent_lifecycle`: weak fairness of both goroutines and of accepting; nothing is
assumed of the hub, of signals or of kube-apiserver, which may never answer.

`informer_factory`: weak fairness of what a goroutine does without the
mutex or with it, strong fairness of getting it (`sync.Mutex`, as above); nothing
is assumed of informers and of whoever closes the channels.

`cluster_cache`: the reflector lists and watches again for ever; a watch
that breaks again and again still delivers in the end (strong fairness of
`ReflectorEvent`). Writes are bounded, so they end by themselves.

`hub_lifecycle`: weak fairness of the goroutines, and requests end. A watch that
is open when the signal comes does not end by itself; such a hub ends by the
second signal or by being killed.

## Proofs

`SessionManagerProofs` proves of `SessionManager`, for arbitrary sets of
namespaces, names, sessions and goroutines and any positive backlog:

| Theorem | Statement |
|---|---|
| `TypeCorrect` | `Spec => []TypeOK` |
| `NoSessionOrphaned` | `Spec => []NoOrphan` |
| `SessionsListedOnce` | `Spec => []ListedOnce` |
| `DialsReachOwnCluster` | `Spec => DialsOwnCluster` |
| `DialFailsOnlyWhenNoneOpen` | `Spec => FailsOnlyWhenNoneOpen` |
| `ManagerImplementsPool` | `Spec => ImplementsPool` |
| `DialLoopEnds` | `Spec => [](LockInv /\ LoopIsMeasured) /\ LoopShrinks` |

Assumptions: `ConstantsAssumption` (a positive backlog; `None` and `DialError`
are no threads or sessions) and `NoneIsNoKey`.

None of the invariants is inductive by itself. `IInv` adds: exactly the
goroutine inside the critical section holds the mutex (`LockInv`); its local
`ss` is the list in the map and `idx` lies within it (`LocalsInv`), without
which line 77 could overwrite a session that was appended in between; a session
on its way into a list is in no list and in one goroutine's hands (`AddInv`);
what is listed was filed under that id, once (`FiledInv`). There is one lemma
per action; `CutProperties` and `CutSet` say what line 76 does to a list
without repetitions. The action properties follow from `IInv` and the one
action that can change `ret` in that way. For the refinement, each list maps to
its set of elements: taking the lock, drawing an index and a failing `Open` are
invisible, dropping a session is `Evict`, the returns are `DialOK` and
`DialFail`. `DialLoopEnds` is the safety half of `CallsReturn`: `LoopLeft` counts
three steps for each session still in the thread's `ss` and the return; each step
of the thread in the loop lowers it, no other step touches it, and the mutex is
held in the loop only.

`RegistryProofs` proves, for any number of agents and tokens, `TypeCorrect`,
`AdmittedWithCurrentToken` (`Spec => []AdmittedTokenWasCurrent`) and
`RevocationLasts` (`Spec => []RevokedStaysRevoked`) from `RegistryAssumption`.
The inductive invariant adds `SinceInv` (a call under way has seen the token that
is stored now) and `GoneInv` (the stored token is not gone, what is gone has been
used, so that a new UUID is not one of it, and what a call is banned for is still
gone).

`HubLifecycleProofs` proves, for any set of servers and any number of requests,
`TypeCorrect` and `DrainedBeforeExit` (`Spec => []ExitIsDrained`) from
`LifecycleAssumption`; `DrainInv` adds that a server returns only after its
Shutdown, and Shutdown only when the server is idle. `DrainShrinks`
(`Spec => []LeftMeasures /\ EndComesNearer`) adds what is left to do for each
server: it never grows, shrinks with each step that the server makes, and is
nothing exactly when its `StartServer` has returned (the safety half of
`SignalEnds`).

`AgentLifecycleProofs` proves, for any number of requests and without any
assumption, `TypeCorrect`, `RequestsCutForACause` (`Spec => []CutHasCause`) and
`SignalNotLost` (`Spec => []SignalOnItsWay`).
`UntouchedInv` adds what the agent looks like before anything has happened to it:
neither goroutine of `main` has returned or called `Shutdown`, and the session
stands. `WayInv` follows a signal from the channel over the goroutine that takes it
to `Shutdown`, which closes the session under `Serve`, also when `Shutdown` comes
before `Serve`: until the process ends the signal is somewhere on that way (the
safety half of `EndsForRestart`).

`ProxyStreamsProofs` proves, for any clusters, sessions and requests, from
`StreamsAssumption`:

| Theorem | Statement |
|---|---|
| `TypeCorrect` | `Spec => []TypeOK` |
| `RequestsReachOwnCluster` | `Spec => [](ReachesOwnCluster /\ StreamsNotReused)` |
| `RequestsCarriedOnlyWithCluster` | `Spec => []CarriedOnlyWithCluster` |
| `HandlersUsePool` | `Spec => Manager!Spec` |

The invariant adds that what is filed, or about to be, under a key was connected
for it (`OwnerInv`); that a request dials its own cluster (`DialInv`); that a
transport has idle streams only once its request is done (`StreamInv`), so that no
request ever takes over a stream that another one has left idle, which is the reason
why it stays in its own cluster (`StreamsNotReused`); and which requests have seen their Cluster
(`SeenInv`). `HandlersUsePool` shows that the handlers change the pool by the calls
of `SessionPool` only, and `ManagerImplementsPool` that the session manager
behaves like it, which is the reason to prove what streams do over the abstract
pool (that the two theorems compose is not itself stated as one).

`InformerFactoryProofs` proves, for any number of goroutines, types and
channels, from `FactoryAssumption`: `InformersShared` (`Spec => []Shared`),
`InformersRunOnce` (`Spec => []RunOnce`) and `WaitsTellTheTruth`
(`Spec => []WaitTellsTruth`). The invariant says who is inside the mutex, and that
there is no informer of a type while a goroutine is making one (`LockInv`); that
`startedInformers` tells whether `Run` was called (`StartedInv`); that what a
goroutine asked `Start` for is in the copy that its wait goes through (`OwedInv`);
and that results are true when they are written and stay so (`ResultInv`).
`FactoryLoopsEnd` (`Spec => []MutexHeld /\ LoopsGoOn`) is the safety half of
`CallsReturn` and `WaitEnds`: what `Start` has still to start only shrinks, by its own
steps, the answer of a wait for an informer goes from none over a poll to a
result and never back, and no waiter holds the mutex.

`HubProxyProofs` proves, for any finite set of hubs and any sessions, requests
and number of faults, from `HubProxyAssumption` (the hubs are finitely many, as
replicas are, so that their Endpoints can be listed; `None` is none of the values
it stands beside):

| Theorem | Statement |
|---|---|
| `TypeCorrect` | `Spec => []TypeOK` |
| `HubsTriedOnce` | `Spec => []EachHubTriedOnce` |
| `BodiedExecutedOnce` | `Spec => []BodiedAtMostOnce` |
| `RepeatsOnlyFailures` | `Spec => []RepeatedOnlyAfterFailure` |
| `AnswersTruthful` | `Spec => []AnswerTruthful` |
| `RefusedOnlyWithoutSession` | `Spec => []NoNeedless502` |
| `RequestsAdvance` | `Spec => []RankIsBound /\ NeverBack` |
| `RepetitionsBounded` | `Spec => []CopiesWithinHubs` |

The invariant has two layers. `WalkInv` is about one request at a time and does
not look at the pools: where the request is and what `hop`, `peers` and `idx` are
there (`PhaseInv`); the list names no hub twice and not the front (`ListInv`, from
what `SetToSeqs` returns for a finite set, `ListingProperties`); dials were made on
the front and on the peers up to `idx` only, and none yet on the hub that is about
to dial (`TriedInv`); how many copies there are at each point, by the round trips
that were cut and the 502s of the member's own, and that a request with a body never
leaves the front (`CopyInv`); and that the answer is true
(`TruthInv`). The first five theorems follow from it. For the sixth, `IInv` adds
that a session is in one pool at most (`PoolInv`), and that the sessions that have
been usable ever since the request came are not on a hub that has turned it away,
as long as no round trip was cut and the member has not answered 502 itself
(`Unharmed`), and are all on the front or on a listed peer once the
peers are listed (`SteadyInv`): so when the walk ends there are none. A crash in
the middle of the walk, endpoints that lag and sessions that come and go are all
in these proofs; `RefusedInv` is `NoNeedless502` of one request.

`RequestsAdvance` is the safety half of `EveryRequestEnds`. `Rank` is what a request
has still before it, five stages for each hub that it has not been on: it is at most
`5 * Cardinality(Hubs) + 2` (`PeersFewer`: a list that names no hub twice and not the
front is shorter than there are hubs), it is 0 exactly when the request is done,
each move of the request (`OnItsWay`) lowers it and no step of the environment
raises it. `RepetitionsBounded` says that the copies of a request that the member
has executed or may still execute are at most as many as there are hubs:
there are none before the first dial, and each peer that the walk turns to can add
one (`CopiesInv`).

The same module proves `EveryPeerSeesThePath` (`Routing!Spec => []Routing!PathPreserved`)
about `PeerRouting`, instantiated with variables of its own (`Routing`), for any
hubs and paths of any length: `JoinThenTrim` says that taking the prefix off undoes
putting it on, up to the slash that an empty path gets, whatever the path begins
with; `PathInv` that the request has the client's path under the prefix while a
peer has it, and without it in between.

`WalkReachesAll` (`Routing!Spec => []Routing!WalkReachesAllPeers`) is about the listing
itself, for Endpoints objects of any length. `ListPeers` names the peer port by the
loop of `server.go:123-129` and drops the front by that of `server.go:131-137`,
which `OtherAddresses` writes as a function on the numbers of the addresses.
`LoopRuns` shows that this function is defined for each number, `TurnKeeps` and
`OtherAddressesProperties` what is kept after each turn, from the well-foundedness
of `<` that the library proves; `HubListing` draws from it that the list has the peer
port of each ready hub but the front once. `ReachedInv` then says that the walk has
turned to the first `idx` of that list, in order. (That is induction over the numbers
for a fixed formula, which the provers can do; what they cannot take is an operator as
parameter.)

`ClientProofs` proves, for any namespaces, names, clients and number of
writes and for informers of every scope: `CacheAlwaysSnapshot`
(`Spec => []CacheIsSnapshot`) and `UpdatesNotLost` (`Spec => []NoLostUpdate`).
`HandInv` adds that what a client has in hand is a version that the server has
stored, changed once if it is dirty, so that an update that the server accepts
counts exactly one change more. The lemmas about `LastOf` say what the last
version of an object up to some write is and what one more write does to it; that
there is a last one rests on the library's theorem that `<` is well-founded on the
naturals. The proof uses nothing about the constants.

It also proves `FakeMissesOnlyTheGap` (`Fake!Spec => []Fake!MissesOnlyTheGap`) about
`FakeClusters`, instantiated as `Fake`, for any namespaces, names and number of
writes. The invariant says that only an open watch has events, of keys in its
namespace (`QueueInv`); that the last event of a key in the queue has the tracker's
object (`LastEventInv`); and that from the list on the cache shows every key that has
no event in the queue (`Shows`), so that taking the last event of a key brings its
cache up to date.

Each inductive invariant was checked with TLC on the instance of its run before it
was proved.

Only model-checked: the liveness properties (`CallsReturn`, `EveryRequestEnds`,
`Reconnects`, `StaleAgentsFade`, `SignalEnds`, `EndsForRestart`, `PendingEnds`,
`WaitEnds`, `CacheCatchesUp`), since fairness and ENABLED are out of the prover's
reach. Where they rest on a loop or on a signal, the theorems above that are called a
safety half prove for all values of the constants what is left when fairness is taken
away: the measure that no step raises, or that nothing gets lost. That the steps are
then taken is what TLC checks.

## Not modelled, and what the plan has left

The plan began with the session manager (the only shared state of a hub), went on
to the walk of a request, and then to the parts around them; the proofs followed
in the same order.

All components that keep state are modelled, and every safety invariant and every
action property of the passing runs is proved, as is the refinement of `SessionPool`.

Left out for good: TLS, authentication of peers and RBAC (configuration of
libraries), flags, logging, the wording of errors, the template of the agent
manifest beyond its token, registration of schemes, the empty expansion files
and package comments of the generated code, the constructors of the clients
(which copy a config and fill in defaults; `NewForConfigOrDie` of `clientset.go`
leaves out the check of QPS and Burst that `NewForConfig` makes), resync periods (an informer that
hands out again what it has), and a bound on the idle streams of a session,
which the code does not have and the repository does not promise.
