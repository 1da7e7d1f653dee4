# TLA+ models of the Linode cloud controller's load-balancer provider

This directory holds TLA+ models of `src/cloud/linode/loadbalancers.go`, the
`cloudprovider.LoadBalancer` implementation of the Linode cloud controller
manager. It also holds the TLC configurations that check them. Every
definition is translated from that file. `PROJECT.json` maps each definition
to the lines it models.

## The system

| Part | Code | What it does |
|---|---|---|
| Service controller (caller) | Kubernetes, outside this repo | It keeps a work queue of keys. A Service add, edit or delete, and the controller's start, queue the Service's key. A Node change, and the start, queue the node-sync key. For a queued key it calls `EnsureLoadBalancer`, or `EnsureLoadBalancerDeleted` once the Service is being deleted. For the node-sync key it calls `UpdateLoadBalancer`. A verb that returns an error is called again with backoff. A verb that succeeds is not called again until the next event (spec §1: "repeatedly until they stop returning errors"). Spec §5 makes the caller serialise the work of one Service. |
| Reconciler | `GetLoadBalancer` 74-93, `EnsureLoadBalancer` 99-132, `UpdateLoadBalancer` 135-212, `deleteUnusedConfigs` 216-231, `EnsureLoadBalancerDeleted` 238-253, `lbByName` 256-271, `createNodeBalancer` 273-284, `buildLoadBalancerRequest` 374-396 | It finds the NodeBalancer labelled with the Service's name and creates it if missing. Otherwise it updates the throttle, deletes configs for removed ports, and rebuilds or creates a config per Service port with every Node as a backend. It deletes the NodeBalancer on Service deletion. |
| Annotation translator | `buildNodeBalancerConfig` 286-357, `getPortConfig` 423-450, `getPortConfigAnnotation` 472-487, `getHealthCheckType` 452-461, `getConnectionThrottle` 518-536, `getNodeInternalIp` 489-496 | This is pure code. It turns Service annotations into a NodeBalancer config request and a throttle. |
| TLS material | `addSSLCert` 359-370, `getTLSCertInfo` 498-516, `retrieveKubeClient` 407-421, `newLoadbalancers` 66-69 | It reads the certificate and key of an HTTPS port from a Secret, through a kube client built lazily on first use. |
| Provider API | linodego | It holds NodeBalancers and their configs. Each call may fail. A write may also be applied and then time out. |

The reconciler talks to the provider only through single API calls, and it
keeps no state between verbs. All its decisions come from what it lists at
the start of a verb. That is why the model makes each provider call one
step: the Service, the Nodes and the provider can change between any two
calls.

## Modules

- **`Annotations.tla`** holds the pure translator: one operator per Go function.
  - An annotation map is a record with one field per annotation.
  - A field's value is `Absent`, `Garbage` (unparsable), `BadJSON` (for the per-port JSON), or a small value.
  - `buildNodeBalancerConfig` returns `Err`, or `ZeroConfig`, or a config record. `ZeroConfig` is the zero struct that line 294 returns with a nil error.
  - `strconv.Atoi`, `ParseBool` and `strings.ToLower` are modelled by what they do on these values.
- **`LoadBalancers.tla`** holds the reconciler for one Service against the provider and an environment.
  - State:
    - `svc` and `nodes`: the API server.
    - `nbs` and `cfgs`: provider NodeBalancers and configs, indexed by the ids the provider hands out. The smallest free id is taken, so ids are reused.
    - The verb in progress: `pc`, `op`, `snap`, `lb`, `nbCfgs`, `pending` and `idx`. These are the Go locals `service`/`nodes`, `lb`, `nbCfgs`, the `deleteUnusedConfigs` loop and the port loop index.
    - `result` and `status`: the verb's return values.
    - `call`: the provider call of the last step. Properties use it to see what was sent.
    - `kubeClient`: the process's `l.kubeClient`. It is `"nil"` (unset), `"clientset"` (working), or `"nilClientset"`: the nil `*Clientset` that a failed `kubernetes.NewForConfig` leaves in the non-nil interface. Under `RacySpec` it may also be `"torn"`: the interface's type word is written and its data word is not yet written.
    - `writing`: the worker whose unsynchronised store of `l.kubeClient` (line 414) is half done, or `None`.
    - `queue`: the caller's queued keys, `"svc"` and `"sync"`.
    - `unseen`: a history variable. It is `TRUE` when a NodeBalancer was deleted out of band after the last Ensure began. No code reads it; only `EventuallyConverged` does.
  - Actions:
    - `StartEnsure`, `StartUpdate` and `StartDelete`: the controller takes a queued key, calls its verb and snapshots the Service and Nodes.
    - `Return` requeues the key when the verb returns an error. `Waiting` is the controller idle on an empty queue, or on a key whose verb cannot be called, such as the node-sync key of a deleted Service.
    - One action per provider call:
      - `EnsureGet`, `EnsureCreate`, `EnsureStatus`
      - `UpdLookup`, `UpdThrottle`, `UpdList`, `UpdDelete`, `UpdPort`
      - `DelGet`, `DelLookup`, `DelDelete`
    - Each call action takes the call's outcome from `ok | fail | timeout`, bounded by `MaxFailures`. Every early return of the Go code is a `Return("error", None)`.
    - Local validation errors return before any call. These are UDP ports, `Err` from the translator, and the whole-request validation of `buildLoadBalancerRequest`.
    - TLS material is fetched inside `EnsureCreate` and `UpdPort`, because `buildNodeBalancerConfig` calls `addSSLCert` for an https port before the provider call.
      - `buildPorts` is the port loop of `buildLoadBalancerRequest`, and `buildPort` is one port.
      - `addSSLCert` composes `retrieveKubeClient` and `getTLSCertInfoFrom`. The in-cluster config, `NewForConfig` and the Secret Get can each fail, charged to `MaxFailures`.
      - With the nil `*Clientset`, `getTLSCertInfo` panics on `CoreV1()`. The step then goes to `pc = "panicked"` (`Panic`).
      - Under `RacySpec`, the store at line 414 is two steps. `Storing` writes the type word, leaves `kubeClient` `"torn"` and marks the worker in `writing`. `Publish` writes the data word, and the worker's verb then continues. Go gives a data race no outcome, so a torn read is modelled by its possible outcomes: the other worker may build its own client, may see the store as done, or may panic on the nil pointer.
      - `Restart` is the kubelet restarting the container. `newLoadbalancers` leaves `kubeClient` nil, both workers start idle, and both keys are queued: the new informer lists every Service, and the first node-sync pass covers all of them.
    - Environment, bounded by `MaxEdits`:
      - `EditService` changes ports or annotations, and queues the Service's key (`Notify`).
      - `NodeChange` adds or removes a Node, and queues the node-sync key.
      - `DeleteService` queues the Service's key.
      - `RemoveNodeBalancer` deletes it out of band. Nothing watches the provider, so no key is queued.
  - `ApiAccepts` is what the provider validates: a port in 1..65535 and backend addresses with a host. It is an assumption about linodego, not code of this repository. The provider is not assumed to reject a second config on a port, since spec §5 treats duplicate creates as possible.
  - Two goroutines: `SvcWorker` runs Ensure and Delete, and `SyncWorker` (the node-sync loop) runs Update.
    - `Spec` is the caller of spec §5. One verb of the Service runs at a time. Every run except `kube_client_race` uses it, with both constants equal.
    - `RacySpec` adds `Switch`, for two goroutines that are not serialised against each other. These are workers of different Services, which share `l.kubeClient`. The running worker's locals are the variables above, and the other worker's locals are parked in `parked`. `Switch` swaps them between any two provider calls, so the two interleave call by call. `Run(A)` is a step without a switch.
- **`NodeBalancerStore.tla`** is the abstract specification: what the reconciler promises about the provider side of one Service.
  - The NodeBalancer is absent, or present with an id, a throttle and at most one config per port.
  - `asked` is the snapshot the running verb realises.
  - Each step creates the NodeBalancer fully configured (`Create`), sets the throttle (`Retune`), puts the desired config on a wanted port (`Put`), drops the config of an unwanted port (`Drop`), or destroys it (`Destroy`, which may also happen out of band).
  - `Remove` is the delete verb returning success: the Service is removed and no NodeBalancer is left. After that nothing is asked of the store.
  - `LoadBalancers` instantiates it as `Store` with a refinement mapping:
    - `nb` is the NodeBalancer `lbByName` finds, with `ConfigOnPort` for each port.
    - `asked` is the verb's `snap`, or `None` when idle.
    - `removed` is `svc.gone`.
    - `DesiredThrottle` and `DesiredConfig` are the translator's outputs.
  - `StoreRefinement == Store!Spec` is checked as a property.
- **`MCLoadBalancers.tla`** holds the instance for TLC:
  - two Nodes with distinct InternalIPs;
  - port lists `<<80>>` and `<<80, 443>>`;
  - annotation maps that vary the default protocol, an HTTPS per-port annotation with a Secret, a valid or bogus check type, and a throttle in range or above 20;
  - `MCAnnMapsTLS`, where only the HTTPS annotation on port 443 varies, for the TLS runs.
- **`MCThrottle.tla`** checks `getConnectionThrottle` against the clamp that spec §6 documents.
  - Its input is every throttle annotation value: absent, `Garbage`, the decimals -2..22, and two decimal strings outside Go's int range (`BelowInt`, `AboveInt`).
  - `strconv.Atoi` rejects the last two with `ErrRange`, and `Atoi` treats them as `Garbage`.

## Runs

| Run | Cfg | Expect | Checks |
|---|---|---|---|
| safety | `MCLoadBalancers.cfg` | pass | `TypeOK`, `AtMostOneNodeBalancer`, `OneConfigPerPort`, `SuccessMeansConverged` |
| eventually_converged | `MCEventuallyConverged.cfg` | pass | `EventuallyConverged` |
| no_backend_wipe | `MCNoBackendWipe.cfg` | violation | `NoBackendWipe` |
| invalid_check_type | `MCInvalidCheckType.cfg` | violation | `InvalidCheckTypeRejected` |
| store_refinement | `MCStoreRefinement.cfg` | pass | `StoreRefinement` |
| ipless_node | `MCIplessNode.cfg` | pass | `EventuallyConverged`, `EventuallyCleanedUp` |
| ensure_reports_status | `MCEnsureReportsStatus.cfg` | violation | `EnsureReportsStatus` |
| update_idempotent | `MCIdempotent.cfg` | violation | `IdempotentWhenConverged` |
| config_error_writes_nothing | `MCConfigErrorWritesNothing.cfg` | violation | `ConfigErrorWritesNothing` |
| never_panics | `MCNeverPanics.cfg` | violation | `NeverPanics` |
| kube_client_race | `MCKubeClientRace.cfg` | violation | `NeverPanics` |
| throttle_clamp | `MCThrottle.cfg` | violation | `ThrottleClamped` |

### safety

Failures and timeouts happen on every call, and edits, node changes and
out-of-band deletes happen between calls. Under all of that:

- **`AtMostOneNodeBalancer`.** The label never has two NodeBalancers. Ensure creates only after a successful "not found". A timed-out create is found by the retried Ensure.
- **`OneConfigPerPort`.** No NodeBalancer has two configs on one port. A timed-out config create is found by the next Update's list and rebuilt.
- **`SuccessMeansConverged`.** Whenever Ensure (with a status) or Update returns success, the provider holds exactly what that verb was given.

It reaches about 1.1 million distinct states in about 40 seconds.

### eventually_converged

This liveness run uses the annotation domain `MCAnnMapsTLS` and two failures,
so port 443 may be HTTPS and the failures may hit the kube client and the
Secret Get.

- **`EventuallyConverged`.** Once the environment stops, a realisable Service is eventually realised, unless a NodeBalancer was deleted out of band after the last Ensure began.
  - The caller calls a verb only for a queued key and stops once it succeeds, so every success must leave the Service realised.
  - Without the out-of-band exception, TLC finds a counterexample at once: Ensure creates the NodeBalancer, someone deletes it, and no event queues the Service again. That is the caller's design: nothing watches the provider.
  - The exception also covers the `ensure_reports_status` finding. There, a deletion during Ensure ends in a success with no status, which is never retried.

A failed `NewForConfig` makes the next HTTPS build
panic, and the process restarts with a fresh client. Once failures stop, the
Service still converges, HTTPS config included. Recovery rests on the restart
wiping `l.kubeClient`: within one process it never heals.

### store_refinement

The reconciler implements `NodeBalancerStore` over the same instance as the
safety run, in about 70 seconds. Every provider
change is one of these:

- a create, throttle change or config put that carries exactly what the running verb's snapshot asks for;
- a drop of a port that snapshot no longer has;
- a deletion.

This holds however stale the verb's list has become. The NodeBalancer that
`lbByName` finds never turns into another one without being deleted first.
The Service is removed from the API server only after a delete verb leaves
no NodeBalancer behind. A `GetLoadBalancer` error read as "not found" in
`EnsureLoadBalancerDeleted` violates this.

### Without per-Service serialisation

Spec §5 makes serialising one Service's work the caller's job. Under
`RacySpec`, the node-sync Update and the service worker's Ensure for the
same Service overlap, and TLC finds counterexamples to three properties:

- **`OneConfigPerPort`.** Both workers list the same configs, and both create a config on the new port.
- **`SuccessMeansConverged`.** A node-sync Update with an older snapshot writes its throttle after Ensure has written a newer one.
- **`EventuallyConverged`.** The stale Update returns success after Ensure did. No key is queued, so nothing repairs it.

These lie outside the contract the code relies on, so no run checks them.
`RacySpec` is used only for the `l.kubeClient` race. That race needs no
shared Service: any two goroutines of the process reach `retrieveKubeClient`.

### ipless_node

`node-b` has no InternalIP. `getNodeInternalIp` returns "" for it, so every
request that includes it is rejected, and every Update fails while it is in
the Node list. Once it leaves, the NodeBalancer converges. With three
environment steps, the NodeBalancer can also vanish between the delete
verb's `GetLoadBalancer` and its `lbByName`. The verb then fails, and the
retry finds nothing to delete.

- **`EventuallyConverged`.** As above, with the IP-less Node.
- **`EventuallyCleanedUp`.** A deleted Service eventually loses its NodeBalancer and is removed. This is checked here because the run is small.

### Findings

Each finding is a disagreement with the spec, a test or a comment. They are recorded
in `PROJECT.json`.

- **no_backend_wipe.** `UpdateLoadBalancer` is called with an empty Node list after a `NodeChange`. It then rebuilds every config with no backends (lines 178-181 and 197). `spec.md` §4.1 and `testUpdateLoadBalancerNoNodes` require an error and an untouched NodeBalancer.
- **invalid_check_type.** A bogus `check-type` annotation is not rejected. `buildNodeBalancerConfig` returns a zero config and a nil error (line 294), and that config is sent to `CreateNodeBalancer`.

- **ensure_reports_status.** `EnsureLoadBalancer` ignores the exists flag of its final `GetLoadBalancer` (lines 126-131). If the NodeBalancer is deleted out of band after the Update, Ensure returns success with a nil status.
- **update_idempotent.** `UpdateLoadBalancer` rebuilds every port's config unconditionally (line 197). Spec §8 says a second Update with nothing changed issues no mutating call. TLC's trace: Ensure's create is applied and times out, and the retried Ensure finds the NodeBalancer converged and rebuilds its config. Spec §3 and §4.1 describe a full rebuild on every pass, so the spec is not consistent with itself here.
- **never_panics.** `retrieveKubeClient` assigns `kubernetes.NewForConfig`'s result before checking its error (line 414). A failed construction leaves a nil `*Clientset` in the non-nil `l.kubeClient`. The next `addSSLCert` skips initialisation, and `getTLSCertInfo` panics on `CoreV1()` (line 503), taking down the whole controller. Spec §2 gives the TLS material resolver a `(cert, key, error)` contract. TLC's trace: Ensure, `NewForConfig` fails, Ensure again, panic.
- **kube_client_race.** `retrieveKubeClient` checks and stores `l.kubeClient` without a lock (lines 408-414), and the service worker and the node-sync loop both reach it through `addSSLCert`. Spec §5 calls workers for different Services independent and safe to run in parallel. TLC's trace, with no failure at all: Ensure creates the NodeBalancer, the Service gains an HTTPS port, Ensure's Update starts storing the client, a Node change queues the node-sync key, and the node-sync Update reads the torn interface and panics in `getTLSCertInfo`.
- **throttle_clamp.** `getConnectionThrottle` keeps the default 20 whenever `strconv.Atoi` fails (line 522). `Atoi` fails with `ErrRange` on a decimal below the int64 range. Spec §6 says the throttle is clamped to [0,20], which gives 0 for any negative value. The code sets the strictest throttle, 20, instead. Every in-range value, and every value above the range, matches the clamp.
- **config_error_writes_nothing.** `UpdateLoadBalancer` deletes the configs of removed ports (line 161) before the port loop rejects an unsupported protocol (line 172). Spec §9 says configuration errors are surfaced before any mutating call.

## Bounds, and why they are enough

- **Two NodeBalancer ids.** This is the least that lets a duplicate create show.
- **Four config ids.** Two ports, plus a leftover and a duplicate.
- **Two ports.** Going from `<<80, 443>>` to `<<80>>` exercises `deleteUnusedConfigs`. Going the other way exercises create inside Update.
- **Two Nodes.** Removing both empties the backend list.
- **`MaxFailures` of 1 (safety) or 2 (liveness).** One timed-out write already reaches every retry path. Two lets a timeout be followed by a failure on the retry.
- **`MaxEdits` of 2.** An edit and a node change, or an edit and a delete, fit within one verb.
- **`MaxFailures` of 1 in the idempotence run.** A timed-out create is what makes the caller call Ensure again with nothing changed.
- **No failures in the race run.** The race needs none: TLC finds the panic with every call succeeding, so the violation does not depend on a failed `NewForConfig`.
- **`MaxEdits` of 2 and one Node in the race run.** One edit makes a port HTTPS, and one Node change queues the node-sync key.
- **`MaxEdits` of 3 in the IP-less run.** Removing `node-b`, deleting the Service and deleting the NodeBalancer out of band all fit.
- **Throttle inputs -2..22.** These reach both sides of both clamp bounds. `BelowInt` and `AboveInt` stand for every decimal outside the int range.

Every action and every disjunct of `Next` fires in the safety run. That
includes `UpdThrottle` (the throttle changes from 5 to the clamp 20) and
`UpdDelete`.

## Fairness

- **Weak fairness on `Restart`.** The CCM runs with restart policy `Always`, so the kubelet restarts a crashed container.
- **Strong fairness on `VerbStep`.** A started verb keeps making calls, because every provider call returns: the request context has a deadline.
- **Strong fairness on `StartEnsure`, `StartUpdate` and `StartDelete`.**
  - Each is enabled only while its key is queued, so the fairness promises only what spec §1 does: a queued key is eventually called.
  - A key is queued by an event or by the error of its last verb, and is never requeued after a success.
  - The fairness is strong because the other key's verbs may take the single worker in between.
- **No fairness on the environment.** It is not obliged to act.

## Mutants

Each property of a passing run has a mutant in `PROJECT.json`. A mutant is a
plausible bug in the mapped code, and TLC must find the property violated once
the mutant is swapped in:

| Mutant | Property broken |
|---|---|
| The throttle clamp loses its upper bound | `TypeOK` |
| A list error is read as "not found" in `EnsureGet` | `AtMostOneNodeBalancer` |
| The existing config is matched by id, not port | `OneConfigPerPort` |
| The `found` flag is not reset per config in `deleteUnusedConfigs` | `SuccessMeansConverged` |
| The throttle comparison is inverted | `EventuallyConverged` |
| The `DeleteNodeBalancer` error is dropped | `EventuallyCleanedUp` |
| `deleteUnusedConfigs` compares config ports with NodePorts | `StoreRefinement` |
| The throttle comparison is inverted, with an IP-less Node | `EventuallyConverged` |
| The kube client survives a restart (a package-level client) | `EventuallyConverged` |

## Not modelled

- **The deprecated TLS helpers** (lines 463-470 and 538-601). They are dead code.
- **Certificate bytes.** Only whether the Secret exists matters to the control flow.
- **The rest of `addSSLCert` under `RacySpec`.** Only the store at line 414 is split into steps. The Secret Get and the checks around it read only local state and the client, so splitting them adds no interleaving that matters.
- **Backoff timing and resync periods of the caller.** Only the order of calls matters to the properties: a queued key is eventually called. The service controller does not call Ensure again for a Service whose object did not change, so no periodic resync is modelled.
- **Crashes other than the panic.** The process keeps nothing but `l.kubeClient` between verbs. A crash elsewhere aborts the verbs in progress, which the model already does with failed calls.
- **The firewall, instance metadata and name coercion that `spec.md` describes.** This source version has no code for them.
- **The e2e framework** under `src/e2e`. It is a test harness.

## Plan

Done so far:

- the two goroutines of `RacySpec`;
- the caller's work queue, with fairness only on queued keys;
- the IP-less Node;
- the abstract specification and its refinement;
- configuration errors against writes;
- the TLS material resolver with the lazy kube client, the panic and the restart;
- Service removal in the abstract store;
- the `retrieveKubeClient` data race between two goroutines;
- the `getConnectionThrottle` reference check.

Left:

1. **Pure-algorithm checks.** Check the `getPortConfig` protocol resolution against a reference definition over bounded inputs.
