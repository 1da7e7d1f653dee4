--------------------------- MODULE LoadBalancers ---------------------------
(***************************************************************************)
(* The load-balancer reconciler of cloud/linode/loadbalancers.go for one   *)
(* Service, against the provider's NodeBalancer API and an environment     *)
(* that edits the Service, changes the Node set and deletes NodeBalancers  *)
(* out of band.                                                            *)
(*                                                                         *)
(* The reconciler runs one verb at a time (the service controller          *)
(* serialises work per Service key).  Every provider call is one step, so  *)
(* the environment can act between any two calls; a call can fail (no      *)
(* effect) or time out (applied remotely, error returned), and any error   *)
(* aborts the verb, which the controller retries later.                    *)
(*                                                                         *)
(* All NodeBalancers in the model carry the Service's label, so the label  *)
(* filter of lbByName is implicit; the provider lists them by ascending id *)
(* and lbByName takes the first.                                           *)
(***************************************************************************)
EXTENDS Annotations, FiniteSetsExt, Sequences, TLC

CONSTANTS
    NBIds,        \* NodeBalancer ids the provider can hand out
    CfgIds,       \* NodeBalancer config ids the provider can hand out
    Nodes,        \* cluster Nodes (names)
    NodeIP,       \* Node -> its InternalIP address, "" when it has none
    PortLists,    \* the Service port lists the user may set
    AnnMaps,      \* the annotation maps the user may set
    None,         \* no value
    MaxFailures,  \* bound on failed / timed-out provider calls
    MaxEdits,     \* bound on environment changes
    SvcWorker,    \* the service worker: EnsureLoadBalancer, EnsureLoadBalancerDeleted
    SyncWorker    \* the node-sync loop: UpdateLoadBalancer (= SvcWorker when the
                  \* caller serialises both per Service)

ASSUME MaxFailures \in Nat /\ MaxEdits \in Nat
ASSUME NodeIP \in [Nodes -> STRING]

VARIABLES
    \* Kubernetes side
    svc,       \* [ports, ann, deleted, gone]: the Service in the API server
    nodes,     \* the cluster's current Node set
    \* provider side
    nbs,       \* NBIds -> [throttle] or None
    cfgs,      \* CfgIds -> config (with nb and backends) or None
    \* the reconciler's one verb in progress
    pc,        \* where the verb is
    op,        \* "ensure" | "update" | "delete"
    snap,      \* [ports, ann, nodes]: the Service and Nodes the verb was given
    lb,        \* [id, throttle] of the NodeBalancer lbByName returned
    nbCfgs,    \* the configs ListNodeBalancerConfigs returned: set of [id, port]
    pending,   \* ids deleteUnusedConfigs has still to delete
    idx,       \* index of the Service port the Update loop is at
    result,    \* "none" | "ok" | "error": what the last verb returned
    status,    \* NodeBalancer whose address the last verb returned, or None
    \* observation and bounds
    call,      \* [kind, reqs]: the provider call of the last step
    failures,
    edits,
    \* two callers interleaved: the one running owns the locals above
    me,        \* the worker whose verb the locals belong to
    parked,    \* the other worker's locals, as a record
    \* the process
    kubeClient, \* l.kubeClient: "nil", "clientset", "nilClientset" (a nil
                \* *Clientset held by the non-nil interface), or "torn" (its
                \* two-word store half done: type set, data pointer not yet)
    writing,    \* the worker whose store of l.kubeClient is half done, or None
    \* the caller
    queue,      \* work-queue keys waiting for a call: "svc" (the Service's key:
                \* Ensure, or Delete once it is being deleted), "sync" (Update)
    unseen      \* history: the NodeBalancer was deleted out of band after the
                \* last EnsureLoadBalancer started

k8sVars    == <<svc, nodes>>
remoteVars == <<nbs, cfgs>>
workerVars == <<pc, op, snap, lb, nbCfgs, pending, idx, result, status>>
vars == <<svc, nodes, nbs, cfgs, pc, op, snap, lb, nbCfgs, pending, idx,
          result, status, call, failures, edits, me, parked, kubeClient,
          writing, queue, unseen>>
processVars == <<kubeClient, writing>>

PortSpec == [port : Nat, protocol : {"TCP", "UDP"}, nodePort : Nat]
NoCall   == [kind |-> "none", reqs |-> {}]

-----------------------------------------------------------------------------
(* Helpers over the provider state                                         *)

LiveNBs      == {i \in NBIds : nbs[i] # None}
LiveCfgs     == {c \in CfgIds : cfgs[c] # None}
CfgsOf(id)   == {c \in LiveCfgs : cfgs[c].nb = id}
FreeCfgIds   == CfgIds \ LiveCfgs

\* lbByName: the first NodeBalancer the label-filtered list returns.
lbByName == IF LiveNBs = {} THEN None ELSE Min(LiveNBs)

\* The k-th smallest of a set of ids: where the provider puts new configs.
NthFree(S, k) == CHOOSE c \in S : Cardinality({d \in S : d < c}) = k - 1

getNodeInternalIp(n) == NodeIP[n]

\* buildNodeBalancerNodeCreateOptions, for every Node the verb was given.
Backends(ns, nodePort) ==
    {[label |-> n, address |-> <<getNodeInternalIp(n), nodePort>>] : n \in ns}

\* The config request for port spec sp: the translated config with every
\* Node attached as a backend.
ConfigRequest(s, sp) ==
    buildNodeBalancerConfig(s.ann, sp.port)
        @@ [backends |-> Backends(s.nodes, sp.nodePort)]

\* What the provider validates in a config request (outside this code):
\* a port in range and a backend address with a host part.
ApiAccepts(req) ==
    /\ req.port \in 1..65535
    /\ \A b \in req.backends : b.address[1] # ""

\* Outcomes of a provider call while the failure budget lasts: a read can
\* fail; a write can also time out after the provider applied it.
ReadOutcomes  == IF failures < MaxFailures THEN {"ok", "fail"} ELSE {"ok"}
WriteOutcomesFrom(f) == IF f < MaxFailures THEN {"ok", "fail", "timeout"}
                        ELSE {"ok"}
WriteOutcomes == WriteOutcomesFrom(failures)
ChargeFrom(f, o) == failures' = f + (IF o = "ok" THEN 0 ELSE 1)
Charge(o) == ChargeFrom(failures, o)

\* The work-queue key a verb is called for.
Key(verb) == IF verb = "update" THEN "sync" ELSE "svc"

\* The verb returns: the controller sees res, and requeues the key on an
\* error; a Service whose deletion
\* completed is removed from the API server (its finalizer is dropped).
Return(res, st) ==
    /\ pc' = "idle"
    /\ result' = res
    /\ status' = st
    /\ svc' = IF op = "delete" /\ res = "ok" /\ svc.deleted
              THEN [svc EXCEPT !.gone = TRUE] ELSE svc
    /\ queue' = IF res = "error" THEN queue \cup {Key(op)} ELSE queue

\* Where Update goes once its config loop is over.
FinishUpdate ==
    IF op = "ensure"
    THEN pc' = "ensure_status" /\ UNCHANGED <<svc, queue, result, status>>
    ELSE Return("ok", None)

\* Where Update goes once deleteUnusedConfigs is over: the port loop.
StartPortLoop ==
    IF Len(snap.ports) = 0
    THEN FinishUpdate /\ idx' = 1
    ELSE pc' = "upd_port" /\ idx' = 1 /\ UNCHANGED <<svc, queue, result, status>>

\* Mutant: the found flag of deleteUnusedConfigs declared outside the loop,
\* so every config listed after a used one counts as used.
unusedConfigs_foundNotReset(listed, wanted) ==
    {x.id : x \in {y \in listed : y.port \notin wanted
                                 /\ ~\E z \in listed : z.id < y.id /\ z.port \in wanted}}

\* deleteUnusedConfigs: the listed configs whose port is no Service port.
unusedConfigs(listed, wanted) == {x.id : x \in {y \in listed : y.port \notin wanted}}

\* Mutant: the existing-config search compares the config id with the port.
findExistingConfig_byId(cfgList, port) == {e \in cfgList : e.id = port}

\* The loop of UpdateLoadBalancer that looks for a listed config on a port.
findExistingConfig(cfgList, port) == {e \in cfgList : e.port = port}

\* A step's view of the process while it builds configs: the kube client,
\* the failures charged so far and how the build went.
Built(k, f, res) == [kubeClient |-> k, failures |-> f, res |-> res]
Building == Built(kubeClient, failures, "ok")

\* The failure counts a failing call may charge while the budget lasts.
Charged(f) == IF f < MaxFailures THEN {f + 1} ELSE {}

\* retrieveKubeClient from client state kc: a client already set is kept,
\* even the nil *Clientset; otherwise rest.InClusterConfig or
\* kubernetes.NewForConfig may fail, and the latter's nil result is
\* stored in l.kubeClient before its error is checked.  The nil check and
\* the store are not synchronised: with a second goroutine the store of
\* the new client is a step of its own ("storing"), and a goroutine that
\* reads the half-stored interface may see it nil (and build a client
\* itself) or set, with the nil data pointer.
retrieveKubeClient(kc, f) ==
    LET racy  == SvcWorker # SyncWorker
        build == {IF racy /\ kc = "nil" THEN Built("torn", f, "storing")
                  ELSE Built("clientset", f, "ok")}
                 \cup {Built(kc, g, "error") : g \in Charged(f)}
                 \cup {Built("nilClientset", g, "error") : g \in Charged(f)}
    IN  CASE kc = "nil"  -> build
          [] kc = "torn" -> build \cup {Built(kc, f, "ok")}
          [] OTHER       -> {Built(kc, f, "ok")}

\* getTLSCertInfo through client kc: an empty secret name is rejected
\* before CoreV1() is called, which panics on the nil *Clientset; the
\* Secret Get may fail, and a Secret that is not there is an error.
getTLSCertInfoFrom(kc, pcfg, f) ==
    LET name == pcfg.tlsSecretName IN
    CASE name = ""            -> {Built(kc, f, "error")}
      [] kc \in {"nilClientset", "torn"} -> {Built(kc, f, "panic")}
      [] OTHER -> {Built(kc, f, IF name \in Secrets THEN "ok" ELSE "error")}
                  \cup {Built(kc, g, "error") : g \in Charged(f)}

\* addSSLCert for port config pcfg: retrieveKubeClient, then
\* getTLSCertInfo with the client it leaves in l.kubeClient.
addSSLCert(kc, pcfg, f) ==
    UNION {IF r.res = "ok" THEN getTLSCertInfoFrom(r.kubeClient, pcfg, r.failures)
           ELSE {r} : r \in retrieveKubeClient(kc, f)}

\* The UDP check and buildNodeBalancerConfig for port spec sp, from the
\* build state r: its possible outcomes.
buildPort(ann, sp, r) ==
    CASE sp.protocol = "UDP" \/ baseNodeBalancerConfig(ann, sp.port) = Err
            -> {[r EXCEPT !.res = "error"]}
      [] NeedsSSLCert(ann, sp.port)
            -> addSSLCert(r.kubeClient, getPortConfig(ann, sp.port), r.failures)
      [] OTHER -> {r}

\* The port loop of buildLoadBalancerRequest from the i-th port on: it
\* stops at the first port that does not build.
RECURSIVE buildPorts(_, _, _)
buildPorts(s, i, r) ==
    IF i > Len(s.ports) \/ r.res # "ok" THEN {r}
    ELSE UNION {buildPorts(s, i + 1, x) : x \in buildPort(s.ann, s.ports[i], r)}

\* The goroutine has begun storing its new client in l.kubeClient: the step
\* ends there, and the build resumes after Publish.
Storing(b) ==
    /\ b.res = "storing"
    /\ writing' = me
    /\ call' = NoCall
    /\ UNCHANGED <<svc, queue, pc, result, status, remoteVars, failures>>

\* The goroutine completes its store of the new client and takes the step
\* it was in again: retrieveKubeClient now finds the client set.
Publish ==
    /\ writing = me
    /\ kubeClient' = "clientset"
    /\ writing' = None
    /\ call' = NoCall
    /\ UNCHANGED <<k8sVars, remoteVars, workerVars, failures, edits, unseen, queue>>

\* getTLSCertInfo calls CoreV1() on the nil *Clientset: the goroutine
\* panics, nothing recovers it, and the process goes down mid-verb.
Panic ==
    /\ pc' = "panicked"
    /\ call' = NoCall
    /\ UNCHANGED <<svc, queue, result, status, remoteVars, failures>>

-----------------------------------------------------------------------------
(* The service controller calls a verb                                     *)

Start(verb, at) ==
    /\ pc = "idle"
    /\ ~svc.gone
    /\ pc' = at
    /\ op' = verb
    /\ snap' = [ports |-> svc.ports, ann |-> svc.ann, nodes |-> nodes]
    /\ Key(verb) \in queue
    /\ queue' = queue \ {Key(verb)}
    /\ unseen' = (unseen /\ verb # "ensure")
    /\ call' = NoCall
    /\ UNCHANGED <<k8sVars, remoteVars, lb, nbCfgs, pending, idx, result,
                   status, failures, edits, processVars>>

\* Service add/update events and requeues call EnsureLoadBalancer.
StartEnsure == me = SvcWorker /\ ~svc.deleted /\ Start("ensure", "ensure_get")
\* The node-sync loop calls UpdateLoadBalancer.
StartUpdate == me = SyncWorker /\ ~svc.deleted /\ Start("update", "upd_lookup")
\* A Service being deleted gets EnsureLoadBalancerDeleted.
StartDelete == me = SvcWorker /\ svc.deleted /\ Start("delete", "del_get")

\* The locals of the running worker's verb.
Locals == [pc |-> pc, op |-> op, snap |-> snap, lb |-> lb, nbCfgs |-> nbCfgs,
           pending |-> pending, idx |-> idx, result |-> result, status |-> status]

\* The two workers are goroutines that share nothing but the provider:
\* between any two provider calls the other one may run.
Switch ==
    /\ SvcWorker # SyncWorker
    /\ pc # "panicked"
    /\ me' = IF me = SvcWorker THEN SyncWorker ELSE SvcWorker
    /\ parked' = Locals
    /\ pc' = parked.pc /\ op' = parked.op /\ snap' = parked.snap
    /\ lb' = parked.lb /\ nbCfgs' = parked.nbCfgs /\ pending' = parked.pending
    /\ idx' = parked.idx /\ result' = parked.result /\ status' = parked.status
    /\ call' = NoCall
    /\ UNCHANGED <<k8sVars, remoteVars, failures, edits, unseen, queue, processVars>>

-----------------------------------------------------------------------------
(* EnsureLoadBalancer                                                      *)

\* Mutant: GetLoadBalancer reports a failed list as "not found".
EnsureGet_listErrorAsNotFound ==
    /\ pc = "ensure_get"
    /\ call' = [kind |-> "ListNodeBalancers", reqs |-> {}]
    /\ \E o \in ReadOutcomes :
        /\ Charge(o)
        /\ pc' = IF o = "fail" \/ LiveNBs = {} THEN "ensure_create" ELSE "upd_lookup"
        /\ UNCHANGED <<svc, queue, result, status>>
    /\ UNCHANGED <<nodes, remoteVars, op, snap, lb, nbCfgs, pending, idx, edits, unseen, processVars>>

\* GetLoadBalancer at the top of EnsureLoadBalancer.
EnsureGet ==
    /\ pc = "ensure_get"
    /\ call' = [kind |-> "ListNodeBalancers", reqs |-> {}]
    /\ \E o \in ReadOutcomes :
        /\ Charge(o)
        /\ IF o = "fail" THEN Return("error", None)
           ELSE /\ pc' = IF LiveNBs = {} THEN "ensure_create" ELSE "upd_lookup"
                /\ UNCHANGED <<svc, queue, result, status>>
    /\ UNCHANGED <<nodes, remoteVars, op, snap, lb, nbCfgs, pending, idx, edits, unseen, processVars>>

\* createNodeBalancer: the NodeBalancer created for the Service, labelled
\* with its name (implicit here) and carrying the desired throttle.
createNodeBalancer(s) == [throttle |-> getConnectionThrottle(s.ann)]

\* buildLoadBalancerRequest and createNodeBalancer: every port is checked
\* and translated locally, fetching TLS material for https ports; any
\* error returns before the provider is called.
EnsureCreate ==
    LET ports == snap.ports
        n     == Len(ports)
        reqs  == [i \in 1..n |-> ConfigRequest(snap, ports[i])]
        id    == Min(NBIds \ LiveNBs)
    IN
    /\ pc = "ensure_create"
    /\ writing # me
    /\ \E b \in buildPorts(snap, 1, Building) :
        /\ kubeClient' = b.kubeClient
        /\ b.res # "storing" => UNCHANGED writing
        /\ CASE b.res = "storing" -> Storing(b)
             [] b.res = "panic" -> Panic
             [] b.res = "error" ->
                  /\ Return("error", None)
                  /\ call' = NoCall
                  /\ failures' = b.failures
                  /\ UNCHANGED remoteVars
             [] OTHER ->
                  /\ call' = [kind |-> "CreateNodeBalancer", reqs |-> Range(reqs)]
                  /\ \E o \in WriteOutcomesFrom(b.failures) :
                      LET applied == o # "fail" /\ \A i \in 1..n : ApiAccepts(reqs[i])
                      IN
                      /\ ChargeFrom(b.failures, o)
                      /\ nbs' = IF applied
                                THEN [nbs EXCEPT ![id] = createNodeBalancer(snap)]
                                ELSE nbs
                      /\ cfgs' = IF applied
                                 THEN [c \in CfgIds |->
                                        IF \E i \in 1..n : c = NthFree(FreeCfgIds, i)
                                        THEN LET i == CHOOSE j \in 1..n :
                                                        c = NthFree(FreeCfgIds, j)
                                             IN reqs[i] @@ [nb |-> id]
                                        ELSE cfgs[c]]
                                 ELSE cfgs
                      /\ IF applied /\ o = "ok" THEN Return("ok", id)
                         ELSE Return("error", None)
    /\ UNCHANGED <<nodes, op, snap, lb, nbCfgs, pending, idx, edits, unseen>>

\* GetLoadBalancer at the end of EnsureLoadBalancer, after a successful
\* Update; a NodeBalancer gone by now yields a nil status and no error.
EnsureStatus ==
    /\ pc = "ensure_status"
    /\ call' = [kind |-> "ListNodeBalancers", reqs |-> {}]
    /\ \E o \in ReadOutcomes :
        /\ Charge(o)
        /\ IF o = "fail" THEN Return("error", None) ELSE Return("ok", lbByName)
    /\ UNCHANGED <<nodes, remoteVars, op, snap, lb, nbCfgs, pending, idx, edits, unseen, processVars>>

-----------------------------------------------------------------------------
(* UpdateLoadBalancer                                                      *)

\* Mutant: the throttle comparison inverted (update only when equal).
UpdLookup_throttleEqual ==
    /\ pc = "upd_lookup"
    /\ call' = [kind |-> "ListNodeBalancers", reqs |-> {}]
    /\ \E o \in ReadOutcomes :
        /\ Charge(o)
        /\ IF o = "fail" \/ LiveNBs = {}
           THEN Return("error", None) /\ UNCHANGED lb
           ELSE /\ lb' = [id |-> lbByName, throttle |-> nbs[lbByName].throttle]
                /\ pc' = IF getConnectionThrottle(snap.ann) = lb'.throttle
                         THEN "upd_throttle" ELSE "upd_list"
                /\ UNCHANGED <<svc, queue, result, status>>
    /\ UNCHANGED <<nodes, remoteVars, op, snap, nbCfgs, pending, idx, edits, unseen, processVars>>

\* lbByName, then the connection-throttle comparison against what it read.
UpdLookup ==
    /\ pc = "upd_lookup"
    /\ call' = [kind |-> "ListNodeBalancers", reqs |-> {}]
    /\ \E o \in ReadOutcomes :
        /\ Charge(o)
        /\ IF o = "fail" \/ LiveNBs = {}
           THEN Return("error", None) /\ UNCHANGED lb
           ELSE /\ lb' = [id |-> lbByName, throttle |-> nbs[lbByName].throttle]
                /\ pc' = IF getConnectionThrottle(snap.ann) # lb'.throttle
                         THEN "upd_throttle" ELSE "upd_list"
                /\ UNCHANGED <<svc, queue, result, status>>
    /\ UNCHANGED <<nodes, remoteVars, op, snap, nbCfgs, pending, idx, edits, unseen, processVars>>

\* UpdateNodeBalancer with the desired throttle.
UpdThrottle ==
    LET want == getConnectionThrottle(snap.ann) IN
    /\ pc = "upd_throttle"
    /\ call' = [kind |-> "UpdateNodeBalancer", reqs |-> {}]
    /\ \E o \in WriteOutcomes :
        LET applied == o # "fail" /\ nbs[lb.id] # None IN
        /\ Charge(o)
        /\ nbs' = IF applied THEN [nbs EXCEPT ![lb.id].throttle = want] ELSE nbs
        /\ IF applied /\ o = "ok"
           THEN pc' = "upd_list" /\ UNCHANGED <<svc, queue, result, status>>
           ELSE Return("error", None)
    /\ UNCHANGED <<nodes, cfgs, op, snap, lb, nbCfgs, pending, idx, edits, unseen, processVars>>

\* Mutant: deleteUnusedConfigs compares each config's port with the
\* Service ports' NodePort instead of their Port.
UpdList_wantedNodePorts ==
    LET listed  == {[id |-> c, port |-> cfgs[c].port] : c \in CfgsOf(lb.id)}
        wanted  == {snap.ports[i].nodePort : i \in 1..Len(snap.ports)}
        unused  == unusedConfigs(listed, wanted)
    IN
    /\ pc = "upd_list"
    /\ call' = [kind |-> "ListNodeBalancerConfigs", reqs |-> {}]
    /\ \E o \in ReadOutcomes :
        /\ Charge(o)
        /\ IF o = "fail" \/ nbs[lb.id] = None
           THEN Return("error", None) /\ UNCHANGED <<nbCfgs, pending, idx>>
           ELSE /\ nbCfgs' = listed
                /\ pending' = unused
                /\ IF unused = {}
                   THEN StartPortLoop
                   ELSE pc' = "upd_delete" /\ UNCHANGED <<svc, queue, result, status, idx>>
    /\ UNCHANGED <<nodes, remoteVars, op, snap, lb, edits, unseen, processVars>>

\* ListNodeBalancerConfigs; deleteUnusedConfigs picks the configs whose
\* port is no longer a Service port.
UpdList ==
    LET listed  == {[id |-> c, port |-> cfgs[c].port] : c \in CfgsOf(lb.id)}
        wanted  == {snap.ports[i].port : i \in 1..Len(snap.ports)}
        unused  == unusedConfigs(listed, wanted)
    IN
    /\ pc = "upd_list"
    /\ call' = [kind |-> "ListNodeBalancerConfigs", reqs |-> {}]
    /\ \E o \in ReadOutcomes :
        /\ Charge(o)
        /\ IF o = "fail" \/ nbs[lb.id] = None
           THEN Return("error", None) /\ UNCHANGED <<nbCfgs, pending, idx>>
           ELSE /\ nbCfgs' = listed
                /\ pending' = unused
                /\ IF unused = {}
                   THEN StartPortLoop
                   ELSE pc' = "upd_delete" /\ UNCHANGED <<svc, queue, result, status, idx>>
    /\ UNCHANGED <<nodes, remoteVars, op, snap, lb, edits, unseen, processVars>>

\* deleteUnusedConfigs: DeleteNodeBalancerConfig for the next unused one.
UpdDelete ==
    LET c == Min(pending) IN
    /\ pc = "upd_delete"
    /\ call' = [kind |-> "DeleteNodeBalancerConfig", reqs |-> {}]
    /\ \E o \in WriteOutcomes :
        LET applied == o # "fail" /\ cfgs[c] # None IN
        /\ Charge(o)
        /\ cfgs' = IF applied THEN [cfgs EXCEPT ![c] = None] ELSE cfgs
        /\ pending' = pending \ {c}
        /\ IF ~(applied /\ o = "ok")
           THEN Return("error", None) /\ UNCHANGED idx
           ELSE IF pending' = {}
                THEN StartPortLoop
                ELSE UNCHANGED <<svc, queue, pc, result, status, idx>>
    /\ UNCHANGED <<nodes, nbs, op, snap, lb, nbCfgs, edits, unseen, processVars>>

\* One iteration of the port loop: reject UDP, build the config (with
\* its TLS material), then RebuildNodeBalancerConfig the listed config on
\* that port, if any, or CreateNodeBalancerConfig.
UpdPort ==
    LET sp       == snap.ports[idx]
        req      == ConfigRequest(snap, sp)
        existing == findExistingConfig(nbCfgs, sp.port)
        target   == IF existing = {} THEN Min(FreeCfgIds)
                    ELSE Min({e.id : e \in existing})
        gone     == IF existing = {} THEN nbs[lb.id] = None
                    ELSE cfgs[target] = None
        next     == IF idx = Len(snap.ports) THEN FinishUpdate /\ UNCHANGED idx
                    ELSE idx' = idx + 1 /\ UNCHANGED <<svc, queue, pc, result, status>>
    IN
    /\ pc = "upd_port"
    /\ writing # me
    /\ \E b \in buildPort(snap.ann, sp, Building) :
        /\ kubeClient' = b.kubeClient
        /\ b.res # "storing" => UNCHANGED writing
        /\ CASE b.res = "storing" -> Storing(b) /\ UNCHANGED idx
             [] b.res = "panic" -> Panic /\ UNCHANGED idx
             [] b.res = "error" ->
                  /\ Return("error", None)
                  /\ call' = NoCall
                  /\ failures' = b.failures
                  /\ UNCHANGED <<cfgs, idx>>
             [] OTHER ->
                  /\ call' = [kind |-> IF existing = {} THEN "CreateNodeBalancerConfig"
                                       ELSE "RebuildNodeBalancerConfig",
                              reqs |-> {req}]
                  /\ \E o \in WriteOutcomesFrom(b.failures) :
                      LET applied == o # "fail" /\ ~gone /\ ApiAccepts(req) IN
                      /\ ChargeFrom(b.failures, o)
                      /\ cfgs' = IF applied
                                 THEN [cfgs EXCEPT ![target] = req @@ [nb |-> lb.id]]
                                 ELSE cfgs
                      /\ IF applied /\ o = "ok" THEN next
                         ELSE Return("error", None) /\ UNCHANGED idx
    /\ UNCHANGED <<nodes, nbs, op, snap, lb, nbCfgs, pending, edits, unseen>>

-----------------------------------------------------------------------------
(* EnsureLoadBalancerDeleted                                               *)

\* GetLoadBalancer: nothing to delete is success.
DelGet ==
    /\ pc = "del_get"
    /\ call' = [kind |-> "ListNodeBalancers", reqs |-> {}]
    /\ \E o \in ReadOutcomes :
        /\ Charge(o)
        /\ CASE o = "fail"     -> Return("error", None)
             [] LiveNBs = {}  -> Return("ok", None)
             [] OTHER         -> pc' = "del_lookup" /\ UNCHANGED <<svc, queue, result, status>>
    /\ UNCHANGED <<nodes, remoteVars, op, snap, lb, nbCfgs, pending, idx, edits, unseen, processVars>>

\* lbByName again, for the id to delete.
DelLookup ==
    /\ pc = "del_lookup"
    /\ call' = [kind |-> "ListNodeBalancers", reqs |-> {}]
    /\ \E o \in ReadOutcomes :
        /\ Charge(o)
        /\ IF o = "fail" \/ LiveNBs = {}
           THEN Return("error", None) /\ UNCHANGED lb
           ELSE /\ lb' = [id |-> lbByName, throttle |-> nbs[lbByName].throttle]
                /\ pc' = "del_delete"
                /\ UNCHANGED <<svc, queue, result, status>>
    /\ UNCHANGED <<nodes, remoteVars, op, snap, nbCfgs, pending, idx, edits, unseen, processVars>>

\* Mutant: the error of DeleteNodeBalancer is dropped.
DelDelete_errorDropped ==
    /\ pc = "del_delete"
    /\ call' = [kind |-> "DeleteNodeBalancer", reqs |-> {}]
    /\ \E o \in WriteOutcomes :
        LET applied == o # "fail" /\ nbs[lb.id] # None IN
        /\ Charge(o)
        /\ nbs' = IF applied THEN [nbs EXCEPT ![lb.id] = None] ELSE nbs
        /\ cfgs' = IF applied
                   THEN [c \in CfgIds |-> IF c \in CfgsOf(lb.id) THEN None
                                          ELSE cfgs[c]]
                   ELSE cfgs
        /\ Return("ok", None)
    /\ UNCHANGED <<nodes, op, snap, lb, nbCfgs, pending, idx, edits, unseen, processVars>>

\* DeleteNodeBalancer; the provider drops its configs with it.
DelDelete ==
    /\ pc = "del_delete"
    /\ call' = [kind |-> "DeleteNodeBalancer", reqs |-> {}]
    /\ \E o \in WriteOutcomes :
        LET applied == o # "fail" /\ nbs[lb.id] # None IN
        /\ Charge(o)
        /\ nbs' = IF applied THEN [nbs EXCEPT ![lb.id] = None] ELSE nbs
        /\ cfgs' = IF applied
                   THEN [c \in CfgIds |-> IF c \in CfgsOf(lb.id) THEN None
                                          ELSE cfgs[c]]
                   ELSE cfgs
        /\ IF applied /\ o = "ok" THEN Return("ok", None)
           ELSE Return("error", None)
    /\ UNCHANGED <<nodes, op, snap, lb, nbCfgs, pending, idx, edits, unseen, processVars>>

-----------------------------------------------------------------------------
(* The environment                                                         *)

EnvStep ==
    /\ edits < MaxEdits
    /\ edits' = edits + 1
    /\ UNCHANGED <<workerVars, call, failures, processVars>>

\* An event of the informer queues a key.
Notify(key) == queue' = queue \cup {key} /\ UNCHANGED unseen

\* The user edits the Service's ports or annotations.
EditService ==
    /\ ~svc.deleted
    /\ \E ps \in PortLists, a \in AnnMaps :
        /\ <<ps, a>> # <<svc.ports, svc.ann>>
        /\ svc' = [svc EXCEPT !.ports = ps, !.ann = a]
    /\ EnvStep
    /\ Notify("svc")
    /\ UNCHANGED <<nodes, remoteVars>>

\* A Node joins or leaves the cluster.
NodeChange ==
    /\ \E n \in Nodes : nodes' = IF n \in nodes THEN nodes \ {n} ELSE nodes \cup {n}
    /\ EnvStep
    /\ Notify("sync")
    /\ UNCHANGED <<svc, remoteVars>>

\* The user deletes the Service.
DeleteService ==
    /\ ~svc.deleted
    /\ svc' = [svc EXCEPT !.deleted = TRUE]
    /\ EnvStep
    /\ Notify("svc")
    /\ UNCHANGED <<nodes, remoteVars>>

\* Someone deletes the NodeBalancer outside the controller; no informer
\* watches the provider, so nothing is queued.
RemoveNodeBalancer ==
    /\ \E i \in LiveNBs :
        /\ nbs' = [nbs EXCEPT ![i] = None]
        /\ cfgs' = [c \in CfgIds |-> IF c \in CfgsOf(i) THEN None ELSE cfgs[c]]
    /\ EnvStep
    /\ unseen' = TRUE
    /\ UNCHANGED <<k8sVars, queue>>

-----------------------------------------------------------------------------

Init ==
    /\ svc \in [ports : PortLists, ann : AnnMaps, deleted : {FALSE}, gone : {FALSE}]
    /\ nodes = Nodes
    /\ nbs = [i \in NBIds |-> None]
    /\ cfgs = [c \in CfgIds |-> None]
    /\ pc = "idle"
    /\ op = "ensure"
    /\ snap = [ports |-> <<>>, ann |-> svc.ann, nodes |-> {}]
    /\ lb = [id |-> None, throttle |-> 0]
    /\ nbCfgs = {}
    /\ pending = {}
    /\ idx = 1
    /\ result = "none"
    /\ status = None
    /\ call = NoCall
    /\ failures = 0
    /\ edits = 0
    /\ me = SvcWorker
    /\ kubeClient = "nil"
    /\ writing = None
    /\ queue = {"svc"}
    /\ unseen = FALSE
    /\ parked = [Locals EXCEPT !.op = "update",
                                !.snap.ann = CHOOSE a \in AnnMaps : TRUE]

\* Mutant: the kube client outlives the restart (a package-level client).
Restart_keepsClient ==
    /\ pc = "panicked"
    /\ pc' = "idle" /\ result' = "none" /\ status' = None
    /\ parked' = [parked EXCEPT !.pc = "idle", !.result = "none", !.status = None]
    /\ call' = NoCall
    /\ UNCHANGED <<k8sVars, remoteVars, op, snap, lb, nbCfgs, pending, idx,
                   failures, edits, me, kubeClient, writing, unseen>>
    /\ queue' = {"svc", "sync"}

\* The kubelet restarts the crashed container: newLoadbalancers builds a
\* fresh loadbalancers whose kubeClient is nil, and both workers start
\* idle; the restarted controller's informer lists every Service and the
\* node-sync loop's first pass covers every Service, so both keys are
\* queued.
Restart ==
    /\ pc = "panicked"
    /\ pc' = "idle" /\ result' = "none" /\ status' = None
    /\ parked' = [parked EXCEPT !.pc = "idle", !.result = "none", !.status = None]
    /\ kubeClient' = "nil"
    /\ writing' = None
    /\ call' = NoCall
    /\ UNCHANGED <<k8sVars, remoteVars, op, snap, lb, nbCfgs, pending, idx,
                   failures, edits, me, unseen>>
    /\ queue' = {"svc", "sync"}

\* Every step of a verb after the controller called it.
VerbStep ==
    \/ EnsureGet \/ EnsureCreate \/ EnsureStatus \/ Publish
    \/ UpdLookup \/ UpdThrottle \/ UpdList \/ UpdDelete \/ UpdPort
    \/ DelGet \/ DelLookup \/ DelDelete

Environment == EditService \/ NodeChange \/ DeleteService \/ RemoveNodeBalancer

\* No verb runs: the controller waits for an event (or, once the Service
\* is gone, has nothing left to do).
Waiting == pc = "idle" /\ parked.pc = "idle" /\ UNCHANGED vars

\* A step of the running worker, or of the environment: no context switch.
Run(A) == A /\ UNCHANGED <<me, parked>>

\* The caller serialises the verbs of a Service's keys (spec section 5):
\* one verb runs at a time.
Next ==
    \/ Run(StartEnsure \/ StartUpdate \/ StartDelete)
    \/ Run(VerbStep)
    \/ Run(Environment)
    \/ Run(Waiting)
    \/ Restart

\* Two goroutines of the process that are not serialised against each
\* other (workers of different Services, which share l.kubeClient, or a
\* node-sync pass that overlaps the service worker): they interleave call
\* by call.
RacyNext == Next \/ Switch

\* A provider call always returns (the verb's context has a deadline), so
\* a started verb keeps making calls.  The controller
\* calls a verb for a queued key (an event, or the error of the last call)
\* until the verb stops returning errors, and only then: a key that is not
\* queued gets no call.  The kubelet restarts a crashed container.
Fairness ==
    /\ SF_vars(Run(VerbStep))
    /\ SF_vars(Run(StartEnsure))
    /\ SF_vars(Run(StartUpdate))
    /\ SF_vars(Run(StartDelete))
    /\ WF_vars(Restart)

Spec == Init /\ [][Next]_vars /\ Fairness

RacySpec == Init /\ [][RacyNext]_vars

-----------------------------------------------------------------------------
(* Properties                                                              *)

PCs == {"idle", "ensure_get", "ensure_create", "ensure_status", "upd_lookup",
        "upd_throttle", "upd_list", "upd_delete", "upd_port", "del_get",
        "del_lookup", "del_delete", "panicked"}

TypeOK ==
    /\ svc \in [ports : PortLists, ann : AnnMaps, deleted : BOOLEAN, gone : BOOLEAN]
    /\ nodes \subseteq Nodes
    /\ nbs \in [NBIds -> [throttle : 0..20] \cup {None}]
    /\ \A c \in LiveCfgs : cfgs[c].nb \in LiveNBs /\ cfgs[c].port \in 1..65535
    /\ pc \in PCs
    /\ op \in {"ensure", "update", "delete"}
    /\ lb.id \in NBIds \cup {None}
    /\ pending \subseteq CfgIds
    /\ result \in {"none", "ok", "error"}
    /\ status \in NBIds \cup {None}
    /\ failures \in 0..MaxFailures
    /\ edits \in 0..MaxEdits
    /\ me \in {SvcWorker, SyncWorker}
    /\ parked.pc \in PCs
    /\ kubeClient \in {"nil", "clientset", "nilClientset", "torn"}
    /\ writing \in {None, SvcWorker, SyncWorker}
    /\ queue \subseteq {"svc", "sync"}
    /\ unseen \in BOOLEAN

\* The Service's state s is realised on the provider: the NodeBalancer
\* lbByName finds has the desired throttle and exactly one config per
\* Service port, each the translated config with every Node as a backend.
Converged(s) ==
    LET id    == lbByName
        ports == {s.ports[i].port : i \in 1..Len(s.ports)}
    IN  /\ id # None
        /\ nbs[id].throttle = getConnectionThrottle(s.ann)
        /\ {cfgs[c].port : c \in CfgsOf(id)} = ports
        /\ \A c \in CfgsOf(id) : \E i \in 1..Len(s.ports) :
               cfgs[c] = ConfigRequest(s, s.ports[i]) @@ [nb |-> id]

\* The Service as it stands now, in the shape a verb's snapshot has.
Current == [ports |-> svc.ports, ann |-> svc.ann, nodes |-> nodes]

\* Every port of s is TCP, translates without error and yields a request
\* the provider accepts.
Realisable(s) ==
    \A i \in 1..Len(s.ports) :
        /\ s.ports[i].protocol = "TCP"
        /\ buildNodeBalancerConfig(s.ann, s.ports[i].port) # Err
        /\ ApiAccepts(ConfigRequest(s, s.ports[i]))

\* The refinement mapping onto NodeBalancerStore: the NodeBalancer that
\* lbByName finds, with the config on each port (a duplicate would show
\* as one of them), and the snapshot of the verb in progress.
PortNums == UNION {{ps[i].port : i \in DOMAIN ps} : ps \in PortLists}
ConfigOnPort(id, p) ==
    IF \E c \in CfgsOf(id) : cfgs[c].port = p
    THEN cfgs[CHOOSE c \in CfgsOf(id) : cfgs[c].port = p]
    ELSE None
StoreView ==
    IF lbByName = None THEN None
    ELSE [id |-> lbByName, throttle |-> nbs[lbByName].throttle,
          cfg |-> [p \in PortNums |-> ConfigOnPort(lbByName, p)]]
DesiredThrottleOf(s) == getConnectionThrottle(s.ann)
DesiredConfigOf(s, sp, id) == ConfigRequest(s, sp) @@ [nb |-> id]

Store == INSTANCE NodeBalancerStore
            WITH nb <- StoreView,
                 asked <- IF pc = "idle" THEN None ELSE snap,
                 removed <- svc.gone,
                 Ports <- PortNums,
                 Snapshots <- [ports : PortLists, ann : AnnMaps, nodes : SUBSET Nodes],
                 DesiredThrottle <- DesiredThrottleOf,
                 DesiredConfig <- DesiredConfigOf

\* Every change the reconciler makes to the provider, under failures,
\* timeouts, retries and concurrent edits, is a step of NodeBalancerStore:
\* it writes what the running verb's snapshot asks for, drops only ports
\* the snapshot no longer has, and the NodeBalancer lbByName finds never
\* becomes another one without first being deleted; the Service is
\* removed only after a verb leaves no NodeBalancer behind.
StoreRefinement == Store!Spec

\* EnsureLoadBalancer creates a NodeBalancer only when GetLoadBalancer
\* reported "not found" (never on a failed list), and Update/Delete never
\* create one: however calls fail, time out and are retried, and whatever
\* is deleted out of band, at most one NodeBalancer carries the label.
AtMostOneNodeBalancer == Cardinality(LiveNBs) <= 1

\* UpdateLoadBalancer rebuilds the listed config on a port instead of
\* creating a second one, even when a timed-out create already added it
\* or the Service's ports changed between passes: no NodeBalancer ever
\* has two configs on the same port.
OneConfigPerPort ==
    \A c, d \in LiveCfgs :
        c # d /\ cfgs[c].nb = cfgs[d].nb => cfgs[c].port # cfgs[d].port

\* When EnsureLoadBalancer (with a status) or UpdateLoadBalancer returns
\* success, the provider holds exactly the configuration the verb was
\* given: the unused configs were deleted, every port rebuilt or created
\* with the current Nodes, and the throttle updated.
SuccessMeansConverged ==
    [][ (/\ me' = me /\ pc # "idle" /\ pc' = "idle" /\ result' = "ok"
         /\ \/ op = "update"
            \/ op = "ensure" /\ status' # None)
        => (Converged(snap))' ]_vars

\* Once the Service, its Nodes and the provider stop changing, the calls
\* the controller makes for queued keys (events, then retries until a verb
\* succeeds) converge the provider to the Service, whenever the Service
\* can be realised at all and no NodeBalancer was deleted out of band
\* since the last Ensure began: a success is final, so a verb that
\* returns nil must have left the Service realised.
EventuallyConverged ==
    <>[](~svc.deleted /\ ~unseen /\ Realisable(Current) => Converged(Current))

\* After the Service is deleted, EnsureLoadBalancerDeleted is retried
\* until its NodeBalancer is gone and the Service can be removed.
EventuallyCleanedUp ==
    svc.deleted ~> (svc.gone /\ LiveNBs = {})

\* A Service whose Nodes all disappear for a while must not lose its
\* backends: no step of the reconciler empties the backend list of a
\* config that had backends (Ensure/Update reject an empty Node list).
NoBackendWipe ==
    [][\A c \in CfgIds :
          cfgs[c] # None /\ cfgs[c].backends # {} /\ cfgs'[c] # None
              => cfgs'[c].backends # {}]_cfgs

\* The provider calls that change something.
MutatingCalls ==
    {"CreateNodeBalancer", "UpdateNodeBalancer", "DeleteNodeBalancer",
     "CreateNodeBalancerConfig", "RebuildNodeBalancerConfig",
     "DeleteNodeBalancerConfig"}

\* A snapshot that buildNodeBalancerConfig or the UDP check rejects.
ConfigError(s) ==
    \E i \in 1..Len(s.ports) :
        \/ s.ports[i].protocol = "UDP"
        \/ buildNodeBalancerConfig(s.ann, s.ports[i].port) = Err

\* EnsureLoadBalancer re-fetches the NodeBalancer after a successful
\* UpdateLoadBalancer and returns its status: a successful Ensure always
\* reports the address of a NodeBalancer.
EnsureReportsStatus ==
    [][ (/\ me' = me /\ op = "ensure" /\ pc # "idle" /\ pc' = "idle"
         /\ result' = "ok")
        => status' # None ]_vars

\* UpdateLoadBalancer is idempotent: while the provider already holds what
\* the running Ensure or Update was asked for, it issues no mutating call.
IdempotentWhenConverged ==
    [][ (pc # "idle" /\ op # "delete" /\ Converged(snap))
        => call'.kind \notin MutatingCalls ]_vars

\* A configuration error (an unsupported protocol, a UDP port, a bad
\* annotation) is reported before any mutating call: a verb whose
\* snapshot has one changes nothing on the provider.
ConfigErrorWritesNothing ==
    [][ (pc # "idle" /\ ConfigError(snap)) => call'.kind \notin MutatingCalls ]_vars

\* An unrecognised health-check type is a configuration error: no config
\* request is sent to the provider for a Service that carries one.
InvalidCheckTypeRejected ==
    [][\A r \in call'.reqs : getHealthCheckType(snap.ann) # Err]_vars

\* addSSLCert reports every failure of the TLS material resolver as an
\* error (the (cert, key, error) contract of getTLSCertInfo): building a
\* config never takes the process down, whatever retrieveKubeClient met
\* on an earlier call.
NeverPanics == pc # "panicked"
=============================================================================
