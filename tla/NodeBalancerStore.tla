------------------------- MODULE NodeBalancerStore -------------------------
(***************************************************************************)
(* What the load-balancer reconciler promises about the provider side of   *)
(* one Service, seen as a store keyed by Service port.                     *)
(*                                                                         *)
(* The Service's NodeBalancer is absent or present with an id, a           *)
(* connection throttle and at most one config per port.  A verb is asked  *)
(* to realise one snapshot of the Service and its Nodes; while it runs,    *)
(* each step changes one thing, and only towards that snapshot: it creates *)
(* the NodeBalancer with every port configured, sets the throttle, puts    *)
(* the desired config on a wanted port, or drops the config of an          *)
(* unwanted port.  The NodeBalancer can be destroyed at any time (by the   *)
(* delete verb or out of band); it never turns into another one in a       *)
(* single step.  The Service is removed once a verb leaves no NodeBalancer *)
(* behind, and nothing is asked of the store after that.                   *)
(***************************************************************************)
CONSTANTS
    NBIds,                  \* NodeBalancer ids
    Ports,                  \* every Service port number
    Snapshots,              \* the Service states a verb may be asked for
    None,
    DesiredThrottle(_),     \* the throttle a snapshot asks for
    DesiredConfig(_, _, _)  \* snapshot, port spec, NodeBalancer id -> config

VARIABLES
    nb,     \* None, or [id, throttle, cfg : Ports -> config or None]
    asked,  \* the snapshot the running verb realises, None when idle
    removed \* the Service is gone from the API server

vars == <<nb, asked, removed>>

PortsOf(s) == {s.ports[i].port : i \in DOMAIN s.ports}
PortSpec(s, p) == s.ports[CHOOSE i \in DOMAIN s.ports : s.ports[i].port = p]

\* A step of the running verb that leaves the store as new; the verb may
\* return in the same step.  Every step of a verb has asked # None.
Write(new) ==
    /\ nb' = new
    /\ asked' \in {asked, None}
    /\ UNCHANGED removed

Ask    == ~removed /\ asked = None /\ asked' \in Snapshots /\ UNCHANGED <<nb, removed>>
Settle == asked # None /\ asked' = None /\ UNCHANGED <<nb, removed>>

Create ==
    /\ asked # None
    /\ nb = None
    /\ \E id \in NBIds :
        Write([id |-> id, throttle |-> DesiredThrottle(asked),
               cfg |-> [p \in Ports |->
                          IF p \in PortsOf(asked)
                          THEN DesiredConfig(asked, PortSpec(asked, p), id)
                          ELSE None]])

Retune ==
    /\ asked # None
    /\ nb # None
    /\ Write([nb EXCEPT !.throttle = DesiredThrottle(asked)])

Put ==
    /\ asked # None
    /\ nb # None
    /\ \E p \in PortsOf(asked) :
        Write([nb EXCEPT !.cfg[p] = DesiredConfig(asked, PortSpec(asked, p), nb.id)])

Drop ==
    /\ asked # None
    /\ nb # None
    /\ \E p \in Ports \ PortsOf(asked) : Write([nb EXCEPT !.cfg[p] = None])

Destroy ==
    /\ nb # None
    /\ nb' = None
    /\ asked' \in {asked, None}
    /\ UNCHANGED removed

\* The running verb returns and the Service is removed with no
\* NodeBalancer left (destroyed in this step or before).
Remove ==
    /\ asked # None
    /\ ~removed
    /\ nb' = None
    /\ asked' = None
    /\ removed' = TRUE

Init == nb = None /\ asked = None /\ removed = FALSE

Next == Ask \/ Settle \/ Create \/ Retune \/ Put \/ Drop \/ Destroy \/ Remove

Spec == Init /\ [][Next]_vars
=============================================================================
