-------------------------- MODULE MCLoadBalancers --------------------------
(***************************************************************************)
(* Model-checking instance of LoadBalancers: two ports, two Nodes, and     *)
(* annotation maps that exercise the default-protocol case folding, an     *)
(* https port with its TLS secret, an invalid health-check type, and a     *)
(* throttle in range and one above it.                                     *)
(***************************************************************************)
EXTENDS LoadBalancers

P80  == [port |-> 80,  protocol |-> "TCP", nodePort |-> 30080]
P443 == [port |-> 443, protocol |-> "TCP", nodePort |-> 30443]

MCPortLists == {<<P80>>, <<P80, P443>>}

MCNodes  == {"node-a", "node-b"}
MCNodeIP == [n \in MCNodes |-> IF n = "node-a" THEN "10.0.0.1" ELSE "10.0.0.2"]

\* One Node, for the two-worker run: the races are between the workers,
\* and one Node joining or leaving still changes what Update writes.
MCOneNode   == {"node-a"}
MCOneNodeIP == [n \in MCOneNode |-> "10.0.0.1"]

\* node-b reports no InternalIP: getNodeInternalIp returns "" for it.
MCNodeIPMissing == [n \in MCNodes |-> IF n = "node-a" THEN "10.0.0.1" ELSE ""]

\* The annotation maps: every field Absent except the ones varied here.
PortAnns == {[p \in {80, 443} |-> Absent],
             [p \in {80, 443} |-> IF p = 443
                                  THEN [protocol |-> "https", tlsSecretName |-> "tls"]
                                  ELSE Absent]}

MCAnnMaps ==
    [defaultProtocol : {Absent, "HTTP"},
     port            : PortAnns,
     checkType       : {Absent, "bogus"},
     checkPath       : {Absent},
     checkBody       : {Absent},
     checkInterval   : {Absent},
     checkTimeout    : {Absent},
     checkAttempts   : {Absent},
     checkPassive    : {Absent},
     throttle        : {5, 25}]

\* A smaller annotation space for the liveness runs: the throttle still
\* changes what Update has to write.
MCAnnMapsLive ==
    [defaultProtocol : {Absent},
     port            : {[p \in {80, 443} |-> Absent]},
     checkType       : {Absent},
     checkPath       : {Absent},
     checkBody       : {Absent},
     checkInterval   : {Absent},
     checkTimeout    : {Absent},
     checkAttempts   : {Absent},
     checkPassive    : {Absent},
     throttle        : {Absent, 5}]

\* Annotation maps with an unsupported default protocol: every port of the
\* Service fails to translate while it is set.
MCAnnMapsBadProtocol ==
    [defaultProtocol : {Absent, "ftp"},
     port            : {[p \in {80, 443} |-> Absent]},
     checkType       : {Absent},
     checkPath       : {Absent},
     checkBody       : {Absent},
     checkInterval   : {Absent},
     checkTimeout    : {Absent},
     checkAttempts   : {Absent},
     checkPassive    : {Absent},
     throttle        : {Absent}]

\* Annotation maps for the TLS runs: port 443 may be https with its
\* Secret, so Ensure and Update call addSSLCert and the lazy kube client;
\* the throttle changes what Update has to write.
MCAnnMapsTLS ==
    [defaultProtocol : {Absent},
     port            : PortAnns,
     checkType       : {Absent},
     checkPath       : {Absent},
     checkBody       : {Absent},
     checkInterval   : {Absent},
     checkTimeout    : {Absent},
     checkAttempts   : {Absent},
     checkPassive    : {Absent},
     throttle        : {Absent, 5}]
=============================================================================
