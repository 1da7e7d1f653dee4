---------------------------- MODULE Annotations ----------------------------
(***************************************************************************)
(* The annotation/config translator of cloud/linode/loadbalancers.go: the  *)
(* pure functions that turn a Service's annotation map into the            *)
(* NodeBalancer config the reconciler sends to the provider.               *)
(*                                                                         *)
(* An annotation map is a record with one field per annotation the code    *)
(* reads; a field holds Absent when the key is missing from the map.       *)
(* Annotation strings are abstracted to what the parsers tell apart: an    *)
(* integer stands for a decimal string strconv.Atoi accepts, Garbage for   *)
(* any string it rejects (including "" and decimal strings outside int64), *)
(* and a port annotation is BadJSON or the record json.Unmarshal yields    *)
(* (missing JSON fields are "").                                           *)
(***************************************************************************)
EXTENDS Integers

CONSTANTS
    Absent,   \* the annotation key is not in service.Annotations
    Garbage,  \* a string strconv.Atoi / strconv.ParseBool reject
    BadJSON,  \* a port annotation json.Unmarshal rejects
    Err,      \* the error result of a translator function
    Secrets   \* names of the TLS secrets present in the Service's namespace

\* The result of building the config of a port whose health-check
\* annotation is invalid: buildNodeBalancerConfig returns the zero
\* linodego.NodeBalancerConfig{} together with a nil error.
ZeroConfig ==
    [port |-> 0, protocol |-> "", check |-> "", checkPath |-> "",
     checkBody |-> "", interval |-> 0, timeout |-> 0, attempts |-> 0,
     passive |-> FALSE, tls |-> ""]

\* strings.ToLower on the protocol strings the annotations may carry.
ToLower(s) ==
    CASE s \in {"TCP", "Tcp"}   -> "tcp"
      [] s \in {"HTTP", "Http"} -> "http"
      [] s \in {"HTTPS", "Https"} -> "https"
      [] OTHER -> s

\* strconv.Atoi and strconv.ParseBool, on the abstracted strings.
Atoi(v) == IF v \in Int THEN v ELSE Err
ParseBool(v) ==
    CASE v \in {"1", "t", "T", "true", "TRUE", "True"}  -> TRUE
      [] v \in {"0", "f", "F", "false", "FALSE", "False"} -> FALSE
      [] OTHER -> Err

\* getPortConfigAnnotation: the per-port JSON annotation, decoded.
getPortConfigAnnotation(ann, port) ==
    LET a == ann.port[port] IN
    CASE a = Absent  -> [protocol |-> "", tlsSecretName |-> ""]
      [] a = BadJSON -> Err
      [] OTHER       -> a

\* getPortConfig: per-port annotation > default-protocol annotation > "tcp",
\* case-folded, then validated.
getPortConfig(ann, port) ==
    LET pca == getPortConfigAnnotation(ann, port)
        raw == IF pca = Err THEN "" ELSE
               IF pca.protocol # "" THEN pca.protocol ELSE
               IF ann.defaultProtocol = Absent THEN "tcp" ELSE ann.defaultProtocol
        protocol == ToLower(raw)
    IN  IF pca = Err \/ protocol \notin {"tcp", "http", "https"}
        THEN Err
        ELSE [tlsSecretName |-> pca.tlsSecretName, protocol |-> protocol,
              port |-> port]

\* getHealthCheckType: no case folding here, unlike getPortConfig.
getHealthCheckType(ann) ==
    CASE ann.checkType = Absent -> "connection"
      [] ann.checkType \in {"none", "connection", "http", "http_body"} -> ann.checkType
      [] OTHER -> Err

\* A numeric health-check annotation: its default when absent, else Atoi.
NumericAnn(v, default) == IF v = Absent THEN default ELSE Atoi(v)

\* getTLSCertInfo: the secret named by the port annotation; its trimmed
\* cert/key pair is abstracted to the secret's name.
getTLSCertInfo(pc) ==
    IF pc.tlsSecretName = "" \/ pc.tlsSecretName \notin Secrets
    THEN Err ELSE pc.tlsSecretName

\* buildNodeBalancerConfig up to the addSSLCert call: the config for one
\* service port without its certificate, Err, or the ZeroConfig when the
\* health-check type is invalid (the error is dropped).
baseNodeBalancerConfig(ann, port) ==
    LET pc       == getPortConfig(ann, port)
        health   == getHealthCheckType(ann)
        httpish  == health \in {"http", "http_body"}
        path     == IF ann.checkPath = Absent THEN "/" ELSE ann.checkPath
        body     == IF ann.checkBody = Absent THEN "" ELSE ann.checkBody
        interval == NumericAnn(ann.checkInterval, 5)
        timeout  == NumericAnn(ann.checkTimeout, 3)
        attempts == NumericAnn(ann.checkAttempts, 2)
        passive  == IF ann.checkPassive = Absent THEN TRUE
                    ELSE ParseBool(ann.checkPassive)
    IN  CASE pc = Err -> Err
          [] health = Err -> ZeroConfig
          [] health = "http_body" /\ body = "" -> Err
          [] \/ interval = Err \/ timeout = Err \/ attempts = Err
             \/ passive = Err -> Err
          [] OTHER ->
               [port |-> port, protocol |-> pc.protocol, check |-> health,
                checkPath |-> IF httpish THEN path ELSE "",
                checkBody |-> IF health = "http_body" THEN body ELSE "",
                interval |-> interval, timeout |-> timeout,
                attempts |-> attempts, passive |-> passive, tls |-> ""]

\* The port's config was built up to its protocol and that is https:
\* buildNodeBalancerConfig goes on to call addSSLCert.
NeedsSSLCert(ann, port) ==
    LET b == baseNodeBalancerConfig(ann, port) IN b # Err /\ b.protocol = "https"

\* buildNodeBalancerConfig when the kube client works: the base config
\* with the certificate of the named Secret, or Err when there is none.
buildNodeBalancerConfig(ann, port) ==
    LET b   == baseNodeBalancerConfig(ann, port)
        tls == getTLSCertInfo(getPortConfig(ann, port))
    IN  IF ~NeedsSSLCert(ann, port) THEN b
        ELSE IF tls = Err THEN Err ELSE [b EXCEPT !.tls = tls]

\* Mutant: the upper clamp of getConnectionThrottle left out.
getConnectionThrottle_noUpperClamp(ann) ==
    LET v == ann.throttle IN
    IF v = Absent \/ Atoi(v) = Err THEN 20 ELSE IF v < 0 THEN 0 ELSE v

\* getConnectionThrottle: default 20; a parsable value clamped to [0, 20];
\* an unparsable one (Atoi error) leaves the default.
getConnectionThrottle(ann) ==
    LET v == ann.throttle IN
    IF v = Absent \/ Atoi(v) = Err THEN 20
    ELSE IF v < 0 THEN 0 ELSE IF v > 20 THEN 20 ELSE v
=============================================================================
