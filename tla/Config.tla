------------------------------- MODULE Config -------------------------------
(***************************************************************************)
(* From the settings to a running service: Load, Validate and              *)
(* ResolveSecrets (internal/config), and the constructors App.Run calls    *)
(* with their result.  A layer of settings is a function on the fields it  *)
(* sets.  Addresses, names and secrets are the classes the code tells      *)
(* apart; durations are in tenths of a second, -1 when they do not parse.  *)
(***************************************************************************)
EXTENDS Integers, FiniteSets

CONSTANT Settings  \* records of the layers and of what is around the process

Overlay(cfg, layer) == [f \in DOMAIN cfg |-> IF f \in DOMAIN layer THEN layer[f] ELSE cfg[f]]

Default ==
    [mode |-> "transparent", clientUser |-> "set", clientTLS |-> "disabled", tlsFiles |-> "unset",
     insecure |-> "false", mysqlListen |-> "loopback:a", adminListen |-> "loopback:b", shutdown |-> 150,
     dataDir |-> "relative", adminTokenEnv |-> "unset", level |-> "info", enabled |-> "false", host |-> "ip",
     port |-> 3306, allowEmpty |-> "false", upstreamTLS |-> "preferred", caFile |-> "unset", serverName |-> "unset",
     timeout |-> 50, logical |-> 4, upstream |-> 2, queued |-> 3]
FlagFields == {"mysqlListen", "adminListen", "dataDir", "level"}
\* The Go types of the fields: int (durations too, as they parse) and bool.
IntFields == {"shutdown", "port", "timeout", "logical", "upstream", "queued"}
BoolFields == {"insecure", "enabled", "allowEmpty"}
Typed(values, fields) ==
    /\ \A f \in fields \cap IntFields : values[f] \in Int
    /\ \A f \in fields \cap BoolFields : values[f] \in {"true", "false"}
\* What the decoders of the four layers can deliver.
WellTyped(l) ==
    /\ Typed(l.file.sets, DOMAIN l.file.sets) /\ Typed(l.env.sets, DOMAIN l.env.sets)
    /\ Typed(l.flags, DOMAIN l.flags) /\ DOMAIN l.flags \subseteq FlagFields
    /\ Typed(l.managed.sets, DOMAIN l.managed.sets) /\ l.managed.status \in {"read", "missing", "malformed"}

ToLower(s) ==
    CASE s = "Pooled" -> "pooled" [] s = "Required" -> "required" [] s = "Verify-Full" -> "verify-full" [] OTHER -> s
ValidAddress(a) == a \in {"loopback:a", "loopback:b", "network:a"}
IsLoopbackAddress(a) == a \in {"loopback:a", "loopback:b"}
BoundedDuration(d) == d >= 1 /\ d <= 6000
ShutdownDuration(d) == d > 0 /\ d <= 6000
ValidPort(p) == p \in 1..65535

PooledProblem(c) ==
    \/ c.clientUser = "unset"
    \/ ToLower(c.clientTLS) \notin {"disabled", "required"}
    \/ ToLower(c.clientTLS) = "required" /\ c.tlsFiles = "unset"
    \/ c.insecure = "false" /\ ~IsLoopbackAddress(c.mysqlListen) /\ ToLower(c.clientTLS) # "required"
UpstreamProblem(c) ==
    \/ c.host = "empty"
    \/ ~ValidPort(c.port)
    \/ ToLower(c.upstreamTLS) \notin {"disabled", "preferred", "required", "verify-ca", "verify-full"}
    \/ ToLower(c.upstreamTLS) \in {"verify-ca", "verify-full"} /\ c.caFile = "unset"
    \/ ToLower(c.upstreamTLS) = "verify-full" /\ c.serverName = "unset" /\ c.host = "ip"
    \/ ~BoundedDuration(c.timeout)
LimitProblem(c) == c.logical <= 0 \/ c.upstream <= 0 \/ c.upstream > c.logical \/ c.queued < 0
Validate(c) ==
    /\ ValidAddress(c.mysqlListen) /\ ValidAddress(c.adminListen) /\ c.mysqlListen # c.adminListen
    /\ ToLower(c.mode) \in {"transparent", "pooled"}
    /\ ToLower(c.mode) = "pooled" => ~PooledProblem(c)
    /\ ShutdownDuration(c.shutdown) /\ c.dataDir # "empty" /\ c.level \in {"debug", "info"}
    /\ ~LimitProblem(c)
    /\ c.enabled = "true" => ~UpstreamProblem(c)

-----------------------------------------------------------------------------
VARIABLES pc, cfg, layers, around, secrets, service
vars == <<pc, cfg, layers, around, secrets, service>>

NoSecrets == [admin |-> "none", client |-> "none", upstream |-> "none"]
Goes(next) == pc' = next /\ UNCHANGED <<layers, around>>
Exits == Goes("exit") /\ UNCHANGED <<cfg, secrets, service>>
Loads(next, c) == Goes(next) /\ cfg' = c /\ UNCHANGED <<secrets, service>>

InitFrom(settings) ==
    /\ pc = "file" /\ cfg = Default /\ secrets = NoSecrets /\ service = "none"
    /\ \E s \in settings : layers = s.layers /\ around = s.around
Init == InitFrom(Settings)
ReadFile ==
    /\ pc = "file"
    /\ IF layers.file.status = "read" THEN Loads("env", Overlay(cfg, layers.file.sets)) ELSE Exits
ApplyEnvironment ==
    /\ pc = "env"
    /\ IF layers.env.status = "parses" THEN Loads("flags", Overlay(cfg, layers.env.sets)) ELSE Exits
MutApplyOverrides == pc = "flags" /\ Loads("managed", Overlay(Overlay(cfg, layers.flags), layers.env.sets))
ApplyOverrides == pc = "flags" /\ Loads("managed", Overlay(cfg, layers.flags))
\* The overlay may be missing, but not malformed; then Validate decides.
ReadManaged ==
    /\ pc = "managed"
    /\ LET c == IF layers.managed.status = "missing" THEN cfg ELSE Overlay(cfg, layers.managed.sets)
       IN IF layers.managed.status # "malformed" /\ Validate(c) THEN Loads("secrets", c) ELSE Exits

\* The lookup of a secret: NAME, else the file NAME_FILE names.  A file that
\* cannot be read is remembered and reported, whatever the caller makes of it.
Looked(name) == IF around[name] \in {"unset", "unreadable"} THEN "unset" ELSE around[name]
AdminSecret(c) == IF c.adminTokenEnv = "unset" THEN "none" ELSE IF Looked("admin") = "long" THEN "long" ELSE "refused"
ClientSecret(c) ==
    IF ToLower(c.mode) # "pooled" THEN "none" ELSE IF Looked("client") = "long" THEN "long" ELSE "refused"
UpstreamSecret(c) ==
    CASE c.enabled = "false" -> "none"
      [] c.enabled = "true" /\ Looked("upstream") = "unset" -> IF c.allowEmpty = "true" THEN "none" ELSE "refused"
      [] c.enabled = "true" /\ Looked("upstream") = "empty" -> IF c.allowEmpty = "true" THEN "empty" ELSE "refused"
      [] OTHER -> "set"
\* ResolveSecrets stops at the first refusal, so later names are not looked up.
LookedUp(c) ==
    (IF c.adminTokenEnv = "set" THEN {"admin"} ELSE {})
      \cup (IF AdminSecret(c) # "refused" /\ ToLower(c.mode) = "pooled" THEN {"client"} ELSE {})
      \cup (IF AdminSecret(c) # "refused" /\ ClientSecret(c) # "refused" /\ c.enabled = "true" THEN {"upstream"} ELSE {})
LookupFails(c) == \E name \in LookedUp(c) : around[name] = "unreadable"
ResolveSecrets ==
    /\ pc = "secrets"
    /\ LET s == [admin |-> AdminSecret(cfg), client |-> ClientSecret(cfg), upstream |-> UpstreamSecret(cfg)]
       IN IF LookupFails(cfg) \/ \E n \in DOMAIN s : s[n] = "refused" THEN Exits
          ELSE Goes("configure") /\ secrets' = s /\ UNCHANGED <<cfg, service>>

\* App.Run: the connector (with buildTLSConfig, which reads the CA file), then the
\* gateway (with newClientTLS, the probe and the pool) or the relay.
ConnectorFails == ToLower(cfg.upstreamTLS) \in {"verify-ca", "verify-full"} /\ around.roots = "bad"
ClientTLSFails == cfg.clientTLS \notin {"disabled", "required"} \/ (cfg.clientTLS = "required" /\ around.certificate = "bad")
Configure ==
    /\ pc = "configure"
    /\ CASE cfg.enabled = "false" -> Goes("ready") /\ UNCHANGED <<cfg, secrets, service>>
         [] cfg.enabled = "true" /\ ConnectorFails -> Exits
         [] cfg.enabled = "true" /\ ~ConnectorFails /\ cfg.mode = "pooled" ->
               IF ClientTLSFails \/ around.probe = "fails" THEN Exits
               ELSE Goes("ready") /\ service' = "gateway" /\ UNCHANGED <<cfg, secrets>>
         [] OTHER -> Goes("ready") /\ service' = "relay" /\ UNCHANGED <<cfg, secrets>>
Next == ReadFile \/ ApplyEnvironment \/ ApplyOverrides \/ ReadManaged \/ ResolveSecrets \/ Configure
Spec == Init /\ [][Next]_vars

-----------------------------------------------------------------------------
Sets(layer, f) == f \in DOMAIN layer
\* A setting that is in force comes from the last layer that sets it, in the order
\* of Load: defaults, file, environment, flags, managed overlay.
LastLayerWins ==
    pc \in {"secrets", "configure", "ready"} =>
        \A f \in DOMAIN Default :
            cfg[f] = CASE layers.managed.status = "read" /\ Sets(layers.managed.sets, f) -> layers.managed.sets[f]
                       [] ~(layers.managed.status = "read" /\ Sets(layers.managed.sets, f)) ->
                             IF Sets(layers.flags, f) THEN layers.flags[f]
                             ELSE IF Sets(layers.env.sets, f) THEN layers.env.sets[f]
                             ELSE IF Sets(layers.file.sets, f) THEN layers.file.sets[f] ELSE Default[f]

\* What the running service uses without looking at it again is in range: the
\* channel capacities are not negative (a panic), the durations whose errors are
\* dropped parse, and the two listeners differ.
LimitsUsable ==
    pc = "ready" =>
        /\ cfg.upstream \in 1..cfg.logical /\ cfg.queued >= 0 /\ ShutdownDuration(cfg.shutdown)
        /\ service # "none" => BoundedDuration(cfg.timeout)
        /\ cfg.mysqlListen # cfg.adminListen

\* A gateway that listens beyond the loopback has TLS, or the operator's consent.
NetworkProtected ==
    service = "gateway" /\ ~IsLoopbackAddress(cfg.mysqlListen) => cfg.clientTLS = "required" \/ cfg.insecure = "true"

\* A gateway checks its clients against a password; and no service starts with an
\* empty upstream password because a secret file could not be read.
SecretsResolved ==
    /\ service = "gateway" => secrets.client = "long"
    /\ service # "none" => around.upstream # "unreadable" /\ (secrets.upstream # "set" => cfg.allowEmpty = "true")

\* The settings in force are those that were asked for, and a service that starts
\* has limits, protection and secrets it can rely on.
SettingsSound == LastLayerWins /\ LimitsUsable /\ NetworkProtected /\ SecretsResolved
=============================================================================
