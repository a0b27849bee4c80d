---------------------------- MODULE DeployConfig ----------------------------
(***************************************************************************)
(* The configuration of a deployment: the environment check that is run     *)
(* before a release (validate-env.mjs, with an env file under the process's *)
(* environment), and what the web application (env.ts, proxy.ts) and the    *)
(* gateway (config.rs) make of the same environment when they start.  A     *)
(* value is the name of a class of strings; variables that nobody checks    *)
(* the form of are left out.                                                *)
(***************************************************************************)
EXTENDS Naturals, Sequences

CONSTANTS
    MaxEdits   \* bound on the differences from a complete production environment

VARIABLES
    file,      \* the env file
    proc,      \* the process's own environment
    report,    \* the last check: {} or its scope, service, missing and malformed
    web,       \* the web application: what it runs with
    gateway,   \* the gateway
    edits

vars == <<file, proc, report, web, gateway, edits>>

Unset == "unset"
Empty == "empty"

\* Every number where one of the limits lies, in order.
Numbers == <<"0", "1", "1023", "1024", "10000", "10001", "65535", "65536", "2^32-1", "2^32",
             "2^64-1", "2^64">>
Rank(c) == CHOOSE i \in DOMAIN Numbers : Numbers[i] = c
IsNumber(c) == \E i \in DOMAIN Numbers : Numbers[i] = c
Within(c, lo, hi) == IsNumber(c) /\ Rank(lo) <= Rank(c) /\ Rank(c) <= Rank(hi)

\* The smallest and largest number the check accepts, and the gateway's type.
Limits ==
    [GATEWAY_BIND_PORT |-> [check |-> <<"1", "65535">>, parse |-> <<"0", "65535">>],
     GATEWAY_MAX_FRAME_SIZE |-> [check |-> <<"1024", "2^64">>, parse |-> <<"1024", "2^64-1">>],
     GATEWAY_QUEUE_CAPACITY |-> [check |-> <<"1", "2^64">>, parse |-> <<"1", "2^64-1">>],
     GATEWAY_IDLE_TIMEOUT_SECS |-> [check |-> <<"1", "2^64">>, parse |-> <<"0", "2^64-1">>],
     GATEWAY_DB_POOL_SIZE |-> [check |-> <<"1", "2^64">>, parse |-> <<"1", "2^32-1">>],
     GATEWAY_ID |-> [check |-> <<"1", "2^64">>, parse |-> <<"0", "2^64-1">>],
     GATEWAY_RATE_CONNECT_PER_MIN |-> [check |-> <<"1", "10000">>, parse |-> <<"1", "10000">>]]

OfGateway == DOMAIN Limits \cup
    {"GATEWAY_OTEL_ENABLED", "GATEWAY_REQUIRE_INTERNAL_SERVICES", "GATEWAY_DATABASE_URL",
     "GATEWAY_NATS_URL", "GATEWAY_REDIS_URL", "GATEWAY_CLERK_ISSUER", "GATEWAY_CLERK_AUDIENCE",
     "GATEWAY_TRUSTED_PROXY_CIDRS", "GATEWAY_BIND_HOST", "GATEWAY_ALLOWED_ORIGINS",
     "GATEWAY_OTEL_SAMPLE_RATIO", "GATEWAY_OTEL_EXPORTER", "GATEWAY_WORKER_BINARY"}
OfWeb ==
    {"DATABASE_URL", "DATABASE_TEST_URL", "CLERK_SECRET_KEY", "NEXT_PUBLIC_CLERK_PUBLISHABLE_KEY",
     "CONCORD_REQUIRE_TLS", "CONCORD_APP_ORIGIN", "NEXT_PUBLIC_SYNC_GATEWAY_URL"}
Vars == OfGateway \cup OfWeb

\* The values an operator may give each variable, apart from none and "".
Domain(v) ==
    CASE v \in DOMAIN Limits -> {"0", "1", "1024", "10001", "65536", "2^32", "2^64", "text"}
      [] v \in {"GATEWAY_OTEL_ENABLED", "GATEWAY_REQUIRE_INTERNAL_SERVICES"} ->
            {"true", "false", "TRUE", "text"}
      [] v \in {"DATABASE_URL", "DATABASE_TEST_URL", "GATEWAY_DATABASE_URL"} ->
            {"postgres://db", "postgres://", "mysql://db"}
      [] v \in {"GATEWAY_NATS_URL", "GATEWAY_REDIS_URL"} -> {"redis://host", "rediss://host"}
      [] v = "CLERK_SECRET_KEY" -> {"sk_test_k", "secret"}
      [] v = "NEXT_PUBLIC_CLERK_PUBLISHABLE_KEY" -> {"pk_test_k", "key"}
      [] v = "CONCORD_REQUIRE_TLS" -> {"0", "1", "yes"}
      [] v = "CONCORD_APP_ORIGIN" -> {"https://app", "http://app", "https://app/path"}
      [] v = "NEXT_PUBLIC_SYNC_GATEWAY_URL" ->
            {"wss://gw/sync", "ws://gw/sync", "https://gw", "wss://gw#f"}
      [] v = "GATEWAY_CLERK_ISSUER" -> {"https://clerk.app", "clerk"}
      [] v = "GATEWAY_CLERK_AUDIENCE" -> {"audience", " padded "}
      [] v = "GATEWAY_TRUSTED_PROXY_CIDRS" -> {"10.0.0.0/8", "0.0.0.0/0", "proxy"}
      [] v = "GATEWAY_BIND_HOST" -> {"0.0.0.0", "01.2.3.4", "localhost", "[::1]"}
      [] v = "GATEWAY_ALLOWED_ORIGINS" -> {"https://app"}
      [] v = "GATEWAY_OTEL_SAMPLE_RATIO" -> {"0.5", "1.5", "5e-1"}
      [] v = "GATEWAY_OTEL_EXPORTER" -> {"otlp", "OTLP", "zipkin"}
      [] v = "GATEWAY_WORKER_BINARY" -> {"worker", "nowhere"}

\* A complete environment of a production deployment.
Complete ==
    [v \in Vars |->
        CASE v \in {"DATABASE_URL", "GATEWAY_DATABASE_URL"} -> "postgres://db"
          [] v = "GATEWAY_NATS_URL" -> "redis://host"
          [] v = "CLERK_SECRET_KEY" -> "sk_test_k"
          [] v = "NEXT_PUBLIC_CLERK_PUBLISHABLE_KEY" -> "pk_test_k"
          [] v = "CONCORD_REQUIRE_TLS" -> "1"
          [] v = "CONCORD_APP_ORIGIN" -> "https://app"
          [] v = "NEXT_PUBLIC_SYNC_GATEWAY_URL" -> "wss://gw/sync"
          [] v = "GATEWAY_CLERK_ISSUER" -> "https://clerk.app"
          [] v = "GATEWAY_BIND_HOST" -> "0.0.0.0"
          [] v = "GATEWAY_ALLOWED_ORIGINS" -> "https://app"
          [] v = "GATEWAY_WORKER_BINARY" -> "worker"
          [] OTHER -> Unset]

\* The process's environment wins over the file, with an empty value too.
Effective == [v \in Vars |-> IF proc[v] = Unset THEN file[v] ELSE proc[v]]

-----------------------------------------------------------------------------
(* The check.                                                              *)

Scopes == {"dev", "staging", "prod"}
Services == {"web", "gateway", "all"}

\* MATRIX: the variables each scope needs ...
WebRequired == {"DATABASE_URL", "CLERK_SECRET_KEY", "NEXT_PUBLIC_CLERK_PUBLISHABLE_KEY"}

GatewayRequired(scope) ==
    {"GATEWAY_DATABASE_URL", "GATEWAY_CLERK_ISSUER"}
    \cup (IF scope = "dev" THEN {}
          ELSE {"GATEWAY_BIND_HOST", "GATEWAY_ALLOWED_ORIGINS", "GATEWAY_NATS_URL"})
    \cup (IF scope = "prod" THEN {"GATEWAY_WORKER_BINARY"} ELSE {})

\* Mutant: a number has no upper limit.
WellFormedUnbounded(v, c) ==
    CASE v \in DOMAIN Limits -> Within(c, Limits[v].check[1], "2^64")
      [] v = "GATEWAY_BIND_HOST" -> c \in {"0.0.0.0", "01.2.3.4"}
      [] v = "GATEWAY_OTEL_ENABLED" -> c \in {"true", "false", "TRUE"}
      [] v = "GATEWAY_OTEL_SAMPLE_RATIO" -> c = "0.5"
      [] v = "GATEWAY_OTEL_EXPORTER" -> c \in {"otlp", "OTLP"}
      [] OTHER -> TRUE

\* ... and the formats of those it knows.
WellFormed(v, c) ==
    CASE v \in DOMAIN Limits -> Within(c, Limits[v].check[1], Limits[v].check[2])
      [] v \in {"DATABASE_URL", "DATABASE_TEST_URL", "GATEWAY_DATABASE_URL"} -> c = "postgres://db"
      [] v \in {"GATEWAY_NATS_URL", "GATEWAY_REDIS_URL"} -> c = "redis://host"
      [] v = "CLERK_SECRET_KEY" -> c = "sk_test_k"
      [] v = "NEXT_PUBLIC_CLERK_PUBLISHABLE_KEY" -> c = "pk_test_k"
      [] v = "GATEWAY_CLERK_ISSUER" -> c = "https://clerk.app"
      [] v = "GATEWAY_BIND_HOST" -> c \in {"0.0.0.0", "01.2.3.4"}
      [] v = "GATEWAY_OTEL_ENABLED" -> c \in {"true", "false", "TRUE"}
      [] v = "GATEWAY_OTEL_SAMPLE_RATIO" -> c = "0.5"
      [] v = "GATEWAY_OTEL_EXPORTER" -> c \in {"otlp", "OTLP"}
      [] v = "GATEWAY_WORKER_BINARY" -> c = "worker"
      [] OTHER -> TRUE

IsSet(c) == c \notin {Unset, Empty}

\* The report of one service, or of both ("all").
Findings(scope, service) ==
    LET env == Effective
        required == (IF service = "gateway" THEN {} ELSE WebRequired)
                    \cup (IF service = "web" THEN {} ELSE GatewayRequired(scope))
        selected == (IF service = "gateway" THEN {} ELSE OfWeb)
                    \cup (IF service = "web" THEN {} ELSE OfGateway)
    IN  [service |-> service,
         missing |-> {v \in required : ~IsSet(env[v])},
         malformed |-> {v \in selected : IsSet(env[v]) /\ ~WellFormed(v, env[v])}]

Check(scope, service) ==
    /\ report = {} /\ report' = {Findings(scope, service)}
    /\ UNCHANGED <<file, proc, web, gateway, edits>>

Passed(service) ==
    \E r \in report : r.service \in {service, "all"} /\ r.missing = {} /\ r.malformed = {}

-----------------------------------------------------------------------------
(* The web application.                                                    *)

\* parseConcordAppOrigin, parseSyncGatewayOrigin: the scheme, none, or refused.
AppOrigin(c) ==
    CASE ~IsSet(c) -> "none"
      [] c = "https://app" -> "https"
      [] c = "http://app" -> "http"
      [] OTHER -> "refused"

SyncGatewayOrigin(c) ==
    CASE ~IsSet(c) -> "none"
      [] c = "wss://gw/sync" -> "wss"
      [] c = "ws://gw/sync" -> "ws"
      [] OTHER -> "refused"

\* validateWebSecurityEnvironment
WebSecurityIssues(env) ==
    LET tls == env["CONCORD_REQUIRE_TLS"]
        app == AppOrigin(env["CONCORD_APP_ORIGIN"])
        sync == SyncGatewayOrigin(env["NEXT_PUBLIC_SYNC_GATEWAY_URL"])
    IN  {v \in {"CONCORD_REQUIRE_TLS"} : tls \notin {Unset, Empty, "0", "1"}}
        \cup {v \in {"CONCORD_APP_ORIGIN"} : app = "refused" \/ (tls = "1" /\ app # "https")}
        \cup {v \in {"NEXT_PUBLIC_SYNC_GATEWAY_URL"} :
                  sync = "refused" \/ (tls = "1" /\ sync # "wss")}

\* serverEnvSchema: only the security variables take "" for none.
ServerEnvIssues(env) ==
    {v \in {"DATABASE_URL", "DATABASE_TEST_URL"} :
        env[v] \notin {"postgres://db", "postgres://"} \cup
                      (IF v = "DATABASE_TEST_URL" THEN {Unset} ELSE {})}
    \cup {v \in {"CLERK_SECRET_KEY", "NEXT_PUBLIC_CLERK_PUBLISHABLE_KEY"} : ~IsSet(env[v])}
    \cup WebSecurityIssues(env)

\* proxy.ts: the sources the browser may connect to, the parties a session may
\* come from, and whether the browser keeps to https.
SecurityHeaders(env) ==
    [connect |-> {SyncGatewayOrigin(env["NEXT_PUBLIC_SYNC_GATEWAY_URL"])} \ {"none"},
     parties |-> {AppOrigin(env["CONCORD_APP_ORIGIN"])} \ {"none"},
     hsts |-> env["CONCORD_REQUIRE_TLS"] = "1"]

Started(env) ==
    [issues |-> ServerEnvIssues(env),
     headers |-> IF WebSecurityIssues(env) = {} THEN {SecurityHeaders(env)} ELSE {}]

StartWeb ==
    /\ Passed("web") /\ web = {} /\ web' = {Started(Effective)}
    /\ UNCHANGED <<file, proc, report, gateway, edits>>

-----------------------------------------------------------------------------
(* The gateway.                                                            *)

\* Config::from_env: what is read as it is, what is parsed, what is checked.
Refuses(env, v, c) ==
    CASE v \in DOMAIN Limits ->
           c # Unset /\ ~Within(c, Limits[v].parse[1], Limits[v].parse[2])
      [] v \in {"GATEWAY_DATABASE_URL", "GATEWAY_CLERK_ISSUER"} -> c = Unset
      [] v \in {"GATEWAY_OTEL_ENABLED", "GATEWAY_REQUIRE_INTERNAL_SERVICES"} ->
           c \notin {Unset, "true", "false"}
      [] v = "GATEWAY_CLERK_AUDIENCE" -> c \in {Empty, " padded "}
      [] v = "GATEWAY_TRUSTED_PROXY_CIDRS" -> c \in {"0.0.0.0/0", "proxy"}
      [] v = "GATEWAY_BIND_HOST" -> c \notin {Unset, "0.0.0.0", "[::1]"}
      [] v = "GATEWAY_OTEL_SAMPLE_RATIO" -> c \in {Empty, "1.5"}
      [] v = "GATEWAY_OTEL_EXPORTER" -> c \notin {Unset, "otlp", "OTLP"}
      [] v = "GATEWAY_WORKER_BINARY" -> c = "nowhere"
      [] v \in {"GATEWAY_NATS_URL", "GATEWAY_REDIS_URL"} ->
           env["GATEWAY_REQUIRE_INTERNAL_SERVICES"] = "true" /\ ~IsSet(c)
      [] OTHER -> FALSE

GatewayIssues(env) == {v \in OfGateway : Refuses(env, v, env[v])}

StartGateway ==
    /\ Passed("gateway") /\ gateway = {}
    /\ gateway' = {GatewayIssues(Effective)}
    /\ UNCHANGED <<file, proc, report, web, edits>>

-----------------------------------------------------------------------------
(* The operator.                                                           *)

Init ==
    /\ file = Complete /\ proc = [v \in Vars |-> Unset]
    /\ report = {} /\ web = {} /\ gateway = {} /\ edits = 0

Edit ==
    /\ edits < MaxEdits /\ edits' = edits + 1
    /\ report = {}
    /\ UNCHANGED <<report, web, gateway>>

\* A variable is exported, empty too, or taken out of the file.
Export(v, c) == Edit /\ proc[v] = Unset /\ proc' = [proc EXCEPT ![v] = c] /\ UNCHANGED file

Remove(v) ==
    Edit /\ file[v] # Unset /\ proc[v] = Unset /\ file' = [file EXCEPT ![v] = Unset] /\ UNCHANGED proc

Next ==
    \/ \E v \in Vars : Remove(v) \/ \E c \in Domain(v) \cup {Empty} : Export(v, c)
    \/ \E scope \in Scopes, service \in Services : Check(scope, service)
    \/ StartWeb \/ StartGateway

Spec == Init /\ [][Next]_vars

-----------------------------------------------------------------------------
(* Properties.                                                             *)

\* What a passed check does not know: values that are empty where a service
\* parses them, forms it takes and the parser does not, numbers beyond the
\* type, and the variables its matrix lacks.
Unknown(v, c) ==
    \/ c = Empty
    \/ v = "GATEWAY_OTEL_ENABLED" /\ c = "TRUE"
    \/ v = "GATEWAY_BIND_HOST" /\ c = "01.2.3.4"
    \/ v \in DOMAIN Limits /\ c \in {"2^32", "2^64"}
    \/ v \in {"CONCORD_REQUIRE_TLS", "CONCORD_APP_ORIGIN", "NEXT_PUBLIC_SYNC_GATEWAY_URL",
              "GATEWAY_CLERK_AUDIENCE", "GATEWAY_TRUSTED_PROXY_CIDRS",
              "GATEWAY_REQUIRE_INTERNAL_SERVICES"}
    \/ v \in {"GATEWAY_NATS_URL", "GATEWAY_REDIS_URL"}

Refused == UNION ({w.issues : w \in web} \cup gateway)

\* A service that starts after a passed check refuses nothing but what the
\* check does not know (validate-env.mjs against env.ts and config.rs): the
\* two hand-kept contracts do not drift apart elsewhere.
PassedStarts == \A v \in Refused : Unknown(v, Effective[v])

\* With TLS required, pages are served only with headers that keep the browser
\* to the secure gateway and the session to the https origin (env.ts, proxy.ts).
TlsIsWhole ==
    \A w \in web : \A h \in w.headers :
        Effective["CONCORD_REQUIRE_TLS"] = "1" =>
            h.connect = {"wss"} /\ h.parties = {"https"} /\ h.hsts

\* What the check says of itself: a release that passes has every variable its
\* services need, in the right form (validate-env.mjs:5, CONFIGURATION.md).
PassedIsEnough == Refused = {}

\* The invariant: after the check nothing is edited, so that what is reported
\* and what the services made of the environment is still true of it.
ConfigInv ==
    /\ DOMAIN file = Vars /\ DOMAIN proc = Vars
    /\ \A v \in DOMAIN Limits : Effective[v] # "2^64-1"
    /\ \A r \in report : \E scope \in Scopes, service \in Services : r = Findings(scope, service)
    /\ \A w \in web : Passed("web") /\ w = Started(Effective)
    /\ \A g \in gateway : Passed("gateway") /\ g = GatewayIssues(Effective)
=============================================================================
