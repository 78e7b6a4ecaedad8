---------------------------- MODULE ServerConfig ----------------------------
(***************************************************************************)
(* internal/config: what Load makes of the environment.  An environment is *)
(* a record from variable names to values: a string, a number or a truth   *)
(* value where the text parses, Garbage where it does not.  Durations and  *)
(* rates are plain numbers.  The loaders and validators keep their order:  *)
(* a conjunct is reached only when the ones before it hold.                *)
(***************************************************************************)
EXTENDS Integers

CONSTANTS
    Unset,    \* the variable is not set
    Empty,    \* it is set to the empty string
    Blank,    \* it is set to white space
    Garbage,  \* it does not parse
    NaN       \* the float "NaN", which parses

\* They are different from each other, from every number and every text.
ASSUME ServerConfigAssumption ==
    /\ Unset \notin {Empty, Blank, Garbage, NaN} /\ Empty \notin {Blank, Garbage, NaN}
    /\ Blank \notin {Garbage, NaN} /\ Garbage # NaN
    /\ \A m \in {Unset, Empty, Blank, Garbage, NaN} :
          m \notin Int /\ m \notin STRING /\ m \notin BOOLEAN

\* The defaults of the variables that have one.
Default ==
    [ANCHOR_ADDRESS |-> "hex", MCP_TRANSPORT |-> "stdio", AUTH_PROVIDER |-> "apikey",
     REQUEST_TIMEOUT |-> 15, KEY_DEFAULT_TTL |-> 8760, JWT_CLOCK_SKEW |-> 60,
     OTEL_TRACE_SAMPLE_RATIO |-> 1, NVNM_READINESS_MAX_BLOCK_AGE |-> 5,
     RPC_MAX_RETRIES |-> 3, RPC_INITIAL_BACKOFF |-> 1, RPC_MAX_BACKOFF |-> 10,
     RPC_RATE_LIMIT |-> 100, RPC_RATE_BURST |-> 20,
     CIRCUIT_BREAKER_THRESHOLD |-> 5, CIRCUIT_BREAKER_TIMEOUT |-> 30,
     MCP_RATE_LIMIT |-> 60, MCP_RATE_BURST |-> 10,
     MCP_ANON_RATE_LIMIT |-> 5, MCP_ANON_RATE_BURST |-> 5,
     MCP_SIGNER_WRITE_RATE |-> 500, MCP_SIGNER_WRITE_WINDOW |-> 24,
     MCP_RETENTION_PURGE_INTERVAL |-> 1, NVNM_TRUSTED_PROXY_HOPS |-> 1,
     NVNM_KEY_REQUEST_RATE_LIMIT |-> 1, NVNM_KEY_REQUEST_RATE_BURST |-> 3,
     NVNM_KEY_REQUEST_MAX_BODY_BYTES |-> 16384]

Flags ==
    {"ENABLE_WRITE_TOOLS", "ENABLE_PROMETHEUS", "ENABLE_STDOUT_TELEMETRY",
     "OTLP_INSECURE", "NVNM_TRUST_PROXY_HEADERS", "MCP_KEYLESS_READS",
     "MCP_KEYLESS_WRITES", "MCP_RELAY_ALLOW_ANY", "MCP_SIGNER_QUOTA_FAIL_OPEN",
     "MCP_SIGNER_BLACKLIST_FAIL_OPEN", "NVNM_KEY_REQUEST_ENABLED",
     "NVNM_ALLOW_KEY_IN_LOGS"}

Windows ==
    {"MCP_WRITE_AUDIT_RETENTION", "MCP_WRITE_AUDIT_GRANT_ROLE_RETENTION",
     "MCP_SIGNER_QUOTA_RETENTION", "MCP_SIGNER_BLACKLIST_RETENTION",
     "MCP_ADMIN_AUDIT_RETENTION"}

\* Variables that are parsed when set and have no default.
Optional == Windows \cup {"NVNM_CHAIN_ID", "NVNM_SMTP_PORT"}

Texts ==
    {"NVNM_EVM_RPC_URL", "MCP_API_KEY", "MCP_API_KEY_ROLES", "MCP_API_KEYS_FILE",
     "ADMIN_API_KEY", "ADMIN_API_KEYS_FILE", "KEY_HMAC_PEPPER",
     "KEY_HMAC_PEPPER_PREVIOUS", "KEY_STORE_BACKEND", "KEY_STORE_DSN",
     "MCP_KEYLESS_PG_DSN", "FUSIONAUTH_URL", "FUSIONAUTH_APPLICATION_ID",
     "MCP_CLIENT_ID_HMAC_KEY", "NVNM_CHAIN_ENVIRONMENT", "NVNM_KEY_PENDING_FILE",
     "NVNM_SMTP_HOST", "NVNM_SMTP_FROM", "WRITE_APPROVAL_DEFAULT"}

Legacy == {"INVENIAM_EVM_RPC_URL", "INVENIAM_EVM_ARCHIVE_RPC_URL", "INVENIAM_CHAIN_ID"}

Variables == DOMAIN Default \cup Flags \cup Optional \cup Texts \cup Legacy

\* The variables with a default that are not numbers, and the floats.
Named == {"ANCHOR_ADDRESS", "MCP_TRANSPORT", "AUTH_PROVIDER"}
Floats == {"OTEL_TRACE_SAMPLE_RATIO", "RPC_RATE_LIMIT", "MCP_RATE_LIMIT",
           "MCP_ANON_RATE_LIMIT", "NVNM_KEY_REQUEST_RATE_LIMIT"}
Peppers == {"KEY_HMAC_PEPPER", "KEY_HMAC_PEPPER_PREVIOUS"}

\* An environment: what the text of each variable amounts to.
WellFormed(e) ==
    /\ DOMAIN e = Variables
    /\ \A k \in Variables : e[k] \in {Unset, Empty} \/
          IF k \in Flags THEN e[k] \in {Blank, Garbage} \cup BOOLEAN
          ELSE IF k \in Peppers THEN e[k] \in {"short", "long"}
          ELSE IF k \in Named \cup Texts \cup Legacy THEN e[k] \in STRING \cup {Blank}
          ELSE IF k \in Floats THEN e[k] \in Int \cup {Blank, Garbage, NaN}
          ELSE e[k] \in Int \cup {Blank, Garbage}

----------------------------------------------------------------------------
(* Reading and comparing.                                                    *)

\* os.Getenv(k) is not "".
Present(e, k) == e[k] \notin {Unset, Empty}

envOrDefault(e, k) == IF Present(e, k) THEN e[k] ELSE Default[k]

envBool(e, k) ==
    IF Present(e, k) /\ e[k] # Blank THEN e[k] ELSE k = "ENABLE_PROMETHEUS"

\* An optional number, zero when it is absent.
Number(e, k) == IF Present(e, k) THEN e[k] ELSE 0

Parses(e, ks) == \A k \in ks : envOrDefault(e, k) \notin {Garbage, Blank}
ParsesIfSet(e, ks) == \A k \in ks : Present(e, k) => e[k] \notin {Garbage, Blank}
ParsesBool(e, ks) == \A k \in ks : envBool(e, k) # Garbage

\* Go's comparisons: whatever is compared with NaN, the answer is false.
AtMost(x, y) == x # NaN /\ y # NaN /\ x <= y
Below(x, y) == x # NaN /\ y # NaN /\ x < y

----------------------------------------------------------------------------
(* The loaders: TRUE when they return no error.                              *)

detectLegacyEnvVars(e) == \E k \in Legacy : e[k] # Unset

loadCoreConfig(e) ==
    /\ ParsesIfSet(e, {"NVNM_CHAIN_ID"})
    /\ Parses(e, {"REQUEST_TIMEOUT"})

loadFeatureFlags(e) ==
    ParsesBool(e, {"ENABLE_WRITE_TOOLS", "ENABLE_PROMETHEUS", "ENABLE_STDOUT_TELEMETRY",
                   "OTLP_INSECURE", "NVNM_TRUST_PROXY_HEADERS"})

loadTrustedProxyHops(e) ==
    /\ Parses(e, {"NVNM_TRUSTED_PROXY_HOPS"})
    /\ ~Below(envOrDefault(e, "NVNM_TRUSTED_PROXY_HOPS"), 1)

loadKeyStoreConfig(e) == Parses(e, {"KEY_DEFAULT_TTL"})

loadTelemetryConfig(e) ==
    Parses(e, {"OTEL_TRACE_SAMPLE_RATIO", "NVNM_READINESS_MAX_BLOCK_AGE"})

\* The threshold is parsed as unsigned.
loadResilienceConfig(e) ==
    /\ Parses(e, {"RPC_MAX_RETRIES", "RPC_INITIAL_BACKOFF", "RPC_MAX_BACKOFF",
                  "RPC_RATE_LIMIT", "RPC_RATE_BURST", "CIRCUIT_BREAKER_THRESHOLD"})
    /\ ~Below(envOrDefault(e, "CIRCUIT_BREAKER_THRESHOLD"), 0)
    /\ Parses(e, {"CIRCUIT_BREAKER_TIMEOUT"})

loadMCPRateConfig(e) == Parses(e, {"MCP_RATE_LIMIT", "MCP_RATE_BURST"})

loadSignerQuotaConfig(e) ==
    /\ Parses(e, {"MCP_SIGNER_WRITE_RATE", "MCP_SIGNER_WRITE_WINDOW"})
    /\ ParsesBool(e, {"MCP_SIGNER_QUOTA_FAIL_OPEN", "MCP_SIGNER_BLACKLIST_FAIL_OPEN"})

RetentionEnabled(e) == \E k \in Windows : Number(e, k) > 0

GrantWindowInverted(e) ==
    LET grant == Number(e, "MCP_WRITE_AUDIT_GRANT_ROLE_RETENTION")
        audit == Number(e, "MCP_WRITE_AUDIT_RETENTION")
    IN  grant > 0 /\ (audit = 0 \/ grant < audit)

\* Mutation: an unset window is taken for a short one instead of for ever.
retentionValidateZeroShort(e) ==
    RetentionEnabled(e) =>
        /\ ~AtMost(envOrDefault(e, "MCP_RETENTION_PURGE_INTERVAL"), 0)
        /\ \/ Number(e, "MCP_WRITE_AUDIT_GRANT_ROLE_RETENTION") = 0
           \/ ~Below(Number(e, "MCP_WRITE_AUDIT_GRANT_ROLE_RETENTION"),
                     Number(e, "MCP_WRITE_AUDIT_RETENTION"))

retentionValidate(e) ==
    RetentionEnabled(e) =>
        /\ ~AtMost(envOrDefault(e, "MCP_RETENTION_PURGE_INTERVAL"), 0)
        /\ ~GrantWindowInverted(e)

loadRetentionConfig(e) ==
    /\ ParsesIfSet(e, Windows)
    /\ \A k \in Windows : Number(e, k) >= 0
    /\ Parses(e, {"MCP_RETENTION_PURGE_INTERVAL"})
    /\ retentionValidate(e)

loadKeylessConfig(e) ==
    /\ ParsesBool(e, {"MCP_KEYLESS_READS", "MCP_KEYLESS_WRITES", "MCP_RELAY_ALLOW_ANY"})
    /\ Parses(e, {"MCP_ANON_RATE_LIMIT", "MCP_ANON_RATE_BURST"})
    /\ loadSignerQuotaConfig(e)
    /\ loadRetentionConfig(e)

loadKeyRequestConfig(e) ==
    /\ ParsesBool(e, {"NVNM_KEY_REQUEST_ENABLED", "NVNM_ALLOW_KEY_IN_LOGS"})
    /\ Parses(e, {"NVNM_KEY_REQUEST_RATE_LIMIT", "NVNM_KEY_REQUEST_RATE_BURST",
                  "NVNM_KEY_REQUEST_MAX_BODY_BYTES"})
    /\ envBool(e, "NVNM_KEY_REQUEST_ENABLED") =>
           /\ Present(e, "NVNM_KEY_PENDING_FILE")
           /\ \A k \in {"NVNM_KEY_REQUEST_RATE_LIMIT", "NVNM_KEY_REQUEST_RATE_BURST",
                        "NVNM_KEY_REQUEST_MAX_BODY_BYTES"} : ~AtMost(envOrDefault(e, k), 0)

loadSMTPConfig(e) ==
    /\ ParsesIfSet(e, {"NVNM_SMTP_PORT"})
    /\ Present(e, "NVNM_SMTP_HOST") =>
           Number(e, "NVNM_SMTP_PORT") # 0 /\ Present(e, "NVNM_SMTP_FROM")

InferEnvironmentFromChainID(id) ==
    CASE id = 787111 -> "testnet" [] id = 1611 -> "mainnet" [] OTHER -> ""

loadChainEnvironment(e) ==
    IF Present(e, "NVNM_CHAIN_ENVIRONMENT") THEN e["NVNM_CHAIN_ENVIRONMENT"]
    ELSE InferEnvironmentFromChainID(Number(e, "NVNM_CHAIN_ID"))

----------------------------------------------------------------------------
(* Validate, for the transport in force: -transport overrides the variable. *)

\* Texts with a form of their own lack it when they are "junk" or white space: a URL
\* without an http scheme, an unknown role, no role at all, no hexadecimal address.
Malformed(v) == v \in {"junk", Blank}

validateAuth(e) ==
    /\ Present(e, "KEY_HMAC_PEPPER_PREVIOUS") => Present(e, "KEY_HMAC_PEPPER")
    /\ Present(e, "MCP_API_KEY") =>
           Present(e, "MCP_API_KEY_ROLES") /\ ~Malformed(e["MCP_API_KEY_ROLES"])
    /\ envOrDefault(e, "AUTH_PROVIDER") \in {"apikey", "fusionauth"}
    /\ envOrDefault(e, "AUTH_PROVIDER") = "fusionauth" =>
           /\ Present(e, "FUSIONAUTH_URL") /\ ~Malformed(e["FUSIONAUTH_URL"])
           /\ Present(e, "FUSIONAUTH_APPLICATION_ID")
           /\ Present(e, "MCP_CLIENT_ID_HMAC_KEY")

\* A pepper is "short" below MinKeyHMACPepperLen characters.
validatePepperStrength(e) ==
    \A k \in {"KEY_HMAC_PEPPER", "KEY_HMAC_PEPPER_PREVIOUS"} : e[k] # "short"

Backend(e) == IF Present(e, "KEY_STORE_BACKEND") THEN e["KEY_STORE_BACKEND"] ELSE "file"

validateKeyStore(e) ==
    /\ Backend(e) \in {"file", "postgres"}
    /\ Backend(e) = "postgres" =>
           /\ Present(e, "KEY_STORE_DSN")
           /\ envOrDefault(e, "AUTH_PROVIDER") = "apikey" => Present(e, "KEY_HMAC_PEPPER")

validateKeylessWrites(e) ==
    envBool(e, "MCP_KEYLESS_WRITES") =>
        /\ ~envBool(e, "MCP_RELAY_ALLOW_ANY")
        /\ envBool(e, "MCP_KEYLESS_READS")
        /\ ~Malformed(envOrDefault(e, "ANCHOR_ADDRESS"))
        /\ ~Below(envOrDefault(e, "MCP_SIGNER_WRITE_RATE"), 1)
        /\ ~AtMost(envOrDefault(e, "MCP_SIGNER_WRITE_WINDOW"), 0)

validateKeyless(e) ==
    /\ envBool(e, "MCP_KEYLESS_WRITES") => Present(e, "MCP_KEYLESS_PG_DSN")
    /\ validateKeylessWrites(e)

validateKeyRequestEmail(e) ==
    \/ ~envBool(e, "NVNM_KEY_REQUEST_ENABLED")
    \/ Present(e, "NVNM_SMTP_HOST")
    \/ envBool(e, "NVNM_ALLOW_KEY_IN_LOGS")

validateResilience(e) ==
    /\ ~Below(envOrDefault(e, "RPC_MAX_RETRIES"), 0)
    /\ \A k \in {"RPC_INITIAL_BACKOFF", "RPC_MAX_BACKOFF", "RPC_RATE_LIMIT",
                 "RPC_RATE_BURST", "CIRCUIT_BREAKER_THRESHOLD",
                 "CIRCUIT_BREAKER_TIMEOUT", "MCP_RATE_LIMIT", "MCP_RATE_BURST",
                 "MCP_ANON_RATE_LIMIT", "MCP_ANON_RATE_BURST"} :
           ~AtMost(envOrDefault(e, k), 0)
    /\ ~Below(envOrDefault(e, "OTEL_TRACE_SAMPLE_RATIO"), 0)
    /\ ~Below(1, envOrDefault(e, "OTEL_TRACE_SAMPLE_RATIO"))
    /\ ~Below(envOrDefault(e, "NVNM_READINESS_MAX_BLOCK_AGE"), 0)

Validate(e, transport) ==
    /\ Present(e, "NVNM_EVM_RPC_URL") /\ ~Malformed(e["NVNM_EVM_RPC_URL"])
    /\ Number(e, "NVNM_CHAIN_ID") > 0
    /\ envOrDefault(e, "REQUEST_TIMEOUT") > 0
    /\ transport \in {"stdio", "http"}
    /\ loadChainEnvironment(e) \in {"testnet", "mainnet"}
    /\ validateAuth(e)
    /\ validatePepperStrength(e)
    /\ validateKeyStore(e)
    /\ validateKeyless(e)
    /\ validateKeyRequestEmail(e)
    /\ validateResilience(e)

Loads(e) ==
    /\ ~detectLegacyEnvVars(e)
    /\ ~Present(e, "WRITE_APPROVAL_DEFAULT")
    /\ loadCoreConfig(e)
    /\ loadFeatureFlags(e)
    /\ loadTrustedProxyHops(e)
    /\ loadKeyStoreConfig(e)
    /\ loadTelemetryConfig(e)
    /\ loadResilienceConfig(e)
    /\ loadMCPRateConfig(e)
    /\ loadKeylessConfig(e)
    /\ Parses(e, {"JWT_CLOCK_SKEW"})
    /\ loadKeyRequestConfig(e)
    /\ loadSMTPConfig(e)
    /\ Validate(e, envOrDefault(e, "MCP_TRANSPORT"))

\* What run looks at afterwards.
Settings(e, transport) ==
    [transport  |-> transport,
     store      |-> IF envOrDefault(e, "AUTH_PROVIDER") = "fusionauth" THEN "fusionauth"
                    ELSE IF Backend(e) = "postgres" THEN "postgres"
                    ELSE IF Present(e, "MCP_API_KEYS_FILE") THEN "file"
                    ELSE IF Present(e, "MCP_API_KEY") THEN "static" ELSE "none",
     writes     |-> envBool(e, "MCP_KEYLESS_WRITES"),
     audit      |-> Present(e, "MCP_KEYLESS_PG_DSN"),
     retention  |-> RetentionEnabled(e),
     keyRequest |-> envBool(e, "NVNM_KEY_REQUEST_ENABLED"),
     admin      |-> Present(e, "ADMIN_API_KEY") \/ Present(e, "ADMIN_API_KEYS_FILE"),
     staleness  |-> envOrDefault(e, "NVNM_READINESS_MAX_BLOCK_AGE") > 0]

=============================================================================
