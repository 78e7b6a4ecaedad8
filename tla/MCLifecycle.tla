----------------------------- MODULE MCLifecycle -----------------------------
(* Lifecycle started with six working environments and with those that differ *)
(* from one of them in one variable, or in two of a group that is checked     *)
(* together.                                                                  *)
EXTENDS Lifecycle, TLC

None == [k \in Variables |-> Unset]

Stdio == ("NVNM_EVM_RPC_URL" :> "http" @@ "NVNM_CHAIN_ID" :> 787111) @@ None
Http == ("MCP_TRANSPORT" :> "http") @@ Stdio
File == ("MCP_API_KEYS_FILE" :> "file") @@ Http
Static == ("MCP_API_KEY" :> "key" @@ "MCP_API_KEY_ROLES" :> "role") @@ Http
Shared == ("KEY_STORE_BACKEND" :> "postgres" @@ "KEY_STORE_DSN" :> "dsn"
           @@ "KEY_HMAC_PEPPER" :> "long" @@ "ADMIN_API_KEY" :> "key") @@ Http
Sso == ("AUTH_PROVIDER" :> "fusionauth" @@ "FUSIONAUTH_URL" :> "http"
        @@ "FUSIONAUTH_APPLICATION_ID" :> "app" @@ "MCP_CLIENT_ID_HMAC_KEY" :> "key") @@ Http
Hosted == ("MCP_KEYLESS_READS" :> TRUE @@ "MCP_KEYLESS_WRITES" :> TRUE
           @@ "MCP_KEYLESS_PG_DSN" :> "dsn" @@ "MCP_WRITE_AUDIT_RETENTION" :> 2
           @@ "MCP_WRITE_AUDIT_GRANT_ROLE_RETENTION" :> 2
           @@ "ADMIN_API_KEYS_FILE" :> "file" @@ "NVNM_KEY_REQUEST_ENABLED" :> TRUE
           @@ "NVNM_KEY_PENDING_FILE" :> "file" @@ "NVNM_SMTP_HOST" :> "host"
           @@ "NVNM_SMTP_PORT" :> 25 @@ "NVNM_SMTP_FROM" :> "from") @@ File

ValuesOf(k) ==
    {Unset, Empty} \cup
    CASE k \in Flags -> {Blank, Garbage, TRUE, FALSE}
      [] k = "NVNM_CHAIN_ID" -> {Garbage, 0, 5, 1611}
      [] k = "MCP_TRANSPORT" -> {"stdio", "junk"}
      [] k = "AUTH_PROVIDER" -> {"apikey", "junk"}
      [] k = "KEY_STORE_BACKEND" -> {"file", "postgres", "junk"}
      [] k \in {"KEY_HMAC_PEPPER", "KEY_HMAC_PEPPER_PREVIOUS"} -> {"short", "long"}
      [] k \in Floats -> {Garbage, NaN, -1, 0, 2}
      [] k \in (DOMAIN Default \cup Optional) \ Named -> {Garbage, -1, 0, 1}
      [] OTHER -> {Blank, "other", "junk"}

Change(e, k) == {[e EXCEPT ![k] = v] : v \in ValuesOf(k)}
Groups == {Windows \cup {"MCP_RETENTION_PURGE_INTERVAL"},
           {"MCP_KEYLESS_READS", "MCP_KEYLESS_WRITES", "MCP_RELAY_ALLOW_ANY",
            "MCP_KEYLESS_PG_DSN", "MCP_WRITE_AUDIT_RETENTION"},
           {"KEY_STORE_BACKEND", "KEY_STORE_DSN", "KEY_HMAC_PEPPER",
            "KEY_HMAC_PEPPER_PREVIOUS", "AUTH_PROVIDER", "MCP_API_KEYS_FILE"},
           {"NVNM_SMTP_HOST", "NVNM_SMTP_PORT", "NVNM_ALLOW_KEY_IN_LOGS",
            "NVNM_KEY_REQUEST_ENABLED"},
           {"NVNM_CHAIN_ID", "NVNM_CHAIN_ENVIRONMENT"}}

MCEnvs ==
    UNION {Change(e, k) : e \in {Stdio, File, Static, Shared, Sso, Hosted}, k \in Variables}
    \cup UNION {UNION {Change(f, pair[2]) : f \in Change(pair[1][1], pair[1][2])} :
                  pair \in UNION {({Shared, Hosted} \X g) \X g : g \in Groups}}

\* The Postgres key store alone.
SharedOnly == {Shared}
=============================================================================
