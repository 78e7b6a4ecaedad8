---------------------------- MODULE MCRequestGate ----------------------------
(* RequestGate with two requests in flight and five deployments, each with   *)
(* the traffic that is interesting for it.                                   *)
EXTENDS RequestGate, TLC

RequestSymmetry == Permutations(Requests)

MCIds == 1..8
MCBurst == [l \in Limiters |-> 1]
MCClientOf == [k \in Keys |-> IF k = "nameless" THEN "" ELSE k]
MCExpires == [k \in Keys |-> 2]

Deployment(reads, writes, tools, proxy, prov) ==
    [keylessReads |-> reads, keylessWrites |-> writes, writeTools |-> tools,
     trustProxy |-> proxy, provider |-> prov]
Public == Deployment(TRUE, FALSE, TRUE, TRUE, "apikey")
Relay == Deployment(TRUE, TRUE, TRUE, FALSE, "apikey")
Keyed == Deployment(FALSE, FALSE, TRUE, FALSE, "apikey")
Sso == Deployment(TRUE, FALSE, FALSE, FALSE, "fusionauth")
Bare == Deployment(FALSE, FALSE, TRUE, FALSE, "none")
MCDeployments == {Public, Relay, Keyed, Sso, Bare}

Plain(real, cred, tool) ==
    [real |-> real, forged |-> <<>>, origin |-> "none", preflight |-> FALSE,
     proto |-> <<>>, path |-> "mcp", cred |-> cred, tool |-> tool]

MCTraffic == [d \in MCDeployments |->
    CASE d = Public ->
            {Plain("a", "none", "read"), Plain("b", "none", "send"),
             [Plain("a", "junk", "read") EXCEPT !.forged = <<"b">>],
             [Plain("a", "basic", "read") EXCEPT !.proto = <<"https", "http">>],
             [Plain("b", "none", "read") EXCEPT !.proto = <<"http", "https">>]}
      [] d = Relay ->
            {Plain("a", "none", "send"), Plain("a", "none", "unknown"),
             [Plain("b", "none", "list") EXCEPT !.path = "keys"],
             [Plain("b", "none", "list") EXCEPT !.origin = "listed"],
             [Plain("b", "none", "list") EXCEPT !.preflight = TRUE]}
      [] d = Keyed ->
            {Plain("a", "k", "grant"), Plain("b", "k", "prepare"), Plain("a", "none", "list"),
             Plain("b", "nameless", "prepare"),
             [Plain("b", "k", "read") EXCEPT !.origin = "foreign"]}
      [] d = Sso ->
            {Plain("a", "nosub", "read"), Plain("a", "nested", "read"),
             Plain("b", "otherapp", "read"), Plain("b", "forgery", "read")}
      [] d = Bare ->
            {Plain("a", "none", "send"), Plain("b", "junk", "grant")}]

MCEdits == [d \in MCDeployments |->
    IF d = Keyed THEN {[enabled |-> FALSE, roles |-> {"writer"}],
                       [enabled |-> TRUE, roles |-> {"admin"}]}
                 ELSE {}]

MCToken == [j \in Jwts |->
    [valid    |-> j # "forgery",
     issuer   |-> IF j = "nested" THEN "expectedNoScheme" ELSE "expected",
     audience |-> IF j = "otherapp" THEN {"other"} ELSE {"app", "other"},
     sub      |-> IF j = "nosub" THEN "" ELSE "u",
     roles    |-> IF j = "nested" THEN {} ELSE {"reader"},
     nested   |-> IF j = "nested" THEN {"writer"} ELSE {}]]
=============================================================================
