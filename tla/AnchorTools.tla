---------------------------- MODULE AnchorTools ----------------------------
(***************************************************************************)
(* The anchor tools: what a call does between the request and its answer   *)
(* (internal/mcp/tools_anchor.go, tools_anchor_write.go) over the          *)
(* precompile client (internal/anchor/client.go, prepare.go).  A call is a *)
(* sequence of RPCs, and the chain moves between any two of them: others   *)
(* create registries, add versions and send transactions, and prices       *)
(* change.  Every RPC may fail.                                            *)
(***************************************************************************)
EXTENDS Integers, FiniteSets, Sequences, SequencesExt

CONSTANTS
    NameClasses,   \* a registry's name: the set of match modes it satisfies
    Hole,          \* an id the chain assigned and holds no registry for
    PageSize,      \* nameScanPageSize
    MaxPages,      \* maxNameScanPages
    DefaultLimit,  \* defaultRegistriesPageSize
    Wrap,          \* number of values of a uint64
    DefaultTip,    \* defaultPriorityFeeWei
    Tables, Caps,  \* registry tables and page caps the chain may start with
    Requests,      \* what callers ask for
    Prices, Tips, Estimates,    \* what the node quotes
    MaxMoves, MaxFails          \* bounds

Modes == {"exact", "prefix", "suffix", "contains"}
PrepareTools == {"add_registry", "add_record", "update_status", "grant_role", "revoke_role"}

Tools == PrepareTools \cup {"list", "scan", "by_id", "registry", "records"}

\* What a caller may ask for; the numbers are uint64.
Inputs ==
    [tool : Tools, match : STRING, offset : Nat, limit : Nat, key : Nat, index : Nat,
     legacy : BOOLEAN, faults : SUBSET STRING]

ASSUME ToolsAssumption ==
    /\ NameClasses \subseteq SUBSET Modes /\ Hole \notin NameClasses
    /\ {PageSize, MaxPages, DefaultLimit, Wrap, DefaultTip} \subseteq Nat \ {0}
    /\ Caps \subseteq Nat \ {0} /\ Prices \subseteq Nat /\ Tips \subseteq Int
    \* A gas estimate is nowhere near the width of a uint64.
    /\ Estimates \subseteq Nat /\ \A e \in Estimates : 20 * e < Wrap
    \* Ids are uint64.
    /\ Tables \subseteq Seq(NameClasses \cup {Hole}) /\ \A t \in Tables : Len(t) + 2 * MaxMoves < Wrap
    /\ Requests \subseteq Inputs /\ DefaultLimit < Wrap
    /\ \A in \in Requests : in.offset < Wrap /\ in.limit < Wrap
    /\ {MaxMoves, MaxFails} \subseteq Nat

VARIABLES
    table,     \* table[id]: the chain's registries
    cap,       \* most rows the precompile returns for a page
    counts,    \* whether the precompile reports the table's size
    abi,       \* parsedABI is loaded
    account,   \* chain state a preparation reads: [nonce, version, price]
    call,      \* the call in flight and, once its pc is "done", its answer
    session,   \* a client that pages through a listing, call after call
    moves, fails

chain == <<table, cap, counts, abi, account>>
toolVars == <<chain, call, session, moves, fails>>

\* The numbers of a finite set, the smallest first.
InOrder(S) ==
    [j \in 1 .. Cardinality(S) |-> CHOOSE i \in S : Cardinality({k \in S : k < i}) = j - 1]

\* The elements of a sequence that lie in S, in the order they have there.
Keep(s, S) == LET at == InOrder({i \in DOMAIN s : s[i] \in S}) IN [j \in DOMAIN at |-> s[at[j]]]

NoCall == [pc |-> "none"]
NoSession == [seen |-> << >>, key |-> 0, offset |-> 0, size |-> 0, byOffset |-> FALSE, whole |-> FALSE]
-----------------------------------------------------------------------------
(* The chain (external).                                                   *)

\* The ids of the registries from k on; the precompile lists them in order.
Live(t, k) == {i \in DOMAIN t : t[i] # Hole /\ i >= k}
Ids(t) == InOrder(Live(t, 0))

First(n, s) == SubSeq(s, 1, IF n < Len(s) THEN n ELSE Len(s))
From(n, s) == SubSeq(s, n + 1, Len(s))
Least(a, b) == IF a < b THEN a ELSE b

\* A page of the registries view: by cursor when there is one (0 is none),
\* else by offset.  The cursor of the row after the page is there only when
\* that row exists.
Page(key, offset, limit) ==
    LET rest == IF key = 0 THEN From(offset, Ids(table))
                           ELSE InOrder(Live(table, key))
        n == Least(limit, cap)
    IN  [rows |-> First(n, rest), next |-> IF Len(rest) > n THEN rest[n + 1] ELSE 0,
         total |-> IF counts /\ key = 0 THEN Len(Ids(table)) ELSE 0]

\* client.GetRegistries, which supplies a limit where the caller has none.
GetRegistries(key, offset, limit) == Page(key, offset, IF limit = 0 THEN DefaultLimit ELSE limit)

\* A row of the records view; mine: it is of the record asked for.
Row(mine, index, isLatest) == [mine |-> mine, index |-> index, isLatest |-> isLatest]
EveryVersion(flagged) ==
    [i \in 1 .. account.version |-> Row(TRUE, i, flagged /\ i = account.version)]

\* What the records view answers for (registry, record) without an index: the
\* latest version or, should the chain ever do so, every version, with or
\* without the flag, or rows in front of them that are no version of the
\* record.  A record that is not there has no rows (the chain's revert).
VersionStyles == {"latest", "all", "unflagged", "mixed"}
Versions(style) ==
    CASE style = "latest" ->
            IF account.version = 0 THEN << >> ELSE <<Row(TRUE, account.version, TRUE)>>
      [] style = "all" -> EveryVersion(TRUE)
      [] style = "unflagged" -> EveryVersion(FALSE)
      [] style = "mixed" ->
            <<Row(FALSE, account.version + 1, TRUE), Row(TRUE, 0, TRUE)>> \o EveryVersion(TRUE)
-----------------------------------------------------------------------------
(* Pure parts of the handlers.                                             *)

\* registryNameMatcher: an empty mode is "exact".
matching(t, mode) ==
    {id \in DOMAIN t : t[id] # Hole /\ (IF mode = "" THEN "exact" ELSE mode) \in t[id]}

\* resolveRegistriesPage.
resolveLimit(limit) == IF limit = 0 THEN DefaultLimit ELSE limit

\* Mutation: a limit that makes offset + limit wrap cuts the page.
pageUnguarded(rows, offset, limit) ==
    IF offset >= Len(rows) THEN << >>
    ELSE SubSeq(rows, offset + 1, Least((offset + limit) % Wrap, Len(rows)))

\* pageRegistries: the caller's window of the matches.
pageRegistries(rows, offset, limit) ==
    LET end == (offset + limit) % Wrap
    IN  IF offset >= Len(rows) THEN << >>
        ELSE SubSeq(rows, offset + 1, IF end < offset THEN Len(rows) ELSE Least(end, Len(rows)))

\* The index of the first row of `at` flagged latest, else the highest; 0 when
\* there is none.
LatestAmong(rows, at) ==
    LET flagged == {i \in at : rows[i].isLatest}
    IN  IF flagged # {} THEN rows[CHOOSE i \in flagged : \A j \in flagged : i <= j].index
        ELSE Max({rows[i].index : i \in at} \cup {0})

\* Mutation: every row is taken for a version of the record.
latestOfAnyRow(rows) == LatestAmong(rows, DOMAIN rows)

\* latestRecordIndex, which skips the rows of another record and those
\* without an index; 0: the record has no version.
latestRecordIndex(rows) ==
    LatestAmong(rows, {i \in DOMAIN rows : rows[i].mine /\ rows[i].index # 0})

\* applyGasBuffer, in uint64.
applyGasBuffer(estimate) == (estimate + ((estimate * 20) % Wrap) \div 100) % Wrap

\* buildDynamicFeeUnsignedTx: twice the gas price, never below the tip.
maxFee(price, tip) == IF 2 * price < tip THEN tip ELSE 2 * price
-----------------------------------------------------------------------------
(* Requests.  A field the tool rejects is named in faults: for a           *)
(* preparation the missing or malformed fields, for a listing a key that is *)
(* not base64 or not eight bytes long, for a lookup a missing id or one     *)
(* parameter too many.  The roles a tool asks for are RequestGate's.        *)

\* The fields each preparation refuses before any RPC.  A malformed `from` is
\* met by buildUnsignedTx only.
PrepareAddRegistry == {"from", "name"}
PrepareAddRecord == {"from", "registry", "checksum", "algo", "metadata"}
PrepareUpdateRecordStatus == {"from", "registry", "record", "status"}
PrepareGrantRole == {"from", "account", "role"}
PrepareRevokeRole == {"from", "account", "role"}

Required(tool) ==
    CASE tool = "add_registry" -> PrepareAddRegistry
      [] tool = "add_record" -> PrepareAddRecord
      [] tool = "update_status" -> PrepareUpdateRecordStatus
      [] tool = "grant_role" -> PrepareGrantRole
      [] tool = "revoke_role" -> PrepareRevokeRole

\* listingCursor: a key excludes an offset and must decode to a cursor.
listingCursorRefuses(in) == in.key # 0 /\ (in.offset # 0 \/ in.faults # {})

\* makeGetRegistriesHandler: which parameters a mode of the listing refuses.
ListingRefuses(in) ==
    \/ in.tool = "by_id" /\ (in.match # "" \/ in.offset # 0 \/ in.limit # 0 \/ in.key # 0 \/ in.faults # {})
    \/ in.tool = "scan" /\ (in.key # 0 \/ in.match \notin Modes \cup {""})
    \/ in.tool = "list" /\ (in.match # "" \/ listingCursorRefuses(in))

\* The refusals that need no RPC, "" when there is none.
Refusal(in) ==
    IF in.tool \in PrepareTools /\ ~abi THEN "unavailable"
    ELSE IF \/ in.tool \in PrepareTools /\ in.faults \cap Required(in.tool) # {}
            \/ in.tool \in {"registry", "records"} /\ in.faults # {}
            \/ ListingRefuses(in)
         THEN "invalid" ELSE ""

\* The first RPC of a call.
FirstStep(in) ==
    CASE in.tool = "scan" -> "peek"
      [] in.tool = "list" -> "fetch"
      [] in.tool \in PrepareTools ->
            IF in.tool = "update_status" /\ in.index = 0 THEN "index" ELSE "nonce"
      [] OTHER -> "lookup"

Error(kind) == [kind |-> "error", error |-> kind]

\* A preparation goes on to buildUnsignedTx, which parses the sender first.
Building(c) ==
    IF c.pc = "nonce" /\ "from_malformed" \in c.in.faults
    THEN [c EXCEPT !.pc = "done", !.out = Error("invalid")] ELSE c

\* A call as its handler enters it.
Entered(in) ==
    LET c == [in |-> in, pc |-> FirstStep(in), out |-> Error("none"), rows |-> << >>,
              cursor |-> in.key, pages |-> 0, more |-> TRUE, total |-> 0, highest |-> 0,
              tx |-> [index |-> in.index, nonce |-> 0, price |-> 0, gas |-> 0, estimate |-> 0],
              began |-> [size |-> Len(table), account |-> account]]
    IN  IF Refusal(in) = "" THEN Building(c)
        ELSE [c EXCEPT !.pc = "done", !.out = Error(Refusal(in))]

Finish(out) == call' = [call EXCEPT !.pc = "done", !.out = out]

\* A session that starts with this request: it collects the rows of its pages.
Opened(in) ==
    [NoSession EXCEPT !.key = in.key, !.offset = in.offset, !.size = Len(table)]

\* The server keeps nothing of a call, so one session is followed at a time.
Begin(in) ==
    /\ call.pc = "none"
    /\ call' = Entered(in)
    /\ session' = Opened(in)
    /\ UNCHANGED <<chain, moves, fails>>

-----------------------------------------------------------------------------
(* The listing without a filter.                                           *)

Listed(rows, next, total, exact) ==
    [kind |-> "rows", rows |-> rows, next |-> next, total |-> total, exact |-> exact,
     truncated |-> FALSE]

\* The answer reaches the client, which keeps the rows with those of its
\* earlier pages; whole: the listing says that the table ended.
Collected(rows, next) ==
    session' = [session EXCEPT !.seen = @ \o rows, !.whole = next = 0]

\* handleRegistriesListing's loop: whether another page is fetched.
Fetching(c) ==
    c.pages < MaxPages /\ c.more /\ Len(c.rows) < resolveLimit(c.in.limit)

\* Mutation: a listing that ended the table trusts its offset whatever it is.
KnowsAlways(c) == c.total > 0 \/ ~c.more

\* listingTotal without an RPC: the chain's count, or an offset page that
\* ended the table.
Knows(c) == c.total > 0 \/ (~c.more /\ c.in.key = 0 /\ (c.rows # << >> \/ c.in.offset = 0))

\* Mutation: a chained fetch of an offset listing asks by the offset again.
AfterPageByOffset(c, page) ==
    [c EXCEPT !.rows = @ \o page.rows, !.cursor = IF c.in.key = 0 /\ page.next # 0 THEN 0 ELSE page.next,
              !.pages = @ + 1, !.more = page.next # 0]

\* What a page adds to the call.  The cursor alone says whether the table goes
\* on - a page may be short - and the next page is read by it.
AfterPage(c, page) ==
    [c EXCEPT !.rows = @ \o page.rows, !.cursor = page.next, !.pages = @ + 1,
              !.more = page.next # 0, !.total = IF page.total > @ THEN page.total ELSE @]

FetchList ==
    /\ call.pc = "fetch" /\ call.in.tool = "list" /\ abi
    /\ LET asked == Least(resolveLimit(call.in.limit) - Len(call.rows), PageSize)
           page == GetRegistries(call.cursor, call.in.offset, asked)
           c == AfterPage(call, page)
           known == IF c.total > 0 THEN c.total ELSE c.in.offset + Len(c.rows)
       IN  IF Fetching(c) THEN call' = c /\ UNCHANGED session
           ELSE IF Knows(c)
           THEN /\ call' = [c EXCEPT !.pc = "done", !.out = Listed(c.rows, c.cursor, known, TRUE)]
                /\ Collected(c.rows, c.cursor)
           ELSE call' = [c EXCEPT !.pc = "total"] /\ UNCHANGED session
    /\ UNCHANGED <<chain, moves, fails>>

\* listingTotal's reverse peek: the highest assigned id stands for the size.
PeekTotal ==
    /\ call.pc = "total"
    /\ Finish(Listed(call.rows, call.cursor,
                     IF Ids(table) = << >> THEN 0 ELSE Last(Ids(table)), TRUE))
    /\ Collected(call.rows, call.cursor)
    /\ UNCHANGED <<chain, moves, fails>>

\* A failed peek costs the exact total, not the page.
PeekTotalFails ==
    /\ call.pc = "total" /\ fails < MaxFails
    /\ Finish(Listed(call.rows, call.cursor,
                     call.in.offset + Len(call.rows), FALSE))
    /\ Collected(call.rows, call.cursor)
    /\ fails' = fails + 1
    /\ UNCHANGED <<chain, moves>>

\* The client asks for the next page, by the cursor it was given or, if it
\* pages by offset, from the row after the ones it asked for (external).
NextPage(byOffset) ==
    /\ call.pc = "done" /\ call.in.tool = "list" /\ call.out.kind = "rows" /\ call.out.next # 0
    /\ byOffset => call.in.key = 0
    /\ call' = Entered(IF byOffset
                       THEN [call.in EXCEPT !.offset = @ + resolveLimit(call.in.limit)]
                       ELSE [call.in EXCEPT !.key = call.out.next, !.offset = 0])
    /\ session' = [session EXCEPT !.byOffset = @ \/ byOffset]
    /\ UNCHANGED <<chain, moves, fails>>
-----------------------------------------------------------------------------
(* The listing by name: scanRegistriesByName.                              *)

Found(c, truncated) ==
    LET hits == Keep(c.rows, matching(table, c.in.match))
    IN  [kind |-> "rows", rows |-> pageRegistries(hits, c.in.offset, resolveLimit(c.in.limit)),
         next |-> 0, total |-> Len(hits), exact |-> ~truncated, truncated |-> truncated]

\* The peek at the highest id; an empty table needs no walk.
PeekHighest ==
    /\ call.pc = "peek" /\ abi
    /\ IF Ids(table) = << >> THEN Finish(Found(call, FALSE))
       ELSE call' = [call EXCEPT !.pc = "fetch", !.highest = Last(Ids(table))]
    /\ UNCHANGED <<chain, session, moves, fails>>

\* The walk does not depend on the peek.
PeekHighestFails ==
    /\ call.pc = "peek"
    /\ abi => fails < MaxFails
    /\ call' = [call EXCEPT !.pc = "fetch"]
    /\ fails' = IF abi THEN fails + 1 ELSE fails
    /\ UNCHANGED <<chain, session, moves>>

\* One page of the walk.  It is complete when the cursor is empty and no
\* fewer rows were read than the highest id says there are.
FetchScan ==
    /\ call.pc = "fetch" /\ call.in.tool = "scan" /\ abi
    /\ LET page == GetRegistries(call.cursor, 0, PageSize)
           c == AfterPage(call, page)
       IN  call' = IF ~c.more THEN [c EXCEPT !.pc = "done", !.out = Found(c, Len(c.rows) < c.highest)]
                   ELSE IF c.pages = MaxPages THEN [c EXCEPT !.pc = "done", !.out = Found(c, TRUE)]
                   ELSE c
    /\ UNCHANGED <<chain, session, moves, fails>>

Holds(id) == id \in DOMAIN table /\ table[id] # Hole

\* anchor_get_registry: one RPC, whose row or whose miss is the answer.
GetRegistry ==
    /\ call.pc = "lookup" /\ call.in.tool = "registry" /\ abi
    /\ Finish(IF Holds(call.in.index) THEN Listed(<<call.in.index>>, 0, 0, TRUE) ELSE Error("not_found"))
    /\ UNCHANGED <<chain, session, moves, fails>>

\* The deprecated lookup by registry_id of the listing.
RegistriesByID ==
    /\ call.pc = "lookup" /\ call.in.tool = "by_id" /\ abi
    /\ Finish(IF Holds(call.in.index) THEN Listed(<<call.in.index>>, 0, 0, TRUE) ELSE Error("not_found"))
    /\ UNCHANGED <<chain, session, moves, fails>>

\* anchor_get_records: the rows of the record asked for, or of none.
GetRecords ==
    /\ call.pc = "lookup" /\ call.in.tool = "records" /\ abi
    /\ \E rows \in {<< >>, <<call.in.index>>} : Finish(Listed(rows, 0, 0, TRUE))
    /\ UNCHANGED <<chain, session, moves, fails>>
-----------------------------------------------------------------------------
(* Preparing a transaction.                                                *)

ResolveIndex ==
    /\ call.pc = "index"
    /\ \E style \in VersionStyles :
          LET index == latestRecordIndex(Versions(style))
          IN  IF index = 0 THEN Finish(Error("not_found"))
              ELSE call' = Building([call EXCEPT !.pc = "nonce", !.tx.index = index])
    /\ UNCHANGED <<chain, session, moves, fails>>

PendingNonceAt ==
    /\ call.pc = "nonce"
    /\ call' = [call EXCEPT !.pc = "price", !.tx.nonce = account.nonce]
    /\ UNCHANGED <<chain, session, moves, fails>>

SuggestGasPrice ==
    /\ call.pc = "price"
    /\ call' = [call EXCEPT !.pc = "gas", !.tx.price = account.price]
    /\ UNCHANGED <<chain, session, moves, fails>>

\* buildLegacyUnsignedTx, buildDynamicFeeUnsignedTx.  The latter also refuses a
\* negative chain id, which no server that started has (config.Validate).
Legacy(tx) == [kind |-> "tx", tx |-> tx, type |-> 0, fee |-> tx.price, tip |-> 0]
Dynamic(tx, tip) == [kind |-> "tx", tx |-> tx, type |-> 2, fee |-> maxFee(tx.price, tip), tip |-> tip]

\* EstimateGas and, for a type-0 transaction, the answer.
EstimateGas ==
    /\ call.pc = "gas"
    /\ \E estimate \in Estimates :
          LET tx == [call.tx EXCEPT !.gas = applyGasBuffer(estimate), !.estimate = estimate]
          IN  call' = IF call.in.legacy
                      THEN [call EXCEPT !.pc = "done", !.tx = tx, !.out = Legacy(tx)]
                      ELSE [call EXCEPT !.pc = "tip", !.tx = tx]
    /\ UNCHANGED <<chain, session, moves, fails>>

\* A tip that is not positive is replaced.
SuggestGasTipCap ==
    /\ call.pc = "tip"
    /\ \E tip \in Tips : Finish(Dynamic(call.tx, IF tip <= 0 THEN DefaultTip ELSE tip))
    /\ UNCHANGED <<chain, session, moves, fails>>

TipFails ==
    /\ call.pc = "tip" /\ fails < MaxFails
    /\ Finish(Dynamic(call.tx, DefaultTip))
    /\ fails' = fails + 1
    /\ UNCHANGED <<chain, session, moves>>

\* How a failed RPC is reported: without an ABI there is none; where the
\* precompile ran, a revert of a known kind has a curated reason
\* (classifyPrecompileRevert); the rest is an upstream failure.
Reported(pc) ==
    IF ~abi THEN {"unavailable"}
    ELSE {"upstream"} \cup (IF pc \in {"nonce", "price"} THEN {} ELSE {"rejected"})

\* Any other RPC that fails ends the call.
Fails ==
    /\ call.pc \in {"fetch", "lookup", "index", "nonce", "price", "gas"}
    /\ abi => fails < MaxFails
    /\ \E kind \in Reported(call.pc) : Finish(Error(kind))
    /\ fails' = IF abi THEN fails + 1 ELSE fails
    /\ UNCHANGED <<chain, session, moves>>
-----------------------------------------------------------------------------
(* The chain moves (external).                                             *)

AddRegistry(name, gap) ==
    /\ table' = table \o (IF gap THEN <<Hole, name>> ELSE <<name>>)
    /\ UNCHANGED account

AccountMoves ==
    /\ \/ account' = [account EXCEPT !.nonce = @ + 1]
       \/ account' = [account EXCEPT !.version = @ + 1]
       \/ \E p \in Prices : account' = [account EXCEPT !.price = p]
    /\ UNCHANGED table

\* Moves are bounded; only those matter that a call in flight can notice.
ChainMoves ==
    /\ moves < MaxMoves /\ call.pc # "none"
    /\ call.pc = "done" => call.in.tool = "list" /\ call.out.kind = "rows" /\ call.out.next # 0
    /\ \/ call.in.tool \notin PrepareTools /\ \E n \in NameClasses, gap \in BOOLEAN : AddRegistry(n, gap)
       \/ call.in.tool \in PrepareTools /\ AccountMoves
    /\ moves' = moves + 1
    /\ UNCHANGED <<cap, counts, abi, call, session, fails>>
-----------------------------------------------------------------------------
ToolsInit ==
    /\ table \in Tables /\ cap \in Caps
    /\ counts \in BOOLEAN /\ abi \in BOOLEAN
    /\ account \in [nonce : {0}, version : 0 .. 2, price : Prices]
    /\ call = NoCall /\ session = NoSession
    /\ moves = 0 /\ fails = 0

ToolsNext ==
    \/ \E in \in Requests : Begin(in)
    \/ FetchList \/ PeekTotal \/ PeekTotalFails \/ NextPage(TRUE) \/ NextPage(FALSE)
    \/ PeekHighest \/ PeekHighestFails \/ FetchScan
    \/ GetRegistry \/ RegistriesByID \/ GetRecords
    \/ ResolveIndex \/ PendingNonceAt \/ SuggestGasPrice \/ EstimateGas
    \/ SuggestGasTipCap \/ TipFails \/ Fails \/ ChainMoves

ToolsSpec == ToolsInit /\ [][ToolsNext]_toolVars
-----------------------------------------------------------------------------
Accounts == [nonce : Nat, version : Nat, price : Prices]
Txs == [index : Nat, nonce : Nat, price : Nat, gas : Nat, estimate : Nat]
ErrorKinds == {"none", "unavailable", "invalid", "not_found", "upstream", "rejected"}
Answers ==
    [kind : {"error"}, error : ErrorKinds]
    \cup [kind : {"rows"}, rows : Seq(Nat), next : Nat, total : Nat, exact : BOOLEAN,
          truncated : BOOLEAN]
    \cup [kind : {"tx"}, tx : Txs, type : {0, 2}, fee : Nat, tip : Nat]
ToolCalls ==
    [in : Inputs, out : Answers, rows : Seq(Nat), cursor : Nat, pages : 0 .. MaxPages,
     pc : {"peek", "fetch", "total", "lookup", "index", "nonce", "price", "gas", "tip", "done"},
     more : BOOLEAN, total : Nat, highest : Nat, tx : Txs,
     began : [size : Nat, account : Accounts]]
Sessions ==
    [seen : Seq(Nat), key : Nat, offset : Nat, size : Nat, byOffset : BOOLEAN, whole : BOOLEAN]

\* The state is well typed; in particular no call fetches more than MaxPages
\* pages, and every answer has the form of its kind.
ToolsTypeOK ==
    /\ table \in Seq(NameClasses \cup {Hole}) /\ cap \in Nat \ {0}
    /\ counts \in BOOLEAN /\ abi \in BOOLEAN
    /\ account \in Accounts
    /\ call \in {NoCall} \cup ToolCalls
    /\ session \in Sessions
    /\ moves \in 0 .. MaxMoves /\ fails \in 0 .. MaxFails

Answered(kind) == call.pc = "done" /\ call.out.kind = kind

\* The table as it was when it had n ids.
Table(n) == SubSeq(table, 1, n)

\* The answer of a listing by name that does not say it is truncated is the
\* answer of the whole table as it was at some moment of the call: the total
\* is the number of matches and the rows are the caller's window of them,
\* whatever was created while the walk went on, whichever page size the chain
\* granted and however large the limit (scanRegistriesByName, pageRegistries).
ScanComplete ==
    Answered("rows") /\ call.in.tool = "scan" /\ ~call.out.truncated =>
        \E n \in call.began.size .. Len(table) :
            LET hits == InOrder(matching(Table(n), call.in.match))
            IN  /\ call.out.total = Len(hits)
                /\ call.out.rows = First(resolveLimit(call.in.limit), From(call.in.offset, hits))

\* A client that pages until it gets no cursor has read every registry that
\* lies after the place where it began, once and in order, up to some moment
\* after its first call - though the table grows under it and pages come back
\* short.  A client that pages by offset needs a limit that one call can fill
\* (handleRegistriesListing, EncodeCursor, CursorBytes, listingCursor).
PagedWhole ==
    Answered("rows") /\ session.whole
    /\ (session.byOffset => resolveLimit(call.in.limit) <= MaxPages * Least(cap, PageSize)) =>
        \E n \in session.size .. Len(table) :
            session.seen = IF session.key = 0 THEN From(session.offset, Ids(Table(n)))
                           ELSE InOrder(Live(Table(n), session.key))

\* A total that a listing calls exact is the size of the table at some moment
\* of the call, or its highest id where the chain skipped ids.  One it calls a
\* lower bound is the caller's offset and the rows of the page: rows the table
\* really has when the page has any, but nothing the table confirmed when it
\* has none, for then it is the offset the caller made up, however far past
\* the end that lies (listingTotal).
TotalTruthful ==
    Answered("rows") /\ call.in.tool = "list" =>
        \E n \in call.began.size .. Len(table) :
            LET size == Len(Ids(Table(n)))
            IN  IF call.out.exact THEN call.out.total \in size .. n
                ELSE /\ call.out.total = call.in.offset + Len(call.out.rows)
                     /\ call.out.rows # << >> => call.out.total <= size

\* What a prepared transaction holds was true while the call ran, each value at
\* a moment of its own: its nonce was the sender's next one and its index the
\* latest version, unless the caller named one, whatever rows the records view
\* mixes in; the gas limit covers the estimate by a
\* fifth; and the fee of a type-2 transaction pays the tip and lasts until the
\* gas price doubles (PrepareUpdateRecordStatus, buildUnsignedTx).
PreparedUsable ==
    Answered("tx") =>
        LET out == call.out
            tx == out.tx
            then == call.began.account
        IN  /\ tx.nonce \in then.nonce .. account.nonce
            /\ call.in.tool = "update_status" =>
                  IF call.in.index # 0 THEN tx.index = call.in.index
                  ELSE tx.index \in 1 .. account.version /\ tx.index >= then.version
            /\ tx.gas = tx.estimate + tx.estimate \div 5
            /\ IF out.type = 2 THEN out.tip > 0 /\ out.fee >= out.tip /\ out.fee >= 2 * tx.price
                              ELSE out.fee = tx.price
=============================================================================
