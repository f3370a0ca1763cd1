------------------------------ MODULE Gateway ------------------------------
(* What a request meets before its handler runs: the route table            *)
(* (routes.ts), the two halves of rate limiting around the dialect its      *)
(* route asks for (routes.ts, api-keys.ts, utils.ts), and the Model Context *)
(* Protocol surface (mcp-handler.ts, mcp.ts, mcp-scopes.ts), which the      *)
(* table serves to anybody and which has rules of its own.  Counters are    *)
(* windows of a minute in Durable Objects, one object per shard, each call  *)
(* decided and counted at once.                                             *)
(*                                                                          *)
(* SecretKeys, Customers and sessions stand as they are here, the key store is    *)
(* bound and the counters answer: Credentials, Projection and Metering are  *)
(* about the rest.  Requests come to one of the deployment's own hosts.     *)
EXTENDS Naturals, Sequences, FiniteSets, Bags

CONSTANTS
  Places,                 \* requests in progress at once
  Requests,               \* what may come in: path, method, who, from, home
  SecretKeys, PublicKeys,       \* server keys and browser keys
  DemoKey,                \* DEMO_BROWSER_API_KEY, one of the browser keys
  Tokens, Scopes,         \* access tokens and the scopes they carry
  Owner,                  \* the Customer of a key or token
  Enterprise,             \* Customers with batchEnabled
  ApiLimit, DemoLimit, PaidLimit, Ceiling,
  FloodGuard,             \* FLOOD_GUARD_MULTIPLIER
  MaxRequests,            \* bound: requests that come in
  Free                    \* a place without a request

ASSUME GatewayConstants ==
  /\ {ApiLimit, DemoLimit, PaidLimit, Ceiling, FloodGuard} \subseteq Nat \ {0}
  /\ DemoKey \in PublicKeys

VARIABLES
  suggest,   \* whether the suggest index is on
  visit,   \* the request in each place
  arrived,   \* requests that came in
  minute,    \* counts of this minute, by shard and bucket
  admitted,  \* auxiliary: requests let through in this minute, by whose they are
  tried,     \* auxiliary: credentials looked at in this minute, by address
  wrongs     \* auxiliary: what went wrong with a request

gatewayVars == <<suggest, visit, arrived, minute, admitted, tried, wrongs>>

Operator == "operator"       \* BASIC_AUTH
Portal == "portal"           \* PROJECTION_ADMIN_SECRET, as a Bearer
Unknown == "unknown"         \* a Bearer nobody issued
Nothing == "nothing"         \* no credential

(* A credential's prefix tells what it is, "key:" or "user:" that a counter *)
(* is about no address, and what has an owner is owned by a Customer.       *)
ASSUME CredentialsApart ==
  /\ SecretKeys \cap PublicKeys = {} /\ (SecretKeys \cup PublicKeys) \cap Tokens = {}
  /\ {Operator, Portal, Unknown, Nothing} \cap (SecretKeys \cup PublicKeys \cup Tokens) = {}
  /\ \A r \in Requests : r.from \notin SecretKeys \cup Tokens
  /\ \A x \in SecretKeys \cup PublicKeys \cup Tokens : Owner[x] # Nothing

-----------------------------------------------------------------------------
(* The route table *)

ALL_METHODS == {"GET", "POST", "DELETE"}

Entries(paths, methods, owner, auth, limit, serves) ==
  {[path |-> p, methods |-> methods, owner |-> owner, auth |-> auth,
    limit |-> limit, serves |-> serves] : p \in paths}

(* ROUTES, one path for several that are declared alike. *)
ROUTES == UNION {
  Entries({<<"health">>, <<"docs">>}, ALL_METHODS, "api", "public", "none", "document"),
  Entries({<<"mcp">>}, ALL_METHODS, "api", "public", "none", "mcp"),
  Entries({<<"app">>, <<"app", "*">>, <<"api", "auth", "*">>}, ALL_METHODS, "portal",
          "public", "none", "portal"),
  Entries({<<"metrics">>, <<"webhooks">>, <<"webhooks", "*">>,
           <<"api", "queue", "submit">>, <<"api", "cache", "warm">>},
          ALL_METHODS, "api", "admin", "none", "operation"),
  Entries({<<"cache-warming">>, <<"api", "oda", "stats">>,
           <<"api", "x402", "receipts">>}, {"GET"}, "api", "admin", "none",
          "operation"),
  Entries({<<"queue", "process">>, <<"api", "database", "sync">>,
           <<"api", "oda", "init">>, <<"api", "x402", "reconcile">>}, {"POST"},
          "api", "admin", "none", "operation"),
  Entries({<<"api">>, <<"api", "federal">>, <<"api", "combined">>}, ALL_METHODS, "api",
          "key", "lookup", "lookup"),
  Entries({<<"api", "demo", "federal">>}, {"GET"}, "api", "public", "demo",
          "lookup"),
  Entries({<<"api", "quote">>, <<"api", "area">>}, {"GET", "POST"}, "api",
          "public", "paid", "offer"),
  Entries({<<"api", "quote", "accept">>}, {"POST"}, "api", "public", "paid",
          "offer"),
  Entries({<<"api", "geocode">>, <<"api", "reverse">>}, {"GET"}, "api", "key",
          "geocode", "geocode"),
  Entries({<<"api", "search">>}, {"GET"}, "api", "search", "search", "search"),
  Entries({<<"batch">>}, {"POST"}, "api", "batch", "batch", "batch"),
  Entries({<<"batch", ":id">>}, {"GET"}, "api", "batch", "batch", "document"),
  Entries({<<"admin", "projection", "*">>}, ALL_METHODS, "api", "projection", "none",
          "projection"),
  Entries({<<"admin", "*">>, <<"docs", "*">>, <<"queue", "*">>,
           <<"api", "database", "*">>}, ALL_METHODS, "api", "public", "none", "nothing"),
  Entries({<<"api", "demo", "*">>}, {"GET"}, "api", "public", "demo", "nothing"),
  Entries({<<"api", "*">>, <<"api", "queue", "*">>}, ALL_METHODS, "api", "key",
          "lookup", "nothing")}

(* compilePattern *)
Weight(segment) == CASE segment = "*" -> 0 [] segment = ":id" -> 1 [] OTHER -> 2

MatchesPath(pattern, path) ==
  LET rest == pattern # <<>> /\ pattern[Len(pattern)] = "*"
      fixed == IF rest THEN Len(pattern) - 1 ELSE Len(pattern)
  IN /\ IF rest THEN Len(path) > fixed ELSE Len(path) = fixed
     /\ \A i \in 1 .. fixed : pattern[i] = path[i] \/ pattern[i] = ":id"

(* compareSpecificity: the first segment of another weight, then length *)
MoreSpecific(p, q) ==
  LET shared == IF Len(p) < Len(q) THEN 1 .. Len(p) ELSE 1 .. Len(q)
      Differs(i) == Weight(p[i]) # Weight(q[i])
  IN IF \E i \in shared : Differs(i)
     THEN \E i \in shared : /\ Weight(p[i]) > Weight(q[i])
                            /\ \A j \in shared : Differs(j) => j >= i
     ELSE Len(p) > Len(q)

(* matchRoute: an entry for other methods only is passed over. *)
Matching(path, method) ==
  {e \in ROUTES : method \in e.methods /\ MatchesPath(e.path, path)}

Best(entries) ==
  {e \in entries : \A f \in entries : ~MoreSpecific(f.path, e.path)}

-----------------------------------------------------------------------------
(* Requests *)

Stands(p, step) == visit[p] # Free /\ visit[p].step = step
Moves(p, step) == visit' = [visit EXCEPT ![p].step = step]
Departs(p) == visit' = [visit EXCEPT ![p] = Free]

(* dispatch: unclaimed and portal paths are not found. *)
ComesIn(p, r) ==
  /\ visit[p] = Free /\ arrived < MaxRequests
  /\ \E entry \in Best(Matching(r.path, r.method)) :
       /\ entry.owner = "api"
       /\ visit' = [visit EXCEPT ![p] =
            [who |-> r.who, from |-> r.from, home |-> r.home, auth |-> entry.auth,
             limit |-> entry.limit, serves |-> entry.serves,
             customer |-> Nothing, step |-> "limit"]]
  /\ arrived' = arrived + 1
  /\ UNCHANGED <<suggest, minute, admitted, tried, wrongs>>

(* extractBearerToken, extractApiKey *)
Bearers == SecretKeys \cup Tokens \cup {Portal, Unknown}
PresentsCredential(r) == r.who \in Bearers \cup PublicKeys

(* rateLimitIdentity: a browser key is public, and none. *)
IdentityOf(who) == IF who \in SecretKeys THEN who ELSE Nothing

(* rateLimitKey *)
ClientOf(identity, from) == IF identity # Nothing THEN identity ELSE from

-----------------------------------------------------------------------------
(* Rate windows *)

(* A counter is named for its bucket and for whom it is about; its shard is *)
(* the Customer, or else its own name.                                      *)
RateWindow(shard, bucket, about, limit) ==
  [name |-> [shard |-> shard, bucket |-> bucket, about |-> about], limit |-> limit]

(* customerRateBucket, customerRateLimit *)
CustomerWindow(customer) == RateWindow(customer, "customer", customer, Ceiling)

(* consumeRateWindows: the shard is the Customer if there is one, and all   *)
(* windows are counted or none.                                             *)
WindowsFor(bucket, about, limit, customer) ==
  {RateWindow(customer, bucket, about, limit)} \cup
  (IF customer = Nothing THEN {} ELSE {CustomerWindow(customer)})

(* What a counter stands at; a bag has what it does not hold no times. *)
Times(name, bag) == IF BagIn(name, bag) THEN bag[name] ELSE 0

HasRoom(windows) == \A w \in windows : Times(w.name, minute) < w.limit

Count(windows) == minute' = minute (+) SetToBag({w.name : w \in windows})

BucketOf(r) ==
  CASE r.limit \in {"demo", "paid"} -> r.limit
    [] r.limit = "search" /\ suggest /\ r.who = DemoKey -> "demo-search"
    [] OTHER -> "api"

BucketLimit(bucket) ==
  CASE bucket \in {"demo", "demo-search"} -> DemoLimit
    [] bucket = "paid" -> PaidLimit
    [] bucket = "api" -> ApiLimit

Unlimited(r) ==
  \/ r.limit \in {"none", "batch"}
  \/ r.limit \in {"lookup", "geocode", "search"} /\ r.who = Operator

(* enforceRateLimit in its uses: the flood guard, and the limit itself by   *)
(* the address or by whoever the dialect found.                             *)
GuardWindows(r) ==
  WindowsFor("flood", r.from, FloodGuard * BucketLimit(BucketOf(r)), Nothing)

(* MUTANT of OwnWindows: by the address, whoever asks. *)
OwnWindowsByAddress(r) ==
  WindowsFor(BucketOf(r), r.from, BucketLimit(BucketOf(r)), r.customer)

AddressWindows(r) ==
  WindowsFor(BucketOf(r), r.from, BucketLimit(BucketOf(r)), Nothing)

OwnWindows(r) ==
  WindowsFor(BucketOf(r), ClientOf(IdentityOf(r.who), r.from),
             BucketLimit(BucketOf(r)), r.customer)

(* preAuthRateLimit, postAuthRateLimit: a credential is limited after the   *)
(* dialect and only guarded before it; all others before it.                *)
LimitedLater(r) == r.auth # "public" /\ PresentsCredential(r)

-----------------------------------------------------------------------------
(* Whose a request is, for the properties: its Customer, and on each surface*)
(* its key or token, or its address (with the Customer, for a page with a   *)
(* browser key).  On a public route but MCP it is nobody's.                 *)

Payer(r) ==
  IF r.who \notin SecretKeys \cup PublicKeys \cup Tokens THEN Nothing
  ELSE IF r.auth = "public" /\ r.serves # "mcp" THEN Nothing
  ELSE Owner[r.who]

Share(about, customer, surface) ==
  [about |-> about, customer |-> customer, surface |-> surface]

OwnShare(r, surface) ==
  Share(IF Payer(r) # Nothing /\ r.who \notin PublicKeys THEN r.who ELSE r.from,
        Payer(r), surface)

CustomerShare(r) == Share(Payer(r), Payer(r), "all")

Admit(r, surface) ==
  admitted' = admitted (+) SetToBag(
    {OwnShare(r, surface)} \cup
    (IF Payer(r) = Nothing THEN {} ELSE {CustomerShare(r)}))

Deserved(r, surface, limit) ==
  \/ Times(OwnShare(r, surface), admitted) >= limit
  \/ Times(CustomerShare(r), admitted) >= Ceiling

Refusal(r, surface, limit) ==
  IF Deserved(r, surface, limit) THEN {} ELSE {"refused"}

(* Before its credential is looked at a request is its address's, and is    *)
(* turned away with its neighbours' when they are too many together.        *)
Crowded(r) == Times(r.from, tried) >= FloodGuard * BucketLimit(BucketOf(r))

TurnedAway(r) ==
  IF LimitedLater(r) THEN (IF Crowded(r) THEN {} ELSE {"refused"})
  ELSE Refusal(r, BucketOf(r), BucketLimit(BucketOf(r)))

-----------------------------------------------------------------------------
(* runPrelude *)

LimitsFirst(p) ==
  LET r == visit[p]
      windows == IF LimitedLater(r) THEN GuardWindows(r) ELSE AddressWindows(r)
  IN /\ Stands(p, "limit")
     /\ IF Unlimited(r)
        THEN Moves(p, "dialect") /\ UNCHANGED <<minute, admitted, tried, wrongs>>
        ELSE IF ~HasRoom(windows)
        THEN /\ Departs(p) /\ wrongs' = wrongs \cup TurnedAway(r)
             /\ UNCHANGED <<minute, admitted, tried>>
        ELSE /\ Moves(p, "dialect") /\ Count(windows) /\ UNCHANGED wrongs
             /\ IF LimitedLater(r)
                THEN tried' = tried (+) SetToBag({r.from}) /\ UNCHANGED admitted
                ELSE Admit(r, BucketOf(r)) /\ UNCHANGED tried
     /\ UNCHANGED <<suggest, arrived>>

(* authorizeServerKey, authorizeLookupRequest: the operator has no Customer. *)
IsServerKey(who) == who \in SecretKeys
PassesLookup(who) == IsServerKey(who) \/ who = Operator

(* authorizeSearchRequest: the operator, or a browser key from a page that  *)
(* its allowlist names.                                                     *)
PassesSearch(r) == r.who = Operator \/ (r.who \in PublicKeys /\ r.home)

(* authorizeRoute *)
LetsIn(r) ==
  CASE r.auth = "public" -> TRUE
    [] r.auth = "admin" -> r.who = Operator
    [] r.auth = "key" -> PassesLookup(r.who)
    [] r.auth = "search" -> IF suggest THEN PassesSearch(r) ELSE PassesLookup(r.who)
    [] r.auth = "batch" -> \/ r.who = Operator
                           \/ r.who \in SecretKeys /\ Owner[r.who] \in Enterprise
    [] r.auth = "projection" -> r.who = Portal

(* billingFromAuth: a key and its Customer; none for the operator *)
BilledTo(r) ==
  IF r.auth \in {"key", "search", "batch"} /\ r.who \in SecretKeys \cup PublicKeys
  THEN Owner[r.who] ELSE Nothing

Authorizes(p) ==
  /\ Stands(p, "dialect")
  /\ IF ~LetsIn(visit[p]) THEN Departs(p)
     ELSE visit' = [visit EXCEPT ![p].customer = BilledTo(visit[p]),
                                     ![p].step = "limit again"]
  /\ UNCHANGED <<suggest, arrived, minute, admitted, tried, wrongs>>

LimitsAgain(p) ==
  LET r == visit[p]
      bucket == BucketOf(r)
  IN /\ Stands(p, "limit again")
     /\ IF Unlimited(r) \/ ~LimitedLater(r)
        THEN Moves(p, "handle") /\ UNCHANGED <<minute, admitted, wrongs>>
        ELSE IF HasRoom(OwnWindows(r))
        THEN Moves(p, "handle") /\ Count(OwnWindows(r)) /\ Admit(r, bucket)
             /\ UNCHANGED wrongs
        ELSE /\ Departs(p) /\ UNCHANGED <<minute, admitted>>
             /\ wrongs' = wrongs \cup Refusal(r, bucket, BucketLimit(bucket))
     /\ UNCHANGED <<suggest, arrived, tried>>

-----------------------------------------------------------------------------
(* Handlers *)

Billable == {"lookup", "search", "batch"}

(* What may be done for whom, by the dialects as they are described         *)
(* (routes.ts:98-115) and the scopes (mcp-scopes.ts:10-16).                 *)
LookupScope == "ridings:lookup"

Entitled(r, does) ==
  CASE does = "operation" -> r.who = Operator
    [] does = "projection" -> r.who = Portal
    [] does = "geocode" -> r.who \in SecretKeys \cup {Operator}
    [] does = "batch" -> r.who = Operator \/ Payer(r) \in Enterprise
    [] does = "search" -> ~suggest \/ r.who \in PublicKeys \cup {Operator}
    [] does = "lookup" -> IF r.serves = "mcp"
                          THEN r.who \in Tokens => LookupScope \in Scopes[r.who]
                          ELSE r.auth = "public" \/ r.who \in SecretKeys \cup {Operator}
    [] OTHER -> TRUE

Wrongs(r, does, good, billed) ==
  (IF Entitled(r, does) THEN {} ELSE {"served"}) \cup
  (IF billed = (good /\ does \in Billable /\ Payer(r) # Nothing) THEN {}
   ELSE {"billed"})

(* A lookup, a search or a batch that succeeds is recorded for the Customer *)
(* of the request; geocoding and offers are not billable.  Without its index*)
(* the search is not found (handleSuggestRoute).                            *)
Does(p, does) ==
  \E good \in {suggest \/ does # "search", FALSE} :
    wrongs' = wrongs \cup Wrongs(visit[p], does, good,
      good /\ does \in Billable /\ visit[p].customer # Nothing)

Handles(p) ==
  /\ Stands(p, "handle") /\ visit[p].serves # "mcp"
  /\ Does(p, visit[p].serves) /\ Departs(p)
  /\ UNCHANGED <<suggest, arrived, minute, admitted, tried>>

(* handleMcpRoute: a page of another origin is refused, and so is a header  *)
(* that is no credential here; a browser key comes in one.                  *)
McpAuthorizes(p) ==
  LET r == visit[p]
  IN /\ Stands(p, "handle") /\ r.serves = "mcp"
     /\ IF r.home /\ r.who \in SecretKeys \cup Tokens \cup {Nothing}
        THEN visit' = [visit EXCEPT ![p].customer = Payer(r),
                                        ![p].step = "mcp limit"]
        ELSE Departs(p)
     /\ UNCHANGED <<suggest, arrived, minute, admitted, tried, wrongs>>

(* A token is limited by the user it acts for, a key by itself, the rest by *)
(* address, at the demo's limit.                                            *)
McpLimits(p) ==
  LET r == visit[p]
      demo == r.who = Nothing
      limit == IF demo THEN DemoLimit ELSE ApiLimit
      surface == IF demo THEN "mcp-demo" ELSE "mcp"
      windows == WindowsFor("mcp", IF demo THEN r.from ELSE r.who, limit, r.customer)
  IN /\ Stands(p, "mcp limit")
     /\ IF HasRoom(windows)
        THEN Moves(p, "mcp call") /\ Count(windows) /\ Admit(r, surface)
             /\ UNCHANGED wrongs
        ELSE /\ Departs(p) /\ UNCHANGED <<minute, admitted>>
             /\ wrongs' = wrongs \cup Refusal(r, surface, limit)
     /\ UNCHANGED <<suggest, arrived, tried>>

(* scopeChallengeFor: a token without the scope is refused before the tool  *)
(* runs; without a token there is nothing to challenge.                     *)
Challenged(who) == who \in Tokens /\ LookupScope \notin Scopes[who]

LooksUp(p) ==
  IF Challenged(visit[p].who) THEN UNCHANGED wrongs ELSE Does(p, "lookup")

(* The tools: lookup_riding is the lookup handler with the Customer of the  *)
(* key or token; quotes and purchase, which sends a person to the portal,   *)
(* cost nothing and ask for nothing.                                        *)
McpCalls(p) ==
  /\ Stands(p, "mcp call")
  /\ LooksUp(p) \/ Does(p, "offer") \/ Does(p, "purchase")
  /\ Departs(p)
  /\ UNCHANGED <<suggest, arrived, minute, admitted, tried>>

NewMinute ==
  /\ minute # EmptyBag
  /\ minute' = EmptyBag /\ admitted' = EmptyBag /\ tried' = EmptyBag
  /\ UNCHANGED <<suggest, visit, arrived, wrongs>>

-----------------------------------------------------------------------------

GatewayInit ==
  /\ suggest \in BOOLEAN
  /\ visit = [p \in Places |-> Free]
  /\ arrived = 0
  /\ minute = EmptyBag /\ admitted = EmptyBag /\ tried = EmptyBag
  /\ wrongs = {}

Serves(p) ==
  \/ LimitsFirst(p) \/ Authorizes(p) \/ LimitsAgain(p) \/ Handles(p)
  \/ McpAuthorizes(p) \/ McpLimits(p) \/ McpCalls(p)

GatewayNext ==
  \/ \E p \in Places, r \in Requests : ComesIn(p, r)
  \/ \E p \in Places : Serves(p)
  \/ NewMinute

GatewaySpec == GatewayInit /\ [][GatewayNext]_gatewayVars

-----------------------------------------------------------------------------
(* Properties *)

LimitOfShare(share) ==
  CASE share.surface = "all" -> Ceiling
    [] share.surface \in {"api", "mcp"} -> ApiLimit
    [] share.surface = "paid" -> PaidLimit
    [] OTHER -> DemoLimit

(* "Leaving it off this path would make /mcp the way around it"             *)
(* (mcp-handler.ts:152): in a minute no more is let through for a Customer  *)
(* than its ceiling, whatever keys, tokens, pages and surfaces it comes by, *)
(* nor for a key, a user or an address than the limit of its surface; and   *)
(* on limited routes no address has more credentials looked at than the     *)
(* flood guard allows (routes.ts:507).                                      *)
LimitsHold ==
  /\ \A share \in BagToSet(admitted) : Times(share, admitted) <= LimitOfShare(share)
  /\ \A a \in BagToSet(tried) :
       Times(a, tried) <=
         FloodGuard * (IF DemoLimit > ApiLimit THEN DemoLimit ELSE ApiLimit)

(* A request is refused for too many only if its own share of the minute or *)
(* its Customer's is used up, by requests let through for them: for a key or*)
(* a token never by what a neighbour at the same address did                *)
(* (rate-limit.ts:4).  Excepted is the flood guard, which any credentials   *)
(* from an address fill and which turns all of them away (routes.ts:530):   *)
(* only once that many were looked at, of whomever (Crowded).               *)
(* And nothing runs for whoever its dialect or scope does not let in, by    *)
(* whichever entry of the table its path was found, and a lookup is billed  *)
(* exactly when there is a Customer, with a key or with a token ("an        *)
(* authenticated token's lookups skipped the monthly ledger", mcp.ts:300).  *)
GateHolds == LimitsHold /\ wrongs = {}
=============================================================================
