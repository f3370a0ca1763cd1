--------------------------- MODULE MCX402Accept ---------------------------
(* Two calls on the payment rail; the offers of an area; and the requests of*)
(* a Customer with two server keys, a browser key and two tokens, from two  *)
(* addresses, as they come through the gateway; each in a scene of its own. *)
EXTENDS X402Accept, Quotes, Gateway, TLC

CONSTANTS Scenes, c1, c2, p1, p2, p3, alice, r1, sh1, sh2, on, qc,
          fd, od, cd, fd24, on22, on26,
          g1, g2, k1, k2, b1, t1, t2, h1, h2, acme

VARIABLE scene

MCSymmetry == Permutations(Calls) \cup Permutations(Places)

(* Two payments of one wallet, of different price, and one without a payer. *)
MCPayerOf == [p \in Payloads |-> IF p = p3 THEN NoPayer ELSE alice]
MCAmount == [p \in Payloads |-> IF p = p1 THEN 2 ELSE 1]

(* A riding redrawn, or found to be elsewhere, or not found. *)
PlaceIn(shape, province) == [shape |-> shape, province |-> province]
MCFileOf == {PlaceIn(sh1, on), PlaceIn(sh2, on), PlaceIn(sh1, qc), Absent}
MCRows == [place \in Shapes \X Provinces |->
             IF place[1] = sh1 THEN 3 ELSE IF place[2] = on THEN 5 ELSE 0]

MCRegistry == od :> on22

MCOwner == [x \in {k1, k2, b1, t1, t2} |-> acme]
MCScopes == (t1 :> {"ridings:lookup"}) @@ (t2 :> {"ridings:area"})

Asks(path, method, by, from, home) ==
  {[path |-> path, method |-> method, who |-> w, from |-> h, home |-> o] :
     w \in by, h \in from, o \in home}

MCRequests == UNION {
  Asks(<<"api", "federal">>, "GET", {k1, k2, Unknown, Nothing}, {h1}, {TRUE}),
  Asks(<<"api", "geocode">>, "GET", {k1}, {h2}, {TRUE}),
  Asks(<<"api", "geocode">>, "POST", {k1}, {h2}, {TRUE}),
  Asks(<<"api", "search">>, "GET", {b1}, {h1, h2}, {TRUE}),
  Asks(<<"api", "search">>, "GET", {b1}, {h1}, {FALSE}),
  Asks(<<"api", "search">>, "GET", {k1}, {h1}, {TRUE}),
  Asks(<<"api", "quote">>, "GET", {k1}, {h1}, {TRUE}),
  Asks(<<"api", "quote">>, "DELETE", {k1}, {h1}, {TRUE}),
  Asks(<<"api", "demo", "federal">>, "GET", {Nothing}, {h1}, {TRUE}),
  Asks(<<"batch">>, "POST", {k1}, {h1}, {TRUE}),
  Asks(<<"mcp">>, "POST", {k1, t1, t2, Unknown, Nothing}, {h1}, {TRUE}),
  Asks(<<"metrics">>, "GET", {Operator, k1}, {h1}, {TRUE}),
  Asks(<<"admin", "projection", "keys">>, "POST", {Portal}, {h1}, {TRUE}),
  Asks(<<"api", "queue", "other">>, "POST", {k1}, {h1}, {TRUE})}

paymentVars == <<vars, quoteVars, gatewayVars, scene>>

(* The scene that is not played stands at one of its initial states. *)
MCInit ==
  /\ scene \in Scenes /\ Init /\ QuotesInit /\ GatewayInit
  /\ scene # "rail" => \A c \in Calls : payload[c] = p1
  /\ \A r \in Ridings : file[r] = PlaceIn(sh1, on)
  /\ scene # "gateway" => suggest

MCNext ==
  \/ scene = "rail" /\ Next /\ UNCHANGED <<quoteVars, gatewayVars, scene>>
  \/ scene = "quotes" /\ QuotesNext /\ UNCHANGED <<vars, gatewayVars, scene>>
  \/ scene = "gateway" /\ GatewayNext /\ UNCHANGED <<vars, quoteVars, scene>>

MCSpec == MCInit /\ [][MCNext]_paymentVars
=============================================================================
