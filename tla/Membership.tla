----------------------------- MODULE Membership -----------------------------
(* How a person comes to act for a Customer: signing up alone or by an      *)
(* invitation (signup.tsx, invite.server.ts and the invitation API it calls,*)
(* auth-d1/dist/invitation.js), and the Customer that each visit, and each  *)
(* access token, is given on demand (customer.server.ts, auth.server.ts).   *)
(* A person is the email address of the one account it can have.            *)
(*                                                                          *)
(* D1 has no transactions over several statements: every await is a step    *)
(* of its own, and a statement that fails ends its call, as the loss of the *)
(* Worker does.  Not here: passwords and sessions, the daily limit of       *)
(* signups per address, the mail that carries an invitation, roles other    *)
(* than owner and member, and resending and cancelling of invitations,      *)
(* which nothing in the portal calls.                                       *)
EXTENDS Integers, Sequences, FiniteSets

CONSTANTS
  People,
  Visits,      \* so many calls may be in progress
  MaxCalls,    \* calls in all
  MaxInvites,  \* invitations in all
  MaxDeaths,   \* calls that end half-way
  Nobody       \* no call, no workspace, no invitation

(* The step a call is about to take, with the invitation it carries or the  *)
(* person it invites, and the workspace it has come to.                     *)
Call ==
  [kind : {"signup", "visit", "invite"}, user : People,
   step : {"account", "redeem", "expire", "accept", "join", "context", "billing", "ensure",
           "workspace", "own", "provision", "supersede", "insert"},
   with : Nat \cup People, workspace : Nat, again : BOOLEAN]

ASSUME MembershipConstants ==
  /\ MaxCalls \in Nat /\ MaxInvites \in Nat /\ MaxDeaths \in Nat
  /\ Nobody \notin People /\ Nobody \notin Call

VARIABLES
  accounts,    \* the people with an account
  workspaces,  \* how many there are; they are numbered as they are made
  members,     \* the rows of workspace_member, in the order of insertion
  billed,      \* the workspaces with a row in customer_billing
  invitations, \* the rows of workspace_invitation
  lapsed,      \* the invitations whose seven days are over
  calls,       \* the calls in progress, or Nobody
  left,        \* calls and deaths still to come
  acted,       \* auxiliary: which workspace a visit acted for, for whom
  refused,     \* auxiliary: who was told "No Customer for this user", and of which workspace
  halfway      \* auxiliary: whose making of which workspace was cut off, or met a visit

memberVars ==
  <<accounts, workspaces, members, billed, invitations, lapsed, calls, left,
    acted, refused, halfway>>
tenancy == <<workspaces, members, billed>>
told == <<acted, refused>>

Invitations == DOMAIN invitations
Pending(i) == invitations[i].status = "pending"

(* workspaceMembers of a user, limit 1: the table is read in its order. *)
RowsOf(u) == {n \in DOMAIN members : members[n].user = u}

(* MUTANT of FirstRow: the latest row. *)
LatestRow(u) == members[CHOOSE n \in RowsOf(u) : \A m \in RowsOf(u) : m <= n]

FirstRow(u) == members[CHOOSE n \in RowsOf(u) : \A m \in RowsOf(u) : n <= m]

-----------------------------------------------------------------------------
(* Calls *)

At(c, step) == calls[c] # Nobody /\ calls[c].step = step
Goes(c, step) == calls' = [calls EXCEPT ![c].step = step]
Finishes(c) == calls' = [calls EXCEPT ![c] = Nobody]

(* A call that begins, of a person who may have others in progress. *)
Begins(c, kind, u, step, with) ==
  /\ calls[c] = Nobody /\ left.calls > 0
  /\ left' = [left EXCEPT !.calls = @ - 1]
  /\ calls' = [calls EXCEPT ![c] =
       [kind |-> kind, user |-> u, step |-> step, with |-> with,
        workspace |-> 0, again |-> FALSE]]

(* Between the row of the owner and that of the Customer. *)
Halfway(c, u, w) == At(c, "provision") /\ calls[c].user = u /\ calls[c].workspace = w

(* lookupInviteToken: whoever has the link has the token; the form carries  *)
(* it only when the invitation was valid, and it is looked up once more.    *)
SignsUp(c, u, i) ==
  /\ i # 0 => i \in Invitations /\ Pending(i) /\ i \notin lapsed /\ invitations[i].email = u
  /\ Begins(c, "signup", u, "account", i)
  /\ UNCHANGED <<accounts, tenancy, invitations, lapsed, told, halfway>>

(* signUpEmail: an address has one account. *)
CreatesAccount(c) ==
  /\ At(c, "account")
  /\ IF calls[c].user \in accounts THEN Finishes(c)
     ELSE Goes(c, IF calls[c].with = 0 THEN "ensure" ELSE "redeem")
  /\ accounts' = accounts \cup {calls[c].user}
  /\ UNCHANGED <<tenancy, invitations, lapsed, left, told, halfway>>

(* requireCustomer of a page or an action, or the claims of an access token.*)
Comes(c, u, kind, with) ==
  /\ u \in accounts
  /\ Begins(c, kind, u, "context", with)
  /\ UNCHANGED <<accounts, tenancy, invitations, lapsed, told, halfway>>

(* The action of the invites page, with the address it is given. *)
ComesToInvite(c, u, friend) == Comes(c, u, "invite", friend)

(* A call ends without its answer. *)
Dies(c) ==
  /\ calls[c] # Nobody /\ left.deaths > 0
  /\ left' = [left EXCEPT !.deaths = @ - 1]
  /\ Finishes(c)
  /\ halfway' = IF At(c, "provision") THEN halfway \cup {<<calls[c].user, calls[c].workspace>>}
                ELSE halfway
  /\ UNCHANGED <<accounts, tenancy, invitations, lapsed, told>>

-----------------------------------------------------------------------------
(* redeemInvitation *)

(* The row is read, and what it says decides. *)
Redeems(c) ==
  /\ At(c, "redeem")
  /\ IF ~Pending(calls[c].with) THEN Finishes(c)
     ELSE Goes(c, IF calls[c].with \in lapsed THEN "expire" ELSE "accept")
  /\ UNCHANGED <<accounts, tenancy, invitations, lapsed, left, told, halfway>>

Expires(c) ==
  /\ At(c, "expire")
  /\ invitations' = [invitations EXCEPT ![calls[c].with].status = "expired"]
  /\ Finishes(c)
  /\ UNCHANGED <<accounts, tenancy, lapsed, left, told, halfway>>

(* MUTANT of Acceptable: the status is not compared again. *)
AcceptableOnce(i) == i \in Invitations

(* The compare-and-set; its expiry is compared with the time of the read.   *)
Acceptable(i) == Pending(i)

Accepts(c) ==
  LET i == calls[c].with
  IN /\ At(c, "accept")
     /\ IF Acceptable(i)
        THEN /\ invitations' =
                  [invitations EXCEPT ![i].status = "accepted", ![i].by = calls[c].user]
             /\ Goes(c, "join")
        ELSE Finishes(c) /\ UNCHANGED invitations
     /\ UNCHANGED <<accounts, tenancy, lapsed, left, told, halfway>>

Joins(c) ==
  LET i == calls[c].with
  IN /\ At(c, "join")
     /\ members' = Append(members, [workspace |-> invitations[i].workspace,
                                    user |-> calls[c].user, role |-> "member", invite |-> i])
     /\ Finishes(c)
     /\ UNCHANGED <<accounts, workspaces, billed, invitations, lapsed, left, told, halfway>>

-----------------------------------------------------------------------------
(* ensureCustomerForUser, and getCustomerContext around it *)

(* The membership of the context: with one the row of its Customer is read, *)
(* and without any a Customer is made, the first time.                      *)
ReadsContext(c) ==
  LET u == calls[c].user
  IN /\ At(c, "context")
     /\ calls' = [calls EXCEPT ![c] =
          IF RowsOf(u) # {} THEN [@ EXCEPT !.step = "billing", !.workspace = FirstRow(u).workspace]
          ELSE [@ EXCEPT !.step = "ensure"]]
     /\ UNCHANGED <<accounts, tenancy, invitations, lapsed, left, told, halfway>>

(* The visit acts for the Customer, looks once whether one must be made, or *)
(* is refused.  An owner who came to invite goes on.                        *)
ReadsBilling(c) ==
  LET call == calls[c]
      owner == FirstRow(call.user).role = "owner"
      asked == <<call.user, call.workspace>>
      met == \E d \in Visits : Halfway(d, call.user, call.workspace)
  IN /\ At(c, "billing")
     /\ IF call.workspace \in billed
        THEN /\ acted' = acted \cup {asked}
             /\ IF call.kind = "invite" /\ owner THEN Goes(c, "supersede") ELSE Finishes(c)
             /\ UNCHANGED <<refused, halfway>>
        ELSE /\ IF call.again THEN Finishes(c) ELSE Goes(c, "ensure")
             /\ refused' = IF call.again THEN refused \cup {asked} ELSE refused
             /\ halfway' = IF call.again /\ met THEN halfway \cup {asked} ELSE halfway
             /\ UNCHANGED acted
     /\ UNCHANGED <<accounts, tenancy, invitations, lapsed, left>>

(* What follows ensureCustomerForUser. *)
Provided(c) ==
  calls' = [calls EXCEPT ![c] =
    IF @.kind = "signup" THEN Nobody ELSE [@ EXCEPT !.step = "context", !.again = TRUE]]

(* A user with a membership is given nothing new. *)
Ensures(c) ==
  /\ At(c, "ensure")
  /\ IF RowsOf(calls[c].user) # {} THEN Provided(c) ELSE Goes(c, "workspace")
  /\ UNCHANGED <<accounts, tenancy, invitations, lapsed, left, told, halfway>>

MakesWorkspace(c) ==
  /\ At(c, "workspace")
  /\ workspaces' = workspaces + 1
  /\ calls' = [calls EXCEPT ![c].step = "own", ![c].workspace = workspaces']
  /\ UNCHANGED <<accounts, members, billed, invitations, lapsed, left, told, halfway>>

Owns(c) ==
  /\ At(c, "own")
  /\ members' = Append(members, [workspace |-> calls[c].workspace, user |-> calls[c].user,
                                 role |-> "owner", invite |-> 0])
  /\ Goes(c, "provision")
  /\ UNCHANGED <<accounts, workspaces, billed, invitations, lapsed, left, told, halfway>>

(* provisionCustomer: the row; what it projects fails without consequence.  *)
ProvisionsFor(c) ==
  /\ At(c, "provision")
  /\ billed' = billed \cup {calls[c].workspace}
  /\ Provided(c)
  /\ UNCHANGED <<accounts, workspaces, members, invitations, lapsed, left, told, halfway>>

-----------------------------------------------------------------------------
(* createInvitation *)

Same(i, c) ==
  invitations[i].workspace = calls[c].workspace /\ invitations[i].email = calls[c].with

Supersedes(c) ==
  /\ At(c, "supersede")
  /\ invitations' = [i \in Invitations |->
       IF Same(i, c) /\ Pending(i) THEN [invitations[i] EXCEPT !.status = "superseded"]
       ELSE invitations[i]]
  /\ Goes(c, "insert")
  /\ UNCHANGED <<accounts, tenancy, lapsed, left, told, halfway>>

(* workspace_invitation_pending_email_idx: one pending row of an address.   *)
Invites(c) ==
  /\ At(c, "insert")
  /\ \/ /\ \E i \in Invitations : Same(i, c) /\ Pending(i)
        /\ UNCHANGED invitations
     \/ /\ \A i \in Invitations : ~(Same(i, c) /\ Pending(i))
        /\ Len(invitations) < MaxInvites
        /\ invitations' = Append(invitations,
             [workspace |-> calls[c].workspace, email |-> calls[c].with,
              status |-> "pending", by |-> Nobody])
  /\ Finishes(c)
  /\ UNCHANGED <<accounts, tenancy, lapsed, left, told, halfway>>

Lapses(i) ==
  /\ i \in Invitations \ lapsed
  /\ lapsed' = lapsed \cup {i}
  /\ UNCHANGED <<accounts, tenancy, invitations, calls, left, told, halfway>>

-----------------------------------------------------------------------------

Arrives(c) ==
  \E u \in People :
    \/ \E i \in 0 .. Len(invitations) : SignsUp(c, u, i)
    \/ Comes(c, u, "visit", 0)
    \/ \E friend \in People : ComesToInvite(c, u, friend)

Proceeds(c) ==
  \/ CreatesAccount(c) \/ Redeems(c) \/ Expires(c) \/ Accepts(c) \/ Joins(c)
  \/ ReadsContext(c) \/ ReadsBilling(c) \/ Ensures(c)
  \/ MakesWorkspace(c) \/ Owns(c) \/ ProvisionsFor(c)
  \/ Supersedes(c) \/ Invites(c)

MembershipInit ==
  /\ accounts = {} /\ workspaces = 0 /\ members = <<>> /\ billed = {}
  /\ invitations = <<>> /\ lapsed = {}
  /\ calls = [c \in Visits |-> Nobody]
  /\ left = [calls |-> MaxCalls, deaths |-> MaxDeaths]
  /\ acted = {} /\ refused = {} /\ halfway = {}

MembershipNext ==
  \/ \E c \in Visits : Arrives(c) \/ Proceeds(c) \/ Dies(c)
  \/ \E i \in Invitations : Lapses(i)

MembershipSpec == MembershipInit /\ [][MembershipNext]_memberVars

-----------------------------------------------------------------------------
(* Properties *)

(* "sending a new invite to the same email replaces the previous one"       *)
(* (app.invites.tsx), and "concurrent redeem races" are resolved by one     *)
(* statement (invitation.js): what was accepted stays with who accepted it, *)
(* what was replaced or expired admits nobody any more, and each member is  *)
(* in a workspace by an invitation to itself that nobody else used, however *)
(* many signups, invitations and deaths go on between reading it and using  *)
(* it.                                                                      *)
AdmittedByInvitation ==
  /\ \A i \in Invitations : invitations'[i].status # invitations[i].status =>
       \/ Pending(i)
       \/ invitations[i].status = "superseded" /\ invitations'[i].status = "expired"
  /\ \A n \in DOMAIN members' : members'[n].role = "member" =>
       LET row == members'[n]
           i == invitations'[row.invite]
       IN /\ i.status = "accepted" /\ i.by = row.user
          /\ i.email = row.user /\ i.workspace = row.workspace
          /\ \A m \in DOMAIN members' \ {n} : members'[m].invite # row.invite

(* No step of a signup or of an invitation admits anybody but by that       *)
(* person's own invitation, used once.                                      *)
AdmittedOnce == [][AdmittedByInvitation]_memberVars

(* "a user to a single Customer (their first membership)" (auth.server.ts): *)
(* whoever has acted for a Customer acts for no other one, and is billed to *)
(* none, although memberships are added by calls that overlap.              *)
OneCustomerEach == \A a, b \in acted : a[1] = b[1] => a = b

(* "auto-provisioning a Customer if the user has none yet"                  *)
(* (customer.server.ts), also after an invitation that was replaced or      *)
(* expired while the person signed up, and whatever else of theirs died or  *)
(* overlapped: a visit is refused only for the one workspace of which the   *)
(* person's own call had written the owner's row and not yet the Customer's.*)
(* If that call died there, every later visit is refused too; if it is      *)
(* still there, they are served once it is done.                            *)
EveryVisitServed == refused \subseteq halfway

(* Whoever acts for a Customer acts for the same one every time, and nobody *)
(* is refused but for a Customer half made.                                 *)
ActsForOne == OneCustomerEach /\ EveryVisitServed
=============================================================================
