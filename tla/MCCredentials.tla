--------------------------- MODULE MCCredentials ---------------------------
(* A server key, a browser key or an access token on two isolates; and the  *)
(* memberships of two people; each in a scene of its own.                   *)
EXTENDS Credentials, Membership, TLC

CONSTANTS Scenes, i1, i2, sk, pk, s1, ann, bob, q1, q2

VARIABLE scene

MCPopulations == {{sk}, {pk}, {s1}}

MCSymmetry == Permutations(Visits) \cup Permutations(Isolates)

accessVars == <<vars, memberVars, scene>>

(* The scene that is not played stands at one of its initial states. *)
MCInit ==
  /\ scene \in Scenes /\ Init /\ MembershipInit
  /\ scene = "members" => using = {s1}

MCNext ==
  \/ scene = "credentials" /\ Next /\ UNCHANGED <<memberVars, scene>>
  \/ scene = "members" /\ MembershipNext /\ UNCHANGED <<vars, scene>>

MCSpec == MCInit /\ [][MCNext]_accessVars
=============================================================================
