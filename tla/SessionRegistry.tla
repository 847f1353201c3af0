-------------------------- MODULE SessionRegistry --------------------------
(***************************************************************************)
(* What AuthService promises a client about its sessions: a token pair is  *)
(* received once, an access token or a refresh token that has lost its     *)
(* force never regains it, and whoever receives the successor of a session *)
(* has given up that session.  AuthSessions implements this; ClientTokens  *)
(* is written against it.                                                  *)
(***************************************************************************)
CONSTANTS Sessions, NoSession

VARIABLES
    issued,     \* sessions whose token pair a client has received
    live,       \* of these, the ones whose access token is accepted
    redeemable, \* of these, the ones whose refresh token is not revoked
    source      \* the session an issued one was exchanged for

registryVars == <<issued, live, redeemable, source>>

RegistryInit ==
    /\ issued = {}
    /\ live = {}
    /\ redeemable = {}
    /\ source = [s \in Sessions |-> NoSession]

\* A client receives the pair of s, in exchange for the refresh token of p or
\* for credentials.  Either token may have lost its force on the way.
Issue(s, p) ==
    /\ s \notin issued
    /\ p # NoSession => p \in issued /\ p \notin live /\ p \notin redeemable
    /\ issued' = issued \cup {s}
    /\ \E L \in SUBSET {s}, R \in SUBSET {s} :
          live' = live \cup L /\ redeemable' = redeemable \cup R
    /\ source' = [source EXCEPT ![s] = p]

\* The tokens of some sessions lose their force: revocation, rotation, expiry.
End(A, R) ==
    /\ live' = live \ A
    /\ redeemable' = redeemable \ R
    /\ UNCHANGED <<issued, source>>

RegistryNext ==
    \/ \E s \in Sessions, p \in Sessions \cup {NoSession} : Issue(s, p)
    \/ \E A \in SUBSET live, R \in SUBSET redeemable : End(A, R)

RegistrySpec == RegistryInit /\ [][RegistryNext]_registryVars
=============================================================================
