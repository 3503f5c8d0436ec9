------------------------------- MODULE Tokens -------------------------------
(***************************************************************************)
(* Sessions and devices of a node: the first owner, tokens that expire or  *)
(* are revoked through a table which is cleaned up, and the pairing of     *)
(* devices with tokens that serve once.  The database may be out of reach, *)
(* and the process may restart.                                            *)
(***************************************************************************)
EXTENDS Naturals, FiniteSets

CONSTANTS
    Calls,        \* the requests served at a time
    Sessions,     \* the tokens, by their jti
    PairTokens,
    Devices,
    Owners,       \* the user names the set-up is tried with
    MaxRestarts   \* bound of a run

ASSUME TokensAssumption == MaxRestarts \in Nat

VARIABLES
    reachable,    \* the database
    jwt_secret,   \* whether the environment sets it
    key,          \* the key of the process, by its number
    session,      \* the key each token was signed with, 0 before
    expired,      \* the tokens, of both kinds, past their time
    jti_revocations,
    logged_out,   \* those whose logout answered jti_revoked
    late,         \* those accepted after that, the database in reach
    users,
    together,     \* whether two set-ups ran at a time
    pair_token,   \* none, open, used
    pairing,      \* none, active, revoked
    uses,         \* the pairings each token made
    call

tokens == <<reachable, jwt_secret, key, session, expired, jti_revocations, logged_out, late,
            users, together, pair_token, pairing, uses, call>>
sessions == <<key, session, jti_revocations, logged_out, late>>
pairings == <<pair_token, pairing, uses>>
owners == <<users, together>>

Rest == [at |-> "idle"]

TokensTypeOK ==
    /\ reachable \in BOOLEAN /\ jwt_secret \in BOOLEAN /\ key \in 1..MaxRestarts + 1
    /\ session \in [Sessions -> 0..MaxRestarts + 1]
    /\ expired \subseteq Sessions \cup PairTokens
    /\ jti_revocations \subseteq Sessions /\ logged_out \subseteq Sessions /\ late \subseteq Sessions
    /\ users \subseteq Owners /\ together \in BOOLEAN
    /\ pair_token \in [PairTokens -> {"none", "open", "used"}]
    /\ pairing \in [Devices -> {"none", "active", "revoked"}]
    /\ uses \in [PairTokens -> Nat]
    /\ \A c \in Calls : call[c].at \in {"idle", "check", "revoke", "pair", "setup"}

TokensInit ==
    /\ reachable = TRUE /\ jwt_secret \in BOOLEAN /\ key = 1
    /\ session = [s \in Sessions |-> 0] /\ expired = {}
    /\ jti_revocations = {} /\ logged_out = {} /\ late = {}
    /\ users = {} /\ together = FALSE
    /\ pair_token = [k \in PairTokens |-> "none"]
    /\ pairing = [d \in Devices |-> "none"]
    /\ uses = [k \in PairTokens |-> 0]
    /\ call = [c \in Calls |-> Rest]

Goes(c, t) == call' = [call EXCEPT ![c] = t]
In(c, at) == call[c].at = at

-----------------------------------------------------------------------------
\* Surroundings.

Reaches ==
    /\ reachable' = ~reachable
    /\ UNCHANGED <<jwt_secret, sessions, expired, owners, pairings, call>>

\* Of no consequence to a pairing token already used.
Expires(x) ==
    /\ \/ x \in Sessions /\ session[x] # 0
       \/ x \in PairTokens /\ pair_token[x] = "open"
    /\ expired' = expired \cup {x}
    /\ UNCHANGED <<reachable, jwt_secret, sessions, owners, pairings, call>>

\* Without JWT_SECRET a process draws a key of its own.
Restarts ==
    /\ key <= MaxRestarts
    /\ key' = IF jwt_secret THEN key ELSE key + 1
    /\ call' = [c \in Calls |-> Rest]
    /\ UNCHANGED <<reachable, jwt_secret, session, expired, jti_revocations, logged_out, late, owners, pairings>>

-----------------------------------------------------------------------------
\* Sessions.

needs_setup == users = {}
Unsigned == {s \in Sessions : session[s] = 0}
create_token(s) == session' = [session EXCEPT ![s] = key]

\* The name is that of an active user, and the password is right.
do_login(s) ==
    /\ reachable /\ ~needs_setup /\ s \in Unsigned
    /\ create_token(s)
    /\ UNCHANGED <<reachable, jwt_secret, key, jti_revocations, logged_out, late, expired, owners, pairings, call>>

\* The signature and the expiry are checked before the table of revocations.
verify_token(c, s, next) ==
    /\ In(c, "idle") /\ session[s] = key /\ s \notin expired
    /\ Goes(c, [at |-> "check", session |-> s, next |-> next])
    /\ UNCHANGED <<reachable, jwt_secret, sessions, expired, owners, pairings>>

is_token_revoked(s) == reachable /\ s \in jti_revocations /\ s \notin expired

\* Out of reach, the table refuses nobody.
Checked(c) ==
    /\ In(c, "check")
    /\ LET s == call[c].session IN
        /\ Goes(c, IF call[c].next = "logout" /\ ~is_token_revoked(s)
                   THEN [at |-> "revoke", session |-> s] ELSE Rest)
        /\ late' = IF reachable /\ s \in logged_out \ expired /\ ~is_token_revoked(s) THEN late \cup {s} ELSE late
    /\ UNCHANGED <<reachable, jwt_secret, key, session, jti_revocations, logged_out, expired, owners, pairings>>

\* logout answers whether the revocation was recorded.
revoke_token(c) ==
    /\ In(c, "revoke")
    /\ IF reachable
       THEN /\ jti_revocations' = jti_revocations \cup {call[c].session}
            /\ logged_out' = logged_out \cup {call[c].session}
       ELSE UNCHANGED <<jti_revocations, logged_out>>
    /\ Goes(c, Rest)
    /\ UNCHANGED <<reachable, jwt_secret, key, session, late, expired, owners, pairings>>

verify_auth(c, s) == verify_token(c, s, "serve")
logout(c, s) == verify_token(c, s, "logout")

cleanup_expired_revocations ==
    /\ reachable
    /\ jti_revocations' = jti_revocations \ expired
    /\ UNCHANGED <<reachable, jwt_secret, key, session, logged_out, late, expired, owners, pairings, call>>

-----------------------------------------------------------------------------
\* The first owner.

\* The statement's own snapshot holds no user.
setup_owner(c, u) ==
    /\ In(c, "idle") /\ reachable /\ needs_setup
    /\ Goes(c, [at |-> "setup", user |-> u])
    /\ together' = (together \/ \E b \in Calls : In(b, "setup"))
    /\ UNCHANGED <<reachable, jwt_secret, sessions, expired, users, pairings>>

\* Only a user of that very name refuses it then.  The owner is logged in; the
\* token may be one of Sessions.
OwnerInserted(c) ==
    /\ In(c, "setup") /\ reachable
    /\ users' = users \cup {call[c].user}
    /\ Goes(c, Rest)
    /\ \/ UNCHANGED session
       \/ call[c].user \notin users /\ \E s \in Unsigned : create_token(s)
    /\ UNCHANGED <<reachable, jwt_secret, key, jti_revocations, logged_out, late, expired, together, pairings>>

-----------------------------------------------------------------------------
\* Devices.

create_pair_token(k) ==
    /\ reachable /\ users # {} /\ pair_token[k] = "none"
    /\ pair_token' = [pair_token EXCEPT ![k] = "open"]
    /\ UNCHANGED <<reachable, jwt_secret, sessions, expired, owners, pairing, uses, call>>

\* The same for a code on the screen.
get_pair_qr_payload(k) == create_pair_token(k)

Holds(k) == \E c \in Calls : In(c, "pair") /\ call[c].token = k

\* A fault: the row of the token is read and not locked.
pair_reading(c, k, d) ==
    /\ In(c, "idle") /\ reachable /\ pair_token[k] = "open" /\ k \notin expired
    /\ Goes(c, [at |-> "pair", token |-> k, device |-> d, existing |-> pairing[d] # "none"])
    /\ UNCHANGED <<reachable, jwt_secret, sessions, expired, owners, pairings>>

pair_device(c, k, d) ==
    /\ In(c, "idle") /\ reachable /\ ~Holds(k)
    /\ pair_token[k] = "open" /\ k \notin expired
    /\ Goes(c, [at |-> "pair", token |-> k, device |-> d, existing |-> pairing[d] # "none"])
    /\ UNCHANGED <<reachable, jwt_secret, sessions, expired, owners, pairings>>

\* A device paired since cannot be inserted again; a revoked one is taken back.
Paired(c) ==
    /\ In(c, "pair") /\ reachable
    /\ LET t == call[c] IN
        IF ~t.existing /\ pairing[t.device] # "none" THEN UNCHANGED pairings
        ELSE /\ pairing' = [pairing EXCEPT ![t.device] = "active"]
             /\ pair_token' = [pair_token EXCEPT ![t.token] = "used"]
             /\ uses' = [uses EXCEPT ![t.token] = @ + 1]
    /\ Goes(c, Rest)
    /\ UNCHANGED <<reachable, jwt_secret, sessions, expired, owners>>

list_paired_devices == {d \in Devices : pairing[d] = "active"}

revoke_paired_device(d) ==
    /\ reachable /\ d \in list_paired_devices
    /\ pairing' = [pairing EXCEPT ![d] = "revoked"]
    /\ UNCHANGED <<reachable, jwt_secret, sessions, expired, owners, pair_token, uses, call>>

\* What was not committed when the database went out of reach is lost.
CallFails(c) ==
    /\ call[c].at \in {"pair", "setup"} /\ ~reachable
    /\ Goes(c, Rest)
    /\ UNCHANGED <<reachable, jwt_secret, sessions, expired, owners, pairings>>

TokensNext ==
    \/ Reaches \/ Restarts \/ cleanup_expired_revocations
    \/ \E x \in Sessions \cup PairTokens : Expires(x)
    \/ \E s \in Sessions : do_login(s)
    \/ \E k \in PairTokens : create_pair_token(k) \/ get_pair_qr_payload(k)
    \/ \E d \in Devices : revoke_paired_device(d)
    \/ \E c \in Calls :
        \/ Checked(c) \/ revoke_token(c) \/ OwnerInserted(c) \/ Paired(c) \/ CallFails(c)
        \/ \E s \in Sessions : verify_auth(c, s) \/ logout(c, s)
        \/ \E u \in Owners : setup_owner(c, u)
        \/ \E k \in PairTokens, d \in Devices : pair_device(c, k, d)

TokensSpec == TokensInit /\ [][TokensNext]_tokens

-----------------------------------------------------------------------------
\* A token whose logout was answered as recorded is refused from then on until it
\* expires, whatever is cleaned up, as long as the database answers.  A pairing
\* token pairs one device once, however many calls present it, and no more devices
\* are listed, the revoked ones that came back included, than tokens were used.  A
\* node has one first owner, if no two set-ups ran at a time; and without one
\* nobody has a token.
TokensHonoured ==
    /\ late = {}
    /\ \A k \in PairTokens : uses[k] = IF pair_token[k] = "used" THEN 1 ELSE 0
    /\ Cardinality(list_paired_devices) <= Cardinality({k \in PairTokens : pair_token[k] = "used"})
    /\ ~together => Cardinality(users) <= 1
    /\ needs_setup => Unsigned = Sessions /\ list_paired_devices = {}
=============================================================================
