---------------------------- MODULE PeopleProofs ----------------------------
(***************************************************************************)
(* What a node keeps of the people that work with it, for any number of    *)
(* calls, rows, tills, tokens and devices: the customers with the list of  *)
(* a till, the employees with their codes, and the tokens with what is     *)
(* revoked, paired and set up.  Each part has an inductive invariant: it   *)
(* adds to the property what a call under way relies on.                   *)
(***************************************************************************)
EXTENDS People, Tokens, FiniteSetTheorems, SequenceTheorems, TLAPS

\* An element adds one to a set, or nothing.
LEMMA OneMore ==
  ASSUME NEW S, IsFiniteSet(S), NEW x
  PROVE  IsFiniteSet(S \cup {x}) /\ Cardinality(S \cup {x}) <= Cardinality(S) + 1
<1>1. Cardinality(S) \in Nat
  BY FS_CardinalityType
<1>2. /\ IsFiniteSet(S \cup {x})
      /\ Cardinality(S \cup {x}) = IF x \in S THEN Cardinality(S) ELSE Cardinality(S) + 1
  BY FS_AddElement
<1>3. CASE x \in S
  BY <1>1, <1>2, <1>3
<1>4. CASE x \notin S
  BY <1>1, <1>2, <1>4
<1> QED
  BY <1>3, <1>4

-----------------------------------------------------------------------------
(* Tokens                                                                  *)

CallType ==
    {Rest}
    \cup [at : {"check"}, session : Sessions, next : {"serve", "logout"}]
    \cup [at : {"revoke"}, session : Sessions]
    \cup [at : {"setup"}, user : Owners]
    \cup [at : {"pair"}, token : PairTokens, device : Devices, existing : BOOLEAN]

\* A revocation outlives its token, so no call is accepted with it.
LogoutsKept == late = {} /\ logged_out \ expired \subseteq jti_revocations

\* A call about to pair has a token that is still open, to itself: that is the
\* lock on the token's row.
PairsApart ==
    \A c \in Calls : In(c, "pair") =>
        /\ pair_token[call[c].token] = "open"
        /\ \A b \in Calls : In(b, "pair") /\ call[b].token = call[c].token => b = c

Used == {k \in PairTokens : pair_token[k] = "used"}

UsesCounted ==
    /\ \A k \in PairTokens : uses[k] = IF pair_token[k] = "used" THEN 1 ELSE 0
    /\ IsFiniteSet(Used) /\ IsFiniteSet(list_paired_devices)
    /\ Cardinality(list_paired_devices) <= Cardinality(Used)

\* A set-up that is alone began without an owner, and there still is none.
OwnerAlone ==
    ~together =>
        /\ \A b, c \in Calls : In(b, "setup") /\ In(c, "setup") => b = c
        /\ \A c \in Calls : In(c, "setup") => users = {}
        /\ \A u, v \in users : u = v

\* Without an owner there is nothing to come in with.
Unowned ==
    needs_setup =>
        /\ Unsigned = Sessions
        /\ \A k \in PairTokens : pair_token[k] = "none"
        /\ \A d \in Devices : pairing[d] = "none"

TokensShape == TokensTypeOK /\ call \in [Calls -> CallType]
TokensInv == TokensShape /\ LogoutsKept /\ PairsApart /\ UsesCounted /\ OwnerAlone /\ Unowned

LEMMA TokensStart == TokensInit => TokensInv
<1> SUFFICES ASSUME TokensInit PROVE TokensInv
  OBVIOUS
<1> USE DEF TokensInit
<1>1. \A c \in Calls : call[c].at = "idle"
  BY DEF Rest
<1>2. TokensShape
  <2>1. call \in [Calls -> CallType]
    BY DEF CallType
  <2>2. key \in 1..MaxRestarts + 1 /\ session \in [Sessions -> 0..MaxRestarts + 1]
    BY TokensAssumption
  <2>3. TokensTypeOK
    BY <1>1, <2>2 DEF TokensTypeOK
  <2> QED
    BY <2>1, <2>3 DEF TokensShape
<1>3. Used = {} /\ list_paired_devices = {}
  BY DEF Used, list_paired_devices
<1>4. UsesCounted
  BY <1>3, FS_EmptySet DEF UsesCounted
<1> QED
  BY <1>1, <1>2, <1>4 DEF TokensInv, LogoutsKept, PairsApart, OwnerAlone, Unowned, Unsigned, In, needs_setup

LEMMA TokensShaped ==
  ASSUME TokensShape, [TokensNext]_tokens
  PROVE  TokensShape'
<1> USE DEF TokensShape, TokensTypeOK
<1>1. CASE Reaches
  BY <1>1 DEF Reaches, sessions, owners, pairings
<1>2. CASE Restarts
  BY <1>2, TokensAssumption DEF Restarts, owners, pairings, CallType, Rest
<1>3. CASE cleanup_expired_revocations
  BY <1>3 DEF cleanup_expired_revocations, owners, pairings
<1>4. ASSUME NEW x \in Sessions \cup PairTokens, Expires(x) PROVE TokensShape'
  BY <1>4 DEF Expires, sessions, owners, pairings
<1>5. ASSUME NEW s \in Sessions, do_login(s) PROVE TokensShape'
  BY <1>5 DEF do_login, create_token, owners, pairings
<1>6. ASSUME NEW k \in PairTokens, create_pair_token(k) \/ get_pair_qr_payload(k) PROVE TokensShape'
  BY <1>6 DEF create_pair_token, get_pair_qr_payload, sessions, owners
<1>7. ASSUME NEW d \in Devices, revoke_paired_device(d) PROVE TokensShape'
  BY <1>7 DEF revoke_paired_device, sessions, owners
<1>8. ASSUME NEW c \in Calls, Checked(c) PROVE TokensShape'
  <2>1. call[c].session \in Sessions
    BY <1>8 DEF Checked, In, CallType, Rest
  <2> QED
    BY <1>8, <2>1 DEF Checked, Goes, owners, pairings, CallType, Rest
<1>9. ASSUME NEW c \in Calls, revoke_token(c) PROVE TokensShape'
  <2>1. call[c].session \in Sessions
    BY <1>9 DEF revoke_token, In, CallType, Rest
  <2> QED
    BY <1>9, <2>1 DEF revoke_token, Goes, owners, pairings, CallType, Rest
<1>10. ASSUME NEW c \in Calls, OwnerInserted(c) PROVE TokensShape'
  <2>1. call[c].user \in Owners
    BY <1>10 DEF OwnerInserted, In, CallType, Rest
  <2> QED
    BY <1>10, <2>1 DEF OwnerInserted, Goes, create_token, Unsigned, pairings, CallType, Rest
<1>11. ASSUME NEW c \in Calls, Paired(c) PROVE TokensShape'
  <2>1. call[c].token \in PairTokens /\ call[c].device \in Devices
    BY <1>11 DEF Paired, In, CallType, Rest
  <2> QED
    BY <1>11, <2>1 DEF Paired, Goes, sessions, owners, pairings, CallType, Rest
<1>12. ASSUME NEW c \in Calls, CallFails(c) PROVE TokensShape'
  BY <1>12 DEF CallFails, Goes, sessions, owners, pairings, CallType, Rest
<1>13. ASSUME NEW c \in Calls, NEW s \in Sessions, verify_auth(c, s) \/ logout(c, s) PROVE TokensShape'
  BY <1>13 DEF verify_auth, logout, verify_token, Goes, sessions, owners, pairings, CallType
<1>14. ASSUME NEW c \in Calls, NEW u \in Owners, setup_owner(c, u) PROVE TokensShape'
  BY <1>14 DEF setup_owner, Goes, sessions, pairings, CallType
<1>15. ASSUME NEW c \in Calls, NEW k \in PairTokens, NEW d \in Devices, pair_device(c, k, d) PROVE TokensShape'
  BY <1>15 DEF pair_device, Goes, sessions, owners, pairings, CallType
<1>16. CASE UNCHANGED tokens
  BY <1>16 DEF tokens
<1> QED
  BY <1>1, <1>2, <1>3, <1>4, <1>5, <1>6, <1>7, <1>8, <1>9, <1>10, <1>11, <1>12, <1>13, <1>14,
     <1>15, <1>16 DEF TokensNext

LEMMA LogoutsStayKept ==
  ASSUME TokensShape, LogoutsKept, [TokensNext]_tokens
  PROVE  LogoutsKept'
<1> USE DEF LogoutsKept
<1>1. CASE cleanup_expired_revocations
  BY <1>1 DEF cleanup_expired_revocations
<1>2. ASSUME NEW x \in Sessions \cup PairTokens, Expires(x) PROVE LogoutsKept'
  BY <1>2 DEF Expires, sessions
<1>3. ASSUME NEW c \in Calls, Checked(c) PROVE LogoutsKept'
  BY <1>3 DEF Checked, is_token_revoked
<1>4. ASSUME NEW c \in Calls, revoke_token(c) PROVE LogoutsKept'
  BY <1>4 DEF revoke_token
<1>5. CASE UNCHANGED <<expired, jti_revocations, logged_out, late>>
  BY <1>5
<1> QED
  BY <1>1, <1>2, <1>3, <1>4, <1>5 DEF TokensNext, tokens, Reaches, Restarts, do_login,
     create_pair_token, get_pair_qr_payload, revoke_paired_device, OwnerInserted, Paired, CallFails,
     verify_auth, logout, verify_token, setup_owner, pair_device, sessions

\* Calls that are about to pair change by pair_device, Paired and what ends
\* calls; a token that is open stays so until a call pairs with it.
LEMMA PairsStayApart ==
  ASSUME TokensShape, PairsApart, [TokensNext]_tokens
  PROVE  PairsApart'
<1> USE DEF PairsApart, In
<1>1. ASSUME NEW c \in Calls, NEW k \in PairTokens, NEW d \in Devices, pair_device(c, k, d)
      PROVE  PairsApart'
  <2>1. /\ pair_token' = pair_token
        /\ call' = [call EXCEPT ![c] = [at |-> "pair", token |-> k, device |-> d,
                                        existing |-> pairing[d] # "none"]]
        /\ pair_token[k] = "open"
        /\ \A b \in Calls : In(b, "pair") => call[b].token # k
    BY <1>1 DEF pair_device, Goes, Holds, pairings
  <2>2. call'[c].at = "pair" /\ call'[c].token = k
    BY <2>1 DEF TokensShape
  <2>3. \A b \in Calls : b # c => call'[b] = call[b]
    BY <2>1 DEF TokensShape
  <2> QED
    BY <2>1, <2>2, <2>3
<1>2. ASSUME NEW c \in Calls, Paired(c) PROVE PairsApart'
  <2>1. call' = [call EXCEPT ![c] = Rest] /\ call[c].at = "pair"
    BY <1>2 DEF Paired, Goes
  <2>2. call'[c].at = "idle" /\ \A b \in Calls : b # c => call'[b] = call[b]
    BY <2>1 DEF TokensShape, Rest
  <2>3. \A k \in PairTokens : k # call[c].token => pair_token'[k] = pair_token[k]
    BY <1>2 DEF Paired, TokensShape, TokensTypeOK, pairings
  <2>4. \A b \in Calls : In(b, "pair") => call[b].token \in PairTokens
    BY DEF TokensShape, CallType, Rest
  <2> QED
    BY <2>1, <2>2, <2>3, <2>4
<1>3. ASSUME NEW k \in PairTokens, create_pair_token(k) PROVE PairsApart'
  <2>1. /\ call' = call
        /\ pair_token[k] = "none"
        /\ pair_token' = [pair_token EXCEPT ![k] = "open"]
    BY <1>3 DEF create_pair_token
  <2>2. \A j \in PairTokens : j # k => pair_token'[j] = pair_token[j]
    BY <2>1 DEF TokensShape, TokensTypeOK
  <2>3. \A b \in Calls : In(b, "pair") => call[b].token \in PairTokens
    BY DEF TokensShape, CallType, Rest
  <2> QED
    BY <2>1, <2>2, <2>3
<1>4. ASSUME pair_token' = pair_token,
             \A c \in Calls : call'[c].at = "pair" => call'[c] = call[c]
      PROVE  PairsApart'
  BY <1>4
<1>5. CASE Restarts
  <2>1. \A c \in Calls : call'[c].at = "idle"
    BY <1>5 DEF Restarts, Rest
  <2> QED
    BY <1>5, <1>4, <2>1 DEF Restarts, pairings
<1>6. ASSUME NEW c \in Calls, Checked(c) \/ revoke_token(c) \/ OwnerInserted(c) \/ CallFails(c)
      PROVE  PairsApart'
  <2> DEFINE revoking == [at |-> "revoke", session |-> call[c].session]
  <2>1. call' = [call EXCEPT ![c] = Rest] \/ call' = [call EXCEPT ![c] = revoking]
    BY <1>6 DEF Checked, revoke_token, OwnerInserted, CallFails, Goes
  <2>2. Rest.at # "pair" /\ revoking.at # "pair"
    BY DEF Rest
  <2>3. call'[c].at # "pair" /\ \A b \in Calls : b # c => call'[b] = call[b]
    BY <2>1, <2>2 DEF TokensShape
  <2>4. pair_token' = pair_token
    BY <1>6 DEF Checked, revoke_token, OwnerInserted, CallFails, pairings
  <2> QED
    BY <1>4, <2>3, <2>4 DEF TokensShape
<1>7. ASSUME NEW c \in Calls, NEW s \in Sessions, verify_auth(c, s) \/ logout(c, s)
      PROVE  PairsApart'
  <2>1. call'[c].at # "pair" /\ \A b \in Calls : b # c => call'[b] = call[b]
    BY <1>7 DEF verify_auth, logout, verify_token, Goes, TokensShape
  <2>2. pair_token' = pair_token
    BY <1>7 DEF verify_auth, logout, verify_token, pairings
  <2> QED
    BY <1>4, <2>1, <2>2 DEF TokensShape
<1>8. ASSUME NEW c \in Calls, NEW u \in Owners, setup_owner(c, u) PROVE PairsApart'
  <2>1. call'[c].at # "pair" /\ \A b \in Calls : b # c => call'[b] = call[b]
    BY <1>8 DEF setup_owner, Goes, TokensShape
  <2>2. pair_token' = pair_token
    BY <1>8 DEF setup_owner, pairings
  <2> QED
    BY <1>4, <2>1, <2>2 DEF TokensShape
<1>9. CASE UNCHANGED <<pair_token, call>>
  BY <1>4, <1>9
<1> QED
  BY <1>1, <1>2, <1>3, <1>5, <1>6, <1>7, <1>8, <1>9 DEF TokensNext, tokens, Reaches,
     cleanup_expired_revocations, Expires, do_login, get_pair_qr_payload, revoke_paired_device, pairings

\* A pairing takes one device in and one token out of those that are open.
LEMMA UsesStayCounted ==
  ASSUME TokensShape, PairsApart, UsesCounted, [TokensNext]_tokens
  PROVE  UsesCounted'
<1>1. ASSUME UNCHANGED uses, Used' = Used,
             list_paired_devices' \subseteq list_paired_devices,
             \A k \in PairTokens : pair_token'[k] = "used" <=> pair_token[k] = "used"
      PROVE  UsesCounted'
  <2>1. /\ IsFiniteSet(list_paired_devices')
        /\ Cardinality(list_paired_devices') <= Cardinality(list_paired_devices)
    BY <1>1, FS_Subset DEF UsesCounted
  <2>2. /\ Cardinality(list_paired_devices') \in Nat /\ Cardinality(list_paired_devices) \in Nat
        /\ Cardinality(Used) \in Nat
    BY <2>1, FS_CardinalityType DEF UsesCounted
  <2> QED
    BY <1>1, <2>1, <2>2 DEF UsesCounted
<1>2. ASSUME NEW c \in Calls, Paired(c), UNCHANGED pairings PROVE UsesCounted'
  BY <1>1, <1>2 DEF pairings, Used, list_paired_devices
<1>3. ASSUME NEW c \in Calls, Paired(c), ~UNCHANGED pairings PROVE UsesCounted'
  <2> DEFINE k == call[c].token
             d == call[c].device
  <2>1. k \in PairTokens /\ d \in Devices
    BY <1>3 DEF Paired, In, TokensShape, CallType, Rest
  <2>2. /\ pairing' = [pairing EXCEPT ![d] = "active"]
        /\ pair_token' = [pair_token EXCEPT ![k] = "used"]
        /\ uses' = [uses EXCEPT ![k] = @ + 1]
    BY <1>3 DEF Paired
  <2>3. pair_token[k] = "open"
    BY <1>3 DEF Paired, PairsApart
  <2> HIDE DEF k, d
  <2>4. \A j \in PairTokens : uses'[j] = IF pair_token'[j] = "used" THEN 1 ELSE 0
    BY <2>1, <2>2, <2>3 DEF UsesCounted, TokensShape, TokensTypeOK
  <2>5. Used' = Used \cup {k} /\ k \notin Used
    BY <2>1, <2>2, <2>3 DEF Used, TokensShape, TokensTypeOK
  <2>6. list_paired_devices' \subseteq list_paired_devices \cup {d}
    BY <2>1, <2>2 DEF list_paired_devices, TokensShape, TokensTypeOK
  <2>7. IsFiniteSet(Used') /\ Cardinality(Used') = Cardinality(Used) + 1
    BY <2>5, FS_AddElement DEF UsesCounted
  <2>8. /\ IsFiniteSet(list_paired_devices \cup {d})
        /\ Cardinality(list_paired_devices \cup {d}) <= Cardinality(list_paired_devices) + 1
    <3>1. IsFiniteSet(list_paired_devices) /\ Cardinality(list_paired_devices) \in Nat
      BY FS_CardinalityType DEF UsesCounted
    <3> QED
      BY <3>1, OneMore
  <2>9. /\ IsFiniteSet(list_paired_devices')
        /\ Cardinality(list_paired_devices') <= Cardinality(list_paired_devices \cup {d})
    BY <2>6, <2>8, FS_Subset
  <2>10. /\ Cardinality(list_paired_devices') \in Nat /\ Cardinality(list_paired_devices) \in Nat
         /\ Cardinality(list_paired_devices \cup {d}) \in Nat /\ Cardinality(Used) \in Nat
    BY <2>8, <2>9, FS_CardinalityType DEF UsesCounted
  <2>11. Cardinality(list_paired_devices') <= Cardinality(Used')
    BY <2>7, <2>8, <2>9, <2>10 DEF UsesCounted
  <2> QED
    BY <2>4, <2>7, <2>9, <2>11 DEF UsesCounted
<1>4. ASSUME NEW k \in PairTokens, create_pair_token(k) PROVE UsesCounted'
  <2>1. \A j \in PairTokens : pair_token'[j] = "used" <=> pair_token[j] = "used"
    BY <1>4 DEF create_pair_token, TokensShape, TokensTypeOK
  <2>2. UNCHANGED <<uses, pairing>>
    BY <1>4 DEF create_pair_token
  <2> QED
    BY <1>1, <2>1, <2>2 DEF Used, list_paired_devices
<1>5. ASSUME NEW d \in Devices, revoke_paired_device(d) PROVE UsesCounted'
  <2>1. list_paired_devices' \subseteq list_paired_devices
    BY <1>5 DEF revoke_paired_device, list_paired_devices, TokensShape, TokensTypeOK
  <2>2. UNCHANGED <<uses, pair_token>>
    BY <1>5 DEF revoke_paired_device
  <2> QED
    BY <1>1, <2>1, <2>2 DEF Used
<1>6. CASE UNCHANGED pairings
  BY <1>1, <1>6 DEF pairings, Used, list_paired_devices
<1> QED
  BY <1>2, <1>3, <1>4, <1>5, <1>6 DEF TokensNext, tokens, Reaches, Restarts, cleanup_expired_revocations,
     Expires, do_login, get_pair_qr_payload, Checked, revoke_token, OwnerInserted, CallFails,
     verify_auth, logout, verify_token, setup_owner, pair_device, pairings

\* A second owner takes a second set-up that began before the first had ended.
LEMMA OwnerStaysAlone ==
  ASSUME TokensShape, OwnerAlone, [TokensNext]_tokens
  PROVE  OwnerAlone'
<1> USE DEF OwnerAlone, In
<1>1. ASSUME UNCHANGED owners, \A c \in Calls : call'[c].at = "setup" => call[c].at = "setup"
      PROVE  OwnerAlone'
  BY <1>1 DEF owners
<1>2. ASSUME NEW c \in Calls, NEW u \in Owners, setup_owner(c, u) PROVE OwnerAlone'
  <2>1. /\ users = {} /\ users' = users
        /\ together' = (together \/ \E b \in Calls : call[b].at = "setup")
        /\ call' = [call EXCEPT ![c] = [at |-> "setup", user |-> u]]
    BY <1>2 DEF setup_owner, needs_setup, Goes
  <2>2. \A b \in Calls : b # c => call'[b] = call[b]
    BY <2>1 DEF TokensShape
  <2> QED
    BY <2>1, <2>2
<1>3. ASSUME NEW c \in Calls, OwnerInserted(c) PROVE OwnerAlone'
  <2>1. /\ call[c].at = "setup"
        /\ users' = users \cup {call[c].user}
        /\ together' = together
        /\ call' = [call EXCEPT ![c] = Rest]
    BY <1>3 DEF OwnerInserted, Goes
  <2>2. call'[c].at = "idle" /\ \A b \in Calls : b # c => call'[b] = call[b]
    BY <2>1 DEF TokensShape, Rest
  <2> QED
    BY <2>1, <2>2
<1>4. CASE Restarts
  <2>1. \A c \in Calls : call'[c].at = "idle"
    BY <1>4 DEF Restarts, Rest
  <2> QED
    BY <1>1, <1>4, <2>1 DEF Restarts
<1>5. ASSUME NEW c \in Calls, Checked(c) \/ revoke_token(c) \/ Paired(c) \/ CallFails(c)
      PROVE  OwnerAlone'
  <2> DEFINE revoking == [at |-> "revoke", session |-> call[c].session]
  <2>1. call' = [call EXCEPT ![c] = Rest] \/ call' = [call EXCEPT ![c] = revoking]
    BY <1>5 DEF Checked, revoke_token, Paired, CallFails, Goes
  <2>2. Rest.at # "setup" /\ revoking.at # "setup"
    BY DEF Rest
  <2>3. call'[c].at # "setup" /\ \A b \in Calls : b # c => call'[b] = call[b]
    BY <2>1, <2>2 DEF TokensShape
  <2>4. UNCHANGED owners
    BY <1>5 DEF Checked, revoke_token, Paired, CallFails
  <2> QED
    BY <1>1, <2>3, <2>4 DEF TokensShape
<1>6. ASSUME NEW c \in Calls, NEW s \in Sessions, verify_auth(c, s) \/ logout(c, s)
      PROVE  OwnerAlone'
  <2>1. call'[c].at # "setup" /\ \A b \in Calls : b # c => call'[b] = call[b]
    BY <1>6 DEF verify_auth, logout, verify_token, Goes, TokensShape
  <2>2. UNCHANGED owners
    BY <1>6 DEF verify_auth, logout, verify_token
  <2> QED
    BY <1>1, <2>1, <2>2 DEF TokensShape
<1>7. ASSUME NEW c \in Calls, NEW k \in PairTokens, NEW d \in Devices, pair_device(c, k, d)
      PROVE  OwnerAlone'
  <2>1. call'[c].at # "setup" /\ \A b \in Calls : b # c => call'[b] = call[b]
    BY <1>7 DEF pair_device, Goes, TokensShape
  <2>2. UNCHANGED owners
    BY <1>7 DEF pair_device
  <2> QED
    BY <1>1, <2>1, <2>2 DEF TokensShape
<1>8. CASE UNCHANGED <<owners, call>>
  BY <1>1, <1>8
<1> QED
  BY <1>2, <1>3, <1>4, <1>5, <1>6, <1>7, <1>8 DEF TokensNext, tokens, owners, Reaches,
     cleanup_expired_revocations, Expires, do_login, create_pair_token, get_pair_qr_payload,
     revoke_paired_device

\* Tokens are given to users, and pairings made with tokens.
LEMMA UnownedStays ==
  ASSUME TokensShape, PairsApart, Unowned, [TokensNext]_tokens
  PROVE  Unowned'
<1> USE DEF Unowned, Unsigned, needs_setup
<1>1. ASSUME NEW s \in Sessions, do_login(s) PROVE Unowned'
  BY <1>1 DEF do_login, owners
<1>2. ASSUME NEW k \in PairTokens, create_pair_token(k) \/ get_pair_qr_payload(k) PROVE Unowned'
  BY <1>2 DEF create_pair_token, get_pair_qr_payload, owners
<1>3. ASSUME NEW d \in Devices, revoke_paired_device(d) PROVE Unowned'
  BY <1>3 DEF revoke_paired_device, list_paired_devices, owners, sessions
<1>4. ASSUME NEW c \in Calls, OwnerInserted(c) PROVE Unowned'
  BY <1>4 DEF OwnerInserted
<1>5. ASSUME NEW c \in Calls, Paired(c) PROVE Unowned'
  <2>1. call[c].token \in PairTokens /\ pair_token[call[c].token] = "open"
    BY <1>5 DEF Paired, In, PairsApart, TokensShape, CallType, Rest
  <2> QED
    BY <1>5, <2>1 DEF Paired, owners
<1>6. CASE UNCHANGED <<users, session, pairings>>
  BY <1>6 DEF pairings
<1> QED
  BY <1>1, <1>2, <1>3, <1>4, <1>5, <1>6 DEF TokensNext, tokens, owners, sessions, pairings, Reaches,
     Restarts, cleanup_expired_revocations, Expires, Checked, revoke_token, CallFails,
     verify_auth, logout, verify_token, setup_owner, pair_device

\* What the tables of sessions, pairings and owners keep while calls overlap, the
\* database goes out of reach and the process starts again.
THEOREM TokensInvariant == TokensSpec => []TokensInv
<1>1. TokensInv /\ [TokensNext]_tokens => TokensInv'
  BY TokensShaped, LogoutsStayKept, PairsStayApart, UsesStayCounted, OwnerStaysAlone, UnownedStays
     DEF TokensInv
<1> QED
  BY <1>1, TokensStart, PTL DEF TokensSpec

\* A logout that was recorded holds, a pairing token serves once, and there is one
\* first owner.
THEOREM TokensAreHonoured == TokensSpec => []TokensHonoured
<1>1. ASSUME TokensInv PROVE TokensHonoured
  <2>1. ASSUME ~together PROVE Cardinality(users) <= 1
    <3>1. CASE users = {}
      BY <3>1, FS_EmptySet
    <3>2. ASSUME NEW u \in users PROVE Cardinality(users) <= 1
      <4>1. users = {u}
        BY <1>1, <2>1 DEF TokensInv, OwnerAlone
      <4> QED
        BY <4>1, FS_Singleton
    <3> QED
      BY <3>1, <3>2
  <2>2. needs_setup => Unsigned = Sessions /\ list_paired_devices = {}
    BY <1>1 DEF TokensInv, Unowned, list_paired_devices
  <2> QED
    BY <1>1, <2>1, <2>2 DEF TokensHonoured, TokensInv, LogoutsKept, UsesCounted, Used
<1> QED
  BY <1>1, TokensInvariant, PTL

-----------------------------------------------------------------------------
(* Customers                                                                *)

CustomerRow == [name : Names, active : BOOLEAN]
NameSource == [how : {"created", "renamed", "pushed", "put back"}, of : Nat]
DeskCall == [at : {"checked"}, name : Names, ours : BOOLEAN, of : Nat]

\* What CustomersTypeOK says, and what kind of functions the variables are.
CustomersShape ==
    /\ customer \in Seq(CustomerRow) /\ named \in Seq(NameSource)
    /\ Len(named) = Len(customer)
    /\ desk \in [Desks -> DeskCall \cup {NoDesk}]
    /\ gone \subseteq Ids

\* A call that has looked a name up saw every row there was: one of them that has
\* the name by now was not created with it.
LookedUp ==
    \A d \in Desks : desk[d].at = "checked" =>
        /\ desk[d].of <= Len(customer)
        /\ \A i \in Active : i <= desk[d].of /\ customer[i].name = desk[d].name => named[i].how # "created"

\* What is about the node's rows, and what is about the till's list.
RowsExplained == CustomersShape /\ LookedUp /\ NamesExplained /\ GoneStayGone
CustomersInv == RowsExplained /\ TillAgrees

LEMMA IdsOf ==
  ASSUME CustomersShape
  PROVE  /\ Len(customer) \in Nat /\ Ids = 1..Len(customer) /\ DOMAIN named = 1..Len(customer)
         /\ \A i \in Ids : customer[i] \in CustomerRow /\ named[i] \in NameSource
         /\ \A d \in Desks : desk[d].at = "checked" => desk[d] \in DeskCall
<1>1. /\ Len(customer) \in Nat /\ customer \in [1..Len(customer) -> CustomerRow]
      /\ Len(named) \in Nat /\ named \in [1..Len(named) -> NameSource]
  BY LenProperties DEF CustomersShape
<1> QED
  BY <1>1 DEF CustomersShape, Ids, NoDesk

LEMMA CustomersStart == CustomersInit => CustomersInv
<1> SUFFICES ASSUME CustomersInit PROVE CustomersInv
  OBVIOUS
<1> USE DEF CustomersInit
<1>1. customer \in Seq(CustomerRow) /\ named \in Seq(NameSource) /\ Len(customer) = 0 /\ Len(named) = 0
  BY EmptySeq
<1>2. Ids = {}
  BY <1>1, LenProperties DEF Ids
<1>3. Active = {}
  BY <1>2 DEF Active
<1>4. \A d \in Desks : desk[d] = NoDesk /\ desk[d].at # "checked"
  BY DEF NoDesk
<1>5. TillAgrees
  <2>1. till = <<>> /\ DOMAIN till = {}
    BY EmptySeq, LenProperties
  <2>2. <<>> = [i \in {} |-> customer[i].name]
    OBVIOUS
  <2> QED
    BY <1>3, <2>1, <2>2 DEF TillAgrees
<1> QED
  BY <1>1, <1>2, <1>3, <1>4, <1>5
     DEF CustomersInv, RowsExplained, CustomersShape, LookedUp, NamesExplained, GoneStayGone

\* A row that is there changes.  It keeps its name, and does not come back by that;
\* or its name is from then on not that of its creation.
LEMMA RowEdited ==
  ASSUME RowsExplained, NEW i \in Ids, NEW row \in CustomerRow,
         customer' = [customer EXCEPT ![i] = row],
         \/ named' = named /\ row.name = customer[i].name /\ (row.active => customer[i].active)
         \/ \E s \in NameSource : s.how # "created" /\ named' = [named EXCEPT ![i] = s],
         gone' = IF row.active THEN gone \ {i} ELSE gone \cup {i},
         UNCHANGED desk
  PROVE  /\ RowsExplained' /\ Ids' = Ids
         /\ Active' = IF row.active THEN Active \cup {i} ELSE Active \ {i}
         /\ \A j \in Ids : customer'[j] = IF j = i THEN row ELSE customer[j]
<1> USE DEF RowsExplained
<1>1. /\ Len(customer) \in Nat /\ Ids = 1..Len(customer) /\ customer \in Seq(CustomerRow)
      /\ named \in Seq(NameSource) /\ Len(named) = Len(customer) /\ i \in 1..Len(customer)
  BY IdsOf DEF CustomersShape
<1>2. /\ customer' \in Seq(CustomerRow) /\ Len(customer') = Len(customer)
      /\ \A j \in Ids : customer'[j] = IF j = i THEN row ELSE customer[j]
  BY <1>1, ExceptSeq
<1>3. /\ named' \in Seq(NameSource) /\ Len(named') = Len(customer)
      /\ \A j \in Ids \ {i} : named'[j] = named[j]
      /\ named'[i].how # "created" \/ (named'[i] = named[i] /\ row.name = customer[i].name
                                         /\ (row.active => customer[i].active))
  <2>1. CASE named' = named /\ row.name = customer[i].name /\ (row.active => customer[i].active)
    BY <1>1, <2>1
  <2>2. ASSUME NEW s \in NameSource, s.how # "created", named' = [named EXCEPT ![i] = s]
        PROVE  <1>3!1 /\ <1>3!2 /\ named'[i].how # "created"
    BY <1>1, <2>2, ExceptSeq
  <2> QED
    BY <2>1, <2>2
<1>4. Ids' = Ids
  BY <1>1, <1>2, LenProperties DEF Ids
<1>5. Active' = IF row.active THEN Active \cup {i} ELSE Active \ {i}
  BY <1>2, <1>4 DEF Active
<1>6. CustomersShape'
  BY <1>2, <1>3, <1>4 DEF CustomersShape
<1>7. LookedUp'
  BY <1>2, <1>3, <1>4 DEF LookedUp, Active
<1>8. NamesExplained'
  BY <1>2, <1>3, <1>4 DEF NamesExplained, Active
<1>9. GoneStayGone'
  BY <1>4, <1>5 DEF GoneStayGone
<1> QED
  BY <1>2, <1>4, <1>5, <1>6, <1>7, <1>8, <1>9

\* A new row: it may have its name from a call that looked the name up, or not.
LEMMA CustomerAppended ==
  ASSUME RowsExplained, NEW name \in Names, Row(name),
         NEW s \in NameSource, named' = Append(named, s),
         s.how = "created" =>
            \A i \in Active : i <= s.of /\ customer[i].name = name => named[i].how # "created",
         gone' = gone,
         \A d \in Desks : desk'[d] = desk[d] \/ desk'[d] = NoDesk,
         desk' \in [Desks -> DeskCall \cup {NoDesk}]
  PROVE  /\ RowsExplained'
         /\ Len(customer') = Len(customer) + 1 /\ Len(customer') \notin Ids
         /\ Active' = Active \cup {Len(customer')}
         /\ customer'[Len(customer')].name = name
         /\ \A i \in Ids : customer'[i] = customer[i]
<1> USE DEF RowsExplained
<1> DEFINE row == [name |-> name, active |-> TRUE]
           n == Len(customer) + 1
<1>1. /\ Len(customer) \in Nat /\ Ids = 1..Len(customer) /\ customer \in Seq(CustomerRow)
      /\ named \in Seq(NameSource) /\ Len(named) = Len(customer)
  BY IdsOf DEF CustomersShape
<1>2. row \in CustomerRow /\ row.name = name /\ row.active /\ customer' = Append(customer, row)
  BY DEF CustomerRow, Row
<1>3. /\ customer' \in Seq(CustomerRow) /\ Len(customer') = n
      /\ \A i \in Ids : customer'[i] = customer[i]
      /\ customer'[n] = row
  <2> HIDE DEF row
  <2> QED
    BY <1>1, <1>2, AppendProperties
<1>4. /\ named' \in Seq(NameSource) /\ Len(named') = n
      /\ \A i \in Ids : named'[i] = named[i]
      /\ named'[n] = s
  BY <1>1, AppendProperties
<1>5. Ids' = Ids \cup {n} /\ n \notin Ids
  BY <1>1, <1>3, LenProperties DEF Ids
<1>6. customer'[n].name = name /\ customer'[n].active
  BY <1>2, <1>3
<1> HIDE DEF row, n
<1>7. Active' = Active \cup {n}
  BY <1>3, <1>5, <1>6 DEF Active
<1>8. n \in Nat /\ n = Len(customer) + 1 /\ \A i \in Ids : i \in Nat /\ i < n
  BY <1>1 DEF n
<1>9. CustomersShape'
  BY <1>3, <1>4, <1>5 DEF CustomersShape
<1>10. \A d \in Desks : desk'[d].at = "checked" => desk'[d] = desk[d] /\ desk[d].of \in Nat
  BY IdsOf DEF NoDesk, DeskCall
<1>11. LookedUp'
  <2> SUFFICES ASSUME NEW d \in Desks, desk'[d].at = "checked"
               PROVE  /\ desk'[d].of <= Len(customer')
                      /\ \A i \in Active' : i <= desk'[d].of /\ customer'[i].name = desk'[d].name
                                              => named'[i].how # "created"
    BY DEF LookedUp
  <2>1. desk'[d] = desk[d] /\ desk[d].of \in Nat /\ desk[d].of <= Len(customer)
    BY <1>10 DEF LookedUp
  <2>2. desk[d].of < n
    BY <1>1, <1>8, <2>1
  <2>3. ASSUME NEW i \in Active', i <= desk'[d].of, customer'[i].name = desk'[d].name
        PROVE  named'[i].how # "created"
    <3>1. i # n
      BY <1>8, <2>1, <2>2, <2>3
    <3>2. i \in Active /\ i \in Ids
      BY <1>7, <3>1 DEF Active
    <3>3. named[i].how # "created"
      BY <1>3, <2>1, <2>3, <3>2 DEF LookedUp
    <3> QED
      BY <1>4, <3>2, <3>3
  <2>4. desk'[d].of <= Len(customer')
    BY <1>3, <1>8, <2>1, <2>2
  <2> QED
    BY <2>3, <2>4
<1>12. NamesExplained'
  <2> SUFFICES ASSUME NEW i \in Active', NEW j \in Active', i < j, customer'[i].name = customer'[j].name,
                      named'[i].how = "created", named'[j].how = "created"
               PROVE  named'[j].of < i
    BY DEF NamesExplained
  <2>1. CASE j = n
    <3>1. i \in Active /\ i \in Ids /\ i \in Nat /\ s.of \in Nat
      <4>1. i # n
        BY <1>8, <2>1
      <4>2. i \in Active /\ i \in Ids
        BY <1>7, <4>1 DEF Active
      <4>3. s.of \in Nat
        BY DEF NameSource
      <4> QED
        BY <1>8, <4>2, <4>3
    <3>2. ~(i <= s.of)
      BY <1>3, <1>4, <1>6, <2>1, <3>1 DEF Active
    <3> QED
      BY <1>4, <2>1, <3>1, <3>2
  <2>2. CASE j # n
    <3>1. j \in Active /\ i \in Active
      BY <1>7, <1>8, <2>2 DEF Active
    <3> QED
      BY ZenonT(40), <1>3, <1>4, <3>1 DEF Active, NamesExplained
  <2> QED
    BY <2>1, <2>2
<1>13. GoneStayGone'
  BY <1>5, <1>7 DEF GoneStayGone, CustomersShape
<1> QED
  BY <1>3, <1>5, <1>6, <1>7, <1>8, <1>9, <1>11, <1>12, <1>13

\* Somebody else's call, and an answer that is lost, are seen.
LEMMA Unlisted == ByOthers \/ Lost => TillAgrees'
  BY DEF ByOthers, Lost, TillAgrees

LEMMA DeskChecks ==
  ASSUME CustomersInv, NEW d \in Desks, NEW name \in Names, NEW ours \in BOOLEAN,
         create_customer(d, name, ours)
  PROVE  CustomersInv'
<1> USE DEF CustomersInv, RowsExplained
<1> DEFINE checked == [at |-> "checked", name |-> name, ours |-> ours, of |-> Len(customer)]
<1>1. Len(customer) \in Nat /\ Ids = 1..Len(customer)
  BY IdsOf
<1>2. checked \in DeskCall /\ checked.name = name /\ checked.of = Len(customer)
  BY <1>1 DEF DeskCall
<1>3. desk' = [desk EXCEPT ![d] = checked] /\ UNCHANGED <<customer, till, named, gone, outdated, unheard>>
  BY DEF create_customer
<1>4. \A i \in Active : customer[i].name # name
  BY DEF create_customer
<1> HIDE DEF checked
<1>5. desk'[d] = checked /\ \A e \in Desks : e # d => desk'[e] = desk[e]
  BY <1>3 DEF CustomersShape
<1>6. CustomersShape'
  BY <1>2, <1>3 DEF CustomersShape, Ids
<1>7. LookedUp'
  BY <1>1, <1>2, <1>3, <1>4, <1>5 DEF LookedUp, Active, Ids
<1> QED
  BY <1>3, <1>6, <1>7 DEF NamesExplained, GoneStayGone, TillAgrees, Active, Ids

LEMMA DeskLeft ==
  ASSUME CustomersInv, NEW d \in Desks, TillGivesUp(d)
  PROVE  CustomersInv'
<1> USE DEF CustomersInv, RowsExplained
<1>1. desk[d] \in DeskCall
  BY IdsOf DEF TillGivesUp
<1> DEFINE left == [desk[d] EXCEPT !.ours = FALSE]
<1>2. left \in DeskCall /\ left.name = desk[d].name /\ left.of = desk[d].of /\ left.at = desk[d].at
  BY <1>1 DEF DeskCall
<1>3. desk' = [desk EXCEPT ![d] = left] /\ UNCHANGED <<customer, named, gone>>
  BY <1>1 DEF TillGivesUp, CustomersShape, DeskCall
<1> HIDE DEF left
<1>4. desk'[d] = left /\ \A e \in Desks : e # d => desk'[e] = desk[e]
  BY <1>3 DEF CustomersShape
<1>5. CustomersShape'
  BY <1>2, <1>3 DEF CustomersShape, Ids
<1>6. LookedUp'
  BY <1>2, <1>3, <1>4 DEF LookedUp, Active, Ids
<1>7. TillAgrees'
  BY Unlisted DEF TillGivesUp
<1> QED
  BY <1>3, <1>5, <1>6, <1>7 DEF NamesExplained, GoneStayGone, Active, Ids

\* The INSERT of a call that looked its name up; the till that made it adds it to its
\* list.
LEMMA DeskInserts ==
  ASSUME CustomersInv, NEW d \in Desks, CustomerInserted(d)
  PROVE  CustomersInv'
<1> USE DEF CustomersInv
<1> DEFINE name == desk[d].name
           s == [how |-> "created", of |-> desk[d].of]
           n == Len(customer')
<1>1. desk[d] \in DeskCall /\ desk[d].at = "checked"
  BY IdsOf DEF CustomerInserted, RowsExplained
<1>2. name \in Names /\ s \in NameSource /\ s.of = desk[d].of /\ named' = Append(named, s)
  BY <1>1 DEF DeskCall, NameSource, CustomerInserted
<1>3. \A i \in Active : i <= s.of /\ customer[i].name = name => named[i].how # "created"
  BY <1>1 DEF RowsExplained, LookedUp
<1>4. /\ desk' \in [Desks -> DeskCall \cup {NoDesk}]
      /\ \A e \in Desks : desk'[e] = desk[e] \/ desk'[e] = NoDesk
  BY DEF CustomerInserted, RowsExplained, CustomersShape
<1>5. Row(name) /\ gone' = gone
  BY DEF CustomerInserted
<1>6. Heard(TillWith(n, name)) \/ Lost \/ ByOthers
  BY DEF CustomerInserted
<1> HIDE DEF name, s
<1>7. /\ RowsExplained' /\ n \notin Ids /\ Active' = Active \cup {n}
      /\ customer'[n].name = name /\ \A i \in Ids : customer'[i] = customer[i]
  BY <1>2, <1>3, <1>4, <1>5, CustomerAppended
<1>8. TillAgrees'
  <2>1. CASE Lost \/ ByOthers
    BY <2>1, Unlisted
  <2>2. ASSUME Heard(TillWith(n, name)), ~outdated, ~unheard
        PROVE  till' = [i \in Active' |-> customer'[i].name]
    <3>1. DOMAIN till = Active /\ \A j \in Active : till[j] = customer[j].name
      BY <2>2 DEF TillAgrees
    <3>2. till' = [j \in Active' |-> IF j = n THEN name ELSE till[j]]
      BY <1>7, <2>2, <3>1 DEF Heard, TillWith
    <3>3. \A j \in Active' : (IF j = n THEN name ELSE till[j]) = customer'[j].name
      BY <1>7, <3>1 DEF Active
    <3> QED
      BY <3>2, <3>3
  <2> QED
    BY <1>6, <2>1, <2>2 DEF TillAgrees, Heard
<1> QED
  BY <1>7, <1>8

LEMMA PushedInserts ==
  ASSUME CustomersInv, NEW name \in Names, PushedNew(name)
  PROVE  CustomersInv'
<1> USE DEF CustomersInv
<1> DEFINE s == [how |-> "pushed", of |-> Len(customer)]
<1>1. Len(customer) \in Nat
  BY IdsOf DEF RowsExplained
<1>2. s \in NameSource /\ s.how # "created" /\ named' = Append(named, s)
  BY <1>1 DEF NameSource, PushedNew
<1>3. Row(name) /\ gone' = gone /\ desk' = desk
  BY DEF PushedNew
<1>4. desk' \in [Desks -> DeskCall \cup {NoDesk}]
  BY <1>3 DEF RowsExplained, CustomersShape
<1> HIDE DEF s
<1>5. RowsExplained'
  BY <1>2, <1>3, <1>4, CustomerAppended
<1> QED
  BY <1>5, Unlisted DEF PushedNew

\* What an edit, a push and a removal make of a row.
LEMMA RowRenamed ==
  ASSUME RowsExplained, NEW i \in Ids, NEW name \in Names, NEW how \in {"renamed", "pushed"},
         Renamed(i, name, how), UNCHANGED <<desk, gone>>
  PROVE  /\ RowsExplained' /\ Active' = Active
         /\ \A j \in Ids : customer'[j].name = IF j = i THEN name ELSE customer[j].name
<1> DEFINE row == [customer[i] EXCEPT !.name = name]
           s == [named[i] EXCEPT !.how = how]
<1>1. customer[i] \in CustomerRow /\ named[i] \in NameSource /\ customer \in Seq(CustomerRow) /\ named \in Seq(NameSource)
  BY IdsOf DEF RowsExplained, CustomersShape
<1>2. row \in CustomerRow /\ row.name = name /\ row.active = customer[i].active /\ row.active \in BOOLEAN
  BY <1>1 DEF CustomerRow
<1>3. s \in NameSource /\ s.how # "created"
  BY <1>1 DEF NameSource
<1>4. customer' = [customer EXCEPT ![i] = row]
  BY <1>1 DEF Renamed
<1>5. (customer[i].name = name /\ named' = named) \/ named' = [named EXCEPT ![i] = s]
  BY <1>1 DEF Renamed
<1>6. gone' = IF row.active THEN gone \ {i} ELSE gone \cup {i}
  BY <1>2 DEF RowsExplained, GoneStayGone, Active
<1> HIDE DEF row, s
<1>7. /\ RowsExplained'
      /\ Active' = IF row.active THEN Active \cup {i} ELSE Active \ {i}
      /\ \A j \in Ids : customer'[j] = IF j = i THEN row ELSE customer[j]
  BY <1>2, <1>3, <1>4, <1>5, <1>6, RowEdited
<1>8. Active' = Active
  BY <1>2, <1>7 DEF Active
<1> QED
  BY <1>2, <1>7, <1>8

LEMMA RowTakenOff ==
  ASSUME RowsExplained, NEW i \in Ids, TakenOff(i), UNCHANGED <<desk, named>>
  PROVE  /\ RowsExplained' /\ Active' = Active \ {i}
         /\ \A j \in Ids : customer'[j].name = customer[j].name
<1> DEFINE row == [customer[i] EXCEPT !.active = FALSE]
<1>1. customer[i] \in CustomerRow /\ customer \in Seq(CustomerRow)
  BY IdsOf DEF RowsExplained, CustomersShape
<1>2. row \in CustomerRow /\ row.name = customer[i].name /\ ~row.active
  BY <1>1 DEF CustomerRow
<1>3. customer' = [customer EXCEPT ![i] = row]
  BY <1>1 DEF TakenOff
<1>4. gone' = IF row.active THEN gone \ {i} ELSE gone \cup {i}
  BY <1>2 DEF TakenOff
<1> HIDE DEF row
<1>5. /\ RowsExplained'
      /\ Active' = IF row.active THEN Active \cup {i} ELSE Active \ {i}
      /\ \A j \in Ids : customer'[j] = IF j = i THEN row ELSE customer[j]
  BY <1>2, <1>3, <1>4, RowEdited
<1> QED
  BY <1>2, <1>5

LEMMA RowPutBack ==
  ASSUME CustomersInv, NEW i \in Ids, PutBack(i)
  PROVE  CustomersInv'
<1> USE DEF CustomersInv
<1> DEFINE row == [customer[i] EXCEPT !.active = TRUE]
           s == [named[i] EXCEPT !.how = "put back"]
<1>1. /\ customer[i] \in CustomerRow /\ named[i] \in NameSource
      /\ customer \in Seq(CustomerRow) /\ named \in Seq(NameSource)
  BY IdsOf DEF RowsExplained, CustomersShape
<1>2. row \in CustomerRow /\ row.name = customer[i].name /\ row.active
  BY <1>1 DEF CustomerRow
<1>3. s \in NameSource /\ s.how # "created"
  BY <1>1 DEF NameSource
<1>4. customer' = [customer EXCEPT ![i] = row]
  BY <1>1 DEF PutBack
<1>5. (customer[i].active /\ named' = named) \/ named' = [named EXCEPT ![i] = s]
  BY <1>1 DEF PutBack, Active
<1>6. (gone' = IF row.active THEN gone \ {i} ELSE gone \cup {i}) /\ desk' = desk
  BY <1>2 DEF PutBack
<1> HIDE DEF row, s
<1>7. RowsExplained'
  BY <1>2, <1>3, <1>4, <1>5, <1>6, RowEdited
<1> QED
  BY <1>7, Unlisted DEF PutBack

\* The till changes its list as the node answers.
LEMMA TillPushes ==
  ASSUME CustomersInv, NEW i \in Ids, NEW name \in Names, till_pushes(i, name)
  PROVE  CustomersInv'
<1> USE DEF CustomersInv
<1>1. /\ RowsExplained' /\ Active' = Active
      /\ \A j \in Ids : customer'[j].name = IF j = i THEN name ELSE customer[j].name
  BY RowRenamed DEF till_pushes, PushedOnto, PushedRow
<1>2. ASSUME Heard(TillWith(i, name)), ~outdated, ~unheard
      PROVE  till' = [j \in Active' |-> customer'[j].name]
  <2>1. DOMAIN till = Active /\ i \in Active /\ \A j \in Active : till[j] = customer[j].name
    BY <1>2 DEF TillAgrees, till_pushes
  <2>2. till' = [j \in Active' |-> IF j = i THEN name ELSE till[j]]
    <3>1. Active \cup {i} = Active
      BY <2>1
    <3> QED
      BY <1>1, <1>2, <2>1, <3>1 DEF Heard, TillWith
  <2>3. \A j \in Active' : (IF j = i THEN name ELSE till[j]) = customer'[j].name
    BY <1>1, <2>1 DEF Active
  <2> QED
    BY <2>2, <2>3
<1> QED
  BY <1>1, <1>2, Unlisted DEF till_pushes, TillAgrees, Heard

LEMMA TillDeletes ==
  ASSUME CustomersInv, NEW i \in Ids, till_deletes(i)
  PROVE  CustomersInv'
<1> USE DEF CustomersInv
<1>1. /\ RowsExplained' /\ Active' = Active \ {i}
      /\ \A j \in Ids : customer'[j].name = customer[j].name
  BY RowTakenOff DEF till_deletes
<1>2. ASSUME Heard(TillWithout(i)), ~outdated, ~unheard
      PROVE  till' = [j \in Active' |-> customer'[j].name]
  <2>1. DOMAIN till = Active /\ \A j \in Active : till[j] = customer[j].name
    BY <1>2 DEF TillAgrees
  <2>2. till' = [j \in Active' |-> till[j]]
    BY <1>1, <1>2, <2>1 DEF Heard, TillWithout
  <2>3. \A j \in Active' : till[j] = customer'[j].name
    BY <1>1, <2>1 DEF Active
  <2> QED
    BY <2>2, <2>3
<1> QED
  BY <1>1, <1>2, Unlisted DEF till_deletes, TillAgrees, Heard

\* A page that was all of the active customers.
LEMMA WholePage ==
  ASSUME CustomersShape, Cardinality(Active) <= PullLimit
  PROVE  sync_pull_customers = Active
<1>1. Ids = 1..Len(customer) /\ Len(customer) \in Nat
  BY IdsOf
<1>2. IsFiniteSet(1..Len(customer))
  BY <1>1, FS_Interval
<1>3. IsFiniteSet(Active)
  BY <1>1, <1>2, FS_Subset DEF Active
<1>4. ASSUME NEW i \in Active PROVE Cardinality({j \in Active : j < i}) < PullLimit
  <2> DEFINE before == {j \in Active : j < i}
  <2>1. before \subseteq Active /\ i \notin before /\ i \in Nat
    BY <1>1 DEF Active
  <2>2. before # Active
    BY <2>1
  <2> HIDE DEF before
  <2>3. /\ IsFiniteSet(before) /\ Cardinality(before) <= Cardinality(Active)
        /\ Cardinality(before) = Cardinality(Active) => before = Active
    BY <1>3, <2>1, FS_Subset
  <2>4. Cardinality(before) \in Nat /\ Cardinality(Active) \in Nat
    BY <1>3, <2>3, FS_CardinalityType
  <2>5. Cardinality(before) < PullLimit
    BY <2>2, <2>3, <2>4, CustomersAssumption
  <2> QED
    BY <2>5 DEF before
<1> QED
  BY <1>4 DEF sync_pull_customers

LEMMA TillPulls ==
  ASSUME CustomersInv, till_pulls
  PROVE  CustomersInv'
<1> USE DEF CustomersInv, RowsExplained
<1>1. UNCHANGED <<customer, desk, named, gone>>
  BY DEF till_pulls
<1>2. RowsExplained'
  BY <1>1 DEF CustomersShape, LookedUp, NamesExplained, GoneStayGone, Active, Ids
<1>3. ASSUME ~outdated' PROVE till' = [i \in Active' |-> customer'[i].name]
  <2>1. Active \subseteq 1..Len(customer) /\ Len(customer) \in Nat
    BY IdsOf DEF Active
  <2>2. IsFiniteSet(1..Len(customer))
    BY <2>1, FS_Interval
  <2>3. Cardinality(Active) \in Nat
    BY <2>1, <2>2, FS_Subset, FS_CardinalityType
  <2>4. Cardinality(Active) <= PullLimit
    <3>1. ~(Cardinality(Active) > PullLimit)
      BY <1>3, Zenon DEF till_pulls
    <3>2. PullLimit \in Nat
      BY CustomersAssumption
    <3> QED
      BY <2>3, <3>1, <3>2
  <2>5. sync_pull_customers = Active
    BY <2>4, WholePage
  <2> QED
    BY <1>1, <2>5 DEF till_pulls, Active, Ids
<1> QED
  BY <1>2, <1>3 DEF TillAgrees

LEMMA CustomersSteps == CustomersInv /\ [CustomersNext]_customers => CustomersInv'
<1> SUFFICES ASSUME CustomersInv, [CustomersNext]_customers PROVE CustomersInv'
  OBVIOUS
<1>1. ASSUME NEW i \in Ids, NEW name \in Names, update_customer(i, name) PROVE CustomersInv'
  BY <1>1, RowRenamed, Unlisted DEF update_customer, CustomersInv
<1>2. ASSUME NEW i \in Ids, delete_customer(i) PROVE CustomersInv'
  BY <1>2, RowTakenOff, Unlisted DEF delete_customer, CustomersInv
<1>3. CASE UNCHANGED customers
  BY <1>3 DEF customers, CustomersInv, RowsExplained, CustomersShape, LookedUp, NamesExplained,
     GoneStayGone, TillAgrees, Active, Ids
<1> QED
  BY <1>1, <1>2, <1>3, DeskChecks, DeskInserts, DeskLeft, RowPutBack, TillPushes, TillDeletes,
     PushedInserts, TillPulls DEF CustomersNext

\* The routes of customers and the pushes of tills explain every name that two active
\* customers share, keep who was taken off away, and a till's own list is the node's
\* until somebody else's call or a lost answer (customers/routes.py, sync/routes.py).
THEOREM CustomersAreHeld == CustomersSpec => []CustomersHold
<1>1. CustomersInv => CustomersHold
  BY DEF CustomersInv, RowsExplained, CustomersHold
<1> QED
  BY <1>1, CustomersStart, CustomersSteps, PTL DEF CustomersSpec

-----------------------------------------------------------------------------
(* Employees                                                                *)

StaffRow == [code : Codes, active : BOOLEAN]
StaffSteps == {"checked", "locked", "allowed", "written", "done", "refused"}
StaffCall == [at : StaffSteps, row : 0..MaxEmployees, code : Codes]
Locking == {"locked", "allowed", "written"}

\* What EmployeesTypeOK says, and what kind of functions the variables are.
StaffShape ==
    /\ employee \in Seq(StaffRow) /\ Len(employee) <= MaxEmployees
    /\ manager \in [Managers -> StaffCall \cup {NoManager}]
    /\ heldByOthers \in [Managers -> SUBSET Codes]

\* A call that inserts has no row; one that updates has a row that is there and that
\* is locked by it alone.
RowsHeld ==
    /\ \A m \in Managers :
        /\ Stands(m, "checked") => manager[m].row = 0
        /\ manager[m].at \in Locking => manager[m].row \in Staff
    /\ \A m, n \in Managers :
        m # n /\ manager[m].at \in Locking /\ manager[n].at \in Locking => manager[m].row # manager[n].row

\* UNIQUE: no two calls are about to commit one code.
PendingApart ==
    \A m, n \in Managers : m # n /\ Stands(m, "written") /\ Stands(n, "written") => manager[m].code # manager[n].code

\* The codes that a call may be refused over are noted.
CodesNoted ==
    \A m \in Managers :
        manager[m].at \in Locking \cup {"checked"} => CodesBut(manager[m].row, employee) \subseteq heldByOthers[m]

\* The inductive invariant.
EmployeesInv == StaffShape /\ RowsHeld /\ PendingApart /\ CodesNoted /\ EmployeesHold

LEMMA EmployeesStart == EmployeesInit => EmployeesInv
<1> SUFFICES ASSUME EmployeesInit PROVE EmployeesInv
  OBVIOUS
<1>1. StaffShape
  BY EmployeesAssumption DEF EmployeesInit, StaffShape, NoManager
<1>2. \A m \in Managers : manager[m].at = "idle"
  BY DEF EmployeesInit, NoManager
<1>3. Staff = {}
  BY DEF EmployeesInit, Staff
<1> QED
  BY <1>1, <1>2, <1>3 DEF EmployeesInv, RowsHeld, PendingApart, CodesNoted, EmployeesHold, Stands,
     Locking, list_employees

\* Who is not idle has asked for something.
LEMMA CallOf ==
  ASSUME StaffShape, NEW m \in Managers, manager[m].at # "idle"
  PROVE  manager[m] \in StaffCall /\ manager[m].code \in Codes
  BY DEF StaffShape, StaffCall, NoManager

LEMMA RowOf ==
  ASSUME StaffShape, NEW i \in Staff
  PROVE  employee[i] \in StaffRow /\ i \in 1..Len(employee)
  BY ElementOfSeq, LenProperties DEF StaffShape, Staff

\* Everybody is on one of the two lists.
LEMMA ListsCover ==
  ASSUME NEW rows \in Seq(StaffRow)
  PROVE  {i \in DOMAIN rows : rows[i].active = TRUE} \cup {i \in DOMAIN rows : rows[i].active = FALSE} = DOMAIN rows
<1>1. \A i \in DOMAIN rows : rows[i] \in StaffRow
  BY ElementOfSeq, LenProperties
<1> QED
  BY <1>1 DEF StaffRow

\* A call that begins has noted the codes there are.
LEMMA CallStarts ==
  ASSUME EmployeesInv, NEW m \in Managers, NEW where \in {"checked", "locked", "refused"},
         NEW i \in 0..Len(employee), NEW code \in Codes,
         CallBegins(m, where, i, code), UNCHANGED employee,
         where = "checked" => i = 0,
         where = "locked" => i \in Staff /\ ~RowLocked(i),
         where = "refused" => code \in CodesBut(i, employee)
  PROVE  EmployeesInv'
<1> USE DEF EmployeesInv
<1>1. i \in 0..MaxEmployees /\ Len(employee) \in Nat
  BY EmployeesAssumption, LenProperties DEF StaffShape
<1>2. CodesBut(i, employee) \subseteq Codes
  BY RowOf DEF CodesBut, StaffRow, Staff
<1>3. /\ manager' = [manager EXCEPT ![m] = [at |-> where, row |-> i, code |-> code]]
      /\ heldByOthers' = [heldByOthers EXCEPT ![m] = CodesBut(i, employee)]
      /\ Stands(m, "idle")
  BY DEF CallBegins
<1>4. StaffShape'
  BY <1>1, <1>2, <1>3 DEF StaffShape, StaffCall, StaffSteps
<1>5. RowsHeld'
  BY <1>3 DEF RowsHeld, StaffShape, Stands, Locking, RowLocked, Staff
<1>6. PendingApart'
  BY <1>3 DEF PendingApart, StaffShape, Stands
<1>7. CodesNoted'
  BY <1>3 DEF CodesNoted, StaffShape, CodesBut
<1>8. EmployeesHold'
  BY <1>3 DEF EmployeesHold, StaffShape, Stands, CodesBut, Staff, list_employees
<1> QED
  BY <1>4, <1>5, <1>6, <1>7, <1>8

\* A call goes from one step to the next, and no row is written.
LEMMA CallMoves ==
  ASSUME EmployeesInv, NEW m \in Managers, NEW where \in StaffSteps, manager[m].at # "idle",
         Becomes(m, where), UNCHANGED <<employee, heldByOthers>>,
         where = "allowed" => Stands(m, "locked"),
         where = "written" => Stands(m, "allowed") /\ CodeUnique(m) /\ CodeSettled(m),
         where \notin {"checked", "locked"},
         where = "refused" => manager[m].at \in Locking \cup {"checked"} /\ ~CodeUnique(m)
  PROVE  EmployeesInv'
<1> USE DEF EmployeesInv
<1>1. manager[m] \in StaffCall
  BY CallOf
<1>2. manager' = [manager EXCEPT ![m] = [manager[m] EXCEPT !.at = where]]
  BY <1>1 DEF Becomes, StaffShape, StaffCall
<1>3. StaffShape'
  BY <1>1, <1>2 DEF StaffShape, StaffCall
<1>4. RowsHeld'
  BY <1>1, <1>2 DEF RowsHeld, StaffShape, Stands, Locking, Staff, StaffCall
<1>5. PendingApart'
  BY <1>1, <1>2 DEF PendingApart, StaffShape, Stands, CodeSettled, CodesPending, StaffCall
<1>6. CodesNoted'
  BY <1>1, <1>2 DEF CodesNoted, StaffShape, CodesBut, Stands, Locking, StaffCall
<1>7. EmployeesHold'
  <2>1. where = "refused" => manager[m].code \in heldByOthers[m]
    BY DEF CodesNoted, CodeUnique
  <2>2. ASSUME NEW n \in Managers
        PROVE  /\ Stands(n, "refused")' => manager'[n].code \in heldByOthers'[n]
               /\ Stands(n, "written")' => manager'[n].code \notin CodesBut(manager'[n].row, employee')
    BY <1>1, <1>2, <2>1 DEF EmployeesHold, StaffShape, Stands, CodeUnique, StaffCall
  <2> QED
    BY <2>2 DEF EmployeesHold, Staff, list_employees, Stands, CodesBut
<1> QED
  BY <1>3, <1>4, <1>5, <1>6, <1>7

\* A call that was answered is over.
LEMMA CallEnds ==
  ASSUME EmployeesInv, NEW m \in Managers, Over(m)
  PROVE  EmployeesInv'
<1> USE DEF EmployeesInv
<1>1. /\ manager' = [manager EXCEPT ![m] = NoManager] /\ heldByOthers' = [heldByOthers EXCEPT ![m] = {}]
      /\ UNCHANGED employee
  BY DEF Over
<1>2. NoManager.at = "idle"
  BY DEF NoManager
<1>3. StaffShape'
  BY <1>1 DEF StaffShape
<1>4. RowsHeld'
  BY <1>1, <1>2 DEF RowsHeld, StaffShape, Stands, Locking, Staff
<1>5. PendingApart'
  BY <1>1, <1>2 DEF PendingApart, StaffShape, Stands
<1>6. CodesNoted'
  BY <1>1, <1>2 DEF CodesNoted, StaffShape, Stands, Locking, CodesBut
<1>7. EmployeesHold'
  BY <1>1, <1>2 DEF EmployeesHold, StaffShape, Stands, Staff, list_employees, CodesBut
<1> QED
  BY <1>3, <1>4, <1>5, <1>6, <1>7

\* A new row: nobody has its code, and nobody is about to.
LEMMA RowAdded ==
  ASSUME EmployeesInv, NEW m \in Managers, EmployeeInserted(m), CodeUnique(m)
  PROVE  EmployeesInv'
<1> USE DEF EmployeesInv
<1> DEFINE code == manager[m].code
           new == [code |-> code, active |-> TRUE]
<1>1. manager[m] \in StaffCall /\ code \in Codes /\ Stands(m, "checked") /\ manager[m].row = 0
  BY CallOf DEF EmployeeInserted, Stands, RowsHeld
<1>2. manager' = [manager EXCEPT ![m] = [manager[m] EXCEPT !.at = "done"]]
  BY <1>1 DEF EmployeeInserted, Becomes, StaffShape, StaffCall
<1>3. /\ employee' = Append(employee, new) /\ employee' \in Seq(StaffRow)
      /\ Len(employee') = Len(employee) + 1 /\ Len(employee) \in Nat
      /\ Staff = 1..Len(employee) /\ Staff' = 1..(Len(employee) + 1)
      /\ \A i \in Staff : employee'[i] = employee[i]
      /\ employee'[Len(employee) + 1] = new
  <2>1. new \in StaffRow /\ employee \in Seq(StaffRow) /\ employee' = Append(employee, new)
    BY <1>1 DEF EmployeeInserted, StaffShape, StaffRow
  <2>2. Len(employee) \in Nat /\ Staff = 1..Len(employee)
    BY <2>1, LenProperties DEF Staff
  <2>3. employee' \in Seq(StaffRow) /\ Len(employee') = Len(employee) + 1
    BY <2>1, AppendProperties
  <2>4. Staff' = 1..Len(employee')
    BY <2>3, LenProperties DEF Staff
  <2> QED
    BY <2>1, <2>2, <2>3, <2>4, AppendProperties
<1>4. \A i : CodesBut(i, employee') \subseteq CodesBut(i, employee) \cup {code}
  BY <1>3 DEF CodesBut, Staff
<1>5. \A j \in Staff : employee[j].code # code
  <2>1. 0 \notin Staff
    BY <1>3
  <2> QED
    BY <1>1, <2>1 DEF CodeUnique, CodesBut, Staff
<1>6. heldByOthers' = [n \in Managers |-> IF n = m \/ Stands(n, "idle") THEN heldByOthers[n] ELSE heldByOthers[n] \cup {code}]
  BY DEF EmployeeInserted
<1>7. StaffShape'
  <2>1. Len(employee') <= MaxEmployees
    BY <1>3, EmployeesAssumption DEF EmployeeInserted
  <2>2. manager' \in [Managers -> StaffCall \cup {NoManager}]
    BY <1>1, <1>2 DEF StaffShape, StaffCall, StaffSteps
  <2> QED
    BY <1>1, <1>3, <1>6, <2>1, <2>2 DEF StaffShape
<1>8. RowsHeld'
  BY <1>1, <1>2, <1>3 DEF RowsHeld, StaffShape, Stands, Locking, StaffCall
<1>9. PendingApart'
  BY <1>1, <1>2 DEF PendingApart, StaffShape, Stands, StaffCall
<1>10. CodesNoted'
  BY <1>1, <1>2, <1>4, <1>6 DEF CodesNoted, StaffShape, Stands, Locking, StaffCall
<1>11. EmployeesHold'
  <2>1. \A i, j \in Staff' : i # j => employee'[i].code # employee'[j].code
    BY <1>3, <1>5 DEF EmployeesHold
  <2>2. ASSUME NEW n \in Managers
        PROVE  /\ Stands(n, "refused")' => manager'[n].code \in heldByOthers'[n]
               /\ Stands(n, "written")' => manager'[n].code \notin CodesBut(manager'[n].row, employee')
    <3>1. Stands(n, "written") => manager[n].code # code
      BY DEF EmployeeInserted, CodeSettled, CodesPending
    <3> QED
      BY <1>1, <1>2, <1>4, <1>6, <3>1 DEF EmployeesHold, StaffShape, Stands, StaffCall
  <2>3. (list_employees(TRUE) \cup list_employees(FALSE) = Staff)'
    BY <1>3, ListsCover DEF list_employees, Staff
  <2> QED
    BY <2>1, <2>2, <2>3 DEF EmployeesHold, Staff, Stands, CodesBut
<1> QED
  BY <1>7, <1>8, <1>9, <1>10, <1>11

\* A new code: the call that commits it holds its row, and the code is nobody else's.
LEMMA CodeChanged ==
  ASSUME EmployeesInv, NEW m \in Managers, UpdateCommits(m)
  PROVE  EmployeesInv'
<1> USE DEF EmployeesInv
<1> DEFINE code == manager[m].code
           row == manager[m].row
<1>1. manager[m] \in StaffCall /\ code \in Codes /\ Stands(m, "written") /\ row \in Staff
  BY CallOf DEF UpdateCommits, Stands, RowsHeld, Locking
<1>2. manager' = [manager EXCEPT ![m] = [manager[m] EXCEPT !.at = "done"]]
  BY <1>1 DEF UpdateCommits, Becomes, StaffShape, StaffCall
<1>3. employee[row] \in StaffRow /\ row \in 1..Len(employee)
  BY <1>1, RowOf
<1>4. employee' = [employee EXCEPT ![row] = [employee[row] EXCEPT !.code = code]]
  BY <1>3 DEF UpdateCommits, StaffCommits, StaffRow, StaffShape
<1>5. [employee[row] EXCEPT !.code = code] \in StaffRow
  BY <1>1, <1>3 DEF StaffRow
<1>6. /\ employee' \in Seq(StaffRow) /\ Len(employee') = Len(employee) /\ Staff' = Staff
      /\ \A i \in Staff : employee'[i].code = IF i = row THEN code ELSE employee[i].code
      /\ \A i \in Staff : employee'[i] \in StaffRow
  <2> DEFINE changed == [employee[row] EXCEPT !.code = code]
  <2>1. employee \in Seq(StaffRow) /\ changed \in StaffRow /\ changed.code = code
    BY <1>3, <1>5 DEF StaffShape, StaffRow
  <2>2. /\ employee' \in Seq(StaffRow) /\ Len(employee') = Len(employee)
        /\ \A i \in 1..Len(employee) : employee'[i] = IF i = row THEN changed ELSE employee[i]
    BY <1>3, <1>4, <2>1, ExceptSeq
  <2>3. Staff = 1..Len(employee) /\ Staff' = 1..Len(employee)
    BY <2>1, <2>2, LenProperties DEF Staff
  <2> QED
    BY <2>1, <2>2, <2>3, RowOf
<1>7. \A i : CodesBut(i, employee') \subseteq CodesBut(i, employee) \cup {code}
  BY <1>6 DEF CodesBut, Staff
<1>8. heldByOthers' = [n \in Managers |-> IF Stands(n, "idle") THEN {} ELSE heldByOthers[n] \cup CodesBut(manager[n].row, employee')]
  BY DEF UpdateCommits, StaffCommits
<1>9. \A i : CodesBut(i, employee') \subseteq Codes
  BY <1>6 DEF CodesBut, Staff, StaffRow
<1>10. StaffShape'
  BY <1>1, <1>2, <1>6, <1>8, <1>9 DEF StaffShape, StaffCall, StaffSteps
<1>11. RowsHeld'
  BY <1>1, <1>2, <1>6 DEF RowsHeld, StaffShape, Stands, Locking, StaffCall
<1>12. PendingApart'
  BY <1>1, <1>2 DEF PendingApart, StaffShape, Stands, StaffCall
<1>13. CodesNoted'
  BY <1>1, <1>2, <1>8 DEF CodesNoted, StaffShape, Stands, Locking, StaffCall
<1>14. EmployeesHold'
  <2>1. \A j \in Staff \ {row} : employee[j].code # code
    BY <1>1 DEF EmployeesHold, CodesBut, Staff
  <2>2. \A i, j \in Staff' : i # j => employee'[i].code # employee'[j].code
    BY <1>6, <2>1 DEF EmployeesHold
  <2>3. ASSUME NEW n \in Managers
        PROVE  /\ Stands(n, "refused")' => manager'[n].code \in heldByOthers'[n]
               /\ Stands(n, "written")' => manager'[n].code \notin CodesBut(manager'[n].row, employee')
    <3>1. Stands(n, "written") /\ n # m => manager[n].code # code
      BY <1>1 DEF PendingApart
    <3> QED
      BY <1>1, <1>2, <1>7, <1>8, <3>1 DEF EmployeesHold, StaffShape, Stands, StaffCall
  <2>4. (list_employees(TRUE) \cup list_employees(FALSE) = Staff)'
    BY <1>6, ListsCover DEF list_employees, Staff
  <2> QED
    BY <2>2, <2>3, <2>4 DEF EmployeesHold, Staff, Stands, CodesBut
<1> QED
  BY <1>10, <1>11, <1>12, <1>13, <1>14

\* Who is taken off, or put back, keeps the code.
LEMMA CodeKept ==
  ASSUME EmployeesInv, NEW i \in Staff, NEW active \in BOOLEAN, ActiveSet(i, active)
  PROVE  EmployeesInv'
<1> USE DEF EmployeesInv
<1>1. employee[i] \in StaffRow /\ i \in 1..Len(employee)
  BY RowOf
<1>2. employee' = [employee EXCEPT ![i] = [employee[i] EXCEPT !.active = active]]
  BY <1>1 DEF ActiveSet, StaffRow, StaffShape
<1>3. [employee[i] EXCEPT !.active = active] \in StaffRow
  BY <1>1 DEF StaffRow
<1>4. /\ employee' \in Seq(StaffRow) /\ Len(employee') = Len(employee) /\ Staff' = Staff
      /\ \A j \in Staff : employee'[j].code = employee[j].code
      /\ \A j \in Staff : employee'[j] \in StaffRow
  BY <1>1, <1>2, <1>3, ExceptSeq, RowOf, LenProperties DEF StaffShape, Staff, StaffRow
<1>5. \A j : CodesBut(j, employee') = CodesBut(j, employee)
  BY <1>4 DEF CodesBut, Staff
<1>6. UNCHANGED <<manager, heldByOthers>>
  BY DEF ActiveSet
<1>7. StaffShape'
  BY <1>4, <1>6 DEF StaffShape
<1>8. RowsHeld' /\ PendingApart' /\ CodesNoted'
  BY <1>4, <1>5, <1>6 DEF RowsHeld, PendingApart, CodesNoted, Stands
<1>9. EmployeesHold'
  <2>1. (list_employees(TRUE) \cup list_employees(FALSE) = Staff)'
    BY <1>4, ListsCover DEF list_employees, Staff
  <2> QED
    BY <1>4, <1>5, <1>6, <2>1 DEF EmployeesHold, Stands
<1> QED
  BY <1>7, <1>8, <1>9

LEMMA EmployeesSteps == EmployeesInv /\ [EmployeesNext]_employees => EmployeesInv'
<1> SUFFICES ASSUME EmployeesInv, [EmployeesNext]_employees PROVE EmployeesInv'
  OBVIOUS
<1>0. Len(employee) \in Nat /\ Staff = 1..Len(employee) /\ 0 \in 0..Len(employee)
  BY LenProperties DEF EmployeesInv, StaffShape, Staff
<1>1. ASSUME NEW m \in Managers, NEW code \in Codes, create_employee(m, code) PROVE EmployeesInv'
  <2>1. CASE code \in CodesBut(0, employee)
    BY <1>0, <1>1, <2>1, CallStarts DEF create_employee
  <2>2. CASE code \notin CodesBut(0, employee)
    BY <1>0, <1>1, <2>2, CallStarts DEF create_employee
  <2> QED
    BY <2>1, <2>2
<1>2. ASSUME NEW m \in Managers, NEW code \in Codes, NEW i \in Staff, update_employee(m, i, code) PROVE EmployeesInv'
  <2>1. i \in 0..Len(employee)
    BY <1>0
  <2> QED
    BY <1>2, <2>1, CallStarts DEF update_employee
<1>3. ASSUME NEW m \in Managers, EmployeeInserted(m) PROVE EmployeesInv'
  <2>1. CASE CodeUnique(m)
    BY <1>3, <2>1, RowAdded
  <2>2. CASE ~CodeUnique(m)
    BY <1>3, <2>2, CallMoves DEF EmployeeInserted, Stands, StaffSteps
  <2> QED
    BY <2>1, <2>2
<1>4. ASSUME NEW m \in Managers, CodeLookedUp(m) PROVE EmployeesInv'
  <2>1. CASE CodeUnique(m)
    BY <1>4, <2>1, CallMoves DEF CodeLookedUp, Stands, StaffSteps
  <2>2. CASE ~CodeUnique(m)
    BY <1>4, <2>2, CallMoves DEF CodeLookedUp, Stands, StaffSteps, Locking
  <2> QED
    BY <2>1, <2>2
<1>5. ASSUME NEW m \in Managers, EmployeeUpdated(m) PROVE EmployeesInv'
  <2>1. CASE CodeUnique(m)
    BY <1>5, <2>1, CallMoves DEF EmployeeUpdated, Stands, StaffSteps
  <2>2. CASE ~CodeUnique(m)
    BY <1>5, <2>2, CallMoves DEF EmployeeUpdated, Stands, StaffSteps, Locking
  <2> QED
    BY <2>1, <2>2
<1>6. ASSUME NEW m \in Managers, UpdateCommits(m) PROVE EmployeesInv'
  BY <1>6, CodeChanged
<1>7. ASSUME NEW m \in Managers, Over(m) PROVE EmployeesInv'
  BY <1>7, CallEnds
<1>8. ASSUME NEW i \in Staff, delete_employee(i) \/ ActiveSet(i, TRUE) PROVE EmployeesInv'
  BY <1>8, CodeKept DEF delete_employee
<1>9. CASE UNCHANGED employees
  BY <1>9 DEF employees, EmployeesInv, StaffShape, RowsHeld, PendingApart, CodesNoted, EmployeesHold,
     Stands, Staff, CodesBut, list_employees
<1> QED
  BY <1>1, <1>2, <1>3, <1>4, <1>5, <1>6, <1>7, <1>8, <1>9 DEF EmployeesNext

\* create_employee, update_employee and delete_employee keep codes apart however they
\* meet, refuse a call only over a code that somebody had, and an update that has
\* passed the index cannot fail any more (employees/routes.py).
THEOREM CodesApart == EmployeesSpec => []EmployeesHold
<1>1. EmployeesInv => EmployeesHold
  BY DEF EmployeesInv
<1> QED
  BY <1>1, EmployeesStart, EmployeesSteps, PTL DEF EmployeesSpec

-----------------------------------------------------------------------------
\* Calls to the routes of customers and of employees leave each other's rows alone,
\* so that what each keeps alone, both keep together.
THEOREM PeopleKeep == PeopleSpec => []PeopleHold
<1>1. PeopleInit => CustomersInv /\ EmployeesInv
  BY CustomersStart, EmployeesStart DEF PeopleInit
<1>2. CustomersInv /\ EmployeesInv /\ [PeopleNext]_people => CustomersInv' /\ EmployeesInv'
  <2> SUFFICES ASSUME CustomersInv, EmployeesInv, [PeopleNext]_people
               PROVE  CustomersInv' /\ EmployeesInv'
    OBVIOUS
  <2>1. [CustomersNext]_customers /\ [EmployeesNext]_employees
    BY DEF PeopleNext, people
  <2> QED
    BY <2>1, CustomersSteps, EmployeesSteps
<1>3. CustomersInv /\ EmployeesInv => PeopleHold
  BY DEF CustomersInv, RowsExplained, CustomersHold, EmployeesInv, PeopleHold
<1> QED
  BY <1>1, <1>2, <1>3, PTL DEF PeopleSpec
=============================================================================
