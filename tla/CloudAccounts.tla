---------------------------- MODULE CloudAccounts ----------------------------
(***************************************************************************)
(* The accounts of the control plane: registration, login, sessions,       *)
(* passwords, link codes and the branch limit of a licence.  A handler is  *)
(* a row of statements that commit one by one, so each is a step of its    *)
(* own, and a call may break off between any two.                          *)
(***************************************************************************)
EXTENDS Naturals, Sequences, FiniteSets

CONSTANTS
    Workers,      \* the calls served at a time
    Emails,
    Secrets,      \* the passwords
    MaxBranches,  \* max_branches of every licence
    MaxRows,      \* bound of a run: users, sessions, codes and reset tokens in all
    MaxVersion    \* bound of a run: one more than the passwords a user may set

ASSUME LimitAssumption ==
    /\ MaxBranches \in Nat \ {0} /\ IsFiniteSet(Workers) /\ Workers # {}
    /\ MaxRows \in Nat /\ MaxVersion \in Nat \ {0}

VARIABLES
    users,        \* cloud_users, by id
    members,      \* cloud_user_memberships, each with the link code it came by (0: none)
    sessions,     \* cloud_sessions, each with the version in its token and, for the
                  \* properties, the password it was opened with
    tenants,      \* tenants, each with its branches and whether the cloud is activated
    codes,        \* cloud_link_codes: open means neither used nor expired
    resets,       \* cloud_password_resets, likewise
    call          \* what each call being served does next

accounts == <<users, members, sessions, tenants, codes, resets, call>>
records == <<users, members, sessions, tenants, codes, resets>>

Served == [next |-> "none"]
Steps == {"none", "open", "account", "join", "use", "change", "email", "revoke", "reset",
          "spend", "verify", "limit", "branch", "code", "link", "logout"}

AccountsTypeOK ==
    /\ users \in Seq([email : Emails, password : Secrets, version : 1..MaxVersion])
    /\ \A i, j \in DOMAIN users : users[i].email = users[j].email => i = j
    /\ \A m \in members : m.user \in DOMAIN users /\ m.tenant \in DOMAIN tenants
    /\ \A s \in DOMAIN sessions : sessions[s].user \in DOMAIN users
    /\ tenants \in Seq([branches : Nat, activated : BOOLEAN])
    /\ codes \in Seq([tenant : DOMAIN tenants, open : BOOLEAN])
    /\ resets \in Seq([user : DOMAIN users, open : BOOLEAN])
    /\ \A w \in Workers : call[w].next \in Steps

\* One anonymous tenant, which a node pre-registered.
AccountsInit ==
    /\ users = <<>>
    /\ members = {}
    /\ sessions = <<>>
    /\ tenants = <<[branches |-> 1, activated |-> FALSE]>>
    /\ codes = <<>>
    /\ resets = <<>>
    /\ call = [w \in Workers |-> Served]

Goes(w, then) == call' = [call EXCEPT ![w] = then]
At(w, step) == call[w].next = step
\* Bounds the run.
Room == Len(users) + Len(sessions) + Len(codes) + Len(resets) < MaxRows

Taken(e) == \E u \in DOMAIN users : users[u].email = e

-----------------------------------------------------------------------------
\* Sessions.

\* The token carries the version the user had when its row was read.
ToOpen(u, t) ==
    [next |-> "open", user |-> u, tenant |-> t,
     version |-> users[u].version, password |-> users[u].password]

\* A fault: the version is that of the moment the session is written.
OpenSessionAfresh(w) ==
    /\ At(w, "open")
    /\ Room
    /\ sessions' = Append(sessions,
          [user |-> call[w].user, tenant |-> call[w].tenant, live |-> TRUE,
           version |-> users[call[w].user].version, password |-> call[w].password])
    /\ Goes(w, Served)
    /\ UNCHANGED <<users, members, tenants, codes, resets>>

OpenSession(w) ==
    /\ At(w, "open")
    /\ Room
    /\ sessions' = Append(sessions,
          [user |-> call[w].user, tenant |-> call[w].tenant, live |-> TRUE,
           version |-> call[w].version, password |-> call[w].password])
    /\ Goes(w, Served)
    /\ UNCHANGED <<users, members, tenants, codes, resets>>

Login(w, u, p) ==
    /\ At(w, "none")
    /\ p = users[u].password
    /\ \E m \in members : m.user = u /\ Goes(w, ToOpen(u, m.tenant))
    /\ UNCHANGED records

\* A request is accepted if its session is live and its version is the user's.
Accepted(s) ==
    /\ sessions[s].live
    /\ sessions[s].version = users[sessions[s].user].version

\* Every call of an owner begins with _require_active_cloud_session.
Authorise(w, s, step) ==
    /\ At(w, "none")
    /\ Accepted(s)
    /\ Goes(w, [next |-> step, user |-> sessions[s].user, tenant |-> sessions[s].tenant, session |-> s])
    /\ UNCHANGED records

Logout(w) ==
    /\ At(w, "logout")
    /\ sessions' = [sessions EXCEPT ![call[w].session].live = FALSE]
    /\ Goes(w, Served)
    /\ UNCHANGED <<users, members, tenants, codes, resets>>

\* logout-all, and the last statement of a password change and of a reset.
Revoke(w) ==
    /\ At(w, "revoke")
    /\ sessions' = [s \in DOMAIN sessions |->
            IF sessions[s].user = call[w].user THEN [sessions[s] EXCEPT !.live = FALSE] ELSE sessions[s]]
    /\ Goes(w, Served)
    /\ UNCHANGED <<users, members, tenants, codes, resets>>

SessionExpires(s) ==
    /\ sessions[s].live
    /\ sessions' = [sessions EXCEPT ![s].live = FALSE]
    /\ UNCHANGED <<users, members, tenants, codes, resets, call>>

-----------------------------------------------------------------------------
\* Passwords and e-mail.

VerifyForPassword(w, p, new) ==
    /\ At(w, "verify")
    /\ p = users[call[w].user].password
    /\ Goes(w, [next |-> "change", user |-> call[w].user, password |-> new])
    /\ UNCHANGED records

VerifyForEmail(w, p, e) ==
    /\ At(w, "verify")
    /\ p = users[call[w].user].password
    /\ Taken(e) => users[call[w].user].email = e
    /\ Goes(w, [next |-> "email", user |-> call[w].user, email |-> e])
    /\ UNCHANGED records

WritePassword(u, p) ==
    /\ users[u].version < MaxVersion
    /\ users' = [users EXCEPT ![u].password = p, ![u].version = @ + 1]

ChangePassword(w) ==
    /\ At(w, "change")
    /\ WritePassword(call[w].user, call[w].password)
    /\ Goes(w, [next |-> "revoke", user |-> call[w].user])
    /\ UNCHANGED <<members, sessions, tenants, codes, resets>>

\* A fault: no index keeps the e-mails apart.
ChangeEmailUnchecked(w) ==
    /\ At(w, "email")
    /\ users' = [users EXCEPT ![call[w].user].email = call[w].email]
    /\ Goes(w, Served)
    /\ UNCHANGED <<members, sessions, tenants, codes, resets>>

\* The unique index refuses an e-mail another call has taken since.
ChangeEmail(w) ==
    /\ At(w, "email")
    /\ Taken(call[w].email) => users[call[w].user].email = call[w].email
    /\ users' = [users EXCEPT ![call[w].user].email = call[w].email]
    /\ Goes(w, Served)
    /\ UNCHANGED <<members, sessions, tenants, codes, resets>>

Forgot(u) ==
    /\ Room
    /\ resets' = Append(resets, [user |-> u, open |-> TRUE])
    /\ UNCHANGED <<users, members, sessions, tenants, codes, call>>

Reset(w, r, p) ==
    /\ At(w, "none")
    /\ resets[r].open
    /\ Goes(w, [next |-> "reset", reset |-> r, user |-> resets[r].user, password |-> p])
    /\ UNCHANGED records

ResetPassword(w) ==
    /\ At(w, "reset")
    /\ WritePassword(call[w].user, call[w].password)
    /\ Goes(w, [call[w] EXCEPT !.next = "spend"])
    /\ UNCHANGED <<members, sessions, tenants, codes, resets>>

SpendReset(w) ==
    /\ At(w, "spend")
    /\ resets' = [resets EXCEPT ![call[w].reset].open = FALSE]
    /\ Goes(w, [next |-> "revoke", user |-> call[w].user])
    /\ UNCHANGED <<users, members, sessions, tenants, codes>>

-----------------------------------------------------------------------------
\* Registration.

NewUser(e, p) == [email |-> e, password |-> p, version |-> 1]

\* A new business: one transaction, after which the answer cannot be built and
\* no session is opened.
RegisterBusiness(w, e, p) ==
    /\ At(w, "none")
    /\ Room
    /\ ~Taken(e)
    /\ users' = Append(users, NewUser(e, p))
    /\ tenants' = Append(tenants, [branches |-> 1, activated |-> FALSE])
    /\ members' = members \cup {[user |-> Len(users) + 1, tenant |-> Len(tenants) + 1, code |-> 0]}
    /\ UNCHANGED <<sessions, codes, resets, call>>

GenerateLinkCode(t) ==
    /\ Room
    /\ codes' = Append(codes, [tenant |-> t, open |-> TRUE])
    /\ UNCHANGED <<users, members, sessions, tenants, resets, call>>

\* A code registers an account only for a tenant that has none.
RegisterByCode(w, e, p, c) ==
    /\ At(w, "none")
    /\ codes[c].open
    /\ \A m \in members : m.tenant # codes[c].tenant
    /\ Goes(w, [next |-> "account", email |-> e, password |-> p, tenant |-> codes[c].tenant, code |-> c])
    /\ UNCHANGED records

\* An install token does for any tenant, whose branch is activated first.
RegisterByToken(w, e, p, t) ==
    /\ At(w, "none")
    /\ tenants' = [tenants EXCEPT ![t].activated = TRUE]
    /\ Goes(w, [next |-> "account", email |-> e, password |-> p, tenant |-> t, code |-> 0])
    /\ UNCHANGED <<users, members, sessions, codes, resets>>

\* A fault: an account that is there already joins the tenant.
InsertUserAgain(w) ==
    /\ At(w, "account")
    /\ Room
    /\ users' = IF Taken(call[w].email) THEN users ELSE Append(users, NewUser(call[w].email, call[w].password))
    /\ \E u \in DOMAIN users' :
          /\ users'[u].email = call[w].email
          /\ Goes(w, [next |-> "join", user |-> u, tenant |-> call[w].tenant,
                      code |-> call[w].code, password |-> call[w].password])
    /\ UNCHANGED <<members, sessions, tenants, codes, resets>>

InsertUser(w) ==
    /\ At(w, "account")
    /\ Room
    /\ ~Taken(call[w].email)
    /\ users' = Append(users, NewUser(call[w].email, call[w].password))
    /\ Goes(w, [next |-> "join", user |-> Len(users) + 1, tenant |-> call[w].tenant,
                code |-> call[w].code, password |-> call[w].password])
    /\ UNCHANGED <<members, sessions, tenants, codes, resets>>

Entering(w) ==
    [next |-> "open", user |-> call[w].user, tenant |-> call[w].tenant,
     version |-> 1, password |-> call[w].password]

InsertMember(w) ==
    /\ At(w, "join")
    /\ members' = members \cup
          {[user |-> call[w].user, tenant |-> call[w].tenant, code |-> call[w].code]}
    /\ Goes(w, IF call[w].code = 0 THEN Entering(w) ELSE [call[w] EXCEPT !.next = "use"])
    /\ UNCHANGED <<users, sessions, tenants, codes, resets>>

UseCode(w) ==
    /\ At(w, "use")
    /\ codes' = [codes EXCEPT ![call[w].code].open = FALSE]
    /\ Goes(w, Entering(w))
    /\ UNCHANGED <<users, members, sessions, tenants, resets>>

-----------------------------------------------------------------------------
\* Branches.

\* A fault: the branches of another tenant are counted.
CheckLimitElsewhere(w) ==
    /\ At(w, "limit")
    /\ \E t \in DOMAIN tenants : tenants[t].branches < MaxBranches
    /\ Goes(w, [call[w] EXCEPT !.next = "branch"])
    /\ UNCHANGED records

CheckLimit(w) ==
    /\ At(w, "limit")
    /\ tenants[call[w].tenant].branches < MaxBranches
    /\ Goes(w, [call[w] EXCEPT !.next = "branch"])
    /\ UNCHANGED records

InsertBranch(w) ==
    /\ At(w, "branch")
    /\ tenants' = [tenants EXCEPT ![call[w].tenant].branches = @ + 1]
    /\ Goes(w, Served)
    /\ UNCHANGED <<users, members, sessions, codes, resets>>

CheckCode(w, c) ==
    /\ At(w, "code")
    /\ codes[c].open
    /\ codes[c].tenant = call[w].tenant
    /\ Goes(w, [next |-> "link", code |-> c])
    /\ UNCHANGED records

LinkNode(w) ==
    /\ At(w, "link")
    /\ codes' = [codes EXCEPT ![call[w].code].open = FALSE]
    /\ Goes(w, Served)
    /\ UNCHANGED <<users, members, sessions, tenants, resets>>

\* A code or a reset token lapses.
Lapse ==
    /\ \/ \E c \in DOMAIN codes : codes' = [codes EXCEPT ![c].open = FALSE] /\ UNCHANGED resets
       \/ \E r \in DOMAIN resets : resets' = [resets EXCEPT ![r].open = FALSE] /\ UNCHANGED codes
    /\ UNCHANGED <<users, members, sessions, tenants, call>>

\* A call ends in an error, or its process does.
BreakOff(w) ==
    /\ call[w] # Served
    /\ Goes(w, Served)
    /\ UNCHANGED records

-----------------------------------------------------------------------------
AccountsNext ==
    \/ \E w \in Workers :
        \/ \E u \in DOMAIN users, p \in Secrets : Login(w, u, p)
        \/ \E s \in DOMAIN sessions, step \in {"verify", "limit", "code", "logout", "revoke"} :
              Authorise(w, s, step)
        \/ OpenSession(w) \/ Logout(w) \/ Revoke(w)
        \/ \E p \in Secrets :
              \/ \E new \in Secrets : VerifyForPassword(w, p, new)
              \/ \E e \in Emails : VerifyForEmail(w, p, e) \/ RegisterBusiness(w, e, p)
              \/ \E r \in DOMAIN resets : Reset(w, r, p)
              \/ \E e \in Emails, c \in DOMAIN codes : RegisterByCode(w, e, p, c)
              \/ \E e \in Emails, t \in DOMAIN tenants : RegisterByToken(w, e, p, t)
        \/ ChangePassword(w) \/ ChangeEmail(w) \/ ResetPassword(w) \/ SpendReset(w)
        \/ InsertUser(w) \/ InsertMember(w) \/ UseCode(w)
        \/ CheckLimit(w) \/ InsertBranch(w) \/ LinkNode(w)
        \/ \E c \in DOMAIN codes : CheckCode(w, c)
        \/ BreakOff(w)
    \/ \E u \in DOMAIN users : Forgot(u)
    \/ \E t \in DOMAIN tenants : GenerateLinkCode(t)
    \/ \E s \in DOMAIN sessions : SessionExpires(s)
    \/ Lapse

AccountsSpec == AccountsInit /\ [][AccountsNext]_accounts

-----------------------------------------------------------------------------
\* The branch limit and the one account of a link code are checked in one
\* statement and acted upon in another, with no lock between them: they are
\* overshot, by at most the calls that were under way.
ChecksOvershootByCalls ==
    /\ \A t \in DOMAIN tenants : tenants[t].branches < MaxBranches + Cardinality(Workers)
    /\ \A c \in DOMAIN codes :
          Cardinality({m \in members : m.code = c}) <= Cardinality(Workers)

\* A registration that breaks off between its user and the membership leaves an
\* account that can neither log in nor register again, for good.
Orphaned(u) ==
    /\ \A m \in members : m.user # u
    /\ \A w \in Workers : At(w, "join") => call[w].user # u
OrphanedForGood ==
    [][\A u \in DOMAIN users : Orphaned(u) => Orphaned(u)']_accounts

\* Sessions and passwords keep the promise of CloudAccess, whatever statements
\* of other calls run between the check of a password, the write of a session,
\* the write of a password and the revocation of the sessions before it.
Passwords == [u \in DOMAIN users |-> users[u].password]
Opened ==
    [u \in DOMAIN users |->
        {[number |-> s, password |-> sessions[s].password] :
            s \in {z \in DOMAIN sessions : sessions[z].user = u /\ Accepted(z)}}]
Access == INSTANCE CloudAccess WITH
    Numbers <- 1..MaxRows, password <- Passwords, open <- Opened
AccessKept == Access!AccessSpec
=============================================================================
