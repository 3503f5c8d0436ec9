------------------------- MODULE ControlPlaneProofs -------------------------
(***************************************************************************)
(* What is proved of the control plane and of the agents that talk to it:  *)
(* that its accounts keep the promise of CloudAccess, that its checks are  *)
(* overshot by no more than the calls under way and that an orphaned       *)
(* account stays one; that a branch whose tunnel is active has one; that   *)
(* an update leaves something to go back to; that trials are granted once  *)
(* and both programs judge a licence alike; and that the owner's pages     *)
(* show what the branches told and the owners reported.  For any calls,    *)
(* limits, branches, machines, versions, days and failures.                *)
(***************************************************************************)
EXTENDS MCControlPlane, SequenceTheorems, FiniteSetTheorems, WellFoundedInduction, TLAPS

-----------------------------------------------------------------------------
(* Accounts                                                                *)

User == [email : Emails, password : Secrets, version : 1..MaxVersion]
SessionRow == [user : Nat, tenant : Nat, live : BOOLEAN, version : Nat, password : Secrets]
Tenant == [branches : Nat, activated : BOOLEAN]
Code == [tenant : Nat, open : BOOLEAN]
ResetRow == [user : Nat, open : BOOLEAN]
Member == [user : Nat, tenant : Nat, code : Nat]

Opening == [next : {"open"}, user : Nat, tenant : Nat, version : Nat, password : Secrets]
Authorised ==
    [next : {"verify", "limit", "branch", "code", "logout", "revoke"}, user : Nat, tenant : Nat, session : Nat]
Changing == [next : {"change"}, user : Nat, password : Secrets]
Mailing == [next : {"email"}, user : Nat, email : Emails]
Revoking == [next : {"revoke"}, user : Nat]
Resetting == [next : {"reset", "spend"}, reset : Nat, user : Nat, password : Secrets]
SigningUp == [next : {"account"}, email : Emails, password : Secrets, tenant : Nat, code : Nat]
Joining == [next : {"join", "use"}, user : Nat, tenant : Nat, code : Nat, password : Secrets]
Linking == [next : {"link"}, code : Nat]
Call == {Served} \cup Opening \cup Authorised \cup Changing \cup Mailing \cup Revoking
        \cup Resetting \cup SigningUp \cup Joining \cup Linking

WithUser == Steps \ {"none", "account", "link"}
WithTenant == {"open", "verify", "limit", "branch", "code", "logout", "account", "join", "use"}
\* The calls that may still make a member by a link code.
Heading == {"account", "join"}

Tables ==
    /\ users \in Seq(User) /\ sessions \in Seq(SessionRow) /\ tenants \in Seq(Tenant)
    /\ codes \in Seq(Code) /\ resets \in Seq(ResetRow) /\ members \subseteq Member
    /\ call \in [Workers -> Call]
    /\ Len(users) + Len(sessions) + Len(codes) + Len(resets) <= MaxRows

\* The references between rows, and the UNIQUE index on e-mails.
RowsRefer ==
    /\ \A i, j \in DOMAIN users : users[i].email = users[j].email => i = j
    /\ \A m \in members : m.user \in DOMAIN users /\ m.tenant \in DOMAIN tenants
    /\ \A s \in DOMAIN sessions : sessions[s].tenant \in DOMAIN tenants
    /\ \A c \in DOMAIN codes : codes[c].tenant \in DOMAIN tenants
    /\ \A r \in DOMAIN resets : resets[r].user \in DOMAIN users

\* A session, or a call about to open one, that carries the version in force was
\* let in with the password in force.
LetIn(o, us) ==
    /\ o.user \in DOMAIN us
    /\ o.version <= us[o.user].version
    /\ o.version = us[o.user].version => o.password = us[o.user].password
SessionsLetIn == \A s \in DOMAIN sessions : LetIn(sessions[s], users)

\* What a call holds of rows that others write: a password set since raised the
\* version above the one a registration will write.
Refers(c, us, ts, cs, rs, ss) ==
    /\ c.next \in WithUser => c.user \in DOMAIN us
    /\ c.next \in WithTenant => c.tenant \in DOMAIN ts
    /\ c.next \in {"use", "link"} => c.code \in DOMAIN cs
    /\ c.next \in Heading \cup {"use"} /\ c.code # 0 => c.code \in DOMAIN cs /\ cs[c.code].tenant = c.tenant
    /\ c.next \in {"reset", "spend"} => c.reset \in DOMAIN rs
    /\ c.next = "logout" => c.session \in DOMAIN ss
    /\ c.next = "open" => LetIn(c, us)
    /\ c.next \in {"join", "use"} /\ us[c.user].version = 1 => us[c.user].password = c.password
CallsRefer == \A w \in Workers : Refers(call[w], users, tenants, codes, resets, sessions)

\* The inductive invariant.
AccountsInv == Tables /\ RowsRefer /\ SessionsLetIn /\ CallsRefer

-----------------------------------------------------------------------------
LEMMA Appended ==
  ASSUME NEW S, NEW rows \in Seq(S), NEW row \in S
  PROVE  /\ Append(rows, row) \in Seq(S) /\ Len(Append(rows, row)) = Len(rows) + 1
         /\ DOMAIN rows = 1..Len(rows) /\ Len(rows) \in Nat
         /\ DOMAIN Append(rows, row) = DOMAIN rows \cup {Len(rows) + 1}
         /\ Len(rows) + 1 \notin DOMAIN rows
         /\ \A i \in DOMAIN rows : Append(rows, row)[i] = rows[i]
         /\ Append(rows, row)[Len(rows) + 1] = row
<1>1. /\ Append(rows, row) \in Seq(S) /\ Len(Append(rows, row)) = Len(rows) + 1
      /\ \A i \in 1..Len(rows) : Append(rows, row)[i] = rows[i]
      /\ Append(rows, row)[Len(rows) + 1] = row
  BY AppendProperties
<1>2. Len(rows) \in Nat /\ DOMAIN rows = 1..Len(rows)
  BY LenProperties
<1>3. DOMAIN Append(rows, row) = 1..Len(Append(rows, row))
  BY <1>1, LenProperties
<1> QED
  BY <1>1, <1>2, <1>3

LEMMA Rewritten ==
  ASSUME NEW S, NEW rows \in Seq(S), NEW i \in DOMAIN rows, NEW row \in S
  PROVE  /\ [rows EXCEPT ![i] = row] \in Seq(S) /\ Len([rows EXCEPT ![i] = row]) = Len(rows)
         /\ DOMAIN [rows EXCEPT ![i] = row] = DOMAIN rows
         /\ \A j \in DOMAIN rows : [rows EXCEPT ![i] = row][j] = IF j = i THEN row ELSE rows[j]
<1>1. DOMAIN rows = 1..Len(rows)
  BY LenProperties
<1> QED
  BY <1>1, ExceptSeq

LEMMA RowsOfLength ==
  ASSUME NEW S, NEW n \in Nat, NEW rows \in [1..n -> S]
  PROVE  rows \in Seq(S) /\ Len(rows) = n
<1>1. rows \in Seq(S)
  BY SeqDef
<1>2. Len(rows) \in Nat /\ 1..Len(rows) = 1..n
  BY <1>1, LenProperties
<1>3. \A a, b \in Nat : 1..a = 1..b => a = b
  <2> SUFFICES ASSUME NEW a \in Nat, NEW b \in Nat, 1..a = 1..b, a < b PROVE FALSE
    OBVIOUS
  <2>1. b \in 1..b /\ b \notin 1..a
    OBVIOUS
  <2> QED
    BY <2>1
<1> QED
  BY <1>1, <1>2, <1>3

LEMMA RowOf ==
  ASSUME NEW S, NEW rows \in Seq(S), NEW i \in DOMAIN rows
  PROVE  rows[i] \in S
<1>1. DOMAIN rows = 1..Len(rows)
  BY LenProperties
<1> QED
  BY <1>1, ElementOfSeq

LEMMA CallOf ==
  ASSUME Tables, NEW w \in Workers
  PROVE  /\ At(w, "open") => call[w] \in Opening
         /\ call[w].next \in {"verify", "limit", "branch", "code", "logout"} => call[w] \in Authorised
         /\ At(w, "change") => call[w] \in Changing
         /\ At(w, "email") => call[w] \in Mailing
         /\ At(w, "revoke") => call[w] \in Revoking \cup Authorised
         /\ call[w].next \in {"reset", "spend"} => call[w] \in Resetting
         /\ At(w, "account") => call[w] \in SigningUp
         /\ call[w].next \in {"join", "use"} => call[w] \in Joining
         /\ At(w, "link") => call[w] \in Linking
<1>1. call[w] \in Call
  BY DEF Tables
<1> QED
  BY <1>1 DEF Call, At, Served, Opening, Authorised, Changing, Mailing, Revoking, Resetting, SigningUp, Joining,
     Linking

LEMMA UserOf ==
  ASSUME Tables, NEW u \in DOMAIN users
  PROVE  users[u] \in User /\ users[u].version \in Nat \ {0} /\ users[u].password \in Secrets /\ u \in Nat \ {0}
<1>1. users[u] \in User /\ u \in Nat \ {0}
  BY RowOf, LenProperties DEF Tables
<1> QED
  BY <1>1, LimitAssumption DEF User

\* Rows are never deleted, the tenant of a code never changes, and a password that
\* is set raises the version.
Grows ==
    /\ DOMAIN users \subseteq DOMAIN users' /\ DOMAIN tenants \subseteq DOMAIN tenants'
    /\ DOMAIN codes \subseteq DOMAIN codes' /\ DOMAIN resets \subseteq DOMAIN resets'
    /\ DOMAIN sessions \subseteq DOMAIN sessions'
    /\ \A c \in DOMAIN codes : codes'[c].tenant = codes[c].tenant
    /\ \A u \in DOMAIN users :
        /\ users'[u].version >= users[u].version
        /\ users'[u].version = users[u].version => users'[u].password = users[u].password

LEMMA LetInStays ==
  ASSUME Tables, Tables', Grows, NEW o, o.version \in Nat, LetIn(o, users)
  PROVE  LetIn(o, users')
<1>1. users[o.user] \in User /\ users'[o.user] \in User
  BY RowOf DEF Tables, LetIn, Grows
<1>2. users[o.user].version \in Nat /\ users'[o.user].version \in Nat
  BY <1>1, LimitAssumption DEF User
<1> QED
  BY <1>2 DEF LetIn, Grows

LEMMA RefersStays ==
  ASSUME Tables, Tables', Grows, NEW c \in Call, Refers(c, users, tenants, codes, resets, sessions)
  PROVE  Refers(c, users', tenants', codes', resets', sessions')
<1>1. c.next = "open" => c.version \in Nat
  BY DEF Call, Opening, Served, Authorised, Changing, Mailing, Revoking, Resetting, SigningUp, Joining, Linking
<1>2. c.next = "open" => LetIn(c, users')
  BY <1>1, LetInStays DEF Refers
<1>3. ASSUME c.next \in {"join", "use"}, users'[c.user].version = 1
      PROVE  users'[c.user].password = c.password
  <2>1. c.user \in DOMAIN users
    BY <1>3 DEF Refers, WithUser, Steps
  <2>2. users[c.user] \in User
    BY <2>1, RowOf DEF Tables
  <2>3. users[c.user].version \in 1..MaxVersion
    BY <2>2 DEF User
  <2>4. users[c.user].version = 1
    BY <1>3, <2>1, <2>3, LimitAssumption DEF Grows
  <2> QED
    BY <1>3, <2>1, <2>4 DEF Refers, Grows
<1> QED
  BY <1>2, <1>3 DEF Refers, Grows, Heading

\* A step keeps the invariant when the rows it writes, and the call it changes, refer
\* to rows that are there.
LEMMA StepKeeps ==
  ASSUME AccountsInv, Tables', Grows, RowsRefer',
         \A s \in DOMAIN sessions' : LetIn(sessions'[s], users') \/ (s \in DOMAIN sessions
             /\ sessions'[s].user = sessions[s].user /\ sessions'[s].version = sessions[s].version
             /\ sessions'[s].password = sessions[s].password),
         \A w \in Workers :
             call'[w] = call[w] \/ Refers(call'[w], users', tenants', codes', resets', sessions')
  PROVE  AccountsInv'
<1> USE DEF AccountsInv
<1>1. SessionsLetIn'
  <2> SUFFICES ASSUME NEW s \in DOMAIN sessions', ~LetIn(sessions'[s], users')
               PROVE  FALSE
    BY DEF SessionsLetIn
  <2>1. /\ s \in DOMAIN sessions /\ sessions'[s].user = sessions[s].user
        /\ sessions'[s].version = sessions[s].version /\ sessions'[s].password = sessions[s].password
    OBVIOUS
  <2>2. sessions[s] \in SessionRow
    BY <2>1, RowOf DEF Tables
  <2>3. LetIn(sessions[s], users')
    BY <2>1, <2>2, LetInStays DEF SessionsLetIn, SessionRow
  <2> QED
    BY <2>1, <2>3 DEF LetIn
<1>2. CallsRefer'
  <2>1. \A w \in Workers : call[w] \in Call
    BY DEF Tables
  <2>2. \A w \in Workers : Refers(call[w], users', tenants', codes', resets', sessions')
    BY <2>1, RefersStays DEF CallsRefer
  <2> QED
    BY <2>2 DEF CallsRefer
<1> QED
  BY <1>1, <1>2

LEMMA AccountsStart == AccountsInit => AccountsInv
<1> SUFFICES ASSUME AccountsInit PROVE AccountsInv
  OBVIOUS
<1>1. Tables
  <2>1. \A S : <<>> \in Seq(S)
    BY EmptySeq
  <2>2. tenants = Append(<<>>, [branches |-> 1, activated |-> FALSE])
    BY DEF AccountsInit
  <2>3. [branches |-> 1, activated |-> FALSE] \in Tenant
    BY DEF Tenant
  <2>4. tenants \in Seq(Tenant)
    BY <2>1, <2>2, <2>3, AppendProperties
  <2>5. Len(<<>>) = 0
    BY EmptySeq
  <2> QED
    BY <2>1, <2>4, <2>5, LimitAssumption DEF AccountsInit, Tables, Call
<1>2. DOMAIN users = {} /\ DOMAIN sessions = {} /\ DOMAIN codes = {} /\ DOMAIN resets = {}
  BY DEF AccountsInit
<1>3. \A w \in Workers : call[w].next = "none"
  BY DEF AccountsInit, Served
<1> QED
  BY <1>1, <1>2, <1>3 DEF AccountsInv, RowsRefer, SessionsLetIn, CallsRefer, Refers, WithUser, WithTenant, Heading,
     AccountsInit

\* Only a call moves on.
LEMMA CallGoes ==
  ASSUME AccountsInv, NEW w \in Workers, NEW then \in Call, Goes(w, then), UNCHANGED records,
         Refers(then, users, tenants, codes, resets, sessions)
  PROVE  AccountsInv'
<1>1. call' = [call EXCEPT ![w] = then] /\ UNCHANGED <<users, members, sessions, tenants, codes, resets>>
  BY DEF Goes, records
<1>2. Tables'
  BY <1>1 DEF AccountsInv, Tables
<1>3. Grows
  <2>1. \A u \in DOMAIN users : users[u].version \in Nat
    BY UserOf DEF AccountsInv
  <2> QED
    BY <1>1, <2>1 DEF Grows
<1>4. RowsRefer'
  BY <1>1 DEF AccountsInv, RowsRefer
<1>5. \A v \in Workers :
        call'[v] = call[v] \/ Refers(call'[v], users', tenants', codes', resets', sessions')
  BY <1>1 DEF AccountsInv, Tables
<1> QED
  BY <1>1, <1>2, <1>3, <1>4, <1>5, StepKeeps

LEMMA LoginStep ==
  ASSUME AccountsInv, NEW w \in Workers, NEW u \in DOMAIN users, NEW p \in Secrets, Login(w, u, p)
  PROVE  AccountsInv'
<1>1. PICK m \in members : m.user = u /\ Goes(w, ToOpen(u, m.tenant))
  BY DEF Login
<1>2. users[u] \in User /\ u \in Nat
  BY RowOf, LenProperties DEF AccountsInv, Tables
<1>3. m.tenant \in DOMAIN tenants /\ m.tenant \in Nat
  BY DEF AccountsInv, Tables, RowsRefer, Member
<1>4. ToOpen(u, m.tenant) \in Call
  BY <1>2, <1>3, LimitAssumption DEF ToOpen, Call, Opening, User
<1>5. Refers(ToOpen(u, m.tenant), users, tenants, codes, resets, sessions)
  BY <1>2, <1>3, LimitAssumption DEF ToOpen, Refers, LetIn, Heading, User
<1>6. UNCHANGED records
  BY DEF Login
<1> QED
  BY <1>1, <1>4, <1>5, <1>6, CallGoes

LEMMA SessionOf ==
  ASSUME AccountsInv, NEW s \in DOMAIN sessions
  PROVE  sessions[s] \in SessionRow /\ s \in Nat /\ sessions[s].user \in DOMAIN users
BY RowOf, LenProperties DEF AccountsInv, Tables, SessionsLetIn, LetIn

LEMMA AuthoriseStep ==
  ASSUME AccountsInv, NEW w \in Workers, NEW s \in DOMAIN sessions,
         NEW step \in {"verify", "limit", "code", "logout", "revoke"}, Authorise(w, s, step)
  PROVE  AccountsInv'
<1> DEFINE then == [next |-> step, user |-> sessions[s].user, tenant |-> sessions[s].tenant, session |-> s]
<1>1. Goes(w, then) /\ UNCHANGED records
  BY DEF Authorise
<1>2. sessions[s] \in SessionRow /\ s \in Nat /\ sessions[s].user \in DOMAIN users /\ sessions[s].tenant \in DOMAIN tenants
  BY SessionOf DEF AccountsInv, RowsRefer
<1>3. then \in Call
  BY <1>2 DEF Call, Authorised, SessionRow
<1>4. Refers(then, users, tenants, codes, resets, sessions)
  BY <1>2 DEF Refers, Heading
<1> QED
  BY <1>1, <1>3, <1>4, CallGoes

\* The calls that check something and go on, or are over.
LEMMA CheckSteps ==
  ASSUME AccountsInv, NEW w \in Workers,
         \/ \E p \in Secrets, new \in Secrets : VerifyForPassword(w, p, new)
         \/ \E p \in Secrets, e \in Emails : VerifyForEmail(w, p, e)
         \/ \E p \in Secrets, r \in DOMAIN resets : Reset(w, r, p)
         \/ \E p \in Secrets, e \in Emails, c \in DOMAIN codes : RegisterByCode(w, e, p, c)
         \/ CheckLimit(w)
         \/ \E c \in DOMAIN codes : CheckCode(w, c)
         \/ BreakOff(w)
  PROVE  AccountsInv'
<1>0. Refers(call[w], users, tenants, codes, resets, sessions)
  BY DEF AccountsInv, CallsRefer
<1>1. ASSUME NEW p \in Secrets, NEW new \in Secrets, VerifyForPassword(w, p, new) PROVE AccountsInv'
  <2> DEFINE then == [next |-> "change", user |-> call[w].user, password |-> new]
  <2>1. Goes(w, then) /\ UNCHANGED records /\ At(w, "verify")
    BY <1>1 DEF VerifyForPassword
  <2>2. call[w].user \in DOMAIN users /\ call[w].user \in Nat
    BY <1>0, <2>1, CallOf DEF Refers, At, WithUser, Steps, Authorised, AccountsInv
  <2>3. then \in Call /\ Refers(then, users, tenants, codes, resets, sessions)
    BY <2>2 DEF Call, Changing, Refers, WithTenant, Heading
  <2> QED
    BY <2>1, <2>3, CallGoes
<1>2. ASSUME NEW p \in Secrets, NEW e \in Emails, VerifyForEmail(w, p, e) PROVE AccountsInv'
  <2> DEFINE then == [next |-> "email", user |-> call[w].user, email |-> e]
  <2>1. Goes(w, then) /\ UNCHANGED records /\ At(w, "verify")
    BY <1>2 DEF VerifyForEmail
  <2>2. call[w].user \in DOMAIN users /\ call[w].user \in Nat
    BY <1>0, <2>1, CallOf DEF Refers, At, WithUser, Steps, Authorised, AccountsInv
  <2>3. then \in Call /\ Refers(then, users, tenants, codes, resets, sessions)
    BY <2>2 DEF Call, Mailing, Refers, WithTenant, Heading
  <2> QED
    BY <2>1, <2>3, CallGoes
<1>3. ASSUME NEW p \in Secrets, NEW r \in DOMAIN resets, Reset(w, r, p) PROVE AccountsInv'
  <2> DEFINE then == [next |-> "reset", reset |-> r, user |-> resets[r].user, password |-> p]
  <2>1. Goes(w, then) /\ UNCHANGED records
    BY <1>3 DEF Reset
  <2>2. resets[r] \in ResetRow /\ r \in Nat /\ resets[r].user \in DOMAIN users
    BY RowOf, LenProperties DEF AccountsInv, Tables, RowsRefer
  <2>3. then \in Call /\ Refers(then, users, tenants, codes, resets, sessions)
    BY <2>2 DEF Call, Resetting, ResetRow, Refers, WithTenant, Heading
  <2> QED
    BY <2>1, <2>3, CallGoes
<1>4. ASSUME NEW p \in Secrets, NEW e \in Emails, NEW c \in DOMAIN codes, RegisterByCode(w, e, p, c)
      PROVE  AccountsInv'
  <2> DEFINE then == [next |-> "account", email |-> e, password |-> p, tenant |-> codes[c].tenant, code |-> c]
  <2>1. Goes(w, then) /\ UNCHANGED records
    BY <1>4 DEF RegisterByCode
  <2>2. codes[c] \in Code /\ c \in Nat /\ codes[c].tenant \in DOMAIN tenants
    BY RowOf, LenProperties DEF AccountsInv, Tables, RowsRefer
  <2>3. then \in Call /\ Refers(then, users, tenants, codes, resets, sessions)
    BY <2>2 DEF Call, SigningUp, Code, Refers, WithUser, Heading
  <2> QED
    BY <2>1, <2>3, CallGoes
<1>5. ASSUME CheckLimit(w) PROVE AccountsInv'
  <2> DEFINE then == [call[w] EXCEPT !.next = "branch"]
  <2>1. Goes(w, then) /\ UNCHANGED records /\ At(w, "limit")
    BY <1>5 DEF CheckLimit
  <2>2. call[w] \in Authorised
    BY <2>1, CallOf DEF At, AccountsInv
  <2>3. call[w].user \in DOMAIN users /\ call[w].tenant \in DOMAIN tenants
    BY <1>0, <2>1 DEF Refers, At, WithUser, WithTenant, Steps
  <2>4. then \in Call /\ Refers(then, users, tenants, codes, resets, sessions)
    BY <2>2, <2>3 DEF Call, Authorised, Refers, Heading
  <2> QED
    BY <2>1, <2>4, CallGoes
<1>6. ASSUME NEW c \in DOMAIN codes, CheckCode(w, c) PROVE AccountsInv'
  <2> DEFINE then == [next |-> "link", code |-> c]
  <2>1. Goes(w, then) /\ UNCHANGED records
    BY <1>6 DEF CheckCode
  <2>2. c \in Nat
    BY LenProperties DEF AccountsInv, Tables
  <2>3. then \in Call /\ Refers(then, users, tenants, codes, resets, sessions)
    BY <2>2 DEF Call, Linking, Refers, WithUser, WithTenant, Heading
  <2> QED
    BY <2>1, <2>3, CallGoes
<1>7. ASSUME BreakOff(w) PROVE AccountsInv'
  <2>1. Served \in Call /\ Refers(Served, users, tenants, codes, resets, sessions)
    BY DEF Call, Served, Refers, WithUser, WithTenant, Heading
  <2> QED
    BY <1>7, <2>1, CallGoes DEF BreakOff
<1> QED
  BY <1>1, <1>2, <1>3, <1>4, <1>5, <1>6, <1>7

\* Sessions end, all of them of one user, and nothing else of them is written.
Closes(u) ==
    /\ sessions' \in Seq(SessionRow) /\ Len(sessions') = Len(sessions) /\ DOMAIN sessions' = DOMAIN sessions
    /\ \A s \in DOMAIN sessions :
        /\ sessions'[s].user = sessions[s].user /\ sessions'[s].tenant = sessions[s].tenant
        /\ sessions'[s].version = sessions[s].version /\ sessions'[s].password = sessions[s].password
        /\ sessions'[s].live => sessions[s].live
        /\ sessions[s].user # u => sessions'[s].live = sessions[s].live

LEMMA OneCloses ==
  ASSUME AccountsInv, NEW s \in DOMAIN sessions, sessions' = [sessions EXCEPT ![s].live = FALSE]
  PROVE  sessions[s].user \in DOMAIN users /\ Closes(sessions[s].user)
<1>1. sessions[s] \in SessionRow /\ sessions[s].user \in DOMAIN users
  BY SessionOf
<1>2. sessions' = [sessions EXCEPT ![s] = [sessions[s] EXCEPT !.live = FALSE]]
  OBVIOUS
<1>3. [sessions[s] EXCEPT !.live = FALSE] \in SessionRow
  BY <1>1 DEF SessionRow
<1>4. /\ sessions' \in Seq(SessionRow) /\ Len(sessions') = Len(sessions) /\ DOMAIN sessions' = DOMAIN sessions
      /\ \A z \in DOMAIN sessions :
            sessions'[z] = IF z = s THEN [sessions[s] EXCEPT !.live = FALSE] ELSE sessions[z]
  BY <1>2, <1>3, Rewritten DEF AccountsInv, Tables
<1> QED
  BY <1>1, <1>4 DEF Closes, SessionRow

LEMMA LogoutCloses ==
  ASSUME AccountsInv, NEW w \in Workers, Logout(w)
  PROVE  \E u \in DOMAIN users : Closes(u)
<1>1. call[w].session \in DOMAIN sessions
  BY DEF Logout, At, AccountsInv, CallsRefer, Refers
<1> QED
  BY <1>1, OneCloses DEF Logout

LEMMA RevokeCloses ==
  ASSUME AccountsInv, NEW w \in Workers, Revoke(w)
  PROVE  call[w].user \in DOMAIN users /\ Closes(call[w].user)
<1> DEFINE u == call[w].user
<1>1. u \in DOMAIN users
  BY DEF Revoke, At, AccountsInv, CallsRefer, Refers, WithUser, Steps
<1>2. sessions' = [s \in DOMAIN sessions |->
            IF sessions[s].user = u THEN [sessions[s] EXCEPT !.live = FALSE] ELSE sessions[s]]
  BY DEF Revoke
<1> HIDE DEF u
<1>3. DOMAIN sessions = 1..Len(sessions) /\ Len(sessions) \in Nat
  BY LenProperties DEF AccountsInv, Tables
<1>4. \A s \in DOMAIN sessions : sessions[s] \in SessionRow /\ sessions'[s] \in SessionRow
  BY <1>2, SessionOf DEF SessionRow
<1>5. sessions' \in [1..Len(sessions) -> SessionRow]
  BY <1>2, <1>3, <1>4
<1>6. sessions' \in Seq(SessionRow) /\ Len(sessions') = Len(sessions)
  BY <1>3, <1>5, RowsOfLength
<1>7. Closes(u)
  BY <1>2, <1>4, <1>6 DEF Closes, SessionRow
<1> QED
  BY <1>1, <1>7 DEF u

\* What writes sessions only.
LEMMA SessionsWritten ==
  ASSUME AccountsInv, UNCHANGED <<users, members, tenants, codes, resets>>, call' \in [Workers -> Call],
         sessions' \in Seq(SessionRow), DOMAIN sessions \subseteq DOMAIN sessions',
         Len(users) + Len(sessions') + Len(codes) + Len(resets) <= MaxRows,
         \A s \in DOMAIN sessions' :
             \/ LetIn(sessions'[s], users) /\ sessions'[s].tenant \in DOMAIN tenants
             \/ /\ s \in DOMAIN sessions
                /\ sessions'[s].user = sessions[s].user /\ sessions'[s].version = sessions[s].version
                /\ sessions'[s].password = sessions[s].password /\ sessions'[s].tenant = sessions[s].tenant,
         \A w \in Workers : call'[w] = call[w] \/ call'[w] = Served
  PROVE  AccountsInv'
<1>1. Tables'
  BY DEF AccountsInv, Tables
<1>2. Grows
  <2>1. \A u \in DOMAIN users : users[u].version \in Nat
    BY UserOf DEF AccountsInv
  <2> QED
    BY <2>1 DEF Grows
<1>3. RowsRefer'
  BY DEF AccountsInv, RowsRefer
<1>4. Refers(Served, users', tenants', codes', resets', sessions')
  BY DEF Served, Refers, WithUser, WithTenant, Heading
<1> QED
  BY <1>1, <1>2, <1>3, <1>4, StepKeeps

LEMMA CloseSteps ==
  ASSUME AccountsInv,
         \/ \E w \in Workers : Logout(w) \/ Revoke(w)
         \/ \E s \in DOMAIN sessions : SessionExpires(s)
  PROVE  AccountsInv'
<1>1. \E u \in DOMAIN users : Closes(u)
  BY LogoutCloses, RevokeCloses, OneCloses DEF SessionExpires
<1>2. /\ UNCHANGED <<users, members, tenants, codes, resets>> /\ call' \in [Workers -> Call]
      /\ \A w \in Workers : call'[w] = call[w] \/ call'[w] = Served
  <2>1. Served \in Call
    BY DEF Call
  <2> QED
    BY <2>1 DEF Logout, Revoke, SessionExpires, Goes, AccountsInv, Tables
<1>3. Len(users) + Len(sessions') + Len(codes) + Len(resets) <= MaxRows
  BY <1>1 DEF Closes, AccountsInv, Tables
<1> QED
  BY <1>1, <1>2, <1>3, SessionsWritten DEF Closes

\* A session is written with what its call holds.
Entry(w) ==
    [user |-> call[w].user, tenant |-> call[w].tenant, live |-> TRUE,
     version |-> call[w].version, password |-> call[w].password]

LEMMA OpenAppends ==
  ASSUME AccountsInv, NEW w \in Workers, OpenSession(w)
  PROVE  /\ Entry(w) \in SessionRow /\ LetIn(Entry(w), users) /\ Entry(w).tenant \in DOMAIN tenants
         /\ sessions' \in Seq(SessionRow) /\ Len(sessions') = Len(sessions) + 1
         /\ DOMAIN sessions' = DOMAIN sessions \cup {Len(sessions) + 1} /\ Len(sessions) + 1 \notin DOMAIN sessions
         /\ \A s \in DOMAIN sessions : sessions'[s] = sessions[s]
         /\ sessions'[Len(sessions) + 1] = Entry(w)
<1>1. At(w, "open") /\ sessions' = Append(sessions, Entry(w))
  BY DEF OpenSession, Entry
<1>2. call[w] \in Opening /\ LetIn(call[w], users) /\ call[w].tenant \in DOMAIN tenants
  BY <1>1, CallOf DEF AccountsInv, CallsRefer, Refers, At, WithTenant
<1>3. Entry(w) \in SessionRow /\ LetIn(Entry(w), users) /\ Entry(w).tenant \in DOMAIN tenants
  BY <1>2 DEF Opening, SessionRow, LetIn, Entry
<1> QED
  BY <1>1, <1>3, Appended DEF AccountsInv, Tables

LEMMA OpenStep ==
  ASSUME AccountsInv, NEW w \in Workers, OpenSession(w)
  PROVE  AccountsInv'
<1>1. Room /\ Goes(w, Served) /\ UNCHANGED <<users, members, tenants, codes, resets>>
  BY DEF OpenSession
<1>2. Len(users) \in Nat /\ Len(sessions) \in Nat /\ Len(codes) \in Nat /\ Len(resets) \in Nat
  BY LenProperties DEF AccountsInv, Tables
<1>3. Len(users) + Len(sessions') + Len(codes) + Len(resets) <= MaxRows
  BY <1>1, <1>2, OpenAppends, LimitAssumption DEF Room
<1>4. call' \in [Workers -> Call] /\ \A v \in Workers : call'[v] = call[v] \/ call'[v] = Served
  <2>1. Served \in Call
    BY DEF Call
  <2> QED
    BY <1>1, <2>1 DEF Goes, AccountsInv, Tables
<1> QED
  BY <1>1, <1>3, <1>4, OpenAppends, SessionsWritten

-----------------------------------------------------------------------------
\* What writes users: one more of them, or one row of them.
LEMMA UserAdded ==
  ASSUME AccountsInv, NEW e \in Emails, NEW p \in Secrets, ~Taken(e), users' = Append(users, NewUser(e, p))
  PROVE  /\ users' \in Seq(User) /\ Len(users') = Len(users) + 1 /\ Len(users) + 1 \notin DOMAIN users
         /\ DOMAIN users' = DOMAIN users \cup {Len(users) + 1} /\ Len(users) \in Nat
         /\ \A u \in DOMAIN users : users'[u] = users[u]
         /\ users'[Len(users) + 1] = NewUser(e, p)
         /\ \A i, j \in DOMAIN users' : users'[i].email = users'[j].email => i = j
         /\ \A u \in DOMAIN users : users'[u].version = users[u].version /\ users[u].version \in Nat
<1>1. NewUser(e, p) \in User
  BY LimitAssumption DEF NewUser, User
<1>2. /\ users' \in Seq(User) /\ Len(users') = Len(users) + 1 /\ Len(users) + 1 \notin DOMAIN users
      /\ DOMAIN users' = DOMAIN users \cup {Len(users) + 1} /\ Len(users) \in Nat
      /\ \A u \in DOMAIN users : users'[u] = users[u]
      /\ users'[Len(users) + 1] = NewUser(e, p)
  BY <1>1, Appended DEF AccountsInv, Tables
<1>3. \A u \in DOMAIN users : users[u].email # e
  BY DEF Taken
<1>4. \A i, j \in DOMAIN users' : users'[i].email = users'[j].email => i = j
  BY <1>2, <1>3 DEF NewUser, AccountsInv, RowsRefer
<1>5. \A u \in DOMAIN users : users[u].version \in Nat
  BY UserOf DEF AccountsInv
<1> QED
  BY <1>2, <1>4, <1>5

LEMMA RoomForOne ==
  ASSUME AccountsInv, Room
  PROVE  /\ Len(users) \in Nat /\ Len(sessions) \in Nat /\ Len(codes) \in Nat /\ Len(resets) \in Nat
         /\ Len(users) + 1 + Len(sessions) + Len(codes) + Len(resets) <= MaxRows
         /\ Len(users) + Len(sessions) + (Len(codes) + 1) + Len(resets) <= MaxRows
         /\ Len(users) + Len(sessions) + Len(codes) + (Len(resets) + 1) <= MaxRows
<1>1. Len(users) \in Nat /\ Len(sessions) \in Nat /\ Len(codes) \in Nat /\ Len(resets) \in Nat
  BY LenProperties DEF AccountsInv, Tables
<1> QED
  BY <1>1, LimitAssumption DEF Room

LEMMA InsertUserStep ==
  ASSUME AccountsInv, NEW w \in Workers, InsertUser(w)
  PROVE  AccountsInv'
<1> DEFINE then == [next |-> "join", user |-> Len(users) + 1, tenant |-> call[w].tenant,
                    code |-> call[w].code, password |-> call[w].password]
<1>1. /\ At(w, "account") /\ Room /\ ~Taken(call[w].email)
      /\ users' = Append(users, NewUser(call[w].email, call[w].password)) /\ Goes(w, then)
      /\ UNCHANGED <<members, sessions, tenants, codes, resets>>
  BY DEF InsertUser
<1>2. call[w] \in SigningUp /\ Refers(call[w], users, tenants, codes, resets, sessions)
  BY <1>1, CallOf DEF AccountsInv, CallsRefer
<1>3. call[w].email \in Emails /\ call[w].password \in Secrets
  BY <1>2 DEF SigningUp
<1>4. /\ users' \in Seq(User) /\ Len(users') = Len(users) + 1 /\ Len(users) + 1 \notin DOMAIN users
      /\ DOMAIN users' = DOMAIN users \cup {Len(users) + 1} /\ Len(users) \in Nat
      /\ \A u \in DOMAIN users : users'[u] = users[u]
      /\ users'[Len(users) + 1] = NewUser(call[w].email, call[w].password)
      /\ \A i, j \in DOMAIN users' : users'[i].email = users'[j].email => i = j
      /\ \A u \in DOMAIN users : users'[u].version = users[u].version /\ users[u].version \in Nat
  BY <1>1, <1>3, UserAdded
<1>5. then \in Call
  BY <1>2, <1>4 DEF SigningUp, Call, Joining
<1>6. Refers(then, users', tenants', codes', resets', sessions')
  BY <1>1, <1>2, <1>4 DEF Refers, SigningUp, Heading, WithTenant, NewUser
<1> HIDE DEF then
<1>7. Tables'
  BY <1>1, <1>4, <1>5, RoomForOne DEF AccountsInv, Tables, Goes
<1>8. Grows
  BY <1>1, <1>4 DEF Grows
<1>9. RowsRefer'
  BY <1>1, <1>4 DEF AccountsInv, RowsRefer
<1>10. \A v \in Workers : call'[v] = call[v] \/ Refers(call'[v], users', tenants', codes', resets', sessions')
  BY <1>1, <1>6 DEF Goes, AccountsInv, Tables
<1> QED
  BY <1>1, <1>7, <1>8, <1>9, <1>10, StepKeeps

LEMMA RegisterBusinessStep ==
  ASSUME AccountsInv, NEW w \in Workers, NEW e \in Emails, NEW p \in Secrets, RegisterBusiness(w, e, p)
  PROVE  AccountsInv'
<1> DEFINE m == [user |-> Len(users) + 1, tenant |-> Len(tenants) + 1, code |-> 0]
           t == [branches |-> 1, activated |-> FALSE]
<1>1. /\ Room /\ ~Taken(e) /\ users' = Append(users, NewUser(e, p)) /\ tenants' = Append(tenants, t)
      /\ members' = members \cup {m} /\ UNCHANGED <<sessions, codes, resets, call>>
  BY DEF RegisterBusiness
<1>2. t \in Tenant
  BY DEF Tenant
<1>3. /\ tenants' \in Seq(Tenant) /\ DOMAIN tenants' = DOMAIN tenants \cup {Len(tenants) + 1} /\ Len(tenants) \in Nat
      /\ \A i \in DOMAIN tenants : tenants'[i] = tenants[i]
  BY <1>1, <1>2, Appended DEF AccountsInv, Tables
<1>4. /\ users' \in Seq(User) /\ Len(users') = Len(users) + 1 /\ Len(users) + 1 \notin DOMAIN users
      /\ DOMAIN users' = DOMAIN users \cup {Len(users) + 1} /\ Len(users) \in Nat
      /\ \A u \in DOMAIN users : users'[u] = users[u]
      /\ users'[Len(users) + 1] = NewUser(e, p)
      /\ \A i, j \in DOMAIN users' : users'[i].email = users'[j].email => i = j
      /\ \A u \in DOMAIN users : users'[u].version = users[u].version /\ users[u].version \in Nat
  BY <1>1, UserAdded
<1>5. members' \subseteq Member
  BY <1>1, <1>3, <1>4 DEF AccountsInv, Tables, Member
<1>6. Tables'
  BY <1>1, <1>3, <1>4, <1>5, RoomForOne DEF AccountsInv, Tables
<1>7. Grows
  BY <1>1, <1>3, <1>4 DEF Grows
<1>8. RowsRefer'
  BY <1>1, <1>3, <1>4 DEF AccountsInv, RowsRefer
<1> QED
  BY <1>1, <1>6, <1>7, <1>8, StepKeeps

LEMMA PasswordWritten ==
  ASSUME AccountsInv, NEW u \in DOMAIN users, NEW p \in Secrets, WritePassword(u, p)
  PROVE  /\ users' \in Seq(User) /\ Len(users') = Len(users) /\ DOMAIN users' = DOMAIN users
         /\ \A i \in DOMAIN users : i # u => users'[i] = users[i]
         /\ users'[u].email = users[u].email /\ users'[u].password = p
         /\ users'[u].version = users[u].version + 1
<1>1. users[u] \in User /\ users[u].version \in Nat \ {0}
  BY UserOf DEF AccountsInv
<1> DEFINE row == [users[u] EXCEPT !.password = p, !.version = users[u].version + 1]
<1>2. users' = [users EXCEPT ![u] = row] /\ users[u].version < MaxVersion
  BY DEF WritePassword
<1>3. row \in User
  <2>1. users[u].version + 1 \in 1..MaxVersion
    BY <1>1, <1>2, LimitAssumption
  <2> QED
    BY <1>1, <2>1 DEF User
<1>4. row.email = users[u].email /\ row.password = p /\ row.version = users[u].version + 1
  BY <1>1 DEF User
<1> HIDE DEF row
<1>5. /\ users' \in Seq(User) /\ Len(users') = Len(users) /\ DOMAIN users' = DOMAIN users
      /\ \A i \in DOMAIN users : users'[i] = IF i = u THEN row ELSE users[i]
  BY <1>2, <1>3, Rewritten DEF AccountsInv, Tables
<1> QED
  BY <1>4, <1>5

\* What sets a password.
LEMMA PasswordSet ==
  ASSUME AccountsInv, NEW w \in Workers, NEW u \in DOMAIN users, NEW p \in Secrets, WritePassword(u, p),
         UNCHANGED <<members, sessions, tenants, codes, resets>>, NEW then \in Call, Goes(w, then),
         Refers(then, users', tenants, codes, resets, sessions)
  PROVE  AccountsInv'
<1>1. /\ users' \in Seq(User) /\ Len(users') = Len(users) /\ DOMAIN users' = DOMAIN users
      /\ \A i \in DOMAIN users : i # u => users'[i] = users[i]
      /\ users'[u].email = users[u].email /\ users'[u].password = p
      /\ users'[u].version = users[u].version + 1
  BY PasswordWritten
<1>2. Tables'
  BY <1>1 DEF AccountsInv, Tables, Goes
<1>3. Grows
  <2>1. \A i \in DOMAIN users : users[i].version \in Nat
    BY UserOf DEF AccountsInv
  <2> QED
    BY <1>1, <2>1 DEF Grows
<1>4. RowsRefer'
  <2>1. \A i \in DOMAIN users : users'[i].email = users[i].email
    BY <1>1
  <2> QED
    BY <1>1, <2>1 DEF AccountsInv, RowsRefer
<1>5. \A v \in Workers : call'[v] = call[v] \/ Refers(call'[v], users', tenants', codes', resets', sessions')
  BY DEF Goes, AccountsInv, Tables
<1> QED
  BY <1>2, <1>3, <1>4, <1>5, StepKeeps

LEMMA PasswordSteps ==
  ASSUME AccountsInv, NEW w \in Workers, ChangePassword(w) \/ ResetPassword(w)
  PROVE  AccountsInv'
<1> DEFINE u == call[w].user
           p == call[w].password
<1>1. u \in DOMAIN users /\ p \in Secrets /\ u \in Nat
  BY CallOf, UserOf DEF AccountsInv, CallsRefer, Refers, ChangePassword, ResetPassword, At, WithUser, Steps,
     Changing, Resetting
<1>2. WritePassword(u, p) /\ UNCHANGED <<members, sessions, tenants, codes, resets>>
  BY DEF ChangePassword, ResetPassword
<1>3. DOMAIN users' = DOMAIN users
  BY <1>1, <1>2, PasswordWritten
<1>4. CASE ChangePassword(w)
  <2> DEFINE then == [next |-> "revoke", user |-> u]
  <2>1. Goes(w, then)
    BY <1>4 DEF ChangePassword
  <2>2. then \in Call
    BY <1>1 DEF Call, Revoking
  <2>3. Refers(then, users', tenants, codes, resets, sessions)
    BY <1>1, <1>3 DEF Refers, WithTenant, Heading
  <2> HIDE DEF then
  <2> QED
    BY <1>1, <1>2, <2>1, <2>2, <2>3, PasswordSet
<1>5. CASE ResetPassword(w)
  <2> DEFINE then == [call[w] EXCEPT !.next = "spend"]
  <2>1. Goes(w, then) /\ At(w, "reset")
    BY <1>5 DEF ResetPassword
  <2>2. call[w] \in Resetting /\ call[w].reset \in DOMAIN resets
    BY <2>1, CallOf DEF AccountsInv, CallsRefer, Refers, At
  <2>3. then \in Call
    BY <2>2 DEF Call, Resetting
  <2>4. then.next = "spend" /\ then.user = u /\ then.reset = call[w].reset
    BY <2>2 DEF Resetting
  <2> HIDE DEF then
  <2>5. Refers(then, users', tenants, codes, resets, sessions)
    BY <1>1, <1>3, <2>2, <2>4 DEF Refers, WithTenant, Heading
  <2> QED
    BY <1>1, <1>2, <2>1, <2>3, <2>5, PasswordSet
<1> QED
  BY <1>4, <1>5

LEMMA EmailWritten ==
  ASSUME AccountsInv, NEW w \in Workers, ChangeEmail(w)
  PROVE  /\ users' \in Seq(User) /\ Len(users') = Len(users) /\ DOMAIN users' = DOMAIN users
         /\ \A i \in DOMAIN users : users'[i].password = users[i].password /\ users'[i].version = users[i].version
         /\ \A i, j \in DOMAIN users' : users'[i].email = users'[j].email => i = j
<1> DEFINE u == call[w].user
           row == [users[u] EXCEPT !.email = call[w].email]
<1>1. u \in DOMAIN users /\ call[w].email \in Emails
  BY CallOf DEF AccountsInv, CallsRefer, Refers, ChangeEmail, At, WithUser, Steps, Mailing
<1>2. (Taken(call[w].email) => users[u].email = call[w].email) /\ users' = [users EXCEPT ![u] = row]
  BY DEF ChangeEmail
<1>3. users[u] \in User
  BY <1>1, UserOf DEF AccountsInv
<1>4. /\ row \in User /\ row.email = call[w].email /\ row.version = users[u].version
      /\ row.password = users[u].password
  BY <1>1, <1>3 DEF User
<1> HIDE DEF row, u
<1>5. /\ users' \in Seq(User) /\ Len(users') = Len(users) /\ DOMAIN users' = DOMAIN users
      /\ \A i \in DOMAIN users : users'[i] = IF i = u THEN row ELSE users[i]
  BY <1>1, <1>2, <1>4, Rewritten DEF AccountsInv, Tables
<1>6. \A i, j \in DOMAIN users : users'[i].email = users'[j].email => i = j
  BY <1>1, <1>2, <1>4, <1>5 DEF Taken, AccountsInv, RowsRefer
<1> QED
  BY <1>4, <1>5, <1>6

LEMMA EmailStep ==
  ASSUME AccountsInv, NEW w \in Workers, ChangeEmail(w)
  PROVE  AccountsInv'
<1>1. /\ users' \in Seq(User) /\ Len(users') = Len(users) /\ DOMAIN users' = DOMAIN users
      /\ \A i \in DOMAIN users : users'[i].password = users[i].password /\ users'[i].version = users[i].version
      /\ \A i, j \in DOMAIN users' : users'[i].email = users'[j].email => i = j
  BY EmailWritten
<1>2. Goes(w, Served) /\ UNCHANGED <<members, sessions, tenants, codes, resets>> /\ Served \in Call
  BY DEF ChangeEmail, Call
<1>3. Tables'
  BY <1>1, <1>2 DEF AccountsInv, Tables, Goes
<1>4. Grows
  <2>1. \A i \in DOMAIN users : users[i].version \in Nat
    BY UserOf DEF AccountsInv
  <2> QED
    BY <1>1, <1>2, <2>1 DEF Grows
<1>5. RowsRefer'
  BY <1>1, <1>2 DEF AccountsInv, RowsRefer
<1>6. \A v \in Workers : call'[v] = call[v] \/ call'[v] = Served
  BY <1>2 DEF Goes, AccountsInv, Tables
<1>7. Refers(Served, users', tenants', codes', resets', sessions')
  BY DEF Served, Refers, WithUser, WithTenant, Heading
<1> QED
  BY <1>2, <1>3, <1>4, <1>5, <1>6, <1>7, StepKeeps

-----------------------------------------------------------------------------
\* What writes members, tenants, codes and resets.
LEMMA OthersWritten ==
  ASSUME AccountsInv, UNCHANGED <<users, sessions>>, call' \in [Workers -> Call],
         tenants' \in Seq(Tenant), DOMAIN tenants' = DOMAIN tenants,
         codes' \in Seq(Code), DOMAIN codes \subseteq DOMAIN codes',
         resets' \in Seq(ResetRow), DOMAIN resets \subseteq DOMAIN resets',
         Len(users) + Len(sessions) + Len(codes') + Len(resets') <= MaxRows,
         \A c \in DOMAIN codes : codes'[c].tenant = codes[c].tenant,
         \A c \in DOMAIN codes' : codes'[c].tenant \in DOMAIN tenants,
         \A r \in DOMAIN resets' : resets'[r].user \in DOMAIN users,
         members' \subseteq Member,
         \A m \in members' : m.user \in DOMAIN users /\ m.tenant \in DOMAIN tenants,
         \A w \in Workers :
             call'[w] = call[w] \/ Refers(call'[w], users, tenants', codes', resets', sessions)
  PROVE  AccountsInv'
<1>1. Tables'
  BY DEF AccountsInv, Tables
<1>2. Grows
  <2>1. \A u \in DOMAIN users : users[u].version \in Nat
    BY UserOf DEF AccountsInv
  <2> QED
    BY <2>1 DEF Grows
<1>3. RowsRefer'
  BY DEF AccountsInv, RowsRefer
<1> QED
  BY <1>1, <1>2, <1>3, StepKeeps DEF AccountsInv, SessionsLetIn

\* Rows of codes and of resets are appended or lapse.
LEMMA CodesAsTheyWere ==
  ASSUME AccountsInv
  PROVE  /\ codes \in Seq(Code) /\ resets \in Seq(ResetRow) /\ tenants \in Seq(Tenant) /\ members \subseteq Member
         /\ \A c \in DOMAIN codes : codes[c].tenant \in DOMAIN tenants /\ codes[c] \in Code
         /\ \A r \in DOMAIN resets : resets[r].user \in DOMAIN users /\ resets[r] \in ResetRow
         /\ \A m \in members : m.user \in DOMAIN users /\ m.tenant \in DOMAIN tenants
         /\ Len(users) + Len(sessions) + Len(codes) + Len(resets) <= MaxRows
         /\ call \in [Workers -> Call]
BY RowOf DEF AccountsInv, Tables, RowsRefer

LEMMA CodeClosed ==
  ASSUME AccountsInv, NEW c \in DOMAIN codes, codes' = [codes EXCEPT ![c].open = FALSE]
  PROVE  /\ codes' \in Seq(Code) /\ Len(codes') = Len(codes) /\ DOMAIN codes' = DOMAIN codes
         /\ \A i \in DOMAIN codes : codes'[i].tenant = codes[i].tenant
<1>1. codes[c] \in Code /\ [codes[c] EXCEPT !.open = FALSE] \in Code
  BY CodesAsTheyWere DEF Code
<1>2. codes' = [codes EXCEPT ![c] = [codes[c] EXCEPT !.open = FALSE]]
  OBVIOUS
<1>3. /\ codes' \in Seq(Code) /\ Len(codes') = Len(codes) /\ DOMAIN codes' = DOMAIN codes
      /\ \A i \in DOMAIN codes : codes'[i] = IF i = c THEN [codes[c] EXCEPT !.open = FALSE] ELSE codes[i]
  BY <1>1, <1>2, Rewritten, CodesAsTheyWere
<1> QED
  BY <1>1, <1>3 DEF Code

LEMMA ResetClosed ==
  ASSUME AccountsInv, NEW r \in DOMAIN resets, resets' = [resets EXCEPT ![r].open = FALSE]
  PROVE  /\ resets' \in Seq(ResetRow) /\ Len(resets') = Len(resets) /\ DOMAIN resets' = DOMAIN resets
         /\ \A i \in DOMAIN resets : resets'[i].user = resets[i].user
<1>1. resets[r] \in ResetRow /\ [resets[r] EXCEPT !.open = FALSE] \in ResetRow
  BY CodesAsTheyWere DEF ResetRow
<1>2. resets' = [resets EXCEPT ![r] = [resets[r] EXCEPT !.open = FALSE]]
  OBVIOUS
<1>3. /\ resets' \in Seq(ResetRow) /\ Len(resets') = Len(resets) /\ DOMAIN resets' = DOMAIN resets
      /\ \A i \in DOMAIN resets : resets'[i] = IF i = r THEN [resets[r] EXCEPT !.open = FALSE] ELSE resets[i]
  BY <1>1, <1>2, Rewritten, CodesAsTheyWere
<1> QED
  BY <1>1, <1>3 DEF ResetRow

LEMMA TenantWritten ==
  ASSUME AccountsInv, NEW t \in DOMAIN tenants, NEW row \in Tenant, tenants' = [tenants EXCEPT ![t] = row]
  PROVE  /\ tenants' \in Seq(Tenant) /\ DOMAIN tenants' = DOMAIN tenants
         /\ \A i \in DOMAIN tenants : tenants'[i] = IF i = t THEN row ELSE tenants[i]
BY Rewritten, CodesAsTheyWere

LEMMA LapseStep ==
  ASSUME AccountsInv, Lapse
  PROVE  AccountsInv'
<1>1. UNCHANGED <<users, members, sessions, tenants, call>>
  BY DEF Lapse
<1>2. ASSUME NEW c \in DOMAIN codes, codes' = [codes EXCEPT ![c].open = FALSE], UNCHANGED resets PROVE AccountsInv'
  BY <1>1, <1>2, CodeClosed, CodesAsTheyWere, OthersWritten
<1>3. ASSUME NEW r \in DOMAIN resets, resets' = [resets EXCEPT ![r].open = FALSE], UNCHANGED codes PROVE AccountsInv'
  BY <1>1, <1>3, ResetClosed, CodesAsTheyWere, OthersWritten
<1> QED
  BY <1>2, <1>3 DEF Lapse

LEMMA ForgotStep ==
  ASSUME AccountsInv, NEW u \in DOMAIN users, Forgot(u)
  PROVE  AccountsInv'
<1> DEFINE row == [user |-> u, open |-> TRUE]
<1>1. Room /\ resets' = Append(resets, row) /\ UNCHANGED <<users, members, sessions, tenants, codes, call>>
  BY DEF Forgot
<1>2. row \in ResetRow /\ row.user = u
  BY UserOf DEF ResetRow, AccountsInv
<1> HIDE DEF row
<1>3. /\ resets' \in Seq(ResetRow) /\ Len(resets') = Len(resets) + 1
      /\ DOMAIN resets' = DOMAIN resets \cup {Len(resets) + 1}
      /\ \A r \in DOMAIN resets : resets'[r] = resets[r]
      /\ resets'[Len(resets) + 1] = row
  BY <1>1, <1>2, Appended, CodesAsTheyWere
<1>4. \A r \in DOMAIN resets' : resets'[r].user \in DOMAIN users
  BY <1>2, <1>3, CodesAsTheyWere
<1> QED
  BY <1>1, <1>3, <1>4, RoomForOne, CodesAsTheyWere, OthersWritten

LEMMA CodeAdded ==
  ASSUME AccountsInv, NEW t \in DOMAIN tenants, GenerateLinkCode(t)
  PROVE  /\ codes' \in Seq(Code) /\ Len(codes') = Len(codes) + 1 /\ Len(codes) + 1 \notin DOMAIN codes
         /\ DOMAIN codes' = DOMAIN codes \cup {Len(codes) + 1} /\ Len(codes) \in Nat
         /\ \A c \in DOMAIN codes : codes'[c] = codes[c]
         /\ codes'[Len(codes) + 1].tenant = t
<1> DEFINE row == [tenant |-> t, open |-> TRUE]
<1>1. codes' = Append(codes, row)
  BY DEF GenerateLinkCode
<1>2. t \in Nat
  BY LenProperties, CodesAsTheyWere
<1>3. row \in Code /\ row.tenant = t
  BY <1>2 DEF Code
<1> HIDE DEF row
<1> QED
  BY <1>1, <1>3, Appended, CodesAsTheyWere

LEMMA GenerateStep ==
  ASSUME AccountsInv, NEW t \in DOMAIN tenants, GenerateLinkCode(t)
  PROVE  AccountsInv'
<1>1. Room /\ UNCHANGED <<users, members, sessions, tenants, resets, call>>
  BY DEF GenerateLinkCode
<1>2. \A c \in DOMAIN codes' : codes'[c].tenant \in DOMAIN tenants
  BY CodeAdded, CodesAsTheyWere
<1> QED
  BY <1>1, <1>2, CodeAdded, RoomForOne, CodesAsTheyWere, OthersWritten

LEMMA CallSays ==
  ASSUME AccountsInv, NEW w \in Workers
  PROVE  Refers(call[w], users, tenants, codes, resets, sessions)
BY DEF AccountsInv, CallsRefer

LEMMA ServedRefers ==
  ASSUME NEW us, NEW ts, NEW cs, NEW rs, NEW ss
  PROVE  Served \in Call /\ Refers(Served, us, ts, cs, rs, ss)
BY DEF Served, Call, Refers, WithUser, WithTenant, Heading

LEMMA Went ==
  ASSUME AccountsInv, NEW w \in Workers, NEW then \in Call, Goes(w, then)
  PROVE  call' \in [Workers -> Call] /\ \A v \in Workers : call'[v] = IF v = w THEN then ELSE call[v]
BY DEF Goes, AccountsInv, Tables

LEMMA SpendStep ==
  ASSUME AccountsInv, NEW w \in Workers, SpendReset(w)
  PROVE  AccountsInv'
<1> DEFINE then == [next |-> "revoke", user |-> call[w].user]
<1>1. /\ At(w, "spend") /\ resets' = [resets EXCEPT ![call[w].reset].open = FALSE] /\ Goes(w, then)
      /\ UNCHANGED <<users, members, sessions, tenants, codes>>
  BY DEF SpendReset
<1>2. call[w].user \in DOMAIN users /\ call[w].user \in Nat /\ call[w].reset \in DOMAIN resets
  BY <1>1, CallSays, UserOf DEF Refers, At, WithUser, Steps, AccountsInv
<1>3. then \in Call /\ Refers(then, users, tenants', codes', resets', sessions)
  BY <1>2 DEF Call, Revoking, Refers, WithTenant, Heading
<1> HIDE DEF then
<1>4. call' \in [Workers -> Call] /\ \A v \in Workers : call'[v] = IF v = w THEN then ELSE call[v]
  BY <1>1, <1>3, Went
<1>5. /\ resets' \in Seq(ResetRow) /\ Len(resets') = Len(resets) /\ DOMAIN resets' = DOMAIN resets
      /\ \A i \in DOMAIN resets : resets'[i].user = resets[i].user
  BY <1>1, <1>2, ResetClosed
<1> QED
  BY <1>1, <1>3, <1>4, <1>5, CodesAsTheyWere, OthersWritten DEF Refers

LEMMA TokenStep ==
  ASSUME AccountsInv, NEW w \in Workers, NEW e \in Emails, NEW p \in Secrets, NEW t \in DOMAIN tenants,
         RegisterByToken(w, e, p, t)
  PROVE  AccountsInv'
<1> DEFINE then == [next |-> "account", email |-> e, password |-> p, tenant |-> t, code |-> 0]
           row == [tenants[t] EXCEPT !.activated = TRUE]
<1>1. tenants' = [tenants EXCEPT ![t] = row] /\ Goes(w, then)
      /\ UNCHANGED <<users, members, sessions, codes, resets>>
  BY DEF RegisterByToken
<1>2. row \in Tenant
  <2>1. tenants[t] \in Tenant
    BY RowOf, CodesAsTheyWere
  <2> QED
    BY <2>1 DEF Tenant
<1>3. /\ tenants' \in Seq(Tenant) /\ DOMAIN tenants' = DOMAIN tenants
      /\ \A i \in DOMAIN tenants : tenants'[i] = IF i = t THEN row ELSE tenants[i]
  BY <1>1, <1>2, TenantWritten
<1>4. t \in Nat
  BY LenProperties, CodesAsTheyWere
<1>5. then \in Call /\ Refers(then, users, tenants', codes', resets', sessions)
  BY <1>3, <1>4 DEF Call, SigningUp, Refers, WithUser, Heading
<1> HIDE DEF then, row
<1>6. call' \in [Workers -> Call] /\ \A v \in Workers : call'[v] = IF v = w THEN then ELSE call[v]
  BY <1>1, <1>5, Went
<1> QED
  BY <1>1, <1>3, <1>5, <1>6, CodesAsTheyWere, OthersWritten DEF Refers

\* A registration goes in with the password it wrote, as version 1.
LEMMA EnteringRefers ==
  ASSUME AccountsInv, NEW w \in Workers, call[w].next \in {"join", "use"}
  PROVE  Entering(w) \in Call /\ Refers(Entering(w), users, tenants, codes, resets, sessions)
<1>1. call[w] \in Joining /\ call[w].user \in DOMAIN users /\ call[w].tenant \in DOMAIN tenants
  BY CallOf, CallSays DEF AccountsInv, Refers, WithUser, WithTenant, Steps
<1>2. users[call[w].user].version \in Nat \ {0}
  BY <1>1, UserOf DEF AccountsInv
<1>3. Entering(w) \in Opening
  BY <1>1 DEF Entering, Opening, Joining
<1>4. LetIn(Entering(w), users)
  BY <1>1, <1>2, CallSays DEF Entering, LetIn, Refers
<1> QED
  BY <1>1, <1>3, <1>4 DEF Entering, Call, Refers, Heading

LEMMA MemberStep ==
  ASSUME AccountsInv, NEW w \in Workers, InsertMember(w)
  PROVE  AccountsInv'
<1> DEFINE m == [user |-> call[w].user, tenant |-> call[w].tenant, code |-> call[w].code]
           then == IF call[w].code = 0 THEN Entering(w) ELSE [call[w] EXCEPT !.next = "use"]
<1>1. At(w, "join") /\ members' = members \cup {m} /\ Goes(w, then)
      /\ UNCHANGED <<users, sessions, tenants, codes, resets>>
  BY DEF InsertMember
<1>2. /\ call[w] \in Joining /\ call[w].user \in DOMAIN users /\ call[w].tenant \in DOMAIN tenants
      /\ Refers(call[w], users, tenants, codes, resets, sessions)
  BY <1>1, CallOf, CallSays DEF AccountsInv, Refers, At, WithUser, WithTenant, Steps
<1>3. m \in Member /\ m.user = call[w].user /\ m.tenant = call[w].tenant
  BY <1>2 DEF Member, Joining
<1>4. [call[w] EXCEPT !.next = "use"] \in Joining
  BY <1>2 DEF Joining
<1>5. call[w].code # 0 => Refers([call[w] EXCEPT !.next = "use"], users, tenants, codes, resets, sessions)
  BY <1>1, <1>2 DEF Refers, Joining, WithTenant, WithUser, Steps, Heading, At
<1>6. then \in Call /\ Refers(then, users, tenants, codes, resets, sessions)
  BY <1>1, <1>4, <1>5, EnteringRefers DEF At, Call
<1> HIDE DEF then, m
<1>7. call' \in [Workers -> Call] /\ \A v \in Workers : call'[v] = IF v = w THEN then ELSE call[v]
  BY <1>1, <1>6, Went
<1> QED
  BY <1>1, <1>2, <1>3, <1>6, <1>7, CodesAsTheyWere, OthersWritten

LEMMA UseStep ==
  ASSUME AccountsInv, NEW w \in Workers, UseCode(w)
  PROVE  AccountsInv'
<1>1. /\ At(w, "use") /\ codes' = [codes EXCEPT ![call[w].code].open = FALSE] /\ Goes(w, Entering(w))
      /\ UNCHANGED <<users, members, sessions, tenants, resets>>
  BY DEF UseCode
<1>2. call[w].code \in DOMAIN codes
  BY <1>1, CallSays DEF Refers, At
<1>3. /\ codes' \in Seq(Code) /\ Len(codes') = Len(codes) /\ DOMAIN codes' = DOMAIN codes
      /\ \A i \in DOMAIN codes : codes'[i].tenant = codes[i].tenant
  BY <1>1, <1>2, CodeClosed
<1>4. Entering(w) \in Call /\ Refers(Entering(w), users, tenants, codes, resets, sessions)
  BY <1>1, EnteringRefers DEF At
<1>5. Refers(Entering(w), users, tenants, codes', resets, sessions)
  BY <1>4 DEF Refers, Entering, Heading
<1>6. call' \in [Workers -> Call] /\ \A v \in Workers : call'[v] = IF v = w THEN Entering(w) ELSE call[v]
  BY <1>1, <1>4, Went
<1> QED
  BY <1>1, <1>3, <1>5, <1>6, CodesAsTheyWere, OthersWritten

LEMMA LinkStep ==
  ASSUME AccountsInv, NEW w \in Workers, LinkNode(w)
  PROVE  AccountsInv'
<1>1. /\ At(w, "link") /\ codes' = [codes EXCEPT ![call[w].code].open = FALSE] /\ Goes(w, Served)
      /\ UNCHANGED <<users, members, sessions, tenants, resets>>
  BY DEF LinkNode
<1>2. call[w].code \in DOMAIN codes
  BY <1>1, CallSays DEF Refers, At
<1>3. /\ codes' \in Seq(Code) /\ Len(codes') = Len(codes) /\ DOMAIN codes' = DOMAIN codes
      /\ \A i \in DOMAIN codes : codes'[i].tenant = codes[i].tenant
  BY <1>1, <1>2, CodeClosed
<1>4. call' \in [Workers -> Call] /\ \A v \in Workers : call'[v] = IF v = w THEN Served ELSE call[v]
  BY <1>1, ServedRefers, Went
<1> QED
  BY <1>1, <1>3, <1>4, ServedRefers, CodesAsTheyWere, OthersWritten

LEMMA BranchAdded ==
  ASSUME AccountsInv, NEW w \in Workers, InsertBranch(w)
  PROVE  /\ tenants' \in Seq(Tenant) /\ DOMAIN tenants' = DOMAIN tenants /\ call[w].tenant \in DOMAIN tenants
         /\ \A t \in DOMAIN tenants : t # call[w].tenant => tenants'[t] = tenants[t]
         /\ tenants[call[w].tenant].branches \in Nat
         /\ tenants'[call[w].tenant].branches = tenants[call[w].tenant].branches + 1
<1> DEFINE t == call[w].tenant
           row == [tenants[t] EXCEPT !.branches = tenants[t].branches + 1]
<1>1. At(w, "branch") /\ tenants' = [tenants EXCEPT ![t] = row]
  BY DEF InsertBranch
<1>2. t \in DOMAIN tenants
  BY <1>1, CallSays DEF Refers, At, WithTenant
<1> HIDE DEF t
<1>3. tenants[t] \in Tenant
  BY <1>2, RowOf, CodesAsTheyWere
<1>4. row \in Tenant /\ row.branches = tenants[t].branches + 1 /\ tenants[t].branches \in Nat
  BY <1>3 DEF Tenant
<1> HIDE DEF row
<1>5. /\ tenants' \in Seq(Tenant) /\ DOMAIN tenants' = DOMAIN tenants
      /\ \A i \in DOMAIN tenants : tenants'[i] = IF i = t THEN row ELSE tenants[i]
  BY <1>1, <1>2, <1>4, TenantWritten
<1> QED
  BY <1>2, <1>4, <1>5 DEF t

LEMMA BranchStep ==
  ASSUME AccountsInv, NEW w \in Workers, InsertBranch(w)
  PROVE  AccountsInv'
<1>1. Goes(w, Served) /\ UNCHANGED <<users, members, sessions, codes, resets>>
  BY DEF InsertBranch
<1>2. call' \in [Workers -> Call] /\ \A v \in Workers : call'[v] = IF v = w THEN Served ELSE call[v]
  BY <1>1, ServedRefers, Went
<1> QED
  BY <1>1, <1>2, BranchAdded, ServedRefers, CodesAsTheyWere, OthersWritten

LEMMA AccountsStep == AccountsInv /\ [AccountsNext]_accounts => AccountsInv'
<1> SUFFICES ASSUME AccountsInv, [AccountsNext]_accounts PROVE AccountsInv'
  OBVIOUS
<1>1. ASSUME NEW w \in Workers,
             \/ \E u \in DOMAIN users, p \in Secrets : Login(w, u, p)
             \/ \E s \in DOMAIN sessions, step \in {"verify", "limit", "code", "logout", "revoke"} :
                   Authorise(w, s, step)
             \/ OpenSession(w) \/ Logout(w) \/ Revoke(w)
      PROVE  AccountsInv'
  BY <1>1, LoginStep, AuthoriseStep, OpenStep, CloseSteps
<1>2. ASSUME NEW w \in Workers, NEW p \in Secrets,
             \/ \E new \in Secrets : VerifyForPassword(w, p, new)
             \/ \E e \in Emails : VerifyForEmail(w, p, e) \/ RegisterBusiness(w, e, p)
             \/ \E r \in DOMAIN resets : Reset(w, r, p)
             \/ \E e \in Emails, c \in DOMAIN codes : RegisterByCode(w, e, p, c)
             \/ \E e \in Emails, t \in DOMAIN tenants : RegisterByToken(w, e, p, t)
      PROVE  AccountsInv'
  BY <1>2, CheckSteps, RegisterBusinessStep, TokenStep
<1>3. ASSUME NEW w \in Workers,
             \/ ChangePassword(w) \/ ChangeEmail(w) \/ ResetPassword(w) \/ SpendReset(w)
             \/ InsertUser(w) \/ InsertMember(w) \/ UseCode(w)
             \/ CheckLimit(w) \/ InsertBranch(w) \/ LinkNode(w)
             \/ \E c \in DOMAIN codes : CheckCode(w, c)
             \/ BreakOff(w)
      PROVE  AccountsInv'
  BY <1>3, PasswordSteps, EmailStep, SpendStep, InsertUserStep, MemberStep, UseStep, CheckSteps, BranchStep, LinkStep
<1>4. ASSUME \/ \E u \in DOMAIN users : Forgot(u)
             \/ \E t \in DOMAIN tenants : GenerateLinkCode(t)
             \/ \E s \in DOMAIN sessions : SessionExpires(s)
             \/ Lapse
      PROVE  AccountsInv'
  BY <1>4, ForgotStep, GenerateStep, CloseSteps, LapseStep
<1>5. CASE UNCHANGED accounts
  BY <1>5 DEF accounts, AccountsInv, Tables, RowsRefer, SessionsLetIn, CallsRefer
<1> QED
  BY <1>1, <1>2, <1>3, <1>4, <1>5 DEF AccountsNext

\* A session, and a call about to write one, that carries the version in force was
\* let in with the password in force; and rows refer to rows that are there.
THEOREM AccountsInvariant == AccountsSpec => []AccountsInv
BY AccountsStart, AccountsStep, PTL DEF AccountsSpec

LEMMA GrownByOne ==
  ASSUME NEW S, NEW n \in Nat, NEW rows \in [1..n -> S], NEW row \in S,
         NEW more \in [1..(n + 1) -> S], more[n + 1] = row, \A i \in 1..n : more[i] = rows[i]
  PROVE  more = Append(rows, row)
<1>1. rows \in Seq(S) /\ Len(rows) = n /\ more \in Seq(S) /\ Len(more) = n + 1
  BY RowsOfLength
<1>2. /\ Append(rows, row) \in Seq(S) /\ Len(Append(rows, row)) = n + 1
      /\ \A i \in 1..n : Append(rows, row)[i] = rows[i]
      /\ Append(rows, row)[n + 1] = row
  BY <1>1, AppendProperties
<1>3. \A i \in 1..(n + 1) : more[i] = Append(rows, row)[i]
  BY <1>2
<1> QED
  BY <1>1, <1>2, <1>3, SeqEqual

LEMMA SeqOfRows ==
  ASSUME NEW S, NEW T, NEW rows \in Seq(S), \A i \in DOMAIN rows : rows[i] \in T
  PROVE  rows \in Seq(T)
<1>1. Len(rows) \in Nat /\ rows \in [1..Len(rows) -> S]
  BY LenProperties
<1>2. rows \in [1..Len(rows) -> T]
  BY <1>1
<1> QED
  BY <1>1, <1>2, SeqDef

LEMMA AccountsTyped == AccountsInv => AccountsTypeOK
<1> SUFFICES ASSUME AccountsInv PROVE AccountsTypeOK
  OBVIOUS
<1>1. codes \in Seq([tenant : DOMAIN tenants, open : BOOLEAN])
  <2>1. \A c \in DOMAIN codes : codes[c] \in [tenant : DOMAIN tenants, open : BOOLEAN]
    BY CodesAsTheyWere DEF Code
  <2> QED
    BY <2>1, SeqOfRows, CodesAsTheyWere
<1>2. resets \in Seq([user : DOMAIN users, open : BOOLEAN])
  <2>1. \A r \in DOMAIN resets : resets[r] \in [user : DOMAIN users, open : BOOLEAN]
    BY CodesAsTheyWere DEF ResetRow
  <2> QED
    BY <2>1, SeqOfRows, CodesAsTheyWere
<1>3. \A w \in Workers : call[w].next \in Steps
  BY DEF AccountsInv, Tables, Call, Steps, Served, Opening, Authorised, Changing, Mailing, Revoking, Resetting,
     SigningUp, Joining, Linking
<1>4. \A s \in DOMAIN sessions : sessions[s].user \in DOMAIN users
  BY SessionOf
<1>5. \A m \in members : m.user \in DOMAIN users /\ m.tenant \in DOMAIN tenants
  BY CodesAsTheyWere
<1> QED
  BY <1>1, <1>2, <1>3, <1>4, <1>5 DEF AccountsTypeOK, AccountsInv, Tables, RowsRefer, User, Tenant

\* No two accounts have one e-mail, no row refers to one that is not there.
THEOREM AccountsTypes == AccountsSpec => []AccountsTypeOK
BY AccountsTyped, AccountsInvariant, PTL

-----------------------------------------------------------------------------
\* The accepted sessions of one user, as CloudAccess has them.
AcceptedOf(u) == {s \in DOMAIN sessions : sessions[s].user = u /\ Accepted(s)}
OpenRows(u) == {[number |-> s, password |-> sessions[s].password] : s \in AcceptedOf(u)}

LEMMA SessionVersion ==
  ASSUME AccountsInv, NEW s \in DOMAIN sessions
  PROVE  /\ LetIn(sessions[s], users) /\ sessions[s].version \in Nat /\ sessions[s].live \in BOOLEAN
         /\ sessions[s].password \in Secrets /\ s \in 1..MaxRows
<1>1. sessions[s] \in SessionRow /\ s \in 1..Len(sessions)
  BY RowOf, LenProperties DEF AccountsInv, Tables
<1>2. Len(sessions) <= MaxRows /\ Len(sessions) \in Nat
  <2>1. Len(users) \in Nat /\ Len(sessions) \in Nat /\ Len(codes) \in Nat /\ Len(resets) \in Nat
    BY LenProperties DEF AccountsInv, Tables
  <2> QED
    BY <2>1, LimitAssumption DEF AccountsInv, Tables
<1> QED
  BY <1>1, <1>2, LimitAssumption DEF AccountsInv, SessionsLetIn, SessionRow

LEMMA Mapped ==
  /\ Passwords = [u \in DOMAIN users |-> users[u].password]
  /\ Opened = [u \in DOMAIN users |-> OpenRows(u)]
  /\ Passwords' = [u \in DOMAIN users' |-> users'[u].password]
  /\ Opened' = [u \in DOMAIN users' |-> OpenRows(u)']
BY DEF Passwords, Opened, OpenRows, AcceptedOf

\* Steps that CloudAccess does not see.
LEMMA SameAccess ==
  ASSUME DOMAIN users' = DOMAIN users,
         \A u \in DOMAIN users : users'[u].password = users[u].password,
         \A u \in DOMAIN users : OpenRows(u)' = OpenRows(u)
  PROVE  UNCHANGED <<Passwords, Opened>>
BY Mapped

LEMMA SameSessions ==
  ASSUME AccountsInv, UNCHANGED sessions, DOMAIN users' = DOMAIN users,
         \A u \in DOMAIN users : users'[u].password = users[u].password /\ users'[u].version = users[u].version
  PROVE  UNCHANGED <<Passwords, Opened>>
<1>1. \A s \in DOMAIN sessions : sessions[s].user \in DOMAIN users
  BY SessionOf
<1>2. \A u \in DOMAIN users : OpenRows(u)' = OpenRows(u)
  BY <1>1 DEF OpenRows, AcceptedOf, Accepted
<1> QED
  BY <1>2, SameAccess

\* A session that is written is accepted when no password was set since the call
\* read its user's row, and then it was opened with the one in force.
LEMMA OpenMaps ==
  ASSUME AccountsInv, NEW w \in Workers, OpenSession(w)
  PROVE  Access!AccessNext \/ UNCHANGED <<Passwords, Opened>>
<1>0. PICK n, u, p : n = Len(sessions) + 1 /\ u = call[w].user /\ p = call[w].password
  OBVIOUS
<1>1. /\ u \in DOMAIN users /\ p \in Secrets /\ Entry(w).user = u /\ Entry(w).password = p /\ Entry(w).live
      /\ Entry(w).version = call[w].version
      /\ call[w].version = users[u].version => p = users[u].password
  BY <1>0, OpenAppends DEF Entry, LetIn, SessionRow
<1>2. /\ DOMAIN sessions' = DOMAIN sessions \cup {n} /\ n \notin DOMAIN sessions
      /\ \A s \in DOMAIN sessions : sessions'[s] = sessions[s]
      /\ sessions'[n] = Entry(w) /\ UNCHANGED users
  BY <1>0, OpenAppends DEF OpenSession
<1>3. n \in 1..MaxRows
  <2>1. Len(users) \in Nat /\ Len(sessions) \in Nat /\ Len(codes) \in Nat /\ Len(resets) \in Nat
    BY LenProperties DEF AccountsInv, Tables
  <2> QED
    BY <1>0, <2>1, LimitAssumption DEF OpenSession, Room
<1>4. \A s \in DOMAIN sessions : Accepted(s)' <=> Accepted(s)
  BY <1>2 DEF Accepted
<1>5. Accepted(n)' <=> call[w].version = users[u].version
  BY <1>1, <1>2 DEF Accepted
<1>6. CASE call[w].version = users[u].version
  <2> DEFINE new == [number |-> n, password |-> p]
  <2>1. \A v \in DOMAIN users : AcceptedOf(v)' = IF v = u THEN AcceptedOf(v) \cup {n} ELSE AcceptedOf(v)
    BY <1>1, <1>2, <1>4, <1>5, <1>6 DEF AcceptedOf
  <2>2. \A v \in DOMAIN users : OpenRows(v)' = IF v = u THEN OpenRows(v) \cup {new} ELSE OpenRows(v)
    <3>1. \A s \in DOMAIN sessions : sessions'[s].password = sessions[s].password
      BY <1>2
    <3>2. sessions'[n].password = p
      BY <1>1, <1>2
    <3>3. \A v \in DOMAIN users : AcceptedOf(v) \subseteq DOMAIN sessions
      BY DEF AcceptedOf
    <3> QED
      BY <2>1, <3>1, <3>2, <3>3 DEF OpenRows
  <2>3. new \notin OpenRows(u)
    BY <1>2 DEF OpenRows, AcceptedOf
  <2>4. Passwords' = Passwords /\ Passwords[u] = p /\ u \in DOMAIN Passwords
    BY <1>1, <1>2, <1>6 DEF Passwords
  <2>5. Opened' = [Opened EXCEPT ![u] = Opened[u] \cup {new}] /\ new \notin Opened[u]
    <3>1. DOMAIN users' = DOMAIN users
      BY <1>2
    <3> QED
      BY <1>1, <2>2, <2>3, <3>1, Mapped
  <2>6. Access!Enter(u, p)
    BY <1>3, <2>4, <2>5 DEF Access!Enter
  <2> QED
    BY <1>1, <2>4, <2>6 DEF Access!AccessNext
<1>7. CASE call[w].version # users[u].version
  <2>1. \A v \in DOMAIN users : AcceptedOf(v)' = AcceptedOf(v)
    BY <1>1, <1>2, <1>4, <1>5, <1>7 DEF AcceptedOf
  <2>2. \A v \in DOMAIN users : OpenRows(v)' = OpenRows(v)
    <3>1. \A v \in DOMAIN users : AcceptedOf(v) \subseteq DOMAIN sessions
      BY DEF AcceptedOf
    <3> QED
      BY <1>2, <2>1, <3>1 DEF OpenRows
  <2> QED
    BY <1>2, <2>2, SameAccess
<1> QED
  BY <1>6, <1>7

LEMMA CloseMaps ==
  ASSUME AccountsInv, NEW u \in DOMAIN users, Closes(u), UNCHANGED users
  PROVE  Access!AccessNext
<1>1. /\ DOMAIN sessions' = DOMAIN sessions
      /\ \A s \in DOMAIN sessions :
          /\ sessions'[s].user = sessions[s].user /\ sessions'[s].password = sessions[s].password
          /\ Accepted(s)' => Accepted(s)
          /\ sessions[s].user # u => (Accepted(s)' <=> Accepted(s))
  BY DEF Closes, Accepted
<1>2. \A v \in DOMAIN users : v # u => AcceptedOf(v)' = AcceptedOf(v)
  BY <1>1 DEF AcceptedOf
<1>3. AcceptedOf(u)' \subseteq AcceptedOf(u)
  BY <1>1 DEF AcceptedOf
<1>4. \A v \in DOMAIN users : AcceptedOf(v) \subseteq DOMAIN sessions
  BY DEF AcceptedOf
<1>5. \A v \in DOMAIN users : v # u => OpenRows(v)' = OpenRows(v)
  BY <1>1, <1>2, <1>4 DEF OpenRows
<1>6. OpenRows(u)' \subseteq OpenRows(u)
  BY <1>1, <1>3, <1>4 DEF OpenRows
<1>7. PICK some : some = OpenRows(u)'
  OBVIOUS
<1>8. Opened' = [Opened EXCEPT ![u] = some] /\ some \in SUBSET Opened[u]
  BY <1>5, <1>6, <1>7, Mapped
<1>9. Passwords' = Passwords /\ u \in DOMAIN Passwords
  BY Mapped
<1>10. Access!Leave(u)
  BY <1>8, <1>9 DEF Access!Leave
<1>11. users[u].password \in Secrets
  BY UserOf DEF AccountsInv
<1> QED
  BY <1>9, <1>10, <1>11 DEF Access!AccessNext

\* Setting a password raises the version above that of every session there is, in
\* the one statement that writes it.
LEMMA PasswordMaps ==
  ASSUME AccountsInv, NEW u \in DOMAIN users, NEW p \in Secrets, WritePassword(u, p), UNCHANGED sessions
  PROVE  Access!AccessNext
<1>1. /\ DOMAIN users' = DOMAIN users /\ \A i \in DOMAIN users : i # u => users'[i] = users[i]
      /\ users'[u].password = p /\ users'[u].version = users[u].version + 1
  BY PasswordWritten
<1>2. users[u].version \in Nat
  BY UserOf DEF AccountsInv
<1>3. \A s \in DOMAIN sessions : sessions[s].version \in Nat /\ LetIn(sessions[s], users)
  BY SessionVersion
<1>4. AcceptedOf(u)' = {}
  BY <1>1, <1>2, <1>3 DEF AcceptedOf, Accepted, LetIn
<1>5. \A v \in DOMAIN users : v # u => AcceptedOf(v)' = AcceptedOf(v)
  BY <1>1 DEF AcceptedOf, Accepted
<1>6. OpenRows(u)' = {} /\ \A v \in DOMAIN users : v # u => OpenRows(v)' = OpenRows(v)
  BY <1>4, <1>5 DEF OpenRows
<1>7. Opened' = [Opened EXCEPT ![u] = {}]
  BY <1>1, <1>6, Mapped
<1>8. Passwords' = [Passwords EXCEPT ![u] = p] /\ u \in DOMAIN Passwords
  BY <1>1, Mapped
<1>9. Access!SetPassword(u, p)
  BY <1>7, <1>8 DEF Access!SetPassword
<1> QED
  BY <1>8, <1>9 DEF Access!AccessNext

LEMMA SignUpMaps ==
  ASSUME AccountsInv, NEW e \in Emails, NEW p \in Secrets, ~Taken(e), UNCHANGED sessions,
         users' = Append(users, NewUser(e, p))
  PROVE  Access!AccessNext
<1>1. PICK n : n = Len(users)
  OBVIOUS
<1>2. n \in Nat /\ DOMAIN users = 1..n
  BY <1>1, LenProperties DEF AccountsInv, Tables
<1>3. /\ DOMAIN users' = 1..(n + 1) /\ \A u \in 1..n : users'[u] = users[u]
      /\ users'[n + 1].password = p
  <2>1. DOMAIN users' = DOMAIN users \cup {n + 1}
    BY <1>1, UserAdded
  <2>2. users'[n + 1] = NewUser(e, p) /\ \A u \in DOMAIN users : users'[u] = users[u]
    BY <1>1, UserAdded
  <2> QED
    BY <1>2, <2>1, <2>2 DEF NewUser
<1>4. \A s \in DOMAIN sessions : sessions[s].user \in 1..n
  BY <1>2, SessionOf
<1>5. AcceptedOf(n + 1)' = {} /\ \A u \in 1..n : AcceptedOf(u)' = AcceptedOf(u)
  BY <1>2, <1>3, <1>4 DEF AcceptedOf, Accepted
<1>6. OpenRows(n + 1)' = {} /\ \A u \in 1..n : OpenRows(u)' = OpenRows(u)
  BY <1>5 DEF OpenRows
<1> DEFINE Rows == SUBSET [number : Nat, password : Secrets]
<1>7. Passwords \in [1..n -> Secrets] /\ Opened \in [1..n -> Rows]
  <2>1. \A u \in 1..n : users[u].password \in Secrets
    BY <1>2, UserOf DEF AccountsInv
  <2>2. \A s \in DOMAIN sessions : s \in Nat /\ sessions[s].password \in Secrets
    BY SessionVersion
  <2>3. \A u \in 1..n : OpenRows(u) \in Rows
    BY <2>2 DEF OpenRows, AcceptedOf
  <2> QED
    BY <1>2, <2>1, <2>3, Mapped
<1> HIDE DEF Rows
<1>8. Passwords' \in [1..(n + 1) -> Secrets] /\ Passwords'[n + 1] = p /\ \A u \in 1..n : Passwords'[u] = Passwords[u]
  BY <1>2, <1>3, <1>7, Mapped
<1>9. {} \in Rows
  BY DEF Rows
<1>10. Opened' \in [1..(n + 1) -> Rows] /\ Opened'[n + 1] = {} /\ \A u \in 1..n : Opened'[u] = Opened[u]
  <2>1. Opened' = [u \in 1..(n + 1) |-> OpenRows(u)']
    BY <1>3, Mapped
  <2>2. \A u \in 1..n : Opened[u] = OpenRows(u) /\ Opened[u] \in Rows
    BY <1>2, <1>7, Mapped
  <2>3. \A u \in 1..(n + 1) : u \in 1..n \/ u = n + 1
    BY <1>2
  <2>4. n + 1 \in 1..(n + 1) /\ 1..n \subseteq 1..(n + 1)
    BY <1>2
  <2>5. Opened'[n + 1] = {} /\ \A u \in 1..n : Opened'[u] = Opened[u]
    BY <1>6, <2>1, <2>2, <2>4
  <2> QED
    BY <1>9, <2>1, <2>2, <2>3, <2>5
<1>11. Passwords' = Append(Passwords, p)
  BY <1>2, <1>7, <1>8, GrownByOne
<1>12. Opened' = Append(Opened, {})
  BY <1>2, <1>7, <1>9, <1>10, GrownByOne
<1> QED
  BY <1>11, <1>12 DEF Access!AccessNext, Access!SignUp

LEMMA AccessStart == AccountsInit => Access!AccessInit
<1> SUFFICES ASSUME AccountsInit PROVE Access!AccessInit
  OBVIOUS
<1>1. DOMAIN users = {}
  BY DEF AccountsInit
<1>2. Passwords \in [1..0 -> {}] /\ Opened \in [1..0 -> {}]
  BY <1>1 DEF Passwords, Opened
<1>3. Passwords \in Seq({}) /\ Len(Passwords) = 0 /\ Opened \in Seq({}) /\ Len(Opened) = 0
  BY <1>2, RowsOfLength
<1> QED
  BY <1>3, EmptySeq DEF Access!AccessInit

\* Steps of the tables that CloudAccess has nothing of.
LEMMA OtherMaps ==
  ASSUME AccountsInv, UNCHANGED <<users, sessions>>
  PROVE  UNCHANGED <<Passwords, Opened>>
BY SameSessions

LEMMA AccessSteps ==
  ASSUME AccountsInv, AccountsNext
  PROVE  Access!AccessNext \/ UNCHANGED <<Passwords, Opened>>
<1> DEFINE Shows == Access!AccessNext \/ UNCHANGED <<Passwords, Opened>>
<1>1. ASSUME NEW w \in Workers, OpenSession(w) PROVE Shows
  BY <1>1, OpenMaps
<1>2. ASSUME NEW w \in Workers, Logout(w) \/ Revoke(w) PROVE Shows
  BY <1>2, LogoutCloses, RevokeCloses, CloseMaps DEF Logout, Revoke
<1>3. ASSUME NEW s \in DOMAIN sessions, SessionExpires(s) PROVE Shows
  BY <1>3, OneCloses, CloseMaps DEF SessionExpires
<1>4. ASSUME NEW w \in Workers, ChangePassword(w) \/ ResetPassword(w) PROVE Shows
  <2>1. call[w].user \in DOMAIN users /\ call[w].password \in Secrets
    BY <1>4, CallOf, CallSays DEF AccountsInv, Refers, ChangePassword, ResetPassword, At, WithUser, Steps,
       Changing, Resetting
  <2>2. WritePassword(call[w].user, call[w].password) /\ UNCHANGED sessions
    BY <1>4 DEF ChangePassword, ResetPassword
  <2> QED
    BY <2>1, <2>2, PasswordMaps
<1>5. ASSUME NEW w \in Workers, InsertUser(w) PROVE Shows
  <2>1. call[w].email \in Emails /\ call[w].password \in Secrets
    BY <1>5, CallOf DEF InsertUser, AccountsInv, At, SigningUp
  <2> QED
    BY <1>5, <2>1, SignUpMaps DEF InsertUser
<1>6. ASSUME NEW w \in Workers, NEW e \in Emails, NEW p \in Secrets, RegisterBusiness(w, e, p) PROVE Shows
  BY <1>6, SignUpMaps DEF RegisterBusiness
<1>7. ASSUME NEW w \in Workers, ChangeEmail(w) PROVE Shows
  BY <1>7, EmailWritten, SameSessions DEF ChangeEmail
<1>8. ASSUME UNCHANGED <<users, sessions>> PROVE Shows
  BY <1>8, OtherMaps
<1> HIDE DEF Shows
<1>9. ASSUME NEW w \in Workers,
             \/ \E u \in DOMAIN users, p \in Secrets : Login(w, u, p)
             \/ \E s \in DOMAIN sessions, step \in {"verify", "limit", "code", "logout", "revoke"} :
                   Authorise(w, s, step)
             \/ SpendReset(w) \/ InsertMember(w) \/ UseCode(w) \/ CheckLimit(w) \/ InsertBranch(w) \/ LinkNode(w)
             \/ \E c \in DOMAIN codes : CheckCode(w, c)
             \/ BreakOff(w)
      PROVE  Shows
  BY <1>8, <1>9 DEF Login, Authorise, SpendReset, InsertMember, UseCode, CheckLimit, InsertBranch, LinkNode, CheckCode,
     BreakOff, records
<1>10. ASSUME NEW w \in Workers, NEW p \in Secrets,
              \/ \E new \in Secrets : VerifyForPassword(w, p, new)
              \/ \E e \in Emails : VerifyForEmail(w, p, e)
              \/ \E r \in DOMAIN resets : Reset(w, r, p)
              \/ \E e \in Emails, c \in DOMAIN codes : RegisterByCode(w, e, p, c)
              \/ \E e \in Emails, t \in DOMAIN tenants : RegisterByToken(w, e, p, t)
       PROVE  Shows
  BY <1>8, <1>10 DEF VerifyForPassword, VerifyForEmail, Reset, RegisterByCode, RegisterByToken, records
<1>11. ASSUME \/ \E u \in DOMAIN users : Forgot(u)
              \/ \E t \in DOMAIN tenants : GenerateLinkCode(t)
              \/ Lapse
       PROVE  Shows
  BY <1>8, <1>11 DEF Forgot, GenerateLinkCode, Lapse
<1>12. Shows
  BY <1>1, <1>2, <1>3, <1>4, <1>5, <1>6, <1>7, <1>9, <1>10, <1>11 DEF AccountsNext
<1> QED
  BY <1>12 DEF Shows

\* CloudAccounts implements CloudAccess: whatever statements of other calls run
\* between the check of a password, the write of a session, the write of a password
\* and the revocations after it, a session that is accepted was opened with the
\* password in force.
THEOREM AccountsKeepAccess == AccountsSpec => AccessKept
<1>1. AccountsInv /\ [AccountsNext]_accounts => [Access!AccessNext]_<<Passwords, Opened>>
  <2> SUFFICES ASSUME AccountsInv, [AccountsNext]_accounts PROVE [Access!AccessNext]_<<Passwords, Opened>>
    OBVIOUS
  <2>1. CASE AccountsNext
    BY <2>1, AccessSteps
  <2>2. CASE UNCHANGED accounts
    BY <2>2, OtherMaps DEF accounts
  <2> QED
    BY <2>1, <2>2
<1> QED
  BY <1>1, AccessStart, AccountsInvariant, PTL DEF AccountsSpec, AccessKept, Access!AccessSpec, Access!access

-----------------------------------------------------------------------------
\* The checks and what they let by.
Adding(t) == {w \in Workers : At(w, "branch") /\ call[w].tenant = t}
HeadingFor(c) == {w \in Workers : call[w].next \in Heading /\ call[w].code = c}
By(c) == {m \in members : m.code = c}

\* A branch, or a member, there is or may still be, was let by while one was
\* missing; the members by a code are of the tenant it was made for.
Counted ==
    /\ IsFiniteSet(members)
    /\ \A m \in members : m.code # 0 => m.code \in DOMAIN codes /\ m.tenant = codes[m.code].tenant
    /\ \A t \in DOMAIN tenants :
          tenants[t].branches + Cardinality(Adding(t)) < MaxBranches + Cardinality(Workers)
    /\ \A c \in DOMAIN codes : Cardinality(By(c)) + Cardinality(HeadingFor(c)) <= Cardinality(Workers)

LEMMA Sizes ==
  ASSUME AccountsInv, Counted
  PROVE  /\ Cardinality(Workers) \in Nat
         /\ \A t : Adding(t) \in SUBSET Workers /\ IsFiniteSet(Adding(t)) /\ Cardinality(Adding(t)) \in Nat
         /\ \A c : HeadingFor(c) \in SUBSET Workers /\ IsFiniteSet(HeadingFor(c)) /\ Cardinality(HeadingFor(c)) \in Nat
         /\ \A c : IsFiniteSet(By(c)) /\ Cardinality(By(c)) \in Nat
         /\ \A t \in DOMAIN tenants : tenants[t].branches \in Nat
         /\ \A c \in DOMAIN codes : c \in Nat \ {0}
<1>1. Cardinality(Workers) \in Nat
  BY FS_CardinalityType, LimitAssumption
<1>2. \A S \in SUBSET Workers : IsFiniteSet(S) /\ Cardinality(S) \in Nat
  BY FS_Subset, FS_CardinalityType, LimitAssumption
<1>3. \A t : Adding(t) \in SUBSET Workers
  BY DEF Adding
<1>4. \A c : HeadingFor(c) \in SUBSET Workers
  BY DEF HeadingFor
<1>5. \A c : By(c) \in SUBSET members
  BY DEF By
<1>6. \A S \in SUBSET members : IsFiniteSet(S) /\ Cardinality(S) \in Nat
  BY FS_Subset, FS_CardinalityType DEF Counted
<1>7. \A t \in DOMAIN tenants : tenants[t] \in Tenant
  BY RowOf, CodesAsTheyWere
<1>8. \A t \in DOMAIN tenants : tenants[t].branches \in Nat
  BY <1>7 DEF Tenant
<1>9. \A c \in DOMAIN codes : c \in Nat \ {0}
  BY LenProperties, CodesAsTheyWere
<1> QED
  BY <1>1, <1>2, <1>3, <1>4, <1>5, <1>6, <1>8, <1>9

LEMMA CountedStart == AccountsInit => Counted
<1> SUFFICES ASSUME AccountsInit PROVE Counted
  OBVIOUS
<1>1. IsFiniteSet(members) /\ members = {} /\ DOMAIN codes = {}
  BY FS_EmptySet DEF AccountsInit
<1>2. \A t : Adding(t) = {}
  BY DEF AccountsInit, Adding, At, Served
<1>3. Cardinality({}) = 0 /\ Cardinality(Workers) \in Nat /\ Cardinality(Workers) # 0
  BY FS_EmptySet, FS_CardinalityType, LimitAssumption
<1>4. DOMAIN tenants = {1} /\ tenants[1].branches = 1
  BY DEF AccountsInit
<1>5. 1 + 0 < MaxBranches + Cardinality(Workers)
  BY <1>3, LimitAssumption
<1>6. \A t \in DOMAIN tenants :
        tenants[t].branches + Cardinality(Adding(t)) < MaxBranches + Cardinality(Workers)
  <2> SUFFICES ASSUME NEW t \in DOMAIN tenants
               PROVE  tenants[t].branches + Cardinality(Adding(t)) < MaxBranches + Cardinality(Workers)
    OBVIOUS
  <2>1. tenants[t].branches = 1 /\ Cardinality(Adding(t)) = 0
    BY <1>2, <1>3, <1>4
  <2> QED
    BY <1>5, <2>1
<1> QED
  BY <1>1, <1>6 DEF Counted

\* Steps that let nobody by.
LEMMA CountsStay ==
  ASSUME AccountsInv, Counted, UNCHANGED members, DOMAIN tenants' = DOMAIN tenants, DOMAIN codes' = DOMAIN codes,
         \A t \in DOMAIN tenants : tenants'[t].branches = tenants[t].branches,
         \A c \in DOMAIN codes : codes'[c].tenant = codes[c].tenant,
         \A w \in Workers :
             \/ call'[w] = call[w]
             \/ call'[w].next \notin Heading \cup {"branch"}
             \/ /\ call'[w].next \in Heading
                /\ call'[w].code = 0 \/ (call[w].next \in Heading /\ call'[w].code = call[w].code)
  PROVE  Counted'
<1>1. \A t : Adding(t)' \subseteq Adding(t)
  BY DEF Adding, At, Heading
<1>2. \A c \in DOMAIN codes : HeadingFor(c)' \subseteq HeadingFor(c)
  BY Sizes DEF HeadingFor, Heading
<1>3. \A c : By(c)' = By(c)
  BY DEF By
<1>4. \A t \in DOMAIN tenants : Cardinality(Adding(t)') <= Cardinality(Adding(t)) /\ Cardinality(Adding(t)') \in Nat
  BY <1>1, Sizes, FS_Subset, FS_CardinalityType
<1>5. \A c \in DOMAIN codes :
        Cardinality(HeadingFor(c)') <= Cardinality(HeadingFor(c)) /\ Cardinality(HeadingFor(c)') \in Nat
  BY <1>2, Sizes, FS_Subset, FS_CardinalityType
<1>6. \A t \in DOMAIN tenants' :
        tenants'[t].branches + Cardinality(Adding(t)') < MaxBranches + Cardinality(Workers)
  BY <1>4, Sizes, LimitAssumption DEF Counted
<1>7. \A c \in DOMAIN codes' : Cardinality(By(c)') + Cardinality(HeadingFor(c)') <= Cardinality(Workers)
  BY <1>3, <1>5, Sizes DEF Counted
<1> QED
  BY <1>6, <1>7 DEF Counted

\* A branch that is let by finds one missing, and the calls are few.
LEMMA LimitCounts ==
  ASSUME AccountsInv, Counted, NEW w \in Workers, CheckLimit(w)
  PROVE  Counted'
<1> DEFINE then == [call[w] EXCEPT !.next = "branch"]
<1>1. At(w, "limit") /\ tenants[call[w].tenant].branches < MaxBranches /\ Goes(w, then) /\ UNCHANGED records
  BY DEF CheckLimit
<1>2. call[w] \in Authorised
  BY <1>1, CallOf DEF AccountsInv, At
<1>3. then \in Call /\ then.next = "branch" /\ then.tenant = call[w].tenant
  BY <1>2 DEF Authorised, Call
<1> HIDE DEF then
<1>4. \A v \in Workers : call'[v] = IF v = w THEN then ELSE call[v]
  BY <1>1, <1>3, Went
<1>5. UNCHANGED <<members, tenants, codes>>
  BY <1>1 DEF records
<1>6. \A c : HeadingFor(c)' \subseteq HeadingFor(c)
  BY <1>3, <1>4 DEF HeadingFor, Heading
<1>7. \A t : t # call[w].tenant => Adding(t)' \subseteq Adding(t)
  BY <1>3, <1>4 DEF Adding, At
<1>8. \A t : Adding(t)' \subseteq Workers
  BY DEF Adding
<1>9. ASSUME NEW t \in DOMAIN tenants
      PROVE  tenants[t].branches + Cardinality(Adding(t)') < MaxBranches + Cardinality(Workers)
  <2>1. CASE t = call[w].tenant
    <3>1. Cardinality(Adding(t)') <= Cardinality(Workers) /\ Cardinality(Adding(t)') \in Nat
      BY <1>8, FS_Subset, FS_CardinalityType, LimitAssumption
    <3> QED
      BY <1>1, <2>1, <3>1, Sizes, LimitAssumption
  <2>2. CASE t # call[w].tenant
    <3>1. Cardinality(Adding(t)') <= Cardinality(Adding(t)) /\ Cardinality(Adding(t)') \in Nat
      BY <1>7, <2>2, Sizes, FS_Subset, FS_CardinalityType
    <3> QED
      BY <3>1, Sizes, LimitAssumption DEF Counted
  <2> QED
    BY <2>1, <2>2
<1>10. \A c \in DOMAIN codes :
        Cardinality(HeadingFor(c)') <= Cardinality(HeadingFor(c)) /\ Cardinality(HeadingFor(c)') \in Nat
  BY <1>6, Sizes, FS_Subset, FS_CardinalityType
<1>11. \A c : By(c)' = By(c)
  BY <1>5 DEF By
<1>12. \A c \in DOMAIN codes : Cardinality(By(c)') + Cardinality(HeadingFor(c)') <= Cardinality(Workers)
  BY <1>10, <1>11, Sizes DEF Counted
<1> QED
  BY <1>5, <1>9, <1>12 DEF Counted

\* The branch that is inserted was counted when it was let by.
LEMMA BranchCounts ==
  ASSUME AccountsInv, Counted, NEW w \in Workers, InsertBranch(w)
  PROVE  Counted'
<1>1. PICK b : b = call[w].tenant
  OBVIOUS
<1>2. At(w, "branch") /\ Goes(w, Served) /\ UNCHANGED <<members, codes>>
  BY DEF InsertBranch
<1>3. /\ DOMAIN tenants' = DOMAIN tenants /\ b \in DOMAIN tenants
      /\ \A t \in DOMAIN tenants : t # b => tenants'[t] = tenants[t]
      /\ tenants[b].branches \in Nat /\ tenants'[b].branches = tenants[b].branches + 1
  BY <1>1, BranchAdded
<1>4. \A v \in Workers : call'[v] = IF v = w THEN Served ELSE call[v]
  BY <1>2, ServedRefers, Went
<1>5. \A c : HeadingFor(c)' \subseteq HeadingFor(c)
  BY <1>4 DEF HeadingFor, Heading, Served
<1>6. Adding(b)' = Adding(b) \ {w} /\ w \in Adding(b) /\ \A t : t # b => Adding(t)' = Adding(t)
  BY <1>1, <1>2, <1>4 DEF Adding, At, Served
<1>7. Cardinality(Adding(b)') = Cardinality(Adding(b)) - 1
  BY <1>6, Sizes, FS_RemoveElement
<1>8. ASSUME NEW t \in DOMAIN tenants
      PROVE  tenants'[t].branches + Cardinality(Adding(t)') < MaxBranches + Cardinality(Workers)
  <2>1. CASE t = b
    BY <1>3, <1>7, <2>1, Sizes, LimitAssumption DEF Counted
  <2>2. CASE t # b
    BY <1>3, <1>6, <2>2 DEF Counted
  <2> QED
    BY <2>1, <2>2
<1>9. \A c \in DOMAIN codes :
        Cardinality(HeadingFor(c)') <= Cardinality(HeadingFor(c)) /\ Cardinality(HeadingFor(c)') \in Nat
  BY <1>5, Sizes, FS_Subset, FS_CardinalityType
<1>10. \A c : By(c)' = By(c)
  BY <1>2 DEF By
<1>11. \A c \in DOMAIN codes : Cardinality(By(c)') + Cardinality(HeadingFor(c)') <= Cardinality(Workers)
  BY <1>9, <1>10, Sizes DEF Counted
<1> QED
  BY <1>2, <1>3, <1>8, <1>11 DEF Counted

\* A registration that is let by finds no member by its code.
LEMMA CodeCounts ==
  ASSUME AccountsInv, Counted, NEW w \in Workers, NEW e \in Emails, NEW p \in Secrets, NEW c \in DOMAIN codes,
         RegisterByCode(w, e, p, c)
  PROVE  Counted'
<1> DEFINE then == [next |-> "account", email |-> e, password |-> p, tenant |-> codes[c].tenant, code |-> c]
<1>1. /\ \A m \in members : m.tenant # codes[c].tenant
      /\ call' = [call EXCEPT ![w] = then] /\ UNCHANGED <<members, tenants, codes>>
  BY DEF RegisterByCode, Goes, records
<1>2. \A v \in Workers : call'[v] = IF v = w THEN then ELSE call[v]
  BY <1>1 DEF AccountsInv, Tables
<1>3. \A t : Adding(t)' \subseteq Adding(t)
  BY <1>2 DEF Adding, At
<1>4. \A d : d # c => HeadingFor(d)' \subseteq HeadingFor(d)
  BY <1>2 DEF HeadingFor, Heading
<1>5. HeadingFor(c)' \subseteq Workers
  BY DEF HeadingFor
<1>6. \A d : By(d)' = By(d)
  BY <1>1 DEF By
<1>7. By(c) = {}
  BY <1>1, Sizes DEF By, Counted
<1>8. \A t \in DOMAIN tenants : Cardinality(Adding(t)') <= Cardinality(Adding(t)) /\ Cardinality(Adding(t)') \in Nat
  BY <1>3, Sizes, FS_Subset, FS_CardinalityType
<1>9. \A t \in DOMAIN tenants :
        tenants[t].branches + Cardinality(Adding(t)') < MaxBranches + Cardinality(Workers)
  BY <1>8, Sizes, LimitAssumption DEF Counted
<1>10. ASSUME NEW d \in DOMAIN codes
       PROVE  Cardinality(By(d)') + Cardinality(HeadingFor(d)') <= Cardinality(Workers)
  <2>1. CASE d = c
    <3>1. Cardinality(HeadingFor(c)') <= Cardinality(Workers) /\ Cardinality(HeadingFor(c)') \in Nat
      BY <1>5, FS_Subset, FS_CardinalityType, LimitAssumption
    <3>2. Cardinality(By(c)') = 0
      BY <1>6, <1>7, FS_EmptySet
    <3> QED
      BY <2>1, <3>1, <3>2, Sizes
  <2>2. CASE d # c
    <3>1. Cardinality(HeadingFor(d)') <= Cardinality(HeadingFor(d)) /\ Cardinality(HeadingFor(d)') \in Nat
      BY <1>4, <2>2, Sizes, FS_Subset, FS_CardinalityType
    <3> QED
      BY <1>6, <3>1, Sizes DEF Counted
  <2> QED
    BY <2>1, <2>2
<1> QED
  BY <1>1, <1>9, <1>10 DEF Counted

\* The member that is made was counted when its call was let by.
LEMMA MemberCounts ==
  ASSUME AccountsInv, Counted, NEW w \in Workers, InsertMember(w)
  PROVE  Counted'
<1> DEFINE then == IF call[w].code = 0 THEN Entering(w) ELSE [call[w] EXCEPT !.next = "use"]
<1>1. PICK k, m : k = call[w].code /\ m = [user |-> call[w].user, tenant |-> call[w].tenant, code |-> call[w].code]
  OBVIOUS
<1>2. At(w, "join") /\ members' = members \cup {m} /\ Goes(w, then) /\ UNCHANGED <<tenants, codes>>
  BY <1>1 DEF InsertMember
<1>3. call[w] \in Joining /\ Refers(call[w], users, tenants, codes, resets, sessions)
  BY <1>2, CallOf, CallSays DEF AccountsInv, At
<1>4. then.next \notin Heading \cup {"branch"}
  BY <1>3 DEF Joining, Entering, Heading
<1>5. \A v \in Workers : v # w => call'[v] = call[v]
  BY <1>2 DEF Goes, AccountsInv, Tables
<1>6. call'[w] = then
  BY <1>2 DEF Goes, AccountsInv, Tables
<1> HIDE DEF then
<1>7. m.code = k /\ (k # 0 => k \in DOMAIN codes /\ m.tenant = codes[k].tenant)
  BY <1>1, <1>2, <1>3 DEF Refers, At, Heading
<1>8. \A t : Adding(t)' \subseteq Adding(t)
  BY <1>4, <1>5, <1>6 DEF Adding, At
<1>9. \A c : HeadingFor(c)' \subseteq HeadingFor(c)
  BY <1>4, <1>5, <1>6 DEF HeadingFor
<1>10. w \in HeadingFor(k) /\ HeadingFor(k)' \subseteq HeadingFor(k) \ {w}
  BY <1>1, <1>2, <1>4, <1>5, <1>6 DEF HeadingFor, At, Heading
<1>11. By(k)' = By(k) \cup {m} /\ \A c : c # k => By(c)' = By(c)
  BY <1>2, <1>7 DEF By
<1>12. IsFiniteSet(members')
  BY <1>2, FS_AddElement DEF Counted
<1>13. \A x \in members' : x.code # 0 => x.code \in DOMAIN codes /\ x.tenant = codes[x.code].tenant
  BY <1>2, <1>7 DEF Counted
<1>14. \A t \in DOMAIN tenants : Cardinality(Adding(t)') <= Cardinality(Adding(t)) /\ Cardinality(Adding(t)') \in Nat
  BY <1>8, Sizes, FS_Subset, FS_CardinalityType
<1>15. \A t \in DOMAIN tenants :
        tenants[t].branches + Cardinality(Adding(t)') < MaxBranches + Cardinality(Workers)
  BY <1>14, Sizes, LimitAssumption DEF Counted
<1>16. ASSUME NEW c \in DOMAIN codes
       PROVE  Cardinality(By(c)') + Cardinality(HeadingFor(c)') <= Cardinality(Workers)
  <2>1. CASE c = k
    <3>1. IsFiniteSet(HeadingFor(k) \ {w}) /\ Cardinality(HeadingFor(k) \ {w}) = Cardinality(HeadingFor(k)) - 1
      BY <1>10, Sizes, FS_RemoveElement
    <3>2. /\ Cardinality(HeadingFor(k)') <= Cardinality(HeadingFor(k) \ {w})
          /\ Cardinality(HeadingFor(k)') \in Nat
      BY <1>10, <3>1, FS_Subset, FS_CardinalityType
    <3>3. Cardinality(By(k)') <= Cardinality(By(k)) + 1 /\ Cardinality(By(k)') \in Nat
      <4>1. IsFiniteSet(By(k)) /\ Cardinality(By(k)) \in Nat
        BY Sizes
      <4>2. /\ IsFiniteSet(By(k) \cup {m})
            /\ Cardinality(By(k) \cup {m}) = IF m \in By(k) THEN Cardinality(By(k)) ELSE Cardinality(By(k)) + 1
        BY <4>1, FS_AddElement
      <4>3. Cardinality(By(k) \cup {m}) <= Cardinality(By(k)) + 1 /\ Cardinality(By(k) \cup {m}) \in Nat
        BY <4>1, <4>2
      <4> QED
        BY <1>11, <4>3
    <3> QED
      BY <2>1, <3>1, <3>2, <3>3, Sizes DEF Counted
  <2>2. CASE c # k
    <3>1. Cardinality(HeadingFor(c)') <= Cardinality(HeadingFor(c)) /\ Cardinality(HeadingFor(c)') \in Nat
      BY <1>9, Sizes, FS_Subset, FS_CardinalityType
    <3> QED
      BY <1>11, <2>2, <3>1, Sizes DEF Counted
  <2> QED
    BY <2>1, <2>2
<1> QED
  BY <1>2, <1>12, <1>13, <1>15, <1>16 DEF Counted

\* A tenant, and a code, that is new has nothing under way.
LEMMA BusinessCounts ==
  ASSUME AccountsInv, Counted, NEW w \in Workers, NEW e \in Emails, NEW p \in Secrets, RegisterBusiness(w, e, p)
  PROVE  Counted'
<1>1. PICK n, m : n = Len(tenants) + 1 /\ m = [user |-> Len(users) + 1, tenant |-> Len(tenants) + 1, code |-> 0]
  OBVIOUS
<1>2. /\ tenants' = Append(tenants, [branches |-> 1, activated |-> FALSE])
      /\ members' = members \cup {m} /\ UNCHANGED <<codes, call>>
  BY <1>1 DEF RegisterBusiness
<1>3. [branches |-> 1, activated |-> FALSE] \in Tenant
  BY DEF Tenant
<1>4. /\ DOMAIN tenants' = DOMAIN tenants \cup {n} /\ n \notin DOMAIN tenants
      /\ \A t \in DOMAIN tenants : tenants'[t] = tenants[t]
      /\ tenants'[n].branches = 1
  BY <1>1, <1>2, <1>3, Appended, CodesAsTheyWere
<1>5. \A v \in Workers : At(v, "branch") => call[v].tenant \in DOMAIN tenants
  BY CallSays DEF Refers, At, WithTenant
<1>6. Adding(n) = {} /\ \A t : Adding(t)' = Adding(t)
  BY <1>2, <1>4, <1>5 DEF Adding, At
<1>7. m.code = 0 /\ IsFiniteSet(members')
  BY <1>1, <1>2, FS_AddElement DEF Counted
<1>8. \A c \in DOMAIN codes : By(c)' = By(c) /\ HeadingFor(c)' = HeadingFor(c)
  BY <1>2, <1>7, Sizes DEF By, HeadingFor
<1>9. ASSUME NEW t \in DOMAIN tenants'
      PROVE  tenants'[t].branches + Cardinality(Adding(t)') < MaxBranches + Cardinality(Workers)
  <2>1. CASE t = n
    <3>1. Cardinality(Adding(t)') = 0 /\ tenants'[t].branches = 1
      BY <1>4, <1>6, <2>1, FS_EmptySet
    <3>2. Cardinality(Workers) # 0
      BY FS_EmptySet, LimitAssumption
    <3> QED
      BY <3>1, <3>2, Sizes, LimitAssumption
  <2>2. CASE t # n
    BY <1>4, <1>6, <2>2 DEF Counted
  <2> QED
    BY <2>1, <2>2
<1> QED
  BY <1>2, <1>7, <1>8, <1>9 DEF Counted

LEMMA GenerateCounts ==
  ASSUME AccountsInv, Counted, NEW t \in DOMAIN tenants, GenerateLinkCode(t)
  PROVE  Counted'
<1>1. PICK n : n = Len(codes) + 1
  OBVIOUS
<1>2. UNCHANGED <<members, tenants, call>>
  BY DEF GenerateLinkCode
<1>3. /\ DOMAIN codes' = DOMAIN codes \cup {n} /\ n \notin DOMAIN codes /\ n # 0
      /\ \A c \in DOMAIN codes : codes'[c] = codes[c]
  <2>1. /\ DOMAIN codes' = DOMAIN codes \cup {n} /\ n \notin DOMAIN codes
        /\ \A c \in DOMAIN codes : codes'[c] = codes[c]
    BY <1>1, CodeAdded
  <2>2. Len(codes) \in Nat
    BY CodeAdded
  <2> QED
    BY <1>1, <2>1, <2>2
<1>4. /\ \A c : By(c)' = By(c) /\ HeadingFor(c)' = HeadingFor(c)
      /\ \A b : Adding(b)' = Adding(b)
  BY <1>2 DEF By, HeadingFor, Adding, At
<1>5. By(n) = {} /\ HeadingFor(n) = {}
  <2>1. \A m \in members : m.code # n
    BY <1>3 DEF Counted
  <2>2. \A v \in Workers : call[v].next \in Heading => call[v].code # n
    BY <1>3, CallSays DEF Refers
  <2> QED
    BY <2>1, <2>2 DEF By, HeadingFor
<1>6. \A c \in DOMAIN codes' : Cardinality(By(c)') + Cardinality(HeadingFor(c)') <= Cardinality(Workers)
  BY <1>3, <1>4, <1>5, Sizes, FS_EmptySet DEF Counted
<1>7. \A m \in members : m.code # 0 => m.code \in DOMAIN codes' /\ m.tenant = codes'[m.code].tenant
  BY <1>3 DEF Counted
<1> QED
  BY <1>2, <1>4, <1>6, <1>7 DEF Counted

LEMMA CountedStep == AccountsInv /\ Counted /\ [AccountsNext]_accounts => Counted'
<1> SUFFICES ASSUME AccountsInv, Counted, [AccountsNext]_accounts PROVE Counted'
  OBVIOUS
<1> DEFINE Off(v) == call'[v] = call[v] \/ call'[v].next \notin Heading \cup {"branch"}
<1>0. call = [v \in Workers |-> call[v]]
  BY DEF AccountsInv, Tables
<1>1. ASSUME UNCHANGED <<members, tenants, codes>>, \A v \in Workers : Off(v) PROVE Counted'
  BY <1>1, CountsStay
<1>2. ASSUME NEW w \in Workers,
             \/ \E u \in DOMAIN users, p \in Secrets : Login(w, u, p)
             \/ \E s \in DOMAIN sessions, step \in {"verify", "limit", "code", "logout", "revoke"} :
                   Authorise(w, s, step)
             \/ OpenSession(w) \/ Logout(w) \/ Revoke(w)
      PROVE  Counted'
  <2>1. UNCHANGED <<members, tenants, codes>>
    BY <1>2 DEF Login, Authorise, OpenSession, Logout, Revoke, records
  <2>2. \A v \in Workers : Off(v)
    BY <1>0, <1>2 DEF Goes, Login, ToOpen, Authorise, OpenSession, Logout, Revoke, Served, Heading
  <2> QED
    BY <1>1, <2>1, <2>2
<1>3. ASSUME NEW w \in Workers, NEW p \in Secrets,
             \/ \E new \in Secrets : VerifyForPassword(w, p, new)
             \/ \E e \in Emails : VerifyForEmail(w, p, e)
             \/ \E r \in DOMAIN resets : Reset(w, r, p)
      PROVE  Counted'
  <2>1. UNCHANGED <<members, tenants, codes>>
    BY <1>3 DEF VerifyForPassword, VerifyForEmail, Reset, records
  <2>2. \A v \in Workers : Off(v)
    BY <1>0, <1>3 DEF Goes, VerifyForPassword, VerifyForEmail, Reset, Heading
  <2> QED
    BY <1>1, <2>1, <2>2
<1>4. ASSUME NEW w \in Workers, ChangePassword(w) \/ ChangeEmail(w) \/ SpendReset(w) \/ BreakOff(w)
                                \/ \E c \in DOMAIN codes : CheckCode(w, c)
      PROVE  Counted'
  <2>1. UNCHANGED <<members, tenants, codes>>
    BY <1>4 DEF ChangePassword, ChangeEmail, SpendReset, BreakOff, CheckCode, records
  <2>2. \A v \in Workers : Off(v)
    BY <1>0, <1>4 DEF Goes, ChangePassword, ChangeEmail, SpendReset, BreakOff, CheckCode, Served, Heading
  <2> QED
    BY <1>1, <2>1, <2>2
<1>5. ASSUME NEW w \in Workers, ResetPassword(w) PROVE Counted'
  <2>1. call[w] \in Resetting
    BY <1>5, CallOf DEF ResetPassword, At, AccountsInv
  <2>2. [call[w] EXCEPT !.next = "spend"].next = "spend"
    BY <2>1 DEF Resetting
  <2>3. \A v \in Workers : Off(v)
    BY <1>0, <1>5, <2>2 DEF Goes, ResetPassword, Heading
  <2> QED
    BY <1>1, <1>5, <2>3 DEF ResetPassword
<1>6. ASSUME NEW w \in Workers, UseCode(w) \/ LinkNode(w) PROVE Counted'
  <2>1. call[w].code \in DOMAIN codes
    BY <1>6, CallSays DEF UseCode, LinkNode, Refers, At
  <2>2. DOMAIN codes' = DOMAIN codes /\ \A c \in DOMAIN codes : codes'[c].tenant = codes[c].tenant
    BY <1>6, <2>1, CodeClosed DEF UseCode, LinkNode
  <2>4. \A v \in Workers : Off(v)
    BY <1>0, <1>6 DEF Goes, UseCode, LinkNode, Entering, Served, Heading
  <2>5. UNCHANGED <<members, tenants>>
    BY <1>6 DEF UseCode, LinkNode
  <2> QED
    BY <2>2, <2>4, <2>5, CountsStay
<1>7. ASSUME NEW w \in Workers, InsertUser(w) PROVE Counted'
  <2>1. At(w, "account") /\ UNCHANGED <<members, tenants, codes>>
    BY <1>7 DEF InsertUser
  <2>2. \A v \in Workers :
          \/ call'[v] = call[v]
          \/ call'[v].next \in Heading /\ call[v].next \in Heading /\ call'[v].code = call[v].code
    BY <1>7 DEF InsertUser, Goes, AccountsInv, Tables, At, Heading
  <2> QED
    BY <2>1, <2>2, CountsStay
<1>8. ASSUME NEW w \in Workers, NEW e \in Emails, NEW p \in Secrets, NEW t \in DOMAIN tenants,
             RegisterByToken(w, e, p, t)
      PROVE  Counted'
  <2>1. UNCHANGED <<members, codes>> /\ tenants' = [tenants EXCEPT ![t].activated = TRUE]
    BY <1>8 DEF RegisterByToken
  <2>2. \A i \in DOMAIN tenants : tenants[i] \in Tenant
    BY RowOf, CodesAsTheyWere
  <2>3. DOMAIN tenants' = DOMAIN tenants /\ \A i \in DOMAIN tenants : tenants'[i].branches = tenants[i].branches
    BY <2>1, <2>2 DEF Tenant
  <2>4. \A v \in Workers : call'[v] = call[v] \/ (call'[v].next \in Heading /\ call'[v].code = 0)
    BY <1>8 DEF RegisterByToken, Goes, AccountsInv, Tables, Heading
  <2> QED
    BY <2>1, <2>3, <2>4, CountsStay
<1>9. ASSUME \/ \E u \in DOMAIN users : Forgot(u)
             \/ \E s \in DOMAIN sessions : SessionExpires(s)
             \/ Lapse
      PROVE  Counted'
  <2>1. UNCHANGED <<members, tenants, call>>
    BY <1>9 DEF Forgot, SessionExpires, Lapse
  <2>2. DOMAIN codes' = DOMAIN codes /\ \A c \in DOMAIN codes : codes'[c].tenant = codes[c].tenant
    <3>1. ASSUME NEW c \in DOMAIN codes, codes' = [codes EXCEPT ![c].open = FALSE]
          PROVE  DOMAIN codes' = DOMAIN codes /\ \A d \in DOMAIN codes : codes'[d].tenant = codes[d].tenant
      BY <3>1, CodeClosed
    <3> QED
      BY <1>9, <3>1 DEF Forgot, SessionExpires, Lapse
  <2> QED
    BY <2>1, <2>2, CountsStay
<1>10. CASE UNCHANGED accounts
  BY <1>10, CountsStay DEF accounts
<1> QED
  BY <1>2, <1>3, <1>4, <1>5, <1>6, <1>7, <1>8, <1>9, <1>10, LimitCounts, BranchCounts, CodeCounts, MemberCounts,
     BusinessCounts, GenerateCounts DEF AccountsNext

\* With no lock between a check and what it lets by, the branches of a tenant and the
\* accounts of a link code exceed their limits by the calls under way, and no more.
THEOREM ChecksOvershoot == AccountsSpec => []ChecksOvershootByCalls
<1>1. AccountsInv /\ Counted => ChecksOvershootByCalls
  <2> SUFFICES ASSUME AccountsInv, Counted PROVE ChecksOvershootByCalls
    OBVIOUS
  <2>1. \A t \in DOMAIN tenants : tenants[t].branches < MaxBranches + Cardinality(Workers)
    BY Sizes, LimitAssumption DEF Counted
  <2>2. \A c \in DOMAIN codes : Cardinality(By(c)) <= Cardinality(Workers)
    BY Sizes DEF Counted
  <2> QED
    BY <2>1, <2>2 DEF ChecksOvershootByCalls, By
<1>2. AccountsSpec => []Counted
  BY AccountsInvariant, CountedStart, CountedStep, PTL DEF AccountsSpec
<1> QED
  BY <1>1, <1>2, AccountsInvariant, PTL

-----------------------------------------------------------------------------
\* Accounts nobody can enter.
LEMMA OrphansStay ==
  ASSUME AccountsInv, UNCHANGED members,
         \A v \in Workers : call'[v] = call[v] \/ call'[v].next # "join"
  PROVE  \A u \in DOMAIN users : Orphaned(u) => Orphaned(u)'
BY DEF Orphaned, At

LEMMA OrphansStep ==
  AccountsInv /\ [AccountsNext]_accounts => \A u \in DOMAIN users : Orphaned(u) => Orphaned(u)'
<1> SUFFICES ASSUME AccountsInv, [AccountsNext]_accounts
             PROVE  \A u \in DOMAIN users : Orphaned(u) => Orphaned(u)'
  OBVIOUS
<1> DEFINE Off(v) == call'[v] = call[v] \/ call'[v].next # "join"
<1> DEFINE Stay == \A u \in DOMAIN users : Orphaned(u) => Orphaned(u)'
<1>0. call = [v \in Workers |-> call[v]]
  BY DEF AccountsInv, Tables
<1>1. ASSUME UNCHANGED members, \A v \in Workers : Off(v) PROVE Stay
  BY <1>1, OrphansStay
\* A new account has a number nobody had.
<1>2. ASSUME NEW w \in Workers, InsertUser(w) PROVE Stay
  <2>1. /\ UNCHANGED members /\ Len(users) + 1 \notin DOMAIN users
        /\ \A v \in Workers : call'[v] = call[v] \/ call'[v].user = Len(users) + 1
    BY <1>0, <1>2, LenProperties DEF InsertUser, Goes, AccountsInv, Tables
  <2> QED
    BY <2>1 DEF Orphaned, At
<1>3. ASSUME NEW w \in Workers, NEW e \in Emails, NEW p \in Secrets, RegisterBusiness(w, e, p) PROVE Stay
  <2>1. /\ UNCHANGED call /\ Len(users) + 1 \notin DOMAIN users
        /\ \A m \in members' : m \in members \/ m.user = Len(users) + 1
    BY <1>3, LenProperties DEF RegisterBusiness, AccountsInv, Tables
  <2> QED
    BY <2>1 DEF Orphaned, At
\* A membership is made of an account that was being registered.
<1>4. ASSUME NEW w \in Workers, InsertMember(w) PROVE Stay
  <2>1. /\ At(w, "join")
        /\ \A m \in members' : m \in members \/ m.user = call[w].user
    BY <1>4 DEF InsertMember
  <2>2. call[w] \in Joining
    BY <2>1, CallOf DEF AccountsInv, At
  <2>3. [call[w] EXCEPT !.next = "use"].next = "use"
    BY <2>2 DEF Joining
  <2>4. \A v \in Workers : Off(v)
    BY <1>0, <1>4, <2>3 DEF InsertMember, Goes, Entering
  <2> QED
    BY <2>1, <2>4 DEF Orphaned, At
<1>5. ASSUME NEW w \in Workers,
             \/ \E u \in DOMAIN users, p \in Secrets : Login(w, u, p)
             \/ \E s \in DOMAIN sessions, step \in {"verify", "limit", "code", "logout", "revoke"} :
                   Authorise(w, s, step)
             \/ OpenSession(w) \/ Logout(w) \/ Revoke(w)
      PROVE  Stay
  <2>1. UNCHANGED members
    BY <1>5 DEF Login, Authorise, OpenSession, Logout, Revoke, records
  <2>2. \A v \in Workers : Off(v)
    BY <1>0, <1>5 DEF Goes, Login, ToOpen, Authorise, OpenSession, Logout, Revoke, Served
  <2> QED
    BY <1>1, <2>1, <2>2
<1>6. ASSUME NEW w \in Workers, NEW p \in Secrets,
             \/ \E new \in Secrets : VerifyForPassword(w, p, new)
             \/ \E e \in Emails : VerifyForEmail(w, p, e)
             \/ \E r \in DOMAIN resets : Reset(w, r, p)
             \/ \E e \in Emails, c \in DOMAIN codes : RegisterByCode(w, e, p, c)
             \/ \E e \in Emails, t \in DOMAIN tenants : RegisterByToken(w, e, p, t)
      PROVE  Stay
  <2>1. UNCHANGED members
    BY <1>6 DEF VerifyForPassword, VerifyForEmail, Reset, RegisterByCode, RegisterByToken, records
  <2>2. \A v \in Workers : Off(v)
    BY <1>0, <1>6 DEF Goes, VerifyForPassword, VerifyForEmail, Reset, RegisterByCode, RegisterByToken
  <2> QED
    BY <1>1, <2>1, <2>2
<1>7. ASSUME NEW w \in Workers,
             \/ ChangePassword(w) \/ ChangeEmail(w) \/ SpendReset(w) \/ BreakOff(w)
             \/ UseCode(w) \/ InsertBranch(w) \/ LinkNode(w)
             \/ \E c \in DOMAIN codes : CheckCode(w, c)
      PROVE  Stay
  <2>1. UNCHANGED members
    BY <1>7 DEF ChangePassword, ChangeEmail, SpendReset, BreakOff, UseCode, InsertBranch, LinkNode, CheckCode, records
  <2>2. \A v \in Workers : Off(v)
    BY <1>0, <1>7 DEF Goes, ChangePassword, ChangeEmail, SpendReset, BreakOff, UseCode, Entering, InsertBranch, LinkNode,
       CheckCode, Served
  <2> QED
    BY <1>1, <2>1, <2>2
<1>8. ASSUME NEW w \in Workers, ResetPassword(w) \/ CheckLimit(w) PROVE Stay
  <2>1. \A step : [call[w] EXCEPT !.next = step].next = step
    <3>1. call[w] \in Resetting \/ call[w] \in Authorised
      BY <1>8, CallOf DEF ResetPassword, CheckLimit, At, AccountsInv
    <3> QED
      BY <3>1 DEF Resetting, Authorised
  <2>2. \A v \in Workers : Off(v)
    BY <1>0, <1>8, <2>1 DEF Goes, ResetPassword, CheckLimit
  <2> QED
    BY <1>1, <1>8, <2>2 DEF ResetPassword, CheckLimit, records
<1>9. ASSUME \/ \E u \in DOMAIN users : Forgot(u)
             \/ \E t \in DOMAIN tenants : GenerateLinkCode(t)
             \/ \E s \in DOMAIN sessions : SessionExpires(s)
             \/ Lapse
      PROVE  Stay
  BY <1>1, <1>9 DEF Forgot, GenerateLinkCode, SessionExpires, Lapse
<1>10. CASE UNCHANGED accounts
  BY <1>1, <1>10 DEF accounts
<1> HIDE DEF Stay
<1>11. ASSUME NEW w \in Workers, NEW p \in Secrets,
              \/ \E new \in Secrets : VerifyForPassword(w, p, new)
              \/ \E e \in Emails : VerifyForEmail(w, p, e) \/ RegisterBusiness(w, e, p)
              \/ \E r \in DOMAIN resets : Reset(w, r, p)
              \/ \E e \in Emails, c \in DOMAIN codes : RegisterByCode(w, e, p, c)
              \/ \E e \in Emails, t \in DOMAIN tenants : RegisterByToken(w, e, p, t)
       PROVE  Stay
  BY <1>3, <1>6, <1>11
<1>12. ASSUME AccountsNext PROVE Stay
  BY <1>2, <1>4, <1>5, <1>7, <1>8, <1>9, <1>11, <1>12 DEF AccountsNext
<1> QED
  BY <1>10, <1>12 DEF Stay

\* An account without a membership whose registration is no longer under way has
\* none for good: no other handler of the control plane inserts one for it.
THEOREM OrphansRemain == AccountsSpec => OrphanedForGood
<1>1. AccountsInv /\ [AccountsNext]_accounts
        => [\A u \in DOMAIN users : Orphaned(u) => Orphaned(u)']_accounts
  BY OrphansStep
<1> QED
  BY <1>1, AccountsInvariant, PTL DEF AccountsSpec, OrphanedForGood

-----------------------------------------------------------------------------
(* Tunnels                                                                  *)

\* What a call does when it has not given up and has found nothing to return.
Owning == {"token", "look", "point", "config", "activate"}
Ahead == {"create", "error"} \cup Owning

RowType == [token : Nat, status : {"pending", "active", "error"}, activated : BOOLEAN]
AskerType ==
    [at : {"idle", "ensure"} \cup Ahead, branch : Branches \cup {0}, tunnel : Nat, known : BOOLEAN, met : BOOLEAN]

Asking(a) == asker[a].at # "idle"

TunnelsShape ==
    /\ cloudflare \in {"simulate", "zone", "no zone"}
    /\ slug \in [Branches -> Slugs \cup {NoSlug}]
    /\ tunnel \in [Branches -> RowType] /\ tunnel_configs \in [Branches -> Nat]
    /\ made \in Seq(Branches) /\ Len(made) <= MaxTunnels /\ dns \in [Slugs -> Nat]
    /\ asker \in [Askers -> AskerType]
    /\ tangled \subseteq Branches /\ excused \in [Branches -> Nat]
    /\ \A a \in Askers : Asking(a) => Branch(a) \in Branches /\ slug[Branch(a)] # NoSlug
    /\ \A a \in Askers : asker[a].at \in Owning => asker[a].tunnel # NoTunnel

\* Calls for one branch at a time know of each other.
Meet ==
    \A a, c \in Askers : Asking(a) /\ Asking(c) /\ Branch(a) = Branch(c) /\ a # c => asker[a].met

Pending(b) == tunnel[b].status # "active" \/ b \in tangled
LedTo(b, t) == cloudflare = "zone" /\ Namesakes(b) = {} => dns[slug[b]] = t

\* A tunnel that is active and was not tangled is one, and no call is about to make another.
Whole(b) ==
    ~Pending(b) =>
        /\ slug[b] # NoSlug /\ tunnel[b].token # NoTunnel
        /\ tunnel[b].token = tunnel_configs[b] /\ LedTo(b, tunnel[b].token)
        /\ \A a \in Askers : Asking(a) /\ Branch(a) = b => asker[a].at = "ensure"

\* What a call that met none has done so far still stands.
Alone(a) ==
    ~asker[a].met =>
        /\ asker[a].at \in {"config", "activate"} => LedTo(Branch(a), asker[a].tunnel)
        /\ asker[a].at = "activate" => tunnel_configs[Branch(a)] = asker[a].tunnel

\* The tunnels made for a branch: those in use, those that calls are about to use, and
\* those that an excuse was counted for; no more are made than MaxTunnels, so that many
\* excuses are enough.
Mine(b) == {t \in DOMAIN made : made[t] = b}
Makers(b) == {a \in Askers : asker[a].at \in Owning /\ Branch(a) = b}
InUse(b) == IF Pending(b) THEN 0 ELSE 1
MadeCounted(b) ==
    /\ IsFiniteSet(Busy(b))
    /\ excused[b] >= MaxTunnels
       \/ Cardinality(Mine(b)) <= excused[b] + Cardinality(Makers(b)) + InUse(b)

TunnelsInv ==
    /\ TunnelsShape /\ Meet
    /\ \A b \in Branches : Whole(b) /\ MadeCounted(b)
    /\ \A a \in Askers : Alone(a)

\* What a call under way becomes: free again, or at another step for the same branch.
Owns(doing) == IF doing.at \in Owning THEN 1 ELSE 0
GoesOnAs(a, doing) ==
    /\ Becomes(a, doing)
    /\ \/ doing = NoAsker
       \/ /\ doing \in AskerType /\ doing.at # "idle"
          /\ doing.branch = Branch(a) /\ doing.met = asker[a].met
          /\ doing.at \in Owning => doing.tunnel # NoTunnel

LEMMA CallMoves ==
  ASSUME TunnelsShape, Meet, NEW a \in Askers, Asking(a), NEW doing, GoesOnAs(a, doing)
  PROVE  /\ asker' \in [Askers -> AskerType] /\ asker'[a] = doing /\ doing \in AskerType
         /\ \A c \in Askers : c # a => asker'[c] = asker[c]
         /\ \A c \in Askers : Asking(c)' => Asking(c) /\ asker'[c].branch = Branch(c) /\ Branch(c) \in Branches
         /\ \A c \in Askers : asker'[c].at \in Owning => asker'[c].tunnel # NoTunnel
         /\ Meet'
<1>1. doing \in AskerType /\ (doing.at \in Owning => doing.tunnel # NoTunnel)
  <2>1. NoAsker \in AskerType /\ NoAsker.at \notin Owning
    BY DEF NoAsker, AskerType, Ahead, Owning, NoTunnel
  <2> QED
    BY <2>1 DEF GoesOnAs
<1>2. asker' \in [Askers -> AskerType] /\ asker'[a] = doing /\ \A c \in Askers : c # a => asker'[c] = asker[c]
  BY <1>1 DEF GoesOnAs, Becomes, TunnelsShape
<1>3. Asking(a)' => asker'[a].branch = Branch(a) /\ asker'[a].met = asker[a].met
  BY <1>2 DEF GoesOnAs, NoAsker, Asking
<1>4. \A c \in Askers : Asking(c)' => Asking(c) /\ asker'[c].branch = Branch(c) /\ Branch(c) \in Branches
  BY <1>2, <1>3 DEF Asking, Branch, TunnelsShape
<1>5. \A c \in Askers : asker'[c].at \in Owning => asker'[c].tunnel # NoTunnel
  BY <1>1, <1>2 DEF TunnelsShape
<1>6. Meet'
  BY <1>2, <1>3, <1>4 DEF Meet, Asking, Branch
<1> QED
  BY <1>1, <1>2, <1>4, <1>5, <1>6

\* The calls that made a tunnel are finitely many, and change by the one that moves.
LEMMA MakersChange ==
  ASSUME TunnelsShape, Meet, NEW a \in Askers, Asking(a), NEW doing, GoesOnAs(a, doing),
         NEW b \in Branches, IsFiniteSet(Busy(b))
  PROVE  /\ IsFiniteSet(Busy(b)') /\ IsFiniteSet(Makers(b)) /\ IsFiniteSet(Makers(b)')
         /\ Cardinality(Makers(b)) \in Nat /\ Cardinality(Makers(b)') \in Nat
         /\ Cardinality(Makers(b)') =
                IF b = Branch(a) THEN Cardinality(Makers(b)) + Owns(doing) - Owns(asker[a]) ELSE Cardinality(Makers(b))
<1>1. /\ asker'[a] = doing /\ \A c \in Askers : c # a => asker'[c] = asker[c]
      /\ \A c \in Askers : Asking(c)' => Asking(c) /\ asker'[c].branch = Branch(c)
      /\ doing \in AskerType
  BY CallMoves
<1>2. Busy(b)' \subseteq Busy(b)
  BY <1>1 DEF Busy, Asking, Branch
<1>3. Makers(b) \subseteq Busy(b)
  BY DEF Makers, Busy, Branch, Owning
<1>4. IsFiniteSet(Busy(b)') /\ IsFiniteSet(Makers(b)) /\ Cardinality(Makers(b)) \in Nat
  BY <1>2, <1>3, FS_Subset, FS_CardinalityType
<1>5. CASE b # Branch(a)
  <2>1. Makers(b)' = Makers(b)
    <3>1. doing.at \in Owning => doing.branch = Branch(a)
      BY DEF GoesOnAs, NoAsker, Owning
    <3> QED
      BY <1>1, <1>5, <3>1 DEF Makers, Branch
  <2> QED
    BY <1>4, <1>5, <2>1
<1>6. CASE b = Branch(a)
  <2>1. a \in Makers(b) <=> asker[a].at \in Owning
    BY <1>6 DEF Makers
  <2>2. CASE doing.at \in Owning
    <3>1. doing.branch = Branch(a)
      BY <2>2 DEF GoesOnAs, NoAsker, Owning
    <3>2. Makers(b)' = Makers(b) \cup {a}
      BY <1>1, <1>6, <2>2, <3>1 DEF Makers, Branch
    <3>3. IsFiniteSet(Makers(b) \cup {a})
          /\ Cardinality(Makers(b) \cup {a}) = IF a \in Makers(b) THEN Cardinality(Makers(b)) ELSE Cardinality(Makers(b)) + 1
      BY <1>4, FS_AddElement
    <3> QED
      BY <1>4, <1>6, <2>1, <2>2, <3>2, <3>3 DEF Owns
  <2>3. CASE doing.at \notin Owning
    <3>1. Makers(b)' = Makers(b) \ {a}
      BY <1>1, <1>6, <2>3 DEF Makers, Branch
    <3>2. IsFiniteSet(Makers(b) \ {a})
          /\ Cardinality(Makers(b) \ {a}) = IF a \in Makers(b) THEN Cardinality(Makers(b)) - 1 ELSE Cardinality(Makers(b))
      BY <1>4, FS_RemoveElement
    <3>3. Cardinality(Makers(b) \ {a}) \in Nat
      BY <3>2, FS_CardinalityType
    <3> QED
      BY <1>4, <1>6, <2>1, <2>3, <3>1, <3>2, <3>3 DEF Owns
  <2> QED
    BY <2>2, <2>3
<1> QED
  BY <1>4, <1>5, <1>6

LEMMA MadeIs ==
  ASSUME TunnelsShape
  PROVE  /\ Len(made) \in Nat /\ DOMAIN made = 1..Len(made) /\ IsFiniteSet(1..Len(made))
         /\ Cardinality(1..Len(made)) = Len(made) /\ MaxTunnels \in Nat /\ Len(made) <= MaxTunnels
<1>1. made \in Seq(Branches) /\ Len(made) <= MaxTunnels
  BY DEF TunnelsShape
<1>2. Len(made) \in Nat /\ DOMAIN made = 1..Len(made)
  BY <1>1, LenProperties
<1>3. \A n \in Nat : IsFiniteSet(1..n) /\ Cardinality(1..n) = n
  BY FS_Interval
<1>4. MaxTunnels \in Nat
  BY TunnelsAssumption
<1> QED
  BY <1>1, <1>2, <1>3, <1>4

LEMMA MineOf ==
  ASSUME TunnelsShape
  PROVE  \A q \in Branches : /\ Mine(q) \subseteq 1..Len(made) /\ IsFiniteSet(Mine(q))
                             /\ Cardinality(Mine(q)) \in Nat /\ Cardinality(Mine(q)) <= MaxTunnels
<1>1. ASSUME NEW q \in Branches
      PROVE  /\ Mine(q) \subseteq 1..Len(made) /\ IsFiniteSet(Mine(q))
             /\ Cardinality(Mine(q)) \in Nat /\ Cardinality(Mine(q)) <= MaxTunnels
  <2>1. Mine(q) \subseteq 1..Len(made)
    BY MadeIs DEF Mine
  <2>2. IsFiniteSet(Mine(q)) /\ Cardinality(Mine(q)) <= Cardinality(1..Len(made))
    BY <2>1, MadeIs, FS_Subset
  <2>3. Cardinality(Mine(q)) \in Nat
    BY <2>2, FS_CardinalityType
  <2> QED
    BY <2>1, <2>2, <2>3, MadeIs
<1> QED
  BY <1>1

\* A tunnel that is made is one more of its branch.
LEMMA OneMade ==
  ASSUME TunnelsShape, NEW b \in Branches, Len(made) < MaxTunnels, made' = Append(made, b)
  PROVE  /\ made' \in Seq(Branches) /\ Len(made') <= MaxTunnels
         /\ \A q \in Branches : Cardinality(Mine(q)') = Cardinality(Mine(q)) + (IF q = b THEN 1 ELSE 0)
<1>1. made \in Seq(Branches)
  BY DEF TunnelsShape
<1>2. /\ made' \in Seq(Branches) /\ Len(made') = Len(made) + 1
      /\ \A t \in 1..Len(made) : made'[t] = made[t]
      /\ made'[Len(made) + 1] = b
  BY <1>1, AppendProperties
<1>3. DOMAIN made' = 1..(Len(made) + 1)
  BY <1>2, LenProperties
<1>4. ASSUME NEW q \in Branches
      PROVE  Cardinality(Mine(q)') = Cardinality(Mine(q)) + (IF q = b THEN 1 ELSE 0)
  <2>1. /\ IsFiniteSet(Mine(q)) /\ Cardinality(Mine(q)) \in Nat
        /\ Mine(q) \subseteq 1..Len(made) /\ Len(made) \in Nat /\ DOMAIN made = 1..Len(made)
    BY MineOf, MadeIs
  <2>2. Len(made) + 1 \notin Mine(q)
    BY <2>1
  <2>3. CASE q = b
    <3>1. Mine(q)' = Mine(q) \cup {Len(made) + 1}
      BY <1>2, <1>3, <2>1, <2>3 DEF Mine
    <3>2. Cardinality(Mine(q) \cup {Len(made) + 1}) = Cardinality(Mine(q)) + 1
      BY <2>1, <2>2, FS_AddElement
    <3> QED
      BY <2>1, <2>3, <3>1, <3>2
  <2>4. CASE q # b
    <3>1. Mine(q)' = Mine(q)
      BY <1>2, <1>3, <2>1, <2>4 DEF Mine
    <3> QED
      BY <2>1, <2>4, <3>1
  <2> QED
    BY <2>3, <2>4
<1>5. Len(made') <= MaxTunnels
  BY <1>2, MadeIs
<1> QED
  BY <1>2, <1>4, <1>5

LEMMA CountAdds ==
  \A mine, made1, ex, m, owners, use0, use1, o0, o1 \in Nat :
    /\ mine <= ex + owners + use0
    /\ use1 + o1 + m >= use0 + o0 + made1
    => mine + made1 <= (ex + m) + (owners + o1 - o0) + use1
OBVIOUS

\* A call makes n tunnels, counts m excuses, and owns and hands over enough for both.
Balance(a, b, doing, n, m) ==
    InUse(b)' + Owns(doing) + m >= InUse(b) + Owns(asker[a]) + n
Makes(b) == made' = Append(made, b) /\ Len(made) < MaxTunnels
CountStands(a, b, doing) ==
    /\ \A q \in Branches \ {b} : InUse(q)' = InUse(q)
    /\ \/ UNCHANGED <<made, excused>> /\ Balance(a, b, doing, 0, 0)
       \/ UNCHANGED made /\ Excuses(b) /\ Balance(a, b, doing, 0, 1)
       \/ Makes(b) /\ UNCHANGED excused /\ Balance(a, b, doing, 1, 0)
       \/ Makes(b) /\ Excuses(b) /\ Balance(a, b, doing, 1, 1)

\* The count of tunnels stands when a call that made one hands it over or is excused.
LEMMA CountKept ==
  ASSUME TunnelsInv, NEW a \in Askers, Asking(a), NEW b \in Branches, b = Branch(a),
         NEW doing, GoesOnAs(a, doing),
         NEW n \in {0, 1}, n = 0 => made' = made,
         n = 1 => made' = Append(made, b) /\ Len(made) < MaxTunnels,
         NEW m \in {0, 1}, m = 0 => excused' = excused, m = 1 => Excuses(b),
         InUse(b)' + Owns(doing) + m >= InUse(b) + Owns(asker[a]) + n,
         \A q \in Branches \ {b} : InUse(q)' = InUse(q)
  PROVE  /\ \A q \in Branches : MadeCounted(q)'
         /\ excused' \in [Branches -> Nat] /\ made' \in Seq(Branches) /\ Len(made') <= MaxTunnels
<1>1. TunnelsShape /\ Meet /\ \A q \in Branches : MadeCounted(q)
  BY DEF TunnelsInv
<1>2. /\ made' \in Seq(Branches) /\ Len(made') <= MaxTunnels
      /\ \A q \in Branches : Cardinality(Mine(q)') = Cardinality(Mine(q)) + (IF q = b THEN n ELSE 0)
  <2>1. CASE n = 1
    BY <1>1, <2>1, OneMade
  <2>2. CASE n = 0
    <3>1. \A q \in Branches : Mine(q)' = Mine(q) /\ Cardinality(Mine(q)) \in Nat
      BY <1>1, <2>2, MineOf DEF Mine
    <3>2. made' \in Seq(Branches) /\ Len(made') <= MaxTunnels
      BY <1>1, <2>2 DEF TunnelsShape
    <3> QED
      BY <2>2, <3>1, <3>2
  <2> QED
    BY <2>1, <2>2
<1>3. MaxTunnels \in Nat /\ excused \in [Branches -> Nat]
  BY <1>1, MadeIs DEF TunnelsShape
<1>4. /\ excused' \in [Branches -> Nat]
      /\ \A q \in Branches : q # b => excused'[q] = excused[q]
      /\ excused'[b] = excused[b] + m \/ (excused[b] >= MaxTunnels /\ excused'[b] = excused[b])
  <2>1. CASE m = 0
    BY <1>3, <2>1
  <2>2. CASE m = 1
    BY <1>3, <2>2 DEF Excuses
  <2> QED
    BY <2>1, <2>2
<1>5. \A q \in Branches : /\ excused[q] \in Nat /\ Cardinality(Mine(q)) \in Nat
                          /\ InUse(q) \in {0, 1} /\ InUse(q)' \in {0, 1}
  BY <1>1, <1>3, MineOf DEF InUse
<1>6. Owns(doing) \in {0, 1} /\ Owns(asker[a]) \in {0, 1}
  BY DEF Owns
<1>7. ASSUME NEW q \in Branches PROVE MadeCounted(q)'
  <2>1. /\ IsFiniteSet(Busy(q)') /\ Cardinality(Makers(q)) \in Nat /\ Cardinality(Makers(q)') \in Nat
        /\ Cardinality(Makers(q)') =
                IF q = b THEN Cardinality(Makers(q)) + Owns(doing) - Owns(asker[a]) ELSE Cardinality(Makers(q))
    BY <1>1, MakersChange DEF MadeCounted
  <2>2. CASE excused[q] >= MaxTunnels
    <3>1. excused'[q] >= MaxTunnels
      BY <1>3, <1>4, <1>5, <2>2
    <3> QED
      BY <2>1, <3>1 DEF MadeCounted
  <2>3. CASE ~(excused[q] >= MaxTunnels)
    <3>1. Cardinality(Mine(q)) <= excused[q] + Cardinality(Makers(q)) + InUse(q)
      BY <1>1, <2>3 DEF MadeCounted
    <3>2. CASE q = b
      <4>1. excused'[q] = excused[q] + m
        BY <1>4, <2>3, <3>2
      <4>3. InUse(q)' + Owns(doing) + m >= InUse(q) + Owns(asker[a]) + n
        BY <3>2 DEF InUse, Pending
      <4>4. Cardinality(Mine(q)') = Cardinality(Mine(q)) + n /\ Cardinality(Mine(q)) \in Nat
        BY <1>2, <1>5, <3>2
      <4>5. Cardinality(Makers(q)') = Cardinality(Makers(q)) + Owns(doing) - Owns(asker[a])
        BY <2>1, <3>2
      <4>6. /\ excused[q] \in Nat /\ InUse(q) \in Nat /\ InUse(q)' \in Nat /\ m \in Nat /\ n \in Nat
            /\ Cardinality(Makers(q)) \in Nat /\ Owns(doing) \in Nat /\ Owns(asker[a]) \in Nat
        BY <1>5, <1>6, <2>1
      <4>7. Cardinality(Mine(q)) + n
              <= (excused[q] + m) + (Cardinality(Makers(q)) + Owns(doing) - Owns(asker[a])) + InUse(q)'
        BY ONLY <3>1, <4>3, <4>4, <4>6, CountAdds
      <4>2. Cardinality(Mine(q)') <= excused'[q] + Cardinality(Makers(q)') + InUse(q)'
        BY ONLY <4>1, <4>4, <4>5, <4>7
      <4> QED
        BY <2>1, <4>2 DEF MadeCounted
    <3>3. CASE q # b
      <4>1. InUse(q)' = InUse(q) /\ excused'[q] = excused[q]
        BY <1>4, <3>3
      <4>3. Cardinality(Mine(q)') = Cardinality(Mine(q)) /\ Cardinality(Mine(q)) \in Nat
        BY <1>2, <1>5, <3>3
      <4>4. Cardinality(Makers(q)') = Cardinality(Makers(q))
        BY <2>1, <3>3
      <4>2. Cardinality(Mine(q)') <= excused'[q] + Cardinality(Makers(q)') + InUse(q)'
        BY <1>5, <2>1, <3>1, <4>1, <4>3, <4>4
      <4> QED
        BY <2>1, <4>2 DEF MadeCounted
    <3> QED
      BY <3>2, <3>3
  <2> QED
    BY <2>2, <2>3
<1> QED
  BY <1>2, <1>4, <1>7

LEMMA CountStandsKept ==
  ASSUME TunnelsInv, NEW a \in Askers, Asking(a), NEW b \in Branches, b = Branch(a),
         NEW doing, GoesOnAs(a, doing), CountStands(a, b, doing)
  PROVE  /\ \A q \in Branches : MadeCounted(q)'
         /\ excused' \in [Branches -> Nat] /\ made' \in Seq(Branches) /\ Len(made') <= MaxTunnels
<1>1. \A q \in Branches \ {b} : InUse(q)' = InUse(q)
  BY DEF CountStands
<1>2. CASE UNCHANGED <<made, excused>> /\ Balance(a, b, doing, 0, 0)
  BY <1>1, <1>2, CountKept DEF Balance
<1>3. CASE UNCHANGED made /\ Excuses(b) /\ Balance(a, b, doing, 0, 1)
  BY <1>1, <1>3, CountKept DEF Balance
<1>4. CASE Makes(b) /\ UNCHANGED excused /\ Balance(a, b, doing, 1, 0)
  BY <1>1, <1>4, CountKept DEF Balance, Makes
<1>5. CASE Makes(b) /\ Excuses(b) /\ Balance(a, b, doing, 1, 1)
  BY <1>1, <1>5, CountKept DEF Balance, Makes
<1> QED
  BY <1>2, <1>3, <1>4, <1>5 DEF CountStands

\* Pointing the name of one branch leaves the names that others have to themselves.
LEMMA LedElsewhere ==
  ASSUME TunnelsShape, NEW b \in Branches, NEW q \in Branches, q # b, slug[q] # NoSlug, NEW t, NEW u,
         dns' = dns \/ dns' = [dns EXCEPT ![slug[b]] = t], UNCHANGED <<cloudflare, slug>>, LedTo(q, u)
  PROVE  LedTo(q, u)'
<1>1. Namesakes(q)' = Namesakes(q)
  BY DEF Namesakes
<1>2. CASE Namesakes(q) = {}
  <2>1. slug[q] # slug[b] /\ slug[q] \in Slugs
    BY <1>2 DEF Namesakes, TunnelsShape
  <2>2. dns'[slug[q]] = dns[slug[q]]
    BY <2>1 DEF TunnelsShape
  <2> QED
    BY <1>1, <2>2 DEF LedTo
<1> QED
  BY <1>1, <1>2 DEF LedTo

LEMMA CallKeeps ==
  ASSUME TunnelsInv, NEW a \in Askers, Asking(a), NEW b \in Branches, b = Branch(a),
         NEW doing, GoesOnAs(a, doing), CountStands(a, b, doing), UNCHANGED <<cloudflare, slug>>,
         tunnel' \in [Branches -> RowType], tunnel_configs' \in [Branches -> Nat],
         dns' = dns \/ dns' = Pointed(a), tangled' \subseteq Branches,
         \A q \in Branches \ {b} : /\ tunnel'[q] = tunnel[q] /\ tunnel_configs'[q] = tunnel_configs[q]
                                   /\ q \in tangled' <=> q \in tangled,
         Whole(b)', Alone(a)'
  PROVE  TunnelsInv'
<1>1. TunnelsShape /\ Meet
  BY DEF TunnelsInv
<1>2. /\ asker' \in [Askers -> AskerType] /\ asker'[a] = doing
      /\ \A c \in Askers : c # a => asker'[c] = asker[c]
      /\ \A c \in Askers : Asking(c)' => Asking(c) /\ asker'[c].branch = Branch(c) /\ Branch(c) \in Branches
      /\ \A c \in Askers : asker'[c].at \in Owning => asker'[c].tunnel # NoTunnel
      /\ Meet'
  BY <1>1, CallMoves
<1>3. /\ \A q \in Branches : MadeCounted(q)'
      /\ excused' \in [Branches -> Nat] /\ made' \in Seq(Branches) /\ Len(made') <= MaxTunnels
  BY CountStandsKept
<1>4. dns' \in [Slugs -> Nat]
  <2>1. asker[a].tunnel \in Nat
    BY <1>1 DEF TunnelsShape, AskerType
  <2> QED
    BY <1>1, <2>1 DEF Pointed, TunnelsShape
<1>5. TunnelsShape'
  <2>1. \A c \in Askers : Asking(c)' => asker'[c].branch \in Branches /\ slug'[asker'[c].branch] # NoSlug
    BY ZenonT(40), <1>1, <1>2 DEF TunnelsShape
  <2> QED
    BY <1>1, <1>2, <1>3, <1>4, <2>1 DEF TunnelsShape, Branch
<1>6. ASSUME NEW q \in Branches, q # b, slug[q] # NoSlug, NEW u, LedTo(q, u) PROVE LedTo(q, u)'
  BY <1>1, <1>6, LedElsewhere DEF Pointed
<1>7. ASSUME NEW q \in Branches PROVE Whole(q)'
  <2>1. CASE q # b
    <3>1. tunnel'[q] = tunnel[q] /\ tunnel_configs'[q] = tunnel_configs[q] /\ (Pending(q)' <=> Pending(q))
      BY <2>1 DEF Pending
    <3>2. SUFFICES ASSUME ~Pending(q)
          PROVE  /\ slug'[q] # NoSlug /\ tunnel'[q].token # NoTunnel
                 /\ tunnel'[q].token = tunnel_configs'[q] /\ LedTo(q, tunnel[q].token)'
                 /\ \A c \in Askers : Asking(c)' /\ asker'[c].branch = q => asker'[c].at = "ensure"
      BY <3>1 DEF Whole, Branch, LedTo
    <3>3. /\ slug[q] # NoSlug /\ tunnel[q].token # NoTunnel
          /\ tunnel[q].token = tunnel_configs[q] /\ LedTo(q, tunnel[q].token)
          /\ \A c \in Askers : Asking(c) /\ Branch(c) = q => asker[c].at = "ensure"
      BY <3>2 DEF Whole, TunnelsInv
    <3>4. LedTo(q, tunnel[q].token)'
      BY <1>6, <2>1, <3>3, <3>1 DEF LedTo
    <3>5. \A c \in Askers : Asking(c)' /\ asker'[c].branch = q => asker'[c].at = "ensure"
      BY <1>2, <2>1, <3>3
    <3> QED
      BY <3>1, <3>3, <3>4, <3>5
  <2> QED
    BY <2>1
<1>8. ASSUME NEW c \in Askers PROVE Alone(c)'
  <2>1. CASE c # a /\ Asking(c) /\ Branch(c) # b
    <3>1. asker'[c] = asker[c] /\ Branch(c) \in Branches /\ slug[Branch(c)] # NoSlug /\ Alone(c)
      BY <1>1, <1>2, <2>1 DEF TunnelsShape, TunnelsInv
    <3>2. tunnel_configs'[Branch(c)] = tunnel_configs[Branch(c)]
      BY <2>1, <3>1
    <3>3. PICK q \in Branches : q = Branch(c)
      BY <3>1
    <3>4. PICK u : u = asker[c].tunnel
      OBVIOUS
    <3>5. LedTo(q, u) => LedTo(q, u)'
      BY <1>6, <2>1, <3>1, <3>3
    <3>6. asker'[c].branch = q /\ asker'[c].tunnel = u
      BY <3>1, <3>3, <3>4 DEF Branch
    <3> QED
      BY <3>1, <3>2, <3>3, <3>4, <3>5, <3>6 DEF Alone, LedTo, Branch, Namesakes
  <2>2. CASE c # a /\ Asking(c) /\ Branch(c) = b
    <3>1. asker[c].met /\ asker'[c] = asker[c]
      BY <1>1, <1>2, <2>2 DEF Meet
    <3> QED
      BY <3>1 DEF Alone
  <2>3. CASE c # a /\ ~Asking(c)
    <3>1. asker'[c] = asker[c] /\ asker[c].at = "idle"
      BY <1>2, <2>3 DEF Asking
    <3> QED
      BY <3>1 DEF Alone
  <2> QED
    BY <2>1, <2>2, <2>3
<1> QED
  BY <1>2, <1>3, <1>5, <1>7, <1>8 DEF TunnelsInv

\* A call that is past ensure's first statement serves a branch with nothing whole to break.
LEMMA PastEnsure ==
  ASSUME TunnelsInv, NEW a \in Askers, asker[a].at \in Ahead
  PROVE  Asking(a) /\ Branch(a) \in Branches /\ Pending(Branch(a)) /\ InUse(Branch(a)) = 0
<1>1. asker[a].at # "idle" /\ asker[a].at # "ensure"
  BY DEF Ahead, Owning
<1>2. Asking(a) /\ Branch(a) \in Branches
  BY <1>1 DEF Asking, TunnelsInv, TunnelsShape
<1>3. Pending(Branch(a))
  BY <1>1, <1>2 DEF TunnelsInv, Whole
<1> QED
  BY <1>2, <1>3 DEF InUse

LEMMA CallTo ==
  ASSUME TunnelsInv, NEW a \in Askers, Asking(a), NEW at \in Ahead, Proceeds(a, at),
         at \in Owning => asker[a].tunnel # NoTunnel
  PROVE  \E doing : /\ GoesOnAs(a, doing) /\ asker'[a] = doing /\ doing.at = at /\ doing.branch = Branch(a)
                   /\ doing.tunnel = asker[a].tunnel /\ doing.met = asker[a].met
<1> DEFINE doing == [asker[a] EXCEPT !.at = at]
<1>1. asker \in [Askers -> AskerType]
  BY DEF TunnelsInv, TunnelsShape
<1>2. asker[a] \in AskerType
  BY <1>1
<1>3. /\ doing \in AskerType /\ doing.at = at /\ doing.branch = Branch(a)
      /\ doing.tunnel = asker[a].tunnel /\ doing.met = asker[a].met
  BY <1>2 DEF AskerType, Branch
<1>4. doing.at # "idle"
  BY <1>3 DEF Ahead, Owning
<1>5. Becomes(a, doing)
  BY DEF Proceeds
<1> HIDE DEF doing
<1>6. asker'[a] = doing
  BY <1>1, <1>5 DEF Becomes
<1>7. GoesOnAs(a, doing)
  BY <1>3, <1>4, <1>5 DEF GoesOnAs
<1> QED
  BY <1>3, <1>6, <1>7

\* A call that is done is free again.
LEMMA CallDone ==
  ASSUME TunnelsInv, NEW a \in Askers, Done(a)
  PROVE  /\ GoesOnAs(a, NoAsker) /\ asker'[a] = NoAsker /\ asker'[a].at = "idle" /\ Owns(NoAsker) = 0
         /\ Alone(a)'
<1>1. asker'[a] = NoAsker /\ NoAsker.at = "idle"
  BY DEF TunnelsInv, TunnelsShape, Done, Becomes, NoAsker
<1>2. Alone(a)'
  BY <1>1 DEF Alone
<1> QED
  BY <1>1, <1>2 DEF Done, GoesOnAs, Owns, Owning

LEMMA EnsureKeeps ==
  ASSUME TunnelsInv, NEW a \in Askers, ensure_tunnel_provisioned(a)
  PROVE  TunnelsInv'
<1>1. Asking(a) /\ asker[a].at = "ensure" /\ Branch(a) \in Branches
  BY DEF ensure_tunnel_provisioned, Reached, Asking, TunnelsInv, TunnelsShape
<1>2. PICK b \in Branches : b = Branch(a)
  BY <1>1
<1>3. /\ UNCHANGED <<cloudflare, slug, tunnel, tunnel_configs, dns, made, tangled, excused>>
      /\ tunnel \in [Branches -> RowType] /\ tunnel_configs \in [Branches -> Nat] /\ tangled \subseteq Branches
      /\ Whole(b) /\ Meet
  BY DEF ensure_tunnel_provisioned, cloudflares, noted, TunnelsInv, TunnelsShape
<1>4. \A q \in Branches : InUse(q)' = InUse(q) /\ (Pending(q)' <=> Pending(q))
  BY <1>3 DEF InUse, Pending
<1>5. Owns(asker[a]) = 0 /\ InUse(b) \in {0, 1}
  BY <1>1 DEF Owns, Owning, InUse
<1>6. ASSUME NEW doing, GoesOnAs(a, doing), Owns(doing) = 0 PROVE CountStands(a, b, doing)
  BY <1>3, <1>4, <1>5, <1>6 DEF CountStands, Balance
<1>7. CASE Done(a)
  <2>1. Whole(b)'
    <3>1. \A c \in Askers : Asking(c)' => Asking(c) /\ asker'[c] = asker[c]
      BY <1>7, CallDone DEF Done, Becomes, TunnelsInv, TunnelsShape, Asking
    <3> QED
      BY <1>3, <1>4, <3>1 DEF Whole, LedTo, Namesakes, Branch
  <2>2. GoesOnAs(a, NoAsker) /\ Owns(NoAsker) = 0 /\ Alone(a)'
    BY <1>7, CallDone
  <2> QED
    BY <1>1, <1>2, <1>3, <1>6, <2>1, <2>2, CallKeeps
<1>8. CASE ~(tunnel[Branch(a)].token # NoTunnel /\ tunnel[Branch(a)].status = "active") /\ Proceeds(a, "create")
  <2>1. Pending(b)
    BY <1>2, <1>3, <1>8 DEF Whole, Pending
  <2>2. Whole(b)'
    BY <1>4, <2>1 DEF Whole
  <2>3. PICK doing : /\ GoesOnAs(a, doing) /\ asker'[a] = doing /\ doing.at = "create"
    BY <1>1, <1>8, CallTo DEF Ahead, Owning
  <2>4. Owns(doing) = 0 /\ Alone(a)'
    BY <2>3 DEF Owns, Owning, Alone
  <2> QED
    BY <1>1, <1>2, <1>3, <1>6, <2>2, <2>3, <2>4, CallKeeps
<1> QED
  BY <1>7, <1>8 DEF ensure_tunnel_provisioned

\* The steps of a call that leave its branch pending.
LEMMA PendingKeeps ==
  ASSUME TunnelsInv, NEW a \in Askers, asker[a].at \in Ahead, NEW b \in Branches, b = Branch(a),
         NEW doing, GoesOnAs(a, doing), UNCHANGED <<cloudflare, slug, tangled>>,
         \/ UNCHANGED <<made, excused>> /\ Owns(doing) >= Owns(asker[a])
         \/ UNCHANGED made /\ Excuses(b)
         \/ Makes(b) /\ UNCHANGED excused /\ Owns(doing) > Owns(asker[a])
         \/ Makes(b) /\ Excuses(b) /\ Owns(doing) >= Owns(asker[a]),
         tunnel' = tunnel \/ RowBecomes(b, [tunnel[b] EXCEPT !.status = "error"]),
         tunnel_configs' \in [Branches -> Nat],
         \A q \in Branches \ {b} : tunnel_configs'[q] = tunnel_configs[q],
         dns' = dns \/ dns' = Pointed(a), Alone(a)'
  PROVE  TunnelsInv'
<1>1. Asking(a) /\ Pending(b) /\ InUse(b) = 0
  BY PastEnsure
<1>2. /\ tunnel \in [Branches -> RowType] /\ tangled \subseteq Branches
  BY DEF TunnelsInv, TunnelsShape
<1>3. tunnel' \in [Branches -> RowType] /\ tunnel'[b].status \in {"error", tunnel[b].status}
      /\ \A q \in Branches \ {b} : tunnel'[q] = tunnel[q]
  <2> DEFINE row == [tunnel[b] EXCEPT !.status = "error"]
  <2>1. tunnel[b] \in RowType
    BY <1>2
  <2>2. row \in RowType /\ row.status = "error"
    BY <2>1 DEF RowType
  <2> HIDE DEF row
  <2>3. CASE RowBecomes(b, row)
    BY <1>2, <2>2, <2>3 DEF RowBecomes
  <2>4. CASE tunnel' = tunnel
    BY <1>2, <2>4
  <2> QED
    BY <2>3, <2>4 DEF row
<1>4. Pending(b)' /\ InUse(b)' = 0 /\ Whole(b)'
  BY <1>1, <1>3 DEF Pending, InUse, Whole
<1>5. \A q \in Branches \ {b} : InUse(q)' = InUse(q)
  BY <1>3 DEF Pending, InUse
<1>6. Owns(doing) \in {0, 1} /\ Owns(asker[a]) \in {0, 1}
  BY DEF Owns
<1>7. CountStands(a, b, doing)
  BY <1>1, <1>4, <1>5, <1>6 DEF CountStands, Balance
<1> QED
  BY <1>1, <1>2, <1>3, <1>4, <1>7, CallKeeps

LEMMA CreateKeeps ==
  ASSUME TunnelsInv, NEW a \in Askers, provision_tunnel(a)
  PROVE  TunnelsInv'
<1> DEFINE doing == [asker[a] EXCEPT !.at = IF cloudflare = "simulate" THEN "config" ELSE "token",
                                    !.tunnel = Len(made) + 1]
<1>1. asker[a].at = "create" /\ asker[a].at \in Ahead /\ Asking(a) /\ Branch(a) \in Branches
  BY DEF provision_tunnel, Reached, Ahead, Asking, TunnelsInv, TunnelsShape
<1>2. PICK b \in Branches : b = Branch(a)
  BY <1>1
<1>3. /\ UNCHANGED <<cloudflare, slug, tangled, excused, tunnel, tunnel_configs, dns>>
      /\ Makes(b) /\ tunnel_configs \in [Branches -> Nat] /\ asker \in [Askers -> AskerType]
  BY <1>2 DEF provision_tunnel, noted, Makes, TunnelsInv, TunnelsShape
<1>4. Len(made) + 1 \in Nat /\ Len(made) + 1 # NoTunnel
  BY MadeIs DEF TunnelsInv, NoTunnel
<1>5. asker[a] \in AskerType
  BY <1>3
<1>6. /\ doing \in AskerType /\ doing.branch = Branch(a) /\ doing.met = asker[a].met
      /\ doing.at \in Owning /\ doing.tunnel # NoTunnel /\ doing.at # "idle" /\ doing.at # "activate"
      /\ doing.at = "config" => cloudflare = "simulate"
  BY <1>4, <1>5 DEF AskerType, Branch, Ahead, Owning
<1>7. Becomes(a, doing)
  BY DEF provision_tunnel
<1> HIDE DEF doing
<1>8. GoesOnAs(a, doing) /\ asker'[a] = doing
  BY <1>3, <1>6, <1>7 DEF GoesOnAs, Becomes
<1>9. Owns(doing) = 1 /\ Owns(asker[a]) = 0
  BY <1>1, <1>6 DEF Owns, Owning
<1>10. Alone(a)'
  BY <1>3, <1>6, <1>8 DEF Alone, LedTo
<1> QED
  BY <1>1, <1>2, <1>3, <1>8, <1>9, <1>10, PendingKeeps

LEMMA TokenKeeps ==
  ASSUME TunnelsInv, NEW a \in Askers, GetsToken(a)
  PROVE  TunnelsInv'
<1>1. asker[a].at = "token" /\ asker[a].at \in Ahead /\ Asking(a) /\ Branch(a) \in Branches /\ asker[a].tunnel # NoTunnel
  BY DEF GetsToken, Reached, Ahead, Owning, Asking, TunnelsInv, TunnelsShape
<1>2. PICK b \in Branches : b = Branch(a)
  BY <1>1
<1>3. /\ UNCHANGED <<cloudflare, slug, tangled, excused, tunnel, tunnel_configs, dns, made>>
      /\ tunnel_configs \in [Branches -> Nat]
  BY DEF GetsToken, noted, cloudflares, TunnelsInv, TunnelsShape
<1>4. PICK at \in {"look", "config"} : Proceeds(a, at) /\ (at = "config" => cloudflare # "zone")
  BY DEF GetsToken
<1>5. at \in Ahead
  BY DEF Ahead, Owning
<1>6. PICK doing : GoesOnAs(a, doing) /\ asker'[a] = doing /\ doing.at = at
  BY <1>1, <1>4, <1>5, CallTo
<1>7. Owns(doing) = 1 /\ Owns(asker[a]) = 1
  BY <1>1, <1>6 DEF Owns, Owning
<1>8. Alone(a)'
  BY <1>3, <1>4, <1>6 DEF Alone, LedTo
<1> QED
  BY <1>1, <1>2, <1>3, <1>6, <1>7, <1>8, PendingKeeps

LEMMA LookKeeps ==
  ASSUME TunnelsInv, NEW a \in Askers, LooksUpRecord(a)
  PROVE  TunnelsInv'
<1> DEFINE doing == [asker[a] EXCEPT !.at = "point", !.known = dns[slug[Branch(a)]] # NoTunnel]
<1>1. asker[a].at = "look" /\ asker[a].at \in Ahead /\ Asking(a) /\ Branch(a) \in Branches /\ asker[a].tunnel # NoTunnel
  BY DEF LooksUpRecord, Reached, Ahead, Owning, Asking, TunnelsInv, TunnelsShape
<1>2. PICK b \in Branches : b = Branch(a)
  BY <1>1
<1>3. /\ UNCHANGED <<cloudflare, slug, tangled, excused, tunnel, tunnel_configs, dns, made>>
      /\ tunnel_configs \in [Branches -> Nat] /\ asker \in [Askers -> AskerType]
  BY DEF LooksUpRecord, noted, cloudflares, TunnelsInv, TunnelsShape
<1>4. asker[a] \in AskerType
  BY <1>3
<1>5. (dns[slug[Branch(a)]] # NoTunnel) \in BOOLEAN
  OBVIOUS
<1>6. /\ doing \in AskerType /\ doing.branch = Branch(a) /\ doing.met = asker[a].met
      /\ doing.at = "point" /\ doing.tunnel = asker[a].tunnel
  BY <1>4, <1>5 DEF AskerType, Branch, Ahead, Owning
<1>7. Becomes(a, doing)
  BY DEF LooksUpRecord
<1> HIDE DEF doing
<1>8. GoesOnAs(a, doing) /\ asker'[a] = doing
  BY <1>1, <1>3, <1>6, <1>7 DEF GoesOnAs, Becomes
<1>9. Owns(doing) = 1 /\ Owns(asker[a]) = 1
  BY <1>1, <1>6 DEF Owns, Owning
<1>10. Alone(a)'
  BY <1>6, <1>8 DEF Alone
<1> QED
  BY <1>1, <1>2, <1>3, <1>8, <1>9, <1>10, PendingKeeps

LEMMA PointKeeps ==
  ASSUME TunnelsInv, NEW a \in Askers, ensure_dns_record(a)
  PROVE  TunnelsInv'
<1>1. asker[a].at = "point" /\ asker[a].at \in Ahead /\ Asking(a) /\ Branch(a) \in Branches /\ asker[a].tunnel # NoTunnel
  BY DEF ensure_dns_record, Reached, Ahead, Owning, Asking, TunnelsInv, TunnelsShape
<1>2. PICK b \in Branches : b = Branch(a)
  BY <1>1
<1>3. /\ UNCHANGED <<cloudflare, slug, tangled, excused, tunnel, tunnel_configs, made>>
      /\ tunnel_configs \in [Branches -> Nat] /\ dns' = Pointed(a)
  BY DEF ensure_dns_record, noted, TunnelsInv, TunnelsShape
<1>4. PICK doing : /\ GoesOnAs(a, doing) /\ asker'[a] = doing /\ doing.at = "config"
                  /\ doing.tunnel = asker[a].tunnel /\ doing.branch = Branch(a)
  BY <1>1, CallTo DEF ensure_dns_record, Ahead, Owning
<1>5. Owns(doing) = 1 /\ Owns(asker[a]) = 1
  BY <1>1, <1>4 DEF Owns, Owning
<1>6. dns'[slug[b]] = asker[a].tunnel
  <2>1. slug[b] \in Slugs /\ dns \in [Slugs -> Nat]
    BY <1>1, <1>2 DEF TunnelsInv, TunnelsShape
  <2> QED
    BY <1>2, <1>3, <2>1 DEF Pointed
<1>7. Alone(a)'
  BY <1>2, <1>3, <1>4, <1>6 DEF Alone, LedTo, Branch
<1> QED
  BY <1>1, <1>2, <1>3, <1>4, <1>5, <1>7, PendingKeeps

LEMMA FailKeeps ==
  ASSUME TunnelsInv, NEW a \in Askers, RequestFails(a)
  PROVE  TunnelsInv'
<1>1. /\ asker[a].at \in {"create", "token", "look", "point"} /\ asker[a].at \in Ahead
      /\ Asking(a) /\ Branch(a) \in Branches
  BY DEF RequestFails, Ahead, Owning, Asking, TunnelsInv, TunnelsShape
<1>2. PICK b \in Branches : b = Branch(a)
  BY <1>1
<1>3. /\ UNCHANGED <<cloudflare, slug, tangled, tunnel, tunnel_configs>>
      /\ tunnel_configs \in [Branches -> Nat] /\ (dns' = dns \/ dns' = Pointed(a))
      /\ (made' = made \/ (asker[a].at = "create" /\ Makes(b)))
      /\ IF asker[a].at = "create" /\ made' = made THEN UNCHANGED excused ELSE Excuses(b)
  BY <1>2 DEF RequestFails, Reached, Makes, noted, TunnelsInv, TunnelsShape
<1>4. PICK doing : /\ GoesOnAs(a, doing) /\ asker'[a] = doing /\ doing.at = "error"
  BY <1>1, CallTo DEF RequestFails, Ahead, Owning
<1>5. Owns(doing) = 0 /\ (asker[a].at = "create" => Owns(asker[a]) = 0)
  BY <1>1, <1>4 DEF Owns, Owning
<1>6. Alone(a)'
  BY <1>4 DEF Alone
<1>7. \/ UNCHANGED <<made, excused>> /\ Owns(doing) >= Owns(asker[a])
      \/ UNCHANGED made /\ Excuses(b)
      \/ Makes(b) /\ Excuses(b) /\ Owns(doing) >= Owns(asker[a])
  BY <1>3, <1>5
<1> QED
  BY <1>1, <1>2, <1>3, <1>4, <1>6, <1>7, PendingKeeps

LEMMA ErrorKeeps ==
  ASSUME TunnelsInv, NEW a \in Askers, NotesError(a)
  PROVE  TunnelsInv'
<1>1. asker[a].at = "error" /\ asker[a].at \in Ahead /\ Asking(a) /\ Branch(a) \in Branches
  BY DEF NotesError, Reached, Ahead, Asking, TunnelsInv, TunnelsShape
<1>2. PICK b \in Branches : b = Branch(a)
  BY <1>1
<1>3. /\ UNCHANGED <<cloudflare, slug, tangled, tunnel_configs, dns, made, excused>> /\ tunnel_configs \in [Branches -> Nat]
      /\ RowBecomes(b, [tunnel[b] EXCEPT !.status = "error"]) /\ Done(a)
  BY <1>2 DEF NotesError, cloudflares, TunnelsInv, TunnelsShape
<1>4. GoesOnAs(a, NoAsker) /\ Owns(NoAsker) = 0 /\ Alone(a)' /\ Owns(asker[a]) = 0
  BY <1>1, <1>3, CallDone DEF Owns, Owning
<1> QED
  BY <1>1, <1>2, <1>3, <1>4, PendingKeeps

LEMMA UpsertKeeps ==
  ASSUME TunnelsInv, NEW a \in Askers, UpsertsConfig(a)
  PROVE  TunnelsInv'
<1>1. asker[a].at = "config" /\ asker[a].at \in Ahead /\ Asking(a) /\ Branch(a) \in Branches /\ asker[a].tunnel # NoTunnel
  BY DEF UpsertsConfig, Reached, Ahead, Owning, Asking, TunnelsInv, TunnelsShape
<1>2. PICK b \in Branches : b = Branch(a)
  BY <1>1
<1>3. /\ UNCHANGED <<cloudflare, slug, tangled, excused, tunnel, dns, made>>
      /\ tunnel_configs \in [Branches -> Nat] /\ asker[a] \in AskerType /\ Alone(a)
      /\ tunnel_configs' = [tunnel_configs EXCEPT ![b] = asker[a].tunnel]
  BY <1>2 DEF UpsertsConfig, cloudflares, TunnelsInv, TunnelsShape
<1>4. PICK doing : /\ GoesOnAs(a, doing) /\ asker'[a] = doing /\ doing.at = "activate"
                  /\ doing.tunnel = asker[a].tunnel /\ doing.branch = Branch(a) /\ doing.met = asker[a].met
  BY <1>1, CallTo DEF UpsertsConfig, Ahead, Owning
<1>5. Owns(doing) = 1 /\ Owns(asker[a]) = 1
  BY <1>1, <1>4 DEF Owns, Owning
<1>6. /\ tunnel_configs' \in [Branches -> Nat] /\ tunnel_configs'[b] = asker[a].tunnel
      /\ \A q \in Branches \ {b} : tunnel_configs'[q] = tunnel_configs[q]
  BY <1>3 DEF AskerType
<1>7. Alone(a)'
  BY <1>1, <1>2, <1>3, <1>4, <1>6 DEF Alone, LedTo, Branch, Namesakes
<1> QED
  BY <1>1, <1>2, <1>3, <1>4, <1>5, <1>6, <1>7, PendingKeeps

LEMMA ActivateKeeps ==
  ASSUME TunnelsInv, NEW a \in Askers, Activates(a)
  PROVE  TunnelsInv'
<1>1. /\ asker[a].at = "activate" /\ asker[a].at \in Ahead /\ Asking(a) /\ Branch(a) \in Branches
      /\ asker[a].tunnel # NoTunnel /\ slug[Branch(a)] # NoSlug
  BY DEF Activates, Reached, Ahead, Owning, Asking, TunnelsInv, TunnelsShape
<1>2. PICK b \in Branches : b = Branch(a)
  BY <1>1
<1> DEFINE row == [tunnel[b] EXCEPT !.token = asker[a].tunnel, !.status = "active"]
<1>3. /\ UNCHANGED <<cloudflare, slug, tunnel_configs, dns, made>> /\ RowBecomes(b, row) /\ Done(a)
      /\ tangled' = (IF asker[a].met THEN tangled \cup {b} ELSE tangled \ {b})
      /\ IF asker[a].met THEN Excuses(b) ELSE UNCHANGED excused
  BY <1>2 DEF Activates, cloudflares
<1>4. /\ tunnel_configs \in [Branches -> Nat] /\ tunnel \in [Branches -> RowType] /\ tangled \subseteq Branches
      /\ asker[a] \in AskerType /\ Alone(a) /\ Meet
  BY DEF TunnelsInv, TunnelsShape
<1>5. row \in RowType /\ row.token = asker[a].tunnel /\ row.status = "active"
  <2>1. tunnel[b] \in RowType
    BY <1>4
  <2> QED
    BY <1>4, <2>1 DEF RowType, AskerType
<1> HIDE DEF row
<1>6. tunnel' \in [Branches -> RowType] /\ tunnel'[b] = row /\ \A q \in Branches \ {b} : tunnel'[q] = tunnel[q]
  BY <1>3, <1>4, <1>5 DEF RowBecomes
<1>7. tangled' \subseteq Branches /\ (b \in tangled' <=> asker[a].met)
      /\ \A q \in Branches \ {b} : q \in tangled' <=> q \in tangled
  BY <1>3, <1>4
<1>8. /\ GoesOnAs(a, NoAsker) /\ asker'[a].at = "idle" /\ Owns(NoAsker) = 0 /\ Alone(a)'
      /\ \A c \in Askers : c # a => asker'[c] = asker[c]
  BY <1>3, CallDone DEF Done, Becomes, TunnelsInv, TunnelsShape
<1>9. Owns(asker[a]) = 1 /\ InUse(b) = 0
  BY <1>1, <1>2, PastEnsure DEF Owns, Owning
<1>10. Pending(b)' <=> asker[a].met
  BY <1>5, <1>6, <1>7 DEF Pending
<1>11. Whole(b)'
  <2>5. PICK t : t = asker[a].tunnel
    OBVIOUS
  <2>1. SUFFICES ASSUME ~asker[a].met
        PROVE  /\ slug'[b] # NoSlug /\ tunnel'[b].token # NoTunnel
               /\ tunnel'[b].token = tunnel_configs'[b] /\ LedTo(b, t)'
               /\ \A c \in Askers : ~(Asking(c)' /\ asker'[c].branch = b)
    BY <1>5, <1>6, <1>10, <2>5 DEF Whole, LedTo, Branch
  <2>2. tunnel_configs[b] = asker[a].tunnel /\ LedTo(b, t)
    BY <1>1, <1>2, <1>4, <2>1, <2>5 DEF Alone
  <2>3. LedTo(b, t)'
    BY <1>3, <2>2 DEF LedTo, Namesakes
  <2>4. \A c \in Askers : ~(Asking(c)' /\ asker'[c].branch = b)
    BY <1>1, <1>2, <1>4, <1>8, <2>1 DEF Meet, Asking, Branch
  <2> QED
    BY <1>1, <1>2, <1>3, <1>5, <1>6, <2>2, <2>3, <2>4, <2>5
<1>12. CountStands(a, b, NoAsker)
  <2>1. \A q \in Branches \ {b} : InUse(q)' = InUse(q)
    BY <1>6, <1>7 DEF InUse, Pending
  <2>2. InUse(b)' = IF asker[a].met THEN 0 ELSE 1
    BY <1>10 DEF InUse
  <2> QED
    BY <1>3, <1>8, <1>9, <2>1, <2>2 DEF CountStands, Balance
<1> QED
  BY <1>1, <1>2, <1>3, <1>4, <1>6, <1>7, <1>8, <1>11, <1>12, CallKeeps

LEMMA BreakKeeps ==
  ASSUME TunnelsInv, NEW a \in Askers, BreaksOffAt(a)
  PROVE  TunnelsInv'
<1>1. Asking(a) /\ Branch(a) \in Branches
  BY DEF BreaksOffAt, Asking, TunnelsInv, TunnelsShape
<1>2. PICK b \in Branches : b = Branch(a)
  BY <1>1
<1>3. /\ UNCHANGED <<cloudflare, slug, tunnel, tunnel_configs, dns, made>> /\ Done(a) /\ Excuses(b)
      /\ tangled' = IF asker[a].met THEN tangled \cup {b} ELSE tangled
  BY <1>2 DEF BreaksOffAt, cloudflares, noted
<1>4. /\ tunnel_configs \in [Branches -> Nat] /\ tunnel \in [Branches -> RowType] /\ tangled \subseteq Branches
      /\ Whole(b)
  BY DEF TunnelsInv, TunnelsShape
<1>5. /\ GoesOnAs(a, NoAsker) /\ asker'[a].at = "idle" /\ Owns(NoAsker) = 0 /\ Alone(a)'
      /\ \A c \in Askers : c # a => asker'[c] = asker[c]
  BY <1>3, CallDone DEF Done, Becomes, TunnelsInv, TunnelsShape
<1>6. tangled' \subseteq Branches /\ \A q \in Branches \ {b} : q \in tangled' <=> q \in tangled
  BY <1>3, <1>4
<1>7. Pending(b) => Pending(b)'
  BY <1>3 DEF Pending
<1>8. Whole(b)'
  <2>1. \A c \in Askers : Asking(c)' => Asking(c) /\ asker'[c] = asker[c]
    BY <1>5 DEF Asking
  <2> QED
    BY <1>3, <1>4, <1>7, <2>1 DEF Whole, LedTo, Namesakes, Branch
<1>9. CountStands(a, b, NoAsker)
  <2>1. \A q \in Branches \ {b} : InUse(q)' = InUse(q)
    BY <1>3, <1>6 DEF InUse, Pending
  <2>2. InUse(b)' \in {0, 1} /\ InUse(b) \in {0, 1} /\ Owns(asker[a]) \in {0, 1}
    BY DEF InUse, Owns
  <2>3. InUse(b) = 1 => Owns(asker[a]) = 0
    BY <1>1, <1>2, PastEnsure DEF Owns, Ahead
  <2> QED
    BY <1>3, <1>5, <2>1, <2>2, <2>3 DEF CountStands, Balance
<1> QED
  BY <1>1, <1>2, <1>3, <1>4, <1>5, <1>6, <1>8, <1>9, CallKeeps

\* A call begins: it is one more at its branch, and meets those that are there.
LEMMA AsksMoves ==
  ASSUME TunnelsInv, NEW a \in Askers, NEW b \in Branches, Asks(a, b)
  PROVE  /\ asker' \in [Askers -> AskerType] /\ slug[b] # NoSlug
         /\ \A c \in Askers : asker'[c].at \in Owning => asker'[c].tunnel # NoTunnel
         /\ \A c \in Askers : Asking(c)' => asker'[c].branch \in Branches /\ slug[asker'[c].branch] # NoSlug
         /\ \A c \in Askers : Asking(c)' /\ asker'[c].at # "ensure" =>
                /\ Asking(c) /\ asker'[c].at = asker[c].at /\ asker'[c].branch = Branch(c)
                /\ asker'[c].tunnel = asker[c].tunnel /\ (~asker'[c].met => ~asker[c].met)
         /\ \A q \in Branches : /\ IsFiniteSet(Busy(q)') /\ Makers(q)' = Makers(q)
         /\ Meet'
<1>1. /\ TunnelsShape /\ Meet /\ asker \in [Askers -> AskerType]
      /\ asker[a].at = "idle" /\ slug[b] # NoSlug /\ \A q \in Branches : IsFiniteSet(Busy(q))
  BY DEF TunnelsInv, TunnelsShape, Asks, MadeCounted
<1> DEFINE new == [NoAsker EXCEPT !.at = "ensure", !.branch = b, !.met = Busy(b) # {}]
           Met(c) == [asker[c] EXCEPT !.met = TRUE]
<1>2. /\ new \in AskerType /\ new.at = "ensure" /\ new.branch = b
      /\ new.met <=> Busy(b) # {}
  BY DEF NoAsker, NoTunnel, AskerType, Ahead, Owning
<1>3. ASSUME NEW c \in Askers
      PROVE  /\ Met(c) \in AskerType /\ Met(c).at = asker[c].at /\ Met(c).branch = asker[c].branch
             /\ Met(c).tunnel = asker[c].tunnel /\ Met(c).met
  <2>1. asker[c] \in AskerType
    BY <1>1
  <2> QED
    BY <2>1 DEF AskerType
<1>4. asker' = [c \in Askers |-> IF c = a THEN new ELSE IF c \in Busy(b) THEN Met(c) ELSE asker[c]]
  BY DEF Asks
<1> HIDE DEF new, Met
<1>5. /\ asker' \in [Askers -> AskerType] /\ asker'[a] = new
      /\ \A c \in Askers \ {a} : asker'[c] = IF c \in Busy(b) THEN Met(c) ELSE asker[c]
  BY <1>1, <1>2, <1>3, <1>4
<1>6. \A c \in Askers \ {a} :
        /\ asker'[c].at = asker[c].at /\ asker'[c].branch = Branch(c) /\ asker'[c].tunnel = asker[c].tunnel
        /\ asker[c].met => asker'[c].met
        /\ c \in Busy(b) => asker'[c].met
  BY <1>3, <1>5 DEF Branch
<1>7. /\ \A c \in Askers : asker'[c].at \in Owning => asker'[c].tunnel # NoTunnel
      /\ \A c \in Askers : Asking(c)' => asker'[c].branch \in Branches /\ slug[asker'[c].branch] # NoSlug
  <2>1. ASSUME NEW c \in Askers
        PROVE  /\ asker'[c].at \in Owning => asker'[c].tunnel # NoTunnel
               /\ asker'[c].at # "idle" => asker'[c].branch \in Branches /\ slug[asker'[c].branch] # NoSlug
    <3>1. CASE c = a
      BY <1>1, <1>2, <1>5, <3>1 DEF Owning
    <3>2. CASE c # a
      BY <1>1, <1>6, <3>2 DEF TunnelsShape, Asking, Branch
    <3> QED
      BY <3>1, <3>2
  <2> QED
    BY <2>1 DEF Asking
<1>8. \A c \in Askers : Asking(c)' /\ asker'[c].at # "ensure" =>
        /\ Asking(c) /\ asker'[c].at = asker[c].at /\ asker'[c].branch = Branch(c)
        /\ asker'[c].tunnel = asker[c].tunnel /\ (~asker'[c].met => ~asker[c].met)
  BY <1>2, <1>5, <1>6 DEF Asking
<1>9. ASSUME NEW q \in Branches PROVE IsFiniteSet(Busy(q)') /\ Makers(q)' = Makers(q)
  <2>1. Busy(q)' \subseteq Busy(q) \cup {a}
    BY <1>6 DEF Busy, Branch
  <2>2. IsFiniteSet(Busy(q) \cup {a})
    BY <1>1, FS_AddElement
  <2>3. IsFiniteSet(Busy(q)')
    BY <2>1, <2>2, FS_Subset
  <2>4. a \notin Makers(q) /\ asker'[a].at \notin Owning
    BY <1>1, <1>2, <1>5 DEF Makers, Owning
  <2>5. Makers(q)' = Makers(q)
    BY <1>6, <2>4 DEF Makers, Branch
  <2> QED
    BY <2>3, <2>5
<1>10. Meet'
  <2>1. SUFFICES ASSUME NEW c \in Askers, NEW d \in Askers, asker'[c].at # "idle", asker'[d].at # "idle",
                        asker'[c].branch = asker'[d].branch, c # d
                 PROVE  asker'[c].met
    BY DEF Meet, Asking, Branch
  <2>2. CASE c = a
    <3>1. d \in Busy(b)
      BY <1>2, <1>5, <1>6, <2>1, <2>2 DEF Busy, Branch
    <3> QED
      BY <1>2, <1>5, <2>2, <3>1
  <2>3. CASE c # a /\ d = a
    <3>1. c \in Busy(b)
      BY <1>2, <1>5, <1>6, <2>1, <2>3 DEF Busy, Branch
    <3> QED
      BY <1>6, <2>3, <3>1
  <2>4. CASE c # a /\ d # a
    <3>1. asker[c].met
      BY <1>1, <1>6, <2>1, <2>4 DEF Meet, Asking, Branch
    <3> QED
      BY <1>6, <2>4, <3>1
  <2> QED
    BY <2>2, <2>3, <2>4
<1> QED
  BY <1>1, <1>5, <1>7, <1>8, <1>9, <1>10

\* A call begins, and at most the token and the status of its branch are dropped.
LEMMA AsksKeeps ==
  ASSUME TunnelsInv, NEW a \in Askers, NEW b \in Branches, Asks(a, b),
         UNCHANGED <<cloudflare, made, dns, slug, tunnel_configs, tangled>>,
         tunnel' \in [Branches -> RowType], \A q \in Branches \ {b} : tunnel'[q] = tunnel[q],
         \/ tunnel'[b].token = tunnel[b].token /\ tunnel'[b].status = tunnel[b].status /\ UNCHANGED excused
         \/ tunnel'[b].status = "pending" /\ Excuses(b)
  PROVE  TunnelsInv'
<1>1. /\ asker' \in [Askers -> AskerType] /\ slug[b] # NoSlug
      /\ \A c \in Askers : asker'[c].at \in Owning => asker'[c].tunnel # NoTunnel
      /\ \A c \in Askers : Asking(c)' => asker'[c].branch \in Branches /\ slug[asker'[c].branch] # NoSlug
      /\ \A c \in Askers : Asking(c)' /\ asker'[c].at # "ensure" =>
            /\ Asking(c) /\ asker'[c].at = asker[c].at /\ asker'[c].branch = Branch(c)
            /\ asker'[c].tunnel = asker[c].tunnel /\ (~asker'[c].met => ~asker[c].met)
      /\ \A q \in Branches : /\ IsFiniteSet(Busy(q)') /\ Makers(q)' = Makers(q)
      /\ Meet'
  BY AsksMoves
<1>2. /\ TunnelsShape /\ excused \in [Branches -> Nat] /\ MaxTunnels \in Nat
      /\ \A q \in Branches : Whole(q) /\ MadeCounted(q)
      /\ \A c \in Askers : Alone(c)
  BY MadeIs DEF TunnelsInv, TunnelsShape
<1>3. /\ excused' \in [Branches -> Nat]
      /\ \A q \in Branches \ {b} : excused'[q] = excused[q]
      /\ \/ excused'[b] = excused[b]
         \/ excused'[b] = excused[b] + 1
      /\ excused'[b] = excused[b] => excused[b] >= MaxTunnels \/ UNCHANGED excused
  BY <1>2 DEF Excuses
<1>4. TunnelsShape'
  BY <1>1, <1>2, <1>3 DEF TunnelsShape, Branch
<1>5. ASSUME NEW q \in Branches PROVE Whole(q)'
  <2>1. CASE q = b /\ tunnel'[b].status = "pending"
    BY <2>1 DEF Whole, Pending
  <2>2. CASE ~(q = b /\ tunnel'[b].status = "pending")
    <3>1. tunnel'[q].token = tunnel[q].token /\ tunnel'[q].status = tunnel[q].status
      BY <2>2
    <3>2. Pending(q)' <=> Pending(q)
      BY <3>1 DEF Pending
    <3>3. PICK t : t = tunnel[q].token
      OBVIOUS
    <3>4. LedTo(q, t)' <=> LedTo(q, t)
      BY DEF LedTo, Namesakes
    <3>5. SUFFICES ASSUME ~Pending(q)
          PROVE  /\ slug'[q] # NoSlug /\ tunnel'[q].token # NoTunnel
                 /\ tunnel'[q].token = tunnel_configs'[q] /\ LedTo(q, t)'
                 /\ \A c \in Askers : Asking(c)' /\ asker'[c].branch = q => asker'[c].at = "ensure"
      BY <3>1, <3>2, <3>3 DEF Whole, Branch, LedTo
    <3>6. /\ slug[q] # NoSlug /\ tunnel[q].token # NoTunnel
          /\ tunnel[q].token = tunnel_configs[q] /\ LedTo(q, t)
          /\ \A c \in Askers : Asking(c) /\ Branch(c) = q => asker[c].at = "ensure"
      BY <1>2, <3>3, <3>5 DEF Whole
    <3>7. \A c \in Askers : Asking(c)' /\ asker'[c].branch = q => asker'[c].at = "ensure"
      BY <1>1, <3>6
    <3> QED
      BY <3>1, <3>4, <3>6, <3>7
  <2> QED
    BY <2>1, <2>2
<1>6. ASSUME NEW q \in Branches PROVE MadeCounted(q)'
  <2>1. Mine(q)' = Mine(q) /\ Cardinality(Mine(q)) \in Nat
    BY <1>2, MineOf DEF Mine
  <2>2. IsFiniteSet(Makers(q)) /\ Cardinality(Makers(q)) \in Nat
    <3>1. Makers(q) \subseteq Busy(q) /\ IsFiniteSet(Busy(q))
      BY <1>2 DEF Makers, Busy, Branch, Owning, MadeCounted
    <3>2. IsFiniteSet(Makers(q))
      BY <3>1, FS_Subset
    <3> QED
      BY <3>2, FS_CardinalityType
  <2>3. InUse(q) \in {0, 1} /\ InUse(q)' \in {0, 1} /\ excused[q] \in Nat /\ excused'[q] \in Nat
    BY <1>2, <1>3 DEF InUse
  <2>4. CASE excused[q] >= MaxTunnels
    <3>1. excused'[q] >= MaxTunnels
      BY <1>2, <1>3, <2>3, <2>4
    <3> QED
      BY <1>1, <3>1 DEF MadeCounted
  <2>5. CASE ~(excused[q] >= MaxTunnels)
    <3>1. Cardinality(Mine(q)) <= excused[q] + Cardinality(Makers(q)) + InUse(q)
      BY <1>2, <2>5 DEF MadeCounted
    <3>2. \/ excused'[q] = excused[q] /\ InUse(q)' = InUse(q)
          \/ excused'[q] = excused[q] + 1
      <4>1. CASE q = b /\ Excuses(b)
        BY <1>2, <2>5, <4>1 DEF Excuses
      <4>2. CASE ~(q = b /\ Excuses(b))
        <5>1. tunnel'[q].status = tunnel[q].status /\ excused'[q] = excused[q]
          BY <1>3, <4>2
        <5> QED
          BY <5>1 DEF InUse, Pending
      <4> QED
        BY <4>1, <4>2
    <3>3. Cardinality(Mine(q)) <= excused'[q] + Cardinality(Makers(q)) + InUse(q)'
      BY <2>1, <2>2, <2>3, <3>1, <3>2
    <3> QED
      BY <1>1, <2>1, <3>3 DEF MadeCounted
  <2> QED
    BY <2>4, <2>5
<1>7. ASSUME NEW c \in Askers PROVE Alone(c)'
  <2>1. CASE asker'[c].at \in {"config", "activate"}
    <3>1. Asking(c)' /\ asker'[c].at # "ensure"
      BY <2>1 DEF Asking
    <3>2. /\ asker'[c].at = asker[c].at /\ asker'[c].branch = Branch(c)
          /\ asker'[c].tunnel = asker[c].tunnel /\ (~asker'[c].met => ~asker[c].met)
      BY <1>1, <3>1
    <3> QED
      BY <1>2, <3>2 DEF Alone, LedTo, Branch, Namesakes
  <2>2. CASE asker'[c].at \notin {"config", "activate"}
    BY <2>2 DEF Alone
  <2> QED
    BY <2>1, <2>2
<1> QED
  BY <1>1, <1>4, <1>5, <1>6, <1>7 DEF TunnelsInv

LEMMA AskStepsKeep ==
  ASSUME TunnelsInv, NEW a \in Askers, NEW b \in Branches,
         \/ ActivatesCloud(a, b) \/ get_bootstrap_config(a, b)
         \/ reprovision_tunnel(a, b) \/ provision_branch_tunnel(a, b)
  PROVE  TunnelsInv'
<1>1. tunnel \in [Branches -> RowType] /\ tunnel[b] \in RowType
  BY DEF TunnelsInv, TunnelsShape
<1>2. CASE ActivatesCloud(a, b)
  <2> DEFINE row == [tunnel[b] EXCEPT !.activated = TRUE]
  <2>1. row \in RowType /\ row.token = tunnel[b].token /\ row.status = tunnel[b].status
    BY <1>1 DEF RowType
  <2>2. /\ Asks(a, b) /\ RowBecomes(b, row)
        /\ UNCHANGED <<cloudflare, made, dns, slug, tunnel_configs, tangled, excused>>
    BY <1>2 DEF ActivatesCloud, cloudflares
  <2> HIDE DEF row
  <2>3. /\ tunnel' \in [Branches -> RowType] /\ tunnel'[b] = row
        /\ \A q \in Branches \ {b} : tunnel'[q] = tunnel[q]
    BY <1>1, <2>1, <2>2 DEF RowBecomes
  <2> QED
    BY <2>1, <2>2, <2>3, AsksKeeps
<1>3. CASE get_bootstrap_config(a, b) \/ reprovision_tunnel(a, b)
  <2>1. /\ Asks(a, b)
        /\ UNCHANGED <<cloudflare, made, dns, slug, tunnel, tunnel_configs, tangled, excused>>
    BY <1>3 DEF get_bootstrap_config, reprovision_tunnel, cloudflares, noted
  <2> QED
    BY <1>1, <2>1, AsksKeeps
<1>4. CASE provision_branch_tunnel(a, b)
  <2> DEFINE row == [tunnel[b] EXCEPT !.token = NoTunnel, !.status = "pending"]
  <2>1. row \in RowType /\ row.status = "pending"
    BY <1>1 DEF RowType, NoTunnel
  <2>2. /\ Asks(a, b) /\ RowBecomes(b, row) /\ Excuses(b)
        /\ UNCHANGED <<cloudflare, made, dns, slug, tunnel_configs, tangled>>
    BY <1>4 DEF provision_branch_tunnel, cloudflares
  <2> HIDE DEF row
  <2>3. /\ tunnel' \in [Branches -> RowType] /\ tunnel'[b] = row
        /\ \A q \in Branches \ {b} : tunnel'[q] = tunnel[q]
    BY <1>1, <2>1, <2>2 DEF RowBecomes
  <2> QED
    BY <2>1, <2>2, <2>3, AsksKeeps
<1> QED
  BY <1>2, <1>3, <1>4

\* A branch takes its name before any call is made for it.
LEMMA RegistersKeeps ==
  ASSUME TunnelsInv, NEW b \in Branches, NEW s \in Slugs, Registers(b, s)
  PROVE  TunnelsInv'
<1>1. /\ slug[b] = NoSlug /\ slug' = [slug EXCEPT ![b] = s] /\ s # NoSlug
      /\ UNCHANGED <<cloudflare, made, dns, tunnel, tunnel_configs, asker, tangled, excused>>
  BY TunnelsAssumption DEF Registers, cloudflares, NoSlug
<1>2. /\ TunnelsShape /\ slug \in [Branches -> Slugs \cup {NoSlug}] /\ Meet
      /\ \A q \in Branches : Whole(q) /\ MadeCounted(q)
      /\ \A c \in Askers : Alone(c)
  BY DEF TunnelsInv, TunnelsShape
<1>3. /\ slug' \in [Branches -> Slugs \cup {NoSlug}] /\ slug'[b] = s
      /\ \A q \in Branches \ {b} : slug'[q] = slug[q]
  BY <1>1, <1>2
<1>4. \A c \in Askers : Asking(c) => Branch(c) \in Branches \ {b} /\ slug[Branch(c)] # NoSlug
  BY <1>1, <1>2 DEF TunnelsShape
<1>5. TunnelsShape'
  <2>1. \A c \in Askers : Asking(c)' => asker'[c].branch \in Branches /\ slug'[asker'[c].branch] # NoSlug
    BY <1>1, <1>3, <1>4 DEF Asking, Branch
  <2> QED
    BY <1>1, <1>2, <1>3, <2>1 DEF TunnelsShape, Branch
<1>6. ASSUME NEW q \in Branches, q # b, slug[q] # NoSlug, NEW t, LedTo(q, t) PROVE LedTo(q, t)'
  <2>1. SUFFICES ASSUME cloudflare = "zone", Namesakes(q)' = {} PROVE dns[slug[q]] = t
    BY <1>1, <1>3, <1>6 DEF LedTo
  <2>2. Namesakes(q) = {}
    BY <1>1, <1>3, <1>6, <2>1 DEF Namesakes
  <2> QED
    BY <1>6, <2>1, <2>2 DEF LedTo
<1>7. Pending(b)
  BY <1>1, <1>2 DEF Whole
<1>8. ASSUME NEW q \in Branches PROVE Whole(q)' /\ MadeCounted(q)'
  <2>1. Pending(q)' <=> Pending(q)
    BY <1>1 DEF Pending
  <2>2. MadeCounted(q)'
    BY <1>1, <1>2, <2>1 DEF MadeCounted, Busy, Mine, Makers, InUse, Branch
  <2>3. CASE Pending(q)
    BY <2>1, <2>2, <2>3 DEF Whole
  <2>4. CASE ~Pending(q)
    <3>1. q # b /\ slug[q] # NoSlug /\ LedTo(q, tunnel[q].token)
      BY <1>2, <1>7, <2>4 DEF Whole
    <3>2. PICK t : t = tunnel[q].token
      OBVIOUS
    <3>3. LedTo(q, t)'
      BY <1>6, <3>1, <3>2
    <3>4. LedTo(q, tunnel[q].token)'
      BY <1>1, <3>2, <3>3 DEF LedTo
    <3> QED
      BY <1>1, <1>2, <1>3, <2>2, <2>4, <3>1, <3>4 DEF Whole, Asking, Branch
  <2> QED
    BY <2>3, <2>4
<1>9. ASSUME NEW c \in Askers PROVE Alone(c)'
  <2>1. CASE asker[c].at \in {"config", "activate"}
    <3>1. PICK q \in Branches \ {b} : q = Branch(c) /\ slug[q] # NoSlug
      BY <1>4, <2>1 DEF Asking
    <3>2. PICK t : t = asker[c].tunnel
      OBVIOUS
    <3>3. LedTo(q, t) => LedTo(q, t)'
      BY <1>6, <3>1
    <3> QED
      BY <1>1, <1>2, <3>1, <3>2, <3>3 DEF Alone, LedTo, Branch, Namesakes
  <2>2. CASE asker[c].at \notin {"config", "activate"}
    BY <1>1, <2>2 DEF Alone
  <2> QED
    BY <2>1, <2>2
<1> QED
  BY <1>1, <1>2, <1>5, <1>8, <1>9 DEF TunnelsInv, Meet, Asking, Branch

LEMMA TunnelsStart == TunnelsInit => TunnelsInv
<1> SUFFICES ASSUME TunnelsInit PROVE TunnelsInv
  OBVIOUS
<1>1. /\ cloudflare \in {"simulate", "zone", "no zone"} /\ slug = [b \in Branches |-> NoSlug]
      /\ tunnel = [b \in Branches |-> [token |-> NoTunnel, status |-> "pending", activated |-> FALSE]]
      /\ tunnel_configs = [b \in Branches |-> NoTunnel] /\ made = <<>> /\ dns = [s \in Slugs |-> NoTunnel]
      /\ asker = [a \in Askers |-> NoAsker] /\ tangled = {} /\ excused = [b \in Branches |-> 0]
  BY DEF TunnelsInit
<1>2. NoAsker \in AskerType /\ NoAsker.at = "idle" /\ "idle" \notin Owning
  BY DEF NoAsker, NoTunnel, AskerType, Ahead, Owning
<1>3. \A a \in Askers : asker[a] = NoAsker /\ ~Asking(a)
  BY <1>1, <1>2 DEF Asking
<1>4. made \in Seq(Branches) /\ Len(made) <= MaxTunnels /\ DOMAIN made = {}
  <2>1. made \in Seq(Branches) /\ Len(made) = 0
    BY <1>1, EmptySeq
  <2>3. DOMAIN made = {}
    BY <2>1, LenProperties
  <2>2. MaxTunnels \in Nat
    BY TunnelsAssumption
  <2> QED
    BY <2>1, <2>2, <2>3
<1>5. tunnel \in [Branches -> RowType]
  <2>1. [token |-> NoTunnel, status |-> "pending", activated |-> FALSE] \in RowType
    BY DEF RowType, NoTunnel
  <2> QED
    BY <1>1, <2>1
<1>6. TunnelsShape
  BY <1>1, <1>2, <1>3, <1>4, <1>5 DEF TunnelsShape, NoTunnel
<1>7. Meet /\ \A a \in Askers : Alone(a)
  BY <1>2, <1>3 DEF Meet, Alone
<1>8. ASSUME NEW b \in Branches PROVE Whole(b) /\ MadeCounted(b)
  <2>1. Pending(b) /\ excused[b] = 0
    BY <1>1 DEF Pending
  <2>2. Busy(b) = {} /\ Makers(b) = {}
    BY <1>2, <1>3 DEF Busy, Makers, Asking
  <2>4. Mine(b) = {}
    BY <1>4 DEF Mine
  <2>3. IsFiniteSet({}) /\ Cardinality({}) = 0
    BY FS_EmptySet
  <2> QED
    BY <2>1, <2>2, <2>3, <2>4 DEF Whole, MadeCounted, InUse
<1> QED
  BY <1>6, <1>7, <1>8 DEF TunnelsInv

LEMMA TunnelsStutter == TunnelsInv /\ UNCHANGED tunnels => TunnelsInv'
<1> SUFFICES ASSUME TunnelsInv, UNCHANGED tunnels PROVE TunnelsInv'
  OBVIOUS
<1>1. /\ UNCHANGED <<cloudflare, slug, tunnel, tunnel_configs, made, dns>>
      /\ UNCHANGED <<asker, tangled, excused>>
  BY DEF tunnels
<1>2. TunnelsShape' /\ Meet'
  BY <1>1 DEF TunnelsInv, TunnelsShape, Meet, Asking, Branch
<1>3. ASSUME NEW b \in Branches PROVE Whole(b)' /\ MadeCounted(b)'
  <2>1. Whole(b) /\ MadeCounted(b)
    BY DEF TunnelsInv
  <2>2. Whole(b)'
    BY <1>1, <2>1 DEF Whole, Pending, LedTo, Namesakes, Asking, Branch
  <2>3. MadeCounted(b)'
    BY <1>1, <2>1 DEF MadeCounted, Mine, Makers, InUse, Pending, Busy, Branch
  <2> QED
    BY <2>2, <2>3
<1>4. ASSUME NEW a \in Askers PROVE Alone(a)'
  BY <1>1 DEF TunnelsInv, Alone, LedTo, Namesakes, Branch
<1> QED
  BY <1>2, <1>3, <1>4 DEF TunnelsInv

LEMMA TunnelsStep == TunnelsInv /\ TunnelsNext => TunnelsInv'
BY RegistersKeeps, AskStepsKeep, EnsureKeeps, CreateKeeps, TokenKeeps, LookKeeps, PointKeeps, FailKeeps,
   ErrorKeeps, UpsertKeeps, ActivateKeeps, BreakKeeps DEF TunnelsNext

LEMMA WholeIsOne == TunnelsInv => OneTunnel
<1> SUFFICES ASSUME TunnelsInv, NEW b \in Branches
    PROVE  /\ tunnel[b].status = "active" /\ Busy(b) = {} /\ b \notin tangled =>
             /\ tunnel[b].token = tunnel_configs[b]
             /\ cloudflare = "zone" /\ Namesakes(b) = {} => dns[slug[b]] = tunnel[b].token
           /\ Cardinality(Mine(b)) <= 1 + excused[b] + Cardinality(Busy(b))
  BY DEF OneTunnel, Mine
<1>1. TunnelsShape /\ Whole(b) /\ MadeCounted(b)
  BY DEF TunnelsInv
<1>2. /\ Cardinality(Mine(b)) \in Nat /\ Cardinality(Mine(b)) <= MaxTunnels /\ MaxTunnels \in Nat
      /\ excused[b] \in Nat /\ InUse(b) \in {0, 1}
  BY <1>1, MineOf, MadeIs DEF TunnelsShape, InUse
<1>3. /\ Cardinality(Busy(b)) \in Nat /\ Cardinality(Makers(b)) \in Nat
      /\ Cardinality(Makers(b)) <= Cardinality(Busy(b))
  <2>1. Makers(b) \subseteq Busy(b) /\ IsFiniteSet(Busy(b))
    BY <1>1 DEF Makers, Busy, Branch, Owning, MadeCounted
  <2>2. IsFiniteSet(Makers(b)) /\ Cardinality(Makers(b)) <= Cardinality(Busy(b))
    BY <2>1, FS_Subset
  <2> QED
    BY <2>1, <2>2, FS_CardinalityType
<1>4. Cardinality(Mine(b)) <= 1 + excused[b] + Cardinality(Busy(b))
  BY <1>1, <1>2, <1>3 DEF MadeCounted
<1> QED
  BY <1>1, <1>4 DEF Whole, Pending, LedTo

\* What each call of ensure_tunnel_provisioned has done for its branch so far still
\* stands, unless another call met it; and every tunnel made for a branch is in use,
\* about to be, or accounted for by a failure.
THEOREM TunnelsInvariant == TunnelsSpec => []TunnelsInv
<1>1. TunnelsInit => TunnelsInv
  BY TunnelsStart
<1>2. TunnelsInv /\ [TunnelsNext]_tunnels => TunnelsInv'
  BY TunnelsStutter, TunnelsStep
<1> QED
  BY <1>1, <1>2, PTL DEF TunnelsSpec

\* A branch whose tunnel is active and was tangled by no failure has its own token,
\* and its name leads there; whatever calls provision it at a time, no more tunnels
\* are made than those calls, the failures and the one in use account for.
THEOREM OneTunnelHolds == TunnelsSpec => []OneTunnel
<1>1. TunnelsInv => OneTunnel
  BY WholeIsOne
<1> QED
  BY <1>1, TunnelsInvariant, PTL

-----------------------------------------------------------------------------
\* Whatever names a tunnel names one that was made.
TunnelsNamed ==
    /\ \A b \in Branches : tunnel[b].token <= Len(made) /\ tunnel_configs[b] <= Len(made)
    /\ \A s \in Slugs : dns[s] <= Len(made)
    /\ \A a \in Askers : asker[a].tunnel <= Len(made)

\* A step names no tunnel that was not named, or made by it.
LEMMA NamesStand ==
  ASSUME TunnelsShape, TunnelsNamed,
         made' = made \/ \E b \in Branches : made' = Append(made, b),
         \A b \in Branches : tunnel'[b].token \in {NoTunnel, tunnel[b].token} \cup {asker[a].tunnel : a \in Askers},
         \A b \in Branches : tunnel_configs'[b] \in {tunnel_configs[b]} \cup {asker[a].tunnel : a \in Askers},
         \A s \in Slugs : dns'[s] \in {dns[s]} \cup {asker[a].tunnel : a \in Askers},
         \A a \in Askers : asker'[a].tunnel \in {NoTunnel, asker[a].tunnel, Len(made')}
  PROVE  TunnelsNamed'
<1>1. Len(made) \in Nat /\ Len(made') \in Nat /\ Len(made) <= Len(made')
  <2>1. made \in Seq(Branches)
    BY DEF TunnelsShape
  <2>2. ASSUME NEW b \in Branches, made' = Append(made, b) PROVE Len(made') = Len(made) + 1
    BY <2>1, <2>2
  <2> QED
    BY <2>1, <2>2
<1>2. /\ \A b \in Branches : tunnel[b].token \in Nat /\ tunnel_configs[b] \in Nat
      /\ \A s \in Slugs : dns[s] \in Nat
      /\ \A a \in Askers : asker[a].tunnel \in Nat
  BY DEF TunnelsShape, RowType, AskerType
<1>3. \A a \in Askers : asker[a].tunnel <= Len(made')
  BY <1>1, <1>2 DEF TunnelsNamed
<1>4. \A b \in Branches : tunnel'[b].token <= Len(made')
  BY <1>1, <1>2, <1>3 DEF TunnelsNamed, NoTunnel
<1>5. \A b \in Branches : tunnel_configs'[b] <= Len(made')
  BY <1>1, <1>2, <1>3 DEF TunnelsNamed
<1>6. \A s \in Slugs : dns'[s] <= Len(made')
  BY <1>1, <1>2, <1>3 DEF TunnelsNamed
<1>7. \A a \in Askers : asker'[a].tunnel <= Len(made')
  BY <1>1, <1>2, <1>3 DEF NoTunnel
<1> QED
  BY <1>4, <1>5, <1>6, <1>7 DEF TunnelsNamed

LEMMA NamesStart == TunnelsInit => TunnelsNamed
<1> SUFFICES ASSUME TunnelsInit PROVE TunnelsNamed
  OBVIOUS
<1>1. Len(made) = 0 /\ NoTunnel <= 0
  <2>1. made = <<>>
    BY DEF TunnelsInit
  <2> QED
    BY <2>1 DEF NoTunnel
<1> QED
  BY <1>1 DEF TunnelsInit, TunnelsNamed, NoAsker

LEMMA NamesKept == TunnelsInv /\ TunnelsNamed /\ [TunnelsNext]_tunnels => TunnelsNamed'
<1> SUFFICES ASSUME TunnelsInv, TunnelsNamed, [TunnelsNext]_tunnels PROVE TunnelsNamed'
  OBVIOUS
<1>0. /\ TunnelsShape /\ tunnel \in [Branches -> RowType] /\ tunnel_configs \in [Branches -> Nat]
      /\ dns \in [Slugs -> Nat] /\ asker \in [Askers -> AskerType] /\ made \in Seq(Branches)
      /\ slug \in [Branches -> Slugs \cup {NoSlug}]
  BY DEF TunnelsInv, TunnelsShape
<1>1. CASE UNCHANGED <<tunnel, tunnel_configs, made, dns, asker>>
  BY <1>0, <1>1, NamesStand
<1>2. ASSUME NEW a \in Askers, NEW b \in Branches, Asks(a, b),
             tunnel' = tunnel \/ \E row \in RowType : row.token \in {NoTunnel, tunnel[b].token} /\ RowBecomes(b, row),
             UNCHANGED <<tunnel_configs, made, dns>>
      PROVE  TunnelsNamed'
  <2>1. \A q \in Askers : asker'[q].tunnel \in {NoTunnel, asker[q].tunnel}
    BY <1>0, <1>2 DEF Asks, AskerType, NoAsker
  <2>2. \A q \in Branches : tunnel'[q].token \in {NoTunnel, tunnel[q].token}
    BY <1>0, <1>2 DEF RowBecomes, RowType
  <2> QED
    BY <1>0, <1>2, <2>1, <2>2, NamesStand
<1>3. ASSUME NEW a \in Askers, asker[a].at # "idle", NEW doing \in AskerType, Becomes(a, doing),
             doing.tunnel \in {NoTunnel, asker[a].tunnel, Len(made')},
             tunnel' = tunnel \/ \E row \in RowType : row.token \in {tunnel[Branch(a)].token, asker[a].tunnel} /\ RowBecomes(Branch(a), row),
             tunnel_configs' = tunnel_configs \/ tunnel_configs' = [tunnel_configs EXCEPT ![Branch(a)] = asker[a].tunnel],
             dns' = dns \/ dns' = Pointed(a),
             made' = made \/ made' = Append(made, Branch(a))
      PROVE  TunnelsNamed'
  <2>1. Branch(a) \in Branches
    BY <1>0, <1>3 DEF TunnelsShape, Asking
  <2>2. \A q \in Askers : asker'[q].tunnel \in {NoTunnel, asker[q].tunnel, Len(made')}
    BY <1>0, <1>3 DEF Becomes, AskerType
  <2>3. \A q \in Branches : tunnel'[q].token \in {tunnel[q].token, asker[a].tunnel}
    BY <1>0, <1>3, <2>1 DEF RowBecomes, RowType
  <2>4. \A q \in Branches : tunnel_configs'[q] \in {tunnel_configs[q], asker[a].tunnel}
    BY <1>0, <1>3
  <2>5. \A s \in Slugs : dns'[s] \in {dns[s], asker[a].tunnel}
    BY <1>0, <1>3 DEF Pointed
  <2> QED
    BY <1>0, <1>3, <2>1, <2>2, <2>3, <2>4, <2>5, NamesStand
<1>4. ASSUME NEW a \in Askers, NEW b \in Branches,
             \/ ActivatesCloud(a, b) \/ get_bootstrap_config(a, b)
             \/ reprovision_tunnel(a, b) \/ provision_branch_tunnel(a, b)
      PROVE  TunnelsNamed'
  <2>1. PICK old \in RowType : old = tunnel[b]
    BY <1>0
  <2>2. /\ [old EXCEPT !.activated = TRUE] \in RowType /\ [old EXCEPT !.activated = TRUE].token = old.token
        /\ [old EXCEPT !.token = NoTunnel, !.status = "pending"] \in RowType
        /\ [old EXCEPT !.token = NoTunnel, !.status = "pending"].token = NoTunnel
    BY DEF RowType, NoTunnel
  <2>3. Asks(a, b) /\ UNCHANGED <<tunnel_configs, made, dns>>
    BY <1>4 DEF ActivatesCloud, get_bootstrap_config, reprovision_tunnel, provision_branch_tunnel, cloudflares, noted
  <2>4. \/ tunnel' = tunnel
        \/ RowBecomes(b, [old EXCEPT !.activated = TRUE])
        \/ RowBecomes(b, [old EXCEPT !.token = NoTunnel, !.status = "pending"])
    BY <1>4, <2>1 DEF ActivatesCloud, get_bootstrap_config, reprovision_tunnel, provision_branch_tunnel, noted
  <2> QED
    BY <1>2, <2>1, <2>2, <2>3, <2>4
<1>5. ASSUME NEW a \in Askers,
             \/ ensure_tunnel_provisioned(a) \/ provision_tunnel(a) \/ GetsToken(a) \/ LooksUpRecord(a)
             \/ ensure_dns_record(a) \/ RequestFails(a) \/ NotesError(a) \/ UpsertsConfig(a) \/ Activates(a)
             \/ BreaksOffAt(a)
      PROVE  TunnelsNamed'
  <2>0. asker[a].at # "idle"
    BY <1>5 DEF ensure_tunnel_provisioned, provision_tunnel, GetsToken, LooksUpRecord, ensure_dns_record,
                RequestFails, NotesError, UpsertsConfig, Activates, BreaksOffAt, Reached
  <2>1. PICK before \in AskerType : before = asker[a] /\ Branch(a) \in Branches
    BY <1>0, <2>0 DEF TunnelsShape, Asking
  <2>2. PICK old \in RowType : old = tunnel[Branch(a)]
    BY <1>0, <2>1
  <2>3. /\ [old EXCEPT !.status = "error"] \in RowType /\ [old EXCEPT !.status = "error"].token = old.token
        /\ [old EXCEPT !.token = before.tunnel, !.status = "active"] \in RowType
        /\ [old EXCEPT !.token = before.tunnel, !.status = "active"].token = before.tunnel
    BY <2>1 DEF RowType, AskerType
  <2>4. /\ tunnel' = tunnel \/ RowBecomes(Branch(a), [old EXCEPT !.status = "error"])
           \/ RowBecomes(Branch(a), [old EXCEPT !.token = before.tunnel, !.status = "active"])
        /\ tunnel_configs' = tunnel_configs \/ tunnel_configs' = [tunnel_configs EXCEPT ![Branch(a)] = asker[a].tunnel]
        /\ dns' = dns \/ dns' = Pointed(a)
        /\ made' = made \/ made' = Append(made, Branch(a))
    BY <1>5, <2>1, <2>2 DEF ensure_tunnel_provisioned, provision_tunnel, GetsToken, LooksUpRecord, ensure_dns_record,
                RequestFails, NotesError, UpsertsConfig, Activates, BreaksOffAt, cloudflares, noted
  <2>5. NoAsker \in AskerType /\ NoAsker.tunnel = NoTunnel
    BY DEF NoAsker, AskerType, NoTunnel
  <2>6. ASSUME NEW at \in {"idle", "ensure"} \cup Ahead, NEW known \in BOOLEAN
        PROVE  /\ [before EXCEPT !.at = at, !.known = known] \in AskerType
               /\ [before EXCEPT !.at = at, !.known = known].tunnel = before.tunnel
               /\ [before EXCEPT !.at = at] \in AskerType /\ [before EXCEPT !.at = at].tunnel = before.tunnel
    BY DEF AskerType
  <2>7. ASSUME NEW doing, Becomes(a, doing), doing \in AskerType, doing.tunnel \in {NoTunnel, asker[a].tunnel, Len(made')}
        PROVE  TunnelsNamed'
    BY <1>3, <2>0, <2>2, <2>1, <2>3, <2>4, <2>7
  <2>8. CASE ensure_tunnel_provisioned(a)
    BY <2>1, <2>5, <2>6, <2>7, <2>8 DEF ensure_tunnel_provisioned, Done, Proceeds, Ahead
  <2>9. CASE provision_tunnel(a)
    <3>1. PICK at \in {"config", "token"} : Becomes(a, [before EXCEPT !.at = at, !.tunnel = Len(made) + 1])
      BY <2>1, <2>9 DEF provision_tunnel
    <3>2. Len(made') = Len(made) + 1 /\ Len(made) + 1 \in Nat
      BY <1>0, <2>1, <2>9 DEF provision_tunnel
    <3>3. [before EXCEPT !.at = at, !.tunnel = Len(made) + 1] \in AskerType
          /\ [before EXCEPT !.at = at, !.tunnel = Len(made) + 1].tunnel = Len(made) + 1
      BY <3>1, <3>2 DEF AskerType, Ahead, Owning
    <3> QED
      BY <2>7, <3>1, <3>2, <3>3
  <2>10. CASE GetsToken(a)
    BY <2>1, <2>6, <2>7, <2>10 DEF GetsToken, Proceeds, Ahead, Owning
  <2>11. CASE LooksUpRecord(a)
    <3>1. PICK known \in BOOLEAN : Becomes(a, [before EXCEPT !.at = "point", !.known = known])
      BY <2>1, <2>11 DEF LooksUpRecord
    <3> QED
      BY <2>1, <2>6, <2>7, <3>1 DEF Ahead, Owning
  <2>12. CASE ensure_dns_record(a)
    BY <2>1, <2>6, <2>7, <2>12 DEF ensure_dns_record, Proceeds, Ahead, Owning
  <2>13. CASE RequestFails(a)
    BY <2>1, <2>6, <2>7, <2>13 DEF RequestFails, Proceeds, Ahead, Owning
  <2>14. CASE NotesError(a)
    BY <2>5, <2>7, <2>14 DEF NotesError, Done
  <2>15. CASE UpsertsConfig(a)
    BY <2>1, <2>6, <2>7, <2>15 DEF UpsertsConfig, Proceeds, Ahead, Owning
  <2>16. CASE Activates(a)
    BY <2>5, <2>7, <2>16 DEF Activates, Done
  <2>17. CASE BreaksOffAt(a)
    BY <2>5, <2>7, <2>17 DEF BreaksOffAt, Done
  <2> QED
    BY <1>5, <2>8, <2>9, <2>10, <2>11, <2>12, <2>13, <2>14, <2>15, <2>16, <2>17
<1>6. ASSUME NEW b \in Branches, NEW s \in Slugs, Registers(b, s) PROVE TunnelsNamed'
  BY <1>1, <1>6 DEF Registers, cloudflares
<1>7. CASE UNCHANGED tunnels
  BY <1>1, <1>7 DEF tunnels
<1> QED
  BY <1>4, <1>5, <1>6, <1>7 DEF TunnelsNext

LEMMA TunnelsTyped == TunnelsInv /\ TunnelsNamed => TunnelsTypeOK
<1> SUFFICES ASSUME TunnelsInv, TunnelsNamed PROVE TunnelsTypeOK
  OBVIOUS
<1>1. /\ cloudflare \in {"simulate", "zone", "no zone"} /\ slug \in [Branches -> Slugs \cup {NoSlug}]
      /\ tunnel \in [Branches -> RowType] /\ tunnel_configs \in [Branches -> Nat]
      /\ dns \in [Slugs -> Nat] /\ asker \in [Askers -> AskerType] /\ made \in Seq(Branches)
  BY DEF TunnelsInv, TunnelsShape
<1>2. Len(made) \in Nat /\ DOMAIN made = 1..Len(made)
  BY <1>1, LenProperties
<1>3. \A n \in Nat : n <= Len(made) => n \in {NoTunnel} \cup DOMAIN made
  BY <1>2 DEF NoTunnel
<1>4. \A b \in Branches :
        /\ tunnel[b].status \in {"pending", "active", "error"} /\ tunnel[b].activated \in BOOLEAN
        /\ tunnel[b].token \in Nat /\ tunnel_configs[b] \in Nat
  BY <1>1 DEF RowType
<1>5. dns \in [Slugs -> {NoTunnel} \cup DOMAIN made]
  BY <1>1, <1>3 DEF TunnelsNamed
<1>6. \A a \in Askers : asker[a].at \in
        {"idle", "ensure", "create", "token", "look", "point", "config", "activate", "error"}
  BY <1>1 DEF AskerType, Ahead, Owning
<1> QED
  BY <1>1, <1>3, <1>4, <1>5, <1>6 DEF TunnelsTypeOK, TunnelsNamed

-----------------------------------------------------------------------------
(* Updates                                                                  *)

Refs == {"url", "file"}
Release == [version : Versions, channel : Channels, ref : Refs]
File == [version : 0..LastVersion, whole : BOOLEAN]
DesktopState ==
    [status : {"idle", "downloading", "staged", "applying", "error"}, from : 0..LastVersion, ref : Refs]
Undo == [image : 0..LastVersion, version : 0..LastVersion, now : 0..LastVersion]
Update ==
    [step : {"pull", "note"}, image : Versions, version : 0..LastVersion, now : Versions]
    \cup [step : {"back", "forget"}, now : Versions] \cup {NoUpdate}

\* A version is registered once in a channel.
Same(row, other) == row.version = other.version /\ row.channel = other.channel
ControlInv ==
    /\ releases \in [Artifacts -> Seq(Release)]
    /\ uploaded \in 0..LastVersion /\ assigned \in [Artifacts -> [channel : Channels, version : 0..LastVersion]]
    /\ \A a \in Artifacts : \A r, q \in 1..Len(releases[a]) : Same(releases[a][r], releases[a][q]) => r = q

DesktopShape ==
    /\ app \in File /\ app.version # 0 /\ running \in {0, app.version}
    /\ staged \in File /\ state \in DesktopState /\ backups \in [Versions -> File]
    /\ rollback \in 0..LastVersion /\ cuts \in Nat
    /\ script \in {"none", "copy", "move", "note", "launch", "restore", "forget"}

\* Nothing but the script changes the app, and it runs by itself.
ScriptAlone ==
    /\ script # "none" => running = 0 /\ state.status = "applying"
    /\ state.status \in {"downloading", "staged"} => state.from = app.version

\* What is staged, and what the script is about to put in the app's place.
StagedNewer ==
    /\ state.status = "staged" => staged.whole /\ (state.ref = "url" => staged.version > state.from)
    /\ script \in {"copy", "move"} => state.from = app.version /\ staged.whole /\ staged.version > state.from
    /\ script = "note" => state.from # 0 /\ state.from < app.version
    /\ script \in {"move", "note"} => backups[state.from].whole

\* The backups, and the one that a rollback takes.
BackupsKept ==
    /\ \A v \in Versions : backups[v] = NoFile \/ backups[v].version = v
    /\ rollback <= app.version
    /\ script = "restore" => rollback # 0 /\ backups[rollback] # NoFile
    /\ script = "forget" => rollback # 0 /\ backups[rollback] = NoFile

\* One power cut leaves a rollback file that names the app it went back to; it takes
\* another for its backup to be half a file, and the app after it.
CutsTold ==
    /\ rollback = app.version => script = "forget" \/ cuts >= 1
    /\ rollback # 0 /\ backups[rollback] # NoFile => backups[rollback].whole \/ cuts >= 2
    /\ app.whole \/ cuts >= 2

\* What an update under way will note was read before it wrote anything.
ServerInv ==
    /\ {env, image} \subseteq Versions /\ health \in 0..LastVersion /\ update \in Update
    /\ undo \in Undo /\ (undo # NoUndo => undo.image # 0)
    /\ undo.image # 0 /\ undo.version = undo.image => undo.image < undo.now
    /\ update.step \in {"pull", "note"} /\ update.version = update.image => update.image < update.now

UpdatesInv ==
    ControlInv /\ DesktopShape /\ ScriptAlone /\ StagedNewer /\ BackupsKept /\ CutsTold /\ ServerInv

LEMMA ReleasesOf ==
  ASSUME ControlInv, NEW a \in Artifacts
  PROVE  /\ releases[a] \in Seq(Release) /\ Len(releases[a]) \in Nat
         /\ DOMAIN releases[a] = 1..Len(releases[a])
         /\ \A r \in 1..Len(releases[a]) : releases[a][r] \in Release
<1>1. releases[a] \in Seq(Release)
  BY DEF ControlInv
<1>2. Len(releases[a]) \in Nat /\ DOMAIN releases[a] = 1..Len(releases[a])
  BY <1>1, LenProperties
<1>3. \A r \in 1..Len(releases[a]) : releases[a][r] \in Release
  BY <1>1, ElementOfSeq
<1> QED
  BY <1>1, <1>2, <1>3

\* A registered version keeps its place; a new one goes to the end.
LEMMA CreateKeepsReleases ==
  ASSUME ControlInv, NEW a \in Artifacts, NEW v \in Versions, NEW ch \in Channels, NEW ref \in Refs, create_release(a, v, ch, ref)
  PROVE  /\ releases' \in [Artifacts -> Seq(Release)]
         /\ \A b \in Artifacts : \A r, q \in 1..Len(releases'[b]) :
                Same(releases'[b][r], releases'[b][q]) => r = q
<1> DEFINE old == releases[a]
           n == Len(old)
           row == [version |-> v, channel |-> ch, ref |-> ref]
           Row(r) == IF old[r].version = v /\ old[r].channel = ch THEN row ELSE old[r]
           kept == [r \in DOMAIN old |-> Row(r)]
           more == Append(old, row)
           next == IF Known(a, v, ch) THEN kept ELSE more
<1>1. /\ old \in Seq(Release) /\ n \in Nat /\ DOMAIN old = 1..n
      /\ \A r \in 1..n : old[r] \in Release
      /\ \A r, q \in 1..n : Same(old[r], old[q]) => r = q
  BY ReleasesOf DEF ControlInv
<1>2. releases \in [Artifacts -> Seq(Release)] /\ releases' = [releases EXCEPT ![a] = next]
  BY DEF create_release, ControlInv
<1>3. kept \in Seq(Release) /\ Len(kept) = n /\ \A r \in 1..n : Same(kept[r], old[r])
  <2>1. \A r \in 1..n : Row(r) \in Release /\ Same(Row(r), old[r])
    BY <1>1 DEF Release, Same
  <2> HIDE DEF Row
  <2>2. kept \in [1..n -> Release] /\ \A r \in 1..n : kept[r] = Row(r)
    BY <1>1, <2>1
  <2>3. kept \in Seq(Release)
    BY <1>1, <2>2, SeqDef
  <2>4. Len(kept) = n
    <3>1. DOMAIN kept = 1..n /\ DOMAIN kept = 1..Len(kept) /\ Len(kept) \in Nat
      BY <1>1, <2>2, <2>3, LenProperties
    <3> QED
      BY <1>1, <3>1
  <2> QED
    BY <2>1, <2>2, <2>3, <2>4
<1>4. /\ more \in Seq(Release) /\ Len(more) = n + 1
      /\ \A r \in 1..n : more[r] = old[r]
      /\ more[n + 1].version = v /\ more[n + 1].channel = ch
  <2>1. row \in Release
    BY DEF Release
  <2> QED
    BY <1>1, <2>1, AppendProperties
<1>5. Known(a, v, ch) <=> \E r \in 1..n : old[r].version = v /\ old[r].channel = ch
  BY <1>1 DEF Known
<1> HIDE DEF kept, more, old
<1>6. next \in Seq(Release) /\ \A r, q \in 1..Len(next) : Same(next[r], next[q]) => r = q
  <2>1. CASE Known(a, v, ch)
    BY <1>1, <1>3, <2>1 DEF Same
  <2>2. CASE ~Known(a, v, ch)
    <3>1. \A r \in 1..n : ~(more[r].version = v /\ more[r].channel = ch) /\ more[r] = old[r]
      BY <1>4, <1>5, <2>2
    <3> QED
      BY <1>1, <1>4, <2>2, <3>1 DEF Same
  <2> QED
    BY <2>1, <2>2
<1> HIDE DEF next
<1>7. releases'[a] = next /\ \A b \in Artifacts \ {a} : releases'[b] = releases[b]
  BY <1>2
<1>8. releases' \in [Artifacts -> Seq(Release)]
  BY <1>2, <1>6
<1>9. ASSUME NEW b \in Artifacts
      PROVE \A r, q \in 1..Len(releases'[b]) : Same(releases'[b][r], releases'[b][q]) => r = q
  <2>1. CASE b = a
    BY <1>6, <1>7, <2>1
  <2>2. CASE b # a
    BY <1>7, <2>2 DEF ControlInv
  <2> QED
    BY <2>1, <2>2
<1> QED
  BY <1>8, <1>9

LEMMA PublishingKeeps ==
  ASSUME UpdatesInv, NEW v \in Versions, NEW ch \in Channels,
         \/ \E a \in Artifacts : publish_release(a, v, ch)
         \/ upload_release_artifact(v, ch)
  PROVE  UpdatesInv'
<1>1. ControlInv
  BY DEF UpdatesInv
<1>2. UNCHANGED <<assigned, desktop, server, cuts>> /\ uploaded' \in {uploaded, v}
  BY DEF publish_release, upload_release_artifact
<1>3. /\ releases' \in [Artifacts -> Seq(Release)]
      /\ \A b \in Artifacts : \A r, q \in 1..Len(releases'[b]) :
                Same(releases'[b][r], releases'[b][q]) => r = q
  <2>1. PICK a \in Artifacts, ref \in Refs : create_release(a, v, ch, ref)
    BY DEF publish_release, upload_release_artifact, Artifacts, Refs
  <2> QED
    BY <1>1, <2>1, CreateKeepsReleases
<1>4. ControlInv'
  <2>1. v \in 0..LastVersion
    BY VersionAssumption DEF Versions
  <2> QED
    BY <1>1, <1>2, <1>3, <2>1 DEF ControlInv
<1> QED
  BY <1>2, <1>4 DEF UpdatesInv, desktop, server, DesktopShape, ScriptAlone, StagedNewer, BackupsKept, CutsTold, ServerInv

LEMMA PinningKeeps ==
  ASSUME UpdatesInv, NEW a \in Artifacts, NEW v \in 0..LastVersion, NEW ch \in Channels, assign_release(a, v, ch)
  PROVE  UpdatesInv'
<1>1. /\ UNCHANGED <<releases, uploaded, desktop, server, cuts>>
      /\ assigned' = [assigned EXCEPT ![a] = [channel |-> ch, version |-> v]]
  BY DEF assign_release
<1>2. ControlInv'
  BY <1>1 DEF UpdatesInv, ControlInv
<1> QED
  BY <1>1, <1>2 DEF UpdatesInv, desktop, server, DesktopShape, ScriptAlone, StagedNewer, BackupsKept, CutsTold, ServerInv

\* There is a greatest among finitely many numbers.
LEMMA NewestThereIs ==
  ASSUME NEW n \in Nat, NEW S \in SUBSET (1..n), S # {}
  PROVE  \E r \in S : \A q \in S : q <= r
<1> DEFINE Less == {ss \in Nat \X Nat : ss[1] < ss[2]}
           Above == {n - s : s \in S}
<1>1. IsWellFoundedOn(Less, Nat)
  BY NatLessThanWellFounded DEF OpToRel
<1>2. \A s \in S : s \in Nat /\ n - s \in Nat
  OBVIOUS
<1>3. Above \subseteq Nat /\ Above # {}
  BY <1>2
<1> HIDE DEF Less
<1>4. PICK x \in Above : \A y \in Above : <<y, x>> \notin Less
  BY <1>1, <1>3, WFMin
<1>5. PICK r \in S : x = n - r
  BY <1>4
<1>6. ASSUME NEW q \in S PROVE q <= r
  <2>1. <<n - q, n - r>> \notin Less
    BY <1>4, <1>5
  <2>2. n - q \in Nat /\ n - r \in Nat /\ q \in Nat /\ r \in Nat
    BY <1>2
  <2>3. ~(n - q < n - r)
    BY <2>1, <2>2 DEF Less
  <2> QED
    BY <2>2, <2>3
<1> QED
  BY <1>6

\* The greatest of finitely many places of a table.
LEMMA GreatestPlace ==
  ASSUME NEW n \in Nat, NEW S \in SUBSET (1..n), S # {}
  PROVE  Max(S) \in S /\ \A q \in S : q <= Max(S)
<1>1. \E r \in S : \A q \in S : q <= r
  BY NewestThereIs
<1>2. \E r \in S : \A q \in S : r >= q
  <2>1. PICK r \in S : \A q \in S : q <= r
    BY <1>1
  <2>2. \A q \in S : q \in Int /\ r \in Int
    OBVIOUS
  <2> QED
    BY <2>1, <2>2
<1>3. Max(S) \in S /\ \A q \in S : Max(S) >= q
  BY <1>2 DEF Max
<1>4. \A q \in S : q \in Int
  OBVIOUS
<1> QED
  BY <1>3, <1>4

\* What is offered is the newest of the releases it may be.
LEMMA OfferIs ==
  ASSUME ControlInv, NEW a \in Artifacts, Candidates(a) # {}
  PROVE  /\ Offered(a) \in Candidates(a) /\ Offered(a) \in DOMAIN releases[a] /\ Offer(a) \in Release
         /\ \A q \in Candidates(a) : q <= Offered(a)
<1>1. /\ DOMAIN releases[a] = 1..Len(releases[a]) /\ Len(releases[a]) \in Nat
      /\ \A r \in 1..Len(releases[a]) : releases[a][r] \in Release
  BY ReleasesOf
<1>2. Candidates(a) \in SUBSET (1..Len(releases[a]))
  BY <1>1 DEF Candidates
<1>3. Offered(a) \in Candidates(a) /\ \A q \in Candidates(a) : q <= Offered(a)
  BY <1>1, <1>2, GreatestPlace DEF Offered
<1> QED
  BY <1>1, <1>2, <1>3 DEF Offer

\* What there is to go back to was made before what is offered, in the branch's own
\* channel and without a pin.
LEMMA PreviousIs ==
  ASSUME ControlInv, NEW a \in Artifacts, Candidates(a) # {}, assigned[a] = [channel |-> Own, version |-> 0]
  PROVE  Previous(a) < Offered(a)
<1> DEFINE n == Len(releases[a])
           others == {r \in DOMAIN releases[a] :
                         releases[a][r].channel = Own /\ releases[a][r].version # Offer(a).version}
<1>1. n \in Nat /\ DOMAIN releases[a] = 1..n
  BY ReleasesOf
<1>2. others \in SUBSET (1..n) /\ others \subseteq Candidates(a)
  BY <1>1 DEF Candidates
<1>3. Offered(a) \in 1..n /\ Offered(a) \notin others /\ \A q \in Candidates(a) : q <= Offered(a)
  BY <1>1, OfferIs DEF Offer
<1>4. Previous(a) = IF others = {} THEN 0 ELSE Max(others)
  BY DEF Previous
<1> HIDE DEF others
<1>5. CASE others = {}
  BY <1>3, <1>4, <1>5
<1>6. CASE others # {}
  <2>1. Max(others) \in others
    BY <1>1, <1>2, <1>6, GreatestPlace
  <2>2. Previous(a) \in others
    BY <1>4, <1>6, <2>1
  <2>3. Previous(a) <= Offered(a) /\ Previous(a) # Offered(a) /\ Previous(a) \in 1..n
    BY <1>2, <1>3, <2>2
  <2> QED
    BY <1>3, <2>3
<1> QED
  BY <1>5, <1>6

DesktopInv == DesktopShape /\ ScriptAlone /\ StagedNewer /\ BackupsKept /\ CutsTold

LEMMA DesktopAlone ==
  ASSUME UpdatesInv, UNCHANGED <<control, server>>, DesktopInv'
  PROVE  UpdatesInv'
BY DEF UpdatesInv, DesktopInv, control, server, ControlInv, ServerInv

\* The steps of the app that touch no executable.
LEMMA DownloadKeeps ==
  ASSUME UpdatesInv, prepareAppUpdate \/ (\E v \in Versions : Downloaded(v)) \/ DownloadFails \/ discardAppUpdate
  PROVE  UpdatesInv'
<1>1. DesktopInv /\ ControlInv
  BY DEF UpdatesInv, DesktopInv
<1>2. /\ UNCHANGED <<control, server, app, running, backups, rollback, script, cuts>>
      /\ running # 0 /\ script = "none" /\ running = app.version
  BY <1>1 DEF prepareAppUpdate, Downloaded, DownloadFails, discardAppUpdate, DesktopInv, DesktopShape, ScriptAlone
<1>3. /\ staged' \in File /\ state' \in DesktopState
      /\ state'.status \in {"downloading", "staged"} => state'.from = app.version
      /\ state'.status = "staged" => staged'.whole /\ (state'.ref = "url" => staged'.version > state'.from)
  <2>1. /\ state \in DesktopState /\ staged \in File /\ NoFile \in File /\ app.version \in 0..LastVersion
        /\ state.status \in {"downloading", "staged"} => state.from = app.version
    BY <1>1, VersionAssumption DEF DesktopInv, DesktopShape, ScriptAlone, File, NoFile
  <2>2. CASE prepareAppUpdate
    <3>1. CASE state' = [state EXCEPT !.status = "error"] \/ state' = [state EXCEPT !.status = "idle"]
      BY <2>1, <2>2, <3>1 DEF prepareAppUpdate, DesktopState
    <3>2. CASE Candidates("app") # {} /\ state' = [status |-> "downloading", from |-> running, ref |-> Offer("app").ref]
      <4>1. Offer("app").ref \in Refs
        BY <1>1, <3>2, OfferIs DEF Artifacts, Release
      <4> QED
        BY <1>2, <2>1, <2>2, <3>2, <4>1 DEF prepareAppUpdate, DesktopState
    <3> QED
      BY <2>2, <3>1, <3>2 DEF prepareAppUpdate
  <2>3. ASSUME NEW v \in Versions, Downloaded(v)
        PROVE  /\ staged' \in File /\ state' \in DesktopState
               /\ state'.status \in {"downloading", "staged"} => state'.from = app.version
               /\ state'.status = "staged" => staged'.whole /\ (state'.ref = "url" => staged'.version > state'.from)
    <3>1. /\ staged' = [version |-> v, whole |-> TRUE] /\ state' = [state EXCEPT !.status = "staged"]
          /\ state.status = "downloading" /\ (state.ref = "url" => v > running)
      BY <2>3 DEF Downloaded
    <3>2. v \in 0..LastVersion
      BY VersionAssumption DEF Versions
    <3> QED
      BY <1>2, <2>1, <3>1, <3>2 DEF File, DesktopState
  <2>4. CASE DownloadFails
    BY <2>1, <2>4 DEF DownloadFails, DesktopState
  <2>5. CASE discardAppUpdate
    BY <2>1, <2>5 DEF discardAppUpdate, DesktopState
  <2> QED
    BY <2>2, <2>3, <2>4, <2>5
<1>4. DesktopInv'
  BY <1>1, <1>2, <1>3 DEF DesktopInv, DesktopShape, ScriptAlone, StagedNewer, BackupsKept, CutsTold
<1> QED
  BY <1>2, <1>4, DesktopAlone

LEMMA ApplyKeeps ==
  ASSUME UpdatesInv, applyStagedAppUpdate
  PROVE  UpdatesInv'
<1>1. DesktopInv
  BY DEF UpdatesInv, DesktopInv
<1>2. /\ UNCHANGED <<control, server, app, staged, backups, rollback, cuts>>
      /\ running # 0 /\ script = "none" /\ running = app.version /\ state.status = "staged"
  BY <1>1 DEF applyStagedAppUpdate, DesktopInv, DesktopShape
<1>3. /\ state \in DesktopState /\ state.from = app.version /\ staged.whole /\ staged # NoFile
      /\ state.ref = "url" => staged.version > state.from
  BY <1>1, <1>2 DEF DesktopInv, DesktopShape, ScriptAlone, StagedNewer, NoFile
<1>4. /\ state' \in DesktopState /\ state'.status = "applying" /\ state'.from = state.from
      /\ \/ script' = "none" /\ running' = running
         \/ script' = "copy" /\ running' = 0 /\ staged.version > state.from
  <2>1. state' = [state EXCEPT !.status = "applying"]
    BY <1>3 DEF applyStagedAppUpdate
  <2>2. state.ref \in {"url", "file"}
    BY <1>3 DEF DesktopState, Refs
  <2>3. \/ script' = "none" /\ running' = running
        \/ script' = "copy" /\ running' = 0 /\ state.ref = "url"
    BY <2>2 DEF applyStagedAppUpdate
  <2> QED
    BY <1>3, <2>1, <2>3 DEF DesktopState
<1>5. DesktopInv'
  BY <1>1, <1>2, <1>3, <1>4 DEF DesktopInv, DesktopShape, ScriptAlone, StagedNewer, BackupsKept, CutsTold
<1> QED
  BY <1>2, <1>5, DesktopAlone

LEMMA RollbackKeeps ==
  ASSUME UpdatesInv, rollbackLastAppUpdate
  PROVE  UpdatesInv'
<1>1. DesktopInv
  BY DEF UpdatesInv, DesktopInv
<1>2. /\ UNCHANGED <<control, server, app, staged, backups, rollback, cuts>>
      /\ running # 0 /\ script = "none"
  BY DEF rollbackLastAppUpdate
<1>3. /\ state \in DesktopState /\ state' \in DesktopState /\ state'.from = state.from
      /\ \/ state'.status = "error" /\ UNCHANGED <<script, running>>
         \/ /\ state'.status = "applying" /\ script' = "restore" /\ running' = 0
            /\ rollback # 0 /\ backups[rollback] # NoFile
  <2>1. state \in DesktopState
    BY <1>1 DEF DesktopInv, DesktopShape
  <2> QED
    BY <2>1 DEF rollbackLastAppUpdate, DesktopState
<1>4. DesktopInv'
  BY <1>1, <1>2, <1>3 DEF DesktopInv, DesktopShape, ScriptAlone, StagedNewer, BackupsKept, CutsTold
<1> QED
  BY <1>2, <1>4, DesktopAlone

LEMMA CopyKeeps ==
  ASSUME UpdatesInv, NEW whole \in BOOLEAN, ScriptCopies(whole)
  PROVE  UpdatesInv'
<1> DEFINE v == state.from
           copied == [app EXCEPT !.whole = whole]
<1>1. DesktopInv
  BY DEF UpdatesInv, DesktopInv
<1>2. /\ UNCHANGED <<control, server, app, running, staged, state, rollback>> /\ script = "copy"
      /\ cuts' = (IF whole THEN cuts ELSE cuts + 1) /\ script' = (IF whole THEN "move" ELSE "none")
      /\ backups' = [backups EXCEPT ![v] = copied]
  BY DEF ScriptCopies
<1>3. /\ v = app.version /\ app \in File /\ app.version # 0 /\ cuts \in Nat /\ backups \in [Versions -> File]
      /\ rollback \in 0..LastVersion
  BY <1>1, <1>2 DEF DesktopInv, DesktopShape, StagedNewer
<1>4. v \in Versions /\ copied \in File /\ copied.version = v /\ copied.whole = whole
  BY <1>3, VersionAssumption DEF File, Versions
<1> HIDE DEF copied
<1>5. /\ backups' \in [Versions -> File] /\ backups'[v] = copied
      /\ \A w \in Versions \ {v} : backups'[w] = backups[w]
  BY <1>2, <1>3, <1>4
<1>6. DesktopShape' /\ ScriptAlone'
  BY <1>1, <1>2, <1>3, <1>5 DEF DesktopInv, DesktopShape, ScriptAlone
<1>7. StagedNewer'
  BY <1>1, <1>2, <1>3, <1>4, <1>5 DEF DesktopInv, StagedNewer, ScriptAlone
<1>8. BackupsKept'
  BY <1>1, <1>2, <1>3, <1>4, <1>5 DEF DesktopInv, BackupsKept
<1>9. CutsTold'
  <2>1. rollback # 0 => rollback \in Versions
    BY <1>3, VersionAssumption DEF Versions
  <2>2. (rollback = app.version => cuts >= 1) /\ (app.whole \/ cuts >= 2)
    BY <1>1, <1>2 DEF DesktopInv, CutsTold
  <2>3. cuts' \in Nat /\ cuts' >= cuts /\ (~whole => cuts' = cuts + 1)
    BY <1>2, <1>3
  <2>4. ASSUME rollback # 0, backups'[rollback] # NoFile PROVE backups'[rollback].whole \/ cuts' >= 2
    <3>1. CASE rollback = v
      BY <1>3, <1>4, <1>5, <2>2, <2>3, <3>1
    <3>2. CASE rollback # v
      BY <1>1, <1>3, <1>5, <2>1, <2>3, <2>4, <3>2 DEF DesktopInv, CutsTold
    <3> QED
      BY <3>1, <3>2
  <2> QED
    BY <1>2, <1>3, <2>2, <2>3, <2>4 DEF CutsTold
<1>10. DesktopInv'
  BY <1>6, <1>7, <1>8, <1>9 DEF DesktopInv
<1> QED
  BY <1>2, <1>10, DesktopAlone

LEMMA MoveKeeps ==
  ASSUME UpdatesInv, ScriptMoves
  PROVE  UpdatesInv'
<1>1. DesktopInv
  BY DEF UpdatesInv, DesktopInv
<1>2. /\ UNCHANGED <<control, server, running, state, backups, rollback, cuts>> /\ script = "move" /\ script' = "note"
      /\ app' = staged /\ staged' = NoFile /\ running = 0
  BY <1>1 DEF ScriptMoves, DesktopInv, ScriptAlone
<1>3. /\ state.from = app.version /\ staged.whole /\ staged.version > state.from /\ backups[state.from].whole
      /\ app \in File /\ staged \in File /\ app.version # 0 /\ NoFile \in File /\ rollback \in 0..LastVersion
      /\ rollback <= app.version
  BY <1>1, <1>2, VersionAssumption DEF DesktopInv, DesktopShape, StagedNewer, BackupsKept, NoFile, File
<1>4. app.version \in Nat /\ staged.version \in Nat /\ staged.version > app.version /\ rollback \in Nat /\ rollback # staged.version
  BY <1>3, VersionAssumption DEF File
<1>5. DesktopShape' /\ ScriptAlone'
  BY <1>1, <1>2, <1>3, <1>4 DEF DesktopInv, DesktopShape, ScriptAlone
<1>6. StagedNewer' /\ BackupsKept' /\ CutsTold'
  BY <1>1, <1>2, <1>3, <1>4 DEF DesktopInv, ScriptAlone, StagedNewer, BackupsKept, CutsTold
<1> QED
  BY <1>2, <1>5, <1>6, DesktopAlone DEF DesktopInv

LEMMA NoteKeeps ==
  ASSUME UpdatesInv, ScriptNotes
  PROVE  UpdatesInv'
<1>1. DesktopInv
  BY DEF UpdatesInv, DesktopInv
<1>2. /\ UNCHANGED <<control, server, app, running, staged, state, backups, cuts>> /\ script = "note" /\ script' = "launch"
      /\ rollback' = state.from /\ running = 0
  BY <1>1 DEF ScriptNotes, DesktopInv, ScriptAlone
<1>3. /\ state.from \in 0..LastVersion /\ state.from # 0 /\ state.from < app.version
      /\ backups[state.from].whole /\ app.version \in 0..LastVersion
  BY <1>1, <1>2 DEF DesktopInv, DesktopShape, StagedNewer, DesktopState, File
<1>4. DesktopInv'
  BY <1>1, <1>2, <1>3, VersionAssumption DEF DesktopInv, DesktopShape, ScriptAlone, StagedNewer, BackupsKept, CutsTold
<1> QED
  BY <1>2, <1>4, DesktopAlone

LEMMA RestoreKeeps ==
  ASSUME UpdatesInv, ScriptRestores
  PROVE  UpdatesInv'
<1>1. DesktopInv
  BY DEF UpdatesInv, DesktopInv
<1>2. /\ UNCHANGED <<control, server, running, staged, state, rollback, cuts>> /\ script = "restore" /\ script' = "forget"
      /\ app' = backups[rollback] /\ backups' = [backups EXCEPT ![rollback] = NoFile] /\ running = 0
  BY <1>1 DEF ScriptRestores, DesktopInv, ScriptAlone
<1>3. /\ rollback \in Versions /\ backups[rollback] # NoFile /\ backups[rollback] \in File
      /\ backups[rollback].version = rollback /\ rollback # 0 /\ NoFile \in File
      /\ backups[rollback].whole \/ cuts >= 2
  <2>1. rollback \in 0..LastVersion /\ rollback # 0 /\ backups \in [Versions -> File]
    BY <1>1, <1>2 DEF DesktopInv, DesktopShape, BackupsKept
  <2>2. rollback \in Versions
    BY <2>1, VersionAssumption DEF Versions
  <2> QED
    BY <1>1, <1>2, <2>1, <2>2, VersionAssumption DEF DesktopInv, BackupsKept, CutsTold, NoFile, File
<1>4. /\ backups' \in [Versions -> File] /\ backups'[rollback] = NoFile
      /\ \A w \in Versions \ {rollback} : backups'[w] = backups[w]
  BY <1>1, <1>2, <1>3 DEF DesktopInv, DesktopShape
<1>5. state.status = "applying"
  BY <1>1, <1>2 DEF DesktopInv, ScriptAlone
<1>6. DesktopShape' /\ ScriptAlone' /\ StagedNewer'
  BY <1>1, <1>2, <1>3, <1>4, <1>5 DEF DesktopInv, DesktopShape, ScriptAlone, StagedNewer
<1>7. BackupsKept' /\ CutsTold'
  BY <1>1, <1>2, <1>3, <1>4, VersionAssumption DEF DesktopInv, BackupsKept, CutsTold, Versions
<1> QED
  BY <1>2, <1>6, <1>7, DesktopAlone DEF DesktopInv

LEMMA ForgetKeeps ==
  ASSUME UpdatesInv, ScriptForgets
  PROVE  UpdatesInv'
<1>1. DesktopInv
  BY DEF UpdatesInv, DesktopInv
<1>2. /\ UNCHANGED <<control, server, app, running, staged, state, backups, cuts>> /\ script = "forget" /\ script' = "launch"
      /\ rollback' = 0 /\ app.version \in 0..LastVersion
  BY <1>1 DEF ScriptForgets, DesktopInv, DesktopShape, File
<1>3. DesktopInv'
  BY <1>1, <1>2, VersionAssumption DEF DesktopInv, DesktopShape, ScriptAlone, StagedNewer, BackupsKept, CutsTold
<1> QED
  BY <1>2, <1>3, DesktopAlone

LEMMA LaunchKeeps ==
  ASSUME UpdatesInv, Launch
  PROVE  UpdatesInv'
<1>1. DesktopInv
  BY DEF UpdatesInv, DesktopInv
<1>2. /\ UNCHANGED <<control, server, app, staged, state, backups, rollback, cuts>>
      /\ script \in {"none", "launch"} /\ script' = "none" /\ running' = app.version
  BY DEF Launch
<1>3. DesktopInv'
  BY <1>1, <1>2 DEF DesktopInv, DesktopShape, ScriptAlone, StagedNewer, BackupsKept, CutsTold
<1> QED
  BY <1>2, <1>3, DesktopAlone

LEMMA ServerAlone ==
  ASSUME UpdatesInv, UNCHANGED <<control, desktop, cuts>>, ServerInv'
  PROVE  UpdatesInv'
BY DEF UpdatesInv, control, desktop, ControlInv, DesktopShape, ScriptAlone, StagedNewer, BackupsKept, CutsTold

LEMMA ServerSteps ==
  ASSUME UpdatesInv,
         \/ refreshBackendHealth \/ applyBackendUpdate \/ rollbackLastBackendUpdate
         \/ ComposeUp \/ NoteUpdate \/ ForgetUpdate \/ ComposeFails
  PROVE  UpdatesInv'
<1>1. ServerInv /\ ControlInv
  BY DEF UpdatesInv
<1>2. /\ Versions \subseteq 0..LastVersion /\ 0 \in 0..LastVersion /\ 0 \notin Versions
  BY VersionAssumption DEF Versions
<1>3. /\ env \in Versions /\ image \in Versions /\ health \in 0..LastVersion /\ update \in Update /\ undo \in Undo
      /\ undo # NoUndo => undo.image # 0
      /\ NoUpdate \in Update /\ NoUpdate.step = "none" /\ NoUndo \in Undo /\ NoUndo.image = 0
  BY <1>1, <1>2 DEF ServerInv, Update, Undo, NoUpdate, NoUndo
<1>4. /\ update.step \in {"pull", "note"} => update \in [step : {"pull", "note"}, image : Versions, version : 0..LastVersion, now : Versions]
      /\ update.step \in {"back", "forget"} => update \in [step : {"back", "forget"}, now : Versions]
  BY <1>3 DEF Update, NoUpdate
<1>5. CASE refreshBackendHealth
  <2>1. ServerInv'
    BY <1>1, <1>2, <1>3, <1>5 DEF refreshBackendHealth, ServerInv
  <2> QED
    BY <1>5, <2>1, ServerAlone DEF refreshBackendHealth
<1>6. CASE applyBackendUpdate
  <2> DEFINE v == Offer("backend").version
             begun == [step |-> "pull", image |-> env, version |-> health, now |-> v]
  <2>1. v \in Versions
    BY <1>1, <1>6, OfferIs DEF applyBackendUpdate, Artifacts, Release
  <2>2. /\ env' = v /\ update' = begun /\ v > health
        /\ UNCHANGED <<control, desktop, image, health, undo, cuts>>
    BY <1>6 DEF applyBackendUpdate
  <2>3. begun \in Update /\ begun.version = health /\ begun.image = env /\ begun.now = v
    BY <1>3, <2>1 DEF Update
  <2> HIDE DEF begun
  <2>4. ServerInv'
    BY <1>1, <1>3, <2>1, <2>2, <2>3 DEF ServerInv
  <2> QED
    BY <2>2, <2>4, ServerAlone
<1>7. CASE rollbackLastBackendUpdate
  <2> DEFINE begun == [step |-> "back", now |-> undo.image]
  <2>1. undo.image \in Versions
    BY <1>3, <1>7, VersionAssumption DEF rollbackLastBackendUpdate, Undo, Versions
  <2>2. /\ env' = undo.image /\ update' = begun
        /\ UNCHANGED <<control, desktop, image, health, undo, cuts>>
    BY <1>7 DEF rollbackLastBackendUpdate
  <2>3. begun \in Update /\ begun.step = "back"
    BY <2>1 DEF Update
  <2> HIDE DEF begun
  <2>4. ServerInv'
    BY <1>1, <1>3, <2>1, <2>2, <2>3 DEF ServerInv
  <2> QED
    BY <2>2, <2>4, ServerAlone
<1>8. CASE ComposeUp
  <2>1. /\ image' = update.now /\ update.step \in {"pull", "back"}
        /\ update' = [update EXCEPT !.step = IF update.step = "pull" THEN "note" ELSE "forget"]
        /\ UNCHANGED <<control, desktop, env, health, undo, cuts>>
    BY <1>8 DEF ComposeUp
  <2>2. CASE update.step = "pull"
    <3>1. /\ update.now \in Versions /\ update' \in Update /\ update'.version = update.version
          /\ update'.image = update.image /\ update'.now = update.now
      BY <1>4, <2>1, <2>2 DEF Update
    <3> QED
      BY <1>1, <2>1, <2>2, <3>1, ServerAlone DEF ServerInv
  <2>3. CASE update.step = "back"
    <3>1. update.now \in Versions /\ update' \in Update /\ update'.step = "forget"
      BY <1>4, <2>1, <2>3 DEF Update
    <3> QED
      BY <1>1, <2>1, <2>3, <3>1, ServerAlone DEF ServerInv
  <2> QED
    BY <2>1, <2>2, <2>3
<1>9. CASE NoteUpdate
  <2> DEFINE entry == [image |-> update.image, version |-> update.version, now |-> update.now]
  <2>1. /\ undo' = entry /\ update.step = "note" /\ health' \in {0, image} /\ update' = NoUpdate
        /\ UNCHANGED <<control, desktop, env, image, cuts>>
    BY <1>9 DEF NoteUpdate
  <2>2. /\ entry \in Undo /\ entry.image # 0 /\ entry.image = update.image
        /\ entry.version = update.version /\ entry.now = update.now
    BY <1>2, <1>4, <2>1 DEF Undo
  <2> HIDE DEF entry
  <2>3. ServerInv'
    BY <1>1, <1>2, <1>3, <2>1, <2>2 DEF ServerInv
  <2> QED
    BY <2>1, <2>3, ServerAlone
<1>10. CASE ForgetUpdate
  <2>1. /\ undo' = NoUndo /\ health' \in {0, image} /\ update' = NoUpdate
        /\ UNCHANGED <<control, desktop, env, image, cuts>>
    BY <1>10 DEF ForgetUpdate
  <2>2. ServerInv'
    BY <1>1, <1>2, <1>3, <2>1 DEF ServerInv
  <2> QED
    BY <2>1, <2>2, ServerAlone
<1>11. CASE ComposeFails
  <2>1. /\ update.step \in {"pull", "back"} /\ image' \in {image, update.now} /\ update' = NoUpdate
        /\ env' = (IF update.step = "pull" THEN update.image ELSE env)
        /\ UNCHANGED <<control, desktop, health, undo, cuts>>
    BY <1>11 DEF ComposeFails
  <2>2. update.now \in Versions /\ (update.step = "pull" => update.image \in Versions)
    BY <1>4, <2>1
  <2>3. ServerInv'
    BY <1>1, <1>3, <2>1, <2>2 DEF ServerInv
  <2> QED
    BY <2>1, <2>3, ServerAlone
<1> QED
  BY <1>5, <1>6, <1>7, <1>8, <1>9, <1>10, <1>11

LEMMA PowerKeeps ==
  ASSUME UpdatesInv, PowerFails
  PROVE  UpdatesInv'
<1>1. DesktopInv /\ ServerInv /\ ControlInv
  BY DEF UpdatesInv, DesktopInv
<1>2. /\ cuts' = cuts + 1 /\ running' = 0 /\ script' = "none" /\ update' = NoUpdate /\ health' = 0
      /\ UNCHANGED <<control, app, state, backups, rollback, env, image, undo>>
      /\ \/ staged' = staged
         \/ state.status = "downloading" /\ staged' = [version |-> LastVersion, whole |-> FALSE]
  BY DEF PowerFails
<1>3. staged' \in File /\ (state.status # "downloading" => staged' = staged)
  <2>1. [version |-> LastVersion, whole |-> FALSE] \in File /\ staged \in File
    BY <1>1, VersionAssumption DEF DesktopInv, DesktopShape, File
  <2> QED
    BY <1>2, <2>1
<1>4. cuts \in Nat /\ cuts' \in Nat /\ cuts' >= 1 /\ cuts' > cuts
  BY <1>1, <1>2 DEF DesktopInv, DesktopShape
<1>5. DesktopInv'
  BY <1>1, <1>2, <1>3, <1>4 DEF DesktopInv, DesktopShape, ScriptAlone, StagedNewer, BackupsKept, CutsTold
<1>6. ServerInv'
  <2>1. 0 \in 0..LastVersion /\ NoUpdate \in Update /\ NoUpdate.step = "none"
    BY VersionAssumption DEF Update, NoUpdate
  <2> QED
    BY <1>1, <1>2, <2>1 DEF ServerInv
<1>7. ControlInv'
  BY <1>1, <1>2 DEF ControlInv, control
<1> QED
  BY <1>5, <1>6, <1>7 DEF UpdatesInv, DesktopInv

LEMMA UpdatesStart == UpdatesInit => UpdatesInv
<1> SUFFICES ASSUME UpdatesInit PROVE UpdatesInv
  OBVIOUS
<1>1. 1 \in Versions /\ 0 \in 0..LastVersion /\ 1 \in 0..LastVersion
  BY VersionAssumption DEF Versions
<1>2. ControlInv
  <2> DEFINE first == <<[version |-> 1, channel |-> Own, ref |-> "url"]>>
  <2>1. [version |-> 1, channel |-> Own, ref |-> "url"] \in Release
    BY <1>1, VersionAssumption DEF Release, Refs
  <2>2. first \in Seq(Release) /\ Len(first) = 1
    BY <2>1
  <2> HIDE DEF first
  <2>3. releases \in [Artifacts -> Seq(Release)] /\ \A a \in Artifacts : Len(releases[a]) = 1
    BY <2>2 DEF UpdatesInit, first
  <2> QED
    BY <1>1, <2>3, VersionAssumption DEF UpdatesInit, ControlInv
<1>3. DesktopShape
  BY <1>1 DEF UpdatesInit, DesktopShape, File, NoFile, DesktopState, Refs
<1>4. ScriptAlone /\ StagedNewer /\ BackupsKept /\ CutsTold
  BY <1>1 DEF UpdatesInit, ScriptAlone, StagedNewer, BackupsKept, CutsTold
<1>5. ServerInv
  BY <1>1 DEF UpdatesInit, ServerInv, Undo, NoUndo, Update, NoUpdate
<1> QED
  BY <1>2, <1>3, <1>4, <1>5 DEF UpdatesInv

LEMMA UpdatesStep == UpdatesInv /\ [UpdatesNext]_updates => UpdatesInv'
<1>1. CASE UNCHANGED updates
  BY <1>1 DEF updates, control, desktop, server, UpdatesInv, ControlInv, DesktopShape, ScriptAlone, StagedNewer,
              BackupsKept, CutsTold, ServerInv
<1>2. UpdatesInv /\ UpdatesNext => UpdatesInv'
  BY PublishingKeeps, PinningKeeps, DownloadKeeps, ApplyKeeps, RollbackKeeps, CopyKeeps, MoveKeeps, NoteKeeps,
     RestoreKeeps, ForgetKeeps, LaunchKeeps, ServerSteps, PowerKeeps DEF UpdatesNext
<1> QED
  BY <1>1, <1>2

\* At every step of a download, of the scripts that replace the app or bring it back,
\* of the server's update and at every power cut: a backup is older than what took its
\* place, a file that is half written is not the only one, and the script runs alone.
THEOREM UpdatesInvariant == UpdatesSpec => []UpdatesInv
BY UpdatesStart, UpdatesStep, PTL DEF UpdatesSpec

\* Wherever the power fails in an update there is a whole app to start, short of two
\* failures, and a rollback of the app or of the server never goes forward.
THEOREM RollbackHolds == UpdatesSpec => []RollbackGoesBack
<1>1. ASSUME UpdatesInv PROVE RollbackGoesBack
  <2>1. ControlInv /\ DesktopShape /\ BackupsKept /\ CutsTold /\ ServerInv
    BY <1>1 DEF UpdatesInv
  <2>2. app.whole \/ cuts > 1
    BY <2>1 DEF DesktopShape, CutsTold
  <2>3. rollback # 0 /\ backups[rollback].whole => backups[rollback].version = rollback /\ rollback <= app.version
    <3>1. rollback # 0 => rollback \in Versions
      BY <2>1, VersionAssumption DEF DesktopShape, Versions
    <3> QED
      BY <2>1, <3>1 DEF BackupsKept, NoFile
  <2>4. undo.image # 0 /\ undo.version = undo.image => undo.image < undo.now
    BY <2>1 DEF ServerInv
  <2>5. Candidates("app") # {} => \/ Previous("app") < Offered("app")
                                 \/ assigned["app"] # [channel |-> Own, version |-> 0]
    BY <2>1, PreviousIs DEF Artifacts
  <2> QED
    BY <2>2, <2>3, <2>4, <2>5 DEF RollbackGoesBack
<1> QED
  BY <1>1, UpdatesInvariant, PTL

LEMMA UpdatesTyped == UpdatesInv => UpdatesTypeOK
<1> SUFFICES ASSUME UpdatesInv PROVE UpdatesTypeOK
  OBVIOUS
<1>1. ControlInv /\ DesktopShape /\ ServerInv
  BY DEF UpdatesInv
<1>2. ASSUME NEW a \in Artifacts, NEW r \in DOMAIN releases[a]
      PROVE  releases[a][r] \in [version : Versions, channel : Channels, ref : {"url", "file"}]
  <2>1. releases[a][r] \in Release
    BY <1>1, ReleasesOf
  <2> QED
    BY <2>1 DEF Release, Refs
<1>3. app.version \in Versions
  BY <1>1, VersionAssumption DEF DesktopShape, File, Versions
<1> QED
  BY <1>1, <1>2, <1>3 DEF UpdatesTypeOK, ControlInv, DesktopShape, DesktopState, ServerInv

\* Types, of the releases, the app's files, the server's .env and what the pages say.
THEOREM UpdatesTypes == UpdatesSpec => []UpdatesTypeOK
BY UpdatesTyped, UpdatesInvariant, PTL

-----------------------------------------------------------------------------
(* Licences                                                                *)

\* Terms that end, but for a perpetual licence.
FitTerms == {terms \in Copies : terms.type # "perpetual" => terms.until # Unset}
Hardware == [Parts -> 0..3]
PrintRow == [tenant : Nat, parts : Hardware, seen : Nat]
Licence == [tenant : Nat, terms : FitTerms, seen : Nat \cup {Unset}]
TaskSteps == {"none", "tenant", "print", "trial", "licence", "first", "grant", "issue", "reply", "renew"}
Doing == [step : TaskSteps, for : Machines \cup {"admin", "nobody"}, tenant : Nat, parts : Hardware, seen : Nat,
          licence : Nat, terms : FitTerms \cup {NoCopy}]

MachinesShape ==
    /\ today \in Nat /\ hardware \in [Machines -> Hardware]
    /\ token \in [Machines -> 0..registered] /\ copy \in [Machines -> FitTerms \cup {NoCopy}]
    /\ \A m \in Machines : copy[m] # NoCopy => token[m] # 0

TablesShape ==
    /\ registered \in Nat /\ prints \in Seq(PrintRow) /\ licences \in Seq(Licence)
    /\ \A p \in DOMAIN prints : prints[p].tenant \in 1..registered /\ prints[p].seen < p
    /\ \A l \in DOMAIN licences : licences[l].tenant \in 1..registered

\* What a call holds is so, and what it saw when it looked is so of what there was.
Holds(doing) ==
    /\ doing.step \in TaskSteps \ {"none", "tenant", "renew"} => doing.tenant \in 1..registered
    /\ doing.step \in {"issue", "reply"} => doing.terms \in FitTerms
    /\ doing.step = "renew" =>
          /\ doing.licence \in DOMAIN licences /\ doing.terms \in FitTerms
          /\ doing.terms.until \in Nat /\ doing.terms.support \in Nat
SawNoPrint(doing) ==
    doing.step \in {"tenant", "print"} =>
        /\ doing.seen <= Len(prints)
        /\ \A p \in 1..doing.seen :
              \/ ~(compute_match_score(prints[p].parts, doing.parts) >= MATCH_THRESHOLD)
              \/ Crowded(p, doing.seen, doing.parts)
SawNoLicence(doing) ==
    doing.step \in {"first", "grant"} =>
        doing.seen <= Len(licences) /\ \A l \in 1..doing.seen : licences[l].tenant # doing.tenant
Stands(doing) == Holds(doing) /\ SawNoPrint(doing) /\ SawNoLicence(doing)
TasksStand ==
    task \in [Callers -> Doing] /\ \A c \in Callers, doing \in Doing : task[c] = doing => Stands(doing)

LicensingInv == MachinesShape /\ TablesShape /\ TasksStand /\ GrantedOnce

\* Tables only grow, and what a print or a licence is for stays.
Grown ==
    /\ registered <= registered' /\ registered' \in Nat
    /\ Len(prints) <= Len(prints') /\ \A p \in 1..Len(prints) : prints'[p] = prints[p]
    /\ Len(licences) <= Len(licences') /\ \A l \in 1..Len(licences) : licences'[l].tenant = licences[l].tenant

LEMMA LicensingTables ==
  ASSUME TablesShape
  PROVE  /\ Len(prints) \in Nat /\ DOMAIN prints = 1..Len(prints) /\ \A p \in 1..Len(prints) : prints[p] \in PrintRow
         /\ Len(licences) \in Nat /\ DOMAIN licences = 1..Len(licences)
         /\ \A l \in 1..Len(licences) : licences[l] \in Licence
<1>1. prints \in Seq(PrintRow) /\ licences \in Seq(Licence)
  BY DEF TablesShape
<1>2. Len(prints) \in Nat /\ DOMAIN prints = 1..Len(prints) /\ Len(licences) \in Nat /\ DOMAIN licences = 1..Len(licences)
  BY <1>1, LenProperties
<1> QED
  BY <1>1, <1>2, ElementOfSeq

\* Whether prints that are there hide another is not changed by later ones.
LEMMA CrowdedStays ==
  ASSUME Len(prints) \in Nat, \A q \in 1..Len(prints) : prints'[q] = prints[q],
         NEW p \in Nat, NEW n \in Nat, n <= Len(prints), NEW parts
  PROVE  Crowded(p, n, parts)' <=> Crowded(p, n, parts)
<1>1. \A q \in (p + 1)..n : prints'[q] = prints[q]
  OBVIOUS
<1>2. Alike(p, n, parts)' = Alike(p, n, parts)
  BY <1>1 DEF Alike, compute_match_score, Adds
<1> QED
  BY <1>2 DEF Crowded

\* What a call holds and saw stands when the tables grow.
LEMMA StandsStill ==
  ASSUME TablesShape, TablesShape', Grown, NEW doing \in Doing, Stands(doing)
  PROVE  Stands(doing)'
<1>1. /\ Len(prints) \in Nat /\ Len(prints') \in Nat /\ Len(licences) \in Nat /\ Len(licences') \in Nat
      /\ DOMAIN licences = 1..Len(licences)
  BY LicensingTables, LenProperties DEF TablesShape
<1>2. DOMAIN licences' = 1..Len(licences')
  BY LenProperties DEF TablesShape
<1>3. doing.seen \in Nat /\ doing.tenant \in Nat /\ doing.licence \in Nat
  BY DEF Doing
<1>4. Holds(doing)'
  BY <1>1, <1>2, <1>3 DEF Stands, Holds, Grown, TablesShape
<1>5. SawNoPrint(doing)'
  <2> SUFFICES ASSUME doing.step \in {"tenant", "print"} PROVE SawNoPrint(doing)'
    BY DEF SawNoPrint
  <2>1. /\ doing.seen <= Len(prints) /\ Len(prints) <= Len(prints')
        /\ \A q \in 1..Len(prints) : prints'[q] = prints[q]
    BY DEF Stands, SawNoPrint, Grown
  <2>2. ASSUME NEW p \in 1..doing.seen
        PROVE  \/ ~(compute_match_score(prints'[p].parts, doing.parts) >= MATCH_THRESHOLD)
               \/ Crowded(p, doing.seen, doing.parts)'
    <3>1. p \in 1..Len(prints) /\ p \in Nat
      BY <1>1, <1>3, <2>1
    <3>2. \/ ~(compute_match_score(prints[p].parts, doing.parts) >= MATCH_THRESHOLD)
          \/ Crowded(p, doing.seen, doing.parts)
      BY <2>2 DEF Stands, SawNoPrint
    <3>3. Crowded(p, doing.seen, doing.parts)' <=> Crowded(p, doing.seen, doing.parts)
      BY <1>1, <1>3, <2>1, <3>1, CrowdedStays
    <3> QED
      BY <2>1, <3>1, <3>2, <3>3
  <2>3. doing.seen <= Len(prints')
    BY <1>1, <1>3, <2>1
  <2> QED
    BY <2>2, <2>3 DEF SawNoPrint, compute_match_score, Adds
<1>6. SawNoLicence(doing)'
  BY <1>1, <1>3 DEF Stands, SawNoLicence, Grown
<1> QED
  BY <1>4, <1>5, <1>6 DEF Stands

\* One call goes on, and the others stand as they did.
LEMMA CallGoesOn ==
  ASSUME LicensingInv, TablesShape', Grown, NEW c \in Callers, NEW doing \in Doing, Does(c, doing), Stands(doing)'
  PROVE  TasksStand'
<1>1. task \in [Callers -> Doing] /\ task' = [task EXCEPT ![c] = doing] /\ TablesShape
  BY DEF LicensingInv, TasksStand, Does
<1>2. task' \in [Callers -> Doing] /\ task'[c] = doing /\ \A d \in Callers \ {c} : task'[d] = task[d]
  BY <1>1
<1>3. ASSUME NEW d \in Callers, NEW one \in Doing, task'[d] = one PROVE Stands(one)'
  <2>1. CASE d = c
    BY <1>2, <1>3, <2>1
  <2>2. CASE d # c
    <3>1. Stands(one)
      BY <1>2, <1>3, <2>2 DEF LicensingInv, TasksStand
    <3> QED
      BY <1>1, <3>1, StandsStill
  <2> QED
    BY <2>1, <2>2
<1> QED
  BY <1>2, <1>3 DEF TasksStand

\* A step that writes no print and no licence leaves what was granted.
LEMMA GrantsKeep ==
  ASSUME LicensingInv, UNCHANGED <<prints, licences>>, registered <= registered', registered' \in Nat
  PROVE  TablesShape' /\ Grown /\ GrantedOnce'
<1>1. registered \in Nat /\ Len(prints) \in Nat /\ Len(licences) \in Nat /\ TablesShape
  BY LicensingTables DEF LicensingInv, TablesShape
<1>2. TablesShape'
  BY <1>1 DEF TablesShape
<1>3. Grown
  BY <1>1 DEF Grown
<1> QED
  BY <1>2, <1>3 DEF LicensingInv, GrantedOnce, Crowded, Alike, compute_match_score, Adds

\* One call goes on, and nothing else happens.
LEMMA CallAlone ==
  ASSUME LicensingInv, NEW c \in Callers, NEW doing \in Doing, Does(c, doing), Stands(doing),
         UNCHANGED <<today, hardware, tables, machine>>
  PROVE  LicensingInv'
<1>1. UNCHANGED <<today, hardware, registered, prints, licences, token, copy>>
  BY DEF tables, machine
<1>2. registered <= registered' /\ registered' \in Nat
  BY <1>1 DEF LicensingInv, TablesShape
<1>3. TablesShape' /\ Grown /\ GrantedOnce'
  BY <1>1, <1>2, GrantsKeep
<1>4. TablesShape
  BY DEF LicensingInv
<1>5. Stands(doing)'
  BY <1>3, <1>4, StandsStill
<1>6. TasksStand'
  BY <1>3, <1>5, CallGoesOn
<1> QED
  BY <1>1, <1>3, <1>6 DEF LicensingInv, MachinesShape

\* The free call holds nothing.
LEMMA FreeStands == Free \in Doing /\ Free.step = "none" /\ Stands(Free)
BY DEF Free, Doing, TaskSteps, Hardware, Parts, Stands, Holds, SawNoPrint, SawNoLicence

\* Scores are few, so that there is a best one.
LEMMA ScoreIs ==
  ASSUME NEW stored \in Hardware, NEW incoming \in Hardware
  PROVE  compute_match_score(stored, incoming) \in 0..10
<1>1. \A p \in Parts : stored[p] \in 0..3 /\ incoming[p] \in 0..3
  BY DEF Hardware
<1>2. /\ WEIGHTS["board_serial"] = 3 /\ WEIGHTS["cpu_model"] = 2 /\ WEIGHTS["mac_primary"] = 2
      /\ WEIGHTS["disk_serial"] = 2 /\ WEIGHTS["board_name"] = 1
  BY DEF WEIGHTS
<1>3. /\ Adds("board_serial", stored, incoming) \in {0, 3} /\ Adds("cpu_model", stored, incoming) \in {0, 2}
      /\ Adds("mac_primary", stored, incoming) \in {0, 2} /\ Adds("disk_serial", stored, incoming) \in {0, 2}
      /\ Adds("board_name", stored, incoming) \in {0, 1}
  BY <1>2 DEF Adds
<1> QED
  BY <1>3 DEF compute_match_score

LEMMA BestMatchMatches ==
  ASSUME TablesShape, NEW parts \in Hardware, Matches(parts) # {}
  PROVE  BestMatch(parts) \in Matches(parts)
<1> DEFINE S == Matches(parts)
           score(p) == compute_match_score(prints[p].parts, parts)
           Scores == {score(p) : p \in S}
<1>1. /\ Len(prints) \in Nat /\ S \subseteq 1..Len(prints)
      /\ \A p \in S : score(p) \in 1..10
  <2>1. Len(prints) \in Nat /\ DOMAIN prints = 1..Len(prints) /\ \A p \in 1..Len(prints) : prints[p].parts \in Hardware
    BY LicensingTables DEF PrintRow
  <2>2. \A p \in 1..Len(prints) : score(p) \in 0..10
    BY <2>1, ScoreIs
  <2>3. \A p \in S : p \in 1..Len(prints) /\ score(p) >= 5
    BY <2>1 DEF Matches, MATCH_THRESHOLD
  <2> HIDE DEF S, score
  <2>4. \A p \in S : score(p) \in 1..10
    BY <2>2, <2>3
  <2> QED
    BY <2>1, <2>3, <2>4
<1> HIDE DEF S, score
<1>2. PICK best \in Scores : \A s \in Scores : s <= best
  <2>1. Scores \in SUBSET (1..10) /\ Scores # {}
    BY <1>1 DEF S
  <2> HIDE DEF Scores
  <2> QED
    BY <2>1, NewestThereIs
<1> DEFINE B == {p \in S : score(p) = best}
<1>3. B \in SUBSET (1..Len(prints)) /\ B # {}
  BY <1>1, <1>2
<1>4. PICK p \in B : \A q \in B : q <= p
  BY <1>1, <1>3, NewestThereIs
<1>5. \A q \in S : score(p) > score(q) \/ (score(p) = score(q) /\ p >= q)
  <2> TAKE q \in S
  <2>1. score(q) <= score(p) /\ score(q) \in 1..10 /\ score(p) \in 1..10
    BY <1>1, <1>2, <1>4
  <2>2. CASE score(q) = score(p)
    <3>1. q <= p /\ p \in Nat /\ q \in Nat
      BY <1>1, <1>4, <2>2
    <3> QED
      BY <2>2, <3>1
  <2>3. CASE score(q) # score(p)
    BY <2>1, <2>3
  <2> QED
    BY <2>2, <2>3
<1>6. \E x \in S : \A q \in S : score(x) > score(q) \/ (score(x) = score(q) /\ x >= q)
  BY <1>4, <1>5
<1>7. BestMatch(parts) = CHOOSE x \in S : \A q \in S : score(x) > score(q) \/ (score(x) = score(q) /\ x >= q)
  BY DEF BestMatch, S, score
<1> QED
  BY <1>6, <1>7 DEF S

\* A machine that is known gets its token again; another begins, having seen no print like its own.
LEMMA PreRegisterKeeps ==
  ASSUME LicensingInv, NEW c \in Callers, NEW m \in Machines, PreRegister(c, m)
  PROVE  LicensingInv'
<1>1. PICK parts \in Hardware : parts = hardware[m]
  BY DEF LicensingInv, MachinesShape
<1>2. TablesShape /\ Len(prints) \in Nat /\ DOMAIN prints = 1..Len(prints)
  BY LicensingTables DEF LicensingInv
<1>3. UNCHANGED <<today, hardware, tables, machine>>
  BY DEF PreRegister
<1>4. CASE Matches(parts) # {}
  <2>1. PICK t \in 1..registered : t = prints[BestMatch(parts)].tenant
    BY <1>2, <1>4, BestMatchMatches DEF TablesShape, Matches
  <2>2. PICK doing : doing = [Free EXCEPT !.step = "licence", !.for = m, !.tenant = t]
    OBVIOUS
  <2>3. t \in Nat
    BY <1>2 DEF TablesShape
  <2>4. doing \in Doing /\ doing.step = "licence" /\ doing.tenant = t
    BY <2>2, <2>3, FreeStands DEF Doing, TaskSteps
  <2>5. Does(c, doing)
    BY <1>1, <1>4, <2>1, <2>2 DEF PreRegister
  <2>6. Stands(doing)
    BY <2>4 DEF Stands, Holds, SawNoPrint, SawNoLicence
  <2> QED
    BY <1>3, <2>4, <2>5, <2>6, CallAlone
<1>5. CASE Matches(parts) = {}
  <2>1. PICK doing : doing = [Free EXCEPT !.step = "tenant", !.for = m, !.parts = parts, !.seen = Len(prints)]
    OBVIOUS
  <2>2. doing \in Doing /\ doing.step = "tenant" /\ doing.parts = parts /\ doing.seen = Len(prints)
    BY <1>2, <2>1, FreeStands DEF Doing, TaskSteps
  <2>3. Does(c, doing)
    BY <1>1, <1>5, <2>1 DEF PreRegister
  <2>4. Stands(doing)
    <3>1. \A p \in 1..Len(prints) : \/ ~(compute_match_score(prints[p].parts, parts) >= MATCH_THRESHOLD)
                                     \/ Crowded(p, Len(prints), parts)
      BY <1>2, <1>5 DEF Matches
    <3> QED
      BY <1>2, <2>2, <3>1 DEF Stands, Holds, SawNoPrint, SawNoLicence
  <2> QED
    BY <1>3, <2>2, <2>3, <2>4, CallAlone
<1> QED
  BY <1>4, <1>5

\* What is issued ends, but for a perpetual licence.
LEMMA IssuableFits == today \in Nat => Issuable \subseteq FitTerms /\ TrialTerms \in FitTerms
<1> SUFFICES ASSUME today \in Nat PROVE Issuable \subseteq FitTerms /\ TrialTerms \in FitTerms
  OBVIOUS
<1>1. /\ IssuedTrialDays \in Nat /\ MonthDays \in Nat /\ SupportDays \in Nat /\ TrialDays \in Nat
      /\ \A o \in Offers : o.type \in Types /\ o.status \in Statuses /\ o.until \in Nat \cup {-1} /\ o.grace \in Nat
  BY TermsAssumption
<1>2. ASSUME NEW o \in Offers PROVE create_license_values(o.type, o.status, o.until, o.grace) \in FitTerms
  <2>1. PICK type \in Types : type = o.type
    BY <1>1
  <2>2. PICK given \in Nat \cup {-1} : given = o.until
    BY <1>1
  <2> DEFINE last == CASE type = "trial" -> today + IssuedTrialDays
                       [] type = "monthly" -> today + MonthDays
                       [] type = "perpetual" -> today + SupportDays
             until == OrElse(given, last)
             terms == [type |-> type, status |-> o.status, grace |-> o.grace,
                       until |-> IF type = "perpetual" THEN Unset ELSE until,
                       support |-> IF type = "perpetual" THEN last ELSE until,
                       trial |-> IF type = "trial" THEN until ELSE Unset]
  <2>3. create_license_values(o.type, o.status, o.until, o.grace) = terms
    BY <2>1, <2>2 DEF create_license_values
  <2>4. last \in Nat
    BY <1>1 DEF Types
  <2> HIDE DEF last
  <2>5. until \in Nat
    BY <2>4 DEF OrElse, Unset
  <2> HIDE DEF until
  <2>6. terms \in Copies
    BY <1>1, <2>4, <2>5 DEF Copies
  <2>7. terms.type # "perpetual" => terms.until # Unset
    BY <2>5 DEF Unset
  <2> QED
    BY <2>3, <2>6, <2>7 DEF FitTerms
<1>3. TrialTerms \in FitTerms
  <2>1. today + TrialDays \in Nat
    BY <1>1
  <2> QED
    BY <2>1 DEF TrialTerms, FitTerms, Copies, Types, Statuses, Unset
<1> QED
  BY <1>2, <1>3 DEF Issuable

\* The agent asks for the licence, or the administrator issues one.
LEMMA AskingKeeps ==
  ASSUME LicensingInv, NEW c \in Callers,
         \/ \E m \in Machines : Resolve(c, m)
         \/ \E t \in 1..registered, terms \in Issuable : issue_license(c, t, terms)
  PROVE  LicensingInv'
<1>0. registered \in Nat /\ today \in Nat
  BY DEF LicensingInv, TablesShape, MachinesShape
<1>1. ASSUME NEW m \in Machines, Resolve(c, m) PROVE LicensingInv'
  <2>1. PICK t : t = token[m]
    OBVIOUS
  <2>2. t \in 0..registered /\ t # 0
    BY <1>1, <2>1 DEF Resolve, LicensingInv, MachinesShape
  <2>3. t \in 1..registered /\ t \in Nat
    BY <1>0, <2>2
  <2>4. PICK doing : doing = [Free EXCEPT !.step = "licence", !.for = m, !.tenant = t]
    OBVIOUS
  <2>5. doing \in Doing /\ doing.step = "licence" /\ doing.tenant = t
    BY <2>3, <2>4, FreeStands DEF Doing, TaskSteps
  <2>6. Does(c, doing) /\ UNCHANGED <<today, hardware, tables, machine>>
    BY <1>1, <2>1, <2>4 DEF Resolve
  <2>7. Stands(doing)
    BY <2>3, <2>5 DEF Stands, Holds, SawNoPrint, SawNoLicence
  <2> QED
    BY <2>5, <2>6, <2>7, CallAlone
<1>2. ASSUME NEW t \in 1..registered, NEW terms \in Issuable, issue_license(c, t, terms) PROVE LicensingInv'
  <2>1. terms \in FitTerms /\ t \in Nat
    BY <1>0, IssuableFits
  <2>2. PICK doing : doing = [Free EXCEPT !.step = "trial", !.for = "admin", !.tenant = t, !.terms = terms]
    OBVIOUS
  <2>3. Does(c, doing) /\ UNCHANGED <<today, hardware, tables, machine>>
    BY <1>2, <2>2 DEF issue_license
  <2>4. doing \in Doing /\ doing.step = "trial" /\ doing.tenant = t
    BY <2>1, <2>2, FreeStands DEF Doing, TaskSteps
  <2>5. Stands(doing)
    BY <2>4 DEF Stands, Holds, SawNoPrint, SawNoLicence
  <2> QED
    BY <2>3, <2>4, <2>5, CallAlone
<1> QED
  BY <1>1, <1>2

\* There is one tenant more.
LEMMA TenantAdded ==
  ASSUME LicensingInv, NEW c \in Callers, NEW doing \in Doing, Does(c, doing), registered' = registered + 1,
         UNCHANGED <<today, hardware, prints, licences, machine>>, Stands(doing)'
  PROVE  LicensingInv'
<1>1. registered \in Nat /\ registered <= registered' /\ registered' \in Nat
  BY DEF LicensingInv, TablesShape
<1>2. UNCHANGED <<today, hardware, prints, licences, token, copy>>
  BY DEF machine
<1>3. TablesShape' /\ Grown /\ GrantedOnce'
  BY <1>1, <1>2, GrantsKeep
<1>4. TasksStand'
  BY <1>3, CallGoesOn
<1>5. MachinesShape'
  BY <1>1, <1>2 DEF LicensingInv, MachinesShape
<1> QED
  BY <1>3, <1>4, <1>5 DEF LicensingInv

LEMMA InsertTenantKeeps ==
  ASSUME LicensingInv, NEW c \in Callers, InsertTenant(c)
  PROVE  LicensingInv'
<1>1. PICK before \in Doing : before = task[c] /\ Stands(before) /\ before.step = "tenant"
  BY DEF LicensingInv, TasksStand, InsertTenant, On
<1>2. registered \in Nat
  BY DEF LicensingInv, TablesShape
<1>3. PICK t \in Nat : t = registered + 1
  BY <1>2
<1>4. PICK doing : doing = [before EXCEPT !.step = "print", !.tenant = t]
  OBVIOUS
<1>5. doing \in Doing /\ doing.step = "print" /\ doing.tenant = t /\ doing.seen = before.seen /\ doing.parts = before.parts
  BY <1>4 DEF Doing, TaskSteps
<1>6. /\ Does(c, doing) /\ registered' = registered + 1
      /\ UNCHANGED <<today, hardware, prints, licences, machine>>
  BY <1>1, <1>3, <1>4 DEF InsertTenant
<1>7. Stands(doing)'
  <2>1. SawNoPrint(doing)'
    BY <1>1, <1>5, <1>6 DEF Stands, SawNoPrint, Crowded, Alike, compute_match_score, Adds
  <2>2. Holds(doing)' /\ SawNoLicence(doing)'
    BY <1>2, <1>3, <1>5, <1>6 DEF Holds, SawNoLicence
  <2> QED
    BY <2>1, <2>2 DEF Stands
<1> QED
  BY <1>5, <1>6, <1>7, TenantAdded

LEMMA CreateTenantKeeps ==
  ASSUME LicensingInv, NEW c \in Callers, NEW then \in Issuable \cup {NoCopy}, create_tenant(c, then)
  PROVE  LicensingInv'
<1>1. registered \in Nat /\ then \in FitTerms \cup {NoCopy}
  BY IssuableFits DEF LicensingInv, TablesShape, MachinesShape
<1>2. PICK t \in Nat : t = registered + 1
  BY <1>1
<1>3. PICK doing : doing = [Free EXCEPT !.step = "trial", !.for = "admin", !.tenant = t, !.terms = then]
  OBVIOUS
<1>4. /\ Does(c, doing) /\ registered' = registered + 1
      /\ UNCHANGED <<today, hardware, prints, licences, machine>>
  BY <1>2, <1>3 DEF create_tenant
<1>5. doing \in Doing /\ doing.step = "trial" /\ doing.tenant = t
  BY <1>1, <1>3, FreeStands DEF Doing, TaskSteps
<1>6. Stands(doing)'
  BY <1>1, <1>2, <1>4, <1>5 DEF Stands, Holds, SawNoPrint, SawNoLicence
<1> QED
  BY <1>4, <1>5, <1>6, TenantAdded

\* A print is stored by a call that saw none like it when it looked.
LEMMA InsertPrintKeeps ==
  ASSUME LicensingInv, NEW c \in Callers, InsertPrint(c)
  PROVE  LicensingInv'
<1>1. PICK before \in Doing : before = task[c] /\ Stands(before) /\ before.step = "print"
  BY DEF LicensingInv, TasksStand, InsertPrint, On
<1>2. /\ Len(prints) \in Nat /\ DOMAIN prints = 1..Len(prints) /\ \A p \in 1..Len(prints) : prints[p] \in PrintRow
      /\ Len(licences) \in Nat /\ TablesShape
  BY LicensingTables DEF LicensingInv
<1>3. PICK row : row = [tenant |-> before.tenant, parts |-> before.parts, seen |-> before.seen]
  OBVIOUS
<1>4. row \in PrintRow /\ row.tenant \in 1..registered /\ row.parts = before.parts /\ row.seen = before.seen
  BY <1>1, <1>3 DEF Doing, PrintRow, Stands, Holds, TaskSteps
<1>5. PICK doing : doing = [Free EXCEPT !.step = "trial", !.for = before.for, !.tenant = before.tenant]
  OBVIOUS
<1>6. /\ prints' = Append(prints, row) /\ Does(c, doing)
      /\ UNCHANGED <<today, hardware, registered, licences, token, copy>>
  BY <1>1, <1>3, <1>5 DEF InsertPrint, machine
<1>7. doing \in Doing /\ doing.step = "trial" /\ doing.tenant = before.tenant
  BY <1>1, <1>5, FreeStands DEF Doing, TaskSteps
<1> DEFINE n == Len(prints) + 1
<1>8. /\ prints' \in Seq(PrintRow) /\ Len(prints') = n /\ prints'[n] = row /\ DOMAIN prints' = 1..n
      /\ \A p \in 1..Len(prints) : prints'[p] = prints[p]
  BY <1>2, <1>4, <1>6, AppendProperties, LenProperties DEF TablesShape
<1>9. n \in Nat /\ \A p \in 1..n : p = n \/ p \in 1..Len(prints)
  BY <1>2
<1>10. TablesShape' /\ Grown
  <2>1. \A p \in 1..n : prints'[p].tenant \in 1..registered /\ prints'[p].seen < p
    <3>1. before.seen <= Len(prints) /\ before.seen \in Nat
      BY <1>1 DEF Stands, SawNoPrint, Doing
    <3>2. /\ \A p \in 1..Len(prints) : prints[p].tenant \in 1..registered /\ prints[p].seen < p
          /\ row.tenant \in 1..registered /\ row.seen < n
      BY <1>2, <1>4, <3>1 DEF TablesShape
    <3> HIDE DEF n
    <3> QED
      BY <1>8, <1>9, <3>2
  <2> QED
    BY <1>2, <1>6, <1>8, <2>1 DEF TablesShape, Grown
<1>11. GrantedOnce'
  <2>1. ASSUME NEW p \in 1..n, NEW q \in 1..n, p < q,
               compute_match_score(prints'[p].parts, prints'[q].parts) >= 5
        PROVE  p > prints'[q].seen \/ Crowded(p, prints[q].seen, prints[q].parts)'
    <3>1. p \in 1..Len(prints) /\ prints'[p] = prints[p] /\ p \in Nat
      BY <1>2, <1>8, <2>1
    <3>0. ASSUME NEW m \in Nat, m <= Len(prints), NEW parts
          PROVE  Crowded(p, m, parts)' <=> Crowded(p, m, parts)
      BY <1>2, <1>8, <3>0, <3>1, CrowdedStays
    <3>2. CASE q = n
      <4>1. ~(p \in 1..before.seen) \/ Crowded(p, before.seen, before.parts)
        BY <1>1, <1>4, <1>8, <2>1, <3>1, <3>2 DEF Stands, SawNoPrint, MATCH_THRESHOLD
      <4>2. /\ before.seen \in Nat /\ before.seen <= Len(prints)
            /\ prints'[q].seen = before.seen /\ prints'[q].parts = before.parts
        BY <1>1, <1>4, <1>8, <3>2 DEF Doing, Stands, SawNoPrint
      <4>3. ~(p \in 1..before.seen) \/ Crowded(p, before.seen, before.parts)'
        BY <3>0, <4>1, <4>2
      <4>4. Crowded(p, before.seen, before.parts)' => Crowded(p, prints[q].seen, prints[q].parts)'
        BY <4>2 DEF Crowded, Alike
      <4> QED
        BY <3>1, <4>2, <4>3, <4>4
    <3>3. CASE q # n
      <4>1. q \in 1..Len(prints) /\ prints'[q] = prints[q] /\ prints[q].seen \in Nat /\ prints[q].seen <= Len(prints)
        <5>1. q \in 1..Len(prints) /\ prints'[q] = prints[q]
          BY <1>8, <1>9, <3>3
        <5>2. prints[q].seen \in Nat /\ prints[q].seen < q /\ q \in 1..Len(prints)
          BY <1>2, <5>1 DEF TablesShape, PrintRow
        <5> QED
          BY <1>2, <5>1, <5>2
      <4>2. p > prints[q].seen \/ Crowded(p, prints[q].seen, prints[q].parts)
        BY <1>2, <2>1, <3>1, <4>1 DEF LicensingInv, GrantedOnce
      <4>3. PICK m \in Nat, parts \in Hardware : m = prints[q].seen /\ parts = prints[q].parts
        BY <1>2, <4>1 DEF PrintRow
      <4>4. p > m \/ Crowded(p, m, parts)'
        BY <3>0, <4>1, <4>2, <4>3
      <4>5. Crowded(p, m, parts)' => Crowded(p, prints[q].seen, prints[q].parts)'
        BY <4>1, <4>3 DEF Crowded, Alike
      <4> QED
        BY <4>1, <4>3, <4>4, <4>5
    <3> QED
      BY <3>2, <3>3
  <2>2. \A p, q \in DOMAIN prints' :
           p < q /\ compute_match_score(prints'[p].parts, prints'[q].parts) >= 5 =>
               p > prints'[q].seen \/ Crowded(p, prints[q].seen, prints[q].parts)'
    BY <1>8, <2>1
  <2>3. \A l, k \in DOMAIN licences' :
           l < k /\ licences'[l].tenant = licences'[k].tenant /\ licences'[k].seen # Unset => l > licences'[k].seen
    BY <1>6 DEF LicensingInv, GrantedOnce
  <2> QED
    BY <2>2, <2>3 DEF GrantedOnce, compute_match_score, Adds
<1>12. Stands(doing)'
  BY <1>3, <1>4, <1>6, <1>7 DEF Stands, Holds, SawNoPrint, SawNoLicence
<1>13. TasksStand'
  BY <1>6, <1>7, <1>10, <1>12, CallGoesOn
<1> QED
  BY <1>6, <1>10, <1>11, <1>13 DEF LicensingInv, MachinesShape

\* The answer of ensure_trial_license takes the call to a step it can stand at.
LEMMA ContinuedStands ==
  ASSUME LicensingInv, NEW c \in Callers, NEW before \in Doing, before = task[c],
         before.step \in {"trial", "licence", "first", "grant"}, NEW terms \in FitTerms,
         NEW doing, doing = Continued(c, terms)
  PROVE  doing \in Doing /\ doing.step \in {"none", "issue", "licence", "reply"} /\ Stands(doing)
<1>0. before \in Doing /\ terms \in FitTerms
  OBVIOUS
<1>1. before.tenant \in 1..registered
  BY DEF LicensingInv, TasksStand, Stands, Holds, TaskSteps
<1>2. CASE doing = Free
  BY <1>2, FreeStands
<1>3. CASE before.for = "admin" /\ before.terms # NoCopy
  <2>1. doing = [before EXCEPT !.step = "issue", !.seen = 0]
    BY <1>3 DEF Continued
  <2>2. doing \in Doing /\ doing.step = "issue" /\ doing.tenant = before.tenant /\ doing.terms = before.terms
    BY ONLY <1>0, <2>1 DEF Doing, TaskSteps
  <2>3. doing.terms \in FitTerms
    BY <1>3, <2>2 DEF Doing
  <2> QED
    BY <1>1, <2>2, <2>3 DEF Stands, Holds, SawNoPrint, SawNoLicence
<1>4. CASE before.for # "admin" /\ before.step \in {"trial", "first"}
  <2>1. doing = [before EXCEPT !.step = "licence", !.seen = 0]
    BY <1>4 DEF Continued, On
  <2>2. doing \in Doing /\ doing.step = "licence" /\ doing.tenant = before.tenant
    BY ONLY <1>0, <2>1 DEF Doing, TaskSteps
  <2> QED
    BY <1>1, <2>2 DEF Stands, Holds, SawNoPrint, SawNoLicence
<1>5. CASE before.for # "admin" /\ before.step \notin {"trial", "first"}
  <2>1. doing = [before EXCEPT !.step = "reply", !.seen = 0, !.terms = terms]
    BY <1>5 DEF Continued, On
  <2>2. doing \in Doing /\ doing.step = "reply" /\ doing.tenant = before.tenant /\ doing.terms = terms
    BY ONLY <1>0, <2>1 DEF Doing, TaskSteps
  <2> QED
    BY <1>1, <2>2 DEF Stands, Holds, SawNoPrint, SawNoLicence
<1> QED
  BY <1>2, <1>3, <1>4, <1>5 DEF Continued

LEMMA LatestIs ==
  ASSUME TablesShape, NEW t, LicencesOf(t) # {}
  PROVE  Latest(t) \in 1..Len(licences) /\ licences[Latest(t)] \in Licence
<1>1. Len(licences) \in Nat /\ DOMAIN licences = 1..Len(licences) /\ \A l \in 1..Len(licences) : licences[l] \in Licence
  BY LicensingTables
<1>2. PICK S \in SUBSET (1..Len(licences)) : S = LicencesOf(t)
  BY <1>1 DEF LicencesOf
<1>3. Max(S) \in S
  BY <1>1, <1>2, GreatestPlace
<1> QED
  BY <1>1, <1>2, <1>3 DEF Latest

\* A call finds the licence, or sees that there is none.
LEMMA LatestKeeps ==
  ASSUME LicensingInv, NEW c \in Callers, LookForLicence(c)
  PROVE  LicensingInv'
<1>1. PICK before \in Doing : before = task[c] /\ Stands(before) /\ before.step \in {"trial", "licence"}
  BY DEF LicensingInv, TasksStand, LookForLicence, On
<1>2. TablesShape /\ Len(licences) \in Nat /\ DOMAIN licences = 1..Len(licences)
  BY LicensingTables DEF LicensingInv
<1>3. UNCHANGED <<today, hardware, tables, machine>>
  BY DEF LookForLicence
<1>4. CASE LicencesOf(before.tenant) # {}
  <2>1. PICK terms \in FitTerms : terms = licences[Latest(before.tenant)].terms
    BY <1>2, <1>4, LatestIs DEF Licence
  <2>2. PICK doing : doing = Continued(c, terms)
    OBVIOUS
  <2>3. Does(c, doing)
    BY <1>1, <1>4, <2>1, <2>2 DEF LookForLicence
  <2>4. doing \in Doing /\ Stands(doing)
    BY <1>1, <2>2, ContinuedStands
  <2> QED
    BY <1>3, <2>3, <2>4, CallAlone
<1>5. CASE LicencesOf(before.tenant) = {}
  <2>1. PICK step \in {"first", "grant"} : step = IF On(c, "trial") THEN "first" ELSE "grant"
    OBVIOUS
  <2>2. PICK n \in Nat : n = Len(licences)
    BY <1>2
  <2>3. PICK doing : doing = [before EXCEPT !.step = step, !.seen = n]
    OBVIOUS
  <2>4. doing \in Doing /\ doing.step = step /\ doing.seen = n /\ doing.tenant = before.tenant
    BY <2>3 DEF Doing, TaskSteps
  <2>5. Does(c, doing)
    BY <1>1, <1>5, <2>1, <2>2, <2>3 DEF LookForLicence
  <2>6. before.tenant \in 1..registered
    BY <1>1 DEF Stands, Holds, TaskSteps
  <2>7. Stands(doing)
    BY <1>2, <1>5, <2>2, <2>4, <2>6 DEF Stands, Holds, SawNoPrint, SawNoLicence, LicencesOf
  <2> QED
    BY <1>3, <2>4, <2>5, <2>7, CallAlone
<1> QED
  BY <1>4, <1>5

\* There is one licence more; one that was granted is its tenant's first, but for
\* those since the call looked.
LEMMA LicenceAdded ==
  ASSUME LicensingInv, NEW row \in Licence, row.tenant \in 1..registered, licences' = Append(licences, row),
         UNCHANGED <<registered, prints>>,
         row.seen # Unset => row.seen <= Len(licences) /\ \A l \in 1..row.seen : licences[l].tenant # row.tenant
  PROVE  TablesShape' /\ Grown /\ GrantedOnce'
<1> DEFINE n == Len(licences) + 1
<1>1. /\ Len(licences) \in Nat /\ DOMAIN licences = 1..Len(licences) /\ TablesShape
      /\ Len(prints) \in Nat /\ registered \in Nat
  BY LicensingTables DEF LicensingInv, TablesShape
<1>2. /\ licences' \in Seq(Licence) /\ Len(licences') = n /\ licences'[n] = row /\ DOMAIN licences' = 1..n
      /\ \A l \in 1..Len(licences) : licences'[l] = licences[l]
  BY <1>1, AppendProperties, LenProperties DEF TablesShape
<1>3. n \in Nat /\ \A l \in 1..n : l = n \/ l \in 1..Len(licences)
  BY <1>1
<1>4. TablesShape' /\ Grown
  <2>1. \A l \in 1..n : licences'[l].tenant \in 1..registered
    BY <1>1, <1>2, <1>3 DEF TablesShape
  <2> QED
    BY <1>1, <1>2, <2>1 DEF TablesShape, Grown
<1>5. ASSUME NEW l \in 1..n, NEW k \in 1..n, l < k, licences'[l].tenant = licences'[k].tenant, licences'[k].seen # Unset
      PROVE  l > licences'[k].seen
  <2>1. l \in 1..Len(licences) /\ licences'[l] = licences[l]
    BY <1>1, <1>2, <1>5
  <2>2. CASE k = n
    <3>1. row.seen \in Nat
      BY <1>2, <1>5, <2>2 DEF Licence
    <3>2. ~(l \in 1..row.seen)
      BY <1>2, <1>5, <2>1, <2>2
    <3> QED
      BY <1>2, <2>1, <2>2, <3>1, <3>2
  <2>3. CASE k # n
    BY <1>1, <1>2, <1>3, <1>5, <2>1, <2>3 DEF LicensingInv, GrantedOnce
  <2> QED
    BY <2>2, <2>3
<1>6. GrantedOnce'
  BY <1>2, <1>5 DEF LicensingInv, GrantedOnce, Crowded, Alike, compute_match_score, Adds
<1> QED
  BY <1>4, <1>6

LEMMA GrantKeeps ==
  ASSUME LicensingInv, NEW c \in Callers, GrantTrial(c) \/ IssueRecord(c)
  PROVE  LicensingInv'
<1>1. today \in Nat /\ TablesShape
  BY DEF LicensingInv, MachinesShape
<1>2. PICK before \in Doing : before = task[c] /\ Stands(before)
  BY DEF LicensingInv, TasksStand
<1>3. PICK doing, row :
        /\ doing \in Doing /\ Stands(doing) /\ Does(c, doing) /\ row \in Licence /\ row.tenant \in 1..registered
        /\ doing.step \in {"none", "issue", "licence", "reply"}
        /\ licences' = Append(licences, row) /\ UNCHANGED <<today, hardware, registered, prints, token, copy>>
        /\ row.seen # Unset => row.seen <= Len(licences) /\ \A l \in 1..row.seen : licences[l].tenant # row.tenant
  <2>1. CASE GrantTrial(c)
    <3>1. before.step \in {"first", "grant"}
      BY <1>2, <2>1 DEF GrantTrial, On
    <3>2. PICK terms \in FitTerms : terms = TrialTerms
      BY <1>1, IssuableFits
    <3>3. PICK doing : doing = Continued(c, terms)
      OBVIOUS
    <3>4. doing \in Doing /\ Stands(doing) /\ doing.step \in {"none", "issue", "licence", "reply"}
      BY <1>2, <3>1, <3>3, ContinuedStands
    <3>5. PICK row : row = [tenant |-> before.tenant, terms |-> terms, seen |-> before.seen]
      OBVIOUS
    <3>6. row \in Licence /\ row.tenant = before.tenant /\ row.seen = before.seen
      BY <3>5 DEF Licence, Doing
    <3>7. before.tenant \in 1..registered
      BY <1>2, <3>1 DEF Stands, Holds, TaskSteps
    <3>8. before.seen <= Len(licences) /\ \A l \in 1..before.seen : licences[l].tenant # before.tenant
      BY <1>2, <3>1 DEF Stands, SawNoLicence
    <3>9. /\ Does(c, doing) /\ licences' = Append(licences, row)
          /\ UNCHANGED <<today, hardware, registered, prints, token, copy>>
      BY <1>2, <2>1, <3>2, <3>3, <3>5 DEF GrantTrial, machine
    <3> QED
      BY <3>4, <3>6, <3>7, <3>8, <3>9
  <2>2. CASE IssueRecord(c)
    <3>1. before.step = "issue"
      BY <1>2, <2>2 DEF IssueRecord, On
    <3>2. before.terms \in FitTerms /\ before.tenant \in 1..registered /\ before.tenant \in Nat
      BY <1>2, <3>1 DEF Stands, Holds, TaskSteps, Doing
    <3>3. PICK row : row = [tenant |-> before.tenant, terms |-> before.terms, seen |-> Unset]
      OBVIOUS
    <3>4. row \in Licence /\ row.tenant = before.tenant /\ row.seen = Unset
      BY <3>2, <3>3 DEF Licence
    <3>5. /\ Does(c, Free) /\ licences' = Append(licences, row)
          /\ UNCHANGED <<today, hardware, registered, prints, token, copy>>
      BY <1>2, <2>2, <3>3 DEF IssueRecord, machine
    <3> QED
      BY <3>2, <3>4, <3>5, FreeStands
  <2> QED
    BY <2>1, <2>2
<1>4. TablesShape' /\ Grown /\ GrantedOnce'
  BY <1>3, LicenceAdded
<1>5. Stands(doing)'
  BY <1>1, <1>3, <1>4, StandsStill
<1>6. TasksStand'
  BY <1>3, <1>4, <1>5, CallGoesOn
<1> QED
  BY <1>3, <1>4, <1>6 DEF LicensingInv, MachinesShape

\* The terms of one licence are written, and nothing else of it.
LEMMA TermsWritten ==
  ASSUME LicensingInv, NEW l \in DOMAIN licences, NEW terms \in FitTerms,
         licences' = [licences EXCEPT ![l].terms = terms], UNCHANGED <<registered, prints>>
  PROVE  TablesShape' /\ Grown /\ GrantedOnce'
<1>1. /\ Len(licences) \in Nat /\ DOMAIN licences = 1..Len(licences) /\ TablesShape
      /\ \A k \in 1..Len(licences) : licences[k] \in Licence
      /\ Len(prints) \in Nat /\ registered \in Nat
  BY LicensingTables DEF LicensingInv, TablesShape
<1>2. PICK row : row = [licences[l] EXCEPT !.terms = terms]
  OBVIOUS
<1>3. row \in Licence /\ row.tenant = licences[l].tenant /\ row.seen = licences[l].seen
  BY <1>1, <1>2 DEF Licence
<1>4. licences' = [licences EXCEPT ![l] = row]
  BY <1>2
<1>5. /\ licences' \in Seq(Licence) /\ Len(licences') = Len(licences) /\ DOMAIN licences' = DOMAIN licences
      /\ licences'[l] = row /\ \A k \in DOMAIN licences \ {l} : licences'[k] = licences[k]
  BY <1>1, <1>3, <1>4, ExceptSeq DEF TablesShape
<1>6. \A k \in DOMAIN licences : licences'[k].tenant = licences[k].tenant /\ licences'[k].seen = licences[k].seen
  <2> TAKE k \in DOMAIN licences
  <2>1. CASE k = l
    BY <1>3, <1>5, <2>1
  <2>2. CASE k # l
    BY <1>5, <2>2
  <2> QED
    BY <2>1, <2>2
<1>7. TablesShape' /\ Grown
  BY <1>1, <1>5, <1>6 DEF TablesShape, Grown
<1>8. GrantedOnce'
  BY <1>5, <1>6 DEF LicensingInv, GrantedOnce, Crowded, Alike, compute_match_score, Adds
<1> QED
  BY <1>7, <1>8

LEMMA RevokeKeeps ==
  ASSUME LicensingInv, NEW l \in DOMAIN licences, revoke_license(l)
  PROVE  LicensingInv'
<1>1. licences[l] \in Licence
  BY LicensingTables DEF LicensingInv
<1>2. PICK terms : terms = [licences[l].terms EXCEPT !.status = "revoked"]
  OBVIOUS
<1>3. terms \in FitTerms
  BY <1>1, <1>2 DEF Licence, FitTerms, Copies, Statuses
<1>4. /\ licences' = [licences EXCEPT ![l].terms = terms]
      /\ UNCHANGED <<today, hardware, registered, prints, token, copy, task>>
  BY <1>2 DEF revoke_license, machine
<1>5. TablesShape' /\ Grown /\ GrantedOnce'
  BY <1>3, <1>4, TermsWritten
<1>6. TasksStand'
  <2>1. task' \in [Callers -> Doing]
    BY <1>4 DEF LicensingInv, TasksStand
  <2>2. ASSUME NEW c \in Callers, NEW doing \in Doing, task'[c] = doing PROVE Stands(doing)'
    <3>1. Stands(doing)
      BY <1>4, <2>2 DEF LicensingInv, TasksStand
    <3> QED
      BY <1>5, <3>1, StandsStill DEF LicensingInv
  <2> QED
    BY <2>1, <2>2 DEF TasksStand
<1> QED
  BY <1>4, <1>5, <1>6 DEF LicensingInv, MachinesShape

\* A renewed licence has a date for both of its ends.
LEMMA RenewedFits ==
  ASSUME NEW old \in FitTerms, NEW until \in Nat, NEW support \in Nat, NEW terms,
         terms = [old EXCEPT !.status = "active", !.until = until, !.support = support]
  PROVE  terms \in FitTerms
<1>1. old \in Copies /\ until \in Nat /\ support \in Nat /\ "active" \in Statuses
  BY DEF FitTerms, Statuses
<1>2. terms = [old EXCEPT !.status = "active", !.until = until, !.support = support]
  OBVIOUS
<1>3. terms \in Copies /\ terms.until = until
  BY ONLY <1>1, <1>2 DEF Copies
<1>4. terms.until # Unset
  BY <1>3 DEF Unset
<1> QED
  BY <1>3, <1>4 DEF FitTerms

\* A renewal is read, and written when other calls may have changed the licence.
LEMMA ReadKeeps ==
  ASSUME LicensingInv, NEW c \in Callers, NEW l \in DOMAIN licences, ReadForRenewal(c, l, 1)
  PROVE  LicensingInv'
<1>1. licences[l] \in Licence /\ l \in Nat /\ today \in Nat
  BY LicensingTables DEF LicensingInv, MachinesShape
<1>2. PICK old \in FitTerms : old = licences[l].terms
  BY <1>1 DEF Licence
<1>3. old.until \in Nat \cup {Unset} /\ old.support \in Nat \cup {Unset}
  BY DEF FitTerms, Copies
<1>4. PICK until \in Nat : until = OrElse(old.until, today) + 1
  BY <1>1, <1>3 DEF OrElse
<1>5. PICK support \in Nat : support = OrElse(old.support, today) + 1
  BY <1>1, <1>3 DEF OrElse
<1>6. PICK terms : terms = [old EXCEPT !.status = "active", !.until = until, !.support = support]
  OBVIOUS
<1>7. terms \in FitTerms /\ terms.until = until /\ terms.support = support
  <2>1. old \in FitTerms /\ old \in Copies /\ until \in Nat /\ support \in Nat /\ "active" \in Statuses
    BY <1>2, <1>4, <1>5 DEF FitTerms, Statuses
  <2>2. terms \in FitTerms
    BY <1>6, <2>1, RenewedFits
  <2>3. terms.until = until /\ terms.support = support
    BY ONLY <1>6, <2>1 DEF Copies
  <2> QED
    BY <2>2, <2>3
<1>8. PICK doing : doing = [Free EXCEPT !.step = "renew", !.for = "admin", !.licence = l, !.terms = terms]
  OBVIOUS
<1>9. doing \in Doing /\ doing.step = "renew" /\ doing.licence = l /\ doing.terms = terms
  BY <1>1, <1>7, <1>8, FreeStands DEF Doing, TaskSteps
<1>10. Does(c, doing) /\ UNCHANGED <<today, hardware, tables, machine>>
  BY <1>2, <1>4, <1>5, <1>6, <1>8 DEF ReadForRenewal
<1>11. Stands(doing)
  BY <1>7, <1>9 DEF Stands, Holds, SawNoPrint, SawNoLicence
<1> QED
  BY <1>9, <1>10, <1>11, CallAlone

LEMMA RenewalKeeps ==
  ASSUME LicensingInv, NEW c \in Callers, WriteRenewal(c)
  PROVE  LicensingInv'
<1>1. PICK before \in Doing : before = task[c] /\ Stands(before) /\ before.step = "renew"
  BY DEF LicensingInv, TasksStand, WriteRenewal, On
<1>2. PICK l \in DOMAIN licences : l = before.licence
  BY <1>1 DEF Stands, Holds
<1>3. before.terms.until \in Nat /\ before.terms.support \in Nat
  BY <1>1 DEF Stands, Holds
<1>4. PICK old \in FitTerms : old = licences[l].terms
  BY LicensingTables DEF LicensingInv, Licence
<1>5. PICK terms : terms = [old EXCEPT !.status = "active", !.until = before.terms.until, !.support = before.terms.support]
  OBVIOUS
<1>6. terms \in FitTerms
  <2>1. PICK until \in Nat, support \in Nat : until = before.terms.until /\ support = before.terms.support
    BY <1>3
  <2>2. terms = [old EXCEPT !.status = "active", !.until = until, !.support = support]
    BY <1>5, <2>1
  <2> QED
    BY <1>4, <2>1, <2>2, RenewedFits
<1>7. /\ licences' = [licences EXCEPT ![l].terms = terms] /\ Does(c, Free)
      /\ UNCHANGED <<today, hardware, registered, prints, token, copy>>
  BY <1>1, <1>2, <1>4, <1>5 DEF WriteRenewal, machine
<1>8. TablesShape' /\ Grown /\ GrantedOnce'
  BY <1>6, <1>7, TermsWritten
<1>9. Stands(Free)'
  <2>1. PICK doing \in Doing : doing = Free
    BY FreeStands
  <2>2. Stands(doing)'
    BY <1>8, <2>1, FreeStands, StandsStill DEF LicensingInv
  <2> QED
    BY <2>1, <2>2 DEF Free, NoCopy
<1>10. TasksStand'
  BY <1>7, <1>8, <1>9, FreeStands, CallGoesOn
<1> QED
  BY <1>7, <1>8, <1>10 DEF LicensingInv, MachinesShape

\* The reply is written by the machine, in part or whole.
LEMMA WriteKeeps ==
  ASSUME LicensingInv, NEW c \in Callers, WriteCopy(c) \/ WriteToken(c)
  PROVE  LicensingInv'
<1>1. PICK before \in Doing : before = task[c] /\ Stands(before)
  BY DEF LicensingInv, TasksStand
<1>2. before.step \in {"reply", "licence"} /\ before.for \in Machines
  BY <1>1 DEF WriteCopy, WriteToken, On
<1>3. PICK m \in Machines : m = before.for
  BY <1>2
<1>4. PICK t \in 1..registered : t = before.tenant
  BY <1>1, <1>2 DEF Stands, Holds, TaskSteps
<1>5. /\ token' = [token EXCEPT ![m] = t] /\ Does(c, Free)
      /\ UNCHANGED <<today, hardware, registered, prints, licences>>
      /\ \/ copy' = copy
         \/ before.terms \in FitTerms /\ copy' = [copy EXCEPT ![m] = before.terms]
  BY <1>1, <1>3, <1>4 DEF WriteCopy, WriteToken, On, tables, Stands, Holds
<1>6. registered \in Nat /\ t \in 0..registered /\ t # 0
  BY DEF LicensingInv, TablesShape
<1>7. TablesShape' /\ Grown /\ GrantedOnce'
  BY <1>5, <1>6, GrantsKeep
<1>8. Stands(Free)'
  <2>1. PICK doing \in Doing : doing = Free
    BY FreeStands
  <2>2. Stands(doing)'
    BY <1>7, <2>1, FreeStands, StandsStill DEF LicensingInv
  <2> QED
    BY <2>1, <2>2 DEF Free, NoCopy
<1>9. TasksStand'
  BY <1>5, <1>7, <1>8, FreeStands, CallGoesOn
<1>10. MachinesShape'
  <2>1. token' \in [Machines -> 0..registered] /\ copy' \in [Machines -> FitTerms \cup {NoCopy}]
    BY <1>5, <1>6 DEF LicensingInv, MachinesShape
  <2>2. \A n \in Machines : copy'[n] # NoCopy => token'[n] # 0
    <3> TAKE n \in Machines
    <3>1. CASE n = m
      BY <1>5, <1>6, <3>1 DEF LicensingInv, MachinesShape
    <3>2. CASE n # m
      BY <1>5, <3>2 DEF LicensingInv, MachinesShape
    <3> QED
      BY <3>1, <3>2
  <2> QED
    BY <1>5, <2>1, <2>2 DEF LicensingInv, MachinesShape
<1> QED
  BY <1>7, <1>9, <1>10 DEF LicensingInv

\* A call goes on for nobody, or is over.
LEMMA EndKeeps ==
  ASSUME LicensingInv, NEW c \in Callers, GiveUp(c) \/ End(c)
  PROVE  LicensingInv'
<1>1. PICK before \in Doing : before = task[c] /\ Stands(before)
  BY DEF LicensingInv, TasksStand
<1>2. CASE GiveUp(c)
  <2>1. PICK doing : doing = [before EXCEPT !.for = "nobody"]
    OBVIOUS
  <2>2. /\ doing \in Doing /\ doing.step = before.step /\ doing.tenant = before.tenant /\ doing.parts = before.parts
        /\ doing.seen = before.seen /\ doing.licence = before.licence /\ doing.terms = before.terms
    BY <2>1 DEF Doing
  <2>3. Stands(doing)
    BY <1>1, <2>2 DEF Stands, Holds, SawNoPrint, SawNoLicence
  <2>4. Does(c, doing) /\ UNCHANGED <<today, hardware, tables, machine>>
    BY <1>1, <1>2, <2>1 DEF GiveUp
  <2> QED
    BY <2>2, <2>3, <2>4, CallAlone
<1>3. CASE End(c)
  BY <1>3, FreeStands, CallAlone DEF End
<1> QED
  BY <1>2, <1>3

LEMMA ReinstallKeeps ==
  ASSUME LicensingInv, NEW m \in Machines, Reinstall(m)
  PROVE  LicensingInv'
<1>1. /\ token' = [token EXCEPT ![m] = 0] /\ copy' = [copy EXCEPT ![m] = NoCopy]
      /\ UNCHANGED <<today, hardware, registered, prints, licences>>
      /\ task' = [c \in Callers |-> IF task[c].for = m THEN [task[c] EXCEPT !.for = "nobody"] ELSE task[c]]
  BY DEF Reinstall, tables
<1>2. registered \in Nat /\ 0 \in 0..registered
  BY DEF LicensingInv, TablesShape
<1>3. TablesShape' /\ Grown /\ GrantedOnce'
  BY <1>1, <1>2, GrantsKeep
<1>4. MachinesShape'
  BY <1>1, <1>2 DEF LicensingInv, MachinesShape
<1>5. ASSUME NEW c \in Callers
      PROVE  /\ task'[c] \in Doing
             /\ \A doing \in Doing : task'[c] = doing => Stands(doing)'
  <2>1. PICK before \in Doing : before = task[c] /\ Stands(before)
    BY DEF LicensingInv, TasksStand
  <2>2. PICK now : now = IF before.for = m THEN [before EXCEPT !.for = "nobody"] ELSE before
    OBVIOUS
  <2>3. /\ now \in Doing /\ now.step = before.step /\ now.tenant = before.tenant /\ now.parts = before.parts
        /\ now.seen = before.seen /\ now.licence = before.licence /\ now.terms = before.terms
    BY <2>2 DEF Doing
  <2>4. Stands(now)
    BY <2>1, <2>3 DEF Stands, Holds, SawNoPrint, SawNoLicence
  <2>5. Stands(now)'
    BY <1>3, <2>3, <2>4, StandsStill DEF LicensingInv
  <2>6. task'[c] = now
    BY <1>1, <2>1, <2>2
  <2> QED
    BY <2>3, <2>5, <2>6
<1>6. TasksStand'
  BY <1>1, <1>5 DEF TasksStand
<1> QED
  BY <1>3, <1>4, <1>6 DEF LicensingInv

\* Parts are replaced and days pass; no call and no table changes.
LEMMA OutsideKeeps ==
  ASSUME LicensingInv, today' \in Nat, hardware' \in [Machines -> Hardware],
         UNCHANGED <<registered, prints, licences, token, copy, task>>
  PROVE  LicensingInv'
<1>1. TablesShape' /\ Grown /\ GrantedOnce'
  BY GrantsKeep DEF LicensingInv, TablesShape
<1>2. TasksStand'
  <2>1. ASSUME NEW c \in Callers, NEW doing \in Doing, task'[c] = doing PROVE Stands(doing)'
    <3>1. Stands(doing)
      BY <2>1 DEF LicensingInv, TasksStand
    <3> QED
      BY <1>1, <3>1, StandsStill DEF LicensingInv
  <2> QED
    BY <2>1 DEF LicensingInv, TasksStand
<1> QED
  BY <1>1, <1>2 DEF LicensingInv, MachinesShape

LEMMA LicensingStart == LicensingInit => LicensingInv
<1> SUFFICES ASSUME LicensingInit PROVE LicensingInv
  OBVIOUS
<1>1. \A m \in Machines : Bought[m] \in [Parts -> 0..2]
  BY HardwareAssumption
<1>2. Bought \in [Machines -> Hardware]
  BY <1>1, HardwareAssumption DEF Hardware
<1>3. MachinesShape
  BY <1>2 DEF LicensingInit, MachinesShape
<1>4. prints = <<>> /\ licences = <<>> /\ DOMAIN prints = {} /\ DOMAIN licences = {} /\ registered = 0
  BY DEF LicensingInit
<1>5. TablesShape /\ GrantedOnce
  BY <1>4 DEF TablesShape, GrantedOnce
<1>6. TasksStand
  BY FreeStands DEF LicensingInit, TasksStand
<1> QED
  BY <1>3, <1>5, <1>6 DEF LicensingInv

LEMMA LicensingStep == LicensingInv /\ [LicensingNext]_licensing => LicensingInv'
<1> SUFFICES ASSUME LicensingInv, [LicensingNext]_licensing PROVE LicensingInv'
  OBVIOUS
<1>0. today \in Nat /\ hardware \in [Machines -> Hardware]
  BY DEF LicensingInv, MachinesShape
<1>1. CASE UNCHANGED licensing
  BY <1>0, <1>1, OutsideKeeps DEF licensing
<1>2. CASE Dawn
  BY <1>0, <1>2, OutsideKeeps DEF Dawn, tables, machine
<1>3. ASSUME NEW m \in Machines, NEW p \in Fragile, Replace(m, p) PROVE LicensingInv'
  <2>1. hardware' = [hardware EXCEPT ![m][p] = 3] /\ today' = today
        /\ UNCHANGED <<registered, prints, licences, token, copy, task>>
    BY <1>3 DEF Replace, tables, machine
  <2>2. [hardware[m] EXCEPT ![p] = 3] \in Hardware
    BY <1>0, HardwareAssumption DEF Hardware
  <2>3. hardware' \in [Machines -> Hardware]
    BY <1>0, <2>1, <2>2
  <2> QED
    BY <1>0, <2>1, <2>3, OutsideKeeps
<1>4. CASE Registration
  BY <1>3, <1>4, PreRegisterKeeps, AskingKeeps, InsertTenantKeeps, InsertPrintKeeps, LatestKeeps, GrantKeeps,
     WriteKeeps, EndKeeps, ReinstallKeeps DEF Registration
<1>5. CASE Administration
  BY <1>5, CreateTenantKeeps, AskingKeeps, ReadKeeps, GrantKeeps, RenewalKeeps, RevokeKeeps DEF Administration
<1> QED
  BY <1>1, <1>2, <1>4, <1>5 DEF LicensingNext

\* What calls saw when they looked stands, and what they hold is there.
THEOREM LicensingInvariant == LicensingSpec => []LicensingInv
BY LicensingStart, LicensingStep, PTL DEF LicensingSpec

\* A machine is registered again, and a tenant is given another trial, only by a call
\* of pre-register or ensure_trial_license that looked before the first was there.
THEOREM TrialsAreGrantedOnce == LicensingSpec => []GrantedOnce
<1>1. LicensingInv => GrantedOnce
  BY DEF LicensingInv
<1> QED
  BY <1>1, LicensingInvariant, PTL

-----------------------------------------------------------------------------
\* How the node and the control plane judge terms that fit.
LEMMA StatusesAgree ==
  ASSUME today \in Nat, NEW terms \in FitTerms
  PROVE  /\ OperationMode(terms) = "restricted" <=>
               StatusWithDates(terms) \in {"expired", "revoked"} /\ terms.type # "perpetual"
         /\ EffectiveStatus(terms) # StatusWithDates(terms) => terms.type = "perpetual" /\ terms.until = Unset
<1>1. /\ terms.type \in Types /\ terms.status \in Statuses /\ terms.until \in Nat \cup {Unset}
      /\ terms.type # "perpetual" => terms.until # Unset
  BY DEF FitTerms, Copies
<1>2. CASE terms.status = "revoked"
  BY <1>1, <1>2 DEF OperationMode, EffectiveStatus, StatusWithDates, Types
<1>3. CASE terms.status # "revoked" /\ terms.until # Unset
  BY <1>1, <1>3 DEF OperationMode, EffectiveStatus, StatusWithDates, Types
<1>4. CASE terms.status # "revoked" /\ terms.until = Unset
  BY <1>1, <1>4 DEF OperationMode, EffectiveStatus, StatusWithDates, Types
<1> QED
  BY <1>2, <1>3, <1>4

LEMMA CopiesAgreeWhen == LicensingInv => CopiesAgree
<1> SUFFICES ASSUME LicensingInv, NEW m \in Machines, copy[m] # NoCopy
             PROVE  /\ ShouldBlock(m, TRUE) <=>
                          /\ StatusWithDates(copy[m]) \in {"expired", "revoked"}
                          /\ copy[m].type # "perpetual"
                    /\ EffectiveStatus(copy[m]) # StatusWithDates(copy[m]) =>
                          copy[m].type = "perpetual" /\ copy[m].until = Unset
  BY DEF CopiesAgree
<1>1. copy[m] \in FitTerms /\ today \in Nat
  BY DEF LicensingInv, MachinesShape
<1> QED
  BY <1>1, StatusesAgree DEF ShouldBlock

\* What the pages remind of, by the dates.
LEMMA RemindersAre ==
  ASSUME today \in Nat, NEW terms \in FitTerms
  PROVE  /\ "license_expired" \in owner_license_health(terms) <=> terms.until # Unset /\ terms.until < today
         /\ "license_expired" \in build_license_health(terms) <=> terms.until # Unset /\ terms.until < today
         /\ terms.support # Unset /\ terms.support < today => "support_expired" \in build_license_health(terms)
         /\ "license_revoked" \in build_license_health(terms) <=> terms.status = "revoked"
         /\ "trial_expired" \in build_license_health(terms) =>
               terms.type = "trial" /\ terms.trial # Unset /\ terms.trial < today
<1>1. /\ "license_expired" \in owner_license_health(terms) <=> terms.until # Unset /\ terms.until < today
      /\ terms.support # Unset /\ terms.support < today => "support_expired" \in owner_license_health(terms)
      /\ "license_revoked" \notin owner_license_health(terms)
      /\ "trial_expired" \in owner_license_health(terms) =>
            terms.type = "trial" /\ terms.trial # Unset /\ terms.trial < today
  BY DEF owner_license_health, Reminds
<1>2. PICK more : build_license_health(terms) = owner_license_health(terms) \cup more
                  /\ more = CASE terms.status = "grace" -> {"license_grace"}
                              [] terms.status = "revoked" -> {"license_revoked"} [] OTHER -> {}
  BY DEF build_license_health
<1>3. /\ "license_expired" \notin more /\ "trial_expired" \notin more
      /\ "license_revoked" \in more <=> terms.status = "revoked"
  BY <1>2
<1> QED
  BY <1>1, <1>2, <1>3

LEMMA RemindersAgreeWhen == LicensingInv => RemindersAgree
<1> SUFFICES ASSUME LicensingInv, NEW l \in DOMAIN licences
             PROVE  LET terms == licences[l].terms
                        reminders == build_license_health(terms)
                        status == StatusWithDates(terms)
                    IN  /\ status \in {"expired", "grace"} => "license_expired" \in owner_license_health(terms)
                        /\ "license_expired" \in reminders => status \in {"expired", "grace", "revoked"}
                        /\ status \in {"expired", "grace", "support_expired"} => l \in license_summary.needs_attention
                        /\ "license_revoked" \in reminders <=> status = "revoked"
                        /\ "trial_expired" \in reminders /\ "license_expired" \notin reminders => terms.until > terms.trial
  BY DEF RemindersAgree
<1>1. today \in Nat
  BY DEF LicensingInv, MachinesShape
<1>2. PICK terms \in FitTerms : terms = licences[l].terms
  BY LicensingTables DEF LicensingInv, Licence
<1>3. /\ terms.type \in Types /\ terms.status \in Statuses /\ terms.until \in Nat \cup {Unset}
      /\ terms.support \in Nat \cup {Unset} /\ terms.trial \in Nat \cup {Unset} /\ terms.grace \in Nat
      /\ terms.type # "perpetual" => terms.until # Unset
  BY DEF FitTerms, Copies
<1>4. /\ "license_expired" \in owner_license_health(terms) <=> terms.until # Unset /\ terms.until < today
      /\ "license_expired" \in build_license_health(terms) <=> terms.until # Unset /\ terms.until < today
      /\ terms.support # Unset /\ terms.support < today => "support_expired" \in build_license_health(terms)
      /\ "license_revoked" \in build_license_health(terms) <=> terms.status = "revoked"
      /\ "trial_expired" \in build_license_health(terms) =>
            terms.type = "trial" /\ terms.trial # Unset /\ terms.trial < today
  BY <1>1, RemindersAre
<1>5. /\ StatusWithDates(terms) \in {"expired", "grace"} => terms.until # Unset /\ terms.until < today
      /\ terms.until # Unset /\ terms.until < today => StatusWithDates(terms) \in {"expired", "grace", "revoked"}
      /\ StatusWithDates(terms) = "support_expired" => terms.support # Unset /\ terms.support < today
      /\ StatusWithDates(terms) = "revoked" <=> terms.status = "revoked"
  <2>1. CASE terms.status = "revoked"
    BY <2>1 DEF StatusWithDates
  <2>2. CASE terms.status # "revoked" /\ terms.until # Unset
    BY <1>1, <1>3, <2>2 DEF StatusWithDates
  <2>3. CASE terms.status # "revoked" /\ terms.until = Unset
    BY <1>1, <1>3, <2>3 DEF StatusWithDates, Unset
  <2> QED
    BY <2>1, <2>2, <2>3
<1>6. build_license_health(terms) # {} => l \in license_summary.needs_attention
  BY <1>2 DEF license_summary, license_reminders
<1>7. terms.type = "trial" /\ terms.trial # Unset /\ terms.trial < today /\ ~(terms.until # Unset /\ terms.until < today)
        => terms.until > terms.trial
  BY <1>1, <1>3 DEF Unset
<1>8. StatusWithDates(terms) \in {"expired", "grace", "support_expired"} => build_license_health(terms) # {}
  BY <1>4, <1>5
<1> QED
  BY <1>2, <1>4, <1>5, <1>6, <1>7, <1>8

\* The node's gate and the pages of the control plane agree on the terms of a licence
\* as far as GateAgrees says, on every day and after every renewal and revocation.
THEOREM GateAgreesAlways == LicensingSpec => []GateAgrees
<1>1. LicensingInv => GateAgrees
  BY CopiesAgreeWhen, RemindersAgreeWhen DEF GateAgrees
<1> QED
  BY <1>1, LicensingInvariant, PTL

LEMMA LicensingTyped == LicensingInv => LicensingTypeOK
<1> SUFFICES ASSUME LicensingInv PROVE LicensingTypeOK
  OBVIOUS
<1>1. \A l \in DOMAIN licences : licences[l].terms \in Copies
  BY LicensingTables DEF LicensingInv, Licence, FitTerms
<1>2. \A m \in Machines : copy[m] \in Copies \cup {NoCopy}
  BY DEF LicensingInv, MachinesShape, FitTerms
<1>3. copy \in [Machines -> Copies \cup {NoCopy}]
  BY <1>2 DEF LicensingInv, MachinesShape
<1> QED
  BY <1>1, <1>3 DEF LicensingInv, MachinesShape, TablesShape, LicensingTypeOK, Hardware

-----------------------------------------------------------------------------
(* Heartbeats and pages                                                    *)

BranchRow ==
    [seen : Unknown..LastMoment, online : BOOLEAN, version : PosVersions \cup {NoVersion},
     disk : Unknown..100, backup : Unknown..LastMoment,
     install : {"pending", "registered", "success", "error"}, tunnel : {"pending", "active", "error"}]
Beat == [branch : Stores, at : 0..LastMoment, version : PosVersions \cup {NoVersion}, disk : Unknown..100,
         zoned : BOOLEAN, backup : Unknown..LastMoment]

FleetShape ==
    /\ clock \in 0..LastMoment /\ branches \in [Stores -> BranchRow] /\ heartbeats \in Seq(Beat)
    /\ post \in [Posts -> Nat] /\ \A p \in Posts : post[p] \in 0..Len(heartbeats)
    /\ blurred \subseteq Stores
    /\ \A i \in DOMAIN heartbeats : heartbeats[i].at <= clock

\* Heartbeats of one branch that meet blur it; one that meets none is its last.
PostsApart ==
    \A p, q \in Posts :
        post[p] # 0 /\ post[q] # 0 /\ p # q /\ heartbeats[post[p]].branch = heartbeats[post[q]].branch =>
            heartbeats[post[p]].branch \in blurred
LastOf(b, i) == i \in DOMAIN heartbeats /\ heartbeats[i].branch = b /\ \A j \in owner_branch_timeline(b) : j <= i
PostIsLast ==
    \A p \in Posts, b \in Stores \ blurred, i \in DOMAIN heartbeats :
        post[p] = i /\ heartbeats[i].branch = b => LastOf(b, i)

\* What a branch shows of its last heartbeat.
ShowsLast(b) ==
    \A i \in DOMAIN heartbeats : LastOf(b, i) /\ b \notin blurred /\ BeatingFor(b) = {} =>
        /\ branches[b].disk = heartbeats[i].disk /\ branches[b].seen >= heartbeats[i].at
        /\ branches[b].backup >= heartbeats[i].backup /\ branches[b].online
DiskTold(b) ==
    branches[b].disk # Unknown =>
        \E i \in DOMAIN heartbeats : heartbeats[i].branch = b /\ branches[b].disk = heartbeats[i].disk

FleetInv == FleetShape /\ PostsApart /\ PostIsLast /\ \A b \in Stores : ShowsLast(b) /\ DiskTold(b)

-----------------------------------------------------------------------------
LEMMA FleetStart == FleetInit => FleetInv
<1> SUFFICES ASSUME FleetInit PROVE FleetInv
  OBVIOUS
<1>1. heartbeats = <<>> /\ DOMAIN heartbeats = {} /\ Len(heartbeats) = 0 /\ heartbeats \in Seq(Beat)
  BY DEF FleetInit
<1>2. \A b \in Stores : branches[b] = [seen |-> Unknown, online |-> FALSE, version |-> NoVersion, disk |-> Unknown,
                                     backup |-> Unknown, install |-> "pending", tunnel |-> "pending"]
  BY DEF FleetInit
<1>3. branches \in [Stores -> BranchRow]
  BY FleetAssumption DEF FleetInit, BranchRow, Unknown
<1>4. FleetShape
  <2>1. post \in [Posts -> Nat] /\ \A p \in Posts : post[p] = 0
    BY DEF FleetInit
  <2>2. \A p \in Posts : post[p] \in 0..Len(heartbeats)
    BY <1>1, <2>1
  <2>3. clock \in 0..LastMoment /\ blurred \subseteq Stores
    BY FleetAssumption DEF FleetInit
  <2>4. \A i \in DOMAIN heartbeats : heartbeats[i].at <= clock
    BY <1>1
  <2> QED
    BY <1>1, <1>3, <2>1, <2>2, <2>3, <2>4 DEF FleetShape
<1>5. \A b \in Stores : DiskTold(b)
  BY <1>2 DEF DiskTold
<1> QED
  BY <1>1, <1>4, <1>5 DEF FleetInit, FleetInv, PostsApart, PostIsLast, ShowsLast

\* A step that leaves the heartbeats alone, and of the branches what they told.
LEMMA PagesStep ==
  ASSUME FleetInv, UNCHANGED <<heartbeats, post, blurred>>, clock <= clock', clock' \in 0..LastMoment,
         branches' \in [Stores -> BranchRow],
         \A b \in Stores : /\ branches'[b].disk = branches[b].disk /\ branches'[b].backup = branches[b].backup
                           /\ branches'[b].seen = branches[b].seen \/ branches'[b].seen = clock
                           /\ branches[b].online => branches'[b].online
  PROVE  FleetInv'
<1>1. FleetShape
  BY DEF FleetInv
<1>2. /\ heartbeats \in Seq(Beat) /\ clock \in 0..LastMoment
      /\ \A i \in DOMAIN heartbeats : heartbeats[i] \in Beat /\ heartbeats[i].at \in Int /\ heartbeats[i].at <= clock
  <2>1. heartbeats \in Seq(Beat) /\ clock \in 0..LastMoment
    BY <1>1 DEF FleetShape
  <2>2. DOMAIN heartbeats = 1..Len(heartbeats)
    BY <2>1, LenProperties
  <2>3. \A i \in DOMAIN heartbeats : heartbeats[i] \in Beat
    BY <2>1, <2>2, ElementOfSeq
  <2> QED
    BY <1>1, <2>1, <2>3, FleetAssumption DEF FleetShape, Beat
<1>3. FleetShape'
  BY <1>1, <1>2, FleetAssumption DEF FleetShape
<1>4. \A b \in Stores : ShowsLast(b)' /\ DiskTold(b)'
  <2> TAKE b \in Stores
  <2>1. \A i : LastOf(b, i)' <=> LastOf(b, i)
    BY DEF LastOf, owner_branch_timeline, get_recent_heartbeats
  <2>2. BeatingFor(b)' = BeatingFor(b)
    BY DEF BeatingFor
  <2>3. branches[b].seen \in Int
    BY <1>1, FleetAssumption DEF FleetShape, BranchRow, Unknown
  <2>4. ShowsLast(b)'
    BY ZenonT(40), <1>2, <2>1, <2>2, <2>3, FleetAssumption DEF FleetInv, ShowsLast
  <2>5. DiskTold(b)'
    BY DEF FleetInv, DiskTold
  <2> QED
    BY <2>4, <2>5
<1>5. PostsApart' /\ PostIsLast'
  BY DEF FleetInv, PostsApart, PostIsLast, LastOf, owner_branch_timeline, get_recent_heartbeats
<1> QED
  BY <1>3, <1>4, <1>5 DEF FleetInv

\* A branch registers, or its agent reports: one row is written, and nothing that a
\* heartbeat told.
LEMMA WritesKeep ==
  ASSUME FleetInv, NEW b \in Stores, NEW row \in BranchRow, Writes(b, row), UNCHANGED elsewhere,
         row.disk = branches[b].disk /\ row.backup = branches[b].backup,
         row.seen = branches[b].seen \/ row.seen = clock, branches[b].online => row.online
  PROVE  FleetInv'
<1>1. /\ branches \in [Stores -> BranchRow] /\ branches' = [branches EXCEPT ![b] = row]
      /\ UNCHANGED <<clock, heartbeats, post, blurred>> /\ clock \in 0..LastMoment
  BY DEF FleetInv, FleetShape, Writes, elsewhere
<1>2. branches' \in [Stores -> BranchRow]
  BY <1>1
<1>3. branches'[b] = row /\ \A q \in Stores \ {b} : branches'[q] = branches[q]
  BY <1>1
<1>4. clock <= clock'
  BY <1>1, FleetAssumption
<1>5. \A q \in Stores : /\ branches'[q].disk = branches[q].disk /\ branches'[q].backup = branches[q].backup
                        /\ branches'[q].seen = branches[q].seen \/ branches'[q].seen = clock
                        /\ branches[q].online => branches'[q].online
  <2> TAKE q \in Stores
  <2>1. CASE q = b
    BY <1>3, <2>1
  <2>2. CASE q # b
    BY <1>3, <2>2
  <2> QED
    BY <2>1, <2>2
<1> QED
  BY <1>1, <1>2, <1>4, <1>5, PagesStep

\* A heartbeat is inserted: it is its branch's last, and meets those not yet shown.
LEMMA HeartbeatKeeps ==
  ASSUME FleetInv, NEW p \in Posts, NEW b \in Stores, NEW beat \in Beats(b), create_heartbeat(p, beat)
  PROVE  FleetInv'
<1> DEFINE kept == [beat EXCEPT !.zoned = FALSE]
           n == Len(heartbeats) + 1
<1>1. FleetShape
  BY DEF FleetInv
<1>2. kept \in Beat /\ kept.branch = b /\ kept.at = clock /\ beat.branch = b
  <2>1. PICK r \in Readings, z \in BOOLEAN :
           beat = [branch |-> b, at |-> clock, version |-> r.version, disk |-> r.disk, zoned |-> z,
                   backup |-> IF r.backed THEN clock ELSE Unknown]
    BY DEF Beats
  <2>2. r.version \in PosVersions \cup {NoVersion} /\ r.disk \in Unknown..100 /\ clock \in 0..LastMoment
        /\ clock \in Unknown..LastMoment /\ Unknown \in Unknown..LastMoment
    BY <1>1, FleetAssumption DEF NoVersion, Unknown, FleetShape
  <2>3. beat \in Beat /\ beat.branch = b /\ beat.at = clock
    BY <2>1, <2>2 DEF Beat
  <2> QED
    BY <2>3 DEF Beat
<1>3. /\ post[p] = 0 /\ heartbeats' = Append(heartbeats, kept) /\ post' = [post EXCEPT ![p] = n]
      /\ blurred' = IF BeatingFor(b) = {} THEN blurred \ {b} ELSE blurred \cup {b}
      /\ UNCHANGED <<clock, branches>>
  BY <1>2 DEF create_heartbeat
<1> HIDE DEF kept
<1>4. /\ Len(heartbeats) \in Nat /\ DOMAIN heartbeats = 1..Len(heartbeats)
      /\ heartbeats' \in Seq(Beat) /\ Len(heartbeats') = n /\ DOMAIN heartbeats' = 1..n /\ heartbeats'[n] = kept
      /\ \A i \in 1..Len(heartbeats) : heartbeats'[i] = heartbeats[i]
  BY <1>1, <1>2, <1>3, AppendProperties, LenProperties DEF FleetShape
<1>5. post'[p] = n /\ \A q \in Posts \ {p} : post'[q] = post[q] /\ post[q] \in 0..Len(heartbeats)
  BY <1>1, <1>3 DEF FleetShape
<1>6. \A q \in Posts \ {p} : post[q] # 0 =>
        post[q] \in 1..Len(heartbeats) /\ heartbeats'[post[q]] = heartbeats[post[q]]
  BY <1>4, <1>5
<1>7. n \in Nat /\ n # 0 /\ \A i \in 1..n : i = n \/ i \in 1..Len(heartbeats)
  BY <1>4
<1>8. FleetShape'
  <2>1. post' \in [Posts -> Nat]
    BY <1>1, <1>3, <1>7 DEF FleetShape
  <2>2. \A q \in Posts : post'[q] \in 0..Len(heartbeats')
    BY <1>4, <1>5, <1>7
  <2>3. \A i \in DOMAIN heartbeats' : heartbeats'[i].at <= clock'
    BY <1>1, <1>2, <1>3, <1>4, <1>7, FleetAssumption DEF FleetShape
  <2>4. blurred' \subseteq Stores
    BY <1>1, <1>3 DEF FleetShape
  <2> QED
    BY <1>1, <1>3, <1>4, <2>1, <2>2, <2>3, <2>4 DEF FleetShape
<1>9. /\ \A q \in Stores \ {b} : q \in blurred' <=> q \in blurred
      /\ (\E q \in Posts \ {p} : post[q] # 0 /\ heartbeats[post[q]].branch = b) <=> BeatingFor(b) # {}
      /\ BeatingFor(b) # {} => b \in blurred'
  BY <1>3 DEF BeatingFor
<1>10. PostsApart'
  <2> SUFFICES ASSUME NEW q \in Posts, NEW r \in Posts, post'[q] # 0, post'[r] # 0, q # r,
                      heartbeats'[post'[q]].branch = heartbeats'[post'[r]].branch
               PROVE  heartbeats'[post'[q]].branch \in blurred'
    BY DEF PostsApart
  <2>1. CASE q = p
    BY <1>2, <1>4, <1>5, <1>6, <1>9, <2>1
  <2>2. CASE r = p
    BY <1>2, <1>4, <1>5, <1>6, <1>9, <2>2
  <2>3. CASE q # p /\ r # p
    <3>1. PICK x : x = heartbeats[post[q]].branch
      OBVIOUS
    <3>2. x \in blurred /\ heartbeats'[post'[q]].branch = x
      BY <1>5, <1>6, <2>3, <3>1 DEF FleetInv, PostsApart
    <3>3. x = b => BeatingFor(b) # {}
      BY <1>5, <1>9, <2>3, <3>1
    <3>4. x \in blurred'
      BY <1>3, <3>2, <3>3
    <3> QED
      BY <3>2, <3>4
  <2> QED
    BY <2>1, <2>2, <2>3
<1>11. \A q \in Stores \ {b} : \A i \in 1..Len(heartbeats) : LastOf(q, i) => LastOf(q, i)'
  BY <1>2, <1>4, <1>7 DEF LastOf, owner_branch_timeline, get_recent_heartbeats
<1>12. PostIsLast'
  <2> SUFFICES ASSUME NEW q \in Posts, NEW c \in Stores \ blurred', NEW i \in DOMAIN heartbeats', post'[q] = i,
                      heartbeats'[i].branch = c
               PROVE  LastOf(c, i)'
    BY DEF PostIsLast
  <2>1. CASE q = p
    BY <1>4, <1>5, <1>7, <2>1 DEF LastOf, owner_branch_timeline, get_recent_heartbeats
  <2>2. CASE q # p
    <3>1. i = post[q] /\ i # 0
      BY <1>4, <1>5, <1>7, <2>2
    <3>2. i \in 1..Len(heartbeats) /\ heartbeats'[i] = heartbeats[i]
      BY <1>6, <2>2, <3>1
    <3>3. c # b /\ c \notin blurred
      BY <1>3, <1>9, <2>2, <3>1, <3>2
    <3>4. LastOf(c, i)
      BY <1>4, <3>1, <3>2, <3>3 DEF FleetInv, PostIsLast
    <3> QED
      BY <1>11, <3>2, <3>3, <3>4
  <2> QED
    BY <2>1, <2>2
<1>13. \A q \in Stores : DiskTold(q)'
  BY <1>3, <1>4, <1>7 DEF FleetInv, DiskTold
<1>14. \A q \in Stores : ShowsLast(q)'
  <2> TAKE q \in Stores
  <2>1. CASE q = b
    <3>1. p \in BeatingFor(b)'
      BY <1>2, <1>4, <1>5, <1>7 DEF BeatingFor
    <3> QED
      BY <2>1, <3>1 DEF ShowsLast
  <2>2. CASE q # b
    <3> SUFFICES ASSUME NEW i \in DOMAIN heartbeats', LastOf(q, i)', q \notin blurred', BeatingFor(q)' = {}
                 PROVE  /\ branches'[q].disk = heartbeats'[i].disk /\ branches'[q].seen >= heartbeats'[i].at
                        /\ branches'[q].backup >= heartbeats'[i].backup /\ branches'[q].online
      BY DEF ShowsLast
    <3>1. i \in 1..Len(heartbeats) /\ heartbeats'[i] = heartbeats[i]
      BY <1>2, <1>4, <1>7, <2>2 DEF LastOf
    <3>2. LastOf(q, i)
      BY <1>4, <1>7, <3>1 DEF LastOf, owner_branch_timeline, get_recent_heartbeats
    <3>3. BeatingFor(q) = {}
      BY <1>3, <1>5, <1>6 DEF BeatingFor
    <3> QED
      BY <1>3, <1>4, <2>2, <3>1, <3>2, <3>3 DEF FleetInv, ShowsLast
  <2> QED
    BY <2>1, <2>2
<1> QED
  BY <1>8, <1>10, <1>12, <1>13, <1>14 DEF FleetInv

\* A heartbeat is over, shown or not.
LEMMA PostEnds ==
  ASSUME FleetInv, NEW p \in Posts, post[p] # 0, post' = [post EXCEPT ![p] = 0], UNCHANGED <<clock, heartbeats>>,
         NEW b \in Stores, b = heartbeats[post[p]].branch, blurred' \in {blurred, blurred \cup {b}},
         branches' \in [Stores -> BranchRow], \A q \in Stores \ {b} : branches'[q] = branches[q],
         DiskTold(b)', ShowsLast(b)'
  PROVE  FleetInv'
<1>1. FleetShape
  BY DEF FleetInv
<1>2. post'[p] = 0 /\ \A q \in Posts \ {p} : post'[q] = post[q]
  BY <1>1 DEF FleetShape
<1>3. FleetShape'
  <2>1. post' \in [Posts -> Nat] /\ \A q \in Posts : post'[q] \in 0..Len(heartbeats)
    <3>1. \A q \in Posts : post'[q] \in 0..Len(heartbeats)
      BY <1>1, <1>2, LenProperties DEF FleetShape
    <3> QED
      BY <1>1, <3>1 DEF FleetShape
  <2> QED
    BY <1>1, <2>1 DEF FleetShape
<1>4. PostsApart'
  BY <1>2 DEF FleetInv, PostsApart
<1>5. \A q, i : LastOf(q, i)' <=> LastOf(q, i)
  BY DEF LastOf, owner_branch_timeline, get_recent_heartbeats
<1>6. PostIsLast'
  <2> SUFFICES ASSUME NEW q \in Posts, NEW c \in Stores \ blurred', NEW i \in DOMAIN heartbeats', post'[q] = i,
                      heartbeats'[i].branch = c
               PROVE  LastOf(c, i)'
    BY DEF PostIsLast
  <2>1. i # 0
    BY <1>1, LenProperties DEF FleetShape
  <2>2. post[q] = i /\ c \notin blurred /\ heartbeats[i].branch = c /\ i \in DOMAIN heartbeats
    BY <1>2, <2>1
  <2>3. LastOf(c, i)
    BY <2>2 DEF FleetInv, PostIsLast
  <2> QED
    BY <1>5, <2>3
<1>7. \A q \in Stores \ {b} : DiskTold(q)' /\ ShowsLast(q)'
  <2> TAKE q \in Stores \ {b}
  <2>1. BeatingFor(q)' = BeatingFor(q)
    BY <1>2 DEF BeatingFor
  <2> QED
    BY <1>5, <2>1 DEF FleetInv, DiskTold, ShowsLast
<1> QED
  BY <1>3, <1>4, <1>6, <1>7 DEF FleetInv

\* The branch shows the heartbeat.
LEMMA UpdateKeeps ==
  ASSUME FleetInv, NEW p \in Posts, UpdatesBranch(p)
  PROVE  FleetInv'
<1>1. FleetShape
  BY DEF FleetInv
<1>2. PICK n \in DOMAIN heartbeats : n = post[p] /\ n # 0 /\ heartbeats[n] \in Beat
  BY <1>1, LenProperties, ElementOfSeq DEF FleetShape, UpdatesBranch
<1>3. PICK b \in Stores : b = heartbeats[n].branch
  BY <1>2 DEF Beat
<1>4. PICK beat \in Beat : beat = heartbeats[n]
  BY <1>2
<1>5. PICK old \in BranchRow : old = branches[b]
  BY <1>1 DEF FleetShape
<1>6. PICK row : row = Told(old, beat)
  OBVIOUS
<1>7. /\ row \in BranchRow /\ row.disk = beat.disk /\ row.seen = clock /\ row.online
      /\ row.backup = Coalesce(beat.backup, old.backup, Unknown)
  <2>1. clock \in Unknown..LastMoment
    BY <1>1, FleetAssumption DEF FleetShape, Unknown
  <2> QED
    BY ZenonT(40), <1>6, <2>1 DEF Told, BranchRow, Beat, Coalesce
<1>8. /\ branches' = [branches EXCEPT ![b] = row] /\ post' = [post EXCEPT ![p] = 0]
      /\ UNCHANGED <<clock, heartbeats, blurred>>
  BY <1>2, <1>3, <1>4, <1>5, <1>6 DEF UpdatesBranch, Told
<1>9. /\ branches' \in [Stores -> BranchRow] /\ branches'[b] = row
      /\ \A q \in Stores \ {b} : branches'[q] = branches[q]
  BY <1>1, <1>7, <1>8 DEF FleetShape
<1>10. DiskTold(b)'
  BY <1>2, <1>3, <1>4, <1>7, <1>8, <1>9 DEF DiskTold
<1>11. ShowsLast(b)'
  <2> SUFFICES ASSUME NEW i \in DOMAIN heartbeats, LastOf(b, i)', b \notin blurred
               PROVE  /\ branches'[b].disk = heartbeats[i].disk /\ branches'[b].seen >= heartbeats[i].at
                      /\ branches'[b].backup >= heartbeats[i].backup /\ branches'[b].online
    BY <1>8 DEF ShowsLast
  <2>1. LastOf(b, n) /\ LastOf(b, i)
    BY <1>2, <1>3, <1>8 DEF FleetInv, PostIsLast, LastOf, owner_branch_timeline, get_recent_heartbeats
  <2>2. i = n
    BY <1>1, <2>1, LenProperties DEF LastOf, owner_branch_timeline, get_recent_heartbeats, FleetShape
  <2>3. beat.at <= clock /\ clock \in Int /\ beat.at \in Int
    BY <1>1, <1>2, <1>4, FleetAssumption DEF FleetShape, Beat
  <2>4. row.backup >= beat.backup
    BY <1>7, FleetAssumption DEF Coalesce, Beat, BranchRow, Unknown
  <2> QED
    BY <1>4, <1>7, <1>9, <2>2, <2>3, <2>4
<1>12. blurred' \in {blurred, blurred \cup {b}} /\ b = heartbeats[post[p]].branch /\ post[p] # 0
  BY <1>2, <1>3, <1>8
<1> QED
  BY <1>8, <1>9, <1>10, <1>11, <1>12, PostEnds

LEMMA PostBreaks ==
  ASSUME FleetInv, NEW p \in Posts, HeartbeatBreaksOff(p)
  PROVE  FleetInv'
<1>1. FleetShape
  BY DEF FleetInv
<1>2. PICK b \in Stores : b = heartbeats[post[p]].branch
  <2>1. PICK n \in 1..Len(heartbeats) : n = post[p]
    BY <1>1, LenProperties DEF FleetShape, HeartbeatBreaksOff
  <2>2. heartbeats[n] \in Beat
    BY <1>1, <2>1, ElementOfSeq DEF FleetShape
  <2> QED
    BY <2>1, <2>2 DEF Beat
<1>3. /\ post[p] # 0 /\ post' = [post EXCEPT ![p] = 0] /\ blurred' = blurred \cup {b}
      /\ UNCHANGED <<clock, branches, heartbeats>>
  BY <1>2 DEF HeartbeatBreaksOff
<1>4. DiskTold(b)' /\ ShowsLast(b)'
  BY <1>3 DEF FleetInv, DiskTold, ShowsLast
<1>5. branches' \in [Stores -> BranchRow] /\ \A q \in Stores \ {b} : branches'[q] = branches[q]
  BY <1>1, <1>3 DEF FleetShape
<1> QED
  BY <1>2, <1>3, <1>4, <1>5, PostEnds

LEMMA ReportsKeep ==
  ASSUME FleetInv, NEW b \in Stores, NEW v \in PosVersions \cup {NoVersion},
         \/ pre_register_branch(b) \/ register_branch(b, v)
         \/ \E status \in {"success", "error"} : report_install_status(b, status, v)
         \/ \E status \in {"active", "error"} : TunnelReports(b, status)
  PROVE  FleetInv'
<1>1. PICK old \in BranchRow : old = branches[b]
  BY DEF FleetInv, FleetShape
<1>2. clock \in Unknown..LastMoment
  BY FleetAssumption DEF FleetInv, FleetShape, Unknown
<1>3. CASE pre_register_branch(b)
  <2>1. PICK row : row = [old EXCEPT !.seen = clock]
    OBVIOUS
  <2>2. row \in BranchRow /\ row.disk = old.disk /\ row.backup = old.backup /\ row.seen = clock /\ row.online = old.online
    BY <1>2, <2>1 DEF BranchRow
  <2>3. Writes(b, row) /\ UNCHANGED elsewhere
    BY <1>1, <1>3, <2>1 DEF pre_register_branch
  <2> QED
    BY <1>1, <2>2, <2>3, WritesKeep
<1>4. CASE register_branch(b, v)
  <2>1. PICK row : row = [old EXCEPT !.seen = clock, !.online = TRUE, !.install = "registered",
                                     !.version = Coalesce(v, @, NoVersion)]
    OBVIOUS
  <2>2. row \in BranchRow /\ row.disk = old.disk /\ row.backup = old.backup /\ row.seen = clock /\ row.online
    BY <1>2, <2>1 DEF BranchRow, Coalesce
  <2>3. Writes(b, row) /\ UNCHANGED elsewhere
    BY <1>1, <1>4, <2>1 DEF register_branch
  <2> QED
    BY <1>1, <2>2, <2>3, WritesKeep
<1>5. ASSUME NEW status \in {"success", "error"}, report_install_status(b, status, v) PROVE FleetInv'
  <2>1. PICK row : row = [old EXCEPT !.install = status, !.version = Coalesce(v, @, NoVersion)]
    OBVIOUS
  <2>2. row \in BranchRow /\ row.disk = old.disk /\ row.backup = old.backup /\ row.seen = old.seen /\ row.online = old.online
    BY <2>1 DEF BranchRow, Coalesce
  <2>3. Writes(b, row) /\ UNCHANGED elsewhere
    BY <1>1, <1>5, <2>1 DEF report_install_status
  <2> QED
    BY <1>1, <2>2, <2>3, WritesKeep
<1>6. ASSUME NEW status \in {"active", "error"}, TunnelReports(b, status) PROVE FleetInv'
  <2>1. PICK row : row = [old EXCEPT !.tunnel = status]
    OBVIOUS
  <2>2. row \in BranchRow /\ row.disk = old.disk /\ row.backup = old.backup /\ row.seen = old.seen /\ row.online = old.online
    BY <2>1 DEF BranchRow
  <2>3. Writes(b, row) /\ UNCHANGED elsewhere
    BY <1>1, <1>6, <2>1 DEF TunnelReports
  <2> QED
    BY <1>1, <2>2, <2>3, WritesKeep
<1> QED
  BY <1>3, <1>4, <1>5, <1>6

LEMMA FleetStep == FleetInv /\ [FleetNext]_fleet => FleetInv'
<1> SUFFICES ASSUME FleetInv, [FleetNext]_fleet PROVE FleetInv'
  OBVIOUS
<1>1. branches \in [Stores -> BranchRow] /\ clock \in 0..LastMoment /\ clock <= clock + 1 /\ clock <= clock
  BY FleetAssumption DEF FleetInv, FleetShape
<1>2. CASE UNCHANGED fleet
  BY <1>1, <1>2, PagesStep DEF fleet
<1>3. CASE TimePasses
  <2>1. clock' \in 0..LastMoment /\ clock <= clock' /\ UNCHANGED <<heartbeats, post, blurred, branches>>
    BY <1>1, <1>3, FleetAssumption DEF TimePasses
  <2> QED
    BY <1>1, <2>1, PagesStep
<1>4. ASSUME NEW b \in Stores, pre_register_branch(b) PROVE FleetInv'
  <2>1. NoVersion \in PosVersions \cup {NoVersion}
    OBVIOUS
  <2> QED
    BY <1>4, <2>1, ReportsKeep
<1>5. ASSUME NEW b \in Stores, NEW status \in {"active", "error"}, TunnelReports(b, status) PROVE FleetInv'
  <2>1. NoVersion \in PosVersions \cup {NoVersion}
    OBVIOUS
  <2> QED
    BY <1>5, <2>1, ReportsKeep
<1>6. ASSUME NEW b \in Stores, NEW v \in PosVersions \cup {NoVersion},
             \/ register_branch(b, v)
             \/ \E status \in {"success", "error"} : report_install_status(b, status, v)
      PROVE  FleetInv'
  BY <1>6, ReportsKeep
<1>7. ASSUME NEW p \in Posts,
             \/ \E b \in Stores : \E beat \in Beats(b) : create_heartbeat(p, beat)
             \/ UpdatesBranch(p) \/ HeartbeatBreaksOff(p)
      PROVE  FleetInv'
  BY <1>7, HeartbeatKeeps, UpdateKeeps, PostBreaks
<1> QED
  BY <1>2, <1>3, <1>4, <1>5, <1>6, <1>7 DEF FleetNext

\* What branches show of the heartbeats, at every step and whatever heartbeats meet.
THEOREM FleetInvariant == FleetSpec => []FleetInv
BY FleetStart, FleetStep, PTL DEF FleetSpec

-----------------------------------------------------------------------------
\* Why a page calls a branch what it does.
LEMMA DashboardReasons ==
  ASSUME NEW b \in Stores, branches[b] \in BranchRow
  PROVE  LET row == branches[b]
             page == dashboard_branch_health(b)
             grave == ~row.online \/ row.install = "error" \/ row.tunnel = "error" \/ row.disk >= 90
         IN  /\ "offline" \in page.reasons <=> ~row.online
             /\ "install_error" \in page.reasons <=> row.install = "error"
             /\ "tunnel_error" \in page.reasons <=> row.tunnel = "error"
             /\ "disk_high" \in page.reasons <=> row.disk >= 90
             /\ page.health = "critical" <=> grave
             /\ page.health = "healthy" <=> ~grave /\ row.disk < 80 /\ row.backup # Unknown
<1> DEFINE row == branches[b]
           Grave == {k \in {"offline", "install_error", "tunnel_error", "disk_high"} :
                       CASE k = "offline" -> ~row.online
                         [] k = "install_error" -> row.install = "error"
                         [] k = "tunnel_error" -> row.tunnel = "error"
                         [] k = "disk_high" -> row.disk >= 90}
           Full == IF Grave = {} /\ row.disk >= 80 THEN {"disk_warning"} ELSE {}
           Lost == IF Grave \cup Full = {} /\ row.backup = Unknown THEN {"backup_missing"} ELSE {}
<1>1. /\ "offline" \in Grave <=> ~row.online
      /\ "install_error" \in Grave <=> row.install = "error"
      /\ "tunnel_error" \in Grave <=> row.tunnel = "error"
      /\ "disk_high" \in Grave <=> row.disk >= 90
  OBVIOUS
<1>2. Grave # {} <=> ~row.online \/ row.install = "error" \/ row.tunnel = "error" \/ row.disk >= 90
  <2>1. \A k \in Grave : k \in {"offline", "install_error", "tunnel_error", "disk_high"}
    OBVIOUS
  <2> HIDE DEF Grave, row
  <2>2. Grave # {} => \E k \in {"offline", "install_error", "tunnel_error", "disk_high"} : k \in Grave
    BY <2>1
  <2> QED
    BY <1>1, <2>2
<1>3. dashboard_branch_health(b) =
        [health |-> IF Grave # {} THEN "critical" ELSE IF Full \cup Lost # {} THEN "warning" ELSE "healthy",
         reasons |-> Grave \cup Full \cup Lost]
  BY DEF dashboard_branch_health
<1>4. row.disk \in Int
  BY FleetAssumption DEF BranchRow, Unknown
<1> HIDE DEF Grave
<1>5. Full \cup Lost # {} <=> (Grave = {} /\ row.disk >= 80) \/ (Grave = {} /\ Full = {} /\ row.backup = Unknown)
  OBVIOUS
<1>6. "offline" \notin Full \cup Lost /\ "install_error" \notin Full \cup Lost /\ "tunnel_error" \notin Full \cup Lost
      /\ "disk_high" \notin Full \cup Lost
  OBVIOUS
<1>7. Full = {} <=> ~(Grave = {} /\ row.disk >= 80)
  OBVIOUS
<1> HIDE DEF Full, Lost
<1>8. /\ dashboard_branch_health(b).reasons = Grave \cup Full \cup Lost
      /\ dashboard_branch_health(b).health = "critical" <=> Grave # {}
      /\ dashboard_branch_health(b).health = "healthy" <=> Grave = {} /\ Full \cup Lost = {}
  BY <1>3
<1> QED
  BY <1>1, <1>2, <1>4, <1>5, <1>6, <1>7, <1>8

LEMMA OwnersReasons ==
  ASSUME NEW b \in Stores, branches[b] \in BranchRow, NEW numeric \in {"decimal", "float"}
  PROVE  LET row == branches[b]
             page == build_fleet_health(b, numeric)
             grave == \/ ~row.online \/ row.install = "error" \/ row.tunnel = "error"
                      \/ row.disk >= 90 /\ numeric = "float"
             light == row.backup = Unknown \/ row.version \notin {NoVersion, expected_pos_version}
         IN  /\ "offline" \in page.reasons <=> ~row.online
             /\ "install_error" \in page.reasons <=> row.install = "error"
             /\ "tunnel_error" \in page.reasons <=> row.tunnel = "error"
             /\ "disk_critical" \in page.reasons <=> row.disk >= 90 /\ numeric = "float"
             /\ "backup_missing" \in page.reasons <=> row.backup = Unknown
             /\ page.health = "critical" <=> grave
             /\ page.health = "healthy" <=> ~grave /\ ~light
             /\ page.reasons \subseteq {"offline", "install_error", "tunnel_error", "disk_critical",
                                        "backup_missing", "version_drift"}
<1> DEFINE row == branches[b]
           Grave == {k \in {"offline", "disk_critical", "tunnel_error", "install_error"} :
                       CASE k = "offline" -> ~row.online
                         [] k = "disk_critical" -> IsNumber(row.disk, numeric) /\ row.disk >= 90
                         [] k = "tunnel_error" -> row.tunnel = "error"
                         [] k = "install_error" -> row.install = "error"}
           Light == {k \in {"backup_missing", "version_drift"} :
                       CASE k = "backup_missing" -> row.backup = Unknown
                         [] k = "version_drift" -> row.version \notin {NoVersion, expected_pos_version}}
<1>0. IsNumber(row.disk, numeric) /\ row.disk >= 90 <=> row.disk >= 90 /\ numeric = "float"
  BY FleetAssumption DEF IsNumber, BranchRow, Unknown
<1>1. /\ "offline" \in Grave <=> ~row.online
      /\ "install_error" \in Grave <=> row.install = "error"
      /\ "tunnel_error" \in Grave <=> row.tunnel = "error"
      /\ "disk_critical" \in Grave <=> row.disk >= 90 /\ numeric = "float"
      /\ "backup_missing" \in Light <=> row.backup = Unknown
      /\ "version_drift" \in Light <=> row.version \notin {NoVersion, expected_pos_version}
  BY <1>0
<1>2. /\ Grave \subseteq {"offline", "disk_critical", "tunnel_error", "install_error"}
      /\ Light \subseteq {"backup_missing", "version_drift"}
  OBVIOUS
<1>3. build_fleet_health(b, numeric) =
        [health |-> IF Grave # {} THEN "critical" ELSE IF Light # {} THEN "warning" ELSE "healthy",
         reasons |-> Grave \cup Light]
  BY DEF build_fleet_health
<1> HIDE DEF Grave, Light, row
<1>4. Grave # {} <=> ~row.online \/ row.install = "error" \/ row.tunnel = "error" \/ (row.disk >= 90 /\ numeric = "float")
  <2>1. Grave # {} => \E k \in {"offline", "disk_critical", "tunnel_error", "install_error"} : k \in Grave
    BY <1>2
  <2> QED
    BY <1>1, <2>1
<1>5. Light # {} <=> row.backup = Unknown \/ row.version \notin {NoVersion, expected_pos_version}
  <2>1. Light # {} => \E k \in {"backup_missing", "version_drift"} : k \in Light
    BY <1>2
  <2> QED
    BY <1>1, <2>1
<1>6. /\ build_fleet_health(b, numeric).reasons = Grave \cup Light
      /\ build_fleet_health(b, numeric).health = "critical" <=> Grave # {}
      /\ build_fleet_health(b, numeric).health = "healthy" <=> Grave = {} /\ Light = {}
  BY <1>3
<1> QED
  BY <1>1, <1>2, <1>4, <1>5, <1>6 DEF row

LEMMA AlertReasons ==
  ASSUME NEW b \in Stores, branches[b] \in BranchRow, NEW numeric \in {"decimal", "float"}
  PROVE  LET row == branches[b]
             alerts == collect_alert_candidates(b, numeric)
         IN  /\ "install_error" \in alerts <=> row.install = "error"
             /\ "tunnel_error" \in alerts <=> row.tunnel = "error"
             /\ "disk_usage" \in alerts <=> row.disk >= 80 /\ numeric = "float"
             /\ row.backup = Unknown => "backup_stale" \in alerts
             /\ alerts \subseteq {"offline_branch", "offline_branch_long", "disk_usage", "backup_stale",
                                  "tunnel_error", "install_error"}
<1>1. IsNumber(branches[b].disk, numeric) /\ branches[b].disk >= 80 <=> branches[b].disk >= 80 /\ numeric = "float"
  BY FleetAssumption DEF IsNumber, BranchRow, Unknown
<1> QED
  BY <1>1 DEF collect_alert_candidates, Before

LEMMA PagesAgreeWhen == FleetShape => PagesAgree
<1> SUFFICES ASSUME FleetShape, NEW b \in Stores, NEW numeric \in {"decimal", "float"}
             PROVE  LET alerts == collect_alert_candidates(b, numeric)
                        shown == dashboard_branch_health(b)
                        owned == build_fleet_health(b, numeric)
                        full == branches[b].disk >= 80
                    IN
                        /\ alerts \cap {"tunnel_error", "install_error"} = shown.reasons \cap {"tunnel_error", "install_error"}
                        /\ shown.reasons \cap {"tunnel_error", "install_error", "offline"}
                            = owned.reasons \cap {"tunnel_error", "install_error", "offline"}
                        /\ "disk_usage" \in alerts <=> full /\ numeric = "float"
                        /\ owned.health = "critical" => shown.health = "critical"
                        /\ shown.health = "critical" /\ owned.health # "critical" => full /\ numeric = "decimal"
                        /\ owned.health = "healthy" => shown.health = "healthy" \/ full
                        /\ shown.health = "healthy" => owned.reasons \subseteq {"version_drift"}
                        /\ "disk_high" \in shown.reasons /\ numeric = "float" => "disk_usage" \in alerts
  BY DEF PagesAgree
<1> DEFINE alerts == collect_alert_candidates(b, numeric)
           shown == dashboard_branch_health(b)
           owned == build_fleet_health(b, numeric)
           row == branches[b]
<1>1. row \in BranchRow /\ row.disk \in Int
  <2>1. row \in BranchRow
    BY DEF FleetShape
  <2> QED
    BY <2>1 DEF BranchRow, Unknown
<1>2. /\ "offline" \in shown.reasons <=> ~row.online
      /\ "install_error" \in shown.reasons <=> row.install = "error"
      /\ "tunnel_error" \in shown.reasons <=> row.tunnel = "error"
      /\ "disk_high" \in shown.reasons <=> row.disk >= 90
      /\ shown.health = "critical" <=> ~row.online \/ row.install = "error" \/ row.tunnel = "error" \/ row.disk >= 90
      /\ shown.health = "healthy" <=>
            /\ ~(~row.online \/ row.install = "error" \/ row.tunnel = "error" \/ row.disk >= 90)
            /\ row.disk < 80 /\ row.backup # Unknown
  BY <1>1, DashboardReasons
<1>3. /\ "offline" \in owned.reasons <=> ~row.online
      /\ "install_error" \in owned.reasons <=> row.install = "error"
      /\ "tunnel_error" \in owned.reasons <=> row.tunnel = "error"
      /\ "disk_critical" \in owned.reasons <=> row.disk >= 90 /\ numeric = "float"
      /\ "backup_missing" \in owned.reasons <=> row.backup = Unknown
      /\ owned.health = "critical" <=>
            ~row.online \/ row.install = "error" \/ row.tunnel = "error" \/ (row.disk >= 90 /\ numeric = "float")
      /\ owned.health = "healthy" =>
            /\ ~(~row.online \/ row.install = "error" \/ row.tunnel = "error" \/ (row.disk >= 90 /\ numeric = "float"))
            /\ row.backup # Unknown
      /\ owned.reasons \subseteq {"offline", "install_error", "tunnel_error", "disk_critical",
                                  "backup_missing", "version_drift"}
  BY <1>1, OwnersReasons
<1>4. /\ "install_error" \in alerts <=> row.install = "error"
      /\ "tunnel_error" \in alerts <=> row.tunnel = "error"
      /\ "disk_usage" \in alerts <=> row.disk >= 80 /\ numeric = "float"
  BY <1>1, AlertReasons
<1> HIDE DEF alerts, shown, owned, row
<1>5. alerts \cap {"tunnel_error", "install_error"} = shown.reasons \cap {"tunnel_error", "install_error"}
  BY <1>2, <1>4
<1>6. shown.reasons \cap {"tunnel_error", "install_error", "offline"}
        = owned.reasons \cap {"tunnel_error", "install_error", "offline"}
  BY <1>2, <1>3
<1>7. shown.health = "healthy" => owned.reasons \subseteq {"version_drift"}
  BY <1>2, <1>3
<1>8. row.disk >= 90 => row.disk >= 80
  BY <1>1
<1>9. row.disk < 80 <=> ~(row.disk >= 80)
  BY <1>1
<1> QED
  BY <1>2, <1>3, <1>4, <1>5, <1>6, <1>7, <1>8, <1>9 DEF alerts, shown, owned, row

LEMMA ShownWhen == FleetInv => HeartbeatShown
<1> SUFFICES ASSUME FleetInv, NEW b \in Stores
             PROVE  /\ owner_branch_timeline(b) # {} /\ b \notin blurred /\ BeatingFor(b) = {} =>
                        /\ branches[b].disk = LastTold(b).disk
                        /\ branches[b].seen >= LastTold(b).at
                        /\ branches[b].backup >= LastTold(b).backup
                        /\ "offline" \notin dashboard_branch_health(b).reasons \cup build_fleet_health(b, "decimal").reasons
                    /\ branches[b].disk \in {Unknown} \cup {heartbeats[i].disk : i \in owner_branch_timeline(b)}
  BY DEF HeartbeatShown
<1>1. Len(heartbeats) \in Nat /\ DOMAIN heartbeats = 1..Len(heartbeats) /\ branches[b] \in BranchRow
  BY LenProperties DEF FleetInv, FleetShape
<1>2. ASSUME owner_branch_timeline(b) # {}, b \notin blurred, BeatingFor(b) = {}
      PROVE  /\ branches[b].disk = LastTold(b).disk
             /\ branches[b].seen >= LastTold(b).at
             /\ branches[b].backup >= LastTold(b).backup
             /\ "offline" \notin dashboard_branch_health(b).reasons \cup build_fleet_health(b, "decimal").reasons
  <2>1. owner_branch_timeline(b) \subseteq 1..Len(heartbeats)
    BY <1>1 DEF owner_branch_timeline, get_recent_heartbeats
  <2>2. LastOf(b, Max(owner_branch_timeline(b)))
    <3>1. PICK S \in SUBSET (1..Len(heartbeats)) : S = owner_branch_timeline(b)
      BY <2>1
    <3>2. Max(S) \in S /\ \A q \in S : q <= Max(S)
      BY <1>1, <1>2, <3>1, GreatestPlace
    <3> QED
      BY <3>1, <3>2 DEF LastOf, owner_branch_timeline, get_recent_heartbeats
  <2>3. PICK i \in DOMAIN heartbeats : LastOf(b, i) /\ LastTold(b) = heartbeats[i]
    BY <2>2 DEF LastOf, LastTold
  <2>4. /\ branches[b].disk = heartbeats[i].disk /\ branches[b].seen >= heartbeats[i].at
        /\ branches[b].backup >= heartbeats[i].backup /\ branches[b].online
    BY <1>2, <2>3 DEF FleetInv, ShowsLast
  <2>5. "offline" \notin dashboard_branch_health(b).reasons
    BY <1>1, <2>4, DashboardReasons
  <2>6. "offline" \notin build_fleet_health(b, "decimal").reasons
    BY <1>1, <2>4, OwnersReasons
  <2> QED
    BY <2>3, <2>4, <2>5, <2>6
<1>3. branches[b].disk \in {Unknown} \cup {heartbeats[i].disk : i \in owner_branch_timeline(b)}
  BY DEF FleetInv, DiskTold, owner_branch_timeline, get_recent_heartbeats
<1> QED
  BY <1>2, <1>3

-----------------------------------------------------------------------------
\* Counting.  The branches of which something holds, and those of which it does not.
LEMMA CountedApart ==
  ASSUME NEW S, IsFiniteSet(S), NEW T \in SUBSET S
  PROVE  /\ IsFiniteSet(T) /\ IsFiniteSet(S \ T)
         /\ Cardinality(T) \in Nat /\ Cardinality(S \ T) \in Nat
         /\ Cardinality(S \ T) = Cardinality(S) - Cardinality(T)
<1>1. IsFiniteSet(T) /\ IsFiniteSet(S \ T) /\ T \cap (S \ T) = {} /\ T \cup (S \ T) = S
  BY FS_Subset
<1>2. Cardinality(S) = Cardinality(T) + Cardinality(S \ T) - Cardinality(T \cap (S \ T))
  BY <1>1, FS_Union
<1>3. Cardinality(T) \in Nat /\ Cardinality(S \ T) \in Nat /\ Cardinality(S) \in Nat
  BY <1>1, FS_CardinalityType
<1>4. Cardinality({}) = 0
  BY FS_EmptySet
<1> QED
  BY <1>1, <1>2, <1>3, <1>4

\* Pairs of one second half are as many as their first halves.
LEMMA PairsCount ==
  ASSUME NEW S, IsFiniteSet(S), NEW k
  PROVE  IsFiniteSet(S \X {k}) /\ Cardinality(S \X {k}) = Cardinality(S)
<1> DEFINE f == [s \in S |-> <<s, k>>]
<1>1. f \in Bijection(S, S \X {k})
  <2>1. f \in Injection(S, S \X {k})
    BY DEF Injection, IsInjective
  <2>2. f \in Surjection(S, S \X {k})
    <3>1. \A y \in S \X {k} : y[1] \in S /\ f[y[1]] = y
      OBVIOUS
    <3> QED
      BY <3>1 DEF Surjection
  <2> QED
    BY <2>1, <2>2 DEF Bijection
<1>2. ExistsBijection(S, S \X {k})
  BY <1>1 DEF ExistsBijection
<1> QED
  BY <1>2, FS_Bijection

LEMMA AlertsFinite ==
  ASSUME FleetShape, NEW numeric \in {"decimal", "float"}
  PROVE  IsFiniteSet(Alerts(numeric)) /\ Cardinality(Alerts(numeric)) \in Nat
         /\ \A a \in Alerts(numeric) : a[1] \in Stores /\ a[2] \in collect_alert_candidates(a[1], numeric)
<1> DEFINE Kinds == {"offline_branch", "offline_branch_long", "disk_usage", "backup_stale", "tunnel_error", "install_error"}
<1>1. Alerts(numeric) \subseteq Stores \X Kinds
  <2>1. \A b \in Stores : collect_alert_candidates(b, numeric) \subseteq Kinds
    BY DEF collect_alert_candidates
  <2> HIDE DEF Kinds
  <2> QED
    BY <2>1 DEF Alerts
<1>2. IsFiniteSet(Kinds)
  <2>1. \A T, x : IsFiniteSet(T) => IsFiniteSet(T \cup {x})
    BY FS_AddElement
  <2>2. IsFiniteSet({})
    BY FS_EmptySet
  <2>3. IsFiniteSet(((((({} \cup {"offline_branch"}) \cup {"offline_branch_long"}) \cup {"disk_usage"})
                      \cup {"backup_stale"}) \cup {"tunnel_error"}) \cup {"install_error"})
    BY ONLY <2>1, <2>2
  <2>4. Kinds = ((((({} \cup {"offline_branch"}) \cup {"offline_branch_long"}) \cup {"disk_usage"})
                  \cup {"backup_stale"}) \cup {"tunnel_error"}) \cup {"install_error"}
    OBVIOUS
  <2> QED
    BY <2>3, <2>4
<1>3. IsFiniteSet(Stores \X Kinds)
  BY <1>2, FleetAssumption, FS_Product
<1> QED
  BY <1>1, <1>3, FS_Subset, FS_CardinalityType DEF Alerts

LEMMA CountsAgreeWhen == FleetShape => CountsAgree
<1> SUFFICES ASSUME FleetShape, NEW numeric \in {"decimal", "float"}
             PROVE  LET summary == dashboard_summary(numeric)
                        portfolio == owner_portfolio(numeric)
                    IN
                    /\ summary.online = portfolio.online /\ summary.offline = portfolio.offline
                    /\ summary.alerts_total = portfolio.alerts_total
                    /\ summary.offline = Cardinality({b \in Stores : "offline" \in build_fleet_health(b, numeric).reasons})
                    /\ dashboard_tenant_summary.online = summary.online
                    /\ dashboard_tenant_summary.backup_missing <= Cardinality({a \in Alerts(numeric) : a[2] = "backup_stale"})
                    /\ summary.alerts_total + summary.tunnel_errors + summary.install_errors
                        = Cardinality(UNION {{b} \X owner_events(numeric).snapshot[b] : b \in Stores})
  BY DEF CountsAgree
<1> DEFINE Online == {b \in Stores : branches[b].online}
           Offline == {b \in Stores : ~branches[b].online}
           Installs == {b \in Stores : branches[b].install = "error"}
           TunnelErrors == {b \in Stores : branches[b].tunnel = "error"}
           NoBackup == {b \in Stores : branches[b].backup = Unknown}
           Stale == {a \in Alerts(numeric) : a[2] = "backup_stale"}
           Events == UNION {{b} \X owner_events(numeric).snapshot[b] : b \in Stores}
<1>0. IsFiniteSet(Stores) /\ \A b \in Stores : branches[b] \in BranchRow
  BY FleetAssumption DEF FleetShape
<1>1. Cardinality(Offline) = Cardinality(Stores) - Cardinality(Online)
  <2>1. Offline = Stores \ Online /\ Online \in SUBSET Stores
    OBVIOUS
  <2> QED
    BY <1>0, <2>1, CountedApart
<1>2. Offline = {b \in Stores : "offline" \in build_fleet_health(b, numeric).reasons}
  BY <1>0, OwnersReasons
<1>3. Cardinality(NoBackup) <= Cardinality(Stale)
  <2>1. NoBackup \X {"backup_stale"} \subseteq Stale
    <3>1. \A b \in NoBackup : "backup_stale" \in collect_alert_candidates(b, numeric)
      BY <1>0, AlertReasons
    <3> QED
      BY <3>1 DEF Alerts
  <2>2. IsFiniteSet(NoBackup)
    BY <1>0, FS_Subset
  <2>3. IsFiniteSet(Stale)
    BY AlertsFinite, FS_Subset
  <2>4. Cardinality(NoBackup \X {"backup_stale"}) = Cardinality(NoBackup)
    BY <2>2, PairsCount
  <2> QED
    BY <2>1, <2>3, <2>4, FS_Subset
<1>4. Cardinality(Alerts(numeric)) + Cardinality(TunnelErrors) + Cardinality(Installs) = Cardinality(Events)
  <2> DEFINE T == TunnelErrors \X {"branch.tunnel_error"}
             I == Installs \X {"branch.install_error"}
             A == Alerts(numeric)
  <2>1. Events = A \cup (T \cup I)
    <3>1. \A b \in Stores : owner_events(numeric).snapshot[b] = collect_alert_candidates(b, numeric)
              \cup (IF branches[b].install = "error" THEN {"branch.install_error"} ELSE {})
              \cup (IF branches[b].tunnel = "error" THEN {"branch.tunnel_error"} ELSE {})
      BY DEF owner_events, snapshot_events
    <3>2. Events \subseteq A \cup (T \cup I)
      BY <3>1 DEF Alerts
    <3>3. A \cup (T \cup I) \subseteq Events
      BY <3>1 DEF Alerts
    <3> QED
      BY <3>2, <3>3
  <2>2. A \cap (T \cup I) = {} /\ T \cap I = {}
    <3>1. \A a \in A : a[2] # "branch.tunnel_error" /\ a[2] # "branch.install_error"
      BY AlertsFinite, <1>0, AlertReasons
    <3> QED
      BY <3>1
  <2>3. IsFiniteSet(TunnelErrors) /\ IsFiniteSet(Installs) /\ IsFiniteSet(A)
    BY <1>0, FS_Subset, AlertsFinite
  <2>4. /\ IsFiniteSet(T) /\ IsFiniteSet(I)
        /\ Cardinality(T) = Cardinality(TunnelErrors) /\ Cardinality(I) = Cardinality(Installs)
    BY <2>3, PairsCount
  <2> HIDE DEF T, I, A, Events, TunnelErrors, Installs
  <2>5. IsFiniteSet(T \cup I) /\ Cardinality(T \cup I) = Cardinality(T) + Cardinality(I) - Cardinality({})
    BY <2>2, <2>4, FS_Union
  <2>6. Cardinality(A \cup (T \cup I)) = Cardinality(A) + Cardinality(T \cup I) - Cardinality({})
    BY <2>2, <2>3, <2>5, FS_Union
  <2>7. Cardinality(A) \in Nat /\ Cardinality(T) \in Nat /\ Cardinality(I) \in Nat /\ Cardinality({}) = 0
    BY <2>3, <2>4, FS_CardinalityType, FS_EmptySet
  <2> QED
    BY <2>1, <2>4, <2>5, <2>6, <2>7 DEF A
<1>5. /\ dashboard_summary(numeric).online = Cardinality(Online)
      /\ dashboard_summary(numeric).offline = Cardinality(Offline)
      /\ dashboard_summary(numeric).install_errors = Cardinality(Installs)
      /\ dashboard_summary(numeric).tunnel_errors = Cardinality(TunnelErrors)
      /\ dashboard_summary(numeric).alerts_total = Cardinality(Alerts(numeric))
      /\ owner_portfolio(numeric).online = Cardinality(Online)
      /\ owner_portfolio(numeric).offline = Cardinality(Stores) - Cardinality(Online)
      /\ owner_portfolio(numeric).alerts_total = Cardinality(Alerts(numeric))
      /\ dashboard_tenant_summary.online = Cardinality(Online)
      /\ dashboard_tenant_summary.backup_missing = Cardinality(NoBackup)
  BY DEF dashboard_summary, owner_portfolio, dashboard_tenant_summary
<1> QED
  BY <1>1, <1>2, <1>3, <1>4, <1>5

LEMMA FleetTyped == FleetInv => FleetTypeOK
BY DEF FleetInv, FleetShape, FleetTypeOK, BranchRow

-----------------------------------------------------------------------------
(* Payments                                                                *)

\* The calls that report a payment and have not been answered.
Reporting(p) == {c \in Reporters : report[c] # 0 /\ payment[report[c]].paid = p}
Listed(p) == {i \in DOMAIN payment : payment[i].paid = p}
Acknowledged(p) == IF p \in heard THEN 1 ELSE 0

PaymentRow == [tenant : Owners, shop : Shops, paid : Paid, status : {"pending", "approved", "rejected"},
        until : {0} \cup Terms]

PaymentsShape ==
    /\ hour \in 0..LastHour /\ signed \subseteq Session
    /\ payment \in Seq(PaymentRow) /\ Len(payment) <= MaxReported
    /\ report \in [Reporters -> 0..MaxReported] /\ \A c \in Reporters : report[c] \in 0..Len(payment)
    /\ heard \subseteq Paid /\ unheard \in [Paid -> Nat]
    /\ granted \in Seq({0} \cup Terms) /\ Len(granted) = Len(payment)

\* A payment is on the list once for each answer that was lost, once if one arrived,
\* and once while a call waits for one; a payment that was acknowledged is reported
\* no more, and by one call at a time.
ReportsCounted ==
    \A p \in Paid :
        /\ \A c, d \in Reporting(p) : c = d
        /\ Reporting(p) # {} => p \notin heard
        /\ Reports(p) = unheard[p] + Acknowledged(p) + (IF Reporting(p) = {} THEN 0 ELSE 1)

\* Whoever is let in by a branch is let in to its tenant.
SessionsFit == \A s \in signed : s.shop # NoShop => OwnerOf[s.shop] = s.tenant
RowsFit == \A i \in DOMAIN payment : payment[i].tenant = OwnerOf[payment[i].shop] /\ payment[i].until = granted[i]

PaymentsInv == PaymentsShape /\ ReportsCounted /\ SessionsFit /\ RowsFit

-----------------------------------------------------------------------------
LEMMA PaymentsStart == PaymentsInit => PaymentsInv
<1> SUFFICES ASSUME PaymentsInit PROVE PaymentsInv
  OBVIOUS
<1>1. PaymentsShape
  BY PaymentsAssumption DEF PaymentsInit, PaymentsShape
<1>2. \A p \in Paid : Reporting(p) = {} /\ Listed(p) = {}
  BY DEF PaymentsInit, Reporting, Listed
<1>3. \A p \in Paid : Reports(p) = 0
  BY <1>2, FS_EmptySet DEF Reports, Listed
<1>4. ReportsCounted
  BY <1>2, <1>3 DEF PaymentsInit, ReportsCounted, Acknowledged
<1> QED
  BY <1>1, <1>4 DEF PaymentsInit, PaymentsInv, SessionsFit, RowsFit

\* A session or a token lets in to the tenant of the branch that it is taken for.
LEMMA LetInToItsTenant ==
  ASSUME PaymentsInv, NEW s \in verify_owner_access
  PROVE  /\ s.tenant \in Owners /\ resolve_owner_context(s) \in Shops
         /\ OwnerOf[resolve_owner_context(s)] = s.tenant
<1>1. CASE s \in signed
  BY <1>1, PaymentsAssumption DEF PaymentsInv, PaymentsShape, SessionsFit, Session, resolve_owner_context
<1>2. CASE s \in {[tenant |-> OwnerOf[b], shop |-> b, exp |-> hour] : b \in Shops}
  <2>1. PICK b \in Shops : s = [tenant |-> OwnerOf[b], shop |-> b, exp |-> hour]
    BY <1>2
  <2>2. s.tenant = OwnerOf[b] /\ s.shop = b /\ OwnerOf[b] \in Owners
    BY <2>1, PaymentsAssumption
  <2> QED
    BY <2>2, PaymentsAssumption DEF resolve_owner_context
<1> QED
  BY <1>1, <1>2 DEF verify_owner_access

\* The list is finite.
LEMMA ListedFinite ==
  ASSUME PaymentsShape, NEW p \in Paid
  PROVE  IsFiniteSet(Listed(p)) /\ Cardinality(Listed(p)) \in Nat /\ Reports(p) = Cardinality(Listed(p))
<1>1. Len(payment) \in Nat /\ DOMAIN payment = 1..Len(payment)
  BY LenProperties DEF PaymentsShape
<1>2. IsFiniteSet(1..Len(payment))
  BY <1>1, FS_Interval
<1>3. Listed(p) \subseteq 1..Len(payment)
  BY <1>1 DEF Listed
<1>4. IsFiniteSet(Listed(p))
  BY <1>2, <1>3, FS_Subset
<1> QED
  BY <1>4, FS_CardinalityType DEF Reports, Listed

\* Steps that report nothing and answer nobody.
LEMMA NoReport ==
  ASSUME PaymentsInv, UNCHANGED <<report, unheard, heard>>,
         DOMAIN payment' = DOMAIN payment, \A i \in DOMAIN payment : payment'[i].paid = payment[i].paid
  PROVE  ReportsCounted'
<1>0. \A c \in Reporters : report[c] # 0 => report[c] \in DOMAIN payment
  BY LenProperties DEF PaymentsInv, PaymentsShape
<1>1. \A p \in Paid : Reporting(p)' = Reporting(p)
  BY <1>0 DEF Reporting
<1>2. \A p \in Paid : Reports(p)' = Reports(p)
  <2> TAKE p \in Paid
  <2>1. {i \in DOMAIN payment' : payment'[i].paid = p} = {i \in DOMAIN payment : payment[i].paid = p}
    OBVIOUS
  <2> QED
    BY <2>1 DEF Reports
<1>3. \A p \in Paid : Acknowledged(p)' = Acknowledged(p)
  BY DEF Acknowledged
<1> QED
  BY <1>1, <1>2, <1>3 DEF PaymentsInv, ReportsCounted

LEMMA SessionsKeep ==
  ASSUME PaymentsInv, NEW t \in Owners, NEW shop \in Shops \cup {NoShop}, shop # NoShop => OwnerOf[shop] = t,
         NEW hours \in {SessionHours, CloudHours}, sign_owner_session(t, shop, hours)
  PROVE  PaymentsInv'
<1> DEFINE s == [tenant |-> t, shop |-> shop, exp |-> hour + hours]
<1>1. /\ signed' = signed \cup {s}
      /\ UNCHANGED <<hour, payment, report, unheard, heard, granted>>
  BY DEF sign_owner_session
<1>2. hour + hours \in 0..(LastHour + SessionHours + CloudHours)
  BY PaymentsAssumption DEF PaymentsInv, PaymentsShape
<1>3. s \in Session
  BY <1>2 DEF Session
<1>4. PaymentsShape'
  BY <1>1, <1>3 DEF PaymentsInv, PaymentsShape
<1>5. SessionsFit'
  BY <1>1 DEF PaymentsInv, SessionsFit
<1>6. ReportsCounted'
  BY <1>1, NoReport
<1> QED
  BY <1>1, <1>4, <1>5, <1>6 DEF PaymentsInv, RowsFit

LEMMA ReportKeeps ==
  ASSUME PaymentsInv, NEW c \in Reporters, NEW s \in verify_owner_access, NEW p \in Paid,
         owner_create_payment_request(c, s, p)
  PROVE  PaymentsInv'
<1> DEFINE shop == resolve_owner_context(s)
           row == [tenant |-> OwnerOf[shop], shop |-> shop, paid |-> p, status |-> "pending", until |-> 0]
           n == Len(payment) + 1
<1>1. shop \in Shops /\ OwnerOf[shop] \in Owners
  BY LetInToItsTenant
<1>2. row \in PaymentRow
  BY <1>1 DEF PaymentRow
<1>3. /\ report[c] = 0 /\ p \notin heard /\ Len(payment) < MaxReported
      /\ \A d \in Reporters : report[d] # 0 => payment[report[d]].paid # p
      /\ payment' = Append(payment, row) /\ granted' = Append(granted, 0)
      /\ report' = [report EXCEPT ![c] = Len(payment')]
      /\ UNCHANGED <<hour, signed, unheard, heard>>
  BY DEF owner_create_payment_request
<1> HIDE DEF row, shop
<1>4. PaymentsShape
  BY DEF PaymentsInv
<1>5. /\ Len(payment) \in Nat /\ DOMAIN payment = 1..Len(payment) /\ Len(granted) = Len(payment)
      /\ Len(payment') = n /\ payment' \in Seq(PaymentRow) /\ payment'[n] = row
      /\ \A i \in 1..Len(payment) : payment'[i] = payment[i]
      /\ DOMAIN payment' = 1..n
  BY <1>2, <1>3, <1>4, AppendProperties, LenProperties DEF PaymentsShape
<1>6. /\ Len(granted') = n /\ granted' \in Seq({0} \cup Terms) /\ granted'[n] = 0
      /\ \A i \in 1..Len(payment) : granted'[i] = granted[i]
  BY <1>3, <1>4, <1>5, AppendProperties, LenProperties DEF PaymentsShape
<1>7. n <= MaxReported /\ MaxReported \in Nat
  BY <1>3, <1>5, PaymentsAssumption
<1>8. report'[c] = n /\ \A d \in Reporters \ {c} : report'[d] = report[d]
  BY <1>3, <1>4, <1>5 DEF PaymentsShape
<1>9. PaymentsShape'
  <2>1. report' \in [Reporters -> 0..MaxReported] /\ \A d \in Reporters : report'[d] \in 0..n
    BY <1>3, <1>4, <1>5, <1>7, <1>8 DEF PaymentsShape
  <2> QED
    BY <1>3, <1>4, <1>5, <1>6, <1>7, <2>1 DEF PaymentsShape
<1>10. RowsFit'
  <2>1. row.tenant = OwnerOf[row.shop] /\ row.until = 0
    BY DEF row
  <2>2. \A i \in 1..n : i = n \/ i \in 1..Len(payment)
    BY <1>5
  <2>3. \A i \in 1..Len(payment) : payment[i].tenant = OwnerOf[payment[i].shop] /\ payment[i].until = granted[i]
    BY <1>5 DEF PaymentsInv, RowsFit
  <2> QED
    BY <1>5, <1>6, <2>1, <2>2, <2>3 DEF RowsFit
<1>11. Reporting(p) = {} /\ Reporting(p)' = {c}
  BY <1>3, <1>4, <1>5, <1>8 DEF Reporting, row, PaymentsShape
<1>12. \A q \in Paid \ {p} : Reporting(q)' = Reporting(q)
  BY <1>3, <1>4, <1>5, <1>8 DEF Reporting, row, PaymentsShape
<1>13. Reports(p)' = Reports(p) + 1
  <2>1. Listed(p)' = Listed(p) \cup {n} /\ n \notin Listed(p)
    BY <1>5 DEF Listed, row
  <2>2. Reports(p)' = Cardinality(Listed(p)')
    BY DEF Reports, Listed
  <2> QED
    BY ZenonT(40), <1>4, <2>1, <2>2, ListedFinite, FS_AddElement
<1>14. \A q \in Paid \ {p} : Reports(q)' = Reports(q)
  <2> TAKE q \in Paid \ {p}
  <2>1. Listed(q)' = Listed(q)
    BY <1>5 DEF Listed, row
  <2> QED
    BY <2>1 DEF Reports, Listed
<1>15. ReportsCounted'
  <2> SUFFICES ASSUME NEW q \in Paid
               PROVE  /\ \A b, d \in Reporting(q)' : b = d
                      /\ Reporting(q)' # {} => q \notin heard'
                      /\ Reports(q)' = unheard'[q] + Acknowledged(q)' + (IF Reporting(q)' = {} THEN 0 ELSE 1)
    BY DEF ReportsCounted
  <2>1. Acknowledged(q)' = Acknowledged(q) /\ Acknowledged(q) \in Nat /\ unheard[q] \in Nat
    BY <1>3, <1>4 DEF Acknowledged, PaymentsShape
  <2>2. /\ \A b, d \in Reporting(q) : b = d
        /\ Reporting(q) # {} => q \notin heard
        /\ Reports(q) = unheard[q] + Acknowledged(q) + (IF Reporting(q) = {} THEN 0 ELSE 1)
    BY DEF PaymentsInv, ReportsCounted
  <2>3. CASE q = p
    BY <2>1, <2>2, <2>3, <1>3, <1>11, <1>13
  <2>4. CASE q # p
    BY <2>1, <2>2, <2>4, <1>3, <1>12, <1>14
  <2> QED
    BY <2>3, <2>4
<1> QED
  BY <1>3, <1>9, <1>10, <1>15 DEF PaymentsInv, SessionsFit

\* The call has its answer, or its caller has given up: what it waited for is told
\* or counted.
LEMMA AnswerKeeps ==
  ASSUME PaymentsInv, NEW c \in Reporters, notify_payment_request(c) \/ AnswerLost(c)
  PROVE  PaymentsInv'
<1>1. PaymentsShape
  BY DEF PaymentsInv
<1>2. report[c] # 0 /\ report[c] \in DOMAIN payment /\ payment[report[c]] \in PaymentRow
  BY <1>1, LenProperties, ElementOfSeq DEF PaymentsShape, notify_payment_request, AnswerLost
<1>3. PICK p \in Paid : p = payment[report[c]].paid
  BY <1>2 DEF PaymentRow
<1>4. /\ report[c] # 0 /\ report' = [report EXCEPT ![c] = 0]
      /\ UNCHANGED <<hour, signed, payment, granted>>
      /\ \/ heard' = heard \cup {p} /\ unheard' = unheard
         \/ heard' = heard /\ unheard' = [unheard EXCEPT ![p] = @ + 1]
  BY <1>3 DEF notify_payment_request, AnswerLost
<1>5. c \in Reporting(p)
  BY <1>4, <1>3 DEF Reporting
<1>6. p \notin heard /\ Reporting(p) = {c} /\ Reports(p) = unheard[p] + 1
  BY <1>1, <1>3, <1>5 DEF PaymentsInv, ReportsCounted, Acknowledged, PaymentsShape
<1>7. report'[c] = 0 /\ \A d \in Reporters \ {c} : report'[d] = report[d]
  BY <1>1, <1>4 DEF PaymentsShape
<1>8. Reporting(p)' = {}
  <2>1. \A d \in Reporters \ {c} : ~(report[d] # 0 /\ payment[report[d]].paid = p)
    BY <1>6 DEF Reporting
  <2>2. \A d \in Reporters : ~(report'[d] # 0 /\ payment'[report'[d]].paid = p)
    <3> TAKE d \in Reporters
    <3>1. CASE d = c
      BY <1>7, <3>1
    <3>2. CASE d # c
      BY <1>4, <1>7, <2>1, <3>2
    <3> QED
      BY <3>1, <3>2
  <2> QED
    BY <1>4, <2>2 DEF Reporting
<1>9. \A q \in Paid \ {p} : Reporting(q)' = Reporting(q)
  <2>1. \A q \in Paid \ {p} : c \notin Reporting(q)
    BY <1>4, <1>3 DEF Reporting
  <2> QED
    BY <1>4, <1>7, <2>1 DEF Reporting
<1>10. \A q \in Paid : Reports(q)' = Reports(q)
  BY <1>4 DEF Reports
<1>11. PaymentsShape'
  <2>1. unheard' \in [Paid -> Nat] /\ heard' \subseteq Paid
    BY <1>1, <1>4, <1>3 DEF PaymentsShape
  <2>2. report' \in [Reporters -> 0..MaxReported] /\ \A d \in Reporters : report'[d] \in 0..Len(payment)
    <3>1. \A d \in Reporters : report'[d] = 0 \/ report'[d] = report[d]
      BY <1>7
    <3>2. 0 \in 0..MaxReported /\ 0 \in 0..Len(payment)
      BY <1>1, LenProperties, PaymentsAssumption DEF PaymentsShape
    <3>3. \A d \in Reporters : report[d] \in 0..MaxReported /\ report[d] \in 0..Len(payment)
      BY <1>1 DEF PaymentsShape
    <3>4. DOMAIN report' = Reporters /\ report' = [d \in Reporters |-> report'[d]]
      BY <1>1, <1>4 DEF PaymentsShape
    <3> QED
      BY <3>1, <3>2, <3>3, <3>4
  <2> QED
    BY <1>1, <1>4, <2>1, <2>2 DEF PaymentsShape
<1>12. ReportsCounted'
  <2> SUFFICES ASSUME NEW q \in Paid
               PROVE  /\ \A b, d \in Reporting(q)' : b = d
                      /\ Reporting(q)' # {} => q \notin heard'
                      /\ Reports(q)' = unheard'[q] + Acknowledged(q)' + (IF Reporting(q)' = {} THEN 0 ELSE 1)
    BY DEF ReportsCounted
  <2>1. /\ \A b, d \in Reporting(q) : b = d
        /\ Reporting(q) # {} => q \notin heard
        /\ Reports(q) = unheard[q] + Acknowledged(q) + (IF Reporting(q) = {} THEN 0 ELSE 1)
    BY DEF PaymentsInv, ReportsCounted
  <2>2. unheard[q] \in Nat /\ unheard \in [Paid -> Nat]
    BY <1>1 DEF PaymentsShape
  <2>3. CASE q = p
    <3>1. unheard'[p] + Acknowledged(p)' = unheard[p] + 1
      <4>1. CASE heard' = heard \cup {p} /\ unheard' = unheard
        BY <4>1, <1>6, <2>2, <2>3 DEF Acknowledged
      <4>2. CASE heard' = heard /\ unheard' = [unheard EXCEPT ![p] = @ + 1]
        <5>1. unheard'[p] = unheard[p] + 1
          BY <4>2, <1>3, <2>2
        <5>2. Acknowledged(p)' = 0
          BY <4>2, <1>6 DEF Acknowledged
        <5> QED
          BY <5>1, <5>2, <2>2, <2>3
      <4> QED
        BY <1>4, <4>1, <4>2
    <3> QED
      <4>1. Reports(p)' = unheard[p] + 1
        BY <1>3, <1>6, <1>10
      <4>2. unheard'[p] + Acknowledged(p)' + 0 = unheard[p] + 1
        BY <3>1, <2>2, <2>3
      <4> QED
        BY <1>8, <2>3, <4>1, <4>2
  <2>4. CASE q # p
    <3>1. unheard'[q] = unheard[q] /\ Acknowledged(q)' = Acknowledged(q) /\ (q \in heard' <=> q \in heard)
      BY <1>4, <1>3, <2>2, <2>4 DEF Acknowledged
    <3> QED
      BY <1>9, <1>10, <2>1, <2>4, <3>1
  <2> QED
    BY <2>3, <2>4
<1> QED
  BY <1>4, <1>11, <1>12 DEF PaymentsInv, SessionsFit, RowsFit

LEMMA ReviewKeeps ==
  ASSUME PaymentsInv, NEW i \in DOMAIN payment, NEW status \in {"pending", "approved", "rejected"},
         NEW until \in {0} \cup Terms, admin_review_payment_request(i, status, until)
  PROVE  PaymentsInv'
<1> DEFINE row == [payment[i] EXCEPT !.status = status, !.until = IF until = 0 THEN @ ELSE until]
           date == IF until = 0 THEN granted[i] ELSE until
<1>1. PaymentsShape
  BY DEF PaymentsInv
<1>2. /\ DOMAIN payment = 1..Len(payment) /\ payment \in [1..Len(payment) -> PaymentRow] /\ Len(payment) \in Nat
      /\ DOMAIN granted = 1..Len(payment) /\ granted \in [1..Len(payment) -> {0} \cup Terms]
  BY <1>1, LenProperties DEF PaymentsShape
<1>3. payment[i] \in PaymentRow /\ granted[i] \in {0} \cup Terms
  BY <1>2
<1>4. row \in PaymentRow /\ date \in {0} \cup Terms /\ row.paid = payment[i].paid
      /\ row.tenant = payment[i].tenant /\ row.shop = payment[i].shop
      /\ row.until = (IF until = 0 THEN payment[i].until ELSE until)
  BY <1>3 DEF PaymentRow
<1>5. /\ payment' = [payment EXCEPT ![i] = row] /\ granted' = [granted EXCEPT ![i] = date]
      /\ UNCHANGED <<hour, signed, report, unheard, heard>>
  BY DEF admin_review_payment_request
<1> HIDE DEF row, date
<1>6. /\ payment' \in Seq(PaymentRow) /\ Len(payment') = Len(payment) /\ DOMAIN payment' = DOMAIN payment
      /\ granted' \in Seq({0} \cup Terms) /\ Len(granted') = Len(payment)
      /\ payment'[i] = row /\ granted'[i] = date
      /\ \A j \in DOMAIN payment \ {i} : payment'[j] = payment[j] /\ granted'[j] = granted[j]
  BY <1>1, <1>2, <1>4, <1>5, ExceptSeq DEF PaymentsShape
<1>7. PaymentsShape'
  BY <1>1, <1>5, <1>6 DEF PaymentsShape
<1>8. \A j \in DOMAIN payment : payment'[j].paid = payment[j].paid
  BY <1>4, <1>6
<1>9. ReportsCounted'
  BY <1>5, <1>6, <1>8, NoReport
<1>10. row.until = date
  BY <1>4 DEF date, PaymentsInv, RowsFit
<1>11. RowsFit'
  BY <1>4, <1>6, <1>10 DEF PaymentsInv, RowsFit
<1> QED
  BY <1>5, <1>7, <1>9, <1>11 DEF PaymentsInv, SessionsFit

LEMMA PaymentsStep == PaymentsInv /\ [PaymentsNext]_payments => PaymentsInv'
<1> SUFFICES ASSUME PaymentsInv, [PaymentsNext]_payments PROVE PaymentsInv'
  OBVIOUS
<1>1. CASE UNCHANGED payments
  <2>1. UNCHANGED <<hour, signed, payment, report, unheard, heard, granted>>
    BY <1>1 DEF payments
  <2>2. ReportsCounted'
    BY <2>1, NoReport
  <2> QED
    BY <2>1, <2>2 DEF PaymentsInv, PaymentsShape, SessionsFit, RowsFit
<1>2. CASE HourPasses
  <2>1. hour' \in 0..LastHour /\ UNCHANGED <<signed, payment, report, unheard, heard, granted>>
    BY <1>2, PaymentsAssumption DEF HourPasses, PaymentsInv, PaymentsShape
  <2>2. ReportsCounted'
    BY <2>1, NoReport
  <2> QED
    BY <2>1, <2>2 DEF PaymentsInv, PaymentsShape, SessionsFit, RowsFit
<1>3. ASSUME NEW b \in Shops, create_owner_session(b) PROVE PaymentsInv'
  <2>1. OwnerOf[b] \in Owners
    BY PaymentsAssumption
  <2> QED
    BY <1>3, <2>1, SessionsKeep DEF create_owner_session
<1>4. ASSUME NEW t \in Owners, create_cloud_session(t) PROVE PaymentsInv'
  BY <1>4, SessionsKeep DEF create_cloud_session
<1> QED
  BY <1>1, <1>2, <1>3, <1>4, ReportKeeps, AnswerKeeps, ReviewKeeps DEF PaymentsNext

\* The invariant below: what is on a tenant's list, and why.
THEOREM PaymentsInvariant == PaymentsSpec => []PaymentsInv
BY PaymentsStart, PaymentsStep, PTL DEF PaymentsSpec

\* What the invariant says of a moment.
LEMMA PaymentsListed == PaymentsInv => PaymentsHold
<1> SUFFICES ASSUME PaymentsInv PROVE PaymentsHold
  OBVIOUS
<1>1. \A p \in Paid : Reports(p) <= unheard[p] + 1 /\ (p \in heard => Reports(p) = unheard[p] + 1)
  BY DEF PaymentsInv, ReportsCounted, PaymentsShape, Acknowledged
<1>2. \A i \in DOMAIN payment : payment[i].until = granted[i]
  BY DEF PaymentsInv, RowsFit
<1>3. \A s \in verify_owner_access, status \in {"pending", "approved", "rejected"} :
         owner_list_payment_requests(s, {status}) =
            {i \in DOMAIN payment : payment[i].status = status /\ OwnerOf[payment[i].shop] = s.tenant}
  BY LetInToItsTenant DEF PaymentsInv, RowsFit, owner_list_payment_requests
<1> QED
  BY <1>1, <1>2, <1>3 DEF PaymentsHold

\* Types, of sessions, payments and reports.
LEMMA PaymentsTyped == PaymentsInv => PaymentsTypeOK
BY DEF PaymentsInv, PaymentsShape, PaymentsTypeOK, PaymentRow
-----------------------------------------------------------------------------
(* Together                                                                *)

\* The parts share no state: whatever scene is played, all the others stand still.
ControlPlaneInv ==
    AccountsInv /\ LicensingInv /\ UpdatesInv /\ TunnelsInv /\ TunnelsNamed /\ FleetInv /\ PaymentsInv

LEMMA ScenesPlay ==
  ASSUME [MCNext]_all
  PROVE  /\ [AccountsNext]_accounts /\ [LicensingNext]_licensing /\ [UpdatesNext]_updates
         /\ [TunnelsNext]_tunnels /\ [FleetNext]_fleet /\ [PaymentsNext]_payments
<1>1. CASE UNCHANGED all
  BY <1>1 DEF all
<1>2. CASE MCNext
  <2>1. Registering \/ Crowding \/ Ageing => LicensingNext
    BY DEF Registering, Crowding, Ageing, LicensingNext, Registration, Administration
  <2>2. Channelling \/ AppUpdates \/ ServerUpdates => UpdatesNext
    BY DEF Channelling, AppUpdates, ServerUpdates
  <2>3. [AccountsNext]_accounts
    BY <1>2, ZenonT(40) DEF MCNext
  <2>4. [LicensingNext]_licensing
    BY <1>2, <2>1, ZenonT(40) DEF MCNext
  <2>5. [UpdatesNext]_updates
    BY <1>2, <2>2, ZenonT(40) DEF MCNext
  <2>6. [TunnelsNext]_tunnels /\ [FleetNext]_fleet /\ [PaymentsNext]_payments
    BY <1>2, ZenonT(40) DEF MCNext
  <2> QED
    BY <2>3, <2>4, <2>5, <2>6
<1> QED
  BY <1>1, <1>2

LEMMA ScenesKeep == MCSpec => []ControlPlaneInv
<1>1. MCInit => ControlPlaneInv
  BY AccountsStart, LicensingStart, UpdatesStart, TunnelsStart, NamesStart, FleetStart, PaymentsStart
     DEF MCInit, ControlPlaneInv
<1>2. ControlPlaneInv /\ [MCNext]_all => ControlPlaneInv'
  <2> SUFFICES ASSUME ControlPlaneInv, [MCNext]_all PROVE ControlPlaneInv'
    OBVIOUS
  <2>1. AccountsInv' /\ LicensingInv' /\ UpdatesInv'
    BY ScenesPlay, AccountsStep, LicensingStep, UpdatesStep DEF ControlPlaneInv
  <2>2. TunnelsInv' /\ TunnelsNamed' /\ FleetInv' /\ PaymentsInv'
    BY ScenesPlay, TunnelsStep, TunnelsStutter, NamesKept, FleetStep, PaymentsStep DEF ControlPlaneInv
  <2> QED
    BY <2>1, <2>2 DEF ControlPlaneInv
<1> QED
  BY <1>1, <1>2, PTL DEF MCSpec

\* Types, of every part.
THEOREM ControlPlaneTypes == MCSpec => []TypesOK
<1>1. ControlPlaneInv => TypesOK
  BY AccountsTyped, LicensingTyped, UpdatesTyped, TunnelsTyped, FleetTyped, PaymentsTyped
     DEF ControlPlaneInv, TypesOK
<1> QED
  BY <1>1, ScenesKeep, PTL

\* What owners see: a branch shows what its last heartbeat told, the pages judge and
\* count the branches alike, and a payment is on the list of its tenant once more
\* than its answers were lost, with the date it was last granted.
THEOREM OwnerPages == MCSpec => []OwnerPagesHold
<1>1. ControlPlaneInv => OwnerPagesHold
  BY ShownWhen, PagesAgreeWhen, CountsAgreeWhen, PaymentsListed DEF ControlPlaneInv, FleetInv, OwnerPagesHold
<1> QED
  BY <1>1, ScenesKeep, PTL
=============================================================================
