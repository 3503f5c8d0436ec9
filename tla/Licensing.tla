----------------------------- MODULE Licensing ------------------------------
(***************************************************************************)
(* Licences: the control plane that registers a machine by its hardware    *)
(* and grants it a trial, the administrator who issues, renews and revokes *)
(* licences, and the node that keeps a signed copy and closes its API when *)
(* the copy has run out.  The statements of the control plane commit one   *)
(* by one; a caller that gives up leaves its call running.                 *)
(***************************************************************************)
EXTENDS Integers, Sequences, FiniteSets, FiniteSetsExt

CONSTANTS
    Callers,          \* the calls the control plane serves at a time
    Machines,
    Bought,           \* the hardware of each machine when it was bought
    Fragile,          \* the parts a machine may have replaced, once each
    Looked,           \* 20: how many of the prints that share a part a registration scores
    TrialDays,        \* CP_TRIAL_DAYS
    IssuedTrialDays,  \* 90: the days of a trial the administrator issues
    MonthDays,        \* 30
    SupportDays,      \* 365
    ReminderDays,     \* 30
    Offers,           \* what the administrator issues: type, status, end (-1: not given), grace_days
    LastDay,          \* bound of a run: no day, and no end that is renewed, is later
    MaxTenants,       \* bound of a run
    MaxLicences       \* bound of a run

Parts == {"board_serial", "cpu_model", "mac_primary", "disk_serial", "board_name"}
WEIGHTS == [board_serial |-> 3, cpu_model |-> 2, mac_primary |-> 2, disk_serial |-> 2, board_name |-> 1]
MATCH_THRESHOLD == 5

\* Serials: 0 stands for a missing or generic one, 1 and 2 for those machines are
\* bought with and 3 for that of a part replaced.
ASSUME HardwareAssumption ==
    /\ Bought \in [Machines -> [Parts -> 0..2]] /\ {"admin", "nobody"} \cap Machines = {}
    /\ Fragile \subseteq Parts /\ Looked \in Nat \ {0}

Types == {"trial", "monthly", "perpetual"}
Statuses == {"active", "grace", "expired", "revoked"}

ASSUME TermsAssumption ==
    /\ TrialDays \in Nat \ {0} /\ {IssuedTrialDays, MonthDays, SupportDays, ReminderDays, LastDay} \subseteq Nat
    /\ Offers \subseteq [type : Types, status : Statuses, until : Nat \cup {-1}, grace : Nat]

VARIABLES
    today,
    hardware,      \* the hardware of each machine as it is now
    registered,    \* how many tenants there are, each with its one branch
    prints,        \* hardware_fingerprints, in the order they were stored
    licences,      \* tenant_licenses, in the order they were created
    token,         \* the tenant whose install token each machine has; 0 is none
    copy,          \* the signed licence each machine has
    task           \* what each call to the control plane does next

licensing == <<today, hardware, registered, prints, licences, token, copy, task>>
machine == <<token, copy>>
tables == <<registered, prints, licences>>

Unset == -1
Copies == [type : Types, status : Statuses, until : Nat \cup {Unset},
           support : Nat \cup {Unset}, grace : Nat,
           trial : Nat \cup {Unset}]
NoCopy == [type |-> "none"]
\* A call that is under way holds what its next step needs.
Free == [step |-> "none", for |-> "nobody", tenant |-> 0, parts |-> [p \in Parts |-> 0], seen |-> 0,
         licence |-> 0, terms |-> NoCopy]

LicensingTypeOK ==
    /\ today \in Nat
    /\ hardware \in [Machines -> [Parts -> 0..3]]
    /\ registered \in Nat
    /\ \A p \in DOMAIN prints : prints[p].tenant \in 1..registered
    /\ \A l \in DOMAIN licences : licences[l].tenant \in 1..registered /\ licences[l].terms \in Copies
    /\ token \in [Machines -> 0..registered]
    /\ copy \in [Machines -> Copies \cup {NoCopy}]
    /\ \A m \in Machines : copy[m] # NoCopy => token[m] # 0

LicensingInit ==
    /\ today = 0
    /\ hardware = Bought
    /\ registered = 0
    /\ prints = <<>>
    /\ licences = <<>>
    /\ token = [m \in Machines |-> 0]
    /\ copy = [m \in Machines |-> NoCopy]
    /\ task = [c \in Callers |-> Free]

Does(c, what) == task' = [task EXCEPT ![c] = what]
On(c, step) == task[c].step = step
\* There is one administrator.
AdminFree(c) == On(c, "none") /\ \A d \in Callers : task[d].for # "admin"

-----------------------------------------------------------------------------
\* Fingerprints.

\* A part that both sides know and agree on adds its weight.
Adds(p, stored, incoming) == IF stored[p] # 0 /\ stored[p] = incoming[p] THEN WEIGHTS[p] ELSE 0
compute_match_score(stored, incoming) ==
    Adds("board_serial", stored, incoming) + Adds("board_name", stored, incoming)
    + Adds("cpu_model", stored, incoming) + Adds("mac_primary", stored, incoming)
    + Adds("disk_serial", stored, incoming)

\* Among the first n prints, those stored after p that share a part fill the list
\* of candidates: p is not scored.
Alike(p, n, parts) == {q \in (p + 1)..n : compute_match_score(prints[q].parts, parts) > 0}
Crowded(p, n, parts) == Cardinality(Alike(p, n, parts)) >= Looked

\* A fault: the threshold itself does not match.
MatchesAbove(parts) ==
    {p \in DOMAIN prints : /\ ~Crowded(p, Len(prints), parts)
                           /\ compute_match_score(prints[p].parts, parts) > MATCH_THRESHOLD}

Matches(parts) ==
    {p \in DOMAIN prints : /\ ~Crowded(p, Len(prints), parts)
                           /\ compute_match_score(prints[p].parts, parts) >= MATCH_THRESHOLD}

\* The best score, and the latest print among equals.
BestMatch(parts) ==
    CHOOSE p \in Matches(parts) : \A q \in Matches(parts) :
        LET best == compute_match_score(prints[p].parts, parts)
            other == compute_match_score(prints[q].parts, parts)
        IN best > other \/ (best = other /\ p >= q)

-----------------------------------------------------------------------------
\* The terms of a licence.

OrElse(given, otherwise) == IF given = Unset THEN otherwise ELSE given

create_license_values(type, status, given, grace) ==
    LET last == CASE type = "trial" -> today + IssuedTrialDays
                  [] type = "monthly" -> today + MonthDays
                  [] type = "perpetual" -> today + SupportDays
        until == OrElse(given, last)
    IN  [type |-> type, status |-> status, grace |-> grace,
         until |-> IF type = "perpetual" THEN Unset ELSE until,
         support |-> IF type = "perpetual" THEN last ELSE until,
         trial |-> IF type = "trial" THEN until ELSE Unset]

TrialTerms ==
    [type |-> "trial", status |-> "active", grace |-> 0,
     until |-> today + TrialDays, support |-> today + TrialDays, trial |-> today + TrialDays]

LicencesOf(t) == {l \in DOMAIN licences : licences[l].tenant = t}
Latest(t) == Max(LicencesOf(t))

\* What the control plane makes of the terms.
StatusWithDates(l) ==
    CASE l.status = "revoked" -> "revoked"
      [] l.status # "revoked" /\ l.until # Unset ->
            IF today <= l.until THEN "active"
            ELSE IF l.type = "monthly" /\ l.grace > 0 /\ today <= l.until + l.grace THEN "grace"
            ELSE "expired"
      [] l.status # "revoked" /\ l.until = Unset ->
            IF l.support # Unset /\ today > l.support THEN "support_expired" ELSE "active"

\* A fault: days of grace are not counted.
EffectiveWithoutGrace(l) ==
    CASE l.status = "revoked" -> "revoked"
      [] l.status # "revoked" /\ l.until # Unset -> IF today <= l.until THEN "active" ELSE "expired"
      [] l.status # "revoked" /\ l.until = Unset ->
            IF l.support # Unset /\ today > l.support THEN "support_expired" ELSE l.status

\* What the node makes of its copy: with no end it goes by the stored status.
EffectiveStatus(l) ==
    CASE l.status = "revoked" -> "revoked"
      [] l.status # "revoked" /\ l.until # Unset ->
            IF today <= l.until THEN "active"
            ELSE IF l.type = "monthly" /\ l.grace > 0 /\ today <= l.until + l.grace THEN "grace"
            ELSE "expired"
      [] l.status # "revoked" /\ l.until = Unset ->
            IF l.support # Unset /\ today > l.support THEN "support_expired" ELSE l.status

OperationMode(l) ==
    LET status == EffectiveStatus(l)
    IN  IF status \in {"revoked", "expired"} /\ l.type \in {"trial", "monthly"} THEN "restricted"
        ELSE IF status \in {"grace", "support_expired"} THEN status ELSE "allow"

\* With enforcement on, a node without a copy answers nothing but the exempt
\* paths, and one whose copy has run out answers only reads.
ShouldBlock(m, writes) ==
    copy[m] = NoCopy \/ (OperationMode(copy[m]) = "restricted" /\ writes)

\* What the administrator's pages remind of, and the owner's.
Reminds(end, expired, expiring) ==
    IF end = Unset THEN {} ELSE IF end < today THEN {expired} ELSE IF end <= today + ReminderDays THEN {expiring} ELSE {}

owner_license_health(l) ==
    Reminds(l.until, "license_expired", "license_expiring")
    \cup Reminds(l.support, "support_expired", "support_expiring")
    \cup IF l.type = "trial" THEN Reminds(l.trial, "trial_expired", "trial_expiring") ELSE {}

build_license_health(l) ==
    owner_license_health(l) \cup
    CASE l.status = "grace" -> {"license_grace"} [] l.status = "revoked" -> {"license_revoked"} [] OTHER -> {}

license_reminders == {l \in DOMAIN licences : build_license_health(licences[l].terms) # {}}

\* The summary counts licences by the status that is stored.
license_summary ==
    [counts |-> [s \in Statuses |-> {l \in DOMAIN licences : licences[l].terms.status = s}],
     needs_attention |-> license_reminders]

-----------------------------------------------------------------------------
\* Registration.

\* The backend starts without a token.  A machine that is known gets its token
\* again; another begins a tenant.
PreRegister(c, m) ==
    /\ On(c, "none")
    /\ token[m] = 0
    /\ \A d \in Callers : task[d].for # m
    /\ Does(c, IF Matches(hardware[m]) # {}
               THEN [Free EXCEPT !.step = "licence", !.for = m, !.tenant = prints[BestMatch(hardware[m])].tenant]
               ELSE [Free EXCEPT !.step = "tenant", !.for = m, !.parts = hardware[m], !.seen = Len(prints)])
    /\ UNCHANGED <<today, hardware, tables, machine>>

\* The tenant and its branch; the administrator's in one transaction.
InsertTenant(c) ==
    /\ On(c, "tenant")
    /\ registered < MaxTenants
    /\ registered' = registered + 1
    /\ Does(c, [task[c] EXCEPT !.step = "print", !.tenant = registered + 1])
    /\ UNCHANGED <<today, hardware, prints, licences, machine>>

InsertPrint(c) ==
    /\ On(c, "print")
    /\ prints' = Append(prints,
          [tenant |-> task[c].tenant, parts |-> task[c].parts, seen |-> task[c].seen])
    /\ Does(c, [Free EXCEPT !.step = "trial", !.for = task[c].for, !.tenant = task[c].tenant])
    /\ UNCHANGED <<today, hardware, registered, licences, machine>>

create_tenant(c, then) ==
    /\ AdminFree(c)
    /\ registered < MaxTenants
    /\ registered' = registered + 1
    /\ Does(c, [Free EXCEPT !.step = "trial", !.for = "admin", !.tenant = registered + 1, !.terms = then])
    /\ UNCHANGED <<today, hardware, prints, licences, machine>>

-----------------------------------------------------------------------------
\* Trials and issued licences.

\* The agent of the node asks for its licence again.
Resolve(c, m) ==
    /\ On(c, "none")
    /\ token[m] # 0
    /\ Does(c, [Free EXCEPT !.step = "licence", !.for = m, !.tenant = token[m]])
    /\ UNCHANGED <<today, hardware, tables, machine>>

issue_license(c, t, terms) ==
    /\ AdminFree(c)
    /\ Does(c, [Free EXCEPT !.step = "trial", !.for = "admin", !.tenant = t, !.terms = terms])
    /\ UNCHANGED <<today, hardware, tables, machine>>

\* ensure_trial_license has its answer: the administrator's call goes on with
\* the licence to issue, a registration with the configuration the node asks
\* for next, and a request for the licence with the reply.
Continued(c, terms) ==
    IF task[c].for = "admin"
    THEN IF task[c].terms = NoCopy THEN Free ELSE [task[c] EXCEPT !.step = "issue", !.seen = 0]
    ELSE IF On(c, "trial") \/ On(c, "first") THEN [task[c] EXCEPT !.step = "licence", !.seen = 0]
    ELSE [task[c] EXCEPT !.step = "reply", !.seen = 0, !.terms = terms]

LookForLicence(c) ==
    /\ On(c, "trial") \/ On(c, "licence")
    /\ Does(c, IF LicencesOf(task[c].tenant) # {}
               THEN Continued(c, licences[Latest(task[c].tenant)].terms)
               ELSE [task[c] EXCEPT !.step = IF On(c, "trial") THEN "first" ELSE "grant", !.seen = Len(licences)])
    /\ UNCHANGED <<today, hardware, tables, machine>>

GrantTrial(c) ==
    /\ On(c, "first") \/ On(c, "grant")
    /\ Len(licences) < MaxLicences
    /\ licences' = Append(licences,
          [tenant |-> task[c].tenant, terms |-> TrialTerms, seen |-> task[c].seen])
    /\ Does(c, Continued(c, TrialTerms))
    /\ UNCHANGED <<today, hardware, registered, prints, machine>>

IssueRecord(c) ==
    /\ On(c, "issue")
    /\ Len(licences) < MaxLicences
    /\ licences' = Append(licences,
          [tenant |-> task[c].tenant, terms |-> task[c].terms, seen |-> Unset])
    /\ Does(c, Free)
    /\ UNCHANGED <<today, hardware, registered, prints, machine>>

revoke_license(l) ==
    /\ licences' = [licences EXCEPT ![l].terms.status = "revoked"]
    /\ UNCHANGED <<today, hardware, registered, prints, machine, task>>

\* The end is read, days are added to it, and the sum is written later; with no
\* end, today counts.
ReadForRenewal(c, l, days) ==
    /\ AdminFree(c)
    /\ licences[l].terms.until < LastDay
    /\ Does(c, [Free EXCEPT !.step = "renew", !.for = "admin", !.licence = l, !.terms =
          [licences[l].terms EXCEPT !.status = "active", !.until = OrElse(@, today) + days,
                                    !.support = OrElse(@, today) + days]])
    /\ UNCHANGED <<today, hardware, tables, machine>>

WriteRenewal(c) ==
    /\ On(c, "renew")
    /\ licences' = [licences EXCEPT ![task[c].licence].terms =
          [@ EXCEPT !.status = "active", !.until = task[c].terms.until, !.support = task[c].terms.support]]
    /\ Does(c, Free)
    /\ UNCHANGED <<today, hardware, registered, prints, machine>>

-----------------------------------------------------------------------------
\* The node.

\* The reply carries the token, for a registration, and a copy of the licence.
WriteCopy(c) ==
    /\ On(c, "reply")
    /\ task[c].for \in Machines
    /\ token' = [token EXCEPT ![task[c].for] = task[c].tenant]
    /\ copy' = [copy EXCEPT ![task[c].for] = task[c].terms]
    /\ Does(c, Free)
    /\ UNCHANGED <<today, hardware, tables>>

\* The second request of a registration fails: the token is written by itself.
WriteToken(c) ==
    /\ On(c, "licence")
    /\ task[c].for \in Machines
    /\ token[task[c].for] = 0
    /\ token' = [token EXCEPT ![task[c].for] = task[c].tenant]
    /\ Does(c, Free)
    /\ UNCHANGED <<today, hardware, tables, copy>>

\* The caller's time runs out; the call goes on for nobody.
GiveUp(c) ==
    /\ task[c].for \in Machines
    /\ ~On(c, "reply")
    /\ Does(c, [task[c] EXCEPT !.for = "nobody"])
    /\ UNCHANGED <<today, hardware, tables, machine>>

\* The call ends in an error, or for nobody.
End(c) ==
    /\ task[c] # Free
    /\ Does(c, Free)
    /\ UNCHANGED <<today, hardware, tables, machine>>

\* The node is installed afresh.
Reinstall(m) ==
    /\ token[m] # 0
    /\ token' = [token EXCEPT ![m] = 0]
    /\ copy' = [copy EXCEPT ![m] = NoCopy]
    /\ task' = [c \in Callers |->
          IF task[c].for = m THEN [task[c] EXCEPT !.for = "nobody"] ELSE task[c]]
    /\ UNCHANGED <<today, hardware, tables>>

Replace(m, p) ==
    /\ hardware[m][p] = Bought[m][p]
    /\ hardware' = [hardware EXCEPT ![m][p] = 3]
    /\ UNCHANGED <<today, tables, machine, task>>

Dawn ==
    /\ today < LastDay
    /\ today' = today + 1
    /\ UNCHANGED <<hardware, tables, machine, task>>

-----------------------------------------------------------------------------
Issuable == {create_license_values(o.type, o.status, o.until, o.grace) : o \in Offers}

Registration ==
    \/ \E c \in Callers :
        \/ \E m \in Machines : PreRegister(c, m) \/ Resolve(c, m)
        \/ InsertTenant(c) \/ InsertPrint(c) \/ LookForLicence(c) \/ GrantTrial(c)
        \/ WriteCopy(c) \/ WriteToken(c) \/ GiveUp(c) \/ End(c)
    \/ \E m \in Machines : Reinstall(m) \/ \E p \in Fragile : Replace(m, p)

Administration ==
    \/ \E c \in Callers :
        \/ \E terms \in Issuable \cup {NoCopy} : create_tenant(c, terms)
        \/ \E t \in 1..registered, terms \in Issuable : issue_license(c, t, terms)
        \/ \E l \in DOMAIN licences : ReadForRenewal(c, l, 1)
        \/ IssueRecord(c) \/ WriteRenewal(c)
    \/ \E l \in DOMAIN licences : revoke_license(l)

LicensingNext == Registration \/ Administration \/ Dawn

LicensingSpec == LicensingInit /\ [][LicensingNext]_licensing

-----------------------------------------------------------------------------
\* A machine is registered again, and given another trial, only by a call that
\* looked for its fingerprint before the first was stored, or when the list of
\* candidates was full of later prints that share a part with it; and a tenant is
\* given a trial only by a call that looked for its licence before there was one.
\* Reinstalling, replacing parts that weigh less than the rest, calls nobody
\* waits for and licences issued meanwhile make no difference.
GrantedOnce ==
    /\ \A p, q \in DOMAIN prints :
          p < q /\ compute_match_score(prints[p].parts, prints[q].parts) >= 5 =>
              p > prints[q].seen \/ Crowded(p, prints[q].seen, prints[q].parts)
    /\ \A l, k \in DOMAIN licences :
          l < k /\ licences[l].tenant = licences[k].tenant /\ licences[k].seen # Unset
          => l > licences[k].seen

\* The two programs that read the terms of a licence agree: the node closes its
\* API to writes exactly when the control plane calls the copy's licence expired
\* or revoked and it is not perpetual, on every day and after every renewal.
\* They may name the state of a perpetual licence differently.
CopiesAgree ==
    \A m \in Machines : copy[m] # NoCopy =>
        /\ ShouldBlock(m, TRUE) <=>
              /\ StatusWithDates(copy[m]) \in {"expired", "revoked"}
              /\ copy[m].type # "perpetual"
        /\ EffectiveStatus(copy[m]) # StatusWithDates(copy[m]) =>
              copy[m].type = "perpetual" /\ copy[m].until = Unset

\* The pages remind of a licence by other rules still, and agree with its status as
\* far as this: of one that has run out, or is in its days of grace, both remind as
\* expired; only the administrator is told of one that was revoked; and of a trial
\* that was renewed both still remind that it has ended.
RemindersAgree ==
    \A l \in DOMAIN licences :
        LET terms == licences[l].terms
            reminders == build_license_health(terms)
            status == StatusWithDates(terms)
        IN  /\ status \in {"expired", "grace"} => "license_expired" \in owner_license_health(terms)
            /\ "license_expired" \in reminders => status \in {"expired", "grace", "revoked"}
            /\ status \in {"expired", "grace", "support_expired"} => l \in license_summary.needs_attention
            /\ "license_revoked" \in reminders <=> status = "revoked"
            /\ "trial_expired" \in reminders /\ "license_expired" \notin reminders => terms.until > terms.trial

GateAgrees == CopiesAgree /\ RemindersAgree
=============================================================================
