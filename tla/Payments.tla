------------------------------ MODULE Payments -------------------------------
(***************************************************************************)
(* What an owner may reach with a session or with the token of a branch,   *)
(* and the payments reported that way, which somebody of the service       *)
(* reviews by hand.  A report is committed before it is made known, and    *)
(* has nothing that tells it from a second report of the same payment.     *)
(***************************************************************************)
EXTENDS Integers, Sequences, FiniteSets

CONSTANTS
    Owners,          \* the tenants
    Shops,           \* the branches
    OwnerOf,         \* the tenant of each
    FirstShop,       \* of each tenant, by name
    Reporters,         \* reports under way at a time
    Paid,            \* the payments that were made
    Terms,           \* dates that a review may give; none is 0
    SessionHours, CloudHours,  \* how long a session is good for: 8 and 24
    LastHour,        \* bound of a run
    MaxSigned, MaxReported,   \* bounds of a run
    MaxReviews       \* bound of a run

ASSUME PaymentsAssumption ==
    /\ OwnerOf \in [Shops -> Owners] /\ \A t \in Owners : FirstShop[t] \in Shops /\ OwnerOf[FirstShop[t]] = t
    /\ Terms \subseteq Nat \ {0} /\ {SessionHours, CloudHours, LastHour, MaxSigned, MaxReported, MaxReviews} \subseteq Nat

VARIABLES
    hour,
    signed,          \* the sessions: nothing is kept of them but what they say
    payment,         \* payment_requests
    report,          \* what each call waits for: the row it inserted, 0 is none
    unheard,         \* for the properties: how many answers about a payment were lost,
    heard,           \* and which payments were acknowledged
    granted,         \* the date the last review that gave one gave, of each row
    reviews

payments == <<hour, signed, payment, report, unheard, heard, granted, reviews>>

\* A session of the cloud names no branch.
NoShop == "none"
Session == [tenant : Owners, shop : Shops \cup {NoShop}, exp : 0..(LastHour + SessionHours + CloudHours)]

PaymentsTypeOK ==
    /\ hour \in 0..LastHour /\ signed \subseteq Session
    /\ payment \in Seq([tenant : Owners, shop : Shops, paid : Paid, status : {"pending", "approved", "rejected"},
                        until : {0} \cup Terms])
    /\ report \in [Reporters -> 0..MaxReported] /\ heard \subseteq Paid

PaymentsInit ==
    /\ hour = 0 /\ signed = {} /\ payment = <<>> /\ report = [c \in Reporters |-> 0]
    /\ unheard = [p \in Paid |-> 0] /\ heard = {} /\ granted = <<>> /\ reviews = 0

-----------------------------------------------------------------------------
\* Sessions.

sign_owner_session(t, shop, hours) ==
    /\ Cardinality(signed) < MaxSigned
    /\ signed' = signed \cup {[tenant |-> t, shop |-> shop, exp |-> hour + hours]}
    /\ UNCHANGED <<hour, payment, report, unheard, heard, granted, reviews>>

create_owner_session(shop) == sign_owner_session(OwnerOf[shop], shop, SessionHours)

\* A login or a registration in the cloud.
create_cloud_session(t) == sign_owner_session(t, NoShop, CloudHours)

verify_owner_session_token(s) == s.exp >= hour

\* A session until its term, and the token of a branch for ever.
verify_owner_access ==
    {s \in signed : verify_owner_session_token(s)}
    \cup {[tenant |-> OwnerOf[b], shop |-> b, exp |-> hour] : b \in Shops}

\* The branch that a page takes for the current one.
resolve_owner_context(s) == IF s.shop = NoShop THEN FirstShop[s.tenant] ELSE s.shop

-----------------------------------------------------------------------------
\* Payments.  The caller reports a payment until it is acknowledged.

owner_create_payment_request(c, s, p) ==
    /\ report[c] = 0 /\ p \notin heard /\ \A d \in Reporters : report[d] # 0 => payment[report[d]].paid # p
    /\ s \in verify_owner_access /\ Len(payment) < MaxReported
    /\ LET shop == resolve_owner_context(s) IN
        payment' = Append(payment, [tenant |-> OwnerOf[shop], shop |-> shop, paid |-> p,
                                    status |-> "pending", until |-> 0])
    /\ granted' = Append(granted, 0)
    /\ report' = [report EXCEPT ![c] = Len(payment')]
    /\ UNCHANGED <<hour, signed, unheard, heard, reviews>>

\* The messages went out, or failed, which is ignored.
notify_payment_request(c) ==
    /\ report[c] # 0
    /\ report' = [report EXCEPT ![c] = 0] /\ heard' = heard \cup {payment[report[c]].paid}
    /\ UNCHANGED <<hour, signed, payment, unheard, granted, reviews>>

\* They take longer than the caller waits, or the connection is lost.
AnswerLost(c) ==
    /\ report[c] # 0
    /\ report' = [report EXCEPT ![c] = 0] /\ unheard' = [unheard EXCEPT ![payment[report[c]].paid] = @ + 1]
    /\ UNCHANGED <<hour, signed, payment, heard, granted, reviews>>

\* Any status after any other.  A date with a time zone is an error of the column.
admin_review_payment_request(i, status, until) ==
    /\ reviews < MaxReviews /\ reviews' = reviews + 1
    /\ payment' = [payment EXCEPT ![i].status = status, ![i].until = IF until = 0 THEN @ ELSE until]
    /\ granted' = [granted EXCEPT ![i] = IF until = 0 THEN @ ELSE until]
    /\ UNCHANGED <<hour, signed, report, unheard, heard>>

owner_list_payment_requests(s, statuses) ==
    {i \in DOMAIN payment : payment[i].tenant = OwnerOf[resolve_owner_context(s)] /\ payment[i].status \in statuses}

HourPasses ==
    /\ hour < LastHour /\ hour' = hour + 1
    /\ UNCHANGED <<signed, payment, report, unheard, heard, granted, reviews>>

PaymentsNext ==
    \/ HourPasses
    \/ \E b \in Shops : create_owner_session(b)
    \/ \E t \in Owners : create_cloud_session(t)
    \/ \E c \in Reporters :
        \/ \E s \in verify_owner_access, p \in Paid : owner_create_payment_request(c, s, p)
        \/ notify_payment_request(c) \/ AnswerLost(c)
    \/ \E i \in DOMAIN payment, status \in {"pending", "approved", "rejected"}, until \in {0} \cup Terms :
        admin_review_payment_request(i, status, until)

PaymentsSpec == PaymentsInit /\ [][PaymentsNext]_payments

-----------------------------------------------------------------------------
Reports(p) == Cardinality({i \in DOMAIN payment : payment[i].paid = p})

\* A payment is on the list as often as its answer was lost and once more, at most,
\* and at least once when it was acknowledged; a date that was granted is not lost
\* when a later review gives none, not even when it rejects; and whoever reaches
\* the list of a tenant, by whatever branch or session, sees what its branches and
\* sessions reported and nothing else.
PaymentsHold ==
    /\ \A p \in Paid : Reports(p) <= unheard[p] + 1 /\ (p \in heard => Reports(p) = unheard[p] + 1)
    /\ \A i \in DOMAIN payment : payment[i].until = granted[i]
    /\ \A s \in verify_owner_access, status \in {"pending", "approved", "rejected"} :
          owner_list_payment_requests(s, {status}) =
              {i \in DOMAIN payment : payment[i].status = status /\ OwnerOf[payment[i].shop] = s.tenant}
=============================================================================
