------------------------------ MODULE Tunnels ------------------------------
(***************************************************************************)
(* The tunnel of a branch: made at Cloudflare, pointed at by the branch's  *)
(* host name, and noted in two tables, one statement or one request to     *)
(* Cloudflare at a time.  Nodes, the admin and a registration may ask for  *)
(* it at once, each step may fail, and a failed request may have been      *)
(* served.                                                                 *)
(***************************************************************************)
EXTENDS Integers, Sequences, FiniteSets

CONSTANTS
    Branches,
    TenantOf,
    Slugs,
    Askers,       \* the calls the control plane serves at a time
    MaxTunnels,   \* bound of a run: tunnels made
    MaxForced,    \* bound of a run: the admin's provisionings
    MaxMishaps    \* bound of a run: failed requests and calls that break off

ASSUME TunnelsAssumption ==
    /\ DOMAIN TenantOf = Branches /\ "" \notin Slugs
    /\ {MaxTunnels, MaxForced, MaxMishaps} \subseteq Nat

VARIABLES
    cloudflare,   \* CF_TUNNEL_MODE, and whether a zone is configured
    slug,         \* branches.branch_slug
    tunnel,       \* branches.tunnel_id with its token, tunnel_status, cloud_activated
    tunnel_configs,
    made,         \* the branch each tunnel was made for
    dns,          \* the tunnel each host name leads to
    asker,        \* what each call does next
    tangled,      \* for the properties: the branches last provisioned by calls at once
    excused,      \* for the properties: calls that failed, were forced or met another
    mishaps, forced

tunnels == <<cloudflare, slug, tunnel, tunnel_configs, made, dns, asker, tangled, excused, mishaps, forced>>
cloudflares == <<cloudflare, made, dns>>
noted == <<slug, tunnel, tunnel_configs>>

NoSlug == ""     \* no branch yet
NoTunnel == 0
NoAsker == [at |-> "idle", branch |-> 0, tunnel |-> NoTunnel, known |-> FALSE, met |-> FALSE]

TunnelsTypeOK ==
    /\ cloudflare \in {"simulate", "zone", "no zone"}
    /\ slug \in [Branches -> Slugs \cup {NoSlug}]
    /\ \A b \in Branches :
        /\ tunnel[b].status \in {"pending", "active", "error"} /\ tunnel[b].activated \in BOOLEAN
        /\ tunnel[b].token \in {NoTunnel} \cup DOMAIN made /\ tunnel_configs[b] \in {NoTunnel} \cup DOMAIN made
    /\ dns \in [Slugs -> {NoTunnel} \cup DOMAIN made]
    /\ \A a \in Askers : asker[a].at \in
        {"idle", "ensure", "create", "token", "look", "point", "config", "activate", "error"}

TunnelsInit ==
    /\ cloudflare \in {"simulate", "zone", "no zone"}
    /\ slug = [b \in Branches |-> NoSlug]
    /\ tunnel = [b \in Branches |-> [token |-> NoTunnel, status |-> "pending", activated |-> FALSE]]
    /\ tunnel_configs = [b \in Branches |-> NoTunnel]
    /\ made = <<>>
    /\ dns = [s \in Slugs |-> NoTunnel]
    /\ asker = [a \in Askers |-> NoAsker]
    /\ tangled = {} /\ excused = [b \in Branches |-> 0] /\ mishaps = 0 /\ forced = 0

-----------------------------------------------------------------------------
\* The calls.

\* For the count of tunnels made in vain, which no count above MaxTunnels matters to.
Excuses(b) == excused' = [excused EXCEPT ![b] = IF @ < MaxTunnels THEN @ + 1 ELSE @]

Busy(b) == {a \in Askers : asker[a].at # "idle" /\ asker[a].branch = b}

RowBecomes(b, row) == tunnel' = [tunnel EXCEPT ![b] = row]

\* Calls that serve one branch at a time have met.
Asks(a, b) ==
    /\ asker[a].at = "idle" /\ slug[b] # NoSlug
    /\ asker' = [q \in Askers |->
        IF q = a THEN [NoAsker EXCEPT !.at = "ensure", !.branch = b, !.met = Busy(b) # {}]
        ELSE IF q \in Busy(b) THEN [asker[q] EXCEPT !.met = TRUE]
        ELSE asker[q]]

\* A slug the caller chooses is compared with those of the tenant alone; one the
\* control plane makes was free when it looked.
Registers(b, s) ==
    /\ slug[b] = NoSlug /\ \A q \in Branches : TenantOf[q] = TenantOf[b] => slug[q] # s
    /\ slug' = [slug EXCEPT ![b] = s]
    /\ UNCHANGED <<cloudflares, tunnel, tunnel_configs, asker, tangled, excused, mishaps, forced>>

\* cloud_register with an install token.
ActivatesCloud(a, b) ==
    /\ Asks(a, b)
    /\ ~tunnel[b].activated
    /\ RowBecomes(b, [tunnel[b] EXCEPT !.activated = TRUE])
    /\ UNCHANGED <<cloudflares, slug, tunnel_configs, tangled, excused, mishaps, forced>>

get_bootstrap_config(a, b) ==
    /\ Asks(a, b)
    /\ tunnel[b].activated /\ tunnel[b].token = NoTunnel
    /\ UNCHANGED <<cloudflares, noted, tangled, excused, mishaps, forced>>

reprovision_tunnel(a, b) ==
    /\ Asks(a, b)
    /\ tunnel[b].activated
    /\ UNCHANGED <<cloudflares, noted, tangled, excused, mishaps, forced>>

\* The admin drops the token first, to have another one made.
provision_branch_tunnel(a, b) ==
    /\ forced < MaxForced
    /\ Asks(a, b)
    /\ RowBecomes(b, [tunnel[b] EXCEPT !.token = NoTunnel, !.status = "pending"])
    /\ forced' = forced + 1
    /\ Excuses(b)
    /\ UNCHANGED <<cloudflares, slug, tunnel_configs, tangled, mishaps>>

-----------------------------------------------------------------------------
\* ensure_tunnel_provisioned, from its first statement to its last.

Reached(a, at) == asker[a].at = at
Branch(a) == asker[a].branch
Becomes(a, call) == asker' = [asker EXCEPT ![a] = call]
Proceeds(a, at) == Becomes(a, [asker[a] EXCEPT !.at = at])
Done(a) == Becomes(a, NoAsker)

\* A fault: there is always one to make.
ensure_another(a) ==
    /\ Reached(a, "ensure")
    /\ Proceeds(a, "create")
    /\ UNCHANGED <<cloudflares, noted, tangled, excused, mishaps, forced>>

ensure_tunnel_provisioned(a) ==
    /\ Reached(a, "ensure")
    /\ LET row == tunnel[Branch(a)] IN
        IF row.token # NoTunnel /\ row.status = "active" THEN Done(a) ELSE Proceeds(a, "create")
    /\ UNCHANGED <<cloudflares, noted, tangled, excused, mishaps, forced>>

provision_tunnel(a) ==
    /\ Reached(a, "create") /\ Len(made) < MaxTunnels
    /\ made' = Append(made, Branch(a))
    /\ Becomes(a, [asker[a] EXCEPT !.at = IF cloudflare = "simulate" THEN "config" ELSE "token",
                                   !.tunnel = Len(made) + 1])
    /\ UNCHANGED <<cloudflare, dns, noted, tangled, excused, mishaps, forced>>

GetsToken(a) ==
    /\ Reached(a, "token")
    /\ Proceeds(a, IF cloudflare = "zone" THEN "look" ELSE "config")
    /\ UNCHANGED <<cloudflares, noted, tangled, excused, mishaps, forced>>

LooksUpRecord(a) ==
    /\ Reached(a, "look")
    /\ Becomes(a, [asker[a] EXCEPT !.at = "point", !.known = dns[slug[Branch(a)]] # NoTunnel])
    /\ UNCHANGED <<cloudflares, noted, tangled, excused, mishaps, forced>>

Pointed(a) == [dns EXCEPT ![slug[Branch(a)]] = asker[a].tunnel]

\* PUT over the record that was found, or POST, which Cloudflare refuses if there is one.
ensure_dns_record(a) ==
    /\ Reached(a, "point")
    /\ asker[a].known \/ dns[slug[Branch(a)]] = NoTunnel
    /\ dns' = Pointed(a)
    /\ Proceeds(a, "config")
    /\ UNCHANGED <<cloudflare, made, noted, tangled, excused, mishaps, forced>>

NameTaken(b) == \E t \in DOMAIN made : slug[made[t]] = slug[b]

\* A request fails, and may have been served.  One for a name that is taken may be
\* refused: nothing here says whether Cloudflare takes it twice.
RequestFails(a) ==
    /\ cloudflare # "simulate" /\ asker[a].at \in {"create", "token", "look", "point"}
    /\ \/ mishaps < MaxMishaps /\ mishaps' = mishaps + 1
       \/ Reached(a, "point") /\ ~asker[a].known /\ dns[slug[Branch(a)]] # NoTunnel /\ UNCHANGED mishaps
       \/ Reached(a, "create") /\ NameTaken(Branch(a)) /\ UNCHANGED mishaps
    /\ \/ UNCHANGED <<made, dns>>
       \/ Reached(a, "create") /\ mishaps' # mishaps /\ Len(made) < MaxTunnels /\ made' = Append(made, Branch(a)) /\ UNCHANGED dns
       \/ Reached(a, "point") /\ mishaps' # mishaps /\ dns' = Pointed(a) /\ UNCHANGED made
    /\ Proceeds(a, "error")
    /\ IF Reached(a, "create") /\ made' = made THEN UNCHANGED excused ELSE Excuses(Branch(a))
    /\ UNCHANGED <<cloudflare, noted, tangled, forced>>

NotesError(a) ==
    /\ Reached(a, "error")
    /\ RowBecomes(Branch(a), [tunnel[Branch(a)] EXCEPT !.status = "error"])
    /\ Done(a)
    /\ UNCHANGED <<cloudflares, slug, tunnel_configs, tangled, excused, mishaps, forced>>

UpsertsConfig(a) ==
    /\ Reached(a, "config")
    /\ tunnel_configs' = [tunnel_configs EXCEPT ![Branch(a)] = asker[a].tunnel]
    /\ Proceeds(a, "activate")
    /\ UNCHANGED <<cloudflares, slug, tunnel, tangled, excused, mishaps, forced>>

Activates(a) ==
    /\ Reached(a, "activate")
    /\ RowBecomes(Branch(a), [tunnel[Branch(a)] EXCEPT !.token = asker[a].tunnel, !.status = "active"])
    /\ tangled' = IF asker[a].met THEN tangled \cup {Branch(a)} ELSE tangled \ {Branch(a)}
    /\ IF asker[a].met THEN Excuses(Branch(a)) ELSE UNCHANGED excused
    /\ Done(a)
    /\ UNCHANGED <<cloudflares, slug, tunnel_configs, mishaps, forced>>

\* The process dies, or a statement of its own is refused.
BreaksOffAt(a) ==
    /\ asker[a].at # "idle" /\ mishaps < MaxMishaps
    /\ mishaps' = mishaps + 1
    /\ Excuses(Branch(a))
    /\ tangled' = IF asker[a].met THEN tangled \cup {Branch(a)} ELSE tangled
    /\ Done(a)
    /\ UNCHANGED <<cloudflares, noted, forced>>

TunnelsNext ==
    \/ \E b \in Branches, s \in Slugs : Registers(b, s)
    \/ \E a \in Askers :
        \/ \E b \in Branches :
            \/ ActivatesCloud(a, b) \/ get_bootstrap_config(a, b)
            \/ reprovision_tunnel(a, b) \/ provision_branch_tunnel(a, b)
        \/ ensure_tunnel_provisioned(a) \/ provision_tunnel(a) \/ GetsToken(a)
        \/ LooksUpRecord(a) \/ ensure_dns_record(a) \/ RequestFails(a) \/ NotesError(a)
        \/ UpsertsConfig(a) \/ Activates(a) \/ BreaksOffAt(a)

TunnelsSpec == TunnelsInit /\ [][TunnelsNext]_tunnels

-----------------------------------------------------------------------------
Namesakes(b) == {q \in Branches \ {b} : slug[q] = slug[b]}

\* A branch whose tunnel is active has one tunnel: the branch's row, tunnel_configs
\* and its host name agree on it, whatever failed or broke off before - unless calls
\* for it ran at once the last time, or a branch of another tenant has its name.
\* And a tunnel is made in vain only by a call that failed, that met another, or
\* that the admin forced.
OneTunnel ==
    \A b \in Branches :
        /\ tunnel[b].status = "active" /\ Busy(b) = {} /\ b \notin tangled =>
            /\ tunnel[b].token = tunnel_configs[b]
            /\ cloudflare = "zone" /\ Namesakes(b) = {} => dns[slug[b]] = tunnel[b].token
        /\ Cardinality({t \in DOMAIN made : made[t] = b}) <= 1 + excused[b] + Cardinality(Busy(b))
=============================================================================
