--------------------------- MODULE MCControlPlane ---------------------------
(***************************************************************************)
(* Instances for TLC of the parts of the control plane and of its agents.  *)
(* They share no state: a behaviour chooses the scene it plays in, and the *)
(* rest stays as it began.                                                 *)
(***************************************************************************)
EXTENDS CloudAccounts, Licensing, Updates, Tunnels, Fleet, Payments, TLC

CONSTANTS w1, w2, e1, e2, p1, p2, c1, c2

MCSymmetry == Permutations(Workers) \cup Permutations(Emails) \cup Permutations(Secrets)

\* The disks were never read; of the other parts the machines share the processor.
MCBought ==
    [m \in Machines |-> [p \in Parts |->
        CASE p = "disk_serial" -> 0
          [] p \notin {"disk_serial", "cpu_model"} /\ m = "b" -> 2
          [] OTHER -> 1]]

MCOffers ==
    {[type |-> "monthly", status |-> "active", until |-> -1, grace |-> 1],
     [type |-> "perpetual", status |-> "expired", until |-> -1, grace |-> 0]}

\* Each branch is its own tenant's.
MCTenantOf == [b \in Branches |-> b]

MCReadings ==
    {[version |-> 1, disk |-> 95, backed |-> TRUE],
     [version |-> 2, disk |-> 85, backed |-> TRUE],
     [version |-> 0, disk |-> -1, backed |-> FALSE]}

\* The first tenant has two branches.
MCOwnerOf == [b \in Shops |-> IF b = "s3" THEN "t2" ELSE "t1"]
MCFirst == [t \in Owners |-> IF t = "t1" THEN "s1" ELSE "s3"]

VARIABLE scene

all == <<accounts, licensing, updates, tunnels, fleet, payments, scene>>

\* Of the tenants, the first may grow beyond its first branch.
OneGrows == \A t \in DOMAIN tenants' : t = 1 \/ tenants'[t].branches = 1

OneMachine == hardware'["b"] = hardware["b"] /\ \A c \in Callers : task'[c].for # "b"

\* Two callers register and issue on one day.
Registering ==
    /\ \/ Registration
       \/ \E c \in Callers :
           \/ IssueRecord(c)
           \/ \E t \in 1..registered, terms \in Issuable : terms.type = "monthly" /\ issue_license(c, t, terms)
    /\ OneMachine /\ hardware' = hardware /\ registered' <= 2 /\ Len(licences') <= 2

\* Two machines, one caller: the newest print that shares a part hides the others.
Crowding == Registration /\ task'[c2] = Free

\* One tenant on one machine, one caller, day after day.
Ageing ==
    /\ LicensingNext /\ task'[c2] = Free /\ hardware' = hardware
    /\ OneMachine /\ registered' <= 1 /\ Len(licences') <= 2

\* Releases in both channels, of which the branch may be assigned either; nothing is
\* installed.
Channelling ==
    /\ UpdatesNext /\ UNCHANGED <<desktop, server, cuts>>
    /\ releases'["backend"] = releases["backend"] /\ assigned'["backend"] = assigned["backend"]
    /\ Len(releases'["app"]) <= 4 /\ uploaded' = uploaded

\* Of the versions that may be pinned, the one that is neither first nor last.
InOneChannel(a) ==
    /\ assigned'[a].channel = Own /\ assigned'[a].version \in {0, 2}
    /\ \A r \in DOMAIN releases'[a] : releases'[a][r].channel = Own
    /\ \A b \in Artifacts \ {a} : releases'[b] = releases[b] /\ assigned'[b] = assigned[b]

\* What is uploaded is a version not yet registered.
AppUpdates ==
    /\ UpdatesNext
    /\ <<env, image, undo, update>>' = <<env, image, undo, update>>
    /\ health' \in {health, 0}
    /\ InOneChannel("app")
    /\ uploaded' # uploaded => Len(releases'["app"]) > Len(releases["app"])
    /\ \A r \in DOMAIN releases["app"] : releases'["app"][r].ref \in {"url", releases["app"][r].ref}

ServerUpdates ==
    /\ UpdatesNext
    /\ uploaded' = 0 /\ staged' = staged /\ state' = state /\ cuts' <= 1
    /\ InOneChannel("backend")

MCInit ==
    /\ AccountsInit /\ LicensingInit /\ UpdatesInit /\ TunnelsInit /\ FleetInit /\ PaymentsInit
    /\ scene \in {"accounts", "registering", "crowding", "ageing", "channels", "app", "server", "tunnels", "fleet", "payments"}
    /\ scene = "tunnels" \/ cloudflare = "zone"

MCNext ==
    /\ \/ scene = "accounts" /\ AccountsNext /\ Len(codes') <= 1 /\ Len(tenants') <= 2 /\ Len(users') <= 2
          /\ OneGrows /\ UNCHANGED <<licensing, updates, tunnels, fleet, payments>>
       \/ scene = "registering" /\ Registering /\ UNCHANGED <<accounts, updates, tunnels, fleet, payments>>
       \/ scene = "crowding" /\ Crowding /\ UNCHANGED <<accounts, updates, tunnels, fleet, payments>>
       \/ scene = "ageing" /\ Ageing /\ UNCHANGED <<accounts, updates, tunnels, fleet, payments>>
       \/ scene = "channels" /\ Channelling /\ UNCHANGED <<accounts, licensing, tunnels, fleet, payments>>
       \/ scene = "app" /\ AppUpdates /\ UNCHANGED <<accounts, licensing, tunnels, fleet, payments>>
       \/ scene = "server" /\ ServerUpdates /\ UNCHANGED <<accounts, licensing, tunnels, fleet, payments>>
       \/ scene = "tunnels" /\ TunnelsNext /\ mishaps' + forced' <= 1 /\ UNCHANGED <<accounts, licensing, updates, fleet, payments>>
       \/ scene = "payments" /\ PaymentsNext /\ UNCHANGED <<accounts, licensing, updates, tunnels, fleet>>
       \/ scene = "fleet" /\ FleetNext /\ UNCHANGED <<accounts, licensing, updates, tunnels, payments>>
    /\ UNCHANGED scene

MCSpec == MCInit /\ [][MCNext]_all

\* Types, of the module of the scene.
TypesOK ==
    /\ scene = "accounts" => AccountsTypeOK
    /\ scene \in {"registering", "crowding", "ageing"} => LicensingTypeOK
    /\ scene \in {"channels", "app", "server"} => UpdatesTypeOK
    /\ scene = "tunnels" => TunnelsTypeOK
    /\ scene = "fleet" => FleetTypeOK
    /\ scene = "payments" => PaymentsTypeOK

\* What owners see: a branch shows what its last heartbeat told, the pages judge it
\* alike and count alike; a payment they reported is on the list of their tenant
\* only, once more than its answers were lost, with the last date it was granted.
OwnerPagesHold ==
    /\ scene = "fleet" => HeartbeatShown /\ PagesAgree /\ CountsAgree
    /\ scene = "payments" => PaymentsHold
=============================================================================
