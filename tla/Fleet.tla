-------------------------------- MODULE Fleet --------------------------------
(***************************************************************************)
(* What the control plane knows of its branches and what its dashboards,   *)
(* the owner's pages and the alerts make of it.  A heartbeat is two        *)
(* statements, each committed by itself: a row of heartbeats, and then the *)
(* branch.  The pages read the branches at any moment between.             *)
(***************************************************************************)
EXTENDS Integers, Sequences, FiniteSets, FiniteSetsExt

CONSTANTS
    Stores,        \* the branches
    Posts,         \* heartbeats served at a time
    PosVersions,   \* of the point of sale
    Readings,      \* what a heartbeat may tell: version, disk, and whether of a backup
    OfflineAfter, LongAfter, BackupAfter,   \* 10 minutes, 5 days, 12 hours
    LastMoment,    \* bound of a run: the clock
    MaxBeats,      \* bound of a run: heartbeats received
    MaxReports     \* bound of a run: other calls

ASSUME FleetAssumption ==
    /\ IsFiniteSet(Stores) /\ 0 \notin PosVersions /\ LastMoment \in Nat
    /\ \A r \in Readings : r.version \in PosVersions \cup {0} /\ r.disk \in -1..100 /\ r.backed \in BOOLEAN
    /\ {OfflineAfter, BackupAfter, LongAfter} \subseteq Nat
    /\ OfflineAfter <= BackupAfter /\ BackupAfter <= LongAfter

VARIABLES
    clock,
    branches,      \* the columns of a branch that the pages read
    heartbeats,    \* the table, oldest first
    post,          \* the heartbeat each call has inserted and not yet shown
    blurred,       \* for the properties: branches whose last heartbeats met, or broke off
    reports

fleet == <<clock, branches, heartbeats, post, blurred, reports>>
elsewhere == <<clock, heartbeats, post, blurred>>

Unknown == -1      \* NULL, of a time or a percentage
NoVersion == 0

FleetTypeOK ==
    /\ clock \in 0..LastMoment
    /\ branches \in [Stores -> [seen : Unknown..LastMoment, online : BOOLEAN, version : PosVersions \cup {NoVersion},
                                disk : Unknown..100, backup : Unknown..LastMoment,
                                install : {"pending", "registered", "success", "error"},
                                tunnel : {"pending", "active", "error"}]]
    /\ \A p \in Posts : post[p] \in 0..Len(heartbeats)
    /\ blurred \subseteq Stores

FleetInit ==
    /\ clock = 0
    /\ branches = [b \in Stores |-> [seen |-> Unknown, online |-> FALSE, version |-> NoVersion, disk |-> Unknown,
                                     backup |-> Unknown, install |-> "pending", tunnel |-> "pending"]]
    /\ heartbeats = <<>> /\ post = [p \in Posts |-> 0]
    /\ blurred = {} /\ reports = 0

-----------------------------------------------------------------------------
\* What comes in.

Coalesce(new, old, null) == IF new = null THEN old ELSE new
Writes(b, row) == branches' = [branches EXCEPT ![b] = row] /\ reports < MaxReports /\ reports' = reports + 1

pre_register_branch(b) ==
    /\ Writes(b, [branches[b] EXCEPT !.seen = clock])
    /\ UNCHANGED elsewhere

register_branch(b, v) ==
    /\ Writes(b, [branches[b] EXCEPT !.seen = clock, !.online = TRUE, !.install = "registered",
                                     !.version = Coalesce(v, @, NoVersion)])
    /\ UNCHANGED elsewhere

report_install_status(b, status, v) ==
    /\ Writes(b, [branches[b] EXCEPT !.install = status, !.version = Coalesce(v, @, NoVersion)])
    /\ UNCHANGED elsewhere

TunnelReports(b, status) ==
    /\ branches[b].tunnel # status
    /\ Writes(b, [branches[b] EXCEPT !.tunnel = status])
    /\ UNCHANGED elsewhere

\* The heartbeats of the node tell of its newest backup with a time zone, which the
\* columns, having none, refuse.  Clients without a backup, or without the zone, get through.
Beats(b) ==
    {[branch |-> b, at |-> clock, version |-> r.version, disk |-> r.disk, zoned |-> z,
      backup |-> IF r.backed THEN clock ELSE Unknown] : r \in Readings, z \in BOOLEAN}

BeatingFor(b) == {p \in Posts : post[p] # 0 /\ heartbeats[post[p]].branch = b}

create_heartbeat(p, beat) ==
    /\ post[p] = 0 /\ Len(heartbeats) < MaxBeats
    /\ ~(beat.zoned /\ beat.backup # Unknown)
    /\ heartbeats' = Append(heartbeats, [beat EXCEPT !.zoned = FALSE])
    /\ post' = [post EXCEPT ![p] = Len(heartbeats) + 1]
    /\ blurred' = IF BeatingFor(beat.branch) = {} THEN blurred \ {beat.branch} ELSE blurred \cup {beat.branch}
    /\ UNCHANGED <<clock, branches, reports>>

\* A fault: a percentage that was not told leaves the last one.
ToldKeeping(row, beat) ==
    [row EXCEPT !.version = Coalesce(beat.version, @, NoVersion), !.disk = Coalesce(beat.disk, @, Unknown),
                !.backup = Coalesce(beat.backup, @, Unknown), !.seen = clock, !.online = TRUE]

Told(row, beat) ==
    [row EXCEPT !.version = Coalesce(beat.version, @, NoVersion), !.disk = beat.disk,
                !.backup = Coalesce(beat.backup, @, Unknown), !.seen = clock, !.online = TRUE]

UpdatesBranch(p) ==
    /\ post[p] # 0
    /\ LET beat == heartbeats[post[p]] IN
        branches' = [branches EXCEPT ![beat.branch] = Told(@, beat)]
    /\ post' = [post EXCEPT ![p] = 0]
    /\ UNCHANGED <<clock, heartbeats, blurred, reports>>

\* The connection is lost between the two statements.
HeartbeatBreaksOff(p) ==
    /\ post[p] # 0
    /\ blurred' = blurred \cup {heartbeats[post[p]].branch}
    /\ post' = [post EXCEPT ![p] = 0]
    /\ UNCHANGED <<clock, branches, heartbeats, reports>>

TimePasses ==
    /\ clock < LastMoment /\ clock' = clock + 1
    /\ UNCHANGED <<branches, heartbeats, post, blurred, reports>>

FleetNext ==
    \/ TimePasses
    \/ \E b \in Stores :
        \/ pre_register_branch(b)
        \/ \E v \in PosVersions \cup {NoVersion} :
            \/ register_branch(b, v)
            \/ \E status \in {"success", "error"} : report_install_status(b, status, v)
        \/ \E status \in {"active", "error"} : TunnelReports(b, status)
    \/ \E p \in Posts :
        \/ \E b \in Stores : \E beat \in Beats(b) : create_heartbeat(p, beat)
        \/ UpdatesBranch(p) \/ HeartbeatBreaksOff(p)

FleetSpec == FleetInit /\ [][FleetNext]_fleet

-----------------------------------------------------------------------------
\* What the pages make of it.  A branch is asked for by every page in one query.

Before(time, age) == time = Unknown \/ clock - time > age

\* The alerts and the owner's page look at a percentage only if it is an int or a
\* float; numeric is what the driver makes of the column, "decimal" or "float".
IsNumber(pct, numeric) == pct # Unknown /\ numeric = "float"

collect_alert_candidates(b, numeric) ==
    LET row == branches[b] IN
    {k \in {"offline_branch", "offline_branch_long", "disk_usage", "backup_stale", "tunnel_error", "install_error"} :
        CASE k = "offline_branch" -> Before(row.seen, OfflineAfter)
          [] k = "offline_branch_long" -> Before(row.seen, LongAfter)
          [] k = "disk_usage" -> IsNumber(row.disk, numeric) /\ row.disk >= 80
          [] k = "backup_stale" -> Before(row.backup, BackupAfter)
          [] k = "tunnel_error" -> row.tunnel = "error"
          [] k = "install_error" -> row.install = "error"}

\* The reasons of a page, and how bad they are; the later ones count only while the
\* earlier ones left the branch better than that.
dashboard_branch_health(b) ==
    LET row == branches[b]
        grave == {k \in {"offline", "install_error", "tunnel_error", "disk_high"} :
            CASE k = "offline" -> ~row.online
              [] k = "install_error" -> row.install = "error"
              [] k = "tunnel_error" -> row.tunnel = "error"
              [] k = "disk_high" -> row.disk >= 90}
        full == IF grave = {} /\ row.disk >= 80 THEN {"disk_warning"} ELSE {}
        lost == IF grave \cup full = {} /\ row.backup = Unknown THEN {"backup_missing"} ELSE {}
    IN [health |-> IF grave # {} THEN "critical" ELSE IF full \cup lost # {} THEN "warning" ELSE "healthy",
        reasons |-> grave \cup full \cup lost]

Versioned == {b \in Stores : branches[b].version # NoVersion}
Running(v) == Cardinality({b \in Versioned : branches[b].version = v})

\* Of the versions most branches run, the one of the first branch by name.
expected_pos_version ==
    IF Versioned = {} THEN NoVersion ELSE CHOOSE v \in PosVersions : \A w \in PosVersions : Running(w) <= Running(v)

build_fleet_health(b, numeric) ==
    LET row == branches[b]
        grave == {k \in {"offline", "disk_critical", "tunnel_error", "install_error"} :
            CASE k = "offline" -> ~row.online
              [] k = "disk_critical" -> IsNumber(row.disk, numeric) /\ row.disk >= 90
              [] k = "tunnel_error" -> row.tunnel = "error"
              [] k = "install_error" -> row.install = "error"}
        light == {k \in {"backup_missing", "version_drift"} :
            CASE k = "backup_missing" -> row.backup = Unknown
              [] k = "version_drift" -> row.version \notin {NoVersion, expected_pos_version}}
    IN [health |-> IF grave # {} THEN "critical" ELSE IF light # {} THEN "warning" ELSE "healthy",
        reasons |-> grave \cup light]

\* The owner's list of events: one for each alert, each error again, and each heartbeat.
snapshot_events(numeric) ==
    [b \in Stores |-> collect_alert_candidates(b, numeric)
        \cup (IF branches[b].install = "error" THEN {"branch.install_error"} ELSE {})
        \cup (IF branches[b].tunnel = "error" THEN {"branch.tunnel_error"} ELSE {})]

get_recent_heartbeats(stores) == {i \in DOMAIN heartbeats : heartbeats[i].branch \in stores}

owner_events(numeric) == [snapshot |-> snapshot_events(numeric), beats |-> get_recent_heartbeats(Stores)]
owner_branch_timeline(b) == get_recent_heartbeats({b})

Alerts(numeric) == UNION {{b} \X collect_alert_candidates(b, numeric) : b \in Stores}

dashboard_summary(numeric) ==
    [online |-> Cardinality({b \in Stores : branches[b].online}),
     offline |-> Cardinality({b \in Stores : ~branches[b].online}),
     install_errors |-> Cardinality({b \in Stores : branches[b].install = "error"}),
     tunnel_errors |-> Cardinality({b \in Stores : branches[b].tunnel = "error"}),
     alerts_total |-> Cardinality(Alerts(numeric))]

\* The stores of a run are one tenant's.
dashboard_tenant_summary ==
    [online |-> Cardinality({b \in Stores : branches[b].online}),
     backup_missing |-> Cardinality({b \in Stores : branches[b].backup = Unknown})]

owner_portfolio(numeric) ==
    LET online == Cardinality({b \in Stores : branches[b].online}) IN
    [online |-> online, offline |-> Cardinality(Stores) - online, alerts_total |-> Cardinality(Alerts(numeric))]

-----------------------------------------------------------------------------
LastTold(b) == heartbeats[Max(owner_branch_timeline(b))]

\* A branch shows what its last heartbeat told, unless heartbeats of it met or one
\* broke off; and from its first one on it is online on every page, whatever time
\* passes.
HeartbeatShown ==
    \A b \in Stores :
        /\ owner_branch_timeline(b) # {} /\ b \notin blurred /\ BeatingFor(b) = {} =>
            /\ branches[b].disk = LastTold(b).disk
            /\ branches[b].seen >= LastTold(b).at
            /\ branches[b].backup >= LastTold(b).backup
            /\ "offline" \notin dashboard_branch_health(b).reasons \cup build_fleet_health(b, "decimal").reasons
        /\ branches[b].disk \in {Unknown} \cup {heartbeats[i].disk : i \in owner_branch_timeline(b)}

\* The alerts, the dashboard and the owner's page judge a branch alike but for its
\* disk: of a percentage that the driver hands out as a Decimal only the dashboard
\* knows, and a disk between 80 and 90 is no matter to the owner's page.
PagesAgree ==
    \A b \in Stores, numeric \in {"decimal", "float"} :
        LET alerts == collect_alert_candidates(b, numeric)
            shown == dashboard_branch_health(b)
            owned == build_fleet_health(b, numeric)
            full == branches[b].disk >= 80
        IN
            /\ alerts \cap {"tunnel_error", "install_error"} = shown.reasons \cap {"tunnel_error", "install_error"}
            /\ shown.reasons \cap {"tunnel_error", "install_error", "offline"}
                = owned.reasons \cap {"tunnel_error", "install_error", "offline"}
            /\ "disk_usage" \in alerts <=> full /\ numeric = "float"
            /\ owned.health = "critical" => shown.health = "critical"
            /\ shown.health = "critical" /\ owned.health # "critical" => full /\ numeric = "decimal"
            /\ owned.health = "healthy" => shown.health = "healthy" \/ full
            /\ shown.health = "healthy" => owned.reasons \subseteq {"version_drift"}
            /\ "disk_high" \in shown.reasons /\ numeric = "float" => "disk_usage" \in alerts

\* The pages that count branches count what the others list.
CountsAgree ==
    \A numeric \in {"decimal", "float"} :
        LET summary == dashboard_summary(numeric)
            portfolio == owner_portfolio(numeric)
        IN
        /\ summary.online = portfolio.online /\ summary.offline = portfolio.offline
        /\ summary.alerts_total = portfolio.alerts_total
        /\ summary.offline = Cardinality({b \in Stores : "offline" \in build_fleet_health(b, numeric).reasons})
        /\ dashboard_tenant_summary.online = summary.online
        /\ dashboard_tenant_summary.backup_missing <= Cardinality({a \in Alerts(numeric) : a[2] = "backup_stale"})
        /\ summary.alerts_total + summary.tunnel_errors + summary.install_errors
            = Cardinality(UNION {{b} \X owner_events(numeric).snapshot[b] : b \in Stores})
=============================================================================
