------------------------------- MODULE Updates -------------------------------
(***************************************************************************)
(* Releases: the control plane that registers, pins and offers them, and   *)
(* the desktop agent that downloads and installs them on one node, the app *)
(* through a script that waits for it to quit, the server through its .env *)
(* file and docker compose.  The power may fail between any two steps.     *)
(***************************************************************************)
EXTENDS Naturals, Sequences, FiniteSets, FiniteSetsExt

CONSTANTS
    LastVersion,     \* bound of a run
    MaxCuts,         \* how often the power may fail
    Channels,        \* the channels releases are published in
    Own              \* release_channel of the branch
ASSUME VersionAssumption == LastVersion \in Nat \ {0} /\ MaxCuts \in Nat /\ Own \in Channels

Versions == 1..LastVersion
Artifacts == {"app", "backend"}

VARIABLES
    releases,   \* the active releases of each artifact, oldest first: "url" names a file
                \* of its own, "file" the one place where uploads are kept
    uploaded,   \* the version of the app kept in that place; 0 is none
    assigned,   \* the channel the branch gets each artifact from, its own until one is
                \* assigned, and the version pinned there; 0 is none
    app,        \* the executable of the app
    running,    \* the version of the app that runs; 0 is none
    staged,     \* the downloaded file
    state,      \* desktop-update.json
    backups,    \* the executables kept for a rollback, by the version in their names
    rollback,   \* desktop-rollback.json: the version it goes back to; 0 is no file
    script,     \* what the script that replaces the app does next
    env,        \* the image of the server in .env
    image,      \* the image its container was created from
    health,     \* the version the server last answered with; 0 is unknown
    undo,       \* backend-rollback.json
    update,     \* what the update of the server does next
    cuts        \* how often the power has failed

control == <<releases, uploaded, assigned>>
desktop == <<app, running, staged, state, backups, rollback, script>>
server == <<env, image, health, undo, update>>
updates == <<control, desktop, server, cuts>>

NoFile == [version |-> 0, whole |-> FALSE]
NoUndo == [image |-> 0, version |-> 0, now |-> 0]
NoUpdate == [step |-> "none"]

UpdatesTypeOK ==
    /\ \A a \in Artifacts : \A r \in DOMAIN releases[a] :
          releases[a][r] \in [version : Versions, channel : Channels, ref : {"url", "file"}]
    /\ uploaded \in 0..LastVersion /\ assigned \in [Artifacts -> [channel : Channels, version : 0..LastVersion]]
    /\ app.version \in Versions /\ running \in {0, app.version} \cup Versions
    /\ state.status \in {"idle", "downloading", "staged", "applying", "error"}
    /\ rollback \in 0..LastVersion
    /\ {env, image} \subseteq Versions

\* The node was installed with the first release.
UpdatesInit ==
    /\ releases = [a \in Artifacts |-> <<[version |-> 1, channel |-> Own, ref |-> "url"]>>]
    /\ uploaded = 0
    /\ assigned = [a \in Artifacts |-> [channel |-> Own, version |-> 0]]
    /\ app = [version |-> 1, whole |-> TRUE]
    /\ running = 1
    /\ staged = NoFile
    /\ state = [status |-> "idle", from |-> 0, ref |-> "url"]
    /\ backups = [v \in Versions |-> NoFile]
    /\ rollback = 0
    /\ script = "none"
    /\ env = 1 /\ image = 1 /\ health = 1
    /\ undo = NoUndo
    /\ update = NoUpdate
    /\ cuts = 0

-----------------------------------------------------------------------------
\* The control plane.

Known(a, v, ch) == \E r \in DOMAIN releases[a] : releases[a][r].version = v /\ releases[a][r].channel = ch

\* A version that is in the channel keeps its place.
create_release(a, v, ch, ref) ==
    LET row == [version |-> v, channel |-> ch, ref |-> ref]
    IN  releases' = [releases EXCEPT ![a] =
            IF Known(a, v, ch)
            THEN [r \in DOMAIN @ |-> IF @[r].version = v /\ @[r].channel = ch THEN row ELSE @[r]]
            ELSE Append(@, row)]

publish_release(a, v, ch) ==
    /\ create_release(a, v, ch, "url")
    /\ UNCHANGED <<uploaded, assigned, desktop, server, cuts>>

\* The file replaces the one before it, and the release is registered.
upload_release_artifact(v, ch) ==
    /\ uploaded' = v
    /\ create_release("app", v, ch, "file")
    /\ UNCHANGED <<assigned, desktop, server, cuts>>

assign_release(a, v, ch) ==
    /\ v = 0 \/ Known(a, v, ch)
    /\ assigned' = [assigned EXCEPT ![a] = [channel |-> ch, version |-> v]]
    /\ UNCHANGED <<releases, uploaded, desktop, server, cuts>>

\* Of the channel assigned to the branch, the pinned release or the latest.
Candidates(a) ==
    {r \in DOMAIN releases[a] :
        releases[a][r].channel = assigned[a].channel /\ assigned[a].version \in {0, releases[a][r].version}}
Offered(a) == Max(Candidates(a))
Offer(a) == releases[a][Offered(a)]

\* What the manifest names to go back to: of the branch's own channel, the latest
\* of another version, pinned or not.  0 is none.
Previous(a) ==
    LET others == {r \in DOMAIN releases[a] :
                      releases[a][r].channel = Own /\ releases[a][r].version # Offer(a).version}
    IN  IF others = {} THEN 0 ELSE Max(others)

-----------------------------------------------------------------------------
\* The app.

\* Offered by the banner and the settings unless a download is staged.
prepareAppUpdate ==
    /\ running # 0 /\ script = "none"
    /\ state.status # "staged"
    /\ state' = IF Candidates("app") = {} THEN [state EXCEPT !.status = "error"]
                ELSE IF Offer("app").version <= running THEN [state EXCEPT !.status = "idle"]
                ELSE [status |-> "downloading", from |-> running, ref |-> Offer("app").ref]
    /\ UNCHANGED <<control, app, running, staged, backups, rollback, script, server, cuts>>

\* A file of its own comes with checksums that it must match; what is kept under
\* the upload's address has none that the agent finds.
Downloaded(v) ==
    /\ running # 0
    /\ state.status = "downloading"
    /\ IF state.ref = "url" THEN v > running ELSE v = uploaded
    /\ staged' = [version |-> v, whole |-> TRUE]
    /\ state' = [state EXCEPT !.status = "staged"]
    /\ UNCHANGED <<control, app, running, backups, rollback, script, server, cuts>>

DownloadFails ==
    /\ running # 0
    /\ state.status = "downloading"
    /\ state' = [state EXCEPT !.status = "error"]
    /\ staged' \in {staged, NoFile}
    /\ UNCHANGED <<control, app, running, backups, rollback, script, server, cuts>>

\* The button is there once the download is staged.  What an upload's address
\* names has no extension: no installer opens it.  The app quits.
applyStagedAppUpdate ==
    /\ running # 0 /\ script = "none"
    /\ state.status = "staged"
    /\ state' = [state EXCEPT !.status = IF staged = NoFile THEN "error" ELSE "applying"]
    /\ script' = IF staged = NoFile \/ state.ref = "file" THEN "none" ELSE "copy"
    /\ running' = IF script' = "none" THEN running ELSE 0
    /\ UNCHANGED <<control, app, staged, backups, rollback, server, cuts>>

discardAppUpdate ==
    /\ running # 0 /\ script = "none"
    /\ state.status = "staged"
    /\ staged' = NoFile
    /\ state' = [state EXCEPT !.status = "idle"]
    /\ UNCHANGED <<control, app, running, backups, rollback, script, server, cuts>>

\* cp, or what a power cut or a full disk leaves of it.
ScriptCopies(whole) ==
    /\ script = "copy"
    /\ cuts' = IF whole THEN cuts ELSE cuts + 1
    /\ cuts' <= MaxCuts
    /\ backups' = [backups EXCEPT ![state.from] = [app EXCEPT !.whole = whole]]
    /\ script' = IF whole THEN "move" ELSE "none"
    /\ UNCHANGED <<control, app, running, staged, state, rollback, server>>

\* mv, within a file system.
ScriptMoves ==
    /\ script = "move"
    /\ app' = staged
    /\ staged' = NoFile
    /\ script' = "note"
    /\ UNCHANGED <<control, running, state, backups, rollback, server, cuts>>

ScriptNotes ==
    /\ script = "note"
    /\ rollback' = state.from
    /\ script' = "launch"
    /\ UNCHANGED <<control, app, running, staged, state, backups, server, cuts>>

\* The rollback that desktop-rollback.json describes, if its backup is there.
rollbackLastAppUpdate ==
    /\ running # 0 /\ script = "none"
    /\ IF rollback = 0 \/ backups[rollback] = NoFile
       THEN state' = [state EXCEPT !.status = "error"] /\ UNCHANGED <<script, running>>
       ELSE state' = [state EXCEPT !.status = "applying"] /\ script' = "restore" /\ running' = 0
    /\ UNCHANGED <<control, app, staged, backups, rollback, server, cuts>>

ScriptRestores ==
    /\ script = "restore"
    /\ app' = backups[rollback]
    /\ backups' = [backups EXCEPT ![rollback] = NoFile]
    /\ script' = "forget"
    /\ UNCHANGED <<control, running, staged, state, rollback, server, cuts>>

ScriptForgets ==
    /\ script = "forget"
    /\ rollback' = 0
    /\ script' = "launch"
    /\ UNCHANGED <<control, app, running, staged, state, backups, server, cuts>>

\* By the script or by the user; half an executable does not start.
Launch ==
    /\ running = 0 /\ script \in {"none", "launch"} /\ app.whole
    /\ running' = app.version
    /\ script' = "none"
    /\ UNCHANGED <<control, app, staged, state, backups, rollback, server, cuts>>

-----------------------------------------------------------------------------
\* The server.

refreshBackendHealth ==
    /\ running # 0
    /\ health' \in {0, image}
    /\ UNCHANGED <<control, desktop, env, image, undo, update, cuts>>

\* An unknown version is older than any.
applyBackendUpdate ==
    /\ running # 0 /\ update = NoUpdate
    /\ Candidates("backend") # {}
    /\ Offer("backend").version > health
    /\ env' = Offer("backend").version
    /\ update' = [step |-> "pull", image |-> env, version |-> health, now |-> env']
    /\ UNCHANGED <<control, desktop, image, health, undo, cuts>>

rollbackLastBackendUpdate ==
    /\ running # 0 /\ update = NoUpdate
    /\ undo # NoUndo
    /\ env' = undo.image
    /\ update' = [step |-> "back", now |-> env']
    /\ UNCHANGED <<control, desktop, image, health, undo, cuts>>

ComposeUp ==
    /\ update.step \in {"pull", "back"}
    /\ image' = update.now
    /\ update' = [update EXCEPT !.step = IF @ = "pull" THEN "note" ELSE "forget"]
    /\ UNCHANGED <<control, desktop, env, health, undo, cuts>>

\* A fault: the image noted is the one that has just been written.
NoteUpdateLate ==
    /\ update.step = "note"
    /\ undo' = [image |-> env, version |-> env, now |-> update.now]
    /\ health' \in {0, image}
    /\ update' = NoUpdate
    /\ UNCHANGED <<control, desktop, env, image, cuts>>

NoteUpdate ==
    /\ update.step = "note"
    /\ undo' = [image |-> update.image, version |-> update.version, now |-> update.now]
    /\ health' \in {0, image}
    /\ update' = NoUpdate
    /\ UNCHANGED <<control, desktop, env, image, cuts>>

ForgetUpdate ==
    /\ update.step = "forget"
    /\ undo' = NoUndo
    /\ health' \in {0, image}
    /\ update' = NoUpdate
    /\ UNCHANGED <<control, desktop, env, image, cuts>>

\* docker compose fails, before or after it made the container; an update puts
\* the image back in .env, a rollback does not.
ComposeFails ==
    /\ update.step \in {"pull", "back"}
    /\ image' \in {image, update.now}
    /\ env' = IF update.step = "pull" THEN update.image ELSE env
    /\ update' = NoUpdate
    /\ UNCHANGED <<control, desktop, health, undo, cuts>>

-----------------------------------------------------------------------------
\* The power fails: a file that was being downloaded may be left in part.
PowerFails ==
    /\ cuts < MaxCuts
    /\ cuts' = cuts + 1
    /\ running' = 0
    /\ script' = "none"
    /\ \/ UNCHANGED staged
       \/ state.status = "downloading" /\ running # 0 /\ staged' = [version |-> LastVersion, whole |-> FALSE]
    /\ update' = NoUpdate
    /\ health' = 0
    /\ UNCHANGED <<control, app, state, backups, rollback, env, image, undo>>

UpdatesNext ==
    \/ \E ch \in Channels :
        \/ \E a \in Artifacts, v \in Versions : publish_release(a, v, ch)
        \/ \E v \in Versions : upload_release_artifact(v, ch)
        \/ \E a \in Artifacts, v \in 0..LastVersion : assign_release(a, v, ch)
    \/ \E v \in Versions : Downloaded(v)
    \/ prepareAppUpdate \/ DownloadFails \/ applyStagedAppUpdate \/ discardAppUpdate
    \/ rollbackLastAppUpdate
    \/ \E whole \in BOOLEAN : ScriptCopies(whole)
    \/ ScriptMoves \/ ScriptNotes \/ ScriptRestores \/ ScriptForgets \/ Launch
    \/ refreshBackendHealth \/ applyBackendUpdate \/ rollbackLastBackendUpdate
    \/ ComposeUp \/ NoteUpdate \/ ForgetUpdate \/ ComposeFails
    \/ PowerFails

UpdatesSpec == UpdatesInit /\ [][UpdatesNext]_updates

-----------------------------------------------------------------------------
\* When the power fails, in a download, between the steps of the script that
\* replaces the app or of the one that brings it back, there is still a whole
\* executable to start; it takes two failures, one in a rollback and one in a later
\* copy, to be left with half of one.  And a rollback never goes forward: the backup
\* that the app's rollback file names is the version it says and no newer than the
\* app; an update that began with a server whose version was known, and was the one
\* in its .env, leaves an older image to go back to.  From a server that did not
\* answer, or whose .env an interrupted update had changed, it may not.  And what the
\* manifest of a branch names to go back to was made before what it offers, where the
\* branch gets the app from its own channel and is not pinned; an assignment to
\* another channel, or a pin, may have it named a release made later.
RollbackGoesBack ==
    /\ app.whole \/ cuts > 1
    /\ rollback # 0 /\ backups[rollback].whole =>
          backups[rollback].version = rollback /\ rollback <= app.version
    /\ undo.image # 0 /\ undo.version = undo.image => undo.image < undo.now
    /\ Candidates("app") # {} =>
          \/ Previous("app") < Offered("app")
          \/ assigned["app"] # [channel |-> Own, version |-> 0]
=============================================================================
