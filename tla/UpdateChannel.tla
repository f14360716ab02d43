--------------------------- MODULE UpdateChannel ----------------------------
(***************************************************************************)
(* From a published release to the bundle in /Applications                 *)
(* (app-tauri/src-tauri/src/lib.rs:2214-2647): the periodic check and its  *)
(* notification, the installation the user confirms, which checks again,   *)
(* downloads, inspects, unpacks and verifies, and the restart as the new   *)
(* version.  The lifecycle permit admits one of these operations at a time *)
(* (AppState); Bundles has the steps of the exchange, AppTasks those of    *)
(* the watcher around it.                                                  *)
(***************************************************************************)
EXTENDS Discovery, UpdateArchive

VARIABLES
  pc,         \* the next step of the operation, "idle" or "closed"
  op,         \* "check", "install", or "none"
  expected,   \* the version the user has confirmed
  update,     \* the version of the update that was checked
  status,     \* UpdateStatus: phase and version
  offered,    \* history: the versions this process had in its status
  installed,  \* the version in /Applications
  last,       \* last_notified_version
  file,       \* the version in update-notifications.json
  notified,   \* history: the version of the last notification
  lost        \* history: its record was not written, or not read at the start

locals == <<op, expected, update>>
record == <<last, file, notified, lost>>
channel == <<feed, acts, running, discovery>>
vars == <<channel, archive, pc, locals, status, offered, installed, record>>

Labels == {"page", "metadata", "notify", "remember", "download", "read",
           "candidate", "in_place", "replace", "leave"}

Shows(phase, v) == [phase |-> phase, version |-> v]

Init ==
  /\ DiscoveryInit /\ NothingRead
  /\ pc = "closed" /\ op = "none"
  /\ expected = NoVersion /\ update = NoVersion
  /\ status = Shows("idle", NoVersion) /\ offered = {}
  /\ installed = running
  /\ last = NoVersion /\ file = NoVersion /\ notified = NoVersion /\ lost = FALSE

\* set_update_status; the window shows it and lets the user install its version.
SetStatus(phase, v) ==
  /\ status' = Shows(phase, v)
  /\ offered' = offered \cup ({v} \ {NoVersion})

Goto(from, to) == pc = from /\ pc' = to

ForgetLocals == op' = "none" /\ expected' = NoVersion /\ update' = NoVersion
ForgetArchive == paths' = {} /\ disk' = 0

\* The command returns and drops its permit.
Return(from) ==
  /\ Goto(from, "idle")
  /\ ForgetLocals /\ ForgetArchive /\ Forget

Fails(from, phase, v) ==
  /\ Return(from)
  /\ SetStatus(phase, v)
  /\ UNCHANGED <<installed, record>>

-----------------------------------------------------------------------------
(* The process *)

\* Mutant: the record is not read at the start.
LaunchUnrecorded ==
  /\ Goto("closed", "idle")
  /\ running' = installed
  /\ UNCHANGED <<feed, acts, discovery, archive, locals, status, offered, installed, record>>

\* run() reads the record of notifications, or leaves it unknown.
Launch ==
  /\ Goto("closed", "idle")
  /\ running' = installed
  /\ \/ last' = file /\ UNCHANGED lost
     \/ UNCHANGED last /\ lost' = TRUE
  /\ UNCHANGED <<feed, acts, discovery, archive, locals, status, offered, installed, file, notified>>

\* Quit or a kill, and the exit after an update.
Stop ==
  /\ pc # "closed" /\ pc' = "closed"
  /\ ForgetLocals /\ ForgetArchive /\ Forget
  /\ lost' = (lost \/ pc = "remember")
  /\ status' = Shows("idle", NoVersion) /\ offered' = {} /\ last' = NoVersion
  /\ UNCHANGED <<installed, file, notified>>

-----------------------------------------------------------------------------
(* check_updates_inner and checked_update *)

quiet == <<archive, installed, record>>

CheckBegins ==
  /\ Goto("idle", "page")
  /\ Discover
  /\ op' = "check" /\ UNCHANGED <<expected, update>>
  /\ SetStatus("checking", NoVersion)
  /\ UNCHANGED quiet

\* A response that fails, is too large or comes after the deadline.
DiscoveryFails == Fails("page", "error", NoVersion)

ReadNextPage ==
  /\ pc = "page"
  /\ NextPage
  /\ UNCHANGED <<pc, locals, status, offered, quiet>>

ReadLastPage ==
  /\ Goto("page", "metadata")
  /\ LastPage
  /\ UNCHANGED <<locals, status, offered, quiet>>

ReadTooManyPages ==
  /\ pc = "page" /\ TooManyPages
  /\ Fails("page", "error", NoVersion)

NothingNewer ==
  /\ selected = NoVersion
  /\ Fails("metadata", "up_to_date", NoVersion)

\* The appcast of the selected tag cannot be read, or names another version or
\* address than the release.
MetadataFails == selected # NoVersion /\ Fails("metadata", "error", NoVersion)

\* It names no version newer than this one.
MetadataOld == selected # NoVersion /\ Fails("metadata", "up_to_date", NoVersion)

\* validate_preview_update_metadata holds: the update is that of the release.
Checked ==
  /\ op = "check" /\ selected # NoVersion
  /\ Goto("metadata", "notify")
  /\ update' = selected
  /\ SetStatus("available", selected)
  /\ Forget
  /\ UNCHANGED <<op, expected, quiet>>

\* maybe_notify_update_available: already notified, shutting down, or the
\* notification cannot be shown.
NotNotified ==
  /\ Return("notify")
  /\ UNCHANGED <<status, offered, installed, record>>

Notify ==
  /\ last # update
  /\ Goto("notify", "remember")
  /\ last' = update /\ notified' = update /\ lost' = FALSE
  /\ UNCHANGED <<channel, archive, locals, status, offered, installed, file>>

Remember ==
  /\ Return("remember")
  /\ \/ file' = update /\ UNCHANGED lost
     \/ UNCHANGED file /\ lost' = TRUE
  /\ UNCHANGED <<status, offered, installed, last, notified>>

-----------------------------------------------------------------------------
(* install_update *)

\* Refused for a reason of the installation, or because another operation runs.
InstallRefused(v) ==
  /\ pc # "closed" /\ v \in offered
  /\ \/ SetStatus("ready", v)
     \/ status.version # NoVersion /\ SetStatus("ready", status.version)
  /\ UNCHANGED <<channel, archive, pc, locals, installed, record>>

\* The user confirms a version the window has shown, maybe long ago.
InstallBegins(v) ==
  /\ v \in offered
  /\ Goto("idle", "page")
  /\ Discover
  /\ op' = "install" /\ expected' = v /\ UNCHANGED update
  /\ SetStatus("checking", NoVersion)
  /\ UNCHANGED quiet

\* validate_update_install_request: another version is to be confirmed first.
VersionChanged ==
  /\ op = "install" /\ selected # NoVersion /\ selected # expected
  /\ Fails("metadata", "available", selected)

Confirmed ==
  /\ op = "install" /\ selected # NoVersion /\ selected = expected
  /\ Goto("metadata", "download")
  /\ update' = selected
  /\ SetStatus("downloading", selected)
  /\ Forget
  /\ UNCHANGED <<op, expected, quiet>>

GoesOn(from, to) ==
  /\ Goto(from, to)
  /\ UNCHANGED <<channel, locals, status, offered, installed, record>>

Downloaded == GoesOn("download", "read") /\ UNCHANGED archive

DownloadFails ==
  \E from \in {"download", "read", "candidate", "in_place"} :
    Fails(from, "error", update)

ReadArchive(e) ==
  /\ GoesOn("read", "read")
  /\ Valid(e, update)
  /\ ReadEntry(e)

\* The archive has ended with nothing behind it, and is unpacked.
Extracted == Complete /\ GoesOn("read", "candidate") /\ UNCHANGED archive

\* Mutant: its version is not compared again, the archive was inspected.
CandidateTrusted ==
  /\ disk # NoVersion
  /\ GoesOn("candidate", "in_place") /\ UNCHANGED archive

\* verify_preview_update_bundle of the unpacked bundle, which reads it anew.
CandidateVerified ==
  /\ disk = update
  /\ GoesOn("candidate", "in_place") /\ UNCHANGED archive

\* The same for the bundle in place.
InPlaceVerified ==
  /\ installed = running
  /\ Goto("in_place", "replace")
  /\ SetStatus("ready", update)
  /\ UNCHANGED <<channel, archive, locals, installed, record>>

\* Shutdown, a dialog, a watcher that does not stop, or a failed exchange.
NotReplaced ==
  \E phase \in {"ready", "error"} : Fails("replace", phase, update)

Replaced ==
  /\ Goto("replace", "leave")
  /\ SetStatus("installing", update)
  /\ installed' = disk
  /\ UNCHANGED <<channel, archive, locals, record>>

\* Neither the launch of the new bundle nor the way back to the old one worked.
ReplacedInVain ==
  /\ Return("replace")
  /\ SetStatus("error", update)
  /\ installed' = disk
  /\ UNCHANGED record

\* begin_shutdown and exit.
Leave == pc = "leave" /\ Stop

-----------------------------------------------------------------------------
Requests ==
  \/ CheckBegins
  \/ \E v \in Versions : InstallBegins(v) \/ InstallRefused(v)

Operation ==
  \/ DiscoveryFails \/ ReadNextPage \/ ReadLastPage \/ ReadTooManyPages
  \/ NothingNewer \/ MetadataFails \/ MetadataOld
  \/ Checked \/ NotNotified \/ Notify \/ Remember
  \/ VersionChanged \/ Confirmed \/ Downloaded \/ DownloadFails
  \/ \E e \in Entries(Versions) : ReadArchive(e)
  \/ Extracted \/ CandidateVerified \/ InPlaceVerified \/ NotReplaced \/ Replaced
  \/ ReplacedInVain \/ Leave

Next ==
  \/ Launch \/ Stop
  \/ Requests \/ Operation
  \/ /\ Publisher
     /\ UNCHANGED <<archive, pc, locals, status, offered, installed, record>>

Spec == Init /\ [][Next]_vars

\* The application is opened again, its loop checks every six hours at moments
\* of which some find the permit free, every step of an operation ends (each has
\* a time limit), and the requests of a check do not fail for ever.
Fairness ==
  /\ WF_vars(Launch) /\ WF_vars(Operation) /\ SF_vars(CheckBegins)
  /\ \A p \in 1 .. MaxPages :
       SF_vars(op = "check" /\ page = p /\ (ReadNextPage \/ ReadLastPage))
  /\ SF_vars(Checked)

FairSpec == Spec /\ Fairness

-----------------------------------------------------------------------------
(* Properties *)

Types ==
  LET Known == Versions \cup {NoVersion} IN
  /\ feed \in Seq(Known) /\ acts \in 0 .. MaxActs /\ page \in 0 .. MaxPages
  /\ running \in Versions /\ installed \in Versions
  /\ selected \in Known /\ expected \in Known /\ update \in Known /\ disk \in Known
  /\ last \in Known /\ file \in Known /\ notified \in Known
  /\ status.version \in Known
  /\ lasting \subseteq Versions /\ offered \subseteq Versions
  /\ paths \subseteq {"plist", "twin"}
  /\ pc \in Labels \cup {"idle", "closed"} /\ op \in {"none", "check", "install"}

Flags == withdrawn \in BOOLEAN /\ lost \in BOOLEAN

TypeOK == Types /\ Flags

\* What a discovery selects is newer than this version and not older than any
\* release that it could have found all along, however the list grew or changed
\* between its pages; only a deletion can move a release to a page that was
\* read before (preview_update.rs:146-217).
SelectedIsNewest ==
  pc = "metadata" =>
    /\ selected \in Newer(Versions) \cup {NoVersion}
    /\ ~withdrawn => \A v \in lasting : v <= selected

\* /Applications/OsaGuard.app only ever becomes a newer version, and the very
\* one the user was shown and has confirmed, whatever is published between the
\* check and the confirmation, whatever the archive holds, and whatever the
\* volume makes of it (lib.rs:2391-2407, 2424-2530).
InstallsOnlyConfirmed ==
  [][installed' # installed =>
       installed' = expected /\ expected \in offered /\ installed' > installed]_vars

\* No version is notified twice in a row, not even by a later process, unless
\* the record of the notification was lost; one that was announced before another
\* may be announced again (lib.rs:2214-2248, 2808-2815).
NotifiedOnce == [][Notify /\ notified = update => lost]_vars

\* As long as the list fits in the pages and the bytes that may be read and has a
\* newer release, the application offers the newest of them again and again: no
\* operation that fails, and no installation the user asks for in between, keeps
\* it from checking (preview_update.rs:160-217, lib.rs:2314-2355, 2840-2846).
\* (The publisher acts MaxActs times, so the list stays the same in the end.)
Fits ==
  Len(feed) < PageSize * MaxPages /\ \A n \in 1 .. MaxPages : Readable(n)
UpdateIsOffered ==
  <>[](Fits /\ pc # "closed" /\ Newer(Listed) # {})
    => []<>(status.phase = "available" /\ status.version \in Newest(Listed))
=============================================================================
