--------------------------- MODULE UpdateArchive ----------------------------
(***************************************************************************)
(* The inspection of a downloaded archive before it is unpacked            *)
(* (app-tauri/src-tauri/src/update_archive.rs).  The entries are read one  *)
(* after the other; the archive that is read is chosen as it is read.      *)
(* An unpacked archive is what its entries leave on the volume, where two  *)
(* names that differ in case are one file.                                 *)
(***************************************************************************)
EXTENDS Naturals

VARIABLES
  paths,  \* seen_paths, as far as they end up in Info.plist
  disk    \* the version in Info.plist once unpacked, 0 without one

archive == <<paths, disk>>

\* "plist" is Contents/Info.plist, "twin" the same name in another case, "other"
\* any other path below OsaGuard.app.  Version 0: the content is not a property
\* list of this application.
Entries(versions) ==
  [type : {"file", "directory"}, path : {"plist", "twin", "other"},
   version : versions \cup {0}]

NothingRead == paths = {} /\ disk = 0

\* The loop of validate_update_archive lets the entry pass.  It may refuse any: a
\* link, a path that is not canonical or leaves OsaGuard.app, or one too many or
\* too large for ArchiveBudget.
Valid(e, expected) ==
  /\ e.path \notin paths
  /\ e.path = "plist" => e.type = "file" /\ e.version = expected

\* What tar leaves of the entry: a later file replaces an earlier one.
ReadEntry(e) ==
  /\ paths' = paths \cup ({e.path} \ {"other"})
  /\ disk' \in CASE e.type = "file" /\ e.path = "plist" -> {e.version}
                 [] e.type = "file" /\ e.path = "twin" -> {disk, e.version}
                 [] OTHER -> {disk}

\* Exactly one Info.plist: there is no second entry of the same path.
Complete == "plist" \in paths
=============================================================================
