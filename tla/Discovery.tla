----------------------------- MODULE Discovery ------------------------------
(***************************************************************************)
(* How a preview build finds a newer release                               *)
(* (app-tauri/src-tauri/src/preview_update.rs): it reads the list of the   *)
(* repository's releases page by page and keeps the newest one that it may *)
(* install.  Every page is a request of its own; between two of them the   *)
(* publisher may publish, change and delete releases, which moves the      *)
(* others to other pages.                                                  *)
(***************************************************************************)
EXTENDS Naturals, Sequences, SequencesExt

CONSTANTS
  Versions,   \* the versions that are ever published
  PageSize,   \* RELEASES_PER_PAGE
  MaxPages,   \* MAX_RELEASE_PAGES
  Size,       \* the bytes of a release's entry on the list, with its assets
  MaxBytes,   \* MAX_RESPONSE_BYTES
  MaxFeed,    \* bound: the length of the list
  MaxActs     \* bound: what the publisher does

\* No version: no release is selected, or one on the list is not to be installed
\* (a draft, not a prerelease, not a canonical preview tag, or its appcast or
\* archive missing, twice there, or under another tag's address).
NoVersion == 0

ASSUME DiscoveryAssumption ==
  /\ Versions \subseteq Nat \ {0}
  /\ PageSize \in Nat \ {0} /\ MaxPages \in Nat \ {0}
  /\ MaxFeed \in Nat /\ MaxActs \in Nat

ASSUME SizeAssumption ==
  Size \in [Versions \cup {NoVersion} -> Nat] /\ MaxBytes \in Nat

VARIABLES
  feed,      \* the list of releases, the publisher's side
  acts,
  running,   \* the version of this process
  page,      \* the page that is requested next, 0 outside a discovery
  selected,  \* the newest release so far
  lasting,   \* history: the newer ones listed ever since the discovery began
  withdrawn  \* history: a release was deleted since then

discovery == <<page, selected, lasting, withdrawn>>

Listed == {feed[i] : i \in DOMAIN feed}
Newer(vs) == {v \in vs : v > running}

\* The greatest version, in a set with the only element.
Newest(vs) == {v \in vs : \A w \in vs : w <= v}

DiscoveryInit ==
  /\ feed \in BoundedSeq(Versions \cup {NoVersion}, MaxFeed)
  /\ \A i, j \in DOMAIN feed :
       feed[i] = feed[j] => i = j \/ feed[i] = NoVersion
  /\ acts = 0
  /\ running \in Versions
  /\ page = 0 /\ selected = NoVersion
  /\ lasting = {} /\ withdrawn = FALSE

-----------------------------------------------------------------------------
(* The publisher *)

Acts ==
  /\ acts < MaxActs /\ acts' = acts + 1
  /\ UNCHANGED <<running, page, selected>>

\* A release appears somewhere in the list, which is not ordered by version.
Publish(i, v) ==
  /\ Acts
  /\ Len(feed) < MaxFeed
  /\ v = NoVersion \/ v \notin Listed
  /\ feed' = InsertAt(feed, i, v)
  /\ UNCHANGED <<lasting, withdrawn>>

Withdraw(i) ==
  /\ Acts
  /\ feed' = RemoveAt(feed, i)
  /\ lasting' = lasting \ {feed[i]}
  /\ withdrawn' = (withdrawn \/ page > 0)

\* Its assets are uploaded or removed, or its flags change.
Amend(i, v) ==
  /\ Acts
  /\ (v = NoVersion) # (feed[i] = NoVersion)
  /\ v = NoVersion \/ v \notin Listed
  /\ feed' = [feed EXCEPT ![i] = v]
  /\ lasting' = lasting \ {feed[i]}
  /\ UNCHANGED withdrawn

Publisher ==
  \/ \E i \in 1 .. Len(feed) + 1, v \in Versions \cup {NoVersion} : Publish(i, v)
  \/ \E i \in DOMAIN feed : Withdraw(i)
  \/ \E i \in DOMAIN feed, v \in Versions \cup {NoVersion} : Amend(i, v)

-----------------------------------------------------------------------------
(* discover_preview_release *)

world == <<feed, acts, running>>

Discover ==
  /\ page' = 1 /\ selected' = NoVersion
  /\ lasting' = Newer(Listed) /\ withdrawn' = FALSE
  /\ UNCHANGED world

\* The releases of page n.
ItemsOf(n) ==
  LET last == n * PageSize IN
  SubSeq(feed, (n - 1) * PageSize + 1, IF last < Len(feed) THEN last ELSE Len(feed))

\* The page that is requested.
Items == ItemsOf(page)

\* The response with page n keeps to the limit.  (So do all the pages together
\* then: MAX_TOTAL_BYTES is this limit for each of MaxPages.)
Readable(n) ==
  SumFunction([i \in DOMAIN ItemsOf(n) |-> Size[ItemsOf(n)[i]]]) <= MaxBytes

\* Mutant: what a later page has replaces what an earlier one had.
SelectLatest ==
  LET here == Newer({Items[i] : i \in DOMAIN Items}) IN
  selected' \in IF here = {} THEN {selected} ELSE Newest(here)

\* select_preview_release, and the comparison with the pages before.
Select ==
  selected' \in Newest({selected} \cup Newer({Items[i] : i \in DOMAIN Items}))

\* Mutant: the number of pages is not limited.
NextPageUnbounded ==
  /\ Readable(page) /\ Len(Items) = PageSize
  /\ page' = page + 1
  /\ Select
  /\ UNCHANGED <<world, lasting, withdrawn>>

\* A full page that is not the last allowed one: the next is requested.
NextPage ==
  /\ Readable(page) /\ Len(Items) = PageSize /\ page < MaxPages
  /\ page' = page + 1
  /\ Select
  /\ UNCHANGED <<world, lasting, withdrawn>>

\* Mutant: the last allowed page is not accepted as the end of the list.
LastPageBeforeLimit ==
  /\ Readable(page) /\ Len(Items) < PageSize /\ page < MaxPages
  /\ page' = 0
  /\ Select
  /\ UNCHANGED <<world, lasting, withdrawn>>

\* A page that is not full is the end of the list; the caller goes on with the
\* selected release.
LastPage ==
  /\ Readable(page) /\ Len(Items) < PageSize
  /\ page' = 0
  /\ Select
  /\ UNCHANGED <<world, lasting, withdrawn>>

\* The last allowed page is full, whether or not there is another behind it.
TooManyPages == Readable(page) /\ Len(Items) = PageSize /\ page = MaxPages

\* checked_update returns: its locals are gone.
Forget ==
  /\ page' = 0 /\ selected' = NoVersion
  /\ lasting' = {} /\ withdrawn' = FALSE
  /\ UNCHANGED world
=============================================================================
