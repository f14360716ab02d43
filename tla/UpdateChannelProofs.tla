------------------------ MODULE UpdateChannelProofs -------------------------
(***************************************************************************)
(* What UpdateChannel promises for any versions, any list of releases, any *)
(* size and number of its pages, and any bound on what the publisher does. *)
(*                                                                         *)
(* The selected release is the newest one because of what is invariant     *)
(* between two pages: a release that was listed all along is either not    *)
(* newer than the selected one, or still ahead, behind the pages that were *)
(* read.  The installed version is the confirmed one because every step of *)
(* an installation keeps the agreement that the steps before it reached.   *)
(***************************************************************************)
EXTENDS UpdateChannel, SequenceTheorems, FiniteSetTheorems, WellFoundedInduction,
        TLAPS

Listable == Versions \cup {NoVersion}

-----------------------------------------------------------------------------
(* Lists *)

\* Where the elements of a list are after one was inserted.
LEMMA Inserted ==
  ASSUME NEW T, NEW s \in Seq(T), NEW e \in T, NEW i \in 1 .. Len(s) + 1
  PROVE  /\ InsertAt(s, i, e) \in Seq(T)
         /\ Len(InsertAt(s, i, e)) = Len(s) + 1
         /\ \A k \in 1 .. Len(s) :
              InsertAt(s, i, e)[IF k < i THEN k ELSE k + 1] = s[k]
<1> DEFINE front == SubSeq(s, 1, i - 1)
           back == SubSeq(s, i, Len(s))
<1>1. /\ front \in Seq(T) /\ Len(front) = i - 1
      /\ \A k \in 1 .. i - 1 : front[k] = s[k]
  OBVIOUS
<1>2. /\ back \in Seq(T) /\ Len(back) = Len(s) - i + 1
      /\ \A k \in 1 .. Len(s) - i + 1 : back[k] = s[i + k - 1]
  OBVIOUS
<1>3. <<e>> \in Seq(T) /\ Len(<<e>>) = 1
  OBVIOUS
<1> HIDE DEF front, back
<1> DEFINE head == front \o <<e>>
           whole == InsertAt(s, i, e)
<1>4. /\ head \in Seq(T) /\ Len(head) = i
      /\ \A k \in 1 .. i - 1 : head[k] = s[k]
  BY <1>1, <1>3
<1>5. whole = head \o back
  BY DEF InsertAt, front, back
<1> HIDE DEF head, whole
<1>6. /\ whole \in Seq(T) /\ Len(whole) = Len(s) + 1
      /\ \A k \in 1 .. Len(s) + 1 :
           whole[k] = IF k <= i THEN head[k] ELSE back[k - i]
  <2>1. head \in Seq(T) /\ back \in Seq(T)
    BY <1>2, <1>4
  <2>2. /\ head \o back \in Seq(T) /\ Len(head \o back) = Len(head) + Len(back)
        /\ \A k \in 1 .. Len(head) + Len(back) :
             (head \o back)[k] = IF k <= Len(head) THEN head[k] ELSE back[k - Len(head)]
    BY <2>1, ConcatProperties
  <2>3. Len(head) + Len(back) = Len(s) + 1
    BY <1>2, <1>4
  <2> QED
    BY <2>2, <2>3, <1>4, <1>5
<1>7. ASSUME NEW k \in 1 .. Len(s), k < i
      PROVE  whole[k] = s[k]
  BY <1>4, <1>6, <1>7
<1>8. ASSUME NEW k \in 1 .. Len(s), k >= i
      PROVE  whole[k + 1] = s[k]
  <2>1. k + 1 - i \in 1 .. Len(s) - i + 1 /\ i + (k + 1 - i) - 1 = k
    BY <1>8
  <2>2. whole[k + 1] = back[k + 1 - i]
    BY <1>6, <1>8
  <2> QED
    BY <2>1, <2>2, <1>2
<1> QED
  BY <1>6, <1>7, <1>8 DEF whole

\* One that was removed leaves the others, and a list of their type.
LEMMA Removed ==
  ASSUME NEW T, NEW s \in Seq(T), NEW i \in 1 .. Len(s)
  PROVE  RemoveAt(s, i) \in Seq(T)
  BY DEF RemoveAt

\* A page is the releases from its first to its last position, as far as there
\* are any.
LEMMA Page ==
  ASSUME DiscoveryAssumption, feed \in Seq(Listable), page \in Nat \ {0}
  PROVE  LET before == (page - 1) * PageSize IN
         /\ before \in Nat /\ page * PageSize = before + PageSize
         /\ Items \in Seq(Listable)
         /\ \A k \in 1 .. Len(feed) :
              before < k /\ k <= before + PageSize =>
                k - before \in DOMAIN Items /\ Items[k - before] = feed[k]
         /\ Len(Items) < PageSize => Len(feed) < before + PageSize
         /\ Len(Items) = PageSize => before + PageSize <= Len(feed)
<1> DEFINE before == (page - 1) * PageSize
           end == IF before + PageSize < Len(feed) THEN before + PageSize
                                                  ELSE Len(feed)
<1>1. before \in Nat /\ page * PageSize = before + PageSize
  BY DEF DiscoveryAssumption
<1>2. Items = SubSeq(feed, before + 1, end)
  BY <1>1 DEF Items, ItemsOf
<1> HIDE DEF before
<1>3. end \in Nat /\ end <= Len(feed) /\ Items \in Seq(Listable)
  BY <1>1, <1>2 DEF DiscoveryAssumption
<1> HIDE DEF end
<1>4. before <= end =>
        /\ Len(Items) = end - before
        /\ \A j \in 1 .. end - before : Items[j] = feed[before + j]
  BY <1>1, <1>2, <1>3
<1>5. ASSUME NEW k \in 1 .. Len(feed), before < k, k <= end
      PROVE  k - before \in DOMAIN Items /\ Items[k - before] = feed[k]
  <2>1. k - before \in 1 .. end - before /\ before + (k - before) = k
    BY <1>1, <1>3, <1>5
  <2> QED
    BY SMTT(30), <2>1, <1>1, <1>3, <1>4, <1>5
<1>6. Len(Items) < PageSize => Len(feed) < before + PageSize
  BY <1>1, <1>3, <1>4 DEF DiscoveryAssumption, end
<1>7. Len(Items) = PageSize => before + PageSize <= Len(feed)
  <2>1. ~(before <= end) => Len(Items) = 0
    BY <1>1, <1>2, <1>3
  <2> QED
    BY <2>1, <1>1, <1>3, <1>4 DEF DiscoveryAssumption
<1> QED
  BY <1>1, <1>3, <1>6, <1>7, <1>5 DEF DiscoveryAssumption, before, end
-----------------------------------------------------------------------------
(* Newest releases *)

\* A set of naturals with an element has a least one.
LEMMA Least ==
  ASSUME NEW T \in SUBSET Nat, T # {}
  PROVE  \E n \in T : \A m \in T : n <= m
<1> DEFINE below == OpToRel(<, Nat)
<1>1. \A m, n \in Nat : <<m, n>> \in below <=> m < n
  BY DEF OpToRel
<1>2. IsWellFoundedOn(below, Nat)
  BY NatLessThanWellFounded
<1> HIDE DEF below
<1>3. PICK n \in T : \A m \in T : <<m, n>> \notin below
  BY <1>2, WFMin
<1>4. \A m \in T : ~(m < n)
  BY <1>1, <1>3, Zenon
<1> QED
  BY <1>4

\* A finite set of versions with an element has a newest one: one with the fewest
\* above it.
LEMMA NewestExists ==
  ASSUME NEW S \in SUBSET Nat, IsFiniteSet(S), S # {}
  PROVE  Newest(S) # {}
<1> DEFINE Above(v) == {w \in S : w > v}
           sizes == {Cardinality(Above(v)) : v \in S}
<1>1. ASSUME NEW v \in S
      PROVE  IsFiniteSet(Above(v)) /\ Cardinality(Above(v)) \in Nat
  <2>1. Above(v) \in SUBSET S
    OBVIOUS
  <2>2. IsFiniteSet(Above(v))
    BY <2>1, FS_Subset
  <2> QED
    BY <2>2, FS_CardinalityType
<1>2. PICK v \in S : \A w \in S : Cardinality(Above(v)) <= Cardinality(Above(w))
  <2>1. sizes \in SUBSET Nat /\ sizes # {}
    BY <1>1
  <2>2. PICK n \in sizes : \A m \in sizes : n <= m
    BY <2>1, Least
  <2> QED
    BY <2>2
<1>3. ASSUME NEW w \in S, w > v
      PROVE  FALSE
  <2>1. Above(w) \in SUBSET Above(v) /\ w \in Above(v) /\ w \notin Above(w)
    <3>1. (\A u \in S : u > w => u > v) /\ ~(w > w)
      BY <1>3
    <3> QED
      BY <3>1, <1>3, Zenon
  <2>2. /\ Cardinality(Above(w)) <= Cardinality(Above(v))
        /\ Cardinality(Above(v)) = Cardinality(Above(w)) => Above(v) = Above(w)
    BY <1>1, <2>1, FS_Subset
  <2>3. Cardinality(Above(v)) = Cardinality(Above(w))
    BY <1>1, <1>2, <2>2
  <2> QED
    BY <2>1, <2>2, <2>3
<1> QED
  BY <1>3 DEF Newest

-----------------------------------------------------------------------------
(* The inductive invariant *)

\* What an installation has agreed on by each of its steps.
Agreed ==
  /\ pc = "page" <=> page # 0
  /\ pc = "closed" => op = "none"
  /\ pc \in {"page", "metadata"} =>
       /\ selected \in Newer(Versions) \cup {NoVersion}
       /\ op = "install" => expected \in offered
  /\ pc \in {"download", "read", "candidate", "in_place", "replace"} =>
       /\ op = "install"
       /\ update = expected /\ update \in offered /\ update > running
  /\ pc \in {"in_place", "replace"} => disk = update
  /\ pc = "replace" => installed = running

\* Releases that were listed all along are not newer than the selected one, or
\* behind the pages that were read.
Ahead(v) == \E k \in DOMAIN feed : (page - 1) * PageSize < k /\ feed[k] = v

NotPassedOver ==
  /\ pc \in {"page", "metadata"} => lasting \subseteq Newer(Versions)
  /\ pc = "page" => \A v \in lasting : v <= selected \/ Ahead(v)
  /\ pc = "metadata" => \A v \in lasting : v <= selected

Covered == ~withdrawn => NotPassedOver

\* As long as the record of the last notification is not lost, the process and the
\* file both have it.
Recorded ==
  /\ pc = "remember" => notified = update /\ last = update
  /\ ~lost =>
       /\ pc # "closed" => last = notified
       /\ pc # "remember" => file = notified

IInv == TypeOK /\ Agreed /\ Covered /\ Recorded

USE DEF NoVersion

\* A command that returns leaves nothing of itself but its status.
LEMMA Returned ==
  ASSUME NEW from, Return(from)
  PROVE  /\ pc' = "idle" /\ op' = "none" /\ page' = 0
         /\ expected' = NoVersion /\ update' = NoVersion /\ selected' = NoVersion
         /\ lasting' = {} /\ paths' = {} /\ disk' = 0
         /\ UNCHANGED <<feed, acts, running>>
  BY DEF Return, Goto, ForgetLocals, ForgetArchive, Forget, world

\* The status and what was offered keep their types.
LEMMA StatusSet ==
  ASSUME Types, NEW phase, NEW v \in Listable, SetStatus(phase, v)
  PROVE  /\ status'.version \in Listable /\ offered' \subseteq Versions
         /\ offered \subseteq offered'
         /\ v \in Versions => v \in offered'
  BY DiscoveryAssumption DEF Types, SetStatus, Shows, Listable, DiscoveryAssumption

\* What reading a page selects.
LEMMA Selected ==
  ASSUME DiscoveryAssumption, Types, page # 0, Select
  PROVE  /\ selected' \in {selected} \cup Newer(Versions)
         /\ selected' >= selected
         /\ \A k \in DOMAIN Items : Items[k] \in Newer(Versions) => Items[k] <= selected'
<1>1. feed \in Seq(Listable) /\ page \in Nat \ {0} /\ selected \in Nat
  BY DEF Types, DiscoveryAssumption, Listable
<1>2. \A k \in DOMAIN Items : Items[k] \in Listable
  BY <1>1, Page
<1>3. Versions \subseteq Nat /\ running \in Nat
  BY DEF Types, DiscoveryAssumption
<1> DEFINE all == {selected} \cup Newer({Items[k] : k \in DOMAIN Items})
<1>4. selected' \in all /\ \A w \in all : w <= selected'
  BY DEF Select, Newest
<1>5. all \subseteq {selected} \cup Newer(Versions)
  BY <1>2, <1>3 DEF Newer, Listable
<1> QED
  BY <1>4, <1>5 DEF Newer

-----------------------------------------------------------------------------
\* Every step keeps the types.
LEMMA StepKeepsTypes ==
  ASSUME DiscoveryAssumption, Types, Agreed, [Next]_vars
  PROVE  Types'
<1> USE DEF Types, Labels, Listable
<1>1. CASE UNCHANGED vars
  BY <1>1 DEF vars, channel, discovery, archive, locals, record
<1>2. CASE Launch
  BY <1>2 DEF Launch, Goto, discovery, archive, locals
<1>3. CASE Stop
  BY <1>3 DEF Stop, ForgetLocals, ForgetArchive, Forget, world, Shows
<1>4. CASE CheckBegins
  BY <1>4, StatusSet DEF CheckBegins, Goto, Discover, world, quiet, archive,
              record, Newer, Listed, DiscoveryAssumption
<1>5. ASSUME NEW v \in Versions, InstallBegins(v)
      PROVE  Types'
  BY <1>5, StatusSet DEF InstallBegins, Goto, Discover, world, quiet, archive,
              record, Newer, Listed, DiscoveryAssumption
<1>6. ASSUME NEW v \in Versions, InstallRefused(v)
      PROVE  Types'
  <2>1. PICK w \in Listable : SetStatus("ready", w)
    BY <1>6 DEF InstallRefused
  <2>2. status'.version \in Listable /\ offered' \subseteq Versions
    BY <2>1, StatusSet
  <2> QED
    BY <1>6, <2>2 DEF InstallRefused, channel, discovery, archive, locals, record
<1>7. ASSUME NEW from, NEW phase, NEW v \in Versions \cup {NoVersion}, Fails(from, phase, v)
      PROVE  Types'
  BY SMTT(30), <1>7, StatusSet, Returned DEF Fails, record
<1>8. CASE ReadNextPage
  <2>1. /\ page' = page + 1 /\ page < MaxPages /\ Select
        /\ UNCHANGED <<feed, acts, running, lasting, paths, disk, pc, op, expected, update>>
        /\ UNCHANGED <<status, offered, installed, last, file, notified>>
    BY <1>8 DEF ReadNextPage, NextPage, world, quiet, locals, archive, record
  <2>2. page # 0
    BY <1>8 DEF ReadNextPage, Agreed
  <2>3. selected' \in Listable
    BY <2>1, <2>2, Selected DEF Newer
  <2> QED
    BY <2>1, <2>3 DEF DiscoveryAssumption
<1>9. CASE ReadLastPage
  BY SMTT(30), <1>9, Selected
     DEF ReadLastPage, LastPage, Goto, Agreed, Newer, world, quiet, locals, archive,
         record, DiscoveryAssumption
<1>10. CASE Checked \/ Confirmed
  <2>1. \E phase : SetStatus(phase, selected)
    BY <1>10 DEF Checked, Confirmed
  <2>2. status'.version \in Listable /\ offered' \subseteq Versions
    BY <2>1, StatusSet
  <2>3. /\ pc' \in {"notify", "download"} /\ update' = selected /\ selected' = NoVersion
        /\ page' = 0 /\ lasting' = {}
        /\ UNCHANGED <<feed, acts, running, paths, disk, op, expected, installed>>
        /\ UNCHANGED <<last, file, notified>>
    BY <1>10 DEF Checked, Confirmed, Goto, Forget, world, quiet, archive, record
  <2> QED
    BY <2>2, <2>3 DEF DiscoveryAssumption
<1>11. CASE NotNotified
  BY SMTT(30), <1>11, Returned DEF NotNotified, record
<1>12. CASE Notify
  BY <1>12 DEF Notify, Goto, channel, discovery, archive, locals
<1>13. CASE Remember
  BY SMTT(30), <1>13, Returned DEF Remember
<1>14. CASE Downloaded \/ Extracted \/ CandidateVerified
  BY <1>14 DEF Downloaded, Extracted, CandidateVerified, GoesOn, Goto, channel, discovery,
               archive, locals, record
<1>15. ASSUME NEW e \in Entries(Versions), ReadArchive(e)
      PROVE  Types'
  <2>1. e.path \in {"plist", "twin", "other"} /\ e.version \in Listable
    BY DEF Entries
  <2>2. paths' = paths \cup ({e.path} \ {"other"}) /\ disk' \in {e.version, disk}
    BY <1>15 DEF ReadArchive, ReadEntry
  <2>3. /\ pc' = "read"
        /\ UNCHANGED <<feed, acts, running, page, selected, lasting, op, expected, update>>
        /\ UNCHANGED <<status, offered, installed, last, file, notified>>
    BY <1>15 DEF ReadArchive, GoesOn, Goto, channel, discovery, locals, record
  <2>4. paths' \subseteq {"plist", "twin"} /\ disk' \in Listable
    BY <2>1, <2>2
  <2> QED
    BY <2>3, <2>4
<1>16. CASE InPlaceVerified
  BY <1>16, StatusSet DEF InPlaceVerified, Goto, channel, discovery, archive, locals, record
<1>17. CASE Replaced
  BY <1>17, StatusSet DEF Replaced, Goto, channel, discovery, archive, locals, record, Agreed
<1>18. CASE ReplacedInVain
  BY <1>18, StatusSet, Returned DEF ReplacedInVain, Return, Goto, record, Agreed
<1>19. ASSUME Publisher, UNCHANGED <<archive, pc, locals, status, offered, installed, record>>
      PROVE  Types'
  <2>1. Acts
    BY <1>19 DEF Publisher, Publish, Withdraw, Amend
  <2>2. acts' \in 0 .. MaxActs /\ UNCHANGED <<running, page, selected>>
    BY <2>1 DEF Acts, DiscoveryAssumption
  <2>3. feed \in Seq(Versions \cup {NoVersion}) /\ DOMAIN feed = 1 .. Len(feed)
    OBVIOUS
  <2>4. feed' \in Seq(Versions \cup {NoVersion}) /\ lasting' \subseteq Versions
    <3>1. ASSUME NEW i \in 1 .. Len(feed) + 1, NEW v \in Versions \cup {NoVersion}, Publish(i, v)
          PROVE  feed' \in Seq(Versions \cup {NoVersion}) /\ UNCHANGED <<lasting, withdrawn>>
      BY <3>1, Inserted DEF Publish
    <3>2. ASSUME NEW i \in DOMAIN feed, Withdraw(i)
          PROVE  /\ feed' \in Seq(Versions \cup {NoVersion})
                 /\ lasting' \subseteq Versions
      <4>1. feed' = RemoveAt(feed, i) /\ lasting' = lasting \ {feed[i]}
        BY <3>2 DEF Withdraw
      <4>2. feed' \in Seq(Versions \cup {NoVersion})
        BY <4>1, Removed
      <4> QED
        BY <4>1, <4>2, Zenon
    <3>3. ASSUME NEW i \in DOMAIN feed, NEW v \in Versions \cup {NoVersion}, Amend(i, v)
          PROVE  /\ feed' \in Seq(Versions \cup {NoVersion})
                 /\ lasting' \subseteq Versions
      <4>1. feed' = [feed EXCEPT ![i] = v] /\ lasting' = lasting \ {feed[i]}
        BY <3>3 DEF Amend
      <4>2. feed' \in Seq(Versions \cup {NoVersion})
        BY <4>1, <2>3, ExceptSeq
      <4> QED
        BY <4>1, <4>2, Zenon
    <3> QED
      BY <1>19, <3>1, <3>2, <3>3 DEF Publisher
  <2> QED
    BY <1>19, <2>2, <2>4 DEF archive, locals, record
<1> QED
  <2>1. DiscoveryFails \/ ReadTooManyPages \/ NothingNewer \/ MetadataFails => Types'
    BY <1>7 DEF DiscoveryFails, ReadTooManyPages, NothingNewer, MetadataFails
  <2>2. MetadataOld \/ VersionChanged \/ DownloadFails \/ NotReplaced => Types'
    BY <1>7 DEF MetadataOld, VersionChanged, DownloadFails, NotReplaced
  <2> QED
    BY <1>1, <1>2, <1>3, <1>4, <1>5, <1>6, <1>8, <1>9, <1>10, <1>11, <1>12, <1>13, <1>14,
       <1>15, <1>16, <1>17, <1>18, <1>19, <2>1, <2>2 DEF Next, Requests, Operation, Leave

-----------------------------------------------------------------------------
\* Requests and the steps of the publisher change the flags as these do; every other
\* step leaves withdrawn and lost alone or returns.
LEMMA StepKeepsFlags ==
  ASSUME Flags, [Next]_vars
  PROVE  Flags'
<1> USE DEF Flags
<1>1. CASE UNCHANGED vars
  BY <1>1 DEF vars, channel, discovery, record
<1>2. CASE Launch \/ Stop
  BY <1>2, Zenon DEF Launch, Stop, discovery, Forget
<1>3. ASSUME NEW v, CheckBegins \/ InstallBegins(v)
      PROVE  Flags'
  BY <1>3, Zenon DEF CheckBegins, InstallBegins, Discover, quiet, record
<1>4. ASSUME NEW v, InstallRefused(v)
      PROVE  Flags'
  BY <1>4 DEF InstallRefused, channel, discovery, record
<1>5. ASSUME NEW from, NEW phase, NEW v, Fails(from, phase, v)
      PROVE  Flags'
  BY <1>5, Zenon DEF Fails, Return, Forget, record
<1>6. CASE ReadNextPage \/ ReadLastPage
  BY <1>6, Zenon DEF ReadNextPage, ReadLastPage, NextPage, LastPage, quiet, record
<1>7. CASE Checked \/ Confirmed
  BY <1>7, Zenon DEF Checked, Confirmed, Forget, quiet, record
<1>8. CASE NotNotified \/ Remember
  BY <1>8, Zenon DEF NotNotified, Remember, Return, Forget, record
<1>9. CASE Notify
  BY <1>9, Zenon DEF Notify, channel, discovery
<1>10. CASE Downloaded \/ Extracted \/ CandidateVerified
  BY <1>10, Zenon DEF Downloaded, Extracted, CandidateVerified, GoesOn, channel, discovery, record
<1>11. ASSUME NEW e, ReadArchive(e)
       PROVE  Flags'
  BY <1>11, Zenon DEF ReadArchive, GoesOn, channel, discovery, record
<1>12. CASE InPlaceVerified \/ Replaced
  BY <1>12, Zenon DEF InPlaceVerified, Replaced, channel, discovery, record
<1>13. CASE ReplacedInVain
  BY <1>13, Zenon DEF ReplacedInVain, Return, Forget, record
<1>14. ASSUME Publisher, UNCHANGED <<archive, pc, locals, status, offered, installed, record>>
       PROVE  Flags'
  BY <1>14, Zenon DEF Publisher, Publish, Withdraw, Amend, record
<1> QED
  <2>1. \/ DiscoveryFails \/ ReadTooManyPages \/ NothingNewer \/ MetadataFails
        \/ MetadataOld \/ VersionChanged \/ DownloadFails \/ NotReplaced
        => Flags'
    BY <1>5, Zenon DEF DiscoveryFails, ReadTooManyPages, NothingNewer, MetadataFails,
       MetadataOld, VersionChanged, DownloadFails, NotReplaced
  <2> QED
    BY <1>1, <1>2, <1>3, <1>4, <1>6, <1>7, <1>8, <1>9, <1>10, <1>11, <1>12, <1>13, <1>14,
       <2>1, Zenon DEF Next, Requests, Operation, Leave

-----------------------------------------------------------------------------
\* Every step of an installation keeps what the steps before it have agreed on.
LEMMA StepKeepsAgreed ==
  ASSUME DiscoveryAssumption, Types, Agreed, [Next]_vars
  PROVE  Agreed'
<1> USE DEF Agreed, Newer, Goto
<1>1. CASE UNCHANGED vars
  BY <1>1 DEF vars, channel, discovery, archive, locals
<1>2. CASE Launch
  BY <1>2 DEF Launch, discovery, locals
<1>3. CASE Stop
  <2>1. pc' = "closed" /\ op' = "none" /\ page' = 0
    BY <1>3 DEF Stop, ForgetLocals, Forget
  <2> QED
    BY <2>1
<1>4. CASE CheckBegins
  <2>1. pc' = "page" /\ page' = 1 /\ op' = "check" /\ selected' = NoVersion
    BY <1>4 DEF CheckBegins, Discover
  <2> QED
    BY <2>1
<1>5. ASSUME NEW v \in Versions, InstallBegins(v)
      PROVE  Agreed'
  <2>1. /\ pc' = "page" /\ page' = 1 /\ op' = "install" /\ selected' = NoVersion
        /\ expected' = v /\ SetStatus("checking", NoVersion) /\ v \in offered
    BY <1>5 DEF InstallBegins, Discover
  <2>2. v \in offered'
    BY <2>1 DEF SetStatus
  <2> QED
    BY <2>1, <2>2
<1>6. ASSUME NEW v \in Versions, InstallRefused(v)
      PROVE  Agreed'
  <2>1. offered \subseteq offered'
    BY <1>6 DEF InstallRefused, SetStatus
  <2>2. /\ UNCHANGED <<running, page, selected, disk, pc, op, expected, update, installed>>
    BY <1>6 DEF InstallRefused, channel, discovery, archive, locals
  <2> QED
    BY <2>1, <2>2
<1>7. ASSUME NEW from, Return(from)
      PROVE  Agreed'
  <2>1. pc' = "idle" /\ page' = 0
    BY <1>7, Returned
  <2> QED
    BY <2>1
<1>8. CASE ReadNextPage \/ ReadLastPage
  <2>1. /\ Select
        /\ UNCHANGED <<running, disk, op, expected, update, offered, installed>>
    BY <1>8 DEF ReadNextPage, ReadLastPage, NextPage, LastPage, world, locals, quiet, archive
  <2>2. \/ pc' = "page" /\ page' = page + 1
        \/ pc' = "metadata" /\ page' = 0
    BY <1>8 DEF ReadNextPage, ReadLastPage, NextPage, LastPage
  <2>3. pc = "page"
    BY <1>8 DEF ReadNextPage, ReadLastPage
  <2>4. selected' \in Newer(Versions) \cup {NoVersion}
    BY <2>1, <2>3, Selected
  <2>5. page + 1 # 0
    BY DEF Types
  <2> QED
    BY <2>1, <2>2, <2>3, <2>4, <2>5
<1>9. CASE Checked
  <2>1. pc = "metadata" /\ pc' = "notify" /\ page' = 0
    BY <1>9 DEF Checked, Forget
  <2> QED
    BY <2>1
<1>10. CASE Confirmed
  <2>1. /\ pc = "metadata" /\ pc' = "download" /\ page' = 0 /\ op = "install"
        /\ selected # NoVersion /\ selected = expected /\ update' = selected
        /\ SetStatus("downloading", selected) /\ UNCHANGED <<running, op, expected>>
    BY <1>10 DEF Confirmed, Forget, world
  <2>2. selected \in offered' /\ selected > running
    BY <2>1 DEF SetStatus
  <2> QED
    BY <2>1, <2>2
<1>11. CASE Notify
  BY <1>11 DEF Notify, channel, discovery, archive, locals
<1>12. CASE Downloaded \/ Extracted
  BY <1>12 DEF Downloaded, Extracted, GoesOn, channel, discovery, archive, locals
<1>13. CASE CandidateVerified
  BY <1>13 DEF CandidateVerified, GoesOn, channel, discovery, archive, locals
<1>14. ASSUME NEW e, ReadArchive(e)
      PROVE  Agreed'
  BY <1>14 DEF ReadArchive, GoesOn, channel, discovery, locals
<1>15. CASE InPlaceVerified
  <2>1. /\ pc = "in_place" /\ pc' = "replace" /\ installed = running
        /\ UNCHANGED <<running, page, op, expected, update, disk, installed>>
        /\ offered \subseteq offered'
    BY <1>15 DEF InPlaceVerified, SetStatus, channel, discovery, archive, locals
  <2> QED
    BY <2>1
<1>16. CASE Replaced
  <2>1. pc = "replace" /\ pc' = "leave" /\ page' = page
    BY <1>16 DEF Replaced, channel, discovery
  <2> QED
    BY <2>1
<1>17. ASSUME Publisher, UNCHANGED <<archive, pc, locals, status, offered, installed, record>>
       PROVE  Agreed'
  <2>1. UNCHANGED <<running, page, selected>>
    BY <1>17 DEF Publisher, Publish, Withdraw, Amend, Acts
  <2> QED
    BY <1>17, <2>1 DEF archive, locals
<1> QED
  <2>1. \/ DiscoveryFails \/ ReadTooManyPages \/ NothingNewer \/ MetadataFails
        \/ MetadataOld \/ VersionChanged \/ DownloadFails \/ NotReplaced
        \/ NotNotified \/ Remember \/ ReplacedInVain
        => Agreed'
    BY <1>7, Zenon DEF DiscoveryFails, ReadTooManyPages, NothingNewer, MetadataFails,
       MetadataOld, VersionChanged, DownloadFails, NotReplaced, NotNotified, Remember,
       ReplacedInVain, Fails
  <2> QED
    BY <1>1, <1>2, <1>3, <1>4, <1>5, <1>6, <1>8, <1>9, <1>10, <1>11, <1>12, <1>13, <1>14,
       <1>15, <1>16, <1>17, <2>1, Zenon DEF Next, Requests, Operation, Leave

-----------------------------------------------------------------------------
\* A page that was read holds no newer release than the selected one, and the others
\* are behind it.
LEMMA PageKeepsCover ==
  ASSUME DiscoveryAssumption, Types, Agreed, NotPassedOver, pc = "page", Select,
         UNCHANGED <<feed, lasting, running>>,
         \/ pc' = "page" /\ page' = page + 1
         \/ pc' = "metadata" /\ Len(Items) < PageSize
  PROVE  NotPassedOver'
<1> DEFINE before == (page - 1) * PageSize
<1>1. /\ page \in Nat \ {0} /\ feed \in Seq(Listable) /\ selected \in Nat
      /\ PageSize \in Nat \ {0} /\ Versions \subseteq Nat
  BY DEF Types, Agreed, Listable, DiscoveryAssumption
<1>2. /\ before \in Nat /\ page * PageSize = before + PageSize
      /\ \A k \in 1 .. Len(feed) :
           before < k /\ k <= before + PageSize =>
             k - before \in DOMAIN Items /\ Items[k - before] = feed[k]
      /\ Len(Items) < PageSize => Len(feed) < before + PageSize
  BY <1>1, Page
<1>3. /\ selected' \in Nat /\ selected' >= selected
      /\ \A k \in DOMAIN Items : Items[k] \in Newer(Versions) => Items[k] <= selected'
  BY <1>1, Selected DEF Agreed, Newer
<1> HIDE DEF before
<1>4. ASSUME NEW v \in lasting
      PROVE  \/ v <= selected'
             \/ \E k \in 1 .. Len(feed) : before + PageSize < k /\ feed[k] = v
  <2>1. v \in Newer(Versions) /\ v \in Nat
    BY <1>1 DEF NotPassedOver, Newer
  <2>2. CASE v <= selected
    BY <2>1, <2>2, <1>1, <1>3
  <2>3. ASSUME NEW k \in 1 .. Len(feed), before < k, feed[k] = v, k <= before + PageSize
        PROVE  v <= selected'
    BY <2>1, <2>3, <1>2, <1>3
  <2>4. v <= selected \/ \E k \in 1 .. Len(feed) : before < k /\ feed[k] = v
    BY <1>1 DEF NotPassedOver, Ahead, before
  <2>5. \A k \in 1 .. Len(feed) : k <= before + PageSize \/ before + PageSize < k
    BY <1>1, <1>2
  <2> QED
    BY <2>2, <2>3, <2>4, <2>5
<1>5. CASE pc' = "page" /\ page' = page + 1
  <2>1. (page' - 1) * PageSize = before + PageSize
    BY <1>1, <1>2, <1>5
  <2>2. DOMAIN feed' = 1 .. Len(feed)
    BY <1>1
  <2> QED
    BY <1>4, <1>5, <2>1, <2>2 DEF NotPassedOver, Ahead, Newer
<1>6. CASE pc' = "metadata" /\ Len(Items) < PageSize
  <2>1. \A k \in 1 .. Len(feed) : ~(before + PageSize < k)
    BY <1>1, <1>2, <1>6
  <2> QED
    BY <1>4, <1>6, <2>1 DEF NotPassedOver, Newer
<1> QED
  BY <1>5, <1>6

\* At its beginning every release is ahead.
LEMMA BeginningCovers ==
  ASSUME DiscoveryAssumption, Types, Discover, pc' = "page"
  PROVE  NotPassedOver'
<1>1. page' = 1 /\ lasting' = Newer(Listed) /\ feed' = feed /\ running' = running
  BY DEF Discover, world
<1>2. feed \in Seq(Listable) /\ Versions \subseteq Nat /\ running \in Nat
  BY DEF Types, Listable, DiscoveryAssumption
<1>3. \A v \in lasting' : v \in Listable /\ v > running
  BY <1>1, <1>2 DEF Newer, Listed
<1>4. lasting' \subseteq Newer(Versions)
  BY <1>2, <1>3 DEF Newer, Listable
<1>5. \A v \in lasting' : \E k \in DOMAIN feed : k > 0 /\ feed[k] = v
  BY <1>1, <1>2 DEF Newer, Listed
<1>6. (page' - 1) * PageSize = 0
  BY <1>1 DEF DiscoveryAssumption
<1> QED
  BY <1>1, <1>4, <1>5, <1>6 DEF NotPassedOver, Ahead, Newer

\* The publisher moves releases away from the first page, or else withdraws one.
LEMMA PublisherKeepsCover ==
  ASSUME DiscoveryAssumption, Types, Agreed, NotPassedOver, Publisher, UNCHANGED pc,
         ~withdrawn'
  PROVE  NotPassedOver'
<1> DEFINE before == (page - 1) * PageSize
<1>1. /\ page \in Nat /\ feed \in Seq(Listable) /\ DOMAIN feed = 1 .. Len(feed)
      /\ PageSize \in Nat
  BY DEF Types, Listable, DiscoveryAssumption
<1>2. before \in Int
  BY <1>1
<1>3. UNCHANGED <<page, selected, running>>
  BY DEF Publisher, Publish, Withdraw, Amend, Acts
<1> HIDE DEF before
<1>4. ASSUME NEW i \in 1 .. Len(feed) + 1, NEW v \in Listable, Publish(i, v)
      PROVE  NotPassedOver'
  <2>1. feed' = InsertAt(feed, i, v) /\ lasting' = lasting
    BY <1>4 DEF Publish
  <2>2. /\ feed' \in Seq(Listable) /\ Len(feed') = Len(feed) + 1
        /\ \A k \in 1 .. Len(feed) : feed'[IF k < i THEN k ELSE k + 1] = feed[k]
    BY <1>1, <2>1, Inserted
  <2>3. ASSUME NEW k \in 1 .. Len(feed), before < k
        PROVE  \E j \in 1 .. Len(feed') : before < j /\ feed'[j] = feed[k]
    <3>1. CASE k < i
      BY <1>1, <2>2, <2>3, <3>1
    <3>2. CASE ~(k < i)
      BY <1>1, <1>2, <2>2, <2>3, <3>2
    <3> QED
      BY <3>1, <3>2
  <2>4. DOMAIN feed' = 1 .. Len(feed')
    BY <2>2
  <2> QED
    BY SMTT(30), <1>1, <1>3, <2>1, <2>3, <2>4 DEF NotPassedOver, Ahead, Newer, before
<1>5. ASSUME NEW i \in DOMAIN feed, Withdraw(i)
      PROVE  NotPassedOver'
  <2>1. ~(page > 0)
    BY <1>5, Zenon DEF Withdraw
  <2>2. pc # "page"
    BY <1>1, <2>1 DEF Agreed
  <2>3. lasting' \subseteq lasting
    BY <1>5 DEF Withdraw
  <2> QED
    BY <1>3, <2>2, <2>3 DEF NotPassedOver, Newer
<1>6. ASSUME NEW i \in DOMAIN feed, NEW v \in Listable, Amend(i, v)
      PROVE  NotPassedOver'
  <2>1. feed' = [feed EXCEPT ![i] = v] /\ lasting' = lasting \ {feed[i]}
    BY <1>6 DEF Amend
  <2>2. /\ DOMAIN feed' = DOMAIN feed
        /\ \A k \in DOMAIN feed : feed[k] # feed[i] => feed'[k] = feed[k]
    BY <1>1, <2>1
  <2> QED
    BY <1>3, <2>1, <2>2 DEF NotPassedOver, Ahead, Newer, before
<1> QED
  BY <1>1, <1>4, <1>5, <1>6 DEF Publisher, Listable

\* Every step keeps what the pages that were read cover.
LEMMA StepKeepsCovered ==
  ASSUME DiscoveryAssumption, Types, Agreed, Covered, [Next]_vars
  PROVE  Covered'
<1>1. ASSUME UNCHANGED <<pc, feed, running, page, selected, lasting, withdrawn>>
      PROVE  Covered'
  BY <1>1, Zenon DEF Covered, NotPassedOver, Ahead, Newer
<1>2. ASSUME NEW v, CheckBegins \/ InstallBegins(v)
      PROVE  Covered'
  <2>1. Discover /\ pc' = "page"
    BY <1>2 DEF CheckBegins, InstallBegins, Goto
  <2> QED
    BY <2>1, BeginningCovers, Zenon DEF Covered
<1>3. CASE ReadNextPage \/ ReadLastPage
  <2>1. /\ pc = "page" /\ Select /\ UNCHANGED <<feed, lasting, running>>
        /\ \/ pc' = "page" /\ page' = page + 1
           \/ pc' = "metadata" /\ Len(Items) < PageSize
    BY <1>3 DEF ReadNextPage, ReadLastPage, NextPage, LastPage, Goto, world
  <2>2. NotPassedOver => NotPassedOver'
    BY <2>1, PageKeepsCover
  <2>3. withdrawn' = withdrawn
    BY <1>3, Zenon DEF ReadNextPage, ReadLastPage, NextPage, LastPage
  <2> QED
    BY <2>2, <2>3, Zenon DEF Covered
<1>4. ASSUME Publisher, UNCHANGED <<archive, pc, locals, status, offered, installed, record>>
      PROVE  Covered'
  <2>1. ~withdrawn' => ~withdrawn
    BY <1>4, Zenon DEF Publisher, Publish, Withdraw, Amend
  <2> QED
    BY <1>4, <2>1, PublisherKeepsCover, Zenon DEF Covered
<1>5. ASSUME pc' \notin {"page", "metadata"}
      PROVE  Covered'
  BY <1>5 DEF Covered, NotPassedOver
<1>6. ASSUME NEW from, Return(from)
      PROVE  Covered'
  BY <1>5, <1>6 DEF Return, Goto
<1>7. CASE \/ Launch \/ Stop \/ Checked \/ Notify \/ Confirmed \/ Downloaded \/ Extracted
           \/ CandidateVerified \/ InPlaceVerified \/ Replaced
           \/ \E e \in Entries(Versions) : ReadArchive(e)
  BY <1>5, <1>7 DEF Launch, Stop, Checked, Notify, Confirmed, Downloaded, Extracted, Goto,
     CandidateVerified, InPlaceVerified, Replaced, ReadArchive, GoesOn
<1>8. ASSUME NEW v, InstallRefused(v)
      PROVE  Covered'
  BY <1>1, <1>8, Zenon DEF InstallRefused, channel, discovery
<1>9. CASE UNCHANGED vars
  BY <1>1, <1>9, Zenon DEF vars, channel, discovery
<1> QED
  <2>1. \/ DiscoveryFails \/ ReadTooManyPages \/ NothingNewer \/ MetadataFails
        \/ MetadataOld \/ VersionChanged \/ DownloadFails \/ NotReplaced
        \/ NotNotified \/ Remember \/ ReplacedInVain
        => Covered'
    BY <1>6, Zenon DEF DiscoveryFails, ReadTooManyPages, NothingNewer, MetadataFails,
       MetadataOld, VersionChanged, DownloadFails, NotReplaced, NotNotified, Remember,
       ReplacedInVain, Fails
  <2> QED
    BY <1>2, <1>3, <1>4, <1>7, <1>8, <1>9, <2>1, Zenon DEF Next, Requests, Operation, Leave

-----------------------------------------------------------------------------
\* The process and the file forget a notification only together with the flag.
LEMMA StepKeepsRecorded ==
  ASSUME Flags, Recorded, [Next]_vars
  PROVE  Recorded'
<1> USE DEF Recorded, Goto
<1>1. ASSUME UNCHANGED <<record, update, pc>>
      PROVE  Recorded'
  BY <1>1, Zenon DEF record
<1>2. ASSUME UNCHANGED record, pc # "closed", pc # "remember", pc' # "closed", pc' # "remember"
      PROVE  Recorded'
  BY <1>2, Zenon DEF record
<1>3. CASE Launch
  <2>1. /\ pc = "closed" /\ pc' = "idle" /\ file' = file /\ notified' = notified
        /\ (last' = file /\ lost' = lost) \/ lost'
    BY <1>3, Zenon DEF Launch
  <2>2. pc # "remember" /\ pc' # "remember"
    BY <2>1
  <2> QED
    BY <2>1, <2>2, Zenon
<1>4. CASE Stop
  <2>1. /\ pc' = "closed" /\ file' = file /\ notified' = notified
        /\ lost' = (lost \/ pc = "remember")
    BY <1>4, Zenon DEF Stop
  <2>2. pc' # "remember"
    BY <2>1
  <2> QED
    BY <2>1, <2>2, Zenon
<1>5. CASE Notify
  <2>1. /\ pc' = "remember" /\ last' = update /\ notified' = update /\ update' = update
    BY <1>5, Zenon DEF Notify, locals
  <2> QED
    BY <2>1, Zenon
<1>6. CASE Remember
  <2>1. /\ pc = "remember" /\ pc' = "idle" /\ last' = last /\ notified' = notified
        /\ (file' = update /\ lost' = lost) \/ lost'
    BY <1>6, Zenon DEF Remember, Return
  <2>2. pc # "closed" /\ pc' # "remember"
    BY <2>1
  <2> QED
    BY <2>1, <2>2, Zenon
<1>7. CASE UNCHANGED vars
  BY <1>1, <1>7, Zenon DEF vars, locals
<1>8. ASSUME NEW v, InstallRefused(v)
      PROVE  Recorded'
  BY <1>1, <1>8, Zenon DEF InstallRefused, locals
<1>9. ASSUME Publisher, UNCHANGED <<archive, pc, locals, status, offered, installed, record>>
      PROVE  Recorded'
  BY <1>1, <1>9, Zenon DEF locals
<1>10. CASE CheckBegins \/ \E v \in Versions : InstallBegins(v)
  BY <1>2, <1>10 DEF CheckBegins, InstallBegins, quiet
<1>11. CASE ReadNextPage
  BY <1>1, <1>11, Zenon DEF ReadNextPage, locals, quiet
<1>12. CASE ReadLastPage \/ Checked \/ Confirmed
  BY <1>2, <1>12 DEF ReadLastPage, Checked, Confirmed, quiet
<1>13. CASE Downloaded \/ Extracted \/ CandidateVerified \/ InPlaceVerified \/ Replaced
            \/ \E e \in Entries(Versions) : ReadArchive(e)
  BY <1>2, <1>13 DEF Downloaded, Extracted, CandidateVerified, InPlaceVerified, Replaced,
     ReadArchive, GoesOn
<1>14. ASSUME NEW from \in Labels \ {"remember"}, Return(from), UNCHANGED record
       PROVE  Recorded'
  BY <1>2, <1>14 DEF Return, Labels
<1> QED
  <2>1. \/ DiscoveryFails \/ ReadTooManyPages \/ NothingNewer \/ MetadataFails
        \/ MetadataOld \/ VersionChanged \/ DownloadFails \/ NotReplaced
        \/ NotNotified \/ ReplacedInVain
        => Recorded'
    BY <1>14 DEF DiscoveryFails, ReadTooManyPages, NothingNewer, MetadataFails,
       MetadataOld, VersionChanged, DownloadFails, NotReplaced, NotNotified,
       ReplacedInVain, Fails, record, Labels
  <2> QED
    BY <1>3, <1>4, <1>5, <1>6, <1>7, <1>8, <1>9, <1>10, <1>11, <1>12, <1>13, <2>1, Zenon
    DEF Next, Requests, Operation, Leave

-----------------------------------------------------------------------------
\* The strengthened invariant holds initially.
LEMMA InitHolds ==
  ASSUME Init
  PROVE  IInv
<1>1. Types
  <2>1. feed \in Seq(Listable) /\ acts = 0 /\ running \in Versions
    <3>1. PICK m \in 0 .. MaxFeed : feed \in [1 .. m -> Listable]
      BY DEF Init, DiscoveryInit, BoundedSeq, SeqOf, Listable
    <3> QED
      BY <3>1 DEF Init, DiscoveryInit
  <2>2. /\ page = 0 /\ selected = 0 /\ lasting = {} /\ paths = {} /\ disk = 0
        /\ pc = "closed" /\ op = "none" /\ expected = 0 /\ update = 0
        /\ status.version = 0 /\ offered = {} /\ installed = running
        /\ last = 0 /\ file = 0 /\ notified = 0
    BY DEF Init, DiscoveryInit, NothingRead, Shows
  <2> QED
    BY <2>1, <2>2, DiscoveryAssumption DEF Types, Listable, DiscoveryAssumption
<1>2. Flags
  BY Zenon DEF Init, DiscoveryInit, Flags
<1>3. Agreed
  BY DEF Init, DiscoveryInit, Agreed
<1>4. Covered
  BY DEF Init, Covered, NotPassedOver
<1>5. Recorded
  <2>1. pc = "closed" /\ file = notified
    BY DEF Init
  <2> QED
    BY <2>1 DEF Recorded
<1> QED
  BY <1>1, <1>2, <1>3, <1>4, <1>5 DEF IInv, TypeOK

\* The strengthened invariant is kept by every step.
LEMMA StepHolds ==
  ASSUME IInv, [Next]_vars
  PROVE  IInv'
<1>1. Types /\ Flags /\ Agreed /\ Covered /\ Recorded
  BY DEF IInv, TypeOK
<1>2. Types' /\ Agreed'
  BY <1>1, StepKeepsTypes, StepKeepsAgreed, DiscoveryAssumption, Zenon
<1>3. Flags' /\ Covered' /\ Recorded'
  BY <1>1, StepKeepsFlags, StepKeepsCovered, StepKeepsRecorded, DiscoveryAssumption, Zenon
<1> QED
  BY <1>2, <1>3, Zenon DEF IInv, TypeOK

\* The strengthened invariant holds in every reachable state.
THEOREM Inductive == Spec => []IInv
  BY InitHolds, StepHolds, PTL DEF Spec

\* Every variable keeps its type; the number of pages that are read is bounded.
THEOREM TypeCorrect == Spec => []TypeOK
<1>1. IInv => TypeOK
  BY DEF IInv
<1> QED
  BY <1>1, Inductive, PTL

\* A discovery finds the newest release that was listed all along, unless one was
\* deleted meanwhile (select_preview_release, discover_preview_release).
THEOREM NewestSelected == Spec => []SelectedIsNewest
<1>1. IInv => SelectedIsNewest
  <2> SUFFICES ASSUME IInv, pc = "metadata"
               PROVE  /\ selected \in Newer(Versions) \cup {NoVersion}
                      /\ ~withdrawn => \A v \in lasting : v <= selected
    BY DEF SelectedIsNewest
  <2>1. selected \in Newer(Versions) \cup {NoVersion}
    BY DEF IInv, Agreed
  <2>2. ~withdrawn => NotPassedOver
    BY Zenon DEF IInv, Covered
  <2>3. NotPassedOver => \A v \in lasting : v <= selected
    BY DEF NotPassedOver
  <2> QED
    BY <2>1, <2>2, <2>3, Zenon
<1> QED
  BY <1>1, Inductive, PTL

\* What UpdateIsOffered needs of every page: as long as the list fits, the next page
\* is read, neither refused for its length or its number nor without a result.
PageIsTaken ==
  pc = "page" /\ Fits =>
    /\ Readable(page) /\ ~TooManyPages
    /\ Newest({selected} \cup Newer({Items[i] : i \in DOMAIN Items})) # {}

\* A list that fits in the pages and the bytes is read to its end, wherever its
\* releases move between two requests (discover_preview_release).
THEOREM FittingListsAreRead == Spec => []PageIsTaken
<1>1. IInv => PageIsTaken
  <2> SUFFICES ASSUME IInv, pc = "page", Fits
               PROVE  /\ Readable(page) /\ ~TooManyPages
                      /\ Newest({selected} \cup Newer({Items[i] : i \in DOMAIN Items}))
                           # {}
    BY DEF PageIsTaken
  <2>1. /\ Types /\ Agreed
        /\ Len(feed) < PageSize * MaxPages /\ \A n \in 1 .. MaxPages : Readable(n)
    BY DEF IInv, TypeOK, Fits
  <2>2. /\ page \in 1 .. MaxPages /\ feed \in Seq(Listable)
        /\ PageSize \in Nat \ {0} /\ MaxPages \in Nat
        /\ Versions \subseteq Nat /\ selected \in Nat /\ running \in Nat
    BY <2>1, DiscoveryAssumption DEF Types, Agreed, Listable, DiscoveryAssumption
  <2>3. /\ Items \in Seq(Listable)
        /\ Len(Items) = PageSize => page * PageSize <= Len(feed)
    BY <2>2, Page, DiscoveryAssumption
  <2>4. Readable(page)
    BY <2>1, <2>2
  <2>5. ~TooManyPages
    BY <2>1, <2>2, <2>3 DEF TooManyPages
  <2>6. Newest({selected} \cup Newer({Items[i] : i \in DOMAIN Items})) # {}
    <3> DEFINE here == {Items[i] : i \in DOMAIN Items}
    <3>1. here \subseteq Nat /\ Newer(here) \subseteq here
      <4>1. \A i \in DOMAIN Items : Items[i] \in Listable
        BY <2>3
      <4>2. Listable \subseteq Nat
        BY <2>2 DEF Listable
      <4>3. \A i \in DOMAIN Items : Items[i] \in Nat
        BY <4>1, <4>2, Zenon
      <4> QED
        BY <4>3, Zenon DEF Newer
    <3>2. IsFiniteSet(here)
      <4>1. Items \in Seq(here) /\ \A v \in here : \E i \in 1 .. Len(Items) : Items[i] = v
        BY <2>3
      <4> QED
        BY <4>1 DEF IsFiniteSet
    <3>3. IsFiniteSet({selected} \cup Newer(here))
      <4>1. IsFiniteSet(Newer(here))
        BY <3>1, <3>2, FS_Subset
      <4>2. IsFiniteSet(Newer(here) \cup {selected})
        BY <4>1, FS_AddElement
      <4>3. Newer(here) \cup {selected} = {selected} \cup Newer(here)
        OBVIOUS
      <4> QED
        BY <4>2, <4>3
    <3>4. ({selected} \cup Newer(here)) \in SUBSET Nat
      BY <2>2, <3>1
    <3> HIDE DEF here
    <3>5. Newest({selected} \cup Newer(here)) # {}
      BY <3>3, <3>4, NewestExists
    <3> QED
      BY <3>5 DEF here
  <2> QED
    BY <2>4, <2>5, <2>6
<1> QED
  BY <1>1, Inductive, PTL

\* Only the version that the user has been shown and has confirmed is installed, and
\* it is newer than the one before (install_update).
THEOREM ConfirmedInstalled == Spec => InstallsOnlyConfirmed
<1> DEFINE Step == installed' # installed =>
             installed' = expected /\ expected \in offered /\ installed' > installed
<1>1. ASSUME IInv, [Next]_vars
      PROVE  Step
  <2>1. CASE Replaced \/ ReplacedInVain
    <3>1. pc = "replace" /\ installed' = disk
      BY <2>1 DEF Replaced, ReplacedInVain, Return, Goto
    <3>2. /\ update = expected /\ update \in offered /\ update > running
          /\ disk = update /\ installed = running
      BY <1>1, <3>1 DEF IInv, Agreed
    <3> QED
      BY <3>1, <3>2
  <2>2. CASE UNCHANGED vars
    BY <2>2 DEF vars
  <2>3. CASE Launch \/ Stop \/ Leave
    BY <2>3, Zenon DEF Launch, Stop, Leave
  <2>4. CASE Requests
    BY <2>4, Zenon DEF Requests, CheckBegins, InstallBegins, InstallRefused, quiet
  <2>5. CASE \/ ReadNextPage \/ ReadLastPage \/ Checked \/ NotNotified \/ Notify \/ Remember
             \/ Confirmed \/ Downloaded \/ Extracted \/ CandidateVerified \/ InPlaceVerified
             \/ \E e \in Entries(Versions) : ReadArchive(e)
    BY <2>5, Zenon DEF ReadNextPage, ReadLastPage, Checked, NotNotified, Notify, Remember,
       Confirmed, Downloaded, Extracted, CandidateVerified, InPlaceVerified, ReadArchive,
       GoesOn, quiet
  <2>6. CASE \/ DiscoveryFails \/ ReadTooManyPages \/ NothingNewer \/ MetadataFails
             \/ MetadataOld \/ VersionChanged \/ DownloadFails \/ NotReplaced
    BY <2>6, Zenon DEF DiscoveryFails, ReadTooManyPages, NothingNewer, MetadataFails,
       MetadataOld, VersionChanged, DownloadFails, NotReplaced, Fails
  <2>7. ASSUME UNCHANGED <<archive, pc, locals, status, offered, installed, record>>
        PROVE  Step
    BY <2>7
  <2> QED
    BY <1>1, <2>1, <2>2, <2>3, <2>4, <2>5, <2>6, <2>7, Zenon DEF Next, Operation
<1>2. IInv /\ [Next]_vars => [Step]_vars
  BY <1>1
<1> QED
  BY <1>2, Inductive, PTL DEF Spec, InstallsOnlyConfirmed

\* No version is notified twice in a row unless the record was lost
\* (maybe_notify_update_available).
THEOREM NotificationsDiffer == Spec => NotifiedOnce
<1> DEFINE Step == Notify /\ notified = update => lost
<1>1. IInv => Step
  <2> SUFFICES ASSUME IInv, Notify, notified = update
               PROVE  lost
    OBVIOUS
  <2>1. pc = "notify" /\ last # update
    BY DEF Notify, Goto
  <2>2. pc # "closed"
    BY <2>1
  <2> QED
    BY <2>1, <2>2, Zenon DEF IInv, Recorded
<1>2. IInv /\ [Next]_vars => [Step]_vars
  BY <1>1
<1> QED
  BY <1>2, Inductive, PTL DEF Spec, NotifiedOnce
=============================================================================
