------------------------- MODULE SuperVersionProofs -------------------------
(***************************************************************************)
(* Proofs about SuperVersion, for every finite set of threads and every    *)
(* number of installs.  The argument is a count: refs of a superversion is *)
(* the number of its owners, so it cannot reach zero while somebody still  *)
(* has it, and when it does there is nobody left to free it but the one    *)
(* who dropped the last reference.                                         *)
(***************************************************************************)
EXTENDS SuperVersion, FiniteSetTheorems, TLAPS

-----------------------------------------------------------------------------
(* The inductive invariant.                                                *)

\* The types, and that nobody has a superversion that is still to come.
TypeOK ==
    /\ super_version \in Version
    /\ refs \in [Version -> Int]
    /\ freed \subseteq 1..(super_version - 1)
    /\ local_sv \in [Thread -> {kSVObsolete, kSVInUse} \union 1..super_version]
    /\ pc \in [Thread -> {"idle", "lock", "read", "return", "unref", "cleanup", "exited"}]
    /\ sv \in [Thread -> 0..super_version]
    /\ iterator \in [Thread -> 0..super_version]
    /\ since \in [Thread -> 0..super_version]
    /\ installer \in {"idle", "installed", "scrape"}
    /\ toScrape \subseteq Thread
    /\ scraped \subseteq Thread \X {super_version - 1}

HasRead(t) == pc[t] \in {"read", "return", "unref"}

\* The owners of references to v: pointers in thread-local storage, reads,
\* iterators, pointers taken out by Scrape, super_version_ itself, and the old
\* super_version_ until the install drops it.
Caching(v) == {t \in Thread : local_sv[t] = v}
Reading(v) == {t \in Thread : HasRead(t) /\ sv[t] = v}
Pinning(v) == {t \in Thread : iterator[t] = v}
Scraping(v) == {t \in Thread : <<t, v>> \in scraped}
Current(v) == IF v = super_version THEN 1 ELSE 0
Replaced(v) == IF installer # "idle" /\ v = super_version - 1 THEN 1 ELSE 0

\* refs counts the owners.
Owners(v) ==
    Cardinality(Caching(v)) + Cardinality(Reading(v)) + Cardinality(Pinning(v))
        + Cardinality(Scraping(v)) + Current(v) + Replaced(v)

RefsCountOwners == \A v \in Version : refs[v] = Owners(v)

\* Which superversion a thread-local copy is of, whether it is in the storage or
\* with the reader who took it out and may still put it back: the current one,
\* or its predecessor while the install has not come to this thread.
Pending(t) == installer = "installed" \/ (installer = "scrape" /\ t \in toScrape)
Takes(t) == local_sv[t] = kSVInUse /\ pc[t] \in {"read", "return"}

CopiesAreCurrent ==
    \A t \in Thread :
        /\ local_sv[t] \notin {kSVObsolete, kSVInUse} =>
               (MutexFree /\ local_sv[t] = super_version) \/ (Pending(t) /\ local_sv[t] = super_version - 1)
        /\ Takes(t) =>
               (MutexFree /\ sv[t] = super_version) \/ (Pending(t) /\ sv[t] = super_version - 1)
        /\ local_sv[t] = kSVInUse => pc[t] \in {"lock", "read", "return"}
        /\ pc[t] = "exited" => local_sv[t] = kSVObsolete

\* The installer scrapes every thread once, and ends with nothing left over.
InstallerInOrder ==
    /\ installer # "scrape" => toScrape = {} /\ scraped = {}
    /\ installer # "idle" => super_version > 1
    /\ \A t \in toScrape : <<t, super_version - 1>> \notin scraped
    /\ \A t \in Thread : pc[t] = "exited" => t \notin toScrape

\* A superversion without references is in the hands of one who frees it.
CleanupIsDue ==
    /\ \A v \in freed : refs[v] = 0
    /\ \A t \in Thread : pc[t] = "cleanup" => sv[t] \in 1..(super_version - 1) /\ refs[sv[t]] = 0
    /\ \A v \in 1..(super_version - 1) :
           refs[v] = 0 => v \in freed \/ \E t \in Thread : pc[t] = "cleanup" /\ sv[t] = v

\* A reader has a superversion, and none that is too old for its read.
ReadersAreFresh ==
    \A t \in Thread :
        /\ HasRead(t) => sv[t] > 0
        /\ pc[t] = "read" => sv[t] >= since[t]

Inv ==
    /\ TypeOK
    /\ RefsCountOwners
    /\ CopiesAreCurrent
    /\ InstallerInOrder
    /\ CleanupIsDue
    /\ ReadersAreFresh

-----------------------------------------------------------------------------
(* What the steps do to everything but the counts.                         *)

\* The types, the thread-local copies, the order of the install and the age of
\* the reads are kept by every step of a reader (column_family.cc) and of
\* InstallSuperVersion.
LEMMA ControlIsKept ==
    Inv /\ [Next]_vars => (TypeOK /\ CopiesAreCurrent /\ InstallerInOrder /\ ReadersAreFresh)'
<1> SUFFICES ASSUME Inv, [Next]_vars
             PROVE  (TypeOK /\ CopiesAreCurrent /\ InstallerInOrder /\ ReadersAreFresh)'
    OBVIOUS
<1> USE SuperVersionAssumption DEF Inv, Version, MutexFree, kSVObsolete, kSVInUse, Pending, Takes, HasRead
<1>1. ASSUME NEW t \in Thread, Swap(t)
     PROVE  (TypeOK /\ CopiesAreCurrent /\ InstallerInOrder /\ ReadersAreFresh)'
  <2>1. TypeOK'
    <3>1. local_sv[t] \in {kSVObsolete} \union 1..super_version
      BY <1>1 DEF Swap, TypeOK, CopiesAreCurrent
    <3>2. sv' \in [Thread -> 0..super_version]
      <4>1. sv' = sv \/ sv' = [sv EXCEPT ![t] = local_sv[t]]
        BY <1>1 DEF Swap
      <4>2. local_sv[t] \in 0..super_version
        BY <3>1 DEF TypeOK
      <4> QED BY <4>1, <4>2 DEF TypeOK
    <3>3. pc' \in [Thread -> {"idle", "lock", "read", "return", "unref", "cleanup", "exited"}]
      BY <1>1 DEF Swap, Goto, TypeOK
    <3>4. since' \in [Thread -> 0..super_version]
      BY <1>1 DEF Swap, TypeOK
    <3> QED BY <1>1, <3>2, <3>3, <3>4 DEF Swap, TypeOK
  <2>2. CopiesAreCurrent'
    BY <1>1 DEF Swap, Goto, TypeOK, CopiesAreCurrent, InstallerInOrder
  <2>3. InstallerInOrder'
    BY <1>1 DEF Swap, Goto, TypeOK, InstallerInOrder
  <2>4. ReadersAreFresh'
    BY <1>1 DEF Swap, Goto, TypeOK, CopiesAreCurrent, InstallerInOrder, ReadersAreFresh
  <2> QED BY <2>1, <2>2, <2>3, <2>4
<1>2. ASSUME NEW t \in Thread, RefCurrent(t)
     PROVE  (TypeOK /\ CopiesAreCurrent /\ InstallerInOrder /\ ReadersAreFresh)'
  <2>1. TypeOK'
    BY <1>2 DEF RefCurrent, Goto, Ref, Unref, TypeOK, CopiesAreCurrent, CleanupIsDue, ReadersAreFresh
  <2>2. CopiesAreCurrent'
    BY <1>2 DEF RefCurrent, Goto, TypeOK, CopiesAreCurrent, InstallerInOrder
  <2>3. InstallerInOrder'
    BY <1>2 DEF RefCurrent, Goto, TypeOK, InstallerInOrder
  <2>4. ReadersAreFresh'
    BY <1>2 DEF RefCurrent, Goto, TypeOK, CopiesAreCurrent, InstallerInOrder, ReadersAreFresh
  <2> QED BY <2>1, <2>2, <2>3, <2>4
<1>3. ASSUME NEW t \in Thread, Get(t)
     PROVE  (TypeOK /\ CopiesAreCurrent /\ InstallerInOrder /\ ReadersAreFresh)'
  <2>1. TypeOK'
    BY <1>3 DEF Get, Goto, Ref, Unref, TypeOK, CopiesAreCurrent, CleanupIsDue, ReadersAreFresh
  <2>2. CopiesAreCurrent'
    BY <1>3 DEF Get, Goto, TypeOK, CopiesAreCurrent, InstallerInOrder
  <2>3. InstallerInOrder'
    BY <1>3 DEF Get, Goto, TypeOK, InstallerInOrder
  <2>4. ReadersAreFresh'
    BY <1>3 DEF Get, Goto, TypeOK, CopiesAreCurrent, InstallerInOrder, ReadersAreFresh
  <2> QED BY <2>1, <2>2, <2>3, <2>4
<1>4. ASSUME NEW t \in Thread, NewIterator(t)
     PROVE  (TypeOK /\ CopiesAreCurrent /\ InstallerInOrder /\ ReadersAreFresh)'
  <2>1. TypeOK'
    <3>1. sv[t] \in 1..super_version
      BY <1>4 DEF NewIterator, TypeOK, ReadersAreFresh
    <3>2. refs' \in [Version -> Int]
      BY <1>4, <3>1 DEF NewIterator, Ref, TypeOK
    <3>3. iterator' \in [Thread -> 0..super_version]
      BY <1>4, <3>1 DEF NewIterator, TypeOK
    <3> QED BY <1>4, <3>2, <3>3 DEF NewIterator, Goto, TypeOK
  <2>2. CopiesAreCurrent'
    BY <1>4 DEF NewIterator, Goto, TypeOK, CopiesAreCurrent, InstallerInOrder
  <2>3. InstallerInOrder'
    BY <1>4 DEF NewIterator, Goto, TypeOK, InstallerInOrder
  <2>4. ReadersAreFresh'
    BY <1>4 DEF NewIterator, Goto, TypeOK, CopiesAreCurrent, InstallerInOrder, ReadersAreFresh
  <2> QED BY <2>1, <2>2, <2>3, <2>4
<1>5. ASSUME NEW t \in Thread, Return(t)
     PROVE  (TypeOK /\ CopiesAreCurrent /\ InstallerInOrder /\ ReadersAreFresh)'
  <2>1. TypeOK'
    <3>1. sv[t] \in 1..super_version
      BY <1>5 DEF Return, TypeOK, ReadersAreFresh
    <3>2. local_sv' \in [Thread -> {kSVObsolete, kSVInUse} \union 1..super_version]
      BY <1>5, <3>1 DEF Return, TypeOK
    <3> QED BY <1>5, <3>2 DEF Return, Goto, TypeOK
  <2>2. CopiesAreCurrent'
    BY <1>5 DEF Return, Goto, TypeOK, CopiesAreCurrent, InstallerInOrder
  <2>3. InstallerInOrder'
    BY <1>5 DEF Return, Goto, TypeOK, InstallerInOrder
  <2>4. ReadersAreFresh'
    BY <1>5 DEF Return, Goto, TypeOK, CopiesAreCurrent, InstallerInOrder, ReadersAreFresh
  <2> QED BY <2>1, <2>2, <2>3, <2>4
<1>6. ASSUME NEW t \in Thread, Release(t)
     PROVE  (TypeOK /\ CopiesAreCurrent /\ InstallerInOrder /\ ReadersAreFresh)'
  <2>1. TypeOK'
    BY <1>6 DEF Release, Goto, Ref, Unref, TypeOK, CopiesAreCurrent, CleanupIsDue, ReadersAreFresh
  <2>2. CopiesAreCurrent'
    BY <1>6 DEF Release, Goto, TypeOK, CopiesAreCurrent, InstallerInOrder
  <2>3. InstallerInOrder'
    BY <1>6 DEF Release, Goto, TypeOK, InstallerInOrder
  <2>4. ReadersAreFresh'
    BY <1>6 DEF Release, Goto, TypeOK, CopiesAreCurrent, InstallerInOrder, ReadersAreFresh
  <2> QED BY <2>1, <2>2, <2>3, <2>4
<1>7. ASSUME NEW t \in Thread, DeleteIterator(t)
     PROVE  (TypeOK /\ CopiesAreCurrent /\ InstallerInOrder /\ ReadersAreFresh)'
  <2>1. TypeOK'
    <3>1. iterator[t] \in 1..super_version
      BY <1>7 DEF DeleteIterator, TypeOK
    <3>2. refs' \in [Version -> Int]
      BY <1>7, <3>1 DEF DeleteIterator, Unref, TypeOK
    <3>3. sv' \in [Thread -> 0..super_version] /\ iterator' \in [Thread -> 0..super_version]
      BY <1>7, <3>1 DEF DeleteIterator, TypeOK
    <3> QED BY <1>7, <3>2, <3>3 DEF DeleteIterator, Goto, TypeOK
  <2>2. CopiesAreCurrent'
    BY <1>7 DEF DeleteIterator, Goto, TypeOK, CopiesAreCurrent, InstallerInOrder
  <2>3. InstallerInOrder'
    BY <1>7 DEF DeleteIterator, Goto, TypeOK, InstallerInOrder
  <2>4. ReadersAreFresh'
    BY <1>7 DEF DeleteIterator, Goto, TypeOK, CopiesAreCurrent, InstallerInOrder, ReadersAreFresh
  <2> QED BY <2>1, <2>2, <2>3, <2>4
<1>8. ASSUME NEW t \in Thread, Cleanup(t)
     PROVE  (TypeOK /\ CopiesAreCurrent /\ InstallerInOrder /\ ReadersAreFresh)'
  <2>1. TypeOK'
    BY <1>8 DEF Cleanup, Goto, Ref, Unref, TypeOK, CopiesAreCurrent, CleanupIsDue, ReadersAreFresh
  <2>2. CopiesAreCurrent'
    BY <1>8 DEF Cleanup, Goto, TypeOK, CopiesAreCurrent, InstallerInOrder
  <2>3. InstallerInOrder'
    BY <1>8 DEF Cleanup, Goto, TypeOK, InstallerInOrder
  <2>4. ReadersAreFresh'
    BY <1>8 DEF Cleanup, Goto, TypeOK, CopiesAreCurrent, InstallerInOrder, ReadersAreFresh
  <2> QED BY <2>1, <2>2, <2>3, <2>4
<1>9. ASSUME NEW t \in Thread, OnThreadExit(t)
     PROVE  (TypeOK /\ CopiesAreCurrent /\ InstallerInOrder /\ ReadersAreFresh)'
  <2>1. TypeOK'
    <3>1. local_sv[t] \in {kSVObsolete} \union 1..super_version
      BY <1>9 DEF OnThreadExit, TypeOK, CopiesAreCurrent
    <3>2. refs' \in [Version -> Int]
      BY <1>9, <3>1 DEF OnThreadExit, Unref, TypeOK
    <3> QED BY <1>9, <3>2 DEF OnThreadExit, Goto, TypeOK
  <2>2. CopiesAreCurrent'
    BY <1>9 DEF OnThreadExit, Goto, TypeOK, CopiesAreCurrent, InstallerInOrder
  <2>3. InstallerInOrder'
    BY <1>9 DEF OnThreadExit, Goto, TypeOK, InstallerInOrder
  <2>4. ReadersAreFresh'
    BY <1>9 DEF OnThreadExit, Goto, TypeOK, CopiesAreCurrent, InstallerInOrder, ReadersAreFresh
  <2> QED BY <2>1, <2>2, <2>3, <2>4
<1>10. CASE Install
  <2>1. TypeOK'
    BY <1>10 DEF Install, Unref, TypeOK, CopiesAreCurrent, InstallerInOrder
  <2>2. CopiesAreCurrent'
    BY <1>10 DEF Install, TypeOK, CopiesAreCurrent, InstallerInOrder
  <2>3. InstallerInOrder'
    BY <1>10 DEF Install, TypeOK, CopiesAreCurrent, InstallerInOrder
  <2>4. ReadersAreFresh'
    BY <1>10 DEF Install, TypeOK, ReadersAreFresh
  <2> QED BY <2>1, <2>2, <2>3, <2>4
<1>11. CASE BeginScrape
  <2>1. TypeOK'
    BY <1>11 DEF BeginScrape, Unref, TypeOK, CopiesAreCurrent, InstallerInOrder
  <2>2. CopiesAreCurrent'
    BY <1>11 DEF BeginScrape, TypeOK, CopiesAreCurrent, InstallerInOrder
  <2>3. InstallerInOrder'
    BY <1>11 DEF BeginScrape, TypeOK, CopiesAreCurrent, InstallerInOrder
  <2>4. ReadersAreFresh'
    BY <1>11 DEF BeginScrape, TypeOK, ReadersAreFresh
  <2> QED BY <2>1, <2>2, <2>3, <2>4
<1>12. ASSUME NEW t \in Thread, Scrape(t)
     PROVE  (TypeOK /\ CopiesAreCurrent /\ InstallerInOrder /\ ReadersAreFresh)'
  <2>1. TypeOK'
    <3>1. local_sv' \in [Thread -> {kSVObsolete, kSVInUse} \union 1..super_version]
      BY <1>12 DEF Scrape, TypeOK
    <3>2. local_sv[t] \notin {kSVObsolete, kSVInUse} => local_sv[t] = super_version - 1
      BY <1>12 DEF Scrape, CopiesAreCurrent
    <3>3. scraped' \subseteq Thread \X {super_version - 1}
      BY <1>12, <3>2 DEF Scrape, TypeOK
    <3> QED BY <1>12, <3>1, <3>3 DEF Scrape, TypeOK
  <2>2. CopiesAreCurrent'
    BY <1>12 DEF Scrape, TypeOK, CopiesAreCurrent, InstallerInOrder
  <2>3. InstallerInOrder'
    BY <1>12 DEF Scrape, TypeOK, CopiesAreCurrent, InstallerInOrder
  <2>4. ReadersAreFresh'
    BY <1>12 DEF Scrape, TypeOK, ReadersAreFresh
  <2> QED BY <2>1, <2>2, <2>3, <2>4
<1>13. CASE UnrefScraped
  <2>1. TypeOK'
    <3>1. PICK p \in scraped : scraped' = scraped \ {p} /\ refs' = [refs EXCEPT ![p[2]] = @ - 1]
      BY <1>13 DEF UnrefScraped, Unref
    <3>2. p[2] = super_version - 1 /\ p[2] \in Version
      BY <1>13 DEF UnrefScraped, InstallerInOrder, TypeOK
    <3>3. refs' \in [Version -> Int]
      BY <3>1, <3>2 DEF TypeOK
    <3>4. scraped' \subseteq scraped
      BY <3>1
    <3> QED BY <1>13, <3>3, <3>4 DEF UnrefScraped, TypeOK
  <2>2. CopiesAreCurrent'
    BY <1>13 DEF UnrefScraped, TypeOK, CopiesAreCurrent, InstallerInOrder
  <2>3. InstallerInOrder'
    BY <1>13 DEF UnrefScraped, TypeOK, CopiesAreCurrent, InstallerInOrder
  <2>4. ReadersAreFresh'
    BY <1>13 DEF UnrefScraped, TypeOK, ReadersAreFresh
  <2> QED BY <2>1, <2>2, <2>3, <2>4
<1>14. CASE UnrefOld
  <2>1. TypeOK'
    BY <1>14 DEF UnrefOld, Unref, TypeOK, CopiesAreCurrent, InstallerInOrder
  <2>2. CopiesAreCurrent'
    BY <1>14 DEF UnrefOld, TypeOK, CopiesAreCurrent, InstallerInOrder
  <2>3. InstallerInOrder'
    BY <1>14 DEF UnrefOld, TypeOK, CopiesAreCurrent, InstallerInOrder
  <2>4. ReadersAreFresh'
    BY <1>14 DEF UnrefOld, TypeOK, ReadersAreFresh
  <2> QED BY <2>1, <2>2, <2>3, <2>4
<1>15. CASE UNCHANGED vars
  BY <1>15 DEF vars, TypeOK, CopiesAreCurrent, InstallerInOrder, ReadersAreFresh
<1> QED
  BY <1>1, <1>2, <1>3, <1>4, <1>5, <1>6, <1>7, <1>8, <1>9, <1>10, <1>11, <1>12, <1>13, <1>14, <1>15 DEF Next, Reader, Installer

-----------------------------------------------------------------------------
(* The count of the owners.                                                *)

\* A set of threads can be counted: the owners are threads, and there are
\* finitely many of them.
LEMMA ThreadsAreCounted ==
    ASSUME NEW S \in SUBSET Thread
    PROVE  IsFiniteSet(S) /\ Cardinality(S) \in Nat /\ (Cardinality(S) = 0 <=> S = {})
BY SuperVersionAssumption, FS_Subset, FS_CardinalityType, FS_EmptySet

\* One more owner is one more to count (SuperVersion::Ref).
LEMMA OneMore ==
    ASSUME NEW S \in SUBSET Thread, NEW t \in Thread, t \notin S
    PROVE  Cardinality(S \union {t}) = Cardinality(S) + 1
BY ThreadsAreCounted, FS_AddElement

\* One owner less is one less to count (SuperVersion::Unref).
LEMMA OneLess ==
    ASSUME NEW S \in SUBSET Thread, NEW t \in S
    PROVE  Cardinality(S \ {t}) = Cardinality(S) - 1
BY ThreadsAreCounted, FS_RemoveElement

\* The owners of a superversion are sets of threads, before and after a step.
LEMMA OwnersAreThreads ==
    ASSUME NEW v
    PROVE  /\ Caching(v) \in SUBSET Thread /\ Reading(v) \in SUBSET Thread
           /\ Pinning(v) \in SUBSET Thread /\ Scraping(v) \in SUBSET Thread
BY DEF Caching, Reading, Pinning, Scraping

\* The counts are natural numbers.
LEMMA CountsAreNatural ==
    ASSUME NEW v
    PROVE  /\ Cardinality(Caching(v)) \in Nat /\ Cardinality(Reading(v)) \in Nat
           /\ Cardinality(Pinning(v)) \in Nat /\ Cardinality(Scraping(v)) \in Nat
           /\ Current(v) \in 0..1 /\ Replaced(v) \in 0..1
BY OwnersAreThreads, ThreadsAreCounted DEF Current, Replaced

\* Every step of a reader and of InstallSuperVersion changes refs by what it
\* adds to the owners or takes from them.
LEMMA RefsAreKept ==
    Inv /\ [Next]_vars => RefsCountOwners'
<1> SUFFICES ASSUME Inv, [Next]_vars PROVE RefsCountOwners'
    OBVIOUS
<1> USE SuperVersionAssumption DEF Inv, Version, MutexFree, kSVObsolete, kSVInUse
<1>1. ASSUME NEW t \in Thread, Swap(t)
     PROVE  RefsCountOwners'
  <2>1. \A v \in Version : /\ Pinning(v)' = Pinning(v) /\ Scraping(v)' = Scraping(v)
                           /\ Current(v)' = Current(v) /\ Replaced(v)' = Replaced(v)
    BY <1>1 DEF Swap, Pinning, Scraping, Current, Replaced
  <2>2. CASE local_sv[t] = kSVObsolete
    <3>1. \A v \in Version : Caching(v)' = Caching(v) /\ Reading(v)' = Reading(v)
      BY <1>1, <2>2 DEF Swap, Goto, TypeOK, Caching, Reading, HasRead
    <3> QED BY <1>1, <2>1, <3>1 DEF Swap, RefsCountOwners, Owners
  <2>3. CASE local_sv[t] # kSVObsolete
    <3>2. ASSUME NEW v \in Version, v # local_sv[t]
         PROVE  refs'[v] = Owners(v)'
      <4>1. Caching(v)' = Caching(v)
        BY <1>1, <3>2 DEF Swap, TypeOK, Caching
      <4>2. Reading(v)' = Reading(v)
        BY <1>1, <2>3, <3>2 DEF Swap, Goto, TypeOK, Reading, HasRead
      <4> QED BY <1>1, <2>1, <4>1, <4>2 DEF Swap, RefsCountOwners, Owners
    <3>3. ASSUME NEW v \in Version, v = local_sv[t]
         PROVE  refs'[v] = Owners(v)'
      <4>1. t \in Caching(v) /\ Caching(v)' = Caching(v) \ {t}
        BY <1>1, <2>3, <3>3 DEF Swap, TypeOK, Caching
      <4>2. t \notin Reading(v) /\ Reading(v)' = Reading(v) \union {t}
        BY <1>1, <2>3, <3>3 DEF Swap, Goto, TypeOK, Reading, HasRead
      <4>3. Cardinality(Caching(v)') = Cardinality(Caching(v)) - 1
        BY <4>1, OneLess, OwnersAreThreads
      <4>4. Cardinality(Reading(v)') = Cardinality(Reading(v)) + 1
        BY <4>2, OneMore, OwnersAreThreads
      <4> QED BY <1>1, <2>1, <4>3, <4>4, CountsAreNatural DEF Swap, RefsCountOwners, Owners
    <3> QED BY <3>2, <3>3 DEF RefsCountOwners
  <2> QED BY <2>2, <2>3
<1>2. ASSUME NEW t \in Thread, RefCurrent(t)
     PROVE  RefsCountOwners'
  <2>1. \A v \in Version : /\ Caching(v)' = Caching(v) /\ Pinning(v)' = Pinning(v) /\ Scraping(v)' = Scraping(v)
                             /\ Current(v)' = Current(v) /\ Replaced(v)' = Replaced(v)
    BY <1>2 DEF RefCurrent, Goto, TypeOK, Caching, Pinning, Scraping, Current, Replaced
  <2>2. ASSUME NEW v \in Version, v # super_version
       PROVE  refs'[v] = Owners(v)'
    <3>1. Reading(v)' = Reading(v)
      BY <1>2, <2>2 DEF RefCurrent, Goto, Ref, Unref, TypeOK, Reading, HasRead
    <3>2. refs'[v] = refs[v]
      BY <1>2, <2>2 DEF RefCurrent, Ref, Unref, TypeOK
    <3> QED BY <2>1, <3>1, <3>2 DEF RefsCountOwners, Owners
  <2>3. ASSUME NEW v \in Version, v = super_version
       PROVE  refs'[v] = Owners(v)'
    <3>1. t \notin Reading(v) /\ Reading(v)' = Reading(v) \union {t}
      BY <1>2, <2>3 DEF RefCurrent, Goto, TypeOK, Reading, HasRead
    <3>2. Cardinality(Reading(v)') = Cardinality(Reading(v)) + 1
      BY <3>1, OneMore, OwnersAreThreads
    <3>3. refs'[v] = refs[v] + 1
      BY <1>2, <2>3 DEF RefCurrent, Ref, Unref, TypeOK
    <3> QED BY <2>1, <3>2, <3>3, CountsAreNatural DEF RefsCountOwners, Owners
  <2> QED BY <2>2, <2>3 DEF RefsCountOwners
<1>3. ASSUME NEW t \in Thread, Get(t)
     PROVE  RefsCountOwners'
  <2>1. \A v \in Version : /\ Caching(v)' = Caching(v) /\ Reading(v)' = Reading(v)
                           /\ Pinning(v)' = Pinning(v) /\ Scraping(v)' = Scraping(v)
                           /\ Current(v)' = Current(v) /\ Replaced(v)' = Replaced(v)
    BY <1>3 DEF Get, Goto, TypeOK, Caching, Reading, HasRead, Pinning, Scraping, Current, Replaced
  <2> QED BY <1>3, <2>1 DEF Get, RefsCountOwners, Owners
<1>4. ASSUME NEW t \in Thread, NewIterator(t)
     PROVE  RefsCountOwners'
  <2>1. \A v \in Version : /\ Caching(v)' = Caching(v) /\ Reading(v)' = Reading(v) /\ Scraping(v)' = Scraping(v)
                             /\ Current(v)' = Current(v) /\ Replaced(v)' = Replaced(v)
    BY <1>4 DEF NewIterator, Goto, TypeOK, Caching, Reading, Scraping, HasRead, Current, Replaced
  <2>2. ASSUME NEW v \in Version, v # sv[t]
       PROVE  refs'[v] = Owners(v)'
    <3>1. Pinning(v)' = Pinning(v)
      BY <1>4, <2>2 DEF NewIterator, Goto, Ref, Unref, TypeOK, Pinning
    <3>2. refs'[v] = refs[v]
      BY <1>4, <2>2 DEF NewIterator, Ref, Unref, TypeOK
    <3> QED BY <2>1, <3>1, <3>2 DEF RefsCountOwners, Owners
  <2>3. ASSUME NEW v \in Version, v = sv[t]
       PROVE  refs'[v] = Owners(v)'
    <3>1. t \notin Pinning(v) /\ Pinning(v)' = Pinning(v) \union {t}
      BY <1>4, <2>3 DEF NewIterator, Goto, TypeOK, Pinning
    <3>2. Cardinality(Pinning(v)') = Cardinality(Pinning(v)) + 1
      BY <3>1, OneMore, OwnersAreThreads
    <3>3. refs'[v] = refs[v] + 1
      BY <1>4, <2>3 DEF NewIterator, Ref, Unref, TypeOK
    <3> QED BY <2>1, <3>2, <3>3, CountsAreNatural DEF RefsCountOwners, Owners
  <2> QED BY <2>2, <2>3 DEF RefsCountOwners
<1>5. ASSUME NEW t \in Thread, Return(t)
     PROVE  RefsCountOwners'
  <2>1. CASE local_sv[t] = kSVInUse
    <3>1. \A v \in Version : /\ Pinning(v)' = Pinning(v) /\ Scraping(v)' = Scraping(v)
                               /\ Current(v)' = Current(v) /\ Replaced(v)' = Replaced(v)
      BY <1>5, <2>1 DEF Return, Goto, TypeOK, Pinning, Scraping, Current, Replaced
    <3>2. ASSUME NEW v \in Version, v # sv[t]
         PROVE  refs'[v] = Owners(v)'
      <4>1. Caching(v)' = Caching(v) /\ Reading(v)' = Reading(v)
        BY <1>5, <2>1, <3>2 DEF Return, Goto, Ref, Unref, TypeOK, Caching, Reading, HasRead
      <4>2. refs'[v] = refs[v]
        BY <1>5, <2>1, <3>2 DEF Return, Ref, Unref, TypeOK
      <4> QED BY <3>1, <4>1, <4>2 DEF RefsCountOwners, Owners
    <3>3. ASSUME NEW v \in Version, v = sv[t]
         PROVE  refs'[v] = Owners(v)'
      <4>1. t \notin Caching(v) /\ Caching(v)' = Caching(v) \union {t}
        BY <1>5, <2>1, <3>3 DEF Return, Goto, TypeOK, Caching
      <4>2. Cardinality(Caching(v)') = Cardinality(Caching(v)) + 1
        BY <4>1, OneMore, OwnersAreThreads
      <4>3. t \in Reading(v) /\ Reading(v)' = Reading(v) \ {t}
        BY <1>5, <2>1, <3>3 DEF Return, Goto, TypeOK, Reading, HasRead
      <4>4. Cardinality(Reading(v)') = Cardinality(Reading(v)) - 1
        BY <4>3, OneLess, OwnersAreThreads
      <4>5. refs'[v] = refs[v]
        BY <1>5, <2>1, <3>3 DEF Return, Ref, Unref, TypeOK
      <4> QED BY <3>1, <4>2, <4>4, <4>5, CountsAreNatural DEF RefsCountOwners, Owners
    <3> QED BY <3>2, <3>3 DEF RefsCountOwners
  <2>2. CASE local_sv[t] # kSVInUse
    <3>1. \A v \in Version : /\ Caching(v)' = Caching(v) /\ Reading(v)' = Reading(v)
                               /\ Pinning(v)' = Pinning(v) /\ Scraping(v)' = Scraping(v)
                               /\ Current(v)' = Current(v) /\ Replaced(v)' = Replaced(v)
      BY <1>5, <2>2 DEF Return, Goto, TypeOK, Caching, Reading, HasRead, Pinning, Scraping, Current, Replaced
    <3> QED BY <1>5, <2>2, <3>1 DEF Return, RefsCountOwners, Owners
  <2> QED BY <2>1, <2>2
<1>6. ASSUME NEW t \in Thread, Release(t)
     PROVE  RefsCountOwners'
  <2>1. \A v \in Version : /\ Caching(v)' = Caching(v) /\ Pinning(v)' = Pinning(v) /\ Scraping(v)' = Scraping(v)
                             /\ Current(v)' = Current(v) /\ Replaced(v)' = Replaced(v)
    BY <1>6 DEF Release, Goto, TypeOK, Caching, Pinning, Scraping, Current, Replaced
  <2>2. ASSUME NEW v \in Version, v # sv[t]
       PROVE  refs'[v] = Owners(v)'
    <3>1. Reading(v)' = Reading(v)
      BY <1>6, <2>2 DEF Release, Goto, Ref, Unref, TypeOK, Reading, HasRead
    <3>2. refs'[v] = refs[v]
      BY <1>6, <2>2 DEF Release, Ref, Unref, TypeOK
    <3> QED BY <2>1, <3>1, <3>2 DEF RefsCountOwners, Owners
  <2>3. ASSUME NEW v \in Version, v = sv[t]
       PROVE  refs'[v] = Owners(v)'
    <3>1. t \in Reading(v) /\ Reading(v)' = Reading(v) \ {t}
      BY <1>6, <2>3 DEF Release, Goto, TypeOK, Reading, HasRead
    <3>2. Cardinality(Reading(v)') = Cardinality(Reading(v)) - 1
      BY <3>1, OneLess, OwnersAreThreads
    <3>3. refs'[v] = refs[v] - 1
      BY <1>6, <2>3 DEF Release, Ref, Unref, TypeOK
    <3> QED BY <2>1, <3>2, <3>3, CountsAreNatural DEF RefsCountOwners, Owners
  <2> QED BY <2>2, <2>3 DEF RefsCountOwners
<1>7. ASSUME NEW t \in Thread, DeleteIterator(t)
     PROVE  RefsCountOwners'
  <2>1. \A v \in Version : /\ Caching(v)' = Caching(v) /\ Reading(v)' = Reading(v) /\ Scraping(v)' = Scraping(v)
                             /\ Current(v)' = Current(v) /\ Replaced(v)' = Replaced(v)
    BY <1>7 DEF DeleteIterator, Goto, TypeOK, Caching, Reading, Scraping, HasRead, Current, Replaced
  <2>2. ASSUME NEW v \in Version, v # iterator[t]
       PROVE  refs'[v] = Owners(v)'
    <3>1. Pinning(v)' = Pinning(v)
      BY <1>7, <2>2 DEF DeleteIterator, Goto, Ref, Unref, TypeOK, Pinning
    <3>2. refs'[v] = refs[v]
      BY <1>7, <2>2 DEF DeleteIterator, Ref, Unref, TypeOK
    <3> QED BY <2>1, <3>1, <3>2 DEF RefsCountOwners, Owners
  <2>3. ASSUME NEW v \in Version, v = iterator[t]
       PROVE  refs'[v] = Owners(v)'
    <3>1. t \in Pinning(v) /\ Pinning(v)' = Pinning(v) \ {t}
      BY <1>7, <2>3 DEF DeleteIterator, Goto, TypeOK, Pinning
    <3>2. Cardinality(Pinning(v)') = Cardinality(Pinning(v)) - 1
      BY <3>1, OneLess, OwnersAreThreads
    <3>3. refs'[v] = refs[v] - 1
      BY <1>7, <2>3 DEF DeleteIterator, Ref, Unref, TypeOK
    <3> QED BY <2>1, <3>2, <3>3, CountsAreNatural DEF RefsCountOwners, Owners
  <2> QED BY <2>2, <2>3 DEF RefsCountOwners
<1>8. ASSUME NEW t \in Thread, Cleanup(t)
     PROVE  RefsCountOwners'
  <2>1. \A v \in Version : /\ Caching(v)' = Caching(v) /\ Reading(v)' = Reading(v)
                           /\ Pinning(v)' = Pinning(v) /\ Scraping(v)' = Scraping(v)
                           /\ Current(v)' = Current(v) /\ Replaced(v)' = Replaced(v)
    BY <1>8 DEF Cleanup, Goto, TypeOK, Caching, Reading, HasRead, Pinning, Scraping, Current, Replaced
  <2> QED BY <1>8, <2>1 DEF Cleanup, RefsCountOwners, Owners
<1>9. ASSUME NEW t \in Thread, OnThreadExit(t)
     PROVE  RefsCountOwners'
  <2>1. CASE local_sv[t] = kSVObsolete
    <3>1. \A v \in Version : /\ Caching(v)' = Caching(v) /\ Reading(v)' = Reading(v)
                               /\ Pinning(v)' = Pinning(v) /\ Scraping(v)' = Scraping(v)
                               /\ Current(v)' = Current(v) /\ Replaced(v)' = Replaced(v)
      BY <1>9, <2>1 DEF OnThreadExit, Goto, TypeOK, Caching, Reading, HasRead, Pinning, Scraping, Current, Replaced
    <3> QED BY <1>9, <2>1, <3>1 DEF OnThreadExit, RefsCountOwners, Owners
  <2>2. CASE local_sv[t] # kSVObsolete
    <3>1. \A v \in Version : /\ Reading(v)' = Reading(v) /\ Pinning(v)' = Pinning(v) /\ Scraping(v)' = Scraping(v)
                               /\ Current(v)' = Current(v) /\ Replaced(v)' = Replaced(v)
      BY <1>9, <2>2 DEF OnThreadExit, Goto, TypeOK, Reading, Pinning, Scraping, HasRead, Current, Replaced
    <3>2. ASSUME NEW v \in Version, v # local_sv[t]
         PROVE  refs'[v] = Owners(v)'
      <4>1. Caching(v)' = Caching(v)
        BY <1>9, <2>2, <3>2 DEF OnThreadExit, Goto, Ref, Unref, TypeOK, Caching
      <4>2. refs'[v] = refs[v]
        BY <1>9, <2>2, <3>2 DEF OnThreadExit, Ref, Unref, TypeOK
      <4> QED BY <3>1, <4>1, <4>2 DEF RefsCountOwners, Owners
    <3>3. ASSUME NEW v \in Version, v = local_sv[t]
         PROVE  refs'[v] = Owners(v)'
      <4>1. t \in Caching(v) /\ Caching(v)' = Caching(v) \ {t}
        BY <1>9, <2>2, <3>3 DEF OnThreadExit, Goto, TypeOK, Caching
      <4>2. Cardinality(Caching(v)') = Cardinality(Caching(v)) - 1
        BY <4>1, OneLess, OwnersAreThreads
      <4>3. refs'[v] = refs[v] - 1
        BY <1>9, <2>2, <3>3 DEF OnThreadExit, Ref, Unref, TypeOK
      <4> QED BY <3>1, <4>2, <4>3, CountsAreNatural DEF RefsCountOwners, Owners
    <3> QED BY <3>2, <3>3 DEF RefsCountOwners
  <2> QED BY <2>1, <2>2
<1>10. CASE Install
  <2>1. \A v \in Version : /\ Caching(v)' = Caching(v) /\ Reading(v)' = Reading(v)
                           /\ Pinning(v)' = Pinning(v) /\ Scraping(v)' = Scraping(v)
    BY <1>10 DEF Install, Caching, Reading, HasRead, Pinning, Scraping
  <2>2. ASSUME NEW v \in Version, v = super_version + 1
       PROVE  refs'[v] = Owners(v)'
    <3>1. Caching(v) = {} /\ Reading(v) = {} /\ Pinning(v) = {} /\ Scraping(v) = {}
      <4>0. ASSUME NEW u \in Thread PROVE local_sv[u] # v /\ iterator[u] # v
        <5>1. local_sv[u] \in {kSVObsolete, kSVInUse} \union 1..super_version /\ iterator[u] \in 0..super_version
          BY DEF TypeOK
        <5> QED BY <2>2, <5>1 DEF TypeOK
      <4>1. Caching(v) = {} /\ Pinning(v) = {}
        BY <4>0 DEF Caching, Pinning
      <4>2. Reading(v) = {}
        BY <2>2 DEF TypeOK, Reading
      <4>3. Scraping(v) = {}
        BY <1>10 DEF Install, InstallerInOrder, Scraping
      <4> QED BY <4>1, <4>2, <4>3
    <3>2. refs'[v] = 1 /\ Current(v)' = 1 /\ Replaced(v)' = 0
      BY <1>10, <2>2 DEF Install, TypeOK, Current, Replaced
    <3> QED BY <2>1, <3>1, <3>2, FS_EmptySet DEF Owners
  <2>3. ASSUME NEW v \in Version, v # super_version + 1
       PROVE  refs'[v] = Owners(v)'
    <3>1. refs'[v] = refs[v]
      BY <1>10, <2>3 DEF Install, TypeOK
    <3>2. Current(v)' + Replaced(v)' = Current(v) + Replaced(v)
      BY <1>10, <2>3 DEF Install, TypeOK, Current, Replaced
    <3>3. Current(v)' \in 0..1 /\ Replaced(v)' \in 0..1
      BY DEF Current, Replaced
    <3> QED BY <2>1, <3>1, <3>2, <3>3, CountsAreNatural DEF RefsCountOwners, Owners
  <2> QED BY <2>2, <2>3 DEF RefsCountOwners
<1>11. CASE BeginScrape
  <2>1. \A v \in Version : /\ Caching(v)' = Caching(v) /\ Reading(v)' = Reading(v)
                           /\ Pinning(v)' = Pinning(v) /\ Scraping(v)' = Scraping(v)
                           /\ Current(v)' = Current(v) /\ Replaced(v)' = Replaced(v)
    BY <1>11 DEF BeginScrape, Goto, TypeOK, Caching, Reading, HasRead, Pinning, Scraping, Current, Replaced
  <2> QED BY <1>11, <2>1 DEF BeginScrape, RefsCountOwners, Owners
<1>12. ASSUME NEW t \in Thread, Scrape(t)
     PROVE  RefsCountOwners'
  <2>1. CASE local_sv[t] \in {kSVObsolete, kSVInUse}
    <3>1. \A v \in Version : /\ Caching(v)' = Caching(v) /\ Reading(v)' = Reading(v)
                               /\ Pinning(v)' = Pinning(v) /\ Scraping(v)' = Scraping(v)
                               /\ Current(v)' = Current(v) /\ Replaced(v)' = Replaced(v)
      BY <1>12, <2>1 DEF Scrape, Goto, TypeOK, Caching, Reading, HasRead, Pinning, Scraping, Current, Replaced
    <3> QED BY <1>12, <2>1, <3>1 DEF Scrape, RefsCountOwners, Owners
  <2>2. CASE local_sv[t] \notin {kSVObsolete, kSVInUse}
    <3>1. \A v \in Version : /\ Reading(v)' = Reading(v) /\ Pinning(v)' = Pinning(v)
                               /\ Current(v)' = Current(v) /\ Replaced(v)' = Replaced(v)
      BY <1>12, <2>2 DEF Scrape, Goto, TypeOK, Reading, Pinning, HasRead, Current, Replaced
    <3>2. ASSUME NEW v \in Version, v # local_sv[t]
         PROVE  refs'[v] = Owners(v)'
      <4>1. Caching(v)' = Caching(v) /\ Scraping(v)' = Scraping(v)
        BY <1>12, <2>2, <3>2 DEF Scrape, Goto, Ref, Unref, TypeOK, Caching, Scraping
      <4>2. refs'[v] = refs[v]
        BY <1>12, <2>2, <3>2 DEF Scrape, Ref, Unref, TypeOK
      <4> QED BY <3>1, <4>1, <4>2 DEF RefsCountOwners, Owners
    <3>3. ASSUME NEW v \in Version, v = local_sv[t]
         PROVE  refs'[v] = Owners(v)'
      <4>1. t \in Caching(v) /\ Caching(v)' = Caching(v) \ {t}
        BY <1>12, <2>2, <3>3 DEF Scrape, Goto, TypeOK, CopiesAreCurrent, InstallerInOrder, Caching
      <4>2. Cardinality(Caching(v)') = Cardinality(Caching(v)) - 1
        BY <4>1, OneLess, OwnersAreThreads
      <4>3. t \notin Scraping(v) /\ Scraping(v)' = Scraping(v) \union {t}
        BY <1>12, <2>2, <3>3 DEF Scrape, Goto, TypeOK, CopiesAreCurrent, InstallerInOrder, Scraping
      <4>4. Cardinality(Scraping(v)') = Cardinality(Scraping(v)) + 1
        BY <4>3, OneMore, OwnersAreThreads
      <4>5. refs'[v] = refs[v]
        BY <1>12, <2>2, <3>3 DEF Scrape, Ref, Unref, TypeOK
      <4> QED BY <3>1, <4>2, <4>4, <4>5, CountsAreNatural DEF RefsCountOwners, Owners
    <3> QED BY <3>2, <3>3 DEF RefsCountOwners
  <2> QED BY <2>1, <2>2
<1>13. CASE UnrefScraped
  <2> PICK p \in scraped : scraped' = scraped \ {p} /\ Unref(p[2])
    BY <1>13 DEF UnrefScraped
  <2>0. p = <<p[1], p[2]>> /\ p[1] \in Thread /\ p[2] = super_version - 1
    BY DEF TypeOK
  <2>1. \A v \in Version : /\ Caching(v)' = Caching(v) /\ Reading(v)' = Reading(v) /\ Pinning(v)' = Pinning(v)
                             /\ Current(v)' = Current(v) /\ Replaced(v)' = Replaced(v)
    BY <1>13, <2>0 DEF UnrefScraped, Goto, TypeOK, Caching, Reading, Pinning, HasRead, Current, Replaced
  <2>2. ASSUME NEW v \in Version, v # p[2]
       PROVE  refs'[v] = Owners(v)'
    <3>1. Scraping(v)' = Scraping(v)
      BY <1>13, <2>0, <2>2 DEF UnrefScraped, Goto, Ref, Unref, TypeOK, Scraping
    <3>2. refs'[v] = refs[v]
      BY <1>13, <2>0, <2>2 DEF UnrefScraped, Ref, Unref, TypeOK
    <3> QED BY <2>1, <3>1, <3>2 DEF RefsCountOwners, Owners
  <2>3. ASSUME NEW v \in Version, v = p[2]
       PROVE  refs'[v] = Owners(v)'
    <3>1. p[1] \in Scraping(v) /\ Scraping(v)' = Scraping(v) \ {p[1]}
      <4>1. \A u \in Thread : <<u, v>> = p <=> u = p[1]
        BY <2>0, <2>3
      <4> QED BY <2>0, <4>1 DEF Scraping
    <3>2. Cardinality(Scraping(v)') = Cardinality(Scraping(v)) - 1
      BY <3>1, OneLess, OwnersAreThreads
    <3>3. refs'[v] = refs[v] - 1
      BY <1>13, <2>0, <2>3 DEF UnrefScraped, Ref, Unref, TypeOK
    <3> QED BY <2>1, <3>2, <3>3, CountsAreNatural DEF RefsCountOwners, Owners
  <2> QED BY <2>2, <2>3 DEF RefsCountOwners
<1>14. CASE UnrefOld
  <2>1. \A v \in Version : /\ Caching(v)' = Caching(v) /\ Reading(v)' = Reading(v)
                           /\ Pinning(v)' = Pinning(v) /\ Scraping(v)' = Scraping(v)
                           /\ Current(v)' = Current(v)
    BY <1>14 DEF UnrefOld, Caching, Reading, HasRead, Pinning, Scraping, Current
  <2>2. \A v \in Version : IF v = super_version - 1 THEN refs'[v] = refs[v] - 1 /\ Replaced(v) = 1 /\ Replaced(v)' = 0
                                                  ELSE refs'[v] = refs[v] /\ Replaced(v)' = Replaced(v)
    BY <1>14 DEF UnrefOld, Unref, TypeOK, Replaced
  <2> QED BY <2>1, <2>2, CountsAreNatural DEF RefsCountOwners, Owners
<1>15. CASE UNCHANGED vars
  BY <1>15 DEF vars, RefsCountOwners, Owners, Caching, Reading, HasRead, Pinning, Scraping, Current, Replaced
<1> QED
  BY <1>1, <1>2, <1>3, <1>4, <1>5, <1>6, <1>7, <1>8, <1>9, <1>10, <1>11, <1>12, <1>13, <1>14, <1>15 DEF Next, Reader, Installer

-----------------------------------------------------------------------------
(* Who has a superversion keeps it alive.                                  *)

\* An owner is counted.  A pointer in thread-local storage, or one that Scrape
\* has taken out, is never alone: super_version_ has the superversion too, or
\* the install that replaces it has.
LEMMA OwnersAreCounted ==
    ASSUME Inv
    PROVE  /\ \A v \in Version : refs[v] \in Nat
           /\ refs[super_version] > 0
           /\ \A t \in Thread : HasRead(t) => refs[sv[t]] > Current(sv[t])
           /\ \A t \in Thread : iterator[t] # 0 => refs[iterator[t]] > Current(iterator[t])
           /\ \A t \in Thread : local_sv[t] \notin {kSVObsolete, kSVInUse} => refs[local_sv[t]] > 1
           /\ \A p \in scraped : refs[p[2]] > 1
           /\ installer # "idle" => refs[super_version - 1] > 0
<1> USE SuperVersionAssumption DEF Inv, Version, MutexFree, kSVObsolete, kSVInUse
<1>1. \A v \in Version : refs[v] = Owners(v)
  BY DEF RefsCountOwners
<1>2. \A v \in Version : refs[v] \in Nat
  BY <1>1, CountsAreNatural DEF Owners
<1>3. refs[super_version] > 0
  <2>1. super_version \in Version /\ Current(super_version) = 1
    BY DEF TypeOK, Current
  <2> QED BY <1>1, <2>1, CountsAreNatural DEF Owners
<1>4. ASSUME NEW t \in Thread, HasRead(t)
     PROVE  refs[sv[t]] > Current(sv[t])
  <2>1. sv[t] \in Version
    BY <1>4 DEF TypeOK, ReadersAreFresh
  <2>2. Cardinality(Reading(sv[t])) > 0
    <3>1. Reading(sv[t]) # {}
      BY <1>4 DEF Reading
    <3> QED BY <3>1, OwnersAreThreads, ThreadsAreCounted
  <2> QED BY <1>1, <2>1, <2>2, CountsAreNatural DEF Owners
<1>5. ASSUME NEW t \in Thread, iterator[t] # 0
     PROVE  refs[iterator[t]] > Current(iterator[t])
  <2>1. iterator[t] \in Version
    BY <1>5 DEF TypeOK
  <2>2. Cardinality(Pinning(iterator[t])) > 0
    <3>1. Pinning(iterator[t]) # {}
      BY DEF Pinning
    <3> QED BY <3>1, OwnersAreThreads, ThreadsAreCounted
  <2> QED BY <1>1, <2>1, <2>2, CountsAreNatural DEF Owners
<1>6. ASSUME NEW t \in Thread, local_sv[t] \notin {kSVObsolete, kSVInUse}
     PROVE  refs[local_sv[t]] > 1
  <2>1. local_sv[t] \in Version
    <3>1. local_sv[t] \in 1..super_version
      BY <1>6 DEF TypeOK
    <3> QED BY <3>1 DEF TypeOK
  <2>2. Cardinality(Caching(local_sv[t])) > 0
    <3>1. Caching(local_sv[t]) # {}
      BY DEF Caching
    <3> QED BY <3>1, OwnersAreThreads, ThreadsAreCounted
  <2>3. Current(local_sv[t]) + Replaced(local_sv[t]) > 0
    BY <1>6 DEF CopiesAreCurrent, Pending, Current, Replaced, TypeOK
  <2> QED BY <1>1, <2>1, <2>2, <2>3, CountsAreNatural DEF Owners
<1>7. ASSUME NEW p \in scraped
     PROVE  refs[p[2]] > 1
  <2>1. p = <<p[1], p[2]>> /\ p[1] \in Thread /\ p[2] = super_version - 1
    BY DEF TypeOK
  <2>2. installer # "idle" /\ p[2] \in Version
    BY <2>1 DEF InstallerInOrder, TypeOK
  <2>3. Cardinality(Scraping(p[2])) > 0
    <3>1. Scraping(p[2]) # {}
      BY <2>1 DEF Scraping
    <3> QED BY <3>1, OwnersAreThreads, ThreadsAreCounted
  <2>4. Replaced(p[2]) = 1
    BY <2>1, <2>2 DEF Replaced
  <2> QED BY <1>1, <2>2, <2>3, <2>4, CountsAreNatural DEF Owners
<1>8. ASSUME installer # "idle"
     PROVE  refs[super_version - 1] > 0
  <2>1. super_version - 1 \in Version /\ Replaced(super_version - 1) = 1
    BY <1>8 DEF InstallerInOrder, TypeOK, Replaced
  <2> QED BY <1>1, <2>1, CountsAreNatural DEF Owners
<1> QED BY <1>2, <1>3, <1>4, <1>5, <1>6, <1>7, <1>8

-----------------------------------------------------------------------------
(* Superversions without references.                                       *)

\* A superversion without references stays without, is freed once the cleanup
\* that is due is done, and none gets there in another way.
LEMMA CleanupIsKept ==
    Inv /\ [Next]_vars => CleanupIsDue'
<1> SUFFICES ASSUME Inv, [Next]_vars PROVE CleanupIsDue'
    OBVIOUS
<1> USE SuperVersionAssumption DEF Inv, Version, MutexFree, kSVObsolete, kSVInUse
<1>0. /\ \A v \in Version : refs[v] \in Nat
      /\ refs[super_version] > 0
      /\ \A t \in Thread : HasRead(t) => refs[sv[t]] > Current(sv[t])
      /\ \A t \in Thread : iterator[t] # 0 => refs[iterator[t]] > Current(iterator[t])
      /\ \A t \in Thread : local_sv[t] \notin {kSVObsolete, kSVInUse} => refs[local_sv[t]] > 1
      /\ \A p \in scraped : refs[p[2]] > 1
      /\ installer # "idle" => refs[super_version - 1] > 0
  BY OwnersAreCounted
<1>1. ASSUME NEW t \in Thread, Swap(t)
     PROVE  CleanupIsDue'
  <2>1. \A v \in freed' : refs'[v] = 0
    BY <1>0, <1>1 DEF Swap, Goto, TypeOK, CleanupIsDue
  <2>2. \A u \in Thread : pc'[u] = "cleanup" => sv'[u] \in 1..(super_version' - 1) /\ refs'[sv'[u]] = 0
    BY <1>0, <1>1 DEF Swap, Goto, TypeOK, CleanupIsDue
  <2>3. ASSUME NEW v \in 1..(super_version' - 1), refs'[v] = 0
       PROVE  v \in freed' \/ \E u \in Thread : pc'[u] = "cleanup" /\ sv'[u] = v
    BY <1>0, <1>1, <2>3 DEF Swap, Goto, TypeOK, CleanupIsDue
  <2> QED BY <2>1, <2>2, <2>3 DEF CleanupIsDue
<1>2. ASSUME NEW t \in Thread, RefCurrent(t)
     PROVE  CleanupIsDue'
  <2>1. \A v \in freed' : refs'[v] = 0
    BY <1>0, <1>2 DEF RefCurrent, Goto, Ref, TypeOK, CleanupIsDue
  <2>2. \A u \in Thread : pc'[u] = "cleanup" => sv'[u] \in 1..(super_version' - 1) /\ refs'[sv'[u]] = 0
    BY <1>0, <1>2 DEF RefCurrent, Goto, Ref, TypeOK, CleanupIsDue
  <2>3. ASSUME NEW v \in 1..(super_version' - 1), refs'[v] = 0
       PROVE  v \in freed' \/ \E u \in Thread : pc'[u] = "cleanup" /\ sv'[u] = v
    BY <1>0, <1>2, <2>3 DEF RefCurrent, Goto, Ref, TypeOK, CleanupIsDue
  <2> QED BY <2>1, <2>2, <2>3 DEF CleanupIsDue
<1>3. ASSUME NEW t \in Thread, Get(t)
     PROVE  CleanupIsDue'
  <2>1. \A v \in freed' : refs'[v] = 0
    BY <1>0, <1>3 DEF Get, Goto, TypeOK, CleanupIsDue
  <2>2. \A u \in Thread : pc'[u] = "cleanup" => sv'[u] \in 1..(super_version' - 1) /\ refs'[sv'[u]] = 0
    BY <1>0, <1>3 DEF Get, Goto, TypeOK, CleanupIsDue
  <2>3. ASSUME NEW v \in 1..(super_version' - 1), refs'[v] = 0
       PROVE  v \in freed' \/ \E u \in Thread : pc'[u] = "cleanup" /\ sv'[u] = v
    BY <1>0, <1>3, <2>3 DEF Get, Goto, TypeOK, CleanupIsDue
  <2> QED BY <2>1, <2>2, <2>3 DEF CleanupIsDue
<1>4. ASSUME NEW t \in Thread, NewIterator(t)
     PROVE  CleanupIsDue'
  <2>0. sv[t] \in 1..super_version /\ refs[sv[t]] \in Nat \ {0}
    <3>1. HasRead(t) /\ sv[t] \in 1..super_version
      BY <1>4 DEF NewIterator, HasRead, TypeOK, ReadersAreFresh
    <3>2. sv[t] \in Version /\ Current(sv[t]) \in Nat
      BY <3>1 DEF TypeOK, Current
    <3> QED BY <1>0, <3>1, <3>2
  <2>1. refs' = [refs EXCEPT ![sv[t]] = @ + 1]
    BY <1>4 DEF NewIterator, Ref
  <2>2. \A v \in freed' : refs'[v] = 0
    BY <1>4, <2>0, <2>1 DEF NewIterator, TypeOK, CleanupIsDue
  <2>3. \A u \in Thread : pc'[u] = "cleanup" => sv'[u] \in 1..(super_version' - 1) /\ refs'[sv'[u]] = 0
    BY <1>4, <2>0, <2>1 DEF NewIterator, Goto, Last, TypeOK, CleanupIsDue
  <2>4. ASSUME NEW v \in 1..(super_version' - 1), refs'[v] = 0
       PROVE  v \in freed' \/ \E u \in Thread : pc'[u] = "cleanup" /\ sv'[u] = v
    BY <1>4, <2>0, <2>1, <2>4 DEF NewIterator, Goto, Last, TypeOK, CleanupIsDue
  <2> QED BY <2>2, <2>3, <2>4 DEF CleanupIsDue
<1>5. ASSUME NEW t \in Thread, Return(t)
     PROVE  CleanupIsDue'
  <2>1. \A v \in freed' : refs'[v] = 0
    BY <1>0, <1>5 DEF Return, Goto, TypeOK, CleanupIsDue
  <2>2. \A u \in Thread : pc'[u] = "cleanup" => sv'[u] \in 1..(super_version' - 1) /\ refs'[sv'[u]] = 0
    BY <1>0, <1>5 DEF Return, Goto, TypeOK, CleanupIsDue
  <2>3. ASSUME NEW v \in 1..(super_version' - 1), refs'[v] = 0
       PROVE  v \in freed' \/ \E u \in Thread : pc'[u] = "cleanup" /\ sv'[u] = v
    BY <1>0, <1>5, <2>3 DEF Return, Goto, TypeOK, CleanupIsDue
  <2> QED BY <2>1, <2>2, <2>3 DEF CleanupIsDue
<1>6. ASSUME NEW t \in Thread, Release(t)
     PROVE  CleanupIsDue'
  <2>0. sv[t] \in 1..super_version /\ refs[sv[t]] \in Nat \ {0} /\ (sv[t] = super_version => refs[sv[t]] > 1)
    BY <1>0, <1>6 DEF Release, HasRead, Current, TypeOK, ReadersAreFresh
  <2>1. refs' = [refs EXCEPT ![sv[t]] = @ - 1]
    BY <1>6 DEF Release, Unref
  <2>2. \A v \in freed' : refs'[v] = 0
    BY <1>6, <2>0, <2>1 DEF Release, TypeOK, CleanupIsDue
  <2>3. \A u \in Thread : pc'[u] = "cleanup" => sv'[u] \in 1..(super_version' - 1) /\ refs'[sv'[u]] = 0
    BY <1>6, <2>0, <2>1 DEF Release, Goto, Last, TypeOK, CleanupIsDue
  <2>4. ASSUME NEW v \in 1..(super_version' - 1), refs'[v] = 0
       PROVE  v \in freed' \/ \E u \in Thread : pc'[u] = "cleanup" /\ sv'[u] = v
    BY <1>6, <2>0, <2>1, <2>4 DEF Release, Goto, Last, TypeOK, CleanupIsDue
  <2> QED BY <2>2, <2>3, <2>4 DEF CleanupIsDue
<1>7. ASSUME NEW t \in Thread, DeleteIterator(t)
     PROVE  CleanupIsDue'
  <2>0. iterator[t] \in 1..super_version /\ refs[iterator[t]] \in Nat \ {0} /\ (iterator[t] = super_version => refs[iterator[t]] > 1)
    <3>1. iterator[t] # 0 /\ iterator[t] \in 1..super_version
      BY <1>7 DEF DeleteIterator, TypeOK
    <3>2. iterator[t] \in Version /\ Current(iterator[t]) \in Nat
      BY <3>1 DEF TypeOK, Current
    <3>3. refs[iterator[t]] \in Nat /\ refs[iterator[t]] > Current(iterator[t])
      BY <1>0, <3>1, <3>2
    <3> QED BY <3>1, <3>2, <3>3 DEF Current
  <2>1. refs' = [refs EXCEPT ![iterator[t]] = @ - 1]
    BY <1>7 DEF DeleteIterator, Unref
  <2>2. \A v \in freed' : refs'[v] = 0
    BY <1>7, <2>0, <2>1 DEF DeleteIterator, TypeOK, CleanupIsDue
  <2>3. \A u \in Thread : pc'[u] = "cleanup" => sv'[u] \in 1..(super_version' - 1) /\ refs'[sv'[u]] = 0
    BY <1>7, <2>0, <2>1 DEF DeleteIterator, Goto, Last, TypeOK, CleanupIsDue
  <2>4. ASSUME NEW v \in 1..(super_version' - 1), refs'[v] = 0
       PROVE  v \in freed' \/ \E u \in Thread : pc'[u] = "cleanup" /\ sv'[u] = v
    BY <1>7, <2>0, <2>1, <2>4 DEF DeleteIterator, Goto, Last, TypeOK, CleanupIsDue
  <2> QED BY <2>2, <2>3, <2>4 DEF CleanupIsDue
<1>8. ASSUME NEW t \in Thread, Cleanup(t)
     PROVE  CleanupIsDue'
  <2>1. \A v \in freed' : refs'[v] = 0
    BY <1>0, <1>8 DEF Cleanup, Goto, TypeOK, CleanupIsDue
  <2>2. \A u \in Thread : pc'[u] = "cleanup" => sv'[u] \in 1..(super_version' - 1) /\ refs'[sv'[u]] = 0
    BY <1>0, <1>8 DEF Cleanup, Goto, TypeOK, CleanupIsDue
  <2>3. ASSUME NEW v \in 1..(super_version' - 1), refs'[v] = 0
       PROVE  v \in freed' \/ \E u \in Thread : pc'[u] = "cleanup" /\ sv'[u] = v
    BY <1>0, <1>8, <2>3 DEF Cleanup, Goto, TypeOK, CleanupIsDue
  <2> QED BY <2>1, <2>2, <2>3 DEF CleanupIsDue
<1>9. ASSUME NEW t \in Thread, OnThreadExit(t)
     PROVE  CleanupIsDue'
  <2>1. CASE local_sv[t] = kSVObsolete
    BY <1>9, <2>1 DEF OnThreadExit, Goto, TypeOK, CleanupIsDue
  <2>2. CASE local_sv[t] # kSVObsolete
    <3>0. local_sv[t] \in 1..super_version /\ refs[local_sv[t]] \in Nat \ {0, 1}
      <4>1. local_sv[t] # kSVInUse
        BY <1>9 DEF OnThreadExit, CopiesAreCurrent
      <4>2. local_sv[t] \in 1..super_version
        BY <2>2, <4>1 DEF TypeOK
      <4>3. local_sv[t] \in Version
        BY <4>2 DEF TypeOK
      <4> QED BY <1>0, <2>2, <4>1, <4>2, <4>3
    <3>1. refs' = [refs EXCEPT ![local_sv[t]] = @ - 1]
      BY <1>9, <2>2 DEF OnThreadExit, Unref
    <3>2. \A v \in Version : refs'[v] = 0 <=> refs[v] = 0
      BY <3>0, <3>1 DEF TypeOK
    <3> QED BY <1>9, <3>2 DEF OnThreadExit, Goto, TypeOK, CleanupIsDue
  <2> QED BY <2>1, <2>2
<1>10. CASE Install
  <2>1. \A v \in freed' : refs'[v] = 0
    BY <1>0, <1>10 DEF Install, TypeOK, CleanupIsDue
  <2>2. \A u \in Thread : pc'[u] = "cleanup" => sv'[u] \in 1..(super_version' - 1) /\ refs'[sv'[u]] = 0
    BY <1>0, <1>10 DEF Install, TypeOK, CleanupIsDue
  <2>3. ASSUME NEW v \in 1..(super_version' - 1), refs'[v] = 0
       PROVE  v \in freed' \/ \E u \in Thread : pc'[u] = "cleanup" /\ sv'[u] = v
    BY <1>0, <1>10, <2>3 DEF Install, TypeOK, CleanupIsDue
  <2> QED BY <2>1, <2>2, <2>3 DEF CleanupIsDue
<1>11. CASE BeginScrape
  <2>1. \A v \in freed' : refs'[v] = 0
    BY <1>0, <1>11 DEF BeginScrape, TypeOK, CleanupIsDue
  <2>2. \A u \in Thread : pc'[u] = "cleanup" => sv'[u] \in 1..(super_version' - 1) /\ refs'[sv'[u]] = 0
    BY <1>0, <1>11 DEF BeginScrape, TypeOK, CleanupIsDue
  <2>3. ASSUME NEW v \in 1..(super_version' - 1), refs'[v] = 0
       PROVE  v \in freed' \/ \E u \in Thread : pc'[u] = "cleanup" /\ sv'[u] = v
    BY <1>0, <1>11, <2>3 DEF BeginScrape, TypeOK, CleanupIsDue
  <2> QED BY <2>1, <2>2, <2>3 DEF CleanupIsDue
<1>12. ASSUME NEW t \in Thread, Scrape(t)
     PROVE  CleanupIsDue'
  <2>1. \A v \in freed' : refs'[v] = 0
    BY <1>0, <1>12 DEF Scrape, TypeOK, CleanupIsDue
  <2>2. \A u \in Thread : pc'[u] = "cleanup" => sv'[u] \in 1..(super_version' - 1) /\ refs'[sv'[u]] = 0
    BY <1>0, <1>12 DEF Scrape, TypeOK, CleanupIsDue
  <2>3. ASSUME NEW v \in 1..(super_version' - 1), refs'[v] = 0
       PROVE  v \in freed' \/ \E u \in Thread : pc'[u] = "cleanup" /\ sv'[u] = v
    BY <1>0, <1>12, <2>3 DEF Scrape, TypeOK, CleanupIsDue
  <2> QED BY <2>1, <2>2, <2>3 DEF CleanupIsDue
<1>13. CASE UnrefScraped
  <2>1. \A v \in freed' : refs'[v] = 0
    BY <1>0, <1>13 DEF UnrefScraped, Unref, TypeOK, CleanupIsDue
  <2>2. \A u \in Thread : pc'[u] = "cleanup" => sv'[u] \in 1..(super_version' - 1) /\ refs'[sv'[u]] = 0
    BY <1>0, <1>13 DEF UnrefScraped, Unref, TypeOK, CleanupIsDue
  <2>3. ASSUME NEW v \in 1..(super_version' - 1), refs'[v] = 0
       PROVE  v \in freed' \/ \E u \in Thread : pc'[u] = "cleanup" /\ sv'[u] = v
    BY <1>0, <1>13, <2>3 DEF UnrefScraped, Unref, TypeOK, CleanupIsDue
  <2> QED BY <2>1, <2>2, <2>3 DEF CleanupIsDue
<1>14. CASE UnrefOld
  <2>1. \A v \in freed' : refs'[v] = 0
    BY <1>0, <1>14 DEF UnrefOld, Unref, Last, TypeOK, CleanupIsDue, InstallerInOrder
  <2>2. \A u \in Thread : pc'[u] = "cleanup" => sv'[u] \in 1..(super_version' - 1) /\ refs'[sv'[u]] = 0
    BY <1>0, <1>14 DEF UnrefOld, Unref, Last, TypeOK, CleanupIsDue, InstallerInOrder
  <2>3. ASSUME NEW v \in 1..(super_version' - 1), refs'[v] = 0
       PROVE  v \in freed' \/ \E u \in Thread : pc'[u] = "cleanup" /\ sv'[u] = v
    BY <1>0, <1>14, <2>3 DEF UnrefOld, Unref, Last, TypeOK, CleanupIsDue, InstallerInOrder
  <2> QED BY <2>1, <2>2, <2>3 DEF CleanupIsDue
<1>15. CASE UNCHANGED vars
  BY <1>15 DEF vars, CleanupIsDue
<1> QED
  BY <1>1, <1>2, <1>3, <1>4, <1>5, <1>6, <1>7, <1>8, <1>9, <1>10, <1>11, <1>12, <1>13, <1>14, <1>15 DEF Next, Reader, Installer

-----------------------------------------------------------------------------
(* The theorems.                                                           *)

\* At the start only super_version_ has the first superversion.
LEMMA InitEstablishes == Init => Inv
<1> SUFFICES ASSUME Init PROVE Inv
    OBVIOUS
<1> USE SuperVersionAssumption DEF Version, MutexFree, kSVObsolete, kSVInUse
<1>1. TypeOK
  BY DEF Init, TypeOK
<1>2. RefsCountOwners
  <2> SUFFICES ASSUME NEW v \in Version PROVE refs[v] = Owners(v)
      BY DEF RefsCountOwners
  <2>1. Caching(v) = {} /\ Reading(v) = {} /\ Pinning(v) = {} /\ Scraping(v) = {}
    BY DEF Init, Caching, Reading, HasRead, Pinning, Scraping
  <2>2. Current(v) = refs[v] /\ Replaced(v) = 0
    BY DEF Init, Current, Replaced
  <2>3. refs[v] \in Int
    BY <1>1 DEF TypeOK
  <2> QED BY <2>1, <2>2, <2>3, FS_EmptySet DEF Owners
<1>3. CopiesAreCurrent /\ InstallerInOrder /\ CleanupIsDue /\ ReadersAreFresh
  BY DEF Init, CopiesAreCurrent, Takes, InstallerInOrder, CleanupIsDue, ReadersAreFresh, HasRead
<1> QED BY <1>1, <1>2, <1>3 DEF Inv

\* The invariant: refs counts the owners, in every reachable state of readers
\* and installs.
THEOREM RefsInvariant == Spec => []Inv
<1>1. Inv /\ [Next]_vars => Inv'
  BY ControlIsKept, RefsAreKept, CleanupIsKept DEF Inv
<1> QED BY <1>1, InitEstablishes, PTL DEF Spec

\* No superversion is cleaned up while a thread reads from it, an iterator pins
\* it or thread-local storage points to it (CleanupSuperVersion and
\* SuperVersion::Unref), for any number of threads and installs.
THEOREM SuperVersionsOutliveUse == Spec => []NoUseAfterFree
<1>1. Inv => NoUseAfterFree
  <2> SUFFICES ASSUME Inv, NEW t \in Thread
               PROVE  /\ pc[t] \in {"read", "return", "unref"} => sv[t] \notin freed
                      /\ iterator[t] \notin freed
                      /\ local_sv[t] \notin freed
      BY DEF NoUseAfterFree
  <2>1. \A v \in freed : v \in Nat \ {0} /\ refs[v] = 0
    BY DEF Inv, TypeOK, CleanupIsDue, Version
  <2>2. \A v : Current(v) \in Nat
    BY DEF Current
  <2>3. HasRead(t) => sv[t] \notin freed
    BY <2>1, <2>2, OwnersAreCounted
  <2>4. iterator[t] # 0 => iterator[t] \notin freed
    BY <2>1, <2>2, OwnersAreCounted
  <2>5. local_sv[t] \notin {kSVObsolete, kSVInUse} => local_sv[t] \notin freed
    BY <2>1, OwnersAreCounted
  <2> QED BY <2>1, <2>3, <2>4, <2>5 DEF HasRead, kSVObsolete, kSVInUse
<1> QED BY <1>1, RefsInvariant, PTL

\* A read sees no superversion older than the one installed when it began, and
\* no copy of an older one is left in thread-local storage after an install
\* (ResetThreadLocalSuperVersions, ReturnThreadLocalSuperVersion).
THEOREM CopiesNeverStale == Spec => []ReadsAreFresh
<1>1. Inv => ReadsAreFresh
  BY DEF Inv, ReadsAreFresh, CopiesAreCurrent, ReadersAreFresh, MutexFree, Pending
<1> QED BY <1>1, RefsInvariant, PTL

\* When nobody reads and no iterator is open, every superversion but the current
\* one has been cleaned up: no reference is lost between Scrape, Return and
\* OnThreadExit.
THEOREM SuperVersionsAreFreed == Spec => []NothingLeaks
<1>1. Inv => NothingLeaks
  <2> SUFFICES ASSUME Inv, installer = "idle",
                      \A t \in Thread : pc[t] \in {"idle", "exited"} /\ iterator[t] = 0
               PROVE  freed = 1..(super_version - 1)
      BY DEF NothingLeaks
  <2>1. freed \subseteq 1..(super_version - 1)
    BY DEF Inv, TypeOK
  <2>2. ASSUME NEW v \in 1..(super_version - 1)
       PROVE  v \in freed
    <3>0. v \in Version /\ v # 0 /\ v # super_version /\ v \notin {kSVObsolete, kSVInUse}
      BY SuperVersionAssumption DEF Inv, TypeOK, Version, kSVObsolete, kSVInUse
    <3>1. Caching(v) = {}
      BY <3>0 DEF Inv, CopiesAreCurrent, Pending, Caching
    <3>2. Reading(v) = {} /\ Pinning(v) = {}
      BY <3>0 DEF Reading, HasRead, Pinning
    <3>3. Scraping(v) = {}
      BY DEF Inv, InstallerInOrder, Scraping
    <3>4. Current(v) = 0 /\ Replaced(v) = 0
      BY <3>0 DEF Current, Replaced
    <3>5. refs[v] = 0
      BY <3>0, <3>1, <3>2, <3>3, <3>4, FS_EmptySet DEF Inv, RefsCountOwners, Owners
    <3> QED BY <3>5 DEF Inv, CleanupIsDue
  <2> QED BY <2>1, <2>2
<1> QED BY <1>1, RefsInvariant, PTL

\* The current superversion is referenced, and those still to come are not.
Alive ==
    /\ refs[super_version] > 0
    /\ \A v \in Version : v > super_version => refs[v] = 0

\* "local_sv_ never holds the last reference to SuperVersion": whoever drops the
\* last reference cleans up (SuperVersionUnrefHandle only asserts it was not).
THEOREM LastReferenceIsCleanedUp == Spec => LastUnrefCleansUp
<1>1. Inv => Alive
  <2> SUFFICES ASSUME Inv PROVE Alive
      OBVIOUS
  <2>1. refs[super_version] > 0
    BY OwnersAreCounted
  <2>2. ASSUME NEW v \in Version, v > super_version
       PROVE  refs[v] = 0
    <3>0. super_version \in Nat /\ v \in Nat
      BY SuperVersionAssumption DEF Inv, TypeOK, Version
    <3>1. ASSUME NEW t \in Thread PROVE local_sv[t] # v /\ iterator[t] # v /\ sv[t] # v
      <4>1. /\ local_sv[t] \in {0, -1} \union 1..super_version
            /\ iterator[t] \in 0..super_version
            /\ sv[t] \in 0..super_version
        BY DEF Inv, TypeOK, kSVObsolete, kSVInUse
      <4> QED BY <2>2, <3>0, <4>1
    <3>2. \A t \in Thread : <<t, v>> \notin scraped
      BY <2>2, <3>0 DEF Inv, TypeOK
    <3>3. Caching(v) = {} /\ Reading(v) = {} /\ Pinning(v) = {} /\ Scraping(v) = {}
      BY <3>1, <3>2 DEF Caching, Reading, Pinning, Scraping
    <3>4. Current(v) = 0 /\ Replaced(v) = 0
      BY <2>2, <3>0 DEF Current, Replaced
    <3>5. refs[v] = Owners(v)
      BY DEF Inv, RefsCountOwners
    <3>6. Cardinality({}) = 0
      BY FS_EmptySet
    <3> QED BY <3>3, <3>4, <3>5, <3>6 DEF Owners
  <2> QED BY <2>1, <2>2 DEF Alive
<1>2. Inv /\ Alive /\ Inv' /\ Alive' /\ [Next]_vars =>
        [\A v \in Version : refs[v] > 0 /\ refs'[v] = 0 =>
            v \in freed' \/ \E t \in Thread : pc'[t] = "cleanup" /\ sv'[t] = v]_vars
  <2> SUFFICES ASSUME Inv, Alive, Inv', Alive', [Next]_vars,
                      NEW v \in Version, refs[v] > 0, refs'[v] = 0
               PROVE  v \in freed' \/ \E t \in Thread : pc'[t] = "cleanup" /\ sv'[t] = v
      OBVIOUS
  <2>1. super_version \in Version /\ super_version' \in Version
    BY DEF Inv, TypeOK
  <2>2. super_version' >= super_version
    <3>1. super_version \in Nat
      BY <2>1, SuperVersionAssumption DEF Version
    <3>2. ASSUME NEW t \in Thread, Reader(t) PROVE super_version' = super_version
      BY <3>2 DEF Reader, Swap, RefCurrent, Get, NewIterator, Return, Release, DeleteIterator, Cleanup, OnThreadExit
    <3>3. CASE Install
      BY <3>1, <3>3 DEF Install
    <3>4. ASSUME NEW t \in Thread, Scrape(t) PROVE super_version' = super_version
      BY <3>4 DEF Scrape
    <3>5. BeginScrape \/ UnrefScraped \/ UnrefOld \/ UNCHANGED vars => super_version' = super_version
      BY DEF BeginScrape, UnrefScraped, UnrefOld, vars
    <3> QED BY <3>1, <3>2, <3>3, <3>4, <3>5 DEF Next, Installer
  <2>3. v <= super_version /\ v # super_version'
    BY <2>1, SuperVersionAssumption DEF Alive, Version
  <2>4. v \in Nat \ {0} /\ super_version \in Nat /\ super_version' \in Nat
    BY <2>1, SuperVersionAssumption DEF Version
  <2>5. v \in 1..(super_version' - 1)
    <3>1. \A a, b, c \in Nat : a # 0 /\ a <= b /\ b <= c /\ a # c => a \in 1..(c - 1)
      OBVIOUS
    <3> QED BY <2>2, <2>3, <2>4, <3>1
  <2> QED BY <2>5 DEF Inv, CleanupIsDue
<1> QED BY <1>1, <1>2, RefsInvariant, PTL DEF Spec, LastUnrefCleansUp

=============================================================================
