---------------------------- MODULE SuperVersion ----------------------------
(***************************************************************************)
(* Superversions of a column family and the copies that reading threads    *)
(* keep in thread-local storage (column_family.cc, thread_local.cc).  A    *)
(* step is one atomic operation, or a section under the database mutex     *)
(* that no other thread can look into.  Superversions are numbered from 1  *)
(* in the order in which they are installed.                               *)
(***************************************************************************)
EXTENDS Integers, FiniteSets

CONSTANTS
    Thread,         \* threads that read
    MaxInstalls     \* bound on superversions

ASSUME SuperVersionAssumption == MaxInstalls \in Nat \ {0} /\ IsFiniteSet(Thread)

kSVObsolete == 0
kSVInUse == -1

VARIABLES
    super_version,      \* number of super_version_
    refs,               \* refs of each superversion
    freed,              \* superversions that were cleaned up
    local_sv,           \* thread-local pointer
    pc, sv,             \* step of each reader, and the superversion it has
    iterator,           \* superversion pinned by an iterator of the thread, or 0
    since,              \* superversion installed for good when the read began
    installer, toScrape, scraped   \* the thread that installs: see Install

vars == <<super_version, refs, freed, local_sv, pc, sv, iterator, since, installer, toScrape, scraped>>

Version == 1..MaxInstalls

\* The database mutex is held while a superversion is installed.
MutexFree == installer = "idle"

Init ==
    /\ super_version = 1
    /\ refs = [v \in Version |-> IF v = 1 THEN 1 ELSE 0]
    /\ freed = {}
    /\ local_sv = [t \in Thread |-> kSVObsolete]
    /\ pc = [t \in Thread |-> "idle"]
    /\ sv = [t \in Thread |-> 0]
    /\ iterator = [t \in Thread |-> 0]
    /\ since = [t \in Thread |-> 0]
    /\ installer = "idle" /\ toScrape = {} /\ scraped = {}

Goto(t, label) == pc' = [pc EXCEPT ![t] = label]
Ref(v) == refs' = [refs EXCEPT ![v] = @ + 1]
Unref(v) == refs' = [refs EXCEPT ![v] = @ - 1]
Last(v) == refs[v] = 1

-----------------------------------------------------------------------------
(* Readers.                                                                *)

\* GetThreadLocalSuperVersion: take the cached superversion, if there is one.
Swap(t) ==
    /\ pc[t] = "idle"
    /\ local_sv' = [local_sv EXCEPT ![t] = kSVInUse]
    /\ IF local_sv[t] = kSVObsolete
       THEN Goto(t, "lock") /\ UNCHANGED sv
       ELSE Goto(t, "read") /\ sv' = [sv EXCEPT ![t] = local_sv[t]]
    /\ since' = [since EXCEPT ![t] = IF MutexFree THEN super_version ELSE super_version - 1]
    /\ UNCHANGED <<super_version, refs, freed, iterator, installer, toScrape, scraped>>

RefCurrentUncounted(t) ==   \* faulty: takes no reference
    /\ pc[t] = "lock"
    /\ MutexFree
    /\ sv' = [sv EXCEPT ![t] = super_version]
    /\ Goto(t, "read")
    /\ UNCHANGED <<super_version, refs, freed, local_sv, iterator, since, installer, toScrape, scraped>>

\* It was obsolete: take the current one, under the mutex.
RefCurrent(t) ==
    /\ pc[t] = "lock"
    /\ MutexFree
    /\ Ref(super_version)
    /\ sv' = [sv EXCEPT ![t] = super_version]
    /\ Goto(t, "read")
    /\ UNCHANGED <<super_version, freed, local_sv, iterator, since, installer, toScrape, scraped>>

\* The read is over.
Get(t) ==
    /\ pc[t] = "read"
    /\ Goto(t, "return")
    /\ UNCHANGED <<super_version, refs, freed, local_sv, sv, iterator, since, installer, toScrape, scraped>>

\* GetReferencedSuperVersion: an iterator pins the superversion first.
NewIterator(t) ==
    /\ pc[t] = "read"
    /\ iterator[t] = 0
    /\ Ref(sv[t])
    /\ iterator' = [iterator EXCEPT ![t] = sv[t]]
    /\ Goto(t, "return")
    /\ UNCHANGED <<super_version, freed, local_sv, sv, since, installer, toScrape, scraped>>

ReturnByStore(t) ==   \* faulty: stores where it must compare and swap
    /\ pc[t] = "return"
    /\ local_sv' = [local_sv EXCEPT ![t] = sv[t]]
    /\ Goto(t, "idle")
    /\ UNCHANGED <<super_version, refs, freed, sv, iterator, since, installer, toScrape, scraped>>

ReturnRetrying(t) ==   \* faulty: tries the exchange again instead of giving up
    /\ pc[t] = "return"
    /\ local_sv[t] = kSVInUse
    /\ local_sv' = [local_sv EXCEPT ![t] = sv[t]]
    /\ Goto(t, "idle")
    /\ UNCHANGED <<super_version, refs, freed, sv, iterator, since, installer, toScrape, scraped>>

\* ReturnThreadLocalSuperVersion: put it back unless it was scraped meanwhile.
Return(t) ==
    /\ pc[t] = "return"
    /\ IF local_sv[t] = kSVInUse
       THEN local_sv' = [local_sv EXCEPT ![t] = sv[t]] /\ Goto(t, "idle")
       ELSE Goto(t, "unref") /\ UNCHANGED local_sv
    /\ UNCHANGED <<super_version, refs, freed, sv, iterator, since, installer, toScrape, scraped>>

\* CleanupSuperVersion.  The reference of an iterator keeps this from being
\* the last.
Release(t) ==
    /\ pc[t] = "unref"
    /\ Unref(sv[t])
    /\ Goto(t, IF Last(sv[t]) THEN "cleanup" ELSE "idle")
    /\ UNCHANGED <<super_version, freed, local_sv, sv, iterator, since, installer, toScrape, scraped>>

\* CleanupSuperVersionHandle, when an iterator is deleted.
DeleteIterator(t) ==
    /\ pc[t] = "idle"
    /\ iterator[t] # 0
    /\ Unref(iterator[t])
    /\ sv' = [sv EXCEPT ![t] = iterator[t]]
    /\ iterator' = [iterator EXCEPT ![t] = 0]
    /\ Goto(t, IF Last(iterator[t]) THEN "cleanup" ELSE "idle")
    /\ UNCHANGED <<super_version, freed, local_sv, since, installer, toScrape, scraped>>

Cleanup(t) ==
    /\ pc[t] = "cleanup"
    /\ MutexFree
    /\ freed' = freed \union {sv[t]}
    /\ Goto(t, "idle")
    /\ UNCHANGED <<super_version, refs, local_sv, sv, iterator, since, installer, toScrape, scraped>>

OnThreadExitKeeping(t) ==   \* faulty: forgets the unref handler
    /\ pc[t] = "idle" /\ iterator[t] = 0
    /\ toScrape = {}
    /\ local_sv' = [local_sv EXCEPT ![t] = kSVObsolete]
    /\ Goto(t, "exited")
    /\ UNCHANGED <<super_version, refs, freed, sv, iterator, since, installer, toScrape, scraped>>

\* OnThreadExit with SuperVersionUnrefHandle, under the mutex of the
\* thread-local storage, which Scrape holds too.  It never waits for the
\* database mutex: it cannot clean up (see LastUnrefCleansUp).
OnThreadExit(t) ==
    /\ pc[t] = "idle" /\ iterator[t] = 0
    /\ toScrape = {}
    /\ IF local_sv[t] = kSVObsolete THEN UNCHANGED refs ELSE Unref(local_sv[t])
    /\ local_sv' = [local_sv EXCEPT ![t] = kSVObsolete]
    /\ Goto(t, "exited")
    /\ UNCHANGED <<super_version, freed, sv, iterator, since, installer, toScrape, scraped>>

-----------------------------------------------------------------------------
(* InstallSuperVersion, under the database mutex.                          *)

Install ==
    /\ installer = "idle"
    /\ super_version + 1 \in Version
    /\ super_version' = super_version + 1
    /\ refs' = [refs EXCEPT ![super_version + 1] = 1]
    /\ installer' = "installed"
    /\ UNCHANGED <<freed, local_sv, pc, sv, iterator, since, toScrape, scraped>>

\* ResetThreadLocalSuperVersions locks the list of threads, until Scrape is
\* through.
BeginScrape ==
    /\ installer = "installed"
    /\ installer' = "scrape"
    /\ toScrape' = {t \in Thread : pc[t] # "exited"}
    /\ UNCHANGED <<super_version, refs, freed, local_sv, pc, sv, iterator, since, scraped>>

\* Scrape exchanges one thread-local pointer after the other.
Scrape(t) ==
    /\ installer = "scrape" /\ t \in toScrape
    /\ toScrape' = toScrape \ {t}
    /\ local_sv' = [local_sv EXCEPT ![t] = kSVObsolete]
    /\ scraped' = IF local_sv[t] \in {kSVObsolete, kSVInUse} THEN scraped ELSE scraped \union {<<t, local_sv[t]>>}
    /\ UNCHANGED <<super_version, refs, freed, pc, sv, iterator, since, installer>>

\* The references of the scraped pointers are dropped one by one.
UnrefScraped ==
    /\ installer = "scrape" /\ toScrape = {}
    /\ \E p \in scraped : scraped' = scraped \ {p} /\ Unref(p[2])
    /\ UNCHANGED <<super_version, freed, local_sv, pc, sv, iterator, since, installer, toScrape>>

UnrefOldFreeing ==   \* faulty: cleans up whatever Unref returned
    /\ installer = "scrape" /\ toScrape = {} /\ scraped = {}
    /\ Unref(super_version - 1)
    /\ freed' = freed \union {super_version - 1}
    /\ installer' = "idle"
    /\ UNCHANGED <<super_version, local_sv, pc, sv, iterator, since, toScrape, scraped>>

\* At last the reference of super_version_ itself.
UnrefOld ==
    /\ installer = "scrape" /\ toScrape = {} /\ scraped = {}
    /\ Unref(super_version - 1)
    /\ freed' = IF Last(super_version - 1) THEN freed \union {super_version - 1} ELSE freed
    /\ installer' = "idle"
    /\ UNCHANGED <<super_version, local_sv, pc, sv, iterator, since, toScrape, scraped>>

-----------------------------------------------------------------------------

Reader(t) ==
    \/ Swap(t) \/ RefCurrent(t) \/ Get(t) \/ NewIterator(t) \/ Return(t)
    \/ Release(t) \/ DeleteIterator(t) \/ Cleanup(t) \/ OnThreadExit(t)

Installer == Install \/ BeginScrape \/ (\E t \in Thread : Scrape(t)) \/ UnrefScraped \/ UnrefOld

Next == (\E t \in Thread : Reader(t)) \/ Installer

Spec == Init /\ [][Next]_vars

\* A thread that reads goes on, and so does the one that installs; nobody has to
\* read, install or exit.
Fairness ==
    /\ \A t \in Thread : WF_vars(RefCurrent(t) \/ Get(t) \/ Return(t) \/ Release(t) \/ Cleanup(t))
    /\ WF_vars(BeginScrape \/ (\E t \in Thread : Scrape(t)) \/ UnrefScraped \/ UnrefOld)

FairSpec == Spec /\ Fairness

-----------------------------------------------------------------------------
(* Properties.                                                             *)

\* No superversion is cleaned up while a thread reads from it, an iterator pins
\* it or thread-local storage points to it.
NoUseAfterFree ==
    \A t \in Thread :
        /\ pc[t] \in {"read", "return", "unref"} => sv[t] \notin freed
        /\ iterator[t] \notin freed
        /\ local_sv[t] \notin freed

\* "The superversion will need to be released if detected to be stale": a read
\* sees no superversion older than the one installed when it began, and once an
\* install is over no thread-local copy of an older one is left or comes back.
ReadsAreFresh ==
    \A t \in Thread :
        /\ pc[t] = "read" => sv[t] >= since[t]
        /\ MutexFree => local_sv[t] \in {kSVObsolete, kSVInUse, super_version}

\* "local_sv_ never holds the last reference to SuperVersion, since it has no
\* means to safely do SuperVersion cleanup": who drops the last reference is a
\* reader that cleans up next, or the installer that does at once, and never an
\* exiting thread, which would wait for the database mutex with the one of
\* thread-local storage locked.
LastUnrefCleansUp ==
    [][\A v \in Version : refs[v] > 0 /\ refs'[v] = 0 =>
            v \in freed' \/ \E t \in Thread : pc'[t] = "cleanup" /\ sv'[t] = v]_vars

\* Nothing leaks: when no thread is in a read or holds an iterator, every
\* superversion but the current one has been cleaned up.
NothingLeaks ==
    (/\ installer = "idle"
     /\ \A t \in Thread : pc[t] \in {"idle", "exited"} /\ iterator[t] = 0)
        => freed = 1..(super_version - 1)

\* Every read that has to wait for the mutex ends: each install gives the mutex
\* back, whatever readers do with the copies it scrapes and unrefs meanwhile.
ReadsEnd == \A t \in Thread : pc[t] = "lock" ~> pc[t] \in {"idle", "exited"}

=============================================================================
