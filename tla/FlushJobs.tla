------------------------------ MODULE FlushJobs ------------------------------
(***************************************************************************)
(* Flush jobs of one column family: requests and threads, the table file   *)
(* of a job, its commit, the deletion of obsolete files, and the recovery  *)
(* from retryable I/O errors.  A step is what a thread does between two    *)
(* releases of the database mutex.  There are no listeners.                *)
(*                                                                         *)
(* Memtable m has the write-ahead log m to itself.  content remembers the  *)
(* memtables of a file; tail holds the edits of a manifest write that was  *)
(* begun or failed, any prefix of which a crash may leave in the manifest. *)
(***************************************************************************)
EXTENDS MemTableList, TLC

CONSTANTS
    MaxFlushes,     \* max_background_flushes
    Failures,       \* what may fail: "sst", "manifest", "apply"
    MaxFailures     \* bound on failures

ASSUME FlushAssumption ==
    /\ MaxFlushes \in Nat \ {0} /\ MaxFailures \in Nat
    /\ Failures \subseteq {"sst", "manifest", "apply"}

VARIABLES
    added,                  \* memtables 1..added have been made immutable
    flush_queue,            \* reason of the request in the queue, or "none"
    unscheduled_flushes,
    job,                    \* what each flush thread does
    next_file, disk, content,
    live, log_number,       \* the current version, and the first log it needs
    tail,
    bg_error, recovery_error, io_error,   \* io_error: versions_->io_status()
    db_stopped,
    deletions_disabled,
    recovery,               \* what the recovery thread does
    failures                \* how often each kind of failure has happened

fileVars == <<next_file, disk, content>>
versionVars == <<live, log_number, tail>>
errorVars == <<bg_error, recovery_error, io_error, db_stopped, deletions_disabled, recovery, failures>>
vars == <<listVars, fileVars, versionVars, errorVars, added, flush_queue, unscheduled_flushes, job>>

Thread == 1..MaxFlushes
NoJob == [pc |-> "none"]
NoRecovery == [pc |-> "none"]

\* recovery_in_prog_ is reset before the recovery thread ends.
InProgress(r) == r.pc \notin {"none", "catchup", "end"}

Init ==
    /\ ListInit
    /\ added = 0
    /\ flush_queue = "none" /\ unscheduled_flushes = 0
    /\ job = [t \in Thread |-> NoJob]
    /\ next_file = 1 /\ disk = {} /\ content = <<>>
    /\ live = {} /\ log_number = 1 /\ tail = <<>>
    /\ bg_error = FALSE /\ recovery_error = FALSE /\ io_error = FALSE
    /\ db_stopped = FALSE /\ deletions_disabled = FALSE
    /\ recovery = NoRecovery
    /\ failures = [what \in Failures |-> 0]

-----------------------------------------------------------------------------
(* Requests.                                                               *)

\* MaybeScheduleFlushOrCompaction: a request takes a thread if one is free.
\* Soft errors stop background work unless recovery is in progress.
MaybeSchedule(jobs, unscheduled) ==
    LET free == {t \in Thread : jobs[t].pc = "none"}
        go == unscheduled > 0 /\ free # {} /\ ~(bg_error' /\ ~InProgress(recovery'))
    IN  /\ job' = IF go THEN [jobs EXCEPT ![Min(free)] = [pc |-> "scheduled"]] ELSE jobs
        /\ unscheduled_flushes' = IF go THEN unscheduled - 1 ELSE unscheduled

\* SchedulePendingFlush, unless the column family is queued already.
SchedulePendingFlush(reason, jobs) ==
    LET queue == flush_queue = "none" /\ num_flush_not_started' >= 1
    IN  /\ flush_queue' = IF queue THEN reason ELSE flush_queue
        /\ MaybeSchedule(jobs, IF queue THEN unscheduled_flushes + 1 ELSE unscheduled_flushes)

\* A writer fills the active memtable; soft errors do not stop it.
SwitchMemtable ==
    /\ ~db_stopped
    /\ added + 1 \in MemTable
    /\ added' = added + 1
    /\ Add(added + 1)
    /\ UNCHANGED <<fileVars, versionVars, errorVars>>
    /\ SchedulePendingFlush("write", job)

-----------------------------------------------------------------------------
(* Obsolete files.                                                         *)

\* The first number of the files that running jobs may be writing.
MinObsoleteSstNumberToKeep(jobs) ==
    Min({next_file} \union {jobs[t].pend : t \in {t \in Thread : jobs[t].pc \in {"write", "manifest", "sleep", "join"}}})

ObsoleteIgnoringPending(jobs, version) == disk \ version   \* faulty: forgets pending_outputs_

\* What a full scan of the directory marks for deletion: files below every
\* pending output that are not in the version.
Obsolete(jobs, version) == {f \in disk \ version : f < MinObsoleteSstNumberToKeep(jobs)}

\* FindObsoleteFiles: a full scan when forced, and else from time to time.
FoundFiles(jobs, version, force) ==
    IF deletions_disabled THEN {{}}
    ELSE {Obsolete(jobs, version)} \union (IF force THEN {} ELSE {{}})

\* Thread t has released its pending output and looks for obsolete files; after
\* a success it has installed a superversion and scheduled work.
Purging(t, force, version) ==
    \E found \in FoundFiles([job EXCEPT ![t] = NoJob], version, force) :
        LET jobs == [job EXCEPT ![t] = [pc |-> "purge", files |-> found]]
        IN  IF force THEN job' = jobs /\ UNCHANGED unscheduled_flushes
            ELSE MaybeSchedule(jobs, unscheduled_flushes)

-----------------------------------------------------------------------------
(* Errors.                                                                 *)

SetBGErrorDeleting(what) ==   \* faulty: leaves file deletions enabled
    /\ bg_error' = TRUE
    /\ failures' = [failures EXCEPT ![what] = @ + 1]
    /\ recovery_error' = (recovery_error \/ InProgress(recovery))
    /\ recovery' = IF recovery = NoRecovery THEN [pc |-> "begin"] ELSE recovery
    /\ UNCHANGED <<deletions_disabled, db_stopped>>

\* A retryable I/O error in a flush: a soft error, which disables file deletions
\* if the manifest may be damaged, and starts a recovery unless one goes on.
SetBGError(what) ==
    /\ bg_error' = TRUE
    /\ failures' = [failures EXCEPT ![what] = @ + 1]
    /\ recovery_error' = (recovery_error \/ InProgress(recovery))
    /\ recovery' = IF recovery = NoRecovery THEN [pc |-> "begin"] ELSE recovery
    /\ deletions_disabled' = (deletions_disabled \/ io_error')
    /\ UNCHANGED db_stopped

\* The failed thread sleeps, its output still pending, once it has waited for
\* a recovery thread that is about to end.
Failed(t) == job' = [job EXCEPT ![t] = [pc |-> IF recovery.pc \in {"catchup", "end"} THEN "join" ELSE "sleep",
                                       pend |-> @.pend]]

May(what) == what \in Failures /\ SumFunction(failures) < MaxFailures

-----------------------------------------------------------------------------
(* A flush job: BackgroundCallFlush, BackgroundFlush, FlushJob::Run.        *)

\* With an error and no recovery the request stays queued; with a recovery
\* the requests of others are dropped.
BackgroundFlush(t) ==
    /\ job[t].pc = "scheduled"
    /\ flush_queue' = IF bg_error /\ ~InProgress(recovery) THEN flush_queue ELSE "none"
    /\ UNCHANGED <<versionVars, errorVars, added>>
    /\ IF bg_error /\ ~(InProgress(recovery) /\ flush_queue = "recovery")
       THEN /\ job' = [job EXCEPT ![t] = [pc |-> "sleep", pend |-> next_file]]
            /\ UNCHANGED <<listVars, fileVars, unscheduled_flushes>>
       ELSE IF IsFlushPending
       THEN /\ job' = [job EXCEPT ![t] = [pc |-> "write", reason |-> flush_queue, mems |-> Picked,
                                         file |-> next_file, pend |-> next_file]]
            /\ disk' = disk \union {next_file}
            /\ content' = Append(content, Range(Picked))
            /\ next_file' = next_file + 1
            /\ PickMemtablesToFlush
            /\ UNCHANGED unscheduled_flushes
       ELSE /\ Purging(t, FALSE, live)
            /\ UNCHANGED <<listVars, fileVars>>

\* The table could not be written: BuildTable deletes it.
WriteFails(t) ==
    /\ job[t].pc = "write"
    /\ May("sst")
    /\ disk' = disk \ {job[t].file}
    /\ RollbackMemtableFlush(job[t].mems)
    /\ UNCHANGED io_error
    /\ SetBGError("sst")
    /\ Failed(t)
    /\ UNCHANGED <<next_file, content, versionVars, added, flush_queue, unscheduled_flushes>>

\* The table was written, but somebody else failed meanwhile.
WriteInVain(t) ==
    /\ job[t].pc = "write"
    /\ bg_error /\ job[t].reason # "recovery"
    /\ RollbackMemtableFlush(job[t].mems)
    /\ job' = [job EXCEPT ![t] = [pc |-> "sleep", pend |-> @.pend]]
    /\ UNCHANGED <<fileVars, versionVars, errorVars, added, flush_queue, unscheduled_flushes>>

\* One edit for each file of a batch, at the position of the first memtable of
\* the file, with the first log still needed.
Edits(list, batch, files) ==
    LET File(i) == files[list[i]]
    IN  [i \in {i \in 1..batch : i = 1 \/ File(i) # File(i - 1)} |->
            [file |-> File(i), log |-> Max(content[File(i)]) + 1]]

\* LogAndApply begins: the mutex is released while the manifest is written.  If
\* the last write failed this one makes a new manifest.
LogAndApply(t, list, files) ==
    LET batch == BatchCount(list, completed')
        edits == Edits(list, batch, files)
    IN  /\ job' = [job EXCEPT ![t] = [pc |-> "manifest", batch |-> batch, edits |-> edits, pend |-> @.pend]]
        /\ tail' = IF tail = <<>> \/ job[t].pc = "manifest" THEN edits ELSE tail

\* The table was written: this thread or another one commits.
WriteSucceeds(t) ==
    /\ job[t].pc = "write"
    /\ ~(bg_error /\ job[t].reason # "recovery")
    /\ TryInstall(job[t].mems, job[t].file)
    /\ UNCHANGED <<fileVars, live, log_number, errorVars, added, flush_queue>>
    /\ IF ~commit_in_progress /\ commit_in_progress'
       THEN LogAndApply(t, memlist, file_number') /\ UNCHANGED unscheduled_flushes
       ELSE Purging(t, FALSE, live) /\ UNCHANGED tail

\* The version takes over the edits, and the loop goes on.
CommitSucceeds(t) ==
    /\ job[t].pc = "manifest"
    /\ live' = live \union {job[t].edits[n].file : n \in DOMAIN job[t].edits}
    /\ log_number' = Max({log_number} \union {job[t].edits[n].log : n \in DOMAIN job[t].edits})
    /\ RemoveMemTables(job[t].batch)
    /\ io_error' = FALSE
    /\ UNCHANGED <<fileVars, added, flush_queue,
                   bg_error, recovery_error, db_stopped, deletions_disabled, recovery, failures>>
    /\ IF commit_in_progress'
       THEN LogAndApply(t, memlist', file_number) /\ UNCHANGED unscheduled_flushes
       ELSE Purging(t, FALSE, live') /\ tail' = <<>>

\* Writing the manifest fails, or applying the edits does before it is written.
CommitFails(t) ==
    /\ job[t].pc = "manifest"
    /\ \/ May("manifest") /\ io_error' = TRUE /\ UNCHANGED tail /\ SetBGError("manifest")
       \/ May("apply") /\ io_error' = FALSE /\ SetBGError("apply")
          /\ tail' = IF tail = job[t].edits THEN <<>> ELSE tail
    /\ RestoreFlags(job[t].batch)
    /\ Failed(t)
    /\ UNCHANGED <<fileVars, live, log_number, added, flush_queue, unscheduled_flushes>>

\* After an error the thread forces a full scan.
Wake(t) ==
    /\ job[t].pc = "sleep"
    /\ Purging(t, TRUE, live)
    /\ UNCHANGED <<listVars, fileVars, versionVars, errorVars, added, flush_queue>>

PurgeObsoleteFiles(t) ==
    /\ job[t].pc = "purge"
    /\ disk' = disk \ job[t].files
    /\ UNCHANGED <<listVars, next_file, content, versionVars, errorVars, added, flush_queue>>
    /\ MaybeSchedule([job EXCEPT ![t] = NoJob], unscheduled_flushes)

-----------------------------------------------------------------------------
(* Recovery: RecoverFromRetryableBGIOError and ResumeImpl.                  *)

RecoverBegin ==
    /\ recovery.pc = "begin"
    /\ recovery' = [pc |-> "resume"]
    /\ recovery_error' = FALSE
    /\ UNCHANGED <<listVars, fileVars, versionVars, added, flush_queue, unscheduled_flushes, job,
                   bg_error, io_error, db_stopped, deletions_disabled, failures>>

\* WaitForBackgroundWork, then an edit that starts a new manifest if the old one
\* may be damaged; that may fail in turn, which is a hard error.
ResumeImpl ==
    /\ recovery.pc = "resume"
    /\ \A t \in Thread : job[t].pc = "none"
    /\ \/ /\ recovery' = [pc |-> "flush", disabled |-> deletions_disabled]
          /\ io_error' = FALSE
          /\ tail' = IF io_error THEN <<>> ELSE tail
          /\ UNCHANGED <<bg_error, db_stopped, failures>>
       \/ /\ io_error /\ May("manifest")
          /\ recovery' = [pc |-> "begin"]
          /\ bg_error' = TRUE /\ db_stopped' = TRUE
          /\ failures' = [failures EXCEPT !["manifest"] = @ + 1]
          /\ UNCHANGED <<io_error, tail>>
    /\ UNCHANGED <<listVars, fileVars, live, log_number, added, flush_queue, unscheduled_flushes, job,
                   recovery_error, deletions_disabled>>

\* FlushMemTable: request a flush of all memtables there are now.
RecoverFlush ==
    /\ recovery.pc = "flush"
    /\ recovery' = [pc |-> "wait", disabled |-> recovery.disabled, id |-> added]
    /\ UNCHANGED <<listVars, fileVars, versionVars, added,
                   bg_error, recovery_error, io_error, db_stopped, deletions_disabled, failures>>
    /\ SchedulePendingFlush("recovery", job)

Flushed(id) == \A i \in DOMAIN memlist : memlist[i] > id

\* WaitForFlushMemTables, then a full scan.
RecoverWait ==
    /\ recovery.pc = "wait"
    /\ recovery_error \/ Flushed(recovery.id)
    /\ \E found \in FoundFiles(job, live, TRUE) :
         recovery' = [pc |-> "clean", disabled |-> recovery.disabled, ok |-> ~recovery_error, files |-> found]
    /\ UNCHANGED <<listVars, fileVars, versionVars, added, flush_queue, unscheduled_flushes, job,
                   bg_error, recovery_error, io_error, db_stopped, deletions_disabled, failures>>

\* The files are deleted; then EnableFileDeletions, which scans again, and
\* at last ClearBGError.
RecoverClean ==
    /\ recovery.pc = "clean"
    /\ disk' = disk \ recovery.files
    /\ \/ /\ ~recovery.ok
          /\ recovery' = [pc |-> "begin"]
          /\ UNCHANGED <<bg_error, deletions_disabled>>
       \/ /\ recovery.ok /\ recovery.disabled
          /\ deletions_disabled' = FALSE
          /\ recovery' = [recovery EXCEPT !.disabled = FALSE, !.files = Obsolete(job, live) \ recovery.files]
          /\ UNCHANGED bg_error
       \/ /\ recovery.ok /\ ~recovery.disabled
          /\ bg_error' = FALSE
          /\ recovery' = [pc |-> "catchup"]
          /\ UNCHANGED deletions_disabled
    /\ UNCHANGED <<listVars, next_file, content, versionVars, added, flush_queue, unscheduled_flushes, job,
                   recovery_error, io_error, db_stopped, failures>>

\* A flush of what was filled during the recovery.
RecoverCatchUp ==
    /\ recovery.pc = "catchup"
    /\ recovery' = [pc |-> "end"]
    /\ UNCHANGED <<listVars, fileVars, versionVars, added,
                   bg_error, recovery_error, io_error, db_stopped, deletions_disabled, failures>>
    /\ SchedulePendingFlush("write", job)

\* The thread ends; a flush that failed meanwhile, whose error is cleared here,
\* starts the next recovery.
RecoverEnd ==
    LET waiting == {t \in Thread : job[t].pc = "join"}
    IN  /\ recovery.pc = "end"
        /\ bg_error' = FALSE /\ db_stopped' = FALSE
        /\ recovery' = IF waiting = {} THEN NoRecovery ELSE [pc |-> "begin"]
        /\ job' = [t \in Thread |-> IF t \in waiting THEN [pc |-> "sleep", pend |-> job[t].pend] ELSE job[t]]
        /\ UNCHANGED <<listVars, fileVars, versionVars, added, flush_queue, unscheduled_flushes,
                       recovery_error, io_error, deletions_disabled, failures>>

-----------------------------------------------------------------------------

Flush(t) ==
    \/ BackgroundFlush(t) \/ WriteFails(t) \/ WriteInVain(t) \/ WriteSucceeds(t)
    \/ CommitSucceeds(t) \/ CommitFails(t) \/ Wake(t) \/ PurgeObsoleteFiles(t)

Recover == RecoverBegin \/ ResumeImpl \/ RecoverFlush \/ RecoverWait \/ RecoverClean
           \/ RecoverCatchUp \/ RecoverEnd

Next == SwitchMemtable \/ (\E t \in Thread : Flush(t)) \/ Recover

\* A thread that can go on does, and so does the recovery.
Fairness == WF_vars(Recover) /\ \A t \in Thread : WF_vars(Flush(t))

Spec == Init /\ [][Next]_vars /\ Fairness

-----------------------------------------------------------------------------
(* Properties.                                                             *)

\* Every memtable is either still in the list or in exactly one file of the
\* version, whatever was retried: none is dropped and none recorded twice.
EachMemtableOnce ==
    \A m \in 1..added :
        Cardinality({f \in live : m \in content[f]}) = IF m \in Range(memlist) THEN 0 ELSE 1

\* "Memtables are always committed in the order that they were created": a file
\* of the version holds no memtable younger than one still in the list.
CommittedInOrder ==
    \A f \in live : \A m \in content[f], n \in Range(memlist) : m < n

\* A flush that completes leaves the commit to "a concurrent flush thread", and
\* that thread exists: when the oldest memtable is completed, somebody commits.
NoLostCommit ==
    memlist # <<>> /\ Head(memlist) \in completed =>
        \E t \in Thread : job[t].pc = "manifest" /\ commit_in_progress

\* Nothing but writes of the manifest has failed.
OnlyManifestFailed == \A what \in Failures \ {"manifest"} : failures[what] = 0

\* What a crash may find beyond the version: some of the edits in tail, or,
\* after a failed write, the new manifest with all edits of the job, once
\* CURRENT names it.
Leftovers ==
    {{tail[n] : n \in {n \in DOMAIN tail : n <= k}} : k \in {0} \union DOMAIN tail}
        \union {Range(job[t].edits) : t \in {t \in Thread : job[t].pc = "manifest"}}

\* A crash at any moment loses nothing, however often the manifest could not be
\* written: whichever edits of an unfinished or failed manifest write it leaves
\* behind, the files of the manifest exist, and a memtable is in one of them or
\* its log is still needed (error_handler.cc disables file deletions for it).
CrashLosesNothing ==
    OnlyManifestFailed =>
        \A edits \in Leftovers :
            LET files == live \union {e.file : e \in edits}
                log == Max({log_number} \union {e.log : e \in edits})
            IN  /\ files \subseteq disk
                /\ \A m \in 1..added : m >= log \/ \E f \in files : m \in content[f]

\* "Try record a successful flush in the manifest file.  It might just return
\* Status::OK letting a concurrent flush to do actual the recording": the
\* file of a completed flush exists until then, as long as only the manifest
\* fails (a failing table or version edit breaks this: see the README).
CompletedFilesExist == OnlyManifestFailed => \A m \in completed : file_number[m] \in disk

\* Without failures every memtable is flushed in the end: no request for a flush
\* is forgotten by SchedulePendingFlush and MaybeScheduleFlushOrCompaction, and
\* no completed one by the thread that commits for others.
AllFlushed ==
    \A m \in MemTable :
        m \in Range(memlist) ~> m \notin Range(memlist) \/ \E what \in Failures : failures[what] > 0

=============================================================================
