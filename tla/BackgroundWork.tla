---------------------------- MODULE BackgroundWork ----------------------------
(***************************************************************************)
(* A load of the experiment driver (runWriteWorkload) against RocksDB with *)
(* universal compaction: the client that puts keys, flushes and polls, the *)
(* threads of the flush and the compaction pool, the write stall, and the  *)
(* queues of DBImpl that give the threads work.                            *)
(*                                                                         *)
(* A step is what one thread does while it holds the DB mutex.  Manifest   *)
(* writes that one thread makes for several waiting ones are modelled as   *)
(* writes of their own.  Puts are numbered; a memtable or sorted run holds *)
(* an interval of them, and, the keys being distinct, its size is their    *)
(* number.  One column family; all options the driver leaves alone have    *)
(* their defaults, so min_write_buffer_number_to_merge is 1.               *)
(***************************************************************************)
EXTENDS UniversalPicker, TLC

CONSTANTS
    FlushThreads, CompactionThreads,    \* the two pools; also the job limits
    MaxWriteBufferNumber,               \* max_write_buffer_number
    SlowdownTrigger,                    \* level0_slowdown_writes_trigger
    StopTrigger,                        \* level0_stop_writes_trigger
    MemtablePuts,                       \* puts that fill a memtable
    NPuts,                              \* puts of the load
    MaxFailures                         \* bound on failing compactions

ASSUME TriggerAssumption ==
    /\ MaxWriteBufferNumber \in Nat \ {0}
    /\ Trigger <= SlowdownTrigger /\ SlowdownTrigger <= StopTrigger

VARIABLES
    mem,          \* the active memtable, [lo, hi]; empty when hi < lo
    imm,          \* immutable memtables, oldest first
    files,        \* sorted runs of the current version, newest first
    nextEpoch,    \* next_epoch_number_
    bg,           \* queues and counters of background jobs
    token,        \* write_controller_token_
    flusher,      \* what each flush thread does
    compactor,    \* what each compaction thread does
    client,       \* what the client does
    asleep,       \* the client waits on bg_cv_
    doubleChecked,\* double_checked of waitForBGCompactions
    failures      \* compactions that failed so far

vars == <<mem, imm, files, nextEpoch, bg, token, flusher, compactor, client,
          asleep, doubleChecked, failures>>
threads == <<flusher, compactor>>

-----------------------------------------------------------------------------
(* Write stall.                                                            *)

\* With universal compaction no bytes are ever pending, and the delay for
\* memtables needs more than three write buffers.
GetWriteStallCondition(unflushed, runs) ==
    IF unflushed >= MaxWriteBufferNumber \/ runs >= StopTrigger THEN "stop"
    ELSE IF \/ MaxWriteBufferNumber > 3 /\ unflushed >= MaxWriteBufferNumber - 1
            \/ runs >= SlowdownTrigger
    THEN "delay"
    ELSE "normal"

SpeedupThreshold == Min({2 * Trigger, Trigger + (SlowdownTrigger - Trigger) \div 4})

\* RecalculateWriteStallConditions: the token a new superversion leaves.
StallToken(unflushed, runs) ==
    LET condition == GetWriteStallCondition(unflushed, runs)
    IN  IF condition = "normal" /\ runs >= SpeedupThreshold THEN "pressure" ELSE condition

-----------------------------------------------------------------------------
(* Queues.  A column family is in a queue at most once.                    *)

RunningFlushes == Quantify(FlushThreads, LAMBDA t : flusher[t].pc # "idle")
RunningCompactions == Quantify(CompactionThreads, LAMBDA t : compactor[t].pc # "idle")

IsFlushPending(m) == \E i \in 1..Len(m) : m[i].state = "idle"

SchedulePendingFlushAgain(b, m) ==   \* faulty: queues a queued column family
    IF IsFlushPending(m)
    THEN [b EXCEPT !.flushQueued = TRUE, !.unscheduledFlushes = @ + 1]
    ELSE b

SchedulePendingFlush(b, m) ==
    IF ~b.flushQueued /\ IsFlushPending(m)
    THEN [b EXCEPT !.flushQueued = TRUE, !.unscheduledFlushes = @ + 1]
    ELSE b

SchedulePendingCompaction(b, fs) ==
    IF ~b.compactionQueued /\ NeedsCompaction(fs)
    THEN [b EXCEPT !.compactionQueued = TRUE, !.unscheduledCompactions = @ + 1]
    ELSE b

\* GetBGJobLimits: compactions run in parallel only under pressure.
MaxCompactions(tok) == IF tok = "normal" THEN 1 ELSE Cardinality(CompactionThreads)

\* How many of n waiting jobs start when limit allows and scheduled exist.
Admitted(n, limit, scheduled) == Min({n, Max({limit - scheduled, 0})})

MaybeScheduleFlushOrCompaction(b, tok) ==
    LET f == Admitted(b.unscheduledFlushes, Cardinality(FlushThreads), b.flushesScheduled)
        c == Admitted(b.unscheduledCompactions, MaxCompactions(tok), b.compactionsScheduled)
    IN  [b EXCEPT !.unscheduledFlushes = @ - f, !.flushesScheduled = @ + f,
                  !.unscheduledCompactions = @ - c, !.compactionsScheduled = @ + c]

InstallSuperVersionOnly(b, m, fs) ==   \* faulty: leaves the token alone
    /\ imm' = m
    /\ files' = fs
    /\ token' = token
    /\ bg' = MaybeScheduleFlushOrCompaction(SchedulePendingCompaction(b, files'), token)

InstallSuperVersionNoSchedule(b, m, fs) ==   \* faulty: queues no compaction
    /\ imm' = m
    /\ files' = fs
    /\ token' = StallToken(Len(imm'), Len(files'))
    /\ bg' = MaybeScheduleFlushOrCompaction(b, token')

\* The memtables become m and the runs fs; stall and queues follow.
InstallSuperVersionAndScheduleWork(b, m, fs) ==
    /\ imm' = m
    /\ files' = fs
    /\ token' = StallToken(Len(imm'), Len(files'))
    /\ \E queued \in {SchedulePendingCompaction(b, files')} :
          bg' = MaybeScheduleFlushOrCompaction(queued, token')

-----------------------------------------------------------------------------
(* The client.                                                             *)

IsEmpty(m) == m.hi < m.lo

\* SwitchMemtable, then a flush request, then scheduling, in one hold of the
\* mutex (SwitchMemtable releases it before it changes anything).
SwitchAndSchedule ==
    /\ imm' = Append(imm, [lo |-> mem.lo, hi |-> mem.hi, state |-> "idle", epoch |-> 0])
    /\ mem' = [lo |-> mem.hi + 1, hi |-> mem.hi]
    /\ token' = StallToken(Len(imm'), Len(files))
    /\ \E queued \in {SchedulePendingCompaction(bg, files)} :
       \E scheduled \in {MaybeScheduleFlushOrCompaction(queued, token')} :
       \E requested \in {SchedulePendingFlush(scheduled, imm')} :
          bg' = MaybeScheduleFlushOrCompaction(requested, token')

MemFull == mem.hi - mem.lo + 1 >= MemtablePuts

\* PreprocessWrite of a put: a full memtable is switched first.
ScheduleFlushes ==
    /\ client = "put"
    /\ IF MemFull THEN SwitchAndSchedule ELSE UNCHANGED <<mem, imm, token, bg>>
    /\ client' = "stall"
    /\ UNCHANGED <<files, nextEpoch, threads, asleep, doubleChecked, failures>>

\* A stopped put waits for background work; a delayed one only sleeps.
DelayWrite ==
    /\ client = "stall" /\ ~asleep
    /\ token = "stop"
    /\ asleep' = TRUE
    /\ UNCHANGED <<mem, imm, files, nextEpoch, bg, token, threads, client, doubleChecked, failures>>

Put ==
    /\ client = "stall" /\ ~asleep
    /\ token # "stop"
    /\ mem' = [mem EXCEPT !.hi = @ + 1]
    /\ client' = IF mem.hi + 1 = NPuts THEN "flush" ELSE "put"
    /\ UNCHANGED <<imm, files, nextEpoch, bg, token, threads, asleep, doubleChecked, failures>>

\* The check that one more memtable or run would stall writes, skipped when
\* there is nothing to flush and fewer runs than the compaction trigger.
WouldStall ==
    /\ imm # <<>> \/ Len(files) >= Trigger
    /\ GetWriteStallCondition(Len(imm) + (IF IsEmpty(mem) THEN 0 ELSE 1), Len(files) + 1) # "normal"

\* flushMemTable.  Nobody else switches memtables, so the flush stays needed.
WaitUntilFlushWouldNotStallWrites ==
    /\ client = "flush" /\ ~asleep
    /\ IF WouldStall
       THEN asleep' = TRUE /\ UNCHANGED client
       ELSE client' = "switch" /\ UNCHANGED asleep
    /\ UNCHANGED <<mem, imm, files, nextEpoch, bg, token, threads, doubleChecked, failures>>

FlushMemTable ==
    /\ client = "switch"
    /\ SwitchAndSchedule
    /\ client' = "wait"
    /\ UNCHANGED <<files, nextEpoch, threads, asleep, doubleChecked, failures>>

WaitForFlushMemTables ==
    /\ client = "wait" /\ ~asleep
    /\ IF imm # <<>>
       THEN asleep' = TRUE /\ UNCHANGED client
       ELSE client' = "poll" /\ UNCHANGED asleep
    /\ UNCHANGED <<mem, imm, files, nextEpoch, bg, token, threads, doubleChecked, failures>>

\* waitForBGCompactions reads one property at a time.  A property that asks it
\* to continue sends it back to the first one.
PollRunningFlushes ==
    /\ client = "poll"
    /\ RunningFlushes = 0
    /\ client' = "pollCompactions"
    /\ UNCHANGED <<mem, imm, files, nextEpoch, bg, token, threads, asleep, doubleChecked, failures>>

PollRunningCompactions ==
    /\ client = "pollCompactions"
    /\ client' = IF RunningCompactions > 0 THEN "poll" ELSE "pollPending"
    /\ UNCHANGED <<mem, imm, files, nextEpoch, bg, token, threads, asleep, doubleChecked, failures>>

PollFlushPendingReset ==   \* faulty: forgets that it has checked before
    /\ client = "pollPending"
    /\ client' = "poll"
    /\ doubleChecked' = FALSE
    /\ UNCHANGED <<mem, imm, files, nextEpoch, bg, token, threads, asleep, failures>>

PollFlushPending ==
    /\ client = "pollPending"
    /\ client' = IF ~IsFlushPending(imm) /\ doubleChecked THEN "done" ELSE "poll"
    /\ doubleChecked' = (doubleChecked \/ ~IsFlushPending(imm))
    /\ UNCHANGED <<mem, imm, files, nextEpoch, bg, token, threads, asleep, failures>>

-----------------------------------------------------------------------------
(* Flush threads.                                                          *)

IdleFlusher == [pc |-> "idle", epoch |-> 0, batch |-> {}]

\* PickMemtablesToFlush: the memtables no job has taken, all of them newer
\* than those taken.
Unpicked == {i \in 1..Len(imm) : imm[i].state = "idle"}

\* A thread of the pool takes a scheduled job, pops the request and picks
\* memtables; it then writes the run without the mutex.
BackgroundFlush(t) ==
    /\ flusher[t].pc = "idle"
    /\ bg.flushesScheduled > RunningFlushes
    /\ bg' = [bg EXCEPT !.flushQueued = FALSE]
    /\ IF bg.flushQueued /\ Unpicked # {}
       THEN /\ flusher' = [flusher EXCEPT ![t] = [IdleFlusher EXCEPT !.pc = "writing", !.epoch = nextEpoch]]
            /\ imm' = [i \in 1..Len(imm) |->
                         IF i \in Unpicked
                         THEN [imm[i] EXCEPT !.state = "flushing", !.epoch = nextEpoch]
                         ELSE imm[i]]
            /\ nextEpoch' = nextEpoch + 1
       ELSE /\ flusher' = [flusher EXCEPT ![t].pc = "cleanup"]
            /\ UNCHANGED <<imm, nextEpoch>>
    /\ UNCHANGED <<mem, files, token, compactor, client, asleep, doubleChecked, failures>>

\* The run of L0 that holds the memtables picked together.
FlushedRun(ms, e) ==
    LET picked == {m \in {ms[i] : i \in 1..Len(ms)} : m.epoch = e}
    IN  [level |-> 0, epoch |-> e,
         lo |-> Min({m.lo : m \in picked}), hi |-> Max({m.hi : m \in picked}),
         size |-> MapThenSumSet(LAMBDA m : m.hi - m.lo + 1, picked), busy |-> FALSE]

\* Level 0 by epoch, then the other levels, each one run.
SortsBefore(f, g) == f.level < g.level \/ (f.level = g.level /\ f.epoch > g.epoch)

AddRun(fs, f) ==
    SelectSeq(fs, LAMBDA g : SortsBefore(g, f)) \o <<f>>
        \o SelectSeq(fs, LAMBDA g : ~SortsBefore(g, f))

CommitAllCompleted(ms) == {i \in 1..Len(ms) : ms[i].state = "completed"}   \* faulty: out of order

\* TryInstallMemtableFlushResults commits completed memtables from the oldest
\* on and stops at the first one that is still being flushed.
Committed(ms) == {i \in 1..Len(ms) : \A j \in 1..i : ms[j].state = "completed"}

\* The runs those memtables become are one batch of edits, fixed before the
\* mutex is released for the manifest write.
Batch(ms) == {ms[i].epoch : i \in Committed(ms)}

\* commit_in_progress_: the thread that commits is at the manifest, the first
\* time ("manifest") or after a batch it has applied ("next").
CommitInProgress == \E t \in FlushThreads : flusher[t].pc \in {"manifest", "next"}

\* The run is written.  Its memtables are marked; the thread commits unless
\* another one does or an older memtable is not completed.
FlushMemTableToOutputFile(t) ==
    /\ flusher[t].pc = "writing"
    /\ \E marked \in {[i \in 1..Len(imm) |->
                         IF imm[i].epoch = flusher[t].epoch
                         THEN [imm[i] EXCEPT !.state = "completed"] ELSE imm[i]]} :
          IF CommitInProgress \/ Batch(marked) = {}
          THEN /\ InstallSuperVersionAndScheduleWork(bg, marked, files)
               /\ flusher' = [flusher EXCEPT ![t].pc = "cleanup"]
          ELSE /\ imm' = marked
               /\ flusher' = [flusher EXCEPT ![t].pc = "manifest", ![t].batch = Batch(marked)]
               /\ UNCHANGED <<files, token, bg>>
    /\ UNCHANGED <<mem, nextEpoch, compactor, client, asleep, doubleChecked, failures>>

\* The manifest is written: the batch becomes part of the version and its
\* memtables go.  Meanwhile another thread may have completed the next ones.
\* They are a new batch, for which the mutex is released once more; otherwise
\* the thread installs a superversion before it releases the mutex.
TryInstallMemtableFlushResults(t) ==
    /\ flusher[t].pc \in {"manifest", "next"}
    /\ \E left \in {SelectSeq(imm, LAMBDA m : m.epoch \notin flusher[t].batch)},
          runs \in {FoldSet(LAMBDA e, fs : AddRun(fs, FlushedRun(imm, e)), files, flusher[t].batch)} :
          IF Batch(left) = {}
          THEN /\ InstallSuperVersionAndScheduleWork(bg, left, runs)
               /\ flusher' = [flusher EXCEPT ![t].pc = "cleanup"]
          ELSE /\ imm' = left
               /\ files' = runs
               /\ flusher' = [flusher EXCEPT ![t].pc = "next", ![t].batch = Batch(left)]
               /\ UNCHANGED <<token, bg>>
    /\ UNCHANGED <<mem, nextEpoch, compactor, client, asleep, doubleChecked, failures>>

BackgroundCallFlushSilent(t) ==   \* faulty: wakes nobody
    /\ flusher[t].pc = "cleanup"
    /\ flusher' = [flusher EXCEPT ![t] = IdleFlusher]
    /\ bg' = MaybeScheduleFlushOrCompaction([bg EXCEPT !.flushesScheduled = @ - 1], token)
    /\ UNCHANGED <<mem, imm, files, nextEpoch, token, compactor, client, asleep, doubleChecked, failures>>

\* The end of the job: counters, more work, and the waiters on bg_cv_ wake up.
BackgroundCallFlush(t) ==
    /\ flusher[t].pc = "cleanup"
    /\ flusher' = [flusher EXCEPT ![t] = IdleFlusher]
    /\ bg' = MaybeScheduleFlushOrCompaction([bg EXCEPT !.flushesScheduled = @ - 1], token)
    /\ asleep' = FALSE
    /\ UNCHANGED <<mem, imm, files, nextEpoch, token, compactor, client, doubleChecked, failures>>

-----------------------------------------------------------------------------
(* Compaction threads.                                                     *)

OutputsInProgress == {compactor[t].output : t \in {u \in CompactionThreads : compactor[u].pc = "running"}}

IdleThread == [pc |-> "idle", inputs |-> {}, output |-> 0]

\* A thread takes a scheduled job, pops the column family and picks.  When the
\* runs left idle need another compaction, the column family is queued again.
BackgroundCompaction(t) ==
    /\ compactor[t].pc = "idle"
    /\ bg.compactionsScheduled > RunningCompactions
    /\ \E c \in {PickCompaction(files, OutputsInProgress)} :
       \E popped \in {[bg EXCEPT !.compactionQueued = FALSE]} :
          IF bg.compactionQueued /\ c # NoCompaction
          THEN /\ compactor' = [compactor EXCEPT ![t] =
                      [pc |-> "running", output |-> c.output,
                       inputs |-> {files[k].epoch : k \in c.first..c.last}]]
               /\ files' = [k \in 1..Len(files) |->
                             IF k \in c.first..c.last
                             THEN [files[k] EXCEPT !.busy = TRUE] ELSE files[k]]
               /\ bg' = IF NeedsCompaction(files')
                        THEN MaybeScheduleFlushOrCompaction(
                                 SchedulePendingCompaction(popped, files'), token)
                        ELSE popped
          ELSE /\ compactor' = [compactor EXCEPT ![t].pc = "cleanup"]
               /\ bg' = popped
               /\ UNCHANGED files
    /\ UNCHANGED <<mem, imm, nextEpoch, token, flusher, client, asleep, doubleChecked, failures>>

\* The output takes the smallest epoch of its inputs.
CompactedRun(fs, output) ==
    [level |-> output, epoch |-> Min({f.epoch : f \in fs}),
     lo |-> Min({f.lo : f \in fs}), hi |-> Max({f.hi : f \in fs}),
     size |-> MapThenSumSet(LAMBDA f : f.size, fs), busy |-> FALSE]

\* CompactionJob::Install and the scheduling after it.
InstallCompaction(t) ==
    LET inputs == compactor[t].inputs
        merged == {f \in {files[k] : k \in 1..Len(files)} : f.epoch \in inputs}
    IN  /\ compactor[t].pc = "running"
        /\ InstallSuperVersionAndScheduleWork(bg, imm,
               AddRun(SelectSeq(files, LAMBDA f : f.epoch \notin inputs),
                      CompactedRun(merged, compactor[t].output)))
        /\ compactor' = [compactor EXCEPT ![t] = [IdleThread EXCEPT !.pc = "progress"]]
        /\ UNCHANGED <<mem, nextEpoch, flusher, client, asleep, doubleChecked, failures>>

\* A retryable I/O error: SetBGError records nothing, the inputs are released,
\* the column family is queued again, and waiters are woken before the thread
\* sleeps for a second.
CompactionError(t) ==
    /\ compactor[t].pc = "running"
    /\ failures < MaxFailures
    /\ failures' = failures + 1
    /\ files' = [k \in 1..Len(files) |->
                   IF files[k].epoch \in compactor[t].inputs
                   THEN [files[k] EXCEPT !.busy = FALSE] ELSE files[k]]
    /\ bg' = IF bg.compactionQueued THEN bg
             ELSE [bg EXCEPT !.compactionQueued = TRUE, !.unscheduledCompactions = @ + 1]
    /\ asleep' = FALSE
    /\ compactor' = [compactor EXCEPT ![t] = [IdleThread EXCEPT !.pc = "progress"]]
    /\ UNCHANGED <<mem, imm, nextEpoch, token, flusher, client, doubleChecked>>

\* The end of the job.  Waiters wake up when it made progress, when it was the
\* last one, or when none is left to schedule.
BackgroundCallCompaction(t) ==
    LET after == MaybeScheduleFlushOrCompaction([bg EXCEPT !.compactionsScheduled = @ - 1], token)
    IN  /\ compactor[t].pc \in {"progress", "cleanup"}
        /\ compactor' = [compactor EXCEPT ![t] = IdleThread]
        /\ bg' = after
        /\ asleep' = (asleep /\ compactor[t].pc = "cleanup"
                        /\ after.compactionsScheduled > 0 /\ after.unscheduledCompactions > 0)
        /\ UNCHANGED <<mem, imm, files, nextEpoch, token, flusher, client, doubleChecked, failures>>

-----------------------------------------------------------------------------

Init ==
    /\ mem = [lo |-> 1, hi |-> 0]
    /\ imm = <<>>
    /\ files = <<>>
    /\ nextEpoch = 1
    /\ bg = [flushQueued |-> FALSE, unscheduledFlushes |-> 0, flushesScheduled |-> 0,
             compactionQueued |-> FALSE, unscheduledCompactions |-> 0, compactionsScheduled |-> 0]
    /\ token = "normal"
    /\ flusher = [t \in FlushThreads |-> IdleFlusher]
    /\ compactor = [t \in CompactionThreads |-> IdleThread]
    /\ client = "put"
    /\ asleep = FALSE
    /\ doubleChecked = FALSE
    /\ failures = 0

Client ==
    \/ ScheduleFlushes \/ DelayWrite \/ Put
    \/ WaitUntilFlushWouldNotStallWrites \/ FlushMemTable \/ WaitForFlushMemTables
    \/ PollRunningFlushes \/ PollRunningCompactions \/ PollFlushPending

FlushThread(t) ==
    \/ BackgroundFlush(t) \/ FlushMemTableToOutputFile(t)
    \/ TryInstallMemtableFlushResults(t) \/ BackgroundCallFlush(t)

CompactionThread(t) ==
    BackgroundCompaction(t) \/ InstallCompaction(t) \/ BackgroundCallCompaction(t)

\* The load is over; what the background still has to do it may do.
Done == client = "done" /\ UNCHANGED vars

Next ==
    \/ Client
    \/ \E t \in FlushThreads : FlushThread(t)
    \/ \E t \in CompactionThreads : CompactionThread(t) \/ CompactionError(t)
    \/ Done

\* Every thread that can run does; nothing forces a compaction to fail.
Spec ==
    /\ Init /\ [][Next]_vars
    /\ WF_vars(Client)
    /\ \A t \in FlushThreads : WF_vars(FlushThread(t))
    /\ \A t \in CompactionThreads : WF_vars(CompactionThread(t))

-----------------------------------------------------------------------------
(* Properties.                                                             *)

\* Runs, immutable memtables and the active memtable, read from the oldest run
\* on, hold the puts in the order they were made, each exactly once, and
\* a level below L0 is a single run: no interleaving of flushes that
\* finish out of order and compactions whose output level was chosen earlier
\* loses a put or lets an old value hide a new one.
PutsInOrder ==
    LET oldest == [k \in 1..Len(files) |-> files[Len(files) + 1 - k]]
        all == oldest \o imm \o <<mem>>
    IN  /\ \A k \in 1..Len(files) : files[k].size = files[k].hi - files[k].lo + 1
        /\ \A k \in 2..Len(files) : files[k].level = 0 \/ files[k - 1].level < files[k].level
        /\ all[1].lo = 1
        /\ \A k \in 1..(Len(all) - 1) : all[k].hi + 1 = all[k + 1].lo

\* Some thread has applied a batch and writes the manifest for the next one: the
\* version and the memtables have changed, no superversion is installed yet.
BetweenBatches == \E t \in FlushThreads : flusher[t].pc = "next"

\* A compaction the picker would choose is never forgotten: some job that has
\* not picked yet is scheduled or waits for its turn, or the flush thread whose
\* run made it eligible is between two batches and has still to schedule.
EligibleCompactionHasJob ==
    PickCompaction(files, OutputsInProgress) # NoCompaction
        => \/ bg.unscheduledCompactions + bg.compactionsScheduled > RunningCompactions
           \/ BetweenBatches

\* Whoever has a place in a queue has exactly one job that will serve it, so a
\* request is neither lost nor served twice.
QueuesMatchJobs ==
    /\ bg.unscheduledFlushes + bg.flushesScheduled - RunningFlushes
           = IF bg.flushQueued THEN 1 ELSE 0
    /\ bg.unscheduledCompactions + bg.compactionsScheduled - RunningCompactions
           = IF bg.compactionQueued THEN 1 ELSE 0
    /\ bg.flushQueued => IsFlushPending(imm)

\* The stall the writers obey is the one the memtables and runs call for.  It
\* outlives its cause only while a flush thread is between two batches, which
\* it releases the mutex for without recomputing the stall.
StallIsCurrent == token = StallToken(Len(imm), Len(files)) \/ BetweenBatches

\* A client that waits on bg_cv_ waits for a job that exists.
WaiterHasJob ==
    asleep => \/ bg.unscheduledFlushes + bg.flushesScheduled > 0
              \/ bg.unscheduledCompactions + bg.compactionsScheduled > 0

\* Every load comes to its end.
LoadCompletes == <>(client = "done")

=============================================================================
