---------------------------- MODULE MemTableList ----------------------------
(***************************************************************************)
(* The immutable memtables of a column family (memtable_list.cc): which    *)
(* are being flushed, which have been, and in which order their files are  *)
(* recorded.  Each operation runs under the database mutex; FlushJobs says *)
(* who calls it when.  memlist holds memtable numbers, the oldest first.   *)
(* Flushes are not atomic over column families, there is no mempurge, and  *)
(* min_write_buffer_number_to_merge is 1.                                  *)
(***************************************************************************)
EXTENDS Integers, Sequences, FiniteSetsExt, Functions

CONSTANT MemTable

VARIABLES
    memlist,
    in_progress, completed,     \* memtables with flush_in_progress_, flush_completed_
    file_number,                \* file_number_ of each memtable, 0 when none
    num_flush_not_started,
    imm_flush_needed,
    commit_in_progress

listVars == <<memlist, in_progress, completed, file_number, num_flush_not_started, imm_flush_needed,
              commit_in_progress>>

ListInit ==
    /\ memlist = <<>>
    /\ in_progress = {} /\ completed = {}
    /\ file_number = [m \in MemTable |-> 0]
    /\ num_flush_not_started = 0
    /\ imm_flush_needed = FALSE
    /\ commit_in_progress = FALSE

IsFlushPending == num_flush_not_started >= 1

Add(m) ==
    /\ memlist' = Append(memlist, m)
    /\ num_flush_not_started' = num_flush_not_started + 1
    /\ imm_flush_needed' = (num_flush_not_started + 1 = 1 \/ imm_flush_needed)
    /\ UNCHANGED <<in_progress, completed, file_number, commit_in_progress>>

NotStarted(i) == memlist[i] \notin in_progress

PickedOldest ==   \* faulty: one memtable for each request
    SelectSeq(memlist, LAMBDA m : m = Min(Range(memlist) \ in_progress))

\* The oldest memtables not being flushed, up to the first that is.
Picked ==
    LET waiting == {i \in DOMAIN memlist : NotStarted(i)}
        first == Min(waiting)
        last == Max({i \in waiting : \A k \in first..i : NotStarted(k)})
    IN  IF waiting = {} THEN <<>> ELSE SubSeq(memlist, first, last)

PickMemtablesToFlush ==
    /\ in_progress' = in_progress \union Range(Picked)
    /\ num_flush_not_started' = num_flush_not_started - Len(Picked)
    /\ imm_flush_needed' = (imm_flush_needed /\ num_flush_not_started' # 0)
    /\ UNCHANGED <<memlist, completed, file_number, commit_in_progress>>

\* The memtables at the positions after k, up to the first not completed.
CompletedAfter(k) ==
    {memlist[i] : i \in {i \in (k + 1)..Len(memlist) : \A n \in (k + 1)..i : memlist[n] \in completed}}

\* Where the loop of RollbackMemtableFlush starts: after the first of mems.
Succeeding(mems) == CompletedAfter(CHOOSE k \in DOMAIN memlist : memlist[k] = mems[1])

\* Memtables back to the state in which a flush picks them.
Restore(undone) ==
    /\ in_progress' = in_progress \ undone
    /\ completed' = completed \ undone
    /\ file_number' = [m \in MemTable |-> IF m \in undone THEN 0 ELSE file_number[m]]
    /\ num_flush_not_started' = num_flush_not_started + Cardinality(undone)
    /\ imm_flush_needed' = TRUE

RollbackMemtableFlush(mems) ==
    /\ Restore(Succeeding(mems) \union (Range(mems) \intersect in_progress))
    /\ UNCHANGED <<memlist, commit_in_progress>>

\* How many memtables, from the oldest, a commit records.
BatchCount(list, done) == Max({0} \union {i \in DOMAIN list : \A k \in 1..i : list[k] \in done})

\* TryInstallMemtableFlushResults up to the manifest write: another thread
\* commits, or this one does if the oldest memtable is among those flushed.
TryInstall(mems, file) ==
    /\ completed' = completed \union Range(mems)
    /\ file_number' = [m \in MemTable |-> IF m \in Range(mems) THEN file ELSE file_number[m]]
    /\ commit_in_progress' = (commit_in_progress \/ BatchCount(memlist, completed') > 0)
    /\ UNCHANGED <<memlist, in_progress, num_flush_not_started, imm_flush_needed>>

RemainingTooFew(batch) == SubSeq(memlist, batch + 2, Len(memlist))   \* faulty: one too many goes
RemainingYoungest(batch) == SubSeq(memlist, batch, Len(memlist))     \* faulty: one too few goes

\* What is left when a batch is removed from the end of the list.
Remaining(batch) == SubSeq(memlist, batch + 1, Len(memlist))

RemoveMemTablesOnce(batch) ==   \* faulty: no further pass of the loop
    /\ memlist' = Remaining(batch)
    /\ in_progress' = in_progress \intersect Range(memlist')
    /\ completed' = completed \intersect Range(memlist')
    /\ commit_in_progress' = FALSE
    /\ UNCHANGED <<file_number, num_flush_not_started, imm_flush_needed>>

\* RemoveMemTablesOrRestoreFlags when the manifest was written, and the next
\* pass of the loop: more memtables may have been completed meanwhile.
RemoveMemTables(batch) ==
    /\ memlist' = Remaining(batch)
    /\ in_progress' = in_progress \intersect Range(memlist')
    /\ completed' = completed \intersect Range(memlist')
    /\ commit_in_progress' = (memlist' # <<>> /\ Head(memlist') \in completed)
    /\ UNCHANGED <<file_number, num_flush_not_started, imm_flush_needed>>

\* The same when it was not: the loop ends.
RestoreFlags(batch) ==
    /\ Restore(Range(SubSeq(memlist, 1, batch)))
    /\ commit_in_progress' = FALSE
    /\ UNCHANGED memlist

=============================================================================
