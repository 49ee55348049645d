--------------------------- MODULE FlushJobsProofs ---------------------------
(***************************************************************************)
(* Proofs about FlushJobs, for every number of memtables, flush threads    *)
(* and failures: memtables are recorded in the order in which they were    *)
(* created, each in exactly one file, and no completed flush waits for a   *)
(* commit that nobody makes.  The list is always an interval of numbers,   *)
(* the memtables below it are those recorded, and the completed ones form  *)
(* groups, one for each file, that are recorded or undone as a whole.      *)
(***************************************************************************)
EXTENDS FlushJobs, FiniteSetTheorems, SequenceTheorems, WellFoundedInduction, TLAPS

-----------------------------------------------------------------------------
(* The inductive invariant.                                                *)

\* The memtables that have left the list are 1..Base.
Base == added - Len(memlist)

Convex(S) == \A a, b \in S : a..b \subseteq S

\* The list holds the youngest memtables, in order, and the flags are those of
\* memtables in the list.
ListOK ==
    /\ added \in Nat /\ 1..added \subseteq MemTable
    /\ memlist \in Seq(Nat) /\ Base \in Nat
    /\ \A i \in 1..Len(memlist) : memlist[i] = Base + i
    /\ completed \subseteq in_progress
    /\ in_progress \subseteq (Base + 1)..added
    /\ num_flush_not_started = Cardinality(((Base + 1)..added) \ in_progress)
    /\ DOMAIN file_number = MemTable

FilesOK ==
    /\ next_file \in Nat \ {0}
    /\ content \in Seq(SUBSET Nat) /\ Len(content) = next_file - 1

JobsOK ==
    /\ DOMAIN job = Thread
    /\ \A t \in Thread : job[t].pc \in {"none", "scheduled", "write", "manifest", "sleep", "join", "purge"}

\* A job that writes has consecutive memtables that nobody else has, and its file
\* holds just these.
WritersOK ==
    \A t \in Thread : job[t].pc = "write" =>
        /\ job[t].mems \in Seq(Nat) /\ job[t].mems # <<>>
        /\ job[t].file \in 1..(next_file - 1)
        /\ content[job[t].file] = Range(job[t].mems)
        /\ Convex(Range(job[t].mems))
        /\ Range(job[t].mems) \subseteq in_progress \ completed
        /\ \A u \in Thread \ {t} : job[u].pc = "write" => Range(job[u].mems) \intersect Range(job[t].mems) = {}

\* Completed memtables come in groups: all those of a file, which are consecutive.
GroupsOK ==
    \A m \in completed :
        /\ file_number[m] \in 1..(next_file - 1)
        /\ m \in content[file_number[m]]
        /\ content[file_number[m]] \subseteq completed
        /\ Convex(content[file_number[m]])
        /\ \A n \in content[file_number[m]] : file_number[n] = file_number[m]

Batch(t) == (Base + 1)..(Base + job[t].batch)

\* One thread commits, the oldest memtables and whole groups of them.
CommitterOK ==
    /\ commit_in_progress \in BOOLEAN
    /\ commit_in_progress <=> \E t \in Thread : job[t].pc = "manifest"
    /\ \A t, u \in Thread : job[t].pc = "manifest" /\ job[u].pc = "manifest" => t = u
    /\ \A t \in Thread : job[t].pc = "manifest" =>
           /\ job[t].batch \in 1..Len(memlist)
           /\ Batch(t) \subseteq completed
           /\ \A m \in Batch(t) : content[file_number[m]] \subseteq Batch(t)
           /\ {job[t].edits[n].file : n \in DOMAIN job[t].edits} = {file_number[m] : m \in Batch(t)}

\* The files of the version divide the memtables that have left the list.
LiveOK ==
    /\ live \subseteq 1..(next_file - 1)
    /\ \A f \in live : content[f] \subseteq 1..Base
    /\ \A m \in 1..Base : \E f \in live : m \in content[f]
    /\ \A f, g \in live : content[f] \intersect content[g] # {} => f = g

\* The oldest memtable is completed only while somebody commits.
CommitNotLost == Base + 1 \in completed => commit_in_progress

Inv ==
    /\ ListOK
    /\ FilesOK
    /\ JobsOK
    /\ WritersOK
    /\ GroupsOK
    /\ CommitterOK
    /\ LiveOK
    /\ CommitNotLost

-----------------------------------------------------------------------------
(* Least and greatest numbers, which the code finds by scanning a list.    *)

\* An element with none below it, in a relation that contains the order of the
\* numbers, is the least.
LEMMA MinimalIsLeast ==
    ASSUME NEW R, \A x, y \in Nat : x < y => <<x, y>> \in R,
           NEW S \in SUBSET Nat, \E x \in S : \A y \in S : ~ (<<y, x>> \in R)
    PROVE  \E x \in S : \A y \in S : x <= y
<1> PICK x \in S : \A y \in S : ~ (<<y, x>> \in R)
  OBVIOUS
<1>1. \A y \in S : ~ (y < x)
  BY Zenon
<1>2. \A y \in S : x <= y
  BY <1>1
<1> QED BY <1>2

\* A set of natural numbers has a least element.
LEMMA LeastExists ==
    ASSUME NEW S \in SUBSET Nat, S # {}
    PROVE  \E x \in S : \A y \in S : x <= y
<1>1. \A x, y \in Nat : x < y => <<x, y>> \in OpToRel(<, Nat)
  BY DEF OpToRel
<1>2. \E x \in S : \A y \in S : ~ (<<y, x>> \in OpToRel(<, Nat))
  BY NatLessThanWellFounded, WFMin, Zenon
<1> QED BY <1>1, <1>2, MinimalIsLeast, Zenon

\* Min is the least element.
LEMMA MinIsLeast ==
    ASSUME NEW S \in SUBSET Nat, S # {}
    PROVE  Min(S) \in S /\ \A y \in S : Min(S) <= y
BY LeastExists, Zenon DEF Min

\* Max is the greatest element of a bounded set.
LEMMA MaxIsGreatest ==
    ASSUME NEW n \in Nat, NEW S \in SUBSET 0..n, S # {}
    PROVE  Max(S) \in S /\ \A y \in S : y <= Max(S)
<1> DEFINE R == {k \in Nat : n - k \in S}
<1>1. R # {}
  <2>1. PICK x \in S : TRUE
    BY Zenon
  <2>2. n - x \in Nat /\ n - (n - x) = x
    OBVIOUS
  <2> QED BY <2>2, Zenon
<1>2. PICK k \in R : \A j \in R : k <= j
  BY <1>1, LeastExists, Zenon
<1>3. \A y \in S : y <= n - k
  <2> SUFFICES ASSUME NEW y \in S PROVE y <= n - k
      OBVIOUS
  <2>1. n - y \in Nat /\ n - (n - y) = y
    OBVIOUS
  <2>2. k <= n - y
    BY <1>2, <2>1
  <2> QED BY <1>2, <2>2
<1>4. \E x \in S : \A y \in S : x >= y
  <2>1. n - k \in S /\ n - k \in Int
    BY <1>2
  <2> QED BY <1>3, <2>1
<1>5. Max(S) \in S /\ \A y \in S : Max(S) >= y
  BY <1>4, Zenon DEF Max
<1> QED BY <1>5

-----------------------------------------------------------------------------
(* The list.                                                               *)

\* The list is the interval of the memtables above Base.
LEMMA ListIsInterval ==
    ASSUME ListOK
    PROVE  /\ Len(memlist) \in Nat /\ DOMAIN memlist = 1..Len(memlist)
           /\ Range(memlist) = (Base + 1)..added
           /\ added = Base + Len(memlist)
<1>1. Len(memlist) \in Nat /\ DOMAIN memlist = 1..Len(memlist)
  BY DEF ListOK
<1>2. added = Base + Len(memlist)
  BY <1>1 DEF ListOK, Base
<1>3. ASSUME NEW m \in (Base + 1)..added PROVE m \in Range(memlist)
  <2>1. m - Base \in 1..Len(memlist) /\ Base + (m - Base) = m
    BY <1>1, <1>2 DEF ListOK
  <2>2. memlist[m - Base] = m
    BY <2>1 DEF ListOK
  <2> QED BY <1>1, <2>1, <2>2 DEF Range
<1>4. ASSUME NEW m \in Range(memlist) PROVE m \in (Base + 1)..added
  <2>1. PICK i \in 1..Len(memlist) : m = memlist[i]
    BY <1>1 DEF Range
  <2>2. m = Base + i
    BY <2>1 DEF ListOK
  <2> QED BY <1>1, <1>2, <2>1, <2>2 DEF ListOK
<1> QED BY <1>1, <1>2, <1>3, <1>4, Zenon

\* Part of the list is an interval too (PickMemtablesToFlush takes consecutive
\* memtables).
LEMMA PartIsInterval ==
    ASSUME ListOK, NEW a \in 1..Len(memlist), NEW b \in 0..Len(memlist)
    PROVE  /\ SubSeq(memlist, a, b) \in Seq(Nat)
           /\ Len(SubSeq(memlist, a, b)) = IF a <= b THEN b - a + 1 ELSE 0
           /\ \A i \in 1..(b - a + 1) : SubSeq(memlist, a, b)[i] = Base + a + i - 1
           /\ Range(SubSeq(memlist, a, b)) = (Base + a)..(Base + b)
<1>1. Len(memlist) \in Nat /\ Base \in Nat /\ \A i \in a..b : memlist[i] \in Nat /\ memlist[i] = Base + i
  <2>1. Len(memlist) \in Nat /\ Base \in Nat
    BY ListIsInterval DEF ListOK
  <2>2. a..b \subseteq 1..Len(memlist)
    BY <2>1
  <2>3. \A i \in 1..Len(memlist) : memlist[i] = Base + i
    BY Zenon DEF ListOK
  <2>4. \A i \in 1..Len(memlist) : Base + i \in Nat
    BY <2>1
  <2> QED BY <2>1, <2>2, <2>3, <2>4, Zenon
<1> DEFINE s == SubSeq(memlist, a, b)
<1>2. /\ s \in Seq(Nat)
      /\ Len(s) = IF a <= b THEN b - a + 1 ELSE 0
      /\ \A i \in 1..(b - a + 1) : s[i] = memlist[a + i - 1]
  BY <1>1, SubSeqProperties
<1>3. \A i \in 1..(b - a + 1) : s[i] = Base + a + i - 1
  BY <1>1, <1>2
<1>4. DOMAIN s = 1..(b - a + 1)
  BY <1>2
<1> HIDE DEF s
<1>5. ASSUME NEW m \in Range(s) PROVE m \in (Base + a)..(Base + b)
  <2>1. PICK i \in 1..(b - a + 1) : m = s[i]
    BY <1>4 DEF Range
  <2> QED BY <1>1, <1>3, <2>1
<1>6. ASSUME NEW m \in (Base + a)..(Base + b) PROVE m \in Range(s)
  <2>1. m - Base - a + 1 \in 1..(b - a + 1)
    BY <1>1
  <2>2. s[m - Base - a + 1] = m
    BY <1>1, <1>3, <2>1
  <2> QED BY <1>4, <2>1, <2>2 DEF Range
<1> QED BY <1>2, <1>3, <1>5, <1>6, Zenon DEF s

\* What is left of a list of memtables after its first ones are removed.
LEMMA TailOfList ==
    ASSUME NEW list, NEW n \in Int, NEW k \in Int, \A i \in n..k : list[i] \in Nat
    PROVE  /\ SubSeq(list, n, k) \in Seq(Nat)
           /\ Len(SubSeq(list, n, k)) = IF n <= k THEN k - n + 1 ELSE 0
           /\ \A i \in 1..(k - n + 1) : SubSeq(list, n, k)[i] = list[n + i - 1]
BY SubSeqProperties

\* Memtables are numbered in the order in which they were made.
LEMMA YoungerIsNotOlder == \A x, y \in Int : x < y => ~ (y < x)
OBVIOUS

\* An empty list of memtables (autovector::empty) holds none.
LEMMA EmptyRange == Range(<<>>) = {}
BY DEF Range

\* PickMemtablesToFlush finds memtables to flush whenever IsFlushPending says so,
\* and those it takes are consecutive and not being flushed.
LEMMA PickedIsWaiting ==
    ASSUME ListOK, IsFlushPending
    PROVE  \E a, b \in 1..Len(memlist) :
               a <= b /\ Picked = SubSeq(memlist, a, b) /\ \A i \in a..b : memlist[i] \notin in_progress
<1> DEFINE waiting == {i \in DOMAIN memlist : NotStarted(i)}
           first == Min(waiting)
           run == {i \in waiting : \A k \in first..i : NotStarted(k)}
<1>1. Len(memlist) \in Nat /\ DOMAIN memlist = 1..Len(memlist) /\ Range(memlist) = (Base + 1)..added
  BY ListIsInterval
<1>2. waiting # {}
  <2>1. ((Base + 1)..added) \ in_progress # {}
    <3>1. Cardinality(((Base + 1)..added) \ in_progress) # 0
      BY DEF ListOK, IsFlushPending
    <3> QED BY <3>1, FS_EmptySet
  <2> QED BY <1>1, <2>1 DEF NotStarted, Range
<1>3. first \in waiting /\ \A y \in waiting : first <= y
  <2>1. waiting \in SUBSET Nat
    BY <1>1
  <2> HIDE DEF waiting
  <2> QED BY <1>2, <2>1, MinIsLeast
<1>4. run \in SUBSET (0..Len(memlist)) /\ first \in run
  <2>1. first \in 1..Len(memlist) /\ NotStarted(first)
    BY <1>1, <1>3
  <2>2. \A k \in first..first : NotStarted(k)
    BY <2>1
  <2>3. run \in SUBSET (0..Len(memlist))
    BY <1>1
  <2> HIDE DEF waiting, first
  <2> QED BY <1>3, <2>2, <2>3, Zenon
<1>5. Max(run) \in run /\ \A y \in run : y <= Max(run)
  BY <1>1, <1>4, MaxIsGreatest, Zenon
<1>6. Picked = SubSeq(memlist, first, Max(run))
  BY <1>2, Zenon DEF Picked
<1> HIDE DEF waiting, first, run
<1>7. first \in 1..Len(memlist) /\ Max(run) \in 1..Len(memlist) /\ first <= Max(run)
  BY <1>1, <1>3, <1>4, <1>5 DEF waiting, run
<1>8. \A i \in first..Max(run) : memlist[i] \notin in_progress
  BY <1>5 DEF run, NotStarted
<1> QED BY <1>6, <1>7, <1>8

\* BatchCount is the length of the longest completed prefix of the list.
LEMMA BatchIsLongest ==
    ASSUME NEW list \in Seq(Nat), NEW done
    PROVE  /\ BatchCount(list, done) \in 0..Len(list)
           /\ \A k \in 1..BatchCount(list, done) : list[k] \in done
           /\ \A i \in 1..Len(list) : (\A k \in 1..i : list[k] \in done) => i <= BatchCount(list, done)
<1> DEFINE S == {0} \union {i \in DOMAIN list : \A k \in 1..i : list[k] \in done}
<1>1. Len(list) \in Nat /\ DOMAIN list = 1..Len(list)
  OBVIOUS
<1>2. S \in SUBSET (0..Len(list)) /\ S # {}
  BY <1>1
<1>3. Max(S) \in S /\ \A y \in S : y <= Max(S)
  BY <1>1, <1>2, MaxIsGreatest, Zenon
<1>4. BatchCount(list, done) = Max(S)
  BY DEF BatchCount
<1>5. \A k \in 1..Max(S) : list[k] \in done
  BY <1>3
<1>6. \A i \in 1..Len(list) : (\A k \in 1..i : list[k] \in done) => i \in S
  BY <1>1
<1> HIDE DEF S
<1> QED BY <1>1, <1>2, <1>3, <1>4, <1>5, <1>6, Zenon

-----------------------------------------------------------------------------
(* Jobs that neither write nor commit hold nothing of the list.            *)

Busy(r) == r.pc \in {"write", "manifest"}

OthersKept(t) == \A u \in Thread \ {t} : Busy(job[u]) \/ Busy(job'[u]) => job'[u] = job[u]

\* MaybeScheduleFlushOrCompaction gives a request to a free thread and disturbs
\* no other.
LEMMA SchedulingKeepsJobs ==
    ASSUME NEW jobs, NEW unscheduled, DOMAIN jobs = Thread,
           \A u \in Thread : jobs[u].pc \in {"none", "scheduled", "write", "manifest", "sleep", "join", "purge"},
           MaybeSchedule(jobs, unscheduled)
    PROVE  /\ JobsOK'
           /\ \A u \in Thread : Busy(jobs[u]) \/ Busy(job'[u]) => job'[u] = jobs[u]
<1> DEFINE free == {t \in Thread : jobs[t].pc = "none"}
<1>1. job' = jobs \/ (free # {} /\ job' = [jobs EXCEPT ![Min(free)] = [pc |-> "scheduled"]])
  BY DEF MaybeSchedule
<1>2. CASE job' = jobs
  BY <1>2 DEF JobsOK, Busy, Thread
<1>3. CASE free # {} /\ job' = [jobs EXCEPT ![Min(free)] = [pc |-> "scheduled"]]
  <2>1. free \in SUBSET Nat
    BY FlushAssumption DEF Thread
  <2>2. Min(free) \in free
    BY <1>3, <2>1, MinIsLeast
  <2> DEFINE w == Min(free)
  <2>3. w \in Thread /\ jobs[w].pc = "none"
    BY <2>2
  <2> HIDE DEF free, w
  <2>4. job' = [jobs EXCEPT ![w] = [pc |-> "scheduled"]]
    BY <1>3 DEF w
  <2>5. /\ DOMAIN job' = Thread
        /\ job'[w] = [pc |-> "scheduled"]
        /\ \A u \in Thread \ {w} : job'[u] = jobs[u]
    BY <2>3, <2>4
  <2>6. \A u \in Thread : job'[u].pc \in {"none", "scheduled", "write", "manifest", "sleep", "join", "purge"}
    BY <2>5
  <2>7. ~ Busy(jobs[w]) /\ ~ Busy(job'[w])
    BY <2>3, <2>5 DEF Busy
  <2>8. \A u \in Thread : Busy(jobs[u]) \/ Busy(job'[u]) => job'[u] = jobs[u]
    BY <2>5, <2>7
  <2>9. JobsOK'
    BY <2>5, <2>6 DEF JobsOK, Thread
  <2> QED BY <2>8, <2>9
<1> QED BY <1>1, <1>2, <1>3

\* A thread that has looked for obsolete files has no memtables any more.
LEMMA PurgingKeepsJobs ==
    ASSUME JobsOK, NEW t \in Thread, NEW force, NEW version, Purging(t, force, version)
    PROVE  JobsOK' /\ OthersKept(t) /\ ~ Busy(job'[t])
<1> PICK found : LET jobs == [job EXCEPT ![t] = [pc |-> "purge", files |-> found]]
                 IN  IF force THEN job' = jobs /\ UNCHANGED unscheduled_flushes
                     ELSE MaybeSchedule(jobs, unscheduled_flushes)
  BY Zenon DEF Purging
<1> DEFINE jobs == [job EXCEPT ![t] = [pc |-> "purge", files |-> found]]
<1>1. job' = jobs \/ MaybeSchedule(jobs, unscheduled_flushes)
  OBVIOUS
<1>2. /\ DOMAIN jobs = Thread
      /\ jobs[t].pc = "purge"
      /\ \A u \in Thread \ {t} : jobs[u] = job[u]
  BY DEF JobsOK
<1>3. \A u \in Thread : jobs[u].pc \in {"none", "scheduled", "write", "manifest", "sleep", "join", "purge"}
  BY <1>2 DEF JobsOK
<1> HIDE DEF jobs
<1>4. JobsOK' /\ \A u \in Thread : Busy(jobs[u]) \/ Busy(job'[u]) => job'[u] = jobs[u]
  <2>1. CASE job' = jobs
    BY <1>2, <1>3, <2>1 DEF JobsOK, Thread
  <2>2. CASE MaybeSchedule(jobs, unscheduled_flushes)
    BY <1>2, <1>3, <2>2, SchedulingKeepsJobs
  <2> QED BY <1>1, <2>1, <2>2
<1>5. ~ Busy(jobs[t])
  BY <1>2 DEF Busy
<1> QED BY <1>2, <1>4, <1>5 DEF OthersKept

\* Nor has a thread whose flush failed.
LEMMA FailingKeepsJobs ==
    ASSUME JobsOK, NEW t \in Thread, Failed(t)
    PROVE  JobsOK' /\ OthersKept(t) /\ ~ Busy(job'[t])
<1>1. /\ DOMAIN job' = Thread
      /\ \A u \in Thread \ {t} : job'[u] = job[u]
      /\ job'[t].pc = IF recovery.pc \in {"catchup", "end"} THEN "join" ELSE "sleep"
  BY DEF JobsOK, Failed
<1>2. job'[t].pc \in {"join", "sleep"}
  BY <1>1
<1>3. JobsOK'
  BY <1>1, <1>2 DEF JobsOK, Thread
<1> QED BY <1>1, <1>2, <1>3 DEF Busy, OthersKept

\* The thread that commits is not disturbed by what leaves its batch alone.
LEMMA CommitterIsKept ==
    ASSUME Inv, Base' = Base, commit_in_progress' = commit_in_progress,
           Len(memlist) \in Nat, Len(memlist') \in Nat, Len(memlist') >= Len(memlist),
           \A u \in Thread : job[u].pc = "manifest" \/ job'[u].pc = "manifest" => job'[u] = job[u],
           \A u \in Thread : job[u].pc = "manifest" =>
               \A m \in Batch(u) : /\ m \in completed' /\ file_number'[m] = file_number[m]
                                  /\ content'[file_number[m]] = content[file_number[m]]
    PROVE  CommitterOK'
<1>1. \A u \in Thread : job'[u].pc = "manifest" <=> job[u].pc = "manifest"
  OBVIOUS
<1>2. commit_in_progress' \in BOOLEAN
  BY DEF Inv, CommitterOK
<1>3. commit_in_progress' <=> \E u \in Thread : job'[u].pc = "manifest"
  BY <1>1 DEF Inv, CommitterOK
<1>4. \A t, u \in Thread : job'[t].pc = "manifest" /\ job'[u].pc = "manifest" => t = u
  BY <1>1 DEF Inv, CommitterOK
<1>5. ASSUME NEW t \in Thread, job'[t].pc = "manifest"
      PROVE  /\ job'[t].batch \in 1..Len(memlist')
             /\ Batch(t)' \subseteq completed'
             /\ \A m \in Batch(t)' : content'[file_number'[m]] \subseteq Batch(t)'
             /\ {job'[t].edits[n].file : n \in DOMAIN job'[t].edits} = {file_number'[m] : m \in Batch(t)'}
  <2>1. job'[t] = job[t] /\ job[t].pc = "manifest"
    BY <1>5
  <2>2. Batch(t)' = Batch(t)
    BY <2>1 DEF Batch
  <2>3. /\ job[t].batch \in 1..Len(memlist)
        /\ \A m \in Batch(t) : content[file_number[m]] \subseteq Batch(t)
        /\ {job[t].edits[n].file : n \in DOMAIN job[t].edits} = {file_number[m] : m \in Batch(t)}
    BY <2>1, Zenon DEF Inv, CommitterOK
  <2>4. \A m \in Batch(t) : m \in completed' /\ file_number'[m] = file_number[m] /\ content'[file_number[m]] = content[file_number[m]]
    BY <2>1
  <2>5. {job'[t].edits[n].file : n \in DOMAIN job'[t].edits} = {file_number'[m] : m \in Batch(t)'}
    <3>1. {file_number'[m] : m \in Batch(t)'} = {file_number[m] : m \in Batch(t)}
      BY <2>2, <2>4
    <3>2. {job'[t].edits[n].file : n \in DOMAIN job'[t].edits} = {job[t].edits[n].file : n \in DOMAIN job[t].edits}
      BY <2>1
    <3> QED BY <2>3, <3>1, <3>2, Zenon
  <2>6. job'[t].batch \in 1..Len(memlist')
    BY <2>1, <2>3
  <2>7. \A m \in Batch(t) : content'[file_number'[m]] \subseteq Batch(t)
    BY <2>3, <2>4
  <2>8. Batch(t) \subseteq completed'
    BY <2>4
  <2> QED BY <2>2, <2>5, <2>6, <2>7, <2>8
<1> QED BY <1>2, <1>3, <1>4, <1>5, Zenon DEF CommitterOK, Thread

\* The version is not disturbed by new files and new memtables.
LEMMA VersionIsKept ==
    ASSUME LiveOK, FilesOK, Base' = Base, live' = live,
           next_file' \in Nat, next_file' >= next_file,
           \A f \in 1..(next_file - 1) : content'[f] = content[f]
    PROVE  LiveOK'
<1>1. live' \subseteq 1..(next_file' - 1)
  <2>1. 1..(next_file - 1) \subseteq 1..(next_file' - 1)
    <3>1. next_file \in Nat
      BY DEF FilesOK
    <3>2. \A a, b \in Nat : b >= a => \A f \in 1..(a - 1) : f \in 1..(b - 1)
      OBVIOUS
    <3> QED BY <3>1, <3>2
  <2> QED BY <2>1, Zenon DEF LiveOK
<1>2. \A f \in live : content'[f] = content[f]
  BY DEF LiveOK
<1> QED BY <1>1, <1>2, Zenon DEF LiveOK

\* What neither touches the list and the files nor gives or takes the memtables
\* of a job keeps the invariant.
LEMMA FrameKeepsInv ==
    ASSUME Inv, UNCHANGED <<listVars, next_file, content, live, added>>, JobsOK',
           \A u \in Thread : Busy(job[u]) \/ Busy(job'[u]) => job'[u] = job[u]
    PROVE  Inv'
<1>1. UNCHANGED <<memlist, in_progress, completed, file_number, num_flush_not_started, commit_in_progress,
                  next_file, content, live, added, Base>>
  BY DEF listVars, Base
<1>2. ListOK' /\ FilesOK' /\ GroupsOK' /\ LiveOK' /\ CommitNotLost'
  BY <1>1 DEF Inv, ListOK, FilesOK, GroupsOK, LiveOK, CommitNotLost, Convex
<1>3. ASSUME NEW u \in Thread, job[u].pc = "write" \/ job'[u].pc = "write" PROVE job'[u] = job[u]
  BY <1>3 DEF Busy
<1>4. ASSUME NEW u \in Thread, job[u].pc = "manifest" \/ job'[u].pc = "manifest" PROVE job'[u] = job[u]
  BY <1>4 DEF Busy
<1>5. WritersOK'
  BY <1>1, <1>3, Zenon DEF Inv, WritersOK, Convex, Thread
<1>6. CommitterOK'
  <2>1. Len(memlist) \in Nat /\ Len(memlist') \in Nat /\ Len(memlist') >= Len(memlist)
    BY <1>1 DEF Inv, ListOK
  <2>2. \A u \in Thread : job[u].pc = "manifest" => Batch(u) \subseteq completed
    BY DEF Inv, CommitterOK
  <2> QED BY <1>1, <1>4, <2>1, <2>2, CommitterIsKept
<1> QED BY <1>2, <1>5, <1>6 DEF Inv

-----------------------------------------------------------------------------
(* The steps.                                                              *)

LEMMA InitEstablishes == Init => Inv
<1> SUFFICES ASSUME Init PROVE Inv
  OBVIOUS
<1>1. /\ memlist = <<>> /\ in_progress = {} /\ completed = {} /\ num_flush_not_started = 0
      /\ commit_in_progress = FALSE /\ added = 0 /\ next_file = 1 /\ content = <<>> /\ live = {}
      /\ DOMAIN file_number = MemTable /\ DOMAIN job = Thread
      /\ \A t \in Thread : job[t].pc = "none"
  BY DEF Init, ListInit, NoJob
<1>2. Base = 0
  <2>1. Len(memlist) = 0
    BY <1>1
  <2>2. added = 0
    BY <1>1
  <2> QED BY <2>1, <2>2 DEF Base
<1>3. ListOK
  <2>1. ((Base + 1)..added) \ in_progress = {}
    BY <1>1, <1>2
  <2>2. num_flush_not_started = Cardinality(((Base + 1)..added) \ in_progress)
    BY <1>1, <2>1, FS_EmptySet, Zenon
  <2> QED BY <1>1, <1>2, <2>2 DEF ListOK
<1>4. FilesOK /\ LiveOK /\ CommitNotLost
  BY <1>1, <1>2 DEF FilesOK, LiveOK, CommitNotLost
<1>5. JobsOK /\ WritersOK /\ GroupsOK /\ CommitterOK
  BY <1>1, Zenon DEF JobsOK, WritersOK, GroupsOK, CommitterOK
<1> QED BY <1>3, <1>4, <1>5 DEF Inv

\* A writer fills a memtable.
LEMMA SwitchKeepsInv ==
    ASSUME Inv, SwitchMemtable
    PROVE  Inv'
<1>1. /\ memlist \in Seq(Nat) /\ Len(memlist) \in Nat /\ added \in Nat /\ Base \in Nat
      /\ added = Base + Len(memlist)
  BY ListIsInterval DEF Inv, ListOK
<1>2. /\ memlist' = Append(memlist, added + 1) /\ added' = added + 1 /\ added + 1 \in MemTable
      /\ num_flush_not_started' = num_flush_not_started + 1
      /\ UNCHANGED <<in_progress, completed, file_number, commit_in_progress, next_file, content, live>>
  BY DEF SwitchMemtable, Add, fileVars, versionVars
<1>3. /\ memlist' \in Seq(Nat) /\ Len(memlist') = Len(memlist) + 1
      /\ \A i \in 1..Len(memlist) : memlist'[i] = memlist[i]
      /\ memlist'[Len(memlist) + 1] = added + 1
  BY <1>1, <1>2
<1>4. Base' = Base
  BY <1>1, <1>2, <1>3 DEF Base
<1>5. ListOK'
  <2>1. \A i \in 1..Len(memlist') : memlist'[i] = Base + i
    <3>1. \A i \in 1..Len(memlist) : memlist'[i] = Base + i
      BY <1>3 DEF Inv, ListOK
    <3>2. ASSUME NEW i \in 1..Len(memlist') PROVE i \in 1..Len(memlist) \/ i = Len(memlist) + 1
      <4>1. Len(memlist) \in Nat /\ Len(memlist') = Len(memlist) + 1
        BY <1>1, <1>3
      <4> QED BY <4>1
    <3>3. memlist'[Len(memlist) + 1] = Base + (Len(memlist) + 1)
      <4>1. added + 1 = Base + (Len(memlist) + 1)
        BY <1>1
      <4> QED BY <1>3, <4>1
    <3> QED BY <3>1, <3>2, <3>3
  <2>2. 1..added' \subseteq MemTable
    BY <1>1, <1>2 DEF Inv, ListOK
  <2>3. completed \subseteq in_progress /\ in_progress \subseteq (Base + 1)..added
    BY DEF Inv, ListOK
  <2>4. num_flush_not_started' = Cardinality(((Base + 1)..added') \ in_progress)
    <3> DEFINE W == ((Base + 1)..added) \ in_progress
    <3>1. IsFiniteSet(W)
      <4>1. IsFiniteSet((Base + 1)..added)
        BY <1>1, FS_Interval
      <4> QED BY <4>1, FS_Difference, Zenon
    <3>2. added + 1 \notin W /\ ((Base + 1)..added') \ in_progress = W \union {added + 1}
      BY <1>1, <1>2, <2>3
    <3>3. Cardinality(W \union {added + 1}) = Cardinality(W) + 1
      BY <3>1, <3>2, FS_AddElement
    <3>4. num_flush_not_started = Cardinality(W)
      BY DEF Inv, ListOK
    <3> QED BY <1>2, <3>2, <3>3, <3>4, Zenon
  <2>5. in_progress \subseteq (Base + 1)..added'
    BY <1>1, <1>2, <2>3
  <2>6. DOMAIN file_number' = MemTable /\ added' \in Nat
    BY <1>1, <1>2 DEF Inv, ListOK
  <2> QED BY <1>1, <1>2, <1>3, <1>4, <2>1, <2>2, <2>3, <2>4, <2>5, <2>6 DEF ListOK
<1>6. JobsOK' /\ \A u \in Thread : Busy(job[u]) \/ Busy(job'[u]) => job'[u] = job[u]
  BY SchedulingKeepsJobs DEF Inv, JobsOK, SwitchMemtable, SchedulePendingFlush
<1>7. FilesOK' /\ GroupsOK'
  BY <1>2 DEF Inv, FilesOK, GroupsOK, Convex
<1>8. WritersOK'
  <2>1. \A u \in Thread : job[u].pc = "write" \/ job'[u].pc = "write" => job'[u] = job[u]
    BY <1>6 DEF Busy
  <2> QED BY <1>2, <2>1, Zenon DEF Inv, WritersOK, Convex, Thread
<1>9. CommitterOK'
  <2>1. \A u \in Thread : job[u].pc = "manifest" \/ job'[u].pc = "manifest" => job'[u] = job[u]
    BY <1>6 DEF Busy
  <2>2. \A u \in Thread : job[u].pc = "manifest" => Batch(u) \subseteq completed
    BY DEF Inv, CommitterOK
  <2> QED BY <1>1, <1>2, <1>3, <1>4, <2>1, <2>2, CommitterIsKept
<1>10. LiveOK'
  BY <1>2, <1>4, VersionIsKept DEF Inv, FilesOK
<1>11. CommitNotLost'
  BY <1>2, <1>4 DEF Inv, CommitNotLost
<1> QED BY <1>5, <1>6, <1>7, <1>8, <1>9, <1>10, <1>11 DEF Inv

\* A file is added, and no file changes.
LEMMA FileIsAdded ==
    ASSUME FilesOK, NEW S \in SUBSET Nat, content' = Append(content, S), next_file' = next_file + 1
    PROVE  /\ FilesOK' /\ next_file \in Nat /\ next_file' \in Nat /\ next_file' >= next_file
           /\ next_file \in 1..(next_file' - 1) /\ content'[next_file] = S
           /\ \A f \in 1..(next_file - 1) : f \in 1..(next_file' - 1) /\ content'[f] = content[f]
<1>1. next_file \in Nat \ {0} /\ content \in Seq(SUBSET Nat) /\ Len(content) = next_file - 1
  BY DEF FilesOK
<1>2. /\ content' \in Seq(SUBSET Nat) /\ Len(content') = Len(content) + 1
      /\ content'[Len(content) + 1] = S
      /\ \A f \in 1..Len(content) : content'[f] = content[f]
  BY <1>1
<1>3. Len(content) + 1 = next_file /\ Len(content') = next_file' - 1 /\ next_file' \in Nat \ {0} /\ next_file' >= next_file
  BY <1>1, <1>2
<1>4. next_file \in 1..(next_file' - 1) /\ \A f \in 1..(next_file - 1) : f \in 1..(next_file' - 1)
  BY <1>1
<1>5. FilesOK'
  BY <1>2, <1>3 DEF FilesOK
<1> QED BY <1>1, <1>2, <1>3, <1>4, <1>5

\* A job takes all memtables that wait.
LEMMA PickKeepsInv ==
    ASSUME Inv, NEW t \in Thread, ~ Busy(job[t]), IsFlushPending,
           job' = [job EXCEPT ![t] = [pc |-> "write", reason |-> flush_queue, mems |-> Picked,
                                      file |-> next_file, pend |-> next_file]],
           content' = Append(content, Range(Picked)), next_file' = next_file + 1,
           PickMemtablesToFlush, live' = live, added' = added
    PROVE  Inv'
<1>1. /\ in_progress' = in_progress \union Range(Picked)
      /\ num_flush_not_started' = num_flush_not_started - Len(Picked)
      /\ UNCHANGED <<memlist, completed, file_number, commit_in_progress, live, added, Base>>
  BY DEF PickMemtablesToFlush, Base
<1>2. PICK a \in 1..Len(memlist), b \in 1..Len(memlist) :
          a <= b /\ Picked = SubSeq(memlist, a, b) /\ \A i \in a..b : memlist[i] \notin in_progress
  BY PickedIsWaiting, Zenon DEF Inv
<1>3. ListOK /\ Base \in Nat /\ added \in Nat /\ Len(memlist) \in Nat /\ added = Base + Len(memlist)
  BY ListIsInterval DEF Inv, ListOK
<1> DEFINE R == (Base + a)..(Base + b)
<1>4. Picked \in Seq(Nat) /\ Len(Picked) = b - a + 1 /\ Range(Picked) = R
  <2>1. b \in 0..Len(memlist)
    OBVIOUS
  <2> QED BY <1>2, <1>3, <2>1, PartIsInterval
<1>5. R \subseteq (Base + 1)..added /\ R # {} /\ R \subseteq Nat /\ Convex(R)
  <2>1. Base + a \in R
    BY <1>2, <1>3
  <2>2. \A x, y \in R : x..y \subseteq R
    BY <1>2, <1>3
  <2>3. R \subseteq (Base + 1)..added /\ R \subseteq Nat
    BY <1>2, <1>3
  <2> QED BY <2>1, <2>2, <2>3 DEF Convex
<1>6. R \intersect in_progress = {}
  <2>1. ASSUME NEW m \in R PROVE m \notin in_progress
    <3>1. m - Base \in a..b /\ m - Base \in 1..Len(memlist) /\ Base + (m - Base) = m
      BY <1>2, <1>3
    <3>2. memlist[m - Base] = m
      BY <1>3, <3>1 DEF ListOK
    <3> QED BY <1>2, <3>1, <3>2
  <2> QED BY <2>1
<1> HIDE DEF R
<1>7. completed \subseteq in_progress /\ in_progress \subseteq (Base + 1)..added
  BY <1>3 DEF ListOK
<1>8. ListOK'
  <2> DEFINE W == ((Base + 1)..added) \ in_progress
  <2>1. IsFiniteSet(W)
    <3>1. IsFiniteSet((Base + 1)..added)
      <4>1. Base + 1 \in Int /\ added \in Int
        BY <1>3
      <4> QED BY <4>1, FS_Interval, Zenon
    <3> QED BY <3>1, FS_Difference, Zenon
  <2>2. ((Base + 1)..added) \ in_progress' = W \ R /\ W \intersect R = R
    BY <1>1, <1>4, <1>5, <1>6, Zenon
  <2>3. Cardinality(W \ R) = Cardinality(W) - Cardinality(R)
    BY <2>1, <2>2, FS_Difference, Zenon
  <2>4. Cardinality(R) = b - a + 1
    BY <1>2, <1>3, FS_Interval DEF R
  <2>5. num_flush_not_started = Cardinality(W)
    BY <1>3 DEF ListOK
  <2>6. num_flush_not_started' = Cardinality(((Base + 1)..added) \ in_progress')
    BY <1>1, <1>4, <2>2, <2>3, <2>4, <2>5, Zenon
  <2>7. completed \subseteq in_progress' /\ in_progress' \subseteq (Base + 1)..added
    BY <1>1, <1>4, <1>5, <1>7
  <2> QED BY <1>1, <1>3, <2>6, <2>7, Zenon DEF ListOK
<1>9. /\ FilesOK' /\ next_file \in Nat /\ next_file' \in Nat /\ next_file' >= next_file
      /\ next_file \in 1..(next_file' - 1) /\ content'[next_file] = R
      /\ \A f \in 1..(next_file - 1) : f \in 1..(next_file' - 1) /\ content'[f] = content[f]
  BY <1>4, <1>5, FileIsAdded, Zenon DEF Inv
<1>10. /\ DOMAIN job' = Thread /\ \A u \in Thread \ {t} : job'[u] = job[u]
       /\ job'[t].pc = "write" /\ job'[t].mems = Picked /\ job'[t].file = next_file
  BY DEF Inv, JobsOK
<1>11. JobsOK'
  BY <1>10 DEF Inv, JobsOK, Thread
<1>12. WritersOK'
  <2>1. ASSUME NEW u \in Thread \ {t}, job[u].pc = "write"
        PROVE  /\ job[u].mems \in Seq(Nat) /\ job[u].mems # <<>>
               /\ job[u].file \in 1..(next_file' - 1)
               /\ content'[job[u].file] = Range(job[u].mems)
               /\ Convex(Range(job[u].mems))
               /\ Range(job[u].mems) \subseteq in_progress' \ completed
               /\ Range(job[u].mems) \intersect R = {}
               /\ \A v \in Thread \ {u} : job[v].pc = "write" => Range(job[v].mems) \intersect Range(job[u].mems) = {}
    <3>1. /\ job[u].mems \in Seq(Nat) /\ job[u].mems # <<>>
          /\ job[u].file \in 1..(next_file - 1)
          /\ content[job[u].file] = Range(job[u].mems)
          /\ Convex(Range(job[u].mems))
          /\ Range(job[u].mems) \subseteq in_progress \ completed
          /\ \A v \in Thread \ {u} : job[v].pc = "write" => Range(job[v].mems) \intersect Range(job[u].mems) = {}
      BY <2>1, Zenon DEF Inv, WritersOK
    <3>2. job[u].file \in 1..(next_file' - 1) /\ content'[job[u].file] = Range(job[u].mems)
      BY <1>9, <3>1, Zenon
    <3>3. Range(job[u].mems) \subseteq in_progress' \ completed /\ Range(job[u].mems) \intersect R = {}
      BY <1>1, <1>6, <3>1
    <3> QED BY <3>1, <3>2, <3>3, Zenon
  <2>2. /\ job'[t].mems \in Seq(Nat) /\ job'[t].mems # <<>>
        /\ job'[t].file \in 1..(next_file' - 1)
        /\ content'[job'[t].file] = Range(job'[t].mems)
        /\ Convex(Range(job'[t].mems))
        /\ Range(job'[t].mems) \subseteq in_progress' \ completed
        /\ \A u \in Thread \ {t} : job'[u].pc = "write" => Range(job'[u].mems) \intersect Range(job'[t].mems) = {}
    <3>1. Picked # <<>>
      <4>1. Range(Picked) # {}
        BY <1>4, <1>5, Zenon
      <4>2. Range(<<>>) = {}
        BY EmptyRange
      <4> QED BY <4>1, <4>2, Zenon
    <3>2. R \subseteq in_progress' \ completed
      BY <1>1, <1>4, <1>6, <1>7
    <3>3. \A u \in Thread \ {t} : job'[u].pc = "write" => Range(job'[u].mems) \intersect R = {}
      BY <1>10, <2>1
    <3> QED BY <1>4, <1>5, <1>9, <1>10, <3>1, <3>2, <3>3, Zenon
  <2>3. ASSUME NEW u \in Thread \ {t}, job'[u].pc = "write"
        PROVE  /\ job'[u].mems \in Seq(Nat) /\ job'[u].mems # <<>>
               /\ job'[u].file \in 1..(next_file' - 1)
               /\ content'[job'[u].file] = Range(job'[u].mems)
               /\ Convex(Range(job'[u].mems))
               /\ Range(job'[u].mems) \subseteq in_progress' \ completed
               /\ \A v \in Thread \ {u} : job'[v].pc = "write" => Range(job'[v].mems) \intersect Range(job'[u].mems) = {}
    <3>1. job'[u] = job[u]
      BY <1>10
    <3>2. \A v \in Thread \ {u} : job'[v].pc = "write" => Range(job'[v].mems) \intersect Range(job[u].mems) = {}
      <4>1. ASSUME NEW v \in Thread \ {u}, v # t, job'[v].pc = "write"
            PROVE  Range(job'[v].mems) \intersect Range(job[u].mems) = {}
        BY <1>10, <2>1, <2>3, <3>1, <4>1, Zenon
      <4>2. Range(job'[t].mems) \intersect Range(job[u].mems) = {}
        BY <1>4, <1>10, <2>1, <2>3, <3>1
      <4> QED BY <4>1, <4>2
    <3> QED BY <2>1, <2>3, <3>1, <3>2, Zenon
  <2> QED BY <1>1, <2>2, <2>3, Zenon DEF WritersOK, Convex, Thread
<1>13. \A m \in completed : file_number[m] \in 1..(next_file - 1)
  BY DEF Inv, GroupsOK
<1>14. GroupsOK'
  <2>1. \A m \in completed : content'[file_number[m]] = content[file_number[m]] /\ file_number[m] \in 1..(next_file' - 1)
    BY <1>9, <1>13, Zenon
  <2> QED BY <1>1, <2>1, ZenonT(30) DEF Inv, GroupsOK, Convex
<1>15. CommitterOK'
  <2>1. \A u \in Thread : job[u].pc = "manifest" \/ job'[u].pc = "manifest" => job'[u] = job[u]
    BY <1>10 DEF Busy
  <2>2. \A u \in Thread : job[u].pc = "manifest" => Batch(u) \subseteq completed
    BY DEF Inv, CommitterOK
  <2>3. \A u \in Thread : job[u].pc = "manifest" =>
            \A m \in Batch(u) : m \in completed' /\ file_number'[m] = file_number[m]
                                /\ content'[file_number[m]] = content[file_number[m]]
    BY <1>1, <1>9, <1>13, <2>2, Zenon
  <2>4. Len(memlist') \in Nat /\ Len(memlist') >= Len(memlist)
    BY <1>1, <1>3
  <2>5. Base' = Base /\ commit_in_progress' = commit_in_progress
    BY <1>1
  <2> QED BY <1>3, <2>1, <2>3, <2>4, <2>5, CommitterIsKept, Zenon
<1>16. LiveOK'
  BY <1>1, <1>9, VersionIsKept, Zenon DEF Inv
<1>17. CommitNotLost'
  BY <1>1 DEF Inv, CommitNotLost
<1> QED BY <1>8, <1>9, <1>11, <1>12, <1>14, <1>15, <1>16, <1>17 DEF Inv

\* Memtables whose flush is undone, as whole groups and without those of a job
\* that still writes, can be picked again.
LEMMA UndoKeepsInv ==
    ASSUME Inv, NEW U \in SUBSET in_progress, Restore(U),
           UNCHANGED <<memlist, next_file, content, live, added>>,
           \A m \in completed \ U : content[file_number[m]] \intersect U = {},
           \A u \in Thread : job'[u].pc = "write" =>
               job'[u] = job[u] /\ Range(job[u].mems) \intersect U = {}
    PROVE  ListOK' /\ FilesOK' /\ WritersOK' /\ GroupsOK' /\ LiveOK'
<1>1. /\ in_progress' = in_progress \ U /\ completed' = completed \ U
      /\ file_number' = [m \in MemTable |-> IF m \in U THEN 0 ELSE file_number[m]]
      /\ num_flush_not_started' = num_flush_not_started + Cardinality(U)
  BY DEF Restore
<1>2. UNCHANGED <<memlist, next_file, content, live, added, Base>>
  BY DEF Base
<1>3. ListOK /\ Base \in Nat /\ added \in Nat /\ in_progress \subseteq (Base + 1)..added /\ completed \subseteq in_progress
  BY DEF Inv, ListOK
<1>4. ListOK'
  <2> DEFINE W == ((Base + 1)..added) \ in_progress
  <2>1. IsFiniteSet((Base + 1)..added)
    <3>1. Base + 1 \in Int /\ added \in Int
      BY <1>3
    <3> QED BY <3>1, FS_Interval
  <2>2. IsFiniteSet(W) /\ IsFiniteSet(U)
    <3>1. U \subseteq (Base + 1)..added
      BY <1>3
    <3> QED BY <2>1, <3>1, FS_Difference, FS_Subset, Zenon
  <2>3. ((Base + 1)..added) \ in_progress' = W \union U /\ W \intersect U = {}
    BY <1>1, <1>3, Zenon
  <2>4. Cardinality(W \union U) = Cardinality(W) + Cardinality(U)
    <3>1. Cardinality(W) \in Nat /\ Cardinality(U) \in Nat
      BY <2>2, FS_CardinalityType
    <3>2. Cardinality(W \union U) = Cardinality(W) + Cardinality(U) - Cardinality(W \intersect U)
      BY <2>2, FS_Union
    <3>3. Cardinality(W \intersect U) = 0
      BY <2>3, FS_EmptySet, Zenon
    <3> QED BY <3>1, <3>2, <3>3
  <2>5. num_flush_not_started' = Cardinality(((Base + 1)..added) \ in_progress')
    BY <1>1, <1>3, <2>3, <2>4, Zenon DEF ListOK
  <2>6. completed' \subseteq in_progress' /\ in_progress' \subseteq (Base + 1)..added /\ DOMAIN file_number' = MemTable
    BY <1>1, <1>3
  <2> QED BY <1>2, <1>3, <2>5, <2>6 DEF ListOK
<1>5. FilesOK' /\ LiveOK'
  BY <1>2 DEF Inv, FilesOK, LiveOK
<1>6. WritersOK'
  <2>1. \A u \in Thread : job'[u].pc = "write" =>
            job'[u] = job[u] /\ job[u].pc = "write" /\ Range(job[u].mems) \subseteq in_progress' \ completed'
    BY <1>1 DEF Inv, WritersOK
  <2> QED BY <1>2, <2>1, Zenon DEF Inv, WritersOK, Convex, Thread
<1>7. GroupsOK'
  <2> SUFFICES ASSUME NEW m \in completed'
               PROVE  /\ file_number'[m] \in 1..(next_file - 1)
                      /\ m \in content[file_number'[m]]
                      /\ content[file_number'[m]] \subseteq completed'
                      /\ Convex(content[file_number'[m]])
                      /\ \A n \in content[file_number'[m]] : file_number'[n] = file_number'[m]
    BY <1>2 DEF GroupsOK, Convex
  <2>1. completed \subseteq MemTable
    BY <1>3 DEF ListOK
  <2>2. m \in completed \ U
    BY <1>1
  <2> DEFINE G == content[file_number[m]]
  <2>3. /\ file_number[m] \in 1..(next_file - 1) /\ m \in G /\ G \subseteq completed /\ Convex(G)
        /\ \A n \in G : file_number[n] = file_number[m]
    BY <2>2 DEF Inv, GroupsOK
  <2>4. G \intersect U = {}
    BY <2>2
  <2>5. file_number'[m] = file_number[m]
    BY <1>1, <2>1, <2>2
  <2> HIDE DEF G
  <2>6. \A n \in G : n \in MemTable /\ n \notin U /\ n \in completed
    BY <2>1, <2>3, <2>4
  <2>7. \A n \in G : file_number'[n] = file_number[n]
    BY <1>1, <2>6
  <2>8. G \subseteq completed'
    BY <1>1, <2>6
  <2> QED BY <2>3, <2>5, <2>7, <2>8 DEF G
<1> QED BY <1>4, <1>5, <1>6, <1>7

\* RollbackMemtableFlush undoes the memtables of a job and the completed ones that
\* follow the first of them: whole groups, because that one is not completed.
LEMMA RollbackKeepsInv ==
    ASSUME Inv, NEW t \in Thread, job[t].pc = "write", RollbackMemtableFlush(job[t].mems),
           UNCHANGED <<next_file, content, live, added>>,
           JobsOK', OthersKept(t), ~ Busy(job'[t])
    PROVE  Inv'
<1> DEFINE mems == job[t].mems
           first == mems[1]
           R == Range(mems)
           S == Succeeding(mems)
           U == S \union (R \intersect in_progress)
<1>1. Restore(U) /\ memlist' = memlist /\ commit_in_progress' = commit_in_progress /\ Base' = Base
  BY DEF RollbackMemtableFlush, Base
<1>2. ListOK /\ Base \in Nat /\ added \in Nat /\ Len(memlist) \in Nat /\ added = Base + Len(memlist)
      /\ DOMAIN memlist = 1..Len(memlist)
  BY ListIsInterval DEF Inv, ListOK
<1>3. completed \subseteq in_progress /\ in_progress \subseteq (Base + 1)..added
  BY <1>2 DEF ListOK
<1>4. R \subseteq in_progress \ completed /\ first \in R
  <2>1. mems \in Seq(Nat) /\ mems # <<>> /\ R \subseteq in_progress \ completed
    BY DEF Inv, WritersOK
  <2>2. 1 \in DOMAIN mems
    BY <2>1
  <2> QED BY <2>1, <2>2 DEF Range
<1>5. first \in (Base + 1)..added /\ first \notin completed
  BY <1>3, <1>4
<1>6. S = {m \in (first + 1)..added : \A n \in (first + 1)..m : n \in completed}
  <2> DEFINE k == CHOOSE k \in DOMAIN memlist : memlist[k] = first
  <2> HIDE DEF mems, R, U
  <2>1. first - Base \in DOMAIN memlist /\ memlist[first - Base] = first
    <3>1. first - Base \in 1..Len(memlist) /\ Base + (first - Base) = first
      BY <1>2, <1>5
    <3> QED BY <1>2, <3>1 DEF ListOK
  <2>2. k \in DOMAIN memlist /\ memlist[k] = first
    BY <2>1
  <2>3. S = CompletedAfter(k)
    BY DEF Succeeding
  <2> HIDE DEF k
  <2>4. k \in 1..Len(memlist) /\ first = Base + k
    BY <1>2, <2>2 DEF ListOK
  <2> HIDE DEF first, S
  <2>5. \A i \in (k + 1)..Len(memlist) : memlist[i] = Base + i
    BY <1>2, <2>4 DEF ListOK
  <2>6. ASSUME NEW m \in S PROVE m \in (first + 1)..added /\ \A n \in (first + 1)..m : n \in completed
    <3>1. PICK i \in (k + 1)..Len(memlist) : m = memlist[i] /\ \A n \in (k + 1)..i : memlist[n] \in completed
      BY <2>3 DEF CompletedAfter
    <3>2. m = Base + i
      BY <2>5, <3>1
    <3>3. ASSUME NEW n \in (first + 1)..m PROVE n \in completed
      <4>1. n - Base \in (k + 1)..i /\ n - Base \in (k + 1)..Len(memlist) /\ Base + (n - Base) = n
        BY <1>2, <2>4, <3>2
      <4>2. memlist[n - Base] = n
        BY <2>5, <4>1
      <4> QED BY <3>1, <4>1, <4>2
    <3> QED BY <1>2, <2>4, <3>2, <3>3
  <2>7. ASSUME NEW m \in (first + 1)..added, \A n \in (first + 1)..m : n \in completed PROVE m \in S
    <3>1. m - Base \in (k + 1)..Len(memlist) /\ Base + (m - Base) = m
      BY <1>2, <2>4
    <3>2. memlist[m - Base] = m
      BY <2>5, <3>1
    <3>3. ASSUME NEW i \in (k + 1)..(m - Base) PROVE memlist[i] \in completed
      <4>1. i \in (k + 1)..Len(memlist) /\ Base + i \in (first + 1)..m
        BY <1>2, <2>4, <3>1
      <4> QED BY <2>5, <2>7, <4>1
    <3> QED BY <2>3, <3>1, <3>2, <3>3 DEF CompletedAfter
  <2> QED BY <2>6, <2>7
<1> HIDE DEF mems, first, R, S, U
<1>7. S \subseteq completed /\ \A m \in S : first < m
  <2>1. \A m \in (first + 1)..added : m \in (first + 1)..m /\ first < m
    BY <1>2, <1>5
  <2> QED BY <1>6, <2>1
<1>8. U \in SUBSET in_progress
  BY <1>3, <1>7, Zenon DEF U
<1>9. ASSUME NEW m \in completed \ U, NEW n \in content[file_number[m]], n \in U PROVE FALSE
  <2> DEFINE G == content[file_number[m]]
  <2>1. m \in G /\ G \subseteq completed /\ \A a, b \in G : a..b \subseteq G
    BY Zenon DEF Inv, GroupsOK, Convex
  <2> HIDE DEF G
  <2>2. n \in G /\ n \in S /\ m \notin S
    BY <1>4, <1>9, <2>1 DEF U, G
  <2>3. n \in (first + 1)..added /\ \A x \in (first + 1)..n : x \in completed
    BY <1>6, <2>2
  <2>4. m \in (Base + 1)..added /\ m # first
    BY <1>3, <1>5
  <2>5. m..n \subseteq completed /\ n..m \subseteq completed
    BY <2>1, <2>2
  <2>6. CASE m < first
    <3>1. first \in m..n
      BY <1>2, <1>5, <2>3, <2>4, <2>6
    <3> QED BY <1>5, <2>5, <3>1
  <2>7. CASE m > first
    <3>1. m \in (first + 1)..added
      BY <1>2, <1>5, <2>4, <2>7
    <3>2. ASSUME NEW x \in (first + 1)..m PROVE x \in completed
      <4>1. x \in (first + 1)..n \/ x \in n..m
        BY <1>2, <1>5, <2>3, <2>4
      <4> QED BY <2>3, <2>5, <4>1
    <3> QED BY <1>6, <2>2, <3>1, <3>2
  <2> QED BY <1>2, <1>5, <2>4, <2>6, <2>7
<1>10. \A u \in Thread : job'[u].pc = "write" => job'[u] = job[u] /\ Range(job[u].mems) \intersect U = {}
  <2> SUFFICES ASSUME NEW u \in Thread, job'[u].pc = "write"
               PROVE  job'[u] = job[u] /\ Range(job[u].mems) \intersect U = {}
    OBVIOUS
  <2>1. u # t /\ job'[u] = job[u]
    BY DEF OthersKept, Busy
  <2>2. Range(job[u].mems) \intersect R = {} /\ Range(job[u].mems) \intersect completed = {}
    BY <2>1, Zenon DEF Inv, WritersOK, R, mems
  <2> QED BY <1>7, <2>1, <2>2 DEF U
<1>11. ListOK' /\ FilesOK' /\ WritersOK' /\ GroupsOK' /\ LiveOK'
  BY <1>1, <1>8, <1>9, <1>10, UndoKeepsInv
<1>12. CommitterOK'
  <2>1. \A u \in Thread : job[u].pc = "manifest" \/ job'[u].pc = "manifest" => job'[u] = job[u]
    BY DEF OthersKept, Busy
  <2>2. ASSUME NEW u \in Thread, job[u].pc = "manifest", NEW m \in Batch(u)
        PROVE  m \in completed' /\ file_number'[m] = file_number[m] /\ content'[file_number[m]] = content[file_number[m]]
    <3>1. job[u].batch \in 1..Len(memlist) /\ Batch(u) \subseteq completed
      BY <2>2 DEF Inv, CommitterOK
    <3>2. first \notin (Base + 1)..(Base + job[u].batch)
      BY <1>5, <3>1 DEF Batch
    <3>3. m < first
      BY <1>2, <1>5, <3>1, <3>2 DEF Batch
    <3>4. m \in completed /\ m \notin U
      <4>1. ~ (first < m)
        <5>1. m \in Int
          BY SMTT(20) DEF Batch
        <5>2. first \in Int
          BY <1>5, SMTT(20)
        <5> QED BY <3>3, <5>1, <5>2, YoungerIsNotOlder, Zenon
      <4> QED BY <1>4, <1>7, <3>1, <4>1 DEF U
    <3>5. m \in MemTable
      BY <1>2, <1>3, <3>4 DEF ListOK
    <3> QED BY <1>1, <3>4, <3>5 DEF Restore
  <2>3. Len(memlist') \in Nat /\ Len(memlist') >= Len(memlist)
    BY <1>1, <1>2
  <2> QED BY <1>1, <1>2, <2>1, <2>2, <2>3, CommitterIsKept
<1>13. CommitNotLost'
  BY <1>1 DEF Inv, CommitNotLost, Restore
<1> QED BY <1>11, <1>12, <1>13 DEF Inv

\* The commit fails, and what it would have recorded is undone: whole groups too.
LEMMA CommitFailureKeepsInv ==
    ASSUME Inv, NEW t \in Thread, job[t].pc = "manifest", RestoreFlags(job[t].batch),
           UNCHANGED <<next_file, content, live, added>>,
           JobsOK', OthersKept(t), ~ Busy(job'[t])
    PROVE  Inv'
<1> DEFINE U == Batch(t)
<1>1. ListOK /\ Base \in Nat /\ Len(memlist) \in Nat
  BY ListIsInterval DEF Inv, ListOK
<1>2. /\ job[t].batch \in 1..Len(memlist) /\ U \subseteq completed
      /\ \A m \in U : content[file_number[m]] \subseteq U
  BY DEF Inv, CommitterOK
<1>3. Range(SubSeq(memlist, 1, job[t].batch)) = U
  <2>1. 1 \in 1..Len(memlist) /\ job[t].batch \in 0..Len(memlist)
    BY <1>1, <1>2
  <2> QED BY <1>1, <2>1, PartIsInterval DEF Batch
<1> HIDE DEF U
<1>4. Restore(U) /\ memlist' = memlist /\ commit_in_progress' = FALSE /\ Base' = Base
  BY <1>3 DEF RestoreFlags, Base
<1>5. U \in SUBSET in_progress
  BY <1>1, <1>2 DEF ListOK
<1>6. \A m \in completed \ U : content[file_number[m]] \intersect U = {}
  <2>1. ASSUME NEW m \in completed \ U, NEW n \in content[file_number[m]], n \in U PROVE FALSE
    <3>1. m \in content[file_number[m]] /\ file_number[n] = file_number[m]
      BY DEF Inv, GroupsOK
    <3> QED BY <1>2, <2>1, <3>1
  <2> QED BY <2>1
<1>7. \A u \in Thread : job'[u].pc = "write" => job'[u] = job[u] /\ Range(job[u].mems) \intersect U = {}
  <2> SUFFICES ASSUME NEW u \in Thread, job'[u].pc = "write"
               PROVE  job'[u] = job[u] /\ Range(job[u].mems) \intersect U = {}
    OBVIOUS
  <2>1. job'[u] = job[u]
    BY DEF OthersKept, Busy
  <2>2. Range(job[u].mems) \intersect completed = {}
    BY <2>1 DEF Inv, WritersOK
  <2> QED BY <1>2, <2>1, <2>2
<1>8. ListOK' /\ FilesOK' /\ WritersOK' /\ GroupsOK' /\ LiveOK'
  BY <1>4, <1>5, <1>6, <1>7, UndoKeepsInv
<1>9. CommitterOK'
  <2>1. \A u \in Thread : job'[u].pc # "manifest"
    BY DEF Inv, CommitterOK, OthersKept, Busy
  <2> QED BY <1>4, <2>1, Zenon DEF CommitterOK, Thread
<1>10. CommitNotLost'
  <2>1. Base + 1 \in U
    BY <1>1, <1>2 DEF U, Batch
  <2> QED BY <1>4, <2>1 DEF CommitNotLost, Restore
<1> QED BY <1>8, <1>9, <1>10 DEF Inv

\* A list of the memtables from base on, of which done are completed in groups.
Numbered(list, base, done) ==
    (\A i \in 1..Len(list) : list[i] = base + i) /\ done \subseteq (base + 1)..(base + Len(list))

Grouped(done, files) ==
    \A m \in done : /\ m \in content[files[m]] /\ content[files[m]] \subseteq done
                    /\ Convex(content[files[m]])
                    /\ \A n \in content[files[m]] : files[n] = files[m]

\* A batch of whole groups, and edits for their files.
Whole(base, b, done, files, edits) ==
    /\ base + 1 \in done <=> b > 0
    /\ (base + 1)..(base + b) \subseteq done
    /\ \A m \in (base + 1)..(base + b) : content[files[m]] \subseteq (base + 1)..(base + b)
    /\ {edits[n].file : n \in DOMAIN edits} = {files[m] : m \in (base + 1)..(base + b)}

\* The batch that TryInstallMemtableFlushResults collects consists of whole groups,
\* and its edits name the files of these.
LEMMA BatchIsWhole ==
    ASSUME NEW list \in Seq(Nat), NEW base \in Nat, NEW done, NEW files,
           Numbered(list, base, done), Grouped(done, files),
           NEW b, b = BatchCount(list, done)
    PROVE  b \in 0..Len(list) /\ Whole(base, b, done, files, Edits(list, b, files))
<1> USE DEF Numbered, Grouped
<1> DEFINE B == (base + 1)..(base + b)
<1>1. /\ b \in 0..Len(list) /\ \A k \in 1..b : list[k] \in done
      /\ \A i \in 1..Len(list) : (\A k \in 1..i : list[k] \in done) => i <= b
  BY BatchIsLongest, Zenon
<1>2. Len(list) \in Nat /\ b \in Nat
  BY <1>1
<1>3. \A i \in 1..b : list[i] = base + i
  BY <1>1, <1>2
<1>4. B \subseteq done
  <2>1. ASSUME NEW m \in B PROVE m \in done
    <3>1. m - base \in 1..b /\ base + (m - base) = m
      BY <1>2
    <3> QED BY <1>1, <1>3, <3>1, Zenon
  <2> QED BY <2>1
<1>5. ASSUME NEW i \in 1..Len(list), (base + 1)..(base + i) \subseteq done PROVE i <= b
  <2>1. ASSUME NEW k \in 1..i PROVE list[k] \in done
    <3>1. k \in 1..Len(list) /\ base + k \in (base + 1)..(base + i)
      BY <1>2
    <3> QED BY <1>5, <3>1
  <2> QED BY <1>1, <2>1
<1>6. base + 1 \in done <=> b > 0
  <2>1. ASSUME base + 1 \in done PROVE b > 0
    <3>1. 1 \in 1..Len(list) /\ (base + 1)..(base + 1) = {base + 1}
      BY <1>2, <2>1
    <3> QED BY <1>2, <1>5, <2>1, <3>1
  <2>2. ASSUME b > 0 PROVE base + 1 \in done
    <3>1. base + 1 \in B
      BY <1>2, <2>2
    <3> QED BY <1>4, <3>1
  <2> QED BY <2>1, <2>2
<1>7. ASSUME NEW m \in B, NEW n \in content[files[m]] PROVE n \in B
  <2> DEFINE G == content[files[m]]
  <2>1. G \subseteq done /\ m \in G /\ \A x, y \in G : x..y \subseteq G
    BY <1>4, Zenon DEF Convex
  <2>2. n \in (base + 1)..(base + Len(list))
    BY <2>1, Zenon
  <2> SUFFICES ASSUME n > base + b PROVE FALSE
    BY <1>2, <2>2
  <2>3. m..n \subseteq done
    BY <2>1
  <2>4. ASSUME NEW x \in (base + 1)..n PROVE x \in done
    <3>1. x \in B \/ x \in m..n
      BY <1>2, <2>2
    <3> QED BY <1>4, <2>3, <3>1
  <2>5. n - base \in 1..Len(list) /\ base + (n - base) = n
    BY <1>2, <2>2
  <2>6. n - base <= b
    BY <1>5, <2>4, <2>5
  <2> QED BY <1>2, <2>2, <2>6
<1> DEFINE edits == Edits(list, b, files)
           E == {i \in 1..b : i = 1 \/ files[list[i]] # files[list[i - 1]]}
<1>8. DOMAIN edits = E /\ \A i \in E : edits[i].file = files[list[i]]
  BY DEF Edits
<1> HIDE DEF B, edits
<1>9. ASSUME NEW i \in DOMAIN edits PROVE \E m \in B : edits[i].file = files[m]
  <2>1. i \in 1..b /\ edits[i].file = files[list[i]]
    BY <1>8
  <2>2. list[i] \in B
    BY <1>2, <1>3, <2>1 DEF B
  <2> QED BY <2>1, <2>2
<1>10. ASSUME NEW m \in B PROVE \E i \in DOMAIN edits : edits[i].file = files[m]
  <2> DEFINE G == content[files[m]]
             l == Min(G)
  <2>1. m \in G /\ \A n \in G : files[n] = files[m]
    BY <1>4
  <2>2. G \subseteq B
    BY <1>7
  <2>3. G \in SUBSET Nat
    BY <1>2, <2>2 DEF B
  <2> HIDE DEF G
  <2>4. l \in G /\ \A y \in G : l <= y
    BY <2>1, <2>3, MinIsLeast
  <2> HIDE DEF l
  <2>5. l \in (base + 1)..(base + b) /\ files[l] = files[m]
    BY <2>1, <2>2, <2>4 DEF B
  <2>6. l - base \in 1..b /\ list[l - base] = l
    <3>1. l - base \in 1..b /\ base + (l - base) = l
      BY <1>2, <2>5
    <3> QED BY <1>3, <3>1
  <2>7. ASSUME l - base # 1, files[list[l - base - 1]] = files[l] PROVE FALSE
    <3>1. l - base - 1 \in 1..b /\ base + (l - base - 1) = l - 1 /\ l - 1 \in (base + 1)..(base + b)
      BY <1>2, <2>5, <2>6, <2>7
    <3>2. list[l - base - 1] = l - 1
      BY <1>3, <3>1
    <3>3. l - 1 \in done
      BY <1>4, <3>1 DEF B
    <3>4. l - 1 \in G
      BY <2>5, <2>7, <3>2, <3>3 DEF G
    <3>5. l <= l - 1
      BY <2>4, <3>4
    <3> QED BY <2>5, <3>5, <1>2
  <2>8. l - base \in E
    BY <2>6, <2>7
  <2> QED BY <1>8, <2>5, <2>6, <2>8
<1>11. {edits[n].file : n \in DOMAIN edits} = {files[m] : m \in B}
  BY <1>9, <1>10
<1> QED BY <1>1, <1>4, <1>6, <1>7, <1>11, Zenon DEF B, edits, Whole

\* A completed flush: its memtables become a group, and this thread commits if the
\* oldest memtable is completed and nobody else does.
LEMMA InstallKeepsInv ==
    ASSUME Inv, NEW t \in Thread, WriteSucceeds(t)
    PROVE  Inv'
<1> DEFINE R == Range(job[t].mems)
           f == job[t].file
<1>1. /\ completed' = completed \union R
      /\ file_number' = [m \in MemTable |-> IF m \in R THEN f ELSE file_number[m]]
      /\ commit_in_progress' = (commit_in_progress \/ BatchCount(memlist, completed') > 0)
      /\ UNCHANGED <<memlist, in_progress, num_flush_not_started, next_file, content, live, added, Base>>
  BY DEF WriteSucceeds, TryInstall, fileVars, Base
<1>2. ListOK /\ Base \in Nat /\ added \in Nat /\ Len(memlist) \in Nat /\ added = Base + Len(memlist)
  BY ListIsInterval DEF Inv, ListOK
<1>3. /\ memlist \in Seq(Nat) /\ \A i \in 1..Len(memlist) : memlist[i] = Base + i
      /\ completed \subseteq in_progress /\ in_progress \subseteq (Base + 1)..added
      /\ in_progress \subseteq MemTable
  BY <1>2 DEF ListOK
<1>4. /\ f \in 1..(next_file - 1) /\ content[f] = R /\ Convex(R) /\ R \subseteq in_progress \ completed
      /\ \A u \in Thread \ {t} : job[u].pc = "write" => Range(job[u].mems) \intersect R = {}
  BY Zenon DEF Inv, WritersOK, WriteSucceeds
<1> HIDE DEF R, f
<1>5. ListOK' /\ FilesOK'
  BY <1>1, <1>2, <1>3, <1>4 DEF Inv, ListOK, FilesOK
<1>6. \A m \in completed' : /\ file_number'[m] \in 1..(next_file - 1)
                            /\ m \in content[file_number'[m]] /\ content[file_number'[m]] \subseteq completed'
                            /\ Convex(content[file_number'[m]])
                            /\ \A n \in content[file_number'[m]] : file_number'[n] = file_number'[m]
  <2>1. \A m \in R : file_number'[m] = f
    BY <1>1, <1>3, <1>4, Zenon
  <2>2. \A m \in completed : m \notin R /\ file_number'[m] = file_number[m]
    BY <1>1, <1>3, <1>4
  <2>3. ASSUME NEW m \in R
        PROVE  /\ file_number'[m] \in 1..(next_file - 1)
               /\ m \in content[file_number'[m]] /\ content[file_number'[m]] \subseteq completed'
               /\ Convex(content[file_number'[m]])
               /\ \A n \in content[file_number'[m]] : file_number'[n] = file_number'[m]
    BY <1>1, <1>4, <2>1
  <2>4. ASSUME NEW m \in completed
        PROVE  /\ file_number'[m] \in 1..(next_file - 1)
               /\ m \in content[file_number'[m]] /\ content[file_number'[m]] \subseteq completed'
               /\ Convex(content[file_number'[m]])
               /\ \A n \in content[file_number'[m]] : file_number'[n] = file_number'[m]
    <3>1. /\ file_number[m] \in 1..(next_file - 1)
          /\ m \in content[file_number[m]] /\ content[file_number[m]] \subseteq completed
          /\ Convex(content[file_number[m]])
          /\ \A n \in content[file_number[m]] : file_number[n] = file_number[m]
      BY DEF Inv, GroupsOK
    <3> QED BY <1>1, <2>2, <3>1
  <2> QED BY <1>1, <2>3, <2>4, Zenon
<1>7. GroupsOK'
  <2>1. content' = content /\ next_file' = next_file
    BY <1>1
  <2> QED BY <1>6, <2>1 DEF GroupsOK, Convex
<1>8. LiveOK'
  BY <1>1, VersionIsKept DEF Inv, FilesOK
<1> DEFINE b == BatchCount(memlist, completed')
           edits == Edits(memlist, b, file_number')
<1>9. /\ b \in 0..Len(memlist) /\ (Base + 1 \in completed' <=> b > 0)
      /\ (Base + 1)..(Base + b) \subseteq completed'
      /\ \A m \in (Base + 1)..(Base + b) : content[file_number'[m]] \subseteq (Base + 1)..(Base + b)
      /\ {edits[n].file : n \in DOMAIN edits} = {file_number'[m] : m \in (Base + 1)..(Base + b)}
  <2>1. completed' \subseteq (Base + 1)..(Base + Len(memlist))
    BY <1>1, <1>2, <1>3, <1>4
  <2>2. Numbered(memlist, Base, completed')
    BY <1>3, <2>1 DEF Numbered
  <2>3. Grouped(completed', file_number')
    BY <1>6 DEF Grouped
  <2>4. b \in 0..Len(memlist) /\ Whole(Base, b, completed', file_number', edits)
    BY <1>2, <1>3, <2>2, <2>3, BatchIsWhole
  <2> QED BY <2>4, Zenon DEF Whole
<1>10. CommitNotLost'
  BY <1>1, <1>9, Zenon DEF CommitNotLost
<1>11. ASSUME JobsOK', OthersKept(t), job'[t].pc # "write" PROVE WritersOK'
  <2>1. \A u \in Thread : job'[u].pc = "write" =>
            /\ u # t /\ job'[u] = job[u] /\ job[u].pc = "write"
            /\ Range(job[u].mems) \subseteq in_progress' \ completed'
    <3> SUFFICES ASSUME NEW u \in Thread, job'[u].pc = "write"
                 PROVE  /\ u # t /\ job'[u] = job[u] /\ job[u].pc = "write"
                        /\ Range(job[u].mems) \subseteq in_progress' \ completed'
      OBVIOUS
    <3>1. u # t /\ job'[u] = job[u] /\ job[u].pc = "write"
      BY <1>11 DEF OthersKept, Busy
    <3>2. Range(job[u].mems) \subseteq in_progress \ completed
      BY <3>1 DEF Inv, WritersOK
    <3> QED BY <1>1, <1>4, <3>1, <3>2
  <2> QED BY <1>1, <2>1, Zenon DEF Inv, WritersOK, Convex, Thread
<1>12. CASE ~ commit_in_progress /\ commit_in_progress'
  <2>1. job' = [job EXCEPT ![t] = [pc |-> "manifest", batch |-> b, edits |-> edits, pend |-> @.pend]]
    BY <1>12 DEF WriteSucceeds, LogAndApply
  <2> HIDE DEF b, edits
  <2>2. /\ DOMAIN job' = Thread /\ \A u \in Thread \ {t} : job'[u] = job[u]
        /\ job'[t].pc = "manifest" /\ job'[t].batch = b /\ job'[t].edits = edits
    BY <2>1 DEF Inv, JobsOK
  <2>3. JobsOK'
    BY <2>2 DEF Inv, JobsOK, Thread
  <2>4. OthersKept(t)
    BY <2>2 DEF OthersKept
  <2>5. \A u \in Thread \ {t} : job'[u].pc # "manifest"
    BY <1>12, <2>2 DEF Inv, CommitterOK
  <2>6. b \in 1..Len(memlist)
    <3>1. b > 0
      BY <1>1, <1>12, Zenon DEF b
    <3> QED BY <1>2, <1>9, <3>1
  <2>7. Batch(t)' = (Base + 1)..(Base + b)
    BY <1>1, <2>2 DEF Batch
  <2>8. commit_in_progress' \in BOOLEAN
    BY <1>1, <1>12
  <2>9. commit_in_progress' <=> \E u \in Thread : job'[u].pc = "manifest"
    BY <1>12, <2>2
  <2>10. \A u, v \in Thread : job'[u].pc = "manifest" /\ job'[v].pc = "manifest" => u = v
    BY <2>5
  <2>11. /\ job'[t].batch \in 1..Len(memlist')
         /\ Batch(t)' \subseteq completed'
         /\ \A m \in Batch(t)' : content'[file_number'[m]] \subseteq Batch(t)'
         /\ {job'[t].edits[n].file : n \in DOMAIN job'[t].edits} = {file_number'[m] : m \in Batch(t)'}
    <3>1. memlist' = memlist /\ content' = content
      BY <1>1
    <3>2. /\ job'[t].batch \in 1..Len(memlist')
          /\ (Base + 1)..(Base + b) \subseteq completed'
          /\ \A m \in (Base + 1)..(Base + b) : content'[file_number'[m]] \subseteq (Base + 1)..(Base + b)
      BY <1>9, <2>2, <2>6, <3>1, Zenon
    <3>3. {job'[t].edits[n].file : n \in DOMAIN job'[t].edits} = {file_number'[m] : m \in (Base + 1)..(Base + b)}
      BY <1>9, <2>2, Zenon
    <3> QED BY <2>7, <3>2, <3>3, Zenon
  <2>12. CommitterOK'
    BY <2>5, <2>8, <2>9, <2>10, <2>11, Zenon DEF CommitterOK, Thread
  <2> QED BY <1>5, <1>7, <1>8, <1>10, <1>11, <2>2, <2>3, <2>4, <2>12 DEF Inv
<1>13. CASE ~ (~ commit_in_progress /\ commit_in_progress')
  <2>1. JobsOK' /\ OthersKept(t) /\ ~ Busy(job'[t])
    BY <1>13, PurgingKeepsJobs, Zenon DEF Inv, WriteSucceeds
  <2>2. commit_in_progress' = commit_in_progress
    BY <1>1, <1>13, Zenon DEF Inv, CommitterOK
  <2>3. \A u \in Thread : job[u].pc = "manifest" \/ job'[u].pc = "manifest" => job'[u] = job[u]
    BY <2>1 DEF OthersKept, Busy, WriteSucceeds
  <2>4. ASSUME NEW u \in Thread, job[u].pc = "manifest", NEW m \in Batch(u)
        PROVE  m \in completed' /\ file_number'[m] = file_number[m] /\ content'[file_number[m]] = content[file_number[m]]
    <3>1. m \in completed
      BY <2>4 DEF Inv, CommitterOK
    <3> QED BY <1>1, <1>3, <1>4, <3>1
  <2>5. Len(memlist') \in Nat /\ Len(memlist') >= Len(memlist) /\ Base' = Base
    BY <1>1, <1>2
  <2>6. CommitterOK'
    BY <1>2, <2>2, <2>3, <2>4, <2>5, CommitterIsKept
  <2>7. job'[t].pc # "write"
    BY <2>1 DEF Busy
  <2> QED BY <1>5, <1>7, <1>8, <1>10, <1>11, <2>1, <2>6, <2>7 DEF Inv
<1> QED BY <1>12, <1>13

\* A commit: its memtables leave the list, their files enter the version, and the
\* loop goes on if the oldest memtable left is completed.
LEMMA CommitKeepsInv ==
    ASSUME Inv, NEW t \in Thread, CommitSucceeds(t)
    PROVE  Inv'
<1> DEFINE b == job[t].batch
           B == (Base + 1)..(Base + b)
<1>1. /\ memlist' = SubSeq(memlist, b + 1, Len(memlist))
      /\ in_progress' = in_progress \intersect Range(memlist')
      /\ completed' = completed \intersect Range(memlist')
      /\ commit_in_progress' = (memlist' # <<>> /\ Head(memlist') \in completed)
      /\ live' = live \union {job[t].edits[n].file : n \in DOMAIN job[t].edits}
      /\ UNCHANGED <<file_number, num_flush_not_started, next_file, content, added>>
  BY DEF CommitSucceeds, RemoveMemTables, Remaining, fileVars
<1>2. ListOK /\ Base \in Nat /\ added \in Nat /\ Len(memlist) \in Nat /\ added = Base + Len(memlist)
  BY ListIsInterval DEF Inv, ListOK
<1>3. /\ memlist \in Seq(Nat) /\ \A i \in 1..Len(memlist) : memlist[i] = Base + i
      /\ completed \subseteq in_progress /\ in_progress \subseteq (Base + 1)..added
  BY <1>2 DEF ListOK
<1>4. /\ job[t].pc = "manifest" /\ b \in 1..Len(memlist) /\ B \subseteq completed
      /\ \A m \in B : content[file_number[m]] \subseteq B
      /\ {job[t].edits[n].file : n \in DOMAIN job[t].edits} = {file_number[m] : m \in B}
  BY Zenon DEF Inv, CommitterOK, CommitSucceeds, Batch
<1>5. b \in Nat /\ b <= Len(memlist) /\ Base + b \in Nat
  <2>1. b \in 1..Len(memlist)
    BY <1>4, Zenon
  <2> HIDE DEF b
  <2> QED BY <1>2, <2>1
<1> HIDE DEF b
<1>6. /\ memlist' \in Seq(Nat) /\ Len(memlist') = Len(memlist) - b
      /\ \A i \in 1..(Len(memlist) - b) : memlist'[i] = memlist[b + i]
  <2>1. \A i \in (b + 1)..Len(memlist) : memlist[i] \in Nat
    BY <1>2, <1>3, <1>5
  <2>2. /\ memlist' \in Seq(Nat)
        /\ Len(memlist') = IF b + 1 <= Len(memlist) THEN Len(memlist) - (b + 1) + 1 ELSE 0
        /\ \A i \in 1..(Len(memlist) - (b + 1) + 1) : memlist'[i] = memlist[(b + 1) + i - 1]
    <3>1. b + 1 \in Int /\ Len(memlist) \in Int
      BY <1>2, <1>5
    <3> QED BY <1>1, <2>1, <3>1, TailOfList, Zenon
  <2>3. Len(memlist') = Len(memlist) - b
    <3>1. Len(memlist') = IF b + 1 <= Len(memlist) THEN Len(memlist) - (b + 1) + 1 ELSE 0
      BY <2>2, Zenon
    <3> QED BY <1>2, <1>5, <3>1
  <2>4. Len(memlist) - (b + 1) + 1 = Len(memlist) - b
    BY <1>2, <1>5
  <2>5. \A i \in 1..(Len(memlist) - b) : (b + 1) + i - 1 = b + i
    BY <1>2, <1>5
  <2> QED BY <2>2, <2>3, <2>4, <2>5, Zenon
<1>7. Base' = Base + b
  <2>1. added' = added /\ Len(memlist') = Len(memlist) - b
    BY <1>1, <1>6
  <2>2. Base' = added - (Len(memlist) - b)
    BY <2>1 DEF Base
  <2> QED BY <1>2, <1>5, <2>2
<1>8. \A i \in 1..Len(memlist') : memlist'[i] = Base' + i
  <2>1. ASSUME NEW i \in 1..(Len(memlist) - b) PROVE memlist'[i] = Base + b + i
    <3>1. b + i \in 1..Len(memlist) /\ Base + (b + i) = Base + b + i
      BY <1>2, <1>5
    <3> QED BY <1>3, <1>6, <3>1
  <2> QED BY <1>6, <1>7, <2>1
<1>9. Range(memlist') = (Base' + 1)..added
  <2>1. /\ DOMAIN memlist' = 1..Len(memlist') /\ Len(memlist') = added - Base'
        /\ Base' \in Nat /\ Base' <= added
    <3>1. Len(memlist') = added - Base' /\ Base' \in Nat /\ Base' <= added
      BY <1>2, <1>5, <1>6, <1>7
    <3> QED BY <1>6, <3>1
  <2>2. \A i \in 1..(added - Base') : memlist'[i] = Base' + i
    <3>1. 1..(added - Base') = 1..Len(memlist')
      BY <2>1
    <3> QED BY <1>8, <3>1, Zenon
  <2>3. ASSUME NEW m \in (Base' + 1)..added PROVE \E i \in DOMAIN memlist' : memlist'[i] = m
    <3>1. m - Base' \in 1..(added - Base') /\ Base' + (m - Base') = m
      <4>1. \A x, y \in Nat : \A z \in (x + 1)..y : z - x \in 1..(y - x) /\ x + (z - x) = z
        OBVIOUS
      <4> QED BY <1>2, <2>1, <4>1, Zenon
    <3> QED BY <2>1, <2>2, <3>1, Zenon
  <2>4. ASSUME NEW i \in DOMAIN memlist' PROVE memlist'[i] \in (Base' + 1)..added
    BY <1>2, <2>1, <2>2
  <2> QED BY <2>3, <2>4 DEF Range
<1>10. /\ Base' \in Nat /\ Base' <= added /\ (Base + 1)..added = B \union ((Base' + 1)..added)
       /\ B \intersect ((Base' + 1)..added) = {} /\ 1..Base' = 1..Base \union B
       /\ 1..Base \intersect B = {}
  BY <1>2, <1>5, <1>7
<1>11. B \intersect completed' = {} /\ completed' = completed \ B /\ in_progress' = in_progress \ B
  BY <1>1, <1>3, <1>9, <1>10, Zenon
<1>12. ListOK'
  <2>1. ((Base' + 1)..added) \ in_progress' = ((Base + 1)..added) \ in_progress
    BY <1>3, <1>4, <1>10, <1>11
  <2>2. num_flush_not_started' = Cardinality(((Base' + 1)..added) \ in_progress')
    BY <1>1, <1>2, <2>1, Zenon DEF ListOK
  <2>3. completed' \subseteq in_progress' /\ in_progress' \subseteq (Base' + 1)..added
    BY <1>1, <1>3, <1>9, Zenon
  <2>4. added' = added /\ 1..added' \subseteq MemTable /\ DOMAIN file_number' = MemTable
    BY <1>1, <1>2 DEF ListOK
  <2> QED BY <1>2, <1>6, <1>8, <1>10, <2>2, <2>3, <2>4, Zenon DEF ListOK
<1>13. FilesOK'
  BY <1>1 DEF Inv, FilesOK
<1>14. /\ next_file' = next_file /\ content' = content /\ file_number' = file_number /\ added' = added
  BY <1>1
<1>15. \A m \in completed : /\ file_number[m] \in 1..(next_file - 1)
                            /\ m \in content[file_number[m]] /\ content[file_number[m]] \subseteq completed
                            /\ Convex(content[file_number[m]])
                            /\ \A n \in content[file_number[m]] : file_number[n] = file_number[m]
  BY DEF Inv, GroupsOK
<1>16. \A m \in completed' : content[file_number[m]] \subseteq completed'
  <2> SUFFICES ASSUME NEW m \in completed', NEW n \in content[file_number[m]] PROVE n \in completed'
    OBVIOUS
  <2>1. m \in completed /\ m \notin B
    BY <1>11
  <2>2. n \in completed /\ file_number[n] = file_number[m] /\ m \in content[file_number[m]]
    BY <1>15, <2>1
  <2>3. n \notin B
    BY <1>4, <2>1, <2>2
  <2> QED BY <1>11, <2>2, <2>3
<1>17. GroupsOK'
  <2>1. \A m \in completed' : m \in completed
    BY <1>11
  <2> QED BY <1>14, <1>15, <1>16, <2>1 DEF GroupsOK, Convex
<1>18. LiveOK'
  <2> DEFINE F == {file_number[m] : m \in B}
  <2>1. live' = live \union F
    BY <1>1, <1>4
  <2>2. \A f \in F : f \in 1..(next_file - 1) /\ content[f] \subseteq B
    BY <1>4, <1>15
  <2>3. \A m \in B : file_number[m] \in F /\ m \in content[file_number[m]]
    BY <1>4, <1>15
  <2>4. ASSUME NEW f \in F, NEW g \in F, NEW x \in content[f], x \in content[g] PROVE f = g
    <3>1. PICK m \in B : f = file_number[m]
      OBVIOUS
    <3>2. PICK n \in B : g = file_number[n]
      OBVIOUS
    <3>3. m \in completed /\ n \in completed
      BY <1>4
    <3>4. file_number[x] = f
      BY <1>15, <3>1, <3>3
    <3>5. file_number[x] = g
      BY <1>15, <2>4, <3>2, <3>3
    <3> QED BY <3>4, <3>5
  <2> HIDE DEF F, B
  <2>5. /\ live \subseteq 1..(next_file - 1) /\ \A f \in live : content[f] \subseteq 1..Base
        /\ \A m \in 1..Base : \E f \in live : m \in content[f]
        /\ \A f, g \in live : content[f] \intersect content[g] # {} => f = g
    BY Zenon DEF Inv, LiveOK
  <2>6. live' \subseteq 1..(next_file - 1) /\ \A f \in live' : content[f] \subseteq 1..Base'
    BY <1>10, <2>1, <2>2, <2>5, Zenon
  <2>7. ASSUME NEW m \in 1..Base' PROVE \E f \in live' : m \in content[f]
    <3>1. m \in 1..Base \/ m \in B
      BY <1>10
    <3> QED BY <2>1, <2>3, <2>5, <3>1
  <2>8. ASSUME NEW f \in live', NEW g \in live', content[f] \intersect content[g] # {} PROVE f = g
    <3>1. PICK x : x \in content[f] /\ x \in content[g]
      BY <2>8
    <3>2. (f \in live /\ g \in live) \/ (f \in F /\ g \in F)
      BY <1>10, <2>1, <2>2, <2>5, <3>1
    <3> QED BY <2>4, <2>5, <3>1, <3>2, Zenon
  <2> QED BY <1>14, <2>6, <2>7, <2>8 DEF LiveOK
<1>19. ASSUME JobsOK', OthersKept(t), job'[t].pc # "write" PROVE WritersOK'
  <2>1. \A u \in Thread : job'[u].pc = "write" =>
            /\ u # t /\ job'[u] = job[u] /\ job[u].pc = "write"
            /\ Range(job[u].mems) \subseteq in_progress' \ completed'
    <3> SUFFICES ASSUME NEW u \in Thread, job'[u].pc = "write"
                 PROVE  /\ u # t /\ job'[u] = job[u] /\ job[u].pc = "write"
                        /\ Range(job[u].mems) \subseteq in_progress' \ completed'
      OBVIOUS
    <3>1. u # t /\ job'[u] = job[u] /\ job[u].pc = "write"
      BY <1>19 DEF OthersKept, Busy
    <3>2. Range(job[u].mems) \subseteq in_progress \ completed
      BY <3>1 DEF Inv, WritersOK
    <3> QED BY <1>4, <1>11, <3>1, <3>2
  <2> QED BY <1>14, <2>1, Zenon DEF Inv, WritersOK, Convex, Thread
<1>20. Base' + 1 \in completed' <=> commit_in_progress'
  <2>1. ASSUME Base' + 1 \in completed' PROVE commit_in_progress'
    <3>1. 1 \in 1..Len(memlist') /\ Len(memlist') # 0
      <4>1. Base' + 1 \in (Base' + 1)..added
        BY <1>1, <1>9, <2>1, Zenon
      <4>2. Len(memlist') = added - Base' /\ Base' \in Nat
        BY <1>2, <1>5, <1>6, <1>7
      <4> QED BY <1>2, <4>1, <4>2
    <3>2. memlist' # <<>> /\ Head(memlist') = memlist'[1]
      BY <1>6, <3>1
    <3> QED BY <1>1, <1>8, <2>1, <3>1, <3>2, Zenon
  <2>2. ASSUME commit_in_progress' PROVE Base' + 1 \in completed'
    <3>1. memlist' # <<>> /\ Head(memlist') \in completed
      BY <1>1, <2>2, Zenon
    <3>2. 1 \in 1..Len(memlist') /\ Head(memlist') = memlist'[1]
      BY <1>6, <3>1
    <3>3. Head(memlist') = Base' + 1 /\ Head(memlist') \in Range(memlist')
      BY <1>6, <1>8, <3>2 DEF Range
    <3> QED BY <1>1, <3>1, <3>3, Zenon
  <2> QED BY <2>1, <2>2
<1>21. CommitNotLost'
  BY <1>20 DEF CommitNotLost
<1>22. \A u \in Thread \ {t} : job[u].pc # "manifest"
  BY <1>4 DEF Inv, CommitterOK
<1>23. commit_in_progress' \in BOOLEAN
  BY <1>1
<1>24. CASE commit_in_progress'
  <2> DEFINE c == BatchCount(memlist', completed')
             edits == Edits(memlist', c, file_number)
  <2>1. job' = [job EXCEPT ![t] = [pc |-> "manifest", batch |-> c, edits |-> edits, pend |-> @.pend]]
    BY <1>24 DEF CommitSucceeds, LogAndApply
  <2>2. Numbered(memlist', Base', completed')
    <3>1. completed' \subseteq (Base' + 1)..(Base' + Len(memlist'))
      <4>1. Base' + Len(memlist') = added
        BY <1>2, <1>5, <1>6, <1>7
      <4> QED BY <1>1, <1>9, <4>1, Zenon
    <3> QED BY <1>8, <3>1 DEF Numbered
  <2>3. Grouped(completed', file_number)
    BY <1>11, <1>15, <1>16 DEF Grouped
  <2>4. c \in 0..Len(memlist') /\ Whole(Base', c, completed', file_number, edits)
    BY <1>6, <1>10, <2>2, <2>3, BatchIsWhole
  <2> HIDE DEF c, edits
  <2>5. /\ DOMAIN job' = Thread /\ \A u \in Thread \ {t} : job'[u] = job[u]
        /\ job'[t].pc = "manifest" /\ job'[t].batch = c /\ job'[t].edits = edits
    BY <2>1 DEF Inv, JobsOK
  <2>6. JobsOK'
    BY <2>5 DEF Inv, JobsOK, Thread
  <2>7. OthersKept(t)
    BY <2>5 DEF OthersKept
  <2>8. c \in 1..Len(memlist')
    <3>1. c > 0
      BY <1>20, <1>24, <2>4 DEF Whole
    <3> QED BY <1>6, <2>4, <3>1
  <2>9. Batch(t)' = (Base' + 1)..(Base' + c)
    BY <2>5 DEF Batch
  <2>10. /\ job'[t].batch \in 1..Len(memlist')
         /\ Batch(t)' \subseteq completed'
         /\ \A m \in Batch(t)' : content'[file_number'[m]] \subseteq Batch(t)'
         /\ {job'[t].edits[n].file : n \in DOMAIN job'[t].edits} = {file_number'[m] : m \in Batch(t)'}
    BY <1>14, <2>4, <2>5, <2>8, <2>9, Zenon DEF Whole
  <2>11. commit_in_progress' <=> \E u \in Thread : job'[u].pc = "manifest"
    BY <1>24, <2>5
  <2>12. \A u \in Thread : job'[u].pc = "manifest" => u = t
    BY <1>22, <2>5
  <2>13. CommitterOK'
    BY <1>23, <2>10, <2>11, <2>12, Zenon DEF CommitterOK, Thread
  <2> QED BY <1>12, <1>13, <1>17, <1>18, <1>19, <1>21, <2>5, <2>6, <2>7, <2>13 DEF Inv
<1>25. CASE ~ commit_in_progress'
  <2>1. JobsOK' /\ OthersKept(t) /\ ~ Busy(job'[t])
    BY <1>25, PurgingKeepsJobs, Zenon DEF Inv, CommitSucceeds
  <2>2. \A u \in Thread : job'[u].pc # "manifest"
    BY <1>22, <2>1 DEF OthersKept, Busy
  <2>3. CommitterOK'
    BY <1>23, <1>25, <2>2 DEF CommitterOK, Thread
  <2>4. job'[t].pc # "write"
    BY <2>1 DEF Busy
  <2> QED BY <1>12, <1>13, <1>17, <1>18, <1>19, <1>21, <2>1, <2>3, <2>4 DEF Inv
<1> QED BY <1>24, <1>25

-----------------------------------------------------------------------------
(* Theorems.                                                               *)

\* Every step of a writer, a flush thread or the recovery keeps the invariant.
LEMMA StepKeepsInv ==
    ASSUME Inv, [Next]_vars
    PROVE  Inv'
<1> DEFINE Idle == \A u \in Thread : Busy(job[u]) \/ Busy(job'[u]) => job'[u] = job[u]
           Frame == UNCHANGED <<listVars, next_file, content, live, added>>
<1>1. ASSUME Frame, job' = job PROVE Inv'
  <2>1. JobsOK'
    BY <1>1 DEF Inv, JobsOK, Thread
  <2> QED BY <1>1, <2>1, FrameKeepsInv
<1>2. ASSUME Frame, NEW reason, SchedulePendingFlush(reason, job) PROVE Inv'
  <2>1. JobsOK' /\ Idle
    BY <1>2, SchedulingKeepsJobs DEF Inv, JobsOK, SchedulePendingFlush
  <2> QED BY <1>2, <2>1, FrameKeepsInv
<1>3. ASSUME Frame, NEW t \in Thread, ~ Busy(job[t]), NEW force, Purging(t, force, live) PROVE Inv'
  <2>1. JobsOK' /\ OthersKept(t) /\ ~ Busy(job'[t])
    BY <1>3, PurgingKeepsJobs DEF Inv
  <2>2. Idle
    BY <1>3, <2>1 DEF OthersKept
  <2> QED BY <1>3, <2>1, <2>2, FrameKeepsInv
<1>4. ASSUME NEW t \in Thread, BackgroundFlush(t) PROVE Inv'
  <2>1. job[t].pc = "scheduled" /\ ~ Busy(job[t]) /\ live' = live /\ added' = added
    BY <1>4 DEF BackgroundFlush, versionVars, Busy
  <2>2. CASE job' = [job EXCEPT ![t] = [pc |-> "sleep", pend |-> next_file]] /\ UNCHANGED <<listVars, fileVars>>
    <3>1. Frame
      BY <2>1, <2>2 DEF fileVars
    <3>2. DOMAIN job' = Thread /\ job'[t].pc = "sleep" /\ \A u \in Thread \ {t} : job'[u] = job[u]
      BY <2>2 DEF Inv, JobsOK
    <3>3. JobsOK' /\ Idle
      BY <2>1, <3>2 DEF Inv, JobsOK, Busy, Thread
    <3> QED BY <3>1, <3>3, FrameKeepsInv
  <2>3. CASE IsFlushPending /\ PickMemtablesToFlush
             /\ job' = [job EXCEPT ![t] = [pc |-> "write", reason |-> flush_queue, mems |-> Picked,
                                           file |-> next_file, pend |-> next_file]]
             /\ content' = Append(content, Range(Picked)) /\ next_file' = next_file + 1
    BY <2>1, <2>3, PickKeepsInv, Zenon
  <2>4. CASE Purging(t, FALSE, live) /\ UNCHANGED <<listVars, fileVars>>
    <3>1. Frame
      BY <2>1, <2>4 DEF fileVars
    <3> QED BY <1>3, <2>1, <2>4, <3>1, Zenon
  <2> QED BY <1>4, <2>2, <2>3, <2>4, Zenon DEF BackgroundFlush
<1>5. ASSUME NEW t \in Thread, WriteFails(t) PROVE Inv'
  <2>1. JobsOK' /\ OthersKept(t) /\ ~ Busy(job'[t])
    BY <1>5, FailingKeepsJobs DEF Inv, WriteFails
  <2> QED BY <1>5, <2>1, RollbackKeepsInv DEF WriteFails, versionVars
<1>6. ASSUME NEW t \in Thread, WriteInVain(t) PROVE Inv'
  <2>1. DOMAIN job' = Thread /\ job'[t].pc = "sleep" /\ \A u \in Thread \ {t} : job'[u] = job[u]
    BY <1>6 DEF WriteInVain, Inv, JobsOK
  <2>2. JobsOK' /\ OthersKept(t) /\ ~ Busy(job'[t])
    BY <2>1 DEF Inv, JobsOK, OthersKept, Busy, Thread
  <2> QED BY <1>6, <2>2, RollbackKeepsInv DEF WriteInVain, versionVars, fileVars
<1>7. ASSUME NEW t \in Thread, CommitFails(t) PROVE Inv'
  <2>1. JobsOK' /\ OthersKept(t) /\ ~ Busy(job'[t])
    BY <1>7, FailingKeepsJobs DEF Inv, CommitFails
  <2> QED BY <1>7, <2>1, CommitFailureKeepsInv DEF CommitFails, fileVars
<1>8. ASSUME NEW t \in Thread, Wake(t) PROVE Inv'
  <2>1. Frame /\ ~ Busy(job[t]) /\ Purging(t, TRUE, live)
    BY <1>8, Zenon DEF Wake, fileVars, versionVars, Busy
  <2> QED BY <1>3, <2>1, Zenon
<1>9. ASSUME NEW t \in Thread, PurgeObsoleteFiles(t) PROVE Inv'
  <2> DEFINE jobs == [job EXCEPT ![t] = NoJob]
  <2>1. Frame /\ job[t].pc = "purge" /\ MaybeSchedule(jobs, unscheduled_flushes)
    BY <1>9 DEF PurgeObsoleteFiles, versionVars
  <2>2. DOMAIN jobs = Thread /\ jobs[t].pc = "none" /\ \A u \in Thread \ {t} : jobs[u] = job[u]
    BY DEF Inv, JobsOK, NoJob
  <2>3. \A u \in Thread : jobs[u].pc \in {"none", "scheduled", "write", "manifest", "sleep", "join", "purge"}
    BY <2>2 DEF Inv, JobsOK
  <2> HIDE DEF jobs
  <2>4. JobsOK' /\ \A u \in Thread : Busy(jobs[u]) \/ Busy(job'[u]) => job'[u] = jobs[u]
    BY <2>1, <2>2, <2>3, SchedulingKeepsJobs
  <2>5. Idle
    BY <2>1, <2>2, <2>4 DEF Busy
  <2> QED BY <2>1, <2>4, <2>5, FrameKeepsInv
<1>10. ASSUME Recover PROVE Inv'
  <2>1. ASSUME RecoverBegin \/ ResumeImpl \/ RecoverWait \/ RecoverClean PROVE Inv'
    <3>1. Frame /\ job' = job
      BY <2>1, Zenon DEF RecoverBegin, ResumeImpl, RecoverWait, RecoverClean, fileVars, versionVars
    <3> QED BY <1>1, <3>1
  <2>2. ASSUME RecoverFlush PROVE Inv'
    <3>1. Frame /\ SchedulePendingFlush("recovery", job)
      BY <2>2 DEF RecoverFlush, fileVars, versionVars
    <3> QED BY <1>2, <3>1
  <2>3. ASSUME RecoverCatchUp PROVE Inv'
    <3>1. Frame /\ SchedulePendingFlush("write", job)
      BY <2>3 DEF RecoverCatchUp, fileVars, versionVars
    <3> QED BY <1>2, <3>1
  <2>4. ASSUME RecoverEnd PROVE Inv'
    <3>1. Frame
      BY <2>4 DEF RecoverEnd, fileVars, versionVars
    <3>2. DOMAIN job' = Thread
      BY <2>4 DEF RecoverEnd
    <3>3. \A u \in Thread : \/ job[u].pc = "join" /\ job'[u].pc = "sleep"
                            \/ job'[u] = job[u]
      BY <2>4 DEF RecoverEnd
    <3>4. JobsOK' /\ Idle
      BY <3>2, <3>3 DEF Inv, JobsOK, Busy, Thread
    <3> QED BY <3>1, <3>4, FrameKeepsInv
  <2> QED BY <1>10, <2>1, <2>2, <2>3, <2>4 DEF Recover
<1>11. CASE UNCHANGED vars
  BY <1>1, <1>11 DEF vars, fileVars, versionVars
<1> HIDE DEF Frame, Idle
<1> QED BY <1>4, <1>5, <1>6, <1>7, <1>8, <1>9, <1>10, <1>11, SwitchKeepsInv, InstallKeepsInv, CommitKeepsInv
        DEF Next, Flush

\* The list, the files, the jobs and the version fit together in every state, for
\* all numbers of memtables, flush threads and failures.
THEOREM FlushInvariant == Spec => []Inv
<1>1. Init => Inv
  BY InitEstablishes
<1>2. Inv /\ [Next]_vars => Inv'
  BY StepKeepsInv
<1> QED BY <1>1, <1>2, PTL DEF Spec

\* Memtables are recorded in the order of their creation: a file of the version
\* holds none younger than one still in the list (TryInstallMemtableFlushResults
\* commits the longest completed prefix only).
THEOREM MemtablesCommittedInOrder == Spec => []CommittedInOrder
<1>1. Inv => CommittedInOrder
  <2> SUFFICES ASSUME Inv, NEW f \in live, NEW m \in content[f], NEW n \in Range(memlist) PROVE m < n
    BY DEF CommittedInOrder
  <2>1. m \in 1..Base /\ Base \in Nat
    BY DEF Inv, LiveOK, ListOK
  <2>2. n \in (Base + 1)..added /\ added \in Nat
    BY ListIsInterval DEF Inv, ListOK
  <2> QED BY <2>1, <2>2
<1> QED BY <1>1, FlushInvariant, PTL

\* Every memtable is in the list or in exactly one file of the version, whatever
\* was undone and flushed again.
THEOREM MemtablesFlushedOnce == Spec => []EachMemtableOnce
<1>1. Inv => EachMemtableOnce
  <2> SUFFICES ASSUME Inv, NEW m \in 1..added
               PROVE  Cardinality({f \in live : m \in content[f]}) = IF m \in Range(memlist) THEN 0 ELSE 1
    BY DEF EachMemtableOnce
  <2>1. Range(memlist) = (Base + 1)..added /\ Base \in Nat /\ added \in Nat
    BY ListIsInterval DEF Inv, ListOK
  <2>2. CASE m \in Range(memlist)
    <3>1. m \notin 1..Base
      BY <2>1, <2>2
    <3>2. {f \in live : m \in content[f]} = {}
      BY <3>1, Zenon DEF Inv, LiveOK
    <3>3. Cardinality({f \in live : m \in content[f]}) = 0
      BY <3>2, FS_EmptySet
    <3> QED BY <2>2, <3>3
  <2>3. CASE m \notin Range(memlist)
    <3>1. m \in 1..Base
      BY <2>1, <2>3
    <3>2. PICK f \in live : m \in content[f]
      BY <3>1 DEF Inv, LiveOK
    <3>3. {g \in live : m \in content[g]} = {f}
      BY <3>2, Zenon DEF Inv, LiveOK
    <3>4. Cardinality({g \in live : m \in content[g]}) = 1
      BY <3>3, FS_Singleton
    <3> QED BY <2>3, <3>4
  <2> QED BY <2>2, <2>3
<1> QED BY <1>1, FlushInvariant, PTL

\* When the oldest memtable is completed some thread commits it, also the one that
\* left the commit to a concurrent flush thread.
THEOREM CommitIsNeverLost == Spec => []NoLostCommit
<1>1. Inv => NoLostCommit
  <2> SUFFICES ASSUME Inv, memlist # <<>>, Head(memlist) \in completed
               PROVE  \E t \in Thread : job[t].pc = "manifest" /\ commit_in_progress
    BY DEF NoLostCommit
  <2>1. Head(memlist) \in Range(memlist) /\ Head(memlist) = memlist[1] /\ 1 \in 1..Len(memlist)
    BY DEF Inv, ListOK, Range
  <2>2. Head(memlist) = Base + 1
    BY <2>1 DEF Inv, ListOK
  <2> QED BY <2>2 DEF Inv, CommitNotLost, CommitterOK
<1> QED BY <1>1, FlushInvariant, PTL

=============================================================================
