--------------------------- MODULE UniversalPicker ---------------------------
(***************************************************************************)
(* UniversalCompactionBuilder of compaction_picker_universal.cc as this    *)
(* repository changed it: the last resort that ignored size ratios is      *)
(* commented out.  runs is the sequence of sorted runs, newest first, as   *)
(* CalculateSortedRuns builds it; indices start at 1.  Nothing is ever     *)
(* marked for periodic or delete-triggered compaction: the driver switches *)
(* periodic compaction off and deletes no key.                             *)
(***************************************************************************)
EXTENDS Integers, Sequences, FiniteSetsExt

CONSTANTS
    Trigger,        \* level0_file_num_compaction_trigger
    SizeRatio,      \* size_ratio, in percent
    SizeAmp,        \* max_size_amplification_percent
    MinMergeWidth,
    MaxMergeWidth,
    NumLevels       \* num_levels

ASSUME PickerAssumption ==
    /\ Trigger \in Nat \ {0}
    /\ SizeRatio \in Nat
    /\ SizeAmp \in Nat
    /\ MinMergeWidth \in Nat
    /\ MaxMergeWidth \in Nat
    /\ NumLevels \in Nat \ {0}

NoCompaction == [first |-> 0, last |-> 0, output |-> 0]

\* The total size of runs i to j.
SizeOf(runs, i, j) == MapThenSumSet(LAMBDA k : runs[k].size, i..j)

MaxOutputLevel == NumLevels - 1

\* A compaction of runs up to last may only write to the level above the next
\* older run, or into L0 when that run is there.
OutputLevel(runs, last) ==
    IF last = Len(runs) THEN MaxOutputLevel
    ELSE IF runs[last + 1].level = 0 THEN 0
    ELSE runs[last + 1].level - 1

\* FilesRangeOverlapWithCompaction: keys are random, so every two key ranges
\* overlap and only the output levels of the compactions that run matter.
OverlapsWithCompaction(output, outputs) == output # 0 /\ output \in outputs

Compaction(runs, first, last, outputs) ==
    IF OverlapsWithCompaction(OutputLevel(runs, last), outputs) THEN NoCompaction
    ELSE [first |-> first, last |-> last, output |-> OutputLevel(runs, last)]

-----------------------------------------------------------------------------
(* Reducing size amplification.                                            *)

\* From the first idle run on nothing is busy, and the runs before the last
\* outweigh it.
SizeAmpCandidate(runs, first) ==
    LET last == Len(runs)
    IN  /\ \A k \in first..last : ~runs[k].busy
        /\ SizeOf(runs, first, last - 1) * 100 >= SizeAmp * runs[last].size

PickCompactionToReduceSizeAmp(runs, outputs) ==
    LET idle == {k \in 1..(Len(runs) - 1) : ~runs[k].busy}
    IN  IF idle # {} /\ SizeAmpCandidate(runs, Min(idle))
        THEN Compaction(runs, Min(idle), Len(runs), outputs)
        ELSE NoCompaction

-----------------------------------------------------------------------------
(* Reducing the number of sorted runs while size ratios are respected.     *)

MinWidth == Max({MinMergeWidth, 2})

\* Run i may join the candidates start..i-1 (kCompactionStopStyleTotalSize).
Extends(runs, start, i) ==
    /\ ~runs[i].busy
    /\ SizeOf(runs, start, i - 1) * (100 + SizeRatio) >= runs[i].size * 100

\* candidate_count of the loop that starts at start: how far it extends, up to
\* max_files_to_compact runs.
CandidateCount(runs, start) ==
    IF runs[start].busy THEN 0
    ELSE Max({n \in 1..Max({MaxMergeWidth, 1}) :
                 /\ start + n - 1 <= Len(runs)
                 /\ \A i \in (start + 1)..(start + n - 1) : Extends(runs, start, i)})

\* The first run from which enough others can be reached starts the compaction.
PickCompactionToReduceSortedRuns(runs, outputs) ==
    LET CanStart(s) == CandidateCount(runs, s) >= MinWidth
        starts == {s \in 1..Len(runs) : CanStart(s) /\ \A r \in 1..(s - 1) : ~CanStart(r)}
        picked == {Compaction(runs, s, s + CandidateCount(runs, s) - 1, outputs) : s \in starts}
    IN  IF picked = {} THEN NoCompaction ELSE CHOOSE c \in picked : TRUE

-----------------------------------------------------------------------------

\* The compaction of runs the picker chooses while compactions into the levels
\* outputs are running.
PickCompaction(runs, outputs) ==
    IF Len(runs) < Trigger THEN NoCompaction
    ELSE LET c == PickCompactionToReduceSizeAmp(runs, outputs)
         IN  IF c # NoCompaction THEN c
             ELSE PickCompactionToReduceSortedRuns(runs, outputs)

\* UniversalCompactionPicker::NeedsCompaction: the score of L0, the idle runs
\* over the trigger, is at least 1.
NeedsCompaction(runs) ==
    Quantify(1..Len(runs), LAMBDA k : ~runs[k].busy) >= Trigger

=============================================================================
