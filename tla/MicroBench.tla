------------------------------ MODULE MicroBench ------------------------------
(***************************************************************************)
(* micro_bench.c: main draws one random offset per access, starts the      *)
(* workers, joins them and takes the time; a worker makes its accesses one *)
(* by one.  A read and a write are the same here, and so are an access     *)
(* that fails and one that does not: the worker goes on.  The module is    *)
(* there for MicroBenchProofs: Init allows every access and file size, and *)
(* NumAccesses, 10 GiB divided by the access size, may be any number.      *)
(***************************************************************************)
EXTENDS Integers

CONSTANTS NumThreads, NumAccesses   \* threads, and accesses of each

VARIABLES
    access_size, file_size,
    offsets,      \* one per access of every thread
    main,         \* where main is; "exit" once somebody called exit(1)
    created, joined,          \* threads started, and joined, so far
    worker, i,    \* where each thread is, and its loop index
    accessed      \* accesses made, as indices into offsets

vars == <<access_size, file_size, offsets, main, created, joined, worker, i, accessed>>
experiment == <<access_size, file_size>>

Thread == 0..(NumThreads - 1)
Index == 0..(NumThreads * NumAccesses - 1)

\* An access size that is no smaller than the file would wrap around.
Offset(r) == r % (file_size - access_size)

Init ==
    /\ access_size \in Nat
    /\ file_size \in Nat /\ access_size < file_size
    /\ offsets = [k \in Index |-> 0]
    /\ main = "draw"
    /\ created = 0 /\ joined = 0
    /\ worker = [t \in Thread |-> "none"]
    /\ i = [t \in Thread |-> 0]
    /\ accessed = {}

\* getrandom fills the array, or returns less and main exits, as it does when
\* it finds no data to write.
DrawOffsets ==
    /\ main = "draw"
    /\ \/ /\ \E r \in [Index -> Nat] : offsets' = [k \in Index |-> Offset(r[k])]
          /\ main' = "create"
       \/ /\ main' = "exit"
          /\ UNCHANGED offsets
    /\ UNCHANGED <<experiment, created, joined, worker, i, accessed>>

\* It succeeds; the code does not look at its result.
pthread_create ==
    /\ main = "create"
    /\ worker' = [worker EXCEPT ![created] = "open"]
    /\ created' = created + 1
    /\ main' = IF created' = NumThreads THEN "join" ELSE "create"
    /\ UNCHANGED <<experiment, offsets, joined, i, accessed>>

\* main waits for the threads in the order it started them.
pthread_join ==
    /\ main = "join"
    /\ worker[joined] = "closed"
    /\ joined' = joined + 1
    /\ main' = IF joined' = NumThreads THEN "stop" ELSE "join"
    /\ UNCHANGED <<experiment, offsets, created, worker, i, accessed>>

\* A worker opens the file, or ends the process.
Open(t) ==
    /\ main # "exit"
    /\ worker[t] = "open"
    /\ \/ worker' = [worker EXCEPT ![t] = "loop"] /\ UNCHANGED main
       \/ main' = "exit" /\ UNCHANGED worker
    /\ UNCHANGED <<experiment, offsets, created, joined, i, accessed>>

\* Where thread t's offsets start.
Slice(t) == t * NumAccesses

\* One pread or pwrite.
Access(t) ==
    /\ main # "exit"
    /\ worker[t] = "loop" /\ i[t] < NumAccesses
    /\ accessed' = accessed \union {Slice(t) + i[t]}
    /\ i' = [i EXCEPT ![t] = @ + 1]
    /\ UNCHANGED <<experiment, offsets, main, created, joined, worker>>

Close(t) ==
    /\ main # "exit"
    /\ worker[t] = "loop" /\ i[t] = NumAccesses
    /\ worker' = [worker EXCEPT ![t] = "closed"]
    /\ UNCHANGED <<experiment, offsets, main, created, joined, i, accessed>>

Next ==
    \/ DrawOffsets \/ pthread_create \/ pthread_join
    \/ \E t \in Thread : Open(t) \/ Access(t) \/ Close(t)

Spec == Init /\ [][Next]_vars

-----------------------------------------------------------------------------
(* Properties.                                                             *)

\* Every access reads an offset of the array, and lies inside the file.
InsideFile == \A k \in accessed : k \in Index /\ offsets[k] + access_size <= file_size

\* When main takes the time, every access of every thread has been made, each
\* with an offset of its own.
TimeCoversAllAccesses == main = "stop" => accessed = Index

=============================================================================
