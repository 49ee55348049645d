--------------------------- MODULE MicroBenchProofs ---------------------------
(***************************************************************************)
(* For every number of threads and accesses, and every size of file and    *)
(* accesses, the micro benchmark stays inside its file and its array of    *)
(* offsets, and times all of its accesses.                                 *)
(***************************************************************************)
EXTENDS MicroBench, TLAPS

\* At least one thread.
Counts == NumThreads \in Nat \ {0} /\ NumAccesses \in Nat

\* What the variables are.
TypeOK ==
    /\ access_size \in Nat /\ file_size \in Nat /\ access_size < file_size
    /\ offsets \in [Index -> Nat]
    /\ main \in {"draw", "create", "join", "stop", "exit"}
    /\ created \in 0..NumThreads /\ joined \in 0..NumThreads
    /\ worker \in [Thread -> {"none", "open", "loop", "closed"}]
    /\ i \in [Thread -> 0..NumAccesses]
    /\ accessed \subseteq Index

\* All offsets, also before they are drawn, leave room for an access.
OffsetsInside == \A k \in Index : offsets[k] + access_size <= file_size

\* Thread t has made its first i[t] accesses, and all of them once it closed
\* the file.
Made ==
    \A t \in Thread :
        /\ \A n \in 0..(NumAccesses - 1) : n < i[t] => Slice(t) + n \in accessed
        /\ worker[t] = "closed" => i[t] = NumAccesses

\* The threads joined have closed the file, and main goes on when there are no
\* more of them.
Joins ==
    /\ \A t \in Thread : t < joined => worker[t] = "closed"
    /\ main \in {"draw", "create"} => joined = 0 /\ created < NumThreads
    /\ main = "join" => joined < NumThreads
    /\ main = "stop" => joined = NumThreads

Inv == TypeOK /\ OffsetsInside /\ Made /\ Joins

\* The slices of the threads lie in the array (offsets + i * num_accesses).
LEMMA SliceInside ==
    ASSUME Counts, NEW t \in Thread, NEW n \in 0..(NumAccesses - 1)
    PROVE  Slice(t) + n \in Index
  <1>1. /\ NumThreads \in Nat /\ NumAccesses \in Nat /\ t \in Nat /\ t + 1 <= NumThreads
        /\ n \in Nat /\ n < NumAccesses
    BY DEF Counts, Thread
  <1>2. ASSUME NEW a \in Nat, NEW b \in Nat, NEW c \in Nat, a <= b PROVE a * c <= b * c
    BY <1>2
  <1>3. (t + 1) * NumAccesses <= NumThreads * NumAccesses
    BY <1>1, <1>2
  <1>4. (t + 1) * NumAccesses = t * NumAccesses + NumAccesses
    BY <1>1
  <1>5. t * NumAccesses \in Nat /\ NumThreads * NumAccesses \in Nat
    BY <1>1
  <1> QED
    BY <1>1, <1>3, <1>4, <1>5 DEF Slice, Index

\* Together they make up the whole array.
LEMMA SlicesCover ==
    ASSUME Counts, NEW k \in Index
    PROVE  \E t \in Thread : \E n \in 0..(NumAccesses - 1) : k = Slice(t) + n
  <1>1. NumThreads \in Nat \ {0} /\ NumAccesses \in Nat
    BY DEF Counts
  <1>2. NumThreads * NumAccesses \in Nat
    BY <1>1
  <1>3. k \in Nat /\ k < NumThreads * NumAccesses
    BY <1>2 DEF Index
  <1>4. NumAccesses \in Nat \ {0}
    BY <1>1, <1>3
  <1>5. ASSUME NEW a \in Nat, NEW b \in Nat \ {0}
        PROVE  \E q \in Nat : \E m \in 0..(b - 1) : a = q * b + m
    <2>1. a \div b \in Nat /\ a % b \in 0..(b - 1) /\ a = (a \div b) * b + (a % b)
      BY <1>5
    <2> QED
      BY <2>1
  <1>6. PICK t \in Nat : \E m \in 0..(NumAccesses - 1) : k = t * NumAccesses + m
    BY <1>3, <1>4, <1>5, Zenon
  <1>7. PICK n \in 0..(NumAccesses - 1) : k = t * NumAccesses + n
    BY <1>6
  <1>8. t < NumThreads
    <2>1. ASSUME NEW a \in Nat, NEW b \in Nat, NEW c \in Nat, b <= a PROVE b * c <= a * c
      BY <2>1
    <2>2. t * NumAccesses \in Nat
      BY <1>1
    <2>3. t * NumAccesses < NumThreads * NumAccesses
      BY <1>1, <1>2, <1>3, <1>7, <2>2
    <2> QED
      BY <1>1, <1>2, <1>7, <2>1, <2>2, <2>3
  <1>9. t \in Thread /\ Slice(t) = t * NumAccesses
    BY <1>1, <1>8 DEF Thread, Slice
  <1> QED
    BY <1>7, <1>9, Zenon

\* Before anything is drawn no access has been made.
LEMMA InitInv == Counts /\ Init => Inv
  <1> SUFFICES ASSUME Counts, Init PROVE Inv
    OBVIOUS
  <1>1. TypeOK /\ OffsetsInside /\ Joins
    BY DEF Counts, Init, TypeOK, OffsetsInside, Joins, Thread
  <1>2. Made
    BY DEF Init, Made, Counts
  <1> QED
    BY <1>1, <1>2 DEF Inv

\* Each step of main and of a worker keeps the invariant.
LEMMA StepInv == Counts /\ Inv /\ [Next]_vars => Inv'
  <1> SUFFICES ASSUME Counts, Inv, [Next]_vars PROVE Inv'
    OBVIOUS
  <1> USE DEF Inv, experiment
  <1>1. CASE DrawOffsets
    <2>1. CASE main' = "exit" /\ UNCHANGED offsets
      BY <1>1, <2>1 DEF DrawOffsets, TypeOK, OffsetsInside, Made, Joins, Slice
    <2>2. CASE main' = "create" /\ \E r \in [Index -> Nat] : offsets' = [k \in Index |-> Offset(r[k])]
      <3>1. PICK r \in [Index -> Nat] : offsets' = [k \in Index |-> Offset(r[k])]
        BY <2>2
      <3>2. ASSUME NEW x \in Nat
            PROVE  Offset(x) \in Nat /\ Offset(x) + access_size <= file_size
        <4>1. file_size - access_size \in Nat \ {0}
          BY DEF TypeOK
        <4>2. Offset(x) \in 0..(file_size - access_size - 1)
          BY <4>1 DEF Offset
        <4> QED
          BY <4>1, <4>2 DEF TypeOK
      <3>3. offsets' \in [Index -> Nat] /\ \A k \in Index : offsets'[k] + access_size <= file_size
        BY <3>1, <3>2
      <3> QED
        BY <1>1, <2>2, <3>3, main = "draw" DEF DrawOffsets, TypeOK, OffsetsInside, Made, Joins, Slice
    <2> QED
      BY <1>1, <2>1, <2>2 DEF DrawOffsets
  <1>2. CASE pthread_create
    <2>1. created \in Thread /\ joined = 0 /\ created + 1 <= NumThreads
      BY <1>2 DEF pthread_create, Joins, TypeOK, Thread, Counts
    <2> QED
      BY <1>2, <2>1 DEF pthread_create, TypeOK, OffsetsInside, Made, Joins, Slice, Counts
  <1>3. CASE pthread_join
    <2>1. joined \in Thread /\ joined + 1 <= NumThreads
      BY <1>3 DEF pthread_join, Joins, TypeOK, Thread, Counts
    <2> QED
      BY <1>3, <2>1 DEF pthread_join, TypeOK, OffsetsInside, Made, Joins, Slice, Thread, Counts
  <1>4. ASSUME NEW t \in Thread, Open(t) PROVE Inv'
    BY <1>4 DEF Open, TypeOK, OffsetsInside, Made, Joins, Slice
  <1>5. ASSUME NEW t \in Thread, Access(t) PROVE Inv'
    <2>1. i[t] \in 0..(NumAccesses - 1)
      BY <1>5 DEF Access, TypeOK, Counts
    <2>2. Slice(t) + i[t] \in Index
      BY <2>1, SliceInside
    <2>3. TypeOK'
      BY <1>5, <2>1, <2>2 DEF Access, TypeOK, Counts
    <2>4. OffsetsInside' /\ Joins'
      BY <1>5 DEF Access, OffsetsInside, Joins
    <2>5. Made'
      <3> SUFFICES ASSUME NEW s \in Thread
                   PROVE  /\ \A n \in 0..(NumAccesses - 1) : n < i'[s] => Slice(s) + n \in accessed'
                          /\ worker'[s] = "closed" => i'[s] = NumAccesses
        BY DEF Made, Slice
      <3>1. CASE s = t
        <4>1. i'[s] = i[s] + 1 /\ accessed' = accessed \union {Slice(s) + i[s]} /\ worker'[s] = "loop"
          BY <1>5, <3>1 DEF Access, TypeOK
        <4> QED
          BY <2>1, <3>1, <4>1 DEF Made, Counts
      <3>2. CASE s # t
        BY <1>5, <3>2 DEF Access, Made, TypeOK
      <3> QED
        BY <3>1, <3>2
    <2> QED
      BY <2>3, <2>4, <2>5
  <1>6. ASSUME NEW t \in Thread, Close(t) PROVE Inv'
    BY <1>6 DEF Close, TypeOK, OffsetsInside, Made, Joins, Slice
  <1>7. CASE UNCHANGED vars
    BY <1>7 DEF vars, TypeOK, OffsetsInside, Made, Joins, Slice
  <1> QED
    BY <1>1, <1>2, <1>3, <1>4, <1>5, <1>6, <1>7 DEF Next

\* For every number of threads and accesses and every file larger than an
\* access, the workers only use offsets of the array, and every access lies
\* inside the file (the reduction modulo file_size - access_size in main).
THEOREM BenchInsideFile == Counts => (Spec => []InsideFile)
  <1> SUFFICES ASSUME Counts PROVE Spec => []InsideFile
    OBVIOUS
  <1>1. Init => Inv
    BY InitInv
  <1>2. Inv /\ [Next]_vars => Inv'
    BY StepInv
  <1>3. Inv => InsideFile
    BY DEF Inv, TypeOK, OffsetsInside, InsideFile
  <1> QED
    BY <1>1, <1>2, <1>3, PTL DEF Spec

\* For every number of threads and accesses, the time that main prints covers
\* all accesses of all workers: the joins wait for each of them, and the slices
\* of the array neither overlap past its end nor leave a gap.
THEOREM BenchTimesEverything == Counts => (Spec => []TimeCoversAllAccesses)
  <1> SUFFICES ASSUME Counts PROVE Spec => []TimeCoversAllAccesses
    OBVIOUS
  <1>1. Init => Inv
    BY InitInv
  <1>2. Inv /\ [Next]_vars => Inv'
    BY StepInv
  <1>3. Inv => TimeCoversAllAccesses
    <2> SUFFICES ASSUME Inv, main = "stop", NEW k \in Index PROVE k \in accessed
      BY DEF TimeCoversAllAccesses, Inv, TypeOK
    <2>1. PICK t \in Thread : \E n \in 0..(NumAccesses - 1) : k = Slice(t) + n
      BY SlicesCover
    <2>2. PICK n \in 0..(NumAccesses - 1) : k = Slice(t) + n
      BY <2>1
    <2>3. worker[t] = "closed"
      BY DEF Inv, Joins, Thread, Counts
    <2> QED
      BY <2>2, <2>3 DEF Inv, Made, Counts
  <1> QED
    BY <1>1, <1>2, <1>3, PTL DEF Spec

=============================================================================
