----------------------------- MODULE TraceParser -----------------------------
(***************************************************************************)
(* The loop over trace lines of parse_trace.py and parse_log.py: how many  *)
(* I/Os are outstanding, where an I/O is a chain of adjacent requests of   *)
(* one process in one direction.  The lines come from a block device that  *)
(* issues requests and completes them in any order; lines of kernel        *)
(* workers, of other events and of requests that are not either a read or  *)
(* a write are skipped by the scripts and left out here.                   *)
(***************************************************************************)
EXTENDS Integers, Sequences, FiniteSets, FiniteSetsExt, Functions

CONSTANTS
    Pid,           \* processes that issue requests
    Addr, Length,  \* first sectors and numbers of sectors
    Shared,        \* whether two processes may have the same request under way
    MaxIssues      \* bound on the requests of a trace

VARIABLES
    device,        \* requests under way: what the device really does
    issued,        \* requests issued so far
    num_ios, ios, last_addr, reqs,    \* the script's variables
    exited         \* the script hit exit(1) or its assertion

vars == <<device, issued, num_ios, ios, last_addr, reqs, exited>>

\* idx: a process and a direction.  The script numbers processes as it meets
\* them; their names do as well.
Stream == Pid \X {"R", "W"}

Request == Addr \X Length

Entry == [stream : Stream, request : Request]

Init ==
    /\ device = {}
    /\ issued = 0
    /\ num_ios = 0
    /\ ios = [s \in Stream |-> <<>>]
    /\ last_addr = [s \in Stream |-> <<>>]
    /\ reqs = <<>>
    /\ exited = FALSE

\* f without x, and f with x mapped to v.
Without(f, x) == Restrict(f, DOMAIN f \ {x})
With(f, x, v) == [y \in DOMAIN f \union {x} |-> IF y = x THEN v ELSE f[y]]

\* A request is not issued again while it is under way, but if Shared two
\* processes may read the same sectors at once (the experiments bypass the page
\* cache).
MayIssue(e) ==
    \A d \in device : d.request = e.request =>
        Shared /\ d.stream[1] # e.stream[1] /\ d.stream[2] = "R" /\ e.stream[2] = "R"

\* The chain now ends where the request does.
MoveTail(tails, start, end, sub) == With(Without(tails, start), end, sub)

\* A line of event D.
Issue(e) ==
    LET s == e.stream
        start == e.request[1]
        new == start \notin DOMAIN last_addr[s]
        sub == IF new THEN Len(ios[s]) + 1 ELSE last_addr[s][start]
        chains == IF new THEN Append(ios[s], {}) ELSE ios[s]
    IN  /\ ~exited
        /\ issued < MaxIssues
        /\ MayIssue(e)
        /\ device' = device \union {e}
        /\ issued' = issued + 1
        /\ num_ios' = IF new THEN num_ios + 1 ELSE num_ios
        /\ exited' = (e.request \in chains[sub])   \* assert request not in ios[idx][sub_idx]
        /\ ios' = [ios EXCEPT ![s] = [chains EXCEPT ![sub] = @ \union {e.request}]]
        /\ last_addr' = [last_addr EXCEPT ![s] =
                           MoveTail(@, start, start + e.request[2], sub)]
        /\ reqs' = With(reqs, e.request, <<s, sub>>)

TailLeft(tails, sub) == tails   \* faulty: the tail outlives its chain

\* The loop that deletes the first tail of the chain that has ended.
DropTail(tails, sub) ==
    LET ends == {a \in DOMAIN tails : tails[a] = sub}
    IN  IF ends = {} THEN tails ELSE Without(tails, CHOOSE a \in ends : TRUE)

Remaining(requests, r) == requests \ {r}

\* A line of event C for the request of e.
Complete(e) ==
    LET r == e.request
        s == reqs[r][1]
        sub == reqs[r][2]
        rest == Remaining(ios[s][sub], r)
    IN  /\ ~exited
        /\ e \in device
        /\ device' = device \ {e}
        /\ UNCHANGED issued
        /\ IF r \notin DOMAIN reqs
           THEN UNCHANGED <<num_ios, ios, last_addr, reqs, exited>>
           ELSE IF s[2] # e.stream[2]
           THEN exited' = TRUE /\ UNCHANGED <<num_ios, ios, last_addr, reqs>>
           ELSE /\ ios' = [ios EXCEPT ![s][sub] = rest]
                /\ reqs' = Without(reqs, r)
                /\ num_ios' = IF rest = {} THEN num_ios - 1 ELSE num_ios
                /\ last_addr' = IF rest = {}
                                THEN [last_addr EXCEPT ![s] = DropTail(@, sub)]
                                ELSE last_addr
                /\ UNCHANGED exited

\* The trace ends ("CPU", or the end of the file).
Done == ((issued = MaxIssues /\ device = {}) \/ exited) /\ UNCHANGED vars

Next == (\E e \in Entry : Issue(e)) \/ (\E e \in device : Complete(e)) \/ Done

Spec == Init /\ [][Next]_vars

-----------------------------------------------------------------------------
(* Properties.                                                             *)

\* The chains that still have requests under way.
Open == {c \in UNION {{<<s, k>> : k \in 1..Len(ios[s])} : s \in Stream} : ios[c[1]][c[2]] # {}}

\* The count that is plotted is the number of chains with a request that the
\* device has not completed, in whatever order completions come, and neither
\* the assertion nor the check of directions stops the script.
CountIsOutstanding ==
    /\ ~exited
    /\ num_ios = Cardinality(Open)
    /\ \A s \in Stream : UNION {ios[s][k] : k \in 1..Len(ios[s])}
                           = {d.request : d \in {e \in device : e.stream = s}}

=============================================================================
