-------------------------- MODULE TraceParserProofs --------------------------
(***************************************************************************)
(* Proof that the scripts count the outstanding I/Os, for every trace in   *)
(* which no request is issued again while it is under way: any number of   *)
(* processes, addresses, lengths and requests, and completions in any      *)
(* order.  The four variables of the script describe the same chains; the  *)
(* invariant says how they fit together.                                   *)
(***************************************************************************)
EXTENDS TraceParser, FiniteSetTheorems, TLAPS

-----------------------------------------------------------------------------
(* The inductive invariant.                                                *)

ChainsOK ==
    /\ DOMAIN ios = Stream
    /\ \A s \in Stream : ios[s] \in Seq(SUBSET Request)

\* A request is under way once.
DeviceOK ==
    /\ device \subseteq Entry
    /\ \A d, e \in device : d.request = e.request => d = e

\* reqs says in which chain a request that is under way is, and it is there.
ReqsOK ==
    /\ DOMAIN reqs = {d.request : d \in device}
    /\ \A d \in device : \E k \in 1..Len(ios[d.stream]) :
           reqs[d.request] = <<d.stream, k>> /\ d.request \in ios[d.stream][k]

\* A chain holds no other requests.
NoStrays ==
    \A s \in Stream : \A k \in 1..Len(ios[s]) : \A r \in ios[s][k] : r \in DOMAIN reqs /\ reqs[r] = <<s, k>>

\* The tails are those of chains that have not ended, and each chain has at most
\* one.
TailsOK ==
    /\ DOMAIN last_addr = Stream
    /\ \A s \in Stream : \A a \in DOMAIN last_addr[s] :
           last_addr[s][a] \in 1..Len(ios[s]) /\ ios[s][last_addr[s][a]] # {}
    /\ \A s \in Stream : \A a, b \in DOMAIN last_addr[s] : last_addr[s][a] = last_addr[s][b] => a = b

Inv ==
    /\ ~ exited
    /\ ChainsOK
    /\ DeviceOK
    /\ ReqsOK
    /\ NoStrays
    /\ TailsOK
    /\ IsFiniteSet(Open) /\ num_ios = Cardinality(Open)

-----------------------------------------------------------------------------
(* The operators.                                                          *)

\* What Without does to a function.
LEMMA WithoutIs ==
    ASSUME NEW f, NEW x
    PROVE  DOMAIN Without(f, x) = DOMAIN f \ {x} /\ \A y \in DOMAIN f \ {x} : Without(f, x)[y] = f[y]
  BY DEF Without, Restrict

\* Open, for any value of ios.
Opened(chains) == {c \in UNION {{<<s, k>> : k \in 1..Len(chains[s])} : s \in Stream} : chains[c[1]][c[2]] # {}}

LEMMA OpenedIs ==
    ASSUME NEW chains, NEW c
    PROVE  c \in Opened(chains) <=>
               \E s \in Stream : \E k \in 1..Len(chains[s]) : c = <<s, k>> /\ chains[s][k] # {}
  BY DEF Opened

\* Open chains stay open when each chain stays as it is or keeps a request.
LEMMA OpenedAgree ==
    ASSUME NEW f, NEW g, NEW S \in SUBSET Opened(g),
           \A s \in Stream : \A k \in 1..Len(f[s]) : f[s][k] # {} => k \in 1..Len(g[s]) /\ g[s][k] # {},
           \A s \in Stream : \A k \in 1..Len(g[s]) :
               g[s][k] # {} => <<s, k>> \in S \/ (k \in 1..Len(f[s]) /\ f[s][k] # {})
    PROVE  Opened(g) = Opened(f) \union S
<1>1. ASSUME NEW c \in Opened(f) PROVE c \in Opened(g)
  BY OpenedIs
<1>2. ASSUME NEW c \in Opened(g) PROVE c \in Opened(f) \union S
  <2>1. PICK s \in Stream : \E k \in 1..Len(g[s]) : c = <<s, k>> /\ g[s][k] # {}
    BY OpenedIs
  <2>2. PICK k \in 1..Len(g[s]) : c = <<s, k>> /\ g[s][k] # {}
    BY <2>1
  <2> QED BY <2>2, OpenedIs
<1> QED BY <1>1, <1>2

-----------------------------------------------------------------------------
(* The steps.                                                              *)

LEMMA InitEstablishes == Init => Inv
<1> SUFFICES ASSUME Init PROVE Inv
  OBVIOUS
<1>1. /\ device = {} /\ num_ios = 0 /\ reqs = <<>> /\ exited = FALSE
      /\ DOMAIN ios = Stream /\ \A s \in Stream : ios[s] = <<>>
      /\ DOMAIN last_addr = Stream /\ \A s \in Stream : last_addr[s] = <<>>
  BY DEF Init
<1>2. DOMAIN reqs = {} /\ \A s \in Stream : Len(ios[s]) = 0 /\ DOMAIN last_addr[s] = {} /\ ios[s] \in Seq(SUBSET Request)
  <2>1. DOMAIN <<>> = {} /\ Len(<<>>) = 0 /\ <<>> \in Seq(SUBSET Request)
    OBVIOUS
  <2> QED BY <1>1, <2>1
<1>3. ChainsOK /\ DeviceOK /\ ReqsOK /\ TailsOK
  BY <1>1, <1>2 DEF ChainsOK, DeviceOK, ReqsOK, TailsOK
<1>4. NoStrays
  BY <1>1, <1>2 DEF NoStrays
<1>5. Open = {}
  <2>1. \A s \in Stream : 1..Len(ios[s]) = {}
    BY <1>2
  <2> QED BY <2>1 DEF Open
<1> QED BY <1>1, <1>3, <1>4, <1>5, FS_EmptySet DEF Inv

\* What a line of event D does to the chains of its stream: the request joins one,
\* a new one or one that ends where it starts.
Joins(e, sub) ==
    LET s == e.stream
    IN  /\ DOMAIN ios' = Stream /\ \A z \in Stream \ {s} : ios'[z] = ios[z]
        /\ ios'[s] \in Seq(SUBSET Request)
        /\ sub \in 1..Len(ios'[s]) /\ \A k \in 1..Len(ios[s]) : k \in 1..Len(ios'[s]) /\ ios[s][k] \subseteq ios'[s][k]
        /\ \A k \in 1..Len(ios'[s]) \ {sub} : k \in 1..Len(ios[s]) /\ ios'[s][k] = ios[s][k]
        /\ e.request \in ios'[s][sub]
        /\ \A r \in ios'[s][sub] \ {e.request} : sub \in 1..Len(ios[s]) /\ r \in ios[s][sub]

\* Whether it starts a new one depends on the tails.
LEMMA IssueJoins ==
    ASSUME ChainsOK, TailsOK, NEW e \in Entry, Issue(e)
    PROVE  \E sub :
             /\ Joins(e, sub)
             /\ \/ /\ e.request[1] \notin DOMAIN last_addr[e.stream]
                   /\ sub = Len(ios[e.stream]) + 1 /\ Len(ios'[e.stream]) = sub
                   /\ num_ios' = num_ios + 1
                   /\ ~ exited'
                \/ /\ e.request[1] \in DOMAIN last_addr[e.stream]
                   /\ sub = last_addr[e.stream][e.request[1]] /\ Len(ios'[e.stream]) = Len(ios[e.stream])
                   /\ num_ios' = num_ios
                   /\ exited' <=> e.request \in ios[e.stream][sub]
             /\ last_addr' = [last_addr EXCEPT ![e.stream] = MoveTail(@, e.request[1], e.request[1] + e.request[2], sub)]
             /\ reqs' = With(reqs, e.request, <<e.stream, sub>>)
<1> DEFINE s == e.stream
           r == e.request
           start == e.request[1]
<1>1. s \in Stream /\ r \in Request
  BY DEF Entry
<1>2. ios[s] \in Seq(SUBSET Request) /\ DOMAIN ios = Stream /\ Len(ios[s]) \in Nat
  BY <1>1 DEF ChainsOK
<1>3. CASE start \notin DOMAIN last_addr[s]
  <2> DEFINE sub == Len(ios[s]) + 1
             chains == Append(ios[s], {})
  <2>1. /\ ios' = [ios EXCEPT ![s] = [chains EXCEPT ![sub] = @ \union {r}]]
        /\ num_ios' = num_ios + 1 /\ (exited' <=> r \in chains[sub])
        /\ last_addr' = [last_addr EXCEPT ![s] = MoveTail(@, start, start + r[2], sub)]
        /\ reqs' = With(reqs, r, <<s, sub>>)
    BY <1>3 DEF Issue
  <2>2. /\ chains \in Seq(SUBSET Request) /\ Len(chains) = sub /\ sub \in 1..Len(chains) /\ chains[sub] = {}
        /\ \A k \in 1..Len(ios[s]) : k \in 1..Len(chains) /\ k # sub /\ chains[k] = ios[s][k]
        /\ \A k \in 1..Len(chains) \ {sub} : k \in 1..Len(ios[s])
    BY <1>2
  <2> HIDE DEF s, r, start
  <2>3. ios'[s] = [chains EXCEPT ![sub] = {r}] /\ DOMAIN ios' = Stream /\ \A z \in Stream \ {s} : ios'[z] = ios[z]
    BY <1>1, <1>2, <2>1, <2>2
  <2> HIDE DEF sub, chains
  <2>4. /\ ios'[s] \in Seq(SUBSET Request) /\ Len(ios'[s]) = Len(chains) /\ ios'[s][sub] = {r}
        /\ \A k \in 1..Len(chains) \ {sub} : ios'[s][k] = chains[k]
    BY <1>1, <2>2, <2>3
  <2>5. /\ \A k \in 1..Len(ios[s]) : k \in 1..Len(ios'[s]) /\ ios'[s][k] = ios[s][k]
        /\ \A k \in 1..Len(ios'[s]) \ {sub} : k \in 1..Len(ios[s]) /\ ios'[s][k] = ios[s][k]
    BY <2>2, <2>4
  <2>6. Joins(e, sub)
    BY <2>2, <2>3, <2>4, <2>5 DEF Joins, s, r
  <2>7. ~ exited'
    <3>1. ~ (r \in chains[sub])
      BY <2>2
    <3> QED BY <2>1, <3>1
  <2> QED BY <1>3, <2>1, <2>2, <2>4, <2>6, <2>7 DEF s, r, start, sub
<1>4. CASE start \in DOMAIN last_addr[s]
  <2> DEFINE sub == last_addr[s][start]
  <2>1. /\ ios' = [ios EXCEPT ![s] = [ios[s] EXCEPT ![sub] = @ \union {r}]]
        /\ num_ios' = num_ios /\ (exited' <=> r \in ios[s][sub])
        /\ last_addr' = [last_addr EXCEPT ![s] = MoveTail(@, start, start + r[2], sub)]
        /\ reqs' = With(reqs, r, <<s, sub>>)
    BY <1>4 DEF Issue
  <2>2. sub \in 1..Len(ios[s])
    BY <1>1, <1>4 DEF TailsOK
  <2> HIDE DEF s, r, start, sub
  <2>3. ios'[s] = [ios[s] EXCEPT ![sub] = @ \union {r}] /\ DOMAIN ios' = Stream /\ \A z \in Stream \ {s} : ios'[z] = ios[z]
    BY <1>1, <1>2, <2>1
  <2>4. /\ ios'[s] \in Seq(SUBSET Request) /\ Len(ios'[s]) = Len(ios[s]) /\ ios'[s][sub] = ios[s][sub] \union {r}
        /\ \A k \in 1..Len(ios[s]) \ {sub} : ios'[s][k] = ios[s][k]
    BY <1>1, <1>2, <2>2, <2>3
  <2>5. Joins(e, sub)
    BY <2>2, <2>3, <2>4 DEF Joins, s, r
  <2> QED BY <1>4, <2>1, <2>2, <2>4, <2>5 DEF s, r, start, sub
<1> QED BY <1>3, <1>4

\* A line of event D keeps the invariant.
LEMMA IssueKeepsInv ==
    ASSUME ~ Shared, Inv, NEW e \in Entry, Issue(e)
    PROVE  Inv'
<1> DEFINE s == e.stream
           r == e.request
           start == e.request[1]
           end == e.request[1] + e.request[2]
<1>1. s \in Stream /\ r \in Request
  BY DEF Entry
<1>2. PICK sub :
          /\ Joins(e, sub)
          /\ \/ /\ start \notin DOMAIN last_addr[s]
                /\ sub = Len(ios[s]) + 1 /\ Len(ios'[s]) = sub
                /\ num_ios' = num_ios + 1
                /\ ~ exited'
             \/ /\ start \in DOMAIN last_addr[s]
                /\ sub = last_addr[s][start] /\ Len(ios'[s]) = Len(ios[s])
                /\ num_ios' = num_ios
                /\ exited' <=> r \in ios[s][sub]
          /\ last_addr' = [last_addr EXCEPT ![s] = MoveTail(@, start, end, sub)]
          /\ reqs' = With(reqs, r, <<s, sub>>)
  BY IssueJoins DEF Inv
<1>3. /\ DOMAIN ios' = Stream /\ \A z \in Stream \ {s} : ios'[z] = ios[z]
      /\ ios'[s] \in Seq(SUBSET Request)
      /\ sub \in 1..Len(ios'[s]) /\ \A k \in 1..Len(ios[s]) : k \in 1..Len(ios'[s]) /\ ios[s][k] \subseteq ios'[s][k]
      /\ \A k \in 1..Len(ios'[s]) \ {sub} : k \in 1..Len(ios[s]) /\ ios'[s][k] = ios[s][k]
      /\ r \in ios'[s][sub]
      /\ \A x \in ios'[s][sub] \ {r} : sub \in 1..Len(ios[s]) /\ x \in ios[s][sub]
  BY <1>2 DEF Joins
<1>4. device' = device \union {e} /\ \A d \in device : d.request # r
  BY DEF Issue, MayIssue
<1> HIDE DEF s, r, start, end
<1>5. ios[s] \in Seq(SUBSET Request) /\ Len(ios[s]) \in Nat
  BY <1>1 DEF Inv, ChainsOK
<1>6. ChainsOK'
  BY <1>1, <1>3 DEF Inv, ChainsOK, Stream
<1>7. DeviceOK'
  BY <1>4 DEF Inv, DeviceOK, r, Entry, Stream, Request
<1>8. r \notin DOMAIN reqs
  BY <1>4 DEF Inv, ReqsOK
<1>9. /\ DOMAIN reqs' = DOMAIN reqs \union {r} /\ reqs'[r] = <<s, sub>>
      /\ \A x \in DOMAIN reqs : reqs'[x] = reqs[x]
  BY <1>2, <1>8 DEF With
<1>10. ReqsOK'
  <2>1. DOMAIN reqs' = {d.request : d \in device'}
    BY <1>4, <1>9 DEF Inv, ReqsOK, r
  <2>2. ASSUME NEW d \in device
        PROVE  \E k \in 1..Len(ios'[d.stream]) :
                   reqs'[d.request] = <<d.stream, k>> /\ d.request \in ios'[d.stream][k]
    <3>1. PICK k \in 1..Len(ios[d.stream]) : reqs[d.request] = <<d.stream, k>> /\ d.request \in ios[d.stream][k]
      BY DEF Inv, ReqsOK
    <3>2. d.request \in DOMAIN reqs /\ d.stream \in Stream
      BY DEF Inv, ReqsOK, DeviceOK, Entry
    <3>3. k \in 1..Len(ios'[d.stream]) /\ d.request \in ios'[d.stream][k]
      BY <1>3, <3>1, <3>2
    <3> QED BY <1>9, <3>1, <3>2, <3>3
  <2>3. \E k \in 1..Len(ios'[e.stream]) : reqs'[e.request] = <<e.stream, k>> /\ e.request \in ios'[e.stream][k]
    BY <1>3, <1>9 DEF s, r
  <2> QED BY <1>4, <2>1, <2>2, <2>3 DEF ReqsOK
<1>11. NoStrays'
  <2> SUFFICES ASSUME NEW z \in Stream, NEW k \in 1..Len(ios'[z]), NEW x \in ios'[z][k]
               PROVE  x \in DOMAIN reqs' /\ reqs'[x] = <<z, k>>
    BY DEF NoStrays, Stream
  <2>1. (z = s /\ k = sub /\ x = r) \/ (k \in 1..Len(ios[z]) /\ x \in ios[z][k])
    BY <1>3
  <2>2. ASSUME k \in 1..Len(ios[z]), x \in ios[z][k] PROVE x \in DOMAIN reqs /\ reqs[x] = <<z, k>>
    BY <2>2 DEF Inv, NoStrays
  <2> QED BY <1>9, <2>1, <2>2
<1>12. ~ exited'
  <2>1. ASSUME start \in DOMAIN last_addr[s] PROVE r \notin ios[s][last_addr[s][start]]
    <3>1. last_addr[s][start] \in 1..Len(ios[s])
      BY <1>1, <2>1 DEF Inv, TailsOK
    <3> QED BY <1>1, <1>8, <3>1 DEF Inv, NoStrays
  <2> QED BY <1>2, <2>1
<1> DEFINE tails == last_addr[s]
<1>13. /\ DOMAIN last_addr' = Stream /\ \A z \in Stream \ {s} : last_addr'[z] = last_addr[z]
       /\ last_addr'[s] = With(Without(tails, start), end, sub)
  BY <1>1, <1>2 DEF Inv, TailsOK, MoveTail
<1>14. /\ end \in DOMAIN last_addr'[s] /\ last_addr'[s][end] = sub
       /\ \A a \in DOMAIN last_addr'[s] \ {end} : a \in DOMAIN tails /\ a # start /\ last_addr'[s][a] = tails[a]
  <2>1. DOMAIN Without(tails, start) = DOMAIN tails \ {start} /\ \A a \in DOMAIN tails \ {start} : Without(tails, start)[a] = tails[a]
    BY WithoutIs
  <2> DEFINE rest == Without(tails, start)
  <2> HIDE DEF rest, tails
  <2>2. /\ DOMAIN last_addr'[s] = DOMAIN rest \union {end} /\ last_addr'[s][end] = sub
        /\ \A a \in DOMAIN rest \ {end} : last_addr'[s][a] = rest[a]
    BY <1>13 DEF rest, With
  <2> QED BY <2>1, <2>2 DEF rest
<1>15. /\ \A a \in DOMAIN tails : tails[a] \in 1..Len(ios[s]) /\ ios[s][tails[a]] # {}
       /\ \A a, b \in DOMAIN tails : tails[a] = tails[b] => a = b
  BY <1>1 DEF Inv, TailsOK
<1> HIDE DEF tails
<1>16. \A a \in DOMAIN last_addr'[s] \ {end} : last_addr'[s][a] # sub
  <2>1. ASSUME NEW a \in DOMAIN tails, a # start PROVE tails[a] # sub
    <3>1. CASE sub = Len(ios[s]) + 1
      BY <1>5, <1>15, <3>1
    <3>2. CASE start \in DOMAIN tails /\ sub = tails[start]
      BY <1>15, <2>1, <3>2
    <3> QED BY <1>2, <3>1, <3>2 DEF tails
  <2> QED BY <1>14, <2>1
<1>17. TailsOK'
  <2>1. ASSUME NEW a \in DOMAIN last_addr'[s]
        PROVE  last_addr'[s][a] \in 1..Len(ios'[s]) /\ ios'[s][last_addr'[s][a]] # {}
    <3>1. CASE a = end
      BY <1>3, <1>14, <3>1
    <3>2. CASE a # end
      <4>1. tails[a] \in 1..Len(ios[s]) /\ ios[s][tails[a]] # {} /\ last_addr'[s][a] = tails[a]
        BY <1>14, <1>15, <3>2
      <4> QED BY <1>3, <4>1
    <3> QED BY <3>1, <3>2
  <2>2. ASSUME NEW a \in DOMAIN last_addr'[s], NEW b \in DOMAIN last_addr'[s], last_addr'[s][a] = last_addr'[s][b]
        PROVE  a = b
    BY <1>14, <1>15, <1>16, <2>2
  <2>3. ASSUME NEW z \in Stream \ {s}
        PROVE  /\ \A a \in DOMAIN last_addr'[z] : last_addr'[z][a] \in 1..Len(ios'[z]) /\ ios'[z][last_addr'[z][a]] # {}
               /\ \A a, b \in DOMAIN last_addr'[z] : last_addr'[z][a] = last_addr'[z][b] => a = b
    BY <1>3, <1>13 DEF Inv, TailsOK
  <2> QED BY <1>13, <2>1, <2>2, <2>3 DEF TailsOK, Stream
<1>18. \A z \in Stream : \A k \in 1..Len(ios[z]) : ios[z][k] # {} => k \in 1..Len(ios'[z]) /\ ios'[z][k] # {}
  BY <1>3
<1>19. \A z \in Stream : \A k \in 1..Len(ios'[z]) :
           ios'[z][k] # {} => (z = s /\ k = sub) \/ (k \in 1..Len(ios[z]) /\ ios[z][k] # {})
  BY <1>3
<1>20. <<s, sub>> \in Opened(ios')
  BY <1>1, <1>3, OpenedIs
<1>21. Open = Opened(ios) /\ Open' = Opened(ios')
  BY DEF Open, Opened, Stream
<1>22. IsFiniteSet(Open)' /\ num_ios' = Cardinality(Open')
  <2>1. CASE sub = Len(ios[s]) + 1 /\ num_ios' = num_ios + 1
    <3>1. Opened(ios') = Opened(ios) \union {<<s, sub>>}
      <4> DEFINE S == {<<s, sub>>}
      <4>1. S \in SUBSET Opened(ios')
        BY <1>20
      <4>2. \A z \in Stream : \A k \in 1..Len(ios'[z]) :
                ios'[z][k] # {} => <<z, k>> \in S \/ (k \in 1..Len(ios[z]) /\ ios[z][k] # {})
        BY <1>19
      <4> HIDE DEF S
      <4>3. Opened(ios') = Opened(ios) \union S
        BY <1>18, <4>1, <4>2, OpenedAgree
      <4> QED BY <4>3 DEF S
    <3>2. <<s, sub>> \notin Opened(ios)
      BY <1>5, <2>1, OpenedIs
    <3> QED BY <1>21, <2>1, <3>1, <3>2, FS_AddElement DEF Inv
  <2>2. CASE start \in DOMAIN last_addr[s] /\ sub = last_addr[s][start] /\ num_ios' = num_ios
    <3>1. sub \in 1..Len(ios[s]) /\ ios[s][sub] # {}
      BY <1>1, <2>2 DEF Inv, TailsOK
    <3> DEFINE S == {}
    <3>2. S \in SUBSET Opened(ios')
      OBVIOUS
    <3>3. \A z \in Stream : \A k \in 1..Len(ios'[z]) :
              ios'[z][k] # {} => <<z, k>> \in S \/ (k \in 1..Len(ios[z]) /\ ios[z][k] # {})
      BY <1>19, <3>1
    <3> HIDE DEF S
    <3>4. Opened(ios') = Opened(ios) \union S
      BY <1>18, <3>2, <3>3, OpenedAgree
    <3>5. Opened(ios') = Opened(ios)
      BY <3>4 DEF S
    <3> QED BY <1>21, <2>2, <3>5 DEF Inv
  <2> QED BY <1>2, <2>1, <2>2
<1> QED BY <1>6, <1>7, <1>10, <1>11, <1>12, <1>17, <1>22 DEF Inv

\* A line of event C keeps the invariant: the request leaves its chain, and the tail
\* of a chain that has ended goes too.
LEMMA CompleteKeepsInv ==
    ASSUME Inv, NEW e \in device, Complete(e)
    PROVE  Inv'
<1> DEFINE s == e.stream
           r == e.request
<1>1. e \in Entry /\ s \in Stream /\ r \in Request
  BY DEF Inv, DeviceOK, Entry
<1>2. r \in DOMAIN reqs
  BY DEF Inv, ReqsOK
<1>3. PICK sub \in 1..Len(ios[s]) : reqs[r] = <<s, sub>> /\ r \in ios[s][sub]
  BY DEF Inv, ReqsOK
<1> DEFINE rest == ios[s][sub] \ {r}
<1>4. /\ device' = device \ {e}
      /\ ios' = [ios EXCEPT ![s][sub] = rest]
      /\ reqs' = Without(reqs, r)
      /\ num_ios' = IF rest = {} THEN num_ios - 1 ELSE num_ios
      /\ last_addr' = IF rest = {} THEN [last_addr EXCEPT ![s] = DropTail(@, sub)] ELSE last_addr
      /\ exited' = exited
  BY <1>2, <1>3 DEF Complete, Remaining
<1>5. ios[s] \in Seq(SUBSET Request) /\ DOMAIN ios = Stream
  BY <1>1 DEF Inv, ChainsOK
<1> HIDE DEF s, r, rest
<1>6. DOMAIN ios' = Stream /\ ios'[s] = [ios[s] EXCEPT ![sub] = rest] /\ \A z \in Stream \ {s} : ios'[z] = ios[z]
  BY <1>1, <1>4, <1>5
<1>7. rest \in SUBSET Request
  BY <1>3, <1>5 DEF rest
<1>8. /\ ios'[s] \in Seq(SUBSET Request) /\ Len(ios'[s]) = Len(ios[s]) /\ ios'[s][sub] = rest
      /\ \A k \in 1..Len(ios[s]) \ {sub} : ios'[s][k] = ios[s][k]
  BY <1>3, <1>5, <1>6, <1>7
<1>9. ChainsOK'
  BY <1>1, <1>6, <1>8 DEF Inv, ChainsOK, Stream, Request
<1>10. DeviceOK'
  BY <1>4 DEF Inv, DeviceOK, Entry, Stream, Request
<1>11. DOMAIN reqs' = DOMAIN reqs \ {r} /\ \A x \in DOMAIN reqs \ {r} : reqs'[x] = reqs[x]
  BY <1>4 DEF Without, Restrict
<1>12. ReqsOK'
  <2>1. \A d \in device' : d \in device /\ d.request # r
    BY <1>4 DEF Inv, DeviceOK, r
  <2>2. DOMAIN reqs' = {d.request : d \in device'}
    BY <1>4, <1>11, <2>1 DEF Inv, ReqsOK, r
  <2>3. ASSUME NEW d \in device'
        PROVE  \E k \in 1..Len(ios'[d.stream]) :
                   reqs'[d.request] = <<d.stream, k>> /\ d.request \in ios'[d.stream][k]
    <3>1. PICK k \in 1..Len(ios[d.stream]) : reqs[d.request] = <<d.stream, k>> /\ d.request \in ios[d.stream][k]
      BY <2>1 DEF Inv, ReqsOK
    <3>2. d.request \in DOMAIN reqs /\ d.stream \in Stream /\ d.request # r
      BY <2>1 DEF Inv, ReqsOK, DeviceOK, Entry
    <3>3. k \in 1..Len(ios'[d.stream]) /\ d.request \in ios'[d.stream][k]
      BY <1>6, <1>8, <3>1, <3>2 DEF rest
    <3> QED BY <1>11, <3>1, <3>2, <3>3
  <2> QED BY <2>2, <2>3 DEF ReqsOK
<1>13. NoStrays'
  <2> SUFFICES ASSUME NEW z \in Stream, NEW k \in 1..Len(ios'[z]), NEW x \in ios'[z][k]
               PROVE  x \in DOMAIN reqs' /\ reqs'[x] = <<z, k>>
    BY DEF NoStrays, Stream
  <2>1. k \in 1..Len(ios[z]) /\ x \in ios[z][k] /\ ~ (z = s /\ k = sub /\ x = r)
    BY <1>6, <1>8 DEF rest
  <2>2. x \in DOMAIN reqs /\ reqs[x] = <<z, k>>
    BY <2>1 DEF Inv, NoStrays
  <2>3. x # r
    BY <1>3, <2>1, <2>2
  <2> QED BY <1>11, <2>2, <2>3
<1>14. ~ exited'
  BY <1>4 DEF Inv
<1> DEFINE tails == last_addr[s]
<1>15. /\ \A a \in DOMAIN tails : tails[a] \in 1..Len(ios[s]) /\ ios[s][tails[a]] # {}
       /\ \A a, b \in DOMAIN tails : tails[a] = tails[b] => a = b
  BY <1>1 DEF Inv, TailsOK
<1>16. /\ DOMAIN last_addr' = Stream /\ \A z \in Stream \ {s} : last_addr'[z] = last_addr[z]
       /\ \A a \in DOMAIN last_addr'[s] : a \in DOMAIN tails /\ last_addr'[s][a] = tails[a]
       /\ rest = {} => \A a \in DOMAIN last_addr'[s] : tails[a] # sub
  <2>1. CASE rest # {}
    BY <1>4, <2>1 DEF Inv, TailsOK
  <2>2. CASE rest = {}
    <3> DEFINE ends == {a \in DOMAIN tails : tails[a] = sub}
    <3>1. last_addr' = [last_addr EXCEPT ![s] = DropTail(@, sub)]
      BY <1>4, <2>2
    <3>2. DOMAIN last_addr' = Stream /\ last_addr'[s] = DropTail(tails, sub) /\ \A z \in Stream \ {s} : last_addr'[z] = last_addr[z]
      BY <1>1, <3>1 DEF Inv, TailsOK
    <3> HIDE DEF tails
    <3>3. CASE ends = {}
      <4>1. last_addr'[s] = tails
        BY <3>2, <3>3 DEF DropTail
      <4> QED BY <3>2, <3>3, <4>1
    <3>4. CASE ends # {}
      <4> DEFINE a0 == CHOOSE a \in ends : TRUE
      <4>1. a0 \in ends
        BY <3>4
      <4>2. last_addr'[s] = Without(tails, a0)
        BY <3>2, <3>4 DEF DropTail
      <4> HIDE DEF a0
      <4>3. DOMAIN last_addr'[s] = DOMAIN tails \ {a0} /\ \A a \in DOMAIN tails \ {a0} : last_addr'[s][a] = tails[a]
        BY <4>2 DEF Without, Restrict
      <4>4. \A a \in DOMAIN tails \ {a0} : tails[a] # sub
        BY <1>15, <4>1
      <4> QED BY <3>2, <4>3, <4>4
    <3> QED BY <3>3, <3>4
  <2> QED BY <2>1, <2>2
<1> HIDE DEF tails
<1>17. TailsOK'
  <2>1. ASSUME NEW a \in DOMAIN last_addr'[s]
        PROVE  last_addr'[s][a] \in 1..Len(ios'[s]) /\ ios'[s][last_addr'[s][a]] # {}
    <3>1. last_addr'[s][a] = tails[a] /\ tails[a] \in 1..Len(ios[s]) /\ ios[s][tails[a]] # {}
      BY <1>15, <1>16
    <3>2. tails[a] = sub => rest # {}
      BY <1>16
    <3> QED BY <1>8, <3>1, <3>2
  <2>2. \A a, b \in DOMAIN last_addr'[s] : last_addr'[s][a] = last_addr'[s][b] => a = b
    BY <1>15, <1>16
  <2>3. ASSUME NEW z \in Stream \ {s}
        PROVE  /\ \A a \in DOMAIN last_addr'[z] : last_addr'[z][a] \in 1..Len(ios'[z]) /\ ios'[z][last_addr'[z][a]] # {}
               /\ \A a, b \in DOMAIN last_addr'[z] : last_addr'[z][a] = last_addr'[z][b] => a = b
    BY <1>6, <1>16 DEF Inv, TailsOK
  <2> QED BY <1>16, <2>1, <2>2, <2>3 DEF TailsOK, Stream
<1>18. Open = Opened(ios) /\ Open' = Opened(ios')
  BY DEF Open, Opened, Stream
<1>19. <<s, sub>> \in Opened(ios)
  BY <1>1, <1>3, OpenedIs
<1>20. \A z \in Stream : \A k \in 1..Len(ios'[z]) : ios'[z][k] # {} => k \in 1..Len(ios[z]) /\ ios[z][k] # {}
  BY <1>3, <1>6, <1>8
<1>21. \A z \in Stream : \A k \in 1..Len(ios[z]) :
           ios[z][k] # {} => (z = s /\ k = sub) \/ (k \in 1..Len(ios'[z]) /\ ios'[z][k] # {})
  BY <1>6, <1>8
<1>22. IsFiniteSet(Open)' /\ num_ios' = Cardinality(Open')
  <2>1. CASE rest = {}
    <3> DEFINE S == {<<s, sub>>}
    <3>1. S \in SUBSET Opened(ios)
      BY <1>19
    <3>2. \A z \in Stream : \A k \in 1..Len(ios[z]) :
              ios[z][k] # {} => <<z, k>> \in S \/ (k \in 1..Len(ios'[z]) /\ ios'[z][k] # {})
      BY <1>21
    <3> HIDE DEF S
    <3>3. Opened(ios) = Opened(ios') \union S
      BY <1>20, <3>1, <3>2, OpenedAgree
    <3>4. <<s, sub>> \notin Opened(ios')
      BY <1>8, <2>1, OpenedIs
    <3>5. Opened(ios') = Opened(ios) \ {<<s, sub>>}
      BY <3>3, <3>4 DEF S
    <3>6. num_ios' = num_ios - 1
      BY <1>4, <2>1
    <3> QED BY <1>18, <1>19, <3>5, <3>6, FS_RemoveElement DEF Inv
  <2>2. CASE rest # {}
    <3> DEFINE S == {}
    <3>1. S \in SUBSET Opened(ios)
      OBVIOUS
    <3>2. \A z \in Stream : \A k \in 1..Len(ios[z]) :
              ios[z][k] # {} => <<z, k>> \in S \/ (k \in 1..Len(ios'[z]) /\ ios'[z][k] # {})
      BY <1>3, <1>8, <1>21, <2>2
    <3> HIDE DEF S
    <3>3. Opened(ios) = Opened(ios') \union S
      BY <1>20, <3>1, <3>2, OpenedAgree
    <3>4. Opened(ios') = Opened(ios)
      BY <3>3 DEF S
    <3>5. num_ios' = num_ios
      BY <1>4, <2>2
    <3> QED BY <1>18, <3>4, <3>5 DEF Inv
  <2> QED BY <2>1, <2>2
<1> QED BY <1>9, <1>10, <1>12, <1>13, <1>14, <1>17, <1>22 DEF Inv

-----------------------------------------------------------------------------
(* Theorems.                                                               *)

\* The script's variables describe the chains of requests under way, if no request
\* is issued again while it is.
THEOREM ParserInvariant == ~ Shared => (Spec => []Inv)
<1> SUFFICES ASSUME ~ Shared PROVE Spec => []Inv
  OBVIOUS
<1>1. Init => Inv
  BY InitEstablishes
<1>2. Inv /\ [Next]_vars => Inv'
  <2> SUFFICES ASSUME Inv, [Next]_vars PROVE Inv'
    OBVIOUS
  <2>1. CASE UNCHANGED vars
    <3>1. UNCHANGED <<device, num_ios, ios, last_addr, reqs, exited>>
      BY <2>1 DEF vars
    <3>2. ChainsOK' /\ DeviceOK' /\ ReqsOK'
      BY <3>1 DEF Inv, ChainsOK, DeviceOK, ReqsOK, Stream, Entry, Request
    <3>3. NoStrays' /\ TailsOK'
      BY <3>1 DEF Inv, NoStrays, TailsOK, Stream
    <3>4. Open' = Open
      BY <3>1 DEF Open, Stream
    <3> QED BY <3>1, <3>2, <3>3, <3>4 DEF Inv
  <2>2. ASSUME NEW e \in Entry, Issue(e) PROVE Inv'
    BY <2>2, IssueKeepsInv
  <2>3. ASSUME NEW e \in device, Complete(e) PROVE Inv'
    BY <2>3, CompleteKeepsInv
  <2>4. CASE Done
    BY <2>1, <2>4 DEF Done
  <2> QED BY <2>1, <2>2, <2>3, <2>4 DEF Next
<1> QED BY <1>1, <1>2, PTL DEF Spec

\* The number that parse_trace.py and parse_log.py plot is that of the chains with a
\* request under way, and neither the assertion nor the check of directions stops
\* them, for every trace in which no request is issued again while it is under way.
THEOREM TraceCountIsOutstanding == ~ Shared => (Spec => []CountIsOutstanding)
<1> SUFFICES ASSUME ~ Shared PROVE Spec => []CountIsOutstanding
  OBVIOUS
<1>1. Inv => CountIsOutstanding
  <2> SUFFICES ASSUME Inv, NEW s \in Stream
               PROVE  UNION {ios[s][k] : k \in 1..Len(ios[s])} = {d.request : d \in {e \in device : e.stream = s}}
    BY DEF CountIsOutstanding, Inv
  <2>1. ASSUME NEW k \in 1..Len(ios[s]), NEW r \in ios[s][k]
        PROVE  \E d \in device : d.stream = s /\ d.request = r
    <3>1. r \in DOMAIN reqs /\ reqs[r] = <<s, k>>
      BY DEF Inv, NoStrays
    <3>2. PICK d \in device : d.request = r
      BY <3>1 DEF Inv, ReqsOK
    <3>3. PICK n \in 1..Len(ios[d.stream]) : reqs[d.request] = <<d.stream, n>>
      BY DEF Inv, ReqsOK
    <3> QED BY <3>1, <3>2, <3>3
  <2>2. ASSUME NEW d \in device, d.stream = s PROVE \E k \in 1..Len(ios[s]) : d.request \in ios[s][k]
    BY <2>2 DEF Inv, ReqsOK
  <2> QED BY <2>1, <2>2
<1>2. Spec => []Inv
  BY ParserInvariant
<1> QED BY <1>1, <1>2, PTL

=============================================================================
