-------------------------- MODULE BloomFilterProofs --------------------------
(***************************************************************************)
(* The Bloom filter has no false negatives, every positive is explained by *)
(* the keys inserted and, unless its size saturates, it stays inside its   *)
(* file: for every set of keys, every hash function and every size.        *)
(***************************************************************************)
EXTENDS BloomFilter, TLAPS

\* What the variables are.
TypeOK ==
    /\ nmod_ \in Nat \ {0}
    /\ nhf \in Nat \ {0}
    /\ murmur \in [Key -> [0..(nhf - 1) -> HashValue]]
    /\ inserted \subseteq Key
    /\ pc \in {"idle", "insert", "query", "answered"}
    /\ key \in Key
    /\ i \in 0..nhf
    /\ out \in BOOLEAN

\* The bits that the calls so far have set: all those of the keys inserted, and
\* those of the key under way up to i.
BitsSet ==
    /\ \A k \in inserted : \A n \in 0..(nhf - 1) : get(hash(k, n))
    /\ pc = "insert" => \A n \in 0..(i - 1) : get(hash(key, n))
    /\ pc \in {"query", "answered"} /\ key \in inserted => out

Inv == TypeOK /\ BitsSet

\* The smaller of two numbers.
LEMMA MinOfTwo ==
    ASSUME NEW a \in Int, NEW b \in Int
    PROVE  Min({a, b}) = IF a <= b THEN a ELSE b
  BY DEF Min

\* Rounding up to whole bytes: positive, and a multiple of eight unless it
\* saturates.
LEMMA FilterBitsOK ==
    ASSUME NEW nbits \in NBits
    PROVE  /\ FilterBits(nbits) \in Nat \ {0}
           /\ nbits + 7 < W32 => FilterBits(nbits) % 8 = 0
  <1> DEFINE r == ((nbits + 7) \div 8) * 8
  <1>1. nbits \in Nat /\ nbits > 0 /\ (nbits + 7) % W64 = nbits + 7
    BY BloomAssumption
  <1>2. r \in Nat /\ r >= 8 /\ r % 8 = 0 /\ r <= nbits + 7
    BY <1>1
  <1>3. FilterBits(nbits) = IF W32 - 1 <= r THEN W32 - 1 ELSE r
    BY <1>1, <1>2, MinOfTwo, BloomAssumption DEF FilterBits
  <1>4. nbits + 7 < W32 => FilterBits(nbits) = r
    BY <1>1, <1>2, <1>3, BloomAssumption
  <1> QED
    BY <1>2, <1>3, <1>4, BloomAssumption

\* There is at least one hash function.
LEMMA HashFunctionsOK ==
    ASSUME NEW nmod \in Nat, NEW nkeys \in Nat \ {0}
    PROVE  HashFunctions(nmod, nkeys) \in Nat \ {0}
  <1>1. ASSUME NEW a \in Nat, NEW b \in Nat \ {0} PROVE a \div b \in Nat
    BY <1>1
  <1>2. 2 * 693 * nmod + 1000 * nkeys \in Nat /\ 2 * 1000 * nkeys \in Nat \ {0}
    OBVIOUS
  <1> QED
    BY <1>1, <1>2 DEF HashFunctions

\* The invariant holds once the constructor has run.
LEMMA InitInv == Init => Inv
  <1> SUFFICES ASSUME Init PROVE Inv
    OBVIOUS
  <1>1. PICK nbits \in NBits, nkeys \in NKeys :
           /\ nmod_ = FilterBits(nbits)
           /\ nhf = HashFunctions(nmod_, nkeys)
           /\ murmur \in [Key -> [0..(nhf - 1) -> HashValue]]
    BY DEF Init
  <1>2. nmod_ \in Nat \ {0} /\ nkeys \in Nat \ {0}
    BY <1>1, FilterBitsOK, BloomAssumption
  <1>3. nhf \in Nat \ {0}
    BY <1>1, <1>2, HashFunctionsOK
  <1> QED
    BY <1>1, <1>2, <1>3 DEF Init, Inv, TypeOK, BitsSet

\* Every pass of insert and query keeps the invariant.
LEMMA StepInv == Inv /\ [Next]_vars => Inv'
  <1> SUFFICES ASSUME Inv, [Next]_vars PROVE Inv'
    OBVIOUS
  <1> USE DEF Inv
  <1>1. ASSUME NEW op \in {"insert", "query"}, Call(op) PROVE Inv'
    BY <1>1 DEF Call, TypeOK, BitsSet, sizes, get, hash
  <1>2. CASE insert
    <2>1. CASE i < nhf
      <3>1. TypeOK'
        BY <1>2, <2>1 DEF insert, TypeOK, sizes
      <3>2. \A k, n : hash(k, n)' = hash(k, n)
        BY <1>2 DEF insert, sizes, hash
      <3>3. data' = set(hash(key, i)) /\ i' = i + 1 /\ UNCHANGED <<inserted, pc, key, nhf>>
        BY <1>2, <2>1 DEF insert, sizes
      <3>4. \A b : b \in data => b \in data'
        BY <3>3 DEF set
      <3>5. Bit(hash(key, i)) \in data'
        BY <3>3 DEF set, get
      <3>6. pc = "insert"
        BY <1>2 DEF insert
      <3>7. ASSUME NEW n \in 0..(i' - 1) PROVE Bit(hash(key, n)) \in data'
        <4>1. n \in 0..(i - 1) \/ n = i
          BY <3>3, <3>7 DEF TypeOK
        <4> QED
          BY <4>1, <3>4, <3>5, <3>6 DEF BitsSet, get
      <3>8. BitsSet'
        <4>1. \A k \in inserted' : \A n \in 0..(nhf' - 1) : Bit(hash(k, n)) \in data'
          BY <3>3, <3>4 DEF BitsSet, get
        <4> QED
          BY <4>1, <3>2, <3>3, <3>6, <3>7 DEF BitsSet, get, Bit
      <3> QED
        BY <3>1, <3>8
    <2>2. CASE ~(i < nhf)
      <3>1. TypeOK'
        BY <1>2, <2>2 DEF insert, TypeOK, sizes
      <3>2. i = nhf /\ inserted' = inserted \union {key} /\ pc' = "idle" /\ pc = "insert"
            /\ UNCHANGED <<data, nhf, nmod_, murmur>>
        BY <1>2, <2>2 DEF insert, TypeOK, sizes
      <3> QED
        BY <3>1, <3>2 DEF BitsSet, get, hash
    <2> QED
      BY <2>1, <2>2
  <1>3. CASE query
    <2>1. i < nhf /\ out => i \in 0..(nhf - 1)
      BY DEF TypeOK
    <2>2. TypeOK'
      <3>1. out' \in BOOLEAN
        <4>1. out \in BOOLEAN /\ get(hash(key, i)) \in BOOLEAN
          BY DEF TypeOK, get
        <4>2. out' = get(hash(key, i)) \/ out' = out
          BY <1>3 DEF query
        <4> QED
          BY <4>1, <4>2, Zenon
      <3>2. i' \in 0..nhf /\ pc' \in {"idle", "insert", "query", "answered"}
        BY <1>3, <2>1 DEF query, TypeOK
      <3> QED
        BY <1>3, <3>1, <3>2 DEF query, TypeOK, sizes
    <2>3. BitsSet'
      BY <1>3, <2>1 DEF query, BitsSet, sizes, get, hash
    <2> QED
      BY <2>2, <2>3
  <1>4. CASE Return
    BY <1>4 DEF Return, TypeOK, BitsSet, sizes, get, hash
  <1>5. CASE UNCHANGED vars
    BY <1>5 DEF vars, TypeOK, BitsSet, get, hash
  <1> QED
    BY <1>1, <1>2, <1>3, <1>4, <1>5 DEF Next

\* For every choice of sizes, seeds and keys, query answers true for each key
\* that insert has added.
THEOREM BloomNoFalseNegatives == Spec => []NoFalseNegatives
  <1>1. Inv => NoFalseNegatives
    BY DEF Inv, BitsSet, NoFalseNegatives
  <1> QED
    BY <1>1, InitInv, StepInv, PTL DEF Spec

\* The bits of the file come from keys: those inserted and the one under way;
\* a query that still answers true has found the bits it looked at.
Added(k) == k \in inserted \/ (pc = "insert" /\ k = key)

BitsExplained ==
    /\ \A b \in data : \E k \in Key, j \in 0..(nhf - 1) : Added(k) /\ b = Bit(hash(k, j))
    /\ pc \in {"query", "answered"} /\ out => \A n \in 0..(i - 1) : get(hash(key, n))
    /\ pc = "answered" /\ out => i = nhf

\* A bit of the file is one bit of the filter: div8 and mod8 lose nothing.
LEMMA BitInjective ==
    ASSUME NEW a \in Nat, NEW b \in Nat, Bit(a) = Bit(b)
    PROVE  a = b
  <1>1. a \div 8 = b \div 8 /\ a % 8 = b % 8
    BY DEF Bit, div8, mod8
  <1>2. a = 8 * (a \div 8) + (a % 8) /\ b = 8 * (b \div 8) + (b % 8)
    OBVIOUS
  <1> QED
    BY <1>1, <1>2

\* Hashes are bits of the filter.
LEMMA HashIsNat ==
    ASSUME TypeOK, NEW k \in Key, NEW j \in 0..(nhf - 1)
    PROVE  hash(k, j) \in Nat
  <1>1. murmur[k][j] \in HashValue
    BY DEF TypeOK
  <1>2. murmur[k][j] \in Nat /\ nmod_ \in Nat \ {0}
    <2>1. HashValue \subseteq Nat
      BY BloomAssumption
    <2> QED
      BY <1>1, <2>1 DEF TypeOK
  <1>3. ASSUME NEW x \in Nat, NEW y \in Nat \ {0} PROVE x % y \in Nat
    BY <1>3
  <1> QED
    BY <1>2, <1>3 DEF hash

\* insert sets no bit but those of its key, and query looks before it believes.
LEMMA ExplainedStep == Inv /\ BitsExplained /\ [Next]_vars => BitsExplained'
  <1> SUFFICES ASSUME Inv, BitsExplained, [Next]_vars PROVE BitsExplained'
    OBVIOUS
  <1>0. \A k, n : hash(k, n)' = hash(k, n) /\ nhf' = nhf
    BY DEF Next, vars, Call, insert, query, Return, sizes, hash
  <1>1. ASSUME NEW op \in {"insert", "query"}, Call(op) PROVE BitsExplained'
    <2>1. data' = data /\ inserted' = inserted /\ pc = "idle" /\ i' = 0 /\ pc' \in {"insert", "query"}
      BY <1>1 DEF Call
    <2>2. \A k : Added(k) => Added(k)'
      BY <2>1 DEF Added
    <2> QED
      BY <1>0, <2>1, <2>2 DEF BitsExplained, get, Bit
  <1>2. CASE insert
    <2>1. pc = "insert" /\ key' = key /\ out' = out /\ key \in Key
      BY <1>2 DEF insert, Inv, TypeOK
    <2>2. \A k : Added(k) => Added(k)'
      BY <1>2, <2>1 DEF insert, Added
    <2>3. ASSUME NEW b \in data'
         PROVE  \E k \in Key, j \in 0..(nhf - 1) : Added(k)' /\ b = Bit(hash(k, j))
      <3>1. CASE b \in data
        BY <2>2, <3>1 DEF BitsExplained
      <3>2. CASE b \notin data
        <4>1. i \in 0..(nhf - 1) /\ b = Bit(hash(key, i))
          <5>1. data' # data
            BY <3>2, <2>3
          <5>2. i < nhf /\ data' = set(hash(key, i))
            BY <1>2, <5>1 DEF insert
          <5>3. i \in 0..(nhf - 1)
            BY <5>2 DEF Inv, TypeOK
          <5> QED
            BY <3>2, <2>3, <5>2, <5>3 DEF set
        <4> QED
          BY <2>1, <2>2, <4>1 DEF Added
      <3> QED
        BY <3>1, <3>2
    <2>4. pc' \in {"insert", "idle"}
      BY <1>2, <2>1 DEF insert
    <2> QED
      BY <1>0, <2>3, <2>4 DEF BitsExplained, Bit
  <1>3. CASE query
    <2>1. pc = "query" /\ data' = data /\ inserted' = inserted /\ key' = key /\ pc' \in {"query", "answered"}
      BY <1>3 DEF query
    <2>2. \A k : Added(k) => Added(k)'
      BY <2>1 DEF Added
    <2>3. CASE i < nhf /\ out
      <3>1. i' = i + 1 /\ out' = get(hash(key, i)) /\ pc' = "query" /\ i \in Nat
        BY <1>3, <2>3, <2>1 DEF query, Inv, TypeOK
      <3>2. ASSUME out', NEW n \in 0..(i' - 1) PROVE get(hash(key, n))
        <4>1. n \in 0..(i - 1) \/ n = i
          BY <3>1
        <4> QED
          BY <2>1, <2>3, <3>1, <3>2, <4>1 DEF BitsExplained
      <3>3. \A n : get(hash(key, n))' <=> get(hash(key, n))
        BY <1>0, <2>1 DEF get, Bit, hash
      <3> QED
        BY <1>0, <2>1, <2>2, <3>1, <3>2, <3>3 DEF BitsExplained, Bit
    <2>4. CASE ~(i < nhf /\ out)
      <3>1. i' = i /\ out' = out /\ pc' = "answered"
        BY <1>3, <2>4 DEF query
      <3>2. out => i = nhf
        BY <2>4 DEF Inv, TypeOK
      <3> QED
        BY <1>0, <2>1, <2>2, <3>1, <3>2 DEF BitsExplained, get, Bit
    <2> QED
      BY <2>3, <2>4
  <1>4. CASE Return
    BY <1>0, <1>4 DEF Return, BitsExplained, Added, get, Bit
  <1>5. CASE UNCHANGED vars
    BY <1>0, <1>5 DEF vars, BitsExplained, Added, get, Bit
  <1> QED
    BY <1>1, <1>2, <1>3, <1>4, <1>5 DEF Next

\* When query answers true, each of the key's bits was set by the insert of some
\* key: false positives come from colliding hashes and nothing else.
THEOREM BloomPositivesExplained == Spec => []PositivesAreExplained
  <1>1. Init => BitsExplained
    BY DEF Init, BitsExplained
  <1>2. Inv /\ BitsExplained => PositivesAreExplained
    <2> SUFFICES ASSUME Inv, BitsExplained, pc = "answered", out, NEW n \in 0..(nhf - 1)
                 PROVE  \E k \in inserted, j \in 0..(nhf - 1) : hash(k, j) = hash(key, n)
      BY DEF PositivesAreExplained
    <2>1. Bit(hash(key, n)) \in data
      BY DEF BitsExplained, get
    <2>2. PICK k \in Key, j \in 0..(nhf - 1) : Added(k) /\ Bit(hash(key, n)) = Bit(hash(k, j))
      BY <2>1 DEF BitsExplained
    <2>3. k \in inserted /\ key \in Key
      BY <2>2 DEF Added, Inv, TypeOK
    <2>4. hash(k, j) \in Nat /\ hash(key, n) \in Nat
      BY <2>3, HashIsNat DEF Inv
    <2>5. hash(key, n) = hash(k, j)
      BY <2>2, <2>4, BitInjective
    <2> QED
      BY <2>3, <2>5
  <1> QED
    BY <1>1, <1>2, InitInv, StepInv, ExplainedStep, PTL DEF Spec

\* A number below a multiple of eight lies in one of its bytes.
LEMMA ByteInside ==
    ASSUME NEW n \in Nat \ {0}, n % 8 = 0, NEW h \in Nat
    PROVE  div8(h % n) < div8(n)
  <1>1. h % n \in Nat /\ h % n < n
    OBVIOUS
  <1>2. ASSUME NEW x \in Nat, x < n PROVE x \div 8 < n \div 8
    BY <1>2
  <1> QED
    BY <1>1, <1>2 DEF div8

\* As long as the size requested does not reach UINT32_MAX, no bit outside the
\* bytes written by the constructor is addressed.
THEOREM BloomInsideFile ==
    (\A n \in NBits : n + 7 < W32) => (Spec => []InsideFile)
  <1> SUFFICES ASSUME \A n \in NBits : n + 7 < W32 PROVE Spec => []InsideFile
    OBVIOUS
  <1> DEFINE Whole == nmod_ % 8 = 0
  <1>1. Init => Whole
    BY FilterBitsOK DEF Init
  <1>2. Whole /\ [Next]_vars => Whole'
    BY DEF Next, vars, Call, insert, query, Return, sizes
  <1>3. Inv /\ Whole => InsideFile
    <2> SUFFICES ASSUME Inv, Whole, i < nhf PROVE div8(hash(key, i)) < div8(nmod_)
      BY DEF InsideFile
    <2>1. murmur[key] \in [0..(nhf - 1) -> HashValue] /\ i \in 0..(nhf - 1)
      BY DEF Inv, TypeOK
    <2>2. murmur[key][i] \in Nat
      <3>1. murmur[key][i] \in HashValue
        BY <2>1
      <3>2. HashValue \subseteq Nat
        BY BloomAssumption
      <3> QED
        BY <3>1, <3>2
    <2>3. nmod_ \in Nat \ {0}
      BY DEF Inv, TypeOK
    <2> QED
      BY <2>2, <2>3, ByteInside DEF hash
  <1> QED
    BY <1>1, <1>2, <1>3, InitInv, StepInv, PTL DEF Spec

=============================================================================
