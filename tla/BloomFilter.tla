----------------------------- MODULE BloomFilter -----------------------------
(***************************************************************************)
(* class BloomFilter of bf.hpp: the sizes the constructor derives, and the *)
(* loops of insert and query, one action per pass.  data is the set of the *)
(* bits of the mapped file that are 1, each a byte and a position in it;   *)
(* MurmurHash3 is any function.                                            *)
(***************************************************************************)
EXTENDS Integers, FiniteSetsExt

CONSTANTS
    Key,
    NBits, NKeys,     \* arguments of the constructor
    HashValue,        \* what a hash may return
    W32, W64          \* 2^32 and 2^64, scaled down

ASSUME BloomAssumption ==
    /\ NBits \subseteq Nat \ {0}     \* zero is refused with an exception
    /\ NKeys \subseteq Nat \ {0}
    /\ HashValue \subseteq 0..(W32 - 1)
    /\ W32 \in Nat /\ W32 > 8
    /\ W64 \in Nat /\ \A n \in NBits : n + 7 < W64

VARIABLES
    nmod_, nhf,       \* bits of the filter and number of hash functions
    murmur,           \* the hash functions that the seeds select
    data,
    inserted,         \* keys whose insert has returned
    pc, key, i, out   \* the call under way

vars == <<nmod_, nhf, murmur, data, inserted, pc, key, i, out>>
sizes == <<nmod_, nhf, murmur>>

div8(a) == a \div 8
mod8(a) == a % 8

FilterBitsRaw(nbits) == Min({W32 - 1, nbits})   \* faulty: not whole bytes

\* Whole bytes, saturated at UINT32_MAX.
FilterBits(nbits) == Min({W32 - 1, (((nbits + 7) % W64) \div 8) * 8})

\* round(M_LN2 * nmod_ / nkeys), and at least one.
HashFunctions(nmod, nkeys) ==
    LET n == (2 * 693 * nmod + 1000 * nkeys) \div (2 * 1000 * nkeys)
    IN  IF n = 0 THEN 1 ELSE n

Init ==
    /\ \E nbits \in NBits, nkeys \in NKeys :
         /\ nmod_ = FilterBits(nbits)
         /\ nhf = HashFunctions(nmod_, nkeys)
         /\ murmur \in [Key -> [0..(nhf - 1) -> HashValue]]
    /\ data = {}
    /\ inserted = {}
    /\ pc = "idle"
    /\ key \in Key
    /\ i = 0
    /\ out = TRUE

hash(k, n) == murmur[k][n] % nmod_

Bit(b) == <<div8(b), mod8(b)>>
get(b) == Bit(b) \in data

setFlip(b) == IF get(b) THEN data \ {Bit(b)} ELSE data \union {Bit(b)}   \* faulty: flips unasked

\* set(b, 1): flips the bit when it differs.
set(b) == IF get(b) # TRUE THEN data \union {Bit(b)} ELSE data

Call(op) ==
    /\ pc = "idle"
    /\ key' \in Key
    /\ i' = 0
    /\ out' = TRUE
    /\ pc' = op
    /\ UNCHANGED <<sizes, data, inserted>>

insert ==
    /\ pc = "insert"
    /\ IF i < nhf
       THEN /\ data' = set(hash(key, i))
            /\ i' = i + 1
            /\ UNCHANGED <<inserted, pc>>
       ELSE /\ inserted' = inserted \union {key}
            /\ pc' = "idle"
            /\ UNCHANGED <<data, i>>
    /\ UNCHANGED <<sizes, key, out>>

queryAlmost ==   \* faulty: leaves out the last hash function
    /\ pc = "query"
    /\ IF i < nhf - 1 /\ out
       THEN /\ out' = get(hash(key, i))
            /\ i' = i + 1
            /\ UNCHANGED pc
       ELSE /\ pc' = "answered"
            /\ UNCHANGED <<i, out>>
    /\ UNCHANGED <<sizes, data, inserted, key>>

query ==
    /\ pc = "query"
    /\ IF i < nhf /\ out
       THEN /\ out' = get(hash(key, i))
            /\ i' = i + 1
            /\ UNCHANGED pc
       ELSE /\ pc' = "answered"
            /\ UNCHANGED <<i, out>>
    /\ UNCHANGED <<sizes, data, inserted, key>>

Return ==
    /\ pc = "answered"
    /\ pc' = "idle"
    /\ UNCHANGED <<sizes, data, inserted, key, i, out>>

Next == Call("insert") \/ Call("query") \/ insert \/ query \/ Return

Spec == Init /\ [][Next]_vars

-----------------------------------------------------------------------------
(* Properties.                                                             *)

\* query never answers false for a key that insert has added, whatever was
\* inserted in between and however hashes collide.
NoFalseNegatives == pc = "answered" /\ key \in inserted => out

\* query answers true only when each of the key's bits was set for some key:
\* the only false positives are those of colliding hashes.
PositivesAreExplained ==
    pc = "answered" /\ out =>
        \A n \in 0..(nhf - 1) : \E k \in inserted, j \in 0..(nhf - 1) : hash(k, j) = hash(key, n)

\* "Write empty filter bits to disk": every bit that insert or query addresses
\* is in the div8(nmod_) bytes the constructor wrote.
InsideFile ==
    pc \in {"insert", "query"} /\ i < nhf => div8(hash(key, i)) < div8(nmod_)

=============================================================================
