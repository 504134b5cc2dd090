-------------------------------- MODULE Bloom --------------------------------
(***************************************************************************)
(* The Bloom filter of a table (util/bloom.cc): CreateFilter for a batch   *)
(* of keys by a writer, KeyMayMatch by a reader that was configured        *)
(* differently.  A key is its hash.  Table takes for granted what this     *)
(* module checks: that a filter never denies a key it was made for.        *)
(***************************************************************************)
EXTENDS Integers, FiniteSets, FiniteSetsExt

CONSTANTS
  HashBits,     \* 32
  Rotate,       \* 17
  ByteBits,     \* 8
  MinBits,      \* 64
  MaxProbes,    \* 30
  BitsPerKey,   \* values of bits_per_key_
  MaxKeys       \* in one filter

BloomAssumption ==
  {HashBits, Rotate, ByteBits, MinBits, MaxProbes, MaxKeys} \subseteq Nat \ {0} /\ Rotate < HashBits /\ BitsPerKey \subseteq Nat

Hashes == 0..(2^HashBits - 1)

VARIABLES
  bits_per_key,  \* of the writer
  n,             \* the keys of the batch that is to come
  left,          \* of these, how many are not in the filter yet
  keys,          \* those that are
  filter         \* the array, as the set of its bits that are 1, and its last byte

vars == <<bits_per_key, n, left, keys, filter>>

\* Rotate right
Delta(h) == ((h \div 2^Rotate) + (h * 2^(HashBits - Rotate))) % 2^HashBits

\* The probes of a key: h, h + delta, ... in 32 bits, each modulo the number of bits
Probes(h, k, bits) == {((h + j * Delta(h)) % 2^HashBits) % bits : j \in 0..(k - 1)}

\* BloomFilterPolicy
K(b) == Max({1, Min({MaxProbes, (b * 69) \div 100})})

\* The bytes of a filter for m keys
Bytes(b, m) == (Max({MinBits, m * b}) + ByteBits - 1) \div ByteBits

Init ==
  /\ bits_per_key \in BitsPerKey /\ n \in 0..MaxKeys /\ left = n /\ keys = {}
  /\ filter = [bytes |-> Bytes(bits_per_key, n), set |-> {}, k |-> K(bits_per_key)]

\* One round of the loop in CreateFilter
AddKey(h) ==
  /\ left > 0 /\ left' = left - 1 /\ keys' = keys \cup {h}
  /\ filter' = [filter EXCEPT !.set = @ \cup Probes(h, filter.k, filter.bytes * ByteBits)]
  /\ UNCHANGED <<bits_per_key, n>>

Next == \E h \in Hashes : AddKey(h)

Spec == Init /\ [][Next]_vars

-------------------------------------------------------------------------------
\* KeyMayMatch of a reader: the size and the number of probes are those of the filter.
KeyMayMatch(h, f) ==
  /\ f.bytes + 1 >= 2
  /\ f.k > MaxProbes \/ Probes(h, f.k, f.bytes * ByteBits) \subseteq f.set

\* A key that has been added matches, whatever the hash, the number of keys and the settings,
\* and no bit is set outside the array.
NoFalseNegatives ==
  /\ \A h \in keys : KeyMayMatch(h, filter)
  /\ filter.set \subseteq 0..(filter.bytes * ByteBits - 1)

===============================================================================
