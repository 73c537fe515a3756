------------------------------- MODULE Bloom -------------------------------
(***************************************************************************)
(* The Bloom filter of a table (bloom.rs).  A filter is its set bits, the  *)
(* bytes they spread over and the number of probes; AsBytes is the form it *)
(* is stored in.  A hash is the pair of words split makes of it: which     *)
(* pair a key has is left open, any function from keys to pairs will do.   *)
(***************************************************************************)
EXTENDS Integers, SequencesExt

CONSTANTS
  BitsPerKey,
  MinBits,
  Word         \* words count modulo this: 2^32 in the code

Clamp(n, low, high) == Max({low, Min({n, high})})

OptimalProbes == Clamp((BitsPerKey * 69315 + 50000) \div 100000, 1, 30)

\* split: an even step becomes odd, and so never zero.
Step(hash) == IF hash[2] % 2 = 0 THEN hash[2] + 1 ELSE hash[2]

\* The bits a key's probes touch, in an array of so many bits.
Bits(hash, probes, bitLen) ==
  {((hash[1] + i * Step(hash)) % Word) % bitLen : i \in 0 .. probes - 1}

Build(hashes) ==
  LET bytes == (Max({Len(hashes) * BitsPerKey, MinBits}) + 7) \div 8
  IN  [bytes |-> bytes,
       probes |-> OptimalProbes,
       bits |-> UNION {Bits(h, OptimalProbes, 8 * bytes) : h \in Range(hashes)}]

MayContain(filter, hash) ==
  Bits(hash, filter.probes, 8 * filter.bytes) \subseteq filter.bits

\* as_bytes and decode: the array, low bits first, then the probe count.
AsBytes(filter) ==
  Append([i \in 1 .. filter.bytes |->
            MapThenSumSet(LAMBDA b : 2 ^ b,
                          {b \in 0 .. 7 : 8 * (i - 1) + b \in filter.bits})],
         filter.probes)

Describes(bytes) == Len(bytes) >= 2 /\ Last(bytes) # 0

FromBytes(bytes) ==
  [bytes |-> Len(bytes) - 1,
   probes |-> Last(bytes),
   bits |-> {b \in 0 .. 8 * (Len(bytes) - 1) - 1 :
               (bytes[b \div 8 + 1] \div 2 ^ (b % 8)) % 2 = 1}]
=============================================================================
