---------------------------- MODULE BloomFilter ----------------------------
(***************************************************************************)
(* One Bloom filter of the Redis broker: a bit string under one key.  The  *)
(* size and the number of hashes are not stored with it; every request     *)
(* brings a capacity and an error rate, from which they are computed.      *)
(* An item stands for its two digests; the bit positions are computed from *)
(* them by double hashing.  An add sets its bits, and a lookup gets them,  *)
(* in one MULTI/EXEC each.                                                 *)
(***************************************************************************)
EXTENDS Naturals

CONSTANTS
    Members,      \* [md5, sha1 : numbers]
    Shapes      \* [bit_size, num_hashes : numbers]: what requests come with

\* BloomAddRequest and BloomExistsRequest keep the capacity at 100 or more and
\* the error rate at one half or less.
ASSUME ShapesAssumption ==
    /\ \A item \in Members : item.md5 \in Nat /\ item.sha1 \in Nat
    /\ \A shape \in Shapes : shape.bit_size \in Nat \ {0} /\ shape.num_hashes \in Nat

VARIABLES
    bits,       \* the positions set in bf:<filter_key>
    added       \* the <<item, shape>> whose add was answered since the key
                \* was last deleted

bloomVars == <<bits, added>>

Positions(item, shape) ==
    {(item.md5 + i * item.sha1) % shape.bit_size :
        i \in 0 .. shape.num_hashes - 1}

BloomInit == bits = {} /\ added = {}

bloom_add(item, shape) ==
    /\ bits' = bits \cup Positions(item, shape)
    /\ added' = added \cup {<<item, shape>>}

\* The request ends with 500, the pipeline executed or not.
AddFails(item, shape) ==
    /\ bits' \in {bits, bits \cup Positions(item, shape)}
    /\ UNCHANGED added

\* Mutant: the lookup counts its hashes from 1.
FoundFromOne(item, shape) ==
    {(item.md5 + i * item.sha1) % shape.bit_size :
        i \in 1 .. shape.num_hashes} \subseteq bits

\* all(bits): the answer of bloom_exists.
Found(item, shape) == Positions(item, shape) \subseteq bits

\* kv_delete or cache_delete with this key.
DeleteFilter == bits' = {} /\ added' = {}

BloomNext ==
    \/ \E item \in Members, shape \in Shapes :
          bloom_add(item, shape) \/ AddFails(item, shape)
    \/ DeleteFilter

BloomSpec == BloomInit /\ [][BloomNext]_bloomVars

-----------------------------------------------------------------------------
(* Properties *)

BloomTypeOK ==
    /\ \A b \in bits : \E shape \in Shapes : b < shape.bit_size
    /\ added \subseteq Members \X Shapes

(* An item is never answered to be "certainly absent" when it was added with
   the same parameters, whatever was added to the filter with others. *)
NoFalseNegative == \A a \in added : Found(a[1], a[2])

=============================================================================
