-------------------------------- MODULE Hashmap --------------------------------
(***************************************************************************)
(* The hash map of libds, in which the hypervisor collects the attributes  *)
(* of a command: an array of chains.  The hash is any function of the key. *)
(***************************************************************************)
EXTENDS Integers, Sequences, SequencesExt

CONSTANTS
  Bucket(_),  \* the bucket of a key, between 1 and NumBuckets
  NumBuckets,
  Null        \* what hashmap_get returns for a key that is not there

create_hashmap == [b \in 1 .. NumBuckets |-> <<>>]

\* The first item of the chain with the key, if any.
Positions(m, key) == {i \in DOMAIN m[Bucket(key)] : m[Bucket(key)][i].key = key}

hashmap_get(m, key) ==
  IF Positions(m, key) = {} THEN Null
  ELSE m[Bucket(key)][CHOOSE i \in Positions(m, key) : \A j \in Positions(m, key) : i <= j].val

\* Mutant: a new item starts a new chain in its bucket.
PutDropsChain(m, key, val) ==
  IF Positions(m, key) = {} THEN [m EXCEPT ![Bucket(key)] = <<[key |-> key, val |-> val]>>]
  ELSE [m EXCEPT ![Bucket(key)] =
          [i \in DOMAIN @ |-> IF @[i].key = key THEN [key |-> key, val |-> val] ELSE @[i]]]

\* The value of a key that is there is replaced; a new item goes to the end.
hashmap_put(m, key, val) ==
  LET item == [key |-> key, val |-> val]
  IN  [m EXCEPT ![Bucket(key)] =
         IF Positions(m, key) = {} THEN Append(@, item)
         ELSE [i \in DOMAIN @ |-> IF @[i].key = key THEN item ELSE @[i]]]
=============================================================================
