---------------------------- MODULE MCBlockUnpack ----------------------------
(***************************************************************************)
(* Instances of BlockUnpack.  Payloads: docid 1 with tf 1 and 2, docid 200 *)
(* (two bytes, 0x81 0x48) with tf 2, and the empty record; blocks of up   *)
(* to three records, so that a docid repeats and an empty record sits     *)
(* between two others.                                                     *)
(***************************************************************************)
EXTENDS BlockUnpack

MCPayloads == {<<1, 1, 5>>, <<129, 72, 2, 3, 4>>, <<1, 2, 3, 4>>, <<>>}

MCRecords == UNION {[1 .. n -> MCPayloads] : n \in 0 .. 3}

\* Damaged records: a lone value, and a tf of 2 with one position.
MCDamagedRecords == UNION {[1 .. n -> MCPayloads \cup {<<7>>, <<3, 2, 1>>}] : n \in 1 .. 2}

\* A block cut inside a prefix, and inside a payload.
MCTruncated == {<<0, 0>>, <<0, 0, 0, 3, 1>>}

\* After the records: nothing, an empty record, a length of 1025, a first
\* prefix byte of 1, or a cut.
MCTails == {<<>>, <<0, 0, 0, 0>>, <<0, 0, 4, 1>>, <<1, 0, 0, 0>>} \cup MCTruncated

MCVariants == {"vector", "raw", "bounded", "dedup", "findtf"}

=============================================================================
