----------------------------- MODULE MCBitBuffer ----------------------------
(***************************************************************************)
(* Small instances of BitBuffer: buffers of 0, 1 and 2 words, and bit      *)
(* indices on both sides of every word boundary and of the capacity.       *)
(***************************************************************************)
EXTENDS BitBuffer

\* One word of caller memory left clean, and one with stale bits.
MCJunk == {{}, {0, 63}}

MCPositions == {0, 63, 64, 127, 128}

\* Range starts below the last bit of a word, and past the capacity.
MCRangeStarts == {0, 62, 64, 126, 128}

\* Range starts that end a range exactly at the capacity.
MCEdgeStarts == {63, 127}

=============================================================================
