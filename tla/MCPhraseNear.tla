----------------------------- MODULE MCPhraseNear -----------------------------
(***************************************************************************)
(* Instances of PhraseNear: pairs of lists over docids 1 and 2 with      *)
(* positions below 3, triples of lists over docid 1 with positions below *)
(* 4, single lists and no list; one or two positions per posting.        *)
(***************************************************************************)
EXTENDS PhraseNear

\* The postings of docid d with one or two positions from ps.
MCPostings(d, ps) ==
  {[docid |-> d, pos |-> s] : s \in {s \in SeqOf(ps, 2) : s # <<>> /\ IsSorted(s, <)}}

\* A list holding none, one or both of docids 1 and 2 (if ds has them).
MCLists(ds, ps) ==
  {<<>>} \cup {<<a>> : a \in UNION {MCPostings(d, ps) : d \in ds}}
  \cup {<<a, b>> : a \in MCPostings(1, ps), b \in MCPostings(2, ps) \cap (IF 2 \in ds THEN UNION {MCPostings(d, ps) : d \in ds} ELSE {})}

MCInputs ==
  {<<>>}
  \cup {<<a>> : a \in MCLists({1, 2}, 0 .. 2)}
  \cup {<<a, b>> : a, b \in MCLists({1, 2}, 0 .. 2)}
  \cup {<<a, b, c>> : a, b, c \in MCLists({1}, 0 .. 3)}

\* Single lists for _tag2: postings of docids 1 and 2 with one or two
\* positions from 0 .. 1, each tagged title, url or body, or with none.
MCTagged(d) ==
  {[docid |-> d, pos |-> <<>>, tag |-> <<>>]} \cup
  UNION {{[docid |-> d, pos |-> p.pos, tag |-> g] : g \in [DOMAIN p.pos -> {"h_title", "h_url", "h_body"}]} :
           p \in MCPostings(d, 0 .. 1)}

MCTagInputs ==
  {<<<<>>>>} \cup {<<<<a>>>> : a \in MCTagged(1) \cup MCTagged(2)}
  \cup {<<<<a, b>>>> : a \in MCTagged(1), b \in MCTagged(2)}

\* What lies one past uvec is not known: garbage that leaves the iterator
\* on its last position (0), just above it and within every radius (1..3),
\* far above (8), or wrapped below it (15).
MCJunk == {0, 1, 2, 3, 8, 15}

\* No '#' term, and a '#' in the second term.
MCStopSets == {{}, {2}}

=============================================================================
