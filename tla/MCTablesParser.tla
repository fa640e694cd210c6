--------------------------- MODULE MCTablesParser ---------------------------
(* Constants of the run of TablesParser: every list of up to four entries  *)
(* for arrays of three, with descriptors of various lengths between them.  *)
EXTENDS TablesParser, SequencesExt

UpTo(n, S) == UNION {[1 .. k -> S] : k \in 0 .. n}

SomeServices == {[programNumber |-> 0, pid |-> 16],
                 [programNumber |-> 65535, pid |-> 8191]}
SomeElementaries ==
  {[streamType |-> 2, elementaryPid |-> 8191, esInfoLength |-> 0],
   [streamType |-> 3, elementaryPid |-> 257, esInfoLength |-> 6],
   [streamType |-> 6, elementaryPid |-> 258, esInfoLength |-> 700]}
SomeDescriptors == [tag : {88}, length : {13, 26, 247}]
                 \cup {[tag |-> 127, length |-> 13]}

Lists == [pat |-> UpTo(4, SomeServices), pmt |-> UpTo(4, SomeElementaries),
          tot |-> UpTo(3, SomeDescriptors)]
InfoLengths == [pat |-> {0}, pmt |-> {0, 5}, tot |-> {0}]

(* Where the first i - 1 entries of list l end, after its first offset.    *)
Offset(t, info, l, i) ==
  FoldLeft(LAMBDA n, e : n + Size(t, e), FirstEntry(t, info),
           SubSeq(l, 1, i - 1))

SectionsOf(t) ==
  {[list |-> l, info |-> info,
    start |-> [i \in 1 .. Len(l) + 1 |-> Offset(t, info, l, i)]] :
     l \in Lists[t], info \in InfoLengths[t]}

MCSections == [pat |-> SectionsOf("pat"), pmt |-> SectionsOf("pmt"),
               tot |-> SectionsOf("tot")]
MCMax == [pat |-> 3, pmt |-> 3, tot |-> 3]
=============================================================================
