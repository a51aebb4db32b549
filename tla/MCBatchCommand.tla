----------------------------- MODULE MCBatchCommand -----------------------------
\* Three names of which two are configured; any of them may be deleted or added,
\* so that a batch has up to three machines.
EXTENDS BatchCommand

CONSTANTS n1, n2, n3, x, all, All

MCNames == {n1, n2, n3}
MCAddresses == {x}
MCAllWords == {all, All}

Configured(at, n) == [at |-> at, by |-> Startup, row |-> AddRow(n, x)]

MCConfigs == {{}, {Configured(0, n1), Configured(1, n2)}}

MCSelectors ==
  {<<>>, <<n1>>, <<n1, n2, n1>>, <<n3, n2, n1>>, <<all>>, <<all, All>>, <<n1, all>>}

MCLimits == 0..2

\* dict.fromkeys as a loop: Distinct keeps a word when it is not there yet.
Fromkeys(words) ==
  FoldLeft(LAMBDA seen, w : IF Contains(seen, w) THEN seen ELSE Append(seen, w),
           <<>>, words)

ASSUME DistinctIsFromkeys ==
  \A words \in BoundedSeq(MCNames \cup MCAllWords, 4) : Distinct(words) = Fromkeys(words)
================================================================================
