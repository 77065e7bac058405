--------------------------- MODULE MCTmpRepoPull ---------------------------
EXTENDS TmpRepoPull

\* Two calls: the second one starts with what the first one left on disk.
MCMaxCalls == 2
=============================================================================
