--------------------------- MODULE MCFileDownloads ---------------------------
\* Two requests for one file of two bytes.
EXTENDS FileDownloads
CONSTANTS a, b, doc
TwoOfOne == [r \in Request |-> doc]
=============================================================================
