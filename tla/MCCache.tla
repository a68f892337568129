------------------------------- MODULE MCCache -------------------------------
\* Sizes for the cache: files smaller than their values, as when they are
\* compressed, and larger ones, as base64 and the metadata make them.
EXTENDS Cache

CONSTANTS small, large

Raw == [v \in {small, large} |-> IF v = small THEN 1 ELSE 2]
Compressed == Raw
Encoded == [v \in {small, large} |-> IF v = small THEN 2 ELSE 3]
=============================================================================
