----------------------------- MODULE MCBackfill -----------------------------
\* Small instances of Backfill: three orders in pages of two, so that the last
\* page is not full.
EXTENDS Backfill

CONSTANTS p1, p2, o1, o2, o3

MCHistory == <<o1, o2, o3>>
=============================================================================
