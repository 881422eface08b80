--------------------------- MODULE MCReviewStream ---------------------------
EXTENDS ReviewStream

\* Two stages, in either order: the second may come too late.
SomeReports == {<<4, 5>>, <<2, 0>>}
=============================================================================
