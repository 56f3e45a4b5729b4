------------------------------- MODULE MCPersist -------------------------------
EXTENDS Persist

\* A date in the past, a wait longer than max_wait, one too long to be waited,
\* "nan", and a date out of range.
SomeRetryAfters == {-3, 12, 60, NaN, BadDate}
=============================================================================
