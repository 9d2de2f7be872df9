---------------------------- MODULE MCParserPool ----------------------------
EXTENDS ParserPool, TLC

CONSTANTS o1, o2

\* No input, two objects, and one object three times: two workers race to cache
\* it, and the third finds the entry of the first while the second is at work.
Inputs == {<<>>, <<o1, o2>>, <<o1, o1, o1>>}
=============================================================================
