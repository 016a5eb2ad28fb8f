------------------------------- MODULE MCCodecs -------------------------------
\* Small instances of Codecs for TLC.
EXTENDS Codecs

\* Two bytes, two numbers that are cut to the same bytes, one negative and one past
\* an int, and one past a long.
MCNumber == {1, 2, -255, 2 * IntHalf + 2, LongHalf + 5}
=============================================================================
