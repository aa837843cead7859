------------------------------- MODULE MCEngine -------------------------------
EXTENDS Engine

\* A diverged node's block for the second height: it names a state nobody has,
\* and a time that is only plausible to a clock that is ahead.
MCForeign == {Block(2, 2, 0, [height |-> 1, time |-> 0, by |-> 0])}
=============================================================================
