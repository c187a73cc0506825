----------------------- MODULE MCModelDefSerialization ----------------------
EXTENDS ModelDefSerialization

\* top-level sizes take two values, so a field read into the wrong member
\* shows; nested members one value of their own
MCVals == {1, 2}
MCElemVals == {3}
\* an uninitialized member holds a value no definition writes
MCGarbage == {0}
MCFuncNames == {"f"}
=============================================================================
