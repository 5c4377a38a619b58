---------------------------- MODULE MCCodedFile ----------------------------
EXTENDS CodedFile

\* Five bytes: a varint of two, two bytes like a varint that does not end, and
\* a varint of one.
Items == <<<<1, 2>>, <<3, 4>>, <<5>>>>
Continued == {1, 3, 4}

\* A file that can be positioned, and one that cannot.
RegularFiles == {<<TRUE, TRUE>>, <<FALSE, FALSE>>}
\* A regular file: it can be positioned, and read() delivers all it can.
Regular == {<<TRUE, FALSE>>}
\* A pipe: read() may return less than it was asked for.
Pipe == {<<FALSE, TRUE>>}

AskedSizes == {-1, 0, 3}
PushedLimits == {-1, 2}
LowTotal == {2}
InputEnds == {3}
=============================================================================
