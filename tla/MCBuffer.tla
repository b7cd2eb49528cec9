---- MODULE MCBuffer ----
\* A Buffer of one byte for prepend() and two for data, growing up to six.
EXTENDS Buffer, TLC
MCByte == {0, 1}
====
