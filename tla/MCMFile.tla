------------------------------ MODULE MCMFile ------------------------------
EXTENDS MFile

\* Sizes in bytes-units with Unit = 2: an empty file, a non-empty file
\* under one megabyte, a small file (1 MB) and two large ones (3 and 4 MB,
\* above WAIT_MIN_MB = 1) against a cap of 4 MB.
MCFileSizes == {0, 1, 2, 6, 8}

\* A file larger than the cap on its own (5 MB).
=============================================================================
