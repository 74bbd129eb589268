------------------------------ MODULE MCLogSync -----------------------------
EXTENDS LogSync

\* The first file is read in several chunks, and its name is used again for a
\* shorter one; the second stays, so that the listing has one page or two.
CONSTANT MaxBytes

MCSize == <<<<MaxBytes, 1>>, <<1>>>>
=============================================================================
