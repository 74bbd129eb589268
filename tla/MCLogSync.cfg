\* A page holds one entry, so that two files need two pages.  Two mishaps let a
\* file be listed twice in one list.
SPECIFICATION SyncSpec
CONSTANTS
  Files = {1, 2}
  Lasting = {2}
  Ascii = {1}
  PageLimit = 1
  ChunkLimit = 2
  MaxBytes = 3
  MaxSize <- MCSize
  MaxMishaps = 2
  MaxTimers = 2
INVARIANTS
  CopyIsTheFile
PROPERTIES
  CopiesCatchUp
