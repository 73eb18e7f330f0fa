\* The servers file, another file of init, one in the working directory; two ids
\* and files of up to three entries, so that a bad one lies between two good ones.
SPECIFICATION Spec
CONSTANTS
  NFiles = 2
  Ids = {s1, s2}
  MaxEntries = 3
INVARIANTS TypeOK ForceRepairs LastUsableServes ShutdownClosesAll
PROPERTIES EditsSurvive StartsAsTold
