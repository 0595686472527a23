\* Four objects: enough for every creation path to fail at each of its
\* points and to succeed, interleaved with destructions.
SPECIFICATION Spec
CONSTANTS
  MaxObjects = 4
INVARIANTS
  CreationNoDangling
  CreationNoLeak
  CreationOutputIffSuccess
\* The caller stops once it has made MaxObjects objects and destroyed them.
CHECK_DEADLOCK FALSE
