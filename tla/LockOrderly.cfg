SPECIFICATION Spec
CONSTANTS
  Starts = {s1, s2, s3}
  NoFile = NoFile
INVARIANT OneInstance
