CONSTANTS
  c1 = c1
  c2 = c2
  c3 = c3
  in = in
  out = out
  p = p
  q = q
  None = None
  Calls = {c1, c2}
  Paths = {in, out}
  InputOf <- ThreadsInputOf
  OutputOf <- ThreadsOutputOf
  ProcessOf <- ThreadsProcessOf
  Chunks = 2
  OneThread = FALSE
SPECIFICATION Spec
CHECK_DEADLOCK FALSE
INVARIANT NoTruncatedFile
