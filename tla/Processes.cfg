CONSTANTS
  c1 = c1
  c2 = c2
  c3 = c3
  in = in
  out = out
  p = p
  q = q
  None = None
  Calls = {c1, c2, c3}
  Paths = {in, out}
  InputOf <- MCInputOf
  OutputOf <- MCOutputOf
  ProcessOf <- MCProcessOf
  Chunks = 2
  OneThread = TRUE
SPECIFICATION Spec
CHECK_DEADLOCK FALSE
INVARIANTS TypeOK NothingLeftBehind NoTruncatedFile
PROPERTY ReplacedInOneStep
