\* Two windows that have the document open, and a process.
SPECIFICATION Spec
CONSTANTS
  a = a  b = b  w1 = w1  w2 = w2  p = p  None = None
  Keys = {"x", "y"}
  Windows = {w1, w2}
  Processes = {p}
  Copies = {a, b, p}
  HolderOf <- OneEach
  MaxEvents = 2
INVARIANTS
  TypeOK
  EditsSurvive
  ProcessesAgree
  WindowsAgree
  AcknowledgedIsInTheFile
PROPERTY
  RequestsAreAnswered
CHECK_DEADLOCK FALSE
