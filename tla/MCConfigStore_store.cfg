\* A window and a process that have the document open.
SPECIFICATION Spec
CONSTANTS
  a = a  b = b  w1 = w1  w2 = w2  p = p  None = None
  Keys = {"x", "y"}
  Windows = {w1}
  Processes = {p}
  Copies = {a, p}
  HolderOf <- WithProcess
  MaxEvents = 3
INVARIANTS
  EditsSurvive
  ProcessesAgree
  WindowsAgree
  AcknowledgedIsInTheFile
CHECK_DEADLOCK FALSE
