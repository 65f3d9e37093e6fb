SPECIFICATION Spec
CONSTANTS
  c1 = c1
  c2 = c2
  p1 = p1
  p2 = p2
  Client <- Clients
  Content <- Contents
  Command <- AllCommands
  None = None
SYMMETRY Symmetric
INVARIANTS
  InStep
  ResultIsOfSource
  LoadIsCurrent
  FileIsProject
