CONSTANTS
  Archives <- MCArchives
  Files <- MCFiles
  Nodes <- MCNodes
  MaxUpload = 1
  MaxFiles = 3
  MaxFileSize = 1
  Enough = 1
  Suspicious <- MCSuspicious
  PyNames <- MCPyNames
  Path <- MCPath
SPECIFICATION Spec
INVARIANTS
  ValidationDecides
