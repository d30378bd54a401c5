SPECIFICATION Spec
CONSTANTS
  ByteBits = 3
  AddrBytes = 2
  MapBytes = 3
  BufLen = 2
  Bytes <- MCBytes
  Texts <- MCTexts
  Fill = "a"
  PathParts <- MCPathParts
  Parts <- MCParts
  MaxLen = 4
INVARIANTS
  TextKept
  ReadsBack
  WrittenFits
  PathLeads
  NetworksAgree
  FormatTakesArgs
