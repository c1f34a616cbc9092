CONSTANTS
  NL = NL
  Space = Space
  Colon = Colon
  Semi = Semi
  Else = Else
  Of = Of
  Backslash = Backslash
  Paren = Paren
  EndParen = EndParen
  x = x
  y = y
  NoFile = NoFile
  UndoMax = 3
  WindowRows = 2
  LogMax = 4
  Codes <- MCCodes
  Paths <- MCPaths
  Unwritable <- MCUnwritable
  Disk <- MCDisk
  Uses <- MCUses
SPECIFICATION Spec
INVARIANTS TypeOK RunInOnePlace CleanIsSaved FormatSettles
PROPERTIES TextsKept CaretShown
CHECK_DEADLOCK FALSE
