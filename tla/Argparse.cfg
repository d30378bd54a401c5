SPECIFICATION Spec
CONSTANTS
  Words <- MCWords
  Dashes <- MCDashes
  Ends <- MCEnds
  Behind <- MCBehind
  Help = {"-h"}
  Refused = {"bad"}
  Opts <- MCOpts
  ArgLists <- MCArgLists
  NoName = ""
  NoDefault = "no default"
  MaxWords = 4
INVARIANTS
  ReadAsMeant
  WordsKept
CHECK_DEADLOCK FALSE
