SPECIFICATION CSpec
CONSTANTS
  Subjects = {"compiler"}
  Keys = {k1, k2, k3, k4}
  Answers = {a1, a2}
  Capacity = 2
  MaxUses = 6
  Callers = {c1, c2}
  Codes <- MCCodes
  Digits = {"00000208", "60701190"}
  Spellings <- MCSpellings
  Padded <- MCPadded
  NoCode = NoCode
  Days <- MCDays
  STRFile <- MCSTRFile
  PixList <- MCPixList
  NoList = NoList
  MaxDaysBack = 1
  MaxCommands = 3
  ParseError = ParseError
  Tokens <- MCTokens
  MaxTyped = 6
  MaxFree = 3
  Comparisons <- MCComparisons
  Operands <- MCOperands
  MaxNodes = 4
  Rows <- MCRows
  NULL = NULL
  Includes <- MCIncludes
  Wildcard = "%"
  Tagged <- MCTagged
  Prefixed <- MCPrefixed
  Instant <- MCInstant
  Preceding <- MCPreceding
  Payloads <- MCPayloads
  Corruptions <- MCCorruptions
  Failed = Failed
  LinkIds = {1, 2, 3}
  Instruments = {"RES-BCB-1", "CIR-3978"}
  Years = {"2020", "2009"}
  NoYear = ""
  NormRef <- MCNormRef
  NoRef = NoRef
  NoConcept = NoConcept
  Texts <- MCTexts
  NoText = NoText
  Linkers = {p1, p2}
  ScanLimits = {0, 2}
  MaxLinks = 3
  MaxStores = 3
CHECK_DEADLOCK FALSE
INVARIANTS
  DateFunctions
