\* Sources of up to four definitions, five ways to call dtc and two to call it again.
CONSTANTS
  Word = 4
  SLASH = 20
  COLON = 23
  HASH = 21
  COMMA = 22
  AtChars = {24}
  phandle <- Ph
  linux_phandle <- LinuxPh
  compatible <- X
  aliases <- Aliases
  Lit <- Literals
  Decimal <- Numerals
  NameChars <- Named
  StrictChars <- Plain
  RootDefs <- RootsOf
  Items <- ItemsOf
  MaxItems = 4
  ReserveLists <- Reserved
  Commands <- FirstRuns
  Rereads <- SecondRuns
SPECIFICATION Spec
INVARIANTS
  SourceMeaning
  ReferencesFilled
  FixupsExact
  RoundTrip
\* A source with errors, and the second run, end.
CHECK_DEADLOCK FALSE
