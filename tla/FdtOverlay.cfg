\* Three sizes of the buffer, eight overlays in every order, phandles below fifteen.
CONSTANTS
  Word = 4
  SLASH = 20
  COLON = 21
  Digits <- DigitValues
  AtChars = {22}
  phandle <- Ph
  linux_phandle <- LinuxPh
  compatible <- Other
  aliases <- Other
  overlay <- OverlayName
  target <- Target
  target_path <- TargetPath
  fixups <- Fixups
  local_fixups <- LocalFixups
  symbols <- Symbols
  RsvStart = 1
  MaxSize = 120
  Bases <- SevenBases
  Overlays <- AllOverlays
  References <- SourceReferences
  Renumbering = {8}
SPECIFICATION Spec
INVARIANTS
  WholeOrErased
  ReferencesResolve
  PhandlesUnique
\* When every overlay was applied there is nothing left to do.
CHECK_DEADLOCK FALSE
