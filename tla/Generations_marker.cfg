SPECIFICATION GenSpec
CONSTANTS
  Gen = {g1, g2}
  Iso = Iso
  NoGen = NoGen
  NoMenu = NoMenu
  Matched <- PlainNames
INVARIANTS MarkerTellsTruth
