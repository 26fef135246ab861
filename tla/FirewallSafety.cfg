SPECIFICATION FirewallSpec
CONSTANTS
  OwnNames = {n1, n2}
  OtherNames = {similar, other}
  Similar = {similar}
  Addresses = {a1}
  Everybody = Everybody
  NoName = NoName
  MaxEdits = 2
  MaxEnds = 2
SYMMETRY Symmetry
INVARIANTS FirewallTypeOK NoHalfMadeRule
PROPERTIES UnrelatedRulesStay ImplementsCalls
