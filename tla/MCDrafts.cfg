SPECIFICATION Spec
CONSTANTS
  Names = {"h1", "h2"}
  Now = 1
  Admins = {a1}
  Payloads <- MCPayloads
  Legacy <- MCLegacy
  Handlers = {r1, r2}
  MaxDrafts = 2
  MaxEdits = 2
  Scenarios <- MCScenarios
SYMMETRY MCSymmetry
INVARIANTS TypeOK ConfirmedSound ConfirmedOnce
CHECK_DEADLOCK FALSE
