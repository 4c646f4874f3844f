SPECIFICATION Spec
CONSTANTS
  c1 = c1
  c2 = c2
  r1 = r1
  r2 = r2
  Clients <- MCClients
  Items = {"a", "b"}
  Redises <- MCTwoRedises
  Postgres = "postgres"
  Flaky = TRUE
  NoItem = NoItem
SYMMETRY MCSymmetry
INVARIANTS InOnePlace AckedIsKept OrderKept
