SPECIFICATION Spec
CONSTANTS
  a = a
  b = b
  q1 = q1
  q2 = q2
  log = log
  x = x
  y = y
  None = None
  Seats = {a, b}
  MayAsk = {a, b}
  MayAnswer = {a, b}
  MayEnd = {a}
  Items = {q1, q2}
  Sources = {log, wiki}
  Specialties = {x, y}
  Callers = {c1, c2}
  Offered <- AllCalls
  MaxRevision = 6
SYMMETRY CallerSymmetry

INVARIANTS
  AgendaAgreesWithJournal
  ClaimsGrounded
  RememberedWasStored
