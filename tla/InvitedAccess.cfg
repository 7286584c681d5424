SPECIFICATION Spec
CONSTANTS
  s1 = s1
  s2 = s2
  i1 = i1
  i2 = i2
  c1 = c1
  c2 = c2
  None = None
  Subjects <- MCSubjects
  Invitations <- MCInvitations
  Callers <- MCCallers
  Terms <- MCTerms
  MaxIssued = 2
  MaxClock = 1
SYMMETRY Symmetry
INVARIANTS
  SessionsAreCounted
PROPERTIES
  Implements
  AnswersHold
CHECK_DEADLOCK FALSE
