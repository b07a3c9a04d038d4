\* Applications: two users who may each handle the other's, two applications that one
\* user may have pending at once, two decisions.  The other parts: the same, as two
\* images or restaurants, and two clicks at a time where they may meet.
CONSTANTS
  User = {u1, u2}
  Application = {a1, a2}
  Decision = {r1, r2}
  NoUser = NoUser
  NoApplication = NoApplication
  NoData = NoData
  None = None
  NoRestaurant = NoRestaurant
  NoText = NoText
  NoFile = NoFile
SPECIFICATION DesksSpec
SYMMETRY Symmetry
INVARIANTS
  DesksTypeOK
  DriversWereAccepted
  ToldHolds
  ToldLeavesLists
PROPERTIES
  ImplementsLifecycle
  StoredAsPressed
  DecisionsAsTold
\* Everything may be decided and sent, and nobody need look.
CHECK_DEADLOCK FALSE
