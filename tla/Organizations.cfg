\* Three calls, one of them about any record, two users, a pool of two connections.
SPECIFICATION Spec
CONSTANTS
  Calls = {c1, c2, c3}
  Users = {u1, u2}
  Old = Old
  None = None
  PoolSize = 2
  MaxRecords = 1
CONSTRAINT Bounded
SYMMETRY Symmetry
INVARIANTS
  TypeOK
  EventsTellRows
  MemberOnce
  InvitationsExact
  LeaksAreKnown
