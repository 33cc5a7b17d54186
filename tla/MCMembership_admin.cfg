SPECIFICATION Spec
CONSTANTS
  ann = ann  bob = bob  cyd = cyd  r1 = r1  r2 = r2  i1 = i1  i2 = i2
  Users = {ann, bob, cyd}
  Mailbox <- OwnMailbox
  Invites = {}
  Requests = {r1, r2}
  Tables <- AnyTable
  PatchRoles = {"owner", "admin", "member"}
  OfferRoles = {"admin"}
  NoUser = NoUser  NoInvite = NoInvite  NoOffer = NoOffer  Free = Free
SYMMETRY Symmetry
INVARIANTS OwnerRemains
PROPERTIES AtomicAdministration ActsWithAuthority
