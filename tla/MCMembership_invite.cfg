SPECIFICATION FairSpec
CONSTANTS
  ann = ann  bob = bob  cyd = cyd  r1 = r1  r2 = r2  i1 = i1  i2 = i2
  Users = {ann, bob}
  Mailbox <- OwnMailbox
  Invites = {i1,i2}
  Requests = {r1, r2}
  Tables <- NewOrg
  PatchRoles = {}
  OfferRoles = {"member"}
  NoUser = NoUser  NoInvite = NoInvite  NoOffer = NoOffer  Free = Free
INVARIANTS IInv
PROPERTIES InvitationUsedOnce JoinsByInvitation RequestsFinish
