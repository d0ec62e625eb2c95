SPECIFICATION Spec
CONSTANTS
  olga = olga
  ann = ann
  bob = bob
  code1 = code1
  code2 = code2
  r1 = r1
  r2 = r2
  r3 = r3
  Users = {olga, ann, bob}
  Creator = olga
  Requests = {r1, r2, r3}
  Invites = {code1, code2}
  MaxRequests = 3
SYMMETRY Symmetry
INVARIANTS DashboardSound
PROPERTIES DeletionStrandsNobody GrantsCostACode AcceptNeverDowngrades AccessLossAuthorized
