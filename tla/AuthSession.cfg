CONSTANTS
  ann = ann
  bob = bob
  cyd = cyd
  NoUser = NoUser
  Accounts = {ann, bob, cyd}
  Fresh0 = {bob}
  Owners <- MCOwners
  MaxRequests = 3
  MaxFlight = 2
  MaxFaults = 1
  Menus <- MCMenus
SPECIFICATION FairSpec
INVARIANTS SessionsSound TabMatchesCookie
PROPERTIES SwapsConfirmed WaitsEnd
