SPECIFICATION Spec
CONSTANTS
  root = root g = g h = h a = a b = b m = m r = r f = f p = p s = s
  none = none nocb = nocb cb1 = cb1 cb2 = cb2 usr = usr mfr = mfr nvm = nvm live = live
  Objects <- MCObjects
  Type <- MCType
  Parent <- MCParent
  ReadRoles <- MCReadRoles
  WriteRoles <- MCWriteRoles
  SubsetOf <- MCSubsetOf
  Parameters <- MCParameters
  HasCallback <- MCHasCallback
  Values <- MCValues
  InitData <- MCInitData
  InitSubsets <- MCInitSubsets
  Root = root
  PeerRequests <- EveryRequest
  InitAuth <- MCInitAuth
  Auths <- MCAuths
  InitRegistration <- WatchNvm
  Registrations <- MCRegistrations
  NoCb = nocb
  NoObject = none
  Vetoes = TRUE
INVARIANTS
  TypeOK
  CheckPassWritesOnlyArrays
  AllOrNothing
  CallbackOrder
  ChangedMeansNotified
  FetchIsBracketed
  AccessAllowed
  FunctionSeesItsParameters
  NotifiedForAReason
