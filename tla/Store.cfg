SPECIFICATION FairSpec
CONSTANTS
  edit1 = edit1  edit2 = edit2  edit3 = edit3  edit4 = edit4  bobsEdit = bobsEdit
  bobsDelete = bobsDelete  delete1 = delete1
  early = early  late = late  bobs = bobs
  alice = alice  bob = bob  settings = settings
  Requests <- MCMixed
  Deletes <- MCDeletes
  KeepTrash <- MCKeepTrash
  Target <- MCTarget
  Account <- MCAccount
  Process <- MCProcess
  Applications <- MCApplications
  Place <- MCPlace
  AppLane <- MCAppLane
  Lanes <- MCLanes
  SettingsLane = settings
  StoreRetries = 1
  RouteRetries = 1
INVARIANTS TypeOK TrashMatchesDeletes
PROPERTIES ImplementsAtomicStore CommitsIntoHeldLanes ChangesAdvanceTheTenant EveryRequestAnswered
