SPECIFICATION Spec
CONSTANTS
  Account = {a, b}
  Users = {a}
  Server = {s}
  Home <- OneServer
  Thread = {t1, t2}
  Tokens = 2
  None = None
INVARIANT SomebodyAdministrates
PROPERTIES LoginIsKept LogoutIsFinal RefusedGoesOffline AcceptedGoesOnline
CHECK_DEADLOCK FALSE
