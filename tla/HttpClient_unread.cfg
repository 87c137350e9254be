SPECIFICATION Spec
CHECK_DEADLOCK FALSE
CONSTANTS
  Urls <- TwoHosts
  Methods <- GetOnly
  Credentials = {FALSE}
  Settings <- JustTimeout
  MaxIdle = 1
  MaxRedirects = 2
  MaxLinks = 2
  MaxReqs = 2
INVARIANT NothingUnread
