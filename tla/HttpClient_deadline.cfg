SPECIFICATION FairSpec
CHECK_DEADLOCK FALSE
CONSTANTS
  Urls <- HttpOnly
  Methods <- GetOnly
  Credentials = {FALSE}
  Settings <- JustDeadline
  MaxIdle = 1
  MaxRedirects = 2
  MaxLinks = 2
  MaxReqs = 2
PROPERTY DeadlineBinds
