SPECIFICATION FairSpec
CHECK_DEADLOCK FALSE
CONSTANTS
  Urls <- ThreeUrls
  Methods <- GetAndPost
  Credentials = {TRUE}
  Settings <- TimeoutOrBoth
  MaxIdle = 1
  MaxRedirects = 2
  MaxLinks = 2
  MaxReqs = 2
INVARIANTS LinksOwnedOnce OneIdlePerKey RetryOnNewLink ResponseIsOurs NotRepeated CredentialsStayHome NoDowngrade
PROPERTY FetchEnds
