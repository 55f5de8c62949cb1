SPECIFICATION FairSpec
CONSTANTS
  MaxRedirects = 2
  Origins <- MCOrigins
  Home = "https://a"
INVARIANTS
  HandoverIsClean
  CredentialsStayHome
  BodyNotResent
PROPERTIES
  RedirectKeepsBody
  CallReturns
