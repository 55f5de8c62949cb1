SPECIFICATION ServicesSpec
CONSTANTS
  ShortCmds = {"user", "pass", "stat", "quit"}
  LongCmds = {"retr"}
  Implicit = TRUE
  MaxCalls = 6
  NoValue = NoValue
  Accounts = {a, b}
  NoAccount = NoAccount
  Mail <- MCMail
  Wanted = {m2}
  MaxOps = 3
  PlainShort = {"stat", "quit"}
  PlainLong = {"list"}
  PlainCalls = 3
  Payments = {t1, t2, t3}
  Wallet <- MCWallet
  NoTransfer = NoTransfer
  Sweep = {t3}
  Amount <- MCAmount
  Unconfirmed = {t2}
  Verifying = {t1, t3}
  Legacy = {t1, t3}
  Watched = {t1}
  Value <- MCValue
  Misread <- MCMisread
  Rates = {1}
  MaxInputs = 2
  Dust = 3
  Overhead = 0
  FirstSize = 2
  Growth = 1
  Transfers = {t1, t2, t3}
  Token = {t2}
  Waiting = {t1, t2}
  Price <- MCPrice
  Pays <- MCPays
  Valid = 0
  MaxBlock = 1
  Users = {u1}
  URLs = {"x"}
  Unset = "z"
  Endpoints = {"e"}
  NoURL = ""
  MaxWallets = 3
  m1 = m1
  m2 = m2
  c1 = c1
  c2 = c2
  w1 = w1
  w2 = w2
  t1 = t1
  t2 = t2
  t3 = t3
  p = p
CHECK_DEADLOCK FALSE
INVARIANTS ServicesTypeOK SessionsInStep NewMailIsNew DialsEndCleanly FeesAreRight DefaultsFollowInit
PROPERTIES NothingReplaced TransfersKeepPromise
