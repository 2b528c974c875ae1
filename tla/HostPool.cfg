SPECIFICATION Spec
CONSTANTS
  t1 = t1
  t2 = t2
  Callers <- MCCallers
  SysFails <- MCSysFails
  NumHosts = 3
  DisableTime = 1
  MaxTime = 2
  Good <- MCGood
INVARIANTS
  TypeOK
  GoodHostsStayOn
  FailoverWorks
