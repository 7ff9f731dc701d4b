\* Two requests at once, and everything may fail or nothing does; or one at a
\* time and nothing fails.  The system comes to rest when its requests are spent.
CONSTANTS
  Workers = {w1,w2}
  Fields = {f1,f2}
  Values = {a,b}
  Passwords = {x,y}
  Tokens = {t1,t2}
  Faults = {"postgres","redis","nats","process"}
  None = None
  MaxCalls = 3
  MaxAlone = 5
SPECIFICATION MCSpec
CHECK_DEADLOCK FALSE
INVARIANTS
  CopiesWereHeld
  AloneCacheIsFresh
  OnlyLateProfilesStay
  AloneResetIsFinal
PROPERTIES
  PasswordChangesByToken
