\* Two browsers, two users.  With four requests one browser can log in, send
\* the same token from two tabs and then renew the renewed session, or both can
\* log in and refresh.
CONSTANTS
  User = {u1, u2}
  Browser = {b1, b2}
  Request = {r1, r2, r3, r4}
  SessionId = {s1, s2, s3}
  NoUser = NoUser
  NoBrowser = NoBrowser
  NoSession = NoSession
SPECIFICATION Spec
SYMMETRY Symmetry
INVARIANTS
  TypeOK
  OneSessionPerLogin
  CookieIsRenewed
\* Every request may be answered and every session expired.
CHECK_DEADLOCK FALSE
