CONSTANTS
  r1 = r1
  r2 = r2
  e1 = e1
  e2 = e2
  t1 = t1
  t2 = t2
  k1 = k1
  k2 = k2
  None = None
  Requests = {r1, r2}
  Emails = {e1, e2}
  Tenants = {t1, t2}
  Keys = {k1, k2}
SYMMETRY AccessSymmetry
SPECIFICATION Spec
INVARIANTS
  AccountsAreWhole
  RevocationIsHonoured
  UnpublishIsHonoured
PROPERTY OnlyOwnersAdminister
