SPECIFICATION Spec
CONSTANTS
  k1 = k1
  k2 = k2
  i1 = i1
  i2 = i2
  a = a
  b = b
  ad = ad
  IdKeys = {i1, i2}
  CertReqs = {r1}
  Users = {a}
  Ids = {a}
  SessionId <- MCSessionId
  Unservable = {}
  Otpks = {k1, k2}
  Candidates <- MCCandidates
  Fetches = {f1, f2}
  MaxOtpks = 2
  None = None
  DiskFaults = TRUE
  MaxUploads = 1
INVARIANT NoResurrection
