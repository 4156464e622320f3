SPECIFICATION FairSpec
CONSTANTS
  u1 = u1
  u2 = u2
  known = known
  own = own
  shared = shared
  None = None
  Handlers = {h1, h2}
  Subjects = {u1}
  Sids = {a}
  Emails = {own}
  KnownEmails = {}
  EmailsOf <- OneEmailOf
  Ttl = 1
  MaxTime = 1
PROPERTIES
  DisabledMustNotAuthenticate
