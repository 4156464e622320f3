SPECIFICATION FairSpec
CONSTANTS
  u1 = u1
  u2 = u2
  known = known
  own = own
  shared = shared
  None = None
  Handlers = {h1, h2}
  Subjects = {u1, u2}
  Sids = {a}
  Emails = {known, own, shared}
  KnownEmails = {known}
  EmailsOf <- TwoEmailsOf
  Ttl = 1
  MaxTime = 0
INVARIANTS
  TypeOK
  NoOrphanUsers
PROPERTIES
  AnswersConverge
  LinkRequiredOnlyForStrangers
  ProvisioningEnds
