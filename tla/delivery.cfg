SPECIFICATION Spec
CONSTANTS
  Desks = {d1, d2}
  Senders = {t1, t2}
  Providers = {x1, x2}
  Mobiles = {y1, y2}
  SmsQueued = 2
  SmsChanges = 1
  SmsFaults = 1
  Emails = {e1, e2}
  Deliveries = {z1, z2}
  Mailers = {k1}
  MaxPasswords = 2
  MailFaults = 1
  Pupils = {s1}
  Locals = {u1}
  Titles = {a, b}
  Managers = {y1, y2}
  Servers = {x1, x2}
  MaxJobs = 2
  RosterChanges = 1
  RosterFaults = 1
SYMMETRY Interchangeable
INVARIANTS DeliveryTypeOK SmsInvariant MailInvariant
PROPERTY DeliveryKept
CHECK_DEADLOCK FALSE
