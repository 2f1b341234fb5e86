SPECIFICATION MCSpec
CONSTANTS
  un = un t1 = t1 t2 = t2 ann = ann bo = bo ann2 = ann2 p1 = p1
  boot = boot k1 = k1 k2 = k2 c1 = c1 c2 = c2
  TeamIds <- AllTeams
  Unassigned = un
  Emails <- AllEmails
  People <- OnePerson
  EmailsOf <- HerEmails
  WithPassword <- HasPassword
  KeyIds <- AllKeys
  Bootstrap = boot
  Callers <- Clients
  Wants <- Splits
  CallsOf <- CallsThree
  MaxRestarts = 1
  None = None
CHECK_DEADLOCK FALSE
INVARIANT TypeOK
PROPERTIES ManualStands GrantsBelowOwn
