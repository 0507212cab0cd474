\* An account whose AddUser fails, and a kill between two accounts (tlc -continue).
SPECIFICATION AuthSpec
CONSTANTS
  alice = alice
  bob = bob
  nobody = nobody
  good = good
  other = other
  long = long
  empty = empty
  UserNames = {alice, bob, nobody}
  Passwords = {good, other, long, empty}
  EmptyName = nobody
  EmptyPassword = empty
  LongPasswords = {long}
  LegacyAccounts <- MCLegacyAccounts
  Tokens = {t1, short}
  ShortTokens = {short}
  MaxAuthStarts = 3
  NoUser = NoUser
  NoToken = NoToken
  NoFile = NoFile
  Unparsable = Unparsable
INVARIANTS DeletedWhenMigrated MigratedWhenServing
CHECK_DEADLOCK FALSE
