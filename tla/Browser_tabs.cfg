\* Two tabs, while the account changes and the process restarts.
SPECIFICATION Spec
CONSTANTS
  t1 = t1  t2 = t2
  Blank = Blank  Junk = Junk  None = None  Down = Down
  app = app  secret = secret  other = other  short = short
  Names = {app}
  Secrets = {secret, other, short}
  SecretLength <- MCSecretLength
  DefaultName = app
  DefaultSecret = secret
  DefaultTTL = 3
  DefaultLimit = 180
  DefaultTimeout <- MCTimeout
  Callers = {t1, t2}
  Environments <- MCEnvironments
  Second = 2
  LastTime = 4
  MaxTrouble = 2
  MaxLogins = 3
SYMMETRY Symmetry
INVARIANTS
  TypeOK
  GrantsBacked
  TokensLast
  OffersPermitted
