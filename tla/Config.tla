-------------------------------- MODULE Config --------------------------------
(***************************************************************************)
(* From the environment to a configuration (config/config.go): blank       *)
(* values and numbers that do not parse or are not positive are replaced,  *)
(* and the result is validated.  Times are in ticks of Access.             *)
(***************************************************************************)
EXTENDS Naturals

CONSTANTS
  Blank,        \* a variable that is not set or blank
  Names,        \* values of APP_NAME
  Secrets,      \* values of JWT_SECRET
  SecretLength,
  DefaultName, DefaultSecret, DefaultTTL, DefaultLimit,
  DefaultTimeout \* of each timeout variable

Timeouts == DOMAIN DefaultTimeout
Drivers == {"postgres", "mysql", "sqlite"}

ASSUME ConfigAssumption ==
  /\ Blank \notin Names \union Secrets
  /\ DefaultName \in Names
  /\ SecretLength \in [Secrets -> Nat]
  /\ DefaultSecret \in Secrets /\ SecretLength[DefaultSecret] >= 16
  /\ DefaultTTL \in Nat \ {0}
  /\ "WRITE_TIMEOUT" \in Timeouts /\ DefaultTimeout \in [Timeouts -> Nat \ {0}]

ASSUME LimitAssumption == DefaultLimit \in 10..100000

env(raw, fallback) == IF raw = Blank THEN fallback ELSE raw

(* intEnv and durationEnv. *)
positiveEnv(raw, fallback) == IF raw \in Nat \ {0} THEN raw ELSE fallback

Load(e) ==
  [AppName |-> env(e.APP_NAME, DefaultName),
   DatabaseDriver |-> env(e.DATABASE_DRIVER, "postgres"),
   JWTSecret |-> env(e.JWT_SECRET, DefaultSecret),
   TokenTTL |-> positiveEnv(e.TOKEN_TTL, DefaultTTL),
   RequestLimit |-> positiveEnv(e.REQUEST_LIMIT, DefaultLimit),
   Timeout |-> [name \in Timeouts |-> positiveEnv(e[name], DefaultTimeout[name])]]

(* The token's lifetime is the one number that is not bounded from below.  *)
Validate(cfg) ==
  /\ cfg.DatabaseDriver \in Drivers
  /\ cfg.AppName # Blank
  /\ SecretLength[cfg.JWTSecret] >= 16
  /\ cfg.RequestLimit \in 10..100000
  /\ \A name \in Timeouts : cfg.Timeout[name] > 0
=============================================================================
