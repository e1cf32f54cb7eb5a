---------------------------- MODULE BrowserProofs ----------------------------
(***************************************************************************)
(* Logins, tokens and tabs, for any number of tabs, environments and       *)
(* account changes.  The argument (Sessions): a role that was read stays   *)
(* on record with the time the account last had it (Holding), a login that *)
(* is under way is no older than that (Reading), hence nor is a token      *)
(* (Issued); and every token in the browser came from a login.             *)
(***************************************************************************)
EXTENDS Browser, TLAPS

-----------------------------------------------------------------------------
(* Configurations and arithmetic.                                          *)

(* exp in whole seconds: at most a second is cut off. *)
LEMMA WholeSeconds ==
  ASSUME NEW x \in Nat
  PROVE  /\ (x \div Second) * Second \in Nat
         /\ (x \div Second) * Second <= x
         /\ (x \div Second) * Second > x - Second
<1>1. Second \in Nat \ {0}
  BY AccessAssumption
<1> DEFINE q == x \div Second
<1>2. q \in Nat /\ x = Second * q + (x % Second) /\ x % Second \in 0..(Second - 1)
  BY <1>1
<1>3. q * Second = Second * q /\ Second * q \in Nat
  BY <1>1, <1>2
<1>4. QED
  BY <1>1, <1>2, <1>3

(* What replaces a variable that is blank or not positive. *)
LEMMA EnvType ==
  ASSUME NEW S, NEW fallback \in S, NEW raw \in S \union {Blank}
  PROVE  env(raw, fallback) \in S
BY DEF env

LEMMA PositiveType ==
  ASSUME NEW raw, NEW fallback \in Nat \ {0}
  PROVE  positiveEnv(raw, fallback) \in Nat \ {0}
<1>1. CASE raw \in Nat \ {0}
  BY <1>1, Zenon DEF positiveEnv
<1>2. CASE ~(raw \in Nat \ {0})
  BY <1>2, Zenon DEF positiveEnv
<1>3. QED
  BY <1>1, <1>2

LEMMA LoadedTypes ==
  ASSUME NEW cfg \in Configs
  PROVE  /\ cfg.AppName \in Names /\ cfg.JWTSecret \in Secrets
         /\ cfg.TokenTTL \in Nat \ {0}
         /\ cfg.Timeout["WRITE_TIMEOUT"] \in Nat \ {0}
<1>1. PICK e \in Environments : cfg = Load(e)
  BY DEF Configs
<1>2. /\ cfg.AppName = env(e.APP_NAME, DefaultName)
      /\ cfg.JWTSecret = env(e.JWT_SECRET, DefaultSecret)
      /\ cfg.TokenTTL = positiveEnv(e.TOKEN_TTL, DefaultTTL)
      /\ cfg.Timeout = [name \in Timeouts |-> positiveEnv(e[name], DefaultTimeout[name])]
  BY <1>1 DEF Load
<1>3. cfg.AppName \in Names
  <2>1. e.APP_NAME \in Names \union {Blank} /\ DefaultName \in Names
    BY AccessAssumption, ConfigAssumption
  <2>2. QED
    BY <1>2, <2>1, EnvType
<1>4. cfg.JWTSecret \in Secrets
  <2>1. e.JWT_SECRET \in Secrets \union {Blank} /\ DefaultSecret \in Secrets
    BY AccessAssumption, ConfigAssumption
  <2>2. QED
    BY <1>2, <2>1, EnvType
<1>5. cfg.TokenTTL \in Nat \ {0}
  BY <1>2, ConfigAssumption, PositiveType
<1>6. cfg.Timeout["WRITE_TIMEOUT"] \in Nat \ {0}
  <2>1. /\ "WRITE_TIMEOUT" \in Timeouts
        /\ DefaultTimeout["WRITE_TIMEOUT"] \in Nat \ {0}
    BY ConfigAssumption
  <2>2. cfg.Timeout["WRITE_TIMEOUT"]
          = positiveEnv(e["WRITE_TIMEOUT"], DefaultTimeout["WRITE_TIMEOUT"])
    BY <1>2, <2>1
  <2>3. QED
    BY <2>1, <2>2, PositiveType
<1>7. QED
  BY <1>3, <1>4, <1>5, <1>6

LEMMA TimesTypes ==
  /\ Times \subseteq Nat /\ Never \in Nat /\ Never \notin Times /\ 0 \in Times
  BY AccessAssumption DEF Times, Never

LEMMA HeldTypes ==
  ASSUME Sessions
  PROVE  now \in Nat /\ \A role \in Roles : held[role] \in Nat
<1>1. now \in Times /\ held \in [Roles -> Times \union {Never}]
  BY DEF Sessions, TypeOK
<1>2. Times \union {Never} \subseteq Nat
  BY TimesTypes
<1>3. QED
  BY <1>1, <1>2

(* The shapes a login may have. *)
LEMMA LoginShapes ==
  ASSUME NEW state \in LoginState
  PROVE  /\ state.at \in {"none", "sent", "read", "answered"}
         /\ state.at = "read" => state.role \in Roles /\ state.since \in Times
         /\ state.at = "answered" => state.token \in Token \union {None}
  BY DEF LoginState

LEMMA NewLogins ==
  /\ [at |-> "none"] \in LoginState /\ [at |-> "sent"] \in LoginState
  /\ \A role \in Roles, since \in Times :
       /\ [at |-> "read", role |-> role, since |-> since] \in LoginState
       /\ [at |-> "read", role |-> role, since |-> since].at = "read"
       /\ [at |-> "read", role |-> role, since |-> since].role = role
       /\ [at |-> "read", role |-> role, since |-> since].since = since
  /\ \A token \in Token \union {None} :
       Answered(token) \in LoginState /\ Answered(token).at = "answered"
         /\ Answered(token).token = token
  BY DEF LoginState, Answered

(* Where a token may be. *)
LEMMA WhereTokens ==
  ASSUME NEW token
  PROVE  token \in Tokens <=>
           /\ token # None
           /\ \/ token = storage
              \/ \E t \in Tabs : token = seen[t]
              \/ \E c \in Callers : login[c].at = "answered" /\ token = login[c].token
  BY DEF Tokens

-----------------------------------------------------------------------------
(* Each step preserves Sessions.                                           *)

(* What a step has to establish. *)
LEMMA SessionsFollow ==
  ASSUME Sessions,
         now' \in Times, server' \in Configs \union {Down},
         account' \in [role : Roles, active : BOOLEAN], trouble' \in 0..MaxTrouble,
         held' \in [Roles -> Times \union {Never}], Holding',
         tab' \in [Tabs -> {"closed", "loading", "shown"}], logins' \in 0..MaxLogins,
         \A t \in Tabs : tab'[t] # "loading" <=> login'[t].at = "none",
         login' \in [Callers -> LoginState], \A c \in Callers : Reading(login[c])',
         seen' \in [Tabs -> Token \union {None}], storage' \in Token \union {None},
         \A role \in Roles : held[role] # Never =>
           held'[role] # Never /\ held[role] <= held'[role],
         \A token \in Token : token \in Tokens' => token \in Tokens \/ Issued(token)'
  PROVE  Sessions'
<1>1. Tokens' \subseteq Token
  <2> SUFFICES ASSUME NEW token \in Tokens' PROVE token \in Token
    OBVIOUS
  <2>1. /\ token # None
        /\ \/ token = storage'
           \/ \E t \in Tabs : token = seen'[t]
           \/ \E c \in Callers : login'[c].at = "answered" /\ token = login'[c].token
    BY DEF Tokens
  <2>2. \A c \in Callers : login'[c].at = "answered" => login'[c].token \in Token \union {None}
    BY LoginShapes
  <2>3. QED
    BY <2>1, <2>2
<1>2. TypeOK'
  BY <1>1 DEF TypeOK
<1>3. ASSUME NEW token \in Tokens' PROVE Issued(token)'
  <2>1. token \in Token
    BY <1>1
  <2>2. CASE token \in Tokens
    <3>1. Issued(token) /\ token.role \in Roles /\ token.cfg \in Configs
          /\ token.issued \in Nat /\ held[token.role] \in Nat /\ held'[token.role] \in Nat
      BY <2>1, <2>2, TimesTypes DEF Sessions, TypeOK, Token
    <3>2. token.cfg.Timeout["WRITE_TIMEOUT"] \in Nat
      BY <3>1, LoadedTypes
    <3>3. QED
      BY <3>1, <3>2 DEF Issued
  <2>3. QED
    BY <2>1, <2>2
<1>4. QED
  BY <1>2, <1>3 DEF Sessions

(* A login under way outlasts every step that leaves it and the process.   *)
LEMMA ReadingKept ==
  ASSUME Sessions, login' = login, server' = server,
         \A role \in Roles : held'[role] \in Nat,
         \A role \in Roles : held[role] # Never =>
           held'[role] # Never /\ held[role] <= held'[role]
  PROVE  \A c \in Callers : Reading(login[c])'
<1> SUFFICES ASSUME NEW c \in Callers, login[c].at = "read"
             PROVE  /\ server # Down
                    /\ held'[login[c].role] # Never
                    /\ login[c].since <= held'[login[c].role]
  BY DEF Reading, Never
<1>1. login[c] \in LoginState /\ Reading(login[c])
  BY DEF Sessions
<1>2. login[c].role \in Roles /\ login[c].since \in Nat
  BY <1>1, LoginShapes, TimesTypes
<1>3. QED
  BY <1>1, <1>2, HeldTypes DEF Reading

LEMMA InitSessions == BrowserInit => Sessions
<1> SUFFICES ASSUME BrowserInit PROVE Sessions
  OBVIOUS
<1>1. Init /\ storage = None /\ logins = 0
      /\ tab = [t \in Tabs |-> "closed"] /\ seen = [t \in Tabs |-> None]
  BY DEF BrowserInit
<1>2. login = [c \in Callers |-> [at |-> "none"]] /\ Tabs = Callers
  BY <1>1 DEF Init, Tabs
<1>3. "admin" \in Roles
  BY DEF Roles, roleRank
<1>4. account = [role |-> "admin", active |-> TRUE]
      /\ account \in [role : Roles, active : BOOLEAN]
  BY <1>1, <1>3 DEF Init
<1>5. /\ now = 0 /\ trouble = 0 /\ server \in Configs
      /\ held = [role \in Roles |-> IF role = "admin" THEN 0 ELSE Never]
  BY <1>1, <1>4 DEF Init
<1>6. held \in [Roles -> Times \union {Never}] /\ Holding
  BY <1>3, <1>4, <1>5, TimesTypes DEF Holding
<1>7. Tokens = {}
  BY <1>1, <1>2 DEF Tokens
<1>8. TypeOK
  <2>1. trouble \in 0..MaxTrouble /\ logins \in 0..MaxLogins /\ now \in Times
    BY <1>1, <1>5, TimesTypes, AccessAssumption, LoginsAssumption
  <2>2. \A t \in Tabs : tab[t] # "loading" <=> login[t].at = "none"
    BY <1>1, <1>2
  <2>3. QED
    BY <1>1, <1>4, <1>5, <1>6, <1>7, <2>1, <2>2 DEF TypeOK
<1>9. login \in [Callers -> LoginState] /\ \A c \in Callers : Reading(login[c])
  BY <1>2, NewLogins DEF Reading
<1>10. QED
  BY <1>1, <1>6, <1>7, <1>8, <1>9 DEF Sessions

(* FindUserByUsername: the role that is read is on record as of now. *)
LEMMA ReadAccountSessions ==
  ASSUME Sessions, NEW c \in Callers, ReadAccount(c),
         UNCHANGED <<storage, tab, seen, logins>>
  PROVE  Sessions'
<1>1. /\ login[c].at = "sent" /\ server # Down /\ account.role \in Roles
      /\ now \in Times /\ now' = now /\ server' = server /\ account' = account
      /\ trouble' = trouble /\ held' = held
      /\ storage' = storage /\ tab' = tab /\ seen' = seen /\ logins' = logins
      /\ login \in [Callers -> LoginState]
  BY DEF ReadAccount, Sessions, TypeOK
<1> DEFINE read == [at |-> "read", role |-> account.role, since |-> now]
<1>2. login' = [login EXCEPT ![c] = IF account.active THEN read ELSE Answered(None)]
  BY DEF ReadAccount
<1>3. /\ read \in LoginState /\ read.at = "read" /\ read.role = account.role
      /\ read.since = now
      /\ Answered(None) \in LoginState /\ Answered(None).at = "answered"
      /\ Answered(None).token = None
  BY <1>1, NewLogins
<1> HIDE DEF read
<1>4. /\ \/ account.active /\ login'[c] = read
         \/ login'[c] = Answered(None)
      /\ login' \in [Callers -> LoginState]
      /\ \A d \in Callers : d # c => login'[d] = login[d]
  BY <1>1, <1>2, <1>3
<1>5. \A d \in Callers : Reading(login[d])'
  <2> SUFFICES ASSUME NEW d \in Callers, login'[d].at = "read"
               PROVE  /\ server # Down
                      /\ held[login'[d].role] # Never
                      /\ login'[d].since <= held[login'[d].role]
    BY <1>1 DEF Reading
  <2>1. CASE d # c
    BY <1>4, <2>1 DEF Sessions, Reading
  <2>2. CASE d = c
    <3>1. account.active /\ login'[d] = read
      BY <1>3, <1>4, <2>2
    <3>2. held[account.role] = now
      BY <3>1 DEF Sessions, Holding
    <3>3. QED
      BY <1>1, <1>3, <3>1, <3>2, TimesTypes
  <2>3. QED
    BY <2>1, <2>2
<1>6. \A t \in Tabs : tab'[t] # "loading" <=> login'[t].at = "none"
  BY <1>1, <1>3, <1>4 DEF Sessions, TypeOK, Tabs
<1>7. \A token \in Token : token \in Tokens' => token \in Tokens
  BY <1>1, <1>3, <1>4, WhereTokens DEF Tokens
<1>8. \A role \in Roles : held[role] # Never => held'[role] # Never /\ held[role] <= held'[role]
  BY <1>1, HeldTypes
<1>9. Holding'
  BY <1>1 DEF Sessions, Holding
<1>10. QED
  BY <1>1, <1>4, <1>5, <1>6, <1>7, <1>8, <1>9, SessionsFollow DEF Sessions, TypeOK

(* A login that is answered, with a token that was properly issued if any. *)
LEMMA AnswerSessions ==
  ASSUME Sessions, NEW c \in Callers, login[c].at \in {"sent", "read"},
         NEW token \in Token \union {None}, token # None => Issued(token),
         login' = [login EXCEPT ![c] = Answered(token)],
         UNCHANGED <<now, server, account, trouble, held, storage, tab, seen, logins>>
  PROVE  Sessions'
<1>1. /\ now' = now /\ server' = server /\ account' = account
      /\ trouble' = trouble /\ held' = held
      /\ storage' = storage /\ tab' = tab /\ seen' = seen /\ logins' = logins
      /\ login \in [Callers -> LoginState]
  BY DEF Sessions
<1>2. /\ Answered(token) \in LoginState /\ Answered(token).at = "answered"
      /\ Answered(token).token = token
  BY NewLogins
<1>3. /\ login'[c] = Answered(token) /\ login' \in [Callers -> LoginState]
      /\ \A d \in Callers : d # c => login'[d] = login[d]
  BY <1>1, <1>2
<1>4. \A d \in Callers : Reading(login[d])'
  BY <1>1, <1>2, <1>3 DEF Sessions, Reading
<1>5. \A t \in Tabs : tab'[t] # "loading" <=> login'[t].at = "none"
  BY <1>1, <1>2, <1>3 DEF Sessions, TypeOK, Tabs
<1>6. \A other \in Token : other \in Tokens' => other \in Tokens \/ Issued(other)'
  <2> SUFFICES ASSUME NEW other \in Token, other \in Tokens', other \notin Tokens
               PROVE  Issued(other)'
    OBVIOUS
  <2>1. other = token /\ token # None
    BY <1>1, <1>2, <1>3, WhereTokens DEF Tokens
  <2>2. QED
    BY <1>1, <2>1 DEF Issued
<1>7. \A role \in Roles : held[role] # Never => held'[role] # Never /\ held[role] <= held'[role]
  BY <1>1, HeldTypes
<1>8. Holding'
  BY <1>1 DEF Sessions, Holding
<1>9. QED
  BY <1>1, <1>3, <1>4, <1>5, <1>6, <1>7, <1>8, SessionsFollow DEF Sessions, TypeOK

(* The token carries the role that was read, which the account had no      *)
(* longer ago than a login may take. *)
LEMMA SignSessions ==
  ASSUME Sessions, NEW c \in Callers, Sign(c), UNCHANGED <<storage, tab, seen, logins>>
  PROVE  Sessions'
<1> DEFINE token == [role |-> login[c].role, expires |-> Expiry(login[c].since),
                     secret |-> server.JWTSecret, issuer |-> server.AppName,
                     issued |-> now, cfg |-> server]
           state == login[c]
<1>1. /\ state.at = "read" /\ now - state.since <= server.Timeout["WRITE_TIMEOUT"]
      /\ login' = [login EXCEPT ![c] = Answered(token)]
      /\ UNCHANGED <<now, server, account, trouble, held>>
  BY DEF Sign
<1>2. /\ state.role \in Roles /\ state.since \in Nat /\ state.since <= held[state.role]
      /\ held[state.role] # Never /\ held[state.role] \in Nat
      /\ server \in Configs /\ now \in Times /\ now \in Nat
  <2>1. state \in LoginState /\ Reading(state)
    BY DEF Sessions
  <2>2. state.role \in Roles /\ state.since \in Times
    BY <1>1, <2>1, LoginShapes
  <2>3. server \in Configs \union {Down} /\ now \in Times
    BY DEF Sessions, TypeOK
  <2>4. QED
    BY <1>1, <2>1, <2>2, <2>3, TimesTypes, HeldTypes DEF Reading
<1>3. /\ server.TokenTTL \in Nat /\ server.Timeout["WRITE_TIMEOUT"] \in Nat
      /\ server.JWTSecret \in Secrets /\ server.AppName \in Names
  BY <1>2, LoadedTypes
<1>4. Expiry(state.since) = ((now + server.TokenTTL) \div Second) * Second
      /\ Expiry(state.since) \in Nat
  BY <1>2, <1>3, WholeSeconds DEF Expiry
<1>5. token \in Token
  BY <1>2, <1>3, <1>4 DEF Token
<1>6. Issued(token)
  <2>1. token.expires = ((token.issued + token.cfg.TokenTTL) \div Second) * Second
    BY <1>4
  <2>2. now <= held[state.role] + server.Timeout["WRITE_TIMEOUT"]
    BY <1>1, <1>2, <1>3
  <2>3. QED
    BY <1>2, <2>1, <2>2 DEF Issued
<1> HIDE DEF token
<1>7. QED
  BY <1>1, <1>5, <1>6, AnswerSessions

LEMMA LoginFailsSessions ==
  ASSUME Sessions, NEW c \in Callers, LoginFails(c),
         UNCHANGED <<storage, tab, seen, logins>>
  PROVE  Sessions'
BY AnswerSessions DEF LoginFails

(* Time passes: an active account has its role still. *)
LEMMA TickSessions ==
  ASSUME Sessions, Tick, UNCHANGED <<storage, tab, seen, logins>>
  PROVE  Sessions'
<1>1. /\ now \in Times /\ now < LastTime /\ now' = now + 1 /\ server' = server
      /\ account' = account /\ login' = login /\ trouble' = trouble
      /\ storage' = storage /\ tab' = tab /\ seen' = seen /\ logins' = logins
      /\ account.role \in Roles /\ account.active \in BOOLEAN
      /\ held \in [Roles -> Times \union {Never}]
      /\ held' = IF account.active THEN [held EXCEPT ![account.role] = now + 1] ELSE held
  BY DEF Tick, Sessions, TypeOK
<1>2. /\ now + 1 \in Times /\ now + 1 \in Nat /\ now \in Nat /\ now + 1 # Never
      /\ Never \in Nat
  BY <1>1, AccessAssumption DEF Times, Never
<1>3. held' \in [Roles -> Times \union {Never}]
  BY <1>1, <1>2
<1>4. /\ \A role \in Roles : held[role] \in Nat /\ (held[role] # Never => held[role] <= now)
      /\ account.active => held[account.role] = now
  BY HeldTypes DEF Sessions, Holding
<1>5. \A role \in Roles :
        \/ held'[role] = held[role]
        \/ account.active /\ role = account.role /\ held'[role] = now + 1
  BY <1>1
<1>6. account.active => held'[account.role] = now + 1
  BY <1>1
<1>7. \A role \in Roles : held[role] # Never => held'[role] # Never /\ held[role] <= held'[role]
  BY <1>2, <1>4, <1>5
<1>8. Holding'
  <2>1. \A role \in Roles : held'[role] # Never => held'[role] <= now'
    BY <1>1, <1>2, <1>4, <1>5
  <2>2. QED
    BY <1>1, <1>6, <2>1 DEF Holding, Never
<1>9. \A c \in Callers : Reading(login[c])'
  BY <1>1, <1>3, <1>7, TimesTypes, ReadingKept
<1>10. Tokens' = Tokens
  BY <1>1 DEF Tokens
<1>11. QED
  BY <1>1, <1>2, <1>3, <1>7, <1>8, <1>9, <1>10, SessionsFollow DEF Sessions, TypeOK

(* Whatever SQL does to the account, what it had stays on record. *)
LEMMA ChangeAccountSessions ==
  ASSUME Sessions, ChangeAccount, UNCHANGED <<storage, tab, seen, logins>>
  PROVE  Sessions'
<1>1. /\ now \in Times /\ now' = now /\ server' = server
      /\ account' \in [role : Roles, active : BOOLEAN]
      /\ login' = login /\ trouble < MaxTrouble /\ trouble' = trouble + 1
      /\ trouble \in 0..MaxTrouble
      /\ storage' = storage /\ tab' = tab /\ seen' = seen /\ logins' = logins
      /\ held \in [Roles -> Times \union {Never}]
      /\ held' = IF account'.active THEN [held EXCEPT ![account'.role] = now] ELSE held
  BY DEF ChangeAccount, Sessions, TypeOK
<1>2. account'.role \in Roles /\ trouble' \in 0..MaxTrouble
  BY <1>1, AccessAssumption
<1>3. held' \in [Roles -> Times \union {Never}]
  BY <1>1, <1>2
<1>4. /\ \A role \in Roles : held[role] \in Nat /\ (held[role] # Never => held[role] <= now)
      /\ now \in Nat /\ now # Never
  BY <1>1, TimesTypes, HeldTypes DEF Sessions, Holding
<1>5. \A role \in Roles : held'[role] = held[role] \/ held'[role] = now
  BY <1>1, <1>2
<1>6. account'.active => held'[account'.role] = now
  BY <1>1, <1>2
<1>7. \A role \in Roles : held[role] # Never => held'[role] # Never /\ held[role] <= held'[role]
  BY <1>4, <1>5
<1>8. Holding'
  <2>1. \A role \in Roles : held'[role] # Never => held'[role] <= now'
    BY <1>1, <1>4, <1>5
  <2>2. QED
    BY <1>1, <1>6, <2>1 DEF Holding, Never
<1>9. \A c \in Callers : Reading(login[c])'
  BY <1>1, <1>3, <1>7, TimesTypes, ReadingKept
<1>10. Tokens' = Tokens
  BY <1>1 DEF Tokens
<1>11. QED
  BY <1>1, <1>2, <1>3, <1>7, <1>8, <1>9, <1>10, SessionsFollow DEF Sessions, TypeOK

(* With the process its logins under way end. *)
LEMMA StopSessions ==
  ASSUME Sessions, Stop, UNCHANGED <<storage, tab, seen, logins>>
  PROVE  Sessions'
<1>1. /\ now' = now /\ server' = Down /\ account' = account /\ held' = held
      /\ login' = [c \in Callers |-> IF login[c].at = "read" THEN Answered(None) ELSE login[c]]
      /\ trouble < MaxTrouble /\ trouble' = trouble + 1 /\ trouble \in 0..MaxTrouble
      /\ storage' = storage /\ tab' = tab /\ seen' = seen /\ logins' = logins
      /\ login \in [Callers -> LoginState]
  BY DEF Stop, Sessions, TypeOK
<1>2. /\ Answered(None) \in LoginState /\ Answered(None).at = "answered"
      /\ Answered(None).token = None
  BY NewLogins
<1>3. /\ login' \in [Callers -> LoginState]
      /\ \A c \in Callers : \/ login'[c] = login[c] /\ login[c].at # "read"
                            \/ login'[c] = Answered(None) /\ login[c].at = "read"
  BY <1>1, <1>2
<1>4. \A c \in Callers : Reading(login[c])'
  BY <1>2, <1>3 DEF Reading
<1>5. \A t \in Tabs : tab'[t] # "loading" <=> login'[t].at = "none"
  BY <1>1, <1>2, <1>3 DEF Sessions, TypeOK, Tabs
<1>6. \A token \in Token : token \in Tokens' => token \in Tokens
  BY <1>1, <1>2, <1>3, WhereTokens DEF Tokens
<1>7. \A role \in Roles : held[role] # Never => held'[role] # Never /\ held[role] <= held'[role]
  BY <1>1, HeldTypes
<1>8. Holding'
  BY <1>1 DEF Sessions, Holding
<1>9. trouble' \in 0..MaxTrouble
  BY <1>1, AccessAssumption
<1>10. QED
  BY <1>1, <1>3, <1>4, <1>5, <1>6, <1>7, <1>8, <1>9, SessionsFollow DEF Sessions, TypeOK

LEMMA StartSessions ==
  ASSUME Sessions, Start, UNCHANGED <<storage, tab, seen, logins>>
  PROVE  Sessions'
<1>1. /\ now' = now /\ server = Down /\ server' \in Configs /\ account' = account
      /\ login' = login /\ trouble' = trouble /\ held' = held
      /\ storage' = storage /\ tab' = tab /\ seen' = seen /\ logins' = logins
  BY DEF Start
<1>2. \A c \in Callers : Reading(login[c])'
  BY <1>1 DEF Sessions, Reading
<1>3. Tokens' = Tokens
  BY <1>1 DEF Tokens
<1>4. \A role \in Roles : held[role] # Never => held'[role] # Never /\ held[role] <= held'[role]
  BY <1>1, HeldTypes
<1>5. Holding'
  BY <1>1 DEF Sessions, Holding
<1>6. QED
  BY <1>1, <1>2, <1>3, <1>4, <1>5, SessionsFollow DEF Sessions, TypeOK

(* A tab logs in, when it is opened or on demand: it knows no session.     *)
LEMMA AuthenticateSessions ==
  ASSUME Sessions, NEW t \in Tabs, Authenticate(t), storage' \in {storage, None},
         UNCHANGED <<now, server, account, trouble, held>>
  PROVE  Sessions'
<1> DEFINE sent == [at |-> "sent"]
<1>1. /\ now' = now /\ server' = server /\ account' = account
      /\ trouble' = trouble /\ held' = held /\ t \in Callers
      /\ logins < MaxLogins /\ logins' = logins + 1 /\ logins \in 0..MaxLogins
      /\ tab' = [tab EXCEPT ![t] = "loading"] /\ seen' = [seen EXCEPT ![t] = None]
      /\ login' = [login EXCEPT ![t] = sent]
      /\ tab \in [Tabs -> {"closed", "loading", "shown"}]
      /\ seen \in [Tabs -> Token \union {None}] /\ storage' \in Token \union {None}
      /\ login \in [Callers -> LoginState]
  BY DEF Authenticate, Send, Sessions, TypeOK, Tabs
<1>2. sent \in LoginState /\ sent.at = "sent"
  BY NewLogins
<1> HIDE DEF sent
<1>3. /\ login'[t] = sent /\ login' \in [Callers -> LoginState]
      /\ \A d \in Callers : d # t => login'[d] = login[d]
  BY <1>1, <1>2
<1>4. /\ tab' \in [Tabs -> {"closed", "loading", "shown"}] /\ tab'[t] = "loading"
      /\ seen' \in [Tabs -> Token \union {None}] /\ seen'[t] = None
      /\ \A u \in Tabs : u # t => tab'[u] = tab[u] /\ seen'[u] = seen[u]
  BY <1>1
<1>5. \A d \in Callers : Reading(login[d])'
  BY <1>1, <1>2, <1>3 DEF Sessions, Reading
<1>6. \A u \in Tabs : tab'[u] # "loading" <=> login'[u].at = "none"
  BY <1>2, <1>3, <1>4 DEF Sessions, TypeOK, Tabs
<1>7. \A token \in Token : token \in Tokens' => token \in Tokens
  BY <1>2, <1>3, <1>4, WhereTokens DEF Tokens
<1>8. \A role \in Roles : held[role] # Never => held'[role] # Never /\ held[role] <= held'[role]
  BY <1>1, HeldTypes
<1>9. Holding'
  BY <1>1 DEF Sessions, Holding
<1>10. logins' \in 0..MaxLogins
  BY <1>1, LoginsAssumption
<1>11. QED
  BY <1>1, <1>3, <1>4, <1>5, <1>6, <1>7, <1>8, <1>9, <1>10, SessionsFollow DEF Sessions, TypeOK

(* saveSession: what is stored and shown came with the answer, or was      *)
(* stored before. *)
LEMMA AuthenticatedSessions ==
  ASSUME Sessions, NEW t \in Tabs, Authenticated(t)
  PROVE  Sessions'
<1> DEFINE none == [at |-> "none"]
<1>1. /\ now' = now /\ server' = server /\ account' = account
      /\ trouble' = trouble /\ held' = held /\ logins' = logins /\ t \in Callers
      /\ login[t].at = "answered"
      /\ storage' = IF login[t].token = None THEN storage ELSE login[t].token
      /\ tab' = [tab EXCEPT ![t] = "shown"] /\ seen' = [seen EXCEPT ![t] = storage']
      /\ login' = [login EXCEPT ![t] = none]
      /\ tab \in [Tabs -> {"closed", "loading", "shown"}]
      /\ seen \in [Tabs -> Token \union {None}] /\ storage \in Token \union {None}
      /\ login \in [Callers -> LoginState]
  BY DEF Authenticated, Sessions, TypeOK, Tabs
<1>2. none \in LoginState /\ none.at = "none"
  BY NewLogins
<1> HIDE DEF none
<1>3. /\ login'[t] = none /\ login' \in [Callers -> LoginState]
      /\ \A d \in Callers : d # t => login'[d] = login[d]
  BY <1>1, <1>2
<1>4. /\ storage' \in Token \union {None}
      /\ storage' # None => storage' \in Tokens
  <2>1. login[t].token \in Token \union {None}
    BY <1>1, LoginShapes
  <2>2. CASE login[t].token = None
    BY <1>1, <2>2, WhereTokens
  <2>3. CASE login[t].token # None
    BY <1>1, <2>1, <2>3, WhereTokens
  <2>4. QED
    BY <2>2, <2>3
<1>5. /\ tab' \in [Tabs -> {"closed", "loading", "shown"}] /\ tab'[t] = "shown"
      /\ seen' \in [Tabs -> Token \union {None}] /\ seen'[t] = storage'
      /\ \A u \in Tabs : u # t => tab'[u] = tab[u] /\ seen'[u] = seen[u]
  BY <1>1, <1>4
<1>6. \A d \in Callers : Reading(login[d])'
  BY <1>1, <1>2, <1>3 DEF Sessions, Reading
<1>7. \A u \in Tabs : tab'[u] # "loading" <=> login'[u].at = "none"
  BY <1>2, <1>3, <1>5 DEF Sessions, TypeOK, Tabs
<1>8. \A token \in Token : token \in Tokens' => token \in Tokens
  BY <1>2, <1>3, <1>4, <1>5, WhereTokens DEF Tokens
<1>9. \A role \in Roles : held[role] # Never => held'[role] # Never /\ held[role] <= held'[role]
  BY <1>1, HeldTypes
<1>10. Holding'
  BY <1>1 DEF Sessions, Holding
<1>11. QED
  BY <1>1, <1>3, <1>4, <1>5, <1>6, <1>7, <1>8, <1>9, <1>10, SessionsFollow
     DEF Sessions, TypeOK

LEMMA RenderSessions ==
  ASSUME Sessions, NEW t \in Tabs, Render(t)
  PROVE  Sessions'
<1>1. /\ now' = now /\ server' = server /\ account' = account /\ login' = login
      /\ trouble' = trouble /\ held' = held /\ logins' = logins
      /\ storage' = storage /\ tab' = tab /\ seen' = [seen EXCEPT ![t] = storage]
      /\ seen \in [Tabs -> Token \union {None}] /\ storage \in Token \union {None}
  BY DEF Render, Sessions, accessVars
<1>2. /\ seen' \in [Tabs -> Token \union {None}]
      /\ \A u \in Tabs : seen'[u] \in {storage, seen[u]}
  BY <1>1
<1>3. \A c \in Callers : Reading(login[c])'
  BY <1>1 DEF Sessions, Reading
<1>4. \A token \in Token : token \in Tokens' => token \in Tokens
  BY <1>1, <1>2, WhereTokens DEF Tokens
<1>5. \A role \in Roles : held[role] # Never => held'[role] # Never /\ held[role] <= held'[role]
  BY <1>1, HeldTypes
<1>6. Holding'
  BY <1>1 DEF Sessions, Holding
<1>7. QED
  BY <1>1, <1>2, <1>3, <1>4, <1>5, <1>6, SessionsFollow DEF Sessions, TypeOK

LEMMA QuietSessions == Sessions /\ UNCHANGED vars => Sessions'
BY DEF Sessions, TypeOK, Holding, Reading, Issued, Tokens, vars, accessVars

-----------------------------------------------------------------------------
(* Sessions holds always.                                                  *)

LEMMA NextSessions == Sessions /\ [Next]_vars => Sessions'
<1> SUFFICES ASSUME Sessions, [Next]_vars PROVE Sessions'
  OBVIOUS
<1>1. ASSUME NEW t \in Tabs, Open(t) \/ Logout(t) PROVE Sessions'
  <2>1. Authenticate(t) /\ storage' \in {storage, None}
        /\ UNCHANGED <<now, server, account, trouble, held>>
    BY <1>1 DEF Open, Logout
  <2>2. QED
    BY <2>1, AuthenticateSessions
<1>2. ASSUME NEW t \in Tabs, Authenticated(t) \/ Render(t) PROVE Sessions'
  BY <1>2, AuthenticatedSessions, RenderSessions
<1>3. ASSUME NEW c \in Callers, Serve(c), UNCHANGED <<storage, tab, seen, logins>>
      PROVE  Sessions'
  BY <1>3, ReadAccountSessions, SignSessions, LoginFailsSessions DEF Serve
<1>4. CASE /\ Tick \/ ChangeAccount \/ Stop \/ Start
           /\ UNCHANGED <<storage, tab, seen, logins>>
  BY <1>4, TickSessions, ChangeAccountSessions, StopSessions, StartSessions
<1>5. CASE Quiet \/ UNCHANGED vars
  BY <1>5, QuietSessions DEF Quiet
<1>6. QED
  BY <1>1, <1>2, <1>3, <1>4, <1>5 DEF Next

LEMMA AlwaysSessions == Spec => []Sessions
<1>1. BrowserInit => Sessions
  BY InitSessions
<1>2. Sessions /\ [Next]_vars => Sessions'
  BY NextSessions
<1>3. QED
  BY <1>1, <1>2, PTL DEF Spec

-----------------------------------------------------------------------------
(* The theorems.                                                           *)

(* Type correctness, and that a tab waits for a login exactly while it     *)
(* shows nothing. *)
THEOREM TypeCorrect == Spec => []TypeOK
<1>1. Sessions => TypeOK
  BY DEF Sessions
<1>2. QED
  BY <1>1, AlwaysSessions, PTL

(* A request is granted to nothing but a token that is valid and whose     *)
(* role is enough. *)
LEMMA GrantedMeans ==
  ASSUME NEW token \in Token, NEW need \in Needs, Reply(token, need) = "granted"
  PROVE  server # Down /\ Valid(token) /\ Allows(token.role, need)
<1> DEFINE answer == IF ~Valid(token) THEN "invalid"
                     ELSE IF Allows(token.role, need) THEN "granted" ELSE "forbidden"
<1>1. server # Down /\ token # None
  BY Zenon DEF Reply
<1>2. Reply(token, need) = answer
  BY <1>1 DEF Reply
<1>3. QED
  BY <1>1, <1>2

LEMMA InvalidMeans ==
  ASSUME NEW token \in Token, NEW need \in Needs, Reply(token, need) = "invalid"
  PROVE  ~Valid(token)
<1> SUFFICES ASSUME Valid(token) PROVE FALSE
  OBVIOUS
<1> DEFINE answer == IF Allows(token.role, need) THEN "granted" ELSE "forbidden"
<1>1. server # Down /\ token # None
  BY Zenon DEF Reply
<1>2. Reply(token, need) = answer
  BY <1>1 DEF Reply
<1>3. QED
  BY <1>2

(* A page with a session gets no answer but these, without a middleware's  *)
(* verdict about the role. *)
LEMMA OfferedReplies ==
  ASSUME NEW token, token # None
  PROVE  /\ server = Down => Reply(token, "operator") = "unavailable"
         /\ server # Down /\ ~Valid(token) => Reply(token, "operator") = "invalid"
<1>1. CASE server = Down
  BY <1>1 DEF Reply
<1>2. CASE server # Down
  BY <1>2 DEF Reply
<1>3. QED
  BY <1>1, <1>2

(* The page's canWrite asks for no less than the operator's rank.          *)
LEMMA WritersRank ==
  ASSUME NEW role, canWrite(role)
  PROVE  Allows(role, "operator")
<1>1. role \in {"operator", "reviewer", "admin"}
  BY DEF canWrite
<1>2. roleRank[role] >= roleRank["operator"]
  BY <1>1 DEF roleRank
<1>3. QED
  BY <1>2 DEF Allows

(* No token grants what its account was not entitled to within the token's *)
(* lifetime and the time of a login, for any number of tabs, changes of    *)
(* the account and restarts (GrantsBacked). *)
THEOREM AlwaysGrantsBacked == Spec => []GrantsBacked
<1>1. ASSUME Sessions PROVE GrantsBacked
  <2> SUFFICES ASSUME NEW token \in Tokens, NEW need \in Needs,
                      Reply(token, need) = "granted"
               PROVE  \E role \in Roles :
                        /\ Allows(role, need) /\ held[role] # Never
                        /\ now < held[role] + token.cfg.TokenTTL
                                   + token.cfg.Timeout["WRITE_TIMEOUT"]
    BY DEF GrantsBacked, Backed
  <2>1. /\ token \in Token /\ Issued(token) /\ token.role \in Roles
        /\ token.cfg \in Configs /\ token.issued \in Nat /\ token.expires \in Nat
    BY <1>1, TimesTypes DEF Sessions, TypeOK, Token
  <2>2. Allows(token.role, need) /\ now < token.expires
    BY <2>1, GrantedMeans DEF Valid
  <2>3. /\ token.cfg.TokenTTL \in Nat /\ token.cfg.Timeout["WRITE_TIMEOUT"] \in Nat
        /\ held[token.role] \in Nat /\ now \in Nat
    BY <1>1, <2>1, LoadedTypes, HeldTypes
  <2>4. token.expires <= token.issued + token.cfg.TokenTTL
    BY <2>1, <2>3, WholeSeconds DEF Issued
  <2>5. /\ held[token.role] # Never
        /\ token.issued <= held[token.role] + token.cfg.Timeout["WRITE_TIMEOUT"]
    BY <2>1 DEF Issued
  <2>6. now < held[token.role] + token.cfg.TokenTTL + token.cfg.Timeout["WRITE_TIMEOUT"]
    BY <2>1, <2>2, <2>3, <2>4, <2>5
  <2>7. QED
    BY <2>1, <2>2, <2>5, <2>6
<1>2. QED
  BY <1>1, AlwaysSessions, PTL

(* Every token lasts as long as it was issued for, to the second, unless   *)
(* the process has another secret or name now (TokensLast). *)
THEOREM AlwaysTokensLast == Spec => []TokensLast
<1>1. ASSUME Sessions PROVE TokensLast
  <2> SUFFICES ASSUME NEW token \in Tokens, Reply(token, "any") = "invalid",
                      server.JWTSecret = token.secret, server.AppName = token.issuer
               PROVE  now > token.issued + token.cfg.TokenTTL - Second
    BY DEF TokensLast, Lasting
  <2>1. /\ token \in Token /\ Issued(token) /\ token.cfg \in Configs
        /\ token.issued \in Nat /\ token.expires \in Nat
    BY <1>1, TimesTypes DEF Sessions, TypeOK, Token
  <2>2. token.cfg.TokenTTL \in Nat /\ now \in Nat /\ Second \in Nat
    BY <1>1, <2>1, LoadedTypes, HeldTypes, AccessAssumption
  <2>3. ~Valid(token)
    <3>1. "any" \in Needs
      BY DEF Needs
    <3>2. QED
      BY <2>1, <3>1, InvalidMeans
  <2>4. now >= token.expires
    BY <2>1, <2>2, <2>3 DEF Valid
  <2> DEFINE end == token.issued + token.cfg.TokenTTL
  <2>5. end \in Nat /\ token.expires = (end \div Second) * Second
    BY <2>1, <2>2 DEF Issued
  <2> HIDE DEF end
  <2>6. token.expires > end - Second
    BY <2>5, WholeSeconds
  <2>7. now > end - Second
    BY <2>1, <2>2, <2>4, <2>5, <2>6
  <2>8. QED
    BY <2>1, <2>2, <2>7 DEF end
<1>2. QED
  BY <1>1, AlwaysSessions, PTL

(* What a page offers the server permits: whoever may write in the page    *)
(* has at least the operator's rank, and the page goes by the session that *)
(* is stored (OffersPermitted). *)
THEOREM AlwaysOffersPermitted == Spec => []OffersPermitted
<1>1. ASSUME Sessions PROVE OffersPermitted
  <2> SUFFICES ASSUME NEW t \in Tabs, OffersWrites(t), storage = seen[t],
                      server # Down, Valid(storage)
               PROVE  Reply(storage, "operator") = "granted"
    <3>1. ASSUME NEW t \in Tabs, OffersWrites(t), storage = seen[t]
          PROVE  Reply(storage, "operator") \in {"granted", "unavailable", "invalid"}
      <4>1. storage # None
        BY <3>1 DEF OffersWrites
      <4>2. CASE server = Down
        BY <4>1, <4>2, OfferedReplies
      <4>3. CASE server # Down /\ ~Valid(storage)
        BY <4>1, <4>3, OfferedReplies
      <4>4. CASE server # Down /\ Valid(storage)
        BY <3>1, <4>4
      <4>5. QED
        BY <4>2, <4>3, <4>4
    <3>2. QED
      BY <3>1 DEF OffersPermitted
  <2>1. storage # None /\ canWrite(storage.role)
    BY DEF OffersWrites
  <2>2. Allows(storage.role, "operator")
    BY <2>1, WritersRank
  <2>3. QED
    BY <2>1, <2>2, Zenon DEF Reply
<1>2. QED
  BY <1>1, AlwaysSessions, PTL
==============================================================================
