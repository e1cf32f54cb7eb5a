-------------------------------- MODULE Access --------------------------------
(***************************************************************************)
(* Who may do what (service/security.go Login, middleware/auth.go, the     *)
(* routes' requirements), for one account: a login reads the account, then *)
(* compares the password, then signs a token that carries the role it      *)
(* read; from then on only the token is looked at.  The account is changed *)
(* behind the program's back, by SQL; the process is restarted, perhaps    *)
(* with another environment; and the clock goes on between any two steps.  *)
(***************************************************************************)
EXTENDS Config

CONSTANTS
  Callers,      \* whoever logs in, one login at a time each
  Environments, \* the environments the process may be started in
  None,         \* no token
  Down,         \* no process
  Second,       \* ticks of the clock in a second
  LastTime,     \* bound: the clock stops here
  MaxTrouble    \* bound: changes of the account and stops of the process

ASSUME AccessAssumption ==
  /\ Second \in Nat \ {0}
  /\ LastTime \in Nat /\ MaxTrouble \in Nat
  /\ \A e \in Environments : /\ e.APP_NAME \in Names \union {Blank}
                             /\ e.JWT_SECRET \in Secrets \union {Blank}

VARIABLES
  now,
  server,  \* the configuration of the running process
  account, \* its role, and whether it is active
  login,   \* where each caller's login is
  trouble,
  held     \* history: when the account last was active with each role

accessVars == <<now, server, account, login, trouble, held>>

roleRank == [viewer |-> 1, operator |-> 2, reviewer |-> 3, admin |-> 4]
Roles == DOMAIN roleRank
Times == 0..LastTime
Never == LastTime + 1

Configs == {Load(e) : e \in Environments}
Token == [role : Roles, expires : Nat, secret : Secrets, issuer : Names,
          issued : Times, cfg : Configs]
Answered(token) == [at |-> "answered", token |-> token]

(* The account is the one the frontend logs in as, as Seed stored it.      *)
Init ==
  /\ now = 0
  /\ server \in {cfg \in Configs : Validate(cfg)}
  /\ account = [role |-> "admin", active |-> TRUE]
  /\ login = [c \in Callers |-> [at |-> "none"]]
  /\ trouble = 0
  /\ held = [role \in Roles |-> IF role = account.role THEN 0 ELSE Never]

-----------------------------------------------------------------------------
(* Login.                                                                  *)

Send(c) == login' = [login EXCEPT ![c] = [at |-> "sent"]]

(* FindUserByUsername finds active accounts only. *)
ReadAccount(c) ==
  /\ login[c].at = "sent" /\ server # Down
  /\ login' = [login EXCEPT ![c] =
       IF account.active THEN [at |-> "read", role |-> account.role, since |-> now]
                         ELSE Answered(None)]
  /\ UNCHANGED <<now, server, account, trouble, held>>

(* Mutant: exp counts from when the account was read. *)
ExpiryFromRead(since) == ((since + server.TokenTTL) \div Second) * Second

(* exp is in whole seconds. *)
Expiry(since) == ((now + server.TokenTTL) \div Second) * Second

(* After the comparison of the password.  An answer that comes later than  *)
(* WRITE_TIMEOUT after the request is not delivered. *)
Sign(c) ==
  /\ login[c].at = "read"
  /\ now - login[c].since <= server.Timeout["WRITE_TIMEOUT"]
  /\ login' = [login EXCEPT ![c] = Answered(
       [role |-> login[c].role, expires |-> Expiry(login[c].since),
        secret |-> server.JWTSecret, issuer |-> server.AppName,
        issued |-> now, cfg |-> server])]
  /\ UNCHANGED <<now, server, account, trouble, held>>

(* A wrong password, a failing database or network, or no process. *)
LoginFails(c) ==
  /\ login[c].at \in {"sent", "read"}
  /\ login' = [login EXCEPT ![c] = Answered(None)]
  /\ UNCHANGED <<now, server, account, trouble, held>>

-----------------------------------------------------------------------------
(* What the middlewares answer to a request with a token.                  *)

Needs == {"any", "operator", "reviewer", "admin"}

(* RequireMinimumRole, and RequireRoles("admin") for removals. *)
Allows(role, need) ==
  CASE need = "any" -> TRUE
    [] need = "admin" -> role = "admin"
    [] OTHER -> roleRank[role] >= roleRank[need]

(* Mutant: the token's end is not looked at. *)
ValidForever(token) ==
  token.secret = server.JWTSecret /\ token.issuer = server.AppName

(* Authenticate. *)
Valid(token) ==
  /\ token.secret = server.JWTSecret /\ token.issuer = server.AppName
  /\ now < token.expires

Reply(token, need) ==
  CASE server = Down -> "unavailable"
    [] server # Down /\ token = None -> "missing"
    [] server # Down /\ token # None ->
         IF ~Valid(token) THEN "invalid"
         ELSE IF Allows(token.role, need) THEN "granted" ELSE "forbidden"

-----------------------------------------------------------------------------
(* Time, the account and the process.                                      *)

Tick ==
  /\ now < LastTime
  /\ now' = now + 1
  /\ held' = IF account.active THEN [held EXCEPT ![account.role] = now + 1] ELSE held
  /\ UNCHANGED <<server, account, login, trouble>>

ChangeAccount ==
  /\ trouble < MaxTrouble /\ trouble' = trouble + 1
  /\ account' \in [role : Roles, active : BOOLEAN] \ {account}
  /\ held' = IF account'.active THEN [held EXCEPT ![account'.role] = now] ELSE held
  /\ UNCHANGED <<now, server, login>>

Stop ==
  /\ server # Down
  /\ trouble < MaxTrouble /\ trouble' = trouble + 1
  /\ server' = Down
  /\ login' = [c \in Callers |-> IF login[c].at = "read" THEN Answered(None) ELSE login[c]]
  /\ UNCHANGED <<now, account, held>>

(* main exits at once when the environment is not valid. *)
Start ==
  /\ server = Down
  /\ server' \in {cfg \in Configs : Validate(cfg)}
  /\ UNCHANGED <<now, account, login, trouble, held>>

-----------------------------------------------------------------------------
(* Properties of a token, whoever has it.                                  *)

(* A token grants nothing that its account was not entitled to within the
   token's lifetime and the time a login may take: role and account are
   taken from the token alone (middleware/auth.go:46), whatever happened to
   the account meanwhile, or between the two steps of the login. *)
Backed(token) ==
  \A need \in Needs :
    Reply(token, need) = "granted" =>
      \E role \in Roles :
        /\ Allows(role, need) /\ held[role] # Never
        /\ now < held[role] + token.cfg.TokenTTL + token.cfg.Timeout["WRITE_TIMEOUT"]

(* And it is honoured for its lifetime, to the second, unless the process
   was restarted with another secret or name. *)
Lasting(token) ==
  Reply(token, "any") = "invalid" =>
    \/ now > token.issued + token.cfg.TokenTTL - Second
    \/ server.JWTSecret # token.secret \/ server.AppName # token.issuer
=============================================================================
