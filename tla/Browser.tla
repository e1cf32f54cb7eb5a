------------------------------- MODULE Browser -------------------------------
(***************************************************************************)
(* The workbench's session (api/client.ts, hooks/useAuth.ts, App.tsx,      *)
(* router/RequireAuth.tsx) in the tabs of one browser, above Access.       *)
(* Every tab logs in by itself when it is opened or reloaded, as the same  *)
(* account, and stores the answer where all tabs find it; a page decides   *)
(* what it offers when it is rendered, and a request takes the token that  *)
(* is stored when it is sent.                                              *)
(***************************************************************************)
EXTENDS Access

CONSTANT MaxLogins \* bound: logins of all tabs together

ASSUME LoginsAssumption == MaxLogins \in Nat

Tabs == Callers

VARIABLES
  storage, \* the session in localStorage
  tab,     \* whether each tab shows a page
  seen,    \* the session it was last rendered with
  logins   \* logins so far

vars == <<accessVars, storage, tab, seen, logins>>

BrowserInit ==
  /\ Init
  /\ storage = None
  /\ tab = [t \in Tabs |-> "closed"] /\ seen = [t \in Tabs |-> None]
  /\ logins = 0

-----------------------------------------------------------------------------

(* authenticate: until it is answered nothing but a notice is shown. *)
Authenticate(t) ==
  /\ logins < MaxLogins /\ logins' = logins + 1
  /\ tab' = [tab EXCEPT ![t] = "loading"] /\ seen' = [seen EXCEPT ![t] = None]
  /\ Send(t)

Open(t) ==
  /\ tab[t] # "loading"
  /\ Authenticate(t)
  /\ UNCHANGED <<now, server, account, trouble, held, storage>>

(* The button "重新登录". *)
Logout(t) ==
  /\ tab[t] = "shown"
  /\ storage' = None
  /\ Authenticate(t)
  /\ UNCHANGED <<now, server, account, trouble, held>>

(* Mutant: a failed login is not handled: the notice stays. *)
AuthenticatedUnlessFailed(t) ==
  /\ tab[t] = "loading" /\ login[t].at = "answered"
  /\ IF login[t].token = None THEN UNCHANGED <<storage, tab, seen>>
     ELSE /\ storage' = login[t].token
          /\ tab' = [tab EXCEPT ![t] = "shown"] /\ seen' = [seen EXCEPT ![t] = storage']
  /\ login' = [login EXCEPT ![t] = [at |-> "none"]]
  /\ UNCHANGED <<now, server, account, trouble, held, logins>>

(* saveSession; a failed login leaves the session that is stored, if any.  *)
Authenticated(t) ==
  /\ tab[t] = "loading" /\ login[t].at = "answered"
  /\ storage' = IF login[t].token = None THEN storage ELSE login[t].token
  /\ login' = [login EXCEPT ![t] = [at |-> "none"]]
  /\ tab' = [tab EXCEPT ![t] = "shown"] /\ seen' = [seen EXCEPT ![t] = storage']
  /\ UNCHANGED <<now, server, account, trouble, held, logins>>

(* A page is rendered again, with what is stored then. *)
Render(t) ==
  /\ tab[t] = "shown" /\ seen[t] # storage
  /\ seen' = [seen EXCEPT ![t] = storage]
  /\ UNCHANGED <<accessVars, storage, tab, logins>>

(* Mutant: one role more may write in the page than on the server. *)
canWriteAny(role) == role \in {"viewer", "operator", "reviewer", "admin"}

canWrite(role) == role \in {"operator", "reviewer", "admin"}

(* RequireAuth shows a page with its buttons only to a session. *)
OffersWrites(t) == tab[t] = "shown" /\ seen[t] # None /\ canWrite(seen[t].role)

(* Nobody does anything, or the bounds are reached. *)
Quiet == (\A t \in Tabs : tab[t] # "loading") /\ UNCHANGED vars

Serve(c) == ReadAccount(c) \/ Sign(c) \/ LoginFails(c)

Next ==
  \/ \E t \in Tabs : Open(t) \/ Logout(t) \/ Authenticated(t) \/ Render(t)
  \/ /\ \/ \E c \in Callers : Serve(c)
        \/ Tick \/ ChangeAccount \/ Stop \/ Start
     /\ UNCHANGED <<storage, tab, seen, logins>>
  \/ Quiet

Spec == BrowserInit /\ [][Next]_vars

-----------------------------------------------------------------------------
(* Properties.                                                             *)

Tokens ==
  ({storage} \union {seen[t] : t \in Tabs}
     \union {login[c].token : c \in {d \in Callers : login[d].at = "answered"}}) \ {None}

TypeOK ==
  /\ now \in Times
  /\ server \in Configs \union {Down}
  /\ account \in [role : Roles, active : BOOLEAN]
  /\ trouble \in 0..MaxTrouble
  /\ held \in [Roles -> Times \union {Never}]
  /\ tab \in [Tabs -> {"closed", "loading", "shown"}]
  /\ Tokens \subseteq Token /\ logins \in 0..MaxLogins
  /\ \A t \in Tabs : tab[t] # "loading" <=> login[t].at = "none"

(* No token in the browser grants what its account was not entitled to
   within the token's lifetime and the time of a login. *)
GrantsBacked == \A token \in Tokens : Backed(token)

(* Every token in the browser lasts as long as it was issued for. *)
TokensLast == \A token \in Tokens : Lasting(token)

(* "后端写路由中间件、前端路由守卫和按钮权限保持一致" (README.md:34): what a page
   offers the server permits, as long as it answers and knows the token,
   unless another tab logged in or out since the page was rendered. *)
OffersPermitted ==
  \A t \in Tabs :
    OffersWrites(t) =>
      \/ Reply(storage, "operator") \in {"granted", "unavailable", "invalid"}
      \/ storage # seen[t]
-----------------------------------------------------------------------------
(* The inductive invariant of the proofs.                                  *)

LoginState == [at : {"none", "sent"}] \union [at : {"read"}, role : Roles, since : Times]
                 \union [at : {"answered"}, token : Token \union {None}]

(* When the account last was what it is now or was before. *)
Holding ==
  /\ \A role \in Roles : held[role] # Never => held[role] <= now
  /\ account.active => held[account.role] = now

(* A login under way has read a role the account had then, and the process *)
(* that read it still runs. *)
Reading(state) ==
  state.at = "read" =>
    /\ server # Down
    /\ held[state.role] # Never /\ state.since <= held[state.role]

(* A token carries what the server that signed it gave it, and the role    *)
(* the account had when the login read it. *)
Issued(token) ==
  /\ token.expires = ((token.issued + token.cfg.TokenTTL) \div Second) * Second
  /\ held[token.role] # Never
  /\ token.issued <= held[token.role] + token.cfg.Timeout["WRITE_TIMEOUT"]

Sessions ==
  /\ TypeOK /\ Holding
  /\ login \in [Callers -> LoginState] /\ \A c \in Callers : Reading(login[c])
  /\ seen \in [Tabs -> Token \union {None}] /\ storage \in Token \union {None}
  /\ \A token \in Tokens : Issued(token)
=============================================================================
