----------------------------- MODULE Accounts -----------------------------
(***************************************************************************)
(* The accounts and what the authentication endpoints answer about them    *)
(* (auth_service.py, endpoints/auth.py, core/security.py, deps.py).  Each  *)
(* handler decides in one statement, so it is one action, or one answer.   *)
(***************************************************************************)
CONSTANTS Spellings,   \* addresses as people type them
          Address,     \* spelling -> the address it is trimmed and lowered to
          Passwords,
          NoPassword

ASSUME AddressType ==
    /\ Address \in [Spellings -> Spellings]
    /\ \A s \in Spellings : Address[Address[s]] = Address[s]
ASSUME PasswordType == NoPassword \notin Passwords

VARIABLES
    account,   \* address -> "none", "active" or "inactive"
    secret     \* address -> the password it was registered with

accountVars == <<account, secret>>

AccountsInit ==
    /\ account = [s \in Spellings |-> "none"]
    /\ secret = [s \in Spellings |-> NoPassword]

Form == [who : Spellings, password : Passwords]
Token == [sub : Spellings, live : BOOLEAN]

\* Mutation: the address is taken as it was typed.
AsTyped(form) == form.who

\* LoginRequest and UserCreate normalise the address before anything else.
Key(form) == Address[form.who]

\* register: the unique constraint decides, so the INSERT of the loser of a race
\* is refused like that of a late comer.
RegisterAccepts(form) == account[Key(form)] = "none"

Register(form) ==
    IF RegisterAccepts(form)
    THEN /\ account' = [account EXCEPT ![Key(form)] = "active"]
         /\ secret' = [secret EXCEPT ![Key(form)] = form.password]
    ELSE UNCHANGED accountVars

Known(form) == account[Key(form)] # "none" /\ secret[Key(form)] = form.password

\* authenticate and create_access_token: 401 for an unknown address as for a wrong
\* password, 403 for an inactive account, else a token.
LoginAccepts(form) == Known(form) /\ account[Key(form)] = "active"
LoginToken(form) == [sub |-> Key(form), live |-> TRUE]

\* get_current_active_user: a live token of an account that exists and is active.
Accepts(token) == token.live /\ account[token.sub] = "active"

\* The flag is set by hand: no endpoint does it.
SetActive(s) ==
    /\ account[s] # "none"
    /\ account' = [account EXCEPT ![s] = IF @ = "active" THEN "inactive" ELSE "active"]
    /\ UNCHANGED secret
=============================================================================
