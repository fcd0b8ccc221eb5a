------------------------------ MODULE SignIn ------------------------------
(***************************************************************************)
(* Signing in, up and out: the authentication context of each browser tab  *)
(* (AuthContext.tsx) against the accounts of the server.  Tabs share one   *)
(* localStorage; a tab's handlers run to their next await, and resume when *)
(* the response arrives.  Requests take the token that is stored when they *)
(* are sent.                                                               *)
(*                                                                         *)
(* The login and register pages can be visited in any status, and be left  *)
(* while a form is being submitted, so a form may be sent at any time.     *)
(***************************************************************************)
EXTENDS Accounts

CONSTANTS Tabs, Calls,
          NoToken, NoUser, NoCall,
          Faults   \* whether requests may get lost

VARIABLES
    store,    \* the token in localStorage
    tab,      \* tab -> its status and user
    call,     \* requests in flight
    synced,   \* history: tabs no other tab has changed the storage behind
    calm      \* history: tabs that stored nothing while they were asking whose it is

vars == <<account, secret, store, tab, call, synced, calm>>

Closed == [status |-> "closed", user |-> NoUser]
SignedOut == [status |-> "unauthenticated", user |-> NoUser]

Tab == [status : {"closed", "loading", "authenticated", "unauthenticated"},
        user : Spellings \cup {NoUser}]

NoForm == [who |-> NoUser, password |-> NoPassword]

Replies == {"none", "failed", "refused", "ok"}

Call == [tab : Tabs, op : {"boot", "me"}, form : {NoForm}, token : Token, reply : Replies]
        \cup [tab : Tabs, op : {"login", "register"}, form : Form,
              token : Token \cup {NoToken}, reply : Replies]

ASSUME NoneType ==
    NoToken \notin Token /\ NoUser \notin Spellings /\ NoCall \notin Call /\ Faults \in BOOLEAN

TypeOK ==
    /\ account \in [Spellings -> {"none", "active", "inactive"}]
    /\ secret \in [Spellings -> Passwords \cup {NoPassword}]
    /\ store \in Token \cup {NoToken}
    /\ tab \in [Tabs -> Tab]
    /\ call \in [Calls -> Call \cup {NoCall}]
    /\ synced \subseteq Tabs
    /\ calm \subseteq Tabs

Init ==
    /\ AccountsInit
    /\ store = NoToken
    /\ tab = [t \in Tabs |-> Closed]
    /\ call = [k \in Calls |-> NoCall]
    /\ synced = Tabs
    /\ calm = Tabs

CallsOf(t) == {k \in Calls : call[k] # NoCall /\ call[k].tab = t}

\* What a tab has under way to learn whose token is stored.
Asking(t) == {k \in CallsOf(t) : call[k].op \in {"boot", "me"}}

\* The storage is written while the tab is asking, or it is not told.
Disturbs(t, when) == calm' = IF when THEN calm \ {t} ELSE calm

Put(t, token) == store' = token /\ synced' = IF token = store THEN synced ELSE {t}

Request(t, op, form, token) ==
    [tab |-> t, op |-> op, form |-> form, token |-> token, reply |-> "none"]

-----------------------------------------------------------------------------
(* The user *)

\* The tab is opened or reloaded: bootstrap asks who the stored token is.  What
\* was in flight in the page before is gone.
Open(t) ==
    LET quiet == [k \in Calls |-> IF k \in CallsOf(t) THEN NoCall ELSE call[k]] IN
    /\ \/ /\ store = NoToken
          /\ tab' = [tab EXCEPT ![t] = SignedOut]
          /\ call' = quiet
       \/ /\ store # NoToken
          /\ tab' = [tab EXCEPT ![t] = [status |-> "loading", user |-> NoUser]]
          /\ \E k \in Calls : call[k] = NoCall
                /\ call' = [quiet EXCEPT ![k] = Request(t, "boot", NoForm, store)]
    /\ synced' = synced \cup {t}
    /\ calm' = calm \cup {t}
    /\ UNCHANGED <<account, secret, store>>

Submit(t, op, form) ==
    /\ tab[t].status # "closed"
    /\ \E k \in Calls : call[k] = NoCall
          /\ call' = [call EXCEPT ![k] = Request(t, op, form, NoToken)]
    /\ UNCHANGED <<account, secret, store, tab, synced, calm>>

Logout(t) ==
    /\ tab[t].status = "authenticated"
    /\ Put(t, NoToken)
    /\ tab' = [tab EXCEPT ![t] = SignedOut]
    /\ Disturbs(t, Asking(t) # {})
    /\ UNCHANGED <<account, secret, call>>

-----------------------------------------------------------------------------
(* The server and the network *)

Answered(k, accepted) ==
    call' = [call EXCEPT ![k].reply = IF accepted THEN "ok" ELSE "refused"]

Serve(k) ==
    /\ call[k] # NoCall /\ call[k].reply = "none"
    /\ LET c == call[k] IN
       \/ /\ c.op = "register"
          /\ Register(c.form)
          /\ Answered(k, RegisterAccepts(c.form))
       \/ /\ c.op = "login"
          /\ IF LoginAccepts(c.form)
             THEN call' = [call EXCEPT ![k].reply = "ok", ![k].token = LoginToken(c.form)]
             ELSE Answered(k, FALSE)
          /\ UNCHANGED accountVars
       \/ /\ c.op \in {"boot", "me"}
          /\ Answered(k, Accepts(c.token))
          /\ UNCHANGED accountVars
    /\ UNCHANGED <<store, tab, synced, calm>>

\* The request or the answer is lost, or the server answers 500.
Lose(k) ==
    /\ Faults /\ call[k] # NoCall /\ call[k].reply # "failed"
    /\ call' = [call EXCEPT ![k].reply = "failed"]
    /\ UNCHANGED <<account, secret, store, tab, synced, calm>>

\* Tokens of a user expire, wherever they are by then.
Expire(s) ==
    /\ \/ store # NoToken /\ store = [sub |-> s, live |-> TRUE]
       \/ \E k \in Calls : call[k] # NoCall /\ call[k].token = [sub |-> s, live |-> TRUE]
    /\ store' = IF store # NoToken /\ store.sub = s THEN [store EXCEPT !.live = FALSE] ELSE store
    /\ call' = [k \in Calls |->
                  IF call[k] # NoCall /\ call[k].token # NoToken /\ call[k].token.sub = s
                  THEN [call[k] EXCEPT !.token.live = FALSE] ELSE call[k]]
    /\ UNCHANGED <<account, secret, tab, synced, calm>>

Moderate(s) == SetActive(s) /\ UNCHANGED <<store, tab, call, synced, calm>>

-----------------------------------------------------------------------------
(* The handlers, resumed *)

Ok(k, op) == call[k] # NoCall /\ call[k].op = op /\ call[k].reply = "ok"
Failed(k) == call[k].reply \in {"failed", "refused"}
Drop(k) == call' = [call EXCEPT ![k] = NoCall]
Show(t, u) == tab' = [tab EXCEPT ![t] = [status |-> "authenticated", user |-> u]]

BootDone(k) ==
    /\ Ok(k, "boot")
    /\ Show(call[k].tab, call[k].token.sub)
    /\ Drop(k)
    /\ UNCHANGED <<account, secret, store, synced, calm>>

\* Mutation: the status is left as it is.
BootFailedQuietly(k) ==
    /\ call[k] # NoCall /\ call[k].op = "boot" /\ Failed(k)
    /\ Put(call[k].tab, NoToken)
    /\ Drop(k)
    /\ UNCHANGED <<account, secret, tab, calm>>

\* Any failure clears the storage, whatever it holds by now.
BootFailed(k) ==
    /\ call[k] # NoCall /\ call[k].op = "boot" /\ Failed(k)
    /\ Put(call[k].tab, NoToken)
    /\ tab' = [tab EXCEPT ![call[k].tab].status = "unauthenticated"]
    /\ Drop(k)
    /\ UNCHANGED <<account, secret, calm>>

\* Mutation: the token is not stored.
LoginDoneNoStore(k) ==
    /\ Ok(k, "login")
    /\ call' = [call EXCEPT ![k] = Request(call[k].tab, "me", NoForm, call[k].token)]
    /\ UNCHANGED <<account, secret, store, synced, tab, calm>>

LoginDone(k) ==
    /\ Ok(k, "login")
    /\ Put(call[k].tab, call[k].token)
    /\ call' = [call EXCEPT ![k] = Request(call[k].tab, "me", NoForm, call[k].token)]
    /\ Disturbs(call[k].tab, Asking(call[k].tab) # {})
    /\ UNCHANGED <<account, secret, tab>>

MeDone(k) ==
    /\ Ok(k, "me")
    /\ Show(call[k].tab, call[k].token.sub)
    /\ Drop(k)
    /\ UNCHANGED <<account, secret, store, synced, calm>>

\* The backend issues no token for a registration: the form signs in with it.
RegisterDone(k) ==
    /\ Ok(k, "register")
    /\ call' = [call EXCEPT ![k] = Request(call[k].tab, "login", call[k].form, NoToken)]
    /\ UNCHANGED <<account, secret, store, tab, synced, calm>>

\* The form shows the error; a token that was stored stays.
FormFailed(k) ==
    /\ call[k] # NoCall /\ call[k].op # "boot" /\ Failed(k)
    /\ Drop(k)
    /\ Disturbs(call[k].tab, call[k].op = "me" /\ tab[call[k].tab].status = "authenticated")
    /\ UNCHANGED <<account, secret, store, tab, synced>>

-----------------------------------------------------------------------------
Resume(k) ==
    BootDone(k) \/ BootFailed(k) \/ LoginDone(k) \/ MeDone(k) \/ RegisterDone(k) \/ FormFailed(k)

User(t) ==
    Open(t) \/ Logout(t) \/ \E f \in Form : Submit(t, "login", f) \/ Submit(t, "register", f)

Next ==
    \/ \E t \in Tabs : User(t)
    \/ \E k \in Calls : Serve(k) \/ Lose(k) \/ Resume(k)
    \/ \E s \in Spellings : Expire(s) \/ Moderate(s)

Spec == Init /\ [][Next]_vars

-----------------------------------------------------------------------------
(* Where the code can lose the match between who is on the screen and whose *)
(* token the requests carry, and nowhere else.  A tab that is signed in and *)
(* has no /me under way shows the user of the stored token, unless another  *)
(* tab has written the storage, the tab itself has (by a logout or by the   *)
(* next form) before its /me came back, or that /me failed while it showed  *)
(* someone else.  Forms may be sent in any status, and in any number.       *)
ScreenMatchesToken ==
    \A t \in calm \cap synced :
        tab[t].status = "authenticated" /\ Asking(t) = {} =>
            store # NoToken /\ store.sub = tab[t].user

(* Addresses are the same however they are spelled: two accounts never      *)
(* share one, and a registered user gets in under every spelling of it.     *)
OneAccountPerAddress ==
    \A s, o \in Spellings :
        account[s] # "none" /\ account[o] # "none" /\ Address[s] = Address[o] => s = o

OwnersGetIn ==
    [][\A k \in Calls :
          call[k] # NoCall /\ call'[k] # NoCall /\ call[k].op = "login"
          /\ call[k].reply = "none" /\ call'[k].reply = "refused"
          => ~\E s \in Spellings :
                /\ Address[s] = Address[call[k].form.who]
                /\ account[s] = "active" /\ secret[s] = call[k].form.password]_vars

(* No tab stays on "Checking your session..." with nothing to end it: while *)
(* it does, its bootstrap is under way.                                     *)
LoadingHasCause ==
    \A t \in Tabs : tab[t].status = "loading" => \E k \in CallsOf(t) : call[k].op = "boot"

-----------------------------------------------------------------------------
(* What the repository's own words say, and the code does not keep: README,   *)
(* "Where the code and its words part".                                       *)

(* "Token invalid/expired - drop it" (AuthContext.tsx:58): starting up      *)
(* drops a stored token only when the server would not accept it.           *)
OnlyBadTokensAreDropped ==
    [][\A k \in Calls :
          call[k] # NoCall /\ call[k].op = "boot" /\ store # NoToken /\ store' = NoToken
          /\ call'[k] = NoCall => ~Accepts(store)]_vars
=============================================================================
