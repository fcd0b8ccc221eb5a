--------------------------- MODULE SignInProofs ---------------------------
(***************************************************************************)
(* Proofs about SignIn, for any number of tabs, requests, addresses and    *)
(* passwords.                                                              *)
(***************************************************************************)
EXTENDS SignIn, TLAPS

\* A calm tab asks once at a time.
AsksOnce ==
    \A t \in calm : \A k, l \in Asking(t) : k = l

\* Who a calm tab is about to show is whose token is stored.
AsksForStored ==
    \A t \in calm \cap synced : \A k \in Asking(t) :
        store # NoToken /\ store.sub = call[k].token.sub

\* A login that was accepted carries its token.
LoginsCarryTokens ==
    \A k \in Calls : Ok(k, "login") => call[k].token \in Token

IInv == TypeOK /\ LoginsCarryTokens /\ AsksOnce /\ AsksForStored /\ ScreenMatchesToken

\* What a request on its way carries, by its kind.
LEMMA CallTypes ==
    ASSUME TypeOK, NEW k \in Calls, call[k] # NoCall
    PROVE  /\ call[k] \in Call
           /\ call[k].tab \in Tabs
           /\ call[k].reply \in Replies
           /\ call[k].op \in {"boot", "me"} => call[k].token \in Token /\ call[k].form = NoForm
           /\ call[k].op \in {"login", "register"} =>
                call[k].form \in Form /\ call[k].token \in Token \cup {NoToken}
           /\ call[k].op \in {"boot", "me", "login", "register"}
BY DEF TypeOK, Call

\* A login is given a token, and a form names an address.
LEMMA TokenTypes == ASSUME NEW f \in Form PROVE LoginToken(f) \in Token /\ Key(f) \in Spellings
BY AddressType DEF LoginToken, Key, Form, Token

\* Of a request that is answered, only the reply and a login's token change.
LEMMA ReplyTypes ==
    ASSUME NEW c \in Call, NEW r \in Replies
    PROVE  /\ [c EXCEPT !.reply = r] \in Call
           /\ [c EXCEPT !.reply = r].tab = c.tab
           /\ [c EXCEPT !.reply = r].op = c.op
           /\ [c EXCEPT !.reply = r].token = c.token
           /\ \A x \in Token : c.op = "login" =>
                /\ [c EXCEPT !.reply = r, !.token = x] \in Call
                /\ [c EXCEPT !.reply = r, !.token = x].tab = c.tab
                /\ [c EXCEPT !.reply = r, !.token = x].op = c.op
                /\ [c EXCEPT !.reply = r, !.token = x].token = x
BY DEF Call

\* A request that is sent has the type of one on its way.
LEMMA RequestTypes ==
    ASSUME NEW t \in Tabs, NEW f \in Form, NEW x \in Token, NEW o
    PROVE  /\ o \in {"login", "register"} => Request(t, o, f, NoToken) \in Call
           /\ o \in {"boot", "me"} => Request(t, o, NoForm, x) \in Call
BY DEF Request, Call, Replies

\* Two states of a request: it keeps its kind and whose token it carries.
Alike(c, d) ==
    /\ c.tab = d.tab
    /\ \/ c.op = d.op /\ (c.op \in {"boot", "me"} => c.token.sub = d.token.sub)
       \/ {c.op, d.op} \subseteq {"login", "register"}

\* What the server, the network and the clock do keeps the invariant: no tab moves,
\* requests keep their kind and whose token they carry, and so does the storage; what
\* is asked stays asked.
LEMMA Unmoved ==
    ASSUME IInv, TypeOK', LoginsCarryTokens', UNCHANGED <<tab, synced, calm>>,
           store' = NoToken <=> store = NoToken,
           store # NoToken => store'.sub = store.sub,
           \A k \in Calls : call'[k] # NoCall => call[k] # NoCall /\ Alike(call[k], call'[k]),
           \A k \in Calls : call[k] # NoCall /\ call[k].op \in {"boot", "me"} => call'[k] # NoCall
    PROVE  IInv'
<1>1. \A t \in Tabs : Asking(t)' = Asking(t)
      BY DEF Asking, CallsOf, Alike
<1>2. \A t \in Tabs : \A k \in Asking(t)' : call'[k].token.sub = call[k].token.sub
      BY DEF Asking, CallsOf, Alike
<1>3. calm \subseteq Tabs  BY DEF IInv, TypeOK
<1>4. AsksOnce'
      BY <1>1, <1>3 DEF IInv, AsksOnce
<1>5. AsksForStored'
      BY <1>1, <1>2, <1>3 DEF IInv, AsksForStored
<1>6. ScreenMatchesToken'
      BY <1>1, <1>3 DEF IInv, ScreenMatchesToken
<1> QED BY <1>4, <1>5, <1>6 DEF IInv

-----------------------------------------------------------------------------
\* The server's answer keeps the invariant.
LEMMA ServeKeeps ==
    ASSUME IInv, NEW k \in Calls, Serve(k) PROVE IInv'
<1> DEFINE c == call[k]
<1>1. c \in Call /\ c # NoCall  BY CallTypes DEF IInv, Serve
<1>2. TypeOK  BY DEF IInv
<1>3. PICK d \in Call : /\ call' = [call EXCEPT ![k] = d] /\ Alike(c, d)
                        /\ d.op = "login" /\ d.reply = "ok" => d.token \in Token
  <2>1. CASE c.op = "login" /\ LoginAccepts(c.form)
        <3>1. c.form \in Form  BY <1>1, <1>2, <2>1, CallTypes
        <3>2. LoginToken(c.form) \in Token  BY <3>1, TokenTypes
        <3> DEFINE d == [c EXCEPT !.reply = "ok", !.token = LoginToken(c.form)]
        <3>3. call' = [call EXCEPT ![k] = d]
              BY <2>1 DEF Serve
        <3>4. d \in Call /\ d.tab = c.tab /\ d.op = c.op /\ d.token = LoginToken(c.form)
              BY <1>1, <2>1, <3>2, ReplyTypes DEF Replies
        <3> QED BY <3>2, <3>3, <3>4, <2>1 DEF Alike
  <2>2. CASE ~(c.op = "login" /\ LoginAccepts(c.form))
        <3>1. PICK r \in {"ok", "refused"} : /\ call' = [call EXCEPT ![k] = [c EXCEPT !.reply = r]]
                                             /\ c.op = "login" => r = "refused"
              BY <2>2 DEF Serve, Answered
        <3>2. [c EXCEPT !.reply = r] \in Call /\ Alike(c, [c EXCEPT !.reply = r])
              BY <1>1, <3>1, ReplyTypes DEF Alike, Replies
        <3>3. [c EXCEPT !.reply = r].op = c.op /\ [c EXCEPT !.reply = r].reply = r
              BY <1>1 DEF Call
        <3> QED BY <3>1, <3>2, <3>3
  <2> QED BY <2>1, <2>2
<1>4. /\ account' \in [Spellings -> {"none", "active", "inactive"}]
      /\ secret' \in [Spellings -> Passwords \cup {NoPassword}]
  <2>1. CASE UNCHANGED accountVars  BY <1>2, <2>1 DEF accountVars, TypeOK
  <2>2. CASE c.op = "register" /\ Register(c.form)
        <3>1. c.form \in Form  BY <1>1, <1>2, <2>2, CallTypes
        <3>2. Key(c.form) \in Spellings /\ c.form.password \in Passwords
              BY <3>1, TokenTypes DEF Form
        <3> QED BY <1>2, <2>1, <2>2, <3>2 DEF Register, TypeOK
  <2> QED BY <2>1, <2>2 DEF Serve
<1>5. UNCHANGED <<store, tab, synced, calm>>  BY DEF Serve
<1>6. TypeOK'  BY <1>2, <1>3, <1>4, <1>5 DEF TypeOK
<1>7. \A l \in Calls : call'[l] # NoCall => call[l] # NoCall /\ Alike(call[l], call'[l])
      BY <1>1, <1>2, <1>3 DEF TypeOK, Alike
<1>8. LoginsCarryTokens'  BY <1>1, <1>2, <1>3 DEF IInv, LoginsCarryTokens, Ok, TypeOK
<1>9. \A l \in Calls : call[l] # NoCall => call'[l] # NoCall
      BY <1>2, <1>3, NoneType DEF TypeOK
<1> QED BY <1>5, <1>6, <1>7, <1>8, <1>9, Unmoved

\* A lost answer keeps the invariant.
LEMMA LoseKeeps ==
    ASSUME IInv, NEW k \in Calls, Lose(k) PROVE IInv'
<1>1. TypeOK /\ call[k] \in Call  BY CallTypes DEF IInv, Lose
<1> DEFINE d == [call[k] EXCEPT !.reply = "failed"]
<1>2. call' = [call EXCEPT ![k] = d] /\ UNCHANGED <<account, secret, store, tab, synced, calm>>
      BY DEF Lose
<1>3. d \in Call /\ Alike(call[k], d) /\ d.reply = "failed"
      BY <1>1, ReplyTypes DEF Replies, Alike, Call
<1> HIDE DEF d
<1>4. TypeOK'  BY <1>1, <1>2, <1>3 DEF TypeOK
<1>5. \A l \in Calls : call'[l] # NoCall => call[l] # NoCall /\ Alike(call[l], call'[l])
      BY <1>1, <1>2, <1>3 DEF TypeOK, Alike, Lose
<1>6. LoginsCarryTokens'  BY <1>1, <1>2, <1>3 DEF IInv, LoginsCarryTokens, Ok, TypeOK
<1>7. \A l \in Calls : call[l] # NoCall => call'[l] # NoCall
      BY <1>1, <1>2, <1>3, NoneType DEF TypeOK
<1> QED BY <1>2, <1>4, <1>5, <1>6, <1>7, Unmoved

\* The deactivation of an account keeps the invariant.
LEMMA ModerateKeeps ==
    ASSUME IInv, NEW s \in Spellings, Moderate(s) PROVE IInv'
<1>1. TypeOK'  BY DEF IInv, TypeOK, Moderate, SetActive
<1>2. LoginsCarryTokens'  BY DEF IInv, LoginsCarryTokens, Ok, Moderate
<1> QED BY <1>1, <1>2, Unmoved DEF Moderate, Alike

\* The expiry of its tokens keeps the invariant.
LEMMA ExpireKeeps ==
    ASSUME IInv, NEW s \in Spellings, Expire(s) PROVE IInv'
<1>1. TypeOK /\ UNCHANGED <<account, secret, tab, synced, calm>>  BY DEF IInv, Expire
<1>2. /\ store' \in Token \cup {NoToken}
      /\ store' = NoToken <=> store = NoToken
      /\ store # NoToken => store'.sub = store.sub
      BY <1>1, NoneType DEF TypeOK, Expire, Token
<1> DEFINE old(c) == [c EXCEPT !.token = [c.token EXCEPT !.live = FALSE]]
           aged(c) == IF c # NoCall /\ c.token # NoToken /\ c.token.sub = s THEN old(c) ELSE c
<1>3. \A c \in Call : c.token # NoToken =>
         /\ old(c) \in Call /\ Alike(c, old(c)) /\ old(c).op = c.op
         /\ c.token \in Token => old(c).token \in Token
  <2>1. \A x \in Token : [x EXCEPT !.live = FALSE] \in Token /\ [x EXCEPT !.live = FALSE].sub = x.sub
        BY DEF Token
  <2> QED BY <2>1 DEF Call, Alike
<1>4. call' = [k \in Calls |-> aged(call[k])]  BY DEF Expire
<1>5. \A k \in Calls : call[k] # NoCall => aged(call[k]) \in Call /\ Alike(call[k], aged(call[k]))
      BY <1>1, <1>3, CallTypes DEF Alike
<1>6. \A k \in Calls : call[k] = NoCall => aged(call[k]) = NoCall
      OBVIOUS
<1> HIDE DEF aged
<1>7. TypeOK'  BY <1>1, <1>2, <1>4, <1>5, <1>6 DEF TypeOK
<1>8. \A l \in Calls : call'[l] # NoCall => call[l] # NoCall /\ Alike(call[l], call'[l])
      BY <1>4, <1>5, <1>6
<1>9. \A k \in Calls : call[k] # NoCall =>
         /\ aged(call[k]).op = call[k].op /\ aged(call[k]).reply = call[k].reply
         /\ call[k].token \in Token => aged(call[k]).token \in Token
      BY <1>1, <1>3, CallTypes DEF aged, Call
<1>10. LoginsCarryTokens'  BY <1>4, <1>6, <1>9 DEF IInv, LoginsCarryTokens, Ok
<1>11. \A l \in Calls : call[l] # NoCall => call'[l] # NoCall
       BY <1>4, <1>5, NoneType
<1> QED BY <1>1, <1>2, <1>7, <1>8, <1>10, <1>11, Unmoved

-----------------------------------------------------------------------------
\* Opening a tab keeps the invariant.
LEMMA OpenKeeps ==
    ASSUME IInv, NEW t \in Tabs, Open(t) PROVE IInv'
<1>1. TypeOK /\ UNCHANGED <<account, secret, store>> /\ synced' = synced \cup {t} /\ calm' = calm \cup {t}
      BY DEF IInv, Open
<1> DEFINE quiet == [k \in Calls |-> IF k \in CallsOf(t) THEN NoCall ELSE call[k]]
<1>2. \A k \in Calls : quiet[k] # NoCall => quiet[k] = call[k] /\ call[k].tab # t
      BY DEF CallsOf
<1>3. CASE store = NoToken
  <2>1. tab' = [tab EXCEPT ![t] = SignedOut] /\ call' = quiet
        BY <1>3 DEF Open
  <2>2. quiet \in [Calls -> Call \cup {NoCall}]  BY <1>1 DEF TypeOK
  <2> HIDE DEF quiet
  <2>3. SignedOut \in Tab  BY DEF SignedOut, Tab
  <2>4. TypeOK'  BY <1>1, <2>1, <2>2, <2>3 DEF TypeOK
  <2>5. /\ \A u \in Tabs : u # t => Asking(u)' = Asking(u)
        /\ \A u \in Tabs : u # t => \A l \in Asking(u)' : call'[l] = call[l]
        /\ Asking(t)' = {}
    <3>1. \A k \in Calls : call[k] # NoCall /\ call[k].tab # t => call'[k] = call[k]
          BY <2>1 DEF quiet, CallsOf
    <3>2. \A k \in Calls : call'[k] # NoCall => call'[k] = call[k] /\ call[k].tab # t
          BY <1>2, <2>1
    <3> QED BY <3>1, <3>2 DEF Asking, CallsOf
  <2>6. AsksOnce'  BY <1>1, <2>5 DEF IInv, AsksOnce, TypeOK
  <2>7. AsksForStored'  BY <1>1, <2>5 DEF IInv, AsksForStored, TypeOK
  <2>8. ScreenMatchesToken'
        BY <1>1, <2>1, <2>5 DEF IInv, ScreenMatchesToken, TypeOK, SignedOut
  <2>9. LoginsCarryTokens'  BY <1>2, <2>1 DEF IInv, LoginsCarryTokens, Ok
  <2> QED BY <2>4, <2>6, <2>7, <2>9, <2>8 DEF IInv
<1>4. CASE store # NoToken
  <2> DEFINE loading == [status |-> "loading", user |-> NoUser]
             boot == Request(t, "boot", NoForm, store)
  <2>1. tab' = [tab EXCEPT ![t] = loading]
        BY <1>4 DEF Open
  <2>2. PICK k \in Calls : call[k] = NoCall /\ call' = [quiet EXCEPT ![k] = boot]
        BY <1>4 DEF Open
  <2>3. boot \in Call /\ boot.tab = t /\ boot.op = "boot" /\ boot.token = store
        BY <1>1, <1>4 DEF TypeOK, Request, Call, Replies
  <2>4. loading \in Tab /\ loading.status = "loading"  BY DEF Tab
  <2>5. quiet \in [Calls -> Call \cup {NoCall}]  BY <1>1 DEF TypeOK
  <2> HIDE DEF quiet, boot, loading
  <2>6. TypeOK'  BY <1>1, <2>1, <2>2, <2>3, <2>4, <2>5 DEF TypeOK
  <2>7. \A l \in Calls : call'[l] # NoCall /\ l # k => call'[l] = call[l] /\ call[l].tab # t
        BY <1>2, <2>2, <2>5
  <2>8. call'[k] = boot  BY <2>2, <2>5
  <2>9. /\ \A u \in Tabs : u # t => Asking(u)' = Asking(u)
        /\ \A u \in Tabs : u # t => \A l \in Asking(u)' : call'[l] = call[l]
        /\ Asking(t)' = {k}
    <3>1. \A l \in Calls : call[l] # NoCall /\ call[l].tab # t => call'[l] = call[l]
          BY <2>2, <2>5 DEF quiet, CallsOf
    <3>2. k \in Calls /\ boot # NoCall  BY <2>3, NoneType
    <3> QED BY <2>3, <2>7, <2>8, <3>1, <3>2 DEF Asking, CallsOf
  <2>10. tab'[t].status = "loading" /\ \A u \in Tabs : u # t => tab'[u] = tab[u]
        BY <1>1, <2>1, <2>4 DEF TypeOK
  <2>11. AsksOnce'
        BY <1>1, <2>9 DEF IInv, AsksOnce, TypeOK
  <2>12. AsksForStored'
        BY <1>1, <1>4, <2>3, <2>8, <2>9 DEF IInv, AsksForStored, TypeOK
  <2>13. ScreenMatchesToken'
        BY <1>1, <2>9, <2>10 DEF IInv, ScreenMatchesToken, TypeOK
  <2>14. LoginsCarryTokens'  BY <2>3, <2>7, <2>8 DEF IInv, LoginsCarryTokens, Ok
  <2> QED BY <2>6, <2>11, <2>12, <2>13, <2>14 DEF IInv
<1> QED BY <1>3, <1>4

\* Sending a form keeps the invariant.
LEMMA SubmitKeeps ==
    ASSUME IInv, NEW t \in Tabs, NEW f \in Form, NEW o \in {"login", "register"}, Submit(t, o, f)
    PROVE  IInv'
<1> DEFINE c == Request(t, o, f, NoToken)
<1>1. TypeOK /\ UNCHANGED <<account, secret, store, tab, synced, calm>>  BY DEF IInv, Submit
<1>2. PICK k \in Calls : call[k] = NoCall /\ call' = [call EXCEPT ![k] = c]  BY DEF Submit
<1>3. c \in Call /\ c.tab = t /\ c.op = o /\ c.reply = "none"  BY DEF Request, Call, Replies
<1> HIDE DEF c
<1>4. TypeOK'  BY <1>1, <1>2, <1>3 DEF TypeOK
<1>5. call'[k] = c /\ \A l \in Calls : l # k => call'[l] = call[l]
      BY <1>1, <1>2 DEF TypeOK
<1>6. \A u \in Tabs : Asking(u)' = Asking(u) /\ k \notin Asking(u)
      BY <1>2, <1>3, <1>5 DEF Asking, CallsOf
<1>7. calm \subseteq Tabs  BY <1>1 DEF TypeOK
<1>8. AsksOnce'  BY <1>1, <1>6, <1>7 DEF IInv, AsksOnce
<1>9. AsksForStored'
  <2>1. \A u \in Tabs : \A l \in Asking(u) : call'[l] = call[l]
        BY <1>5, <1>6 DEF Asking, CallsOf
  <2> QED BY <1>1, <1>6, <1>7, <2>1 DEF IInv, AsksForStored
<1>10. ScreenMatchesToken'  BY <1>1, <1>6, <1>7 DEF IInv, ScreenMatchesToken
<1>11. LoginsCarryTokens'  BY <1>3, <1>5 DEF IInv, LoginsCarryTokens, Ok
<1> QED BY <1>4, <1>8, <1>9, <1>10, <1>11 DEF IInv

\* A logout keeps the invariant, of the other tabs too.
LEMMA LogoutKeeps ==
    ASSUME IInv, NEW t \in Tabs, Logout(t) PROVE IInv'
<1>1. TypeOK /\ UNCHANGED <<account, secret, call>> /\ tab' = [tab EXCEPT ![t] = SignedOut]
      BY DEF IInv, Logout
<1>2. store' = NoToken /\ synced' \subseteq synced \cup {t} /\ (store = NoToken \/ synced' = {t})
      BY <1>1 DEF Logout, Put
<1>3. SignedOut \in Tab /\ SignedOut.status = "unauthenticated"  BY DEF SignedOut, Tab
<1>4. synced' \subseteq Tabs  BY <1>1, <1>2 DEF TypeOK
<1>5. calm' \subseteq calm /\ (t \in calm' => Asking(t) = {})
      BY DEF Logout, Disturbs
<1>6. TypeOK'  BY <1>1, <1>2, <1>3, <1>4, <1>5 DEF TypeOK
<1>7. \A u \in Tabs : Asking(u)' = Asking(u)  BY <1>1 DEF Asking, CallsOf
<1>8. AsksOnce'  BY <1>1, <1>5, <1>7 DEF IInv, AsksOnce, TypeOK
<1>9. AsksForStored'
  <2>1. ASSUME NEW u \in calm' \cap synced' PROVE Asking(u)' = {}
    <3>1. u \in Tabs /\ u \in calm  BY <1>1, <1>5 DEF TypeOK
    <3>2. CASE u = t  BY <1>5, <1>7, <3>1, <3>2
    <3>3. CASE u # t
      <4>1. store = NoToken /\ u \in synced  BY <1>2, <3>3
      <4> QED BY <1>7, <3>1, <4>1 DEF IInv, AsksForStored
    <3> QED BY <3>2, <3>3
  <2> QED BY <2>1 DEF AsksForStored
<1>10. ScreenMatchesToken'
      BY <1>1, <1>2, <1>3, <1>5, <1>7 DEF IInv, ScreenMatchesToken, TypeOK
<1>11. LoginsCarryTokens'  BY <1>1 DEF IInv, LoginsCarryTokens, Ok
<1> QED BY <1>6, <1>8, <1>9, <1>10, <1>11 DEF IInv

-----------------------------------------------------------------------------
\* The answer to "who am I" puts on the screen whose token is stored.
LEMMA ShownKeeps ==
    ASSUME IInv, NEW k \in Calls, call[k] # NoCall, call[k].op \in {"boot", "me"},
           Show(call[k].tab, call[k].token.sub), Drop(k),
           UNCHANGED <<account, secret, store, synced, calm>>
    PROVE  IInv'
<1>1. PICK t \in Tabs : t = call[k].tab  BY CallTypes DEF IInv
<1> DEFINE shown == [status |-> "authenticated", user |-> call[k].token.sub]
<1>2. TypeOK /\ call[k].token \in Token /\ k \in Asking(t)
      BY <1>1, CallTypes DEF IInv, CallsOf, Asking
<1>3. tab' = [tab EXCEPT ![t] = shown] /\ call' = [call EXCEPT ![k] = NoCall]
      BY <1>1 DEF Show, Drop
<1>4. shown \in Tab /\ shown.status = "authenticated" /\ shown.user = call[k].token.sub
      BY <1>2 DEF Tab, Token
<1> HIDE DEF shown
<1>5. TypeOK'  BY <1>2, <1>3, <1>4 DEF TypeOK
<1>6. \A l \in Calls : l # k => call'[l] = call[l]  BY <1>2, <1>3 DEF TypeOK
<1>7. /\ Asking(t)' = Asking(t) \ {k}
      /\ \A u \in Tabs : u # t => Asking(u)' = Asking(u) /\ k \notin Asking(u)
  <2>1. call'[k] = NoCall  BY <1>2, <1>3 DEF TypeOK, Asking, CallsOf
  <2> QED BY <1>1, <1>6, <2>1 DEF Asking, CallsOf
<1>8. \A u \in Tabs : u # t => tab'[u] = tab[u]  BY <1>2, <1>3 DEF TypeOK
<1>9. tab'[t] = shown  BY <1>2, <1>3 DEF TypeOK
<1>10. calm' = calm /\ calm \subseteq Tabs /\ synced' = synced /\ store' = store
      BY <1>2 DEF TypeOK
<1>11. AsksOnce'  BY <1>7, <1>10 DEF IInv, AsksOnce
<1>12. AsksForStored'
  <2>1. \A u \in Tabs : Asking(u)' \subseteq Asking(u)
        /\ \A l \in Asking(u)' : call'[l] = call[l]
        BY <1>6, <1>7 DEF Asking, CallsOf
  <2> QED BY <1>10, <2>1 DEF IInv, AsksForStored
<1>13. ScreenMatchesToken'
  <2>1. t \in calm \cap synced => store # NoToken /\ store.sub = shown.user
        BY <1>2, <1>4 DEF IInv, AsksForStored
  <2> QED BY <2>1, <1>7, <1>8, <1>9, <1>10 DEF IInv, ScreenMatchesToken
<1>14. LoginsCarryTokens'  BY <1>2, <1>3 DEF IInv, LoginsCarryTokens, Ok, TypeOK
<1> QED BY <1>5, <1>11, <1>12, <1>13, <1>14 DEF IInv

\* A stored token that is refused is removed.
LEMMA BootFailedKeeps ==
    ASSUME IInv, NEW k \in Calls, BootFailed(k) PROVE IInv'
<1>1. PICK t \in Tabs : t = call[k].tab  BY CallTypes DEF IInv, BootFailed
<1>2. TypeOK /\ k \in Asking(t) /\ call[k] # NoCall /\ call[k].op = "boot"
      BY <1>1 DEF IInv, BootFailed, CallsOf, Asking
<1>3. /\ tab' = [tab EXCEPT ![t] = [tab[t] EXCEPT !.status = "unauthenticated"]]
      /\ call' = [call EXCEPT ![k] = NoCall]
      /\ UNCHANGED <<account, secret, calm>>
      BY <1>1 DEF BootFailed, Drop
<1>4. store' = NoToken /\ synced' \subseteq synced \cup {t} /\ (store = NoToken \/ synced' = {t})
      BY <1>1 DEF BootFailed, Put
<1>5. tab'[t] \in Tab /\ tab'[t].status = "unauthenticated" /\ \A u \in Tabs : u # t => tab'[u] = tab[u]
      BY <1>2, <1>3 DEF TypeOK, Tab
<1>6. tab' \in [Tabs -> Tab]  BY <1>2, <1>3, <1>5 DEF TypeOK
<1>7. synced' \subseteq Tabs  BY <1>2, <1>4 DEF TypeOK
<1>8. TypeOK'  BY <1>2, <1>3, <1>4, <1>6, <1>7 DEF TypeOK
<1>9. call'[k] = NoCall /\ \A l \in Calls : l # k => call'[l] = call[l]
      BY <1>2, <1>3 DEF TypeOK, Asking, CallsOf
<1>10. /\ Asking(t)' = Asking(t) \ {k}
      /\ \A u \in Tabs : u # t => Asking(u)' = Asking(u)
      BY <1>1, <1>9 DEF Asking, CallsOf
<1>11. t \in calm => Asking(t)' = {}  BY <1>2, <1>10 DEF IInv, AsksOnce
<1>12. calm' = calm /\ calm \subseteq Tabs  BY <1>2, <1>3 DEF TypeOK
<1>13. AsksOnce'
      BY <1>10, <1>12 DEF IInv, AsksOnce
<1>14. AsksForStored'
  <2>1. ASSUME NEW u \in calm' \cap synced' PROVE Asking(u)' = {}
    <3>1. CASE u = t  BY <1>11, <1>12, <3>1
    <3>2. CASE u # t
      <4>1. store = NoToken /\ u \in synced  BY <1>4, <3>2
      <4> QED BY <1>10, <1>12, <3>2, <4>1 DEF IInv, AsksForStored
    <3> QED BY <3>1, <3>2
  <2> QED BY <2>1 DEF AsksForStored
<1>15. ScreenMatchesToken'
      BY <1>4, <1>5, <1>10, <1>12 DEF IInv, ScreenMatchesToken
<1>16. LoginsCarryTokens'  BY <1>2, <1>3 DEF IInv, LoginsCarryTokens, Ok, TypeOK
<1> QED BY <1>8, <1>13, <1>14, <1>15, <1>16 DEF IInv

\* The token of a login is stored, and asked about.
LEMMA LoginDoneKeeps ==
    ASSUME IInv, NEW k \in Calls, LoginDone(k) PROVE IInv'
<1>1. PICK t \in Tabs : t = call[k].tab  BY CallTypes DEF IInv, LoginDone, Ok
<1> DEFINE c == Request(t, "me", NoForm, call[k].token)
<1>2. TypeOK /\ k \in CallsOf(t) /\ call[k] # NoCall /\ call[k].op = "login"
      BY <1>1 DEF IInv, LoginDone, Ok, CallsOf
<1>3. call' = [call EXCEPT ![k] = c] /\ UNCHANGED <<account, secret, tab>>
      BY <1>1 DEF LoginDone
<1>4. store' = call[k].token /\ (synced' = {t} \/ (synced' = synced /\ store' = store))
      BY <1>1 DEF LoginDone, Put
<1>5. call[k].token \in Token /\ call[k].token # NoToken
      BY <1>2, NoneType DEF IInv, LoginsCarryTokens, LoginDone, Ok, TypeOK
<1>6. c \in Call /\ c.tab = t /\ c.op = "me" /\ c.token = call[k].token
      BY <1>2, <1>5 DEF Request, Call, Replies
<1> HIDE DEF c
<1>7. synced' \subseteq Tabs  BY <1>2, <1>4 DEF TypeOK
<1>8. calm' \subseteq calm /\ calm' \subseteq Tabs /\ (t \in calm' => Asking(t) = {})
      BY <1>1, <1>2 DEF LoginDone, Disturbs, TypeOK
<1>9. TypeOK'  BY <1>2, <1>3, <1>4, <1>5, <1>6, <1>7, <1>8 DEF TypeOK
<1>10. call'[k] = c /\ \A l \in Calls : l # k => call'[l] = call[l]  BY <1>2, <1>3 DEF TypeOK, CallsOf
<1>11. /\ \A u \in Tabs : u # t => Asking(u)' = Asking(u) /\ k \notin Asking(u)
      /\ Asking(t)' = Asking(t) \cup {k}
  <2>1. c # NoCall  BY <1>6, NoneType
  <2>2. k \in Calls /\ call[k].op = "login"  BY <1>2
  <2> QED BY <1>6, <1>10, <2>1, <2>2 DEF Asking, CallsOf
<1>12. tab' = tab  BY <1>3
<1>13. AsksOnce'
      BY <1>11, <1>8 DEF IInv, AsksOnce
<1>14. AsksForStored'
  <2>1. \A u \in Tabs : u # t => \A l \in Asking(u)' : call'[l] = call[l]
        BY <1>10, <1>11 DEF Asking, CallsOf
  <2>2. ASSUME NEW u \in calm' \cap synced', NEW l \in Asking(u)'
        PROVE store' # NoToken /\ store'.sub = call'[l].token.sub
    <3>1. CASE u = t
      <4>1. l = k  BY <1>11, <1>8, <2>2, <3>1
      <4> QED BY <1>4, <1>5, <1>6, <1>10, <4>1
    <3>2. CASE u # t
      <4>1. u \in synced /\ store' = store /\ u \in calm /\ u \in Tabs
            BY <1>4, <1>8, <2>2, <3>2
      <4> QED BY <1>11, <2>1, <2>2, <3>2, <4>1 DEF IInv, AsksForStored
    <3> QED BY <3>1, <3>2
  <2> QED BY <2>2 DEF AsksForStored
<1>15. ScreenMatchesToken'
      BY <1>4, <1>11, <1>12, <1>8 DEF IInv, ScreenMatchesToken
<1>16. LoginsCarryTokens'  BY <1>6, <1>10 DEF IInv, LoginsCarryTokens, Ok
<1> QED BY <1>9, <1>13, <1>14, <1>15, <1>16 DEF IInv

\* A registration goes on to log in.
LEMMA RegisterDoneKeeps ==
    ASSUME IInv, NEW k \in Calls, RegisterDone(k) PROVE IInv'
<1> DEFINE c == Request(call[k].tab, "login", call[k].form, NoToken)
<1>1. TypeOK /\ call[k] # NoCall /\ call[k].op = "register" /\ call[k].tab \in Tabs /\ call[k].form \in Form
      BY CallTypes DEF IInv, RegisterDone, Ok
<1>2. call' = [call EXCEPT ![k] = c] /\ UNCHANGED <<account, secret, store, tab, synced, calm>>
      BY DEF RegisterDone
<1>3. c \in Call /\ c.tab = call[k].tab /\ c.op = "login" /\ c.reply = "none"
      BY <1>1 DEF Request, Call, Replies
<1> HIDE DEF c
<1>4. TypeOK'  BY <1>1, <1>2, <1>3 DEF TypeOK
<1>5. \A l \in Calls : call'[l] # NoCall => call[l] # NoCall /\ Alike(call[l], call'[l])
      BY <1>1, <1>2, <1>3 DEF TypeOK, Alike
<1>6. LoginsCarryTokens'  BY <1>1, <1>2, <1>3 DEF IInv, LoginsCarryTokens, Ok, TypeOK
<1>7. \A l \in Calls : call[l] # NoCall => call'[l] # NoCall
      BY <1>1, <1>2, <1>3, NoneType DEF TypeOK
<1> QED BY <1>2, <1>4, <1>5, <1>6, <1>7, Unmoved

\* A refused form keeps the invariant.
LEMMA FormFailedKeeps ==
    ASSUME IInv, NEW k \in Calls, FormFailed(k) PROVE IInv'
<1>1. PICK t \in Tabs : t = call[k].tab  BY CallTypes DEF IInv, FormFailed
<1>2. TypeOK /\ call' = [call EXCEPT ![k] = NoCall] /\ UNCHANGED <<account, secret, store, tab, synced>>
      BY DEF IInv, FormFailed, Drop
<1>3. /\ calm' \subseteq calm /\ calm' \subseteq Tabs
      /\ call[k].op = "me" /\ tab[t].status = "authenticated" => t \notin calm'
      /\ call[k].op # "me" => calm' = calm
      BY <1>1, <1>2 DEF FormFailed, Disturbs, TypeOK
<1>4. TypeOK'  BY <1>2, <1>3 DEF TypeOK
<1>5. call'[k] = NoCall /\ \A l \in Calls : l # k => call'[l] = call[l]
      BY <1>2 DEF TypeOK
<1>6. LoginsCarryTokens'  BY <1>5 DEF IInv, LoginsCarryTokens, Ok
<1>7. CASE call[k].op # "me"
  <2>1. \A l \in Calls : call'[l] # NoCall => call[l] # NoCall /\ Alike(call[l], call'[l])
        BY <1>5 DEF Alike
  <2>2. \A l \in Calls : call[l] # NoCall /\ call[l].op \in {"boot", "me"} => call'[l] # NoCall
        BY <1>5, <1>7 DEF FormFailed
  <2> QED BY <1>2, <1>3, <1>4, <1>6, <1>7, <2>1, <2>2, Unmoved
<1>8. CASE call[k].op = "me"
  <2>1. /\ Asking(t)' = Asking(t) \ {k}
        /\ \A u \in Tabs : u # t => Asking(u)' = Asking(u)
        BY <1>1, <1>5 DEF Asking, CallsOf
  <2>2. \A u \in Tabs : Asking(u)' \subseteq Asking(u)
        /\ \A l \in Asking(u)' : call'[l] = call[l]
        BY <1>5, <2>1 DEF Asking, CallsOf
  <2>3. AsksOnce'  BY <1>3, <2>2 DEF IInv, AsksOnce
  <2>4. AsksForStored'  BY <1>2, <1>3, <2>2 DEF IInv, AsksForStored
  <2>5. ScreenMatchesToken'
        BY <1>2, <1>3, <1>8, <2>1 DEF IInv, ScreenMatchesToken
  <2> QED BY <1>4, <1>6, <2>3, <2>4, <2>5 DEF IInv
<1> QED BY <1>7, <1>8

-----------------------------------------------------------------------------
\* The invariant holds before any tab is open.
LEMMA InitInv == Init => IInv
<1> SUFFICES ASSUME Init PROVE IInv
    OBVIOUS
<1>1. TypeOK  BY DEF Init, AccountsInit, TypeOK, Closed, Tab
<1>2. \A k \in Calls : call[k] = NoCall  BY DEF Init
<1> QED BY <1>1, <1>2 DEF Init, IInv, LoginsCarryTokens, Ok, AsksOnce, AsksForStored,
           ScreenMatchesToken, Asking, CallsOf, Closed

\* Every step keeps the invariant.
LEMMA NextKeeps == IInv /\ [Next]_vars => IInv'
<1> SUFFICES ASSUME IInv, [Next]_vars PROVE IInv'
    OBVIOUS
<1>1. CASE UNCHANGED vars
  <2>1. TypeOK'  BY <1>1 DEF IInv, TypeOK, vars
  <2>2. LoginsCarryTokens'  BY <1>1 DEF IInv, LoginsCarryTokens, Ok, vars
  <2> QED BY <1>1, <2>1, <2>2, Unmoved DEF vars, Alike
<1>2. ASSUME NEW t \in Tabs, User(t) PROVE IInv'
      BY <1>2, OpenKeeps, SubmitKeeps, LogoutKeeps DEF User
<1>3. ASSUME NEW k \in Calls, Resume(k) PROVE IInv'
  <2>1. CASE BootDone(k)  BY <2>1, ShownKeeps DEF BootDone, Ok
  <2>2. CASE MeDone(k)  BY <2>2, ShownKeeps DEF MeDone, Ok
  <2> QED BY <1>3, <2>1, <2>2, BootFailedKeeps, LoginDoneKeeps, RegisterDoneKeeps, FormFailedKeeps
          DEF Resume
<1> QED BY <1>1, <1>2, <1>3, ServeKeeps, LoseKeeps, ExpireKeeps, ModerateKeeps DEF Next

(* The inductive invariant: besides what the theorems below state, that a  *)
(* calm tab asks once at a time, and for whose token is stored.            *)
THEOREM Invariance == Spec => []IInv
BY InitInv, NextKeeps, PTL DEF Spec

(* Every variable of the tabs, the requests and the accounts has its type  *)
(* (AuthContext.tsx:20-36).                                                *)
THEOREM TypeCorrect == Spec => []TypeOK
<1>1. IInv => TypeOK  BY DEF IInv
<1> QED BY <1>1, Invariance, PTL

(* The user on the screen of a tab is whose token its requests carry, with  *)
(* three exceptions and no other: another tab wrote the storage, the tab    *)
(* itself wrote it while its /me was under way, or that /me failed while    *)
(* someone else was shown (AuthContext.tsx:43-93).                          *)
THEOREM ScreenIsWhoAsks == Spec => []ScreenMatchesToken
<1>1. IInv => ScreenMatchesToken  BY DEF IInv
<1> QED BY <1>1, Invariance, PTL

-----------------------------------------------------------------------------
\* Accounts are kept under the address they are trimmed and lowered to.
Canonical == \A s \in Spellings : account[s] # "none" => Address[s] = s

\* Accounts stay registered under their canonical address alone.
LEMMA CanonicalKeeps == TypeOK /\ Canonical /\ [Next]_vars => Canonical'
<1> SUFFICES ASSUME TypeOK, Canonical, [Next]_vars PROVE Canonical'
    OBVIOUS
<1>1. CASE UNCHANGED account  BY <1>1 DEF Canonical
<1>2. ASSUME NEW k \in Calls, Serve(k), account' # account PROVE Canonical'
  <2>1. call[k] # NoCall /\ call[k].op = "register" /\ Register(call[k].form)
        BY <1>2 DEF Serve, accountVars
  <2>2. call[k].form \in Form  BY <2>1, CallTypes
  <2>3. Key(call[k].form) \in Spellings /\ Address[Key(call[k].form)] = Key(call[k].form)
        BY <2>2, TokenTypes, AddressType DEF Key, Form
  <2>4. \A s \in Spellings : s # Key(call[k].form) => account'[s] = account[s]
        BY <2>1, <2>3 DEF Register, accountVars, TypeOK
  <2> QED BY <2>3, <2>4 DEF Canonical
<1>3. ASSUME NEW s \in Spellings, Moderate(s) PROVE Canonical'
      BY <1>3 DEF Moderate, SetActive, Canonical, TypeOK
<1> QED BY <1>1, <1>2, <1>3
        DEF Next, vars, User, Open, Submit, Logout, Lose, Expire, Resume, BootDone, BootFailed,
            LoginDone, MeDone, RegisterDone, FormFailed

\* Accounts are only ever registered under their canonical address.
LEMMA AlwaysCanonical == Spec => []Canonical
<1>1. Init => Canonical  BY DEF Init, AccountsInit, Canonical
<1> QED BY <1>1, CanonicalKeeps, TypeCorrect, PTL DEF Spec

(* Addresses are the same however they are spelled: no two accounts share  *)
(* one (auth_service.py:65-84, schemas/user.py:27-41).                     *)
THEOREM AddressesStayUnique == Spec => []OneAccountPerAddress
<1>1. Canonical => OneAccountPerAddress  BY DEF Canonical, OneAccountPerAddress
<1> QED BY <1>1, AlwaysCanonical, PTL

\* Only the server refuses.
LEMMA RefusalIsServed ==
    ASSUME TypeOK, Next, NEW k \in Calls, call[k] # NoCall, call'[k] # NoCall,
           call[k].reply = "none", call'[k].reply = "refused"
    PROVE  Serve(k)
<1>1. ASSUME NEW t \in Tabs, NEW l \in Calls, NEW o, NEW f, NEW x,
             call'[k] = Request(t, o, f, x) PROVE FALSE
      BY <1>1 DEF Request
<1>2. ASSUME NEW t \in Tabs, Open(t) PROVE FALSE
      BY <1>1, <1>2 DEF Open, TypeOK, Request
<1>3. ASSUME NEW t \in Tabs, NEW o, NEW f, Submit(t, o, f) PROVE FALSE
      BY <1>1, <1>3 DEF Submit, TypeOK, Request
<1>4. ASSUME NEW l \in Calls, Lose(l) PROVE FALSE
  <2>1. CASE l = k
        <3>1. call[k] \in Call  BY CallTypes
        <3>2. [call[k] EXCEPT !.reply = "failed"].reply = "failed"  BY <3>1 DEF Call
        <3> QED BY <1>4, <2>1, <3>2 DEF Lose, TypeOK
  <2> QED BY <1>4, <2>1 DEF Lose, TypeOK
<1>5. ASSUME NEW s, Expire(s) PROVE FALSE
  <2>1. \A c \in Call : [c EXCEPT !.token.live = FALSE].reply = c.reply
        BY DEF Call
  <2> QED BY <1>5, <2>1, CallTypes DEF Expire
<1>6. ASSUME NEW l \in Calls, Resume(l) PROVE FALSE
      BY <1>6 DEF Resume, BootDone, BootFailed, LoginDone, MeDone, RegisterDone, FormFailed, Drop,
                  Request, TypeOK, Ok
<1>7. ASSUME NEW l \in Calls, l # k, Serve(l) PROVE FALSE
      BY <1>7 DEF Serve, Answered, TypeOK
<1> QED BY <1>2, <1>3, <1>4, <1>5, <1>6, <1>7 DEF Next, User, Logout, Moderate

\* A login is refused only if no active account of the address has the password.
LEMMA OnlyStrangersAreRefused ==
    TypeOK /\ Canonical /\ Next =>
      \A k \in Calls :
          call[k] # NoCall /\ call'[k] # NoCall /\ call[k].op = "login"
          /\ call[k].reply = "none" /\ call'[k].reply = "refused"
          => ~\E s \in Spellings :
                /\ Address[s] = Address[call[k].form.who]
                /\ account[s] = "active" /\ secret[s] = call[k].form.password
<1> SUFFICES ASSUME TypeOK, Canonical, Next, NEW k \in Calls, call[k] # NoCall, call'[k] # NoCall,
                    call[k].op = "login", call[k].reply = "none", call'[k].reply = "refused",
                    NEW s \in Spellings, Address[s] = Address[call[k].form.who],
                    account[s] = "active", secret[s] = call[k].form.password
             PROVE  FALSE
    OBVIOUS
<1>1. Serve(k)  BY RefusalIsServed
<1>2. s = Key(call[k].form)  BY DEF Canonical, Key
<1>3. LoginAccepts(call[k].form)  BY <1>2 DEF LoginAccepts, Known
<1>4. call' = [call EXCEPT ![k].reply = "ok", ![k].token = LoginToken(call[k].form)]
      BY <1>1, <1>3 DEF Serve
<1>5. call[k] \in Call  BY CallTypes
<1>6. [call[k] EXCEPT !.reply = "ok", !.token = LoginToken(call[k].form)].reply = "ok"
      BY <1>5 DEF Call
<1> QED BY <1>4, <1>6 DEF TypeOK

(* A registered, active user with the right password is never refused,     *)
(* whatever the spelling of the address (auth_service.py:88-118).          *)
THEOREM RegisteredUsersGetIn == Spec => OwnersGetIn
<1>1. TypeOK /\ Canonical /\ [Next]_vars =>
        [\A k \in Calls :
          call[k] # NoCall /\ call'[k] # NoCall /\ call[k].op = "login"
          /\ call[k].reply = "none" /\ call'[k].reply = "refused"
          => ~\E s \in Spellings :
                /\ Address[s] = Address[call[k].form.who]
                /\ account[s] = "active" /\ secret[s] = call[k].form.password]_vars
      BY OnlyStrangersAreRefused
<1> QED BY <1>1, AlwaysCanonical, TypeCorrect, PTL DEF Spec, OwnersGetIn

-----------------------------------------------------------------------------
\* A tab that goes on loading keeps its bootstrap; only opening it starts loading.
LEMMA LoadingKeeps ==
    ASSUME TypeOK, LoadingHasCause, [Next]_vars, NEW t \in Tabs, tab'[t].status = "loading"
    PROVE  \E k \in Calls : call'[k] # NoCall /\ call'[k].tab = t /\ call'[k].op = "boot"
<1> DEFINE Boots(c) == c # NoCall /\ c.tab = t /\ c.op = "boot"
<1>1. tab[t].status = "loading" => \E k \in Calls : Boots(call[k])
      BY DEF LoadingHasCause, CallsOf
<1>2. CASE UNCHANGED <<tab, call>>  BY <1>1, <1>2
<1>3. ASSUME NEW u \in Tabs, Open(u) PROVE \E k \in Calls : Boots(call'[k])
  <2>1. CASE u = t
    <3>1. store # NoToken  BY <1>3, <2>1 DEF Open, SignedOut, TypeOK
    <3> DEFINE boot == Request(t, "boot", NoForm, store)
    <3>2. boot \in Call /\ boot.tab = t /\ boot.op = "boot"
          BY <3>1 DEF TypeOK, Request, Call, Replies
    <3> HIDE DEF boot
    <3>3. \E k \in Calls : call'[k] = boot
          BY <1>3, <2>1, <3>1 DEF Open, boot
    <3> QED BY <3>2, <3>3, NoneType
  <2>2. CASE u # t
    <3>1. tab[t].status = "loading"  BY <1>3, <2>2 DEF Open, TypeOK
    <3>2. PICK k \in Calls : Boots(call[k])  BY <1>1, <3>1
    <3>3. call'[k] = call[k]
          BY <1>3, <2>2, <3>2 DEF Open, CallsOf
    <3> QED BY <3>2, <3>3
  <2> QED BY <2>1, <2>2
<1>4. ASSUME NEW u \in Tabs, NEW o, NEW f, Submit(u, o, f) PROVE \E k \in Calls : Boots(call'[k])
      BY <1>1, <1>4 DEF Submit, TypeOK
<1>5. ASSUME NEW u \in Tabs, Logout(u) PROVE \E k \in Calls : Boots(call'[k])
      BY <1>1, <1>5 DEF Logout, SignedOut, TypeOK
<1>6. ASSUME NEW l \in Calls, Serve(l) PROVE \E k \in Calls : Boots(call'[k])
  <2>1. PICK k \in Calls : Boots(call[k])  BY <1>1, <1>6 DEF Serve
  <2>2. call[k] \in Call  BY <2>1, CallTypes
  <2>3. \A r : [call[k] EXCEPT !.reply = r].tab = t /\ [call[k] EXCEPT !.reply = r].op = "boot"
        BY <2>1, <2>2 DEF Call
  <2>4. l = k => \E r \in {"ok", "refused"} : call' = [call EXCEPT ![k] = [call[k] EXCEPT !.reply = r]]
        BY <1>6, <2>1 DEF Serve, Answered
  <2>5. l # k => call'[k] = call[k]
        BY <1>6 DEF Serve, Answered, TypeOK
  <2>6. l = k => \E r \in {"ok", "refused"} : call'[k] = [call[k] EXCEPT !.reply = r]
        BY <2>4 DEF TypeOK
  <2>7. \A r \in {"ok", "refused"} : [call[k] EXCEPT !.reply = r] \in Call
        BY <2>2, ReplyTypes DEF Replies
  <2>8. l = k => call'[k].tab = t /\ call'[k].op = "boot"  BY <2>3, <2>6
  <2>9. l = k => call'[k] # NoCall  BY <2>6, <2>7, NoneType
  <2> QED BY <2>1, <2>5, <2>8, <2>9
<1>7. ASSUME NEW l \in Calls, Resume(l) PROVE \E k \in Calls : Boots(call'[k])
  <2>1. CASE tab' = tab /\ call[l].op # "boot"
    <3>1. PICK k \in Calls : Boots(call[k])  BY <1>1, <2>1
    <3>2. call'[k] = call[k]
          BY <1>7, <2>1, <3>1 DEF Resume, BootDone, BootFailed, LoginDone, MeDone, RegisterDone,
             FormFailed, Drop, Ok, TypeOK
    <3> QED BY <3>1, <3>2
  <2>2. CASE Drop(l) /\ call[l] # NoCall /\ tab'[call[l].tab].status # "loading"
             /\ \A u \in Tabs : u # call[l].tab => tab'[u] = tab[u]
    <3>1. PICK k \in Calls : Boots(call[k])  BY <1>1, <2>2
    <3>2. k # l  BY <2>2, <3>1
    <3> QED BY <2>2, <3>1, <3>2 DEF Drop, TypeOK
  <2>3. CASE LoginDone(l) \/ RegisterDone(l) \/ FormFailed(l)
        BY <2>1, <2>3 DEF LoginDone, RegisterDone, FormFailed, Ok
  <2>4. CASE BootDone(l) \/ MeDone(l) \/ BootFailed(l)
    <3>1. call[l].tab \in Tabs  BY <2>4, CallTypes DEF BootDone, MeDone, BootFailed, Ok
    <3>2. CASE BootFailed(l)
          BY <2>2, <3>1, <3>2 DEF BootFailed, TypeOK, Tab
    <3>3. CASE BootDone(l) \/ MeDone(l)
          BY <2>2, <3>1, <3>3 DEF BootDone, MeDone, Show, Ok, TypeOK
    <3> QED BY <2>4, <3>2, <3>3
  <2> QED BY <1>7, <2>3, <2>4 DEF Resume
<1>8. ASSUME NEW l \in Calls, Lose(l) PROVE \E k \in Calls : Boots(call'[k])
  <2>1. PICK k \in Calls : Boots(call[k])  BY <1>1, <1>8 DEF Lose
  <2>2. call[k] \in Call  BY <2>1, CallTypes
  <2>3. /\ [call[k] EXCEPT !.reply = "failed"] \in Call
        /\ [call[k] EXCEPT !.reply = "failed"].tab = t
        /\ [call[k] EXCEPT !.reply = "failed"].op = "boot"
        BY <2>1, <2>2, ReplyTypes DEF Replies
  <2>4. call'[k] = IF l = k THEN [call[k] EXCEPT !.reply = "failed"] ELSE call[k]
        BY <1>8 DEF Lose, TypeOK
  <2> QED BY <2>1, <2>3, <2>4, NoneType
<1>9. ASSUME NEW s \in Spellings, Expire(s) PROVE \E k \in Calls : Boots(call'[k])
  <2>1. PICK k \in Calls : Boots(call[k])  BY <1>1, <1>9 DEF Expire
  <2>2. call[k] \in Call  BY <2>1, CallTypes
  <2> DEFINE old == [call[k] EXCEPT !.token.live = FALSE]
  <2>3. call[k].token \in Token  BY <2>1, CallTypes
  <2>4. [call[k].token EXCEPT !.live = FALSE] \in Token  BY <2>3 DEF Token
  <2>5. old \in Call /\ old.tab = t /\ old.op = "boot"  BY <2>1, <2>2, <2>4 DEF Call
  <2>6. call'[k] \in {call[k], old}  BY <1>9 DEF Expire
  <2> HIDE DEF old
  <2> QED BY <2>1, <2>5, <2>6, NoneType
<1> QED BY <1>2, <1>3, <1>4, <1>5, <1>6, <1>7, <1>8, <1>9 DEF Next, User, Moderate, vars

(* A tab that shows "Checking your session..." has its bootstrap under     *)
(* way, which ends it (AuthContext.tsx:43-67).                             *)
THEOREM LoadingEnds == Spec => []LoadingHasCause
<1>1. Init => LoadingHasCause  BY DEF Init, LoadingHasCause, Closed
<1>2. TypeOK /\ LoadingHasCause /\ [Next]_vars => LoadingHasCause'
      BY LoadingKeeps DEF LoadingHasCause, CallsOf
<1> QED BY <1>1, <1>2, TypeCorrect, PTL DEF Spec
=============================================================================
