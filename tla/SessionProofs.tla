--------------------------- MODULE SessionProofs ---------------------------
(***************************************************************************)
(* Proofs about Sessions, for any configurations, any number of requests   *)
(* and any supply of tokens.                                               *)
(***************************************************************************)
EXTENDS Sessions, TLAPS

(* A live session was issued by this configuration, for a user it has, and *)
(* was not ended.                                                          *)
Live ==
  \A t \in DOMAIN sessions :
    /\ t \in DOMAIN issued \ ended /\ issued[t].name = sessions[t]
    /\ \E i \in DOMAIN cfg.users : /\ cfg.users[i].name = issued[t].name
                                   /\ cfg.users[i].perms = issued[t].perms

SInv == TypeOK /\ Live

(* The configuration that is loaded.                                       *)
LEMMA UserTypes == ASSUME TypeOK
                   PROVE  /\ cfg.guest \in Perms
                          /\ \A i \in DOMAIN cfg.users : cfg.users[i] \in User
BY SessionsAssumption DEF TypeOK, Config

(* What the extractor makes of a cookie.                                   *)
LEMMA Resolved ==
  ASSUME SInv, NEW t, NEW who \in CurrentUser(t)
  PROVE  \/ who.user = NoUser /\ who.perms \in Perms
         \/ /\ t \in DOMAIN issued \ ended /\ who.user = issued[t].name
            /\ who.user \in Name /\ who.perms \in Perms
            /\ UniqueNames(cfg) => who.perms = issued[t].perms
<1> DEFINE fit == {i \in DOMAIN cfg.users : cfg.users[i].name = sessions[t]}
<1>1. CASE t \notin DOMAIN sessions \/ fit = {}
  BY <1>1, UserTypes DEF CurrentUser, SInv
<1>2. CASE t \in DOMAIN sessions /\ fit # {}
  <2>1. PICK i \in DOMAIN cfg.users :
          /\ cfg.users[i].name = sessions[t]
          /\ who = [user |-> cfg.users[i].name, perms |-> cfg.users[i].perms]
    BY <1>2 DEF CurrentUser, First
  <2>2. cfg.users[i].name \in Name /\ cfg.users[i].perms \in Perms
    BY UserTypes DEF SInv, User
  <2>3. t \in DOMAIN issued \ ended /\ issued[t].name = sessions[t]
    BY <1>2 DEF SInv, Live
  <2>4. UniqueNames(cfg) => cfg.users[i].perms = issued[t].perms
    BY <1>2, <2>1, <2>3 DEF SInv, Live, UniqueNames
  <2> QED
    BY <2>1, <2>2, <2>3, <2>4
<1> QED
  BY <1>1, <1>2

(* What every step of Next guarantees besides the invariant.               *)
Good ==
  /\ \A q \in Req : Extracts(q) /\ req'[q].token \in ended
                    => req'[q].user = NoUser
  /\ \A q \in Req :
       Extracts(q) /\ req'[q].user # NoUser
       => LET grant == issued[req'[q].token]
          IN  /\ req'[q].user = grant.name
              /\ UniqueNames(cfg) => req'[q].perms = grant.perms
  /\ \A t \in DOMAIN sessions \ DOMAIN sessions' :
       \/ boots' # boots
       \/ \E q \in Req : /\ req[q].pc = "serving"
                                  /\ req[q].op = "logout"
                         /\ req[q].user = sessions[t]
                         /\ req'[q].pc = "answered"

(* A login, refused or accepted.                                           *)
LEMMA LoginInv ==
  ASSUME SInv, NEW q \in Req, NEW name \in Name, NEW pass \in Pass,
         Login(q, name, pass)
  PROVE  SInv' /\ Good
<1> DEFINE fit == {i \in DOMAIN cfg.users : /\ cfg.users[i].name = name
                                            /\ cfg.users[i].pass = pass}
<1>1. UNCHANGED << cfg, boots, ended >> /\ req \in [Req -> Handler]
  BY DEF Login, SInv, TypeOK
<1>2. CASE /\ fit = {}
           /\ req' = [req EXCEPT ![q].pc = "refused", ![q].op = "login"]
           /\ UNCHANGED << sessions, issued >>
  <2>1. req' \in [Req -> Handler]
    BY <1>1, <1>2 DEF Handler
  <2>2. SInv'
    BY <1>1, <1>2, <2>1 DEF SInv, TypeOK, Live
  <2>3. \A p \in Req : ~Extracts(p)
    BY <1>1, <1>2 DEF Extracts, Handler
  <2> QED
    BY <1>2, <2>2, <2>3 DEF Good
<1>3. ASSUME NEW i \in First(fit), NEW t \in FreshToken,
             sessions' = Set(sessions, t, cfg.users[i].name),
             req' = [req EXCEPT
               ![q] = [pc |-> "answered", op |-> "login", token |-> t,
                       user |-> cfg.users[i].name,
                       perms |-> cfg.users[i].perms]],
             issued' = Set(issued, t, [name |-> cfg.users[i].name,
                                       perms |-> cfg.users[i].perms])
      PROVE  SInv' /\ Good
  <2>1. /\ i \in DOMAIN cfg.users /\ t \in Token \ DOMAIN issued
        /\ cfg.users[i].name \in Name /\ cfg.users[i].perms \in Perms
    BY <1>3, UserTypes DEF First, FreshToken, SInv, User
  <2>2. req' \in [Req -> Handler]
    BY <1>1, <1>3, <2>1 DEF Handler
  <2>3. TypeOK'
    BY <1>1, <1>3, <2>1, <2>2 DEF SInv, TypeOK, Set, Grant
  <2>4. Live'
    <3>1. t \notin ended /\ DOMAIN sessions' = DOMAIN sessions \union {t}
          /\ DOMAIN issued' = DOMAIN issued \union {t}
      BY <1>3, <2>1 DEF SInv, TypeOK, Set
    <3>2. /\ sessions'[t] = cfg.users[i].name
          /\ issued'[t].name = cfg.users[i].name
          /\ issued'[t].perms = cfg.users[i].perms
      BY <1>3 DEF Set
    <3>3. \A u \in DOMAIN sessions : u # t /\ sessions'[u] = sessions[u]
                                     /\ issued'[u] = issued[u]
      BY <1>3, <2>1 DEF SInv, Live, Set
    <3> QED
      BY <1>1, <2>1, <3>1, <3>2, <3>3 DEF SInv, Live
  <2>5. \A p \in Req : ~Extracts(p)
    BY <1>1, <1>3 DEF Extracts, Handler
  <2> QED
    BY <1>3, <2>3, <2>4, <2>5 DEF SInv, Good, Set
<1> QED
  BY <1>2, <1>3 DEF Login

(* The extractor.                                                          *)
LEMMA ExtractInv ==
  ASSUME SInv, NEW q \in Req, NEW op \in {"serve", "logout"},
         NEW t \in DOMAIN issued \union {NoToken}, Extract(q, op, t)
  PROVE  SInv' /\ Good
<1>1. /\ UNCHANGED << cfg, sessions, boots, issued, ended >>
      /\ req \in [Req -> Handler] /\ t \in Token \union {NoToken}
  BY DEF Extract, SInv, TypeOK
<1>2. PICK who \in CurrentUser(t) :
        req' = [req EXCEPT ![q] =
                  [pc |-> "serving", op |-> op, token |-> t,
                   user |-> who.user, perms |-> who.perms]]
  BY DEF Extract
<1>3. \/ who.user = NoUser /\ who.perms \in Perms
      \/ /\ t \in DOMAIN issued \ ended /\ who.user = issued[t].name
         /\ who.user \in Name /\ who.perms \in Perms
         /\ UniqueNames(cfg) => who.perms = issued[t].perms
  BY Resolved
<1>4. req' \in [Req -> Handler]
  BY <1>1, <1>2, <1>3 DEF Handler
<1>5. SInv'
  BY <1>1, <1>4 DEF SInv, TypeOK, Live
<1>6. /\ \A p \in Req \ {q} : ~Extracts(p)
      /\ req'[q].token = t /\ req'[q].user = who.user
      /\ req'[q].perms = who.perms
  BY <1>1, <1>2 DEF Extracts
<1> QED
  BY <1>1, <1>3, <1>5, <1>6 DEF Good

(* A logout, of a guest or of a user.                                      *)
LEMMA LogoutInv ==
  ASSUME SInv, NEW q \in Req, Logout(q)
  PROVE  SInv' /\ Good
<1>1. /\ UNCHANGED << cfg, boots, issued >> /\ req \in [Req -> Handler]
      /\ req[q].pc = "serving" /\ req[q].op = "logout"
      /\ req' = [req EXCEPT ![q].pc = "answered"]
  BY DEF Logout, SInv, TypeOK
<1>2. /\ req' \in [Req -> Handler] /\ req'[q].pc = "answered"
      /\ \A p \in Req : ~Extracts(p)
  BY <1>1 DEF Extracts, Handler
<1>3. CASE req[q].user = NoUser
  BY <1>1, <1>2, <1>3 DEF Logout, SInv, TypeOK, Live, Good
<1>4. CASE req[q].user # NoUser
  <2>1. /\ DOMAIN sessions' = {t \in DOMAIN sessions :
                                 sessions[t] # req[q].user}
        /\ \A t \in DOMAIN sessions' : sessions'[t] = sessions[t]
        /\ ended' = ended \union
                      {t \in DOMAIN issued : issued[t].name = req[q].user}
    BY <1>4 DEF Logout, DropByUser
  <2>2. SInv'
    BY <1>1, <1>2, <2>1 DEF SInv, TypeOK, Live
  <2>3. \A t \in DOMAIN sessions \ DOMAIN sessions' :
          req[q].user = sessions[t]
    BY <2>1
  <2> QED
    BY <1>1, <1>2, <2>2, <2>3 DEF Good
<1> QED
  BY <1>3, <1>4

(* Every step keeps the invariant and is a good one.                       *)
LEMMA NextInv == SInv /\ [Next]_vars => SInv' /\ Good
<1> SUFFICES ASSUME SInv, [Next]_vars PROVE SInv' /\ Good
  OBVIOUS
<1>1. ASSUME NEW q \in Req, NEW name \in Name, NEW pass \in Pass,
             Login(q, name, pass)
      PROVE  SInv' /\ Good
  BY <1>1, LoginInv
<1>2. ASSUME NEW q \in Req, NEW op \in {"serve", "logout"},
             NEW t \in DOMAIN issued \union {NoToken}, Extract(q, op, t)
      PROVE  SInv' /\ Good
  BY <1>2, ExtractInv
<1>3. ASSUME NEW q \in Req, Serve(q)
      PROVE  SInv' /\ Good
  <2>1. req' \in [Req -> Handler] /\ \A p \in Req : ~Extracts(p)
    BY <1>3 DEF Serve, SInv, TypeOK, Handler, Extracts
  <2>2. UNCHANGED << cfg, sessions, boots, issued, ended >>
    BY <1>3 DEF Serve
  <2> QED
    BY <2>1, <2>2 DEF SInv, TypeOK, Live, Good
<1>4. ASSUME NEW q \in Req, Logout(q)
      PROVE  SInv' /\ Good
  BY <1>4, LogoutInv
<1>5. CASE Restart
  <2>1. /\ req' \in [Req -> Handler] /\ \A p \in Req : ~Extracts(p)
        /\ boots' \in 0 .. MaxBoots /\ boots' # boots
    BY <1>5, SessionsAssumption
       DEF Restart, SInv, TypeOK, Handler, Extracts
  <2>2. /\ cfg' \in Configs /\ DOMAIN sessions' = {} /\ issued' = issued
        /\ ended' = DOMAIN issued
    BY <1>5 DEF Restart, Empty
  <2> QED
    BY <2>1, <2>2 DEF SInv, TypeOK, Live, Good
<1>6. CASE UNCHANGED vars
  BY <1>6 DEF vars, SInv, TypeOK, Live, Good, Extracts
<1> QED
  BY <1>1, <1>2, <1>3, <1>4, <1>5, <1>6 DEF Next, AllAnswered

(* The invariant holds at start.                                           *)
LEMMA InitInv == Init => SInv
BY SessionsAssumption
   DEF Init, SInv, TypeOK, Live, Idle, Empty, Handler, Config

(* Types, for any number of requests, tokens, users and restarts.          *)
THEOREM SessionTypes == Spec => []TypeOK
<1>1. SInv => TypeOK
  BY DEF SInv
<1> QED
  BY <1>1, InitInv, NextInv, PTL DEF Spec

(* No request that arrives after a logout or a restart acts as a user with *)
(* a session they ended.                                                   *)
THEOREM LogoutIsFinal == Spec => LoggedOutStaysOut
<1>1. Good => \A q \in Req : Extracts(q) /\ req'[q].token \in ended
                             => req'[q].user = NoUser
  BY DEF Good
<1> QED
  BY <1>1, InitInv, NextInv, PTL DEF Spec, LoggedOutStaysOut

(* A request acts as the user, and with unique names with the permissions, *)
(* that the login of its cookie answered.                                  *)
THEOREM GrantIsKept == Spec => SameGrant
<1>1. Good => \A q \in Req :
                Extracts(q) /\ req'[q].user # NoUser
                => LET grant == issued[req'[q].token]
                   IN  /\ req'[q].user = grant.name
                       /\ UniqueNames(cfg) => req'[q].perms = grant.perms
  BY DEF Good
<1> QED
  BY <1>1, InitInv, NextInv, PTL DEF Spec, SameGrant

(* A session ends by a logout of its user or by a restart.                 *)
THEOREM EndedByOwner == Spec => OnlyOwnersEnd
<1>1. Good => \A t \in DOMAIN sessions \ DOMAIN sessions' :
                \/ boots' # boots
                \/ \E q \in Req :
                     /\ req[q].pc = "serving" /\ req[q].op = "logout"
                     /\ req[q].user = sessions[t]
                     /\ req'[q].pc = "answered"
  BY DEF Good
<1> QED
  BY <1>1, InitInv, NextInv, PTL DEF Spec, OnlyOwnersEnd
=============================================================================
