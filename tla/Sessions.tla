------------------------------ MODULE Sessions ------------------------------
(***************************************************************************)
(* flyo's sessions: flyo/src/auth.rs and the login, logout and whoami      *)
(* handlers of flyo/src/main.rs.  Every handler but login starts with an   *)
(* extractor that turns the cookie into an identity, under a read lock;    *)
(* what the handler does comes later, so other requests run in between.    *)
(***************************************************************************)
EXTENDS Naturals, Sequences

CONSTANTS Req, Token, Name, Pass, Perms,
          NoUser, NoToken,  \* None, as a user and as a cookie
          Configs,          \* the configurations a start may load
          MaxBoots          \* bound on restarts

VARIABLES cfg,       \* AppState.cfg
          sessions,  \* SessionStore.inner: token -> user name
          req,       \* req[q]: where the handler of request q stands
          boots,     \* restarts so far
          issued,    \* history: token -> what its login answered
          ended      \* history: tokens ended by a logout or a restart

vars == << cfg, sessions, req, boots, issued, ended >>

User == [name : Name, pass : Pass, perms : Perms]
Config == [users : Seq(User), guest : Perms]

ASSUME SessionsAssumption ==
  /\ NoUser \notin Name /\ NoToken \notin Token /\ MaxBoots \in Nat
  /\ Configs \subseteq Config

Empty == [t \in {} |-> NoUser]
Idle(guest) == [pc |-> "idle", op |-> "none", token |-> NoToken,
                user |-> NoUser, perms |-> guest]

Init ==
  /\ cfg \in Configs
  /\ sessions = Empty
  /\ req = [q \in Req |-> Idle(cfg.guest)]
  /\ boots = 0
  /\ issued = Empty
  /\ ended = {}

(* users.iter().find(): the first of the entries that fit.                 *)
First(fit) == {i \in fit : \A j \in fit : i <= j}

(* gen_token(): 32 random characters, taken to be a token never seen.      *)
FreshToken == Token \ DOMAIN issued

Set(f, t, v) == [u \in DOMAIN f \union {t} |-> IF u = t THEN v ELSE f[u]]

(* POST /api/login: one lookup in the fixed configuration, one insert.     *)
Login(q, name, pass) ==
  /\ req[q].pc = "idle"
  /\ LET fit == {i \in DOMAIN cfg.users : /\ cfg.users[i].name = name
                                          /\ cfg.users[i].pass = pass}
     IN  \/ /\ fit = {}
            /\ req' = [req EXCEPT ![q].pc = "refused", ![q].op = "login"]
            /\ UNCHANGED << sessions, issued >>
         \/ \E i \in First(fit), t \in FreshToken :
              LET u == cfg.users[i]
              IN  /\ sessions' = Set(sessions, t, u.name)
                  /\ req' = [req EXCEPT
                       ![q] = [pc |-> "answered", op |-> "login", token |-> t,
                               user |-> u.name, perms |-> u.perms]]
                  /\ issued' = Set(issued, t,
                                   [name |-> u.name, perms |-> u.perms])
  /\ UNCHANGED << cfg, boots, ended >>

(* Mutation of CurrentUser: a user gets the guest's permissions.           *)
UserAsGuest(t) ==
  LET name == IF t \in DOMAIN sessions THEN sessions[t] ELSE NoUser
  IN  {[user |-> name, perms |-> cfg.guest]}

(* CurrentUser::from_token: the user of a live session, else the guest.    *)
CurrentUser(t) ==
  LET fit == IF t \notin DOMAIN sessions THEN {}
             ELSE {i \in DOMAIN cfg.users : cfg.users[i].name = sessions[t]}
  IN  IF fit = {} THEN {[user |-> NoUser, perms |-> cfg.guest]}
      ELSE {[user |-> cfg.users[i].name, perms |-> cfg.users[i].perms] :
              i \in First(fit)}

(* The extractor of logout, whoami and the file handlers.                  *)
Extract(q, op, t) ==
  /\ req[q].pc = "idle"
  /\ \E who \in CurrentUser(t) :
       req' = [req EXCEPT ![q] =
                 [pc |-> "serving", op |-> op, token |-> t,
                  user |-> who.user, perms |-> who.perms]]
  /\ UNCHANGED << cfg, sessions, boots, issued, ended >>

(* whoami answers, or a file handler runs, with what was extracted.        *)
Serve(q) ==
  /\ req[q].pc = "serving" /\ req[q].op = "serve"
  /\ req' = [req EXCEPT ![q].pc = "answered"]
  /\ UNCHANGED << cfg, sessions, boots, issued, ended >>

(* Mutations of DropByUser: it ends the session of this cookie alone,      *)
(* every session of everyone, or it blanks sessions and keeps them.        *)
EvictOne(s, who) == [t \in DOMAIN s \ {who.token} |-> s[t]]
DropAll(s, who) == Empty
Blank(s, who) == [t \in DOMAIN s |-> IF s[t] = who.user THEN NoUser ELSE s[t]]

DropByUser(s, who) == [t \in {u \in DOMAIN s : s[u] # who.user} |-> s[t]]

(* POST /api/logout, after its extractor.                                  *)
Logout(q) ==
  /\ req[q].pc = "serving" /\ req[q].op = "logout"
  /\ req' = [req EXCEPT ![q].pc = "answered"]
  /\ IF req[q].user = NoUser THEN UNCHANGED << sessions, ended >>
     ELSE /\ sessions' = DropByUser(sessions, req[q])
          /\ ended' = ended \union
                        {t \in DOMAIN issued : issued[t].name = req[q].user}
  /\ UNCHANGED << cfg, boots, issued >>

(* The process ends, with its sessions and its handlers, and starts again. *)
Restart ==
  /\ boots < MaxBoots /\ boots' = boots + 1
  /\ cfg' \in Configs
  /\ sessions' = Empty
  /\ ended' = DOMAIN issued
  /\ req' = [q \in Req |->
               IF req[q].pc = "serving" THEN [req[q] EXCEPT !.pc = "gone"]
                                        ELSE req[q]]
  /\ UNCHANGED issued

AllAnswered ==
  /\ \A q \in Req : req[q].pc \notin {"idle", "serving"}
  /\ UNCHANGED vars

Next ==
  \/ \E q \in Req :
       \/ \E name \in Name, pass \in Pass : Login(q, name, pass)
       \/ \E op \in {"serve", "logout"}, t \in DOMAIN issued \union {NoToken} :
            Extract(q, op, t)
       \/ Serve(q)
       \/ Logout(q)
  \/ Restart
  \/ AllAnswered

Spec == Init /\ [][Next]_vars

-----------------------------------------------------------------------------
Grant == [name : Name, perms : Perms]
Handler == [pc : {"idle", "serving", "answered", "refused", "gone"},
            op : {"none", "login", "serve", "logout"},
            token : Token \union {NoToken}, user : Name \union {NoUser},
            perms : Perms]

TypeOK ==
  /\ cfg \in Configs
  /\ DOMAIN sessions \subseteq Token
  /\ \A t \in DOMAIN sessions : sessions[t] \in Name
  /\ req \in [Req -> Handler]
  /\ boots \in 0 .. MaxBoots
  /\ DOMAIN issued \subseteq Token
  /\ \A t \in DOMAIN issued : issued[t] \in Grant
  /\ ended \subseteq DOMAIN issued

Extracts(q) == req[q].pc = "idle" /\ req'[q].pc = "serving"
UniqueNames(c) ==
  \A i, j \in DOMAIN c.users : c.users[i].name = c.users[j].name => i = j

(* Logout "invalidates every session for the cookie holder's user", on     *)
(* every device and those opened while it was under way; a restart ends    *)
(* them all.  No request that arrives later acts as a user with them.      *)
LoggedOutStaysOut ==
  [][\A q \in Req : Extracts(q) /\ req'[q].token \in ended
                    => req'[q].user = NoUser]_vars

(* A request acts as the user its cookie's login answered, and if no two   *)
(* users share a name (the parser allows it) with the permissions of that  *)
(* answer, restarts with another configuration included.                   *)
SameGrant ==
  [][\A q \in Req :
       Extracts(q) /\ req'[q].user # NoUser
       => LET grant == issued[req'[q].token]
          IN  /\ req'[q].user = grant.name
              /\ UniqueNames(cfg) => req'[q].perms = grant.perms]_vars

(* Nobody else's logout and no failed login ends a session: it ends by a   *)
(* logout that was authenticated as its user, or by a restart.             *)
OnlyOwnersEnd ==
  [][\A t \in DOMAIN sessions \ DOMAIN sessions' :
       \/ boots' # boots
       \/ \E q \in Req : /\ req[q].pc = "serving" /\ req[q].op = "logout"
                         /\ req[q].user = sessions[t]
                         /\ req'[q].pc = "answered"]_vars
=============================================================================
