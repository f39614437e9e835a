------------------------------ MODULE WebdConf ------------------------------
(***************************************************************************)
(* The directives of flyo.conf and webd.conf, flyo/src/config.rs: what     *)
(* each does to the configuration, and what it needs to be well formed.    *)
(***************************************************************************)
EXTENDS ConfLines

(* Perms, as the set of the permissions that are true, by their letters.   *)
Permissions == {"r", "l", "u", "m", "S", "T", "D"}

FromTag(tag) ==
  IF tag = << "0" >> THEN {} ELSE ToSet(tag) \intersect Permissions

GuestDefault == {"r", "l"}

(* << >> is a path that is empty or absent.                                *)
WebdDefault ==
  [root |-> << >>, listen |-> << >>, users |-> << >>,
   guest |-> GuestDefault, hide_tray |-> FALSE, browser |-> << >>]

DefaultListen == << "0.0.0.0", ":", "9212" >>

(* What the program puts in of its own are characters too.                 *)
ASSUME DefaultAssumption == {"0.0.0.0", ":", "9212", "cwd"} \subseteq STRING

(* The arguments a directive needs; a line with fewer is an error.         *)
WebdKeys == {"webd.root", "webd.listen", "webd.user", "webd.guest",
             "webd.hide", "webd.browser"}
WebdArgs ==
  [k \in WebdKeys |-> IF k = "webd.user" THEN 3
                      ELSE IF k \in {"webd.hide", "webd.browser"} THEN 0
                      ELSE 1]

(* Mutation of AddUser: one user too many is kept.                         *)
AddFour(users, args) ==
  IF Len(users) > 3 THEN users
  ELSE Append(users, [perms |-> FromTag(args[1]), name |-> args[2],
                      pass |-> args[3]])

(* A fourth user is passed over with a warning.                            *)
AddUser(users, args) ==
  IF Len(users) >= 3 THEN users
  ELSE Append(users, [perms |-> FromTag(args[1]), name |-> args[2],
                      pass |-> args[3]])

WebdSet(cfg, key, args) ==
  CASE key = "webd.root"    -> [cfg EXCEPT !.root = args[1]]
    [] key = "webd.listen"  ->
         [cfg EXCEPT !.listen = Append(@, NormalizeListen(args[1]))]
    [] key = "webd.user"    -> [cfg EXCEPT !.users = AddUser(@, args)]
    [] key = "webd.guest"   -> [cfg EXCEPT !.guest = FromTag(args[1])]
    [] key = "webd.hide"    -> [cfg EXCEPT !.hide_tray = TRUE]
    [] key = "webd.browser" -> [cfg EXCEPT !.browser =
                                  IF args = << >> THEN << >> ELSE args[1]]

(* The end of parse(): somewhere to listen.                                *)
WebdEnd(cfg) ==
  IF cfg.listen = << >> THEN [cfg EXCEPT !.listen = << DefaultListen >>]
  ELSE cfg
=============================================================================
