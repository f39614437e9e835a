------------------------------ MODULE Startup ------------------------------
(***************************************************************************)
(* How flyo and flyo-proxy start: main() and locate_config() of either     *)
(* program, Config::parse() line by line, and the first thing that fails.  *)
(* parse() stops at a line it cannot use; in the release profile a panic   *)
(* ends the process as well.                                               *)
(***************************************************************************)
EXTENDS WebdConf, ProxyConf

CONSTANTS Lines,        \* Lines[p]: the lines that a file of program p holds
          MaxLines,     \* bound on the length of a file
          SocketAddrs   \* the tokens that parse as a socket address

VARIABLES prog,   \* the program that starts
          found,  \* locate_config() found a file
          file,   \* the lines that parse() has seen
          cfg,    \* its configuration so far
          st,     \* how far the start is, or how it ended
          served  \* what a program that serves has bound

vars == << prog, found, file, cfg, st, served >>

(* A line of a file, and a token, is a sequence of characters.             *)
ASSUME StartupAssumption ==
  /\ MaxLines \in Nat
  /\ \A p \in {"flyo", "proxy"} : Lines[p] \subseteq Seq(STRING)

NotServed == [addr |-> << >>, scheme |-> "none", cert |-> "none"]

WebdNoFile ==
  [WebdDefault EXCEPT !.root = << "cwd" >>, !.listen = << DefaultListen >>]

(* The first candidate that exists is the file; without one, the defaults. *)
Init ==
  /\ prog \in {"flyo", "proxy"}
  /\ found \in BOOLEAN
  /\ file = << >>
  /\ served = NotServed
  /\ st = IF found THEN "reading" ELSE "parsed"
  /\ cfg = IF prog = "proxy" THEN ProxyDefault
           ELSE IF found THEN WebdDefault ELSE WebdNoFile

Needs == IF prog = "flyo" THEN WebdArgs ELSE ProxyArgs

Names(tokens, key) == tokens # << >> /\ tokens[1] = << key >>

(* An empty line or a directive nobody knows: a warning at most.           *)
PassOver(tokens) ==
  /\ ~ \E key \in DOMAIN Needs : Names(tokens, key)
  /\ UNCHANGED << cfg, st >>

(* An argument is missing, or is not what it should be.                    *)
Reject(key, args) ==
  /\ \/ /\ Len(args) < Needs[key]
        /\ st' = IF prog = "flyo" \/ key \in Checked THEN "bail" ELSE "panic"
     \/ /\ Len(args) >= Needs[key]
        /\ prog = "proxy" /\ Refused(key, args)
        /\ st' = "bail"
  /\ UNCHANGED cfg

Take(key, args) ==
  /\ Len(args) >= Needs[key]
  /\ prog = "proxy" => ~Refused(key, args)
  /\ cfg' = IF prog = "flyo" THEN WebdSet(cfg, key, args)
            ELSE ProxySet(cfg, key, args)
  /\ UNCHANGED st

ReadLine(line) ==
  /\ st = "reading" /\ Len(file) < MaxLines
  /\ file' = Append(file, line)
  /\ LET tokens == Tokenize(line)
     IN  \/ PassOver(tokens)
         \/ \E key \in DOMAIN Needs :
              /\ Names(tokens, key)
              /\ Reject(key, Tail(tokens)) \/ Take(key, Tail(tokens))
  /\ UNCHANGED << prog, found, served >>

(* fs::read_to_string() comes before the first line.                       *)
Unreadable ==
  /\ st = "reading" /\ file = << >>
  /\ st' = "bail"
  /\ UNCHANGED << prog, found, file, cfg, served >>

EndOfFile ==
  /\ st = "reading"
  /\ st' = "parsed"
  /\ cfg' = IF prog = "flyo" THEN WebdEnd(cfg) ELSE ProxyEnd(cfg)
  /\ UNCHANGED << prog, found, file, served >>

(* The address has to parse; binding it may fail all the same.             *)
Bind(addr, scheme, cert) ==
  \/ st' = "bail" /\ UNCHANGED served
  \/ /\ addr \in SocketAddrs
     /\ st' = "serving"
     /\ served' = [addr |-> addr, scheme |-> scheme, cert |-> cert]

(* Only the first address is bound.                                        *)
FlyoMain ==
  /\ st = "parsed" /\ prog = "flyo"
  /\ Bind(cfg.listen[1], "http", "none")
  /\ UNCHANGED << prog, found, file, cfg >>

(* The upstream must be http://; tls::build_server_config() may fail.      *)
ProxyMain ==
  /\ st = "parsed" /\ prog = "proxy"
  /\ \/ /\ cfg.upstream[1] # "http://" \/ cfg.tls # "plain"
        /\ st' = "bail" /\ UNCHANGED served
     \/ /\ cfg.upstream[1] = "http://"
        /\ \/ cfg.tls = "plain" /\ Bind(cfg.listen, "http", "none")
           \/ cfg.tls # "plain" /\ Bind(cfg.listen, "https", cfg.tls)
  /\ UNCHANGED << prog, found, file, cfg >>

Stopped == st \in {"bail", "panic", "serving"} /\ UNCHANGED vars

Next == (\E line \in Lines[prog] : ReadLine(line))
        \/ Unreadable \/ EndOfFile \/ FlyoMain \/ ProxyMain \/ Stopped

Spec == Init /\ [][Next]_vars

-----------------------------------------------------------------------------
Ended == {"bail", "panic", "serving"}
WebdConfig ==
  [root : Seq(STRING), listen : Seq(Seq(STRING)), guest : SUBSET Permissions,
   users : Seq([perms : SUBSET Permissions, name : Seq(STRING),
                pass : Seq(STRING)]),
   hide_tray : BOOLEAN, browser : Seq(STRING)]

(* Types; flyo never has more than three users, nor does it come to bind   *)
(* without an address; and only what serves has bound anything.            *)
TypeOK ==
  /\ prog \in {"flyo", "proxy"} /\ found \in BOOLEAN
  /\ st \in {"reading", "parsed"} \union Ended
  /\ prog = "flyo" => /\ cfg \in WebdConfig
                      /\ Len(cfg.users) <= 3
                      /\ st \in {"parsed", "serving"} => cfg.listen # << >>
  /\ st = "serving" <=> served # NotServed

WordsOf ==
  [line \in Lines["flyo"] \union Lines["proxy"] |-> Words(line)]

(* A reference for a file that is read as a whole.  A line is good if it   *)
(* has the arguments its directive needs, in the form it needs.            *)
Units == {"s", "sec", "second", "m", "min", "minute", "h", "hour"}

Period(u) == IF u \in {"s", "sec", "second"} THEN 1
             ELSE IF u \in {"m", "min", "minute"} THEN 60 ELSE 3600

(* Without its spaces the token is a number, a slash and a unit.           *)
Reads(token, n, u) ==
  Spelled(token, {i \in DOMAIN token : token[i] # "s"}) = n \o << "/", u >>

Good(words) ==
  \A k \in DOMAIN Needs :
    Names(words, k)
    => /\ Len(words) > Needs[k]
       /\ k \in {"proxy.allow", "proxy.block"} => words[2] \in Nets
       /\ k = "proxy.ratelimit" =>
            \E n \in Numbers, u \in Units : Reads(words[2], n, u)

(* A start that got past its file was given only good lines, and one that  *)
(* failed had read none that is not, but maybe the last: nothing that is   *)
(* read of a bad file is ever served.                                      *)
StopsAtFirstBad ==
  \A i \in DOMAIN file :
    IF st \in {"bail", "panic"} /\ i = Len(file) THEN TRUE
    ELSE Good(WordsOf[file[i]])

(* What the file says with a directive: its lines, their n-th, what the    *)
(* last of them says, and what all of them say in the order of the file.   *)
Of(k) == {i \in DOMAIN file : Names(WordsOf[file[i]], k)}

NthOf(k, n) == WordsOf[file[Nth(Of(k), n)]]

LastLine(k) == WordsOf[file[Max(Of(k))]]

LastOf(k, default) ==
  IF Of(k) = {} THEN default
  ELSE IF Len(LastLine(k)) > 1 THEN LastLine(k)[2] ELSE << >>

AllOf(k) == [n \in 1 .. Cardinality(Of(k)) |-> NthOf(k, n)[2]]

Granted(tag) == {p \in Permissions : Has(tag, p)}

(* In whatever order the lines stand, the configuration is what the file   *)
(* says: the last value of what can have one, all values of what can have  *)
(* many in the order of the file, the first three users, and the default   *)
(* of what the file does not name.                                         *)
AsWritten ==
  /\ prog = "flyo" /\ st # "bail" =>
       /\ cfg.root = LastOf("webd.root", IF found THEN << >> ELSE << "cwd" >>)
       /\ cfg.guest = Granted(LastOf("webd.guest", << "r", "l" >>))
       /\ cfg.browser = LastOf("webd.browser", << >>)
       /\ cfg.hide_tray <=> Of("webd.hide") # {}
       /\ cfg.users =
            [n \in {i \in 1 .. Cardinality(Of("webd.user")) : i <= 3} |->
               LET w == NthOf("webd.user", n)
               IN  [perms |-> Granted(w[2]), name |-> w[3], pass |-> w[4]]]
       /\ cfg.listen =
            IF AllOf("webd.listen") = << >> /\ st # "reading"
            THEN << << "0.0.0.0", ":", "9212" >> >>
            ELSE [n \in DOMAIN AllOf("webd.listen") |->
                    NormalizeListen(AllOf("webd.listen")[n])]
  /\ prog = "proxy" /\ st \notin {"bail", "panic"} =>
       /\ cfg.listen =
            NormalizeListen(LastOf("proxy.listen",
                                   << "0.0.0.0", ":", "8443" >>))
       /\ cfg.upstream = LastOf("proxy.upstream",
                                << "http://", "127.0.0.1", ":", "9212" >>)
       /\ IF Of("proxy.ratelimit") = {} THEN cfg.rate_limit = << >>
          ELSE \E n \in Numbers, u \in Units :
                 /\ Reads(LastOf("proxy.ratelimit", << >>), n, u)
                 /\ cfg.rate_limit =
                      << [requests |-> n, window |-> Period(u)] >>
       /\ cfg.cert = IF Of("proxy.cert") = {} THEN << >>
                     ELSE << LastOf("proxy.cert", << >>) >>
       /\ cfg.key = IF Of("proxy.key") = {} THEN << >>
                    ELSE << LastOf("proxy.key", << >>) >>
       /\ cfg.selfsigned =
            IF Of("proxy.selfsigned") = {} THEN << >>
            ELSE IF Len(LastLine("proxy.selfsigned")) = 1
                 THEN << << "localhost" >> >>
                 ELSE Tail(LastLine("proxy.selfsigned"))
       /\ cfg.allow = AllOf("proxy.allow")
       /\ cfg.block = AllOf("proxy.block")
       /\ cfg.log_level = LastOf("proxy.loglevel", << "info" >>)

(* The proxy serves HTTPS if and only if its file has a certificate and a  *)
(* key, which then are used, or asks for a self-signed certificate, in     *)
(* whatever order.                                                         *)
TlsAsAsked ==
  LET has(k) == \E i \in DOMAIN file : Names(WordsOf[file[i]], k)
      files == has("proxy.cert") /\ has("proxy.key")
  IN  prog = "proxy" /\ st = "serving" =>
        /\ served.scheme = "https" <=> files \/ has("proxy.selfsigned")
        /\ served.cert = "files" <=> files
=============================================================================
