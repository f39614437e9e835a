----------------------------- MODULE ProxyConf -----------------------------
(***************************************************************************)
(* The directives of flyo-proxy.conf, flyo-proxy/src/config.rs, and the    *)
(* choice of a TLS mode after all of them are seen.                        *)
(***************************************************************************)
EXTENDS ConfLines

CONSTANTS Nets,     \* the tokens that are an IP address or a CIDR
          Numbers   \* the tokens that are a u32

(* A u32 is written with at least a digit, and without a space.            *)
ASSUME NumbersAssumption ==
  \A n \in Numbers : n \in Seq(STRING) /\ n # << >> /\ ~Has(n, "s")

(* cert, key and selfsigned are locals of parse(); << >> is None.          *)
ProxyDefault ==
  [listen |-> << "0.0.0.0", ":", "8443" >>,
   upstream |-> << "http://", "127.0.0.1", ":", "9212" >>,
   allow |-> << >>, block |-> << >>, rate_limit |-> << >>,
   log_level |-> << "info" >>,
   cert |-> << >>, key |-> << >>, selfsigned |-> << >>, tls |-> "plain"]

(* The arguments a directive needs: parse() looks for those of Checked and *)
(* indexes those of the others without looking.                            *)
ProxyKeys == {"proxy.listen", "proxy.upstream", "proxy.cert", "proxy.key",
              "proxy.selfsigned", "proxy.allow", "proxy.block",
              "proxy.ratelimit", "proxy.loglevel"}
ProxyArgs ==
  [k \in ProxyKeys |-> IF k = "proxy.selfsigned" THEN 0 ELSE 1]
Checked == {"proxy.listen", "proxy.upstream"}

Window(unit) ==
  CASE unit \in {<< "s" >>, << "sec" >>, << "second" >>} -> 1
    [] unit \in {<< "m" >>, << "min" >>, << "minute" >>} -> 60
    [] unit \in {<< "h" >>, << "hour" >>} -> 3600
    [] OTHER -> 0

Trim(token) ==
  LET ink == {i \in DOMAIN token : token[i] # "s"}
  IN  IF ink = {} THEN << >> ELSE SubSeq(token, Min(ink), Max(ink))

(* parse_rate(): N/unit, cut at the first slash; << >> if it is neither.   *)
ParseRate(raw) ==
  LET slash == SelectInSeq(raw, LAMBDA ch : ch = "/")
      n == Trim(SubSeq(raw, 1, slash - 1))
      unit == Window(Trim(SubSeq(raw, slash + 1, Len(raw))))
  IN  IF slash = 0 \/ n \notin Numbers \/ unit = 0 THEN << >>
      ELSE << [requests |-> n, window |-> unit] >>

(* Mutation of Refused: a rule that does not parse is kept, without a net. *)
RefusedRate(key, args) ==
  key = "proxy.ratelimit" /\ ParseRate(args[1]) = << >>

(* The arguments that parse_rule() and parse_rate() refuse.                *)
Refused(key, args) ==
  \/ key \in {"proxy.allow", "proxy.block"} /\ args[1] \notin Nets
  \/ key = "proxy.ratelimit" /\ ParseRate(args[1]) = << >>

ProxySet(cfg, key, args) ==
  CASE key = "proxy.listen"   -> [cfg EXCEPT
                                    !.listen = NormalizeListen(args[1])]
    [] key = "proxy.upstream" -> [cfg EXCEPT !.upstream = args[1]]
    [] key = "proxy.cert"     -> [cfg EXCEPT !.cert = << args[1] >>]
    [] key = "proxy.key"      -> [cfg EXCEPT !.key = << args[1] >>]
    [] key = "proxy.selfsigned" ->
         [cfg EXCEPT !.selfsigned =
            IF args = << >> THEN << << "localhost" >> >> ELSE args]
    [] key = "proxy.allow"    -> [cfg EXCEPT !.allow = Append(@, args[1])]
    [] key = "proxy.block"    -> [cfg EXCEPT !.block = Append(@, args[1])]
    [] key = "proxy.ratelimit" ->
         [cfg EXCEPT !.rate_limit = ParseRate(args[1])]
    [] key = "proxy.loglevel" -> [cfg EXCEPT !.log_level = args[1]]

(* Mutation of TlsMode: a self-signed certificate goes before the files.   *)
SelfSignedFirst(cfg) ==
  IF cfg.selfsigned # << >> THEN "selfsigned"
  ELSE IF cfg.cert # << >> /\ cfg.key # << >> THEN "files" ELSE "plain"

TlsMode(cfg) ==
  IF cfg.cert # << >> /\ cfg.key # << >> THEN "files"
  ELSE IF cfg.selfsigned # << >> THEN "selfsigned" ELSE "plain"

ProxyEnd(cfg) == [cfg EXCEPT !.tls = TlsMode(cfg)]
=============================================================================
