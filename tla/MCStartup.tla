----------------------------- MODULE MCStartup -----------------------------
(***************************************************************************)
(* Files of Startup for TLC: for every directive a line that is good, one  *)
(* that is not where there can be one, and lines that are hard to cut.     *)
(***************************************************************************)
EXTENDS Startup

FlyoLines ==
  { << "webd.root", "s", "q", "a", "s", "b", "q" >>,
    << "q", "webd.root", "q" >>,
    << "webd.root", "s", "d" >>,
    << "webd.listen", "s", "9212" >>,
    << "webd.listen", "s", "[::]", ":", "9212" >>,
    << "webd.listen", "s", "lan" >>,
    << "webd.user", "s", "r", "u", "s", "ann", "s", "q", "x", "s", "y", "q" >>,
    << "webd.user", "s", "0", "s", "bob", "s", "q", "q", "x" >>,
    << "webd.user", "s", "r", "s", "bob", "s", "q", "q" >>,
    << "webd.guest", "s", "s", "r", "m", "?" >>,
    << "webd.guest", "s", "0" >>,
    << "webd.hide" >>,
    << "webd.browser", "s", "b", "q", "s", "q" >>,
    << "q", "webd.guest", "s", "r" >>,
    << "q", "q" >> }

ProxyLines ==
  { << "proxy.listen", "s", "9212" >>,
    << "proxy.listen", "s", "[::]", ":", "9212" >>,
    << "proxy.upstream", "s", "http://", "lan" >>,
    << "proxy.upstream", "s", "https://", "lan" >>,
    << "proxy.upstream" >>,
    << "proxy.cert", "s", "q", "a", "s", "b", "q" >>,
    << "proxy.cert", "s", "c" >>,
    << "proxy.cert" >>,
    << "proxy.key", "s", "k" >>,
    << "proxy.selfsigned" >>,
    << "proxy.selfsigned", "s", "lan", "s", "wan" >>,
    << "proxy.allow", "s", "10.0.0.0", "/", "8" >>,
    << "proxy.allow", "s", "lan" >>,
    << "proxy.block", "s", "q", "1.2.3.4", "q" >>,
    << "proxy.ratelimit", "s", "q", "5", "s", "/", "h", "q" >>,
    << "proxy.ratelimit", "s", "8", "/", "min" >>,
    << "proxy.ratelimit", "s", "5", "/", "day" >>,
    << "proxy.ratelimit", "s", "5" >>,
    << "proxy.loglevel", "s", "debug" >>,
    << "#", "s", "proxy.block" >> }

SomeLines == [flyo |-> FlyoLines, proxy |-> ProxyLines]
SomeNets == { << "10.0.0.0", "/", "8" >>, << "1.2.3.4" >> }
SomeNumbers == { << "5" >>, << "8" >> }
Addresses == { << "0.0.0.0", ":", "9212" >>, << "[::]", ":", "9212" >>,
               << "0.0.0.0", ":", "8443" >> }
=============================================================================
