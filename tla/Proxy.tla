------------------------------- MODULE Proxy -------------------------------
(***************************************************************************)
(* flyo-proxy, flyo-proxy/src/main.rs: one task per connection, one call   *)
(* of handle() per request.  handle() asks the gatekeeper (Guard), sends   *)
(* the request to the upstream, collects the whole reply and passes it on. *)
(* Every .await may be the last: hyper drops the handler of a client that  *)
(* has left.  The upstream may refuse, stall, or break off at any chunk.   *)
(*                                                                         *)
(* A head is a function from header names to values; "connection" stands   *)
(* for every name of HOP_HEADERS.  A connection carries one request here:  *)
(* requests of one connection share nothing but the peer's address.        *)
(***************************************************************************)
EXTENDS Guard

CONSTANTS Tls,     \* has_tls()
          Second,  \* ticks of the clock in a second
          Chunks,  \* chunks of an upstream body
          Heads    \* heads that clients and the upstream send

VARIABLES handler,  \* handler[q]: where the task of request q stands
          upstream, \* upstream[q]: the upstream's end of its exchange
          reply,    \* reply[q]: what handle() returned
          spent     \* history: when the window that refused q ends

pvars == << handler, upstream, reply, spent >>
allvars == << vars, pvars >>

ASSUME ProxyAssumption ==
  Tls \in BOOLEAN /\ Second \in Nat \ {0} /\ Chunks \in Nat

NoHead == [n \in {} |-> "none"]
NotAsked == [st |-> "idle", head |-> NoHead, out |-> 0]
NoReply == [code |-> 0, head |-> NoHead, chunks |-> 0, after |-> 0]

ProxyInit ==
  /\ Init
  /\ handler = [q \in Req |-> [pc |-> "none", held |-> 0]]
  /\ upstream = [q \in Req |-> NotAsked]
  /\ reply = [q \in Req |-> NoReply]
  /\ spent = [q \in Req |-> 0]

(* The accept loop of main(): an accept() that fails changes nothing.      *)
Accept(q) ==
  /\ handler[q].pc = "none"
  /\ handler' = [handler EXCEPT ![q].pc = IF Tls THEN "handshake" ELSE "gate"]
  /\ UNCHANGED << vars, upstream, reply, spent >>

(* serve_conn(): a handshake that fails ends the connection.               *)
Handshake(q) ==
  /\ handler[q].pc = "handshake"
  /\ \E next \in {"gate", "dropped"} :
       handler' = [handler EXCEPT ![q].pc = next]
  /\ UNCHANGED << vars, upstream, reply, spent >>

Gate(q) ==
  /\ handler[q].pc = "gate"
  /\ Arrive(q) \/ Decide(q)
  /\ spent' = [spent EXCEPT ![q] =
                 IF check'[q].pc = "limited"
                 THEN counters'[check[q].ip].window_start + Window ELSE @]
  /\ UNCHANGED << handler, upstream, reply >>

(* handle() returns; the upstream connection, if any, is closed or idle.   *)
Return(q, r) ==
  /\ reply' = [reply EXCEPT ![q] = r]
  /\ handler' = [handler EXCEPT ![q].pc = "done"]
  /\ upstream' = [upstream EXCEPT ![q] = NotAsked]
  /\ UNCHANGED << vars, spent >>

(* text_response(): a reply of the proxy's own, a single chunk.            *)
Text(code) == [code |-> code, head |-> [content |-> "text/plain"],
               chunks |-> 1, after |-> 0]

(* Mutation of RetryAfter: no wait for what is left of a second.           *)
RetryFloor(retry) == retry \div Second

RetryAfter(retry) ==
  IF retry \div Second >= 1 THEN retry \div Second ELSE 1

Refuse(q) ==
  /\ handler[q].pc = "gate"
  /\ \/ check[q].pc \in {"blocked", "not_allowed"} /\ Return(q, Text(403))
     \/ /\ check[q].pc = "limited"
        /\ Return(q, [Text(429) EXCEPT !.after = RetryAfter(check[q].retry)])

StripHop(h) == [n \in DOMAIN h \ {"connection"} |-> h[n]]

(* Mutation of Insert: a header that is there already is kept.             *)
InsertNew(h, new) ==
  [n \in DOMAIN h \union DOMAIN new |->
     IF n \in DOMAIN h THEN h[n] ELSE new[n]]

(* HeaderMap::insert, of every header of `new`.                            *)
Insert(h, new) ==
  [n \in DOMAIN h \union DOMAIN new |->
     IF n \in DOMAIN new THEN new[n] ELSE h[n]]

Forwarded(h, peer) ==
  Insert(StripHop(h),
         [forwarded_for |-> peer, host |-> "upstream",
          forwarded_proto |-> IF Tls THEN "https" ELSE "http"])

Secured(h) ==
  LET new == [server |-> "flyo-proxy", frame_options |-> "DENY"]
  IN  Insert(h, IF Tls THEN Insert(new, [hsts |-> "max-age"]) ELSE new)

(* Mutation of Admitted: a request over its rate is let in all the same.   *)
NotListed(q) == check[q].pc \in {"allowed", "limited"}

Admitted(q) == check[q].pc = "allowed"

(* Up to client.request(req).await; build_upstream_uri() fails for a       *)
(* target that is no path, such as the `*` of OPTIONS.                     *)
Forward(q) ==
  /\ handler[q].pc = "gate" /\ Admitted(q)
  /\ \/ Return(q, Text(502))
     \/ /\ \E h \in Heads :
             upstream' = [upstream EXCEPT
               ![q] = [st |-> "asked", head |-> Forwarded(h, check[q].ip),
                       out |-> 0]]
        /\ handler' = [handler EXCEPT ![q].pc = "requesting"]
        /\ UNCHANGED << vars, reply, spent >>

(* Mutation of RequestFails: a request that failed is sent again.          *)
RequestAgain(q) ==
  /\ handler[q].pc = "requesting"
  /\ upstream[q].st \in {"refused", "broken"}
  /\ upstream' = [upstream EXCEPT ![q].st = "asked", ![q].out = 0]
  /\ UNCHANGED << vars, handler, reply, spent >>

(* "upstream unreachable": client.request() fails, perhaps after the head  *)
(* of a reply was sent and lost.                                           *)
RequestFails(q) ==
  /\ handler[q].pc = "requesting"
  /\ upstream[q].st \in {"refused", "broken"}
  /\ Return(q, Text(502))

ReplyHead(q) ==
  /\ handler[q].pc = "requesting"
  /\ upstream[q].st \in {"answering", "ended", "broken"}
  /\ handler' = [handler EXCEPT ![q].pc = "collecting"]
  /\ UNCHANGED << vars, upstream, reply, spent >>

(* body.collect().await: a chunk, an error, or the end of the body.        *)
Collect(q) ==
  /\ handler[q].pc = "collecting" /\ handler[q].held < upstream[q].out
  /\ handler' = [handler EXCEPT ![q].held = @ + 1]
  /\ UNCHANGED << vars, upstream, reply, spent >>

(* The reply of the upstream; 200 stands for whatever status it has.       *)
Relay(q) ==
  \E h \in Heads : Return(q, [code |-> 200, head |-> Secured(StripHop(h)),
                              chunks |-> handler[q].held, after |-> 0])

(* Mutation of CollectFails: what has arrived is passed on.                *)
CollectPart(q) ==
  /\ handler[q].pc = "collecting" /\ upstream[q].st = "broken"
  /\ Relay(q)

CollectFails(q) ==
  /\ handler[q].pc = "collecting" /\ upstream[q].st = "broken"
  /\ Return(q, Text(502))

CollectEnds(q) ==
  /\ handler[q].pc = "collecting" /\ upstream[q].st = "ended"
  /\ handler[q].held = upstream[q].out
  /\ Relay(q)

(* The client leaves: hyper drops the future of handle() at its .await,    *)
(* and with it the exchange.  check() has no .await to be dropped at.      *)
ClientLeaves(q) ==
  /\ handler[q].pc \in {"handshake", "gate", "requesting", "collecting"}
  /\ handler[q].pc = "gate" => check[q].pc = "idle"
  /\ handler' = [handler EXCEPT ![q].pc = "dropped"]
  /\ upstream' = [upstream EXCEPT ![q] = NotAsked]
  /\ UNCHANGED << vars, reply, spent >>

(* The upstream, for which nothing is certain: it refuses the connection,  *)
(* answers, sends a chunk, ends its body, or breaks off.                   *)
Upstream(q) ==
  /\ \/ /\ upstream[q].st = "asked"
        /\ \E st \in {"refused", "answering"} :
             upstream' = [upstream EXCEPT ![q].st = st]
     \/ /\ upstream[q].st = "answering" /\ upstream[q].out < Chunks
        /\ upstream' = [upstream EXCEPT ![q].out = @ + 1]
     \/ /\ upstream[q].st = "answering" /\ upstream[q].out = Chunks
        /\ upstream' = [upstream EXCEPT ![q].st = "ended"]
     \/ /\ upstream[q].st = "answering"
        /\ upstream' = [upstream EXCEPT ![q].st = "broken"]
  /\ UNCHANGED << vars, handler, reply, spent >>

Passes == Tick /\ UNCHANGED pvars

Over(q) == handler[q].pc \in {"done", "dropped"}
AllOver == (\A q \in Req : Over(q)) /\ UNCHANGED allvars

(* What the proxy does by itself once it can.                              *)
Step(q) ==
  \/ Gate(q) \/ Refuse(q) \/ Forward(q) \/ RequestFails(q)
  \/ ReplyHead(q) \/ Collect(q) \/ CollectFails(q) \/ CollectEnds(q)

ProxyNext ==
  \/ \E q \in Req : \/ Step(q) \/ Accept(q) \/ Handshake(q)
                    \/ Upstream(q) \/ ClientLeaves(q)
  \/ Passes \/ AllOver

ProxySpec == ProxyInit /\ [][ProxyNext]_allvars

(* The runtime polls every task that can go on.                            *)
FairProxySpec == ProxySpec /\ \A q \in Req : WF_allvars(Step(q))

-----------------------------------------------------------------------------
PCs == {"none", "handshake", "gate", "requesting", "collecting", "done",
        "dropped"}

Ended == {"refused", "ended", "broken"}

(* Types, and what joins the parts: only a request that the gatekeeper has *)
(* let in is ever known to the upstream, for as long as its handler runs.  *)
ProxyTypeOK ==
  /\ \A q \in Req :
       /\ handler[q].pc \in PCs
       /\ handler[q].held \in 0 .. upstream[q].out \/ Over(q)
       /\ upstream[q].st \in {"idle", "asked", "answering"} \union Ended
       /\ upstream[q].out \in 0 .. Chunks
       /\ upstream[q].st # "idle" <=>
            handler[q].pc \in {"requesting", "collecting"}
       /\ upstream[q].st # "idle" => check[q].pc = "allowed"
       /\ reply[q].code \in {0, 200, 403, 429, 502}
       /\ reply[q].code # 0 <=> handler[q].pc = "done"
  /\ spent \in [Req -> Nat]

(* A status of the upstream reaches a client only with the whole body, in  *)
(* whatever chunk the upstream breaks off.                                 *)
WholeReplies == \A q \in Req : reply[q].code = 200 => reply[q].chunks = Chunks

(* No header of HOP_HEADERS crosses the proxy, the upstream is told the    *)
(* address of the peer whatever the client wrote, and a reply of the       *)
(* upstream carries the proxy's policy whatever the upstream wrote.        *)
HeadersKept ==
  \A q \in Req :
    /\ {"connection"} \intersect
         (DOMAIN upstream[q].head \union DOMAIN reply[q].head) = {}
    /\ upstream[q].st # "idle" => upstream[q].head.forwarded_for = check[q].ip
    /\ reply[q].code = 200 =>
         /\ reply[q].head.frame_options = "DENY"
         /\ Tls => "hsts" \in DOMAIN reply[q].head

(* Retry-After is whole seconds, rounded down but never zero: whoever      *)
(* waits one second more finds the window that refused over.               *)
RetryAfterReaches ==
  [][\A q \in Req :
       reply[q].code = 0 /\ reply'[q].code = 429
       => /\ reply'[q].after >= 1
          /\ clock + (reply'[q].after + 1) * Second > spent[q]]_allvars

(* Whatever became of the upstream, its end is also the end of the         *)
(* exchange, and the gatekeeper holds nobody up.                           *)
PassedOn ==
  \A q \in Req : /\ handler[q].pc = "gate" ~> handler[q].pc # "gate"
                 /\ upstream[q].st \in Ended ~> Over(q)
=============================================================================
