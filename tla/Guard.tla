------------------------------- MODULE Guard -------------------------------
(***************************************************************************)
(* flyo-proxy's gatekeeper, flyo-proxy/src/guard.rs: block and allow lists *)
(* and a fixed-window counter per address.  check() reads the clock, then  *)
(* takes the lock on the counters: between the two any number of other     *)
(* checks may read the clock and take the lock.                            *)
(***************************************************************************)
EXTENDS Integers, FiniteSets

CONSTANTS Req,          \* one check per request
          Ip,           \* addresses of clients
          Block, Allow, \* the addresses each rule of either list matches
          Requests,     \* RateLimit.requests
          Window,       \* RateLimit.window, in ticks of the clock
          MapLimit,     \* counters kept before expired ones are swept (4096)
          MaxTime       \* bound on the clock

VARIABLES clock,     \* Instant::now()
          counters,  \* the map behind the Mutex: address -> Counter
          check,     \* check[q]: where request q's check stands
          opened     \* history: the last window of each address, see Record

vars == << clock, counters, check, opened >>

ASSUME GuardAssumption ==
  /\ Requests \in Nat /\ Window \in Nat \ {0}
  /\ MapLimit \in Nat /\ MaxTime \in Nat

Counter == [window_start : Nat, count : Nat]
Idle == [pc |-> "idle", ip |-> "none", now |-> 0, retry |-> 0]

(* Before the first window of an address: one that is over.                *)
NoWindow == [made |-> FALSE, start |-> 0, admitted |-> 0]

Init ==
  /\ clock = 0
  /\ counters = [i \in {} |-> 0]
  /\ check = [q \in Req |-> Idle]
  /\ opened = [i \in Ip |-> NoWindow]

Matches(rules, ip) == \E r \in rules : ip \in r

(* The lists, and `let now = Instant::now()` if they let the request pass. *)
Arrive(q) ==
  /\ check[q].pc = "idle"
  /\ \E ip \in Ip :
       check' = [check EXCEPT ![q] =
         [pc    |-> IF Matches(Block, ip) THEN "blocked"
                    ELSE IF Allow # {} /\ ~Matches(Allow, ip)
                         THEN "not_allowed" ELSE "locking",
          ip    |-> ip, now |-> clock, retry |-> 0]]
  /\ UNCHANGED << clock, counters, opened >>

(* Mutations of Since: it does not saturate, or its operands are swapped.  *)
SinceSigned(now, start) == now - start
SinceSwapped(now, start) == IF start >= now THEN start - now ELSE 0

(* Instant::duration_since and Duration::saturating_sub stop at zero.      *)
Since(now, start) == IF now >= start THEN now - start ELSE 0

(* Mutation of Expired: a window ends a tick early.                        *)
ExpiresEarly(c, now) == Since(now, c.window_start) + 1 >= Window

Expired(c, now) == Since(now, c.window_start) >= Window

(* Mutation of Sweep: the sweep empties the map.                           *)
SweepAll(m, now) ==
  IF Cardinality(DOMAIN m) > MapLimit THEN [i \in {} |-> 0] ELSE m

Sweep(m, now) ==
  IF Cardinality(DOMAIN m) > MapLimit
  THEN [i \in {j \in DOMAIN m : ~Expired(m[j], now)} |-> m[i]]
  ELSE m

(* entry().or_insert() and the reset of a window that is over.             *)
Fresh(m, ip, now) ==
  IF ip \notin DOMAIN m \/ Expired(m[ip], now)
  THEN [window_start |-> now, count |-> 0] ELSE m[ip]

(* Mutations of Exceeds: one request too many is let in, or one too few.   *)
ExceedsLate(c) == c.count > Requests + 1
ExceedsSoon(c) == c.count >= Requests

Exceeds(c) == c.count > Requests

(* History: the window the counter of ip is in, and what it admitted.      *)
Record(q, made, start, admit) ==
  LET ip == check[q].ip
      w  == IF made THEN [made |-> TRUE, start |-> start, admitted |-> 0]
                    ELSE opened[ip]
  IN  opened' = [opened EXCEPT ![ip] =
                   [w EXCEPT !.admitted = IF admit THEN @ + 1 ELSE @]]

(* Everything check() does while it holds the lock.                        *)
Decide(q) ==
  /\ check[q].pc = "locking"
  /\ LET ip    == check[q].ip
         now   == check[q].now
         kept  == Sweep(counters, now)
         entry == Fresh(kept, ip, now)
         c     == [entry EXCEPT !.count = @ + 1]
     IN  /\ counters' = [i \in DOMAIN kept \union {ip} |->
                           IF i = ip THEN c ELSE kept[i]]
         /\ check' = [check EXCEPT
                        ![q].pc = IF Exceeds(c) THEN "limited" ELSE "allowed",
                        ![q].retry =
                          IF ~Exceeds(c) THEN 0
                          ELSE Since(Window, Since(now, c.window_start))]
         /\ Record(q, entry.count = 0, entry.window_start, ~Exceeds(c))
  /\ UNCHANGED clock

Tick == /\ clock < MaxTime
        /\ clock' = clock + 1
        /\ UNCHANGED << counters, check, opened >>

Answered(q) == check[q].pc \notin {"idle", "locking"}
AllAnswered == (\A q \in Req : Answered(q)) /\ UNCHANGED vars

Next == (\E q \in Req : Arrive(q) \/ Decide(q)) \/ Tick \/ AllAnswered

Spec == Init /\ [][Next]_vars

-----------------------------------------------------------------------------
Check == [pc : {"idle", "locking", "blocked", "not_allowed", "allowed",
                "limited"},
          ip : Ip \union {"none"}, now : Nat,
          retry : 0 .. Window]

TypeOK ==
  /\ clock \in 0 .. MaxTime
  /\ DOMAIN counters \subseteq Ip
  /\ \A i \in DOMAIN counters : counters[i] \in Counter
  /\ check \in [Req -> Check]
  /\ \A q \in Req : check[q].pc # "idle" => check[q].ip \in Ip
  /\ opened \in [Ip -> [made : BOOLEAN, start : Nat, admitted : Nat]]

(* No window of an address admits more than Requests requests, however the *)
(* checks of that address and the sweep interleave.                        *)
WithinBudget == \A i \in Ip : opened[i].admitted <= Requests

(* A request is refused only when its window has admitted all it may.      *)
RefusedWhenSpent ==
  [][\A q \in Req :
       check[q].pc = "locking" /\ check'[q].pc = "limited"
       => opened'[check[q].ip].admitted = Requests]_vars

(* Whoever waits as long as retry_after says finds the window over, even   *)
(* if the check read the clock before the window began.                    *)
RetryIsEnough ==
  [][\A q \in Req :
       check[q].pc = "locking" /\ check'[q].pc = "limited"
       => clock + check'[q].retry
            >= counters'[check[q].ip].window_start + Window]_vars

(* As long as the counter of an address is not swept, its windows do not   *)
(* overlap.                                                                *)
WindowsApart ==
  [][\A i \in DOMAIN counters \intersect DOMAIN counters' :
       opened'[i].start # opened[i].start
       => opened'[i].start >= opened[i].start + Window]_vars

(* The sweep forgets no window that is still running.                      *)
SweptIsOver ==
  [][\A i \in DOMAIN counters \ DOMAIN counters' :
       clock >= counters[i].window_start + Window]_vars

(* "Rate limiting is a fixed-window counter per IP" (guard.rs:8): the      *)
(* windows of an address never overlap.                                    *)
FixedWindows ==
  [][\A i \in Ip :
       opened[i].made /\ opened'[i].start # opened[i].start
       => opened'[i].start >= opened[i].start + Window]_vars
=============================================================================
