---------------------------- MODULE ProxyProofs -----------------------------
(***************************************************************************)
(* Proofs about Guard and Proxy, for any limit, any window, any number of  *)
(* addresses and of concurrent requests, any bodies, any heads and any clock:*)
(* what the gatekeeper promises; that the gatekeeper inside of the proxy is*)
(* the one of Guard, so that it promises the same there; and that handle() *)
(* keeps its promises about bodies, headers and Retry-After.               *)
(***************************************************************************)
EXTENDS Proxy, TLAPS

(* A counter's window is the last that was opened for its address, and the *)
(* counter tells how much of the budget it has spent.                      *)
Accounted ==
  \A i \in DOMAIN counters :
    /\ opened[i].made /\ opened[i].start = counters[i].window_start
    /\ counters[i].count >= 1 /\ counters[i].window_start <= clock
    /\ opened[i].admitted = IF counters[i].count <= Requests
                            THEN counters[i].count ELSE Requests

(* A check has read the clock before it takes the lock.                    *)
ReadBefore == \A q \in Req : check[q].now <= clock

GInv == TypeOK /\ Accounted /\ ReadBefore /\ WithinBudget

(* What the lock protects: the decision of one request.                    *)
LEMMA DecideFacts ==
  ASSUME GInv, NEW q \in Req, Decide(q)
  PROVE  \E ip \in Ip, c \in Counter, n \in Nat :
           /\ ip = check[q].ip /\ n = check[q].now /\ n <= clock
           /\ c.count >= 1
           /\ DOMAIN counters' \subseteq DOMAIN counters \union {ip}
           /\ ip \in DOMAIN counters' /\ counters'[ip] = c
           /\ \A i \in DOMAIN counters' \ {ip} : counters'[i] = counters[i]
           /\ \A i \in DOMAIN counters \ DOMAIN counters' :
                Expired(counters[i], n)
           /\ check' = [check EXCEPT
                ![q].pc = IF Exceeds(c) THEN "limited" ELSE "allowed",
                ![q].retry = IF ~Exceeds(c) THEN 0
                             ELSE Since(Window, Since(n, c.window_start))]
           /\ \/ /\ c = [window_start |-> n, count |-> 1]
                 /\ ip \in DOMAIN counters => Expired(counters[ip], n)
                 /\ Record(q, TRUE, n, ~Exceeds(c))
              \/ /\ ip \in DOMAIN counters
                 /\ c = [counters[ip] EXCEPT !.count = @ + 1]
                 /\ Record(q, FALSE, c.window_start, ~Exceeds(c))
<1> DEFINE ip == check[q].ip
           now == check[q].now
           kept == Sweep(counters, now)
           entry == Fresh(kept, ip, now)
           c == [entry EXCEPT !.count = @ + 1]
<1>1. /\ ip \in Ip /\ now \in Nat /\ now <= clock
      /\ check[q].pc = "locking"
  BY DEF Decide, GInv, TypeOK, Check, ReadBefore
<1>2. /\ DOMAIN kept \subseteq DOMAIN counters
      /\ \A i \in DOMAIN kept : kept[i] = counters[i]
      /\ \A i \in DOMAIN counters \ DOMAIN kept : Expired(counters[i], now)
  BY DEF Sweep
<1>3. /\ counters' = [i \in DOMAIN kept \union {ip} |->
                        IF i = ip THEN c ELSE kept[i]]
      /\ check' = [check EXCEPT
                     ![q].pc = IF Exceeds(c) THEN "limited" ELSE "allowed",
                     ![q].retry = IF ~Exceeds(c) THEN 0
                       ELSE Since(Window, Since(now, c.window_start))]
      /\ Record(q, entry.count = 0, entry.window_start, ~Exceeds(c))
  BY DEF Decide
<1> HIDE DEF kept
<1>4. CASE ip \notin DOMAIN kept \/ Expired(kept[ip], now)
  <2>1. entry = [window_start |-> now, count |-> 0]
    BY <1>4 DEF Fresh
  <2>2. /\ c = [window_start |-> now, count |-> 1] /\ c \in Counter
        /\ c.count >= 1 /\ c.window_start = now
    BY <1>1, <2>1 DEF Counter
  <2>3. Record(q, TRUE, now, ~Exceeds(c))
    <3>1. (entry.count = 0) = TRUE /\ entry.window_start = now
      BY <2>1
    <3> HIDE DEF entry, c
    <3> QED
      BY <1>3, <3>1
  <2>4. ip \in DOMAIN counters => Expired(counters[ip], now)
    BY <1>2, <1>4
  <2> HIDE DEF c, entry
  <2> QED
    BY <1>1, <1>2, <1>3, <2>2, <2>3, <2>4
<1>5. CASE ip \in DOMAIN kept /\ ~Expired(kept[ip], now)
  <2>1. /\ entry = counters[ip] /\ ip \in DOMAIN counters
        /\ counters[ip] \in Counter /\ counters[ip].count >= 1
    BY <1>2, <1>5 DEF Fresh, GInv, TypeOK, Accounted
  <2>2. /\ c = [counters[ip] EXCEPT !.count = @ + 1] /\ c \in Counter
        /\ c.count >= 1 /\ c.window_start = entry.window_start
    BY <2>1 DEF Counter
  <2>3. Record(q, FALSE, c.window_start, ~Exceeds(c))
    <3>1. (entry.count = 0) = FALSE
      BY <2>1 DEF Counter
    <3> HIDE DEF entry, c
    <3> QED
      BY <1>3, <2>2, <3>1
  <2> HIDE DEF c, entry
  <2> QED
    BY <1>1, <1>2, <1>3, <2>1, <2>2, <2>3
<1> QED
  BY <1>4, <1>5

(* A decision keeps the invariant and the action properties.               *)
LEMMA DecideInv ==
  ASSUME GInv, NEW q \in Req, Decide(q)
  PROVE  /\ GInv'
         /\ check'[q].pc = "limited" =>
              /\ opened'[check[q].ip].admitted = Requests
              /\ clock + check'[q].retry
                   >= counters'[check[q].ip].window_start + Window
         /\ \A i \in DOMAIN counters \intersect DOMAIN counters' :
              opened'[i].start # opened[i].start
              => opened'[i].start >= opened[i].start + Window
         /\ \A i \in DOMAIN counters \ DOMAIN counters' :
              clock >= counters[i].window_start + Window
<1>1. PICK ip \in Ip, c \in Counter, n \in Nat :
        /\ ip = check[q].ip /\ n = check[q].now /\ n <= clock
        /\ c.count >= 1
        /\ DOMAIN counters' \subseteq DOMAIN counters \union {ip}
        /\ ip \in DOMAIN counters' /\ counters'[ip] = c
        /\ \A i \in DOMAIN counters' \ {ip} : counters'[i] = counters[i]
        /\ \A i \in DOMAIN counters \ DOMAIN counters' :
             Expired(counters[i], n)
        /\ check' = [check EXCEPT
             ![q].pc = IF Exceeds(c) THEN "limited" ELSE "allowed",
             ![q].retry = IF ~Exceeds(c) THEN 0
                          ELSE Since(Window, Since(n, c.window_start))]
        /\ \/ /\ c = [window_start |-> n, count |-> 1]
              /\ ip \in DOMAIN counters => Expired(counters[ip], n)
              /\ Record(q, TRUE, n, ~Exceeds(c))
           \/ /\ ip \in DOMAIN counters
              /\ c = [counters[ip] EXCEPT !.count = @ + 1]
              /\ Record(q, FALSE, c.window_start, ~Exceeds(c))
  BY DecideFacts
<1>2. /\ clock' = clock /\ clock \in 0 .. MaxTime /\ clock \in Nat
      /\ Requests \in Nat /\ Window \in Nat \ {0}
      /\ opened \in [Ip -> [made : BOOLEAN, start : Nat, admitted : Nat]]
      /\ check \in [Req -> Check] /\ check[q].pc = "locking"
      /\ DOMAIN counters \subseteq Ip
      /\ \A i \in DOMAIN counters : counters[i] \in Counter
  BY GuardAssumption DEF GInv, TypeOK, Decide
<1>3. /\ opened' \in [Ip -> [made : BOOLEAN, start : Nat, admitted : Nat]]
      /\ opened'[ip].made /\ opened'[ip].start = c.window_start
      /\ opened'[ip].admitted = IF c.count <= Requests THEN c.count
                                                       ELSE Requests
      /\ \A i \in Ip \ {ip} : opened'[i] = opened[i]
      /\ c.window_start <= clock
  <2> DEFINE w0 == [made |-> TRUE, start |-> n, admitted |-> 0]
             a(w) == [w EXCEPT !.admitted =
                        IF ~Exceeds(c) THEN @ + 1 ELSE @]
  <2>1. CASE /\ c = [window_start |-> n, count |-> 1]
             /\ Record(q, TRUE, n, ~Exceeds(c))
    <3>1. opened' = [opened EXCEPT ![ip] = a(w0)]
      BY <1>1, <2>1 DEF Record
    <3>2. /\ w0 \in [made : BOOLEAN, start : Nat, admitted : Nat]
          /\ w0.made /\ w0.start = n /\ w0.admitted = 0
      BY <1>1
    <3> HIDE DEF w0
    <3>3. /\ a(w0) \in [made : BOOLEAN, start : Nat, admitted : Nat]
          /\ a(w0).made /\ a(w0).start = w0.start
          /\ a(w0).admitted = IF ~Exceeds(c) THEN w0.admitted + 1
                                             ELSE w0.admitted
      BY <3>2
    <3>4. c.window_start = n /\ c.count = 1
      BY <2>1
    <3>5. a(w0).admitted = IF c.count <= Requests THEN c.count ELSE Requests
      BY <1>2, <3>2, <3>3, <3>4 DEF Exceeds
    <3> HIDE DEF a
    <3> QED
      BY <1>1, <1>2, <3>1, <3>2, <3>3, <3>4, <3>5
  <2>2. CASE /\ ip \in DOMAIN counters
             /\ c = [counters[ip] EXCEPT !.count = @ + 1]
             /\ Record(q, FALSE, c.window_start, ~Exceeds(c))
    <3>1. opened' = [opened EXCEPT ![ip] = a(opened[ip])]
      BY <1>1, <2>2 DEF Record
    <3>2. /\ opened[ip].made /\ opened[ip].start = counters[ip].window_start
          /\ counters[ip].count >= 1 /\ counters[ip].window_start <= clock
          /\ opened[ip].admitted = IF counters[ip].count <= Requests
                                   THEN counters[ip].count ELSE Requests
      BY <2>2 DEF GInv, Accounted
    <3>3. /\ c.window_start = counters[ip].window_start
          /\ c.count = counters[ip].count + 1 /\ counters[ip].count \in Nat
      BY <1>2, <2>2 DEF Counter
    <3>4. opened[ip] \in [made : BOOLEAN, start : Nat, admitted : Nat]
      BY <1>2
    <3>5. /\ a(opened[ip]) \in [made : BOOLEAN, start : Nat, admitted : Nat]
          /\ a(opened[ip]).made /\ a(opened[ip]).start = opened[ip].start
          /\ a(opened[ip]).admitted = IF ~Exceeds(c)
               THEN opened[ip].admitted + 1 ELSE opened[ip].admitted
      BY <3>2, <3>4
    <3>6. a(opened[ip]).admitted = IF c.count <= Requests THEN c.count
                                                          ELSE Requests
      BY <1>2, <3>2, <3>3, <3>5 DEF Exceeds
    <3> HIDE DEF a
    <3> QED
      BY <1>1, <1>2, <3>1, <3>2, <3>3, <3>5, <3>6
  <2> QED
    BY <1>1, <2>1, <2>2
<1>4. /\ check' \in [Req -> Check]
      /\ check'[q].pc = (IF Exceeds(c) THEN "limited" ELSE "allowed")
      /\ check'[q].retry = IF ~Exceeds(c) THEN 0
           ELSE Since(Window, Since(n, c.window_start))
      /\ check'[q].now = check[q].now /\ check'[q].ip = check[q].ip
      /\ \A p \in Req \ {q} : check'[p] = check[p]
  <2> DEFINE pc == IF Exceeds(c) THEN "limited" ELSE "allowed"
             retry == IF ~Exceeds(c) THEN 0
                      ELSE Since(Window, Since(n, c.window_start))
             y == [check[q] EXCEPT !.pc = pc, !.retry = retry]
  <2>1. retry \in 0 .. Window /\ pc \in {"limited", "allowed"}
    BY <1>2 DEF Since, Counter
  <2>2. check' = [check EXCEPT ![q].pc = pc, ![q].retry = retry]
    BY <1>1
  <2> HIDE DEF retry, pc
  <2>3. y \in Check
    BY <1>2, <2>1 DEF Check
  <2>4. /\ y.pc = pc /\ y.retry = retry /\ y.now = check[q].now
        /\ y.ip = check[q].ip
    BY <1>2 DEF Check
  <2>5. check' = [check EXCEPT ![q] = y]
    BY <1>2, <2>2
  <2> HIDE DEF y
  <2> QED
    BY <1>2, <2>3, <2>4, <2>5 DEF retry, pc
<1>5. TypeOK'
  <2>1. \A i \in DOMAIN counters' : counters'[i] \in Counter
    BY <1>1, <1>2
  <2>2. \A p \in Req : check[p].pc # "idle" => check[p].ip \in Ip
    BY DEF GInv, TypeOK
  <2> QED
    BY <1>1, <1>2, <1>3, <1>4, <2>1, <2>2 DEF TypeOK
<1>6. Accounted'
  BY <1>1, <1>2, <1>3 DEF GInv, Accounted
<1>7. ReadBefore' /\ WithinBudget'
  <2>1. ReadBefore'
    <3>1. ASSUME NEW p \in Req
          PROVE  check'[p].now = check[p].now
      <4>1. CASE p = q
        BY <1>4, <4>1
      <4>2. CASE p # q
        BY <1>4, <4>2
      <4> QED
        BY <4>1, <4>2
    <3>2. \A p \in Req : check[p].now <= clock
      BY DEF GInv, ReadBefore
    <3> QED
      BY <1>2, <3>1, <3>2 DEF ReadBefore
  <2>2. WithinBudget'
    BY <1>1, <1>2, <1>3 DEF GInv, WithinBudget, Counter
  <2> QED
    BY <2>1, <2>2
<1>8. check'[q].pc = "limited" =>
        /\ opened'[check[q].ip].admitted = Requests
        /\ clock + check'[q].retry
                >= counters'[check[q].ip].window_start + Window
  <2> SUFFICES ASSUME Exceeds(c)
               PROVE  /\ opened'[ip].admitted = Requests
                      /\ clock + check'[q].retry >= c.window_start + Window
    BY <1>1, <1>4
  <2> QED
    BY <1>1, <1>2, <1>3, <1>4 DEF Exceeds, Since, Counter
<1>9. ASSUME NEW i \in DOMAIN counters \intersect DOMAIN counters',
             opened'[i].start # opened[i].start
      PROVE  opened'[i].start >= opened[i].start + Window
  <2>1. i = ip /\ opened[i].start = counters[i].window_start
    BY <1>2, <1>3, <1>9 DEF GInv, Accounted
  <2>2. c = [window_start |-> n, count |-> 1] /\ Expired(counters[ip], n)
    BY <1>1, <1>2, <1>3, <1>9, <2>1 DEF Counter
  <2> QED
    BY <1>2, <1>3, <2>1, <2>2 DEF Expired, Since, Counter
<1>10. ASSUME NEW i \in DOMAIN counters \ DOMAIN counters'
       PROVE  clock >= counters[i].window_start + Window
  BY <1>1, <1>2 DEF Expired, Since, Counter
<1> QED
  BY <1>5, <1>6, <1>7, <1>8, <1>9, <1>10 DEF GInv

(* An arrival touches nothing but its own check.                           *)
LEMMA ArriveInv ==
  ASSUME GInv, NEW q \in Req, Arrive(q)
  PROVE  GInv' /\ UNCHANGED << clock, counters, opened >>
               /\ check[q].pc # "locking" /\ check'[q].pc # "limited"
               /\ \A p \in Req \ {q} : check'[p] = check[p]
<1>1. PICK ip \in Ip, pc \in {"blocked", "not_allowed", "locking"} :
        check' = [check EXCEPT ![q] =
                    [pc |-> pc, ip |-> ip, now |-> clock, retry |-> 0]]
  BY DEF Arrive
<1>2. /\ UNCHANGED << clock, counters, opened >> /\ clock \in Nat
      /\ check[q].pc = "idle" /\ check \in [Req -> Check]
  BY GuardAssumption DEF Arrive, GInv, TypeOK
<1>3. [pc |-> pc, ip |-> ip, now |-> clock, retry |-> 0] \in Check
  BY GuardAssumption, <1>2 DEF Check
<1>4. TypeOK' /\ ReadBefore'
  BY <1>1, <1>2, <1>3 DEF GInv, TypeOK, ReadBefore
<1>5. Accounted' /\ WithinBudget'
  BY <1>2 DEF GInv, Accounted, WithinBudget
<1> QED
  BY <1>1, <1>2, <1>4, <1>5 DEF GInv

(* Time passes.                                                            *)
LEMMA TickInv == ASSUME GInv, Tick \/ UNCHANGED vars
                 PROVE  GInv' /\ UNCHANGED << counters, check, opened >>
<1>1. /\ UNCHANGED << counters, check, opened >>
      /\ clock' \in 0 .. MaxTime /\ clock' >= clock
      /\ clock \in Nat /\ clock' \in Nat
  BY GuardAssumption DEF Tick, vars, GInv, TypeOK
<1>2. TypeOK' /\ WithinBudget'
  BY <1>1 DEF GInv, TypeOK, WithinBudget
<1>3. Accounted'
  BY <1>1 DEF GInv, TypeOK, Accounted, Counter
<1>4. ReadBefore'
  BY <1>1 DEF GInv, TypeOK, ReadBefore, Check
<1> QED
  BY <1>1, <1>2, <1>3, <1>4 DEF GInv

(* The steps of Next, for the invariant and the action properties at once. *)
Good ==
  /\ \A q \in Req :
       check[q].pc = "locking" /\ check'[q].pc = "limited" =>
         /\ opened'[check[q].ip].admitted = Requests
         /\ clock + check'[q].retry
                >= counters'[check[q].ip].window_start + Window
  /\ \A i \in DOMAIN counters \intersect DOMAIN counters' :
       opened'[i].start # opened[i].start
       => opened'[i].start >= opened[i].start + Window
  /\ \A i \in DOMAIN counters \ DOMAIN counters' :
       clock >= counters[i].window_start + Window

(* Every step keeps the invariant and is a good one.                       *)
LEMMA NextInv == GInv /\ [Next]_vars => GInv' /\ Good
<1> SUFFICES ASSUME GInv, [Next]_vars PROVE GInv' /\ Good
  OBVIOUS
<1>1. ASSUME NEW q \in Req, Arrive(q)
      PROVE  GInv' /\ Good
  BY <1>1, ArriveInv DEF Good
<1>2. ASSUME NEW q \in Req, Decide(q)
      PROVE  GInv' /\ Good
  <2>1. \A p \in Req \ {q} : check'[p].pc = check[p].pc
    BY <1>2 DEF Decide, GInv, TypeOK
  <2> QED
    BY <1>2, <2>1, DecideInv DEF Good
<1>3. CASE Tick \/ UNCHANGED vars
  BY <1>3, TickInv DEF Good
<1>4. CASE AllAnswered
  BY <1>4, TickInv DEF Good, AllAnswered
<1> QED
  BY <1>1, <1>2, <1>3, <1>4 DEF Next

(* The invariant holds at start.                                           *)
LEMMA InitInv == Init => GInv
BY GuardAssumption DEF Init, GInv, TypeOK, Accounted, ReadBefore, WithinBudget,
   Idle, NoWindow, Check

(* Types: counters only of known addresses, and no wait beyond a window.   *)
THEOREM GuardTypes == Spec => []TypeOK
<1>1. GInv => TypeOK
  BY DEF GInv
<1> QED
  BY <1>1, InitInv, NextInv, PTL DEF Spec

(* No window of an address admits more than it may.                        *)
THEOREM BudgetKept == Spec => []WithinBudget
<1>1. GInv => WithinBudget
  BY DEF GInv
<1> QED
  BY <1>1, InitInv, NextInv, PTL DEF Spec

(* A refused request was refused by a window that had admitted all it may. *)
THEOREM RefusalsJustified == Spec => RefusedWhenSpent
<1>1. Good => \A q \in Req :
                check[q].pc = "locking" /\ check'[q].pc = "limited"
                => opened'[check[q].ip].admitted = Requests
  BY DEF Good
<1> QED
  BY <1>1, InitInv, NextInv, PTL DEF Spec, RefusedWhenSpent

(* The advertised wait outlasts the window.                                *)
THEOREM RetryOutlasts == Spec => RetryIsEnough
<1>1. Good => \A q \in Req :
                check[q].pc = "locking" /\ check'[q].pc = "limited"
                => clock + check'[q].retry
                     >= counters'[check[q].ip].window_start + Window
  BY DEF Good
<1> QED
  BY <1>1, InitInv, NextInv, PTL DEF Spec, RetryIsEnough

(* The windows of a counter do not overlap while it is not swept.          *)
THEOREM WindowsDisjoint == Spec => WindowsApart
<1>1. Good => \A i \in DOMAIN counters \intersect DOMAIN counters' :
                opened'[i].start # opened[i].start
                => opened'[i].start >= opened[i].start + Window
  BY DEF Good
<1> QED
  BY <1>1, InitInv, NextInv, PTL DEF Spec, WindowsApart

(* The sweep drops only counters whose window is over.                     *)
THEOREM SweepSound == Spec => SweptIsOver
<1>1. Good => \A i \in DOMAIN counters \ DOMAIN counters' :
                clock >= counters[i].window_start + Window
  BY DEF Good
<1> QED
  BY <1>1, InitInv, NextInv, PTL DEF Spec, SweptIsOver

-----------------------------------------------------------------------------
(* The proxy.                                                              *)

(* The shape of the records.                                               *)
Shape ==
  /\ handler \in [Req -> [pc : PCs, held : Nat]]
  /\ upstream = [q \in Req |-> [st |-> upstream[q].st,
                               head |-> upstream[q].head,
                               out |-> upstream[q].out]]
  /\ reply = [q \in Req |-> reply[q]]
  /\ spent \in [Req -> Nat]

(* What holds of one exchange: the parts of ProxyTypeOK, WholeReplies and  *)
(* HeadersKept, that only a whole body ends, and that the wait Guard asks  *)
(* for lasts until the window that refused is over.                        *)
Exchange(q) ==
  /\ handler[q].held \in 0 .. upstream[q].out \/ Over(q)
  /\ handler[q].pc \in {"none", "handshake", "gate"} => handler[q].held = 0
  /\ upstream[q].st \in {"idle", "asked", "answering"} \union Ended
  /\ upstream[q].out \in 0 .. Chunks
  /\ upstream[q].st # "idle" <=> handler[q].pc \in {"requesting", "collecting"}
  /\ upstream[q].st # "idle" => check[q].pc = "allowed"
  /\ upstream[q].st = "ended" => upstream[q].out = Chunks
  /\ reply[q].code \in {0, 200, 403, 429, 502}
  /\ reply[q].code # 0 <=> handler[q].pc = "done"
  /\ reply[q].code = 200 => reply[q].chunks = Chunks
  /\ "connection" \notin DOMAIN upstream[q].head
  /\ "connection" \notin DOMAIN reply[q].head
  /\ upstream[q].st # "idle" => upstream[q].head.forwarded_for = check[q].ip
  /\ reply[q].code = 200 => /\ reply[q].head.frame_options = "DENY"
                            /\ Tls => "hsts" \in DOMAIN reply[q].head
  /\ check[q].pc = "limited" => spent[q] <= clock + check[q].retry

PInv == GInv /\ Shape /\ \A q \in Req : Exchange(q)

(* What a forwarded head says, whatever was in it.                         *)
LEMMA ForwardedHead ==
  ASSUME NEW h, NEW ip
  PROVE  /\ "connection" \notin DOMAIN Forwarded(h, ip)
         /\ Forwarded(h, ip).forwarded_for = ip
BY DEF Forwarded, Insert, StripHop

(* What the head of a reply says, whatever was in it.                      *)
LEMMA SecuredHead ==
  ASSUME NEW h
  PROVE  /\ "connection" \notin DOMAIN Secured(StripHop(h))
         /\ Secured(StripHop(h)).frame_options = "DENY"
         /\ Tls => "hsts" \in DOMAIN Secured(StripHop(h))
BY DEF Secured, Insert, StripHop

(* Whole seconds, rounded down but not to zero, and one more.              *)
LEMMA RetryAfterEnough ==
  ASSUME NEW retry \in Nat
  PROVE  /\ RetryAfter(retry) \in Nat /\ RetryAfter(retry) >= 1
         /\ (RetryAfter(retry) + 1) * Second > retry
<1> DEFINE n == retry \div Second
<1>1. Second \in Nat \ {0}
  BY ProxyAssumption
<1>2. /\ n \in Nat /\ retry % Second \in 0 .. Second - 1
      /\ retry = Second * n + (retry % Second)
  BY <1>1
<1> HIDE DEF n
<1>3. retry < (n + 1) * Second
  <2>1. \A a, b \in Nat : (a + 1) * b = b * a + b
    OBVIOUS
  <2>2. (n + 1) * Second = Second * n + Second
    BY <1>1, <1>2, <2>1
  <2>3. Second * n \in Nat
    BY <1>1, <1>2
  <2> QED
    BY <1>1, <1>2, <2>2, <2>3
<1>4. CASE n >= 1
  BY <1>2, <1>3, <1>4 DEF RetryAfter, n
<1>5. CASE n = 0
  BY <1>1, <1>2, <1>3, <1>5 DEF RetryAfter, n
<1> QED
  BY <1>2, <1>4, <1>5

(* A step that leaves the clock, and everything of p.                      *)
Apart(p) ==
  /\ clock' = clock /\ check'[p] = check[p]
  /\ handler'[p] = handler[p] /\ upstream'[p] = upstream[p]
  /\ reply'[p] = reply[p] /\ spent'[p] = spent[p]

LEMMA ApartKeeps ==
  ASSUME NEW p \in Req, Exchange(p), Apart(p)
  PROVE  Exchange(p)'
BY DEF Exchange, Apart, Over

(* A refusal says how long to wait, and not too short.                     *)
Waits ==
  \A q \in Req :
    reply[q].code = 0 /\ reply'[q].code = 429
    => /\ reply'[q].after >= 1
       /\ clock + (reply'[q].after + 1) * Second > spent[q]

(* handle() returns r, for a request that has not been answered.           *)
LEMMA ReturnInv ==
  ASSUME PInv, NEW q \in Req, NEW r, Return(q, r),
         handler[q].pc \in {"gate", "requesting", "collecting"},
         r.code \in {200, 403, 429, 502},
         "connection" \notin DOMAIN r.head,
         r.code = 200 => /\ r.chunks = Chunks
                         /\ r.head.frame_options = "DENY"
                         /\ Tls => "hsts" \in DOMAIN r.head,
         r.code = 429 => /\ r.after >= 1
                         /\ clock + (r.after + 1) * Second > spent[q]
  PROVE  PInv' /\ UNCHANGED vars /\ Waits
<1>1. /\ UNCHANGED << clock, counters, check, opened, spent >>
      /\ handler' = [handler EXCEPT ![q].pc = "done"]
      /\ upstream' = [upstream EXCEPT ![q] = NotAsked]
      /\ reply' = [reply EXCEPT ![q] = r]
  BY DEF Return, vars
<1>2. /\ handler \in [Req -> [pc : PCs, held : Nat]]
      /\ DOMAIN upstream = Req /\ DOMAIN reply = Req
  BY DEF PInv, Shape
<1>3. handler'[q].pc = "done" /\ upstream'[q] = NotAsked /\ reply'[q] = r
  BY <1>1, <1>2
<1>4. ASSUME NEW p \in Req \ {q}
      PROVE  Apart(p)
  BY <1>1, <1>2 DEF Apart
<1>5. Shape'
  <2>1. handler' \in [Req -> [pc : PCs, held : Nat]]
    BY <1>1, <1>2 DEF PCs
  <2>2. upstream' = [p \in Req |-> [st |-> upstream'[p].st,
                                   head |-> upstream'[p].head,
                                   out |-> upstream'[p].out]]
    BY <1>1 DEF PInv, Shape, NotAsked
  <2>3. reply' = [p \in Req |-> reply'[p]]
    BY <1>1, <1>2
  <2>4. spent' \in [Req -> Nat]
    BY <1>1 DEF PInv, Shape
  <2> QED
    BY <2>1, <2>2, <2>3, <2>4 DEF Shape
<1>6. Exchange(q)'
  <2>1. Exchange(q) /\ Chunks \in Nat
    BY ProxyAssumption DEF PInv
  <2> QED
    BY <1>1, <1>3, <2>1 DEF Exchange, NotAsked, NoHead, Over, Ended
<1>7. GInv'
  BY <1>1, TickInv DEF PInv, vars
<1>8. Waits
  BY <1>1, <1>3, <1>4 DEF Waits, Apart
<1> QED
  BY <1>1, <1>4, <1>5, <1>6, <1>7, <1>8, ApartKeeps DEF PInv, vars

(* What an assignment to a field of handler[q] leaves.                     *)
LEMMA HandlerSet ==
  ASSUME PInv, NEW q \in Req, NEW pc \in PCs, NEW held \in Nat,
         \/ /\ handler' = [handler EXCEPT ![q].pc = pc]
            /\ held = handler[q].held
         \/ /\ handler' = [handler EXCEPT ![q].held = held]
            /\ pc = handler[q].pc
  PROVE  /\ handler' \in [Req -> [pc : PCs, held : Nat]]
         /\ handler'[q].pc = pc /\ handler'[q].held = held
         /\ \A p \in Req \ {q} : handler'[p] = handler[p]
<1>1. handler \in [Req -> [pc : PCs, held : Nat]]
  BY DEF PInv, Shape
<1>2. CASE /\ handler' = [handler EXCEPT ![q].pc = pc]
           /\ held = handler[q].held
  BY <1>1, <1>2
<1>3. CASE /\ handler' = [handler EXCEPT ![q].held = held]
           /\ pc = handler[q].pc
  BY <1>1, <1>3
<1> QED
  BY <1>2, <1>3

(* What an assignment to upstream[q] leaves.                               *)
LEMMA UpstreamSet ==
  ASSUME PInv, NEW q \in Req, NEW st, NEW head, NEW out,
         \/ upstream' = [upstream EXCEPT
                ![q] = [st |-> st, head |-> head, out |-> out]]
         \/ /\ upstream' = [upstream EXCEPT ![q].st = st]
            /\ head = upstream[q].head /\ out = upstream[q].out
         \/ /\ upstream' = [upstream EXCEPT ![q].out = out]
            /\ head = upstream[q].head /\ st = upstream[q].st
         \/ /\ upstream' = upstream /\ st = upstream[q].st
            /\ head = upstream[q].head /\ out = upstream[q].out
  PROVE  /\ upstream' = [p \in Req |-> [st |-> upstream'[p].st,
                                        head |-> upstream'[p].head,
                                        out |-> upstream'[p].out]]
         /\ upstream'[q].st = st /\ upstream'[q].head = head
         /\ upstream'[q].out = out
         /\ \A p \in Req \ {q} : upstream'[p] = upstream[p]
<1>1. upstream = [p \in Req |-> [st |-> upstream[p].st,
                                head |-> upstream[p].head,
                                out |-> upstream[p].out]]
  BY DEF PInv, Shape
<1>2. upstream' = [p \in Req |->
         IF p = q THEN [st |-> st, head |-> head, out |-> out]
         ELSE [st |-> upstream[p].st, head |-> upstream[p].head,
               out |-> upstream[p].out]]
  BY <1>1
<1> QED
  BY <1>1, <1>2

(* A step of handle() or of the upstream before the request is answered.   *)
LEMMA MoveInv ==
  ASSUME PInv, NEW q \in Req, UNCHANGED << vars, reply, spent >>,
         handler' \in [Req -> [pc : PCs, held : Nat]],
         upstream' = [p \in Req |-> [st |-> upstream'[p].st,
                                    head |-> upstream'[p].head,
                                    out |-> upstream'[p].out]],
         \A p \in Req \ {q} : /\ handler'[p] = handler[p]
                              /\ upstream'[p] = upstream[p],
         UNCHANGED << check, clock >> => Exchange(q)'
  PROVE  PInv'
<1>1. UNCHANGED << clock, counters, check, opened, reply, spent >>
  BY DEF vars
<1>2. Shape'
  BY <1>1 DEF PInv, Shape
<1>3. GInv'
  BY <1>1, TickInv DEF PInv, vars
<1>4. ASSUME NEW p \in Req \ {q}
      PROVE  Apart(p)
  BY <1>1 DEF Apart
<1> QED
  BY <1>1, <1>2, <1>3, <1>4, ApartKeeps DEF PInv

(* A step that only moves the handler of q.                                *)
LEMMA HandlerMove ==
  ASSUME PInv, NEW q \in Req, UNCHANGED << vars, upstream, reply, spent >>,
         NEW pc \in PCs, NEW held \in Nat,
         \/ /\ handler' = [handler EXCEPT ![q].pc = pc]
            /\ held = handler[q].held
         \/ /\ handler' = [handler EXCEPT ![q].held = held]
            /\ pc = handler[q].pc,
         \/ /\ handler[q].pc \in {"none", "handshake"}
            /\ pc \in {"handshake", "gate", "dropped"}
            /\ held = handler[q].held
         \/ /\ handler[q].pc = "requesting" /\ pc = "collecting"
            /\ held = handler[q].held
         \/ /\ handler[q].pc = "collecting" /\ pc = "collecting"
            /\ handler[q].held < upstream[q].out
            /\ held = handler[q].held + 1
  PROVE  PInv'
<1>1. handler[q] \in [pc : PCs, held : Nat] /\ Exchange(q)
  BY DEF PInv, Shape
<1>2. /\ handler' \in [Req -> [pc : PCs, held : Nat]]
      /\ handler'[q].pc = pc /\ handler'[q].held = held
      /\ \A p \in Req \ {q} : handler'[p] = handler[p]
  BY HandlerSet
<1>3. upstream' = upstream /\ upstream = [p \in Req |->
         [st |-> upstream[p].st, head |-> upstream[p].head,
          out |-> upstream[p].out]]
  BY DEF PInv, Shape
<1>4. ASSUME UNCHANGED << check, clock >>
      PROVE  Exchange(q)'
  BY <1>1, <1>2, <1>4, ProxyAssumption DEF Exchange, Over, Ended
<1> QED
  BY <1>2, <1>3, <1>4, MoveInv

(* The steps of the connection, and of handle() until the body is there.   *)
LEMMA HandlerInv ==
  ASSUME PInv, NEW q \in Req,
         Accept(q) \/ Handshake(q) \/ ReplyHead(q) \/ Collect(q)
  PROVE  PInv' /\ UNCHANGED << vars, reply >>
<1>1. /\ handler[q].held \in Nat /\ handler[q].pc \in PCs
      /\ UNCHANGED << vars, upstream, reply, spent >>
  BY DEF PInv, Shape, Accept, Handshake, ReplyHead, Collect
<1>2. ASSUME NEW pc \in {"handshake", "gate", "dropped"},
             handler[q].pc \in {"none", "handshake"},
             handler' = [handler EXCEPT ![q].pc = pc]
      PROVE  PInv'
  BY <1>1, <1>2, HandlerMove DEF PCs
<1>3. CASE Accept(q)
  <2> DEFINE pc == IF Tls THEN "handshake" ELSE "gate"
  <2>1. pc \in {"handshake", "gate", "dropped"}
    OBVIOUS
  <2>2. /\ handler[q].pc \in {"none", "handshake"}
        /\ handler' = [handler EXCEPT ![q].pc = pc]
    BY <1>3 DEF Accept
  <2> HIDE DEF pc
  <2> QED
    BY <1>1, <1>2, <2>1, <2>2
<1>4. CASE Handshake(q)
  BY <1>1, <1>2, <1>4 DEF Handshake
<1>5. CASE ReplyHead(q)
  BY <1>1, <1>5, HandlerMove DEF ReplyHead, PCs
<1>6. CASE Collect(q)
  <2> DEFINE held == handler[q].held + 1
  <2>1. /\ held \in Nat /\ handler[q].held < upstream[q].out
        /\ handler' = [handler EXCEPT ![q].held = held]
        /\ handler[q].pc = "collecting"
    BY <1>1, <1>6 DEF Collect
  <2>2. held = handler[q].held + 1
    OBVIOUS
  <2> HIDE DEF held
  <2> QED
    BY <1>1, <2>1, <2>2, HandlerMove
<1> QED
  BY <1>1, <1>3, <1>4, <1>5, <1>6

(* A request goes to the upstream.                                         *)
LEMMA ForwardInv ==
  ASSUME PInv, NEW q \in Req, Forward(q), ~Return(q, Text(502))
  PROVE  PInv' /\ UNCHANGED << vars, reply >>
<1>1. PICK h \in Heads :
        /\ upstream' = [upstream EXCEPT
                          ![q] = [st |-> "asked",
                                  head |-> Forwarded(h, check[q].ip),
                                  out |-> 0]]
        /\ handler' = [handler EXCEPT ![q].pc = "requesting"]
        /\ UNCHANGED << vars, reply, spent >>
        /\ handler[q].pc = "gate" /\ check[q].pc = "allowed"
  BY DEF Forward, Admitted
<1>2. handler[q] \in [pc : PCs, held : Nat] /\ Exchange(q)
  BY DEF PInv, Shape
<1>3. /\ handler' \in [Req -> [pc : PCs, held : Nat]]
      /\ handler'[q].pc = "requesting" /\ handler'[q].held = handler[q].held
      /\ \A p \in Req \ {q} : handler'[p] = handler[p]
  BY <1>1, <1>2, HandlerSet DEF PCs
<1> DEFINE head == Forwarded(h, check[q].ip)
<1>4. head = Forwarded(h, check[q].ip)
  OBVIOUS
<1> HIDE DEF head
<1>5. /\ upstream' = [p \in Req |-> [st |-> upstream'[p].st,
                                     head |-> upstream'[p].head,
                                     out |-> upstream'[p].out]]
      /\ upstream'[q].st = "asked" /\ upstream'[q].head = head
      /\ upstream'[q].out = 0
      /\ \A p \in Req \ {q} : upstream'[p] = upstream[p]
  <2>1. upstream' = [upstream EXCEPT
                       ![q] = [st |-> "asked", head |-> head, out |-> 0]]
    BY <1>1, <1>4
  <2> QED
    BY <2>1, UpstreamSet
<1>6. ASSUME UNCHANGED << check, clock >>
      PROVE  Exchange(q)'
  <2>1. "connection" \notin DOMAIN head /\ head.forwarded_for = check[q].ip
    BY <1>4, ForwardedHead
  <2> QED
    BY <1>1, <1>2, <1>3, <1>5, <1>6, <2>1, ProxyAssumption
       DEF Exchange, Over, Ended
<1> QED
  BY <1>1, <1>3, <1>5, <1>6, MoveInv

(* Whatever the upstream does.                                             *)
LEMMA UpstreamInv ==
  ASSUME PInv, NEW q \in Req, Upstream(q)
  PROVE  PInv' /\ UNCHANGED << vars, reply >>
<1>1. /\ UNCHANGED << vars, handler, reply, spent >> /\ Chunks \in Nat
      /\ handler \in [Req -> [pc : PCs, held : Nat]] /\ Exchange(q)
      /\ handler[q] \in [pc : PCs, held : Nat]
  BY ProxyAssumption DEF PInv, Shape, Upstream
<1>2. ASSUME NEW st, NEW out,
             \/ /\ upstream' = [upstream EXCEPT ![q].st = st]
                /\ out = upstream[q].out
             \/ /\ upstream' = [upstream EXCEPT ![q].out = out]
                /\ st = upstream[q].st,
             \/ /\ upstream[q].st = "asked" /\ out = upstream[q].out
                /\ st \in {"refused", "answering"}
             \/ /\ upstream[q].st = "answering" /\ st = "answering"
                /\ upstream[q].out < Chunks /\ out = upstream[q].out + 1
             \/ /\ upstream[q].st = "answering" /\ out = upstream[q].out
                /\ st = "broken" \/ (st = "ended" /\ out = Chunks)
      PROVE  PInv'
  <2>1. /\ upstream' = [p \in Req |-> [st |-> upstream'[p].st,
                                       head |-> upstream'[p].head,
                                       out |-> upstream'[p].out]]
        /\ upstream'[q].st = st /\ upstream'[q].head = upstream[q].head
        /\ upstream'[q].out = out
        /\ \A p \in Req \ {q} : upstream'[p] = upstream[p]
    BY <1>2, UpstreamSet
  <2>2. ASSUME UNCHANGED << check, clock >>
        PROVE  Exchange(q)'
    BY <1>1, <1>2, <2>1, <2>2 DEF Exchange, Over, Ended
  <2> QED
    BY <1>1, <2>1, <2>2, MoveInv
<1>3. CASE /\ upstream[q].st = "asked"
           /\ \E st \in {"refused", "answering"} :
                upstream' = [upstream EXCEPT ![q].st = st]
  BY <1>1, <1>2, <1>3
<1>4. CASE /\ upstream[q].st = "answering" /\ upstream[q].out < Chunks
           /\ upstream' = [upstream EXCEPT ![q].out = @ + 1]
  <2> DEFINE out == upstream[q].out + 1
  <2>1. /\ upstream' = [upstream EXCEPT ![q].out = out]
        /\ out = upstream[q].out + 1
    BY <1>4
  <2> HIDE DEF out
  <2> QED
    BY <1>1, <1>2, <1>4, <2>1
<1>5. CASE /\ upstream[q].st = "answering" /\ upstream[q].out = Chunks
           /\ upstream' = [upstream EXCEPT ![q].st = "ended"]
  BY <1>1, <1>2, <1>5
<1>6. CASE /\ upstream[q].st = "answering"
           /\ upstream' = [upstream EXCEPT ![q].st = "broken"]
  BY <1>1, <1>2, <1>6
<1> QED
  BY <1>1, <1>3, <1>4, <1>5, <1>6 DEF Upstream

(* The client leaves.                                                      *)
LEMMA ClientLeavesInv ==
  ASSUME PInv, NEW q \in Req, ClientLeaves(q)
  PROVE  PInv' /\ UNCHANGED << vars, reply >>
<1>1. /\ UNCHANGED << vars, reply, spent >> /\ Chunks \in Nat
      /\ handler[q] \in [pc : PCs, held : Nat] /\ Exchange(q)
      /\ handler[q].pc # "done"
      /\ handler' = [handler EXCEPT ![q].pc = "dropped"]
      /\ upstream' = [upstream EXCEPT
                        ![q] = [st |-> "idle", head |-> NoHead, out |-> 0]]
  BY ProxyAssumption DEF PInv, Shape, ClientLeaves, NotAsked
<1>2. /\ handler' \in [Req -> [pc : PCs, held : Nat]]
      /\ handler'[q].pc = "dropped" /\ handler'[q].held = handler[q].held
      /\ \A p \in Req \ {q} : handler'[p] = handler[p]
  BY <1>1, HandlerSet DEF PCs
<1>3. /\ upstream' = [p \in Req |-> [st |-> upstream'[p].st,
                                     head |-> upstream'[p].head,
                                     out |-> upstream'[p].out]]
      /\ upstream'[q].st = "idle" /\ upstream'[q].head = NoHead
      /\ upstream'[q].out = 0
      /\ \A p \in Req \ {q} : upstream'[p] = upstream[p]
  BY <1>1, UpstreamSet
<1>4. ASSUME UNCHANGED << check, clock >>
      PROVE  Exchange(q)'
  BY <1>1, <1>2, <1>3, <1>4 DEF Exchange, Over, NoHead
<1> QED
  BY <1>1, <1>2, <1>3, <1>4, MoveInv

(* The gatekeeper decides, and says how long to wait.                      *)
LEMMA GateInv ==
  ASSUME PInv, NEW q \in Req, Gate(q)
  PROVE  PInv' /\ [Next]_vars /\ UNCHANGED reply
<1>1. /\ handler[q].pc = "gate" /\ (Arrive(q) \/ Decide(q)) /\ GInv
      /\ UNCHANGED << handler, upstream, reply >>
  BY DEF Gate, PInv
<1>2. Next /\ GInv' /\ Good
  BY <1>1, NextInv DEF Next
<1>3. /\ clock' = clock /\ \A p \in Req \ {q} : check'[p] = check[p]
      /\ check'[q].pc = "limited" =>
           check[q].pc = "locking" /\ check[q].ip \in DOMAIN counters'
  <2>1. CASE Arrive(q)
    BY <1>1, <2>1, ArriveInv
  <2>2. CASE Decide(q)
    BY <1>1, <2>2 DEF Decide, GInv, TypeOK
  <2> QED
    BY <1>1, <2>1, <2>2
<1>4. check'[q].pc = "limited" =>
        /\ clock + check'[q].retry
             >= counters'[check[q].ip].window_start + Window
        /\ counters'[check[q].ip].window_start \in Nat
  BY <1>2, <1>3 DEF Good, GInv, TypeOK, Counter
<1>5. /\ spent' \in [Req -> Nat]
      /\ check'[q].pc = "limited" => spent'[q] <= clock + check'[q].retry
      /\ \A p \in Req \ {q} : spent'[p] = spent[p]
  <2> DEFINE end == IF check'[q].pc = "limited"
                    THEN counters'[check[q].ip].window_start + Window
                    ELSE spent[q]
  <2>1. /\ spent \in [Req -> Nat] /\ end \in Nat
        /\ check'[q].pc = "limited" => end <= clock + check'[q].retry
    <3>1. spent \in [Req -> Nat] /\ clock \in Nat /\ Window \in Nat
      BY GuardAssumption DEF PInv, Shape, GInv, TypeOK
    <3>2. check'[q].retry \in Nat
      BY <1>2, GuardAssumption DEF GInv, TypeOK, Check
    <3> QED
      BY <1>4, <3>1, <3>2
  <2>2. spent' = [spent EXCEPT ![q] = end]
    BY DEF Gate
  <2> HIDE DEF end
  <2> QED
    BY <2>1, <2>2
<1>6. Exchange(q)'
  <2>1. Exchange(q)
    BY DEF PInv
  <2> QED
    BY <1>1, <1>3, <1>5, <2>1 DEF Exchange, Over
<1>7. ASSUME NEW p \in Req \ {q}
      PROVE  Exchange(p)'
  BY <1>1, <1>3, <1>5, ApartKeeps DEF PInv, Apart
<1>8. Shape'
  BY <1>1, <1>5 DEF PInv, Shape
<1> QED
  BY <1>1, <1>2, <1>6, <1>7, <1>8 DEF PInv

(* A refused request is told to wait until its window is over.             *)
LEMMA RefuseInv ==
  ASSUME PInv, NEW q \in Req, Refuse(q)
  PROVE  PInv' /\ UNCHANGED vars /\ Waits
<1>1. CASE Return(q, Text(403))
  BY <1>1, ReturnInv DEF Refuse, Text
<1>2. CASE /\ check[q].pc = "limited"
           /\ Return(q, [Text(429) EXCEPT
                            !.after = RetryAfter(check[q].retry)])
  <2> DEFINE wait == RetryAfter(check[q].retry)
             r == [Text(429) EXCEPT !.after = wait]
  <2>1. /\ r.code = 429 /\ r.after = wait
        /\ "connection" \notin DOMAIN r.head
    BY DEF Text
  <2>2. /\ check[q].retry \in Nat /\ spent[q] <= clock + check[q].retry
        /\ clock \in Nat /\ spent[q] \in Nat
    BY <1>2, GuardAssumption DEF PInv, Exchange, Shape, GInv, TypeOK, Check
  <2>3. wait \in Nat /\ wait >= 1 /\ (wait + 1) * Second > check[q].retry
    BY <2>2, RetryAfterEnough
  <2>4. clock + (wait + 1) * Second > spent[q]
    <3>1. (wait + 1) * Second \in Nat
      BY <2>3, ProxyAssumption
    <3> HIDE DEF wait
    <3> QED
      BY <2>2, <2>3, <3>1
  <2>5. Return(q, r) /\ handler[q].pc = "gate"
    BY <1>2 DEF Refuse
  <2> HIDE DEF wait, r
  <2> QED
    BY <2>1, <2>3, <2>4, <2>5, ReturnInv
<1> QED
  BY <1>1, <1>2 DEF Refuse

(* The other replies: 502, and a whole body under the proxy's policy.      *)
LEMMA AnswerInv ==
  ASSUME PInv, NEW q \in Req,
         \/ Forward(q) /\ Return(q, Text(502))
         \/ RequestFails(q) \/ CollectFails(q) \/ CollectEnds(q)
  PROVE  PInv' /\ UNCHANGED vars /\ Waits
<1>1. CASE \/ Forward(q) /\ Return(q, Text(502))
           \/ RequestFails(q) \/ CollectFails(q)
  BY <1>1, ReturnInv DEF Forward, RequestFails, CollectFails, Text
<1>2. CASE CollectEnds(q)
  <2>1. PICK h \in Heads :
          Return(q, [code |-> 200, head |-> Secured(StripHop(h)),
                     chunks |-> handler[q].held, after |-> 0])
    BY <1>2 DEF CollectEnds, Relay
  <2> DEFINE head == Secured(StripHop(h))
             r == [code |-> 200, head |-> head,
                   chunks |-> handler[q].held, after |-> 0]
  <2>2. /\ "connection" \notin DOMAIN head /\ head.frame_options = "DENY"
        /\ Tls => "hsts" \in DOMAIN head
    BY SecuredHead
  <2>3. handler[q].pc = "collecting" /\ handler[q].held = Chunks
    BY <1>2 DEF CollectEnds, PInv, Exchange
  <2>4. Return(q, r) /\ r.code = 200 /\ r.chunks = handler[q].held
          /\ r.head = head
    BY <2>1
  <2> HIDE DEF head, r
  <2> QED
    BY <2>2, <2>3, <2>4, ReturnInv
<1> QED
  BY <1>1, <1>2

(* Time passes, or nothing happens.                                        *)
LEMMA PassesInv ==
  ASSUME PInv, Passes \/ UNCHANGED allvars
  PROVE  PInv' /\ [Next]_vars /\ UNCHANGED reply
<1>1. /\ Tick \/ UNCHANGED vars
      /\ UNCHANGED << handler, upstream, reply, spent >>
  BY DEF Passes, pvars, allvars
<1>2. GInv' /\ UNCHANGED check
  BY <1>1, TickInv DEF PInv
<1>3. clock' >= clock /\ clock \in Nat /\ clock' \in Nat
  BY <1>1, <1>2, GuardAssumption DEF Tick, vars, PInv, GInv, TypeOK
<1>4. ASSUME NEW q \in Req
      PROVE  Exchange(q)'
  <2>1. Exchange(q) /\ spent[q] \in Nat /\ check[q].retry \in Nat
    BY GuardAssumption DEF PInv, Shape, GInv, TypeOK, Check
  <2> QED
    BY <1>1, <1>2, <1>3, <2>1 DEF Exchange, Over
<1> QED
  BY <1>1, <1>2, <1>4 DEF PInv, Shape, Next

(* Every step keeps the invariant, is a step of the gatekeeper or leaves   *)
(* it alone, and tells nobody to wait too short.                           *)
LEMMA ProxyNextInv ==
  PInv /\ [ProxyNext]_allvars => PInv' /\ [Next]_vars /\ Waits
<1> SUFFICES ASSUME PInv, [ProxyNext]_allvars
             PROVE  PInv' /\ [Next]_vars /\ Waits
  OBVIOUS
<1>1. UNCHANGED reply => Waits
  BY DEF Waits
<1>2. ASSUME NEW q \in Req,
             Accept(q) \/ Handshake(q) \/ ReplyHead(q) \/ Collect(q)
               \/ Upstream(q) \/ ClientLeaves(q)
      PROVE  PInv' /\ [Next]_vars /\ Waits
  BY <1>1, <1>2, HandlerInv, UpstreamInv, ClientLeavesInv
<1>3. ASSUME NEW q \in Req, Gate(q)
      PROVE  PInv' /\ [Next]_vars /\ Waits
  BY <1>1, <1>3, GateInv
<1>4. ASSUME NEW q \in Req, Forward(q), ~Return(q, Text(502))
      PROVE  PInv' /\ [Next]_vars /\ Waits
  BY <1>1, <1>4, ForwardInv
<1>5. ASSUME NEW q \in Req,
             \/ Forward(q) /\ Return(q, Text(502))
             \/ RequestFails(q) \/ CollectFails(q) \/ CollectEnds(q)
             \/ Refuse(q)
      PROVE  PInv' /\ [Next]_vars /\ Waits
  BY <1>5, RefuseInv, AnswerInv
<1>6. CASE Passes \/ AllOver \/ UNCHANGED allvars
  BY <1>1, <1>6, PassesInv DEF AllOver
<1> QED
  BY <1>2, <1>3, <1>4, <1>5, <1>6 DEF ProxyNext, Step

LEMMA ProxyInitInv == ProxyInit => PInv
<1> SUFFICES ASSUME ProxyInit PROVE PInv
  OBVIOUS
<1>1. GInv
  BY InitInv DEF ProxyInit
<1>2. Shape
  BY DEF ProxyInit, Shape, PCs, NotAsked
<1>3. ASSUME NEW q \in Req
      PROVE  Exchange(q)
  <2>1. /\ handler[q] = [pc |-> "none", held |-> 0]
        /\ upstream[q] = NotAsked /\ reply[q] = NoReply
        /\ check[q].pc = "idle"
    BY DEF ProxyInit, Init, Idle
  <2> QED
    BY <2>1, ProxyAssumption DEF Exchange, NotAsked, NoReply, NoHead, Over
<1> QED
  BY <1>1, <1>2, <1>3 DEF PInv

(* The proxy asks its gatekeeper as Guard says: every behaviour of the     *)
(* proxy is one of Guard, whose theorems hold of it.                       *)
THEOREM ProxyImplementsGuard == ProxySpec => Spec
<1>1. ProxyInit => Init
  BY DEF ProxyInit
<1> QED
  BY <1>1, ProxyInitInv, ProxyNextInv, PTL DEF ProxySpec, Spec

(* In particular no window of an address lets more requests through to the *)
(* upstream than it may.                                                   *)
THEOREM ProxyWithinBudget == ProxySpec => []WithinBudget
BY ProxyImplementsGuard, BudgetKept, PTL

(* Types, and that the upstream only knows of requests that were let in.   *)
THEOREM ProxyTypes == ProxySpec => []ProxyTypeOK
<1>1. PInv => ProxyTypeOK
  BY DEF PInv, Shape, Exchange, ProxyTypeOK
<1> QED
  BY <1>1, ProxyInitInv, ProxyNextInv, PTL DEF ProxySpec

(* No reply of the upstream is passed on in part.                          *)
THEOREM RepliesWhole == ProxySpec => []WholeReplies
<1>1. PInv => WholeReplies
  BY DEF PInv, Exchange, WholeReplies
<1> QED
  BY <1>1, ProxyInitInv, ProxyNextInv, PTL DEF ProxySpec

(* Hop-by-hop headers stay, and what the proxy says of a request and of a  *)
(* reply is what arrives, whatever either side wrote.                      *)
THEOREM HeadersTrue == ProxySpec => []HeadersKept
<1>1. PInv => HeadersKept
  BY DEF PInv, Exchange, HeadersKept
<1> QED
  BY <1>1, ProxyInitInv, ProxyNextInv, PTL DEF ProxySpec

(* Retry-After and one second more outlast the window that refused.        *)
THEOREM RetryAfterOutlasts == ProxySpec => RetryAfterReaches
<1>1. Waits => \A q \in Req :
        reply[q].code = 0 /\ reply'[q].code = 429
        => /\ reply'[q].after >= 1
           /\ clock + (reply'[q].after + 1) * Second > spent[q]
  BY DEF Waits
<1> QED
  BY <1>1, ProxyInitInv, ProxyNextInv, PTL DEF ProxySpec, RetryAfterReaches
=============================================================================
