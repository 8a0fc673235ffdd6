------------------------------ MODULE DnsProxy ------------------------------
(***************************************************************************)
(* The DNS proxy (internal/dns/proxy.go) on top of the firewall: its UDP   *)
(* and TCP servers, and the goroutines that handle queries.  Each blocking *)
(* call of a handler (a log write, the upstream exchange, AllowIP, which   *)
(* waits for the package mutex, the reply) is a step of its own.           *)
(***************************************************************************)
EXTENDS Firewall, HostPolicy

CONSTANTS
  Handlers,  \* bound on queries in flight
  Names,     \* the host names of this instance (q.Name without its last dot)
  Queries,   \* those clients ask for; NoName is a query without question
  Zone,      \* Zone[n]: the answers the upstream may give for n, each the
             \* set of its A and AAAA addresses
  Upstream   \* address of the upstream resolver

NoName == <<>>
ASSUME QueriesAssumption == Queries \subseteq Names \cup {NoName}
ASSUME ZoneAssumption ==
  Zone \in [Names -> SUBSET (SUBSET Addresses)] /\ Upstream \in Addresses

VARIABLES
  srv,        \* srv[net]: the server goroutine of "udp" and of "tcp"
  nat,        \* DNAT rules in place: those of "udp", of "tcp"
  hd,         \* hd[h]: the query handler h works on
  logOpen,    \* the event log is open
  logged,     \* events written to it
  delivered,  \* answers clients got: [host, addr]
  missed      \* addresses whose AllowIP found the firewall not loaded

dnsVars == <<srv, nat, hd, logOpen, logged, delivered, missed>>

Nets == {"udp", "tcp"}
SrvStates == {"none", "starting", "up", "failed", "closing", "down"}
HdPcs ==
  {"idle", "empty", "nxdomain", "denyEvent", "event", "forward", "wait",
   "servfail", "allow", "reply"}
Idle ==
  [pc |-> "idle", net |-> "udp", host |-> NoName, sent |-> FALSE,
   answer |-> {}, todo |-> {}]

DnsInit ==
  /\ srv = [n \in Nets |-> "none"]
  /\ nat = {}
  /\ hd = [h \in Handlers |-> Idle]
  /\ logged = {}
  /\ delivered = {}
  /\ missed = {}

-----------------------------------------------------------------------------
(***************************************************************************)
(* The servers.  Start spawns both goroutines and returns nil; each binds  *)
(* its socket later, and a failure to bind is dropped.  Shutdown stops the *)
(* UDP server: it is refused when that server has not started, otherwise   *)
(* it waits for the UDP handlers.  (The server loop is miekg/dns.)         *)
(***************************************************************************)
Start ==
  /\ srv' = [n \in Nets |-> "starting"]
  /\ UNCHANGED <<nat, hd, logOpen, logged, delivered, missed>>

Bind(n) ==
  /\ srv[n] = "starting"
  /\ \E s \in {"up", "failed"} : srv' = [srv EXCEPT ![n] = s]
  /\ UNCHANGED <<nat, hd, logOpen, logged, delivered, missed>>

InFlight(n) == {h \in Handlers : hd[h].pc # "idle" /\ hd[h].net = n}

ShutdownStarted == srv["udp"] = "up"
BeginShutdown ==
  /\ srv' = IF ShutdownStarted THEN [srv EXCEPT !["udp"] = "closing"] ELSE srv
  /\ UNCHANGED <<nat, hd, logOpen, logged, delivered, missed>>
EndShutdown ==
  /\ srv["udp"] = "closing"
  /\ InFlight("udp") = {}
  /\ srv' = [srv EXCEPT !["udp"] = "down"]
  /\ UNCHANGED <<nat, hd, logOpen, logged, delivered, missed>>

(***************************************************************************)
(* The event log, as the handlers use it: a write after Close fails, and   *)
(* the error is dropped.                                                   *)
(***************************************************************************)
WriteEvent(host, action, rule) ==
  logged' = IF logOpen
            THEN logged \cup {[host |-> host, action |-> action, rule |-> rule]}
            ELSE logged

-----------------------------------------------------------------------------
Allowed == MergeAllowed(policy.auto \/ policy.gha, policy.allowedHosts)
Decide(host) == EvaluateHost(Allowed, policy.deniedHosts, host)
Monitoring == policy.mode = "MONITOR"

Step(h, pc) == hd' = [hd EXCEPT ![h].pc = pc]
Done(h) == hd' = [hd EXCEPT ![h] = Idle]

(* The servers hand a query to a handler.                                  *)
handle(h, n, host) ==
  /\ hd[h].pc = "idle"
  /\ srv[n] = "up"
  /\ hd' = [hd EXCEPT ![h] = [Idle EXCEPT
       !.net = n,
       !.host = host,
       !.pc = IF host = NoName THEN "empty"
              ELSE IF Decide(host).Allow \/ Monitoring THEN "event"
              ELSE "nxdomain"]]
  /\ UNCHANGED <<srv, nat, logOpen, logged, delivered, missed, fwVars>>

(* A query without question, or one that failed upstream: no addresses.    *)
ReplyWithoutAnswer(h) ==
  /\ hd[h].pc \in {"empty", "servfail"}
  /\ Done(h)
  /\ UNCHANGED <<srv, nat, logOpen, logged, delivered, missed, fwVars>>

(* NXDOMAIN first, then the event.                                         *)
ReplyNXDomain(h) ==
  /\ hd[h].pc = "nxdomain"
  /\ Step(h, "denyEvent")
  /\ UNCHANGED <<srv, nat, logOpen, logged, delivered, missed, fwVars>>

(* A slip: the return after the event is missing.                          *)
OnDenyEventFallsThrough(h) ==
  /\ hd[h].pc = "denyEvent"
  /\ WriteEvent(hd[h].host, "DENY", Decide(hd[h].host).Rule)
  /\ Step(h, "forward")
  /\ UNCHANGED <<srv, nat, logOpen, delivered, missed, fwVars>>

OnDenyEvent(h) ==
  /\ hd[h].pc = "denyEvent"
  /\ WriteEvent(hd[h].host, "DENY", Decide(hd[h].host).Rule)
  /\ Done(h)
  /\ UNCHANGED <<srv, nat, logOpen, delivered, missed, fwVars>>

(* A slip: only allowed names are logged.                                  *)
OnEventAllowOnly(h) ==
  /\ hd[h].pc = "event"
  /\ LET dec == Decide(hd[h].host)
     IN  IF dec.Allow THEN WriteEvent(hd[h].host, "ALLOW", dec.Rule)
         ELSE UNCHANGED logged
  /\ Step(h, "forward")
  /\ UNCHANGED <<srv, nat, logOpen, delivered, missed, fwVars>>

OnEvent(h) ==
  /\ hd[h].pc = "event"
  /\ LET dec == Decide(hd[h].host)
     IN  WriteEvent(hd[h].host, IF dec.Allow THEN "ALLOW" ELSE "MONITOR_DENY",
                    dec.Rule)
  /\ Step(h, "forward")
  /\ UNCHANGED <<srv, nat, logOpen, delivered, missed, fwVars>>

(* c.Exchange sends one UDP packet to the upstream.  The DNAT rule applies *)
(* to the agent's own packets too: they come back to this proxy, which     *)
(* forwards them again, until the first client in the chain times out.     *)
Forward(h) ==
  /\ hd[h].pc = "forward"
  /\ hd' = [hd EXCEPT ![h] = [@ EXCEPT
       !.pc = "wait",
       !.sent = "udp" \notin nat /\ Passes(Upstream)]]
  /\ UNCHANGED <<srv, nat, logOpen, logged, delivered, missed, fwVars>>

ExchangeError(h) ==
  /\ hd[h].pc = "wait"
  /\ Step(h, "servfail")
  /\ UNCHANGED <<srv, nat, logOpen, logged, delivered, missed, fwVars>>

(* A slip: the answer is sent first and the firewall opened after it.      *)
ExchangeThenReply(h) ==
  /\ hd[h].pc = "wait"
  /\ hd[h].sent
  /\ \E rrs \in Zone[hd[h].host] :
       hd' = [hd EXCEPT ![h] = [@ EXCEPT !.pc = "reply", !.answer = rrs]]
  /\ UNCHANGED <<srv, nat, logOpen, logged, delivered, missed, fwVars>>

(* A slip: the records are queued for AllowIP and left out of the reply.   *)
ExchangeDropsAnswer(h) ==
  /\ hd[h].pc = "wait"
  /\ hd[h].sent
  /\ \E rrs \in Zone[hd[h].host] :
       hd' = [hd EXCEPT ![h] = [@ EXCEPT !.pc = "allow", !.todo = rrs]]
  /\ UNCHANGED <<srv, nat, logOpen, logged, delivered, missed, fwVars>>

ExchangeAnswer(h) ==
  /\ hd[h].pc = "wait"
  /\ hd[h].sent
  /\ \E rrs \in Zone[hd[h].host] :
       hd' = [hd EXCEPT ![h] =
                [@ EXCEPT !.pc = "allow", !.answer = rrs, !.todo = rrs]]
  /\ UNCHANGED <<srv, nat, logOpen, logged, delivered, missed, fwVars>>

(* A slip: the map is written without taking the package mutex.            *)
OnAllowUnlocked(h) ==
  /\ hd[h].pc = "allow"
  /\ \E a \in hd[h].todo :
       /\ IF loaded THEN Put(Entry(HostKey(Unmap(a)))) ELSE UNCHANGED allow
       /\ missed' = IF loaded THEN missed ELSE missed \cup {a}
       /\ hd' = [hd EXCEPT ![h].todo = @ \ {a}]
  /\ UNCHANGED <<policy, fwPc, todo, attachRet, loaded, live, stuck, audit>>
  /\ UNCHANGED <<srv, nat, logOpen, logged, delivered>>

(* OnAllow for the next A or AAAA record: Unmap, AllowIP, error dropped.   *)
OnAllow(h) ==
  /\ hd[h].pc = "allow"
  /\ \E a \in hd[h].todo :
       /\ AllowIP(Unmap(a))
       /\ missed' = IF loaded THEN missed ELSE missed \cup {a}
       /\ hd' = [hd EXCEPT ![h].todo = @ \ {a}]
  /\ UNCHANGED <<srv, nat, logOpen, logged, delivered>>
OnAllowEnd(h) ==
  /\ hd[h].pc = "allow"
  /\ hd[h].todo = {}
  /\ Step(h, "reply")
  /\ UNCHANGED <<srv, nat, logOpen, logged, delivered, missed, fwVars>>

Reply(h) ==
  /\ hd[h].pc = "reply"
  /\ delivered' = delivered \cup
                    {[host |-> hd[h].host, addr |-> a] : a \in hd[h].answer}
  /\ Done(h)
  /\ UNCHANGED <<srv, nat, logOpen, logged, missed, fwVars>>

(* The part of a handler that is up to the agent and its clients' kernel.  *)
HandlerStep(h) ==
  \/ ReplyWithoutAnswer(h) \/ ReplyNXDomain(h) \/ OnDenyEvent(h)
  \/ OnEvent(h) \/ Forward(h) \/ ExchangeError(h) \/ ExchangeAnswer(h)
  \/ OnAllow(h) \/ OnAllowEnd(h) \/ Reply(h)

DnsNext ==
  \/ \E n \in Nets : Bind(n) /\ UNCHANGED fwVars
  \/ \E h \in Handlers :
       \/ \E n \in Nets, host \in Queries : handle(h, n, host)
       \/ HandlerStep(h)

-----------------------------------------------------------------------------
(* Types of the proxy's state.                                             *)
DnsTypeOK ==
  /\ srv \in [Nets -> SrvStates]
  /\ nat \subseteq Nets
  /\ \A h \in Handlers :
       /\ hd[h].pc \in HdPcs
       /\ hd[h].net \in Nets
       /\ hd[h].host \in Names \cup {NoName}
       /\ hd[h].todo \subseteq hd[h].answer
  /\ logOpen \in BOOLEAN
  /\ missed \subseteq UNION UNION {Zone[n] : n \in Names}
=============================================================================
