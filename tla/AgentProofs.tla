----------------------------- MODULE AgentProofs -----------------------------
(***************************************************************************)
(* Proofs about Agent, for any number of query handlers and every policy,  *)
(* zone and set of sockets: the agent uses the firewall package the way    *)
(* Firewall specifies, so what FirewallProofs shows of the package holds   *)
(* in the agent, and no query gets around the policy or the log.           *)
(***************************************************************************)
EXTENDS Agent, FirewallProofs

(* Every address an upstream may answer with.                              *)
ZoneAddresses == UNION {UNION Zone[n] : n \in Names}

HandlerStates ==
  [pc : HdPcs, net : Nets, host : Names \cup {NoName}, sent : BOOLEAN,
   answer : SUBSET ZoneAddresses, todo : SUBSET ZoneAddresses]

(* A handler past the empty-question test has a name; addresses it works   *)
(* on come from the upstream.                                              *)
HandlerInv ==
  /\ hd \in [Handlers -> HandlerStates]
  /\ \A h \in Handlers : hd[h].pc \notin {"idle", "empty"} => hd[h].host \in Names

(* Until the attach the firewall is untouched; main's loops run over the   *)
(* policy's CIDRs, the open sockets and the zone.                          *)
BeforeAttach ==
  {"mkdir", "loadPolicy", "openLog", "sudo", "dns", "redirect", "docker",
   "attach"}
MainInv ==
  /\ main \in BeforeAttach => MuFree /\ ~ loaded /\ live = {}
  /\ main = "cidrs" => work \subseteq Cidrs
  /\ main = "seed" => work \subseteq Sockets
  /\ main = "resolve" => work \subseteq Names
  /\ batch \subseteq ZoneAddresses

(* Outside monitor mode a handler that goes on to forward has a name the   *)
(* policy allows.                                                          *)
DenyInv ==
  ~ Monitoring =>
    /\ \A h \in Handlers :
         hd[h].pc \in {"event", "forward", "wait", "servfail", "allow", "reply"} =>
           Decide(hd[h].host).Allow
    /\ \A d \in delivered : Decide(d.host).Allow

(* The log line of a decision comes before the query is forwarded, and the *)
(* log is opened before there is a server.                                 *)
LoggedFor(host) ==
  \E e \in logged :
    /\ e.host = host
    /\ e.action = IF Decide(host).Allow THEN "ALLOW" ELSE "MONITOR_DENY"
BeforeDns == {"mkdir", "loadPolicy", "openLog", "sudo", "dns"}
LogInv ==
  /\ main \in BeforeDns =>
       /\ srv = [n \in Nets |-> "none"]
       /\ \A h \in Handlers : hd[h].pc = "idle"
       /\ delivered = {}
  /\ logOpen =>
       /\ \A h \in Handlers :
            hd[h].pc \in {"forward", "wait", "servfail", "allow", "reply"} =>
              LoggedFor(hd[h].host)
       /\ \A d \in delivered : LoggedFor(d.host)

AgentInv == FwInv /\ HandlerInv /\ MainInv

-----------------------------------------------------------------------------
(***************************************************************************)
(* The steps of the main goroutine.                                        *)
(***************************************************************************)
(* What it may do to the firewall and to its own loops.                    *)
LEMMA MainKeepsInv ==
  ASSUME AgentInv, MainStep \/ Sigterm \/ SeedUpstream
  PROVE  [FwNext]_fwVars /\ MainInv' /\ hd' = hd /\ delivered' = delivered
<1> USE DEF AgentInv
<1>1. CASE MakeRunDir
  BY <1>1 DEF MakeRunDir, To, Exit, MainInv, BeforeAttach,
       loopVars, fwVars, dnsVars, MuFree
<1>2. CASE LoadPolicy
  BY <1>2 DEF LoadPolicy, To, ReturnError, MainInv, BeforeAttach,
       loopVars, fwVars, dnsVars, MuFree
<1>3. CASE OpenLog
  BY <1>3 DEF OpenLog, To, ReturnError, MainInv, BeforeAttach,
       loopVars, fwVars, MuFree
<1>4. CASE EnableSudoLockdown
  BY <1>4 DEF EnableSudoLockdown, To, ReturnError, MainInv, BeforeAttach,
       loopVars, fwVars, MuFree
<1>5. CASE StartDns
  BY <1>5 DEF StartDns, To, Start, MainInv, BeforeAttach,
       loopVars, fwVars, MuFree
<1>6. CASE EnableRedirect
  BY <1>6 DEF EnableRedirect, To, MainInv, BeforeAttach,
       loopVars, fwVars, MuFree
<1>7. CASE EnableDockerDns
  BY <1>7 DEF EnableDockerDns, To, MainInv, BeforeAttach,
       loopVars, fwVars, MuFree
<1>8. CASE CallAttach
  BY <1>8 DEF CallAttach, To, MainInv, BeforeAttach, AttachFirewall,
       FwNext, loopVars, dnsVars, MuFree
<1>9. CASE AttachReturned
  BY <1>9, AgentPoliciesAssumption DEF AttachReturned, To, CloseAndReturnError,
       MainInv, BeforeAttach, FwInv, FwTypeOK, fwVars
<1>10. CASE AllowCidr
  <2>1. PICK c \in work : AllowPrefix(c) /\ work' = work \ {c}
    BY <1>10 DEF AllowCidr
  <2>2. c \in Cidrs
    BY <1>10 DEF AllowCidr, MainInv
  <2> QED
    BY <1>10, <2>1, <2>2 DEF AllowCidr, FwNext, MainInv, BeforeAttach, dnsVars
<1>11. CASE AllowCidrsEnd
  BY <1>11 DEF AllowCidrsEnd, To, MainInv, BeforeAttach, fwVars
<1>12. CASE SeedSocket
  <2>1. PICK a \in work : AllowIP(ProcAddress(a)) /\ work' = work \ {a}
    BY <1>12 DEF SeedSocket
  <2>2. ProcAddress(a) \in Dests
    BY <1>12, TargetsAssumption DEF SeedSocket, MainInv
  <2> QED
    BY <1>12, <2>1, <2>2 DEF SeedSocket, FwNext, MainInv, BeforeAttach, dnsVars
<1>13. CASE SeedEnd
  BY <1>13 DEF SeedEnd, To, HostsToResolve, MainInv, BeforeAttach, fwVars, dnsVars
<1>14. CASE ResolveHost
  <2>1. PICK m \in work : work' = work \ {m} /\ batch' \in Zone[m] \cup {{}}
    BY <1>14 DEF ResolveHost
  <2>2. m \in Names /\ work \subseteq Names
    BY <1>14 DEF ResolveHost, MainInv
  <2>3. batch' \subseteq ZoneAddresses
    BY <2>1, <2>2 DEF ZoneAddresses
  <2> QED
    BY <1>14, <2>1, <2>2, <2>3 DEF ResolveHost, MainInv, BeforeAttach, fwVars, dnsVars
<1>15. CASE AllowResolved
  <2>1. PICK a \in batch : AllowIP(Unmap(a)) /\ batch' = batch \ {a}
    BY <1>15 DEF AllowResolved
  <2>2. Unmap(a) \in Dests
    BY TargetsAssumption DEF MainInv, ZoneAddresses
  <2> QED
    BY <1>15, <2>1, <2>2 DEF AllowResolved, FwNext, MainInv, BeforeAttach, dnsVars
<1>16. CASE ResolveEnd
  BY <1>16 DEF ResolveEnd, To, MainInv, BeforeAttach, loopVars, fwVars
<1>17. CASE WritePidFile
  BY <1>17 DEF WritePidFile, WriteSentinel, To, CloseAndReturnError,
       MainInv, BeforeAttach, loopVars, fwVars, dnsVars
<1>18. CASE WriteReadyFile
  BY <1>18 DEF WriteReadyFile, WriteSentinel, To, CloseAndReturnError,
       MainInv, BeforeAttach, loopVars, fwVars, dnsVars
<1>19. CASE ContextDone
  BY <1>19 DEF ContextDone, To, MainInv, BeforeAttach, loopVars, fwVars, dnsVars
<1>20. CASE Upload
  BY <1>20 DEF Upload, MainInv, BeforeAttach, loopVars, fwVars, dnsVars
<1>21. CASE CloseDockerDns
  BY <1>21 DEF CloseDockerDns, MainInv, BeforeAttach, loopVars, fwVars, dnsVars
<1>22. CASE CloseRedirect
  BY <1>22 DEF CloseRedirect, MainInv, BeforeAttach, loopVars, fwVars
<1>23. CASE CloseDns
  BY <1>23 DEF CloseDns, BeginShutdown, MainInv, BeforeAttach, loopVars, fwVars
<1>24. CASE CloseDnsEnd
  BY <1>24 DEF CloseDnsEnd, EndShutdown, To, MainInv, BeforeAttach, loopVars,
       fwVars, dnsVars
<1>25. CASE CloseFirewall
  BY <1>25 DEF CloseFirewall, FwNext, To, MainInv, BeforeAttach, loopVars, dnsVars
<1>26. CASE CloseFirewallEnd
  BY <1>26 DEF CloseFirewallEnd, To, MainInv, BeforeAttach, loopVars, fwVars, dnsVars
<1>27. CASE CloseSudo
  BY <1>27 DEF CloseSudo, To, MainInv, BeforeAttach, loopVars, fwVars, dnsVars
<1>28. CASE CloseLog
  BY <1>28 DEF CloseLog, MainInv, BeforeAttach, loopVars, fwVars
<1>29. CASE CloseFiles
  BY <1>29 DEF CloseFiles, Exit, MainInv, BeforeAttach, loopVars, fwVars, dnsVars
<1>30. CASE WriteFail
  BY <1>30 DEF WriteFail, Exit, MainInv, BeforeAttach, loopVars, fwVars, dnsVars
<1>31. CASE Sigterm
  BY <1>31 DEF Sigterm, MainInv, MuFree, loopVars, fwVars, dnsVars
<1>32. CASE SeedUpstream
  <2>1. ProcAddress(Upstream) \in Dests
    BY TargetsAssumption
  <2> QED
    BY <1>32, <2>1 DEF SeedUpstream, FwNext, MainInv, BeforeAttach, mainVars, loopVars, dnsVars
<1> QED
  BY <1>1, <1>2, <1>3, <1>4, <1>5, <1>6, <1>7, <1>8, <1>9, <1>10, <1>11,
     <1>12, <1>13, <1>14, <1>15, <1>16, <1>17, <1>18, <1>19, <1>20, <1>21,
     <1>22, <1>23, <1>24, <1>25, <1>26, <1>27, <1>28, <1>29, <1>30, <1>31,
     <1>32 DEF MainStep

-----------------------------------------------------------------------------
(***************************************************************************)
(* The steps of the DNS proxy's goroutines.                                *)
(***************************************************************************)
(* A handler grants addresses of its upstream's answer and leaves the rest *)
(* of the firewall alone.                                                  *)
LEMMA DnsKeepsInv ==
  ASSUME AgentInv, DnsStep
  PROVE  [FwNext]_fwVars /\ HandlerInv' /\ MainInv'
<1> USE DEF AgentInv
<1>1. UNCHANGED mainVars /\ DnsNext
  BY DEF DnsStep
<1>2. ASSUME UNCHANGED fwVars PROVE MainInv'
  BY <1>1, <1>2 DEF mainVars, loopVars, fwVars, MainInv, MuFree
<1>3. ASSUME NEW n \in Nets, Bind(n), UNCHANGED fwVars PROVE HandlerInv'
  BY <1>3 DEF Bind, HandlerInv
<1>4. ASSUME NEW h \in Handlers, NEW n \in Nets, NEW host \in Queries,
             handle(h, n, host)
      PROVE  HandlerInv' /\ UNCHANGED fwVars
  <2>1. host = NoName \/ host \in Names
    BY QueriesAssumption
  <2>2. hd'[h] \in HandlerStates /\ hd'[h].host = host
        /\ (hd'[h].pc = "empty" \/ host # NoName)
    BY <1>4, <2>1 DEF handle, HandlerInv, HandlerStates, Idle, HdPcs
  <2> QED
    BY <1>4, <2>1, <2>2 DEF handle, HandlerInv
<1>5. ASSUME NEW h \in Handlers,
             \/ ReplyWithoutAnswer(h) \/ ReplyNXDomain(h) \/ OnDenyEvent(h)
             \/ OnEvent(h) \/ Forward(h) \/ ExchangeError(h) \/ OnAllowEnd(h)
             \/ Reply(h)
      PROVE  HandlerInv' /\ UNCHANGED fwVars
  <2>0. Idle \in HandlerStates
    BY DEF Idle, HandlerStates, HdPcs, Nets
  <2>1. ASSUME Done(h) PROVE HandlerInv'
    BY <2>0, <2>1 DEF Done, HandlerInv, Idle
  <2>2. ASSUME NEW pc \in HdPcs, Step(h, pc), hd[h].pc \notin {"idle", "empty"}
        PROVE  HandlerInv'
    BY <2>2 DEF Step, HandlerInv, HandlerStates
  <2>3. CASE Forward(h)
    <3>1. PICK s \in BOOLEAN :
            hd' = [hd EXCEPT ![h] = [@ EXCEPT !.pc = "wait", !.sent = s]]
      <4>1. ("udp" \notin nat /\ Passes(Upstream)) \in BOOLEAN
        OBVIOUS
      <4> QED
        BY <2>3, <4>1, Zenon DEF Forward
    <3>2. hd[h].pc = "forward" /\ UNCHANGED fwVars
      BY <2>3, Zenon DEF Forward
    <3> QED
      BY <3>1, <3>2 DEF HandlerInv, HandlerStates, HdPcs
  <2>4. CASE ~ Forward(h)
    BY <1>5, <2>1, <2>2, <2>4 DEF ReplyWithoutAnswer, ReplyNXDomain, OnDenyEvent,
         OnEvent, ExchangeError, OnAllowEnd, Reply, HdPcs
  <2> QED
    BY <2>3, <2>4
<1>6. ASSUME NEW h \in Handlers, ExchangeAnswer(h)
      PROVE  HandlerInv' /\ UNCHANGED fwVars
  <2>1. PICK rrs \in Zone[hd[h].host] :
          hd' = [hd EXCEPT ![h] =
                   [@ EXCEPT !.pc = "allow", !.answer = rrs, !.todo = rrs]]
    BY <1>6 DEF ExchangeAnswer
  <2>2. rrs \subseteq ZoneAddresses
    BY <1>6, <2>1 DEF ExchangeAnswer, HandlerInv, ZoneAddresses
  <2>3. hd[h].pc = "wait" /\ UNCHANGED fwVars
    BY <1>6 DEF ExchangeAnswer
  <2> QED
    BY <2>1, <2>2, <2>3 DEF HandlerInv, HandlerStates, HdPcs
<1>7. ASSUME NEW h \in Handlers, OnAllow(h)
      PROVE  HandlerInv' /\ MainInv' /\ FwNext
  <2>1. PICK a \in hd[h].todo :
          AllowIP(Unmap(a)) /\ hd' = [hd EXCEPT ![h].todo = @ \ {a}]
    BY <1>7 DEF OnAllow
  <2>2. Unmap(a) \in Dests
    BY TargetsAssumption DEF HandlerInv, HandlerStates, ZoneAddresses
  <2>3. FwNext
    BY <2>1, <2>2 DEF FwNext
  <2>4. HandlerInv'
    BY <2>1 DEF HandlerInv, HandlerStates
  <2>5. MainInv'
    BY <1>1, <2>1 DEF AllowIP, AllowKey, mainVars, loopVars, MainInv, MuFree
  <2> QED
    BY <2>3, <2>4, <2>5
<1> QED
  BY <1>1, <1>2, <1>3, <1>4, <1>5, <1>6, <1>7 DEF DnsNext, HandlerStep

-----------------------------------------------------------------------------
(***************************************************************************)
(* The invariant of the composition.                                       *)
(***************************************************************************)
(* Before main has done anything the firewall and the handlers are idle.   *)
LEMMA AgentInvInit == Init => AgentInv
<1> SUFFICES ASSUME Init PROVE AgentInv
  OBVIOUS
<1>1. FwInv
  BY FwInvInit DEF Init
<1>2. HandlerInv
  BY DEF Init, DnsInit, HandlerInv, HandlerStates, Idle, HdPcs, Nets
<1>3. MainInv
  BY DEF Init, FwInit, MainInv, MuFree
<1> QED
  BY <1>1, <1>2, <1>3 DEF AgentInv

(* Every step of the agent is a step of the firewall package or leaves the *)
(* firewall alone, and keeps the invariant.                                *)
LEMMA AgentInvStep == AgentInv /\ [Next]_vars => [FwNext]_fwVars /\ AgentInv'
<1> SUFFICES ASSUME AgentInv, [Next]_vars
             PROVE  [FwNext]_fwVars /\ HandlerInv' /\ MainInv'
  BY FwInvStep DEF AgentInv
<1>1. CASE MainStep \/ Sigterm \/ SeedUpstream
  BY <1>1, MainKeepsInv DEF AgentInv, HandlerInv
<1>2. CASE DnsStep
  BY <1>2, DnsKeepsInv
<1>3. CASE FirewallStep
  <2>1. FwStep /\ UNCHANGED <<dnsVars, mainVars>>
    BY <1>3 DEF FirewallStep
  <2>2. fwPc # "idle"
    BY <2>1 DEF FwStep, RemoveMemlock, LoadCensorObjects, ConfigPut,
         AttachConnect4, AttachConnect6, AttachEgress, Attach, AttachExec,
         NewReader, CleanupStep, CleanupEnd
  <2> QED
    BY <2>1, <2>2 DEF FwNext, AgentInv, HandlerInv, MainInv, MuFree, dnsVars,
         mainVars, loopVars
<1>4. CASE UNCHANGED vars
  BY <1>4 DEF AgentInv, HandlerInv, MainInv, MuFree, vars, fwVars, dnsVars,
       mainVars, loopVars
<1> QED
  BY <1>1, <1>2, <1>3, <1>4 DEF Next, Terminated

(* The agent's goroutines share the firewall package and together use it   *)
(* only as Firewall specifies: main's attach, seeding and detach and the   *)
(* handlers' AllowIP implement that specification.                         *)
THEOREM FirewallRefinement == Spec => FirewallBehaviour
<1>1. Init => FwInit
  BY DEF Init
<1> QED
  BY <1>1, AgentInvInit, AgentInvStep, PTL DEF Spec, FirewallBehaviour

(* Hence what FirewallProofs shows of the package holds in the agent: the  *)
(* hooks and objects are all or nothing and closed in order, monitor mode  *)
(* never drops a frame, and a live hook never lets an unlisted address out.*)
THEOREM FirewallInAgent ==
  Spec => [](/\ FwTypeOK /\ AllOrNothing /\ HooksHaveObjects
             /\ MonitorNeverDrops /\ EnforceDropsUnlisted)
<1>1. FwInv => /\ FwTypeOK /\ AllOrNothing /\ HooksHaveObjects
               /\ MonitorNeverDrops /\ EnforceDropsUnlisted
  BY FwInvImplies DEF FwInv
<1> QED
  BY <1>1, AgentInvInit, AgentInvStep, PTL DEF Spec, AgentInv

-----------------------------------------------------------------------------
(***************************************************************************)
(* The policy and the log.                                                 *)
(***************************************************************************)
(* The policy is read once: no call of the firewall package changes it.    *)
LEMMA PolicyKept ==
  ASSUME [FwNext]_fwVars
  PROVE  policy' = policy
  BY DEF FwNext, FwStep, RemoveMemlock, LoadCensorObjects, ConfigPut,
     AttachConnect4, AttachConnect6, AttachEgress, Attach, AttachExec,
     NewReader, CleanupStep, CleanupEnd, Fail, Goto, AttachFirewall,
     DetachFirewall, AllowIP, AllowPrefix, AllowKey, fwVars

(* A handler that passed the decision keeps its name until it is done.     *)
LEMMA DenyInvStep == AgentInv /\ DenyInv /\ [Next]_vars => DenyInv'
<1> SUFFICES ASSUME AgentInv, DenyInv, [Next]_vars PROVE DenyInv'
  OBVIOUS
<1>0. policy' = policy /\ hd \in [Handlers -> HandlerStates]
  BY AgentInvStep, PolicyKept DEF AgentInv, HandlerInv
<1> USE <1>0 DEF DenyInv, Monitoring, Decide, Allowed
<1>1. ASSUME hd' = hd, delivered' = delivered PROVE DenyInv'
  BY <1>1
<1>2. ASSUME NEW h \in Handlers, NEW n \in Nets, NEW host \in Queries,
             handle(h, n, host)
      PROVE  DenyInv'
  <2>1. hd'[h].host = host /\ \A g \in Handlers \ {h} : hd'[g] = hd[g]
    BY <1>2 DEF handle, Idle
  <2>2. hd'[h].pc \in {"empty", "nxdomain"} \/ Decide(host).Allow \/ Monitoring
    BY <1>2 DEF handle, Idle
  <2> QED
    BY <1>2, <2>1, <2>2 DEF handle
<1>3. ASSUME NEW h \in Handlers, HandlerStep(h) PROVE DenyInv'
  <2>1. CASE Done(h) /\ delivered' = delivered
    BY <2>1 DEF Done, Idle
  <2>2. CASE Reply(h)
    BY <2>2 DEF Reply, Done, Idle
  <2>3. CASE ReplyNXDomain(h)
    BY <2>3 DEF ReplyNXDomain, Step, HandlerStates
  <2>4. CASE /\ hd[h].pc \in {"event", "forward", "wait", "allow"}
             /\ hd'[h].host = hd[h].host
             /\ \A g \in Handlers \ {h} : hd'[g] = hd[g]
             /\ delivered' = delivered
    BY <2>4
  <2>5. CASE OnEvent(h) \/ ExchangeError(h) \/ OnAllowEnd(h)
    BY <2>4, <2>5 DEF OnEvent, ExchangeError, OnAllowEnd, Step, HandlerStates
  <2>6. CASE Forward(h)
    BY <2>4, <2>6 DEF Forward, HandlerStates
  <2>7. CASE ExchangeAnswer(h)
    BY <2>4, <2>7 DEF ExchangeAnswer, HandlerStates
  <2>8. CASE OnAllow(h)
    BY <2>4, <2>8 DEF OnAllow, HandlerStates
  <2> QED
    BY <1>3, <2>1, <2>2, <2>3, <2>5, <2>6, <2>7, <2>8
       DEF HandlerStep, ReplyWithoutAnswer, OnDenyEvent
<1>4. CASE DnsStep
  BY <1>1, <1>2, <1>3, <1>4 DEF DnsStep, DnsNext, Bind
<1>5. CASE MainStep \/ Sigterm \/ SeedUpstream
  BY <1>1, <1>5, MainKeepsInv
<1>6. CASE FirewallStep \/ UNCHANGED vars
  BY <1>1, <1>6 DEF FirewallStep, vars, dnsVars
<1> QED
  BY <1>4, <1>5, <1>6 DEF Next, Terminated

(* No interleaving of handlers, main and the firewall gives a client an    *)
(* address for a name the policy denies.                                   *)
THEOREM NothingDeniedIsDelivered == Spec => []DeniedNeverDelivered
<1>1. Init => DenyInv
  BY DEF Init, DnsInit, DenyInv, Idle
<1>2. DenyInv => DeniedNeverDelivered
  BY DEF DenyInv, DeniedNeverDelivered
<1> QED
  BY <1>1, <1>2, AgentInvInit, AgentInvStep, DenyInvStep, PTL DEF Spec

(* Main appends to the log, opens it before the proxy starts and never     *)
(* opens it again.                                                         *)
LEMMA MainKeepsLog ==
  ASSUME MainStep \/ Sigterm \/ SeedUpstream
  PROVE  /\ logged \subseteq logged'
         /\ main' \in BeforeDns => main \in BeforeDns /\ srv' = srv
         /\ logOpen' /\ ~ logOpen => main \in BeforeDns
<1> USE DEF BeforeDns, To
<1>1. ASSUME NEW host, NEW action, NEW rule, WriteEvent(host, action, rule)
      PROVE  logged \subseteq logged'
  BY <1>1 DEF WriteEvent
<1>2. CASE MakeRunDir \/ LoadPolicy \/ OpenLog \/ EnableSudoLockdown \/ StartDns
  BY <1>2 DEF MakeRunDir, LoadPolicy, OpenLog, EnableSudoLockdown, StartDns,
       Exit, ReturnError, Start, dnsVars
<1>3. CASE EnableRedirect \/ EnableDockerDns
  BY <1>1, <1>3 DEF EnableRedirect, EnableDockerDns
<1>4. CASE CallAttach \/ AllowCidr \/ SeedSocket \/ SeedEnd \/ ResolveHost
           \/ AllowResolved \/ SeedUpstream \/ Sigterm
  BY <1>4 DEF CallAttach, AllowCidr, SeedSocket, SeedEnd, ResolveHost,
       AllowResolved, SeedUpstream, Sigterm, dnsVars, mainVars
<1>5. CASE AttachReturned
  BY <1>1, <1>5 DEF AttachReturned, CloseAndReturnError
<1>6. CASE AllowCidrsEnd \/ ResolveEnd
  BY <1>1, <1>6 DEF AllowCidrsEnd, ResolveEnd
<1>7. CASE WritePidFile \/ WriteReadyFile \/ ContextDone \/ Upload
  BY <1>7 DEF WritePidFile, WriteReadyFile, WriteSentinel, CloseAndReturnError,
       ContextDone, Upload, dnsVars
<1>8. CASE CloseDockerDns \/ CloseRedirect \/ CloseDns \/ CloseDnsEnd
  BY <1>8 DEF CloseDockerDns, CloseRedirect, CloseDns, CloseDnsEnd,
       BeginShutdown, EndShutdown, dnsVars
<1>9. CASE CloseFirewall \/ CloseFirewallEnd \/ CloseSudo \/ CloseFiles
           \/ WriteFail
  BY <1>9 DEF CloseFirewall, CloseFirewallEnd, CloseSudo, CloseFiles,
       WriteFail, Exit, dnsVars
<1>10. CASE CloseLog
  BY <1>10 DEF CloseLog
<1> QED
  BY <1>2, <1>3, <1>4, <1>5, <1>6, <1>7, <1>8, <1>9, <1>10 DEF MainStep

(* The log is written before the query is forwarded, and only grows.       *)
LEMMA LogInvStep == AgentInv /\ LogInv /\ [Next]_vars => LogInv'
<1> SUFFICES ASSUME AgentInv, LogInv, [Next]_vars PROVE LogInv'
  OBVIOUS
<1>0. policy' = policy /\ hd \in [Handlers -> HandlerStates]
  BY AgentInvStep, PolicyKept DEF AgentInv, HandlerInv
<1>1. ASSUME NEW host, LoggedFor(host), logged \subseteq logged'
      PROVE  LoggedFor(host)'
  BY <1>0, <1>1 DEF LoggedFor, Decide, Allowed
<1>2. ASSUME hd' = hd, delivered' = delivered, logged \subseteq logged',
             main' \in BeforeDns => main \in BeforeDns /\ srv' = srv,
             logOpen' /\ ~ logOpen => main \in BeforeDns
      PROVE  LogInv'
  BY <1>1, <1>2 DEF LogInv
<1>3. CASE MainStep \/ Sigterm \/ SeedUpstream
  BY <1>2, <1>3, MainKeepsInv, MainKeepsLog
<1>4. CASE FirewallStep \/ UNCHANGED vars
  BY <1>2, <1>4 DEF FirewallStep, vars, dnsVars, mainVars
<1>5. ASSUME DnsStep, main \in BeforeDns PROVE FALSE
  BY <1>5 DEF DnsStep, DnsNext, Bind, handle, HandlerStep, ReplyWithoutAnswer,
       ReplyNXDomain, OnDenyEvent, OnEvent, Forward, ExchangeError,
       ExchangeAnswer, OnAllow, OnAllowEnd, Reply, LogInv
<1>6. ASSUME NEW h \in Handlers, main' \notin BeforeDns,
             \A g \in Handlers \ {h} : hd'[g] = hd[g],
             hd'[h].pc \in {"forward", "wait", "servfail", "allow", "reply"} /\ logOpen
               => LoggedFor(hd'[h].host),
             delivered' = delivered, logged \subseteq logged', logOpen' = logOpen
      PROVE  LogInv'
  BY <1>1, <1>6 DEF LogInv
<1>7. CASE DnsStep
  <2>0. main' \notin BeforeDns
    BY <1>5, <1>7 DEF DnsStep, mainVars
  <2>1. ASSUME NEW n \in Nets, Bind(n) PROVE LogInv'
    BY <1>2, <2>0, <2>1 DEF Bind
  <2>2. ASSUME NEW h \in Handlers, NEW n \in Nets, NEW host \in Queries,
               handle(h, n, host)
        PROVE  LogInv'
    <3>1. hd'[h].pc \in {"empty", "event", "nxdomain"}
      BY <1>0, <2>2 DEF handle, Idle
    <3> QED
      BY <1>0, <1>6, <2>0, <2>2, <3>1 DEF handle
  <2>3. ASSUME NEW h \in Handlers, HandlerStep(h) PROVE LogInv'
    <3>1. CASE ReplyWithoutAnswer(h) \/ OnDenyEvent(h)
      BY <1>0, <1>6, <2>0, <3>1 DEF ReplyWithoutAnswer, OnDenyEvent, Done, Idle,
           WriteEvent
    <3>2. CASE ReplyNXDomain(h)
      BY <1>0, <1>6, <2>0, <3>2 DEF ReplyNXDomain, Step, HandlerStates
    <3>3. CASE OnEvent(h)
      <4>1. hd'[h].host = hd[h].host /\ \A g \in Handlers \ {h} : hd'[g] = hd[g]
        BY <1>0, <3>3 DEF OnEvent, Step, HandlerStates
      <4>2. logOpen => LoggedFor(hd[h].host)'
        <5>1. SUFFICES ASSUME logOpen PROVE LoggedFor(hd[h].host)'
          OBVIOUS
        <5> DEFINE dec == Decide(hd[h].host)
                   e == [host |-> hd[h].host,
                         action |-> IF dec.Allow THEN "ALLOW" ELSE "MONITOR_DENY",
                         rule |-> dec.Rule]
        <5>2. e \in logged'
          BY <3>3, <5>1 DEF OnEvent, WriteEvent
        <5>3. e.host = hd[h].host /\ Decide(hd[h].host)' = dec
              /\ e.action = IF dec.Allow THEN "ALLOW" ELSE "MONITOR_DENY"
          BY <1>0, <4>1 DEF Decide, Allowed
        <5> HIDE DEF e, dec
        <5> QED
          BY <4>1, <5>2, <5>3 DEF LoggedFor
      <4> QED
        BY <1>1, <2>0, <3>3, <4>1, <4>2 DEF LogInv, OnEvent, WriteEvent
    <3>4. CASE /\ hd[h].pc \in {"forward", "wait", "allow"}
               /\ hd'[h].host = hd[h].host
               /\ \A g \in Handlers \ {h} : hd'[g] = hd[g]
               /\ UNCHANGED <<delivered, logged, logOpen>>
      BY <1>6, <2>0, <3>4 DEF LogInv
    <3>5. CASE ExchangeError(h) \/ OnAllowEnd(h)
      BY <1>0, <3>4, <3>5 DEF ExchangeError, OnAllowEnd, Step, HandlerStates
    <3>6. CASE Forward(h)
      BY <1>0, <3>4, <3>6 DEF Forward, HandlerStates
    <3>7. CASE ExchangeAnswer(h)
      BY <1>0, <3>4, <3>7 DEF ExchangeAnswer, HandlerStates
    <3>8. CASE OnAllow(h)
      BY <1>0, <3>4, <3>8 DEF OnAllow, HandlerStates
    <3>9. CASE Reply(h)
      BY <1>0, <1>1, <2>0, <3>9 DEF Reply, Done, Idle, LogInv
    <3> QED
      BY <2>3, <3>1, <3>2, <3>3, <3>5, <3>6, <3>7, <3>8, <3>9 DEF HandlerStep
  <2> QED
    BY <1>7, <2>1, <2>2, <2>3 DEF DnsStep, DnsNext
<1> QED
  BY <1>3, <1>4, <1>7 DEF Next, Terminated

(* As long as the log is open, no client has an address that the log does  *)
(* not account for, also in monitor mode.                                  *)
THEOREM DeliveriesAreLogged == Spec => []DeliveredIsLogged
<1>1. Init => LogInv
  BY DEF Init, DnsInit, LogInv, Idle
<1>2. LogInv => DeliveredIsLogged
  BY DEF LogInv, DeliveredIsLogged, LoggedFor
<1> QED
  BY <1>1, <1>2, AgentInvInit, AgentInvStep, LogInvStep, PTL DEF Spec
=============================================================================
