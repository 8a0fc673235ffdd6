----------------------------- MODULE GrantProofs -----------------------------
(***************************************************************************)
(* Proofs about what the agent's goroutines put into the allow maps, for   *)
(* any number of handlers, every policy, zone and capacity: every entry    *)
(* has a reason, and a client gets no address before the firewall has been *)
(* opened for it.                                                          *)
(***************************************************************************)
EXTENDS RuntimeProofs

(* The addresses of the listed hosts, and of the names a policy allows.    *)
Resolvable == UNION {UNION Zone[n] : n \in HostsToResolve}

(* A handler works through the addresses of one answer, which it sends     *)
(* when none is left to be allowed.                                        *)
AnswerInv ==
  \A h \in Handlers :
    /\ hd[h].todo \subseteq hd[h].answer
    /\ hd[h].pc = "reply" => hd[h].todo = {}
    /\ hd[h].pc \notin {"allow", "reply"} => hd[h].answer = {}
    /\ hd[h].answer # {} => hd[h].answer \subseteq UNION Zone[hd[h].host]

(* Main's loops run over the policy's CIDRs and the listed hosts.          *)
LoopInv ==
  /\ main = "cidrs" => work \subseteq policy.cidrs
  /\ main = "resolve" => work \subseteq HostsToResolve
  /\ batch \subseteq Resolvable

(* The addresses handlers are done with: sent, or waiting for the rest of  *)
(* their answer.                                                           *)
Cleared(a) ==
  \/ \E d \in delivered : d.addr = a
  \/ \E h \in Handlers : a \in hd[h].answer \ hd[h].todo
Opened(a) == Entry(HostKey(Unmap(a))) \in allow \/ MapFull(Unmap(a).family)

(* Before the firewall is loaded AllowIP can only have missed it; once it  *)
(* is, an address a handler is done with is in the maps or did not fit.    *)
OpenedInv ==
  /\ MapsFinite
  /\ loaded => \A a : Cleared(a) => a \in missed \/ Opened(a)
  /\ ~ loaded /\ main \in BeforeAttach \cup {"attached"} =>
       \A a : Cleared(a) => a \in missed

-----------------------------------------------------------------------------
(***************************************************************************)
(* The loops of the handlers and of main.                                  *)
(***************************************************************************)
(* One step of a handler, and nothing else, moves its answer along.        *)
LEMMA AnswerInvStep == AgentInv /\ AnswerInv /\ [Next]_vars => AnswerInv'
<1> SUFFICES ASSUME AgentInv, AnswerInv, [Next]_vars PROVE AnswerInv'
  OBVIOUS
<1>0. hd \in [Handlers -> HandlerStates]
  BY DEF AgentInv, HandlerInv
<1>1. CASE hd' = hd
  BY <1>1 DEF AnswerInv
<1>2. CASE MainStep \/ Sigterm \/ SeedUpstream \/ FirewallStep \/ UNCHANGED vars
  BY <1>1, <1>2, MainKeepsInv DEF FirewallStep, vars, dnsVars
<1>3. ASSUME NEW h \in Handlers,
             \A g \in Handlers \ {h} : hd'[g] = hd[g],
             /\ hd'[h].todo \subseteq hd'[h].answer
             /\ hd'[h].pc = "reply" => hd'[h].todo = {}
             /\ hd'[h].pc \notin {"allow", "reply"} => hd'[h].answer = {}
             /\ hd'[h].answer # {} => hd'[h].answer \subseteq UNION Zone[hd'[h].host]
      PROVE  AnswerInv'
  BY <1>3 DEF AnswerInv
<1>4. ASSUME NEW h \in Handlers, NEW n \in Nets, NEW host \in Queries,
             handle(h, n, host)
      PROVE  AnswerInv'
  <2>1. hd'[h].pc \in {"empty", "event", "nxdomain"}
        /\ hd'[h].answer = {} /\ hd'[h].todo = {}
        /\ \A g \in Handlers \ {h} : hd'[g] = hd[g]
    BY <1>0, <1>4 DEF handle, Idle
  <2> QED
    BY <1>3, <2>1
<1>5. ASSUME NEW h \in Handlers, Done(h) PROVE AnswerInv'
  BY <1>0, <1>3, <1>5 DEF Done, Idle
<1>6. ASSUME NEW h \in Handlers, NEW pc \in HdPcs \ {"reply"}, Step(h, pc), 
             hd[h].pc \notin {"allow", "reply"}
      PROVE  AnswerInv'
  BY <1>0, <1>3, <1>6 DEF Step, HandlerStates, AnswerInv
<1>7. ASSUME NEW h \in Handlers, ReplyNXDomain(h) \/ OnEvent(h) \/ ExchangeError(h)
      PROVE  AnswerInv'
  BY <1>6, <1>7 DEF ReplyNXDomain, OnEvent, ExchangeError, HdPcs
<1>8. ASSUME NEW h \in Handlers, Forward(h) PROVE AnswerInv'
  <2>1. /\ hd'[h].pc = "wait" /\ hd'[h].answer = hd[h].answer
        /\ hd'[h].todo = hd[h].todo /\ hd'[h].host = hd[h].host
        /\ hd[h].pc = "forward"
        /\ \A g \in Handlers \ {h} : hd'[g] = hd[g]
    BY <1>0, <1>8 DEF Forward, HandlerStates
  <2> QED
    BY <1>3, <2>1 DEF AnswerInv
<1>9. ASSUME NEW h \in Handlers, ExchangeAnswer(h) PROVE AnswerInv'
  <2>1. PICK rrs \in Zone[hd[h].host] :
          hd' = [hd EXCEPT ![h] =
                   [@ EXCEPT !.pc = "allow", !.answer = rrs, !.todo = rrs]]
    BY <1>9 DEF ExchangeAnswer
  <2>2. /\ hd'[h].pc = "allow" /\ hd'[h].answer = rrs
        /\ hd'[h].todo = rrs /\ hd'[h].host = hd[h].host
        /\ \A g \in Handlers \ {h} : hd'[g] = hd[g]
    BY <1>0, <2>1 DEF HandlerStates
  <2>3. rrs \subseteq UNION Zone[hd[h].host]
    BY <2>1
  <2> QED
    BY <1>3, <2>2, <2>3
<1>10. ASSUME NEW h \in Handlers, OnAllow(h) PROVE AnswerInv'
  <2>1. /\ hd[h].pc = "allow" /\ hd'[h].pc = hd[h].pc /\ hd'[h].answer = hd[h].answer
        /\ hd'[h].todo \subseteq hd[h].todo /\ hd'[h].host = hd[h].host
        /\ \A g \in Handlers \ {h} : hd'[g] = hd[g]
    BY <1>0, <1>10 DEF OnAllow, HandlerStates
  <2> QED
    BY <1>3, <2>1 DEF AnswerInv
<1>11. ASSUME NEW h \in Handlers, OnAllowEnd(h) PROVE AnswerInv'
  <2>1. /\ hd'[h].pc = "reply" /\ hd'[h].answer = hd[h].answer
        /\ hd'[h].todo = {} /\ hd'[h].host = hd[h].host
        /\ \A g \in Handlers \ {h} : hd'[g] = hd[g]
    BY <1>0, <1>11 DEF OnAllowEnd, Step, HandlerStates
  <2> QED
    BY <1>3, <2>1 DEF AnswerInv
<1>12. CASE DnsStep
  BY <1>1, <1>4, <1>5, <1>7, <1>8, <1>9, <1>10, <1>11, <1>12
     DEF DnsStep, DnsNext, Bind, HandlerStep, ReplyWithoutAnswer, OnDenyEvent, Reply
<1> QED
  BY <1>2, <1>12 DEF Next, Terminated

(* Main refills its loops from the policy and the zone only.               *)
LEMMA LoopInvStep == AgentInv /\ LoopInv /\ [Next]_vars => LoopInv'
<1> SUFFICES ASSUME AgentInv, LoopInv, [Next]_vars PROVE LoopInv'
  OBVIOUS
<1>0. policy' = policy /\ HostsToResolve' = HostsToResolve /\ Resolvable' = Resolvable
  BY AgentInvStep, PolicyKept DEF HostsToResolve, Allowed, Resolvable
<1>1. CASE UNCHANGED loopVars /\ (main' = main \/ main' \notin {"cidrs", "resolve"})
  BY <1>0, <1>1 DEF LoopInv, loopVars
<1>2. CASE DnsStep \/ FirewallStep \/ SeedUpstream \/ Sigterm \/ UNCHANGED vars
  BY <1>1, <1>2 DEF DnsStep, FirewallStep, SeedUpstream, Sigterm, vars, mainVars
<1> USE DEF To
<1>3. CASE AttachReturned \/ AllowCidr \/ AllowCidrsEnd
  BY <1>0, <1>3 DEF AttachReturned, AllowCidr, AllowCidrsEnd, CloseAndReturnError,
       LoopInv
<1>4. CASE SeedSocket \/ SeedEnd
  BY <1>0, <1>4 DEF SeedSocket, SeedEnd, LoopInv
<1>5. CASE ResolveHost
  <2>1. PICK n \in work : work' = work \ {n} /\ batch' \in Zone[n] \cup {{}}
    BY <1>5 DEF ResolveHost
  <2>2. n \in HostsToResolve /\ main' = main
    BY <1>5 DEF ResolveHost, LoopInv
  <2>3. batch' \subseteq Resolvable
    BY <2>1, <2>2 DEF Resolvable
  <2> QED
    BY <1>0, <1>5, <2>1, <2>2, <2>3 DEF ResolveHost, LoopInv
<1>6. CASE AllowResolved
  BY <1>0, <1>6 DEF AllowResolved, LoopInv
<1>7. CASE MakeRunDir \/ LoadPolicy \/ OpenLog \/ EnableSudoLockdown \/ StartDns
           \/ EnableRedirect \/ EnableDockerDns \/ CallAttach
  BY <1>1, <1>7 DEF MakeRunDir, LoadPolicy, OpenLog, EnableSudoLockdown, StartDns,
       EnableRedirect, EnableDockerDns, CallAttach, ReturnError, Exit
<1>8. CASE ResolveEnd \/ WritePidFile \/ WriteReadyFile \/ ContextDone \/ Upload
           \/ CloseDockerDns \/ CloseRedirect \/ CloseDns \/ CloseDnsEnd
  BY <1>1, <1>8 DEF ResolveEnd, WritePidFile, WriteReadyFile, WriteSentinel,
       CloseAndReturnError, ContextDone, Upload, CloseDockerDns, CloseRedirect,
       CloseDns, CloseDnsEnd
<1>9. CASE CloseFirewall \/ CloseFirewallEnd \/ CloseSudo \/ CloseLog
           \/ CloseFiles \/ WriteFail
  BY <1>1, <1>9 DEF CloseFirewall, CloseFirewallEnd, CloseSudo, CloseLog,
       CloseFiles, WriteFail, Exit
<1> QED
  BY <1>2, <1>3, <1>4, <1>5, <1>6, <1>7, <1>8, <1>9 DEF Next, MainStep, Terminated

-----------------------------------------------------------------------------
(***************************************************************************)
(* Every entry has a reason.                                               *)
(***************************************************************************)
(* What GrantsHaveReasons allows: the entries of the policy's CIDRs, of    *)
(* sockets, of listed hosts and of names the policy allows.                *)
AllowedNames == {n \in Names : Decide(n).Allow}
Reasons ==
  {Entry(PrefixKey(c)) : c \in policy.cidrs}
    \cup {Entry(HostKey(ProcAddress(a))) : a \in Sockets \cup {Upstream}}
    \cup (UNION {ResolvedFor(n) : n \in HostsToResolve})
    \cup (UNION {ResolvedFor(n) : n \in AllowedNames})

(* Whichever goroutine makes a step, the maps lose everything, stay as     *)
(* they are, or get one entry that has a reason.                           *)
LEMMA GrantStep ==
  ASSUME AgentInv, AnswerInv, LoopInv, DenyInv, [Next]_vars
  PROVE  \/ allow' \in {allow, {}}
         \/ Monitoring
         \/ \E e \in Reasons : allow' = allow \cup {e}
<1>1. CASE UNCHANGED fwVars
  BY <1>1 DEF fwVars
<1>2. CASE FirewallStep
  BY <1>2, FwStepAddsNothing DEF FirewallStep
<1>3. CASE CallAttach \/ CloseFirewall
  BY <1>3, FwStepAddsNothing DEF CallAttach, CloseFirewall
<1>4. CASE AllowCidr
  <2>1. PICK c \in work : AllowPrefix(c)
    BY <1>4 DEF AllowCidr
  <2>2. c \in policy.cidrs
    BY <1>4 DEF AllowCidr, LoopInv
  <2>3. Entry(PrefixKey(c)) \in Reasons
    BY <2>2 DEF Reasons
  <2> QED
    BY <2>1, <2>3, PutAdds DEF AllowPrefix
<1>5. ASSUME NEW a \in Sockets \cup {Upstream}, AllowIP(ProcAddress(a))
      PROVE  allow' = allow \/ \E e \in Reasons : allow' = allow \cup {e}
  <2>1. Entry(HostKey(ProcAddress(a))) \in Reasons
    BY DEF Reasons
  <2> QED
    BY <1>5, <2>1, PutAdds DEF AllowIP
<1>6. CASE SeedSocket \/ SeedUpstream
  BY <1>5, <1>6 DEF SeedSocket, SeedUpstream, AgentInv, MainInv
<1>7. ASSUME NEW n \in HostsToResolve \cup AllowedNames,
             NEW a \in UNION Zone[n], AllowIP(Unmap(a))
      PROVE  allow' = allow \/ \E e \in Reasons : allow' = allow \cup {e}
  <2>1. Entry(HostKey(Unmap(a))) \in ResolvedFor(n)
    BY DEF ResolvedFor
  <2>2. \/ Entry(HostKey(Unmap(a))) \in UNION {ResolvedFor(m) : m \in HostsToResolve}
        \/ Entry(HostKey(Unmap(a))) \in UNION {ResolvedFor(m) : m \in AllowedNames}
    BY <2>1
  <2>3. Entry(HostKey(Unmap(a))) \in Reasons
    BY <2>2 DEF Reasons
  <2> QED
    BY <1>7, <2>3, PutAdds DEF AllowIP
<1>8. CASE AllowResolved
  <2>1. PICK a \in batch : AllowIP(Unmap(a))
    BY <1>8 DEF AllowResolved
  <2>2. PICK n \in HostsToResolve : a \in UNION Zone[n]
    BY <2>1 DEF LoopInv, Resolvable
  <2> QED
    BY <1>7, <2>1, <2>2
<1>9. ASSUME NEW h \in Handlers, OnAllow(h)
      PROVE  \/ allow' = allow
             \/ Monitoring
             \/ \E e \in Reasons : allow' = allow \cup {e}
  <2>1. PICK a \in hd[h].todo : AllowIP(Unmap(a))
    BY <1>9 DEF OnAllow
  <2>2. hd[h].pc = "allow"
    BY <1>9 DEF OnAllow
  <2>3. a \in UNION Zone[hd[h].host] /\ hd[h].host \in Names
    BY <2>1, <2>2 DEF AnswerInv, AgentInv, HandlerInv
  <2>4. Monitoring \/ Decide(hd[h].host).Allow
    BY <2>2 DEF DenyInv
  <2> QED
    BY <1>7, <2>1, <2>3, <2>4 DEF AllowedNames
<1>10. CASE DnsStep
  BY <1>1, <1>9, <1>10 DEF DnsStep, DnsNext, handle, HandlerStep,
     ReplyWithoutAnswer, ReplyNXDomain, OnDenyEvent, OnEvent, Forward,
     ExchangeError, ExchangeAnswer, OnAllowEnd, Reply
<1>11. CASE MakeRunDir \/ LoadPolicy \/ OpenLog \/ EnableSudoLockdown \/ StartDns
            \/ EnableRedirect \/ EnableDockerDns \/ AttachReturned
            \/ AllowCidrsEnd \/ SeedEnd \/ ResolveHost \/ ResolveEnd
  BY <1>1, <1>11 DEF MakeRunDir, LoadPolicy, OpenLog, EnableSudoLockdown, StartDns,
       EnableRedirect, EnableDockerDns, AttachReturned, AllowCidrsEnd, SeedEnd,
       ResolveHost, ResolveEnd
<1>12. CASE WritePidFile \/ WriteReadyFile \/ ContextDone \/ Upload
            \/ CloseDockerDns \/ CloseRedirect \/ CloseDns \/ CloseDnsEnd
            \/ CloseFirewallEnd \/ CloseSudo \/ CloseLog \/ CloseFiles
            \/ WriteFail \/ Sigterm
  BY <1>1, <1>12 DEF WritePidFile, WriteReadyFile, ContextDone, Upload,
       CloseDockerDns, CloseRedirect, CloseDns, CloseDnsEnd, CloseFirewallEnd,
       CloseSudo, CloseLog, CloseFiles, WriteFail, Sigterm
<1>13. CASE UNCHANGED vars
  BY <1>1, <1>13 DEF vars
<1> QED
  BY <1>2, <1>3, <1>4, <1>6, <1>8, <1>10, <1>11, <1>12, <1>13
     DEF Next, MainStep, Terminated

(* The loops are empty and the maps not there when the agent starts.       *)
LEMMA LoopsInit == Init => AnswerInv /\ LoopInv /\ DenyInv /\ GrantsHaveReasons
<1> SUFFICES ASSUME Init PROVE AnswerInv /\ LoopInv /\ DenyInv /\ GrantsHaveReasons
  OBVIOUS
<1>1. AnswerInv
  BY DEF Init, DnsInit, AnswerInv, Idle
<1>2. LoopInv /\ GrantsHaveReasons
  BY DEF Init, FwInit, LoopInv, GrantsHaveReasons
<1>3. DenyInv
  BY DEF Init, DnsInit, DenyInv, Idle
<1> QED
  BY <1>1, <1>2, <1>3

(* No interleaving of the handlers, the seeding and the attach opens the   *)
(* firewall for an address without a reason, outside monitor mode.         *)
THEOREM EveryGrantHasAReason == Spec => []GrantsHaveReasons
<1>1. GrantsHaveReasons <=> (~ Monitoring => allow \subseteq Reasons)
  BY DEF GrantsHaveReasons, Reasons, AllowedNames
<1>2. /\ AgentInv /\ AnswerInv /\ LoopInv /\ DenyInv
      /\ GrantsHaveReasons /\ [Next]_vars
      => GrantsHaveReasons'
  <2> SUFFICES ASSUME AgentInv, AnswerInv, LoopInv, DenyInv,
                      GrantsHaveReasons, [Next]_vars
               PROVE  GrantsHaveReasons'
    OBVIOUS
  <2>1. policy' = policy
    BY AgentInvStep, PolicyKept
  <2>2. Reasons' = Reasons /\ (Monitoring => Monitoring')
    BY <2>1 DEF Reasons, AllowedNames, Monitoring, HostsToResolve, ResolvedFor, Decide, Allowed
  <2>3. GrantsHaveReasons' <=> (~ Monitoring' => allow' \subseteq Reasons')
    BY DEF GrantsHaveReasons, Reasons, AllowedNames
  <2> QED
    BY <1>1, <2>2, <2>3, GrantStep
<1> QED
  BY <1>2, LoopsInit, AnswerInvStep, LoopInvStep, DenyInvStep, AgentInvInit,
     AgentInvStep, PTL DEF Spec

-----------------------------------------------------------------------------
(***************************************************************************)
(* The firewall is opened before the answer is sent.                       *)
(***************************************************************************)
(* Nor is an address that was opened closed again.                         *)
LEMMA OpenedStays ==
  ASSUME MapsFinite', allow \subseteq allow', NEW a, Opened(a)
  PROVE  Opened(a)'
  BY FullStaysFull DEF Opened

(* After AllowIP an address is in the maps, or the map is full.            *)
LEMMA AllowOpens ==
  ASSUME NEW a, loaded, AllowIP(Unmap(a))
  PROVE  Opened(a)'
<1> DEFINE e == Entry(HostKey(Unmap(a)))
<1>1. e.family = Unmap(a).family
  BY DEF Entry, HostKey
<1>2. allow' = IF e \in allow \/ ~ MapFull(e.family) THEN allow \cup {e} ELSE allow
  BY DEF AllowIP, AllowKey, Put
<1>3. e \in allow' \/ (MapFull(e.family) /\ allow' = allow)
  <2> HIDE DEF e
  <2> QED
    BY <1>2
<1>4. allow' = allow /\ MapFull(e.family) => MapFull(e.family)'
  BY DEF MapFull
<1> QED
  BY <1>1, <1>3, <1>4 DEF Opened

(* Main attaches once: it does not come back to before the attach.         *)
LEMMA AttachesOnce ==
  ASSUME MainStep, main' \in BeforeAttach \cup {"attached"}
  PROVE  main \in BeforeAttach \cup {"attached"}
<1> USE DEF To, BeforeAttach
<1>1. CASE MakeRunDir \/ LoadPolicy \/ OpenLog \/ EnableSudoLockdown \/ StartDns
           \/ EnableRedirect \/ EnableDockerDns \/ CallAttach \/ AttachReturned
  BY <1>1 DEF MakeRunDir, LoadPolicy, OpenLog, EnableSudoLockdown, StartDns,
       EnableRedirect, EnableDockerDns, CallAttach, AttachReturned
<1>2. CASE AllowCidr \/ AllowCidrsEnd \/ SeedSocket \/ SeedEnd \/ ResolveHost
           \/ AllowResolved \/ ResolveEnd \/ WritePidFile \/ WriteReadyFile
  BY <1>2 DEF AllowCidr, AllowCidrsEnd, SeedSocket, SeedEnd, ResolveHost,
       AllowResolved, ResolveEnd, WritePidFile, WriteReadyFile, WriteSentinel,
       CloseAndReturnError
<1>3. CASE ContextDone \/ Upload \/ CloseDockerDns \/ CloseRedirect \/ CloseDns
           \/ CloseDnsEnd \/ CloseFirewall \/ CloseFirewallEnd \/ CloseSudo
           \/ CloseLog \/ CloseFiles \/ WriteFail
  BY <1>3 DEF ContextDone, Upload, CloseDockerDns, CloseRedirect, CloseDns,
       CloseDnsEnd, CloseFirewall, CloseFirewallEnd, CloseSudo, CloseLog,
       CloseFiles, WriteFail, Exit
<1> QED
  BY <1>1, <1>2, <1>3 DEF MainStep

(* The package is loaded by main's one attach and unloaded by its detach.  *)
LEMMA LoadedOnce ==
  ASSUME AgentInv, RuntimeInv, PhaseInv, [Next]_vars
  PROVE  /\ loaded' # loaded => UNCHANGED <<hd, delivered, missed>> /\ main' = main
         /\ loaded' /\ ~ loaded => main \in BeforeAttach \cup {"attached"}
         /\ ~ loaded' /\ loaded => main' \notin BeforeAttach \cup {"attached"}
<1>1. CASE FirewallStep
  <2>1. FwStep /\ UNCHANGED <<hd, delivered, missed, main>>
    BY <1>1 DEF FirewallStep, dnsVars, mainVars
  <2>2. main \in MainPcs /\ (main \in BeforeAttach => fwPc = "idle")
    BY DEF RuntimeInv, CtlInv, AgentInv, MainInv, MuFree
  <2>3. main \in {"attached", "closingFirewall"}
    BY <2>1, <2>2, FwStepOutcome DEF PhaseInv, FirewallUp, FirewallOff, MuFree,
       MainPcs, StartPcs, ClosePcs, Serving, SudoDone, BeforeAttach
  <2>4. main = "closingFirewall" => fwPc = "cleanup"
    BY <2>1, FwStepOutcome DEF PhaseInv, MuFree
  <2>5. main = "attached" => ~ loaded
    <3>1. fwPc \in AttachPcs => ~ loaded
      BY DEF AgentInv, FwInv, AttachInv
    <3> QED
      BY <2>1, <3>1, FwStepOutcome DEF PhaseInv, FirewallUp, FirewallOff, MuFree
  <2>6. fwPc = "cleanup" => loaded' = loaded \/ loaded' = FALSE
    BY <2>1, FwStepOutcome
  <2>7. loaded \in BOOLEAN
    BY DEF AgentInv, FwInv, FwTypeOK
  <2> QED
    BY <2>1, <2>3, <2>4, <2>5, <2>6, <2>7 DEF BeforeAttach
<1>2. CASE ~ FirewallStep
  <2>1. CASE UNCHANGED fwVars
    BY <2>1 DEF fwVars
  <2>2. CASE \/ CallAttach \/ CloseFirewall \/ AllowCidr \/ SeedSocket
             \/ AllowResolved \/ SeedUpstream
    BY <2>2 DEF CallAttach, AttachFirewall, CloseFirewall, DetachFirewall,
       AllowCidr, AllowPrefix, SeedSocket, AllowResolved, SeedUpstream, AllowIP,
       AllowKey
  <2>3. ASSUME NEW h \in Handlers, OnAllow(h) PROVE loaded' = loaded
    BY <2>3 DEF OnAllow, AllowIP, AllowKey
  <2>4. CASE DnsStep
    BY <2>1, <2>3, <2>4 DEF DnsStep, DnsNext, handle, HandlerStep,
       ReplyWithoutAnswer, ReplyNXDomain, OnDenyEvent, OnEvent, Forward,
       ExchangeError, ExchangeAnswer, OnAllowEnd, Reply
  <2>5. CASE MakeRunDir \/ LoadPolicy \/ OpenLog \/ EnableSudoLockdown \/ StartDns
             \/ EnableRedirect \/ EnableDockerDns \/ AttachReturned
             \/ AllowCidrsEnd \/ SeedEnd \/ ResolveHost \/ ResolveEnd
    BY <2>1, <2>5 DEF MakeRunDir, LoadPolicy, OpenLog, EnableSudoLockdown, StartDns,
       EnableRedirect, EnableDockerDns, AttachReturned, AllowCidrsEnd, SeedEnd,
       ResolveHost, ResolveEnd
  <2>6. CASE WritePidFile \/ WriteReadyFile \/ ContextDone \/ Upload
             \/ CloseDockerDns \/ CloseRedirect \/ CloseDns \/ CloseDnsEnd
             \/ CloseFirewallEnd \/ CloseSudo \/ CloseLog \/ CloseFiles
             \/ WriteFail \/ Sigterm
    BY <2>1, <2>6 DEF WritePidFile, WriteReadyFile, ContextDone, Upload,
       CloseDockerDns, CloseRedirect, CloseDns, CloseDnsEnd, CloseFirewallEnd,
       CloseSudo, CloseLog, CloseFiles, WriteFail, Sigterm
  <2>7. CASE UNCHANGED vars
    BY <2>1, <2>7 DEF vars
  <2> QED
    BY <1>2, <2>2, <2>4, <2>5, <2>6, <2>7 DEF Next, MainStep, Terminated
<1> QED
  BY <1>1, <1>2

(* A handler is done with an address after AllowIP for it, and only then.  *)
LEMMA ClearedStep ==
  ASSUME AgentInv, AnswerInv, DnsStep, NEW a, Cleared(a)'
  PROVE  /\ missed \subseteq missed'
         /\ \/ Cleared(a)
            \/ loaded /\ AllowIP(Unmap(a))
            \/ ~ loaded /\ a \in missed'
<1>0. hd \in [Handlers -> HandlerStates]
  BY DEF AgentInv, HandlerInv
<1>1. ASSUME NEW h \in Handlers, delivered' = delivered,
             \A g \in Handlers \ {h} : hd'[g] = hd[g],
             hd'[h].answer \ hd'[h].todo \subseteq hd[h].answer \ hd[h].todo
      PROVE  Cleared(a)
  BY <1>1 DEF Cleared
<1>2. ASSUME NEW h \in Handlers, NEW n \in Nets, NEW host \in Queries, handle(h, n, host)
      PROVE  Cleared(a) /\ missed' = missed
  <2>1. hd'[h].answer = {} /\ \A g \in Handlers \ {h} : hd'[g] = hd[g]
    BY <1>0, <1>2 DEF handle, Idle
  <2> QED
    BY <1>1, <1>2, <2>1 DEF handle
<1>3. ASSUME NEW h \in Handlers, ReplyWithoutAnswer(h) \/ OnDenyEvent(h)
      PROVE  Cleared(a) /\ missed' = missed
  BY <1>0, <1>1, <1>3 DEF ReplyWithoutAnswer, OnDenyEvent, Done, Idle
<1>4. ASSUME NEW h \in Handlers,
             ReplyNXDomain(h) \/ OnEvent(h) \/ ExchangeError(h) \/ OnAllowEnd(h)
      PROVE  Cleared(a) /\ missed' = missed
  BY <1>0, <1>1, <1>4 DEF ReplyNXDomain, OnEvent, ExchangeError, OnAllowEnd, Step,
     HandlerStates
<1>5. ASSUME NEW h \in Handlers, Forward(h)
      PROVE  Cleared(a) /\ missed' = missed
  <2>1. /\ hd'[h].answer = hd[h].answer /\ hd'[h].todo = hd[h].todo
        /\ \A g \in Handlers \ {h} : hd'[g] = hd[g]
    BY <1>0, <1>5 DEF Forward, HandlerStates
  <2> QED
    BY <1>1, <1>5, <2>1 DEF Forward
<1>6. ASSUME NEW h \in Handlers, ExchangeAnswer(h)
      PROVE  Cleared(a) /\ missed' = missed
  <2>1. hd'[h].todo = hd'[h].answer /\ \A g \in Handlers \ {h} : hd'[g] = hd[g]
    BY <1>0, <1>6 DEF ExchangeAnswer, HandlerStates
  <2> QED
    BY <1>1, <1>6, <2>1 DEF ExchangeAnswer
<1>7. ASSUME NEW h \in Handlers, Reply(h)
      PROVE  Cleared(a) /\ missed' = missed
  <2>1. hd[h].todo = {}
    BY <1>7 DEF Reply, AnswerInv
  <2>2. hd'[h].answer = {} /\ \A g \in Handlers \ {h} : hd'[g] = hd[g]
    BY <1>0, <1>7 DEF Reply, Done, Idle
  <2>3. \A d \in delivered' : d \in delivered \/ d.addr \in hd[h].answer
    BY <1>7 DEF Reply
  <2> QED
    BY <1>7, <2>1, <2>2, <2>3 DEF Reply, Cleared
<1>8. ASSUME NEW h \in Handlers, OnAllow(h)
      PROVE  /\ missed \subseteq missed'
             /\ \/ Cleared(a)
                \/ loaded /\ AllowIP(Unmap(a))
                \/ ~ loaded /\ a \in missed'
  <2>1. PICK b \in hd[h].todo :
          /\ AllowIP(Unmap(b))
          /\ missed' = IF loaded THEN missed ELSE missed \cup {b}
          /\ hd' = [hd EXCEPT ![h].todo = @ \ {b}]
    BY <1>8 DEF OnAllow
  <2>2. /\ hd'[h].answer = hd[h].answer /\ hd'[h].todo = hd[h].todo \ {b}
        /\ \A g \in Handlers \ {h} : hd'[g] = hd[g]
    BY <1>0, <2>1 DEF HandlerStates
  <2>3. Cleared(a) \/ a = b
    BY <1>8, <2>2 DEF OnAllow, Cleared
  <2> QED
    BY <2>1, <2>3
<1>9. ASSUME NEW n \in Nets, Bind(n) PROVE Cleared(a) /\ missed' = missed
  BY <1>9 DEF Bind, Cleared
<1> QED
  BY <1>2, <1>3, <1>4, <1>5, <1>6, <1>7, <1>8, <1>9 DEF DnsStep, DnsNext, HandlerStep

(* Main does not touch what handlers missed, and starts or stops servers.  *)
LEMMA MainKeepsMissed ==
  ASSUME MainStep \/ Sigterm \/ SeedUpstream
  PROVE  missed' = missed /\ (srv \in [Nets -> SrvStates] => srv' \in [Nets -> SrvStates])
<1> USE DEF dnsVars
<1>1. CASE MakeRunDir \/ LoadPolicy \/ OpenLog \/ EnableSudoLockdown
           \/ EnableRedirect \/ EnableDockerDns \/ CallAttach \/ AttachReturned
  BY <1>1 DEF MakeRunDir, LoadPolicy, OpenLog, EnableSudoLockdown,
       EnableRedirect, EnableDockerDns, CallAttach, AttachReturned
<1>2. CASE AllowCidr \/ AllowCidrsEnd \/ SeedSocket \/ SeedEnd \/ ResolveHost
           \/ AllowResolved \/ ResolveEnd \/ WritePidFile \/ WriteReadyFile
           \/ Sigterm \/ SeedUpstream
  BY <1>2 DEF AllowCidr, AllowCidrsEnd, SeedSocket, SeedEnd, ResolveHost,
       AllowResolved, ResolveEnd, WritePidFile, WriteReadyFile, Sigterm, SeedUpstream
<1>3. CASE ContextDone \/ Upload \/ CloseDockerDns \/ CloseRedirect
           \/ CloseFirewall \/ CloseFirewallEnd \/ CloseSudo
           \/ CloseLog \/ CloseFiles \/ WriteFail
  BY <1>3 DEF ContextDone, Upload, CloseDockerDns, CloseRedirect, CloseFirewall,
       CloseFirewallEnd, CloseSudo, CloseLog, CloseFiles, WriteFail
<1>4. CASE StartDns \/ CloseDns \/ CloseDnsEnd
  BY <1>4 DEF StartDns, Start, CloseDns, BeginShutdown, CloseDnsEnd, EndShutdown,
       SrvStates
<1> QED
  BY <1>1, <1>2, <1>3, <1>4 DEF MainStep

(* The order of AllowIP and reply is kept by every step, also across the   *)
(* attach and the detach.                                                  *)
LEMMA OpenedInvStep ==
  /\ AgentInv /\ RuntimeInv /\ PhaseInv /\ AnswerInv /\ OpenedInv /\ [Next]_vars
  => OpenedInv'
<1> SUFFICES ASSUME AgentInv, RuntimeInv, PhaseInv, AnswerInv, OpenedInv, [Next]_vars
             PROVE  OpenedInv'
  OBVIOUS
<1> DEFINE Early == BeforeAttach \cup {"attached"}
<1>1. MapsFinite' /\ (loaded => allow \subseteq allow')
  BY AgentInvStep, MapsGrow DEF AgentInv, OpenedInv
<1>2. loaded => \A a : Opened(a) => Opened(a)'
  BY <1>1, OpenedStays
<1>3. /\ loaded' # loaded => UNCHANGED <<hd, delivered, missed>> /\ main' = main
      /\ loaded' /\ ~ loaded => main \in Early
      /\ ~ loaded' /\ loaded => main' \notin Early
  BY LoadedOnce
<1>4. loaded \in BOOLEAN /\ loaded' \in BOOLEAN
  BY AgentInvStep DEF AgentInv, FwInv, FwTypeOK
<1>5. main' \in Early => main \in Early
  BY AttachesOnce DEF Next, Sigterm, SeedUpstream, FirewallStep, DnsStep, Terminated,
     mainVars, vars
<1> HIDE DEF Early
<1>6. OpenedInv = /\ MapsFinite
                  /\ loaded => \A a : Cleared(a) => a \in missed \/ Opened(a)
                  /\ ~ loaded /\ main \in Early => \A a : Cleared(a) => a \in missed
  BY DEF OpenedInv, Early
<1>7. OpenedInv' = /\ MapsFinite'
                   /\ loaded' => \A a : Cleared(a)' => a \in missed' \/ Opened(a)'
                   /\ ~ loaded' /\ main' \in Early => \A a : Cleared(a)' => a \in missed'
  BY DEF OpenedInv, Early
<1>8. CASE UNCHANGED <<hd, delivered, missed>>
  <2>1. \A a : Cleared(a)' <=> Cleared(a)
    BY <1>8 DEF Cleared
  <2> QED
    BY <1>1, <1>2, <1>3, <1>4, <1>5, <1>6, <1>7, <1>8, <2>1
<1>9. CASE DnsStep
  <2>1. CASE loaded' # loaded
    BY <1>3, <1>8, <2>1
  <2>2. CASE loaded' = loaded
    <3>1. ASSUME NEW a, Cleared(a)', loaded PROVE a \in missed' \/ Opened(a)'
      BY <1>2, <1>6, <1>9, <3>1, ClearedStep, AllowOpens
    <3>2. ASSUME NEW a, Cleared(a)', ~ loaded, main \in Early PROVE a \in missed'
      BY <1>6, <1>9, <3>2, ClearedStep
    <3> QED
      BY <1>1, <1>5, <1>7, <2>2, <3>1, <3>2
  <2> QED
    BY <2>1, <2>2
<1>10. CASE MainStep \/ Sigterm \/ SeedUpstream \/ FirewallStep \/ UNCHANGED vars
  <2>1. hd' = hd /\ delivered' = delivered
    BY <1>10, MainKeepsInv DEF FirewallStep, vars, dnsVars
  <2>2. missed' = missed
    BY <1>10, MainKeepsMissed DEF FirewallStep, vars, dnsVars
  <2> QED
    BY <1>8, <2>1, <2>2
<1> QED
  BY <1>9, <1>10 DEF Next, Terminated

(* No client ever holds an address that the loaded firewall, for want of   *)
(* an entry, would drop, unless the map is full or the firewall was loaded *)
(* after the handler had passed it.                                        *)
THEOREM AnswersAreOpenedFirst == Spec => []AnswersAreOpened
<1>1. Init => OpenedInv
  BY FS_EmptySet DEF Init, FwInit, DnsInit, OpenedInv, MapsFinite, Cleared, Idle
<1>2. OpenedInv => AnswersAreOpened
  BY DEF OpenedInv, AnswersAreOpened, Cleared, Opened
<1> QED
  BY <1>1, <1>2, OpenedInvStep, AnswerInvStep, LoopsInit, RuntimeInvariance,
     AgentInvInit, AgentInvStep, PTL DEF Spec

-----------------------------------------------------------------------------
(***************************************************************************)
(* The proxy's state.                                                      *)
(***************************************************************************)
ProxyInv ==
  /\ srv \in [Nets -> SrvStates]
  /\ missed \subseteq ZoneAddresses

(* The servers go through their states, and what a handler missed is an    *)
(* address of its answer.                                                  *)
LEMMA ProxyInvStep == AgentInv /\ AnswerInv /\ ProxyInv /\ [Next]_vars => ProxyInv'
<1> SUFFICES ASSUME AgentInv, AnswerInv, ProxyInv, [Next]_vars PROVE ProxyInv'
  OBVIOUS
<1>1. CASE UNCHANGED <<srv, missed>>
  BY <1>1 DEF ProxyInv
<1>2. CASE MainStep \/ Sigterm \/ SeedUpstream
  BY <1>2, MainKeepsMissed DEF ProxyInv
<1>3. CASE FirewallStep \/ UNCHANGED vars
  BY <1>1, <1>3 DEF FirewallStep, vars, dnsVars
<1>4. ASSUME NEW n \in Nets, Bind(n) PROVE ProxyInv'
  BY <1>4 DEF Bind, ProxyInv, SrvStates
<1>5. ASSUME NEW h \in Handlers, OnAllow(h) PROVE ProxyInv'
  <2>1. hd[h].todo \subseteq ZoneAddresses
    BY DEF AgentInv, HandlerInv, HandlerStates
  <2> QED
    BY <1>5, <2>1 DEF OnAllow, ProxyInv
<1>6. CASE DnsStep
  BY <1>1, <1>4, <1>5, <1>6 DEF DnsStep, DnsNext, handle, HandlerStep,
     ReplyWithoutAnswer, ReplyNXDomain, OnDenyEvent, OnEvent, Forward,
     ExchangeError, ExchangeAnswer, OnAllowEnd, Reply
<1> QED
  BY <1>2, <1>3, <1>6 DEF Next, Terminated

(* The proxy's state has its types, also while main starts and stops its   *)
(* servers under running handlers.                                         *)
THEOREM ProxyTypeCorrect == Spec => []DnsTypeOK
<1>1. Init => ProxyInv
  BY DEF Init, DnsInit, ProxyInv, SrvStates
<1>2. ZoneAddresses = UNION UNION {Zone[n] : n \in Names}
  BY DEF ZoneAddresses
<1>3. AgentInv /\ RuntimeInv /\ AnswerInv /\ ProxyInv => DnsTypeOK
  <2> SUFFICES ASSUME AgentInv, RuntimeInv, AnswerInv, ProxyInv PROVE DnsTypeOK
    OBVIOUS
  <2>1. nat \subseteq Nets /\ logOpen \in BOOLEAN
    BY DEF RuntimeInv, HostInv, LogOpenInv
  <2>2. \A h \in Handlers : hd[h] \in HandlerStates /\ hd[h].todo \subseteq hd[h].answer
    BY DEF AgentInv, HandlerInv, AnswerInv
  <2> QED
    BY <1>2, <2>1, <2>2 DEF ProxyInv, HandlerStates, DnsTypeOK
<1> QED
  BY <1>1, <1>3, ProxyInvStep, AnswerInvStep, LoopsInit, RuntimeInvariance,
     AgentInvInit, AgentInvStep, PTL DEF Spec
=============================================================================
