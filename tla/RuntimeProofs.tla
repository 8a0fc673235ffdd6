---------------------------- MODULE RuntimeProofs ----------------------------
(***************************************************************************)
(* Proofs about the agent process as a whole, for any number of query      *)
(* handlers: what its files, its exit code and the host's state say, at    *)
(* every point where Start or Close can fail, while the handlers and the   *)
(* firewall package run beside the main goroutine.                         *)
(***************************************************************************)
EXTENDS AgentProofs

(* Where the main goroutine is: serving or about to, with Close over for   *)
(* Docker, for the DNAT rules, or for the drop-in, or without a log.       *)
Serving == {"pid", "ready", "running", "upload"}
DockerDone == (ClosePcs \ {"closeDocker"}) \cup {"fail", "exited"}
RedirectDone == DockerDone \ {"closeRedirect"}
SudoDone == {"closeLog", "closeFiles", "fail", "exited"}
NoLog == {"mkdir", "loadPolicy", "openLog", "closeFiles", "fail", "exited"}

(* Close runs for one reason, and exit code 0 is for a clean one only.     *)
CtlInv ==
  /\ main \in MainPcs
  /\ main \in StartPcs \cup {"running", "upload"} => cause = "none"
  /\ main \in ClosePcs => cause \in {"term", "attached", "pid", "ready"}
  /\ main = "fail" => cause \in StartPcs \ {"mkdir"}
  /\ main = "exited" => cause \in StartPcs \cup {"term"}
  /\ main # "exited" => code = 2
  /\ main = "exited" => code \in {0, 1} /\ (code = 0 => cause = "term" /\ ~ closeErr)
  /\ closeErr \in BOOLEAN /\ term \in BOOLEAN

(* The failure file is the last thing a failed Start writes, and the ready *)
(* file is gone by then.                                                   *)
FilesInv ==
  /\ files \subseteq FileNames
  /\ main \notin {"mkdir", "loadPolicy", "exited"} => "failure" \notin files
  /\ main \in (StartPcs \ {"mkdir", "loadPolicy"}) \cup {"fail", "exited"} =>
       "ready" \notin files
  /\ main = "exited" /\ cause # "mkdir" => ("failure" \in files <=> cause # "term")

(* What was not taken needs no release; a release that failed is on        *)
(* record.                                                                 *)
HostInv ==
  /\ backend \in BOOLEAN /\ sudoers \in BOOLEAN
  /\ docker \in {"orig", "ours", "damaged"}
  /\ nat \subseteq Nets /\ leaked \subseteq Nets \cup {"docker", "sudoers"}
  /\ ~ backend => nat = {}
  /\ main \in BeforeDns \cup {"redirect"} => nat = {} /\ docker = "orig"
  /\ main = "docker" => docker = "orig"
  /\ main \in BeforeDns \ {"dns"} => ~ sudoers
  /\ main \in DockerDone /\ docker = "ours" => closeErr /\ "docker" \in leaked
  /\ main \in RedirectDone => nat \subseteq leaked /\ (nat # {} => closeErr)
  /\ main \in SudoDone /\ sudoers => "sudoers" \in leaked \/ cause = "sudo"

LogOpenInv == logOpen = (main \notin NoLog)

RuntimeInv == CtlInv /\ FilesInv /\ HostInv /\ LogOpenInv

(* What the firewall package is doing while main is at each step: it is    *)
(* loaded when main goes on to fill the maps, and an agent that serves     *)
(* without it may, and has said so in the log.                             *)
SkipLogged == Skipped("bpf_attach_skipped")
FirewallUp == MuFree /\ loaded /\ attachRet = "ok"
FirewallOff == MuFree /\ ~ loaded /\ attachRet # "ok"
PhaseInv ==
  /\ main = "attached" =>
       \/ fwPc \in AttachPcs
       \/ fwPc = "cleanup" /\ attachRet = "err" /\ ~ loaded
       \/ FirewallUp
       \/ FirewallOff
  /\ main \in {"cidrs", "seed", "resolve"} => FirewallUp
  /\ main \in Serving => FirewallUp \/ (FirewallOff /\ ~ RequireBPF /\ SkipLogged)
  /\ main \in {"closeDocker", "closeRedirect", "closeDns", "closingDns", "closeFirewall"} =>
       MuFree
  /\ main = "closingFirewall" => fwPc = "cleanup" \/ (MuFree /\ ~ loaded)
  /\ main \in {"closeSudo"} \cup SudoDone => MuFree /\ ~ loaded
  /\ main \in {"running", "upload"} => ready = IF loaded THEN "bpf=1" ELSE "bpf=0"
  /\ ready \in {"none", "bpf=0", "bpf=1"}

(* There is something to upload, and Close is told when it was not.        *)
UploadInv ==
  /\ uploaded \subseteq logged
  /\ main \in Serving => logged # {}
  /\ cause = "term" /\ ~ closeErr => policy.local \/ uploaded # {}

(* A damaged daemon.json is on record: in the log, or for Close to return. *)
DockerInv ==
  docker = "damaged" =>
    Skipped("docker_dns_skipped") \/ (closeErr /\ "docker" \in leaked)

-----------------------------------------------------------------------------
(***************************************************************************)
(* The main goroutine's own state.                                         *)
(***************************************************************************)
(* Every step of main keeps its record of what was taken and given back.   *)
LEMMA MainKeepsRuntime ==
  ASSUME RuntimeInv, MainStep \/ Sigterm \/ SeedUpstream
  PROVE  RuntimeInv'
<1> USE DEF RuntimeInv, CtlInv, FilesInv, HostInv, LogOpenInv, MainPcs,
      StartPcs, ClosePcs, BeforeDns, DockerDone, RedirectDone, SudoDone,
      NoLog, Nets, FileNames, ctlVars, loopVars, fileVars, hostVars, To
<1>0. ASSUME UNCHANGED <<main, ctlVars, fileVars, hostVars, nat, logOpen>>,
             term' \in BOOLEAN
      PROVE  RuntimeInv'
  BY <1>0
<1>1. CASE MakeRunDir
  <2>1. UNCHANGED <<term, files, backend, docker, sudoers, leaked, nat, logOpen, closeErr>>
    BY <1>1 DEF MakeRunDir, dnsVars
  <2>2. \/ main' = "loadPolicy" /\ UNCHANGED <<cause, code>>
        \/ main' = "exited" /\ cause' = "mkdir" /\ code' = 1 /\ "ready" \notin files
    BY <1>1 DEF MakeRunDir, Exit
  <2>3. main = "mkdir"
    BY <1>1 DEF MakeRunDir
  <2>4. CASE main' = "loadPolicy"
    BY <2>1, <2>2, <2>3, <2>4
  <2>5. CASE main' = "exited"
    <3>1. CtlInv' /\ FilesInv'
      BY <2>1, <2>2, <2>3, <2>5
    <3>2. HostInv' /\ LogOpenInv'
      BY <2>1, <2>2, <2>3, <2>5
    <3> QED
      BY <3>1, <3>2
  <2> QED
    BY <2>2, <2>4, <2>5
<1>2. CASE LoadPolicy
  BY <1>2 DEF LoadPolicy, ReturnError, dnsVars
<1>3. CASE OpenLog
  BY <1>3 DEF OpenLog, ReturnError
<1>4. CASE EnableSudoLockdown
  BY <1>4 DEF EnableSudoLockdown, ReturnError
<1>5. CASE StartDns
  BY <1>5 DEF StartDns, Start
<1>6. CASE EnableRedirect
  BY <1>6 DEF EnableRedirect
<1>7. CASE EnableDockerDns
  BY <1>7 DEF EnableDockerDns
<1>8. CASE CallAttach
  BY <1>8 DEF CallAttach, dnsVars
<1>9. CASE AttachReturned
  BY <1>9 DEF AttachReturned, CloseAndReturnError
<1>10. CASE AllowCidr \/ SeedSocket \/ ResolveHost \/ AllowResolved
  <2>1. UNCHANGED <<main, ctlVars, fileVars, hostVars, nat, logOpen, term>>
    BY <1>10 DEF AllowCidr, SeedSocket, ResolveHost, AllowResolved, dnsVars
  <2> QED
    BY <1>0, <2>1
<1>11. CASE AllowCidrsEnd
  BY <1>11 DEF AllowCidrsEnd
<1>12. CASE SeedEnd
  BY <1>12 DEF SeedEnd, dnsVars
<1>13. CASE ResolveEnd
  BY <1>13 DEF ResolveEnd
<1>14. CASE WritePidFile
  BY <1>14 DEF WritePidFile, WriteSentinel, CloseAndReturnError, dnsVars
<1>15. CASE WriteReadyFile
  BY <1>15 DEF WriteReadyFile, WriteSentinel, CloseAndReturnError, dnsVars
<1>16. CASE ContextDone
  BY <1>16 DEF ContextDone, dnsVars
<1>17. CASE Upload
  BY <1>17 DEF Upload, dnsVars
<1>18. CASE CloseDockerDns
  BY <1>18 DEF CloseDockerDns, dnsVars
<1>19. CASE CloseRedirect
  BY <1>19 DEF CloseRedirect
<1>20. CASE CloseDns
  BY <1>20 DEF CloseDns, BeginShutdown
<1>21. CASE CloseDnsEnd
  BY <1>21 DEF CloseDnsEnd, EndShutdown, dnsVars
<1>22. CASE CloseFirewall
  BY <1>22 DEF CloseFirewall, dnsVars
<1>23. CASE CloseFirewallEnd
  BY <1>23 DEF CloseFirewallEnd, dnsVars
<1>24. CASE CloseSudo
  BY <1>24 DEF CloseSudo, dnsVars
<1>25. CASE CloseLog
  BY <1>25 DEF CloseLog
<1>26. CASE CloseFiles
  BY <1>26 DEF CloseFiles, Exit, dnsVars
<1>27. CASE WriteFail
  BY <1>27 DEF WriteFail, Exit, dnsVars
<1>28. CASE Sigterm
  BY <1>28 DEF Sigterm, dnsVars
<1>29. CASE SeedUpstream
  BY <1>29 DEF SeedUpstream, mainVars, dnsVars
<1> QED
  BY <1>1, <1>2, <1>3, <1>4, <1>5, <1>6, <1>7, <1>8, <1>9, <1>10, <1>11,
     <1>12, <1>13, <1>14, <1>15, <1>16, <1>17, <1>18, <1>19, <1>20, <1>21,
     <1>22, <1>23, <1>24, <1>25, <1>26, <1>27, <1>28, <1>29 DEF MainStep

(* The handlers and the firewall's calls leave main's record alone.        *)
LEMMA OthersKeepRuntime ==
  ASSUME RuntimeInv, DnsStep \/ FirewallStep \/ UNCHANGED vars
  PROVE  RuntimeInv'
<1>1. UNCHANGED <<mainVars, nat, logOpen>>
  BY DEF DnsStep, DnsNext, Bind, handle, HandlerStep, ReplyWithoutAnswer,
     ReplyNXDomain, OnDenyEvent, OnEvent, Forward, ExchangeError,
     ExchangeAnswer, OnAllow, OnAllowEnd, Reply, FirewallStep, vars, dnsVars
<1> QED
  BY <1>1 DEF RuntimeInv, CtlInv, FilesInv, HostInv, LogOpenInv, mainVars,
     ctlVars, fileVars, hostVars

LEMMA RuntimeInvStep == RuntimeInv /\ [Next]_vars => RuntimeInv'
  BY MainKeepsRuntime, OthersKeepRuntime DEF Next, Terminated

(* No query is taken out of the log.                                       *)
LEMMA LogGrows ==
  ASSUME [Next]_vars
  PROVE  logged \subseteq logged'
<1>1. CASE MainStep \/ Sigterm \/ SeedUpstream
  BY <1>1, MainKeepsLog
<1>2. CASE DnsStep
  <2>1. ASSUME NEW host, NEW action, NEW rule, WriteEvent(host, action, rule)
        PROVE  logged \subseteq logged'
    BY <2>1 DEF WriteEvent
  <2>2. ASSUME NEW h \in Handlers, OnEvent(h) \/ OnDenyEvent(h)
        PROVE  logged \subseteq logged'
    BY <2>1, <2>2 DEF OnEvent, OnDenyEvent
  <2> QED
    BY <1>2, <2>2 DEF DnsStep, DnsNext, Bind, handle, HandlerStep,
       ReplyWithoutAnswer, ReplyNXDomain, Forward, ExchangeError,
       ExchangeAnswer, OnAllow, OnAllowEnd, Reply
<1>3. CASE FirewallStep \/ UNCHANGED vars
  BY <1>3 DEF FirewallStep, vars, dnsVars
<1> QED
  BY <1>1, <1>2, <1>3 DEF Next, Terminated

(* Where a call of the firewall package can get to in one step.            *)
LEMMA FwStepOutcome ==
  ASSUME FwStep
  PROVE  /\ fwPc # "idle"
         /\ fwPc \in AttachPcs =>
              \/ fwPc' \in AttachPcs
              \/ fwPc' = "cleanup" /\ attachRet' = "err" /\ loaded' = loaded
              \/ fwPc' = "idle" /\ loaded' = TRUE /\ attachRet' = "ok"
         /\ fwPc = "cleanup" =>
              /\ attachRet' = attachRet
              /\ \/ fwPc' = "cleanup" /\ loaded' = loaded
                 \/ fwPc' = "idle" /\ loaded' = FALSE
<1>1. CASE CleanupStep \/ CleanupEnd
  BY <1>1 DEF CleanupStep, CleanupEnd, AttachPcs
<1>2. CASE RemoveMemlock \/ LoadCensorObjects \/ ConfigPut
  BY <1>2 DEF RemoveMemlock, LoadCensorObjects, ConfigPut, Fail, Goto, AttachPcs
<1>3. CASE AttachConnect4 \/ AttachConnect6 \/ AttachEgress
  BY <1>3 DEF AttachConnect4, AttachConnect6, AttachEgress, Attach, Fail, Goto, AttachPcs
<1>4. CASE AttachExec \/ NewReader
  BY <1>4 DEF AttachExec, NewReader, Fail, Goto, AttachPcs
<1> QED
  BY <1>1, <1>2, <1>3, <1>4 DEF FwStep

(* The calls other goroutines make leave the package loaded or not.        *)
LEMMA AllowKeepsPhase ==
  ASSUME NEW key, AllowKey(key)
  PROVE  UNCHANGED <<policy, fwPc, attachRet, loaded>>
  BY DEF AllowKey

(* Main waits for AttachFirewall and for DetachFirewall, and nothing else  *)
(* makes the package change its mind.                                      *)
LEMMA PhaseInvStep ==
  AgentInv /\ RuntimeInv /\ PhaseInv /\ [Next]_vars => PhaseInv'
<1> SUFFICES ASSUME AgentInv, RuntimeInv, PhaseInv, [Next]_vars
             PROVE  PhaseInv'
  OBVIOUS
<1>0. (SkipLogged => SkipLogged') /\ (~ RequireBPF => ~ RequireBPF')
  BY AgentInvStep, PolicyKept, LogGrows DEF SkipLogged, Skipped, RequireBPF
<1>1. main \in MainPcs
  BY DEF RuntimeInv, CtlInv
<1>2. FwTypeOK /\ (main \in BeforeAttach => MuFree /\ ~ loaded)
  BY DEF AgentInv, FwInv, MainInv
<1> USE <1>0, <1>1, <1>2 DEF MainPcs, StartPcs, ClosePcs, SudoDone, DockerDone,
      RedirectDone, Serving, BeforeAttach, To, MuFree, FirewallUp, FirewallOff
<1>3. ASSUME UNCHANGED <<fwPc, attachRet, loaded, main, ready>> PROVE PhaseInv'
  BY <1>3 DEF PhaseInv
<1>4. CASE MakeRunDir \/ LoadPolicy \/ OpenLog \/ EnableSudoLockdown \/ StartDns
           \/ EnableRedirect \/ EnableDockerDns
  <2>1. UNCHANGED <<fwPc, attachRet, loaded, ready>> /\ main \in BeforeAttach
    BY <1>4 DEF MakeRunDir, LoadPolicy, OpenLog, EnableSudoLockdown, StartDns,
         EnableRedirect, EnableDockerDns, fwVars, fileVars
  <2>2. main' \in BeforeAttach \cup {"fail", "exited"}
    BY <1>4 DEF MakeRunDir, LoadPolicy, OpenLog, EnableSudoLockdown, StartDns,
         EnableRedirect, EnableDockerDns, ReturnError, Exit
  <2> QED
    BY <2>1, <2>2 DEF PhaseInv
<1>5. CASE CallAttach
  BY <1>5 DEF CallAttach, AttachFirewall, AttachPcs, PhaseInv, fileVars
<1>6. CASE AttachReturned
  <2>1. CASE attachRet = "ok"
    BY <1>6, <2>1 DEF AttachReturned, PhaseInv, AttachPcs, fwVars, fileVars
  <2>2. CASE attachRet # "ok"
    <3>1. logOpen = TRUE
      BY <1>6 DEF AttachReturned, RuntimeInv, LogOpenInv, NoLog
    <3>2. SkipLogged'
      <4> DEFINE e == [host |-> NoName, action |-> "ALLOW", rule |-> "bpf_attach_skipped"]
      <4>1. e \in logged' /\ e.rule = "bpf_attach_skipped"
        BY <1>6, <2>2, <3>1 DEF AttachReturned, WriteEvent
      <4> HIDE DEF e
      <4> QED
        BY <4>1 DEF SkipLogged, Skipped
    <3>3. UNCHANGED <<fwPc, attachRet, loaded, ready>> /\ main = "attached" /\ MuFree
      BY <1>6 DEF AttachReturned, fwVars, fileVars
    <3>4. main' = "closeDocker" \/ (main' = "pid" /\ ~ RequireBPF)
      BY <1>6, <2>2 DEF AttachReturned, CloseAndReturnError
    <3> QED
      BY <2>2, <3>2, <3>3, <3>4 DEF PhaseInv, AttachPcs
  <2> QED
    BY <2>1, <2>2
<1>7. CASE AllowCidr \/ SeedSocket \/ AllowResolved \/ SeedUpstream
  <2>1. UNCHANGED <<fwPc, attachRet, loaded>>
    BY <1>7, AllowKeepsPhase DEF AllowCidr, SeedSocket, AllowResolved, SeedUpstream,
         AllowIP, AllowPrefix
  <2>2. UNCHANGED <<main, ready>>
    BY <1>7 DEF AllowCidr, SeedSocket, AllowResolved, SeedUpstream, mainVars, fileVars
  <2> QED
    BY <1>3, <2>1, <2>2
<1>8. CASE AllowCidrsEnd \/ SeedEnd \/ ResolveHost \/ ResolveEnd \/ Sigterm
  <2>1. UNCHANGED <<fwPc, attachRet, loaded, ready>>
    BY <1>8 DEF AllowCidrsEnd, SeedEnd, ResolveHost, ResolveEnd, Sigterm, fwVars, fileVars
  <2>2. \/ main' = main
        \/ main \in {"cidrs", "seed", "resolve"} /\ main' \in {"seed", "resolve", "pid"}
    BY <1>8 DEF AllowCidrsEnd, SeedEnd, ResolveHost, ResolveEnd, Sigterm
  <2> QED
    BY <1>3, <2>1, <2>2 DEF PhaseInv
<1>9. CASE WritePidFile \/ WriteReadyFile \/ ContextDone \/ Upload
  <2>1. UNCHANGED <<fwPc, attachRet, loaded>>
    BY <1>9 DEF WritePidFile, WriteReadyFile, ContextDone, Upload, fwVars
  <2>2. /\ main \in Serving /\ main' \in {"ready", "running", "upload", "closeDocker"}
        /\ main' = "ready" => ready' = ready
        /\ main' = "upload" => main = "running" /\ ready' = ready
        /\ main' = "running" => ready' = IF attachRet = "ok" THEN "bpf=1" ELSE "bpf=0"
        /\ ready' \in {ready, "bpf=0", "bpf=1"}
    BY <1>9 DEF WritePidFile, WriteReadyFile, WriteSentinel, CloseAndReturnError,
         ContextDone, Upload, fileVars
  <2> QED
    BY <2>1, <2>2 DEF PhaseInv
<1>10. CASE CloseDockerDns \/ CloseRedirect \/ CloseDns \/ CloseDnsEnd
  <2>1. UNCHANGED <<fwPc, attachRet, loaded, ready>>
    BY <1>10 DEF CloseDockerDns, CloseRedirect, CloseDns, CloseDnsEnd, fwVars, fileVars
  <2>2. /\ main \in {"closeDocker", "closeRedirect", "closeDns", "closingDns"}
        /\ main' \in {"closeRedirect", "closeDns", "closingDns", "closeFirewall"}
    BY <1>10 DEF CloseDockerDns, CloseRedirect, CloseDns, CloseDnsEnd
  <2> QED
    BY <2>1, <2>2 DEF PhaseInv
<1>11. CASE CloseFirewall
  <2>1. /\ main = "closeFirewall" /\ main' = "closingFirewall"
        /\ ready' = ready /\ loaded' = loaded
        /\ fwPc' = "cleanup" \/ (fwPc = "idle" /\ fwPc' = fwPc /\ ~ loaded)
    BY <1>11 DEF CloseFirewall, DetachFirewall, fileVars
  <2> QED
    BY <2>1 DEF PhaseInv
<1>12. CASE CloseFirewallEnd \/ CloseSudo \/ CloseLog \/ CloseFiles \/ WriteFail
  <2>1. UNCHANGED <<fwPc, attachRet, loaded, ready>>
    BY <1>12 DEF CloseFirewallEnd, CloseSudo, CloseLog, CloseFiles, WriteFail,
         fwVars, fileVars
  <2>2. /\ \/ main = "closingFirewall" /\ MuFree
           \/ main \in {"closeSudo", "closeLog", "closeFiles", "fail"}
        /\ main' \in {"closeSudo", "closeLog", "closeFiles", "fail", "exited"}
    BY <1>12 DEF CloseFirewallEnd, CloseSudo, CloseLog, CloseFiles, WriteFail, Exit
  <2> QED
    BY <2>1, <2>2 DEF PhaseInv
<1>13. CASE FirewallStep
  <2>1. FwStep /\ UNCHANGED <<main, ready>>
    BY <1>13 DEF FirewallStep, mainVars, fileVars
  <2>2. main \in {"attached", "closingFirewall"}
    BY <2>1, FwStepOutcome DEF PhaseInv
  <2>3. fwPc \in AttachPcs => ~ loaded
    BY DEF AgentInv, FwInv, AttachInv
  <2>4. CASE main = "attached"
    <3>1. fwPc \in AttachPcs \/ (fwPc = "cleanup" /\ attachRet = "err")
      BY <2>1, <2>4, FwStepOutcome DEF PhaseInv
    <3>3. ~ loaded
      BY <2>1, <2>3, <2>4, FwStepOutcome DEF PhaseInv
    <3>4. \/ fwPc' \in AttachPcs
          \/ fwPc' = "cleanup" /\ attachRet' = "err" /\ ~ loaded'
          \/ FirewallUp'
          \/ FirewallOff'
      BY <2>1, <3>1, <3>3, FwStepOutcome
    <3>5. ready' \in {"none", "bpf=0", "bpf=1"} /\ main' = "attached"
      BY <2>1, <2>4 DEF PhaseInv
    <3> QED
      BY <3>4, <3>5 DEF PhaseInv
  <2>5. CASE main = "closingFirewall"
    BY <2>1, <2>5, FwStepOutcome DEF PhaseInv
  <2> QED
    BY <2>2, <2>4, <2>5
<1>14. CASE DnsStep
  <2>1. UNCHANGED <<fwPc, attachRet, loaded>>
    BY <1>14, AllowKeepsPhase DEF DnsStep, DnsNext, handle, HandlerStep,
         ReplyWithoutAnswer, ReplyNXDomain, OnDenyEvent, OnEvent, Forward, ExchangeError,
         ExchangeAnswer, OnAllow, AllowIP, OnAllowEnd, Reply, fwVars
  <2>2. UNCHANGED <<main, ready>>
    BY <1>14 DEF DnsStep, mainVars, fileVars
  <2> QED
    BY <1>3, <2>1, <2>2
<1>15. CASE UNCHANGED vars
  BY <1>3, <1>15 DEF vars, fwVars, mainVars, fileVars
<1> QED
  BY <1>4, <1>5, <1>6, <1>7, <1>8, <1>9, <1>10, <1>11, <1>12, <1>13, <1>14, <1>15
     DEF Next, MainStep, Terminated

(* Start has logged something by the time there is anything to upload.     *)
LEMMA UploadInvStep ==
  AgentInv /\ RuntimeInv /\ UploadInv /\ [Next]_vars => UploadInv'
<1> SUFFICES ASSUME AgentInv, RuntimeInv, UploadInv, [Next]_vars
             PROVE  UploadInv'
  OBVIOUS
<1>0. logged \subseteq logged' /\ (policy.local => policy.local')
  BY AgentInvStep, PolicyKept, LogGrows
<1>1. ASSUME UNCHANGED <<uploaded, cause, closeErr>>,
             main' \in Serving => main \in Serving \/ logged' # {}
      PROVE  UploadInv'
  BY <1>0, <1>1 DEF UploadInv
<1>2. CASE UNCHANGED mainVars
  BY <1>1, <1>2 DEF mainVars, ctlVars
<1>3. CASE DnsStep \/ FirewallStep \/ SeedUpstream \/ UNCHANGED vars
  BY <1>2, <1>3 DEF DnsStep, FirewallStep, SeedUpstream, vars
<1>4. main \in MainPcs /\ (main \in ClosePcs => cause # "none") /\ closeErr \in BOOLEAN
  BY DEF RuntimeInv, CtlInv
<1>5. ASSUME cause' # "term" \/ cause' = cause, closeErr' = closeErr \/ closeErr' = TRUE,
             uploaded' = uploaded,
             main' \in Serving => main \in Serving \/ logged' # {}
      PROVE  UploadInv'
  BY <1>0, <1>4, <1>5 DEF UploadInv
<1> USE DEF To, ctlVars, Serving
<1>6. CASE MakeRunDir \/ LoadPolicy \/ OpenLog \/ EnableSudoLockdown \/ StartDns
           \/ EnableRedirect \/ EnableDockerDns \/ CallAttach
  <2>1. /\ uploaded' = uploaded /\ closeErr' = closeErr /\ main' \notin Serving
        /\ cause' = cause \/ (cause' = main /\ main \in BeforeDns)
    BY <1>6 DEF MakeRunDir, LoadPolicy, OpenLog, EnableSudoLockdown, StartDns,
         EnableRedirect, EnableDockerDns, CallAttach, ReturnError, Exit, BeforeDns
  <2> QED
    BY <1>5, <2>1 DEF BeforeDns
<1>7. CASE AttachReturned \/ ResolveEnd
  <2>1. logOpen = TRUE
    BY <1>7 DEF AttachReturned, ResolveEnd, RuntimeInv, LogOpenInv, NoLog
  <2>2. uploaded' = uploaded /\ closeErr' = closeErr /\ (cause' = cause \/ cause' = "attached")
    BY <1>7 DEF AttachReturned, ResolveEnd, CloseAndReturnError
  <2>3. main' \in Serving => logged' # {}
    BY <1>7, <2>1 DEF AttachReturned, ResolveEnd, CloseAndReturnError, WriteEvent
  <2> QED
    BY <1>5, <2>2, <2>3
<1>8. CASE AllowCidr \/ AllowCidrsEnd \/ SeedSocket \/ SeedEnd \/ ResolveHost
           \/ AllowResolved \/ Sigterm \/ ContextDone
  <2>1. /\ uploaded' = uploaded /\ closeErr' = closeErr /\ cause' = cause
        /\ main' = main \/ main' \in {"seed", "resolve"} \/ main = "running"
    BY <1>8 DEF AllowCidr, AllowCidrsEnd, SeedSocket, SeedEnd, ResolveHost,
         AllowResolved, Sigterm, ContextDone
  <2> QED
    BY <1>5, <2>1
<1>9. CASE WritePidFile \/ WriteReadyFile
  BY <1>5, <1>9 DEF WritePidFile, WriteReadyFile, WriteSentinel, CloseAndReturnError
<1>10. CASE Upload
  <2>1. logged # {} /\ logged' = logged /\ main' \notin Serving
    BY <1>10 DEF Upload, UploadInv, dnsVars
  <2>2. uploaded' \in {uploaded, logged}
    BY <1>10 DEF Upload
  <2>3. policy.local \/ uploaded' = logged \/ closeErr' = TRUE
    BY <1>10 DEF Upload
  <2> QED
    BY <1>0, <2>1, <2>2, <2>3 DEF UploadInv
<1>11. CASE CloseDockerDns \/ CloseRedirect \/ CloseDns \/ CloseDnsEnd
            \/ CloseFirewall \/ CloseFirewallEnd \/ CloseSudo \/ CloseLog
            \/ CloseFiles \/ WriteFail
  <2>1. uploaded' = uploaded /\ cause' = cause /\ main' \notin Serving
    BY <1>11 DEF CloseDockerDns, CloseRedirect, CloseDns, CloseDnsEnd,
         CloseFirewall, CloseFirewallEnd, CloseSudo, CloseLog, CloseFiles,
         WriteFail, Exit
  <2>2. closeErr' = closeErr \/ closeErr' = TRUE
    BY <1>4, <1>11 DEF CloseDockerDns, CloseRedirect, CloseDns, CloseDnsEnd,
         CloseFirewall, CloseFirewallEnd, CloseSudo, CloseLog, CloseFiles,
         WriteFail, Exit, ShutdownStarted
  <2> QED
    BY <1>5, <2>1, <2>2
<1> QED
  BY <1>3, <1>6, <1>7, <1>8, <1>9, <1>10, <1>11 DEF Next, MainStep, Terminated

(* Whoever damages daemon.json says so: Enable in the log, Disable to      *)
(* Close.                                                                  *)
LEMMA DockerInvStep == RuntimeInv /\ DockerInv /\ [Next]_vars => DockerInv'
<1> SUFFICES ASSUME RuntimeInv, DockerInv, [Next]_vars PROVE DockerInv'
  OBVIOUS
<1>0. \A rule : Skipped(rule) => Skipped(rule)'
  BY LogGrows DEF Skipped
<1>1. closeErr \in BOOLEAN
  BY DEF RuntimeInv, CtlInv
<1>2. ASSUME docker' = docker \/ docker' # "damaged",
             closeErr' = closeErr \/ closeErr' = TRUE,
             "docker" \in leaked => "docker" \in leaked'
      PROVE  DockerInv'
  BY <1>0, <1>1, <1>2 DEF DockerInv
<1>3. CASE EnableDockerDns
  <2> DEFINE e == [host |-> NoName, action |-> "ALLOW", rule |-> "docker_dns_skipped"]
  <2>1. logOpen = TRUE
    BY <1>3 DEF EnableDockerDns, RuntimeInv, LogOpenInv, NoLog
  <2>2. docker' = "ours" \/ WriteEvent(NoName, "ALLOW", "docker_dns_skipped")
    BY <1>3 DEF EnableDockerDns
  <2>3. docker' = "ours" \/ (e \in logged' /\ e.rule = "docker_dns_skipped")
    BY <2>1, <2>2 DEF WriteEvent
  <2> HIDE DEF e
  <2> QED
    BY <2>3 DEF DockerInv, Skipped
<1>4. CASE CloseDockerDns
  BY <1>2, <1>4 DEF CloseDockerDns, DockerInv
<1>5. CASE EnableRedirect \/ CloseRedirect
  <2>1. docker' = docker /\ ("docker" \in leaked => "docker" \in leaked')
    BY <1>5 DEF EnableRedirect, CloseRedirect, Nets
  <2>2. closeErr' = closeErr \/ closeErr' = TRUE
    BY <1>1, <1>5 DEF EnableRedirect, CloseRedirect, To, ctlVars
  <2> QED
    BY <1>2, <2>1, <2>2
<1>6. CASE CloseDns \/ CloseSudo \/ CloseLog \/ CloseFiles \/ WriteFail \/ Upload
  <2>1. docker' = docker /\ ("docker" \in leaked => "docker" \in leaked')
    BY <1>6 DEF CloseDns, CloseSudo, CloseLog, CloseFiles, WriteFail, Upload, hostVars
  <2>2. closeErr' = closeErr \/ closeErr' = TRUE
    BY <1>1, <1>6 DEF CloseDns, ShutdownStarted, CloseSudo, CloseLog, CloseFiles,
         WriteFail, Upload, To, ctlVars
  <2> QED
    BY <1>2, <2>1, <2>2
<1>7. CASE \/ MakeRunDir \/ LoadPolicy \/ OpenLog \/ EnableSudoLockdown \/ StartDns
           \/ CallAttach \/ AttachReturned
  BY <1>2, <1>7 DEF MakeRunDir, LoadPolicy, OpenLog, EnableSudoLockdown, StartDns,
     CallAttach, AttachReturned, ReturnError, CloseAndReturnError, To, ctlVars, hostVars
<1>8. CASE \/ AllowCidr \/ AllowCidrsEnd \/ SeedSocket \/ SeedEnd \/ ResolveHost
           \/ AllowResolved \/ ResolveEnd \/ WritePidFile \/ WriteReadyFile
  BY <1>2, <1>8 DEF AllowCidr, AllowCidrsEnd, SeedSocket, SeedEnd, ResolveHost,
     AllowResolved, ResolveEnd, WritePidFile, WriteReadyFile, WriteSentinel,
     CloseAndReturnError, To, ctlVars, hostVars
<1>9. CASE \/ ContextDone \/ CloseDnsEnd \/ CloseFirewall \/ CloseFirewallEnd \/ Sigterm
  BY <1>2, <1>9 DEF ContextDone, CloseDnsEnd, CloseFirewall, CloseFirewallEnd, Sigterm,
     To, ctlVars, hostVars
<1>10. CASE DnsStep \/ FirewallStep \/ SeedUpstream \/ UNCHANGED vars
  BY <1>2, <1>10 DEF DnsStep, FirewallStep, SeedUpstream, vars, mainVars, ctlVars, hostVars
<1> QED
  BY <1>3, <1>4, <1>5, <1>6, <1>7, <1>8, <1>9, <1>10 DEF Next, MainStep, Terminated

(* All of it holds when the process starts.                                *)
LEMMA RuntimeInvInit == Init => RuntimeInv /\ PhaseInv /\ UploadInv /\ DockerInv
<1> SUFFICES ASSUME Init PROVE RuntimeInv /\ PhaseInv /\ UploadInv /\ DockerInv
  OBVIOUS
<1>1. CtlInv
  BY DEF Init, CtlInv, MainPcs, StartPcs, ClosePcs
<1>2. FilesInv
  BY StaleFilesAssumption DEF Init, FilesInv, StartPcs
<1>3. HostInv
  BY DEF Init, DnsInit, HostInv, BeforeDns, SudoDone, RedirectDone, DockerDone, ClosePcs
<1>4. LogOpenInv /\ PhaseInv /\ UploadInv /\ DockerInv
  BY DEF Init, DnsInit, LogOpenInv, NoLog, PhaseInv, UploadInv, Serving, SudoDone,
     DockerInv
<1> QED
  BY <1>1, <1>2, <1>3, <1>4 DEF RuntimeInv

(* The strengthening behind the theorems below: main's record of what it   *)
(* took, the phase of the firewall, what there is to upload and what was   *)
(* said of a damaged daemon.json.                                          *)
THEOREM RuntimeInvariance ==
  Spec => [](RuntimeInv /\ PhaseInv /\ UploadInv /\ DockerInv)
  BY AgentInvInit, AgentInvStep, RuntimeInvInit, RuntimeInvStep, PhaseInvStep,
     UploadInvStep, DockerInvStep, PTL DEF Spec

(* The state of main has its types, and what was uploaded was logged.      *)
THEOREM RuntimeTypeCorrect == Spec => []TypeOK
<1>1. RuntimeInv /\ PhaseInv /\ UploadInv => TypeOK
  BY DEF RuntimeInv, CtlInv, FilesInv, HostInv, PhaseInv, UploadInv, TypeOK,
     MainPcs, StartPcs, ClosePcs
<1> QED
  BY <1>1, RuntimeInvariance, PTL

(* The ready file never promises a firewall that is not there: Start waits *)
(* for the attach and gives up when the policy needs it.                   *)
THEOREM ReadyFileIsHonest == Spec => []ReadyIsHonest
<1>1. FwInv /\ PhaseInv => ReadyIsHonest
  BY DEF FwInv, AllOrNothing, PhaseInv, FirewallUp, FirewallOff, RequireBPF,
     SkipLogged, Skipped, Serving, ReadyIsHonest
<1> QED
  BY <1>1, AgentInvInit, AgentInvStep, RuntimeInvariance, PTL DEF Spec, AgentInv

(* At whichever step Start or Close fails, the exited agent has given back *)
(* what it took, except what the host refused to take back, a daemon.json  *)
(* that a failed Enable damaged and the log reports as skipped, and the    *)
(* drop-in of a lockdown whose failure ended Start.                        *)
THEOREM NothingIsLeftBehind == Spec => []NothingLeftBehind
<1>1. FwInv /\ RuntimeInv /\ PhaseInv /\ DockerInv => NothingLeftBehind
  BY DEF FwInv, AllOrNothing, RuntimeInv, FilesInv, HostInv, LogOpenInv, NoLog,
     PhaseInv, DockerDone, RedirectDone, SudoDone, ClosePcs, DockerInv,
     DockerDamaged, NothingLeftBehind
<1> QED
  BY <1>1, AgentInvInit, AgentInvStep, RuntimeInvariance, PTL DEF Spec, AgentInv

(* Exit code 0 is only for a run whose log was uploaded and whose changes  *)
(* to name resolution were undone, but for a daemon.json that a failed     *)
(* Enable damaged and the log reports as skipped.                          *)
THEOREM ExitCodeIsHonest == Spec => []ExitZeroIsClean
<1>1. RuntimeInv /\ UploadInv /\ DockerInv => ExitZeroIsClean
  BY DEF RuntimeInv, CtlInv, FilesInv, HostInv, UploadInv, DockerInv, DockerDone,
     RedirectDone, ClosePcs, DockerDamaged, ExitZeroIsClean
<1> QED
  BY <1>1, RuntimeInvariance, PTL

(* wait-ready never sees both sentinels, and a failed Start ends with the  *)
(* failure file alone.                                                     *)
THEOREM SentinelsExclude == Spec => []SentinelsAreExclusive
<1>1. RuntimeInv => SentinelsAreExclusive
  BY DEF RuntimeInv, CtlInv, FilesInv, MainPcs, StartPcs, ClosePcs,
     SentinelsAreExclusive
<1> QED
  BY <1>1, RuntimeInvariance, PTL
=============================================================================
