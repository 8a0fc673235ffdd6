-------------------------------- MODULE Agent --------------------------------
(***************************************************************************)
(* The agent process: the main goroutine of `censor start`                 *)
(* (cmd/censor/main.go runStart, internal/agent/runtime.go Start and       *)
(* Close), composed with the firewall and the DNS proxy it starts, and     *)
(* with the resources of the host it takes and gives back: the sentinel    *)
(* files, the DNAT rules, Docker's daemon.json and the sudoers drop-in.    *)
(***************************************************************************)
EXTENDS DnsProxy

CONSTANTS
  Sockets,     \* remote addresses of the sockets open when the agent starts
  StaleFiles   \* sentinel files an earlier run may have left behind

ASSUME SocketsAssumption == Sockets \subseteq Addresses
(* The instance's Dests name every address the agent calls AllowIP with.   *)
ASSUME TargetsAssumption ==
  /\ \A a \in Sockets \cup {Upstream} : ProcAddress(a) \in Dests
  /\ \A n \in Names : \A a \in UNION Zone[n] : Unmap(a) \in Dests
ASSUME AgentPoliciesAssumption == \A p \in Policies : p.cidrs \subseteq Cidrs

VARIABLES
  main,      \* where the main goroutine is
  cause,     \* why Close runs: "none", "term" (signal) or the failed step
  code,      \* exit code, 2 while the process runs
  closeErr,  \* Upload or Close has seen an error
  work,      \* main's loop: CIDRs, sockets or hosts still to be done
  batch,     \* addresses of the host just resolved, still to be allowed
  term,      \* SIGTERM or SIGINT has arrived
  files,     \* sentinel files present
  ready,     \* what the ready file of this run says: "none", "bpf=0", "bpf=1"
  backend,   \* Redirect.backend: iptables was found
  docker,    \* daemon.json: "orig", "ours", or "damaged" by a failed write
  sudoers,   \* the lockdown drop-in is in place
  leaked,    \* host resources whose release failed
  uploaded   \* the events the API has received

ctlVars == <<cause, code, closeErr>>
loopVars == <<work, batch>>
fileVars == <<files, ready>>
hostVars == <<backend, docker, sudoers, leaked>>
mainVars ==
  <<main, ctlVars, loopVars, term, fileVars, hostVars, uploaded>>
vars == <<fwVars, dnsVars, mainVars>>

FileNames == {"ready", "failure", "pid", "status"}
ASSUME StaleFilesAssumption == StaleFiles \subseteq FileNames
StartPcs ==
  {"mkdir", "loadPolicy", "openLog", "sudo", "dns", "redirect", "docker",
   "attach", "attached", "cidrs", "seed", "resolve", "pid", "ready"}
ClosePcs ==
  {"closeDocker", "closeRedirect", "closeDns", "closingDns", "closeFirewall",
   "closingFirewall", "closeSudo", "closeLog", "closeFiles"}
MainPcs == StartPcs \cup ClosePcs \cup {"running", "upload", "fail", "exited"}

Init ==
  /\ FwInit
  /\ DnsInit
  /\ logOpen = FALSE
  /\ main = "mkdir"
  /\ cause = "none"
  /\ work = {}
  /\ batch = {}
  /\ term = FALSE
  /\ files \in SUBSET StaleFiles
  /\ ready = "none"
  /\ backend = FALSE
  /\ docker = "orig"
  /\ sudoers = FALSE
  /\ closeErr = FALSE
  /\ leaked = {}
  /\ uploaded = {}
  /\ code = 2

-----------------------------------------------------------------------------
(***************************************************************************)
(* Start, up to the firewall.                                              *)
(***************************************************************************)
To(pc) == main' = pc /\ UNCHANGED ctlVars

Exit(c) == main' = "exited" /\ code' = c

(* An error return before there is a Runtime to close, and one after.      *)
ReturnError == main' = "fail" /\ cause' = main /\ UNCHANGED <<code, closeErr>>

(* A slip: only the log is closed, as on the sudo error return.            *)
CloseLogAndReturnError ==
  main' = "closeLog" /\ cause' = main /\ UNCHANGED <<code, closeErr>>
CloseAndReturnError ==
  main' = "closeDocker" /\ cause' = main /\ UNCHANGED <<code, closeErr>>

(* The directory of the ready file; an error return that writes no failure *)
(* file.  A ready file of an earlier run means the directory exists.       *)
MakeRunDir ==
  /\ main = "mkdir"
  /\ \/ To("loadPolicy")
     \/ "ready" \notin files /\ cause' = main /\ Exit(1) /\ UNCHANGED closeErr
  /\ UNCHANGED <<loopVars, term, fileVars, hostVars, uploaded, fwVars, dnsVars>>

(* A slip: the failure file of an earlier run is not removed.              *)
LoadPolicyKeepsFailure ==
  /\ main = "loadPolicy"
  /\ files' = files \ {"ready", "status"}
  /\ To("openLog") \/ ReturnError
  /\ UNCHANGED <<loopVars, term, ready, hostVars, uploaded, fwVars, dnsVars>>

(* The sentinels are removed; then the environment, the API key and the    *)
(* policy are read, each of which can fail (a signal cancels the fetch).   *)
LoadPolicy ==
  /\ main = "loadPolicy"
  /\ files' = files \ {"ready", "failure", "status"}
  /\ To("openLog") \/ ReturnError
  /\ UNCHANGED <<loopVars, term, ready, hostVars, uploaded, fwVars, dnsVars>>

OpenLog ==
  /\ main = "openLog"
  /\ \/ To("sudo") /\ logOpen' = TRUE
     \/ ReturnError /\ UNCHANGED logOpen
  /\ UNCHANGED <<loopVars, term, fileVars, hostVars, uploaded, fwVars>>
  /\ UNCHANGED <<srv, nat, hd, logged, delivered, missed>>

(* Enable can fail before or after it wrote the drop-in; Start then closes *)
(* the log only.                                                           *)
EnableSudoLockdown ==
  /\ main = "sudo"
  /\ \/ ~ policy.disableSudo /\ To("dns") /\ UNCHANGED <<sudoers, logOpen>>
     \/ policy.disableSudo /\ To("dns") /\ sudoers' = TRUE /\ UNCHANGED logOpen
     \/ /\ policy.disableSudo
        /\ sudoers' \in BOOLEAN
        /\ logOpen' = FALSE
        /\ ReturnError
  /\ UNCHANGED <<loopVars, term, fileVars, backend, docker, leaked, uploaded>>
  /\ UNCHANGED <<srv, nat, hd, logged, delivered, missed, fwVars>>

StartDns ==
  /\ main = "dns"
  /\ Start
  /\ To(IF policy.gha THEN "redirect" ELSE "attach")
  /\ UNCHANGED <<loopVars, term, fileVars, hostVars, uploaded, fwVars>>

(* Redirect.Enable: both rules in; iptables missing or a rule refused and  *)
(* the other taken out again; or that removal refused as well.             *)
EnableRedirect ==
  /\ main = "redirect"
  /\ \/ backend' = TRUE /\ nat' = Nets /\ UNCHANGED <<leaked, logged>>
     \/ /\ backend' \in BOOLEAN
        /\ WriteEvent(NoName, "ALLOW", "dns_redirect_skipped")
        /\ UNCHANGED <<nat, leaked>>
     \/ /\ backend' = TRUE
        /\ nat' = {"udp"}
        /\ leaked' = leaked \cup nat'
        /\ WriteEvent(NoName, "ALLOW", "dns_redirect_skipped")
  /\ To("docker")
  /\ UNCHANGED <<loopVars, term, fileVars, docker, sudoers, uploaded, fwVars>>
  /\ UNCHANGED <<srv, hd, logOpen, delivered, missed>>

(* DockerDNS.Enable: written, refused before the write, or cut short by    *)
(* it; only the first case sets enabled.                                   *)
EnableDockerDns ==
  /\ main = "docker"
  /\ \/ docker' = "ours" /\ UNCHANGED logged
     \/ /\ docker' \in {"orig", "damaged"}
        /\ WriteEvent(NoName, "ALLOW", "docker_dns_skipped")
  /\ To("attach")
  /\ UNCHANGED <<loopVars, term, fileVars, backend, sudoers, leaked, uploaded>>
  /\ UNCHANGED <<srv, nat, hd, logOpen, delivered, missed, fwVars>>

-----------------------------------------------------------------------------
(***************************************************************************)
(* Start, from the firewall on.                                            *)
(***************************************************************************)
CallAttach ==
  /\ main = "attach"
  /\ AttachFirewall
  /\ To("attached")
  /\ UNCHANGED <<loopVars, term, fileVars, hostVars, uploaded, dnsVars>>

(* A slip: only requireBpf makes the firewall mandatory.                   *)
RequireBPFFlagOnly == policy.requireBpf
RequireBPF == policy.requireBpf \/ policy.mode = "ENFORCE"

AttachReturned ==
  /\ main = "attached"
  /\ MuFree
  /\ IF attachRet = "ok"
     THEN To("cidrs") /\ work' = policy.cidrs /\ UNCHANGED logged
     ELSE /\ WriteEvent(NoName, "ALLOW", "bpf_attach_skipped")
          /\ IF RequireBPF THEN CloseAndReturnError ELSE To("pid")
          /\ UNCHANGED work
  /\ UNCHANGED <<batch, term, fileVars, hostVars, uploaded, fwVars>>
  /\ UNCHANGED <<srv, nat, hd, logOpen, delivered, missed>>

(* ParseAndAllowCIDRs, then prepopulate.Run: the remote ends of the open   *)
(* sockets, then the addresses of the allowed hosts that are not globs.    *)
AllowCidr ==
  /\ main = "cidrs"
  /\ \E c \in work : AllowPrefix(c) /\ work' = work \ {c}
  /\ UNCHANGED <<main, ctlVars, batch, term, fileVars, hostVars, uploaded>>
  /\ UNCHANGED dnsVars
AllowCidrsEnd ==
  /\ main = "cidrs"
  /\ work = {}
  /\ IF policy.cidrs = {} THEN UNCHANGED logged
     ELSE WriteEvent(NoName, "ALLOW", "cidrs")
  /\ To("seed")
  /\ work' = Sockets
  /\ UNCHANGED <<batch, term, fileVars, hostVars, uploaded, fwVars>>
  /\ UNCHANGED <<srv, nat, hd, logOpen, delivered, missed>>

SeedSocket ==
  /\ main = "seed"
  /\ \E a \in work : AllowIP(ProcAddress(a)) /\ work' = work \ {a}
  /\ UNCHANGED <<main, ctlVars, batch, term, fileVars, hostVars, uploaded>>
  /\ UNCHANGED dnsVars
(* /proc/net/udp also lists the sockets of exchanges under way.            *)
SeedUpstream ==
  /\ main = "seed"
  /\ \E h \in Handlers : hd[h].pc = "wait"
  /\ AllowIP(ProcAddress(Upstream))
  /\ UNCHANGED <<mainVars, dnsVars>>

HostsToResolve ==
  {n \in Names : \E i \in DOMAIN Allowed : Allowed[i] = n /\ ~ IsGlob(n)}

SeedEnd ==
  /\ main = "seed"
  /\ work = {}
  /\ To("resolve")
  /\ work' = HostsToResolve
  /\ UNCHANGED <<batch, term, fileVars, hostVars, uploaded, fwVars, dnsVars>>

(* LookupIPAddr of the next host: an answer, or an error (a name unknown,  *)
(* or the three seconds for all of them used up).                          *)
ResolveHost ==
  /\ main = "resolve"
  /\ batch = {}
  /\ \E n \in work :
       /\ work' = work \ {n}
       /\ batch' \in Zone[n] \cup {{}}
  /\ UNCHANGED <<main, ctlVars, term, fileVars, hostVars, uploaded>>
  /\ UNCHANGED <<fwVars, dnsVars>>
AllowResolved ==
  /\ main = "resolve"
  /\ \E a \in batch : AllowIP(Unmap(a)) /\ batch' = batch \ {a}
  /\ UNCHANGED <<main, ctlVars, work, term, fileVars, hostVars, uploaded>>
  /\ UNCHANGED dnsVars
ResolveEnd ==
  /\ main = "resolve"
  /\ work = {} /\ batch = {}
  /\ WriteEvent(NoName, "ALLOW", "prepopulate")
  /\ To("pid")
  /\ UNCHANGED <<loopVars, term, fileVars, hostVars, uploaded, fwVars>>
  /\ UNCHANGED <<srv, nat, hd, logOpen, delivered, missed>>

(* os.WriteFile can fail after it created the file.                        *)
WriteSentinel(name, next) ==
  \/ files' = files \cup {name} /\ To(next)
  \/ files' \in {files, files \cup {name}} /\ CloseAndReturnError

WritePidFile ==
  /\ main = "pid"
  /\ WriteSentinel("pid", "ready")
  /\ UNCHANGED <<loopVars, term, ready, hostVars, uploaded, fwVars, dnsVars>>

(* A slip: written under a temporary name that is never renamed.           *)
WriteReadyFileTemp ==
  /\ main = "ready"
  /\ WriteSentinel("ready.tmp", "running")
  /\ ready' = IF attachRet = "ok" THEN "bpf=1" ELSE "bpf=0"
  /\ UNCHANGED <<loopVars, term, hostVars, uploaded, fwVars, dnsVars>>

WriteReadyFile ==
  /\ main = "ready"
  /\ WriteSentinel("ready", "running")
  /\ ready' = IF attachRet = "ok" THEN "bpf=1" ELSE "bpf=0"
  /\ UNCHANGED <<loopVars, term, hostVars, uploaded, fwVars, dnsVars>>

-----------------------------------------------------------------------------
(***************************************************************************)
(* From the signal to the exit.                                            *)
(***************************************************************************)
(* Later signals change nothing: the context is done.                      *)
Sigterm ==
  /\ ~ term /\ main \in StartPcs \cup {"running"}
  /\ term' = TRUE
  /\ UNCHANGED <<main, ctlVars, loopVars, fileVars, hostVars, uploaded>>
  /\ UNCHANGED <<fwVars, dnsVars>>

ContextDone ==
  /\ main = "running" /\ term
  /\ To("upload")
  /\ UNCHANGED <<loopVars, term, fileVars, hostVars, uploaded, fwVars, dnsVars>>

(* Upload reads the log as it is now.  Without an API there is nothing to  *)
(* do; after an error the agent closes all the same and exits 1.           *)
Upload ==
  /\ main = "upload"
  /\ \/ policy.local /\ UNCHANGED <<uploaded, closeErr>>
     \/ ~ policy.local /\ uploaded' = logged /\ UNCHANGED closeErr
     \/ ~ policy.local /\ closeErr' = TRUE /\ UNCHANGED uploaded
  /\ main' = "closeDocker"
  /\ cause' = "term"
  /\ UNCHANGED <<code, loopVars, term, fileVars, hostVars, fwVars, dnsVars>>

(* Disable does nothing unless Enable succeeded.                           *)
CloseDockerDns ==
  /\ main = "closeDocker"
  /\ \/ docker # "ours" /\ UNCHANGED <<docker, leaked, closeErr>>
     \/ docker = "ours" /\ docker' = "orig" /\ UNCHANGED <<leaked, closeErr>>
     \/ /\ docker = "ours"
        /\ docker' \in {"ours", "damaged"}
        /\ leaked' = leaked \cup {"docker"}
        /\ closeErr' = TRUE
  /\ main' = "closeRedirect"
  /\ UNCHANGED <<cause, code, loopVars, term, fileVars, backend, sudoers>>
  /\ UNCHANGED <<uploaded, fwVars, dnsVars>>

(* A slip: the error of Remove is dropped, like that of DetachFirewall.    *)
CloseRedirectQuietly ==
  /\ main = "closeRedirect"
  /\ IF backend
     THEN nat' \in SUBSET nat /\ leaked' = (leaked \ Nets) \cup nat'
     ELSE UNCHANGED <<nat, leaked>>
  /\ To("closeDns")
  /\ UNCHANGED <<loopVars, term, fileVars, backend, docker, sudoers>>
  /\ UNCHANGED <<uploaded, fwVars, srv, hd, logOpen, logged, delivered, missed>>

(* Remove deletes both rules whether or not Enable succeeded; a rule that  *)
(* is not there need not be an error.                                      *)
CloseRedirect ==
  /\ main = "closeRedirect"
  /\ IF backend
     THEN /\ nat' \in SUBSET nat
          /\ leaked' = (leaked \ Nets) \cup nat'
          /\ closeErr' \in {closeErr \/ nat' # {}, TRUE}
     ELSE UNCHANGED <<nat, leaked, closeErr>>
  /\ main' = "closeDns"
  /\ UNCHANGED <<cause, code, loopVars, term, fileVars, backend, docker, sudoers>>
  /\ UNCHANGED <<uploaded, fwVars, srv, hd, logOpen, logged, delivered, missed>>

CloseDns ==
  /\ main = "closeDns"
  /\ BeginShutdown
  /\ closeErr' = (closeErr \/ ~ ShutdownStarted)
  /\ main' = "closingDns"
  /\ UNCHANGED <<cause, code, loopVars, term, fileVars, hostVars, uploaded, fwVars>>

(* A slip: Close waits for a UDP server whether or not there is one.       *)
CloseDnsEndWaits ==
  /\ main = "closingDns"
  /\ EndShutdown
  /\ To("closeFirewall")
  /\ UNCHANGED <<loopVars, term, fileVars, hostVars, uploaded, fwVars>>

CloseDnsEnd ==
  /\ main = "closingDns"
  /\ IF srv["udp"] = "closing" THEN EndShutdown ELSE UNCHANGED dnsVars
  /\ To("closeFirewall")
  /\ UNCHANGED <<loopVars, term, fileVars, hostVars, uploaded, fwVars>>

CloseFirewall ==
  /\ main = "closeFirewall"
  /\ DetachFirewall
  /\ To("closingFirewall")
  /\ UNCHANGED <<loopVars, term, fileVars, hostVars, uploaded, dnsVars>>
CloseFirewallEnd ==
  /\ main = "closingFirewall"
  /\ MuFree
  /\ To("closeSudo")
  /\ UNCHANGED <<loopVars, term, fileVars, hostVars, uploaded, fwVars, dnsVars>>

(* Disable drops the error of os.Remove.                                   *)
CloseSudo ==
  /\ main = "closeSudo"
  /\ \/ sudoers' = FALSE /\ UNCHANGED leaked
     \/ sudoers /\ leaked' = leaked \cup {"sudoers"} /\ UNCHANGED sudoers
  /\ To("closeLog")
  /\ UNCHANGED <<loopVars, term, fileVars, backend, docker, uploaded>>
  /\ UNCHANGED <<fwVars, dnsVars>>

CloseLog ==
  /\ main = "closeLog"
  /\ logOpen' = FALSE
  /\ closeErr' \in {closeErr, TRUE}
  /\ main' = "closeFiles"
  /\ UNCHANGED <<cause, code, loopVars, term, fileVars, hostVars, uploaded>>
  /\ UNCHANGED <<srv, nat, hd, logged, delivered, missed, fwVars>>

(* Close returns to Start, which still writes the failure file, or to      *)
(* runStart, which exits.                                                  *)
CloseFiles ==
  /\ main = "closeFiles"
  /\ files' = files \ {"ready", "pid", "status"}
  /\ IF cause = "term"
     THEN Exit(IF closeErr THEN 1 ELSE 0)
     ELSE main' = "fail" /\ UNCHANGED code
  /\ UNCHANGED <<cause, closeErr, loopVars, term, ready, hostVars, uploaded>>
  /\ UNCHANGED <<fwVars, dnsVars>>

WriteFail ==
  /\ main = "fail"
  /\ files' = files \cup {"failure"}
  /\ Exit(1)
  /\ UNCHANGED <<cause, closeErr, loopVars, term, ready, hostVars, uploaded>>
  /\ UNCHANGED <<fwVars, dnsVars>>

MainStep ==
  \/ MakeRunDir \/ LoadPolicy \/ OpenLog \/ EnableSudoLockdown \/ StartDns
  \/ EnableRedirect \/ EnableDockerDns \/ CallAttach \/ AttachReturned
  \/ AllowCidr \/ AllowCidrsEnd \/ SeedSocket \/ SeedEnd
  \/ ResolveHost \/ AllowResolved \/ ResolveEnd
  \/ WritePidFile \/ WriteReadyFile \/ ContextDone \/ Upload
  \/ CloseDockerDns \/ CloseRedirect \/ CloseDns \/ CloseDnsEnd
  \/ CloseFirewall \/ CloseFirewallEnd \/ CloseSudo \/ CloseLog
  \/ CloseFiles \/ WriteFail

(* The exit takes every goroutine with it; only the host's own state       *)
(* stays.  The last disjunct is the agent that has exited.                 *)
Running == main # "exited"
FirewallStep == Running /\ FwStep /\ UNCHANGED <<dnsVars, mainVars>>
DnsStep == Running /\ DnsNext /\ UNCHANGED mainVars
Terminated == ~ Running /\ UNCHANGED vars

Next ==
  \/ MainStep
  \/ Sigterm
  \/ SeedUpstream
  \/ FirewallStep
  \/ DnsStep
  \/ Terminated

(* The scheduler runs every goroutine that can run.  No fairness for       *)
(* signals and new queries, nor for a binding server.                      *)
Spec ==
  /\ Init /\ [][Next]_vars
  /\ WF_vars(MainStep)
  /\ WF_vars(FirewallStep)
  /\ \A h \in Handlers :
       WF_vars(Running /\ HandlerStep(h) /\ UNCHANGED mainVars)
-----------------------------------------------------------------------------
(* Types of the main goroutine's state and of what it takes from the host. *)
TypeOK ==
  /\ main \in MainPcs
  /\ cause \in StartPcs \cup {"none", "term"}
  /\ code \in 0 .. 2
  /\ closeErr \in BOOLEAN /\ term \in BOOLEAN
  /\ files \subseteq FileNames
  /\ ready \in {"none", "bpf=0", "bpf=1"}
  /\ backend \in BOOLEAN /\ sudoers \in BOOLEAN
  /\ docker \in {"orig", "ours", "damaged"}
  /\ leaked \subseteq Nets \cup {"docker", "sudoers"}
  /\ uploaded \subseteq logged

Skipped(rule) == \E e \in logged : e.rule = rule

(* From the ready file to the shutdown, a policy that enforces or that     *)
(* requires BPF has its egress hook attached, and the payload of the ready *)
(* file tells the truth: "bpf=1" with the firewall up, "bpf=0" only when   *)
(* the policy can do without and the skipped attach is in the log.         *)
ReadyIsHonest ==
  main \in {"running", "upload"} =>
    /\ policy.mode = "ENFORCE" \/ policy.requireBpf => loaded /\ EgressLive
    /\ ready = "bpf=1" => loaded /\ EgressLive
    /\ ready = "bpf=0" =>
         /\ ~ loaded
         /\ Skipped("bpf_attach_skipped")

(* A failed DockerDNS.Enable was reported and cut short by its write: the  *)
(* file is damaged and, enabled being false, Disable leaves it so.         *)
DockerDamaged == docker = "damaged" /\ Skipped("docker_dns_skipped")

(* Whatever fails on the way up or down, an agent that has exited leaves   *)
(* no hook, no DNAT rule, no daemon.json but the one it found, no sudoers  *)
(* drop-in, no open log and no ready file.  There are three exceptions:    *)
(* what the host refused to release, a daemon.json damaged by a failed     *)
(* Enable that the log reports as skipped, and the drop-in of a lockdown   *)
(* that failed half way and so ended Start.                                *)
NothingLeftBehind ==
  main = "exited" =>
    /\ live \subseteq stuck
    /\ nat \subseteq leaked
    /\ docker # "orig" => "docker" \in leaked \/ DockerDamaged
    /\ sudoers => "sudoers" \in leaked \/ cause = "sudo"
    /\ ~ logOpen
    /\ "ready" \notin files

(* Exit code 0 means the log was uploaded (where there is an API) and that *)
(* names resolve on the host as they did before the agent, except that a   *)
(* daemon.json damaged by a failed Enable does not make the code 1.        *)
ExitZeroIsClean ==
  code = 0 =>
    /\ policy.local \/ uploaded # {}
    /\ nat = {}
    /\ docker # "orig" => DockerDamaged
    /\ "failure" \notin files

(* Once Start has cleared the sentinels of earlier runs, wait-ready never  *)
(* sees both, and a failed Start always ends with the failure file alone   *)
(* (unless their directory could not be made).                             *)
SentinelsAreExclusive ==
  main \notin {"mkdir", "loadPolicy"} /\ cause # "mkdir" =>
    /\ ~ {"ready", "failure"} \subseteq files
    /\ main = "exited" => ("failure" \in files <=> cause # "term")

(* Outside monitor mode no client ever gets an address for a name that a   *)
(* denied pattern matches or no allowed pattern does.                      *)
DeniedNeverDelivered ==
  ~ Monitoring => \A d \in delivered : Decide(d.host).Allow

(* While the log is open, every address a client got was preceded by a log *)
(* line with the decision, also for the names monitor mode lets through.   *)
DeliveredIsLogged ==
  logOpen =>
    \A d \in delivered : \E e \in logged :
      /\ e.host = d.host
      /\ e.action = IF Decide(d.host).Allow THEN "ALLOW" ELSE "MONITOR_DENY"

(* The firewall is opened before the answer is sent: while it is loaded,   *)
(* the address of every delivered answer has its entry, unless the map is  *)
(* full or the handler came by before the firewall was loaded.             *)
AnswersAreOpened ==
  loaded =>
    \A d \in delivered :
      \/ d.addr \in missed
      \/ Entry(HostKey(Unmap(d.addr))) \in allow
      \/ MapFull(Unmap(d.addr).family)

ResolvedFor(n) == {Entry(HostKey(Unmap(a))) : a \in UNION Zone[n]}

(* Every entry of the allow maps has a reason, outside monitor mode: a     *)
(* CIDR of the policy, a socket that was open, the upstream of an exchange *)
(* under way, a listed host, or an answer for a name the policy allows.    *)
GrantsHaveReasons ==
  ~ Monitoring =>
    allow \subseteq
      {Entry(PrefixKey(c)) : c \in policy.cidrs}
        \cup {Entry(HostKey(ProcAddress(a))) : a \in Sockets \cup {Upstream}}
        \cup (UNION {ResolvedFor(n) : n \in HostsToResolve})
        \cup (UNION {ResolvedFor(n) : n \in {m \in Names : Decide(m).Allow}})

(* The agent uses the firewall package the way Firewall's own              *)
(* specification says: each of its steps is a step of that module or       *)
(* leaves the firewall alone.                                              *)
FirewallBehaviour == FwInit /\ [][FwNext]_fwVars

(* Start comes to an end, with a running agent or an exit.                 *)
StartReturns == main = "mkdir" ~> main \in {"running", "exited"}

(* After a signal the agent exits, whatever its handlers are doing.        *)
StopCompletes == term ~> main = "exited"

(* Every query a server has accepted is dealt with, or the agent exits.    *)
QueriesEnd ==
  \A h \in Handlers : hd[h].pc # "idle" ~> hd[h].pc = "idle" \/ main = "exited"

-----------------------------------------------------------------------------
(***************************************************************************)
(* What comments and tests of the repository say of the running agent.     *)
(***************************************************************************)
(* runtime.go: "Ready only after DNS is up".                               *)
ReadyAfterDnsUp == main = "running" => srv["udp"] = "up"

(* proxy.go: "a local DNS forwarder": a forwarded query gets to the        *)
(* upstream resolver.                                                      *)
ForwardsReachUpstream == \A h \in Handlers : hd[h].pc = "wait" => hd[h].sent
=============================================================================
