----------------------------- MODULE Lifecycle -----------------------------
(***************************************************************************)
(* Several runs of `censor start` on one host, with `censor stop` and      *)
(* `censor wait-ready` beside them.  They share the log with its flock,    *)
(* the sentinel files, the DNAT rules, docker's daemon.json, the sudoers   *)
(* drop-in and the tc filter of the egress hook.  A run can be killed at   *)
(* any step, and what it changed then stays for the next one.  The steps   *)
(* of a single run are in Agent in more detail: here a step is one change  *)
(* of what the processes share, and the signal is the one of `stop`.  A    *)
(* file is the set of what is in it, and empty when it is not there.       *)
(***************************************************************************)
EXTENDS Naturals

CONSTANTS
  Agents,     \* runs of `censor start`, each with a pid of its own
  Setups,     \* the values setup can have
  MaxFaults   \* bound: runs that are killed and commands that fail

ASSUME SetupsAssumption == Setups \subseteq [asked : SUBSET Agents, tcx : BOOLEAN]
ASSUME FaultsAssumption == MaxFaults \in Nat

VARIABLES
  pc,       \* where each run is in Start, in running or in Close
  term,     \* SIGTERM or SIGINT has arrived
  mem,      \* what each run remembers of the changes it has made
  file,     \* the sentinel files
  host,     \* the rest of what the runs share
  stop,     \* the `censor stop` process
  wait,     \* the `censor wait-ready` process
  faults,   \* runs killed and commands failed so far
  stale,    \* history: the runs that were over when the last Start began
  setup     \* asked: runs that are to lock sudo down and to redirect DNS;
            \* tcx: the kernel knows TCX, whose links die with their process

vars == <<pc, term, mem, file, host, stop, wait, faults, stale, setup>>

Over == {"over", "killed"}
Starting ==
  {"policy", "open", "flock", "sudo", "redirect", "docker", "attach", "pid", "ready"}
Closing ==
  {"closeDocker", "closeRedirect", "closeFirewall", "closeSudo", "closeLog",
   "closeFiles"}
Pcs == {"off", "running", "fail"} \cup Starting \cup Closing \cup Over

(* The runs that hold the flock are at one of these steps.                 *)
Locked ==
  {"sudo", "redirect", "docker", "attach", "pid", "ready", "running"}
    \cup (Closing \ {"closeFiles"})

Alive == {a \in Agents : pc[a] \notin {"off"} \cup Over}

(* The fields of Runtime and of what it points to, and as history: what    *)
(* was found when the lock was taken, whether a change went wrong half way *)
(* or could not be taken back, and which runs were alive when the status   *)
(* that is uploaded was written.                                           *)
Fresh ==
  [lock |-> FALSE, backend |-> FALSE, installed |-> FALSE,
   docker |-> FALSE, backup |-> "orig",
   filter |-> FALSE, failing |-> FALSE,
   found |-> [nat |-> 0, daemon |-> "orig", dropIn |-> FALSE, filter |-> {}],
   spoiled |-> FALSE, status |-> {}]

Init ==
  /\ pc = [a \in Agents |-> "off"]
  /\ term = [a \in Agents |-> FALSE]
  /\ mem = [a \in Agents |-> Fresh]
  /\ file = [ready |-> {}, failure |-> {}, pid |-> {}, status |-> {}]
  /\ host = [log |-> {}, flock |-> {}, nat |-> 0, daemon |-> "orig",
             dropIn |-> FALSE, filter |-> {}]
  /\ stop = [pc |-> "idle", pid |-> {}]
  /\ wait = "over"
  /\ faults = 0
  /\ stale = {}
  /\ setup \in Setups

Go(a, next) == pc' = [pc EXCEPT ![a] = next]
Others == <<term, stop, wait, stale, setup>>

Works == UNCHANGED faults
Fails == faults < MaxFaults /\ faults' = faults + 1
-----------------------------------------------------------------------------
(***************************************************************************)
(* Start.                                                                  *)
(***************************************************************************)
(* Slips: Start forgets one of the files of an earlier run.                *)
BeginKeeps(a, cleared) ==
  /\ pc[a] = "off"
  /\ file' = cleared
  /\ stale' = {b \in Agents : pc[b] \in Over}
  /\ Go(a, "policy")
  /\ UNCHANGED <<term, mem, host, stop, wait, faults, setup>>
BeginKeepsFailure(a) == BeginKeeps(a, [file EXCEPT !.ready = {}, !.status = {}])
BeginKeepsStatus(a) == BeginKeeps(a, [file EXCEPT !.ready = {}, !.failure = {}])
(* The pid file of an earlier run stays.                                   *)
Begin(a) ==
  /\ pc[a] = "off"
  /\ file' = [file EXCEPT !.ready = {}, !.failure = {}, !.status = {}]
  /\ stale' = {b \in Agents : pc[b] \in Over}
  /\ Go(a, "policy")
  /\ UNCHANGED <<term, mem, host, stop, wait, faults, setup>>

LoadPolicy(a) ==
  /\ pc[a] = "policy"
  /\ \/ Works /\ Go(a, "open")
     \/ Fails /\ Go(a, "fail")
  /\ UNCHANGED <<mem, file, host, Others>>

(* OpenFile truncates the log, and Chmod can fail after that.              *)
OpenFile(a) ==
  /\ pc[a] = "open"
  /\ \/ Works /\ Go(a, "flock") /\ host' = [host EXCEPT !.log = {}]
     \/ Fails /\ Go(a, "fail") /\ \E l \in {host.log, {}} : host' = [host EXCEPT !.log = l]
  /\ UNCHANGED <<mem, file, Others>>

(* What the run that takes the lock finds on the host.                     *)
Found ==
  [nat |-> host.nat, daemon |-> host.daemon, dropIn |-> host.dropIn,
   filter |-> host.filter]

(* A slip: the error of Flock is dropped.                                  *)
FlockIgnored(a) ==
  /\ pc[a] = "flock"
  /\ host' = [host EXCEPT !.flock = {a}]
  /\ mem' = [mem EXCEPT ![a].found = Found]
  /\ Works /\ Go(a, "sudo")
  /\ UNCHANGED <<file, Others>>
Flock(a) ==
  /\ pc[a] = "flock"
  /\ \/ /\ host.flock = {}
        /\ host' = [host EXCEPT !.flock = {a}]
        /\ mem' = [mem EXCEPT ![a].found = Found]
        /\ Go(a, "sudo")
     \/ host.flock # {} /\ Go(a, "fail") /\ UNCHANGED <<host, mem>>
  /\ Works
  /\ UNCHANGED <<file, Others>>

(* Not asked for, done, or failed before or after the drop-in was written; *)
(* then only the log is closed.                                            *)
EnableSudo(a) ==
  /\ pc[a] = "sudo"
  /\ \/ a \notin setup.asked /\ Works /\ Go(a, "redirect") /\ UNCHANGED <<mem, host>>
     \/ /\ a \in setup.asked /\ Works
        /\ host' = [host EXCEPT !.dropIn = TRUE]
        /\ mem' = [mem EXCEPT ![a].lock = TRUE]
        /\ Go(a, "redirect")
     \/ /\ a \in setup.asked /\ Fails
        /\ \E written \in {host.dropIn, TRUE} :
             host' = [host EXCEPT !.dropIn = written, !.flock = {}]
        /\ Go(a, "fail")
        /\ UNCHANGED mem
  /\ UNCHANGED <<file, Others>>

(* iptables -A appends a rule beside an equal one, -D deletes one of them. *)
Deleted(n) == IF n = 0 THEN 0 ELSE n - 1

(* Not asked for; done; no iptables; or a rule is refused: Remove deletes  *)
(* what it finds, or its deletion fails as well.  The rule of one protocol *)
(* stands for both.                                                        *)
EnableRedirect(a) ==
  /\ pc[a] = "redirect"
  /\ \/ a \notin setup.asked /\ Works /\ UNCHANGED <<host, mem>>
     \/ /\ a \in setup.asked /\ Works
        /\ host' = [host EXCEPT !.nat = @ + 1]
        /\ mem' = [mem EXCEPT ![a] = [@ EXCEPT !.backend = TRUE, !.installed = TRUE]]
     \/ a \in setup.asked /\ Fails /\ UNCHANGED <<host, mem>>
     \/ /\ a \in setup.asked /\ Fails
        /\ \E n \in {host.nat + 1, host.nat, Deleted(host.nat)} :
             host' = [host EXCEPT !.nat = n]
        /\ mem' = [mem EXCEPT ![a].backend = TRUE]
  /\ Go(a, "docker")
  /\ UNCHANGED <<file, Others>>

(* A slip: the backup is read after the file was written.                  *)
EnableDockerBackupLate(a) ==
  /\ pc[a] = "docker"
  /\ host' = [host EXCEPT !.daemon = "ours"]
  /\ mem' = [mem EXCEPT ![a] = [@ EXCEPT !.docker = TRUE, !.backup = "ours"]]
  /\ Works /\ Go(a, "attach")
  /\ UNCHANGED <<file, Others>>
(* The backup is what was there, even if an earlier run had written it.  A *)
(* failure leaves the file alone or cuts it short.                         *)
EnableDocker(a) ==
  /\ pc[a] = "docker"
  /\ \/ a \notin setup.asked /\ Works /\ UNCHANGED <<host, mem>>
     \/ /\ a \in setup.asked /\ Works
        /\ host' = [host EXCEPT !.daemon = "ours"]
        /\ mem' = [mem EXCEPT ![a] = [@ EXCEPT !.docker = TRUE, !.backup = host.daemon]]
     \/ /\ a \in setup.asked /\ Fails
        /\ \E d \in {host.daemon, "damaged"} :
             /\ host' = [host EXCEPT !.daemon = d]
             /\ mem' = [mem EXCEPT ![a].spoiled = d # host.daemon]
  /\ Go(a, "attach")
  /\ UNCHANGED <<file, Others>>

CloseAndFail(a) ==
  /\ Fails
  /\ Go(a, "closeDocker")
  /\ mem' = [mem EXCEPT ![a].failing = TRUE]

(* With TCX, or with a filter when there is no TCX or it failed, which     *)
(* takes the place of a killed run's.  A failed attach may have put up a   *)
(* filter and taken it down again, or not; it is fatal or not by the       *)
(* policy.  There is a log line in any case.                               *)
Attach(a) ==
  LET Logged(filter) == [host EXCEPT !.log = @ \cup {a}, !.filter = filter] IN
  /\ pc[a] = "attach"
  /\ \/ /\ setup.tcx /\ Works /\ Go(a, "pid")
        /\ host' = Logged(host.filter)
        /\ UNCHANGED mem
     \/ /\ (IF setup.tcx THEN Fails ELSE Works) /\ Go(a, "pid")
        /\ host' = Logged({a})
        /\ mem' = [mem EXCEPT ![a].filter = TRUE]
     \/ /\ Fails
        /\ \E f \in {host.filter, {}, {a}}, fatal \in BOOLEAN :
             /\ host' = Logged(f)
             /\ Go(a, IF fatal THEN "closeDocker" ELSE "pid")
             /\ mem' = [mem EXCEPT ![a] =
                          [@ EXCEPT !.failing = fatal,
                                    !.spoiled = mem[a].spoiled \/ f = {a}]]
  /\ UNCHANGED <<file, Others>>

WritePidFile(a) ==
  /\ pc[a] = "pid"
  /\ \/ Works /\ Go(a, "ready") /\ file' = [file EXCEPT !.pid = {a}] /\ UNCHANGED mem
     \/ CloseAndFail(a) /\ UNCHANGED file
  /\ UNCHANGED <<host, Others>>
WriteReadyFile(a) ==
  /\ pc[a] = "ready"
  /\ \/ Works /\ Go(a, "running") /\ file' = [file EXCEPT !.ready = {a}] /\ UNCHANGED mem
     \/ CloseAndFail(a) /\ UNCHANGED file
  /\ UNCHANGED <<host, Others>>

(* writeFail, the end of every failed Start.                               *)
WriteFail(a) ==
  /\ pc[a] = "fail"
  /\ \/ Works /\ file' = [file EXCEPT !.failure = {a}]
     \/ Fails /\ UNCHANGED file
  /\ Go(a, "over")
  /\ mem' = [mem EXCEPT ![a] = Fresh]
  /\ UNCHANGED <<host, Others>>
-----------------------------------------------------------------------------
(***************************************************************************)
(* From the signal to the end.                                             *)
(***************************************************************************)
(* A slip: the agent waits for a status to be written.                     *)
ShutdownStatusWaits(a) ==
  /\ pc[a] = "running" /\ term[a] /\ file.status # {}
  /\ mem' = [mem EXCEPT ![a].status = file.status]
  /\ Works /\ Go(a, "closeDocker")
  /\ UNCHANGED <<file, host, Others>>
(* The status of the upload is read; a blank file is like none.  Whether   *)
(* the upload succeeds makes no difference to what follows.                *)
ShutdownStatus(a) ==
  /\ pc[a] = "running" /\ term[a]
  /\ \E s \in {{}, file.status} : mem' = [mem EXCEPT ![a].status = s]
  /\ Works /\ Go(a, "closeDocker")
  /\ UNCHANGED <<file, host, Others>>

(* What Close does about a change: nothing unless it was made, the undoing *)
(* of it, or a failed attempt that can leave the host at one of these.     *)
Undo(a, made, undone, left) ==
  \/ ~ made /\ Works /\ UNCHANGED <<host, mem>>
  \/ made /\ Works /\ host' = undone /\ UNCHANGED mem
  \/ made /\ Fails /\ host' \in left /\ mem' = [mem EXCEPT ![a].spoiled = TRUE]

DisableDocker(a) ==
  /\ pc[a] = "closeDocker"
  /\ Undo(a, mem[a].docker, [host EXCEPT !.daemon = mem[a].backup],
          {host, [host EXCEPT !.daemon = "damaged"]})
  /\ Go(a, "closeRedirect")
  /\ UNCHANGED <<file, Others>>

RemoveRedirect(a) ==
  /\ pc[a] = "closeRedirect"
  /\ Undo(a, mem[a].backend, [host EXCEPT !.nat = Deleted(@)], {host})
  /\ Go(a, "closeFirewall")
  /\ UNCHANGED <<file, Others>>

(* FilterDel deletes what has the filter's handle.                         *)
DetachFirewall(a) ==
  /\ pc[a] = "closeFirewall"
  /\ Undo(a, mem[a].filter, [host EXCEPT !.filter = {}], {host})
  /\ Go(a, "closeSudo")
  /\ UNCHANGED <<file, Others>>

DisableSudo(a) ==
  /\ pc[a] = "closeSudo"
  /\ Undo(a, mem[a].lock, [host EXCEPT !.dropIn = FALSE], {host})
  /\ Go(a, "closeLog")
  /\ UNCHANGED <<file, Others>>

(* A slip: the lock is kept until the process ends.                        *)
CloseLogLate(a) ==
  /\ pc[a] = "closeLog"
  /\ Works /\ Go(a, "closeFiles")
  /\ UNCHANGED <<mem, file, host, Others>>
CloseLog(a) ==
  /\ pc[a] = "closeLog"
  /\ host' = [host EXCEPT !.flock = {}]
  /\ Works /\ Go(a, "closeFiles")
  /\ UNCHANGED <<mem, file, Others>>

(* The files go after the lock: they may be those of the next run.         *)
CloseFiles(a) ==
  /\ pc[a] = "closeFiles"
  /\ file' = [file EXCEPT !.ready = {}, !.pid = {}, !.status = {}]
  /\ \/ mem[a].failing /\ Go(a, "fail") /\ UNCHANGED mem
     \/ ~ mem[a].failing /\ Go(a, "over") /\ mem' = [mem EXCEPT ![a] = Fresh]
  /\ Works
  /\ UNCHANGED <<host, Others>>

AgentStep(a) ==
  \/ LoadPolicy(a) \/ OpenFile(a) \/ Flock(a) \/ EnableSudo(a)
  \/ EnableRedirect(a) \/ EnableDocker(a) \/ Attach(a)
  \/ WritePidFile(a) \/ WriteReadyFile(a) \/ WriteFail(a)
  \/ ShutdownStatus(a) \/ DisableDocker(a) \/ RemoveRedirect(a)
  \/ DetachFirewall(a) \/ DisableSudo(a) \/ CloseLog(a) \/ CloseFiles(a)

(* The kernel drops the flock and, with TCX, the hook.                     *)
Crash(a) ==
  /\ a \in Alive /\ Fails
  /\ Go(a, "killed")
  /\ host' = [host EXCEPT !.flock = @ \ {a}]
  /\ mem' = [mem EXCEPT ![a] = Fresh]
  /\ UNCHANGED <<file, Others>>
-----------------------------------------------------------------------------
(***************************************************************************)
(* `censor stop`, again and again: the status is written before the pid    *)
(* file is read.  A pid that is gone is an error and nothing else.         *)
(***************************************************************************)
WriteStatus ==
  /\ stop.pc = "idle"
  /\ file' = [file EXCEPT !.status = {Alive}]
  /\ stop' = [stop EXCEPT !.pc = "read"]
  /\ UNCHANGED <<pc, term, mem, host, wait, faults, stale, setup>>
ReadPid ==
  /\ stop.pc = "read"
  /\ stop' = IF file.pid = {} THEN [stop EXCEPT !.pc = "idle"]
             ELSE [pc |-> "kill", pid |-> file.pid]
  /\ UNCHANGED <<pc, term, mem, file, host, wait, faults, stale, setup>>
Kill ==
  /\ stop.pc = "kill"
  /\ term' = [a \in Agents |-> term[a] \/ a \in stop.pid \cap Alive]
  /\ stop' = [pc |-> "idle", pid |-> {}]
  /\ UNCHANGED <<pc, mem, file, host, wait, faults, stale, setup>>

(***************************************************************************)
(* `censor wait-ready`, again and again: in every round the failure file   *)
(* first, then the ready file.  It is over with exit code 1 when there is  *)
(* a failure or the time is up, and with 0 when there is a ready file.     *)
(***************************************************************************)
WaitReady ==
  /\ \/ wait = "over" /\ wait' = "failure"
     \/ wait = "failure" /\ wait' = "over"
     \/ wait = "failure" /\ file.failure = {} /\ wait' = "ready"
     \/ wait = "ready" /\ wait' = IF file.ready = {} THEN "failure" ELSE "over"
  /\ UNCHANGED <<pc, term, mem, file, host, stop, faults, stale, setup>>

Next ==
  \/ \E a \in Agents : Begin(a) \/ AgentStep(a) \/ Crash(a)
  \/ WriteStatus \/ ReadPid \/ Kill
  \/ WaitReady

Spec == Init /\ [][Next]_vars /\ \A a \in Agents : WF_vars(AgentStep(a))
-----------------------------------------------------------------------------
AtMostOne(S) == \A a, b \in S : a = b

(* Types; and the lock is held by the run that is between Flock and        *)
(* CloseLog, of which there is at most one.                                *)
LifeTypeOK ==
  /\ pc \in [Agents -> Pcs] /\ term \in [Agents -> BOOLEAN]
  /\ host.flock = {a \in Agents : pc[a] \in Locked}
  /\ AtMostOne(host.flock)
  /\ host.nat \in Nat /\ host.daemon \in {"orig", "ours", "damaged"}
  /\ \A f \in {file.ready, file.failure, file.pid, host.filter} :
       f \subseteq Agents /\ AtMostOne(f)

(* While a run is up, no other run that starts, fails, stops or is killed  *)
(* takes away what it has put on the host: its drop-in, its DNAT rule,     *)
(* its daemon.json and its filter.                                         *)
ProtectionHolds ==
  \A a \in Agents :
    pc[a] = "running" =>
      /\ mem[a].lock => host.dropIn
      /\ mem[a].installed => host.nat > 0
      /\ mem[a].docker => host.daemon = "ours"
      /\ mem[a].filter => host.filter = {a}

(* What a run gives back when it gives the lock back, unless a command     *)
(* that takes a change back has failed or a daemon.json was damaged.  The  *)
(* daemon.json is the one it found.  So are the DNAT rules, except that a  *)
(* run whose own rule was refused may have deleted rules of killed runs.   *)
(* The drop-in of a killed run is gone if this run locked sudo down as     *)
(* well, and otherwise still there.  A filter of this run is gone, with    *)
(* any it took the place of; and no filter is there that was not found.    *)
HostAsFound ==
  \A a \in Agents :
    LET found == mem[a].found IN
    pc[a] = "closeLog" /\ ~ mem[a].spoiled =>
      /\ host.daemon = found.daemon
      /\ \/ host.nat = found.nat
         \/ host.nat < found.nat /\ mem[a].backend /\ ~ mem[a].installed
      /\ host.dropIn = (found.dropIn /\ ~ mem[a].lock)
      /\ host.filter \subseteq found.filter
      /\ mem[a].filter => host.filter = {}

(* The status a run uploads was written while that run was up, never by a  *)
(* stop that was meant for an earlier one.                                 *)
StatusIsCurrent ==
  \A a \in Agents : \A s \in mem[a].status : a \in s

(* What wait-ready answers is not about a run that was over before the     *)
(* last Start began.                                                       *)
WaitIsFresh ==
  [][wait' = "over" =>
       /\ wait = "failure" => file.failure \cap stale = {}
       /\ wait = "ready" => file.ready \cap stale = {}]_vars

(* logger.go: "Logger writes exclusive protojson NDJSON AgentEvent lines." *)
(* The log of the run that holds the lock has its lines and no others.     *)
LogIsExclusive ==
  \A a \in host.flock :
    host.log = IF pc[a] \in {"sudo", "redirect", "docker", "attach"} THEN {} ELSE {a}

(* A run that is signalled comes to its end, whatever the others do.       *)
SignalledRunEnds == \A a \in Agents : term[a] ~> pc[a] \in Over
=============================================================================
