-------------------------- MODULE LifecycleProofs --------------------------
(***************************************************************************)
(* Proofs about Lifecycle, for any number of runs on a host, any number of *)
(* kills and failing commands, and every setup: the flock of the log keeps *)
(* the runs apart, so each finds on the host what it has put there and     *)
(* gives the host back as it was.                                          *)
(***************************************************************************)
EXTENDS Lifecycle, TLAPS

Daemons == {"orig", "ours", "damaged"}
FoundStates == [nat : Nat, daemon : Daemons, dropIn : BOOLEAN, filter : SUBSET Agents]
MemStates ==
  [lock : BOOLEAN, backend : BOOLEAN, installed : BOOLEAN, docker : BOOLEAN,
   backup : Daemons, filter : BOOLEAN, failing : BOOLEAN, found : FoundStates,
   spoiled : BOOLEAN, status : SUBSET SUBSET Agents]
HostStates ==
  [log : SUBSET Agents, flock : SUBSET Agents, nat : Nat, daemon : Daemons,
   dropIn : BOOLEAN, filter : SUBSET Agents]
FileStates ==
  [ready : SUBSET Agents, failure : SUBSET Agents, pid : SUBSET Agents,
   status : SUBSET SUBSET Agents]

(* The shape of the state.                                                 *)
ShapeInv ==
  /\ pc \in [Agents -> Pcs] /\ term \in [Agents -> BOOLEAN]
  /\ mem \in [Agents -> MemStates]
  /\ host \in HostStates
  /\ file \in FileStates

(* The lock is held by the run that is between Flock and CloseLog.         *)
LockInv ==
  /\ host.flock = {a \in Agents : pc[a] \in Locked}
  /\ AtMostOne(host.flock)

(* A sentinel file and the tc filter have one writer each.                 *)
WriterInv ==
  /\ AtMostOne(file.ready) /\ AtMostOne(file.failure) /\ AtMostOne(file.pid)
  /\ AtMostOne(host.filter)

(***************************************************************************)
(* What a run remembers of its changes, against the host.  Until it has    *)
(* the lock it has changed nothing.                                        *)
(***************************************************************************)
IdleInv(a) == pc[a] \in {"off", "policy", "open", "flock"} => mem[a] = Fresh

(* The DNAT rules are those the run found, and its own beside them.  A run *)
(* whose rule was refused has one of its own, none, or has deleted some of *)
(* the others; Remove deletes one more.                                    *)
NatInv(a) ==
  LET found == mem[a].found.nat IN
  /\ pc[a] \in {"sudo", "redirect"} =>
       host.nat = found /\ ~ mem[a].backend /\ ~ mem[a].installed
  /\ pc[a] \in {"docker", "attach", "pid", "ready", "running", "closeDocker",
                "closeRedirect"} =>
       /\ mem[a].installed => mem[a].backend /\ host.nat = found + 1
       /\ host.nat <= found + 1
       /\ ~ mem[a].backend => host.nat = found
  /\ pc[a] \in {"closeFirewall", "closeSudo", "closeLog"} /\ ~ mem[a].spoiled =>
       \/ host.nat = found
       \/ host.nat < found /\ mem[a].backend /\ ~ mem[a].installed

(* The backup is the file the run found, and the file is the run's own     *)
(* until it is put back.                                                   *)
DaemonInv(a) ==
  /\ pc[a] \in {"sudo", "redirect", "docker"} =>
       host.daemon = mem[a].found.daemon /\ ~ mem[a].docker /\ ~ mem[a].spoiled
  /\ pc[a] \in {"attach", "pid", "ready", "running", "closeDocker"} =>
       IF mem[a].docker
       THEN host.daemon = "ours" /\ mem[a].backup = mem[a].found.daemon
       ELSE mem[a].spoiled \/ host.daemon = mem[a].found.daemon
  /\ pc[a] \in {"closeRedirect", "closeFirewall", "closeSudo", "closeLog"} =>
       mem[a].spoiled \/ host.daemon = mem[a].found.daemon

(* The filter is the one the run found until Attach, and its own after it  *)
(* if it has one; then it goes with DetachFirewall.  A failed attach can   *)
(* take the found one away.                                                *)
FilterInv(a) ==
  /\ pc[a] \in {"sudo", "redirect", "docker", "attach"} =>
       host.filter = mem[a].found.filter /\ ~ mem[a].filter
  /\ pc[a] \in {"pid", "ready", "running", "closeDocker", "closeRedirect",
                "closeFirewall"} =>
       /\ mem[a].filter => host.filter = {a}
       /\ mem[a].filter \/ mem[a].spoiled \/ host.filter \subseteq mem[a].found.filter
  /\ pc[a] \in {"closeSudo", "closeLog"} /\ ~ mem[a].spoiled =>
       /\ host.filter \subseteq mem[a].found.filter
       /\ mem[a].filter => host.filter = {}

(* The drop-in is there while the run that asked for it holds the lock,    *)
(* and otherwise as it was found.                                          *)
DropInInv(a) ==
  LET found == mem[a].found.dropIn IN
  /\ pc[a] = "sudo" => host.dropIn = found /\ ~ mem[a].lock
  /\ pc[a] \in Locked \ {"closeLog"} =>
       /\ mem[a].lock => host.dropIn
       /\ ~ mem[a].lock => host.dropIn = found
  /\ pc[a] = "closeLog" =>
       /\ mem[a].lock /\ ~ mem[a].spoiled => ~ host.dropIn
       /\ ~ mem[a].lock => host.dropIn = found

RunInv(a) == IdleInv(a) /\ NatInv(a) /\ DaemonInv(a) /\ FilterInv(a) /\ DropInInv(a)

LifeInv == ShapeInv /\ LockInv /\ WriterInv /\ (\A a \in Agents : RunInv(a))

(* The status file was written when every run that is alive already was:   *)
(* Begin clears it.  Hence so was the status a run has read.               *)
StatusInv ==
  /\ \A s \in file.status : Alive \subseteq s
  /\ StatusIsCurrent

(* The runs that were over at the last Begin stay over, and the files that *)
(* wait-ready looks at are not theirs.                                     *)
StaleInv ==
  /\ \A b \in stale : b \in Agents /\ pc[b] \in Over
  /\ file.failure \cap stale = {}
  /\ file.ready \cap stale = {}
-----------------------------------------------------------------------------
(* Sets of at most one run.                                                *)
LEMMA AtMostOneFacts ==
  /\ AtMostOne({})
  /\ \A a : AtMostOne({a})
  /\ \A S, T : AtMostOne(S) /\ T \subseteq S => AtMostOne(T)
BY DEF AtMostOne

(* What a run remembers before it has done anything.                       *)
LEMMA FreshType == Fresh \in MemStates
BY DEF Fresh, MemStates, FoundStates, Daemons

(* Every change of what a run remembers keeps the types.                   *)
LEMMA MemUpdates ==
  ASSUME NEW m \in MemStates
  PROVE  /\ [m EXCEPT !.lock = TRUE] \in MemStates
         /\ \A f \in FoundStates : [m EXCEPT !.found = f] \in MemStates
         /\ [m EXCEPT !.backend = TRUE] \in MemStates
         /\ [m EXCEPT !.backend = TRUE, !.installed = TRUE] \in MemStates
         /\ \A d \in Daemons : [m EXCEPT !.docker = TRUE, !.backup = d] \in MemStates
         /\ [m EXCEPT !.filter = TRUE] \in MemStates
         /\ [m EXCEPT !.failing = TRUE] \in MemStates
         /\ \A b \in BOOLEAN : [m EXCEPT !.spoiled = b] \in MemStates
         /\ \A b, c \in BOOLEAN : [m EXCEPT !.failing = b, !.spoiled = c] \in MemStates
         /\ \A s \in SUBSET SUBSET Agents : [m EXCEPT !.status = s] \in MemStates
BY DEF MemStates

(* What a run finds has the types of the host.                             *)
LEMMA FoundType == ShapeInv => Found \in FoundStates
BY DEF ShapeInv, HostStates, FoundStates, Found

(* A step of a run keeps the types of what the runs remember.              *)
LEMMA MemStep ==
  ASSUME ShapeInv, NEW a \in Agents, Begin(a) \/ AgentStep(a) \/ Crash(a)
  PROVE  mem' \in [Agents -> MemStates]
<1>0. /\ mem \in [Agents -> MemStates] /\ mem[a] \in MemStates
      /\ host.nat \in Nat /\ host.daemon \in Daemons
      /\ file.status \in SUBSET SUBSET Agents
  BY DEF ShapeInv, HostStates, FileStates
<1>1. CASE Flock(a)
  <2>1. [mem[a] EXCEPT !.found = Found] \in MemStates
    BY <1>0, FoundType, MemUpdates
  <2> QED
    BY <1>0, <1>1, <2>1 DEF Flock
<1>2. CASE EnableSudo(a)
  <2>1. [mem[a] EXCEPT !.lock = TRUE] \in MemStates
    BY <1>0, MemUpdates
  <2> QED
    BY <1>0, <1>2, <2>1 DEF EnableSudo
<1>3. CASE EnableRedirect(a)
  <2>1. /\ [mem[a] EXCEPT !.backend = TRUE] \in MemStates
        /\ [mem[a] EXCEPT !.backend = TRUE, !.installed = TRUE] \in MemStates
    BY <1>0, MemUpdates
  <2> QED
    BY <1>0, <1>3, <2>1 DEF EnableRedirect
<1>4. CASE EnableDocker(a)
  <2>1. [mem[a] EXCEPT !.docker = TRUE, !.backup = host.daemon] \in MemStates
    BY <1>0, MemUpdates
  <2>2. \A d : [mem[a] EXCEPT !.spoiled = d # host.daemon] \in MemStates
    BY <1>0, MemUpdates
  <2> QED
    BY <1>0, <1>4, <2>1, <2>2 DEF EnableDocker
<1>5. CASE WritePidFile(a) \/ WriteReadyFile(a)
  <2>1. [mem[a] EXCEPT !.failing = TRUE] \in MemStates
    BY <1>0, MemUpdates
  <2> QED
    BY <1>0, <1>5, <2>1 DEF WritePidFile, WriteReadyFile, CloseAndFail
<1>11. CASE Attach(a)
  <2>1. [mem[a] EXCEPT !.filter = TRUE] \in MemStates
    BY <1>0, MemUpdates
  <2>2. ASSUME NEW f, NEW fatal \in BOOLEAN
        PROVE  [mem[a] EXCEPT !.failing = fatal,
                              !.spoiled = mem[a].spoiled \/ f = {a}] \in MemStates
    <3>1. (mem[a].spoiled \/ f = {a}) \in BOOLEAN
      OBVIOUS
    <3> QED
      BY <1>0, <3>1, MemUpdates
  <2>3. \/ mem' = mem
        \/ mem' = [mem EXCEPT ![a] = [mem[a] EXCEPT !.filter = TRUE]]
        \/ \E f \in {host.filter, {}, {a}}, fatal \in BOOLEAN :
             mem' = [mem EXCEPT ![a] =
                       [mem[a] EXCEPT !.failing = fatal,
                                      !.spoiled = mem[a].spoiled \/ f = {a}]]
    BY <1>11 DEF Attach
  <2>4. \/ mem' = mem
        \/ \E m \in MemStates : mem' = [mem EXCEPT ![a] = m]
    BY <2>1, <2>2, <2>3
  <2> QED
    BY <1>0, <2>4
<1>6. CASE WriteFail(a) \/ CloseFiles(a) \/ Crash(a)
  BY <1>0, <1>6, FreshType DEF WriteFail, CloseFiles, Crash
<1>7. CASE ShutdownStatus(a)
  <2>1. \A s \in {{}, file.status} : [mem[a] EXCEPT !.status = s] \in MemStates
    BY <1>0, MemUpdates
  <2> QED
    BY <1>0, <1>7, <2>1 DEF ShutdownStatus
<1>8. ASSUME NEW made, NEW undone, NEW left, Undo(a, made, undone, left)
      PROVE  mem' \in [Agents -> MemStates]
  <2>1. [mem[a] EXCEPT !.spoiled = TRUE] \in MemStates
    BY <1>0, MemUpdates
  <2> QED
    BY <1>0, <1>8, <2>1 DEF Undo
<1>9. CASE DisableDocker(a) \/ RemoveRedirect(a) \/ DetachFirewall(a) \/ DisableSudo(a)
  BY <1>8, <1>9 DEF DisableDocker, RemoveRedirect, DetachFirewall, DisableSudo
<1>10. CASE Begin(a) \/ LoadPolicy(a) \/ OpenFile(a) \/ CloseLog(a)
  BY <1>0, <1>10 DEF Begin, LoadPolicy, OpenFile, CloseLog
<1> QED
  BY <1>1, <1>2, <1>3, <1>4, <1>5, <1>6, <1>7, <1>9, <1>10, <1>11 DEF AgentStep

(* The host keeps its types.                                               *)
LEMMA HostStep ==
  ASSUME ShapeInv, NEW a \in Agents, Begin(a) \/ AgentStep(a) \/ Crash(a)
  PROVE  host' \in HostStates
<1>0. host \in HostStates /\ mem[a] \in MemStates
  BY DEF ShapeInv
<1> USE <1>0 DEF HostStates
<1>1. CASE OpenFile(a)
  BY <1>1 DEF OpenFile
<1>2. CASE Flock(a)
  BY <1>2 DEF Flock
<1>3. CASE EnableSudo(a)
  BY <1>3 DEF EnableSudo
<1>4. CASE EnableRedirect(a)
  BY <1>4 DEF EnableRedirect, Deleted
<1>5. CASE EnableDocker(a)
  BY <1>5 DEF EnableDocker, Daemons
<1>6. CASE Attach(a)
  <2>1. \A F \in SUBSET Agents :
          [host EXCEPT !.log = @ \cup {a}, !.filter = F] \in HostStates
    OBVIOUS
  <2>2. \E F \in {host.filter, {}, {a}} :
          host' = [host EXCEPT !.log = @ \cup {a}, !.filter = F]
    BY <1>6 DEF Attach
  <2>3. {host.filter, {}, {a}} \subseteq SUBSET Agents
    OBVIOUS
  <2> HIDE DEF HostStates
  <2> QED
    BY <2>1, <2>2, <2>3
<1>7. CASE DisableDocker(a)
  BY <1>7 DEF DisableDocker, Undo, MemStates, Daemons
<1>8. CASE RemoveRedirect(a)
  BY <1>8 DEF RemoveRedirect, Undo, Deleted
<1>9. CASE DetachFirewall(a) \/ DisableSudo(a)
  BY <1>9 DEF DetachFirewall, DisableSudo, Undo
<1>10. CASE CloseLog(a) \/ Crash(a)
  BY <1>10 DEF CloseLog, Crash
<1>11. CASE \/ Begin(a) \/ LoadPolicy(a) \/ WritePidFile(a) \/ WriteReadyFile(a)
            \/ WriteFail(a) \/ ShutdownStatus(a) \/ CloseFiles(a)
  BY <1>11 DEF Begin, LoadPolicy, WritePidFile, WriteReadyFile, WriteFail,
       ShutdownStatus, CloseFiles
<1> QED
  BY <1>1, <1>2, <1>3, <1>4, <1>5, <1>6, <1>7, <1>8, <1>9, <1>10, <1>11 DEF AgentStep

(* A run is always at a known step, and the sentinel files have types.     *)
LEMMA ControlStep ==
  ASSUME ShapeInv, NEW a \in Agents, Begin(a) \/ AgentStep(a) \/ Crash(a)
  PROVE  pc' \in [Agents -> Pcs] /\ term' = term /\ file' \in FileStates
<1>0. pc \in [Agents -> Pcs] /\ file \in FileStates
  BY DEF ShapeInv
<1>1. ASSUME NEW next \in Pcs, Go(a, next) PROVE pc' \in [Agents -> Pcs]
  BY <1>0, <1>1 DEF Go
<1>2. pc' \in [Agents -> Pcs]
  <2>1. \E next \in Pcs : Go(a, next)
    BY DEF Begin, AgentStep, LoadPolicy, OpenFile, Flock, EnableSudo, EnableRedirect,
         EnableDocker, Attach, WritePidFile, WriteReadyFile, CloseAndFail, WriteFail,
         ShutdownStatus, DisableDocker, RemoveRedirect, DetachFirewall, DisableSudo,
         CloseLog, CloseFiles, Crash, Pcs, Starting, Closing, Over
  <2> QED
    BY <1>1, <2>1
<1>3. term' = term
  BY DEF Others, Begin, AgentStep, LoadPolicy, OpenFile, Flock, EnableSudo, EnableRedirect,
       EnableDocker, Attach, WritePidFile, WriteReadyFile, WriteFail,
       ShutdownStatus, DisableDocker, RemoveRedirect, DetachFirewall, DisableSudo,
       CloseLog, CloseFiles, Crash
<1>4. file' \in FileStates
  <2>1. CASE Begin(a)
    BY <1>0, <2>1 DEF Begin, FileStates
  <2>2. CASE WritePidFile(a) \/ WriteReadyFile(a) \/ WriteFail(a) \/ CloseFiles(a)
    <3>1. /\ [file EXCEPT !.pid = {a}] \in FileStates
          /\ [file EXCEPT !.ready = {a}] \in FileStates
          /\ [file EXCEPT !.failure = {a}] \in FileStates
          /\ [file EXCEPT !.ready = {}, !.pid = {}, !.status = {}] \in FileStates
      BY <1>0 DEF FileStates
    <3> QED
      BY <1>0, <2>2, <3>1 DEF WritePidFile, WriteReadyFile, WriteFail, CloseFiles
  <2>3. CASE \/ LoadPolicy(a) \/ OpenFile(a) \/ Flock(a) \/ EnableSudo(a)
             \/ EnableRedirect(a) \/ EnableDocker(a) \/ Attach(a)
             \/ ShutdownStatus(a) \/ DisableDocker(a) \/ RemoveRedirect(a)
             \/ DetachFirewall(a) \/ DisableSudo(a) \/ CloseLog(a) \/ Crash(a)
    BY <1>0, <2>3 DEF LoadPolicy, OpenFile, Flock, EnableSudo, EnableRedirect,
         EnableDocker, Attach, ShutdownStatus, DisableDocker, RemoveRedirect,
         DetachFirewall, DisableSudo, CloseLog, Crash
  <2> QED
    BY <2>1, <2>2, <2>3 DEF AgentStep
<1> QED
  BY <1>2, <1>3, <1>4

(* `stop` and `wait-ready` write the status file and send signals.         *)
LEMMA CommandsKeepShape ==
  ASSUME ShapeInv, WriteStatus \/ ReadPid \/ Kill \/ WaitReady
  PROVE  /\ ShapeInv'
         /\ UNCHANGED <<pc, mem, host, stale>>
         /\ file' = file \/ file' = [file EXCEPT !.status = {Alive}]
<1>1. CASE WriteStatus
  <2>1. Alive \subseteq Agents
    BY DEF Alive
  <2>2. file' = [file EXCEPT !.status = {Alive}] /\ UNCHANGED <<pc, term, mem, host, stale>>
    BY <1>1 DEF WriteStatus
  <2>3. file' \in FileStates
    BY <2>1, <2>2 DEF ShapeInv, FileStates
  <2> QED
    BY <2>2, <2>3 DEF ShapeInv
<1>2. CASE ReadPid \/ WaitReady
  BY <1>2 DEF ReadPid, WaitReady, ShapeInv
<1>3. CASE Kill
  <2>1. term' \in [Agents -> BOOLEAN]
    BY <1>3, Zenon DEF Kill
  <2> QED
    BY <1>3, <2>1 DEF Kill, ShapeInv
<1> QED
  BY <1>1, <1>2, <1>3

(* Every step keeps the shape of the state.                                *)
LEMMA ShapeStep == ShapeInv /\ [Next]_vars => ShapeInv'
<1> SUFFICES ASSUME ShapeInv, [Next]_vars PROVE ShapeInv'
  OBVIOUS
<1>1. ASSUME NEW a \in Agents, Begin(a) \/ AgentStep(a) \/ Crash(a)
      PROVE  ShapeInv'
  BY <1>1, MemStep, HostStep, ControlStep DEF ShapeInv
<1>2. CASE WriteStatus \/ ReadPid \/ Kill \/ WaitReady
  BY <1>2, CommandsKeepShape
<1>3. CASE UNCHANGED vars
  BY <1>3 DEF ShapeInv, vars
<1> QED
  BY <1>1, <1>2, <1>3 DEF Next

-----------------------------------------------------------------------------
(***************************************************************************)
(* The lock.                                                               *)
(***************************************************************************)
(* A step of one run leaves the others where they are.                     *)
LEMMA OthersStay ==
  ASSUME ShapeInv, NEW a \in Agents, NEW b \in Agents \ {a},
         Begin(a) \/ AgentStep(a) \/ Crash(a)
  PROVE  pc'[b] = pc[b] /\ mem'[b] = mem[b]
<1>0. pc \in [Agents -> Pcs] /\ mem \in [Agents -> MemStates]
  BY DEF ShapeInv
<1>1. pc'[b] = pc[b]
  BY <1>0 DEF Go, Begin, AgentStep, LoadPolicy, OpenFile, Flock, EnableSudo, EnableRedirect,
       EnableDocker, Attach, WritePidFile, WriteReadyFile, CloseAndFail, WriteFail,
       ShutdownStatus, DisableDocker, RemoveRedirect, DetachFirewall, DisableSudo,
       CloseLog, CloseFiles, Crash
<1>2. mem'[b] = mem[b]
  BY <1>0 DEF Begin, AgentStep, LoadPolicy, OpenFile, Flock, EnableSudo, EnableRedirect,
       EnableDocker, Attach, WritePidFile, WriteReadyFile, CloseAndFail, WriteFail,
       ShutdownStatus, DisableDocker, RemoveRedirect, DetachFirewall, DisableSudo,
       CloseLog, CloseFiles, Crash, Undo
<1> QED
  BY <1>1, <1>2

(* What a step does to the lock: it is taken when it is free, given back   *)
(* by the run that has it, or left alone.                                  *)
LEMMA LockMoves ==
  ASSUME ShapeInv, NEW a \in Agents, Begin(a) \/ AgentStep(a) \/ Crash(a)
  PROVE  \/ host'.flock = host.flock /\ (pc'[a] \in Locked <=> pc[a] \in Locked)
         \/ host.flock = {} /\ host'.flock = {a} /\ pc'[a] \in Locked
         \/ host'.flock = {} /\ pc[a] \in Locked /\ pc'[a] \notin Locked
         \/ host'.flock = host.flock \ {a} /\ pc'[a] \notin Locked
<1>0. pc \in [Agents -> Pcs] /\ host \in HostStates
  BY DEF ShapeInv
<1> USE <1>0 DEF Go, Locked, Closing, HostStates
<1>1. CASE Begin(a) \/ LoadPolicy(a)
  BY <1>1 DEF Begin, LoadPolicy
<1>2. CASE OpenFile(a)
  BY <1>2 DEF OpenFile
<1>3. CASE Flock(a)
  BY <1>3 DEF Flock
<1>4. CASE EnableSudo(a)
  BY <1>4 DEF EnableSudo
<1>5. CASE EnableRedirect(a)
  BY <1>5 DEF EnableRedirect
<1>6. CASE EnableDocker(a)
  BY <1>6 DEF EnableDocker
<1>7. CASE Attach(a)
  BY <1>7 DEF Attach, CloseAndFail
<1>8. CASE WritePidFile(a) \/ WriteReadyFile(a) \/ WriteFail(a) \/ ShutdownStatus(a)
  BY <1>8 DEF WritePidFile, WriteReadyFile, WriteFail, CloseAndFail, ShutdownStatus, Over
<1>9. CASE DisableDocker(a) \/ RemoveRedirect(a)
  BY <1>9 DEF DisableDocker, RemoveRedirect, Undo
<1>10. CASE DetachFirewall(a) \/ DisableSudo(a)
  BY <1>10 DEF DetachFirewall, DisableSudo, Undo
<1>11. CASE CloseLog(a)
  BY <1>11 DEF CloseLog
<1>12. CASE CloseFiles(a)
  BY <1>12 DEF CloseFiles, Over
<1>13. CASE Crash(a)
  BY <1>13 DEF Crash, Over
<1> QED
  BY <1>1, <1>2, <1>3, <1>4, <1>5, <1>6, <1>7, <1>8, <1>9, <1>10, <1>11, <1>12,
     <1>13 DEF AgentStep

(* Hence at most one run has it, also when others are killed.              *)
LEMMA LockStep ==
  ASSUME ShapeInv, LockInv, NEW a \in Agents, Begin(a) \/ AgentStep(a) \/ Crash(a)
  PROVE  LockInv'
<1>1. \A b \in Agents \ {a} : pc'[b] = pc[b]
  BY OthersStay
<1>2. \A b \in Agents : b \in host.flock <=> pc[b] \in Locked
  BY DEF LockInv
<1>3. CASE host'.flock = host.flock /\ (pc'[a] \in Locked <=> pc[a] \in Locked)
  BY <1>1, <1>3 DEF LockInv
<1>4. CASE host.flock = {} /\ host'.flock = {a} /\ pc'[a] \in Locked
  BY <1>1, <1>2, <1>4 DEF LockInv, AtMostOne
<1>5. CASE host'.flock = {} /\ pc[a] \in Locked /\ pc'[a] \notin Locked
  BY <1>1, <1>2, <1>5 DEF LockInv, AtMostOne
<1>6. CASE host'.flock = host.flock \ {a} /\ pc'[a] \notin Locked
  BY <1>1, <1>2, <1>6 DEF LockInv, AtMostOne
<1> QED
  BY <1>3, <1>4, <1>5, <1>6, LockMoves

(* A sentinel file names its last writer, the filter its last owner.       *)
LEMMA WriterStep ==
  ASSUME ShapeInv, WriterInv, NEW a \in Agents, Begin(a) \/ AgentStep(a) \/ Crash(a)
  PROVE  WriterInv'
<1>0. file \in FileStates /\ host \in HostStates
  BY DEF ShapeInv
<1>1. /\ file'.ready \in {file.ready, {}, {a}}
      /\ file'.failure \in {file.failure, {}, {a}}
      /\ file'.pid \in {file.pid, {}, {a}}
  <2> USE <1>0 DEF FileStates
  <2>1. CASE Begin(a)
    BY <2>1 DEF Begin
  <2>2. CASE WritePidFile(a) \/ WriteReadyFile(a)
    BY <2>2 DEF WritePidFile, WriteReadyFile
  <2>3. CASE WriteFail(a) \/ CloseFiles(a)
    BY <2>3 DEF WriteFail, CloseFiles
  <2>4. CASE \/ LoadPolicy(a) \/ OpenFile(a) \/ Flock(a) \/ EnableSudo(a)
             \/ EnableRedirect(a) \/ EnableDocker(a) \/ Attach(a)
             \/ ShutdownStatus(a) \/ DisableDocker(a) \/ RemoveRedirect(a)
             \/ DetachFirewall(a) \/ DisableSudo(a) \/ CloseLog(a) \/ Crash(a)
    BY <2>4 DEF LoadPolicy, OpenFile, Flock, EnableSudo, EnableRedirect,
         EnableDocker, Attach, ShutdownStatus, DisableDocker, RemoveRedirect,
         DetachFirewall, DisableSudo, CloseLog, Crash
  <2> QED
    BY <2>1, <2>2, <2>3, <2>4 DEF AgentStep
<1>2. host'.filter \in {host.filter, {}, {a}}
  <2> USE <1>0 DEF HostStates
  <2>1. CASE OpenFile(a) \/ Flock(a) \/ EnableSudo(a)
    BY <2>1 DEF OpenFile, Flock, EnableSudo
  <2>2. CASE EnableRedirect(a) \/ EnableDocker(a)
    BY <2>2 DEF EnableRedirect, EnableDocker
  <2>3. CASE Attach(a)
    BY <2>3 DEF Attach
  <2>4. CASE DisableDocker(a) \/ RemoveRedirect(a) \/ DetachFirewall(a) \/ DisableSudo(a)
    BY <2>4 DEF DisableDocker, RemoveRedirect, DetachFirewall, DisableSudo, Undo
  <2>5. CASE CloseLog(a) \/ Crash(a)
    BY <2>5 DEF CloseLog, Crash
  <2>6. CASE \/ Begin(a) \/ LoadPolicy(a) \/ WritePidFile(a) \/ WriteReadyFile(a)
             \/ WriteFail(a) \/ ShutdownStatus(a) \/ CloseFiles(a)
    BY <2>6 DEF Begin, LoadPolicy, WritePidFile, WriteReadyFile, WriteFail,
         ShutdownStatus, CloseFiles
  <2> QED
    BY <2>1, <2>2, <2>3, <2>4, <2>5, <2>6 DEF AgentStep
<1> QED
  BY <1>1, <1>2, AtMostOneFacts DEF WriterInv

-----------------------------------------------------------------------------
(***************************************************************************)
(* What the lock protects.                                                 *)
(***************************************************************************)
(* While a run has the lock, no step of another changes the host, except   *)
(* that it may truncate the log.                                           *)
LEMMA LockProtects ==
  ASSUME ShapeInv, LockInv, NEW a \in Agents, NEW b \in Agents \ {a},
         pc[b] \in Locked, Begin(a) \/ AgentStep(a) \/ Crash(a)
  PROVE  /\ host'.nat = host.nat /\ host'.daemon = host.daemon
         /\ host'.dropIn = host.dropIn /\ host'.filter = host.filter
<1>0. host \in HostStates
  BY DEF ShapeInv
<1>1. b \in host.flock /\ pc[a] \notin Locked
  BY DEF LockInv, AtMostOne
<1> USE <1>0, <1>1 DEF HostStates
<1>2. CASE OpenFile(a)
  BY <1>2 DEF OpenFile
<1>3. CASE Flock(a)
  BY <1>3 DEF Flock
<1>4. CASE Crash(a)
  BY <1>4 DEF Crash
<1>5. CASE \/ Begin(a) \/ LoadPolicy(a) \/ WriteFail(a) \/ CloseFiles(a)
  BY <1>5 DEF Begin, LoadPolicy, WriteFail, CloseFiles
<1>6. CASE \/ EnableSudo(a) \/ EnableRedirect(a) \/ EnableDocker(a) \/ Attach(a)
           \/ WritePidFile(a) \/ WriteReadyFile(a) \/ ShutdownStatus(a)
           \/ DisableDocker(a) \/ RemoveRedirect(a) \/ DetachFirewall(a)
           \/ DisableSudo(a) \/ CloseLog(a)
  <2>1. pc[a] \in Locked
    BY <1>6 DEF EnableSudo, EnableRedirect, EnableDocker, Attach, WritePidFile,
         WriteReadyFile, ShutdownStatus, DisableDocker, RemoveRedirect,
         DetachFirewall, DisableSudo, CloseLog, Locked, Closing
  <2> QED
    BY <2>1
<1> QED
  BY <1>2, <1>3, <1>4, <1>5, <1>6 DEF AgentStep

(* So what another run has put on the host stays as that run remembers it. *)
LEMMA OthersKeepRun ==
  ASSUME ShapeInv, LockInv, NEW a \in Agents, NEW b \in Agents \ {a},
         Begin(a) \/ AgentStep(a) \/ Crash(a), RunInv(b)
  PROVE  RunInv(b)'
<1>1. pc'[b] = pc[b] /\ mem'[b] = mem[b]
  BY OthersStay
<1>2. CASE pc[b] \in Locked
  <2>1. /\ host'.nat = host.nat /\ host'.daemon = host.daemon
        /\ host'.dropIn = host.dropIn /\ host'.filter = host.filter
    BY <1>2, LockProtects
  <2> QED
    BY <1>1, <2>1 DEF RunInv, IdleInv, NatInv, DaemonInv, FilterInv, DropInInv
<1>3. CASE pc[b] \notin Locked
  BY <1>1, <1>3 DEF RunInv, IdleInv, NatInv, DaemonInv, FilterInv, DropInInv,
       Locked, Closing
<1> QED
  BY <1>2, <1>3

(* The effects of three steps that change the host, field by field.        *)
LEMMA RedirectEffect ==
  ASSUME ShapeInv, NEW a \in Agents, EnableRedirect(a),
         host.nat = mem[a].found.nat, ~ mem[a].backend, ~ mem[a].installed
  PROVE  /\ pc[a] = "redirect" /\ pc'[a] = "docker"
         /\ host'.daemon = host.daemon /\ host'.filter = host.filter
         /\ host'.dropIn = host.dropIn
         /\ \E b, i \in BOOLEAN :
              /\ mem'[a] = [mem[a] EXCEPT !.backend = b, !.installed = i]
              /\ host'.nat <= mem[a].found.nat + 1
              /\ i => b /\ host'.nat = mem[a].found.nat + 1
              /\ ~ b => host'.nat = mem[a].found.nat
<1>0. /\ host \in HostStates /\ mem[a] \in MemStates
      /\ pc \in [Agents -> Pcs] /\ mem \in [Agents -> MemStates]
  BY DEF ShapeInv
<1>1. pc[a] = "redirect" /\ pc'[a] = "docker"
  BY <1>0 DEF EnableRedirect, Go
<1>2. \/ host' = host
      \/ \E n \in {host.nat + 1, host.nat, Deleted(host.nat)} :
           host' = [host EXCEPT !.nat = n]
  BY DEF EnableRedirect
<1>3. /\ host'.daemon = host.daemon /\ host'.filter = host.filter
      /\ host'.dropIn = host.dropIn
  BY <1>0, <1>2 DEF HostStates
<1>4. host.nat \in Nat /\ Deleted(host.nat) <= host.nat
  BY <1>0 DEF HostStates, Deleted
<1>5. CASE mem' = mem /\ host' = host
  <2>1. mem'[a] = [mem[a] EXCEPT !.backend = FALSE, !.installed = FALSE]
    BY <1>0, <1>5 DEF MemStates
  <2>2. host'.nat <= mem[a].found.nat + 1 /\ host'.nat = mem[a].found.nat
    BY <1>4, <1>5
  <2> QED
    BY <1>1, <1>3, <2>1, <2>2, Zenon
<1>6. CASE /\ host' = [host EXCEPT !.nat = @ + 1]
           /\ mem' = [mem EXCEPT ![a] = [@ EXCEPT !.backend = TRUE, !.installed = TRUE]]
  <2>1. host'.nat = mem[a].found.nat + 1
    BY <1>0, <1>6 DEF HostStates
  <2>2. mem'[a] = [mem[a] EXCEPT !.backend = TRUE, !.installed = TRUE]
    BY <1>0, <1>6
  <2>3. host'.nat <= mem[a].found.nat + 1
    BY <1>4, <2>1
  <2> QED
    BY <1>1, <1>3, <2>1, <2>2, <2>3, Zenon
<1>7. CASE /\ \E n \in {host.nat + 1, host.nat, Deleted(host.nat)} :
                host' = [host EXCEPT !.nat = n]
           /\ mem' = [mem EXCEPT ![a] = [@ EXCEPT !.backend = TRUE]]
  <2>0. PICK n \in {host.nat + 1, host.nat, Deleted(host.nat)} :
          host' = [host EXCEPT !.nat = n]
    BY <1>7
  <2>1. host'.nat <= mem[a].found.nat + 1
    <3>1. host'.nat = n
      BY <1>0, <2>0 DEF HostStates
    <3> QED
      BY <1>4, <3>1 DEF Deleted
  <2>2. mem'[a] = [mem[a] EXCEPT !.backend = TRUE, !.installed = FALSE]
    BY <1>0, <1>7 DEF MemStates
  <2> QED
    BY <1>1, <1>3, <2>1, <2>2, Zenon
<1> QED
  BY <1>5, <1>6, <1>7 DEF EnableRedirect

(* EnableDocker: the run's own file, or the file found and perhaps spoiled.*)
LEMMA DockerEffect ==
  ASSUME ShapeInv, NEW a \in Agents, EnableDocker(a)
  PROVE  /\ pc[a] = "docker" /\ pc'[a] = "attach"
         /\ host'.nat = host.nat /\ host'.filter = host.filter
         /\ host'.dropIn = host.dropIn
         /\ \/ mem'[a] = mem[a] /\ host'.daemon = host.daemon
            \/ /\ mem'[a] = [mem[a] EXCEPT !.docker = TRUE, !.backup = host.daemon]
               /\ host'.daemon = "ours"
            \/ \E b \in BOOLEAN :
                 /\ mem'[a] = [mem[a] EXCEPT !.spoiled = b]
                 /\ b \/ host'.daemon = host.daemon
<1>0. /\ host \in HostStates /\ mem[a] \in MemStates
      /\ pc \in [Agents -> Pcs] /\ mem \in [Agents -> MemStates]
  BY DEF ShapeInv
<1>1. pc[a] = "docker" /\ pc'[a] = "attach"
  BY <1>0 DEF EnableDocker, Go
<1>2. host' = host \/ \E d \in {"ours", host.daemon, "damaged"} :
                        host' = [host EXCEPT !.daemon = d]
  BY DEF EnableDocker
<1>3. /\ host'.nat = host.nat /\ host'.filter = host.filter
      /\ host'.dropIn = host.dropIn
  BY <1>0, <1>2 DEF HostStates
<1>4. CASE mem' = mem /\ host' = host
  BY <1>1, <1>3, <1>4
<1>5. CASE /\ host' = [host EXCEPT !.daemon = "ours"]
           /\ mem' = [mem EXCEPT ![a] = [@ EXCEPT !.docker = TRUE, !.backup = host.daemon]]
  <2>1. host'.daemon = "ours"
    BY <1>0, <1>5 DEF HostStates
  <2> QED
    BY <1>0, <1>1, <1>3, <1>5, <2>1
<1>6. ASSUME NEW d \in {host.daemon, "damaged"},
             host' = [host EXCEPT !.daemon = d],
             mem' = [mem EXCEPT ![a].spoiled = d # host.daemon]
      PROVE  \E b \in BOOLEAN :
               /\ mem'[a] = [mem[a] EXCEPT !.spoiled = b]
               /\ b \/ host'.daemon = host.daemon
  <2>1. host'.daemon = d
    BY <1>0, <1>6 DEF HostStates
  <2>2. mem'[a] = [mem[a] EXCEPT !.spoiled = d # host.daemon]
    BY <1>0, <1>6
  <2> WITNESS (d # host.daemon) \in BOOLEAN
  <2> QED
    BY <2>1, <2>2
<1> QED
  BY <1>1, <1>3, <1>4, <1>5, <1>6 DEF EnableDocker

(* Attach: the filter stays as it was, is the run's own and remembered,    *)
(* or has gone; a filter that stays without being remembered is noted.     *)
LEMMA AttachEffect ==
  ASSUME ShapeInv, NEW a \in Agents, Attach(a)
  PROVE  /\ pc[a] = "attach" /\ pc'[a] \in {"pid", "closeDocker"}
         /\ host'.nat = host.nat /\ host'.daemon = host.daemon
         /\ host'.dropIn = host.dropIn
         /\ \/ mem'[a] = mem[a] /\ host'.filter = host.filter
            \/ mem'[a] = [mem[a] EXCEPT !.filter = TRUE] /\ host'.filter = {a}
            \/ \E b, c \in BOOLEAN :
                 /\ mem'[a] = [mem[a] EXCEPT !.failing = b, !.spoiled = c]
                 /\ mem[a].spoiled => c
                 /\ c \/ host'.filter \in {host.filter, {}}
<1>0. /\ host \in HostStates /\ mem[a] \in MemStates
      /\ pc \in [Agents -> Pcs] /\ mem \in [Agents -> MemStates]
  BY DEF ShapeInv
<1>1. pc[a] = "attach" /\ pc'[a] \in {"pid", "closeDocker"}
  BY <1>0 DEF Attach, Go
<1>2. \E F : host' = [host EXCEPT !.log = @ \cup {a}, !.filter = F]
  BY DEF Attach
<1>3. /\ host'.nat = host.nat /\ host'.daemon = host.daemon
      /\ host'.dropIn = host.dropIn
  BY <1>0, <1>2 DEF HostStates
<1>4. ASSUME NEW F, host' = [host EXCEPT !.log = @ \cup {a}, !.filter = F]
      PROVE  host'.filter = F
  BY <1>0, <1>4 DEF HostStates
<1>5. CASE mem' = mem /\ host' = [host EXCEPT !.log = @ \cup {a}, !.filter = host.filter]
  BY <1>1, <1>3, <1>4, <1>5
<1>6. CASE /\ mem' = [mem EXCEPT ![a].filter = TRUE]
           /\ host' = [host EXCEPT !.log = @ \cup {a}, !.filter = {a}]
  BY <1>0, <1>1, <1>3, <1>4, <1>6
<1>7. ASSUME NEW f \in {host.filter, {}, {a}}, NEW fatal \in BOOLEAN,
             host' = [host EXCEPT !.log = @ \cup {a}, !.filter = f],
             mem' = [mem EXCEPT ![a] =
                       [@ EXCEPT !.failing = fatal,
                                 !.spoiled = mem[a].spoiled \/ f = {a}]]
      PROVE  \E b, c \in BOOLEAN :
               /\ mem'[a] = [mem[a] EXCEPT !.failing = b, !.spoiled = c]
               /\ mem[a].spoiled => c
               /\ c \/ host'.filter \in {host.filter, {}}
  <2>1. host'.filter = f
    BY <1>4, <1>7
  <2>2. mem'[a] = [mem[a] EXCEPT !.failing = fatal,
                                 !.spoiled = mem[a].spoiled \/ f = {a}]
    BY <1>0, <1>7
  <2> WITNESS fatal \in BOOLEAN, (mem[a].spoiled \/ f = {a}) \in BOOLEAN
  <2> QED
    BY <2>1, <2>2
<1>8. \/ mem' = mem /\ host' = [host EXCEPT !.log = @ \cup {a}, !.filter = host.filter]
      \/ /\ mem' = [mem EXCEPT ![a].filter = TRUE]
         /\ host' = [host EXCEPT !.log = @ \cup {a}, !.filter = {a}]
      \/ \E f \in {host.filter, {}, {a}}, fatal \in BOOLEAN :
           /\ host' = [host EXCEPT !.log = @ \cup {a}, !.filter = f]
           /\ mem' = [mem EXCEPT ![a] =
                        [@ EXCEPT !.failing = fatal,
                                  !.spoiled = mem[a].spoiled \/ f = {a}]]
  BY DEF Attach
<1> QED
  BY <1>1, <1>3, <1>5, <1>6, <1>7, <1>8

(* And each step of a run keeps what it remembers in line with the host.   *)
LEMMA OwnStepKeepsRun ==
  ASSUME ShapeInv, NEW a \in Agents, RunInv(a), Begin(a) \/ AgentStep(a) \/ Crash(a)
  PROVE  RunInv(a)'
<1>0. /\ host \in HostStates /\ mem[a] \in MemStates
      /\ pc \in [Agents -> Pcs] /\ mem \in [Agents -> MemStates]
  BY DEF ShapeInv
<1> USE <1>0 DEF Go, HostStates, MemStates, RunInv, IdleInv, NatInv, DaemonInv,
      FilterInv, DropInInv, Locked, Closing
<1>1. CASE Begin(a)
  BY <1>1 DEF Begin
<1>2. CASE LoadPolicy(a)
  BY <1>2 DEF LoadPolicy
<1>3. CASE OpenFile(a)
  BY <1>3 DEF OpenFile
<1>4. CASE Flock(a)
  <2>1. mem[a] = Fresh
    BY <1>4 DEF Flock
  <2>2. CASE pc'[a] = "fail"
    BY <2>2
  <2>3. CASE pc'[a] # "fail"
    <3>1. /\ pc'[a] = "sudo"
          /\ mem'[a] = [mem[a] EXCEPT !.found = Found]
          /\ host'.nat = host.nat /\ host'.daemon = host.daemon
          /\ host'.dropIn = host.dropIn /\ host'.filter = host.filter
      BY <1>4, <2>3 DEF Flock
    <3>2. /\ mem'[a].found.nat = host.nat /\ mem'[a].found.daemon = host.daemon
          /\ mem'[a].found.dropIn = host.dropIn /\ mem'[a].found.filter = host.filter
      BY <3>1 DEF Found
    <3>3. /\ ~ mem'[a].lock /\ ~ mem'[a].backend /\ ~ mem'[a].installed
          /\ ~ mem'[a].docker /\ ~ mem'[a].filter /\ ~ mem'[a].spoiled
      BY <2>1, <3>1 DEF Fresh
    <3> QED
      BY <3>1, <3>2, <3>3
  <2> QED
    BY <2>2, <2>3
<1>5. CASE EnableSudo(a)
  BY <1>5 DEF EnableSudo
<1>6. CASE EnableRedirect(a)
  <2>1. host.nat = mem[a].found.nat /\ ~ mem[a].backend /\ ~ mem[a].installed
    BY <1>6 DEF EnableRedirect
  <2> HIDE DEF RunInv, IdleInv, NatInv, DaemonInv, FilterInv, DropInInv
  <2>2. PICK b, i \in BOOLEAN :
          /\ mem'[a] = [mem[a] EXCEPT !.backend = b, !.installed = i]
          /\ host'.nat <= mem[a].found.nat + 1
          /\ i => b /\ host'.nat = mem[a].found.nat + 1
          /\ ~ b => host'.nat = mem[a].found.nat
    BY <1>6, <2>1, RedirectEffect
  <2>3. /\ pc[a] = "redirect" /\ pc'[a] = "docker"
        /\ host'.daemon = host.daemon /\ host'.filter = host.filter
        /\ host'.dropIn = host.dropIn
    BY <1>6, <2>1, RedirectEffect
  <2>4. IdleInv(a)' /\ NatInv(a)'
    BY <2>2, <2>3 DEF IdleInv, NatInv
  <2>5. DaemonInv(a)' /\ FilterInv(a)' /\ DropInInv(a)'
    BY <2>2, <2>3 DEF RunInv, DaemonInv, FilterInv, DropInInv
  <2> QED
    BY <2>4, <2>5 DEF RunInv
<1>7. CASE EnableDocker(a)
  <2>1. host.daemon = mem[a].found.daemon /\ ~ mem[a].docker /\ ~ mem[a].spoiled
    BY <1>7 DEF EnableDocker
  <2> HIDE DEF RunInv, IdleInv, NatInv, DaemonInv, FilterInv, DropInInv
  <2>2. /\ pc[a] = "docker" /\ pc'[a] = "attach"
        /\ host'.nat = host.nat /\ host'.filter = host.filter
        /\ host'.dropIn = host.dropIn
    BY <1>7, DockerEffect
  <2>3. \/ mem'[a] = mem[a] /\ host'.daemon = host.daemon
        \/ /\ mem'[a] = [mem[a] EXCEPT !.docker = TRUE, !.backup = host.daemon]
           /\ host'.daemon = "ours"
        \/ \E b \in BOOLEAN :
             /\ mem'[a] = [mem[a] EXCEPT !.spoiled = b]
             /\ b \/ host'.daemon = host.daemon
    BY <1>7, DockerEffect
  <2>4. DaemonInv(a)'
    BY <2>1, <2>2, <2>3 DEF DaemonInv
  <2>5. /\ mem'[a].lock = mem[a].lock /\ mem'[a].backend = mem[a].backend
        /\ mem'[a].installed = mem[a].installed
        /\ mem'[a].filter = mem[a].filter /\ mem'[a].found = mem[a].found
    BY <2>3
  <2>6. IdleInv(a)' /\ NatInv(a)'
    BY <2>2, <2>5 DEF RunInv, IdleInv, NatInv
  <2>7. FilterInv(a)' /\ DropInInv(a)'
    BY <2>2, <2>5 DEF RunInv, FilterInv, DropInInv
  <2> QED
    BY <2>4, <2>6, <2>7 DEF RunInv
<1>8. CASE Attach(a)
  <2>1. ~ mem[a].filter
    BY <1>8 DEF Attach
  <2> HIDE DEF RunInv, IdleInv, NatInv, DaemonInv, FilterInv, DropInInv
  <2>2. /\ pc[a] = "attach" /\ pc'[a] \in {"pid", "closeDocker"}
        /\ host'.nat = host.nat /\ host'.daemon = host.daemon
        /\ host'.dropIn = host.dropIn
    BY <1>8, AttachEffect
  <2>3. \/ mem'[a] = mem[a] /\ host'.filter = host.filter
        \/ mem'[a] = [mem[a] EXCEPT !.filter = TRUE] /\ host'.filter = {a}
        \/ \E b, c \in BOOLEAN :
             /\ mem'[a] = [mem[a] EXCEPT !.failing = b, !.spoiled = c]
             /\ mem[a].spoiled => c
             /\ c \/ host'.filter \in {host.filter, {}}
    BY <1>8, AttachEffect
  <2>4. /\ mem'[a].lock = mem[a].lock /\ mem'[a].backend = mem[a].backend
        /\ mem'[a].installed = mem[a].installed /\ mem'[a].docker = mem[a].docker
        /\ mem'[a].backup = mem[a].backup /\ mem'[a].found = mem[a].found
        /\ mem[a].spoiled => mem'[a].spoiled
    BY <2>3
  <2>5. IdleInv(a)' /\ NatInv(a)'
    BY <2>2, <2>4 DEF RunInv, IdleInv, NatInv
  <2>6. DaemonInv(a)' /\ DropInInv(a)'
    BY <2>2, <2>4 DEF RunInv, DaemonInv, DropInInv
  <2>7. host.filter = mem[a].found.filter
    BY <2>2 DEF RunInv, FilterInv
  <2>8. FilterInv(a)'
    BY <2>1, <2>2, <2>3, <2>4, <2>7 DEF FilterInv
  <2> QED
    BY <2>5, <2>6, <2>8 DEF RunInv
<1>9. CASE WritePidFile(a)
  BY <1>9 DEF WritePidFile, CloseAndFail
<1>10. CASE WriteReadyFile(a)
  BY <1>10 DEF WriteReadyFile, CloseAndFail
<1>11. CASE WriteFail(a)
  BY <1>11 DEF WriteFail
<1>12. CASE ShutdownStatus(a)
  BY <1>12 DEF ShutdownStatus
<1>13. CASE DisableDocker(a)
  BY <1>13 DEF DisableDocker, Undo
<1>14. CASE RemoveRedirect(a)
  <2>1. /\ pc[a] = "closeRedirect" /\ pc'[a] = "closeFirewall"
        /\ host'.daemon = host.daemon /\ host'.filter = host.filter
        /\ host'.dropIn = host.dropIn
    BY <1>14 DEF RemoveRedirect, Undo
  <2>2. /\ mem'[a].lock = mem[a].lock /\ mem'[a].backend = mem[a].backend
        /\ mem'[a].installed = mem[a].installed /\ mem'[a].found = mem[a].found
        /\ mem'[a].filter = mem[a].filter
        /\ mem[a].spoiled => mem'[a].spoiled
    BY <1>14 DEF RemoveRedirect, Undo
  <2>3. \/ mem'[a].spoiled
        \/ ~ mem[a].backend /\ host'.nat = host.nat
        \/ mem[a].backend /\ host'.nat = Deleted(host.nat)
    BY <1>14 DEF RemoveRedirect, Undo
  <2>4. host.nat \in Nat /\ mem[a].found.nat \in Nat
    BY DEF FoundStates
  <2>5. NatInv(a)'
    BY <2>1, <2>2, <2>3, <2>4 DEF NatInv, Deleted
  <2> HIDE DEF NatInv
  <2> QED
    BY <2>1, <2>2, <2>5
<1>15. CASE DetachFirewall(a)
  BY <1>15 DEF DetachFirewall, Undo
<1>16. CASE DisableSudo(a)
  BY <1>16 DEF DisableSudo, Undo
<1>17. CASE CloseLog(a)
  BY <1>17 DEF CloseLog
<1>18. CASE CloseFiles(a)
  BY <1>18 DEF CloseFiles
<1>19. CASE Crash(a)
  BY <1>19 DEF Crash
<1> QED
  BY <1>1, <1>2, <1>3, <1>4, <1>5, <1>6, <1>7, <1>8, <1>9, <1>10, <1>11, <1>12, <1>13, <1>14, <1>15, <1>16, <1>17, <1>18, <1>19 DEF AgentStep

-----------------------------------------------------------------------------
(***************************************************************************)
(* The invariant and what follows from it.                                 *)
(***************************************************************************)
(* At first nothing has been changed.                                      *)
LEMMA LifeInvInit == Init => LifeInv
<1> SUFFICES ASSUME Init PROVE LifeInv
  OBVIOUS
<1>1. ShapeInv
  <2>1. file \in FileStates /\ host \in HostStates
    BY DEF Init, FileStates, HostStates, Daemons
  <2>2. pc \in [Agents -> Pcs] /\ mem \in [Agents -> MemStates]
    BY FreshType DEF Init, Pcs
  <2>3. term \in [Agents -> BOOLEAN]
    BY DEF Init
  <2> QED
    BY <2>1, <2>2, <2>3 DEF ShapeInv
<1>2. LockInv
  BY DEF Init, LockInv, AtMostOne, Locked, Closing
<1>3. WriterInv
  BY AtMostOneFacts DEF Init, WriterInv
<1>4. \A a \in Agents : RunInv(a)
  BY DEF Init, RunInv, IdleInv, NatInv, DaemonInv, FilterInv, DropInInv, Locked, Closing
<1> QED
  BY <1>1, <1>2, <1>3, <1>4 DEF LifeInv

(* Every step keeps it: the steps of runs by the lemmas above, `stop` and  *)
(* `wait-ready` because they only touch the status file and the signals.   *)
LEMMA LifeInvStep == LifeInv /\ [Next]_vars => LifeInv'
<1> SUFFICES ASSUME LifeInv, [Next]_vars PROVE LifeInv'
  OBVIOUS
<1>0. ShapeInv /\ ShapeInv'
  BY ShapeStep DEF LifeInv
<1>1. ASSUME NEW a \in Agents, Begin(a) \/ AgentStep(a) \/ Crash(a)
      PROVE  LifeInv'
  <2>1. LockInv' /\ WriterInv'
    BY <1>0, <1>1, LockStep, WriterStep DEF LifeInv
  <2>2. \A b \in Agents : RunInv(b)'
    BY <1>0, <1>1, OwnStepKeepsRun, OthersKeepRun DEF LifeInv
  <2> QED
    BY <1>0, <2>1, <2>2 DEF LifeInv
<1>2. ASSUME UNCHANGED <<pc, mem, host>>,
             file' = file \/ file' = [file EXCEPT !.status = {Alive}]
      PROVE  LifeInv'
  <2>1. file'.ready = file.ready /\ file'.failure = file.failure /\ file'.pid = file.pid
    BY <1>0, <1>2 DEF ShapeInv, FileStates
  <2>2. LockInv' /\ WriterInv'
    BY <1>2, <2>1 DEF LifeInv, LockInv, WriterInv
  <2>3. \A b \in Agents : RunInv(b)'
    BY <1>2 DEF LifeInv, RunInv, IdleInv, NatInv, DaemonInv, FilterInv, DropInInv
  <2> QED
    BY <1>0, <2>2, <2>3 DEF LifeInv
<1>3. CASE WriteStatus \/ ReadPid \/ Kill \/ WaitReady
  BY <1>0, <1>2, <1>3, CommandsKeepShape
<1>4. CASE UNCHANGED vars
  BY <1>2, <1>4 DEF vars
<1> QED
  BY <1>1, <1>3, <1>4 DEF Next

(* The invariant holds, for any number of runs, kills and failing commands.*)
THEOREM LifeInvariance == Spec => []LifeInv
BY LifeInvInit, LifeInvStep, PTL DEF Spec

(* The flock is held by the run that is between Flock and CloseLog, and by *)
(* no other, also after kills.                                             *)
THEOREM LockIsExclusive == Spec => []LifeTypeOK
<1>1. LifeInv => LifeTypeOK
  BY DEF LifeInv, LifeTypeOK, ShapeInv, LockInv, WriterInv, HostStates, FileStates,
       Daemons
<1> QED
  BY <1>1, LifeInvariance, PTL

(* No other run takes away the drop-in, the DNAT rule, the daemon.json or  *)
(* the filter of a run that is up.                                         *)
THEOREM ProtectionIsKept == Spec => []ProtectionHolds
<1>1. LifeInv => ProtectionHolds
  <2> SUFFICES ASSUME LifeInv, NEW a \in Agents, pc[a] = "running"
               PROVE  /\ mem[a].lock => host.dropIn
                      /\ mem[a].installed => host.nat > 0
                      /\ mem[a].docker => host.daemon = "ours"
                      /\ mem[a].filter => host.filter = {a}
    BY DEF ProtectionHolds
  <2>1. RunInv(a) /\ mem[a].found.nat \in Nat
    BY DEF LifeInv, ShapeInv, MemStates, FoundStates
  <2> QED
    BY <2>1 DEF RunInv, NatInv, DaemonInv, FilterInv, DropInInv, Locked, Closing
<1> QED
  BY <1>1, LifeInvariance, PTL

(* A run none of whose undoing commands has failed, and that neither has   *)
(* damaged daemon.json nor left a filter it does not know of, gives the    *)
(* host back: daemon.json and the DNAT rules as it found them, except that *)
(* a run whose own rule was refused may have deleted others; the drop-in   *)
(* as found, or gone if it locked sudo down itself; and no filter that it  *)
(* has not found, nor any if it had one of its own.                        *)
THEOREM HostIsReturned == Spec => []HostAsFound
<1>1. LifeInv => HostAsFound
  <2> SUFFICES ASSUME LifeInv, NEW a \in Agents, pc[a] = "closeLog", ~ mem[a].spoiled
               PROVE  LET found == mem[a].found IN
                      /\ host.daemon = found.daemon
                      /\ \/ host.nat = found.nat
                         \/ host.nat < found.nat /\ mem[a].backend /\ ~ mem[a].installed
                      /\ host.dropIn = (found.dropIn /\ ~ mem[a].lock)
                      /\ host.filter \subseteq found.filter
                      /\ mem[a].filter => host.filter = {}
    BY DEF HostAsFound
  <2>1. /\ RunInv(a) /\ mem[a].found \in FoundStates
        /\ host.dropIn \in BOOLEAN /\ mem[a].lock \in BOOLEAN
    BY DEF LifeInv, ShapeInv, MemStates, HostStates
  <2>2. DropInInv(a) /\ mem[a].found.dropIn \in BOOLEAN
    BY <2>1 DEF RunInv, FoundStates
  <2>3. host.dropIn = (mem[a].found.dropIn /\ ~ mem[a].lock)
    BY <2>1, <2>2 DEF DropInInv
  <2> QED
    BY <2>1, <2>3 DEF RunInv, NatInv, DaemonInv, FilterInv
<1> QED
  BY <1>1, LifeInvariance, PTL

-----------------------------------------------------------------------------
(***************************************************************************)
(* Files of earlier runs.                                                  *)
(***************************************************************************)
(* Only Begin makes a run alive; every other step of a run is taken by one *)
(* that is alive.                                                          *)
LEMMA StepsOfTheLiving ==
  ASSUME ShapeInv, NEW a \in Agents, AgentStep(a) \/ Crash(a)
  PROVE  a \in Alive /\ Alive' \subseteq Alive /\ stale' = stale
<1>1. a \in Alive
  BY DEF AgentStep, LoadPolicy, OpenFile, Flock, EnableSudo, EnableRedirect,
       EnableDocker, Attach, WritePidFile, WriteReadyFile, WriteFail,
       ShutdownStatus, DisableDocker, RemoveRedirect, DetachFirewall, DisableSudo,
       CloseLog, CloseFiles, Crash, Alive, Over
<1>2. \A b \in Agents \ {a} : pc'[b] = pc[b]
  BY OthersStay
<1>3. stale' = stale
  BY DEF Others, AgentStep, LoadPolicy, OpenFile, Flock, EnableSudo, EnableRedirect,
       EnableDocker, Attach, WritePidFile, WriteReadyFile, WriteFail,
       ShutdownStatus, DisableDocker, RemoveRedirect, DetachFirewall, DisableSudo,
       CloseLog, CloseFiles, Crash
<1> QED
  BY <1>1, <1>2, <1>3 DEF Alive

(* The sentinel files after a step: as before, cleared, or the run's own.  *)
LEMMA FileEffects ==
  ASSUME ShapeInv, NEW a \in Agents, AgentStep(a) \/ Crash(a)
  PROVE  /\ file'.status \in {file.status, {}}
         /\ file'.ready \in {file.ready, {}, {a}}
         /\ file'.failure \in {file.failure, {a}}
<1>0. file \in FileStates
  BY DEF ShapeInv
<1> USE <1>0 DEF FileStates
<1>1. CASE WritePidFile(a) \/ WriteReadyFile(a)
  BY <1>1 DEF WritePidFile, WriteReadyFile
<1>2. CASE WriteFail(a) \/ CloseFiles(a)
  BY <1>2 DEF WriteFail, CloseFiles
<1>3. CASE \/ LoadPolicy(a) \/ OpenFile(a) \/ Flock(a) \/ EnableSudo(a)
           \/ EnableRedirect(a) \/ EnableDocker(a) \/ Attach(a)
           \/ ShutdownStatus(a) \/ DisableDocker(a) \/ RemoveRedirect(a)
           \/ DetachFirewall(a) \/ DisableSudo(a) \/ CloseLog(a) \/ Crash(a)
  BY <1>3 DEF LoadPolicy, OpenFile, Flock, EnableSudo, EnableRedirect,
       EnableDocker, Attach, ShutdownStatus, DisableDocker, RemoveRedirect,
       DetachFirewall, DisableSudo, CloseLog, Crash
<1> QED
  BY <1>1, <1>2, <1>3 DEF AgentStep

(* The status a run remembers comes from the file.                         *)
LEMMA StatusEffect ==
  ASSUME ShapeInv, NEW a \in Agents, AgentStep(a) \/ Crash(a)
  PROVE  mem'[a].status \in {mem[a].status, {}, file.status}
<1>0. mem \in [Agents -> MemStates] /\ mem[a] \in MemStates
  BY DEF ShapeInv
<1>b. ASSUME NEW m, mem' = [mem EXCEPT ![a] = m], m.status = mem[a].status
      PROVE  mem'[a].status = mem[a].status
  BY <1>0, <1>b
<1>1. CASE Flock(a)
  <2>1. [mem[a] EXCEPT !.found = Found].status = mem[a].status
    BY <1>0 DEF MemStates
  <2>2. mem' = mem \/ mem' = [mem EXCEPT ![a] = [mem[a] EXCEPT !.found = Found]]
    BY <1>1 DEF Flock
  <2> QED
    BY <1>b, <2>1, <2>2
<1>2. CASE EnableSudo(a) \/ EnableRedirect(a)
  <2>1. /\ [mem[a] EXCEPT !.backend = TRUE, !.installed = TRUE].status = mem[a].status
        /\ [mem[a] EXCEPT !.backend = TRUE].status = mem[a].status
        /\ [mem[a] EXCEPT !.lock = TRUE].status = mem[a].status
    BY <1>0 DEF MemStates
  <2>2. \/ mem' = mem
        \/ mem' = [mem EXCEPT ![a] = [mem[a] EXCEPT !.backend = TRUE, !.installed = TRUE]]
        \/ mem' = [mem EXCEPT ![a] = [mem[a] EXCEPT !.backend = TRUE]]
        \/ mem' = [mem EXCEPT ![a] = [mem[a] EXCEPT !.lock = TRUE]]
    BY <1>2 DEF EnableSudo, EnableRedirect
  <2> QED
    BY <1>b, <2>1, <2>2
<1>3. CASE EnableDocker(a)
  <2>1. /\ [mem[a] EXCEPT !.docker = TRUE, !.backup = host.daemon].status = mem[a].status
        /\ \A v : [mem[a] EXCEPT !.spoiled = v].status = mem[a].status
    BY <1>0 DEF MemStates
  <2>2. \/ mem' = mem
        \/ mem' = [mem EXCEPT ![a] = [mem[a] EXCEPT !.docker = TRUE, !.backup = host.daemon]]
        \/ \E d : mem' = [mem EXCEPT ![a] = [mem[a] EXCEPT !.spoiled = d # host.daemon]]
    BY <1>3 DEF EnableDocker
  <2> QED
    BY <1>b, <2>1, <2>2
<1>10. CASE Attach(a)
  <2>2. \/ mem'[a] = mem[a]
        \/ mem'[a] = [mem[a] EXCEPT !.filter = TRUE]
        \/ \E b, c \in BOOLEAN : mem'[a] = [mem[a] EXCEPT !.failing = b, !.spoiled = c]
    BY <1>10, AttachEffect
  <2> QED
    BY <1>0, <2>2 DEF MemStates
<1> USE <1>0 DEF MemStates
<1>4. CASE WritePidFile(a) \/ WriteReadyFile(a)
  BY <1>4 DEF WritePidFile, WriteReadyFile, CloseAndFail
<1>5. CASE WriteFail(a) \/ CloseFiles(a) \/ Crash(a)
  BY <1>5 DEF WriteFail, CloseFiles, Crash, Fresh
<1>6. CASE ShutdownStatus(a)
  BY <1>6 DEF ShutdownStatus
<1>7. ASSUME NEW made, NEW undone, NEW left, Undo(a, made, undone, left)
      PROVE  mem'[a].status = mem[a].status
  BY <1>7 DEF Undo
<1>8. CASE DisableDocker(a) \/ RemoveRedirect(a) \/ DetachFirewall(a) \/ DisableSudo(a)
  BY <1>7, <1>8 DEF DisableDocker, RemoveRedirect, DetachFirewall, DisableSudo
<1>9. CASE LoadPolicy(a) \/ OpenFile(a) \/ CloseLog(a)
  BY <1>9 DEF LoadPolicy, OpenFile, CloseLog
<1> QED
  BY <1>1, <1>2, <1>3, <1>4, <1>5, <1>6, <1>8, <1>9, <1>10 DEF AgentStep

(* No step lets a run see the status or the files of an earlier one.       *)
LEMMA EarlierRunsStep ==
  ShapeInv /\ StatusInv /\ StaleInv /\ [Next]_vars => StatusInv' /\ StaleInv'
<1> SUFFICES ASSUME ShapeInv, StatusInv, StaleInv, [Next]_vars
             PROVE  StatusInv' /\ StaleInv'
  OBVIOUS
<1>1. ASSUME NEW a \in Agents, Begin(a)
      PROVE  StatusInv' /\ StaleInv'
  <2>1. /\ file'.status = {} /\ file'.failure = {} /\ file'.ready = {}
        /\ mem' = mem
    BY <1>1 DEF Begin, ShapeInv, FileStates
  <2>2. \A b \in stale' : b \in Agents /\ pc'[b] \in Over
    BY <1>1 DEF Begin, Go, ShapeInv, Over
  <2> QED
    BY <2>1, <2>2 DEF StatusInv, StatusIsCurrent, StaleInv
<1>2. ASSUME NEW a \in Agents, AgentStep(a) \/ Crash(a)
      PROVE  StatusInv' /\ StaleInv'
  <2>1. a \in Alive /\ Alive' \subseteq Alive /\ stale' = stale
    BY <1>2, StepsOfTheLiving
  <2>2. \A b \in Agents \ {a} : pc'[b] = pc[b] /\ mem'[b] = mem[b]
    BY <1>2, OthersStay
  <2>3. a \notin stale
    BY <2>1 DEF StaleInv, Alive
  <2>4. /\ file'.status \in {file.status, {}}
        /\ file'.ready \in {file.ready, {}, {a}}
        /\ file'.failure \in {file.failure, {a}}
    BY <1>2, FileEffects
  <2>5. mem'[a].status \in {mem[a].status, {}, file.status}
    BY <1>2, StatusEffect
  <2>6. StatusInv'
    BY <2>1, <2>2, <2>4, <2>5 DEF StatusInv, StatusIsCurrent
  <2>7. StaleInv'
    BY <2>1, <2>2, <2>3, <2>4 DEF StaleInv
  <2> QED
    BY <2>6, <2>7
<1>3. ASSUME UNCHANGED <<pc, mem, stale>>,
             file' = file \/ file' = [file EXCEPT !.status = {Alive}]
      PROVE  StatusInv' /\ StaleInv'
  <2>1. /\ file'.ready = file.ready /\ file'.failure = file.failure
        /\ file'.status \in {file.status, {Alive}}
    BY <1>3 DEF ShapeInv, FileStates
  <2>2. Alive' = Alive
    BY <1>3 DEF Alive
  <2> QED
    BY <1>3, <2>1, <2>2 DEF StatusInv, StatusIsCurrent, StaleInv
<1>4. CASE WriteStatus \/ ReadPid \/ Kill \/ WaitReady
  BY <1>3, <1>4, CommandsKeepShape
<1>5. CASE UNCHANGED vars
  BY <1>3, <1>5 DEF vars
<1> QED
  BY <1>1, <1>2, <1>4, <1>5 DEF Next

(* Both hold at first, and so always.                                      *)
LEMMA EarlierRunsInvariance == Spec => [](StatusInv /\ StaleInv)
<1>1. Init => StatusInv /\ StaleInv
  BY DEF Init, StatusInv, StatusIsCurrent, StaleInv, Fresh
<1>2. LifeInv => ShapeInv
  BY DEF LifeInv
<1> QED
  BY <1>1, <1>2, EarlierRunsStep, LifeInvariance, PTL DEF Spec

(* The status a run uploads was written while it was up: a `stop` that was *)
(* meant for an earlier run never speaks for this one.                     *)
THEOREM StatusBelongsToRun == Spec => []StatusIsCurrent
<1>1. StatusInv => StatusIsCurrent
  BY DEF StatusInv
<1> QED
  BY <1>1, EarlierRunsInvariance, PTL

(* What wait-ready answers is never about a run that was over when the     *)
(* last Start began.                                                       *)
THEOREM WaitReadyIsFresh == Spec => WaitIsFresh
<1>1. StaleInv =>
        [wait' = "over" =>
           /\ wait = "failure" => file.failure \cap stale = {}
           /\ wait = "ready" => file.ready \cap stale = {}]_vars
  BY DEF StaleInv
<1> QED
  BY <1>1, EarlierRunsInvariance, PTL DEF WaitIsFresh
=============================================================================
