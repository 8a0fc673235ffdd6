--------------------------- MODULE EventPipeline ---------------------------
(***************************************************************************)
(* From a packet or an exec to a line of the uploaded log: the programs of *)
(* censor.c emit into the ring buffer, readEvents (internal/ebpf) moves    *)
(* records to a channel, consumeBPFEvents (internal/agent/events.go) drops *)
(* repetitions and writes the log, and the main goroutine fetches the      *)
(* policy, uploads the log after the signal and then detaches.  Ring and   *)
(* channel drop what does not fit.  Ports and protocols are part of the    *)
(* destination here.                                                       *)
(***************************************************************************)
EXTENDS Firewall, ApiRetry, Integers, SequencesExt

CONSTANTS
  Grants,     \* addresses that AllowIP is called for
  Procs,      \* pids of the job's processes, each with a socket of its own
  RingMax,    \* records the ring buffer holds
  ChanMax,    \* capacity of eventCh (1024 in the code)
  TTL,        \* of the dedupe cache (5 s in the code)
  SeenMax,    \* cache entries above which it is swept (10000 in the code)
  MaxEvents,  \* bound: events that happen, under a local policy
  MaxApiEvents, \* bound: the same where the agent has an API to talk to
  MaxTime     \* bound: how far the clock goes

ASSUME GrantsAssumption == Grants \subseteq Addresses
ASSUME AllowedCidrsAssumption == \A p \in Policies : p.cidrs \subseteq Cidrs
ASSUME ProcsAssumption == Procs \subseteq Nat \ {0}
ASSUME SizesAssumption ==
  /\ {ChanMax, TTL} \subseteq Nat \ {0}
  /\ RingMax \in Nat /\ RingMax >= ChanMax
  /\ {SeenMax, MaxEvents, MaxApiEvents, MaxTime} \subseteq Nat

None == -1

VARIABLES
  known,     \* processes whose socket cookie is in sock_pid
  count,     \* events so far
  ring,      \* the ring buffer
  reader,    \* record readEvents has read and not sent yet: at most one
  ch,        \* eventCh
  consumer,  \* event consumeBPFEvents is working on: at most one
  seen,      \* dedupe.Cache: keys and when they were last let through
  lines,     \* the log
  now,       \* the clock
  main,      \* where the main goroutine is
  term,      \* SIGTERM or SIGINT has arrived
  mark,      \* lines of the log when it arrived
  snapshot,  \* lines of the log that Upload has read
  uploaded,  \* lines the API has, None before an upload has arrived
  logOpen,   \* the log is open
  code       \* exit code, 2 while it is not decided

queueVars == <<ring, reader, ch, consumer>>
logVars == <<seen, lines, now, logOpen>>
mainVars == <<main, term, mark, snapshot, uploaded, code>>
vars ==
  <<fwVars, apiVars, known, count, queueVars, logVars, mainVars>>

MainPcs ==
  {"fetch", "attach", "cidrs", "seed", "running", "uploading", "detach",
   "detaching", "detached", "closed", "exited"}

Init ==
  /\ FwInit
  /\ ApiInit
  /\ known = {} /\ count = 0
  /\ ring = <<>> /\ reader = <<>> /\ ch = <<>> /\ consumer = <<>>
  /\ seen = {} /\ lines = <<>> /\ now = 0 /\ logOpen = FALSE
  /\ main = "fetch" /\ term = FALSE /\ mark = 0
  /\ snapshot = 0 /\ uploaded = None /\ code = 2

-----------------------------------------------------------------------------
(***************************************************************************)
(* The kernel side.                                                        *)
(***************************************************************************)
(* censor_connect4/6.  sock_pid is an LRU map: the entry can go any time.  *)
Connect(p) ==
  /\ {"connect4", "connect6"} \subseteq live
  /\ known' = known \cup {p}
  /\ UNCHANGED <<fwVars, apiVars, count, queueVars, logVars, mainVars>>
Evict(p) ==
  /\ "objs" \in live
  /\ known' = known \ {p}
  /\ UNCHANGED <<fwVars, apiVars, count, queueVars, logVars, mainVars>>

current_pid_for_skb(p) == IF p \in known THEN p ELSE 0

EventBound == IF policy.local THEN MaxEvents ELSE MaxApiEvents

emit(e) ==
  /\ count < EventBound
  /\ count' = count + 1
  /\ ring' = IF Len(ring) < RingMax
             THEN Append(ring, [e EXCEPT !.id = count']) ELSE ring
  /\ UNCHANGED <<reader, ch, consumer, known>>
  /\ UNCHANGED <<fwVars, apiVars, logVars, mainVars>>

(* A TCP or UDP frame of a process passes the egress hook.  The fate of    *)
(* the frame is kept in the event as history.                              *)
NetEvent(p, d) ==
  /\ EgressLive
  /\ emit([id |-> 0, kind |-> "net", pid |-> current_pid_for_skb(p), dst |-> d,
           allowed |-> LookupAllow(allow, d), shot |-> Dropped(TcpFrame(d))])

(* censor_exec: a process becomes sudo or sudoedit.                        *)
SudoEvent(p) ==
  /\ "exec" \in live
  /\ emit([id |-> 0, kind |-> "sudo", pid |-> p, allowed |-> TRUE])

-----------------------------------------------------------------------------
(***************************************************************************)
(* readEvents: the record is decoded, and dropped if the channel is full.  *)
(* The words of the address are read as little-endian integers, whose      *)
(* bytes formatDst writes in the other order.  Read fails once the reader  *)
(* is closed.                                                              *)
(***************************************************************************)
(* A slip: the words are read in the order of the network.                 *)
DecodeBigEndian(e) == e
Decode(e) ==
  IF e.kind = "net" THEN [e EXCEPT !.dst.bits = Swapped(@)] ELSE e

ReadRecord ==
  /\ "reader" \in live
  /\ reader = <<>> /\ ring # <<>>
  /\ reader' = <<Decode(Head(ring))>>
  /\ ring' = Tail(ring)
  /\ UNCHANGED <<ch, consumer, known, count>>
  /\ UNCHANGED <<fwVars, apiVars, logVars, mainVars>>

(* A slip: a list that grows instead of the channel.                       *)
SendEventUnbounded ==
  /\ reader # <<>>
  /\ ch' = ch \o reader
  /\ reader' = <<>>
  /\ UNCHANGED <<ring, consumer, known, count>>
  /\ UNCHANGED <<fwVars, apiVars, logVars, mainVars>>
SendEvent ==
  /\ reader # <<>>
  /\ ch' = IF Len(ch) < ChanMax THEN ch \o reader ELSE ch
  /\ reader' = <<>>
  /\ UNCHANGED <<ring, consumer, known, count>>
  /\ UNCHANGED <<fwVars, apiVars, logVars, mainVars>>

-----------------------------------------------------------------------------
(***************************************************************************)
(* consumeBPFEvents, from the end of Start on.                             *)
(***************************************************************************)
(* net.IP.String prints an IPv4-mapped address as the IPv4 address.        *)
formatDst(e) == Unmap(e.dst)

Key(e) == [pid |-> e.pid, dst |-> formatDst(e), allowed |-> e.allowed]

(* A slip: a policy without a mode enforces but is logged as monitoring.   *)
ActionOfEnforceOnly(e) ==
  IF e.allowed THEN "ALLOW"
  ELSE IF policy.mode = "ENFORCE" THEN "DENY" ELSE "MONITOR_DENY"
Action(e) ==
  CASE e.allowed -> "ALLOW"
    [] ~ e.allowed /\ policy.mode = "MONITOR" -> "MONITOR_DENY"
    [] ~ e.allowed /\ policy.mode # "MONITOR" -> "DENY"

(* A slip: the loop returns after a sudo event instead of going on.        *)
ReceiveEventUntilSudo ==
  /\ main \notin {"fetch", "attach", "cidrs", "seed"}
  /\ \A i \in DOMAIN lines : lines[i].ev.kind # "sudo"
  /\ consumer = <<>> /\ ch # <<>>
  /\ consumer' = <<Head(ch)>>
  /\ ch' = Tail(ch)
  /\ UNCHANGED <<ring, reader, known, count>>
  /\ UNCHANGED <<fwVars, apiVars, logVars, mainVars>>
ReceiveEvent ==
  /\ main \notin {"fetch", "attach", "cidrs", "seed"}
  /\ consumer = <<>> /\ ch # <<>>
  /\ consumer' = <<Head(ch)>>
  /\ ch' = Tail(ch)
  /\ UNCHANGED <<ring, reader, known, count>>
  /\ UNCHANGED <<fwVars, apiVars, logVars, mainVars>>

(* A slip: an entry of exactly the TTL's age still suppresses.             *)
ExpiredLate(s) == now - s.at > TTL
Expired(s) == now - s.at >= TTL

ShouldEmit(e) == \A s \in seen : s.key = Key(e) => Expired(s)

(* The entry of a key that is let through, and the sweep of a large cache. *)
Remember(e) ==
  LET updated == {s \in seen : s.key # Key(e)} \cup {[key |-> Key(e), at |-> now]}
  IN  seen' = IF Cardinality(updated) > SeenMax
              THEN {s \in updated : ~ Expired(s)} ELSE updated

(* A write to the closed log is an error that the callers drop.            *)
WriteEvent(e) ==
  lines' = IF logOpen
           THEN Append(lines, [ev |-> e, at |-> now, action |-> Action(e)])
           ELSE lines

HandleEvent ==
  /\ consumer # <<>>
  /\ LET e == Head(consumer) IN
       \/ e.kind = "sudo" /\ WriteEvent(e) /\ UNCHANGED seen
       \/ e.kind = "net" /\ ShouldEmit(e) /\ Remember(e) /\ WriteEvent(e)
       \/ e.kind = "net" /\ ~ ShouldEmit(e) /\ UNCHANGED <<seen, lines>>
  /\ consumer' = <<>>
  /\ UNCHANGED <<ring, reader, ch, known, count, now, logOpen>>
  /\ UNCHANGED <<fwVars, apiVars, mainVars>>

Tick ==
  /\ now < MaxTime /\ main \in {"running", "uploading"}
  /\ now' = now + 1
  /\ UNCHANGED <<seen, lines, logOpen, known, count, queueVars>>
  /\ UNCHANGED <<fwVars, apiVars, mainVars>>

-----------------------------------------------------------------------------
(***************************************************************************)
(* The main goroutine, where it touches the pipeline.                      *)
(***************************************************************************)
Pipe == <<known, count, queueVars>>

(* A policy from a local file, or one that does not read or decode.        *)
ReadPolicyFile ==
  /\ main = "fetch" /\ policy.local
  /\ \/ main' = "attach" /\ logOpen' = TRUE /\ UNCHANGED code
     \/ main' = "exited" /\ code' = 1 /\ UNCHANGED logOpen
  /\ UNCHANGED <<term, mark, snapshot, uploaded, seen, lines, now>>
  /\ UNCHANGED <<fwVars, apiVars, Pipe>>

FetchPolicy ==
  /\ main = "fetch" /\ apiPc = "idle" /\ ~ policy.local
  /\ Call("fetch")
  /\ UNCHANGED <<fwVars, Pipe, logVars, mainVars>>

(* A policy that could not be fetched ends Start; otherwise the log is     *)
(* opened and, later, the firewall attached.  What becomes of requests of  *)
(* the fetch that are still under way no longer matters.                   *)
FetchReturned ==
  /\ main = "fetch" /\ apiPc = "returned"
  /\ \/ apiRet = "ok" /\ main' = "attach" /\ logOpen' = TRUE /\ UNCHANGED code
     \/ apiRet # "ok" /\ main' = "exited" /\ code' = 1 /\ UNCHANGED logOpen
  /\ Reset("idle") /\ UNCHANGED op
  /\ UNCHANGED <<term, mark, snapshot, uploaded, seen, lines, now, fwVars, Pipe>>

(* What a successful AttachFirewall leaves (Firewall has its steps).       *)
Attached ==
  /\ main = "attach"
  /\ main' = "cidrs"
  /\ attachRet' = "ok"
  /\ loaded' = TRUE
  /\ audit' = IF policy.mode = "MONITOR" THEN 1 ELSE 0
  /\ live' = {"objs", "connect4", "connect6", "tcx", "reader"}
               \cup (IF policy.watchSudo THEN {"exec"} ELSE {})
  /\ UNCHANGED <<policy, fwPc, todo, stuck, allow>>
  /\ UNCHANGED <<term, mark, snapshot, uploaded, code, apiVars, Pipe, logVars>>

(* ParseAndAllowCIDRs: one call of AllowPrefix after the other, until each *)
(* CIDR has its entry or was refused by a full map.                        *)
AllowCidr ==
  /\ main = "cidrs"
  /\ \E c \in policy.cidrs : AllowPrefix(c)
  /\ UNCHANGED <<apiVars, Pipe, logVars, mainVars>>
CidrsAllowed ==
  /\ main = "cidrs"
  /\ \A c \in policy.cidrs :
       Entry(PrefixKey(c)) \in allow \/ MapFull(c.addr.family)
  /\ main' = "seed"
  /\ UNCHANGED <<term, mark, snapshot, uploaded, code, fwVars, apiVars, Pipe, logVars>>

(* Prepopulation is over and the consumer is started.                      *)
StartReturned ==
  /\ main = "seed"
  /\ main' = "running"
  /\ UNCHANGED <<term, mark, snapshot, uploaded, code, fwVars, apiVars, Pipe, logVars>>

(* AllowIP, called by prepopulation and by the handlers of DNS queries.    *)
Grant(a) ==
  /\ loaded /\ AllowIP(a)
  /\ UNCHANGED <<apiVars, Pipe, logVars, mainVars>>

Signal ==
  /\ ~ term /\ main \in {"fetch", "attach", "cidrs", "seed", "running"}
  /\ term' = TRUE
  /\ mark' = Len(lines)
  /\ UNCHANGED <<main, snapshot, uploaded, code, fwVars, apiVars, Pipe, logVars>>

(* Upload reads the log, compresses it and posts it under a new context,   *)
(* whose deadline is 30 s away.                                            *)
Upload ==
  /\ main = "running" /\ term /\ ~ policy.local
  /\ main' = "uploading"
  /\ snapshot' = Len(lines)
  /\ Call("upload")
  /\ UNCHANGED <<term, mark, uploaded, code, fwVars, Pipe, logVars>>
NoUpload ==
  /\ main = "running" /\ term /\ policy.local
  /\ main' = "detach"
  /\ code' = 0
  /\ UNCHANGED <<term, mark, snapshot, uploaded, fwVars, apiVars, Pipe, logVars>>

(* The exit code is decided here.  A request that still arrives after the  *)
(* call has given up is not followed any further.                          *)
UploadReturned ==
  /\ main = "uploading" /\ apiPc = "returned"
  /\ main' = "detach"
  /\ code' = IF apiRet = "ok" THEN 0 ELSE 1
  /\ snapshot' = 0
  /\ Reset("idle") /\ UNCHANGED op
  /\ UNCHANGED <<term, mark, uploaded, fwVars, Pipe, logVars>>

(* cleanupPartial closes the reader first, then the hooks and the maps     *)
(* (Firewall has all its steps).                                           *)
CloseReader ==
  /\ main = "detach"
  /\ main' = "detaching"
  /\ live' = live \ {"reader"}
  /\ UNCHANGED <<policy, fwPc, todo, attachRet, loaded, stuck, audit, allow>>
  /\ UNCHANGED <<term, mark, snapshot, uploaded, code, apiVars, Pipe, logVars>>
CloseHooks ==
  /\ main = "detaching"
  /\ main' = "detached"
  /\ live' = {} /\ ring' = <<>> /\ known' = {}
  /\ loaded' = FALSE
  /\ UNCHANGED <<policy, fwPc, todo, attachRet, stuck, audit, allow>>
  /\ UNCHANGED <<term, mark, snapshot, uploaded, code, apiVars, logVars>>
  /\ UNCHANGED <<count, reader, ch, consumer>>

CloseLog ==
  /\ main = "detached"
  /\ main' = "closed"
  /\ logOpen' = FALSE
  /\ UNCHANGED <<term, mark, snapshot, uploaded, code, seen, lines, now>>
  /\ UNCHANGED <<fwVars, apiVars, Pipe>>

Exit ==
  /\ main = "closed"
  /\ main' = "exited"
  /\ reader' = <<>> /\ ch' = <<>> /\ consumer' = <<>> /\ seen' = {}
  /\ UNCHANGED <<term, mark, snapshot, uploaded, code, lines, now, logOpen>>
  /\ UNCHANGED <<fwVars, apiVars, known, count, ring>>

MainStep ==
  \/ ReadPolicyFile \/ FetchPolicy \/ FetchReturned
  \/ Attached \/ AllowCidr \/ CidrsAllowed \/ StartReturned
  \/ Upload \/ NoUpload \/ UploadReturned
  \/ CloseReader \/ CloseHooks \/ CloseLog \/ Exit

Running == main # "exited"
ReaderStep == Running /\ (ReadRecord \/ SendEvent)
ConsumerStep == Running /\ (ReceiveEvent \/ HandleEvent)

(* The signal cancels the fetch; the upload has a deadline of its own.     *)
CtxDone == IF op = "fetch" THEN {term} ELSE BOOLEAN
Client ==
  /\ Running
  /\ \E done \in CtxDone : ClientStep(done)
  /\ UNCHANGED <<fwVars, Pipe, logVars, mainVars>>

Deliver ==
  /\ Arrive
  /\ uploaded' = IF op = "upload" THEN snapshot ELSE uploaded
  /\ UNCHANGED <<main, term, mark, snapshot, code, fwVars, Pipe, logVars>>

Next ==
  \/ \E p \in Procs : Connect(p) \/ Evict(p) \/ SudoEvent(p)
  \/ \E p \in Procs, d \in Dests : NetEvent(p, d)
  \/ \E a \in Grants : Grant(a)
  \/ ReaderStep \/ ConsumerStep \/ MainStep
  \/ Client \/ Deliver
  \/ Tick
  \/ Signal
  \/ ~ Running /\ UNCHANGED vars

Spec ==
  /\ Init /\ [][Next]_vars
  /\ WF_vars(MainStep) /\ WF_vars(Client)
  /\ WF_vars(ReaderStep) /\ WF_vars(ConsumerStep)
-----------------------------------------------------------------------------
(* Types of the pipeline's state, with the capacities of its queues.       *)
PipeTypeOK ==
  /\ ApiTypeOK
  /\ main \in MainPcs /\ code \in 0 .. 2
  /\ known \subseteq Procs
  /\ Len(ring) <= RingMax /\ Len(ch) <= ChanMax
  /\ Len(reader) <= 1 /\ Len(consumer) <= 1
  /\ \A s \in seen : s.at <= now

(* The kernel decides by config and user space writes the line by the mode *)
(* of the policy, some time later: a line says DENY exactly when the frame *)
(* was dropped.                                                            *)
VerdictsAreLogged ==
  \A i \in DOMAIN lines :
    lines[i].ev.kind = "net" => (lines[i].action = "DENY" <=> lines[i].ev.shot)

(* On a little-endian host AllowIP and the log reverse the bytes of an     *)
(* address alike.  So an ALLOW line names an address AllowIP was called    *)
(* for, although the frame went to its byte swap; or, laid out as a key,   *)
(* it lies in the image of an allowed CIDR (the CIDR itself need not       *)
(* contain it: only the low bytes of its words agree).  The entry behind   *)
(* the line is still there.  An IPv4-mapped IPv6 address is named by its   *)
(* IPv4 form, which has no entry of its own.                               *)
LogAgreesWithGrants ==
  LittleEndian =>
    \A i \in DOMAIN lines :
      lines[i].ev.kind = "net" /\ lines[i].action = "ALLOW" =>
        \/ \E a \in Grants :
             Unmap(a) = formatDst(lines[i].ev) /\ Entry(HostKey(a)) \in allow
        \/ \E c \in policy.cidrs :
             /\ InCidr(OnWire(lines[i].ev.dst), CidrOnWire(c))
             /\ Entry(PrefixKey(c)) \in allow

(* With exit code 0 the API has a log that holds at least the lines        *)
(* written before the signal.                                              *)
UploadCoversRun == code = 0 /\ ~ policy.local => uploaded # None /\ uploaded >= mark

Pending == consumer \o ch \o reader \o [i \in DOMAIN ring |-> Decode(ring[i])]
Coalesced(e) == e.kind = "net"
Listening == main \in {"fetch", "attach"} \/ "reader" \in live

(* The pipeline keeps the promises of LossyLog: events are logged in the   *)
(* order they happened, each at most once per TTL, and are lost only       *)
(* behind ChanMax others or once the reader is closed.                     *)
Abstract ==
  INSTANCE LossyLog WITH
    KeyOf <- Key, Room <- ChanMax, happened <- count, pending <- Pending,
    lines <- [i \in DOMAIN lines |-> [ev |-> lines[i].ev, at |-> lines[i].at]],
    listening <- Listening
ImplementsLossyLog == Abstract!LogSpec

(* An event that got into the ring leaves the pipeline (logged, dropped or *)
(* left out), unless the reader is closed first.                           *)
EventsSettle ==
  \A n \in 1 .. MaxEvents :
    LET Inside == \E i \in DOMAIN Pending : Pending[i].id = n
    IN  Inside ~> ~ Inside \/ ~ Listening

(* After a signal the agent exits, whatever the API does.                  *)
SignalEndsRun == term ~> main = "exited"
=============================================================================
