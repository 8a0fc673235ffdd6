------------------------------ MODULE Firewall ------------------------------
(***************************************************************************)
(* The firewall: package ebpfutil (internal/ebpf), which loads the BPF     *)
(* objects, attaches the hooks and writes the allow maps, and the egress   *)
(* program of bpf/kern/censor.c, which reads them.                         *)
(*                                                                         *)
(* AttachFirewall and DetachFirewall hold the package mutex from beginning *)
(* to end, but each of their system calls is a step of its own: packets    *)
(* keep flowing between them.  AllowIP and AllowPrefix are one step: they  *)
(* take the mutex, write one key and release it.                           *)
(***************************************************************************)
EXTENDS LpmTrie, Sequences, FiniteSets

CONSTANTS
  Policies,    \* the AgentPolicy messages (and command lines) considered
  MaxEntries,  \* max_entries of allow_v4 and of allow_v6 (16384 in the code)
  Dests,       \* the destinations the job's packets go to
  Cidrs        \* parsed CIDRs, [addr, len]

Modes == {"MONITOR", "ENFORCE", "UNSPECIFIED"}

ASSUME PoliciesAssumption ==
  \A p \in Policies : p.mode \in Modes /\ p.watchSudo \in BOOLEAN
ASSUME EntriesAssumption == MaxEntries \in Nat \ {0}
ASSUME DestsAssumption == Dests \subseteq Addresses
ASSUME CidrsAssumption ==
  \A c \in Cidrs : c.addr \in Addresses /\ c.len \in 0 .. AddrBits(c.addr.family)

VARIABLES
  policy,     \* the policy of this run; no step changes it
  fwPc,       \* where the call that holds the package mutex is; "idle": free
  todo,       \* next entry of CleanupOrder to close, while fwPc = "cleanup"
  attachRet,  \* what AttachFirewall returned to its caller
  loaded,     \* the package variable of that name
  live,       \* what is open: objects, links, tc filter, ring buffer reader
  stuck,      \* resources whose release failed: the error is dropped
  audit,      \* config[ConfigAuditMode]
  allow       \* the entries of allow_v4 and allow_v6

fwVars ==
  <<policy, fwPc, todo, attachRet, loaded, live, stuck, audit, allow>>

(* cleanupPartial closes in this order; the error returns of               *)
(* AttachFirewall close a tail of it.  The egress hook is a TCX link or,   *)
(* where the kernel has none, a filter on the clsact qdisc.                *)
EgressHook == {"tcx", "filter"}
CleanupOrder ==
  <<{"reader"}, {"exec"}, EgressHook, {"connect6"}, {"connect4"}, {"objs"}>>
Resources == UNION {CleanupOrder[i] : i \in DOMAIN CleanupOrder}
Hooks == Resources \ {"reader", "objs"}

AttachPcs ==
  {"memlock", "load", "config", "connect4", "connect6", "egress", "exec",
   "reader"}

MuFree == fwPc = "idle"
EgressLive == live \cap EgressHook # {}

FwInit ==
  /\ policy \in Policies
  /\ fwPc = "idle"
  /\ todo = Len(CleanupOrder) + 1
  /\ attachRet = "none"
  /\ loaded = FALSE
  /\ live = {}
  /\ stuck = {}
  /\ audit = 0
  /\ allow = {}

-----------------------------------------------------------------------------
(***************************************************************************)
(* AttachFirewall, one action per system call.  Fail(k) is an error return *)
(* that first closes CleanupOrder from entry k on.                         *)
(***************************************************************************)
Goto(pc) == fwPc' = pc /\ UNCHANGED <<policy, todo, attachRet, loaded, stuck>>

Fail(k) ==
  /\ fwPc' = "cleanup"
  /\ todo' = k
  /\ attachRet' = "err"
  /\ UNCHANGED <<policy, loaded, live, stuck, audit, allow>>

AttachFirewall ==
  /\ MuFree
  /\ IF loaded
     THEN attachRet' = "ok" /\ UNCHANGED fwPc
     ELSE attachRet' = "none" /\ fwPc' = "memlock"
  /\ UNCHANGED <<policy, todo, loaded, live, stuck, audit, allow>>

RemoveMemlock ==
  /\ fwPc = "memlock"
  /\ \/ Goto("load") /\ UNCHANGED <<live, audit, allow>>
     \/ Fail(7)

(* Loading creates fresh maps: every array element of config is zero.      *)
LoadCensorObjects ==
  /\ fwPc = "load"
  /\ \/ /\ Goto("config")
        /\ live' = live \cup {"objs"}
        /\ audit' = 0
        /\ allow' = {}
     \/ Fail(7)

(* A slip: the enum value of the mode (MONITOR 1, ENFORCE 2) is written.   *)
ConfigPutEnum ==
  /\ fwPc = "config"
  /\ \/ /\ Goto("connect4")
        /\ audit' = CASE policy.mode = "MONITOR" -> 1
                      [] policy.mode = "ENFORCE" -> 2
                      [] OTHER -> 0
        /\ UNCHANGED <<live, allow>>
     \/ Fail(6)

(* A slip: audit only when the policy says ENFORCE.                        *)
ConfigPutInverted ==
  /\ fwPc = "config"
  /\ \/ /\ Goto("connect4")
        /\ audit' = IF policy.mode = "ENFORCE" THEN 0 ELSE 1
        /\ UNCHANGED <<live, allow>>
     \/ Fail(6)

(* A slip: the key is never written.                                       *)
ConfigPutSkipped ==
  /\ fwPc = "config"
  /\ \/ Goto("connect4") /\ UNCHANGED <<live, audit, allow>>
     \/ Fail(6)

ConfigPut ==
  /\ fwPc = "config"
  /\ \/ /\ Goto("connect4")
        /\ audit' = IF policy.mode = "MONITOR" THEN 1 ELSE 0
        /\ UNCHANGED <<live, allow>>
     \/ Fail(6)

Attach(pc, resource, next, k) ==
  /\ fwPc = pc
  /\ \/ /\ Goto(next)
        /\ live' = live \cup {resource}
        /\ UNCHANGED <<audit, allow>>
     \/ Fail(k)

AttachConnect4 == Attach("connect4", "connect4", "connect6", 6)

(* A slip: the error return closes the objects and not the connect4 link.  *)
AttachConnect6Leaky == Attach("connect6", "connect6", "egress", 6)
AttachConnect6 == Attach("connect6", "connect6", "egress", 5)

(* egressInterface and then attachEgress, TCX first; 4: both failed.       *)
AttachEgress ==
  \E hook \in EgressHook : Attach("egress", hook, "exec", 4)

(* The sudo watch is best effort: a failed tracepoint is not an error.     *)
AttachExec ==
  /\ fwPc = "exec"
  /\ Goto("reader")
  /\ \/ policy.watchSudo /\ live' = live \cup {"exec"}
     \/ UNCHANGED live
  /\ UNCHANGED <<audit, allow>>

(* A slip: the error return forgets cleanupPartial.                        *)
NewReaderLeaky ==
  /\ fwPc = "reader"
  /\ \/ /\ fwPc' = "idle"
        /\ attachRet' = "ok"
        /\ loaded' = TRUE
        /\ live' = live \cup {"reader"}
        /\ UNCHANGED <<policy, todo, stuck, audit, allow>>
     \/ Fail(7)

NewReader ==
  /\ fwPc = "reader"
  /\ \/ /\ fwPc' = "idle"
        /\ attachRet' = "ok"
        /\ loaded' = TRUE
        /\ live' = live \cup {"reader"}
        /\ UNCHANGED <<policy, todo, stuck, audit, allow>>
     \/ Fail(1)

(***************************************************************************)
(* DetachFirewall and cleanupPartial.  Closing a file descriptor detaches  *)
(* a link for good; deleting the tc filter is a request that can fail.     *)
(***************************************************************************)
DetachFirewall ==
  /\ MuFree
  /\ IF loaded
     THEN fwPc' = "cleanup" /\ todo' = 1
     ELSE UNCHANGED <<fwPc, todo>>
  /\ UNCHANGED <<policy, attachRet, loaded, live, stuck, audit, allow>>

CleanupStep ==
  /\ fwPc = "cleanup"
  /\ todo \in DOMAIN CleanupOrder
  /\ \/ live' = live \ CleanupOrder[todo] /\ UNCHANGED stuck
     \/ /\ "filter" \in live \cap CleanupOrder[todo]
        /\ stuck' = stuck \cup {"filter"}
        /\ UNCHANGED live
  /\ todo' = todo + 1
  /\ UNCHANGED <<policy, fwPc, attachRet, loaded, audit, allow>>

(* A slip: the error return does not release the mutex.                    *)
CleanupEndLocked ==
  /\ fwPc = "cleanup"
  /\ todo \notin DOMAIN CleanupOrder
  /\ loaded' = FALSE
  /\ UNCHANGED <<policy, fwPc, todo, attachRet, live, stuck, audit, allow>>

CleanupEnd ==
  /\ fwPc = "cleanup"
  /\ todo \notin DOMAIN CleanupOrder
  /\ fwPc' = "idle"
  /\ loaded' = FALSE
  /\ UNCHANGED <<policy, todo, attachRet, live, stuck, audit, allow>>

FwStep ==
  \/ RemoveMemlock \/ LoadCensorObjects \/ ConfigPut
  \/ AttachConnect4 \/ AttachConnect6 \/ AttachEgress \/ AttachExec
  \/ NewReader \/ CleanupStep \/ CleanupEnd

(***************************************************************************)
(* Writes to the allow maps.  The trie refuses a new key when it is full;  *)
(* callers ignore that error.  Before the attach and after the detach the  *)
(* call does nothing and reports success.                                  *)
(***************************************************************************)
MapFull(family) ==
  Cardinality({e \in allow : e.family = family}) >= MaxEntries

(* A slip: an old entry makes room, as in an LRU map.                      *)
PutEvicts(e) ==
  IF e \in allow \/ ~ MapFull(e.family)
  THEN allow' = allow \cup {e}
  ELSE \E old \in allow : allow' = (allow \ {old}) \cup {e}

Put(e) ==
  allow' = IF e \in allow \/ ~ MapFull(e.family)
           THEN allow \cup {e} ELSE allow

AllowKey(key) ==
  /\ MuFree
  /\ IF loaded THEN Put(Entry(key)) ELSE UNCHANGED allow
  /\ UNCHANGED <<policy, fwPc, todo, attachRet, loaded, live, stuck, audit>>

AllowIP(a) == AllowKey(HostKey(a))
AllowPrefix(c) == AllowKey(PrefixKey(c))

-----------------------------------------------------------------------------
(***************************************************************************)
(* censor_egress, the verdict on a frame in the current state.  A frame is *)
(* filtered when it is IP, long enough to carry the ports, TCP or UDP, and *)
(* not IPv6 multicast.                                                     *)
(***************************************************************************)
Frames ==
  [ip : BOOLEAN, whole : BOOLEAN, proto : {"TCP", "UDP", "ICMPV6", "OTHER"},
   mcast : BOOLEAN, dst : Dests]

handle_v4_filters(f) ==
  f.dst.family = 4 /\ f.whole /\ f.proto \in {"TCP", "UDP"}
handle_v6_filters(f) ==
  f.dst.family = 6 /\ f.whole /\ f.proto \in {"TCP", "UDP"} /\ ~ f.mcast

censor_egress(f) ==
  IF /\ f.ip
     /\ handle_v4_filters(f) \/ handle_v6_filters(f)
     /\ ~ LookupAllow(allow, f.dst)
     /\ audit = 0
  THEN "SHOT" ELSE "OK"

(* What becomes of a frame: without a live hook nothing looks at it.       *)
Dropped(f) == EgressLive /\ censor_egress(f) = "SHOT"

(* An ordinary TCP connection to a destination, and whether it gets out.   *)
TcpFrame(a) ==
  [ip |-> TRUE, whole |-> TRUE, proto |-> "TCP", mcast |-> FALSE, dst |-> a]
Passes(a) == ~ Dropped(TcpFrame(a))

-----------------------------------------------------------------------------
(***************************************************************************)
(* The package on its own: a program that attaches and detaches at will,   *)
(* while other goroutines allow addresses and prefixes.  It does not load  *)
(* a second set of maps beside a filter an earlier detach left behind (the *)
(* agent attaches once in a process).                                      *)
(***************************************************************************)
FwNext ==
  \/ (loaded \/ live = {}) /\ AttachFirewall
  \/ DetachFirewall
  \/ FwStep
  \/ \E a \in Dests : AllowIP(a)
  \/ \E c \in Cidrs : AllowPrefix(c)

FwSpec == FwInit /\ [][FwNext]_fwVars /\ WF_fwVars(FwStep)

(* Types of the package variables, the maps and the kernel attachments.    *)
FwTypeOK ==
  /\ policy \in Policies
  /\ fwPc \in {"idle", "cleanup"} \cup AttachPcs
  /\ todo \in 1 .. 7
  /\ attachRet \in {"none", "ok", "err"}
  /\ loaded \in BOOLEAN
  /\ live \subseteq Resources
  /\ stuck \subseteq {"filter"}
  /\ audit \in {0, 1}
  /\ allow \subseteq Keys

(* Whenever the mutex is free, the package is in one of two states: loaded *)
(* with both connect hooks, an egress hook and the ring buffer reader in   *)
(* place, or with nothing of it left open (never attached, detached, or an *)
(* attach that failed at any of its calls) except a tc filter the kernel   *)
(* refused to delete.                                                      *)
AllOrNothing ==
  MuFree =>
    IF loaded
    THEN {"objs", "connect4", "connect6", "reader"} \subseteq live /\ EgressLive
    ELSE live \subseteq stuck

(* No hook is ever attached to programs whose objects are closed, on the   *)
(* way up, on any error return, or during cleanupPartial, except that same *)
(* filter, which then keeps the program alive by itself.                   *)
HooksHaveObjects == (live \cap Hooks) \ stuck # {} => "objs" \in live

(* In monitor mode no frame is ever dropped, not even while AttachFirewall *)
(* is half way: config is zero (= enforce) until ConfigPut, so it must be  *)
(* written before the egress hook goes live.                               *)
MonitorNeverDrops ==
  policy.mode = "MONITOR" => \A f \in Frames : ~ Dropped(f)

(* Outside monitor mode a live egress hook drops every TCP or UDP frame to *)
(* a destination none of the entries covers: there is no window in which   *)
(* the hook is attached and lets unlisted destinations pass.               *)
EnforceDropsUnlisted ==
  policy.mode # "MONITOR" /\ EgressLive =>
    \A a \in Dests : ~ LookupAllow(allow, a) => ~ Passes(a)

(* While the egress hook stays attached, a destination that was let        *)
(* through is not cut off again: entries are never evicted, also when the  *)
(* maps are full, and the maps are never replaced under the hook.          *)
GrantsPersist ==
  [][EgressLive /\ EgressLive' =>
       \A a \in Dests : LookupAllow(allow, a) => LookupAllow(allow', a)]_fwVars

InCidr(a, c) ==
  /\ a.family = c.addr.family
  /\ \A p \in Positions(a.family) : Rank(p) <= c.len => a.bits[p] = c.addr.bits[p]
Granted(a) ==
  \/ Entry(HostKey(a)) \in allow
  \/ \E c \in Cidrs : InCidr(a, c) /\ Entry(PrefixKey(c)) \in allow

(* The maps mean what was put into them: a lookup finds a destination      *)
(* exactly when AllowIP was called for it or AllowPrefix for a CIDR that   *)
(* contains it (the allow test of bpf/testrun_linux_test.go, both ways).   *)
LookupMatchesGrants ==
  \A a \in Addresses : LookupAllow(allow, a) <=> Granted(a)

(* What the bytes of a key spell on the wire: the address, and the prefix, *)
(* with the bytes of every word reversed on a little-endian host.  There   *)
(* 10.1.0.0/16 becomes 0.0.1.10/16, which is 0.0.0.0/16.                   *)
OnWire(a) ==
  [a EXCEPT !.bits = IF LittleEndian THEN Swapped(a.bits) ELSE a.bits]
CidrOnWire(c) ==
  [addr |-> OnWire([c.addr EXCEPT !.bits = Masked(c.addr.bits, c.len)]),
   len |-> c.len]
LetThrough(a) ==
  \/ \E d \in Dests : a = OnWire(d) /\ Entry(HostKey(d)) \in allow
  \/ \E c \in Cidrs : InCidr(a, CidrOnWire(c)) /\ Entry(PrefixKey(c)) \in allow

(* Of either byte order, whatever mix of addresses and overlapping CIDRs   *)
(* was allowed: a lookup finds a destination exactly when it is the image  *)
(* of an address AllowIP was called for or lies in the image of a CIDR     *)
(* AllowPrefix was called for, the CIDR being masked before it is laid     *)
(* out.  No other destination is let through on account of an entry.       *)
LookupMatchesImages ==
  \A a \in Addresses : LookupAllow(allow, a) <=> LetThrough(a)

(* An AttachFirewall call ends, with the firewall up or, whichever call    *)
(* failed, with everything it had opened closed again.                     *)
AttachSettles ==
  fwPc \in AttachPcs ~> MuFree /\ (loaded \/ live \subseteq stuck)
=============================================================================
