--------------------------- MODULE FirewallProofs ---------------------------
(***************************************************************************)
(* Proofs about Firewall, for every size of bytes, words and addresses,    *)
(* every policy, every set of destinations and CIDRs and every capacity of *)
(* the maps.                                                               *)
(***************************************************************************)
EXTENDS Firewall, FiniteSetTheorems, TLAPS

(***************************************************************************)
(* The inductive invariant: what is open at every step of AttachFirewall   *)
(* and of the cleanup, and what config holds once a packet may meet the    *)
(* egress hook.                                                            *)
(***************************************************************************)
Remaining(k) == UNION {CleanupOrder[i] : i \in k .. 6}

(* What AttachFirewall has opened when it is about to make a call.         *)
AttachInv ==
  fwPc \in AttachPcs =>
    /\ ~ loaded
    /\ stuck = {}
    /\ fwPc \in {"memlock", "load"} => live = {}
    /\ fwPc \in {"config", "connect4"} => live = {"objs"}
    /\ fwPc = "connect6" => live = {"objs", "connect4"}
    /\ fwPc = "egress" => live = {"objs", "connect4", "connect6"}
    /\ fwPc \in {"exec", "reader"} =>
         {"objs", "connect4", "connect6"} \subseteq live /\ EgressLive

CleanupInv ==
  fwPc = "cleanup" =>
    /\ live \ stuck \subseteq Remaining(todo)
    /\ stuck # {} => todo > 3

(* There is one egress hook, a link or a filter; it is stuck only after a  *)
(* detach, and then nothing is loaded beside it.                           *)
StuckInv ==
  /\ ~ EgressHook \subseteq live
  /\ stuck \subseteq live
  /\ loaded /\ MuFree => stuck = {}

(* config agrees with the policy before the egress hook can go live.       *)
AuditInv ==
  EgressLive \/ fwPc \in {"connect4", "connect6", "egress", "exec", "reader"} =>
    audit = IF policy.mode = "MONITOR" THEN 1 ELSE 0

FwInv ==
  /\ FwTypeOK
  /\ AttachInv
  /\ CleanupInv
  /\ StuckInv
  /\ AuditInv
  /\ AllOrNothing
  /\ HooksHaveObjects

-----------------------------------------------------------------------------
(***************************************************************************)
(* Keys.                                                                   *)
(***************************************************************************)
(* The size of an address is a natural number.                             *)
LEMMA AddrBitsNat == \A family \in Families : AddrBits(family) \in Nat
  BY SizeAssumption DEF Families, AddrBits, Words

(* Reversing the bytes of every word leaves the bits bits.                 *)
LEMMA LayoutType ==
  ASSUME NEW family \in Families,
         NEW bits \in [Positions(family) -> {0, 1}]
  PROVE  HostLayout(bits) \in [Positions(family) -> {0, 1}]
<1>1. \A p \in Positions(family) :
        <<p[1], WordBytes + 1 - p[2], p[3]>> \in Positions(family)
  BY SizeAssumption DEF Positions
<1>2. Swapped(bits) \in [Positions(family) -> {0, 1}]
  BY <1>1 DEF Swapped
<1> QED
  BY <1>2 DEF HostLayout

(* Masking leaves the bits bits.                                           *)
LEMMA MaskedType ==
  ASSUME NEW S, NEW bits \in [S -> {0, 1}], NEW len
  PROVE  Masked(bits, len) \in [S -> {0, 1}]
  BY DEF Masked

(* The trie normalises a key to a key.                                     *)
LEMMA EntryType == \A key \in Keys : Entry(key) \in Keys
<1> SUFFICES ASSUME NEW family \in Families, NEW key \in KeysOf(family)
             PROVE  Entry(key) \in KeysOf(family)
  BY DEF Keys, Families
<1>1. Masked(key.data, key.prefixlen) \in [Positions(family) -> {0, 1}]
  BY MaskedType DEF KeysOf
<1> QED
  BY <1>1 DEF Entry, KeysOf

(* AllowIP writes a key.                                                   *)
LEMMA HostKeyType == \A a \in Addresses : HostKey(a) \in Keys
<1> SUFFICES ASSUME NEW family \in Families, NEW a \in AddressesOf(family)
             PROVE  HostKey(a) \in KeysOf(family)
  BY DEF Addresses, Families, Keys
<1>1. HostLayout(a.bits) \in [Positions(family) -> {0, 1}]
  BY LayoutType DEF AddressesOf
<1>2. AddrBits(family) \in 0 .. AddrBits(family)
  BY AddrBitsNat
<1> QED
  BY <1>1, <1>2 DEF HostKey, KeysOf, AddressesOf

(* AllowPrefix writes a key.                                               *)
LEMMA PrefixKeyType == \A c \in Cidrs : PrefixKey(c) \in Keys
<1> SUFFICES ASSUME NEW family \in Families, NEW c \in Cidrs,
                    c.addr \in AddressesOf(family)
             PROVE  PrefixKey(c) \in KeysOf(family)
  BY CidrsAssumption DEF Addresses, Families, Keys
<1>1. Masked(c.addr.bits, c.len) \in [Positions(family) -> {0, 1}]
  BY MaskedType DEF AddressesOf
<1>2. HostLayout(Masked(c.addr.bits, c.len)) \in [Positions(family) -> {0, 1}]
  BY <1>1, LayoutType
<1>3. c.addr.family = family /\ c.len \in 0 .. AddrBits(family)
  BY CidrsAssumption DEF AddressesOf
<1> QED
  BY <1>2, <1>3 DEF PrefixKey, KeysOf

-----------------------------------------------------------------------------
(***************************************************************************)
(* The invariant is inductive.                                             *)
(***************************************************************************)
(* What cleanupPartial has still to close before its k-th step.            *)
LEMMA RemainingIs ==
  /\ Remaining(7) = {}
  /\ Remaining(6) = {"objs"}
  /\ Remaining(5) = {"objs", "connect4"}
  /\ Remaining(4) = {"objs", "connect4", "connect6"}
  /\ Remaining(3) = {"objs", "connect4", "connect6"} \cup EgressHook
  /\ Remaining(2) = {"objs", "connect4", "connect6", "exec"} \cup EgressHook
  /\ Remaining(1) = Resources
<1>1. /\ DOMAIN CleanupOrder = 1 .. 6
      /\ CleanupOrder[1] = {"reader"}
      /\ CleanupOrder[2] = {"exec"}
      /\ CleanupOrder[3] = EgressHook
      /\ CleanupOrder[4] = {"connect6"}
      /\ CleanupOrder[5] = {"connect4"}
      /\ CleanupOrder[6] = {"objs"}
  BY DEF CleanupOrder
<1>2. Remaining(7) = {}
  BY DEF Remaining
<1>3. \A k \in 1 .. 6 : Remaining(k) = CleanupOrder[k] \cup Remaining(k + 1)
  <2> SUFFICES ASSUME NEW k \in 1 .. 6
               PROVE  Remaining(k) = CleanupOrder[k] \cup Remaining(k + 1)
    OBVIOUS
  <2>1. k .. 6 = {k} \cup (k + 1 .. 6)
    OBVIOUS
  <2> QED
    BY <2>1 DEF Remaining
<1>4. Remaining(6) = {"objs"}
  BY <1>1, <1>2, <1>3
<1>5. Remaining(5) = {"objs", "connect4"}
  BY <1>1, <1>4, <1>3
<1>6. Remaining(4) = {"objs", "connect4", "connect6"}
  BY <1>1, <1>5, <1>3
<1>7. Remaining(3) = {"objs", "connect4", "connect6"} \cup EgressHook
  BY <1>1, <1>6, <1>3
<1>8. Remaining(2) = {"objs", "connect4", "connect6", "exec"} \cup EgressHook
  BY <1>1, <1>7, <1>3
<1>9. Remaining(1) = Resources
  BY <1>1 DEF Remaining, Resources
<1> QED
  BY <1>2, <1>4, <1>5, <1>6, <1>7, <1>8, <1>9

(* The names of everything AttachFirewall opens.                           *)
LEMMA ResourcesAre ==
  /\ Resources = {"objs", "connect4", "connect6", "exec", "reader"} \cup EgressHook
  /\ Hooks = {"connect4", "connect6", "exec"} \cup EgressHook
<1>1. DOMAIN CleanupOrder = 1 .. 6
  BY DEF CleanupOrder
<1>2. Remaining(1) = CleanupOrder[1] \cup Remaining(2)
  <2>1. 1 .. 6 = {1} \cup (2 .. 6)
    OBVIOUS
  <2> QED
    BY <2>1 DEF Remaining
<1>3. CleanupOrder[1] = {"reader"}
  BY DEF CleanupOrder
<1>4. Resources = {"objs", "connect4", "connect6", "exec", "reader"} \cup EgressHook
  BY <1>2, <1>3, RemainingIs
<1> QED
  BY <1>4 DEF Hooks, EgressHook

(* The initial states satisfy the invariant.                               *)
LEMMA FwInvInit == FwInit => FwInv
<1> SUFFICES ASSUME FwInit PROVE FwInv
  OBVIOUS
<1>1. todo = 7
  BY DEF FwInit, CleanupOrder
<1>2. FwTypeOK
  <2>1. loaded \in BOOLEAN /\ live \subseteq Resources /\ allow \subseteq Keys
    BY DEF FwInit
  <2>2. fwPc \in {"idle", "cleanup"} \cup AttachPcs /\ policy \in Policies
    BY DEF FwInit
  <2>3. attachRet \in {"none", "ok", "err"} /\ stuck \subseteq {"filter"}
    BY DEF FwInit
  <2>4. audit \in {0, 1}
    BY DEF FwInit
  <2> QED
    BY <1>1, <2>1, <2>2, <2>3, <2>4 DEF FwTypeOK
<1>3. AttachInv /\ CleanupInv
  BY DEF FwInit, AttachInv, CleanupInv, AttachPcs
<1>4. StuckInv /\ AllOrNothing /\ HooksHaveObjects
  BY DEF FwInit, StuckInv, AllOrNothing, HooksHaveObjects, MuFree, EgressHook
<1>5. AuditInv
  BY DEF FwInit, AuditInv, EgressLive
<1> QED
  BY <1>2, <1>3, <1>4, <1>5 DEF FwInv

(* An error return of AttachFirewall that closes enough.                   *)
LEMMA FailKeepsInv ==
  ASSUME FwInv, fwPc \in AttachPcs,
         NEW k \in 1 .. 7, Fail(k), live \subseteq Remaining(k)
  PROVE  FwInv'
<1>1. FwTypeOK'
  BY DEF FwInv, FwTypeOK, Fail
<1>2. AttachInv'
  BY DEF Fail, AttachInv, AttachPcs
<1>3. CleanupInv'
  BY DEF FwInv, Fail, AttachInv, CleanupInv, Remaining
<1>4. StuckInv' /\ AllOrNothing' /\ HooksHaveObjects'
  BY DEF FwInv, Fail, StuckInv, AllOrNothing, HooksHaveObjects, MuFree
<1>5. AuditInv'
  BY DEF FwInv, Fail, AuditInv, EgressLive
<1> QED
  BY <1>1, <1>2, <1>3, <1>4, <1>5 DEF FwInv

(* Each system call of AttachFirewall.                                     *)
LEMMA AttachKeepsInv ==
  ASSUME FwInv,
         \/ (loaded \/ live = {}) /\ AttachFirewall
         \/ RemoveMemlock \/ LoadCensorObjects \/ ConfigPut
         \/ AttachConnect4 \/ AttachConnect6 \/ AttachEgress \/ AttachExec
         \/ NewReader
  PROVE  FwInv'
<1> USE DEF FwInv
<1>1. CASE (loaded \/ live = {}) /\ AttachFirewall
  <2>1. FwTypeOK'
    BY <1>1 DEF AttachFirewall, FwTypeOK, AttachPcs
  <2>2. AttachInv' /\ CleanupInv'
    BY <1>1 DEF AttachFirewall, AttachInv, CleanupInv, StuckInv, AttachPcs,
         MuFree, EgressLive
  <2>3. StuckInv' /\ AllOrNothing' /\ HooksHaveObjects'
    BY <1>1 DEF AttachFirewall, StuckInv, AllOrNothing, HooksHaveObjects,
         MuFree, EgressLive
  <2>4. AuditInv'
    BY <1>1 DEF AttachFirewall, AuditInv, EgressLive, MuFree
  <2> QED
    BY <2>1, <2>2, <2>3, <2>4
<1>2. CASE RemoveMemlock
  <2>1. fwPc \in AttachPcs /\ live = {} /\ live \subseteq Remaining(7)
    BY <1>2 DEF RemoveMemlock, AttachPcs, AttachInv
  <2>2. CASE Goto("load") /\ UNCHANGED <<live, audit, allow>>
    <3>1. FwTypeOK'
      BY <2>2 DEF Goto, FwTypeOK, AttachPcs
    <3>2. AttachInv' /\ CleanupInv'
      BY <1>2, <2>1, <2>2 DEF Goto, AttachInv, CleanupInv, AttachPcs
    <3>3. StuckInv' /\ AllOrNothing' /\ HooksHaveObjects' /\ AuditInv'
      BY <2>1, <2>2 DEF Goto, StuckInv, AllOrNothing, HooksHaveObjects, AuditInv,
           MuFree, EgressLive
    <3> QED
      BY <3>1, <3>2, <3>3
  <2> QED
    BY <1>2, <2>1, <2>2, FailKeepsInv DEF RemoveMemlock
<1>3. CASE LoadCensorObjects
  <2>1. fwPc \in AttachPcs /\ live = {} /\ live \subseteq Remaining(7)
    BY <1>3 DEF LoadCensorObjects, AttachPcs, AttachInv
  <2>2. CASE /\ Goto("config")
             /\ live' = live \cup {"objs"}
             /\ audit' = 0
             /\ allow' = {}
    <3>1. FwTypeOK'
      BY <2>2, ResourcesAre DEF Goto, FwTypeOK, AttachPcs
    <3>2. AttachInv' /\ CleanupInv'
      BY <2>1, <2>2 DEF Goto, AttachInv, CleanupInv, AttachPcs
    <3>3. StuckInv' /\ AllOrNothing' /\ HooksHaveObjects' /\ AuditInv'
      BY <2>1, <2>2 DEF Goto, StuckInv, AllOrNothing, HooksHaveObjects, AuditInv,
           MuFree, EgressLive, EgressHook
    <3> QED
      BY <3>1, <3>2, <3>3
  <2> QED
    BY <1>3, <2>1, <2>2, FailKeepsInv DEF LoadCensorObjects
<1>4. CASE ConfigPut
  <2>1. fwPc \in AttachPcs /\ live = {"objs"} /\ live \subseteq Remaining(6)
    BY <1>4, RemainingIs DEF ConfigPut, AttachPcs, AttachInv
  <2>2. CASE /\ Goto("connect4")
             /\ audit' = IF policy.mode = "MONITOR" THEN 1 ELSE 0
             /\ UNCHANGED <<live, allow>>
    <3>1. FwTypeOK'
      BY <2>2 DEF Goto, FwTypeOK, AttachPcs
    <3>2. AttachInv' /\ CleanupInv'
      BY <2>1, <2>2 DEF Goto, AttachInv, CleanupInv, AttachPcs
    <3>3. StuckInv' /\ AllOrNothing' /\ HooksHaveObjects' /\ AuditInv'
      BY <2>1, <2>2 DEF Goto, StuckInv, AllOrNothing, HooksHaveObjects, AuditInv,
           MuFree
    <3> QED
      BY <3>1, <3>2, <3>3
  <2> QED
    BY <1>4, <2>1, <2>2, FailKeepsInv DEF ConfigPut
<1>5. CASE AttachConnect4
  <2>1. fwPc \in AttachPcs /\ live = {"objs"} /\ live \subseteq Remaining(6)
    BY <1>5, RemainingIs DEF AttachConnect4, Attach, AttachPcs, AttachInv
  <2>2. CASE /\ Goto("connect6")
             /\ live' = live \cup {"connect4"}
             /\ UNCHANGED <<audit, allow>>
    <3>1. FwTypeOK'
      BY <2>2, ResourcesAre DEF Goto, FwTypeOK, AttachPcs
    <3>2. AttachInv' /\ CleanupInv'
      BY <2>1, <2>2 DEF Goto, AttachInv, CleanupInv, AttachPcs
    <3>3. StuckInv' /\ AllOrNothing' /\ HooksHaveObjects' /\ AuditInv'
      BY <1>5, <2>1, <2>2 DEF AttachConnect4, Attach, Goto, StuckInv,
           AllOrNothing, HooksHaveObjects, AuditInv, MuFree, EgressHook
    <3> QED
      BY <3>1, <3>2, <3>3
  <2> QED
    BY <1>5, <2>1, <2>2, FailKeepsInv DEF AttachConnect4, Attach
<1>6. CASE AttachConnect6
  <2>1. /\ fwPc \in AttachPcs
        /\ live = {"objs", "connect4"}
        /\ live \subseteq Remaining(5)
    BY <1>6, RemainingIs DEF AttachConnect6, Attach, AttachPcs, AttachInv
  <2>2. CASE /\ Goto("egress")
             /\ live' = live \cup {"connect6"}
             /\ UNCHANGED <<audit, allow>>
    <3>1. FwTypeOK'
      BY <2>2, ResourcesAre DEF Goto, FwTypeOK, AttachPcs
    <3>2. AttachInv' /\ CleanupInv'
      BY <2>1, <2>2 DEF Goto, AttachInv, CleanupInv, AttachPcs
    <3>3. StuckInv' /\ AllOrNothing' /\ HooksHaveObjects' /\ AuditInv'
      BY <1>6, <2>1, <2>2 DEF AttachConnect6, Attach, Goto, StuckInv,
           AllOrNothing, HooksHaveObjects, AuditInv, MuFree, EgressHook
    <3> QED
      BY <3>1, <3>2, <3>3
  <2> QED
    BY <1>6, <2>1, <2>2, FailKeepsInv DEF AttachConnect6, Attach
<1>7. CASE AttachEgress
  <2>1. PICK hook \in EgressHook : Attach("egress", hook, "exec", 4)
    BY <1>7 DEF AttachEgress
  <2>2. /\ fwPc \in AttachPcs
        /\ live = {"objs", "connect4", "connect6"}
        /\ live \subseteq Remaining(4)
    BY <2>1, RemainingIs DEF Attach, AttachPcs, AttachInv
  <2>3. CASE /\ Goto("exec")
             /\ live' = live \cup {hook}
             /\ UNCHANGED <<audit, allow>>
    <3>1. FwTypeOK'
      BY <2>3, ResourcesAre DEF Goto, FwTypeOK, AttachPcs
    <3>2. AttachInv' /\ CleanupInv'
      BY <2>2, <2>3 DEF Goto, AttachInv, CleanupInv, AttachPcs, EgressLive
    <3>3. StuckInv' /\ AllOrNothing' /\ HooksHaveObjects' /\ AuditInv'
      BY <2>1, <2>2, <2>3 DEF Attach, Goto, StuckInv, AllOrNothing,
           HooksHaveObjects, AuditInv, MuFree, EgressHook
    <3> QED
      BY <3>1, <3>2, <3>3
  <2> QED
    BY <2>1, <2>2, <2>3, FailKeepsInv DEF Attach
<1>8. CASE AttachExec
  <2>1. /\ fwPc \in AttachPcs
        /\ {"objs", "connect4", "connect6"} \subseteq live
        /\ EgressLive
    BY <1>8 DEF AttachExec, AttachPcs, AttachInv
  <2>2. live \subseteq live' /\ live' \subseteq live \cup {"exec"}
    BY <1>8 DEF AttachExec
  <2>3. FwTypeOK'
    BY <1>8, <2>2, ResourcesAre DEF AttachExec, Goto, FwTypeOK, AttachPcs
  <2>4. AttachInv' /\ CleanupInv'
    BY <1>8, <2>1, <2>2 DEF AttachExec, Goto, AttachInv, CleanupInv, AttachPcs,
         EgressLive
  <2>5. StuckInv' /\ AllOrNothing' /\ HooksHaveObjects' /\ AuditInv'
    BY <1>8, <2>1, <2>2 DEF AttachExec, Goto, StuckInv, AllOrNothing,
         HooksHaveObjects, AuditInv, MuFree, EgressHook
  <2> QED
    BY <2>3, <2>4, <2>5
<1>9. CASE NewReader
  <2>1. /\ fwPc \in AttachPcs
        /\ {"objs", "connect4", "connect6"} \subseteq live
        /\ EgressLive
        /\ stuck = {}
        /\ live \subseteq Remaining(1)
    BY <1>9, RemainingIs DEF NewReader, AttachPcs, AttachInv, FwTypeOK
  <2>2. CASE /\ fwPc' = "idle"
             /\ attachRet' = "ok"
             /\ loaded' = TRUE
             /\ live' = live \cup {"reader"}
             /\ UNCHANGED <<policy, todo, stuck, audit, allow>>
    <3>1. FwTypeOK'
      BY <2>2, ResourcesAre DEF FwTypeOK
    <3>2. AttachInv' /\ CleanupInv'
      BY <2>2 DEF AttachInv, CleanupInv, AttachPcs
    <3>3. StuckInv' /\ AllOrNothing' /\ HooksHaveObjects' /\ AuditInv'
      BY <1>9, <2>1, <2>2 DEF NewReader, StuckInv, AllOrNothing,
           HooksHaveObjects, AuditInv, MuFree, EgressLive, EgressHook
    <3> QED
      BY <3>1, <3>2, <3>3
  <2>3. CASE Fail(1)
    BY <2>1, <2>3, FailKeepsInv
  <2> QED
    BY <1>9, <2>2, <2>3, Zenon DEF NewReader
<1> QED
  BY <1>1, <1>2, <1>3, <1>4, <1>5, <1>6, <1>7, <1>8, <1>9

(* DetachFirewall and the steps of cleanupPartial.                         *)
LEMMA DetachKeepsInv ==
  ASSUME FwInv, DetachFirewall \/ CleanupStep \/ CleanupEnd
  PROVE  FwInv'
<1> USE DEF FwInv
<1>1. CASE DetachFirewall
  <2>1. FwTypeOK'
    BY <1>1 DEF DetachFirewall, FwTypeOK
  <2>2. AttachInv' /\ CleanupInv'
    BY <1>1, RemainingIs DEF DetachFirewall, AttachInv, CleanupInv, FwTypeOK,
         StuckInv, AttachPcs, MuFree
  <2>3. StuckInv' /\ AllOrNothing' /\ HooksHaveObjects' /\ AuditInv'
    BY <1>1 DEF DetachFirewall, StuckInv, AllOrNothing, HooksHaveObjects,
         AuditInv, MuFree, EgressLive
  <2> QED
    BY <2>1, <2>2, <2>3
<1>2. CASE CleanupStep
  <2>1. todo \in 1 .. 6
    BY <1>2 DEF CleanupStep, CleanupOrder
  <2>2. Remaining(todo) = CleanupOrder[todo] \cup Remaining(todo + 1)
    <3>1. todo .. 6 = {todo} \cup (todo + 1 .. 6)
      BY <2>1
    <3> QED
      BY <2>1, <3>1 DEF Remaining
  <2>3. FwTypeOK'
    <3>1. live' \subseteq Resources /\ stuck' \subseteq {"filter"}
      BY <1>2 DEF CleanupStep, FwTypeOK
    <3>2. todo' \in 1 .. 7
      BY <1>2, <2>1 DEF CleanupStep
    <3> QED
      BY <1>2, <3>1, <3>2 DEF CleanupStep, FwTypeOK
  <2>4. AttachInv'
    BY <1>2 DEF CleanupStep, AttachInv, AttachPcs
  <2>5. CleanupInv'
    <3>1. live' \ stuck' \subseteq (live \ stuck) \ CleanupOrder[todo]
      <4>1. CASE live' = live \ CleanupOrder[todo] /\ UNCHANGED stuck
        BY <4>1
      <4>2. CASE /\ "filter" \in live \cap CleanupOrder[todo]
                 /\ stuck' = stuck \cup {"filter"}
                 /\ UNCHANGED live
        <5>1. CleanupOrder[todo] = EgressHook
          BY <2>1, <4>2 DEF CleanupOrder
        <5> QED
          BY <4>2, <5>1 DEF StuckInv, EgressHook
      <4> QED
        BY <1>2, <4>1, <4>2 DEF CleanupStep
    <3>2. live \ stuck \subseteq Remaining(todo)
      BY <1>2 DEF CleanupStep, CleanupInv
    <3>3. live' \ stuck' \subseteq Remaining(todo')
      BY <1>2, <2>2, <3>1, <3>2 DEF CleanupStep
    <3>4. stuck' # {} => todo' > 3
      <4>1. stuck' # stuck => todo = 3
        BY <1>2, <2>1 DEF CleanupStep, CleanupOrder
      <4> QED
        BY <1>2, <2>1, <4>1 DEF CleanupStep, CleanupInv
    <3> QED
      BY <3>3, <3>4 DEF CleanupInv, Remaining
  <2>6. StuckInv'
    <3>1. stuck \cap CleanupOrder[todo] = {}
      BY <1>2, <2>1 DEF CleanupStep, CleanupOrder, CleanupInv, FwTypeOK
    <3>2. stuck' \subseteq live'
      BY <1>2, <3>1 DEF CleanupStep, StuckInv
    <3> QED
      BY <1>2, <3>2 DEF CleanupStep, StuckInv, MuFree
  <2>7. AllOrNothing'
    BY <1>2 DEF CleanupStep, AllOrNothing, MuFree
  <2>8. HooksHaveObjects'
    <3>1. (live' \cap Hooks) \ stuck' \subseteq (live \cap Hooks) \ stuck
      BY <1>2 DEF CleanupStep
    <3>2. CASE todo = 6
      <4>1. live \ stuck \subseteq {"objs"}
        BY <1>2, <3>2, RemainingIs DEF CleanupStep, CleanupInv
      <4> QED
        BY <3>1, <4>1, ResourcesAre DEF HooksHaveObjects, EgressHook
    <3>3. CASE todo # 6
      <4>1. "objs" \in live => "objs" \in live'
        BY <1>2, <2>1, <3>3 DEF CleanupStep, CleanupOrder, EgressHook
      <4> QED
        BY <3>1, <4>1 DEF HooksHaveObjects
    <3> QED
      BY <3>2, <3>3
  <2>9. AuditInv'
    BY <1>2 DEF CleanupStep, AuditInv, EgressLive
  <2> QED
    BY <2>3, <2>4, <2>5, <2>6, <2>7, <2>8, <2>9
<1>3. CASE CleanupEnd
  <2>1. todo = 7
    BY <1>3 DEF CleanupEnd, CleanupOrder, FwTypeOK
  <2>2. live \subseteq stuck
    BY <1>3, <2>1, RemainingIs DEF CleanupEnd, CleanupInv
  <2>3. FwTypeOK'
    BY <1>3 DEF CleanupEnd, FwTypeOK
  <2>4. AttachInv' /\ CleanupInv'
    BY <1>3 DEF CleanupEnd, AttachInv, CleanupInv, AttachPcs
  <2>5. StuckInv' /\ AllOrNothing' /\ HooksHaveObjects' /\ AuditInv'
    BY <1>3, <2>2 DEF CleanupEnd, StuckInv, AllOrNothing, HooksHaveObjects,
         AuditInv, MuFree, EgressLive
  <2> QED
    BY <2>3, <2>4, <2>5
<1> QED
  BY <1>1, <1>2, <1>3

(* AllowIP and AllowPrefix write keys and nothing else.                    *)
LEMMA AllowKeepsInv ==
  ASSUME FwInv, NEW key \in Keys, AllowKey(key)
  PROVE  FwInv'
<1>1. allow' \subseteq Keys
  BY EntryType DEF FwInv, FwTypeOK, AllowKey, Put
<1>2. FwTypeOK'
  BY <1>1 DEF FwInv, FwTypeOK, AllowKey
<1>3. AttachInv' /\ CleanupInv'
  BY DEF FwInv, AllowKey, AttachInv, CleanupInv, Remaining, EgressLive
<1>4. StuckInv' /\ AllOrNothing' /\ HooksHaveObjects' /\ AuditInv'
  BY DEF FwInv, AllowKey, StuckInv, AllOrNothing, HooksHaveObjects, AuditInv,
       MuFree, EgressLive
<1> QED
  BY <1>2, <1>3, <1>4 DEF FwInv

(* Every step of the firewall preserves the invariant.                     *)
LEMMA FwInvStep == FwInv /\ [FwNext]_fwVars => FwInv'
<1> SUFFICES ASSUME FwInv, [FwNext]_fwVars PROVE FwInv'
  OBVIOUS
<1>1. CASE (loaded \/ live = {}) /\ AttachFirewall
  BY <1>1, AttachKeepsInv
<1>2. CASE DetachFirewall
  BY <1>2, DetachKeepsInv
<1>3. CASE FwStep
  BY <1>3, AttachKeepsInv, DetachKeepsInv DEF FwStep
<1>4. ASSUME NEW a \in Dests, AllowIP(a) PROVE FwInv'
  BY <1>4, DestsAssumption, HostKeyType, AllowKeepsInv DEF AllowIP
<1>5. ASSUME NEW c \in Cidrs, AllowPrefix(c) PROVE FwInv'
  BY <1>5, PrefixKeyType, AllowKeepsInv DEF AllowPrefix
<1>6. CASE UNCHANGED fwVars
  BY <1>6 DEF fwVars, FwInv, FwTypeOK, AttachInv, CleanupInv, StuckInv,
       AllOrNothing, HooksHaveObjects, AuditInv, MuFree, EgressLive, Remaining
<1> QED
  BY <1>1, <1>2, <1>3, <1>4, <1>5, <1>6 DEF FwNext

(* The inductive invariant holds in every reachable state.                 *)
THEOREM FwInvariance == FwSpec => []FwInv
  BY FwInvInit, FwInvStep, PTL DEF FwSpec

-----------------------------------------------------------------------------
(***************************************************************************)
(* What follows for the code.                                              *)
(***************************************************************************)
(* The variables of the package, the maps and the kernel attachments keep  *)
(* their types; in particular every entry of the allow maps is a key of    *)
(* its family, whatever addresses and CIDRs the agent is given.            *)
THEOREM FwTypeCorrect == FwSpec => []FwTypeOK
  BY FwInvariance, PTL DEF FwInv

(* AttachFirewall and DetachFirewall are all or nothing: whichever of the  *)
(* calls failed, a free mutex means a complete firewall or none.           *)
THEOREM AttachIsAllOrNothing == FwSpec => []AllOrNothing
  BY FwInvariance, PTL DEF FwInv

(* The order of cleanupPartial and of the error returns of AttachFirewall  *)
(* never closes the objects under an attached hook.                        *)
THEOREM HooksKeepObjects == FwSpec => []HooksHaveObjects
  BY FwInvariance, PTL DEF FwInv

(* The conjuncts of the invariant give the verdicts of censor_egress.      *)
LEMMA FwInvImplies == FwInv => MonitorNeverDrops /\ EnforceDropsUnlisted
<1>1. FwInv => MonitorNeverDrops
  BY DEF FwInv, AuditInv, MonitorNeverDrops, Dropped, censor_egress
<1>2. FwInv => EnforceDropsUnlisted
  <2> SUFFICES ASSUME FwInv, policy.mode # "MONITOR", EgressLive,
                      NEW a \in Dests, ~ LookupAllow(allow, a)
               PROVE  ~ Passes(a)
    BY DEF EnforceDropsUnlisted
  <2>1. audit = 0
    BY DEF FwInv, AuditInv
  <2>2. a.family \in {4, 6}
    BY DestsAssumption DEF Addresses, AddressesOf
  <2>3. handle_v4_filters(TcpFrame(a)) \/ handle_v6_filters(TcpFrame(a))
    BY <2>2 DEF handle_v4_filters, handle_v6_filters, TcpFrame
  <2>4. censor_egress(TcpFrame(a)) = "SHOT"
    BY <2>1, <2>3 DEF censor_egress, TcpFrame
  <2> QED
    BY <2>4 DEF Passes, Dropped
<1> QED
  BY <1>1, <1>2

(* AttachFirewall writes config before the egress hook goes live: monitor  *)
(* mode never drops a frame.                                               *)
THEOREM MonitorIsPassive == FwSpec => []MonitorNeverDrops
  BY FwInvImplies, FwInvariance, PTL

(* Outside monitor mode a live egress hook drops every frame to an address *)
(* that is not on the list, from the instant it is attached.               *)
THEOREM EnforceIsStrict == FwSpec => []EnforceDropsUnlisted
  BY FwInvImplies, FwInvariance, PTL

(* While the egress hook stays attached no destination loses its grant:    *)
(* neither a full map nor a second attach takes an entry away.             *)
THEOREM GrantsArePermanent == FwSpec => GrantsPersist
<1>1. ASSUME FwInv, FwNext, EgressLive
      PROVE  allow \subseteq allow'
  <2>1. ASSUME NEW key, AllowKey(key) PROVE allow \subseteq allow'
    BY <2>1 DEF AllowKey, Put
  <2>2. CASE LoadCensorObjects
    BY <1>1, <2>2 DEF LoadCensorObjects, FwInv, AttachInv, AttachPcs, EgressLive
  <2>3. CASE FwStep /\ ~ LoadCensorObjects
    BY <2>3 DEF FwStep, RemoveMemlock, ConfigPut, AttachConnect4,
         AttachConnect6, AttachEgress, Attach, AttachExec, NewReader,
         CleanupStep, CleanupEnd, Fail, Goto
  <2>4. CASE AttachFirewall \/ DetachFirewall
    BY <2>4 DEF AttachFirewall, DetachFirewall
  <2> QED
    BY <1>1, <2>1, <2>2, <2>3, <2>4 DEF FwNext, FwStep, AllowIP, AllowPrefix
<1>2. FwInv /\ [FwNext]_fwVars =>
        [EgressLive /\ EgressLive' =>
           \A a \in Dests : LookupAllow(allow, a) => LookupAllow(allow', a)]_fwVars
  <2> SUFFICES ASSUME FwInv, FwNext, EgressLive, NEW a \in Dests,
                      LookupAllow(allow, a)
               PROVE  LookupAllow(allow', a)
    OBVIOUS
  <2> QED
    BY <1>1 DEF LookupAllow
<1> QED
  BY <1>2, FwInvariance, PTL DEF FwSpec, GrantsPersist

-----------------------------------------------------------------------------
(***************************************************************************)
(* The allow maps between two states.                                      *)
(***************************************************************************)
MapsFinite == IsFiniteSet(allow)

(* A call of AllowIP or AllowPrefix adds one entry or none.                *)
LEMMA PutAdds ==
  ASSUME NEW key, AllowKey(key)
  PROVE  allow' \in {allow, allow \cup {Entry(key)}}
  BY DEF AllowKey, Put

(* The calls that hold the mutex add nothing; loading starts afresh.       *)
LEMMA FwStepAddsNothing ==
  ASSUME FwStep \/ AttachFirewall \/ DetachFirewall
  PROVE  allow' \in {allow, {}}
<1>1. CASE RemoveMemlock \/ LoadCensorObjects \/ ConfigPut \/ AttachExec \/ NewReader
  BY <1>1 DEF RemoveMemlock, LoadCensorObjects, ConfigPut, AttachExec, NewReader, Fail
<1>2. CASE AttachConnect4 \/ AttachConnect6 \/ AttachEgress
  BY <1>2 DEF AttachConnect4, AttachConnect6, AttachEgress, Attach, Fail
<1>3. CASE CleanupStep \/ CleanupEnd \/ AttachFirewall \/ DetachFirewall
  BY <1>3 DEF CleanupStep, CleanupEnd, AttachFirewall, DetachFirewall
<1> QED
  BY <1>1, <1>2, <1>3 DEF FwStep

(* A map that is full stays full while entries are only added.             *)
LEMMA FullStaysFull ==
  ASSUME NEW family, MapsFinite', allow \subseteq allow', MapFull(family)
  PROVE  MapFull(family)'
<1> DEFINE S == {e \in allow : e.family = family}
           T == {e \in allow' : e.family = family}
<1>1. IsFiniteSet(T)
  <2>1. T \in SUBSET allow'
    OBVIOUS
  <2> QED
    BY <2>1, FS_Subset DEF MapsFinite
<1>2. S \in SUBSET T
  OBVIOUS
<1>3. IsFiniteSet(S) /\ Cardinality(S) <= Cardinality(T)
  BY <1>1, <1>2, FS_Subset
<1>4. Cardinality(S) \in Nat /\ Cardinality(T) \in Nat
  BY <1>1, <1>3, FS_CardinalityType
<1>5. Cardinality(S) >= MaxEntries
  BY DEF MapFull
<1> HIDE DEF S, T
<1>6. Cardinality(T) >= MaxEntries
  BY <1>3, <1>4, <1>5, EntriesAssumption
<1> QED
  BY <1>6 DEF MapFull, T

(* The maps of a loaded firewall only grow, and stay finite.               *)
LEMMA MapsGrow ==
  ASSUME FwInv, MapsFinite, [FwNext]_fwVars
  PROVE  MapsFinite' /\ (loaded => allow \subseteq allow')
<1>1. ASSUME NEW key, AllowKey(key)
      PROVE  MapsFinite' /\ allow \subseteq allow'
  BY <1>1, PutAdds, FS_AddElement DEF MapsFinite
<1>2. CASE FwStep \/ AttachFirewall \/ DetachFirewall
  <2>1. MapsFinite'
    BY <1>2, FwStepAddsNothing, FS_EmptySet DEF MapsFinite
  <2>2. loaded => allow' = allow
    <3>1. CASE LoadCensorObjects
      BY <3>1 DEF LoadCensorObjects, FwInv, AttachInv, AttachPcs
    <3>2. CASE RemoveMemlock \/ ConfigPut \/ AttachExec \/ NewReader
      BY <3>2 DEF RemoveMemlock, ConfigPut, AttachExec, NewReader, Fail
    <3>3. CASE AttachConnect4 \/ AttachConnect6 \/ AttachEgress
      BY <3>3 DEF AttachConnect4, AttachConnect6, AttachEgress, Attach, Fail
    <3>4. CASE CleanupStep \/ CleanupEnd \/ AttachFirewall \/ DetachFirewall
      BY <3>4 DEF CleanupStep, CleanupEnd, AttachFirewall, DetachFirewall
    <3> QED
      BY <1>2, <3>1, <3>2, <3>3, <3>4 DEF FwStep
  <2> QED
    BY <2>1, <2>2
<1>3. CASE UNCHANGED fwVars
  BY <1>3 DEF fwVars, MapsFinite
<1> QED
  BY <1>1, <1>2, <1>3 DEF FwNext, AllowIP, AllowPrefix
=============================================================================
