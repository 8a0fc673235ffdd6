--------------------------- MODULE PipelineProofs ---------------------------
(***************************************************************************)
(* Proofs about EventPipeline and ApiRetry, for every size of ring and     *)
(* channel, any number of attempts, processes, events and lines: what the  *)
(* retries may do, what the log says of the packets, what an upload holds, *)
(* and that the pipeline implements LossyLog.                              *)
(***************************************************************************)
EXTENDS EventPipeline, LookupProofs, SequenceTheorems

-----------------------------------------------------------------------------
(***************************************************************************)
(* The API client.                                                         *)
(***************************************************************************)
Success == {200, 201, 202, 204}
Final == Success \cup ((400 .. 499) \ {408, 429})

(* The client has heard nothing about the attempts to come, and about the  *)
(* one it backs off from nothing that would be final.                      *)
ApiInv ==
  /\ ApiTypeOK
  /\ RetriesAreJustified
  /\ \A i \in 1 .. Attempts : i > attempt => heard[i] = 0
  /\ apiPc \in {"idle", "try", "wait"} => heard[attempt] = 0
  /\ apiPc = "backoff" => attempt < Attempts /\ heard[attempt] \notin Final
  /\ apiPc # "returned" => apiRet = "none"
  /\ apiPc = "idle" => flight = {} /\ arrived = {}

(* The classes of the codes, and which of them are tried again.            *)
LEMMA Classes ==
  ASSUME NEW status \in Codes
  PROVE  /\ ClassifyStatus(status) = "none" => status \in Success
         /\ Retryable(ClassifyStatus(status)) => status \notin Final
  BY CodesAssumption DEF ClassifyStatus, Retryable, Success, Final

(* RetriesAreJustified in these terms.                                     *)
LEMMA Justified ==
  /\ RetriesAreJustified <=>
       /\ \A i \in 1 .. attempt - 1 : heard[i] \notin Final
       /\ apiRet = "ok" => attempt \in arrived /\ heard[attempt] \in Success
  /\ RetriesAreJustified' <=>
       /\ \A i \in 1 .. attempt' - 1 : heard'[i] \notin Final
       /\ apiRet' = "ok" => attempt' \in arrived' /\ heard'[attempt'] \in Success
  BY DEF RetriesAreJustified, Final, Success

(* A call starts, and ends, with a clean slate.                            *)
LEMMA ResetKeepsApi ==
  ASSUME NEW pc \in ApiPcs \ {"backoff"}, Reset(pc), op' \in {"fetch", "upload"}
  PROVE  ApiInv'
  BY AttemptsAssumption DEF Reset, ApiInv, ApiTypeOK, ApiPcs, RetriesAreJustified

(* An attempt that failed is repeated only when its class allows it and    *)
(* there is one left.                                                      *)
LEMMA FailedOutcome ==
  ASSUME NEW class, AttemptFailed(class)
  PROVE  \/ /\ Retryable(class) /\ attempt < Attempts
            /\ apiPc' = "backoff" /\ apiRet' = apiRet
         \/ apiPc' = "returned" /\ apiRet' = "error"
  BY DEF AttemptFailed, Return

(* Each step of the client, and each arrival, keeps the bookkeeping.       *)
LEMMA ClientKeepsApi ==
  ASSUME ApiInv, NEW done, ClientStep(done) \/ Arrive
  PROVE  ApiInv'
<1>0. /\ attempt \in 1 .. Attempts /\ heard \in [1 .. Attempts -> Codes \cup {0}]
      /\ 0 \notin Final /\ op' = op
  BY DEF ApiInv, ApiTypeOK, Final, Success, ClientStep, Try, Answered, Broken,
     Backoff, Arrive
<1>1. ASSUME apiPc \in {"try", "wait"}, UNCHANGED <<op, attempt, arrived, heard>>,
             flight' \subseteq flight \cup {attempt},
             \/ apiPc' = "backoff" /\ attempt < Attempts /\ apiRet' = apiRet
             \/ apiPc' = "wait" /\ apiRet' = apiRet
             \/ apiPc' = "returned" /\ apiRet' = "error"
      PROVE  ApiInv'
  BY <1>0, <1>1, AttemptsAssumption DEF ApiInv, ApiTypeOK, ApiPcs,
     RetriesAreJustified
<1>2. CASE Try(done)
  BY <1>1, <1>2, FailedOutcome DEF Try, Return
<1>3. CASE Broken
  BY <1>1, <1>3, FailedOutcome DEF Broken, Return
<1>4. CASE Answered
  <2>1. PICK status \in Codes :
          LET class == ClassifyStatus(status) IN
          /\ heard' = [heard EXCEPT ![attempt] = status]
          /\ \/ class = "none" /\ Return("ok")
             \/ class = "none" /\ op = "fetch" /\ AttemptFailed("client")
             \/ class # "none" /\ AttemptFailed(class)
    BY <1>4 DEF Answered
  <2>2. /\ attempt \in arrived /\ apiPc = "wait"
        /\ UNCHANGED <<op, attempt, flight, arrived>>
    BY <1>4 DEF Answered
  <2>3. \/ apiPc' = "returned" /\ apiRet' = "ok" /\ status \in Success
        \/ apiPc' = "returned" /\ apiRet' = "error"
        \/ apiPc' = "backoff" /\ attempt < Attempts /\ apiRet' = apiRet /\ status \notin Final
    <3> DEFINE class == ClassifyStatus(status)
    <3>0. ~ Retryable("client")
      BY DEF Retryable
    <3>1. CASE class = "none" /\ Return("ok")
      BY <3>1, Classes DEF Return
    <3>2. CASE AttemptFailed("client")
      BY <3>0, <3>2, FailedOutcome
    <3>3. CASE AttemptFailed(class)
      <4>1. \/ /\ Retryable(class) /\ attempt < Attempts
               /\ apiPc' = "backoff" /\ apiRet' = apiRet
            \/ apiPc' = "returned" /\ apiRet' = "error"
        BY <3>3, FailedOutcome
      <4> QED
        BY <4>1, Classes
    <3> QED
      BY <2>1, <3>1, <3>2, <3>3
  <2>4. /\ heard' \in [1 .. Attempts -> Codes \cup {0}] /\ heard'[attempt] = status
        /\ \A i \in 1 .. Attempts : i # attempt => heard'[i] = heard[i]
    BY <1>0, <2>1
  <2>5. ApiTypeOK'
    BY <1>0, <2>2, <2>3, <2>4, AttemptsAssumption DEF ApiInv, ApiTypeOK, ApiPcs
  <2>6. RetriesAreJustified'
    <3>1. \A i \in 1 .. attempt - 1 : heard'[i] \notin Final
      BY <1>0, <2>4, Justified, AttemptsAssumption DEF ApiInv
    <3>2. apiRet' = "ok" => heard'[attempt] \in Success
      BY <2>2, <2>3, <2>4 DEF ApiInv
    <3> QED
      BY <2>2, <3>1, <3>2, Justified
  <2> QED
    BY <1>0, <2>2, <2>3, <2>4, <2>5, <2>6 DEF ApiInv
<1>5. CASE Backoff(done)
  <2>1. /\ apiPc = "backoff" /\ UNCHANGED <<op, flight, arrived, heard>>
        /\ \/ apiPc' = "returned" /\ apiRet' = "error" /\ attempt' = attempt
           \/ apiPc' = "try" /\ apiRet' = apiRet /\ attempt' = attempt + 1
    BY <1>5 DEF Backoff, Return
  <2>2. ApiTypeOK'
    BY <1>0, <2>1, AttemptsAssumption DEF ApiInv, ApiTypeOK, ApiPcs
  <2>3. RetriesAreJustified'
    <3>1. \A i \in 1 .. attempt : heard[i] \notin Final
      BY <1>0, <2>1, Justified, AttemptsAssumption DEF ApiInv
    <3>2. \A i \in 1 .. attempt' - 1 : heard'[i] \notin Final
      BY <1>0, <2>1, <3>1, AttemptsAssumption
    <3> QED
      BY <2>1, <3>2, Justified DEF ApiInv
  <2> QED
    BY <1>0, <2>1, <2>2, <2>3, AttemptsAssumption DEF ApiInv
<1>6. CASE Arrive
  <2>1. /\ flight' \subseteq flight /\ arrived \subseteq arrived'
        /\ arrived' \subseteq arrived \cup flight /\ flight # {}
        /\ UNCHANGED <<op, apiPc, attempt, heard, apiRet>>
    BY <1>6 DEF Arrive
  <2> QED
    BY <2>1 DEF ApiInv, ApiTypeOK, RetriesAreJustified
<1> QED
  BY <1>2, <1>3, <1>4, <1>5, <1>6 DEF ClientStep

(* The steps that open destinations write one entry, if anything.          *)
Opens == (\E a \in Grants : Grant(a)) \/ AllowCidr
Openings ==
  {Entry(HostKey(a)) : a \in Grants} \cup {Entry(PrefixKey(c)) : c \in policy.cidrs}

LEMMA OpensEffect ==
  ASSUME Opens
  PROVE  /\ UNCHANGED <<policy, fwPc, todo, attachRet, loaded, live, stuck, audit>>
         /\ UNCHANGED <<apiVars, Pipe, logVars, mainVars>>
         /\ \E e \in Openings : allow' \in {allow, allow \cup {e}}
<1>1. CASE \E a \in Grants : Grant(a)
  BY <1>1 DEF Grant, AllowIP, AllowKey, Put, Openings
<1>2. CASE AllowCidr
  BY <1>2 DEF AllowCidr, AllowPrefix, AllowKey, Put, Openings
<1> QED
  BY <1>1, <1>2 DEF Opens

(* The rest of the pipeline starts calls and takes their results.          *)
LEMMA ApiInvStep == ApiInv /\ [Next]_vars => ApiInv'
<1> SUFFICES ASSUME ApiInv, [Next]_vars PROVE ApiInv'
  OBVIOUS
<1>1. CASE UNCHANGED apiVars
  BY <1>1 DEF apiVars, ApiInv, ApiTypeOK, RetriesAreJustified
<1>2. CASE Client \/ Deliver
  BY <1>2, ClientKeepsApi DEF Client, Deliver
<1>3. CASE FetchPolicy \/ Upload
  BY <1>3, ResetKeepsApi DEF FetchPolicy, Upload, Call, ApiPcs
<1>4. CASE FetchReturned \/ UploadReturned
  BY <1>4, ResetKeepsApi DEF FetchReturned, UploadReturned, ApiPcs, ApiInv,
     ApiTypeOK
<1>5. CASE \/ ReadPolicyFile \/ Attached \/ CidrsAllowed \/ StartReturned \/ NoUpload
           \/ CloseReader \/ CloseHooks \/ CloseLog \/ Exit
  BY <1>1, <1>5 DEF ReadPolicyFile, Attached, CidrsAllowed, StartReturned,
     NoUpload, CloseReader, CloseHooks, CloseLog, Exit
<1>6. ASSUME NEW p \in Procs,
             \/ Connect(p) \/ Evict(p) \/ SudoEvent(p)
             \/ \E d \in Dests : NetEvent(p, d)
      PROVE  ApiInv'
  BY <1>1, <1>6 DEF Connect, Evict, SudoEvent, NetEvent, emit
<1>7. CASE ReaderStep \/ ConsumerStep \/ Tick \/ Signal \/ UNCHANGED vars
  BY <1>1, <1>7 DEF ReaderStep, ReadRecord, SendEvent, ConsumerStep, ReceiveEvent,
       HandleEvent, Tick, Signal, vars
<1>8. CASE Opens
  BY <1>1, <1>8, OpensEffect
<1> QED
  BY <1>2, <1>3, <1>4, <1>5, <1>6, <1>7, <1>8 DEF Next, MainStep, Opens

(* A request is sent again only after an answer that was lost or asks for  *)
(* another try, and a call reports success only for a request the API took *)
(* in and accepted, whatever number of attempts the client is given,       *)
(* whichever codes the API answers with and whenever they come in.         *)
THEOREM RetriesHaveReasons == Spec => []RetriesAreJustified
<1>1. Init => ApiInv
  BY AttemptsAssumption DEF Init, ApiInit, ApiInv, ApiTypeOK, ApiPcs,
     RetriesAreJustified
<1>2. ApiInv => RetriesAreJustified
  BY DEF ApiInv
<1> QED
  BY <1>1, <1>2, ApiInvStep, PTL DEF Spec

-----------------------------------------------------------------------------
(***************************************************************************)
(* Events, and what they may say.                                          *)
(***************************************************************************)
NetEvents ==
  [id : Nat, kind : {"net"}, pid : Nat, dst : Addresses, allowed : BOOLEAN,
   shot : BOOLEAN]
SudoEvents == [id : Nat, kind : {"sudo"}, pid : Nat, allowed : {TRUE}]
Events == NetEvents \cup SudoEvents

(* The events user space may come to see.  The kernel shot the frames the  *)
(* maps do not allow, outside monitor mode; and the decoded destination of *)
(* one they do allow is an address AllowIP was called for, or the image of *)
(* its key lies in that of an allowed CIDR.                                *)
Verdict(e) == e.shot <=> ~ e.allowed /\ policy.mode # "MONITOR"
Opened(e) ==
  \/ e.dst \in Grants /\ Entry(HostKey(e.dst)) \in allow
  \/ \E c \in policy.cidrs :
       InCidr(OnWire(e.dst), CidrOnWire(c)) /\ Entry(PrefixKey(c)) \in allow
Told ==
  {e \in Events :
     e.kind = "net" => Verdict(e) /\ (LittleEndian /\ e.allowed => Opened(e))}

(* What Decode does to an address, and to an event.                        *)
SwappedAddr(a) == [family |-> a.family, bits |-> Swapped(a.bits)]

LEMMA SwappedAddrType ==
  ASSUME NEW a \in Addresses
  PROVE  SwappedAddr(a) \in Addresses /\ SwappedAddr(SwappedAddr(a)) = a
<1>1. PICK family \in Families : a \in AddressesOf(family)
  BY DEF Addresses, Families
<1>2. /\ a.family = family /\ a.bits \in [Positions(family) -> {0, 1}]
      /\ a = [family |-> family, bits |-> a.bits]
  BY <1>1 DEF AddressesOf
<1>3. /\ Swapped(a.bits) \in [Positions(family) -> {0, 1}]
      /\ Swapped(Swapped(a.bits)) = a.bits
  BY <1>2, SwappedType
<1>4. SwappedAddr(a) \in AddressesOf(family)
  BY <1>2, <1>3 DEF SwappedAddr, AddressesOf
<1> QED
  BY <1>2, <1>3, <1>4 DEF SwappedAddr, Addresses, Families

LEMMA OnWireIs ==
  ASSUME LittleEndian, NEW a \in Addresses
  PROVE  OnWire(a) = SwappedAddr(a)
<1>1. PICK family \in Families : a \in AddressesOf(family)
  BY DEF Addresses, Families
<1>2. a = [family |-> a.family, bits |-> a.bits]
  BY <1>1 DEF AddressesOf
<1> QED
  BY <1>2 DEF OnWire, SwappedAddr

LEMMA DecodedNet ==
  ASSUME NEW e \in NetEvents
  PROVE  Decode(e) = [id |-> e.id, kind |-> "net", pid |-> e.pid,
                      dst |-> SwappedAddr(e.dst), allowed |-> e.allowed,
                      shot |-> e.shot]
<1>1. PICK family \in Families : e.dst \in AddressesOf(family)
  BY DEF NetEvents, Addresses, Families
<1>2. e.dst = [family |-> e.dst.family, bits |-> e.dst.bits]
  BY <1>1 DEF AddressesOf
<1>3. [e.dst EXCEPT !.bits = Swapped(e.dst.bits)] = SwappedAddr(e.dst)
  BY <1>2 DEF SwappedAddr
<1>4. e = [id |-> e.id, kind |-> "net", pid |-> e.pid, dst |-> e.dst,
           allowed |-> e.allowed, shot |-> e.shot]
  BY DEF NetEvents
<1>5. Decode(e) = [e EXCEPT !.dst = [e.dst EXCEPT !.bits = Swapped(e.dst.bits)]]
  BY <1>4 DEF Decode
<1> QED
  BY <1>3, <1>4, <1>5

LEMMA DecodedSudo ==
  ASSUME NEW e \in SudoEvents
  PROVE  Decode(e) = e
  BY DEF Decode, SudoEvents

-----------------------------------------------------------------------------
(***************************************************************************)
(* The queues and the log hold events that user space may come to see, in  *)
(* the number they have room for; the log has the action of each.          *)
(***************************************************************************)
Actions == {"ALLOW", "DENY", "MONITOR_DENY"}
Written ==
  {l \in [ev : Told, at : Nat, action : Actions] :
     l.at <= now /\ l.action = Action(l.ev)}

(* The firewall as the pipeline meets it.                                  *)
HookInv ==
  /\ policy \in Policies /\ fwPc = "idle"
  /\ EgressLive => audit = IF policy.mode = "MONITOR" THEN 1 ELSE 0
  /\ main \in {"fetch", "attach"} => live = {}
  /\ allow \subseteq Openings

QueueInv ==
  /\ count \in Nat /\ known \subseteq Procs
  /\ ring \in Seq(Events) /\ Len(ring) <= RingMax
  /\ \A i \in 1 .. Len(ring) : Decode(ring[i]) \in Told
  /\ reader \in Seq(Told) /\ Len(reader) <= 1
  /\ ch \in Seq(Told) /\ Len(ch) <= ChanMax
  /\ consumer \in Seq(Told) /\ Len(consumer) <= 1

LogInv ==
  /\ now \in Nat
  /\ \A s \in seen : s.at \in Nat /\ s.at <= now
  /\ lines \in Seq(Written)

PipeInv == HookInv /\ QueueInv /\ LogInv

(* The policy stays, entries are only added and the clock does not go      *)
(* back.                                                                   *)
LEMMA HistoryGrows ==
  ASSUME [Next]_vars, LogInv
  PROVE  policy' = policy /\ allow \subseteq allow' /\ now <= now' /\ now' \in Nat
<1> USE DEF LogInv
<1>1. CASE UNCHANGED <<policy, allow, now>>
  BY <1>1
<1>2. CASE Tick
  BY <1>2 DEF Tick, fwVars
<1>3. CASE Opens
  BY <1>3, OpensEffect DEF logVars
<1>4. CASE MainStep /\ ~ AllowCidr
  BY <1>1, <1>4 DEF MainStep, ReadPolicyFile, FetchPolicy, FetchReturned, Attached,
     CidrsAllowed, StartReturned, Upload, NoUpload, UploadReturned,
     CloseReader, CloseHooks, CloseLog, Exit, fwVars, logVars
<1>5. ASSUME NEW p \in Procs,
             \/ Connect(p) \/ Evict(p) \/ SudoEvent(p)
             \/ \E d \in Dests : NetEvent(p, d)
      PROVE  UNCHANGED <<policy, allow, now>>
  BY <1>5 DEF Connect, Evict, SudoEvent, NetEvent, emit, fwVars, logVars
<1>6. CASE ReaderStep \/ ConsumerStep
  BY <1>1, <1>6 DEF ReaderStep, ReadRecord, SendEvent, ConsumerStep, ReceiveEvent,
     HandleEvent, fwVars, logVars
<1>7. CASE Client \/ Deliver \/ Signal \/ UNCHANGED vars
  BY <1>1, <1>7 DEF Client, Deliver, Signal, vars, fwVars, logVars
<1> QED
  BY <1>1, <1>2, <1>3, <1>4, <1>5, <1>6, <1>7 DEF Next, Opens

(* So what could be said of an event or a line can still be said.          *)
LEMMA ToldGrows ==
  ASSUME policy' = policy, allow \subseteq allow', now <= now', now' \in Nat, now \in Nat
  PROVE  Told \subseteq Told' /\ Written \subseteq Written'
<1>1. Told \subseteq Told'
  BY DEF Told, Verdict, Opened
<1>2. ASSUME NEW l \in Written PROVE l \in Written'
  <2>1. l \in [ev : Told', at : Nat, action : Actions] /\ l.at <= now'
    BY <1>1, <1>2 DEF Written
  <2>2. l.action = Action(l.ev)'
    BY <1>2 DEF Written, Action
  <2> QED
    BY <2>1, <2>2 DEF Written
<1> QED
  BY <1>1, <1>2

LEMMA SeqMono ==
  ASSUME NEW S, NEW T, S \subseteq T
  PROVE  Seq(S) \subseteq Seq(T)
  OBVIOUS

(* The hooks follow the main goroutine.                                    *)
LEMMA HookInvStep ==
  ASSUME HookInv, [Next]_vars
  PROVE  HookInv'
<1>1. CASE UNCHANGED <<fwVars, main>>
  BY <1>1 DEF fwVars, HookInv, Openings, EgressLive
<1>2. CASE UNCHANGED fwVars /\ main' \notin {"fetch", "attach"}
  BY <1>2 DEF fwVars, HookInv, Openings, EgressLive
<1>3. CASE UNCHANGED fwVars /\ main \in {"fetch", "attach"}
  BY <1>3 DEF fwVars, HookInv, Openings, EgressLive
<1>4. CASE Opens
  BY <1>4, OpensEffect DEF HookInv, Openings, EgressLive, mainVars
<1>5. CASE Attached
  BY <1>5 DEF Attached, HookInv, Openings, EgressLive, EgressHook
<1>6. CASE CloseReader \/ CloseHooks
  BY <1>6 DEF CloseReader, CloseHooks, HookInv, Openings, EgressLive,
     EgressHook
<1>7. CASE ReadPolicyFile \/ FetchReturned
  BY <1>3, <1>7 DEF ReadPolicyFile, FetchReturned
<1>8. CASE \/ CidrsAllowed \/ StartReturned \/ Upload \/ NoUpload
           \/ UploadReturned \/ CloseLog \/ Exit
  BY <1>2, <1>8 DEF CidrsAllowed, StartReturned, Upload, NoUpload,
     UploadReturned, CloseLog, Exit
<1>9. CASE FetchPolicy \/ Client \/ Deliver \/ Signal \/ Tick \/ UNCHANGED vars
  BY <1>1, <1>9 DEF FetchPolicy, Client, Deliver, Signal, Tick, vars, mainVars
<1>10. ASSUME NEW p \in Procs,
              \/ Connect(p) \/ Evict(p) \/ SudoEvent(p)
              \/ \E d \in Dests : NetEvent(p, d)
       PROVE  UNCHANGED <<fwVars, main>>
  BY <1>10 DEF Connect, Evict, SudoEvent, NetEvent, emit, mainVars
<1>11. CASE ReaderStep \/ ConsumerStep
  BY <1>1, <1>11 DEF ReaderStep, ReadRecord, SendEvent, ConsumerStep, ReceiveEvent,
     HandleEvent, mainVars
<1> QED
  BY <1>1, <1>4, <1>5, <1>6, <1>7, <1>8, <1>9, <1>10, <1>11 DEF Next, MainStep,
     Opens

(* The event of a frame says of it what the maps and config say.           *)
LEMMA NetEventTold ==
  ASSUME HookInv, EgressLive, NEW p \in Nat, NEW n \in Nat, NEW d \in Dests,
         NEW e, e = [id |-> n, kind |-> "net", pid |-> p, dst |-> d,
                     allowed |-> LookupAllow(allow, d), shot |-> Dropped(TcpFrame(d))]
  PROVE  e \in NetEvents /\ Decode(e) \in Told
<1>1. d \in Addresses
  BY DestsAssumption
<1>2. LookupAllow(allow, d) \in BOOLEAN /\ Dropped(TcpFrame(d)) \in BOOLEAN
  BY DEF LookupAllow, Dropped
<1>3. e \in NetEvents
  BY <1>1, <1>2 DEF NetEvents
<1>4. Decode(e) = [id |-> n, kind |-> "net", pid |-> p, dst |-> SwappedAddr(d),
                   allowed |-> LookupAllow(allow, d), shot |-> Dropped(TcpFrame(d))]
  BY <1>3, DecodedNet
<1>5. Decode(e) \in NetEvents
  BY <1>1, <1>2, <1>4, SwappedAddrType DEF NetEvents
<1>6. Dropped(TcpFrame(d)) <=> ~ LookupAllow(allow, d) /\ policy.mode # "MONITOR"
  <2>1. d.family \in {4, 6}
    BY <1>1 DEF Addresses, AddressesOf
  <2>2. censor_egress(TcpFrame(d)) = "SHOT" <=> ~ LookupAllow(allow, d) /\ audit = 0
    BY <2>1 DEF censor_egress, TcpFrame, handle_v4_filters, handle_v6_filters
  <2>3. audit = 0 <=> policy.mode # "MONITOR"
    BY DEF HookInv
  <2> QED
    BY <2>2, <2>3 DEF Dropped
<1>7. ASSUME LittleEndian, LookupAllow(allow, d) PROVE Opened(Decode(e))
  <2>1. PICK key \in allow : Covers(key, d)
    BY <1>7 DEF LookupAllow
  <2>2. SwappedAddr(d) \in Addresses /\ OnWire(SwappedAddr(d)) = d
    BY <1>1, <1>7, OnWireIs, SwappedAddrType
  <2>3. CASE \E a \in Grants : key = Entry(HostKey(a))
    <3>1. PICK a \in Grants : key = Entry(HostKey(a))
      BY <2>3
    <3>2. d = OnWire(a) /\ a \in Addresses
      BY <1>1, <2>1, <3>1, GrantsAssumption, HostEntryCovers
    <3>3. a = SwappedAddr(d)
      BY <1>7, <3>2, OnWireIs, SwappedAddrType
    <3> QED
      BY <1>4, <2>1, <3>1, <3>3 DEF Opened
  <2>4. CASE \E c \in policy.cidrs : key = Entry(PrefixKey(c))
    <3>1. PICK c \in policy.cidrs : key = Entry(PrefixKey(c))
      BY <2>4
    <3>2. c \in Cidrs
      BY AllowedCidrsAssumption DEF HookInv
    <3>3. InCidr(d, CidrOnWire(c))
      BY <1>1, <2>1, <3>1, <3>2, PrefixEntryCovers
    <3> QED
      BY <1>4, <2>1, <2>2, <3>1, <3>3 DEF Opened
  <2> QED
    BY <2>1, <2>3, <2>4 DEF HookInv, Openings
<1>8. Verdict(Decode(e))
  BY <1>4, <1>6 DEF Verdict
<1> QED
  BY <1>3, <1>4, <1>5, <1>7, <1>8 DEF Told, Events

(* Steps that leave the queues alone.                                      *)
LEMMA QuietQueues ==
  ASSUME QueueInv, Told \subseteq Told', UNCHANGED <<count, queueVars>>,
         known' \subseteq Procs
  PROVE  QueueInv'
<1>1. Seq(Told) \subseteq Seq(Told')
  BY SeqMono
<1>2. \A i \in 1 .. Len(ring') : Decode(ring'[i]) \in Told'
  BY DEF QueueInv, queueVars
<1> QED
  BY <1>1, <1>2 DEF QueueInv, queueVars

(* A new record in the ring, if there is room for it.                      *)
LEMMA EmitKeepsQueues ==
  ASSUME QueueInv, Told \subseteq Told', NEW e, emit(e),
         [e EXCEPT !.id = count'] \in Events,
         Decode([e EXCEPT !.id = count']) \in Told
  PROVE  QueueInv'
<1> DEFINE r == [e EXCEPT !.id = count']
<1>1. /\ r \in Events /\ Decode(r) \in Told' /\ ring \in Seq(Events)
      /\ \A i \in 1 .. Len(ring) : Decode(ring[i]) \in Told'
  BY DEF QueueInv
<1>2. /\ ring' = IF Len(ring) < RingMax THEN Append(ring, r) ELSE ring
      /\ UNCHANGED <<reader, ch, consumer, known>> /\ count' = count + 1
  BY DEF emit
<1> HIDE DEF r
<1>3. Seq(Told) \subseteq Seq(Told')
  BY SeqMono
<1>4. ring' \in Seq(Events) /\ Len(ring') <= RingMax
  BY <1>1, <1>2, SizesAssumption DEF QueueInv
<1>5. \A i \in 1 .. Len(ring') : Decode(ring'[i]) \in Told'
  BY <1>1, <1>2
<1> QED
  BY <1>2, <1>3, <1>4, <1>5 DEF QueueInv

LEMMA EventEmitted ==
  ASSUME HookInv, count \in Nat, NEW p \in Procs,
         SudoEvent(p) \/ \E d \in Dests : NetEvent(p, d)
  PROVE  \E e : /\ emit(e) /\ [e EXCEPT !.id = count'] \in Events
                /\ Decode([e EXCEPT !.id = count']) \in Told
<1>1. CASE SudoEvent(p)
  <2> DEFINE e == [id |-> 0, kind |-> "sudo", pid |-> p, allowed |-> TRUE]
             r == [e EXCEPT !.id = count']
  <2>1. emit(e) /\ count' \in Nat
    BY <1>1 DEF SudoEvent, emit
  <2>2. r = [id |-> count', kind |-> "sudo", pid |-> p, allowed |-> TRUE]
    <3>1. \A b : [[id |-> 0, kind |-> "sudo", pid |-> p, allowed |-> b]
                   EXCEPT !.id = count']
                 = [id |-> count', kind |-> "sudo", pid |-> p, allowed |-> b]
      OBVIOUS
    <3> QED
      BY <3>1
  <2>3. r \in SudoEvents
    BY <2>1, <2>2, ProcsAssumption DEF SudoEvents
  <2>4. r \in Events /\ Decode(r) \in Told
    BY <2>2, <2>3, DecodedSudo DEF Told, Events
  <2> HIDE DEF e
  <2> QED
    BY <2>1, <2>4
<1>2. ASSUME NEW d \in Dests, NetEvent(p, d)
      PROVE  \E e : /\ emit(e) /\ [e EXCEPT !.id = count'] \in Events
                    /\ Decode([e EXCEPT !.id = count']) \in Told
  <2> DEFINE e == [id |-> 0, kind |-> "net", pid |-> current_pid_for_skb(p), dst |-> d,
                   allowed |-> LookupAllow(allow, d), shot |-> Dropped(TcpFrame(d))]
             r == [e EXCEPT !.id = count']
  <2>1. emit(e) /\ count' \in Nat /\ EgressLive
    BY <1>2 DEF NetEvent, emit
  <2>2. r = [id |-> count', kind |-> "net", pid |-> current_pid_for_skb(p), dst |-> d,
             allowed |-> LookupAllow(allow, d), shot |-> Dropped(TcpFrame(d))]
    OBVIOUS
  <2>3. current_pid_for_skb(p) \in Nat
    BY ProcsAssumption DEF current_pid_for_skb
  <2>4. r \in NetEvents /\ Decode(r) \in Told
    BY <2>1, <2>2, <2>3, NetEventTold
  <2> HIDE DEF e
  <2> QED
    BY <2>1, <2>4 DEF Events
<1> QED
  BY <1>1, <1>2

LEMMA QueueInvStep ==
  ASSUME PipeInv, [Next]_vars
  PROVE  QueueInv'
<1>0. /\ HookInv /\ QueueInv /\ Told \subseteq Told' /\ Seq(Told) \subseteq Seq(Told')
      /\ count \in Nat /\ known \subseteq Procs
  <2>1. Told \subseteq Told'
    BY HistoryGrows, ToldGrows DEF PipeInv, LogInv
  <2> QED
    BY <2>1, SeqMono DEF PipeInv, QueueInv
<1>1. CASE UNCHANGED <<count, queueVars>> /\ known' \subseteq Procs
  BY <1>0, <1>1, QuietQueues
<1>2. ASSUME NEW p \in Procs, Connect(p) \/ Evict(p)
      PROVE  QueueInv'
  BY <1>0, <1>1, <1>2 DEF Connect, Evict
<1>3. ASSUME NEW p \in Procs, SudoEvent(p) \/ \E d \in Dests : NetEvent(p, d)
      PROVE  QueueInv'
  BY <1>0, <1>3, EventEmitted, EmitKeepsQueues
<1>4. CASE ReadRecord
  <2>1. /\ reader' = <<Decode(Head(ring))>> /\ ring # <<>> /\ ring' = Tail(ring)
        /\ UNCHANGED <<ch, consumer, known, count>>
    BY <1>4 DEF ReadRecord
  <2>2. /\ ring \in Seq(Events) /\ Len(ring) \in Nat /\ Len(ring) > 0
        /\ \A i \in 1 .. Len(ring) : Decode(ring[i]) \in Told'
    BY <1>0, <2>1 DEF QueueInv
  <2>3. Decode(Head(ring)) \in Told'
    BY <2>2
  <2>4. /\ ring' \in Seq(Events) /\ Len(ring') = Len(ring) - 1
        /\ \A i \in 1 .. Len(ring') : ring'[i] = ring[i + 1]
    BY <2>1, <2>2
  <2>5. \A i \in 1 .. Len(ring') : Decode(ring'[i]) \in Told'
    BY <2>2, <2>4
  <2>6. reader' \in Seq(Told') /\ Len(reader') = 1
    BY <2>1, <2>3
  <2>7. Len(ring') <= RingMax
    BY <1>0, <2>2, <2>4, SizesAssumption DEF QueueInv
  <2> QED
    BY <1>0, <2>1, <2>4, <2>5, <2>6, <2>7 DEF QueueInv
<1>5. CASE SendEvent
  <2>1. /\ reader' = <<>> /\ ch' = IF Len(ch) < ChanMax THEN ch \o reader ELSE ch
        /\ UNCHANGED <<ring, consumer, known, count>>
    BY <1>5 DEF SendEvent
  <2>2. ch' \in Seq(Told') /\ Len(ch') <= ChanMax
    BY <1>0, <2>1, SizesAssumption DEF QueueInv
  <2>3. \A i \in 1 .. Len(ring') : Decode(ring'[i]) \in Told'
    BY <1>0, <2>1 DEF QueueInv
  <2> QED
    BY <1>0, <2>1, <2>2, <2>3 DEF QueueInv
<1>6. CASE ReceiveEvent
  <2>1. /\ consumer' = <<Head(ch)>> /\ ch # <<>> /\ ch' = Tail(ch)
        /\ UNCHANGED <<ring, reader, known, count>>
    BY <1>6 DEF ReceiveEvent
  <2>2. /\ ch' \in Seq(Told) /\ Len(ch') = Len(ch) - 1 /\ Head(ch) \in Told
        /\ Len(ch) \in Nat
    BY <1>0, <2>1 DEF QueueInv
  <2>3. Len(ch') <= ChanMax /\ consumer' \in Seq(Told) /\ Len(consumer') = 1
    BY <1>0, <2>1, <2>2, SizesAssumption DEF QueueInv
  <2>4. \A i \in 1 .. Len(ring') : Decode(ring'[i]) \in Told'
    BY <1>0, <2>1 DEF QueueInv
  <2> QED
    BY <1>0, <2>1, <2>2, <2>3, <2>4 DEF QueueInv
<1>7. CASE HandleEvent
  <2>1. UNCHANGED <<count, known, ring, reader, ch>> /\ consumer' = <<>>
    BY <1>7 DEF HandleEvent
  <2>2. \A i \in 1 .. Len(ring') : Decode(ring'[i]) \in Told'
    BY <1>0, <2>1 DEF QueueInv
  <2> QED
    BY <1>0, <2>1, <2>2 DEF QueueInv
<1>8. CASE Exit
  <2>1. /\ UNCHANGED <<count, known, ring>>
        /\ reader' = <<>> /\ ch' = <<>> /\ consumer' = <<>>
    BY <1>8 DEF Exit
  <2>2. \A i \in 1 .. Len(ring') : Decode(ring'[i]) \in Told'
    BY <1>0, <2>1 DEF QueueInv
  <2> QED
    BY <1>0, <2>1, <2>2, SizesAssumption DEF QueueInv
<1>9. CASE CloseHooks
  <2>1. UNCHANGED <<count, reader, ch, consumer>> /\ ring' = <<>> /\ known' = {}
    BY <1>9 DEF CloseHooks
  <2> QED
    BY <1>0, <2>1, SizesAssumption DEF QueueInv
<1>10. CASE \/ ReadPolicyFile \/ FetchPolicy \/ FetchReturned \/ Attached
            \/ CidrsAllowed \/ StartReturned \/ Upload \/ NoUpload \/ UploadReturned
            \/ CloseReader \/ CloseLog
  BY <1>0, <1>1, <1>10 DEF ReadPolicyFile, FetchPolicy, FetchReturned, Attached,
     CidrsAllowed, StartReturned, Upload, NoUpload, UploadReturned, CloseReader, CloseLog, Pipe
<1>11. CASE Client \/ Deliver \/ Tick \/ Signal \/ UNCHANGED vars
  BY <1>0, <1>1, <1>11 DEF Client, Deliver, Tick, Signal, vars, Pipe
<1>12. CASE Opens
  BY <1>0, <1>1, <1>12, OpensEffect DEF Pipe
<1> QED
  BY <1>2, <1>3, <1>4, <1>5, <1>6, <1>7, <1>8, <1>9, <1>10, <1>11, <1>12
     DEF Next, MainStep, Opens, ReaderStep, ConsumerStep

(* What Remember leaves: the entries of other keys that are not expired,   *)
(* at least, the key's own entry unless it is swept at once, and no more.  *)
LEMMA RememberEffect ==
  ASSUME NEW e, Remember(e)
  PROVE  /\ \A s \in seen' : s = [key |-> Key(e), at |-> now] \/ (s \in seen /\ s.key # Key(e))
         /\ \A s \in seen : s.key # Key(e) /\ ~ Expired(s) => s \in seen'
         /\ ~ Expired([key |-> Key(e), at |-> now]) => [key |-> Key(e), at |-> now] \in seen'
<1> DEFINE updated == {s \in seen : s.key # Key(e)} \cup {[key |-> Key(e), at |-> now]}
<1>1. seen' = updated \/ seen' = {s \in updated : ~ Expired(s)}
  BY DEF Remember
<1> QED
  BY <1>1

(* A line is added for the event in hand, with its action.                 *)
LEMMA WriteEffect ==
  ASSUME LogInv, NEW e \in Told, WriteEvent(e)
  PROVE  lines' \in Seq(Written)
<1> DEFINE l == [ev |-> e, at |-> now, action |-> Action(e)]
<1>1. lines' = Append(lines, l) \/ lines' = lines
  BY DEF WriteEvent
<1>2. Action(e) \in Actions
  <2>1. e.allowed \in BOOLEAN
    BY DEF Told, Events, NetEvents, SudoEvents
  <2> QED
    BY <2>1 DEF Action, Actions
<1>3. l \in Written
  BY <1>2 DEF Written, LogInv
<1> HIDE DEF l
<1> QED
  BY <1>1, <1>3 DEF LogInv

LEMMA LogInvStep ==
  ASSUME PipeInv, [Next]_vars
  PROVE  LogInv'
<1>0. /\ LogInv /\ QueueInv /\ Seq(Written) \subseteq Seq(Written')
      /\ now \in Nat /\ now' \in Nat /\ now <= now'
  <2>1. policy' = policy /\ allow \subseteq allow' /\ now <= now' /\ now' \in Nat /\ now \in Nat
    BY HistoryGrows DEF PipeInv, LogInv
  <2>2. Written \subseteq Written'
    BY <2>1, ToldGrows
  <2> QED
    BY <2>1, <2>2, SeqMono DEF PipeInv
<1>1. CASE lines' = lines /\ seen' \subseteq seen
  BY <1>0, <1>1 DEF LogInv
<1>2. CASE HandleEvent
  <2> DEFINE e == Head(consumer)
  <2>1. e \in Told /\ now' = now
    BY <1>0, <1>2 DEF HandleEvent, QueueInv
  <2> HIDE DEF e
  <2>2. CASE WriteEvent(e) /\ UNCHANGED seen
    BY <1>0, <2>1, <2>2, WriteEffect DEF LogInv
  <2>3. CASE WriteEvent(e) /\ Remember(e)
    <3>1. ASSUME NEW s \in seen' PROVE s.at \in Nat /\ s.at <= now'
      <4>1. s = [key |-> Key(e), at |-> now] \/ s \in seen
        BY <2>3, RememberEffect
      <4> QED
        BY <1>0, <2>1, <4>1 DEF LogInv
    <3> QED
      BY <1>0, <2>1, <2>3, <3>1, WriteEffect DEF LogInv
  <2>4. CASE UNCHANGED <<seen, lines>>
    BY <1>1, <2>4
  <2> QED
    BY <1>2, <2>2, <2>3, <2>4 DEF HandleEvent, e
<1>3. CASE MainStep /\ ~ AllowCidr
  BY <1>1, <1>3 DEF MainStep, ReadPolicyFile, FetchPolicy, FetchReturned, Attached,
     CidrsAllowed, StartReturned, Upload, NoUpload, UploadReturned,
     CloseReader, CloseHooks, CloseLog, Exit, logVars
<1>4. ASSUME NEW p \in Procs,
             \/ Connect(p) \/ Evict(p) \/ SudoEvent(p)
             \/ \E d \in Dests : NetEvent(p, d)
      PROVE  LogInv'
  BY <1>1, <1>4 DEF Connect, Evict, SudoEvent, NetEvent, emit, logVars
<1>5. CASE ReadRecord \/ SendEvent \/ ReceiveEvent
  BY <1>1, <1>5 DEF ReadRecord, SendEvent, ReceiveEvent, logVars
<1>6. CASE Client \/ Deliver \/ Tick \/ Signal \/ UNCHANGED vars
  BY <1>1, <1>6 DEF Client, Deliver, Tick, Signal, vars, logVars
<1>7. CASE Opens
  BY <1>1, <1>7, OpensEffect DEF logVars
<1> QED
  BY <1>2, <1>3, <1>4, <1>5, <1>6, <1>7 DEF Next, Opens, ReaderStep, ConsumerStep

(* The queues and the log hold what they may hold in every reachable       *)
(* state.                                                                  *)
THEOREM PipelineInvariance == Spec => []PipeInv
<1>1. Init => PipeInv
  BY SizesAssumption DEF Init, FwInit, PipeInv, HookInv, QueueInv, LogInv,
     EgressLive
<1>2. PipeInv /\ [Next]_vars => PipeInv'
  BY HookInvStep, QueueInvStep, LogInvStep DEF PipeInv
<1> QED
  BY <1>1, <1>2, PTL DEF Spec

(* A line of the log says DENY exactly when its frame was dropped: the     *)
(* kernel's verdict by config and user space's by the policy's mode agree, *)
(* for any policy, any maps and however long the event was on its way.     *)
THEOREM VerdictsAgree == Spec => []VerdictsAreLogged
<1>1. PipeInv => VerdictsAreLogged
  <2> SUFFICES ASSUME PipeInv, NEW i \in DOMAIN lines, lines[i].ev.kind = "net"
               PROVE  lines[i].action = "DENY" <=> lines[i].ev.shot
    BY DEF VerdictsAreLogged
  <2> DEFINE e == lines[i].ev
  <2>1. lines[i] \in Written
    BY DEF PipeInv, LogInv
  <2>2. e \in Told /\ lines[i].action = Action(e)
    BY <2>1 DEF Written
  <2> HIDE DEF e
  <2>3. e.allowed \in BOOLEAN /\ Verdict(e)
    BY <2>2 DEF Told, Events, NetEvents, SudoEvents, e
  <2>4. Action(e) = "DENY" <=> ~ e.allowed /\ policy.mode # "MONITOR"
    BY <2>3 DEF Action
  <2> QED
    BY <2>2, <2>3, <2>4 DEF Verdict, e
<1> QED
  BY <1>1, PipelineInvariance, PTL

(* On a little-endian host what an ALLOW line names is an address AllowIP  *)
(* was called for, up to the IPv4-mapped form, or an address whose key's   *)
(* image lies in that of an allowed CIDR; and what was written for it is   *)
(* still in the map.  The log's reversal of the bytes undoes that of the   *)
(* keys, for every size of bytes and words and every list of CIDRs.        *)
THEOREM LogNamesGrants == Spec => []LogAgreesWithGrants
<1>1. PipeInv => LogAgreesWithGrants
  <2> SUFFICES ASSUME PipeInv, LittleEndian, NEW i \in DOMAIN lines,
                      lines[i].ev.kind = "net", lines[i].action = "ALLOW"
               PROVE  \/ \E a \in Grants : /\ Unmap(a) = formatDst(lines[i].ev)
                                           /\ Entry(HostKey(a)) \in allow
                      \/ \E c \in policy.cidrs :
                           /\ InCidr(OnWire(lines[i].ev.dst), CidrOnWire(c))
                           /\ Entry(PrefixKey(c)) \in allow
    BY DEF LogAgreesWithGrants
  <2> DEFINE e == lines[i].ev
  <2>1. lines[i] \in Written
    BY DEF PipeInv, LogInv
  <2>2. e \in Told /\ lines[i].action = Action(e)
    BY <2>1 DEF Written
  <2> HIDE DEF e
  <2>3. e.allowed \in BOOLEAN
    BY <2>2 DEF Told, Events, NetEvents, SudoEvents
  <2>4. e.allowed
    BY <2>2, <2>3 DEF Action
  <2>5. Opened(e)
    BY <2>2, <2>4 DEF Told, e
  <2> QED
    BY <2>5 DEF Opened, formatDst, e
<1> QED
  BY <1>1, PipelineInvariance, PTL

-----------------------------------------------------------------------------
(***************************************************************************)
(* The upload.  A call to the API is under way only while the main         *)
(* goroutine waits for it; the snapshot it posts was read after the signal *)
(* and so holds the lines of before, and the API has it once a request has *)
(* arrived.                                                                *)
(***************************************************************************)
UploadInv ==
  /\ main \in MainPcs /\ code \in 0 .. 2
  /\ mark \in Nat /\ mark <= Len(lines)
  /\ main \notin {"fetch", "uploading"} => apiPc = "idle"
  /\ main = "fetch" /\ policy.local => apiPc = "idle"
  /\ main = "uploading" =>
       /\ op = "upload" /\ term
       /\ snapshot \in Nat /\ mark <= snapshot
       /\ arrived # {} => uploaded = snapshot
  /\ main \in {"fetch", "attach", "cidrs", "seed", "running", "uploading"} => code = 2
  /\ UploadCoversRun

(* The log only gets longer.                                               *)
LEMMA LogGrows ==
  ASSUME LogInv, [Next]_vars
  PROVE  Len(lines) \in Nat /\ Len(lines') \in Nat /\ Len(lines) <= Len(lines')
<1>1. lines \in Seq(Written)
  BY DEF LogInv
<1>2. CASE lines' = lines
  BY <1>1, <1>2
<1>3. CASE HandleEvent
  <2>1. PICK l : lines' = Append(lines, l) \/ lines' = lines
    BY <1>3 DEF HandleEvent, WriteEvent
  <2> QED
    BY <1>1, <2>1
<1>4. CASE MainStep /\ ~ AllowCidr
  BY <1>2, <1>4 DEF MainStep, ReadPolicyFile, FetchPolicy, FetchReturned, Attached,
     CidrsAllowed, StartReturned, Upload, NoUpload, UploadReturned,
     CloseReader, CloseHooks, CloseLog, Exit, logVars
<1>5. ASSUME NEW p \in Procs,
             \/ Connect(p) \/ Evict(p) \/ SudoEvent(p)
             \/ \E d \in Dests : NetEvent(p, d)
      PROVE  lines' = lines
  BY <1>5 DEF Connect, Evict, SudoEvent, NetEvent, emit, logVars
<1>6. CASE ReadRecord \/ SendEvent \/ ReceiveEvent
  BY <1>2, <1>6 DEF ReadRecord, SendEvent, ReceiveEvent, logVars
<1>7. CASE Client \/ Deliver \/ Tick \/ Signal \/ UNCHANGED vars
  BY <1>2, <1>7 DEF Client, Deliver, Tick, Signal, vars, logVars
<1>8. CASE Opens
  BY <1>2, <1>8, OpensEffect DEF logVars
<1> QED
  BY <1>2, <1>3, <1>4, <1>5, <1>6, <1>7, <1>8 DEF Next, Opens, ReaderStep,
     ConsumerStep

LEMMA UploadInvStep ==
  ASSUME UploadInv, ApiInv, LogInv, [Next]_vars
  PROVE  UploadInv'
<1>0. /\ Len(lines) \in Nat /\ Len(lines') \in Nat /\ Len(lines) <= Len(lines')
      /\ policy' = policy
      /\ mark \in Nat /\ mark <= Len(lines) /\ mark <= Len(lines')
  BY LogGrows, HistoryGrows DEF UploadInv
<1>1. CASE UNCHANGED <<apiVars, mainVars>>
  BY <1>0, <1>1 DEF apiVars, mainVars, UploadInv, UploadCoversRun
<1>2. CASE ReadPolicyFile
  BY <1>0, <1>2 DEF ReadPolicyFile, apiVars, UploadInv, UploadCoversRun, MainPcs
<1>3. CASE FetchPolicy
  BY <1>0, <1>3 DEF FetchPolicy, Call, Reset, mainVars, UploadInv,
     UploadCoversRun, MainPcs
<1>4. CASE FetchReturned
  BY <1>0, <1>4 DEF FetchReturned, Reset, UploadInv, UploadCoversRun, MainPcs
<1>5. CASE \/ Attached \/ CidrsAllowed \/ StartReturned \/ CloseReader
           \/ CloseHooks \/ CloseLog \/ Exit
  BY <1>0, <1>5 DEF Attached, CidrsAllowed, StartReturned, CloseReader,
     CloseHooks, CloseLog, Exit, apiVars, UploadInv, UploadCoversRun, MainPcs
<1>6. CASE Upload
  BY <1>0, <1>6 DEF Upload, Call, Reset, UploadInv, UploadCoversRun, MainPcs
<1>7. CASE NoUpload
  BY <1>0, <1>7 DEF NoUpload, apiVars, UploadInv, UploadCoversRun, MainPcs
<1>8. CASE UploadReturned
  <2>1. apiRet = "ok" => uploaded = snapshot /\ snapshot \in Nat /\ mark <= snapshot
    BY <1>8, Justified DEF UploadReturned, UploadInv, ApiInv
  <2>2. UploadCoversRun'
    BY <1>0, <1>8, <2>1 DEF UploadReturned, UploadCoversRun, None
  <2> QED
    BY <1>0, <1>8, <2>2 DEF UploadReturned, Reset, UploadInv, MainPcs
<1>9. CASE Client
  <2>1. /\ apiPc # "idle" /\ UNCHANGED <<op, arrived, mainVars>>
    BY <1>9 DEF Client, ClientStep, Try, Answered, Broken, Backoff
  <2> QED
    BY <1>0, <2>1 DEF mainVars, UploadInv, UploadCoversRun
<1>10. CASE Deliver
  <2>1. /\ apiPc # "idle" /\ UNCHANGED <<op, apiPc, main, term, mark, snapshot, code>>
        /\ uploaded' = IF op = "upload" THEN snapshot ELSE uploaded
    BY <1>10 DEF Deliver, Arrive, ApiInv
  <2>2. main \in {"fetch", "uploading"} /\ code = 2
    BY <2>1 DEF UploadInv
  <2> QED
    BY <1>0, <2>1, <2>2 DEF UploadInv, UploadCoversRun
<1>11. CASE Signal
  BY <1>0, <1>11 DEF Signal, apiVars, logVars, UploadInv, UploadCoversRun
<1>12. CASE Tick \/ UNCHANGED vars
  BY <1>1, <1>12 DEF Tick, vars
<1>13. ASSUME NEW p \in Procs,
              \/ Connect(p) \/ Evict(p) \/ SudoEvent(p)
              \/ \E d \in Dests : NetEvent(p, d)
       PROVE  UploadInv'
  BY <1>1, <1>13 DEF Connect, Evict, SudoEvent, NetEvent, emit
<1>14. CASE ReaderStep \/ ConsumerStep
  BY <1>1, <1>14 DEF ReaderStep, ReadRecord, SendEvent, ConsumerStep, ReceiveEvent,
     HandleEvent
<1>15. CASE Opens
  BY <1>1, <1>15, OpensEffect
<1> QED
  BY <1>2, <1>3, <1>4, <1>5, <1>6, <1>7, <1>8, <1>9, <1>10, <1>11, <1>12, <1>13,
     <1>14, <1>15 DEF Next, MainStep, Opens

(* The bookkeeping of main, client and pipeline, in every reachable state. *)
LEMMA AgentPipeline == Spec => [](ApiInv /\ PipeInv /\ UploadInv)
<1>1. Init => ApiInv /\ UploadInv
  BY AttemptsAssumption DEF Init, ApiInit, ApiInv, ApiTypeOK, ApiPcs,
     RetriesAreJustified, UploadInv, MainPcs, UploadCoversRun
<1>2. ApiInv /\ UploadInv /\ PipeInv /\ [Next]_vars => ApiInv' /\ UploadInv'
  BY ApiInvStep, UploadInvStep DEF PipeInv
<1> QED
  BY <1>1, <1>2, PipelineInvariance, PTL DEF Spec

(* When the agent exits with code 0 under a policy of the API, the API has *)
(* a log with at least the lines written before the signal, whatever was   *)
(* lost, repeated or late between the two and whatever the job did         *)
(* meanwhile.                                                              *)
THEOREM UploadIsComplete == Spec => []UploadCoversRun
  BY AgentPipeline, PTL DEF UploadInv

(* The pipeline's types: ring buffer and channel never hold more than      *)
(* their capacity, reader and consumer never more than one event, and the  *)
(* dedupe cache has no entry of the future.                                *)
THEOREM PipelineTypeCorrect == Spec => []PipeTypeOK
<1>1. ApiInv /\ PipeInv /\ UploadInv => PipeTypeOK
  BY DEF PipeTypeOK, ApiInv, PipeInv, QueueInv, LogInv, UploadInv
<1> QED
  BY <1>1, AgentPipeline, PTL

-----------------------------------------------------------------------------
(***************************************************************************)
(* The refinement of LossyLog.  First, sequences: what waits is four of    *)
(* them end to end.                                                        *)
(***************************************************************************)
LEMMA AppendBehind ==
  ASSUME NEW S, NEW s \in Seq(S), NEW t \in Seq(S), NEW x \in S
  PROVE  s \o Append(t, x) = Append(s \o t, x)
<1> DEFINE l == s \o Append(t, x)
           r == Append(s \o t, x)
<1>1. /\ Append(t, x) \in Seq(S) /\ Len(Append(t, x)) = Len(t) + 1
      /\ \A i \in 1 .. Len(t) : Append(t, x)[i] = t[i]
      /\ Append(t, x)[Len(t) + 1] = x
  OBVIOUS
<1>2. /\ l \in Seq(S) /\ Len(l) = Len(s) + Len(t) + 1
      /\ \A i \in 1 .. Len(l) :
           l[i] = IF i <= Len(s) THEN s[i] ELSE Append(t, x)[i - Len(s)]
  BY <1>1, ConcatProperties
<1>3. /\ s \o t \in Seq(S) /\ Len(s \o t) = Len(s) + Len(t)
      /\ \A i \in 1 .. Len(s) + Len(t) :
           (s \o t)[i] = IF i <= Len(s) THEN s[i] ELSE t[i - Len(s)]
  BY ConcatProperties
<1>4. /\ r \in Seq(S) /\ Len(r) = Len(s) + Len(t) + 1
      /\ \A i \in 1 .. Len(s) + Len(t) : r[i] = (s \o t)[i]
      /\ r[Len(s) + Len(t) + 1] = x
  BY <1>3, AppendProperties
<1> HIDE DEF l, r
<1>5. ASSUME NEW i \in 1 .. Len(l) PROVE l[i] = r[i]
  <2>0. Len(s) \in Nat /\ Len(t) \in Nat
    OBVIOUS
  <2>1. CASE i <= Len(s)
    <3>1. i \in 1 .. Len(s) + Len(t)
      BY <1>2, <2>0, <2>1
    <3> QED
      BY <1>2, <1>3, <1>4, <2>1, <3>1
  <2>2. CASE i > Len(s) /\ i <= Len(s) + Len(t)
    <3>1. i - Len(s) \in 1 .. Len(t) /\ i \in 1 .. Len(s) + Len(t) /\ ~ (i <= Len(s))
      BY <2>0, <2>2
    <3> QED
      BY <1>1, <1>2, <1>3, <1>4, <3>1
  <2>3. CASE i = Len(s) + Len(t) + 1
    <3>1. i - Len(s) = Len(t) + 1 /\ ~ (i <= Len(s))
      BY <2>0, <2>3
    <3> QED
      BY <1>1, <1>2, <1>4, <2>3, <3>1
  <2>4. i \in Nat /\ i <= Len(s) + Len(t) + 1
    BY <1>2, <2>0
  <2> QED
    BY <2>0, <2>1, <2>2, <2>3, <2>4
<1>6. l = r
  BY <1>2, <1>4, <1>5, SeqEqual
<1> QED
  BY <1>6 DEF l, r

LEMMA PrefixOfConcat ==
  ASSUME NEW S, NEW s \in Seq(S), NEW t \in Seq(S)
  PROVE  SubSeq(s \o t, 1, Len(s)) = s
<1>1. CASE Len(s) = 0
  BY <1>1, SubSeqEmpty
<1>2. CASE Len(s) # 0
  BY <1>2, SubSeqOfConcat1, SubSeqFull
<1> QED
  BY <1>1, <1>2

LEMMA FrontOfAppend ==
  ASSUME NEW S, NEW s \in Seq(S), NEW x \in S
  PROVE  /\ Append(s, x) # <<>>
         /\ SubSeq(Append(s, x), 1, Len(Append(s, x)) - 1) = s
<1>1. /\ Append(s, x) # <<>> /\ Append(s, x) = s \o <<x>>
      /\ Len(Append(s, x)) = Len(s) + 1 /\ Len(s) \in Nat /\ <<x>> \in Seq(S)
  BY AppendProperties, AppendIsConcat
<1>2. SubSeq(s \o <<x>>, 1, Len(s)) = s
  BY <1>1, PrefixOfConcat
<1>3. Len(Append(s, x)) - 1 = Len(s)
  BY <1>1
<1> QED
  BY <1>1, <1>2, <1>3

LEMMA RemoveAtIs ==
  ASSUME NEW q, NEW i
  PROVE  RemoveAt(q, i) = SubSeq(q, 1, i - 1) \o SubSeq(q, i + 1, Len(q))
  BY DEF RemoveAt

LEMMA DropMiddle ==
  ASSUME NEW S, NEW s \in Seq(S), NEW x \in S, NEW t \in Seq(S)
  PROVE  /\ Len(s \o (<<x>> \o t)) = Len(s) + 1 + Len(t)
         /\ RemoveAt(s \o (<<x>> \o t), Len(s) + 1) = s \o t
<1> DEFINE w == s \o (<<x>> \o t)
           h == s \o <<x>>
<1>0. <<x>> \in Seq(S) /\ Len(<<x>>) = 1 /\ Len(s) \in Nat /\ Len(t) \in Nat
  OBVIOUS
<1>1. w = h \o t /\ h \in Seq(S) /\ Len(h) = Len(s) + 1 /\ <<x>> \o t \in Seq(S)
  BY <1>0, ConcatAssociative, ConcatProperties
<1>2. Len(w) = Len(h) + Len(t)
  BY <1>1, ConcatProperties
<1>3. SubSeq(w, 1, Len(s)) = s
  BY <1>1, PrefixOfConcat
<1>4. SubSeq(w, Len(h) + 1, Len(w)) = t
  <2>1. CASE Len(t) = 0
    BY <1>0, <1>1, <1>2, <2>1, SubSeqEmpty
  <2>2. CASE Len(t) # 0
    <3>1. /\ Len(h) + 1 \in Len(h) + 1 .. Len(h) + Len(t)
          /\ Len(h) + Len(t) \in Len(h) + 1 .. Len(h) + Len(t)
          /\ Len(h) + 1 - Len(h) = 1 /\ Len(h) + Len(t) - Len(h) = Len(t)
      BY <1>0, <1>1, <2>2
    <3>2. SubSeq(h \o t, Len(h) + 1, Len(h) + Len(t)) = SubSeq(t, 1, Len(t))
      BY <1>1, <3>1, SubSeqOfConcat2
    <3> QED
      BY <1>1, <1>2, <3>2, SubSeqFull
  <2> QED
    BY <2>1, <2>2
<1> HIDE DEF h, w
<1> DEFINE k == Len(s) + 1
<1>5. k \in Nat /\ k - 1 = Len(s) /\ k + 1 = Len(h) + 1
  BY <1>0, <1>1
<1> HIDE DEF k
<1>6. RemoveAt(w, k) = s \o t
  <2>1. RemoveAt(w, k) = SubSeq(w, 1, k - 1) \o SubSeq(w, k + 1, Len(w))
    BY RemoveAtIs
  <2> QED
    BY <1>3, <1>4, <1>5, <2>1
<1>7. Len(w) = Len(s) + 1 + Len(t)
  BY <1>0, <1>1, <1>2
<1> QED
  BY <1>6, <1>7 DEF w, k

LEMMA HeadOfConcat ==
  ASSUME NEW S, NEW x \in S, NEW t \in Seq(S)
  PROVE  <<x>> \o t # <<>> /\ Head(<<x>> \o t) = x /\ Tail(<<x>> \o t) = t
<1>0. <<x>> \in Seq(S) /\ Len(<<x>>) = 1 /\ Len(t) \in Nat
  OBVIOUS
<1> DEFINE w == <<x>> \o t
<1>1. /\ w \in Seq(S) /\ Len(w) = 1 + Len(t) 
      /\ \A i \in 1 .. 1 + Len(t) : w[i] = IF i <= 1 THEN <<x>>[i] ELSE t[i - 1]
  BY <1>0, ConcatProperties
<1> HIDE DEF w
<1>2. w # <<>> /\ Head(w) = x
  BY <1>0, <1>1
<1>3. /\ Tail(w) \in Seq(S) /\ Len(Tail(w)) = Len(t)
      /\ \A i \in 1 .. Len(t) : Tail(w)[i] = w[i + 1]
  BY <1>0, <1>1, <1>2, HeadTailProperties
<1>4. ASSUME NEW i \in 1 .. Len(Tail(w)) PROVE Tail(w)[i] = t[i]
  BY <1>0, <1>1, <1>3
<1>5. Tail(w) = t
  BY <1>3, <1>4, SeqEqual
<1> QED
  BY <1>2, <1>5 DEF w

(* A sequence that is not empty is its head before its tail.               *)
LEMMA HeadBeforeTail ==
  ASSUME NEW S, NEW s \in Seq(S), s # <<>>
  PROVE  s = <<Head(s)>> \o Tail(s) /\ Head(s) \in S /\ Tail(s) \in Seq(S)
<1>1. Len(s) \in Nat \ {0} /\ Head(s) = s[1] /\ Tail(s) = SubSeq(s, 2, Len(s))
  BY TailIsSubSeq, EmptySeq
<1>2. 1 \in 1 .. Len(s) /\ Len(s) \in 1 .. Len(s) /\ 1 + 1 = 2
  BY <1>1
<1>3. SubSeq(s, 1, Len(s)) = <<s[1]>> \o SubSeq(s, 1 + 1, Len(s))
  BY <1>2, SubSeqRecursiveFirst
<1> QED
  BY <1>1, <1>2, <1>3, SubSeqFull, HeadTailProperties

-----------------------------------------------------------------------------
(***************************************************************************)
(* When the agent listens, when the log is open, and what the dedupe cache *)
(* knows of the log: each of its entries is of a line, while the log is    *)
(* open, and each line younger than TTL still has an entry as young.       *)
(***************************************************************************)
Up == {"cidrs", "seed", "running", "uploading", "detach"}

ListenInv ==
  /\ "reader" \in live <=> main \in Up
  /\ main \notin Up \cup {"detaching"} => live = {} /\ ring = <<>>
  /\ main \in {"fetch", "attach", "cidrs", "seed"} => consumer = <<>> /\ seen = {}
  /\ logOpen <=> main \notin {"fetch", "closed", "exited"}

IsNet(l) == l.ev.kind = "net"
CacheInv ==
  /\ logOpen => \A s \in seen : \E i \in 1 .. Len(lines) :
       IsNet(lines[i]) /\ Key(lines[i].ev) = s.key /\ lines[i].at = s.at
  /\ Running => \A i \in 1 .. Len(lines) :
       IsNet(lines[i]) /\ now - lines[i].at < TTL =>
         \E s \in seen : s.key = Key(lines[i].ev) /\ s.at >= lines[i].at

LEMMA ListenInvStep ==
  ASSUME ListenInv, HookInv, UploadInv, [Next]_vars
  PROVE  ListenInv'
<1>1. CASE UNCHANGED <<live, ring, main, consumer, seen, logOpen>>
  BY <1>1 DEF ListenInv
<1>2. CASE ReadPolicyFile \/ FetchReturned
  BY <1>2 DEF ReadPolicyFile, FetchReturned, ListenInv, Up, Pipe, queueVars, fwVars
<1>3. CASE Attached
  BY <1>3 DEF Attached, ListenInv, Up, Pipe, queueVars, logVars
<1>4. CASE CidrsAllowed \/ StartReturned \/ Upload \/ NoUpload \/ UploadReturned
  BY <1>4 DEF CidrsAllowed, StartReturned, Upload, NoUpload, UploadReturned,
     ListenInv, Up, Pipe, queueVars, logVars, fwVars
<1>5. CASE CloseReader \/ CloseHooks
  BY <1>5 DEF CloseReader, CloseHooks, ListenInv, Up, Pipe, queueVars, logVars
<1>6. CASE CloseLog \/ Exit
  BY <1>6 DEF CloseLog, Exit, ListenInv, Up, Pipe, queueVars, fwVars
<1>7. CASE FetchPolicy \/ Client \/ Deliver \/ Signal \/ Tick \/ UNCHANGED vars
  BY <1>1, <1>7 DEF FetchPolicy, Client, Deliver, Signal, Tick, vars, mainVars,
     logVars, fwVars, queueVars, Pipe
<1>8. CASE Opens
  BY <1>1, <1>8, OpensEffect DEF mainVars, logVars, queueVars, Pipe
<1>9. ASSUME NEW p \in Procs, Connect(p) \/ Evict(p)
      PROVE  ListenInv'
  BY <1>1, <1>9 DEF Connect, Evict, mainVars, logVars, fwVars, queueVars
<1>10. ASSUME NEW p \in Procs, SudoEvent(p) \/ \E d \in Dests : NetEvent(p, d)
       PROVE  ListenInv'
  <2>1. live # {} /\ UNCHANGED <<live, main, consumer, seen, logOpen>>
    BY <1>10 DEF SudoEvent, NetEvent, emit, EgressLive, mainVars, logVars, fwVars
  <2> QED
    BY <2>1 DEF ListenInv
<1>11. CASE ReadRecord
  <2>1. live # {} /\ UNCHANGED <<live, main, consumer, seen, logOpen>>
    BY <1>11 DEF ReadRecord, mainVars, logVars, fwVars
  <2> QED
    BY <2>1 DEF ListenInv
<1>12. CASE SendEvent
  BY <1>1, <1>12 DEF SendEvent, mainVars, logVars, fwVars
<1>13. CASE ReceiveEvent
  BY <1>13 DEF ReceiveEvent, mainVars, logVars, fwVars, ListenInv
<1>14. CASE HandleEvent
  BY <1>14 DEF HandleEvent, mainVars, fwVars, ListenInv
<1> QED
  BY <1>2, <1>3, <1>4, <1>5, <1>6, <1>7, <1>8, <1>9, <1>10, <1>11, <1>12, <1>13,
     <1>14 DEF Next, MainStep, Opens, ReaderStep, ConsumerStep

(* The cache when the log gains the line of an event that is let through.  *)
LEMMA CacheKept ==
  ASSUME CacheInv, LogInv, NEW e \in Told, e.kind = "net", Running, logOpen,
         Remember(e), WriteEvent(e), UNCHANGED <<now, logOpen, main>>
  PROVE  CacheInv'
<1> DEFINE l == [ev |-> e, at |-> now, action |-> Action(e)]
           own == [key |-> Key(e), at |-> now]
           n == Len(lines)
<1>1. /\ lines \in Seq(Written) /\ n \in Nat /\ now \in Nat
      /\ \A i \in 1 .. n : lines[i].at \in Nat /\ lines[i].at <= now
      /\ \A s \in seen : s.at \in Nat /\ s.at <= now
      /\ TTL \in Nat \ {0}
  BY SizesAssumption DEF LogInv, Written
<1>2. /\ lines' = Append(lines, l) /\ l.ev = e /\ l.at = now
      /\ own.key = Key(e) /\ own.at = now
  BY DEF WriteEvent
<1> HIDE DEF l, own
<1>3. /\ Len(lines') = n + 1 /\ lines'[n + 1] = l
      /\ \A i \in 1 .. n : lines'[i] = lines[i]
  BY <1>1, <1>2
<1>4. IsNet(l)
  BY <1>2 DEF IsNet
<1> HIDE DEF n
<1>5. ASSUME NEW s \in seen'
      PROVE  \E i \in 1 .. Len(lines') :
               IsNet(lines'[i]) /\ Key(lines'[i].ev) = s.key /\ lines'[i].at = s.at
  <2>1. s = own \/ s \in seen
    BY RememberEffect DEF own
  <2>2. CASE s = own
    <3>1. n + 1 \in 1 .. Len(lines')
      BY <1>1, <1>3
    <3> QED
      BY <1>2, <1>3, <1>4, <2>2, <3>1
  <2>3. CASE s \in seen
    <3>1. PICK i \in 1 .. n :
            IsNet(lines[i]) /\ Key(lines[i].ev) = s.key /\ lines[i].at = s.at
      BY <2>3 DEF CacheInv, n
    <3>2. i \in 1 .. Len(lines') /\ lines'[i] = lines[i]
      BY <1>1, <1>3
    <3> QED
      BY <3>1, <3>2
  <2> QED
    BY <2>1, <2>2, <2>3
<1>6. own \in seen'
  <2>1. ~ Expired(own)
    BY <1>1, <1>2 DEF Expired
  <2> QED
    BY <2>1, RememberEffect DEF own
<1>7. ASSUME NEW i \in 1 .. Len(lines'), IsNet(lines'[i]), now - lines'[i].at < TTL
      PROVE  \E s \in seen' : s.key = Key(lines'[i].ev) /\ s.at >= lines'[i].at
  <2>1. CASE Key(lines'[i].ev) = Key(e)
    <3>1. lines'[i].at <= now
      <4>1. i = n + 1 \/ i \in 1 .. n
        BY <1>1, <1>3
      <4> QED
        BY <1>1, <1>2, <1>3, <4>1
    <3> QED
      BY <1>1, <1>2, <1>6, <2>1, <3>1
  <2>2. CASE Key(lines'[i].ev) # Key(e)
    <3>1. i \in 1 .. n /\ lines'[i] = lines[i]
      <4>1. i = n + 1 \/ i \in 1 .. n
        BY <1>1, <1>3
      <4> QED
        BY <1>2, <1>3, <2>2, <4>1
    <3>2. PICK s \in seen : s.key = Key(lines[i].ev) /\ s.at >= lines[i].at
      BY <1>7, <3>1 DEF CacheInv, n
    <3>3. ~ Expired(s)
      BY <1>1, <1>7, <3>1, <3>2 DEF Expired
    <3>4. s \in seen'
      BY <2>2, <3>1, <3>2, <3>3, RememberEffect
    <3> QED
      BY <3>1, <3>2, <3>4
  <2> QED
    BY <2>1, <2>2
<1> QED
  BY <1>5, <1>7 DEF CacheInv

(* The same once the log is closed, when no line is written.               *)
LEMMA CacheKeptClosed ==
  ASSUME CacheInv, LogInv, NEW e \in Told, Running, ~ logOpen,
         Remember(e), WriteEvent(e), UNCHANGED <<now, logOpen, main>>
  PROVE  CacheInv'
<1>1. /\ lines' = lines /\ now \in Nat /\ TTL \in Nat \ {0}
      /\ \A i \in 1 .. Len(lines) : lines[i].at \in Nat /\ lines[i].at <= now
      /\ \A s \in seen : s.at \in Nat /\ s.at <= now
  BY SizesAssumption DEF LogInv, Written, WriteEvent
<1>2. ASSUME NEW i \in 1 .. Len(lines'), IsNet(lines'[i]), now - lines'[i].at < TTL
      PROVE  \E s \in seen' : s.key = Key(lines'[i].ev) /\ s.at >= lines'[i].at
  <2>1. CASE Key(lines[i].ev) = Key(e)
    <3> DEFINE own == [key |-> Key(e), at |-> now]
    <3>1. own.key = Key(e) /\ own.at = now
      OBVIOUS
    <3> HIDE DEF own
    <3>2. ~ Expired(own)
      BY <1>1, <3>1 DEF Expired
    <3>3. own \in seen'
      BY <3>2, RememberEffect DEF own
    <3> QED
      BY <1>1, <1>2, <2>1, <3>1, <3>3
  <2>2. CASE Key(lines[i].ev) # Key(e)
    <3>1. PICK s \in seen : s.key = Key(lines[i].ev) /\ s.at >= lines[i].at
      BY <1>1, <1>2 DEF CacheInv
    <3>2. ~ Expired(s)
      BY <1>1, <1>2, <3>1 DEF Expired
    <3>3. s \in seen'
      BY <2>2, <3>1, <3>2, RememberEffect
    <3> QED
      BY <1>1, <3>1, <3>3
  <2> QED
    BY <2>1, <2>2
<1> QED
  BY <1>2 DEF CacheInv

LEMMA CacheInvStep ==
  ASSUME CacheInv, ListenInv, QueueInv, LogInv, [Next]_vars
  PROVE  CacheInv'
<1>1. CASE UNCHANGED <<seen, lines, now, logOpen>> /\ (Running' => Running)
  BY <1>1 DEF CacheInv
<1>2. CASE ReadPolicyFile \/ FetchReturned
  BY <1>2 DEF ReadPolicyFile, FetchReturned, ListenInv, CacheInv, Running
<1>3. CASE CloseLog
  BY <1>3 DEF CloseLog, CacheInv, Running
<1>4. CASE Exit
  BY <1>4 DEF Exit, ListenInv, CacheInv, Running
<1>5. CASE \/ FetchPolicy \/ Attached \/ CidrsAllowed \/ StartReturned \/ Upload \/ NoUpload
           \/ UploadReturned \/ CloseReader \/ CloseHooks
  BY <1>1, <1>5 DEF FetchPolicy, Attached, CidrsAllowed, StartReturned, Upload,
     NoUpload, UploadReturned, CloseReader, CloseHooks, logVars, mainVars, Running
<1>6. CASE Tick
  <2>1. /\ UNCHANGED <<seen, lines, logOpen, main>> /\ now' = now + 1 /\ now \in Nat
        /\ TTL \in Nat /\ \A i \in 1 .. Len(lines) : lines[i].at \in Nat
    BY <1>6, SizesAssumption DEF Tick, mainVars, LogInv, Written
  <2>2. ASSUME NEW i \in 1 .. Len(lines), now' - lines[i].at < TTL
        PROVE  now - lines[i].at < TTL
    BY <2>1, <2>2
  <2> QED
    BY <2>1, <2>2 DEF CacheInv, Running
<1>7. CASE ConsumerStep /\ HandleEvent
  <2> DEFINE e == Head(consumer)
  <2>1. /\ Running /\ UNCHANGED <<now, logOpen, main>> /\ e \in Told
        /\ \/ e.kind = "sudo" /\ WriteEvent(e) /\ UNCHANGED seen
           \/ e.kind = "net" /\ Remember(e) /\ WriteEvent(e)
           \/ UNCHANGED <<seen, lines>>
    BY <1>7 DEF ConsumerStep, HandleEvent, QueueInv, mainVars
  <2> HIDE DEF e
  <2>2. CASE UNCHANGED <<seen, lines>>
    BY <1>1, <2>1, <2>2 DEF Running
  <2>3. CASE e.kind = "sudo" /\ WriteEvent(e) /\ UNCHANGED seen /\ logOpen
    <3> DEFINE l == [ev |-> e, at |-> now, action |-> Action(e)]
    <3>1. lines \in Seq(Written) /\ lines' = Append(lines, l) /\ l.ev = e
      BY <2>3 DEF WriteEvent, LogInv
    <3> HIDE DEF l
    <3>2. /\ Len(lines) \in Nat /\ Len(lines') = Len(lines) + 1
          /\ lines'[Len(lines) + 1] = l /\ \A i \in 1 .. Len(lines) : lines'[i] = lines[i]
      BY <3>1
    <3>3. ~ IsNet(l)
      BY <2>3, <3>1 DEF IsNet
    <3>4. \A i \in 1 .. Len(lines') : IsNet(lines'[i]) =>
            i \in 1 .. Len(lines) /\ lines'[i] = lines[i]
      BY <3>2, <3>3
    <3>5. \A i \in 1 .. Len(lines) : i \in 1 .. Len(lines') /\ lines'[i] = lines[i]
      BY <3>2
    <3> QED
      BY <2>1, <2>3, <3>4, <3>5 DEF CacheInv, Running
  <2>4. CASE e.kind = "sudo" /\ WriteEvent(e) /\ UNCHANGED seen /\ ~ logOpen
    BY <1>1, <2>1, <2>4 DEF WriteEvent, Running
  <2>5. CASE e.kind = "net" /\ Remember(e) /\ WriteEvent(e)
    BY <2>1, <2>5, CacheKept, CacheKeptClosed
  <2> QED
    BY <2>1, <2>2, <2>3, <2>4, <2>5
<1>8. CASE ReadRecord \/ SendEvent \/ ReceiveEvent
  BY <1>1, <1>8 DEF ReadRecord, SendEvent, ReceiveEvent, logVars, mainVars, Running
<1>9. ASSUME NEW p \in Procs,
             \/ Connect(p) \/ Evict(p) \/ SudoEvent(p)
             \/ \E d \in Dests : NetEvent(p, d)
      PROVE  CacheInv'
  BY <1>1, <1>9 DEF Connect, Evict, SudoEvent, NetEvent, emit, logVars,
     mainVars, Running
<1>10. CASE Client \/ Deliver \/ Signal \/ UNCHANGED vars
  BY <1>1, <1>10 DEF Client, Deliver, Signal, vars, logVars, mainVars, Running
<1>11. CASE Opens
  BY <1>1, <1>11, OpensEffect DEF logVars, mainVars, Running
<1> QED
  BY <1>2, <1>3, <1>4, <1>5, <1>6, <1>7, <1>8, <1>9, <1>10, <1>11
     DEF Next, MainStep, Opens, ReaderStep, ConsumerStep

LEMMA WholePipeline ==
  Spec => [](ApiInv /\ PipeInv /\ UploadInv /\ ListenInv /\ CacheInv)
<1>1. Init => ListenInv /\ CacheInv
  BY DEF Init, FwInit, ListenInv, CacheInv, Up
<1>2. PipeInv /\ UploadInv /\ ListenInv /\ CacheInv /\ [Next]_vars
        => ListenInv' /\ CacheInv'
  BY ListenInvStep, CacheInvStep DEF PipeInv
<1> QED
  BY <1>1, <1>2, AgentPipeline, PTL DEF Spec

-----------------------------------------------------------------------------
(***************************************************************************)
(* What waits: the sequences of the pipeline end to end, as the abstract   *)
(* log has them.                                                           *)
(***************************************************************************)
Decoded(r) == [i \in DOMAIN r |-> Decode(r[i])]
Logged == [i \in DOMAIN lines |-> [ev |-> lines[i].ev, at |-> lines[i].at]]

LEMMA DecodedSeq ==
  ASSUME NEW r \in Seq(Events), \A i \in 1 .. Len(r) : Decode(r[i]) \in Told
  PROVE  /\ Decoded(r) \in Seq(Told) /\ Len(Decoded(r)) = Len(r)
         /\ \A i \in 1 .. Len(r) : Decoded(r)[i] = Decode(r[i])
  BY DEF Decoded

(* The record that emit adds, and the one ReadRecord takes.                *)
LEMMA DecodedAppend ==
  ASSUME NEW r \in Seq(Events), \A i \in 1 .. Len(r) : Decode(r[i]) \in Told,
         NEW x \in Events, Decode(x) \in Told
  PROVE  Decoded(Append(r, x)) = Append(Decoded(r), Decode(x))
<1> DEFINE a == Append(r, x)
           p == Append(Decoded(r), Decode(x))
<1>1. /\ a \in Seq(Events) /\ Len(a) = Len(r) + 1 /\ Len(r) \in Nat
      /\ \A i \in 1 .. Len(r) : a[i] = r[i]
      /\ a[Len(r) + 1] = x
  OBVIOUS
<1>2. /\ Decoded(r) \in Seq(Told) /\ Len(Decoded(r)) = Len(r)
      /\ \A i \in 1 .. Len(r) : Decoded(r)[i] = Decode(r[i])
  BY DecodedSeq
<1>3. /\ p \in Seq(Told) /\ Len(p) = Len(r) + 1
      /\ \A i \in 1 .. Len(r) : p[i] = Decode(r[i])
      /\ p[Len(r) + 1] = Decode(x)
  BY <1>2, AppendProperties
<1> HIDE DEF a, p
<1>4. \A i \in 1 .. Len(a) : Decode(a[i]) \in Told
  BY <1>1
<1>5. /\ Decoded(a) \in Seq(Told) /\ Len(Decoded(a)) = Len(a)
      /\ \A i \in 1 .. Len(a) : Decoded(a)[i] = Decode(a[i])
  BY <1>1, <1>4, DecodedSeq
<1>6. \A i \in 1 .. Len(Decoded(a)) : Decoded(a)[i] = p[i]
  BY <1>1, <1>3, <1>5
<1>7. Decoded(a) = p
  BY <1>1, <1>3, <1>5, <1>6, SeqEqual
<1> QED
  BY <1>7 DEF a, p

LEMMA DecodedHead ==
  ASSUME NEW r \in Seq(Events), \A i \in 1 .. Len(r) : Decode(r[i]) \in Told,
         r # <<>>
  PROVE  /\ Decoded(r) = <<Decode(Head(r))>> \o Decoded(Tail(r))
         /\ Decode(Head(r)) \in Told /\ Decoded(Tail(r)) \in Seq(Told)
<1> DEFINE t == Tail(r)
           w == <<Decode(Head(r))>> \o Decoded(t)
<1>1. /\ Len(r) \in Nat \ {0} /\ Head(r) = r[1] /\ Head(r) \in Events
      /\ t \in Seq(Events) /\ Len(t) = Len(r) - 1
      /\ \A i \in 1 .. Len(t) : t[i] = r[i + 1]
  OBVIOUS
<1> HIDE DEF t
<1>2. Decode(Head(r)) \in Told /\ \A i \in 1 .. Len(t) : Decode(t[i]) \in Told
  BY <1>1
<1>3. /\ Decoded(t) \in Seq(Told) /\ Len(Decoded(t)) = Len(t)
      /\ \A i \in 1 .. Len(t) : Decoded(t)[i] = Decode(t[i])
  BY <1>1, <1>2, DecodedSeq
<1>4. /\ Decoded(r) \in Seq(Told) /\ Len(Decoded(r)) = Len(r)
      /\ \A i \in 1 .. Len(r) : Decoded(r)[i] = Decode(r[i])
  BY DecodedSeq
<1>5. <<Decode(Head(r))>> \in Seq(Told) /\ Len(<<Decode(Head(r))>>) = 1
  BY <1>2
<1>6. /\ w \in Seq(Told) /\ Len(w) = 1 + Len(t)
      /\ \A i \in 1 .. 1 + Len(t) :
           w[i] = IF i <= 1 THEN <<Decode(Head(r))>>[i] ELSE Decoded(t)[i - 1]
  BY <1>3, <1>5, ConcatProperties
<1> HIDE DEF w
<1>7. ASSUME NEW i \in 1 .. Len(Decoded(r)) PROVE Decoded(r)[i] = w[i]
  <2>1. CASE i = 1
    BY <1>1, <1>4, <1>6, <2>1
  <2>2. CASE i # 1
    <3>1. i - 1 \in 1 .. Len(t) /\ i \in 1 .. 1 + Len(t) /\ ~ (i <= 1) /\ (i - 1) + 1 = i
      BY <1>1, <1>4, <2>2
    <3>2. w[i] = Decode(t[i - 1])
      BY <1>3, <1>6, <3>1
    <3>3. t[i - 1] = r[i]
      BY <1>1, <3>1
    <3> QED
      BY <1>4, <3>2, <3>3
  <2> QED
    BY <2>1, <2>2
<1>8. Len(Decoded(r)) = Len(w)
  BY <1>1, <1>4, <1>6
<1>9. Decoded(r) = w
  BY <1>4, <1>6, <1>7, <1>8, SeqEqual
<1> QED
  BY <1>2, <1>3, <1>9 DEF w, t

(* The steps of the abstract log, in terms of the pipeline.                *)
LEMMA AbstractHappen ==
  ASSUME count' = count + 1, UNCHANGED <<Logged, now, Listening>>,
         Pending \in Seq(Told),
         \/ \E x \in Told : Pending' = Append(Pending, x)
         \/ Pending' = Pending /\ (~ Listening \/ Len(Pending) >= ChanMax)
  PROVE  Abstract!Happen
<1> HIDE DEF Pending, Listening
<1>1. CASE \E x \in Told : Pending' = Append(Pending, x)
  <2>1. Pending' # <<>> /\ Pending = SubSeq(Pending', 1, Len(Pending') - 1)
    BY <1>1, FrontOfAppend
  <2> QED
    BY <2>1 DEF Abstract!Happen, Abstract!Front, Front, Logged
<1> QED
  BY <1>1 DEF Abstract!Happen, Logged

LEMMA AbstractLose ==
  ASSUME UNCHANGED <<count, Logged, now, Listening>>,
         NEW s \in Seq(Told), NEW x \in Told, NEW t \in Seq(Told),
         Pending = s \o (<<x>> \o t), Pending' = s \o t,
         ~ Listening \/ Len(s) >= ChanMax
  PROVE  Abstract!Lose
<1> DEFINE w == s \o (<<x>> \o t)
<1>0. Len(w) = Len(s) + 1 + Len(t) /\ RemoveAt(w, Len(s) + 1) = s \o t
  BY DropMiddle
<1> HIDE DEF w
<1>1. /\ Len(Pending) = Len(s) + 1 + Len(t) /\ Len(s) \in Nat /\ Len(t) \in Nat
      /\ Pending' = RemoveAt(Pending, Len(s) + 1)
  <2>1. Len(s) \in Nat /\ Len(t) \in Nat
    OBVIOUS
  <2>2. Pending = w
    BY DEF w
  <2>3. Len(Pending) = Len(s) + 1 + Len(t)
    BY <1>0, <2>2
  <2>4. RemoveAt(Pending, Len(s) + 1) = RemoveAt(w, Len(s) + 1)
    BY <2>2
  <2>5. Pending' = RemoveAt(w, Len(s) + 1)
    BY <1>0
  <2> QED
    BY <2>1, <2>3, <2>4, <2>5
<1>2. Pending \in Seq(Told)
  <2>1. <<x>> \in Seq(Told)
    OBVIOUS
  <2> QED
    BY <2>1, ConcatProperties
<1>3. Len(s) + 1 \in DOMAIN Pending
  BY <1>1, <1>2
<1>4. ~ Listening \/ Len(s) + 1 > ChanMax
  BY <1>1, SizesAssumption
<1>5. Pending' = Abstract!RemoveAt(Pending, Len(s) + 1)
  BY <1>1 DEF Abstract!RemoveAt, RemoveAt
<1>6. \E i \in DOMAIN Pending :
        (~ Listening \/ i > ChanMax) /\ Pending' = Abstract!RemoveAt(Pending, i)
  BY <1>3, <1>4, <1>5
<1> QED
  BY <1>6 DEF Abstract!Lose, Logged

LEMMA AbstractForget ==
  ASSUME UNCHANGED <<count, Logged, now, Listening>>, ~ Listening,
         NEW s \in Seq(Told), NEW t \in Seq(Told),
         Pending = s \o t, Pending' = s
  PROVE  Abstract!Forget
<1>1. /\ Len(s) \in 0 .. Len(Pending) /\ SubSeq(Pending, 1, Len(s)) = s
  BY PrefixOfConcat, ConcatProperties
<1> QED
  BY <1>1 DEF Abstract!Forget, Logged

LEMMA Single ==
  ASSUME NEW S, NEW s \in Seq(S), s # <<>>, Len(s) <= 1
  PROVE  s = <<Head(s)>> /\ Head(s) \in S
<1>1. /\ s = <<Head(s)>> \o Tail(s) /\ Head(s) \in S /\ Tail(s) \in Seq(S)
      /\ Len(Tail(s)) = Len(s) - 1 /\ Len(s) \in Nat \ {0}
  BY HeadBeforeTail, HeadTailProperties, EmptySeq
<1>2. Len(Tail(s)) = 0
  BY <1>1
<1>3. Tail(s) = <<>> /\ <<Head(s)>> \in Seq(S)
  BY <1>1, <1>2, EmptySeq
<1> QED
  BY <1>1, <1>3, ConcatEmptySeq

(* What waits, as sequences of events that user space may see.             *)
LEMMA Joined ==
  ASSUME NEW S, NEW a \in Seq(S), NEW b \in Seq(S), NEW c \in Seq(S), NEW d \in Seq(S)
  PROVE  /\ a \o b \o c \o d \in Seq(S) /\ a \o b \in Seq(S) /\ a \o b \o c \in Seq(S)
         /\ Len(a \o b \o c \o d) = Len(a) + Len(b) + Len(c) + Len(d)
<1>1. a \o b \in Seq(S) /\ Len(a \o b) = Len(a) + Len(b)
  BY ConcatProperties
<1>2. a \o b \o c \in Seq(S) /\ Len(a \o b \o c) = Len(a) + Len(b) + Len(c)
  BY <1>1, ConcatProperties
<1>3. /\ a \o b \o c \o d \in Seq(S)
      /\ Len(a \o b \o c \o d) = Len(a) + Len(b) + Len(c) + Len(d)
  BY <1>2, ConcatProperties
<1> QED
  BY <1>1, <1>2, <1>3

LEMMA Waiting ==
  ASSUME QueueInv
  PROVE  /\ consumer \in Seq(Told) /\ ch \in Seq(Told) /\ reader \in Seq(Told)
         /\ Decoded(ring) \in Seq(Told) /\ Len(Decoded(ring)) = Len(ring)
         /\ ring \in Seq(Events) /\ \A i \in 1 .. Len(ring) : Decode(ring[i]) \in Told
         /\ Pending = consumer \o ch \o reader \o Decoded(ring)
         /\ (consumer \o ch) \o reader = consumer \o (ch \o reader)
         /\ Pending = consumer \o (ch \o (reader \o Decoded(ring)))
         /\ ch \o (reader \o Decoded(ring)) \in Seq(Told) /\ Pending \in Seq(Told)
<1>1. /\ consumer \in Seq(Told) /\ ch \in Seq(Told) /\ reader \in Seq(Told)
      /\ ring \in Seq(Events) /\ \A i \in 1 .. Len(ring) : Decode(ring[i]) \in Told
  BY DEF QueueInv
<1>2. Decoded(ring) \in Seq(Told) /\ Len(Decoded(ring)) = Len(ring)
  BY <1>1, DecodedSeq
<1>3. Pending = consumer \o ch \o reader \o Decoded(ring)
  BY DEF Pending, Decoded
<1> DEFINE d == Decoded(ring)
           t == ch \o (reader \o d)
<1>4. d \in Seq(Told) /\ reader \o d \in Seq(Told) /\ consumer \o ch \in Seq(Told)
  BY <1>1, <1>2, ConcatProperties
<1> HIDE DEF d
<1>5. t \in Seq(Told)
  BY <1>1, <1>4, ConcatProperties
<1>6. consumer \o ch \o reader \o d = (consumer \o ch) \o (reader \o d)
  <2> DEFINE u == consumer \o ch
  <2>1. u \in Seq(Told) /\ reader \in Seq(Told) /\ d \in Seq(Told)
    BY <1>1, <1>4
  <2> HIDE DEF u
  <2>2. (u \o reader) \o d = u \o (reader \o d)
    BY <2>1, ConcatAssociative
  <2> QED
    BY <2>2 DEF u
<1>7. (consumer \o ch) \o (reader \o d) = consumer \o t
  <2> DEFINE u == reader \o d
  <2>1. consumer \in Seq(Told) /\ ch \in Seq(Told) /\ u \in Seq(Told)
    BY <1>1, <1>4
  <2> HIDE DEF u
  <2>2. (consumer \o ch) \o u = consumer \o (ch \o u)
    BY <2>1, ConcatAssociative
  <2> QED
    BY <2>2 DEF u
<1>8. Pending = consumer \o t
  BY <1>3, <1>6, <1>7 DEF d
<1>9. consumer \o t \in Seq(Told)
  <2> HIDE DEF t
  <2> QED
    BY <1>1, <1>5, ConcatProperties
<1>10. (consumer \o ch) \o reader = consumer \o (ch \o reader)
  <2>1. consumer \in Seq(Told) /\ ch \in Seq(Told) /\ reader \in Seq(Told)
    BY <1>1
  <2> QED
    BY <2>1, ConcatAssociative
<1> QED
  BY <1>1, <1>2, <1>3, <1>5, <1>8, <1>9, <1>10 DEF d

LEMMA WaitingNext == Pending' = consumer' \o ch' \o reader' \o Decoded(ring')
  BY DEF Pending, Decoded

(* An event of the kernel: it waits, or there was no room for it.          *)
LEMMA EmitRefines ==
  ASSUME QueueInv, NEW e, emit(e), [e EXCEPT !.id = count'] \in Events,
         Decode([e EXCEPT !.id = count']) \in Told
  PROVE  Abstract!Happen
<1> DEFINE r == [e EXCEPT !.id = count']
<1>1. /\ count' = count + 1 /\ UNCHANGED <<reader, ch, consumer, lines, now, main, live>>
      /\ ring' = IF Len(ring) < RingMax THEN Append(ring, r) ELSE ring
      /\ r \in Events /\ Decode(r) \in Told
  BY DEF emit, logVars, mainVars, fwVars
<1> HIDE DEF r
<1>2. UNCHANGED <<Logged, now, Listening>>
  BY <1>1 DEF Logged, Listening
<1>3. CASE Len(ring) < RingMax
  <2>1. Decoded(ring') = Append(Decoded(ring), Decode(r))
    BY <1>1, <1>3, Waiting, DecodedAppend
  <2> DEFINE s == consumer \o ch \o reader
             d == Decoded(ring)
             x == Decode(r)
  <2>2. Pending = s \o d /\ Pending' = s \o Append(d, x)
    BY <1>1, <2>1, Waiting, WaitingNext
  <2>3. s \in Seq(Told) /\ d \in Seq(Told) /\ x \in Told
    BY <1>1, Waiting, Joined
  <2> HIDE DEF s, d, x
  <2>4. s \o Append(d, x) = Append(s \o d, x)
    BY <2>3, AppendBehind
  <2>5. \E y \in Told : Pending' = Append(Pending, y)
    BY <2>2, <2>3, <2>4
  <2> QED
    BY <1>1, <1>2, <2>5, Waiting, AbstractHappen
<1>4. CASE ~ (Len(ring) < RingMax)
  <2>1. Pending' = Pending
    BY <1>1, <1>4, Waiting, WaitingNext
  <2>2. /\ Len(Pending) = Len(consumer) + Len(ch) + Len(reader) + Len(Decoded(ring))
        /\ Len(consumer) \in Nat /\ Len(ch) \in Nat /\ Len(reader) \in Nat
        /\ Len(ring) \in Nat
    BY Waiting, Joined
  <2>3. Len(Pending) >= ChanMax
    BY <1>4, <2>2, Waiting, SizesAssumption
  <2> QED
    BY <1>1, <1>2, <2>1, <2>3, Waiting, AbstractHappen
<1> QED
  BY <1>3, <1>4

(* A record on its way from the ring to the channel, an event on its way   *)
(* to the consumer: nothing happens to the line.                           *)
LEMMA ReadRefines ==
  ASSUME QueueInv, ReadRecord
  PROVE  Pending' = Pending
<1>1. /\ reader = <<>> /\ ring # <<>> /\ reader' = <<Decode(Head(ring))>>
      /\ ring' = Tail(ring) /\ UNCHANGED <<ch, consumer>>
  BY DEF ReadRecord
<1> DEFINE a == consumer \o ch
           x == Decode(Head(ring))
           t == Decoded(Tail(ring))
<1>2. Decoded(ring) = <<x>> \o t /\ x \in Told /\ t \in Seq(Told) /\ a \in Seq(Told)
  BY <1>1, Waiting, DecodedHead, Joined
<1>3. Pending = a \o <<>> \o Decoded(ring) /\ Pending' = a \o <<x>> \o t
  BY <1>1, Waiting, WaitingNext
<1> HIDE DEF a, x, t
<1>4. <<x>> \in Seq(Told) /\ a \o <<>> = a
  BY <1>2, ConcatEmptySeq
<1>5. a \o (<<x>> \o t) = a \o <<x>> \o t
  BY <1>2, <1>4, ConcatAssociative
<1> QED
  BY <1>2, <1>3, <1>4, <1>5

LEMMA SendRefines ==
  ASSUME QueueInv, SendEvent
  PROVE  \/ Pending' = Pending
         \/ \E s \in Seq(Told), x \in Told, t \in Seq(Told) :
              /\ Pending = s \o (<<x>> \o t) /\ Pending' = s \o t
              /\ Len(s) >= ChanMax
<1> DEFINE d == Decoded(ring)
<1>1. /\ reader # <<>> /\ reader' = <<>> /\ UNCHANGED <<ring, consumer>>
      /\ ch' = IF Len(ch) < ChanMax THEN ch \o reader ELSE ch
  BY DEF SendEvent
<1>2. /\ Pending = consumer \o ch \o reader \o d
      /\ Pending' = consumer \o ch' \o <<>> \o d
      /\ consumer \in Seq(Told) /\ ch \in Seq(Told) /\ reader \in Seq(Told)
      /\ d \in Seq(Told) /\ consumer \o ch \in Seq(Told)
  BY <1>1, Waiting, WaitingNext, Joined
<1> HIDE DEF d
<1>3. CASE Len(ch) < ChanMax
  <2>1. ch' = ch \o reader /\ ch' \in Seq(Told)
    BY <1>1, <1>2, <1>3, ConcatProperties
  <2>2. consumer \o ch' \in Seq(Told) /\ consumer \o ch' = consumer \o ch \o reader
    <3>1. consumer \o ch' \in Seq(Told)
      BY <1>2, <2>1, ConcatProperties
    <3>2. (consumer \o ch) \o reader = consumer \o (ch \o reader)
      BY Waiting
    <3> QED
      BY <2>1, <3>1, <3>2
  <2>3. consumer \o ch' \o <<>> = consumer \o ch'
    BY <2>2, ConcatEmptySeq
  <2> QED
    BY <1>2, <2>2, <2>3
<1>4. CASE ~ (Len(ch) < ChanMax)
  <2> DEFINE s == consumer \o ch
             x == Head(reader)
  <2>1. reader = <<x>> /\ x \in Told
    <3>1. Len(reader) <= 1
      BY DEF QueueInv
    <3> QED
      BY <1>1, <1>2, <3>1, Single
  <2>2. Len(s) = Len(consumer) + Len(ch) /\ Len(consumer) \in Nat /\ Len(ch) \in Nat
    BY <1>2, ConcatProperties
  <2>3. Len(s) >= ChanMax
    BY <1>4, <2>2, SizesAssumption
  <2>4. s \in Seq(Told) /\ Pending = s \o <<x>> \o d /\ Pending' = s \o <<>> \o d
    BY <1>1, <1>2, <1>4, <2>1
  <2> HIDE DEF s, x
  <2>5. <<x>> \in Seq(Told) /\ s \o <<>> = s
    BY <2>1, <2>4, ConcatEmptySeq
  <2>6. s \o <<x>> \o d = s \o (<<x>> \o d)
    BY <1>2, <2>4, <2>5, ConcatAssociative
  <2> QED
    BY <1>2, <2>1, <2>3, <2>4, <2>5, <2>6
<1> QED
  BY <1>3, <1>4

LEMMA ReceiveRefines ==
  ASSUME QueueInv, ReceiveEvent
  PROVE  Pending' = Pending
<1> DEFINE d == Decoded(ring)
           h == Head(ch)
           t == Tail(ch)
<1>1. /\ consumer = <<>> /\ ch # <<>> /\ consumer' = <<h>> /\ ch' = t
      /\ UNCHANGED <<ring, reader>>
  BY DEF ReceiveEvent
<1>2. /\ Pending = consumer \o ch \o reader \o d
      /\ Pending' = <<h>> \o t \o reader \o d
      /\ ch \in Seq(Told)
  BY <1>1, Waiting, WaitingNext
<1>3. ch = <<h>> \o t
  BY <1>1, <1>2, HeadBeforeTail
<1>4. consumer \o ch = ch
  BY <1>1, <1>2, ConcatEmptySeq
<1> QED
  BY <1>2, <1>3, <1>4

(* The consumer's event is the first of the line.                          *)
LEMMA HandleTakes ==
  ASSUME QueueInv, HandleEvent
  PROVE  /\ Head(consumer) \in Told
         /\ Pending # <<>> /\ Head(Pending) = Head(consumer) /\ Pending' = Tail(Pending)
         /\ Pending' \in Seq(Told) /\ Pending = <<Head(consumer)>> \o Pending'
<1> DEFINE x == Head(consumer)
           d == Decoded(ring)
           t == ch \o (reader \o d)
<1>1. consumer # <<>> /\ consumer' = <<>> /\ UNCHANGED <<ring, reader, ch>>
  BY DEF HandleEvent
<1>2. /\ consumer \in Seq(Told) /\ ch \in Seq(Told) /\ reader \in Seq(Told)
      /\ d \in Seq(Told) /\ Pending = consumer \o ch \o reader \o d
      /\ Pending' = <<>> \o ch \o reader \o d
  BY <1>1, Waiting, WaitingNext
<1>3. consumer = <<x>> /\ x \in Told
  <2>1. Len(consumer) <= 1
    BY DEF QueueInv
  <2> QED
    BY <1>1, <1>2, <2>1, Single
<1> HIDE DEF x, d
<1>4. t \in Seq(Told) /\ Pending = <<x>> \o t
  <2>1. t \in Seq(Told) /\ Pending = consumer \o t
    BY Waiting DEF d
  <2> QED
    BY <1>3, <2>1
<1>5. Pending' = t
  <2>1. <<>> \o ch = ch /\ ch \in Seq(Told) /\ reader \in Seq(Told) /\ d \in Seq(Told)
    BY <1>2, ConcatEmptySeq
  <2>2. ch \o reader \o d = t
    BY <2>1, ConcatAssociative
  <2> QED
    BY <1>2, <2>1, <2>2
<1> HIDE DEF t
<1>6. <<x>> \o t # <<>> /\ Head(<<x>> \o t) = x /\ Tail(<<x>> \o t) = t
  BY <1>3, <1>4, HeadOfConcat
<1> QED
  BY <1>3, <1>4, <1>5, <1>6 DEF x

(* The log as the abstract log has it.                                     *)
Stamped == [ev : Told, at : Nat]

LEMMA FunctionIsSeq ==
  ASSUME NEW S, NEW n \in Nat, NEW f \in [1 .. n -> S]
  PROVE  f \in Seq(S) /\ Len(f) = n
  OBVIOUS

LEMMA LoggedIs ==
  ASSUME LogInv
  PROVE  /\ Logged \in Seq(Stamped) /\ Len(Logged) = Len(lines)
         /\ DOMAIN Logged = 1 .. Len(lines) /\ Len(lines) \in Nat
         /\ \A i \in 1 .. Len(lines) :
              /\ Logged[i] = [ev |-> lines[i].ev, at |-> lines[i].at]
              /\ Logged[i].ev = lines[i].ev /\ Logged[i].at = lines[i].at
<1>1. /\ lines \in Seq(Written) /\ Len(lines) \in Nat /\ DOMAIN lines = 1 .. Len(lines)
      /\ \A i \in 1 .. Len(lines) : lines[i] \in Written
  BY DEF LogInv
<1>2. \A i \in 1 .. Len(lines) : [ev |-> lines[i].ev, at |-> lines[i].at] \in Stamped
  BY <1>1 DEF Written, Stamped
<1>3. Logged \in [1 .. Len(lines) -> Stamped]
  BY <1>1, <1>2 DEF Logged
<1>4. Logged \in Seq(Stamped) /\ Len(Logged) = Len(lines)
  BY <1>1, <1>3, FunctionIsSeq
<1>5. \A i \in 1 .. Len(lines) : Logged[i] = [ev |-> lines[i].ev, at |-> lines[i].at]
  BY <1>1 DEF Logged
<1> QED
  BY <1>1, <1>3, <1>4, <1>5

LEMMA LoggedAppend ==
  ASSUME LogInv, LogInv', NEW e \in Told, NEW a,
         lines' = Append(lines, [ev |-> e, at |-> now, action |-> a])
  PROVE  Logged' = Append(Logged, [ev |-> e, at |-> now])
<1> DEFINE l == [ev |-> e, at |-> now, action |-> a]
           s == [ev |-> e, at |-> now]
           p == Append(Logged, s)
           n == Len(lines)
<1>1. /\ n \in Nat /\ Len(lines') = n + 1 /\ lines'[n + 1] = l
      /\ \A i \in 1 .. n : lines'[i] = lines[i]
      /\ l.ev = e /\ l.at = now /\ DOMAIN lines' = 1 .. n + 1
  BY DEF LogInv
<1>2. /\ Len(Logged) = n /\ Logged \in Seq(Stamped)
      /\ \A i \in 1 .. n : Logged[i] = [ev |-> lines[i].ev, at |-> lines[i].at]
  BY LoggedIs
<1>3. s \in Stamped
  BY DEF Stamped, LogInv
<1>4. Logged' = [i \in 1 .. n + 1 |-> [ev |-> lines'[i].ev, at |-> lines'[i].at]]
  BY <1>1 DEF Logged
<1> HIDE DEF l, n
<1>5. /\ p \in Seq(Stamped) /\ Len(p) = n + 1 /\ p[n + 1] = s
      /\ \A i \in 1 .. n : p[i] = Logged[i]
  <2> HIDE DEF s
  <2> QED
    BY <1>2, <1>3, AppendProperties
<1>6. p \in [1 .. n + 1 -> Stamped]
  BY <1>5, LenProperties
<1> HIDE DEF p
<1>7. ASSUME NEW i \in 1 .. n + 1
      PROVE  [ev |-> lines'[i].ev, at |-> lines'[i].at] = p[i]
  <2>1. CASE i = n + 1
    BY <1>1, <1>5, <2>1
  <2>2. CASE i # n + 1
    <3>1. i \in 1 .. n
      BY <1>1, <2>2
    <3> QED
      BY <1>1, <1>2, <1>5, <3>1
  <2> QED
    BY <2>1, <2>2
<1>8. Logged' = p
  BY <1>4, <1>6, <1>7
<1> QED
  BY <1>8 DEF p

LEMMA RepeatsIs ==
  ASSUME LogInv, NEW e
  PROVE  Abstract!Repeats(e) <=>
           /\ e.kind = "net"
           /\ \E i \in 1 .. Len(lines) :
                /\ IsNet(lines[i]) /\ Key(lines[i].ev) = Key(e)
                /\ now - lines[i].at < TTL
<1>1. /\ DOMAIN Logged = 1 .. Len(lines)
      /\ \A i \in 1 .. Len(lines) :
           Logged[i].ev = lines[i].ev /\ Logged[i].at = lines[i].at
  BY LoggedIs
<1>2. Abstract!Repeats(e) <=>
        /\ Coalesced(e)
        /\ \E i \in DOMAIN Logged :
             /\ Coalesced(Logged[i].ev) /\ Key(Logged[i].ev) = Key(e)
             /\ now - Logged[i].at < TTL
  BY DEF Abstract!Repeats, Logged
<1> QED
  BY <1>1, <1>2 DEF Coalesced, IsNet

(* The consumer's step is the abstract log's: the event is recorded, left  *)
(* out as a repetition or, once the log is closed, lost.                   *)
LEMMA HandleRefines ==
  ASSUME QueueInv, LogInv, LogInv', ListenInv, CacheInv, Running, HandleEvent
  PROVE  Abstract!LogNext
<1> DEFINE e == Head(consumer)
<1>1. /\ e \in Told /\ Pending # <<>> /\ Head(Pending) = e /\ Pending' = Tail(Pending)
      /\ Pending' \in Seq(Told) /\ Pending = <<e>> \o Pending'
  BY HandleTakes
<1>2. /\ consumer # <<>> /\ UNCHANGED <<count, now, main, live, logOpen>>
      /\ \/ e.kind = "sudo" /\ WriteEvent(e)
         \/ e.kind = "net" /\ ShouldEmit(e) /\ WriteEvent(e)
         \/ e.kind = "net" /\ ~ ShouldEmit(e) /\ UNCHANGED lines
  BY DEF HandleEvent, mainVars, fwVars
<1> HIDE DEF e
<1>3. UNCHANGED Listening
  BY <1>2 DEF Listening
<1>4. CASE ~ logOpen
  <2>1. ~ Listening
    BY <1>2, <1>4 DEF ListenInv, Running, Listening, Up
  <2>2. UNCHANGED Logged
    BY <1>2, <1>4 DEF WriteEvent, Logged
  <2>3. Pending = <<>> \o (<<e>> \o Pending') /\ Pending' = <<>> \o Pending' /\ <<>> \in Seq(Told)
    <3>1. Pending \in Seq(Told)
      BY Waiting
    <3> QED
      BY <1>1, <3>1, ConcatEmptySeq
  <2>4. Abstract!Lose
    <3>1. PICK s \in Seq(Told), x \in Told, t \in Seq(Told) :
            Pending = s \o (<<x>> \o t) /\ Pending' = s \o t
      BY <1>1, <2>3
    <3> QED
      BY <1>2, <1>3, <2>1, <2>2, <3>1, AbstractLose
  <2> QED
    BY <2>4 DEF Abstract!LogNext
<1>5. CASE logOpen /\ WriteEvent(e) /\ (e.kind = "net" => ShouldEmit(e))
  <2>1. ~ Abstract!Repeats(e)
    <3>1. SUFFICES ASSUME e.kind = "net", NEW i \in 1 .. Len(lines), IsNet(lines[i]),
                          Key(lines[i].ev) = Key(e), now - lines[i].at < TTL
                   PROVE  FALSE
      BY RepeatsIs
    <3>2. PICK s \in seen : s.key = Key(e) /\ s.at >= lines[i].at
      BY <3>1 DEF CacheInv
    <3>3. Expired(s)
      BY <1>5, <3>1, <3>2 DEF ShouldEmit
    <3>4. now \in Nat /\ s.at \in Nat /\ lines[i].at \in Nat /\ TTL \in Nat
      BY SizesAssumption DEF LogInv, Written
    <3> QED
      BY <3>1, <3>2, <3>3, <3>4 DEF Expired
  <2>2. Logged' = Append(Logged, [ev |-> e, at |-> now])
    <3>1. lines' = Append(lines, [ev |-> e, at |-> now, action |-> Action(e)])
      BY <1>5 DEF WriteEvent
    <3>2. e \in Told
      BY <1>1
    <3> QED
      BY <3>1, <3>2, LoggedAppend
  <2>3. Abstract!Record
    BY <1>1, <1>2, <1>3, <2>1, <2>2 DEF Abstract!Record, Logged
  <2> QED
    BY <2>3 DEF Abstract!LogNext
<1>6. CASE logOpen /\ e.kind = "net" /\ ~ ShouldEmit(e) /\ UNCHANGED lines
  <2>1. PICK s \in seen : s.key = Key(e) /\ ~ Expired(s)
    BY <1>6 DEF ShouldEmit
  <2>2. PICK i \in 1 .. Len(lines) :
          IsNet(lines[i]) /\ Key(lines[i].ev) = s.key /\ lines[i].at = s.at
    BY <1>6 DEF CacheInv
  <2>3. now - lines[i].at < TTL
    BY <2>1, <2>2, SizesAssumption DEF Expired, LogInv
  <2>4. Abstract!Repeats(e)
    BY <1>6, <2>1, <2>2, <2>3, RepeatsIs
  <2>5. UNCHANGED Logged
    BY <1>6 DEF Logged
  <2>6. Abstract!LeaveOut
    BY <1>1, <1>2, <1>3, <2>4, <2>5 DEF Abstract!LeaveOut, Logged
  <2> QED
    BY <2>6 DEF Abstract!LogNext
<1> QED
  BY <1>2, <1>4, <1>5, <1>6

(* The agent listens until the main goroutine closes the reader.           *)
LEMMA ListeningIs ==
  ASSUME ListenInv
  PROVE  Listening <=> main \in {"fetch", "attach"} \cup Up
  BY DEF ListenInv, Listening

(* Steps the abstract log does not see, and its Stop.                      *)
LEMMA StutterOrStop ==
  ASSUME UNCHANGED <<count, lines, now>>, Pending' = Pending,
         Listening' = Listening \/ Listening' = FALSE
  PROVE  [Abstract!LogNext]_(Abstract!logVars)
<1>1. UNCHANGED Logged
  BY DEF Logged
<1>2. CASE Listening' = Listening
  BY <1>1, <1>2 DEF Abstract!logVars, Logged
<1>3. CASE Listening' = FALSE
  BY <1>1, <1>3 DEF Abstract!LogNext, Abstract!Stop, Logged
<1> QED
  BY <1>2, <1>3

(* What is left in the queues when they are closed is forgotten.           *)
LEMMA CloseHooksRefines ==
  ASSUME QueueInv, ListenInv, ListenInv', CloseHooks
  PROVE  Abstract!Forget
<1> DEFINE s == consumer \o ch \o reader
           d == Decoded(ring)
<1>1. /\ ring' = <<>> /\ UNCHANGED <<count, reader, ch, consumer, lines, now>>
      /\ main = "detaching" /\ main' = "detached"
  BY DEF CloseHooks, logVars
<1>2. ~ Listening /\ UNCHANGED Listening /\ UNCHANGED Logged
  <2>1. ~ Listening /\ ~ Listening'
    BY <1>1, ListeningIs DEF Listening, ListenInv, Up
  <2> QED
    BY <1>1, <2>1 DEF Logged, Listening
<1>3. s \in Seq(Told) /\ d \in Seq(Told) /\ Pending = s \o d
  BY Waiting, Joined
<1>4. Pending' = s \o <<>>
  <2>1. Decoded(<<>>) = <<>>
    BY DEF Decoded
  <2> QED
    BY <1>1, <2>1, WaitingNext
<1> HIDE DEF s, d
<1>5. Pending' = s
  BY <1>3, <1>4, ConcatEmptySeq
<1> QED
  BY <1>1, <1>2, <1>3, <1>5, AbstractForget

LEMMA ExitRefines ==
  ASSUME QueueInv, ListenInv, ListenInv', Exit
  PROVE  Abstract!Forget
<1>1. /\ reader' = <<>> /\ ch' = <<>> /\ consumer' = <<>> /\ UNCHANGED <<count, ring, lines, now>>
      /\ main = "closed" /\ main' = "exited"
  BY DEF Exit
<1>2. ~ Listening /\ UNCHANGED Listening /\ UNCHANGED Logged
  <2>1. ~ Listening /\ ~ Listening'
    BY <1>1 DEF Listening, ListenInv, Up
  <2> QED
    BY <1>1, <2>1 DEF Logged, Listening
<1>3. ring = <<>>
  BY <1>1 DEF ListenInv, Up
<1>4. Pending' = <<>>
  <2>1. Decoded(<<>>) = <<>> /\ <<>> \o <<>> \o <<>> \o <<>> = <<>>
    BY DEF Decoded
  <2> QED
    BY <1>1, <1>3, <2>1, WaitingNext
<1>5. Pending = <<>> \o Pending /\ Pending \in Seq(Told) /\ <<>> \in Seq(Told)
  BY Waiting, ConcatEmptySeq
<1> QED
  <2>1. PICK s \in Seq(Told), t \in Seq(Told) : Pending = s \o t /\ Pending' = s
    BY <1>4, <1>5
  <2> QED
    BY <1>1, <1>2, <2>1, AbstractForget

(* Every step of the pipeline is a step of the abstract log, or none.      *)
LEMMA PipelineRefines ==
  ASSUME PipeInv, PipeInv', ListenInv, ListenInv', CacheInv, [Next]_vars
  PROVE  [Abstract!LogNext]_(Abstract!logVars)
<1>0. HookInv /\ QueueInv /\ LogInv /\ LogInv' /\ count \in Nat
  BY DEF PipeInv, QueueInv
<1>1. CASE UNCHANGED <<count, ring, reader, ch, consumer, lines, now, main, live>>
  <2>1. Pending' = Pending /\ Listening' = Listening
    BY <1>1 DEF Pending, Listening
  <2> QED
    BY <1>1, <2>1, StutterOrStop
<1>2. ASSUME NEW p \in Procs, Connect(p) \/ Evict(p)
      PROVE  [Abstract!LogNext]_(Abstract!logVars)
  BY <1>1, <1>2 DEF Connect, Evict, fwVars, queueVars, logVars, mainVars
<1>3. ASSUME NEW p \in Procs, SudoEvent(p) \/ \E d \in Dests : NetEvent(p, d)
      PROVE  [Abstract!LogNext]_(Abstract!logVars)
  <2>1. Abstract!Happen
    BY <1>0, <1>3, EventEmitted, EmitRefines
  <2> QED
    BY <2>1 DEF Abstract!LogNext
<1>4. CASE ReadRecord
  <2>1. UNCHANGED <<count, lines, now, main, live>>
    BY <1>4 DEF ReadRecord, fwVars, logVars, mainVars
  <2>2. Pending' = Pending /\ Listening' = Listening
    BY <1>0, <1>4, <2>1, ReadRefines DEF Listening
  <2> QED
    BY <2>1, <2>2, StutterOrStop
<1>5. CASE SendEvent
  <2>1. UNCHANGED <<count, lines, now, main, live>>
    BY <1>5 DEF SendEvent, fwVars, logVars, mainVars
  <2>2. UNCHANGED <<Logged, Listening>>
    BY <2>1 DEF Listening, Logged
  <2>3. CASE Pending' = Pending
    BY <2>1, <2>2, <2>3, StutterOrStop
  <2>4. ASSUME NEW s \in Seq(Told), NEW x \in Told, NEW t \in Seq(Told),
               Pending = s \o (<<x>> \o t), Pending' = s \o t, Len(s) >= ChanMax
        PROVE  Abstract!Lose
    BY <2>1, <2>2, <2>4, AbstractLose
  <2> QED
    BY <1>0, <1>5, <2>3, <2>4, SendRefines DEF Abstract!LogNext
<1>6. CASE ReceiveEvent
  <2>1. UNCHANGED <<count, lines, now, main, live>>
    BY <1>6 DEF ReceiveEvent, fwVars, logVars, mainVars
  <2>2. Pending' = Pending /\ Listening' = Listening
    BY <1>0, <1>6, <2>1, ReceiveRefines DEF Listening
  <2> QED
    BY <2>1, <2>2, StutterOrStop
<1>7. CASE Running /\ HandleEvent
  BY <1>0, <1>7, HandleRefines
<1>8. CASE CloseHooks
  BY <1>0, <1>8, CloseHooksRefines DEF Abstract!LogNext
<1>9. CASE Exit
  BY <1>0, <1>9, ExitRefines DEF Abstract!LogNext
<1>10. CASE \/ ReadPolicyFile \/ FetchReturned \/ Attached \/ CidrsAllowed \/ StartReturned
            \/ Upload \/ NoUpload \/ UploadReturned \/ CloseReader \/ CloseLog
  <2>1. /\ UNCHANGED <<count, ring, reader, ch, consumer, lines, now>>
        /\ main' \in {"fetch", "attach"} \cup Up => main \in {"fetch", "attach"} \cup Up
    BY <1>10 DEF ReadPolicyFile, FetchReturned, Attached, CidrsAllowed,
     StartReturned, Upload, NoUpload,
       UploadReturned, CloseReader, CloseLog, Pipe, queueVars, logVars, Up
  <2>2. Pending' = Pending
    BY <2>1 DEF Pending
  <2>3. Listening' <=> main' \in {"fetch", "attach"} \cup Up
    BY DEF ListenInv, Listening
  <2>4. Listening' = Listening \/ Listening' = FALSE
    <3>1. Listening' => Listening
      BY <2>1, <2>3, ListeningIs
    <3>2. Listening \in BOOLEAN /\ Listening' \in BOOLEAN
      BY DEF Listening
    <3> QED
      BY <3>1, <3>2
  <2> QED
    BY <2>1, <2>2, <2>4, StutterOrStop
<1>11. CASE Tick
  <2>1. /\ now' > now /\ UNCHANGED <<count, ring, reader, ch, consumer, lines, main, live>>
    BY <1>0, <1>11 DEF Tick, queueVars, mainVars, fwVars, LogInv
  <2>2. UNCHANGED <<Pending, Logged, Listening>>
    BY <2>1 DEF Pending, Logged, Listening
  <2>3. Abstract!Pass
    BY <2>1, <2>2 DEF Abstract!Pass, Logged
  <2> QED
    BY <2>3 DEF Abstract!LogNext
<1>12. CASE FetchPolicy \/ Client \/ Deliver \/ Signal \/ UNCHANGED vars
  BY <1>1, <1>12 DEF FetchPolicy, Client, Deliver, Signal, vars, Pipe,
     queueVars, logVars, mainVars, fwVars
<1>13. CASE Opens
  BY <1>1, <1>13, OpensEffect DEF Pipe, queueVars, logVars, mainVars
<1> QED
  BY <1>2, <1>3, <1>4, <1>5, <1>6, <1>7, <1>8, <1>9, <1>10, <1>11, <1>12, <1>13
     DEF Next, MainStep, Opens, ReaderStep, ConsumerStep

(* The pipeline implements the abstract log: events reach it in the order  *)
(* they happened, a repetition is left out only for a line less than TTL   *)
(* old and two such lines are never closer than that, and while the agent  *)
(* listens an event is lost only behind ChanMax others, for every size of  *)
(* ring, channel and cache, every TTL and any number of processes.         *)
THEOREM PipelineKeepsPromises == Spec => ImplementsLossyLog
<1>1. Init => Abstract!LogInit
  <2> SUFFICES ASSUME Init PROVE Abstract!LogInit
    OBVIOUS
  <2>1. /\ count = 0 /\ now = 0 /\ ring = <<>> /\ reader = <<>> /\ ch = <<>>
        /\ consumer = <<>> /\ lines = <<>> /\ main = "fetch"
    BY DEF Init
  <2>2. Pending = <<>>
    <3>1. Decoded(<<>>) = <<>> /\ <<>> \o <<>> \o <<>> \o <<>> = <<>>
      BY DEF Decoded
    <3> QED
      BY <2>1, <3>1 DEF Pending, Decoded
  <2>3. Logged = <<>> /\ Listening = TRUE
    BY <2>1 DEF Logged, Listening
  <2> QED
    BY <2>1, <2>2, <2>3 DEF Abstract!LogInit, Logged
<1>2. PipeInv /\ PipeInv' /\ ListenInv /\ ListenInv' /\ CacheInv /\ [Next]_vars
        => [Abstract!LogNext]_(Abstract!logVars)
  BY PipelineRefines
<1> QED
  BY <1>1, <1>2, WholePipeline, PTL DEF Spec, ImplementsLossyLog, Abstract!LogSpec
=============================================================================
