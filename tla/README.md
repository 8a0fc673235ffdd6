# A TLA+ development of censor-ebpf-agent

`censor` is an agent for CI runners. It loads a BPF firewall into the kernel, puts
itself in the path of the runner's DNS queries, opens the firewall for the addresses
of names the policy allows, writes an event log, and takes everything back when the
job ends. This directory specifies the parts of it that are hard to test: the
attach and detach sequence with all its error returns, the byte layout of map keys,
host pattern matching, the concurrency of query handlers, the main goroutine and
the package mutex, the way of an event from the kernel to the uploaded log, retries
against an unreliable API, and several runs of the agent on one host, killed at any
step. TLC checks small instances; TLAPS proves the central results for
every value of the constants. Source paths below are relative to `src/`.

## The system

| Component | Source | State | Operations |
|---|---|---|---|
| Firewall control | `internal/ebpf` | mutex, `loaded`, objects, links, egress hook, ring buffer reader | `AttachFirewall`, `DetachFirewall`, `AllowIP`, `AllowPrefix`, `ParseAndAllowCIDRs`, `readEvents` |
| Kernel programs | `bpf/kern/censor.c` | maps `config`, `allow_v4`, `allow_v6`, `sock_pid`, ring buffer `events` | `censor_egress`, `connect4/6`, exec tracepoint |
| Host policy | `internal/policy`, `internal/githubhosts` | none | `MatchHost`, `EvaluateHost`, `MergeAllowed` |
| DNS proxy | `internal/dns` | two servers, one goroutine per query | `Start`, `Shutdown`, `handle` |
| Runtime | `internal/agent/runtime.go`, `cmd/censor` | sentinel files, the handles of all the others | `runStart` (`Start`, `ShutdownStatus`, `Upload`, `Close`), `runStop` (`WriteStatus`), `runWaitReady` (`WaitReady`) |
| Prepopulation | `internal/prepopulate` | none | sockets of `/proc/net`, allowed hosts |
| DNS redirection | `internal/dnsredir` | DNAT rules, `daemon.json` and its backup | `Enable`, `Remove`, `Disable` |
| Sudo lockdown | `internal/sudo` | sudoers drop-in | `Enable`, `Disable` |
| Event log | `internal/events` | a locked file | `Open`, `WriteEvent`, `ReadFile`, `Close` |
| Event pipeline | `internal/agent/events.go`, `internal/dedupe` | channel of 1024, dedupe cache | `consumeBPFEvents`, `ShouldEmit` |
| API client | `internal/api` | none | `FetchPolicy`, `UploadLogs`, `withRetries` |
| Job context | `internal/gha` | none | `JobID`, canonical JSON |

**Interactions.** `runStart` calls `Start`, which fetches the policy (API), opens
the log, locks sudo, starts the proxy, installs the DNAT rules and rewrites
`daemon.json`, attaches the firewall, seeds the allow maps (CIDRs, open sockets,
listed hosts), and writes the pid and ready files. From then on query handlers call
`OnEvent` (log) and `OnAllow` (`AllowIP`, under the package mutex) as callbacks. A
signal cancels a context; `runStart` then calls `Upload` and `Close`, which undoes
`Start` in its own order. Packets and execs reach the log by another way: the kernel
programs emit records into a ring buffer, `readEvents` moves them to a channel, and
`consumeBPFEvents` drops repetitions and writes lines. Other processes meet the agent
only through the host: `wait-ready` polls the sentinel files, `stop` writes the status
file and signals the pid in the pid file, and a second `start` finds the log locked.

**What is hard.** Hooks are live between the system calls of the attach. Handlers run
at every point of `Start` and `Close`, share one mutex with both, and `Close` waits
for them. Start has thirteen error returns with different cleanups. Several errors are
dropped on purpose (`AllowIP`, `ListenAndServe`, `DetachFirewall`, `os.Remove`). The
two sides of a map key are written in different languages and byte orders. Ring,
channel and cache drop events by design, and must drop only those. A request whose
answer is lost is sent again. A killed agent leaves its changes to the next one.
`PROJECT.json` lists each hazard with its line and the properties that cover it.

**What makes each component correct.** The firewall is all or nothing, is passive in
monitor mode and strict otherwise, and its maps mean what was put in. The matcher finds
a match exactly when there is one, and denial wins. The proxy never delivers a denied
name, logs before it forwards and opens before it answers. The runtime's sentinel
files and exit code tell the truth, and nothing stays on the host but what could not be
taken back and what two failed enables leave half done; every query and every shutdown ends. The log has the events in their
order with the kernel's verdict, and misses only what the queues had no room for and
what repeats a recent line; exit code 0 means that the API has it. Runs on one host do
not disturb each other's protection, and what a run gives back with the lock is what
it found, up to exceptions that are stated one by one.

## Modules

| Module | Models | Notes |
|---|---|---|
| `LpmTrie` | key structs of `censor.c`, the layout code of `AllowIP`, `AllowPrefix` and `parseHexIP`, the kernel's LPM trie (external) | Addresses are bits at positions word/byte/bit. `HostLayout` is `binary.BigEndian.Uint32` followed by a write in host order. Sizes and byte order are constants. |
| `Firewall` | `internal/ebpf`, `censor_egress` | One action per system call of the attach; `fwPc` is where the call holding the mutex is; `CleanupOrder` is `cleanupPartial`, and an error return closes a tail of it. `AllowIP`/`AllowPrefix` are one step. The verdict is an operator of the state, so an invariant over it speaks of a packet at that instant. |
| `HostPolicy` | `internal/policy/host.go`, `internal/githubhosts` | Names are sequences of labels (`strings.Split`); `matchLabels` is a recursive function over positions. |
| `DnsProxy` | `internal/dns/proxy.go` on top of both | One action per blocking call of a handler. |
| `Agent` | `runStart`, `Start`, `Upload`, `Close`, `prepopulate`, `dnsredir`, `sudo` | The main goroutine, composed with `DnsProxy` and so with `Firewall`. |
| `ApiRetry` | `internal/api` | One call of the client. Requests arrive at the API late, or are cut off before their answer is heard. |
| `EventPipeline` | `censor.c` from `emit` on, `readEvents`, `internal/agent/events.go`, `internal/dedupe`, and what `runStart` does around them | On top of `Firewall` (for the verdict and the grants) and `ApiRetry` (for the fetch and the upload). |
| `LossyLog` | the promise of the event log | Abstract: one queue, a log, a clock. `EventPipeline` implements it. |
| `Lifecycle` | several `runStart`, `runStop`, `runWaitReady`; `Logger.Open`, `Redirect`, `DockerDNS`, `Lockdown`, the tc filter as state of the host | One step per change of what processes share; kills. |
| `FirewallMC`, `HostPolicyMC`, `AgentMC`, `PipelineMC`, `LifecycleMC` | instances for TLC | `HostPolicyMC` also has the reference definition of a pattern's meaning (`Denotes`). |
| `FirewallProofs`, `LookupProofs` | proofs about `Firewall` and `LpmTrie` | |
| `HostPolicyProofs` | proofs about `HostPolicy` | |
| `AgentProofs`, `RuntimeProofs`, `GrantProofs` | proofs about `Agent` with `DnsProxy` | each extends the one before |
| `PipelineProofs` | proofs about `EventPipeline` and `ApiRetry`, the refinement of `LossyLog` | extends `LookupProofs` |
| `LifecycleProofs` | proofs about `Lifecycle` | |

Definitions keep the source's names where there is one (`AttachFirewall`,
`matchLabels`, `censor_egress`, `handle`). Definitions marked "A slip" are plausible
mistakes, used to see that each property can fail; nothing else refers to them.

### Correspondence worth knowing

* `live` holds what is open: `objs`, the connect links, the egress hook (`tcx` link or
  clsact `filter`), the exec link and the ring buffer `reader`. Closing a file
  descriptor always works; deleting the filter is a netlink request that may fail
  (`stuck`), and the code drops that error.
* `main` is the line of `Start`/`Close` the main goroutine is at, `cause` the step
  whose error made it close. `To`, `ReturnError` and `CloseAndReturnError` are the
  three ways such a line ends.
* `srv` records that each server is spawned, binds later, may fail, and that
  `Shutdown` is refused unless the UDP server has started (behaviour of miekg/dns,
  external). The TCP server is never shut down, as in the code.
* `Forward` decides whether the packet gets out: not when the DNAT rule matches the
  agent's own traffic, not when the egress hook drops it.
* `delivered`, `missed`, `leaked`, `stuck` and `uploaded` are history: no action reads
  them in a guard.
* In `EventPipeline` an event is `ring`, `reader` (read from the ring, not yet in the
  channel), `ch`, `consumer` (received, not yet handled) or a line. `main` has only the
  steps of `runStart` that matter here; `Attached`, `CloseReader` and `CloseHooks` are
  the outcomes of the attach and detach that `Firewall` has step by step. Between the
  attach and the prepopulation `ParseAndAllowCIDRs` calls `AllowPrefix` once per CIDR
  (`AllowCidr`, until `CidrsAllowed`). `id`, `shot`,
  `mark` and `uploaded` are history.
* `heard` and `arrived` of `ApiRetry` separate what the API has taken in from what the
  client knows. `CtxDone` is the context: the signal for the fetch, a deadline that can
  be reached at any moment for the upload.
* The refinement mapping of `ImplementsLossyLog` puts the four queues into one line
  (`Pending`, with the ring's records decoded as the reader will) and says `listening`
  until the ring's reader is closed. `Room` is the channel's capacity.
* In `Lifecycle` files are sets that hold their writer. `mem` is what a run knows of its
  own changes, so a kill forgets it while `host` and `file` stay. TCX links die with
  their process and need no state; a tc filter is named by a handle, so the next run's
  `FilterReplace` and `FilterDel` work on a killed run's filter. `mem.found` (what the
  run found on the host when it took the lock) and `mem.spoiled` (a change that went
  wrong half way or could not be taken back) are history.

### Abstractions

Policies are records with the fields the agent reads, including what comes from the
command line (`gha`, `local`). CIDRs are already parsed; an invalid one is skipped by
the code and does not occur. Log lines keep host, action and rule. `daemon.json` is
whose it is (`orig`, `ours`, `damaged`), not its text. Writes to the log and of the
failure file, and removal of sentinel files, succeed. The clsact qdisc that the
fallback leaves behind has no effect on packets and is left out; one interface has the
egress hook, as in the code. The agent attaches once per process. `local` stands for a
policy file without an API URL; a policy file together with a URL (read locally, then
uploaded) is not among the instances.

`EventPipeline` starts with the policy and leaves out failed attaches, which have no
pipeline; ports and protocols are part of the destination, and the process name in a
line is left out. Its `lines` are those of the consumer: what the main goroutine and the
handlers write into the same file themselves (`cidrs:`, `prepopulate:`, decisions about
names) is in `Agent`'s and `DnsProxy`'s `logged`, or, where it only counts something,
left out. The sweep of the cache is triggered above `SeenMax` keys instead of
10000, and time passes only while the agent is up. A request that arrives after its call
has returned is not followed. In `Lifecycle` the three removals at the beginning of
`Start` and at the end of `Close` are one step each, the DNAT rule of one protocol
stands for both, a pid is not given to another process, and the signal is the one of
`stop` (in `Agent` it comes at any moment). The upload's failure changes nothing there.

## Runs

| Run | Instance | What it shows |
|---|---|---|
| `firewall` | all modes, sudo watch on and off, 3 destinations, 2 CIDRs, maps of 2 entries, little-endian | the package attached and detached any number of times, with every call failing: `AllOrNothing`, `HooksHaveObjects`, `MonitorNeverDrops`, `EnforceDropsUnlisted`, `GrantsPersist`, `LookupMatchesImages`, `AttachSettles` |
| `firewall_le` (violation) | same | `LookupMatchesGrants`: the key `AllowIP` writes is the byte swap of the key `lookup_allow_v4` looks up |
| `host` | patterns and names up to 4 labels, policies of up to 2 one-label patterns | `MatchIsExact`, `SpellingIsIrrelevant`, `DenialIsFinal`, `MergeKeepsBoth` |
| `host_starstar` (violation) | same | an inner `**` also matches no label; the comment says one or more |
| `agent_deny` | whole agent, 1 handler, monitor and enforce, a denied name and an empty question, maps of 1 entry | `DeniedNeverDelivered`, `DeliveredIsLogged`, `GrantsHaveReasons`, `FirewallBehaviour`; liveness: `QueriesEnd`, `StopCompletes` |
| `agent_jit` | whole agent, 2 handlers (symmetric), enforce | `AnswersAreOpened` |
| `agent_life` | whole agent without queries, 3 policies, stale files | `ReadyIsHonest`, `NothingLeftBehind`, `ExitZeroIsClean`, `SentinelsAreExclusive`, `StartReturns` |
| `agent_ready` (violation) | enforce, no queries | the ready file can precede the bind of the UDP server, or follow its failure; the comment says "Ready only after DNS is up" |
| `agent_forward` (violation) | enforce without the upstream on the list; DNAT rules on | a forwarded query does not reach the upstream |
| `pipeline` | 1 process, all modes, ring, channel and cache of 1, TTL of 1, 3 attempts, 1 CIDR when enforcing, 3 events without an API or 1 with it | `ImplementsLossyLog` (refinement), `VerdictsAreLogged`, `LogAgreesWithGrants`, `UploadCoversRun`, `RetriesAreJustified`; liveness: `EventsSettle`, `SignalEndsRun` |
| `lifecycle` | 2 runs, both or one of them changing the host, 1 kill or failed command, kernel with and without TCX | `ProtectionHolds`, `HostAsFound`, `StatusIsCurrent`, `WaitIsFresh`; liveness: `SignalledRunEnds` |
| `log_exclusive` (violation) | same, no faults | a second `start` truncates the log before its flock is refused; `logger.go` says the lines are exclusive |

**Bounds.** Bytes have one bit and words two bytes (IPv6: two words): the least sizes
at which a byte swap, a prefix that ends inside a word and an IPv4-mapped address all
exist; the proofs cover every size. Maps of one or two entries fill up during a run.
Two handlers are enough for a race between two grants and main's; the handlers'
invariants are proved for any number. Every platform the agent is built for (amd64,
arm64) is little-endian, and so are the instances; the one theorem about keys covers
both byte orders. Four labels allow two `**` with something
between and around them. `StaleFiles` has the two sentinels `wait-ready` looks at.
The three policies of `agent_life` cover each error return: sudo lockdown, DNAT and
Docker, mandatory and optional BPF, with and without an API.

Queues of one record overflow with the second event; three events are one in the
consumer, one waiting and one that is dropped or repeats the first, on either side of
the TTL, and with two kinds and two attributions of an event a cache of one is swept.
The API's codes are one that ends a call well (204), one that refuses (422) and one that
is tried again (503); the other codes are of these three classes. With an API one event
is enough to be before or after the upload's snapshot. Two runs are a run and its
predecessor, or two that overlap; what is left by a killed run does not depend on how
many there were before it. With one fault a run meets the rules, the drop-in and the
filter of a killed one and gives them back or takes them over; that a rule of a killed
run is deleted because the run's own was refused takes two faults, and is left to the
theorem. `stop` and `wait-ready` run again and again.

**Fairness.** Weak fairness of the main goroutine, of the call that holds the mutex,
and of each accepted query's handler: each is a goroutine the Go scheduler runs, whose
blocking calls return (system calls, `Exchange` with its timeout, a mutex whose
holder makes progress). A handler waiting for an answer may always time out, so
`ExchangeError` never waits for the upstream. No fairness for signals, new queries,
or a server that binds: `Close` must not depend on them. In `EventPipeline` the reader,
the consumer, the main goroutine and the client are goroutines of this kind, and an
attempt of the client always ends because `http.Client` has a timeout of 30 s
(`Broken`); the arrival of requests and answers is not fair. In `Lifecycle` each run is
a process the kernel schedules, while `start`, `stop`, kills and faults need not happen.

**Deadlock** is checked in the agent's and the pipeline's runs, where the exited agent
stutters by an explicit step, in the firewall's and in the lifecycle's. It is off where the space of patterns is
simply exhausted.

## Proofs

`FirewallProofs` proves `FwInvariance`, the inductive invariant of the package:

* `AttachInv`: at each call of `AttachFirewall`, exactly which resources are open, so
  that the error return at that call closes enough of `CleanupOrder`;
* `CleanupInv`: during a cleanup, only what is still to be closed is open (or stuck);
* `StuckInv`: there is one egress hook, and it is stuck only after a detach, when
  nothing is loaded beside it;
* `AuditInv`: `config` agrees with the policy's mode whenever the egress hook is live;
* the type invariant, `AllOrNothing` and `HooksHaveObjects` themselves.

`AllOrNothing` alone is not inductive, because it says nothing while the mutex is
held; the first two parts supply what it lacks. From the invariant follow
`FwTypeCorrect`, `AttachIsAllOrNothing`, `HooksKeepObjects`, `MonitorIsPassive`,
`EnforceIsStrict` and, as an action property, `GrantsArePermanent`.

`LookupProofs` proves `LookupIsExact` for hosts of either byte order and for bytes,
words and addresses of any size: the hook lets through exactly the images of what was
allowed. The image of an address (`OnWire`) and of a prefix (`CidrOnWire`) is what its
key looks like to the program that copies packet bytes: on a little-endian host the byte
swap of each word. Every entry was written by `HostKey` or `PrefixKey` of a known
address (`WrittenInv`), and each such entry covers exactly its image (`HostEntryCovers`,
`PrefixEntryCovers`), so no entry is wider or narrower than it should be, and no two
grants get in each other's way. Where the image is the address itself
(`BigEndianLookup`) this is `LookupMatchesGrants`; on the supported hosts that one is the
violation above.

`AgentProofs` proves that the agent, with any number of handlers, implements the
firewall's specification (`FirewallRefinement`): while main has not called the attach
the firewall is untouched (`MainInv`), and every address a goroutine passes to
`AllowIP` comes from the sockets, the policy or the zone (`HandlerInv`). Hence
`FirewallInAgent`: the package's theorems hold in the agent. With `DenyInv` (a handler
past the decision has an allowed name) and `LogInv` (past `OnEvent` there is a log
line, and the log is never reopened once the proxy runs) it proves
`NothingDeniedIsDelivered` and `DeliveriesAreLogged`.

`RuntimeProofs` adds what the agent process keeps true of itself and of the host
(`RuntimeInvariance`), for any number of handlers running beside the main goroutine:

* `CtlInv`: which steps can be the `cause` of the shutdown at each line, and that exit
  code 0 is kept for a signal and a `Close` without an error;
* `FilesInv`: the ready file is gone before the failure file is written;
* `HostInv`: per resource, from which line on it is taken, given back or on record as
  refused. An error return of `Start` skips the releases of what was not taken yet, so
  this is what makes `NothingIsLeftBehind` hold for all of them at once;
* `DockerInv`: a damaged `daemon.json` is either one that `Disable` could not write, on
  record as refused, or one that `Enable` cut short, and then the log says so. This is
  the exception `NothingIsLeftBehind` and `ExitCodeIsHonest` make for it;
* `PhaseInv`: what the firewall package is doing while main is at each line. Main and
  the package take turns at the mutex, so `loaded` at the end of the attach decides the
  payload of the ready file;
* `UploadInv`: there is something to upload, and `Close` is told when it was not.

From these follow `RuntimeTypeCorrect`, `ReadyFileIsHonest`, `NothingIsLeftBehind`,
`ExitCodeIsHonest` and `SentinelsExclude`.

`GrantProofs` proves `EveryGrantHasAReason` and `AnswersAreOpenedFirst`. The second
needs `OpenedInv`, about addresses that handlers are *done with* and not only those
that were sent, and it needs that a full map stays full while the hook is attached
(`FullStaysFull`, from the cardinality of the map), since `AllowIP` drops that error.
`AnswerInv` and `LoopInv` say what the handlers' and main's loops still have before them.

`PipelineProofs` proves, for every size of ring, channel and cache, every TTL, and any
number of attempts, processes and events:

* `RetriesHaveReasons`, from `ApiInv`: about the attempts to come the client has heard
  nothing, and about the one it backs off from nothing final;
* `PipelineInvariance`: every event in the ring, the channel, the consumer and the log
  is one the kernel told of (`Told`), with the verdict it gave then. `VerdictsAgree`
  and `LogNamesGrants` follow, the latter with `OpensEffect` (who opens which entry:
  `AllowIP` or `ParseAndAllowCIDRs`), `HostEntryCovers` and `PrefixEntryCovers`: the
  address that the log prints is the byte swap of the one the hook let through, and the
  entry behind it covers the image of its own address or CIDR only;
* `UploadIsComplete`, from `UploadInv`: the snapshot is taken after the signal and is
  what every request of the call carries;
* `PipelineKeepsPromises`: the refinement of `LossyLog`. What waits is the
  concatenation of four sequences (`Pending`), so a record on its way is a stutter,
  and each of the kernel's and the consumer's steps is a step of the abstract log
  (`EmitRefines`, `HandleRefines`). It rests on `CacheInv`: while the log is open each
  entry of the cache is of a line, and each line younger than the TTL has an entry as
  young, although the sweep removes entries.

`LifecycleProofs` proves `LifeInvariance` for any number of runs, kills and failing
commands. `LockInv` says who holds the flock; `RunInv` says, for each run, what it
remembers of its own changes against what is on the host (rules, `daemon.json`,
filter, drop-in). Since only the holder changes the host, the other runs' steps keep
`RunInv` by the lock alone, and a run that has not got the lock remembers nothing
(`IdleInv`), which is why a refused start undoes nothing. `LockIsExclusive`,
`ProtectionIsKept` and `HostIsReturned` follow. The latter is about a run whose
commands to take something back all succeeded, whose `EnableDocker` has not damaged
`daemon.json` and whose failed attach has not left a filter (`~ spoiled`). Such a run
leaves `daemon.json` as it found it. It leaves as many DNAT rules as it found; if its own
rule was refused it may leave fewer, since `Remove` deletes rules that look alike
(`NatInv` counts them). The drop-in it found is still there, or gone if it locked sudo
down itself. A filter it found is there, or gone: taken over and deleted, or lost in a
failed attach; and none is there that it did not find. `StatusBelongsToRun` needs that the
status file, as long as it is there, is younger than the start of every run that is
alive (`StatusInv`), and `WaitReadyIsFresh` that none of the files is of a run that was
over at the last start (`StaleInv`).

`HostPolicyProofs` proves what `matchLabels` computes for names and patterns of any
length (`MatchingIsExact`): that the recursive definition has a solution (a table of
rows, built from the last row up), and that its entries say which suffixes of the host
can be cut into runs for the rest of the pattern. `MergeIsComplete` goes the same way
over the merge loop, `SpellingDoesNotMatter` and `DeniedStaysDenied` need no induction.
Induction over the naturals is a lemma proved here (`Least`: a nonempty set of naturals
has a least element, because otherwise a finite set would have as many elements as it
has without 0), applied to the set of counterexamples of each claim.

Assumptions are those of the modules, all evaluated by TLC on its instances: sizes,
capacities and the number of attempts are positive, policies have a mode and a Boolean
`watchSudo`, CIDRs are parsed prefixes, queries are for known names, stale files are
among the sentinels, a lower-case form has no upper-case letter left and is not empty,
the default hosts are patterns, and `Dests` contains the addresses the agent grants (it
names a parameter set, so this loses nothing).

**Only model-checked:** liveness (`AttachSettles`, `QueriesEnd`, `StopCompletes`,
`StartReturns`, `EventsSettle`, `SignalEndsRun`, `SignalledRunEnds`), which needs
fairness and `ENABLED`. Every invariant, action property and refinement that a passing
run checks is also proved.

## Met while modelling, without a run

* `prepopulate.ResolveHosts` opens the addresses of a listed host even when the denied
  list matches it.
* An answer handled before the attach is not granted later (`missed`).
* `redirect.go:49` and `lockdown.go:88` say removal happens only after a successful
  enable; `Remove` deletes the rules whenever iptables was found and `Disable`
  always. `NothingLeftBehind` relies on what the code does.
* A failed sudo `Enable` leaves the drop-in when it fails after writing it.
  `NothingLeftBehind` excepts it.
* A write of `daemon.json` that fails in `Enable` (`docker.go:38`) leaves the file cut
  short: `enabled` is not set, so `Disable` returns at once although the backup was read,
  and the exit code can be 0. `redirect.go:82` says "restores backup on Disable".
  `NothingLeftBehind` and `ExitZeroIsClean` except it (`DockerDamaged`).
* An error of the first `MkdirAll` in `Start` returns without a failure file.
* A `daemon.json` holding `null` leaves the map in `docker.go:33` nil.
* The address in a log line is the byte swap of the packet's on every host
  (`readEvents` reads the words as little-endian, `formatDst` writes them as
  big-endian). On a little-endian host this undoes the swap of `AllowIP`:
  `LogAgreesWithGrants` is about the names in the log, not about the packets. An
  IPv4-mapped address is logged by its IPv4 form, while its entry is the one of the
  IPv6 map, so the property looks for the grant by the form the log prints. For a CIDR
  the property asks whether the destination lies in the CIDR's image: on a little-endian
  host an ALLOW line can name an address that is in no allowed CIDR.
* The dedupe key has the printed address, so a mapped IPv6 destination and the IPv4
  address share a key.
* Success is 200, 201, 202 or 204; any other code below 400 is tried again, and an
  attempt that ran into the client's own timeout is not.
* Lines written after the snapshot of `Upload`, by handlers and the consumer, are in no
  upload. An upload that is given up may still arrive.
* A second `start` removes the ready, failure and status files and truncates the log
  before it is refused; wait-ready then reports its failure although the first run is
  up. `Close` removes ready, pid and status files after it has released the lock, when
  they may be the next run's. `Start` never removes a stale pid file.
* After a kill the DNAT rules and `daemon.json` are never taken back: the next run adds
  its own rule and its backup is the changed file (`HostAsFound` says "as found"). The drop-in and the filter of a killed
  run go only with a run that makes its own.

## Not modelled

`internal/gha` reads the environment and builds strings (job identity, canonical JSON)
without state or concurrency. The generated bindings and the stubs for other platforms
have no logic of their own. Process names, ports and the text of lines, requests and
sudoers files are left out. The system resolver, miekg/dns, net/http, iptables and the
kernel appear only as the code uses them.

## Plan

Done: 1. `LpmTrie`, `Firewall` and their proofs. 2. `HostPolicy`. 3. `DnsProxy` and
`Agent`, the refinement of `Firewall`, and the first proofs about the composition.
4. `ApiRetry`, `EventPipeline` and the refinement of `LossyLog`. 5. `Lifecycle`. 6. Proofs of
every safety property the runs check: `LifecycleProofs`, `RuntimeProofs`,
`GrantProofs`, `PipelineProofs` with the refinement of `LossyLog`, `HostPolicyProofs`.

Next: that `Lifecycle`'s run is an abstraction of `Agent`'s main goroutine, step by
step, which would carry the theorems about one process over to several.
