# TLA+ models of the IVPN desktop daemon core

This directory holds TLA+ specifications of the parts of the daemon under
`src/`. It also holds the TLC configurations that model-check them and the
TLAPS proofs of the main safety properties of the WireGuard adapter and of
the pinned dialer.

## 1. The system

The sources under `src/` contain four parts that interact:

| Part | Source | What it does |
|------|--------|--------------|
| C1 state model | `src/vpn/types.go` | The `State` enumeration, `State.String()`, and `ParseState`, which reads OpenVPN management-interface state names. |
| C2 WireGuard adapter (Windows) | `src/vpn/wireguard/wireguard_windows.go` | It installs the tunnel as a Windows service (`/installtunnelservice`) and supervises it in a 50 ms polling loop. Pause and resume arrive through a 1-slot channel, and a DNS change restarts the tunnel. |
| C4 pinned transport | `src/unnamed/part_002` lines 76-133 | The TLS dialer that checks the peer chain's public-key hashes against the pinned set. |
| C5 API client | `src/unnamed/part_000`, `src/unnamed/part_002` lines 1-304 | It holds the alternate-IP list and the last-good IP under one mutex. api-host requests fail over from the last-good IP to DNS and then to the alternate IPs. |

The session engine (C3), the OpenVPN adapter and the collaborators (the `dns`
package, `shell`, the Windows service manager) are not in `src/`.

How the parts interact:
- The adapter is driven by one goroutine that runs `connect()`, and by control
  callers (`disconnect`, `pause`, `resume`, `setManualDNS`, `resetManualDNS`)
  on other goroutines. They share unsynchronized fields and the pause channel.
- Install and uninstall are serialized by the process-wide `_globalInitMutex`.
- The API client is called from any number of goroutines at once.
  `DownloadServersList` installs the server-advertised alternate IPs.
- Every API request goes through the pinned dialer.

### Inventory

The parts that carry state:

- **WireGuard adapter.**
  - State: `manualDNS`, `isRestartRequired`, `isDisconnectRequested`,
    `isPaused`, `pauseRequireChan` and its slot. Also the Windows service
    (absent, starting, running or stopped), the config file's DNS line, the DNS
    override, and the global mutex.
  - Operations: `init`, `connect`, `disconnect`, `pause`, `resume`,
    `setManualDNS`, `resetManualDNS`, plus the service stopping by itself.
  - Hard behaviours: interleavings of callers with the loop; install and
    uninstall failures; `defer` order in `installService` (unlock first, then
    the failure cleanup); a blocking send on a 1-slot channel; `break` inside
    `select`.
- **API client.**
  - State: `alternateIPs`, `lastGoodAlternateIP`, and each request's snapshot
    and body buffer.
  - Hard behaviours: concurrent requests and list updates; snapshot-then-use;
    retries that reuse one `bytes.Buffer`.
- **Pinned dialer.** A loop with early returns over the peer chain, plus
  `recover()` with unnamed results.
- **State model.** `String()` and `ParseState` with `strings.Trim`.

## 2. Modules

| Module | Models | State / actions |
|--------|--------|-----------------|
| `WireGuardWindows` | C2 | See below. |
| `WireGuardWindowsProofs` | proofs for C2 | `TypeCorrect`, `InstallSafe`, `PauseSafe`, `RestartSafe` and their lemmas. |
| `ApiClient` | C5 | See below. |
| `ApiFailover` | what C5 promises | The abstract alternate-IP cache of spec 4.5: `ServeLastGood`, `ServeDNS`, `ServeAlternate` and `InstallList`, each one atomic step on the list, the last good IP and where the last request was served from. |
| `PinnedDialerProofs` | proofs for C4 | `PinSafe` and its lemmas. |
| `ApiClientProofs` | proofs for C5 | `TypeCorrect`, `LastGoodSafe`, `TriedFirst`, `FailoverRefined` and their lemmas. |
| `VpnTypesProofs` | proofs for C1 | `ParseSafe`, `PaddedRoundTrip` and the lemmas on `Trim` and `ParseState`. |
| `PinnedDialer` | C4 | One dial over every chain of at most `MaxChain` certificates and every pin set. The actions are `dial` (tls.Dial), `checkCert` (one loop iteration) and `recoverPanic`. |
| `VpnTypes` | C1 | `String`, `Trim` and `ParseState` as operators. A string is a sequence of tokens: cut characters, one other character, and whole words (`_` and letters are never cut, so a word is one token). The actions `Report` and `ReadLine` feed states and padded management lines through `ParseState`. |
| `MC*` | TLC instances | Model values for callers, addresses, hashes and requesters. |

**`WireGuardWindows`.**
- The connect goroutine is a program counter `lpc` with one action per block
  of `connect()`/`installService()`. Examples: `installLock` takes the mutex and
  writes the config; `installExec` runs `/installtunnelservice`;
  `installWaitStart` waits for Running; `installFailUnlock`,
  `installFailResume` and `installFailUninstall` are the deferred cleanup in Go's
  LIFO order; `selectOp` is the non-blocking receive; `pauseWait` is the blocking
  receive; `restartCheck` and `restartUninstall` are the restart branch.
- `ctx` records which call of `installService` is running: connect, resume or
  restart.
- Each caller has a program counter `cpc`. `disconnect`/`pause`/`resume` read
  the channel (`held`) in one step and send in a later one (`sendOp`).
  `setManualDNS` stores the value and then checks the service state
  (`dnsRestartCheck`).
- `uninstallService` is one step under the mutex (the mutex is held only inside
  it). Its 3-minute wait and retries are abstracted to "succeeds" or "fails".
- `serviceStops` is the service manager stopping a running tunnel.
- The helpers `isServiceInstalled` (used by `init`), `serviceGone` (how the
  loop reads `getServiceStatus`: an error for a removed or inactive service, or
  Stopped) and `getOSSpecificConfigParams` (the config's DNS line, used by
  `installLock`) keep the code's names.

**`ApiClient`.**
- `StartCall` takes the snapshot under the mutex and marshals the body.
- `tryLastGood`, `tryDNS` and `tryAlternate` are the attempts of
  `doRequestAPIHost`, in the code's order.
- `SetAlternateIPs` is the list update that ends a successful
  `DownloadServersList`. Its loop is stated by what it builds:
  `ParsedList(list, ipList)` says that `ipList` holds the entries of `list`
  that `net.ParseIP` accepts, in their order. It says this through an
  increasing map from `ipList`'s positions onto the valid positions of `list`.
  It is not recursive, so the provers can reason about it. TLC confirmed that
  it equals `SelectSeq(list, LAMBDA a : a # Invalid)` for every list of up to
  3 entries, and api_sequential reaches the same 2,987 states with it.
- The network answers each attempt with "ok", "nodial" (dial or pin failure,
  body not read) or "sent" (the body was written, then timeout or reset).
- Refinement: `Failover == INSTANCE ApiFailover WITH list <- alternateIPs,
  served <- servedBy` (`lastGood` and the constants map to themselves).
  `FailoverSpec` is `Failover!Spec`. A successful attempt maps to a `Serve*`
  step, `SetAlternateIPs` to `InstallList`, and every other step (a start, a
  failed attempt) to a stutter.

## 3. Runs

Passing runs (TLC explores the full state space):

| Run | Config | Checks | Bounds |
|-----|--------|--------|--------|
| wg_core | `MCWireGuardWindows.cfg` | `PausedImpliesTunnelDown`, `InstallNotClobbered`, `RestartOnlyOnChange` | 2 callers, 2 DNS values, 3 calls, 1 crash, install and uninstall may fail. 738,934 states. |
| api_sequential | `ApiSequential.cfg` | `TypeOK`, `LastGoodInList`, `LastGoodTriedFirst`, `CallsComplete`, `FailoverSpec` | 1 caller, 2 IPs + 1 invalid entry, lists up to 2 entries, 4 calls. |
| dialer_pinning | `DialerPinning.cfg` | `PinDecision` | chains of 1-3 certificates over 2 hashes, all pin sets. |
| types_parse | `TypesParse.cfg` | `NoMisparse` | every state, and padding up to 2 characters on each side. |

Violation runs. Each checks one property that the spec or a comment states,
and TLC finds a counterexample. See `findings` in `PROJECT.json`.

| Run | Property | Counterexample |
|-----|----------|----------------|
| wg_dns_race | `DNSConsistent` | `setManualDNS` after the config is written but before the service runs: no restart, and the tunnel keeps the old DNS. |
| wg_disconnect_restart | `DisconnectTerminatesConnect` | A disconnect with a pending restart: the loop reinstalls the tunnel, and `connect()` never returns. |
| wg_stale_send | `CallsReturn` | Two disconnects: the second sends on the channel of a loop that has exited, and blocks. |
| wg_install_fail_block | `InstallErrorReturns` | A restart's install fails while a caller's message fills the slot. The deferred `disconnectInternal` blocks the loop on its own channel. |
| api_lastgood_race | `LastGoodInList` | r1 is trying a snapshot IP when r2 installs a list without it. r1 saves the retired IP. |
| api_body_reuse | `BodyIntact` | The DNS attempt writes the body and times out. The alternate-IP attempt sends an empty body. |
| dialer_leak | `RejectCloses` | `dial` opens the connection; the first certificate's key fails to marshal and the loop ends without a pin; the return after the loop (part_002:128-131) gives nil and the wrapped error with the TLS connection still open. `RejectCloses` speaks only of these pin-check returns (`retErr` `"pin"`/`"pinWrapped"`), not of the `(nil, nil)` of `recoverPanic`. |
| types_round_trip | `RoundTrip` | `Report(GETCONFIG)` with no padding: `ParseState("GETCONFIG")` is an error. `RoundTrip` is restricted to lines made of `String(st)` and cut characters, so the `"x"` padding (not a cut character) does not count against it; a TLC run of `RoundTrip` restricted to the other states finds no violation over every cut-character padding of `Pads`. |

**Why the bounds are enough.** Every counterexample above needs at most two
actors and three calls. The passing runs cover every action and every branch:
- install and uninstall failures in each context (connect, resume, restart);
- a crash while polling;
- both callers sending on a full slot;
- list updates that keep or drop the last good IP, and every network outcome
  per attempt.

Symmetry is not used: callers play different roles in the counterexamples.

**Fairness.** `Fairness` asserts:
- weak fairness of the connect goroutine, because it polls every 50 ms;
- weak fairness of each caller's in-flight call, because a goroutine that has
  entered a call keeps running it.

It does not assert fairness for new calls or for the service manager. Nothing
in the code forces either to happen.

`ApiClient`'s `Fairness` is weak fairness of each requester's `Step` (the
attempts and `SetAlternateIPs` of a call already started). A goroutine inside
`doRequestAPIHost` keeps running it, and `http.Client.Timeout` ends every
`client.Do`. `StartCall` is not fair. Under this fairness `CallsComplete`
(every started call returns) holds. A failed attempt that changes nothing is a
stutter, so fairness cannot force the network to succeed: the call ends because
the loop runs out of addresses.

`FailoverSpec` is checked only with one requester. With two, the snapshot race
of api_lastgood_race also breaks the refinement: a requester saves an IP that
`InstallList` has retired, which no abstract step allows.

**Deadlock.** Every cfg except `TypesParse.cfg` (whose Next is always enabled) says `CHECK_DEADLOCK FALSE`:
- The adapter really stops: `connect()` returns, the call budget is used up,
  and blocked sends are exactly what the liveness findings report.
- A dial ends when it returns.
- The API model stops when its call budget is spent.

## 4. Proofs

`WireGuardWindowsProofs` proves four theorems with TLAPS for every value of
the constants (any finite set of callers, DNS values, bounds, failure
switches). `ConstAssumption` asks `Callers` to be finite, which is the only
assumption the counting argument needs beyond the types:

- `TypeCorrect`: `Spec => []TypeOK`.
  - `TypeOK` is split into `TypeState`, `TypeFlags` and `TypeCounters`, and each
    part has its own step lemma (`StateStep`, `FlagsStep`, `CountersStep`) with
    one case per action.
  - The split is needed because the SMT backend fails on goals that mix Boolean
    membership with integer ranges.
- `InstallSafe`: `Spec => []InstallNotClobbered`.
- `PauseSafe`: `Spec => []PausedImpliesTunnelDown`.
- `RestartSafe`: `Spec => []RestartOnlyOnChange`.

`RestartSafe` rests on `RestartInv`:
`reconnects + RR + Cardinality(Pending) <= dnsChanges`. `Pending` is the set
  of callers in `dns_chk` (value changed, service not yet checked), and `RR` is
  1 while `isRestartRequired` is set. A changed value adds a caller to
  `Pending`. The caller's check moves it to `RR` at most. `restartCheck`
  moves `RR` to `reconnects`. Two changes that meet one pending restart make
  the sum drop, which is why the invariant is an inequality. The
  `FiniteSetTheorems` facts `FS_AddElement`, `FS_RemoveElement`, `FS_Subset` and
  `FS_EmptySet` give the cardinalities. `RestartInv` was checked with TLC on
  the wg_core instance (738,934 states) before it was proved.

`InstallSafe` and `PauseSafe` rest on the inductive invariant `SvcInv`:
- `initLocked <=> lpc \in LockedPCs`: the mutex is held exactly while the
  connect goroutine is inside `installService`;
- `InstallNotClobbered`;
- `PausedImpliesTunnelDown`.

Neither property is inductive alone. A caller's
`disconnectUninstall` can set the service to absent in any state where the mutex is free, so the proof needs
the fact that the mutex is held in `i_wait`/`i_dns`. `SvcInv` was checked with
TLC on the wg_core instance before it was proved. `SvcInvStep` proves it is
preserved, with one case per action.

`PinnedDialerProofs` proves `PinSafe`: `Spec => []PinDecision`, for every
pin set and every bound on the chain length (`DialerAssumption`: at least 1).
- The inductive invariant `DialInv` adds the loop invariant of the check.
- While dialling or looping, `i` is in `1..Len(chain)+1`, no certificate
  before `i` has a pinned key (`NoPinBefore`), and `lastErr` records whether one
  of them failed to marshal (`ErrBefore`).
- A return after the last certificate has therefore seen the whole chain.
- `ChainFacts` shows that a chain of the model is a sequence of length
  `1..MaxChain` (from `SeqDef` and `LenProperties`).

`ApiClientProofs` proves four theorems for every value of the constants.
`ApiAssumption` asks that the addresses are not the labels `"dns"` and
`"none"` that `servedBy` also takes.
- `TypeCorrect`: `Spec => []TypeOK`, for any number of concurrent
  requesters. `TypeOK` is not inductive alone. `tryAlternate` reads
  `snapIPs[r][idx[r]]`, so the strengthening `AltIdx` records that `idx[r] >= 1`
  in `"alt"` (`tryDNS` sets it to 1).
- For calls that do not overlap (`ASSUME NEW r0, Requesters = {r0}`, the
  api_sequential instance):
  - `LastGoodSafe`: `Spec => []LastGoodInList`;
  - `TriedFirst`: `Spec => LastGoodTriedFirst`, an action property;
  - `FailoverRefined`: `Spec => FailoverSpec`.
- All three rest on the inductive invariant `SeqInv`:
  - `SnapFresh`: while a call runs, its snapshot is the current list, and in
    `"last"` its `snapLast` is the current non-nil last good IP;
  - `ServedCached`: an address the last request was served from is the last
    good IP, unless `SetAlternateIPs` has since dropped it from the list (and
    no list update is pending).
- `LastGoodInList` alone is not inductive. `tryAlternate` saves an entry of
  its snapshot, so the proof needs the snapshot to be fresh.
- `ServedCached` carries `LastGoodTriedFirst` from the success to the next
  `StartCall`.
- `SeqInv` was checked with TLC on one requester, lists of 3 and 6 calls
  (28,718 states), before it was proved.
- The list update rests on `ParsedElems`: a valid address is in the new list
  iff the server's list names it.
- The refinement is proved step by step:
  - `Init` maps to `Failover!Init`;
  - each successful attempt maps to `ServeLastGood`, `ServeDNS` or
    `ServeAlternate`;
  - `SetAlternateIPs` maps to `InstallList`;
  - every other step leaves `<<alternateIPs, lastGood, servedBy>>` unchanged.
- With two requesters, `LastGoodInList` fails (the api_lastgood_race finding),
  and so does `SnapFresh`. The single-requester hypothesis is exactly what
  these theorems need.

`VpnTypesProofs` proves two theorems about `ParseState` (types.go), for
every padding and not only the five in `Pads`.
- `ParsePad`, the lemma they rest on: a token that is not a cut character,
  with any token sequences before and after it, parses as an error or as
  the bare token. If `Trim` leaves more than one token the switch sees no
  word and returns an error; if it leaves one, `TrimSingle` shows that it is
  the only token outside the cut set, so it is the padded token.
- `TrimSingle` takes the first and the last kept index that `Trim` CHOOSEs
  and needs a least and a greatest element of a set of naturals:
  `NatMinExists` gets it from the well-foundedness of `<` (`WFMin`), without
  induction, and `NatMaxExists` from it.
- `StringParses` evaluates the switch on each of the 11 `String()` names
  (DISCONNECTED, which has no case, is an error); `OpenVPNParses` on the
  three OpenVPN spellings.
- `PaddedRoundTrip`: for every state `s` and all token sequences `pre` and
  `post`, `ParseState(pre \o <<String(s)>> \o post)` is an error or `s`.
- `ParseSafe`: `Spec => []NoMisparse`. `NoMisparse` is inductive as it
  stands, since `Report` and `ReadLine` set `st`, `line` and `parsed`
  together; the stuttering step leaves it unchanged.

What stays with TLC:
- liveness (`DisconnectTerminatesConnect`, `CallsReturn`,
  `InstallErrorReturns`, `CallsComplete`), since TLAPS does not handle fairness or ENABLED;
- that `ParsedList` agrees with `SelectSeq` (the library's induction
  theorems take an operator parameter, which the installed provers cannot
  instantiate), and the API properties with concurrent requesters;
- `RejectCloses` and `RoundTrip`, which are violations.

## 5. Not modelled

Two divergences are kept in the model's actions but have no run. They are
listed as hazards in `PROJECT.json`:
- After a recovered panic, the dialer returns `(nil, nil)` (`recoverPanic`).
  net/http reports that as an error itself.
- The loop leaves on a Stopped service without uninstalling it (`poll`). The
  next `init()`/`connect()` removes it.


- Time: the poll interval, install and uninstall timeouts, and the 50 ns sleep
  in `uninstallService`.
- The content of the state channel (CONNECTED/RECONNECTING notifications).
- Torn reads of racing fields: each field access is atomic in the model.
- JSON encoding and decoding of API responses.
- Update-host requests: they hold no state.
- The `StateInfo` constructors (`NewStateInfo`, `NewStateInfoConnected`): the
  fields they fill are not told apart by any property, and the notification
  that uses them (`notifyConnectedStat`) is not under `src/`.
- The growth of the defer stack by pauses (a hazard): memory is not modelled.
- Unclosed `resp.Body` in `requestRaw`: it is listed as a hazard.
- The session engine, the OpenVPN adapter and the collaborators: they are not
  in `src/`.
