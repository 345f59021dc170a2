-------------------------- MODULE WireGuardWindows --------------------------
(***************************************************************************)
(* The Windows WireGuard adapter (src/vpn/wireguard/wireguard_windows.go). *)
(*                                                                         *)
(* Three kinds of actors share the adapter's internalVariables:            *)
(*  - the connect goroutine ("the loop"): init(), connect() and its        *)
(*    supervision loop, including the installService/uninstallService it   *)
(*    calls; its program counter is lpc;                                   *)
(*  - control callers (Callers): disconnect, pause, resume, setManualDNS,  *)
(*    resetManualDNS, each running on a caller's own goroutine;            *)
(*  - the Windows service manager, which may stop a running tunnel        *)
(*    service on its own.                                                  *)
(* The fields of internalVariables are read and written without a lock,    *)
(* as in the code; only install/uninstall take _globalInitMutex.           *)
(***************************************************************************)
EXTENDS Naturals, FiniteSets

CONSTANTS
    Callers,          \* goroutines that call the control operations
    DNSValues,        \* manual DNS addresses a caller may set
    NoDNS,            \* the nil net.IP
    MaxOps,           \* bound on the number of control calls
    MaxCrashes,       \* bound on spontaneous stops of the tunnel service
    InstallMayFail,   \* the installer or the start of the service may fail or time out
    UninstallMayFail  \* the uninstaller may fail or time out

ASSUME ConstAssumption ==
    /\ IsFiniteSet(Callers)
    /\ NoDNS \notin DNSValues
    /\ MaxOps \in Nat
    /\ MaxCrashes \in Nat
    /\ InstallMayFail \in BOOLEAN
    /\ UninstallMayFail \in BOOLEAN

VARIABLES
    svc,                   \* state of service WireGuardTunnel$IVPN
    initLocked,            \* _globalInitMutex held by an installService in progress
    cfgFile,               \* DNS written into the generated config file
    cfgDNS,                \* DNS of the config the installed service runs with
    dnsOverride,           \* value last given to dns.SetManual / dns.DeleteManual
    manualDNS,             \* internals.manualDNS
    isRestartRequired,     \* internals.isRestartRequired
    isDisconnectRequested, \* internals.isDisconnectRequested
    isPaused,              \* internals.isPaused
    pauseRequireChan,      \* internals.pauseRequireChan: "nil" or "open"
    chanBuf,               \* the single slot of the buffered channel
    lpc,                   \* program counter of the connect goroutine
    ctx,                   \* where the running installService returns to
    cpc,                   \* program counter of each caller
    held,                  \* caller read a non-nil pauseRequireChan
    msg,                   \* operation a caller is sending through the channel
    crashes, ops,          \* bound counters
    dnsChanges,            \* history: setManualDNS/resetManualDNS calls that changed manualDNS
    reconnects             \* history: RECONNECTING states sent on stateChan

vars == <<svc, initLocked, cfgFile, cfgDNS, dnsOverride, manualDNS,
          isRestartRequired, isDisconnectRequested, isPaused,
          pauseRequireChan, chanBuf, lpc, ctx, cpc, held, msg,
          crashes, ops, dnsChanges, reconnects>>

DNSOpt == DNSValues \cup {NoDNS}
SvcStates == {"none", "starting", "running", "stopped"}
Operation == {"pause", "resume"}
Empty == "empty"
LoopPCs == {"init", "start", "c_disc", "i_lock", "i_exec", "i_wait", "i_dns",
            "i_fail", "i_fail_send", "i_fail_un", "c_check", "c_uninst",
            "poll", "select", "p_uninst", "p_wait", "p_after",
            "restart_chk", "r_uninst", "exit", "done"}
CallerPCs == {"idle", "d_send", "d_un", "send", "dns_chk"}

loopVars == <<lpc, ctx>>
callerVars == <<cpc, held, msg>>
adapterVars == <<manualDNS, isRestartRequired, isDisconnectRequested,
                 isPaused, pauseRequireChan, chanBuf>>
svcVars == <<svc, initLocked, cfgFile, cfgDNS, dnsOverride>>
histVars == <<crashes, ops, dnsChanges, reconnects>>

(* The type invariant, in three parts: values, flags and counters. *)
TypeState ==
    /\ svc \in SvcStates
    /\ cfgFile \in DNSOpt
    /\ cfgDNS \in DNSOpt
    /\ dnsOverride \in DNSOpt
    /\ manualDNS \in DNSOpt
    /\ pauseRequireChan \in {"nil", "open"}
    /\ chanBuf \in Operation \cup {Empty}
    /\ lpc \in LoopPCs
    /\ ctx \in {"connect", "resume", "restart"}
    /\ cpc \in [Callers -> CallerPCs]
    /\ msg \in [Callers -> Operation]

TypeFlags ==
    /\ initLocked \in BOOLEAN
    /\ isRestartRequired \in BOOLEAN
    /\ isDisconnectRequested \in BOOLEAN
    /\ isPaused \in BOOLEAN
    /\ held \in [Callers -> BOOLEAN]

TypeCounters ==
    /\ crashes \in 0..MaxCrashes
    /\ ops \in 0..MaxOps
    /\ dnsChanges \in Nat
    /\ reconnects \in Nat

TypeOK == TypeState /\ TypeFlags /\ TypeCounters

-----------------------------------------------------------------------------
(* Helpers *)

(* Mutant: uninstallService without _globalInitMutex. *)
uninstallServiceNoLock(ok) ==
    \/ /\ ok
       /\ svc' = "none"
    \/ /\ ~ok
       /\ UninstallMayFail
       /\ svc # "none"
       /\ UNCHANGED svc

(* uninstallService: under _globalInitMutex; nil if the service does not   *)
(* exist, otherwise /uninstalltunnelservice and a wait for the service to  *)
(* disappear, which may fail or time out (3 min) and leave it in place.    *)
(* The mutex is held only inside this call, so the call is one step.       *)
uninstallService(ok) ==
    /\ ~initLocked
    /\ \/ /\ ok
          /\ svc' = "none"
       \/ /\ ~ok
          /\ UninstallMayFail
          /\ svc # "none"
          /\ UNCHANGED svc

(* Loop sends o on its own channel (requireOperation): skipped when the    *)
(* channel is nil, blocks while the slot is full.                          *)
loopRequireOperation(o) ==
    \/ /\ pauseRequireChan = "nil"
       /\ UNCHANGED chanBuf
    \/ /\ pauseRequireChan = "open"
       /\ chanBuf = Empty
       /\ chanBuf' = o

Goto(pc) == lpc' = pc

(* isServiceInstalled: OpenService on WireGuardTunnel$IVPN succeeds.       *)
isServiceInstalled == svc # "none"

(* getServiceStatus as the supervision loop reads it: OpenService fails    *)
(* with ERROR_SERVICE_DOES_NOT_EXIST for a removed service, Interrogate    *)
(* fails with ERROR_SERVICE_NOT_ACTIVE for one that no longer runs; both   *)
(* errors, like the state Stopped, end the loop.                           *)
serviceGone == svc \in {"none", "stopped"}

(* getOSSpecificConfigParams: the config's DNS line is manualDNS, or the   *)
(* host's local IP (NoDNS here) when manualDNS is nil.                     *)
getOSSpecificConfigParams == manualDNS

-----------------------------------------------------------------------------
(* The connect goroutine *)

(* init(): uninstall a service left by an earlier run. *)
init ==
    /\ lpc = "init"
    /\ \/ /\ ~isServiceInstalled
          /\ Goto("start")
          /\ UNCHANGED svc
       \/ /\ isServiceInstalled
          /\ \E ok \in BOOLEAN :
                /\ uninstallService(ok)
                /\ Goto(IF ok THEN "start" ELSE "done")
    /\ UNCHANGED <<ctx, initLocked, cfgFile, cfgDNS, dnsOverride, adapterVars,
                   callerVars, histVars>>

(* connect(): refuse when disconnect was already requested. *)
connectStart ==
    /\ lpc = "start"
    /\ Goto(IF isDisconnectRequested THEN "done" ELSE "c_disc")
    /\ UNCHANGED <<ctx, svcVars, adapterVars, callerVars, histVars>>

(* connect(): disconnectInternal() before the new connection; the channel  *)
(* is still nil so requireOperation(resume) does nothing.                  *)
connectDisconnectInternal ==
    /\ lpc = "c_disc"
    /\ \E ok \in BOOLEAN :
          /\ uninstallService(ok)
          /\ Goto(IF ok THEN "i_lock" ELSE "exit")
    /\ ctx' = "connect"
    /\ UNCHANGED <<initLocked, cfgFile, cfgDNS, dnsOverride, adapterVars,
                   callerVars, histVars>>

(* installService: take _globalInitMutex and write the config file, whose  *)
(* DNS line is manualDNS (or the host's DNS when nil).                     *)
installLock ==
    /\ lpc = "i_lock"
    /\ ~initLocked
    /\ initLocked' = TRUE
    /\ cfgFile' = getOSSpecificConfigParams
    /\ Goto("i_exec")
    /\ UNCHANGED <<ctx, svc, cfgDNS, dnsOverride, adapterVars, callerVars,
                   histVars>>

(* /installtunnelservice and the wait until the service is installed.      *)
installExec ==
    /\ lpc = "i_exec"
    /\ \/ /\ svc' = "starting"
          /\ cfgDNS' = cfgFile
          /\ Goto("i_wait")
       \/ /\ InstallMayFail
          /\ Goto("i_fail")
          /\ UNCHANGED <<svc, cfgDNS>>
    /\ UNCHANGED <<ctx, initLocked, cfgFile, dnsOverride, adapterVars,
                   callerVars, histVars>>

(* Wait for the service to start: Running, Stopped (error) or timeout.     *)
installWaitStart ==
    /\ lpc = "i_wait"
    /\ \/ /\ svc = "starting"
          /\ svc' = "running"
          /\ Goto("i_dns")
       \/ /\ InstallMayFail
          /\ svc' \in {"starting", "stopped"}
          /\ Goto("i_fail")
    /\ UNCHANGED <<ctx, initLocked, cfgFile, cfgDNS, dnsOverride, adapterVars,
                   callerVars, histVars>>

(* Re-read manualDNS for the dns package, notify CONNECTED, unlock and     *)
(* return nil to the caller of installService.                             *)
installDone ==
    /\ lpc = "i_dns"
    /\ dnsOverride' = manualDNS
    /\ initLocked' = FALSE
    /\ \/ ctx = "connect" /\ Goto("c_check") /\ UNCHANGED isPaused
       \/ ctx = "resume" /\ Goto("restart_chk") /\ isPaused' = FALSE
       \/ ctx = "restart" /\ Goto("poll") /\ UNCHANGED isPaused
    /\ UNCHANGED <<ctx, svc, cfgFile, cfgDNS, manualDNS, isRestartRequired,
                   isDisconnectRequested, pauseRequireChan, chanBuf,
                   callerVars, histVars>>

(* An install error: the deferred Unlock runs first ...                    *)
installFailUnlock ==
    /\ lpc = "i_fail"
    /\ initLocked' = FALSE
    /\ Goto("i_fail_send")
    /\ UNCHANGED <<ctx, svc, cfgFile, cfgDNS, dnsOverride, adapterVars,
                   callerVars, histVars>>

(* ... then the deferred disconnectInternal(): requireOperation(resume) on *)
(* the loop's own channel ...                                              *)
installFailResume ==
    /\ lpc = "i_fail_send"
    /\ loopRequireOperation("resume")
    /\ Goto("i_fail_un")
    /\ UNCHANGED <<ctx, svcVars, manualDNS, isRestartRequired,
                   isDisconnectRequested, isPaused, pauseRequireChan,
                   callerVars, histVars>>

(* ... and uninstallService(); the error goes back to the caller: connect  *)
(* and resume return it, a restart logs it and polls again.                *)
installFailUninstall ==
    /\ lpc = "i_fail_un"
    /\ \E ok \in BOOLEAN : uninstallService(ok)
    /\ Goto(IF ctx = "restart" THEN "poll" ELSE "exit")
    /\ UNCHANGED <<ctx, initLocked, cfgFile, cfgDNS, dnsOverride, adapterVars,
                   callerVars, histVars>>

(* connect(): disconnect requested while installing -> uninstall and       *)
(* return; otherwise create the pause channel and enter the loop.          *)
connectCheck ==
    /\ lpc = "c_check"
    /\ \/ /\ isDisconnectRequested
          /\ Goto("c_uninst")
          /\ UNCHANGED <<pauseRequireChan, chanBuf>>
       \/ /\ ~isDisconnectRequested
          /\ pauseRequireChan' = "open"
          /\ chanBuf' = Empty
          /\ Goto("poll")
    /\ UNCHANGED <<ctx, svcVars, manualDNS, isRestartRequired,
                   isDisconnectRequested, isPaused, callerVars, histVars>>

connectUninstall ==
    /\ lpc = "c_uninst"
    /\ \E ok \in BOOLEAN : uninstallService(ok)
    /\ Goto("exit")
    /\ UNCHANGED <<ctx, initLocked, cfgFile, cfgDNS, dnsOverride, adapterVars,
                   callerVars, histVars>>

(* Supervision loop: leave when the service is gone or stopped.            *)
poll ==
    /\ lpc = "poll"
    /\ Goto(IF serviceGone THEN "exit" ELSE "select")
    /\ UNCHANGED <<ctx, svcVars, adapterVars, callerVars, histVars>>

(* Non-blocking receive: pause -> isPaused and pause; resume is ignored.   *)
selectOp ==
    /\ lpc = "select"
    /\ chanBuf' = Empty
    /\ \/ chanBuf = "pause" /\ Goto("p_uninst") /\ isPaused' = TRUE
       \/ chanBuf # "pause" /\ Goto("restart_chk") /\ UNCHANGED isPaused
    /\ UNCHANGED <<ctx, svcVars, manualDNS, isRestartRequired,
                   isDisconnectRequested, pauseRequireChan, callerVars,
                   histVars>>

(* Mutant: a pause whose uninstall error is only logged. *)
pauseUninstallIgnoringError ==
    /\ lpc = "p_uninst"
    /\ \E ok \in BOOLEAN :
          /\ uninstallService(ok)
          /\ Goto("p_wait")
    /\ UNCHANGED <<ctx, initLocked, cfgFile, cfgDNS, dnsOverride, adapterVars,
                   callerVars, histVars>>

(* Pausing: uninstall the service; an error ends connect.                  *)
pauseUninstall ==
    /\ lpc = "p_uninst"
    /\ \E ok \in BOOLEAN :
          /\ uninstallService(ok)
          /\ Goto(IF ok THEN "p_wait" ELSE "exit")
    /\ UNCHANGED <<ctx, initLocked, cfgFile, cfgDNS, dnsOverride, adapterVars,
                   callerVars, histVars>>

(* Paused: blocking receive, consequent 'pause' requests are ignored.      *)
pauseWait ==
    /\ lpc = "p_wait"
    /\ chanBuf # Empty
    /\ chanBuf' = Empty
    /\ Goto(IF chanBuf = "pause" THEN "p_wait" ELSE "p_after")
    /\ UNCHANGED <<ctx, svcVars, manualDNS, isRestartRequired,
                   isDisconnectRequested, isPaused, pauseRequireChan,
                   callerVars, histVars>>

(* After 'resume': a requested disconnect breaks out of the select (not    *)
(* out of the loop); otherwise installService to resume.                   *)
pauseAfter ==
    /\ lpc = "p_after"
    /\ \/ /\ isDisconnectRequested
          /\ Goto("restart_chk")
          /\ UNCHANGED ctx
       \/ /\ ~isDisconnectRequested
          /\ Goto("i_lock")
          /\ ctx' = "resume"
    /\ UNCHANGED <<svcVars, adapterVars, callerVars, histVars>>

(* isRestartRequired: clear it, send RECONNECTING, reinstall.              *)
restartCheck ==
    /\ lpc = "restart_chk"
    /\ \/ /\ isRestartRequired
          /\ isRestartRequired' = FALSE
          /\ reconnects' = reconnects + 1
          /\ Goto("r_uninst")
       \/ /\ ~isRestartRequired
          /\ Goto("poll")
          /\ UNCHANGED <<isRestartRequired, reconnects>>
    /\ UNCHANGED <<ctx, svcVars, manualDNS, isDisconnectRequested, isPaused,
                   pauseRequireChan, chanBuf, callerVars, crashes, ops,
                   dnsChanges>>

(* Restart: an uninstall error is only logged.                             *)
restartUninstall ==
    /\ lpc = "r_uninst"
    /\ \E ok \in BOOLEAN :
          /\ uninstallService(ok)
          /\ Goto(IF ok THEN "i_lock" ELSE "poll")
    /\ ctx' = "restart"
    /\ UNCHANGED <<initLocked, cfgFile, cfgDNS, dnsOverride, adapterVars,
                   callerVars, histVars>>

(* Deferred on return from connect: pauseRequireChan = nil,                *)
(* dns.DeleteManual, isPaused = false.                                     *)
connectExit ==
    /\ lpc = "exit"
    /\ pauseRequireChan' = "nil"
    /\ dnsOverride' = NoDNS
    /\ isPaused' = FALSE
    /\ Goto("done")
    /\ UNCHANGED <<ctx, svc, initLocked, cfgFile, cfgDNS, manualDNS,
                   isRestartRequired, isDisconnectRequested, chanBuf,
                   callerVars, histVars>>

LoopStep ==
    \/ init \/ connectStart \/ connectDisconnectInternal
    \/ installLock \/ installExec \/ installWaitStart \/ installDone
    \/ installFailUnlock \/ installFailResume \/ installFailUninstall
    \/ connectCheck \/ connectUninstall \/ poll \/ selectOp
    \/ pauseUninstall \/ pauseWait \/ pauseAfter
    \/ restartCheck \/ restartUninstall \/ connectExit

-----------------------------------------------------------------------------
(* Control callers *)

CallStart(c) ==
    /\ cpc[c] = "idle"
    /\ ops < MaxOps
    /\ ops' = ops + 1

(* disconnect(): set isDisconnectRequested and read the channel for        *)
(* requireOperation(resume).                                               *)
disconnect(c) ==
    /\ CallStart(c)
    /\ isDisconnectRequested' = TRUE
    /\ held' = [held EXCEPT ![c] = (pauseRequireChan = "open")]
    /\ msg' = [msg EXCEPT ![c] = "resume"]
    /\ cpc' = [cpc EXCEPT ![c] = "d_send"]
    /\ UNCHANGED <<loopVars, svcVars, manualDNS, isRestartRequired, isPaused,
                   pauseRequireChan, chanBuf, crashes, dnsChanges, reconnects>>

(* pause() / resume(): requireOperation reads the channel field.           *)
requireOperation(c, o) ==
    /\ CallStart(c)
    /\ held' = [held EXCEPT ![c] = (pauseRequireChan = "open")]
    /\ msg' = [msg EXCEPT ![c] = o]
    /\ cpc' = [cpc EXCEPT ![c] = "send"]
    /\ UNCHANGED <<loopVars, svcVars, adapterVars, crashes, dnsChanges,
                   reconnects>>

pause(c) == requireOperation(c, "pause")
resume(c) == requireOperation(c, "resume")

(* ch <- o on the channel read before: blocks while the slot is full,      *)
(* even if connect has returned meanwhile.                                 *)
SendOn(c) ==
    \/ /\ ~held[c]
       /\ UNCHANGED chanBuf
    \/ /\ held[c]
       /\ chanBuf = Empty
       /\ chanBuf' = msg[c]

sendOp(c) ==
    /\ cpc[c] \in {"d_send", "send"}
    /\ SendOn(c)
    /\ cpc' = [cpc EXCEPT ![c] = IF cpc[c] = "d_send" THEN "d_un" ELSE "idle"]
    /\ UNCHANGED <<held, msg, loopVars, svcVars, manualDNS, isRestartRequired,
                   isDisconnectRequested, isPaused, pauseRequireChan,
                   histVars>>

(* disconnect(): uninstallService() and return its result.                 *)
disconnectUninstall(c) ==
    /\ cpc[c] = "d_un"
    /\ \E ok \in BOOLEAN : uninstallService(ok)
    /\ cpc' = [cpc EXCEPT ![c] = "idle"]
    /\ UNCHANGED <<held, msg, loopVars, initLocked, cfgFile, cfgDNS,
                   dnsOverride, adapterVars, histVars>>

(* Mutant: setManualDNS without the addr.Equal(manualDNS) early return. *)
ChangeDNSNoGuard(c, addr) ==
    /\ CallStart(c)
    /\ manualDNS' = addr
    /\ dnsChanges' = dnsChanges + (IF addr = manualDNS THEN 0 ELSE 1)
    /\ cpc' = [cpc EXCEPT ![c] = "dns_chk"]
    /\ UNCHANGED <<held, msg, loopVars, svcVars, isRestartRequired,
                   isDisconnectRequested, isPaused, pauseRequireChan,
                   chanBuf, crashes, reconnects>>

(* setManualDNS(addr) / resetManualDNS(): no-op when the value is          *)
(* unchanged; otherwise store it and check whether the service runs.       *)
ChangeDNS(c, addr) ==
    /\ CallStart(c)
    /\ IF addr = manualDNS
          THEN /\ UNCHANGED <<manualDNS, cpc, dnsChanges>>
          ELSE /\ manualDNS' = addr
               /\ dnsChanges' = dnsChanges + 1
               /\ cpc' = [cpc EXCEPT ![c] = "dns_chk"]
    /\ UNCHANGED <<held, msg, loopVars, svcVars, isRestartRequired,
                   isDisconnectRequested, isPaused, pauseRequireChan,
                   chanBuf, crashes, reconnects>>

setManualDNS(c, addr) == ChangeDNS(c, addr)
resetManualDNS(c) == ChangeDNS(c, NoDNS)

(* isServiceRunning(): request a restart only when the service is Running. *)
dnsRestartCheck(c) ==
    /\ cpc[c] = "dns_chk"
    /\ IF svc = "running"
          THEN isRestartRequired' = TRUE
          ELSE UNCHANGED isRestartRequired
    /\ cpc' = [cpc EXCEPT ![c] = "idle"]
    /\ UNCHANGED <<held, msg, loopVars, svcVars, manualDNS,
                   isDisconnectRequested, isPaused, pauseRequireChan, chanBuf,
                   histVars>>

CallerStep(c) ==
    \/ sendOp(c) \/ disconnectUninstall(c) \/ dnsRestartCheck(c)

CallerCall(c) ==
    \/ disconnect(c) \/ pause(c) \/ resume(c)
    \/ \E a \in DNSValues : setManualDNS(c, a)
    \/ resetManualDNS(c)

-----------------------------------------------------------------------------
(* The service manager: the tunnel service stops by itself. *)
serviceStops ==
    /\ svc = "running"
    /\ crashes < MaxCrashes
    /\ svc' = "stopped"
    /\ crashes' = crashes + 1
    /\ UNCHANGED <<initLocked, cfgFile, cfgDNS, dnsOverride, loopVars,
                   adapterVars, callerVars, ops, dnsChanges, reconnects>>

-----------------------------------------------------------------------------
Init ==
    /\ svc \in {"none", "running"}
    /\ initLocked = FALSE
    /\ cfgFile = NoDNS
    /\ cfgDNS = NoDNS
    /\ dnsOverride = NoDNS
    /\ manualDNS \in DNSOpt
    /\ isRestartRequired = FALSE
    /\ isDisconnectRequested = FALSE
    /\ isPaused = FALSE
    /\ pauseRequireChan = "nil"
    /\ chanBuf = Empty
    /\ lpc = "init"
    /\ ctx = "connect"
    /\ cpc = [c \in Callers |-> "idle"]
    /\ held = [c \in Callers |-> FALSE]
    /\ msg = [c \in Callers |-> "resume"]
    /\ crashes = 0
    /\ ops = 0
    /\ dnsChanges = 0
    /\ reconnects = 0

Next ==
    \/ LoopStep
    \/ \E c \in Callers : CallerStep(c) \/ CallerCall(c)
    \/ serviceStops

(* The connect goroutine polls every 50 ms and callers run to the end of   *)
(* a call once made; neither new calls nor the service manager are fair.   *)
Fairness ==
    /\ WF_vars(LoopStep)
    /\ \A c \in Callers : WF_vars(CallerStep(c))

Spec == Init /\ [][Next]_vars /\ Fairness

-----------------------------------------------------------------------------
(* Properties *)

(* While connect() waits paused for resume, the tunnel service is not      *)
(* installed: the pause branch returns when uninstallService fails, and no *)
(* other goroutine installs the service.                                   *)
PausedImpliesTunnelDown ==
    lpc \in {"p_wait", "p_after"} => svc = "none"

(* While installService waits for the service it installed to start, and   *)
(* until it returns, no concurrent uninstallService (disconnect) removes   *)
(* the service: _globalInitMutex serializes install and uninstall.         *)
InstallNotClobbered ==
    lpc \in {"i_wait", "i_dns"} => svc # "none"

(* The supervision loop sends RECONNECTING at most once per setManualDNS / *)
(* resetManualDNS call that changed the DNS value: an unchanged value      *)
(* never restarts the tunnel, and a restart clears isRestartRequired.      *)
RestartOnlyOnChange ==
    reconnects <= dnsChanges

(* When the loop polls a running tunnel, no restart is pending and no DNS  *)
(* call is in flight, the tunnel runs with the current manualDNS: a        *)
(* setManualDNS is never lost (spec 4.2, set_manual_dns).                  *)
DNSConsistent ==
    (/\ lpc = "poll"
     /\ svc = "running"
     /\ ~isRestartRequired
     /\ \A c \in Callers : cpc[c] # "dns_chk")
    => cfgDNS = manualDNS

(* A disconnect() makes connect() return (spec 5: a disconnect observed    *)
(* before or during connect MUST cause connect to return).                 *)
DisconnectTerminatesConnect ==
    isDisconnectRequested ~> (lpc = "done")

(* Every control call (disconnect, pause, resume, setManualDNS) returns:   *)
(* requireOperation's send on the size-1 channel is bounded (spec 5).      *)
CallsReturn ==
    \A c \in Callers : (cpc[c] # "idle") ~> (cpc[c] = "idle")

(* An installService error makes its caller go on: the deferred           *)
(* disconnectInternal does not block the connect goroutine for ever.       *)
InstallErrorReturns ==
    (lpc = "i_fail_send") ~> (lpc # "i_fail_send")

=============================================================================
