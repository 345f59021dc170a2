----------------------- MODULE WireGuardWindowsProofs -----------------------
(* Proofs about the Windows WireGuard adapter model, for all values of the *)
(* constants.                                                              *)
EXTENDS WireGuardWindows, FiniteSetTheorems, TLAPS

USE ConstAssumption

(* Every step of the model keeps the values of the state well typed. *)
LEMMA StateStep == TypeOK /\ [Next]_vars => TypeState'
<1> SUFFICES ASSUME TypeOK, [Next]_vars PROVE TypeState'
  OBVIOUS
<1> USE DEF TypeOK, TypeState, TypeFlags, TypeCounters, Goto, LoopPCs, CallerPCs,
            SvcStates, DNSOpt, Operation, Empty
<1>1. CASE init
  BY <1>1 DEF init, isServiceInstalled, uninstallService, loopVars, callerVars, adapterVars, svcVars, histVars
<1>2. CASE connectStart
  BY <1>2 DEF connectStart, loopVars, callerVars, adapterVars, svcVars, histVars
<1>3. CASE connectDisconnectInternal
  BY <1>3 DEF connectDisconnectInternal, uninstallService, loopVars, callerVars, adapterVars, svcVars, histVars
<1>4. CASE installLock
  BY <1>4 DEF installLock, getOSSpecificConfigParams, loopVars, callerVars, adapterVars, svcVars, histVars
<1>5. CASE installExec
  BY <1>5 DEF installExec, loopVars, callerVars, adapterVars, svcVars, histVars
<1>6. CASE installWaitStart
  BY <1>6 DEF installWaitStart, loopVars, callerVars, adapterVars, svcVars, histVars
<1>7. CASE installDone
  BY <1>7 DEF installDone, loopVars, callerVars, adapterVars, svcVars, histVars
<1>8. CASE installFailUnlock
  BY <1>8 DEF installFailUnlock, loopVars, callerVars, adapterVars, svcVars, histVars
<1>9. CASE installFailResume
  BY <1>9 DEF installFailResume, loopRequireOperation, loopVars, callerVars, adapterVars, svcVars, histVars
<1>10. CASE installFailUninstall
  BY <1>10 DEF installFailUninstall, uninstallService, loopVars, callerVars, adapterVars, svcVars, histVars
<1>11. CASE connectCheck
  BY <1>11 DEF connectCheck, loopVars, callerVars, adapterVars, svcVars, histVars
<1>12. CASE connectUninstall
  BY <1>12 DEF connectUninstall, uninstallService, loopVars, callerVars, adapterVars, svcVars, histVars
<1>13. CASE poll
  BY <1>13 DEF poll, serviceGone, loopVars, callerVars, adapterVars, svcVars, histVars
<1>14. CASE selectOp
  BY <1>14 DEF selectOp, loopVars, callerVars, adapterVars, svcVars, histVars
<1>15. CASE pauseUninstall
  BY <1>15 DEF pauseUninstall, uninstallService, loopVars, callerVars, adapterVars, svcVars, histVars
<1>16. CASE pauseWait
  BY <1>16 DEF pauseWait, loopVars, callerVars, adapterVars, svcVars, histVars
<1>17. CASE pauseAfter
  BY <1>17 DEF pauseAfter, loopVars, callerVars, adapterVars, svcVars, histVars
<1>18. CASE restartCheck
  BY <1>18 DEF restartCheck, loopVars, callerVars, adapterVars, svcVars, histVars
<1>19. CASE restartUninstall
  BY <1>19 DEF restartUninstall, uninstallService, loopVars, callerVars, adapterVars, svcVars, histVars
<1>20. CASE connectExit
  BY <1>20 DEF connectExit, loopVars, callerVars, adapterVars, svcVars, histVars
<1>21. ASSUME NEW c \in Callers, sendOp(c) PROVE TypeState'
  BY <1>21 DEF sendOp, SendOn, loopVars, callerVars, adapterVars, svcVars, histVars
<1>22. ASSUME NEW c \in Callers, disconnectUninstall(c) PROVE TypeState'
  BY <1>22 DEF disconnectUninstall, uninstallService, loopVars, callerVars, adapterVars, svcVars, histVars
<1>23. ASSUME NEW c \in Callers, dnsRestartCheck(c) PROVE TypeState'
  BY <1>23 DEF dnsRestartCheck, loopVars, callerVars, adapterVars, svcVars, histVars
<1>24. ASSUME NEW c \in Callers, disconnect(c) PROVE TypeState'
  BY <1>24 DEF disconnect, CallStart, loopVars, callerVars, adapterVars, svcVars, histVars
<1>25. ASSUME NEW c \in Callers, NEW o \in Operation, requireOperation(c, o) PROVE TypeState'
  BY <1>25 DEF requireOperation, CallStart, loopVars, callerVars, adapterVars, svcVars, histVars
<1>26. ASSUME NEW c \in Callers, NEW a \in DNSOpt, ChangeDNS(c, a) PROVE TypeState'
  BY <1>26 DEF ChangeDNS, CallStart, loopVars, callerVars, adapterVars, svcVars, histVars
<1>27. CASE serviceStops
  BY <1>27 DEF serviceStops, loopVars, callerVars, adapterVars, svcVars, histVars
<1>28. CASE UNCHANGED vars
  BY <1>28 DEF vars
<1>29. CASE LoopStep
  BY <1>29, <1>1, <1>2, <1>3, <1>4, <1>5, <1>6, <1>7, <1>8, <1>9, <1>10, <1>11, <1>12, <1>13, <1>14, <1>15, <1>16, <1>17, <1>18, <1>19, <1>20 DEF LoopStep
<1>30. ASSUME NEW c \in Callers, CallerStep(c) \/ CallerCall(c) PROVE TypeState'
  BY <1>30, <1>21, <1>22, <1>23, <1>24, <1>25, <1>26 DEF CallerStep, CallerCall, pause, resume, setManualDNS, resetManualDNS, DNSOpt
<1>31. QED
  BY <1>29, <1>30, <1>27, <1>28 DEF Next

(* Every step of the model keeps the flags of the state well typed. *)
LEMMA FlagsStep == TypeOK /\ [Next]_vars => TypeFlags'
<1> SUFFICES ASSUME TypeOK, [Next]_vars PROVE TypeFlags'
  OBVIOUS
<1> USE DEF TypeOK, TypeState, TypeFlags, TypeCounters, Goto, LoopPCs, CallerPCs,
            SvcStates, DNSOpt, Operation, Empty
<1>1. CASE init
  BY <1>1 DEF init, isServiceInstalled, uninstallService, loopVars, callerVars, adapterVars, svcVars, histVars
<1>2. CASE connectStart
  BY <1>2 DEF connectStart, loopVars, callerVars, adapterVars, svcVars, histVars
<1>3. CASE connectDisconnectInternal
  BY <1>3 DEF connectDisconnectInternal, uninstallService, loopVars, callerVars, adapterVars, svcVars, histVars
<1>4. CASE installLock
  BY <1>4 DEF installLock, getOSSpecificConfigParams, loopVars, callerVars, adapterVars, svcVars, histVars
<1>5. CASE installExec
  BY <1>5 DEF installExec, loopVars, callerVars, adapterVars, svcVars, histVars
<1>6. CASE installWaitStart
  BY <1>6 DEF installWaitStart, loopVars, callerVars, adapterVars, svcVars, histVars
<1>7. CASE installDone
  BY <1>7 DEF installDone, loopVars, callerVars, adapterVars, svcVars, histVars
<1>8. CASE installFailUnlock
  BY <1>8 DEF installFailUnlock, loopVars, callerVars, adapterVars, svcVars, histVars
<1>9. CASE installFailResume
  BY <1>9 DEF installFailResume, loopRequireOperation, loopVars, callerVars, adapterVars, svcVars, histVars
<1>10. CASE installFailUninstall
  BY <1>10 DEF installFailUninstall, uninstallService, loopVars, callerVars, adapterVars, svcVars, histVars
<1>11. CASE connectCheck
  BY <1>11 DEF connectCheck, loopVars, callerVars, adapterVars, svcVars, histVars
<1>12. CASE connectUninstall
  BY <1>12 DEF connectUninstall, uninstallService, loopVars, callerVars, adapterVars, svcVars, histVars
<1>13. CASE poll
  BY <1>13 DEF poll, serviceGone, loopVars, callerVars, adapterVars, svcVars, histVars
<1>14. CASE selectOp
  BY <1>14 DEF selectOp, loopVars, callerVars, adapterVars, svcVars, histVars
<1>15. CASE pauseUninstall
  BY <1>15 DEF pauseUninstall, uninstallService, loopVars, callerVars, adapterVars, svcVars, histVars
<1>16. CASE pauseWait
  BY <1>16 DEF pauseWait, loopVars, callerVars, adapterVars, svcVars, histVars
<1>17. CASE pauseAfter
  BY <1>17 DEF pauseAfter, loopVars, callerVars, adapterVars, svcVars, histVars
<1>18. CASE restartCheck
  BY <1>18 DEF restartCheck, loopVars, callerVars, adapterVars, svcVars, histVars
<1>19. CASE restartUninstall
  BY <1>19 DEF restartUninstall, uninstallService, loopVars, callerVars, adapterVars, svcVars, histVars
<1>20. CASE connectExit
  BY <1>20 DEF connectExit, loopVars, callerVars, adapterVars, svcVars, histVars
<1>21. ASSUME NEW c \in Callers, sendOp(c) PROVE TypeFlags'
  BY <1>21 DEF sendOp, SendOn, loopVars, callerVars, adapterVars, svcVars, histVars
<1>22. ASSUME NEW c \in Callers, disconnectUninstall(c) PROVE TypeFlags'
  BY <1>22 DEF disconnectUninstall, uninstallService, loopVars, callerVars, adapterVars, svcVars, histVars
<1>23. ASSUME NEW c \in Callers, dnsRestartCheck(c) PROVE TypeFlags'
  BY <1>23 DEF dnsRestartCheck, loopVars, callerVars, adapterVars, svcVars, histVars
<1>24. ASSUME NEW c \in Callers, disconnect(c) PROVE TypeFlags'
  BY <1>24 DEF disconnect, CallStart, loopVars, callerVars, adapterVars, svcVars, histVars
<1>25. ASSUME NEW c \in Callers, NEW o \in Operation, requireOperation(c, o) PROVE TypeFlags'
  BY <1>25 DEF requireOperation, CallStart, loopVars, callerVars, adapterVars, svcVars, histVars
<1>26. ASSUME NEW c \in Callers, NEW a \in DNSOpt, ChangeDNS(c, a) PROVE TypeFlags'
  BY <1>26 DEF ChangeDNS, CallStart, loopVars, callerVars, adapterVars, svcVars, histVars
<1>27. CASE serviceStops
  BY <1>27 DEF serviceStops, loopVars, callerVars, adapterVars, svcVars, histVars
<1>28. CASE UNCHANGED vars
  BY <1>28 DEF vars
<1>29. CASE LoopStep
  BY <1>29, <1>1, <1>2, <1>3, <1>4, <1>5, <1>6, <1>7, <1>8, <1>9, <1>10, <1>11, <1>12, <1>13, <1>14, <1>15, <1>16, <1>17, <1>18, <1>19, <1>20 DEF LoopStep
<1>30. ASSUME NEW c \in Callers, CallerStep(c) \/ CallerCall(c) PROVE TypeFlags'
  BY <1>30, <1>21, <1>22, <1>23, <1>24, <1>25, <1>26 DEF CallerStep, CallerCall, pause, resume, setManualDNS, resetManualDNS, DNSOpt
<1>31. QED
  BY <1>29, <1>30, <1>27, <1>28 DEF Next

(* Every step of the model keeps the counters of the state well typed. *)
LEMMA CountersStep == TypeOK /\ [Next]_vars => TypeCounters'
<1> SUFFICES ASSUME TypeOK, [Next]_vars PROVE TypeCounters'
  OBVIOUS
<1> USE DEF TypeOK, TypeState, TypeFlags, TypeCounters, Goto, LoopPCs, CallerPCs,
            SvcStates, DNSOpt, Operation, Empty
<1>1. CASE init
  BY <1>1 DEF init, isServiceInstalled, uninstallService, loopVars, callerVars, adapterVars, svcVars, histVars
<1>2. CASE connectStart
  BY <1>2 DEF connectStart, loopVars, callerVars, adapterVars, svcVars, histVars
<1>3. CASE connectDisconnectInternal
  BY <1>3 DEF connectDisconnectInternal, uninstallService, loopVars, callerVars, adapterVars, svcVars, histVars
<1>4. CASE installLock
  BY <1>4 DEF installLock, getOSSpecificConfigParams, loopVars, callerVars, adapterVars, svcVars, histVars
<1>5. CASE installExec
  BY <1>5 DEF installExec, loopVars, callerVars, adapterVars, svcVars, histVars
<1>6. CASE installWaitStart
  BY <1>6 DEF installWaitStart, loopVars, callerVars, adapterVars, svcVars, histVars
<1>7. CASE installDone
  BY <1>7 DEF installDone, loopVars, callerVars, adapterVars, svcVars, histVars
<1>8. CASE installFailUnlock
  BY <1>8 DEF installFailUnlock, loopVars, callerVars, adapterVars, svcVars, histVars
<1>9. CASE installFailResume
  BY <1>9 DEF installFailResume, loopRequireOperation, loopVars, callerVars, adapterVars, svcVars, histVars
<1>10. CASE installFailUninstall
  BY <1>10 DEF installFailUninstall, uninstallService, loopVars, callerVars, adapterVars, svcVars, histVars
<1>11. CASE connectCheck
  BY <1>11 DEF connectCheck, loopVars, callerVars, adapterVars, svcVars, histVars
<1>12. CASE connectUninstall
  BY <1>12 DEF connectUninstall, uninstallService, loopVars, callerVars, adapterVars, svcVars, histVars
<1>13. CASE poll
  BY <1>13 DEF poll, serviceGone, loopVars, callerVars, adapterVars, svcVars, histVars
<1>14. CASE selectOp
  BY <1>14 DEF selectOp, loopVars, callerVars, adapterVars, svcVars, histVars
<1>15. CASE pauseUninstall
  BY <1>15 DEF pauseUninstall, uninstallService, loopVars, callerVars, adapterVars, svcVars, histVars
<1>16. CASE pauseWait
  BY <1>16 DEF pauseWait, loopVars, callerVars, adapterVars, svcVars, histVars
<1>17. CASE pauseAfter
  BY <1>17 DEF pauseAfter, loopVars, callerVars, adapterVars, svcVars, histVars
<1>18. CASE restartCheck
  BY <1>18 DEF restartCheck, loopVars, callerVars, adapterVars, svcVars, histVars
<1>19. CASE restartUninstall
  BY <1>19 DEF restartUninstall, uninstallService, loopVars, callerVars, adapterVars, svcVars, histVars
<1>20. CASE connectExit
  BY <1>20 DEF connectExit, loopVars, callerVars, adapterVars, svcVars, histVars
<1>21. ASSUME NEW c \in Callers, sendOp(c) PROVE TypeCounters'
  BY <1>21 DEF sendOp, SendOn, loopVars, callerVars, adapterVars, svcVars, histVars
<1>22. ASSUME NEW c \in Callers, disconnectUninstall(c) PROVE TypeCounters'
  BY <1>22 DEF disconnectUninstall, uninstallService, loopVars, callerVars, adapterVars, svcVars, histVars
<1>23. ASSUME NEW c \in Callers, dnsRestartCheck(c) PROVE TypeCounters'
  BY <1>23 DEF dnsRestartCheck, loopVars, callerVars, adapterVars, svcVars, histVars
<1>24. ASSUME NEW c \in Callers, disconnect(c) PROVE TypeCounters'
  BY <1>24 DEF disconnect, CallStart, loopVars, callerVars, adapterVars, svcVars, histVars
<1>25. ASSUME NEW c \in Callers, NEW o \in Operation, requireOperation(c, o) PROVE TypeCounters'
  BY <1>25 DEF requireOperation, CallStart, loopVars, callerVars, adapterVars, svcVars, histVars
<1>26. ASSUME NEW c \in Callers, NEW a \in DNSOpt, ChangeDNS(c, a) PROVE TypeCounters'
  BY <1>26 DEF ChangeDNS, CallStart, loopVars, callerVars, adapterVars, svcVars, histVars
<1>27. CASE serviceStops
  BY <1>27 DEF serviceStops, loopVars, callerVars, adapterVars, svcVars, histVars
<1>28. CASE UNCHANGED vars
  BY <1>28 DEF vars
<1>29. CASE LoopStep
  BY <1>29, <1>1, <1>2, <1>3, <1>4, <1>5, <1>6, <1>7, <1>8, <1>9, <1>10, <1>11, <1>12, <1>13, <1>14, <1>15, <1>16, <1>17, <1>18, <1>19, <1>20 DEF LoopStep
<1>30. ASSUME NEW c \in Callers, CallerStep(c) \/ CallerCall(c) PROVE TypeCounters'
  BY <1>30, <1>21, <1>22, <1>23, <1>24, <1>25, <1>26 DEF CallerStep, CallerCall, pause, resume, setManualDNS, resetManualDNS, DNSOpt
<1>31. QED
  BY <1>29, <1>30, <1>27, <1>28 DEF Next

(* The model is well typed in every reachable state: the connect goroutine, *)
(* the control callers and the service manager only ever store values of   *)
(* the declared kinds.                                                     *)
THEOREM TypeCorrect == Spec => []TypeOK
<1>1. Init => TypeState
  BY DEF Init, TypeState, SvcStates, DNSOpt, LoopPCs, CallerPCs, Operation, Empty
<1>2. Init => TypeFlags
  BY DEF Init, TypeFlags
<1>3. Init => TypeCounters
  BY DEF Init, TypeCounters
<1>4. TypeOK /\ [Next]_vars => TypeOK'
  BY StateStep, FlagsStep, CountersStep DEF TypeOK
<1>5. QED
  BY <1>1, <1>2, <1>3, <1>4, PTL DEF Spec, TypeOK

-----------------------------------------------------------------------------
(* The service invariant. _globalInitMutex is held exactly while the       *)
(* connect goroutine is inside installService; the service it installed is *)
(* not removed before installService returns; and while connect() is      *)
(* paused the service is absent. Neither of the last two is inductive     *)
(* alone: a disconnect may uninstall only when the mutex is free.          *)
LockedPCs == {"i_exec", "i_wait", "i_dns", "i_fail"}

SvcInv ==
    /\ initLocked <=> lpc \in LockedPCs
    /\ InstallNotClobbered
    /\ PausedImpliesTunnelDown

(* Every step keeps SvcInv: only the connect goroutine, between         *)
(* installLock and its unlock, installs the service.                     *)
LEMMA SvcInvStep == TypeOK /\ SvcInv /\ [Next]_vars => SvcInv'
<1> SUFFICES ASSUME TypeOK, SvcInv, [Next]_vars PROVE SvcInv'
  OBVIOUS
<1> USE DEF TypeOK, TypeState, TypeFlags, SvcInv, LockedPCs,
            InstallNotClobbered, PausedImpliesTunnelDown, Goto, LoopPCs,
            CallerPCs, SvcStates, DNSOpt, Operation, Empty
<1>1. CASE init
  BY <1>1 DEF init, isServiceInstalled, uninstallService, loopVars, callerVars, adapterVars, svcVars, histVars
<1>2. CASE connectStart
  BY <1>2 DEF connectStart, loopVars, callerVars, adapterVars, svcVars, histVars
<1>3. CASE connectDisconnectInternal
  BY <1>3 DEF connectDisconnectInternal, uninstallService, loopVars, callerVars, adapterVars, svcVars, histVars
<1>4. CASE installLock
  BY <1>4 DEF installLock, getOSSpecificConfigParams, loopVars, callerVars, adapterVars, svcVars, histVars
<1>5. CASE installExec
  BY <1>5 DEF installExec, loopVars, callerVars, adapterVars, svcVars, histVars
<1>6. CASE installWaitStart
  BY <1>6 DEF installWaitStart, loopVars, callerVars, adapterVars, svcVars, histVars
<1>7. CASE installDone
  BY <1>7 DEF installDone, loopVars, callerVars, adapterVars, svcVars, histVars
<1>8. CASE installFailUnlock
  BY <1>8 DEF installFailUnlock, loopVars, callerVars, adapterVars, svcVars, histVars
<1>9. CASE installFailResume
  BY <1>9 DEF installFailResume, loopRequireOperation, loopVars, callerVars, adapterVars, svcVars, histVars
<1>10. CASE installFailUninstall
  BY <1>10 DEF installFailUninstall, uninstallService, loopVars, callerVars, adapterVars, svcVars, histVars
<1>11. CASE connectCheck
  BY <1>11 DEF connectCheck, loopVars, callerVars, adapterVars, svcVars, histVars
<1>12. CASE connectUninstall
  BY <1>12 DEF connectUninstall, uninstallService, loopVars, callerVars, adapterVars, svcVars, histVars
<1>13. CASE poll
  BY <1>13 DEF poll, serviceGone, loopVars, callerVars, adapterVars, svcVars, histVars
<1>14. CASE selectOp
  BY <1>14 DEF selectOp, loopVars, callerVars, adapterVars, svcVars, histVars
<1>15. CASE pauseUninstall
  BY <1>15 DEF pauseUninstall, uninstallService, loopVars, callerVars, adapterVars, svcVars, histVars
<1>16. CASE pauseWait
  BY <1>16 DEF pauseWait, loopVars, callerVars, adapterVars, svcVars, histVars
<1>17. CASE pauseAfter
  BY <1>17 DEF pauseAfter, loopVars, callerVars, adapterVars, svcVars, histVars
<1>18. CASE restartCheck
  BY <1>18 DEF restartCheck, loopVars, callerVars, adapterVars, svcVars, histVars
<1>19. CASE restartUninstall
  BY <1>19 DEF restartUninstall, uninstallService, loopVars, callerVars, adapterVars, svcVars, histVars
<1>20. CASE connectExit
  BY <1>20 DEF connectExit, loopVars, callerVars, adapterVars, svcVars, histVars
<1>21. ASSUME NEW c \in Callers, sendOp(c) PROVE SvcInv'
  BY <1>21 DEF sendOp, SendOn, loopVars, callerVars, adapterVars, svcVars, histVars
<1>22. ASSUME NEW c \in Callers, disconnectUninstall(c) PROVE SvcInv'
  BY <1>22 DEF disconnectUninstall, uninstallService, loopVars, callerVars, adapterVars, svcVars, histVars
<1>23. ASSUME NEW c \in Callers, dnsRestartCheck(c) PROVE SvcInv'
  BY <1>23 DEF dnsRestartCheck, loopVars, callerVars, adapterVars, svcVars, histVars
<1>24. ASSUME NEW c \in Callers, disconnect(c) PROVE SvcInv'
  BY <1>24 DEF disconnect, CallStart, loopVars, callerVars, adapterVars, svcVars, histVars
<1>25. ASSUME NEW c \in Callers, NEW o \in Operation, requireOperation(c, o) PROVE SvcInv'
  BY <1>25 DEF requireOperation, CallStart, loopVars, callerVars, adapterVars, svcVars, histVars
<1>26. ASSUME NEW c \in Callers, NEW a \in DNSOpt, ChangeDNS(c, a) PROVE SvcInv'
  BY <1>26 DEF ChangeDNS, CallStart, loopVars, callerVars, adapterVars, svcVars, histVars
<1>27. CASE serviceStops
  BY <1>27 DEF serviceStops, loopVars, callerVars, adapterVars, svcVars, histVars
<1>28. CASE UNCHANGED vars
  BY <1>28 DEF vars
<1>29. CASE LoopStep
  BY <1>29, <1>1, <1>2, <1>3, <1>4, <1>5, <1>6, <1>7, <1>8, <1>9, <1>10, <1>11, <1>12, <1>13, <1>14, <1>15, <1>16, <1>17, <1>18, <1>19, <1>20 DEF LoopStep
<1>30. ASSUME NEW c \in Callers, CallerStep(c) \/ CallerCall(c) PROVE SvcInv'
  BY <1>30, <1>21, <1>22, <1>23, <1>24, <1>25, <1>26 DEF CallerStep, CallerCall, pause, resume, setManualDNS, resetManualDNS, DNSOpt
<1>31. QED
  BY <1>29, <1>30, <1>27, <1>28 DEF Next


(* _globalInitMutex keeps a concurrent disconnect() from removing the      *)
(* service that installService is waiting on, for all numbers of callers,  *)
(* DNS values and bounds.                                                  *)
THEOREM InstallSafe == Spec => []InstallNotClobbered
<1>1. Init => SvcInv
  BY DEF Init, SvcInv, LockedPCs, InstallNotClobbered, PausedImpliesTunnelDown
<1>2. TypeOK /\ SvcInv /\ [Next]_vars => SvcInv'
  BY SvcInvStep
<1>3. QED
  BY <1>1, <1>2, TypeCorrect, PTL DEF Spec, SvcInv

(* A paused connect() has no tunnel service installed, for all values of  *)
(* the constants: the pause branch stops on an uninstall error.            *)
THEOREM PauseSafe == Spec => []PausedImpliesTunnelDown
<1>1. Init => SvcInv
  BY DEF Init, SvcInv, LockedPCs, InstallNotClobbered, PausedImpliesTunnelDown
<1>2. TypeOK /\ SvcInv /\ [Next]_vars => SvcInv'
  BY SvcInvStep
<1>3. QED
  BY <1>1, <1>2, TypeCorrect, PTL DEF Spec, SvcInv

-----------------------------------------------------------------------------
(* The restart budget. Every changed DNS value pays for at most one        *)
(* RECONNECTING: the change is either still being checked by its caller   *)
(* (dns_chk), or has set isRestartRequired, or has been consumed by a      *)
(* restart. Several changes may share one pending restart, so the sum is   *)
(* bounded by dnsChanges and not equal to it.                              *)
Pending == {c \in Callers : cpc[c] = "dns_chk"}
RR == IF isRestartRequired THEN 1 ELSE 0
RestartInv == reconnects + RR + Cardinality(Pending) <= dnsChanges
CountVars == <<cpc, isRestartRequired, reconnects, dnsChanges>>

LEMMA PendingFinite == TypeOK => IsFiniteSet(Pending) /\ Cardinality(Pending) \in Nat
<1> SUFFICES ASSUME TypeOK PROVE IsFiniteSet(Pending) /\ Cardinality(Pending) \in Nat
  OBVIOUS
<1>1. IsFiniteSet(Pending)
  BY FS_Subset DEF Pending
<1>2. QED
  BY <1>1, FS_CardinalityType

(* Only restartCheck, setManualDNS/resetManualDNS and the caller's service *)
(* check touch the restart budget; every other step keeps RestartInv.      *)
LEMMA RestartStep == TypeOK /\ RestartInv /\ [Next]_vars => RestartInv'
<1> SUFFICES ASSUME TypeOK, RestartInv, [Next]_vars PROVE RestartInv'
  OBVIOUS
<1> USE DEF TypeOK, TypeState, TypeFlags, TypeCounters
<1> DEFINE n == Cardinality(Pending)
<1>0. IsFiniteSet(Pending) /\ n \in Nat
  BY PendingFinite
<1>1. CASE UNCHANGED CountVars
  <2>1. Pending' = Pending
    BY <1>1 DEF CountVars, Pending
  <2>2. QED
    BY <1>1, <2>1 DEF CountVars, RestartInv, RR
<1>2. CASE restartCheck
  <2>1. Pending' = Pending
    BY <1>2 DEF restartCheck, callerVars, Pending
  <2>2. CASE isRestartRequired
    BY <1>0, <1>2, <2>1, <2>2 DEF restartCheck, RestartInv, RR
  <2>3. CASE ~isRestartRequired
    BY <1>0, <1>2, <2>1, <2>3 DEF restartCheck, RestartInv, RR
  <2>4. QED
    BY <2>2, <2>3
<1>3. ASSUME NEW c \in Callers, NEW a \in DNSOpt, ChangeDNS(c, a) PROVE RestartInv'
  <2>1. CASE a = manualDNS
    BY <1>3, <2>1, <1>1 DEF ChangeDNS, CountVars
  <2>2. CASE a # manualDNS
    <3>a. c \notin Pending /\ Pending' = Pending \cup {c}
      BY <1>3, <2>2 DEF ChangeDNS, CallStart, Pending
    <3>b. Cardinality(Pending') = n + 1
      BY <1>0, <3>a, FS_AddElement
    <3>c. QED
      BY <1>0, <1>3, <2>2, <3>b DEF ChangeDNS, RestartInv, RR
  <2>3. QED
    BY <2>1, <2>2
<1>4. ASSUME NEW c \in Callers, dnsRestartCheck(c) PROVE RestartInv'
  <2>a. c \in Pending /\ Pending' = Pending \ {c}
    BY <1>4 DEF dnsRestartCheck, Pending
  <2>b. Cardinality(Pending') = n - 1
    BY <1>0, <2>a, FS_RemoveElement
  <2>c. QED
    BY <1>0, <1>4, <2>b DEF dnsRestartCheck, RestartInv, RR, histVars
<1>5. ASSUME NEW c \in Callers,
             \/ sendOp(c) \/ disconnectUninstall(c) \/ disconnect(c)
             \/ \E o \in Operation : requireOperation(c, o)
      PROVE RestartInv'
  <2>1. Pending' = Pending
    BY <1>5 DEF sendOp, disconnectUninstall, disconnect, requireOperation,
                CallStart, Pending
  <2>2. UNCHANGED <<isRestartRequired, reconnects, dnsChanges>>
    BY <1>5 DEF sendOp, disconnectUninstall, disconnect, requireOperation,
                adapterVars, histVars
  <2>3. QED
    BY <2>1, <2>2 DEF RestartInv, RR
<1>6. LoopStep => restartCheck \/ UNCHANGED CountVars
  BY DEF LoopStep, CountVars, init, connectStart, connectDisconnectInternal,
         installLock, installExec, installWaitStart, installDone,
         installFailUnlock, installFailResume, installFailUninstall,
         connectCheck, connectUninstall, poll, selectOp, pauseUninstall,
         pauseWait, pauseAfter, restartUninstall, connectExit,
         callerVars, adapterVars, histVars
<1>7. serviceStops \/ UNCHANGED vars => UNCHANGED CountVars
  BY DEF serviceStops, vars, CountVars, callerVars, adapterVars
<1>8. CASE LoopStep
  BY <1>1, <1>2, <1>6, <1>8
<1>9. ASSUME NEW c \in Callers, CallerStep(c) \/ CallerCall(c) PROVE RestartInv'
  <2>1. CASE sendOp(c) \/ disconnectUninstall(c) \/ disconnect(c)
    BY <1>5, <2>1
  <2>2. CASE \E o \in Operation : requireOperation(c, o)
    BY <1>5, <2>2
  <2>3. CASE dnsRestartCheck(c)
    BY <1>4, <2>3
  <2>4. CASE \E a \in DNSOpt : ChangeDNS(c, a)
    BY <1>3, <2>4
  <2>5. QED
    BY <1>9, <2>1, <2>2, <2>3, <2>4, Zenon
       DEF CallerStep, CallerCall, pause, resume, setManualDNS,
           resetManualDNS, DNSOpt, Operation
<1>10. QED
  BY <1>1, <1>7, <1>8, <1>9 DEF Next

(* RestartOnlyOnChange for all values of the constants: the supervision    *)
(* loop sends RECONNECTING at most once per setManualDNS/resetManualDNS    *)
(* call that changed the DNS value.                                        *)
THEOREM RestartSafe == Spec => []RestartOnlyOnChange
<1>1. Init => RestartInv
  <2> SUFFICES ASSUME Init PROVE RestartInv
    OBVIOUS
  <2>1. Pending = {}
    BY DEF Init, Pending
  <2>2. QED
    BY <2>1, FS_EmptySet DEF Init, RestartInv, RR
<1>2. TypeOK /\ RestartInv => RestartOnlyOnChange
  BY PendingFinite DEF RestartInv, RR, RestartOnlyOnChange, TypeOK, TypeCounters
<1>3. TypeOK /\ RestartInv /\ [Next]_vars => RestartInv'
  BY RestartStep
<1>4. QED
  BY <1>1, <1>2, <1>3, TypeCorrect, PTL DEF Spec
====
