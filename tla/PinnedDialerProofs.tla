------------------------- MODULE PinnedDialerProofs -------------------------
(* Proofs about the pinned dialer model, for every pin set, every chain    *)
(* and every bound on the chain length.                                    *)
EXTENDS PinnedDialer, SequenceTheorems, TLAPS

USE DialerAssumption

(* A peer chain of the model is a non-empty sequence of certificates no    *)
(* longer than MaxChain.                                                   *)
LEMMA ChainFacts ==
    ASSUME NEW ch \in Chains
    PROVE  ch \in Seq(Cert) /\ Len(ch) \in 1..MaxChain
<1>1. PICK n \in 1..MaxChain : ch \in [1..n -> Cert]
  BY DEF Chains
<1>2. ch \in Seq(Cert)
  BY <1>1, SeqDef
<1>3. Len(ch) = n
  BY <1>1, <1>2, LenProperties
<1>4. QED
  BY <1>2, <1>3

(* What the loop over connstate.PeerCertificates has seen before index n: *)
(* no certificate with a pinned key, and whether a key failed to marshal. *)
NoPinBefore(n) == \A k \in 1..(n - 1) : ~(chain[k].ok /\ chain[k].hash \in pins)
ErrBefore(n) == \E k \in 1..(n - 1) : ~chain[k].ok

(* The type invariant in two parts (values and flags), which the SMT      *)
(* backend proves separately.                                              *)
TypeVal ==
    /\ pins \subseteq Hashes
    /\ chain \in Chains
    /\ pc \in {"dial", "loop", "done"}
    /\ i \in 1..(MaxChain + 1)
    /\ retErr \in {"none", "dial", "pin", "pinWrapped"}

TypeFlag ==
    /\ lastErr \in BOOLEAN
    /\ connOpen \in BOOLEAN
    /\ retConn \in BOOLEAN
    /\ panicked \in BOOLEAN

(* The loop invariant of makeDialer's check: while dialling or looping,    *)
(* the certificates before i are unpinned (LoopIdx) and lastErr records    *)
(* whether one of them failed to marshal (LoopErr).                        *)
LoopIdx ==
    pc \in {"dial", "loop"} =>
        /\ i \in 1..(Len(chain) + 1)
        /\ NoPinBefore(i)
        /\ (pc = "dial" => i = 1)

LoopErr == pc \in {"dial", "loop"} => (lastErr <=> ErrBefore(i))

ChainInv == chain \in Seq(Cert) /\ Len(chain) \in 1..MaxChain

DialInv == TypeVal /\ TypeFlag /\ ChainInv /\ LoopIdx /\ LoopErr /\ PinDecision

LEMMA DialInit == Init => DialInv
<1> SUFFICES ASSUME Init PROVE DialInv
  OBVIOUS
<1>1. ChainInv
  BY ChainFacts DEF Init, ChainInv
<1>2. TypeVal
  BY DEF Init, TypeVal
<1>3. TypeFlag
  BY DEF Init, TypeFlag
<1>4. LoopIdx
  BY <1>1 DEF Init, ChainInv, LoopIdx, NoPinBefore
<1>5. LoopErr
  BY DEF Init, LoopErr, ErrBefore
<1>6. PinDecision
  BY DEF Init, PinDecision
<1>7. QED
  BY <1>1, <1>2, <1>3, <1>4, <1>5, <1>6 DEF DialInv

(* Each step of the dial keeps DialInv, one conjunct at a time. The chain  *)
(* and the pins never change; i only grows past a certificate that is not  *)
(* pinned; a return at i = Len(chain) + 1 has seen every certificate.      *)
LEMMA DialStep == DialInv /\ [Next]_vars => DialInv'
<1> SUFFICES ASSUME DialInv, [Next]_vars PROVE DialInv'
  OBVIOUS
<1> USE DEF DialInv, ChainInv
<1>1. ChainInv'
  BY DEF Next, dial, checkCert, recoverPanic, vars
<1>2. TypeVal'
  BY DEF TypeVal, LoopIdx, Next, dial, checkCert, recoverPanic, Return, vars
<1>3. TypeFlag'
  BY DEF TypeFlag, Next, dial, checkCert, recoverPanic, Return, vars
<1>4. LoopIdx'
  BY DEF TypeVal, LoopIdx, NoPinBefore, Next, dial, checkCert, recoverPanic,
         Return, findPinnedKey, vars
<1>5. LoopErr'
  BY DEF TypeVal, LoopIdx, LoopErr, ErrBefore, Next, dial, checkCert,
         recoverPanic, Return, vars
<1>6. PinDecision'
  <2>1. CASE checkCert /\ i > Len(chain)
    <3>1. i = Len(chain) + 1
      BY <2>1 DEF TypeVal, LoopIdx, checkCert
    <3>2. ~PinMatch(chain, pins)
      BY <2>1, <3>1 DEF LoopIdx, NoPinBefore, PinMatch, checkCert
    <3>3. lastErr <=> \E k \in 1..Len(chain) : ~chain[k].ok
      BY <2>1, <3>1 DEF LoopErr, ErrBefore, checkCert
    <3>4. /\ pc' = "done" /\ retConn' = FALSE
          /\ retErr' = IF lastErr THEN "pinWrapped" ELSE "pin"
          /\ UNCHANGED <<chain, pins, panicked>>
      BY <2>1 DEF TypeVal, checkCert, Return
    <3>5. QED
      BY <3>2, <3>3, <3>4, Zenon DEF PinDecision, PinMatch
  <2>2. CASE checkCert /\ i <= Len(chain)
    <3>1. i \in 1..Len(chain)
      BY <2>2 DEF TypeVal, LoopIdx, checkCert
    <3>2. CASE chain[i].ok /\ chain[i].hash \in pins
      <4>1. PinMatch(chain, pins)
        BY <3>1, <3>2 DEF PinMatch
      <4>2. pc' = "done" /\ retConn' = TRUE /\ UNCHANGED <<chain, pins>>
        BY <2>2, <3>1, <3>2 DEF TypeVal, checkCert, Return, findPinnedKey
      <4>3. QED
        BY <4>1, <4>2 DEF PinDecision
    <3>0. ~(i > Len(chain))
      BY <3>1 DEF TypeVal
    <3>3. CASE ~chain[i].ok
      <4>1. pc' = "loop"
        BY <2>2, <3>0, <3>3, Zenon DEF checkCert
      <4>2. QED
        BY <4>1 DEF PinDecision
    <3>4. CASE chain[i].ok /\ chain[i].hash \notin pins
      <4>1. pc' = "loop"
        BY <2>2, <3>0, <3>4, Zenon DEF checkCert, findPinnedKey
      <4>2. QED
        BY <4>1 DEF PinDecision
    <3>5. QED
      BY <3>2, <3>3, <3>4
  <2>3. CASE dial
    BY <2>3 DEF dial, Return, PinDecision
  <2>4. CASE recoverPanic
    BY <2>4 DEF recoverPanic, Return, PinDecision
  <2>5. CASE UNCHANGED vars
    BY <2>5 DEF vars, PinDecision, PinMatch
  <2>6. QED
    BY <2>1, <2>2, <2>3, <2>4, <2>5 DEF TypeVal, Next
<1>7. QED
  BY <1>1, <1>2, <1>3, <1>4, <1>5, <1>6

(* PinDecision for all pin sets and chain lengths: without a recovered     *)
(* panic, a completed handshake is handed to the transport exactly when a  *)
(* certificate of the chain has a pinned key, and a rejection reports the  *)
(* last marshalling error when there was one.                              *)
THEOREM PinSafe == Spec => []PinDecision
<1>1. Init => DialInv
  BY DialInit
<1>2. DialInv /\ [Next]_vars => DialInv'
  BY DialStep
<1>3. DialInv => PinDecision
  BY DEF DialInv
<1>4. QED
  BY <1>1, <1>2, <1>3, PTL DEF Spec
=============================================================================
