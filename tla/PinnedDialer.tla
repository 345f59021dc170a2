----------------------------- MODULE PinnedDialer -----------------------------
(* The dialer makeDialer returns for the api and update hosts: tls.Dial,   *)
(* then the SHA-256 of each peer certificate's public key against the      *)
(* pinned hashes; a recover() in a deferred function catches any panic.   *)
(* One dial is modelled, for every certificate chain of bounded length.    *)
EXTENDS Naturals, Sequences

CONSTANTS
    Hashes,         \* base64 SHA-256 values a public key can have
    MaxChain        \* longest peer certificate chain

ASSUME DialerAssumption == MaxChain \in Nat \ {0}

\* A peer certificate: whether x509.MarshalPKIXPublicKey succeeds on its
\* key, and the hash of the DER it returns. A handshake that passed CA
\* verification has at least one peer certificate.
Cert == [ok : BOOLEAN, hash : Hashes]
Chains == UNION {[1..n -> Cert] : n \in 1..MaxChain}

VARIABLES
    pins,       \* certHashes (APIIvpnHashes or UpdateIvpnHashes)
    chain,      \* connstate.PeerCertificates
    pc,         \* "dial", "loop", "done"
    i,          \* loop index over the chain
    lastErr,    \* a marshalling error was met
    connOpen,   \* the TLS connection c is open
    retConn,    \* the returned net.Conn is c (not nil)
    retErr,     \* the returned error: "none", "dial", "pin", "pinWrapped"
    panicked    \* a panic was recovered

vars == <<pins, chain, pc, i, lastErr, connOpen, retConn, retErr, panicked>>

TypeOK ==
    /\ pins \subseteq Hashes
    /\ chain \in Chains
    /\ pc \in {"dial", "loop", "done"}
    /\ i \in 1..(MaxChain + 1)
    /\ lastErr \in BOOLEAN
    /\ connOpen \in BOOLEAN
    /\ retConn \in BOOLEAN
    /\ retErr \in {"none", "dial", "pin", "pinWrapped"}
    /\ panicked \in BOOLEAN

\* findPinnedKey
findPinnedKey(certHashes, h) == h \in certHashes

Return(conn, err) ==
    /\ pc' = "done"
    /\ retConn' = conn
    /\ retErr' = err

-----------------------------------------------------------------------------
(* tls.Dial with ServerName and CA verification: an error returns (c, err) *)
(* with c nil; otherwise the handshake is done and c is open.              *)
dial ==
    /\ pc = "dial"
    /\ \/ /\ Return(FALSE, "dial")
          /\ UNCHANGED <<connOpen, pc, i>>
       \/ /\ connOpen' = TRUE
          /\ pc' = "loop"
          /\ UNCHANGED <<retConn, retErr>>
    /\ UNCHANGED <<pins, chain, i, lastErr, panicked>>

(* Mutant: only the leaf certificate is checked. *)
checkCertLeafOnly ==
    /\ pc = "loop"
    /\ \/ /\ i > Len(chain) \/ i > 1
          /\ Return(FALSE, IF lastErr THEN "pinWrapped" ELSE "pin")
          /\ UNCHANGED <<i, lastErr>>
       \/ /\ i <= Len(chain) /\ i = 1
          /\ ~chain[i].ok
          /\ lastErr' = TRUE
          /\ i' = i + 1
          /\ UNCHANGED <<pc, retConn, retErr>>
       \/ /\ i <= Len(chain) /\ i = 1
          /\ chain[i].ok
          /\ \/ findPinnedKey(pins, chain[i].hash) /\ Return(TRUE, "none")
                                                  /\ UNCHANGED i
             \/ ~findPinnedKey(pins, chain[i].hash) /\ i' = i + 1
                                                   /\ UNCHANGED <<pc, retConn, retErr>>
          /\ UNCHANGED lastErr
    /\ UNCHANGED <<pins, chain, connOpen, panicked>>

(* One iteration over connstate.PeerCertificates: a marshalling error is   *)
(* kept and the loop goes on; a pinned hash returns (c, nil). After the    *)
(* last certificate (nil, error) is returned and c is left open.           *)
checkCert ==
    /\ pc = "loop"
    /\ \/ /\ i > Len(chain)
          /\ Return(FALSE, IF lastErr THEN "pinWrapped" ELSE "pin")
          /\ UNCHANGED <<i, lastErr>>
       \/ /\ i <= Len(chain)
          /\ ~chain[i].ok
          /\ lastErr' = TRUE
          /\ i' = i + 1
          /\ UNCHANGED <<pc, retConn, retErr>>
       \/ /\ i <= Len(chain)
          /\ chain[i].ok
          /\ \/ findPinnedKey(pins, chain[i].hash) /\ Return(TRUE, "none")
                                                  /\ UNCHANGED i
             \/ ~findPinnedKey(pins, chain[i].hash) /\ i' = i + 1
                                                   /\ UNCHANGED <<pc, retConn, retErr>>
          /\ UNCHANGED lastErr
    /\ UNCHANGED <<pins, chain, connOpen, panicked>>

(* A runtime panic inside the dial (tls.Dial, ConnectionState or           *)
(* MarshalPKIXPublicKey on a malformed peer): the deferred recover() logs  *)
(* it, and the function returns its unnamed results' zero values.          *)
recoverPanic ==
    /\ pc \in {"dial", "loop"}
    /\ panicked' = TRUE
    /\ Return(FALSE, "none")
    /\ UNCHANGED <<pins, chain, i, lastErr, connOpen>>

Init ==
    /\ pins \in SUBSET Hashes
    /\ chain \in Chains
    /\ pc = "dial"
    /\ i = 1
    /\ lastErr = FALSE
    /\ connOpen = FALSE
    /\ retConn = FALSE
    /\ retErr = "none"
    /\ panicked = FALSE

Next == dial \/ checkCert \/ recoverPanic

Spec == Init /\ [][Next]_vars

-----------------------------------------------------------------------------
(* Properties *)

\* Reference: the chain holds a certificate whose key marshals and whose
\* hash is pinned (spec 4.4, step 3).
PinMatch(ch, ps) == \E k \in 1..Len(ch) : ch[k].ok /\ ch[k].hash \in ps

(* Without a panic, the dialer hands the connection to the transport       *)
(* exactly when some certificate of the chain (leaf or intermediate) has a *)
(* pinned public key, and otherwise returns an error that carries the last *)
(* marshalling error when one occurred.                                    *)
PinDecision ==
    (pc = "done" /\ ~panicked /\ retErr # "dial") =>
        /\ retConn = PinMatch(chain, pins)
        /\ ~retConn => retErr = IF \E k \in 1..Len(chain) : ~chain[k].ok
                                   THEN "pinWrapped" ELSE "pin"

(* A connection the pin check rejects (no pinned key in the chain, the    *)
(* returns after the loop) is closed (spec 4.4, step 4: "close and fail"). *)
RejectCloses ==
    (pc = "done" /\ retErr \in {"pin", "pinWrapped"}) => ~connOpen

=============================================================================
