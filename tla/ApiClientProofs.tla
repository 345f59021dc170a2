--------------------------- MODULE ApiClientProofs ---------------------------
(* Proofs about the API client model: type correctness for any number of  *)
(* requesters, and, for calls that do not overlap (one requester), the    *)
(* alternate-IP cache invariant, the last-good-first action property and  *)
(* the refinement of the abstract cache ApiFailover.                      *)
EXTENDS ApiClient, SequenceTheorems, TLAPS

USE ApiAssumption

(* A list of the model is a finite sequence no longer than MaxListLen.    *)
LEMMA ListsFacts ==
    ASSUME NEW S, NEW s \in Lists(S)
    PROVE  s \in Seq(S) /\ Len(s) \in 0..MaxListLen
<1>1. PICK n \in 0..MaxListLen : s \in [1..n -> S]
  BY DEF Lists
<1>2. s \in Seq(S)
  BY <1>1, SeqDef
<1>3. Len(s) = n
  BY <1>1, <1>2, LenProperties
<1>4. QED
  BY <1>2, <1>3

(* The entry at a valid index of a list of addresses is an address.        *)
LEMMA ListsElem ==
    ASSUME NEW S, NEW s \in Lists(S), NEW k \in 1..Len(s)
    PROVE  s[k] \in S
BY ListsFacts

(* The loop of SetAlternateIPs keeps exactly the valid addresses of the   *)
(* server's list: an address is in the new list iff the server sent it.   *)
LEMMA ParsedElems ==
    ASSUME NEW list \in Lists(Addr), NEW ipList \in Lists(IPs),
           ParsedList(list, ipList), NEW a \in IPs
    PROVE  a \in Elems(list) <=> a \in Elems(ipList)
<1>0. /\ list \in Seq(Addr) /\ Len(list) \in Nat
      /\ ipList \in Seq(IPs) /\ Len(ipList) \in Nat
  BY ListsFacts
<1>1. PICK e \in [1..Len(ipList) -> 1..Len(list)] :
        /\ {e[j] : j \in 1..Len(ipList)} = {i \in 1..Len(list) : list[i] # Invalid}
        /\ \A j \in 1..Len(ipList) : ipList[j] = list[e[j]]
  BY DEF ParsedList
<1>2. ASSUME a \in Elems(list) PROVE a \in Elems(ipList)
  <2>1. PICK i \in 1..Len(list) : list[i] = a
    BY <1>2 DEF Elems
  <2>2. list[i] # Invalid
    BY <2>1, ApiAssumption
  <2>3. PICK j \in 1..Len(ipList) : e[j] = i
    BY <1>1, <2>2
  <2>4. QED
    BY <1>1, <2>1, <2>3 DEF Elems
<1>3. ASSUME a \in Elems(ipList) PROVE a \in Elems(list)
  <2>1. PICK j \in 1..Len(ipList) : ipList[j] = a
    BY <1>3 DEF Elems
  <2>2. QED
    BY <1>1, <2>1 DEF Elems
<1>4. QED
  BY <1>2, <1>3

-----------------------------------------------------------------------------
(* Type correctness, for any set of requesters.                            *)

(* TypeOK is not inductive by itself: tryAlternate reads the snapshot at  *)
(* idx, which tryDNS set to 1 before entering the loop.                   *)
AltIdx == \A r \in Requesters : rpc[r] = "alt" => idx[r] >= 1

TypeInv == TypeOK /\ AltIdx

LEMMA TypeInit == Init => TypeInv
<1> SUFFICES ASSUME Init PROVE TypeInv
  OBVIOUS
<1>1. << >> \in Lists(IPs)
  BY DEF Lists
<1>2. QED
  BY <1>1 DEF Init, TypeInv, TypeOK, AltIdx, IPOpt, RPCs

(* Each action keeps the variables in their types; tryAlternate reads an  *)
(* entry of the snapshot only at an index the guard checked.              *)
LEMMA TypeStep == TypeInv /\ [Next]_vars => TypeInv'
<1> SUFFICES ASSUME TypeInv, [Next]_vars PROVE TypeInv'
  OBVIOUS
<1> USE DEF TypeInv, TypeOK, AltIdx, IPOpt, RPCs
<1>1. ASSUME NEW r \in Requesters, StartCall(r) PROVE TypeInv'
  BY <1>1 DEF StartCall
<1>2. ASSUME NEW r \in Requesters, tryLastGood(r) PROVE TypeInv'
  BY <1>2 DEF tryLastGood, Send, Succeed, Outcomes, reqVars
<1>3. ASSUME NEW r \in Requesters, tryDNS(r) PROVE TypeInv'
  BY <1>3 DEF tryDNS, Send, Succeed, Outcomes
<1>4. ASSUME NEW r \in Requesters, tryAlternate(r) PROVE TypeInv'
  <2>0. /\ snapIPs[r] \in Seq(IPs)
        /\ Len(snapIPs[r]) \in Nat
        /\ idx[r] \in Nat
    BY ListsFacts
  <2>1. CASE idx[r] > Len(snapIPs[r])
    <3>1. /\ rpc' = [rpc EXCEPT ![r] = "idle"]
          /\ UNCHANGED <<alternateIPs, lastGood, idx, buf, servedBy, kind,
                         snapLast, snapIPs, calls>>
      BY <1>4, <2>0, <2>1 DEF tryAlternate
    <3>2. QED
      BY <3>1
  <2>2. CASE idx[r] <= Len(snapIPs[r])
    <3>1. idx[r] \in 1..Len(snapIPs[r])
      BY <1>4, <2>0, <2>2 DEF tryAlternate
    <3>2. snapIPs[r][idx[r]] \in IPs
      BY <2>0, <3>1
    <3>3. /\ \E out \in Outcomes :
               /\ Send(r, out)
               /\ \/ /\ out = "ok"
                     /\ lastGood' = snapIPs[r][idx[r]]
                     /\ Succeed(r, snapIPs[r][idx[r]])
                     /\ UNCHANGED idx
                  \/ /\ out # "ok"
                     /\ idx' = [idx EXCEPT ![r] = idx[r] + 1]
                     /\ UNCHANGED <<rpc, lastGood, servedBy>>
          /\ UNCHANGED <<alternateIPs, kind, snapLast, snapIPs, calls>>
      BY <1>4, <2>0, <2>2 DEF tryAlternate
    <3>4. PICK out \in Outcomes :
            /\ Send(r, out)
            /\ \/ /\ out = "ok"
                  /\ lastGood' = snapIPs[r][idx[r]]
                  /\ Succeed(r, snapIPs[r][idx[r]])
                  /\ UNCHANGED idx
               \/ /\ out # "ok"
                  /\ idx' = [idx EXCEPT ![r] = idx[r] + 1]
                  /\ UNCHANGED <<rpc, lastGood, servedBy>>
      BY <3>3
    <3>5. buf' \in [Requesters -> {"none", "full", "drained"}]
      BY <3>4 DEF Send
    <3>6. CASE out = "ok"
      <4>1. /\ lastGood' \in IPOpt
            /\ servedBy' \in IPOpt
            /\ idx' = idx
        BY <3>2, <3>4, <3>6 DEF Succeed
      <4>2. rpc' = [rpc EXCEPT ![r] = IF kind[r] = "servers" THEN "set" ELSE "idle"]
        BY <3>4, <3>6 DEF Succeed
      <4>3. rpc' \in [Requesters -> RPCs]
        BY <4>2
      <4>4. AltIdx'
        BY <4>1, <4>2
      <4>5. UNCHANGED <<alternateIPs, kind, snapLast, snapIPs, calls>>
        BY <3>3
      <4>6. QED
        BY <3>5, <4>1, <4>3, <4>4, <4>5
    <3>7. CASE out # "ok"
      <4>1. /\ idx' = [idx EXCEPT ![r] = idx[r] + 1]
            /\ UNCHANGED <<rpc, lastGood, servedBy>>
        BY <3>4, <3>7
      <4>2. /\ idx' \in [Requesters -> Nat]
            /\ AltIdx'
        BY <2>0, <3>1, <4>1
      <4>3. UNCHANGED <<alternateIPs, kind, snapLast, snapIPs, calls>>
        BY <3>3
      <4>4. QED
        BY <3>5, <4>1, <4>2, <4>3
    <3>8. QED
      BY <3>6, <3>7
  <2>3. QED
    BY <2>0, <2>1, <2>2
<1>5. ASSUME NEW r \in Requesters, SetAlternateIPs(r) PROVE TypeInv'
  BY <1>5 DEF SetAlternateIPs, reqVars
<1>6. CASE UNCHANGED vars
  BY <1>6 DEF vars
<1>7. QED
  BY <1>1, <1>2, <1>3, <1>4, <1>5, <1>6 DEF Next

(* Every reachable state of the API client is well typed, for any number  *)
(* of concurrent requesters: in particular the cache only ever holds       *)
(* parsed addresses, and tryAlternate never indexes outside its snapshot.  *)
THEOREM TypeCorrect == Spec => []TypeOK
<1>1. TypeInv => TypeOK
  BY DEF TypeInv
<1>2. QED
  BY TypeInit, TypeStep, <1>1, PTL DEF Spec
-----------------------------------------------------------------------------
(* Calls that do not overlap. With one requester nothing changes the      *)
(* cache between getAlternateIPs and the attempts that use its snapshot,   *)
(* so the snapshot stays fresh (SnapFresh); and the address a request was  *)
(* last served from is the last good IP unless SetAlternateIPs has since   *)
(* retired it (ServedCached). Both are needed: LastGoodInList alone says   *)
(* nothing of the snapshot tryAlternate saves from.                        *)
SnapFresh ==
    \A r \in Requesters :
        /\ rpc[r] \in {"last", "dns", "alt"} => snapIPs[r] = alternateIPs
        /\ rpc[r] = "last" => snapLast[r] = lastGood /\ lastGood # NoIP

ServedCached ==
    servedBy \in IPs =>
        \/ lastGood = servedBy
        \/ /\ servedBy \notin Elems(alternateIPs)
           /\ \A r \in Requesters : rpc[r] # "set"

SeqInv == TypeInv /\ LastGoodInList /\ SnapFresh /\ ServedCached

(* NoIP is never an entry of a list the server sends.                      *)
LEMMA NoIPUnlisted ==
    ASSUME NEW list \in Lists(Addr)
    PROVE  NoIP \notin Elems(list)
BY ListsFacts DEF Elems, Addr

LEMMA SeqInit == Init => SeqInv
<1> SUFFICES ASSUME Init PROVE SeqInv
  OBVIOUS
<1>1. TypeInv
  BY TypeInit
<1>2. QED
  BY <1>1 DEF Init, SeqInv, LastGoodInList, SnapFresh, ServedCached

(* One step of the only requester keeps SeqInv. The case that needs the   *)
(* loop of SetAlternateIPs: the new list keeps the last good IP exactly    *)
(* when the server's list names it (ParsedElems), and otherwise the last   *)
(* good IP is cleared and the address served from is no longer listed.     *)
LEMMA SeqStep ==
    ASSUME NEW r0, Requesters = {r0}, SeqInv, [Next]_vars
    PROVE  SeqInv'
<1> USE DEF SeqInv
<1>1. TypeInv'
  BY TypeStep
<1> USE DEF TypeInv, TypeOK, IPOpt
<1>2. ASSUME NEW r \in Requesters, StartCall(r) PROVE SeqInv'
  <2>1. r = r0 /\ rpc[r] = "idle"
    BY <1>2 DEF StartCall
  <2>2. /\ snapIPs' = [snapIPs EXCEPT ![r] = alternateIPs]
        /\ snapLast' = [snapLast EXCEPT ![r] = lastGood]
        /\ rpc' = [rpc EXCEPT ![r] = IF lastGood # NoIP THEN "last" ELSE "dns"]
        /\ UNCHANGED <<alternateIPs, lastGood, servedBy>>
    BY <1>2 DEF StartCall
  <2>3. SnapFresh'
    BY <2>1, <2>2 DEF SnapFresh
  <2>4. ServedCached'
    BY <2>1, <2>2 DEF ServedCached
  <2>5. QED
    BY <1>1, <2>2, <2>3, <2>4 DEF LastGoodInList
<1>3. ASSUME NEW r \in Requesters, tryLastGood(r) PROVE SeqInv'
  <2>1. r = r0 /\ rpc[r] = "last" /\ snapLast[r] = lastGood /\ lastGood # NoIP
    BY <1>3 DEF tryLastGood, SnapFresh
  <2>2. UNCHANGED <<alternateIPs, lastGood, snapIPs, snapLast>>
    BY <1>3 DEF tryLastGood, reqVars
  <2>3. \/ rpc'[r] \in {"set", "idle"} /\ servedBy' = lastGood
        \/ rpc' = [rpc EXCEPT ![r] = "dns"] /\ UNCHANGED servedBy
    BY <1>3, <2>1 DEF tryLastGood, Succeed
  <2>4. SnapFresh'
    BY <2>1, <2>2, <2>3 DEF SnapFresh
  <2>5. ServedCached'
    BY <2>1, <2>2, <2>3 DEF ServedCached
  <2>6. QED
    BY <1>1, <2>2, <2>4, <2>5 DEF LastGoodInList
<1>4. ASSUME NEW r \in Requesters, tryDNS(r) PROVE SeqInv'
  <2>1. r = r0 /\ rpc[r] = "dns"
    BY <1>4 DEF tryDNS
  <2>2. UNCHANGED <<alternateIPs, snapIPs, snapLast>>
    BY <1>4 DEF tryDNS
  <2>3. \/ /\ rpc'[r] \in {"set", "idle"}
           /\ servedBy' = "dns" /\ lastGood' = NoIP
        \/ /\ rpc' = [rpc EXCEPT ![r] = "alt"]
           /\ UNCHANGED <<lastGood, servedBy>>
    BY <1>4, <2>1 DEF tryDNS, Succeed
  <2>4. SnapFresh'
    BY <2>1, <2>2, <2>3 DEF SnapFresh
  <2>5. ServedCached'
    BY <2>1, <2>2, <2>3 DEF ServedCached
  <2>6. LastGoodInList'
    BY <2>2, <2>3 DEF LastGoodInList
  <2>7. QED
    BY <1>1, <2>4, <2>5, <2>6
<1>5. ASSUME NEW r \in Requesters, tryAlternate(r) PROVE SeqInv'
  <2>1. r = r0 /\ rpc[r] = "alt" /\ snapIPs[r] = alternateIPs
    BY <1>5 DEF tryAlternate, SnapFresh
  <2>2. UNCHANGED <<alternateIPs, snapIPs, snapLast>>
    BY <1>5 DEF tryAlternate
  <2>0. Len(alternateIPs) \in Nat /\ idx[r] \in Nat
    BY ListsFacts
  <2>3. \/ /\ rpc'[r] \in {"set", "idle"}
           /\ idx[r] \in 1..Len(alternateIPs)
           /\ lastGood' = alternateIPs[idx[r]]
           /\ servedBy' = lastGood'
        \/ /\ rpc'[r] \in {"idle", "alt"}
           /\ UNCHANGED <<lastGood, servedBy>>
    BY <1>5, <2>0, <2>1 DEF tryAlternate, Succeed, AltIdx
  <2>4. SnapFresh'
    BY <2>1, <2>2, <2>3 DEF SnapFresh
  <2>5. ServedCached'
    BY <2>1, <2>2, <2>3 DEF ServedCached, Elems
  <2>6. LastGoodInList'
    BY <2>2, <2>3 DEF LastGoodInList, Elems
  <2>7. QED
    BY <1>1, <2>4, <2>5, <2>6
<1>6. ASSUME NEW r \in Requesters, SetAlternateIPs(r) PROVE SeqInv'
  <2>1. r = r0 /\ rpc[r] = "set"
    BY <1>6 DEF SetAlternateIPs
  <2>2. PICK list \in Lists(Addr), ipList \in Lists(IPs) :
          /\ ParsedList(list, ipList)
          /\ alternateIPs' = ipList
          /\ lastGood' = IF lastGood \in Elems(list) THEN lastGood ELSE NoIP
    BY <1>6 DEF SetAlternateIPs
  <2>3. rpc' = [rpc EXCEPT ![r] = "idle"] /\ UNCHANGED servedBy
    BY <1>6 DEF SetAlternateIPs
  <2>4. \A a \in IPs : a \in Elems(list) <=> a \in Elems(ipList)
    BY <2>2, ParsedElems
  <2>5. lastGood \in Elems(list) => lastGood \in IPs
    BY NoIPUnlisted
  <2>6. LastGoodInList'
    BY <2>2, <2>4, <2>5 DEF LastGoodInList
  <2>7. SnapFresh'
    BY <2>1, <2>3 DEF SnapFresh
  <2>8. ServedCached'
    <3>1. servedBy \in IPs => lastGood = servedBy
      BY <2>1 DEF ServedCached
    <3>2. QED
      BY <2>1, <2>2, <2>3, <2>4, <3>1 DEF ServedCached
  <2>9. QED
    BY <1>1, <2>6, <2>7, <2>8
<1>7. CASE UNCHANGED vars
  <2>1. (LastGoodInList /\ SnapFresh /\ ServedCached)'
    BY <1>7 DEF vars, LastGoodInList, SnapFresh, ServedCached
  <2>2. QED
    BY <1>1, <2>1
<1>8. QED
  BY <1>2, <1>3, <1>4, <1>5, <1>6, <1>7 DEF Next

(* With calls that do not overlap, the last good IP is nil or one of the  *)
(* alternate IPs, for any bound on the list length and any number of      *)
(* calls: SetAlternateIPs clears it exactly when the server's new list no *)
(* longer names it, and tryAlternate saves an entry of a fresh snapshot.  *)
THEOREM LastGoodSafe ==
    ASSUME NEW r0, Requesters = {r0}
    PROVE  Spec => []LastGoodInList
<1>1. SeqInv /\ [Next]_vars => SeqInv'
  BY SeqStep
<1>2. SeqInv => LastGoodInList
  BY DEF SeqInv
<1>3. QED
  BY SeqInit, <1>1, <1>2, PTL DEF Spec

(* With calls that do not overlap, a call that starts after a success via *)
(* an alternate IP still advertised starts with that IP (doRequestAPIHost *)
(* tries lastIP first): ServedCached makes it the last good IP.           *)
THEOREM TriedFirst ==
    ASSUME NEW r0, Requesters = {r0}
    PROVE  Spec => LastGoodTriedFirst
<1>1. SeqInv /\ [Next]_vars => [StartsFromLastGood]_vars
  <2> SUFFICES ASSUME SeqInv, [Next]_vars PROVE [StartsFromLastGood]_vars
    OBVIOUS
  <2> USE DEF SeqInv, TypeInv, TypeOK
  <2>1. ASSUME NEW r \in Requesters, StartCall(r) PROVE StartsFromLastGood
    <3>1. /\ snapLast' = [snapLast EXCEPT ![r] = lastGood]
          /\ rpc' = [rpc EXCEPT ![r] = IF lastGood # NoIP THEN "last" ELSE "dns"]
          /\ r = r0
      BY <2>1 DEF StartCall
    <3>2. servedBy \in IPs /\ servedBy \in Elems(alternateIPs)
          => lastGood = servedBy /\ lastGood # NoIP
      BY DEF ServedCached
    <3>3. QED
      BY <3>1, <3>2 DEF StartsFromLastGood
  <2>2. ASSUME NEW r \in Requesters,
               tryLastGood(r) \/ tryDNS(r) \/ tryAlternate(r) \/ SetAlternateIPs(r)
        PROVE  StartsFromLastGood
    <3>1. r = r0 /\ rpc[r] # "idle"
      BY <2>2 DEF tryLastGood, tryDNS, tryAlternate, SetAlternateIPs
    <3>2. QED
      BY <3>1 DEF StartsFromLastGood
  <2>3. CASE UNCHANGED vars
    BY <2>3 DEF vars
  <2>4. QED
    BY <2>1, <2>2, <2>3 DEF Next
<1>2. QED
  BY SeqInit, SeqStep, <1>1, PTL DEF Spec, LastGoodTriedFirst

(* With calls that do not overlap, the client implements the abstract     *)
(* cache of ApiFailover under the mapping list <- alternateIPs, served <- *)
(* servedBy: every success is one ServeLastGood, ServeDNS or               *)
(* ServeAlternate step, SetAlternateIPs is one InstallList step, and every *)
(* other step leaves the cache alone.                                      *)
THEOREM FailoverRefined ==
    ASSUME NEW r0, Requesters = {r0}
    PROVE  Spec => FailoverSpec
<1>1. Init => Failover!Init
  BY DEF Init, Failover!Init
<1>2. SeqInv /\ [Next]_vars => [Failover!Next]_Failover!avars
  <2> SUFFICES ASSUME SeqInv, [Next]_vars
               PROVE  [Failover!Next]_Failover!avars
    OBVIOUS
  <2> USE DEF SeqInv, TypeInv, TypeOK, IPOpt
  <2>0. UNCHANGED <<alternateIPs, lastGood, servedBy>>
        => UNCHANGED Failover!avars
    BY DEF Failover!avars
  <2>1. ASSUME NEW r \in Requesters, StartCall(r)
        PROVE  [Failover!Next]_Failover!avars
    BY <2>0, <2>1 DEF StartCall
  <2>2. ASSUME NEW r \in Requesters, tryLastGood(r)
        PROVE  [Failover!Next]_Failover!avars
    <3>1. snapLast[r] = lastGood /\ lastGood # NoIP
      BY <2>2 DEF tryLastGood, SnapFresh
    <3>2. \/ servedBy' = snapLast[r] /\ UNCHANGED <<alternateIPs, lastGood>>
          \/ UNCHANGED <<alternateIPs, lastGood, servedBy>>
      BY <2>2 DEF tryLastGood, Succeed
    <3>3. QED
      BY <2>0, <3>1, <3>2 DEF Failover!Next, Failover!ServeLastGood
  <2>3. ASSUME NEW r \in Requesters, tryDNS(r)
        PROVE  [Failover!Next]_Failover!avars
    <3>1. \/ servedBy' = "dns" /\ lastGood' = NoIP /\ UNCHANGED alternateIPs
          \/ UNCHANGED <<alternateIPs, lastGood, servedBy>>
      BY <2>3 DEF tryDNS, Succeed
    <3>2. QED
      BY <2>0, <3>1 DEF Failover!Next, Failover!ServeDNS
  <2>4. ASSUME NEW r \in Requesters, tryAlternate(r)
        PROVE  [Failover!Next]_Failover!avars
    <3>1. rpc[r] = "alt" /\ snapIPs[r] = alternateIPs
      BY <2>4 DEF tryAlternate, SnapFresh
    <3>2. Len(alternateIPs) \in Nat /\ idx[r] \in Nat
      BY ListsFacts
    <3>3. \/ /\ idx[r] \in 1..Len(alternateIPs)
             /\ lastGood' = alternateIPs[idx[r]]
             /\ servedBy' = alternateIPs[idx[r]]
             /\ UNCHANGED alternateIPs
          \/ UNCHANGED <<alternateIPs, lastGood, servedBy>>
      BY <2>4, <3>1, <3>2 DEF tryAlternate, Succeed, AltIdx
    <3>4. QED
      BY <2>0, <3>3 DEF Failover!Next, Failover!ServeAlternate, Failover!AbsElems
  <2>5. ASSUME NEW r \in Requesters, SetAlternateIPs(r)
        PROVE  [Failover!Next]_Failover!avars
    <3>1. PICK list \in Lists(Addr), ipList \in Lists(IPs) :
            /\ ParsedList(list, ipList)
            /\ alternateIPs' = ipList
            /\ lastGood' = IF lastGood \in Elems(list) THEN lastGood ELSE NoIP
      BY <2>5 DEF SetAlternateIPs
    <3>2. lastGood \in Elems(list) <=> lastGood \in Elems(ipList)
      <4>1. CASE lastGood = NoIP
        BY <4>1, NoIPUnlisted, ListsFacts DEF Elems
      <4>2. CASE lastGood \in IPs
        BY <3>1, <4>2, ParsedElems
      <4>3. QED
        BY <4>1, <4>2
    <3>3. ipList \in Failover!AbsLists
      BY DEF Lists, Failover!AbsLists
    <3>4. UNCHANGED servedBy
      BY <2>5 DEF SetAlternateIPs
    <3>5. Failover!InstallList
      BY <3>1, <3>2, <3>3, <3>4 DEF Failover!InstallList, Failover!AbsElems, Elems
    <3>6. QED
      BY <3>5 DEF Failover!Next
  <2>6. CASE UNCHANGED vars
    BY <2>0, <2>6 DEF vars
  <2>7. QED
    BY <2>1, <2>2, <2>3, <2>4, <2>5, <2>6 DEF Next
<1>3. QED
  BY SeqInit, SeqStep, <1>1, <1>2, PTL DEF Spec, FailoverSpec, Failover!Spec
=============================================================================
