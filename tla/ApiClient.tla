------------------------------ MODULE ApiClient ------------------------------
(* The IVPN API client (package api): the alternate-IP list and the       *)
(* last-good IP, guarded by API.mutex, and the failover of api-host        *)
(* requests (doRequestAPIHost): last-good IP, then DNS, then every         *)
(* alternate IP of the snapshot. Several goroutines make requests at once; *)
(* DownloadServersList installs a new list when its request succeeds.      *)
EXTENDS Naturals, Sequences

CONSTANTS
    Requesters,     \* goroutines calling the API concurrently
    IPs,            \* valid addresses a server list may advertise
    NoIP,           \* the nil net.IP
    Invalid,        \* a list entry net.ParseIP rejects
    MaxListLen,     \* longest advertised list
    MaxCalls        \* bound on API calls in a behaviour

ASSUME ApiAssumption ==
    /\ NoIP \notin IPs
    /\ Invalid \notin IPs \cup {NoIP}
    /\ MaxListLen \in Nat
    /\ MaxCalls \in Nat
    /\ IPs \cap {"dns", "none"} = {}

VARIABLES
    alternateIPs,   \* API.alternateIPs
    lastGood,       \* API.lastGoodAlternateIP
    rpc,            \* where each requester is in its call
    kind,           \* "call" (any endpoint) or "servers" (DownloadServersList)
    snapLast,       \* lastIP read by getAlternateIPs
    snapIPs,        \* ips read by getAlternateIPs
    idx,            \* index of the alternate IP being tried
    buf,            \* the request's bodyBuffer: "none", "full", "drained"
    calls,          \* API calls made so far
    servedBy        \* where the last successful request was served from

vars == <<alternateIPs, lastGood, rpc, kind, snapLast, snapIPs, idx, buf,
          calls, servedBy>>
reqVars == <<kind, snapLast, snapIPs, idx>>

Addr == IPs \cup {Invalid}
IPOpt == IPs \cup {NoIP}
Lists(S) == UNION {[1..n -> S] : n \in 0..MaxListLen}
Elems(s) == {s[i] : i \in 1..Len(s)}
(* The loop of SetAlternateIPs: ipList holds the entries of list that     *)
(* net.ParseIP accepts, in their order; e maps each kept entry back to    *)
(* its position in list.                                                  *)
ParsedList(list, ipList) ==
    \E e \in [1..Len(ipList) -> 1..Len(list)] :
        /\ \A j, k \in 1..Len(ipList) : j < k => e[j] < e[k]
        /\ {e[j] : j \in 1..Len(ipList)} = {i \in 1..Len(list) : list[i] # Invalid}
        /\ \A j \in 1..Len(ipList) : ipList[j] = list[e[j]]
RPCs == {"idle", "last", "dns", "alt", "set"}
\* The network's answer to one client.Do: success, failure before the
\* request was written (dial error, pin miss), failure after it was written
\* (timeout, reset) once the transport has read the body.
Outcomes == {"ok", "nodial", "sent"}

TypeOK ==
    /\ alternateIPs \in Lists(IPs)
    /\ lastGood \in IPOpt
    /\ rpc \in [Requesters -> RPCs]
    /\ kind \in [Requesters -> {"call", "servers"}]
    /\ snapLast \in [Requesters -> IPOpt]
    /\ snapIPs \in [Requesters -> Lists(IPs)]
    /\ idx \in [Requesters -> Nat]
    /\ buf \in [Requesters -> {"none", "full", "drained"}]
    /\ calls \in 0..MaxCalls
    /\ servedBy \in IPOpt \cup {"dns", "none"}

(* The requester is about to call client.Do. *)
Attempting(r) ==
    \/ rpc[r] \in {"last", "dns"}
    \/ rpc[r] = "alt" /\ idx[r] <= Len(snapIPs[r])

-----------------------------------------------------------------------------
(* client.Do reads bodyBuffer once it has written the request: a buffer    *)
(* drained by an earlier attempt stays drained (bytes.Buffer is not reset  *)
(* and newRequest reuses it).                                              *)
Send(r, out) ==
    buf' = [buf EXCEPT ![r] = IF out = "sent" /\ buf[r] = "full"
                                 THEN "drained" ELSE buf[r]]

(* A successful call: requestRaw returns the body; DownloadServersList     *)
(* goes on to SetAlternateIPs.                                             *)
Succeed(r, via) ==
    /\ rpc' = [rpc EXCEPT ![r] = IF kind[r] = "servers" THEN "set" ELSE "idle"]
    /\ servedBy' = via

(* requestRaw -> doRequest -> doRequestAPIHost: getAlternateIPs takes the  *)
(* snapshot under the mutex; a request with a JSON body marshals it into   *)
(* bodyBuffer. DownloadServersList is a GET with no body.                  *)
StartCall(r) ==
    /\ rpc[r] = "idle"
    /\ calls < MaxCalls
    /\ calls' = calls + 1
    /\ \E k \in {"call", "servers"}, hasBody \in BOOLEAN :
          /\ kind' = [kind EXCEPT ![r] = k]
          /\ buf' = [buf EXCEPT ![r] =
                        IF hasBody /\ k = "call" THEN "full" ELSE "none"]
    /\ snapLast' = [snapLast EXCEPT ![r] = lastGood]
    /\ snapIPs' = [snapIPs EXCEPT ![r] = alternateIPs]
    /\ rpc' = [rpc EXCEPT ![r] = IF lastGood # NoIP THEN "last" ELSE "dns"]
    /\ UNCHANGED <<alternateIPs, lastGood, idx, servedBy>>

(* Access the API by the last good IP; on success return and leave it.    *)
tryLastGood(r) ==
    /\ rpc[r] = "last"
    /\ \E out \in Outcomes :
          /\ Send(r, out)
          /\ \/ out = "ok" /\ Succeed(r, snapLast[r])
             \/ out # "ok" /\ rpc' = [rpc EXCEPT ![r] = "dns"]
                           /\ UNCHANGED servedBy
    /\ UNCHANGED <<alternateIPs, lastGood, reqVars, calls>>

(* Mutant: a DNS success does not reset the last good IP. *)
tryDNSNoClear(r) ==
    /\ rpc[r] = "dns"
    /\ \E out \in Outcomes :
          /\ Send(r, out)
          /\ \/ /\ out = "ok"
                /\ Succeed(r, "dns")
                /\ UNCHANGED <<idx, lastGood>>
             \/ /\ out # "ok"
                /\ rpc' = [rpc EXCEPT ![r] = "alt"]
                /\ idx' = [idx EXCEPT ![r] = 1]
                /\ UNCHANGED <<lastGood, servedBy>>
    /\ UNCHANGED <<alternateIPs, kind, snapLast, snapIPs, calls>>

(* Access the API by host DNS; success saves nil as the last good IP.      *)
tryDNS(r) ==
    /\ rpc[r] = "dns"
    /\ \E out \in Outcomes :
          /\ Send(r, out)
          /\ \/ /\ out = "ok"
                /\ lastGood' = NoIP
                /\ Succeed(r, "dns")
                /\ UNCHANGED idx
             \/ /\ out # "ok"
                /\ rpc' = [rpc EXCEPT ![r] = "alt"]
                /\ idx' = [idx EXCEPT ![r] = 1]
                /\ UNCHANGED <<lastGood, servedBy>>
    /\ UNCHANGED <<alternateIPs, kind, snapLast, snapIPs, calls>>

(* Mutant: when every alternate IP failed, the loop starts over. *)
tryAlternateStartOver(r) ==
    /\ rpc[r] = "alt"
    /\ \/ /\ idx[r] > Len(snapIPs[r])
          /\ idx' = [idx EXCEPT ![r] = 1]
          /\ UNCHANGED <<rpc, lastGood, buf, servedBy>>
       \/ /\ idx[r] <= Len(snapIPs[r])
          /\ \E out \in Outcomes :
                /\ Send(r, out)
                /\ \/ /\ out = "ok"
                      /\ lastGood' = snapIPs[r][idx[r]]
                      /\ Succeed(r, snapIPs[r][idx[r]])
                      /\ UNCHANGED idx
                   \/ /\ out # "ok"
                      /\ idx' = [idx EXCEPT ![r] = idx[r] + 1]
                      /\ UNCHANGED <<rpc, lastGood, servedBy>>
    /\ UNCHANGED <<alternateIPs, kind, snapLast, snapIPs, calls>>

(* Mutant: a successful alternate IP is not saved as the last good IP. *)
tryAlternateNoSave(r) ==
    /\ rpc[r] = "alt"
    /\ \/ /\ idx[r] > Len(snapIPs[r])
          /\ rpc' = [rpc EXCEPT ![r] = "idle"]
          /\ UNCHANGED <<lastGood, idx, buf, servedBy>>
       \/ /\ idx[r] <= Len(snapIPs[r])
          /\ \E out \in Outcomes :
                /\ Send(r, out)
                /\ \/ /\ out = "ok"
                      /\ Succeed(r, snapIPs[r][idx[r]])
                      /\ UNCHANGED <<lastGood, idx>>
                   \/ /\ out # "ok"
                      /\ idx' = [idx EXCEPT ![r] = idx[r] + 1]
                      /\ UNCHANGED <<rpc, lastGood, servedBy>>
    /\ UNCHANGED <<alternateIPs, kind, snapLast, snapIPs, calls>>

(* Try every alternate IP of the snapshot in order; the first success is   *)
(* saved as the last good IP; when all fail the DNS error is returned.     *)
tryAlternate(r) ==
    /\ rpc[r] = "alt"
    /\ \/ /\ idx[r] > Len(snapIPs[r])
          /\ rpc' = [rpc EXCEPT ![r] = "idle"]
          /\ UNCHANGED <<lastGood, idx, buf, servedBy>>
       \/ /\ idx[r] <= Len(snapIPs[r])
          /\ \E out \in Outcomes :
                /\ Send(r, out)
                /\ \/ /\ out = "ok"
                      /\ lastGood' = snapIPs[r][idx[r]]
                      /\ Succeed(r, snapIPs[r][idx[r]])
                      /\ UNCHANGED idx
                   \/ /\ out # "ok"
                      /\ idx' = [idx EXCEPT ![r] = idx[r] + 1]
                      /\ UNCHANGED <<rpc, lastGood, servedBy>>
    /\ UNCHANGED <<alternateIPs, kind, snapLast, snapIPs, calls>>

(* Mutant: SetAlternateIPs that keeps the old last good IP. *)
SetAlternateIPsNoClear(r) ==
    /\ rpc[r] = "set"
    /\ \E list \in Lists(Addr), ipList \in Lists(IPs) :
          /\ ParsedList(list, ipList)
          /\ alternateIPs' = ipList
    /\ rpc' = [rpc EXCEPT ![r] = "idle"]
    /\ UNCHANGED <<lastGood, reqVars, buf, calls, servedBy>>

(* Mutant: SetAlternateIPs without the net.ParseIP nil check. *)
SetAlternateIPsKeepInvalid(r) ==
    /\ rpc[r] = "set"
    /\ \E list \in Lists(Addr) :
          /\ alternateIPs' = list
          /\ lastGood' = IF lastGood \in Elems(list) THEN lastGood ELSE NoIP
    /\ rpc' = [rpc EXCEPT ![r] = "idle"]
    /\ UNCHANGED <<reqVars, buf, calls, servedBy>>

(* DownloadServersList -> SetAlternateIPs(servers.Config.API.IPAddresses): *)
(* under the mutex, drop unparsable entries, clear the last good IP when   *)
(* the new list does not hold it, and install the list.                    *)
SetAlternateIPs(r) ==
    /\ rpc[r] = "set"
    /\ \E list \in Lists(Addr), ipList \in Lists(IPs) :
          /\ ParsedList(list, ipList)
          /\ alternateIPs' = ipList
          /\ lastGood' = IF lastGood \in Elems(list) THEN lastGood ELSE NoIP
    /\ rpc' = [rpc EXCEPT ![r] = "idle"]
    /\ UNCHANGED <<reqVars, buf, calls, servedBy>>

Init ==
    /\ alternateIPs = << >>
    /\ lastGood = NoIP
    /\ rpc = [r \in Requesters |-> "idle"]
    /\ kind = [r \in Requesters |-> "call"]
    /\ snapLast = [r \in Requesters |-> NoIP]
    /\ snapIPs = [r \in Requesters |-> << >>]
    /\ idx = [r \in Requesters |-> 0]
    /\ buf = [r \in Requesters |-> "none"]
    /\ calls = 0
    /\ servedBy = "none"

Next ==
    \E r \in Requesters :
        \/ StartCall(r) \/ tryLastGood(r) \/ tryDNS(r) \/ tryAlternate(r)
        \/ SetAlternateIPs(r)

(* A goroutine inside a call keeps running it, and http.Client.Timeout    *)
(* ends every client.Do: each step of a started call eventually happens.  *)
(* Starting a call is up to the daemon, so StartCall is not fair.         *)
Step(r) ==
    tryLastGood(r) \/ tryDNS(r) \/ tryAlternate(r) \/ SetAlternateIPs(r)

Fairness == \A r \in Requesters : WF_vars(Step(r))

Spec == Init /\ [][Next]_vars /\ Fairness

-----------------------------------------------------------------------------
(* Properties *)

(* The last good IP is nil or one of the alternate IPs (spec 9,           *)
(* "Alternate-IP cache invariant": SetAlternateIPs clears it when the new  *)
(* list no longer holds it, so no request is pinned to a retired host).   *)
LastGoodInList ==
    lastGood = NoIP \/ lastGood \in Elems(alternateIPs)

(* After a request succeeded via an alternate IP that is still advertised, *)
(* the next call tries that IP first (spec 8: "after a first success via   *)
(* a given IP, the next call tries that IP first").                        *)
StartsFromLastGood ==
    \A r \in Requesters :
        (/\ rpc[r] = "idle" /\ rpc'[r] # "idle"
         /\ servedBy \in IPs /\ servedBy \in Elems(alternateIPs))
        => rpc'[r] = "last" /\ snapLast'[r] = servedBy

LastGoodTriedFirst == [][StartsFromLastGood]_vars

(* Every attempt of doRequestAPIHost sends the request's whole JSON body:  *)
(* a failover never sends an empty body in place of the request.          *)
BodyIntact ==
    \A r \in Requesters : Attempting(r) => buf[r] # "drained"

(* Every call of doRequestAPIHost returns: the failover tries finitely     *)
(* many addresses, each bounded by the client timeout, so a requester that *)
(* started a call is eventually idle again (and DownloadServersList has    *)
(* installed its list).                                                    *)
CallsComplete ==
    \A r \in Requesters : rpc[r] # "idle" ~> rpc[r] = "idle"

(* Refinement: with calls that do not overlap, the client implements the   *)
(* abstract cache of ApiFailover. Each success acts on alternateIPs and    *)
(* lastGoodAlternateIP as one ServeLastGood, ServeDNS or ServeAlternate    *)
(* step, and SetAlternateIPs as one InstallList step.                      *)
Failover == INSTANCE ApiFailover WITH list <- alternateIPs, served <- servedBy

FailoverSpec == Failover!Spec

=============================================================================
