----------------------------- MODULE ApiFailover -----------------------------
(* What the API client promises of its alternate-IP cache (spec 4.5 and 9): *)
(* a request is served from the last good IP, by host DNS, or from an      *)
(* advertised alternate IP, and acts on the cache in one step: DNS forgets *)
(* the last good IP, an alternate IP becomes it. Installing a new list     *)
(* keeps the last good IP only when the list still advertises it. A        *)
(* failed request leaves the cache alone (a stutter).                      *)
EXTENDS Naturals, Sequences

CONSTANTS
    IPs,            \* addresses a server list may advertise
    NoIP,           \* no last good IP
    MaxListLen      \* longest advertised list

VARIABLES
    list,           \* the advertised alternate IPs
    lastGood,       \* the last good IP, or NoIP
    served          \* where the last successful request was served from

avars == <<list, lastGood, served>>

AbsLists == UNION {[1..n -> IPs] : n \in 0..MaxListLen}
AbsElems(s) == {s[k] : k \in 1..Len(s)}

Init ==
    /\ list = << >>
    /\ lastGood = NoIP
    /\ served = "none"

ServeLastGood ==
    /\ lastGood # NoIP
    /\ served' = lastGood
    /\ UNCHANGED <<list, lastGood>>

ServeDNS ==
    /\ served' = "dns"
    /\ lastGood' = NoIP
    /\ UNCHANGED list

ServeAlternate ==
    \E ip \in AbsElems(list) :
        /\ lastGood' = ip
        /\ served' = ip
        /\ UNCHANGED list

InstallList ==
    \E l \in AbsLists :
        /\ list' = l
        /\ lastGood' = IF lastGood \in AbsElems(l) THEN lastGood ELSE NoIP
        /\ UNCHANGED served

Next == ServeLastGood \/ ServeDNS \/ ServeAlternate \/ InstallList

Spec == Init /\ [][Next]_avars

=============================================================================
