------------------------------- MODULE VpnTypes -------------------------------
(* The normalized VPN state (package vpn, types.go): the State enumeration, *)
(* State.String() and ParseState, which reads the state names of the       *)
(* OpenVPN management interface. A string is a sequence of tokens: the     *)
(* characters strings.Trim cuts, one other character, and whole words      *)
(* (letters and '_', which Trim never cuts).                               *)
EXTENDS Naturals, Sequences

\* DISCONNECTED .. EXITING, declared with iota.
DISCONNECTED == 0
CONNECTING == 1
WAIT == 2
AUTH == 3
GETCONFIG == 4
ASSIGNIP == 5
ADDROUTES == 6
CONNECTED == 7
RECONNECTING == 8
TCP_CONNECT == 9
EXITING == 10
States == DISCONNECTED..EXITING

\* The array State.String() indexes.
StateNames ==
    <<"DISCONNECTED", "CONNECTING", "WAIT", "AUTH", "GETCONFIG", "ASSIGNIP",
      "ADDROUTES", "CONNECTED", "RECONNECTING", "TCP_CONNECT", "EXITING">>

String(s) == IF s \in States THEN StateNames[s + 1] ELSE "<Unknown>"

CutSet == {" ", "\t", ";", ",", "."}

\* strings.Trim(s, " \t;,."): drop the leading and trailing cut characters.
Trim(str) ==
    LET keep == {k \in 1..Len(str) : str[k] \notin CutSet}
    IN  IF keep = {} THEN << >>
        ELSE SubSeq(str, CHOOSE a \in keep : \A b \in keep : a <= b,
                         CHOOSE a \in keep : \A b \in keep : a >= b)

Parsed(s) == [state |-> s, err |-> FALSE]

(* Mutant: a copy-paste slip in the switch maps ASSIGN_IP to ADDROUTES. *)
ParseStateSwapped(str) ==
    LET t == Trim(str)
        w == IF Len(t) = 1 THEN t[1] ELSE "?"
    IN  CASE w = "CONNECTING" -> Parsed(CONNECTING)
          [] w = "WAIT" -> Parsed(WAIT)
          [] w = "AUTH" -> Parsed(AUTH)
          [] w = "GET_CONFIG" -> Parsed(GETCONFIG)
          [] w = "ASSIGN_IP" -> Parsed(ADDROUTES)
          [] w = "ADD_ROUTES" -> Parsed(ADDROUTES)
          [] w = "CONNECTED" -> Parsed(CONNECTED)
          [] w = "RECONNECTING" -> Parsed(RECONNECTING)
          [] w = "TCP_CONNECT" -> Parsed(TCP_CONNECT)
          [] w = "EXITING" -> Parsed(EXITING)
          [] OTHER -> [state |-> DISCONNECTED, err |-> TRUE]

\* Trim, then the switch on the trimmed string; a string that is not one
\* word of the switch is an error with DISCONNECTED.
ParseState(str) ==
    LET t == Trim(str)
        w == IF Len(t) = 1 THEN t[1] ELSE "?"
    IN  CASE w = "CONNECTING" -> Parsed(CONNECTING)
          [] w = "WAIT" -> Parsed(WAIT)
          [] w = "AUTH" -> Parsed(AUTH)
          [] w = "GET_CONFIG" -> Parsed(GETCONFIG)
          [] w = "ASSIGN_IP" -> Parsed(ASSIGNIP)
          [] w = "ADD_ROUTES" -> Parsed(ADDROUTES)
          [] w = "CONNECTED" -> Parsed(CONNECTED)
          [] w = "RECONNECTING" -> Parsed(RECONNECTING)
          [] w = "TCP_CONNECT" -> Parsed(TCP_CONNECT)
          [] w = "EXITING" -> Parsed(EXITING)
          [] OTHER -> [state |-> DISCONNECTED, err |-> TRUE]

Tokens == CutSet \cup {"x"} \cup {StateNames[k] : k \in 1..11} \cup
          {"GET_CONFIG", "ASSIGN_IP", "ADD_ROUTES"}

VARIABLES
    st,         \* the state a VPN object reported
    line,       \* its text, as written to the log and to clients
    parsed      \* ParseState(line)

vars == <<st, line, parsed>>

TypeOK ==
    /\ st \in States
    /\ line \in Seq(Tokens)
    /\ parsed \in [state : States, err : BOOLEAN]

Init ==
    /\ st = DISCONNECTED
    /\ line = <<String(DISCONNECTED)>>
    /\ parsed = ParseState(line)

(* A state is reported as its String() and read back with ParseState,     *)
(* padded the way the management interface pads it.                        *)
Report(s, pre, post) ==
    /\ st' = s
    /\ line' = pre \o <<String(s)>> \o post
    /\ parsed' = ParseState(line')

\* Management-interface lines carry the state name between commas; the
\* names OpenVPN itself uses for the three states String() spells without
\* '_' are reported as well.
Pads == {<< >>, <<" ">>, <<",">>, <<" ", ".">>, <<"x", ",">>}
OpenVPNNames == {"GET_CONFIG", "ASSIGN_IP", "ADD_ROUTES"}
OpenVPNState == [w \in OpenVPNNames |->
                    IF w = "GET_CONFIG" THEN GETCONFIG
                    ELSE IF w = "ASSIGN_IP" THEN ASSIGNIP ELSE ADDROUTES]

(* A line from the OpenVPN management interface, read with ParseState. *)
ReadLine(w, pre, post) ==
    /\ line' = pre \o <<w>> \o post
    /\ parsed' = ParseState(line')
    /\ st' = OpenVPNState[w]

Next ==
    \/ \E s \in States, pre, post \in Pads : Report(s, pre, post)
    \/ \E w \in OpenVPNNames, pre, post \in Pads : ReadLine(w, pre, post)

Spec == Init /\ [][Next]_vars

(* ParseState never reads a state name as another state: a line gives the *)
(* state it was written from, or an error.                                 *)
NoMisparse ==
    parsed.err \/ parsed.state = st

(* Round trip (spec 8): ParseState(s.String()) returns s for every state   *)
(* except DISCONNECTED, whatever cut characters surround the name: a line  *)
(* made of String(st) and cut characters only parses as st.                *)
RoundTrip ==
    (/\ st # DISCONNECTED
     /\ \A k \in 1..Len(line) : line[k] \in CutSet \cup {String(st)})
        => parsed = Parsed(st)

=============================================================================
