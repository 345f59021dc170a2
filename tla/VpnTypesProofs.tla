---------------------------- MODULE VpnTypesProofs ----------------------------
(* Proofs about ParseState (types.go): padding a state name with any       *)
(* tokens never makes ParseState read it as another state, for every       *)
(* padding and not only the ones TLC enumerates.                           *)
EXTENDS VpnTypes, SequenceTheorems, WellFoundedInduction, TLAPS

(* A non-empty set of naturals has a least element (from the               *)
(* well-foundedness of < on Nat).                                          *)
LEMMA NatMinExists ==
    ASSUME NEW T \in SUBSET Nat, T # {}
    PROVE  \E x \in T : \A y \in T : x <= y
<1>1. \E x \in T : \A y \in T : ~(<<y, x>> \in OpToRel(<, Nat))
  BY WFMin, NatLessThanWellFounded
<1>2. \A x, y \in Nat : ~(<<y, x>> \in OpToRel(<, Nat)) => x <= y
  BY DEF OpToRel
<1>3. QED
  BY <1>1, <1>2

(* A non-empty set of naturals bounded by n has a greatest element.        *)
LEMMA NatMaxExists ==
    ASSUME NEW T \in SUBSET Nat, T # {}, NEW n \in Nat, \A t \in T : t <= n
    PROVE  \E x \in T : \A y \in T : y <= x
<1> DEFINE U == {n - t : t \in T}
<1>0. \A t \in T : n - t \in Nat
  OBVIOUS
<1>1. U \in SUBSET Nat /\ U # {}
  BY <1>0
<1>2. PICK m \in U : \A u \in U : m <= u
  BY <1>1, NatMinExists
<1>3. PICK x \in T : m = n - x
  OBVIOUS
<1>4. \A y \in T : y <= x
  BY <1>2, <1>3
<1>5. QED
  BY <1>4

(* strings.Trim leaves one token exactly when the line has one token      *)
(* outside the cut set, at some position k: the result is that token.      *)
LEMMA TrimSingle ==
    ASSUME NEW S, NEW str \in Seq(S), Len(Trim(str)) = 1
    PROVE  \E k \in 1..Len(str) :
              /\ str[k] \notin CutSet
              /\ Trim(str)[1] = str[k]
              /\ \A j \in 1..Len(str) : j # k => str[j] \in CutSet
<1> DEFINE keep == {k \in 1..Len(str) : str[k] \notin CutSet}
           lo == CHOOSE x \in keep : \A y \in keep : x <= y
           hi == CHOOSE x \in keep : \A y \in keep : x >= y
<1>0. Len(str) \in Nat
  BY LenProperties
<1>K. keep \in SUBSET Nat /\ \A t \in keep : t <= Len(str)
  BY <1>0
<1>1. keep # {}
  <2>1. SUFFICES ASSUME keep = {} PROVE FALSE
    OBVIOUS
  <2>2. Trim(str) = << >>
    BY <2>1 DEF Trim
  <2>3. QED
    BY <2>2
<1>2. /\ lo \in keep /\ \A y \in keep : lo <= y
  <2>1. \E x \in keep : \A y \in keep : x <= y
    BY <1>K, <1>1, NatMinExists
  <2>2. QED
    BY <2>1
<1>3. /\ hi \in keep /\ \A y \in keep : hi >= y
  <2>1. \E x \in keep : \A y \in keep : y <= x
    BY <1>0, <1>K, <1>1, NatMaxExists
  <2>2. QED
    BY <2>1
<1>4. Trim(str) = SubSeq(str, lo, hi)
  BY <1>1 DEF Trim
<1>I. /\ lo \in 1..Len(str) /\ str[lo] \notin CutSet
      /\ hi \in 1..Len(str) /\ str[hi] \notin CutSet
      /\ lo <= hi
  BY <1>2, <1>3
<1> HIDE DEF lo, hi
<1>5. /\ Len(SubSeq(str, lo, hi)) = hi - lo + 1
      /\ SubSeq(str, lo, hi)[1] = str[lo]
  <2>1. \A i \in lo..hi : str[i] \in S
    BY <1>0, <1>I, ElementOfSeq
  <2>2. lo \in Int /\ hi \in Int
    BY <1>I
  <2>3. QED
    BY <1>I, <2>1, <2>2, SubSeqProperties
<1>6. lo = hi
  <2>1. Len(SubSeq(str, lo, hi)) = 1
    BY <1>4
  <2>2. lo \in Int /\ hi \in Int
    BY <1>I
  <2>3. QED
    BY <2>1, <2>2, <1>5
<1>7. \A j \in 1..Len(str) : j # lo => str[j] \in CutSet
  <2> SUFFICES ASSUME NEW j \in 1..Len(str), j # lo, str[j] \notin CutSet
               PROVE  FALSE
    OBVIOUS
  <2>1. j \in keep
    OBVIOUS
  <2>2. lo <= j /\ j <= hi
    BY <2>1, <1>2, <1>3
  <2>3. j \in Int /\ lo \in Int
    BY <1>I
  <2>4. QED
    BY <2>2, <2>3, <1>6
<1>8. QED
  BY <1>I, <1>4, <1>5, <1>7

(* The word ParseState switches on: the trimmed line when one token is    *)
(* left, and otherwise a string that matches no case of the switch.       *)
Word(str) == IF Len(Trim(str)) = 1 THEN Trim(str)[1] ELSE "?"

(* ParseState depends on its argument only through the switched word.    *)
LEMMA ParseByWord ==
    ASSUME NEW s1, NEW s2, Word(s1) = Word(s2)
    PROVE  ParseState(s1) = ParseState(s2)
BY DEF ParseState, Word

(* A line whose Trim does not leave one token is an error.                *)
LEMMA ParseNoWord ==
    ASSUME NEW str, Word(str) = "?"
    PROVE  ParseState(str).err
BY DEF ParseState, Word, Parsed

(* strings.Trim leaves a one-token line that is not a cut character as    *)
(* it is.                                                                  *)
LEMMA TrimWord ==
    ASSUME NEW w, w \notin CutSet
    PROVE  Word(<<w>>) = w
<1>1. {k \in 1..Len(<<w>>) : <<w>>[k] \notin CutSet} = {1}
  OBVIOUS
<1>2. Trim(<<w>>) = SubSeq(<<w>>, 1, 1)
  BY <1>1 DEF Trim
<1>3. SubSeq(<<w>>, 1, 1) = <<w>>
  <2>1. /\ SubSeq(<<w>>, 1, 1) \in Seq({w})
        /\ Len(SubSeq(<<w>>, 1, 1)) = 1
        /\ SubSeq(<<w>>, 1, 1)[1] = w
    BY SubSeqProperties
  <2>2. <<w>> \in Seq({w}) /\ Len(<<w>>) = 1 /\ <<w>>[1] = w
    OBVIOUS
  <2>3. \A i \in 1..Len(SubSeq(<<w>>, 1, 1)) : SubSeq(<<w>>, 1, 1)[i] = <<w>>[i]
    BY <2>1, <2>2
  <2>4. QED
    BY <2>1, <2>2, <2>3, SeqEqual
<1>4. QED
  BY <1>2, <1>3 DEF Word

(* Padding a token that is not a cut character with any tokens before and *)
(* after it never changes what ParseState reads it as: either the padding *)
(* leaves more than one token and the line is an error, or the line       *)
(* parses as the bare token.                                               *)
LEMMA ParsePad ==
    ASSUME NEW S, NEW pre \in Seq(S), NEW post \in Seq(S),
           NEW w \in S, w \notin CutSet
    PROVE  \/ ParseState(pre \o <<w>> \o post).err
           \/ ParseState(pre \o <<w>> \o post) = ParseState(<<w>>)
<1> DEFINE ln == pre \o <<w>> \o post
           p == Len(pre) + 1
<1>1. /\ pre \o <<w>> \in Seq(S)
      /\ Len(pre \o <<w>>) = p
      /\ (pre \o <<w>>)[p] = w
  BY ConcatProperties
<1>2. /\ ln \in Seq(S)
      /\ Len(ln) = p + Len(post)
      /\ p \in 1..Len(ln)
      /\ ln[p] = w
  BY <1>1, ConcatProperties
<1>3. CASE Len(Trim(ln)) # 1
  BY <1>3, ParseNoWord DEF Word
<1>4. CASE Len(Trim(ln)) = 1
  <2>1. PICK k \in 1..Len(ln) :
           /\ ln[k] \notin CutSet
           /\ Trim(ln)[1] = ln[k]
           /\ \A j \in 1..Len(ln) : j # k => ln[j] \in CutSet
    BY <1>2, <1>4, TrimSingle
  <2>2. k = p
    BY <1>2, <2>1
  <2>3. Word(ln) = Word(<<w>>)
    BY <1>2, <1>4, <2>1, <2>2, TrimWord DEF Word
  <2>4. QED
    BY <2>3, ParseByWord
<1>5. QED
  BY <1>3, <1>4

(* A line of one token that is not a cut character parses as the switch *)
(* on that token.                                                          *)
LEMMA ParseOne ==
    ASSUME NEW w, w \notin CutSet
    PROVE  ParseState(<<w>>) =
             CASE w = "CONNECTING" -> Parsed(CONNECTING)
               [] w = "WAIT" -> Parsed(WAIT)
               [] w = "AUTH" -> Parsed(AUTH)
               [] w = "GET_CONFIG" -> Parsed(GETCONFIG)
               [] w = "ASSIGN_IP" -> Parsed(ASSIGNIP)
               [] w = "ADD_ROUTES" -> Parsed(ADDROUTES)
               [] w = "CONNECTED" -> Parsed(CONNECTED)
               [] w = "RECONNECTING" -> Parsed(RECONNECTING)
               [] w = "TCP_CONNECT" -> Parsed(TCP_CONNECT)
               [] w = "EXITING" -> Parsed(EXITING)
               [] OTHER -> [state |-> DISCONNECTED, err |-> TRUE]
<1>1. Word(<<w>>) = w
  BY TrimWord
<1>2. QED
  BY <1>1 DEF ParseState, Word

(* Every state's String(), read back alone, gives that state, except      *)
(* DISCONNECTED, which the switch has no case for and reads as an error.  *)
LEMMA StringParses ==
    ASSUME NEW s \in States
    PROVE  /\ String(s) \in Tokens \ CutSet
           /\ ParseState(<<String(s)>>).err \/ ParseState(<<String(s)>>).state = s
<1>0. s \in {DISCONNECTED, CONNECTING, WAIT, AUTH, GETCONFIG, ASSIGNIP,
              ADDROUTES, CONNECTED, RECONNECTING, TCP_CONNECT, EXITING}
  BY DEF States, DISCONNECTED, CONNECTING, WAIT, AUTH, GETCONFIG, ASSIGNIP,
         ADDROUTES, CONNECTED, RECONNECTING, TCP_CONNECT, EXITING
<1>1. CASE s = DISCONNECTED
  <2>1. String(s) = "DISCONNECTED"
    BY <1>1 DEF String, States, StateNames, DISCONNECTED, DISCONNECTED, EXITING
  <2>2. "DISCONNECTED" \in Tokens \ CutSet
    <3>1. StateNames[1] \in {StateNames[j] : j \in 1..11}
      OBVIOUS
    <3>2. QED
      BY <3>1 DEF StateNames, Tokens, CutSet
  <2>3. ParseState(<<"DISCONNECTED">>).err \/ ParseState(<<"DISCONNECTED">>).state = DISCONNECTED
    BY <2>2, ParseOne DEF Parsed
  <2>4. QED
    BY <2>1, <2>2, <2>3, <1>1
<1>2. CASE s = CONNECTING
  <2>1. String(s) = "CONNECTING"
    BY <1>2 DEF String, States, StateNames, CONNECTING, DISCONNECTED, EXITING
  <2>2. "CONNECTING" \in Tokens \ CutSet
    <3>1. StateNames[2] \in {StateNames[j] : j \in 1..11}
      OBVIOUS
    <3>2. QED
      BY <3>1 DEF StateNames, Tokens, CutSet
  <2>3. ParseState(<<"CONNECTING">>).err \/ ParseState(<<"CONNECTING">>).state = CONNECTING
    BY <2>2, ParseOne DEF Parsed
  <2>4. QED
    BY <2>1, <2>2, <2>3, <1>2
<1>3. CASE s = WAIT
  <2>1. String(s) = "WAIT"
    BY <1>3 DEF String, States, StateNames, WAIT, DISCONNECTED, EXITING
  <2>2. "WAIT" \in Tokens \ CutSet
    <3>1. StateNames[3] \in {StateNames[j] : j \in 1..11}
      OBVIOUS
    <3>2. QED
      BY <3>1 DEF StateNames, Tokens, CutSet
  <2>3. ParseState(<<"WAIT">>).err \/ ParseState(<<"WAIT">>).state = WAIT
    BY <2>2, ParseOne DEF Parsed
  <2>4. QED
    BY <2>1, <2>2, <2>3, <1>3
<1>4. CASE s = AUTH
  <2>1. String(s) = "AUTH"
    BY <1>4 DEF String, States, StateNames, AUTH, DISCONNECTED, EXITING
  <2>2. "AUTH" \in Tokens \ CutSet
    <3>1. StateNames[4] \in {StateNames[j] : j \in 1..11}
      OBVIOUS
    <3>2. QED
      BY <3>1 DEF StateNames, Tokens, CutSet
  <2>3. ParseState(<<"AUTH">>).err \/ ParseState(<<"AUTH">>).state = AUTH
    BY <2>2, ParseOne DEF Parsed
  <2>4. QED
    BY <2>1, <2>2, <2>3, <1>4
<1>5. CASE s = GETCONFIG
  <2>1. String(s) = "GETCONFIG"
    BY <1>5 DEF String, States, StateNames, GETCONFIG, DISCONNECTED, EXITING
  <2>2. "GETCONFIG" \in Tokens \ CutSet
    <3>1. StateNames[5] \in {StateNames[j] : j \in 1..11}
      OBVIOUS
    <3>2. QED
      BY <3>1 DEF StateNames, Tokens, CutSet
  <2>3. ParseState(<<"GETCONFIG">>).err \/ ParseState(<<"GETCONFIG">>).state = GETCONFIG
    BY <2>2, ParseOne DEF Parsed
  <2>4. QED
    BY <2>1, <2>2, <2>3, <1>5
<1>6. CASE s = ASSIGNIP
  <2>1. String(s) = "ASSIGNIP"
    BY <1>6 DEF String, States, StateNames, ASSIGNIP, DISCONNECTED, EXITING
  <2>2. "ASSIGNIP" \in Tokens \ CutSet
    <3>1. StateNames[6] \in {StateNames[j] : j \in 1..11}
      OBVIOUS
    <3>2. QED
      BY <3>1 DEF StateNames, Tokens, CutSet
  <2>3. ParseState(<<"ASSIGNIP">>).err \/ ParseState(<<"ASSIGNIP">>).state = ASSIGNIP
    BY <2>2, ParseOne DEF Parsed
  <2>4. QED
    BY <2>1, <2>2, <2>3, <1>6
<1>7. CASE s = ADDROUTES
  <2>1. String(s) = "ADDROUTES"
    BY <1>7 DEF String, States, StateNames, ADDROUTES, DISCONNECTED, EXITING
  <2>2. "ADDROUTES" \in Tokens \ CutSet
    <3>1. StateNames[7] \in {StateNames[j] : j \in 1..11}
      OBVIOUS
    <3>2. QED
      BY <3>1 DEF StateNames, Tokens, CutSet
  <2>3. ParseState(<<"ADDROUTES">>).err \/ ParseState(<<"ADDROUTES">>).state = ADDROUTES
    BY <2>2, ParseOne DEF Parsed
  <2>4. QED
    BY <2>1, <2>2, <2>3, <1>7
<1>8. CASE s = CONNECTED
  <2>1. String(s) = "CONNECTED"
    BY <1>8 DEF String, States, StateNames, CONNECTED, DISCONNECTED, EXITING
  <2>2. "CONNECTED" \in Tokens \ CutSet
    <3>1. StateNames[8] \in {StateNames[j] : j \in 1..11}
      OBVIOUS
    <3>2. QED
      BY <3>1 DEF StateNames, Tokens, CutSet
  <2>3. ParseState(<<"CONNECTED">>).err \/ ParseState(<<"CONNECTED">>).state = CONNECTED
    BY <2>2, ParseOne DEF Parsed
  <2>4. QED
    BY <2>1, <2>2, <2>3, <1>8
<1>9. CASE s = RECONNECTING
  <2>1. String(s) = "RECONNECTING"
    BY <1>9 DEF String, States, StateNames, RECONNECTING, DISCONNECTED, EXITING
  <2>2. "RECONNECTING" \in Tokens \ CutSet
    <3>1. StateNames[9] \in {StateNames[j] : j \in 1..11}
      OBVIOUS
    <3>2. QED
      BY <3>1 DEF StateNames, Tokens, CutSet
  <2>3. ParseState(<<"RECONNECTING">>).err \/ ParseState(<<"RECONNECTING">>).state = RECONNECTING
    BY <2>2, ParseOne DEF Parsed
  <2>4. QED
    BY <2>1, <2>2, <2>3, <1>9
<1>10. CASE s = TCP_CONNECT
  <2>1. String(s) = "TCP_CONNECT"
    BY <1>10 DEF String, States, StateNames, TCP_CONNECT, DISCONNECTED, EXITING
  <2>2. "TCP_CONNECT" \in Tokens \ CutSet
    <3>1. StateNames[10] \in {StateNames[j] : j \in 1..11}
      OBVIOUS
    <3>2. QED
      BY <3>1 DEF StateNames, Tokens, CutSet
  <2>3. ParseState(<<"TCP_CONNECT">>).err \/ ParseState(<<"TCP_CONNECT">>).state = TCP_CONNECT
    BY <2>2, ParseOne DEF Parsed
  <2>4. QED
    BY <2>1, <2>2, <2>3, <1>10
<1>11. CASE s = EXITING
  <2>1. String(s) = "EXITING"
    BY <1>11 DEF String, States, StateNames, EXITING, DISCONNECTED, EXITING
  <2>2. "EXITING" \in Tokens \ CutSet
    <3>1. StateNames[11] \in {StateNames[j] : j \in 1..11}
      OBVIOUS
    <3>2. QED
      BY <3>1 DEF StateNames, Tokens, CutSet
  <2>3. ParseState(<<"EXITING">>).err \/ ParseState(<<"EXITING">>).state = EXITING
    BY <2>2, ParseOne DEF Parsed
  <2>4. QED
    BY <2>1, <2>2, <2>3, <1>11
<1>12. QED
  BY <1>0, <1>1, <1>2, <1>3, <1>4, <1>5, <1>6, <1>7, <1>8, <1>9, <1>10, <1>11

(* The three OpenVPN spellings read back as the states they stand for.    *)
LEMMA OpenVPNParses ==
    ASSUME NEW w \in OpenVPNNames
    PROVE  /\ w \in Tokens \ CutSet
           /\ ParseState(<<w>>).err \/ ParseState(<<w>>).state = OpenVPNState[w]
<1>1. w \in Tokens \ CutSet
  BY DEF OpenVPNNames, Tokens, CutSet
<1>2. Word(<<w>>) = w
  BY <1>1, TrimWord
<1>3. QED
  BY <1>1, <1>2 DEF ParseState, Word, Parsed, OpenVPNNames, OpenVPNState

(* State.String() read back with ParseState, padded with any sequence of *)
(* tokens before and after it (not only the paddings TLC enumerates),    *)
(* gives the state it was written from or an error, never another state. *)
THEOREM PaddedRoundTrip ==
    ASSUME NEW s \in States, NEW pre \in Seq(Tokens), NEW post \in Seq(Tokens)
    PROVE  LET r == ParseState(pre \o <<String(s)>> \o post)
           IN  r.err \/ r.state = s
<1>1. /\ String(s) \in Tokens \ CutSet
      /\ ParseState(<<String(s)>>).err \/ ParseState(<<String(s)>>).state = s
  BY StringParses
<1>2. \/ ParseState(pre \o <<String(s)>> \o post).err
      \/ ParseState(pre \o <<String(s)>> \o post) = ParseState(<<String(s)>>)
  BY <1>1, ParsePad
<1>3. QED
  BY <1>1, <1>2

(* The paddings the management interface puts around a name are token    *)
(* sequences.                                                              *)
LEMMA PadsTokens == Pads \subseteq Seq(Tokens)
BY DEF Pads, Tokens, CutSet

(* A report or a management-interface line, whatever it is padded with,  *)
(* leaves parsed equal to the state just set or to an error.               *)
LEMMA StepParses ==
    ASSUME NEW x \in Tokens \ CutSet, NEW n, NEW pre \in Pads, NEW post \in Pads,
           ParseState(<<x>>).err \/ ParseState(<<x>>).state = n,
           st' = n, line' = pre \o <<x>> \o post, parsed' = ParseState(line')
    PROVE  NoMisparse'
<1>1. \/ ParseState(pre \o <<x>> \o post).err
      \/ ParseState(pre \o <<x>> \o post) = ParseState(<<x>>)
  BY PadsTokens, ParsePad
<1>2. QED
  BY <1>1 DEF NoMisparse

(* ParseState never reads a state name as another state (NoMisparse): in *)
(* every reachable state the parsed line is an error or the state that    *)
(* was reported, for every padding of the names, which TLC checks only    *)
(* for the paddings in Pads. The invariant is inductive because Report     *)
(* and ReadLine set st, line and parsed together.                          *)
THEOREM ParseSafe == Spec => []NoMisparse
<1>1. Init => NoMisparse
  <2> SUFFICES ASSUME Init PROVE NoMisparse
    OBVIOUS
  <2>1. DISCONNECTED \in States
    BY DEF States, DISCONNECTED, EXITING
  <2>2. QED
    BY <2>1, StringParses DEF Init, NoMisparse
<1>2. NoMisparse /\ [Next]_vars => NoMisparse'
  <2> SUFFICES ASSUME NoMisparse, [Next]_vars PROVE NoMisparse'
    OBVIOUS
  <2>1. ASSUME NEW s \in States, NEW pre \in Pads, NEW post \in Pads,
               Report(s, pre, post)
        PROVE  NoMisparse'
    BY <2>1, StringParses, StepParses DEF Report
  <2>2. ASSUME NEW w \in OpenVPNNames, NEW pre \in Pads, NEW post \in Pads,
               ReadLine(w, pre, post)
        PROVE  NoMisparse'
    BY <2>2, OpenVPNParses, StepParses DEF ReadLine
  <2>3. CASE UNCHANGED vars
    BY <2>3 DEF vars, NoMisparse
  <2>4. QED
    BY <2>1, <2>2, <2>3 DEF Next
<1>3. QED
  BY <1>1, <1>2, PTL DEF Spec
=============================================================================
