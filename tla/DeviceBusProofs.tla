--------------------------- MODULE DeviceBusProofs ---------------------------
(* The search of DeviceBus loses nobody, for MACs of any width and any set   *)
(* of devices.                                                               *)
EXTENDS DeviceBus, TLAPS

(* What a device answered is exact as long as the round is undisturbed.       *)
AnswersExact ==
  undisturbed =>
    /\ on = device
    /\ answered /\ request.fun = "E_SerchDevice"
         => answers = {d \in device : Matches(d, request.probe)}

BusInv == BusTypeOK /\ AnswersExact /\ NobodyLost

-----------------------------------------------------------------------------
(* The two probes a search begins with cover every MAC.                       *)
LEMMA RootsCover ==
  ASSUME NEW d \in MAC
  PROVE  \E p \in Roots : Matches(d, p)
<1>1. 0 \in 0 .. NBits - 1 /\ d[0] \in {0, 1}
  BY BusConstants DEF MAC
<1> DEFINE p == [index |-> 0, MAC_val |-> [i \in {0} |-> d[0]]]
<1>2. p \in Roots
  BY <1>1 DEF Roots
<1>3. Matches(d, p)
  BY DEF Matches
<1> QED
  BY <1>2, <1>3

LEMMA RootsType == Roots \subseteq Probe
<1> SUFFICES ASSUME NEW p \in Roots
             PROVE  p \in Probe
  OBVIOUS
<1>1. PICK b \in {0, 1} : p = [index |-> 0, MAC_val |-> [i \in {0} |-> b]]
  BY DEF Roots
<1>2. 0 .. 0 = {0} /\ 0 \in 0 .. NBits - 1
  BY BusConstants
<1>3. [i \in {0} |-> b] \in [0 .. 0 -> {0, 1}]
  BY <1>2
<1> QED
  BY <1>1, <1>2, <1>3 DEF Probe

(* What a probe matches, one of its two longer probes matches.                *)
LEMMA LongerCovers ==
  ASSUME NEW d \in MAC, NEW p \in Probe, p.index # NBits - 1, Matches(d, p)
  PROVE  \E q \in Longer(p) : Matches(d, q)
<1>1. p.index \in 0 .. NBits - 1 /\ p.index + 1 \in 0 .. NBits - 1
  BY BusConstants DEF Probe
<1>2. d[p.index + 1] \in {0, 1}
  BY <1>1 DEF MAC
<1> DEFINE val == [i \in 0 .. p.index + 1 |->
                     IF i <= p.index THEN p.MAC_val[i] ELSE d[p.index + 1]]
           q == [index |-> p.index + 1, MAC_val |-> val]
<1>3. q \in Longer(p)
  BY <1>2 DEF Longer
<1>4. ASSUME NEW i \in 0 .. q.index
      PROVE  d[i] = q.MAC_val[i]
  <2>1. i \in 0 .. p.index \/ i = p.index + 1
    BY <1>1
  <2>2. CASE i \in 0 .. p.index
    BY <1>1, <2>2 DEF Matches
  <2>3. CASE i = p.index + 1
    BY <1>1, <2>3
  <2> QED
    BY <2>1, <2>2, <2>3
<1>5. Matches(d, q)
  BY <1>4 DEF Matches
<1> QED
  BY <1>3, <1>5

LEMMA LongerType ==
  ASSUME NEW p \in Probe, p.index # NBits - 1
  PROVE  Longer(p) \subseteq Probe
<1>1. /\ p.index \in 0 .. NBits - 1 /\ p.index + 1 \in 0 .. NBits - 1
      /\ p.MAC_val \in [0 .. p.index -> {0, 1}]
  BY BusConstants DEF Probe
<1> SUFFICES ASSUME NEW b \in {0, 1}
             PROVE  [index |-> p.index + 1,
                     MAC_val |-> [i \in 0 .. p.index + 1 |->
                                    IF i <= p.index THEN p.MAC_val[i] ELSE b]] \in Probe
  BY DEF Longer
<1>2. [i \in 0 .. p.index + 1 |-> IF i <= p.index THEN p.MAC_val[i] ELSE b]
        \in [0 .. p.index + 1 -> {0, 1}]
  BY <1>1
<1> QED
  BY <1>1, <1>2 DEF Probe

(* The longest probes name one device each.                                   *)
LEMMA LongestIsOne ==
  ASSUME NEW d \in MAC, NEW e \in MAC, NEW p \in Probe, p.index = NBits - 1,
         Matches(d, p), Matches(e, p)
  PROVE  d = e
<1>1. \A i \in 0 .. NBits - 1 : d[i] = e[i]
  BY DEF Matches
<1>2. d = [i \in 0 .. NBits - 1 |-> d[i]] /\ e = [i \in 0 .. NBits - 1 |-> e[i]]
  BY DEF MAC
<1> QED
  BY <1>1, <1>2, Zenon

-----------------------------------------------------------------------------
LEMMA BusInvInit == Init => BusInv
<1> SUFFICES ASSUME Init
             PROVE  BusInv
  OBVIOUS
<1>1. device \subseteq MAC
  BY DEF Init
<1>2. pending \subseteq Probe
  BY RootsType DEF Init
<1>3. BusTypeOK
  <2>1. restarts \in 0 .. MaxRestarts /\ losses \in 0 .. MaxLosses
    BY BusConstants DEF Init
  <2>2. /\ on \subseteq device /\ request \in Request \union {Idle}
        /\ answered = FALSE /\ answers \subseteq device
        /\ found \subseteq known /\ known \subseteq device /\ undisturbed \in BOOLEAN
    BY DEF Init
  <2> QED
    BY <1>1, <1>2, <2>1, <2>2 DEF BusTypeOK
<1>4. AnswersExact
  BY DEF Init, AnswersExact
<1>5. NobodyLost
  BY <1>1, RootsCover DEF Init, NobodyLost
<1> QED
  BY <1>3, <1>4, <1>5 DEF BusInv

(* A search request is for a probe.                                           *)
LEMMA SearchHasProbe ==
  ASSUME BusTypeOK, request.fun = "E_SerchDevice", request # Idle
  PROVE  request.probe \in Probe /\ request.to = ToAll
<1>1. request \in Request
  BY DEF BusTypeOK
<1>2. ASSUME request \in [to : MAC, fun : Question]
      PROVE  FALSE
  <2>1. request.fun \in Question
    BY <1>2
  <2> QED
    BY <2>1 DEF Question
<1> QED
  BY <1>1, <1>2 DEF Request

LEMMA BusTypeStep ==
  ASSUME BusTypeOK, [Next]_vars
  PROVE  BusTypeOK'
<1> USE DEF BusTypeOK
<1>1. CASE ParseMessageResponse
  BY <1>1 DEF ParseMessageResponse
<1>2. ASSUME NEW d \in device, Boot(d)
      PROVE  BusTypeOK'
  BY <1>2 DEF Boot
<1>3. CASE Searches
  <2>1. PICK p \in pending : Send([to |-> ToAll, fun |-> "E_SerchDevice", probe |-> p])
    BY <1>3 DEF Searches
  <2>2. request' \in Request
    BY <2>1 DEF Send, Request
  <2> QED
    BY <1>3, <2>1, <2>2 DEF Searches, Send
<1>4. CASE Asks
  <2>1. PICK to \in known, fun \in Question :
          /\ fun = "E_REBOOT" => restarts < MaxRestarts
          /\ restarts' = IF fun = "E_REBOOT" THEN restarts + 1 ELSE restarts
          /\ Send([to |-> to, fun |-> fun])
    BY <1>4 DEF Asks
  <2>2. request' \in Request
    BY <2>1 DEF Send, Request
  <2>3. restarts' \in 0 .. MaxRestarts
    BY <2>1, BusConstants
  <2> QED
    BY <1>4, <2>1, <2>2, <2>3 DEF Asks, Send
<1>5. CASE Hears
  <2>1. request # Idle
    BY <1>5 DEF Hears
  <2>2. CASE request.fun = "E_SerchDevice"
    <3>1. request.probe \in Probe
      BY <2>1, <2>2, SearchHasProbe
    <3>2. Split(request.probe) \subseteq Probe
      BY <3>1, LongerType DEF Split
    <3>3. /\ pending' \subseteq Probe
          /\ found' \subseteq known' /\ known' \subseteq device
      BY <1>5, <2>2, <3>2 DEF Hears
    <3> QED
      BY <1>5, <3>3 DEF Hears, Send
  <2>3. CASE request.fun # "E_SerchDevice"
    BY <1>5, <2>3 DEF Hears, Send
  <2> QED
    BY <2>2, <2>3
<1>6. CASE NextRound
  BY <1>6, RootsType DEF NextRound
<1>7. ASSUME NEW d \in device, LineLoses(d)
      PROVE  BusTypeOK'
  <2>1. losses' \in 0 .. MaxLosses
    BY <1>7, BusConstants DEF LineLoses
  <2> QED
    BY <1>7, <2>1 DEF LineLoses
<1>8. CASE UNCHANGED vars
  BY <1>8 DEF vars
<1> QED
  BY <1>1, <1>2, <1>3, <1>4, <1>5, <1>6, <1>7, <1>8 DEF Next, Server

LEMMA AnswersStep ==
  ASSUME BusInv, [Next]_vars
  PROVE  AnswersExact'
<1> USE DEF BusInv, BusTypeOK, AnswersExact
<1>1. CASE ParseMessageResponse
  <2> SUFFICES ASSUME undisturbed'
               PROVE  AnswersExact'
    OBVIOUS
  <2>1. /\ on' = device /\ device' = device /\ request' = request /\ on = device
        /\ answers' = {d \in on : ForMe(d, request) /\ Answers(d, request)}
    BY <1>1 DEF ParseMessageResponse
  <2>2. ASSUME request.fun = "E_SerchDevice", NEW d \in device
        PROVE  ForMe(d, request) /\ Answers(d, request) <=> Matches(d, request.probe)
    BY <1>1, <2>2, SearchHasProbe DEF ForMe, Answers, ParseMessageResponse
  <2> QED
    BY <2>1, <2>2
<1>2. ASSUME NEW d \in device, Boot(d)
      PROVE  AnswersExact'
  BY <1>2 DEF Boot
<1>3. CASE Searches
  BY <1>3 DEF Searches, Send
<1>4. CASE Asks
  BY <1>4 DEF Asks, Send
<1>5. CASE Hears
  BY <1>5 DEF Hears, Send
<1>6. CASE NextRound
  BY <1>6 DEF NextRound
<1>7. ASSUME NEW d \in device, LineLoses(d)
      PROVE  AnswersExact'
  BY <1>7 DEF LineLoses
<1>8. CASE UNCHANGED vars
  BY <1>8 DEF vars
<1> QED
  BY <1>1, <1>2, <1>3, <1>4, <1>5, <1>6, <1>7, <1>8 DEF Next, Server

(* The server settles a probe: whoever is below it answered, so that it is    *)
(* found, or is below one of the two longer probes.                           *)
LEMMA HearsLosesNobody ==
  ASSUME BusInv, Hears
  PROVE  NobodyLost'
<1> USE DEF BusInv
<1> SUFFICES ASSUME undisturbed', NEW d \in device'
             PROVE  (d \in found \/ \E p \in pending : Matches(d, p))'
  BY DEF NobodyLost
<1>1. undisturbed /\ d \in device /\ d \in MAC /\ answered /\ request # Idle
  BY DEF Hears, BusTypeOK
<1>2. d \in found \/ \E p \in pending : Matches(d, p)
  BY <1>1 DEF NobodyLost
<1>3. CASE request.fun # "E_SerchDevice"
  BY <1>2, <1>3 DEF Hears
<1>4. CASE request.fun = "E_SerchDevice" /\ Matches(d, request.probe)
  <2>1. request.probe \in Probe
    BY <1>1, <1>4, SearchHasProbe
  <2>2. answers = {e \in device : Matches(e, request.probe)}
    BY <1>1, <1>4 DEF AnswersExact
  <2>3. d \in answers
    BY <1>1, <1>4, <2>2
  <2>4. CASE \E e, f \in answers : e # f
    <3>1. PICK e \in answers, f \in answers : e # f
      BY <2>4
    <3>2. e \in MAC /\ f \in MAC /\ Matches(e, request.probe) /\ Matches(f, request.probe)
      BY <2>2, <3>1 DEF BusTypeOK
    <3>3. request.probe.index # NBits - 1
      BY <2>1, <3>1, <3>2, LongestIsOne
    <3>4. pending' = (pending \ {request.probe}) \union Longer(request.probe)
      BY <1>4, <2>4, <3>3 DEF Hears, Split
    <3>5. \E q \in Longer(request.probe) : Matches(d, q)
      BY <1>1, <1>4, <2>1, <3>3, LongerCovers
    <3> QED
      BY <3>4, <3>5
  <2>5. CASE ~ \E e, f \in answers : e # f
    BY <1>4, <2>3, <2>5 DEF Hears
  <2> QED
    BY <2>4, <2>5
<1>5. CASE request.fun = "E_SerchDevice" /\ ~Matches(d, request.probe)
  <2>1. found \subseteq found' /\ pending \ {request.probe} \subseteq pending'
    BY <1>5 DEF Hears
  <2> QED
    BY <1>2, <1>5, <2>1
<1> QED
  BY <1>3, <1>4, <1>5

LEMMA NobodyLostStep ==
  ASSUME BusInv, [Next]_vars
  PROVE  NobodyLost'
<1> USE DEF BusInv, NobodyLost
<1>1. CASE ParseMessageResponse
  BY <1>1 DEF ParseMessageResponse
<1>2. ASSUME NEW d \in device, Boot(d)
      PROVE  NobodyLost'
  BY <1>2 DEF Boot
<1>3. CASE Searches
  BY <1>3 DEF Searches
<1>4. CASE Asks
  BY <1>4 DEF Asks
<1>5. CASE Hears
  BY <1>5, HearsLosesNobody
<1>6. CASE NextRound
  BY <1>6, RootsCover DEF NextRound, BusTypeOK
<1>7. ASSUME NEW d \in device, LineLoses(d)
      PROVE  NobodyLost'
  BY <1>7 DEF LineLoses
<1>8. CASE UNCHANGED vars
  BY <1>8 DEF vars
<1> QED
  BY <1>1, <1>2, <1>3, <1>4, <1>5, <1>6, <1>7, <1>8 DEF Next, Server

LEMMA BusInvariant == Spec => []BusInv
<1>1. BusInv /\ [Next]_vars => BusInv'
  BY BusTypeStep, AnswersStep, NobodyLostStep DEF BusInv
<1> QED
  BY BusInvInit, <1>1, PTL DEF Spec

(* Every variable of the bus keeps its type (RetuernMAC is never asked for    *)
(* more bits than a MAC has).                                                 *)
THEOREM BusTypeCorrect == Spec => []BusTypeOK
<1>1. BusInv => BusTypeOK
  BY DEF BusInv
<1> QED
  BY BusInvariant, <1>1, PTL

(* The test of RetuernMAC lets the search find everyone.                      *)
THEOREM SearchLosesNobody == Spec => []NobodyLost
<1>1. BusInv => NobodyLost
  BY DEF BusInv
<1> QED
  BY BusInvariant, <1>1, PTL

-----------------------------------------------------------------------------
(* Each device once.  A search on the line is for a probe that is still       *)
(* pending, and only devices it matches answer it.                            *)
OnceInv ==
  /\ EachOnce
  /\ request.fun = "E_SerchDevice" => request.probe \in pending
  /\ answered /\ request.fun = "E_SerchDevice"
       => \A d \in answers : Matches(d, request.probe)

LEMMA RootsOne ==
  ASSUME NEW d \in MAC, NEW p \in Roots, NEW q \in Roots, Matches(d, p), Matches(d, q)
  PROVE  p = q
<1>1. PICK a \in {0, 1} : p = [index |-> 0, MAC_val |-> [i \in {0} |-> a]]
  BY DEF Roots
<1>2. PICK b \in {0, 1} : q = [index |-> 0, MAC_val |-> [i \in {0} |-> b]]
  BY DEF Roots
<1>3. d[0] = a /\ d[0] = b
  BY <1>1, <1>2 DEF Matches
<1> QED
  BY <1>1, <1>2, <1>3

(* A longer probe matches nothing but what the shorter one does.              *)
LEMMA LongerWithin ==
  ASSUME NEW d, NEW p \in Probe, NEW q \in Longer(p), Matches(d, q)
  PROVE  Matches(d, p)
<1>1. p.index \in Nat
  BY DEF Probe
<1>2. /\ q.index = p.index + 1
      /\ \A i \in 0 .. p.index : i \in 0 .. q.index /\ q.MAC_val[i] = p.MAC_val[i]
  BY <1>1 DEF Longer
<1> QED
  BY <1>2 DEF Matches

(* The two longer probes differ in the bit they add.                          *)
LEMMA LongerOne ==
  ASSUME NEW d, NEW p \in Probe, NEW q \in Longer(p), NEW r \in Longer(p),
         Matches(d, q), Matches(d, r)
  PROVE  q = r
<1> DEFINE L(b) == [index |-> p.index + 1,
                    MAC_val |-> [i \in 0 .. p.index + 1 |->
                                   IF i <= p.index THEN p.MAC_val[i] ELSE b]]
<1>1. PICK a \in {0, 1} : q = L(a)
  BY DEF Longer
<1>2. PICK b \in {0, 1} : r = L(b)
  BY DEF Longer
<1>3. p.index \in Nat /\ p.index + 1 \in 0 .. p.index + 1 /\ ~(p.index + 1 <= p.index)
  BY DEF Probe
<1>4. q.index = p.index + 1 /\ q.MAC_val[p.index + 1] = a
  BY <1>1, <1>3
<1>5. r.index = p.index + 1 /\ r.MAC_val[p.index + 1] = b
  BY <1>2, <1>3
<1>6. d[p.index + 1] = a /\ d[p.index + 1] = b
  BY <1>3, <1>4, <1>5 DEF Matches
<1> QED
  BY <1>1, <1>2, <1>6

LEMMA OnceInit == Init => OnceInv
<1> SUFFICES ASSUME Init PROVE OnceInv
  OBVIOUS
<1>1. device \subseteq MAC /\ pending = Roots /\ found = {} /\ request.fun = "Idle" /\ ~answered
  BY DEF Init, Idle
<1> QED
  BY <1>1, RootsOne DEF OnceInv, EachOnce

(* The probe that was settled gives way to its two halves, or to nothing.     *)
LEMMA HearsOnce ==
  ASSUME BusTypeOK, OnceInv, Hears
  PROVE  OnceInv'
<1> USE DEF OnceInv
<1>1. request'.fun = "Idle" /\ ~answered' /\ request # Idle /\ answered /\ device' = device
  BY DEF Hears, Send, Idle, BusTypeOK
<1>2. CASE request.fun # "E_SerchDevice"
  BY <1>1, <1>2 DEF Hears, EachOnce
<1>3. CASE request.fun = "E_SerchDevice"
  <2> DEFINE old == request.probe
             noise == \E d, e \in answers : d # e
             split == IF noise THEN Split(old) ELSE {}
  <2>1. /\ old \in Probe /\ old \in pending
        /\ found' = found \union (IF noise THEN {} ELSE answers)
        /\ pending' = (pending \ {old}) \union split
    BY <1>1, <1>3, SearchHasProbe DEF Hears
  <2>2. split \subseteq Longer(old) /\ (split # {} => found' = found)
    BY <2>1 DEF Split
  <2> HIDE DEF noise, split
  <2>3. \A d \in answers : Matches(d, old)
    BY <1>1, <1>3
  <2>4. ASSUME NEW d \in device, NEW p \in pending', Matches(d, p)
        PROVE  d \notin found' /\ \A q \in pending' : Matches(d, q) => q = p
    <3>1. CASE p \in pending \ {old}
      <4>1. d \notin found /\ ~Matches(d, old) /\ \A q \in pending : Matches(d, q) => q = p
        BY <2>1, <2>4, <3>1 DEF EachOnce
      <4>2. d \notin found'
        BY <2>1, <2>3, <4>1
      <4>3. \A q \in split : ~Matches(d, q)
        BY <2>1, <2>2, <4>1, LongerWithin
      <4> QED
        BY <2>1, <4>1, <4>2, <4>3
    <3>2. CASE p \in split
      <4>1. Matches(d, old) /\ found' = found
        BY <2>1, <2>2, <2>4, <3>2, LongerWithin
      <4>2. d \notin found /\ \A q \in pending \ {old} : ~Matches(d, q)
        BY <2>1, <4>1 DEF EachOnce
      <4>3. \A q \in split : Matches(d, q) => q = p
        BY <2>1, <2>2, <2>4, <3>2, LongerOne
      <4> QED
        BY <2>1, <4>1, <4>2, <4>3
    <3> QED
      BY <2>1, <2>4, <3>1, <3>2
  <2>5. EachOnce'
    BY <1>1, <2>4 DEF EachOnce
  <2> QED
    BY <1>1, <2>5
<1> QED
  BY <1>2, <1>3

LEMMA OnceStep ==
  ASSUME BusTypeOK, OnceInv, [Next]_vars
  PROVE  OnceInv'
<1> USE DEF OnceInv
<1>1. CASE ParseMessageResponse
  <2>1. /\ UNCHANGED <<device, request, pending, found>> /\ request # Idle
        /\ answers' = {d \in on : ForMe(d, request) /\ Answers(d, request)}
    BY <1>1 DEF ParseMessageResponse
  <2>2. request.fun = "E_SerchDevice" => \A d \in answers' : Matches(d, request.probe)
    BY <2>1 DEF Answers
  <2> QED
    BY <2>1, <2>2 DEF EachOnce
<1>2. ASSUME NEW d \in device, Boot(d)
      PROVE  OnceInv'
  BY <1>2 DEF Boot, EachOnce
<1>3. CASE Searches
  BY <1>3 DEF Searches, Send, EachOnce
<1>4. CASE Asks
  <2>1. request'.fun # "E_SerchDevice" /\ UNCHANGED <<device, pending, found>>
    BY <1>4 DEF Asks, Send, Question
  <2> QED
    BY <2>1 DEF EachOnce
<1>5. CASE Hears
  BY <1>5, HearsOnce
<1>6. CASE NextRound
  <2>1. /\ pending' = Roots /\ found' = {} /\ device' = device /\ device \subseteq MAC
        /\ request'.fun = "Idle"
    BY <1>6 DEF NextRound, Idle, BusTypeOK
  <2> QED
    BY <2>1, RootsOne DEF EachOnce
<1>7. ASSUME NEW d \in device, LineLoses(d)
      PROVE  OnceInv'
  BY <1>7 DEF LineLoses, EachOnce
<1>8. CASE UNCHANGED vars
  BY <1>8 DEF vars, EachOnce
<1> QED
  BY <1>1, <1>2, <1>3, <1>4, <1>5, <1>6, <1>7, <1>8 DEF Next, Server

(* Whatever restarts, gets lost or is asked in between, no device is found    *)
(* twice in a round: together with NobodyLost, the devices of an undisturbed  *)
(* round are at each moment divided between found and the pending probes.     *)
THEOREM EachFoundOnce == Spec => []EachOnce
<1>1. BusTypeOK /\ OnceInv /\ [Next]_vars => OnceInv'
  BY OnceStep
<1>2. OnceInv => EachOnce
  BY DEF OnceInv
<1> QED
  BY <1>1, <1>2, OnceInit, BusTypeCorrect, PTL DEF Spec
=============================================================================
