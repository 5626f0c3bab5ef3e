------------------------------ MODULE DeviceBus ------------------------------
(* Several controllers on one RS485 pair, and the server that finds them.    *)
(* A packet carries the MAC of the device it is for, or the zero MAC for     *)
(* all (ParseMessageResponse).  With E_SerchDevice the server asks for the   *)
(* devices whose low bits have a given value (RetuernMAC): silence means     *)
(* there is none, one answer carries the device's MAC, several answers       *)
(* collide into noise and the server asks with one bit more.  Devices        *)
(* restart (E_REBOOT) and are silent for a while, the line loses packets.    *)
(* The server is not part of this repository: it is the simplest one that    *)
(* the two fields of SerchDevice_STD allow.                                  *)
EXTENDS Naturals, FiniteSets

CONSTANTS
  NBits,        \* bits of a MAC (48)
  MaxDevices,   \* bound: devices on the line
  MaxRestarts,  \* bound: E_REBOOTs sent
  MaxLosses     \* bound: packets lost on the line

ASSUME BusConstants == /\ NBits \in Nat \ {0}
                       /\ MaxDevices \in Nat /\ MaxRestarts \in Nat
                       /\ MaxLosses \in Nat

(* DeviceMAC as its bits, the lowest first (memcpy into a little-endian       *)
(* uint64_t)                                                                  *)
MAC == [0 .. NBits - 1 -> {0, 1}]
ToAll == [i \in 0 .. NBits - 1 |-> 0]

(* SerchDevice_STD: the value of the bits 0 .. index                          *)
Probe == UNION {[index : {i}, MAC_val : [0 .. i -> {0, 1}]] : i \in 0 .. NBits - 1}

Question == {"E_GetStatus", "E_ReadParam", "E_SendParm", "E_REBOOT"}
Request == [to : {ToAll}, fun : {"E_SerchDevice"}, probe : Probe]
           \union [to : MAC, fun : Question]
Idle == [fun |-> "Idle"]

VARIABLES
  device,     \* the MACs on the line (chosen once)
  on,         \* the devices whose program runs
  request,    \* the packet on the line, or Idle
  answered,   \* the devices have had the request
  answers,    \* the devices that answer it
  pending,    \* probes the server has not settled in this round
  found,      \* devices that answered a probe in this round
  known,      \* devices that answered a probe in any round
  undisturbed,\* no restart and no loss since the round began
  restarts, losses   \* E_REBOOTs sent, answers lost
vars == <<device, on, request, answered, answers, pending, found, known, undisturbed,
          restarts, losses>>

-----------------------------------------------------------------------------
(* What a device does with a packet                                           *)

(* The mask pow(2, index + 1) - 1 keeps the bits 0 .. index of the own MAC.   *)
\* Mutant: the mask is pow(2, index) - 1.
Matches_OneBitLess(mac, probe) == \A i \in 0 .. probe.index - 1 : mac[i] = probe.MAC_val[i]
Matches(mac, probe) == \A i \in 0 .. probe.index : mac[i] = probe.MAC_val[i]

(* The header names nobody or this device.                                    *)
\* Mutant: the zero id is not taken as everyone.
ForMe_OwnOnly(mac, req) == req.to = mac
ForMe(mac, req) == req.to \in {ToAll, mac}

\* Mutant: a search is answered whatever the MAC is.
Answers_AnySearch(mac, req) == req.fun \in {"E_GetStatus", "E_ReadParam", "E_SerchDevice"}
(* SendStatus and ReadParms answer; SendParms only logs.                      *)
Answers(mac, req) ==
  \/ req.fun \in {"E_GetStatus", "E_ReadParam"}
  \/ req.fun = "E_SerchDevice" /\ Matches(mac, req.probe)

(* E_REBOOT: vTaskDelay in the task that receives, then esp_restart.          *)
Restarts(mac, req) == ForMe(mac, req) /\ req.fun = "E_REBOOT"

ParseMessageResponse ==
  /\ request # Idle /\ ~answered
  /\ answered' = TRUE
  /\ answers' = {d \in on : ForMe(d, request) /\ Answers(d, request)}
  /\ LET gone == {d \in on : Restarts(d, request)}
     IN  /\ on' = on \ gone
         /\ undisturbed' = (undisturbed /\ gone = {})
  /\ UNCHANGED <<device, request, pending, found, known, restarts, losses>>

(* A restarted device has run app_main as far as rs485_setup.                 *)
Boot(d) ==
  /\ d \in device \ on
  /\ on' = on \union {d}
  /\ UNCHANGED <<device, request, answered, answers, pending, found, known, undisturbed,
                 restarts, losses>>

-----------------------------------------------------------------------------
(* The server and the line                                                    *)
Roots == {[index |-> 0, MAC_val |-> [i \in {0} |-> b]] : b \in {0, 1}}

Longer(p) ==
  {[index |-> p.index + 1,
    MAC_val |-> [i \in 0 .. p.index + 1 |-> IF i <= p.index THEN p.MAC_val[i] ELSE b]] : b \in {0, 1}}

(* What noise after a probe leaves to ask                                     *)
Split(p) == IF p.index = NBits - 1 THEN {} ELSE Longer(p)

\* Mutant: an old timeout is not cleared.
Send_StillAnswered(req) == request' = req /\ answered' = answered /\ answers' = {}
Send(req) == request' = req /\ answered' = FALSE /\ answers' = {}

Searches ==
  /\ request = Idle
  /\ \E p \in pending : Send([to |-> ToAll, fun |-> "E_SerchDevice", probe |-> p])
  /\ UNCHANGED <<device, on, pending, found, known, undisturbed, restarts, losses>>

Asks ==
  /\ request = Idle
  /\ \E to \in known, fun \in Question :
       /\ fun = "E_REBOOT" => restarts < MaxRestarts
       /\ restarts' = IF fun = "E_REBOOT" THEN restarts + 1 ELSE restarts
       /\ Send([to |-> to, fun |-> fun])
  /\ UNCHANGED <<device, on, pending, found, known, undisturbed, losses>>

(* One answer is read, none is a timeout, several are noise.                  *)
Hears ==
  /\ answered
  /\ Send(Idle)
  /\ IF request.fun = "E_SerchDevice"
     THEN LET noise == \E d, e \in answers : d # e
              heard == IF noise THEN {} ELSE answers
              split == IF noise THEN Split(request.probe) ELSE {}
          IN  /\ found' = found \union heard
              /\ known' = known \union heard
              /\ pending' = (pending \ {request.probe}) \union split
     ELSE UNCHANGED <<found, known, pending>>
  /\ UNCHANGED <<device, on, undisturbed, restarts, losses>>

NextRound ==
  /\ request = Idle /\ pending = {}
  /\ pending' = Roots /\ found' = {}
  /\ undisturbed' = (on = device)
  /\ UNCHANGED <<device, on, request, answered, answers, known, restarts, losses>>

(* A device misses the request, or its answer gets lost.                      *)
LineLoses(d) ==
  /\ losses < MaxLosses /\ losses' = losses + 1
  /\ d \in answers /\ answers' = answers \ {d}
  /\ undisturbed' = FALSE
  /\ UNCHANGED <<device, on, request, answered, pending, found, known, restarts>>

-----------------------------------------------------------------------------
Init ==
  /\ device \in {ds \in SUBSET (MAC \ {ToAll}) : Cardinality(ds) <= MaxDevices}
  /\ on = device
  /\ request = Idle /\ answered = FALSE /\ answers = {}
  /\ pending = Roots /\ found = {} /\ known = {}
  /\ undisturbed = TRUE
  /\ restarts = 0 /\ losses = 0

Server == Searches \/ Asks \/ Hears \/ NextRound
Next ==
  \/ ParseMessageResponse
  \/ \E d \in device : Boot(d)
  \/ Server
  \/ \E d \in device : LineLoses(d)

Spec == Init /\ [][Next]_vars

(* Devices that are on answer, devices that restart come up, and the server   *)
(* goes on searching, whatever else it asks in between.                       *)
Fairness ==
  /\ WF_vars(ParseMessageResponse)
  /\ \A d \in MAC : WF_vars(Boot(d))
  /\ WF_vars(Hears) /\ SF_vars(Searches) /\ SF_vars(NextRound)
FairSpec == Spec /\ Fairness

-----------------------------------------------------------------------------
BusTypeOK ==
  /\ device \subseteq MAC /\ on \subseteq device
  /\ request \in Request \union {Idle}
  /\ answered \in BOOLEAN /\ (answered => request # Idle)
  /\ answers \subseteq device
  /\ pending \subseteq Probe
  /\ found \subseteq known /\ known \subseteq device
  /\ undisturbed \in BOOLEAN
  /\ restarts \in 0 .. MaxRestarts /\ losses \in 0 .. MaxLosses

(* RetuernMAC lets the search find everyone: in a round without restarts and  *)
(* losses each device has been found or is below a probe still to be asked,   *)
(* so that a finished round has found them all.                               *)
NobodyLost ==
  undisturbed => \A d \in device : d \in found \/ \E p \in pending : Matches(d, p)

(* A device that has been found is asked for no more in its round, and the    *)
(* probes still to be asked overlap nowhere: whatever restarts and gets lost, *)
(* the answers that are read are all of different devices.                    *)
EachOnce ==
  \A d \in device : \A p \in pending :
    Matches(d, p) => d \notin found /\ \A q \in pending : Matches(d, q) => q = p

(* Whatever restarts and gets lost on the way, and whatever the server asks   *)
(* in between, it ends up knowing every device on the line.                   *)
SearchComplete == <>(known = device)

=============================================================================
