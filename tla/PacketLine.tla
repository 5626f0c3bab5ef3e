------------------------------ MODULE PacketLine ------------------------------
(***************************************************************************)
(* What the RS485 line promises whoever sends packets over it, without     *)
(* bytes, escapes or buffers.  A packet is sound from its beginning on     *)
(* until something disturbs it.  A sound packet that is short enough is    *)
(* handed over when it ends, once and as it was sent, and nothing else is  *)
(* while it is under way, whatever happened before it.  Of a disturbed     *)
(* packet, of one too long, and of noise before the beginning nothing is   *)
(* promised, but that each disturbance or byte hands over at most one      *)
(* message.  SlipLink implements this.                                     *)
(***************************************************************************)
EXTENDS Naturals, Sequences

CONSTANTS
    Packet,
    Short,     \* those that fit the receiver
    MaxDamage  \* bound: disturbances of a packet

VARIABLES
    sent,      \* all packets sent, the last one perhaps still under way
    line,      \* its state: "idle", "begun", "sound", "damaged"
    damage,    \* disturbances since it was sent
    accepted   \* the messages handed over

lineVars == <<sent, line, damage, accepted>>

LineInit == sent = <<>> /\ line = "idle" /\ damage = 0 /\ accepted = <<>>

\* Perhaps a message is handed over, and it may be any.
MaybeOne ==
    accepted' = accepted
        \/ /\ Len(accepted') = Len(accepted) + 1
           /\ SubSeq(accepted', 1, Len(accepted)) = accepted

Send ==
    /\ line = "idle" /\ line' = "begun" /\ damage' = 0
    /\ \E p \in Packet : sent' = Append(sent, p)
    /\ UNCHANGED accepted

Begin == line = "begun" /\ line' = "sound" /\ UNCHANGED <<sent, damage, accepted>>

Deliver ==
    /\ line = "sound" /\ line' = "idle"
    /\ LET p == sent[Len(sent)]
       IN  IF p \in Short THEN accepted' = Append(accepted, p) ELSE MaybeOne
    /\ UNCHANGED <<sent, damage>>

\* The rest of a damaged packet.
Rest ==
    /\ line = "damaged" /\ line' \in {"damaged", "idle"}
    /\ MaybeOne
    /\ UNCHANGED <<sent, damage>>

\* Noise before or between packets leaves the next one sound.
Disturb ==
    /\ damage < MaxDamage /\ damage' = damage + 1
    /\ \/ line \in {"idle", "begun"} /\ UNCHANGED line
       \/ line \in {"begun", "sound", "damaged"} /\ line' = "damaged"
       \/ line \in {"sound", "damaged"} /\ line' = "idle"
    /\ MaybeOne
    /\ UNCHANGED sent

LineNext == Send \/ Begin \/ Deliver \/ Rest \/ Disturb

LineSpec == LineInit /\ [][LineNext]_lineVars
==============================================================================
