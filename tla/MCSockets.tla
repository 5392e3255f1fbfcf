------------------------------ MODULE MCSockets ------------------------------
(***************************************************************************)
(* The machines a proxy's sockets are built from, which share no variable: *)
(* the life of a connection, its input, its output, the buffers of its     *)
(* packets and the functions on the texts in them.  Each behaviour runs    *)
(* one of them; the others keep their initial states.                      *)
(***************************************************************************)
EXTENDS ProxyConnections, PacketInput, PacketOutput, PacketBuffer, Text

VARIABLE part

Init ==
    /\ part \in {"connections", "input", "output", "buffer", "text"}
    /\ part # "text" => text = <<>>
    /\ ConnInit
    /\ InputInit
    /\ OutputInit
    /\ BufferInit
    /\ TextInit
    /\ part # "input" => payloads = <<>>
    /\ part # "output" => ~proxyd

Next ==
    \/ /\ part = "connections"
       /\ ConnNext
       /\ UNCHANGED <<part, inputVars, outputVars, bufferVars, textVars>>
    \/ /\ part = "input"
       /\ InputNext
       /\ UNCHANGED <<part, connVars, outputVars, bufferVars, textVars>>
    \/ /\ part = "output"
       /\ OutputNext
       /\ UNCHANGED <<part, connVars, inputVars, bufferVars, textVars>>
    \/ /\ part = "buffer"
       /\ BufferNext
       /\ UNCHANGED <<part, connVars, inputVars, outputVars, textVars>>
    \/ /\ part = "text"
       /\ TextNext
       /\ UNCHANGED <<part, connVars, inputVars, outputVars, bufferVars>>

vars == <<part, connVars, inputVars, outputVars, bufferVars, textVars>>

Spec ==
    /\ Init
    /\ [][Next]_vars
    /\ part = "connections" => ConnFairness

-----------------------------------------------------------------------------
(* Type correctness of the machines of a connection.                       *)
TypeOK == ConnTypeOK /\ InputTypeOK /\ OutputTypeOK

-----------------------------------------------------------------------------
(* Values of the constants.                                                *)

MCNumber == {<<1, 255>>, <<2, 513>>, <<4, 16777216>>}
MCString == {<<>>, <<65, 98>>}
MCVector == {<<>>, <<0, 7>>}
MCGuid == {[i \in 1 .. 8 |-> 0], <<3, 0, 9, 0, 0, 0, 0, 255>>}

(* The empty text, and texts about as long as a name may be.               *)
MCPrefix == {[i \in 1 .. n |-> 97] : n \in {0, 11, 12}}
=============================================================================
