-------------------------------- MODULE Turns --------------------------------
(***************************************************************************)
(* What createKeyedSerializer promises the sections of one process, and    *)
(* all they have to know of it: for each key they stand in one line, in    *)
(* the order in which they asked.  Nobody is let in while somebody else is *)
(* inside, nobody is let in or turned away before the turn comes to him,   *)
(* and nobody leaves another's place.  Leases, tokens, deadlines and the   *)
(* other processes are not mentioned.                                      *)
(***************************************************************************)
EXTENDS Sequences

CONSTANTS Serializers,   \* every serializer keeps its own lines
          Keys,
          Sections       \* those who ask

VARIABLES line,     \* line[z][k]: who has asked z for k and not left, in order
          inside    \* inside[z][k]: who of them is inside

Init ==
    /\ line = [z \in Serializers |-> [k \in Keys |-> <<>>]]
    /\ inside = [z \in Serializers |-> [k \in Keys |-> {}]]

First(z, k, s) == line[z][k] # <<>> /\ Head(line[z][k]) = s

Ask(z, k, s) ==
    /\ line' = [line EXCEPT ![z][k] = Append(@, s)]
    /\ UNCHANGED inside

Enter(z, k, s) ==
    /\ First(z, k, s) /\ inside[z][k] = {}
    /\ inside' = [inside EXCEPT ![z][k] = {s}]
    /\ UNCHANGED line

(* Having been inside, or turned away. *)
Leave(z, k, s) ==
    /\ First(z, k, s) /\ inside[z][k] \subseteq {s}
    /\ line' = [line EXCEPT ![z][k] = Tail(@)]
    /\ inside' = [inside EXCEPT ![z][k] = {}]

(* The process of z is gone, with everybody in it. *)
Vanish(z) ==
    /\ line' = [line EXCEPT ![z] = [k \in Keys |-> <<>>]]
    /\ inside' = [inside EXCEPT ![z] = [k \in Keys |-> {}]]

Next ==
    \E z \in Serializers :
      \/ Vanish(z)
      \/ \E k \in Keys, s \in Sections : Ask(z, k, s) \/ Enter(z, k, s) \/ Leave(z, k, s)

Spec == Init /\ [][Next]_<<line, inside>>
=============================================================================
