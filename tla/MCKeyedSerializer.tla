-------------------------- MODULE MCKeyedSerializer --------------------------
(* Two portal instances.  One runs two sections, of which one nests the    *)
(* consumer key inside the proxy key; the other runs a nested section too. *)
EXTENDS KeyedSerializer, TLC

CONSTANTS z1, z2, approve1, palette1, approve2, proxy, consumer

MCSerializers == {z1, z2}
MCSections == {approve1, palette1, approve2}
MCKeys == {proxy, consumer}
MCSerializerOf == approve1 :> z1 @@ palette1 :> z1 @@ approve2 :> z2
MCPlan == approve1 :> <<proxy, consumer>>
          @@ palette1 :> <<proxy>>
          @@ approve2 :> <<proxy, consumer>>
=============================================================================
