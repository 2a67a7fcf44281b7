--------------------------- MODULE MCAviarySimulation ---------------------------
(* AviarySimulation on a small instance: configurations of two actors.       *)
EXTENDS AviarySimulation

To(place, speed, delay) == [to |-> place, speed |-> speed, delay |-> delay]
Actor(origin, trace, cycling, speed) ==
  [origin |-> origin, trace |-> trace, cycling |-> cycling, speed |-> speed]

Once     == Actor(1, <<To(4, 2, 3), To(0, 1, 0)>>, FALSE, None)
Circle   == Actor(0, <<To(3, 2, 1), To(1, 1, 0)>>, TRUE, 1)
Still    == Actor(2, <<>>, TRUE, None)
Stumbles == Actor(2, <<To(4, 1, 0)>>, TRUE, None)

SomeConfigs == { <<Once, Still>>, <<Circle, Still>>, <<Once, Stumbles>>, <<Stumbles, Circle>> }
SomePlaces == 0 .. 4
SomeAngles == {-5, 0, 2, 5}
SomeRates == {-3, 0}
=============================================================================
