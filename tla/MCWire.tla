------------------------------- MODULE MCWire -------------------------------
(* Gamepad states for Wire: every button and trigger alone and all together,  *)
(* every combination of the d-pad, and the positions around the ends of the   *)
(* range, the dead zone and a step of the output on each stick.               *)
EXTENDS Wire

Positions == {-32768, -32513, -32512, -10241, -10240, -10001, -10000, -9999,
              -1, 1, 9999, 10000, 10239, 10240, 32511, 32512, 32767}

MCInputs ==
    {[Idle EXCEPT !.held = h] :
        h \in {{s} : s \in SdlButtons} \union {{}, SdlButtons}}
    \union {[Idle EXCEPT !.trigger[t] = v] : t \in Triggers, v \in {1, 32767}}
    \union {[Idle EXCEPT !.held = SdlButtons, !.trigger = [t \in Triggers |-> 1]]}
    \union {[Idle EXCEPT !.dpad = d] : d \in SUBSET {"UP", "RIGHT", "DOWN", "LEFT"}}
    \union {[Idle EXCEPT !.axis[Sticks[i]] = v,
                         !.axis[Sticks[(i % 4) + 1]] = -v - 1] :
              i \in 1..4, v \in Positions}
=============================================================================
