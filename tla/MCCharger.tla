----------------------------- MODULE MCCharger ------------------------------
(* The charger with rings of three samples. *)
EXTENDS ChargerSystem

\* No car, state C, and a short to PE.
Cars == {12000, 6000, 0}

\* What no guard and no property depends on is left out: the events, the lock and
\* its countdown, what only those need, the voltages of an invalid signal, and of
\* the present state all but whether it is Disabled.
StateView ==
    <<curState = "Disabled", prevState, curPwmRunning, prevPwmRunning, powerOnAllowed, pwmStop, cpOut, power,
      highAvg, lowAvg, car, since, hasty, served,
      IF rawSignal.valid THEN <<rawSignal.high, rawSignal.low>> ELSE <<>> >>
=============================================================================
