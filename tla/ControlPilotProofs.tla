-------------------------- MODULE ControlPilotProofs ------------------------
(***************************************************************************)
(* The delivered duty cycle and the triggers of the sampler, for every     *)
(* period, every size of the registers, every latency below one period and *)
(* any sequence of duty cycles.                                            *)
(***************************************************************************)
EXTENDS ControlPilot, TLAPS

\* What calculate_match_ticks returns for the duty cycle asked for.
Match == calculate_match_ticks(IF asked < 0 THEN 0 ELSE Percent(asked))

Types ==
    /\ counter \in Reload .. Word - 1 /\ tmar \in Reload + 1 .. Word - 1
    /\ trg \in BOOLEAN /\ scpwm \in {0, 1} /\ out \in {0, 1}
    /\ irq \subseteq Flags /\ waited \in [Flags -> 0 .. Latency]
    /\ step \in {"out", "match", "control"}
    /\ asked \in Int /\ commands \in Nat
    /\ still \in 0 .. 2
    /\ sample \in [half : {"none", "high", "low"}, level : {0, 1}, steady : BOOLEAN]

\* Registers and output are those of the duty cycle asked for once set_pwm has
\* returned; before that its period does not count as undisturbed.
Registers ==
    /\ step # "out" => ticks = Match /\ still = 0 /\ ~sample.steady
    /\ step = "match" => Pulsing(Match)
    /\ step = "control" /\ Pulsing(Match) => tmar = Word - Match
    /\ step = "out" =>
         /\ trg = Pulsing(Match)
         /\ trg => tmar = Word - Match
         /\ Match = 0 => out = 1
         /\ Match = Period => out = 0

\* In an undisturbed period a triggered output is high in front of the match ...
Output ==
    still >= 1 =>
        /\ trg => out = (IF counter < tmar THEN 1 ELSE 0)
        /\ trg => high = (IF counter < tmar THEN counter ELSE tmar) - Reload
        /\ ~trg => high = out * (counter - Reload)

\* ... and a period that ends undisturbed was high for all of its high part.
Delivered == delivered = -1 \/ delivered = Period - Match

\* How long the flags have been waiting, from the counter: an overflow that is
\* pending is the last one; a match was raised in this period or the one before.
Pending ==
    /\ "overflow" \in irq => counter = Reload + waited["overflow"]
    /\ "match" \in irq /\ still = 1 =>
         counter = tmar + waited["match"] \/ waited["match"] > counter - Reload
    /\ "match" \in irq /\ still = 2 =>
         counter = tmar + waited["match"] \/ counter = tmar + waited["match"] - Period

PilotInv == Types /\ Registers /\ Output /\ Delivered /\ Pending /\ SampledInPart

-----------------------------------------------------------------------------
(* The arithmetic of the duty cycle. *)

\* Per cent of the duty cycle asked for, as calculate_match_ticks limits it.
Limited == Min2(IF asked < 0 THEN 0 ELSE Percent(asked), 100)

\* The truncations cost less than two per cent and never add one.
LEMMA LimitedRange ==
    ASSUME asked \in Int
    PROVE  /\ Limited \in 0 .. 100
           /\ Clipped \in 0 .. 1000
           /\ 10 * Limited <= Clipped /\ Clipped <= 10 * Limited + 19
  BY DEF Limited, Clipped, Min2, Percent

\* Rounding down of the product.
LEMMA MatchRounded ==
    ASSUME asked \in Int
    PROVE  /\ Match \in 0 .. Period
           /\ 100 * Match <= (100 - Limited) * Period
           /\ (100 - Limited) * Period < 100 * Match + 100
  <1>1. Limited \in 0 .. 100 /\ Period \in Nat
    BY LimitedRange, PilotAssumption
  <1>2. Match = ((100 - Limited) * Period) \div 100
    BY DEF Match, calculate_match_ticks, Limited
  <1>3. \A x \in Nat, y \in Nat : x * y \in Nat
    OBVIOUS
  <1>4. 100 - Limited \in Nat /\ Limited \in Nat
    BY <1>1
  <1>5. (100 - Limited) * Period \in Nat /\ Limited * Period \in Nat
    BY <1>1, <1>3, <1>4
  <1>6. (100 - Limited) * Period = 100 * Period - Limited * Period
    BY <1>1
  <1> DEFINE product == (100 - Limited) * Period
  <1>7. product \in Nat /\ product <= 100 * Period
    BY <1>1, <1>5, <1>6
  <1> HIDE DEF product
  <1>8. /\ product \div 100 \in Int
        /\ 100 * (product \div 100) <= product /\ product < 100 * (product \div 100) + 100
    BY <1>7
  <1>9. product \div 100 \in 0 .. Period
    BY <1>1, <1>7, <1>8
  <1> QED
    BY <1>2, <1>8, <1>9 DEF product

\* A period that is high but for the match ticks has the duty cycle asked for.
LEMMA DutyOfMatch ==
    ASSUME asked \in Int
    PROVE  /\ 1000 * (Period - Match) < Clipped * Period + 1000
           /\ 1000 * (Period - Match) > (Clipped - 20) * Period
  <1>1. /\ Limited \in Int /\ Clipped \in Int /\ Match \in Int
        /\ 10 * Limited <= Clipped /\ Clipped <= 10 * Limited + 19
        /\ 100 * Match <= (100 - Limited) * Period
        /\ (100 - Limited) * Period < 100 * Match + 100
    BY LimitedRange, MatchRounded
  <1>2. Period \in Nat /\ Period > 0
    BY PilotAssumption
  <1>3. \A x \in Nat : x * Period >= 0
    BY <1>2
  <1>4. (Clipped - 10 * Limited) * Period >= 0 /\ (10 * Limited + 19 - Clipped) * Period >= 0
    BY <1>1, <1>3
  <1> DEFINE L == Limited * Period
             C == Clipped * Period
  <1>5. /\ (Clipped - 10 * Limited) * Period = C - 10 * L
        /\ (10 * Limited + 19 - Clipped) * Period = 10 * L + 19 * Period - C
        /\ (100 - Limited) * Period = 100 * Period - L
        /\ (Clipped - 20) * Period = C - 20 * Period
        /\ L \in Int /\ C \in Int
    BY <1>1, <1>2
  <1> HIDE DEF L, C
  <1>6. 1000 * (Period - Match) < C + 1000 /\ 1000 * (Period - Match) > C - 20 * Period
    BY <1>1, <1>2, <1>4, <1>5
  <1> QED
    BY <1>5, <1>6 DEF C

-----------------------------------------------------------------------------
(* The registers. *)

LEMMA Constants ==
    /\ Word \in Nat /\ Period \in Nat /\ Latency \in Nat /\ Reload \in Nat
    /\ Period >= 100 /\ Latency < Period /\ Reload = Word - Period /\ Reload >= 1
    /\ MaxCommands \in Nat /\ Duties \subseteq Int
  BY PilotAssumption DEF Reload

\* The match word of a pulse lies inside the period.
LEMMA MatchWordInside ==
    ASSUME NEW t \in Int, 0 < t, t < Period
    PROVE  MatchWord(t) = Word - t /\ MatchWord(t) \in Reload + 1 .. Word - 1
  <1>1. Word - 1 - t + 1 = Word - t /\ Word - t \in 0 .. Word - 1 /\ Word > 0
    BY Constants
  <1>2. \A n \in Nat : n > 0 => \A a \in 0 .. n - 1 : a % n = a
    OBVIOUS
  <1>3. MatchWord(t) = Word - t
    BY <1>1, <1>2, Constants DEF MatchWord
  <1> QED
    BY <1>3, Constants

\* What a tick does to counter and flags: an overflow cannot meet one that is
\* still pending, and never coincides with a match.
LEMMA TickFacts ==
    ASSUME Types, Pending, Tick
    PROVE  /\ UNCHANGED <<tmar, trg, scpwm, step, ticks, asked, commands, sample>>
           /\ counter = Word - 1 => /\ counter' = Reload /\ Raised = {"overflow"}
                                    /\ "overflow" \notin irq
           /\ counter # Word - 1 => /\ counter' = counter + 1
                                    /\ Raised = IF counter + 1 = tmar THEN {"match"} ELSE {}
           /\ irq' = irq \cup Raised
           /\ \A flag \in irq : waited[flag] < Latency /\ waited'[flag] = waited[flag] + 1
           /\ \A flag \in Flags \ irq : waited'[flag] = 0
  <1>1. /\ UNCHANGED <<tmar, trg, scpwm, step, ticks, asked, commands, sample>>
        /\ counter' = IF counter = Word - 1 THEN Reload ELSE counter + 1
        /\ irq' = irq \cup Raised
        /\ waited' = [flag \in Flags |-> IF flag \in irq THEN waited[flag] + 1 ELSE 0]
        /\ \A flag \in irq : waited[flag] < Latency
    BY DEF Tick, call
  <1>2. irq \subseteq Flags /\ counter \in Int /\ tmar \in Reload + 1 .. Word - 1
    BY Constants DEF Types
  <1>3. CASE counter = Word - 1
    <2>1. counter' = Reload /\ Reload # tmar
      BY <1>1, <1>2, <1>3, Constants
    <2>2. Raised = {"overflow"}
      BY <1>3, <2>1 DEF Raised
    <2>3. "overflow" \notin irq
      <3>1. SUFFICES ASSUME "overflow" \in irq PROVE FALSE
        OBVIOUS
      <3>2. waited["overflow"] < Latency /\ waited["overflow"] \in 0 .. Latency
        BY <1>1, <3>1 DEF Types, Flags
      <3>3. Word - 1 = Reload + waited["overflow"]
        BY <1>3, <3>1 DEF Pending
      <3> QED
        BY <3>2, <3>3, Constants
    <2>4. \A flag \in irq : waited'[flag] = waited[flag] + 1
      BY <1>1, <1>2
    <2>5. \A flag \in Flags \ irq : waited'[flag] = 0
      BY <1>1, <1>2
    <2> QED
      BY <1>1, <1>3, <2>1, <2>2, <2>3, <2>4, <2>5
  <1>4. CASE counter # Word - 1
    <2>1. Raised = IF counter + 1 = tmar THEN {"match"} ELSE {}
      BY <1>1, <1>4 DEF Raised
    <2>4. \A flag \in irq : waited'[flag] = waited[flag] + 1
      BY <1>1, <1>2
    <2>5. \A flag \in Flags \ irq : waited'[flag] = 0
      BY <1>1, <1>2
    <2> QED
      BY <1>1, <1>4, <2>1, <2>4, <2>5
  <1> QED
    BY <1>3, <1>4

\* What a tick does to the output and to the history.
LEMMA TickOutput ==
    ASSUME Types, Pending, Tick
    PROVE  /\ ~trg => out' = out
           /\ trg /\ counter = Word - 1 => out' = 1
           /\ trg /\ counter # Word - 1 => out' = IF counter + 1 = tmar THEN 0 ELSE out
           /\ step # "out" => UNCHANGED <<delivered, still, high>>
           /\ step = "out" /\ counter = Word - 1 =>
                /\ delivered' = IF still >= 1 THEN high + out ELSE -1
                /\ still' = Min2(still + 1, 2) /\ high' = 0
           /\ step = "out" /\ counter # Word - 1 =>
                /\ high' = IF still = 0 THEN 0 ELSE high + out
                /\ UNCHANGED <<delivered, still>>
  <1>1. /\ counter = Word - 1 => Raised = {"overflow"}
        /\ counter # Word - 1 => Raised = IF counter + 1 = tmar THEN {"match"} ELSE {}
    BY TickFacts
  <1>2. out' = CASE trg /\ "match" \in Raised   -> 0
                 [] trg /\ Raised = {"overflow"} -> 1
                 [] OTHER                        -> out
    BY DEF Tick
  <1>3. counter = Word - 1 => "match" \notin Raised /\ Raised = {"overflow"}
    BY <1>1
  <1>4. counter # Word - 1 => /\ Raised # {"overflow"}
                              /\ "match" \in Raised <=> counter + 1 = tmar
    BY <1>1
  <1>5. /\ ~trg => out' = out
        /\ trg /\ counter = Word - 1 => out' = 1
        /\ trg /\ counter # Word - 1 => out' = IF counter + 1 = tmar THEN 0 ELSE out
    <2>1. ~trg => out' = out
      BY <1>2
    <2>2. trg /\ counter = Word - 1 => out' = 1
      BY <1>2, <1>3
    <2>3. trg /\ counter # Word - 1 => out' = IF counter + 1 = tmar THEN 0 ELSE out
      BY <1>2, <1>4
    <2> QED
      BY <2>1, <2>2, <2>3
  <1>6. /\ step # "out" => UNCHANGED <<delivered, still, high>>
        /\ step = "out" /\ "overflow" \in Raised =>
             /\ delivered' = IF still >= 1 THEN high + out ELSE -1
             /\ still' = Min2(still + 1, 2) /\ high' = 0
        /\ step = "out" /\ "overflow" \notin Raised =>
             /\ high' = IF still = 0 THEN 0 ELSE high + out
             /\ UNCHANGED <<delivered, still>>
    BY DEF Tick
  <1>7. /\ counter = Word - 1 => "overflow" \in Raised
        /\ counter # Word - 1 => "overflow" \notin Raised
    BY <1>1
  <1>8. step = "out" /\ counter = Word - 1 =>
          /\ delivered' = IF still >= 1 THEN high + out ELSE -1
          /\ still' = Min2(still + 1, 2) /\ high' = 0
    BY <1>6, <1>7
  <1>9. step = "out" /\ counter # Word - 1 =>
          /\ high' = IF still = 0 THEN 0 ELSE high + out
          /\ UNCHANGED <<delivered, still>>
    BY <1>6, <1>7
  <1>10. step # "out" => UNCHANGED <<delivered, still, high>>
    BY <1>6
  <1> QED
    BY <1>5, <1>8, <1>9, <1>10

-----------------------------------------------------------------------------
(* The invariant is inductive. *)

\* A tick.
LEMMA TickStep ==
    ASSUME PilotInv, Tick
    PROVE  PilotInv'
  <1> USE Constants DEF PilotInv
  <1>1. Match' = Match /\ Match \in 0 .. Period
    BY TickFacts, MatchRounded DEF Match, Types
  <1>2. Types'
    <2>1. counter' \in Reload .. Word - 1 /\ irq' \subseteq Flags
      <3>1. Raised \subseteq Flags /\ irq' = irq \cup Raised
        BY TickFacts DEF Raised, Flags
      <3>2. irq' \subseteq Flags
        BY <3>1 DEF Types
      <3>3. counter' \in Reload .. Word - 1
        BY TickFacts DEF Types
      <3> QED
        BY <3>2, <3>3
    <2>2. waited' \in [Flags -> 0 .. Latency]
      BY DEF Tick, Types
    <2>3. out' \in {0, 1} /\ still' \in 0 .. 2
      BY TickOutput DEF Types, Min2
    <2> QED
      BY <2>1, <2>2, <2>3, TickFacts DEF Types
  <1>3. Registers'
    <2>1. step = "out" /\ Match = 0 => ~trg /\ out' = out
      BY TickOutput DEF Registers, Pulsing
    <2>2. step = "out" /\ Match = Period => ~trg /\ out' = out
      <3>1. Match = Period => ~Pulsing(Match)
        BY DEF Pulsing
      <3> QED
        BY <3>1, TickOutput DEF Registers
    <2>3. step # "out" => still' = still
      BY TickOutput
    <2> QED
      BY <1>1, <2>1, <2>2, <2>3, TickFacts DEF Registers, Pulsing
  <1>4. Output'
    <2>1. CASE step # "out"
      BY <2>1, TickOutput, TickFacts DEF Registers, Output
    <2>2. CASE step = "out" /\ counter = Word - 1
      BY <2>2, TickOutput, TickFacts DEF Output, Types
    <2>3. CASE step = "out" /\ counter # Word - 1
      BY <2>3, TickOutput, TickFacts DEF Output, Types
    <2> QED
      BY <2>1, <2>2, <2>3
  <1>5. Delivered'
    <2>1. CASE step = "out" /\ counter = Word - 1 /\ still >= 1
      <3>1. delivered' = high + out
        BY <2>1, TickOutput
      <3>2. CASE trg
        BY <1>1, <2>1, <3>1, <3>2 DEF Output, Registers, Delivered, Types
      <3>3. CASE ~trg
        <4>1. high = out * (Period - 1)
          BY <2>1, <3>3 DEF Output
        <4>2. Match = 0 \/ Match = Period
          <5>1. ~Pulsing(Match)
            BY <2>1, <3>3 DEF Registers
          <5> QED
            BY <1>1, <5>1 DEF Pulsing
        <4>3. (Match = 0 => out = 1) /\ (Match = Period => out = 0)
          BY <2>1 DEF Registers
        <4> QED
          BY <1>1, <3>1, <4>1, <4>2, <4>3 DEF Delivered
      <3> QED
        BY <3>2, <3>3
    <2>2. CASE ~(step = "out" /\ counter = Word - 1 /\ still >= 1)
      BY <1>1, <2>2, TickOutput DEF Delivered, Types
    <2> QED
      BY <2>1, <2>2
  <1>6. Pending'
    <2>1. "overflow" \in irq' => counter' = Reload + waited'["overflow"]
      BY TickFacts DEF Pending, Types, Flags
    <2>2. CASE counter = Word - 1
      <3>1. "match" \in irq' => /\ "match" \in irq /\ waited'["match"] = waited["match"] + 1
                                /\ waited["match"] \in 0 .. Latency - 1
        BY <2>2, TickFacts DEF Types, Flags
      <3>2. still' >= 1 => still' = 1 \/ still >= 1
        BY <2>2, TickOutput DEF Registers, Types, Min2
      <3> QED
        BY <2>1, <2>2, <3>1, <3>2, TickFacts DEF Pending, Types
    <2>3. CASE counter # Word - 1
      <3>1. still' = still
        BY <2>3, TickOutput
      <3>2. CASE "match" \in irq
        BY <2>1, <2>3, <3>1, <3>2, TickFacts DEF Pending, Types, Flags
      <3>3. CASE "match" \notin irq
        BY <2>1, <2>3, <3>1, <3>3, TickFacts DEF Pending, Types, Flags
      <3> QED
        BY <3>2, <3>3
    <2> QED
      BY <2>2, <2>3
  <1>7. SampledInPart'
    BY TickFacts DEF SampledInPart, HighPart
  <1> QED
    BY <1>2, <1>3, <1>4, <1>5, <1>6, <1>7

\* The interrupt: it comes no later than Latency after its flag.
LEMMA IsrStep ==
    ASSUME PilotInv, pwm_timer_isr
    PROVE  PilotInv'
  <1> USE Constants DEF PilotInv
  <1> DEFINE flag == IF "overflow" \in irq THEN "overflow" ELSE "match"
  <1>1. /\ UNCHANGED <<counter, tmar, trg, scpwm, out, step, ticks, asked, commands>>
        /\ UNCHANGED <<still, high, delivered>>
        /\ irq # {} /\ irq' = irq \ {flag}
        /\ waited' = [waited EXCEPT ![flag] = 0]
        /\ sample' = [half |-> HalfOf(flag), level |-> out, steady |-> trg /\ still = 2]
    BY DEF pwm_timer_isr, call
  <1>2. Match' = Match
    BY <1>1 DEF Match
  <1>3. flag \in irq /\ flag \in Flags
    BY <1>1 DEF Types, Flags
  <1>4. Types'
    <2>1. waited' \in [Flags -> 0 .. Latency]
      BY <1>1, <1>3 DEF Types
    <2>2. sample' \in [half : {"none", "high", "low"}, level : {0, 1}, steady : BOOLEAN]
      <3>1. (trg /\ still = 2) \in BOOLEAN
        OBVIOUS
      <3>2. HalfOf(flag) \in {"none", "high", "low"} /\ out \in {0, 1}
        BY DEF HalfOf, Types
      <3> QED
        BY <1>1, <3>1, <3>2
    <2>3. irq' \subseteq Flags
      BY <1>1 DEF Types
    <2> QED
      BY <1>1, <2>1, <2>2, <2>3 DEF Types
  <1>5. Registers'
    <2>1. step # "out" => ~sample'.steady
      <3>1. step # "out" => still = 0
        BY DEF Registers
      <3>2. sample'.steady => still = 2
        BY <1>1
      <3> QED
        BY <3>1, <3>2
    <2> QED
      BY <1>1, <1>2, <2>1 DEF Registers
  <1>6. Output' /\ Delivered'
    BY <1>1, <1>2 DEF Output, Delivered
  <1>7. Pending'
    <2>1. "overflow" \notin irq'
      BY <1>1
    <2>2. "match" \in irq' => "match" \in irq /\ waited'["match"] = waited["match"]
      BY <1>1 DEF Types, Flags
    <2> QED
      BY <1>1, <2>1, <2>2 DEF Pending
  <1>8. SampledInPart'
    <2>1. /\ sample'.steady <=> trg /\ still = 2
          /\ sample'.half = HalfOf(flag) /\ sample'.level = out
          /\ HighPart' = HighPart
      BY <1>1 DEF HighPart
    <2>2. waited[flag] \in 0 .. Latency /\ counter \in Reload .. Word - 1 /\ tmar \in Int
      BY <1>3 DEF Types
    <2>3. CASE sample'.steady
      <3>1. out = (IF counter < tmar THEN 1 ELSE 0)
        BY <2>1, <2>3 DEF Output
      <3>2. flag = "overflow" /\ HighPart > Latency => out = 1
        BY <1>3, <2>2, <3>1 DEF Pending, HighPart
      <3>3. ASSUME flag = "match", Period - HighPart > Latency
            PROVE  out = 0
        <4>1. counter = tmar + waited[flag] \/ counter = tmar + waited[flag] - Period
          BY <1>3, <2>1, <2>3, <3>3 DEF Pending
        <4> QED
          BY <2>2, <3>1, <3>3, <4>1 DEF HighPart
      <3>4. /\ HalfOf(flag) = "high" => flag = "overflow"
            /\ HalfOf(flag) = "low" => flag = "match"
        BY DEF HalfOf
      <3> QED
        BY <2>1, <3>2, <3>3, <3>4 DEF SampledInPart
    <2>4. CASE ~sample'.steady
      BY <2>4 DEF SampledInPart
    <2> QED
      BY <2>3, <2>4
  <1> QED
    BY <1>4, <1>5, <1>6, <1>7, <1>8

\* A call: its ticks are those of the duty cycle it asks for, nothing is steady.
LEMMA SetStep ==
    ASSUME PilotInv, NEW duty \in Int, set_pwm(duty)
    PROVE  PilotInv'
  <1> USE Constants DEF PilotInv
  <1>1. /\ UNCHANGED <<counter, tmar, trg, scpwm, out, irq, waited>>
        /\ step = "out" /\ commands' = commands + 1 /\ asked' = duty
        /\ step' = IF WritesMatch(ticks') THEN "match" ELSE "control"
        /\ still' = 0 /\ delivered' = -1
        /\ sample' = [sample EXCEPT !.steady = FALSE]
    BY DEF set_pwm, timer
  <1>2. ticks' = Match'
    BY DEF set_pwm, Match
  <1>3. WritesMatch(ticks') <=> Pulsing(Match')
    BY <1>2 DEF WritesMatch, Pulsing
  <1>4. ~sample'.steady
    BY <1>1 DEF Types
  <1>5. Types'
    <2>1. sample' \in [half : {"none", "high", "low"}, level : {0, 1}, steady : BOOLEAN]
      BY <1>1 DEF Types
    <2>2. step' \in {"out", "match", "control"}
      BY <1>1
    <2>3. commands' \in Nat /\ asked' \in Int /\ still' \in 0 .. 2
      BY <1>1 DEF Types
    <2> QED
      BY <1>1, <2>1, <2>2, <2>3 DEF Types
  <1>6. Registers'
    BY <1>1, <1>2, <1>3, <1>4 DEF Registers
  <1>7. Output' /\ Delivered' /\ Pending'
    BY <1>1 DEF Output, Delivered, Pending
  <1>8. SampledInPart'
    BY <1>4 DEF SampledInPart
  <1> QED
    BY <1>5, <1>6, <1>7, <1>8

\* The match register.
LEMMA WriteMatchStep ==
    ASSUME PilotInv, WriteMatch
    PROVE  PilotInv'
  <1> USE Constants DEF PilotInv
  <1>1. /\ UNCHANGED <<counter, trg, scpwm, out, irq, waited, ticks, asked, commands, sample>>
        /\ step = "match" /\ tmar' = MatchWord(ticks) /\ step' = "control"
        /\ still' = 0 /\ delivered' = -1
    BY DEF WriteMatch
  <1>2. Match' = Match /\ Match \in 0 .. Period
    BY <1>1, MatchRounded DEF Match, Types
  <1>3. ticks = Match /\ Pulsing(Match) /\ ~sample.steady
    BY <1>1 DEF Registers
  <1>4. tmar' = Word - Match /\ tmar' \in Reload + 1 .. Word - 1
    BY <1>1, <1>2, <1>3, MatchWordInside DEF Pulsing
  <1>5. Types'
    BY <1>1, <1>4 DEF Types
  <1>6. Registers'
    BY <1>1, <1>2, <1>3, <1>4 DEF Registers
  <1>7. Output' /\ Delivered' /\ Pending'
    BY <1>1 DEF Output, Delivered, Pending
  <1>8. SampledInPart'
    BY <1>1, <1>3 DEF SampledInPart
  <1> QED
    BY <1>5, <1>6, <1>7, <1>8

\* The control register: a pulse, or the level of a constant output.
LEMMA WriteControlStep ==
    ASSUME PilotInv, WriteControl
    PROVE  PilotInv'
  <1> USE Constants DEF PilotInv
  <1>1. /\ UNCHANGED <<counter, tmar, irq, waited, asked, commands, sample>>
        /\ step = "control" /\ trg' = Pulsing(ticks)
        /\ scpwm' = IF ticks = 0 THEN 1 ELSE 0
        /\ out' = IF trg' THEN out ELSE scpwm'
        /\ step' = "out" /\ still' = 0 /\ delivered' = -1
    BY DEF WriteControl
  <1>2. Match' = Match
    BY <1>1 DEF Match
  <1>3. ticks = Match /\ ~sample.steady
    BY <1>1 DEF Registers
  <1>4. trg' = Pulsing(Match) /\ trg' \in BOOLEAN
    BY <1>1, <1>3 DEF Pulsing
  <1>5. trg' => tmar = Word - Match
    BY <1>1, <1>4 DEF Registers
  <1>6. (Match = 0 => out' = 1) /\ (Match = Period => out' = 0)
    <2>1. Match = 0 \/ Match = Period => ~trg'
      <3>1. Match = 0 \/ Match = Period => ~Pulsing(Match)
        BY DEF Pulsing
      <3> QED
        BY <1>4, <3>1
    <2>2. Match = 0 => scpwm' = 1
      BY <1>1, <1>3
    <2>3. Match = Period => scpwm' = 0
      BY <1>1, <1>3
    <2> QED
      BY <1>1, <2>1, <2>2, <2>3
  <1>7. Types'
    BY <1>1, <1>4 DEF Types
  <1>8. Registers'
    BY <1>1, <1>2, <1>4, <1>5, <1>6 DEF Registers
  <1>9. Output' /\ Delivered' /\ Pending'
    BY <1>1 DEF Output, Delivered, Pending
  <1>10. SampledInPart'
    BY <1>1, <1>3 DEF SampledInPart
  <1> QED
    BY <1>7, <1>8, <1>9, <1>10

\* The constructor leaves the output low, as for a duty cycle of nothing.
LEMMA PilotInit ==
    ASSUME Init
    PROVE  PilotInv
  <1> USE Constants
  <1>1. calculate_match_ticks(50) \in 1 .. Period - 1
    BY DEF calculate_match_ticks, Min2
  <1>2. tmar = Word - calculate_match_ticks(50) /\ tmar \in Reload + 1 .. Word - 1
    BY <1>1, MatchWordInside DEF Init
  <1>3. Match = Period
    BY DEF Init, Match, calculate_match_ticks, Min2, Percent
  <1>4. Types
    <2>1. waited \in [Flags -> 0 .. Latency] /\ irq \subseteq Flags
      BY DEF Init
    <2>2. sample \in [half : {"none", "high", "low"}, level : {0, 1}, steady : BOOLEAN]
      BY DEF Init
    <2>3. trg \in BOOLEAN /\ scpwm \in {0, 1} /\ out \in {0, 1}
      BY DEF Init
    <2>4. counter \in Reload .. Word - 1
      BY DEF Init
    <2>5. /\ step \in {"out", "match", "control"}
          /\ asked \in Int /\ commands \in Nat /\ still \in 0 .. 2
      BY DEF Init
    <2> QED
      BY <1>2, <2>1, <2>2, <2>3, <2>4, <2>5 DEF Types
  <1>5. Registers
    <2>1. step = "out" /\ trg = FALSE /\ out = 0
      BY DEF Init
    <2>2. ~Pulsing(Match) /\ Match # 0
      BY <1>3 DEF Pulsing
    <2>3. trg = Pulsing(Match)
      BY <2>1, <2>2 DEF Pulsing
    <2> QED
      BY <2>1, <2>2, <2>3 DEF Registers
  <1>6. Output /\ Delivered /\ Pending /\ SampledInPart
    BY DEF Init, Output, Delivered, Pending, SampledInPart
  <1> QED
    BY <1>4, <1>5, <1>6 DEF PilotInv

\* Nothing happens.
LEMMA PilotStutter ==
    ASSUME PilotInv, UNCHANGED vars
    PROVE  PilotInv'
  BY DEF PilotInv, vars, timer, call, history, Types, Registers, Output, Delivered, Pending,
         SampledInPart, HighPart, Match, Pulsing

THEOREM PilotInvariant == Spec => []PilotInv
  <1>1. Init => PilotInv
    BY PilotInit
  <1>2. PilotInv /\ [Next]_vars => PilotInv'
    <2> SUFFICES ASSUME PilotInv, [Next]_vars PROVE PilotInv'
      OBVIOUS
    <2>1. CASE Tick
      BY <2>1, TickStep
    <2>2. CASE pwm_timer_isr
      BY <2>2, IsrStep
    <2>3. ASSUME NEW duty \in Duties, set_pwm(duty) PROVE PilotInv'
      BY <2>3, SetStep, Constants
    <2>4. CASE enable \/ disable
      BY <2>4, SetStep DEF enable, disable
    <2>5. CASE WriteMatch
      BY <2>5, WriteMatchStep
    <2>6. CASE WriteControl
      BY <2>6, WriteControlStep
    <2>7. CASE UNCHANGED vars
      BY <2>7, PilotStutter
    <2> QED
      BY <2>1, <2>2, <2>3, <2>4, <2>5, <2>6, <2>7 DEF Next
  <1> QED
    BY <1>1, <1>2, PTL DEF Spec

\* Every undisturbed period has the duty cycle that was asked for.
THEOREM DutiesDelivered == Spec => []DutyDelivered
  <1>1. PilotInv => DutyDelivered
    <2> SUFFICES ASSUME PilotInv, delivered >= 0
                 PROVE  /\ 1000 * delivered < Clipped * Period + 1000
                        /\ 1000 * delivered > (Clipped - 20) * Period
      BY DEF DutyDelivered
    <2>1. delivered = Period - Match
      BY DEF PilotInv, Delivered
    <2>2. asked \in Int
      BY DEF PilotInv, Types
    <2> QED
      BY <2>1, <2>2, DutyOfMatch
  <1> QED
    BY <1>1, PilotInvariant, PTL

\* The triggers of a steady output come in the part they are for.
THEOREM SamplesInPart == Spec => []SampledInPart
  <1>1. PilotInv => SampledInPart
    BY DEF PilotInv
  <1> QED
    BY <1>1, PilotInvariant, PTL
=============================================================================
