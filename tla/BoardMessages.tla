--------------------------- MODULE BoardMessages ---------------------------
(***************************************************************************)
(* The messages between the EVerest driver and the firmware: the structs   *)
(* and descriptors of high_to_low.pb and low_to_high.pb, how each side     *)
(* fills one in and what it does with one it has decoded.  The two sides   *)
(* are compiled by different compilers, so every descriptor takes the size *)
(* of an enum: four bytes on Linux, one with the short enums of a bare     *)
(* metal ARM compiler.                                                     *)
(***************************************************************************)
EXTENDS PbDecode

EnumSizes == {1, 4}

Static(tag, htype, ltype, offset, size, size_offset, count) ==
    [tag |-> tag, atype |-> "STATIC", htype |-> htype, ltype |-> ltype,
     data_offset |-> offset, data_size |-> size, size_offset |-> size_offset,
     array_size |-> count]

SINGULAR == "OPTIONAL"    \* an optional field without a has_ member

Empty_msg == PB_BIND(<<>>, <<>>, AUTO)

SetPWM_fields(enum) ==
    <<Static(1, SINGULAR, "UVARINT", 0, enum, 0, 1), Static(2, SINGULAR, "FIXED32", 4, 4, 0, 1)>>
SetPWM_msg == [enum \in EnumSizes |-> PB_BIND(SetPWM_fields(enum), <<>>, AUTO)]

set_pwm_tag == 1
allow_power_on_tag == 2
enable_tag == 3
disable_tag == 4
heartbeat_tag == 5
HighToLow_size == 9

HighToLow_fields ==
    <<Static(set_pwm_tag, "ONEOF", "SUBMESSAGE", 4, 8, 4, 1),
      Static(allow_power_on_tag, "ONEOF", "BOOL", 4, 1, 4, 1),
      Static(enable_tag, "ONEOF", "SUBMESSAGE", 4, 1, 4, 1),
      Static(disable_tag, "ONEOF", "SUBMESSAGE", 4, 1, 4, 1),
      Static(heartbeat_tag, "ONEOF", "SUBMESSAGE", 4, 1, 4, 1)>>
HighToLow_msg ==
    [enum \in EnumSizes |->
        PB_BIND(HighToLow_fields, <<SetPWM_msg[enum], Empty_msg, Empty_msg, Empty_msg>>, AUTO)]

event_tag == 1
mcu_heartbeat_tag == 2
LowToHigh_size == 2

\* The union follows which_message at the alignment of its widest member.
LowToHigh_fields(enum) ==
    LET offset == IF enum = 4 THEN 4 ELSE 2
    IN  <<Static(event_tag, "ONEOF", "UVARINT", offset, enum, offset, 1),
          Static(mcu_heartbeat_tag, "ONEOF", "SUBMESSAGE", offset, 1, offset, 1)>>
LowToHigh_msg == [enum \in EnumSizes |-> PB_BIND(LowToHigh_fields(enum), <<Empty_msg>>, AUTO)]

ASSUME FieldInfoFits ==
    \A enum \in EnumSizes :
        \A f \in UNION {ToSet(SetPWM_fields(enum)), ToSet(HighToLow_fields),
                        ToSet(LowToHigh_fields(enum))} :
            PB_FIELDINFO_ASSERT(f, PB_FIELDINFO_WIDTH_AUTO(f))

which(m) == m[0]
-----------------------------------------------------------------------------
(* Commands, from EVerest to the state machine.  A duty cycle is the word of *)
(* the float.                                                                *)

PWMStates == [set_pwm_on |-> {}, set_pwm_off |-> {0}, set_pwm_f |-> {1}]

Commands(Duties) ==
    [call : {"set_pwm_on"}, duty : Duties]
        \cup [call : {"set_pwm_off", "set_pwm_f", "enable", "disable", "heartbeat"}]
        \cup [call : {"allow_power_on"}, value : BOOLEAN]

\* The handlers of the driver: HighToLow_init_zero, then the members that matter.
HighToLow_init_zero(enum) == (0 :> 0) @@ (4 :> ZeroMessage(SetPWM_msg[enum]))

FilledCommand(c, enum) ==
    LET zero == HighToLow_init_zero(enum)
        Pwm(duty) == [zero EXCEPT ![0] = set_pwm_tag, ![4][0] = PWMStates[c.call], ![4][4] = duty]
    IN  CASE c.call = "set_pwm_on"                 -> Pwm(c.duty)
          [] c.call \in {"set_pwm_off", "set_pwm_f"} -> Pwm({})
          [] c.call = "allow_power_on" ->
               [zero EXCEPT ![0] = allow_power_on_tag, ![4] = IF c.value THEN {0} ELSE {}]
          [] c.call = "enable"                     -> [zero EXCEPT ![0] = enable_tag]
          [] c.call = "disable"                    -> [zero EXCEPT ![0] = disable_tag]
          [] c.call = "heartbeat"                  -> [zero EXCEPT ![0] = heartbeat_tag]

\* The call the firmware makes on its state machine, "none" when it makes none.
NoCall == [call |-> "none"]
handle_incoming_message(m) ==
    CASE which(m) = set_pwm_tag /\ m[4][0] = PWMStates.set_pwm_f   -> [call |-> "set_pwm_f"]
      [] which(m) = set_pwm_tag /\ m[4][0] = PWMStates.set_pwm_off -> [call |-> "set_pwm_off"]
      [] which(m) = set_pwm_tag /\ m[4][0] = PWMStates.set_pwm_on  ->
           [call |-> "set_pwm_on", duty |-> m[4][4]]
      [] which(m) = allow_power_on_tag -> [call |-> "allow_power_on", value |-> m[4] # {}]
      [] which(m) = enable_tag         -> [call |-> "enable"]
      [] which(m) = disable_tag        -> [call |-> "disable"]
      [] which(m) = heartbeat_tag      -> [call |-> "heartbeat"]
      [] OTHER                         -> NoCall

-----------------------------------------------------------------------------
(* Events, from the state machine to EVerest; the names are those of         *)
(* iec61851::Event, which the interface of EVerest writes without underscores. *)

WireEvents ==
    <<"CarPluggedIn", "CarRequestedPower", "PowerOn", "PowerOff", "CarRequestedStopPower",
      "CarUnplugged", "Error_E", "Error_DF", "Error_Relais", "Error_RCD",
      "Error_VentilationNotAvailable", "Error_OverCurrent", "EF_To_BCD", "BCD_To_EF",
      "PermanentFault", "EvseReplugStarted", "EvseReplugFinished">>

FsmEvents == ToSet(WireEvents)

\* push_event: the number of the event on the wire.
WireNumber(event) == CodeOf(WireEvents, event) - 1

FilledEvent(event, enum) ==
    LET offset == LowToHigh_fields(enum)[1].data_offset
    IN  (0 :> event_tag) @@ (offset :> Bits(WireNumber(event)))

\* The driver: an event is published, one it does not know as a permanent fault.
handle_low_to_high_message(m, enum) ==
    LET number == m[LowToHigh_fields(enum)[1].data_offset]
    IN  CASE which(m) # event_tag                  -> "none"
          [] Num(number) + 1 \in DOMAIN WireEvents -> WireEvents[Num(number) + 1]
          [] OTHER                                 -> "PermanentFault"
=============================================================================
