------------------------------ MODULE CarState ------------------------------
(* calculate_car_state (main.c:288-354): the state of the car, and what      *)
(* g_global_ext_power_state is to be, as functions of the data last seen on  *)
(* the VAN bus.                                                              *)
EXTENDS Naturals

CarStates == {"CAR_SLEEP", "CAR_LOCKED", "CAR_OFF", "RADIO_ON", "ACCESSORY", "IGNITION",
              "CRANKING", "ENGINE_ON"}

CarStateOf(data) ==
    LET key == <<data.accesories_on, data.ignition_on>>
    IN  IF data.engine_running = 1 THEN "ENGINE_ON"
        ELSE IF key = <<0, 1>> THEN "CRANKING"
        ELSE IF key = <<1, 1>> THEN "IGNITION"
        ELSE IF key = <<1, 0>> THEN "ACCESSORY"
        ELSE IF data.unit_powered_on = 1 THEN "RADIO_ON"
        ELSE IF data.doors_locked = 1 THEN "CAR_LOCKED"
        ELSE "CAR_OFF"

\* What update_ext_power_state remembers (main.c:267-273): 0 when the car is locked,
\* 1 when it is in use, and as before when the car is just off.  No pin follows it,
\* both calls of gpio_set_level are commented out.
ExtPowerState(state, power) ==
    CASE state = "CAR_LOCKED" -> 0
      [] state = "CAR_OFF" -> power
      [] OTHER -> 1
=============================================================================
