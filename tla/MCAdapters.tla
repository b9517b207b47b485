------------------------------ MODULE MCAdapters ------------------------------
(* Sensors of all vendors; Anker and Marstek with a second unit.  Some ids hold  *)
(* two tokens of the tables ("soc" in "battery_soc", "load" and "output_power"), *)
(* and one of Anker's names more than its unit.                                  *)
EXTENDS Adapters

Solarbank(id, u, token, what) ==
    [of |-> "anker_solix", lead |-> id, unit |-> u, has |-> {token}, shows |-> what]
Sensor(v, u, tokens, what) ==
    [of |-> v, lead |-> "", unit |-> u, has |-> tokens, shows |-> what]

MCEntities ==
    { Solarbank("1", 1, "pv_power", "pv"),
      Solarbank("1", 1, "output_power", "battery_power"),
      Solarbank("1", 1, "home_load", "home_load"),
      Solarbank("2", 2, "solar_power", "pv"),
      Solarbank("2", 2, "pv_power", "pv"),
      Solarbank("2", 2, "battery_power", "battery_power"),
      Solarbank("1_ac", 1, "output_power", "battery_power"),
      Sensor("marstek_venus", 1, {"pv_power"}, "pv"),
      Sensor("marstek_venus", 1, {"charge_discharge_power"}, "battery_power"),
      Sensor("marstek_venus", 1, {"grid_power"}, "grid_export"),
      Sensor("marstek_venus", 1, {"load_power", "load"}, "home_load"),
      Sensor("marstek_venus", 2, {"battery_soc", "soc"}, "battery_soc"),
      Sensor("maxxicharge", 1, {"input_power"}, "pv"),
      Sensor("maxxicharge", 1, {"battery_power"}, "battery_power"),
      Sensor("maxxicharge", 1, {"load"}, "home_load"),
      Sensor("maxxicharge", 1, {"output_power", "load"}, "home_load"),
      Sensor("shelly_3em", 1, {"shellypro3em", "total", "active", "power"}, "grid_export"),
      Sensor("generic", 1, {}, "pv"),
      Sensor("generic", 1, {}, "battery_power"),
      Sensor("generic", 1, {}, "grid_export") }

MCFlows ==
    [pv : {<<p, q>> : p \in {0, 2}, q \in {0, 1}},
     battery : {<<b, c>> : b \in {-1, 0, 1}, c \in {0, 1}},
     load : {0, 1}]
=============================================================================
