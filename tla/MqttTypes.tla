------------------------------ MODULE MqttTypes ------------------------------
(***************************************************************************)
(* The value types every component of the client shares: packet           *)
(* identifiers, protocol versions and QoS levels.                          *)
(*                                                                         *)
(* The library stores packet identifiers and Receive Maximum values in a   *)
(* u16.  The width of that integer is the parameter U16Max (65535 in the   *)
(* code), so that a small instance reaches the exhaustion of the pool and  *)
(* of the quotas that the code meets at 65535.                             *)
(***************************************************************************)
EXTENDS Naturals

CONSTANTS
    U16Max,  \* u16::MAX
    None     \* Option::None

ASSUME U16MaxAssumption == U16Max \in Nat \ {0}
ASSUME NoneAssumption == None \notin Nat

\* A packet identifier is never 0 ([MQTT-2.2.1-3]).
PacketIds == 1..U16Max

\* codec::MqttVersion
MqttVersions == {"V311", "V5"}

\* codec::qos::QoS in the order of their numeric value 0, 1, 2
QoSLevels == {"AtMostOnce", "AtLeastOnce", "ExactlyOnce"}

\* The numeric value of a QoS level (`qos as u8`)
QoSValue(qos) ==
    CASE qos = "AtMostOnce"  -> 0
      [] qos = "AtLeastOnce" -> 1
      [] qos = "ExactlyOnce" -> 2

=============================================================================
