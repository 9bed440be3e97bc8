---------------------------- MODULE MCMqttClient ----------------------------
(* MqttClient with short timeouts, for both kinds of mqtt_host.  The queue  *)
(* has room for what a minute publishes, but not for the announcement.      *)
EXTENDS MqttClient
=============================================================================
