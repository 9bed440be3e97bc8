------------------------------ MODULE MCI2cRtc ------------------------------
(* I2cRtc with two dates.                                                  *)
EXTENDS I2cRtc
=============================================================================
