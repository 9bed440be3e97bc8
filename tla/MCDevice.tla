------------------------------ MODULE MCDevice ------------------------------
(* Device with one other access point, one page setting and try counting to 3. *)
EXTENDS Device
=============================================================================
