------------------------------ MODULE MCPolling ------------------------------
(* One device: "alarm" has a poll method and no accessor,                    *)
(* "hum" an accessor and no poll method.                                     *)
EXTENDS Polling, TLC

MCBusNames == {"alarm"}
MCDevNames == {"hum"}
MCGetter == {"hum"}
==============================================================================
