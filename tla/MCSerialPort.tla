---------------------------- MODULE MCSerialPort ----------------------------
(***************************************************************************)
(* SerialPort for TLC: an old and a new connection.                        *)
(***************************************************************************)
EXTENDS SerialPort
=============================================================================
