-------------------------- MODULE UserControlEvents --------------------------
(* The events of a user control message: SrcPCUCEventType.                 *)

StreamBegin == 0
StreamEOF == 1
SetBufferLength == 3
PingRequest == 6
PingResponse == 7
FmsEvent0 == 26
==============================================================================
