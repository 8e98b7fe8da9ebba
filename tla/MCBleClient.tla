----------------------------- MODULE MCBleClient -----------------------------
(* Instances of BleClient for TLC: the poll loop and the bus share a link.  *)
EXTENDS BleClient

CONSTANTS poll, bus, write, pack1, pack2, home

\* In units: a write acknowledgement and a pack read are one 8- or 16-byte block
\* longer than an exception frame in plain mode and as long in session mode,
\* where the cipher pads both to one block; the home read is longer.
MCExpect ==
  [e \in BOOLEAN |-> [r \in Commands |-> (IF r = home THEN 2 ELSE 1) + (IF e THEN 0 ELSE 1)]]

AllFaults == {"silent", "garbled", "exception", "at", "drop", "late", "cancel"}
PromptFaults == {"silent", "garbled", "exception", "drop"}
LateOnly == {"late"}
=============================================================================
