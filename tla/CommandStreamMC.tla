-------------------------- MODULE CommandStreamMC --------------------------
(***************************************************************************)
(* Model-checking instance of CommandStream and Handshake: the Session*.cfg *)
(* runs.  Bus ids of which one is a prefix of the other, one that fills its *)
(* field, a device that is replaced by another one in its place, and a list *)
(* that gets empty.                                                        *)
(***************************************************************************)
EXTENDS CommandStream

MCDevice(len, id, spd, n) ==
  [busid |-> [name |-> "1-1", len |-> len], devid |-> id, speed |-> spd, num_interfaces |-> n]

Stick == MCDevice(3, 1, 3, 2)
Mouse == MCDevice(2, 2, 7, 0)
Phone == MCDevice(3, 3, 5, 1)

Brick == MCDevice(4, 4, 1, 0)

MCExports == {<<>>, <<Stick, Mouse>>, <<Phone, Mouse>>, <<Mouse>>, <<Brick, Stick>>}
=============================================================================
