---------------------------- MODULE MCDiscovery -----------------------------
(***************************************************************************)
(* Small instances of Discovery for TLC.  Nothing in Discovery tells nodes *)
(* apart, so what always becomes true of n1 becomes true of every node;    *)
(* TLC takes half as long to check it of n1 alone.                         *)
(***************************************************************************)
EXTENDS Discovery

CONSTANTS n1, n2

\* A node that the client was told of gets an RPCClient, if it can be dialled.
NodesFound == NodeFound(n1)

\* The address of a server that stopped or crashed disappears from etcd.
AddressesLeave == AddressLeaves(n1)

\* A server that was cut off from etcd registers again.
RegisteredAgain == RegistersAgain(n1)
=============================================================================
