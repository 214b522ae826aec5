------------------------------- MODULE MCIPAM -------------------------------
(***************************************************************************)
(* The allocator on a prefix of eight addresses (a /29), with a gateway and *)
(* an excluded /31: five usable addresses.                                 *)
(***************************************************************************)
EXTENDS IPAM

MCReserved == {Network + 2}
MCExcluded == {Network + 4, Network + 5}
=============================================================================
