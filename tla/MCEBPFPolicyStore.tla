------------------------- MODULE MCEBPFPolicyStore -------------------------
(***************************************************************************)
(* The eBPF policy store for TLC: EBPFPinned.cfg has one endpoint whose    *)
(* map is pinned and may drift, EBPFTransient.cfg two endpoints without    *)
(* pinning, where the store refines PolicyStore.                           *)
(***************************************************************************)
EXTENDS EBPFPolicyStore
=============================================================================
