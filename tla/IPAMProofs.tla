----------------------------- MODULE IPAMProofs -----------------------------
(***************************************************************************)
(* Proofs about the address allocator, for every prefix, every set of      *)
(* reserved and excluded addresses and every set of owners.  TypeOK and    *)
(* TablesAgree together are inductive; PoolRespected needs TypeOK.         *)
(***************************************************************************)
EXTENDS IPAM, TLAPS

IInv == TypeOK /\ TablesAgree /\ PoolRespected

LEMMA NoAddrOutside == NoAddr \notin Addr
  BY PrefixAssumption DEF NoAddr, Addr

(* The tables are inverse of each other in the empty allocator.            *)
LEMMA InitIInv == Init => IInv
  BY NoAddrOutside, PoolAssumption
  DEF Init, IInv, TypeOK, TablesAgree, PoolRespected

(* Binding an owner without address to a servable address nobody holds, or *)
(* again to its own, keeps the tables inverse of each other.               *)
LEMMA BindIInv ==
  ASSUME IInv, NEW o \in Owner, NEW ip \in Addr,
         owners[ip] \in {NoOwner, o}, allocated[o] \in {NoAddr, ip},
         ip \notin Reserved \cup Excluded,
         Bind(o, ip), call'.outcome \in {"ok", "error", "panic"}
  PROVE  IInv'
<1>1. TypeOK'
  BY DEF IInv, TypeOK, Bind
<1>2. TablesAgree'
  BY NoAddrOutside, PoolAssumption DEF IInv, TypeOK, TablesAgree, Bind
<1>3. PoolRespected'
  BY DEF IInv, TypeOK, PoolRespected, Bind
<1> QED
  BY <1>1, <1>2, <1>3 DEF IInv

(* Every call of the allocator keeps the inductive invariant.              *)
LEMMA NextIInv == IInv /\ [Next]_vars => IInv'
<1> SUFFICES ASSUME IInv, [Next]_vars PROVE IInv'
  OBVIOUS
<1>1. CASE UNCHANGED vars
  BY <1>1 DEF vars, IInv, TypeOK, TablesAgree, PoolRespected
<1>2. ASSUME NEW o \in Owner, AllocateAgain(o) PROVE IInv'
  BY <1>2 DEF AllocateAgain, Return, IInv, TypeOK, TablesAgree, PoolRespected
<1>3. ASSUME NEW o \in Owner, Allocate(o) PROVE IInv'
  <2> PICK ip \in Free : Bind(o, ip) /\ Return("allocate", o, ip, "ok")
    BY <1>3 DEF Allocate
  <2>1. ip \in Addr /\ ~Unavailable(ip)
    BY PrefixAssumption DEF Free, FirstUsable, Addr
  <2>2. allocated[o] = NoAddr /\ call'.outcome = "ok"
    BY <1>3 DEF Allocate, Return
  <2> QED
    BY <2>1, <2>2, BindIInv DEF Unavailable
<1>4. ASSUME NEW o \in Owner, AllocateExhausted(o) PROVE IInv'
  BY <1>4
  DEF AllocateExhausted, Return, IInv, TypeOK, TablesAgree, PoolRespected
<1>5. ASSUME NEW o \in Owner, NEW ip \in Requested, Reserve(o, ip) PROVE IInv'
  <2>1. ip \in Addr /\ Holder(ip) = owners[ip] /\ ~Refuses(o, ip)
    BY <1>5 DEF Reserve, Refuses, Holder
  <2>2. call'.outcome = "ok"
    BY <1>5 DEF Reserve, Return
  <2> QED
    BY <1>5, <2>1, <2>2, BindIInv DEF Reserve, Refuses
<1>6. ASSUME NEW o \in Owner, NEW ip \in Requested, ReserveRefused(o, ip)
      PROVE  IInv'
  BY <1>6
  DEF ReserveRefused, Return, IInv, TypeOK, TablesAgree, PoolRespected
<1>7. ASSUME NEW o \in Owner, Release(o) PROVE IInv'
  <2>1. allocated[o] \in Addr /\ owners[allocated[o]] = o
    BY <1>7 DEF Release, IInv, TypeOK, TablesAgree
  <2>2. TypeOK'
    BY <1>7, <2>1 DEF Release, Return, IInv, TypeOK
  <2>3. TablesAgree'
    BY <1>7, <2>1, NoAddrOutside, PoolAssumption
    DEF Release, IInv, TypeOK, TablesAgree
  <2>4. PoolRespected'
    BY <1>7, <2>1 DEF Release, IInv, TypeOK, PoolRespected
  <2> QED
    BY <2>2, <2>3, <2>4 DEF IInv
<1> QED
  BY <1>1, <1>2, <1>3, <1>4, <1>5, <1>6, <1>7 DEF Next

(* The allocator's owner table and address table are inverse of each       *)
(* other, and it serves no reserved or excluded address, for every prefix  *)
(* and every sequence of Allocate, Reserve and Release.                    *)
THEOREM AllocatorConsistent == Spec => [](TypeOK /\ TablesAgree /\ PoolRespected)
<1>1. IInv => TypeOK /\ TablesAgree /\ PoolRespected
  BY DEF IInv
<1> QED
  BY <1>1, InitIInv, NextIInv, PTL DEF Spec

(* Only Release takes an owner's address away or changes it.               *)
THEOREM AddressesAreStable == Spec => AddressStable
<1>1. ASSUME IInv, [Next]_vars
      PROVE  [\A o \in Owner :
                allocated[o] # NoAddr /\ allocated'[o] # allocated[o]
                  => /\ allocated'[o] = NoAddr
                     /\ call'.op = "release" /\ call'.owner = o]_vars
  <2> SUFFICES ASSUME NEW o \in Owner, Next,
                      allocated[o] # NoAddr, allocated'[o] # allocated[o]
               PROVE  /\ allocated'[o] = NoAddr
                      /\ call'.op = "release" /\ call'.owner = o
    BY <1>1
  <2> PICK p \in Owner :
        \/ AllocateAgain(p) \/ Allocate(p) \/ AllocateExhausted(p)
        \/ \E ip \in Requested : Reserve(p, ip) \/ ReserveRefused(p, ip)
        \/ Release(p)
    BY DEF Next
  <2>1. CASE AllocateAgain(p) \/ AllocateExhausted(p)
    BY <2>1 DEF AllocateAgain, AllocateExhausted
  <2>2. CASE Allocate(p)
    BY <1>1, <2>2 DEF Allocate, Bind, IInv, TypeOK
  <2>3. CASE \E ip \in Requested : Reserve(p, ip) \/ ReserveRefused(p, ip)
    BY <1>1, <2>3
    DEF Reserve, ReserveRefused, Refuses, Bind, IInv, TypeOK
  <2>4. CASE Release(p)
    BY <1>1, <2>4 DEF Release, Return, IInv, TypeOK
  <2> QED
    BY <2>1, <2>2, <2>3, <2>4
<1> QED
  BY <1>1, InitIInv, NextIInv, PTL DEF Spec, AddressStable

(* Allocate fails only on a prefix with no free address left.              *)
THEOREM AllocateIsComplete == Spec => GivesUpOnlyWhenFull
<1>1. ASSUME [Next]_vars
      PROVE  [call'.op = "allocate" /\ call'.outcome # "ok"
                => \A ip \in (Network + 1)..Broadcast : Unavailable(ip)]_vars
  <2> SUFFICES ASSUME Next, call'.op = "allocate", call'.outcome # "ok"
               PROVE  Free = {}
    BY <1>1 DEF Free, FirstUsable
  <2> QED
    BY DEF Next, AllocateAgain, Allocate, AllocateExhausted, Reserve,
           ReserveRefused, Release, Return
<1> QED
  BY <1>1, PTL DEF Spec, GivesUpOnlyWhenFull
=============================================================================
