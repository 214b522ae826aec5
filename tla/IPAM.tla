-------------------------------- MODULE IPAM --------------------------------
(***************************************************************************)
(* The address allocator of one prefix (internal/ipam/allocator.go): two   *)
(* tables, owner -> address and address -> owner, that every call changes  *)
(* together under the allocator's mutex.  Addresses are the integers of    *)
(* the prefix; an excluded prefix is the set of the addresses it holds.    *)
(***************************************************************************)
EXTENDS Integers

CONSTANTS
  Owner,       \* the owners that may ask for an address (non-empty strings)
  NoOwner,     \* owners[ip] of an address nobody holds
  Network,     \* first address of the prefix: prefix.Masked().Addr()
  Broadcast,   \* last address of the prefix
  FamilyLast,  \* last address of the address family (255.255.255.255, ff..ff)
  Reserved,    \* the reserved addresses (a gateway)
  Excluded     \* the addresses of the excluded prefixes

VARIABLES
  allocated,   \* owner -> the address it holds, or NoAddr
  owners,      \* address -> the owner that holds it, or NoOwner
  call         \* the last call: [op, owner, addr, outcome]

vars == <<allocated, owners, call>>

Addr == Network..Broadcast
NoAddr == -1

\* What NewAllocatorWithExcludedPrefixes accepts: excluded prefixes and
\* reserved addresses inside the prefix, no reserved address excluded.
ASSUME PrefixAssumption ==
  /\ Network \in Nat /\ Broadcast \in Nat /\ FamilyLast \in Nat
  /\ Network <= Broadcast /\ Broadcast <= FamilyLast
ASSUME PoolAssumption ==
  /\ Excluded \subseteq Addr /\ Reserved \subseteq Addr
  /\ Reserved \cap Excluded = {}
  /\ NoOwner \notin Owner

Init ==
  /\ allocated = [o \in Owner |-> NoAddr]
  /\ owners = [ip \in Addr |-> NoOwner]
  /\ call = [op |-> "new", owner |-> NoOwner, addr |-> NoAddr, outcome |-> "ok"]

\* The program has not died in nextAddr.
Alive == call.outcome # "panic"

Return(op, o, ip, outcome) ==
  call' = [op |-> op, owner |-> o, addr |-> ip, outcome |-> outcome]

Unavailable(ip) == ip \in Reserved \/ ip \in Excluded \/ owners[ip] # NoOwner

\* Mutant: the scan skips one address too many.
FirstUsableSkipsTwo == Network + 2

FirstUsable == Network + 1

Free == {ip \in FirstUsable..Broadcast : ~Unavailable(ip)}

Bind(o, ip) ==
  /\ allocated' = [allocated EXCEPT ![o] = ip]
  /\ owners' = [owners EXCEPT ![ip] = o]

\* Allocate, when the owner already holds an address.
AllocateAgain(o) ==
  /\ Alive
  /\ allocated[o] # NoAddr
  /\ Return("allocate", o, allocated[o], "ok")
  /\ UNCHANGED <<allocated, owners>>

\* Allocate, when the upward scan from firstUsable meets a free address.
Allocate(o) ==
  /\ Alive
  /\ allocated[o] = NoAddr
  /\ \E ip \in Free :
       /\ \A lower \in Free : ip <= lower
       /\ Bind(o, ip)
       /\ Return("allocate", o, ip, "ok")

\* Allocate, when it does not.  The scan ends when nextAddr leaves the prefix;
\* past the last address of the family nextAddr has no address to build and
\* panics instead.
AllocateExhausted(o) ==
  /\ Alive
  /\ allocated[o] = NoAddr
  /\ Free = {}
  /\ Return("allocate", o, NoAddr,
            IF Broadcast = FamilyLast THEN "panic" ELSE "error")
  /\ UNCHANGED <<allocated, owners>>

\* owners[ip] of any address: the map has no entry outside the prefix.
Holder(ip) == IF ip \in Addr THEN owners[ip] ELSE NoOwner

\* Mutant: one of Reserve's checks is missing.
RefusesNoHolding(o, ip) ==
  \/ ip \notin Addr \/ ip \in Reserved \cup Excluded
  \/ Holder(ip) \notin {NoOwner, o}

Refuses(o, ip) ==
  \/ ip \notin Addr
  \/ ip \in Reserved
  \/ ip \in Excluded
  \/ Holder(ip) \notin {NoOwner, o}
  \/ allocated[o] \notin {NoAddr, ip}

Reserve(o, ip) ==
  /\ Alive
  /\ ~Refuses(o, ip)
  /\ Bind(o, ip)
  /\ Return("reserve", o, ip, "ok")

ReserveRefused(o, ip) ==
  /\ Alive
  /\ Refuses(o, ip)
  /\ Return("reserve", o, ip, "error")
  /\ UNCHANGED <<allocated, owners>>

\* Mutant: Release forgets the reverse table.
ReleaseOneTable(o) ==
  /\ Alive
  /\ allocated[o] # NoAddr
  /\ allocated' = [allocated EXCEPT ![o] = NoAddr]
  /\ Return("release", o, allocated[o], "ok")
  /\ UNCHANGED owners

Release(o) ==
  /\ Alive
  /\ allocated[o] # NoAddr
  /\ owners' = [owners EXCEPT ![allocated[o]] = NoOwner]
  /\ allocated' = [allocated EXCEPT ![o] = NoAddr]
  /\ Return("release", o, allocated[o], "ok")

\* Static addresses a caller may ask for: the prefix and one address past it.
Requested == Network..(Broadcast + 1)

Next ==
  \E o \in Owner :
    \/ AllocateAgain(o)
    \/ Allocate(o)
    \/ AllocateExhausted(o)
    \/ \E ip \in Requested : Reserve(o, ip) \/ ReserveRefused(o, ip)
    \/ Release(o)

Spec == Init /\ [][Next]_vars

-----------------------------------------------------------------------------
TypeOK ==
  /\ allocated \in [Owner -> Addr \cup {NoAddr}]
  /\ owners \in [Addr -> Owner \cup {NoOwner}]
  /\ call.outcome \in {"ok", "error", "panic"}

(* The two tables of the allocator are inverses of each other after every  *)
(* sequence of Allocate, Reserve and Release: no address has two owners,   *)
(* no owner is remembered for an address it released.                      *)
TablesAgree ==
  \A o \in Owner, ip \in Addr : allocated[o] = ip <=> owners[ip] = o

(* Nobody ever holds a reserved address or one of an excluded prefix,      *)
(* whichever of Allocate and Reserve bound it.                             *)
PoolRespected ==
  \A ip \in Addr : owners[ip] # NoOwner => ip \notin Reserved \cup Excluded

(* The address of an owner only changes through Release: a second Allocate *)
(* or a Reserve never moves it and never takes it away.                    *)
AddressStable ==
  [][\A o \in Owner :
       allocated[o] # NoAddr /\ allocated'[o] # allocated[o]
         => /\ allocated'[o] = NoAddr
            /\ call'.op = "release" /\ call'.owner = o]_vars

(* Allocate gives up, by an error or by the panic of nextAddr at the end   *)
(* of the family, only when every address after the network address is     *)
(* reserved, excluded or held.                                             *)
GivesUpOnlyWhenFull ==
  [][call'.op = "allocate" /\ call'.outcome # "ok"
       => \A ip \in (Network + 1)..Broadcast : Unavailable(ip)]_vars
=============================================================================
