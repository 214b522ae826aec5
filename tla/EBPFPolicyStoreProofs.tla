------------------------ MODULE EBPFPolicyStoreProofs ------------------------
(***************************************************************************)
(* Proofs about the eBPF policy store, for every set of endpoints, keys    *)
(* and values, every capacity and every combination of faults.  The heart  *)
(* is OpInv: what the map being written and the keys still to be put have  *)
(* in common with the desired entries at each program counter.  The last   *)
(* part shows that without pinning the store implements PolicyStore.       *)
(***************************************************************************)
EXTENDS EBPFPolicyStore, FiniteSetTheorems, TLAPS

\* What holds of a call in progress.
OpInv ==
  Busy =>
    /\ op.puts \subseteq Keys(op.next)
    /\ op.dels \cap Keys(op.next) = {}
    /\ Fits(op.next)
    /\ op.pc \in {"create", "stamp", "clear"} =>
         Pinned /\ op.puts = Keys(op.next) /\ op.dels = {}
    /\ op.pc = "stamp" => live[op.ep] = Empty
    /\ op.pc \in {"write", "delete"} =>
         /\ Keys(Target) \subseteq Keys(op.next)
         /\ \A k \in Key \ op.puts : Target[k] = op.next[k]
    /\ op.pc = "commit" => Target = op.next
    /\ op.pc \in {"delete", "meta"} => Pinned
    /\ ~Pinned => op.dels = {} /\ ~op.created /\ op.before = live[op.ep]

\* A pinned endpoint the store has no handle on has no entries either.
HandleInv == Pinned => \A e \in Endpoint : ~open[e] => entries[e] = Empty

IInv == TypeOK /\ OpInv /\ HandleInv

-----------------------------------------------------------------------------
LEMMA EmptyFacts == Empty \in Contents /\ Keys(Empty) = {}
  BY DEF Empty, Contents, Keys

LEMMA KeysEmpty == \A c \in Contents : Keys(c) = {} => c = Empty
  BY DEF Empty, Contents, Keys

LEMMA EmptyFits == Fits(Empty)
<1>1. Cardinality({}) = 0
  BY FS_EmptySet
<1> QED
  BY <1>1, EmptyFacts, StoreConfig DEF Fits

\* Where Prepare starts leaves the rest of the call with a plan that ends at
\* the desired entries.
LEMMA BeginOpInv ==
  ASSUME IInv, NEW e \in Endpoint, NEW kind \in {"replace", "overflow"},
         NEW next \in Contents, Fits(next),
         kind = "overflow" => next = Empty,
         Begin(e, kind, next),
         UNCHANGED <<live, pin, meta, open, entries, revision, seen, event>>
  PROVE  IInv'
<1> DEFINE how == Prepare(e, next)
<1>1. live[e] \in Contents /\ entries[e] \in Contents
  BY DEF IInv, TypeOK
<1>2. /\ how.pc \in {"create", "clear", "write", "delete"}
      /\ how.puts \subseteq Keys(next)
      /\ how.dels \in SUBSET Key /\ how.dels \cap Keys(next) = {}
      /\ how.pc \in {"create", "clear"} =>
           Pinned /\ how.puts = Keys(next) /\ how.dels = {}
      /\ how.pc \in {"write", "delete"} /\ Pinned => live[e] = next
      /\ ~Pinned => how.pc = "write" /\ how.puts = Keys(next) /\ how.dels = {}
  <2>1. CASE ~Pinned
    BY <2>1, <1>1 DEF Prepare, Keys
  <2>2. CASE Pinned /\ ~open[e] /\ ~Loadable(e)
    BY <2>2, <1>1 DEF Prepare, Keys
  <2>3. CASE Pinned /\ ~(~open[e] /\ ~Loadable(e)) /\ (~open[e] \/ Keys(entries[e]) = {})
    <3>1. entries[e] = Empty
      BY <2>3, <1>1, KeysEmpty DEF IInv, HandleInv
    <3>2. PlanPut(entries[e], next) = Keys(next)
      BY <3>1 DEF PlanPut, Empty, Keys
    <3>3. how = [pc |-> "clear", puts |-> PlanPut(entries[e], next), dels |-> {}]
      BY <2>3 DEF Prepare
    <3> QED
      BY <2>3, <3>2, <3>3 DEF Keys
  <2>4. CASE Pinned /\ open[e] /\ Keys(entries[e]) # {} /\ live[e] # next
    BY <2>4 DEF Prepare, Keys
  <2>5. CASE Pinned /\ open[e] /\ Keys(entries[e]) # {} /\ live[e] = next
    BY <2>5 DEF Prepare, Keys, PlanPut, PlanDelete
  <2> QED
    BY <2>1, <2>2, <2>3, <2>4, <2>5
<1>3. op' = [pc |-> IF kind = "overflow" /\ ~Pinned /\ ~open[e]
                    THEN "commit" ELSE how.pc,
             ep |-> e, kind |-> kind, next |-> next,
             puts |-> how.puts, dels |-> how.dels,
             created |-> FALSE, fresh |-> Empty, before |-> live[e]]
  BY DEF Begin
<1> HIDE DEF how
<1>4. op' \in OpType /\ Busy'
  BY <1>1, <1>2, <1>3, EmptyFacts DEF OpType, Busy, Keys
<1>5. TypeOK'
  BY <1>4 DEF IInv, TypeOK
<1>6. HandleInv'
  BY DEF IInv, HandleInv
<1>7. Target' = IF Pinned THEN live[e] ELSE Empty
  BY <1>3 DEF Target
<1>8. Keys(Empty) = {} /\ \A k \in Key \ Keys(next) : next[k] = Absent
  BY EmptyFacts DEF Keys
<1>9. OpInv'
  <2>1. /\ op'.puts \subseteq Keys(op'.next) /\ op'.dels \cap Keys(op'.next) = {}
        /\ Fits(op'.next)
    BY <1>2, <1>3
  <2>2. op'.pc \in {"create", "stamp", "clear"} =>
          Pinned /\ op'.puts = Keys(op'.next) /\ op'.dels = {}
    BY <1>2, <1>3
  <2>3. op'.pc \in {"write", "delete"} =>
          /\ Keys(Target') \subseteq Keys(op'.next)
          /\ \A k \in Key \ op'.puts : Target'[k] = op'.next[k]
    BY <1>2, <1>3, <1>7, <1>8 DEF Empty
  <2>4. op'.pc = "commit" => Target' = op'.next
    BY <1>2, <1>3, <1>7
  <2>5. op'.pc \notin {"stamp", "meta"} /\ (op'.pc = "delete" => Pinned)
    BY <1>2, <1>3
  <2>6. ~Pinned => op'.dels = {} /\ ~op'.created /\ op'.before = live'[op'.ep]
    BY <1>2, <1>3
  <2> QED
    BY <2>1, <2>2, <2>3, <2>4, <2>5, <2>6 DEF OpInv, Fits, Keys
<1> QED
  BY <1>5, <1>6, <1>9 DEF IInv

-----------------------------------------------------------------------------
LEMMA InitIInv == Init => IInv
<1> SUFFICES ASSUME Init PROVE IInv
  OBVIOUS
<1>1. TypeOK
  BY EmptyFacts DEF Init, TypeOK, MetaStates, NoEvent, Event, Busy, Done
<1> QED
  BY <1>1 DEF Init, IInv, OpInv, HandleInv, Busy, Done

\* The steps that change the target map or the program counter only.
LEMMA ProgressIInv ==
  ASSUME IInv, NEW k,
         \/ CreatePinned \/ StampPinned \/ ClearDone \/ WriteDone
         \/ k \in Key /\ (ClearKey(k) \/ WriteKey(k))
  PROVE  IInv'
<1>1. op \in OpType /\ Busy
  BY DEF IInv, TypeOK, Busy, CreatePinned, StampPinned, ClearKey, ClearDone,
         WriteKey, WriteDone
<1>2. live \in [Endpoint -> Contents] /\ op.ep \in Endpoint
      /\ live[op.ep] \in Contents /\ Target \in Contents /\ op.next \in Contents
  BY <1>1 DEF IInv, TypeOK, OpType, Target
<1>3. op.puts \subseteq Keys(op.next) /\ op.dels \cap Keys(op.next) = {}
      /\ Fits(op.next)
  BY <1>1 DEF IInv, OpInv
<1>4. CASE CreatePinned
  <2>1. op' = [op EXCEPT !.pc = "stamp", !.created = TRUE]
        /\ live' = [live EXCEPT ![op.ep] = Empty]
    BY <1>4 DEF CreatePinned
  <2>2. TypeOK'
    <3>1. op' \in OpType
      BY <1>1, <2>1 DEF OpType
    <3> QED
      BY <1>2, <1>4, <2>1, <3>1, EmptyFacts
      DEF CreatePinned, IInv, TypeOK, MetaStates
  <2>3. OpInv'
    BY <1>1, <1>2, <1>3, <1>4, <2>1
    DEF CreatePinned, IInv, OpInv, OpType, Busy, Fits, Keys
  <2> QED
    BY <1>4, <2>2, <2>3 DEF CreatePinned, IInv, HandleInv
<1>5. CASE StampPinned
  <2>1. op' = [op EXCEPT !.pc = "write"] /\ live' = live
    BY <1>5 DEF StampPinned
  <2>2. TypeOK'
    BY <1>1, <1>5, <2>1 DEF StampPinned, IInv, TypeOK, OpType, MetaStates
  <2>3. Target' = Empty /\ op'.puts = Keys(op'.next) /\ op'.next = op.next
        /\ Pinned
    BY <1>1, <1>5, <2>1 DEF StampPinned, IInv, OpInv, OpType, Target
  <2>4. OpInv'
    BY <1>1, <1>2, <1>3, <1>5, <2>1, <2>3, EmptyFacts
    DEF OpInv, OpType, Busy, Fits, Keys, Empty
  <2> QED
    BY <1>5, <2>2, <2>4 DEF StampPinned, IInv, HandleInv
<1>6. CASE k \in Key /\ ClearKey(k)
  <2>1. TypeOK'
    BY <1>1, <1>2, <1>6 DEF ClearKey, IInv, TypeOK, Contents, Busy
  <2>2. OpInv'
    BY <1>1, <1>6 DEF ClearKey, IInv, OpInv, Busy, Fits, Keys
  <2> QED
    BY <1>6, <2>1, <2>2 DEF ClearKey, IInv, HandleInv
<1>7. CASE ClearDone
  <2>1. op' = [op EXCEPT !.pc = "write"] /\ live' = live
    BY <1>7 DEF ClearDone
  <2>2. TypeOK'
    BY <1>1, <1>7, <2>1 DEF ClearDone, IInv, TypeOK, OpType
  <2>3. Target' = Empty /\ op'.puts = Keys(op'.next) /\ op'.next = op.next
        /\ Pinned
    BY <1>1, <1>2, <1>7, <2>1, KeysEmpty DEF ClearDone, IInv, OpInv, OpType, Target
  <2>4. OpInv'
    BY <1>1, <1>2, <1>3, <1>7, <2>1, <2>3, EmptyFacts
    DEF OpInv, OpType, Busy, Fits, Keys, Empty
  <2> QED
    BY <1>7, <2>2, <2>4 DEF ClearDone, IInv, HandleInv
<1>8. CASE k \in Key /\ WriteKey(k)
  <2>1. /\ op'.pc = "write" /\ op'.ep = op.ep /\ op'.next = op.next
        /\ op'.puts = op.puts \ {k} /\ op'.dels = op.dels
        /\ op'.created = op.created /\ op'.before = op.before
        /\ op' \in OpType
        /\ Target' = [Target EXCEPT ![k] = op.next[k]]
        /\ live' \in [Endpoint -> Contents]
        /\ ~Pinned => live' = live
    <3>1. op.next[k] \in Value \cup {Absent} /\ [Target EXCEPT ![k] = op.next[k]] \in Contents
      BY <1>2, <1>8 DEF Contents
    <3> DEFINE c == [Target EXCEPT ![k] = op.next[k]]
               rest == [op EXCEPT !.puts = @ \ {k}]
    <3>a. /\ rest \in OpType /\ rest.pc = "write" /\ rest.ep = op.ep
          /\ rest.next = op.next /\ rest.puts = op.puts \ {k}
          /\ rest.dels = op.dels /\ rest.created = op.created
          /\ rest.before = op.before
      BY <1>1, <1>8 DEF WriteKey, OpType
    <3>b. SetTarget(c, rest)
      BY <1>8 DEF WriteKey
    <3> HIDE DEF c, rest
    <3>2. CASE Pinned
      BY <1>2, <3>1, <3>2, <3>a, <3>b DEF SetTarget, Target, c
    <3>3. CASE ~Pinned
      <4>1. op' = [rest EXCEPT !.fresh = c] /\ live' = live
        BY <3>3, <3>b DEF SetTarget
      <4>2. /\ op' \in OpType /\ op'.pc = "write" /\ op'.ep = op.ep
            /\ op'.next = op.next /\ op'.puts = op.puts \ {k}
            /\ op'.dels = op.dels /\ op'.created = op.created
            /\ op'.before = op.before /\ op'.fresh = c
        BY <3>1, <3>a, <4>1 DEF OpType, c
      <4> QED
        BY <1>2, <3>3, <4>1, <4>2 DEF Target, c
    <3> QED
      BY <3>2, <3>3
  <2>2. TypeOK'
    BY <1>8, <2>1 DEF WriteKey, IInv, TypeOK
  <2>3. /\ k \in op.puts /\ op.next[k] # Absent
        /\ Keys(Target) \subseteq Keys(op.next)
        /\ \A j \in Key \ op.puts : Target[j] = op.next[j]
    BY <1>1, <1>3, <1>8 DEF WriteKey, IInv, OpInv, Keys
  <2>4. /\ Keys(Target') \subseteq Keys(op.next)
        /\ \A j \in Key \ (op.puts \ {k}) : Target'[j] = op.next[j]
    BY <1>2, <2>1, <2>3 DEF Keys, Contents
  <2>5. ~Pinned => op.dels = {} /\ ~op.created /\ op.before = live[op.ep]
    BY <1>1 DEF IInv, OpInv
  <2>6. OpInv'
    BY <1>3, <2>1, <2>4, <2>5 DEF OpInv, Fits, Keys
  <2> QED
    BY <1>8, <2>2, <2>6 DEF WriteKey, IInv, HandleInv
<1>9. CASE WriteDone
  <2>1. op' = [op EXCEPT !.pc = IF op.dels # {} THEN "delete" ELSE "commit"]
        /\ live' = live /\ op.puts = {} /\ op.pc = "write"
    BY <1>9 DEF WriteDone
  <2>2. TypeOK'
    BY <1>1, <1>9, <2>1 DEF WriteDone, IInv, TypeOK, OpType
  <2>3. Target = op.next
    BY <1>1, <1>2, <2>1 DEF IInv, OpInv, Contents
  <2>4. Target' = Target /\ op'.next = op.next
    BY <1>1, <2>1 DEF Target, OpType
  <2>5. OpInv'
    BY <1>1, <1>3, <2>1, <2>3, <2>4 DEF IInv, OpInv, OpType, Busy, Fits, Keys
  <2> QED
    BY <1>9, <2>2, <2>5 DEF WriteDone, IInv, HandleInv
<1> QED
  BY <1>4, <1>5, <1>6, <1>7, <1>8, <1>9

\* The steps that end a call, the other calls, and the environment leave no
\* call in progress (or, for the commit of a pinned map, one that has nothing
\* left to do but to write its metadata).
LEMMA CommitIInv == IInv /\ Commit => IInv'
<1> SUFFICES ASSUME IInv, Commit PROVE IInv'
  OBVIOUS
<1>1. op \in OpType /\ Busy /\ op.ep \in Endpoint
  BY DEF IInv, TypeOK, Busy, Commit, OpType
<1>2. /\ live' \in [Endpoint -> Contents] /\ entries' \in [Endpoint -> Contents]
      /\ open' \in [Endpoint -> BOOLEAN] /\ revision' \in [Endpoint -> Nat]
      /\ seen' \in [Endpoint -> BOOLEAN] /\ event' \in [Endpoint -> Event]
  <2>1. live' \in [Endpoint -> Contents] /\ entries' \in [Endpoint -> Contents]
    BY <1>1 DEF Commit, IInv, TypeOK, OpType
  <2>2. open' \in [Endpoint -> BOOLEAN] /\ seen' \in [Endpoint -> BOOLEAN]
    BY <1>1, Zenon DEF Commit, IInv, TypeOK
  <2>3. revision[op.ep] \in Nat /\ revision' \in [Endpoint -> Nat]
    BY <1>1 DEF Commit, IInv, TypeOK
  <2>4. event' \in [Endpoint -> Event]
    BY <1>1, <2>3 DEF Commit, Record, IInv, TypeOK, Event
  <2> QED
    BY <2>1, <2>2, <2>3, <2>4
<1>3. CASE Pinned
  <2>1. op' = [op EXCEPT !.pc = "meta"]
    BY <1>3 DEF Commit
  <2>2. op' \in OpType
    BY <1>1, <2>1 DEF OpType
  <2>3. OpInv'
    BY <1>1, <1>3, <2>1 DEF IInv, OpInv, OpType, Busy, Fits, Keys
  <2>4. HandleInv'
    BY <1>1, <1>3 DEF Commit, IInv, HandleInv, TypeOK
  <2> QED
    BY <1>2, <2>2, <2>3, <2>4 DEF Commit, IInv, TypeOK
<1>4. CASE ~Pinned
  <2>1. ~Busy'
    BY <1>4 DEF Commit, Busy, Done
  <2> QED
    BY <1>2, <1>4, <2>1 DEF Commit, IInv, TypeOK, OpInv, HandleInv
<1> QED
  BY <1>3, <1>4

LEMMA RemoveFilesType ==
  ASSUME TypeOK, NEW e \in Endpoint, NEW removed, NEW held,
         RemoveFiles(e, removed, held)
  PROVE  /\ live' \in [Endpoint -> Contents] /\ pin' \in [Endpoint -> BOOLEAN]
         /\ meta' \in [Endpoint -> MetaStates]
<1>1. live' \in [Endpoint -> Contents] /\ meta' \in [Endpoint -> MetaStates]
  BY EmptyFacts DEF RemoveFiles, TypeOK, MetaStates
<1>2. pin' \in [Endpoint -> BOOLEAN]
  BY Zenon DEF RemoveFiles, TypeOK
<1> QED
  BY <1>1, <1>2

LEMMA EventType ==
  ASSUME TypeOK, NEW e \in Endpoint, NEW ok \in BOOLEAN, Record(e, ok)
  PROVE  event' \in [Endpoint -> Event]
<1>1. revision[e] \in Nat
  BY DEF TypeOK
<1> QED
  BY <1>1 DEF Record, TypeOK, Event

LEMMA FaultIInv ==
  ASSUME IInv, NEW k, Fault \/ WriteMeta \/ DeleteMissing(k)
  PROVE  IInv'
<1>1. op \in OpType /\ op.ep \in Endpoint
  BY DEF IInv, TypeOK, Busy, OpType, Fault, WriteMeta, DeleteMissing,
         MapCallFails, StampFails, WriteMetaFails
<1>2. ~Busy' /\ UNCHANGED <<open, entries, revision, seen>>
  <2>1. CASE MapCallFails
    BY <2>1 DEF MapCallFails, Fail, Busy, Done
  <2>2. CASE StampFails
    BY <2>2 DEF StampFails, Fail, Busy, Done
  <2>3. CASE WriteMetaFails
    BY <2>3 DEF WriteMetaFails, Busy, Done
  <2>4. CASE WriteMeta
    BY <2>4 DEF WriteMeta, Busy, Done
  <2>5. CASE DeleteMissing(k)
    BY <2>5 DEF DeleteMissing, Fail, Busy, Done
  <2> QED
    BY <2>1, <2>2, <2>3, <2>4, <2>5 DEF Fault
<1>3. event' \in [Endpoint -> Event]
  <2>1. Record(op.ep, FALSE) \/ event' = event
    BY DEF Fault, WriteMeta, DeleteMissing, Fail,
           MapCallFails, StampFails, WriteMetaFails
  <2>2. TypeOK
    BY DEF IInv
  <2>3. CASE Record(op.ep, FALSE)
    BY <1>1, <2>2, <2>3, EventType
  <2> QED
    BY <2>1, <2>2, <2>3 DEF TypeOK
<1>4. /\ live' \in [Endpoint -> Contents] /\ pin' \in [Endpoint -> BOOLEAN]
      /\ meta' \in [Endpoint -> MetaStates]
  <2>1. CASE MapCallFails
    BY <1>1, <2>1, RemoveFilesType DEF MapCallFails, IInv, TypeOK
  <2>2. CASE StampFails
    BY <1>1, <2>2, RemoveFilesType DEF StampFails, IInv, TypeOK
  <2>3. CASE WriteMetaFails
    BY <1>1, <2>3 DEF WriteMetaFails, IInv, TypeOK, MetaStates
  <2>4. CASE WriteMeta
    BY <1>1, <2>4 DEF WriteMeta, IInv, TypeOK, MetaStates
  <2>5. CASE DeleteMissing(k)
    BY <2>5 DEF DeleteMissing, IInv, TypeOK
  <2> QED
    BY <2>1, <2>2, <2>3, <2>4, <2>5 DEF Fault
<1> QED
  BY <1>2, <1>3, <1>4 DEF IInv, TypeOK, OpInv, HandleInv

LEMMA ForgetType ==
  ASSUME TypeOK, NEW gone, Forget(gone)
  PROVE  /\ open' \in [Endpoint -> BOOLEAN] /\ seen' \in [Endpoint -> BOOLEAN]
         /\ entries' \in [Endpoint -> Contents] /\ revision' \in [Endpoint -> Nat]
         /\ HandleInv => HandleInv'
<1>1. open' \in [Endpoint -> BOOLEAN] /\ seen' \in [Endpoint -> BOOLEAN]
  BY Zenon DEF Forget, TypeOK
<1>2. entries' \in [Endpoint -> Contents] /\ revision' \in [Endpoint -> Nat]
  BY EmptyFacts DEF Forget, TypeOK
<1>3. HandleInv => HandleInv'
  BY DEF Forget, HandleInv
<1> QED
  BY <1>1, <1>2, <1>3

LEMMA DeleteEndpointsIInv ==
  ASSUME IInv, NEW gone \in SUBSET Endpoint, DeleteEndpoints(gone), op' = Done("ok")
  PROVE  IInv'
<1>1. live' \in [Endpoint -> Contents] /\ meta' \in [Endpoint -> MetaStates]
  BY EmptyFacts DEF DeleteEndpoints, IInv, TypeOK, MetaStates
<1>2. pin' \in [Endpoint -> BOOLEAN]
  BY Zenon DEF DeleteEndpoints, IInv, TypeOK
<1>3. event' \in [Endpoint -> Event]
  BY DEF DeleteEndpoints, IInv, TypeOK, Event
<1>4. Forget(gone) /\ TypeOK /\ HandleInv
  BY DEF DeleteEndpoints, IInv
<1>5. ~Busy'
  BY DEF Busy, Done
<1> QED
  BY <1>1, <1>2, <1>3, <1>4, <1>5, ForgetType DEF IInv, TypeOK, OpInv

LEMMA EnvironmentIInv == IInv /\ Environment => IInv'
<1> SUFFICES ASSUME IInv, Environment PROVE IInv'
  OBVIOUS
<1>1. ASSUME NEW upgraded \in BOOLEAN, Restart(upgraded) PROVE IInv'
  <2>1. live' \in [Endpoint -> Contents] /\ meta' \in [Endpoint -> MetaStates]
    BY <1>1, EmptyFacts DEF Restart, IInv, TypeOK, MetaStates
  <2>2. event' \in [Endpoint -> Event] /\ pin' \in [Endpoint -> BOOLEAN]
    BY <1>1 DEF Restart, IInv, TypeOK, Event, NoEvent
  <2>3. Forget(Endpoint) /\ TypeOK /\ HandleInv /\ ~Busy'
    BY <1>1 DEF Restart, IInv, Busy, Done
  <2> QED
    BY <2>1, <2>2, <2>3, ForgetType DEF IInv, TypeOK, OpInv
<1>2. ASSUME NEW e \in Endpoint, NEW k \in Key, DriftKey(e, k) PROVE IInv'
  <2>1. live' \in [Endpoint -> Contents]
    BY <1>2 DEF DriftKey, IInv, TypeOK, Contents
  <2>2. ~Busy' /\ UNCHANGED <<pin, meta, open, entries, revision, seen, event>>
    BY <1>2 DEF DriftKey, Busy
  <2> QED
    BY <2>1, <2>2 DEF IInv, TypeOK, OpInv, HandleInv
<1> QED
  BY <1>1, <1>2 DEF Environment

LEMMA CallIInv == IInv /\ Call => IInv'
<1> SUFFICES ASSUME IInv, Call PROVE IInv'
  OBVIOUS
<1>1. ASSUME NEW e \in Endpoint, NEW next \in Contents, ReplaceEndpoint(e, next)
      PROVE  IInv'
  BY <1>1, BeginOpInv DEF ReplaceEndpoint
<1>2. ASSUME NEW e \in Endpoint, NEW next \in Contents,
             ReplaceOverflowClears(e, next)
      PROVE  IInv'
  BY <1>2, BeginOpInv, EmptyFacts, EmptyFits DEF ReplaceOverflowClears
<1>3. ASSUME NEW e \in Endpoint, ReplaceRejected(e) PROVE IInv'
  <2>1. TypeOK /\ Record(e, FALSE) /\ ~Busy'
    BY <1>3 DEF IInv, ReplaceRejected, Busy, Done
  <2> QED
    BY <1>3, <2>1, EventType DEF ReplaceRejected, IInv, TypeOK, OpInv, HandleInv
<1>4. ASSUME NEW e \in Endpoint, DeleteEndpoint(e) PROVE IInv'
  BY <1>4, DeleteEndpointsIInv DEF DeleteEndpoint
<1>5. ASSUME NEW e \in Endpoint, DeleteEndpointFails(e) PROVE IInv'
  <2>1. TypeOK /\ \E removed : RemoveFiles(e, removed, open[e])
    BY <1>5 DEF IInv, DeleteEndpointFails
  <2>2. /\ live' \in [Endpoint -> Contents] /\ pin' \in [Endpoint -> BOOLEAN]
        /\ meta' \in [Endpoint -> MetaStates]
    BY <2>1, RemoveFilesType
  <2>3. ~Busy' /\ UNCHANGED <<open, entries, revision, seen, event>>
    BY <1>5 DEF DeleteEndpointFails, Busy, Done
  <2> QED
    BY <2>2, <2>3 DEF IInv, TypeOK, OpInv, HandleInv
<1>6. ASSUME NEW idle \in SUBSET Endpoint, Sweep(idle) PROVE IInv'
  BY <1>6, DeleteEndpointsIInv DEF Sweep
<1>7. CASE ReadStatuses
  <2>1. seen' \in [Endpoint -> BOOLEAN]
    BY <1>7, Zenon DEF ReadStatuses, IInv, TypeOK
  <2> QED
    BY <1>7, <2>1 DEF ReadStatuses, Busy, Done, IInv, TypeOK, OpInv, HandleInv
<1>8. CASE ReadStatusesFails
  BY <1>8 DEF ReadStatusesFails, Busy, Done, IInv, TypeOK, OpInv, HandleInv
<1> QED
  BY <1>1, <1>2, <1>3, <1>4, <1>5, <1>6, <1>7, <1>8 DEF Call

\* Every step of the store, of its faults and of its environment keeps IInv.
LEMMA NextIInv == IInv /\ [Next]_vars => IInv'
<1> SUFFICES ASSUME IInv, [Next]_vars PROVE IInv'
  OBVIOUS
<1>1. CASE UNCHANGED vars
  <2>1. Target' = Target /\ Busy' = Busy
    BY <1>1 DEF vars, Target, Busy
  <2> QED
    BY <1>1, <2>1 DEF vars, IInv, TypeOK, OpInv, HandleInv, Fits, Keys
<1>2. CASE Progress
  <2>1. CASE Commit
    BY <2>1, CommitIInv
  <2>2. CASE WriteMeta
    BY <2>2, <1>2, FaultIInv DEF Progress
  <2>3. CASE \E k \in Key : DeleteMissing(k)
    BY <2>3, FaultIInv
  <2>4. CASE \E k \in Key : ClearKey(k) \/ WriteKey(k)
    BY <2>4, ProgressIInv
  <2>5. CASE CreatePinned \/ StampPinned \/ ClearDone \/ WriteDone
    BY <2>5, ProgressIInv
  <2> QED
    BY <1>2, <2>1, <2>2, <2>3, <2>4, <2>5 DEF Progress
<1>3. CASE Fault
  BY <1>3, FaultIInv
<1> QED
  BY <1>1, <1>2, <1>3, CallIInv, EnvironmentIInv DEF Next

-----------------------------------------------------------------------------
(* The store's variables keep their types whatever fails.                  *)
THEOREM StoreTypeOK == Spec => []TypeOK
<1>1. IInv => TypeOK
  BY DEF IInv
<1> QED
  BY <1>1, InitIInv, NextIInv, PTL DEF Spec

(* On every path of ReplaceEndpoint, and from every state that failures,   *)
(* crashes, half-finished deletions and foreign writes can leave, a        *)
(* revision is only stored once the endpoint's map holds exactly the       *)
(* desired entries.                                                        *)
THEOREM CommitsAreExact == Spec => CommitInstallsNext
<1>1. ASSUME IInv, [Next]_vars
      PROVE  [Busy /\ revision'[op.ep] > revision[op.ep]
                => live'[op.ep] = op.next /\ entries'[op.ep] = op.next]_vars
  <2> SUFFICES ASSUME Next, Busy, revision'[op.ep] > revision[op.ep]
               PROVE  live'[op.ep] = op.next /\ entries'[op.ep] = op.next
    BY <1>1
  <2>1. op \in OpType /\ op.ep \in Endpoint /\ revision[op.ep] \in Nat
    BY <1>1 DEF IInv, TypeOK, OpType
  <2>2. CASE Commit
    <3>1. Target = op.next
      BY <1>1, <2>2 DEF IInv, OpInv, Commit
    <3> QED
      BY <1>1, <2>1, <2>2, <3>1 DEF IInv, TypeOK, Commit, Target
  <2>3. CASE Progress /\ ~Commit
    <3>1. CASE CreatePinned \/ StampPinned \/ ClearDone \/ WriteDone
               \/ WriteMeta
      BY <2>1, <3>1 DEF CreatePinned, StampPinned, ClearDone, WriteDone,
                        WriteMeta
    <3>2. ASSUME NEW k \in Key, ClearKey(k) \/ WriteKey(k)
                                \/ DeleteMissing(k)
          PROVE  revision' = revision
      BY <3>2 DEF ClearKey, WriteKey, DeleteMissing, Fail
    <3> QED
      BY <2>1, <2>3, <3>1, <3>2 DEF Progress
  <2>4. CASE Fault
    <3>1. revision' = revision
      BY <2>4 DEF Fault, MapCallFails, StampFails, WriteMetaFails, Fail
    <3> QED
      BY <2>1, <3>1
  <2>5. CASE Call
    BY <2>5
    DEF Call, ReplaceEndpoint, ReplaceOverflowClears, ReplaceRejected, Busy,
        DeleteEndpoint, DeleteEndpointFails, Sweep, ReadStatuses, ReadStatusesFails
  <2>6. CASE Environment
    BY <2>1, <2>6 DEF Environment, Restart, Forget, DriftKey
  <2> QED
    BY <2>2, <2>3, <2>4, <2>5, <2>6 DEF Next
<1> QED
  BY <1>1, InitIInv, NextIInv, PTL DEF Spec, CommitInstallsNext

(* No Put of a validated replacement meets a full map.                     *)
THEOREM PutsAlwaysFit == Spec => []PutsHaveRoom
<1>1. IInv => PutsHaveRoom
  <2> SUFFICES ASSUME IInv, op.pc = "write"
               PROVE  Cardinality(Keys(Target) \cup op.puts) <= MaxEntries
    BY DEF PutsHaveRoom
  <2>1. Busy
    BY DEF Busy
  <2>2. /\ Keys(Target) \cup op.puts \subseteq Keys(op.next)
        /\ Cardinality(Keys(op.next)) <= MaxEntries
    BY <2>1 DEF IInv, OpInv, Fits
  <2>3. IsFiniteSet(Keys(op.next))
    BY StoreConfig, FS_Subset DEF Keys
  <2>4. /\ Cardinality(Keys(Target) \cup op.puts) <= Cardinality(Keys(op.next))
        /\ Cardinality(Keys(op.next)) \in Nat
        /\ Cardinality(Keys(Target) \cup op.puts) \in Nat
    BY <2>2, <2>3, FS_Subset, FS_CardinalityType
  <2> QED
    BY <2>2, <2>4, StoreConfig
<1> QED
  BY <1>1, InitIInv, NextIInv, PTL DEF Spec

(* A plan's deletes are only reached when the map has none of their keys.  *)
THEOREM PlannedDeletesAreRefused == Spec => []DeletesComeTooLate
<1>1. IInv => DeletesComeTooLate
  BY DEF IInv, OpInv, DeletesComeTooLate, Busy, Target
<1> QED
  BY <1>1, InitIInv, NextIInv, PTL DEF Spec

(* Without pinning, a failed replacement changes neither the installed     *)
(* policy nor the entries and the revision the store keeps.                *)
THEOREM UnpinnedFailuresAreClean ==
  ASSUME ~Pinned
  PROVE  Spec => FailedReplaceKeepsPolicy
<1>1. ASSUME IInv, [Next]_vars
      PROVE  [Busy /\ open[op.ep] /\ op'.pc = "idle" /\ op'.result = "error"
                => /\ live'[op.ep] = op.before
                   /\ entries'[op.ep] = entries[op.ep]
                   /\ revision'[op.ep] = revision[op.ep]]_vars
  <2> SUFFICES ASSUME Next, Busy, op'.pc = "idle", op'.result = "error"
               PROVE  /\ live'[op.ep] = op.before
                      /\ entries'[op.ep] = entries[op.ep]
                      /\ revision'[op.ep] = revision[op.ep]
    BY <1>1
  <2>1. /\ op \in OpType /\ ~op.created /\ op.before = live[op.ep]
        /\ op.pc \notin {"create", "stamp", "clear", "delete", "meta"}
    BY <1>1 DEF IInv, TypeOK, OpInv
  <2>2. CASE Fault
    BY <2>1, <2>2 DEF Fault, MapCallFails, StampFails, WriteMetaFails, Fail
  <2>3. CASE Progress
    <3>1. ~(CreatePinned \/ StampPinned \/ ClearDone \/ WriteDone)
      BY <2>1 DEF CreatePinned, StampPinned, ClearDone, WriteDone, OpType
    <3>2. ~Commit
      <4> SUFFICES ASSUME Commit PROVE FALSE
        OBVIOUS
      <4>1. op' = Done("ok")
        BY Zenon DEF Commit
      <4>2. Done("ok").result = "ok"
        BY DEF Done
      <4>3. QED
        BY <4>1, <4>2
    <3>5. ~WriteMeta
      BY <2>1 DEF WriteMeta
    <3>3. ASSUME NEW k \in Key PROVE ~(ClearKey(k) \/ DeleteMissing(k))
      BY <2>1 DEF ClearKey, DeleteMissing
    <3>4. ASSUME NEW k \in Key PROVE ~WriteKey(k)
      <4> SUFFICES ASSUME WriteKey(k) PROVE op'.pc = op.pc
        BY DEF Busy
      <4>1. op' = [[op EXCEPT !.puts = @ \ {k}]
                     EXCEPT !.fresh = [Target EXCEPT ![k] = op.next[k]]]
        BY DEF WriteKey, SetTarget
      <4> QED
        BY <2>1, <4>1 DEF OpType
    <3> QED
      BY <2>3, <3>1, <3>2, <3>3, <3>4, <3>5 DEF Progress
  <2>4. CASE Call
    BY <2>4
    DEF Call, ReplaceEndpoint, ReplaceOverflowClears, ReplaceRejected, Busy,
        DeleteEndpoint, DeleteEndpointFails, Sweep, ReadStatuses, ReadStatusesFails
  <2>5. CASE Environment
    BY <2>5 DEF Environment, Restart, DriftKey, Done, Busy
  <2> QED
    BY <2>2, <2>3, <2>4, <2>5 DEF Next
<1> QED
  BY <1>1, InitIInv, NextIInv, PTL DEF Spec, FailedReplaceKeepsPolicy

-----------------------------------------------------------------------------
(* Without pinning the store refines PolicyStore.                          *)

\* Nothing is in bpffs, what the store keeps of an endpoint has a revision,
\* and a call in progress has one left to give.
Transient ==
  /\ \A e \in Endpoint :
       ~pin[e] /\ meta[e] = "none" /\ (open[e] \/ seen[e] => revision[e] # 0)
  /\ Busy => op.pc \in {"write", "commit"} /\ revision[op.ep] < MaxRevision

LEMMA TransientInit == Init => Transient
  BY DEF Init, Transient, Busy, Done

\* The steps of a replacement in an unpinned store: they write the map nobody
\* sees yet.
LEMMA TransientProgress ==
  ASSUME ~Pinned, IInv, Transient, Progress \/ Fault
  PROVE  \/ /\ UNCHANGED <<live, pin, meta, open, revision, seen, event>>
            /\ Busy /\ op'.pc \in {"write", "commit"} /\ op'.ep = op.ep
         \/ Commit
         \/ Fail /\ UNCHANGED <<live, pin, meta>> /\ Busy
<1> USE DEF Busy
<1>1. CASE op.pc \notin {"write", "commit"}
  <2>1. op.pc = "idle"
    BY <1>1 DEF Transient
  <2> QED
    BY <2>1 DEF Progress, CreatePinned, StampPinned, ClearDone, WriteDone, ClearKey,
                WriteKey, DeleteMissing, Commit, WriteMeta, Fault, MapCallFails,
                StampFails, WriteMetaFails
<1>2. CASE op.pc \in {"write", "commit"}
  <2>1. op \in OpType /\ op.dels = {} /\ ~op.created
    BY <1>2 DEF IInv, TypeOK, OpInv
  <2>2. CASE Fault
    BY <1>2, <2>1, <2>2 DEF Fault, MapCallFails, StampFails, WriteMetaFails
  <2>3. CASE WriteDone
    BY <2>1, <2>3 DEF WriteDone, OpType
  <2>4. ASSUME NEW k \in Key, WriteKey(k)
        PROVE  /\ UNCHANGED <<live, pin, meta, open, revision, seen, event>>
               /\ op'.pc = "write" /\ op'.ep = op.ep
    <3>1. op' = [[op EXCEPT !.puts = @ \ {k}]
                   EXCEPT !.fresh = [Target EXCEPT ![k] = op.next[k]]]
      BY <2>4 DEF WriteKey, SetTarget
    <3>2. op'.pc = op.pc /\ op'.ep = op.ep
      BY <2>1, <3>1 DEF OpType
    <3> QED
      BY <2>4, <3>2 DEF WriteKey, SetTarget
  <2>5. ASSUME NEW k \in Key PROVE ~ClearKey(k) /\ ~DeleteMissing(k)
    BY <1>2 DEF ClearKey, DeleteMissing
  <2>6. ~CreatePinned /\ ~StampPinned /\ ~ClearDone /\ ~WriteMeta
    BY <1>2 DEF CreatePinned, StampPinned, ClearDone, WriteMeta
  <2> QED
    BY <1>2, <2>2, <2>3, <2>4, <2>5, <2>6 DEF Progress
<1> QED
  BY <1>1, <1>2

LEMMA TransientNext ==
  ASSUME ~Pinned, IInv, Transient, [Next]_vars
  PROVE  Transient'
<1>1. CASE UNCHANGED vars
  BY <1>1 DEF vars, Transient, Busy
<1>2. CASE Progress \/ Fault
  <2>1. CASE /\ UNCHANGED <<live, pin, meta, open, revision, seen, event>>
             /\ Busy /\ op'.pc \in {"write", "commit"} /\ op'.ep = op.ep
    BY <2>1 DEF Transient
  <2>2. CASE Commit
    <3>1. op \in OpType /\ op.ep \in Endpoint /\ revision[op.ep] \in Nat
      BY <2>2 DEF IInv, TypeOK, OpType, Commit, Busy
    <3>2. /\ ~Busy' /\ revision' = [revision EXCEPT ![op.ep] = @ + 1]
          /\ UNCHANGED <<pin, meta>>
          /\ \A e \in Endpoint \ {op.ep} : open'[e] = open[e] /\ seen'[e] = seen[e]
      BY <2>2 DEF Commit, Done, Busy, IInv, TypeOK
    <3> QED
      BY <3>1, <3>2 DEF Transient, IInv, TypeOK
  <2>3. CASE Fail /\ UNCHANGED <<live, pin, meta>>
    BY <2>3 DEF Fail, Done, Busy, Transient
  <2> QED
    BY <1>2, <2>1, <2>2, <2>3, TransientProgress
<1>3. CASE Call
  <2>1. ASSUME NEW e \in Endpoint, NEW next \in Contents,
               ReplaceEndpoint(e, next) \/ ReplaceOverflowClears(e, next)
        PROVE  Transient'
    <3>1. PICK kind, new : Begin(e, kind, new)
      BY <2>1 DEF ReplaceEndpoint, ReplaceOverflowClears
    <3>2. Prepare(e, new).pc = "write"
      BY DEF Prepare
    <3>3. op'.ep = e /\ op'.pc \in {"write", "commit"}
      BY <3>1, <3>2 DEF Begin
    <3>4. revision[e] < MaxRevision /\ UNCHANGED <<pin, meta, open, revision, seen>>
      BY <2>1 DEF ReplaceEndpoint, ReplaceOverflowClears
    <3> QED
      BY <3>3, <3>4 DEF Transient
  <2>2. ASSUME NEW gone \in SUBSET Endpoint, DeleteEndpoints(gone), op' = Done("ok")
        PROVE  Transient'
    <3>1. /\ \A e \in Endpoint : pin'[e] = (pin[e] /\ e \notin gone)
          /\ \A e \in Endpoint : open'[e] = (open[e] /\ e \notin gone)
          /\ \A e \in Endpoint : seen'[e] = (seen[e] /\ e \notin gone)
      BY <2>2 DEF DeleteEndpoints, Forget
    <3>2. /\ \A e \in Endpoint : meta'[e] \in {meta[e], "none"}
          /\ \A e \in Endpoint : e \notin gone => revision'[e] = revision[e]
          /\ ~Busy'
      BY <2>2 DEF DeleteEndpoints, Forget, Done, Busy
    <3> QED
      BY <3>1, <3>2 DEF Transient
  <2>3. CASE \E e \in Endpoint : ReplaceRejected(e)
    BY <2>3 DEF ReplaceRejected, Done, Busy, Transient
  <2>4. CASE ReadStatuses \/ ReadStatusesFails
    <3>1. \A e \in Endpoint : seen'[e] => seen[e]
      <4>1. CASE ReadStatuses
        <5>1. seen' = [e \in Endpoint |->
                         seen[e] \/ (e \in Managed /\ meta[e] # "none")]
          BY <4>1 DEF ReadStatuses
        <5>2. \A e \in Endpoint : meta[e] = "none"
          BY DEF Transient
        <5> QED
          BY <5>1, <5>2, Zenon
      <4> QED
        BY <2>4, <4>1 DEF ReadStatusesFails
    <3> QED
      BY <2>4, <3>1 DEF ReadStatuses, ReadStatusesFails, Done, Busy, Transient
  <2> QED
    BY <1>3, <2>1, <2>2, <2>3, <2>4
    DEF Call, DeleteEndpoint, DeleteEndpointFails, Sweep
<1>4. CASE Environment
  <2>1. ASSUME NEW upgraded \in BOOLEAN, Restart(upgraded) PROVE Transient'
    BY <2>1 DEF Restart, Forget, Done, Busy, Transient
  <2> QED
    BY <1>4, <2>1 DEF Environment, DriftKey, Transient
<1> QED
  BY <1>1, <1>2, <1>3, <1>4 DEF Next

\* One step of the store is one step of PolicyStore, or none.
LEMMA RefinesNext ==
  ASSUME ~Pinned, IInv, Transient, [Next]_vars
  PROVE  [Abstract!Next]_(Abstract!vars)
<1>1. CASE UNCHANGED <<live, revision, event>>
  BY <1>1 DEF Abstract!vars
<1>2. ASSUME NEW e \in Endpoint, Record(e, FALSE), UNCHANGED <<live, revision>>
      PROVE  Abstract!Next
  BY <1>2 DEF Record, Abstract!Next, Abstract!ReplaceFails, Abstract!Attempt
<1>3. CASE Commit
  <2>1. op \in OpType /\ op.ep \in Endpoint /\ op.fresh \in Contents
    BY <1>3 DEF IInv, TypeOK, OpType, Commit, Busy
  <2>2. Abstract!Replace(op.ep, op.fresh)
    BY <1>3 DEF Commit, Record, Transient, Busy, Abstract!Replace, Abstract!Attempt
  <2> QED
    BY <2>1, <2>2 DEF Abstract!Next
<1>4. CASE Progress \/ Fault
  <2>1. CASE Fail /\ UNCHANGED <<live, pin, meta>> /\ Busy
    <3>1. op.ep \in Endpoint
      BY <2>1 DEF IInv, TypeOK, OpType
    <3> QED
      BY <1>2, <2>1, <3>1 DEF Fail
  <2> QED
    BY <1>1, <1>3, <1>4, <2>1, TransientProgress
<1>5. ASSUME NEW gone \in SUBSET Endpoint, DeleteEndpoints(gone)
      PROVE  Abstract!Next
  <2>1. \A e \in Endpoint : Known(e) <=> revision[e] # 0
    BY DEF Known, Transient
  <2>2. event' = [e \in Endpoint |->
          IF e \in gone /\ revision[e] # 0
          THEN [prev |-> revision[e], rev |-> revision[e] + 1, success |-> TRUE]
          ELSE event[e]]
    BY <1>5, <2>1 DEF DeleteEndpoints
  <2>3. Abstract!Delete(gone)
    BY <1>5, <2>2 DEF DeleteEndpoints, Forget, Abstract!Delete, Abstract!Attempt
  <2> QED
    BY <2>3 DEF Abstract!Next
<1>6. CASE Call
  BY <1>1, <1>2, <1>5, <1>6
  DEF Call, ReplaceEndpoint, ReplaceOverflowClears, ReplaceRejected,
      DeleteEndpoint, DeleteEndpointFails, Sweep, ReadStatuses, ReadStatusesFails
<1>7. CASE Environment
  <2>1. ASSUME NEW upgraded \in BOOLEAN, Restart(upgraded) PROVE Abstract!Restart
    BY <2>1 DEF Restart, Forget, Transient, Abstract!Restart, NoEvent,
                Abstract!NoEvent
  <2> QED
    BY <1>7, <2>1 DEF Environment, DriftKey, Transient, Abstract!Next
<1>8. CASE UNCHANGED vars
  BY <1>1, <1>8 DEF vars
<1> QED
  BY <1>4, <1>6, <1>7, <1>8 DEF Next

\* Without pinning, the store that creates, fills and swaps kernel maps one
\* system call at a time (ebpf_store.go), with every one of them failing and
\* the process dying in between, is a PolicyStore: each replacement is one
\* step that installs a whole policy or leaves all but the audit trail alone.
THEOREM UnpinnedStoreIsAtomic ==
  ASSUME ~Pinned
  PROVE  Spec => ImplementsPolicyStore
<1>1. Init => Abstract!Init
  BY DEF Init, Abstract!Init, NoEvent, Abstract!NoEvent
<1>2. Init => IInv /\ Transient
  BY InitIInv, TransientInit
<1>3. IInv /\ Transient /\ [Next]_vars => (IInv /\ Transient)'
  BY NextIInv, TransientNext
<1>4. IInv /\ Transient /\ [Next]_vars => [Abstract!Next]_(Abstract!vars)
  BY RefinesNext
<1> QED
  BY <1>1, <1>2, <1>3, <1>4, PTL
  DEF Spec, ImplementsPolicyStore, Abstract!Spec
=============================================================================
