---------------------------- MODULE TCXSyncProofs ----------------------------
(***************************************************************************)
(* Proofs about the TCX attachments, for every set of endpoints and        *)
(* programs.  What carries them: the handles of a generation in the making *)
(* are those of the sync's own attaches, which are younger than the ones   *)
(* r.attachments holds for the same key, or reused ones (Generation); and  *)
(* what r.attachments holds and the sync keeps has its link (Backed).      *)
(***************************************************************************)
EXTENDS TCXSync, TLAPS

Sig == SUBSET (Endpoint \X Program)

OpType ==
  [pc : {"closeall", "attach", "stale", "metrics", "once"},
   want : [Key -> Sig], todo : SUBSET Key, attached : SUBSET Key,
   next : [Key -> Handle \cup {NoHandle}], failed : BOOLEAN,
   frozen : SUBSET Endpoint]

Types ==
  /\ setting \in Settings
  /\ attachments \in [Key -> Handle \cup {NoHandle}]
  /\ made \in Nat
  /\ links \subseteq [id : Nat, key : Key, sig : Sig]
  /\ \A k \in Key : attachments[k] # NoHandle => attachments[k].id \in 1..made
  /\ Busy => op \in OpType

\* A key's handle in the next generation is new or the one it has.
Entry(k) ==
  /\ k \in op.attached =>
       /\ op.next[k] # NoHandle
       /\ op.next[k].id \in 1..made
       /\ Link(k, op.next[k]) \in links
       /\ op.pc # "metrics" /\ attachments[k] # NoHandle
            => attachments[k].id < op.next[k].id
  /\ k \notin op.attached /\ op.next[k] # NoHandle => op.next[k] = attachments[k]
  /\ op.next[k] # NoHandle => op.want[k] # {} /\ op.next[k].sig = op.want[k]
  /\ op.want[k] # {} =>
       op.next[k] # NoHandle \/ (op.pc = "attach" /\ k \in op.todo)

Generation ==
  /\ op.pc \in {"attach", "stale", "metrics"} => \A k \in Key : Entry(k)
  /\ op.pc = "attach" =>
       \A k \in op.todo : op.next[k] = NoHandle /\ op.want[k] # {}
  /\ op.pc = "stale" => \A k \in op.todo : op.next[k] = NoHandle
  /\ op.pc = "metrics" => attachments = op.next
  /\ op.pc = "closeall" => \A k \in Key : op.want[k] = {}
  /\ op.pc = "once" => \A k \in Key : attachments[k] = NoHandle
  /\ Busy /\ op.failed => "close" \in setting

\* A failed close ends the sync with an error, and an error ends the caller.
Sound ==
  \/ "close" \notin setting
  \/ "retries" \notin setting /\ (Busy \/ op.result # "error")

Backed ==
  Sound =>
    \A k \in Key :
      /\ attachments[k] # NoHandle
      /\ op.pc = "stale" => op.next[k] # NoHandle \/ k \in op.todo
      => Link(k, attachments[k]) \in links

IInv == Types /\ Generation /\ Backed

-----------------------------------------------------------------------------
(* What closing and collecting leave alone.                                *)

LEMMA CloseKeeps ==
  ASSUME NEW closing, closing \subseteq links, links' \in CloseResults(closing)
  PROVE  links' \subseteq links /\ links \ closing \subseteq links'
  BY DEF CloseResults

\* Closing the handle of one key leaves the links of the others.
LEMMA OthersKeepLinks ==
  ASSUME NEW handles, NEW k, NEW j, j # k, NEW h, Link(j, h) \in links
  PROVE  Link(j, h) \notin LinksOf(handles, {k})
  BY DEF LinksOf, Link

\* What a sync or r.attachments refers to is not collected.
LEMMA HeldKeepLinks ==
  ASSUME NEW l, Collect(l), NEW k \in Key, NEW h, Link(k, h) \in links,
         \/ h = attachments[k] /\ h # NoHandle
         \/ Busy /\ h = op.next[k] /\ h # NoHandle
  PROVE  Link(k, h) \in links'
<1>1. h.id \in Held
  BY DEF Held
<1>2. l.id \notin Held /\ links' = links \ {l}
  BY DEF Collect
<1>3. Link(k, h).id = h.id
  BY DEF Link
<1> QED
  BY <1>1, <1>2, <1>3

LEMMA TargetTypes ==
  ASSUME NEW programs \in [Endpoint -> Program], NEW frozen
  PROVE  Targets(programs, frozen) \in [Key -> Sig]
  BY DEF Targets, Sig

-----------------------------------------------------------------------------
(* The steps                                                               *)

LEMMA InitIInv == Init => IInv
<1> SUFFICES ASSUME Init PROVE IInv
  OBVIOUS
<1>1. /\ op.pc = "idle" /\ links = {} /\ made = 0 /\ setting \in Settings
      /\ attachments \in [Key -> Handle \cup {NoHandle}]
      /\ \A k \in Key : attachments[k] = NoHandle
  BY DEF Init, Done, NoHandles
<1> QED
  BY <1>1 DEF IInv, Types, Generation, Backed, Busy

LEMMA SyncBeginIInv ==
  ASSUME IInv, UNCHANGED setting, NEW programs \in [Endpoint -> Program],
         NEW frozen \in SUBSET Endpoint, SyncBegin(programs, frozen)
  PROVE  IInv'
<1> DEFINE want == Targets(programs, frozen)
           reused == {k \in Key : Reusable(want, k)}
           asked == {k \in Key : want[k] # {}}
           next == [k \in Key |-> IF k \in reused THEN attachments[k] ELSE NoHandle]
           pc == IF asked = {} THEN "closeall" ELSE "attach"
<1>1. /\ ~Busy /\ (op.result # "error" \/ "retries" \in setting)
      /\ op' = [pc |-> pc, want |-> want, todo |-> asked \ reused,
                attached |-> {}, next |-> next, failed |-> FALSE,
                frozen |-> frozen]
      /\ UNCHANGED <<setting, attachments, links, made>>
  BY DEF SyncBegin
<1>2. Key' = Key /\ op.pc = "idle"
  BY <1>1 DEF Key, Busy
<1>3. want \in [Key -> Sig]
  BY TargetTypes
<1>4. next \in [Key -> Handle \cup {NoHandle}]
  BY DEF IInv, Types
<1>5. \A k \in Key : /\ k \in asked <=> want[k] # {}
                     /\ k \in reused => /\ want[k] # {} /\ next[k] = attachments[k]
                                        /\ next[k].sig = want[k]
                     /\ k \notin reused => next[k] = NoHandle
                     /\ k \in reused => next[k] # NoHandle
  BY DEF Reusable
<1>6. pc \in {"closeall", "attach"} /\ (pc = "closeall" <=> asked = {})
      /\ asked \subseteq Key
  OBVIOUS
<1> HIDE DEF want, reused, asked, next, pc
<1>7. op' \in OpType'
  BY <1>1, <1>2, <1>3, <1>4, <1>6 DEF OpType
<1>8. Types'
  BY <1>1, <1>2, <1>7 DEF IInv, Types
<1>9. Generation'
  BY <1>1, <1>2, <1>5, <1>6 DEF Generation, Entry, Busy
<1>10. Backed'
  BY <1>1, <1>2, <1>6 DEF IInv, Backed, Sound, Busy
<1> QED
  BY <1>8, <1>9, <1>10 DEF IInv

LEMMA OnceBeginIInv ==
  ASSUME IInv, UNCHANGED setting, NEW programs \in [Endpoint -> Program],
         OnceBegin(programs)
  PROVE  IInv'
<1> DEFINE want == Targets(programs, {})
           asked == {k \in Key : want[k] # {}}
<1>1. /\ ~Busy /\ made = 0
      /\ op' = [pc |-> "once", want |-> want, todo |-> asked, attached |-> {},
                next |-> NoHandles, failed |-> FALSE, frozen |-> {}]
      /\ UNCHANGED <<setting, attachments, links, made>>
  BY DEF OnceBegin
<1>2. Key' = Key
  BY <1>1 DEF Key
<1>3. want \in [Key -> Sig] /\ asked \subseteq Key
      /\ NoHandles \in [Key -> Handle \cup {NoHandle}]
  BY TargetTypes DEF NoHandles
<1>4. \A k \in Key : attachments[k] = NoHandle
  BY <1>1 DEF IInv, Types
<1> HIDE DEF want, asked
<1>5. op' \in OpType'
  BY <1>1, <1>2, <1>3 DEF OpType
<1>6. Types'
  BY <1>1, <1>2, <1>5 DEF IInv, Types
<1>7. Generation' /\ Backed'
  BY <1>1, <1>2, <1>4 DEF Generation, Backed, Busy
<1> QED
  BY <1>6, <1>7 DEF IInv

\* A sync that ends has only the links of what is held to account for.
LEMMA EndIInv ==
  ASSUME IInv, UNCHANGED <<setting, attachments, made>>, op'.pc = "idle",
         links' \subseteq links, Backed'
  PROVE  IInv'
<1>1. Key' = Key
  BY DEF Key
<1> QED
  BY <1>1 DEF IInv, Types, Generation, Busy

LEMMA CloseAllIInv ==
  ASSUME IInv, UNCHANGED setting, NEW k \in Key, CloseAll(k)
  PROVE  IInv'
<1>1. /\ op.pc = "closeall" /\ Busy /\ op \in OpType /\ Key' = Key
      /\ attachments' = [attachments EXCEPT ![k] = NoHandle]
      /\ UNCHANGED <<setting, made>>
  BY DEF CloseAll, Busy, IInv, Types, Key
<1>2. links' \subseteq links /\ links \ LinksOf(attachments, {k}) \subseteq links'
  BY CloseKeeps DEF CloseAll, LinksOf
<1>3. \/ op' = op
      \/ "close" \in setting /\ op' = [op EXCEPT !.failed = TRUE]
  BY DEF CloseAll
<1>4. /\ op' \in OpType' /\ op'.pc = "closeall" /\ op'.want = op.want
      /\ op'.failed => "close" \in setting
  BY <1>1, <1>3 DEF OpType, IInv, Generation
<1>5. /\ attachments' \in [Key -> Handle \cup {NoHandle}]
      /\ attachments'[k] = NoHandle
      /\ \A j \in Key \ {k} : attachments'[j] = attachments[j]
  BY <1>1 DEF IInv, Types
<1>6. Types'
  BY <1>1, <1>2, <1>4, <1>5 DEF IInv, Types
<1>7. Generation'
  BY <1>1, <1>4 DEF IInv, Generation, Busy
<1>8. Backed'
  BY <1>1, <1>2, <1>4, <1>5, OthersKeepLinks DEF IInv, Backed, Sound, Busy
<1> QED
  BY <1>6, <1>7, <1>8 DEF IInv

LEMMA CloseAllDoneIInv ==
  ASSUME IInv, UNCHANGED setting, CloseAllDone
  PROVE  IInv'
<1>1. /\ attachments = NoHandles /\ op'.pc = "idle"
      /\ UNCHANGED <<setting, attachments, links, made>> /\ Key' = Key
  BY DEF CloseAllDone, Done, Key
<1>2. Backed'
  BY <1>1 DEF Backed, NoHandles
<1> QED
  BY <1>1, <1>2, EndIInv

\* r.attach by a sync: the new link joins the ones there are.
LEMMA AttachIInv ==
  ASSUME IInv, UNCHANGED setting, NEW k \in Key, Attach(k)
  PROVE  IInv'
<1> DEFINE h == [id |-> made + 1, sig |-> op.want[k]]
<1>1. /\ op.pc = "attach" /\ k \in op.todo /\ Busy /\ op \in OpType /\ Key' = Key
      /\ made' = made + 1 /\ made \in Nat
      /\ links' = links \cup {Link(k, h)}
      /\ op' = [op EXCEPT !.next = [op.next EXCEPT ![k] = h],
                          !.attached = op.attached \cup {k},
                          !.todo = op.todo \ {k}]
      /\ UNCHANGED <<setting, attachments>>
  BY DEF Attach, Busy, IInv, Types, Key, Link
<1>2. /\ h \in Handle /\ h.id = made + 1 /\ h.sig = op.want[k] /\ h # NoHandle
      /\ Link(k, h) \in [id : Nat, key : Key, sig : Sig]
  BY <1>1, TCXAssumption DEF OpType, Handle, Link, Sig
<1> HIDE DEF h
<1>3. /\ op'.pc = "attach" /\ op'.want = op.want /\ op'.failed = op.failed
      /\ op'.attached = op.attached \cup {k} /\ op'.todo = op.todo \ {k}
      /\ op'.next = [op.next EXCEPT ![k] = h]
  BY <1>1 DEF OpType
<1>4. /\ op'.next \in [Key -> Handle \cup {NoHandle}] /\ op'.next[k] = h
      /\ \A j \in Key \ {k} : op'.next[j] = op.next[j]
  BY <1>1, <1>2, <1>3 DEF OpType
<1>5. op' \in OpType'
  BY <1>1, <1>3, <1>4 DEF OpType
<1>6. Types'
  BY <1>1, <1>2, <1>5 DEF IInv, Types
<1>7. \A j \in Key : Entry(j)'
  <2> SUFFICES ASSUME NEW j \in Key PROVE Entry(j)'
    OBVIOUS
  <2>1. Entry(j) /\ (attachments[j] # NoHandle => attachments[j].id \in 1..made)
        /\ op.want[k] # {}
    BY <1>1 DEF IInv, Generation, Types
  <2>2. CASE j = k
    BY <1>1, <1>2, <1>3, <1>4, <2>1, <2>2 DEF Entry
  <2>3. CASE j # k
    BY <1>1, <1>3, <1>4, <2>1, <2>3 DEF Entry
  <2> QED
    BY <2>2, <2>3
<1>8. Generation'
  BY <1>1, <1>3, <1>4, <1>7 DEF IInv, Generation, Busy, OpType
<1>9. Backed'
  BY <1>1, <1>3 DEF IInv, Backed, Sound, Busy
<1> QED
  BY <1>6, <1>8, <1>9 DEF IInv

\* The handles this sync attached are younger than the ones it found.
LEMMA AttachFailsIInv ==
  ASSUME IInv, UNCHANGED setting, NEW k \in Key, AttachFails(k)
  PROVE  IInv'
<1>1. /\ op.pc = "attach" /\ Busy /\ op'.pc = "idle" /\ op'.result = "error"
      /\ UNCHANGED <<setting, attachments, made>> /\ Key' = Key
  BY DEF AttachFails, Done, Busy, Key
<1>2. /\ links' \subseteq links
      /\ links \ LinksOf(op.next, op.attached) \subseteq links'
  BY CloseKeeps DEF AttachFails, LinksOf
<1>3. \A j \in Key : attachments[j] # NoHandle
        => Link(j, attachments[j]) \notin LinksOf(op.next, op.attached)
  <2> SUFFICES ASSUME NEW j \in Key, attachments[j] # NoHandle, j \in op.attached
               PROVE  op.next[j].id # attachments[j].id
    BY DEF LinksOf, Link
  <2>1. /\ attachments[j].id < op.next[j].id
        /\ attachments[j].id \in 1..made /\ op.next[j].id \in 1..made /\ made \in Nat
    BY <1>1 DEF IInv, Types, Generation, Entry
  <2> QED
    BY <2>1
<1>4. Backed'
  BY <1>1, <1>2, <1>3 DEF IInv, Backed, Sound, Busy
<1> QED
  BY <1>1, <1>2, <1>4, EndIInv

LEMMA AttachDoneIInv ==
  ASSUME IInv, UNCHANGED setting, AttachDone
  PROVE  IInv'
<1> DEFINE stale == {k \in Key : attachments[k] # NoHandle /\ op.next[k] = NoHandle}
<1>1. /\ op.pc = "attach" /\ op.todo = {} /\ Busy /\ op \in OpType /\ Key' = Key
      /\ op' = [op EXCEPT !.pc = "stale", !.todo = stale]
      /\ UNCHANGED <<setting, attachments, links, made>>
  BY DEF AttachDone, Busy, IInv, Types, Key
<1>2. /\ op'.pc = "stale" /\ op'.todo = stale /\ op'.want = op.want
      /\ op'.next = op.next /\ op'.attached = op.attached /\ op'.failed = op.failed
      /\ op' \in OpType'
  BY <1>1 DEF OpType
<1>3. Types'
  BY <1>1, <1>2 DEF IInv, Types
<1>4. \A k \in Key : Entry(k)'
  BY <1>1, <1>2 DEF IInv, Generation, Entry
<1>5. Generation'
  BY <1>1, <1>2, <1>4 DEF IInv, Generation, Busy
<1>6. Backed'
  BY <1>1, <1>2 DEF IInv, Backed, Sound, Busy
<1> QED
  BY <1>3, <1>5, <1>6 DEF IInv

\* What is closed as stale is no part of the next generation.
LEMMA CloseStaleIInv ==
  ASSUME IInv, UNCHANGED setting, NEW k \in Key, CloseStale(k)
  PROVE  IInv'
<1>1. /\ op.pc = "stale" /\ k \in op.todo /\ Busy /\ op \in OpType /\ Key' = Key
      /\ UNCHANGED <<setting, attachments, made>>
  BY DEF CloseStale, Busy, IInv, Types, Key
<1>2. links' \subseteq links /\ links \ LinksOf(attachments, {k}) \subseteq links'
  BY CloseKeeps DEF CloseStale, LinksOf
<1>3. \/ op' = [op EXCEPT !.todo = op.todo \ {k}]
      \/ "close" \in setting /\ op' = [op EXCEPT !.todo = op.todo \ {k}, !.failed = TRUE]
  BY DEF CloseStale
<1>4. /\ op'.pc = "stale" /\ op'.todo = op.todo \ {k} /\ op'.want = op.want
      /\ op'.next = op.next /\ op'.attached = op.attached
      /\ op' \in OpType' /\ (op'.failed => "close" \in setting)
  BY <1>1, <1>3 DEF OpType, IInv, Generation
<1>5. op.next[k] = NoHandle
  BY <1>1 DEF IInv, Generation
<1>6. Types'
  BY <1>1, <1>2, <1>4 DEF IInv, Types
<1>7. \A j \in Key : Entry(j)'
  <2> SUFFICES ASSUME NEW j \in Key PROVE Entry(j)'
    OBVIOUS
  <2>1. Entry(j)
    BY <1>1 DEF IInv, Generation
  <2>2. j \in op.attached => Link(j, op.next[j]) \in links'
    BY <1>2, <1>5, <2>1, OthersKeepLinks DEF Entry
  <2> QED
    BY <1>1, <1>4, <2>1, <2>2 DEF Entry
<1>8. Generation'
  BY <1>1, <1>4, <1>7 DEF IInv, Generation, Busy
<1>9. Backed'
  <2> SUFFICES ASSUME Sound, NEW j \in Key, attachments[j] # NoHandle,
                      op.next[j] # NoHandle \/ j \in op.todo \ {k}
               PROVE  Link(j, attachments[j]) \in links'
    BY <1>1, <1>4 DEF Backed, Sound, Busy
  <2>1. j # k /\ Link(j, attachments[j]) \in links
    BY <1>1, <1>5 DEF IInv, Backed
  <2> QED
    BY <1>2, <2>1, OthersKeepLinks
<1> QED
  BY <1>6, <1>8, <1>9 DEF IInv

LEMMA InstallIInv ==
  ASSUME IInv, UNCHANGED setting, Install
  PROVE  IInv'
<1>1. /\ op.pc = "stale" /\ op.todo = {} /\ Busy /\ op \in OpType /\ Key' = Key
      /\ attachments' = op.next /\ op' = [op EXCEPT !.pc = "metrics"]
      /\ UNCHANGED <<setting, links, made>>
  BY DEF Install, Busy, IInv, Types, Key
<1>2. /\ op'.pc = "metrics" /\ op'.want = op.want
      /\ op'.next = op.next /\ op'.attached = op.attached /\ op'.failed = op.failed
      /\ op' \in OpType'
  BY <1>1 DEF OpType
<1>3. \A k \in Key : Entry(k)
  BY <1>1 DEF IInv, Generation
<1>4. Types'
  <2>1. \A k \in Key : op.next[k] # NoHandle => op.next[k].id \in 1..made
    BY <1>3 DEF Entry, IInv, Types
  <2> QED
    BY <1>1, <1>2, <2>1 DEF IInv, Types, OpType
<1>5. \A k \in Key : Entry(k)'
  BY <1>1, <1>2, <1>3 DEF Entry
<1>6. Generation'
  BY <1>1, <1>2, <1>5 DEF IInv, Generation, Busy
<1>7. Backed'
  BY <1>1, <1>2, <1>3 DEF IInv, Backed, Sound, Busy, Entry
<1> QED
  BY <1>4, <1>6, <1>7 DEF IInv

LEMMA StaleFailedIInv ==
  ASSUME IInv, UNCHANGED setting, StaleFailed
  PROVE  IInv'
<1>1. /\ op'.pc = "idle" /\ op'.result = "error"
      /\ "close" \in setting /\ UNCHANGED <<setting, attachments, made>>
  BY DEF StaleFailed, Done, IInv, Generation, Busy
<1>2. links' \subseteq links
  BY CloseKeeps DEF StaleFailed, LinksOf
<1>3. Backed'
  BY <1>1 DEF Backed, Sound, Busy
<1> QED
  BY <1>1, <1>2, <1>3, EndIInv

LEMMA MetricsIInv ==
  ASSUME IInv, UNCHANGED setting, Metrics
  PROVE  IInv'
<1>1. /\ op.pc = "metrics" /\ Busy /\ op'.pc = "idle" /\ op'.result \in {"ok", "error"}
      /\ UNCHANGED <<setting, attachments, links, made>> /\ Key' = Key
  BY DEF Metrics, Done, Busy, Key
<1>2. Backed'
  BY <1>1 DEF IInv, Backed, Sound, Busy
<1> QED
  BY <1>1, <1>2, EndIInv

LEMMA OnceAttachIInv ==
  ASSUME IInv, UNCHANGED setting, NEW k \in Key, OnceAttach(k)
  PROVE  IInv'
<1> DEFINE h == [id |-> made + 1, sig |-> op.want[k]]
<1>1. /\ op.pc = "once" /\ Busy /\ op \in OpType /\ Key' = Key
      /\ made' = made + 1 /\ made \in Nat
      /\ links' = links \cup {Link(k, h)}
      /\ op' = [op EXCEPT !.next = [op.next EXCEPT ![k] = h],
                          !.attached = op.attached \cup {k},
                          !.todo = op.todo \ {k}]
      /\ UNCHANGED <<setting, attachments>>
  BY DEF OnceAttach, Busy, IInv, Types, Key, Link
<1>2. h \in Handle /\ Link(k, h) \in [id : Nat, key : Key, sig : Sig]
  BY <1>1 DEF OpType, Handle, Link, Sig
<1> HIDE DEF h
<1>3. op' \in OpType' /\ op'.pc = "once" /\ op'.failed = op.failed
  BY <1>1, <1>2 DEF OpType
<1>4. \A j \in Key : attachments'[j] = NoHandle
  BY <1>1 DEF IInv, Generation
<1>5. Types'
  BY <1>1, <1>2, <1>3 DEF IInv, Types
<1>6. Generation' /\ Backed'
  BY <1>1, <1>3, <1>4 DEF IInv, Generation, Backed, Busy
<1> QED
  BY <1>5, <1>6 DEF IInv

LEMMA OnceReturnsIInv ==
  ASSUME IInv, UNCHANGED setting, OnceReturns
  PROVE  IInv'
<1>1. /\ op.pc = "once" /\ op'.pc = "idle"
      /\ UNCHANGED <<setting, attachments, made>> /\ Key' = Key
  BY DEF OnceReturns, Done, Key
<1>2. links' \subseteq links
  BY CloseKeeps DEF OnceReturns, LinksOf
<1>3. Backed'
  BY <1>1 DEF IInv, Generation, Backed
<1> QED
  BY <1>1, <1>2, <1>3, EndIInv

LEMMA CollectIInv ==
  ASSUME IInv, UNCHANGED setting, NEW l \in links, Collect(l)
  PROVE  IInv'
<1>1. /\ UNCHANGED <<setting, attachments, made, op>> /\ Key' = Key
      /\ links' \subseteq links
  BY DEF Collect, Key
<1>2. Types'
  BY <1>1 DEF IInv, Types, Busy, OpType
<1>3. op.pc \in {"attach", "stale", "metrics"} => \A k \in Key : Entry(k)'
  <2> SUFFICES ASSUME op.pc \in {"attach", "stale", "metrics"}, NEW k \in Key
               PROVE  Entry(k)'
    OBVIOUS
  <2>1. Entry(k) /\ Busy
    BY DEF IInv, Generation, Busy
  <2>2. k \in op.attached => Link(k, op.next[k]) \in links'
    BY <2>1, HeldKeepLinks DEF Entry
  <2> QED
    BY <1>1, <2>1, <2>2 DEF Entry
<1>4. Generation'
  BY <1>1, <1>3 DEF IInv, Generation, Busy
<1>5. Backed'
  BY <1>1, HeldKeepLinks DEF IInv, Backed, Sound, Busy
<1> QED
  BY <1>2, <1>4, <1>5 DEF IInv

LEMMA ExitIInv ==
  ASSUME IInv, UNCHANGED setting, Exit
  PROVE  IInv'
<1>1. /\ op'.pc = "idle" /\ links' = {} /\ made' = 0 /\ setting' = setting
      /\ Key' = Key /\ attachments' = NoHandles
  BY DEF Exit, Done, Key
<1>2. /\ attachments' \in [Key -> Handle \cup {NoHandle}]
      /\ \A k \in Key : attachments'[k] = NoHandle
  BY <1>1 DEF NoHandles
<1> QED
  BY <1>1, <1>2 DEF IInv, Types, Generation, Backed, Busy

LEMMA NextIInv == IInv /\ [Next]_vars => IInv'
<1> SUFFICES ASSUME IInv, [Next]_vars PROVE IInv'
  OBVIOUS
<1>1. CASE UNCHANGED vars
  <2>1. UNCHANGED <<setting, attachments, links, made, op>>
    BY <1>1 DEF vars
  <2>2. Key' = Key /\ OpType' = OpType
    BY <2>1 DEF Key, OpType
  <2> QED
    BY <2>1, <2>2 DEF IInv, Types, Generation, Entry, Backed, Sound, Busy
<1>2. CASE Next
  <2>1. UNCHANGED setting
    BY <1>2 DEF Next
  <2>2. CASE Sync
    BY <2>1, <2>2, CloseAllIInv, AttachIInv, AttachFailsIInv, CloseStaleIInv,
       OnceAttachIInv, CloseAllDoneIInv, AttachDoneIInv, InstallIInv,
       StaleFailedIInv, MetricsIInv, OnceReturnsIInv DEF Sync
  <2> QED
    BY <1>2, <2>1, <2>2, SyncBeginIInv, OnceBeginIInv, CollectIInv, ExitIInv
    DEF Next
<1> QED
  BY <1>1, <1>2

LEMMA TCXInvariant == Spec => []IInv
  BY InitIInv, NextIInv, PTL DEF Spec

-----------------------------------------------------------------------------
(* The theorems                                                            *)

\* A close that fails makes the sync return an error, and the agent's loop
\* returns on the first error (netloom-agent/main.go:4144): no process
\* reconciles again after a failed close.
FailedCloseEndsTheProcess ==
  \A s \in Settings : "close" \in s => "retries" \notin s

\* Between two syncs every handle in r.attachments has its link in the kernel
\* (reconcile.go:3132-3184), whatever failed to attach and however often the
\* caller retries, unless a close failed.
THEOREM HandlesStayAttached == Spec => []HeldIsAttached
<1>1. IInv => HeldIsAttached
  BY DEF IInv, Backed, Sound, HeldIsAttached, Busy
<1> QED
  BY <1>1, TCXInvariant, PTL

\* Make before break (reconcile.go:3143-3184), for every set of endpoints and
\* programs: an enforced key that is still asked for has an attachment at
\* every moment of a sync.
THEOREM EnforcementIsNeverInterrupted ==
  ASSUME FailedCloseEndsTheProcess
  PROVE  Spec => []NeverUnenforced
<1>1. IInv => NeverUnenforced
  <2> SUFFICES ASSUME IInv, Busy, op.pc # "once", NEW k \in Key,
                      attachments[k] # NoHandle, op.want[k] # {}
               PROVE  \E l \in links : l.key = k
    BY DEF NeverUnenforced
  <2>1. Sound /\ op.pc \in {"closeall", "attach", "stale", "metrics"}
    BY DEF IInv, Types, Sound, FailedCloseEndsTheProcess, OpType
  <2>2. op.pc = "stale" => op.next[k] # NoHandle
    BY DEF IInv, Generation, Entry
  <2>3. Link(k, attachments[k]) \in links
    BY <2>1, <2>2 DEF IInv, Backed
  <2> QED
    BY <2>3 DEF Link
<1> QED
  BY <1>1, TCXInvariant, PTL

\* After a sync that installed its generation, r.attachments and the kernel
\* have exactly the targets that were asked for (reconcile.go:3180-3192).
THEOREM SyncsInstallTheirTargets ==
  ASSUME FailedCloseEndsTheProcess
  PROVE  Spec => SyncInstallsTargets
<1> DEFINE Returns == op.pc = "metrics" /\ op'.pc = "idle" /\ op'.result # "exit"
           Installed ==
             \A k \in Key :
               /\ (attachments'[k] # NoHandle) <=> (op.want[k] # {})
               /\ op.want[k] # {} => /\ attachments'[k].sig = op.want[k]
                                     /\ Link(k, attachments'[k]) \in links'
<1>1. IInv /\ [Next]_vars => [Returns => Installed]_vars
  <2> SUFFICES ASSUME IInv, [Next]_vars, Returns PROVE Installed
    OBVIOUS
  <2>1. Metrics
    BY DEF Next, vars, SyncBegin, OnceBegin, Busy, Sync, CloseAll, Attach,
           AttachFails, CloseStale, OnceAttach, CloseAllDone, AttachDone,
           Install, StaleFailed, OnceReturns, Collect, Exit, Done
  <2>2. UNCHANGED <<attachments, links>>
    BY <2>1 DEF Metrics
  <2>3. \A k \in Key : Entry(k) /\ op.next[k] = attachments[k]
    BY DEF IInv, Generation
  <2>4. Sound
    BY DEF IInv, Types, Sound, FailedCloseEndsTheProcess, Busy
  <2>5. \A k \in Key : attachments[k] # NoHandle => Link(k, attachments[k]) \in links
    BY <2>4 DEF IInv, Backed
  <2> QED
    BY <2>2, <2>3, <2>5 DEF Entry
<1> QED
  BY <1>1, TCXInvariant, PTL DEF Spec, SyncInstallsTargets
=============================================================================
