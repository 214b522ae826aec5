---------------------------- MODULE OpenVSwitchRow ----------------------------
(***************************************************************************)
(* The external_ids column of a node's Open_vSwitch row, where controller, *)
(* agent and commands keep their documents side by side                    *)
(* (internal/linuxdatapath/libovsdb_vswitch.go).  A client reads the row   *)
(* from the cache that its monitor keeps, and a write sends back the whole *)
(* column as the cache has it, with one key changed: what the cache has    *)
(* not been told yet is turned back.                                       *)
(***************************************************************************)
\* The documents: the desired state and its revision, the frozen endpoints.
Key == {"state", "revision", "freeze"}

VARIABLES
  ids,    \* key -> value, as the server has it
  view,   \* connected client -> the column in its cache
  lost    \* the keys that were turned back since they were last set

row == <<ids, view, lost>>

Init(values, clients) ==
  /\ ids = values
  /\ view = [c \in clients |-> values]
  /\ lost = {}

\* The update goes through.  The server tells the client of its own update
\* before it answers.
Send(c, value, key) ==
  /\ ids' = value
  /\ view' = [view EXCEPT ![c] = value]
  /\ lost' = (lost \ key) \cup {k \in Key \ key : value[k] # ids[k]}

\* SetOpenVSwitchExternalID.  Nothing is sent when the cache has the value.
Set(c, key, value) ==
  IF view[c][key] = value THEN UNCHANGED row
  ELSE Send(c, [view[c] EXCEPT ![key] = value], {key})

\* The same with a document of which only that it is written matters here:
\* status, events and statistics carry the time and differ every time.
Report(c) == Send(c, view[c], {})

\* The monitor brings a cache up to date.
Deliver(c) ==
  /\ view[c] # ids
  /\ view' = [view EXCEPT ![c] = ids]
  /\ UNCHANGED <<ids, lost>>

\* Processes start with a cache that is up to date, and end.
Connect(clients) ==
  /\ view' = [c \in DOMAIN view \cup clients |-> IF c \in clients THEN ids ELSE view[c]]
  /\ UNCHANGED <<ids, lost>>
Disconnect(clients) ==
  /\ view' = [c \in DOMAIN view \ clients |-> view[c]]
  /\ UNCHANGED <<ids, lost>>
=============================================================================
