--------------------------- MODULE MultiServerStore ---------------------------
(***************************************************************************)
(* The multi-server implements a register store: the servers' copies of    *)
(* the maps cannot be told from one shared memory.                         *)
(*                                                                         *)
(* The store's content is the global copy of the master maps, at the       *)
(* addresses the views have registered.                                    *)
(***************************************************************************)
EXTENDS MultiServer

storeBar ==
  [d \in Devs |-> [a \in Stored |->
    IF a \in UnitPoints(master[d]) THEN master[d].global[a] ELSE Absent]]

Store == INSTANCE RegisterStore WITH Cells <- Stored, store <- storeBar

\* Every step of the workers, the views and the clients is a step of the
\* register store: a reply carries values the views show at that moment, no
\* write reaches a register of another unit id, and a register keeps its
\* value while views and connections come and go (modbusmultiserver.cpp:
\* on_dataWritten, setData, reconfigureServers, connectDevice).
IsRegisterStore == Store!Spec
=============================================================================
