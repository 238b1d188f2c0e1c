-------------------------------- MODULE MCIpc --------------------------------
(* TLC instances of Ipc: which client runs which program.                  *)
EXTENDS Ipc, TLC
CONSTANTS d, e, l, w
MCProgram == d :> "doctor" @@ e :> "events" @@ l :> "logs" @@ w :> "list"
Programs == [c \in Clients |-> MCProgram[c]]
=============================================================================
