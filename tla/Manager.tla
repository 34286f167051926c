------------------------------ MODULE Manager -------------------------------
(***************************************************************************)
(* What the service manager promises to the controllers that start         *)
(* services and to the main loop that shuts them down, with no goroutine,  *)
(* channel or condition in sight.  A service is loaded, started once, and  *)
(* ends; nothing is loaded or started after Shutdown was called; Shutdown  *)
(* returns only when every service that was loaded has ended.              *)
(*                                                                         *)
(* Module Services (the code of pkg/system) is shown to implement it for   *)
(* one start of each service, and module Boot is built on it.              *)
(***************************************************************************)

CONSTANT Services  \* service IDs

VARIABLES life,         \* per service: how far it has come
          terminating,  \* Shutdown was called
          returned      \* Shutdown has returned

managerVars == <<life, terminating, returned>>

Lives == {"unloaded", "loaded", "active", "ended"}

ManagerTypeOK ==
  /\ life \in [Services -> Lives]
  /\ terminating \in BOOLEAN /\ returned \in BOOLEAN

ManagerInit ==
  /\ life = [s \in Services |-> "unloaded"]
  /\ terminating = FALSE /\ returned = FALSE

Becomes(s, from, to) ==
  /\ life[s] = from
  /\ life' = [life EXCEPT ![s] = to]
  /\ UNCHANGED <<terminating, returned>>

Load(s)  == ~terminating /\ Becomes(s, "unloaded", "loaded")
Start(s) == ~terminating /\ Becomes(s, "loaded", "active")
End(s)   == Becomes(s, "active", "ended")

Shutdown ==
  /\ ~terminating /\ terminating' = TRUE
  /\ UNCHANGED <<life, returned>>

\* A service that is loaded and was not started keeps Shutdown waiting.
ShutdownReturns ==
  /\ terminating /\ ~returned /\ returned' = TRUE
  /\ \A s \in Services : life[s] \in {"unloaded", "ended"}
  /\ UNCHANGED <<life, terminating>>

ManagerNext ==
  \/ \E s \in Services : Load(s) \/ Start(s) \/ End(s)
  \/ Shutdown \/ ShutdownReturns

ManagerSpec == ManagerInit /\ [][ManagerNext]_managerVars
=============================================================================
