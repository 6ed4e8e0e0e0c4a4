------------------------------- MODULE Sidecar ------------------------------
(***************************************************************************)
(* The embedded Java server: spawned when the application starts, found    *)
(* ready by a health poller that gives up after a minute, killed when the  *)
(* window is destroyed and again when the application exits (backend.rs,   *)
(* lib.rs), but not when the application is itself killed or aborts.       *)
(***************************************************************************)
EXTENDS Naturals

VARIABLES
  ready,     (* BackendState.ready                                         *)
  child,     (* BackendState.child: None, or a child that has been spawned *)
  process,   (* the server's process                                       *)
  poller,    (* the poller's thread                                        *)
  app        (* the application: its setup hook, its window, its end       *)

sidecar == <<ready, child, process, poller, app>>

SidecarTypeOK ==
  /\ ready \in BOOLEAN
  /\ child \in {"none", "some"}
  /\ process \in {"none", "booting", "serving", "exited"}
  /\ poller \in {"off", "polling", "done"}
  /\ app \in {"setup", "open", "destroyed", "exited", "crashed"}

SidecarInit ==
  /\ ready = FALSE
  /\ child = "none"
  /\ process = "none"
  /\ poller = "off"
  /\ app = "setup"
-----------------------------------------------------------------------------
(* A start that loses the handle of the child it spawned.                  *)
InitBackendForgets ==
  /\ app = "setup"
  /\ app' = "open"
  /\ process' \in {"none", "booting"}
  /\ poller' = "polling"
  /\ UNCHANGED <<ready, child>>

(* backend::init from the setup hook.  The launcher may not be staged, or  *)
(* may not start; the poller starts all the same.                          *)
InitBackend ==
  /\ app = "setup"
  /\ app' = "open"
  /\ \/ child' = "some" /\ process' = "booting"
     \/ UNCHANGED <<child, process>>
  /\ poller' = "polling"
  /\ UNCHANGED ready

(* The server's own doing: it comes up, or it dies.                        *)
Serve ==
  /\ process = "booting"
  /\ process' = "serving"
  /\ UNCHANGED <<ready, child, poller, app>>

Die ==
  /\ process \in {"booting", "serving"}
  /\ process' = "exited"
  /\ UNCHANGED <<ready, child, poller, app>>

(* One round of poll_until_ready: health_ok, else the deadline, else       *)
(* another round.                                                          *)
Poll ==
  /\ poller = "polling"
  /\ \/ /\ process = "serving"
        /\ ready' = TRUE
        /\ poller' = "done"
     \/ /\ process # "serving"
        /\ poller' = "done"
        /\ UNCHANGED ready
  /\ UNCHANGED <<child, process, app>>

(* kill_child takes the handle, so that only the first call kills.         *)
KillChild ==
  /\ child' = "none"
  /\ process' = IF child = "some" THEN "exited" ELSE process

(* WindowEvent::Destroyed.                                                 *)
Destroy ==
  /\ app = "open"
  /\ app' = "destroyed"
  /\ KillChild
  /\ UNCHANGED <<ready, poller>>

(* RunEvent::ExitRequested or Exit, with or without the window's event.    *)
Exit ==
  /\ app \in {"open", "destroyed"}
  /\ app' = "exited"
  /\ KillChild
  /\ poller' = "done"
  /\ UNCHANGED ready

(* The process is killed or aborts: no event runs, and the server stays.   *)
Crash ==
  /\ app \notin {"exited", "crashed"}
  /\ app' = "crashed"
  /\ poller' = "done"
  /\ UNCHANGED <<ready, child, process>>
=============================================================================
