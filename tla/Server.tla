------------------------------- MODULE Server -------------------------------
(***************************************************************************)
(* The whole program: Main and reloadConfig (cmd/main.go), the web handler *)
(* (web/web.go) and the requests to its API.                               *)
(*                                                                         *)
(* A configuration is the number of the reload that loads it, 0 for the    *)
(* one at the start: in the worst case the file, which is not the same one *)
(* then, has always changed in between.  What the four reloadables do with *)
(* a configuration is in Writer, RemoteRead and TargetManager; here it is  *)
(* applied or, where ApplyConfig can return an error, not.                 *)
(*                                                                         *)
(* POST /-/quit is left out: no flag sets EnableQuit.  A signal that is    *)
(* sent on a channel without a receiver is lost and changes nothing.       *)
(***************************************************************************)
EXTENDS API

CONSTANT MaxReloads   \* bound: number of reloads after the start

ASSUME ServerAssumption == MaxReloads \in Nat

VARIABLES
  main,      \* where Main is
  web,       \* where the goroutine of Handler.Run is
  loads,     \* number of files loaded
  todo,      \* reloadables that reloadConfig has yet to visit
  reload,    \* who runs reloadConfig: "main", the goroutine "hup", or "idle"
  failed,    \* reloadables whose ApplyConfig has failed in this reload
  applied    \* configuration of each reloadable; -1 is none

reloadVars == <<loads, todo, reload, failed, applied>>
vars == <<main, web, reloadVars, apiVars>>

Reloadables == <<"writer", "reader", "targets", "web">>
CanFail     == {"writer", "reader"}
Components  == {"writer", "reader", "targets", "web"}

Exited == {"exit0", "exit1", "exit2", "killed"}
Ended  == main \in Exited \/ crashed

Init ==
  /\ ApiInit
  /\ main = "parse"
  /\ web = "off"
  /\ loads = 0
  /\ todo = <<>>
  /\ reload = "idle"
  /\ failed = {}
  /\ applied = [r \in Components |-> -1]

-----------------------------------------------------------------------------
\* parse: bad flags, arguments or URL.
ParseFails ==
  /\ main = "parse"
  /\ main' = "exit2"
  /\ UNCHANGED <<web, reloadVars, apiVars>>

PrintVersion ==
  /\ main = "parse"
  /\ main' = "exit0"
  /\ UNCHANGED <<web, reloadVars, apiVars>>

\* Everything is constructed, and reloadConfig called.
Parsed ==
  /\ main = "parse"
  /\ main' = "load"
  /\ reload' = "main"
  /\ UNCHANGED <<web, loads, todo, failed, applied, apiVars>>

\* A signal before signal.Notify has been called for it ends the process.
Killed ==
  /\ main \in {"parse", "load", "start", "ready"}
  /\ main' = "killed"
  /\ UNCHANGED <<web, reloadVars, apiVars>>

\* The goroutines are started, and hupReady is closed.
Start ==
  /\ main = "start"
  /\ main' = "ready"
  /\ web' = "listen"
  /\ UNCHANGED <<reloadVars, apiVars>>

EnterSelect ==
  /\ main = "ready"
  /\ main' = "select"
  /\ UNCHANGED <<web, reloadVars, apiVars>>

\* SIGTERM, or an error of the web server, which waits for this receiver.
Leave ==
  /\ main = "select"
  /\ main' = "stop"
  /\ web' \in {web} \cup (IF web = "failed" THEN {"sent"} ELSE {})
  /\ UNCHANGED <<reloadVars, apiVars>>

\* cancelCtx and targetManager.Stop, deferred; return 0 in all cases.
Stop ==
  /\ main = "stop"
  /\ main' = "exit0"
  /\ UNCHANGED <<web, reloadVars, apiVars>>

-----------------------------------------------------------------------------
(***************************************************************************)
(* reloadConfig.                                                           *)
(***************************************************************************)

\* The goroutine receives SIGHUP when it is not busy with another one.
Hup ==
  /\ main \in {"ready", "select", "stop"}
  /\ reload = "idle"
  /\ loads <= MaxReloads
  /\ reload' = "hup"
  /\ UNCHANGED <<main, web, loads, todo, failed, applied, apiVars>>

\* reloadConfig returns err: Main exits, the goroutine logs it.
Return(err) ==
  /\ reload' = "idle"
  /\ main' = IF reload = "hup" THEN main ELSE IF err THEN "exit1" ELSE "start"

\* config.LoadFile fails: nothing is applied.
LoadFails ==
  /\ reload # "idle" /\ todo = <<>>
  /\ Return(TRUE)
  /\ UNCHANGED <<web, loads, todo, failed, applied, apiVars>>

LoadFile ==
  /\ reload # "idle" /\ todo = <<>>
  /\ loads' = loads + 1
  /\ failed' = {}
  /\ todo' = Reloadables
  /\ UNCHANGED <<main, web, reload, applied, apiVars>>

\* The loop goes on to the next one, and reloadConfig returns after the last.
Continue ==
  /\ todo' = Tail(todo)
  /\ IF Tail(todo) = <<>> THEN Return(failed' # {}) ELSE UNCHANGED <<main, reload>>

\* rl.ApplyConfig(conf) of the next one; that of the web handler only keeps
\* the configuration.
Apply ==
  /\ todo # <<>>
  /\ applied' = [applied EXCEPT ![Head(todo)] = loads - 1]
  /\ UNCHANGED failed
  /\ Continue
  /\ UNCHANGED <<web, loads, apiVars>>

\* Mutant: the loop ends with the first error.
ApplyFailsReturns ==
  /\ todo # <<>> /\ Head(todo) \in CanFail
  /\ failed' = failed \cup {Head(todo)}
  /\ todo' = <<>>
  /\ Return(TRUE)
  /\ UNCHANGED <<web, loads, applied, apiVars>>

\* ... which fails.
ApplyFails ==
  /\ todo # <<>> /\ Head(todo) \in CanFail
  /\ failed' = failed \cup {Head(todo)}
  /\ Continue
  /\ UNCHANGED <<web, loads, applied, apiVars>>

-----------------------------------------------------------------------------
(***************************************************************************)
(* The web handler.                                                        *)
(***************************************************************************)
Listen ==
  /\ web = "listen"
  /\ web' = "serve"
  /\ UNCHANGED <<main, reloadVars, apiVars>>

\* net.Listen or server.Serve fails; the error is sent to Main.
ServeFails ==
  /\ web \in {"listen", "serve"}
  /\ web' = "failed"
  /\ UNCHANGED <<main, reloadVars, apiVars>>

\* POST /-/reload sends on reloadCh, from which nobody receives.
PostReload(c) ==
  /\ Arrives(c, "reload")
  /\ web = "serve"
  /\ conn' = [conn EXCEPT ![c] = [@ EXCEPT !.state = "hung", !.kind = "reload"]]
  /\ UNCHANGED <<main, web, reloadVars, task, sliceVars, crashed>>

Request(c) ==
  /\ web = "serve"
  /\ RequestStep(c)
  /\ UNCHANGED <<main, web, reloadVars>>

Serve == ApiNext /\ UNCHANGED <<main, web, reloadVars>>

-----------------------------------------------------------------------------
ReloadStep == LoadFails \/ LoadFile \/ Apply \/ ApplyFails

Next ==
  \/ /\ ~ Ended
     /\ \/ ParseFails \/ PrintVersion \/ Parsed \/ Killed \/ Start \/ EnterSelect \/ Leave \/ Stop
        \/ Hup \/ ReloadStep
        \/ Listen \/ ServeFails
        \/ \E c \in Conns : PostReload(c) \/ Request(c)
        \/ Serve
  \/ Ended /\ UNCHANGED vars

\* Goroutines run, a request of the proxy ends because its connection has a
\* deadline, and ApplyConfig returns (Writer and TargetManager).
Fairness ==
  /\ WF_vars(~ Ended /\ ReloadStep)
  /\ \A c \in Conns : WF_vars(~ Ended /\ HandlerStep(c) /\ UNCHANGED <<main, web, reloadVars>>)
  /\ \A g \in Conns \X Targets :
       WF_vars(~ Ended /\ GoroutineStep(g) /\ UNCHANGED <<main, web, reloadVars>>)

Spec == Init /\ [][Next]_vars
FairSpec == Spec /\ Fairness

-----------------------------------------------------------------------------
(***************************************************************************)
(* Properties.                                                             *)
(***************************************************************************)

\* After reloadConfig, whichever reloadables have failed, every other one has
\* the configuration that was loaded last (main.go: the loop over rls); and
\* once Main has started its goroutines, none of them is without one.
ReloadApplies ==
  main \in {"ready", "select", "stop"} =>
     \A r \in Components :
        /\ applied[r] >= 0
        /\ reload = "idle" => applied[r] = loads - 1 \/ r \in failed

\* A request that waits for the goroutines of proxyReq is answered, or its
\* handler panics, unless the process ends: whatever the targets answer,
\* whatever the appends lose, although another request hangs on
\* POST /-/reload, and while a configuration is reloaded.
RequestAnswered ==
  \A c \in Conns :
     (conn[c].state \in {"wait", "merge"}) ~> (Ended \/ conn[c].state \in {"done", "aborted"})
=============================================================================
