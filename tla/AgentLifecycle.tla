--------------------------- MODULE AgentLifecycle ---------------------------
(***************************************************************************)
(* The process of an agent (cmd/kopilot-agent/main.go): main connects to a *)
(* hub and serves the session, which is the listener of its HTTP server; a *)
(* goroutine waits for a signal and shuts the server down.                 *)
(*                                                                         *)
(* External: net/http, whose Serve returns an error whenever it returns,   *)
(* and has closed its listener by then, and whose Shutdown closes the      *)
(* listener and waits until no handler runs; yamux, whose streams end with *)
(* their session; the hub, the member's kube-apiserver and the kubelet.    *)
(***************************************************************************)
CONSTANTS Requests  \* streams that the hub opens, one request on each

VARIABLES
  main,       \* "dial" | "connected" | "token" | "ready" | "serving" |
              \*   "returned" (from Serve) | "exited"
  sigs,       \* the signal goroutine: "none" | "new" | "waiting" (after Notify) |
              \*   "shutdown" | "draining" | "closed" (idleConnsClosed)
  sigint,     \* a signal is in the channel
  inShutdown, \* Shutdown has been called
  sess,       \* "none" | "open" | "closed"
  req,        \* request -> "none" | "pending" | "active" | "answered" | "cut"
  running     \* requests whose handler runs

(* History: what may end the process.                                      *)
VARIABLE cause  \* subset of {"signal", "lost", "failed"}

goVars == <<main, sigs, sigint, inShutdown>>
streamVars == <<sess, req, running>>
vars == <<goVars, streamVars, cause>>

Init ==
  /\ main = "dial" /\ sigs = "none"
  /\ sigint = FALSE /\ inShutdown = FALSE
  /\ sess = "none"
  /\ req = [r \in Requests |-> "none"]
  /\ running = {}
  /\ cause = {}

Alive == main # "exited"

-----------------------------------------------------------------------------
(* The end of the session cuts the requests on it; their handlers go on    *)
(* until they notice.                                                      *)
CloseSessionOnly == sess' = (IF sess = "none" THEN "none" ELSE "closed") /\ UNCHANGED req
CloseSession ==
  /\ sess' = IF sess = "none" THEN "none" ELSE "closed"
  /\ req' = [r \in Requests |-> IF req[r] \in {"pending", "active"} THEN "cut" ELSE req[r]]

(* The process ends, and with it its goroutines and its connection.        *)
Exit == main' = "exited" /\ CloseSession /\ running' = {}

-----------------------------------------------------------------------------
(* The main goroutine                                                      *)

Dial ==
  /\ main = "dial"
  /\ main' = "connected" /\ sess' = "open"
  /\ UNCHANGED <<sigs, sigint, inShutdown, req, running, cause>>

ReadToken ==
  /\ main = "connected" /\ main' = "token"
  /\ UNCHANGED <<sigs, sigint, inShutdown, streamVars, cause>>

(* The certificate is read, the server made, the goroutine started.        *)
StartSignalHandler ==
  /\ main = "token" /\ main' = "ready"
  /\ sigs' = "new"
  /\ UNCHANGED <<sigint, inShutdown, streamVars, cause>>

(* log.Fatalf of one of the steps before.                                  *)
SetupFails ==
  /\ main \in {"dial", "connected", "token"}
  /\ Exit
  /\ cause' = cause \cup {"failed"}
  /\ UNCHANGED <<sigs, sigint, inShutdown>>

(* The goroutine runs by itself: main goes on without it.                  *)
ReadyInline == main = "ready" /\ sigs = "closed"
Ready == main = "ready"

(* Serve, which returns at once after a Shutdown.                          *)
Serve ==
  /\ Ready
  /\ IF inShutdown THEN main' = "returned" /\ CloseSession
                   ELSE main' = "serving" /\ UNCHANGED <<sess, req>>
  /\ UNCHANGED <<sigs, sigint, inShutdown, running, cause>>

Accept(r) ==
  /\ main = "serving" /\ sess = "open" /\ req[r] = "pending"
  /\ req' = [req EXCEPT ![r] = "active"]
  /\ running' = running \cup {r}
  /\ UNCHANGED <<goVars, sess, cause>>

AcceptError ==
  /\ main = "serving" /\ sess = "closed"
  /\ main' = "returned"
  /\ UNCHANGED <<sigs, sigint, inShutdown, streamVars, cause>>

(* log.Fatalf: the error is never nil, and the wait after it is not        *)
(* reached.                                                                *)
WaitIdle == main = "returned" /\ sigs = "closed" /\ Exit /\ UNCHANGED <<sigs, sigint, inShutdown, cause>>
Fatal == main = "returned" /\ Exit /\ UNCHANGED <<sigs, sigint, inShutdown, cause>>

-----------------------------------------------------------------------------
(* The signal goroutine                                                    *)

Notify ==
  /\ Alive /\ sigs = "new" /\ sigs' = "waiting"
  /\ UNCHANGED <<main, sigint, inShutdown, streamVars, cause>>

ReceiveNothing == sigs = "waiting"
Receive == sigs = "waiting" /\ sigint

TakeSignal ==
  /\ Alive /\ Receive
  /\ sigs' = "shutdown" /\ sigint' = FALSE
  /\ UNCHANGED <<main, inShutdown, streamVars, cause>>

(* Shutdown: it closes the listener if Serve has been called by then.      *)
Shutdown ==
  /\ Alive /\ sigs = "shutdown"
  /\ sigs' = "draining" /\ inShutdown' = TRUE
  /\ IF main = "serving" THEN CloseSession ELSE UNCHANGED <<sess, req>>
  /\ UNCHANGED <<main, sigint, running, cause>>

ShutdownReturns ==
  /\ Alive /\ sigs = "draining" /\ running = {}
  /\ sigs' = "closed"
  /\ UNCHANGED <<main, sigint, inShutdown, streamVars, cause>>

-----------------------------------------------------------------------------
(* Handlers: the reverse proxy to the member's kube-apiserver              *)

HandlerEnds(r) ==
  /\ Alive /\ r \in running
  /\ running' = running \ {r}
  /\ req' = IF req[r] = "active" THEN [req EXCEPT ![r] = "answered"] ELSE req
  /\ UNCHANGED <<goVars, sess, cause>>

-----------------------------------------------------------------------------
(* The world                                                               *)

(* The hub opens streams as soon as the session is filed.                  *)
OpenStream(r) ==
  /\ sess = "open" /\ req[r] = "none"
  /\ req' = [req EXCEPT ![r] = "pending"]
  /\ UNCHANGED <<goVars, sess, running, cause>>

(* SIGTERM or an interrupt; before Notify it ends the process.             *)
Signal ==
  /\ Alive /\ ~sigint
  /\ cause' = cause \cup {"signal"}
  /\ IF sigs \in {"none", "new"}
     THEN Exit /\ UNCHANGED <<sigs, sigint, inShutdown>>
     ELSE sigint' = TRUE /\ UNCHANGED <<main, sigs, inShutdown, streamVars>>

(* The hub ends the session, crashes, or is cut off.                       *)
SessionLost ==
  /\ sess = "open"
  /\ CloseSession
  /\ cause' = cause \cup {"lost"}
  /\ UNCHANGED <<goVars, running>>

Main == Dial \/ ReadToken \/ StartSignalHandler \/ SetupFails \/ Serve \/ AcceptError \/ Fatal
Signals == Notify \/ TakeSignal \/ Shutdown \/ ShutdownReturns

Next ==
  \/ Main \/ Signals \/ Signal \/ SessionLost
  \/ \E r \in Requests : OpenStream(r) \/ Accept(r) \/ HandlerEnds(r)

Spec == Init /\ [][Next]_vars

(* Goroutines that can go on do, and accept what comes; nothing is assumed *)
(* of the hub, of kube-apiserver, which may never answer, or of signals.   *)
Fairness == WF_vars(Main) /\ WF_vars(Signals) /\ \A r \in Requests : WF_vars(Accept(r))

FairSpec == Spec /\ Fairness

-----------------------------------------------------------------------------
(* Properties                                                              *)

(* Type invariant of the goroutines and of the streams; a stream that has  *)
(* not ended has an open session.                                          *)
TypeOK ==
  /\ main \in {"dial", "connected", "token", "ready", "serving", "returned", "exited"}
  /\ sigs \in {"none", "new", "waiting", "shutdown", "draining", "closed"}
  /\ {sigint, inShutdown} \subseteq BOOLEAN
  /\ sess \in {"none", "open", "closed"}
  /\ req \in [Requests -> {"none", "pending", "active", "answered", "cut"}]
  /\ running \subseteq Requests
  /\ cause \subseteq {"signal", "lost", "failed"}
  /\ \A r \in Requests : req[r] \in {"pending", "active"} => sess = "open"

(* A request is cut only because the session was lost, the agent was told  *)
(* to stop, or it could not read its files after it had connected.         *)
CutHasCause == \A r \in Requests : req[r] = "cut" => cause # {}

(* An agent that has lost its session, or was told to stop, ends, so that  *)
(* it can be started again; also when a handler waits for an answer that   *)
(* never comes, and wherever in its start the signal meets it.             *)
EndsForRestart == (sess = "closed" \/ "signal" \in cause) ~> main = "exited"

(* No request waits for ever for an agent: each one that the hub sends is  *)
(* taken on or cut.                                                        *)
PendingEnds == \A r \in Requests : req[r] = "pending" ~> req[r] # "pending"
=============================================================================
