---------------------------- MODULE HubLifecycle ----------------------------
(***************************************************************************)
(* The end of a hub process (cmd/kopilot-hub/main.go, and StartServer in   *)
(* pkg/hub/peer/server.go).  Two servers run in an errgroup: the one of    *)
(* the subresources and the one for peers.  The first signal cancels their *)
(* context, and each server stops accepting, waits for the requests in     *)
(* flight and returns; main returns when both have.  A second signal, or   *)
(* an error of either server, ends the process at once.                    *)
(*                                                                         *)
(* The subresource server is external (kubernetes-subresource-server-      *)
(* runtime); it is taken to drain as the peer server does.                 *)
(***************************************************************************)
EXTENDS Naturals

CONSTANTS Servers,    \* the subresource server and the peer server
          MaxInFlight \* bound on the requests in flight on a server

ASSUME LifecycleAssumption == MaxInFlight \in Nat \ {0}

VARIABLES
  signals,  \* signals received: 0, 1 or 2
  serve,    \* server -> ListenAndServeTLS: "listening" | "closed" (it has
            \*   returned ErrServerClosed) | "returned" (StartServer has)
  shutdown, \* server -> the goroutine: "waiting" for the context, "draining"
            \*   inside Shutdown, "closed" (idleConnsClosed is closed)
  inFlight, \* server -> requests that it serves
  hijacked, \* upgraded connections, which the servers no longer know:
            \*   agents' sessions and exec, attach and port-forward streams
  proc,     \* "running" | "exited" (main has returned) | "aborted"
  cut       \* history: servers whose requests the end of the process has cut

vars == <<signals, serve, shutdown, inFlight, hijacked, proc, cut>>

Init ==
  /\ signals  = 0
  /\ serve    = [x \in Servers |-> "listening"]
  /\ shutdown = [x \in Servers |-> "waiting"]
  /\ inFlight = [x \in Servers |-> 0]
  /\ hijacked = 0
  /\ proc     = "running"
  /\ cut      = {}

Running == proc = "running"
Busy == {x \in Servers : inFlight[x] > 0}

-----------------------------------------------------------------------------
(* Requests: a server accepts until Shutdown has closed its listener.      *)
Accept(x) ==
  /\ Running /\ shutdown[x] = "waiting" /\ inFlight[x] < MaxInFlight
  /\ inFlight' = [inFlight EXCEPT ![x] = @ + 1]
  /\ UNCHANGED <<signals, serve, shutdown, hijacked, proc, cut>>

Complete(x) ==
  /\ Running /\ inFlight[x] > 0
  /\ inFlight' = [inFlight EXCEPT ![x] = @ - 1]
  /\ UNCHANGED <<signals, serve, shutdown, hijacked, proc, cut>>

(* The handler takes the connection over; Shutdown does not wait for it.   *)
Hijack(x) ==
  /\ Running /\ inFlight[x] > 0 /\ hijacked < MaxInFlight
  /\ inFlight' = [inFlight EXCEPT ![x] = @ - 1]
  /\ hijacked' = hijacked + 1
  /\ UNCHANGED <<signals, serve, shutdown, proc, cut>>

HijackedEnds ==
  /\ Running /\ hijacked > 0
  /\ hijacked' = hijacked - 1
  /\ UNCHANGED <<signals, serve, shutdown, inFlight, proc, cut>>

-----------------------------------------------------------------------------
(* The process ends and takes its connections with it.                     *)
End(how) ==
  /\ proc' = how
  /\ cut'  = Busy
  /\ inFlight' = [x \in Servers |-> 0]
  /\ hijacked' = 0

(* cancel() on the first signal, os.Exit(1) on the second                  *)
SignalNeverAborts ==
  /\ Running
  /\ signals' = signals + 1
  /\ UNCHANGED <<serve, shutdown, inFlight, hijacked, proc, cut>>
Signal ==
  /\ Running /\ signals < 2
  /\ signals' = signals + 1
  /\ IF signals = 0 THEN UNCHANGED <<inFlight, hijacked, proc, cut>> ELSE End("aborted")
  /\ UNCHANGED <<serve, shutdown>>

CtxNotDone == signals > 1
CtxDone == signals > 0

(* Shutdown closes the listener, on which ListenAndServeTLS returns, and   *)
(* goes on until the server has no request left.                           *)
ShutdownBegins(x) ==
  /\ Running /\ CtxDone /\ shutdown[x] = "waiting"
  /\ shutdown' = [shutdown EXCEPT ![x] = "draining"]
  /\ UNCHANGED <<signals, serve, inFlight, hijacked, proc, cut>>

ServerClosed(x) ==
  /\ Running /\ serve[x] = "listening" /\ shutdown[x] # "waiting"
  /\ serve' = [serve EXCEPT ![x] = "closed"]
  /\ UNCHANGED <<signals, shutdown, inFlight, hijacked, proc, cut>>

ShutdownEnds(x) ==
  /\ Running /\ shutdown[x] = "draining" /\ inFlight[x] = 0
  /\ shutdown' = [shutdown EXCEPT ![x] = "closed"]
  /\ UNCHANGED <<signals, serve, inFlight, hijacked, proc, cut>>

(* <-idleConnsClosed                                                       *)
IdleConnsIgnored(x) == TRUE
IdleConnsClosed(x) == shutdown[x] = "closed"

StartServerReturns(x) ==
  /\ Running /\ serve[x] = "closed" /\ IdleConnsClosed(x)
  /\ serve' = [serve EXCEPT ![x] = "returned"]
  /\ UNCHANGED <<signals, shutdown, inFlight, hijacked, proc, cut>>

(* Any other error of a server: log.Fatalf                                 *)
ServerFails(x) ==
  /\ Running /\ serve[x] = "listening"
  /\ End("aborted")
  /\ UNCHANGED <<signals, serve, shutdown>>

(* g.Wait() returns, and so does main.                                     *)
FirstReturned == \E x \in Servers : serve[x] = "returned"
AllReturned == \A x \in Servers : serve[x] = "returned"

MainReturns ==
  /\ Running /\ AllReturned
  /\ End("exited")
  /\ UNCHANGED <<signals, serve, shutdown>>

Terminated == ~Running /\ UNCHANGED vars

-----------------------------------------------------------------------------
ServerStep(x) ==
  ShutdownBegins(x) \/ ServerClosed(x) \/ ShutdownEnds(x) \/ StartServerReturns(x)

Next ==
  \/ \E x \in Servers :
       Accept(x) \/ Complete(x) \/ Hijack(x) \/ ServerStep(x) \/ ServerFails(x)
  \/ HijackedEnds \/ Signal \/ MainReturns \/ Terminated

Spec == Init /\ [][Next]_vars

(* Goroutines go on, and requests are answered in the end.                 *)
Fairness ==
  /\ \A x \in Servers : WF_vars(ServerStep(x)) /\ WF_vars(Complete(x))
  /\ WF_vars(MainReturns)

FairSpec == Spec /\ Fairness

-----------------------------------------------------------------------------
(* Properties                                                              *)

(* Type invariant of the process and its servers.                          *)
TypeOK ==
  /\ signals \in 0..2
  /\ serve \in [Servers -> {"listening", "closed", "returned"}]
  /\ shutdown \in [Servers -> {"waiting", "draining", "closed"}]
  /\ inFlight \in [Servers -> 0..MaxInFlight]
  /\ hijacked \in 0..MaxInFlight
  /\ proc \in {"running", "exited", "aborted"}
  /\ cut \subseteq Servers

(* A hub that ends because of one signal has answered every request that   *)
(* either of its servers had accepted, whichever of them is done first and *)
(* wherever its goroutines stood when the signal came; only connections    *)
(* that were taken over are cut.                                           *)
ExitIsDrained == proc = "exited" => cut = {}

(* A hub that gets a signal ends, and need not be signalled twice.         *)
SignalEnds == signals > 0 ~> ~Running
=============================================================================
