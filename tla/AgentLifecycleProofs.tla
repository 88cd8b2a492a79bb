------------------------ MODULE AgentLifecycleProofs ------------------------
(***************************************************************************)
(* Proofs about AgentLifecycle, for any set of requests.                   *)
(***************************************************************************)
EXTENDS AgentLifecycle, TLAPS

(* An agent that nothing has happened to (no signal, no lost session, no   *)
(* failed setup) is on its way to serving or serves: main has not come     *)
(* back from Serve, nobody has been told to shut down, and the session     *)
(* stands.                                                                 *)
UntouchedInv ==
  cause = {} =>
    /\ main \notin {"returned", "exited"}
    /\ sigs \in {"none", "new", "waiting"} /\ ~sigint /\ ~inShutdown
    /\ sess # "closed"

IInv == TypeOK /\ UntouchedInv /\ CutHasCause

(* A new process satisfies IInv.                                           *)
LEMMA InitIInv == Init => IInv
BY DEF Init, IInv, TypeOK, UntouchedInv, CutHasCause

(* The end of a session leaves no stream pending or active.                *)
LEMMA CloseSessionEnds ==
  ASSUME TypeOK, CloseSession
  PROVE  /\ sess' \in {"none", "closed"}
         /\ req' \in [Requests -> {"none", "answered", "cut"}]
BY DEF TypeOK, CloseSession

(* main preserves IInv: what makes Serve return, a Shutdown or an end of   *)
(* the session, has a cause, and a failed setup is one.                    *)
LEMMA MainSteps == ASSUME IInv, Main PROVE IInv'
<1> USE DEF IInv, goVars, streamVars
<1>1. CASE Dial \/ ReadToken \/ StartSignalHandler \/ AcceptError
  <2> USE <1>1 DEF Dial, ReadToken, StartSignalHandler, AcceptError
  <2>1. TypeOK'
    BY DEF TypeOK
  <2>2. UntouchedInv'
    BY DEF UntouchedInv
  <2>3. CutHasCause'
    BY DEF CutHasCause
  <2>. QED
    BY <2>1, <2>2, <2>3
<1>2. CASE SetupFails
  BY <1>2, CloseSessionEnds DEF TypeOK, UntouchedInv, CutHasCause, SetupFails, Exit
<1>3. CASE Fatal
  BY <1>3, CloseSessionEnds DEF TypeOK, UntouchedInv, CutHasCause, Fatal, Exit
<1>4. CASE Serve /\ inShutdown
  BY <1>4, CloseSessionEnds DEF TypeOK, UntouchedInv, CutHasCause, Serve, Ready
<1>5. CASE Serve /\ ~inShutdown
  BY <1>5 DEF TypeOK, UntouchedInv, CutHasCause, Serve, Ready
<1>. QED
  BY <1>1, <1>2, <1>3, <1>4, <1>5 DEF Main

(* The signal goroutine preserves IInv: it moves beyond its wait only for  *)
(* a signal.                                                               *)
LEMMA SignalSteps == ASSUME IInv, Signals PROVE IInv'
<1> USE DEF IInv, streamVars
<1>1. CASE Notify \/ TakeSignal \/ ShutdownReturns
  <2> USE <1>1 DEF Notify, TakeSignal, Receive, ShutdownReturns
  <2>1. TypeOK'
    BY DEF TypeOK
  <2>2. UntouchedInv'
    BY DEF UntouchedInv
  <2>3. CutHasCause'
    BY DEF CutHasCause
  <2>. QED
    BY <2>1, <2>2, <2>3
<1>2. CASE Shutdown /\ main = "serving"
  BY <1>2, CloseSessionEnds DEF TypeOK, UntouchedInv, CutHasCause, Shutdown
<1>3. CASE Shutdown /\ main # "serving"
  BY <1>3 DEF TypeOK, UntouchedInv, CutHasCause, Shutdown
<1>. QED
  BY <1>1, <1>2, <1>3 DEF Signals

(* A signal and a loss of the session preserve IInv: they are causes.      *)
LEMMA CauseSteps == ASSUME IInv, Signal \/ SessionLost PROVE IInv'
<1> USE DEF IInv, goVars, streamVars
<1>1. CASE SessionLost
  BY <1>1, CloseSessionEnds DEF TypeOK, UntouchedInv, CutHasCause, SessionLost
<1>2. CASE Signal /\ sigs \in {"none", "new"}
  BY <1>2, CloseSessionEnds DEF TypeOK, UntouchedInv, CutHasCause, Signal, Exit
<1>3. CASE Signal /\ sigs \notin {"none", "new"}
  BY <1>3 DEF TypeOK, UntouchedInv, CutHasCause, Signal
<1>. QED
  BY <1>1, <1>2, <1>3

(* Requests that come, are taken on and end preserve IInv.                 *)
LEMMA RequestSteps ==
  ASSUME IInv, NEW r \in Requests, OpenStream(r) \/ Accept(r) \/ HandlerEnds(r)
  PROVE  IInv'
<1> USE DEF IInv, OpenStream, Accept, HandlerEnds, goVars
<1>1. TypeOK'
  BY DEF TypeOK
<1>2. UntouchedInv'
  BY DEF UntouchedInv
<1>3. CutHasCause'
  BY DEF TypeOK, CutHasCause
<1>. QED
  BY <1>1, <1>2, <1>3

(* Every step preserves IInv.                                              *)
LEMMA NextIInv == IInv /\ [Next]_vars => IInv'
<1> SUFFICES ASSUME IInv, [Next]_vars PROVE IInv'
  OBVIOUS
<1>1. CASE UNCHANGED vars
  BY <1>1 DEF IInv, TypeOK, UntouchedInv, CutHasCause, vars, goVars, streamVars
<1>. QED
  BY <1>1, MainSteps, SignalSteps, CauseSteps, RequestSteps DEF Next

(* Type correctness of the agent's goroutines and streams, and that a      *)
(* stream which has not ended has an open session.                         *)
THEOREM TypeCorrect == Spec => []TypeOK
<1>1. IInv => TypeOK
  BY DEF IInv
<1>. QED
  BY <1>1, InitIInv, NextIInv, PTL DEF Spec

(* No request is cut by an agent that was neither told to stop nor has     *)
(* lost its session nor failed to start, whatever the two goroutines of    *)
(* its main.go do and however many requests are on their way.              *)
THEOREM RequestsCutForACause == Spec => []CutHasCause
<1>1. IInv => CutHasCause
  BY DEF IInv
<1>. QED
  BY <1>1, InitIInv, NextIInv, PTL DEF Spec

-----------------------------------------------------------------------------
(* A signal is on its way until the agent has exited: it is in the         *)
(* channel, the goroutine has taken it, or Shutdown has been called; and a *)
(* server that serves although Shutdown was called has lost its listener,  *)
(* so that Serve returns.                                                  *)
SignalOnItsWay ==
  main # "exited" /\ "signal" \in cause =>
    \/ sigint /\ sigs \in {"waiting", "shutdown", "draining", "closed"}
    \/ sigs = "shutdown"
    \/ inShutdown /\ (main = "serving" => sess = "closed")

(* From its dial on main has a session, if a lost one; the signal goroutine *)
(* is started after it, and gets signals only when it has called Notify;   *)
(* and a server that serves after Shutdown has lost its session.           *)
StageInv ==
  /\ main \in {"connected", "token", "ready", "serving"} => sess # "none"
  /\ main \in {"dial", "connected", "token"} => sigs = "none"
  /\ sigint => sigs \notin {"none", "new"}
  /\ inShutdown <=> sigs \in {"draining", "closed"}
  /\ inShutdown /\ main = "serving" => sess = "closed"

WayInv == TypeOK /\ StageInv /\ SignalOnItsWay

LEMMA InitWayInv == Init => WayInv
BY DEF Init, WayInv, TypeOK, StageInv, SignalOnItsWay

LEMMA NextWayInv == WayInv /\ TypeOK' /\ [Next]_vars => WayInv'
<1> SUFFICES ASSUME WayInv, TypeOK', [Next]_vars PROVE StageInv' /\ SignalOnItsWay'
  BY DEF WayInv
<1> USE DEF WayInv, TypeOK, StageInv, SignalOnItsWay, goVars, streamVars
<1>1. CASE Dial \/ ReadToken \/ StartSignalHandler \/ AcceptError
  BY <1>1 DEF Dial, ReadToken, StartSignalHandler, AcceptError
<1>2. CASE SetupFails \/ Fatal
  BY <1>2 DEF SetupFails, Fatal, Exit
<1>3. CASE Serve
  BY <1>3 DEF Serve, Ready, CloseSession
<1>4. CASE Notify \/ TakeSignal \/ ShutdownReturns
  BY <1>4 DEF Notify, TakeSignal, Receive, ShutdownReturns
<1>5. CASE Shutdown
  BY <1>5 DEF Shutdown, CloseSession
<1>6. CASE Signal
  BY <1>6 DEF Signal, Exit
<1>7. CASE SessionLost
  BY <1>7 DEF SessionLost, CloseSession
<1>8. ASSUME NEW r \in Requests, OpenStream(r) \/ Accept(r) \/ HandlerEnds(r)
      PROVE  StageInv' /\ SignalOnItsWay'
  BY <1>8 DEF OpenStream, Accept, HandlerEnds
<1>9. CASE UNCHANGED vars
  BY <1>9 DEF vars
<1>. QED
  BY <1>1, <1>2, <1>3, <1>4, <1>5, <1>6, <1>7, <1>8, <1>9 DEF Next, Main, Signals

(* A signal is never lost, wherever in the start of the agent it comes,    *)
(* and also when Shutdown is called before Serve: at each moment until the *)
(* process ends there is a goroutine that has it to deal with.             *)
THEOREM SignalNotLost == Spec => []SignalOnItsWay
<1>1. IInv => TypeOK
  BY DEF IInv
<1>2. WayInv => SignalOnItsWay
  BY DEF WayInv
<1>. QED
  BY <1>1, <1>2, InitIInv, NextIInv, InitWayInv, NextWayInv, PTL DEF Spec
=============================================================================
