------------------------- MODULE HubLifecycleProofs -------------------------
(***************************************************************************)
(* Proofs about HubLifecycle, for any set of servers and any number of     *)
(* requests.                                                               *)
(***************************************************************************)
EXTENDS HubLifecycle, TLAPS

(* What makes the exit a drained one: a server returns only after its      *)
(* Shutdown has, Shutdown returns only when the server is idle, and a      *)
(* server that is shutting down accepts nothing.                           *)
DrainInv ==
  /\ \A x \in Servers : serve[x] = "returned" => shutdown[x] = "closed"
  /\ \A x \in Servers : shutdown[x] = "closed" => inFlight[x] = 0

IInv == TypeOK /\ DrainInv /\ ExitIsDrained

(* The process starts in a state that satisfies IInv.                      *)
LEMMA InitIInv == Init => IInv
BY LifecycleAssumption DEF Init, IInv, TypeOK, DrainInv, ExitIsDrained

(* Requests that come, end or are taken over keep a drained server idle.   *)
LEMMA RequestSteps ==
  ASSUME IInv, NEW x \in Servers, Accept(x) \/ Complete(x) \/ Hijack(x)
  PROVE  IInv'
<1>1. TypeOK'
  BY LifecycleAssumption DEF IInv, TypeOK, Accept, Complete, Hijack
<1>2. DrainInv'
  BY DEF IInv, TypeOK, DrainInv, Accept, Complete, Hijack
<1>3. ExitIsDrained'
  BY DEF IInv, ExitIsDrained, Accept, Complete, Hijack, Running
<1>. QED
  BY <1>1, <1>2, <1>3 DEF IInv

(* The steps of a server and of its Shutdown goroutine preserve IInv.      *)
LEMMA ServerSteps ==
  ASSUME IInv, NEW x \in Servers, ServerStep(x)
  PROVE  IInv'
<1>1. TypeOK'
  BY DEF IInv, TypeOK, ServerStep, ShutdownBegins, ServerClosed, ShutdownEnds,
         StartServerReturns
<1>2. DrainInv'
  BY DEF IInv, TypeOK, DrainInv, ServerStep, ShutdownBegins, ServerClosed, ShutdownEnds,
         StartServerReturns, IdleConnsClosed
<1>3. ExitIsDrained'
  BY DEF IInv, ExitIsDrained, ServerStep, ShutdownBegins, ServerClosed, ShutdownEnds,
         StartServerReturns, Running
<1>. QED
  BY <1>1, <1>2, <1>3 DEF IInv

(* The ends of the process that do not wait for the servers preserve IInv. *)
LEMMA AbortSteps ==
  ASSUME IInv, Signal \/ (\E x \in Servers : ServerFails(x))
  PROVE  IInv'
<1>1. TypeOK'
  BY LifecycleAssumption DEF IInv, TypeOK, Signal, ServerFails, End, Busy
<1>2. DrainInv'
  BY DEF IInv, TypeOK, DrainInv, Signal, ServerFails, End
<1>3. ExitIsDrained'
  BY DEF IInv, ExitIsDrained, Signal, ServerFails, End, Running
<1>. QED
  BY <1>1, <1>2, <1>3 DEF IInv

(* main returns when both servers have, hence when no request is left.     *)
LEMMA MainReturnsStep == ASSUME IInv, MainReturns PROVE IInv'
<1>1. \A x \in Servers : inFlight[x] = 0
  BY DEF IInv, DrainInv, MainReturns, AllReturned
<1>2. Busy = {}
  BY <1>1 DEF Busy
<1>3. TypeOK'
  BY LifecycleAssumption DEF IInv, TypeOK, MainReturns, End, Busy
<1>4. DrainInv'
  BY DEF IInv, TypeOK, DrainInv, MainReturns, End
<1>5. ExitIsDrained'
  BY <1>2 DEF ExitIsDrained, MainReturns, End
<1>. QED
  BY <1>3, <1>4, <1>5 DEF IInv

(* Every step preserves IInv.                                              *)
LEMMA NextIInv == IInv /\ [Next]_vars => IInv'
<1> SUFFICES ASSUME IInv, [Next]_vars PROVE IInv'
  OBVIOUS
<1>1. CASE UNCHANGED vars
  BY <1>1 DEF IInv, TypeOK, DrainInv, ExitIsDrained, vars
<1>2. CASE HijackedEnds
  BY <1>2, LifecycleAssumption
     DEF IInv, TypeOK, DrainInv, ExitIsDrained, HijackedEnds, Running
<1>. QED
  BY <1>1, <1>2, RequestSteps, ServerSteps, AbortSteps, MainReturnsStep
     DEF Next, Terminated

(* Type correctness of the process and its servers.                        *)
THEOREM TypeCorrect == Spec => []TypeOK
<1>1. IInv => TypeOK
  BY DEF IInv
<1>. QED
  BY <1>1, InitIInv, NextIInv, PTL DEF Spec

(* A hub that ends because of one signal cuts no request that one of its   *)
(* servers had accepted, for any number of servers and requests.           *)
THEOREM DrainedBeforeExit == Spec => []ExitIsDrained
<1>1. IInv => ExitIsDrained
  BY DEF IInv
<1>. QED
  BY <1>1, InitIInv, NextIInv, PTL DEF Spec

-----------------------------------------------------------------------------
(* What is left of the end of server x: to be told (before which it may    *)
(* accept up to MaxInFlight requests), the requests in flight, the end of  *)
(* Shutdown, the two returns.                                              *)
ServeLeft(x) == CASE serve[x] = "listening" -> 2 [] serve[x] = "closed" -> 1 [] OTHER -> 0
ShutdownLeft(x) ==
  CASE shutdown[x] = "waiting" -> MaxInFlight + 2
    [] shutdown[x] = "draining" -> inFlight[x] + 1
    [] OTHER -> 0
Left(x) == ServeLeft(x) + ShutdownLeft(x)

(* Once a server has been told to stop, nothing prolongs its end: it only  *)
(* answers requests and hands over connections, Shutdown and the listener  *)
(* never go back, and no request is accepted in between.  What is left     *)
(* shrinks with each step of the server, and is nothing when StartServer   *)
(* has returned.                                                           *)
EndComesNearer ==
  [][\A x \in Servers :
       \/ Left(x)' < Left(x)
       \/ Left(x)' = Left(x) /\ serve'[x] = serve[x] /\ shutdown'[x] = shutdown[x]]_vars

LeftMeasures ==
  \A x \in Servers :
    Left(x) \in 0..(MaxInFlight + 4) /\ (Left(x) = 0 <=> serve[x] = "returned")

LEMMA LeftTypes ==
  ASSUME IInv, NEW x \in Servers
  PROVE  /\ serve[x] \in {"listening", "closed", "returned"}
         /\ shutdown[x] \in {"waiting", "draining", "closed"}
         /\ inFlight[x] \in 0..MaxInFlight
         /\ Left(x) \in 0..(MaxInFlight + 4)
         /\ Left(x) = 0 <=> serve[x] = "returned"
<1>1. /\ serve[x] \in {"listening", "closed", "returned"}
      /\ shutdown[x] \in {"waiting", "draining", "closed"}
      /\ inFlight[x] \in 0..MaxInFlight /\ MaxInFlight \in Nat
      /\ serve[x] = "returned" => shutdown[x] = "closed"
  BY LifecycleAssumption DEF IInv, TypeOK, DrainInv
<1>. QED
  BY <1>1 DEF Left, ServeLeft, ShutdownLeft

LEMMA LeftStep ==
  ASSUME IInv, [Next]_vars, NEW x \in Servers
  PROVE  \/ Left(x)' < Left(x)
         \/ Left(x)' = Left(x) /\ serve'[x] = serve[x] /\ shutdown'[x] = shutdown[x]
<1>1. /\ serve[x] \in {"listening", "closed", "returned"}
      /\ shutdown[x] \in {"waiting", "draining", "closed"}
      /\ inFlight[x] \in Nat /\ inFlight[x] <= MaxInFlight /\ MaxInFlight \in Nat
      /\ shutdown[x] = "closed" => inFlight[x] = 0
  BY LifecycleAssumption DEF IInv, TypeOK, DrainInv
<1>2. /\ serve \in [Servers -> {"listening", "closed", "returned"}]
      /\ shutdown \in [Servers -> {"waiting", "draining", "closed"}]
      /\ inFlight \in [Servers -> 0..MaxInFlight]
  BY DEF IInv, TypeOK
<1> DEFINE Goal == \/ Left(x)' < Left(x)
                   \/ Left(x)' = Left(x) /\ serve'[x] = serve[x] /\ shutdown'[x] = shutdown[x]
<1>3. ASSUME serve'[x] = serve[x], shutdown'[x] = shutdown[x],
             \/ inFlight'[x] = inFlight[x]
             \/ inFlight'[x] = inFlight[x] - 1
             \/ inFlight'[x] = 0
             \/ shutdown[x] = "waiting"
      PROVE  Goal
  BY <1>1, <1>3 DEF Left, ServeLeft, ShutdownLeft
<1>4. ASSUME NEW y \in Servers, Accept(y) \/ Complete(y) \/ Hijack(y) PROVE Goal
  <2>1. UNCHANGED <<serve, shutdown>>
    BY <1>4 DEF Accept, Complete, Hijack
  <2>2. \/ inFlight'[x] = inFlight[x] \/ inFlight'[x] = inFlight[x] - 1
        \/ shutdown[x] = "waiting"
    BY <1>2, <1>4 DEF Accept, Complete, Hijack
  <2>. QED
    BY <1>3, <2>1, <2>2
<1>5. ASSUME NEW y \in Servers, ServerStep(y) PROVE Goal
  <2>1. inFlight' = inFlight
    BY <1>5 DEF ServerStep, ShutdownBegins, ServerClosed, ShutdownEnds, StartServerReturns
  <2>2. CASE y # x
    <3>1. serve'[x] = serve[x] /\ shutdown'[x] = shutdown[x]
      BY <1>2, <1>5, <2>2
         DEF ServerStep, ShutdownBegins, ServerClosed, ShutdownEnds, StartServerReturns
    <3>. QED
      BY <1>3, <2>1, <3>1
  <2>3. CASE y = x
    <3>1. \/ shutdown[x] = "waiting" /\ shutdown'[x] = "draining" /\ serve'[x] = serve[x]
          \/ shutdown[x] = "draining" /\ shutdown'[x] = "closed" /\ serve'[x] = serve[x]
          \/ serve[x] = "listening" /\ serve'[x] = "closed" /\ shutdown'[x] = shutdown[x]
          \/ serve[x] = "closed" /\ serve'[x] = "returned" /\ shutdown'[x] = shutdown[x]
      BY <1>2, <1>5, <2>3
         DEF ServerStep, ShutdownBegins, ServerClosed, ShutdownEnds, StartServerReturns
    <3>. QED
      BY <1>1, <2>1, <3>1 DEF Left, ServeLeft, ShutdownLeft
  <2>. QED
    BY <2>2, <2>3
<1>6. CASE HijackedEnds \/ Signal \/ MainReturns \/ Terminated \/ UNCHANGED vars
           \/ \E y \in Servers : ServerFails(y)
  <2>1. UNCHANGED <<serve, shutdown>>
    BY <1>6 DEF HijackedEnds, Signal, MainReturns, Terminated, ServerFails, vars
  <2>2. inFlight'[x] = inFlight[x] \/ inFlight'[x] = 0
    BY <1>6 DEF HijackedEnds, Signal, MainReturns, Terminated, ServerFails, vars, End
  <2>. QED
    BY <1>3, <2>1, <2>2
<1>. QED
  BY <1>4, <1>5, <1>6 DEF Next

THEOREM DrainShrinks == Spec => []LeftMeasures /\ EndComesNearer
<1>1. IInv => LeftMeasures
  BY LeftTypes DEF LeftMeasures
<1>2. IInv /\ [Next]_vars =>
        [\A x \in Servers :
           \/ Left(x)' < Left(x)
           \/ Left(x)' = Left(x) /\ serve'[x] = serve[x] /\ shutdown'[x] = shutdown[x]]_vars
  BY LeftStep
<1>. QED
  BY <1>1, <1>2, InitIInv, NextIInv, PTL DEF Spec, EndComesNearer
=============================================================================
