------------------------ MODULE InformerFactoryProofs ------------------------
(***************************************************************************)
(* Proofs about InformerFactory, for any number of types, goroutines and   *)
(* stop channels.                                                          *)
(***************************************************************************)
EXTENDS InformerFactory, TLAPS

Labels == {"idle", "for", "new", "start", "starting", "wait", "waiting"}

(* The factory, the goroutines and the informers have their types.         *)
TypeOK ==
  /\ informers \in [Types -> Nat]
  /\ startedInformers \in [Types -> BOOLEAN]
  /\ lock \in Threads \cup {None}
  /\ pc \in [Threads -> Labels]
  /\ typ \in [Threads -> Types \cup {None}]
  /\ stopCh \in [Threads -> Chans \cup {None}]
  /\ snap \in [Threads -> SUBSET Types]
  /\ res \in [Threads -> [Types -> {"none", "polled", "true", "false"}]]
  /\ held \in [Threads -> [Types -> Nat]]
  /\ run \in [Types -> Chans \cup {None}]
  /\ synced \subseteq Types /\ stopped \subseteq Types /\ closed \subseteq Chans
  /\ made \in [Types -> Nat] /\ runs \in [Types -> Nat]
  /\ asked \in [Threads -> SUBSET Types] /\ owed \in [Threads -> SUBSET Types]

(* The goroutine that is between the lookup and the store of an informer,  *)
(* or goes through them in Start, holds the mutex; so what it found        *)
(* missing is still missing when it stores it.                             *)
LockInv ==
  /\ \A g \in Threads : pc[g] \in {"new", "starting"} <=> lock = g
  /\ \A g \in Threads : pc[g] \in {"for", "new"} => typ[g] \in Types
  /\ \A g \in Threads : pc[g] = "new" => informers[typ[g]] = 0

(* startedInformers tells whether Run was called.                          *)
StartedInv ==
  \A t \in Types :
    /\ runs[t] = IF startedInformers[t] THEN 1 ELSE 0
    /\ startedInformers[t] => informers[t] # 0

(* What a goroutine asked Start for has been started, is owed an answer by *)
(* the wait that follows, and is in the copy that this wait goes through.  *)
OwedInv ==
  \A g \in Threads :
    /\ asked[g] \cup owed[g] \subseteq {t \in Types : startedInformers[t]}
    /\ pc[g] \in {"for", "new", "start", "starting"} => owed[g] = {}
    /\ pc[g] = "waiting" => owed[g] \subseteq snap[g]

(* The results of a wait: none before it begins, and true ones.            *)
ResultInv ==
  \A g \in Threads, t \in Types :
    /\ pc[g] \in {"for", "new", "start", "starting", "wait"} => res[g][t] = "none"
    /\ res[g][t] = "true" => t \in synced
    /\ res[g][t] = "false" => stopCh[g] \in closed

IInv ==
  /\ TypeOK /\ LockInv /\ StartedInv /\ OwedInv /\ ResultInv
  /\ Shared /\ WaitTellsTruth

(* A new factory satisfies IInv.                                           *)
LEMMA InitIInv == Init => IInv
BY FactoryAssumption
   DEF Init, IInv, Labels, TypeOK, LockInv, StartedInv, OwedInv, ResultInv, Shared,
       WaitTellsTruth

(* The begin of a call preserves IInv: it clears the locals, and only a    *)
(* wait is owed anything.                                                  *)
LEMMA CallSteps == ASSUME IInv, NEW g \in Threads, Calls(g) PROVE IInv'
<1>1. PICK l \in {"for", "start", "wait"}, t \in Types \cup {None}, c \in Chans \cup {None} :
        /\ Begin(g, l, t, c)
        /\ l = "for" => t \in Types
        /\ owed' = [owed EXCEPT ![g] = IF l = "wait" THEN asked[g] ELSE {}]
  <2>1. CASE \E t \in Types : CallInformerFor(g, t)
    BY <2>1 DEF CallInformerFor
  <2>2. CASE \E c \in Chans : CallStart(g, c)
    BY <2>2 DEF CallStart
  <2>3. CASE \E c \in Chans : CallWait(g, c)
    BY <2>3 DEF CallWait
  <2>. QED
    BY <2>1, <2>2, <2>3 DEF Calls
<1> USE FactoryAssumption, <1>1 DEF IInv, Labels, TypeOK, Begin, Goto, mapVars, runVars
<1>2. TypeOK'
  OBVIOUS
<1>3. LockInv'
  BY DEF LockInv
<1>4. StartedInv'
  BY DEF StartedInv
<1>5. OwedInv'
  BY DEF OwedInv
<1>6. ResultInv'
  BY DEF ResultInv
<1>7. Shared'
  BY DEF Shared
<1>8. WaitTellsTruth'
  BY DEF WaitTellsTruth
<1>. QED
  BY <1>2, <1>3, <1>4, <1>5, <1>6, <1>7, <1>8

(* A lookup preserves IInv: it hands out what is in the map, or keeps the  *)
(* mutex to store what is missing.                                         *)
LEMMA LookUpStep == ASSUME IInv, NEW g \in Threads, LookUp(g) PROVE IInv'
<1> USE FactoryAssumption DEF IInv, Labels, TypeOK
<1>1. typ[g] \in Types /\ pc[g] = "for"
  BY DEF LockInv, LookUp
<1>2. UNCHANGED <<informers, startedInformers, stopCh, snap, res, run, synced, closed, stopped,
                 made, runs, asked, owed>>
  BY DEF LookUp, runVars, histVars
<1>3. CASE informers[typ[g]] # 0
  <2>1. /\ lock = None /\ lock' = lock
        /\ held' = [held EXCEPT ![g][typ[g]] = informers[typ[g]]]
        /\ typ' = [typ EXCEPT ![g] = None]
        /\ pc' = [pc EXCEPT ![g] = "idle"]
    BY <1>3 DEF LookUp, Give, Goto
  <2> USE <1>1, <1>2, <2>1
  <2>2. TypeOK'
    OBVIOUS
  <2>3. LockInv'
    BY DEF LockInv
  <2>4. StartedInv'
    BY DEF StartedInv
  <2>5. OwedInv'
    BY DEF OwedInv
  <2>6. ResultInv'
    BY DEF ResultInv
  <2>7. Shared'
    BY DEF Shared
  <2>8. WaitTellsTruth'
    BY DEF OwedInv, WaitTellsTruth
  <2>. QED
    BY <2>2, <2>3, <2>4, <2>5, <2>6, <2>7, <2>8
<1>4. CASE informers[typ[g]] = 0
  <2>1. /\ lock = None /\ lock' = g
        /\ pc' = [pc EXCEPT ![g] = "new"]
        /\ UNCHANGED <<typ, held>>
    BY <1>4 DEF LookUp, Acquire, Goto
  <2> USE <1>1, <1>2, <1>4, <2>1
  <2>2. TypeOK'
    OBVIOUS
  <2>3. LockInv'
    BY DEF LockInv
  <2>4. StartedInv'
    BY DEF StartedInv
  <2>5. OwedInv'
    BY DEF OwedInv
  <2>6. ResultInv'
    BY DEF ResultInv
  <2>7. Shared'
    BY DEF Shared
  <2>8. WaitTellsTruth'
    BY DEF OwedInv, WaitTellsTruth
  <2>. QED
    BY <2>2, <2>3, <2>4, <2>5, <2>6, <2>7, <2>8
<1>. QED
  BY <1>3, <1>4

(* A new informer preserves IInv: the map had none of the type, so nobody  *)
(* has been given another one.                                             *)
LEMMA NewInformerStep == ASSUME IInv, NEW g \in Threads, NewInformer(g) PROVE IInv'
<1> USE FactoryAssumption
    DEF IInv, Labels, TypeOK, NewInformer, Give, Release, Goto, runVars
<1>1. typ[g] \in Types /\ informers[typ[g]] = 0 /\ lock = g
  BY DEF LockInv
<1>2. TypeOK'
  BY <1>1
<1>3. LockInv'
  BY <1>1 DEF LockInv
<1>4. StartedInv'
  BY <1>1 DEF StartedInv
<1>5. OwedInv'
  BY DEF OwedInv
<1>6. ResultInv'
  BY DEF ResultInv
<1>7. Shared'
  BY <1>1 DEF Shared
<1>8. WaitTellsTruth'
  BY DEF OwedInv, WaitTellsTruth
<1>. QED
  BY <1>2, <1>3, <1>4, <1>5, <1>6, <1>7, <1>8

(* Start takes the mutex.                                                  *)
LEMMA StartLockStep == ASSUME IInv, NEW g \in Threads, StartLock(g) PROVE IInv'
<1> USE FactoryAssumption
    DEF IInv, Labels, TypeOK, StartLock, Acquire, Goto, callVars, runVars, histVars
<1>1. TypeOK'
  OBVIOUS
<1>2. LockInv'
  BY DEF LockInv
<1>3. StartedInv' /\ Shared'
  BY DEF StartedInv, Shared
<1>4. OwedInv'
  BY DEF OwedInv
<1>5. ResultInv'
  BY DEF ResultInv
<1>6. WaitTellsTruth'
  BY DEF WaitTellsTruth
<1>. QED
  BY <1>1, <1>2, <1>3, <1>4, <1>5, <1>6

(* Start runs an informer and marks it, under the mutex: once.             *)
LEMMA StartInformerStep ==
  ASSUME IInv, NEW g \in Threads, NEW t \in Types, StartInformer(g, t)
  PROVE  IInv'
<1> USE FactoryAssumption
    DEF IInv, Labels, TypeOK, StartInformer, MarkStarted, callVars
<1>1. informers[t] # 0 /\ ~startedInformers[t] /\ runs[t] = 0
  BY DEF ToStart, StartedInv
<1>2. TypeOK'
  OBVIOUS
<1>3. LockInv'
  BY DEF LockInv
<1>4. StartedInv' /\ Shared'
  BY <1>1 DEF StartedInv, Shared
<1>5. OwedInv'
  BY DEF OwedInv
<1>6. ResultInv'
  BY DEF ResultInv
<1>7. WaitTellsTruth'
  BY DEF WaitTellsTruth
<1>. QED
  BY <1>2, <1>3, <1>4, <1>5, <1>6, <1>7

(* Start returns: whatever its caller has been given is in the map, hence  *)
(* started by now.                                                         *)
LEMMA StartReturnStep == ASSUME IInv, NEW g \in Threads, StartReturn(g) PROVE IInv'
<1> USE FactoryAssumption
    DEF IInv, Labels, TypeOK, StartReturn, Release, Goto, runVars
<1>1. \A t \in Types : held[g][t] # 0 => startedInformers[t]
  BY DEF ToStart, Shared
<1>2. TypeOK'
  OBVIOUS
<1>3. LockInv'
  BY DEF LockInv
<1>4. StartedInv' /\ Shared'
  BY DEF StartedInv, Shared
<1>5. OwedInv'
  BY <1>1 DEF OwedInv
<1>6. ResultInv'
  BY DEF ResultInv
<1>7. WaitTellsTruth'
  BY DEF OwedInv, WaitTellsTruth
<1>. QED
  BY <1>2, <1>3, <1>4, <1>5, <1>6, <1>7

(* The copy that a wait takes has all that it owes an answer about.        *)
LEMMA WaitSnapshotStep == ASSUME IInv, NEW g \in Threads, WaitSnapshot(g) PROVE IInv'
<1> USE FactoryAssumption
    DEF IInv, Labels, TypeOK, WaitSnapshot, Goto, mapVars, runVars, histVars
<1>1. TypeOK'
  OBVIOUS
<1>2. LockInv'
  BY DEF LockInv
<1>3. StartedInv' /\ Shared'
  BY DEF StartedInv, Shared
<1>4. OwedInv'
  BY DEF StartedInv, OwedInv
<1>5. ResultInv'
  BY DEF ResultInv
<1>6. WaitTellsTruth'
  BY DEF WaitTellsTruth
<1>. QED
  BY <1>1, <1>2, <1>3, <1>4, <1>5, <1>6

(* A poll records "true" only of a synced informer, "false" only if the    *)
(* channel of the wait is closed.                                          *)
LEMMA PollSyncStep ==
  ASSUME IInv, NEW g \in Threads, NEW t \in Types, PollSync(g, t)
  PROVE  IInv'
<1>1. PICK v \in {"polled", "true", "false"} :
        /\ res' = [res EXCEPT ![g][t] = v]
        /\ v = "true" => t \in synced
        /\ v = "false" => stopCh[g] \in closed
  BY DEF PollSync, HasSynced, StopSeen
<1>2. /\ pc[g] = "waiting"
      /\ UNCHANGED <<mapVars, pc, typ, stopCh, snap, held, runVars, histVars>>
  BY DEF PollSync
<1> USE FactoryAssumption, <1>1, <1>2 DEF IInv, Labels, TypeOK, mapVars, runVars, histVars
<1>3. TypeOK'
  OBVIOUS
<1>4. LockInv'
  BY DEF LockInv
<1>5. StartedInv' /\ Shared'
  BY DEF StartedInv, Shared
<1>6. OwedInv'
  BY DEF OwedInv
<1>7. ResultInv'
  BY DEF ResultInv
<1>8. WaitTellsTruth'
  BY DEF WaitTellsTruth
<1>. QED
  BY <1>3, <1>4, <1>5, <1>6, <1>7, <1>8

(* A wait returns when all in its copy have an answer.                     *)
LEMMA WaitReturnStep == ASSUME IInv, NEW g \in Threads, WaitReturn(g) PROVE IInv'
<1> USE FactoryAssumption
    DEF IInv, Labels, TypeOK, WaitReturn, Goto, mapVars, callVars, runVars, histVars
<1>1. TypeOK'
  OBVIOUS
<1>2. LockInv'
  BY DEF LockInv
<1>3. StartedInv' /\ Shared'
  BY DEF StartedInv, Shared
<1>4. OwedInv'
  BY DEF OwedInv
<1>5. ResultInv'
  BY DEF ResultInv
<1>6. WaitTellsTruth'
  BY DEF OwedInv, ResultInv, WaitTellsTruth
<1>. QED
  BY <1>1, <1>2, <1>3, <1>4, <1>5, <1>6

(* Informers that sync or stop, and channels that are closed: no answer is *)
(* made untrue by them.                                                    *)
LEMMA WorldSteps ==
  ASSUME IInv,
         \/ \E t \in Types : InformerSync(t) \/ InformerStop(t)
         \/ \E c \in Chans : CloseChan(c)
  PROVE  IInv'
<1> USE FactoryAssumption
    DEF IInv, Labels, TypeOK, InformerSync, InformerStop, CloseChan, mapVars, callVars, histVars
<1>1. TypeOK'
  OBVIOUS
<1>2. LockInv'
  BY DEF LockInv
<1>3. StartedInv' /\ Shared'
  BY DEF StartedInv, Shared
<1>4. OwedInv'
  BY DEF OwedInv
<1>5. ResultInv'
  BY DEF ResultInv
<1>6. WaitTellsTruth'
  BY DEF WaitTellsTruth
<1>. QED
  BY <1>1, <1>2, <1>3, <1>4, <1>5, <1>6

(* Every step preserves IInv.                                              *)
LEMMA NextIInv == IInv /\ [Next]_vars => IInv'
<1> SUFFICES ASSUME IInv, [Next]_vars PROVE IInv'
  OBVIOUS
<1>1. CASE UNCHANGED vars
  <2> USE <1>1 DEF vars, mapVars, callVars, runVars, histVars, IInv
  <2>1. TypeOK' /\ LockInv' /\ StartedInv' /\ OwedInv'
    BY DEF TypeOK, LockInv, StartedInv, OwedInv
  <2>2. ResultInv' /\ Shared' /\ WaitTellsTruth'
    BY DEF ResultInv, Shared, WaitTellsTruth
  <2>. QED
    BY <2>1, <2>2
<1>2. ASSUME NEW g \in Threads, LockSteps(g) PROVE IInv'
  BY <1>2, LookUpStep, StartLockStep, WaitSnapshotStep DEF LockSteps
<1>3. ASSUME NEW g \in Threads, OwnSteps(g) PROVE IInv'
  BY <1>3, NewInformerStep, StartInformerStep, StartReturnStep, PollSyncStep, WaitReturnStep
     DEF OwnSteps
<1>. QED
  BY <1>1, <1>2, <1>3, CallSteps, WorldSteps DEF Next

-----------------------------------------------------------------------------
(* All goroutines share one informer of a type, the one in the map, however*)
(* many of them ask for it at the same time.                               *)
THEOREM InformersShared == Spec => []Shared
<1>1. IInv => Shared
  BY DEF IInv
<1>. QED
  BY <1>1, InitIInv, NextIInv, PTL DEF Spec

(* Start may be called any number of times, by any goroutines: no informer *)
(* is run twice.                                                           *)
THEOREM InformersRunOnce == Spec => []RunOnce
<1>1. IInv => RunOnce
  <2> SUFFICES ASSUME IInv, NEW t \in Types PROVE runs[t] <= 1
    BY DEF RunOnce
  <2>1. runs[t] = IF startedInformers[t] THEN 1 ELSE 0
    BY DEF IInv, StartedInv
  <2>. QED
    BY <2>1
<1>. QED
  BY <1>1, InitIInv, NextIInv, PTL DEF Spec

(* A goroutine that waits after its Start gets an answer about every       *)
(* informer that it was given, and a true one.                             *)
THEOREM WaitsTellTheTruth == Spec => []WaitTellsTruth
<1>1. IInv => WaitTellsTruth
  BY DEF IInv
<1>. QED
  BY <1>1, InitIInv, NextIInv, PTL DEF Spec

-----------------------------------------------------------------------------
(* The loops of Start and of WaitForCacheSync.                             *)

(* One step on the way of goroutine g through Start: it starts one of the  *)
(* informers that are left, returns because none is, or lets others go on, *)
(* who leave it as many as there were.                                     *)
StartGoesOn(g) ==
  \/ \E t \in ToStart : StartInformer(g, t) /\ ToStart' = ToStart \ {t} /\ pc'[g] = "starting"
  \/ ToStart = {} /\ StartReturn(g) /\ pc'[g] = "idle"
  \/ ToStart' = ToStart /\ pc'[g] = "starting"

(* ... and of a wait: what it waits for stays the same, and an informer    *)
(* that it is done with stays done.                                        *)
WaitGoesOn(g) ==
  /\ pc'[g] \in {"waiting", "idle"} /\ snap'[g] = snap[g]
  /\ \A t \in Types :
       \/ res'[g][t] = res[g][t]
       \/ res[g][t] = "none" /\ res'[g][t] \in {"polled", "true"}
       \/ res[g][t] = "polled" /\ res'[g][t] \in {"true", "false"}

(* In Start the mutex is held, so that no other goroutine files or starts  *)
(* an informer meanwhile.                                                  *)
LEMMA StartAlone ==
  ASSUME IInv, [Next]_vars, NEW g \in Threads, pc[g] = "starting"
  PROVE  StartGoesOn(g)
<1>1. /\ lock = g /\ pc \in [Threads -> Labels]
      /\ startedInformers \in [Types -> BOOLEAN] /\ informers \in [Types -> Nat]
      /\ \A h \in Threads : h # g => pc[h] \notin {"new", "starting"}
  BY DEF IInv, TypeOK, LockInv
<1>2. g # None
  BY FactoryAssumption
<1>3. ASSUME UNCHANGED <<informers, startedInformers>>, pc'[g] = pc[g] PROVE StartGoesOn(g)
  BY <1>3 DEF StartGoesOn, ToStart
<1>4. ASSUME NEW h \in Threads, Calls(h) PROVE StartGoesOn(g)
  <2>1. UNCHANGED <<informers, startedInformers>> /\ pc[h] = "idle" /\ \E l : Goto(h, l)
    BY <1>4 DEF Calls, CallInformerFor, CallStart, CallWait, Begin, mapVars
  <2>. QED
    BY <1>1, <1>3, <2>1 DEF Goto
<1>5. ASSUME NEW h \in Threads, LockSteps(h) PROVE StartGoesOn(g)
  <2>1. UNCHANGED <<informers, startedInformers>> /\ pc[h] # "starting" /\ \E l : Goto(h, l)
    BY <1>5 DEF LockSteps, LookUp, StartLock, WaitSnapshot, mapVars
  <2>. QED
    BY <1>1, <1>3, <2>1 DEF Goto
<1>6. ASSUME NEW h \in Threads, OwnSteps(h), h # g PROVE StartGoesOn(g)
  <2>1. /\ UNCHANGED <<informers, startedInformers>> /\ pc[h] # "starting"
        /\ (\E l : Goto(h, l)) \/ UNCHANGED pc
    BY <1>1, <1>6 DEF OwnSteps, NewInformer, StartReturn, WaitReturn, StartInformer, PollSync, mapVars
  <2>. QED
    BY <1>1, <1>3, <1>6, <2>1 DEF Goto
<1>7. ASSUME NEW t \in Types, StartInformer(g, t) PROVE StartGoesOn(g)
  <2>1. /\ t \in ToStart /\ informers' = informers /\ pc' = pc
        /\ startedInformers' = [startedInformers EXCEPT ![t] = TRUE]
    BY <1>7 DEF StartInformer, MarkStarted
  <2>2. ToStart' = ToStart \ {t}
    BY <1>1, <2>1 DEF ToStart
  <2>. QED
    BY <1>7, <2>1, <2>2 DEF StartGoesOn
<1>8. CASE StartReturn(g)
  BY <1>1, <1>8 DEF StartReturn, StartGoesOn, Goto
<1>9. CASE OwnSteps(g)
  BY <1>7, <1>8, <1>9 DEF OwnSteps, NewInformer, WaitReturn, PollSync
<1>10. CASE \/ \E t \in Types : InformerSync(t) \/ InformerStop(t)
            \/ \E c \in Chans : CloseChan(c)
            \/ UNCHANGED vars
  BY <1>3, <1>10 DEF InformerSync, InformerStop, CloseChan, vars, mapVars
<1>. QED
  BY <1>4, <1>5, <1>6, <1>9, <1>10 DEF Next

LEMMA WaitKeeps ==
  ASSUME IInv, [Next]_vars, NEW g \in Threads, pc[g] = "waiting"
  PROVE  WaitGoesOn(g)
<1>1. /\ pc \in [Threads -> Labels] /\ snap \in [Threads -> SUBSET Types]
      /\ res \in [Threads -> [Types -> {"none", "polled", "true", "false"}]]
  BY DEF IInv, TypeOK
<1>2. ASSUME UNCHANGED <<snap[g], res[g]>>, pc'[g] \in {"waiting", "idle"} PROVE WaitGoesOn(g)
  BY <1>2 DEF WaitGoesOn
<1>3. ASSUME NEW h \in Threads, Calls(h) PROVE WaitGoesOn(g)
  <2>1. /\ pc[h] = "idle" /\ (\E l : Goto(h, l))
        /\ snap' = [snap EXCEPT ![h] = {}]
        /\ res' = [res EXCEPT ![h] = [u \in Types |-> "none"]]
    BY <1>3 DEF Calls, CallInformerFor, CallStart, CallWait, Begin
  <2>. QED
    BY <1>1, <1>2, <2>1 DEF Goto
<1>4. ASSUME NEW h \in Threads, LockSteps(h) PROVE WaitGoesOn(g)
  <2>1. pc[h] # "waiting" /\ (\E l : Goto(h, l)) /\ res' = res
    BY <1>4 DEF LockSteps, LookUp, StartLock, WaitSnapshot, callVars
  <2>2. snap' = snap \/ \E S : snap' = [snap EXCEPT ![h] = S]
    BY <1>4 DEF LockSteps, LookUp, StartLock, WaitSnapshot, callVars
  <2>3. h # g
    BY <2>1
  <2>4. snap'[g] = snap[g]
    BY <1>1, <2>2, <2>3
  <2>. QED
    BY <1>1, <1>2, <2>1, <2>4 DEF Goto
<1>5. ASSUME NEW h \in Threads, NewInformer(h) \/ StartReturn(h) PROVE WaitGoesOn(g)
  <2>1. pc[h] # "waiting" /\ (\E l : Goto(h, l)) /\ UNCHANGED <<snap, res>>
    BY <1>5 DEF NewInformer, StartReturn
  <2>. QED
    BY <1>1, <1>2, <2>1 DEF Goto
<1>6. ASSUME NEW h \in Threads, WaitReturn(h) PROVE WaitGoesOn(g)
  <2>1. Goto(h, "idle") /\ UNCHANGED <<snap, res>>
    BY <1>6 DEF WaitReturn, callVars
  <2>. QED
    BY <1>1, <1>2, <2>1 DEF Goto
<1>7. ASSUME NEW h \in Threads, NEW t \in Types, StartInformer(h, t) PROVE WaitGoesOn(g)
  BY <1>2, <1>7 DEF StartInformer, callVars
<1>8. ASSUME NEW h \in Threads, NEW t \in Types, PollSync(h, t) PROVE WaitGoesOn(g)
  <2>1. UNCHANGED <<pc, snap>>
    BY <1>8 DEF PollSync
  <2>2. PICK a \in {"polled", "true", "false"} :
          /\ res' = [res EXCEPT ![h][t] = a]
          /\ \/ res[h][t] = "none" /\ a # "false"
             \/ res[h][t] = "polled" /\ a # "polled"
    <3>1. CASE res[h][t] = "none" /\ res' = [res EXCEPT ![h][t] = IF HasSynced(t) THEN "true" ELSE "polled"]
      BY <3>1
    <3>2. CASE res[h][t] = "polled" /\ res' = [res EXCEPT ![h][t] = "true"]
      BY <3>2
    <3>3. CASE res[h][t] = "polled" /\ res' = [res EXCEPT ![h][t] = "false"]
      BY <3>3
    <3>. QED
      BY <1>8, <3>1, <3>2, <3>3 DEF PollSync
  <2>3. \A u \in Types : res'[g][u] = IF h = g /\ u = t THEN a ELSE res[g][u]
    BY <1>1, <2>2
  <2>. QED
    BY <2>1, <2>2, <2>3 DEF WaitGoesOn
<1>9. CASE \/ \E t \in Types : InformerSync(t) \/ InformerStop(t)
           \/ \E c \in Chans : CloseChan(c)
           \/ UNCHANGED vars
  BY <1>2, <1>9 DEF InformerSync, InformerStop, CloseChan, vars, callVars
<1>. QED
  BY <1>3, <1>4, <1>5, <1>6, <1>7, <1>8, <1>9 DEF OwnSteps, Next

(* Start and WaitForCacheSync do not go round for ever: of the informers   *)
(* that Start has to start, the same one does not come up twice and none   *)
(* is added while it goes through them; and a wait is done with each       *)
(* informer of its copy after two answers at most.  The mutex is held in   *)
(* Start and in the store of InformerFor, and by no waiter.                *)
LoopsGoOn ==
  [][\A g \in Threads :
       /\ pc[g] = "starting" => StartGoesOn(g)
       /\ pc[g] = "waiting" => WaitGoesOn(g)]_vars

MutexHeld == \A g \in Threads : pc[g] \in {"new", "starting"} <=> lock = g

THEOREM FactoryLoopsEnd == Spec => []MutexHeld /\ LoopsGoOn
<1>1. IInv => MutexHeld
  BY DEF IInv, LockInv, MutexHeld
<1>2. IInv /\ [Next]_vars =>
        [\A g \in Threads :
           /\ pc[g] = "starting" => StartGoesOn(g)
           /\ pc[g] = "waiting" => WaitGoesOn(g)]_vars
  BY StartAlone, WaitKeeps
<1>. QED
  BY <1>1, <1>2, InitIInv, NextIInv, PTL DEF Spec, LoopsGoOn
=============================================================================
