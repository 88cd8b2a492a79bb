---------------------------- MODULE FakeClusters ----------------------------
(***************************************************************************)
(* The fake clientset (pkg/client/clientset/versioned/fake and             *)
(* typed/kopilot/v1alpha1/fake) that tests put in the place of the real    *)
(* one, with an informer made over it.                                     *)
(*                                                                         *)
(* External: client-go's object tracker, which stores objects as they come *)
(* and hands every write to the watches that are open at that moment; its  *)
(* reactions, among which there is none for a delete of a collection; and  *)
(* the reflector of the informer, which lists and then watches.            *)
(***************************************************************************)
EXTENDS Naturals, Sequences

CONSTANTS Namespaces, Names,
          All,       \* NamespaceAll
          MaxWrites  \* bound on the writes

ASSUME FakeAssumption == All \notin Namespaces /\ MaxWrites \in Nat

Keys == Namespaces \X Names

VARIABLES
  tracker,  \* key -> object, Nil for none; ver tells states of an object apart
  written,  \* number of writes
  informer, \* namespace and tweakListOptions of the informer
  conn,     \* its reflector: "list" | "watch" (to be opened) | "on"
  queue,    \* events in the channel of its watch
  cache     \* key -> the object in its indexer

(* History: keys whose last write fell between the list and the watch.     *)
VARIABLE gap

trackerVars == <<tracker, written>>
informerVars == <<conn, queue, cache, gap>>
vars == <<trackerVars, informer, informerVars>>

Nil == [ver |-> 0, label |-> FALSE]

-----------------------------------------------------------------------------
(* What the watch reactor of NewSimpleClientset passes on to the tracker:  *)
(* the resource and the namespace of the action.                           *)
WatchReactorNoNamespace(ns, k) == TRUE
WatchReactor(ns, k) == ns = All \/ k[1] = ns

(* Watch hands its options to an action; the reactor does not look at the  *)
(* selectors in them.                                                      *)
Watch(opts, k) == WatchReactor(opts.namespace, k)

(* List filters by label what the tracker has in the namespace; a field    *)
(* selector is not looked at.                                              *)
List(opts) ==
  {k \in Keys : /\ tracker[k] # Nil
                /\ opts.namespace = All \/ k[1] = opts.namespace
                /\ opts.tweakListOptions => tracker[k].label}

-----------------------------------------------------------------------------
(* The objects that a test makes the clientset with are in the tracker.    *)
NewSimpleClientset ==
  [Keys -> {Nil} \cup {[ver |-> 1, label |-> l] : l \in BOOLEAN}]

Init ==
  /\ tracker \in NewSimpleClientset
  /\ written  = 1
  /\ informer \in [namespace : Namespaces \cup {All}, tweakListOptions : BOOLEAN]
  /\ conn     = "list"
  /\ queue    = <<>>
  /\ cache    = [k \in Keys |-> Nil]
  /\ gap      = {}

(* A write of the tracker: o is stored, or k removed if o is Nil.          *)
Write(k, o) ==
  /\ written < MaxWrites
  /\ written' = written + 1
  /\ tracker' = [tracker EXCEPT ![k] = o]
  /\ queue' = IF conn = "on" /\ Watch(informer, k)
              THEN Append(queue, [key |-> k, obj |-> o]) ELSE queue
  /\ gap' = CASE conn = "watch" -> gap \cup {k}
              [] conn = "on"    -> gap \ {k}
              [] OTHER          -> gap
  /\ UNCHANGED <<informer, conn, cache>>

Object(label) == [ver |-> written + 1, label |-> label]

(* Invoked with the namespace of the client, whatever the object says;     *)
(* AlreadyExists and NotFound change nothing.                              *)
Create(k, label) == tracker[k] = Nil /\ Write(k, Object(label))

(* As is: the version that the caller had read is not compared.            *)
Update(k, label) == tracker[k] # Nil /\ Write(k, Object(label))

(* A patch that touches the label or leaves it.                            *)
Patch(k, toggle) == tracker[k] # Nil /\ Write(k, Object(tracker[k].label # toggle))

Delete(k) == tracker[k] # Nil /\ Write(k, Nil)

(* Recorded and answered with nil: no reaction takes it.                   *)
DeleteCollection(ns) == UNCHANGED vars

-----------------------------------------------------------------------------
ReflectorList ==
  /\ conn = "list"
  /\ cache' = [k \in Keys |-> IF k \in List(informer) THEN tracker[k] ELSE Nil]
  /\ conn' = "watch"
  /\ UNCHANGED <<trackerVars, informer, queue, gap>>

(* The version in the options is not used: the watch begins now.           *)
ReflectorWatch ==
  /\ conn = "watch"
  /\ conn' = "on"
  /\ UNCHANGED <<trackerVars, informer, queue, cache, gap>>

ReflectorEvent ==
  /\ queue # <<>>
  /\ cache' = [cache EXCEPT ![Head(queue).key] = Head(queue).obj]
  /\ queue' = Tail(queue)
  /\ UNCHANGED <<trackerVars, informer, conn, gap>>

Next ==
  \/ \E k \in Keys, b \in BOOLEAN : Create(k, b) \/ Update(k, b) \/ Patch(k, b)
  \/ \E k \in Keys : Delete(k)
  \/ \E ns \in Namespaces : DeleteCollection(ns)
  \/ ReflectorList \/ ReflectorWatch \/ ReflectorEvent

Spec == Init /\ [][Next]_vars

-----------------------------------------------------------------------------
(* Properties                                                              *)

Pending(k) == \E i \in 1..Len(queue) : queue[i].key = k

(* A test that waits until its informer has taken in all events may rely   *)
(* on the cache for every selected key of the informer's namespace, deleted*)
(* ones included, and finds nothing of another namespace in it; except for *)
(* keys last written after the list and before the watch, whose events are *)
(* lost for good.                                                          *)
MissesOnlyTheGap ==
  conn = "on" =>
    \A k \in Keys : ~Pending(k) =>
      IF informer.namespace \notin {All, k[1]}
      THEN cache[k] = Nil
      ELSE k \notin gap /\ (informer.tweakListOptions => tracker[k] = Nil \/ tracker[k].label)
             => cache[k] = tracker[k]
=============================================================================
