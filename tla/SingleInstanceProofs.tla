------------------------ MODULE SingleInstanceProofs ------------------------
(***************************************************************************)
(* What the guards of a start keep for any number of processes, killed at  *)
(* any point.                                                              *)
(***************************************************************************)
EXTENDS SingleInstance, TLAPS

\* From the creation of the lockfile to its removal.
WithLock == Holding \cup {"write", "drop", "drop_remove"}

ProcessesLive ==
  \A p \in Processes : /\ pc[p] \in Starting \cup {"serving"} => p \in alive
                       /\ pc[p] \in {"new", "dead"} => p \notin alive

PortFirst ==
  \A p \in Hubs : /\ pc[p] \in {"unlink", "bind", "serving"} => port = p
                  /\ pc[p] = "serving" => socket = p

LockRecords ==
  \A p \in Hubs : /\ pc[p] \in WithLock \ {"write"} => p \in written
                  /\ lock = p => pc[p] \in WithLock \cup {"dead"}

\* A Hub that has not started has not tried.
Retries == \A p \in Hubs : pc[p] = "new" => p \notin retried

HubsInTurn ==
  ~raced => \A p \in Hubs :
    /\ pc[p] \in Starting => \A q \in Hubs : pc[q] \in Starting => p = q
    /\ pc[p] \in WithLock => lock = p
    /\ pc[p] = "remove" => \A q \in Hubs : pc[q] \notin Holding

ReceiversInTurn ==
  ~raced => \A p \in Receivers :
    /\ pc[p] \in Starting => \A q \in Receivers : pc[q] \in Starting => p = q
    /\ pc[p] = "serving" => hooks = p
    /\ pc[p] \in {"hook_remove", "hook_rebind"} => \A q \in Receivers : pc[q] # "serving"

\* A Hub that met no other is the only one there, and finds no lock that holds.
Alone ==
  \A p \in Hubs \ met :
    /\ pc[p] \in Starting => \A q \in Hubs : q \in alive /\ pc[q] \in Starting \cup {"serving"} => q = p
    /\ pc[p] = "examine" => p \notin retried
    /\ pc[p] = "create" /\ p \in retried => lock = None
    /\ pc[p] # "refused"

IInv == TypeOK /\ ProcessesLive /\ PortFirst /\ LockRecords /\ HubsInTurn /\ ReceiversInTurn /\ Retries /\ Alone

-----------------------------------------------------------------------------
LEMMA InitInv == Init => IInv
BY InstanceConstants DEF Init, IInv, TypeOK, ProcessesLive, PortFirst, LockRecords, HubsInTurn,
   ReceiversInTurn, Retries, Alone, Starting, Holding, WithLock, Processes

LEMMA StartHubKeeps ==
  ASSUME IInv, NEW p \in Hubs, StartHub(p)
  PROVE  IInv'
<1>. USE InstanceConstants DEF StartHub, Start, Goes, Starting, Holding, WithLock, files, history, Processes, IInv
<1>1. TypeOK' BY DEF Present, TypeOK
<1>2. ProcessesLive' BY DEF ProcessesLive, TypeOK
<1>3. PortFirst' BY DEF PortFirst, TypeOK
<1>4. LockRecords' BY DEF LockRecords, TypeOK
<1>5. HubsInTurn' BY DEF LockRecords, ProcessesLive, HubsInTurn, TypeOK
<1>6. ReceiversInTurn' BY DEF ProcessesLive, ReceiversInTurn, TypeOK
<1>7. Alone'
  <2>. SUFFICES ASSUME NEW q \in Hubs, q \notin met'
                PROVE  /\ pc'[q] \in Starting =>
                            \A r \in Hubs : r \in alive' /\ pc'[r] \in Starting \cup {"serving"} => r = q
                       /\ pc'[q] = "examine" => q \notin retried'
                       /\ pc'[q] = "create" /\ q \in retried' => lock' = None
                       /\ pc'[q] # "refused"
    BY DEF Alone
  <2>1. q \notin met /\ p \in Processes /\ pc' = [pc EXCEPT ![p] = "create"]
    BY DEF TypeOK
  <2>2. CASE q = p
    <3>1. Present = {} BY <2>2
    <3>2. p \notin retried \/ lock = None BY <2>1, <2>2 DEF Retries
    <3>. QED BY <2>1, <2>2, <3>1, <3>2 DEF Present, TypeOK
  <2>3. CASE q # p
    <3>1. q \notin Present BY <2>3
    <3>2. pc'[q] = pc[q] /\ pc[q] \notin Starting BY <2>1, <2>3, <3>1 DEF ProcessesLive, Present, TypeOK
    <3>. QED BY <2>1, <3>2 DEF Alone, TypeOK
  <2>. QED BY <2>2, <2>3
<1>8. Retries' BY DEF Retries, TypeOK
<1>. QED BY <1>1, <1>2, <1>3, <1>4, <1>5, <1>6, <1>7, <1>8

LEMMA CreateKeeps ==
  ASSUME IInv, NEW p \in Hubs, Create(p)
  PROVE  IInv'
<1>. USE InstanceConstants DEF Create, Goes, Steps, Starting, Holding, WithLock, files, history, Processes, IInv
<1>1. TypeOK' BY DEF TypeOK
<1>2. ProcessesLive' BY DEF ProcessesLive, TypeOK
<1>3. PortFirst' BY DEF PortFirst, TypeOK
<1>4. LockRecords' BY DEF LockRecords, TypeOK
<1>5. HubsInTurn' BY DEF LockRecords, ProcessesLive, HubsInTurn, TypeOK
<1>6. ReceiversInTurn' BY DEF ProcessesLive, ReceiversInTurn, TypeOK
<1>7. Alone' BY DEF ProcessesLive, LockRecords, Alone, TypeOK
<1>8. Retries' BY DEF Retries, TypeOK
<1>. QED BY <1>1, <1>2, <1>3, <1>4, <1>5, <1>6, <1>7, <1>8

LEMMA WriteKeeps ==
  ASSUME IInv, NEW p \in Hubs, Write(p)
  PROVE  IInv'
<1>. USE InstanceConstants DEF Write, Goes, Steps, Starting, Holding, WithLock, files, history, Processes, IInv
<1>1. TypeOK' BY DEF TypeOK
<1>2. ProcessesLive' BY DEF ProcessesLive, TypeOK
<1>3. PortFirst' BY DEF PortFirst, TypeOK
<1>4. LockRecords' BY DEF LockRecords, TypeOK
<1>5. HubsInTurn' BY DEF LockRecords, ProcessesLive, HubsInTurn, TypeOK
<1>6. ReceiversInTurn' BY DEF ProcessesLive, ReceiversInTurn, TypeOK
<1>7. Alone' BY DEF ProcessesLive, LockRecords, Alone, TypeOK
<1>8. Retries' BY DEF Retries, TypeOK
<1>. QED BY <1>1, <1>2, <1>3, <1>4, <1>5, <1>6, <1>7, <1>8

LEMMA ExamineKeeps ==
  ASSUME IInv, NEW p \in Hubs, Examine(p)
  PROVE  IInv'
<1>. USE InstanceConstants DEF Examine, Running, Goes, Steps, Starting, Holding, WithLock, files, history, Processes, IInv
<1>1. TypeOK' BY DEF TypeOK
<1>2. ProcessesLive' BY DEF ProcessesLive, TypeOK
<1>3. PortFirst' BY DEF PortFirst, TypeOK
<1>4. LockRecords' BY DEF LockRecords, TypeOK
<1>5. HubsInTurn' BY DEF LockRecords, ProcessesLive, HubsInTurn, TypeOK
<1>6. ReceiversInTurn' BY DEF ProcessesLive, ReceiversInTurn, TypeOK
<1>7. Alone'
  <2>1. p \notin met => Running = None
    <3>. SUFFICES ASSUME p \notin met, lock \in written \cap alive PROVE FALSE BY DEF Running
    <3>1. lock \in Hubs /\ pc[lock] \in WithLock /\ lock # p
      BY DEF LockRecords, TypeOK, ProcessesLive
    <3>. QED BY <3>1 DEF Alone
  <2>2. p \notin met => p \notin retried BY DEF Alone
  <2>3. \A q \in Hubs : q # p => pc'[q] = pc[q] BY DEF TypeOK
  <2>4. p \notin met => pc'[p] = "remove" BY <2>1, <2>2 DEF TypeOK
  <2>5. \A q \in Hubs : pc'[q] \in Starting \cup {"serving"} => pc[q] \in Starting \cup {"serving"}
    BY <2>3 DEF TypeOK
  <2>. QED BY <2>3, <2>4, <2>5 DEF Alone
<1>8. Retries' BY DEF Retries, TypeOK
<1>. QED BY <1>1, <1>2, <1>3, <1>4, <1>5, <1>6, <1>7, <1>8

LEMMA ReclaimKeeps ==
  ASSUME IInv, NEW p \in Hubs, Reclaim(p)
  PROVE  IInv'
<1>. USE InstanceConstants DEF Reclaim, Goes, Steps, Starting, Holding, WithLock, files, history, Processes, IInv
<1>1. TypeOK' BY DEF TypeOK
<1>2. ProcessesLive' BY DEF ProcessesLive, TypeOK
<1>3. PortFirst' BY DEF PortFirst, TypeOK
<1>4. LockRecords' BY DEF LockRecords, TypeOK
<1>5. HubsInTurn' BY DEF LockRecords, ProcessesLive, HubsInTurn, TypeOK
<1>6. ReceiversInTurn' BY DEF ProcessesLive, ReceiversInTurn, TypeOK
<1>7. Alone' BY DEF ProcessesLive, LockRecords, Alone, TypeOK
<1>8. Retries' BY DEF Retries, TypeOK
<1>. QED BY <1>1, <1>2, <1>3, <1>4, <1>5, <1>6, <1>7, <1>8

LEMMA OpenKeeps ==
  ASSUME IInv, NEW p \in Hubs, Open(p)
  PROVE  IInv'
<1>. USE InstanceConstants DEF Open, Goes, Steps, Starting, Holding, WithLock, files, history, Processes, IInv
<1>1. TypeOK' BY DEF TypeOK
<1>2. ProcessesLive' BY DEF ProcessesLive, TypeOK
<1>3. PortFirst' BY DEF PortFirst, TypeOK
<1>4. LockRecords' BY DEF LockRecords, TypeOK
<1>5. HubsInTurn' BY DEF LockRecords, ProcessesLive, HubsInTurn, TypeOK
<1>6. ReceiversInTurn' BY DEF ProcessesLive, ReceiversInTurn, TypeOK
<1>7. Alone' BY DEF ProcessesLive, LockRecords, Alone, TypeOK
<1>8. Retries' BY DEF Retries, TypeOK
<1>. QED BY <1>1, <1>2, <1>3, <1>4, <1>5, <1>6, <1>7, <1>8

LEMMA ListenKeeps ==
  ASSUME IInv, NEW p \in Hubs, Listen(p)
  PROVE  IInv'
<1>. USE InstanceConstants DEF Listen, Goes, Steps, Starting, Holding, WithLock, files, history, Processes, IInv
<1>1. TypeOK' BY DEF TypeOK
<1>2. ProcessesLive' BY DEF ProcessesLive, TypeOK
<1>3. PortFirst' BY DEF PortFirst, TypeOK
<1>4. LockRecords' BY DEF LockRecords, TypeOK
<1>5. HubsInTurn' BY DEF LockRecords, ProcessesLive, HubsInTurn, TypeOK
<1>6. ReceiversInTurn' BY DEF ProcessesLive, ReceiversInTurn, TypeOK
<1>7. Alone' BY DEF ProcessesLive, LockRecords, Alone, TypeOK
<1>8. Retries' BY DEF Retries, TypeOK
<1>. QED BY <1>1, <1>2, <1>3, <1>4, <1>5, <1>6, <1>7, <1>8

LEMMA UnlinkKeeps ==
  ASSUME IInv, NEW p \in Hubs, Unlink(p)
  PROVE  IInv'
<1>. USE InstanceConstants DEF Unlink, Goes, Steps, Starting, Holding, WithLock, files, history, Processes, IInv
<1>1. TypeOK' BY DEF TypeOK
<1>2. ProcessesLive' BY DEF ProcessesLive, TypeOK
<1>3. PortFirst' BY DEF PortFirst, TypeOK
<1>4. LockRecords' BY DEF LockRecords, TypeOK
<1>5. HubsInTurn' BY DEF LockRecords, ProcessesLive, HubsInTurn, TypeOK
<1>6. ReceiversInTurn' BY DEF ProcessesLive, ReceiversInTurn, TypeOK
<1>7. Alone' BY DEF ProcessesLive, LockRecords, Alone, TypeOK
<1>8. Retries' BY DEF Retries, TypeOK
<1>. QED BY <1>1, <1>2, <1>3, <1>4, <1>5, <1>6, <1>7, <1>8

LEMMA BindKeeps ==
  ASSUME IInv, NEW p \in Hubs, Bind(p)
  PROVE  IInv'
<1>. USE InstanceConstants DEF Bind, Goes, Steps, Starting, Holding, WithLock, files, history, Processes, IInv
<1>1. TypeOK' BY DEF TypeOK
<1>2. ProcessesLive' BY DEF ProcessesLive, TypeOK
<1>3. PortFirst' BY DEF PortFirst, TypeOK
<1>4. LockRecords' BY DEF LockRecords, TypeOK
<1>5. HubsInTurn' BY DEF LockRecords, ProcessesLive, HubsInTurn, TypeOK
<1>6. ReceiversInTurn' BY DEF ProcessesLive, ReceiversInTurn, TypeOK
<1>7. Alone' BY DEF ProcessesLive, LockRecords, Alone, TypeOK
<1>8. Retries' BY DEF Retries, TypeOK
<1>. QED BY <1>1, <1>2, <1>3, <1>4, <1>5, <1>6, <1>7, <1>8

LEMMA DropReadsKeeps ==
  ASSUME IInv, NEW p \in Hubs, DropReads(p)
  PROVE  IInv'
<1>. USE InstanceConstants DEF DropReads, Goes, Steps, Starting, Holding, WithLock, files, history, Processes, IInv
<1>1. TypeOK' BY DEF TypeOK
<1>2. ProcessesLive' BY DEF ProcessesLive, TypeOK
<1>3. PortFirst' BY DEF PortFirst, TypeOK
<1>4. LockRecords' BY DEF LockRecords, TypeOK
<1>5. HubsInTurn' BY DEF LockRecords, ProcessesLive, HubsInTurn, TypeOK
<1>6. ReceiversInTurn' BY DEF ProcessesLive, ReceiversInTurn, TypeOK
<1>7. Alone' BY DEF ProcessesLive, LockRecords, Alone, TypeOK
<1>8. Retries' BY DEF Retries, TypeOK
<1>. QED BY <1>1, <1>2, <1>3, <1>4, <1>5, <1>6, <1>7, <1>8

LEMMA DropRemovesKeeps ==
  ASSUME IInv, NEW p \in Hubs, DropRemoves(p)
  PROVE  IInv'
<1>. USE InstanceConstants DEF DropRemoves, Goes, Steps, Starting, Holding, WithLock, files, history, Processes, IInv
<1>1. TypeOK' BY DEF TypeOK
<1>2. ProcessesLive' BY DEF ProcessesLive, TypeOK
<1>3. PortFirst' BY DEF PortFirst, TypeOK
<1>4. LockRecords' BY DEF LockRecords, TypeOK
<1>5. HubsInTurn' BY DEF LockRecords, ProcessesLive, HubsInTurn, TypeOK
<1>6. ReceiversInTurn' BY DEF ProcessesLive, ReceiversInTurn, TypeOK
<1>7. Alone' BY DEF ProcessesLive, LockRecords, Alone, TypeOK
<1>8. Retries' BY DEF Retries, TypeOK
<1>. QED BY <1>1, <1>2, <1>3, <1>4, <1>5, <1>6, <1>7, <1>8

LEMMA StartReceiverKeeps ==
  ASSUME IInv, NEW p \in Receivers, StartReceiver(p)
  PROVE  IInv'
<1>. USE InstanceConstants DEF StartReceiver, Start, Goes, Starting, Holding, WithLock, files, history, Processes, IInv
<1>1. TypeOK' BY DEF TypeOK
<1>2. ProcessesLive' BY DEF ProcessesLive, TypeOK
<1>3. PortFirst' BY DEF PortFirst, TypeOK
<1>4. LockRecords' BY DEF LockRecords, TypeOK
<1>5. HubsInTurn' BY DEF LockRecords, ProcessesLive, HubsInTurn, TypeOK
<1>6. ReceiversInTurn' BY DEF ProcessesLive, ReceiversInTurn, TypeOK
<1>7. Alone' BY DEF ProcessesLive, LockRecords, Alone, TypeOK
<1>8. Retries' BY DEF Retries, TypeOK
<1>. QED BY <1>1, <1>2, <1>3, <1>4, <1>5, <1>6, <1>7, <1>8

LEMMA HookBindKeeps ==
  ASSUME IInv, NEW p \in Receivers, HookBind(p)
  PROVE  IInv'
<1>. USE InstanceConstants DEF HookBind, Goes, Steps, Starting, Holding, WithLock, files, history, Processes, IInv
<1>1. TypeOK' BY DEF TypeOK
<1>2. ProcessesLive' BY DEF ProcessesLive, TypeOK
<1>3. PortFirst' BY DEF PortFirst, TypeOK
<1>4. LockRecords' BY DEF LockRecords, TypeOK
<1>5. HubsInTurn' BY DEF LockRecords, ProcessesLive, HubsInTurn, TypeOK
<1>6. ReceiversInTurn' BY DEF ProcessesLive, ReceiversInTurn, TypeOK
<1>7. Alone' BY DEF ProcessesLive, LockRecords, Alone, TypeOK
<1>8. Retries' BY DEF Retries, TypeOK
<1>. QED BY <1>1, <1>2, <1>3, <1>4, <1>5, <1>6, <1>7, <1>8

LEMMA HookProbeKeeps ==
  ASSUME IInv, NEW p \in Receivers, HookProbe(p)
  PROVE  IInv'
<1>. USE InstanceConstants DEF HookProbe, Goes, Steps, Starting, Holding, WithLock, files, history, Processes, IInv
<1>1. TypeOK' BY DEF TypeOK
<1>2. ProcessesLive' BY DEF ProcessesLive, TypeOK
<1>3. PortFirst' BY DEF PortFirst, TypeOK
<1>4. LockRecords' BY DEF LockRecords, TypeOK
<1>5. HubsInTurn' BY DEF LockRecords, ProcessesLive, HubsInTurn, TypeOK
<1>6. ReceiversInTurn' BY DEF ProcessesLive, ReceiversInTurn, TypeOK
<1>7. Alone' BY DEF ProcessesLive, LockRecords, Alone, TypeOK
<1>8. Retries' BY DEF Retries, TypeOK
<1>. QED BY <1>1, <1>2, <1>3, <1>4, <1>5, <1>6, <1>7, <1>8

LEMMA HookRemoveKeeps ==
  ASSUME IInv, NEW p \in Receivers, HookRemove(p)
  PROVE  IInv'
<1>. USE InstanceConstants DEF HookRemove, Goes, Steps, Starting, Holding, WithLock, files, history, Processes, IInv
<1>1. TypeOK' BY DEF TypeOK
<1>2. ProcessesLive' BY DEF ProcessesLive, TypeOK
<1>3. PortFirst' BY DEF PortFirst, TypeOK
<1>4. LockRecords' BY DEF LockRecords, TypeOK
<1>5. HubsInTurn' BY DEF LockRecords, ProcessesLive, HubsInTurn, TypeOK
<1>6. ReceiversInTurn' BY DEF ProcessesLive, ReceiversInTurn, TypeOK
<1>7. Alone' BY DEF ProcessesLive, LockRecords, Alone, TypeOK
<1>8. Retries' BY DEF Retries, TypeOK
<1>. QED BY <1>1, <1>2, <1>3, <1>4, <1>5, <1>6, <1>7, <1>8

LEMMA HookRebindKeeps ==
  ASSUME IInv, NEW p \in Receivers, HookRebind(p)
  PROVE  IInv'
<1>. USE InstanceConstants DEF HookRebind, Goes, Steps, Starting, Holding, WithLock, files, history, Processes, IInv
<1>1. TypeOK' BY DEF TypeOK
<1>2. ProcessesLive' BY DEF ProcessesLive, TypeOK
<1>3. PortFirst' BY DEF PortFirst, TypeOK
<1>4. LockRecords' BY DEF LockRecords, TypeOK
<1>5. HubsInTurn' BY DEF LockRecords, ProcessesLive, HubsInTurn, TypeOK
<1>6. ReceiversInTurn' BY DEF ProcessesLive, ReceiversInTurn, TypeOK
<1>7. Alone' BY DEF ProcessesLive, LockRecords, Alone, TypeOK
<1>8. Retries' BY DEF Retries, TypeOK
<1>. QED BY <1>1, <1>2, <1>3, <1>4, <1>5, <1>6, <1>7, <1>8

LEMMA KilledKeeps ==
  ASSUME IInv, NEW p \in Processes, Killed(p)
  PROVE  IInv'
<1>. USE InstanceConstants DEF Killed, Goes, Starting, Holding, WithLock, files, history, Processes, IInv
<1>1. TypeOK' BY DEF TypeOK
<1>2. ProcessesLive' BY DEF ProcessesLive, TypeOK
<1>3. PortFirst' BY DEF PortFirst, TypeOK
<1>4. LockRecords' BY DEF LockRecords, TypeOK
<1>5. HubsInTurn' BY DEF LockRecords, ProcessesLive, HubsInTurn, TypeOK
<1>6. ReceiversInTurn' BY DEF ProcessesLive, ReceiversInTurn, TypeOK
<1>7. Alone' BY DEF ProcessesLive, LockRecords, Alone, TypeOK
<1>8. Retries' BY DEF Retries, TypeOK
<1>. QED BY <1>1, <1>2, <1>3, <1>4, <1>5, <1>6, <1>7, <1>8

-----------------------------------------------------------------------------
THEOREM Invariance == Spec => []IInv
<1>1. IInv /\ [Next]_vars => IInv'
  <2>. SUFFICES ASSUME IInv, [Next]_vars PROVE IInv' OBVIOUS
  <2>1. ASSUME NEW p \in Hubs, HubStep(p) PROVE IInv'
    BY <2>1, StartHubKeeps, CreateKeeps, WriteKeeps, ExamineKeeps, ReclaimKeeps, OpenKeeps,
       ListenKeeps, UnlinkKeeps, BindKeeps, DropReadsKeeps, DropRemovesKeeps DEF HubStep
  <2>2. ASSUME NEW p \in Receivers, ReceiverStep(p) PROVE IInv'
    BY <2>2, StartReceiverKeeps, HookBindKeeps, HookProbeKeeps, HookRemoveKeeps, HookRebindKeeps
       DEF ReceiverStep
  <2>3. CASE UNCHANGED vars
    BY <2>3 DEF vars, IInv, TypeOK, ProcessesLive, PortFirst, LockRecords, HubsInTurn,
       ReceiversInTurn, Retries, Alone
  <2>. QED BY <2>1, <2>2, <2>3, KilledKeeps DEF Next
<1>. QED BY InitInv, <1>1, PTL DEF Spec

\* Every variable keeps its type.
THEOREM TypeCorrect == Spec => []TypeOK
<1>1. IInv => TypeOK BY DEF IInv
<1>. QED BY <1>1, Invariance, PTL

\* No start takes the port or the socket of a Hub that serves, for the socket is
\* cleared after the port is won (lib.rs run, server.rs run_unix_listener).
THEOREM ServingHubKept == Spec => []ServingHubKeepsItsSocket
<1>1. IInv => ServingHubKeepsItsSocket BY DEF IInv, PortFirst, ServingHubKeepsItsSocket
<1>. QED BY <1>1, Invariance, PTL

\* Starts that do not overlap leave one holder of the lock, recorded in it, and one
\* receiver at its socket (lockfile.rs acquire and drop, serve.rs bind_reclaiming).
THEOREM OneOfEach == Spec => []OneOfEachUnlessRaced
<1>1. IInv => OneOfEachUnlessRaced
  BY DEF IInv, TypeOK, HubsInTurn, ReceiversInTurn, LockRecords, OneOfEachUnlessRaced, Holders,
         WithLock, Holding
<1>. QED BY <1>1, Invariance, PTL

\* Only a Hub that was there while another started is a reason to refuse it: no killed
\* Hub wedges later ones out (lockfile.rs acquire_create_loop).
THEOREM LivingRefuse == Spec => []RefusedByTheLiving
<1>1. IInv => RefusedByTheLiving BY DEF IInv, Alone, RefusedByTheLiving
<1>. QED BY <1>1, Invariance, PTL
=============================================================================
