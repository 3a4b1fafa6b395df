--------------------------- MODULE DeliveryProofs ---------------------------
(***************************************************************************)
(* What EventDelivery promises for any number of instances, secrets and    *)
(* changes, and a channel of any size.                                     *)
(*                                                                         *)
(* NothingMissed becomes inductive together with TypeOK and ReadCoherent:  *)
(* an installation is only as good as the ProviderConfig the worker has    *)
(* read, and must not replace that of a later one.                         *)
(***************************************************************************)
EXTENDS EventDelivery, TLAPS

USE DeliveryAssumption

LEMMA InitTyped == Init => TypeOK
  BY DEF Init, TypeOK, Versions, Inputs, Unseen, WorkerType, Idle, Doing

\* Raising the version of one input, or any part of those installed for one
\* instance, keeps their types.
LEMMA BumpTyped ==
  ASSUME TypeOK, NEW x \in Inputs, Bump(x)
  PROVE  version' \in Versions
  BY DEF TypeOK, Versions, Bump

LEMMA UsersTyped == TypeOK /\ Users => TypeOK'
<1> SUFFICES ASSUME TypeOK, Users PROVE TypeOK'
  OBVIOUS
<1> USE DEF TypeOK, Change, Fault, NoFault, platform, objects, sender, Inputs
<1>1. ASSUME NEW new \in SUBSET Secrets, ChangeConfig(new) PROVE TypeOK'
  <2>1. version' \in Versions
    BY <1>1, BumpTyped DEF ChangeConfig
  <2> QED
    BY <1>1, <2>1 DEF ChangeConfig
<1>2. ASSUME NEW s \in Secrets, ChangeSecret(s) PROVE TypeOK'
  <2>1. version' \in Versions
    BY <1>2, BumpTyped DEF ChangeSecret
  <2> QED
    BY <1>2, <2>1 DEF ChangeSecret
<1>3. CASE ChangeCABundle
  <2>1. version' \in Versions
    BY <1>3, BumpTyped DEF ChangeCABundle
  <2> QED
    BY <1>3, <2>1 DEF ChangeCABundle
<1>4. ASSUME NEW i \in Instances, Create(i) PROVE TypeOK'
  <2>1. observed' \in [Instances -> Versions]
    BY <1>4 DEF Create, Versions, Unseen
  <2> QED
    BY <1>4, <2>1 DEF Create
<1>5. ASSUME NEW i \in Instances, Delete(i) PROVE TypeOK'
  BY <1>5 DEF Delete
<1>6. ASSUME NEW i \in Instances, NEW S \in SUBSET Instances, Annotate(i, S) PROVE TypeOK'
  BY <1>6 DEF Annotate
<1> QED
  BY <1>1, <1>2, <1>3, <1>4, <1>5, <1>6 DEF Users

LEMMA DeliveryTyped ==
  ASSUME TypeOK, ListInstances \/ Send \/ Relay PROVE TypeOK'
<1> USE DEF TypeOK, Fault, NoFault, platform, objects
<1>1. CASE ListInstances
  <2>1. listing' \in BOOLEAN /\ sending' \subseteq Instances
    BY <1>1, Zenon DEF ListInstances
  <2>2. faults' = faults \/ (faults < MaxFaults /\ faults' = faults + 1)
    BY <1>1, Zenon DEF ListInstances
  <2> QED
    BY <1>1, <2>1, <2>2 DEF ListInstances
<1>2. ASSUME NEW i \in Instances, SendEvent(i) PROVE TypeOK'
  <2>1. channel' \in Seq(Instances) /\ Len(channel') <= Capacity
    BY <1>2 DEF SendEvent
  <2> QED
    BY <1>2, <2>1 DEF SendEvent
<1>3. ASSUME NEW i \in Instances, DropEvent(i) PROVE TypeOK'
  BY <1>3 DEF DropEvent
<1>4. CASE Relay
  <2>1. /\ Head(channel) \in Instances
        /\ Tail(channel) \in Seq(Instances) /\ Len(Tail(channel)) <= Capacity
    BY <1>4 DEF Relay
  <2> QED
    BY <1>4, <2>1 DEF Relay
<1> QED
  BY <1>1, <1>2, <1>3, <1>4 DEF Send

\* The records the worker's steps write.
LEMMA WorkerRecords ==
  /\ Idle \in WorkerType /\ Idle.at = "idle"
  /\ \A i \in Instances, at \in {"started", "installed", "skipped"} :
       Doing(at, i) \in WorkerType /\ Doing(at, i).for = i
  BY DEF WorkerType, Idle, Doing

Installs == Install \/ InstallPart

\* A pass, whether or not it is held up, gets some of the inputs through.
LEMMA InstallSteps ==
  ASSUME Installs
  PROVE  /\ worker.at = "read" /\ worker' = Doing("installed", worker.for)
         /\ UNCHANGED <<platform, objects, sender, queue, timers, changes, faults>>
         /\ late' \in {late, late \cup {worker.for}}
         /\ \E S \in SUBSET Inputs : observed' = Seen(S)
  BY DeliveryAssumption DEF Installs, Install, InstallPart, Inputs

LEMMA SeenContent ==
  ASSUME TypeOK, worker.at = "read", NEW S \in SUBSET Inputs
  PROVE  /\ Seen(S) \in [Instances -> Versions]
         /\ \A i \in Instances : i # worker.for => Seen(S)[i] = observed[i]
         /\ \A x \in Inputs : Seen(S)[worker.for][x] =
              IF x = "config" /\ x \in S THEN worker.config
              ELSE IF x \in S \cap (worker.refs \cup {"ca"}) THEN version[x]
              ELSE observed[worker.for][x]
<1> DEFINE i == worker.for
<1>1. i \in Instances /\ worker.config \in Nat
  BY DEF TypeOK, WorkerType
<1>2. observed[i] \in Versions /\ version \in Versions /\ observed \in [Instances -> Versions]
  BY <1>1 DEF TypeOK
<1>3. [x \in Inputs |-> IF x = "config" /\ x \in S THEN worker.config
                        ELSE IF x \in S \cap (worker.refs \cup {"ca"}) THEN version[x]
                        ELSE observed[i][x]] \in Versions
  BY <1>1, <1>2 DEF Versions
<1> QED
  BY <1>1, <1>2, <1>3 DEF Seen

\* What is installed afterwards is what was, what there is, or what was read.
LEMMA InstallEffect ==
  ASSUME TypeOK, Installs
  PROVE  /\ worker.for \in Instances
         /\ observed' \in [Instances -> Versions]
         /\ \A i \in Instances : i # worker.for => observed'[i] = observed[i]
         /\ \A x \in Inputs : \/ observed'[worker.for][x] = observed[worker.for][x]
                              \/ observed'[worker.for][x] = version[x]
                              \/ x = "config" /\ observed'[worker.for][x] = worker.config
         /\ observed'[worker.for]["config"] \in {worker.config, observed[worker.for]["config"]}
<1>1. worker.at = "read" /\ worker.for \in Instances
  BY InstallSteps DEF TypeOK
<1>2. PICK S \in SUBSET Inputs : observed' = Seen(S)
  BY InstallSteps
<1>3. "config" \in Inputs /\ worker.refs \subseteq Secrets
  BY <1>1 DEF Inputs, TypeOK, WorkerType
<1>4. "config" \notin worker.refs \cup {"ca"}
  BY <1>3, DeliveryAssumption
<1> QED
  BY <1>1, <1>2, <1>3, <1>4, SeenContent

LEMMA WorkerTyped ==
  ASSUME TypeOK,
         Work \/ Crash \/ \E i \in Instances : Begin(i) \/ TimerFires(i)
  PROVE  TypeOK'
<1> USE WorkerRecords DEF TypeOK, Fault, NoFault, platform, objects, sender
<1>1. CASE ReadConfig
  <2>1. worker' \in WorkerType /\ worker'.for \in Instances
    BY <1>1 DEF ReadConfig, WorkerType, Versions, Inputs
  <2> QED
    BY <1>1, <2>1 DEF ReadConfig
<1>2. CASE Installs
  <2>1. worker.for \in Instances /\ observed' \in [Instances -> Versions]
    BY <1>2, InstallEffect
  <2>2. /\ late' \subseteq Instances /\ worker' \in WorkerType /\ worker'.for \in Instances
        /\ UNCHANGED <<platform, objects, sender, queue, timers, changes, faults>>
    BY <1>2, <2>1, InstallSteps
  <2> QED
    BY <2>1, <2>2
<1>3. CASE Finish
  <2>1. worker.for \in Instances
    BY <1>3 DEF Finish
  <2>2. queue' \subseteq Instances /\ timers' \subseteq Instances
    BY <1>3, <2>1 DEF Finish
  <2> QED
    BY <1>3, <2>2 DEF Finish
<1>4. CASE Fail
  <2>1. worker.for \in Instances /\ faults' \in 0..MaxFaults
    BY <1>4 DEF Fail
  <2> QED
    BY <1>4, <2>1 DEF Fail
<1>5. CASE Crash
  BY <1>5 DEF Crash
<1>6. ASSUME NEW i \in Instances, Begin(i) PROVE TypeOK'
  BY <1>6 DEF Begin
<1>7. ASSUME NEW i \in Instances, TimerFires(i) PROVE TypeOK'
  BY <1>7 DEF TimerFires
<1> QED
  BY <1>1, <1>2, <1>3, <1>4, <1>5, <1>6, <1>7 DEF Work, Installs

\* Every variable keeps its type, and the channel never holds more than fits.
THEOREM DeliveryTyping == Spec => []TypeOK
<1>1. TypeOK /\ [Next]_vars => TypeOK'
  <2>1. ASSUME TypeOK, UNCHANGED vars PROVE TypeOK'
    BY <2>1 DEF TypeOK, vars, platform, objects, sender
  <2> QED
    BY <2>1, UsersTyped, DeliveryTyped, WorkerTyped DEF Next
<1> QED
  BY <1>1, InitTyped, PTL DEF Spec
-----------------------------------------------------------------------------
\* Only a new ProviderConfig and the worker's own reading and installing
\* disturb what the worker knows.
LEMMA ReadStays ==
  ASSUME TypeOK, ReadCoherent, [Next]_vars PROVE ReadCoherent'
<1> USE DEF TypeOK, ReadCoherent, Versions, Inputs, WorkerType
<1>1. ASSUME NEW new \in SUBSET Secrets, ChangeConfig(new) PROVE ReadCoherent'
  <2>1. UNCHANGED <<worker, observed>> /\ version'["config"] = version["config"] + 1
    BY <1>1 DEF ChangeConfig, Bump
  <2> QED
    BY <2>1
<1>2. ASSUME NEW x \in Secrets \cup {"ca"}, Bump(x), UNCHANGED <<refs, worker, observed>>
      PROVE  ReadCoherent'
  <2>1. version'["config"] = version["config"]
    BY <1>2 DEF Bump
  <2> QED
    BY <1>2, <2>1
<1>3. CASE ReadConfig
  BY <1>3 DEF ReadConfig, platform
<1>4. CASE Installs
  <2>1. /\ worker.at = "read" /\ worker'.at # "read" /\ UNCHANGED platform
        /\ worker.for \in Instances
    BY <1>4, InstallSteps, InstallEffect DEF Doing
  <2>2. observed'[worker.for]["config"] \in {worker.config, observed[worker.for]["config"]}
    BY <1>4, InstallEffect
  <2>3. \A i \in Instances : i # worker.for => observed'[i] = observed[i]
    BY <1>4, InstallEffect
  <2>4. \A i \in Instances : observed'[i]["config"] <= version["config"]
    BY <2>1, <2>2, <2>3
  <2> QED
    BY <2>1, <2>4 DEF platform
<1>5. ASSUME NEW i \in Instances, Create(i) PROVE ReadCoherent'
  <2>1. UNCHANGED <<version, refs, worker>> /\ observed' = [observed EXCEPT ![i] = Unseen]
    BY <1>5 DEF Create, platform
  <2>2. \A j \in Instances : observed'[j]["config"] \in {0, observed[j]["config"]}
    BY <2>1 DEF Unseen
  <2>3. version["config"] \in Nat /\ worker.config \in Nat
    OBVIOUS
  <2>4. \A j \in Instances : observed'[j]["config"] <= version'["config"]
    BY <2>1, <2>2, <2>3
  <2>5. ASSUME worker.at = "read"
        PROVE  worker.for \in Instances /\ observed'[worker.for]["config"] <= worker.config
    <3>1. worker.for \in Instances
      BY <2>5
    <3>2. observed[worker.for]["config"] <= worker.config
      BY <2>5
    <3>3. observed'[worker.for]["config"] \in {0, observed[worker.for]["config"]}
      BY <2>2, <3>1
    <3>4. 0 <= worker.config
      BY <2>3
    <3> HIDE DEF TypeOK, ReadCoherent, Versions, Inputs, WorkerType
    <3> QED
      BY <3>1, <3>2, <3>3, <3>4
  <2> QED
    BY <2>1, <2>4, <2>5
<1>6. ASSUME UNCHANGED <<platform, observed>>, UNCHANGED worker \/ worker'.at # "read"
      PROVE  ReadCoherent'
  BY <1>6 DEF platform
<1>7. ASSUME Finish \/ Fail \/ Crash \/ \E i \in Instances : Begin(i)
      PROVE  UNCHANGED <<platform, observed>> /\ worker'.at # "read"
  BY <1>7 DEF Finish, Fail, Crash, Begin, Idle, Doing
<1> QED
  BY <1>1, <1>2, <1>3, <1>4, <1>5, <1>6, <1>7
  DEF Next, Users, Send, Work, Installs, vars, ChangeSecret, ChangeCABundle, Delete, Annotate,
      ListInstances, SendEvent, DropEvent, Relay, TimerFires

Delivery == TypeOK /\ ReadCoherent /\ NothingMissed

\* While an event moves on, from the listing to the loop, the channel and the
\* queue, it is not lost on the way but for what is dropped.
LEMMA ReminderMoves ==
  ASSUME TypeOK, ListInstances \/ Send \/ Relay, NEW i \in Managed, OnItsWay(i)
  PROVE  OnItsWay(i)' \/ i \in late'
<1> USE DEF TypeOK
<1>1. CASE ListInstances
  BY <1>1 DEF OnItsWay, ListInstances, Managed
<1>2. ASSUME NEW j \in Instances, SendEvent(j) PROVE OnItsWay(i) => OnItsWay(i)'
  <2>1. /\ Len(channel') = Len(channel) + 1 /\ channel'[Len(channel')] = j
        /\ \A k \in 1..Len(channel) : channel'[k] = channel[k]
    BY <1>2 DEF SendEvent
  <2> QED
    BY <1>2, <2>1 DEF OnItsWay, SendEvent
<1>3. ASSUME NEW j \in Instances, DropEvent(j)
      PROVE  OnItsWay(i) => OnItsWay(i)' \/ i \in late'
  BY <1>3 DEF OnItsWay, DropEvent
<1>4. CASE Relay
  <2>1. /\ queue' = queue \cup {channel[1]} /\ Len(channel') = Len(channel) - 1
        /\ \A k \in 1..Len(channel') : channel'[k] = channel[k + 1]
    BY <1>4 DEF Relay
  <2>2. ASSUME NEW k \in 1..Len(channel), channel[k] = i PROVE OnItsWay(i)'
    <3>1. CASE k = 1
      BY <2>1, <2>2, <3>1 DEF OnItsWay
    <3>2. CASE k # 1
      <4>1. k - 1 \in 1..Len(channel') /\ channel'[k - 1] = i
        BY <2>1, <2>2, <3>2
      <4> QED
        BY <4>1 DEF OnItsWay
    <3> QED
      BY <3>1, <3>2
  <2> QED
    BY <1>4, <2>1, <2>2 DEF OnItsWay, Relay
<1> QED
  BY <1>1, <1>2, <1>3, <1>4 DEF Send

\* An instance that is seen to stays so while its event moves on: from the
\* listing to the loop, the channel, the queue and the worker.
LEMMA EventMoves ==
  ASSUME Delivery, ListInstances \/ Send \/ Relay PROVE NothingMissed'
<1> SUFFICES ASSUME NEW i \in Managed
             PROVE  \/ Current(i)' \/ OnItsWay(i)' \/ InHand(i)' \/ i \in late'
  BY DEF Delivery, NothingMissed, Managed, ListInstances, Send, SendEvent, DropEvent, Relay, objects
<1> USE DEF Delivery, TypeOK
<1>1. Current(i) => Current(i)'
  BY DEF Current, ListInstances, Send, SendEvent, DropEvent, Relay, platform
<1>2. InHand(i) => InHand(i)'
  BY DEF InHand, Working, ListInstances, Send, SendEvent, DropEvent, Relay, platform
<1>3. late \subseteq late'
  BY DEF ListInstances, Send, SendEvent, DropEvent, Relay
<1>4. OnItsWay(i) => OnItsWay(i)' \/ i \in late'
  BY ReminderMoves
<1> QED
  BY <1>1, <1>2, <1>3, <1>4 DEF NothingMissed

\* A turn of the worker ends with the installation of what it has read, or
\* with the instance back in the queue.
LEMMA WorkerDelivers ==
  ASSUME Delivery,
         Work \/ Crash \/ \E j \in Instances : Begin(j) \/ TimerFires(j)
  PROVE  NothingMissed'
<1> SUFFICES ASSUME NEW i \in Managed
             PROVE  \/ Current(i)' \/ OnItsWay(i)' \/ InHand(i)' \/ i \in late'
  BY InstallSteps
  DEF NothingMissed, Managed, Work, Installs, ReadConfig, Finish, Fail, Crash, Begin, TimerFires,
      objects
<1>0. i \in Instances /\ (Current(i) \/ OnItsWay(i) \/ InHand(i) \/ i \in late)
  BY DEF Delivery, TypeOK, NothingMissed, Managed
<1> USE DEF platform, sender
<1>1. CASE ReadConfig
  <2>1. InHand(i) => InHand(i)'
    BY <1>1 DEF ReadConfig, InHand, Working, Delivery, TypeOK, WorkerType
  <2> QED
    BY <1>0, <1>1, <2>1 DEF ReadConfig, Current, OnItsWay
<1>2. CASE Installs /\ worker.for # i
  <2>1. /\ worker.at = "read" /\ observed'[i] = observed[i]
        /\ UNCHANGED <<platform, objects, sender, queue>> /\ late \subseteq late'
    BY <1>0, <1>2, InstallSteps, InstallEffect DEF Delivery
  <2> QED
    BY <1>0, <1>2, <2>1 DEF Current, OnItsWay, InHand, Working
<1>3. CASE Finish
  BY <1>0, <1>3 DEF Finish, Current, OnItsWay, InHand
<1>4. CASE Fail
  BY <1>0, <1>4 DEF Fail, Current, OnItsWay, InHand, Working
<1>5. CASE Crash
  BY <1>5 DEF Crash, OnItsWay
<1>6. ASSUME NEW j \in Instances, Begin(j)
      PROVE  \/ Current(i)' \/ OnItsWay(i)' \/ InHand(i)' \/ i \in late'
  <2>1. CASE i = j
    BY <1>6, <2>1 DEF Begin, InHand, Working, Doing, Managed
  <2>2. CASE i # j
    BY <1>0, <1>6, <2>2 DEF Begin, Current, OnItsWay, InHand, Working
  <2> QED
    BY <2>1, <2>2
<1>7. ASSUME NEW j \in Instances, TimerFires(j)
      PROVE  \/ Current(i)' \/ OnItsWay(i)' \/ InHand(i)' \/ i \in late'
  BY <1>0, <1>7 DEF TimerFires, Current, OnItsWay, InHand, Working
<1>8. CASE Install /\ worker.for = i
  <2>1. OnItsWay(i) => OnItsWay(i)'
    BY <1>8 DEF Install, OnItsWay
  <2>2. CASE worker.config = version["config"]
    <3>1. /\ worker.at = "read" /\ observed' = Seen(Inputs) /\ UNCHANGED platform
          /\ worker.refs = refs /\ {"config"} \cup refs \subseteq Inputs
      BY <1>8, <2>2 DEF Install, Delivery, ReadCoherent, TypeOK, Inputs
    <3>2. \A x \in {"config"} \cup refs : observed'[i][x] = version[x]
      BY <1>8, <2>2, <3>1, SeenContent DEF Delivery
    <3> QED
      BY <3>1, <3>2 DEF Current
  <2>3. CASE worker.config # version["config"]
    <3>1. ~ InHand(i) /\ ~ Current(i)
      BY <1>0, <1>8, <2>3
      DEF Install, InHand, Current, Delivery, TypeOK, ReadCoherent, Versions, Inputs, WorkerType
    <3> QED
      BY <1>0, <1>8, <2>1, <3>1 DEF Install
  <2> QED
    BY <2>2, <2>3
<1>9. CASE InstallPart /\ worker.for = i
  BY <1>9 DEF InstallPart
<1> QED
  BY <1>1, <1>2, <1>3, <1>4, <1>5, <1>6, <1>7, <1>8, <1>9 DEF Work, Installs

\* Whatever is written raises the event it should.
LEMMA ChangesAreSeen ==
  ASSUME Delivery, Users PROVE NothingMissed'
<1> USE DEF objects, sender
<1>1. ASSUME NEW new \in SUBSET Secrets, ChangeConfig(new) PROVE NothingMissed'
  BY <1>1 DEF ChangeConfig, NothingMissed, OnItsWay
<1>2. ASSUME NEW s \in Secrets, ChangeSecret(s) PROVE NothingMissed'
  <2>1. CASE exists \subseteq queue' \cup late'
    BY <1>2, <2>1 DEF ChangeSecret, NothingMissed, OnItsWay, Managed
  <2>2. CASE s \notin refs /\ queue' = queue /\ late' = late
    <3>1. \A x \in {"config"} \cup refs : version'[x] = version[x]
      BY <1>2, <2>2 DEF ChangeSecret, Bump, Delivery, TypeOK, Versions, Inputs
    <3> QED
      BY <1>2, <2>2, <3>1
      DEF ChangeSecret, NothingMissed, Current, OnItsWay, InHand, Working, Managed, Delivery
  <2> QED
    BY <1>2, <2>1, <2>2 DEF ChangeSecret
<1>3. CASE ChangeCABundle
  <2>1. \A x \in {"config"} \cup refs : version'[x] = version[x]
    BY <1>3 DEF ChangeCABundle, Bump, Delivery, TypeOK, Versions, Inputs
  <2> QED
    BY <1>3, <2>1
    DEF ChangeCABundle, NothingMissed, Current, OnItsWay, InHand, Working, Managed, Delivery
<1>4. ASSUME NEW j \in Instances, UNCHANGED <<platform, sender, worker, late>>,
             queue' = queue \cup {j}, Managed' \subseteq Managed \cup {j},
             \A i \in Instances : i # j => observed'[i] = observed[i]
      PROVE  NothingMissed'
  BY <1>4 DEF NothingMissed, Current, OnItsWay, InHand, Working, Managed, Delivery, TypeOK,
              platform
<1>5. ASSUME NEW j \in Instances, Create(j) \/ Delete(j) PROVE NothingMissed'
  BY <1>4, <1>5 DEF Create, Delete, Managed, Delivery, TypeOK
<1>6. ASSUME NEW j \in Instances,
             Annotate(j, ignored \cup {j}) \/ Annotate(j, ignored \ {j})
      PROVE  NothingMissed'
  BY <1>4, <1>6 DEF Annotate, Managed
<1> QED
  BY <1>1, <1>2, <1>3, <1>5, <1>6 DEF Users

\* For every number of instances and secrets, every channel and any crash or
\* failed request: an instance that lags behind is on its way to the worker or
\* in its hands, unless its event was dropped or its last turn was held up.
THEOREM NoChangeIsMissed == Spec => []NothingMissed
<1>1. Init => Delivery
  <2>1. Init => ReadCoherent /\ NothingMissed
    BY DEF Init, ReadCoherent, NothingMissed, OnItsWay, Idle, Doing, Inputs, Unseen
  <2> QED
    BY <2>1, InitTyped DEF Delivery
<1>2. Delivery /\ [Next]_vars => NothingMissed'
  <2>1. ASSUME Delivery, UNCHANGED vars PROVE NothingMissed'
    BY <2>1 DEF Delivery, NothingMissed, Managed, Current, OnItsWay, InHand, Working, vars,
                platform, objects, sender
  <2> QED
    BY <2>1, EventMoves, WorkerDelivers, ChangesAreSeen DEF Next
<1>3. TypeOK /\ Delivery /\ [Next]_vars => ReadCoherent'
  BY ReadStays DEF Delivery
<1>4. Spec => []TypeOK
  BY DeliveryTyping
<1> QED
  BY <1>1, <1>2, <1>3, <1>4, PTL DEF Spec, Delivery
-----------------------------------------------------------------------------
\* Every step that takes an instance out of the queue, the timers or the hands
\* of the worker puts it into another of them, unless it is gone or ignored.
LEMMA StaysInCycle ==
  ASSUME TypeOK, NeverForgotten, [Next]_vars PROVE NeverForgotten'
<1> USE DEF NeverForgotten, Managed, Working, platform, objects, sender
<1>1. ASSUME NEW j \in Instances, queue' = queue \cup {j}, Managed' \subseteq Managed \cup {j},
             UNCHANGED <<timers, worker>>
      PROVE  NeverForgotten'
  BY <1>1
<1>2. ASSUME NEW j \in Instances,
             \/ Create(j) \/ Delete(j)
             \/ Annotate(j, ignored \cup {j}) \/ Annotate(j, ignored \ {j})
      PROVE  NeverForgotten'
  BY <1>1, <1>2 DEF Create, Delete, Annotate
<1>3. ASSUME queue \subseteq queue', UNCHANGED <<objects, timers, worker>> PROVE NeverForgotten'
  BY <1>3
<1>4. CASE Users
  BY <1>2, <1>3, <1>4 DEF Users, ChangeConfig, ChangeSecret, ChangeCABundle
<1>5. CASE ListInstances \/ Send \/ Relay \/ UNCHANGED vars
  BY <1>3, <1>5 DEF ListInstances, Send, SendEvent, DropEvent, Relay, vars
<1>6. CASE ReadConfig
  <2>1. worker'.for = worker.for /\ worker'.at = "read"
    BY <1>6 DEF ReadConfig, TypeOK, WorkerType
  <2> QED
    BY <1>6, <2>1 DEF ReadConfig
<1>7. CASE Installs
  BY <1>7, InstallSteps DEF Doing
<1>8. CASE Finish
  BY <1>8 DEF Finish
<1>9. CASE Fail
  BY <1>9 DEF Fail
<1>10. CASE Crash
  BY <1>10 DEF Crash
<1>11. ASSUME NEW j \in Instances, Begin(j) PROVE NeverForgotten'
  BY <1>11 DEF Begin, Doing
<1>12. ASSUME NEW j \in Instances, TimerFires(j) PROVE NeverForgotten'
  BY <1>12 DEF TimerFires
<1> QED
  BY <1>4, <1>5, <1>6, <1>7, <1>8, <1>9, <1>10, <1>11, <1>12 DEF Next, Work, Installs

\* For every number of instances: none that is there and not ignored drops out
\* of the cycle of queue, worker and timer (updateStatus).
THEOREM NoneIsForgotten == Spec => []NeverForgotten
<1>1. Init => NeverForgotten
  BY DEF Init, NeverForgotten, Managed
<1> QED
  BY <1>1, StaysInCycle, DeliveryTyping, PTL DEF Spec

\* No installation is ahead of what there is to install.
NothingAhead == \A i \in Instances : \A x \in Inputs : observed[i][x] <= version[x]

\* A step of the worker installs nothing older than what is installed.
LEMMA InstallsForwards ==
  ASSUME TypeOK, ReadCoherent, NothingAhead, Installs
  PROVE  /\ \A i \in Instances : \A x \in Inputs : observed[i][x] <= observed'[i][x]
         /\ NothingAhead'
<1> DEFINE i == worker.for
<1>1. i \in Instances /\ UNCHANGED version /\ worker.at = "read"
  BY InstallSteps DEF TypeOK, platform
<1>2. \A j \in Instances : observed[j] \in Versions /\ version \in Versions
  BY DEF TypeOK
<1>3. \A j \in Instances : j # i => observed'[j] = observed[j]
  BY InstallEffect
<1>4. observed[i]["config"] <= worker.config /\ worker.config <= version["config"]
      /\ worker.config \in Nat
  BY <1>1 DEF ReadCoherent, TypeOK, WorkerType
<1>5. \A x \in Inputs : \/ observed'[i][x] = observed[i][x] \/ observed'[i][x] = version[x]
                        \/ x = "config" /\ observed'[i][x] = worker.config
  BY InstallEffect
<1>6. \A x \in Inputs : /\ observed[i][x] \in Nat /\ version[x] \in Nat
                        /\ observed[i][x] <= version[x]
  BY <1>1, <1>2 DEF Versions, NothingAhead
<1>7. \A x \in Inputs : observed[i][x] <= observed'[i][x] /\ observed'[i][x] <= version[x]
  BY <1>4, <1>5, <1>6
<1>8. ASSUME NEW j \in Instances, NEW x \in Inputs
      PROVE  observed[j][x] <= observed'[j][x] /\ observed'[j][x] <= version[x]
  <2>1. CASE j = i
    BY <1>7, <2>1
  <2>2. CASE j # i
    <3>1. observed[j][x] \in Nat
      BY <1>2 DEF Versions
    <3> QED
      BY <1>3, <2>2, <3>1 DEF NothingAhead
  <2> QED
    BY <2>1, <2>2
<1> QED
  BY <1>1, <1>8 DEF NothingAhead

\* Only the worker installs; an instance that is created has nothing installed.
LEMMA OthersInstallNothing ==
  ASSUME TypeOK, [Next]_vars, ~ Installs
  PROVE  \A i \in Instances : observed'[i] = observed[i] \/ (i \notin exists /\ observed'[i] = Unseen)
<1>1. CASE UNCHANGED observed
  BY <1>1
<1>2. ASSUME NEW j \in Instances, Create(j)
      PROVE  \A i \in Instances : observed'[i] = observed[i]
                                \/ (i \notin exists /\ observed'[i] = Unseen)
  BY <1>2 DEF Create, TypeOK
<1> QED
  BY <1>1, <1>2
  DEF Next, Users, Send, Work, Installs, vars, ChangeConfig, ChangeSecret, ChangeCABundle, Delete,
      Annotate, ListInstances, SendEvent, DropEvent, Relay, TimerFires, Begin, ReadConfig, Finish,
      Fail, Crash

\* Versions only grow.
LEMMA VersionsGrow ==
  ASSUME TypeOK, [Next]_vars PROVE \A x \in Inputs : version[x] <= version'[x]
<1>1. ASSUME NEW y \in Inputs, Bump(y) PROVE \A x \in Inputs : version[x] <= version'[x]
  BY <1>1 DEF Bump, TypeOK, Versions
<1>2. CASE UNCHANGED version
  BY <1>2 DEF TypeOK, Versions
<1>3. CASE Users
  BY <1>1, <1>2, <1>3
  DEF Users, ChangeConfig, ChangeSecret, ChangeCABundle, Create, Delete, Annotate, platform, Inputs
<1> QED
  BY <1>2, <1>3
  DEF Next, Send, Work, vars, ListInstances, SendEvent, DropEvent, Relay, TimerFires, Begin,
      ReadConfig, Install, InstallPart, Finish, Fail, Crash, platform

LEMMA NeverAhead ==
  ASSUME TypeOK, TypeOK', ReadCoherent, NothingAhead, [Next]_vars PROVE NothingAhead'
<1>1. CASE Installs
  BY <1>1, InstallsForwards
<1>2. ASSUME ~ Installs, NEW i \in Instances, NEW x \in Inputs
      PROVE  observed'[i][x] <= version'[x]
  <2>1. /\ observed[i][x] \in Nat /\ version[x] \in Nat /\ version'[x] \in Nat
        /\ version[x] <= version'[x] /\ observed[i][x] <= version[x]
    BY VersionsGrow DEF TypeOK, Versions, NothingAhead
  <2>2. observed'[i] = observed[i] \/ observed'[i][x] = 0
    BY <1>2, OthersInstallNothing DEF Unseen
  <2> QED
    BY <2>1, <2>2
<1> QED
  BY <1>1, <1>2 DEF NothingAhead

\* For every number of instances and secrets: what is installed for one that
\* stays never goes back to an earlier version, although the ProviderConfig
\* may have changed since the worker read it (doReconcile).
THEOREM OnlyForwards == Spec => NeverBackwards
<1>1. Init => NothingAhead /\ ReadCoherent
  BY DEF Init, NothingAhead, ReadCoherent, Idle, Doing, Inputs, Unseen
<1>2. TypeOK /\ ReadCoherent /\ NothingAhead /\ [Next]_vars =>
        [\A i \in exists \cap exists' : \A x \in Inputs : observed[i][x] <= observed'[i][x]]_vars
  <2> SUFFICES ASSUME TypeOK, ReadCoherent, NothingAhead, [Next]_vars,
                      NEW i \in exists \cap exists', NEW x \in Inputs
               PROVE  observed[i][x] <= observed'[i][x]
    OBVIOUS
  <2>1. i \in Instances /\ observed[i][x] \in Nat
    BY DEF TypeOK, Versions
  <2>2. CASE Installs
    BY <2>1, <2>2, InstallsForwards
  <2>3. CASE ~ Installs
    BY <2>1, <2>3, OthersInstallNothing
  <2> QED
    BY <2>2, <2>3
<1>3. TypeOK /\ ReadCoherent /\ [Next]_vars => ReadCoherent'
  BY ReadStays
<1>4. TypeOK /\ TypeOK' /\ ReadCoherent /\ NothingAhead /\ [Next]_vars => NothingAhead'
  BY NeverAhead
<1> QED
  BY <1>1, <1>2, <1>3, <1>4, DeliveryTyping, PTL DEF Spec, NeverBackwards
-----------------------------------------------------------------------------
(* No reminder of an instance is lost.                                     *)

\* The variables of Attention for instance i.
Due(i)    == i \notin Managed \/ OnItsWay(i) \/ (Working(i) /\ worker.at = "started")
Taken(i)  == IF Working(i) /\ worker.at = "read" THEN <<worker.config, worker.refs>> ELSE <<>>
Wanted    == <<version["config"], refs>>
Copied    == [x \in refs |-> version[x]]
Louder(i) == (Due(i) => Due(i)') /\ (i \in late => i \in late')

\* The actions of Attention in these terms.
LEMMA AttentionSteps ==
  ASSUME NEW i \in Instances
  PROVE  /\ (UNCHANGED <<Wanted, Copied, Taken(i)>> /\ Louder(i)) => Attending(i)!Remind
         /\ (/\ Wanted' # Wanted \/ Copied' # Copied
             /\ Due(i)' \/ i \in late'
             /\ Louder(i) /\ UNCHANGED Taken(i)) => Attending(i)!Change
         /\ (UNCHANGED <<Wanted, Copied, Taken(i)>> /\ i \in late') => Attending(i)!Postpone
         /\ (UNCHANGED <<Wanted, Copied>> /\ Taken(i) = <<>> /\ Taken(i)' = <<>> /\ Due(i)') =>
              Attending(i)!Attend
         /\ (UNCHANGED <<Wanted, Copied>> /\ Taken(i) = <<>> /\ Taken(i)' = Wanted) =>
              Attending(i)!Take
         /\ (UNCHANGED <<Wanted, Copied>> /\ Taken(i)' = <<>> /\ Louder(i)) => Attending(i)!Finish
         /\ (UNCHANGED <<Wanted, Copied>> /\ Taken(i)' = <<>> /\ Due(i)') => Attending(i)!Restart
<1> USE DEF Due, Taken, Wanted, Copied, Louder, Attending!Louder
<1>1. (UNCHANGED <<Wanted, Copied, Taken(i)>> /\ Louder(i)) => Attending(i)!Remind
  BY DEF Attending!Remind
<1>2. ASSUME Wanted' # Wanted \/ Copied' # Copied, Due(i)' \/ i \in late', Louder(i),
             UNCHANGED Taken(i)
      PROVE  Attending(i)!Change
  BY <1>2 DEF Attending!Change
<1>3. (UNCHANGED <<Wanted, Copied, Taken(i)>> /\ i \in late') => Attending(i)!Postpone
  BY DEF Attending!Postpone
<1>4. (UNCHANGED <<Wanted, Copied>> /\ Taken(i) = <<>> /\ Taken(i)' = <<>> /\ Due(i)') =>
        Attending(i)!Attend
  BY DEF Attending!Attend
<1>5. (UNCHANGED <<Wanted, Copied>> /\ Taken(i) = <<>> /\ Taken(i)' = Wanted) =>
        Attending(i)!Take
  BY DEF Attending!Take
<1>6. (UNCHANGED <<Wanted, Copied>> /\ Taken(i)' = <<>> /\ Louder(i)) => Attending(i)!Finish
  BY DEF Attending!Finish
<1>7. (UNCHANGED <<Wanted, Copied>> /\ Taken(i)' = <<>> /\ Due(i)') => Attending(i)!Restart
  BY DEF Attending!Restart
<1> QED
  BY <1>1, <1>2, <1>3, <1>4, <1>5, <1>6, <1>7

\* What the inputs and the worker's reading depend on.
LEMMA AttentionStays ==
  ASSUME NEW i \in Instances
  PROVE  /\ UNCHANGED platform => UNCHANGED <<Wanted, Copied>>
         /\ UNCHANGED worker => UNCHANGED Taken(i)
BY DEF platform, Wanted, Copied, Taken, Working

\* A user's or an admin's write reminds the instances it is about.
LEMMA UsersRemind ==
  ASSUME TypeOK, Users, NEW i \in Instances
  PROVE  Attending(i)!Change \/ Attending(i)!Remind
<1> USE DEF Louder, objects, sender
<1>1. ASSUME NEW new \in SUBSET Secrets, ChangeConfig(new) PROVE Attending(i)!Change
  <2>1. Wanted' # Wanted
    BY <1>1 DEF ChangeConfig, Bump, Wanted, TypeOK, Versions, Inputs
  <2>2. Due(i)' /\ UNCHANGED Taken(i) /\ late' = late
    BY <1>1, AttentionStays DEF ChangeConfig, Due, OnItsWay
  <2> QED
    BY <2>1, <2>2, AttentionSteps
<1>2. ASSUME NEW s \in Secrets, ChangeSecret(s)
      PROVE  Attending(i)!Change \/ Attending(i)!Remind
  <2>1. UNCHANGED <<refs, objects, sender, worker>> /\ queue \subseteq queue' /\ late \subseteq late'
    BY <1>2 DEF ChangeSecret
  <2>2. UNCHANGED <<Wanted, Taken(i)>> /\ Louder(i)
    <3>1. version'["config"] = version["config"]
      BY <1>2 DEF ChangeSecret, Bump, TypeOK, Versions, Inputs
    <3> QED
      BY <2>1, <3>1, AttentionStays DEF Wanted, Due, OnItsWay, Managed, Working
  <2>3. CASE s \in refs
    <3>1. Due(i)' \/ i \in late'
      BY <1>2, <2>3 DEF ChangeSecret, Due, OnItsWay, Managed
    <3> QED
      BY <2>2, <3>1, AttentionSteps
  <2>4. CASE s \notin refs
    <3>1. \A x \in refs : version'[x] = version[x]
      BY <1>2, <2>4 DEF ChangeSecret, Bump, TypeOK, Versions, Inputs
    <3>2. UNCHANGED Copied
      BY <2>1, <3>1 DEF Copied
    <3> QED
      BY <2>2, <3>2, AttentionSteps
  <2> QED
    BY <2>3, <2>4
<1>3. CASE ChangeCABundle
  <2>1. \A x \in {"config"} \cup refs : version'[x] = version[x]
    BY <1>3 DEF ChangeCABundle, Bump, TypeOK, Versions, Inputs
  <2>2. UNCHANGED <<Wanted, Copied, Taken(i)>> /\ Louder(i)
    BY <1>3, <2>1, AttentionStays
    DEF ChangeCABundle, Wanted, Copied, Due, OnItsWay, Managed, Working
  <2> QED
    BY <2>2, AttentionSteps
<1>4. ASSUME NEW j \in Instances, UNCHANGED <<platform, sender, worker, late>>,
             queue' = queue \cup {j}, i # j => (i \in Managed' <=> i \in Managed)
      PROVE  Attending(i)!Remind
  <2>1. Due(i) => Due(i)'
    BY <1>4 DEF Due, OnItsWay, Working
  <2> QED
    BY <1>4, <2>1, AttentionStays, AttentionSteps
<1>5. ASSUME NEW j \in Instances,
             \/ Create(j) \/ Delete(j)
             \/ Annotate(j, ignored \cup {j}) \/ Annotate(j, ignored \ {j})
      PROVE  Attending(i)!Remind
  BY <1>4, <1>5 DEF Create, Delete, Annotate, Managed
<1> QED
  BY <1>1, <1>2, <1>3, <1>5 DEF Users

\* On its way to the worker a reminder is kept, or left to the timer.
LEMMA DeliveryReminds ==
  ASSUME TypeOK, ListInstances \/ Send \/ Relay, NEW i \in Instances
  PROVE  Attending(i)!Remind \/ Attending(i)!Postpone
<1>1. UNCHANGED <<platform, objects, worker>> /\ late \subseteq late'
  BY DEF ListInstances, Send, SendEvent, DropEvent, Relay
<1>2. i \in Managed' <=> i \in Managed
  BY <1>1 DEF Managed, objects
<1>3. Due(i) => Due(i)' \/ i \in late'
  BY <1>1, <1>2, ReminderMoves DEF Due, Working
<1> QED
  BY <1>1, <1>3, AttentionStays, AttentionSteps DEF Louder

\* The worker answers a reminder by reading, and asks for another when it fails.
LEMMA WorkerAttends ==
  ASSUME TypeOK, Work \/ Crash \/ \E j \in Instances : Begin(j) \/ TimerFires(j),
         NEW i \in Instances
  PROVE  Attending(i)!Next
<1> USE DEF Louder, objects, sender, Attending!Next
<1>1. CASE ReadConfig
  <2>1. /\ worker'.for = worker.for /\ worker'.at = "read"
        /\ worker'.config = version["config"] /\ worker'.refs = refs
    BY <1>1 DEF ReadConfig, TypeOK, WorkerType
  <2>2. UNCHANGED <<Wanted, Copied>> /\ Taken(i) = <<>>
    BY <1>1, AttentionStays DEF ReadConfig, Taken
  <2>3. CASE worker.for = i
    <3>1. Taken(i)' = Wanted
      BY <2>1, <2>3 DEF Taken, Working, Wanted
    <3> QED
      BY <2>2, <3>1, AttentionSteps
  <2>4. CASE worker.for # i
    <3>1. Taken(i)' = <<>> /\ Louder(i)
      BY <1>1, <2>1, <2>4 DEF ReadConfig, Taken, Working, Due, OnItsWay, Managed
    <3> QED
      BY <2>2, <3>1, AttentionSteps
  <2> QED
    BY <2>3, <2>4
<1>2. CASE Installs \/ Finish
  <2>1. UNCHANGED <<platform, objects, sender>> /\ queue \subseteq queue' /\ late \subseteq late'
        /\ worker.at # "started" /\ worker'.at \notin {"started", "read"}
    BY <1>2, InstallSteps DEF Finish, Doing, Idle
  <2>2. Taken(i)' = <<>> /\ Louder(i)
    BY <2>1 DEF Taken, Due, OnItsWay, Managed
  <2> QED
    BY <2>1, <2>2, AttentionStays, AttentionSteps
<1>3. CASE Fail
  <2>1. UNCHANGED <<platform, objects, sender, late>> /\ queue' = queue \cup {worker.for}
        /\ worker'.at = "idle"
    BY <1>3 DEF Fail, Doing, Idle
  <2>2. Taken(i)' = <<>> /\ Louder(i)
    BY <2>1 DEF Taken, Due, OnItsWay, Managed, Working
  <2> QED
    BY <2>1, <2>2, AttentionStays, AttentionSteps
<1>4. CASE Crash
  <2>1. UNCHANGED platform /\ Taken(i)' = <<>> /\ Due(i)'
    BY <1>4 DEF Crash, Taken, Due, OnItsWay, Idle, Doing
  <2> QED
    BY <2>1, AttentionStays, AttentionSteps
<1>5. ASSUME NEW j \in Instances, Begin(j) PROVE Attending(i)!Next
  <2>1. Taken(i) = <<>> /\ Taken(i)' = <<>> /\ UNCHANGED <<platform, objects, sender>>
    BY <1>5 DEF Begin, Taken, Working, Doing, Idle
  <2>2. CASE i = j
    <3>1. Due(i)'
      BY <1>5, <2>1, <2>2 DEF Begin, Due, Managed, Working, Doing
    <3> QED
      BY <2>1, <3>1, AttentionStays, AttentionSteps
  <2>3. CASE i # j
    <3>1. Louder(i)
      BY <1>5, <2>1, <2>3 DEF Begin, Due, OnItsWay, Managed, Working
    <3> QED
      BY <2>1, <3>1, AttentionStays, AttentionSteps
  <2> QED
    BY <2>2, <2>3
<1>6. ASSUME NEW j \in Instances, TimerFires(j) PROVE Attending(i)!Next
  <2>1. UNCHANGED <<platform, objects, sender, worker, late>> /\ queue \subseteq queue'
    BY <1>6 DEF TimerFires
  <2>2. Louder(i)
    BY <2>1 DEF Due, OnItsWay, Managed, Working
  <2> QED
    BY <2>1, <2>2, AttentionStays, AttentionSteps
<1> QED
  BY <1>1, <1>2, <1>3, <1>4, <1>5, <1>6 DEF Work, Installs

\* For every instance, whatever the others and the channel do: a change reminds
\* the worker by an event or is left to the timer, and is forgotten only once it
\* has been read (ProviderConfigReconciler.Reconcile, mapSecretToRequests).
THEOREM NoReminderIsLost == Spec => KeepsAttention
<1>1. ASSUME Init, NEW i \in Instances PROVE Attending(i)!Init
  <2>1. ~ Working(i) /\ OnItsWay(i)
    BY <1>1 DEF Init, Working, OnItsWay, Idle, Doing
  <2> QED
    BY <2>1 DEF Attending!Init
<1>2. TypeOK /\ [Next]_vars =>
        [\A i \in Instances : [Attending(i)!Next]_(Attending(i)!vars)]_vars
  <2>1. ASSUME TypeOK, Next, NEW i \in Instances PROVE Attending(i)!Next
    BY <2>1, UsersRemind, DeliveryReminds, WorkerAttends DEF Next, Attending!Next
  <2> QED
    BY <2>1
<1>3. Init => \A i \in Instances : Attending(i)!Init
  BY <1>1
<1> QED
  BY <1>2, <1>3, DeliveryTyping, PTL DEF Spec, KeepsAttention
=============================================================================
