---------------------------- MODULE EventDelivery ----------------------------
(***************************************************************************)
(* How a change on the platform cluster reaches every Crossplane instance: *)
(* the ProviderConfigReconciler (internal/controller/                      *)
(* providerconfig_controller.go) and its bounded channel, the watch of the *)
(* secrets the ProviderConfig refers to, and the requeue timers of the     *)
(* CrossplaneReconciler, whose worker is one of many readers here.         *)
(*                                                                         *)
(* The inputs of an installation are counted in versions; what is done     *)
(* with them is the subject of CrossplaneReconciler, and an instance in    *)
(* deletion counts as gone.                                                *)
(***************************************************************************)
EXTENDS Integers, Sequences

CONSTANTS Instances,   \* the names of Crossplane instances
          Secrets,     \* the secrets in the operator's namespace
          Capacity,    \* of the channel between the reconcilers, 128 in main.go
          Parts,       \* bound: the inputs a pass may get through when it is held up
          MaxChanges,  \* bound: writes by users and admins
          MaxFaults    \* bound: failed requests and crashes

ASSUME DeliveryAssumption ==
  /\ Capacity \in Nat \ {0} /\ MaxChanges \in Nat /\ MaxFaults \in Nat
  /\ {"config", "ca"} \cap Secrets = {} /\ "nobody" \notin Instances
  /\ Parts \subseteq SUBSET ({"config", "ca"} \cup Secrets)

VARIABLES
  version,   \* of each input on the platform cluster
  refs,      \* the secrets the ProviderConfig refers to
  exists, ignored,   \* the instances, and those annotated with "ignore"
  listing,   \* the ProviderConfig waits for its reconcile
  sending,   \* the instances a reconcile of it has still to send
  channel,   \* SendEventsChannel, alias RecieveEventsChannel
  queue,     \* the work queue of the CrossplaneReconciler
  timers,    \* the instances with a requeue to come
  worker,    \* what the CrossplaneReconciler is doing, for whom
  observed,  \* the versions last installed for each instance
  late,      \* history: instances with nothing but the timer to help, since an
             \* event was dropped or their last turn could not do everything
  changes, faults    \* counters of the two bounds

platform == <<version, refs>>
objects  == <<exists, ignored>>
sender   == <<listing, sending, channel>>
vars     == <<platform, objects, sender, queue, timers, worker, observed, late, changes, faults>>

Inputs   == {"config", "ca"} \cup Secrets
Versions == [Inputs -> Nat]
Unseen   == [x \in Inputs |-> 0]

WorkerType == [at : {"idle", "started", "read", "installed", "skipped"},
               for : Instances \cup {"nobody"}, config : Nat, refs : SUBSET Secrets]
Doing(at, i) == [at |-> at, for |-> i, config |-> 0, refs |-> {}]
Idle == Doing("idle", "nobody")

TypeOK ==
  /\ version \in Versions /\ refs \subseteq Secrets
  /\ exists \subseteq Instances /\ ignored \subseteq Instances
  /\ listing \in BOOLEAN /\ sending \subseteq Instances
  /\ channel \in Seq(Instances) /\ Len(channel) <= Capacity
  /\ queue \subseteq Instances /\ timers \subseteq Instances
  /\ worker \in WorkerType
  /\ worker.at # "idle" => worker.for \in Instances
  /\ observed \in [Instances -> Versions] /\ late \subseteq Instances
  /\ changes \in 0..MaxChanges /\ faults \in 0..MaxFaults

\* The operator starts: the watches list what is there.
Init ==
  /\ version = [x \in Inputs |-> 1] /\ refs \in SUBSET Secrets
  /\ exists \in SUBSET Instances /\ ignored = {} /\ queue = exists
  /\ listing = TRUE /\ sending = {} /\ channel = <<>> /\ timers = {}
  /\ worker = Idle /\ observed = [i \in Instances |-> Unseen] /\ late = {}
  /\ changes = 0 /\ faults = 0

Fault   == faults < MaxFaults /\ faults' = faults + 1
NoFault == faults' = faults
-----------------------------------------------------------------------------
(* Users and admins.                                                       *)

Change == changes < MaxChanges /\ changes' = changes + 1
Bump(x) == version' = [version EXCEPT ![x] = @ + 1]

\* The ProviderConfigReconciler watches the ProviderConfig.
ChangeConfig(new) ==
  /\ Change /\ Bump("config") /\ refs' = new /\ listing' = TRUE
  /\ UNCHANGED <<objects, sending, channel, queue, timers, worker, observed, late, faults>>

\* mapSecretToRequests: all instances, if the ProviderConfig refers to the
\* secret.  When it cannot read the one or list the others, the event is gone.
ChangeSecret(s) ==
  /\ Change /\ Bump(s)
  /\ \/ /\ NoFault
        /\ queue' = queue \cup (IF s \in refs THEN exists ELSE {})
        /\ UNCHANGED late
     \/ /\ Fault
        /\ late' = late \cup exists
        /\ UNCHANGED queue
  /\ UNCHANGED <<refs, objects, sender, timers, worker, observed>>

\* Nobody watches the ConfigMap with the CA bundle.
ChangeCABundle ==
  /\ Change /\ Bump("ca")
  /\ UNCHANGED <<refs, objects, sender, queue, timers, worker, observed, late, faults>>

\* Writes to an instance, its deletion included, raise an event of the watch on it.
Create(i) ==
  /\ Change /\ i \notin exists
  /\ exists' = exists \cup {i} /\ ignored' = ignored \ {i} /\ queue' = queue \cup {i}
  /\ observed' = [observed EXCEPT ![i] = Unseen]
  /\ UNCHANGED <<platform, sender, timers, worker, late, faults>>

Delete(i) ==
  /\ Change /\ i \in exists
  /\ exists' = exists \ {i} /\ queue' = queue \cup {i}
  /\ UNCHANGED <<platform, ignored, sender, timers, worker, observed, late, faults>>

Annotate(i, S) ==
  /\ Change /\ i \in exists /\ ignored' = S /\ queue' = queue \cup {i}
  /\ UNCHANGED <<platform, exists, sender, timers, worker, observed, late, faults>>
-----------------------------------------------------------------------------
(* The ProviderConfigReconciler.                                           *)

\* Reconcile: list the instances; on an error the queue tries again.
ListInstances ==
  /\ listing /\ sending = {}
  /\ \/ NoFault /\ listing' = FALSE /\ sending' = exists
     \/ Fault /\ UNCHANGED <<listing, sending>>
  /\ UNCHANGED <<platform, objects, channel, queue, timers, worker, observed, late, changes>>

\* Mutant: an event for every instance, whatever the channel holds.
SendEventUnbounded(i) ==
  /\ i \in sending
  /\ channel' = Append(channel, i) /\ sending' = sending \ {i}
  /\ UNCHANGED <<platform, objects, listing, queue, timers, worker, observed, late, changes, faults>>

\* The send goes through as long as there is room.
SendEvent(i) ==
  /\ i \in sending /\ Len(channel) < Capacity
  /\ channel' = Append(channel, i) /\ sending' = sending \ {i}
  /\ UNCHANGED <<platform, objects, listing, queue, timers, worker, observed, late, changes, faults>>

\* Mutant: the timeout ends the loop.
DropEventAndReturn(i) ==
  /\ i \in sending /\ Len(channel) = Capacity
  /\ late' = late \cup {i} /\ sending' = {}
  /\ UNCHANGED <<platform, objects, listing, channel, queue, timers, worker, observed, changes, faults>>

\* The channel was full for a second: this instance is left out.
DropEvent(i) ==
  /\ i \in sending /\ Len(channel) = Capacity
  /\ late' = late \cup {i} /\ sending' = sending \ {i}
  /\ UNCHANGED <<platform, objects, listing, channel, queue, timers, worker, observed, changes, faults>>

\* source.Channel hands the event to the work queue.
Relay ==
  /\ channel # <<>>
  /\ queue' = queue \cup {Head(channel)} /\ channel' = Tail(channel)
  /\ UNCHANGED <<platform, objects, listing, sending, timers, worker, observed, late, changes, faults>>
-----------------------------------------------------------------------------
(* The CrossplaneReconciler: one worker.                                   *)

Working(i) == worker.at # "idle" /\ worker.for = i

\* Reconcile starts; there is nothing to do for an instance that is gone.
Begin(i) ==
  /\ worker.at = "idle" /\ i \in queue
  /\ queue' = queue \ {i} /\ late' = late \ {i}
  /\ worker' = IF i \notin exists THEN Idle
               ELSE Doing(IF i \in ignored THEN "skipped" ELSE "started", i)
  /\ UNCHANGED <<platform, objects, sender, timers, observed, changes, faults>>

\* Mutant: the ProviderConfig may come from a cache that lags behind.
ReadConfigOutdated ==
  /\ worker.at = "started"
  /\ \E n \in {version["config"] - 1, version["config"]} :
       worker' = [worker EXCEPT !.at = "read", !.config = n, !.refs = refs]
  /\ UNCHANGED <<platform, objects, sender, queue, timers, observed, late, changes, faults>>

\* doReconcile reads the ProviderConfig once, for the whole of the reconcile.
ReadConfig ==
  /\ worker.at = "started"
  /\ worker' = [worker EXCEPT !.at = "read", !.config = version["config"], !.refs = refs]
  /\ UNCHANGED <<platform, objects, sender, queue, timers, observed, late, changes, faults>>

\* What has got through to the instance of for S: the ProviderConfig as it was
\* read, the CA bundle and the secrets as they are by now.
Seen(S) ==
  [observed EXCEPT ![worker.for] =
     [x \in Inputs |-> IF x = "config" /\ x \in S THEN worker.config
                       ELSE IF x \in S \cap (worker.refs \cup {"ca"}) THEN version[x] ELSE @[x]]]

\* A pass that installs everything.
Install ==
  /\ worker.at = "read"
  /\ observed' = Seen(Inputs)
  /\ worker' = Doing("installed", worker.for)
  /\ UNCHANGED <<platform, objects, sender, queue, timers, late, changes, faults>>

\* A pass that is held up, in all or in part, without an error: the access is
\* pending, the version unknown, the source of a secret or of the CA bundle
\* missing, Crossplane not healthy, or the request of a component fails.  The
\* rest of the inputs is left to the timer.
InstallPart ==
  /\ worker.at = "read"
  /\ \E S \in Parts : observed' = Seen(S)
  /\ late' = late \cup {worker.for}
  /\ worker' = Doing("installed", worker.for)
  /\ UNCHANGED <<platform, objects, sender, queue, timers, changes, faults>>

\* Mutant: no requeue for an instance that is installed.
FinishForGood ==
  /\ worker.at \in {"installed", "skipped"} /\ worker' = Idle
  /\ queue' \in {queue, queue \cup {worker.for}}
  /\ UNCHANGED <<platform, objects, sender, timers, observed, late, changes, faults>>

\* updateStatus: every way through the handler sets the next requeue, unless
\* the instance is ignored.  A status that changes comes back as an event.
Finish ==
  /\ worker.at \in {"installed", "skipped"} /\ worker' = Idle
  /\ timers' = IF worker.at = "installed" THEN timers \cup {worker.for} ELSE timers
  /\ queue' \in {queue, queue \cup {worker.for}}
  /\ UNCHANGED <<platform, objects, sender, observed, late, changes, faults>>

\* An error at any point; the instance goes back to the queue.
Fail ==
  /\ worker.at # "idle"
  /\ (worker.for \notin exists /\ NoFault) \/ Fault
  /\ worker' = Idle /\ queue' = queue \cup {worker.for}
  /\ UNCHANGED <<platform, objects, sender, timers, observed, late, changes>>

TimerFires(i) ==
  /\ i \in timers /\ timers' = timers \ {i} /\ queue' = queue \cup {i}
  /\ UNCHANGED <<platform, objects, sender, worker, observed, late, changes, faults>>

\* The operator restarts: channel, queue and timers are gone, and the watches
\* list everything again.
Crash ==
  /\ Fault
  /\ listing' = TRUE /\ sending' = {} /\ channel' = <<>>
  /\ queue' = exists /\ timers' = {} /\ worker' = Idle /\ late' = {}
  /\ UNCHANGED <<platform, objects, observed, changes>>
-----------------------------------------------------------------------------
Users == \/ \E new \in SUBSET Secrets : ChangeConfig(new)
         \/ \E s \in Secrets : ChangeSecret(s)
         \/ ChangeCABundle
         \/ \E i \in Instances : \/ Create(i) \/ Delete(i)
                                 \/ Annotate(i, ignored \cup {i}) \/ Annotate(i, ignored \ {i})
Send == \E i \in Instances : SendEvent(i) \/ DropEvent(i)
Work == ReadConfig \/ Install \/ InstallPart \/ Finish \/ Fail

Next == \/ Users \/ ListInstances \/ Send \/ Relay \/ Work \/ Crash
        \/ \E i \in Instances : Begin(i) \/ TimerFires(i)

Spec == Init /\ [][Next]_vars

\* Goroutines run, timers fire, and the work queue serves everyone in turn.
Fairness ==
  /\ WF_vars(ListInstances) /\ WF_vars(Send) /\ WF_vars(Relay) /\ WF_vars(Work)
  /\ \A i \in Instances : SF_vars(Begin(i)) /\ WF_vars(TimerFires(i))

FairSpec == Spec /\ Fairness
-----------------------------------------------------------------------------
Managed == exists \ ignored

\* What is installed for i is what the ProviderConfig and its secrets say.
Current(i) == \A x \in {"config"} \cup refs : observed[i][x] = version[x]

\* Something will make the worker look at i without waiting for a timer.
OnItsWay(i) ==
  \/ listing \/ i \in sending \cup queue
  \/ \E k \in 1..Len(channel) : channel[k] = i

\* The worker will install the ProviderConfig and the secrets of this moment.
InHand(i) ==
  /\ Working(i)
  /\ \/ worker.at = "started"
     \/ worker.at = "read" /\ worker.config = version["config"]

\* Whatever is interrupted, crashes or happens meanwhile, an instance that
\* lags behind is being seen to, unless its event was dropped or its last turn
\* was held up: no change falls between the listing, the channel, the queue and
\* a reconcile that has read the ProviderConfig before
\* (ProviderConfigReconciler.Reconcile, mapSecretToRequests, doReconcile).
NothingMissed ==
  \A i \in Managed : Current(i) \/ OnItsWay(i) \/ InHand(i) \/ i \in late

\* No instance drops out of the cycle of queue, worker and timer, whatever the
\* worker was doing with it when it was annotated, deleted and re-created, or
\* when the operator crashed; only an instance that is ignored may
\* (updateStatus, smartRequeueConditional).
NeverForgotten ==
  \A i \in Managed : i \in queue \cup timers \/ (Working(i) /\ worker.at # "skipped")

\* An installation never goes back to an earlier ProviderConfig or secret,
\* however late the worker comes to install what it has read (doReconcile).
NeverBackwards ==
  [][\A i \in exists \cap exists' : \A x \in Inputs : observed[i][x] <= observed'[i][x]]_vars

\* The listing, the channel, the queue and the worker are one reminder of an
\* instance, and what was dropped is the timer's.
Attending(i) == INSTANCE Attention WITH
  Nothing <- <<>>,
  wanted  <- <<version["config"], refs>>,
  copied  <- [x \in refs |-> version[x]],
  taken   <- IF Working(i) /\ worker.at = "read" THEN <<worker.config, worker.refs>> ELSE <<>>,
  due     <- i \notin Managed \/ OnItsWay(i) \/ (Working(i) /\ worker.at = "started"),
  late    <- i \in late

\* For each instance no step loses a reminder before the worker has read what
\* it was about (ProviderConfigReconciler.Reconcile, doReconcile).
KeepsAttention ==
  /\ \A i \in Instances : Attending(i)!Init
  /\ [][\A i \in Instances : [Attending(i)!Next]_(Attending(i)!vars)]_vars

\* Dropped events and the unwatched CA bundle only delay: once nobody changes
\* anything any more, every instance gets to see the last version of all its
\* inputs, by its timer if need be, unless its passes are held up again and
\* again (updateStatus, smartRequeueConditional).
EventuallySeen ==
  \A i \in Instances :
    \/ <>[](i \in Managed => Current(i) /\ observed[i]["ca"] = version["ca"])
    \/ []<><<InstallPart /\ worker.for = i>>_vars

\* Nothing goes back to an earlier ProviderConfig: not the version installed,
\* nor the one the worker has read, and this one comes with its secrets
\* (doReconcile).
ReadCoherent ==
  /\ \A i \in Instances : observed[i]["config"] <= version["config"]
  /\ worker.at = "read" =>
       /\ observed[worker.for]["config"] <= worker.config
       /\ worker.config <= version["config"]
       /\ worker.config = version["config"] => worker.refs = refs
=============================================================================
